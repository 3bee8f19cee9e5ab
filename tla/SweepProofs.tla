---------------------------- MODULE SweepProofs -----------------------------
(***************************************************************************)
(* Proofs about Sweep, for every set of identities, every number of tries, *)
(* polls and repetitions of the script, and therefore of runners.          *)
(***************************************************************************)
EXTENDS Sweep, TLAPS

States == Running \cup {"killed", "exited"}

RunnerRecord ==
  [state : States, force : BOOLEAN, wanted : SUBSET Ids, keys : SUBSET Ids,
   fd : Nat \cup {None}, met : SUBSET Nat]

Entry == [id : Ids, by : Nat]

\* The types of the script's side.
ScriptType ==
  /\ pc \in Ended \cup {"sync", "teardown", "launch", "confirm", "poll", "fetch"}
  /\ pc \notin Ended => asked \in [wanted : SUBSET Ids, force : BOOLEAN]
  /\ torn \in BOOLEAN

\* The types of the devbox, and that a runner has a file open exactly from
\* Open on.
FileType ==
  /\ runner \in Seq(RunnerRecord)
  /\ inodes \in Seq(Seq(Entry))
  /\ path \in DOMAIN inodes \cup {None}
  /\ \A r \in DOMAIN runner :
       /\ runner[r].fd \in DOMAIN inodes \cup {None}
       /\ runner[r].state \in {"start", "unlink", "open"} => runner[r].fd = None
       /\ runner[r].state \in {"search", "wrote", "told"} => runner[r].fd # None

\* While every teardown went through, only the last runner is alive, none
\* between a teardown and the launch, and it writes to the named file.
LastAlone ==
  torn => /\ pc = "launch" => Live = {}
          /\ \A r \in Live : r = Len(runner) /\ runner[r].fd \in {None, path}

\* What stands in a file was written by a runner that has it open, or had.
EntriesOwn ==
  \A f \in DOMAIN inodes : \A n \in DOMAIN inodes[f] :
    /\ inodes[f][n].by \in DOMAIN runner
    /\ runner[inodes[f][n].by].fd = f

\* No runner records an identity twice.
OncePerRunner ==
  \A f \in DOMAIN inodes : \A n, k \in DOMAIN inodes[f] :
    inodes[f][n] = inodes[f][k] => n = k

\* What r wrote to the file that s has open, or is about to open, is among the
\* keys s has read.
Covered(s, r) ==
  /\ runner[s].state = "open" /\ path # None =>
       \A n \in DOMAIN inodes[path] :
         inodes[path][n].by = r => inodes[path][n].id \in runner[s].keys
  /\ runner[s].fd # None =>
       \A n \in DOMAIN inodes[runner[s].fd] :
         inodes[runner[s].fd][n].by = r => inodes[runner[s].fd][n].id \in runner[s].keys

\* r is gone, and s knows what it left.
Follows(s, r) == r \notin Live /\ Covered(s, r)

Known(s, r) ==
  \/ runner[s].state = "start" \/ runner[r].state = "start"
  \/ r \in runner[s].met \/ s \in runner[r].met
  \/ Follows(s, r) \/ Follows(r, s)

Ordered == \A r, s \in DOMAIN runner : r # s => Known(s, r)

FilesInv == FileType /\ EntriesOwn /\ OncePerRunner /\ Ordered

-----------------------------------------------------------------------------
(* The files, whatever the script does *)

LEMMA InitFiles == Init => FilesInv
  <1> SUFFICES ASSUME Init PROVE FilesInv
    OBVIOUS
  <1>1. runner = << >> /\ inodes = << >> /\ path = None /\ pc = "interrupted" /\ torn = TRUE
    BY DEF Init
  <1>2. FileType
    BY <1>1 DEF FileType
  <1>3. EntriesOwn /\ OncePerRunner /\ Ordered
    BY <1>1 DEF EntriesOwn, OncePerRunner, Ordered
  <1> QED
    BY <1>2, <1>3 DEF FilesInv

\* A file is not None.
LEMMA FilesAreNumbered == ASSUME FileType PROVE None \notin DOMAIN inodes
  BY SweepAssumption DEF FileType

\* Some runners are stopped, or go from one state with an open file to another:
\* nothing else about the runners, and no file, changes.
Onward ==
  /\ runner' \in Seq(RunnerRecord)
  /\ DOMAIN runner' = DOMAIN runner
  /\ UNCHANGED <<path, inodes>>
  /\ \A r \in DOMAIN runner :
       /\ runner'[r].keys = runner[r].keys
       /\ runner'[r].met = runner[r].met
       /\ runner'[r].fd = runner[r].fd
       /\ runner'[r].state # runner[r].state =>
            /\ runner[r].state \in Running
            /\ \/ runner'[r].state \in {"killed", "exited"}
               \/ runner[r].fd # None /\ runner'[r].state \in {"wrote", "told"}

\* A runner that changes its state only.
LEMMA NewState ==
  ASSUME FileType, NEW r \in DOMAIN runner, NEW state \in States,
         runner' = [runner EXCEPT ![r].state = state]
  PROVE  /\ runner' \in Seq(RunnerRecord)
         /\ DOMAIN runner' = DOMAIN runner
         /\ runner'[r].state = state
         /\ \A q \in DOMAIN runner :
              /\ q # r => runner'[q] = runner[q]
              /\ runner'[q].keys = runner[q].keys
              /\ runner'[q].met = runner[q].met
              /\ runner'[q].fd = runner[q].fd
  <1>1. runner \in Seq(RunnerRecord) /\ runner[r] \in RunnerRecord
    BY DEF FileType
  <1>2. [runner[r] EXCEPT !.state = state] \in RunnerRecord
    BY <1>1 DEF RunnerRecord
  <1>3. runner' = [runner EXCEPT ![r] = [runner[r] EXCEPT !.state = state]]
    OBVIOUS
  <1>4. runner' \in Seq(RunnerRecord)
    BY <1>1, <1>2, <1>3
  <1>5. /\ DOMAIN runner' = DOMAIN runner
        /\ runner'[r] = [runner[r] EXCEPT !.state = state]
        /\ \A q \in DOMAIN runner : q # r => runner'[q] = runner[q]
    BY <1>3
  <1> QED
    BY <1>1, <1>4, <1>5 DEF RunnerRecord

LEMMA OnwardSteps ==
  ASSUME FileType, NEW r \in DOMAIN runner, Wrote(r) \/ Tell(r) \/ Exit(r) \/ Fail(r)
  PROVE  Onward
  <1> USE DEF Running
  <1>1. r \in Live => runner[r].state \in Running
    BY DEF Live
  <1>2. runner[r].state = "search" \/ runner[r].state = "wrote" => runner[r].fd # None
    BY DEF FileType
  <1>3. CASE Wrote(r)
    <2>1. runner[r].state = "search" /\ runner' = [runner EXCEPT ![r].state = "wrote"]
          /\ UNCHANGED <<path, inodes>>
      BY <1>3 DEF Wrote
    <2> QED
      BY <2>1, <1>2, NewState DEF Onward, States
  <1>4. CASE Tell(r)
    <2>1. runner[r].state = "wrote" /\ runner' = [runner EXCEPT ![r].state = "told"]
          /\ UNCHANGED <<path, inodes>>
      BY <1>4 DEF Tell
    <2> QED
      BY <2>1, <1>2, NewState DEF Onward, States
  <1>5. CASE Exit(r)
    <2>1. runner[r].state = "told" /\ runner' = [runner EXCEPT ![r].state = "exited"]
          /\ UNCHANGED <<path, inodes>>
      BY <1>5 DEF Exit
    <2> QED
      BY <2>1, NewState DEF Onward, States
  <1>6. CASE Fail(r)
    <2>1. r \in Live /\ runner' = [runner EXCEPT ![r].state = "exited"]
          /\ UNCHANGED <<path, inodes>>
      BY <1>6 DEF Fail
    <2> QED
      BY <2>1, <1>1, NewState DEF Onward, States
  <1> QED
    BY <1>3, <1>4, <1>5, <1>6

\* A teardown that reaches the devbox stops every runner there is.
LEMMA TeardownSteps ==
  ASSUME FileType, Teardown
  PROVE  /\ Onward \/ UNCHANGED <<runner, path, inodes>>
         /\ torn' => torn /\ Live' = {}
  <1> DEFINE stopped == [r \in DOMAIN runner |->
                          IF r \in Live THEN [runner[r] EXCEPT !.state = "killed"]
                                        ELSE runner[r]]
  <1>1. CASE runner' = stopped /\ UNCHANGED torn
    <2>1. UNCHANGED <<path, inodes>>
      BY DEF Teardown
    <2>2. runner \in Seq(RunnerRecord) /\ \A r \in DOMAIN runner : runner[r] \in RunnerRecord
      BY DEF FileType
    <2>3. \A r \in DOMAIN runner : [runner[r] EXCEPT !.state = "killed"] \in RunnerRecord
      BY <2>2 DEF RunnerRecord, States
    <2>4. stopped \in Seq(RunnerRecord) /\ DOMAIN stopped = DOMAIN runner
      BY <2>2, <2>3
    <2>5. \A r \in DOMAIN runner :
            runner'[r] = IF r \in Live THEN [runner[r] EXCEPT !.state = "killed"] ELSE runner[r]
      BY <1>1
    <2>6. \A r \in DOMAIN runner :
            /\ runner'[r].keys = runner[r].keys
            /\ runner'[r].met = runner[r].met
            /\ runner'[r].fd = runner[r].fd
            /\ r \in Live => runner'[r].state = "killed"
            /\ r \notin Live => runner'[r].state = runner[r].state
      BY <2>2, <2>5 DEF RunnerRecord
    <2>7. Onward
      BY <1>1, <2>1, <2>4, <2>6 DEF Onward, Live
    <2>8. Live' = {}
      BY <1>1, <2>4, <2>6 DEF Live, Running
    <2> QED
      BY <1>1, <2>7, <2>8
  <1>2. CASE torn' = FALSE /\ UNCHANGED runner
    BY <1>2 DEF Teardown
  <1> QED
    BY <1>1, <1>2 DEF Teardown

LEMMA OnwardKeeps ==
  ASSUME FilesInv, Onward
  PROVE  FilesInv'
  <1> USE DEF FilesInv
  <1>1. FileType'
    BY DEF FileType, Onward, Running
  <1>2. EntriesOwn' /\ OncePerRunner'
    BY DEF EntriesOwn, OncePerRunner, Onward
  <1>3. ASSUME NEW r \in DOMAIN runner, NEW s \in DOMAIN runner, Follows(s, r)
        PROVE  Follows(s, r)'
    <2>1. r \notin Live'
      BY <1>3 DEF Follows, Live, Onward, Running
    <2>2. Covered(s, r)'
      BY <1>3 DEF Follows, Covered, Onward
    <2> QED
      BY <2>1, <2>2 DEF Follows
  <1>4. ASSUME NEW r \in DOMAIN runner, NEW s \in DOMAIN runner, r # s,
               runner[s].state = "start"
        PROVE  Known(s, r)'
    \* Stopped before it read anything, s has nothing in any file.
    <2>1. CASE runner'[s].state = "start"
      BY <2>1 DEF Known
    <2>2. CASE runner'[s].state # "start"
      <3>1. runner'[s].state \in {"killed", "exited"} /\ runner[s].fd = None
        BY <1>4, <2>2 DEF Onward, FileType
      <3>2. s \notin Live'
        BY <3>1 DEF Live, Running
      <3>3. \A f \in DOMAIN inodes : \A n \in DOMAIN inodes[f] : inodes[f][n].by # s
        BY <3>1, FilesAreNumbered DEF EntriesOwn
      <3>4. Covered(r, s)'
        BY <3>3, <1>1 DEF Covered, FileType, Onward
      <3> QED
        BY <3>2, <3>4 DEF Known, Follows
    <2> QED
      BY <2>1, <2>2
  <1>5. Ordered'
    <2> SUFFICES ASSUME NEW r \in DOMAIN runner', NEW s \in DOMAIN runner', r # s
                 PROVE  Known(s, r)'
      BY DEF Ordered
    <2>1. r \in DOMAIN runner /\ s \in DOMAIN runner
      BY DEF Onward
    <2>2. Known(s, r)
      BY <2>1 DEF Ordered
    <2>3. CASE runner[s].state = "start"
      BY <1>4, <2>1, <2>3
    <2>4. CASE runner[r].state = "start"
      <3>1. Known(r, s)'
        BY <1>4, <2>1, <2>4
      <3> QED
        BY <3>1 DEF Known
    <2>5. CASE r \in runner[s].met \/ s \in runner[r].met
      BY <2>1, <2>5 DEF Known, Onward
    <2>6. CASE Follows(s, r) \/ Follows(r, s)
      BY <1>3, <2>1, <2>6 DEF Known
    <2> QED
      BY <2>2, <2>3, <2>4, <2>5, <2>6 DEF Known
  <1> QED
    BY <1>1, <1>2, <1>5

LEMMA LaunchFiles ==
  ASSUME FilesInv, ScriptType, Launch
  PROVE  FilesInv'
  <1> USE DEF FilesInv
  <1>1. CASE UNCHANGED runner
    <2>1. UNCHANGED <<runner, path, inodes>>
      BY <1>1 DEF Launch
    <2> QED
      BY <2>1 DEF FileType, EntriesOwn, OncePerRunner, Ordered, Known, Follows, Covered, Live
  <1>2. CASE StartRunner
    <2> DEFINE new == [state |-> "start", force |-> asked.force, wanted |-> asked.wanted,
                       keys |-> {}, fd |-> None, met |-> {}]
    <2>1. runner' = Append(runner, new) /\ UNCHANGED <<path, inodes>>
      BY <1>2 DEF StartRunner, Launch
    <2>2. asked \in [wanted : SUBSET Ids, force : BOOLEAN]
      BY DEF ScriptType, Launch, Ended
    <2>3. new \in RunnerRecord
      BY <2>2 DEF RunnerRecord, States, Running
    <2>4. runner \in Seq(RunnerRecord)
      BY DEF FileType
    <2> HIDE DEF new
    <2>5. /\ runner' \in Seq(RunnerRecord)
          /\ DOMAIN runner' = DOMAIN runner \cup {Len(runner) + 1}
          /\ Len(runner) + 1 \notin DOMAIN runner
          /\ runner'[Len(runner) + 1] = new
          /\ \A r \in DOMAIN runner : runner'[r] = runner[r]
      BY <2>1, <2>3, <2>4
    <2>6. new.state = "start" /\ new.fd = None
      BY DEF new
    <2>7. FileType'
      BY <2>1, <2>5, <2>6 DEF FileType
    <2>8. EntriesOwn' /\ OncePerRunner'
      BY <2>1, <2>5 DEF EntriesOwn, OncePerRunner
    <2>9. ASSUME NEW r \in DOMAIN runner, NEW s \in DOMAIN runner, Follows(s, r)
          PROVE  Follows(s, r)'
      BY <2>1, <2>5, <2>9 DEF Follows, Covered, Live
    <2>10. Ordered'
      <3> SUFFICES ASSUME NEW r \in DOMAIN runner', NEW s \in DOMAIN runner', r # s
                   PROVE  Known(s, r)'
        BY DEF Ordered
      <3>1. CASE r = Len(runner) + 1 \/ s = Len(runner) + 1
        BY <3>1, <2>5, <2>6 DEF Known
      <3>2. CASE r \in DOMAIN runner /\ s \in DOMAIN runner
        <4>1. Known(s, r)
          BY <3>2 DEF Ordered
        <4> QED
          BY <4>1, <3>2, <2>5, <2>9 DEF Known
      <3> QED
        BY <3>1, <3>2, <2>5
    <2> QED
      BY <2>7, <2>8, <2>10
  <1> QED
    BY <1>1, <1>2 DEF Launch

\* A runner that reads the keys meets every other there is, or finds what it left.
LEMMA ReadKeysFiles ==
  ASSUME FilesInv, NEW r \in DOMAIN runner, ReadKeys(r)
  PROVE  FilesInv'
  <1> USE DEF FilesInv
  <1> DEFINE state == IF runner[r].force THEN "unlink" ELSE "open"
             next == [runner[r] EXCEPT !.keys = SkipKeys(r), !.state = state,
                                       !.met = Live \ {r}]
  <1>1. /\ runner[r].state = "start"
        /\ runner' = [runner EXCEPT ![r] = next]
        /\ UNCHANGED <<path, inodes>>
    BY DEF ReadKeys
  <1>2. runner \in Seq(RunnerRecord) /\ runner[r] \in RunnerRecord /\ Live \subseteq Nat
        /\ runner[r].fd = None
    BY <1>1 DEF FileType, Live
  <1>3. SkipKeys(r) \subseteq Ids
    <2>1. path # None => path \in DOMAIN inodes /\ inodes \in Seq(Seq(Entry))
      BY DEF FileType
    <2>2. path # None => \A n \in DOMAIN inodes[path] : inodes[path][n] \in Entry
      BY <2>1
    <2>3. path # None => IdsIn(path) \subseteq Ids
      BY <2>2 DEF IdsIn, Entry
    <2> QED
      BY <2>3 DEF SkipKeys, Recorded
  <1>4. next \in RunnerRecord
    BY <1>2, <1>3 DEF RunnerRecord, States, Running
  <1>5. /\ next.keys = SkipKeys(r) /\ next.state = state /\ next.met = Live \ {r}
        /\ next.fd = None
    BY <1>2 DEF RunnerRecord
  <1> HIDE DEF next
  <1>6. /\ runner' \in Seq(RunnerRecord) /\ DOMAIN runner' = DOMAIN runner
        /\ runner'[r] = next
        /\ \A q \in DOMAIN runner : q # r => runner'[q] = runner[q]
    BY <1>1, <1>2, <1>4
  <1>7. Live' = Live
    BY <1>1, <1>5, <1>6 DEF Live, Running
  <1>8. FileType'
    BY <1>1, <1>5, <1>6 DEF FileType
  <1>9. EntriesOwn' /\ OncePerRunner'
    BY <1>1, <1>2, <1>5, <1>6 DEF EntriesOwn, OncePerRunner
  <1>10. ASSUME NEW q \in DOMAIN runner, q # r
         PROVE  Known(r, q)'
    <2>1. CASE q \in Live
      BY <2>1, <1>10, <1>5, <1>6 DEF Known
    <2>2. CASE q \notin Live
      <3>1. runner'[r].state = "open" => runner'[r].keys = Recorded
        BY <1>5, <1>6 DEF SkipKeys
      <3>2. path # None => Recorded = IdsIn(path)
        BY DEF Recorded
      <3>3. Covered(r, q)'
        BY <3>1, <3>2, <1>1, <1>5, <1>6 DEF Covered, IdsIn
      <3> QED
        BY <3>3, <2>2, <1>7 DEF Known, Follows
    <2> QED
      BY <2>1, <2>2
  <1>11. ASSUME NEW q \in DOMAIN runner, NEW s \in DOMAIN runner, q # r, s # r, Follows(s, q)
         PROVE  Follows(s, q)'
    BY <1>11, <1>1, <1>6, <1>7 DEF Follows, Covered
  <1>12. Ordered'
    <2> SUFFICES ASSUME NEW q \in DOMAIN runner', NEW s \in DOMAIN runner', q # s
                 PROVE  Known(s, q)'
      BY DEF Ordered
    <2>1. q \in DOMAIN runner /\ s \in DOMAIN runner
      BY <1>6
    <2>2. CASE s = r
      BY <2>1, <2>2, <1>10
    <2>3. CASE q = r
      <3>1. Known(r, s)'
        BY <2>1, <2>3, <1>10
      <3> QED
        BY <2>3, <3>1 DEF Known
    <2>4. CASE s # r /\ q # r
      <3>1. Known(s, q)
        BY <2>1 DEF Ordered
      <3> QED
        BY <3>1, <2>1, <2>4, <1>6, <1>11 DEF Known
    <2> QED
      BY <2>2, <2>3, <2>4
  <1> QED
    BY <1>8, <1>9, <1>12

LEMMA UnlinkFiles ==
  ASSUME FilesInv, NEW r \in DOMAIN runner, Unlink(r)
  PROVE  FilesInv'
  <1> USE DEF FilesInv
  <1>1. /\ runner[r].state = "unlink" /\ runner' = [runner EXCEPT ![r].state = "open"]
        /\ path' = None /\ UNCHANGED inodes
    BY DEF Unlink
  <1>2. /\ runner' \in Seq(RunnerRecord) /\ DOMAIN runner' = DOMAIN runner
        /\ runner'[r].state = "open"
        /\ \A q \in DOMAIN runner :
             /\ q # r => runner'[q] = runner[q]
             /\ runner'[q].keys = runner[q].keys
             /\ runner'[q].met = runner[q].met
             /\ runner'[q].fd = runner[q].fd
    BY <1>1, NewState DEF States, Running
  <1>3. Live' = Live
    BY <1>1, <1>2 DEF Live, Running
  <1>4. FileType'
    BY <1>1, <1>2 DEF FileType
  <1>5. EntriesOwn' /\ OncePerRunner'
    BY <1>1, <1>2 DEF EntriesOwn, OncePerRunner
  <1>6. ASSUME NEW q \in DOMAIN runner, NEW s \in DOMAIN runner, Follows(s, q)
        PROVE  Follows(s, q)'
    BY <1>6, <1>1, <1>2, <1>3 DEF Follows, Covered
  <1>7. ASSUME NEW q \in DOMAIN runner, runner[q].state = "start"
        PROVE  runner'[q].state = "start"
    BY <1>7, <1>1, <1>2
  <1>8. Ordered'
    BY <1>2, <1>6, <1>7 DEF Ordered, Known
  <1> QED
    BY <1>4, <1>5, <1>8

LEMMA OpenFiles ==
  ASSUME FilesInv, NEW r \in DOMAIN runner, Open(r)
  PROVE  FilesInv'
  <1> USE DEF FilesInv
  <1> DEFINE next == [runner[r] EXCEPT !.state = "search", !.fd = path']
  <1>1. /\ runner[r].state = "open" /\ runner' = [runner EXCEPT ![r] = next]
        /\ path = None => inodes' = Append(inodes, << >>) /\ path' = Len(inodes')
        /\ path # None => UNCHANGED <<inodes, path>>
    BY DEF Open
  <1>2. /\ runner \in Seq(RunnerRecord) /\ runner[r] \in RunnerRecord
        /\ inodes \in Seq(Seq(Entry)) /\ runner[r].fd = None
        /\ path \in DOMAIN inodes \cup {None}
    BY <1>1 DEF FileType
  \* The file r opens is there, the others are what they were, and a new one is
  \* empty.
  <1>3. /\ inodes' \in Seq(Seq(Entry))
        /\ path' \in DOMAIN inodes' /\ path' \in Nat
        /\ DOMAIN inodes \subseteq DOMAIN inodes'
        /\ \A f \in DOMAIN inodes : inodes'[f] = inodes[f]
        /\ \A f \in DOMAIN inodes' \ DOMAIN inodes : inodes'[f] = << >>
        /\ path = None => inodes'[path'] = << >>
    <2>1. CASE path = None
      <3>1. inodes' = Append(inodes, << >>) /\ path' = Len(inodes')
        BY <2>1, <1>1
      <3>2. << >> \in Seq(Entry)
        OBVIOUS
      <3>3. inodes' \in Seq(Seq(Entry)) /\ Len(inodes') = Len(inodes) + 1
        BY <3>1, <3>2, <1>2
      <3>4. /\ inodes'[Len(inodes) + 1] = << >>
            /\ \A f \in 1 .. Len(inodes) : inodes'[f] = inodes[f]
        BY <3>1, <1>2
      <3> QED
        BY <2>1, <3>1, <3>3, <3>4, <1>2
    <2>2. CASE path # None
      BY <2>2, <1>1, <1>2
    <2> QED
      BY <2>1, <2>2
  <1>4. path' # None
    BY <1>3, SweepAssumption
  <1>5. next \in RunnerRecord /\ next.state = "search" /\ next.fd = path'
        /\ next.keys = runner[r].keys /\ next.met = runner[r].met
    BY <1>2, <1>3 DEF RunnerRecord, States, Running
  <1> HIDE DEF next
  <1>6. /\ runner' \in Seq(RunnerRecord) /\ DOMAIN runner' = DOMAIN runner
        /\ runner'[r] = next
        /\ \A q \in DOMAIN runner : q # r => runner'[q] = runner[q]
    BY <1>1, <1>2, <1>5
  <1>7. Live' = Live
    BY <1>1, <1>5, <1>6 DEF Live, Running
  <1>8. FileType'
    BY <1>3, <1>4, <1>5, <1>6 DEF FileType
  <1>9. EntriesOwn'
    <2> SUFFICES ASSUME NEW f \in DOMAIN inodes', NEW n \in DOMAIN inodes'[f]
                 PROVE  /\ inodes'[f][n].by \in DOMAIN runner'
                        /\ runner'[inodes'[f][n].by].fd = f
      BY DEF EntriesOwn
    <2>1. f \in DOMAIN inodes /\ inodes'[f] = inodes[f]
      BY <1>3
    <2>2. inodes[f][n].by \in DOMAIN runner /\ runner[inodes[f][n].by].fd = f
      BY <2>1 DEF EntriesOwn
    <2>3. inodes[f][n].by # r
      BY <2>1, <2>2, <1>2, FilesAreNumbered
    <2> QED
      BY <2>1, <2>2, <2>3, <1>6
  <1>10. OncePerRunner'
    BY <1>3 DEF OncePerRunner
  <1>11. ASSUME NEW q \in DOMAIN runner, NEW s \in DOMAIN runner, Follows(s, q)
         PROVE  Follows(s, q)'
    <2>1. q \notin Live'
      BY <1>11, <1>7 DEF Follows
    <2>2. CASE s # r
      <3>1. runner'[s] = runner[s] /\ runner[s].fd \in DOMAIN inodes \cup {None}
        BY <2>2, <1>6 DEF FileType
      <3>2. Covered(s, q)
        BY <1>11 DEF Follows
      <3>3. path = None => Covered(s, q)'
        BY <3>1, <3>2, <1>3, SweepAssumption DEF Covered
      <3>4. path # None => Covered(s, q)'
        BY <3>1, <3>2, <1>1 DEF Covered
      <3>5. Covered(s, q)'
        BY <3>3, <3>4
      <3> QED
        BY <2>1, <3>5 DEF Follows
    <2>3. CASE s = r
      <3>1. path # None => \A n \in DOMAIN inodes[path] :
                             inodes[path][n].by = q => inodes[path][n].id \in runner[r].keys
        BY <1>1, <1>11, <2>3 DEF Covered, Follows
      <3>2. \A n \in DOMAIN inodes'[path'] :
              inodes'[path'][n].by = q => inodes'[path'][n].id \in runner[r].keys
        BY <3>1, <1>1, <1>3
      <3>3. Covered(s, q)'
        BY <3>2, <2>3, <1>5, <1>6 DEF Covered
      <3> QED
        BY <2>1, <3>3 DEF Follows
    <2> QED
      BY <2>2, <2>3
  <1>12. \A q \in DOMAIN runner :
           /\ runner[q].state = "start" => runner'[q].state = "start"
           /\ runner'[q].met = runner[q].met
    BY <1>1, <1>5, <1>6
  <1>13. Ordered'
    BY <1>6, <1>11, <1>12 DEF Ordered, Known
  <1> QED
    BY <1>8, <1>9, <1>10, <1>13

\* What is recorded: a new entry, at the end of the file that r has open.
LEMMA RecordAppends ==
  ASSUME FilesInv, NEW r \in DOMAIN runner, Record(r)
  PROVE  \E id \in Pending(r) :
           LET f == runner[r].fd
           IN /\ f \in DOMAIN inodes /\ id \in Ids
              /\ UNCHANGED <<runner, path>>
              /\ inodes' \in Seq(Seq(Entry)) /\ DOMAIN inodes' = DOMAIN inodes
              /\ \A g \in DOMAIN inodes : g # f => inodes'[g] = inodes[g]
              /\ DOMAIN inodes'[f] = DOMAIN inodes[f] \cup {Len(inodes[f]) + 1}
              /\ Len(inodes[f]) + 1 \notin DOMAIN inodes[f]
              /\ inodes'[f][Len(inodes[f]) + 1] = [id |-> id, by |-> r]
              /\ \A n \in DOMAIN inodes[f] : inodes'[f][n] = inodes[f][n]
  <1> DEFINE f == runner[r].fd
             id == Foremost(Pending(r))
             entry == [id |-> id, by |-> r]
  <1>1. /\ runner[r].state = "search" /\ Pending(r) # {}
        /\ inodes' = [inodes EXCEPT ![f] = Append(inodes[f], entry)]
        /\ UNCHANGED <<runner, path>>
    BY DEF Record
  <1>2. id \in Pending(r)
    BY <1>1 DEF Foremost
  <1>3. /\ runner \in Seq(RunnerRecord) /\ inodes \in Seq(Seq(Entry))
        /\ f \in DOMAIN inodes
    BY <1>1 DEF FilesInv, FileType
  <1>4. id \in Ids
    <2>1. runner[r] \in RunnerRecord
      BY <1>3
    <2>2. id \in runner[r].wanted
      BY <1>2 DEF Pending
    <2> QED
      BY <2>1, <2>2 DEF RunnerRecord
  <1>5. entry \in Entry
    BY <1>3, <1>4 DEF Entry
  <1> HIDE DEF entry, id
  <1>6. Append(inodes[f], entry) \in Seq(Entry)
    BY <1>3, <1>5
  <1>7. /\ inodes' \in Seq(Seq(Entry)) /\ DOMAIN inodes' = DOMAIN inodes
        /\ \A g \in DOMAIN inodes : g # f => inodes'[g] = inodes[g]
        /\ inodes'[f] = Append(inodes[f], entry)
    BY <1>1, <1>3, <1>6
  <1>8. inodes[f] \in Seq(Entry)
    BY <1>3
  <1>9. /\ DOMAIN inodes'[f] = DOMAIN inodes[f] \cup {Len(inodes[f]) + 1}
        /\ Len(inodes[f]) + 1 \notin DOMAIN inodes[f]
        /\ inodes'[f][Len(inodes[f]) + 1] = entry
        /\ \A n \in DOMAIN inodes[f] : inodes'[f][n] = inodes[f][n]
    BY <1>7, <1>8, <1>5
  <1> QED
    BY <1>1, <1>2, <1>3, <1>4, <1>7, <1>9 DEF entry

LEMMA RecordFiles ==
  ASSUME FilesInv, NEW r \in DOMAIN runner, Record(r)
  PROVE  FilesInv'
  <1> USE DEF FilesInv
  <1> DEFINE f == runner[r].fd
             new == Len(inodes[f]) + 1
  <1>1. PICK id \in Pending(r) :
          /\ f \in DOMAIN inodes /\ id \in Ids
          /\ UNCHANGED <<runner, path>>
          /\ inodes' \in Seq(Seq(Entry)) /\ DOMAIN inodes' = DOMAIN inodes
          /\ \A g \in DOMAIN inodes : g # f => inodes'[g] = inodes[g]
          /\ DOMAIN inodes'[f] = DOMAIN inodes[f] \cup {new}
          /\ new \notin DOMAIN inodes[f]
          /\ inodes'[f][new] = [id |-> id, by |-> r]
          /\ \A n \in DOMAIN inodes[f] : inodes'[f][n] = inodes[f][n]
    BY RecordAppends
  <1>2. \A n \in DOMAIN inodes[f] : inodes[f][n] # [id |-> id, by |-> r]
    BY DEF Pending
  <1> HIDE DEF new
  <1>3. FileType'
    BY <1>1 DEF FileType
  <1>4. EntriesOwn'
    <2> SUFFICES ASSUME NEW g \in DOMAIN inodes', NEW n \in DOMAIN inodes'[g]
                 PROVE  /\ inodes'[g][n].by \in DOMAIN runner
                        /\ runner[inodes'[g][n].by].fd = g
      BY <1>1 DEF EntriesOwn
    <2>1. CASE g = f /\ n = new
      BY <2>1, <1>1
    <2>2. CASE ~ (g = f /\ n = new)
      <3>1. g \in DOMAIN inodes /\ n \in DOMAIN inodes[g] /\ inodes'[g][n] = inodes[g][n]
        BY <2>2, <1>1
      <3> QED
        BY <3>1 DEF EntriesOwn
    <2> QED
      BY <2>1, <2>2
  <1>5. OncePerRunner'
    <2> SUFFICES ASSUME NEW g \in DOMAIN inodes', NEW n \in DOMAIN inodes'[g],
                        NEW k \in DOMAIN inodes'[g], inodes'[g][n] = inodes'[g][k]
                 PROVE  n = k
      BY DEF OncePerRunner
    <2>1. CASE g # f
      BY <2>1, <1>1 DEF OncePerRunner
    <2>2. CASE g = f
      <3>1. CASE n = new /\ k # new
        BY <3>1, <2>2, <1>1, <1>2
      <3>2. CASE k = new /\ n # new
        BY <3>2, <2>2, <1>1, <1>2
      <3>3. CASE n # new /\ k # new
        BY <3>3, <2>2, <1>1 DEF OncePerRunner
      <3> QED
        BY <3>1, <3>2, <3>3
    <2> QED
      BY <2>1, <2>2
  <1>6. ASSUME NEW q \in DOMAIN runner, NEW s \in DOMAIN runner, Follows(s, q)
        PROVE  Follows(s, q)'
    <2>1. q \notin Live' /\ q # r /\ Covered(s, q)
      BY <1>6, <1>1 DEF Follows, Live, Record, Running
    <2>2. \A g \in DOMAIN inodes : \A n \in DOMAIN inodes'[g] :
            inodes'[g][n].by = q => n \in DOMAIN inodes[g] /\ inodes'[g][n] = inodes[g][n]
      <3>1. inodes'[f][new].by = r
        BY <1>1
      <3>2. \A n \in DOMAIN inodes'[f] : n # new =>
              n \in DOMAIN inodes[f] /\ inodes'[f][n] = inodes[f][n]
        BY <1>1
      <3> HIDE DEF f
      <3>3. \A g \in DOMAIN inodes : g # f => inodes'[g] = inodes[g]
        BY <1>1
      <3> QED
        BY <2>1, <3>1, <3>2, <3>3
    <2>3. runner[s].fd \in DOMAIN inodes \cup {None} /\ path \in DOMAIN inodes \cup {None}
      BY DEF FileType
    <2>4. Covered(s, q)'
      BY <2>1, <2>2, <2>3, <1>1 DEF Covered
    <2> QED
      BY <2>1, <2>4 DEF Follows
  <1>7. Ordered'
    BY <1>1, <1>6 DEF Ordered, Known
  <1> QED
    BY <1>3, <1>4, <1>5, <1>7

LEMMA ScriptTypeStep == ASSUME ScriptType, [Next]_vars PROVE ScriptType'
  <1> USE DEF ScriptType, Ended
  <1>1. CASE Start
    BY <1>1 DEF Start
  <1>2. CASE Script
    <2>1. CASE Sync
      BY <2>1 DEF Sync, GiveUp
    <2>2. CASE Teardown
      BY <2>2 DEF Teardown
    <2>3. CASE Launch
      BY <2>3 DEF Launch, AfterLaunch
    <2>4. CASE Confirm
      BY <2>4 DEF Confirm, GiveUp
    <2>5. CASE Poll
      BY <2>5 DEF Poll
    <2>6. CASE FetchDone \/ FetchAnyway
      BY <2>6 DEF FetchDone, FetchAnyway, Fetch
    <2> QED
      BY <1>2, <2>1, <2>2, <2>3, <2>4, <2>5, <2>6 DEF Script
  <1>3. CASE Interrupt
    BY <1>3 DEF Interrupt
  <1>4. ASSUME NEW r \in DOMAIN runner, Runner(r)
        PROVE  UNCHANGED scriptVars
    BY <1>4 DEF Runner, ReadKeys, Unlink, Open, Record, Wrote, Tell, Exit, Fail, Noise,
                scriptVars
  <1>5. CASE UNCHANGED scriptVars
    BY <1>5 DEF scriptVars
  <1>6. CASE UNCHANGED vars
    BY <1>6 DEF vars, scriptVars
  <1> QED
    BY <1>1, <1>2, <1>3, <1>4, <1>5, <1>6 DEF Next

\* What the steps of the system do to the runners and their files.
LEMMA StepsOfFiles ==
  ASSUME FilesInv, [Next]_vars
  PROVE  \/ UNCHANGED <<runner, path, inodes>>
         \/ Onward
         \/ Launch
         \/ \E r \in DOMAIN runner : ReadKeys(r) \/ Unlink(r) \/ Open(r) \/ Record(r)
  <1>1. CASE Script
    <2>1. CASE Teardown
      BY <2>1, TeardownSteps DEF FilesInv
    <2>2. CASE Sync \/ Confirm \/ Poll \/ FetchDone \/ FetchAnyway
      BY <2>2 DEF Sync, Confirm, Poll, FetchDone, FetchAnyway, Fetch, devboxVars
    <2> QED
      BY <1>1, <2>1, <2>2 DEF Script
  <1>2. CASE Start \/ Interrupt \/ UNCHANGED vars
    BY <1>2 DEF Start, Interrupt, vars, devboxVars
  <1>3. ASSUME NEW r \in DOMAIN runner, Wrote(r) \/ Tell(r) \/ Exit(r) \/ Fail(r)
        PROVE  Onward
    BY <1>3, OnwardSteps DEF FilesInv
  <1>4. ASSUME NEW r \in DOMAIN runner, Noise(r)
        PROVE  UNCHANGED <<runner, path, inodes>>
    BY <1>4 DEF Noise
  <1> QED
    BY <1>1, <1>2, <1>3, <1>4 DEF Next, Runner

LEMMA FilesStep == ASSUME FilesInv, ScriptType, [Next]_vars PROVE FilesInv'
  <1>1. CASE UNCHANGED <<runner, path, inodes>>
    BY <1>1 DEF FilesInv, FileType, EntriesOwn, OncePerRunner, Ordered, Known, Follows,
                Covered, Live
  <1> QED
    BY <1>1, StepsOfFiles, OnwardKeeps, LaunchFiles, ReadKeysFiles, UnlinkFiles, OpenFiles,
       RecordFiles

-----------------------------------------------------------------------------
(* Two records of one identity *)

\* A step that records nothing changes neither a file with something in it nor
\* what the runners that wrote to it have met.
LEMMA NothingRecorded ==
  ASSUME FilesInv, TwiceOnlyIfOverlapping,
         \A f \in DOMAIN inodes' : \A n \in DOMAIN inodes'[f] :
           /\ f \in DOMAIN inodes /\ inodes'[f] = inodes[f]
           /\ runner'[inodes[f][n].by].met = runner[inodes[f][n].by].met
  PROVE  TwiceOnlyIfOverlapping'
  BY DEF TwiceOnlyIfOverlapping

LEMMA RecordOverlaps ==
  ASSUME FilesInv, TwiceOnlyIfOverlapping, NEW r \in DOMAIN runner, Record(r)
  PROVE  TwiceOnlyIfOverlapping'
  <1> DEFINE f == runner[r].fd
             new == Len(inodes[f]) + 1
  <1>1. PICK id \in Pending(r) :
          /\ f \in DOMAIN inodes /\ id \in Ids
          /\ UNCHANGED <<runner, path>>
          /\ inodes' \in Seq(Seq(Entry)) /\ DOMAIN inodes' = DOMAIN inodes
          /\ \A g \in DOMAIN inodes : g # f => inodes'[g] = inodes[g]
          /\ DOMAIN inodes'[f] = DOMAIN inodes[f] \cup {new}
          /\ new \notin DOMAIN inodes[f]
          /\ inodes'[f][new] = [id |-> id, by |-> r]
          /\ \A n \in DOMAIN inodes[f] : inodes'[f][n] = inodes[f][n]
    BY RecordAppends
  <1>2. /\ \A n \in DOMAIN inodes[f] : inodes[f][n] # [id |-> id, by |-> r]
        /\ id \notin runner[r].keys
    BY DEF Pending
  <1>3. r \in Live /\ runner[r].state = "search"
    BY DEF Record, Live, Running
  \* Whoever has the identity in the file already was met, or its record would
  \* be among the keys.
  <1>4. ASSUME NEW n \in DOMAIN inodes[f], inodes[f][n].id = id
        PROVE  LET s == inodes[f][n].by
               IN r # s /\ (r \in runner[s].met \/ s \in runner[r].met)
    <2> DEFINE s == inodes[f][n].by
    <2>1. s \in DOMAIN runner /\ runner[s].fd = f
      BY <1>1 DEF FilesInv, EntriesOwn
    <2>2. s # r
      <3>1. inodes[f][n] \in Entry
        BY <1>1 DEF FilesInv, FileType
      <3> QED
        BY <3>1, <1>2, <1>4 DEF Entry
    <2>3. f # None
      BY <1>1, FilesAreNumbered DEF FilesInv
    <2>4. runner[s].state # "start"
      BY <2>1, <2>3 DEF FilesInv, FileType
    <2>5. ~ Follows(r, s)
      BY <1>2, <1>4, <2>3 DEF Follows, Covered
    <2>6. ~ Follows(s, r)
      BY <1>3 DEF Follows
    <2>7. Known(s, r)
      BY <2>1, <2>2 DEF FilesInv, Ordered
    <2> QED
      BY <1>3, <2>2, <2>4, <2>5, <2>6, <2>7 DEF Known
  <1> HIDE DEF new, f
  <1>5. UNCHANGED runner
    BY <1>1
  <1> SUFFICES ASSUME NEW g \in DOMAIN inodes', NEW n \in DOMAIN inodes'[g],
                      NEW k \in DOMAIN inodes'[g], n # k,
                      inodes'[g][n].id = inodes'[g][k].id
               PROVE  LET p == inodes'[g][n].by
                          q == inodes'[g][k].by
                      IN p # q /\ (p \in runner[q].met \/ q \in runner[p].met)
    BY <1>5 DEF TwiceOnlyIfOverlapping
  <1>6. CASE g # f
    <2>1. g \in DOMAIN inodes /\ inodes'[g] = inodes[g]
      BY <1>1, <1>6
    <2> QED
      BY <2>1 DEF TwiceOnlyIfOverlapping
  <1>7. CASE g = f /\ n # new /\ k # new
    <2>1. /\ n \in DOMAIN inodes[f] /\ inodes'[f][n] = inodes[f][n]
          /\ k \in DOMAIN inodes[f] /\ inodes'[f][k] = inodes[f][k]
      BY <1>1, <1>7
    <2> QED
      BY <2>1, <1>1, <1>7 DEF TwiceOnlyIfOverlapping
  <1>8. CASE g = f /\ n = new
    <2>1. /\ k \in DOMAIN inodes[f] /\ inodes'[f][k] = inodes[f][k]
          /\ inodes'[f][n].id = id /\ inodes'[f][n].by = r
      BY <1>1, <1>8
    <2>2. inodes[f][k].id = id
      BY <2>1, <1>8
    <2> QED
      BY <2>1, <2>2, <1>4, <1>8
  <1>9. CASE g = f /\ k = new
    <2>1. /\ n \in DOMAIN inodes[f] /\ inodes'[f][n] = inodes[f][n]
          /\ inodes'[f][k].id = id /\ inodes'[f][k].by = r
      BY <1>1, <1>9
    <2>2. inodes[f][n].id = id
      BY <2>1, <1>9
    <2> QED
      BY <2>1, <2>2, <1>4, <1>9
  <1> QED
    BY <1>6, <1>7, <1>8, <1>9

LEMMA OverlapStep ==
  ASSUME FilesInv, ScriptType, TwiceOnlyIfOverlapping, [Next]_vars
  PROVE  TwiceOnlyIfOverlapping'
  <1>1. \A f \in DOMAIN inodes : \A n \in DOMAIN inodes[f] :
          inodes[f][n].by \in DOMAIN runner /\ runner[inodes[f][n].by].fd = f
    BY DEF FilesInv, EntriesOwn
  <1>2. None \notin DOMAIN inodes
    BY FilesAreNumbered DEF FilesInv
  <1>3. CASE UNCHANGED <<runner, path, inodes>> \/ Onward
    BY <1>1, <1>3, NothingRecorded DEF Onward
  <1>4. CASE Launch
    <2>1. UNCHANGED inodes
      BY <1>4 DEF Launch
    <2>2. runner \in Seq(RunnerRecord)
      BY DEF FilesInv, FileType
    <2>3. \/ UNCHANGED runner
          \/ runner' = Append(runner, [state |-> "start", force |-> asked.force,
                                       wanted |-> asked.wanted, keys |-> {},
                                       fd |-> None, met |-> {}])
      BY <1>4 DEF Launch, StartRunner
    <2>4. \A r \in DOMAIN runner : runner'[r] = runner[r]
      BY <2>2, <2>3
    <2> QED
      BY <1>1, <2>1, <2>4, NothingRecorded
  <1>5. ASSUME NEW r \in DOMAIN runner, ReadKeys(r)
        PROVE  TwiceOnlyIfOverlapping'
    <2>1. UNCHANGED inodes /\ \A q \in DOMAIN runner : q # r => runner'[q] = runner[q]
      BY <1>5 DEF ReadKeys
    <2>2. runner[r].fd = None
      BY <1>5 DEF ReadKeys, FilesInv, FileType
    <2> QED
      BY <1>1, <1>2, <2>1, <2>2, NothingRecorded
  <1>6. ASSUME NEW r \in DOMAIN runner, Unlink(r)
        PROVE  TwiceOnlyIfOverlapping'
    <2>1. UNCHANGED inodes /\ \A q \in DOMAIN runner : q # r => runner'[q] = runner[q]
      BY <1>6 DEF Unlink
    <2>2. runner[r].fd = None
      BY <1>6 DEF Unlink, FilesInv, FileType
    <2> QED
      BY <1>1, <1>2, <2>1, <2>2, NothingRecorded
  <1>7. ASSUME NEW r \in DOMAIN runner, Open(r)
        PROVE  TwiceOnlyIfOverlapping'
    <2>1. \A q \in DOMAIN runner : q # r => runner'[q] = runner[q]
      BY <1>7 DEF Open
    <2>2. runner[r].fd = None
      BY <1>7 DEF Open, FilesInv, FileType
    <2>3. \A f \in DOMAIN inodes' : \A n \in DOMAIN inodes'[f] :
            f \in DOMAIN inodes /\ inodes'[f] = inodes[f]
      <3>1. inodes \in Seq(Seq(Entry)) /\ (inodes' = Append(inodes, << >>) \/ inodes' = inodes)
        BY <1>7 DEF Open, FilesInv, FileType
      <3> QED
        BY <3>1
    <2> QED
      BY <1>1, <1>2, <2>1, <2>2, <2>3, NothingRecorded
  <1> QED
    BY <1>3, <1>4, <1>5, <1>6, <1>7, StepsOfFiles, RecordOverlaps

\* However often the script is run, whatever reaches the devbox and wherever a
\* runner is stopped: one identity recorded by two runners in one file means
\* that one was at work when the other read the recorded keys.
THEOREM OverlapOnly == Spec => []TwiceOnlyIfOverlapping
  <1>1. Init => FilesInv /\ ScriptType /\ TwiceOnlyIfOverlapping
    <2>1. Init => ScriptType
      BY DEF Init, ScriptType, Ended
    <2>2. Init => TwiceOnlyIfOverlapping
      BY DEF Init, TwiceOnlyIfOverlapping
    <2> QED
      BY <2>1, <2>2, InitFiles
  <1>2. FilesInv /\ ScriptType /\ TwiceOnlyIfOverlapping /\ [Next]_vars
          => (FilesInv /\ ScriptType /\ TwiceOnlyIfOverlapping)'
    BY FilesStep, ScriptTypeStep, OverlapStep
  <1> QED
    BY <1>1, <1>2, PTL DEF Spec

-----------------------------------------------------------------------------
(* One runner at a time *)

\* Only a teardown leads to a launch, and only a launch makes a runner.
LEMMA AloneKept ==
  ASSUME LastAlone, torn' => torn, pc' = "launch" => pc = "launch",
         Len(runner') = Len(runner), Live' \subseteq Live,
         torn => \A r \in Live' : runner'[r].fd \in {None, path'}
  PROVE  LastAlone'
  BY DEF LastAlone

LEMMA AloneRunner ==
  ASSUME FileType, LastAlone, NEW r \in DOMAIN runner, Runner(r)
  PROVE  LastAlone'
  <1>1. UNCHANGED <<pc, torn>>
    BY DEF Runner, ReadKeys, Unlink, Open, Record, Wrote, Tell, Exit, Fail, Noise, scriptVars
  <1>2. CASE Record(r) \/ Noise(r)
    BY <1>2, <1>1 DEF Record, Noise, LastAlone, Live
  <1>3. CASE Wrote(r) \/ Tell(r) \/ Exit(r) \/ Fail(r)
    <2>1. Onward
      BY <1>3, OnwardSteps
    <2>2. Live' \subseteq Live
      BY <2>1 DEF Onward, Live, Running
    <2>3. runner \in Seq(RunnerRecord) /\ Len(runner') = Len(runner)
      BY <2>1 DEF Onward, FileType
    <2>4. torn => \A q \in Live' : runner'[q].fd \in {None, path'}
      BY <2>1, <2>2 DEF Onward, LastAlone, Live
    <2> QED
      BY <1>1, <2>2, <2>3, <2>4, AloneKept
  \* The runner that is alone changes the file, or the name, itself.
  <1>4. CASE ReadKeys(r) \/ Unlink(r) \/ Open(r)
    <2>1. /\ runner[r].state \in {"start", "unlink", "open"}
          /\ DOMAIN runner' = DOMAIN runner
          /\ \A q \in DOMAIN runner : q # r => runner'[q] = runner[q]
      BY <1>4 DEF ReadKeys, Unlink, Open
    <2>2. r \in Live
      BY <2>1 DEF Live, Running
    <2>3. Live' \subseteq Live
      BY <2>1, <2>2 DEF Live
    <2>4. runner \in Seq(RunnerRecord) /\ runner[r].fd = None /\ runner[r] \in RunnerRecord
      BY <2>1 DEF FileType
    <2>5. runner'[r].fd \in {None, path'}
      <3>1. CASE ReadKeys(r)
        BY <3>1, <2>4 DEF ReadKeys, RunnerRecord
      <3>2. CASE Unlink(r)
        BY <3>2, <2>4 DEF Unlink, RunnerRecord
      <3>3. CASE Open(r)
        BY <3>3, <2>4 DEF Open, RunnerRecord
      <3> QED
        BY <1>4, <3>1, <3>2, <3>3
    <2>6. Len(runner') = Len(runner)
      <3>1. runner' \in [DOMAIN runner -> RunnerRecord \cup {runner'[r]}]
        BY <1>4, <2>1, <2>4 DEF ReadKeys, Unlink, Open
      <3> QED
        BY <3>1, <2>1, <2>4
    <2>7. torn => \A q \in Live' : q = r
      BY <2>2, <2>3 DEF LastAlone
    <2> QED
      BY <1>1, <2>3, <2>5, <2>6, <2>7, AloneKept
  <1> QED
    BY <1>2, <1>3, <1>4 DEF Runner

LEMMA AloneStep ==
  ASSUME FileType, ScriptType, LastAlone, [Next]_vars
  PROVE  LastAlone'
  <1>1. CASE Teardown
    BY <1>1, TeardownSteps DEF LastAlone
  <1>2. CASE Launch
    <2>1. pc = "launch" /\ pc' = "confirm" /\ UNCHANGED <<torn, path>>
      BY <1>2 DEF Launch, AfterLaunch
    <2>2. torn => Live = {}
      BY <2>1 DEF LastAlone
    <2>3. runner \in Seq(RunnerRecord)
      BY DEF FileType
    <2>4. CASE UNCHANGED runner
      BY <2>1, <2>4 DEF LastAlone, Live
    <2>5. CASE StartRunner
      <3> DEFINE new == [state |-> "start", force |-> asked.force, wanted |-> asked.wanted,
                         keys |-> {}, fd |-> None, met |-> {}]
      <3>1. runner' = Append(runner, new)
        BY <2>5 DEF StartRunner
      <3>2. new.fd = None
        OBVIOUS
      <3> HIDE DEF new
      <3>3. /\ Len(runner') = Len(runner) + 1
            /\ DOMAIN runner' = DOMAIN runner \cup {Len(runner')}
            /\ runner'[Len(runner')] = new
            /\ \A q \in DOMAIN runner : runner'[q] = runner[q]
        BY <2>3, <3>1
      <3>4. torn => \A q \in Live' : q = Len(runner')
        BY <2>2, <3>3 DEF Live
      <3> QED
        BY <2>1, <3>2, <3>3, <3>4 DEF LastAlone
    <2> QED
      BY <1>2, <2>4, <2>5 DEF Launch
  <1>3. CASE Start \/ Sync \/ Confirm \/ Poll \/ FetchDone \/ FetchAnyway \/ Interrupt
             \/ UNCHANGED vars
    <2>1. UNCHANGED <<torn, runner, path>>
      BY <1>3 DEF Start, Sync, Confirm, Poll, FetchDone, FetchAnyway, Fetch, Interrupt,
                  vars, scriptVars, devboxVars
    <2>2. pc' = "launch" => pc = "launch"
      BY <1>3 DEF Start, Sync, Confirm, Poll, FetchDone, FetchAnyway, Fetch, Interrupt,
                  GiveUp, vars, scriptVars
    <2> QED
      BY <2>1, <2>2 DEF LastAlone, Live
  <1> QED
    BY <1>1, <1>2, <1>3, AloneRunner DEF Next, Script

\* However often the script is run, retried or interrupted, it never has two
\* runners at work while its teardowns reach the devbox.
THEOREM NeverTwoWriters == Spec => []OneWriter
  <1>1. Init => FilesInv /\ ScriptType /\ LastAlone
    <2>1. Init => ScriptType
      BY DEF Init, ScriptType, Ended
    <2>2. Init => LastAlone
      BY DEF Init, LastAlone, Live
    <2> QED
      BY <2>1, <2>2, InitFiles
  <1>2. FilesInv /\ ScriptType /\ LastAlone /\ [Next]_vars
          => (FilesInv /\ ScriptType /\ LastAlone)'
    BY FilesStep, ScriptTypeStep, AloneStep DEF FilesInv
  <1>3. LastAlone => OneWriter
    BY DEF LastAlone, OneWriter
  <1> QED
    BY <1>1, <1>2, <1>3, PTL DEF Spec

-----------------------------------------------------------------------------
(* A sweep that is complete *)

\* While a runner is alone, what it goes by is still in the file: the keys it
\* skips, and all it was asked for once it has its last line in the buffer.
RunnersKnow ==
  torn => \A r \in Live :
            /\ runner[r].keys \subseteq Recorded
            /\ runner[r].state \in {"start", "unlink"} => runner[r].keys = {}
            /\ runner[r].state = "wrote" => runner[r].wanted \subseteq Recorded

\* The last runner is the one this script has launched.
Ours == pc \in {"poll", "fetch", "complete"} \/ (pc = "confirm" /\ Live # {})

Told == {"told", "killed", "exited"}

\* A "wrote" in the log is then the last runner's, which is past its work.
ToldTrue ==
  torn /\ Ours =>
    /\ Len(runner) \in DOMAIN runner
    /\ runner[Len(runner)].wanted = asked.wanted
    /\ "wrote" \in log =>
         asked.wanted \subseteq Recorded /\ runner[Len(runner)].state \in Told

SeenInLog == pc \in {"fetch", "complete"} => seen \subseteq log

FetchedAll ==
  pc = "complete" /\ torn /\ copied /\ "wrote" \in seen => asked.wanted \subseteq fetched

CompleteInv == RunnersKnow /\ ToldTrue /\ SeenInLog /\ FetchedAll

\* A step of the runner that is alone: it is enough that the runner still knows
\* what it goes by, and that the log says "wrote" of it only when it has.
LEMMA AloneKnows ==
  ASSUME FileType, LastAlone, CompleteInv, torn, NEW r \in Live,
         UNCHANGED scriptVars, log \subseteq log',
         DOMAIN runner' = DOMAIN runner, Len(runner') = Len(runner),
         \A q \in DOMAIN runner : q # r => runner'[q] = runner[q],
         runner'[r].wanted = runner[r].wanted,
         r \in Live' => /\ runner'[r].keys \subseteq Recorded'
                        /\ runner'[r].state \in {"start", "unlink"} => runner'[r].keys = {}
                        /\ runner'[r].state = "wrote" => runner[r].wanted \subseteq Recorded',
         Ours /\ "wrote" \in log' =>
           runner[r].wanted \subseteq Recorded' /\ runner'[r].state \in Told
  PROVE  CompleteInv'
  <1>1. r = Len(runner) /\ \A q \in Live : q = r
    BY DEF LastAlone
  <1>2. Live' \subseteq Live
    <2>1. \A q \in DOMAIN runner : q # r => runner'[q].state = runner[q].state
      OBVIOUS
    <2> QED
      BY <2>1 DEF Live
  <1>3. UNCHANGED <<pc, asked, seen, fetched, copied, torn>>
    BY DEF scriptVars
  <1>4. RunnersKnow'
    BY <1>1, <1>2 DEF RunnersKnow
  <1>5. ToldTrue'
    <2>1. Ours' => Ours
      BY <1>2, <1>3 DEF Ours
    <2> QED
      BY <2>1, <1>1, <1>3 DEF CompleteInv, ToldTrue
  <1>6. SeenInLog' /\ FetchedAll'
    BY <1>3 DEF CompleteInv, SeenInLog, FetchedAll
  <1> QED
    BY <1>4, <1>5, <1>6 DEF CompleteInv

\* A runner that only changes its state changes no file.
LEMMA StateSteps ==
  ASSUME FileType, NEW r \in DOMAIN runner, NEW state \in States,
         runner' = [runner EXCEPT ![r].state = state]
  PROVE  /\ DOMAIN runner' = DOMAIN runner /\ Len(runner') = Len(runner)
         /\ \A q \in DOMAIN runner : q # r => runner'[q] = runner[q]
         /\ runner'[r].state = state
         /\ runner'[r].wanted = runner[r].wanted
         /\ runner'[r].keys = runner[r].keys
  <1>1. runner \in Seq(RunnerRecord) /\ runner[r] \in RunnerRecord
    BY DEF FileType
  <1>2. runner' \in Seq(RunnerRecord) /\ DOMAIN runner' = DOMAIN runner
    BY NewState
  <1> QED
    BY <1>1, <1>2, NewState DEF RunnerRecord

\* The runner's whole step, when it is alone.
LEMMA CompleteRunner ==
  ASSUME FilesInv, LastAlone, CompleteInv, torn, NEW r \in Live, Runner(r)
  PROVE  CompleteInv'
  <1>1. r \in DOMAIN runner /\ FileType /\ UNCHANGED scriptVars /\ log \subseteq log'
    BY DEF Live, FilesInv, Runner, ReadKeys, Unlink, Open, Record, Wrote, Tell, Exit, Fail, Noise
  <1>2. runner \in Seq(RunnerRecord) /\ runner[r] \in RunnerRecord
    BY <1>1 DEF FileType
  <1>3. r = Len(runner) /\ runner[r].fd \in {None, path}
    BY DEF LastAlone
  <1>4. /\ runner[r].keys \subseteq Recorded
        /\ runner[r].state \in {"start", "unlink"} => runner[r].keys = {}
        /\ runner[r].state = "wrote" => runner[r].wanted \subseteq Recorded
    BY DEF CompleteInv, RunnersKnow
  <1>5. Ours => /\ runner[r].wanted = asked.wanted
                /\ "wrote" \in log =>
                     runner[r].wanted \subseteq Recorded /\ runner[r].state \in Told
    BY <1>3 DEF CompleteInv, ToldTrue
  \* Before it has written its last line, no log has one.
  <1>6. runner[r].state \notin Told => (Ours => "wrote" \notin log)
    BY <1>5
  <1>7. CASE ReadKeys(r)
    <2>1. /\ runner[r].state = "start" /\ UNCHANGED <<log, path, inodes>>
          /\ DOMAIN runner' = DOMAIN runner /\ Len(runner') = Len(runner)
          /\ \A q \in DOMAIN runner : q # r => runner'[q] = runner[q]
          /\ runner'[r].wanted = runner[r].wanted /\ runner'[r].keys = SkipKeys(r)
          /\ runner'[r].state = IF runner[r].force THEN "unlink" ELSE "open"
      <3> DEFINE state == IF runner[r].force THEN "unlink" ELSE "open"
                 next == [runner[r] EXCEPT !.keys = SkipKeys(r), !.state = state,
                                           !.met = Live \ {r}]
      <3>1. /\ runner[r].state = "start" /\ UNCHANGED <<log, path, inodes>>
            /\ runner' = [runner EXCEPT ![r] = next]
        BY <1>7 DEF ReadKeys
      <3>2. /\ next.wanted = runner[r].wanted /\ next.keys = SkipKeys(r)
            /\ next.state = state
        BY <1>2 DEF RunnerRecord
      <3> HIDE DEF next
      <3> QED
        BY <1>1, <1>2, <3>1, <3>2
    <2>2. Recorded' = Recorded
      BY <2>1 DEF Recorded, IdsIn
    <2>3. SkipKeys(r) \subseteq Recorded /\ (runner[r].force => SkipKeys(r) = {})
      BY DEF SkipKeys
    <2> QED
      BY <1>1, <1>6, <2>1, <2>2, <2>3, AloneKnows DEF Told
  <1>8. CASE Unlink(r)
    <2>1. /\ runner[r].state = "unlink" /\ UNCHANGED log
          /\ runner' = [runner EXCEPT ![r].state = "open"]
      BY <1>8 DEF Unlink
    <2>2. runner[r].keys = {}
      BY <1>4, <2>1
    <2> QED
      BY <1>1, <1>6, <2>1, <2>2, StateSteps, AloneKnows DEF Told, States, Running
  <1>9. CASE Open(r)
    <2>1. /\ runner[r].state = "open" /\ UNCHANGED log
          /\ DOMAIN runner' = DOMAIN runner /\ Len(runner') = Len(runner)
          /\ \A q \in DOMAIN runner : q # r => runner'[q] = runner[q]
          /\ runner'[r].wanted = runner[r].wanted /\ runner'[r].keys = runner[r].keys
          /\ runner'[r].state = "search"
      BY <1>1, <1>2, <1>9 DEF Open, RunnerRecord
    <2>2. Recorded \subseteq Recorded'
      <3>1. path # None => UNCHANGED <<path, inodes>>
        BY <1>9 DEF Open
      <3> QED
        BY <3>1 DEF Recorded, IdsIn
    <2> QED
      BY <1>1, <1>4, <1>6, <2>1, <2>2, AloneKnows DEF Told
  <1>10. CASE Record(r)
    <2>1. runner[r].state = "search" /\ UNCHANGED <<log, runner, path>>
      BY <1>10 DEF Record
    <2>2. Recorded \subseteq Recorded'
      <3>1. \A g \in DOMAIN inodes : /\ DOMAIN inodes[g] \subseteq DOMAIN inodes'[g]
                                     /\ \A n \in DOMAIN inodes[g] : inodes'[g][n] = inodes[g][n]
        BY <1>1, <1>10, RecordAppends
      <3>2. path # None => path \in DOMAIN inodes
        BY <1>1 DEF FileType
      <3> QED
        BY <2>1, <3>1, <3>2 DEF Recorded, IdsIn
    <2> QED
      BY <1>1, <1>4, <1>6, <2>1, <2>2, AloneKnows DEF Told
  <1>11. CASE Wrote(r)
    <2>1. /\ runner[r].state = "search" /\ Pending(r) = {} /\ UNCHANGED <<log, path, inodes>>
          /\ runner' = [runner EXCEPT ![r].state = "wrote"]
      BY <1>11 DEF Wrote
    <2>2. runner[r].fd = path /\ path # None
      BY <1>1, <1>3, <2>1 DEF FileType
    <2>3. Recorded = IdsIn(path) /\ Recorded' = Recorded
      BY <2>1, <2>2 DEF Recorded, IdsIn
    <2>4. \A id \in runner[r].wanted \ runner[r].keys : id \in IdsIn(path)
      <3> SUFFICES ASSUME NEW id \in runner[r].wanted \ runner[r].keys
                   PROVE  id \in IdsIn(path)
        OBVIOUS
      <3>1. PICK n \in DOMAIN inodes[path] : inodes[path][n] = [id |-> id, by |-> r]
        BY <2>1, <2>2 DEF Pending
      <3> QED
        BY <3>1 DEF IdsIn
    <2>5. runner[r].wanted \subseteq Recorded
      BY <1>4, <2>3, <2>4
    <2> QED
      BY <1>1, <1>4, <1>6, <2>1, <2>3, <2>5, StateSteps, AloneKnows DEF Told, States, Running
  <1>12. CASE Tell(r)
    <2>1. /\ runner[r].state = "wrote" /\ UNCHANGED <<path, inodes>>
          /\ runner' = [runner EXCEPT ![r].state = "told"]
      BY <1>12 DEF Tell
    <2>2. Recorded' = Recorded
      BY <2>1 DEF Recorded, IdsIn
    <2> QED
      BY <1>1, <1>4, <2>1, <2>2, StateSteps, AloneKnows DEF Told, States, Running
  <1>13. CASE Exit(r)
    <2>1. /\ UNCHANGED <<log, path, inodes>>
          /\ runner' = [runner EXCEPT ![r].state = "exited"]
      BY <1>13 DEF Exit
    <2>2. Recorded' = Recorded
      BY <2>1 DEF Recorded, IdsIn
    <2> QED
      BY <1>1, <1>4, <1>5, <2>1, <2>2, StateSteps, AloneKnows DEF Told, States
  <1>14. CASE Fail(r)
    <2>1. /\ "wrote" \in log' => "wrote" \in log \/ runner[r].state = "wrote"
          /\ UNCHANGED <<path, inodes>>
          /\ runner' = [runner EXCEPT ![r].state = "exited"]
      BY <1>14 DEF Fail
    <2>2. Recorded' = Recorded
      BY <2>1 DEF Recorded, IdsIn
    <2> QED
      BY <1>1, <1>4, <1>5, <2>1, <2>2, StateSteps, AloneKnows DEF Told, States
  <1>15. CASE Noise(r)
    <2>1. ("wrote" \in log' => "wrote" \in log) /\ UNCHANGED <<runner, path, inodes>>
      BY <1>15 DEF Noise
    <2>2. Recorded' = Recorded
      BY <2>1 DEF Recorded, IdsIn
    <2> QED
      BY <1>1, <1>4, <1>5, <2>1, <2>2, AloneKnows
  <1> QED
    BY <1>7, <1>8, <1>9, <1>10, <1>11, <1>12, <1>13, <1>14, <1>15 DEF Runner

\* The script's steps: a launch that makes a runner empties the log, and only a
\* runner that is alive is confirmed.
LEMMA CompleteScript ==
  ASSUME FilesInv, ScriptType, LastAlone, CompleteInv,
         Start \/ Script \/ Interrupt \/ UNCHANGED vars
  PROVE  CompleteInv'
  <1> USE DEF CompleteInv
  <1>1. ASSUME UNCHANGED <<asked, torn, devboxVars>>,
               Ours' => Ours, SeenInLog', FetchedAll'
        PROVE  CompleteInv'
    <2>1. Recorded' = Recorded /\ Live' = Live
      BY <1>1 DEF devboxVars, Recorded, IdsIn, Live
    <2>2. RunnersKnow' /\ ToldTrue'
      BY <1>1, <2>1 DEF devboxVars, RunnersKnow, ToldTrue
    <2> QED
      BY <1>1, <2>2
  <1>2. CASE Start
    <2>1. pc' = "sync" /\ UNCHANGED <<torn, devboxVars>>
      BY <1>2 DEF Start
    <2>2. Recorded' = Recorded /\ Live' = Live
      BY <2>1 DEF devboxVars, Recorded, IdsIn, Live
    <2> QED
      BY <2>1, <2>2 DEF devboxVars, RunnersKnow, ToldTrue, Ours, SeenInLog, FetchedAll
  <1>3. CASE Sync \/ Interrupt
    <2>1. /\ UNCHANGED <<asked, torn, devboxVars>>
          /\ pc' \in {"teardown", "sync", "aborted", "interrupted"}
      BY <1>3 DEF Sync, Interrupt, GiveUp
    <2> QED
      BY <1>1, <2>1 DEF Ours, SeenInLog, FetchedAll
  <1>4. CASE Teardown
    <2>1. (torn' => Live' = {}) /\ pc' = "launch"
      BY <1>4, TeardownSteps DEF FilesInv, Teardown
    <2> QED
      BY <2>1 DEF RunnersKnow, ToldTrue, Ours, SeenInLog, FetchedAll
  <1>5. CASE Launch
    <2>1. /\ pc = "launch" /\ pc' = "confirm" /\ UNCHANGED <<asked, torn, path, inodes>>
          /\ runner \in Seq(RunnerRecord)
      BY <1>5 DEF Launch, AfterLaunch, FilesInv, FileType
    <2>2. torn => Live = {}
      BY <2>1 DEF LastAlone
    <2>3. SeenInLog' /\ FetchedAll'
      BY <2>1 DEF SeenInLog, FetchedAll
    <2>4. CASE UNCHANGED runner
      <3>1. torn => Live' = {}
        BY <2>2, <2>4 DEF Live
      <3> QED
        BY <2>1, <2>3, <3>1 DEF RunnersKnow, ToldTrue, Ours
    <2>5. CASE StartRunner
      <3> DEFINE new == [state |-> "start", force |-> asked.force, wanted |-> asked.wanted,
                         keys |-> {}, fd |-> None, met |-> {}]
      <3>1. runner' = Append(runner, new) /\ log' = {}
        BY <2>5 DEF StartRunner, EmptyLog
      <3>2. new.state = "start" /\ new.keys = {} /\ new.wanted = asked.wanted
        OBVIOUS
      <3> HIDE DEF new
      <3>3. /\ DOMAIN runner' = DOMAIN runner \cup {Len(runner')}
            /\ runner'[Len(runner')] = new
            /\ \A q \in DOMAIN runner : runner'[q] = runner[q]
        BY <2>1, <3>1
      <3>4. torn => \A q \in Live' : q = Len(runner')
        BY <2>2, <3>3 DEF Live
      <3>5. RunnersKnow'
        BY <2>1, <3>2, <3>3, <3>4 DEF RunnersKnow
      <3>6. ToldTrue'
        BY <2>1, <3>1, <3>2, <3>3 DEF ToldTrue
      <3> QED
        BY <2>3, <3>5, <3>6
    <2> QED
      BY <1>5, <2>4, <2>5 DEF Launch
  <1>6. CASE Confirm
    <2>1. UNCHANGED <<asked, torn, devboxVars>> /\ Live' = Live /\ pc = "confirm"
      BY <1>6 DEF Confirm, devboxVars, Live
    <2>2. \/ pid \in Live /\ pc' = "poll"
          \/ pc' \in {"confirm", "aborted"}
      BY <1>6, <2>1 DEF Confirm, GiveUp
    <2> QED
      BY <1>1, <2>1, <2>2 DEF Ours, SeenInLog, FetchedAll
  <1>7. CASE Poll
    <2>1. /\ UNCHANGED <<asked, torn, devboxVars>> /\ Live' = Live /\ pc = "poll"
          /\ (pc' = "fetch" /\ seen' = log) \/ pc' = "poll"
      BY <1>7 DEF Poll, devboxVars, Live
    <2> QED
      BY <1>1, <2>1 DEF Ours, SeenInLog, FetchedAll, devboxVars
  <1>8. CASE FetchDone
    <2>1. /\ UNCHANGED <<asked, seen, torn, devboxVars>>
          /\ pc = "fetch" /\ pc' = "complete"
          /\ (copied' => fetched' = Recorded)
      BY <1>8 DEF FetchDone, Fetch
    <2>2. SeenInLog' /\ seen \subseteq log
      BY <2>1 DEF SeenInLog, devboxVars
    <2>3. torn /\ "wrote" \in seen => asked.wanted \subseteq Recorded
      BY <2>1, <2>2 DEF ToldTrue, Ours
    <2>4. FetchedAll'
      BY <2>1, <2>3 DEF FetchedAll
    <2> QED
      BY <1>1, <2>1, <2>2, <2>4 DEF Ours
  <1>9. CASE FetchAnyway
    <2>1. UNCHANGED <<asked, torn, devboxVars>> /\ pc' = "window"
      BY <1>9 DEF FetchAnyway, Fetch
    <2> QED
      BY <1>1, <2>1 DEF Ours, SeenInLog, FetchedAll
  <1>10. CASE UNCHANGED vars
    <2>1. UNCHANGED <<asked, torn, pc, seen, fetched, copied, devboxVars>> /\ Live' = Live
      BY <1>10 DEF vars, scriptVars, devboxVars, Live
    <2> QED
      BY <1>1, <2>1 DEF Ours, SeenInLog, FetchedAll, devboxVars
  <1> QED
    BY <1>2, <1>3, <1>4, <1>5, <1>6, <1>7, <1>8, <1>9, <1>10 DEF Script

LEMMA CompleteStep ==
  ASSUME FilesInv, ScriptType, LastAlone, CompleteInv, [Next]_vars
  PROVE  CompleteInv'
  <1>1. ASSUME NEW r \in DOMAIN runner, Runner(r)
        PROVE  CompleteInv'
    <2>1. UNCHANGED scriptVars /\ log \subseteq log'
      BY <1>1 DEF Runner, ReadKeys, Unlink, Open, Record, Wrote, Tell, Exit, Fail, Noise
    <2>2. SeenInLog' /\ FetchedAll'
      BY <2>1 DEF scriptVars, CompleteInv, SeenInLog, FetchedAll
    <2>3. CASE ~ torn
      BY <2>1, <2>2, <2>3 DEF scriptVars, CompleteInv, RunnersKnow, ToldTrue
    <2>4. CASE torn /\ r \in Live
      BY <2>4, <1>1, CompleteRunner
    \* Only a server that a runner left behind has something to say then.
    <2>5. CASE r \notin Live
      <3>1. Noise(r)
        BY <1>1, <2>5 DEF Runner, ReadKeys, Unlink, Open, Record, Wrote, Tell, Exit, Fail,
                          Live, Running
      <3>2. /\ UNCHANGED <<scriptVars, runner, path, inodes>>
            /\ "wrote" \in log' => "wrote" \in log
        BY <3>1 DEF Noise
      <3>3. Live' = Live /\ Recorded' = Recorded
        BY <3>2 DEF Live, Recorded, IdsIn
      <3>4. RunnersKnow' /\ ToldTrue'
        BY <3>2, <3>3 DEF scriptVars, CompleteInv, RunnersKnow, ToldTrue, Ours
      <3> QED
        BY <2>2, <3>4 DEF CompleteInv
    <2> QED
      BY <2>3, <2>4, <2>5
  <1> QED
    BY <1>1, CompleteScript DEF Next

\* A sweep called complete on a "wrote" line, its runner alone, has recorded
\* everything this run of the script asked for, and has it in the local copy if
\* the copy went through: the line is never an earlier runner's, nor one that
\* was written before the last record.
THEOREM CompleteRecorded == Spec => []CompleteIsRecorded
  <1>1. Init => FilesInv /\ ScriptType /\ LastAlone /\ CompleteInv
    <2>1. Init => ScriptType
      BY DEF Init, ScriptType, Ended
    <2>2. Init => LastAlone
      BY DEF Init, LastAlone, Live
    <2>3. Init => CompleteInv
      BY DEF Init, CompleteInv, RunnersKnow, ToldTrue, SeenInLog, FetchedAll, Ours, Live
    <2> QED
      BY <2>1, <2>2, <2>3, InitFiles
  <1>2. FilesInv /\ ScriptType /\ LastAlone /\ CompleteInv /\ [Next]_vars
          => (FilesInv /\ ScriptType /\ LastAlone /\ CompleteInv)'
    BY FilesStep, ScriptTypeStep, AloneStep, CompleteStep DEF FilesInv
  <1>3. CompleteInv => CompleteIsRecorded
    <2> SUFFICES ASSUME CompleteInv, pc = "complete", torn, "wrote" \in seen
                 PROVE  /\ asked.wanted \subseteq Recorded
                        /\ copied => asked.wanted \subseteq fetched
      BY DEF CompleteIsRecorded
    <2>1. "wrote" \in log
      BY DEF CompleteInv, SeenInLog
    <2> QED
      BY <2>1 DEF CompleteInv, ToldTrue, Ours, FetchedAll
  <1> QED
    BY <1>1, <1>2, <1>3, PTL DEF Spec

=============================================================================
