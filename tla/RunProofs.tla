----------------------------- MODULE RunProofs -----------------------------
(***************************************************************************)
(* Proofs about Run: what a result directory holds after any sequence of   *)
(* invocations, failures and crashes.  The search inside an invocation is  *)
(* module Driver, whose invariants are proved in DriverGateProofs and used *)
(* here as they stand.                                                     *)
(***************************************************************************)
EXTENDS Run, GenerateProofs

\* Driver with its proofs: the same module that Run calls Search.
D == INSTANCE DriverGateProofs

LEMMA HashesOfPoints ==
  ASSUME NEW points \in Seq(Search!ConfigPoint)
  PROVE  HashesIn(points) \subseteq Configs
  <1>1. ASSUME NEW n \in DOMAIN points PROVE points[n].hash \in Configs
    <2>1. points[n] \in Search!ConfigPoint
      BY <1>1, ElementOfSeq, LenProperties
    <2> QED
      BY <2>1 DEF Search!ConfigPoint
  <1> QED
    BY <1>1 DEF HashesIn, Range

\* A plan names a configuration once, and evaluates configurations it names.
LEMMA PlansAreLists ==
  ASSUME NEW req \in Requests
  PROVE  /\ PlanOf(req).points \in Seq(Search!ConfigPoint)
         /\ NoneTwice(PlanOf(req).points)
         /\ PlanOf(req).evaluate_hashes \subseteq Configs
  <1>1. /\ ValidBranch(req.branch) /\ DeclaresLists(req.branch)
        /\ req.mode # "ofat" => req.branch.focused_grid # None
        /\ req.limit \in Int
        /\ PlanOf(req).points \in Seq(Search!ConfigPoint)
    BY PlannedRequests
  <1>2. /\ NoneTwice(PlanOf(req).points)
        /\ PlanOf(req).evaluate_hashes \subseteq HashesIn(PlanOf(req).points)
    BY <1>1, PlannedOnce DEF PlanOf
  <1>3. HashesIn(PlanOf(req).points) \subseteq Configs
    BY <1>1, HashesOfPoints
  <1> QED
    BY <1>1, <1>2, <1>3

\* The calls an invocation makes are calls that Driver's proofs speak of.
LEMMA CallsOfRequests ==
  /\ \A req \in Requests, skip \in SUBSET (Configs \X Workloads) :
       CallOf(req, PlanOf(req), skip) \in Calls
  /\ Calls \subseteq D!Call
  <1>1. \A req \in Requests, skip \in SUBSET (Configs \X Workloads) :
          CallOf(req, PlanOf(req), skip) \in Calls
    BY DEF Calls
  <1>2. ASSUME NEW req \in Requests, NEW skip \in SUBSET (Configs \X Workloads)
        PROVE  CallOf(req, PlanOf(req), skip) \in D!Call
    BY PlannedRequests, PlansAreLists DEF CallOf, D!Call, D!ConfigPoint, Search!ConfigPoint
  <1> QED
    BY <1>1, <1>2 DEF Calls

\* What the proofs about Driver assume holds of the searches of Run.
LEMMA DriverAssumption ==
  /\ Baseline \in Labels
  /\ D!Scores \subseteq Int
  /\ Tolerance \in Nat
  /\ HigherBetter \in BOOLEAN
  /\ Repeats \in Nat
  /\ None \notin Accuracies /\ None \notin Configs /\ None \notin BOOLEAN
  /\ Calls \subseteq D!Call
  BY RunConstants, CallsOfRequests DEF D!Scores

-----------------------------------------------------------------------------
(* The actions of Search are those of D *)

LEMMA SameFunctions == \A f : D!Range(f) = Range(f) /\ (D!IsInjective(f) <=> IsInjective(f))
  BY DEF D!Range, Range, D!IsInjective, IsInjective

LEMMA SameRecord == Search!NewRecord = D!NewRecord
  BY DEF Search!NewRecord, D!NewRecord, Search!cp, D!cp

LEMMA SameStamp == Search!NoStamp = D!NoStamp /\ Search!Stamp = D!Stamp
  BY DEF Search!NoStamp, D!NoStamp, Search!Stamp, D!Stamp, Search!Verdicts, D!Verdicts

LEMMA SameBegin == \A c : Search!Begin(c) <=> D!Begin(c)
  BY SameStamp DEF Search!Begin, D!Begin

LEMMA SameLoop ==
  /\ Search!NextConfig <=> D!NextConfig
  /\ Search!Launch <=> D!Launch
  /\ Search!LaunchFails <=> D!LaunchFails
  /\ Search!Warmup <=> D!Warmup
  /\ Search!MeasureRun <=> D!MeasureRun
  /\ Search!MeasureFails <=> D!MeasureFails
  /\ Search!Shutdown <=> D!Shutdown
  /\ Search!Unwind <=> D!Unwind
  /\ Search!Return <=> D!Return
  BY DEF Search!NextConfig, D!NextConfig, Search!Missing, D!Missing, Search!Resume, D!Resume,
     Search!Launch, D!Launch, Search!cp, D!cp, Search!LaunchFails, D!LaunchFails,
     Search!Warmup, D!Warmup, Search!MIN_REPEATS, D!MIN_REPEATS, Search!MeasureRun,
     D!MeasureRun, Search!MorePasses, D!MorePasses, Search!MeasureFails, D!MeasureFails,
     Search!Shutdown, D!Shutdown, Search!Unwind, D!Unwind, Search!Return, D!Return,
     Search!loopVars, D!loopVars

LEMMA SameStamping ==
  /\ Search!StampInactive <=> D!StampInactive
  /\ Search!StampEvaluated <=> D!StampEvaluated
  /\ Search!StampReused <=> D!StampReused
  /\ Search!StampFails <=> D!StampFails
  <1>1. \A a : Search!Judge(a) <=> D!Judge(a)
    BY DEF Search!Judge, D!Judge, Search!Reference, D!Reference, Search!Verdict, D!Verdict,
       Search!ScoreOf, D!ScoreOf, Search!Scores, D!Scores, Search!Passes, D!Passes,
       Search!Degradation, D!Degradation, Search!cp, D!cp
  <1> QED
    BY <1>1, SameStamp
    DEF Search!StampInactive, D!StampInactive, Search!StampEvaluated, D!StampEvaluated,
        Search!StampReused, D!StampReused, Search!StampFails, D!StampFails,
        Search!Evaluated, D!Evaluated, Search!cp, D!cp, Search!loopVars, D!loopVars

LEMMA SameEmit ==
  /\ Search!Emit <=> D!Emit
  /\ Search!EmitFails <=> D!EmitFails
  BY SameRecord DEF Search!Emit, D!Emit, Search!EmitFails, D!EmitFails,
     Search!loopVars, D!loopVars

\* A step of the search is a step of Driver.
LEMMA SearchIsDriver ==
  /\ Search!Progress \/ Search!Unwind \/ Search!LaunchFails \/ Search!StampFails
       \/ Search!MeasureFails => D!Next
  /\ Search!EmitFails => D!Next
  BY SameLoop, SameStamping, SameEmit
  DEF Search!Progress, D!Progress, D!Next, D!Failure

-----------------------------------------------------------------------------
(* The invariant *)

Searching == step \in {"search", "result"}

\* Where main stands and what it has in hand there.
ControlInv ==
  /\ step \in {"idle", "keys", "unlink", "manifest", "history", "search", "result"}
  /\ inv \in 0 .. MaxInvocations
  /\ step = "idle" <=> request = None
  /\ request # None => request \in Requests /\ plan = PlanOf(request) /\ inv > 0
  /\ skip_keys \subseteq Configs \X Workloads
  /\ step \in {"idle", "keys", "unlink"} => skip_keys = {}
  /\ step = "unlink" => request.force
  /\ step = "result" => plan.skipped /\ pc = "returned"

DiskInv ==
  /\ file \in Seq(Line)
  /\ \A n \in DOMAIN file : file[n].inv <= inv
  /\ tail \in {"clean", "partial", "unended"}
  /\ manifest \in Manifest \cup {None}
  /\ step \in {"history", "search", "result"} => manifest \in Manifest
  /\ history \in Seq(HistoryLine)
  /\ open_line \in BOOLEAN

\* While there is a call its own invariant holds, and it is the call that main
\* made; otherwise nothing is being searched.
CallMade ==
  IF Searching THEN D!CallInv /\ call = CallOf(request, plan, skip_keys)
               ELSE pc = "next" /\ session = None /\ stream = << >>

\* Until the search begins, what is on disk was left by earlier invocations.
Preparing == step \in {"keys", "unlink", "manifest", "history"}

\* A line of manifests.jsonl that is still open is not of the invocation that
\* searches, and none of those it is of has a record.
HistoryInv ==
  /\ \A line \in Range(history) :
       line.of # {} /\ \A m \in line.of : m.inv <= inv /\ (Preparing => m.inv < inv)
  /\ Preparing => \A n \in DOMAIN file : file[n].inv < inv
  /\ open_line =>
       /\ history # << >> /\ ~Searching
       /\ \A m \in history[Len(history)].of : \A n \in DOMAIN file : file[n].inv # m.inv

\* A record on disk has the manifest of its invocation on disk too, and one
\* that is still to be made will.
ManifestInv ==
  /\ RecordsHaveManifest
  /\ Searching => Documented(inv)
  /\ HistoryInv

\* What skip_keys names is on disk, and so is what on_result took.
KeysKept ==
  /\ skip_keys \subseteq Keys(file)
  /\ \A k \in DOMAIN stream :
       \E n \in DOMAIN file : file[n] = [rec |-> stream[k], inv |-> inv]

StreamKeys == { Key(stream[k]) : k \in DOMAIN stream }

\* What is on disk was there when the keys were read or is in the stream: the
\* search takes the whole file into account.  After a failure the record on
\* the way to the disk may be there as well.
KeysKnown ==
  step \in {"manifest", "history", "search", "result"} =>
    \A n \in DOMAIN file :
      /\ file[n].inv < inv => Key(file[n].rec) \in skip_keys
      /\ pc \notin {"unwind", "raised"} =>
           Key(file[n].rec) \in skip_keys \cup StreamKeys

RunInv ==
  ControlInv /\ DiskInv /\ CallMade /\ ManifestInv /\ KeysKept /\ KeysKnown

\* A plan: the spot-check of one that skips evaluation is evaluated, and only
\* a gated search skips.
LEMMA PlanShape ==
  ASSUME NEW req \in Requests
  PROVE  /\ PlanOf(req).skipped \in BOOLEAN
         /\ PlanOf(req).skipped => /\ req.gate
                                   /\ PlanOf(req).spot.hash \in Configs
                                   /\ PlanOf(req).spot.hash \in PlanOf(req).evaluate_hashes
  <1> DEFINE points == SelectPoints(req.branch, req.mode, req.only, req.limit)
             spot == SpotCheckPoint(req.branch, points)
             skipping == AccuracyInvariantSearch(req.branch, points) /\ spot # None
  <1> HIDE DEF points, spot, skipping
  <1>1. PlanOf(req) = IF req.gate /\ skipping
                        THEN SkippingPlan(req.branch, points, spot) ELSE PerConfigPlan(points)
    BY DEF PlanOf, Plan, points, spot, skipping
  <1>2. /\ SkippingPlan(req.branch, points, spot).skipped
        /\ SkippingPlan(req.branch, points, spot).spot = spot
        /\ spot.hash \in SkippingPlan(req.branch, points, spot).evaluate_hashes
    BY DEF SkippingPlan
  <1>3. PerConfigPlan(points).skipped = FALSE
    BY DEF PerConfigPlan
  <1>4. CASE req.gate /\ skipping
    BY <1>1, <1>2, <1>4, PlansAreLists
  <1>5. CASE ~(req.gate /\ skipping)
    BY <1>1, <1>3, <1>5
  <1> QED
    BY <1>4, <1>5

LEMMA NewManifestType ==
  ASSUME RunInv, request # None
  PROVE  NewManifest \in Manifest
  <1>1. /\ request \in Requests /\ plan = PlanOf(request)
        /\ inv \in 1 .. MaxInvocations
    BY RunConstants DEF RunInv, ControlInv
  <1>2. Search!NoStamp \in Search!Stamp
    BY DEF Search!NoStamp, Search!Stamp, Search!Verdicts
  <1>3. /\ plan.skipped \in BOOLEAN
        /\ plan.skipped => plan.spot.hash \in Configs
        /\ request.force \in BOOLEAN /\ request.gate \in BOOLEAN
        /\ request.branch.name \in Branches
    BY <1>1, PlanShape, PlannedRequests
  <1> QED
    BY <1>1, <1>2, <1>3 DEF NewManifest, Manifest

LEMMA InitRunInv == Init => RunInv
  <1> SUFFICES ASSUME Init PROVE RunInv
    OBVIOUS
  <1>1. file = << >> /\ history = << >> /\ stream = << >> /\ step = "idle"
    BY DEF Init
  <1>2. ControlInv /\ DiskInv
    <2>1. file \in Seq(Line) /\ history \in Seq(HistoryLine)
      BY <1>1, EmptySeq
    <2>2. ControlInv
      BY <1>1, RunConstants DEF Init, ControlInv
    <2>3. \A n \in DOMAIN file : file[n].inv <= inv
      BY <1>1
    <2>4. DiskInv
      BY <1>1, <2>1, <2>3 DEF Init, DiskInv
    <2> QED
      BY <2>2, <2>4
  <1>3. CallMade
    BY <1>1 DEF Init, CallMade, Searching
  <1>4. ManifestInv
    <2>1. open_line = FALSE /\ Range(history) = {} /\ DOMAIN file = {}
      BY <1>1 DEF Init, Range
    <2> QED
      BY <1>1, <2>1 DEF ManifestInv, HistoryInv, RecordsHaveManifest, Searching
  <1>5. KeysKept /\ KeysKnown
    BY <1>1 DEF Init, KeysKept, KeysKnown, Keys
  <1> QED
    BY <1>2, <1>3, <1>4, <1>5 DEF RunInv

-----------------------------------------------------------------------------
(* What a step of the search writes *)

\* The line of the record being made.
NewLine == [rec |-> Search!NewRecord, inv |-> inv]

LEMMA WriteNothing ==
  ASSUME file \in Seq(Line), Write(<< >>)
  PROVE  UNCHANGED <<file, tail>>
  <1>1. Stamped(<< >>) = << >>
    BY DEF Stamped
  <1>2. file' = file \o << >>
    BY <1>1 DEF Write
  <1>3. file \o << >> = file
    OBVIOUS
  <1> QED
    BY <1>2, <1>3 DEF Write

LEMMA StampedOne ==
  ASSUME file \in Seq(Line), NEW r, [rec |-> r, inv |-> inv] \in Line
  PROVE  file \o Stamped(<< r >>) = Append(file, [rec |-> r, inv |-> inv])
  <1>1. Stamped(<< r >>) = << [rec |-> r, inv |-> inv] >>
    BY DEF Stamped
  <1> DEFINE line == [rec |-> r, inv |-> inv]
  <1> HIDE DEF line
  <1>2. line \in Line => file \o << line >> = Append(file, line)
    OBVIOUS
  <1> QED
    BY <1>1, <1>2 DEF line

\* The part of a stream that an appended record makes up.
LEMMA Appended ==
  ASSUME NEW S, NEW s \in Seq(S), NEW e \in S
  PROVE  SubSeq(Append(s, e), Len(s) + 1, Len(Append(s, e))) = << e >>
  <1> DEFINE t == Append(s, e)
             u == SubSeq(t, Len(s) + 1, Len(t))
  <1>1. t \in Seq(S) /\ Len(t) = Len(s) + 1 /\ t[Len(s) + 1] = e /\ Len(s) \in Nat
    OBVIOUS
  <1> HIDE DEF t
  <1>2. u \in Seq(S) /\ Len(u) = 1 /\ u[1] = e
    BY <1>1, SubSeqProperties
  <1> HIDE DEF u
  <1>3. u = << e >>
    BY <1>2
  <1> QED
    BY <1>3 DEF t, u

LEMMA NotAppended ==
  ASSUME NEW S, NEW s \in Seq(S)
  PROVE  SubSeq(s, Len(s) + 1, Len(s)) = << >>
  OBVIOUS

\* During a search the call's invariant is at hand.
LEMMA AtSearch ==
  ASSUME RunInv, step = "search"
  PROVE  /\ D!CallInv /\ D!TypeInv /\ D!StreamInv
         /\ call = CallOf(request, plan, skip_keys)
         /\ request \in Requests /\ plan = PlanOf(request) /\ inv > 0
         /\ stream \in Seq(D!Record)
         /\ file \in Seq(Line)
  BY DEF RunInv, ControlInv, CallMade, Searching, DiskInv, D!CallInv, D!EvalInv,
     D!StreamInv, D!TypeInv, D!TypeOK

LEMMA NewLineType ==
  ASSUME RunInv, step = "search", pc = "measure"
  PROVE  NewLine \in Line /\ Search!NewRecord \in D!Record
  <1>1. D!NewRecord \in D!Record
    BY AtSearch, DriverAssumption, D!NewRecordType
  <1>2. Search!NewRecord \in Search!Record
    BY <1>1, SameRecord DEF Search!Record, D!Record, Search!Verdicts, D!Verdicts
  <1>3. inv \in 1 .. MaxInvocations
    BY AtSearch, RunConstants DEF RunInv, ControlInv
  <1> QED
    BY <1>1, <1>2, <1>3, SameRecord DEF NewLine, Line

\* A step in which on_result does not fail writes what the stream takes.
LEMMA SearchStepWrites ==
  ASSUME RunInv, SearchStep
  PROVE  /\ D!CallInv' /\ UNCHANGED call
         /\ \/ /\ UNCHANGED <<stream, file, tail>>
               /\ pc \in {"unwind", "raised"} => pc' \in {"unwind", "raised"}
            \/ /\ pc = "measure" /\ stream' = Append(stream, Search!NewRecord)
               /\ file' = Append(file, NewLine)
  <1>1. step = "search" /\ D!Next
    BY SearchIsDriver DEF SearchStep
  <1>2. D!CallInv' /\ UNCHANGED call
    BY <1>1, AtSearch, DriverAssumption, D!NextCallInv, D!EvalsGrow
  <1>3. Write(SubSeq(stream', Len(stream) + 1, Len(stream')))
    BY DEF SearchStep
  <1>4. CASE D!Emit
    <2>1. pc = "measure" /\ stream' = Append(stream, Search!NewRecord)
      BY <1>4, SameRecord DEF D!Emit
    <2>2. SubSeq(stream', Len(stream) + 1, Len(stream')) = << Search!NewRecord >>
      BY <1>1, <2>1, AtSearch, NewLineType, Appended
    <2>3. file' = Append(file, NewLine)
      BY <1>1, <1>3, <2>1, <2>2, AtSearch, NewLineType, StampedOne DEF Write, NewLine
    <2> QED
      BY <1>2, <2>1, <2>3
  <1>5. CASE UNCHANGED <<stream, call>> /\ (pc \in {"unwind", "raised"} =>
                                            pc' \in {"unwind", "raised"})
    <2>1. SubSeq(stream', Len(stream) + 1, Len(stream')) = << >>
      BY <1>1, <1>5, AtSearch, NotAppended
    <2>2. UNCHANGED <<file, tail>>
      BY <1>1, <1>3, <2>1, AtSearch, WriteNothing
    <2> QED
      BY <1>2, <1>5, <2>2
  <1> QED
    BY <1>1, <1>4, <1>5, DriverAssumption, D!StreamStep

\* When on_result fails the record may be on disk, and the search unwinds.
LEMMA SinkFailsWrites ==
  ASSUME RunInv, SinkFails
  PROVE  /\ D!CallInv' /\ UNCHANGED <<call, stream>>
         /\ pc = "measure" /\ pc' = "unwind"
         /\ UNCHANGED file \/ file' = Append(file, NewLine)
         /\ tail' \in {"clean", "partial", "unended"}
  <1>1. step = "search" /\ D!Next /\ Search!EmitFails
    BY SearchIsDriver DEF SinkFails
  <1>2. D!CallInv' /\ UNCHANGED call
    BY <1>1, AtSearch, DriverAssumption, D!NextCallInv, D!EvalsGrow
  <1>3. UNCHANGED stream /\ pc = "measure" /\ pc' = "unwind"
    BY <1>1 DEF Search!EmitFails
  <1>4. tail \in {"clean", "partial", "unended"}
    BY DEF RunInv, DiskInv
  <1>5. CASE Write(<< >>)
    BY <1>1, <1>2, <1>3, <1>4, <1>5, AtSearch, WriteNothing
  <1>6. CASE Write(<< Search!NewRecord >>)
    BY <1>1, <1>2, <1>3, <1>4, <1>6, AtSearch, NewLineType, StampedOne DEF Write, NewLine
  <1>7. CASE tail' = "partial" /\ UNCHANGED file
    BY <1>2, <1>3, <1>7
  <1> QED
    BY <1>5, <1>6, <1>7 DEF SinkFails

\* Killed, an invocation leaves the file as it is or with the record that was
\* on its way.
LEMMA CrashWrites ==
  ASSUME RunInv, Crash
  PROVE  /\ \/ UNCHANGED <<file, history, open_line>>
            \/ /\ step = "search" /\ pc = "measure" /\ file' = Append(file, NewLine)
               /\ UNCHANGED <<history, open_line>>
            \/ /\ step = "history" /\ UNCHANGED file /\ open_line' = TRUE
               /\ \E whole \in BOOLEAN : history' = HistoryWith(NewManifest, whole)
         /\ tail' \in {"clean", "partial", "unended"}
         /\ manifest' \in Manifest \cup {None}
  <1>1. /\ file \in Seq(Line) /\ tail \in {"clean", "partial", "unended"}
        /\ manifest \in Manifest \cup {None}
    BY DEF RunInv, DiskInv
  <1>2. step = "search" /\ pc = "measure" =>
          file \o Stamped(<< Search!NewRecord >>) = Append(file, NewLine)
    BY <1>1, NewLineType, StampedOne DEF NewLine
  <1>3. CASE UNCHANGED disk
    BY <1>1, <1>3 DEF disk
  <1>4. CASE RecordCut
    BY <1>1, <1>2, <1>4 DEF RecordCut
  <1>5. CASE HistoryCut
    BY <1>1, <1>5 DEF HistoryCut
  <1>6. CASE ManifestCut
    BY <1>1, <1>6 DEF ManifestCut
  <1> QED
    BY <1>3, <1>4, <1>5, <1>6 DEF Crash

-----------------------------------------------------------------------------
(* Every step keeps the invariant *)

\* The file with one more line of this invocation.
LEMMA GrownFile ==
  ASSUME RunInv, step = "search", pc = "measure", file' = Append(file, NewLine)
  PROVE  /\ file' \in Seq(Line)
         /\ DOMAIN file \subseteq DOMAIN file'
         /\ \A n \in DOMAIN file : file'[n] = file[n]
         /\ \A n \in DOMAIN file' : n \in DOMAIN file \/ file'[n] = NewLine
         /\ \E n \in DOMAIN file' : file'[n] = NewLine
  <1>1. file \in Seq(Line) /\ NewLine \in Line
    BY AtSearch, NewLineType
  <1> HIDE DEF NewLine
  <1>2. /\ DOMAIN file' = DOMAIN file \cup {Len(file) + 1}
        /\ file'[Len(file) + 1] = NewLine
        /\ \A n \in DOMAIN file : file'[n] = file[n]
    BY <1>1
  <1> QED
    BY <1>1, <1>2

LEMMA HistoryTypes ==
  ASSUME RunInv, NEW line \in Range(history), NEW m \in line.of
  PROVE  m.inv \in 1 .. MaxInvocations
  <1>1. line \in HistoryLine
    BY DEF RunInv, DiskInv, Range
  <1> QED
    BY <1>1 DEF HistoryLine, Manifest

LEMMA LineTypes ==
  ASSUME RunInv, NEW n \in DOMAIN file
  PROVE  /\ file[n].inv \in 1 .. MaxInvocations
         /\ file[n].rec.config_hash \in Configs
         /\ file[n].rec.label \in Workloads
  <1>1. file[n] \in Line
    BY DEF RunInv, DiskInv
  <1>2. file[n].rec \in Search!Record
    BY <1>1 DEF Line
  <1> QED
    BY <1>1, <1>2 DEF Line, Search!Record

\* Documented, of any lines of manifests.jsonl and any records.
Documents(lines, records, number) ==
  \E line \in Range(lines) : \E m \in line.of :
    /\ m.inv = number
    /\ line.readable \/ line.of # {m}
    /\ \A other \in line.of \ {m} :
         other.inv < number /\ \A n \in DOMAIN records : records[n].inv # other.inv

LEMMA DocumentedOnDisk ==
  /\ RecordsHaveManifest <=> \A n \in DOMAIN file : Documents(history, file, file[n].inv)
  /\ RecordsHaveManifest' <=> \A n \in DOMAIN file' : Documents(history', file', file'[n].inv)
  /\ Documented(inv) <=> Documents(history, file, inv)
  /\ Documented(inv)' <=> Documents(history', file', inv')
  BY DEF RecordsHaveManifest, Documented, Documents

\* Further records of the same invocations and of later ones change nothing.
LEMMA StillDocuments ==
  ASSUME NEW lines, NEW records, NEW more, NEW number \in Int,
         Documents(lines, records, number),
         \A n \in DOMAIN more :
           \/ \E k \in DOMAIN records : more[n].inv = records[k].inv
           \/ more[n].inv \in Int /\ number <= more[n].inv
  PROVE  Documents(lines, more, number)
  <1>0. PICK line \in Range(lines) : \E m \in line.of :
          /\ m.inv = number
          /\ line.readable \/ line.of # {m}
          /\ \A other \in line.of \ {m} :
               other.inv < number /\ \A n \in DOMAIN records : records[n].inv # other.inv
    BY DEF Documents
  <1>1. PICK m \in line.of :
          /\ m.inv = number
          /\ line.readable \/ line.of # {m}
          /\ \A other \in line.of \ {m} :
               other.inv < number /\ \A n \in DOMAIN records : records[n].inv # other.inv
    BY <1>0
  <1>2. ASSUME NEW other \in line.of \ {m}, NEW n \in DOMAIN more
        PROVE  more[n].inv # other.inv
    <2>1. CASE \E k \in DOMAIN records : more[n].inv = records[k].inv
      BY <1>1, <2>1
    <2>2. CASE more[n].inv \in Int /\ number <= more[n].inv
      BY <1>1, <2>2
    <2> QED
      BY <2>1, <2>2
  <1> QED
    BY <1>1, <1>2 DEF Documents

\* What holds of the lines holds with the new one: its invocation is this one,
\* which has its manifest.
LEMMA GrownFileKeeps ==
  ASSUME RunInv, step = "search", pc = "measure", UNCHANGED <<inv, history, open_line>>,
         UNCHANGED file \/ file' = Append(file, NewLine)
  PROVE  /\ file' \in Seq(Line)
         /\ \A n \in DOMAIN file' : file'[n].inv <= inv
         /\ RecordsHaveManifest' /\ Documented(inv)'
         /\ open_line = FALSE
         /\ Keys(file) \subseteq Keys(file')
         /\ \A k \in DOMAIN stream :
              \E n \in DOMAIN file' : file'[n] = [rec |-> stream[k], inv |-> inv]
  <1>0. /\ file \in Seq(Line) /\ \A n \in DOMAIN file : file[n].inv \in Int /\ file[n].inv <= inv
        /\ RecordsHaveManifest /\ Documented(inv) /\ open_line = FALSE
        /\ inv \in Int
    <2>1. inv \in Int /\ file \in Seq(Line) /\ \A n \in DOMAIN file : file[n].inv <= inv
      BY RunConstants DEF RunInv, ControlInv, DiskInv
    <2>2. \A n \in DOMAIN file : file[n].inv \in Int
      BY LineTypes, RunConstants
    <2>3. RecordsHaveManifest /\ Documented(inv) /\ open_line = FALSE
      BY DEF RunInv, DiskInv, ManifestInv, HistoryInv, Searching
    <2> QED
      BY <2>1, <2>2, <2>3
  <1> USE DEF RunInv, DiskInv, KeysKept
  <1>1. CASE UNCHANGED file
    <2>1. RecordsHaveManifest' /\ Documented(inv)'
      BY <1>0, <1>1, DocumentedOnDisk
    <2> QED
      BY <1>0, <1>1, <2>1
  <1>2. CASE file' = Append(file, NewLine)
    <2>1. NewLine.inv = inv /\ inv <= inv
      BY <1>0 DEF NewLine
    <2>2. file' \in Seq(Line) /\ \A n \in DOMAIN file' : file'[n].inv <= inv
      BY <1>2, <2>1, GrownFile
    <2>3. \A n \in DOMAIN file' :
            (\E k \in DOMAIN file : file'[n].inv = file[k].inv) \/ file'[n].inv = inv
      BY <1>2, <2>1, GrownFile
    <2>4. \A number \in Int : number <= inv /\ Documents(history, file, number) =>
                               Documents(history', file', number)
      BY <1>0, <2>3, StillDocuments
    <2>5. RecordsHaveManifest' /\ Documented(inv)'
      <3>1. /\ \A n \in DOMAIN file : Documents(history, file, file[n].inv)
            /\ Documents(history, file, inv)
        BY <1>0, DocumentedOnDisk
      <3>2. \A n \in DOMAIN file' : Documents(history', file', file'[n].inv)
        BY <1>0, <2>3, <2>4, <3>1
      <3>3. Documents(history', file', inv')
        BY <1>0, <2>4, <3>1
      <3> QED
        BY <3>2, <3>3, DocumentedOnDisk
    <2>6. Keys(file) \subseteq Keys(file')
      BY <1>2, GrownFile DEF Keys
    <2>7. \A k \in DOMAIN stream :
            \E n \in DOMAIN file' : file'[n] = [rec |-> stream[k], inv |-> inv]
      <3> SUFFICES ASSUME NEW k \in DOMAIN stream
                   PROVE  \E n \in DOMAIN file' :
                            file'[n] = [rec |-> stream[k], inv |-> inv]
        OBVIOUS
      <3>1. PICK n \in DOMAIN file : file[n] = [rec |-> stream[k], inv |-> inv]
        OBVIOUS
      <3> QED
        BY <1>2, <3>1, GrownFile
    <2> QED
      BY <1>0, <2>2, <2>5, <2>6, <2>7
  <1> QED
    BY <1>1, <1>2

\* With a manifest more, whole or not, nothing is lost: a line that takes it was
\* of invocations without a record.
LEMMA GrownHistoryKeeps ==
  ASSUME RunInv, step = "history", UNCHANGED <<file, inv>>, NEW whole \in BOOLEAN,
         history' = HistoryWith(NewManifest, whole)
  PROVE  /\ history' \in Seq(HistoryLine) /\ history' # << >>
         /\ \A line \in Range(history') :
              line.of # {} /\ \A m \in line.of : m.inv <= inv
         /\ \A m \in history'[Len(history')].of : \A n \in DOMAIN file : file[n].inv # m.inv
         /\ RecordsHaveManifest'
         /\ whole => Documented(inv)'
  <1> DEFINE M == NewManifest
             N == Len(history)
             L == Len(history')
             Begun == IF open_line THEN history[N].of ELSE {}
             last == [of |-> Begun \cup {M}, readable |-> ~open_line /\ whole]
  <1>1. M \in Manifest /\ M.inv = inv /\ inv \in Int
    BY NewManifestType, RunConstants DEF RunInv, ControlInv, NewManifest
  <1>2. /\ history \in Seq(HistoryLine) /\ open_line \in BOOLEAN
        /\ N \in Nat /\ DOMAIN history = 1 .. N
        /\ open_line => N >= 1
    BY EmptySeq DEF RunInv, DiskInv, ManifestInv, HistoryInv
  <1>3. \A j \in 1 .. N : /\ history[j] \in HistoryLine /\ history[j].of # {}
                           /\ \A m \in history[j].of : m.inv \in Int /\ m.inv < inv
    <2> SUFFICES ASSUME NEW j \in 1 .. N
                 PROVE  /\ history[j] \in HistoryLine /\ history[j].of # {}
                        /\ \A m \in history[j].of : m.inv \in Int /\ m.inv < inv
      OBVIOUS
    <2>1. history[j] \in HistoryLine /\ history[j] \in Range(history)
      BY <1>2 DEF Range
    <2>2. Preparing
      BY DEF Preparing
    <2>3. \A m \in history[j].of : m.inv \in Int
      BY <2>1, HistoryTypes, RunConstants
    <2> QED
      BY <2>1, <2>2, <2>3 DEF RunInv, ManifestInv, HistoryInv
  <1>4. /\ \A n \in DOMAIN file : file[n].inv < inv /\ file[n].inv \in Int
        /\ \A m \in Begun : \A n \in DOMAIN file : file[n].inv # m.inv
    <2>1. Preparing
      BY DEF Preparing
    <2>2. \A n \in DOMAIN file : file[n].inv < inv
      BY <2>1 DEF RunInv, ManifestInv, HistoryInv
    <2>3. \A n \in DOMAIN file : file[n].inv \in Int
      BY LineTypes, RunConstants
    <2>4. \A m \in Begun : \A n \in DOMAIN file : file[n].inv # m.inv
      BY DEF RunInv, ManifestInv, HistoryInv
    <2> QED
      BY <2>2, <2>3, <2>4
  <1>5. Begun \subseteq Manifest /\ \A m \in Begun : m.inv \in Int /\ m.inv < inv
    BY <1>2, <1>3 DEF HistoryLine
  <1>6. last \in HistoryLine
    BY <1>1, <1>2, <1>5 DEF HistoryLine
  <1>7. /\ history' \in Seq(HistoryLine) /\ L >= 1 /\ L \in Nat /\ DOMAIN history' = 1 .. L
        /\ history'[L] = last
        /\ \A j \in 1 .. L : j # L => j \in 1 .. N /\ history'[j] = history[j]
        /\ \A j \in 1 .. N : j # L => j \in 1 .. L
        /\ L \in 1 .. N => open_line /\ L = N
    <2> DEFINE longer == Append(history, last)
               joined == [history EXCEPT ![N] = last]
    <2>1. CASE open_line
      <3>1. history' = joined
        BY <2>1 DEF HistoryWith
      <3> HIDE DEF last, Begun, M, N, L
      <3>2. joined \in Seq(HistoryLine) /\ Len(joined) = N
        BY <1>2, <1>6, <2>1, ExceptSeq
      <3>3. joined[N] = last /\ \A j \in 1 .. N : j # N => joined[j] = history[j]
        BY <1>2, <2>1
      <3> HIDE DEF joined
      <3>4. L = N
        BY <3>1, <3>2 DEF L
      <3> QED
        BY <1>2, <2>1, <3>1, <3>2, <3>3, <3>4
    <2>2. CASE ~open_line
      <3>1. Begun \cup {M} = {M} /\ (~open_line /\ whole) = whole
        BY <2>2
      <3>2. history' = longer
        BY <2>2, <3>1 DEF HistoryWith
      <3> HIDE DEF last, Begun, M
      <3>3. /\ longer \in Seq(HistoryLine) /\ Len(longer) = N + 1
            /\ longer[N + 1] = last
            /\ \A j \in 1 .. N : longer[j] = history[j]
        BY <1>2, <1>6
      <3> HIDE DEF longer, N, L
      <3>4. L = N + 1
        BY <3>2, <3>3 DEF L
      <3> QED
        BY <1>2, <2>2, <3>2, <3>3, <3>4
    <2> QED
      BY <1>2, <2>1, <2>2
  <1>8. last.of = Begun \cup {M} /\ last.readable = (~open_line /\ whole)
    OBVIOUS
  <1> HIDE DEF M, N, L, last, Begun
  <1>9. \A line \in Range(history') :
          line.of # {} /\ \A m \in line.of : m.inv <= inv
    <2> SUFFICES ASSUME NEW j \in 1 .. L
                 PROVE  /\ history'[j].of # {}
                        /\ \A m \in history'[j].of : m.inv <= inv
      BY <1>7 DEF Range
    <2>1. CASE j = L
      BY <1>1, <1>5, <1>7, <1>8, <2>1
    <2>2. CASE j # L
      BY <1>1, <1>3, <1>7, <2>2
    <2> QED
      BY <2>1, <2>2
  <1>10. \A m \in last.of : \A n \in DOMAIN file : file[n].inv # m.inv
    BY <1>1, <1>4, <1>8
  <1>11. RecordsHaveManifest'
    <2> SUFFICES ASSUME NEW n \in DOMAIN file
                 PROVE  Documents(history', file, file[n].inv)
      BY DocumentedOnDisk
    <2>1. Documents(history, file, file[n].inv)
      BY DocumentedOnDisk DEF RunInv, ManifestInv
    <2>2. PICK line \in Range(history) : \E m \in line.of :
            /\ m.inv = file[n].inv
            /\ line.readable \/ line.of # {m}
            /\ \A other \in line.of \ {m} :
                 other.inv < file[n].inv /\ \A k \in DOMAIN file : file[k].inv # other.inv
      BY <2>1 DEF Documents
    <2>3. PICK j \in 1 .. N : line = history[j]
      BY <1>2, <2>2 DEF Range
    <2>4. j # L
      <3> SUFFICES ASSUME j = L PROVE FALSE
        OBVIOUS
      <3>1. open_line /\ j = N
        BY <1>7, <2>3
      <3>2. \A c \in history[N].of : file[n].inv # c.inv
        BY <3>1 DEF RunInv, ManifestInv, HistoryInv, N
      <3> QED
        BY <2>2, <2>3, <3>1, <3>2
    <2>5. line \in Range(history')
      BY <1>7, <2>3, <2>4 DEF Range
    <2> QED
      BY <2>2, <2>5 DEF Documents
  <1>12. whole => Documented(inv)'
    <2> SUFFICES ASSUME whole PROVE Documents(history', file, inv)
      BY DocumentedOnDisk
    <2>0. L \in DOMAIN history'
      <3>1. L \in Nat /\ L >= 1
        BY <1>7
      <3>2. L \in 1 .. L
        BY <3>1
      <3>3. DOMAIN history' = 1 .. L
        BY <1>7
      <3> QED
        BY <3>2, <3>3, Zenon
    <2>4. M \notin Begun
      <3> SUFFICES ASSUME M \in Begun PROVE FALSE
        OBVIOUS
      <3>1. M.inv < inv
        BY <1>5
      <3> QED
        BY <1>1, <3>1
    <2>1. last \in Range(history') /\ M \in last.of /\ M \notin Begun
      BY <1>7, <1>8, <2>0, <2>4 DEF Range
    <2>2. last.readable \/ last.of # {M}
      <3>1. CASE open_line
        <4>1. Begun # {}
          BY <1>2, <1>3, <3>1 DEF Begun
        <4> QED
          BY <1>8, <2>1, <4>1
      <3>2. CASE ~open_line
        BY <1>8, <3>2
      <3> QED
        BY <3>1, <3>2
    <2>3. \A other \in last.of \ {M} :
            other.inv < inv /\ \A n \in DOMAIN file : file[n].inv # other.inv
      BY <1>4, <1>5, <1>8
    <2> QED
      BY <1>1, <2>1, <2>2, <2>3 DEF Documents
  <1> QED
    <2>1. history' # << >>
      <3> DEFINE h == history'
      <3>1. h \in Seq(HistoryLine) /\ Len(h) >= 1
        BY <1>7 DEF L
      <3> HIDE DEF h
      <3>2. h # << >>
        BY <3>1, EmptySeq
      <3> QED
        BY <3>2 DEF h
    <2>2. history'[Len(history')] = last
      BY <1>7 DEF L
    <2> QED
      BY <1>7, <1>9, <1>10, <1>11, <1>12, <2>1, <2>2

\* The process is gone: nothing but the disk is left to say anything about.
LEMMA ExitKeepsInv ==
  ASSUME RunInv, Exit,
         file' \in Seq(Line), \A n \in DOMAIN file' : file'[n].inv <= inv,
         tail' \in {"clean", "partial", "unended"}, manifest' \in Manifest \cup {None},
         history' \in Seq(HistoryLine), open_line' \in BOOLEAN,
         RecordsHaveManifest', HistoryInv'
  PROVE  RunInv'
  <1>1. /\ step' = "idle" /\ request' = None /\ skip_keys' = {} /\ inv' = inv
        /\ pc' = "next" /\ session' = None /\ stream' = << >>
    BY SameBegin DEF Exit, D!Begin
  <1>2. ControlInv' /\ DiskInv'
    BY <1>1 DEF RunInv, ControlInv, DiskInv
  <1>3. CallMade' /\ ManifestInv'
    BY <1>1 DEF CallMade, ManifestInv, Searching
  <1>4. KeysKept' /\ KeysKnown'
    BY <1>1 DEF KeysKept, KeysKnown
  <1> QED
    BY <1>2, <1>3, <1>4 DEF RunInv

LEMMA InvokeKeepsInv ==
  ASSUME RunInv, Invoke
  PROVE  RunInv'
  <1>1. PICK req \in Requests : request' = req /\ plan' = PlanOf(req)
    BY DEF Invoke
  <1>2. /\ step = "idle" /\ step' = "keys" /\ inv' = inv + 1 /\ inv < MaxInvocations
        /\ skip_keys = {} /\ pc = "next" /\ session = None /\ stream = << >>
        /\ UNCHANGED <<skip_keys, file, tail, manifest, history, open_line, pc, session,
                       stream>>
    BY DEF Invoke, RunInv, ControlInv, CallMade, Searching, disk, searchVars
  <1>3. ControlInv'
    BY <1>1, <1>2, RunConstants DEF RunInv, ControlInv
  <1>4. DiskInv'
    <2>1. \A n \in DOMAIN file : file[n].inv <= inv + 1
      BY RunConstants, LineTypes DEF RunInv, ControlInv, DiskInv
    <2> QED
      BY <1>2, <2>1 DEF RunInv, DiskInv
  <1>5. CallMade' /\ ManifestInv'
    <2>1. HistoryInv'
      <3>1. \A line \in Range(history) : \A m \in line.of : m.inv < inv + 1
        BY HistoryTypes, RunConstants DEF RunInv, ControlInv, ManifestInv, HistoryInv
      <3>2. \A n \in DOMAIN file : file[n].inv < inv + 1
        BY RunConstants, LineTypes DEF RunInv, ControlInv, DiskInv
      <3>3. \A line \in Range(history) : \A m \in line.of : m.inv <= inv + 1
        BY HistoryTypes, RunConstants DEF RunInv, ControlInv, ManifestInv, HistoryInv
      <3> QED
        BY <1>2, <3>1, <3>2, <3>3
        DEF RunInv, ManifestInv, HistoryInv, Preparing, Searching
    <2> QED
      BY <1>2, <2>1, DocumentedOnDisk DEF RunInv, CallMade, ManifestInv, Searching
  <1>6. KeysKept' /\ KeysKnown'
    BY <1>2 DEF KeysKept, KeysKnown
  <1> QED
    BY <1>3, <1>4, <1>5, <1>6 DEF RunInv

\* Begun the search begins: the keys are read, the file is discarded or the
\* manifest is written.
LEMMA PreparingKeepsInv ==
  ASSUME RunInv, ReadKeys \/ Unlink \/ WriteManifest
  PROVE  RunInv'
  <1>1. /\ step \in {"keys", "unlink", "manifest"} /\ ~Searching
        /\ Preparing /\ step' \in {"unlink", "manifest", "history"}
        /\ request # None /\ request \in Requests /\ plan = PlanOf(request)
        /\ pc = "next" /\ session = None /\ stream = << >>
        /\ UNCHANGED <<request, plan, inv, history, open_line, pc, session, stream>>
    BY DEF ReadKeys, AfterKeys, Unlink, WriteManifest, RunInv, ControlInv, CallMade,
       Searching, Preparing, disk, searchVars
  <1>2. CallMade' /\ (Searching' => FALSE) /\ Preparing'
    BY <1>1 DEF CallMade, Searching, Preparing
  <1>0. UNCHANGED file \/ file' = << >> => ManifestInv'
    <2>1. CASE UNCHANGED file
      BY <1>1, <1>2, <2>1, DocumentedOnDisk DEF RunInv, ManifestInv, HistoryInv
    <2>2. CASE file' = << >>
      <3>1. DOMAIN file' = {}
        BY <2>2
      <3> QED
        BY <1>1, <1>2, <3>1, DocumentedOnDisk DEF RunInv, ManifestInv, HistoryInv
    <2> QED
      BY <2>1, <2>2
  <1>3. CASE ReadKeys
    <2>1. /\ step = "keys" /\ step' = IF request.force THEN "unlink" ELSE "manifest"
          /\ skip_keys' = IF request.force THEN {} ELSE Keys(file)
          /\ UNCHANGED <<file, tail, manifest>>
      BY <1>3 DEF ReadKeys, AfterKeys, SkipKeys, disk
    <2>2. Keys(file) \subseteq Configs \X Workloads
      BY LineTypes DEF Keys, Key
    <2>3. ControlInv'
      BY <1>1, <2>1, <2>2 DEF RunInv, ControlInv
    <2>4. DiskInv' /\ ManifestInv'
      BY <1>0, <1>1, <1>2, <2>1 DEF RunInv, DiskInv
    <2>5. KeysKept' /\ KeysKnown'
      BY <1>1, <2>1 DEF RunInv, KeysKept, KeysKnown, Keys
    <2> QED
      BY <1>2, <2>3, <2>4, <2>5 DEF RunInv
  <1>4. CASE Unlink
    <2>1. /\ step = "unlink" /\ step' = "manifest" /\ skip_keys = {}
          /\ file' = << >> /\ tail' = "clean" /\ UNCHANGED <<skip_keys, manifest>>
      BY <1>4 DEF Unlink, RunInv, ControlInv
    <2>2. ControlInv'
      BY <1>1, <2>1 DEF RunInv, ControlInv
    <2>3. DiskInv' /\ ManifestInv'
      BY <1>0, <1>1, <1>2, <2>1 DEF RunInv, DiskInv
    <2>4. KeysKept' /\ KeysKnown'
      BY <1>1, <2>1 DEF KeysKept, KeysKnown
    <2> QED
      BY <1>2, <2>2, <2>3, <2>4 DEF RunInv
  <1>5. CASE WriteManifest
    <2>1. /\ step = "manifest" /\ step' = "history" /\ manifest' = NewManifest
          /\ UNCHANGED <<skip_keys, file, tail>>
      BY <1>5 DEF WriteManifest
    <2>2. ControlInv'
      BY <1>1, <2>1 DEF RunInv, ControlInv
    <2>3. NewManifest \in Manifest
      BY <1>1, NewManifestType
    <2>4. DiskInv' /\ ManifestInv'
      BY <1>0, <1>1, <1>2, <2>1, <2>3 DEF RunInv, DiskInv
    <2>5. KeysKept' /\ KeysKnown'
      BY <1>1, <2>1 DEF RunInv, KeysKept, KeysKnown, StreamKeys
    <2> QED
      BY <1>2, <2>2, <2>4, <2>5 DEF RunInv
  <1> QED
    BY <1>3, <1>4, <1>5

\* The manifest joins the others and the search begins.
LEMMA AppendHistoryKeepsInv ==
  ASSUME RunInv, AppendHistory
  PROVE  RunInv'
  <1>1. /\ step = "history" /\ step' = "search"
        /\ request \in Requests /\ plan = PlanOf(request) /\ skip_keys \subseteq Configs \X Workloads
        /\ pc = "next" /\ stream = << >>
        /\ UNCHANGED <<request, plan, skip_keys, inv, file, tail, manifest>>
    BY DEF AppendHistory, RunInv, ControlInv, CallMade, Searching
  <1>2. history' = HistoryWith(NewManifest, TRUE) /\ open_line' = FALSE
    BY DEF AppendHistory
  <1>3. D!Begin(CallOf(request, plan, skip_keys))
    BY SameBegin DEF AppendHistory
  <1>4. /\ D!CallInv' /\ call' = CallOf(request, plan, skip_keys)
        /\ stream' = << >> /\ pc' = "next"
    <2>1. CallOf(request, plan, skip_keys) \in Calls
      BY <1>1, CallsOfRequests
    <2> QED
      BY <1>3, <2>1, DriverAssumption, D!BeginCallInv DEF D!Begin
  <1>5. ControlInv' /\ CallMade'
    BY <1>1, <1>4 DEF RunInv, ControlInv, CallMade, Searching
  <1>6. /\ history' \in Seq(HistoryLine)
        /\ \A line \in Range(history') :
             line.of # {} /\ \A m \in line.of : m.inv <= inv
        /\ RecordsHaveManifest' /\ Documented(inv)'
    BY <1>1, <1>2, GrownHistoryKeeps
  <1>7. DiskInv'
    BY <1>1, <1>2, <1>6 DEF RunInv, DiskInv
  <1>8. ManifestInv'
    BY <1>1, <1>2, <1>6 DEF ManifestInv, HistoryInv, Preparing
  <1>9. KeysKept' /\ KeysKnown'
    BY <1>1, <1>4 DEF RunInv, KeysKept, KeysKnown, StreamKeys
  <1> QED
    BY <1>5, <1>7, <1>8, <1>9 DEF RunInv

\* A step of the search: the stream and the file grow together.
LEMMA SearchStepKeepsInv ==
  ASSUME RunInv, SearchStep
  PROVE  RunInv'
  <1>1. /\ step = "search"
        /\ UNCHANGED <<step, request, plan, skip_keys, inv, manifest, history, open_line,
                       call>>
        /\ D!CallInv'
    BY SearchStepWrites DEF SearchStep, mainVars
  <1>2. UNCHANGED file \/ (pc = "measure" /\ file' = Append(file, NewLine))
    BY SearchStepWrites
  <1>3. tail' \in {"clean", "partial", "unended"}
    BY DEF SearchStep, Write, RunInv, DiskInv
  <1>4. ControlInv' /\ CallMade'
    BY <1>1, AtSearch DEF RunInv, ControlInv, CallMade, Searching
  <1>5. CASE UNCHANGED <<stream, file>> /\ (pc \in {"unwind", "raised"} =>
                                            pc' \in {"unwind", "raised"})
    <2>1. DiskInv'
      BY <1>1, <1>3, <1>5 DEF RunInv, DiskInv
    <2>0. ManifestInv'
      BY <1>1, <1>5, DocumentedOnDisk
      DEF RunInv, ManifestInv, HistoryInv, Searching, Preparing
    <2>2. KeysKept' /\ KeysKnown'
      BY <1>1, <1>5 DEF RunInv, KeysKept, KeysKnown, StreamKeys, Keys
    <2> QED
      BY <1>4, <2>0, <2>1, <2>2 DEF RunInv
  <1>6. CASE /\ pc = "measure" /\ stream' = Append(stream, Search!NewRecord)
             /\ file' = Append(file, NewLine)
    <2>1. /\ file' \in Seq(Line)
          /\ \A n \in DOMAIN file' : file'[n].inv <= inv
          /\ RecordsHaveManifest' /\ Documented(inv)' /\ open_line = FALSE
          /\ Keys(file) \subseteq Keys(file')
          /\ \A k \in DOMAIN stream :
               \E n \in DOMAIN file' : file'[n] = [rec |-> stream[k], inv |-> inv]
      BY <1>1, <1>6, GrownFileKeeps
    <2>2. DiskInv' /\ ManifestInv'
      BY <1>1, <1>3, <2>1 DEF RunInv, DiskInv, ManifestInv, HistoryInv, Searching, Preparing
    <2>3. /\ DOMAIN stream' = DOMAIN stream \cup {Len(stream) + 1}
          /\ stream'[Len(stream) + 1] = Search!NewRecord
          /\ \A k \in DOMAIN stream : stream'[k] = stream[k]
      BY <1>1, <1>6, AtSearch, NewLineType
    <2>4. KeysKept'
      <3>1. \A k \in DOMAIN stream' :
              \E n \in DOMAIN file' : file'[n] = [rec |-> stream'[k], inv |-> inv]
        <4> SUFFICES ASSUME NEW k \in DOMAIN stream'
                     PROVE  \E n \in DOMAIN file' :
                              file'[n] = [rec |-> stream'[k], inv |-> inv]
          OBVIOUS
        <4>1. CASE k \in DOMAIN stream
          BY <2>1, <2>3, <4>1
        <4>2. CASE k = Len(stream) + 1
          BY <1>1, <1>6, <2>3, <4>2, GrownFile DEF NewLine
        <4> QED
          BY <2>3, <4>1, <4>2
      <3> QED
        BY <1>1, <2>1, <3>1 DEF RunInv, KeysKept
    <2>5. KeysKnown'
      <3>1. StreamKeys \subseteq StreamKeys' /\ Key(Search!NewRecord) \in StreamKeys'
        BY <2>3 DEF StreamKeys
      <3> SUFFICES ASSUME NEW n \in DOMAIN file'
                   PROVE  /\ file'[n].inv < inv => Key(file'[n].rec) \in skip_keys
                          /\ Key(file'[n].rec) \in skip_keys \cup StreamKeys'
        BY <1>1 DEF KeysKnown
      <3>2. CASE n \in DOMAIN file /\ file'[n] = file[n]
        BY <1>1, <1>6, <3>1, <3>2 DEF RunInv, KeysKnown
      <3>3. CASE file'[n] = NewLine
        <4>1. ~(inv < inv)
          BY DEF RunInv, ControlInv
        <4> QED
          BY <3>1, <3>3, <4>1 DEF NewLine
      <3> QED
        BY <1>1, <1>6, <3>2, <3>3, GrownFile
    <2> QED
      BY <1>4, <2>2, <2>4, <2>5 DEF RunInv
  <1> QED
    BY <1>5, <1>6, SearchStepWrites

\* on_result fails: the record may be on disk without being in the stream.
LEMMA SinkFailsKeepsInv ==
  ASSUME RunInv, SinkFails
  PROVE  RunInv'
  <1>1. /\ step = "search"
        /\ UNCHANGED <<step, request, plan, skip_keys, inv, manifest, history, open_line,
                       call, stream>>
        /\ D!CallInv' /\ pc = "measure" /\ pc' = "unwind"
        /\ UNCHANGED file \/ file' = Append(file, NewLine)
        /\ tail' \in {"clean", "partial", "unended"}
    BY SinkFailsWrites DEF SinkFails, mainVars
  <1>2. ControlInv' /\ CallMade'
    BY <1>1, AtSearch DEF RunInv, ControlInv, CallMade, Searching
  <1>3. /\ file' \in Seq(Line)
        /\ \A n \in DOMAIN file' : file'[n].inv <= inv
        /\ RecordsHaveManifest' /\ Documented(inv)' /\ open_line = FALSE
        /\ Keys(file) \subseteq Keys(file')
        /\ \A k \in DOMAIN stream :
             \E n \in DOMAIN file' : file'[n] = [rec |-> stream[k], inv |-> inv]
    BY <1>1, GrownFileKeeps
  <1>4. DiskInv' /\ ManifestInv' /\ KeysKept'
    BY <1>1, <1>3
    DEF RunInv, DiskInv, ManifestInv, HistoryInv, KeysKept, Searching, Preparing
  <1>5. KeysKnown'
    <2> SUFFICES ASSUME NEW n \in DOMAIN file', file'[n].inv < inv
                 PROVE  Key(file'[n].rec) \in skip_keys
      BY <1>1 DEF KeysKnown
    <2>1. ~(NewLine.inv < inv)
      BY DEF NewLine, RunInv, ControlInv
    <2>2. n \in DOMAIN file /\ file'[n] = file[n]
      BY <1>1, <2>1, GrownFile
    <2> QED
      BY <1>1, <2>2 DEF RunInv, KeysKnown
  <1> QED
    BY <1>2, <1>4, <1>5 DEF RunInv

\* Nothing of a call changes while the search stands still.
LEMMA SameCall ==
  ASSUME D!CallInv, UNCHANGED searchVars
  PROVE  D!CallInv'
  BY DriverAssumption, D!NextCallInv DEF searchVars, D!vars

\* The spot-check's result is an accuracy and a verdict.
LEMMA SpotResultType ==
  ASSUME RunInv, RecordSpotResult
  PROVE  manifest' \in Manifest
  <1>1. step = "result" /\ manifest \in Manifest /\ results \in Seq(D!Record)
    BY DEF RecordSpotResult, RunInv, DiskInv, CallMade, Searching, D!CallInv, D!EvalInv,
       D!StreamInv, D!TypeInv, D!TypeOK
  <1>2. CASE UNCHANGED manifest
    BY <1>1, <1>2
  <1>3. ASSUME NEW n \in SpotResults,
               manifest' = [manifest EXCEPT !.gate_result = GateResult(results[n])]
        PROVE  manifest' \in Manifest
    <2>1. results[n] \in D!Record
      BY <1>1 DEF SpotResults
    <2>2. GateResult(results[n]) \in Search!Stamp
      BY <2>1 DEF GateResult, D!Record, Search!Stamp, Search!Verdicts, D!Verdicts
    <2> QED
      BY <1>1, <1>3, <2>2 DEF Manifest
  <1> QED
    BY <1>2, <1>3 DEF RecordSpotResult

\* The ways an invocation ends.
LEMMA EndingKeepsInv ==
  ASSUME RunInv, ReadFails \/ SearchReturned \/ SearchRaised \/ RecordSpotResult \/ Crash
  PROVE  RunInv'
  <1>0. /\ file \in Seq(Line) /\ \A n \in DOMAIN file : file[n].inv <= inv
        /\ tail \in {"clean", "partial", "unended"} /\ manifest \in Manifest \cup {None}
        /\ history \in Seq(HistoryLine) /\ open_line \in BOOLEAN
    BY DEF RunInv, DiskInv
  <1>9. Exit => step' = "idle" /\ inv' = inv /\ ~Preparing' /\ ~Searching'
    BY DEF Exit, Preparing, Searching
  <1>10. Exit /\ UNCHANGED <<file, history, open_line>> => RecordsHaveManifest' /\ HistoryInv'
    BY <1>9, DocumentedOnDisk DEF RunInv, ManifestInv, HistoryInv
  <1>1. CASE ReadFails \/ SearchRaised \/ (SearchReturned /\ ~plan.skipped)
    <2>1. Exit /\ UNCHANGED <<file, tail, manifest, history, open_line>>
      BY <1>1 DEF ReadFails, SearchRaised, SearchReturned, disk
    <2> QED
      BY <1>0, <1>10, <2>1, ExitKeepsInv
  <1>2. CASE SearchReturned /\ plan.skipped
    <2>1. /\ step = "search" /\ step' = "result" /\ pc = "returned"
          /\ UNCHANGED <<request, plan, skip_keys, inv, searchVars, disk>>
      BY <1>2 DEF SearchReturned, Returned
    <2>2. ControlInv' /\ DiskInv'
      BY <1>2, <2>1 DEF RunInv, ControlInv, DiskInv, searchVars, disk
    <2>3. CallMade'
      BY <2>1, SameCall, AtSearch DEF CallMade, Searching, searchVars
    <2>4. ManifestInv'
      BY <2>1, DocumentedOnDisk DEF RunInv, ManifestInv, HistoryInv, Searching, Preparing, disk
    <2>5. KeysKept' /\ KeysKnown'
      BY <2>1 DEF RunInv, KeysKept, KeysKnown, StreamKeys, Keys, Searching, searchVars, disk
    <2> QED
      BY <2>2, <2>3, <2>4, <2>5 DEF RunInv
  <1>3. CASE RecordSpotResult
    <2>1. manifest' \in Manifest \cup {None}
      BY <1>3, SpotResultType
    <2> QED
      BY <1>0, <1>3, <1>10, <2>1, ExitKeepsInv DEF RecordSpotResult
  <1>4. CASE Crash
    <2>1. /\ Exit /\ inv' = inv /\ tail' \in {"clean", "partial", "unended"}
          /\ manifest' \in Manifest \cup {None}
      BY <1>4, CrashWrites DEF Crash, Exit
    <2>2. CASE UNCHANGED <<file, history, open_line>>
      BY <1>0, <1>10, <2>1, <2>2, ExitKeepsInv
    <2>3. CASE /\ step = "search" /\ pc = "measure" /\ file' = Append(file, NewLine)
               /\ UNCHANGED <<history, open_line>>
      <3>1. /\ file' \in Seq(Line) /\ \A n \in DOMAIN file' : file'[n].inv <= inv
            /\ RecordsHaveManifest' /\ open_line = FALSE
        BY <2>1, <2>3, GrownFileKeeps
      <3>2. HistoryInv'
        BY <1>9, <2>1, <2>3, <3>1 DEF RunInv, ManifestInv, HistoryInv
      <3> QED
        BY <1>0, <2>1, <2>3, <3>1, <3>2, ExitKeepsInv
    <2>4. CASE /\ step = "history" /\ UNCHANGED file /\ open_line' = TRUE
               /\ \E whole \in BOOLEAN : history' = HistoryWith(NewManifest, whole)
      <3>1. /\ history' \in Seq(HistoryLine) /\ history' # << >>
            /\ \A line \in Range(history') :
                 line.of # {} /\ \A m \in line.of : m.inv <= inv
            /\ \A m \in history'[Len(history')].of :
                 \A n \in DOMAIN file : file[n].inv # m.inv
            /\ RecordsHaveManifest'
        BY <2>1, <2>4, GrownHistoryKeeps
      <3>2. HistoryInv'
        BY <1>9, <2>1, <2>4, <3>1 DEF HistoryInv
      <3> QED
        BY <1>0, <2>1, <2>4, <3>1, <3>2, ExitKeepsInv
    <2> QED
      BY <1>4, <2>2, <2>3, <2>4, CrashWrites
  <1> QED
    BY <1>1, <1>2, <1>3, <1>4 DEF SearchReturned

LEMMA NextRunInv == RunInv /\ [Next]_vars => RunInv'
  <1> SUFFICES ASSUME RunInv, [Next]_vars PROVE RunInv'
    OBVIOUS
  <1>1. CASE Invoke
    BY <1>1, InvokeKeepsInv
  <1>2. CASE ReadKeys \/ Unlink \/ WriteManifest
    BY <1>2, PreparingKeepsInv
  <1>3. CASE AppendHistory
    BY <1>3, AppendHistoryKeepsInv
  <1>4. CASE SearchStep
    BY <1>4, SearchStepKeepsInv
  <1>5. CASE SinkFails
    BY <1>5, SinkFailsKeepsInv
  <1>6. CASE ReadFails \/ SearchReturned \/ SearchRaised \/ RecordSpotResult \/ Crash
    BY <1>6, EndingKeepsInv
  <1>7. CASE UNCHANGED vars
    <2>1. ControlInv' /\ DiskInv' /\ KeysKept' /\ KeysKnown'
      BY <1>7 DEF vars, mainVars, disk, searchVars, RunInv, ControlInv, DiskInv, KeysKept,
         KeysKnown, StreamKeys, Keys
    <2>3. ManifestInv'
      BY <1>7, DocumentedOnDisk
      DEF vars, mainVars, disk, RunInv, ManifestInv, HistoryInv, Searching, Preparing
    <2>2. CallMade'
      BY <1>7, SameCall DEF vars, mainVars, searchVars, RunInv, CallMade, Searching
    <2> QED
      BY <2>1, <2>2, <2>3 DEF RunInv
  <1> QED
    BY <1>1, <1>2, <1>3, <1>4, <1>5, <1>6, <1>7 DEF Next, Advance

THEOREM RunInvariant == Spec => []RunInv
  BY InitRunInv, NextRunInv, PTL DEF Spec

\* Whatever is invoked, fails or is killed, and however often: the disk and
\* the process hold what their readers expect.
THEOREM RunTypeCorrect == Spec => []TypeOK
  <1>1. ASSUME RunInv PROVE TypeOK
    <2>1. pc \in Search!PCs
      <3>1. CASE Searching
        BY <1>1, <3>1
        DEF RunInv, CallMade, D!CallInv, D!EvalInv, D!StreamInv, D!TypeInv, D!TypeOK, D!PCs,
            Search!PCs
      <3>2. CASE ~Searching
        BY <1>1, <3>2 DEF RunInv, CallMade, Search!PCs
      <3> QED
        BY <3>1, <3>2
    <2> QED
      BY <1>1, <2>1 DEF RunInv, ControlInv, DiskInv, TypeOK
  <1> QED
    BY <1>1, RunInvariant, PTL

\* No record is ever on disk without the manifest of the invocation that made
\* it, wherever invocations are cut short: main writes its manifests before it
\* searches.  The manifest can be read but where it went into the line that
\* manifests cut short before had begun, of invocations without a record.
THEOREM ManifestsFirst == Spec => []RecordsHaveManifest
  <1>1. RunInv => RecordsHaveManifest
    BY DEF RunInv, ManifestInv
  <1> QED
    BY <1>1, RunInvariant, PTL

-----------------------------------------------------------------------------
(* What an invocation leaves *)

\* An invocation whose search returned has everything it asked for on disk,
\* through its own records and those it skipped, however the invocations
\* before it ended.
THEOREM AskedIsRecorded == Spec => []ReturnedMeansRecorded
  <1>1. ASSUME RunInv PROVE ReturnedMeansRecorded
    <2> SUFFICES ASSUME Searching, pc = "returned",
                        NEW p \in Range(plan.points), NEW w \in Range(request.workload)
                 PROVE  <<p.hash, w>> \in Keys(file)
      BY <1>1 DEF ReturnedMeansRecorded, Searching, RunInv, ControlInv
    <2>1. D!ReturnMeansComplete /\ call = CallOf(request, plan, skip_keys)
      BY <1>1, DriverAssumption, D!ReturnedIsComplete DEF RunInv, CallMade, D!CallInv
    <2>2. p \in Range(call.points) /\ w \in Range(call.workload) /\ call.skip = skip_keys
      BY <2>1 DEF CallOf
    <2>3. CASE <<p.hash, w>> \in skip_keys
      BY <1>1, <2>3 DEF RunInv, KeysKept
    <2>4. CASE <<p.hash, w>> \notin skip_keys
      <3>1. <<p.hash, w>> \in { D!Key(stream[k]) : k \in DOMAIN stream }
        <4> DEFINE Hashes == { x.hash : x \in Range(call.points) }
        <4>1. <<p.hash, w>> \in Hashes \X Range(call.workload)
          BY <2>2
        <4>2. { D!Key(stream[k]) : k \in DOMAIN stream }
                = { key \in Hashes \X Range(call.workload) : key \notin call.skip }
          BY <2>1, SameFunctions DEF D!ReturnMeansComplete
        <4> HIDE DEF Hashes
        <4> QED
          BY <2>2, <2>4, <4>1, <4>2
      <3>2. PICK k \in DOMAIN stream : <<p.hash, w>> = Key(stream[k])
        BY <3>1 DEF D!Key, Key
      <3>3. PICK n \in DOMAIN file : file[n].rec = stream[k]
        BY <1>1 DEF RunInv, KeysKept
      <3> QED
        BY <3>2, <3>3 DEF Keys
    <2> QED
      BY <2>3, <2>4
  <1> QED
    BY <1>1, RunInvariant, PTL

\* A server is only ever launched for a configuration with something that no
\* earlier invocation has recorded.
THEOREM LaunchesAreNeeded == Spec => []NoLaunchForRecorded
  <1>1. ASSUME RunInv PROVE NoLaunchForRecorded
    <2> SUFFICES ASSUME session # None
                 PROVE  \E w \in Range(request.workload) :
                          \A n \in DOMAIN file :
                            file[n].inv < inv => Key(file[n].rec) # <<session, w>>
      BY DEF NoLaunchForRecorded
    <2>1. /\ Searching /\ call = CallOf(request, plan, skip_keys)
          /\ D!EvalInv /\ D!TypeInv
      BY <1>1 DEF RunInv, CallMade, D!CallInv, D!EvalInv, D!StreamInv
    <2>2. pc \in D!Active /\ session = D!cp.hash
      BY <2>1 DEF D!TypeInv, D!ServerBracketsConfig, D!Active
    <2>3. D!Missing(call, D!cp) # {}
      BY <2>1, <2>2 DEF D!EvalInv, D!LaunchedForCause
    <2>4. PICK m \in DOMAIN request.workload : <<session, request.workload[m]>> \notin skip_keys
      BY <2>1, <2>2, <2>3 DEF D!Missing, CallOf
    <2>5. \A n \in DOMAIN file : file[n].inv < inv => Key(file[n].rec) \in skip_keys
      BY <1>1, <2>1 DEF RunInv, KeysKnown, Searching
    <2> QED
      BY <2>4, <2>5 DEF Range
  <1> QED
    BY <1>1, RunInvariant, PTL

-----------------------------------------------------------------------------
(* The result set is a ledger *)

Recorded == [n \in DOMAIN file |-> Key(file[n].rec)]
Forced == request # None /\ request.force

LEMMA NewKeyRecorded ==
  ASSUME RunInv, step = "search", pc = "measure", file' = Append(file, NewLine)
  PROVE  Recorded' = Append(Recorded, Key(Search!NewRecord))
  <1>1. file \in Seq(Line) /\ NewLine \in Line
    BY AtSearch, NewLineType
  <1>2. NewLine.rec = Search!NewRecord
    BY DEF NewLine
  <1> HIDE DEF NewLine
  <1>3. /\ Len(file) \in Nat /\ DOMAIN file = 1 .. Len(file)
        /\ DOMAIN file' = 1 .. (Len(file) + 1)
        /\ file'[Len(file) + 1] = NewLine
        /\ \A n \in DOMAIN file : file'[n] = file[n]
    BY <1>1
  <1> DEFINE K == { Key(line.rec) : line \in Line }
  <1>4. \A n \in DOMAIN file : file[n] \in Line
    BY <1>1
  <1>5. Recorded \in Seq(K) /\ Len(Recorded) = Len(file)
    <2>1. Recorded \in [1 .. Len(file) -> K]
      BY <1>3, <1>4 DEF Recorded
    <2> HIDE DEF K
    <2> QED
      BY <1>3, <2>1
  <1>6. Key(NewLine.rec) \in K
    BY <1>1
  <1> HIDE DEF K
  <1> DEFINE longer == Append(Recorded, Key(NewLine.rec))
  <1>7. /\ longer \in Seq(K) /\ DOMAIN longer = 1 .. (Len(file) + 1)
        /\ longer[Len(file) + 1] = Key(NewLine.rec)
        /\ \A n \in DOMAIN file : longer[n] = Recorded[n]
    BY <1>3, <1>5, <1>6
  <1> HIDE DEF longer
  <1>8. Recorded' = [n \in 1 .. (Len(file) + 1) |-> Key(file'[n].rec)]
    BY <1>3 DEF Recorded, Key
  <1>9. \A n \in 1 .. (Len(file) + 1) : longer[n] = Key(file'[n].rec)
    <2> TAKE n \in 1 .. (Len(file) + 1)
    <2>1. CASE n \in DOMAIN file
      BY <1>3, <1>7, <2>1 DEF Recorded
    <2>2. CASE n = Len(file) + 1
      BY <1>3, <1>7, <2>2
    <2> QED
      BY <1>3, <2>1, <2>2
  <1>10. longer = [n \in 1 .. (Len(file) + 1) |-> longer[n]]
    BY <1>7
  <1>11. longer = Recorded'
    BY <1>8, <1>9, <1>10
  <1> QED
    BY <1>2, <1>11 DEF longer

\* What is being recorded is not recorded yet.
LEMMA NewKeyIsNew ==
  ASSUME RunInv, step = "search", pc = "measure",
         \A req \in Requests : IsInjective(req.workload)
  PROVE  Key(Search!NewRecord) \in (Configs \X Workloads) \ Range(Recorded)
  <1>1. Search!NewRecord \in D!Record /\ D!StreamInv
    BY NewLineType, AtSearch
  <1>2. Key(Search!NewRecord) \in Configs \X Workloads
    BY <1>1 DEF Key, D!Record
  <1>3. call = CallOf(request, plan, skip_keys) /\ request \in Requests /\ plan = PlanOf(request)
    BY AtSearch
  <1>4. D!DistinctPoints
    <2>1. /\ call.points = PlanOf(request).points
          /\ \A m, n \in DOMAIN PlanOf(request).points :
               PlanOf(request).points[m].hash = PlanOf(request).points[n].hash => m = n
          /\ PlanOf(request).points \in Seq(Search!ConfigPoint)
      BY <1>3, PlansAreLists DEF CallOf, NoneTwice
    <2> QED
      BY <2>1 DEF D!DistinctPoints
  <1>5. IsInjective(call.workload)
    BY <1>3 DEF CallOf
  <1>6. /\ Key(Search!NewRecord) \notin skip_keys
        /\ Key(Search!NewRecord) \notin StreamKeys
    <2>1. /\ D!Key(D!NewRecord) \notin call.skip
          /\ \A k \in DOMAIN stream : D!Key(stream[k]) # D!Key(D!NewRecord)
      BY <1>1, <1>4, <1>5, SameFunctions, DriverAssumption, D!NewRecordIsNew
    <2> QED
      BY <1>3, <2>1, SameRecord DEF D!Key, Key, StreamKeys, CallOf
  <1>7. ASSUME NEW n \in DOMAIN file PROVE Key(file[n].rec) \in skip_keys \cup StreamKeys
    BY DEF RunInv, KeysKnown
  <1> QED
    BY <1>2, <1>6, <1>7 DEF Recorded, Range

\* Every step of an invocation is one of the ledger: it turns, takes one new
\* measurement, discards because it was asked to, or does nothing to it.
LEMMA StepIsLedgerStep ==
  ASSUME RunInv, RunInv', [Next]_vars, \A req \in Requests : IsInjective(req.workload)
  PROVE  \/ UNCHANGED Recorded
         \/ \E id \in (Configs \X Workloads) \ Range(Recorded) :
              Recorded' = Append(Recorded, id)
         \/ Forced /\ Recorded' = << >> /\ UNCHANGED Forced
  <1>1. CASE UNCHANGED file
    BY <1>1 DEF Recorded
  <1>2. CASE step = "search" /\ pc = "measure" /\ file' = Append(file, NewLine)
    BY <1>2, NewKeyRecorded, NewKeyIsNew
  <1>3. CASE Unlink
    <2>1. request # None /\ request.force /\ UNCHANGED request /\ file' = << >>
      BY <1>3 DEF Unlink, RunInv, ControlInv
    <2> QED
      BY <2>1 DEF Forced, Recorded
  <1>4. CASE SearchStep \/ SinkFails
    BY <1>1, <1>2, <1>4, SearchStepWrites, SinkFailsWrites DEF SearchStep, SinkFails
  <1>5. CASE Crash
    BY <1>1, <1>2, <1>5, CrashWrites
  <1>6. CASE \/ Invoke \/ ReadKeys \/ ReadFails \/ WriteManifest \/ AppendHistory
             \/ SearchReturned \/ SearchRaised \/ RecordSpotResult
    BY <1>1, <1>6 DEF Invoke, ReadKeys, ReadFails, WriteManifest, AppendHistory,
       SearchReturned, SearchRaised, RecordSpotResult, disk
  <1>7. CASE UNCHANGED vars
    BY <1>1, <1>7 DEF vars, disk
  <1> QED
    BY <1>3, <1>4, <1>5, <1>6, <1>7 DEF Next, Advance

LEMMA LedgerRange == \A f : AbstractLedger!Range(f) = Range(f)
  BY DEF AbstractLedger!Range, Range

\* Over every sequence of invocations, failures and crashes an identity is
\* recorded once and stays recorded unless re-measurement was asked for: Run
\* implements Ledger when no workload of a request repeats a point.  (The
\* command line does not see to that: a repeated axis value is measured twice.)
THEOREM RunIsLedger ==
  ASSUME \A req \in Requests : IsInjective(req.workload)
  PROVE  Spec => ImplementsLedger
  <1>1. Init => AbstractLedger!Init
    BY DEF Init, AbstractLedger!Init
  <1>2. RunInv /\ RunInv' /\ [Next]_vars => [AbstractLedger!Next]_AbstractLedger!vars
    <2> SUFFICES ASSUME RunInv, RunInv', [Next]_vars
                 PROVE  [AbstractLedger!Next]_AbstractLedger!vars
      OBVIOUS
    <2>1. Forced' \in BOOLEAN
      BY PlannedRequests DEF Forced, RunInv, ControlInv
    <2>2. CASE UNCHANGED Recorded
      BY <2>1, <2>2 DEF Recorded, Forced, AbstractLedger!Next, AbstractLedger!Turn
    <2>3. ASSUME NEW id \in (Configs \X Workloads) \ Range(Recorded),
                 Recorded' = Append(Recorded, id)
          PROVE  AbstractLedger!Next
      BY <2>1, <2>3, LedgerRange DEF Recorded, Forced, AbstractLedger!Next, AbstractLedger!Record
    <2>4. CASE Forced /\ Recorded' = << >> /\ UNCHANGED Forced
      BY <2>4 DEF Recorded, Forced, AbstractLedger!Next, AbstractLedger!Discard
    <2> QED
      BY <2>2, <2>3, <2>4, StepIsLedgerStep
  <1> QED
    BY <1>1, <1>2, RunInvariant, PTL DEF Spec, ImplementsLedger, AbstractLedger!Spec

\* No identity stands in the file twice: on the disk, whatever invocation wrote
\* which of its lines.
OneRecordPerIdentity ==
  \A n, k \in DOMAIN file : Key(file[n].rec) = Key(file[k].rec) => n = k

LEMMA OneMoreInjective ==
  ASSUME NEW S, NEW list \in Seq(S), IsInjective(list), NEW x, x \notin Range(list)
  PROVE  IsInjective(Append(list, x))
  <1> DEFINE N == Len(list)
             more == Append(list, x)
  <1>1. N \in Nat /\ DOMAIN list = 1 .. N /\ DOMAIN more = 1 .. N + 1
    OBVIOUS
  <1>2. more[N + 1] = x /\ \A n \in 1 .. N : more[n] = list[n] /\ list[n] # x
    BY DEF Range
  <1>3. \A n \in 1 .. N + 1 : n \in 1 .. N \/ n = N + 1
    BY <1>1
  <1>4. \A n, k \in 1 .. N : list[n] = list[k] => n = k
    BY <1>1 DEF IsInjective
  <1> HIDE DEF N, more
  <1>5. \A n, k \in 1 .. N + 1 : more[n] = more[k] => n = k
    BY <1>2, <1>3, <1>4
  <1> QED
    BY <1>1, <1>5 DEF IsInjective, more

\* Where no workload of a request repeats a point, over every sequence of
\* invocations, failures and crashes the file has one record per identity.  It
\* is what the frontier and the comparison table take for granted.
THEOREM RecordedOnce ==
  ASSUME \A req \in Requests : IsInjective(req.workload)
  PROVE  Spec => []OneRecordPerIdentity
  <1> DEFINE Once == IsInjective(Recorded)
  <1>1. Init => Once
    BY DEF Init, Recorded, IsInjective
  <1>2. RunInv /\ RunInv' /\ Once /\ [Next]_vars => Once'
    <2> SUFFICES ASSUME RunInv, RunInv', Once, [Next]_vars PROVE Once'
      OBVIOUS
    <2> DEFINE K == Range(Recorded)
    <2>1. Recorded \in Seq(K)
      <3>1. Len(file) \in Nat /\ DOMAIN file = 1 .. Len(file)
        BY DEF RunInv, DiskInv
      <3>2. Recorded \in [1 .. Len(file) -> K]
        BY <3>1 DEF Recorded, Range
      <3> HIDE DEF K
      <3> QED
        BY <3>1, <3>2
    <2> HIDE DEF K
    <2>2. CASE UNCHANGED Recorded
      BY <2>2 DEF IsInjective
    <2>3. ASSUME NEW id \in (Configs \X Workloads) \ Range(Recorded),
                 Recorded' = Append(Recorded, id)
          PROVE  Once'
      <3>1. IsInjective(Append(Recorded, id))
        BY <2>1, OneMoreInjective
      <3> QED
        BY <2>3, <3>1 DEF IsInjective
    <2>4. CASE Recorded' = << >>
      BY <2>4 DEF IsInjective
    <2> HIDE DEF Once
    <2> QED
      BY <2>2, <2>3, <2>4, StepIsLedgerStep
  <1>3. Once => OneRecordPerIdentity
    BY DEF IsInjective, Recorded, OneRecordPerIdentity
  <1> HIDE DEF Once
  <1> QED
    BY <1>1, <1>2, <1>3, RunInvariant, PTL DEF Spec

-----------------------------------------------------------------------------
(* The gate result of the spot-check *)

\* A record of the spot-check carries what its own evaluation returned, and is
\* on disk.
LEMMA SpotRecord ==
  ASSUME RunInv, step = "result", NEW n \in SpotResults
  PROVE  /\ \E e \in Range(evals) :
              e.hash = plan.spot.hash /\ e.accuracy = results[n].accuracy
         /\ \E k \in DOMAIN file :
              /\ file[k].inv = inv
              /\ file[k].rec.config_hash = plan.spot.hash
              /\ file[k].rec.quality_pass = results[n].quality_pass
  <1>1. /\ D!ReturnInv /\ D!GateInv /\ call = CallOf(request, plan, skip_keys)
        /\ pc = "returned" /\ plan.skipped
        /\ request \in Requests /\ plan = PlanOf(request)
    BY DEF RunInv, ControlInv, CallMade, Searching, D!CallInv
  <1>2. results = stream
    BY <1>1, DriverAssumption, D!ReturnedIsComplete DEF D!ReturnMeansComplete
  <1>3. n \in DOMAIN stream /\ stream[n] = results[n] /\ stream[n].config_hash = plan.spot.hash
    BY <1>2 DEF SpotResults
  <1>4. D!EvaluatesOwn(stream[n].config_hash)
    BY <1>1, <1>3, PlanShape DEF D!EvaluatesOwn, CallOf
  <1>5. D!RecordRight(stream[n])
    BY <1>1, <1>3 DEF D!GateInv, D!StreamRight, D!Range
  <1>6. \E e \in Range(evals) : e.hash = stream[n].config_hash
                                /\ e.accuracy = stream[n].accuracy
    BY <1>4, <1>5, SameFunctions DEF D!RecordRight, D!JudgedRight
  <1>7. PICK k \in DOMAIN file : file[k] = [rec |-> stream[n], inv |-> inv]
    BY <1>3 DEF RunInv, KeysKept
  <1> QED
    BY <1>3, <1>6, <1>7

LEMMA StepSpotMeasured ==
  ASSUME RunInv, [Next]_vars
  PROVE  SpotMeasured
  <1>1. CASE UNCHANGED manifest
    BY <1>1 DEF SpotMeasured
  <1>2. CASE WriteManifest
    BY <1>2 DEF WriteManifest, NewManifest, SpotMeasured
  <1>3. CASE RecordSpotResult
    <2> SUFFICES ASSUME ~UNCHANGED manifest PROVE SpotMeasured
      BY <1>1
    <2>1. PICK n \in SpotResults :
            manifest' = [manifest EXCEPT !.gate_result = GateResult(results[n])]
      BY <1>3 DEF RecordSpotResult
    <2>2. step = "result" /\ manifest \in Manifest
      BY <1>3 DEF RecordSpotResult, RunInv, DiskInv
    <2>3. /\ manifest'.gate_result.accuracy = results[n].accuracy
          /\ manifest'.gate_result.quality_pass = results[n].quality_pass
      BY <2>1, <2>2 DEF Manifest, GateResult
    <2> QED
      BY <2>2, <2>3, SpotRecord DEF SpotMeasured
  <1>4. CASE \/ Invoke \/ ReadKeys \/ ReadFails \/ Unlink \/ AppendHistory \/ SearchStep
             \/ SinkFails \/ SearchReturned \/ SearchRaised \/ Crash \/ UNCHANGED vars
    BY <1>1, <1>4 DEF Invoke, ReadKeys, ReadFails, Unlink, AppendHistory, SearchStep,
       SinkFails, SearchReturned, SearchRaised, Crash, RecordCut, HistoryCut, ManifestCut,
       SpotMeasured, disk, vars
  <1> QED
    BY <1>2, <1>3, <1>4 DEF Next, Advance

\* The gate result that main writes into manifest.json was measured on the
\* spot-check's own server in the same invocation, and its record on disk has
\* the same verdict.
THEOREM SpotResultMeasured == Spec => SpotResultIsMeasured
  <1>1. RunInv /\ [Next]_vars => [SpotMeasured]_vars
    BY StepSpotMeasured
  <1> QED
    BY <1>1, RunInvariant, PTL DEF Spec, SpotResultIsMeasured
=============================================================================
