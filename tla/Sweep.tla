-------------------------------- MODULE Sweep --------------------------------
(***************************************************************************)
(* scripts/devbox_sweep.sh, run again and again by one operator, with the  *)
(* runners (argsearch-run) it starts on the devbox.  The runners outlive   *)
(* the script that started them and share one result directory, one log    *)
(* and one pid file; the ssh connection between the two sides may fail at  *)
(* every use.                                                              *)
(*                                                                         *)
(* A runner is what module Run shows in detail, with nothing between two   *)
(* runners to keep them apart: it reads the recorded identities, discards  *)
(* the results file if it is forced to, opens it and appends what is       *)
(* missing.  An open file is its inode, which a discarded file keeps.      *)
(***************************************************************************)
EXTENDS Naturals, Sequences

CONSTANTS
  Ids,        \* the identities a search can be asked to measure
  Retries,    \* RETRIES: how often retry calls a command
  PollIters,  \* POLL_ITERS
  MaxScripts, \* bound on how often the script is run
  None

ASSUME SweepAssumption ==
  /\ None \notin Nat
  /\ Retries \in Nat \ {0} /\ PollIters \in Nat

VARIABLES
  pc,      \* where the script stands, or how it ended
  asked,   \* its arguments: [wanted, force]
  tries,   \* failures counted by retry, or polls made
  scripts, \* how often it was run
  pid,     \* sweep.pid: the last runner written there, or None
  log,     \* the log: which of the lines the poll looks for are in it
  runner,  \* the runners, in the order of their launch
  path,    \* the inode results.jsonl names, or None
  inodes,  \* the contents of every results.jsonl there was: [id, by] in order
  seen,    \* the lines it found in the log when it stopped polling
  fetched, \* the identities in the local copy
  copied,  \* history: whether the last fetch went through
  torn     \* history: whether every teardown reached the devbox

scriptVars == <<pc, asked, tries, scripts, seen, fetched, copied, torn>>
devboxVars == <<pid, log, runner, path, inodes>>
vars == <<scriptVars, devboxVars>>

Running == {"start", "unlink", "open", "search", "wrote", "told"}
Live == { r \in DOMAIN runner : runner[r].state \in Running }
IdsIn(inode) == { inodes[inode][n].id : n \in DOMAIN inodes[inode] }
Recorded == IF path = None THEN {} ELSE IdsIn(path)

Ended == {"complete", "window", "aborted", "interrupted"}

Init ==
  /\ pc = "interrupted"
  /\ asked = None
  /\ tries = 0
  /\ scripts = 0
  /\ seen = {}
  /\ pid = None
  /\ log = {}
  /\ runner = << >>
  /\ path = None
  /\ inodes = << >>
  /\ fetched = {}
  /\ copied = FALSE
  /\ torn = TRUE

-----------------------------------------------------------------------------
(* The script *)

Start ==
  /\ pc \in Ended
  /\ scripts < MaxScripts
  /\ \E wanted \in SUBSET Ids \ {{}}, force \in BOOLEAN :
       asked' = [wanted |-> wanted, force |-> force]
  /\ scripts' = scripts + 1
  /\ pc' = "sync"
  /\ tries' = 0
  /\ seen' = {}
  /\ UNCHANGED <<fetched, copied, torn, devboxVars>>

\* Mutant of GiveUp: what failed is tried again for ever.
NeverGiveUp(next) == pc' = pc /\ tries' = tries

\* retry: a failure is counted, and the last one ends the script.
GiveUp(next) ==
  /\ tries' = tries + 1
  /\ pc' = IF tries + 1 >= Retries THEN "aborted" ELSE pc

\* The sources are copied to the devbox.
Sync ==
  /\ pc = "sync"
  /\ \/ pc' = "teardown" /\ tries' = 0
     \/ GiveUp("teardown")
  /\ UNCHANGED <<asked, scripts, seen, fetched, copied, torn, devboxVars>>

\* pkill reaches every runner there is; a failed connection is passed over.
Teardown ==
  /\ pc = "teardown"
  /\ \/ /\ runner' = [r \in DOMAIN runner |->
                        IF r \in Live THEN [runner[r] EXCEPT !.state = "killed"]
                                      ELSE runner[r]]
        /\ UNCHANGED torn
     \/ torn' = FALSE /\ UNCHANGED runner
  /\ pc' = "launch"
  /\ UNCHANGED <<asked, tries, scripts, seen, fetched, copied, pid, log, path, inodes>>

\* Mutant of EmptyLog: the log is appended to.
OldLog == log

\* > $LOG
EmptyLog == {}

\* The runner that the command line starts: nohup, in the background, its log
\* emptied, its pid in the pid file.
StartRunner ==
  /\ runner' = Append(runner, [state |-> "start", force |-> asked.force,
                               wanted |-> asked.wanted, keys |-> {}, fd |-> None,
                               met |-> {}])
  /\ pid' = Len(runner')
  /\ log' = EmptyLog

\* Mutant of AfterLaunch: a launch that is not confirmed is made again.
LaunchAgain == {"confirm", "launch"}

\* Launched once: what became of it is looked at next, whatever ssh returned.
AfterLaunch == {"confirm"}

Launch ==
  /\ pc = "launch"
  /\ \/ StartRunner
     \/ UNCHANGED <<pid, log, runner>>
  /\ pc' \in AfterLaunch
  /\ tries' = 0
  /\ UNCHANGED <<asked, scripts, seen, fetched, copied, torn, path, inodes>>

\* kill -0 on what the pid file names.
Confirm ==
  /\ pc = "confirm"
  /\ \/ pid \in Live /\ pc' = "poll" /\ tries' = 0
     \/ GiveUp("poll")
  /\ UNCHANGED <<asked, scripts, seen, fetched, copied, torn, devboxVars>>

\* A marker that the poll sees ends the loop; a poll that sees none, or does
\* not get through, is counted.
Poll ==
  /\ pc = "poll"
  /\ tries < PollIters
  /\ \/ log # {} /\ seen' = log /\ pc' = "fetch" /\ UNCHANGED tries
     \/ tries' = tries + 1 /\ UNCHANGED <<pc, seen>>
  /\ UNCHANGED <<asked, scripts, fetched, copied, torn, devboxVars>>

\* rsync of the results, its failure passed over; the last line says which of
\* the two ends it was.
Fetch(end) ==
  /\ \/ fetched' = Recorded /\ copied' = TRUE
     \/ copied' = FALSE /\ UNCHANGED fetched
  /\ pc' = end
  /\ UNCHANGED <<asked, tries, scripts, seen, torn, devboxVars>>

FetchDone == pc = "fetch" /\ Fetch("complete")
FetchAnyway == pc = "poll" /\ tries >= PollIters /\ Fetch("window")

\* Ctrl-C while polling: the sweep is left to run.
Interrupt ==
  /\ pc = "poll"
  /\ pc' = "interrupted"
  /\ UNCHANGED <<asked, tries, scripts, seen, fetched, copied, torn, devboxVars>>

Script == \/ Sync \/ Teardown \/ Launch \/ Confirm \/ Poll
          \/ FetchDone \/ FetchAnyway

-----------------------------------------------------------------------------
(* A runner *)

\* Mutant of SkipKeys: nothing that is recorded is skipped.
NoSkipKeys(r) == {}

SkipKeys(r) == IF runner[r].force THEN {} ELSE Recorded

ReadKeys(r) ==
  /\ runner[r].state = "start"
  /\ runner' = [runner EXCEPT
       ![r].keys = SkipKeys(r),
       ![r].state = IF runner[r].force THEN "unlink" ELSE "open",
       ![r].met = Live \ {r}]
  /\ UNCHANGED <<scriptVars, pid, log, path, inodes>>

Unlink(r) ==
  /\ runner[r].state = "unlink"
  /\ path' = None
  /\ runner' = [runner EXCEPT ![r].state = "open"]
  /\ UNCHANGED <<scriptVars, pid, log, inodes>>

\* open("a"), which makes the file when there is none.
Open(r) ==
  /\ runner[r].state = "open"
  /\ IF path = None THEN /\ inodes' = Append(inodes, << >>)
                         /\ path' = Len(inodes')
                    ELSE UNCHANGED <<inodes, path>>
  /\ runner' = [runner EXCEPT ![r].state = "search", ![r].fd = path']
  /\ UNCHANGED <<scriptVars, pid, log>>

\* What the runner has not found recorded and not recorded itself.
Pending(r) ==
  { id \in runner[r].wanted \ runner[r].keys :
      \A n \in DOMAIN inodes[runner[r].fd] :
        inodes[runner[r].fd][n] # [id |-> id, by |-> r] }

\* What a search takes next: of the same identities it is always the same.
Foremost(ids) == CHOOSE id \in ids : TRUE

Record(r) ==
  /\ runner[r].state = "search"
  /\ Pending(r) # {}
  /\ inodes' = [inodes EXCEPT ![runner[r].fd] =
                  Append(@, [id |-> Foremost(Pending(r)), by |-> r])]
  /\ UNCHANGED <<scriptVars, pid, log, runner, path>>

\* The search has returned and "wrote N records to" is printed, into the buffer
\* that Python keeps of an output that is no terminal.
Wrote(r) ==
  /\ runner[r].state = "search"
  /\ Pending(r) = {}
  /\ runner' = [runner EXCEPT ![r].state = "wrote"]
  /\ UNCHANGED <<scriptVars, pid, log, path, inodes>>

\* The line leaves the buffer, at the exit if not before.
Tell(r) ==
  /\ runner[r].state = "wrote"
  /\ log' = log \cup {"wrote"}
  /\ runner' = [runner EXCEPT ![r].state = "told"]
  /\ UNCHANGED <<scriptVars, pid, path, inodes>>

Exit(r) ==
  /\ runner[r].state = "told"
  /\ runner' = [runner EXCEPT ![r].state = "exited"]
  /\ UNCHANGED <<scriptVars, pid, log, path, inodes>>

\* A traceback, anywhere; the buffer is written too.
Fail(r) ==
  /\ r \in Live
  /\ log' = log \cup {"error"} \cup IF runner[r].state = "wrote" THEN {"wrote"} ELSE {}
  /\ runner' = [runner EXCEPT ![r].state = "exited"]
  /\ UNCHANGED <<scriptVars, pid, path, inodes>>

\* A server of the runner, also one that its death left behind, prints
\* something that reads as an error.
Noise(r) ==
  /\ runner[r].fd # None
  /\ runner[r].state \in {"search", "killed"}
  /\ log' = log \cup {"error"}
  /\ UNCHANGED <<scriptVars, pid, runner, path, inodes>>

Runner(r) == \/ ReadKeys(r) \/ Unlink(r) \/ Open(r) \/ Record(r)
             \/ Wrote(r) \/ Tell(r) \/ Exit(r) \/ Fail(r) \/ Noise(r)

Next == Start \/ Script \/ Interrupt \/ \E r \in DOMAIN runner : Runner(r)

\* Every command the script runs returns; nothing is assumed of the runners,
\* of the connection or of the operator.
Fairness == WF_vars(Script)

Spec == Init /\ [][Next]_vars /\ Fairness

-----------------------------------------------------------------------------
(* Properties *)

\* While every teardown has reached the devbox there is one runner at most,
\* and the file it has open is the one results.jsonl names: no relaunch, retry
\* or repetition of the script makes two.
OneWriter ==
  torn => /\ \A r, s \in Live : r = s
          /\ \A r \in Live : runner[r].fd \in {None, path}

\* Whatever reaches the devbox, two runners record one identity in one file
\* only if one was at work when the other read what is recorded: after a
\* runner is gone, nothing that it recorded is measured again beside it.
TwiceOnlyIfOverlapping ==
  \A f \in DOMAIN inodes : \A n, k \in DOMAIN inodes[f] :
    LET r == inodes[f][n].by
        s == inodes[f][k].by
    IN n # k /\ inodes[f][n].id = inodes[f][k].id =>
         r # s /\ (r \in runner[s].met \/ s \in runner[r].met)

\* A sweep that is called complete on a "wrote" line, its runner alone, has
\* recorded all that this script asked for, and fetched it if rsync succeeded.
CompleteIsRecorded ==
  pc = "complete" /\ torn /\ "wrote" \in seen =>
    /\ asked.wanted \subseteq Recorded
    /\ copied => asked.wanted \subseteq fetched

\* The script always ends, whatever the connection and the runners do.
ScriptEnds == []<>(pc \in Ended)
=============================================================================
