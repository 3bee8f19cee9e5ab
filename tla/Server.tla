------------------------------- MODULE Server -------------------------------
(***************************************************************************)
(* The servers behind run_search (src/sglbench/argsearch/sglang_adapter.py)*)
(* SGLangServerManager starts one process per configuration in a session   *)
(* of its own, waits until something answers /health at the URL, and       *)
(* terminates the process it started.  The benchmarks and the probe reach  *)
(* whatever process holds the port, which need not be the one started.     *)
(*                                                                         *)
(* Runners are started at any time, whoever is still at work: the teardown *)
(* of scripts/devbox_sweep.sh that should precede it is best effort.       *)
(* Servers, the port and the operator are the environment.  A server that  *)
(* has been told to stop no longer answers, but holds the port until it is *)
(* gone.                                                                   *)
(***************************************************************************)
EXTENDS Integers, Sequences, FiniteSets

CONSTANTS
  Configs,     \* the configurations of a sweep, in order
  Points,      \* benchmark passes per configuration
  Intervals,   \* readiness intervals within launch_timeout_s
  MaxRunners   \* bound on how many runners are started

None == 0
Config == { Configs[k] : k \in DOMAIN Configs }
Runners == 1 .. MaxRunners

ASSUME ServerConstants ==
  /\ Configs \in Seq(Config)
  /\ Points \in Nat
  /\ Intervals \in Nat
  /\ MaxRunners \in Nat

VARIABLES
  runner,    \* where each runner stands
  then,      \* where it goes when the server it terminates is gone
  at,        \* configurations it has taken
  passes,    \* benchmark passes of its current one
  mine,      \* the process its launch started, or None
  waited,    \* intervals it slept in wait_until_ready
  procs,     \* every server process started, in order
  port,      \* the process that holds the port, or None
  started,   \* runners started
  sole,      \* history: the runner that had no other at work beside it, or None
  clean,     \* history: no server was left when the last runner started
  abandoned, \* history: the runners that ended without reaping their server
  readings   \* history: what was measured: configuration meant, one measured

local == <<then, at, passes, mine, waited>>
history == <<sole, clean, abandoned>>
vars == <<runner, local, procs, port, started, history, readings>>

States == {"starting", "serving", "stopping", "killed", "gone"}
Process == [config : Config, owner : Runners, state : States]

Alive(k) == procs[k].state # "gone"
Answers == port # None /\ procs[port].state = "serving"
Working(r) == runner[r] \notin {"none", "exited"}

SetState(k, s) == procs' = [procs EXCEPT ![k].state = s]
Goes(r, place) == runner' = [runner EXCEPT ![r] = place]

Init ==
  /\ runner = [r \in Runners |-> "none"]
  /\ then = [r \in Runners |-> "exited"]
  /\ at = [r \in Runners |-> 0]
  /\ passes = [r \in Runners |-> 0]
  /\ mine = [r \in Runners |-> None]
  /\ waited = [r \in Runners |-> 0]
  /\ procs = << >>
  /\ port = None
  /\ started = 0
  /\ sole = None
  /\ clean = TRUE
  /\ abandoned = {}
  /\ readings = {}

-----------------------------------------------------------------------------
(* A runner *)

\* launch: Popen with start_new_session.
Spawn(r) ==
  /\ runner[r] = "next"
  /\ at[r] < Len(Configs)
  /\ procs' = Append(procs, [config |-> Configs[at[r] + 1], owner |-> r,
                             state |-> "starting"])
  /\ mine' = [mine EXCEPT ![r] = Len(procs) + 1]
  /\ at' = [at EXCEPT ![r] = @ + 1]
  /\ passes' = [passes EXCEPT ![r] = 0]
  /\ waited' = [waited EXCEPT ![r] = 0]
  /\ Goes(r, "waiting")
  /\ UNCHANGED <<then, port, started, history, readings>>

\* Popen raises: there is no process and nothing to shut down.
SpawnFails(r) ==
  /\ runner[r] = "next"
  /\ at[r] < Len(Configs)
  /\ Goes(r, "exited")
  /\ UNCHANGED <<local, procs, port, started, history, readings>>

\* wait_until_ready: the probe is answered, by whichever server has the port.
Ready(r) ==
  /\ runner[r] = "waiting"
  /\ Answers
  /\ Goes(r, "live")
  /\ UNCHANGED <<local, procs, port, started, history, readings>>

\* Mutant of MoreTime: one interval too many.
OneIntervalMore(r) == waited[r] <= Intervals

MoreTime(r) == waited[r] < Intervals

\* The probe is not answered in time, and the timeout has not passed.
Sleep(r) ==
  /\ runner[r] = "waiting"
  /\ MoreTime(r)
  /\ waited' = [waited EXCEPT ![r] = @ + 1]
  /\ UNCHANGED <<runner, then, at, passes, mine, procs, port, started, history, readings>>

\* TimeoutError: launch terminates the process and raises.
GiveUp(r) ==
  /\ runner[r] = "waiting"
  /\ waited[r] = Intervals
  /\ Goes(r, "shutdown")
  /\ then' = [then EXCEPT ![r] = "exited"]
  /\ UNCHANGED <<at, passes, mine, waited, procs, port, started, history, readings>>

\* The process it knew is nobody's any more.
Abandon(r) ==
  /\ Goes(r, "exited")
  /\ mine' = [mine EXCEPT ![r] = None]
  /\ abandoned' = abandoned \cup {r}
  /\ UNCHANGED <<then, at, passes, waited, procs, port, started, sole, clean, readings>>

\* The wait ends in another exception, which launch lets pass: an answer that
\* is not HTTP, which the probe does not catch, or an interrupt.  run_search
\* has no session yet, so nothing terminates the process.
LaunchRaises(r) == runner[r] = "waiting" /\ Abandon(r)

\* One pass of a benchmark, or an accuracy evaluation, against base_url.
Measure(r) ==
  /\ runner[r] = "live"
  /\ passes[r] < Points
  /\ Answers
  /\ passes' = [passes EXCEPT ![r] = @ + 1]
  /\ readings' = readings \cup { [meant    |-> procs[mine[r]].config,
                                  measured |-> procs[port].config,
                                  sole     |-> sole = r, clean |-> clean] }
  /\ UNCHANGED <<runner, then, at, mine, waited, procs, port, started, history>>

\* A command exits nonzero, the sink raises, or the runner is interrupted:
\* run_search's finally shuts the session down.
MeasureFails(r) ==
  /\ runner[r] = "live"
  /\ Goes(r, "shutdown")
  /\ then' = [then EXCEPT ![r] = "exited"]
  /\ UNCHANGED <<at, passes, mine, waited, procs, port, started, history, readings>>

\* Mutant of Finish: the session is not shut down.
FinishLeaves(r) ==
  /\ runner[r] = "live"
  /\ passes[r] = Points
  /\ Goes(r, "next")
  /\ mine' = [mine EXCEPT ![r] = None]
  /\ UNCHANGED <<then, at, passes, waited, procs, port, started, history, readings>>

\* All passes done: run_search's finally shuts the session down.
Finish(r) ==
  /\ runner[r] = "live"
  /\ passes[r] = Points
  /\ Goes(r, "shutdown")
  /\ then' = [then EXCEPT ![r] = "next"]
  /\ UNCHANGED <<at, passes, mine, waited, procs, port, started, history, readings>>

\* _terminate: SIGTERM to the process launch started, if it is still there.
Terminate(r) ==
  /\ runner[r] = "shutdown"
  /\ IF procs[mine[r]].state \in {"starting", "serving"}
       THEN SetState(mine[r], "stopping") ELSE UNCHANGED procs
  /\ Goes(r, "term")
  /\ UNCHANGED <<local, port, started, history, readings>>

\* Mutant of LastSignal: SIGTERM once more.
GentleSignal == "stopping"

LastSignal == "killed"

\* wait(timeout) expired: SIGKILL, and wait without a limit.
KillServer(r) ==
  /\ runner[r] = "term"
  /\ Alive(mine[r])
  /\ SetState(mine[r], LastSignal)
  /\ Goes(r, "kill")
  /\ UNCHANGED <<local, port, started, history, readings>>

\* Mutant of Reaped: nobody waits.
NotWaitedFor(r) == TRUE

Reaped(r) == ~Alive(mine[r])

\* wait returned.
Reap(r) ==
  /\ runner[r] \in {"term", "kill"}
  /\ Reaped(r)
  /\ Goes(r, then[r])
  /\ mine' = [mine EXCEPT ![r] = None]
  /\ UNCHANGED <<then, at, passes, waited, procs, port, started, history, readings>>

Exit(r) ==
  /\ runner[r] = "next"
  /\ at[r] = Len(Configs)
  /\ Goes(r, "exited")
  /\ UNCHANGED <<local, procs, port, started, history, readings>>

Runner(r) ==
  \/ Spawn(r) \/ SpawnFails(r) \/ Ready(r) \/ Sleep(r) \/ GiveUp(r) \/ LaunchRaises(r)
  \/ Measure(r) \/ MeasureFails(r) \/ Finish(r)
  \/ Terminate(r) \/ KillServer(r) \/ Reap(r) \/ Exit(r)

-----------------------------------------------------------------------------
(* The servers *)

Bind(k) ==
  /\ procs[k].state = "starting"
  /\ port = None
  /\ SetState(k, "serving")
  /\ port' = k
  /\ UNCHANGED <<runner, local, started, history, readings>>

Release(k) == port' = IF port = k THEN None ELSE port

\* The port is taken, or the configuration does not load, or the server dies.
Die(k) ==
  /\ procs[k].state \in {"starting", "serving"}
  /\ SetState(k, "gone")
  /\ Release(k)
  /\ UNCHANGED <<runner, local, started, history, readings>>

\* A server that was signalled is gone.
Stop(k) ==
  /\ procs[k].state \in {"stopping", "killed"}
  /\ SetState(k, "gone")
  /\ Release(k)
  /\ UNCHANGED <<runner, local, started, history, readings>>

Servers == \E k \in DOMAIN procs : Bind(k) \/ Die(k) \/ Stop(k)

-----------------------------------------------------------------------------
(* The operator *)

\* A runner is started, whatever is left and whoever is at work.
StartRunner ==
  /\ started < MaxRunners
  /\ started' = started + 1
  /\ Goes(started + 1, "next")
  /\ sole' = IF \E r \in Runners : Working(r) THEN None ELSE started + 1
  /\ clean' = \A k \in DOMAIN procs : ~Alive(k)
  /\ UNCHANGED <<local, procs, port, abandoned, readings>>

\* SIGTERM or SIGKILL to a runner, or an interrupt while it terminates a
\* server: its finally blocks do not run to their end, and its server is in
\* another session.
KillRunner(r) == Working(r) /\ Abandon(r)

\* devbox_sweep.sh, best effort: SIGTERM to a server, whoever is using it.
Teardown ==
  /\ \E k \in DOMAIN procs :
       /\ procs[k].state \in {"starting", "serving"}
       /\ SetState(k, "stopping")
  /\ UNCHANGED <<runner, local, port, started, history, readings>>

Operator == StartRunner \/ Teardown \/ \E r \in Runners : KillRunner(r)

Next == Servers \/ Operator \/ \E r \in Runners : Runner(r)

Spec == Init /\ [][Next]_vars

\* A runner keeps running, whatever the others do, and a process that was sent
\* SIGKILL goes away.  Nothing is assumed of a server before that: it may never
\* answer, and it may ignore SIGTERM.
FairSpec ==
  /\ Spec
  /\ \A r \in Runners : WF_vars(Runner(r))
  /\ WF_vars(\E k \in DOMAIN procs : procs[k].state = "killed" /\ Stop(k))

-----------------------------------------------------------------------------
(* Properties *)

Places == {"none", "next", "waiting", "live", "shutdown", "term", "kill", "exited"}

\* The places between a launch and the end of the process it started.
Launched(r) == runner[r] \in {"waiting", "live", "shutdown", "term", "kill"}

TypeOK ==
  /\ runner \in [Runners -> Places]
  /\ then \in [Runners -> {"next", "exited"}]
  /\ at \in [Runners -> 0 .. Len(Configs)]
  /\ passes \in [Runners -> 0 .. Points]
  /\ waited \in [Runners -> 0 .. Intervals]
  /\ procs \in Seq(Process)
  /\ mine \in [Runners -> 0 .. Len(procs)]
  /\ \A r \in Runners : Launched(r) => mine[r] # None
  /\ port \in 0 .. Len(procs)
  /\ port # None => procs[port].state \in {"serving", "stopping", "killed"}
  /\ started \in 0 .. MaxRunners
  /\ sole \in 0 .. MaxRunners
  /\ clean \in BOOLEAN
  /\ abandoned \subseteq Runners

\* A runner beside which no other is at work measures the configuration it
\* records: the server that answers is the one that was launched for it.
MeasuresItsOwnServer == \A m \in readings : m.sole => m.meant = m.measured

\* A runner that finds no server left and no other runner at work measures its
\* own servers for as long as no other runner is started beside it, whatever
\* becomes of it, of its servers and of the runners before it.
CleanStartMeasuresItsOwn ==
  \A m \in readings : m.sole /\ m.clean => m.meant = m.measured

\* However many runners are at work, every server there is belongs to a runner
\* that is between its launch and its end and knows it, so that there is one
\* per runner at most and a sweep that ends, by finishing, by a launch that
\* times out or by an exception after it, leaves none.  The runners excepted
\* are those that were killed, and those whose launch raised anything but
\* TimeoutError.
EveryServerReaped ==
  \A r \in Runners \ abandoned : \A k \in DOMAIN procs :
    Alive(k) /\ procs[k].owner = r => Launched(r) /\ mine[r] = k

\* Every sweep ends, though its servers may never answer and may ignore
\* SIGTERM, and whatever other runners do: no launch waits for ever, no
\* shutdown does.
SweepEnds == \A r \in Runners : runner[r] = "next" ~> runner[r] = "exited"
=============================================================================
