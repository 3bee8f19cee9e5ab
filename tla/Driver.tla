------------------------------- MODULE Driver -------------------------------
(***************************************************************************)
(* One call of run_search (src/sglbench/argsearch/driver.py): the outer    *)
(* loop relaunches the server once per configuration, the inner loop       *)
(* measures every workload point that is not recorded yet, and each record *)
(* is stamped with the accuracy and the gate verdict of its configuration  *)
(* and handed to on_result as soon as it exists.                           *)
(*                                                                         *)
(* A configuration is its config_hash: config_hash is a digest of the      *)
(* arguments the server is launched with, so equal hashes mean equal       *)
(* servers.  A workload point is its label.  The numbers a benchmark       *)
(* returns are left out: no property of this module depends on them.       *)
(***************************************************************************)
EXTENDS Integers, Sequences, SequencesExt, QualityGate

CONSTANTS
  Configs,      \* config_hash values
  Labels,       \* config labels, "baseline" among them
  Baseline,     \* the label "baseline"
  Branches,     \* branch names
  Workloads,    \* workload point labels
  Repeats,      \* the --repeats of the call
  Calls         \* the calls of run_search considered

MIN_REPEATS == 2

ConfigPoint == [hash : Configs, label : Labels, branch : Branches]
Verdicts == BOOLEAN \cup {None}
Stamp == [accuracy : Accuracies \cup {None}, quality_pass : Verdicts]
Record == [config_hash : Configs, branch : Branches, label : Workloads,
           config_label : Labels, accuracy : Accuracies \cup {None},
           quality_pass : Verdicts]
Call == [points : Seq(ConfigPoint), workload : Seq(Workloads),
         skip : SUBSET (Configs \X Workloads), gate : BOOLEAN,
         evaluate_hashes : SUBSET Configs]

ASSUME DriverConstants ==
  /\ Baseline \in Labels
  /\ Scores \subseteq Int
  /\ Tolerance \in Nat
  /\ HigherBetter \in BOOLEAN
  /\ Repeats \in Nat
  /\ None \notin Accuracies /\ None \notin Configs /\ None \notin BOOLEAN
  /\ Calls \subseteq Call

VARIABLES
  call,          \* the arguments of this call
  pc,            \* where the loop stands
  i,             \* how many configurations the outer loop has taken
  pending,       \* positions in workload of its points still to measure
  wp,            \* position of the point being measured
  session,       \* config_hash the live server was launched with, or None
  runs,          \* measured passes of the current workload point
  last_accuracy, \* _AccuracyGater._last_accuracy
  baseline_score,\* _AccuracyGater._baseline_score
  stamp,         \* (accuracy, quality_pass) of the current configuration
  batch,         \* config_results
  results,       \* results, what the call returns
  stream,        \* the records on_result has taken, in order
  evals          \* history: the evaluations made, in order

vars == <<call, pc, i, pending, wp, session, runs, last_accuracy, baseline_score,
          stamp, batch, results, stream, evals>>

loopVars == <<call, i, last_accuracy, baseline_score, stamp, evals>>

NoStamp == [accuracy |-> None, quality_pass |-> None]
Eval == [hash : Configs, label : Labels, accuracy : Accuracies]

PCs == {"next", "launch", "stamp", "warmup", "measure", "done", "unwind",
        "returned", "raised"}

\* The configuration the outer loop is at.
cp == call.points[i]

-----------------------------------------------------------------------------
Init ==
  /\ call \in Calls
  /\ pc = "next"
  /\ i = 0
  /\ pending = {}
  /\ wp = 0
  /\ session = None
  /\ runs = 0
  /\ last_accuracy = None
  /\ baseline_score = None
  /\ stamp = NoStamp
  /\ batch = << >>
  /\ results = << >>
  /\ stream = << >>
  /\ evals = << >>

\* A call begins: what Init says, of the next state.
Begin(c) ==
  /\ call' = c
  /\ pc' = "next"
  /\ i' = 0
  /\ pending' = {}
  /\ wp' = 0
  /\ session' = None
  /\ runs' = 0
  /\ last_accuracy' = None
  /\ baseline_score' = None
  /\ stamp' = NoStamp
  /\ batch' = << >>
  /\ results' = << >>
  /\ stream' = << >>
  /\ evals' = << >>

\* Mutant of Missing: what is recorded is not looked up.
MissingIgnoresSkip(c, p) == DOMAIN c.workload

\* Mutant of Missing: a configuration with a recorded point counts as done.
MissingUnlessStarted(c, p) ==
  IF \E n \in DOMAIN c.workload : <<p.hash, c.workload[n]>> \in c.skip
    THEN {} ELSE DOMAIN c.workload

\* The workload points of configuration p that are not recorded yet.
Missing(c, p) ==
  { n \in DOMAIN c.workload : <<p.hash, c.workload[n]>> \notin c.skip }

\* Mutant of Resume: a configuration is launched though nothing is pending.
ResumeAlways(missing) == "launch"

\* if not pending: continue
Resume(missing) == IF missing = {} THEN "next" ELSE "launch"

\* for cp in points: a configuration with nothing pending is passed over.
NextConfig ==
  /\ pc = "next"
  /\ i < Len(call.points)
  /\ i' = i + 1
  /\ pending' = Missing(call, call.points[i + 1])
  /\ pc' = Resume(pending')
  /\ UNCHANGED <<call, wp, session, runs, last_accuracy, baseline_score, stamp,
                 batch, results, stream, evals>>

\* manager.launch returns a session of a server with the configuration's args.
Launch ==
  /\ pc = "launch"
  /\ session' = cp.hash
  /\ pc' = "stamp"
  /\ UNCHANGED <<loopVars, pending, wp, runs, batch, results, stream>>

\* manager.launch raises: it is called before the try block, nothing is live.
LaunchFails ==
  /\ pc = "launch"
  /\ pc' = "raised"
  /\ UNCHANGED <<loopVars, pending, wp, session, runs, batch, results, stream>>

\* Mutant of Reference: any configuration's score becomes the reference.
FirstScore(score) == IF baseline_score = None THEN score ELSE baseline_score

\* Mutant of Reference: it is lost at the next configuration.
OwnScore(score) == IF cp.label = Baseline THEN score ELSE None

\* The score of the baseline, from its evaluation on.
Reference(score) ==
  IF cp.label = Baseline /\ score # None THEN score ELSE baseline_score

\* No reference, no verdict.
Verdict(score, base) == IF base = None THEN None ELSE Passes(score, base)

\* _AccuracyGater.stamp, the part after the accuracy is known.
Judge(accuracy) ==
  LET score == ScoreOf(accuracy)
      base  == Reference(score)
  IN /\ last_accuracy' = accuracy
     /\ baseline_score' = base
     /\ stamp' = [accuracy |-> accuracy, quality_pass |-> Verdict(score, base)]

\* Mutant of Evaluated: one evaluation serves the whole call.
EvaluatedOnce == cp.hash \in call.evaluate_hashes /\ last_accuracy = None

\* evaluate_hashes = None, every configuration, is the set Configs.
Evaluated == cp.hash \in call.evaluate_hashes

\* No gate: the records of the configuration stay unstamped.
StampInactive ==
  /\ pc = "stamp"
  /\ ~call.gate
  /\ stamp' = NoStamp
  /\ pc' = "warmup"
  /\ UNCHANGED <<call, i, pending, wp, session, runs, last_accuracy,
                 baseline_score, batch, results, stream, evals>>

\* The live server is evaluated.
StampEvaluated ==
  /\ pc = "stamp"
  /\ call.gate
  /\ Evaluated
  /\ \E accuracy \in Accuracies :
       /\ Judge(accuracy)
       /\ evals' = Append(evals, [hash |-> session, label |-> cp.label,
                                  accuracy |-> accuracy])
  /\ pc' = "warmup"
  /\ UNCHANGED <<call, i, pending, wp, session, runs, batch, results, stream>>

\* The most recent accuracy stands in for this configuration's own.
StampReused ==
  /\ pc = "stamp"
  /\ call.gate
  /\ ~Evaluated
  /\ Judge(last_accuracy)
  /\ pc' = "warmup"
  /\ UNCHANGED <<call, i, pending, wp, session, runs, batch, results, stream, evals>>

\* The evaluation raises inside the try block.
StampFails ==
  /\ pc = "stamp"
  /\ call.gate
  /\ Evaluated
  /\ pc' = "unwind"
  /\ UNCHANGED <<loopVars, pending, wp, session, runs, batch, results, stream>>

\* for wp in pending: measure_point checks repeats and runs the warmup pass.
Warmup ==
  /\ pc = "warmup"
  /\ Repeats >= MIN_REPEATS
  /\ \E n \in pending :
       /\ \A m \in pending : n <= m
       /\ wp' = n
  /\ runs' = 0
  /\ pc' = "measure"
  /\ UNCHANGED <<loopVars, pending, session, batch, results, stream>>

\* Mutant of MorePasses: one too many.
OnePassMore == runs <= Repeats

MorePasses == runs < Repeats

\* measure_point raises: too few repeats, or a benchmark pass that fails.
MeasureFails ==
  /\ \/ pc = "warmup"
     \/ pc = "measure" /\ MorePasses
  /\ pc' = "unwind"
  /\ UNCHANGED <<loopVars, pending, wp, session, runs, batch, results, stream>>

\* One measured pass.
MeasureRun ==
  /\ pc = "measure"
  /\ MorePasses
  /\ runs' = runs + 1
  /\ UNCHANGED <<loopVars, pc, pending, wp, session, batch, results, stream>>

\* Mutant of NewRecord: only the first workload point gets the verdict.
NewRecordFirstJudged ==
  [config_hash |-> cp.hash, branch |-> cp.branch, label |-> call.workload[wp],
   config_label |-> cp.label, accuracy |-> stamp.accuracy,
   quality_pass |-> IF wp = 1 THEN stamp.quality_pass ELSE None]

\* The record measure_point builds, stamped by run_search.
NewRecord ==
  [config_hash |-> cp.hash, branch |-> cp.branch, label |-> call.workload[wp],
   config_label |-> cp.label, accuracy |-> stamp.accuracy,
   quality_pass |-> stamp.quality_pass]

\* The record is kept in config_results and taken by on_result.
Emit ==
  /\ pc = "measure"
  /\ runs = Repeats
  /\ batch' = Append(batch, NewRecord)
  /\ stream' = Append(stream, NewRecord)
  /\ pending' = pending \ {wp}
  /\ pc' = IF pending' = {} THEN "done" ELSE "warmup"
  /\ UNCHANGED <<loopVars, wp, session, runs, results>>

\* on_result raises after the record was appended to config_results.
EmitFails ==
  /\ pc = "measure"
  /\ runs = Repeats
  /\ batch' = Append(batch, NewRecord)
  /\ pc' = "unwind"
  /\ UNCHANGED <<loopVars, pending, wp, session, runs, results, stream>>

\* Mutant of Shutdown: config_results is not emptied.
ShutdownKeepsBatch ==
  /\ pc = "done"
  /\ session' = None
  /\ results' = results \o batch
  /\ pc' = "next"
  /\ UNCHANGED <<loopVars, pending, wp, runs, batch, stream>>

\* The inner loop is over: finally shuts the server down, results is extended.
Shutdown ==
  /\ pc = "done"
  /\ session' = None
  /\ results' = results \o batch
  /\ batch' = << >>
  /\ pc' = "next"
  /\ UNCHANGED <<loopVars, pending, wp, runs, stream>>

\* Mutant of Unwind: no finally.
UnwindLeavesServer ==
  /\ pc = "unwind"
  /\ pc' = "raised"
  /\ UNCHANGED <<loopVars, pending, wp, session, runs, batch, results, stream>>

\* An exception leaves the try block: finally shuts the server down.
Unwind ==
  /\ pc = "unwind"
  /\ session' = None
  /\ pc' = "raised"
  /\ UNCHANGED <<loopVars, pending, wp, runs, batch, results, stream>>

\* return results
Return ==
  /\ pc = "next"
  /\ i = Len(call.points)
  /\ pc' = "returned"
  /\ UNCHANGED <<loopVars, pending, wp, session, runs, batch, results, stream>>

\* The steps a call takes when nothing it depends on fails.
Progress ==
  \/ NextConfig \/ Launch \/ StampInactive \/ StampEvaluated \/ StampReused
  \/ Warmup \/ MeasureRun \/ Emit \/ Shutdown \/ Return

Failure == LaunchFails \/ StampFails \/ MeasureFails \/ EmitFails

Next == Progress \/ Failure \/ Unwind

Spec == Init /\ [][Next]_vars

-----------------------------------------------------------------------------
(* Properties *)

TypeOK ==
  /\ call \in Calls
  /\ pc \in PCs
  /\ i \in 0 .. Len(call.points)
  /\ pending \subseteq DOMAIN call.workload
  /\ wp \in Nat /\ (pc = "measure" => wp \in pending)
  /\ session \in Configs \cup {None}
  /\ runs \in 0 .. Repeats
  /\ last_accuracy \in Accuracies \cup {None}
  /\ baseline_score \in Scores \cup {None}
  /\ stamp \in Stamp
  /\ batch \in Seq(Record)
  /\ results \in Seq(Record)
  /\ stream \in Seq(Record)
  /\ evals \in Seq(Eval)

Key(r) == <<r.config_hash, r.label>>

\* generate_ofat, generate_grid and the accuracy-invariant list of run.py
\* never hold one config_hash twice.
DistinctPoints ==
  \A m, n \in 1 .. Len(call.points) :
    m # n => call.points[m].hash # call.points[n].hash

\* A server is up exactly while one configuration is being stamped and
\* measured, it was launched with that configuration's arguments, and none is
\* left when the call has returned or raised: the try/finally of run_search
\* covers every exit from the inner loop.
ServerBracketsConfig ==
  /\ session # None <=> pc \in {"stamp", "warmup", "measure", "done", "unwind"}
  /\ session # None => i > 0 /\ session = cp.hash

\* Nothing recorded before is measured again and nothing is recorded twice,
\* whichever configurations share workload points and wherever the call fails.
StreamIsFresh ==
  DistinctPoints /\ IsInjective(call.workload) =>
    /\ IsInjective([n \in DOMAIN stream |-> Key(stream[n])])
    /\ \A n \in DOMAIN stream : Key(stream[n]) \notin call.skip

\* A call that returns has left no requested measurement out, and has made
\* none that was not requested; results holds what on_result took, in order.
ReturnMeansComplete ==
  pc = "returned" =>
    /\ { Key(stream[n]) : n \in DOMAIN stream }
         = { key \in { p.hash : p \in Range(call.points) } \X Range(call.workload) :
               key \notin call.skip }
    /\ results = stream

\* What on_result has taken is never ahead of, and at most one record behind,
\* what run_search has collected: a record that is lost in on_result is the
\* last one of the call.
StreamTracksResults ==
  \/ stream = results \o batch
  \/ /\ pc \in {"unwind", "raised"}
     /\ Len(batch) > 0
     /\ stream = results \o Front(batch)

\* All records of one configuration carry one accuracy and one verdict.
OneStampPerConfig ==
  DistinctPoints =>
    \A m, n \in DOMAIN stream :
      stream[m].config_hash = stream[n].config_hash =>
        /\ stream[m].accuracy = stream[n].accuracy
        /\ stream[m].quality_pass = stream[n].quality_pass

\* A configuration is evaluated at most once in a call, and only when it was
\* launched because something of it was missing.
OneEvaluationPerConfig ==
  DistinctPoints =>
    /\ IsInjective([n \in DOMAIN evals |-> evals[n].hash])
    /\ \A n \in DOMAIN evals :
         \E w \in Range(call.workload) : <<evals[n].hash, w>> \notin call.skip

\* With per-configuration evaluation no configuration carries the accuracy of
\* another: the score on a record was measured on that configuration's server.
OwnAccuracy ==
  call.gate /\ call.evaluate_hashes = Configs =>
    \A n \in DOMAIN stream :
      \E e \in Range(evals) :
        /\ e.hash = stream[n].config_hash
        /\ e.accuracy = stream[n].accuracy

\* Every verdict in the stream is the gate's answer for the record's accuracy
\* against a score measured on a configuration labelled "baseline": no
\* verdict is given against an unmeasured reference.  Under a restricted
\* evaluation the list evaluates its baseline points, as run.py arranges.
VerdictAgainstBaseline ==
  (\A p \in Range(call.points) :
     p.label = Baseline => p.hash \in call.evaluate_hashes) =>
    \A n \in DOMAIN stream :
      stream[n].quality_pass # None =>
        \E b \in Range(evals) :
          /\ b.label = Baseline
          /\ b.accuracy # NoMetric
          /\ stream[n].quality_pass = Passes(ScoreOf(stream[n].accuracy), b.accuracy)

\* A call that starts by evaluating its baseline judges every record it makes:
\* the gate is never silently off for a later configuration.
GateNeverSilent ==
  ( /\ call.gate
    /\ evals # << >>
    /\ evals[1].label = Baseline
    /\ evals[1].hash = call.points[1].hash
    /\ evals[1].accuracy # NoMetric ) =>
    \A n \in DOMAIN stream : stream[n].quality_pass \in BOOLEAN

\* A baseline whose accuracy was measured passes its own gate.
BaselinePasses ==
  \A n \in DOMAIN stream :
    stream[n].config_label = Baseline /\ stream[n].accuracy \in Scores =>
      stream[n].quality_pass = TRUE
=============================================================================
