-------------------------- MODULE DriverGateProofs --------------------------
(***************************************************************************)
(* Proofs about the accuracy gate of run_search: which measurement the     *)
(* accuracy and the verdict on a record come from.  They rest on the type  *)
(* and stream invariants of DriverProofs.                                  *)
(***************************************************************************)
EXTENDS DriverProofs

\* run.py's arrangement: a baseline point that is launched is evaluated.
BaselinesEvaluated ==
  \A p \in Range(call.points) : p.label = Baseline => p.hash \in call.evaluate_hashes

\* A configuration the gater is to evaluate, not to reuse an accuracy for.
EvaluatesOwn(hash) == call.gate /\ hash \in call.evaluate_hashes

\* Score s was measured on a configuration labelled "baseline".
MeasuredBaseline(s) ==
  \E b \in Range(evals) : b.label = Baseline /\ b.accuracy # NoMetric /\ b.accuracy = s

\* Where an (accuracy, quality_pass) pair given to a configuration comes from.
JudgedRight(hash, label, accuracy, verdict) ==
  /\ BaselinesEvaluated /\ verdict # None =>
       \E b \in Range(evals) :
         /\ b.label = Baseline
         /\ b.accuracy # NoMetric
         /\ verdict = Passes(ScoreOf(accuracy), b.accuracy)
  /\ label = Baseline /\ accuracy \in Scores => verdict = TRUE
  /\ EvaluatesOwn(hash) =>
       \E e \in Range(evals) : e.hash = hash /\ e.accuracy = accuracy

ReferenceMeasured ==
  BaselinesEvaluated /\ baseline_score # None => MeasuredBaseline(baseline_score)

\* The stamp is right from the moment the gater has returned it.
StampRight ==
  pc \in {"warmup", "measure"} =>
    JudgedRight(cp.hash, cp.label, stamp.accuracy, stamp.quality_pass)

RecordRight(r) == JudgedRight(r.config_hash, r.config_label, r.accuracy, r.quality_pass)

StreamRight == \A r \in Range(stream) : RecordRight(r)

GateInv == TypeInv /\ ReferenceMeasured /\ StampRight /\ StreamRight

LEMMA InitGateInv == Init => GateInv
  <1> SUFFICES ASSUME Init PROVE GateInv
    OBVIOUS
  <1>1. Range(stream) = {}
    BY DEF Init, Range
  <1> QED
    BY <1>1, InitTypeInv DEF Init, GateInv, ReferenceMeasured, StampRight, StreamRight

\* An evaluation that was made stays made.
LEMMA EvalsGrow ==
  ASSUME TypeInv, [Next]_vars
  PROVE  /\ Range(evals) \subseteq Range(evals')
         /\ call' = call
  <1>0. evals \in Seq(Eval)
    BY DEF TypeInv, TypeOK
  <1>1. CASE StampEvaluated
    <2>1. PICK e : evals' = Append(evals, e)
      BY <1>1 DEF StampEvaluated
    <2>2. /\ DOMAIN evals \subseteq DOMAIN evals'
          /\ \A n \in DOMAIN evals : evals'[n] = evals[n]
      BY <1>0, <2>1
    <2> QED
      BY <1>1, <2>2 DEF StampEvaluated, Range
  <1>2. CASE UNCHANGED <<call, evals>>
    BY <1>2
  <1> QED
    BY <1>1, <1>2 DEF Next, Progress, Failure, vars, loopVars, NextConfig, Resume, Launch,
       LaunchFails, StampInactive, StampReused, StampFails, Warmup, MeasureRun, MorePasses,
       MeasureFails, Emit, EmitFails, Shutdown, Unwind, Return

LEMMA JudgedRightGrows ==
  ASSUME TypeInv, [Next]_vars, NEW h, NEW l, NEW a, NEW v, JudgedRight(h, l, a, v)
  PROVE  JudgedRight(h, l, a, v)'
  BY EvalsGrow DEF JudgedRight, BaselinesEvaluated, EvaluatesOwn

\* A score passes against itself.
LEMMA PassesItself ==
  ASSUME NEW s \in Scores
  PROVE  Passes(s, s)
  BY DriverConstants DEF Passes, Degradation, Scores

\* The reference survives every step that does not judge.
LEMMA SameReference ==
  ASSUME GateInv, [Next]_vars, UNCHANGED baseline_score
  PROVE  ReferenceMeasured'
  BY EvalsGrow DEF GateInv, ReferenceMeasured, MeasuredBaseline, BaselinesEvaluated

\* What a judgement leaves: a reference that was measured and a right verdict,
\* if the accuracy is the configuration's own when it has to be.
LEMMA JudgeRight ==
  ASSUME GateInv, TypeInv', [Next]_vars, i > 0, UNCHANGED <<call, i>>,
         NEW a \in Accuracies \cup {None}, Judge(a),
         EvaluatesOwn(cp.hash) => \E e \in Range(evals') : e.hash = cp.hash /\ e.accuracy = a,
         BaselinesEvaluated /\ cp.label = Baseline /\ a \in Scores =>
           MeasuredBaseline(a)'
  PROVE  /\ ReferenceMeasured'
         /\ JudgedRight(cp.hash, cp.label, stamp.accuracy, stamp.quality_pass)'
  <1>1. /\ stamp'.accuracy = a
        /\ stamp'.quality_pass = IF baseline_score' = None THEN None
                                 ELSE Passes(ScoreOf(a), baseline_score')
        /\ baseline_score' = IF cp.label = Baseline /\ ScoreOf(a) # None
                             THEN ScoreOf(a) ELSE baseline_score
    BY DEF Judge, Reference, Verdict
  <1>2. a \in Scores => ScoreOf(a) = a /\ ScoreOf(a) # None
    BY DriverConstants DEF ScoreOf, Scores
  <1>3. a \notin Scores => ScoreOf(a) = None
    BY DEF ScoreOf
  <1>4. ReferenceMeasured'
    <2>1. CASE cp.label = Baseline /\ a \in Scores
      BY <1>1, <1>2, <2>1 DEF ReferenceMeasured, BaselinesEvaluated
    <2>2. CASE ~(cp.label = Baseline /\ a \in Scores)
      BY <1>1, <1>3, <2>2, SameReference
    <2> QED
      BY <2>1, <2>2
  <1>5. cp' = cp
    BY DEF cp
  <1>6. BaselinesEvaluated' /\ stamp'.quality_pass # None =>
          \E b \in Range(evals') :
            /\ b.label = Baseline
            /\ b.accuracy # NoMetric
            /\ stamp'.quality_pass = Passes(ScoreOf(stamp'.accuracy), b.accuracy)
    BY <1>1, <1>4 DEF ReferenceMeasured, MeasuredBaseline
  <1>7. cp'.label = Baseline /\ stamp'.accuracy \in Scores => stamp'.quality_pass = TRUE
    <2> SUFFICES ASSUME cp'.label = Baseline, stamp'.accuracy \in Scores
                 PROVE  stamp'.quality_pass = TRUE
      OBVIOUS
    <2>1. baseline_score' = a /\ a \in Scores /\ ScoreOf(a) = a /\ a # None
      BY <1>1, <1>2, <1>5
    <2>2. stamp'.quality_pass = Passes(a, a)
      BY <1>1, <2>1
    <2>3. Passes(a, a) \in BOOLEAN
      BY DEF Passes
    <2> QED
      BY <2>1, <2>2, <2>3, PassesItself
  <1> QED
    BY <1>1, <1>4, <1>5, <1>6, <1>7 DEF JudgedRight, EvaluatesOwn

LEMMA RangeOfAppend ==
  ASSUME NEW S, NEW s \in Seq(S), NEW e \in S
  PROVE  Range(Append(s, e)) = Range(s) \cup {e}
  <1> DEFINE t == Append(s, e)
  <1>1. /\ DOMAIN t = DOMAIN s \cup {Len(s) + 1}
        /\ t[Len(s) + 1] = e
        /\ \A n \in DOMAIN s : t[n] = s[n]
    OBVIOUS
  <1> HIDE DEF t
  <1>2. Range(t) = Range(s) \cup {e}
    BY <1>1 DEF Range
  <1> QED
    BY <1>2 DEF t

\* Old records keep their right stamps; a new one has the configuration's.
LEMMA StreamStaysRight ==
  ASSUME GateInv, [Next]_vars
  PROVE  StreamRight'
  <1>1. \A r \in Range(stream) : RecordRight(r)'
    BY JudgedRightGrows DEF GateInv, StreamRight, RecordRight
  <1>2. CASE Emit
    <2>1. Range(stream') = Range(stream) \cup {NewRecord}
      BY <1>2, NewRecordType, RangeOfAppend DEF Emit, GateInv, TypeInv, TypeOK
    <2>2. ASSUME NEW r, r = NewRecord PROVE RecordRight(r)'
      <3>1. /\ r.config_hash = cp.hash
            /\ r.config_label = cp.label
            /\ r.accuracy = stamp.accuracy
            /\ r.quality_pass = stamp.quality_pass
        BY <2>2 DEF NewRecord
      <3>2. RecordRight(r)
        BY <1>2, <3>1 DEF Emit, GateInv, StampRight, RecordRight
      <3> QED
        BY <3>2, JudgedRightGrows DEF GateInv, RecordRight
    <2> QED
      BY <1>1, <2>1, <2>2 DEF StreamRight
  <1>3. CASE UNCHANGED stream
    BY <1>1, <1>3 DEF StreamRight
  <1> QED
    BY <1>2, <1>3 DEF Next, Progress, Failure, vars, loopVars, NextConfig, Resume, Launch,
       LaunchFails, StampInactive, StampEvaluated, StampReused, StampFails, Warmup,
       MeasureRun, MorePasses, MeasureFails, EmitFails, Shutdown, Unwind, Return

\* The three ways the gater stamps a configuration.
LEMMA StampingRight ==
  ASSUME GateInv, TypeInv', [Next]_vars,
         StampInactive \/ StampEvaluated \/ StampReused
  PROVE  ReferenceMeasured' /\ StampRight'
  <1>0. i > 0 /\ UNCHANGED <<call, i>> /\ cp' = cp
    BY DEF GateInv, TypeInv, Active, StampInactive, StampEvaluated, StampReused, cp
  <1>1. CASE StampInactive
    <2>1. ReferenceMeasured'
      BY <1>1, SameReference DEF StampInactive
    <2>2. StampRight'
      BY <1>0, <1>1, DriverConstants
      DEF StampInactive, StampRight, JudgedRight, NoStamp, Scores, EvaluatesOwn
    <2> QED
      BY <2>1, <2>2
  <1>2. CASE StampEvaluated
    <2>1. PICK a \in Accuracies :
            /\ Judge(a)
            /\ evals' = Append(evals, [hash |-> session, label |-> cp.label,
                                       accuracy |-> a])
      BY <1>2 DEF StampEvaluated
    <2> DEFINE e == [hash |-> session, label |-> cp.label, accuracy |-> a]
    <2>2. e \in Range(evals')
      <3>1. e \in Eval
        BY <1>0, <1>2, CurrentPoint
        DEF StampEvaluated, GateInv, TypeInv, ServerBracketsConfig, Eval, ConfigPoint,
            TypeOK
      <3> QED
        BY <2>1, <3>1, RangeOfAppend DEF GateInv, TypeInv, TypeOK
    <2>3. session = cp.hash
      BY <1>2, DriverConstants DEF StampEvaluated, GateInv, TypeInv, ServerBracketsConfig
    <2>4. EvaluatesOwn(cp.hash) => \E x \in Range(evals') : x.hash = cp.hash /\ x.accuracy = a
      BY <2>2, <2>3
    <2>5. cp.label = Baseline /\ a \in Scores => MeasuredBaseline(a)'
      BY <2>2 DEF MeasuredBaseline, Scores
    <2>6. /\ ReferenceMeasured'
          /\ JudgedRight(cp.hash, cp.label, stamp.accuracy, stamp.quality_pass)'
      BY <1>0, <2>1, <2>4, <2>5, JudgeRight
    <2> QED
      BY <2>6 DEF StampRight
  <1>3. CASE StampReused
    <2>1. /\ Judge(last_accuracy)
          /\ last_accuracy \in Accuracies \cup {None}
          /\ cp.hash \notin call.evaluate_hashes
      BY <1>3 DEF StampReused, Evaluated, GateInv, TypeInv, TypeOK
    <2>2. cp \in ConfigPoint /\ cp \in Range(call.points)
      BY <1>0, CurrentPoint, DriverConstants DEF GateInv, TypeInv, TypeOK, cp, Range, Call
    <2>3. ~EvaluatesOwn(cp.hash)
      BY <2>1 DEF EvaluatesOwn
    <2>4. ~(BaselinesEvaluated /\ cp.label = Baseline)
      BY <2>1, <2>2 DEF BaselinesEvaluated
    <2>5. /\ ReferenceMeasured'
          /\ JudgedRight(cp.hash, cp.label, stamp.accuracy, stamp.quality_pass)'
      BY <1>0, <2>1, <2>3, <2>4, JudgeRight
    <2> QED
      BY <2>5 DEF StampRight
  <1> QED
    BY <1>1, <1>2, <1>3

\* Outside the gater a configuration keeps its stamp while it is measured.
LEMMA StampKept ==
  ASSUME GateInv, [Next]_vars, UNCHANGED <<call, i, stamp>>,
         pc' \in {"warmup", "measure"} => pc \in {"warmup", "measure"}
  PROVE  StampRight'
  <1> SUFFICES ASSUME pc \in {"warmup", "measure"} PROVE StampRight'
    BY DEF StampRight
  <1>1. cp' = cp
    BY DEF cp
  <1>2. JudgedRight(cp.hash, cp.label, stamp.accuracy, stamp.quality_pass)
    BY DEF GateInv, StampRight
  <1>3. PICK h, l, a, v : /\ h = cp.hash /\ l = cp.label
                          /\ a = stamp.accuracy /\ v = stamp.quality_pass
    OBVIOUS
  <1>4. JudgedRight(h, l, a, v)'
    BY <1>2, <1>3, JudgedRightGrows DEF GateInv
  <1>5. h = cp'.hash /\ l = cp'.label /\ a = stamp'.accuracy /\ v = stamp'.quality_pass
    BY <1>1, <1>3
  <1> QED
    BY <1>4, <1>5 DEF StampRight, JudgedRight, EvaluatesOwn

LEMMA NextGateInv == GateInv /\ [Next]_vars => GateInv'
  <1> SUFFICES ASSUME GateInv, [Next]_vars PROVE GateInv'
    OBVIOUS
  <1>0. TypeInv' /\ StreamRight'
    BY NextTypeInv, StreamStaysRight DEF GateInv
  <1> USE <1>0 DEF loopVars
  <1>1. CASE StampInactive \/ StampEvaluated \/ StampReused
    BY <1>1, StampingRight DEF GateInv
  <1>2. CASE NextConfig
    <2>1. StampRight'
      BY <1>2 DEF NextConfig, Resume, StampRight
    <2> QED
      BY <1>2, <2>1, SameReference DEF NextConfig, Resume, GateInv
  <1>3. CASE \/ Launch \/ LaunchFails \/ StampFails \/ Warmup \/ MeasureRun
             \/ MeasureFails \/ Emit \/ EmitFails \/ Shutdown \/ Unwind \/ Return
             \/ UNCHANGED vars
    <2>1. UNCHANGED <<call, i, stamp, baseline_score>>
      BY <1>3 DEF Launch, LaunchFails, StampFails, Warmup, MeasureRun, MorePasses, MeasureFails,
         Emit, EmitFails, Shutdown, Unwind, Return, vars
    <2>2. pc' \in {"warmup", "measure"} => pc \in {"warmup", "measure"}
      BY <1>3 DEF Launch, LaunchFails, StampFails, Warmup, MeasureRun, MorePasses, MeasureFails,
         Emit, EmitFails, Shutdown, Unwind, Return, vars
    <2> QED
      BY <2>1, <2>2, SameReference, StampKept DEF GateInv
  <1> QED
    BY <1>1, <1>2, <1>3 DEF Next, Progress, Failure

THEOREM GateInvariant == Spec => []GateInv
  BY InitGateInv, NextGateInv, PTL DEF Spec

\* No verdict against a reference that was not measured: each one compares the
\* record's accuracy with a score an evaluation of a baseline returned, as long
\* as a restricted evaluation covers the baseline, which run.py sees to.
THEOREM VerdictsHaveReference == Spec => []VerdictAgainstBaseline
  <1>1. GateInv => VerdictAgainstBaseline
    BY DEF GateInv, StreamRight, RecordRight, JudgedRight, BaselinesEvaluated,
       VerdictAgainstBaseline, Range
  <1> QED
    BY <1>1, GateInvariant, PTL

\* A baseline with a score passes the gate, whatever was measured before it.
THEOREM BaselineIsEligible == Spec => []BaselinePasses
  <1>1. GateInv => BaselinePasses
    BY DEF GateInv, StreamRight, RecordRight, JudgedRight, BaselinePasses, Range
  <1> QED
    BY <1>1, GateInvariant, PTL

\* With per-configuration evaluation no record carries another's accuracy.
THEOREM AccuracyIsOwn == Spec => []OwnAccuracy
  <1>1. ASSUME GateInv PROVE OwnAccuracy
    <2> SUFFICES ASSUME call.gate, call.evaluate_hashes = Configs, NEW n \in DOMAIN stream
                 PROVE  \E e \in Range(evals) : /\ e.hash = stream[n].config_hash
                                                /\ e.accuracy = stream[n].accuracy
      BY DEF OwnAccuracy
    <2>1. stream \in Seq(Record)
      BY <1>1 DEF GateInv, TypeInv, TypeOK
    <2>2. EvaluatesOwn(stream[n].config_hash)
      <3>1. stream[n] \in Record
        BY <2>1
      <3>2. stream[n].config_hash \in Configs
        BY <3>1 DEF Record
      <3> QED
        BY <3>2 DEF EvaluatesOwn
    <2>3. RecordRight(stream[n])
      BY <1>1 DEF GateInv, StreamRight, Range
    <2> QED
      BY <2>2, <2>3 DEF RecordRight, JudgedRight
  <1> QED
    BY <1>1, GateInvariant, PTL

-----------------------------------------------------------------------------
(* One stamp per configuration *)

\* Records of the configuration at hand carry the stamp at hand, and there are
\* none before it was stamped.
CurrentStamp ==
  i > 0 =>
    \A k \in DOMAIN stream :
      stream[k].config_hash = cp.hash =>
        /\ pc \notin {"launch", "stamp"}
        /\ stream[k].accuracy = stamp.accuracy
        /\ stream[k].quality_pass = stamp.quality_pass

StampInv == StreamInv /\ OneStampPerConfig /\ (DistinctPoints => CurrentStamp)

LEMMA InitStampInv == Init => StampInv
  <1> SUFFICES ASSUME Init PROVE StampInv
    OBVIOUS
  <1>1. DOMAIN stream = {} /\ i = 0
    BY DEF Init
  <1> QED
    BY <1>1, InitStreamInv DEF StampInv, OneStampPerConfig, CurrentStamp

\* The configuration the loop turns to has no record yet.
LEMMA NextConfigStampInv ==
  ASSUME StampInv, StreamInv', NextConfig
  PROVE  StampInv'
  <1> USE DEF NextConfig, Resume
  <1>1. OneStampPerConfig'
    BY DEF StampInv, OneStampPerConfig, DistinctPoints
  <1>2. ASSUME DistinctPoints, NEW k \in DOMAIN stream PROVE stream[k].config_hash # cp'.hash
    <2>1. PICK m \in 1 .. i, n \in DOMAIN call.workload : IsOf(stream[k], m, n)
      BY DEF StampInv, StreamInv, Sourced
    <2>2. stream[k].config_hash = call.points[m].hash
      BY <2>1 DEF IsOf, Key
    <2>3. m \in 1 .. Len(call.points) /\ i + 1 \in 1 .. Len(call.points) /\ m # i + 1
      BY DriverConstants DEF StampInv, StreamInv, TypeInv, TypeOK, Call
    <2> QED
      BY <1>2, <2>2, <2>3 DEF DistinctPoints, cp
  <1> QED
    BY <1>1, <1>2 DEF StampInv, CurrentStamp, DistinctPoints

\* A record takes the stamp at hand.
LEMMA EmitStampInv ==
  ASSUME StampInv, StreamInv', Emit
  PROVE  StampInv'
  <1> DEFINE new == Len(stream) + 1
  <1>1. /\ DOMAIN stream' = DOMAIN stream \cup {new}
        /\ stream'[new] = NewRecord
        /\ \A k \in DOMAIN stream : stream'[k] = stream[k]
        /\ UNCHANGED <<call, i, stamp>>
        /\ pc' \notin {"launch", "stamp"}
        /\ i > 0
    BY DEF Emit, loopVars, StampInv, StreamInv, TypeInv, TypeOK, Active
  <1> HIDE DEF new
  <1>2. /\ NewRecord.config_hash = cp.hash
        /\ NewRecord.accuracy = stamp.accuracy
        /\ NewRecord.quality_pass = stamp.quality_pass
    BY DEF NewRecord
  <1>3. DistinctPoints => CurrentStamp'
    BY <1>1, <1>2 DEF StampInv, CurrentStamp, cp
  <1>4. DistinctPoints => OneStampPerConfig'
    <2> SUFFICES ASSUME DistinctPoints,
                        NEW m \in DOMAIN stream', NEW n \in DOMAIN stream',
                        stream'[m].config_hash = stream'[n].config_hash
                 PROVE  /\ stream'[m].accuracy = stream'[n].accuracy
                        /\ stream'[m].quality_pass = stream'[n].quality_pass
      BY DEF OneStampPerConfig
    <2>1. CASE m \in DOMAIN stream /\ n \in DOMAIN stream
      BY <1>1, <2>1 DEF StampInv, OneStampPerConfig
    <2>2. CASE stream'[m].config_hash = cp.hash
      BY <1>1, <1>2, <2>2 DEF StampInv, CurrentStamp
    <2> QED
      BY <1>1, <1>2, <2>1, <2>2
  <1> QED
    BY <1>1, <1>3, <1>4 DEF StampInv, DistinctPoints, OneStampPerConfig

\* Steps that leave the stream and the configuration alone either stamp it,
\* when it has no record yet, or leave the stamp alone too.
LEMMA StampingStampInv ==
  ASSUME StampInv, StreamInv', UNCHANGED <<call, i, stream>>,
         \/ pc \in {"launch", "stamp"}
         \/ UNCHANGED stamp /\ pc' \notin {"launch", "stamp"}
         \/ UNCHANGED <<stamp, pc>>
  PROVE  StampInv'
  BY DEF StampInv, OneStampPerConfig, CurrentStamp, DistinctPoints, cp

LEMMA NextStampInv == StampInv /\ [Next]_vars => StampInv'
  <1> SUFFICES ASSUME StampInv, [Next]_vars PROVE StampInv'
    OBVIOUS
  <1>0. StreamInv'
    BY NextStreamInv DEF StampInv
  <1> USE <1>0 DEF loopVars
  <1>1. CASE NextConfig
    BY <1>1, NextConfigStampInv
  <1>2. CASE Emit
    BY <1>2, EmitStampInv
  <1>3. CASE Launch \/ LaunchFails
    BY <1>3, StampingStampInv DEF Launch, LaunchFails
  <1>4. CASE StampInactive \/ StampEvaluated \/ StampReused \/ StampFails
    BY <1>4, StampingStampInv DEF StampInactive, StampEvaluated, StampReused, StampFails
  <1>5. CASE Warmup \/ MeasureRun \/ MeasureFails \/ EmitFails
    BY <1>5, StampingStampInv DEF Warmup, MeasureRun, MorePasses, MeasureFails, EmitFails
  <1>6. CASE Shutdown \/ Unwind \/ Return
    BY <1>6, StampingStampInv DEF Shutdown, Unwind, Return
  <1>7. CASE UNCHANGED vars
    BY <1>7, StampingStampInv DEF vars
  <1> QED
    BY <1>1, <1>2, <1>3, <1>4, <1>5, <1>6, <1>7 DEF Next, Progress, Failure

\* All records of a configuration agree on its accuracy and its verdict.
THEOREM StampsAgree == Spec => []OneStampPerConfig
  <1>1. StampInv => OneStampPerConfig
    BY DEF StampInv
  <1> QED
    BY <1>1, InitStampInv, NextStampInv, PTL DEF Spec

-----------------------------------------------------------------------------
(* Evaluations *)

\* A configuration that is worked on had something missing.
LaunchedForCause == pc \in Active => Missing(call, cp) # {}

\* Every evaluation is of a configuration the loop has taken because something
\* of it was missing, the current one only once it was stamped.
EvalsSourced ==
  \A n \in DOMAIN evals :
    \E m \in 1 .. i :
      /\ evals[n].hash = call.points[m].hash
      /\ Missing(call, call.points[m]) # {}
      /\ m = i => pc \notin {"launch", "stamp"}

NoEvalTwice == IsInjective([n \in DOMAIN evals |-> evals[n].hash])

EvalInv ==
  /\ StreamInv
  /\ LaunchedForCause
  /\ EvalsSourced
  /\ DistinctPoints => NoEvalTwice

LEMMA InitEvalInv == Init => EvalInv
  BY InitStreamInv
  DEF Init, EvalInv, LaunchedForCause, EvalsSourced, NoEvalTwice, IsInjective, Active

\* Steps that evaluate nothing and stay with their configuration.
LEMMA UnevaluatedStep ==
  ASSUME EvalInv, StreamInv', UNCHANGED <<call, i, evals>>,
         pc' \in Active => pc \in Active,
         pc' \in {"launch", "stamp"} => pc \in {"launch", "stamp"}
  PROVE  EvalInv'
  BY DEF EvalInv, EvalsSourced, LaunchedForCause, NoEvalTwice, IsInjective, DistinctPoints,
     Missing, cp

\* All that was evaluated before lies behind the next configuration.
LEMMA NextConfigEvalInv ==
  ASSUME EvalInv, StreamInv', NextConfig
  PROVE  EvalInv'
  <1> USE DEF NextConfig, Resume
  <1>1. i \in Nat /\ i' = i + 1
    BY DriverConstants DEF EvalInv, StreamInv, TypeInv, TypeOK
  <1>2. LaunchedForCause'
    BY DEF LaunchedForCause, Active, Missing, cp, EvalInv, StreamInv, TypeInv, TypeOK
  <1>3. EvalsSourced'
    <2> SUFFICES ASSUME NEW n \in DOMAIN evals
                 PROVE  \E m \in 1 .. i' :
                          /\ evals[n].hash = call.points[m].hash
                          /\ Missing(call, call.points[m]) # {}
                          /\ m = i' => pc' \notin {"launch", "stamp"}
      BY DEF EvalsSourced
    <2>1. PICK m \in 1 .. i : /\ evals[n].hash = call.points[m].hash
                              /\ Missing(call, call.points[m]) # {}
      BY DEF EvalInv, EvalsSourced
    <2>2. m \in 1 .. i' /\ m # i'
      BY <1>1
    <2> QED
      BY <2>1, <2>2
  <1> QED
    BY <1>2, <1>3 DEF EvalInv, NoEvalTwice, IsInjective, DistinctPoints

\* A configuration is evaluated when it is stamped, which it is once.
LEMMA EvaluatedEvalInv ==
  ASSUME EvalInv, StreamInv', StampEvaluated
  PROVE  EvalInv'
  <1> DEFINE new == Len(evals) + 1
  <1>1. /\ TypeInv /\ i \in Nat /\ i > 0 /\ pc = "stamp" /\ pc' = "warmup"
        /\ UNCHANGED <<call, i, pending>> /\ session = cp.hash
        /\ evals \in Seq(Eval)
    BY DriverConstants DEF EvalInv, StreamInv, TypeInv, TypeOK, ServerBracketsConfig, Active,
       StampEvaluated
  <1>2. PICK a \in Accuracies :
          evals' = Append(evals, [hash |-> session, label |-> cp.label, accuracy |-> a])
    BY DEF StampEvaluated
  <1>3. [hash |-> session, label |-> cp.label, accuracy |-> a] \in Eval
    BY <1>1, CurrentPoint DEF Eval, ConfigPoint
  <1>4. /\ DOMAIN evals' = DOMAIN evals \cup {new}
        /\ new \notin DOMAIN evals
        /\ evals'[new].hash = cp.hash
        /\ \A n \in DOMAIN evals : evals'[n] = evals[n]
    BY <1>1, <1>2, <1>3
  <1> HIDE DEF new
  <1>5. Missing(call, cp) # {}
    BY <1>1 DEF EvalInv, LaunchedForCause, Active
  <1>6. EvalsSourced'
    <2> SUFFICES ASSUME NEW n \in DOMAIN evals'
                 PROVE  \E m \in 1 .. i :
                          /\ evals'[n].hash = call.points[m].hash
                          /\ Missing(call, call.points[m]) # {}
      BY <1>1 DEF EvalsSourced
    <2>1. CASE n = new
      <3>1. i \in 1 .. i /\ evals'[n].hash = call.points[i].hash
        BY <1>1, <1>4, <2>1 DEF cp
      <3>2. Missing(call, call.points[i]) # {}
        BY <1>5 DEF cp
      <3> QED
        BY <3>1, <3>2
    <2>2. CASE n \in DOMAIN evals
      BY <1>4, <2>2 DEF EvalInv, EvalsSourced
    <2> QED
      BY <1>4, <2>1, <2>2
  <1>7. ASSUME DistinctPoints, NEW n \in DOMAIN evals
        PROVE  evals[n].hash # cp.hash
    <2>1. PICK m \in 1 .. i : evals[n].hash = call.points[m].hash /\ m # i
      BY <1>1 DEF EvalInv, EvalsSourced
    <2>2. m \in 1 .. Len(call.points) /\ i \in 1 .. Len(call.points)
      BY <1>1, DriverConstants DEF TypeInv, TypeOK, Call
    <2> QED
      BY <1>7, <2>1, <2>2 DEF DistinctPoints, cp
  <1>8. DistinctPoints => NoEvalTwice'
    <2> SUFFICES ASSUME DistinctPoints PROVE NoEvalTwice'
      OBVIOUS
    <2>1. \A m, n \in DOMAIN evals : evals[m].hash = evals[n].hash => m = n
      BY DEF EvalInv, NoEvalTwice, IsInjective
    <2>2. \A m, n \in DOMAIN evals' : evals'[m].hash = evals'[n].hash => m = n
      BY <1>4, <1>7, <2>1
    <2> QED
      BY <2>2 DEF NoEvalTwice, IsInjective
  <1> QED
    BY <1>1, <1>6, <1>8 DEF EvalInv, LaunchedForCause, DistinctPoints, Active, Missing, cp

LEMMA NextEvalInv == EvalInv /\ [Next]_vars => EvalInv'
  <1> SUFFICES ASSUME EvalInv, [Next]_vars PROVE EvalInv'
    OBVIOUS
  <1>0. StreamInv'
    BY NextStreamInv DEF EvalInv
  <1> USE <1>0 DEF loopVars, Active
  <1>1. CASE NextConfig
    BY <1>1, NextConfigEvalInv
  <1>2. CASE StampEvaluated
    BY <1>2, EvaluatedEvalInv
  <1>3. CASE Launch \/ LaunchFails
    BY <1>3, UnevaluatedStep DEF Launch, LaunchFails
  <1>4. CASE StampInactive \/ StampReused \/ StampFails
    BY <1>4, UnevaluatedStep DEF StampInactive, StampReused, StampFails
  <1>5. CASE Warmup \/ MeasureRun \/ MeasureFails \/ Emit \/ EmitFails
    BY <1>5, UnevaluatedStep DEF Warmup, MeasureRun, MorePasses, MeasureFails, Emit, EmitFails
  <1>6. CASE Shutdown \/ Unwind \/ Return
    BY <1>6, UnevaluatedStep DEF Shutdown, Unwind, Return
  <1>7. CASE UNCHANGED vars
    BY <1>7, UnevaluatedStep DEF vars
  <1> QED
    BY <1>1, <1>2, <1>3, <1>4, <1>5, <1>6, <1>7 DEF Next, Progress, Failure

\* No configuration is evaluated twice, and none that had nothing to measure.
THEOREM EvaluatedOnceForCause == Spec => []OneEvaluationPerConfig
  <1>1. ASSUME EvalInv PROVE OneEvaluationPerConfig
    <2>1. ASSUME NEW n \in DOMAIN evals
          PROVE  \E w \in Range(call.workload) : <<evals[n].hash, w>> \notin call.skip
      BY <1>1 DEF EvalInv, EvalsSourced, Missing, Range
    <2> QED
      BY <1>1, <2>1 DEF EvalInv, OneEvaluationPerConfig, NoEvalTwice
  <1> QED
    BY <1>1, InitEvalInv, NextEvalInv, PTL DEF Spec

-----------------------------------------------------------------------------
(* The gate is never silent *)

\* The first evaluation of the call was of its baseline, and gave a score.
ReferenceFirst ==
  /\ evals # << >>
  /\ evals[1].label = Baseline
  /\ evals[1].hash = call.points[1].hash
  /\ evals[1].accuracy # NoMetric

\* From then on there is a reference, and a verdict on every record.
AllJudged ==
  /\ baseline_score # None
  /\ pc \in {"warmup", "measure"} => stamp.quality_pass \in BOOLEAN
  /\ \A n \in DOMAIN stream : stream[n].quality_pass \in BOOLEAN

\* A first configuration that is to be evaluated is evaluated before anything
\* is recorded.
FirstIsFirst ==
  /\ evals = << >>
  /\ call.points[1].hash \in call.evaluate_hashes
  /\ Missing(call, call.points[1]) # {}
  => /\ stream = << >>
     /\ i > 0 => i = 1 /\ pc \in {"launch", "stamp", "unwind", "raised"}

SilenceInv ==
  /\ EvalInv
  /\ call.gate => FirstIsFirst
  /\ call.gate /\ ReferenceFirst => AllJudged

LEMMA InitSilenceInv == Init => SilenceInv
  <1> SUFFICES ASSUME Init PROVE SilenceInv
    OBVIOUS
  <1>1. stream = << >> /\ evals = << >> /\ i = 0
    BY DEF Init
  <1>2. FirstIsFirst /\ ~ReferenceFirst
    BY <1>1 DEF FirstIsFirst, ReferenceFirst
  <1> QED
    BY <1>2, InitEvalInv DEF SilenceInv

\* Against a reference there is a verdict.
LEMMA JudgedAgainst ==
  ASSUME NEW a \in Accuracies \cup {None}, Judge(a)
  PROVE  /\ baseline_score # None => baseline_score' # None
         /\ cp.label = Baseline /\ a \in Scores => baseline_score' # None
         /\ baseline_score' # None => stamp'.quality_pass \in BOOLEAN
  BY DriverConstants DEF Judge, Reference, Verdict, Passes, ScoreOf, Scores

LEMMA EvaluatedSilenceInv ==
  ASSUME SilenceInv, EvalInv', StampEvaluated
  PROVE  SilenceInv'
  <1>1. /\ TypeInv /\ i > 0 /\ pc = "stamp" /\ pc' = "warmup" /\ call.gate
        /\ UNCHANGED <<call, i, stream>> /\ session = cp.hash
        /\ cp.hash \in call.evaluate_hashes
        /\ evals \in Seq(Eval)
    BY DriverConstants DEF SilenceInv, EvalInv, StreamInv, TypeInv, TypeOK,
       ServerBracketsConfig, Active, StampEvaluated, Evaluated
  <1>2. PICK a \in Accuracies :
          /\ Judge(a)
          /\ evals' = Append(evals, [hash |-> session, label |-> cp.label, accuracy |-> a])
    BY DEF StampEvaluated
  <1>3. [hash |-> session, label |-> cp.label, accuracy |-> a] \in Eval
    BY <1>1, CurrentPoint DEF Eval, ConfigPoint
  <1>4. evals' # << >> /\ (evals # << >> => evals'[1] = evals[1])
    BY <1>1, <1>2, <1>3
  <1>5. CASE evals # << >>
    <2>1. ReferenceFirst' => AllJudged
      BY <1>1, <1>4, <1>5 DEF SilenceInv, ReferenceFirst
    <2>2. ReferenceFirst' => AllJudged'
      BY <1>1, <1>2, <2>1, JudgedAgainst DEF AllJudged
    <2> QED
      BY <1>4, <2>2 DEF SilenceInv, FirstIsFirst
  <1>6. CASE evals = << >>
    <2> SUFFICES ASSUME ReferenceFirst' PROVE AllJudged'
      BY <1>4 DEF SilenceInv, FirstIsFirst
    <2>1. evals'[1] = [hash |-> session, label |-> cp.label, accuracy |-> a]
      BY <1>2, <1>3, <1>6
    <2>2. /\ cp.label = Baseline /\ cp.hash = call.points[1].hash
          /\ a \in Scores
      BY <1>1, <2>1 DEF ReferenceFirst, Scores
    <2>3. Missing(call, call.points[1]) # {}
      BY <1>1, <2>2 DEF SilenceInv, EvalInv, LaunchedForCause, Active, Missing, cp
    <2>4. stream = << >>
      BY <1>1, <1>6, <2>2, <2>3 DEF SilenceInv, FirstIsFirst
    <2>5. baseline_score' # None /\ stamp'.quality_pass \in BOOLEAN
      BY <1>2, <2>2, JudgedAgainst
    <2> QED
      BY <1>1, <2>4, <2>5 DEF AllJudged
  <1> QED
    BY <1>5, <1>6

\* A record takes the verdict at hand; nothing is recorded ahead of the first
\* evaluation.
LEMMA EmitSilenceInv ==
  ASSUME SilenceInv, EvalInv', Emit
  PROVE  SilenceInv'
  <1> DEFINE new == Len(stream) + 1
  <1>1. /\ DOMAIN stream' = DOMAIN stream \cup {new}
        /\ stream'[new] = NewRecord
        /\ \A k \in DOMAIN stream : stream'[k] = stream[k]
        /\ UNCHANGED <<call, i, stamp, evals, baseline_score>>
        /\ pc = "measure" /\ i > 0
    BY DEF Emit, loopVars, SilenceInv, EvalInv, StreamInv, TypeInv, TypeOK, Active
  <1> HIDE DEF new
  <1>2. NewRecord.quality_pass = stamp.quality_pass
    BY DEF NewRecord
  <1>3. call.gate /\ ReferenceFirst' => AllJudged'
    BY <1>1, <1>2 DEF SilenceInv, ReferenceFirst, AllJudged
  <1>4. call.gate => FirstIsFirst'
    BY <1>1 DEF SilenceInv, FirstIsFirst, Missing
  <1> QED
    BY <1>1, <1>3, <1>4 DEF SilenceInv

\* Steps that neither evaluate nor record.
LEMMA SilentStep ==
  ASSUME SilenceInv, EvalInv', UNCHANGED <<call, evals, stream, baseline_score>>,
         pc' \in {"warmup", "measure"} => pc \in {"warmup", "measure"} /\ UNCHANGED stamp,
         \/ UNCHANGED <<i, pc>>
         \/ UNCHANGED i /\ pc' \in {"launch", "stamp", "unwind", "raised"}
         \/ UNCHANGED i /\ pc \notin {"launch", "stamp", "unwind", "raised"}
                        /\ i > 0
  PROVE  SilenceInv'
  BY DEF SilenceInv, FirstIsFirst, ReferenceFirst, AllJudged, Missing

LEMMA NextSilenceInv == SilenceInv /\ [Next]_vars => SilenceInv'
  <1> SUFFICES ASSUME SilenceInv, [Next]_vars PROVE SilenceInv'
    OBVIOUS
  <1>0. /\ EvalInv' /\ EvalInv /\ TypeInv
        /\ i \in Nat /\ (pc \in Active => i > 0)
    BY NextEvalInv, DriverConstants DEF SilenceInv, EvalInv, StreamInv, TypeInv, TypeOK
  <1> USE <1>0 DEF loopVars, Active
  <1>1. CASE NextConfig
    <2>1. call.gate => FirstIsFirst'
      <3> SUFFICES ASSUME call.gate, evals = << >>,
                          call.points[1].hash \in call.evaluate_hashes,
                          Missing(call, call.points[1]) # {}
                   PROVE  stream = << >> /\ i' = 1 /\ pc' = "launch"
        BY <1>1 DEF NextConfig, FirstIsFirst, Missing
      <3>1. stream = << >> /\ i = 0
        BY <1>1 DEF NextConfig, SilenceInv, FirstIsFirst
      <3>2. i' = 1 /\ pending' = Missing(call, call.points[1]) /\ pc' = Resume(pending')
        BY <1>1, <3>1 DEF NextConfig
      <3> QED
        BY <3>1, <3>2 DEF Resume
    <2>2. call.gate /\ ReferenceFirst' => AllJudged'
      BY <1>1 DEF NextConfig, Resume, SilenceInv, ReferenceFirst, AllJudged
    <2> QED
      BY <1>1, <2>1, <2>2 DEF NextConfig, SilenceInv
  <1>2. CASE StampEvaluated
    BY <1>2, EvaluatedSilenceInv
  <1>3. CASE StampReused
    <2>1. Judge(last_accuracy) /\ last_accuracy \in Accuracies \cup {None}
          /\ cp.hash \notin call.evaluate_hashes /\ i > 0
      BY <1>3 DEF StampReused, Evaluated, TypeInv, TypeOK
    <2>2. call.gate /\ ReferenceFirst' => AllJudged'
      BY <1>3, <2>1, JudgedAgainst DEF StampReused, SilenceInv, ReferenceFirst, AllJudged
    <2>3. call.gate => FirstIsFirst'
      BY <1>3, <2>1 DEF StampReused, SilenceInv, FirstIsFirst, Missing, cp
    <2> QED
      BY <1>3, <2>2, <2>3 DEF StampReused, SilenceInv
  <1>4. CASE StampInactive
    BY <1>4 DEF StampInactive, SilenceInv
  <1>5. CASE Emit
    BY <1>5, EmitSilenceInv
  <1>6. CASE Launch \/ LaunchFails \/ StampFails
    BY <1>6, SilentStep DEF Launch, LaunchFails, StampFails
  <1>7. CASE Warmup \/ MeasureRun \/ MeasureFails \/ EmitFails
    BY <1>7, SilentStep DEF Warmup, MeasureRun, MorePasses, MeasureFails, EmitFails
  <1>8. CASE Shutdown \/ Unwind
    BY <1>8, SilentStep DEF Shutdown, Unwind
  <1>9. CASE Return
    <2>1. call.gate => FirstIsFirst'
      BY <1>9 DEF Return, SilenceInv, FirstIsFirst, Missing
    <2>2. call.gate /\ ReferenceFirst' => AllJudged'
      BY <1>9 DEF Return, SilenceInv, ReferenceFirst, AllJudged
    <2> QED
      BY <1>9, <2>1, <2>2 DEF Return, SilenceInv
  <1>10. CASE UNCHANGED vars
    BY <1>10, SilentStep DEF vars
  <1> QED
    BY <1>1, <1>2, <1>3, <1>4, <1>5, <1>6, <1>7, <1>8, <1>9, <1>10
    DEF Next, Progress, Failure

\* A call that begins by scoring its baseline has a verdict on every record,
\* whatever is evaluated, reused or left out afterwards.
THEOREM GateSpeaks == Spec => []GateNeverSilent
  <1>1. SilenceInv => GateNeverSilent
    BY DEF SilenceInv, ReferenceFirst, AllJudged, GateNeverSilent
  <1> QED
    BY <1>1, InitSilenceInv, NextSilenceInv, PTL DEF Spec

-----------------------------------------------------------------------------
(* A call as a part of an invocation *)

\* All that is known of a call at every moment.
CallInv == ReturnInv /\ GateInv /\ EvalInv

LEMMA InitCallInv == Init => CallInv
  BY InitReturnInv, InitGateInv, InitEvalInv DEF CallInv

LEMMA NextCallInv == CallInv /\ [Next]_vars => CallInv'
  BY NextReturnInv, NextGateInv, NextEvalInv DEF CallInv

\* A call that begins in the middle of a behaviour begins as Init says.
LEMMA BeginCallInv == \A c \in Calls : Begin(c) => CallInv'
  <1>1. (Init => CallInv)'
    BY InitCallInv, PTL
  <1>2. \A c \in Calls : Begin(c) => Init'
    BY DEF Begin, Init
  <1> QED
    BY <1>1, <1>2

\* on_result takes nothing or the one record of Emit.
LEMMA StreamStep ==
  ASSUME [Next]_vars
  PROVE  \/ Emit
         \/ UNCHANGED <<stream, call>> /\ (pc \in {"unwind", "raised"} =>
                                            pc' \in {"unwind", "raised"})
  BY DEF Next, Progress, Failure, vars, loopVars, NextConfig, Resume, Launch, LaunchFails,
     StampInactive, StampEvaluated, StampReused, StampFails, Warmup, MeasureRun, MorePasses,
     MeasureFails, EmitFails, Shutdown, Unwind, Return
=============================================================================
