---------------------------- MODULE DriverProofs ----------------------------
(***************************************************************************)
(* Proofs about Driver, for every set of calls and every value of the      *)
(* other constants that DriverConstants admits.                            *)
(***************************************************************************)
EXTENDS Driver, TLAPS

\* The places of the loop at which a configuration is being worked on.
Active == {"launch", "stamp", "warmup", "measure", "done", "unwind"}

\* TypeOK and ServerBracketsConfig are inductive together, once it is said
\* that a configuration that is being worked on has been taken.
TypeInv == TypeOK /\ ServerBracketsConfig /\ (pc \in Active => i > 0)

LEMMA InitTypeInv == Init => TypeInv
  BY DriverConstants DEF Init, TypeInv, TypeOK, ServerBracketsConfig, Active, PCs,
     Call, NoStamp, Stamp, Verdicts

\* The configuration that is worked on is a point of the call.
LEMMA CurrentPoint ==
  ASSUME TypeInv, i > 0
  PROVE  cp \in ConfigPoint /\ call \in Call
  BY DriverConstants DEF TypeInv, TypeOK, cp, Call

\* What Judge stamps is an accuracy and a verdict.
LEMMA JudgeType ==
  ASSUME TypeInv, NEW a \in Accuracies \cup {None}, Judge(a)
  PROVE  /\ last_accuracy' \in Accuracies \cup {None}
         /\ baseline_score' \in Scores \cup {None}
         /\ stamp' \in Stamp
  <1>1. ScoreOf(a) \in Scores \cup {None}
    BY DEF ScoreOf
  <1>2. baseline_score' \in Scores \cup {None}
    BY <1>1 DEF Judge, Reference, Verdict, TypeInv, TypeOK
  <1>3. \A s, b : Passes(s, b) \in BOOLEAN
    BY DEF Passes
  <1>4. stamp' \in Stamp
    BY <1>3 DEF Judge, Reference, Verdict, Stamp, Verdicts
  <1> QED
    BY <1>2, <1>4 DEF Judge, Reference, Verdict

\* A record is built from the configuration at hand, the workload point at
\* hand and the stamp.
LEMMA NewRecordType ==
  ASSUME TypeInv, pc = "measure"
  PROVE  NewRecord \in Record
  <1>1. cp \in ConfigPoint
    BY CurrentPoint DEF TypeInv, Active
  <1>2. call.workload[wp] \in Workloads
    BY DriverConstants DEF TypeInv, TypeOK, Call
  <1> QED
    BY <1>1, <1>2 DEF NewRecord, Record, ConfigPoint, TypeInv, TypeOK, Stamp

\* Every step preserves the types and the bracket around the server.
LEMMA NextTypeInv == TypeInv /\ [Next]_vars => TypeInv'
  <1> SUFFICES ASSUME TypeInv, [Next]_vars PROVE TypeInv'
    OBVIOUS
  <1> USE DEF TypeInv, TypeOK, ServerBracketsConfig, Active, PCs, loopVars
  <1>0. call \in Call /\ i \in Nat
    BY DriverConstants
  <1>1. CASE NextConfig
    <2>1. Missing(call, call.points[i + 1]) \subseteq DOMAIN call.workload
      BY DEF Missing
    <2>2. i + 1 \in 0 .. Len(call.points)
      BY <1>0, <1>1 DEF NextConfig, Resume, Call
    <2> QED
      BY <1>0, <1>1, <2>1, <2>2 DEF NextConfig, Resume
  <1>2. CASE Launch
    <2>1. cp.hash \in Configs
      BY <1>2, CurrentPoint DEF Launch, ConfigPoint
    <2> QED
      BY <1>2, <2>1, DriverConstants DEF Launch, cp
  <1>3. CASE StampInactive
    BY <1>3 DEF StampInactive, cp, NoStamp, Stamp, Verdicts
  <1>4. CASE StampEvaluated
    <2>1. cp \in ConfigPoint
      BY <1>4, CurrentPoint DEF StampEvaluated
    <2>2. PICK a \in Accuracies :
            /\ Judge(a)
            /\ evals' = Append(evals, [hash |-> session, label |-> cp.label,
                                       accuracy |-> a])
      BY <1>4 DEF StampEvaluated
    <2>3. [hash |-> session, label |-> cp.label, accuracy |-> a] \in Eval
      BY <1>4, <2>1 DEF StampEvaluated, Eval, ConfigPoint
    <2>4. evals' \in Seq(Eval)
      BY <2>2, <2>3
    <2>5. /\ last_accuracy' \in Accuracies \cup {None}
          /\ baseline_score' \in Scores \cup {None}
          /\ stamp' \in Stamp
      BY <2>2, JudgeType
    <2> QED
      BY <1>4, <2>4, <2>5 DEF StampEvaluated, cp
  <1>5. CASE StampReused
    <2>1. /\ last_accuracy' \in Accuracies \cup {None}
          /\ baseline_score' \in Scores \cup {None}
          /\ stamp' \in Stamp
      BY <1>5, JudgeType DEF StampReused
    <2> QED
      BY <1>5, <2>1 DEF StampReused, cp
  <1>6. CASE Warmup
    BY <1>6, DriverConstants DEF Warmup, cp, MIN_REPEATS, Call
  <1>7. CASE MeasureRun
    BY <1>7, DriverConstants DEF MeasureRun, MorePasses, cp
  <1>8. CASE Emit
    <2>1. NewRecord \in Record
      BY <1>8, NewRecordType DEF Emit
    <2> QED
      BY <1>8, <2>1 DEF Emit, cp
  <1>9. CASE Shutdown
    <2>1. results \o batch \in Seq(Record)
      OBVIOUS
    <2> QED
      BY <1>9, <2>1 DEF Shutdown
  <1>10. CASE Return
    BY <1>10 DEF Return, cp
  <1>11. CASE LaunchFails
    BY <1>11 DEF LaunchFails, cp
  <1>12. CASE StampFails
    BY <1>12 DEF StampFails, cp
  <1>13. CASE MeasureFails
    BY <1>13 DEF MeasureFails, MorePasses, cp
  <1>14. CASE EmitFails
    <2>1. NewRecord \in Record
      BY <1>14, NewRecordType DEF EmitFails
    <2> QED
      BY <1>14, <2>1 DEF EmitFails, cp
  <1>15. CASE Unwind
    BY <1>15 DEF Unwind
  <1>16. CASE UNCHANGED vars
    BY <1>16 DEF vars, cp
  <1> QED
    BY <1>1, <1>2, <1>3, <1>4, <1>5, <1>6, <1>7, <1>8, <1>9, <1>10, <1>11,
       <1>12, <1>13, <1>14, <1>15, <1>16 DEF Next, Progress, Failure

THEOREM TypeInvariant == Spec => []TypeInv
  BY InitTypeInv, NextTypeInv, PTL DEF Spec

\* Every variable keeps its type in every call of run_search.
THEOREM TypeCorrect == Spec => []TypeOK
  <1>1. TypeInv => TypeOK
    BY DEF TypeInv
  <1> QED
    BY <1>1, TypeInvariant, PTL

\* Whatever fails and wherever, a server is live exactly while its own
\* configuration is stamped and measured, and none outlives the call: the
\* try/finally of run_search covers every exit from the inner loop.
THEOREM ServerBracketed == Spec => []ServerBracketsConfig
  <1>1. TypeInv => ServerBracketsConfig
    BY DEF TypeInv
  <1> QED
    BY <1>1, TypeInvariant, PTL

-----------------------------------------------------------------------------
(* Nothing is measured twice and nothing is left out *)

\* What is still to be measured of the current configuration is not recorded,
\* and nothing is pending between two configurations.
PendingInv ==
  /\ i > 0 => pending \subseteq Missing(call, cp)
  /\ pc \in {"next", "done", "returned"} => pending = {}

\* Record r is of the m-th configuration and the n-th workload point.
IsOf(r, m, n) == Key(r) = <<call.points[m].hash, call.workload[n]>>

\* Every record comes from a configuration the loop has taken and a workload
\* point that is off the pending list.
Sourced ==
  \A k \in DOMAIN stream :
    \E m \in 1 .. i, n \in DOMAIN call.workload :
      /\ IsOf(stream[k], m, n)
      /\ Key(stream[k]) \notin call.skip
      /\ m = i => n \notin pending

\* Every workload point of a configuration the loop has taken was skipped, is
\* in the stream or is pending.
Covered ==
  \A m \in 1 .. i, n \in DOMAIN call.workload :
    \/ <<call.points[m].hash, call.workload[n]>> \in call.skip
    \/ \E k \in DOMAIN stream : IsOf(stream[k], m, n)
    \/ m = i /\ n \in pending

NoKeyTwice == IsInjective([n \in DOMAIN stream |-> Key(stream[n])])

StreamInv ==
  /\ TypeInv
  /\ PendingInv
  /\ Sourced
  /\ Covered
  /\ DistinctPoints /\ IsInjective(call.workload) => NoKeyTwice

LEMMA InitStreamInv == Init => StreamInv
  <1> SUFFICES ASSUME Init PROVE StreamInv
    OBVIOUS
  <1>1. TypeInv
    BY InitTypeInv
  <1>2. DOMAIN stream = {} /\ 1 .. i = {}
    BY DEF Init
  <1> QED
    BY <1>1, <1>2 DEF Init, StreamInv, PendingInv, Sourced, Covered, NoKeyTwice, IsInjective

\* Steps that take no record and no configuration leave the stream and what is
\* pending alone.
LEMMA QuietStep ==
  ASSUME StreamInv, TypeInv', UNCHANGED <<call, i, pending, stream>>,
         pc' \in {"next", "done", "returned"} => pc \in {"next", "done", "returned"}
  PROVE  StreamInv'
  BY DEF StreamInv, PendingInv, Sourced, Covered, NoKeyTwice, IsInjective, IsOf, cp,
     DistinctPoints, Missing, Key

\* Taking a configuration: all that came before it is settled.
LEMMA NextConfigStreamInv ==
  ASSUME StreamInv, TypeInv', NextConfig
  PROVE  StreamInv'
  <1> USE DEF StreamInv, TypeInv, TypeOK, NextConfig, Resume
  <1>0. i \in Nat /\ i' = i + 1 /\ pending = {}
    BY DriverConstants DEF PendingInv
  <1>1. PendingInv'
    BY <1>0 DEF PendingInv, cp
  <1>2. Sourced'
    <2> SUFFICES ASSUME NEW k \in DOMAIN stream
                 PROVE  \E m \in 1 .. i', n \in DOMAIN call.workload :
                          /\ IsOf(stream[k], m, n)
                          /\ Key(stream[k]) \notin call.skip
                          /\ m = i' => n \notin pending'
      BY DEF Sourced, IsOf, Key
    <2>1. PICK m \in 1 .. i, n \in DOMAIN call.workload :
            IsOf(stream[k], m, n) /\ Key(stream[k]) \notin call.skip
      BY DEF Sourced
    <2> HIDE DEF StreamInv, TypeInv, TypeOK, NextConfig, Resume
    <2>2. m \in 1 .. i' /\ m # i'
      BY <1>0
    <2> QED
      BY <2>1, <2>2
  <1>3. Covered'
    <2> SUFFICES ASSUME NEW m \in 1 .. i', NEW n \in DOMAIN call.workload
                 PROVE  \/ <<call.points[m].hash, call.workload[n]>> \in call.skip
                        \/ \E k \in DOMAIN stream : IsOf(stream[k], m, n)
                        \/ m = i' /\ n \in pending'
      BY DEF Covered, IsOf
    <2>1. CASE m \in 1 .. i
      BY <1>0, <2>1 DEF Covered
    <2>2. CASE m = i + 1
      BY <1>0, <2>2 DEF Missing
    <2> QED
      BY <1>0, <2>1, <2>2
  <1> QED
    BY <1>1, <1>2, <1>3 DEF NoKeyTwice, IsInjective, DistinctPoints, Key

\* The record about to be made is of a configuration and a point that are
\* neither recorded nor, unless the lists repeat themselves, in the stream.
LEMMA NewRecordIsNew ==
  ASSUME StreamInv, pc = "measure"
  PROVE  /\ Key(NewRecord) \notin call.skip
         /\ DistinctPoints /\ IsInjective(call.workload) =>
              \A k \in DOMAIN stream : Key(stream[k]) # Key(NewRecord)
  <1>0. i \in Nat /\ i > 0 /\ wp \in pending /\ wp \in DOMAIN call.workload
    BY DriverConstants DEF StreamInv, TypeInv, TypeOK, Active
  <1>1. IsOf(NewRecord, i, wp) /\ Key(NewRecord) \notin call.skip
    BY <1>0 DEF IsOf, NewRecord, Key, StreamInv, PendingInv, Missing, cp
  <1>2. ASSUME DistinctPoints, IsInjective(call.workload),
               NEW k \in DOMAIN stream, Key(stream[k]) = Key(NewRecord)
        PROVE  FALSE
    <2>1. PICK m \in 1 .. i, n \in DOMAIN call.workload :
            IsOf(stream[k], m, n) /\ (m = i => n \notin pending)
      BY DEF StreamInv, Sourced
    <2>2. /\ call.points[m].hash = call.points[i].hash
          /\ call.workload[n] = call.workload[wp]
      BY <1>1, <1>2, <2>1 DEF IsOf
    <2>3. m \in 1 .. Len(call.points) /\ i \in 1 .. Len(call.points)
      BY <1>0, DriverConstants DEF StreamInv, TypeInv, TypeOK, Call
    <2>4. m = i
      BY <1>2, <2>2, <2>3 DEF DistinctPoints
    <2>5. n = wp
      BY <1>0, <1>2, <2>2 DEF IsInjective
    <2> QED
      BY <1>0, <2>1, <2>4, <2>5
  <1> QED
    BY <1>1, <1>2

\* Taking a record: it is the only one of its configuration and point.
LEMMA EmitStreamInv ==
  ASSUME StreamInv, TypeInv', Emit
  PROVE  StreamInv'
  <1> USE DEF StreamInv, TypeInv, TypeOK, Active, Emit, loopVars
  <1> DEFINE new == Len(stream) + 1
  <1>0. i \in Nat /\ i > 0 /\ wp \in pending /\ wp \in DOMAIN call.workload
    BY DriverConstants
  <1>1. /\ stream \in Seq(Record)
        /\ stream' = Append(stream, NewRecord)
        /\ Len(stream) \in Nat
    OBVIOUS
  <1>2. /\ DOMAIN stream' = DOMAIN stream \cup {new}
        /\ new \notin DOMAIN stream
        /\ stream'[new] = NewRecord
        /\ \A k \in DOMAIN stream : stream'[k] = stream[k]
    BY <1>1
  <1>3. IsOf(NewRecord, i, wp) /\ Key(NewRecord) \notin call.skip
    BY <1>0 DEF IsOf, NewRecord, Key, PendingInv, Missing, cp
  <1>4. PendingInv'
    BY <1>0 DEF PendingInv, cp, Missing
  <1>5. Sourced'
    <2> SUFFICES ASSUME NEW k \in DOMAIN stream'
                 PROVE  \E m \in 1 .. i, n \in DOMAIN call.workload :
                          /\ IsOf(stream'[k], m, n)
                          /\ Key(stream'[k]) \notin call.skip
                          /\ m = i => n \notin pending'
      BY DEF Sourced, IsOf, Key
    <2>1. CASE k = new
      <3>1. /\ IsOf(stream'[k], i, wp)
            /\ Key(stream'[k]) \notin call.skip
            /\ wp \notin pending'
        BY <1>2, <1>3, <2>1
      <3>2. i \in 1 .. i
        BY <1>0
      <3> HIDE DEF StreamInv, TypeInv, TypeOK, Emit
      <3> QED
        BY <1>0, <3>1, <3>2
    <2>2. CASE k \in DOMAIN stream
      <3>1. PICK m \in 1 .. i, n \in DOMAIN call.workload :
              /\ IsOf(stream[k], m, n)
              /\ Key(stream[k]) \notin call.skip
              /\ m = i => n \notin pending
        BY <2>2 DEF Sourced
      <3>2. stream'[k] = stream[k] /\ pending' \subseteq pending
        BY <1>2, <2>2
      <3> HIDE DEF StreamInv, TypeInv, TypeOK, Emit
      <3>3. /\ IsOf(stream'[k], m, n) /\ Key(stream'[k]) \notin call.skip
            /\ m = i => n \notin pending'
        BY <3>1, <3>2 DEF IsOf
      <3> QED
        BY <3>3
    <2> QED
      BY <1>2, <2>1, <2>2
  <1>6. Covered'
    <2> SUFFICES ASSUME NEW m \in 1 .. i, NEW n \in DOMAIN call.workload
                 PROVE  \/ <<call.points[m].hash, call.workload[n]>> \in call.skip
                        \/ \E k \in DOMAIN stream' : IsOf(stream'[k], m, n)
                        \/ m = i /\ n \in pending'
      BY DEF Covered, IsOf
    <2>1. CASE m = i /\ n = wp
      BY <1>2, <1>3, <2>1
    <2>2. CASE ~(m = i /\ n = wp)
      BY <1>2, <2>2 DEF Covered
    <2> QED
      BY <2>1, <2>2
  <1>7. DistinctPoints /\ IsInjective(call.workload) => NoKeyTwice'
    <2>0. SUFFICES ASSUME DistinctPoints, IsInjective(call.workload)
                   PROVE  NoKeyTwice'
      OBVIOUS
    <2>1. \A k \in DOMAIN stream : Key(stream[k]) # Key(NewRecord)
      BY <2>0, NewRecordIsNew
    <2>2. NoKeyTwice
      BY <2>0
    <2>3. \A a, b \in DOMAIN stream : Key(stream[a]) = Key(stream[b]) => a = b
      BY <2>2 DEF NoKeyTwice, IsInjective
    <2>4. \A a, b \in DOMAIN stream' : Key(stream'[a]) = Key(stream'[b]) => a = b
      BY <1>2, <2>1, <2>3
    <2> QED
      BY <2>4 DEF NoKeyTwice, IsInjective, Key
  <1> QED
    BY <1>4, <1>5, <1>6, <1>7 DEF DistinctPoints

LEMMA NextStreamInv == StreamInv /\ [Next]_vars => StreamInv'
  <1> SUFFICES ASSUME StreamInv, [Next]_vars PROVE StreamInv'
    OBVIOUS
  <1>0. TypeInv'
    BY NextTypeInv DEF StreamInv
  <1> USE <1>0 DEF loopVars
  <1>1. CASE NextConfig
    BY <1>1, NextConfigStreamInv
  <1>2. CASE Emit
    BY <1>2, EmitStreamInv
  <1>3. CASE Launch \/ LaunchFails
    BY <1>3, QuietStep DEF Launch, LaunchFails
  <1>4. CASE StampInactive \/ StampEvaluated \/ StampReused \/ StampFails
    BY <1>4, QuietStep DEF StampInactive, StampEvaluated, StampReused, StampFails
  <1>5. CASE Warmup \/ MeasureRun \/ MeasureFails \/ EmitFails
    BY <1>5, QuietStep DEF Warmup, MeasureRun, MorePasses, MeasureFails, EmitFails
  <1>6. CASE Shutdown \/ Unwind \/ Return
    BY <1>6, QuietStep DEF Shutdown, Unwind, Return
  <1>7. CASE UNCHANGED vars
    BY <1>7, QuietStep DEF vars
  <1> QED
    BY <1>1, <1>2, <1>3, <1>4, <1>5, <1>6, <1>7 DEF Next, Progress, Failure

THEOREM StreamInvariant == Spec => []StreamInv
  BY InitStreamInv, NextStreamInv, PTL DEF Spec

\* No measurement recorded before, and none made in this call, is made again:
\* the promise behind run.py's resume, for every list of points and workloads
\* without repetition and every set of recorded keys.
THEOREM NothingMeasuredTwice == Spec => []StreamIsFresh
  <1>1. StreamInv => StreamIsFresh
    BY DEF StreamInv, Sourced, StreamIsFresh, NoKeyTwice
  <1> QED
    BY <1>1, StreamInvariant, PTL

-----------------------------------------------------------------------------
(* What a call returns is what it handed to on_result *)

\* The records of finished configurations are in results, those of the current
\* one in batch; only a record on_result refused is in neither order.
BatchInv ==
  /\ StreamTracksResults
  /\ pc \notin {"unwind", "raised"} => stream = results \o batch
  /\ pc \in {"next", "launch", "returned"} => batch = << >>
  /\ pc = "returned" => i = Len(call.points)

ReturnInv == StreamInv /\ BatchInv

LEMMA FrontOfAppend ==
  ASSUME NEW S, NEW s \in Seq(S), NEW e \in S
  PROVE  Front(Append(s, e)) = s
  BY DEF Front

LEMMA ConcatAppend ==
  ASSUME NEW S, NEW s \in Seq(S), NEW t \in Seq(S), NEW e \in S
  PROVE  s \o Append(t, e) = Append(s \o t, e)
  OBVIOUS

LEMMA ConcatEmpty ==
  ASSUME NEW S, NEW s \in Seq(S)
  PROVE  s \o << >> = s /\ << >> \o s = s
  OBVIOUS

LEMMA InitReturnInv == Init => ReturnInv
  <1> SUFFICES ASSUME Init PROVE ReturnInv
    OBVIOUS
  <1>1. << >> = << >> \o << >>
    BY ConcatEmpty
  <1> QED
    BY <1>1, InitStreamInv DEF Init, ReturnInv, BatchInv, StreamTracksResults

LEMMA NextBatchInv ==
  ASSUME ReturnInv, [Next]_vars
  PROVE  BatchInv'
  <1> USE DEF BatchInv, StreamTracksResults, loopVars
  <1>0. /\ BatchInv
        /\ stream \in Seq(Record) /\ results \in Seq(Record) /\ batch \in Seq(Record)
    BY DEF ReturnInv, StreamInv, TypeInv, TypeOK
  <1>1. CASE NextConfig
    BY <1>0, <1>1 DEF NextConfig, Resume
  <1>2. CASE Launch \/ LaunchFails
    BY <1>0, <1>2 DEF Launch, LaunchFails
  <1>3. CASE StampInactive \/ StampEvaluated \/ StampReused \/ StampFails
    BY <1>0, <1>3 DEF StampInactive, StampEvaluated, StampReused, StampFails
  <1>4. CASE Warmup \/ MeasureRun \/ MeasureFails
    BY <1>0, <1>4 DEF Warmup, MeasureRun, MorePasses, MeasureFails
  <1>5. CASE Emit
    <2>1. NewRecord \in Record
      BY <1>5, NewRecordType DEF Emit, ReturnInv, StreamInv
    <2>2. stream' = results \o batch'
      BY <1>0, <1>5, <2>1, ConcatAppend DEF Emit
    <2> QED
      BY <1>5, <2>2 DEF Emit
  <1>6. CASE EmitFails
    <2>1. NewRecord \in Record
      BY <1>6, NewRecordType DEF EmitFails, ReturnInv, StreamInv
    <2>2. Front(batch') = batch /\ Len(batch') > 0
      BY <1>0, <1>6, <2>1, FrontOfAppend DEF EmitFails
    <2> QED
      BY <1>0, <1>6, <2>2 DEF EmitFails
  <1>7. CASE Shutdown
    <2>1. stream' = results' /\ batch' = << >> /\ results' \in Seq(Record)
      BY <1>0, <1>7 DEF Shutdown
    <2>2. stream' = results' \o batch'
      BY <2>1, ConcatEmpty
    <2> QED
      BY <1>7, <2>1, <2>2 DEF Shutdown
  <1>8. CASE Unwind
    BY <1>0, <1>8 DEF Unwind
  <1>9. CASE Return
    BY <1>0, <1>9 DEF Return
  <1>10. CASE UNCHANGED vars
    BY <1>0, <1>10 DEF vars
  <1> QED
    BY <1>1, <1>2, <1>3, <1>4, <1>5, <1>6, <1>7, <1>8, <1>9, <1>10
    DEF Next, Progress, Failure

LEMMA NextReturnInv == ReturnInv /\ [Next]_vars => ReturnInv'
  BY NextBatchInv, NextStreamInv DEF ReturnInv

THEOREM ReturnInvariant == Spec => []ReturnInv
  BY InitReturnInv, NextReturnInv, PTL DEF Spec

\* The invariant at a return: the stream is exactly what was asked for.
LEMMA ReturnedIsComplete == ReturnInv => ReturnMeansComplete
  <1> SUFFICES ASSUME ReturnInv, pc = "returned" PROVE ReturnMeansComplete
    BY DEF ReturnMeansComplete
  <1> DEFINE Hashes == { p.hash : p \in Range(call.points) }
             Asked == { key \in Hashes \X Range(call.workload) : key \notin call.skip }
             Taken == { Key(stream[n]) : n \in DOMAIN stream }
  <1>1. /\ i = Len(call.points) /\ pending = {} /\ batch = << >>
        /\ stream = results \o batch /\ results \in Seq(Record)
    BY DEF ReturnInv, BatchInv, StreamInv, PendingInv, TypeInv, TypeOK
  <1>2. results = stream
    BY <1>1, ConcatEmpty
  <1>3. /\ DOMAIN call.points = 1 .. i
        /\ call.points \in Seq(ConfigPoint)
    BY <1>1, DriverConstants DEF ReturnInv, StreamInv, TypeInv, TypeOK, Call
  <1>4. Taken \subseteq Asked
    <2> SUFFICES ASSUME NEW k \in DOMAIN stream PROVE Key(stream[k]) \in Asked
      OBVIOUS
    <2>1. PICK m \in 1 .. i, n \in DOMAIN call.workload :
            IsOf(stream[k], m, n) /\ Key(stream[k]) \notin call.skip
      BY DEF ReturnInv, StreamInv, Sourced
    <2>2. call.points[m].hash \in Hashes /\ call.workload[n] \in Range(call.workload)
      BY <1>3 DEF Range
    <2> QED
      BY <2>1, <2>2 DEF IsOf
  <1>5. Asked \subseteq Taken
    <2> SUFFICES ASSUME NEW key \in Asked PROVE key \in Taken
      OBVIOUS
    <2>1. PICK m \in 1 .. i, n \in DOMAIN call.workload :
            key = <<call.points[m].hash, call.workload[n]>>
      BY <1>3 DEF Range
    <2>2. \E k \in DOMAIN stream : IsOf(stream[k], m, n)
      BY <1>1, <2>1 DEF ReturnInv, StreamInv, Covered
    <2> QED
      BY <2>1, <2>2 DEF IsOf
  <1> QED
    BY <1>2, <1>4, <1>5 DEF ReturnMeansComplete

\* A call that returns has measured everything it was asked for and nothing
\* else, and returns what it handed to on_result, in that order.
THEOREM ReturnComplete == Spec => []ReturnMeansComplete
  BY ReturnedIsComplete, ReturnInvariant, PTL

\* A failure loses at most the one record on_result was given when it raised.
THEOREM AtMostOneRecordLost == Spec => []StreamTracksResults
  <1>1. ReturnInv => StreamTracksResults
    BY DEF ReturnInv, BatchInv
  <1> QED
    BY <1>1, ReturnInvariant, PTL
=============================================================================
