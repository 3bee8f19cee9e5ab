------------------------------- MODULE Compare -------------------------------
(***************************************************************************)
(* argsearch-compare (src/sglbench/argsearch/compare.py): each OFAT        *)
(* configuration of a branch beside the baseline, per concurrency.  It     *)
(* reads the result set that argsearch-frontier ranks, and what the two    *)
(* say of it is compared here.                                             *)
(***************************************************************************)
EXTENDS Objective

\* _by_config_workload: the last record of a configuration at a concurrency,
\* whatever its lengths.
Indexed(records, hash, concurrency) ==
  LET last == SelectLastInSeq(records, LAMBDA r : /\ r.config_hash = hash
                                                  /\ r.workload[3] = concurrency)
  IN IF last > 0 THEN records[last] ELSE None

\* Mutant of Base: the baseline as first measured, at any concurrency.
FirstBase(branch, records, concurrency) ==
  LET first == SelectInSeq(records, LAMBDA r : r.config_hash = BaselinePoint(branch).hash)
  IN IF first > 0 THEN records[first] ELSE None

\* The record the rows of a concurrency are compared with.
Base(branch, records, concurrency) ==
  Indexed(records, GenerateOfat(branch)[1].hash, concurrency)

\* The rows of the table, in no order: the throughputs a delta is the quotient of,
\* or None where it prints "baseline" or "n/a".
Comparison(branch, allRecords, stat) ==
  LET records == Those(allRecords, LAMBDA r : r.branch = branch.name)
      Throughput(r) == IF r = None THEN None
                       ELSE SelectMetric(r.metrics, THROUGHPUT_KEYS, stat)
      Row(hash, concurrency) ==
        LET r    == Indexed(records, hash, concurrency)
            base == Throughput(Base(branch, records, concurrency))
        IN [config_hash |-> hash, concurrency |-> concurrency,
            throughput |-> Throughput(r),
            per_token_ms |-> SelectMetric(r.metrics, PER_TOKEN_KEYS, stat),
            delta |-> IF hash = BaselinePoint(branch).hash \/ base \in {None, 0}
                         \/ Throughput(r) = None
                        THEN None ELSE <<Throughput(r), base>>]
      hashes == { p.hash : p \in Range(GenerateOfat(branch)) }
      concurrencies == { r.workload[3] : r \in Range(records) }
  IN { Row(at[1], at[2]) : at \in { k \in hashes \X concurrencies :
                                      Indexed(records, k[1], k[2]) # None } }

-----------------------------------------------------------------------------
(* Property *)

\* The pairs of lengths measured at a concurrency, in a branch.
PairsAt(name, concurrency) ==
  { SubSeq(r.workload, 1, 2) : r \in { q \in Range(request.records) :
      q.branch = name /\ q.workload[3] = concurrency } }

\* The table does not contradict the frontier: where one pair of lengths was
\* measured at a concurrency, a candidate shown faster than the baseline and
\* no slower per token keeps the baseline off the frontier of that point.
CompareAgreesWithFrontier ==
  phase = "done" /\ ~EffectiveGate(request) =>
    \A report \in { x \in Range(reports) : Known(request, x.branch) } :
      LET branch == BranchNamed(request, report.branch)
          rows   == Comparison(branch, request.records, request.stat)
          Beats(row, base) ==
            /\ row.delta # None /\ row.delta[1] > row.delta[2]
            /\ {row.per_token_ms, base.per_token_ms} \subseteq Int
            /\ row.per_token_ms <= base.per_token_ms
      IN \A base \in { row \in rows : /\ row.config_hash = BaselinePoint(branch).hash
                                      /\ Cardinality(PairsAt(branch.name, row.concurrency)) = 1 } :
           (\E row \in rows : row.concurrency = base.concurrency /\ Beats(row, base))
             => \A e \in Range(report.frontier) :
                  <<e.config_hash, e.workload[3]>> # <<base.config_hash, base.concurrency>>
=============================================================================
