---------------------------- MODULE MCObjective -----------------------------
(* Two branches of three candidates, two of them pinned, and result sets of    *)
(* up to three records: families that vary the metrics, what they were         *)
(* measured from, and the verdicts.                                            *)
EXTENDS Compare

CONSTANTS kernel, size, width, prec, fp8, bf16, p, q, b1, b2

Candidate(name, values) == [name |-> name, values |-> values, accuracy_invariant |-> FALSE]

BranchOf(name, precision) ==
  [name |-> name, fixed |-> prec :> precision, constraints |-> {},
   candidate |-> << Candidate(kernel, <<p, q>>), Candidate(size, <<1, 2>>),
                    Candidate(width, <<1, 2>>) >>,
   baseline |-> (kernel :> p) @@ (size :> 1) @@ (width :> 1),
   focused_grid |-> [args |-> <<width>>, pins |-> (kernel :> q) @@ (size :> 2)]]

First == BranchOf(b1, fp8)
Second == [BranchOf(b2, bf16) EXCEPT !.focused_grid = None]

\* Five workload pairs; the first override of the long one sets no bound, that
\* of the wide one is tighter than the global bound and the last one looser.
short == <<1, 1, 1>>
long == <<4, 1, 1>>
wide == <<1, 4, 1>>
loose == <<2, 2, 2>>
deep == <<6, 2, 2>>
busy == <<1, 1, 8>>

MCOverrides ==
  << [isl |-> 4, osl |-> 1, per_token_ms |-> None],
     [isl |-> 4, osl |-> 1, per_token_ms |-> 1],
     [isl |-> 1, osl |-> 4, per_token_ms |-> 1],
     [isl |-> 2, osl |-> 2, per_token_ms |-> 9] >>

Raw(v) == [median |-> v, mean |-> v]

Measured(throughput, perToken) ==
  [decode_throughput_tok_s |-> Raw(throughput), per_token_p95_ms |-> Raw(perToken)]

\* Records written by other clients and aggregates: fallback keys, several keys
\* and statistics, and metrics that are missing.
OddMetrics ==
  { [output_throughput_tok_s |-> Raw(2), per_token_ms |-> Raw(2)],
    [decode_throughput_tok_s |-> Raw(1), output_throughput_tok_s |-> Raw(2),
     per_token_p95_ms |-> Raw(1), per_token_ms |-> Raw(3)],
    [decode_throughput_tok_s |-> [median |-> 1, mean |-> 2],
     per_token_p95_ms |-> [mean |-> 2]],
    [decode_throughput_tok_s |-> [mean |-> 2], per_token_p95_ms |-> Raw(1)],
    [overall_throughput_tok_s |-> Raw(2), per_token_ms |-> [median |-> 1, mean |-> 3]],
    [decode_throughput_tok_s |-> Raw(2)],
    [per_token_p95_ms |-> Raw(1)] }

RecordOf(branch, label, overrides, workload, metrics, accuracy, verdict) ==
  [config_hash |-> Assemble(branch, overrides), branch |-> branch.name,
   config_label |-> label, workload |-> workload, metrics |-> metrics,
   accuracy |-> accuracy, quality_pass |-> verdict, passes |-> None]

AtBaseline(branch, w, m, a, v) == RecordOf(branch, BaselineLabel, NoArgs, w, m, a, v)
AtOverride(branch, o, w, m, a, v) == RecordOf(branch, OverrideLabel(o), o, w, m, a, v)

SeqsOf(S, lengths) == UNION { [1 .. n -> S] : n \in lengths }

\* A result set has one record per configuration and workload.
OnePerIdentity(records) ==
  IsInjective([n \in DOMAIN records |-> <<records[n].config_hash, records[n].workload>>])

\* A verdict was given against a baseline measured before, with a score.
Recordable(records) ==
  /\ OnePerIdentity(records)
  /\ \A n \in DOMAIN records :
       LET r == records[n]
       IN r.quality_pass \in BOOLEAN /\ r.config_label # BaselineLabel =>
            \E k \in 1 .. n - 1 :
              /\ records[k].branch = r.branch
              /\ records[k].config_label = BaselineLabel
              /\ records[k].quality_pass = TRUE
              /\ r.quality_pass = Passes(ScoreOf(r.accuracy), ScoreOf(records[k].accuracy))

Ordinary == { Measured(t, l) : t \in 1 .. 2, l \in 1 .. 3 }

\* Every choice of metrics for three configurations at one workload each.
Performance(metrics, workloads) ==
  { << AtBaseline(First, ws[1], ms[1], None, None),
       AtOverride(First, kernel :> q, ws[2], ms[2], None, None),
       AtOverride(First, size :> 2, ws[3], ms[3], None, None) >> :
      ms \in [1 .. 3 -> metrics], ws \in [1 .. 3 -> workloads] }

\* The baseline at two concurrencies, and a candidate at one of them.
Compared(metrics) ==
  { << AtBaseline(First, short, ms[1], None, None), AtBaseline(First, busy, ms[2], None, None),
       AtOverride(First, kernel :> q, busy, ms[3], None, None) >> :
      ms \in [1 .. 3 -> metrics] }

\* A pass of bench_one_batch_server: a line of the point with a tail rate or
\* without, one of another point, or both, and lines that lack a key or have a
\* zero in it; and one of bench_serving.
Line(batch, tail, output) ==
  [batch_size |-> batch, input_len |-> 2, output_len |-> 2,
   last_gen_throughput |-> tail, output_throughput |-> output]

Lines == { Line(2, 500, 250), Line(2, 250, 500), Line(2, 0, 500) }

OneBatchPasses ==
  { <<l>> : l \in Lines } \cup { <<l, Line(1, 1000, 1000)>> : l \in Lines }
    \cup { <<Line(1, 250, 250)>>, <<[batch_size |-> 0, last_gen_throughput |-> 250]>>,
            <<[output_throughput |-> 500], [last_gen_throughput |-> 500]>> }

ServingPasses ==
  { <<[median_itl_ms |-> 2, p95_itl_ms |-> 4, output_throughput |-> 100]>>,
    <<[median_itl_ms |-> 4, output_throughput |-> 100]>>,
    <<[median_itl_ms |-> 4, p95_itl_ms |-> 8]>>,
    <<[median_itl_ms |-> 2], [median_itl_ms |-> 0, output_throughput |-> 100]>>,
    <<[p95_itl_ms |-> 4, output_throughput |-> 100]>> }

\* A record measured by this program.
FromPasses(record, tool, passes) ==
  [record EXCEPT !.metrics = MeasuredMetrics(tool, passes, record.workload),
                 !.passes = passes] @@ [tool |-> tool]

Measurements(tool, passes) ==
  { << FromPasses(AtBaseline(First, loose, << >>, None, None), tool, ps),
       AtOverride(First, kernel :> q, loose, m, None, None) >> :
      ps \in [1 .. 2 -> passes] \cup [1 .. 3 -> passes],
      m \in { Measured(300, 3), Measured(600, 9) } }

\* Two context lengths: a tail rate at the deep one, at the other a tail rate or
\* the averaged one only.
TwoLengths ==
  { << FromPasses(AtBaseline(First, deep, << >>, None, None), "bench_one_batch_server",
                  [n \in 1 .. 2 |-> <<[Line(2, 1000, 500) EXCEPT !.input_len = 6]>>]),
       FromPasses(AtOverride(First, kernel :> q, loose, << >>, None, None),
                  "bench_one_batch_server", ps) >> :
      ps \in [1 .. 2 -> { <<l>> : l \in Lines \cup { Line(2, 0, 2000), Line(2, 2000, 1000) } }] }

\* Measured under a gate: the baseline is slow, the kernel fast, the size
\* dominated by both.
Gated ==
  { AtBaseline(First, w, Measured(1, 1), s[1], s[2]) : w \in {short, long},
      s \in { <<2, TRUE>>, <<0, TRUE>>, <<None, None>>, <<NoMetric, None>> } }
  \cup { AtOverride(First, kernel :> q, w, Measured(2, 1), s[1], s[2]) : w \in {short, long},
      s \in { <<2, TRUE>>, <<0, FALSE>>, <<0, TRUE>>, <<NoMetric, FALSE>>,
              <<2, None>>, <<0, None>>, <<None, None>> } }
  \cup { AtOverride(First, size :> 2, short, Measured(1, 2), s[1], s[2]) :
      s \in { <<2, TRUE>>, <<0, FALSE>>, <<2, None>> } }
  \cup { AtBaseline(Second, short, Measured(2, 1), s, TRUE) : s \in {0, 2} }

GatedSets == { records \in SeqsOf(Gated, 1 .. 3) : Recordable(records) }

Ask(sets, stat, gate, inspect) ==
  { [branches |-> << First, Second >>, slo |-> TRUE, gate |-> gate, records |-> records,
     branch |-> None, stat |-> stat, inspect |-> inspect, out |-> FALSE,
     no_save |-> FALSE] : records \in sets }

\* Every combination of the other options, over a few result sets.
Options ==
  { [branches |-> << First, Second >>, slo |-> s, gate |-> g, records |-> records,
     branch |-> b, stat |-> "median", inspect |-> i, out |-> o, no_save |-> n] :
      s \in BOOLEAN, g \in BOOLEAN, b \in {b1, b2, prec}, i \in BOOLEAN,
      o \in BOOLEAN, n \in BOOLEAN,
      records \in { r \in SeqsOf(Gated, {2}) : /\ Recordable(r)
                                               /\ r[1].branch = b2
                                               /\ r[2].workload = short } }

MCRequests ==
  Ask(Performance(Ordinary, {short, long}), "median", FALSE, FALSE)
    \cup Ask(Performance({Measured(2, 2), Measured(2, 1)}, {short, long, wide}),
             "median", FALSE, FALSE)
    \cup Ask(Performance(OddMetrics, {short, long}), "median", FALSE, FALSE)
    \cup Ask(Performance(OddMetrics, {short}), "mean", FALSE, FALSE)
    \cup Ask(Compared(Ordinary), "median", FALSE, FALSE)
    \cup Ask(Measurements("bench_one_batch_server", OneBatchPasses), "median", FALSE, FALSE)
    \cup Ask(Measurements("bench_serving", ServingPasses), "mean", FALSE, FALSE)
    \cup Ask(TwoLengths, "median", FALSE, FALSE)
    \cup Ask(GatedSets, "median", TRUE, FALSE)
    \cup Ask(GatedSets, "median", TRUE, TRUE)
    \cup Options
=============================================================================
