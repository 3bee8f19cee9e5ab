-------------------------------- MODULE Bench --------------------------------
(***************************************************************************)
(* From the output of a benchmark to the metrics of a record: the parsers  *)
(* of src/sglbench/argsearch/sglang_adapter.py for bench_one_batch_server  *)
(* and bench_serving, and the aggregation over the measured passes in      *)
(* measure.py.                                                             *)
(*                                                                         *)
(* A line of output is a function from the keys it has to numbers, a pass  *)
(* the sequence of its lines, never empty: a benchmark that prints no      *)
(* result raises.  A workload point is <<isl, osl, concurrency>>.  Numbers *)
(* are integers and a quotient is truncated; the instances choose rates    *)
(* that divide.                                                            *)
(***************************************************************************)
EXTENDS Schema, FiniteSetsExt, Functions

Positive(line, key) == key \in DOMAIN line /\ line[key] > 0

MatchesPoint(line, point) ==
  /\ {"batch_size", "input_len", "output_len"} \subseteq DOMAIN line
  /\ <<line.input_len, line.output_len, line.batch_size>> = point

\* Mutant of ResultLine: the last line, whatever point it is of.
LastLine(lines, point) == Last(lines)

\* parse_result_jsonl: the last line of the point, else the last line.
ResultLine(lines, point) ==
  LET last == SelectLastInSeq(lines, LAMBDA l : MatchesPoint(l, point))
  IN IF last > 0 THEN lines[last] ELSE Last(lines)

\* The metrics that have a value.
Present(values) == [metric \in { m \in DOMAIN values : values[m] # None } |-> values[metric]]

When(condition, value) == IF condition THEN value ELSE None

\* record_to_metrics
RecordToMetrics(line) ==
  LET batch  == IF Get(line, "batch_size") \in {None, 0} THEN 1 ELSE line.batch_size
      tail   == Positive(line, "last_gen_throughput")
      rated  == tail \/ Positive(line, "output_throughput")
      decode == IF tail THEN line.last_gen_throughput ELSE line.output_throughput
  IN Present([decode_throughput_tok_s  |-> When(tail, decode),
              per_token_ms             |-> When(rated, (1000 * batch) \div decode),
              ttft_ms                  |-> When("last_ttft" \in DOMAIN line, 1000 * line.last_ttft),
              output_throughput_tok_s  |-> Get(line, "output_throughput"),
              overall_throughput_tok_s |-> Get(line, "overall_throughput"),
              input_throughput_tok_s   |-> Get(line, "input_throughput"),
              e2e_latency_s            |-> Get(line, "latency")])

\* parse_serving_metrics: the last line; the rate follows from the latency.
ParseServing(lines, point) ==
  LET line == Last(lines)
      itl  == Positive(line, "median_itl_ms")
  IN Present([per_token_ms            |-> When(itl, line.median_itl_ms),
              decode_throughput_tok_s |-> When(itl, (1000 * point[3]) \div line.median_itl_ms),
              per_token_p95_ms        |-> Get(line, "p95_itl_ms"),
              ttft_ms                 |-> Get(line, "median_ttft_ms"),
              output_throughput_tok_s |-> Get(line, "output_throughput")])

\* _parse of the two transports
Parse(tool, lines, point) ==
  IF tool = "bench_serving" THEN ParseServing(lines, point)
                            ELSE RecordToMetrics(ResultLine(lines, point))

\* The k-th of the values in ascending order.
Nth(values, k) ==
  CHOOSE v \in Range(values) :
    /\ Cardinality({ n \in DOMAIN values : values[n] < v }) < k
    /\ Cardinality({ n \in DOMAIN values : values[n] <= v }) >= k

\* statistics.median
Median(values) ==
  LET n == Len(values)
  IN IF n % 2 = 1 THEN Nth(values, (n + 1) \div 2)
                  ELSE (Nth(values, n \div 2) + Nth(values, n \div 2 + 1)) \div 2

Total(values) ==
  LET total[n \in 0 .. Len(values)] == IF n = 0 THEN 0 ELSE total[n - 1] + values[n]
  IN total[Len(values)]

\* _aggregate: the metrics that every pass has.
Aggregate(runs) ==
  LET common == { key \in DOMAIN runs[1] : \A n \in DOMAIN runs : key \in DOMAIN runs[n] }
  IN [key \in common |->
        LET values == [n \in DOMAIN runs |-> runs[n][key]]
        IN [mean   |-> Total(values) \div Len(values),
            median |-> Median(values)]]

\* The metrics measure_point records for the passes of a point.
MeasuredMetrics(tool, passes, point) ==
  Aggregate([n \in DOMAIN passes |-> Parse(tool, passes[n], point)])
=============================================================================
