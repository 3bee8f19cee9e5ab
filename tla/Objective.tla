----------------------------- MODULE Objective ------------------------------
(***************************************************************************)
(* argsearch-frontier (src/sglbench/argsearch/objective.py, with metrics.py *)
(* and the SLO of schema.py): which recorded measurements are eligible,    *)
(* the Pareto frontier of each branch, and what is saved as acceptable.    *)
(*                                                                         *)
(* A record is [config_hash, branch, config_label, workload, metrics,      *)
(* accuracy, quality_pass] and, for the properties, the passes it was      *)
(* aggregated from (None when it was not measured by this program); a      *)
(* workload is <<isl, osl, concurrency>>.  A metric is aggregated, a       *)
(* function from statistics to numbers; a raw number reads as itself under *)
(* each of them.  TTFT, which is displayed and saved and never compared,   *)
(* is left out of the entries.                                             *)
(***************************************************************************)
EXTENDS RecordGate, Bench

CONSTANTS
  PerTokenMs,  \* SLO.per_token_ms
  Overrides,   \* SLO.overrides: a sequence of [isl, osl, per_token_ms]
  Requests     \* the command lines considered, with the files they name

PER_TOKEN_KEYS == <<"per_token_p95_ms", "per_token_ms">>

THROUGHPUT_KEYS ==
  <<"decode_throughput_tok_s", "output_throughput_tok_s", "overall_throughput_tok_s">>

\* Mutant of MetricValue: a metric has the statistic asked for or no value.
StatOnly(metrics, key, stat) ==
  IF key \in DOMAIN metrics THEN Get(metrics[key], stat) ELSE None

\* metric_value: the statistic asked for, else the mean.
MetricValue(metrics, key, stat) ==
  IF key \notin DOMAIN metrics THEN None
  ELSE IF stat \in DOMAIN metrics[key] THEN metrics[key][stat]
  ELSE Get(metrics[key], "mean")

\* The first of the keys that has a value.
SelectMetric(metrics, keys, stat) ==
  LET present == Those(keys, LAMBDA k : MetricValue(metrics, k, stat) # None)
  IN IF present = << >> THEN None ELSE MetricValue(metrics, present[1], stat)

\* SLO.gate_per_token_ms: the first override of the pair decides, and one that
\* sets no bound inherits the global one.
GatePerTokenMs(workload) ==
  LET matching == Those(Overrides, LAMBDA o :
                    o.isl = workload[1] /\ o.osl = workload[2])
  IN IF matching = << >> \/ matching[1].per_token_ms = None
       THEN PerTokenMs
       ELSE matching[1].per_token_ms

PassesSLO(record, stat) ==
  LET perToken == SelectMetric(record.metrics, PER_TOKEN_KEYS, stat)
  IN perToken # None /\ perToken <= GatePerTokenMs(record.workload)

-----------------------------------------------------------------------------
(* The frontier *)

\* to_entry returns None without both metrics.
HasEntry(record, stat) ==
  /\ SelectMetric(record.metrics, THROUGHPUT_KEYS, stat) # None
  /\ SelectMetric(record.metrics, PER_TOKEN_KEYS, stat) # None

ToEntry(record, stat) ==
  [config_hash |-> record.config_hash, branch |-> record.branch,
   label |-> record.config_label, workload |-> record.workload,
   context_length |-> record.workload[1] + record.workload[2],
   throughput |-> SelectMetric(record.metrics, THROUGHPUT_KEYS, stat),
   per_token_ms |-> SelectMetric(record.metrics, PER_TOKEN_KEYS, stat),
   accuracy |-> record.accuracy, quality_pass |-> record.quality_pass]

\* Mutant of Dominates: equal entries dominate one another.
NoWorse(a, b) == a.throughput >= b.throughput /\ a.per_token_ms <= b.per_token_ms

\* No worse on both axes, better on one.
Dominates(a, b) ==
  /\ a.throughput >= b.throughput /\ a.per_token_ms <= b.per_token_ms
  /\ a.throughput > b.throughput \/ a.per_token_ms < b.per_token_ms

ParetoFrontier(entries) ==
  Where(entries, [n \in DOMAIN entries |->
          \A k \in DOMAIN entries \ {n} : ~Dominates(entries[k], entries[n])])

\* The sort key of the frontier: throughput, then latency.
Ahead(a, b) ==
  \/ a.throughput > b.throughput
  \/ a.throughput = b.throughput /\ a.per_token_ms < b.per_token_ms

\* An entry in its place: behind those that are ahead of it or equal to it.
Placed(ranked, entry) ==
  Those(ranked, LAMBDA e : ~Ahead(entry, e)) \o << entry >>
    \o Those(ranked, LAMBDA e : Ahead(entry, e))

\* sorted: equal entries stay as they were.
Ranked(entries) ==
  LET ranked[n \in 0 .. Len(entries)] ==
        IF n = 0 THEN << >> ELSE Placed(ranked[n - 1], entries[n])
  IN ranked[Len(entries)]

\* The eligible entries of a branch and its ranked frontier.
BuildFrontier(records, name, stat, gate) ==
  LET reference == GateBaselineScore(records, name, gate)
      selected  == Those(records, LAMBDA r : /\ r.branch = name
                                             /\ PassesSLO(r, stat)
                                             /\ PassesQualityGate(r, gate, reference)
                                             /\ HasEntry(r, stat))
      entries   == [n \in DOMAIN selected |-> ToEntry(selected[n], stat)]
  IN [entries |-> entries, frontier |-> Ranked(ParetoFrontier(entries))]

\* Mutant of GateStatus: what was not measured is not held against an entry.
GateStatusLenient(entry, gate, reference) ==
  IF gate /\ entry.quality_pass = FALSE THEN "FAIL" ELSE "PASS"

\* The verdict shown beside an entry of the inspection view.
GateStatus(entry, gate, reference) ==
  LET score == ScoreOf(entry.accuracy)
      Word(passes) == IF passes THEN "PASS" ELSE "FAIL"
  IN IF ~gate THEN "n-a"
     ELSE IF entry.quality_pass \in BOOLEAN THEN Word(entry.quality_pass)
     ELSE IF score = None \/ reference = None THEN "n-a"
     ELSE Word(Passes(score, reference))

-----------------------------------------------------------------------------
(* The command.  A request is the command line with the files it names:    *)
(* [branches, slo, gate] of the configuration, the records of the results, *)
(* and the options branch, stat, inspect, out (given or not) and no_save.  *)

ASSUME RecordsMeant ==
  /\ None \notin Accuracies /\ None \notin BOOLEAN /\ None \notin Int
  /\ PerTokenMs \in Int /\ Accuracies \ {NoMetric} \subseteq Int /\ Tolerance \in Int
  /\ IsList(Overrides)
  /\ \A o \in Range(Overrides) : o.per_token_ms # None => o.per_token_ms \in Int
  /\ \A req \in Requests :
       /\ DOMAIN req = {"branches", "slo", "gate", "records", "branch", "stat", "inspect",
                        "out", "no_save"}
       /\ IsList(req.branches) /\ IsList(req.records)
       /\ \A b \in Range(req.branches) : DeclaresLists(b)
       /\ \A r \in Range(req.records) :
            /\ r.quality_pass \in BOOLEAN \cup {None}
            /\ r.workload \in Seq(Int) /\ Len(r.workload) = 3
            /\ \A key \in DOMAIN r.metrics : \A stat \in DOMAIN r.metrics[key] :
                 r.metrics[key][stat] \in Int

\* A record with its passes was measured by this program: each pass printed
\* lines of numbers, under whatever keys, and there was somebody to serve.
MeasuredHere(r) ==
  /\ IsList(r.passes) /\ r.passes # << >>
  /\ \A pass \in Range(r.passes) :
       /\ IsList(pass) /\ pass # << >>
       /\ \A line \in Range(pass) : \A key \in DOMAIN line : line[key] \in Int
  /\ r.workload[3] > 0
  /\ r.metrics = MeasuredMetrics(r.tool, r.passes, r.workload)

ASSUME PassesMeant ==
  \A req \in Requests : \A r \in Range(req.records) : r.passes # None => MeasuredHere(r)

VARIABLES
  request,
  phase,        \* "start", "rank", "refused", "raised", "done"
  todo,         \* the branches to rank, by name
  reports,      \* what was reported of each branch ranked
  all_frontier, \* the entries to save
  saved         \* the saved file, None if it was not written

vars == <<request, phase, todo, reports, all_frontier, saved>>

BranchNames(req) ==
  IF req.branch # None THEN << req.branch >>
  ELSE [n \in DOMAIN req.branches |-> req.branches[n].name]

\* Mutant of EffectiveGate: the inspection view's in every case.
NoEffectiveGate(req) == FALSE

\* An inspection ignores the gate when it builds the frontier.
EffectiveGate(req) == req.gate /\ ~req.inspect

BranchNamed(req, name) ==
  CHOOSE b \in Range(req.branches) : b.name = name

\* SearchConfig.branch raises for a name the configuration does not have.
Known(req, name) == \E b \in Range(req.branches) : b.name = name

\* What main reports of a branch.
Report(req, name) ==
  LET inScope   == Those(req.records, LAMBDA r : r.branch = name)
      reference == GateBaselineScore(req.records, name, req.gate)
      built     == BuildFrontier(req.records, name, req.stat, EffectiveGate(req))
      sloOnly   == Those(inScope, LAMBDA r : PassesSLO(r, req.stat))
  IN [branch    |-> name,
      entries   |-> built.entries,
      frontier  |-> built.frontier,
      slo_only  |-> sloOnly,
      excluded  |-> Those(sloOnly, LAMBDA r :
                      ~PassesQualityGate(r, req.gate, reference)),
      statuses  |-> IF req.inspect
                      THEN [n \in DOMAIN built.frontier |->
                              GateStatus(built.frontier[n], req.gate, reference)]
                      ELSE << >>,
      bad_pins  |-> IF EffectiveGate(req)
                      THEN GateFailedPins(BranchNamed(req, name), inScope)
                      ELSE {}]

Init ==
  /\ request \in Requests
  /\ phase = "start"
  /\ todo = << >>
  /\ reports = << >>
  /\ all_frontier = << >>
  /\ saved = None

\* An inspection with an output file, or a configuration without an SLO.
Refuse ==
  /\ phase = "start"
  /\ (request.inspect /\ request.out) \/ ~request.slo
  /\ phase' = "refused"
  /\ UNCHANGED <<request, todo, reports, all_frontier, saved>>

Begin ==
  /\ phase = "start"
  /\ ~(request.inspect /\ request.out)
  /\ request.slo
  /\ phase' = "rank"
  /\ todo' = BranchNames(request)
  /\ UNCHANGED <<request, reports, all_frontier, saved>>

\* One turn of the loop over the branches; an inspection only prints.
RankBranch ==
  /\ phase = "rank"
  /\ todo # << >>
  /\ EffectiveGate(request) => Known(request, Head(todo))
  /\ LET report == Report(request, Head(todo))
     IN /\ reports' = Append(reports, report)
        /\ all_frontier' = IF request.inspect THEN all_frontier
                           ELSE all_frontier \o report.frontier
  /\ todo' = Tail(todo)
  /\ UNCHANGED <<request, phase, saved>>

\* The pins of an unknown branch are asked for: KeyError.
UnknownBranch ==
  /\ phase = "rank"
  /\ todo # << >>
  /\ EffectiveGate(request) /\ ~Known(request, Head(todo))
  /\ phase' = "raised"
  /\ UNCHANGED <<request, todo, reports, all_frontier, saved>>

\* Printed only.
PrintOnly ==
  /\ phase = "rank"
  /\ todo = << >>
  /\ request.inspect \/ request.no_save
  /\ phase' = "done"
  /\ UNCHANGED <<request, todo, reports, all_frontier, saved>>

\* write_frontier
Save ==
  /\ phase = "rank"
  /\ todo = << >>
  /\ ~request.inspect /\ ~request.no_save
  /\ saved' = all_frontier
  /\ phase' = "done"
  /\ UNCHANGED <<request, todo, reports, all_frontier>>

Next == Refuse \/ Begin \/ RankBranch \/ UnknownBranch \/ PrintOnly \/ Save

Spec == Init /\ [][Next]_vars

-----------------------------------------------------------------------------
(* Properties *)

\* What the gate should say of a record, from its own branch: its verdict, or
\* without one its score against the first baseline record's.
ClearsGate(r) ==
  \/ r.quality_pass = TRUE
  \/ /\ r.quality_pass = None
     /\ \E n \in DOMAIN request.records :
          LET b == request.records[n]
          IN /\ b.branch = r.branch /\ b.config_label = BaselineLabel
             /\ \A k \in 1 .. n - 1 :
                  ~( /\ request.records[k].branch = r.branch
                     /\ request.records[k].config_label = BaselineLabel )
             /\ {b.accuracy, r.accuracy} \subseteq Scores
             /\ Degradation(r.accuracy, b.accuracy) <= Tolerance

\* Nothing is saved that misses the SLO of its workload or fails the gate of
\* its own branch, and an inspection saves nothing.
SavedIsAcceptable ==
  saved # None =>
    /\ ~request.inspect
    /\ \A e \in Range(saved) :
         /\ e.per_token_ms <= GatePerTokenMs(e.workload)
         /\ \E r \in Range(request.records) :
              /\ <<r.branch, r.config_hash, r.workload>> = <<e.branch, e.config_hash, e.workload>>
              /\ request.gate => ClearsGate(r)

\* Every eligible entry has one on the frontier that is as good on both axes,
\* itself or one that beats it, and no entry of the frontier beats another:
\* equal entries do not remove each other.  Down the ranking both throughput
\* and latency fall: the rank is an order on both axes.
FrontierCovers ==
  \A report \in Range(reports) :
    /\ \A e \in Range(report.entries) : \E f \in Range(report.frontier) :
         f.throughput >= e.throughput /\ f.per_token_ms <= e.per_token_ms
    /\ \A e, f \in Range(report.frontier) :
         f.throughput > e.throughput <=> f.per_token_ms > e.per_token_ms
    /\ \A n \in DOMAIN report.frontier : \A k \in 1 .. n :
         report.frontier[k].throughput >= report.frontier[n].throughput

\* What is reported of a branch is what would be reported if no other branch
\* had been measured: neither its gate, its frontier nor its pins see them.
BranchesApart ==
  \A report \in Range(reports) :
    report = Report([request EXCEPT !.records =
                       Those(@, LAMBDA r : r.branch = report.branch)], report.branch)

\* A record that meets the SLO and has a decode rate, under the statistic asked
\* for or as a mean, is eligible or reported as excluded by the gate, never
\* neither and never both.
NothingUnaccounted ==
  ~request.inspect =>
    \A report \in Range(reports) : \A r \in Range(report.slo_only) :
      LET measured ==
            /\ "decode_throughput_tok_s" \in DOMAIN r.metrics
            /\ {request.stat, "mean"} \cap DOMAIN r.metrics["decode_throughput_tok_s"] # {}
          eligible == \E e \in Range(report.entries) :
            e.config_hash = r.config_hash /\ e.workload = r.workload
      IN measured => (eligible <=> r \notin Range(report.excluded))

\* The inspection view does not contradict the acceptable results: the entries
\* it marks PASS are those that clear the gate, and each of them is on the
\* acceptable frontier too.
InspectionAgrees ==
  request.inspect /\ request.gate =>
    \A report \in Range(reports) : \A n \in DOMAIN report.frontier :
      LET acceptable == BuildFrontier(request.records, report.branch, request.stat, TRUE)
          e == report.frontier[n]
      IN IF report.statuses[n] = "PASS" THEN e \in Range(acceptable.frontier)
                                        ELSE e \notin Range(acceptable.entries)

\* A pin all of whose OFAT records fail the gate is refused, and one none of
\* whose records fails is not, each pin by itself; and the generator command,
\* which reads the records of every branch, refuses the same pins as the
\* frontier reports, unless another branch measured the configuration of a pin.
PinsJudged ==
  \A report \in Range(reports) :
    EffectiveGate(request) /\ BranchNamed(request, report.branch).focused_grid # None =>
      LET branch == BranchNamed(request, report.branch)
          Own(arg) == { r \in Range(request.records) :
                          /\ r.branch = branch.name
                          /\ r.config_hash = Assemble(branch,
                                 Single(arg, branch.focused_grid.pins[arg])) }
          apart == \A r \in Range(request.records) : \A arg \in DOMAIN branch.focused_grid.pins :
                     r.config_hash = Assemble(branch, Single(arg, branch.focused_grid.pins[arg]))
                       => r.branch = branch.name
      IN /\ \A arg \in DOMAIN branch.focused_grid.pins :
              /\ Own(arg) # {} /\ (\A r \in Own(arg) : ~ClearsGate(r))
                   => arg \in report.bad_pins
              /\ (\A r \in Own(arg) : ClearsGate(r)) => arg \notin report.bad_pins
         /\ apart => report.bad_pins = Offenders(branch, request.records, request.gate)

Within(v, S) == Min(S) <= v /\ v <= Max(S)

\* Where in a pass the record's own workload point is reported.
OfPoint(r, n) == { k \in DOMAIN r.passes[n] : MatchesPoint(r.passes[n][k], r.workload) }

\* The line of a pass that speaks for the point: the last of the point; for
\* bench_serving, whose lines carry no point, the last.
LineOf(r, n) ==
  LET lines == r.passes[n]
  IN lines[IF r.tool = "bench_serving" THEN Len(lines) ELSE Max(OfPoint(r, n))]

\* Every pass has such a line, with the decode rate or the latency in it.
PointMeasured(r) ==
  \A n \in DOMAIN r.passes :
    IF r.tool = "bench_serving"
      THEN Positive(LineOf(r, n), "median_itl_ms")
      ELSE OfPoint(r, n) # {} /\ Positive(LineOf(r, n), "last_gen_throughput")

\* The numbers that place a record lie between what its passes reported.
Bracketed(r, throughput, perToken) ==
  LET used  == { LineOf(r, n) : n \in DOMAIN r.passes }
      batch == r.workload[3]
  IN IF r.tool = "bench_serving"
       THEN /\ Within(throughput, { (1000 * batch) \div l.median_itl_ms : l \in used })
            /\ Within(perToken,
                 IF \A l \in used : "p95_itl_ms" \in DOMAIN l
                   THEN { l.p95_itl_ms : l \in used } ELSE { l.median_itl_ms : l \in used })
       ELSE /\ Within(throughput, { l.last_gen_throughput : l \in used })
            /\ Within(perToken, { (1000 * batch) \div l.last_gen_throughput : l \in used })

\* What places a record on the frontier, when every pass reported the decode
\* rate of the record's own workload point, lies between what they reported:
\* that rate and the latency that goes with it; for the serving benchmark the
\* rate that follows from the median inter-token latency, and the p95 where
\* every pass has it.  No line of another point and no averaged rate decides,
\* wherever they stand in the output.  (Of passes without such a line nothing
\* is asked: the parser falls back to the last line, and to the averaged rate.)
MetricsBracketed ==
  \A report \in Range(reports) : \A e \in Range(report.entries) :
    \A r \in { q \in Range(request.records) :
                 /\ <<q.branch, q.config_hash, q.workload>> = <<e.branch, e.config_hash, e.workload>>
                 /\ q.passes # None /\ PointMeasured(q) } :
      Bracketed(r, e.throughput, e.per_token_ms)

-----------------------------------------------------------------------------
(* What the documents say and the code does not do *)

\* The metrics the entry was made of have a decode rate.
DecodeRated(e) ==
  \E r \in Range(request.records) :
    /\ <<r.branch, r.config_hash, r.workload>> = <<e.branch, e.config_hash, e.workload>>
    /\ "decode_throughput_tok_s" \in DOMAIN r.metrics

\* RFC-0001 C-OBJECTIVE: the throughput "MUST NOT be a throughput averaged over
\* an output sequence", and "measurements are compared only at equivalent
\* sequence positions".  Were either of the two respected, an entry that has a
\* decode rate would be kept off the frontier by another that has one, or by
\* one of its own context length.  Asked of result sets all of whose records
\* were measured by this program.
ComparedLikeForLike ==
  (\A r \in Range(request.records) : r.passes # None) =>
    \A report \in Range(reports) :
      \A e \in Range(report.entries) \ Range(report.frontier) :
        DecodeRated(e) =>
          \E f \in Range(report.entries) :
            /\ Dominates(f, e)
            /\ DecodeRated(f) \/ f.context_length = e.context_length
=============================================================================
