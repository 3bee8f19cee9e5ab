------------------------------ MODULE Planning ------------------------------
(***************************************************************************)
(* What run.py makes of a request before it touches the disk or a server:  *)
(* the branch is validated, the configurations and workload points are     *)
(* selected, and when only accuracy-invariant arguments vary the list is   *)
(* rebuilt around the baseline and a spot-check so that nothing else is    *)
(* evaluated.                                                              *)
(*                                                                         *)
(* A request is [branch, mode, only, limit, gate, work]: `only` is None or *)
(* the labels of the points the --only-config substring matches, `work`    *)
(* what selects the workload.                                              *)
(***************************************************************************)
EXTENDS Generate

Truncate(seq, limit) == IF limit > 0 THEN SubSeq(seq, 1, Min({limit, Len(seq)}))
                                     ELSE seq

SelectPoints(branch, mode, only, limit) ==
  LET points == IF mode = "ofat" THEN GenerateOfat(branch) ELSE GenerateGrid(branch)
      kept   == IF only = None THEN points
                ELSE Where(points, [n \in DOMAIN points |-> points[n].label \in only])
  IN Truncate(kept, limit)

\* Every selected configuration is evaluated, or no gate is active.
PerConfigPlan(points) ==
  [points |-> points, skipped |-> FALSE, spot |-> None,
   evaluate_hashes |-> { p.hash : p \in Range(points) }]

\* Mutant of Others: a selected baseline is launched a second time.
AllOfThem(points, base) == points

Others(points, base) ==
  Where(points, [n \in DOMAIN points |-> points[n].hash # base.hash])

\* The baseline first, then the selected points, then the spot-check unless a
\* point has its hash already; only baseline and spot-check are evaluated.
SkippingPlan(branch, points, spot) ==
  LET base == BaselinePoint(branch)
  IN [points |-> AddNew(<< base >> \o Others(points, base), spot),
      skipped |-> TRUE, spot |-> spot,
      evaluate_hashes |-> {base.hash, spot.hash}]

Plan(branch, points, gate) ==
  LET spot == SpotCheckPoint(branch, points)
  IN IF gate /\ AccuracyInvariantSearch(branch, points) /\ spot # None
       THEN SkippingPlan(branch, points, spot)
       ELSE PerConfigPlan(points)

-----------------------------------------------------------------------------
(* The workload: axes are [isl_osl_pairs, report_isl_osl_pairs,            *)
(* concurrency], a point of it <<pair, concurrency>>.                      *)

\* workload_points: every pair of the role with every concurrency, the
\* concurrency varying fastest.
WorkloadPoints(axes, role) ==
  LET pairs == IF role = "report" THEN axes.report_isl_osl_pairs ELSE axes.isl_osl_pairs
  IN FlattenSeq([n \in DOMAIN pairs |->
       [m \in DOMAIN axes.concurrency |-> <<pairs[n], axes.concurrency[m]>>]])

\* Mutant of PairsKey: the override is always put where the iter role looks.
IterKey(role) == "isl_osl_pairs"

PairsKey(role) == IF role = "report" THEN "report_isl_osl_pairs" ELSE "isl_osl_pairs"

\* select_workload: what the command line gives stands in for an axis.
SelectWorkload(axes, role, concurrency, isl_osl, limit) ==
  LET Given(key, axis) == IF axis = None THEN << >> ELSE Single(key, axis)
      used == Updated(Updated(axes, Given("concurrency", concurrency)),
                      Given(PairsKey(role), isl_osl))
  IN Truncate(WorkloadPoints(used, role), limit)
=============================================================================
