------------------------------ MODULE MCDriver ------------------------------
(* Small instances of Driver: three configurations, two workload points.     *)
EXTENDS Driver

CONSTANTS c0, x, y, baseline, other, b1, w1, w2

MCConfigs == {c0, x, y}
MCLabels == {baseline, other}
MCBranches == {b1}
MCWorkloads == {w1, w2}
MCAccuracies == {0, 1, 2, NoMetric}

Point(h) == [hash |-> h, label |-> IF h = c0 THEN baseline ELSE other,
             branch |-> b1]

\* Orders the generators produce (OFAT: the baseline first; a grid: no
\* baseline label at all), and one where --only-config dropped the baseline.
PointLists ==
  { << Point(c0), Point(x), Point(y) >>,
    << [Point(c0) EXCEPT !.label = other], Point(x) >>,
    << Point(x) >> }

\* What an earlier run can have left behind, whole configurations and parts.
Skips ==
  { {}, {<<c0, w1>>}, {c0} \X {w1, w2}, {<<c0, w2>>, <<x, w1>>},
    {c0, x} \X {w1, w2}, {c0, x, y} \X {w1, w2} }

MCCalls ==
  [points : PointLists, workload : {<<w1>>, <<w1, w2>>}, skip : Skips,
   gate : BOOLEAN, evaluate_hashes : {MCConfigs, {c0, y}, {c0, x}}]
=============================================================================
