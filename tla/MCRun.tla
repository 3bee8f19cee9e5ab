------------------------------- MODULE MCRun --------------------------------
(* One branch with an accuracy-invariant size of three values, and one whose   *)
(* kernel is accuracy-active.                                                  *)
EXTENDS Run

CONSTANTS size, kernel, p, q, b1, b2, w1, w2

Sizes ==
  [name |-> b1, fixed |-> << >>, baseline |-> size :> 1, constraints |-> {},
   candidate |-> << [name |-> size, values |-> <<1, 2, 4>>, accuracy_invariant |-> TRUE] >>,
   focused_grid |-> None]

Kernels ==
  [name |-> b2, fixed |-> << >>, baseline |-> kernel :> p, constraints |-> {},
   candidate |-> << [name |-> kernel, values |-> <<p, q>>, accuracy_invariant |-> FALSE] >>,
   focused_grid |-> [args |-> <<kernel>>, pins |-> << >>]]

Ask(branch, mode, limit, workload, gate, force) ==
  [branch |-> branch, mode |-> mode, only |-> None, limit |-> limit,
   workload |-> workload, gate |-> gate, force |-> force]

\* A skipping search, the same without the gate, and re-measurements.
SkipRequests ==
  { Ask(Sizes, "ofat", 0, <<w1>>, TRUE, FALSE),
    Ask(Sizes, "ofat", 2, <<w1>>, FALSE, FALSE),
    Ask(Sizes, "ofat", 0, <<w1>>, TRUE, TRUE) }

\* A search extended by a workload point, gated per configuration.
ExtendRequests ==
  { Ask(Kernels, "ofat", 0, <<w1>>, TRUE, FALSE),
    Ask(Kernels, "ofat", 0, <<w1, w2>>, TRUE, FALSE),
    Ask(Kernels, "ofat", 0, <<w2>>, TRUE, TRUE) }

AllRequests == SkipRequests \cup ExtendRequests

MCConfigs == { size :> 1, size :> 2, size :> 4, kernel :> p, kernel :> q }

MCLabels ==
  { BaselineLabel } \cup { OverrideLabel(c) : c \in MCConfigs }
    \cup { SpotLabel(c) : c \in MCConfigs \cup {NoArgs} }
=============================================================================
