---------------------------- MODULE QualityGate -----------------------------
(***************************************************************************)
(* The accuracy gate of src/sglbench/argsearch/schema.py: how far a score  *)
(* may fall short of the baseline's.                                       *)
(***************************************************************************)
EXTENDS Integers

CONSTANTS
  Accuracies,   \* what an evaluation can return: scores, or NoMetric
  NoMetric,     \* an evaluation result without the gate's metric
  Tolerance,    \* QualityGate.tolerance
  HigherBetter, \* QualityGate.direction = "higher"
  None          \* Python's None

Scores == Accuracies \ {NoMetric}

\* accuracy.get(gate.metric) if accuracy else None
ScoreOf(accuracy) == IF accuracy \in Scores THEN accuracy ELSE None

Degradation(score, baseline) ==
  IF HigherBetter THEN baseline - score ELSE score - baseline

\* QualityGate.passes: a missing score or baseline fails.
Passes(score, baseline) ==
  /\ score # None
  /\ baseline # None
  /\ Degradation(score, baseline) <= Tolerance
=============================================================================
