----------------------------- MODULE RecordGate -----------------------------
(***************************************************************************)
(* The accuracy gate over recorded measurements, as the frontier, its      *)
(* inspection view and the generator command read it (objective.py and     *)
(* generate.py of src/sglbench/argsearch): the reference of a branch, the  *)
(* verdict on a record, and the focused-grid pins that failed.             *)
(***************************************************************************)
EXTENDS Generate

CONSTANTS Accuracies, NoMetric, Tolerance, HigherBetter

INSTANCE QualityGate

\* Mutant of BranchBaselineScore: any branch's baseline.
AnyBaselineScore(records, name) ==
  LET baselines == Those(records, LAMBDA r : r.config_label = BaselineLabel)
  IN IF baselines = << >> THEN None ELSE ScoreOf(baselines[1].accuracy)

\* The first record of the branch's baseline decides, scored or not.
BranchBaselineScore(records, name) ==
  LET baselines == Those(records, LAMBDA r : /\ r.branch = name
                                                 /\ r.config_label = BaselineLabel)
  IN IF baselines = << >> THEN None ELSE ScoreOf(baselines[1].accuracy)

\* gate_baseline_score; `gate` is whether a quality gate is defined.
GateBaselineScore(records, name, gate) ==
  IF gate THEN BranchBaselineScore(records, name) ELSE None

\* A stamped verdict is trusted, else the score is compared again.
RecordQualityPass(record, reference) ==
  IF record.quality_pass \in BOOLEAN
    THEN record.quality_pass
    ELSE Passes(ScoreOf(record.accuracy), reference)

PassesQualityGate(record, gate, reference) == gate => RecordQualityPass(record, reference)

\* Mutant of FailedPins: the pins are looked up as one configuration.
FailedPinsJointly(branch, records, reference) ==
  LET last == SelectLastInSeq(records, LAMBDA r :
                r.config_hash = Assemble(branch, branch.focused_grid.pins))
  IN IF last > 0 /\ ~RecordQualityPass(records[last], reference)
       THEN DOMAIN branch.focused_grid.pins ELSE {}

\* The pins whose OFAT configuration failed, by its last record.
FailedPins(branch, records, reference) ==
  { arg \in DOMAIN branch.focused_grid.pins :
      LET hash == Assemble(branch, Single(arg, branch.focused_grid.pins[arg]))
          last == SelectLastInSeq(records, LAMBDA r : r.config_hash = hash)
      IN last > 0 /\ ~RecordQualityPass(records[last], reference) }

GateFailedPins(branch, records) ==
  IF branch.focused_grid = None THEN {}
  ELSE FailedPins(branch, records, BranchBaselineScore(records, branch.name))

\* The pins the generator command refuses a grid for: it hands over all the
\* records, of every branch.
Offenders(branch, records, gate) == IF gate THEN GateFailedPins(branch, records) ELSE {}
=============================================================================
