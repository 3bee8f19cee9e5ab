------------------------------ MODULE Generate ------------------------------
(***************************************************************************)
(* The configuration generators of src/sglbench/argsearch/generate.py: the *)
(* OFAT sweep, the focused grid, and the baseline and spot-check points of *)
(* a search that skips per-configuration accuracy evaluation.              *)
(*                                                                         *)
(* A generated point is [hash, label, branch].  config_hash is a digest of *)
(* the arguments and nothing else, so the argument dict itself stands for  *)
(* it: two points have one hash exactly when their arguments are equal.    *)
(* A label is what it says: the baseline, the values overridden, or the    *)
(* spot-check with its values.                                             *)
(***************************************************************************)
EXTENDS Schema

BaselineLabel == <<"baseline">>
OverrideLabel(overrides) == <<"args", overrides>>
SpotLabel(overrides) == <<"spot-check", overrides>>

Point(branch, label, args) ==
  [hash |-> args, label |-> label, branch |-> branch.name]

NoArgs == << >>

\* _assemble: overrides over the baseline over the fixed arguments.
Assemble(branch, overrides) == Updated(MergedBaseline(branch), overrides)

IsValid(branch, args) == \A con \in branch.constraints : ~ViolatedBy(con, args)

\* Appends the point unless its hash was seen.
AddNew(points, point) ==
  IF \E p \in Range(points) : p.hash = point.hash THEN points
                                                   ELSE Append(points, point)

BaselinePoint(branch) == Point(branch, BaselineLabel, Assemble(branch, NoArgs))

\* The elements to be kept of a list, in their order: SelectSeq, in a form whose
\* steps can be reasoned about.
Where(seq, kept) ==
  LET list[n \in 0 .. Len(seq)] ==
        IF n = 0 THEN << >>
        ELSE IF kept[n] THEN Append(list[n - 1], seq[n]) ELSE list[n - 1]
  IN list[Len(seq)]

Those(seq, Test(_)) == Where(seq, [n \in DOMAIN seq |-> Test(seq[n])])

\* The loop of both generators over the points they try, in order: of those to
\* be kept, one is appended unless its hash was seen.
Collect(first, tried, kept) ==
  LET points[n \in 0 .. Len(tried)] ==
        IF n = 0 THEN first
        ELSE IF kept[n] THEN AddNew(points[n - 1], tried[n]) ELSE points[n - 1]
  IN points[Len(tried)]

\* The overrides of the two loops of generate_ofat, in their order.
OfatSteps(branch) ==
  FlattenSeq([n \in DOMAIN branch.candidate |->
    [m \in DOMAIN branch.candidate[n].values |->
       Single(branch.candidate[n].name, branch.candidate[n].values[m])]])

OfatPoint(branch, overrides) ==
  Point(branch, OverrideLabel(overrides), Assemble(branch, overrides))

IsBaseline(branch, overrides) ==
  \A arg \in DOMAIN overrides : overrides[arg] = branch.baseline[arg]

\* Mutant of GenerateOfat: illegal combinations stay in.
GenerateOfatUnchecked(branch) ==
  LET steps == OfatSteps(branch)
  IN Collect(<< BaselinePoint(branch) >>,
             [n \in DOMAIN steps |-> OfatPoint(branch, steps[n])],
             [n \in DOMAIN steps |-> ~IsBaseline(branch, steps[n])])

\* One candidate at a time away from the baseline, illegal ones left out.
GenerateOfat(branch) ==
  LET steps == OfatSteps(branch)
  IN Collect(<< BaselinePoint(branch) >>,
             [n \in DOMAIN steps |-> OfatPoint(branch, steps[n])],
             [n \in DOMAIN steps |-> /\ ~IsBaseline(branch, steps[n])
                                     /\ IsValid(branch, Assemble(branch, steps[n]))])

\* Each of the combinations with each of the values for one more name.
Extended(combos, name, values) ==
  FlattenSeq([k \in DOMAIN combos |->
    [m \in DOMAIN values |-> Updated(combos[k], Single(name, values[m]))]])

\* itertools.product of the choices of each name, as overrides: the last name
\* varies fastest.
Product(names, choices) ==
  LET combos[n \in 0 .. Len(names)] ==
        IF n = 0 THEN << NoArgs >> ELSE Extended(combos[n - 1], names[n], choices[n])
  IN combos[Len(names)]

CandidateOf(branch, name) ==
  CHOOSE c \in Range(branch.candidate) : c.name = name

\* The joint sweep of some arguments, the others as pinned.
JointSweep(branch, names, pins) ==
  LET combos  == Product(names, [n \in DOMAIN names |-> CandidateOf(branch, names[n]).values])
      Args(n) == Assemble(branch, Updated(pins, combos[n]))
  IN Collect(<< >>,
             [n \in DOMAIN combos |-> Point(branch, OverrideLabel(combos[n]), Args(n))],
             [n \in DOMAIN combos |-> IsValid(branch, Args(n))])

\* Mutant of GenerateGrid: the pins are not applied.
GenerateGridUnpinned(branch) == JointSweep(branch, branch.focused_grid.args, NoArgs)

\* The pins of the arguments that are not swept themselves.
KeptPins(grid) ==
  [arg \in DOMAIN grid.pins \ Range(grid.args) |-> grid.pins[arg]]

\* The joint sweep of the admitted arguments, the others at their pins.
GenerateGrid(branch) ==
  JointSweep(branch, branch.focused_grid.args, KeptPins(branch.focused_grid))

\* Arguments whose value is not the same in all the points.
VariedArgs(points) ==
  LET Args == UNION { DOMAIN p.hash : p \in Range(points) }
  IN { arg \in Args :
         \E p, q \in Range(points) : Get(p.hash, arg) # Get(q.hash, arg) }

InvariantNames(branch) ==
  { c.name : c \in { d \in Range(branch.candidate) : d.accuracy_invariant } }

\* Mutant of AccuracyInvariantSearch: one invariant candidate is enough.
SomeInvariantVaries(branch, points) ==
  VariedArgs(points) \cap InvariantNames(branch) # {}

\* Whether every candidate that varies across the points is declared invariant.
AccuracyInvariantSearch(branch, points) ==
  VariedArgs(points) \cap CandidateNames(branch) \subseteq InvariantNames(branch)

Distance(v, w) == IF v < w THEN w - v ELSE v - w

\* Mutant of ExtremeChoices: numbers taken in declared order.
DeclaredEndpoints(values, baseline) ==
  LET lo == values[1]
      hi == values[Len(values)]
  IN IF lo = hi THEN <<lo>> ELSE IF lo = baseline THEN <<hi, lo>> ELSE <<lo, hi>>

\* The endpoints of a candidate's range, the furthest from the baseline first:
\* minimum and maximum of numbers, first and last of anything else.
ExtremeChoices(values, baseline) ==
  LET numeric == Range(values) \subseteq Int
      lo == IF numeric THEN Min(Range(values)) ELSE values[1]
      hi == IF numeric THEN Max(Range(values)) ELSE values[Len(values)]
      hiFirst == IF numeric /\ baseline \in Int
                   THEN Distance(hi, baseline) > Distance(lo, baseline)
                   ELSE lo = baseline
  IN IF lo = hi THEN <<lo>> ELSE IF hiFirst THEN <<hi, lo>> ELSE <<lo, hi>>

\* Every varied invariant candidate at an extreme, in a combination that is
\* legal: the first one in the order of Product, or None.
SpotCheckPoint(branch, points) ==
  LET varied == VariedArgs(points) \cap InvariantNames(branch)
      cands  == Where(branch.candidate,
                      [n \in DOMAIN branch.candidate |-> branch.candidate[n].name \in varied])
      combos == Product([n \in DOMAIN cands |-> cands[n].name],
                        [n \in DOMAIN cands |->
                           ExtremeChoices(cands[n].values,
                                          branch.baseline[cands[n].name])])
      legal  == Where(combos,
                      [n \in DOMAIN combos |-> IsValid(branch, Assemble(branch, combos[n]))])
  IN IF varied = {}
       THEN Point(branch, SpotLabel(NoArgs), Assemble(branch, NoArgs))
     ELSE IF legal = << >> THEN None
     ELSE Point(branch, SpotLabel(legal[1]), Assemble(branch, legal[1]))
=============================================================================
