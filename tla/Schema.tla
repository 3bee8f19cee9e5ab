------------------------------- MODULE Schema -------------------------------
(***************************************************************************)
(* The search configuration of src/sglbench/argsearch/schema.py: arguments *)
(* and their values, illegal-combination rules, and the checks a branch    *)
(* passes before anything is generated from it.                            *)
(*                                                                         *)
(* A dict is a function whose domain is the keys present.  A value is an   *)
(* integer or a model value (a string, a bool, null): _key pairs a value   *)
(* with its type so that True, 1 and "1" stay apart, which model values    *)
(* and integers do already.                                                *)
(***************************************************************************)
EXTENDS Integers, Sequences, FiniteSets, SequencesExt

CONSTANTS
  None,                  \* what dict.get returns for a key that is absent
  SPEC_DECODE_ARGS,      \* speculative-decode arguments, out of scope
  WEIGHT_PRECISION_ARGS, \* arguments that define the checkpoint
  MAX_CANDIDATES         \* most candidates of a branch

\* A dict of one entry, and dict.update: what the second has, it has.
Single(k, v) == [key \in {k} |-> v]

Updated(dict, with) ==
  [k \in DOMAIN dict \cup DOMAIN with |-> IF k \in DOMAIN with THEN with[k] ELSE dict[k]]

Get(dict, k) == IF k \in DOMAIN dict THEN dict[k] ELSE None

\* A branch is [name, fixed, candidate, constraints, baseline, focused_grid]:
\*   candidate     a sequence of [name, values, accuracy_invariant]
\*   constraints   a set of [when, forbid, require], dicts of sets of values
\*   focused_grid  None or [args, pins]
IsList(seq) == seq \in Seq(Range(seq))

DeclaresLists(branch) ==
  /\ IsList(branch.candidate)
  /\ \A c \in Range(branch.candidate) : IsList(c.values)
  /\ branch.focused_grid # None => IsList(branch.focused_grid.args)

CandidateNames(branch) == { c.name : c \in Range(branch.candidate) }

ValuesOf(branch, name) ==
  UNION { Range(c.values) : c \in { d \in Range(branch.candidate) : d.name = name } }

\* Constraint.violated_by: every `when` clause matches, and a forbidden value
\* is present or a required one is absent.
ViolatedBy(con, config) ==
  /\ \A arg \in DOMAIN con.when : Get(config, arg) \in con.when[arg]
  /\ \/ \E arg \in DOMAIN con.forbid : Get(config, arg) \in con.forbid[arg]
     \/ \E arg \in DOMAIN con.require : Get(config, arg) \notin con.require[arg]

ValidConstraint(con) == DOMAIN con.forbid # {} \/ DOMAIN con.require # {}

ValidCandidate(c) == Len(c.values) > 0 /\ IsInjective(c.values)

MergedBaseline(branch) == Updated(branch.fixed, branch.baseline)

\* FocusedGrid and Branch._validate, the checks on the focused grid.
ValidGrid(branch) ==
  LET fg      == branch.focused_grid
      cand    == CandidateNames(branch)
      gridded == Range(fg.args)
  IN fg # None =>
       /\ Len(fg.args) > 0
       /\ IsInjective(fg.args)
       /\ gridded \subseteq cand
       /\ DOMAIN fg.pins \subseteq cand \ gridded
       /\ \A arg \in DOMAIN fg.pins : fg.pins[arg] \in ValuesOf(branch, arg)
       /\ cand \subseteq gridded \cup DOMAIN fg.pins

\* The validators of Branch, CandidateArg and Constraint: a branch that fails
\* one is refused when the configuration is loaded.
ValidBranch(branch) ==
  LET cand     == CandidateNames(branch)
      declared == cand \cup DOMAIN branch.fixed
  IN /\ \A n \in DOMAIN branch.candidate : ValidCandidate(branch.candidate[n])
     /\ \A con \in branch.constraints : ValidConstraint(con)
     /\ Cardinality(cand) = Len(branch.candidate)
     /\ Len(branch.candidate) <= MAX_CANDIDATES
     /\ cand \cap DOMAIN branch.fixed = {}
     /\ declared \cap SPEC_DECODE_ARGS = {}
     /\ cand \cap WEIGHT_PRECISION_ARGS = {}
     /\ DOMAIN branch.baseline = cand
     /\ \A arg \in cand : branch.baseline[arg] \in ValuesOf(branch, arg)
     /\ ValidGrid(branch)
     /\ \A con \in branch.constraints :
          DOMAIN con.when \cup DOMAIN con.forbid \cup DOMAIN con.require
            \subseteq declared
     /\ \A con \in branch.constraints : ~ViolatedBy(con, MergedBaseline(branch))
=============================================================================
