----------------------------- MODULE MCStartup ------------------------------
(* Branches over four candidate arguments: a kernel that is accuracy-active,  *)
(* a size, a width and a switch that are accuracy-invariant, plus malformed    *)
(* branches.                                                                   *)
EXTENDS Startup

CONSTANTS kernel, size, width, switch, prec, spec, weights, b1, b2,
          p, q, off, on, fp8, none

Kernel == [name |-> kernel, values |-> <<p, q>>, accuracy_invariant |-> FALSE]
Size   == [name |-> size, values |-> <<1, 4, 2>>, accuracy_invariant |-> TRUE]
Width  == [name |-> width, values |-> <<1, 2, 4>>, accuracy_invariant |-> TRUE]
Switch == [name |-> switch, values |-> <<off, on>>, accuracy_invariant |-> TRUE]

WellFormed ==
  { <<Kernel, Size>>, <<Size, Switch>>, <<Kernel, Switch, Size>>, <<Size, Width>> }

Malformed ==
  { <<Size, Size>>, <<[Size EXCEPT !.values = <<1, 4, 1>>]>>,
    <<[Size EXCEPT !.values = << >>]>>, <<[Kernel EXCEPT !.name = spec]>>,
    <<[Kernel EXCEPT !.name = weights]>>, <<[Kernel EXCEPT !.name = prec]>>,
    <<Kernel, Switch, Size, [Size EXCEPT !.name = none]>> }

Values == {p, q, off, on, 1, 2, 4}

\* Coupled arguments, as in the shipped configurations: each mode needs its
\* partner, and two extremes may exclude one another.  The last rules are ones
\* a branch may not have.
Rules ==
  { {},
    { [when |-> switch :> {off}, forbid |-> size :> {4}, require |-> << >>] },
    { [when |-> switch :> {on}, forbid |-> << >>, require |-> size :> {2, 4}],
      [when |-> size :> {4}, forbid |-> << >>, require |-> switch :> {on}] },
    { [when |-> kernel :> {q}, forbid |-> size :> {1}, require |-> << >>] },
    { [when |-> size :> {1, 4}, forbid |-> width :> {1, 4}, require |-> << >>] },
    { [when |-> << >>, forbid |-> switch :> {on}, require |-> << >>] },
    { [when |-> << >>, forbid |-> none :> {1}, require |-> << >>] },
    { [when |-> size :> {4}, forbid |-> << >>, require |-> << >>] } }

Grids(cands) ==
  LET names == { c.name : c \in Range(cands) }
  IN { None } \cup
     { [args |-> a, pins |-> f] :
         a \in { <<size>>, <<switch, size>>, <<size, size>> },
         f \in { << >>, kernel :> q, kernel :> on, (kernel :> q) @@ (switch :> on),
                 (kernel :> p) @@ (size :> 2) } }

BranchesOver(cands, values) ==
  { [name |-> b1, fixed |-> prec :> fp8, candidate |-> cands,
     constraints |-> r, baseline |-> f, focused_grid |-> None] :
       r \in Rules,
       f \in { g \in [{ c.name : c \in Range(cands) } -> values] :
                \A c \in Range(cands) : g[c.name] \in Range(c.values) \cup {none} } }

MCBranches ==
  UNION { BranchesOver(c, Values \cup {none}) : c \in WellFormed }
    \cup UNION { BranchesOver(c, {1, p, off}) : c \in Malformed }
    \cup { [name |-> b1, fixed |-> prec :> fp8, candidate |-> <<Size>>,
            constraints |-> {}, baseline |-> size :> 1 @@ prec :> fp8,
            focused_grid |-> None] }

WithGrid ==
  UNION { { [b EXCEPT !.focused_grid = g] : g \in Grids(b.candidate) } :
            b \in { c \in MCBranches : ValidBranch(c) } }

\* How the workload can be asked for, with axes as the shipped configurations
\* have them, an axis that repeats a value, and overrides of each.
short == <<1, 1>>
long == <<8, 1>>

Axes(concurrency) ==
  [isl_osl_pairs |-> <<short, long>>, report_isl_osl_pairs |-> <<long>>,
   concurrency |-> concurrency]

Works ==
  [axes : { Axes(<<1, 8>>), Axes(<<1, 1>>) }, role : {"iter", "report"},
   concurrency : {None, <<4>>, <<1, 8, 1>>}, isl_osl : {None, <<long, short>>},
   limit : {0, 1, 9}]

PlainWork == [axes |-> Axes(<<1>>), role |-> "iter", concurrency |-> None,
              isl_osl |-> None, limit |-> 0]

AskWork(B, modes, onlys, limits, works) ==
  [command : {"run"}, branch : B, mode : modes, only : onlys, limit : limits,
   gate : BOOLEAN, work : works, then : {<< >>}]

Ask(B, modes, onlys, limits) == AskWork(B, modes, onlys, limits, {PlainWork})

Onlys == { {OverrideLabel(kernel :> q)}, {OverrideLabel(size :> 4)},
           {OverrideLabel(size :> 2), OverrideLabel(size :> 4)},
           {OverrideLabel(switch :> on), BaselineLabel} }

\* The generator command, for two branches of one model that differ in name
\* only or in a baseline value as well, each saved up to twice in each mode,
\* over results in which the pinned kernel passed, failed, or was not judged.
Saving(name, value, fg) ==
  [name |-> name, fixed |-> prec :> fp8, candidate |-> <<Kernel, Size>>, constraints |-> {},
   baseline |-> (kernel :> p) @@ (size :> value), focused_grid |-> fg]

KernelPinned == [args |-> <<size>>, pins |-> kernel :> q]

PinRecord(b, score, verdict) ==
  [config_hash |-> Assemble(b, kernel :> q), branch |-> b.name,
   config_label |-> OverrideLabel(kernel :> q), accuracy |-> score, quality_pass |-> verdict]

BaselineRecord(b, score) ==
  [config_hash |-> Assemble(b, NoArgs), branch |-> b.name, config_label |-> BaselineLabel,
   accuracy |-> score, quality_pass |-> TRUE]

Commands(then) ==
  LET one == Saving(b1, 1, KernelPinned)
      Ask1(B, modes, args, records) ==
        [command : {"generate"}, branch : B, mode : modes, grid_args : args,
         gate : BOOLEAN, records : records, then : then]
  IN Ask1({one, Saving(b2, 1, KernelPinned), Saving(b2, 4, KernelPinned)},
          {"ofat", "grid"}, {None}, {<< >>})
     \cup Ask1({one}, {"grid"}, {None, <<size>>, <<kernel>>},
               { << BaselineRecord(one, 2), PinRecord(one, s, v) >> :
                   s \in {1, 2}, v \in BOOLEAN \cup {None} })
     \cup Ask1({ Saving(b1, 1, None) }, {"grid"}, {None}, {<< >>})

SaveRequests == Commands({<< >>} \cup { << r >> : r \in Commands({<< >>}) })

MCRequests ==
  SaveRequests \cup
  Ask(MCBranches, {"ofat", "grid"}, {None}, {0})
    \cup Ask({ b \in MCBranches : ValidBranch(b) }, {"ofat"}, Onlys, {0})
    \cup Ask({ b \in MCBranches : ValidBranch(b) }, {"ofat"}, {None}, {2})
    \cup Ask(WithGrid, {"grid"}, {None}, {0})
    \cup AskWork({ b \in MCBranches : b.candidate = <<Size, Switch>> /\ b.constraints = {}
                                     /\ ValidBranch(b) },
                 {"ofat"}, {None}, {0}, Works)
=============================================================================
