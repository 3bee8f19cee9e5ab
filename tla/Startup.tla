------------------------------ MODULE Startup -------------------------------
(***************************************************************************)
(* The two commands that expand a branch into configurations: the start of *)
(* argsearch-run, up to the call of run_search, and the generator command, *)
(* which saves the configurations to a directory that all the branches of  *)
(* a model share.  The properties compare what they make of a request with *)
(* reference definitions.                                                  *)
(*                                                                         *)
(* A request of the generator is [command, branch, mode, grid_args, gate,  *)
(* records, then]: the accuracy gate and results file it finds, and the    *)
(* requests that follow it.  Without --save it only prints, which changes  *)
(* nothing and is left out.                                                *)
(***************************************************************************)
EXTENDS Planning, RecordGate

CONSTANT Requests

\* The axes are lists, declared by the configuration or given instead of it.
AxesDeclared(work) ==
  /\ DOMAIN work.axes = {"isl_osl_pairs", "report_isl_osl_pairs", "concurrency"}
  /\ \A axis \in DOMAIN work.axes : IsList(work.axes[axis])
  /\ \A given \in {work.concurrency, work.isl_osl} : given # None => IsList(given)
  /\ work.role \in {"iter", "report"}
  /\ work.limit \in Int

\* Whatever a branch declares it declares in lists, and one request follows
\* another.
ASSUME RequestsMeant ==
  \A req \in Requests :
    /\ DeclaresLists(req.branch)
    /\ req.mode \in {"ofat", "grid"}
    /\ req.command = "run" => req.limit \in Int /\ AxesDeclared(req.work)
    /\ req.then # << >> => Head(req.then) \in Requests

VARIABLES
  request,   \* the command line and the branch it names
  phase,     \* "load", "select", "plan", "ready", "open", "write", "saved",
             \* "refused" or "killed"
  selected,  \* select_points
  workload,  \* select_workload
  plan,      \* what run_search is called with, or None
  directory, \* configs/<mode>: [index, files, manifest] for each mode
  written    \* how many of the selected are in it

vars == <<request, phase, selected, workload, plan, directory, written>>

-----------------------------------------------------------------------------
Init ==
  /\ request \in Requests
  /\ phase = "load"
  /\ selected = << >>
  /\ workload = << >>
  /\ plan = None
  /\ directory = [mode \in {"ofat", "grid"} |->
                    [index |-> << >>, files |-> << >>, manifest |-> None]]
  /\ written = 0

\* The validators accept the branch.
Load ==
  /\ phase = "load"
  /\ ValidBranch(request.branch)
  /\ phase' = "select"
  /\ UNCHANGED <<request, selected, workload, plan, directory, written>>

\* A grid is asked of a branch that declares none; the generator also refuses
\* other arguments than the declared ones and pins that failed the gate.
NoGrid ==
  /\ request.mode = "grid"
  /\ request.branch.focused_grid # None =>
       /\ request.command = "generate"
       /\ \/ request.grid_args \notin {None, request.branch.focused_grid.args}
          \/ Offenders(request.branch, request.records, request.gate) # {}

\* The validators raise, or there is no grid to be had.
Refuse ==
  /\ \/ phase = "load" /\ ~ValidBranch(request.branch)
     \/ phase = "select" /\ NoGrid
  /\ phase' = "refused"
  /\ UNCHANGED <<request, selected, workload, plan, directory, written>>

Select ==
  /\ phase = "select"
  /\ request.command = "run"
  /\ ~NoGrid
  /\ selected' = SelectPoints(request.branch, request.mode, request.only, request.limit)
  /\ IF selected' = << >>
       THEN phase' = "refused" /\ UNCHANGED workload
       ELSE /\ phase' = "plan"
            /\ LET work == request.work
               IN workload' = SelectWorkload(work.axes, work.role, work.concurrency,
                                             work.isl_osl, work.limit)
  /\ UNCHANGED <<request, plan, directory, written>>

Prepare ==
  /\ phase = "plan"
  /\ plan' = Plan(request.branch, selected, request.gate)
  /\ phase' = "ready"
  /\ UNCHANGED <<request, selected, workload, directory, written>>

-----------------------------------------------------------------------------
(* The generator command, saving *)

Generate ==
  /\ phase = "select"
  /\ request.command = "generate"
  /\ ~NoGrid
  /\ selected' = IF request.mode = "ofat" THEN GenerateOfat(request.branch)
                                         ELSE GenerateGrid(request.branch)
  /\ phase' = "open"
  /\ UNCHANGED <<request, workload, plan, directory, written>>

\* Mutant of OpenedIndex: the index is appended to.
KeptIndex(index) == index

\* open("w")
OpenedIndex(index) == << >>

OpenIndex ==
  /\ phase = "open"
  /\ directory' = [directory EXCEPT ![request.mode].index = OpenedIndex(@)]
  /\ written' = 0
  /\ phase' = "write"
  /\ UNCHANGED <<request, selected, workload, plan>>

\* <NN>-<label>-<hash8>.json: the same for equal configurations of two branches.
FileName(n, point) == <<n, point.label, point.hash>>

\* One configuration to its file, then to the index.
WriteConfig ==
  /\ phase = "write"
  /\ written < Len(selected)
  /\ LET point == selected[written + 1]
     IN directory' = [directory EXCEPT
          ![request.mode].files = Updated(@, Single(FileName(written + 1, point), point)),
          ![request.mode].index = Append(@, point)]
  /\ written' = written + 1
  /\ UNCHANGED <<request, phase, selected, workload, plan>>

\* focused_grid_manifest
GridManifest(branch, points) ==
  [branch |-> branch.name, admitted_args |-> branch.focused_grid.args,
   pins |-> KeptPins(branch.focused_grid),
   config_hashes |-> [n \in DOMAIN points |-> points[n].hash]]

Saved ==
  /\ phase = "write"
  /\ written = Len(selected)
  /\ IF request.mode = "grid"
       THEN directory' = [directory EXCEPT
              !["grid"].manifest = GridManifest(request.branch, selected)]
       ELSE UNCHANGED directory
  /\ phase' = "saved"
  /\ UNCHANGED <<request, selected, workload, plan, written>>

\* Killed while it writes: of the index, which is buffered, whatever whole
\* lines had left the buffer.
Kill ==
  /\ phase = "write"
  /\ \E kept \in 0..written :
       directory' = [directory EXCEPT
         ![request.mode].index = SubSeq(@, 1, kept)]
  /\ phase' = "killed"
  /\ UNCHANGED <<request, selected, workload, plan, written>>

NextCommand ==
  /\ phase \in {"saved", "refused", "killed"}
  /\ request.then # << >>
  /\ request' = Head(request.then)
  /\ phase' = "load"
  /\ selected' = << >>
  /\ UNCHANGED <<workload, plan, directory, written>>

Next == \/ Load \/ Refuse \/ Select \/ Prepare
        \/ Generate \/ OpenIndex \/ WriteConfig \/ Saved \/ Kill \/ NextCommand

Spec == Init /\ [][Next]_vars

-----------------------------------------------------------------------------
(* Reference definitions: what a plan should hold, said without the loops. *)

branch == request.branch

\* Every assignment of declared values to the candidates, over the fixed ones.
FullConfigs ==
  LET names == CandidateNames(branch)
  IN { Updated(branch.fixed, a) :
         a \in { f \in [names -> UNION { ValuesOf(branch, n) : n \in names }] :
                   \A n \in names : f[n] \in ValuesOf(branch, n) } }

Legal(args) ==
  \A con \in branch.constraints :
    (\A a \in DOMAIN con.when : Get(args, a) \in con.when[a]) =>
      /\ \A a \in DOMAIN con.forbid : Get(args, a) \notin con.forbid[a]
      /\ \A a \in DOMAIN con.require : Get(args, a) \in con.require[a]

\* The candidates on which a configuration departs from the baseline.
Departs(args) == { n \in CandidateNames(branch) : args[n] # branch.baseline[n] }

BaselineArgs == Updated(branch.fixed, branch.baseline)

Hashes(points) == { p.hash : p \in Range(points) }

DistinctHashes(points) == IsInjective([n \in DOMAIN points |-> points[n].hash])

\* The points are chosen, from all that the branch declares.
Chosen(mode) ==
  /\ phase \in {"plan", "ready", "open", "write", "saved"} /\ request.mode = mode
  /\ request.command = "run" => request.only = None /\ request.limit = 0

Planned == phase = "ready"

\* No value of the candidate is further from the baseline than v (numbers);
\* v is an end of the declared sweep (anything else).
Extreme(name, v) ==
  LET values == CandidateOf(branch, name).values
  IN IF Range(values) \subseteq Int
       THEN \/ \A w \in Range(values) : v <= w
            \/ \A w \in Range(values) : v >= w
       ELSE v \in {values[1], values[Len(values)]}

\* The legal configurations with every varied invariant candidate at an
\* extreme and all the others at the baseline.
AllExtreme ==
  LET varied == VariedArgs(selected) \cap InvariantNames(branch)
  IN { c \in FullConfigs :
         /\ Legal(c)
         /\ Departs(c) \subseteq varied
         /\ \A n \in varied : Extreme(n, c[n]) }

-----------------------------------------------------------------------------
(* Properties *)

\* The OFAT sweep is exactly the legal configurations that depart from the
\* baseline on at most one candidate, each once, the baseline first.
OfatIsOneAtATime ==
  Chosen("ofat") =>
    /\ Hashes(selected) = { c \in FullConfigs : Legal(c) /\ Cardinality(Departs(c)) <= 1 }
    /\ DistinctHashes(selected)
    /\ selected[1].hash = BaselineArgs /\ selected[1].label = BaselineLabel

\* The focused grid is exactly the legal joint assignments of the admitted
\* arguments with every other candidate at its pin, each once.
GridIsJoint ==
  Chosen("grid") =>
    /\ Hashes(selected) =
         { c \in FullConfigs :
             /\ Legal(c)
             /\ \A n \in CandidateNames(branch) \ Range(branch.focused_grid.args) :
                  c[n] = branch.focused_grid.pins[n] }
    /\ DistinctHashes(selected)

\* The list that is run holds legal configurations only, none twice, all that
\* were selected and beyond them at most the baseline and the spot-check; one
\* rebuilt for the skip starts with the baseline, which everything after it is
\* compared with, and launches what it is to evaluate.
PlanRunsSelection ==
  Planned =>
    /\ Hashes(plan.points) \subseteq { c \in FullConfigs : Legal(c) }
    /\ DistinctHashes(plan.points)
    /\ Hashes(selected) \subseteq Hashes(plan.points)
    /\ ~plan.skipped => Hashes(plan.points) = Hashes(selected)
    /\ plan.skipped =>
         /\ Hashes(plan.points) = Hashes(selected) \cup {BaselineArgs, plan.spot.hash}
         /\ plan.points[1].hash = BaselineArgs
         /\ \A p \in Range(plan.points) :
              p.label = BaselineLabel => p.hash = BaselineArgs
         /\ plan.evaluate_hashes = {BaselineArgs, plan.spot.hash}

\* The workload is the product of the pairs of the role asked for with the
\* concurrencies, as far as the limit: an override stands in for one axis and
\* leaves the other as declared, and a point comes twice only if an axis
\* repeats a value.
WorkloadIsProduct ==
  phase \in {"plan", "ready"} =>
    LET work  == request.work
        pairs == IF work.isl_osl # None THEN work.isl_osl
                 ELSE IF work.role = "iter" THEN work.axes.isl_osl_pairs
                 ELSE work.axes.report_isl_osl_pairs
        concs == IF work.concurrency # None THEN work.concurrency
                 ELSE work.axes.concurrency
        all   == Len(pairs) * Len(concs)
    IN /\ Len(workload) = IF work.limit > 0 THEN Min({work.limit, all}) ELSE all
       /\ Range(workload) \subseteq Range(pairs) \X Range(concs)
       /\ Len(workload) = all => Range(workload) = Range(pairs) \X Range(concs)
       /\ IsInjective(pairs) /\ IsInjective(concs) => IsInjective(workload)

\* The spot-check of a skipping plan is a legal all-extreme configuration, and
\* on the first candidate where a legal all-extreme one departs from it the
\* spot-check is at least as far from the baseline.
SpotCheckIsExtreme ==
  Planned /\ plan.skipped =>
    /\ plan.spot.hash \in AllExtreme
    /\ \A c \in AllExtreme \ {plan.spot.hash} :
         LET Differ(n) == c[branch.candidate[n].name] # plan.spot.hash[branch.candidate[n].name]
             first == Min({ n \in DOMAIN branch.candidate : Differ(n) })
             arg   == branch.candidate[first].name
         IN IF Range(branch.candidate[first].values) \subseteq Int
              THEN Distance(c[arg], branch.baseline[arg])
                     <= Distance(plan.spot.hash[arg], branch.baseline[arg])
              ELSE plan.spot.hash[arg] # branch.baseline[arg]

\* When the baseline is among the selected points, a skipping plan departs from
\* it on accuracy-invariant candidates only: no accuracy-active value is
\* measured without an evaluation of its own.
SkipIsInvariantFromBaseline ==
  Planned /\ plan.skipped /\ BaselineArgs \in Hashes(selected) =>
    \A p \in Range(plan.points) : Departs(p.hash) \subseteq InvariantNames(branch)

\* Whatever branches are saved one after the other, and whichever of the
\* commands is killed: a line of an index has its file, with its own content.
\* A save that ends has all its configurations in the index and no other, and
\* the grid's manifest is of that branch and of those configurations.
IndexNamesFiles ==
  /\ \A mode \in DOMAIN directory : \A n \in DOMAIN directory[mode].index :
       LET point == directory[mode].index[n]
           name  == FileName(n, point)
       IN /\ name \in DOMAIN directory[mode].files
          /\ directory[mode].files[name] = point
  /\ phase = "saved" =>
       LET dir == directory[request.mode]
       IN /\ dir.index = selected
          /\ \A p \in Range(dir.index) : p.branch = branch.name
          /\ request.mode = "grid" =>
               /\ dir.manifest.branch = branch.name
               /\ dir.manifest.config_hashes = [n \in DOMAIN dir.index |-> dir.index[n].hash]
               /\ \A hash \in Range(dir.manifest.config_hashes) :
                    \A arg \in DOMAIN dir.manifest.pins : hash[arg] = dir.manifest.pins[arg]

\* "only accuracy-invariant candidates vary; per-config gate eval skipped", the
\* reason run.py records: it should be true of the list it runs.
SkipReasonHolds ==
  Planned /\ plan.skipped => AccuracyInvariantSearch(branch, plan.points)
=============================================================================
