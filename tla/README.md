# Verification of the server-argument search

This directory holds TLA+ models of the search in `src/sglbench/argsearch`
(RFC-0001): the command `argsearch-run` generates server configurations, starts
an SGLang server for each, measures every workload point on it, evaluates its
accuracy, and appends one record per measurement to a result set that later
invocations extend. TLC checks the models on small instances; TLAPS proves their
safety properties for every instance.
`PROJECT.json` lists the runs, the source lines of every definition, the mutants,
hazards, findings and theorems.

## 1. The system

### Components

| Component | State | Operations | Talks to |
|---|---|---|---|
| `driver.py`: `run_search`, `_AccuracyGater` | position in the list of configurations, pending points, live session, collected results, last accuracy, baseline score | take a configuration, launch, stamp, measure, hand over a record, shut down, return or raise | server manager (call), `measure_point` (call), evaluator and `on_result` (callbacks) |
| `measure.py` | none between calls | one warmup, `repeats` measured passes, one record; environment digest | benchmark client |
| `schema.py` | none (validated configuration) | validation of branches, candidates, constraints, focused grid, gate | generators, `run.py` |
| `generate.py` | `configs/<mode>/`: index, one file per configuration, grid manifest | one-factor-at-a-time list, focused grid, is the search accuracy-invariant, spot-check; the generator command | `run.py`, `objective.py`'s pin check |
| `run.py`: `main` | `results.jsonl`, `manifest.json`, `manifests.jsonl` | select, plan the evaluation, read recorded keys, discard on `--force`, write manifests, search, record the spot-check | all of the above |
| `jsonl.py` | the files | read and write lines | `run.py` |
| `sglang_adapter.py` | the server process started, its URL | start, poll readiness, benchmark, evaluate, SIGTERM, SIGKILL | server processes through signals and a port |
| `scripts/devbox_sweep.sh` | remote pid file and log | stop the previous runner and its servers, start a runner, poll, fetch | the runner, by signals |
| `objective.py`, `metrics.py` | the frontier being collected, `frontier.jsonl` | eligibility (SLO and gate), dominance, ranking, failed pins, inspection, save | reads the configuration and `results.jsonl` |
| `compare.py`, `validate.py` | none | OFAT configurations beside the baseline; validation command | read files |

### What is hard about it

* **Failure in the middle.** A launch, an evaluation, a pass or the sink can
  raise at any point of two nested loops. No server may be left, and what was
  streamed and what was collected may differ by no more than the last record.
* **Incremental search.** Recorded identities are skipped. Over any sequence of
  complete, failed and killed invocations nothing may be lost, measured twice,
  or launched for nothing.
* **Verdicts that depend on order.** The gate compares with a baseline measured
  earlier in the same call, and an accuracy-invariant search reuses the last
  accuracy. Filters, skips and the rebuilt list change that order.
* **Persistence.** Three files are written one after the other, without a
  transaction; one of them is replaced, one appended to, one discarded.
* **A detached runner.** The script that starts a runner sees it through an
  unreliable connection, a pid file and the text of a log, all of which an older
  runner may have written; nothing keeps two runners off one directory.
* **A server found by its address.** The readiness probe and the benchmarks
  reach whoever holds the port, while the runner can terminate only the process
  it started; runners are killed from outside, and started beside one another.
* **Several readings of one gate.** The frontier, the list of excluded records,
  the inspection view and the pin check each judge the same records, which may
  carry a verdict, a score without one, or neither, in any order, from several
  branches.

The full list, each at its line and with the properties that cover it, is under
`hazards` in `PROJECT.json`. A hazard without a property has a note that says why.

### What makes each component correct

* *Driver*: a server is live exactly while its configuration is worked on;
  everything requested and only that is measured, once; a verdict is the gate's
  answer against a measured baseline score, and all records of a configuration
  agree on it.
* *Generators and plan*: the lists are exactly the legal configurations that the
  mode describes; rebuilding them for a skipped evaluation loses nothing and
  puts the reference first; skipping happens only with a legal, extreme
  spot-check; a directory of saved configurations is of one branch and whole.
* *Invocations*: the result set is a ledger of identities; records have
  manifests, as far as an append that is cut short allows; the spot-check result
  on disk is the one measured; every invocation ends.
* *Measurement*: where every pass has a line of the point measured with its decode
  rate, the recorded metrics are between those of these lines.
* *Objective*: what is saved clears the SLO and the gate of its own branch; every
  eligible entry is matched on the frontier; branches do not influence one
  another; what is left out is reported; the inspection view does not contradict
  the acceptable results; the comparison does not contradict the frontier.
* *Server adapter*: every server has a runner that will reap it, unless that was
  killed or its launch raised; alone and from a clean start, a runner measures the
  servers it launched; every sweep ends.
* *Sweep script*: one runner writes, nothing recorded is measured again, a sweep
  that is called complete is, and the script ends.

## 2. The modules

```
Schema --> Generate --> Planning --> Startup --> MCStartup
              |             |           ^
              |             |           |
              +-----> RecordGate -------+
                        ^   |
          QualityGate --+   +------> Objective --> Compare --> MCObjective
               |                         ^
               v                Bench ---+
            Driver --> MCDriver
              |
              v (INSTANCE)
             Run (EXTENDS Planning) --> MCRun        Run => Ledger (refinement)

Server --> MCServer          Sweep --> MCSweep

Proofs:
Driver   --> DriverProofs --> DriverGateProofs --+ (INSTANCE)
                                                 v
Planning --> GenerateProofs -------------> RunProofs (EXTENDS Run)
                  |
                  +--> StartupProofs (EXTENDS Startup)
                  +--> ObjectiveProofs (EXTENDS Compare)
Server   --> ServerProofs          Sweep --> SweepProofs
```

**QualityGate** is the comparison of a score with the baseline's, which the
driver makes when it stamps a record and the objective when it judges one.
**RecordGate** is the gate over recorded measurements: the reference of a branch,
the verdict on a record, the pins that failed. The frontier, its inspection view
and the generator command read it.

**Driver** models one call of `run_search`. `pc` stands for the place in the two
loops: `next` (the `for cp`), `launch`, `stamp`, `warmup`/`measure` (inside
`measure_point`), `done` (inner loop over), `unwind` (an exception on its way
through the `finally`), `returned`, `raised`. `i` counts configurations taken,
`pending` and `wp` are positions in the workload, `batch` is `config_results`,
`stream` what `on_result` has taken, `last_accuracy` and `baseline_score` the
gater's fields; `evals` is a history variable. A configuration is identified
with its `config_hash` and a workload point with its label, as the code does;
the measured numbers are left out. `evaluate_hashes = None` is the set of all
configurations. Each call the code makes has an action that succeeds and one
that raises. `Begin` restates `Init` for the next state, so that `Run` can start
a call.

**Schema, Generate, Planning** hold the validators, the generators and the
evaluation plan of `main` as operators. A configuration is the function from
argument names to values that its hash digests, so two configurations are equal
exactly if their hashes are. Numbers are integers and every other value is a
model value, which is the distinction `_extreme_choices` makes. `--only-config`
is the set of labels that match the substring. The loops are recursive functions
over a position: `Collect` appends the new points of a list of tries (`add` in
`generate_ofat`, the rebuilt list of the plan), `Where` filters a list, `Product`
is `itertools.product`.

**Startup** is the two commands that expand a branch. One steps a request of
`argsearch-run` through validation, selection of points and workload, and
planning; the properties compare the result with definitions written without the
loops: `FullConfigs`, `Legal`, `Departs`, `AllExtreme`. The other is the generator
command with `--save`: `Generate` and `NoGrid` are its two modes and its refusals,
`OpenIndex`, `WriteConfig` and `Saved` are `write_dir` and the grid manifest, file
by file, `Kill` ends it in between and keeps what had left the index's buffer, and
`NextCommand` saves another branch of the model over it. A line of the index that
was cut counts as missing; no code reads the index.

**Bench** holds what becomes of the output of a benchmark: which line of a pass is
taken, which metrics it yields, and the mean and median over the passes. A line is
a function from the keys it has to integers, and any key may be absent or zero; a
quotient is truncated, and the instances choose numbers that divide.

**Run** composes planning, `Driver` (as `Search`) and the result directory over
a sequence of invocations. `step` is the place in `main`; `file`, `manifest` and
`history` are `results.jsonl`, `manifest.json` and `manifests.jsonl`; `tail` says
whether the last line is whole, cut, or without its newline. A line of `history` is
the set of manifests that went into it, of which more than one or a part of one is not
JSON; `open_line` says that the last one lacks its newline, so that `HistoryWith` puts
the next manifest into it. `SearchStep` takes a
step of `Driver` and appends what `on_result` took; `SinkFails` is the write that
raises. `Crash` ends the process at any point and may cut what is being written:
a record (`RecordCut`), the line of manifests.jsonl (`HistoryCut`), or manifest.json,
both times it is written (`ManifestCut`). Each record carries, as a history, the
number of the invocation that wrote it.

Where `Driver` and `Run` look up a set, a score or a line in one expression of
the code (`Missing`, `Resume`, `Reference`, `SkipKeys`, `GateResult`, ...), the
expression is an operator of its own.

**Ledger** is the abstract specification of a result set: an identity is
recorded once, stays recorded, and is discarded only under `--force`. `Run`
implements it with `recorded` the keys of `file` and `forced` the flag of the
invocation under way.

**Objective** models `argsearch-frontier`. The operators follow the functions:
selection of a metric by priority of keys and statistic, the SLO bound of a
workload pair, the gate reference and verdict, dominance, the sorted frontier,
the pins that failed, the inspection's status. The state machine is `main`: it
refuses, or takes one branch of `todo` at a time into `reports` (what is printed
of a branch) and `all_frontier`, and then saves or only prints. A metric is a
function from statistics to numbers; a raw number reads as one under every
statistic. `UnknownBranch` is the `KeyError` for a branch the configuration does
not have. A record of the instance may carry the passes it was aggregated from, so
that `MetricsBracketed` can relate its metrics to the output lines. The property says
itself which line of a pass is of the record's point (`OfPoint`, `LineOf`) and asks
nothing of passes that have none: there the parser takes the last line, whatever its
point, as its docstring says.

**Compare** is the table of `argsearch-compare` over the same requests. `Indexed`
is its index by configuration and concurrency, which looks at no lengths;
`Comparison` its rows, each with the two throughputs whose quotient is printed.

**Server** models `SGLangServerManager`, `wait_until_ready` and `_terminate` of any
number of runners against an environment of server processes, one port, and an operator.
`runner[r]` is where runner r stands and `procs` holds every process ever started. A
process that was signalled no longer answers but keeps the port until it is gone. The
operator starts a runner whenever it likes, whoever is still at work (`StartRunner`): the
teardown of `devbox_sweep.sh` is best effort. `KillRunner` is a signal that ends a runner
without its `finally` blocks, `MeasureFails` an exception or interrupt that runs
them. A launch ends in one of three ways: `Ready`; `GiveUp`, the `TimeoutError`
that `launch` handles by terminating its process; and `LaunchRaises`, every other
exception, which it lets pass, so that the process is nobody's. `sole`, `clean`,
`abandoned` and `readings` are history: whether a runner had no other beside it since its
start, whether it found no server, which runners left one unreaped, and what was measured.

**Sweep** models `devbox_sweep.sh` against the runners it starts, which outlive
it. `pc` is the place in the script, `tries` counts for `retry` and for the poll,
and every use of the connection may fail: `Teardown` is then passed over, `Launch`
is not repeated but confirmed, whether or not it went through, and the fetch fails
without a word. A runner is `Run` reduced to what another runner sees of it: it
reads the recorded identities, discards the file under `--force`, opens it and
appends. `inodes` are the files there ever were, because a runner goes on writing
the one it has open after another has discarded it; `path` is the one that
`results.jsonl` names. `log` holds which of the polled patterns are in the log:
"wrote" from a search that returned, once it leaves the buffer of the output
(`Tell`), "error" from a runner that failed or from any
server that printed one. `met`, `torn` and `copied` are history.

## 3. What the runs check

| Run | Question | Instance | States |
|---|---|---|---|
| `driver` | Does one call do what it was asked, with any failure? | 3 configurations, 2 workload points, 2 passes, 3 scores and a missing metric; 216 calls | 25,921 |
| `startup` | Do generators, workload and plan produce what their definitions say, and does a save leave a whole directory? | 4 candidates with 2 or 3 values, 8 rule sets; workloads over 2 pairs and up to 3 concurrencies; 2 saves of 3 branches in 2 modes; 9,602 requests | 80,128 |
| `run` | Does the directory implement the ledger, through failures, crashes and torn lines? | 3 invocations; 3 configurations with skipped evaluation, 2 gated one by one over 2 workload points; scores {0, 2}; any write cut short | 1,043,740 |
| `objective` | Is what is saved acceptable, complete and consistent with what is reported and compared? | 16,266 requests; up to 3 records of 3 configurations and 2 branches, 6 workload points; passes of up to 2 lines | 77,810 |
| `server` | Who is measured, who is left, does the sweep end? | 2 configurations, 1 pass, 1 readiness interval, 2 runners, one after the other or at once | 1,134,574 |
| `sweep` | What do an unreliable script and the runners it leaves make of one directory? | 2 identities, the script twice, 2 tries, 2 polls | 1,630,069 |

Six further runs check what the documents say, one matter each, which the code
does not keep (section 6).

### The properties

* `driver`: `ServerBracketsConfig`, `StreamIsFresh`, `ReturnMeansComplete`,
  `StreamTracksResults`, `OneStampPerConfig`, `OneEvaluationPerConfig`,
  `OwnAccuracy`, `VerdictAgainstBaseline`, `GateNeverSilent`.
* `startup`: `OfatIsOneAtATime`, `GridIsJoint`, `PlanRunsSelection`,
  `WorkloadIsProduct`, `SpotCheckIsExtreme`, `SkipIsInvariantFromBaseline`,
  `IndexNamesFiles`.
* `run`: the refinement `ImplementsLedger`,
  `RecordsHaveManifest`, `ReturnedMeansRecorded`, `NoLaunchForRecorded`, the
  action property `SpotResultIsMeasured`, liveness `InvocationsEnd`.
* `objective`: `SavedIsAcceptable`, `FrontierCovers`, `BranchesApart`,
  `NothingUnaccounted`, `InspectionAgrees`, `PinsJudged`, `MetricsBracketed`,
  `CompareAgreesWithFrontier`.
* `server`: `CleanStartMeasuresItsOwn`, `EveryServerReaped`; liveness `SweepEnds`.
* `sweep`: `OneWriter`, `TwiceOnlyIfOverlapping`, `CompleteIsRecorded`; liveness
  `ScriptEnds`.

`driver`, `run` and `server` check a type invariant too.

Each is stated in words above its definition. Each has a mutant, an operator
named after the definition it changes and placed just before it ("Mutant of
..."), under which TLC finds the property violated: a skip that is not looked
up, a `finally` that is missing, a verdict taken before its reference is set, an
`--force` that keeps the old keys, a grid that drops its pins, a SIGTERM where
SIGKILL is due, a launch that is repeated when it was not confirmed, an index
that is appended to, and so on. Mutants are used by no specification.

### Bounds, and why they are enough

* *Configurations*: three are what an accuracy-invariant list needs to have a
  reference, a reused stamp and a spot-check. The lists of `MCDriver` are the
  orders the generators and filters make: baseline first, the baseline under a
  grid label, and no baseline.
* *Workload points*: two, to have a configuration partly recorded.
* *Recorded keys* (`Skips`): nothing, the first point of the first
  configuration, parts of two, whole configurations, everything.
* *Scores* 0, 1, 2 with `Tolerance` 1: equal to, within and beyond the tolerance
  on either side, and `NoMetric` for an evaluation without the gate's metric.
* *Repeats* 2, the minimum the code accepts; with fewer, `measure_point` raises,
  which is the same step as a failed pass. The theorems hold for any number.
* *MaxInvocations* 3: one to record, one to extend or force, one to read what
  the second left.
* *MaxRunners* 2, *Intervals* 1, *Points* 1: one runner to leave a server behind, or
  to be still at work, and one to meet it; a probe can be answered at once, after a
  wait, or never. Two configurations let the server of the one be measured as the
  other. The theorems hold for any number of each.
* `objective`: three configurations are what a chain, a tie and an incomparable
  pair of entries need; throughputs {1, 2} and latencies {1, 2, 3} against a
  bound of 2, with an override that sets no bound, a second one of the same pair
  that must not be reached, and a tighter one. The result sets with verdicts are
  those the driver can write: one record per configuration and workload, and a
  verdict only after a baseline with a score. They hold baselines without a
  score before and after scored ones, verdicts that disagree between workloads,
  and another branch's baseline in front.
  The result lines of `Bench` are of the point measured or of another, with or
  without a tail rate, a batch size or a latency, or with a zero for one of them, in
  both orders, in two passes that need not have the same keys; two pairs of lengths
  are measured at one concurrency.
* `sweep`: the script twice is what an older runner needs to meet a newer one; two
  identities let a runner be cut between two records; two tries are one failure
  that is retried and one that ends the script. A runner appears at most once per
  run of the script, so two runners are all there are.
* Saving: two branches with equal configurations, whose files then have equal
  names, one with another baseline, one without a grid, and results in which the
  pinned value passed, failed, or was not judged.
* `startup` varies every baseline over every rule set, including one under which
  no legal spot-check exists and rules a branch may not have, unsorted values,
  baselines off
  the declared values, and pins and grid arguments that validation refuses.

`CHECK_DEADLOCK FALSE` is set everywhere because every one of these systems
ends: a call returns, a command exits, and no bounded counter goes on.

### Fairness

* `Driver`, as a module of its own, has no fairness: that a call ends is checked
  where it is made, in `Run`.
* `Run`: `WF_vars(Advance)`, the steps an invocation takes by itself, those of
  `run_search` among them. The command is one thread and nothing suspends it. This
  assumes that launches, benchmarks and evaluations end, by success or by raising:
  the code gives the benchmark commands no time limit, so a hanging command does
  hang the sweep (a listed hazard). Failures are never obliged to happen and never
  excluded; nobody is obliged to start another invocation, and `Crash` is not fair.
* `Objective`, `Startup`: only safety is checked of them.
* `Server`: `WF_vars(Runner(r))` for each runner, a process of its own, with the same
  assumption on commands, and weak fairness of the end of a process that got SIGKILL. A
  server is obliged to nothing else: it may never answer, and it may ignore SIGTERM.
  `Sleep` counts the intervals up to `launch_timeout_s`, as the deadline of
  `wait_until_ready` does.
* `Sweep`: `WF_vars(Script)`, every command of the script returns; ssh and rsync
  end by success or failure. Nothing is assumed of the runners, which may never
  finish, of the connection, which may fail for ever, or of the operator.

## 4. What is proved

The proofs are in `DriverProofs`, `DriverGateProofs`, `GenerateProofs`,
`StartupProofs`, `ObjectiveProofs`, `RunProofs`, `ServerProofs` and `SweepProofs`.
They hold for every value of the constants that satisfies the module's assumptions,
which TLC evaluates on every run of the module:
* `DriverConstants`: scores are integers, `None` is none of the values it stands
  beside, calls have the shape of `Call`;
* `RunConstants`, the same of `Run`, and `PlannedRequests`: the branch of a command
  line is one the schema accepts, a grid is asked for only where one is declared, and
  points are over the configurations considered. That a plan names no configuration
  twice is proved, not assumed;
* `RequestsMeant` of `Startup`: a request has lists where the code has lists, one of
  the two modes, and an integer `--limit`. Branches that validation refuses are
  among the requests;
* `RecordsMeant` of `Objective`: a request has the fields `main` reads, its branches
  and records are lists, a workload is three integers, the metrics of a record are
  integers and its verdict is a Boolean or none;
* `PassesMeant` of `Objective`: a record that comes with its passes has the metrics
  that `Bench` makes of them, a pass has at least one line, a line has integers under
  whatever keys, and the concurrency is positive;
* `ServerConstants` and `SweepAssumption`.

**`run_search` and its server.** `TypeInv` is type correctness together with
`ServerBracketsConfig` and the fact that a configuration is taken wherever the
loop is inside one. It is inductive by itself and gives `TypeCorrect` and
`ServerBracketed`.

**Nothing twice, nothing lost.** Freshness and completeness are not inductive:
that a record is new does not follow from the records alone. `StreamInv` adds
* `PendingInv`: what is pending is not recorded, and nothing is pending between
  two configurations;
* `Sourced`: every record comes from a taken configuration and a point that is
  off the pending list, so that the next record cannot repeat one;
* `Covered`: every point of a taken configuration was skipped, is in the stream,
  or is pending, so that nothing is left when the list is done.

This gives `NothingMeasuredTwice`. `ReturnInv` adds `BatchInv`, which relates
`results`, `batch` and `stream` at each place of the loop, and gives
`ReturnComplete` and `AtMostOneRecordLost`.

**Verdicts.** `GateInv` says that the baseline score of the gater was measured
on a configuration labelled "baseline", that the stamp of the current
configuration is the gate's answer against it, and the same of every record
taken. It needs the premise the plan provides, that baseline points are
evaluated. `StampInv` says that the records of the configuration under way
carry its stamp, and that other records belong to other configurations. They
give `VerdictsHaveReference`, `AccuracyIsOwn`, `StampsAgree` and
`BaselineIsEligible`: a baseline with a score passes its own gate.

**Evaluations.** `EvalInv` adds to `StreamInv` where each evaluation came from: a
configuration already taken, of which something was missing, and the current one
only once it was stamped. From this no configuration is evaluated twice and none for
nothing (`EvaluatedOnceForCause`). `SilenceInv` is about the first configuration:
if it is to be evaluated, nothing is recorded before it is (`FirstIsFirst`), and
once that evaluation was of the baseline and had a score there is a reference and a
verdict on every record (`AllJudged`). Neither holds without the other; together
they give `GateSpeaks`.

**Servers.** `ServerInv` joins `EveryServerReaped` and `CleanStartMeasuresItsOwn` to
what they need of each other: a runner outside a launch and its end knows no server
(`NoneMine`), runners start in order (`InOrder`), beside a sole runner no other is at
work (`NoOther`), and one that also found no server knows every live process
(`OnlyMine`). It gives the theorems `CleanRunnersMeasureTheirOwn` and
`ServersAreReaped`, for any number of runners at work at once, whatever is killed.

**The sweep script.** `FilesInv` is about the files whatever the script does: an
entry was written by a runner that has that file open (`EntriesOwn`), no runner
repeats itself in it (`OncePerRunner`), and any two runners are `Ordered`: one has
read no keys yet, or one was at work when the other read them, or one `Follows` the
other, that is, the other is gone and what it left in the file is among the keys.
The last case is what needs the invariant: it has to survive the unlinking of the
results file, a new file under the same name, and a third runner that adds to either.
With it a `Record` of an identity that stands in the file already is by a runner
that overlapped its writer, which is `OverlapOnly`, for any number of runs of the
script. `LastAlone` says that, while every teardown went through, the launch finds
no runner at work and the only one at work later is the last launched, with the
named file or none open; it gives `NeverTwoWriters`.

`CompleteInv` goes on from there for a sweep called complete: while the teardowns go
through, the keys of the runner at work stand in the file, a "wrote" in the log is
its own and comes after its last record (`ToldTrue`), and what is fetched is the
file (`FetchedAll`). It gives `CompleteRecorded`.

**The generators.** `GenerateProofs` has no specification; it says what each operator
of `Generate` and `Planning` returns, for lists of any length:
* `Collected`: of a list of tries `Collect` keeps those whose hash is new, so hashes
  stay distinct and nothing that was tried is missing;
* `OfatPoints`, `JointPoints`: the hashes of the two lists are the legal
  configurations that differ from the baseline in at most one argument, and the legal
  combinations of the grid's arguments at its pins;
* `ProductRange`, `ProductOrder`: the product has every combination, and of two
  combinations the earlier one has the earlier choice where they first differ. The
  latter is what the spot-check needs: `SpotFirst` says that it sets every varied
  candidate to an end of its range, is legal, and is at least as far from the
  baseline as any other such configuration on the first candidate they differ in;
* `SelectedOnce`, `PlannedOnce`: filter, limit and the rebuilt list keep hashes
  distinct, and only configurations of the list are evaluated.

These are statements about recursive functions over a position, and the induction
theorems of the library cannot be used on them (they take an operator). The proofs go
through sets instead: `LeastNumber` (a non-empty set of numbers has a least one, from
the library's theorem on well-founded relations), then `UpTo` (a set that has 0 and,
with each number below N, the next one, has all up to N), applied to the set of
positions up to which the claim holds. `LoopExists` gives the existence of the
function itself in the same way.

**Startup.** `StartupInv` says that in each phase `selected`, `workload` and `plan`
are what the code computes from the request, that every index names files that are
there, and that a save under way has put a prefix of its points in the index. With the
lemmas on the generators it gives all the properties of the `startup` run:
`OfatIsExact`, `GridIsExact`, `WorkloadExact`, `PlanIsSelection`, `SkipIsInvariant`,
`SpotIsExtreme`, `DirectoryIsNamed`.

**The objective.** `ObjectiveInv` says that every report is what `Report` computes of
its branch, that what is collected comes from the frontiers reported, and that what is
saved is all of that. The rest is about the operators:
* a filter is `Where` over positions; `InRange`, `InFirst` and `InTwice` say what it
  keeps, which comes first, and that filtering twice is filtering once where the
  second test implies the first;
* `Undominated`: dominance is a strict order and a list is finite, so every entry is
  matched by one that nothing dominates; `RankedInOrder`: the ranking has the same
  entries, in the order of the sort key;
* `Built` joins them: the frontier is the undominated ones among the entries of the
  eligible records, and it covers them;
* `ReferenceScore` and `GateCleared`: the gate as the code computes it is the gate as
  the properties state it, the first baseline record of the branch deciding;
* `LastOfOwn`: the last record of a configuration among those of a branch is the last
  of all where no other branch measured it;
* `RowsOf`, `OnePair`: a row of the table is of a record of its configuration and
  concurrency, and with one pair of lengths that is one workload;
* `TotalLoop` and `NthValue` put the mean and the median of `Bench` in terms of the
  values: a running total, and an order statistic that exists because the least value
  with enough values up to it has fewer below. From them `MeanBetween`,
  `MedianBetween` and `Aggregated`: a metric every pass has is aggregated to a number
  between the passes' own, one that a pass lacks is not recorded;
* `LineOfPoint`, `ServingMetrics`, `BatchMetrics`: which line of a pass is read where
  one is of the point, and which metrics it yields; `KeyOrder`: which of them places the
  record.

They give `SavedAreAcceptable`, `FrontierIsCover`, `BranchesStayApart`,
`InspectionIsFaithful` and `PinsAreJudged` without a premise. `AllAccountedFor`,
`MetricsAreBracketed` and `TableAgreesWithFrontier` have the premise that a result
set holds one record per configuration and workload of a branch, which is what
`RecordedOnce` says of the file a sequence of invocations leaves: with two, one may
pass the gate and the other not, the entry of one is not between the passes of the
other, and the table shows the later one only. The proof of `PinsAreJudged` asks that
no other branch measured the configuration of a pin, whether or not that is one the
pin's branch measured too; the records of the other branch would otherwise decide in
the generator command.

**Invocations.** `RunProofs` takes `Driver` with its proofs as `D`. The modules
`Search` (the instance in `Run`) and `D` have the same definitions, which the
lemmas `SameRecord`, `SameLoop`, ... say one by one, so that a step of the
search is a step of `D` (`SearchIsDriver`) and the invariants of a call hold of it.
`RunInv` then needs, beside the invariant of the call (`CallMade`):
* `ControlInv` and `DiskInv`: where `main` stands, and that the directory has
  records of invocations there were;
* `ManifestInv`: an invocation that may still write is `Documented`. That survives the
  later appends because of `HistoryInv`: a line of manifests.jsonl that still lacks its
  newline has only invocations without a record, and none of them is the one that
  searches. So `ManifestsFirst` has one exception and no other: the invocation whose
  manifest went into a line that cut appends had begun (section 6);
* `KeysKept`: what is skipped is on disk and so is what the sink took, so that
  "skipped or in the stream" is "recorded" (`AskedIsRecorded`, `LaunchesAreNeeded`);
* `KeysKnown`: nothing else is on disk, unless the call failed. Without it a new
  record could repeat one that the search never saw.

It gives `RunTypeCorrect`, `ManifestsFirst`, `AskedIsRecorded`, `LaunchesAreNeeded`,
`SpotResultMeasured` and the refinement `RunIsLedger`: the initial state is the
ledger's, and every step of an invocation, a failure or a crash is a step of the
ledger or a stutter. `RunIsLedger` has the premise that no command line repeats a
workload point. It is a real one: `--concurrency 8 8` makes the code record an
identity twice, and the ledger is not implemented then. `RecordedOnce` follows from
the same steps and has the same premise: no two lines of the file are of one
configuration and workload label, whichever invocations wrote them. That is the
premise of the three theorems on the objective. The distinct configurations that
Driver's theorems assume (`DistinctPoints`) are discharged here, by `PlannedOnce`.

Not proved, checked by TLC only: the liveness properties `InvocationsEnd`,
`SweepEnds` and `ScriptEnds`, which are out of the prover's reach. The statements
that fail (section 6) are refuted by runs and have no theorem.

## 5. What is not modelled, and why

* **The gsm8k report and command building** (`sglang_adapter.py`): text without
  state. The driver takes any score, or none; a parse that raises is a failed
  evaluation.
* **Environment capture, hardware reconciliation, dry run**: an environment digest
  only names the result directory, and `Run` is one directory; the other two
  print or end the command before it has done anything.
* **Duplicate workload points**: that labels are distinct is a premise, visible in
  `StreamIsFresh`, that `--concurrency 8 8` breaks; `WorkloadIsProduct` says that
  nothing else does.
* **Pydantic's own checks and the TTFT target** of `schema.py`: TTFT is displayed
  and saved, and compared with nothing. `validate.py` only calls the validators.
* **`on_config`** of `run_search`, which the command never passes.
* **Printed layout**: the generator's three formats and the tables.
* **A machine that goes down.** Nothing is fsynced, so it may lose more than the text
  that was being written when the process ended.
* **Servers in `Sweep`**: what a runner does to its servers, and what the teardown
  leaves of them, is `Server`; in `Sweep` a server only writes to the log.

## 6. Where code and documents differ

Each of these is a `violation` run; its counterexample is short.

| Run | Statement | What happens |
|---|---|---|
| `skip_reason` | RFC-0001 C-QUALITY-GATE: a search that varies an accuracy-active argument is evaluated per configuration; the manifest records "only accuracy-invariant candidates vary" | The selection is judged before the baseline is put in front of it. `--only-config` can leave a list in which an active argument is off the baseline throughout: then it does vary in the list that is run. When the baseline is among the selected points the reason is true (`SkipIsInvariantFromBaseline`) |
| `every_record_judged` | run.md: with the gate on, each record is stamped with accuracy and verdict | A search gated per configuration was cut short after its baseline. Resumed, it does not launch the recorded baseline, has no reference, and stamps no verdict on what it evaluates. (Searches that skip evaluation are exempt, run.md:80) |
| `spot_failure` | RFC-0001 C-QUALITY-GATE: evaluation may be skipped provided that the spot-check passes | The spot-check comes last and its failure changes no record |
| `points_readable` | run.md: a mid-run crash keeps the finished points | After a torn line every later invocation raises while it reads the file; `--force`, which discards the points, is the only way on |
| `server_stale` | RFC-0001 C-RUN-OUTPUT: measurements of different identities are never conflated | A server left by a killed runner answers the probe of the next one and is measured under its configurations, though no other runner is at work. A clean start excludes it (`CleanStartMeasuresItsOwn`) |
| `compared_like_for_like` | RFC-0001 C-OBJECTIVE: the throughput must not be averaged over the output; measurements are compared only at equivalent sequence positions | Passes that do not all have a tail rate give a record without a decode throughput; the objective falls back to the averaged one, and dominance does not look at lengths. Such a point, at a short context, removes one at a long context that has its decode rate. The property would hold if either statement did |

More were seen in the models and have no run, because no sentence of the
documents is contradicted in so many words, or because a run above already shows
the like:

* The gate result of a spot-check is only in `manifest.json`, rewritten after the
  search (`run.py:276`); the next invocation replaces that file (`run.py:249`), and
  `manifests.jsonl` has the manifest from before the search, although run.md:39
  calls the record of an invocation durable.
* A manifest whose append is cut short leaves a line that takes the manifest of the next
  invocation as well and is not JSON (`run.py:250`): the records of that invocation have
  no manifest that can be read, although run.md:39 calls it durable. Nothing else keeps
  a record from its manifest (`RecordsHaveManifest`).
* `--force` unlinks the result set before its manifest is written, so an
  invocation stopped between the two leaves no trace of what it discarded
  (`run.py:218`).
* A branch that is reported as having no acceptable configuration because a pin
  failed the gate still puts its frontier, whose entries each clear the gate, into
  the saved file (`objective.py:329`).
* `argsearch-run --mode grid` runs a grid without the check of its pins that the
  generator command makes (`run.py:122`); RFC-0001 C-QUALITY-GATE forbids to pin a
  value whose OFAT configuration failed.
* The generator command looks up its pins in the records of all branches
  (`generate.py:312`), the frontier in those of one: they agree as long as
  no other branch measured the configuration of a pin (`PinsJudged` says so).
* The branches of a model share the directory of saved configurations
  (`generate.py:326`; generate.md:56 speaks of the branch's checkpoint, which
  branches no longer have): saving one leaves the files of the other behind,
  named by no index, and a grid save cut short leaves the older `focused_grid.json`.
* "sweep complete" is printed on the first matching line, which may come from an
  older runner that survived the teardown, from a server's output, or from a run
  that has yet to rewrite its manifest (`devbox_sweep.sh:58`); a run that is over
  before the first `kill -0` is reported as not running (line 49), and one whose
  pid file could not be written is confirmed by an older pid; a failed fetch is not
  reported (line 69). The pattern of the `pkill` also matches the shell that runs
  the teardown, so what follows it in that shell may not run (line 45).
* When no line of an output is of the workload point, the last line is recorded as
  this point's (`sglang_adapter.py:113`); the docstring announces it.
* The comparison indexes records by concurrency only: with two pairs of lengths at
  one concurrency its delta may set one length against another (`compare.py:23`).

## 7. Plan

Done, in this order: `Driver` with its proofs; `Schema`, `Generate`, `Planning`,
`Startup`; `Ledger` and `Run`; `Server` with its proofs; `QualityGate`,
`RecordGate` and `Objective`; the workload axes in `Planning`; `Bench` and
`Compare`; `Sweep` with its proofs; the generator command in `Startup`.

Proved since: `OneEvaluationPerConfig` and `GateNeverSilent`; every safety property of
`Run` and its refinement of `Ledger`; `CompleteIsRecorded`; the generators and the
plan, and over them every property of `Startup`; the properties of `Objective` and
`Compare`, `MetricsBracketed` the last of them.

Since then `Run` has manifests that are cut short, `Server` runners at work at once and
launches that raise, and `Objective` output lines with any keys; what was proved of them
is proved again.

Next: what `PROJECT.json` notes beside the eight hazards that no property covers.

## 8. Running it

`tlc -config MCRun.cfg MCRun` (and so on for the pairs under `runs`), and
`tlapm DriverProofs.tla`, and so on for `DriverGateProofs`, `GenerateProofs`,
`StartupProofs`, `ObjectiveProofs`, `RunProofs`, `ServerProofs` and `SweepProofs`.
