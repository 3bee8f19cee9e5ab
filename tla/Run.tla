--------------------------------- MODULE Run --------------------------------
(***************************************************************************)
(* argsearch-run over time (src/sglbench/argsearch/run.py, main): one      *)
(* invocation after another against one result directory, each of them     *)
(* possibly cut short.  What outlives an invocation is on disk:            *)
(* results.jsonl, manifest.json and manifests.jsonl.  The search inside an *)
(* invocation is module Driver, one call of run_search; every record its   *)
(* on_result takes is a line of results.jsonl at once.                     *)
(*                                                                         *)
(* The directory is that of one model, benchmark tool and environment:     *)
(* run_dir sends another model, tool or environment to another directory.  *)
(***************************************************************************)
EXTENDS Planning

CONSTANTS
  Requests,       \* the command lines considered
  MaxInvocations, \* bound on how many invocations there are
  Tears,          \* whether a line can reach the disk in part
  Baseline, Labels, Branches, Workloads, Configs,
  Accuracies, NoMetric, Tolerance, HigherBetter, Repeats

VARIABLES
  step,      \* where main stands
  request,   \* the command line, or None between invocations
  plan,      \* points, evaluate_hashes and spot-check of the invocation
  skip_keys, \* the recorded keys, as read at the start
  inv,       \* the invocation's number
  file,      \* results.jsonl: the records, in order
  tail,      \* its end: "clean", "partial" or "unended" line
  manifest,  \* manifest.json, or None where there is none that can be read
  history,   \* manifests.jsonl: its lines, in order
  open_line  \* whether the last of them has no newline yet

\* The variables of the run_search call under way.
VARIABLES call, pc, i, pending, wp, session, runs, last_accuracy, baseline_score,
          stamp, batch, results, stream, evals

searchVars == <<call, pc, i, pending, wp, session, runs, last_accuracy,
                baseline_score, stamp, batch, results, stream, evals>>
disk == <<file, tail, manifest, history, open_line>>
mainVars == <<step, request, plan, skip_keys, inv>>
vars == <<mainVars, disk, searchVars>>

\* The argument list of run_search: no gate means nothing is evaluated, and
\* evaluate_hashes = None means every configuration is.
CallOf(req, thePlan, skip) ==
  [points |-> thePlan.points, workload |-> req.workload, skip |-> skip,
   gate |-> req.gate,
   evaluate_hashes |-> IF thePlan.skipped THEN thePlan.evaluate_hashes
                                          ELSE Configs]

PlanOf(req) ==
  Plan(req.branch, SelectPoints(req.branch, req.mode, req.only, req.limit), req.gate)

Calls == { CallOf(req, PlanOf(req), skip) :
             req \in Requests, skip \in SUBSET (Configs \X Workloads) }

Search == INSTANCE Driver

\* Between invocations nothing is being searched.
NoCall == [points |-> << >>, workload |-> << >>, skip |-> {}, gate |-> FALSE,
           evaluate_hashes |-> {}]

\* A line of results.jsonl, with the number of the invocation that wrote it.
Line == [rec : Search!Record, inv : 1 .. MaxInvocations]

Key(r) == <<r.config_hash, r.label>>
Keys(lines) == { Key(lines[n].rec) : n \in DOMAIN lines }

ASSUME RunConstants ==
  /\ MaxInvocations \in Nat
  /\ Baseline \in Labels
  /\ Accuracies \ {NoMetric} \subseteq Int
  /\ Tolerance \in Nat
  /\ HigherBetter \in BOOLEAN
  /\ Repeats \in Nat
  /\ None \notin Accuracies /\ None \notin Configs /\ None \notin BOOLEAN
  /\ None \notin Requests

\* The command lines considered get as far as a plan: their branch is one the
\* schema accepts, and a focused grid is asked for only where one is declared.
ASSUME PlannedRequests ==
  \A req \in Requests :
    /\ req.workload \in Seq(Workloads)
    /\ req.gate \in BOOLEAN /\ req.force \in BOOLEAN
    /\ req.branch.name \in Branches
    /\ ValidBranch(req.branch) /\ DeclaresLists(req.branch)
    /\ req.mode # "ofat" => req.branch.focused_grid # None
    /\ req.limit \in Int
    /\ PlanOf(req).points \in Seq(Search!ConfigPoint)

-----------------------------------------------------------------------------
Init ==
  /\ step = "idle"
  /\ request = None
  /\ plan = None
  /\ skip_keys = {}
  /\ inv = 0
  /\ file = << >>
  /\ tail = "clean"
  /\ manifest = None
  /\ history = << >>
  /\ open_line = FALSE
  /\ call = NoCall
  /\ pc = "next"
  /\ i = 0
  /\ pending = {}
  /\ wp = 0
  /\ session = None
  /\ runs = 0
  /\ last_accuracy = None
  /\ baseline_score = None
  /\ stamp = Search!NoStamp
  /\ batch = << >>
  /\ results = << >>
  /\ stream = << >>
  /\ evals = << >>

\* The process is gone and its memory with it.
Exit ==
  /\ step' = "idle"
  /\ request' = None
  /\ plan' = None
  /\ skip_keys' = {}
  /\ UNCHANGED inv
  /\ Search!Begin(NoCall)

\* An invocation gets past its arguments and its plan: the search is not empty.
Invoke ==
  /\ step = "idle"
  /\ inv < MaxInvocations
  /\ \E req \in Requests :
       /\ PlanOf(req).points # << >>
       /\ request' = req
       /\ plan' = PlanOf(req)
  /\ inv' = inv + 1
  /\ step' = "keys"
  /\ UNCHANGED <<skip_keys, disk, searchVars>>

\* Mutant of SkipKeys: --force discards the file and still skips its keys.
KeysOnDisk == Keys(file)

\* Mutant of SkipKeys: nothing is reused.
NoKeys == {}

\* set() if force else read_skip_keys(out_path)
SkipKeys == IF request.force THEN {} ELSE Keys(file)

\* Mutant of AfterKeys: results.jsonl is discarded unasked.
AlwaysUnlink == "unlink"

AfterKeys == IF request.force THEN "unlink" ELSE "manifest"

ReadKeys ==
  /\ step = "keys"
  /\ request.force \/ tail # "partial"
  /\ skip_keys' = SkipKeys
  /\ step' = AfterKeys
  /\ UNCHANGED <<request, plan, inv, disk, searchVars>>

\* A line that is not JSON: read_jsonl raises and the invocation is over.
ReadFails ==
  /\ step = "keys"
  /\ ~request.force
  /\ tail = "partial"
  /\ Exit
  /\ UNCHANGED disk

\* --force discards the file that is there.
Unlink ==
  /\ step = "unlink"
  /\ file' = << >>
  /\ tail' = "clean"
  /\ step' = "manifest"
  /\ UNCHANGED <<request, plan, skip_keys, inv, manifest, history, open_line,
                 searchVars>>

\* The manifest as it is first written: the spot-check has no result yet.
NewManifest ==
  [inv |-> inv, force |-> request.force, gate |-> request.gate,
   branch |-> request.branch.name, skipped |-> plan.skipped,
   spot |-> IF plan.skipped THEN plan.spot.hash ELSE None,
   gate_result |-> Search!NoStamp]

\* write_json replaces manifest.json
WriteManifest ==
  /\ step = "manifest"
  /\ manifest' = NewManifest
  /\ step' = "history"
  /\ UNCHANGED <<request, plan, skip_keys, inv, file, tail, history, open_line,
                 searchVars>>

\* Mutant of HistoryWith: the file is opened for writing, not for appending.
HistoryOf(m, whole) == << [of |-> {m}, readable |-> whole] >>

\* manifests.jsonl with one more manifest, the whole of its JSON or a part.  A
\* line without a newline takes it, and cannot be read from then on.
HistoryWith(m, whole) ==
  IF open_line
    THEN [history EXCEPT ![Len(history)] =
            [of |-> history[Len(history)].of \cup {m}, readable |-> FALSE]]
    ELSE Append(history, [of |-> {m}, readable |-> whole])

\* manifests.jsonl takes the same manifest
AppendHistory ==
  /\ step = "history"
  /\ history' = HistoryWith(NewManifest, TRUE)
  /\ open_line' = FALSE
  /\ step' = "search"
  /\ Search!Begin(CallOf(request, plan, skip_keys))
  /\ UNCHANGED <<request, plan, skip_keys, inv, file, tail, manifest>>

Stamped(records) == [n \in DOMAIN records |-> [rec |-> records[n], inv |-> inv]]

\* What on_result takes is written and flushed; a line that follows one
\* without its newline makes a line that is not JSON.
Write(records) ==
  /\ file' = file \o Stamped(records)
  /\ tail' = IF records = << >> \/ tail = "clean" THEN tail ELSE "partial"

\* A step of run_search that on_result does not fail in.
SearchStep ==
  /\ step = "search"
  /\ Search!Progress \/ Search!Unwind \/ Search!LaunchFails
       \/ Search!StampFails \/ Search!MeasureFails
  /\ Write(SubSeq(stream', Len(stream) + 1, Len(stream')))
  /\ UNCHANGED <<mainVars, manifest, history, open_line>>

\* The write or the flush raises.  What is buffered may still reach the file
\* when it is closed, and a full disk can keep the end of the line.
SinkFails ==
  /\ step = "search"
  /\ Search!EmitFails
  /\ \/ Write(<< >>)
     \/ Write(<< Search!NewRecord >>)
     \/ Tears /\ tail' = "partial" /\ UNCHANGED file
  /\ UNCHANGED <<mainVars, manifest, history, open_line>>

\* Mutant of Returned: an invocation that measured nothing hangs.
ReturnedSomething == pc = "returned" /\ results # << >>

Returned == pc = "returned"

\* run_search returned; a skipping search goes on to record its spot-check.
SearchReturned ==
  /\ step = "search"
  /\ Returned
  /\ \/ /\ plan.skipped
        /\ step' = "result"
        /\ UNCHANGED <<request, plan, skip_keys, inv, searchVars>>
     \/ ~plan.skipped /\ Exit
  /\ UNCHANGED disk

\* run_search raised: main has no handler.
SearchRaised ==
  /\ step = "search"
  /\ pc = "raised"
  /\ Exit
  /\ UNCHANGED disk

\* Mutant of SpotResults: whatever was measured first.
FirstResults == DOMAIN results

\* Where the results of this call are the spot-check's.
SpotResults == { n \in DOMAIN results : results[n].config_hash = plan.spot.hash }

\* Mutant of GateResult: without the verdict.
AccuracyOnly(record) == [accuracy |-> record.accuracy]

GateResult(record) ==
  [accuracy |-> record.accuracy, quality_pass |-> record.quality_pass]

\* manifest.json is rewritten with the gate result of the spot-check's first
\* record, if this call made one.
RecordSpotResult ==
  /\ step = "result"
  /\ \/ SpotResults = {} /\ UNCHANGED manifest
     \/ \E n \in SpotResults :
          /\ \A m \in SpotResults : n <= m
          /\ manifest' = [manifest EXCEPT !.gate_result = GateResult(results[n])]
  /\ Exit
  /\ UNCHANGED <<file, tail, history, open_line>>

\* Cut short, the record on its way is on disk in part or without its newline.
RecordCut ==
  /\ step = "search" /\ pc = "measure" /\ runs = Repeats
  /\ \/ tail' = "partial" /\ UNCHANGED file
     \/ /\ tail = "clean"
        /\ file' = file \o Stamped(<< Search!NewRecord >>)
        /\ tail' = "unended"
  /\ UNCHANGED <<manifest, history, open_line>>

\* The manifest on its way to manifests.jsonl is there in part, or the whole of
\* it without its newline.
HistoryCut ==
  /\ step = "history"
  /\ \E whole \in BOOLEAN : history' = HistoryWith(NewManifest, whole)
  /\ open_line' = TRUE
  /\ UNCHANGED <<file, tail, manifest>>

\* write_json has truncated manifest.json and not filled it again.
ManifestCut ==
  /\ \/ step = "manifest"
     \/ step = "result" /\ SpotResults # {}
  /\ manifest' = None
  /\ UNCHANGED <<file, tail, history, open_line>>

\* The process is killed, or a write of main raises, which it has no handler
\* for: what the operating system took is on disk, and of the text being
\* written perhaps a part.  (Nothing is fsynced: a machine that goes down may
\* lose more than that, and is not modelled.)
Crash ==
  /\ step # "idle"
  /\ Exit
  /\ \/ UNCHANGED disk
     \/ Tears /\ (RecordCut \/ HistoryCut \/ ManifestCut)

\* What an invocation does by itself.
Advance ==
  \/ ReadKeys \/ ReadFails \/ Unlink \/ WriteManifest \/ AppendHistory
  \/ SearchStep \/ SinkFails \/ SearchReturned \/ SearchRaised
  \/ RecordSpotResult

Next == Invoke \/ Advance \/ Crash

Spec == Init /\ [][Next]_vars

\* An invocation that is not killed runs to its end; nobody is obliged to
\* start another one.
FairSpec == Spec /\ WF_vars(Advance)

-----------------------------------------------------------------------------
(* Properties *)

Manifest == [inv : 1 .. MaxInvocations, force : BOOLEAN, gate : BOOLEAN,
             branch : Branches, skipped : BOOLEAN, spot : Configs \cup {None},
             gate_result : Search!Stamp]

HistoryLine == [of : SUBSET Manifest, readable : BOOLEAN]

TypeOK ==
  /\ step \in {"idle", "keys", "unlink", "manifest", "history", "search", "result"}
  /\ request \in Requests \cup {None}
  /\ skip_keys \subseteq Configs \X Workloads
  /\ inv \in 0 .. MaxInvocations
  /\ file \in Seq(Line)
  /\ \A n \in DOMAIN file : file[n].inv <= inv
  /\ tail \in {"clean", "partial", "unended"}
  /\ manifest = None \/ manifest \in Manifest
  /\ history \in Seq(HistoryLine)
  /\ open_line \in BOOLEAN
  /\ pc \in Search!PCs

\* The result set is a ledger: over every sequence of invocations, failures
\* and crashes an identity is recorded once and stays recorded, unless an
\* invocation was asked to re-measure.
AbstractLedger ==
  INSTANCE Ledger WITH
    Identities <- Configs \X Workloads,
    recorded   <- [n \in DOMAIN file |-> Key(file[n].rec)],
    forced     <- request # None /\ request.force

ImplementsLedger == AbstractLedger!Spec

\* The manifest of the invocation of that number can be read back, or it went
\* into the line that manifests cut short have begun, none of whose invocations
\* has a record on disk.
Documented(number) ==
  \E line \in Range(history) : \E m \in line.of :
    /\ m.inv = number
    /\ line.readable \/ line.of # {m}
    /\ \A other \in line.of \ {m} :
         other.inv < number /\ \A n \in DOMAIN file : file[n].inv # other.inv

\* Wherever an invocation is cut short, a record on disk was made by an
\* invocation whose manifest can be read in manifests.jsonl, but for the first
\* to get through after manifests were cut short: its line is not JSON (run.py
\* appends without looking at how the file ends).
RecordsHaveManifest == \A n \in DOMAIN file : Documented(file[n].inv)

\* When the search of an invocation has returned, everything it was asked to
\* measure is recorded, by it or by an earlier one.
ReturnedMeansRecorded ==
  (step = "search" /\ pc = "returned") \/ step = "result" =>
    { p.hash : p \in Range(plan.points) } \X Range(request.workload) \subseteq Keys(file)

\* No server is launched for a configuration whose requested points earlier
\* invocations have all recorded, unless re-measurement was asked for.
NoLaunchForRecorded ==
  session # None =>
    \E w \in Range(request.workload) :
      \A n \in DOMAIN file :
        file[n].inv < inv => Key(file[n].rec) # <<session, w>>

\* The gate result written into manifest.json is that of the spot-check's own
\* evaluation in this invocation, and is the one its records carry.
SpotMeasured ==
  manifest' \notin {manifest, None} /\ manifest'.gate_result # Search!NoStamp =>
    /\ \E e \in Range(evals) :
         e.hash = plan.spot.hash /\ e.accuracy = manifest'.gate_result.accuracy
    /\ \E n \in DOMAIN file :
         /\ file[n].inv = inv
         /\ file[n].rec.config_hash = plan.spot.hash
         /\ file[n].rec.quality_pass = manifest'.gate_result.quality_pass

SpotResultIsMeasured == [][SpotMeasured]_vars

\* An invocation that is not killed comes to an end.
InvocationsEnd == request # None ~> request = None

-----------------------------------------------------------------------------
(* What the documents say and the code does not do *)

\* run.md:77: with the gate enabled "gsm8k is evaluated once per launched
\* config" and "each record is stamped with the accuracy and a quality_pass
\* flag".  A search of accuracy-invariant arguments is exempt (run.md:80-82).
EveryRecordJudged ==
  \A n \in DOMAIN file :
    ( \E line \in Range(history) : \E m \in line.of :
        m.inv = file[n].inv /\ m.gate /\ ~m.skipped ) =>
      file[n].rec.quality_pass \in BOOLEAN

\* RFC-0001 C-QUALITY-GATE: evaluation may be skipped "provided that" the
\* spot-check "is gate-evaluated and passes".
SpotFailureDisqualifies ==
  ( /\ step = "result"
    /\ \E n \in DOMAIN results : /\ results[n].config_hash = plan.spot.hash
                                /\ results[n].quality_pass = FALSE ) =>
    \A n \in DOMAIN results :
      results[n].quality_pass = TRUE => results[n].config_hash \in plan.evaluate_hashes

\* run.md:16: "a mid-run crash keeps the finished points": the next invocation
\* can read them.
FinishedPointsReadable ==
  step = "keys" /\ file # << >> => tail # "partial"
=============================================================================
