---------------------------- MODULE StartupProofs ----------------------------
(***************************************************************************)
(* Proofs about Startup: the configurations the two commands expand a      *)
(* branch into are the ones the reference definitions say, and a saved     *)
(* directory names what it holds, for every set of requests.               *)
(***************************************************************************)
EXTENDS Startup, GenerateProofs

-----------------------------------------------------------------------------
(* A branch that the validators accept *)

\* No two candidates have one name: the names are as many as the candidates.
LEMMA OneOfEachName ==
  ASSUME NEW b, ValidBranch(b), DeclaresLists(b)
  PROVE  /\ \A n, k \in DOMAIN b.candidate : b.candidate[n].name = b.candidate[k].name => n = k
         /\ \A c, d \in Range(b.candidate) : c.name = d.name => c = d
         /\ IsFiniteSet(CandidateNames(b))
  <1> DEFINE cand == b.candidate
             N == Len(cand)
             name == [n \in 1 .. N |-> cand[n].name]
             names == CandidateNames(b)
  <1>1. N \in Nat /\ DOMAIN cand = 1 .. N
    BY DEF DeclaresLists, IsList
  <1>2. Range(cand) = { cand[n] : n \in 1 .. N }
    BY <1>1 DEF Range
  <1>3. Cardinality(names) = N
    BY DEF ValidBranch
  <1>4. names = { cand[n].name : n \in 1 .. N }
    BY <1>2 DEF CandidateNames
  <1>5. name \in Surjection(1 .. N, names)
    <2>1. name \in [1 .. N -> names]
      BY <1>4
    <2>2. \A t \in names : \E n \in 1 .. N : name[n] = t
      BY <1>4
    <2> HIDE DEF name, names
    <2> QED
      BY <2>1, <2>2 DEF Surjection
  <1>6. IsFiniteSet(1 .. N) /\ Cardinality(1 .. N) = N
    BY <1>1, FS_Interval
  <1> HIDE DEF name, names, N
  <1>7. IsFiniteSet(names) /\ name \in Injection(1 .. N, names)
    BY <1>3, <1>5, <1>6, FS_Surjection
  <1>8. \A n, k \in 1 .. N : name[n] = name[k] => n = k
    BY <1>7 DEF Injection, IsInjective
  <1>9. \A n, k \in 1 .. N : cand[n].name = cand[k].name => n = k
    BY <1>8 DEF name
  <1> QED
    BY <1>1, <1>2, <1>7, <1>9 DEF names

LEMMA ValuesOfOne ==
  ASSUME NEW b, ValidBranch(b), DeclaresLists(b), NEW c \in Range(b.candidate)
  PROVE  ValuesOf(b, c.name) = Range(c.values)
  <1>1. { d \in Range(b.candidate) : d.name = c.name } = {c}
    BY OneOfEachName
  <1> QED
    BY <1>1 DEF ValuesOf

\* What the assembled arguments hold.
LEMMA Assembled ==
  ASSUME NEW b, ValidBranch(b), NEW overrides, DOMAIN overrides \subseteq CandidateNames(b)
  PROVE  LET args == Assemble(b, overrides)
             chosen == [n \in CandidateNames(b) |->
                          IF n \in DOMAIN overrides THEN overrides[n] ELSE b.baseline[n]]
         IN /\ args = Updated(b.fixed, chosen)
            /\ \A n \in CandidateNames(b) : args[n] = chosen[n]
  <1>1. DOMAIN b.baseline = CandidateNames(b)
    BY DEF ValidBranch
  <1> QED
    BY <1>1 DEF Assemble, MergedBaseline, Updated

LEMMA LegalIsValid ==
  ASSUME NEW args
  PROVE  Legal(args) <=> IsValid(branch, args)
  BY DEF Legal, IsValid, ViolatedBy

\* The configurations a branch declares, each by what its candidates are set to.
FullChoices == { f \in [CandidateNames(branch) ->
                      UNION { ValuesOf(branch, n) : n \in CandidateNames(branch) }] :
               \A n \in CandidateNames(branch) : f[n] \in ValuesOf(branch, n) }

LEMMA FullByChoice ==
  /\ FullConfigs = { Updated(branch.fixed, f) : f \in FullChoices }
  /\ \A f \in FullChoices : /\ DOMAIN f = CandidateNames(branch)
                        /\ \A n \in CandidateNames(branch) : Updated(branch.fixed, f)[n] = f[n]
  <1>1. FullConfigs = { Updated(branch.fixed, f) : f \in FullChoices }
    BY DEF FullConfigs, FullChoices
  <1>2. \A f \in FullChoices : /\ DOMAIN f = CandidateNames(branch)
                           /\ \A n \in CandidateNames(branch) : Updated(branch.fixed, f)[n] = f[n]
    BY DEF FullChoices, Updated
  <1> QED
    BY <1>1, <1>2

\* A function that stays within what is declared is such a choice.
LEMMA IsChoice ==
  ASSUME NEW f, f = [n \in CandidateNames(branch) |-> f[n]],
         \A n \in CandidateNames(branch) : f[n] \in ValuesOf(branch, n)
  PROVE  f \in FullChoices
  BY DEF FullChoices

-----------------------------------------------------------------------------
(* The OFAT sweep *)

OneAtATime == { c \in FullConfigs : Legal(c) /\ Cardinality(Departs(c)) <= 1 }

LEMMA OfatHashes ==
  ASSUME ValidBranch(branch), DeclaresLists(branch)
  PROVE  HashesIn(GenerateOfat(branch)) = OneAtATime
  <1> DEFINE names == CandidateNames(branch)
             base == branch.baseline
             Kept(o) == ~ IsBaseline(branch, o) /\ IsValid(branch, Assemble(branch, o))
             Made == { Assemble(branch, NoArgs) } \cup
                       { Assemble(branch, o) : o \in { q \in OneOverride(branch) : Kept(q) } }
  <1>1. HashesIn(GenerateOfat(branch)) = Made
    BY OfatPoints
  <1>2. /\ DOMAIN base = names
        /\ \A n \in names : base[n] \in ValuesOf(branch, n)
        /\ IsValid(branch, MergedBaseline(branch))
    BY DEF ValidBranch, IsValid
  <1>3. IsFiniteSet(names)
    BY OneOfEachName
  <1>4. Assemble(branch, NoArgs) \in OneAtATime
    <2> DEFINE f == [n \in names |-> base[n]]
               args == Assemble(branch, NoArgs)
    <2>1. f \in FullChoices
      BY <1>2, IsChoice
    <2>2. DOMAIN NoArgs = {}
      BY DEF NoArgs
    <2>3. args = Updated(branch.fixed, f) /\ \A n \in names : args[n] = base[n]
      BY <2>2, Assembled
    <2>4. args = MergedBaseline(branch)
      BY <2>2 DEF Assemble, Updated, MergedBaseline
    <2>5. Departs(args) = {}
      BY <2>3 DEF Departs
    <2>6. args \in FullConfigs
      BY <2>1, <2>3, FullByChoice
    <2>7. Legal(args)
      BY <1>2, <2>4, LegalIsValid
    <2>8. Cardinality(Departs(args)) = 0
      BY <2>5, FS_EmptySet
    <2> HIDE DEF args
    <2>9. args \in OneAtATime
      BY <2>6, <2>7, <2>8 DEF OneAtATime
    <2> QED
      BY <2>9 DEF args
  <1>5. ASSUME NEW o \in OneOverride(branch), Kept(o)
        PROVE  Assemble(branch, o) \in OneAtATime
    <2>0. PICK c \in Range(branch.candidate) : \E v \in Range(c.values) : o = Single(c.name, v)
      BY DEF OneOverride
    <2>1. PICK v \in Range(c.values) : o = Single(c.name, v)
      BY <2>0
    <2> DEFINE f == [n \in names |-> IF n \in DOMAIN o THEN o[n] ELSE base[n]]
               args == Assemble(branch, o)
    <2>2. DOMAIN o = {c.name} /\ o[c.name] = v /\ c.name \in names
      BY <2>1 DEF Single, CandidateNames
    <2>3. v \in ValuesOf(branch, c.name)
      BY ValuesOfOne
    <2>4. f \in FullChoices
      <3>1. \A n \in names : f[n] \in ValuesOf(branch, n)
        BY <1>2, <2>2, <2>3
      <3> QED
        BY <3>1, IsChoice
    <2>5. args = Updated(branch.fixed, f) /\ \A n \in names : args[n] = f[n]
      BY <2>2, Assembled
    <2>6. args \in FullConfigs
      BY <2>4, <2>5, FullByChoice
    <2>7. Legal(args)
      BY <1>5, LegalIsValid
    <2>8. Departs(args) \subseteq {c.name}
      BY <2>2, <2>5 DEF Departs
    <2> HIDE DEF args
    <2>9. Cardinality(Departs(args)) <= 1
      <3> DEFINE one == {c.name}
                 set == Departs(args)
      <3>1. set \in SUBSET one /\ IsFiniteSet(one) /\ Cardinality(one) = 1
        BY <2>8, FS_Singleton
      <3> HIDE DEF one, set
      <3>2. Cardinality(set) <= 1
        BY <3>1, FS_Subset
      <3> QED
        BY <3>2 DEF set
    <2>10. args \in OneAtATime
      BY <2>6, <2>7, <2>9 DEF OneAtATime
    <2> QED
      BY <2>10 DEF args
  <1>6. ASSUME NEW args \in OneAtATime
        PROVE  args \in Made
    <2>1. args \in FullConfigs /\ Legal(args) /\ Cardinality(Departs(args)) <= 1
      BY DEF OneAtATime
    <2>2. PICK f \in FullChoices : args = Updated(branch.fixed, f) /\ \A n \in names : args[n] = f[n]
      BY <2>1, FullByChoice
    <2>3. /\ f = [n \in names |-> f[n]]
          /\ \A n \in names : f[n] \in ValuesOf(branch, n)
          /\ Departs(args) = { n \in names : f[n] # base[n] }
      BY <2>2 DEF FullChoices, Departs
    <2>4. Departs(args) \in SUBSET names
      BY <2>3
    <2>5. IsFiniteSet(Departs(args)) /\ Cardinality(Departs(args)) \in Nat
      BY <1>3, <2>4, FS_Subset, FS_CardinalityType
    <2>6. CASE Cardinality(Departs(args)) = 0
      <3>1. Departs(args) = {}
        BY <2>5, <2>6, FS_EmptySet
      <3>2. \A n \in names : f[n] = base[n]
        BY <2>3, <3>1
      <3>3. DOMAIN NoArgs = {}
        BY DEF NoArgs
      <3>4. Assemble(branch, NoArgs) = Updated(branch.fixed, [n \in names |-> base[n]])
        BY <3>3, Assembled
      <3>5. f = [n \in names |-> base[n]]
        BY <2>3, <3>2
      <3> QED
        BY <2>2, <3>4, <3>5
    <2>7. CASE Cardinality(Departs(args)) = 1
      <3>1. PICK name : Departs(args) = {name}
        BY <2>5, <2>7, FS_Singleton
      <3>2. name \in names /\ f[name] # base[name] /\ \A n \in names \ {name} : f[n] = base[n]
        BY <2>3, <3>1
      <3>3. PICK c \in Range(branch.candidate) : c.name = name
        BY <3>2 DEF CandidateNames
      <3> DEFINE v == f[name]
                 o == Single(name, v)
                 g == [n \in names |-> IF n \in DOMAIN o THEN o[n] ELSE base[n]]
      <3>4. v \in Range(c.values)
        BY <2>3, <3>2, <3>3, ValuesOfOne
      <3>5. o \in OneOverride(branch)
        BY <3>3, <3>4 DEF OneOverride
      <3>6. DOMAIN o = {name} /\ o[name] = v
        BY DEF Single
      <3>7. g = f
        BY <2>3, <3>2, <3>6
      <3>8. Assemble(branch, o) = Updated(branch.fixed, g)
        BY <3>2, <3>6, Assembled
      <3>9. Assemble(branch, o) = args
        BY <2>2, <3>7, <3>8
      <3>10. ~ IsBaseline(branch, o)
        BY <3>2, <3>6 DEF IsBaseline
      <3>11. IsValid(branch, Assemble(branch, o))
        BY <2>1, <3>9, LegalIsValid
      <3> HIDE DEF o
      <3> QED
        BY <3>5, <3>9, <3>10, <3>11
    <2> QED
      BY <2>1, <2>5, <2>6, <2>7
  <1> HIDE DEF Kept
  <1>7. Made = OneAtATime
    BY <1>4, <1>5, <1>6
  <1> QED
    BY <1>1, <1>7

-----------------------------------------------------------------------------
(* The focused grid *)

JointAtPins ==
  { c \in FullConfigs :
      /\ Legal(c)
      /\ \A n \in CandidateNames(branch) \ Range(branch.focused_grid.args) :
           c[n] = branch.focused_grid.pins[n] }

LEMMA GridDeclared ==
  ASSUME ValidBranch(branch), DeclaresLists(branch), branch.focused_grid # None
  PROVE  LET fg == branch.focused_grid
         IN /\ fg.args \in Seq(CandidateNames(branch)) /\ Different(fg.args)
            /\ Range(fg.args) \subseteq CandidateNames(branch)
            /\ DOMAIN fg.pins = CandidateNames(branch) \ Range(fg.args)
            /\ \A n \in DOMAIN fg.pins : fg.pins[n] \in ValuesOf(branch, n)
            /\ KeptPins(fg) = [n \in DOMAIN fg.pins |-> fg.pins[n]]
  <1> DEFINE fg == branch.focused_grid
             names == CandidateNames(branch)
  <1>1. /\ IsInjective(fg.args) /\ Range(fg.args) \subseteq names
        /\ DOMAIN fg.pins \subseteq names \ Range(fg.args)
        /\ \A n \in DOMAIN fg.pins : fg.pins[n] \in ValuesOf(branch, n)
        /\ names \subseteq Range(fg.args) \cup DOMAIN fg.pins
    BY DEF ValidBranch, ValidGrid
  <1>2. fg.args \in Seq(Range(fg.args))
    BY DEF DeclaresLists, IsList
  <1>3. fg.args \in Seq(names)
    BY <1>1, <1>2
  <1>4. Different(fg.args)
    BY <1>1 DEF Different, IsInjective
  <1>5. DOMAIN fg.pins = names \ Range(fg.args)
    BY <1>1
  <1>6. KeptPins(fg) = [n \in DOMAIN fg.pins |-> fg.pins[n]]
    BY <1>5 DEF KeptPins
  <1> QED
    BY <1>1, <1>3, <1>4, <1>5, <1>6

LEMMA GridHashes ==
  ASSUME ValidBranch(branch), DeclaresLists(branch), branch.focused_grid # None
  PROVE  HashesIn(GenerateGrid(branch)) = JointAtPins
  <1> DEFINE fg == branch.focused_grid
             names == CandidateNames(branch)
             swept == Range(fg.args)
             pins == KeptPins(fg)
             With(o) == Updated(pins, o)
             Args(o) == Assemble(branch, With(o))
             J == Joint(branch, fg.args)
             Made == { Args(o) : o \in { f \in J : IsValid(branch, Args(f)) } }
  <1>1. /\ fg.args \in Seq(names) /\ Different(fg.args) /\ swept \subseteq names
        /\ DOMAIN fg.pins = names \ swept
        /\ \A n \in DOMAIN fg.pins : fg.pins[n] \in ValuesOf(branch, n)
        /\ pins = [n \in DOMAIN fg.pins |-> fg.pins[n]]
    BY GridDeclared
  <1>2. HashesIn(GenerateGrid(branch)) = Made
    <2>1. GenerateGrid(branch) = JointSweep(branch, fg.args, pins)
      BY DEF GenerateGrid
    <2> DEFINE b == branch
               args == fg.args
    <2>2. DeclaresLists(b) /\ args \in Seq(CandidateNames(b)) /\ Different(args)
      BY <1>1
    <2> HIDE DEF pins, b, args
    <2>3. HashesIn(JointSweep(b, args, pins)) =
            { Assemble(b, Updated(pins, o)) : o \in { f \in Joint(b, args) :
                IsValid(b, Assemble(b, Updated(pins, f))) } }
      BY <2>2, JointPoints
    <2> QED
      BY <2>1, <2>3 DEF b, args
  <1>3. \A n \in swept : Range(CandidateOf(branch, n).values) = ValuesOf(branch, n)
    <2>1. \A n \in names : /\ CandidateOf(branch, n) \in Range(branch.candidate)
                           /\ CandidateOf(branch, n).name = n
      BY CandidateNamed
    <2>2. \A c \in Range(branch.candidate) : ValuesOf(branch, c.name) = Range(c.values)
      BY ValuesOfOne
    <2>3. ASSUME NEW n \in names
          PROVE  Range(CandidateOf(branch, n).values) = ValuesOf(branch, n)
      <3> DEFINE c == CandidateOf(branch, n)
      <3>1. c \in Range(branch.candidate) /\ c.name = n
        BY <2>1
      <3> HIDE DEF c
      <3>2. ValuesOf(branch, n) = Range(c.values)
        BY <2>2, <3>1
      <3> QED
        BY <3>2 DEF c
    <2> QED
      BY <1>1, <2>3
  <1>4. ASSUME NEW o \in J
        PROVE  /\ DOMAIN o = swept /\ DOMAIN With(o) = names
               /\ \A n \in swept : o[n] \in ValuesOf(branch, n) /\ With(o)[n] = o[n]
               /\ \A n \in names \ swept : With(o)[n] = fg.pins[n]
    <2>1. DOMAIN o = swept /\ \A n \in swept : o[n] \in ValuesOf(branch, n)
      BY <1>3 DEF Joint
    <2>2. With(o) = [n \in names |-> IF n \in swept THEN o[n] ELSE fg.pins[n]]
      BY <1>1, <2>1 DEF Updated
    <2> QED
      BY <1>1, <2>1, <2>2
  <1> HIDE DEF With, J
  <1>5. ASSUME NEW o \in J, IsValid(branch, Args(o))
        PROVE  Args(o) \in JointAtPins
    <2> DEFINE w == With(o)
               f == [n \in names |-> IF n \in DOMAIN w THEN w[n] ELSE branch.baseline[n]]
               args == Args(o)
    <2>1. DOMAIN w = names /\ \A n \in names : f[n] = w[n]
      BY <1>4
    <2>2. \A n \in names : w[n] \in ValuesOf(branch, n)
      BY <1>1, <1>4
    <2>3. f \in FullChoices
      BY <2>1, <2>2, IsChoice
    <2>4. args = Updated(branch.fixed, f) /\ \A n \in names : args[n] = f[n]
      BY <2>1, Assembled
    <2>5. args \in FullConfigs
      BY <2>3, <2>4, FullByChoice
    <2>6. Legal(args)
      BY <1>5, LegalIsValid
    <2>7. \A n \in names \ swept : args[n] = fg.pins[n]
      BY <1>4, <2>1, <2>4
    <2> HIDE DEF args
    <2>8. args \in JointAtPins
      BY <2>5, <2>6, <2>7 DEF JointAtPins
    <2> QED
      BY <2>8 DEF args
  <1>6. ASSUME NEW args \in JointAtPins
        PROVE  args \in Made
    <2>1. args \in FullConfigs /\ Legal(args) /\ \A n \in names \ swept : args[n] = fg.pins[n]
      BY DEF JointAtPins
    <2>2. PICK f \in FullChoices : args = Updated(branch.fixed, f) /\ \A n \in names : args[n] = f[n]
      BY <2>1, FullByChoice
    <2>3. f = [n \in names |-> f[n]] /\ \A n \in names : f[n] \in ValuesOf(branch, n)
      BY <2>2 DEF FullChoices
    <2> DEFINE o == [n \in swept |-> f[n]]
               w == With(o)
               g == [n \in names |-> IF n \in DOMAIN w THEN w[n] ELSE branch.baseline[n]]
    <2>4. o \in J
      <3>1. \A n \in names : ValuesOf(branch, n) \subseteq AllValues(branch)
        BY DEF ValuesOf, AllValues
      <3>2. \A n \in swept : f[n] \in AllValues(branch) /\ f[n] \in ValuesOf(branch, n)
        BY <1>1, <2>3, <3>1
      <3>3. o \in [swept -> AllValues(branch)]
        BY <3>2
      <3>4. \A n \in swept : o[n] \in Range(CandidateOf(branch, n).values)
        BY <1>3, <3>2
      <3> HIDE DEF o
      <3> QED
        BY <3>3, <3>4 DEF J, Joint
    <2>5. DOMAIN w = names /\ \A n \in names : w[n] = f[n]
      <3>1. \A n \in swept : o[n] = f[n]
        OBVIOUS
      <3>2. \A n \in names \ swept : fg.pins[n] = f[n]
        BY <2>1, <2>2
      <3> HIDE DEF o
      <3>3. DOMAIN w = names /\ (\A n \in swept : w[n] = o[n])
            /\ \A n \in names \ swept : w[n] = fg.pins[n]
        BY <1>4, <2>4
      <3> QED
        BY <3>1, <3>2, <3>3
    <2> HIDE DEF o
    <2>6. Args(o) = Updated(branch.fixed, g)
      BY <2>5, Assembled
    <2>7. g = f
      BY <2>3, <2>5
    <2>8. Args(o) = args
      BY <2>2, <2>6, <2>7
    <2>9. IsValid(branch, Args(o))
      BY <2>1, <2>8, LegalIsValid
    <2> HIDE DEF Args
    <2> QED
      BY <2>4, <2>8, <2>9
  <1> HIDE DEF Args
  <1>7. Made = JointAtPins
    BY <1>5, <1>6
  <1> QED
    BY <1>2, <1>7

-----------------------------------------------------------------------------
(* The invariant *)

ExpansionOf(req) == IF req.mode = "ofat" THEN GenerateOfat(req.branch)
                                        ELSE GenerateGrid(req.branch)

AllPoints == UNION { Range(ExpansionOf(req)) : req \in Requests }

\* A request gets past the validators, and past the grid it asks for, before
\* anything is selected; what is selected is what the branch expands into.
RequestInv ==
  /\ request \in Requests
  /\ phase \in {"select", "plan", "ready", "open", "write", "saved", "killed"} =>
       ValidBranch(branch)
  /\ phase \in {"plan", "ready", "open", "write", "saved"} =>
       (request.mode = "grid" => branch.focused_grid # None)
  /\ phase \in {"plan", "ready"} =>
       /\ request.command = "run"
       /\ selected = SelectPoints(branch, request.mode, request.only, request.limit)
       /\ workload = SelectWorkload(request.work.axes, request.work.role,
                                    request.work.concurrency, request.work.isl_osl,
                                    request.work.limit)
  /\ phase = "ready" => plan = Plan(branch, selected, request.gate)
  /\ phase \in {"open", "write", "saved"} =>
       /\ request.command = "generate"
       /\ selected = ExpansionOf(request)

Named(index, files) ==
  \A n \in DOMAIN index : /\ FileName(n, index[n]) \in DOMAIN files
                           /\ files[FileName(n, index[n])] = index[n]

\* The index of a mode holds points, each with its file.
NamedFiles ==
  \A mode \in DOMAIN directory :
    LET dir == directory[mode]
    IN /\ DOMAIN dir = {"index", "files", "manifest"}
       /\ dir.index \in Seq(AllPoints)
       /\ Named(dir.index, dir.files)

\* A save has put the first `written` of its points in the index.
SaveInv ==
  LET dir == directory[request.mode]
  IN /\ phase = "write" =>
          /\ written \in 0 .. Len(selected)
          /\ Len(dir.index) = written
          /\ \A n \in 1 .. written : dir.index[n] = selected[n]
     /\ phase = "saved" =>
          /\ dir.index = selected
          /\ request.mode = "grid" => dir.manifest = GridManifest(branch, selected)

StartupInv ==
  /\ RequestInv
  /\ DOMAIN directory = {"ofat", "grid"}
  /\ NamedFiles
  /\ SaveInv

-----------------------------------------------------------------------------
(* What an expansion is *)

\* Every point of an expansion is the branch's own, and of a grid's every one
\* has the pins.
LEMMA ExpansionPoints ==
  ASSUME ValidBranch(branch), DeclaresLists(branch), request.mode \in {"ofat", "grid"},
         request.mode = "grid" => branch.focused_grid # None
  PROVE  LET points == ExpansionOf(request)
         IN /\ points \in Seq(Range(points))
            /\ NoneTwice(points)
            /\ \A p \in Range(points) : p.branch = branch.name
            /\ request.mode = "grid" =>
                 \A p \in Range(points) : \A arg \in DOMAIN KeptPins(branch.focused_grid) :
                   p.hash[arg] = KeptPins(branch.focused_grid)[arg]
  <1>1. CASE request.mode = "ofat"
    <2> DEFINE points == GenerateOfat(branch)
               P == { BaselinePoint(branch) } \cup
                      { OfatPoint(branch, o) : o \in OneOverride(branch) }
    <2>1. points \in Seq(P) /\ NoneTwice(points)
      BY OfatPoints
    <2>2. \A p \in P : p.branch = branch.name
      BY DEF BaselinePoint, OfatPoint, Point
    <2> HIDE DEF P
    <2>3. Range(points) \subseteq P
      BY <2>1 DEF Range
    <2>4. points \in Seq(Range(points))
      BY <2>1, ListOver
    <2>5. ExpansionOf(request) = points
      BY <1>1 DEF ExpansionOf, branch
    <2> QED
      BY <1>1, <2>1, <2>2, <2>3, <2>4, <2>5
  <1>2. CASE request.mode = "grid"
    <2> DEFINE b == branch
               args == b.focused_grid.args
               pins == KeptPins(b.focused_grid)
               points == JointSweep(b, args, pins)
               P == { SweptPoint(b, pins, o) : o \in Joint(b, args) }
    <2>1. DeclaresLists(b) /\ args \in Seq(CandidateNames(b)) /\ Different(args)
          /\ DOMAIN pins = DOMAIN b.focused_grid.pins \ Range(args)
      BY <1>2, GridDeclared DEF KeptPins
    <2>2. ExpansionOf(request) = points
      BY <1>2 DEF ExpansionOf, branch, GenerateGrid
    <2> HIDE DEF b, args, pins
    <2>3. points \in Seq(P) /\ NoneTwice(points)
      BY <2>1, JointPoints
    <2>4. ASSUME NEW o \in Joint(b, args)
          PROVE  /\ SweptPoint(b, pins, o).branch = b.name
                 /\ \A arg \in DOMAIN pins : SweptPoint(b, pins, o).hash[arg] = pins[arg]
      <3>1. DOMAIN o = Range(args)
        BY DEF Joint
      <3>2. \A arg \in DOMAIN pins : arg \notin DOMAIN o
        BY <2>1, <3>1
      <3> DEFINE with == Updated(pins, o)
      <3>3. DOMAIN with = DOMAIN pins \cup DOMAIN o /\ \A arg \in DOMAIN pins : with[arg] = pins[arg]
        BY <3>2 DEF Updated
      <3> HIDE DEF with
      <3>4. \A arg \in DOMAIN with : Assemble(b, with)[arg] = with[arg]
        BY DEF Assemble, Updated
      <3>5. /\ SweptPoint(b, pins, o).branch = b.name
            /\ SweptPoint(b, pins, o).hash = Assemble(b, with)
        BY DEF SweptPoint, Point, with
      <3> QED
        BY <3>3, <3>4, <3>5
    <2>5. \A p \in P : p.branch = b.name /\ \A arg \in DOMAIN pins : p.hash[arg] = pins[arg]
      BY <2>4
    <2> HIDE DEF P, points
    <2>6. Range(points) \subseteq P
      BY <2>3 DEF Range
    <2>7. points \in Seq(Range(points))
      BY <2>3, ListOver
    <2> QED
      BY <1>2, <2>2, <2>3, <2>5, <2>6, <2>7 DEF b, pins
  <1> QED
    BY <1>1, <1>2

-----------------------------------------------------------------------------
(* The invariant is kept *)

LEMMA StartupInit == Init => StartupInv
  <1> SUFFICES ASSUME Init
               PROVE  StartupInv
    OBVIOUS
  <1>1. /\ request \in Requests /\ phase = "load" /\ DOMAIN directory = {"ofat", "grid"}
        /\ \A mode \in {"ofat", "grid"} :
             directory[mode] = [index |-> << >>, files |-> << >>, manifest |-> None]
    BY DEF Init
  <1>2. RequestInv /\ SaveInv
    BY <1>1 DEF RequestInv, SaveInv
  <1>3. NamedFiles
    <2> SUFFICES ASSUME NEW mode \in {"ofat", "grid"}
                 PROVE  LET dir == directory[mode]
                        IN /\ DOMAIN dir = {"index", "files", "manifest"}
                           /\ dir.index \in Seq(AllPoints)
                           /\ Named(dir.index, dir.files)
      BY <1>1 DEF NamedFiles
    <2>1. /\ DOMAIN directory[mode] = {"index", "files", "manifest"}
          /\ directory[mode].index = << >>
      BY <1>1
    <2>2. << >> \in Seq(AllPoints) /\ \A files : Named(<< >>, files)
      BY DEF Named
    <2> QED
      BY <2>1, <2>2
  <1> QED
    BY <1>1, <1>2, <1>3 DEF StartupInv

LEMMA RequestStep ==
  ASSUME RequestInv, [Next]_vars
  PROVE  RequestInv'
  <1> USE DEF RequestInv, branch
  <1>1. CASE Load
    BY <1>1 DEF Load
  <1>2. CASE Refuse
    BY <1>2 DEF Refuse
  <1>3. CASE Select
    BY <1>3 DEF Select, NoGrid
  <1>4. CASE Prepare
    BY <1>4 DEF Prepare
  <1>5. CASE Generate
    BY <1>5 DEF Generate, NoGrid, ExpansionOf
  <1>6. CASE OpenIndex
    BY <1>6 DEF OpenIndex
  <1>7. CASE WriteConfig
    BY <1>7 DEF WriteConfig
  <1>8. CASE Saved
    BY <1>8 DEF Saved
  <1>9. CASE Kill
    BY <1>9 DEF Kill
  <1>10. CASE NextCommand
    BY <1>10, RequestsMeant DEF NextCommand
  <1>11. CASE UNCHANGED vars
    BY <1>11 DEF vars
  <1> QED
    BY <1>1, <1>2, <1>3, <1>4, <1>5, <1>6, <1>7, <1>8, <1>9, <1>10, <1>11 DEF Next

\* A further file, of the point that comes next in the index: it may replace the
\* file of the same name of an earlier save, never one the index names.
LEMMA NamedOneMore ==
  ASSUME NEW index \in Seq(AllPoints), NEW files, Named(index, files),
         NEW point \in AllPoints, NEW k, k = Len(index) + 1
  PROVE  /\ Append(index, point) \in Seq(AllPoints)
         /\ Named(Append(index, point), Updated(files, Single(FileName(k, point), point)))
  <1> DEFINE name == FileName(k, point)
             more == Append(index, point)
             all == Updated(files, Single(name, point))
  <1>1. /\ more \in Seq(AllPoints)
        /\ DOMAIN more = DOMAIN index \cup {k} /\ more[k] = point
        /\ \A n \in DOMAIN index : more[n] = index[n] /\ n # k
    OBVIOUS
  <1>2. /\ DOMAIN all = DOMAIN files \cup {name} /\ all[name] = point
        /\ \A f \in DOMAIN files \ {name} : all[f] = files[f]
    BY DEF Updated, Single
  <1>3. \A n \in DOMAIN index : FileName(n, index[n]) # name
    BY <1>1 DEF FileName
  <1>4. name = FileName(k, point)
    OBVIOUS
  <1> HIDE DEF name, more, all
  <1>5. Named(more, all)
    <2> SUFFICES ASSUME NEW n \in DOMAIN more
                 PROVE  FileName(n, more[n]) \in DOMAIN all /\ all[FileName(n, more[n])] = more[n]
      BY DEF Named
    <2>1. CASE n = k
      BY <2>1, <1>1, <1>2, <1>4
    <2>2. CASE n \in DOMAIN index
      <3>1. FileName(n, index[n]) \in DOMAIN files /\ files[FileName(n, index[n])] = index[n]
        BY <2>2 DEF Named
      <3> QED
        BY <2>2, <3>1, <1>1, <1>2, <1>3
    <2> QED
      BY <1>1, <2>1, <2>2
  <1> QED
    BY <1>1, <1>5 DEF more, all, name

LEMMA NamedCut ==
  ASSUME NEW index \in Seq(AllPoints), NEW files, Named(index, files),
         NEW kept \in 0 .. Len(index)
  PROVE  SubSeq(index, 1, kept) \in Seq(AllPoints) /\ Named(SubSeq(index, 1, kept), files)
  <1> DEFINE cut == SubSeq(index, 1, kept)
  <1>1. /\ cut \in Seq(AllPoints) /\ DOMAIN cut \subseteq DOMAIN index
        /\ \A n \in DOMAIN cut : cut[n] = index[n]
    OBVIOUS
  <1> HIDE DEF cut
  <1>2. Named(cut, files)
    BY <1>1 DEF Named
  <1> QED
    BY <1>1, <1>2 DEF cut

LEMMA SelectedPoints ==
  ASSUME RequestInv, phase \in {"open", "write", "saved"}
  PROVE  /\ selected \in Seq(AllPoints) /\ NoneTwice(selected)
         /\ \A p \in Range(selected) : p.branch = branch.name
         /\ request.mode = "grid" =>
              \A p \in Range(selected) : \A arg \in DOMAIN KeptPins(branch.focused_grid) :
                p.hash[arg] = KeptPins(branch.focused_grid)[arg]
  <1>1. /\ request \in Requests /\ ValidBranch(branch)
        /\ request.mode = "grid" => branch.focused_grid # None
        /\ selected = ExpansionOf(request)
    BY DEF RequestInv
  <1>2. DeclaresLists(branch) /\ request.mode \in {"ofat", "grid"}
    BY <1>1, RequestsMeant DEF branch
  <1>3. LET points == ExpansionOf(request)
        IN /\ points \in Seq(Range(points))
           /\ NoneTwice(points)
           /\ \A p \in Range(points) : p.branch = branch.name
           /\ request.mode = "grid" =>
                \A p \in Range(points) : \A arg \in DOMAIN KeptPins(branch.focused_grid) :
                  p.hash[arg] = KeptPins(branch.focused_grid)[arg]
    BY <1>1, <1>2, ExpansionPoints
  <1>4. Range(ExpansionOf(request)) \subseteq AllPoints
    BY <1>1 DEF AllPoints
  <1>5. ExpansionOf(request) \in Seq(AllPoints)
    BY <1>3, <1>4, ListOver
  <1> QED
    BY <1>1, <1>3, <1>5

NamedDir(dir) ==
  /\ DOMAIN dir = {"index", "files", "manifest"}
  /\ dir.index \in Seq(AllPoints)
  /\ Named(dir.index, dir.files)

\* A step that leaves a directory named, and the other as it was.
LEMMA OneDirectory ==
  ASSUME StartupInv, NEW mode \in {"ofat", "grid"}, NEW dir, NamedDir(dir),
         directory' = [directory EXCEPT ![mode] = dir]
  PROVE  DOMAIN directory' = {"ofat", "grid"} /\ NamedFiles' /\ directory'[mode] = dir
  <1>1. DOMAIN directory' = {"ofat", "grid"} /\ directory'[mode] = dir
        /\ \A m \in {"ofat", "grid"} : directory'[m] = IF m = mode THEN dir ELSE directory[m]
    BY DEF StartupInv
  <1>2. \A m \in {"ofat", "grid"} : NamedDir(directory[m])
    BY DEF StartupInv, NamedFiles, NamedDir
  <1>3. \A m \in {"ofat", "grid"} : NamedDir(directory'[m])
    BY <1>1, <1>2
  <1>4. NamedFiles'
    BY <1>1, <1>3 DEF NamedFiles, NamedDir
  <1> QED
    BY <1>1, <1>4

LEMMA DirectoryStep ==
  ASSUME StartupInv, [Next]_vars
  PROVE  DOMAIN directory' = {"ofat", "grid"} /\ NamedFiles' /\ SaveInv'
  <1> DEFINE mode == request.mode
             dir == directory[mode]
  <1>1. /\ RequestInv /\ DOMAIN directory = {"ofat", "grid"} /\ NamedFiles /\ SaveInv
        /\ request \in Requests /\ mode \in {"ofat", "grid"}
    BY RequestsMeant DEF StartupInv, RequestInv
  <1>2. NamedDir(dir)
    BY <1>1 DEF NamedFiles, NamedDir
  <1>3. ASSUME directory' = directory
        PROVE  DOMAIN directory' = {"ofat", "grid"} /\ NamedFiles'
    BY <1>1, <1>3 DEF NamedFiles
  <1>4. CASE Load \/ Refuse \/ Select \/ Prepare \/ Generate \/ NextCommand
    <2>1. directory' = directory /\ phase' \notin {"write", "saved"}
      BY <1>4 DEF Load, Refuse, Select, Prepare, Generate, NextCommand
    <2>2. SaveInv'
      BY <2>1 DEF SaveInv
    <2> QED
      BY <1>3, <2>1, <2>2
  <1>5. CASE OpenIndex
    <2> DEFINE new == [dir EXCEPT !.index = << >>]
    <2>1. /\ directory' = [directory EXCEPT ![mode] = new]
          /\ phase = "open" /\ phase' = "write" /\ written' = 0 /\ UNCHANGED <<request, selected>>
      BY <1>1, <1>5 DEF OpenIndex, OpenedIndex
    <2>2. NamedDir(new) /\ new.index = << >>
      BY <1>2 DEF NamedDir, Named
    <2> HIDE DEF new
    <2>3. DOMAIN directory' = {"ofat", "grid"} /\ NamedFiles' /\ directory'[mode] = new
      BY <1>1, <2>1, <2>2, OneDirectory
    <2>4. Len(selected) \in Nat
      BY <1>1, <2>1, SelectedPoints
    <2>5. SaveInv'
      BY <2>1, <2>2, <2>3, <2>4 DEF SaveInv
    <2> QED
      BY <2>3, <2>5
  <1>6. CASE WriteConfig
    <2> DEFINE k == written + 1
               point == selected[k]
               name == FileName(k, point)
               index == Append(dir.index, point)
               files == Updated(dir.files, Single(name, point))
               new == [dir EXCEPT !.files = files, !.index = index]
    <2>1. /\ directory' = [directory EXCEPT ![mode] = new]
          /\ phase = "write" /\ written < Len(selected) /\ written' = k
          /\ UNCHANGED <<request, phase, selected>>
      BY <1>1, <1>6 DEF WriteConfig
    <2>2. selected \in Seq(AllPoints)
      BY <1>1, <2>1, SelectedPoints
    <2>3. /\ written \in 0 .. Len(selected) /\ Len(dir.index) = written
          /\ \A n \in 1 .. written : dir.index[n] = selected[n]
      BY <1>1, <2>1 DEF SaveInv
    <2>4. k \in 1 .. Len(selected) /\ point \in AllPoints /\ k = Len(dir.index) + 1
      BY <2>1, <2>2, <2>3
    <2>5. dir.index \in Seq(AllPoints) /\ Named(dir.index, dir.files)
          /\ DOMAIN dir = {"index", "files", "manifest"}
      BY <1>2 DEF NamedDir
    <2> HIDE DEF dir, k, point
    <2>6. index \in Seq(AllPoints) /\ Named(index, files)
      BY <2>4, <2>5, NamedOneMore
    <2>7. Len(index) = k /\ \A n \in 1 .. k : index[n] = selected[n]
      BY <2>3, <2>4, <2>5 DEF k, point
    <2> HIDE DEF files, index
    <2>8. new.index = index /\ new.files = files /\ DOMAIN new = {"index", "files", "manifest"}
      BY <2>5
    <2> HIDE DEF new
    <2>9. NamedDir(new)
      BY <2>6, <2>8 DEF NamedDir
    <2>10. DOMAIN directory' = {"ofat", "grid"} /\ NamedFiles' /\ directory'[mode] = new
      BY <1>1, <2>1, <2>9, OneDirectory
    <2>11. SaveInv'
      <3>1. phase' = "write" /\ request' = request /\ selected' = selected /\ written' = k
        BY <2>1
      <3>2. k \in 0 .. Len(selected)
        BY <2>2, <2>4
      <3> QED
        BY <2>7, <2>8, <2>10, <3>1, <3>2 DEF SaveInv
    <2> QED
      BY <2>10, <2>11
  <1>7. CASE Saved
    <2>1. /\ phase = "write" /\ written = Len(selected) /\ phase' = "saved"
          /\ UNCHANGED <<request, selected, written>>
      BY <1>7 DEF Saved
    <2>2. selected \in Seq(AllPoints)
      BY <1>1, <2>1, SelectedPoints
    <2>3. dir.index = selected
      <3>1. Len(dir.index) = Len(selected) /\ \A n \in 1 .. Len(selected) : dir.index[n] = selected[n]
        BY <1>1, <2>1 DEF SaveInv
      <3>2. dir.index \in Seq(AllPoints)
        BY <1>2 DEF NamedDir
      <3> DEFINE index == dir.index
      <3> HIDE DEF index, dir
      <3> QED
        BY <2>2, <3>1, <3>2 DEF index
    <2>4. CASE mode = "grid"
      <3> DEFINE new == [dir EXCEPT !.manifest = GridManifest(branch, selected)]
      <3>1. directory' = [directory EXCEPT ![mode] = new]
        BY <1>7, <2>4 DEF Saved, branch
      <3>2. /\ new.index = dir.index /\ new.files = dir.files
            /\ new.manifest = GridManifest(branch, selected)
            /\ DOMAIN new = {"index", "files", "manifest"}
        BY <1>2 DEF NamedDir
      <3> HIDE DEF new
      <3>3. NamedDir(new)
        BY <1>2, <3>2 DEF NamedDir
      <3>4. DOMAIN directory' = {"ofat", "grid"} /\ NamedFiles' /\ directory'[mode] = new
        BY <1>1, <3>1, <3>3, OneDirectory
      <3>5. SaveInv'
        BY <2>1, <2>3, <3>2, <3>4 DEF SaveInv, branch
      <3> QED
        BY <3>4, <3>5
    <2>5. CASE mode # "grid"
      <3>1. directory' = directory
        BY <1>7, <2>5 DEF Saved
      <3>2. SaveInv'
        BY <2>1, <2>3, <2>5, <3>1 DEF SaveInv
      <3> QED
        BY <1>3, <3>1, <3>2
    <2> QED
      BY <2>4, <2>5
  <1>8. CASE Kill
    <2>1. PICK kept \in 0 .. written :
            directory' = [directory EXCEPT ![mode] = [dir EXCEPT !.index = SubSeq(@, 1, kept)]]
      BY <1>1, <1>8 DEF Kill
    <2>2. phase = "write" /\ phase' = "killed"
      BY <1>8 DEF Kill
    <2>3. kept \in 0 .. Len(dir.index)
      BY <1>1, <2>2 DEF SaveInv
    <2> DEFINE index == SubSeq(dir.index, 1, kept)
               new == [dir EXCEPT !.index = index]
    <2>4. dir.index \in Seq(AllPoints) /\ Named(dir.index, dir.files)
          /\ DOMAIN dir = {"index", "files", "manifest"}
      BY <1>2 DEF NamedDir
    <2>5. index \in Seq(AllPoints) /\ Named(index, dir.files)
      BY <2>3, <2>4, NamedCut
    <2> HIDE DEF index
    <2>6. new.index = index /\ new.files = dir.files /\ DOMAIN new = {"index", "files", "manifest"}
      BY <2>4
    <2>7. directory' = [directory EXCEPT ![mode] = new]
      BY <2>1 DEF index
    <2> HIDE DEF new
    <2>8. NamedDir(new)
      BY <2>5, <2>6 DEF NamedDir
    <2>9. DOMAIN directory' = {"ofat", "grid"} /\ NamedFiles'
      BY <1>1, <2>7, <2>8, OneDirectory
    <2>10. SaveInv'
      BY <2>2 DEF SaveInv
    <2> QED
      BY <2>9, <2>10
  <1>9. CASE UNCHANGED vars
    <2>1. SaveInv'
      BY <1>1, <1>9 DEF SaveInv, vars, branch
    <2> QED
      BY <1>3, <1>9, <2>1 DEF vars
  <1> QED
    BY <1>4, <1>5, <1>6, <1>7, <1>8, <1>9 DEF Next

THEOREM StartupInvariant == Spec => []StartupInv
  <1>1. Init => StartupInv
    BY StartupInit
  <1>2. StartupInv /\ [Next]_vars => StartupInv'
    <2> SUFFICES ASSUME StartupInv, [Next]_vars
                 PROVE  StartupInv'
      OBVIOUS
    <2>1. RequestInv'
      BY RequestStep DEF StartupInv
    <2>2. DOMAIN directory' = {"ofat", "grid"} /\ NamedFiles' /\ SaveInv'
      BY DirectoryStep
    <2> QED
      BY <2>1, <2>2 DEF StartupInv
  <1> QED
    BY <1>1, <1>2, PTL DEF Spec

-----------------------------------------------------------------------------
(* What the invariant gives *)

LEMMA ExpandedWhenChosen ==
  ASSUME StartupInv, NEW mode \in {"ofat", "grid"}, Chosen(mode)
  PROVE  /\ ValidBranch(branch) /\ DeclaresLists(branch) /\ request.mode = mode
         /\ mode = "grid" => branch.focused_grid # None
         /\ selected = IF mode = "ofat" THEN GenerateOfat(branch) ELSE GenerateGrid(branch)
  <1>1. RequestInv /\ request \in Requests /\ request.mode = mode
        /\ phase \in {"plan", "ready", "open", "write", "saved"}
    BY DEF StartupInv, RequestInv, Chosen
  <1>2. ValidBranch(branch) /\ (mode = "grid" => branch.focused_grid # None)
    BY <1>1 DEF RequestInv
  <1>3. DeclaresLists(branch)
    BY <1>1, RequestsMeant DEF branch
  <1>4. CASE phase \in {"plan", "ready"}
    <2>1. request.command = "run"
          /\ selected = SelectPoints(branch, mode, request.only, request.limit)
      BY <1>1, <1>4 DEF RequestInv
    <2>2. request.only = None /\ request.limit = 0
      BY <2>1 DEF Chosen
    <2>3. SelectPoints(branch, mode, None, 0) =
            IF mode = "ofat" THEN GenerateOfat(branch) ELSE GenerateGrid(branch)
      BY DEF SelectPoints, Truncate
    <2> QED
      BY <1>1, <1>2, <1>3, <2>1, <2>2, <2>3
  <1>5. CASE phase \in {"open", "write", "saved"}
    <2>1. selected = ExpansionOf(request)
      BY <1>1, <1>5 DEF RequestInv
    <2> QED
      BY <1>1, <1>2, <1>3, <2>1 DEF ExpansionOf, branch
  <1> QED
    BY <1>1, <1>4, <1>5

LEMMA HashesAgree ==
  ASSUME NEW points
  PROVE  /\ Hashes(points) = HashesIn(points)
         /\ NoneTwice(points) => DistinctHashes(points)
  BY DEF Hashes, HashesIn, NoneTwice, DistinctHashes, IsInjective

\* generate_ofat visits every legal configuration of one changed argument, and
\* no other, once, with the baseline in front: for every branch the validators
\* accept, whatever its rules.
THEOREM OfatIsExact == Spec => []OfatIsOneAtATime
  <1>1. StartupInv => OfatIsOneAtATime
    <2> SUFFICES ASSUME StartupInv, Chosen("ofat")
                 PROVE  /\ Hashes(selected) = OneAtATime
                        /\ DistinctHashes(selected)
                        /\ selected[1].hash = BaselineArgs
                        /\ selected[1].label = BaselineLabel
      BY DEF OfatIsOneAtATime, OneAtATime
    <2>1. ValidBranch(branch) /\ DeclaresLists(branch) /\ selected = GenerateOfat(branch)
      BY ExpandedWhenChosen
    <2>2. Hashes(selected) = OneAtATime
      BY <2>1, OfatHashes, HashesAgree
    <2>3. NoneTwice(selected) /\ selected[1] = BaselinePoint(branch)
      BY <2>1, OfatPoints
    <2>4. BaselinePoint(branch).hash = BaselineArgs /\ BaselinePoint(branch).label = BaselineLabel
      BY DEF BaselinePoint, Point, Assemble, NoArgs, MergedBaseline, BaselineArgs, Updated
    <2> QED
      BY <2>2, <2>3, <2>4, HashesAgree
  <1> QED
    BY <1>1, StartupInvariant, PTL

\* generate_grid visits every legal joint choice for the admitted arguments, the
\* others at their pins, and no other, once.
THEOREM GridIsExact == Spec => []GridIsJoint
  <1>1. StartupInv => GridIsJoint
    <2> SUFFICES ASSUME StartupInv, Chosen("grid")
                 PROVE  Hashes(selected) = JointAtPins /\ DistinctHashes(selected)
      BY DEF GridIsJoint, JointAtPins
    <2>1. /\ ValidBranch(branch) /\ DeclaresLists(branch) /\ branch.focused_grid # None
          /\ selected = GenerateGrid(branch) /\ request.mode = "grid"
      BY ExpandedWhenChosen
    <2>2. Hashes(selected) = JointAtPins
      BY <2>1, GridHashes, HashesAgree
    <2>3. ExpansionOf(request) = selected
      BY <2>1 DEF ExpansionOf, branch
    <2>4. NoneTwice(selected)
      BY <2>1, <2>3, ExpansionPoints
    <2> QED
      BY <2>2, <2>4, HashesAgree
  <1> QED
    BY <1>1, StartupInvariant, PTL

\* Whatever branches are saved in whatever order, and wherever a command is
\* killed: the index names files that hold what it says, and a grid's manifest
\* tells the truth about a directory saved to the end.
THEOREM DirectoryIsNamed == Spec => []IndexNamesFiles
  <1>1. StartupInv => IndexNamesFiles
    <2> SUFFICES ASSUME StartupInv
                 PROVE  IndexNamesFiles
      OBVIOUS
    <2>1. \A mode \in DOMAIN directory : \A n \in DOMAIN directory[mode].index :
            LET point == directory[mode].index[n]
                name  == FileName(n, point)
            IN /\ name \in DOMAIN directory[mode].files
               /\ directory[mode].files[name] = point
      BY DEF StartupInv, NamedFiles, Named
    <2>2. ASSUME phase = "saved"
          PROVE  LET dir == directory[request.mode]
                 IN /\ dir.index = selected
                    /\ \A p \in Range(dir.index) : p.branch = branch.name
                    /\ request.mode = "grid" =>
                         /\ dir.manifest.branch = branch.name
                         /\ dir.manifest.config_hashes = [n \in DOMAIN dir.index |-> dir.index[n].hash]
                         /\ \A hash \in Range(dir.manifest.config_hashes) :
                              \A arg \in DOMAIN dir.manifest.pins : hash[arg] = dir.manifest.pins[arg]
      <3> DEFINE dir == directory[request.mode]
                 pins == KeptPins(branch.focused_grid)
                 hashes == [n \in DOMAIN selected |-> selected[n].hash]
      <3>1. RequestInv /\ dir.index = selected
            /\ (request.mode = "grid" => dir.manifest = GridManifest(branch, selected))
        BY <2>2 DEF StartupInv, SaveInv
      <3>2. /\ \A p \in Range(selected) : p.branch = branch.name
            /\ request.mode = "grid" =>
                 \A p \in Range(selected) : \A arg \in DOMAIN pins : p.hash[arg] = pins[arg]
        BY <2>2, <3>1, SelectedPoints
      <3>3. ASSUME request.mode = "grid"
            PROVE  /\ dir.manifest.branch = branch.name
                   /\ dir.manifest.config_hashes = hashes
                   /\ dir.manifest.pins = pins
                   /\ \A hash \in Range(hashes) : \A arg \in DOMAIN pins : hash[arg] = pins[arg]
        <4>1. \A hash \in Range(hashes) : \E p \in Range(selected) : hash = p.hash
          BY DEF Range
        <4>2. dir.manifest = GridManifest(branch, selected)
          BY <3>1, <3>3
        <4>3. /\ GridManifest(branch, selected).branch = branch.name
              /\ GridManifest(branch, selected).config_hashes = hashes
              /\ GridManifest(branch, selected).pins = pins
          BY DEF GridManifest
        <4> HIDE DEF pins, hashes, dir
        <4> QED
          BY <3>2, <3>3, <4>1, <4>2, <4>3
      <3> HIDE DEF pins
      <3> QED
        BY <3>1, <3>2, <3>3
    <2> QED
      BY <2>1, <2>2 DEF IndexNamesFiles
  <1> QED
    BY <1>1, StartupInvariant, PTL

-----------------------------------------------------------------------------
(* The workload *)

\* The two loops of workload_points: every pair with every concurrency.
AllPairs(pairs, concs) ==
  FlattenSeq([n \in DOMAIN pairs |-> [m \in DOMAIN concs |-> <<pairs[n], concs[m]>>]])

LEMMA PairsTimesConcurrencies ==
  ASSUME NEW P, NEW C, NEW pairs \in Seq(P), NEW concs \in Seq(C)
  PROVE  LET all == AllPairs(pairs, concs)
         IN /\ all \in Seq(P \X C)
            /\ Len(all) = Len(pairs) * Len(concs)
            /\ Range(all) = Range(pairs) \X Range(concs)
            /\ IsInjective(pairs) /\ IsInjective(concs) => IsInjective(all)
  <1> DEFINE N == Len(pairs)
             K == Len(concs)
             S == P \X C
             Row(n) == [m \in DOMAIN concs |-> <<pairs[n], concs[m]>>]
             rows == [n \in DOMAIN pairs |-> Row(n)]
             all == AllPairs(pairs, concs)
  <1>1. /\ N \in Nat /\ DOMAIN pairs = 1 .. N /\ \A n \in 1 .. N : pairs[n] \in P
        /\ K \in Nat /\ DOMAIN concs = 1 .. K /\ \A m \in 1 .. K : concs[m] \in C
    OBVIOUS
  <1> HIDE DEF N, K
  <1>2. ASSUME NEW n \in 1 .. N
        PROVE  /\ Row(n) \in Seq(S) /\ Len(Row(n)) = K /\ DOMAIN Row(n) = 1 .. K
               /\ \A m \in 1 .. K : Row(n)[m] = <<pairs[n], concs[m]>>
    <2>1. Row(n) = [m \in 1 .. K |-> <<pairs[n], concs[m]>>]
      BY <1>1
    <2>2. \A m \in 1 .. K : <<pairs[n], concs[m]>> \in S
      BY <1>1
    <2> HIDE DEF S
    <2>3. Row(n) \in [1 .. K -> S] /\ \A m \in 1 .. K : Row(n)[m] = <<pairs[n], concs[m]>>
      BY <2>1, <2>2
    <2> HIDE DEF Row
    <2>4. Row(n) \in Seq(S) /\ Len(Row(n)) = K
      BY <1>1, <2>3, SequenceOf
    <2> QED
      BY <1>1, <2>3, <2>4
  <1> HIDE DEF Row
  <1>3. rows \in Seq(Seq(S)) /\ DOMAIN rows = 1 .. N /\ Len(rows) = N
        /\ \A n \in 1 .. N : rows[n] = Row(n)
    <2>1. rows = [n \in 1 .. N |-> Row(n)]
      BY <1>1
    <2> HIDE DEF S
    <2> QED
      BY <1>1, <1>2, <2>1, SequenceOf
  <1>0. all = FlattenSeq(rows)
    BY DEF AllPairs, Row
  <1> HIDE DEF rows, S, all
  <1>4. all \in Seq(S) /\ Range(all) = UNION { Range(rows[n]) : n \in DOMAIN rows }
    BY <1>0, <1>3, FlattenRange
  <1>5. Len(all) = N * K
    <2>1. \A n \in DOMAIN rows : Len(rows[n]) = K
      BY <1>2, <1>3
    <2> QED
      BY <1>0, <1>1, <1>3, <2>1, FlattenLength
  <1>6. Range(all) = Range(pairs) \X Range(concs)
    <2>1. ASSUME NEW n \in 1 .. N
          PROVE  Range(rows[n]) = { <<pairs[n], concs[m]>> : m \in 1 .. K }
      <3>1. rows[n] = Row(n) /\ DOMAIN Row(n) = 1 .. K
            /\ \A m \in 1 .. K : Row(n)[m] = <<pairs[n], concs[m]>>
        BY <1>2, <1>3
      <3>2. Range(Row(n)) = { Row(n)[m] : m \in 1 .. K }
        BY <3>1 DEF Range
      <3> QED
        BY <3>1, <3>2
    <2>2. Range(all) = UNION { { <<pairs[n], concs[m]>> : m \in 1 .. K } : n \in 1 .. N }
      BY <1>3, <1>4, <2>1
    <2>3. Range(pairs) = { pairs[n] : n \in 1 .. N } /\ Range(concs) = { concs[m] : m \in 1 .. K }
      BY <1>1 DEF Range
    <2> QED
      BY <2>2, <2>3
  <1>7. IsInjective(pairs) /\ IsInjective(concs) => IsInjective(all)
    <2> SUFFICES ASSUME IsInjective(pairs), IsInjective(concs)
                 PROVE  IsInjective(all)
      OBVIOUS
    <2>1. PICK part \in [DOMAIN all -> Nat], place \in [DOMAIN all -> Nat] :
            Places(all, rows, part, place)
      BY <1>0, <1>3, FlattenPlaces
    <2>2. \A i \in DOMAIN all : /\ part[i] \in 1 .. N /\ place[i] \in 1 .. K
                                /\ all[i] = <<pairs[part[i]], concs[place[i]]>>
      <3> TAKE i \in DOMAIN all
      <3>1. part[i] \in DOMAIN rows /\ place[i] \in DOMAIN rows[part[i]]
            /\ all[i] = rows[part[i]][place[i]]
        BY <2>1 DEF Places
      <3>2. part[i] \in 1 .. N /\ rows[part[i]] = Row(part[i])
        BY <1>3, <3>1
      <3> QED
        BY <1>2, <3>1, <3>2
    <2>3. \A i, j \in DOMAIN all : all[i] = all[j] => part[i] = part[j] /\ place[i] = place[j]
      BY <1>1, <2>2 DEF IsInjective
    <2>4. \A i, j \in DOMAIN all : i < j => part[i] < part[j] \/ place[i] < place[j]
      BY <2>1 DEF Places
    <2>5. ASSUME NEW i \in DOMAIN all, NEW j \in DOMAIN all, all[i] = all[j]
          PROVE  i = j
      <3>1. i \in Nat /\ j \in Nat
        BY <1>4
      <3>2. part[i] = part[j] /\ place[i] = place[j] /\ part[i] \in Nat /\ place[i] \in Nat
        BY <2>3, <2>5
      <3>3. ~ (i < j) /\ ~ (j < i)
        BY <2>4, <3>2
      <3> QED
        BY <3>1, <3>3
    <2> QED
      BY <2>5 DEF IsInjective
  <1> QED
    BY <1>4, <1>5, <1>6, <1>7 DEF N, K, S, all

\* The workload a run measures is the product of the axes it was asked for.
THEOREM WorkloadExact == Spec => []WorkloadIsProduct
  <1>1. StartupInv => WorkloadIsProduct
    <2> DEFINE work == request.work
               axes == work.axes
               pairs == IF work.isl_osl # None THEN work.isl_osl
                        ELSE IF work.role = "iter" THEN axes.isl_osl_pairs
                        ELSE axes.report_isl_osl_pairs
               concs == IF work.concurrency # None THEN work.concurrency ELSE axes.concurrency
               all == AllPairs(pairs, concs)
               goal == /\ Len(workload) = IF work.limit > 0
                                            THEN Min({work.limit, Len(pairs) * Len(concs)})
                                            ELSE Len(pairs) * Len(concs)
                       /\ Range(workload) \subseteq Range(pairs) \X Range(concs)
                       /\ Len(workload) = Len(pairs) * Len(concs) =>
                            Range(workload) = Range(pairs) \X Range(concs)
                       /\ IsInjective(pairs) /\ IsInjective(concs) => IsInjective(workload)
    <2> SUFFICES ASSUME StartupInv, phase \in {"plan", "ready"}
                 PROVE  goal
      BY DEF WorkloadIsProduct
    <2>1. /\ request \in Requests /\ request.command = "run"
          /\ workload = SelectWorkload(axes, work.role, work.concurrency, work.isl_osl, work.limit)
      BY DEF StartupInv, RequestInv
    <2>2. AxesDeclared(work)
      BY <2>1, RequestsMeant
    <2> HIDE DEF work
    <2>3. workload = Truncate(all, work.limit)
      <3> DEFINE Given(key, axis) == IF axis = None THEN << >> ELSE Single(key, axis)
                 one == Updated(axes, Given("concurrency", work.concurrency))
                 used == Updated(one, Given(PairsKey(work.role), work.isl_osl))
      <3>1. DOMAIN << >> = {}
        OBVIOUS
      <3>2. one["concurrency"] = concs
            /\ \A key \in {"isl_osl_pairs", "report_isl_osl_pairs"} : one[key] = axes[key]
            /\ DOMAIN one = DOMAIN axes
        BY <2>2, <3>1 DEF Updated, Single, AxesDeclared
      <3>3. PairsKey(work.role) \in {"isl_osl_pairs", "report_isl_osl_pairs"}
            /\ PairsKey(work.role) # "concurrency"
        BY DEF PairsKey
      <3> HIDE DEF one
      <3>4. used["concurrency"] = concs
        BY <2>2, <3>1, <3>2, <3>3 DEF Updated, Single, AxesDeclared
      <3>5. used[PairsKey(work.role)] = pairs
        <4>1. CASE work.isl_osl = None
          BY <2>2, <3>1, <3>2, <3>3, <4>1 DEF Updated, AxesDeclared, PairsKey
        <4>2. CASE work.isl_osl # None
          BY <4>2 DEF Updated, Single
        <4> QED
          BY <4>1, <4>2
      <3> HIDE DEF used
      <3>6. WorkloadPoints(used, work.role) = all
        <4>1. (IF work.role = "report" THEN used.report_isl_osl_pairs ELSE used.isl_osl_pairs) = pairs
          BY <3>5 DEF PairsKey
        <4>2. used.concurrency = concs
          BY <3>4
        <4> HIDE DEF pairs, concs
        <4> QED
          BY <4>1, <4>2 DEF WorkloadPoints, AllPairs
      <3>7. SelectWorkload(axes, work.role, work.concurrency, work.isl_osl, work.limit)
              = Truncate(WorkloadPoints(used, work.role), work.limit)
        BY DEF SelectWorkload, used, one
      <3> QED
        BY <2>1, <3>6, <3>7
    <2>4. IsList(pairs) /\ IsList(concs) /\ work.limit \in Int
      BY <2>2 DEF AxesDeclared
    <2> HIDE DEF pairs, concs
    <2> DEFINE P == Range(pairs)
               C == Range(concs)
    <2>5. /\ all \in Seq(P \X C)
          /\ Len(all) = Len(pairs) * Len(concs)
          /\ Range(all) = P \X C
          /\ IsInjective(pairs) /\ IsInjective(concs) => IsInjective(all)
      BY <2>4, PairsTimesConcurrencies DEF IsList
    <2> DEFINE S == P \X C
               limit == work.limit
    <2> HIDE DEF all, S, limit
    <2>6. all \in Seq(S) /\ limit \in Int
      BY <2>4, <2>5 DEF S, limit
    <2>7. LET cut == Truncate(all, limit)
          IN /\ cut \in Seq(S) /\ Len(cut) <= Len(all)
             /\ Len(cut) = IF limit > 0 THEN Min({limit, Len(all)}) ELSE Len(all)
             /\ \A n \in DOMAIN cut : n \in DOMAIN all /\ cut[n] = all[n]
             /\ Len(cut) = Len(all) => cut = all
             /\ Range(cut) \subseteq Range(all)
      BY <2>6, Truncated
    <2>8. /\ Len(workload) = IF limit > 0 THEN Min({limit, Len(all)}) ELSE Len(all)
          /\ Len(workload) = Len(all) => workload = all
          /\ Range(workload) \subseteq Range(all)
          /\ \A n \in DOMAIN workload : n \in DOMAIN all /\ workload[n] = all[n]
      BY <2>3, <2>7 DEF limit
    <2>9. IsInjective(all) => IsInjective(workload)
      BY <2>8 DEF IsInjective
    <2> HIDE DEF P, C
    <2>10. goal
      BY <2>5, <2>8, <2>9 DEF limit, P, C
    <2> QED
      BY <2>10
  <1> QED
    BY <1>1, StartupInvariant, PTL

-----------------------------------------------------------------------------
(* The plan *)

LegalConfigs == { c \in FullConfigs : Legal(c) }

LEMMA BranchIsSound ==
  ASSUME NEW b, ValidBranch(b), DeclaresLists(b)
  PROVE  Sound(b) /\ IsValid(b, Assemble(b, NoArgs))
  <1>1. \A c \in Range(b.candidate) : Len(c.values) > 0 /\ IsList(c.values)
    BY DEF ValidBranch, ValidCandidate, DeclaresLists, Range
  <1>2. \A c \in Range(b.candidate) : c.values # << >>
    BY <1>1
  <1>3. ASSUME NEW c \in Range(b.candidate)
        PROVE  b.baseline[c.name] \in Range(c.values)
    <2>1. c.name \in CandidateNames(b)
      BY DEF CandidateNames
    <2>2. b.baseline[c.name] \in ValuesOf(b, c.name)
      BY <2>1 DEF ValidBranch
    <2> QED
      BY <2>2, ValuesOfOne
  <1>4. Sound(b)
    BY <1>2, <1>3, OneOfEachName DEF Sound
  <1>5. Assemble(b, NoArgs) = MergedBaseline(b)
    <2>1. DOMAIN NoArgs = {}
      BY DEF NoArgs
    <2> QED
      BY <2>1 DEF Assemble, Updated, MergedBaseline
  <1> QED
    BY <1>4, <1>5 DEF ValidBranch, IsValid

LEMMA LegalBaseline ==
  ASSUME ValidBranch(branch), DeclaresLists(branch)
  PROVE  /\ BaselineArgs \in LegalConfigs /\ Departs(BaselineArgs) = {}
         /\ BaselinePoint(branch).hash = BaselineArgs
         /\ BaselinePoint(branch).label = BaselineLabel
  <1>1. BaselinePoint(branch).hash = BaselineArgs /\ BaselinePoint(branch).label = BaselineLabel
    BY DEF BaselinePoint, Point, Assemble, NoArgs, MergedBaseline, BaselineArgs, Updated
  <1>2. BaselineArgs \in HashesIn(GenerateOfat(branch))
    <2>1. 1 \in DOMAIN GenerateOfat(branch) /\ GenerateOfat(branch)[1] = BaselinePoint(branch)
      BY OfatPoints
    <2>2. BaselinePoint(branch) \in Range(GenerateOfat(branch))
      BY <2>1 DEF Range
    <2> QED
      BY <1>1, <2>2 DEF HashesIn
  <1>3. BaselineArgs \in LegalConfigs
    BY <1>2, OfatHashes DEF OneAtATime, LegalConfigs
  <1>4. DOMAIN branch.baseline = CandidateNames(branch)
    BY DEF ValidBranch
  <1>5. Departs(BaselineArgs) = {}
    BY <1>4 DEF Departs, BaselineArgs, Updated
  <1> QED
    BY <1>1, <1>3, <1>5

\* An expansion holds legal configurations, and calls no other one the baseline.
LEMMA ExpansionLegal ==
  ASSUME ValidBranch(branch), DeclaresLists(branch), request.mode \in {"ofat", "grid"},
         request.mode = "grid" => branch.focused_grid # None
  PROVE  \A p \in Range(ExpansionOf(request)) :
           p.hash \in LegalConfigs /\ (p.label = BaselineLabel => p.hash = BaselineArgs)
  <1>0. \A o : OverrideLabel(o) # BaselineLabel
    <2>1. \A o : OverrideLabel(o)[1] = "args" /\ BaselineLabel[1] = "baseline"
      BY DEF OverrideLabel, BaselineLabel
    <2> QED
      BY <2>1
  <1>1. CASE request.mode = "ofat"
    <2> DEFINE points == GenerateOfat(branch)
               P == { BaselinePoint(branch) } \cup
                      { OfatPoint(branch, o) : o \in OneOverride(branch) }
    <2>1. points \in Seq(P) /\ ExpansionOf(request) = points
      BY <1>1, OfatPoints DEF ExpansionOf, branch
    <2>2. \A p \in P : p.label = BaselineLabel => p.hash = BaselineArgs
      BY <1>0, LegalBaseline DEF OfatPoint, Point
    <2> HIDE DEF P
    <2>3. Range(points) \subseteq P
      BY <2>1 DEF Range
    <2>4. \A p \in Range(points) : p.hash \in OneAtATime
      BY OfatHashes DEF HashesIn
    <2> QED
      BY <2>1, <2>2, <2>3, <2>4 DEF OneAtATime, LegalConfigs
  <1>2. CASE request.mode = "grid"
    <2> DEFINE b == branch
               args == b.focused_grid.args
               pins == KeptPins(b.focused_grid)
               points == JointSweep(b, args, pins)
               P == { SweptPoint(b, pins, o) : o \in Joint(b, args) }
    <2>1. DeclaresLists(b) /\ args \in Seq(CandidateNames(b)) /\ Different(args)
      BY <1>2, GridDeclared
    <2>2. ExpansionOf(request) = points /\ points = GenerateGrid(branch)
      BY <1>2 DEF ExpansionOf, branch, GenerateGrid
    <2>3. \A p \in Range(points) : p.hash \in JointAtPins
      BY <1>2, <2>2, GridHashes DEF HashesIn
    <2> HIDE DEF b, args, pins
    <2>4. points \in Seq(P)
      BY <2>1, JointPoints
    <2>5. \A p \in P : p.label # BaselineLabel
      BY <1>0 DEF SweptPoint, Point
    <2> HIDE DEF P, points
    <2>6. Range(points) \subseteq P
      BY <2>4 DEF Range
    <2> QED
      BY <2>2, <2>3, <2>5, <2>6 DEF JointAtPins, LegalConfigs
  <1> QED
    BY <1>1, <1>2

\* What is selected is some of the expansion.
LEMMA SelectedSome ==
  ASSUME RequestInv, phase \in {"plan", "ready"}
  PROVE  /\ ValidBranch(branch) /\ DeclaresLists(branch)
         /\ selected \in Seq(Range(selected)) /\ NoneTwice(selected)
         /\ \A p \in Range(selected) :
              p.hash \in LegalConfigs /\ (p.label = BaselineLabel => p.hash = BaselineArgs)
  <1> DEFINE points == ExpansionOf(request)
             kept == [n \in DOMAIN points |-> points[n].label \in request.only]
             some == IF request.only = None THEN points ELSE Where(points, kept)
             S == Range(points)
  <1>1. /\ request \in Requests /\ ValidBranch(branch) /\ request.command = "run"
        /\ request.mode = "grid" => branch.focused_grid # None
        /\ selected = SelectPoints(branch, request.mode, request.only, request.limit)
    BY DEF RequestInv
  <1>2. DeclaresLists(branch) /\ request.mode \in {"ofat", "grid"} /\ request.limit \in Int
    BY <1>1, RequestsMeant DEF branch
  <1>3. points \in Seq(S) /\ NoneTwice(points)
    BY <1>1, <1>2, ExpansionPoints
  <1>4. \A p \in S : p.hash \in LegalConfigs /\ (p.label = BaselineLabel => p.hash = BaselineArgs)
    BY <1>1, <1>2, ExpansionLegal
  <1>5. selected = Truncate(some, request.limit)
    BY <1>1 DEF SelectPoints, ExpansionOf, branch
  <1> HIDE DEF points, S
  <1>6. some \in Seq(S) /\ NoneTwice(some)
    <2>1. kept \in [DOMAIN points -> BOOLEAN]
      OBVIOUS
    <2> HIDE DEF kept
    <2>2. Where(points, kept) \in Seq(S) /\ NoneTwice(Where(points, kept))
      BY <1>3, <2>1, PartOf
    <2> QED
      BY <1>3, <2>2
  <1> DEFINE limit == request.limit
             cut == Truncate(some, limit)
  <1> HIDE DEF some, limit
  <1>7. /\ cut \in Seq(S)
        /\ \A n \in DOMAIN cut : n \in DOMAIN some /\ cut[n] = some[n]
    BY <1>2, <1>6, Truncated DEF limit
  <1> HIDE DEF cut
  <1>8. NoneTwice(cut)
    BY <1>6, <1>7 DEF NoneTwice
  <1>9. Range(cut) \subseteq S
    BY <1>7 DEF Range
  <1>10. cut \in Seq(Range(cut))
    BY <1>7, ListOver
  <1>11. selected = cut
    BY <1>5 DEF cut, limit
  <1> QED
    BY <1>1, <1>2, <1>4, <1>8, <1>9, <1>10, <1>11

Varied(points) == VariedArgs(points) \cap InvariantNames(branch)

\* A configuration whose candidates are at the baseline, but for some that are
\* set to an end.
LEMMA EndsAssembled ==
  ASSUME ValidBranch(branch), DeclaresLists(branch), NEW varied \in SUBSET CandidateNames(branch),
         NEW o, ToEnds(branch, varied, o)
  PROVE  LET args == Assemble(branch, o)
         IN /\ args \in FullConfigs /\ Departs(args) \subseteq varied
            /\ \A n \in varied : args[n] = o[n]
            /\ \A n \in CandidateNames(branch) \ varied : args[n] = branch.baseline[n]
            /\ IsValid(branch, args) => args \in LegalConfigs
  <1> DEFINE names == CandidateNames(branch)
             args == Assemble(branch, o)
             f == [n \in names |-> IF n \in DOMAIN o THEN o[n] ELSE branch.baseline[n]]
  <1>1. DOMAIN o = varied
    BY DEF ToEnds
  <1>2. args = Updated(branch.fixed, f) /\ \A n \in names : args[n] = f[n]
    BY <1>1, Assembled
  <1>3. \A n \in varied : o[n] \in ValuesOf(branch, n)
    <2> SUFFICES ASSUME NEW n \in varied
                 PROVE  o[n] \in ValuesOf(branch, n)
      OBVIOUS
    <2>1. PICK c \in Range(branch.candidate) : c.name = n
      BY DEF CandidateNames
    <2>2. o[n] \in Range(c.values)
      BY <2>1 DEF ToEnds
    <2> QED
      BY <2>1, <2>2, ValuesOfOne
  <1>4. \A n \in names : branch.baseline[n] \in ValuesOf(branch, n)
    BY DEF ValidBranch
  <1>5. \A n \in names : f[n] \in ValuesOf(branch, n)
    BY <1>1, <1>3, <1>4
  <1>6. f \in FullChoices
    BY <1>5, IsChoice
  <1>7. args \in FullConfigs
    BY <1>2, <1>6, FullByChoice
  <1>8. /\ \A n \in varied : args[n] = o[n]
        /\ \A n \in names \ varied : args[n] = branch.baseline[n]
    BY <1>1, <1>2
  <1> HIDE DEF args
  <1>9. Departs(args) \subseteq varied
    BY <1>8 DEF Departs
  <1>10. IsValid(branch, args) => args \in LegalConfigs
    BY <1>7, LegalIsValid DEF LegalConfigs
  <1> QED
    BY <1>7, <1>8, <1>9, <1>10 DEF args

\* What a plan that skips per-configuration evaluation is made of.
LEMMA SkipOrNot ==
  ASSUME RequestInv, phase = "ready"
  PROVE  /\ ~ plan.skipped => plan = PerConfigPlan(selected)
         /\ plan.skipped =>
              /\ AccuracyInvariantSearch(branch, selected)
              /\ \E o : /\ IsSpot(branch, Varied(selected), o)
                        /\ plan = SkippingPlan(branch, selected,
                                    Point(branch, SpotLabel(o), Assemble(branch, o)))
  <1> DEFINE spot == SpotCheckPoint(branch, selected)
  <1>1. ValidBranch(branch) /\ DeclaresLists(branch)
    BY SelectedSome
  <1>2. plan = IF request.gate /\ AccuracyInvariantSearch(branch, selected) /\ spot # None
                 THEN SkippingPlan(branch, selected, spot)
                 ELSE PerConfigPlan(selected)
    BY DEF RequestInv, Plan
  <1>3. PerConfigPlan(selected).skipped = FALSE
        /\ \A s : SkippingPlan(branch, selected, s).skipped = TRUE
    BY DEF PerConfigPlan, SkippingPlan
  <1>4. ASSUME plan.skipped
        PROVE  /\ AccuracyInvariantSearch(branch, selected) /\ spot # None
               /\ plan = SkippingPlan(branch, selected, spot)
    <2> HIDE DEF spot
    <2> QED
      BY <1>2, <1>3, <1>4
  <1>5. ASSUME plan.skipped
        PROVE  \E o : /\ spot = Point(branch, SpotLabel(o), Assemble(branch, o))
                      /\ IsSpot(branch, Varied(selected), o)
    <2> DEFINE b == branch
               points == selected
    <2>1. Sound(b) /\ IsValid(b, Assemble(b, NoArgs)) /\ SpotCheckPoint(b, points) # None
      BY <1>1, <1>4, <1>5, BranchIsSound
    <2> HIDE DEF b, points
    <2>2. \E o : /\ SpotCheckPoint(b, points) = Point(b, SpotLabel(o), Assemble(b, o))
                 /\ IsSpot(b, VariedArgs(points) \cap InvariantNames(b), o)
      BY <2>1, SpotFirst
    <2> QED
      BY <2>2 DEF b, points, Varied
  <1> HIDE DEF spot
  <1>6. ~ plan.skipped => plan = PerConfigPlan(selected)
    BY <1>2, <1>3
  <1> QED
    BY <1>4, <1>5, <1>6

\* The list that is rebuilt around the baseline and the spot-check.
LEMMA Rebuilt ==
  ASSUME ValidBranch(branch), DeclaresLists(branch),
         NEW points, points \in Seq(Range(points)), NoneTwice(points),
         NEW spot, spot.hash \in LegalConfigs, spot.label # BaselineLabel,
         \A p \in Range(points) :
           p.hash \in LegalConfigs /\ (p.label = BaselineLabel => p.hash = BaselineArgs)
  PROVE  LET list == SkippingPlan(branch, points, spot).points
         IN /\ HashesIn(list) = HashesIn(points) \cup {BaselineArgs, spot.hash}
            /\ NoneTwice(list) /\ list[1].hash = BaselineArgs
            /\ \A p \in Range(list) : p.label = BaselineLabel => p.hash = BaselineArgs
  <1> DEFINE base == BaselinePoint(branch)
             b == branch
             P == Range(points) \cup {base, spot}
             list == SkippingPlan(b, points, spot).points
  <1>1. base.hash = BaselineArgs
    BY LegalBaseline
  <1>2. /\ list \in Seq(P) /\ NoneTwice(list)
        /\ HashesIn(list) = HashesIn(points) \cup {base.hash, spot.hash}
        /\ list[1] = base
    <2> HIDE DEF b
    <2>1. LET made == SkippingPlan(b, points, spot).points
              first == BaselinePoint(b)
          IN /\ made \in Seq(Range(points) \cup {first, spot}) /\ NoneTwice(made)
             /\ HashesIn(made) = HashesIn(points) \cup {first.hash, spot.hash}
             /\ made[1] = first
      BY RebuiltList
    <2> QED
      BY <2>1 DEF b
  <1> HIDE DEF list, base
  <1>3. \A p \in P : p.label = BaselineLabel => p.hash = BaselineArgs
    BY <1>1
  <1> HIDE DEF P
  <1>4. \A p \in Range(list) : p \in P
    BY <1>2 DEF Range
  <1> QED
    BY <1>1, <1>2, <1>3, <1>4 DEF list

\* What is launched, whatever of a branch is selected and however the labels to
\* keep and the limit cut it: legal configurations, none twice, all that were
\* selected, and of others the baseline and the spot-check at most.
THEOREM PlanIsSelection == Spec => []PlanRunsSelection
  <1>1. StartupInv => PlanRunsSelection
    <2> SUFFICES ASSUME StartupInv, phase = "ready"
                 PROVE  /\ HashesIn(plan.points) \subseteq LegalConfigs
                        /\ DistinctHashes(plan.points)
                        /\ HashesIn(selected) \subseteq HashesIn(plan.points)
                        /\ ~ plan.skipped => HashesIn(plan.points) = HashesIn(selected)
                        /\ plan.skipped =>
                             /\ HashesIn(plan.points)
                                  = HashesIn(selected) \cup {BaselineArgs, plan.spot.hash}
                             /\ plan.points[1].hash = BaselineArgs
                             /\ \A p \in Range(plan.points) :
                                  p.label = BaselineLabel => p.hash = BaselineArgs
                             /\ plan.evaluate_hashes = {BaselineArgs, plan.spot.hash}
      BY HashesAgree DEF PlanRunsSelection, Planned, LegalConfigs
    <2>1. RequestInv /\ phase \in {"plan", "ready"}
      BY DEF StartupInv
    <2>2. /\ ValidBranch(branch) /\ DeclaresLists(branch)
          /\ selected \in Seq(Range(selected)) /\ NoneTwice(selected)
          /\ \A p \in Range(selected) :
               p.hash \in LegalConfigs /\ (p.label = BaselineLabel => p.hash = BaselineArgs)
      BY <2>1, SelectedSome
    <2>3. HashesIn(selected) \subseteq LegalConfigs
      BY <2>2 DEF HashesIn
    <2>4. CASE ~ plan.skipped
      <3>1. plan.points = selected
        BY <2>1, <2>4, SkipOrNot DEF PerConfigPlan
      <3> QED
        BY <2>2, <2>3, <2>4, <3>1, HashesAgree
    <2>5. CASE plan.skipped
      <3>1. PICK o : /\ IsSpot(branch, Varied(selected), o)
                     /\ plan = SkippingPlan(branch, selected,
                                 Point(branch, SpotLabel(o), Assemble(branch, o)))
        BY <2>1, <2>5, SkipOrNot
      <3> DEFINE spot == Point(branch, SpotLabel(o), Assemble(branch, o))
      <3>2. spot.hash = Assemble(branch, o) /\ spot.label = SpotLabel(o)
        BY DEF Point
      <3> HIDE DEF spot
      <3>3. Varied(selected) \in SUBSET CandidateNames(branch)
        BY DEF Varied, InvariantNames, CandidateNames
      <3>4. ToEnds(branch, Varied(selected), o) /\ IsValid(branch, Assemble(branch, o))
        BY <3>1 DEF IsSpot
      <3>5. spot.hash \in LegalConfigs
        BY <2>2, <3>2, <3>3, <3>4, EndsAssembled
      <3>6. spot.label # BaselineLabel
        <4>1. SpotLabel(o)[1] = "spot-check" /\ BaselineLabel[1] = "baseline"
          BY DEF SpotLabel, BaselineLabel
        <4> QED
          BY <3>2, <4>1
      <3>7. plan = SkippingPlan(branch, selected, spot)
        BY <3>1 DEF spot
      <3>8. plan.spot = spot /\ plan.evaluate_hashes = {BaselineArgs, spot.hash}
        BY <2>2, <3>7, LegalBaseline DEF SkippingPlan
      <3>9. /\ HashesIn(plan.points) = HashesIn(selected) \cup {BaselineArgs, spot.hash}
            /\ NoneTwice(plan.points) /\ plan.points[1].hash = BaselineArgs
            /\ \A p \in Range(plan.points) : p.label = BaselineLabel => p.hash = BaselineArgs
        BY <2>2, <3>5, <3>6, <3>7, Rebuilt
      <3>10. BaselineArgs \in LegalConfigs
        BY <2>2, LegalBaseline
      <3> QED
        BY <2>3, <2>5, <3>5, <3>8, <3>9, <3>10, HashesAgree
    <2> QED
      BY <2>4, <2>5
  <1> QED
    BY <1>1, StartupInvariant, PTL

\* An accuracy-active candidate that departs from the baseline in a selected
\* point varies between that point and the baseline, if that is selected too:
\* then the search is not accuracy-invariant and nothing is skipped.
THEOREM SkipIsInvariant == Spec => []SkipIsInvariantFromBaseline
  <1>1. StartupInv => SkipIsInvariantFromBaseline
    <2> SUFFICES ASSUME StartupInv, phase = "ready", plan.skipped,
                        BaselineArgs \in HashesIn(selected),
                        NEW p \in Range(plan.points)
                 PROVE  Departs(p.hash) \subseteq InvariantNames(branch)
      BY HashesAgree DEF SkipIsInvariantFromBaseline, Planned
    <2>1. RequestInv /\ phase \in {"plan", "ready"}
      BY DEF StartupInv
    <2>2. /\ ValidBranch(branch) /\ DeclaresLists(branch)
          /\ selected \in Seq(Range(selected)) /\ NoneTwice(selected)
          /\ \A q \in Range(selected) :
               q.hash \in LegalConfigs /\ (q.label = BaselineLabel => q.hash = BaselineArgs)
      BY <2>1, SelectedSome
    <2>3. AccuracyInvariantSearch(branch, selected)
      BY <2>1, SkipOrNot
    <2>4. PICK o : /\ IsSpot(branch, Varied(selected), o)
                   /\ plan = SkippingPlan(branch, selected,
                               Point(branch, SpotLabel(o), Assemble(branch, o)))
      BY <2>1, SkipOrNot
    <2> DEFINE spot == Point(branch, SpotLabel(o), Assemble(branch, o))
    <2>5. spot.hash = Assemble(branch, o) /\ spot.label = SpotLabel(o)
      BY DEF Point
    <2>6. plan = SkippingPlan(branch, selected, spot)
      BY <2>4
    <2> HIDE DEF spot
    <2>7. /\ Varied(selected) \in SUBSET CandidateNames(branch)
          /\ Varied(selected) \subseteq InvariantNames(branch)
      BY DEF Varied, InvariantNames, CandidateNames
    <2>8. ToEnds(branch, Varied(selected), o) /\ IsValid(branch, Assemble(branch, o))
      BY <2>4 DEF IsSpot
    <2>9. spot.hash \in LegalConfigs /\ Departs(spot.hash) \subseteq Varied(selected)
      BY <2>2, <2>5, <2>7, <2>8, EndsAssembled
    <2>10. spot.label # BaselineLabel
      <3>1. SpotLabel(o)[1] = "spot-check" /\ BaselineLabel[1] = "baseline"
        BY DEF SpotLabel, BaselineLabel
      <3> QED
        BY <2>5, <3>1
    <2>11. HashesIn(plan.points) = HashesIn(selected) \cup {BaselineArgs, spot.hash}
      BY <2>2, <2>6, <2>9, <2>10, Rebuilt
    <2>12. p.hash \in HashesIn(plan.points)
      BY DEF HashesIn
    <2>13. CASE p.hash = BaselineArgs
      BY <2>2, <2>13, LegalBaseline
    <2>14. CASE p.hash = spot.hash
      BY <2>7, <2>9, <2>14
    <2>15. CASE p.hash \in HashesIn(selected)
      <3>1. PICK q \in Range(selected) : q.hash = p.hash
        BY <2>15 DEF HashesIn
      <3>2. PICK base \in Range(selected) : base.hash = BaselineArgs
        BY DEF HashesIn
      <3> SUFFICES ASSUME NEW n \in Departs(p.hash)
                   PROVE  n \in InvariantNames(branch)
        OBVIOUS
      <3>3. n \in CandidateNames(branch) /\ q.hash[n] # branch.baseline[n]
        BY <3>1 DEF Departs
      <3>4. n \in DOMAIN q.hash
        <4>1. q.hash \in FullConfigs
          BY <2>2 DEF LegalConfigs
        <4>2. PICK f \in FullChoices : q.hash = Updated(branch.fixed, f)
          BY <4>1, FullByChoice
        <4>3. DOMAIN f = CandidateNames(branch)
          BY FullByChoice
        <4> QED
          BY <3>3, <4>2, <4>3 DEF Updated
      <3>5. n \in DOMAIN base.hash /\ base.hash[n] = branch.baseline[n]
        <4>1. DOMAIN branch.baseline = CandidateNames(branch)
          BY <2>2 DEF ValidBranch
        <4> QED
          BY <3>2, <3>3, <4>1 DEF BaselineArgs, Updated
      <3>6. Get(q.hash, n) # Get(base.hash, n)
        BY <3>3, <3>4, <3>5 DEF Get
      <3>7. n \in VariedArgs(selected)
        BY <3>1, <3>2, <3>4, <3>6 DEF VariedArgs
      <3> QED
        BY <2>3, <3>3, <3>7 DEF AccuracyInvariantSearch
    <2> QED
      BY <2>11, <2>12, <2>13, <2>14, <2>15
  <1> QED
    BY <1>1, StartupInvariant, PTL

LEMMA ExtremeIsEnd ==
  ASSUME ValidBranch(branch), DeclaresLists(branch), NEW c \in Range(branch.candidate), NEW v
  PROVE  Extreme(c.name, v) <=> AtEnd(c.values, v)
  <1>1. c.name \in CandidateNames(branch)
    BY DEF CandidateNames
  <1>2. CandidateOf(branch, c.name) = c
    BY <1>1, CandidateNamed, OneOfEachName
  <1> QED
    BY <1>2 DEF Extreme, AtEnd

\* A configuration at the baseline but for the varied candidates, which are at an
\* end, is what its own choices are assembled into.
LEMMA ExtremeAssembled ==
  ASSUME ValidBranch(branch), DeclaresLists(branch), NEW varied \in SUBSET CandidateNames(branch),
         NEW c \in FullConfigs, Departs(c) \subseteq varied,
         \A n \in varied : Extreme(n, c[n])
  PROVE  LET q == [n \in varied |-> c[n]]
         IN ToEnds(branch, varied, q) /\ Assemble(branch, q) = c
  <1> DEFINE names == CandidateNames(branch)
             q == [n \in varied |-> c[n]]
             chosen == [n \in names |-> IF n \in DOMAIN q THEN q[n] ELSE branch.baseline[n]]
  <1>1. PICK f \in FullChoices : c = Updated(branch.fixed, f)
    BY FullByChoice
  <1>2. /\ f = [n \in names |-> f[n]]
        /\ \A n \in names : c[n] = f[n] /\ f[n] \in ValuesOf(branch, n)
    BY <1>1, FullByChoice DEF FullChoices
  <1>3. \A n \in names \ varied : c[n] = branch.baseline[n]
    BY DEF Departs
  <1>4. q \in [varied -> AllValues(branch)]
    <2>1. \A n \in names : ValuesOf(branch, n) \subseteq AllValues(branch)
      BY DEF ValuesOf, AllValues
    <2>2. \A n \in varied : c[n] \in AllValues(branch)
      BY <1>2, <2>1
    <2> QED
      BY <2>2
  <1>5. ASSUME NEW d \in Range(branch.candidate), d.name \in varied
        PROVE  q[d.name] \in { v \in Range(d.values) : AtEnd(d.values, v) }
    <2>1. c[d.name] \in Range(d.values)
      BY <1>2, <1>5, ValuesOfOne
    <2>2. AtEnd(d.values, c[d.name])
      BY <1>5, ExtremeIsEnd
    <2> QED
      BY <1>5, <2>1, <2>2
  <1>6. ToEnds(branch, varied, q)
    BY <1>4, <1>5 DEF ToEnds
  <1>7. Assemble(branch, q) = Updated(branch.fixed, chosen)
    <2>1. DOMAIN q \subseteq names
      OBVIOUS
    <2> HIDE DEF q
    <2> QED
      BY <2>1, Assembled
  <1>8. \A n \in names : chosen[n] = f[n]
    BY <1>2, <1>3
  <1>9. chosen = f
    BY <1>2, <1>8
  <1> QED
    BY <1>1, <1>6, <1>7, <1>9

LEMMA LeastOf ==
  ASSUME NEW T, T \subseteq Nat, NEW n \in T, \A m \in T : n <= m
  PROVE  Min(T) = n
  <1>1. \E x \in T : \A m \in T : x <= m
    OBVIOUS
  <1>2. Min(T) \in T /\ \A m \in T : Min(T) <= m
    BY <1>1 DEF Min
  <1> DEFINE x == Min(T)
  <1> HIDE DEF x
  <1>3. x \in Nat /\ n \in Nat /\ x <= n /\ n <= x
    BY <1>2 DEF x
  <1> QED
    BY <1>3 DEF x

\* The spot-check of a skipping plan stresses accuracy as far as the declared
\* ranges and the rules let it: extreme on every varied candidate, and as far
\* from the baseline as any other such configuration where they first differ.
THEOREM SpotIsExtreme == Spec => []SpotCheckIsExtreme
  <1>1. StartupInv => SpotCheckIsExtreme
    <2> DEFINE varied == Varied(selected)
               names == CandidateNames(branch)
    <2> SUFFICES ASSUME StartupInv, phase = "ready", plan.skipped
                 PROVE  SpotCheckIsExtreme
      BY DEF SpotCheckIsExtreme, Planned
    <2>1. RequestInv /\ phase \in {"plan", "ready"}
      BY DEF StartupInv
    <2>2. ValidBranch(branch) /\ DeclaresLists(branch)
      BY <2>1, SelectedSome
    <2>3. varied \in SUBSET names
      BY DEF Varied, InvariantNames, CandidateNames
    <2>4. AllExtreme = { c \in FullConfigs : /\ Legal(c) /\ Departs(c) \subseteq varied
                                             /\ \A n \in varied : Extreme(n, c[n]) }
      BY DEF AllExtreme, Varied
    <2> HIDE DEF varied
    <2>5. PICK o : /\ IsSpot(branch, varied, o)
                   /\ plan = SkippingPlan(branch, selected,
                               Point(branch, SpotLabel(o), Assemble(branch, o)))
      BY <2>1, SkipOrNot DEF varied
    <2> DEFINE hash == Assemble(branch, o)
    <2>6. plan.spot.hash = hash
      BY <2>5 DEF SkippingPlan, Point
    <2> HIDE DEF hash
    <2>7. ToEnds(branch, varied, o) /\ IsValid(branch, hash)
      BY <2>5 DEF IsSpot, hash
    <2>8. /\ hash \in FullConfigs /\ Departs(hash) \subseteq varied
          /\ \A n \in varied : hash[n] = o[n]
          /\ \A n \in names \ varied : hash[n] = branch.baseline[n]
      BY <2>2, <2>3, <2>7, EndsAssembled DEF hash
    <2>9. hash \in AllExtreme
      <3>1. Legal(hash)
        BY <2>7, LegalIsValid
      <3>2. ASSUME NEW n \in varied
            PROVE  Extreme(n, hash[n])
        <4>1. PICK c \in Range(branch.candidate) : c.name = n
          BY <2>3 DEF CandidateNames
        <4>2. AtEnd(c.values, o[n])
          BY <2>7, <4>1 DEF ToEnds
        <4> QED
          BY <2>2, <2>8, <4>1, <4>2, ExtremeIsEnd
      <3> QED
        BY <2>4, <2>8, <3>1, <3>2
    <2>10. ASSUME NEW c \in AllExtreme \ {hash}
           PROVE  LET Differ(n) == c[branch.candidate[n].name] # hash[branch.candidate[n].name]
                      first == Min({ n \in DOMAIN branch.candidate : Differ(n) })
                      arg   == branch.candidate[first].name
                  IN IF Range(branch.candidate[first].values) \subseteq Int
                       THEN Distance(c[arg], branch.baseline[arg])
                              <= Distance(hash[arg], branch.baseline[arg])
                       ELSE hash[arg] # branch.baseline[arg]
      <3> DEFINE q == [n \in varied |-> c[n]]
                 Name(n) == branch.candidate[n].name
                 T == { n \in DOMAIN branch.candidate : c[Name(n)] # hash[Name(n)] }
      <3>1. /\ c \in FullConfigs /\ Legal(c) /\ Departs(c) \subseteq varied
            /\ \A n \in varied : Extreme(n, c[n])
        BY <2>4
      <3>2. ToEnds(branch, varied, q) /\ Assemble(branch, q) = c
        BY <2>2, <2>3, <3>1, ExtremeAssembled
      <3>3. \A n \in varied : q[n] = c[n]
        OBVIOUS
      <3> HIDE DEF q
      <3>4. IsValid(branch, Assemble(branch, q)) /\ q # o
        BY <3>1, <3>2, LegalIsValid DEF hash
      <3>5. Outdoes(branch, varied, o, q)
        BY <2>5, <3>2, <3>4 DEF IsSpot
      <3>6. PICK n \in DOMAIN branch.candidate :
              LET d == branch.candidate[n]
              IN /\ d.name \in varied /\ o[d.name] # q[d.name]
                 /\ \A m \in 1 .. n - 1 : LET name == branch.candidate[m].name
                                          IN name \in varied => o[name] = q[name]
                 /\ AsFar(d.values, branch.baseline[d.name], o[d.name], q[d.name])
        BY <3>5 DEF Outdoes
      <3>7. DOMAIN branch.candidate = 1 .. Len(branch.candidate) /\ Len(branch.candidate) \in Nat
        BY <2>2 DEF DeclaresLists, IsList
      <3>8. n \in T
        BY <2>8, <3>3, <3>6
      <3>9. ASSUME NEW m \in 1 .. n - 1
            PROVE  m \notin T
        <4>1. Name(m) \in names
          BY <3>7 DEF CandidateNames, Range
        <4>2. CASE Name(m) \in varied
          BY <2>8, <3>3, <3>6, <4>2
        <4>3. CASE Name(m) \notin varied
          BY <2>8, <3>1, <4>1, <4>3 DEF Departs
        <4> QED
          BY <4>2, <4>3
      <3>10. \A m \in T : m \in DOMAIN branch.candidate
        OBVIOUS
      <3> HIDE DEF T
      <3>11. T \subseteq Nat /\ \A m \in T : n <= m
        BY <3>7, <3>9, <3>10
      <3>12. Min(T) = n
        BY <3>8, <3>11, LeastOf
      <3>13. c[Name(n)] = q[Name(n)] /\ hash[Name(n)] = o[Name(n)]
             /\ AsFar(branch.candidate[n].values, branch.baseline[Name(n)], o[Name(n)], q[Name(n)])
        BY <2>8, <3>3, <3>6
      <3>14. IF Range(branch.candidate[n].values) \subseteq Int
               THEN Distance(c[Name(n)], branch.baseline[Name(n)])
                      <= Distance(hash[Name(n)], branch.baseline[Name(n)])
               ELSE hash[Name(n)] # branch.baseline[Name(n)]
        BY <3>13 DEF AsFar
      <3> QED
        BY <3>12, <3>14 DEF T
    <2> QED
      BY <2>6, <2>9, <2>10 DEF SpotCheckIsExtreme
  <1> QED
    BY <1>1, StartupInvariant, PTL

=============================================================================
