---------------------------- MODULE ServerProofs ----------------------------
(***************************************************************************)
(* Proofs about Server, for every list of configurations, every number of  *)
(* passes, readiness intervals and runners, at work in any order and       *)
(* together.                                                               *)
(***************************************************************************)
EXTENDS Server, TLAPS

\* Outside a launch and its end a runner knows no server.
NoneMine == \A r \in Runners : ~Launched(r) => mine[r] = None

\* Runners are started in order and once.
InOrder == \A r \in Runners : r > started => runner[r] = "none"

\* No other runner is at work beside a sole one.
NoOther == sole # None => \A r \in Runners : Working(r) => r = sole

\* If it found no server left either, it knows every server there is.
OnlyMine ==
  clean /\ sole # None /\ Working(sole) => \A k \in DOMAIN procs : Alive(k) => k = mine[sole]

ServerInv ==
  /\ TypeOK
  /\ NoneMine
  /\ InOrder
  /\ NoOther
  /\ OnlyMine
  /\ EveryServerReaped
  /\ CleanStartMeasuresItsOwn

LEMMA InitServerInv == Init => ServerInv
  <1> SUFFICES ASSUME Init PROVE ServerInv
    OBVIOUS
  <1>1. procs \in Seq(Process) /\ Len(procs) = 0 /\ DOMAIN procs = {}
    BY DEF Init
  <1>2. TypeOK
    <2>1. Len(Configs) \in Nat /\ Points \in Nat /\ Intervals \in Nat /\ MaxRunners \in Nat
      BY ServerConstants
    <2>2. /\ runner \in [Runners -> Places] /\ then \in [Runners -> {"next", "exited"}]
          /\ \A r \in Runners : ~Launched(r)
      BY DEF Init, Places, Launched
    <2>3. /\ at \in [Runners -> 0 .. Len(Configs)] /\ passes \in [Runners -> 0 .. Points]
          /\ waited \in [Runners -> 0 .. Intervals] /\ mine \in [Runners -> 0 .. Len(procs)]
      BY <1>1, <2>1 DEF Init, None
    <2>4. /\ port \in 0 .. Len(procs) /\ port = None
          /\ started \in 0 .. MaxRunners /\ sole \in 0 .. MaxRunners
          /\ clean \in BOOLEAN /\ abandoned \subseteq Runners
      BY <1>1, <2>1 DEF Init, None
    <2> QED
      BY <1>1, <2>2, <2>3, <2>4 DEF TypeOK
  <1>3. NoneMine /\ InOrder /\ NoOther /\ OnlyMine
    BY DEF Init, NoneMine, InOrder, NoOther, OnlyMine
  <1> QED
    BY <1>1, <1>2, <1>3 DEF Init, ServerInv, EveryServerReaped, CleanStartMeasuresItsOwn

\* A state of a process changes and nothing else about the processes.
LEMMA SetStateType ==
  ASSUME TypeOK, NEW j \in DOMAIN procs, NEW s \in States, SetState(j, s)
  PROVE  /\ procs' \in Seq(Process)
         /\ Len(procs') = Len(procs) /\ DOMAIN procs' = DOMAIN procs
         /\ procs'[j].state = s /\ procs'[j].owner = procs[j].owner
         /\ \A k \in DOMAIN procs : k # j => procs'[k] = procs[k]
  <1>1. procs \in Seq(Process) /\ procs[j] \in Process
    BY DEF TypeOK
  <1> DEFINE p == [procs[j] EXCEPT !.state = s]
  <1>2. p \in Process /\ p.state = s /\ p.owner = procs[j].owner
    BY <1>1 DEF Process
  <1>3. procs' = [procs EXCEPT ![j] = p]
    BY DEF SetState
  <1> HIDE DEF p
  <1> QED
    BY <1>1, <1>2, <1>3

\* So the port stays with a process that may hold it.
LEMMA PortKept ==
  ASSUME TypeOK, NEW j \in DOMAIN procs, NEW s \in States, SetState(j, s), port' = port,
         s \in {"stopping", "killed"}
  PROVE  port' # None => procs'[port'].state \in {"serving", "stopping", "killed"}
  <1>1. port # None => port \in DOMAIN procs /\ procs[port].state \in {"serving", "stopping", "killed"}
    BY DEF TypeOK, None
  <1> QED
    BY <1>1, SetStateType

\* Where one runner goes the others stay.
LEMMA GoesTo ==
  ASSUME TypeOK, NEW r \in Runners, NEW place \in Places, Goes(r, place)
  PROVE  /\ runner' \in [Runners -> Places]
         /\ runner'[r] = place
         /\ \A q \in Runners : q # r => runner'[q] = runner[q]
  BY DEF TypeOK, Goes

\* A step that only makes a process go, or signals it, keeps what is known.
LEMMA ProcessStep ==
  ASSUME ServerInv, NEW j \in DOMAIN procs, NEW s \in States, SetState(j, s),
         s # "gone" => Alive(j),
         UNCHANGED <<local, started, history, readings>>,
         port' \in {None, port, j},
         port' # None => procs'[port'].state \in {"serving", "stopping", "killed"},
         runner' \in [Runners -> Places],
         \A r \in Runners : \/ runner'[r] = runner[r]
                            \/ {runner[r], runner'[r]} \subseteq {"shutdown", "term", "kill"}
  PROVE  ServerInv'
  <1> USE DEF ServerInv, local, history
  <1>1. /\ procs' \in Seq(Process)
        /\ Len(procs') = Len(procs) /\ DOMAIN procs' = DOMAIN procs
        /\ procs'[j].state = s /\ procs'[j].owner = procs[j].owner
        /\ \A k \in DOMAIN procs : k # j => procs'[k] = procs[k]
    BY SetStateType
  <1>2. \A k \in DOMAIN procs : (Alive(k)' => Alive(k)) /\ procs'[k].owner = procs[k].owner
    BY <1>1 DEF Alive
  <1>3. \A r \in Runners : (Launched(r)' <=> Launched(r)) /\ (Working(r)' <=> Working(r))
    BY DEF Launched, Working
  <1>4. TypeOK'
    BY <1>1, <1>3 DEF TypeOK, None
  <1>5. NoneMine' /\ NoOther'
    BY <1>3 DEF NoneMine, NoOther
  <1>6. InOrder'
    BY DEF InOrder
  <1>7. OnlyMine'
    <2>1. sole # None => sole \in Runners
      BY DEF TypeOK, Runners, None
    <2> QED
      BY <1>1, <1>2, <1>3, <2>1 DEF OnlyMine
  <1>8. EveryServerReaped'
    BY <1>1, <1>2, <1>3 DEF EveryServerReaped
  <1> QED
    BY <1>4, <1>5, <1>6, <1>7, <1>8 DEF CleanStartMeasuresItsOwn

\* A step of one runner that stays between its launch and its end.
LEMMA RunnerStep ==
  ASSUME ServerInv, TypeOK', NEW r \in Runners, Launched(r), Launched(r)',
         \A q \in Runners : q # r => runner'[q] = runner[q],
         UNCHANGED <<procs, started, history, readings, mine>>
  PROVE  ServerInv'
  <1> USE DEF ServerInv, history
  <1>1. \A q \in Runners : (Launched(q)' <=> Launched(q)) /\ (Working(q)' <=> Working(q))
    BY DEF Launched, Working
  <1>2. NoneMine' /\ NoOther'
    BY <1>1 DEF NoneMine, NoOther
  <1>3. InOrder'
    BY <1>1 DEF InOrder, Launched
  <1>4. OnlyMine'
    BY <1>1 DEF OnlyMine, Alive, TypeOK, Runners, None
  <1>5. EveryServerReaped'
    BY <1>1 DEF EveryServerReaped, Alive
  <1> QED
    BY <1>2, <1>3, <1>4, <1>5 DEF CleanStartMeasuresItsOwn

\* A step of one runner that has, from then on, no server to know: it had none,
\* it saw its server gone, or it abandons it.
LEMMA LettingGo ==
  ASSUME ServerInv, NEW r \in Runners, NEW place \in {"next", "exited"},
         Working(r), Goes(r, place), mine' = [mine EXCEPT ![r] = None],
         UNCHANGED <<procs, port, started, sole, clean, readings, then, at, passes, waited>>,
         \/ abandoned' = abandoned /\ (mine[r] = None \/ ~Alive(mine[r]))
         \/ abandoned' = abandoned \cup {r} /\ place = "exited"
  PROVE  ServerInv'
  <1> USE DEF ServerInv
  <1>1. /\ runner' \in [Runners -> Places] /\ runner'[r] = place
        /\ \A q \in Runners : q # r => runner'[q] = runner[q]
    BY GoesTo DEF Places
  <1>2. /\ mine' \in [Runners -> 0 .. Len(procs)] /\ mine'[r] = None
        /\ \A q \in Runners : q # r => mine'[q] = mine[q]
    BY DEF TypeOK, None
  <1>3. /\ ~Launched(r)'
        /\ \A q \in Runners : /\ Working(q)' => Working(q)
                              /\ q # r => (Launched(q)' <=> Launched(q))
    BY <1>1 DEF Launched, Working
  <1>4. abandoned' \subseteq Runners /\ abandoned \subseteq abandoned'
    BY DEF TypeOK
  <1>5. TypeOK'
    BY <1>1, <1>2, <1>3, <1>4 DEF TypeOK
  <1>6. NoneMine' /\ NoOther'
    BY <1>2, <1>3 DEF NoneMine, NoOther
  <1>7. InOrder'
    BY <1>1 DEF InOrder, Working
  <1>8. OnlyMine'
    <2> SUFFICES ASSUME clean, sole # None, Working(sole)', NEW k \in DOMAIN procs, Alive(k)
                 PROVE  k = mine'[sole]
      BY DEF OnlyMine, Alive
    <2>1. sole \in Runners
      BY DEF TypeOK, Runners, None
    <2>2. Working(sole) /\ r = sole /\ k = mine[sole]
      BY <1>3, <2>1 DEF OnlyMine, NoOther
    <2>3. None \notin DOMAIN procs
      BY DEF TypeOK, None
    <2>4. abandoned' = abandoned \cup {r} /\ place = "exited"
      BY <2>2, <2>3
    <2> QED
      BY <1>1, <2>2, <2>4 DEF Working
  <1>9. EveryServerReaped'
    <2> SUFFICES ASSUME NEW q \in Runners, q \notin abandoned', NEW k \in DOMAIN procs,
                        Alive(k), procs[k].owner = q
                 PROVE  Launched(q)' /\ mine'[q] = k
      BY DEF EveryServerReaped, Alive
    <2>1. Launched(q) /\ mine[q] = k
      BY <1>4 DEF EveryServerReaped
    <2>2. None \notin DOMAIN procs
      BY DEF TypeOK, None
    <2>3. q # r
      BY <2>1, <2>2
    <2> QED
      BY <1>2, <1>3, <2>1, <2>3
  <1> QED
    BY <1>5, <1>6, <1>7, <1>8, <1>9 DEF CleanStartMeasuresItsOwn

LEMMA SpawnServerInv ==
  ASSUME ServerInv, NEW r \in Runners, Spawn(r)
  PROVE  ServerInv'
  <1> USE ServerConstants DEF ServerInv
  <1> DEFINE new == [config |-> Configs[at[r] + 1], owner |-> r, state |-> "starting"]
  <1>1. new \in Process
    BY DEF Spawn, TypeOK, Process, Config, States
  <1>2. procs' = Append(procs, new) /\ new.state # "gone" /\ new.owner = r
    BY DEF Spawn
  <1> HIDE DEF new
  <1>3. /\ procs' \in Seq(Process)
        /\ DOMAIN procs' = DOMAIN procs \cup {Len(procs) + 1}
        /\ Len(procs') = Len(procs) + 1
        /\ procs'[Len(procs) + 1] = new
        /\ \A k \in DOMAIN procs : procs'[k] = procs[k]
    BY <1>1, <1>2 DEF TypeOK
  <1>4. /\ mine' \in [Runners -> 0 .. Len(procs')] /\ mine'[r] = Len(procs) + 1
        /\ mine'[r] # None
        /\ \A q \in Runners : q # r => mine'[q] = mine[q]
    BY <1>3 DEF Spawn, TypeOK, None
  <1>5. /\ runner' \in [Runners -> Places] /\ runner'[r] = "waiting"
        /\ \A q \in Runners : q # r => runner'[q] = runner[q]
    BY GoesTo DEF Spawn, Places
  <1>6. /\ ~Launched(r) /\ Launched(r)' /\ mine[r] = None /\ None \notin DOMAIN procs
        /\ \A q \in Runners : /\ Working(q)' <=> Working(q)
                              /\ q # r => (Launched(q)' <=> Launched(q))
    BY <1>5 DEF Spawn, Launched, Working, NoneMine, TypeOK, None
  <1>7. TypeOK'
    <2>1. /\ at' \in [Runners -> 0 .. Len(Configs)] /\ passes' \in [Runners -> 0 .. Points]
          /\ waited' \in [Runners -> 0 .. Intervals] /\ then' \in [Runners -> {"next", "exited"}]
      BY DEF Spawn, TypeOK
    <2>2. /\ port' \in 0 .. Len(procs')
          /\ port' # None => procs'[port'].state \in {"serving", "stopping", "killed"}
      BY <1>3 DEF Spawn, TypeOK, None
    <2>3. started' \in 0 .. MaxRunners /\ sole' \in 0 .. MaxRunners /\ clean' \in BOOLEAN
          /\ abandoned' \subseteq Runners
      BY DEF Spawn, TypeOK, history
    <2> QED
      BY <1>3, <1>4, <1>5, <1>6, <2>1, <2>2, <2>3 DEF TypeOK
  <1>8. NoneMine' /\ NoOther' /\ InOrder'
    BY <1>4, <1>5, <1>6 DEF Spawn, NoneMine, NoOther, InOrder, history
  <1>9. OnlyMine'
    <2> SUFFICES ASSUME clean, sole # None, Working(sole)', NEW k \in DOMAIN procs', Alive(k)'
                 PROVE  k = mine'[sole]
      BY DEF OnlyMine, Spawn, history
    <2>1. sole \in Runners
      BY DEF TypeOK, Runners, None
    <2>2. Working(sole) /\ Working(r) /\ r = sole
      BY <1>6, <2>1 DEF Spawn, NoOther, Working
    <2>3. k \notin DOMAIN procs
      BY <1>3, <1>6, <2>2 DEF OnlyMine, Alive
    <2> QED
      BY <1>3, <1>4, <2>2, <2>3
  <1>10. EveryServerReaped'
    <2>1. abandoned' = abandoned
      BY DEF Spawn, history
    <2> SUFFICES ASSUME NEW q \in Runners, q \notin abandoned, NEW k \in DOMAIN procs',
                        Alive(k)', procs'[k].owner = q
                 PROVE  Launched(q)' /\ mine'[q] = k
      BY <2>1 DEF EveryServerReaped
    <2>2. CASE k = Len(procs) + 1
      BY <1>2, <1>3, <1>4, <1>6, <2>2
    <2>3. CASE k \in DOMAIN procs
      <3>1. Alive(k) /\ procs[k].owner = q
        BY <1>3, <2>3 DEF Alive
      <3>2. Launched(q) /\ mine[q] = k
        BY <2>3, <3>1 DEF EveryServerReaped
      <3> QED
        BY <1>4, <1>6, <3>2
    <2> QED
      BY <1>3, <2>2, <2>3
  <1> QED
    BY <1>7, <1>8, <1>9, <1>10 DEF Spawn, CleanStartMeasuresItsOwn

LEMMA MeasureServerInv ==
  ASSUME ServerInv, NEW r \in Runners, Measure(r)
  PROVE  ServerInv'
  <1> USE DEF ServerInv
  <1>1. TypeOK'
    <2>1. passes' \in [Runners -> 0 .. Points]
      BY ServerConstants DEF Measure, TypeOK
    <2> QED
      BY <2>1 DEF Measure, TypeOK, history, Launched
  <1> DEFINE reading == [meant |-> procs[mine[r]].config, measured |-> procs[port].config,
                         sole |-> sole = r, clean |-> clean]
  <1>2. reading.sole /\ reading.clean => reading.meant = reading.measured
    <2> SUFFICES ASSUME sole = r, clean PROVE port = mine[r]
      OBVIOUS
    <2>1. r # None /\ Working(r) /\ port \in DOMAIN procs /\ Alive(port)
      BY DEF Measure, Answers, Working, Alive, TypeOK, Runners, None
    <2> QED
      BY <2>1 DEF OnlyMine
  <1>3. readings' = readings \cup {reading}
    BY DEF Measure
  <1> HIDE DEF reading
  <1>4. CleanStartMeasuresItsOwn'
    BY <1>2, <1>3 DEF CleanStartMeasuresItsOwn
  <1> QED
    BY <1>1, <1>4 DEF Measure, NoneMine, InOrder, NoOther, OnlyMine, EveryServerReaped,
       Launched, Working, Alive, history

LEMMA StartServerInv ==
  ASSUME ServerInv, StartRunner
  PROVE  ServerInv'
  <1> USE ServerConstants DEF ServerInv, local
  <1>1. started + 1 \in Runners /\ started + 1 > started /\ started \in Nat
    BY DEF StartRunner, TypeOK, Runners
  <1>2. runner[started + 1] = "none"
    BY <1>1 DEF InOrder
  <1>3. /\ runner' \in [Runners -> Places] /\ runner'[started + 1] = "next"
        /\ \A q \in Runners : q # started + 1 => runner'[q] = runner[q]
    BY <1>1, GoesTo DEF StartRunner, Places
  <1>4. \A q \in Runners : Launched(q)' <=> Launched(q)
    BY <1>2, <1>3 DEF Launched
  <1>5. TypeOK'
    BY <1>1, <1>3, <1>4 DEF StartRunner, TypeOK, None
  <1>6. NoneMine'
    BY <1>4 DEF StartRunner, NoneMine
  <1>7. InOrder'
    BY <1>1, <1>3 DEF StartRunner, InOrder, Runners
  <1>8. NoOther'
    BY <1>1, <1>3 DEF StartRunner, NoOther, Working, None
  <1>9. OnlyMine'
    BY DEF StartRunner, OnlyMine, Alive
  <1>10. EveryServerReaped'
    BY <1>4 DEF StartRunner, EveryServerReaped, Alive
  <1> QED
    BY <1>5, <1>6, <1>7, <1>8, <1>9, <1>10 DEF StartRunner, CleanStartMeasuresItsOwn

\* Signals and the end of a wait.
LEMMA TerminateServerInv ==
  ASSUME ServerInv, NEW r \in Runners, Terminate(r) \/ KillServer(r)
  PROVE  ServerInv'
  <1> USE DEF ServerInv, local, history
  <1>1. mine[r] \in DOMAIN procs /\ Launched(r)
    BY DEF Terminate, KillServer, TypeOK, Launched, None
  <1>2. PICK place \in {"term", "kill"} : Goes(r, place)
    BY DEF Terminate, KillServer
  <1>3. /\ runner' \in [Runners -> Places] /\ runner'[r] = place
        /\ \A q \in Runners : q # r => runner'[q] = runner[q]
    BY <1>2, GoesTo DEF Places
  <1>4. Launched(r)'
    BY <1>3 DEF Launched
  <1>5. CASE UNCHANGED procs
    <2>1. TypeOK'
      BY <1>3, <1>4, <1>5 DEF Terminate, KillServer, TypeOK, Launched
    <2> QED
      BY <1>1, <1>3, <1>4, <1>5, <2>1, RunnerStep DEF Terminate, KillServer
  <1>6. CASE \E s \in {"stopping", "killed"} : Alive(mine[r]) /\ SetState(mine[r], s)
    <2>1. PICK s \in {"stopping", "killed"} : Alive(mine[r]) /\ SetState(mine[r], s)
      BY <1>6
    <2>2. port' = port /\ (port' # None => procs'[port'].state \in {"serving", "stopping", "killed"})
      BY <1>1, <2>1, PortKept DEF Terminate, KillServer, States
    <2> QED
      BY <1>1, <1>3, <2>1, <2>2, ProcessStep DEF Terminate, KillServer, States
  <1> QED
    BY <1>5, <1>6 DEF Terminate, KillServer, LastSignal, Alive

LEMMA ServersServerInv ==
  ASSUME ServerInv, Servers
  PROVE  ServerInv'
  <1> USE DEF ServerInv, local, history
  <1>1. PICK k \in DOMAIN procs : Bind(k) \/ Die(k) \/ Stop(k)
    BY DEF Servers
  <1>2. PICK s \in {"serving", "gone"} :
          /\ SetState(k, s)
          /\ s = "serving" => Alive(k) /\ port' = k
          /\ s = "gone" => Release(k)
          /\ UNCHANGED <<runner, local, started, history, readings>>
    BY <1>1 DEF Bind, Die, Stop, Alive
  <1>3. /\ port' \in {None, port, k}
        /\ port' # None => procs'[port'].state \in {"serving", "stopping", "killed"}
    BY <1>2, SetStateType DEF Release, States, TypeOK, None
  <1>4. runner' \in [Runners -> Places]
    BY <1>2 DEF TypeOK
  <1> QED
    BY <1>2, <1>3, <1>4, ProcessStep DEF States

LEMMA TeardownServerInv ==
  ASSUME ServerInv, Teardown
  PROVE  ServerInv'
  <1> USE DEF ServerInv, local, history
  <1>1. PICK k \in DOMAIN procs :
          procs[k].state \in {"starting", "serving"} /\ SetState(k, "stopping")
    BY DEF Teardown
  <1>2. port' = port /\ (port' # None => procs'[port'].state \in {"serving", "stopping", "killed"})
    BY <1>1, PortKept DEF Teardown, States
  <1>3. runner' \in [Runners -> Places]
    BY DEF Teardown, TypeOK
  <1> QED
    BY <1>1, <1>2, <1>3, ProcessStep DEF Teardown, States, Alive

\* A runner between its launch and its end goes on, or starts to shut down.
LEMMA WithinServerInv ==
  ASSUME ServerInv, NEW r \in Runners,
         Ready(r) \/ Sleep(r) \/ GiveUp(r) \/ MeasureFails(r) \/ Finish(r)
  PROVE  ServerInv'
  <1> USE ServerConstants DEF ServerInv, local
  <1>1. Launched(r)
    BY DEF Ready, Sleep, GiveUp, MeasureFails, Finish, Launched
  <1>2. PICK place \in {"waiting", "live", "shutdown"} : Goes(r, place) \/ (runner' = runner /\ runner[r] = place)
    BY DEF Ready, Sleep, GiveUp, MeasureFails, Finish
  <1>3. /\ runner' \in [Runners -> Places] /\ runner'[r] = place
        /\ \A q \in Runners : q # r => runner'[q] = runner[q]
    <2>1. CASE Goes(r, place)
      BY <2>1, GoesTo DEF Places
    <2>2. CASE runner' = runner /\ runner[r] = place
      BY <2>2 DEF TypeOK
    <2> QED
      BY <1>2, <2>1, <2>2
  <1>4. Launched(r)'
    BY <1>3 DEF Launched
  <1>5. waited' \in [Runners -> 0 .. Intervals] /\ then' \in [Runners -> {"next", "exited"}]
    <2>1. CASE Sleep(r)
      <3>1. waited[r] + 1 \in 0 .. Intervals
        BY <2>1 DEF Sleep, MoreTime, TypeOK
      <3> QED
        BY <2>1, <3>1 DEF Sleep, TypeOK
    <2>2. CASE Ready(r) \/ GiveUp(r) \/ MeasureFails(r) \/ Finish(r)
      BY <2>2 DEF Ready, GiveUp, MeasureFails, Finish, TypeOK
    <2> QED
      BY <2>1, <2>2
  <1>6. UNCHANGED <<procs, port, started, history, readings, mine, at, passes>>
    BY DEF Ready, Sleep, GiveUp, MeasureFails, Finish
  <1>7. TypeOK'
    BY <1>1, <1>3, <1>5, <1>6 DEF TypeOK, Launched, history
  <1> QED
    BY <1>1, <1>3, <1>4, <1>6, <1>7, RunnerStep

\* A runner ends, or lets its server go.
LEMMA EndingServerInv ==
  ASSUME ServerInv, NEW r \in Runners,
         SpawnFails(r) \/ LaunchRaises(r) \/ Reap(r) \/ Exit(r) \/ KillRunner(r)
  PROVE  ServerInv'
  <1> USE DEF ServerInv, local, history
  <1>1. CASE SpawnFails(r) \/ Exit(r)
    <2>1. Working(r) /\ mine[r] = None
      BY <1>1 DEF SpawnFails, Exit, Working, Launched, NoneMine
    <2>2. mine' = [mine EXCEPT ![r] = None]
      BY <1>1, <2>1 DEF SpawnFails, Exit, TypeOK
    <2> QED
      BY <1>1, <2>1, <2>2, LettingGo DEF SpawnFails, Exit
  <1>2. CASE Reap(r)
    <2>1. Working(r) /\ then[r] \in {"next", "exited"}
      BY <1>2 DEF Reap, Working, TypeOK
    <2> QED
      BY <1>2, <2>1, LettingGo DEF Reap, Reaped
  <1>3. CASE LaunchRaises(r) \/ KillRunner(r)
    <2>1. Working(r) /\ Abandon(r)
      BY <1>3 DEF LaunchRaises, KillRunner, Working
    <2> QED
      BY <2>1, LettingGo DEF Abandon
  <1> QED
    BY <1>1, <1>2, <1>3

LEMMA NextServerInv == ServerInv /\ [Next]_vars => ServerInv'
  <1> SUFFICES ASSUME ServerInv, [Next]_vars PROVE ServerInv'
    OBVIOUS
  <1>1. CASE \E r \in Runners : Runner(r) \/ KillRunner(r)
    <2>1. PICK r \in Runners : Runner(r) \/ KillRunner(r)
      BY <1>1
    <2> QED
      BY <2>1, SpawnServerInv, WithinServerInv, MeasureServerInv, TerminateServerInv,
         EndingServerInv DEF Runner
  <1>2. CASE Servers \/ StartRunner \/ Teardown
    BY <1>2, ServersServerInv, StartServerInv, TeardownServerInv
  <1>3. CASE UNCHANGED vars
    BY <1>3 DEF vars, local, history, ServerInv, TypeOK, NoneMine, InOrder, NoOther, OnlyMine,
       EveryServerReaped, CleanStartMeasuresItsOwn, Launched, Working, Alive
  <1> QED
    BY <1>1, <1>2, <1>3 DEF Next, Operator

THEOREM ServerInvariant == Spec => []ServerInv
  BY InitServerInv, NextServerInv, PTL DEF Spec

\* The variables keep their types.
THEOREM ServerTypes == Spec => []TypeOK
  <1>1. ServerInv => TypeOK
    BY DEF ServerInv
  <1> QED
    BY <1>1, ServerInvariant, PTL

\* Whoever is killed or dies, a runner that started with no server left and no
\* other runner at work records nothing but measurements of the servers it
\* launched, until another runner is started beside it.
THEOREM CleanRunnersMeasureTheirOwn == Spec => []CleanStartMeasuresItsOwn
  <1>1. ServerInv => CleanStartMeasuresItsOwn
    BY DEF ServerInv
  <1> QED
    BY <1>1, ServerInvariant, PTL

\* For any number of runners at work at once: a server that is there belongs to
\* a runner that has it to reap, or to one that was killed or whose launch
\* raised anything but TimeoutError.  The try/finally of run_search and the
\* except of launch reap every other.
THEOREM ServersAreReaped == Spec => []EveryServerReaped
  <1>1. ServerInv => EveryServerReaped
    BY DEF ServerInv
  <1> QED
    BY <1>1, ServerInvariant, PTL
=============================================================================
