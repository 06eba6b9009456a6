--------------------------- MODULE TaskManagerProofs ---------------------------
(***************************************************************************)
(* Theorems about the manager of rt/task, for every number of tasks, of    *)
(* schedules, of names shared among them and of Shutdown calls.  The first *)
(* ones hold whatever calls overlap; the last three for callers that       *)
(* serialize their calls of Add, Start and Shutdown.                       *)
(***************************************************************************)
EXTENDS TaskManager, SequenceTheorems, TLAPS

(***************************************************************************)
(* What a snapshot of m.tasks still holds.                                 *)
(***************************************************************************)

Elems(s) == {s[i] : i \in DOMAIN s}

LEMMA NoElems == <<>> \in Seq(Tasks) /\ Elems(<<>>) = {}
<1>1. <<>> \in Seq(Tasks) /\ Len(<<>>) = 0
  BY EmptySeq
<1>2. DOMAIN <<>> = {}
  BY <1>1, LenProperties
<1>3. QED
  BY <1>1, <1>2 DEF Elems

LEMMA AppendElems ==
  ASSUME NEW s \in Seq(Tasks), NEW t \in Tasks
  PROVE  Append(s, t) \in Seq(Tasks) /\ Elems(Append(s, t)) = Elems(s) \cup {t}
<1>1. /\ Append(s, t) \in Seq(Tasks)
      /\ Len(s) \in Nat /\ Len(Append(s, t)) = Len(s) + 1
      /\ DOMAIN s = 1..Len(s) /\ DOMAIN Append(s, t) = 1..(Len(s) + 1)
      /\ \A i \in 1..Len(s) : Append(s, t)[i] = s[i]
      /\ Append(s, t)[Len(s) + 1] = t
  BY AppendProperties, LenProperties
<1>2. DOMAIN Append(s, t) = DOMAIN s \cup {Len(s) + 1}
  BY <1>1
<1> HIDE <1>1
<1>3. \A i \in DOMAIN s : Append(s, t)[i] = s[i]
  BY <1>1
<1>4. QED
  BY <1>1, <1>2, <1>3 DEF Elems

LEMMA HeadTailElems ==
  ASSUME NEW s \in Seq(Tasks), s # <<>>
  PROVE  /\ Head(s) \in Tasks /\ Tail(s) \in Seq(Tasks)
         /\ Head(s) \in Elems(s)
         /\ Elems(Tail(s)) \subseteq Elems(s)
         /\ Elems(s) \subseteq {Head(s)} \cup Elems(Tail(s))
<1>1. /\ Head(s) \in Tasks /\ Tail(s) \in Seq(Tasks)
      /\ Len(s) \in Nat \ {0}
      /\ DOMAIN s = 1..Len(s) /\ DOMAIN Tail(s) = 1..(Len(s) - 1)
      /\ \A i \in 1..(Len(s) - 1) : Tail(s)[i] = s[i + 1]
      /\ Head(s) = s[1]
  BY HeadTailProperties, LenProperties, EmptySeq
<1>2. ASSUME NEW x \in Elems(Tail(s))
      PROVE  x \in Elems(s)
  <2>1. PICK i \in 1..(Len(s) - 1) : x = Tail(s)[i]
    BY <1>1, <1>2 DEF Elems
  <2>2. i + 1 \in DOMAIN s /\ x = s[i + 1]
    BY <1>1, <2>1
  <2>3. QED
    BY <2>2 DEF Elems
<1>3. ASSUME NEW x \in Elems(s), x # Head(s)
      PROVE  x \in Elems(Tail(s))
  <2>1. PICK i \in 1..Len(s) : x = s[i]
    BY <1>1, <1>3 DEF Elems
  <2>2. i - 1 \in 1..(Len(s) - 1) /\ x = Tail(s)[i - 1]
    BY <1>1, <1>3, <2>1
  <2>3. QED
    BY <1>1, <2>2 DEF Elems
<1>4. Head(s) \in Elems(s)
  BY <1>1 DEF Elems
<1>5. QED
  BY <1>1, <1>2, <1>3, <1>4

LEMMA RegisteredIsElems == Registered = Elems(tasks) /\ Registered' = Elems(tasks')
BY DEF Registered, Elems

(***************************************************************************)
(* Type correctness.                                                       *)
(***************************************************************************)

LEMMA TypeInit == Init => TypeOK
<1> SUFFICES ASSUME Init PROVE TypeOK
  OBVIOUS
<1>1. <<>> \in Seq(Tasks) /\ DOMAIN <<>> = {}
  BY NoElems, LenProperties, EmptySeq
<1>2. names \in [DOMAIN names -> Tasks]
  BY <1>1 DEF Init
<1>3. toStop \in [Closers -> Seq(Tasks)]
  BY <1>1 DEF Init
<1>4. QED
  BY <1>1, <1>2, <1>3 DEF Init, TypeOK, ManagerStates, AddDone, ShutdownOver

LEMMA TypeNext == TypeOK /\ [Next]_vars => TypeOK'
<1> SUFFICES ASSUME TypeOK, [Next]_vars PROVE TypeOK'
  OBVIOUS
<1> USE DEF TypeOK, ManagerStates, AddDone, ShutdownOver
<1>1. ASSUME NEW t \in Tasks, AddStep(t)
      PROVE  TypeOK'
  <2>1. CASE AddBegin(t)
    BY <2>1 DEF AddBegin, manager, registry, runtime, starting, stopping
  <2>2. CASE AddRegister(t)
    <3>1. CASE Taken(t)
      BY <2>2, <3>1 DEF AddRegister, manager, registry, runtime, starting, stopping
    <3>2. CASE ~Taken(t)
      <4>a. /\ tasks' = Append(tasks, t)
            /\ adder' = [adder EXCEPT ![t] = IF Activates(t) THEN "activating" ELSE "added"]
        BY <2>2, <3>2 DEF AddRegister
      <4>1. tasks' \in Seq(Tasks)
        BY <4>a, AppendElems
      <4>2. names' \in [DOMAIN names' -> Tasks]
        BY <2>2, <3>2 DEF AddRegister
      <4>3. adder' \in [Tasks -> AddDone \cup {"registering", "activating", "spawning"}]
        BY <4>a
      <4>4. QED
        BY <2>2, <4>1, <4>2, <4>3 DEF AddRegister, manager, runtime, starting, stopping
    <3>3. QED
      BY <3>1, <3>2
  <2>3. CASE AddActivate(t)
    BY <2>3 DEF AddActivate, manager, registry, starting, stopping
  <2>4. CASE AddSpawn(t)
    BY <2>4 DEF AddSpawn, manager, registry, starting, stopping
  <2>5. QED
    BY <1>1, <2>1, <2>2, <2>3, <2>4 DEF AddStep
<1>2. ASSUME NEW t \in Tasks, RequestRun(t) \/ FinishRun(t) \/ SchedulerStop(t) \/ SchedulerExit(t)
      PROVE  TypeOK'
  <2>1. CASE RequestRun(t)
    BY <2>1 DEF RequestRun, manager, registry, adding, starting, stopping
  <2>2. CASE FinishRun(t)
    <3>1. Settled \in {"Idle", "Stopping", "Stopped"}
      BY DEF Settled
    <3>2. QED
      BY <2>2, <3>1 DEF FinishRun, manager, registry, adding, starting, stopping
  <2>3. CASE SchedulerStop(t) \/ SchedulerExit(t)
    BY <2>3 DEF SchedulerStop, SchedulerExit, manager, registry, adding, starting, stopping
  <2>4. QED
    BY <1>2, <2>1, <2>2, <2>3
<1>3. CASE StartBegin \/ ParentCancel
  BY <1>3 DEF StartBegin, ParentCancel, registry, runtime, adding, starting, stopping
<1>4. CASE StartStep
  <2>1. CASE StartSnapshot
    BY <2>1 DEF StartSnapshot, manager, registry, runtime, adding, stopping
  <2>2. CASE StartActivate
    <3>1. Head(toStart) \in Tasks /\ Tail(toStart) \in Seq(Tasks)
      BY <2>2, HeadTailElems DEF StartActivate
    <3>2. /\ toStart' = Tail(toStart)
          /\ UNCHANGED <<manager, registry, busy, sched, adding, starter, stopping>>
      BY <2>2 DEF StartActivate
    <3>3. /\ state' \in [Tasks -> {"NotStarted", "Idle", "Running", "Stopping", "Stopped"}]
          /\ spawning' \in SUBSET Every
      <4>1. CASE state[Head(toStart)] = "NotStarted"
        <5>1. state' = [state EXCEPT ![Head(toStart)] = "Idle"] /\ spawning' = SchedulerOf(Head(toStart))
          BY <2>2, <4>1 DEF StartActivate
        <5>2. QED
          BY <3>1, <5>1 DEF SchedulerOf
      <4>2. CASE state[Head(toStart)] # "NotStarted"
        BY <2>2, <4>2 DEF StartActivate
      <4>3. QED
        BY <4>1, <4>2
    <3>4. QED
      BY <3>1, <3>2, <3>3 DEF manager, registry, adding, stopping
  <2>3. CASE StartSpawn
    <3>1. PICK t \in spawning : sched' = [sched EXCEPT ![t] = "on"]
      BY <2>3 DEF StartSpawn
    <3>2. sched' \in [Tasks -> {"none", "on", "off", "exited"}]
      BY <3>1
    <3>3. QED
      BY <2>3, <3>2 DEF StartSpawn, manager, registry, adding, stopping
  <2>4. QED
    BY <1>4, <2>1, <2>2, <2>3 DEF StartStep
<1>5. ASSUME NEW k \in Closers, ShutdownBegin(k) \/ ShutdownTimeout(k)
      PROVE  TypeOK'
  <2>1. CASE ShutdownBegin(k)
    <3>1. mgr' \in ManagerStates
      BY <2>1 DEF ShutdownBegin
    <3>2. closer' \in [Closers -> ShutdownOver \cup
                   {"stopSnapshot", "stopping", "waiting", "waited", "markSnapshot", "marking"}]
      BY <2>1 DEF ShutdownBegin
    <3>3. QED
      BY <2>1, <3>1, <3>2 DEF ShutdownBegin, registry, runtime, adding, starting
  <2>2. CASE ShutdownTimeout(k)
    BY <2>2 DEF ShutdownTimeout, manager, registry, runtime, adding, starting
  <2>3. QED
    BY <1>5, <2>1, <2>2
<1>6. ASSUME NEW k \in Closers, CloserStep(k)
      PROVE  TypeOK'
  <2>1. CASE ShutdownSnapshot(k)
    BY <2>1 DEF ShutdownSnapshot, manager, registry, runtime, adding, starting
  <2>2. CASE ShutdownTask(k)
    <3>1. toStop[k] \in Seq(Tasks) /\ toStop[k] # <<>>
      BY <2>2 DEF ShutdownTask
    <3>2. Head(toStop[k]) \in Tasks /\ Tail(toStop[k]) \in Seq(Tasks)
      BY <3>1, HeadTailElems
    <3>3. QED
      BY <2>2, <3>2 DEF ShutdownTask, manager, registry, adding, starting
  <2>3. CASE ShutdownCancel(k) \/ ShutdownWaited(k) \/ ShutdownStore(k) \/ ShutdownReturn(k)
    BY <2>3 DEF ShutdownCancel, ShutdownWaited, ShutdownStore, ShutdownReturn, manager, registry,
       runtime, adding, starting
  <2>4. QED
    BY <1>6, <2>1, <2>2, <2>3 DEF CloserStep
<1>7. CASE UNCHANGED vars
  BY <1>7 DEF vars, manager, registry, runtime, adding, starting, stopping
<1>8. QED
  BY <1>1, <1>2, <1>3, <1>4, <1>5, <1>6, <1>7 DEF Next

\* Every reachable state of the manager is well typed, whatever the constants.
THEOREM ManagerTypeCorrect == Spec => []TypeOK
<1>1. QED
  BY TypeInit, TypeNext, PTL DEF Spec

(***************************************************************************)
(* Runs: none is in progress where m.wg has been waited for, whoever calls *)
(* what meanwhile, because only a running manager starts one.              *)
(***************************************************************************)

RunsEnded ==
  /\ mgr \in {"NotStarted", "Stopped"} => busy = {}
  /\ \A k \in Closers :
       /\ closer[k] # "idle" => mgr \in {"Stopping", "Stopped"}
       /\ closer[k] = "waited" => busy = {}
       /\ closer[k] \in {"markSnapshot", "marking", "returned"} => mgr = "Stopped"

LEMMA RunsEndedNext == TypeOK /\ RunsEnded /\ [Next]_vars => RunsEnded'
<1> SUFFICES ASSUME TypeOK, RunsEnded, [Next]_vars PROVE RunsEnded'
  OBVIOUS
<1>a. /\ DOMAIN closer = Closers
      /\ mgr \in {"NotStarted", "Running", "Stopping", "Stopped"}
  BY DEF TypeOK, ManagerStates
<1>1. CASE UNCHANGED <<mgr, busy, closer>>
  BY <1>1 DEF RunsEnded
<1>2. ASSUME NEW t \in Tasks, RequestRun(t)
      PROVE  RunsEnded'
  <2>1. mgr = "Running" /\ UNCHANGED <<mgr, closer>>
    BY <1>2 DEF RequestRun, manager, stopping
  <2>2. QED
    BY <2>1 DEF RunsEnded
<1>3. ASSUME NEW t \in Tasks, FinishRun(t)
      PROVE  RunsEnded'
  <2>1. t \in busy /\ UNCHANGED <<mgr, closer>>
    BY <1>3 DEF FinishRun, manager, stopping
  <2>2. QED
    BY <2>1 DEF RunsEnded
<1>4. CASE StartBegin
  <2>1. UNCHANGED <<busy, closer>> /\ (mgr' = mgr \/ (mgr = "NotStarted" /\ mgr' = "Running"))
    BY <1>4 DEF StartBegin, runtime, stopping
  <2>2. QED
    BY <2>1 DEF RunsEnded
<1>5. ASSUME NEW k \in Closers, CloserStep(k) \/ ShutdownBegin(k) \/ ShutdownTimeout(k)
      PROVE  RunsEnded'
  <2>1. CASE ShutdownBegin(k)
    <3>1. /\ UNCHANGED busy
          /\ mgr' = CASE mgr = "NotStarted" -> "Stopped"
                      [] mgr = "Running" -> "Stopping"
                      [] OTHER -> mgr
          /\ closer[k] = "idle"
          /\ closer' = [closer EXCEPT ![k] = CASE mgr = "NotStarted" -> "markSnapshot"
                                               [] mgr = "Running" -> "stopSnapshot"
                                               [] mgr = "Stopping" -> "waiting"
                                               [] OTHER -> "returned"]
      BY <2>1 DEF ShutdownBegin, runtime
    <3>2. QED
      BY <1>a, <3>1 DEF RunsEnded
  <2>2. CASE ShutdownSnapshot(k) \/ ShutdownCancel(k) \/ ShutdownReturn(k) \/ ShutdownTimeout(k)
    <3>1. /\ UNCHANGED <<mgr, busy>>
          /\ \E p \in {"stopping", "marking", "waiting", "returned", "timedOut"} :
               /\ closer' = [closer EXCEPT ![k] = p]
               /\ p \in {"marking", "returned"} => closer[k] \in {"markSnapshot", "marking"}
               /\ closer[k] # "idle"
      BY <2>2 DEF ShutdownSnapshot, ShutdownCancel, ShutdownReturn, ShutdownTimeout, manager, runtime
    <3>2. QED
      BY <1>a, <3>1 DEF RunsEnded
  <2>3. CASE ShutdownTask(k)
    BY <2>3, <1>1 DEF ShutdownTask, manager
  <2>4. CASE ShutdownWaited(k)
    BY <2>4, <1>a DEF ShutdownWaited, WgZero, manager, runtime, RunsEnded
  <2>5. CASE ShutdownStore(k)
    BY <2>5, <1>a DEF ShutdownStore, runtime, RunsEnded
  <2>6. QED
    BY <1>5, <2>1, <2>2, <2>3, <2>4, <2>5 DEF CloserStep
<1>6. CASE (\E t \in Tasks : AddStep(t) \/ SchedulerStop(t) \/ SchedulerExit(t)) \/ StartStep
           \/ ParentCancel \/ UNCHANGED vars
  <2>1. UNCHANGED <<mgr, busy, closer>>
    BY <1>6 DEF AddStep, AddBegin, AddRegister, AddActivate, AddSpawn, SchedulerStop, SchedulerExit,
       StartStep, StartSnapshot, StartActivate, StartSpawn, ParentCancel, manager, runtime, stopping,
       vars
  <2>2. QED
    BY <2>1, <1>1
<1>7. QED
  BY <1>2, <1>3, <1>4, <1>5, <1>6 DEF Next

LEMMA RunsEndedInvariant == Spec => []RunsEnded
<1>1. Init => RunsEnded
  BY DEF Init, RunsEnded
<1>2. QED
  BY <1>1, RunsEndedNext, ManagerTypeCorrect, PTL DEF Spec

\* A Shutdown that returned nil has outlived every run, even when calls overlapped.
THEOREM RunsEndFirst == Spec => []NoRunOutlivesShutdown
<1>1. RunsEnded => NoRunOutlivesShutdown
  BY DEF RunsEnded, NoRunOutlivesShutdown
<1>2. QED
  BY <1>1, RunsEndedInvariant, PTL

\* Whoever finishes, starts or registers it late, a task told to stop never accepts a run again.
THEOREM StoppedForGood == Spec => NoRevival
<1>1. ASSUME TypeOK, [Next]_vars, mgr \in {"Stopping", "Stopped"},
             NEW t \in Tasks, state[t] \in {"Stopping", "Stopped"}
      PROVE  state'[t] \in {"Stopping", "Stopped"}
  <2>a. DOMAIN state = Tasks
    BY <1>1 DEF TypeOK
  <2>1. CASE UNCHANGED state
    BY <1>1, <2>1
  <2>2. ASSUME NEW s \in Tasks, AddActivate(s) \/ RequestRun(s) \/ FinishRun(s) \/ SchedulerStop(s)
        PROVE  state'[t] \in {"Stopping", "Stopped"}
    BY <1>1, <2>2, <2>a DEF AddActivate, RequestRun, FinishRun, Settled, SchedulerStop
  <2>3. CASE StartActivate
    <3>1. CASE state[Head(toStart)] = "NotStarted"
      <4>1. state' = [state EXCEPT ![Head(toStart)] = "Idle"]
        BY <2>3, <3>1 DEF StartActivate
      <4>2. QED
        BY <1>1, <2>a, <3>1, <4>1
    <3>2. CASE state[Head(toStart)] # "NotStarted"
      BY <2>3, <3>2, <2>1 DEF StartActivate
    <3>3. QED
      BY <3>1, <3>2
  <2>4. ASSUME NEW k \in Closers, ShutdownTask(k)
        PROVE  state'[t] \in {"Stopping", "Stopped"}
    <3>1. \E v \in {"Stopping", "Stopped"} : state' = [state EXCEPT ![Head(toStop[k])] = v]
      BY <2>4 DEF ShutdownTask
    <3>2. QED
      BY <1>1, <2>a, <3>1
  <2>5. CASE UNCHANGED vars
    BY <2>5, <2>1 DEF vars, runtime
  <2>6. ASSUME NEW s \in Tasks, AddBegin(s) \/ AddRegister(s) \/ AddSpawn(s) \/ SchedulerExit(s)
        PROVE  UNCHANGED state
    BY <2>6 DEF AddBegin, AddRegister, AddSpawn, SchedulerExit, runtime
  <2>7. CASE StartBegin \/ StartSnapshot \/ StartSpawn \/ ParentCancel
    BY <2>7, <2>1 DEF StartBegin, StartSnapshot, StartSpawn, ParentCancel, runtime
  <2>8. ASSUME NEW k \in Closers, ~ShutdownTask(k),
               CloserStep(k) \/ ShutdownBegin(k) \/ ShutdownTimeout(k)
        PROVE  UNCHANGED state
    BY <2>8 DEF CloserStep, ShutdownBegin, ShutdownTimeout, ShutdownSnapshot, ShutdownCancel,
       ShutdownWaited, ShutdownStore, ShutdownReturn, runtime
  <2>9. QED
    BY <1>1, <2>1, <2>2, <2>3, <2>4, <2>5, <2>6, <2>7, <2>8 DEF Next, AddStep, StartStep
<1>2. TypeOK /\ [Next]_vars =>
        [\A t \in Tasks : mgr \in {"Stopping", "Stopped"} /\ state[t] \in {"Stopping", "Stopped"}
           => state'[t] \in {"Stopping", "Stopped"}]_vars
  BY <1>1
<1>3. QED
  BY <1>2, ManagerTypeCorrect, PTL DEF Spec, NoRevival

(***************************************************************************)
(* The registry: who is registered, and that every snapshot of m.tasks     *)
(* holds registered tasks only.                                            *)
(***************************************************************************)

Listed ==
  /\ \A t \in Tasks : t \in Registered <=> adder[t] \in {"activating", "spawning", "added"}
  /\ Elems(toStart) \subseteq Registered
  /\ spawning \subseteq Registered
  /\ \A k \in Closers : Elems(toStop[k]) \subseteq Registered

LEMMA ListedKept ==
  ASSUME Listed, UNCHANGED tasks,
         \A t \in Tasks : adder'[t] \in {"activating", "spawning", "added"}
                            <=> adder[t] \in {"activating", "spawning", "added"},
         Elems(toStart') \subseteq Registered, spawning' \subseteq Registered,
         \A k \in Closers : Elems(toStop'[k]) \subseteq Registered
  PROVE  Listed'
BY RegisteredIsElems DEF Listed

LEMMA ListedNext == TypeOK /\ Listed /\ [Next]_vars => Listed'
<1> SUFFICES ASSUME TypeOK, Listed, [Next]_vars PROVE Listed'
  OBVIOUS
<1>a. /\ DOMAIN adder = Tasks /\ DOMAIN toStop = Closers
      /\ tasks \in Seq(Tasks) /\ toStart \in Seq(Tasks)
      /\ \A k \in Closers : toStop[k] \in Seq(Tasks)
  BY DEF TypeOK
<1>b. /\ Elems(toStart) \subseteq Registered /\ spawning \subseteq Registered
      /\ \A k \in Closers : Elems(toStop[k]) \subseteq Registered
  BY DEF Listed
<1>1. ASSUME NEW t \in Tasks, AddStep(t)
      PROVE  Listed'
  <2>1. CASE AddRegister(t) /\ ~Taken(t)
    <3>1. /\ tasks' = Append(tasks, t)
          /\ adder' = [adder EXCEPT ![t] = IF Activates(t) THEN "activating" ELSE "added"]
          /\ UNCHANGED <<toStart, spawning, toStop>>
      BY <2>1 DEF AddRegister, starting, stopping
    <3>2. Registered' = Registered \cup {t}
      BY <1>a, <3>1, AppendElems, RegisteredIsElems
    <3>3. QED
      BY <1>a, <3>1, <3>2 DEF Listed
  <2>2. CASE ~(AddRegister(t) /\ ~Taken(t))
    <3>1. UNCHANGED <<tasks, toStart, spawning, toStop>>
      BY <1>1, <2>2 DEF AddStep, AddBegin, AddRegister, AddActivate, AddSpawn, registry, starting,
         stopping
    <3>2. /\ \A s \in Tasks \ {t} : adder'[s] = adder[s]
          /\ adder'[t] \in {"activating", "spawning", "added"}
               <=> adder[t] \in {"activating", "spawning", "added"}
      BY <1>1, <1>a, <2>2 DEF AddStep, AddBegin, AddRegister, AddActivate, AddSpawn
    <3>3. QED
      BY <1>b, <3>1, <3>2, ListedKept
  <2>3. QED
    BY <2>1, <2>2
<1>2. CASE StartSnapshot
  <2>1. toStart' = tasks /\ UNCHANGED <<tasks, adder, spawning, toStop>>
    BY <1>2 DEF StartSnapshot, registry, adding, stopping
  <2>2. QED
    BY <1>b, <2>1, ListedKept, RegisteredIsElems
<1>3. CASE StartActivate
  <2>1. /\ toStart # <<>> /\ toStart' = Tail(toStart)
        /\ spawning' \subseteq {Head(toStart)} \cup spawning
        /\ UNCHANGED <<tasks, adder, toStop>>
    BY <1>3 DEF StartActivate, SchedulerOf, registry, adding, stopping
  <2>2. Elems(toStart') \subseteq Registered /\ spawning' \subseteq Registered
    BY <1>a, <1>b, <2>1, HeadTailElems
  <2>3. QED
    BY <1>b, <2>1, <2>2, ListedKept
<1>4. CASE StartSpawn
  <2>1. spawning' = {} /\ UNCHANGED <<tasks, adder, toStart, toStop>>
    BY <1>4 DEF StartSpawn, registry, adding, stopping
  <2>2. QED
    BY <1>b, <2>1, ListedKept
<1>5. ASSUME NEW k \in Closers, ShutdownSnapshot(k)
      PROVE  Listed'
  <2>1. toStop' = [toStop EXCEPT ![k] = tasks] /\ UNCHANGED <<tasks, adder, toStart, spawning>>
    BY <1>5 DEF ShutdownSnapshot, registry, adding, starting
  <2>2. \A j \in Closers : Elems(toStop'[j]) \subseteq Registered
    BY <1>a, <1>b, <2>1, RegisteredIsElems
  <2>3. QED
    BY <1>b, <2>1, <2>2, ListedKept
<1>6. ASSUME NEW k \in Closers, ShutdownTask(k)
      PROVE  Listed'
  <2>1. /\ toStop[k] # <<>> /\ toStop' = [toStop EXCEPT ![k] = Tail(@)]
        /\ UNCHANGED <<tasks, adder, toStart, spawning>>
    BY <1>6 DEF ShutdownTask, registry, adding, starting
  <2>2. Elems(Tail(toStop[k])) \subseteq Registered
    BY <1>a, <1>b, <2>1, HeadTailElems
  <2>3. \A j \in Closers : Elems(toStop'[j]) \subseteq Registered
    BY <1>a, <1>b, <2>1, <2>2
  <2>4. QED
    BY <1>b, <2>1, <2>3, ListedKept
<1>7. CASE UNCHANGED <<tasks, adder, toStart, spawning, toStop>>
  BY <1>b, <1>7, ListedKept
<1>8. ASSUME NEW t \in Tasks, RequestRun(t) \/ FinishRun(t) \/ SchedulerStop(t) \/ SchedulerExit(t)
      PROVE  UNCHANGED <<tasks, adder, toStart, spawning, toStop>>
  BY <1>8 DEF RequestRun, FinishRun, SchedulerStop, SchedulerExit, registry, adding, starting,
     stopping
<1>9. ASSUME NEW k \in Closers, ~ShutdownSnapshot(k), ~ShutdownTask(k),
             CloserStep(k) \/ ShutdownBegin(k) \/ ShutdownTimeout(k)
      PROVE  UNCHANGED <<tasks, adder, toStart, spawning, toStop>>
  BY <1>9 DEF CloserStep, ShutdownBegin, ShutdownTimeout, ShutdownCancel, ShutdownWaited,
     ShutdownStore, ShutdownReturn, registry, adding, starting
<1>10. CASE StartBegin \/ ParentCancel \/ UNCHANGED vars
  BY <1>10, <1>7 DEF StartBegin, ParentCancel, registry, adding, starting, stopping, vars
<1>11. QED
  BY <1>1, <1>2, <1>3, <1>4, <1>5, <1>6, <1>7, <1>8, <1>9, <1>10 DEF Next, StartStep

(***************************************************************************)
(* Schedulers: the one step in which a task is idle and has none yet is    *)
(* somebody's to make good, and never two parties'.                        *)
(***************************************************************************)

OneScheduler(t) ==
  /\ state[t] = "NotStarted" => sched[t] = "none" /\ t \notin busy
  /\ sched[t] \in {"off", "exited"} => ctxDone
  /\ state[t] \in {"Stopping", "Stopped"} /\ mgr \notin {"Stopping", "Stopped"} =>
       sched[t] \in {"off", "exited"}
  /\ adder[t] = "spawning" => t \notin spawning
  /\ t \in spawning \/ adder[t] = "spawning" => sched[t] = "none" /\ state[t] # "NotStarted"
  /\ t \in Every /\ sched[t] = "none" /\ state[t] \in {"Idle", "Running"} =>
       t \in spawning \/ adder[t] = "spawning"

SchedulersKept ==
  /\ \A t \in Tasks : OneScheduler(t)
  /\ \A s, t \in spawning : s = t
  /\ \A k \in Closers : closer[k] # "idle" => mgr \in {"Stopping", "Stopped"}

LEMMA SchedulersNext == TypeOK /\ RunsEnded /\ SchedulersKept /\ [Next]_vars => SchedulersKept'
<1> SUFFICES ASSUME TypeOK, RunsEnded, RunsEnded', SchedulersKept, [Next]_vars PROVE SchedulersKept'
  BY RunsEndedNext
<1>a. /\ DOMAIN state = Tasks /\ DOMAIN sched = Tasks /\ DOMAIN adder = Tasks
      /\ spawning \subseteq Every /\ Every \subseteq Tasks
  BY TasksAssumption DEF TypeOK
<1>b. \A k \in Closers : closer'[k] # "idle" => mgr' \in {"Stopping", "Stopped"}
  BY DEF RunsEnded
<1>c. \A t \in Tasks : OneScheduler(t)
  BY DEF SchedulersKept
<1>d. mgr \in {"Stopping", "Stopped"} => mgr' \in {"Stopping", "Stopped"}
  BY DEF Next, AddStep, AddBegin, AddRegister, AddActivate, AddSpawn, RequestRun, FinishRun,
     SchedulerStop, SchedulerExit, StartBegin, StartStep, StartSnapshot, StartActivate, StartSpawn,
     ParentCancel, CloserStep, ShutdownBegin, ShutdownTimeout, ShutdownSnapshot, ShutdownTask,
     ShutdownCancel, ShutdownWaited, ShutdownStore, ShutdownReturn, vars, manager
<1> SUFFICES /\ \A t \in Tasks : OneScheduler(t)'
             /\ \A s, t \in spawning' : s = t
  BY <1>b DEF SchedulersKept
<1>e. \A s, t \in spawning : s = t
  BY DEF SchedulersKept
\* A step that leaves a task, its scheduler and its spawners alone.
<1>f. ASSUME NEW t \in Tasks, state'[t] = state[t], sched'[t] = sched[t],
             t \in busy' => t \in busy, ctxDone => ctxDone',
             adder'[t] = "spawning" <=> adder[t] = "spawning", t \in spawning' <=> t \in spawning
      PROVE  OneScheduler(t)'
  BY <1>c, <1>d, <1>f DEF OneScheduler
<1>1. ASSUME NEW s \in Tasks, AddStep(s)
      PROVE  (\A t \in Tasks : OneScheduler(t)') /\ UNCHANGED spawning
  <2>a. UNCHANGED <<busy, ctxDone, mgr, spawning>>
    BY <1>1 DEF AddStep, AddBegin, AddRegister, AddActivate, AddSpawn, manager, runtime, starting
  <2>b. \A t \in Tasks \ {s} : state'[t] = state[t] /\ sched'[t] = sched[t] /\ adder'[t] = adder[t]
    BY <1>1, <1>a DEF AddStep, AddBegin, AddRegister, AddActivate, AddSpawn, runtime
  <2>1. CASE AddBegin(s) \/ AddRegister(s)
    <3>1. UNCHANGED <<state, sched>> /\ adder[s] # "spawning" /\ adder'[s] # "spawning"
      BY <1>a, <2>1 DEF AddBegin, AddRegister, runtime
    <3>2. QED
      BY <1>f, <2>a, <2>b, <3>1
  <2>2. CASE AddActivate(s)
    <3>1. OneScheduler(s)'
      BY <1>a, <1>c, <2>2, <2>a DEF AddActivate, OneScheduler
    <3>2. QED
      BY <1>f, <2>a, <2>b, <3>1
  <2>3. CASE AddSpawn(s)
    <3>1. OneScheduler(s)'
      BY <1>a, <1>c, <2>3, <2>a DEF AddSpawn, OneScheduler
    <3>2. QED
      BY <1>f, <2>a, <2>b, <3>1
  <2>4. QED
    BY <1>1, <2>a, <2>1, <2>2, <2>3 DEF AddStep
<1>2. ASSUME NEW s \in Tasks, RequestRun(s) \/ FinishRun(s) \/ SchedulerStop(s) \/ SchedulerExit(s)
      PROVE  (\A t \in Tasks : OneScheduler(t)') /\ UNCHANGED spawning
  <2>a. UNCHANGED <<ctxDone, mgr, adder, spawning>>
    BY <1>2 DEF RequestRun, FinishRun, SchedulerStop, SchedulerExit, manager, adding, starting
  <2>b. \A t \in Tasks \ {s} : /\ state'[t] = state[t] /\ sched'[t] = sched[t]
                               /\ t \in busy' => t \in busy
    BY <1>2, <1>a DEF RequestRun, FinishRun, SchedulerStop, SchedulerExit
  <2>1. OneScheduler(s)'
    <3>1. CASE RequestRun(s)
      BY <1>a, <1>c, <2>a, <3>1 DEF RequestRun, OneScheduler
    <3>2. CASE FinishRun(s)
      BY <1>a, <1>c, <2>a, <3>2 DEF FinishRun, Settled, OneScheduler, TypeOK
    <3>3. CASE SchedulerStop(s)
      BY <1>a, <1>c, <2>a, <3>3 DEF SchedulerStop, OneScheduler
    <3>4. CASE SchedulerExit(s)
      BY <1>a, <1>c, <2>a, <3>4 DEF SchedulerExit, OneScheduler
    <3>5. QED
      BY <1>2, <3>1, <3>2, <3>3, <3>4
  <2>2. QED
    BY <1>f, <2>a, <2>b, <2>1
<1>3. CASE StartActivate
  <2>a. UNCHANGED <<busy, ctxDone, mgr, adder, sched>> /\ spawning = {}
    BY <1>3 DEF StartActivate, manager, adding
  <2>1. CASE state[Head(toStart)] = "NotStarted"
    <3>1. /\ state' = [state EXCEPT ![Head(toStart)] = "Idle"]
          /\ spawning' = {Head(toStart)} \cap Every
      BY <1>3, <2>1 DEF StartActivate, SchedulerOf
    <3>2. ASSUME NEW t \in Tasks
          PROVE  OneScheduler(t)'
      <4>1. CASE t = Head(toStart)
        BY <1>a, <1>c, <2>a, <2>1, <3>1, <4>1 DEF OneScheduler
      <4>2. CASE t # Head(toStart)
        BY <1>a, <1>f, <2>a, <3>1, <4>2
      <4>3. QED
        BY <4>1, <4>2
    <3>3. QED
      BY <3>1, <3>2
  <2>2. CASE state[Head(toStart)] # "NotStarted"
    <3>1. UNCHANGED <<state, spawning>>
      BY <1>3, <2>2 DEF StartActivate
    <3>2. QED
      BY <1>e, <1>f, <2>a, <3>1
  <2>3. QED
    BY <2>1, <2>2
<1>4. CASE StartSpawn
  <2>1. PICK s \in spawning : sched' = [sched EXCEPT ![s] = "on"]
    BY <1>4 DEF StartSpawn
  <2>2. spawning' = {} /\ UNCHANGED <<busy, ctxDone, mgr, adder, state>> /\ spawning = {s}
    BY <1>4, <1>e, <2>1 DEF StartSpawn, manager, adding
  <2>3. OneScheduler(s)'
    BY <1>a, <1>c, <2>1, <2>2 DEF OneScheduler
  <2>4. QED
    BY <1>a, <1>f, <2>1, <2>2, <2>3
<1>5. ASSUME NEW k \in Closers, ShutdownTask(k)
      PROVE  (\A t \in Tasks : OneScheduler(t)') /\ UNCHANGED spawning
  <2>1. /\ UNCHANGED <<busy, ctxDone, mgr, adder, sched, spawning>>
        /\ closer[k] # "idle"
        /\ \E v \in {"Stopping", "Stopped"} : state' = [state EXCEPT ![Head(toStop[k])] = v]
    BY <1>5 DEF ShutdownTask, manager, adding, starting
  <2>2. mgr \in {"Stopping", "Stopped"}
    BY <2>1 DEF RunsEnded
  <2>3. ASSUME NEW t \in Tasks
        PROVE  OneScheduler(t)'
    <3>1. CASE t = Head(toStop[k])
      BY <1>a, <1>c, <2>1, <2>2, <3>1 DEF OneScheduler
    <3>2. CASE t # Head(toStop[k])
      BY <1>a, <1>f, <2>1, <3>2
    <3>3. QED
      BY <3>1, <3>2
  <2>4. QED
    BY <2>1, <2>3
<1>6. CASE UNCHANGED <<state, sched, busy, adder, spawning>> /\ (ctxDone => ctxDone')
  BY <1>e, <1>f, <1>6
<1>7. ASSUME NEW k \in Closers, ~ShutdownTask(k),
             CloserStep(k) \/ ShutdownBegin(k) \/ ShutdownTimeout(k)
      PROVE  UNCHANGED <<state, sched, busy, adder, spawning>> /\ (ctxDone => ctxDone')
  BY <1>7 DEF CloserStep, ShutdownBegin, ShutdownTimeout, ShutdownSnapshot, ShutdownCancel,
     ShutdownWaited, ShutdownStore, ShutdownReturn, manager, runtime, adding, starting
<1>8. CASE StartBegin \/ StartSnapshot \/ ParentCancel \/ UNCHANGED vars
  <2>1. UNCHANGED <<state, sched, busy, adder, spawning>> /\ (ctxDone => ctxDone')
    BY <1>8 DEF StartBegin, StartSnapshot, ParentCancel, manager, runtime, adding, starting, vars
  <2>2. QED
    BY <2>1, <1>6
<1>9. QED
  BY <1>e, <1>1, <1>2, <1>3, <1>4, <1>5, <1>6, <1>7, <1>8 DEF Next, StartStep

LEMMA SchedulersInvariant == Spec => []SchedulersKept
<1>1. Init => SchedulersKept
  BY DEF Init, SchedulersKept, OneScheduler
<1>2. QED
  BY <1>1, SchedulersNext, RunsEndedInvariant, ManagerTypeCorrect, PTL DEF Spec

\* Whichever of Start and Add activates it, a scheduled task gets its one scheduler and keeps it
\* until the context is cancelled.
THEOREM SchedulersAreKept == Spec => []SchedulerKept
<1>1. SchedulersKept => SchedulerKept
  BY TasksAssumption DEF SchedulersKept, OneScheduler, SchedulerKept
<1>2. QED
  BY <1>1, SchedulersInvariant, PTL

(***************************************************************************)
(* Names.                                                                  *)
(***************************************************************************)

Indexed ==
  /\ DOMAIN names = {Name[t] : t \in Registered} \ {NoName}
  /\ \A i, j \in DOMAIN tasks : i # j => tasks[i] # tasks[j] /\
       (Name[tasks[i]] # Name[tasks[j]] \/ Name[tasks[i]] = NoName)
  /\ \A n \in DOMAIN names : Name[names[n]] = n

Inert == \A t \in Tasks \ Registered : state[t] = "NotStarted" /\ sched[t] = "none" /\ t \notin busy

LEMMA IndexedNext == TypeOK /\ Listed /\ Indexed /\ [Next]_vars => Indexed'
<1> SUFFICES ASSUME TypeOK, Listed, Indexed, [Next]_vars PROVE Indexed'
  OBVIOUS
<1>a. tasks \in Seq(Tasks) /\ Len(tasks) \in Nat /\ DOMAIN tasks = 1..Len(tasks)
  BY LenProperties DEF TypeOK
<1>1. CASE UNCHANGED <<tasks, names>>
  BY <1>1 DEF Indexed, Registered
<1>2. ASSUME NEW t \in Tasks, AddRegister(t), ~Taken(t)
      PROVE  Indexed'
  <2>1. /\ adder[t] = "registering"
        /\ tasks' = Append(tasks, t)
        /\ names' = [n \in DOMAIN names \cup ({Name[t]} \ {NoName}) |->
                       IF n = Name[t] THEN t ELSE names[n]]
    BY <1>2 DEF AddRegister
  <2>2. t \notin Registered
    BY <2>1 DEF Listed
  <2>3. /\ DOMAIN tasks' = 1..(Len(tasks) + 1)
        /\ \A i \in DOMAIN tasks : tasks'[i] = tasks[i]
        /\ tasks'[Len(tasks) + 1] = t
    BY <1>a, <2>1, AppendProperties, LenProperties
  <2>4. Registered' = Registered \cup {t}
    BY <1>a, <2>1, AppendElems, RegisteredIsElems
  <2>5. Name[t] = NoName \/ \A s \in Registered : Name[s] # Name[t]
    BY <1>2 DEF Taken, Indexed
  <2>6. DOMAIN names' = {Name[s] : s \in Registered'} \ {NoName}
    <3>1. DOMAIN names' = DOMAIN names \cup ({Name[t]} \ {NoName})
      BY <2>1
    <3>2. QED
      BY <2>4, <3>1 DEF Indexed
  <2>7. \A i, j \in DOMAIN tasks' : i # j => tasks'[i] # tasks'[j] /\
          (Name[tasks'[i]] # Name[tasks'[j]] \/ Name[tasks'[i]] = NoName)
    <3>1. \A i \in DOMAIN tasks : /\ tasks[i] # t
                                  /\ Name[tasks[i]] # Name[t] \/ Name[t] = NoName
      BY <2>2, <2>5 DEF Registered
    <3>2. \A i \in DOMAIN tasks' : i \in DOMAIN tasks \/ i = Len(tasks) + 1
      BY <1>a, <2>3
    <3>3. QED
      BY <2>3, <3>1, <3>2 DEF Indexed
  <2>8. \A n \in DOMAIN names' : Name[names'[n]] = n
    BY <2>1 DEF Indexed
  <2>9. QED
    BY <2>6, <2>7, <2>8 DEF Indexed
<1>3. ASSUME NEW t \in Tasks, AddStep(t), ~(AddRegister(t) /\ ~Taken(t))
      PROVE  UNCHANGED <<tasks, names>>
  BY <1>3 DEF AddStep, AddBegin, AddRegister, AddActivate, AddSpawn, registry
<1>4. CASE \/ \E t \in Tasks : RequestRun(t) \/ FinishRun(t) \/ SchedulerStop(t) \/ SchedulerExit(t)
           \/ StartBegin \/ StartStep \/ ParentCancel \/ UNCHANGED vars
  <2>1. UNCHANGED <<tasks, names>>
    BY <1>4 DEF RequestRun, FinishRun, SchedulerStop, SchedulerExit, StartBegin, StartStep,
       StartSnapshot, StartActivate, StartSpawn, ParentCancel, registry, vars
  <2>2. QED
    BY <2>1, <1>1
<1>5. ASSUME NEW k \in Closers, CloserStep(k) \/ ShutdownBegin(k) \/ ShutdownTimeout(k)
      PROVE  UNCHANGED <<tasks, names>>
  BY <1>5 DEF CloserStep, ShutdownBegin, ShutdownTimeout, ShutdownSnapshot, ShutdownTask,
     ShutdownCancel, ShutdownWaited, ShutdownStore, ShutdownReturn, registry
<1>6. QED
  BY <1>1, <1>2, <1>3, <1>4, <1>5 DEF Next

LEMMA InertNext == TypeOK /\ Listed /\ Inert /\ [Next]_vars => Inert'
<1> SUFFICES ASSUME TypeOK, Listed, Inert, [Next]_vars,
                    NEW t \in Tasks, t \notin Registered'
             PROVE  state'[t] = "NotStarted" /\ sched'[t] = "none" /\ t \notin busy'
  BY DEF Inert
<1>a. /\ DOMAIN state = Tasks /\ DOMAIN sched = Tasks
      /\ tasks \in Seq(Tasks) /\ toStart \in Seq(Tasks)
      /\ \A k \in Closers : toStop[k] \in Seq(Tasks)
  BY DEF TypeOK
<1>b. t \notin Registered
  <2>1. ASSUME NEW s \in Tasks, AddRegister(s), ~Taken(s)
        PROVE  Registered' = Registered \cup {s}
    BY <1>a, <2>1, AppendElems, RegisteredIsElems DEF AddRegister
  <2>2. CASE UNCHANGED tasks
    BY <2>2, RegisteredIsElems
  <2>3. (\E s \in Tasks : AddRegister(s) /\ ~Taken(s)) \/ UNCHANGED tasks
    BY DEF Next, AddStep, AddBegin, AddRegister, AddActivate, AddSpawn, RequestRun, FinishRun,
       SchedulerStop, SchedulerExit, StartBegin, StartStep, StartSnapshot, StartActivate, StartSpawn,
       ParentCancel, CloserStep, ShutdownBegin, ShutdownTimeout, ShutdownSnapshot, ShutdownTask,
       ShutdownCancel, ShutdownWaited, ShutdownStore, ShutdownReturn, vars, registry
  <2>4. QED
    BY <2>1, <2>2, <2>3
<1>c. /\ state[t] = "NotStarted" /\ sched[t] = "none" /\ t \notin busy
      /\ adder[t] \notin {"activating", "spawning", "added"}
      /\ t \notin spawning /\ t \notin Elems(toStart)
      /\ \A k \in Closers : t \notin Elems(toStop[k])
  BY <1>b DEF Inert, Listed
<1>1. ASSUME NEW s \in Tasks, AddStep(s)
      PROVE  state'[t] = "NotStarted" /\ sched'[t] = "none" /\ t \notin busy'
  BY <1>1, <1>a, <1>c DEF AddStep, AddBegin, AddRegister, AddActivate, AddSpawn, runtime
<1>2. ASSUME NEW s \in Tasks, RequestRun(s) \/ FinishRun(s) \/ SchedulerStop(s) \/ SchedulerExit(s)
      PROVE  state'[t] = "NotStarted" /\ sched'[t] = "none" /\ t \notin busy'
  <2>1. s # t
    BY <1>2, <1>c DEF RequestRun, FinishRun, SchedulerStop, SchedulerExit
  <2>2. QED
    BY <1>2, <1>a, <1>c, <2>1 DEF RequestRun, FinishRun, SchedulerStop, SchedulerExit
<1>3. CASE StartActivate
  <2>1. t # Head(toStart) /\ UNCHANGED <<sched, busy>>
    BY <1>3, <1>a, <1>c, HeadTailElems DEF StartActivate
  <2>2. state' = state \/ state' = [state EXCEPT ![Head(toStart)] = "Idle"]
    BY <1>3 DEF StartActivate
  <2>3. QED
    BY <1>a, <1>c, <2>1, <2>2
<1>4. CASE StartSpawn
  BY <1>4, <1>a, <1>c DEF StartSpawn
<1>5. ASSUME NEW k \in Closers, ShutdownTask(k)
      PROVE  state'[t] = "NotStarted" /\ sched'[t] = "none" /\ t \notin busy'
  <2>1. t # Head(toStop[k]) /\ UNCHANGED <<sched, busy>>
    BY <1>5, <1>a, <1>c, HeadTailElems DEF ShutdownTask
  <2>2. QED
    BY <1>5, <1>a, <1>c, <2>1 DEF ShutdownTask
<1>6. CASE UNCHANGED runtime
  BY <1>6, <1>c DEF runtime
<1>7. ASSUME NEW k \in Closers, ~ShutdownTask(k),
             CloserStep(k) \/ ShutdownBegin(k) \/ ShutdownTimeout(k)
      PROVE  UNCHANGED runtime
  BY <1>7 DEF CloserStep, ShutdownBegin, ShutdownTimeout, ShutdownSnapshot, ShutdownCancel,
     ShutdownWaited, ShutdownStore, ShutdownReturn
<1>8. CASE StartBegin \/ StartSnapshot \/ ParentCancel \/ UNCHANGED vars
  BY <1>8, <1>6 DEF StartBegin, StartSnapshot, ParentCancel, vars
<1>9. QED
  BY <1>1, <1>2, <1>3, <1>4, <1>5, <1>6, <1>7, <1>8 DEF Next, StartStep

LEMMA ListedInvariant == Spec => []Listed
<1>1. Init => Listed
  BY NoElems, RegisteredIsElems DEF Init, Listed
<1>2. QED
  BY <1>1, ListedNext, ManagerTypeCorrect, PTL DEF Spec

\* A name finds its one task, however many Add calls compete for it, and a task refused as a
\* duplicate is never activated, scheduled or run.
THEOREM NamesFindTasks == Spec => []NamesAgree
<1>1. Init => Indexed /\ Inert
  <2> SUFFICES ASSUME Init PROVE Indexed /\ Inert
    OBVIOUS
  <2>1. DOMAIN tasks = {} /\ DOMAIN names = {} /\ Registered = {}
    BY NoElems, RegisteredIsElems, EmptySeq, LenProperties DEF Init
  <2>2. QED
    BY <2>1 DEF Init, Indexed, Inert
<1>2. Indexed /\ Inert => NamesAgree
  BY DEF Indexed, Inert, NamesAgree
<1>3. QED
  BY <1>1, <1>2, IndexedNext, InertNext, ListedInvariant, ManagerTypeCorrect, PTL DEF Spec

(***************************************************************************)
(* Callers that serialize their calls.                                     *)
(***************************************************************************)

AddsDone      == \A t \in Tasks : adder[t] \in AddDone
ShutdownsOver == \A k \in Closers : closer[k] \in ShutdownOver

\* Start has begun and not returned.
Starting == starter = "snapshot" \/ (starter = "activating" /\ (toStart # <<>> \/ spawning # {}))

\* What an Add in progress may count on, and what a Shutdown in progress may.
AddAlone(t) ==
  adder[t] \notin AddDone =>
    /\ mgr \in {"NotStarted", "Running"} /\ captured[t] = mgr
    /\ adder[t] # "registering" => mgr = "Running"
    /\ ShutdownsOver
    /\ \A s \in Tasks \ {t} : adder[s] \in AddDone

ShutdownAlone(k) ==
  closer[k] \notin ShutdownOver => \A j \in Closers \ {k} : closer[j] \in {"idle", "timedOut"}

OneCall ==
  /\ Starting => mgr = "Running" /\ AddsDone /\ ShutdownsOver
  /\ \A t \in Tasks : AddAlone(t)
  /\ \A k \in Closers : ShutdownAlone(k)
  /\ spawning # {} => starter = "activating"

\* The variables a lifecycle call keeps its place in.
places == <<mgr, adder, captured, closer, starter, toStart, spawning>>

LEMMA OneCallKept ==
  ASSUME OneCall, UNCHANGED <<mgr, adder, captured, closer>>, Starting' => Starting,
         spawning' # {} => starter' = "activating"
  PROVE  OneCall'
BY DEF OneCall, AddAlone, ShutdownAlone, AddsDone, ShutdownsOver, AddDone, ShutdownOver

LEMMA MayCallAlone ==
  ASSUME Serialized, TypeOK, MayCall
  PROVE  AddsDone /\ ShutdownsOver /\ ~Starting
BY DEF MayCall, Started, TypeOK, AddsDone, ShutdownsOver, Starting

LEMMA OneCallAdd ==
  ASSUME Serialized, TypeOK, OneCall, NEW t \in Tasks, AddStep(t)
  PROVE  OneCall'
<1>a. /\ DOMAIN adder = Tasks /\ DOMAIN captured = Tasks /\ DOMAIN closer = Closers
      /\ mgr \in ManagerStates
  BY DEF TypeOK
<1>b. UNCHANGED <<mgr, closer, starter, toStart, spawning>>
  BY DEF AddStep, AddBegin, AddRegister, AddActivate, AddSpawn, manager, starting, stopping
<1>c. Starting' = Starting
  BY <1>b DEF Starting
<1>d. /\ ShutdownsOver /\ ~Starting
      /\ \A s \in Tasks \ {t} : adder[s] \in AddDone
  <2>1. CASE AddBegin(t)
    BY <2>1, MayCallAlone DEF AddBegin, AddsDone
  <2>2. CASE ~AddBegin(t)
    <3>1. adder[t] \notin AddDone
      BY <2>2 DEF AddStep, AddRegister, AddActivate, AddSpawn, AddDone
    <3>2. QED
      BY <3>1 DEF OneCall, AddAlone, AddsDone
  <2>3. QED
    BY <2>1, <2>2
<1>e. \A s \in Tasks \ {t} : adder'[s] = adder[s]
  BY <1>a DEF AddStep, AddBegin, AddRegister, AddActivate, AddSpawn
<1>1. adder'[t] \notin AddDone =>
        /\ mgr \in {"NotStarted", "Running"} /\ captured'[t] = mgr
        /\ adder'[t] # "registering" => mgr = "Running"
  <2>1. CASE AddBegin(t)
    BY <1>a, <2>1 DEF AddBegin, AddDone, ManagerStates
  <2>2. CASE ~AddBegin(t)
    <3>1. adder[t] \notin AddDone /\ captured' = captured
      BY <2>2 DEF AddStep, AddRegister, AddActivate, AddSpawn, AddDone, adding
    <3>2. mgr \in {"NotStarted", "Running"} /\ captured[t] = mgr
      BY <3>1 DEF OneCall, AddAlone
    <3>3. CASE AddRegister(t)
      <4>1. adder'[t] \in AddDone \/ Activates(t)
        BY <1>a, <3>3 DEF AddRegister, AddDone
      <4>2. QED
        BY <3>1, <3>2, <4>1 DEF Activates
    <3>4. CASE AddActivate(t) \/ AddSpawn(t)
      <4>1. adder[t] # "registering"
        BY <3>4 DEF AddActivate, AddSpawn
      <4>2. QED
        BY <3>1, <3>2, <4>1 DEF OneCall, AddAlone
    <3>5. QED
      BY <2>2, <3>3, <3>4 DEF AddStep
  <2>3. QED
    BY <2>1, <2>2
<1>2. ShutdownsOver' /\ ~Starting'
  BY <1>b, <1>c, <1>d DEF ShutdownsOver
<1>3. \A s \in Tasks : AddAlone(s)'
  BY <1>b, <1>d, <1>e, <1>1, <1>2 DEF AddAlone
<1>4. \A k \in Closers : ShutdownAlone(k)'
  BY <1>2 DEF ShutdownAlone, ShutdownsOver
<1>5. QED
  BY <1>b, <1>2, <1>3, <1>4 DEF OneCall

LEMMA OneCallShutdown ==
  ASSUME Serialized, TypeOK, RunsEnded, OneCall,
         NEW k \in Closers, CloserStep(k) \/ ShutdownBegin(k) \/ ShutdownTimeout(k)
  PROVE  OneCall'
<1>a. /\ DOMAIN adder = Tasks /\ DOMAIN captured = Tasks /\ DOMAIN closer = Closers
      /\ closer[k] \in ShutdownOver \cup
                   {"stopSnapshot", "stopping", "waiting", "waited", "markSnapshot", "marking"}
  BY DEF TypeOK
<1>b. UNCHANGED <<adder, captured, starter, toStart, spawning>>
  BY DEF CloserStep, ShutdownBegin, ShutdownTimeout, ShutdownSnapshot, ShutdownTask, ShutdownCancel,
     ShutdownWaited, ShutdownStore, ShutdownReturn, adding, starting
<1>c. Starting' = Starting
  BY <1>b DEF Starting
<1>d. \A j \in Closers \ {k} : closer'[j] = closer[j]
  BY <1>a DEF CloserStep, ShutdownBegin, ShutdownTimeout, ShutdownSnapshot, ShutdownTask,
     ShutdownCancel, ShutdownWaited, ShutdownStore, ShutdownReturn, stopping
<1>e. /\ AddsDone /\ ~Starting
      /\ \A j \in Closers \ {k} : closer[j] \in ShutdownOver
  <2>1. CASE ShutdownBegin(k)
    BY <2>1, MayCallAlone DEF ShutdownBegin, ShutdownsOver
  <2>2. CASE ~ShutdownBegin(k)
    <3>1. closer[k] \notin ShutdownOver
      BY <2>2 DEF CloserStep, ShutdownTimeout, ShutdownSnapshot, ShutdownTask, ShutdownCancel,
         ShutdownWaited, ShutdownStore, ShutdownReturn, ShutdownOver
    <3>2. QED
      BY <3>1 DEF OneCall, AddAlone, ShutdownAlone, ShutdownsOver, ShutdownOver, AddsDone
  <2>3. QED
    BY <2>1, <2>2
<1>1. closer'[k] \notin ShutdownOver => \A j \in Closers \ {k} : closer[j] \in {"idle", "timedOut"}
  <2>1. CASE ShutdownBegin(k)
    <3>1. closer' = [closer EXCEPT ![k] = CASE mgr = "NotStarted" -> "markSnapshot"
                                            [] mgr = "Running" -> "stopSnapshot"
                                            [] mgr = "Stopping" -> "waiting"
                                            [] OTHER -> "returned"]
      BY <2>1 DEF ShutdownBegin
    <3>2. mgr = "Stopped" => closer'[k] = "returned"
      BY <1>a, <3>1
    <3>3. mgr # "Stopped" => \A j \in Closers \ {k} : closer[j] # "returned"
      BY DEF RunsEnded
    <3>4. QED
      BY <1>e, <3>2, <3>3 DEF ShutdownOver
  <2>2. CASE ~ShutdownBegin(k)
    <3>1. closer[k] \notin ShutdownOver
      BY <2>2 DEF CloserStep, ShutdownTimeout, ShutdownSnapshot, ShutdownTask, ShutdownCancel,
         ShutdownWaited, ShutdownStore, ShutdownReturn, ShutdownOver
    <3>2. QED
      BY <3>1 DEF OneCall, ShutdownAlone
  <2>3. QED
    BY <2>1, <2>2
<1>2. AddsDone' /\ ~Starting'
  BY <1>b, <1>c, <1>e DEF AddsDone
<1>3. \A t \in Tasks : AddAlone(t)'
  BY <1>2 DEF AddAlone, AddsDone
<1>4. \A j \in Closers : ShutdownAlone(j)'
  BY <1>d, <1>e, <1>1 DEF ShutdownAlone
<1>5. QED
  BY <1>b, <1>2, <1>3, <1>4 DEF OneCall

LEMMA OneCallNext == Serialized /\ TypeOK /\ RunsEnded /\ OneCall /\ [Next]_vars => OneCall'
<1> SUFFICES ASSUME Serialized, TypeOK, RunsEnded, OneCall, [Next]_vars PROVE OneCall'
  OBVIOUS
<1>1. CASE UNCHANGED places
  BY <1>1, OneCallKept DEF places, Starting, OneCall
<1>2. CASE StartBegin
  <2>1. AddsDone /\ ShutdownsOver
    BY <1>2, MayCallAlone DEF StartBegin
  <2>2. UNCHANGED <<adder, captured, closer, toStart, spawning>> /\ starter = "idle"
    BY <1>2 DEF StartBegin, adding, stopping
  <2>3. AddsDone' /\ ShutdownsOver'
    BY <2>1, <2>2 DEF AddsDone, ShutdownsOver
  <2>4. Starting' => mgr' = "Running"
    BY <1>2 DEF StartBegin, Starting
  <2>5. spawning' = {}
    BY <2>2 DEF OneCall
  <2>6. QED
    BY <2>3, <2>4, <2>5 DEF OneCall, AddAlone, ShutdownAlone, AddsDone, ShutdownsOver
<1>3. CASE StartStep
  <2>1. Starting
    BY <1>3 DEF StartStep, StartSnapshot, StartActivate, StartSpawn, Starting, OneCall
  <2>2. UNCHANGED <<mgr, adder, captured, closer>> /\ starter' = "activating"
    BY <1>3 DEF StartStep, StartSnapshot, StartActivate, StartSpawn, manager, adding, stopping, OneCall
  <2>3. QED
    BY <2>1, <2>2, OneCallKept
<1>4. ASSUME NEW t \in Tasks, RequestRun(t) \/ FinishRun(t) \/ SchedulerStop(t) \/ SchedulerExit(t)
      PROVE  UNCHANGED places
  BY <1>4 DEF RequestRun, FinishRun, SchedulerStop, SchedulerExit, manager, adding, starting,
     stopping, places
<1>5. CASE ParentCancel \/ UNCHANGED vars
  BY <1>5, <1>1 DEF ParentCancel, vars, manager, adding, starting, stopping, places
<1>6. QED
  BY <1>1, <1>2, <1>3, <1>4, <1>5, OneCallAdd, OneCallShutdown DEF Next

\* What OneCall gives the steps that could start something behind a Shutdown.
LEMMA StarterAlone ==
  ASSUME OneCall, StartStep
  PROVE  mgr = "Running" /\ ShutdownsOver
BY DEF OneCall, StartStep, StartSnapshot, StartActivate, StartSpawn, Starting

LEMMA AdderAlone ==
  ASSUME OneCall, NEW t \in Tasks, AddActivate(t) \/ AddSpawn(t)
  PROVE  mgr = "Running" /\ ShutdownsOver
<1>1. adder[t] \notin AddDone /\ adder[t] # "registering"
  BY DEF AddActivate, AddSpawn, AddDone
<1>2. QED
  BY <1>1 DEF OneCall, AddAlone

\* Every task added has been activated, or Start still has it to activate.
AllActive ==
  /\ starter \in {"idle", "done"} => mgr # "Running"
  /\ mgr = "NotStarted" => starter = "idle" /\ \A t \in Tasks : state[t] = "NotStarted"
  /\ starter = "activating" =>
       \A t \in Tasks : adder[t] = "added" => state[t] # "NotStarted" \/ t \in Elems(toStart)

LEMMA AllActiveNext ==
  /\ Serialized /\ TypeOK /\ RunsEnded /\ Listed /\ SchedulersKept /\ OneCall
  /\ AllActive /\ [Next]_vars
  => AllActive'
<1> SUFFICES ASSUME Serialized, TypeOK, RunsEnded, Listed, SchedulersKept, OneCall,
                    AllActive, [Next]_vars
             PROVE  AllActive'
  OBVIOUS
<1>a. /\ DOMAIN state = Tasks /\ DOMAIN adder = Tasks
      /\ mgr \in {"NotStarted", "Running", "Stopping", "Stopped"}
      /\ toStart \in Seq(Tasks)
  BY DEF TypeOK, ManagerStates
<1>b. \A t \in Tasks : OneScheduler(t)
  BY DEF SchedulersKept
\* A task that has left "NotStarted" never gets back to it.
<1>c. ASSUME UNCHANGED <<mgr, starter, toStart>>,
             \A t \in Tasks : mgr = "NotStarted" => state'[t] = state[t],
             \A t \in Tasks : state[t] # "NotStarted" => state'[t] # "NotStarted",
             \A t \in Tasks : adder'[t] = "added" => adder[t] = "added"
      PROVE  AllActive'
  BY <1>c DEF AllActive
<1>1. ASSUME NEW t \in Tasks, AddStep(t)
      PROVE  AllActive'
  <2>a. UNCHANGED <<mgr, starter, toStart>>
    BY <1>1 DEF AddStep, AddBegin, AddRegister, AddActivate, AddSpawn, manager, starting
  <2>b. \A s \in Tasks \ {t} : adder'[s] = adder[s] /\ state'[s] = state[s]
    BY <1>1, <1>a DEF AddStep, AddBegin, AddRegister, AddActivate, AddSpawn, runtime
  <2>1. CASE AddBegin(t)
    BY <1>a, <1>c, <2>1, <2>a DEF AddBegin, runtime
  <2>2. CASE AddRegister(t)
    <3>1. state' = state /\ adder[t] = "registering"
      BY <2>2 DEF AddRegister, runtime
    <3>2. captured[t] = mgr
      BY <3>1 DEF OneCall, AddAlone, AddDone
    <3>3. adder'[t] = "added" => mgr # "Running"
      BY <1>a, <2>2, <3>2 DEF AddRegister, Activates
    <3>4. starter = "activating" => adder'[t] # "added"
      <4>1. mgr \in {"NotStarted", "Running"}
        BY <3>1 DEF OneCall, AddAlone, AddDone
      <4>2. QED
        BY <3>3, <4>1 DEF AllActive
    <3>5. QED
      BY <2>a, <2>b, <3>1, <3>4 DEF AllActive
  <2>3. CASE AddActivate(t)
    <3>1. mgr = "Running"
      BY <2>3, AdderAlone
    <3>2. state'[t] # "NotStarted"
      BY <1>a, <2>3 DEF AddActivate
    <3>3. QED
      BY <2>a, <2>b, <3>1, <3>2 DEF AllActive
  <2>4. CASE AddSpawn(t)
    <3>1. mgr = "Running"
      BY <2>4, AdderAlone
    <3>2. state'[t] # "NotStarted"
      BY <1>b, <2>4 DEF AddSpawn, OneScheduler
    <3>3. QED
      BY <2>a, <2>b, <3>1, <3>2 DEF AllActive
  <2>5. QED
    BY <1>1, <2>1, <2>2, <2>3, <2>4 DEF AddStep
<1>2. ASSUME NEW t \in Tasks, RequestRun(t) \/ FinishRun(t) \/ SchedulerStop(t) \/ SchedulerExit(t)
      PROVE  AllActive'
  <2>1. UNCHANGED <<mgr, starter, toStart, adder>>
    BY <1>2 DEF RequestRun, FinishRun, SchedulerStop, SchedulerExit, manager, adding, starting
  <2>2. \A s \in Tasks : state[s] # "NotStarted" => state'[s] # "NotStarted"
    BY <1>2, <1>a DEF RequestRun, FinishRun, Settled, SchedulerStop, SchedulerExit
  <2>3. mgr = "NotStarted" => state' = state
    <3>1. ASSUME mgr = "NotStarted"
          PROVE  busy = {} /\ sched[t] = "none"
      BY <1>b, <3>1 DEF RunsEnded, AllActive, OneScheduler
    <3>2. QED
      BY <1>2, <3>1 DEF RequestRun, FinishRun, SchedulerStop, SchedulerExit
  <2>4. QED
    BY <1>c, <2>1, <2>2, <2>3
<1>3. CASE StartBegin
  <2>1. UNCHANGED state /\ starter' # "activating"
        /\ \/ mgr = "NotStarted" /\ mgr' = "Running" /\ starter' = "snapshot"
           \/ mgr # "NotStarted" /\ mgr' = mgr /\ starter = "idle" /\ starter' = "done"
    BY <1>3 DEF StartBegin, runtime
  <2>2. QED
    BY <2>1 DEF AllActive
<1>4. CASE StartSnapshot
  <2>1. toStart' = tasks /\ starter' = "activating" /\ UNCHANGED <<mgr, state, adder>>
    BY <1>4 DEF StartSnapshot, manager, runtime, adding
  <2>2. mgr = "Running"
    BY <1>4, StarterAlone DEF StartStep
  <2>3. \A t \in Tasks : adder[t] = "added" => t \in Elems(toStart')
    BY <2>1, RegisteredIsElems DEF Listed
  <2>4. QED
    BY <2>1, <2>2, <2>3 DEF AllActive
<1>5. CASE StartActivate
  <2>1. /\ toStart # <<>> /\ toStart' = Tail(toStart) /\ starter = "activating"
        /\ UNCHANGED <<mgr, starter, adder>>
        /\ \/ state[Head(toStart)] = "NotStarted" /\ state' = [state EXCEPT ![Head(toStart)] = "Idle"]
           \/ state[Head(toStart)] # "NotStarted" /\ state' = state
    BY <1>5 DEF StartActivate, manager, adding
  <2>2. mgr = "Running"
    BY <1>5, StarterAlone DEF StartStep
  <2>3. /\ state'[Head(toStart)] # "NotStarted"
        /\ \A t \in Tasks : state[t] # "NotStarted" => state'[t] # "NotStarted"
    BY <1>a, <2>1, HeadTailElems
  <2>4. Elems(toStart) \subseteq {Head(toStart)} \cup Elems(toStart')
    BY <1>a, <2>1, HeadTailElems
  <2>5. QED
    BY <2>1, <2>2, <2>3, <2>4 DEF AllActive
<1>6. CASE StartSpawn
  BY <1>c, <1>6 DEF StartSpawn, manager, adding
<1>7. ASSUME NEW k \in Closers, ShutdownBegin(k)
      PROVE  AllActive'
  <2>1. mgr' # "Running" /\ mgr' # "NotStarted" /\ UNCHANGED <<starter, toStart, state, adder>>
    BY <1>7, <1>a DEF ShutdownBegin, runtime, adding, starting
  <2>2. QED
    BY <2>1 DEF AllActive
<1>8. ASSUME NEW k \in Closers, CloserStep(k) \/ ShutdownTimeout(k)
      PROVE  AllActive'
  <2>1. UNCHANGED <<starter, toStart, adder>> /\ closer[k] # "idle"
    BY <1>8 DEF CloserStep, ShutdownTimeout, ShutdownSnapshot, ShutdownTask, ShutdownCancel,
       ShutdownWaited, ShutdownStore, ShutdownReturn, adding, starting
  <2>2. mgr \in {"Stopping", "Stopped"} /\ (mgr' = mgr \/ mgr' = "Stopped")
    BY <1>8, <2>1 DEF RunsEnded, CloserStep, ShutdownTimeout, ShutdownSnapshot, ShutdownTask,
       ShutdownCancel, ShutdownWaited, ShutdownStore, ShutdownReturn, manager
  <2>3. \A t \in Tasks : state[t] # "NotStarted" => state'[t] # "NotStarted"
    BY <1>8, <1>a DEF CloserStep, ShutdownTimeout, ShutdownSnapshot, ShutdownTask, ShutdownCancel,
       ShutdownWaited, ShutdownStore, ShutdownReturn, runtime
  <2>4. QED
    BY <2>1, <2>2, <2>3 DEF AllActive
<1>9. CASE ParentCancel \/ UNCHANGED vars
  <2>1. UNCHANGED <<mgr, state, adder, starter, toStart>>
    BY <1>9 DEF ParentCancel, runtime, adding, starting, vars, manager
  <2>2. QED
    BY <2>1, <1>c
<1>10. QED
  BY <1>1, <1>2, <1>3, <1>4, <1>5, <1>6, <1>7, <1>8, <1>9 DEF Next, StartStep

\* Nothing is left to wait for once the wait has ended, and a stopped manager has its tasks marked
\* or a Shutdown at it.
MarkedOrTo(t) ==
  \/ state[t] = "Stopped"
  \/ \E k \in Closers : \/ closer[k] = "markSnapshot"
                        \/ closer[k] = "marking" /\ t \in Elems(toStop[k])

AllEnded ==
  /\ mgr \in {"NotStarted", "Stopped"} => WgZero
  /\ \A k \in Closers :
       /\ closer[k] = "waited" => WgZero
       /\ closer[k] \in {"stopSnapshot", "stopping", "waiting", "waited"} => mgr = "Stopping"
  /\ mgr = "Stopped" => \A t \in Registered : MarkedOrTo(t)

LEMMA AllEndedNext ==
  /\ Serialized /\ TypeOK /\ RunsEnded /\ Listed /\ OneCall /\ AllEnded /\ [Next]_vars
  => AllEnded'
<1> SUFFICES ASSUME Serialized, TypeOK, RunsEnded, Listed, OneCall, AllEnded, [Next]_vars
             PROVE  AllEnded'
  OBVIOUS
<1>a. /\ DOMAIN state = Tasks /\ DOMAIN sched = Tasks
      /\ DOMAIN closer = Closers /\ DOMAIN toStop = Closers
      /\ mgr \in {"NotStarted", "Running", "Stopping", "Stopped"}
      /\ \A k \in Closers : toStop[k] \in Seq(Tasks)
  BY DEF TypeOK, ManagerStates
\* A step of a running manager on which nobody waits.
<1>b. ASSUME mgr = "Running", mgr' = mgr, ShutdownsOver, UNCHANGED closer
      PROVE  AllEnded'
  BY <1>b DEF AllEnded, ShutdownsOver, ShutdownOver
<1>c. CASE UNCHANGED <<mgr, closer, toStop, tasks, state, busy, sched>>
  BY <1>c DEF AllEnded, WgZero, MarkedOrTo, Registered
<1>1. ASSUME NEW t \in Tasks, AddStep(t)
      PROVE  AllEnded'
  <2>1. CASE AddBegin(t)
    BY <1>c, <2>1 DEF AddBegin, manager, registry, runtime, stopping
  <2>2. CASE AddRegister(t)
    <3>1. mgr \in {"NotStarted", "Running"}
      BY <2>2 DEF AddRegister, OneCall, AddAlone, AddDone
    <3>2. UNCHANGED <<mgr, closer, busy, sched>>
      BY <2>2 DEF AddRegister, manager, runtime, stopping
    <3>3. QED
      BY <3>1, <3>2 DEF AllEnded, WgZero
  <2>3. CASE AddActivate(t) \/ AddSpawn(t)
    BY <1>b, <2>3, AdderAlone DEF AddActivate, AddSpawn, manager, stopping
  <2>4. QED
    BY <1>1, <2>1, <2>2, <2>3 DEF AddStep
<1>2. CASE StartStep
  BY <1>2, <1>b, StarterAlone DEF StartStep, StartSnapshot, StartActivate, StartSpawn, manager,
     stopping
<1>3. CASE StartBegin
  <2>1. /\ UNCHANGED <<closer, toStop, tasks, state, busy, sched>>
        /\ mgr' = mgr \/ (mgr = "NotStarted" /\ mgr' = "Running")
    BY <1>3 DEF StartBegin, registry, runtime, stopping
  <2>2. QED
    BY <2>1 DEF AllEnded, WgZero, MarkedOrTo, Registered
<1>4. ASSUME NEW t \in Tasks, RequestRun(t)
      PROVE  AllEnded'
  <2>1. mgr = "Running" /\ UNCHANGED <<mgr, closer>>
    BY <1>4 DEF RequestRun, manager, stopping
  <2>2. \A k \in Closers : closer[k] # "waited"
    BY <2>1 DEF AllEnded
  <2>3. QED
    BY <2>1, <2>2 DEF AllEnded
<1>5. ASSUME NEW t \in Tasks, FinishRun(t) \/ SchedulerStop(t) \/ SchedulerExit(t)
      PROVE  AllEnded'
  <2>1. ~WgZero /\ UNCHANGED <<mgr, closer>>
    BY <1>5 DEF FinishRun, SchedulerStop, SchedulerExit, WgZero, manager, stopping
  <2>2. QED
    BY <2>1 DEF AllEnded
<1>6. ASSUME NEW k \in Closers, ShutdownBegin(k)
      PROVE  AllEnded'
  <2>1. /\ UNCHANGED <<toStop, tasks, state, busy, sched>>
        /\ mgr' = CASE mgr = "NotStarted" -> "Stopped"
                    [] mgr = "Running" -> "Stopping"
                    [] OTHER -> mgr
        /\ closer[k] = "idle"
        /\ closer' = [closer EXCEPT ![k] = CASE mgr = "NotStarted" -> "markSnapshot"
                                             [] mgr = "Running" -> "stopSnapshot"
                                             [] mgr = "Stopping" -> "waiting"
                                             [] OTHER -> "returned"]
    BY <1>6 DEF ShutdownBegin, registry, runtime, stopping
  <2>2. \A j \in Closers \ {k} : closer'[j] = closer[j] /\ closer[j] \in ShutdownOver
    BY <1>6, <1>a, <2>1, MayCallAlone DEF ShutdownBegin, ShutdownsOver
  <2>3. /\ closer'[k] # "waited"
        /\ closer'[k] \in {"stopSnapshot", "stopping", "waiting", "waited"} => mgr' = "Stopping"
        /\ mgr' \in {"NotStarted", "Stopped"} => mgr \in {"NotStarted", "Stopped"}
        /\ mgr' = "Stopped" => closer'[k] = "markSnapshot" \/ mgr = "Stopped"
    BY <1>a, <2>1
  <2>4. WgZero' = WgZero /\ Registered' = Registered
    BY <2>1 DEF WgZero, Registered
  <2>5. ASSUME mgr' = "Stopped", NEW t \in Registered
        PROVE  MarkedOrTo(t)'
    <3>1. CASE closer'[k] = "markSnapshot"
      BY <3>1 DEF MarkedOrTo
    <3>2. CASE mgr = "Stopped"
      BY <2>1, <2>2, <3>2 DEF AllEnded, MarkedOrTo
    <3>3. QED
      BY <2>3, <2>5, <3>1, <3>2
  <2>6. QED
    BY <2>2, <2>3, <2>4, <2>5 DEF AllEnded, ShutdownOver
<1>7. ASSUME NEW k \in Closers, CloserStep(k) \/ ShutdownTimeout(k)
      PROVE  AllEnded'
  <2>a. \A j \in Closers \ {k} : closer[j] \in {"idle", "timedOut"}
    BY <1>7 DEF OneCall, ShutdownAlone, ShutdownOver, CloserStep, ShutdownTimeout, ShutdownSnapshot,
       ShutdownTask, ShutdownCancel, ShutdownWaited, ShutdownStore, ShutdownReturn
  <2>b. \A j \in Closers \ {k} : closer'[j] = closer[j]
    BY <1>7, <1>a DEF CloserStep, ShutdownTimeout, ShutdownSnapshot, ShutdownTask, ShutdownCancel,
       ShutdownWaited, ShutdownStore, ShutdownReturn, stopping
  <2>c. UNCHANGED <<tasks, busy, sched>> /\ Registered' = Registered /\ WgZero' = WgZero
    BY <1>7 DEF CloserStep, ShutdownTimeout, ShutdownSnapshot, ShutdownTask, ShutdownCancel,
       ShutdownWaited, ShutdownStore, ShutdownReturn, registry, runtime, Registered, WgZero
  <2>1. CASE ShutdownSnapshot(k)
    <3>1. UNCHANGED mgr /\ toStop'[k] = tasks
          /\ \/ closer[k] = "stopSnapshot" /\ closer'[k] = "stopping"
             \/ closer[k] = "markSnapshot" /\ closer'[k] = "marking"
      BY <1>a, <2>1 DEF ShutdownSnapshot, manager
    <3>2. mgr = "Stopped" => closer'[k] = "marking"
      BY <3>1 DEF AllEnded
    <3>3. mgr = "Stopped" => \A t \in Registered : MarkedOrTo(t)'
      BY <3>1, <3>2, RegisteredIsElems DEF MarkedOrTo
    <3>4. QED
      BY <2>a, <2>b, <2>c, <3>1, <3>3 DEF AllEnded
  <2>2. CASE ShutdownTask(k)
    <3>1. /\ UNCHANGED <<mgr, closer>> /\ toStop[k] # <<>>
          /\ toStop'[k] = Tail(toStop[k])
          /\ closer[k] \in {"stopping", "marking"}
          /\ state' = [state EXCEPT ![Head(toStop[k])] =
                         IF closer[k] = "stopping" THEN "Stopping" ELSE "Stopped"]
      BY <1>a, <2>2 DEF ShutdownTask, manager
    <3>2. Elems(toStop[k]) \subseteq {Head(toStop[k])} \cup Elems(Tail(toStop[k]))
      BY <1>a, <3>1, HeadTailElems
    <3>3. ASSUME mgr = "Stopped", NEW t \in Registered
          PROVE  MarkedOrTo(t)'
      <4>1. closer[k] = "marking"
        BY <3>1, <3>3 DEF AllEnded
      <4>2. state[t] = "Stopped" \/ t \in Elems(toStop[k])
        BY <2>a, <3>3, <4>1 DEF AllEnded, MarkedOrTo
      <4>3. t \in Tasks
        BY <1>a DEF Registered, TypeOK
      <4>4. state'[t] = "Stopped" \/ t \in Elems(toStop'[k])
        BY <1>a, <3>1, <3>2, <4>1, <4>2, <4>3
      <4>5. QED
        BY <3>1, <4>1, <4>4 DEF MarkedOrTo
    <3>4. QED
      BY <2>c, <3>1, <3>3 DEF AllEnded
  <2>3. CASE ShutdownCancel(k) \/ ShutdownTimeout(k)
    <3>1. /\ closer[k] \in {"stopping", "waiting", "waited"} /\ UNCHANGED mgr
          /\ closer'[k] \in {"waiting", "timedOut"}
      BY <1>a, <2>3 DEF ShutdownCancel, ShutdownTimeout, manager
    <3>2. mgr = "Stopping"
      BY <3>1 DEF AllEnded
    <3>3. QED
      BY <2>a, <2>b, <2>c, <3>1, <3>2 DEF AllEnded
  <2>4. CASE ShutdownWaited(k)
    <3>1. closer[k] = "waiting" /\ WgZero /\ UNCHANGED mgr /\ closer'[k] = "waited"
      BY <1>a, <2>4 DEF ShutdownWaited, manager
    <3>2. mgr = "Stopping"
      BY <3>1 DEF AllEnded
    <3>3. QED
      BY <2>a, <2>b, <2>c, <3>1, <3>2 DEF AllEnded
  <2>5. CASE ShutdownStore(k)
    <3>1. closer[k] = "waited" /\ mgr' = "Stopped" /\ closer'[k] = "markSnapshot"
      BY <1>a, <2>5 DEF ShutdownStore
    <3>2. WgZero
      BY <3>1 DEF AllEnded
    <3>3. \A t : MarkedOrTo(t)'
      BY <3>1 DEF MarkedOrTo
    <3>4. QED
      BY <2>a, <2>b, <2>c, <3>1, <3>2, <3>3 DEF AllEnded
  <2>6. CASE ShutdownReturn(k)
    <3>1. /\ closer[k] = "marking" /\ toStop[k] = <<>> /\ closer'[k] = "returned"
          /\ UNCHANGED <<mgr, state>>
      BY <1>a, <2>6 DEF ShutdownReturn, manager, runtime
    <3>2. mgr = "Stopped" => \A t \in Registered : state[t] = "Stopped"
      BY <2>a, <3>1, NoElems DEF AllEnded, MarkedOrTo
    <3>3. QED
      BY <2>a, <2>b, <2>c, <3>1, <3>2 DEF AllEnded, MarkedOrTo
  <2>7. QED
    BY <1>7, <2>1, <2>2, <2>3, <2>4, <2>5, <2>6 DEF CloserStep
<1>8. CASE ParentCancel \/ UNCHANGED vars
  BY <1>8, <1>c DEF ParentCancel, manager, registry, runtime, stopping, vars
<1>9. QED
  BY <1>1, <1>2, <1>3, <1>4, <1>5, <1>6, <1>7, <1>8 DEF Next

LEMMA SerializedInvariant ==
  ASSUME Serialized
  PROVE  Spec => [](OneCall /\ AllActive /\ AllEnded)
<1>1. Init => OneCall
  BY DEF Init, OneCall, AddAlone, ShutdownAlone, AddsDone, ShutdownsOver, Starting, AddDone,
     ShutdownOver
<1>2. Init => AllActive
  BY DEF Init, AllActive
<1>3. Init => AllEnded
  BY DEF Init, AllEnded, WgZero
<1>4. TypeOK /\ RunsEnded /\ OneCall /\ [Next]_vars => OneCall'
  BY OneCallNext
<1>5. /\ TypeOK /\ RunsEnded /\ Listed /\ SchedulersKept /\ OneCall /\ AllActive /\ [Next]_vars
      => AllActive'
  BY AllActiveNext
<1>6. TypeOK /\ RunsEnded /\ Listed /\ OneCall /\ AllEnded /\ [Next]_vars => AllEnded'
  BY AllEndedNext
<1>7. QED
  BY <1>1, <1>2, <1>3, <1>4, <1>5, <1>6, ManagerTypeCorrect, RunsEndedInvariant, ListedInvariant,
     SchedulersInvariant, PTL DEF Spec

\* If no calls overlap, a Shutdown that returned nil has outlived the schedulers too.
THEOREM NothingOutlives == ASSUME Serialized PROVE Spec => []NothingOutlivesShutdown
<1>1. RunsEnded /\ AllEnded => NothingOutlivesShutdown
  BY DEF RunsEnded, AllEnded, NothingOutlivesShutdown
<1>2. QED
  BY <1>1, SerializedInvariant, RunsEndedInvariant, PTL

\* If no calls overlap, it has marked every registered task stopped.
THEOREM AllAreMarked == ASSUME Serialized PROVE Spec => []AllMarkedStopped
<1>1. RunsEnded /\ OneCall /\ AllEnded => AllMarkedStopped
  <2> SUFFICES ASSUME RunsEnded, OneCall, AllEnded, NEW k \in Closers, closer[k] = "returned",
                      NEW t \in Registered
               PROVE  state[t] = "Stopped"
    BY DEF AllMarkedStopped
  <2>1. MarkedOrTo(t)
    BY DEF RunsEnded, AllEnded
  <2>2. \A j \in Closers : closer[j] \in ShutdownOver
    BY DEF OneCall, ShutdownAlone, ShutdownOver
  <2>3. QED
    BY <2>1, <2>2 DEF MarkedOrTo, ShutdownOver
<1>2. QED
  BY <1>1, SerializedInvariant, RunsEndedInvariant, PTL

\* If no calls overlap, a task is ready for run requests when the Start or Add it waited for returns.
THEOREM AddedIsActive == ASSUME Serialized PROVE Spec => []AddedTaskIsActive
<1>1. AllActive => AddedTaskIsActive
  BY NoElems DEF AllActive, AddedTaskIsActive, Started
<1>2. QED
  BY <1>1, SerializedInvariant, PTL
=============================================================================
