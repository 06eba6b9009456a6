----------------------------- MODULE TaskManager -----------------------------
(***************************************************************************)
(* The manager of rt/task: registration, start and shutdown of several     *)
(* tasks by concurrent callers.  What one task does with a run request is  *)
(* TaskRuntime's subject; here a task runs at most once at a time.  What   *)
(* matters is which task each caller's snapshot of m.tasks holds, which    *)
(* manager state Add captured, and what m.wg counts when it is waited for. *)
(*                                                                         *)
(* Steps are the critical sections of m.startMu, m.mu and tr.mu, and the   *)
(* wg.Add that starts a scheduler: it is outside all of them.              *)
(***************************************************************************)
EXTENDS Integers, Sequences, FiniteSets

CONSTANTS Tasks,      \* one Add call for each
          Every,      \* those with a schedule
          Name,       \* the normalised name of each; NoName is never indexed
          NoName,
          Closers,    \* Shutdown calls
          Serialized  \* TRUE: callers never overlap Add, Start and Shutdown calls

ASSUME TasksAssumption ==
  /\ Every \subseteq Tasks
  /\ DOMAIN Name = Tasks
  /\ Serialized \in BOOLEAN

VARIABLES
  mgr,       \* m.state
  ctxDone,   \* m.ctx is cancelled, by Shutdown or by the parent context
  tasks,     \* m.tasks
  names,     \* m.names, as a partial function
  state,     \* tr.state of each task
  busy,      \* tasks with a run goroutine (counted in m.wg)
  sched,     \* scheduler goroutine of each task: "none", "on" and "off" (counted in m.wg), "exited"
  adder,     \* progress of each Add call
  captured,  \* the manager state each Add read under startMu
  starter,   \* progress of Start
  toStart,   \* what is left of Start's snapshot of m.tasks
  spawning,  \* tasks Start has made idle and whose scheduler it is about to start
  closer,    \* progress of each Shutdown
  toStop     \* what is left of each Shutdown's snapshot of m.tasks

manager  == <<mgr, ctxDone>>
registry == <<tasks, names>>
runtime  == <<state, busy, sched>>
adding   == <<adder, captured>>
starting == <<starter, toStart, spawning>>
stopping == <<closer, toStop>>
vars == <<manager, registry, runtime, adding, starting, stopping>>

Init ==
  /\ mgr = "NotStarted"
  /\ ctxDone = FALSE
  /\ tasks = <<>>
  /\ names = <<>>
  /\ state = [t \in Tasks |-> "NotStarted"]
  /\ busy = {}
  /\ sched = [t \in Tasks |-> "none"]
  /\ adder = [t \in Tasks |-> "idle"]
  /\ captured = [t \in Tasks |-> "NotStarted"]
  /\ starter = "idle"
  /\ toStart = <<>>
  /\ spawning = {}
  /\ closer = [k \in Closers |-> "idle"]
  /\ toStop = [k \in Closers |-> <<>>]

Registered == {tasks[i] : i \in DOMAIN tasks}

\* Mutant: runs are not counted.
SchedulersDone == \A t \in Tasks : sched[t] \in {"none", "exited"}

\* Mutant: a scheduler that has ended is still counted.
NoneScheduled == busy = {} /\ \A t \in Tasks : sched[t] = "none"

\* m.wg.Wait() returns.
WgZero == busy = {} /\ \A t \in Tasks : sched[t] \in {"none", "exited"}

AddDone      == {"idle", "added", "ErrClosed", "ErrDuplicateName"}
ShutdownOver == {"idle", "returned", "timedOut"}

\* Start has returned.
Started == starter = "done" \/ (starter = "activating" /\ toStart = <<>> /\ spawning = {})

\* No lifecycle call is in progress: callers that serialize their calls wait for this.
MayCall ==
  Serialized => /\ \A t \in Tasks : adder[t] \in AddDone
                /\ starter = "idle" \/ Started
                /\ \A k \in Closers : closer[k] \in ShutdownOver

-----------------------------------------------------------------------------
(* Add *)

AddBegin(t) ==
  /\ MayCall
  /\ adder[t] = "idle"
  /\ captured' = [captured EXCEPT ![t] = mgr]
  /\ adder' = [adder EXCEPT ![t] =
                 IF mgr \in {"Stopping", "Stopped"} THEN "ErrClosed" ELSE "registering"]
  /\ UNCHANGED <<manager, registry, runtime, starting, stopping>>

\* Mutant: the name is looked up before m.mu is taken, and free.
NeverTaken(t) == FALSE

Taken(t) == Name[t] # NoName /\ Name[t] \in DOMAIN names

\* Mutant: only a task with a schedule is activated on the spot.
ActivatesScheduled(t) == captured[t] = "Running" /\ t \in Every

Activates(t) == captured[t] = "Running"

AddRegister(t) ==
  /\ adder[t] = "registering"
  /\ \/ /\ Taken(t)
        /\ adder' = [adder EXCEPT ![t] = "ErrDuplicateName"]
        /\ UNCHANGED <<registry>>
     \/ /\ ~Taken(t)
        /\ tasks' = Append(tasks, t)
        /\ names' = [n \in DOMAIN names \cup ({Name[t]} \ {NoName}) |->
                       IF n = Name[t] THEN t ELSE names[n]]
        /\ adder' = [adder EXCEPT ![t] = IF Activates(t) THEN "activating" ELSE "added"]
  /\ UNCHANGED <<manager, runtime, captured, starting, stopping>>

\* Mutant: the scheduler is left to Start.
AddActivateOnly(t) ==
  /\ adder[t] = "activating"
  /\ state' = [state EXCEPT ![t] = IF @ = "NotStarted" THEN "Idle" ELSE @]
  /\ adder' = [adder EXCEPT ![t] = "added"]
  /\ UNCHANGED <<manager, registry, busy, sched, captured, starting, stopping>>

\* onManagerStart, for a task added while the manager runs.
AddActivate(t) ==
  /\ adder[t] = "activating"
  /\ IF state[t] = "NotStarted"
     THEN /\ state' = [state EXCEPT ![t] = "Idle"]
          /\ adder' = [adder EXCEPT ![t] = IF t \in Every THEN "spawning" ELSE "added"]
     ELSE /\ adder' = [adder EXCEPT ![t] = "added"]
          /\ UNCHANGED state
  /\ UNCHANGED <<manager, registry, busy, sched, captured, starting, stopping>>

AddSpawn(t) ==
  /\ adder[t] = "spawning"
  /\ sched' = [sched EXCEPT ![t] = "on"]
  /\ adder' = [adder EXCEPT ![t] = "added"]
  /\ UNCHANGED <<manager, registry, state, busy, captured, starting, stopping>>

-----------------------------------------------------------------------------
(* Start *)

StartBegin ==
  /\ MayCall
  /\ starter = "idle"
  /\ IF mgr = "NotStarted"
     THEN mgr' = "Running" /\ starter' = "snapshot"
     ELSE starter' = "done" /\ UNCHANGED mgr       \* ErrAlreadyStarted
  /\ UNCHANGED <<ctxDone, registry, runtime, adding, toStart, spawning, stopping>>

StartSnapshot ==
  /\ starter = "snapshot"
  /\ toStart' = tasks
  /\ starter' = "activating"
  /\ UNCHANGED <<manager, registry, runtime, adding, spawning, stopping>>

\* Mutant: every task gets a scheduler.
Scheduled(t) == {t}

\* The scheduler onManagerStart goes on to start.
SchedulerOf(t) == {t} \cap Every

\* onManagerStart for the next task of the snapshot, up to tr.mu.Unlock.
StartActivate ==
  /\ starter = "activating"
  /\ spawning = {}
  /\ toStart # <<>>
  /\ LET t == Head(toStart)
     IN IF state[t] = "NotStarted"
        THEN /\ state' = [state EXCEPT ![t] = "Idle"]
             /\ spawning' = SchedulerOf(t)
        ELSE UNCHANGED <<state, spawning>>
  /\ toStart' = Tail(toStart)
  /\ UNCHANGED <<manager, registry, busy, sched, adding, starter, stopping>>

\* startSchedulerOnce: wg.Add(1) and the scheduler goroutine.
StartSpawn ==
  /\ \E t \in spawning : sched' = [sched EXCEPT ![t] = "on"]
  /\ spawning' = {}
  /\ UNCHANGED <<manager, registry, state, busy, adding, starter, toStart, stopping>>

-----------------------------------------------------------------------------
(* Shutdown *)

\* Mutant: a second Shutdown takes the stop in progress for a stop done.
ShutdownBeginOnce(k) ==
  /\ MayCall
  /\ closer[k] = "idle"
  /\ mgr' = CASE mgr = "NotStarted" -> "Stopped"
              [] mgr = "Running" -> "Stopping"
              [] OTHER -> mgr
  /\ closer' = [closer EXCEPT ![k] = CASE mgr = "NotStarted" -> "markSnapshot"
                                       [] mgr = "Running" -> "stopSnapshot"
                                       [] OTHER -> "returned"]
  /\ UNCHANGED <<ctxDone, registry, runtime, adding, starting, toStop>>

ShutdownBegin(k) ==
  /\ MayCall
  /\ closer[k] = "idle"
  /\ mgr' = CASE mgr = "NotStarted" -> "Stopped"
              [] mgr = "Running" -> "Stopping"
              [] OTHER -> mgr
  /\ closer' = [closer EXCEPT ![k] = CASE mgr = "NotStarted" -> "markSnapshot"
                                       [] mgr = "Running" -> "stopSnapshot"
                                       [] mgr = "Stopping" -> "waiting"
                                       [] OTHER -> "returned"]
  /\ UNCHANGED <<ctxDone, registry, runtime, adding, starting, toStop>>

ShutdownSnapshot(k) ==
  /\ \/ closer[k] = "stopSnapshot" /\ closer' = [closer EXCEPT ![k] = "stopping"]
     \/ closer[k] = "markSnapshot" /\ closer' = [closer EXCEPT ![k] = "marking"]
  /\ toStop' = [toStop EXCEPT ![k] = tasks]
  /\ UNCHANGED <<manager, registry, runtime, adding, starting>>

\* onManagerStopping or markStopped for the next task of the snapshot.
ShutdownTask(k) ==
  /\ closer[k] \in {"stopping", "marking"}
  /\ toStop[k] # <<>>
  /\ state' = [state EXCEPT ![Head(toStop[k])] =
                 IF closer[k] = "stopping" THEN "Stopping" ELSE "Stopped"]
  /\ toStop' = [toStop EXCEPT ![k] = Tail(@)]
  /\ UNCHANGED <<manager, registry, busy, sched, adding, starting, closer>>

ShutdownCancel(k) ==
  /\ closer[k] = "stopping"
  /\ toStop[k] = <<>>
  /\ ctxDone' = TRUE
  /\ closer' = [closer EXCEPT ![k] = "waiting"]
  /\ UNCHANGED <<mgr, registry, runtime, adding, starting, toStop>>

\* wg.Wait returns; the state is stored only after the select has seen it.
ShutdownWaited(k) ==
  /\ closer[k] = "waiting"
  /\ WgZero
  /\ closer' = [closer EXCEPT ![k] = "waited"]
  /\ UNCHANGED <<manager, registry, runtime, adding, starting, toStop>>

\* Mutant: the tasks are left as onManagerStopping marked them.
ShutdownStoreOnly(k) ==
  /\ closer[k] = "waited"
  /\ mgr' = "Stopped"
  /\ closer' = [closer EXCEPT ![k] = "returned"]
  /\ UNCHANGED <<ctxDone, registry, runtime, adding, starting, toStop>>

ShutdownStore(k) ==
  /\ closer[k] = "waited"
  /\ mgr' = "Stopped"
  /\ closer' = [closer EXCEPT ![k] = "markSnapshot"]
  /\ UNCHANGED <<ctxDone, registry, runtime, adding, starting, toStop>>

ShutdownTimeout(k) ==
  /\ closer[k] \in {"waiting", "waited"}
  /\ closer' = [closer EXCEPT ![k] = "timedOut"]
  /\ UNCHANGED <<manager, registry, runtime, adding, starting, toStop>>

ShutdownReturn(k) ==
  /\ closer[k] = "marking"
  /\ toStop[k] = <<>>
  /\ closer' = [closer EXCEPT ![k] = "returned"]
  /\ UNCHANGED <<manager, registry, runtime, adding, starting, toStop>>

-----------------------------------------------------------------------------
(* Runs and schedulers *)

\* A handle exists once Add has returned; a scheduler asks on its own.
RequestRun(t) ==
  /\ adder[t] = "added" \/ sched[t] = "on"
  /\ mgr = "Running"
  /\ state[t] = "Idle"
  /\ state' = [state EXCEPT ![t] = "Running"]
  /\ busy' = busy \cup {t}
  /\ UNCHANGED <<manager, registry, sched, adding, starting, stopping>>

\* Mutant: a finished run makes its task idle as long as the manager has not stopped.
SettledUnlessStopped == IF mgr = "Stopped" THEN "Stopped" ELSE "Idle"

Settled == IF mgr \in {"Stopping", "Stopped"} THEN mgr ELSE "Idle"

FinishRun(t) ==
  /\ t \in busy
  /\ busy' = busy \ {t}
  /\ state' = [state EXCEPT ![t] = Settled]
  /\ UNCHANGED <<manager, registry, sched, adding, starting, stopping>>

ParentCancel ==
  /\ mgr \in {"Running", "Stopping"}
  /\ ctxDone' = TRUE
  /\ UNCHANGED <<mgr, registry, runtime, adding, starting, stopping>>

\* setStopping on ctx.Done(), then wg.Done().
SchedulerStop(t) ==
  /\ sched[t] = "on"
  /\ ctxDone
  /\ state' = [state EXCEPT ![t] = "Stopping"]
  /\ sched' = [sched EXCEPT ![t] = "off"]
  /\ UNCHANGED <<manager, registry, busy, adding, starting, stopping>>

SchedulerExit(t) ==
  /\ sched[t] = "off"
  /\ sched' = [sched EXCEPT ![t] = "exited"]
  /\ UNCHANGED <<manager, registry, state, busy, adding, starting, stopping>>

-----------------------------------------------------------------------------

AddStep(t) == AddBegin(t) \/ AddRegister(t) \/ AddActivate(t) \/ AddSpawn(t)

StartStep == StartSnapshot \/ StartActivate \/ StartSpawn

CloserStep(k) ==
  \/ ShutdownSnapshot(k) \/ ShutdownTask(k) \/ ShutdownCancel(k)
  \/ ShutdownWaited(k) \/ ShutdownStore(k) \/ ShutdownReturn(k)

Next ==
  \/ \E t \in Tasks : \/ AddStep(t) \/ RequestRun(t) \/ FinishRun(t)
                      \/ SchedulerStop(t) \/ SchedulerExit(t)
  \/ StartBegin \/ StartStep \/ ParentCancel
  \/ \E k \in Closers : ShutdownBegin(k) \/ CloserStep(k) \/ ShutdownTimeout(k)

Spec == Init /\ [][Next]_vars

\* Goroutines that can move do, and task functions return.  Nobody has to call anything.
FairSpec ==
  /\ Spec
  /\ WF_vars(StartStep)
  /\ \A t \in Tasks : /\ WF_vars(adder[t] # "idle" /\ AddStep(t))
                      /\ WF_vars(FinishRun(t))
                      /\ WF_vars(SchedulerStop(t) \/ SchedulerExit(t))
  /\ \A k \in Closers : WF_vars(CloserStep(k))

-----------------------------------------------------------------------------
(* Properties *)

ManagerStates == {"NotStarted", "Running", "Stopping", "Stopped"}

\* Every variable keeps its type.
TypeOK ==
  /\ mgr \in ManagerStates
  /\ ctxDone \in BOOLEAN
  /\ tasks \in Seq(Tasks)
  /\ names \in [DOMAIN names -> Tasks]
  /\ state \in [Tasks -> {"NotStarted", "Idle", "Running", "Stopping", "Stopped"}]
  /\ busy \in SUBSET Tasks
  /\ sched \in [Tasks -> {"none", "on", "off", "exited"}]
  /\ adder \in [Tasks -> AddDone \cup {"registering", "activating", "spawning"}]
  /\ captured \in [Tasks -> ManagerStates]
  /\ starter \in {"idle", "snapshot", "activating", "done"}
  /\ toStart \in Seq(Tasks)
  /\ spawning \in SUBSET Every
  /\ closer \in [Closers -> ShutdownOver \cup
                   {"stopSnapshot", "stopping", "waiting", "waited", "markSnapshot", "marking"}]
  /\ toStop \in [Closers -> Seq(Tasks)]

\* A name finds the one task registered under it, and a task refused as a duplicate is not run.
NamesAgree ==
  /\ DOMAIN names = {Name[t] : t \in Registered} \ {NoName}
  /\ \A i, j \in DOMAIN tasks : i # j => tasks[i] # tasks[j] /\
       (Name[tasks[i]] # Name[tasks[j]] \/ Name[tasks[i]] = NoName)
  /\ \A n \in DOMAIN names : Name[names[n]] = n
  /\ \A t \in Tasks \ Registered : state[t] = "NotStarted" /\ sched[t] = "none" /\ t \notin busy

\* No task function runs once a Shutdown has returned nil, whatever calls it raced with.
NoRunOutlivesShutdown == (\E k \in Closers : closer[k] = "returned") => busy = {}

\* Once Start and Add have returned under a running manager, the task accepts run requests.
AddedTaskIsActive ==
  mgr = "Running" /\ Started => \A t \in Tasks : adder[t] = "added" => state[t] # "NotStarted"

\* A scheduled task the manager has activated has its scheduler: it is not dropped, and once
\* started it ends only because the context was cancelled.
SchedulerKept ==
  \A t \in Every :
    /\ state[t] = "NotStarted" => sched[t] = "none"
    /\ sched[t] \in {"off", "exited"} => ctxDone
    /\ sched[t] = "none" /\ state[t] \in {"Idle", "Running"} =>
         t \in spawning \/ adder[t] = "spawning"

\* A task never goes back to accepting run requests once a Shutdown has told it to stop.
NoRevival ==
  [][\A t \in Tasks : mgr \in {"Stopping", "Stopped"} /\ state[t] \in {"Stopping", "Stopped"}
       => state'[t] \in {"Stopping", "Stopped"}]_vars

\* doc.go:25: "Shutdown cancels the manager context and waits for all internal goroutines
\* (schedulers + runs) to exit."
NothingOutlivesShutdown == (\E k \in Closers : closer[k] = "returned") => WgZero

\* manager.go:212: a Shutdown that returned nil has marked the tasks as stopped.
AllMarkedStopped ==
  (\E k \in Closers : closer[k] = "returned") => \A t \in Registered : state[t] = "Stopped"

\* manager.go:59: Add "can be called before or after Start" -- and returns ErrClosed otherwise, so
\* under a manager that is not stopped an added task ends up accepting run requests or stopped.
EveryAddedTaskActivated ==
  \A t \in Tasks : (mgr = "Running" /\ adder[t] = "added") ~>
                     (state[t] # "NotStarted" \/ mgr # "Running")

\* A Shutdown comes to an end, with nil or with its context's error.
EveryShutdownReturns == \A k \in Closers : closer[k] # "idle" ~> closer[k] \in {"returned", "timedOut"}

=============================================================================
