--------------------------- MODULE SchedulerProofs ---------------------------
(***************************************************************************)
(* Theorems about an Every task: its scheduler keeps what TaskRuntime      *)
(* promises of slots and never waits for a completion it missed, and the   *)
(* next tick of a fixed rate is the first of its grid, whatever the        *)
(* interval.                                                               *)
(***************************************************************************)
EXTENDS Scheduler, TickGrid, TaskRuntimeProofs

-----------------------------------------------------------------------------
(* The times of a fixed rate. *)

\* Integer division rounds down.
LEMMA Division ==
  ASSUME NEW a \in Nat, NEW b \in Nat \ {0}
  PROVE  /\ a \div b \in Nat
         /\ (a \div b) * b <= a
         /\ a < (a \div b + 1) * b
BY SMT

\* A duration that fits is not changed by the width.
LEMMA NoWrap ==
  ASSUME NEW d \in Nat, d <= MaxInt64
  PROVE  Wrapped(d) = d
BY WidthAssumption, SMT DEF Wrapped, Width

\* The next tick is on the grid, later than now, and no tick of the grid lies in between, as long
\* as twice the time since the base is a duration that fits (146 years): then neither the
\* multiplication nor the difference of runtime.go:682-693 leaves its width.
THEOREM NextTickIsNext ==
  ASSUME NEW base \in Int, NEW now \in Int, NEW interval \in Nat \ {0},
         interval <= MaxInt64, 2 * (now - base) <= MaxInt64
  PROVE  FirstAfter(base, interval, now, NextTickAfter(base, interval, now))
<1> DEFINE tick == NextTickAfter(base, interval, now)
<1>1. CASE now < base
  <2>1. tick = base + 1 * interval
    BY <1>1, SMT DEF NextTickAfter
  <2>2. OnGrid(base, interval, tick)
    <3>1. 1 \in 1 .. tick - base
      BY <2>1, SMT
    <3> QED
      BY <2>1, <3>1 DEF OnGrid
  <2>3. tick > now /\ ~(now >= base)
    BY <1>1, <2>1, SMT
  <2> QED
    BY <2>2, <2>3 DEF FirstAfter
<1>2. CASE now >= base
  <2> DEFINE d == now - base
             k == d \div interval + 1
  <2>1. d \in Nat /\ Since(base, now) = d
    BY <1>2, WidthAssumption, SMT DEF Since
  <2>2. /\ k \in Nat \ {0}
        /\ d < k * interval
        /\ k * interval - interval <= d
    <3>1. /\ d \div interval \in Nat
          /\ (d \div interval) * interval <= d
          /\ d < (d \div interval + 1) * interval
      BY <2>1, Division
    <3>2. (d \div interval + 1) * interval = (d \div interval) * interval + interval
      BY <3>1, SMT
    <3> QED
      BY <2>1, <3>1, <3>2, SMT
  <2> HIDE DEF k
  <2>3. k * interval \in Nat /\ k * interval <= MaxInt64
    <3>1. k * interval \in Nat
      BY <2>2, SMT
    <3>2. CASE d < interval
      <4>1. d \div interval = 0
        BY <2>1, <3>2, SMT
      <4> QED
        BY <4>1, SMT DEF k
    <3>3. CASE d >= interval
      BY <2>1, <2>2, <3>1, <3>3, WidthAssumption, SMT
    <3> QED
      BY <2>1, <3>1, <3>2, <3>3, SMT
  <2>4. Wrapped(k * interval) = k * interval
    BY <2>3, NoWrap
  <2>5. tick = base + k * interval
    <3>1. tick = base + Wrapped((Since(base, now) \div interval + 1) * interval)
      BY <1>2, SMT DEF NextTickAfter
    <3> QED
      BY <2>1, <2>4, <3>1 DEF k
  <2>6. OnGrid(base, interval, tick)
    <3>1. k <= k * interval
      BY <2>2, SMT
    <3>2. k \in 1 .. tick - base
      BY <2>2, <2>3, <2>5, <3>1, SMT
    <3> QED
      BY <2>5, <3>2 DEF OnGrid
  <2>7. tick > now /\ tick - interval <= now
    BY <2>1, <2>2, <2>3, <2>5, SMT
  <2> QED
    BY <2>6, <2>7 DEF FirstAfter
<1> QED
  BY <1>1, <1>2, SMT
-----------------------------------------------------------------------------
(* The scheduler beside the runs.  It requests runs as any caller does,    *)
(* without the bound on those, and a cancelled context stops the task      *)
(* where the manager may still run.                                        *)

Ticks == StartOrPend({}) /\ UNCHANGED client

Stops == state' = "Stopping" /\ UNCHANGED <<mgr, running, pending, pendingWaiters, tally, mu, runs, client,
                                            starter, closer, held>>

OfTask == [Next]_vars \/ Ticks \/ Stops

LEMMA StepsOfTask ==
  ASSUME FDNext
  PROVE  OfTask
<1>1. CASE ActivateEvery
  BY <1>1 DEF ActivateEvery, OfTask, Next
<1>2. CASE TaskStep
  BY <1>2 DEF TaskStep, OfTask, Next, CloserStep
<1>3. CASE ParentCancel
  BY <1>3 DEF ParentCancel, OfTask
<1>4. CASE SchedulerStep
  BY <1>4 DEF SchedulerStep, Spawn, Timer, DelayStep, RateStep, Watch, Tick, Completion, SchedulerStop,
              OfTask, Ticks, Stops
<1>5. CASE \E k \in Closers : ShutdownStep(k)
  BY <1>5 DEF ShutdownStep, AnswerAndCancel, ShutdownDoneEvery, OfTask, Next, CloserStep
<1> QED BY <1>1, <1>2, <1>3, <1>4, <1>5 DEF FDNext

LEMMA TypeKept ==
  ASSUME TypeOK, OfTask
  PROVE  TypeOK'
<1>1. CASE [Next]_vars
  BY <1>1, TypeNext
<1>2. CASE Ticks
  <2>1. {} \in SUBSET Calls
    OBVIOUS
  <2> QED BY <1>2, <2>1, RequestType DEF Ticks, TypeOK, client
<1>3. CASE Stops
  BY <1>3 DEF Stops, TypeOK, client
<1> QED BY <1>1, <1>2, <1>3 DEF OfTask

LEMMA SlotsStayAccounted ==
  ASSUME TypeOK, SlotAccounting, OfTask
  PROVE  SlotAccounting'
<1>1. Starts \/ Finishes \/ KeepsSlots
  <2>1. CASE [Next]_vars
    BY <2>1, StepOnSlots
  <2>2. CASE Ticks
    BY <2>2, RequestOnSlots DEF Ticks
  <2>3. CASE Stops
    BY <2>3, KeepsSlotsWhenRunsKept DEF Stops
  <2> QED BY <2>1, <2>2, <2>3 DEF OfTask
<1> QED BY <1>1, TypeKept, SlotsKept

-----------------------------------------------------------------------------
(* Completions: tr.mu is only released by a run that rotates the channel. *)

Done == {r \in DOMAIN runs : runs[r].phase \notin {"fn", "locked"}}

LEMMA CompletedIsNatural ==
  ASSUME TypeOK
  PROVE  IsFiniteSet(Done) /\ Completed = Cardinality(Done) /\ Completed \in Nat
<1>1. Len(runs) \in Nat /\ DOMAIN runs = 1..Len(runs)
  BY RunsAreASequence DEF TypeOK
<1>2. Done \subseteq 1..Len(runs) /\ IsFiniteSet(1..Len(runs))
  BY <1>1, FS_Interval DEF Done
<1>3. IsFiniteSet(Done)
  BY <1>2, FS_Subset
<1> QED BY <1>3, FS_CardinalityType DEF Completed, Done

\* A step completes a run and releases tr.mu, or takes tr.mu, or does neither and gives back no slot.
Completes == \E r : r \notin Done /\ Done' = Done \cup {r}
Takes     == Done' = Done /\ mu' # 0
Neither   == Done \subseteq Done' /\ mu' = mu /\ running' >= running

LEMMA DoneWhenOneAdvances ==
  ASSUME TypeOK, NEW r \in DOMAIN runs, SameRuns({r}), r \in Done, runs'[r].phase \notin {"fn", "locked"}
  PROVE  Done \subseteq Done'
BY DEF Done, SameRuns

LEMMA StepOnDone ==
  ASSUME TypeOK, OfTask
  PROVE  Completes \/ Takes \/ Neither
<1>a. Len(runs) \in Nat /\ DOMAIN runs = 1..Len(runs) /\ running \in Int
  BY RunsAreASequence DEF TypeOK
<1>b. ASSUME runs' = runs, running' = running, mu' = mu PROVE Neither
  BY <1>a, <1>b DEF Neither, Done
<1>c. ASSUME NEW W \in SUBSET Calls, StartOrPend(W) PROVE Neither
  <2>1. CASE StartRun(runs, W)
    <3>1. /\ DOMAIN runs' = 1..(Len(runs) + 1)
          /\ \A i \in DOMAIN runs : runs'[i] = runs[i]
      BY <2>1, StartEffect
    <3>2. mu' = mu /\ running' = running + 1
      BY <1>c, <2>1 DEF StartOrPend, StartRun
    <3> QED BY <1>a, <3>1, <3>2 DEF Neither, Done
  <2>2. CASE UNCHANGED <<state, running, runs>>
    BY <1>b, <1>c, <2>2 DEF StartOrPend
  <2> QED BY <1>c, <2>1, <2>2 DEF StartOrPend
<1>1. CASE MgrStart \/ Activate \/ Stops \/ UNCHANGED vars
  BY <1>1, <1>b DEF MgrStart, Activate, Stops, vars, task
<1>2. CASE Fire \/ Ticks
  <2>1. {} \in SUBSET Calls
    OBVIOUS
  <2> QED BY <1>2, <1>c, <2>1 DEF Fire, Ticks
<1>3. ASSUME NEW c \in Calls, CallStep(c) PROVE Neither
  <2>1. CASE AskAndWait(c)
    BY <1>c, <2>1 DEF AskAndWait
  <2>2. CASE ~AskAndWait(c)
    BY <1>3, <1>b, <2>2 DEF CallStep, AskInVain, Receive, Abandon, task
  <2> QED BY <2>1, <2>2
<1>4. ASSUME NEW k \in Closers, CloserStep(k) PROVE Neither
  BY <1>4, <1>b DEF CloserStep, ShutdownBegin, DrainTask, AnswerDrained, ShutdownDone, ShutdownTimeout, task
<1>5. ASSUME NEW r \in DOMAIN runs, RunStep(r) PROVE Completes \/ Takes \/ Neither
  <2>1. ASSUME NEW o \in Outcomes, FinishRun(r, o) PROVE Takes
    <3>1. SameRuns({r}) /\ runs[r].phase = "fn" /\ runs'[r].phase = "locked" /\ mu' = r
      BY <2>1, FinishEffect DEF FinishRun
    <3> QED BY <1>a, <3>1 DEF Takes, Done, SameRuns
  <2>2. CASE SettleState(r)
    <3>1. SameRuns({r}) /\ runs[r].phase = "locked" /\ runs'[r].phase = "finished"
      BY <2>2, SettleEffect DEF SettleState
    <3>2. r \notin Done /\ Done' = Done \cup {r}
      BY <3>1 DEF Done, SameRuns
    <3> QED BY <3>2 DEF Completes
  <2>3. CASE DeliverResults(r)
    <3>1. runs[r].phase = "finished" /\ r \in Done
      BY <2>3 DEF DeliverResults, Done
    <3>2. SameRuns({r}) /\ runs'[r].phase \notin {"fn", "locked"}
      BY <2>3, DeliverEffect
    <3> QED BY <1>a, <2>3, <3>1, <3>2, DoneWhenOneAdvances DEF DeliverResults, task, Neither
  <2>4. CASE StartMerged(r)
    <3>1. runs[r].phase = "handover" /\ r \in Done
      BY <2>4 DEF StartMerged, Done
    <3>2. CASE MergedClosed(r) \/ MergedBack(r)
      <4>1. SameRuns({r}) /\ runs'[r].phase \notin {"fn", "locked"}
        BY <3>2, ExitEffect DEF MergedClosed, MergedBack
      <4> QED BY <1>a, <3>1, <3>2, <4>1, DoneWhenOneAdvances DEF MergedClosed, MergedBack, task, Neither
    <3>3. CASE MergedStart(r)
      <4>1. /\ DOMAIN runs' = 1..(Len(runs) + 1)
            /\ \A i \in DOMAIN runs \ {r} : runs'[i] = runs[i]
            /\ runs'[r].phase = "exited"
        BY <3>3, MergedStartEffect
      <4>2. Done \subseteq Done'
        BY <1>a, <4>1 DEF Done
      <4> QED BY <1>a, <3>3, <4>2 DEF MergedStart, StartRun, Neither
    <3> QED BY <2>4, <3>2, <3>3 DEF StartMerged
  <2> QED BY <1>5, <2>1, <2>2, <2>3, <2>4 DEF RunStep
<1> QED BY <1>1, <1>2, <1>3, <1>4, <1>5 DEF OfTask, Next

\* So completions only grow, and neither a slot nor tr.mu is given back behind a scheduler's back.
LEMMA CompletedGrows ==
  ASSUME TypeOK, OfTask
  PROVE  /\ Completed' \in Nat /\ Completed' >= Completed
         /\ Completed' = Completed /\ (running > 0 \/ mu # 0) => running' > 0 \/ mu' # 0
<1>1. /\ IsFiniteSet(Done) /\ Completed = Cardinality(Done) /\ Completed \in Nat
      /\ running \in Int /\ running' \in Int
  BY CompletedIsNatural, TypeKept DEF TypeOK
<1>2. IsFiniteSet(Done') /\ Completed' = Cardinality(Done') /\ Completed' \in Nat
  <2>1. TypeOK'
    BY TypeKept
  <2>2. Len(runs') \in Nat /\ DOMAIN runs' = 1..Len(runs')
    BY <2>1, LenProperties DEF TypeOK
  <2>3. Done' \subseteq 1..Len(runs')
    BY <2>2 DEF Done
  <2>4. IsFiniteSet(Done')
    <3>1. IsFiniteSet(1..Len(runs'))
      BY <2>2, FS_Interval
    <3> QED BY <2>3, <3>1, FS_Subset
  <2> QED BY <2>4, FS_CardinalityType DEF Completed, Done
<1>3. CASE Completes
  <2>1. PICK r : r \notin Done /\ Done' = Done \cup {r}
    BY <1>3 DEF Completes
  <2>2. Cardinality(Done') = Cardinality(Done) + 1
    BY <1>1, <2>1, FS_AddElement
  <2> QED BY <1>1, <1>2, <2>2
<1>4. CASE Takes
  BY <1>1, <1>2, <1>4 DEF Takes
<1>5. CASE Neither
  <2>1. Cardinality(Done) <= Cardinality(Done')
    BY <1>2, <1>5, FS_Subset DEF Neither
  <2> QED BY <1>1, <1>2, <1>5, <2>1 DEF Neither
<1> QED BY <1>3, <1>4, <1>5, StepOnDone

-----------------------------------------------------------------------------
(* The scheduler itself. *)

\* The scheduler runs only behind Start, and while the manager runs only the scheduler stops its task.
Started ==
  /\ mgr = "NotStarted" => starter # "activating" /\ sched = "none"
  /\ sched # "none" => state # "NotStarted"
  /\ mgr = "Running" /\ sched \notin {"none", "exited"} => state \in {"Idle", "Running"}
  /\ \A k \in Closers : closer[k] \in {"stopping", "marking"} => mgr \in {"Stopping", "Stopped"}

Scheduled ==
  /\ TypeOK /\ SlotAccounting
  /\ Started
  /\ watch <= Completed /\ watch \in Nat
  /\ CompletionNotMissed

LEMMA ScheduledInitially == FDInit => Scheduled
<1> SUFFICES ASSUME FDInit PROVE Scheduled
  OBVIOUS
<1>1. TypeOK /\ SlotAccounting
  BY TypeInit, SlotInit DEF FDInit
<1>2. mgr = "NotStarted" /\ sched = "none" /\ watch = 0 /\ starter = "idle" /\ \A k \in Closers : closer[k] = "idle"
  BY DEF FDInit, Init
<1>3. Completed \in Nat
  BY <1>1, CompletedIsNatural
<1> QED BY <1>1, <1>2, <1>3 DEF Scheduled, Started, CompletionNotMissed

LEMMA StartedKept ==
  ASSUME Scheduled, [FDNext]_allVars
  PROVE  Started'
<1> USE DEF Scheduled, TypeOK, Started
\* Most steps leave the manager alone and the task open if it was.
<1>a. ASSUME UNCHANGED <<mgr, starter, closer>>, sched' = sched,
             state' = state \/ state' \in {"Idle", "Running"}
      PROVE  Started'
  BY <1>a
<1>b. ASSUME NEW W, StartOrPend(W)
      PROVE  UNCHANGED <<mgr, starter, closer>> /\ (state' = state \/ state' = "Running")
  BY <1>b DEF StartOrPend, StartRun
<1>1. CASE ActivateEvery
  <2>1. /\ UNCHANGED <<mgr, closer>> /\ starter = "activating" /\ starter' = "done"
        /\ state' = IF state = "NotStarted" THEN "Idle" ELSE state
        /\ sched' = IF state = "NotStarted" THEN "spawning" ELSE sched
    BY <1>1 DEF ActivateEvery, Activate
  <2> QED BY <2>1
<1>2. ASSUME TaskStep PROVE Started'
  <2>0. sched' = sched
    BY <1>2 DEF TaskStep
  <2>1. CASE MgrStart
    BY <2>0, <2>1 DEF MgrStart, task
  <2>2. CASE Fire
    BY <1>a, <1>b, <2>0, <2>2 DEF Fire
  <2>3. ASSUME NEW c \in Calls, CallStep(c) PROVE Started'
    <3>1. CASE AskAndWait(c)
      BY <1>a, <1>b, <2>0, <3>1 DEF AskAndWait
    <3>2. CASE ~AskAndWait(c)
      <4>1. UNCHANGED <<mgr, starter, closer>> /\ state' = state
        BY <2>3, <3>2 DEF CallStep, AskInVain, Receive, Abandon, task
      <4> QED BY <1>a, <2>0, <4>1
    <3> QED BY <3>1, <3>2
  <2>4. ASSUME NEW r \in DOMAIN runs, RunStep(r) PROVE Started'
    <3>1. CASE SettleState(r)
      BY <2>0, <3>1 DEF SettleState, Settled
    <3>2. CASE ~SettleState(r)
      <4>1. UNCHANGED <<mgr, starter, closer>> /\ (state' = state \/ state' = "Running")
        BY <2>4, <3>2 DEF RunStep, FinishRun, DeliverResults, StartMerged, MergedClosed, MergedStart, MergedBack,
                          StartRun, task
      <4> QED BY <1>a, <2>0, <4>1
    <3> QED BY <3>1, <3>2
  <2>5. ASSUME NEW k \in Closers, ShutdownBegin(k) PROVE Started'
    <3>1. /\ UNCHANGED <<state, starter>>
          /\ mgr' \in {"Stopping", "Stopped"}
          /\ \E s : closer' = [closer EXCEPT ![k] = s]
      BY <2>5 DEF ShutdownBegin, task
    <3> QED BY <2>0, <3>1
  <2>6. ASSUME NEW k \in Closers, ShutdownTimeout(k) PROVE Started'
    <3>1. UNCHANGED <<mgr, state, starter>> /\ closer' = [closer EXCEPT ![k] = "timedOut"]
      BY <2>6 DEF ShutdownTimeout, task
    <3> QED BY <2>0, <3>1
  <2> QED BY <1>2, <2>1, <2>2, <2>3, <2>4, <2>5, <2>6 DEF TaskStep
<1>3. CASE ParentCancel \/ UNCHANGED allVars
  BY <1>3 DEF ParentCancel, allVars, vars, task
<1>4. CASE SchedulerStop
  BY <1>4 DEF SchedulerStop
<1>5. ASSUME Spawn \/ Timer \/ DelayStep \/ RateStep PROVE Started'
  <2>1. sched # "none" /\ sched # "exited"
    BY <1>5 DEF Spawn, Timer, DelayStep, RateStep, Watch, Tick, Completion
  <2>2. UNCHANGED <<mgr, starter, closer>> /\ (state' = state \/ state' = "Running")
    BY <1>5, <1>b DEF Spawn, Timer, DelayStep, RateStep, Watch, Tick, Completion, vars, task
  <2> QED BY <2>1, <2>2
<1>6. ASSUME NEW k \in Closers, ShutdownStep(k) PROVE Started'
  <2>1. CASE DrainTask(k) /\ sched' = sched
    <3>1. UNCHANGED <<mgr, starter>> /\ closer[k] \in {"stopping", "marking"} /\ state' \in {"Stopping", "Stopped"}
      BY <2>1 DEF DrainTask, Drain
    <3>2. closer' = [closer EXCEPT ![k] = "cancelling"] \/ closer' = [closer EXCEPT ![k] = "returning"]
      BY <2>1 DEF DrainTask
    <3> QED BY <2>1, <3>1, <3>2
  <2>2. CASE AnswerDrained(k) /\ sched' = sched
    <3>1. UNCHANGED <<mgr, state, starter>>
      BY <2>2 DEF AnswerDrained, task
    <3>2. closer' = [closer EXCEPT ![k] = "waiting"] \/ closer' = [closer EXCEPT ![k] = "returned"]
      BY <2>2 DEF AnswerDrained
    <3> QED BY <2>2, <3>1, <3>2
  <2>3. CASE ShutdownDone(k) /\ sched' = sched
    <3>1. UNCHANGED <<state, starter>> /\ mgr' = "Stopped" /\ closer' = [closer EXCEPT ![k] = "marking"]
      BY <2>3 DEF ShutdownDone, task
    <3> QED BY <2>3, <3>1
  <2> QED BY <1>6, <2>1, <2>2, <2>3 DEF ShutdownStep, AnswerAndCancel, ShutdownDoneEvery
<1> QED BY <1>1, <1>2, <1>3, <1>4, <1>5, <1>6 DEF FDNext, SchedulerStep

\* What the scheduler waits for is either on its way or there.
LEMMA WaitKept ==
  ASSUME Scheduled, [FDNext]_allVars
  PROVE  watch <= Completed' /\ (watch' = watch \/ watch' = Completed) /\ CompletionNotMissed'
<1> USE DEF Scheduled
<1>0. OfTask /\ (FDNext \/ UNCHANGED allVars)
  BY StepsOfTask DEF OfTask, allVars
<1>1. /\ Completed' >= Completed
      /\ Completed' = Completed /\ (running > 0 \/ mu # 0) => running' > 0 \/ mu' # 0
      /\ Completed \in Nat /\ Completed' \in Nat /\ watch \in Nat
  BY <1>0, CompletedGrows, CompletedIsNatural
<1>2. watch' = watch \/ watch' = Completed
  BY <1>0 DEF FDNext, ActivateEvery, TaskStep, ParentCancel, ShutdownStep, AnswerAndCancel, ShutdownDoneEvery,
              SchedulerStep, Spawn, Timer, DelayStep, RateStep, Watch, Tick, Completion, SchedulerStop, allVars
<1>3. ASSUME NEW from, Tick(from, "await"), from \notin {"none", "exited"}, mgr' = "Running"
      PROVE  running' > 0
  <2>0. running \in Nat /\ Max \in Nat \ {0}
    BY LiveIsFinite, ParamsAssumption DEF SlotAccounting
  <2>1. CASE StartOrPend({})
    BY <2>0, <2>1 DEF StartOrPend, StartRun
  <2>2. CASE (\E err \in {"ErrNotRunning", "ErrClosed", "ErrSkipped"} : Refusal(err)) /\ UNCHANGED vars
    <3>1. mgr = "Running" /\ state \in {"Idle", "Running"} /\ running' = running
      BY <1>3, <2>2 DEF vars, task, Tick, Started
    <3>2. running >= Max
      BY <2>2, <3>1 DEF Refusal
    <3> QED BY <2>0, <3>1, <3>2
  <2> QED BY <1>3, <2>1, <2>2 DEF Tick
<1>4. ASSUME sched' = "await", mgr' = "Running", watch' >= Completed'
      PROVE  running' > 0 \/ mu' # 0
  <2>1. CASE sched # "await"
    <3>1. Tick("request", "await")
      BY <1>0, <1>4, <2>1 DEF FDNext, ActivateEvery, TaskStep, ParentCancel, ShutdownStep, AnswerAndCancel,
           ShutdownDoneEvery, SchedulerStep, Spawn, Timer, DelayStep, RateStep, Watch, Tick, Completion,
           SchedulerStop, allVars
    <3> QED BY <1>3, <1>4, <3>1
  <2>2. CASE sched = "await"
    <3>1. mgr = "Running"
      BY <1>0, <1>4, <2>2 DEF Started, OfTask, Next, MgrStart, Activate, Fire, CallStep, AskAndWait, AskInVain,
           Receive, Abandon, RunStep, FinishRun, SettleState, DeliverResults, StartMerged, CloserStep,
           ShutdownBegin, DrainTask, AnswerDrained, ShutdownDone, ShutdownTimeout, StartOrPend, Ticks, Stops, vars
    <3>2. watch' = watch
      BY <1>0, <1>4, <2>2 DEF FDNext, ActivateEvery, TaskStep, ParentCancel, ShutdownStep, AnswerAndCancel,
           ShutdownDoneEvery, SchedulerStep, Spawn, Timer, DelayStep, RateStep, Watch, Tick, Completion,
           SchedulerStop, allVars
    <3>3. watch >= Completed /\ Completed' = Completed
      BY <1>1, <1>4, <3>2
    <3>4. running > 0 \/ mu # 0
      BY <1>1, <2>2, <3>1, <3>3 DEF CompletionNotMissed, WatchClosed
    <3> QED BY <1>1, <3>3, <3>4
  <2> QED BY <2>1, <2>2
<1>5. CompletionNotMissed'
  <2>1. watch' \in Nat /\ Completed' \in Nat
    BY <1>1, <1>2
  <2> QED BY <1>4, <2>1 DEF CompletionNotMissed, WatchClosed
<1> QED BY <1>1, <1>2, <1>5

LEMMA ScheduledInvariant == FDSpec => []Scheduled
<1>1. ASSUME Scheduled, [FDNext]_allVars PROVE Scheduled'
  <2>1. OfTask
    BY <1>1, StepsOfTask DEF OfTask, allVars
  <2>2. TypeOK' /\ SlotAccounting'
    BY <1>1, <2>1, TypeKept, SlotsStayAccounted DEF Scheduled
  <2>3. Started' /\ watch <= Completed' /\ (watch' = watch \/ watch' = Completed) /\ CompletionNotMissed'
    BY <1>1, StartedKept, WaitKept
  <2>4. Completed \in Nat /\ Completed' >= Completed /\ watch \in Nat
    BY <1>1, <2>1, CompletedIsNatural, CompletedGrows DEF Scheduled
  <2> QED BY <2>2, <2>3, <2>4 DEF Scheduled
<1> QED BY <1>1, ScheduledInitially, PTL DEF FDSpec

\* The scheduler never waits for a completion that has been signalled: the channel it took before its
\* request is closed by every run completed since, and whatever the request came to, while that
\* channel is open a run is in progress or in its deferred function.
THEOREM NoCompletionMissed == FDSpec => []CompletionNotMissed
<1>1. Scheduled => CompletionNotMissed
  BY DEF Scheduled
<1> QED BY <1>1, ScheduledInvariant, PTL

\* A scheduler, also one that a cancelled context ends while the manager runs, leaves the slots of its
\* task accounted for.
THEOREM SlotsAccountedWhenScheduled == FDSpec => []SlotAccounting
<1>1. Scheduled => SlotAccounting
  BY DEF Scheduled
<1> QED BY <1>1, ScheduledInvariant, PTL
=============================================================================
