-------------------------- MODULE TaskRuntimeProofs --------------------------
(***************************************************************************)
(* Theorems about one task of rt/task, for every number of callers and of  *)
(* Shutdown calls, every concurrency limit and both overlap policies.      *)
(***************************************************************************)
EXTENDS TaskRuntime, SequenceTheorems, FiniteSetTheorems, TLAPS

(***************************************************************************)
(* The two ways the sequence of runs changes.                              *)
(***************************************************************************)

LEMMA RunsAreASequence ==
  ASSUME runs \in Seq(RunType)
  PROVE  /\ Len(runs) \in Nat
         /\ DOMAIN runs = 1..Len(runs)
         /\ \A r \in DOMAIN runs : runs[r] \in RunType
BY LenProperties, ElementOfSeq

LEMMA UpdateRun ==
  ASSUME NEW rs \in Seq(RunType), NEW r \in DOMAIN rs, NEW x \in RunType
  PROVE  /\ [rs EXCEPT ![r] = x] \in Seq(RunType)
         /\ Len([rs EXCEPT ![r] = x]) = Len(rs)
         /\ DOMAIN [rs EXCEPT ![r] = x] = DOMAIN rs
         /\ \A i \in DOMAIN rs : [rs EXCEPT ![r] = x][i] = IF i = r THEN x ELSE rs[i]
<1>1. DOMAIN rs = 1..Len(rs)
  BY LenProperties
<1>2. QED
  BY <1>1, ExceptSeq

LEMMA AppendRun ==
  ASSUME NEW rs \in Seq(RunType), NEW x \in RunType
  PROVE  /\ Append(rs, x) \in Seq(RunType)
         /\ Len(Append(rs, x)) = Len(rs) + 1
         /\ DOMAIN Append(rs, x) = 1..(Len(rs) + 1)
         /\ Append(rs, x)[Len(rs) + 1] = x
         /\ \A i \in DOMAIN rs : Append(rs, x)[i] = rs[i]
<1>1. DOMAIN rs = 1..Len(rs) /\ Len(rs) \in Nat
  BY LenProperties
<1>2. QED
  BY <1>1

(***************************************************************************)
(* Type correctness.                                                       *)
(***************************************************************************)

LEMMA SendType ==
  ASSUME answer \in [Calls -> [kind : AnswerKinds, run : Nat]],
         NEW S, NEW res \in [kind : AnswerKinds, run : Nat], Send(S, res)
  PROVE  answer' \in [Calls -> [kind : AnswerKinds, run : Nat]]
BY DEF Send

LEMMA NewRunType ==
  ASSUME NEW S \in SUBSET Calls
  PROVE  NewRun(S) \in RunType
BY DEF NewRun, RunType, Phases

LEMMA ExitRunType ==
  ASSUME TypeOK, NEW r \in DOMAIN runs
  PROVE  /\ ExitRun(r) \in Seq(RunType)
         /\ Len(ExitRun(r)) = Len(runs)
         /\ DOMAIN ExitRun(r) = DOMAIN runs
         /\ \A i \in DOMAIN runs : i # r => ExitRun(r)[i] = runs[i]
         /\ ExitRun(r)[r] = [runs[r] EXCEPT !.phase = "exited", !.merged = {}]
<1> DEFINE x == [runs[r] EXCEPT !.phase = "exited", !.merged = {}]
<1>1. runs \in Seq(RunType) /\ runs[r] \in RunType
  BY RunsAreASequence DEF TypeOK
<1>2. x \in RunType
  BY <1>1 DEF RunType, Phases
<1>3. ExitRun(r) = [runs EXCEPT ![r] = x]
  BY DEF ExitRun
<1> HIDE DEF x
<1>4. /\ ExitRun(r) \in Seq(RunType)
      /\ Len(ExitRun(r)) = Len(runs)
      /\ DOMAIN ExitRun(r) = DOMAIN runs
      /\ \A i \in DOMAIN runs : ExitRun(r)[i] = IF i = r THEN x ELSE runs[i]
  BY <1>1, <1>2, <1>3, UpdateRun
<1>5. QED
  BY <1>4 DEF x

LEMMA ResultType ==
  ASSUME TypeOK, NEW r \in DOMAIN runs
  PROVE  Result(r) \in [kind : {"ErrPanicked", "nil", "err"}, run : Nat \ {0}]
BY RunsAreASequence DEF TypeOK, Result

LEMMA TypeInit == Init => TypeOK
<1> SUFFICES ASSUME Init PROVE TypeOK
  OBVIOUS
<1>1. runs \in Seq(RunType)
  BY EmptySeq DEF Init
<1>2. answer \in [Calls -> [kind : AnswerKinds, run : Nat]]
  BY DEF Init, NoAnswer, AnswerKinds
<1>3. tally \in [ok : Nat, fail : Nat, canceled : Nat] /\ pending \in BOOLEAN
  BY DEF Init
<1>4. held \in [Closers -> SUBSET Calls] /\ since \in [Calls -> Nat]
  BY DEF Init
<1>5. QED
  BY <1>1, <1>2, <1>3, <1>4 DEF Init, TypeOK

LEMMA RequestType ==
  ASSUME TypeOK, NEW waiters \in SUBSET Calls, StartOrPend(waiters)
  PROVE  /\ runs' \in Seq(RunType) /\ running' \in Int /\ pending' \in BOOLEAN
         /\ state' \in {"NotStarted", "Idle", "Running", "Stopping", "Stopped"}
         /\ pendingWaiters' \in SUBSET Calls
         /\ UNCHANGED <<mgr, tally, mu, starter, closer, held>>
<1>1. CASE StartRun(runs, waiters) /\ UNCHANGED <<pending, pendingWaiters>>
  BY <1>1, NewRunType, AppendRun DEF StartOrPend, StartRun, TypeOK
<1>2. CASE MergePending(waiters) /\ UNCHANGED <<state, running, runs>>
  BY <1>2 DEF StartOrPend, MergePending, TypeOK
<1>3. QED
  BY <1>1, <1>2 DEF StartOrPend

LEMMA TypeNext == TypeOK /\ [Next]_vars => TypeOK'
<1> SUFFICES ASSUME TypeOK, [Next]_vars PROVE TypeOK'
  OBVIOUS
<1> USE ParamsAssumption
<1>a. /\ Len(runs) \in Nat
      /\ DOMAIN runs = 1..Len(runs)
      /\ \A r \in DOMAIN runs : runs[r] \in RunType
  BY RunsAreASequence DEF TypeOK
<1>1. CASE MgrStart
  BY <1>1 DEF MgrStart, TypeOK, task, client
<1>2. CASE Activate
  BY <1>2 DEF Activate, TypeOK, client
<1>3. CASE Fire
  <2>1. StartOrPend({}) /\ UNCHANGED client
    BY <1>3 DEF Fire
  <2>2. QED
    BY <2>1, RequestType DEF TypeOK, client
<1>4. ASSUME NEW c \in Calls, CallStep(c)
      PROVE  TypeOK'
  <2>1. CASE AskAndWait(c)
    <3>1. StartOrPend({c})
      BY <2>1 DEF AskAndWait
    <3>2. since' \in [Calls -> Nat] /\ call' \in [Calls -> {"idle", "waiting", "returned"}]
      BY <2>1, <1>a DEF AskAndWait, TypeOK, runCount
    <3>3. QED
      BY <3>1, <3>2, <2>1, RequestType DEF AskAndWait, TypeOK
  <2>2. ASSUME NEW err \in {"ErrNotRunning", "ErrClosed", "ErrSkipped"}, AskInVain(c, err)
        PROVE  TypeOK'
    <3>1. [kind |-> err, run |-> 0] \in [kind : AnswerKinds, run : Nat]
      BY DEF AnswerKinds
    <3>2. answer' \in [Calls -> [kind : AnswerKinds, run : Nat]]
      BY <2>2, <3>1 DEF AskInVain, TypeOK
    <3>3. QED
      BY <2>2, <3>2 DEF AskInVain, TypeOK, task
  <2>3. CASE Receive(c)
    BY <2>3 DEF Receive, TypeOK, task
  <2>4. CASE Abandon(c)
    <3>1. [kind |-> "ctx", run |-> 0] \in [kind : AnswerKinds, run : Nat]
      BY DEF AnswerKinds
    <3>2. answer' \in [Calls -> [kind : AnswerKinds, run : Nat]]
      BY <2>4, <3>1 DEF Abandon, TypeOK
    <3>3. QED
      BY <2>4, <3>2 DEF Abandon, TypeOK
  <2>5. QED
    BY <1>4, <2>1, <2>2, <2>3, <2>4 DEF CallStep
<1>5. ASSUME NEW r \in DOMAIN runs, RunStep(r)
      PROVE  TypeOK'
  <2>a. runs[r] \in RunType /\ r \in Nat \ {0} /\ runs \in Seq(RunType)
    BY <1>a DEF TypeOK
  <2>1. ASSUME NEW o \in Outcomes, FinishRun(r, o)
        PROVE  TypeOK'
    <3>1. runs' \in Seq(RunType)
      <4> DEFINE x == [runs[r] EXCEPT !.phase = "locked", !.outcome = o, !.takes = TakesOver,
                                      !.merged = IF TakesOver THEN pendingWaiters ELSE {}]
      <4>1. TakesOver \in BOOLEAN
        BY DEF TakesOver, TypeOK
      <4>2. x \in RunType
        BY <2>a, <4>1 DEF RunType, Phases, TypeOK
      <4>3. runs' = [runs EXCEPT ![r] = x]
        BY <2>1 DEF FinishRun
      <4> HIDE DEF x
      <4>4. QED
        BY <4>2, <4>3, <2>a, UpdateRun
    <3>2. tally' \in [ok : Nat, fail : Nat, canceled : Nat]
      BY <2>1 DEF FinishRun, Count, TypeOK
    <3>3. pending' \in BOOLEAN /\ pendingWaiters' \in SUBSET Calls
      BY <2>1 DEF FinishRun, TypeOK
    <3>4. mu' \in Nat /\ running' \in Int
      BY <2>1, <2>a DEF FinishRun, TypeOK
    <3>5. UNCHANGED <<mgr, state, call, answer, since, starter, closer, held>>
      BY <2>1 DEF FinishRun, client
    <3>6. QED
      BY <3>1, <3>2, <3>3, <3>4, <3>5 DEF TypeOK
  <2>2. CASE SettleState(r)
    <3>1. runs' \in Seq(RunType)
      <4> DEFINE x == [runs[r] EXCEPT !.phase = "finished"]
      <4>1. x \in RunType
        BY <2>a DEF RunType, Phases
      <4>2. runs' = [runs EXCEPT ![r] = x]
        BY <2>2 DEF SettleState
      <4> HIDE DEF x
      <4>3. QED
        BY <4>1, <4>2, <2>a, UpdateRun
    <3>2. QED
      BY <2>2, <3>1 DEF SettleState, Settled, TypeOK, client
  <2>3. CASE DeliverResults(r)
    <3>1. runs' \in Seq(RunType)
      <4> DEFINE x == [runs[r] EXCEPT !.owed = {},
                         !.phase = IF runs[r].takes THEN "handover" ELSE "exited"]
      <4>1. x \in RunType
        BY <2>a DEF RunType, Phases
      <4>2. runs' = [runs EXCEPT ![r] = x]
        BY <2>3 DEF DeliverResults
      <4> HIDE DEF x
      <4>3. QED
        BY <4>1, <4>2, <2>a, UpdateRun
    <3>2. Result(r) \in [kind : AnswerKinds, run : Nat]
      BY ResultType DEF AnswerKinds
    <3>3. answer' \in [Calls -> [kind : AnswerKinds, run : Nat]]
      BY <2>3, <3>2, SendType DEF DeliverResults, TypeOK
    <3>4. QED
      BY <2>3, <3>1, <3>3 DEF DeliverResults, TypeOK, task
  <2>4. CASE StartMerged(r)
    <3>1. CASE MergedClosed(r)
      <4>1. Closed \in [kind : AnswerKinds, run : Nat]
        BY DEF Closed, AnswerKinds
      <4>2. answer' \in [Calls -> [kind : AnswerKinds, run : Nat]]
        BY <3>1, <4>1, SendType DEF MergedClosed, TypeOK
      <4>3. QED
        BY <2>4, <3>1, <4>2, ExitRunType DEF StartMerged, MergedClosed, TypeOK, task
    <3>2. CASE MergedStart(r)
      <4>1. NewRun(runs[r].merged) \in RunType
        BY <2>a, NewRunType DEF RunType
      <4>2. runs' \in Seq(RunType)
        BY <3>2, <4>1, ExitRunType, AppendRun DEF MergedStart, StartRun
      <4>3. QED
        BY <2>4, <3>2, <4>2 DEF StartMerged, MergedStart, StartRun, TypeOK, client
    <3>3. CASE MergedBack(r)
      <4>1. runs[r].merged \in SUBSET Calls
        BY <2>a DEF RunType
      <4>2. QED
        BY <2>4, <3>3, <4>1, ExitRunType DEF StartMerged, MergedBack, MergePending, TypeOK, client
    <3>4. QED
      BY <2>4, <3>1, <3>2, <3>3 DEF StartMerged
  <2>5. QED
    BY <1>5, <2>1, <2>2, <2>3, <2>4 DEF RunStep
<1>6. ASSUME NEW k \in Closers, CloserStep(k)
      PROVE  TypeOK'
  <2>1. CASE ShutdownBegin(k)
    BY <2>1 DEF ShutdownBegin, TypeOK, task, client
  <2>2. CASE DrainTask(k)
    BY <2>2 DEF DrainTask, Drain, TypeOK, client
  <2>3. CASE AnswerDrained(k)
    <3>1. Closed \in [kind : AnswerKinds, run : Nat]
      BY DEF Closed, AnswerKinds
    <3>2. answer' \in [Calls -> [kind : AnswerKinds, run : Nat]]
      BY <2>3, <3>1, SendType DEF AnswerDrained, TypeOK
    <3>3. QED
      BY <2>3, <3>2 DEF AnswerDrained, TypeOK, task
  <2>4. CASE ShutdownDone(k)
    BY <2>4 DEF ShutdownDone, TypeOK, task, client
  <2>5. CASE ShutdownTimeout(k)
    BY <2>5 DEF ShutdownTimeout, TypeOK, task, client
  <2>6. QED
    BY <1>6, <2>1, <2>2, <2>3, <2>4, <2>5 DEF CloserStep
<1>7. CASE UNCHANGED vars
  BY <1>7 DEF vars, task, client, TypeOK
<1>8. QED
  BY <1>1, <1>2, <1>3, <1>4, <1>5, <1>6, <1>7 DEF Next

\* Every reachable state is well typed, whatever the constants.
THEOREM TypeCorrect == Spec => []TypeOK
<1>1. QED
  BY TypeInit, TypeNext, PTL DEF Spec

(***************************************************************************)
(* What each step does to the sequence of runs.                            *)
(***************************************************************************)

SameRuns(Rs) == /\ DOMAIN runs' = DOMAIN runs
                /\ Len(runs') = Len(runs)
                /\ \A i \in DOMAIN runs \ Rs : runs'[i] = runs[i]

LEMMA StartEffect ==
  ASSUME TypeOK, NEW W \in SUBSET Calls, StartRun(runs, W)
  PROVE  /\ Len(runs') = Len(runs) + 1
         /\ DOMAIN runs' = 1..(Len(runs) + 1)
         /\ runs'[Len(runs) + 1] = NewRun(W)
         /\ \A i \in DOMAIN runs : runs'[i] = runs[i]
BY NewRunType, AppendRun DEF TypeOK, StartRun

LEMMA FinishEffect ==
  ASSUME TypeOK, NEW r \in DOMAIN runs, NEW o \in Outcomes, FinishRun(r, o)
  PROVE  /\ SameRuns({r})
         /\ runs'[r].phase = "locked"
         /\ runs'[r].outcome = o
         /\ runs'[r].owed = runs[r].owed
         /\ runs'[r].takes = TakesOver
         /\ runs'[r].merged = IF TakesOver THEN pendingWaiters ELSE {}
<1> DEFINE x == [runs[r] EXCEPT !.phase = "locked", !.outcome = o, !.takes = TakesOver,
                                !.merged = IF TakesOver THEN pendingWaiters ELSE {}]
<1>1. runs[r] \in RunType /\ runs \in Seq(RunType)
  BY RunsAreASequence DEF TypeOK
<1>2. x \in RunType
  BY <1>1 DEF RunType, Phases, TypeOK, TakesOver
<1>3. /\ x.phase = "locked" /\ x.outcome = o /\ x.owed = runs[r].owed
      /\ x.takes = TakesOver /\ x.merged = IF TakesOver THEN pendingWaiters ELSE {}
  BY <1>1 DEF RunType
<1>4. runs' = [runs EXCEPT ![r] = x]
  BY DEF FinishRun
<1> HIDE DEF x
<1>5. SameRuns({r}) /\ runs'[r] = x
  BY <1>1, <1>2, <1>4, UpdateRun DEF SameRuns
<1>6. QED
  BY <1>3, <1>5

LEMMA SettleEffect ==
  ASSUME TypeOK, NEW r \in DOMAIN runs, SettleState(r)
  PROVE  /\ SameRuns({r})
         /\ runs'[r] \in RunType
         /\ runs'[r].phase = "finished"
         /\ runs'[r].outcome = runs[r].outcome
         /\ runs'[r].owed = runs[r].owed
         /\ runs'[r].takes = runs[r].takes
         /\ runs'[r].merged = runs[r].merged
<1> DEFINE x == [runs[r] EXCEPT !.phase = "finished"]
<1>1. runs[r] \in RunType /\ runs \in Seq(RunType)
  BY RunsAreASequence DEF TypeOK
<1>2. x \in RunType
  BY <1>1 DEF RunType, Phases
<1>3. /\ x.phase = "finished" /\ x.outcome = runs[r].outcome /\ x.owed = runs[r].owed
      /\ x.takes = runs[r].takes /\ x.merged = runs[r].merged
  BY <1>1 DEF RunType
<1>4. runs' = [runs EXCEPT ![r] = x]
  BY DEF SettleState
<1> HIDE DEF x
<1>5. SameRuns({r}) /\ runs'[r] = x
  BY <1>1, <1>2, <1>4, UpdateRun DEF SameRuns
<1>6. QED
  BY <1>2, <1>3, <1>5

LEMMA DeliverEffect ==
  ASSUME TypeOK, NEW r \in DOMAIN runs, DeliverResults(r)
  PROVE  /\ SameRuns({r})
         /\ runs'[r].phase = IF runs[r].takes THEN "handover" ELSE "exited"
         /\ runs'[r].outcome = runs[r].outcome
         /\ runs'[r].takes = runs[r].takes
         /\ runs'[r].owed = {}
         /\ runs'[r].merged = runs[r].merged
<1> DEFINE ph == IF runs[r].takes THEN "handover" ELSE "exited"
           x == [runs[r] EXCEPT !.owed = {}, !.phase = ph]
<1>1. runs[r] \in RunType /\ runs \in Seq(RunType)
  BY RunsAreASequence DEF TypeOK
<1>2. x \in RunType
  BY <1>1 DEF RunType, Phases
<1>3. /\ x.phase = ph /\ x.outcome = runs[r].outcome /\ x.takes = runs[r].takes
      /\ x.owed = {} /\ x.merged = runs[r].merged
  BY <1>1 DEF RunType
<1>4. runs' = [runs EXCEPT ![r] = x]
  BY DEF DeliverResults
<1> HIDE DEF x
<1>5. SameRuns({r}) /\ runs'[r] = x
  BY <1>1, <1>2, <1>4, UpdateRun DEF SameRuns
<1>6. QED
  BY <1>3, <1>5

LEMMA ExitEffect ==
  ASSUME TypeOK, NEW r \in DOMAIN runs, runs' = ExitRun(r)
  PROVE  /\ SameRuns({r})
         /\ runs'[r].phase = "exited"
         /\ runs'[r].outcome = runs[r].outcome
         /\ runs'[r].owed = runs[r].owed
         /\ runs'[r].merged = {}
<1>1. runs[r] \in RunType
  BY RunsAreASequence DEF TypeOK
<1>2. QED
  BY <1>1, ExitRunType DEF SameRuns, RunType

LEMMA MergedStartEffect ==
  ASSUME TypeOK, NEW r \in DOMAIN runs, MergedStart(r)
  PROVE  /\ Len(runs') = Len(runs) + 1
         /\ DOMAIN runs' = 1..(Len(runs) + 1)
         /\ runs'[Len(runs) + 1] = NewRun(runs[r].merged)
         /\ \A i \in DOMAIN runs \ {r} : runs'[i] = runs[i]
         /\ runs'[r].phase = "exited"
         /\ runs'[r].outcome = runs[r].outcome
         /\ runs'[r].owed = runs[r].owed
         /\ runs'[r].merged = {}
<1>1. runs[r] \in RunType
  BY RunsAreASequence DEF TypeOK
<1>2. NewRun(runs[r].merged) \in RunType
  BY <1>1, NewRunType DEF RunType
<1>3. runs' = Append(ExitRun(r), NewRun(runs[r].merged))
  BY DEF MergedStart, StartRun
<1>4. /\ ExitRun(r) \in Seq(RunType)
      /\ Len(ExitRun(r)) = Len(runs)
      /\ DOMAIN ExitRun(r) = DOMAIN runs
      /\ \A i \in DOMAIN runs : i # r => ExitRun(r)[i] = runs[i]
      /\ ExitRun(r)[r] = [runs[r] EXCEPT !.phase = "exited", !.merged = {}]
  BY ExitRunType
<1>5. /\ Len(runs') = Len(runs) + 1
      /\ DOMAIN runs' = 1..(Len(runs) + 1)
      /\ runs'[Len(runs) + 1] = NewRun(runs[r].merged)
      /\ \A i \in DOMAIN runs : runs'[i] = ExitRun(r)[i]
  BY <1>2, <1>3, <1>4, AppendRun
<1>6. QED
  BY <1>1, <1>4, <1>5 DEF RunType

(***************************************************************************)
(* The lifecycle: what the states of the manager, of the task and of the   *)
(* Shutdown calls say of each other.                                       *)
(***************************************************************************)

Lifecycle ==
  /\ mgr = "NotStarted" => state = "NotStarted" /\ starter # "activating"
  /\ state = "NotStarted" => Len(runs) = 0
  /\ state \in {"Stopping", "Stopped"} => mgr \in {"Stopping", "Stopped"}
  /\ \A k \in Closers : closer[k] # "idle" => mgr \in {"Stopping", "Stopped"}
  /\ \A k \in Closers :
       closer[k] \in {"marking", "returning", "returned"} => mgr = "Stopped"
  /\ mgr = "Stopped" => AllExited

LEMMA LifecycleInit == Init => Lifecycle
BY DEF Init, Lifecycle, AllExited

\* A request leaves the manager alone, and only a running manager lets it through.
LEMMA LifecycleRequest ==
  ASSUME TypeOK, Lifecycle, NEW W \in SUBSET Calls, StartOrPend(W)
  PROVE  Lifecycle'
<1>1. mgr = "Running" /\ state \in {"Idle", "Running"} /\ UNCHANGED <<mgr, starter, closer>>
  BY DEF StartOrPend, Accepting, Gate
<1>2. state' \in {"Idle", "Running"}
  BY <1>1 DEF StartOrPend, StartRun
<1>3. QED
  BY <1>1, <1>2 DEF Lifecycle

LEMMA LifecycleNext == TypeOK /\ Lifecycle /\ [Next]_vars => Lifecycle'
<1> SUFFICES ASSUME TypeOK, Lifecycle, [Next]_vars PROVE Lifecycle'
  OBVIOUS
<1>a. /\ Len(runs) \in Nat
      /\ DOMAIN runs = 1..Len(runs)
  BY RunsAreASequence DEF TypeOK
<1>1. CASE MgrStart
  BY <1>1 DEF MgrStart, Lifecycle, AllExited, task
<1>2. CASE Activate
  BY <1>2 DEF Activate, Lifecycle, AllExited
<1>3. CASE Fire
  BY <1>3, LifecycleRequest DEF Fire
<1>4. ASSUME NEW c \in Calls, CallStep(c)
      PROVE  Lifecycle'
  <2>1. CASE AskAndWait(c)
    BY <2>1, LifecycleRequest DEF AskAndWait
  <2>2. CASE \/ \E err \in {"ErrNotRunning", "ErrClosed", "ErrSkipped"} : AskInVain(c, err)
             \/ Receive(c)
             \/ Abandon(c)
    <3>1. UNCHANGED <<mgr, state, runs, starter, closer>>
      BY <2>2 DEF AskInVain, Receive, Abandon, task
    <3>2. QED
      BY <3>1 DEF Lifecycle, AllExited
  <2>3. QED
    BY <1>4, <2>1, <2>2 DEF CallStep
<1>5. ASSUME NEW r \in DOMAIN runs, RunStep(r)
      PROVE  Lifecycle'
  <2>a. Len(runs) # 0 /\ state # "NotStarted" /\ mgr # "NotStarted"
    BY <1>a DEF Lifecycle
  <2>b. mgr # "Stopped" /\ UNCHANGED <<mgr, starter, closer>>
    <3>1. runs[r].phase # "exited"
      BY <1>5 DEF RunStep, FinishRun, SettleState, DeliverResults, StartMerged
    <3>2. UNCHANGED <<mgr, starter, closer>>
      BY <1>5 DEF RunStep, FinishRun, SettleState, DeliverResults, StartMerged, client
    <3>3. QED
      BY <3>1, <3>2 DEF Lifecycle, AllExited
  <2>1. state' # "NotStarted"
    BY <1>5, <2>a, <2>b DEF RunStep, FinishRun, SettleState, Settled, DeliverResults, StartMerged,
       MergedClosed, MergedStart, MergedBack, StartRun, task
  <2>2. state' \in {"Stopping", "Stopped"} => mgr \in {"Stopping", "Stopped"}
    BY <1>5, <2>a, <2>b DEF Lifecycle, RunStep, FinishRun, SettleState, Settled, DeliverResults,
       StartMerged, MergedClosed, MergedStart, MergedBack, StartRun, task
  <2>3. QED
    BY <2>a, <2>b, <2>1, <2>2 DEF Lifecycle
<1>6. ASSUME NEW k \in Closers, CloserStep(k)
      PROVE  Lifecycle'
  <2>1. CASE ShutdownBegin(k)
    BY <2>1, <1>a DEF ShutdownBegin, Lifecycle, AllExited, TypeOK, task
  <2>2. CASE DrainTask(k)
    BY <2>2 DEF DrainTask, Drain, Lifecycle, AllExited, TypeOK
  <2>3. CASE AnswerDrained(k)
    BY <2>3 DEF AnswerDrained, Lifecycle, AllExited, TypeOK, task
  <2>4. CASE ShutdownDone(k)
    BY <2>4 DEF ShutdownDone, Lifecycle, AllExited, TypeOK, task
  <2>5. CASE ShutdownTimeout(k)
    BY <2>5 DEF ShutdownTimeout, Lifecycle, AllExited, TypeOK, task
  <2>6. QED
    BY <1>6, <2>1, <2>2, <2>3, <2>4, <2>5 DEF CloserStep
<1>7. CASE UNCHANGED vars
  BY <1>7 DEF vars, task, Lifecycle, AllExited
<1>8. QED
  BY <1>1, <1>2, <1>3, <1>4, <1>5, <1>6, <1>7 DEF Next

(***************************************************************************)
(* Slots.  As far as they are concerned a step starts a run, finishes one  *)
(* or leaves them alone.                                                   *)
(***************************************************************************)

Counted == tally.ok + tally.fail + tally.canceled

Starts ==
  /\ mgr = "Running" /\ mgr' = mgr
  /\ running < Max
  /\ running' = running + 1
  /\ Len(runs') = Len(runs) + 1
  /\ Live' = Live \cup {Len(runs) + 1}
  /\ UNCHANGED tally

Finishes ==
  /\ running' = running - 1
  /\ Len(runs') = Len(runs)
  /\ \E r \in Live : Live' = Live \ {r}
  /\ Counted' = Counted + 1

KeepsSlots ==
  /\ Len(runs') = Len(runs)
  /\ Live' = Live
  /\ UNCHANGED <<running, tally>>

LEMMA KeepsSlotsWhenRunsKept ==
  ASSUME UNCHANGED <<runs, running, tally>>
  PROVE  KeepsSlots
BY DEF KeepsSlots, Live

LEMMA KeepsSlotsWhenOutsideLive ==
  ASSUME NEW r \in DOMAIN runs, SameRuns({r}), runs[r].phase # "fn", runs'[r].phase # "fn",
         UNCHANGED <<running, tally>>
  PROVE  KeepsSlots
BY DEF KeepsSlots, Live, SameRuns

LEMMA RequestOnSlots ==
  ASSUME TypeOK, NEW W \in SUBSET Calls, StartOrPend(W)
  PROVE  Starts \/ KeepsSlots
<1>a. /\ Len(runs) \in Nat
      /\ DOMAIN runs = 1..Len(runs)
  BY RunsAreASequence DEF TypeOK
<1>1. CASE running < Max /\ StartRun(runs, W)
  <2>1. Live' = Live \cup {Len(runs) + 1}
    <3>1. /\ DOMAIN runs' = 1..(Len(runs) + 1)
          /\ runs'[Len(runs) + 1] = NewRun(W)
          /\ \A i \in DOMAIN runs : runs'[i] = runs[i]
      BY <1>1, StartEffect
    <3>2. NewRun(W).phase = "fn"
      BY DEF NewRun
    <3>3. QED
      BY <1>a, <3>1, <3>2 DEF Live
  <2>2. QED
    BY <1>1, <2>1, StartEffect DEF StartOrPend, Accepting, Gate, StartRun, Starts
<1>2. CASE UNCHANGED <<state, running, runs>>
  BY <1>2, KeepsSlotsWhenRunsKept DEF StartOrPend
<1>3. QED
  BY <1>1, <1>2 DEF StartOrPend

LEMMA StepOnSlots ==
  ASSUME TypeOK, [Next]_vars
  PROVE  Starts \/ Finishes \/ KeepsSlots
<1>a. /\ Len(runs) \in Nat
      /\ DOMAIN runs = 1..Len(runs)
  BY RunsAreASequence DEF TypeOK
<1>1. CASE MgrStart \/ Activate
  BY <1>1, KeepsSlotsWhenRunsKept DEF MgrStart, Activate, task
<1>2. CASE Fire
  BY <1>2, RequestOnSlots DEF Fire
<1>3. ASSUME NEW c \in Calls, CallStep(c)
      PROVE  Starts \/ KeepsSlots
  <2>1. CASE AskAndWait(c)
    BY <2>1, RequestOnSlots DEF AskAndWait
  <2>2. CASE ~AskAndWait(c)
    BY <1>3, <2>2, KeepsSlotsWhenRunsKept DEF CallStep, AskInVain, Receive, Abandon, task
  <2>3. QED
    BY <2>1, <2>2
<1>4. ASSUME NEW r \in DOMAIN runs, RunStep(r)
      PROVE  Starts \/ Finishes \/ KeepsSlots
  <2>1. ASSUME NEW o \in Outcomes, FinishRun(r, o)
        PROVE  Finishes
    <3>1. r \in Live /\ Live' = Live \ {r} /\ Len(runs') = Len(runs)
      BY <2>1, FinishEffect DEF FinishRun, Live, SameRuns
    <3>2. Counted' = Counted + 1
      BY <2>1 DEF FinishRun, Count, Counted, TypeOK
    <3>3. QED
      BY <2>1, <3>1, <3>2 DEF FinishRun, Finishes
  <2>2. CASE SettleState(r)
    <3>1. SameRuns({r}) /\ runs[r].phase # "fn" /\ runs'[r].phase # "fn"
      BY <2>2, SettleEffect DEF SettleState
    <3>2. QED
      BY <2>2, <3>1, KeepsSlotsWhenOutsideLive DEF SettleState
  <2>3. CASE DeliverResults(r)
    <3>1. SameRuns({r}) /\ runs[r].phase # "fn" /\ runs'[r].phase # "fn"
      <4>1. runs[r].phase = "finished"
        BY <2>3 DEF DeliverResults
      <4>2. QED
        BY <2>3, <4>1, DeliverEffect
    <3>2. QED
      BY <2>3, <3>1, KeepsSlotsWhenOutsideLive DEF DeliverResults, task
  <2>4. CASE StartMerged(r)
    <3>a. runs[r].phase = "handover"
      BY <2>4 DEF StartMerged
    <3>1. CASE MergedClosed(r) \/ MergedBack(r)
      <4>1. SameRuns({r}) /\ runs'[r].phase # "fn"
        BY <3>1, ExitEffect DEF MergedClosed, MergedBack
      <4>2. QED
        BY <3>1, <3>a, <4>1, KeepsSlotsWhenOutsideLive DEF MergedClosed, MergedBack, task
    <3>2. CASE MergedStart(r)
      <4>1. Live' = Live \cup {Len(runs) + 1}
        <5>1. /\ DOMAIN runs' = 1..(Len(runs) + 1)
              /\ runs'[Len(runs) + 1] = NewRun(runs[r].merged)
              /\ \A i \in DOMAIN runs \ {r} : runs'[i] = runs[i]
              /\ runs'[r].phase = "exited"
          BY <3>2, MergedStartEffect
        <5>2. NewRun(runs[r].merged).phase = "fn"
          BY DEF NewRun
        <5>3. QED
          BY <1>a, <3>a, <5>1, <5>2 DEF Live
      <4>2. QED
        BY <2>4, <3>2, <4>1, MergedStartEffect
           DEF StartMerged, MergedStart, Accepting, Gate, StartRun, Starts
    <3>3. QED
      BY <2>4, <3>1, <3>2 DEF StartMerged
  <2>5. QED
    BY <1>4, <2>1, <2>2, <2>3, <2>4 DEF RunStep
<1>5. ASSUME NEW k \in Closers, CloserStep(k)
      PROVE  KeepsSlots
  BY <1>5, KeepsSlotsWhenRunsKept DEF CloserStep, ShutdownBegin, DrainTask, AnswerDrained,
     ShutdownDone, ShutdownTimeout, task
<1>6. CASE UNCHANGED vars
  BY <1>6, KeepsSlotsWhenRunsKept DEF vars, task
<1>7. QED
  BY <1>1, <1>2, <1>3, <1>4, <1>5, <1>6 DEF Next

LEMMA LiveIsFinite ==
  ASSUME TypeOK
  PROVE  /\ IsFiniteSet(Live)
         /\ Cardinality(Live) \in Nat
         /\ Len(runs) + 1 \notin Live
<1>1. Len(runs) \in Nat /\ DOMAIN runs = 1..Len(runs)
  BY RunsAreASequence DEF TypeOK
<1>2. Live \subseteq 1..Len(runs) /\ IsFiniteSet(1..Len(runs))
  BY <1>1, FS_Interval DEF Live
<1>3. IsFiniteSet(Live)
  BY <1>2, FS_Subset
<1>4. QED
  BY <1>1, <1>2, <1>3, FS_CardinalityType

LEMMA SlotInit == Init => SlotAccounting
<1> SUFFICES ASSUME Init PROVE SlotAccounting
  OBVIOUS
<1>1. Live = {} /\ Cardinality({}) = 0
  BY FS_EmptySet DEF Init, Live
<1>2. QED
  BY <1>1, ParamsAssumption DEF Init, SlotAccounting, runCount

LEMMA CountedSum ==
  ASSUME TypeOK
  PROVE  /\ Counted \in Nat
         /\ running + tally.ok + tally.fail + tally.canceled = running + Counted
BY DEF TypeOK, Counted

LEMMA SlotsKept ==
  ASSUME TypeOK, TypeOK', SlotAccounting, Starts \/ Finishes \/ KeepsSlots
  PROVE  SlotAccounting'
<1>a. Len(runs) \in Nat /\ Max \in Nat /\ running \in Int
  BY ParamsAssumption, RunsAreASequence DEF TypeOK
<1>b. IsFiniteSet(Live) /\ Cardinality(Live) \in Nat /\ Len(runs) + 1 \notin Live
  BY LiveIsFinite
<1>c. /\ Counted \in Nat
      /\ running + tally.ok + tally.fail + tally.canceled = running + Counted
      /\ (running + tally.ok + tally.fail + tally.canceled = running + Counted)'
  <2>1. (running + tally.ok + tally.fail + tally.canceled = running + Counted)'
    BY DEF TypeOK, Counted
  <2>2. QED
    BY <2>1, CountedSum
<1>d. Len(runs) = running + Counted
  BY <1>c DEF SlotAccounting, runCount
<1>e. SUFFICES /\ running' = Cardinality(Live') /\ running' <= Max
               /\ Len(runs') = running' + Counted'
  BY <1>c DEF SlotAccounting, runCount
<1>1. CASE Starts
  <2>1. Cardinality(Live') = Cardinality(Live) + 1
    BY <1>1, <1>b, FS_AddElement DEF Starts
  <2>2. Counted' = Counted
    BY <1>1 DEF Starts, Counted
  <2>3. QED
    BY <1>a, <1>b, <1>c, <1>d, <1>1, <2>1, <2>2 DEF SlotAccounting, Starts
<1>2. CASE Finishes
  <2>1. PICK r \in Live : Live' = Live \ {r}
    BY <1>2 DEF Finishes
  <2>2. Cardinality(Live') = Cardinality(Live) - 1
    BY <1>b, <2>1, FS_RemoveElement
  <2>3. QED
    BY <1>a, <1>b, <1>c, <1>d, <1>2, <2>2 DEF SlotAccounting, Finishes
<1>3. CASE KeepsSlots
  BY <1>3, <1>d DEF SlotAccounting, KeepsSlots, Counted
<1>4. QED
  BY <1>1, <1>2, <1>3

LEMMA SlotNext == TypeOK /\ SlotAccounting /\ [Next]_vars => SlotAccounting'
BY TypeNext, StepOnSlots, SlotsKept

\* tr.running never exceeds the limit and never drifts from the runs in progress, so that the clamp
\* in runOnce's deferred function never fires; every run is counted exactly once.
THEOREM SlotsAccounted == Spec => []SlotAccounting
<1>1. QED
  BY TypeCorrect, SlotInit, SlotNext, PTL DEF Spec

\* Nothing starts a run behind a Shutdown.
THEOREM NoLateRun == Spec => NoRunAfterShutdown
<1>1. TypeOK /\ [Next]_vars => (mgr \in {"Stopping", "Stopped"} => Len(runs') = Len(runs))
  BY StepOnSlots DEF Starts, Finishes, KeepsSlots
<1>2. TypeOK /\ [Next]_vars => [(mgr \in {"Stopping", "Stopped"}) => Len(runs') = Len(runs)]_vars
  BY <1>1
<1>3. QED
  BY <1>2, TypeCorrect, PTL DEF Spec, NoRunAfterShutdown

(***************************************************************************)
(* The pending run and the status.                                         *)
(***************************************************************************)

Base == TypeOK /\ Lifecycle /\ SlotAccounting

LEMMA BaseInvariant == Spec => []Base
<1>1. Init => Base
  BY TypeInit, LifecycleInit, SlotInit DEF Base
<1>2. Base /\ [Next]_vars => Base'
  BY TypeNext, LifecycleNext, SlotNext DEF Base
<1>3. QED
  BY <1>1, <1>2, PTL DEF Spec

LEMMA RunningIsCounted ==
  ASSUME Base
  PROVE  /\ running \in Nat
         /\ Max \in Nat \ {0}
         /\ Len(runs) = 0 => running = 0
<1>1. running \in Nat
  BY LiveIsFinite DEF Base, SlotAccounting
<1>2. Counted \in Nat /\ Len(runs) = running + Counted
  BY CountedSum DEF Base, SlotAccounting, runCount
<1>3. QED
  BY <1>1, <1>2, ParamsAssumption

\* A request that pends does so because the manager is running and every slot is taken.
LEMMA PendingRequest ==
  ASSUME Base, NoOrphanedPending, NEW W \in SUBSET Calls, StartOrPend(W)
  PROVE  NoOrphanedPending'
<1>a. mgr = "Running" /\ mgr' = mgr /\ closer' = closer
  BY DEF StartOrPend, Accepting, Gate
<1>b. \A k \in Closers : closer[k] # "stopping"
  BY <1>a DEF Base, Lifecycle
<1>1. CASE running < Max /\ UNCHANGED <<pending, pendingWaiters>>
  <2>1. ~pending
    BY <1>1, <1>a, <1>b, RunningIsCounted DEF NoOrphanedPending
  <2>2. QED
    BY <1>1, <2>1 DEF NoOrphanedPending
<1>2. CASE running >= Max /\ MergePending(W) /\ UNCHANGED <<state, running, runs>>
  <2>1. running = Max
    BY <1>2, RunningIsCounted DEF Base, SlotAccounting
  <2>2. QED
    BY <1>2, <1>a, <2>1 DEF MergePending, NoOrphanedPending
<1>3. QED
  BY <1>1, <1>2 DEF StartOrPend

LEMMA PendingNext == Base /\ NoOrphanedPending /\ [Next]_vars => NoOrphanedPending'
<1> SUFFICES ASSUME Base, NoOrphanedPending, [Next]_vars PROVE NoOrphanedPending'
  OBVIOUS
<1>a. closer \in [Closers -> {"idle", "stopping", "cancelling", "waiting", "marking",
                              "returning", "returned", "timedOut"}]
  BY DEF Base, TypeOK
<1>1. CASE MgrStart
  BY <1>1 DEF MgrStart, NoOrphanedPending, task
<1>2. CASE Activate
  BY <1>2 DEF Activate, NoOrphanedPending
<1>3. CASE Fire
  BY <1>3, PendingRequest DEF Fire
<1>4. ASSUME NEW c \in Calls, CallStep(c)
      PROVE  NoOrphanedPending'
  <2>1. CASE AskAndWait(c)
    BY <2>1, PendingRequest DEF AskAndWait
  <2>2. ASSUME NEW err \in {"ErrNotRunning", "ErrClosed", "ErrSkipped"}, AskInVain(c, err)
        PROVE  NoOrphanedPending'
    BY <2>2 DEF AskInVain, NoOrphanedPending, task
  <2>3. CASE Receive(c)
    BY <2>3 DEF Receive, NoOrphanedPending, task
  <2>4. CASE Abandon(c)
    BY <2>4 DEF Abandon, NoOrphanedPending
  <2>5. QED
    BY <1>4, <2>1, <2>2, <2>3, <2>4 DEF CallStep
<1>5. ASSUME NEW r \in DOMAIN runs, RunStep(r)
      PROVE  NoOrphanedPending'
  <2>1. ASSUME NEW o \in Outcomes, FinishRun(r, o)
        PROVE  NoOrphanedPending'
    <3>1. CASE TakesOver
      BY <2>1, <3>1 DEF FinishRun, NoOrphanedPending
    <3>2. CASE ~TakesOver
      <4>1. pending => \E k \in Closers : closer[k] = "stopping"
        BY <3>2, RunningIsCounted DEF TakesOver, NoOrphanedPending
      <4>2. QED
        BY <2>1, <3>2, <4>1 DEF FinishRun, NoOrphanedPending
    <3>3. QED
      BY <3>1, <3>2
  <2>2. CASE SettleState(r)
    BY <2>2 DEF SettleState, NoOrphanedPending
  <2>3. CASE DeliverResults(r)
    BY <2>3 DEF DeliverResults, NoOrphanedPending, task
  <2>4. CASE StartMerged(r)
    <3>1. CASE MergedClosed(r)
      BY <2>4, <3>1 DEF StartMerged, MergedClosed, NoOrphanedPending, task
    <3>2. CASE MergedStart(r)
      <4>1. ~pending
        BY <3>2, RunningIsCounted
           DEF MergedStart, Accepting, Gate, Base, Lifecycle, NoOrphanedPending
      <4>2. QED
        BY <3>2, <4>1 DEF MergedStart, NoOrphanedPending
    <3>3. CASE MergedBack(r)
      <4>1. running = Max /\ mgr = "Running"
        BY <3>3, RunningIsCounted DEF MergedBack, Accepting, Gate, Base, SlotAccounting
      <4>2. QED
        BY <2>4, <3>3, <4>1 DEF StartMerged, MergedBack, MergePending, NoOrphanedPending
    <3>4. QED
      BY <2>4, <3>1, <3>2, <3>3 DEF StartMerged
  <2>5. QED
    BY <1>5, <2>1, <2>2, <2>3, <2>4 DEF RunStep
<1>6. ASSUME NEW k \in Closers, CloserStep(k)
      PROVE  NoOrphanedPending'
  <2>1. CASE ShutdownBegin(k)
    <3>1. UNCHANGED <<running, pending, pendingWaiters>>
      BY <2>1 DEF ShutdownBegin, task
    <3>2. CASE mgr = "Running"
      BY <2>1, <3>1, <3>2, <1>a DEF ShutdownBegin, NoOrphanedPending
    <3>3. CASE mgr # "Running"
      <4>1. \A j \in Closers : closer[j] = "stopping" => closer'[j] = "stopping"
        BY <2>1, <1>a DEF ShutdownBegin
      <4>2. QED
        BY <3>1, <3>3, <4>1 DEF NoOrphanedPending
    <3>4. QED
      BY <3>2, <3>3
  <2>2. CASE DrainTask(k)
    BY <2>2 DEF DrainTask, Drain, NoOrphanedPending
  <2>3. CASE AnswerDrained(k)
    BY <2>3, <1>a DEF AnswerDrained, NoOrphanedPending, task
  <2>4. CASE ShutdownDone(k)
    <3>1. mgr # "Running"
      BY <2>4 DEF ShutdownDone, Base, Lifecycle
    <3>2. QED
      BY <2>4, <3>1, <1>a DEF ShutdownDone, NoOrphanedPending, task
  <2>5. CASE ShutdownTimeout(k)
    BY <2>5, <1>a DEF ShutdownTimeout, NoOrphanedPending, task
  <2>6. QED
    BY <1>6, <2>1, <2>2, <2>3, <2>4, <2>5 DEF CloserStep
<1>7. CASE UNCHANGED vars
  BY <1>7 DEF vars, task, NoOrphanedPending
<1>8. QED
  BY <1>1, <1>2, <1>3, <1>4, <1>5, <1>6, <1>7 DEF Next

\* Under OverlapMerge a pending run always has somebody to start it or to turn it away, whatever
\* the order of finishing runs, fresh triggers and Shutdown calls.
THEOREM PendingNeverOrphaned == Spec => []NoOrphanedPending
<1>1. Init => NoOrphanedPending
  BY DEF Init, NoOrphanedPending
<1>2. QED
  BY <1>1, BaseInvariant, PendingNext, PTL DEF Spec

LEMMA StatusNext == Base /\ StatusAgrees /\ [Next]_vars => StatusAgrees'
<1> SUFFICES ASSUME Base, StatusAgrees, [Next]_vars, mgr' = "Running", mu' = 0
             PROVE  state' = "Running" <=> running' > 0
  BY DEF StatusAgrees
<1>a. running \in Nat /\ (Len(runs) = 0 => running = 0)
  BY RunningIsCounted
<1>b. ASSUME NEW W \in SUBSET Calls, StartOrPend(W)
      PROVE  state' = "Running" <=> running' > 0
  BY <1>a, <1>b DEF StartOrPend, Accepting, Gate, StartRun, MergePending, StatusAgrees
<1>1. CASE MgrStart
  BY <1>1, <1>a DEF MgrStart, Base, Lifecycle, StatusAgrees, task
<1>2. CASE Activate
  BY <1>2, <1>a DEF Activate, Base, Lifecycle, StatusAgrees
<1>3. CASE Fire
  BY <1>3, <1>b DEF Fire
<1>4. ASSUME NEW c \in Calls, CallStep(c)
      PROVE  state' = "Running" <=> running' > 0
  <2>1. CASE AskAndWait(c)
    BY <2>1, <1>b DEF AskAndWait
  <2>2. CASE ~AskAndWait(c)
    BY <1>4, <2>2 DEF CallStep, AskInVain, Receive, Abandon, StatusAgrees, task
  <2>3. QED
    BY <2>1, <2>2
<1>5. ASSUME NEW r \in DOMAIN runs, RunStep(r)
      PROVE  state' = "Running" <=> running' > 0
  <2>1. ASSUME NEW o \in Outcomes, FinishRun(r, o)
        PROVE  FALSE
    <3>1. r # 0
      BY RunsAreASequence DEF Base, TypeOK
    <3>2. QED
      BY <2>1, <3>1 DEF FinishRun
  <2>2. CASE SettleState(r)
    BY <2>2 DEF SettleState, Settled
  <2>3. CASE DeliverResults(r)
    BY <2>3 DEF DeliverResults, StatusAgrees, task
  <2>4. CASE StartMerged(r)
    BY <2>4, <1>a DEF StartMerged, MergedClosed, MergedStart, MergedBack, StartRun, StatusAgrees, task
  <2>5. QED
    BY <1>5, <2>1, <2>2, <2>3, <2>4 DEF RunStep
<1>6. ASSUME NEW k \in Closers, CloserStep(k)
      PROVE  state' = "Running" <=> running' > 0
  <2>1. CASE DrainTask(k)
    <3>1. mgr # "Running" /\ mgr' = mgr
      BY <2>1 DEF DrainTask, Base, Lifecycle
    <3>2. QED
      BY <3>1
  <2>2. CASE ShutdownBegin(k) \/ AnswerDrained(k) \/ ShutdownDone(k) \/ ShutdownTimeout(k)
    <3>1. UNCHANGED task /\ mgr = "Running"
      BY <2>2 DEF ShutdownBegin, AnswerDrained, ShutdownDone, ShutdownTimeout
    <3>2. QED
      BY <3>1 DEF StatusAgrees, task
  <2>3. QED
    BY <1>6, <2>1, <2>2 DEF CloserStep
<1>7. CASE UNCHANGED vars
  BY <1>7 DEF vars, task, StatusAgrees
<1>8. QED
  BY <1>1, <1>2, <1>3, <1>4, <1>5, <1>6, <1>7 DEF Next

\* Status shows a task of a running manager as "running" exactly while it has runs in progress.
THEOREM StatusIsTrue == Spec => []StatusAgrees
<1>1. Init => StatusAgrees
  BY DEF Init, StatusAgrees
<1>2. QED
  BY <1>1, BaseInvariant, StatusNext, PTL DEF Spec

=============================================================================
