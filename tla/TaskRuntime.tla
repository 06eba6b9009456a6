----------------------------- MODULE TaskRuntime -----------------------------
(***************************************************************************)
(* One registered task of rt/task: its run goroutines, its merged pending  *)
(* run and the callers waiting on TriggerAndWait, under a manager that is  *)
(* started once and shut down by any number of concurrent Shutdown calls.  *)
(*                                                                         *)
(* A step is what the code does under one acquisition of tr.mu (and of     *)
(* m.startMu, where a run start holds its read side).  The one section     *)
(* that reads m.state twice without startMu, the deferred function of      *)
(* runOnce, is two steps with the lock held in between (variable mu).      *)
(*                                                                         *)
(* Left out: hooks and error or panic handlers (they run on the goroutine  *)
(* of the run and touch no state), timestamps, names and tags.             *)
(***************************************************************************)
EXTENDS Integers, Sequences, FiniteSets

CONSTANTS Calls,    \* TriggerAndWait calls
          Closers,  \* Shutdown calls
          MaxFired, \* bound: requests without a waiter come only while fewer runs have started
          Max,      \* WithMaxConcurrent
          Overlap,  \* "Skip" or "Merge"
          Outcomes, \* what the task function may do, see AllOutcomes
          ReportContextCancel \* WithReportContextCancel

AllOutcomes == {"ok", "error", "cancel", "panic"}

ASSUME ParamsAssumption ==
  /\ MaxFired \in Nat
  /\ Max \in Nat \ {0}          \* newTaskRuntimeFromConfig panics otherwise
  /\ Overlap \in {"Skip", "Merge"}
  /\ Outcomes \subseteq AllOutcomes
  /\ ReportContextCancel \in BOOLEAN

VARIABLES
  mgr,            \* m.state
  state,          \* tr.state
  running,        \* tr.running
  pending,        \* tr.pending
  pendingWaiters, \* tr.pendingWaiters
  tally,          \* tr.successCount, tr.failCount, tr.canceledCount
  mu,             \* the run whose deferred function holds tr.mu, or 0
  runs,           \* the run goroutines ever started, in the order of their starts
  call,           \* where each call is
  answer,         \* what the call's channel holds, and after its return what it returned
  since,          \* history: number of runs started when a waiting call was accepted
  starter,        \* progress of Manager.Start
  closer,         \* progress of each Manager.Shutdown
  held            \* waiters a Shutdown has drained and not answered yet

task   == <<state, running, pending, pendingWaiters, tally, mu>>
client == <<call, answer, since>>
vars   == <<mgr, task, runs, client, starter, closer, held>>

NoAnswer == [kind |-> "none", run |-> 0]
Closed   == [kind |-> "ErrClosed", run |-> 0]

\* Len(runs) is tr.runCount: both grow by one in the same critical section.
runCount == Len(runs)

\* A run counts against Max until its deferred function has decremented tr.running.
Live == {r \in DOMAIN runs : runs[r].phase = "fn"}

\* Mutant: wg.Done is not deferred, and a panic skips it.
AllExitedUnlessPanicked ==
  \A r \in DOMAIN runs : runs[r].phase = "exited" /\ runs[r].outcome # "panic"

\* m.wg is zero: every run goroutine has returned.
AllExited == \A r \in DOMAIN runs : runs[r].phase = "exited"

Init ==
  /\ mgr = "NotStarted"
  /\ state = "NotStarted"
  /\ running = 0
  /\ pending = FALSE
  /\ pendingWaiters = {}
  /\ tally = [ok |-> 0, fail |-> 0, canceled |-> 0]
  /\ mu = 0
  /\ runs = <<>>
  /\ call = [c \in Calls |-> "idle"]
  /\ answer = [c \in Calls |-> NoAnswer]
  /\ since = [c \in Calls |-> 0]
  /\ starter = "idle"
  /\ closer = [k \in Closers |-> "idle"]
  /\ held = [k \in Closers |-> {}]

-----------------------------------------------------------------------------
(* Building blocks *)

\* A send on the one-slot channels of the waiters in S; a full or abandoned one keeps what it has.
Send(S, res) ==
  answer' = [c \in Calls |-> IF c \in S /\ call[c] = "waiting" /\ answer[c] = NoAnswer
                             THEN res ELSE answer[c]]

NewRun(waiters) ==
  [phase |-> "fn", outcome |-> "none", owed |-> waiters, takes |-> FALSE, merged |-> {}]

\* A goroutine joins the runs in rs; it will answer the waiters.
StartRun(rs, waiters) ==
  /\ runs' = Append(rs, NewRun(waiters))
  /\ running' = running + 1
  /\ state' = "Running"

MergePending(waiters) ==
  /\ pending' = TRUE
  /\ pendingWaiters' = pendingWaiters \cup waiters

Drain(s) ==
  /\ state' = s
  /\ pending' = FALSE
  /\ pendingWaiters' = {}

-----------------------------------------------------------------------------
(* Run requests *)

\* Mutant: the manager's state is not looked at under its lock.
GateOpen == mu = 0

\* requestRun got past the manager's state and holds tr.mu.
Gate == mgr = "Running" /\ mu = 0

Accepting == Gate /\ state \in {"Idle", "Running"}

StartOrPend(waiters) ==
  /\ Accepting
  /\ \/ /\ running < Max
        /\ StartRun(runs, waiters)
        /\ UNCHANGED <<pending, pendingWaiters>>
     \/ /\ running >= Max
        /\ Overlap = "Merge"
        /\ MergePending(waiters)
        /\ UNCHANGED <<state, running, runs>>
  /\ UNCHANGED <<mgr, tally, mu, starter, closer, held>>

\* The error of a request that is not accepted.
Refusal(err) ==
  \/ /\ err = "ErrNotRunning"
     /\ mgr = "NotStarted" \/ (Gate /\ state = "NotStarted")
  \/ /\ err = "ErrClosed"
     /\ mgr \in {"Stopping", "Stopped"} \/ (Gate /\ state \in {"Stopping", "Stopped"})
  \/ /\ err = "ErrSkipped"
     /\ Accepting /\ running >= Max /\ Overlap = "Skip"

\* Trigger, TryTrigger and the schedulers: no channel, so a refusal leaves no trace.
Fire ==
  /\ runCount < MaxFired
  /\ StartOrPend({})
  /\ UNCHANGED client

\* TriggerAndWait, up to the wait on its channel.
AskAndWait(c) ==
  /\ call[c] = "idle"
  /\ StartOrPend({c})
  /\ call' = [call EXCEPT ![c] = "waiting"]
  /\ since' = [since EXCEPT ![c] = runCount]
  /\ UNCHANGED answer

AskInVain(c, err) ==
  /\ call[c] = "idle"
  /\ Refusal(err)
  /\ call' = [call EXCEPT ![c] = "returned"]
  /\ answer' = [answer EXCEPT ![c] = [kind |-> err, run |-> 0]]
  /\ UNCHANGED <<mgr, task, runs, since, starter, closer, held>>

Receive(c) ==
  /\ call[c] = "waiting"
  /\ answer[c] # NoAnswer
  /\ call' = [call EXCEPT ![c] = "returned"]
  /\ UNCHANGED <<mgr, task, runs, answer, since, starter, closer, held>>

\* The select takes ctx.Done() even when a result has arrived: the result is then lost.
Abandon(c) ==
  /\ call[c] = "waiting"
  /\ mu = 0
  /\ call' = [call EXCEPT ![c] = "returned"]
  /\ answer' = [answer EXCEPT ![c] = [kind |-> "ctx", run |-> 0]]
  /\ pendingWaiters' = pendingWaiters \ {c}
  /\ UNCHANGED <<mgr, state, running, pending, tally, mu, runs, since, starter, closer, held>>

-----------------------------------------------------------------------------
(* The life of a run goroutine *)

\* shouldReportError hides a context cancellation unless asked to report it.
Filtered(o) == o = "cancel" /\ ~ReportContextCancel

\* Mutant: a filtered cancellation reaches the waiter as it is.
ResultUnfiltered(r) ==
  [kind |-> CASE runs[r].outcome = "panic" -> "ErrPanicked"
              [] runs[r].outcome = "ok" -> "nil"
              [] OTHER -> runs[r].outcome,
   run  |-> r]

Result(r) ==
  [kind |-> CASE runs[r].outcome = "panic" -> "ErrPanicked"
              [] runs[r].outcome = "ok" \/ Filtered(runs[r].outcome) -> "nil"
              [] OTHER -> "err",
   run  |-> r]

Count(o) ==
  tally' = IF Filtered(o) THEN [tally EXCEPT !.canceled = @ + 1]
           ELSE IF o = "ok" THEN [tally EXCEPT !.ok = @ + 1]
           ELSE [tally EXCEPT !.fail = @ + 1]

\* Mutant: the pending run is taken over only by the last run in progress.
TakesOverWhenLast == pending /\ running - 1 = 0 /\ mgr = "Running"

\* The first look at m.state: may the pending run start in the slot that is given back?
TakesOver == pending /\ running - 1 < Max /\ mgr = "Running"

\* The task function has returned or panicked; the deferred function takes tr.mu.
FinishRun(r, o) ==
  /\ runs[r].phase = "fn"
  /\ mu = 0
  /\ mu' = r
  /\ running' = running - 1   \* never below zero (SlotAccounting): the code's clamp does nothing
  /\ Count(o)
  /\ runs' = [runs EXCEPT ![r] =
                [@ EXCEPT !.phase = "locked", !.outcome = o, !.takes = TakesOver,
                          !.merged = IF TakesOver THEN pendingWaiters ELSE {}]]
  /\ pending' = IF TakesOver THEN FALSE ELSE pending
  /\ pendingWaiters' = IF TakesOver THEN {} ELSE pendingWaiters
  /\ UNCHANGED <<mgr, state, client, starter, closer, held>>

\* Mutant: a finished run leaves the task idle whether or not others are in progress.
SettledAlone ==
  CASE mgr = "Stopped" -> "Stopped"
    [] mgr = "Stopping" -> "Stopping"
    [] OTHER -> "Idle"

\* The second look at m.state.
Settled ==
  CASE mgr = "Stopped" -> "Stopped"
    [] mgr = "Stopping" -> "Stopping"
    [] OTHER -> IF running > 0 THEN "Running" ELSE "Idle"

\* Later in the same critical section; then tr.mu is released.
SettleState(r) ==
  /\ runs[r].phase = "locked"
  /\ mu' = 0
  /\ state' = Settled
  /\ runs' = [runs EXCEPT ![r] = [@ EXCEPT !.phase = "finished"]]
  /\ UNCHANGED <<mgr, running, pending, pendingWaiters, tally, client, starter, closer, held>>

\* Mutant: the waiters of the pending run get the result of the run that took them over.
DeliverToMerged(r) ==
  /\ runs[r].phase = "finished"
  /\ Send(runs[r].owed \cup runs[r].merged, Result(r))
  /\ runs' = [runs EXCEPT ![r] = [@ EXCEPT !.owed = {},
                                  !.phase = IF runs[r].takes THEN "handover" ELSE "exited"]]
  /\ UNCHANGED <<mgr, task, call, since, starter, closer, held>>

DeliverResults(r) ==
  /\ runs[r].phase = "finished"
  /\ Send(runs[r].owed, Result(r))
  /\ runs' = [runs EXCEPT ![r] = [@ EXCEPT !.owed = {},
                                  !.phase = IF runs[r].takes THEN "handover" ELSE "exited"]]
  /\ UNCHANGED <<mgr, task, call, since, starter, closer, held>>

ExitRun(r) == [runs EXCEPT ![r] = [@ EXCEPT !.phase = "exited", !.merged = {}]]

\* startMergedPending, with the waiters taken over in FinishRun.
MergedClosed(r) ==
  /\ \/ mgr # "Running"
     \/ Gate /\ state \in {"Stopping", "Stopped", "NotStarted"}
  /\ Send(runs[r].merged, Closed)
  /\ runs' = ExitRun(r)
  /\ UNCHANGED <<task, call, since>>

\* Mutant: the slot that was given back is taken for granted.
MergedStartUnchecked(r) ==
  /\ Accepting
  /\ StartRun(ExitRun(r), runs[r].merged)
  /\ UNCHANGED <<pending, pendingWaiters, tally, mu, client>>

MergedStart(r) ==
  /\ Accepting
  /\ running < Max
  /\ StartRun(ExitRun(r), runs[r].merged)
  /\ UNCHANGED <<pending, pendingWaiters, tally, mu, client>>

\* Mutant: the run is merged back without the waiters it had taken over.
MergedBackAlone(r) ==
  /\ Accepting
  /\ running >= Max
  /\ MergePending({})
  /\ runs' = ExitRun(r)
  /\ UNCHANGED <<state, running, tally, mu, client>>

\* Mutant: the waiters are turned away when a fresh trigger took the slot.
MergedBackRefused(r) ==
  /\ Accepting
  /\ running >= Max
  /\ Send(runs[r].merged, Closed)
  /\ runs' = ExitRun(r)
  /\ UNCHANGED <<task, call, since>>

\* A fresh trigger took the slot first: merge back.
MergedBack(r) ==
  /\ Accepting
  /\ running >= Max
  /\ MergePending(runs[r].merged)
  /\ runs' = ExitRun(r)
  /\ UNCHANGED <<state, running, tally, mu, client>>

StartMerged(r) ==
  /\ runs[r].phase = "handover"
  /\ MergedClosed(r) \/ MergedStart(r) \/ MergedBack(r)
  /\ UNCHANGED <<mgr, starter, closer, held>>

-----------------------------------------------------------------------------
(* The manager *)

MgrStart ==
  /\ starter = "idle"
  /\ starter' = IF mgr = "NotStarted" THEN "activating" ELSE "done"  \* or ErrAlreadyStarted
  /\ mgr' = IF mgr = "NotStarted" THEN "Running" ELSE mgr
  /\ UNCHANGED <<task, runs, client, closer, held>>

\* onManagerStart runs after startMu is released: calls and a Shutdown may come in between.
Activate ==
  /\ starter = "activating"
  /\ mu = 0
  /\ starter' = "done"
  /\ state' = IF state = "NotStarted" THEN "Idle" ELSE state
  /\ UNCHANGED <<mgr, running, pending, pendingWaiters, tally, mu, runs, client, closer, held>>

\* Mutant: a second Shutdown takes the stop in progress for a stop done.
ShutdownBeginOnce(k) ==
  /\ closer[k] = "idle"
  /\ mgr' = CASE mgr = "NotStarted" -> "Stopped"
              [] mgr = "Running" -> "Stopping"
              [] OTHER -> mgr
  /\ closer' = [closer EXCEPT ![k] = CASE mgr = "NotStarted" -> "marking"
                                       [] mgr = "Running" -> "stopping"
                                       [] OTHER -> "returned"]
  /\ UNCHANGED <<task, runs, client, starter, held>>

ShutdownBegin(k) ==
  /\ closer[k] = "idle"
  /\ mgr' = CASE mgr = "NotStarted" -> "Stopped"
              [] mgr = "Running" -> "Stopping"
              [] OTHER -> mgr
  /\ closer' = [closer EXCEPT ![k] = CASE mgr = "NotStarted" -> "marking"
                                       [] mgr = "Running" -> "stopping"
                                       [] mgr = "Stopping" -> "waiting"
                                       [] OTHER -> "returned"]
  /\ UNCHANGED <<task, runs, client, starter, held>>

\* Mutant: the drained waiters are dropped.
DrainForgetting(k) ==
  /\ mu = 0
  /\ \/ /\ closer[k] = "stopping"
        /\ Drain("Stopping")
        /\ closer' = [closer EXCEPT ![k] = "cancelling"]
     \/ /\ closer[k] = "marking"
        /\ Drain("Stopped")
        /\ closer' = [closer EXCEPT ![k] = "returning"]
  /\ UNCHANGED <<mgr, running, tally, mu, runs, client, starter, held>>

\* onManagerStopping and markStopped drain the waiters under tr.mu ...
DrainTask(k) ==
  /\ mu = 0
  /\ \/ /\ closer[k] = "stopping"
        /\ Drain("Stopping")
        /\ closer' = [closer EXCEPT ![k] = "cancelling"]
     \/ /\ closer[k] = "marking"
        /\ Drain("Stopped")
        /\ closer' = [closer EXCEPT ![k] = "returning"]
  /\ held' = [held EXCEPT ![k] = pendingWaiters]
  /\ UNCHANGED <<mgr, running, tally, mu, runs, client, starter>>

\* ... and answer them without it; Shutdown then cancels the context and waits, or returns nil.
AnswerDrained(k) ==
  /\ \/ closer[k] = "cancelling" /\ closer' = [closer EXCEPT ![k] = "waiting"]
     \/ closer[k] = "returning" /\ closer' = [closer EXCEPT ![k] = "returned"]
  /\ Send(held[k], Closed)
  /\ held' = [held EXCEPT ![k] = {}]
  /\ UNCHANGED <<mgr, task, runs, call, since, starter>>

ShutdownDone(k) ==
  /\ closer[k] = "waiting"
  /\ AllExited
  /\ mgr' = "Stopped"
  /\ closer' = [closer EXCEPT ![k] = "marking"]
  /\ UNCHANGED <<task, runs, client, starter, held>>

ShutdownTimeout(k) ==
  /\ closer[k] = "waiting"
  /\ closer' = [closer EXCEPT ![k] = "timedOut"]
  /\ UNCHANGED <<mgr, task, runs, client, starter, held>>

-----------------------------------------------------------------------------

RunStep(r) ==
  \/ \E o \in Outcomes : FinishRun(r, o)
  \/ SettleState(r)
  \/ DeliverResults(r)
  \/ StartMerged(r)

CallStep(c) ==
  \/ AskAndWait(c)
  \/ \E err \in {"ErrNotRunning", "ErrClosed", "ErrSkipped"} : AskInVain(c, err)
  \/ Receive(c)
  \/ Abandon(c)

CloserStep(k) ==
  \/ ShutdownBegin(k)
  \/ DrainTask(k)
  \/ AnswerDrained(k)
  \/ ShutdownDone(k)
  \/ ShutdownTimeout(k)

Next ==
  \/ MgrStart
  \/ Activate
  \/ Fire
  \/ \E c \in Calls : CallStep(c)
  \/ \E r \in DOMAIN runs : RunStep(r)
  \/ \E k \in Closers : CloserStep(k)

Spec == Init /\ [][Next]_vars

(* Fairness: goroutines that can move do, the task function returns, and a caller that has its
   result takes it.  Nobody has to make a call, give up on one, start or shut down.           *)
RunIds == 1..(MaxFired + Cardinality(Calls) + 1)   \* no more runs than that can start

FairSpec ==
  /\ Spec
  /\ WF_vars(Activate)
  /\ \A r \in RunIds : WF_vars(r \in DOMAIN runs /\ RunStep(r))
  /\ \A c \in Calls : WF_vars(Receive(c))
  /\ \A k \in Closers : WF_vars(DrainTask(k) \/ AnswerDrained(k) \/ ShutdownDone(k))

-----------------------------------------------------------------------------
(* Properties *)

Phases  == {"fn", "locked", "finished", "handover", "exited"}
RunType == [phase : Phases, outcome : Outcomes \cup {"none"}, owed : SUBSET Calls,
            takes : BOOLEAN, merged : SUBSET Calls]
AnswerKinds == {"none", "nil", "err", "ctx",
                "ErrPanicked", "ErrClosed", "ErrNotRunning", "ErrSkipped"}

\* Every variable keeps its type.
TypeOK ==
  /\ mgr \in {"NotStarted", "Running", "Stopping", "Stopped"}
  /\ state \in {"NotStarted", "Idle", "Running", "Stopping", "Stopped"}
  /\ running \in Int
  /\ pending \in BOOLEAN
  /\ pendingWaiters \in SUBSET Calls
  /\ tally \in [ok : Nat, fail : Nat, canceled : Nat]
  /\ mu \in Nat
  /\ runs \in Seq(RunType)
  /\ call \in [Calls -> {"idle", "waiting", "returned"}]
  /\ answer \in [Calls -> [kind : AnswerKinds, run : Nat]]
  /\ since \in [Calls -> Nat]
  /\ starter \in {"idle", "activating", "done"}
  /\ closer \in [Closers -> {"idle", "stopping", "cancelling", "waiting", "marking",
                             "returning", "returned", "timedOut"}]
  /\ held \in [Closers -> SUBSET Calls]

\* tr.running is the number of runs in progress, never more than WithMaxConcurrent allows, and
\* every run started is either in progress or counted once as success, failure or cancellation.
SlotAccounting ==
  /\ running = Cardinality(Live)
  /\ running <= Max
  /\ runCount = running + tally.ok + tally.fail + tally.canceled

\* A pending run is never forgotten: either all slots are busy, so that a run that is still to
\* finish will take it over, or a Shutdown is about to drain it.  Only a pending run has waiters.
NoOrphanedPending ==
  /\ pending => \/ mgr = "Running" /\ running = Max
                \/ \E k \in Closers : closer[k] = "stopping"
  /\ pendingWaiters # {} => pending

Owners(c) ==
  {<<"run", r>> : r \in {i \in DOMAIN runs : c \in runs[i].owed}}
    \cup {<<"merged", r>> : r \in {i \in DOMAIN runs : c \in runs[i].merged}}
    \cup {<<"shutdown", k>> : k \in {i \in Closers : c \in held[i]}}
    \cup (IF c \in pendingWaiters THEN {<<"pending", 0>>} ELSE {})

\* A TriggerAndWait that has no result yet is owed one by exactly one party: a run, a finished run
\* that took it over, the pending run, or a Shutdown.  None is lost and none is answered twice.
OneOwner ==
  \A c \in Calls : call[c] = "waiting" =>
    IF answer[c] = NoAnswer THEN \E o \in Owners(c) : Owners(c) = {o} ELSE Owners(c) = {}

\* A result comes from a run that started after the request (TestOverlapMerge_TriggerAndWaitWaits-
\* ForMergedRun), and ErrClosed is only ever the answer once a Shutdown has begun.
FreshResult ==
  \A c \in Calls :
    /\ answer[c].run # 0 => answer[c].run > since[c] /\ answer[c].run <= runCount
    /\ answer[c].kind = "ErrClosed" => mgr \in {"Stopping", "Stopped"}

\* No run starts once Shutdown has begun, not even the merged one of a run that finishes then.
NoRunAfterShutdown == [][(mgr \in {"Stopping", "Stopped"}) => (Len(runs') = Len(runs))]_vars

\* Once a Shutdown has returned nil every run goroutine has ended, and every TriggerAndWait has its
\* result or is about to be turned away by another Shutdown still on its way: one that found the
\* manager "stopped" returns before the one that stopped it has marked the task.
QuietAfterShutdown ==
  (\E k \in Closers : closer[k] = "returned") =>
    /\ AllExited
    /\ pending => \E k \in Closers : closer[k] \in {"stopping", "marking"}
    /\ \A c \in Calls : call[c] = "waiting" =>
         answer[c] # NoAnswer \/ c \in pendingWaiters \/ \E k \in Closers : c \in held[k]

\* A status read between two critical sections shows "running" exactly while runs are in progress.
StatusAgrees == mgr = "Running" /\ mu = 0 => (state = "Running" <=> running > 0)

\* Every TriggerAndWait returns, if the task function does.
EveryWaiterReturns == \A c \in Calls : call[c] = "waiting" ~> call[c] = "returned"

\* Every Shutdown returns, with nil or with its context's error.
EveryShutdownReturns ==
  \A k \in Closers : closer[k] # "idle" ~> closer[k] \in {"returned", "timedOut"}

-----------------------------------------------------------------------------
(* The contract it implements *)

\* What each run has to answer, once its function has returned.
RunResults ==
  [r \in DOMAIN runs |-> IF runs[r].outcome = "none" THEN "running" ELSE Result(r).kind]

Contract == INSTANCE TriggerContract
              WITH closed <- mgr \in {"Stopping", "Stopped"},
                   results <- RunResults,
                   Kinds <- {"nil", "err", "ErrPanicked"}

\* Callers see what TriggerContract promises, whatever is merged, handed over or drained.
ContractSpec == Contract!Spec

\* When every Shutdown that began has ended, one of them with nil, the task reports "stopped"
\* (manager.go:155: "Shutdown is safe to call multiple times", :212: "Mark tasks as stopped").
StoppedAfterShutdown ==
  /\ \E k \in Closers : closer[k] = "returned"
  /\ \A k \in Closers : closer[k] \in {"idle", "returned", "timedOut"}
  => state = "Stopped"

=============================================================================
