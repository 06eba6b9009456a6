------------------------------ MODULE Scheduler ------------------------------
(***************************************************************************)
(* An Every task: the runs and callers of TaskRuntime together with the    *)
(* scheduler goroutine.  In fixed-delay mode it waits after each tick for  *)
(* a completion it must not have missed; in fixed-rate mode it asks for a  *)
(* run at each tick and never waits.                                       *)
(*                                                                         *)
(* tr.doneCh is closed and replaced by every completion, so a channel is   *)
(* known by the number of completions before it was made: it is closed     *)
(* when more runs have completed since.  The time at which the timer fires *)
(* is left open: it may fire as soon as it is set, or much later.  TickGrid *)
(* has the times of a fixed rate.                                          *)
(***************************************************************************)
EXTENDS TaskRuntime

VARIABLES
  ctxDone, \* m.ctx is cancelled, by Shutdown or by the parent context
  sched,   \* the scheduler: "none", "spawning", "base", "snapshot", "select", "fired", "request",
           \* "await", "exited"
  watch,   \* the doneCh it holds
  every    \* how the task was configured: its mode, and whether it starts at once

allVars == <<vars, ctxDone, sched, watch, every>>

\* With a fixed delay, starting at once only moves the first timer, whose time is open anyway.
EveryConfigs ==
  {c \in [mode : {"EveryFixedDelay", "EveryFixedRate"}, startImmediately : BOOLEAN] :
     c.startImmediately => c.mode = "EveryFixedRate"}

FixedRate == every.mode = "EveryFixedRate"

\* rotateDoneChLocked has run once for each run past its critical section.
Completed == Cardinality({r \in DOMAIN runs : runs[r].phase \notin {"fn", "locked"}})

WatchClosed == watch < Completed

FDInit ==
  /\ Init
  /\ ctxDone = FALSE
  /\ sched = "none"
  /\ watch = 0
  /\ every \in EveryConfigs

-----------------------------------------------------------------------------
(* The rest of the task and of the manager *)

\* onManagerStart, then startSchedulerOnce outside the lock.
ActivateEvery ==
  /\ Activate
  /\ sched' = IF state = "NotStarted" THEN "spawning" ELSE sched
  /\ UNCHANGED <<ctxDone, watch, every>>

\* A fixed delay starts at once by its first timer, a fixed rate by a request of its own.
Spawn ==
  /\ sched = "spawning"
  /\ sched' = IF ~FixedRate THEN "snapshot" ELSE IF every.startImmediately THEN "base" ELSE "select"
  /\ UNCHANGED <<vars, ctxDone, watch, every>>

\* Shutdown cancels the context after the drained waiters have their answer.
AnswerAndCancel(k) ==
  /\ AnswerDrained(k)
  /\ ctxDone' = (ctxDone \/ closer[k] = "cancelling")
  /\ UNCHANGED <<sched, watch, every>>

\* m.wg counts the scheduler from its spawning on.
ShutdownDoneEvery(k) ==
  /\ sched \in {"none", "spawning", "exited"}
  /\ ShutdownDone(k)
  /\ UNCHANGED <<ctxDone, sched, watch, every>>

ShutdownStep(k) ==
  \/ DrainTask(k) /\ UNCHANGED <<ctxDone, sched, watch, every>>
  \/ AnswerAndCancel(k)
  \/ ShutdownDoneEvery(k)

TaskStep ==
  /\ \/ MgrStart
     \/ Fire
     \/ \E c \in Calls : CallStep(c)
     \/ \E r \in DOMAIN runs : RunStep(r)
     \/ \E k \in Closers : ShutdownBegin(k) \/ ShutdownTimeout(k)
  /\ UNCHANGED <<ctxDone, sched, watch, every>>

ParentCancel ==
  /\ mgr \in {"Running", "Stopping"}
  /\ ctxDone' = TRUE
  /\ UNCHANGED <<vars, sched, watch, every>>

-----------------------------------------------------------------------------
(* runSchedulerFixedDelay and runSchedulerFixedRate *)

\* doneChSnapshot: before the select, and again between the timer and the request.
Watch(from, to) ==
  /\ sched = from
  /\ mu = 0
  /\ watch' = Completed
  /\ sched' = to
  /\ UNCHANGED <<vars, ctxDone, every>>

Timer ==
  /\ sched = "select"
  /\ runCount < MaxFired
  /\ sched' = "fired"
  /\ UNCHANGED <<vars, ctxDone, watch, every>>

\* requestRun without a waiter; the scheduler ignores what it returns.
Tick(from, to) ==
  /\ sched = from
  /\ \/ StartOrPend({}) /\ UNCHANGED client
     \/ (\E err \in {"ErrNotRunning", "ErrClosed", "ErrSkipped"} : Refusal(err)) /\ UNCHANGED vars
  /\ sched' = to
  /\ UNCHANGED <<ctxDone, watch, every>>

\* A completion, of any run: the next time is computed from it and the loop comes around.
Completion ==
  /\ sched \in {"select", "await"}
  /\ WatchClosed
  /\ sched' = "snapshot"
  /\ UNCHANGED <<vars, ctxDone, watch, every>>

\* Mutant: the wait for a completion does not watch the context.
SchedulerStopAtSelect ==
  /\ sched = "select"
  /\ ctxDone
  /\ mu = 0
  /\ state' = "Stopping"
  /\ sched' = "exited"
  /\ UNCHANGED <<mgr, running, pending, pendingWaiters, tally, mu, runs, client, starter, closer,
                 held, ctxDone, watch, every>>

\* Mutant: a break that leaves the select and not the loop.
SchedulerBreak ==
  /\ sched \in {"select", "await"}
  /\ ctxDone
  /\ mu = 0
  /\ state' = "Stopping"
  /\ sched' = "snapshot"
  /\ UNCHANGED <<mgr, running, pending, pendingWaiters, tally, mu, runs, client, starter, closer,
                 held, ctxDone, watch, every>>

\* ctx.Done(): setStopping, and the goroutine ends.
SchedulerStop ==
  /\ sched \in {"select", "await"}
  /\ ctxDone
  /\ mu = 0
  /\ state' = "Stopping"
  /\ sched' = "exited"
  /\ UNCHANGED <<mgr, running, pending, pendingWaiters, tally, mu, runs, client, starter, closer,
                 held, ctxDone, watch, every>>

\* Mutant: the second snapshot is taken after the request instead of before it.
DelayStepSnapshotLate ==
  /\ ~FixedRate
  /\ \/ Watch("snapshot", "select")
     \/ Tick("fired", "request")
     \/ Watch("request", "await")
     \/ Completion

DelayStep ==
  /\ ~FixedRate
  /\ \/ Watch("snapshot", "select")
     \/ Watch("fired", "request")
     \/ Tick("request", "await")
     \/ Completion

RateStep ==
  /\ FixedRate
  /\ Tick("base", "select") \/ Tick("fired", "select")

SchedulerStep == Spawn \/ Timer \/ DelayStep \/ RateStep \/ SchedulerStop

FDNext ==
  \/ ActivateEvery
  \/ TaskStep
  \/ ParentCancel
  \/ SchedulerStep
  \/ \E k \in Closers : ShutdownStep(k)

FDSpec == FDInit /\ [][FDNext]_allVars

\* As in TaskRuntime; the scheduler goroutine and its timer make progress as well.  A select that
\* finds both the timer and the context ready takes one at random, so not the timer for ever.
FDFairSpec ==
  /\ FDSpec
  /\ WF_allVars(ActivateEvery)
  /\ WF_allVars(SchedulerStep)
  /\ SF_allVars(SchedulerStop)
  /\ \A r \in RunIds :
       WF_allVars(r \in DOMAIN runs /\ RunStep(r) /\ UNCHANGED <<ctxDone, sched, watch, every>>)
  /\ \A k \in Closers : WF_allVars(ShutdownStep(k))

-----------------------------------------------------------------------------
(* Properties *)

\* The scheduler never waits for a completion that has already been signalled: while the channel
\* it waits on is open and the manager runs, some run has yet to complete (runtime.go:631: "so we
\* never miss a fast completion (close+replace) and deadlock waiting").
CompletionNotMissed ==
  sched = "await" /\ ~WatchClosed /\ mgr = "Running" => running > 0 \/ mu # 0

\* Whatever the tick came to, started, merged, dropped or refused, the scheduler comes back to its
\* timer or ends: in fixed-delay mode it leaves its wait (runtime.go:636-651, 675-680).
TickEnds ==
  sched \in {"base", "fired", "request", "await"} ~> sched \in {"snapshot", "select", "exited"}

\* A cancelled context ends the scheduler, also one started late.
SchedulerEnds == (ctxDone /\ sched # "none") ~> sched = "exited"
=============================================================================
