------------------------------- MODULE Service -------------------------------
(***************************************************************************)
(* The lifecycle of a Service: Start (hooks, tasks, servers, in order),    *)
(* Run, Wait, Shutdown, the servers' own failures and the one doShutdown   *)
(* that whoever comes first starts.  Steps are the critical sections of    *)
(* s.mu, the calls that block and the hooks.                               *)
(*                                                                         *)
(* net/http is external.  A server told to shut down accepts nothing more  *)
(* and its Shutdown waits for its requests, or fails when the context ends *)
(* first; Close then closes connections and returns at once, and the       *)
(* handlers go on.  Serve on such a server returns ErrServerClosed, also   *)
(* when it is called later.  The task manager is reduced to its state and  *)
(* to whether a run is active; TaskManager has the rest.                   *)
(***************************************************************************)
EXTENDS Integers, FiniteSets, ServiceAssembly

CONSTANTS Specs,       \* the ServiceSpecs tried
          StartHooks,  \* how many OnStart hooks
          StopHooks,   \* how many OnShutdown hooks
          Starters,    \* Start or Run calls
          Runners,     \* those that are Run calls
          Stoppers,    \* Shutdown calls
          MaxRequests, \* bound on the requests in flight at a time
          NoErr

ASSUME ServiceAssumption ==
  /\ StartHooks \in Nat /\ StopHooks \in Nat
  /\ Runners \subseteq Starters
  /\ NoErr \notin {"hook", "tasks", "listen", "serve", "ctx"}  \* nil is no error
  /\ \A sp \in Specs : ~Refused(sp)

VARIABLES
  service,     \* what the service was assembled to
  caller,      \* progress of each Start or Run call, and of the Wait after it
  at,          \* the hook or server Start is at
  parentDone,  \* the context given to Start is cancelled
  signalled,   \* an OS signal was delivered
  stopper,     \* progress of each Shutdown call
  srv,         \* of each server: "off", "bound", "serving", "exited", "closed"
  requests,    \* servers with a request whose handler has not returned
  exit,        \* progress of onServeExit for a server that failed
  listeners,   \* s.listeners
  stopping,    \* s.stopping
  closer,      \* progress of doShutdown; "none" until shutdownOnce
  hook,        \* the OnShutdown hook doShutdown is at
  snapshot,    \* the listeners doShutdown has copied
  drain,       \* of each server: "no", "draining", "drained"
  expired,     \* the shutdown's context has timed out
  mgr,         \* the state of each task manager
  run,         \* the managed one has a run in progress
  primaryErr, stopErrs, waitErr  \* s.primaryErr, errs of doShutdown, s.waitErr

starting == <<caller, at, parentDone, signalled>>
serving  == <<srv, requests, exit, listeners>>
closing  == <<stopping, closer, hook, snapshot, drain, expired>>
tasks    == <<mgr, run>>
errors   == <<primaryErr, stopErrs, waitErr>>
vars == <<service, starting, stopper, serving, closing, tasks, errors>>

Servers     == DOMAIN service.critical
Critical(i) == service.critical[i]
Admin       == service.admin
Manager     == service.manager
Managers    == {"service", "admin", "created"}

\* The state of the manager the service manages, if it manages one.
MgrState == IF Manager = "none" THEN "none" ELSE mgr[Manager]

Init ==
  /\ service \in {Assembled(sp) : sp \in Specs}
  /\ caller = [c \in Starters |-> "idle"]
  /\ at = 1
  /\ parentDone = FALSE
  /\ signalled = FALSE
  /\ stopper = [c \in Stoppers |-> "idle"]
  /\ srv = [i \in Servers |-> "off"]
  /\ requests = {}
  /\ exit = [i \in Servers |-> "none"]
  /\ listeners = {}
  /\ stopping = FALSE
  /\ closer = "none"
  /\ hook = 1
  /\ snapshot = {}
  /\ drain = [i \in Servers |-> "no"]
  /\ expired = FALSE
  /\ mgr = [m \in Managers |-> "NotStarted"]
  /\ run = FALSE
  /\ primaryErr = NoErr
  /\ stopErrs = {}
  /\ waitErr = [primary |-> NoErr, stop |-> {}]

Started == \E c \in Starters : caller[c] \notin {"idle", "refused"}
Done    == closer = "over"

\* What doShutdown collects: who failed, and which of them.
ServerErr(i) == <<"server", i>>
TasksErr     == <<"tasks", 0>>
HookErr(n)   == <<"hook", n>>

\* recordPrimary: the first error stays.
RecordPrimary(e) == primaryErr' = IF primaryErr = NoErr THEN e ELSE primaryErr

\* initiateShutdown: the first call starts doShutdown, the others do nothing.
InitiateShutdown == closer' = IF closer = "none" THEN "begun" ELSE closer

-----------------------------------------------------------------------------
(* Start *)

Goes(c, from, to) == caller[c] = from /\ caller' = [caller EXCEPT ![c] = to]

StartBegins(c) ==
  /\ Goes(c, "idle", IF Started THEN "refused" ELSE "hooks")
  /\ UNCHANGED <<service, at, parentDone, signalled, stopper, serving, closing, tasks, errors>>

\* An OnStart hook returns nil; after the last one come the tasks.
StartHookReturns(c) ==
  /\ caller[c] = "hooks" /\ at <= StartHooks
  /\ at' = at + 1
  /\ UNCHANGED <<service, caller, parentDone, signalled, stopper, serving, closing, tasks, errors>>

\* An OnStart hook returns an error or panics.
StartHookFails(c) ==
  /\ at <= StartHooks
  /\ Goes(c, "hooks", "failing")
  /\ RecordPrimary("hook")
  /\ UNCHANGED <<service, at, parentDone, signalled, stopper, serving, closing, tasks, stopErrs, waitErr>>

\* The manager starts, or refuses when it has been started or stopped before.
StartTasks(c) ==
  /\ at > StartHooks
  /\ \/ /\ MgrState = "none"
        /\ Goes(c, "hooks", "servers")
        /\ UNCHANGED <<mgr, primaryErr>>
     \/ /\ MgrState = "NotStarted"
        /\ Goes(c, "hooks", "servers")
        /\ mgr' = [mgr EXCEPT ![Manager] = "Running"]
        /\ UNCHANGED primaryErr
     \/ /\ MgrState \notin {"none", "NotStarted"}
        /\ Goes(c, "hooks", "failing")
        /\ RecordPrimary("tasks")
        /\ UNCHANGED mgr
  /\ at' = 1
  /\ UNCHANGED <<service, parentDone, signalled, stopper, serving, closing, run, stopErrs, waitErr>>

\* startOneServer: listen, record the listener, leave Serve to a goroutine.
BindServer(c) ==
  /\ caller[c] = "servers" /\ at \in Servers
  /\ srv' = [srv EXCEPT ![at] = "bound"]
  /\ listeners' = listeners \cup {at}
  /\ at' = at + 1
  /\ UNCHANGED <<service, caller, parentDone, signalled, stopper, requests, exit, closing, tasks, errors>>

ListenFails(c) ==
  /\ at \in Servers
  /\ Goes(c, "servers", "failing")
  /\ RecordPrimary("listen")
  /\ UNCHANGED <<service, at, parentDone, signalled, stopper, serving, closing, tasks, stopErrs, waitErr>>

StartFails(c) ==
  /\ Goes(c, "failing", "failed")
  /\ InitiateShutdown
  /\ UNCHANGED <<service, at, parentDone, signalled, stopper, serving, stopping, hook, snapshot, drain, expired, tasks, errors>>

StartReturns(c) ==
  /\ at \notin Servers
  /\ Goes(c, "servers", IF c \in Runners THEN "selecting" ELSE "started")
  /\ UNCHANGED <<service, at, parentDone, signalled, stopper, serving, closing, tasks, errors>>

-----------------------------------------------------------------------------
(* Run and Wait *)

\* The context given to Run is cancelled, or an OS signal arrives, which is seen from Run's select;
\* it takes one of its ready cases, so that one of them at most is enough.
CancelParent ==
  /\ \E c \in Runners : caller[c] = "selecting"
  /\ ~parentDone /\ ~signalled
  /\ parentDone' = TRUE
  /\ UNCHANGED <<service, caller, at, signalled, stopper, serving, closing, tasks, errors>>

Signal ==
  /\ \E c \in Runners : caller[c] = "selecting"
  /\ ~parentDone /\ ~signalled
  /\ signalled' = TRUE
  /\ UNCHANGED <<service, caller, at, parentDone, stopper, serving, closing, tasks, errors>>

\* Run's select: whichever of the ready cases.
RunSeesDone(c) ==
  /\ Done
  /\ Goes(c, "selecting", "started")
  /\ UNCHANGED <<service, at, parentDone, signalled, stopper, serving, closing, tasks, errors>>

RunSeesCancel(c) ==
  /\ parentDone
  /\ Goes(c, "selecting", "stopping")
  /\ RecordPrimary("ctx")
  /\ UNCHANGED <<service, at, parentDone, signalled, stopper, serving, closing, tasks, stopErrs, waitErr>>

RunSeesSignal(c) ==
  /\ signalled
  /\ Goes(c, "selecting", "stopping")
  /\ UNCHANGED <<service, at, parentDone, signalled, stopper, serving, closing, tasks, errors>>

\* Run calls Shutdown with the background context and then waits like any caller of Wait.
RunStops(c) ==
  /\ Goes(c, "stopping", "started")
  /\ InitiateShutdown
  /\ UNCHANGED <<service, at, parentDone, signalled, stopper, serving, stopping, hook, snapshot, drain, expired, tasks, errors>>

\* Wait returns s.waitErr once doneCh is closed.
WaitReturns(c) ==
  /\ Done
  /\ \E from \in {"started", "failed"} : Goes(c, from, "over")
  /\ UNCHANGED <<service, at, parentDone, signalled, stopper, serving, closing, tasks, errors>>

-----------------------------------------------------------------------------
(* Shutdown *)

\* Before Start it returns nil at once.
ShutdownCalled(c) ==
  /\ stopper[c] = "idle"
  /\ stopper' = [stopper EXCEPT ![c] = IF Started THEN "waiting" ELSE "early"]
  /\ IF Started THEN InitiateShutdown ELSE UNCHANGED closer
  /\ UNCHANGED <<service, starting, serving, stopping, hook, snapshot, drain, expired, tasks, errors>>

\* It waits for shutdownCh, or for its own context.
ShutdownReturns(c) ==
  /\ stopper[c] = "waiting"
  /\ \E r \in {"ctxErr"} \cup (IF Done THEN {"returned"} ELSE {}) :
       stopper' = [stopper EXCEPT ![c] = r]
  /\ UNCHANGED <<service, starting, serving, closing, tasks, errors>>

-----------------------------------------------------------------------------
(* Servers *)

\* The goroutine of startOneServer reaches Serve.
Serve(i) ==
  /\ srv[i] = "bound"
  /\ srv' = [srv EXCEPT ![i] = IF drain[i] # "no" THEN "closed" ELSE "serving"]
  /\ UNCHANGED <<service, starting, stopper, requests, exit, listeners, closing, tasks, errors>>

RequestBegins(i) ==
  /\ srv[i] = "serving" /\ i \notin requests /\ Cardinality(requests) < MaxRequests
  /\ requests' = requests \cup {i}
  /\ UNCHANGED <<service, starting, stopper, srv, exit, listeners, closing, tasks, errors>>

RequestEnds(i) ==
  /\ i \in requests
  /\ requests' = requests \ {i}
  /\ UNCHANGED <<service, starting, stopper, srv, exit, listeners, closing, tasks, errors>>

\* Serve returns an error of its own.
ServeFails(i) ==
  /\ srv[i] = "serving"
  /\ srv' = [srv EXCEPT ![i] = "exited"]
  /\ exit' = [exit EXCEPT ![i] = "exited"]
  /\ UNCHANGED <<service, starting, stopper, requests, listeners, closing, tasks, errors>>

\* Mutant: the error of a critical server is not recorded.
ServeExitChecksUnrecorded(i) ==
  /\ exit[i] = "exited"
  /\ exit' = [exit EXCEPT ![i] = IF ~stopping /\ Critical(i) THEN "initiating" ELSE "over"]
  /\ UNCHANGED <<service, starting, stopper, srv, requests, listeners, closing, tasks, errors>>

\* onServeExit looks at s.stopping once: a failure during shutdown is no failure, and that of a
\* server that is not critical is only told to a callback.
ServeExitChecks(i) ==
  /\ exit[i] = "exited"
  /\ exit' = [exit EXCEPT ![i] = IF ~stopping /\ Critical(i) THEN "recording" ELSE "over"]
  /\ UNCHANGED <<service, starting, stopper, srv, requests, listeners, closing, tasks, errors>>

ServeExitRecords(i) ==
  /\ exit[i] = "recording"
  /\ exit' = [exit EXCEPT ![i] = "initiating"]
  /\ RecordPrimary("serve")
  /\ UNCHANGED <<service, starting, stopper, srv, requests, listeners, closing, tasks, stopErrs, waitErr>>

ServeExitInitiates(i) ==
  /\ exit[i] = "initiating"
  /\ exit' = [exit EXCEPT ![i] = "over"]
  /\ InitiateShutdown
  /\ UNCHANGED <<service, starting, stopper, srv, requests, listeners,
                 stopping, hook, snapshot, drain, expired, tasks, errors>>

-----------------------------------------------------------------------------
(* doShutdown *)

\* Mutant: every server is shut down, whether it has bound or not.
SnapshotAll ==
  /\ closer = "begun"
  /\ stopping' = TRUE
  /\ snapshot' = Servers
  /\ closer' = "servers"
  /\ UNCHANGED <<service, starting, stopper, serving, hook, drain, expired, tasks, errors>>

\* It marks the service as stopping, copies the listeners and cancels startCtx.
Snapshot ==
  /\ closer = "begun"
  /\ stopping' = TRUE
  /\ snapshot' = listeners
  /\ closer' = "servers"
  /\ UNCHANGED <<service, starting, stopper, serving, hook, drain, expired, tasks, errors>>

Expire ==
  /\ closer \in {"servers", "tasks", "tasksWait", "hooks", "admin"}
  /\ ~expired
  /\ expired' = TRUE
  /\ UNCHANGED <<service, starting, stopper, serving, stopping, closer, hook, snapshot, drain, tasks, errors>>

\* The servers a step of doShutdown shuts down: all but the standalone admin in parallel, it last.
ToDrain == snapshot \cap (IF closer = "servers" THEN Servers \ {Admin}
                          ELSE IF closer = "admin" THEN {Admin} ELSE {})

DrainBegins(i) ==
  /\ i \in ToDrain /\ drain[i] = "no"
  /\ drain' = [drain EXCEPT ![i] = "draining"]
  /\ srv' = [srv EXCEPT ![i] = IF @ = "serving" THEN "closed" ELSE @]
  /\ UNCHANGED <<service, starting, stopper, requests, exit, listeners, stopping, closer, hook, snapshot, expired, tasks, errors>>

\* Mutant: the error of a Shutdown that timed out is dropped.
DrainEndsSilently(i) ==
  /\ drain[i] = "draining"
  /\ i \notin requests \/ expired
  /\ drain' = [drain EXCEPT ![i] = "drained"]
  /\ UNCHANGED <<service, starting, stopper, serving, stopping, closer, hook, snapshot, expired, tasks, errors>>

\* Its requests are over, or the context is: then its connections are closed by force, which ends
\* no handler, and the error is kept.
DrainEnds(i) ==
  /\ drain[i] = "draining"
  /\ \/ i \notin requests /\ UNCHANGED stopErrs
     \/ expired /\ stopErrs' = stopErrs \cup {ServerErr(i)}
  /\ drain' = [drain EXCEPT ![i] = "drained"]
  /\ UNCHANGED <<service, starting, stopper, serving, stopping, closer, hook, snapshot, expired, tasks,
                 primaryErr, waitErr>>

ServersDrained ==
  /\ closer = "servers"
  /\ \A i \in ToDrain : drain[i] = "drained"
  /\ closer' = "tasks"
  /\ UNCHANGED <<service, starting, stopper, serving, stopping, hook, snapshot, drain, expired, tasks, errors>>

\* Mutant: a manager that was never started is left alone.
StopTasksIfRunning ==
  /\ closer = "tasks"
  /\ \/ /\ MgrState # "Running"
        /\ closer' = "hooks"
        /\ UNCHANGED mgr
     \/ /\ MgrState = "Running"
        /\ closer' = "tasksWait"
        /\ mgr' = [mgr EXCEPT ![Manager] = "Stopping"]
  /\ UNCHANGED <<service, starting, stopper, serving, stopping, hook, snapshot, drain, expired, run, errors>>

\* TaskManager.Shutdown: a manager never started is stopped at once, a running one refuses runs.
StopTasks ==
  /\ closer = "tasks"
  /\ \/ /\ MgrState \in {"none", "Stopped"}
        /\ closer' = "hooks"
        /\ UNCHANGED mgr
     \/ /\ MgrState = "NotStarted"
        /\ closer' = "hooks"
        /\ mgr' = [mgr EXCEPT ![Manager] = "Stopped"]
     \/ /\ MgrState = "Running"
        /\ closer' = "tasksWait"
        /\ mgr' = [mgr EXCEPT ![Manager] = "Stopping"]
  /\ UNCHANGED <<service, starting, stopper, serving, stopping, hook, snapshot, drain, expired, run, errors>>

\* Mutant: the task manager is given a context without a timeout.
TasksStoppedUntimed ==
  /\ closer = "tasksWait"
  /\ closer' = "hooks"
  /\ ~run /\ mgr' = [mgr EXCEPT ![Manager] = "Stopped"]
  /\ UNCHANGED <<service, starting, stopper, serving, stopping, hook, snapshot, drain, expired, run, errors>>

TasksStopped ==
  /\ closer = "tasksWait"
  /\ closer' = "hooks"
  /\ \/ ~run /\ mgr' = [mgr EXCEPT ![Manager] = "Stopped"] /\ UNCHANGED stopErrs
     \/ expired /\ stopErrs' = stopErrs \cup {TasksErr} /\ UNCHANGED mgr
  /\ UNCHANGED <<service, starting, stopper, serving, stopping, hook, snapshot, drain, expired, run, primaryErr, waitErr>>

\* An OnShutdown hook returns, with an error or not; all of them are called.
StopHookReturns ==
  /\ closer = "hooks" /\ hook <= StopHooks
  /\ hook' = hook + 1
  /\ \E e \in {{}, {HookErr(hook)}} : stopErrs' = stopErrs \cup e
  /\ UNCHANGED <<service, starting, stopper, serving, stopping, closer, snapshot, drain, expired, tasks, primaryErr, waitErr>>

HooksOver ==
  /\ closer = "hooks" /\ hook > StopHooks
  /\ closer' = "admin"
  /\ UNCHANGED <<service, starting, stopper, serving, stopping, hook, snapshot, drain, expired, tasks, errors>>

\* Wait's error is put together under the lock.
Publish ==
  /\ closer = "admin"
  /\ \A i \in ToDrain : drain[i] = "drained"
  /\ closer' = "published"
  /\ waitErr' = [primary |-> primaryErr, stop |-> stopErrs]
  /\ UNCHANGED <<service, starting, stopper, serving, stopping, hook, snapshot, drain, expired, tasks, primaryErr, stopErrs>>

\* shutdownCh and doneCh are closed.
Close ==
  /\ closer = "published"
  /\ closer' = "over"
  /\ UNCHANGED <<service, starting, stopper, serving, stopping, hook, snapshot, drain, expired, tasks, errors>>

-----------------------------------------------------------------------------
(* Runs of the managed task manager *)

RunBegins ==
  /\ MgrState = "Running" /\ ~run
  /\ run' = TRUE
  /\ UNCHANGED <<service, starting, stopper, serving, closing, mgr, errors>>

RunEnds ==
  /\ run
  /\ run' = FALSE
  /\ UNCHANGED <<service, starting, stopper, serving, closing, mgr, errors>>

-----------------------------------------------------------------------------
StartStep(c) ==
  \/ StartBegins(c) \/ StartHookReturns(c) \/ StartHookFails(c) \/ StartTasks(c)
  \/ BindServer(c) \/ ListenFails(c) \/ StartFails(c) \/ StartReturns(c)

RunStep(c) ==
  \/ RunSeesDone(c) \/ RunSeesCancel(c) \/ RunSeesSignal(c) \/ RunStops(c) \/ WaitReturns(c)

ExitStep(i) == ServeExitChecks(i) \/ ServeExitRecords(i) \/ ServeExitInitiates(i)

ServerStep(i) == Serve(i) \/ RequestBegins(i) \/ RequestEnds(i) \/ ServeFails(i)

CloserStep ==
  \/ Snapshot \/ ServersDrained \/ StopTasks \/ TasksStopped
  \/ StopHookReturns \/ HooksOver \/ Publish \/ Close

Next ==
  \/ \E c \in Starters : StartStep(c) \/ RunStep(c)
  \/ \E c \in Stoppers : ShutdownCalled(c) \/ ShutdownReturns(c)
  \/ \E i \in Servers : ServerStep(i) \/ ExitStep(i) \/ DrainBegins(i) \/ DrainEnds(i)
  \/ CancelParent \/ Signal \/ Expire \/ CloserStep \/ RunBegins \/ RunEnds

\* What runs goes on: started goroutines, the shutdown and its timer, hooks (which are assumed to
\* return).  Nobody has to call anything, no request or run has to end, no server has to fail.
Fairness ==
  /\ \A c \in Starters : WF_vars(StartStep(c) /\ caller[c] # "idle") /\ WF_vars(RunStep(c))
  /\ \A i \in UNION {DOMAIN ServerList(sp) : sp \in Specs} :
       /\ WF_vars(i \in Servers /\ (Serve(i) \/ ExitStep(i)))
       /\ WF_vars(i \in Servers /\ (DrainBegins(i) \/ DrainEnds(i)))
  /\ WF_vars(CloserStep)
  /\ WF_vars(Expire)

Spec == Init /\ [][Next]_vars /\ Fairness

-----------------------------------------------------------------------------
CallerStates == {"idle", "refused", "hooks", "servers", "failing", "failed", "selecting",
                 "stopping", "started", "over"}
Errors == {NoErr, "hook", "tasks", "listen", "serve", "ctx"}
StopErrors == {ServerErr(i) : i \in Servers} \cup {TasksErr} \cup {HookErr(n) : n \in 1..StopHooks}

TypeOK ==
  /\ service \in {Assembled(sp) : sp \in Specs}
  /\ caller \in [Starters -> CallerStates]
  /\ at \in Nat \ {0}
  /\ parentDone \in BOOLEAN /\ signalled \in BOOLEAN
  /\ stopper \in [Stoppers -> {"idle", "early", "waiting", "ctxErr", "returned"}]
  /\ srv \in [Servers -> {"off", "bound", "serving", "exited", "closed"}]
  /\ requests \subseteq Servers
  /\ exit \in [Servers -> {"none", "exited", "recording", "initiating", "over"}]
  /\ snapshot \subseteq listeners /\ listeners \subseteq Servers
  /\ stopping \in BOOLEAN /\ expired \in BOOLEAN /\ run \in BOOLEAN
  /\ closer \in {"none", "begun", "servers", "tasks", "tasksWait", "hooks", "admin", "published", "over"}
  /\ hook \in Nat \ {0}
  /\ drain \in [Servers -> {"no", "draining", "drained"}]
  /\ mgr \in [Managers -> {"NotStarted", "Running", "Stopping", "Stopped"}]
  /\ primaryErr \in Errors
  /\ stopErrs \subseteq StopErrors
  /\ waitErr \in [primary : Errors, stop : SUBSET StopErrors]

\* doShutdown's order.  Once the tasks' turn has come, every server the shutdown found (but the
\* standalone admin) serves no more, and a request that goes on made its Shutdown fail; once the
\* hooks' turn has come, no run goes on unless the manager's Shutdown failed; and while the hooks
\* are called the admin server has not been told to stop.  Start may be racing all the while.
TeardownOrder ==
  /\ closer \in {"tasks", "tasksWait", "hooks", "admin", "published", "over"} =>
       \A i \in snapshot \ {Admin} :
         srv[i] # "serving" /\ (i \in requests => ServerErr(i) \in stopErrs)
  /\ closer \in {"hooks", "admin", "published", "over"} => (run => TasksErr \in stopErrs)
  /\ closer = "hooks" /\ Admin \in snapshot => drain[Admin] = "no"

\* When Wait and Shutdown return, no server the shutdown found serves, and whatever still goes on,
\* the handler of a request to one of them or a run, is named in the error they return.
LeftoversTold ==
  Done =>
    /\ \A i \in snapshot :
         srv[i] # "serving" /\ (i \in requests => ServerErr(i) \in waitErr.stop)
    /\ run => TasksErr \in waitErr.stop

AskedToStop == signalled \/ \E c \in Stoppers : stopper[c] \notin {"idle", "early"}

\* What each error recorded by recordPrimary says: a hook or the manager failed before any server
\* was bound, Start stopped at a server it could not bind, a critical server has exited, or the
\* context given to Run is cancelled.
Happened(e) ==
  CASE e \in {"hook", "tasks"} -> listeners = {}
    [] e = "listen"            -> at \in Servers \ listeners
    [] e = "serve"             -> \E i \in Servers : Critical(i) /\ srv[i] = "exited"
    [] e = "ctx"               -> parentDone
    [] OTHER                   -> AskedToStop

\* Wait's primary error is something that did happen, and Wait returns none only if somebody asked
\* for the shutdown: whatever stops the service is recorded before the shutdown it starts can
\* collect it.
WaitTellsWhy == Done => Happened(waitErr.primary)

\* Whatever fails or asks for it, the service comes to a full stop, although requests, runs and
\* server failures go on meanwhile.
ServiceStops == (primaryErr # NoErr \/ closer # "none" \/ AskedToStop) ~> Done

\* default_service.go:344: "Wait waits until the service fully stops."
WaitMeansStopped == Done => \A i \in Servers : srv[i] # "serving"
=============================================================================
