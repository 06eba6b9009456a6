---------------------------- MODULE ServiceProofs ----------------------------
(***************************************************************************)
(* Proofs about Service, for every set of specs, callers and hooks: its    *)
(* types, that the teardown keeps its order, that the error of Wait and    *)
(* Shutdown names what still goes on then, and that it tells why.          *)
(*                                                                         *)
(* The safety properties speak of the shutdown when it is past a stage;    *)
(* the invariants say what holds at each stage, whatever Start, the        *)
(* servers and the runs do meanwhile.                                      *)
(***************************************************************************)
EXTENDS Service, TLAPS

\* The stages of doShutdown after the task manager has been told to stop, after it is dealt with,
\* and after the last server is down.
TasksTold    == {"tasksWait", "hooks", "admin", "published", "over"}
TasksDone    == {"hooks", "admin", "published", "over"}
ServersDone  == {"tasks", "tasksWait", "hooks", "admin", "published", "over"}
AllDone      == {"published", "over"}

\* A call of Start that was not refused, and the errors it records.
Begun(c)     == caller[c] \notin {"idle", "refused"}
StartErrors  == {"hook", "tasks", "listen"}

\* A server told to shut down serves nothing more, and a request to a drained one is a kept error.
DrainedStayDown ==
  \A i \in Servers : /\ drain[i] # "no" => srv[i] # "serving"
                     /\ drain[i] = "drained" => (i \in requests => ServerErr(i) \in stopErrs)

\* Past the parallel stage all but the admin server are drained, past the last one it is too, and
\* before the last one it has not been touched.
DrainedInOrder ==
  /\ closer \in ServersDone => \A i \in snapshot \ {Admin} : drain[i] = "drained"
  /\ closer \in AllDone => \A i \in snapshot : drain[i] = "drained"
  /\ closer \in {"none", "begun", "servers", "tasks", "tasksWait", "hooks"} =>
       (Admin \in Servers => drain[Admin] = "no")

\* A run needs a manager that has started; once told to stop the manager neither starts nor runs
\* anything, and a run left over has made its shutdown fail.
TasksStayDown ==
  /\ run => MgrState \in {"Running", "Stopping"}
  /\ closer \in TasksTold => MgrState \in {"none", "Stopping", "Stopped"}
  /\ closer \in TasksDone => (run => TasksErr \in stopErrs)

\* Whoever is about to start the shutdown has recorded why, or was asked to, and so has whoever
\* started it; what is published keeps it.
ReasonsRecorded ==
  /\ \A c \in Starters : /\ caller[c] = "failing" => primaryErr # NoErr
                         /\ caller[c] = "stopping" => primaryErr # NoErr \/ signalled
  /\ \A i \in Servers : exit[i] = "initiating" => primaryErr # NoErr
  /\ closer # "none" => primaryErr # NoErr \/ AskedToStop
  /\ closer \in AllDone => waitErr.primary # NoErr \/ AskedToStop

\* What goes on although the shutdown is over is in what it published.
LeftoversPublished ==
  closer \in AllDone =>
    /\ \A i \in snapshot : i \in requests => ServerErr(i) \in waitErr.stop
    /\ run => TasksErr \in waitErr.stop

\* One call of Start goes through, and it binds the servers in their order.
StartsOnce ==
  /\ \A c, d \in Starters : Begun(c) /\ Begun(d) => c = d
  /\ listeners # {} => \E c \in Starters : Begun(c)
  /\ \A c \in Starters : /\ caller[c] = "hooks" => listeners = {}
                         /\ caller[c] = "servers" => listeners \subseteq 1..(at - 1)

\* A server without a listener is off, and onServeExit runs for one that exited: up to the record,
\* for a critical one.
ExitsFollowServers ==
  \A i \in Servers : /\ i \notin listeners => srv[i] = "off"
                     /\ exit[i] # "none" => srv[i] = "exited"
                     /\ exit[i] = "recording" => Critical(i)

\* The error recorded says what happened; an error of Start's has ended Start.
ErrorsTrue ==
  /\ primaryErr # NoErr => Happened(primaryErr)
  /\ primaryErr \in StartErrors => \E c \in Starters : caller[c] \in {"failing", "failed", "over"}
  /\ waitErr.primary \in {NoErr, primaryErr}

Lifecycle ==
  /\ DrainedStayDown /\ DrainedInOrder /\ TasksStayDown /\ LeftoversPublished
  /\ ReasonsRecorded /\ StartsOnce /\ ExitsFollowServers /\ ErrorsTrue

-----------------------------------------------------------------------------
(* What every step keeps *)

\* No step changes what the service was assembled to.
LEMMA ServiceKept ==
  ASSUME [Next]_vars
  PROVE  service' = service
<1>1. ASSUME NEW c \in Starters, StartStep(c) PROVE service' = service
  BY <1>1 DEF StartStep, StartBegins, StartHookReturns, StartHookFails, StartTasks, BindServer,
              ListenFails, StartFails, StartReturns
<1>2. ASSUME NEW c \in Starters, RunStep(c) PROVE service' = service
  BY <1>2 DEF RunStep, RunSeesDone, RunSeesCancel, RunSeesSignal, RunStops, WaitReturns
<1>3. ASSUME NEW c \in Stoppers, ShutdownCalled(c) \/ ShutdownReturns(c) PROVE service' = service
  BY <1>3 DEF ShutdownCalled, ShutdownReturns
<1>4. ASSUME NEW i \in Servers, ServerStep(i) \/ ExitStep(i) \/ DrainBegins(i) \/ DrainEnds(i)
      PROVE  service' = service
  BY <1>4 DEF ServerStep, Serve, RequestBegins, RequestEnds, ServeFails, ExitStep, ServeExitChecks,
              ServeExitRecords, ServeExitInitiates, DrainBegins, DrainEnds
<1>5. CASE CloserStep
  BY <1>5 DEF CloserStep, Snapshot, ServersDrained, StopTasks, TasksStopped, StopHookReturns,
              HooksOver, Publish, Close
<1>6. CASE CancelParent \/ Signal \/ Expire \/ RunBegins \/ RunEnds
  BY <1>6 DEF CancelParent, Signal, Expire, RunBegins, RunEnds
<1>7. CASE UNCHANGED vars
  BY <1>7 DEF vars
<1> QED BY <1>1, <1>2, <1>3, <1>4, <1>5, <1>6, <1>7 DEF Next

\* Then the servers, the admin server among them and the managed task manager are the same.
LEMMA AssemblyKept ==
  ASSUME service' = service
  PROVE  Servers' = Servers /\ Admin' = Admin /\ Manager' = Manager
BY DEF Servers, Admin, Manager

LEMMA StopErrorsKept ==
  ASSUME service' = service
  PROVE  StopErrors' = StopErrors
BY AssemblyKept DEF StopErrors

\* The managed task manager is one whose state is kept.
LEMMA ManagerKnown == TypeOK /\ Manager # "none" => Manager \in Managers
<1> SUFFICES ASSUME TypeOK, Manager # "none" PROVE Manager \in Managers
  OBVIOUS
<1>1. PICK sp \in Specs : service = Assembled(sp)
  BY DEF TypeOK
<1> QED BY <1>1 DEF Assembled, Manager, Managed, Instance, Given, Managers

-----------------------------------------------------------------------------
(* Types *)

LEMMA TypeInit == Init => TypeOK
<1> SUFFICES ASSUME Init PROVE TypeOK
  OBVIOUS
<1>1. /\ caller \in [Starters -> CallerStates]
      /\ stopper \in [Stoppers -> {"idle", "early", "waiting", "ctxErr", "returned"}]
      /\ mgr \in [Managers -> {"NotStarted", "Running", "Stopping", "Stopped"}]
  BY DEF Init, CallerStates
<1>2. /\ srv \in [Servers -> {"off", "bound", "serving", "exited", "closed"}]
      /\ exit \in [Servers -> {"none", "exited", "recording", "initiating", "over"}]
      /\ drain \in [Servers -> {"no", "draining", "drained"}]
  BY DEF Init
<1>3. waitErr \in [primary : Errors, stop : SUBSET StopErrors]
  BY DEF Init, Errors
<1>4. /\ service \in {Assembled(sp) : sp \in Specs} /\ at \in Nat \ {0} /\ hook \in Nat \ {0} /\ closer = "none"
      /\ parentDone = FALSE /\ signalled = FALSE /\ stopping = FALSE /\ expired = FALSE /\ run = FALSE
  BY DEF Init
<1>5. requests = {} /\ listeners = {} /\ snapshot = {} /\ stopErrs = {} /\ primaryErr \in Errors
  BY DEF Init, Errors
<1> QED BY <1>1, <1>2, <1>3, <1>4, <1>5 DEF TypeOK

LEMMA TypeStep ==
  ASSUME TypeOK, [Next]_vars
  PROVE  TypeOK'
<1> USE DEF TypeOK
<1>0. service' = service /\ Servers' = Servers /\ StopErrors' = StopErrors
  BY ServiceKept, AssemblyKept, StopErrorsKept
<1>1. ASSUME NEW c \in Starters, StartStep(c) PROVE TypeOK'
  <2> USE <1>0, <1>1 DEF Goes, CallerStates
  <2>1. CASE StartBegins(c)
    BY <2>1 DEF StartBegins, starting, serving, closing, tasks, errors
  <2>2. CASE StartHookReturns(c)
    BY <2>2 DEF StartHookReturns, starting, serving, closing, tasks, errors
  <2>3. CASE StartHookFails(c)
    BY <2>3 DEF StartHookFails, RecordPrimary, Errors, serving, closing, tasks
  <2>4. CASE StartTasks(c)
    BY <2>4 DEF StartTasks, RecordPrimary, Errors, serving, closing
  <2>5. CASE BindServer(c)
    BY <2>5 DEF BindServer, closing, tasks, errors
  <2>6. CASE ListenFails(c)
    BY <2>6 DEF ListenFails, RecordPrimary, Errors, serving, closing, tasks
  <2>7. CASE StartFails(c)
    BY <2>7 DEF StartFails, InitiateShutdown, serving, tasks, errors
  <2>8. CASE StartReturns(c)
    BY <2>8 DEF StartReturns, serving, closing, tasks, errors
  <2> QED BY <2>1, <2>2, <2>3, <2>4, <2>5, <2>6, <2>7, <2>8 DEF StartStep
<1>2. ASSUME NEW c \in Starters, RunStep(c) PROVE TypeOK'
  <2> USE <1>0, <1>2 DEF Goes, CallerStates
  <2>1. CASE RunSeesDone(c)
    BY <2>1 DEF RunSeesDone, serving, closing, tasks, errors
  <2>2. CASE RunSeesCancel(c)
    BY <2>2 DEF RunSeesCancel, RecordPrimary, Errors, serving, closing, tasks
  <2>3. CASE RunSeesSignal(c)
    BY <2>3 DEF RunSeesSignal, serving, closing, tasks, errors
  <2>4. CASE RunStops(c)
    BY <2>4 DEF RunStops, InitiateShutdown, serving, tasks, errors
  <2>5. CASE WaitReturns(c)
    BY <2>5 DEF WaitReturns, serving, closing, tasks, errors
  <2> QED BY <2>1, <2>2, <2>3, <2>4, <2>5 DEF RunStep
<1>3. ASSUME NEW c \in Stoppers, ShutdownCalled(c) \/ ShutdownReturns(c) PROVE TypeOK'
  <2>1. CASE ShutdownCalled(c)
    BY <1>0, <2>1 DEF ShutdownCalled, InitiateShutdown, starting, serving, tasks, errors
  <2>2. CASE ShutdownReturns(c)
    BY <1>0, <2>2 DEF ShutdownReturns, starting, serving, closing, tasks, errors
  <2> QED BY <1>3, <2>1, <2>2
<1>4. ASSUME NEW i \in Servers, ServerStep(i) \/ ExitStep(i) PROVE TypeOK'
  <2> USE <1>0, <1>4
  <2>1. CASE Serve(i)
    BY <2>1 DEF Serve, starting, closing, tasks, errors
  <2>2. CASE RequestBegins(i) \/ RequestEnds(i)
    BY <2>2 DEF RequestBegins, RequestEnds, starting, closing, tasks, errors
  <2>3. CASE ServeFails(i)
    BY <2>3 DEF ServeFails, starting, closing, tasks, errors
  <2>4. CASE ServeExitChecks(i)
    BY <2>4 DEF ServeExitChecks, starting, closing, tasks, errors
  <2>5. CASE ServeExitRecords(i)
    BY <2>5 DEF ServeExitRecords, RecordPrimary, Errors, starting, closing, tasks
  <2>6. CASE ServeExitInitiates(i)
    BY <2>6 DEF ServeExitInitiates, InitiateShutdown, starting, tasks, errors
  <2> QED BY <2>1, <2>2, <2>3, <2>4, <2>5, <2>6 DEF ServerStep, ExitStep
<1>5. ASSUME NEW i \in Servers, DrainBegins(i) \/ DrainEnds(i) PROVE TypeOK'
  <2>1. CASE DrainBegins(i)
    BY <1>0, <2>1 DEF DrainBegins, starting, tasks, errors
  <2>2. CASE DrainEnds(i)
    <3>1. stopErrs' \subseteq StopErrors
      BY <1>5, <2>2 DEF DrainEnds, StopErrors
    <3> QED BY <1>0, <2>2, <3>1 DEF DrainEnds, starting, serving, tasks
  <2> QED BY <1>5, <2>1, <2>2
<1>6. CASE CloserStep
  <2> USE <1>0, <1>6
  <2>1. CASE Snapshot \/ ServersDrained \/ HooksOver \/ Close
    BY <2>1 DEF Snapshot, ServersDrained, HooksOver, Close, starting, serving, tasks, errors
  <2>2. CASE StopTasks
    BY <2>2 DEF StopTasks, starting, serving, errors
  <2>3. CASE TasksStopped
    <3>1. stopErrs' \subseteq StopErrors
      BY <2>3 DEF TasksStopped, StopErrors
    <3> QED BY <2>3, <3>1 DEF TasksStopped, starting, serving
  <2>4. CASE StopHookReturns
    <3>1. HookErr(hook) \in StopErrors
      BY <2>4 DEF StopHookReturns, StopErrors
    <3>2. stopErrs' \subseteq StopErrors
      BY <2>4, <3>1 DEF StopHookReturns
    <3> QED BY <2>4, <3>2 DEF StopHookReturns, starting, serving, tasks
  <2>5. CASE Publish
    BY <2>5 DEF Publish, starting, serving, tasks
  <2> QED BY <2>1, <2>2, <2>3, <2>4, <2>5 DEF CloserStep
<1>7. CASE CancelParent \/ Signal \/ Expire \/ RunBegins \/ RunEnds
  BY <1>0, <1>7 DEF CancelParent, Signal, Expire, RunBegins, RunEnds, starting, serving, closing,
                    tasks, errors
<1>8. CASE UNCHANGED vars
  BY <1>0, <1>8 DEF vars, starting, serving, closing, tasks, errors
<1> QED BY <1>1, <1>2, <1>3, <1>4, <1>5, <1>6, <1>7, <1>8 DEF Next

\* The state of a Service stays what its fields may hold, whoever calls what.
THEOREM ServiceTypeCorrect == Spec => []TypeOK
<1>1. Init => TypeOK BY TypeInit
<1>2. TypeOK /\ [Next]_vars => TypeOK' BY TypeStep
<1> QED BY <1>1, <1>2, PTL DEF Spec

-----------------------------------------------------------------------------
(* Who changes what: each part of the state has few actions that write it. *)

LEMMA WhoTouchesServers ==
  ASSUME [Next]_vars
  PROVE  \/ UNCHANGED <<srv, requests, drain>>
         \/ \E c \in Starters : BindServer(c)
         \/ \E i \in Servers : ServerStep(i) \/ DrainBegins(i) \/ DrainEnds(i)
<1> DEFINE Same == UNCHANGED <<srv, requests, drain>>
<1>1. ASSUME NEW c \in Starters, StartStep(c) PROVE Same \/ BindServer(c)
  BY <1>1 DEF StartStep, StartBegins, StartHookReturns, StartHookFails, StartTasks, ListenFails,
              StartFails, StartReturns, serving, closing
<1>2. ASSUME NEW c \in Starters, RunStep(c) PROVE Same
  BY <1>2 DEF RunStep, RunSeesDone, RunSeesCancel, RunSeesSignal, RunStops, WaitReturns, serving,
              closing
<1>3. ASSUME NEW c \in Stoppers, ShutdownCalled(c) \/ ShutdownReturns(c) PROVE Same
  BY <1>3 DEF ShutdownCalled, ShutdownReturns, serving, closing
<1>4. ASSUME NEW i \in Servers, ExitStep(i) PROVE Same
  BY <1>4 DEF ExitStep, ServeExitChecks, ServeExitRecords, ServeExitInitiates, closing
<1>5. CASE CloserStep
  BY <1>5 DEF CloserStep, Snapshot, ServersDrained, StopTasks, TasksStopped, StopHookReturns,
              HooksOver, Publish, Close, serving
<1>6. CASE CancelParent \/ Signal \/ Expire \/ RunBegins \/ RunEnds
  BY <1>6 DEF CancelParent, Signal, Expire, RunBegins, RunEnds, serving, closing
<1>7. CASE UNCHANGED vars
  BY <1>7 DEF vars, serving, closing
<1> QED BY <1>1, <1>2, <1>3, <1>4, <1>5, <1>6, <1>7 DEF Next

LEMMA WhoTouchesExits ==
  ASSUME [Next]_vars
  PROVE  \/ UNCHANGED <<srv, exit, listeners>>
         \/ \E c \in Starters : BindServer(c)
         \/ \E i \in Servers : ServerStep(i) \/ ExitStep(i) \/ DrainBegins(i)
<1> DEFINE Same == UNCHANGED <<srv, exit, listeners>>
<1>1. ASSUME NEW c \in Starters, StartStep(c) PROVE Same \/ BindServer(c)
  BY <1>1 DEF StartStep, StartBegins, StartHookReturns, StartHookFails, StartTasks, ListenFails,
              StartFails, StartReturns, serving
<1>2. ASSUME NEW c \in Starters, RunStep(c) PROVE Same
  BY <1>2 DEF RunStep, RunSeesDone, RunSeesCancel, RunSeesSignal, RunStops, WaitReturns, serving
<1>3. ASSUME NEW c \in Stoppers, ShutdownCalled(c) \/ ShutdownReturns(c) PROVE Same
  BY <1>3 DEF ShutdownCalled, ShutdownReturns, serving
<1>4. ASSUME NEW i \in Servers, DrainEnds(i) PROVE Same
  BY <1>4 DEF DrainEnds, serving
<1>5. CASE CloserStep
  BY <1>5 DEF CloserStep, Snapshot, ServersDrained, StopTasks, TasksStopped, StopHookReturns,
              HooksOver, Publish, Close, serving
<1>6. CASE CancelParent \/ Signal \/ Expire \/ RunBegins \/ RunEnds
  BY <1>6 DEF CancelParent, Signal, Expire, RunBegins, RunEnds, serving
<1>7. CASE UNCHANGED vars
  BY <1>7 DEF vars, serving
<1> QED BY <1>1, <1>2, <1>3, <1>4, <1>5, <1>6, <1>7 DEF Next

\* The shutdown begins, or goes on, or stays where it is; it looks at the listeners once.
LEMMA WhoTouchesCloser ==
  ASSUME [Next]_vars
  PROVE  \/ UNCHANGED <<closer, snapshot>>
         \/ closer = "none" /\ closer' = "begun" /\ snapshot' = snapshot
         \/ CloserStep
<1> DEFINE Same   == UNCHANGED <<closer, snapshot>>
           Begins == closer = "none" /\ closer' = "begun" /\ snapshot' = snapshot
<1>1. ASSUME NEW c \in Starters, StartStep(c) PROVE Same \/ Begins
  BY <1>1 DEF StartStep, StartBegins, StartHookReturns, StartHookFails, StartTasks, BindServer,
              ListenFails, StartFails, StartReturns, InitiateShutdown, closing
<1>2. ASSUME NEW c \in Starters, RunStep(c) PROVE Same \/ Begins
  BY <1>2 DEF RunStep, RunSeesDone, RunSeesCancel, RunSeesSignal, RunStops, WaitReturns,
              InitiateShutdown, closing
<1>3. ASSUME NEW c \in Stoppers, ShutdownCalled(c) \/ ShutdownReturns(c) PROVE Same \/ Begins
  BY <1>3 DEF ShutdownCalled, ShutdownReturns, InitiateShutdown, closing
<1>4. ASSUME NEW i \in Servers, ServerStep(i) \/ ExitStep(i) \/ DrainBegins(i) \/ DrainEnds(i)
      PROVE  Same \/ Begins
  BY <1>4 DEF ServerStep, Serve, RequestBegins, RequestEnds, ServeFails, ExitStep, ServeExitChecks,
              ServeExitRecords, ServeExitInitiates, DrainBegins, DrainEnds, InitiateShutdown, closing
<1>5. CASE CancelParent \/ Signal \/ Expire \/ RunBegins \/ RunEnds
  BY <1>5 DEF CancelParent, Signal, Expire, RunBegins, RunEnds, closing
<1>6. CASE UNCHANGED vars
  BY <1>6 DEF vars, closing
<1> QED BY <1>1, <1>2, <1>3, <1>4, <1>5, <1>6 DEF Next

LEMMA WhoTouchesTasks ==
  ASSUME [Next]_vars
  PROVE  \/ UNCHANGED <<mgr, run>>
         \/ \E c \in Starters : StartTasks(c)
         \/ StopTasks \/ TasksStopped \/ RunBegins \/ RunEnds
<1> DEFINE Same == UNCHANGED <<mgr, run>>
<1>1. ASSUME NEW c \in Starters, StartStep(c) PROVE Same \/ StartTasks(c)
  BY <1>1 DEF StartStep, StartBegins, StartHookReturns, StartHookFails, BindServer, ListenFails,
              StartFails, StartReturns, tasks
<1>2. ASSUME NEW c \in Starters, RunStep(c) PROVE Same
  BY <1>2 DEF RunStep, RunSeesDone, RunSeesCancel, RunSeesSignal, RunStops, WaitReturns, tasks
<1>3. ASSUME NEW c \in Stoppers, ShutdownCalled(c) \/ ShutdownReturns(c) PROVE Same
  BY <1>3 DEF ShutdownCalled, ShutdownReturns, tasks
<1>4. ASSUME NEW i \in Servers, ServerStep(i) \/ ExitStep(i) \/ DrainBegins(i) \/ DrainEnds(i)
      PROVE  Same
  BY <1>4 DEF ServerStep, Serve, RequestBegins, RequestEnds, ServeFails, ExitStep, ServeExitChecks,
              ServeExitRecords, ServeExitInitiates, DrainBegins, DrainEnds, tasks
<1>5. CASE CloserStep
  BY <1>5 DEF CloserStep, Snapshot, ServersDrained, StopHookReturns, HooksOver, Publish, Close, tasks
<1>6. CASE CancelParent \/ Signal \/ Expire
  BY <1>6 DEF CancelParent, Signal, Expire, tasks
<1>7. CASE UNCHANGED vars
  BY <1>7 DEF vars, tasks
<1> QED BY <1>1, <1>2, <1>3, <1>4, <1>5, <1>6, <1>7 DEF Next

\* An error that was recorded, of the service or of its shutdown, is never lost.
LEMMA ErrorsStay ==
  ASSUME [Next]_vars
  PROVE  /\ primaryErr # NoErr => primaryErr' = primaryErr
         /\ stopErrs \subseteq stopErrs'
<1> DEFINE Kept == /\ primaryErr # NoErr => primaryErr' = primaryErr
                   /\ stopErrs \subseteq stopErrs'
<1>1. ASSUME NEW c \in Starters, StartStep(c) PROVE Kept
  BY <1>1 DEF StartStep, StartBegins, StartHookReturns, StartHookFails, StartTasks, BindServer,
              ListenFails, StartFails, StartReturns, RecordPrimary, errors
<1>2. ASSUME NEW c \in Starters, RunStep(c) PROVE Kept
  BY <1>2 DEF RunStep, RunSeesDone, RunSeesCancel, RunSeesSignal, RunStops, WaitReturns,
              RecordPrimary, errors
<1>3. ASSUME NEW c \in Stoppers, ShutdownCalled(c) \/ ShutdownReturns(c) PROVE Kept
  BY <1>3 DEF ShutdownCalled, ShutdownReturns, errors
<1>4. ASSUME NEW i \in Servers, ServerStep(i) \/ ExitStep(i) \/ DrainBegins(i) \/ DrainEnds(i)
      PROVE  Kept
  BY <1>4 DEF ServerStep, Serve, RequestBegins, RequestEnds, ServeFails, ExitStep, ServeExitChecks,
              ServeExitRecords, ServeExitInitiates, DrainBegins, DrainEnds, RecordPrimary, errors
<1>5. CASE CloserStep
  BY <1>5 DEF CloserStep, Snapshot, ServersDrained, StopTasks, TasksStopped, StopHookReturns,
              HooksOver, Publish, Close, errors
<1>6. CASE CancelParent \/ Signal \/ Expire \/ RunBegins \/ RunEnds
  BY <1>6 DEF CancelParent, Signal, Expire, RunBegins, RunEnds, errors
<1>7. CASE UNCHANGED vars
  BY <1>7 DEF vars, errors
<1> QED BY <1>1, <1>2, <1>3, <1>4, <1>5, <1>6, <1>7 DEF Next

-----------------------------------------------------------------------------
(* Servers *)

\* A server told to shut down stays down: whatever would serve or take a request needs one that
\* serves, and Serve finds it closed.
LEMMA DrainedStayDownStep ==
  ASSUME TypeOK, DrainedStayDown, [Next]_vars
  PROVE  DrainedStayDown'
<1> USE DEF DrainedStayDown
<1>0. /\ Servers' = Servers /\ stopErrs \subseteq stopErrs'
      /\ srv \in [Servers -> {"off", "bound", "serving", "exited", "closed"}]
      /\ drain \in [Servers -> {"no", "draining", "drained"}]
  BY ServiceKept, AssemblyKept, ErrorsStay DEF TypeOK
<1>1. CASE UNCHANGED <<srv, requests, drain>>
  BY <1>0, <1>1
<1>2. ASSUME NEW c \in Starters, BindServer(c) PROVE DrainedStayDown'
  BY <1>0, <1>2 DEF BindServer, closing
<1>3. ASSUME NEW i \in Servers, ServerStep(i) PROVE DrainedStayDown'
  BY <1>0, <1>3 DEF ServerStep, Serve, RequestBegins, RequestEnds, ServeFails, closing
<1>4. ASSUME NEW i \in Servers, DrainBegins(i) PROVE DrainedStayDown'
  BY <1>0, <1>4 DEF DrainBegins
<1>5. ASSUME NEW i \in Servers, DrainEnds(i) PROVE DrainedStayDown'
  BY <1>0, <1>5 DEF DrainEnds, serving
<1> QED BY <1>1, <1>2, <1>3, <1>4, <1>5, WhoTouchesServers

\* A drained server stays drained, and only a server a step shuts down begins to drain.
LEMMA DrainMoves ==
  ASSUME TypeOK, [Next]_vars, NEW j \in Servers
  PROVE  /\ drain[j] = "drained" => drain'[j] = "drained"
         /\ drain[j] = "no" /\ drain'[j] # "no" => j \in ToDrain
<1>0. drain \in [Servers -> {"no", "draining", "drained"}]
  BY DEF TypeOK
<1>1. CASE UNCHANGED <<srv, requests, drain>>
  BY <1>1
<1>2. ASSUME NEW c \in Starters, BindServer(c) PROVE drain' = drain
  BY <1>2 DEF BindServer, closing
<1>3. ASSUME NEW i \in Servers, ServerStep(i) PROVE drain' = drain
  BY <1>3 DEF ServerStep, Serve, RequestBegins, RequestEnds, ServeFails, closing
<1>4. ASSUME NEW i \in Servers, DrainBegins(i)
      PROVE i \in ToDrain /\ drain[i] = "no" /\ drain' = [drain EXCEPT ![i] = "draining"]
  BY <1>4 DEF DrainBegins
<1>5. ASSUME NEW i \in Servers, DrainEnds(i)
      PROVE drain[i] = "draining" /\ drain' = [drain EXCEPT ![i] = "drained"]
  BY <1>5 DEF DrainEnds
<1> QED BY <1>0, <1>1, <1>2, <1>3, <1>4, <1>5, WhoTouchesServers

\* The steps of doShutdown that change its stage leave the servers alone.
LEMMA CloserStages ==
  ASSUME CloserStep
  PROVE  /\ drain' = drain
         /\ closer' # "servers" => snapshot' = snapshot
         /\ closer \in AllDone => closer' \in AllDone
         /\ closer' \in {"begun", "servers"} => closer = "begun"
         /\ closer' \in ServersDone /\ closer \notin ServersDone =>
              closer = "servers" /\ \A i \in ToDrain : drain[i] = "drained"
         /\ closer' \in AllDone /\ closer \notin AllDone =>
              closer = "admin" /\ \A i \in ToDrain : drain[i] = "drained"
         /\ closer' \in {"none", "begun", "servers", "tasks", "tasksWait", "hooks"} =>
              closer \in {"none", "begun", "servers", "tasks", "tasksWait", "hooks"}
BY DEF CloserStep, Snapshot, ServersDrained, StopTasks, TasksStopped, StopHookReturns, HooksOver,
       Publish, Close, closing, AllDone, ServersDone

LEMMA DrainedInOrderStep ==
  ASSUME TypeOK, DrainedInOrder, [Next]_vars
  PROVE  DrainedInOrder'
<1> DEFINE Before == {"none", "begun", "servers", "tasks", "tasksWait", "hooks"}
<1>0. /\ Servers' = Servers /\ Admin' = Admin
      /\ snapshot \subseteq Servers
  BY ServiceKept, AssemblyKept DEF TypeOK
<1>1. \A i \in Servers : drain[i] = "drained" => drain'[i] = "drained"
  BY DrainMoves
<1>2. Admin \in Servers /\ closer \in Before => drain[Admin] = "no"
  BY DEF DrainedInOrder
<1>3. Admin \in Servers /\ closer \in Before => drain'[Admin] = "no"
  <2>1. closer \in Before => Admin \notin ToDrain
    BY DEF ToDrain
  <2> QED BY <1>2, <2>1, DrainMoves
<1>4. CASE UNCHANGED <<closer, snapshot>>
  BY <1>0, <1>1, <1>3, <1>4 DEF DrainedInOrder
<1>5. CASE closer = "none" /\ closer' = "begun" /\ snapshot' = snapshot
  BY <1>0, <1>3, <1>5 DEF DrainedInOrder, ServersDone, AllDone
<1>6. CASE CloserStep
  <2>1. closer' \in Before => closer \in Before
    BY <1>6, CloserStages
  <2>2. closer' \in Before => (Admin' \in Servers' => drain'[Admin'] = "no")
    BY <1>0, <1>3, <2>1
  <2>3. ASSUME closer' \in ServersDone, NEW i \in snapshot' \ {Admin'} PROVE drain'[i] = "drained"
    <3>1. snapshot' = snapshot /\ i \in Servers /\ drain' = drain
      BY <1>0, <1>6, <2>3, CloserStages DEF ServersDone
    <3>2. CASE closer \in ServersDone
      BY <1>0, <2>3, <3>1, <3>2 DEF DrainedInOrder
    <3>3. CASE closer \notin ServersDone
      <4>1. closer = "servers" /\ \A j \in ToDrain : drain[j] = "drained"
        BY <1>6, <2>3, <3>3, CloserStages
      <4>2. i \in ToDrain
        BY <1>0, <2>3, <3>1, <4>1 DEF ToDrain
      <4> QED BY <3>1, <4>1, <4>2
    <3> QED BY <3>2, <3>3
  <2>4. ASSUME closer' \in AllDone, NEW i \in snapshot' PROVE drain'[i] = "drained"
    <3>1. snapshot' = snapshot /\ i \in Servers /\ drain' = drain
      BY <1>0, <1>6, <2>4, CloserStages DEF AllDone
    <3>2. CASE closer \in AllDone
      BY <2>4, <3>1, <3>2 DEF DrainedInOrder
    <3>3. CASE closer \notin AllDone
      <4>1. closer = "admin" /\ \A j \in ToDrain : drain[j] = "drained"
        BY <1>6, <2>4, <3>3, CloserStages
      <4>2. CASE i = Admin
        BY <2>4, <3>1, <4>1, <4>2 DEF ToDrain
      <4>3. CASE i # Admin
        BY <2>4, <3>1, <4>1, <4>3 DEF DrainedInOrder, ServersDone
      <4> QED BY <4>2, <4>3
    <3> QED BY <3>2, <3>3
  <2> QED BY <2>2, <2>3, <2>4 DEF DrainedInOrder
<1> QED BY <1>4, <1>5, <1>6, WhoTouchesCloser

-----------------------------------------------------------------------------
(* Tasks *)

\* What a write of the managed manager's state makes of MgrState.
LEMMA MgrStateNext ==
  ASSUME TypeOK, service' = service, NEW s
  PROVE  /\ mgr' = mgr => MgrState' = MgrState
         /\ MgrState # "none" /\ mgr' = [mgr EXCEPT ![Manager] = s] => MgrState' = s
<1>1. Manager' = Manager
  BY AssemblyKept
<1>2. mgr \in [Managers -> {"NotStarted", "Running", "Stopping", "Stopped"}]
  BY DEF TypeOK
<1>3. mgr' = mgr => MgrState' = MgrState
  BY <1>1 DEF MgrState
<1>4. ASSUME MgrState # "none", mgr' = [mgr EXCEPT ![Manager] = s] PROVE MgrState' = s
  <2>1. Manager # "none"
    BY <1>4 DEF MgrState
  <2>2. Manager \in Managers
    BY <2>1, ManagerKnown
  <2> QED BY <1>1, <1>2, <1>4, <2>1, <2>2 DEF MgrState
<1> QED BY <1>3, <1>4

\* A manager that was told to stop neither starts nor runs anything; a run it leaves is reported.
LEMMA TasksStayDownStep ==
  ASSUME TypeOK, TasksStayDown, [Next]_vars
  PROVE  TasksStayDown'
<1> USE DEF TasksStayDown
<1>0. service' = service /\ stopErrs \subseteq stopErrs'
  BY ServiceKept, ErrorsStay
<1>1. mgr' = mgr => MgrState' = MgrState
  BY <1>0, MgrStateNext
<1>2. \A s : MgrState # "none" /\ mgr' = [mgr EXCEPT ![Manager] = s] => MgrState' = s
  BY <1>0, MgrStateNext
<1>3. /\ closer' \in TasksTold => closer \in TasksTold \/ StopTasks
      /\ closer' \in TasksDone => closer \in TasksDone \/ StopTasks \/ TasksStopped
  <2>0. TasksStopped => closer \in TasksTold
    BY DEF TasksStopped, TasksTold
  <2>1. CloserStep => /\ closer' \in TasksTold => closer \in TasksTold \/ StopTasks
                      /\ closer' \in TasksDone => closer \in TasksDone \/ StopTasks \/ TasksStopped
    BY <2>0 DEF CloserStep, Snapshot, ServersDrained, StopHookReturns, HooksOver, Publish, Close,
           TasksTold, TasksDone, closing
  <2> QED BY <2>1, WhoTouchesCloser DEF TasksTold, TasksDone
<1>4. CASE UNCHANGED <<mgr, run>>
  <2>1. StopTasks => MgrState \in {"none", "Stopped"} /\ MgrState' = MgrState
    <3>1. ASSUME StopTasks, MgrState \notin {"none", "Stopped"} PROVE FALSE
      <4>1. \E s \in {"Stopped", "Stopping"} :
              MgrState # "none" /\ MgrState # s /\ mgr' = [mgr EXCEPT ![Manager] = s]
        BY <3>1 DEF StopTasks
      <4> QED BY <1>1, <1>2, <1>4, <4>1
    <3> QED BY <1>1, <1>4, <3>1
  <2>2. TasksStopped => ~run' \/ TasksErr \in stopErrs'
    BY <1>4 DEF TasksStopped
  <2>3. TasksStopped => closer \in TasksTold
    BY DEF TasksStopped, TasksTold
  <2> QED BY <1>0, <1>1, <1>3, <1>4, <2>1, <2>2, <2>3
<1>5. ASSUME NEW c \in Starters, StartTasks(c) PROVE TasksStayDown'
  <2>1. run' = run /\ closer' = closer
    BY <1>5 DEF StartTasks, closing
  <2>2. \/ mgr' = mgr
        \/ MgrState = "NotStarted" /\ mgr' = [mgr EXCEPT ![Manager] = "Running"]
    BY <1>5 DEF StartTasks
  <2>3. MgrState' = MgrState \/ (MgrState = "NotStarted" /\ MgrState' = "Running")
    BY <1>1, <1>2, <2>2
  <2> QED BY <1>0, <2>1, <2>3
<1>6. CASE StopTasks
  <2>1. run' = run /\ closer = "tasks" /\ closer' \in {"tasksWait", "hooks"}
    BY <1>6 DEF StopTasks
  <2>2. \/ MgrState \in {"none", "Stopped"} /\ mgr' = mgr
        \/ MgrState = "NotStarted" /\ mgr' = [mgr EXCEPT ![Manager] = "Stopped"]
        \/ MgrState = "Running" /\ mgr' = [mgr EXCEPT ![Manager] = "Stopping"] /\ closer' = "tasksWait"
    BY <1>6 DEF StopTasks
  <2>3. \/ MgrState \in {"none", "Stopped"} /\ MgrState' = MgrState
        \/ MgrState = "NotStarted" /\ MgrState' = "Stopped"
        \/ MgrState = "Running" /\ MgrState' = "Stopping" /\ closer' = "tasksWait"
    BY <1>1, <1>2, <2>2
  <2> QED BY <2>1, <2>3 DEF TasksTold, TasksDone
<1>7. CASE TasksStopped
  <2>1. run' = run /\ closer = "tasksWait" /\ closer' = "hooks"
    BY <1>7 DEF TasksStopped
  <2>2. \/ ~run /\ mgr' = [mgr EXCEPT ![Manager] = "Stopped"]
        \/ TasksErr \in stopErrs' /\ mgr' = mgr
    BY <1>7 DEF TasksStopped
  <2>3. MgrState \in {"none", "Stopping", "Stopped"}
    BY <2>1 DEF TasksTold
  <2>4. MgrState = "none" => MgrState' = "none"
    <3>1. MgrState = "none" => Manager = "none"
      BY ManagerKnown DEF MgrState, TypeOK
    <3> QED BY <1>0, <3>1, AssemblyKept DEF MgrState
  <2>5. \/ ~run /\ MgrState' \in {"none", "Stopped"}
        \/ TasksErr \in stopErrs' /\ MgrState' = MgrState
    BY <1>1, <1>2, <2>2, <2>4
  <2> QED BY <2>1, <2>3, <2>5 DEF TasksTold, TasksDone
<1>8. CASE RunBegins
  <2>1. MgrState = "Running" /\ mgr' = mgr /\ closer' = closer
    BY <1>8 DEF RunBegins, closing
  <2> QED BY <1>1, <2>1 DEF TasksTold, TasksDone
<1>9. CASE RunEnds
  <2>1. ~run' /\ mgr' = mgr /\ closer' = closer
    BY <1>9 DEF RunEnds, closing
  <2> QED BY <1>1, <2>1
<1> QED BY <1>4, <1>5, <1>6, <1>7, <1>8, <1>9, WhoTouchesTasks

-----------------------------------------------------------------------------
(* Reasons *)

\* Whoever asked for the shutdown has asked for good.
LEMMA AskedStays ==
  ASSUME TypeOK, [Next]_vars
  PROVE  (signalled => signalled') /\ (AskedToStop => AskedToStop')
<1> DEFINE Kept == /\ signalled => signalled'
                   /\ \A k \in Stoppers : stopper[k] \notin {"idle", "early"} =>
                                            stopper'[k] \notin {"idle", "early"}
<1>0. stopper \in [Stoppers -> {"idle", "early", "waiting", "ctxErr", "returned"}]
  BY DEF TypeOK
<1>1. ASSUME NEW c \in Starters, StartStep(c) PROVE Kept
  BY <1>1 DEF StartStep, StartBegins, StartHookReturns, StartHookFails, StartTasks, BindServer,
              ListenFails, StartFails, StartReturns
<1>2. ASSUME NEW c \in Starters, RunStep(c) PROVE Kept
  BY <1>2 DEF RunStep, RunSeesDone, RunSeesCancel, RunSeesSignal, RunStops, WaitReturns
<1>3. ASSUME NEW k \in Stoppers, ShutdownCalled(k) PROVE Kept
  BY <1>0, <1>3 DEF ShutdownCalled, starting
<1>4. ASSUME NEW k \in Stoppers, ShutdownReturns(k) PROVE Kept
  BY <1>0, <1>4 DEF ShutdownReturns, starting
<1>5. ASSUME NEW i \in Servers, ServerStep(i) \/ ExitStep(i) \/ DrainBegins(i) \/ DrainEnds(i)
      PROVE  Kept
  BY <1>5 DEF ServerStep, Serve, RequestBegins, RequestEnds, ServeFails, ExitStep, ServeExitChecks,
              ServeExitRecords, ServeExitInitiates, DrainBegins, DrainEnds, starting
<1>6. ASSUME CloserStep PROVE Kept
  BY <1>6 DEF CloserStep, Snapshot, ServersDrained, StopTasks, TasksStopped, StopHookReturns,
              HooksOver, Publish, Close, starting
<1>7. ASSUME CancelParent \/ Signal \/ Expire \/ RunBegins \/ RunEnds PROVE Kept
  BY <1>7 DEF CancelParent, Signal, Expire, RunBegins, RunEnds, starting
<1>8. ASSUME UNCHANGED vars PROVE Kept
  BY <1>8 DEF vars, starting
<1>9. Kept
  BY <1>1, <1>2, <1>3, <1>4, <1>5, <1>6, <1>7, <1>8 DEF Next
<1> QED BY <1>9 DEF AskedToStop

\* A call begins to fail, or to stop the service, with the reason recorded or a signal seen.
LEMMA CallersHaveReasons ==
  ASSUME TypeOK, [Next]_vars, NEW d \in Starters
  PROVE  /\ caller'[d] = "failing" => caller[d] = "failing" \/ primaryErr' # NoErr
         /\ caller'[d] = "stopping" => caller[d] = "stopping" \/ primaryErr' # NoErr \/ signalled'
<1> DEFINE Same == caller'[d] = caller[d]
           Good == /\ caller'[d] = "failing" => caller[d] = "failing" \/ primaryErr' # NoErr
                   /\ caller'[d] = "stopping" =>
                        caller[d] = "stopping" \/ primaryErr' # NoErr \/ signalled'
<1>0. caller \in [Starters -> CallerStates]
  BY DEF TypeOK
<1>1. ASSUME NEW c \in Starters, StartStep(c) PROVE Good
  <2>1. CASE StartHookFails(c) \/ ListenFails(c)
    BY <1>0, <2>1, ServiceAssumption DEF StartHookFails, ListenFails, Goes, RecordPrimary
  <2>2. CASE StartTasks(c)
    BY <1>0, <2>2, ServiceAssumption DEF StartTasks, Goes, RecordPrimary
  <2>3. CASE StartBegins(c) \/ StartHookReturns(c) \/ BindServer(c) \/ StartFails(c) \/ StartReturns(c)
    BY <1>0, <2>3 DEF StartBegins, StartHookReturns, BindServer, StartFails, StartReturns, Goes
  <2> QED BY <1>1, <2>1, <2>2, <2>3 DEF StartStep
<1>2. ASSUME NEW c \in Starters, RunStep(c) PROVE Good
  BY <1>0, <1>2, ServiceAssumption DEF RunStep, RunSeesDone, RunSeesCancel, RunSeesSignal, RunStops,
                                       WaitReturns, Goes, RecordPrimary
<1>3. ASSUME NEW c \in Stoppers, ShutdownCalled(c) \/ ShutdownReturns(c) PROVE Same
  BY <1>3 DEF ShutdownCalled, ShutdownReturns, starting
<1>4. ASSUME NEW i \in Servers, ServerStep(i) \/ ExitStep(i) \/ DrainBegins(i) \/ DrainEnds(i)
      PROVE  Same
  BY <1>4 DEF ServerStep, Serve, RequestBegins, RequestEnds, ServeFails, ExitStep, ServeExitChecks,
              ServeExitRecords, ServeExitInitiates, DrainBegins, DrainEnds, starting
<1>5. CASE CloserStep
  BY <1>5 DEF CloserStep, Snapshot, ServersDrained, StopTasks, TasksStopped, StopHookReturns,
              HooksOver, Publish, Close, starting
<1>6. CASE CancelParent \/ Signal \/ Expire \/ RunBegins \/ RunEnds
  BY <1>6 DEF CancelParent, Signal, Expire, RunBegins, RunEnds, starting
<1>7. CASE UNCHANGED vars
  BY <1>7 DEF vars, starting
<1> QED BY <1>1, <1>2, <1>3, <1>4, <1>5, <1>6, <1>7 DEF Next

\* So does onServeExit: it records the error before it starts the shutdown.
LEMMA ExitsHaveReasons ==
  ASSUME TypeOK, [Next]_vars, NEW j \in Servers
  PROVE  exit'[j] = "initiating" => exit[j] = "initiating" \/ primaryErr' # NoErr
<1> DEFINE Same == exit'[j] = exit[j]
<1>0. exit \in [Servers -> {"none", "exited", "recording", "initiating", "over"}]
  BY DEF TypeOK
<1>1. ASSUME NEW c \in Starters, StartStep(c) PROVE Same
  BY <1>1 DEF StartStep, StartBegins, StartHookReturns, StartHookFails, StartTasks, BindServer,
              ListenFails, StartFails, StartReturns, serving
<1>2. ASSUME NEW c \in Starters, RunStep(c) PROVE Same
  BY <1>2 DEF RunStep, RunSeesDone, RunSeesCancel, RunSeesSignal, RunStops, WaitReturns, serving
<1>3. ASSUME NEW c \in Stoppers, ShutdownCalled(c) \/ ShutdownReturns(c) PROVE Same
  BY <1>3 DEF ShutdownCalled, ShutdownReturns, serving
<1>4. ASSUME NEW i \in Servers, ServerStep(i) \/ DrainBegins(i) \/ DrainEnds(i)
      PROVE  Same \/ exit'[j] = "exited"
  BY <1>0, <1>4 DEF ServerStep, Serve, RequestBegins, RequestEnds, ServeFails, DrainBegins, DrainEnds,
                       serving
<1>5. ASSUME NEW i \in Servers, ExitStep(i)
      PROVE  exit'[j] = "initiating" => exit[j] = "initiating" \/ primaryErr' # NoErr
  BY <1>0, <1>5, ServiceAssumption DEF ExitStep, ServeExitChecks, ServeExitRecords,
                                       ServeExitInitiates, RecordPrimary
<1>6. CASE CloserStep
  BY <1>6 DEF CloserStep, Snapshot, ServersDrained, StopTasks, TasksStopped, StopHookReturns,
              HooksOver, Publish, Close, serving
<1>7. CASE CancelParent \/ Signal \/ Expire \/ RunBegins \/ RunEnds
  BY <1>7 DEF CancelParent, Signal, Expire, RunBegins, RunEnds, serving
<1>8. CASE UNCHANGED vars
  BY <1>8 DEF vars, serving
<1> QED BY <1>1, <1>2, <1>3, <1>4, <1>5, <1>6, <1>7, <1>8 DEF Next

\* The shutdown is begun by a call that fails or stops the service, by onServeExit or by Shutdown.
LEMMA WhoBegins ==
  ASSUME TypeOK, [Next]_vars, closer = "none", closer' # "none"
  PROVE  \/ \E c \in Starters : caller[c] \in {"failing", "stopping"}
         \/ \E i \in Servers : exit[i] = "initiating"
         \/ AskedToStop'
<1> DEFINE Same == closer' = closer
           Starts == \/ \E c \in Starters : caller[c] \in {"failing", "stopping"}
                     \/ \E i \in Servers : exit[i] = "initiating"
                     \/ AskedToStop'
<1>1. ASSUME NEW c \in Starters, StartStep(c) PROVE Same \/ Starts
  BY <1>1 DEF StartStep, StartBegins, StartHookReturns, StartHookFails, StartTasks, BindServer,
              ListenFails, StartFails, StartReturns, Goes, closing
<1>2. ASSUME NEW c \in Starters, RunStep(c) PROVE Same \/ Starts
  BY <1>2 DEF RunStep, RunSeesDone, RunSeesCancel, RunSeesSignal, RunStops, WaitReturns, Goes, closing
<1>3. ASSUME NEW c \in Stoppers, ShutdownCalled(c) PROVE Same \/ Starts
  <2>1. stopper \in [Stoppers -> {"idle", "early", "waiting", "ctxErr", "returned"}]
    BY DEF TypeOK
  <2>2. CASE Started
    <3>1. stopper'[c] = "waiting"
      BY <1>3, <2>1, <2>2 DEF ShutdownCalled
    <3> QED BY <3>1 DEF AskedToStop
  <2>3. CASE ~Started
    BY <1>3, <2>3 DEF ShutdownCalled
  <2> QED BY <2>2, <2>3
<1>4. ASSUME NEW c \in Stoppers, ShutdownReturns(c) PROVE Same
  BY <1>4 DEF ShutdownReturns, closing
<1>5. ASSUME NEW i \in Servers, ServerStep(i) \/ ExitStep(i) \/ DrainBegins(i) \/ DrainEnds(i)
      PROVE  Same \/ Starts
  BY <1>5 DEF ServerStep, Serve, RequestBegins, RequestEnds, ServeFails, ExitStep, ServeExitChecks,
              ServeExitRecords, ServeExitInitiates, DrainBegins, DrainEnds, closing
<1>6. ~CloserStep
  BY DEF CloserStep, Snapshot, ServersDrained, StopTasks, TasksStopped, StopHookReturns, HooksOver,
         Publish, Close
<1>7. CASE CancelParent \/ Signal \/ Expire \/ RunBegins \/ RunEnds
  BY <1>7 DEF CancelParent, Signal, Expire, RunBegins, RunEnds, closing
<1>8. CASE UNCHANGED vars
  BY <1>8 DEF vars, closing
<1> QED BY <1>1, <1>2, <1>3, <1>4, <1>5, <1>6, <1>7, <1>8 DEF Next

\* What Wait returns is written once, from the error recorded by then.
LEMMA WhoPublishes ==
  ASSUME [Next]_vars
  PROVE  IF closer' \in AllDone /\ closer \notin AllDone
         THEN /\ closer = "admin" /\ waitErr' = [primary |-> primaryErr, stop |-> stopErrs]
              /\ UNCHANGED <<primaryErr, stopErrs, snapshot, requests, run>>
         ELSE waitErr' = waitErr
<1> DEFINE Same == waitErr' = waitErr /\ (closer' = closer \/ closer' = "begun")
           Goal == IF closer' \in AllDone /\ closer \notin AllDone
                   THEN /\ closer = "admin" /\ waitErr' = [primary |-> primaryErr, stop |-> stopErrs]
                        /\ UNCHANGED <<primaryErr, stopErrs, snapshot, requests, run>>
                   ELSE waitErr' = waitErr
<1>1. ASSUME NEW c \in Starters, StartStep(c) PROVE Same
  BY <1>1 DEF StartStep, StartBegins, StartHookReturns, StartHookFails, StartTasks, BindServer,
              ListenFails, StartFails, StartReturns, InitiateShutdown, closing, errors
<1>2. ASSUME NEW c \in Starters, RunStep(c) PROVE Same
  BY <1>2 DEF RunStep, RunSeesDone, RunSeesCancel, RunSeesSignal, RunStops, WaitReturns,
              InitiateShutdown, closing, errors
<1>3. ASSUME NEW c \in Stoppers, ShutdownCalled(c) \/ ShutdownReturns(c) PROVE Same
  BY <1>3 DEF ShutdownCalled, ShutdownReturns, InitiateShutdown, closing, errors
<1>4. ASSUME NEW i \in Servers, ServerStep(i) \/ ExitStep(i) \/ DrainBegins(i) \/ DrainEnds(i)
      PROVE  Same
  BY <1>4 DEF ServerStep, Serve, RequestBegins, RequestEnds, ServeFails, ExitStep, ServeExitChecks,
              ServeExitRecords, ServeExitInitiates, DrainBegins, DrainEnds, InitiateShutdown, closing,
              errors
<1>5. CASE Publish
  BY <1>5 DEF Publish, AllDone, serving, tasks
<1>6. CASE CloserStep /\ ~Publish
  BY <1>6 DEF CloserStep, Snapshot, ServersDrained, StopTasks, TasksStopped, StopHookReturns,
              HooksOver, Close, errors, closing, AllDone
<1>7. CASE CancelParent \/ Signal \/ Expire \/ RunBegins \/ RunEnds
  BY <1>7 DEF CancelParent, Signal, Expire, RunBegins, RunEnds, closing, errors
<1>8. CASE UNCHANGED vars
  BY <1>8 DEF vars, closing, errors
<1>9. Same => Goal
  BY DEF AllDone
<1> QED BY <1>1, <1>2, <1>3, <1>4, <1>5, <1>6, <1>7, <1>8, <1>9 DEF Next

LEMMA ReasonsRecordedStep ==
  ASSUME TypeOK, ReasonsRecorded, [Next]_vars
  PROVE  ReasonsRecorded'
<1> USE DEF ReasonsRecorded
<1>0. /\ Servers' = Servers
      /\ primaryErr # NoErr => primaryErr' # NoErr
      /\ signalled => signalled'
      /\ AskedToStop => AskedToStop'
      /\ signalled => AskedToStop
  BY ServiceKept, AssemblyKept, ErrorsStay, AskedStays DEF AskedToStop
<1>1. ASSUME NEW c \in Starters
      PROVE  /\ caller'[c] = "failing" => primaryErr' # NoErr
             /\ caller'[c] = "stopping" => primaryErr' # NoErr \/ signalled'
  BY <1>0, CallersHaveReasons
<1>2. ASSUME NEW i \in Servers', exit'[i] = "initiating" PROVE primaryErr' # NoErr
  BY <1>0, <1>2, ExitsHaveReasons
<1>3. ASSUME closer' # "none" PROVE primaryErr' # NoErr \/ AskedToStop'
  <2>1. CASE closer # "none"
    BY <1>0, <2>1
  <2>2. CASE closer = "none"
    BY <1>0, <1>3, <2>2, WhoBegins
  <2> QED BY <2>1, <2>2
<1>4. ASSUME closer' \in AllDone PROVE waitErr'.primary # NoErr \/ AskedToStop'
  <2>1. CASE closer \in AllDone
    BY <1>0, <2>1, WhoPublishes
  <2>2. CASE closer \notin AllDone
    BY <1>0, <1>4, <2>2, WhoPublishes
  <2> QED BY <2>1, <2>2
<1> QED BY <1>1, <1>2, <1>3, <1>4

-----------------------------------------------------------------------------
(* Leftovers *)

\* A server told to shut down takes no request.
LEMMA NoNewRequests ==
  ASSUME TypeOK, DrainedStayDown, [Next]_vars, NEW j \in Servers, drain[j] # "no"
  PROVE  j \in requests' => j \in requests
<1>1. srv[j] # "serving"
  BY DEF DrainedStayDown
<1>2. CASE UNCHANGED <<srv, requests, drain>>
  BY <1>2
<1>3. ASSUME NEW c \in Starters, BindServer(c) PROVE requests' = requests
  BY <1>3 DEF BindServer
<1>4. ASSUME NEW i \in Servers, ServerStep(i) PROVE j \in requests' => j \in requests
  BY <1>1, <1>4 DEF ServerStep, Serve, RequestBegins, RequestEnds, ServeFails
<1>5. ASSUME NEW i \in Servers, DrainBegins(i) \/ DrainEnds(i) PROVE requests' = requests
  BY <1>5 DEF DrainBegins, DrainEnds, serving
<1> QED BY <1>2, <1>3, <1>4, <1>5, WhoTouchesServers

\* Nor does a manager told to stop begin a run.
LEMMA NoNewRuns ==
  ASSUME TasksStayDown, [Next]_vars, closer \in TasksTold
  PROVE  run' => run
<1>1. ~RunBegins
  BY DEF TasksStayDown, RunBegins
<1>2. ASSUME NEW c \in Starters, StartTasks(c) PROVE run' = run
  BY <1>2 DEF StartTasks
<1>3. StopTasks \/ TasksStopped => run' = run
  BY DEF StopTasks, TasksStopped
<1>4. RunEnds => ~run'
  BY DEF RunEnds
<1> QED BY <1>1, <1>2, <1>3, <1>4, WhoTouchesTasks

LEMMA LeftoversPublishedStep ==
  ASSUME TypeOK, DrainedStayDown, DrainedInOrder, DrainedInOrder', TasksStayDown,
         LeftoversPublished, [Next]_vars
  PROVE  LeftoversPublished'
<1> SUFFICES ASSUME closer' \in AllDone
             PROVE  /\ \A i \in snapshot' : i \in requests' => ServerErr(i) \in waitErr'.stop
                    /\ run' => TasksErr \in waitErr'.stop
  BY DEF LeftoversPublished, ServerErr, TasksErr
<1>1. snapshot \subseteq Servers
  BY DEF TypeOK
<1>2. CASE closer \in AllDone
  <2>1. waitErr' = waitErr
    BY <1>2, WhoPublishes
  <2>2. snapshot' = snapshot
    BY <1>2, WhoTouchesCloser, CloserStages DEF AllDone
  <2>3. \A i \in snapshot : i \in requests' => i \in requests
    BY <1>1, <1>2, NoNewRequests DEF DrainedInOrder
  <2>4. run' => run
    BY <1>2, NoNewRuns DEF AllDone, TasksTold
  <2> QED BY <1>2, <2>1, <2>2, <2>3, <2>4 DEF LeftoversPublished
<1>3. CASE closer \notin AllDone
  <2>1. closer = "admin" /\ waitErr'.stop = stopErrs
    BY <1>3, WhoPublishes
  <2>2. UNCHANGED <<stopErrs, snapshot, requests, run>>
    BY <1>3, WhoPublishes
  <2>3. \A i \in snapshot : drain[i] = "drained"
    <3>1. \A i \in snapshot : drain'[i] = "drained"
      BY <2>2 DEF DrainedInOrder
    <3>2. drain' = drain
      BY <1>3, <2>1, WhoTouchesCloser, CloserStages DEF AllDone
    <3> QED BY <3>1, <3>2
  <2>4. \A i \in snapshot : i \in requests => ServerErr(i) \in stopErrs
    BY <1>1, <2>3 DEF DrainedStayDown
  <2>5. run => TasksErr \in stopErrs
    BY <2>1 DEF TasksStayDown, TasksDone
  <2> QED BY <2>1, <2>2, <2>4, <2>5
<1> QED BY <1>2, <1>3

-----------------------------------------------------------------------------
(* Start, and what the errors say *)

\* Which steps move a call of Start, bind a server or record an error.
LEMMA WhoTouchesStart ==
  ASSUME [Next]_vars
  PROVE  \/ UNCHANGED <<caller, at, listeners>>
         \/ \E c \in Starters : StartStep(c) \/ RunStep(c)
<1> DEFINE Same == UNCHANGED <<caller, at, listeners>>
<1>1. ASSUME NEW c \in Stoppers, ShutdownCalled(c) \/ ShutdownReturns(c) PROVE Same
  BY <1>1 DEF ShutdownCalled, ShutdownReturns, starting, serving
<1>2. ASSUME NEW i \in Servers, ServerStep(i) \/ ExitStep(i) \/ DrainBegins(i) \/ DrainEnds(i)
      PROVE  Same
  BY <1>2 DEF ServerStep, Serve, RequestBegins, RequestEnds, ServeFails, ExitStep, ServeExitChecks,
              ServeExitRecords, ServeExitInitiates, DrainBegins, DrainEnds, starting, serving
<1>3. CASE CloserStep
  BY <1>3 DEF CloserStep, Snapshot, ServersDrained, StopTasks, TasksStopped, StopHookReturns,
              HooksOver, Publish, Close, starting, serving
<1>4. CASE CancelParent \/ Signal \/ Expire \/ RunBegins \/ RunEnds
  BY <1>4 DEF CancelParent, Signal, Expire, RunBegins, RunEnds, starting, serving
<1>5. CASE UNCHANGED vars
  BY <1>5 DEF vars, starting, serving
<1> QED BY <1>1, <1>2, <1>3, <1>4, <1>5 DEF Next

LEMMA WhoRecords ==
  ASSUME [Next]_vars
  PROVE  \/ primaryErr' = primaryErr
         \/ \E c \in Starters : StartHookFails(c) \/ StartTasks(c) \/ ListenFails(c) \/ RunSeesCancel(c)
         \/ \E i \in Servers : ServeExitRecords(i)
<1> DEFINE Same == primaryErr' = primaryErr
<1>1. ASSUME NEW c \in Starters, StartStep(c)
      PROVE  Same \/ StartHookFails(c) \/ StartTasks(c) \/ ListenFails(c)
  BY <1>1 DEF StartStep, StartBegins, StartHookReturns, BindServer, StartFails, StartReturns, errors
<1>2. ASSUME NEW c \in Starters, RunStep(c) PROVE Same \/ RunSeesCancel(c)
  BY <1>2 DEF RunStep, RunSeesDone, RunSeesSignal, RunStops, WaitReturns, errors
<1>3. ASSUME NEW c \in Stoppers, ShutdownCalled(c) \/ ShutdownReturns(c) PROVE Same
  BY <1>3 DEF ShutdownCalled, ShutdownReturns, errors
<1>4. ASSUME NEW i \in Servers, ServerStep(i) \/ ExitStep(i) \/ DrainBegins(i) \/ DrainEnds(i)
      PROVE  Same \/ ServeExitRecords(i)
  BY <1>4 DEF ServerStep, Serve, RequestBegins, RequestEnds, ServeFails, ExitStep, ServeExitChecks,
              ServeExitInitiates, DrainBegins, DrainEnds, errors
<1>5. CASE CloserStep
  BY <1>5 DEF CloserStep, Snapshot, ServersDrained, StopTasks, TasksStopped, StopHookReturns,
              HooksOver, Publish, Close, errors
<1>6. CASE CancelParent \/ Signal \/ Expire \/ RunBegins \/ RunEnds
  BY <1>6 DEF CancelParent, Signal, Expire, RunBegins, RunEnds, errors
<1>7. CASE UNCHANGED vars
  BY <1>7 DEF vars, errors
<1> QED BY <1>1, <1>2, <1>3, <1>4, <1>5, <1>6, <1>7 DEF Next

\* A second Start is refused, and the one that goes through has bound the servers before at.
LEMMA StartsOnceStep ==
  ASSUME TypeOK, StartsOnce, [Next]_vars
  PROVE  StartsOnce'
<1> USE DEF StartsOnce, Begun
<1>0. caller \in [Starters -> CallerStates] /\ at \in Nat
  BY DEF TypeOK
<1>1. CASE UNCHANGED <<caller, at, listeners>>
  BY <1>1
<1>2. ASSUME NEW c \in Starters, StartStep(c) PROVE StartsOnce'
  <2>1. CASE StartBegins(c)
    <3>1. CASE Started
      <4>1. caller' = [caller EXCEPT ![c] = "refused"] /\ caller[c] = "idle"
        BY <2>1, <3>1 DEF StartBegins, Goes
      <4>2. UNCHANGED <<at, listeners>>
        BY <2>1 DEF StartBegins, serving
      <4> QED BY <1>0, <4>1, <4>2
    <3>2. CASE ~Started
      <4>1. \A d \in Starters : caller[d] \in {"idle", "refused"}
        BY <3>2 DEF Started
      <4>2. caller' = [caller EXCEPT ![c] = "hooks"]
        BY <2>1, <3>2 DEF StartBegins, Goes
      <4>3. UNCHANGED <<at, listeners>> /\ listeners = {}
        BY <2>1, <4>1 DEF StartBegins, serving
      <4> QED BY <1>0, <4>1, <4>2, <4>3
    <3> QED BY <3>1, <3>2
  <2>2. CASE StartHookReturns(c)
    BY <1>0, <2>2 DEF StartHookReturns, serving
  <2>3. CASE StartHookFails(c)
    BY <1>0, <2>3 DEF StartHookFails, Goes, serving
  <2>4. CASE StartTasks(c)
    <3>1. listeners' = listeners /\ listeners = {}
      BY <2>4 DEF StartTasks, Goes, serving
    <3>2. \E to \in {"servers", "failing"} : caller[c] = "hooks" /\ caller' = [caller EXCEPT ![c] = to]
      BY <2>4 DEF StartTasks, Goes
    <3>3. PICK to \in {"servers", "failing"} :
            caller[c] = "hooks" /\ caller' = [caller EXCEPT ![c] = to]
      BY <3>2
    <3>4. \A d \in Starters : caller'[d] = IF d = c THEN to ELSE caller[d]
      BY <1>0, <3>3
    <3>5. \A d \in Starters : Begun(d)' => Begun(d)
      BY <3>3, <3>4
    <3> QED BY <3>1, <3>5
  <2>5. CASE BindServer(c)
    <3>1. UNCHANGED caller /\ caller[c] = "servers"
      BY <2>5 DEF BindServer
    <3>2. listeners \subseteq 1..(at - 1) /\ at \in Nat \ {0}
      BY <3>1 DEF TypeOK
    <3>3. listeners' \subseteq 1..(at' - 1)
      BY <2>5, <3>2 DEF BindServer
    <3>4. \A d \in Starters : Begun(d) => d = c
      BY <3>1
    <3> QED BY <3>1, <3>3, <3>4
  <2>6. CASE ListenFails(c)
    BY <1>0, <2>6 DEF ListenFails, Goes, serving
  <2>7. CASE StartFails(c) \/ StartReturns(c)
    BY <1>0, <2>7 DEF StartFails, StartReturns, Goes, serving
  <2> QED BY <1>2, <2>1, <2>2, <2>3, <2>4, <2>5, <2>6, <2>7 DEF StartStep
<1>3. ASSUME NEW c \in Starters, RunStep(c) PROVE StartsOnce'
  BY <1>0, <1>3 DEF RunStep, RunSeesDone, RunSeesCancel, RunSeesSignal, RunStops, WaitReturns, Goes,
                    serving
<1> QED BY <1>1, <1>2, <1>3, WhoTouchesStart

\* Only a server without a listener is bound, so that one that exited stays so; onServeExit goes on to
\* record for a critical one.
LEMMA ExitsFollowServersStep ==
  ASSUME TypeOK, StartsOnce, ExitsFollowServers, [Next]_vars
  PROVE  ExitsFollowServers'
<1> USE DEF ExitsFollowServers
<1>0. /\ Servers' = Servers /\ service' = service /\ at \in Nat
      /\ srv \in [Servers -> {"off", "bound", "serving", "exited", "closed"}]
      /\ exit \in [Servers -> {"none", "exited", "recording", "initiating", "over"}]
      /\ \A i \in Servers : Critical(i)' = Critical(i)
  BY ServiceKept, AssemblyKept DEF TypeOK, Critical
<1>1. CASE UNCHANGED <<srv, exit, listeners>>
  BY <1>0, <1>1
<1>2. ASSUME NEW c \in Starters, BindServer(c) PROVE ExitsFollowServers'
  <2>1. at \in Servers /\ at \notin listeners /\ exit[at] = "none"
    BY <1>0, <1>2 DEF BindServer, StartsOnce
  <2> QED BY <1>0, <1>2, <2>1 DEF BindServer
<1>3. ASSUME NEW i \in Servers, ServerStep(i) PROVE ExitsFollowServers'
  BY <1>0, <1>3 DEF ServerStep, Serve, RequestBegins, RequestEnds, ServeFails
<1>4. ASSUME NEW i \in Servers, ExitStep(i) PROVE ExitsFollowServers'
  BY <1>0, <1>4 DEF ExitStep, ServeExitChecks, ServeExitRecords, ServeExitInitiates
<1>5. ASSUME NEW i \in Servers, DrainBegins(i) PROVE ExitsFollowServers'
  BY <1>0, <1>5 DEF DrainBegins
<1> QED BY <1>1, <1>2, <1>3, <1>4, <1>5, WhoTouchesExits

\* A server that exited has exited for good.
LEMMA ExitedStays ==
  ASSUME TypeOK, StartsOnce, ExitsFollowServers, [Next]_vars, NEW i \in Servers, srv[i] = "exited"
  PROVE  srv'[i] = "exited"
<1>0. srv \in [Servers -> {"off", "bound", "serving", "exited", "closed"}] /\ at \in Nat
  BY DEF TypeOK
<1>1. ASSUME NEW c \in Starters, BindServer(c) PROVE srv'[i] = "exited"
  <2>1. at \in Servers /\ at \notin listeners /\ srv' = [srv EXCEPT ![at] = "bound"]
    BY <1>0, <1>1 DEF BindServer, StartsOnce
  <2>2. srv[at] = "off"
    BY <2>1 DEF ExitsFollowServers
  <2> QED BY <1>0, <2>1, <2>2
<1>2. ASSUME NEW j \in Servers, ServerStep(j) \/ ExitStep(j) \/ DrainBegins(j)
      PROVE  srv'[i] = "exited"
  BY <1>0, <1>2 DEF ServerStep, Serve, RequestBegins, RequestEnds, ServeFails, ExitStep,
                    ServeExitChecks, ServeExitRecords, ServeExitInitiates, DrainBegins
<1> QED BY <1>1, <1>2, WhoTouchesExits

LEMMA CancelStays ==
  ASSUME [Next]_vars, parentDone
  PROVE  parentDone'
<1>1. ASSUME NEW c \in Starters, StartStep(c) \/ RunStep(c) PROVE parentDone'
  BY <1>1 DEF StartStep, StartBegins, StartHookReturns, StartHookFails, StartTasks, BindServer,
              ListenFails, StartFails, StartReturns, RunStep, RunSeesDone, RunSeesCancel,
              RunSeesSignal, RunStops, WaitReturns
<1>2. ASSUME NEW c \in Stoppers, ShutdownCalled(c) \/ ShutdownReturns(c) PROVE parentDone'
  BY <1>2 DEF ShutdownCalled, ShutdownReturns, starting
<1>3. ASSUME NEW i \in Servers, ServerStep(i) \/ ExitStep(i) \/ DrainBegins(i) \/ DrainEnds(i)
      PROVE  parentDone'
  BY <1>3 DEF ServerStep, Serve, RequestBegins, RequestEnds, ServeFails, ExitStep, ServeExitChecks,
              ServeExitRecords, ServeExitInitiates, DrainBegins, DrainEnds, starting
<1>4. CASE CloserStep
  BY <1>4 DEF CloserStep, Snapshot, ServersDrained, StopTasks, TasksStopped, StopHookReturns,
              HooksOver, Publish, Close, starting
<1>5. CASE CancelParent \/ Signal \/ Expire \/ RunBegins \/ RunEnds
  BY <1>5 DEF CancelParent, Signal, Expire, RunBegins, RunEnds, starting
<1>6. CASE UNCHANGED vars
  BY <1>6 DEF vars, starting
<1> QED BY <1>1, <1>2, <1>3, <1>4, <1>5, <1>6 DEF Next

\* After an error of Start nobody binds, and what the recorded error says stays true.
LEMMA HappenedStays ==
  ASSUME TypeOK, StartsOnce, ExitsFollowServers, ErrorsTrue, [Next]_vars, primaryErr # NoErr
  PROVE  Happened(primaryErr)'
<1>1. primaryErr' = primaryErr /\ Servers' = Servers /\ service' = service
  BY ErrorsStay, ServiceKept, AssemblyKept
<1>2. Happened(primaryErr) /\ primaryErr \in {"hook", "tasks", "listen", "serve", "ctx"}
  BY DEF ErrorsTrue, TypeOK, Errors
<1>3. CASE primaryErr \in StartErrors
  <2>1. \A c \in Starters : caller[c] \notin {"hooks", "servers"}
    BY <1>3 DEF ErrorsTrue, StartsOnce, Begun
  <2>2. UNCHANGED <<at, listeners>>
    <3>1. ASSUME NEW c \in Starters, StartStep(c) PROVE UNCHANGED <<at, listeners>>
      BY <2>1, <3>1 DEF StartStep, StartBegins, StartHookReturns, StartHookFails, StartTasks,
                        BindServer, ListenFails, StartFails, StartReturns, Goes, serving
    <3>2. ASSUME NEW c \in Starters, RunStep(c) PROVE UNCHANGED <<at, listeners>>
      BY <3>2 DEF RunStep, RunSeesDone, RunSeesCancel, RunSeesSignal, RunStops, WaitReturns, serving
    <3> QED BY <3>1, <3>2, WhoTouchesStart
  <2> QED BY <1>1, <1>2, <1>3, <2>2 DEF Happened, StartErrors
<1>4. CASE primaryErr = "serve"
  <2>1. PICK i \in Servers : Critical(i) /\ srv[i] = "exited"
    BY <1>2, <1>4 DEF Happened
  <2>2. srv'[i] = "exited"
    BY <2>1, ExitedStays
  <2>3. Critical(i)'
    BY <1>1, <2>1 DEF Critical
  <2> QED BY <1>1, <1>4, <2>2, <2>3 DEF Happened
<1>5. CASE primaryErr = "ctx"
  <2>1. parentDone'
    BY <1>2, <1>5, CancelStays DEF Happened
  <2> QED BY <1>1, <1>5, <2>1 DEF Happened
<1> QED BY <1>2, <1>3, <1>4, <1>5 DEF StartErrors

\* An error is recorded where what it says has just happened.
LEMMA RecordedHappened ==
  ASSUME TypeOK, StartsOnce, ExitsFollowServers, [Next]_vars, primaryErr = NoErr, primaryErr' # NoErr
  PROVE  /\ Happened(primaryErr)'
         /\ primaryErr' \in StartErrors =>
              \E c \in Starters : caller'[c] \in {"failing", "failed", "over"}
<1> USE DEF StartErrors
<1>0. /\ Servers' = Servers /\ service' = service /\ at \in Nat
      /\ caller \in [Starters -> CallerStates]
  BY ServiceKept, AssemblyKept DEF TypeOK
<1>1. ASSUME NEW c \in Starters, StartHookFails(c) \/ StartTasks(c)
      PROVE  /\ primaryErr' \in {"hook", "tasks"}
             /\ listeners' = {} /\ caller'[c] = "failing"
  <2>1. listeners' = {}
    BY <1>1 DEF StartHookFails, StartTasks, Goes, StartsOnce, serving
  <2>2. primaryErr' \in {"hook", "tasks"} /\ caller'[c] = "failing"
    BY <1>0, <1>1 DEF StartHookFails, StartTasks, Goes, RecordPrimary
  <2> QED BY <2>1, <2>2
<1>2. ASSUME NEW c \in Starters, ListenFails(c)
      PROVE  /\ primaryErr' = "listen" /\ caller'[c] = "failing"
             /\ at' \in Servers' \ listeners'
  BY <1>0, <1>2 DEF ListenFails, Goes, RecordPrimary, StartsOnce, serving
<1>3. ASSUME NEW c \in Starters, RunSeesCancel(c) PROVE primaryErr' = "ctx" /\ parentDone'
  BY <1>3 DEF RunSeesCancel, RecordPrimary
<1>4. ASSUME NEW i \in Servers, ServeExitRecords(i)
      PROVE  primaryErr' = "serve" /\ Critical(i)' /\ srv'[i] = "exited"
  BY <1>0, <1>4 DEF ServeExitRecords, RecordPrimary, ExitsFollowServers, Critical
<1>5. ASSUME primaryErr' \in {"hook", "tasks"}, listeners' = {} PROVE Happened(primaryErr)'
  BY <1>5 DEF Happened
<1>6. ASSUME primaryErr' = "listen", at' \in Servers' \ listeners' PROVE Happened(primaryErr)'
  BY <1>6 DEF Happened
<1>7. ASSUME primaryErr' = "ctx", parentDone' PROVE Happened(primaryErr)'
  BY <1>7 DEF Happened
<1>8. ASSUME primaryErr' = "serve", NEW i \in Servers', Critical(i)', srv'[i] = "exited"
      PROVE  Happened(primaryErr)'
  BY <1>8 DEF Happened
<1> QED BY <1>0, <1>1, <1>2, <1>3, <1>4, <1>5, <1>6, <1>7, <1>8, WhoRecords

\* A call of Start that failed stays so, until Wait returns.
LEMMA FailedStays ==
  ASSUME TypeOK, [Next]_vars, NEW d \in Starters, caller[d] \in {"failing", "failed", "over"}
  PROVE  caller'[d] \in {"failing", "failed", "over"}
<1>0. caller \in [Starters -> CallerStates]
  BY DEF TypeOK
<1>1. ASSUME NEW c \in Starters, StartStep(c) PROVE caller'[d] \in {"failing", "failed", "over"}
  BY <1>0, <1>1 DEF StartStep, StartBegins, StartHookReturns, StartHookFails, StartTasks, BindServer,
                    ListenFails, StartFails, StartReturns, Goes
<1>2. ASSUME NEW c \in Starters, RunStep(c) PROVE caller'[d] \in {"failing", "failed", "over"}
  BY <1>0, <1>2 DEF RunStep, RunSeesDone, RunSeesCancel, RunSeesSignal, RunStops, WaitReturns, Goes
<1> QED BY <1>1, <1>2, WhoTouchesStart

LEMMA ErrorsTrueStep ==
  ASSUME TypeOK, StartsOnce, ExitsFollowServers, ErrorsTrue, [Next]_vars
  PROVE  ErrorsTrue'
<1>1. CASE primaryErr = NoErr
  <2>1. waitErr'.primary = NoErr
    BY <1>1, WhoPublishes DEF ErrorsTrue
  <2> QED BY <1>1, <2>1, RecordedHappened, ServiceAssumption DEF ErrorsTrue, StartErrors
<1>2. CASE primaryErr # NoErr
  <2>1. primaryErr' = primaryErr /\ Happened(primaryErr)'
    BY <1>2, ErrorsStay, HappenedStays
  <2>2. waitErr'.primary \in {NoErr, primaryErr}
    BY WhoPublishes DEF ErrorsTrue
  <2> QED BY <2>1, <2>2, FailedStays DEF ErrorsTrue
<1> QED BY <1>1, <1>2

-----------------------------------------------------------------------------
(* The theorems *)

LEMMA LifecycleInit == Init => Lifecycle
<1> SUFFICES ASSUME Init PROVE Lifecycle
  OBVIOUS
<1>1. closer = "none" /\ run = FALSE
  BY DEF Init
<1>2. DrainedStayDown /\ \A i \in Servers : drain[i] = "no"
  BY DEF Init, DrainedStayDown
<1>3. /\ \A c \in Starters : caller[c] = "idle"
      /\ \A i \in Servers : exit[i] = "none"
  BY DEF Init
<1>4. DrainedInOrder
  BY <1>1, <1>2 DEF DrainedInOrder, ServersDone, AllDone
<1>5. TasksStayDown
  BY <1>1 DEF TasksStayDown, TasksTold, TasksDone
<1>6. ReasonsRecorded
  BY <1>1, <1>3 DEF ReasonsRecorded, AllDone
<1>7. LeftoversPublished
  BY <1>1 DEF LeftoversPublished, AllDone
<1>8. StartsOnce /\ ExitsFollowServers
  BY <1>3 DEF Init, StartsOnce, Begun, ExitsFollowServers
<1>9. ErrorsTrue
  BY ServiceAssumption DEF Init, ErrorsTrue, StartErrors
<1> QED BY <1>2, <1>4, <1>5, <1>6, <1>7, <1>8, <1>9 DEF Lifecycle

LEMMA LifecycleStep ==
  ASSUME TypeOK, Lifecycle, [Next]_vars
  PROVE  Lifecycle'
<1>1. DrainedStayDown' /\ DrainedInOrder' /\ TasksStayDown'
  BY DrainedStayDownStep, DrainedInOrderStep, TasksStayDownStep DEF Lifecycle
<1>2. LeftoversPublished'
  BY <1>1, LeftoversPublishedStep DEF Lifecycle
<1>3. ReasonsRecorded' /\ StartsOnce' /\ ExitsFollowServers' /\ ErrorsTrue'
  BY ReasonsRecordedStep, StartsOnceStep, ExitsFollowServersStep, ErrorsTrueStep DEF Lifecycle
<1> QED BY <1>1, <1>2, <1>3 DEF Lifecycle

LEMMA LifecycleInvariant == Spec => [](TypeOK /\ Lifecycle)
<1>1. Init => TypeOK /\ Lifecycle
  BY TypeInit, LifecycleInit
<1>2. TypeOK /\ Lifecycle /\ [Next]_vars => TypeOK' /\ Lifecycle'
  BY TypeStep, LifecycleStep
<1> QED BY <1>1, <1>2, PTL DEF Spec

\* doShutdown's order: when the task manager is told to stop, the servers the shutdown found serve no
\* more and a request that goes on has made its server's Shutdown fail; when the OnShutdown hooks are
\* called, so has a run, and the admin server, stopped last, has not been told to stop.
THEOREM TearsDownInOrder == Spec => []TeardownOrder
<1>1. ASSUME TypeOK, Lifecycle PROVE TeardownOrder
  <2> USE <1>1 DEF Lifecycle
  <2>1. ASSUME closer \in ServersDone, NEW i \in snapshot \ {Admin}
        PROVE  srv[i] # "serving" /\ (i \in requests => ServerErr(i) \in stopErrs)
    <3>1. i \in Servers
      BY DEF TypeOK
    <3>2. drain[i] = "drained"
      BY <2>1 DEF DrainedInOrder
    <3> QED BY <3>1, <3>2 DEF DrainedStayDown
  <2>2. closer \in TasksDone => (run => TasksErr \in stopErrs)
    BY DEF TasksStayDown
  <2>3. closer = "hooks" /\ Admin \in snapshot => drain[Admin] = "no"
    BY DEF DrainedInOrder, TypeOK
  <2> QED BY <2>1, <2>2, <2>3 DEF TeardownOrder, TasksDone, ServersDone
<1> QED BY <1>1, LifecycleInvariant, PTL

\* When Wait and Shutdown return, no server the shutdown found serves, and their error names each of
\* those whose request handler goes on, and the task manager if a run of it does.
THEOREM WaitTellsLeftovers == Spec => []LeftoversTold
<1>1. ASSUME TypeOK, Lifecycle PROVE LeftoversTold
  <2> SUFFICES ASSUME Done
               PROVE  /\ \A i \in snapshot : srv[i] # "serving"
                      /\ \A i \in snapshot : i \in requests => ServerErr(i) \in waitErr.stop
                      /\ run => TasksErr \in waitErr.stop
    BY DEF LeftoversTold
  <2>1. closer \in AllDone
    BY DEF Done, AllDone
  <2>2. \A i \in snapshot : srv[i] # "serving"
    BY <1>1, <2>1 DEF Lifecycle, DrainedInOrder, DrainedStayDown, TypeOK
  <2> QED BY <1>1, <2>1, <2>2 DEF Lifecycle, LeftoversPublished
<1> QED BY <1>1, LifecycleInvariant, PTL

\* Wait's primary error names something that happened: a hook or the manager failed before a server
\* was bound, a server could not be bound, a critical one exited, or Run's context was cancelled; and
\* without one somebody asked for the shutdown.
THEOREM WaitTellsTheReason == Spec => []WaitTellsWhy
<1>1. ASSUME TypeOK, Lifecycle PROVE WaitTellsWhy
  <2> SUFFICES ASSUME Done PROVE Happened(waitErr.primary)
    BY DEF WaitTellsWhy
  <2>1. CASE waitErr.primary # NoErr
    BY <1>1, <2>1 DEF Lifecycle, ErrorsTrue
  <2>2. CASE waitErr.primary = NoErr
    <3>1. AskedToStop
      BY <1>1, <2>2 DEF Lifecycle, ReasonsRecorded, Done, AllDone
    <3> QED BY <2>2, <3>1, ServiceAssumption DEF Happened
  <2> QED BY <2>1, <2>2
<1> QED BY <1>1, LifecycleInvariant, PTL
=============================================================================
