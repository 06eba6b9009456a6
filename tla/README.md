# A TLA+ verification of zkit

zkit is a Go toolkit for production services: background tasks with a graceful shutdown, runtime
tuning, an assembled service with its admin subtree, HTTP middleware and ops handlers. This
directory models it in TLA+, checks it with TLC and proves its safety properties with TLAPS.

## 1. Inventory

Paths are relative to the repository root.

### `rt/task`, one task (`runtime.go`, `types.go`)

- *State*, under `tr.mu`: lifecycle state, number of runs in progress, the pending flag of
  `OverlapMerge` with the callers waiting for the merged run, counters, and the completion channel
  `doneCh`, closed and replaced by every completion.
- *Operations*: `Trigger`, `TryTrigger`, `TriggerAndWait`, `Status`; a run goroutine (function,
  accounting, take-over of the pending run, delivery of results, start of the merged run); the
  manager's `onManagerStart`, `onManagerStopping`, `markStopped`.
- *Interaction*: a run starts under the read side of `m.startMu`, so that no run starts once Shutdown
  has taken the write side. The deferred function of a run reads the manager's state without it.
- *Hard*: the window in which a finished run alone knows the merged waiters; callers that give up
  meanwhile; a Shutdown between any two critical sections.
- *Correct when*: slots are counted exactly, no waiter is lost or answered twice or with the result
  of an earlier run, nothing starts after Shutdown has begun, everybody returns.

### `rt/task`, the schedulers (`runtime.go:594-723`)

- *State*: timer, next time, the completion channel held. *Fixed delay* waits for a completion of
  any run after each tick; *fixed rate* computes the next tick from the clock.
- *Hard*: a completion between the tick and the wait; ticks that start nothing; ending on a cancelled
  context. *Correct when* the wait always ends and ticks keep to `base + k * interval`.

### `rt/task`, the manager (`manager.go`)

- *State*: lifecycle state and context under `startMu`, tasks and names under `mu`, a wait group that
  counts schedulers and runs. *Operations*: `Add`, `Start`, `Shutdown`, `Wait`, `Lookup`, `Snapshot`.
- *Hard*: each operation is several critical sections, so Add, Start and several Shutdown calls
  interleave; a Shutdown may time out and be called again. *Correct when* names are unique, added
  tasks are activated and nothing outlives a Shutdown that returned nil.

### `default_service.go`: the service lifecycle

- *State*: started, stopping, bound listeners, first error, result of the shutdown; a `sync.Once`
  around it. *Operations*: `Start`, `Run`, `Wait`, `Shutdown`; goroutines that serve, watch signals and
  shut down. It starts and stops servers, the task manager and hooks in a fixed order.
- *Hard*: a shutdown (signal, failed server, caller) during Start; errors recorded late; one hook or
  server failing half way; a timeout that leaves handlers or runs behind. *Correct when* whatever was
  started is stopped, in order, Wait returns the first error, and what is left behind is in its error.

### `rt/tuning`

- *State*: registered variables, a write mutex with its owner's goroutine id, per variable the value,
  default, previous value, source and time of update, callbacks. *Operations*: registration, `Set`,
  `ResetToDefault`, `ResetToLastValue`, `Get`, snapshots.
- *Hard*: a write from inside a callback is recognised by the owner; readers take no lock.
  *Correct when* writes exclude each other, callbacks see writes in order, and undo is one step deep.

### `admin`, `default_admin.go`, `guard.go`: assembly

Handlers put together at construction, with guards for reads and writes. No state afterwards.
*Correct when* a group is served only with a source and behind the right guard, a write never without
one, a spec that contradicts itself is refused, and the service manages the manager it was given.

### `httpx`, `httpx/client`: middleware and client helpers

Layers around a handler, with state per request only, except the token set and the IP allow list,
which are replaced atomically while requests are served. *Hard*: each layer sees what the ones inside
it have already written, and a panic, a passed deadline or a client that has left on the way back.
*Correct when* a request is answered by one layer, limits are enforced and reported as they were met,
no guard lets through what no snapshot of its sets allowed, and headers a client can forge are not
believed. The client helpers read bodies up to a limit and choose a transport.

### `ops`: handlers over the parts above

Mostly rendering. A tuning write is three calls on the registry, with other writers in between; the
task handlers turn the outcome of a trigger into a status; the readiness handler runs checks with a
timeout. *Correct when* an answer tells what happened, in order, and hides what guards and redaction hide.

### `rt/safego`

Wrappers that run one function with recovery, reports and finalizers. *Correct when* no error or panic
is lost, whatever a report or a finalizer does in turn.

## 2. Modules

| module | models | role |
| --- | --- | --- |
| `TaskRuntime` | one task, its runs, its callers, the manager's lifecycle around it | detailed specification |
| `TriggerContract` | what `TriggerAndWait` promises | abstract specification, implemented by `TaskRuntime` |
| `Scheduler` | `TaskRuntime` composed with the scheduler of an Every task, in both modes | composition |
| `TickGrid` | the next tick of a fixed-rate schedule, in integers of bounded width | algorithm |
| `TaskManager` | Add, Start, Shutdown over several tasks | component |
| `ServiceAssembly` | what `NewDefaultService` makes of a spec | decisions |
| `Service` | Start, Run, Wait, Shutdown over what `ServiceAssembly` decides | component |
| `Safego` | the whole outcome of one wrapped call | algorithm |
| `TuningTypes` | validation, texts and views of the six types of variable | algorithms |
| `Tuning` | the registry: the write gate, set, reset, undo, callbacks, reads, `LevelVar` | component |
| `OpsAnswers` | the answers of the tuning, task, health and log-level handlers | decisions |
| `OpsTuning` | the tuning handlers on top of `Tuning` | composition |
| `RealIP`, `AccessGuard`, `Cors` | what each of these middlewares decides | algorithms |
| `HttpChain` | a request through a chain of all middlewares | composition |
| `AdminAssembly` | capabilities, guards, access lists and the report of the admin subtree | decisions |
| `HttpClient` | bounded reads and the choice of the transport | algorithm, one theorem |
| `TaskRuntimeProofs`, `TaskContractProofs` | theorems about one task, the second about its callers and the refinement | proofs |
| `SchedulerProofs` | theorems about `Scheduler` and `TickGrid` | proofs |
| `TaskManagerProofs`, `ServiceProofs`, `TuningProofs` | theorems about the module of that name, the last with `OpsTuning` | proofs |
| `HttpProofs` | theorems about `HttpChain` and `RealIP` | proofs |
| `MCTaskRuntime`, `MCScheduler`, `MCTaskManager`, `MCService`, `MCTuning`, `MCHttp` | values for the constants, and checks of pure operators | TLC |

Decisions and algorithms are operators without state. They are used by the actions of a component, or,
where nothing interleaves, checked over all their bounded inputs by an `ASSUME` of an MC module.

### TaskRuntime and the code

A step is one critical section of `tr.mu`, or of `m.startMu` where the code holds its read side around
a start. The deferred function of `runOnce` is the exception: it reads `m.state` twice under `tr.mu`
but not under `startMu`, and a Shutdown may come in between, so it is two steps, `FinishRun` and
`SettleState`, with `mu` naming the run that holds the lock. Results are delivered, and the merged run
is started, after the lock is released: two more steps, `DeliverResults` and `StartMerged`.

`runs` is the sequence of run goroutines ever started: its length is `runCount`, and a record says how
far each is, whom it will answer (`owed`) and whom it took over (`merged`). A caller's one-slot channel
is `answer[c]`; a send on a full or abandoned channel is dropped, as in the code. `since` is the one
history variable. `closer[k]` is the progress of a Shutdown call:

    idle -> stopping -> cancelling -> waiting -> marking -> returning -> returned
            onManagerStopping         wg.Wait    markStopped

with `timedOut` from `waiting`. The task function is an outcome in `Outcomes`: it returns nil, an
error or a context error, or panics. Hooks and handlers touch no state and are left out, as are
timestamps, names and tags.

### TriggerContract

Runs start while the manager is not closed; a call is refused, abandoned, answered `ErrClosed` after
the close, or answered with the result of one run that started after the request. `TaskRuntime`
implements it under `closed <- mgr in {Stopping, Stopped}` and `results <- RunResults`; no slot, merge,
lock or stage of Shutdown is visible.

### Scheduler and TickGrid

`Scheduler` extends `TaskRuntime` with the scheduler goroutine of an Every task; `every` says in which
mode, and whether it starts at once. A completion channel is known by the number of completions before
it was made (`watch`): it is closed as soon as more runs have completed. The fixed-delay loop looks at
the channel before each select and again between the timer and its request; the fixed-rate loop
ignores completions. When the timer fires is left open here; how far it is set is `TickGrid`:
`NextTickAfter` as in the code, with every sum, product and difference wrapped or saturated as Go and
`time` do. The parent context may be cancelled at any time.

### TaskManager

Several tasks, with the snapshots of `m.tasks` each caller works on and the manager state each Add
captured. A task runs at most once at a time here; what it does with overlapping requests is
`TaskRuntime`'s subject. `Serialized` restricts the callers, not the manager: when it is TRUE no
Add, Start or Shutdown call begins while another is in progress.

### ServiceAssembly and Service

A `ServiceSpec` is kept as what the constructors read: which instance of each group (log level, tuning,
tasks) is given, to the service or to the admin, which are exposed, the servers, and how the admin is
reached. `ServerList`, `AdminServer`, `Managed` and `Refused` are what is made of it; the admin's own part
is a spec of `AdminAssembly`, so that what `NewDefaultAdmin` refuses `NewDefaultService` refuses.

`Service` starts from `Assembled(sp)` of any such spec: which servers are critical, which of them is the
standalone admin, and which task manager is managed. Its steps are the critical sections of `s.mu`, the
calls that block (listen, hooks, `Shutdown` of servers and tasks) and the returns. `caller[c]` is a Start or
Run call and the Wait after it; `exit[i]` is `onServeExit` of server i, in three steps because it checks,
records and starts the shutdown separately; `closer` is `doShutdown`, which `shutdownOnce` starts at most
once:

    none -> begun -> servers -> tasks -> tasksWait -> hooks -> admin -> published -> over
            snapshot of s.listeners      mgr.Shutdown        standalone  waitErr     doneCh

net/http is external: a server told to shut down accepts nothing more and waits for its requests, and
Serve on it returns `ErrServerClosed`, also when it is called later. When the context ends first, Shutdown
fails and Close closes the connections but ends no handler: `requests`, the servers with a handler that has
not returned, stays as it is. The task manager is its state and whether it has a run in progress;
`TaskManager` has the rest.

### TuningTypes, Tuning and OpsTuning

`Tuning` steps are single atomic loads and stores, because readers take no lock: value, source and
time of a write are three steps, and so are the three loads of a `Lookup`. The gate is `held` (the mutex)
and `owner` (the goroutine id stored after taking and cleared before releasing it). Goroutine ids are
parsed from a stack trace; `Anonymous` goroutines have none and share the id 0. A callback sets the
slog level, panics (and is recovered from) or writes to the registry from inside. Time is the number of
writes. Validation and parsing are by type, as in the code: bounds, NaN and the sign of zero, normalizers,
"non-empty". A text is a name whose meaning (`IntOf`, `FloatOf`, ...) the instance gives.

`OpsTuning` adds the handlers: check the request, look the old item up, write, look the new one up, none
of it under a lock of the handler. `OpsAnswers` holds the answers that need no state.

### HttpChain

`req[r]` is what the goroutine that serves a request holds: the layer it is at, the way it goes, what
the layers have put in the context, and the response so far. A request goes down to the handler, which
may write, read the body, panic, abort or time out, and its return or panic comes back up through the
layers. Meanwhile the clock moves, the client may leave, and the sets that `AccessGuard` looks into are
replaced; a guard reads the token set twice. `wrote` keeps each Recover's own idea of whether a
response has begun. A host is the sequence of its labels from the right, an address or entry of a header
a model value with the networks that contain it.

## 3. Runs

| run | instance | shows |
| --- | --- | --- |
| `task_slots` | 2 callers, 2 Shutdowns, 2 slots, merge | slots, ownership of waiters, fresh results, quiet shutdown |
| `task_callers` | 2 callers, 1 Shutdown, 1 slot, merge, errors and panics | the contract; nobody hangs |
| `scheduler` | both modes, 1 caller, 1 Shutdown, 1 slot, skip, 3 ticks | no completion is missed; a tick and the loop end |
| `manager_races` | 3 tasks (2 with one name, 1 scheduled), 1 Shutdown | what holds of any interleaving of the callers |
| `manager_serialized` | 2 tasks, 2 Shutdowns | what holds when callers do not overlap their calls |
| `service` | 3 specs, 1 Run, 1 Shutdown, 1 hook of each kind, 1 request | order of teardown, what Wait's error tells, a full stop in the end |
| `tuning` | 6 variables, 1 handler, 1 direct writer, `LevelVar` | the write gate, settled state, answers, no call hangs |
| `http` | 1 request of 19 kinds, 4 chains, sets updated | panics, limits, guards, addresses, CORS |
| `task_status` | as `task_slots` | violated: see below |
| `manager_late_scheduler` | 2 tasks, 1 Shutdown | violated: see below |
| `manager_lost_add` | 2 tasks, 1 Shutdown | violated: see below |
| `service_late_server` | as `service` | violated: see below |

**Bounds.** `MaxFired` bounds the requests nobody waits for: they come only while fewer runs have
started. Two callers and two such requests with two slots are enough for a run to finish with a merged
run pending while the other slot is busy, for a fresh trigger to take the slot from the merged run, for
the merge back, and for a second take-over. Two Shutdown calls are enough for each to find the other in
every stage; a third adds one case, a call that finds the manager stopped before the tasks are marked,
which the theorems cover and the properties allow for. In `TaskManager` one scheduled and one unscheduled
task, and a third that competes for a name, give every combination of captured state and snapshot.
In `Scheduler` three ticks are one that starts a run, one that meets it and one after its completion.

`Service`: the specs are a worker with its own tasks and a standalone admin server, two servers of which
one is not critical, and a mounted admin that brings a manager the service does not manage. One hook of
each kind is enough to fail before, or to be called after, everything else; `MaxRequests` bounds the
requests in flight: one keeps a shutdown waiting and lets it time out. `Tuning`: one variable of each type,
with valid and invalid texts; the direct writer makes two calls (`Budget`), so that it can write before and
after each step of a handler, and has no goroutine id; callbacks set the level, panic and write. `HttpChain`:
requests share nothing but the sets, so one request beside their updates shows every interleaving;
`MaxTime` is as long as the longest timeout; the chains nest Timeout, BodyLimit and Recover on either
side of each other and hold every kind of guard.

**Pure operators.** An MC module's assumptions are evaluated by every run of it: `GridAssumption`
(`MCScheduler`, width 20: ticks are the next of their grid), `SafegoAssumption` (`MCService`: every
configuration of a wrapper, every outcome, reports that panic themselves: nothing is lost) and
`RefusedAssumption` (what `NewDefaultService` refuses, its mount prefix and admin part included),
`LevelAssumption`, `ReadyAssumption`, `TasksAssumption` (`MCTuning`: names of levels, readiness, hidden
and unnamed tasks), and in `MCHttp` `OptionsAssumption` (what guards and lists refuse), `ReadAssumption` and
`TransportAssumption` (client helpers), `DefaultAdminAssumption`, `AccessAssumption` and `ReportAssumption`
(the admin subtree).

**Deadlock** is not checked: when every call has returned and every run has ended, these systems stop.

**Symmetry** (callers and Shutdown calls are interchangeable) is used in `task_slots` only, which checks
no liveness.

**Fairness.** Weak fairness for each goroutine: a run's own steps, the steps of a Shutdown after its
first, the rest of Start and Add, a scheduler, and a caller that has its result. It stands for the Go
scheduler and for mutexes that are held for finitely many instructions. Two assumptions are about the
user's code: a task function returns, and the timer of a scheduler fires. Nothing is assumed of making
a call, giving up, starting, shutting down or timing out. In `Scheduler` a Shutdown's wait ends by
completion or by time-out, so no fairness of time-outs is needed either; `SchedulerStop` is strongly fair,
because Go's select takes one of the ready cases at random, so not the timer for ever.

`Service`: what has begun goes on: a Start or Run call, a server's goroutine, its drain, `doShutdown`, and the
timer of its context. Hooks return. Nobody has to call anything, and no request, run or server has to end or
fail: it is the timer that ends the wait for a request that does not. `Tuning`: each goroutine keeps
running; how the mutex treats its waiters is not used, as calls are finite. `HttpChain` has safety only.

### What the code does not keep

- `task_status`: of two overlapping Shutdown calls the second may wait, mark the tasks "stopped" and
  return nil before the first has reached `onManagerStopping`, which then marks them "stopping". When
  the first call's context has ended by then, nobody marks them again (`manager.go:186-188, 210-222`).
- `manager_late_scheduler`: a scheduler is added to the wait group outside `startMu`
  (`runtime.go:244`). A Shutdown that overlaps Start, or Add under a running manager, may have waited
  already and returned nil. The late scheduler finds its context cancelled and ends, so the window
  closes by itself, but not before Shutdown has returned.
- `manager_lost_add`: Add reads the manager's state before it registers the task (`manager.go:65, 98`).
  A Start in between neither finds the task nor is seen by Add: the task is never activated.
- `service_late_server`: `doShutdown` copies `s.listeners` while Start may be between two servers
  (`default_service.go:471, 406-419`). A server bound afterwards is in no list that anyone shuts down: Wait
  returns and it goes on serving. `LeftoversTold` shows that the servers in that list do not.

All four need overlapping calls; `manager_serialized` shows that callers that do not overlap Add,
Start and Shutdown calls are not affected by the second and third.

Four places where a comment says something else than the code does, visible in the definitions named:

- With both `ServiceSpec.TasksManager` and `Admin.TaskManager` set the service starts and stops the
  admin's manager, and the given one never (`default_service.go:128-130`; `ServiceAssembly!Managed`).
- A write group without a source is refused before the default instance that `default_service.go:601`
  promises would be created, exposed or not (`default_service.go:133-143`; `ServiceAssembly!Refused`).
- After an informational status a panic is answered by no 500: `Recover` takes a 1xx for the response
  (`mw_recover.go:118-121`), and net/http sends an empty 200 (`PanicAnswered` says so).
- `Lookup` is not a point-in-time view: value, source and time are loaded one after the other while writes
  go on (`int64.go:222-246`). `SettledView` says what does hold.

When the shutdown's timeout expires, a request's handler or a run goes on while tasks are stopped, hooks
are called and Wait returns (`default_service.go:506-516, 529-531`; `http.Server.Close` ends no handler).
The code says so in an error for each server and for the tasks, which is what `TeardownOrder` and
`LeftoversTold` hold it to: what goes on is named. An error that a server's failure records after Wait's
error was put together is in no error, if somebody had asked for the shutdown; `WaitTellsWhy` allows that.

A write that overlaps `LevelVar` itself may leave the slog level behind the variable until the next write,
as its final sync reads the value and stores the level without the gate: `LevelFollows` is about later writes.

## 4. Proofs

Every invariant and action property that a passing run checks is also a theorem, for every value of the
constants that the named assumptions of the modules admit, and so is the refinement of `TriggerContract`.
TLC evaluates those assumptions in every run of their module. Hardly any invariant is inductive as it stands; what
follows says what each was strengthened by, and why it then holds.

**`TaskRuntimeProofs`**, from `ParamsAssumption`: any callers, Shutdown calls and limit, both policies.

- `TypeCorrect`, and from it `SlotsAccounted`: as far as slots are concerned every step starts a run,
  finishes one or leaves them alone (`StepOnSlots`), and each of the three keeps `SlotAccounting`. The
  same lemma gives `NoLateRun`.
- `PendingNeverOrphaned` and `StatusIsTrue` need `Base`: types, slots and `Lifecycle`, which says how
  the states of manager, task and Shutdown calls constrain each other (a stopped manager has no run
  left, a Shutdown that has begun has closed the manager). With it, a pending run under a running
  manager means that every slot is taken: the next run to finish takes it over.

**`TaskContractProofs`** is about those who wait. `Owners(c)` is the set of parties that owe caller c
its answer: a run, a finished run that took it over, the pending run, a Shutdown that drained it.

- `OneOwnerEach`: `Callers` adds to `Base` and `OneOwner` that a run owes nobody once it has delivered
  (`RunsWellFormed`), that a Shutdown holds waiters only between draining and answering (`HeldBetween`),
  and that a call not made is owed nothing (`Untouched`). Each step then moves callers from one party
  to one other.
- `ResultsAreFresh`: `FreshOwners` says of the debts what `FreshResult` says of the answers.
- `ImplementsContract`: initial states map to initial states, and under `Callers` and freshness every
  step maps to a step of `TriggerContract` or a stutter. The contract is about safety; that waiters
  return at all is the liveness of `task_callers`.

**`SchedulerProofs`**: `NoCompletionMissed` by `Scheduled`, the invariant of both loops. Besides
types and slots, `Started` says that a scheduler exists only behind Start and alone stops its task
while the manager runs, so that a request refused means a run in progress or a loop about to end.
The composition adds steps of its own, so `SlotAccounting` is proved of it again. `NextTickIsNext` holds
for every width, base, interval and time with twice the time since the base within the width: that keeps
`d / interval + 1` intervals representable. `GridAssumption` shows what happens up to the limit.

**`TaskManagerProofs`**, from `TasksAssumption`: any tasks and any overlapping calls.

- `RunsEndFirst` from `RunsEnded`: a manager that is not running or stopping has no run, and the wait
  group's wait is over only then. `StoppedForGood` needs types only.
- `SchedulersAreKept`: a scheduler that is still missing is somebody's to spawn, and never two parties'
  (`OneScheduler`). `NamesFindTasks`: `Listed` (who is in `m.tasks`, and that every snapshot holds
  registered tasks), `Indexed` and `Inert`.
- `NothingOutlives`, `AllAreMarked`, `AddedIsActive` carry the hypothesis `Serialized`, without which
  they are false, as two violated runs show. It makes `OneCall` inductive: at most one lifecycle call is
  in progress, Start's steps come while the manager runs and no Add or Shutdown is under way. From it
  follow `AllActive` and `AllEnded` (nothing counted in the wait group, all tasks marked or being marked).

**`ServiceProofs`**, from `ServiceAssumption` (no spec is one the constructor refuses; nil is no error):
their types, and the parts of `Lifecycle`.

- `TearsDownInOrder`: servers drained by one stage stay drained in the next, serve no more and take no
  request, so that one that goes on was there when its server's Shutdown failed (`DrainedStayDown`,
  `DrainedInOrder`); the admin server is untouched before the last stage; no run starts in a manager told
  to stop, and one left over has made its Shutdown fail (`TasksStayDown`).
- `WaitTellsLeftovers`: what was kept by then is published, and nothing begins later (`LeftoversPublished`).
- `WaitTellsTheReason`: whoever is about to start the shutdown has recorded an error before or was asked
  (`ReasonsRecorded`), and the error is true when recorded and stays so (`ErrorsTrue`), because one call of
  Start goes through (`StartsOnce`) and a server that exited is not bound again (`ExitsFollowServers`).

**`TuningProofs`**, from `TuningAssumption` and `OpsTuningAssumption`: any registry of the six types, any
goroutines with and without ids, any requests and direct calls that Go's types admit.

- `ReentrancyDetected`, `WritesAreSerialized`: `Gated` adds that the goroutine inside the gate holds
  the mutex and that an owner's id is found only while its goroutine runs callbacks; `HandlersWait` that
  a handler begins a call only when its last one has returned.
- `TuningTypeCorrect`, `ViewsSettle`, `LevelIsFollowed`: `Stored`. What a goroutine is about to write is
  valid (`CallOf`, from one lemma per type of variable), a source is wrong only between the store of the
  value and its own, and the level is behind only while the callback that sets it is due. The gate makes
  the goroutine that is "between" the only one.
- `AnswersAreOrdered`: `Read` follows a handler from its first lookup to its answer. The time its write
  stores is later than the one it has read, because times only grow.

**`HttpProofs`**, from `HttpAssumption`: any requests, and chains of any length and order of layers that
the constructors can build, with the sets updated and the clock moving at any point. What a guard's options
fold to is assumed there, of the operator `GuardOf`, because a fold is out of reach; so it restricts nothing.

- Six invariants rest on one, `Orderly`: each request is a record of the right shape and `Proper`.
  Its parts say what a request not yet down has (`Untouched`), what derived contexts are (`Contexts`:
  only Timeouts derive them, nested deadlines tighten, a context is live only inside its layer), what hooks
  were told, how the handler ended, what of the body was read, who has written, what the guard under way has
  seen (`Looks`), and for each decided guard, grant and address what justifies it.
- One lemma per action keeps `Orderly` (`...Keeps`); the theorems read their property off it.
- `ForgedPrefixIgnored`: for headers of any length, what stands to the left of the entry that ends the scan
  from the right, which is all a client can add, does not change the address found.

**`HttpClient`**: `LimitIsExact`.

The proofs have corrected the model three times where the instances of section 3 could not: a custom check
behind another guard kept the other's look at the sets, which `GuardJustified` would have blamed on it;
`AddressVouched` spoke of one RealIP with one header, and is about each layer and each header
it is configured with; and the assumptions on constants left values open that Go's types exclude (a `Set`
on a handle takes a value of the variable's type).

**Only model-checked**: liveness under fairness (`EveryWaiterReturns`, both `EveryShutdownReturns`,
`TickEnds`, `SchedulerEnds`, `ServiceStops`, `EveryCallReturns`), which is out of the prover's reach; the
facts about pure operators listed under section 3, over the bounded inputs given there; and that the four
violated properties are violated.

## 5. Plan

Done: tasks with their schedulers and manager, the service, tuning with its handlers, the middleware, the
client helpers, the decisions of ops and admin; theorems for all safety properties. Worth doing next:

1. Proofs: the operators so far checked over bounded inputs (`Safego`, `OpsAnswers`, `AdminAssembly`,
   `ServiceAssembly`) for all inputs where no fold is in the way; the other promises of a task for one
   with a scheduler; ticks in the upper half of the width.
2. The handlers of `ops/task.go` as steps composed with `TaskRuntime`, as those of tuning are with `Tuning`.
3. Several requests through one chain with hot sets that are updated by the admin subtree itself.

## 6. Not modelled

- Rendering: build information, runtime figures, provided snapshots, the layout of reports and responses,
  reports on stderr.
- Option plumbing, validation of names, re-exports (`guard.go`), `SetHeader` and the client options that
  only store a value.
- Hooks and handlers of the user's that only observe, timestamps other than the order of writes, tags.
- What net/http, slog and the runtime do beyond what is said above: they are external.
- Documentation and examples.
