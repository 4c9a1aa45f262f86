# corral in TLA+

Models of [corral](../src), a C++20 library for structured concurrency with coroutines: TLA+ modules translated
from the source, TLC configurations that check them on small instances, and theorems that TLAPS proves for every
instance. `PROJECT.json` names, for each definition, the lines it stands for, and lists components, runs, hazards
and findings.

## The system

A corral program is a tree of tasks (coroutines) on one thread. The parts, bottom up:

- **Awaiter protocol** (`concepts.h`, `detail/utility.h`). Whatever is awaited answers `await_early_cancel()`,
  `await_ready()`, `await_set_executor()`, `await_suspend()`, `await_cancel()`, `await_must_resume()` and
  `await_resume()`, in an order that `AwaiterStateChecker` enforces in debug builds. Cancellation is a request: it
  may succeed at once, succeed later, or be overtaken by completion.
- **Executor** (`Executor.h`, `detail/Queue.h`). A ready queue of callbacks in a ring buffer. Executors of one
  event loop wait for each other; `capture()` runs what is scheduled inside a function before anything else.
- **Promise, Task, TaskAwaiter**. A task is suspended on an awaiter, or has a pending cancellation; the two share
  storage. It ends with a value, an error, or as cancelled, and tells its parent.
- **Nursery**. Holds the tasks started in it; the task that opened it proceeds when none is left. An error cancels
  the rest and is rethrown. `start()` may wait until the new task reports that it has started.
- **Composite awaiters**: `anyOf`/`mostOf`/`allOf`, `then`, `CORRAL_WITH`, `try_`/`catch_`/`finally_`, wrappers.
- **Synchronisation**: `Semaphore`, `Channel`, `ParkingLot`, `Event`, `Value`, `Shared`, `CBPortal`.
- **ThreadPool**: worker threads, the only part where threads race.

## Modules

| Module | Models | State and actions |
|---|---|---|
| `Nursery` | `Nursery.h`, `Promise.h`, the ready queue | Tasks, `tasks_`, the two counters, parent, queue. One action per call a running task makes, per completed operation, per callback. |
| `TaskScope` | what a nursery promises | Opening task, tasks alive, whether an error is due. `Nursery` implements it (`ImplementsTaskScope`). |
| `TaskChain` | `BasePromise`, `TaskAwaiter` | A chain of tasks that await each other, a checker on every link. |
| `AwaiterChecker` | `AwaiterStateChecker` | An automaton; one operator per reported call. |
| `Executor` (`MCExecutor`) | `Executor.h`, `NurseryBase::doCancel()`, `UnsafeNursery::close()` | Executors and the call stack of their thread. |
| `Queue` | `detail/Queue.h` | Operators on a record: cells, head, tail, size. Used by `Executor` and `Channel`. |
| `Stages` | `SanitizedAwaiter`, awaiters in general | A composite with its stages and their checkers; one operator per call a composite makes on a stage. |
| `Sequence`, `With`, `TryBlock`, `Adapters` | `detail/Sequence.h`, `detail/With.h`, `detail/exception.h`, wrappers of `detail/utility.h` | One operator per method, from a state of the composite to the next. |
| `Composites` | those four between a client and awaiters below | One action per call of the client and per completion below. |
| `Mux` (`MCMux`) | `wait.h`, `detail/wait.h` | The combiner and its helpers as a record; nested calls are operators, calls from outside are actions. |
| `Semaphore`, `Channel`, `Shared`, `CBPortal` | the headers of those names | The fields of the class, one action per awaiter method or member function. |
| `WaitQueues` (`MCWaitQueues`) | `ParkingLot`, `Event`, `Value` | The three wait queues, and the walk over one of them that is in progress. |
| `ThreadPool` | `ThreadPool.h` | Slots, queues, program counters. One action per access to shared memory. |
| `SemaphoreProofs`, `Nursery{Invariant,Steps,Proofs}`, `QueueProofs`, `ThreadPoolProofs`, `TaskChainProofs`, `CBPortalProofs` | | Proofs. |

Operators that begin with a comment `FAULT:` are wrong variants of the definition that follows them; each property
is refuted when one of them takes its place.

## What the runs check

Where the code falls short of what one would like to say of it, the models have the situation, and the property names
it as an exception; what is shown then is that there is no other. The exceptions are collected
[below](#where-the-code-is-more-delicate-than-its-comments).

`nursery` — four tasks: the body, two members and an outsider that holds a reference. Counters and lists agree, cancellation
reaches every member, late ones included, and an awaiter of `start()` outlives the start (`Consistent`); no callback
is scheduled twice (`EachCallbackOnce`); the nursery implements `TaskScope`; and it closes (`NurseryCloses`). Two
members and an outsider are the least in which one task is started by another while a third is cancelled. The
outsider is what makes starts outlive the tasks of the nursery. Liveness assumes that the executor runs its queue
(`RunNext`), that a step of a task ends (`StepEnds`), that an operation completes after it was asked to cancel or
does so eventually (`Complete`; strong fairness for completing as cancelled, as the operation may be asked late).
The run does not check for deadlock, because of the following.

`nursery_pending` — the one expected violation. `NurseryStartAwaiter::continuation()` (`Nursery.h:554`) decrements
`pendingTaskCount_` but never looks whether the nursery can close now. If a start awaited by an outsider ends without having
started after the last member has, the parent stays suspended for ever, although `Nursery.h:155-156`
says that once all tasks have exited, execution proceeds in the parent. `NurseryCloses` therefore speaks of
behaviours in which only members await starts.

`task_chain` — chains of up to four tasks. No checker objects (`CheckersSilent`), a task that returned or threw is heard even by a parent
that was asked to stop (`ResultsHeard`), and no request is lost although the flag shares its storage with the awaiter
(`RequestNotLost`), with one exception: a request that arrives inside an `await_suspend()` that then throws is not known to the task
that called it, nor to those it goes on to await; the tasks above it know. Four levels have two tasks that are neither the first nor the last.

`composites` — every composite, with all combinations of answers below that `Stages` offers and any client. It keeps to
the protocol on both sides and no assertion fails (`ProtocolKept`), except for a `Sequence` whose second stage throws from
`await_suspend()` and a `With` in a situation that `WithStrained` lists. Short of those it forgets nobody (`NeverStranded`); it
swallows no exception (`ErrorsHeard`), passes cancellation on (`CancelPassedOn`), runs finally blocks after the others
are gone and never cancels them (`FinallyRuns`), and keeps the background stage usable (`BackgroundStays`). An assertion that
fails ends the program, and with it the behaviour. There is no bound: a composite has finitely many states.

`mux` — all three combiners over all pairs of kinds of children, and over triples of those kinds that differ in how they start,
whether they can be dropped before that, and whether their cancellation succeeds at once. The task is resumed once, when
all children are done (`ResumedOnceDone`), except that a child that ends while it is being started may, with three children or
more, have a later one counted twice (`CountsTwice`). No assertion fails (`AssertionsHold`), except then, and when such
a child has an Abortable one started that cannot be dropped before (`Overpromises`). Losers are cancelled; nothing is swallowed.

`executor` — three executors on one or two event loops; three callbacks, two captures, one explicit
`drain()`, and destruction whenever the assertion of `~Executor()` allows it. Callbacks of one loop are
not nested unless asked for (`NotNested`); each runs once, in order, if it was not in a captured list of an executor that is destroyed
(`EachOnceInOrder`). Nothing is left behind when the thread returns to the event loop (`Drained`) but what belongs to executors that were
given their turn during their own `capture()` (`missed`) or destroyed while something still needed them (`kept`), or waits in one of these. No pointer to a dead
executor is left (`NoStaleExecutor`) but to those that `StillNeeded` describes. Three executors are needed for one to wait
in another that waits in a third. They are interchangeable. A behaviour ends where the code would use an executor that is gone.

`semaphore` — four users, one permit and one that is posted: permits are conserved, waiters served in order, and
all of them are. Fairness: woken tasks run, awaiters are awaited or destroyed, holders give back.

`channel` — two readers, two writers, bounded (2) and unbounded (filled up to 3), single and range transfers.
Every claim is covered, nobody sleeps beside something to do, and objects come out once and in order while the ring
buffer wraps and grows. `MinGrowth` is 2 instead of 8 so that it grows.

`shared` — four parents, every kind of awaitable, parents with and without a pending cancellation. The operation runs exactly while
somebody waits for it and is cancelled only with the last parent (`Supervised`), and every parent that waits gets its result or is cancelled
(`ResultReachesAll`; the comments name the one exception, `Shared.h:223`). The awaitable is used as an awaiter must be (`UsedAsAwaiter`) unless
its `await_ready()` is false after it has completed (it may be suspended on again), or its first parent has a pending cancellation
that it cannot honour at once (a result it does not have is fetched). Fairness: the operation completes, the executor drains its queue.

`cb_portal` — one or two portals, all overloads, three proxies and five calls, foreign code and task on one stack; initiate functions
return or throw. The proxy outlives its use, no call is lost or answered by a cancellation, and no request is lost but one made
inside an initiate function that throws afterwards.

`wait_queues` — three tasks, two values, walks from inside and outside the executor, interchangeable tasks. Of those that waited when a
walk began, and have not left, each is still in its list or has been woken, not both, and nobody else is (`WokenOnce`); nobody
sleeps beside a triggered event, or beside a value that matches, but for tasks in the local list of a `modify()` in the middle
of which another one ran. What a task is given is a transition that happened (`YieldsTransition`).

`thread_pool` — two workers, two slots, three tasks: with three the queue is full, the backoff queue is used, and
two workers meet in one slot. Counters wrap at 8. Every task is in one place, no worker sleeps beside a task,
cancellation tokens are honoured, every task is resumed. Fairness: each thread is scheduled, functions return.

## What is proved

For any sets of users, tasks and threads (finite), any number of permits, slots, portals and calls, any depth of a chain
of tasks, and any capacity of a queue:

- `SemaphoreSafe`: types, the queue holds each waiting task once, no free permit beside a waiting task, and
  `PermitsConserved`. The conjunction is inductive; `PermitsConserved` alone is not, since a release must know that the
  oldest waiter does not own a permit yet, which the agreement of queue and states says.
- `SemaphoreFair`: `FirstComeFirstServed`, from the same invariant.
- `NurserySafe`: `TypeOK` and `Consistent`. The inductive invariant `IInv` (`NurseryInvariant`) adds that the callbacks in
  the queue run ready tasks, once each, and destroy dead frames (`QueueOK`); that each live task is a member, being
  started, or an outsider (`LifeOK`); that each start has a starter of its own that waits for it and shares its
  cancellation (`PendingOK`); that members are cancelled exactly if the nursery is; and that nothing has happened before
  it is opened. Without `QueueOK` a finished task could be run again, without `LifeOK` a member could leave twice and
  the counter go wrong, and without `PendingOK` a start could be cancelled under a starter that runs.
  There is one lemma per action (`NurserySteps`); what several of them share, such as the ends of tasks, is in `NurseryInvariant`.
- `NurseryFirstError`: a stored error is never replaced.
- `NurseryCallbacksOnce`: `EachCallbackOnce`, and `NurseryIsTaskScope`: `ImplementsTaskScope`, the refinement of `TaskScope`. Both
  rest on `IInv` together with `QInv` (`NurseryInvariant`), which says that the queue serves the ready tasks, the dead frames and
  the parent exactly (`Serves`), and destroys frames before it resumes the parent; that the frame of a task that ended before it was
  started belongs to a starter about to run or itself about to be destroyed (`OwnersKept`); and that no dead frame is left once the parent
  is scheduled to run. `QueueOK` alone does not do: it says that what is queued is right, not that nothing is missing. The order
  in the queue is what lets the parent go on only when no frame is left; without `OwnersKept` a frame could be left to
  nobody. There is a lemma per action about the queue after it (`After...`), and lemmas (`...InScope`) that map the steps: most
  take frames away or store an error, and the others are births, the opening and the resumption of the parent.
- `QueueProofs`: each operation of the ring buffer does to the sequence of its elements what its name says
  (`QueueStartsEmpty`, `QueuePushes`, `QueuePops`, `QueueGrows`, `QueueAppends`, `QueuePopsTo`, `QueueReplaces`). The predicate
  `Holds(q, s)` relates the record to the sequence: the k-th element is k places behind `head_`, round the end of the buffer
  if need be, `tail_` is `size_` places behind it, and the other cells are empty. Each theorem takes a queue that holds a sequence to one
  that holds the right other sequence, so they chain over any series of calls. `QueueContents` links `Holds` to the operator
  with which the properties of `Executor` are stated.
- `ThreadPoolOnePlace`: `OnePlace`, the conjunct of `EachTaskOnce` about where tasks are, and `ThreadPoolCancelTokens`:
  `CancelTokenHonoured`. The invariant `Inv`, inductive by itself, says that slots, hands and the three lists hold no task twice (`Once`)
  and share out the submitted tasks (`Somewhere`), that a worker has a task exactly while it runs one (`Hands`), that
  `drainCQ()` takes a new list only after the last one (`BatchDone`), and that the confirmed tokens are those of which a function was
  told (`Tokens`). `CancelTokenHonoured` alone is not inductive: a worker could confirm a cancellation after the task was resumed,
  if the task could be in its hands and in the list of `drainCQ()` at once. The stride and the order in which slots are
  claimed play no part in these two.
- `ThreadPoolNoLostWakeup`: `NoLostWakeup`, and `ThreadPoolEachTaskOnce`: all of `EachTaskOnce`, the assertions of the destructor
  included. The inductive invariant `Pool` adds three things to `Inv`. `InStep`: there are numbers of claims and of requests made so far that
  explain both counters, and the workers at a slot are as many as requests in it, 0 or 1, plus the turns by which claims lead requests there
  (`Balanced`; `Lead` is 1, 0 or, where requests lead, -1). `Waiting`: at most one worker at a slot has found it empty, its flag is set
  while it waits, and `NoLostWakeup`. `Closing`: exit requests are pushed only when no task is left, and those pushed are in a slot or have been
  obeyed. `NoLostWakeup` alone is not inductive: a second worker at the slot could clear the flag under the first one. It is `Balanced` that says
  there is none, and it needs that consecutive turns visit all slots, hence that stride and capacity have no common divisor.
- `CheckersStaySilent`, `NoRequestLost` and `EveryResultHeard`: the three properties of `TaskChain`. The inductive invariant
  `IInv` says that all tasks but the innermost are suspended on the next one, with a checker in the state that such a
  suspension leaves, and with the continuation that a request, if there was one, has given them (`Awaiting`); that the
  innermost is running, suspended on an operation or about to run (`Innermost`); and that nothing runs or is
  queued when the first task is over. `NoRequestLost` has the exception of `RequestNotLost`, the tasks from `deaf` on; the
  invariant says that there are none once that task is over. A request runs down the chain and an end runs up it, so the lemmas about those two speak
  of any part of a chain (`Above`), not of one step.
- `ProxyOutlives`, `CallbacksKeepUp`, `RequestsHonoured` and `CallBeats`: the four properties of `CBPortal`. The inductive
  invariant `IInv` describes the stack: a step of the task is on top or nowhere (`TaskOnTop`), and an initiate function whose
  proxy is not completed is on top, is the one of the last proxy, and the task is suspended there (`Initiating`). It adds what
  the proxy remembers of requests (`OnProxy`), that a portal with a parent is empty, and that nobody
  may call it if the task does not wait for it, as after an initiate function that threw (`Registered`), and who may still call (`Bridges`). `ProxyOutlivesUse` alone is not inductive: a cancellation could destroy the task while its initiate
  function is on the stack, were it not for the status of the proxy.

The assumptions are those named in the modules (`SemaphoreAssumption`, `NurseryAssumption`, `QueueAssumption`,
`ThreadPoolAssumption`, `MaxDepthAssumption`, `CBPortalAssumption`): finiteness, positive sizes, which sets contain
which constants, and of the pool that there are no more threads than slots, and that the capacity divides the modulus of the counters and
has no factor in common with the stride, as the constructor ensures (`ThreadPool.h:416-418`, `502-505`).

Only model-checked: everything else, in particular all liveness (fairness is out of the prover's reach), `Mux` and `With`,
which are recursive, and the properties of `Channel`, `Shared`, `WaitQueues`, `Executor` and `Composites`. `Composites` has
no constants and finitely many states, so that its run is complete.

## How the models abstract

Values are not told apart, except where a property is about them (numbers in `Channel`, transitions in `WaitQueues`,
callbacks in `Executor`). An error and an exception are one thing. User code is any sequence of calls the model
allows. In particular:

- `Nursery`: one level of starts that wait; a task calls `TaskStarted` itself; the callable that opens a nursery starts
  nothing before it returns; a callable passed to an awaited `start()` does not throw before it returns a task (the code
  asserts this, `Nursery.h:505`). An operation may complete at any time after it was suspended on.
- `ThreadPool`: memory is sequentially consistent. The code uses acquire and release; between the store of `dequeuing`
  and the wait (`ThreadPool.h:516`, `555`) this is stronger than what the language promises. 64-bit counters wrap at `Width`.
- `Channel`: `CORRAL_ASSERT` is compiled out.
- `CBPortal`: the task is cancelled through a nursery; portals hold no value when `untilCBCalled()` is called. An initiate function that
  throws has called no callback, and leaves none to be called.
- `WaitQueues`: awaiters are constructed where they are awaited.
- `TaskChain`: `cancel()` is called once.
- `Executor`: the function passed to `capture()` resumes tasks or schedules callbacks, as in its two uses.
- `With`: the function that makes the second stage does not cancel the awaiting task.
- `Adapters`: what `untilCancelledAnd()` runs does not fail; the code ends the program then (`detail/utility.h:810`).

## Where the code is more delicate than its comments

Met while modelling, and visible in the models unless it is said otherwise; where a property would be violated it names the
situation as an exception. Except for `nursery_pending` no run is devoted to them.

- `Promise.h:338`: when `await_suspend()` throws, the cancellation flag is restored as it was read at line 310. A request that arrived in
  between has gone to an awaiter that is now dead, and is lost for this task (`ThrowsCancelled`, `deaf`).
- `CBPortal.h:483`: one such `await_suspend()` is that of a proxy whose initiate function throws. Portals passed to it by reference keep
  their `parent_`: a callback called later would resume a task that does not wait (this last is excluded, see above).
- `Executor.h:151` takes a pending turn back from `buffer_` of the other executor, not from a list that is being captured; and a
  nested `drain()` restores `current()` to an executor that may have been destroyed meanwhile (`StillNeeded`). An explicit `drain()`
  inside a captured callback can use up the turn of an executor that is busy, whose later callbacks are then not "slated
  to run soon" (`Executor.h:217`) and wait for the next call of `runSoon()` (`missed`). That `doCancel()` ends with `runSoon()` is
  what `Drained` needs otherwise.
- `With.h:231`: with a second stage that is cancelled on the spot and a first that is slow, the assertion fails, and the
  second stage is not destroyed before the first is cancelled, as `With.h:382` promises. If both stages throw, the exception of
  the first is dropped and its checker objects (`utility.h:226`). Both were confirmed with compiled programs.
- `With.h:435`: `TaskStarted` called by the function that makes the first stage, and a second function that throws: the
  unconstructed first stage is cancelled. A pending cancellation together with a first stage that throws from
  `await_suspend()`: `await_must_resume()` is called on an awaiter that is done (`With.h:348`). If `TaskStarted` was called
  early and With is cancelled after its executor is set, the second stage is destroyed in the wrong state. `WithStrained` has all of these.
- `Sequence.h:301`: a second stage that throws from `await_suspend()` ends the program.
- `exception.h:195`: `catch_(Ellipsis)` does not set `exceptionHandled_`, so the exception of a try block is rethrown when that
  catch block is cancelled; with a typed one it is not.
- `Channel.h:739`: a range `trySend()` on a closed unbounded channel delivers. A sender woken before `close()` still delivers
  (`Channel.h:689`).
- `wait.h:130`, `248`: a child can be counted twice when a mux is cancelled early. `wait.h:430`: Abortable children that are not
  Skippable break the promise that cancellation succeeds at once (`CountsTwice`, `Overpromises`).
- `ThreadPool.h:463`: a tick posted before the pool was destroyed runs afterwards (`NoStaleTick` states its absence).
- `Shared.h:435`: between completion and the first fetch of the result `parents_` is empty, and a newcomer takes itself for the first; if the
  awaitable's `await_ready()` is false by then, it is suspended on again.
- `Shared.h:210`: early cancellation of the first parent fetches the result of an awaitable that never started;
  `Shared.h:223`: early cancellation may hit an operation that has completed; late parents meet an assertion where
  `Shared.h:52` speaks of an exception.
- `Value.h:378`: a task that runs inside `modify()` and modifies again leaves a waiter of the outer walk asleep beside a
  value that matches (`missed` in `WaitQueues`).
- `Nursery.h:529`: a task that throws while a cancelled `start()` waits for it loses its exception.

## Not modelled

- `UnsafeNursery::join()`, `asyncClose()` and the reference counting of `openNursery()`: they share `NurseryBase` with `Nursery`,
  but have another parent (a continuation, or a task that comes later), for which there is no abstract specification.
- `run()`, `Runner`, event loop traits and the asio bridge: the event loop is not in the repository.
- `DegenerateThreadPool`: runs everything inline.
- Error policies, builders, macros, `Optional`, `PointerBits`, frames, `ABI`: type-level code and data layout.
- Introspection and traces: diagnostics.
- `yield()`, `noop()`, `suspendForever`, `CoTry`: hardly any state.
