# A TLA+ model of deadpool

This directory is a formal companion of the `deadpool` package: a process pool
that survives the death of its workers (`src/deadpool/_pool.py`) and a remote
broker that shares such a pool between clients (`src/deadpool/remote/`). It
holds TLA+ modules translated from the code, TLC configurations that check them
exhaustively on small instances, and TLAPS proofs of what holds for every
instance. `PROJECT.json` maps each definition to the lines it models and lists
the runs, hazards, findings and theorems.

    cd tla
    tlc -workers 2 -config PoolCapacity.cfg MCPool
    tlapm BrokerProofs.tla

## 1. The system

| part | state | operations | where it is hard |
|---|---|---|---|
| worker process (`raw_runner2`, `WorkerProcess`) | process, job in hand, two pipes, one timer per job | receive, run, reply, time out, exit on `None`, be killed | the timer thread races with the reply; the process dies between any two steps; its pipes break before `is_alive()` says so |
| local pool (`Deadpool`) | backlog (priority queue), `running_jobs` slots, idle queue, busy set, futures, `closed` | `submit`, `runner`, `run_task` with `get_process` / `done_with_process`, `shutdown`, `clear_workers`, `cancel_and_kill_if_running` | one thread per task; counts read without a lock; four places call `task_done`; retries after a broken pipe; shutdown against everything |
| fair scheduler (`FairScheduler`) | per priority: turn order of principals and a FIFO for each; heap of priorities; size | `put`, `put_front`, `pop`, `remove` | removal from the middle of a turn order; put-back after a failed dispatch |
| broker (`DeadpoolServer`) | sessions, records, reservations, staged count, outbound queues, server state | submit, query, cancel (one, group, hard), ack, close, disconnect, dispatch, claim, completion, expiry, shutdown | readers, writers, dispatcher, `run_task` threads and shutdown share one re-entrant lock, and futures call back inside it |
| server start-up and listeners (`DeadpoolServer`) | server state, `ready`, `_stopped`, listeners, raw sockets, connections | `start`, `serve_forever`, `_initialize`, accept, prepare, handshake | shutdown at any point of start-up; a socket that is in no set while the server closes its sets |
| client (`DeadpoolClient`, `RemoteFuture`) | `_futures`, outbound queue, completion slots, callback slots, pending control requests, connection | submit, cancel, receive, complete, acknowledge, lose the connection, run callbacks, shutdown | four threads settle one future; numbers are drawn under a lock and queued outside it; bounded lanes that wait for one another |
| wire protocol (`_protocol.py`) | `_messages` and `_incomplete_bytes` of a reader | chunking, reassembly, comparison of limits | boundaries of chunks and limits; interleaved, lost, repeated and damaged frames |
| transport, serializer, configuration, `_worker.py` | none | sockets, pickling, validation | |

Interaction. `submit` puts a job on the pool's backlog; the runner takes a slot,
takes the first job and starts a `run_task` thread, which takes a worker, writes
the job on its pipe, polls the reply pipe, releases the worker and settles the
future. The broker's readers admit requests and put them in the scheduler; the
dispatcher stages them on the pool; the pool's `run_task` thread asks the broker
to claim the request just before it sends the job (`_before_submit`); the
future's callback records the outcome and tells the client. The client's
submitting threads put messages on one outbound queue, which its sender writes;
its receiver turns the server's reports into jobs for the completion lane, which
settles the future and queues the acknowledgement that lets the server forget
the record.

What makes each part correct:

* worker and pool: at most `max_workers` workers; no worker for two tasks; a
  task never runs twice; a future's outcome is its own; every accepted task
  ends; `shutdown` waits for all of them, returns, and leaves no worker behind;
* scheduler: strict priority, FIFO per principal, nobody passed twice, and a
  consistent heap, turn order and size;
* broker: no accepted request lost or dispatched twice, the first outcome is
  final and is what the client is told, slots and reservations are counted
  exactly, the end of a connection releases what was kept for it, shutdown
  drains;
* start-up: whoever waits for the server to be ready is woken, a shutdown during
  start-up wins, and a stopped server holds nothing;
* client: each future is settled once and never goes back, its exception tells
  the truth about acceptance and execution, callbacks are called once, every
  outcome is acknowledged, shutdown returns;
* protocol: reassembly inverts chunking, refuses what exceeds a limit, and
  accepts everything a correct peer sends.

## 2. Modules

| module | models | extends |
|---|---|---|
| `Worker` | `raw_runner2`, the pipes, `WorkerProcess.shutdown`, `kill_proc_tree` | |
| `Pool` | `Deadpool`, one action per step of each thread | `Worker`; instantiates `TaskPool` |
| `TaskPool` | what the pool promises whoever submits a task | |
| `PoolProofs` | proofs about `Pool`: types, slots, capacity | `Pool`, `TLAPS` |
| `PoolSafetyProofs` | proofs about `Pool`: `task_done`, shutdown, owners of workers, outcomes, starts, supply of workers, with the refinement of `TaskPool` | `PoolProofs`, `SequenceLemmas` |
| `FairScheduler` | `_scheduler.py` as state and operators | |
| `FairSchedulerProofs` | what each operation of the scheduler does and preserves | `FairScheduler`, `SequenceLemmas` |
| `SchedulerSystem` | the scheduler under every sequence of the broker's calls | `FairScheduler` |
| `SchedulerSystemProofs` | proofs about `SchedulerSystem` | `SchedulerSystem`, `FairSchedulerProofs` |
| `Broker` | `DeadpoolServer` from `start()` to `STOPPED`, composed with the scheduler | `FairScheduler`; instantiates `RemoteService` |
| `BrokerProofs` | proofs about `Broker`, with the refinement of `RemoteService` | `Broker`, `FairSchedulerProofs` |
| `RemoteService` | what the server promises the clients of its sessions | |
| `Client` | `DeadpoolClient` and `RemoteFuture`, composed with the server | instantiates `RemoteService` |
| `ClientProofs` | proofs about `Client` | `Client`, `SequenceLemmas` |
| `Wire` | `send_message`, `MessageReader`, the limits compared in the handshake | |
| `WireProofs` | proofs about `Wire` | `Wire`, `TLAPS` |
| `SequenceLemmas` | facts about numbers and sequences that the proofs share | `SequenceTheorems`, `TLAPS` |
| `MCPool`, `MCScheduler`, `MCBroker`, `MCClient`, `MCWire` | constants and symmetry for TLC | |

**Composition.** `RemoteService` stands between the server and the client. Its
steps say that every request goes through its states in order and that each
change of state is put in the message queue of its session, truthfully and in
the order of the changes, or the connection is lost for good. `Broker` is
checked, and proved, to implement it: `KeepsPromise` is `RemoteService`'s specification with
`up` mapped to the connections that have not been closed. `Client` uses its
operators `Report` and `Tell` as the server it talks to, so what the client is
checked against is what the broker was shown to do.

`TaskPool` does the same for the local pool: a task waits, is launched once and only
while its future is pending, starts in one place at most, and is not let go before its
future is done; a future is done once, and what it says has happened. `Pool` is checked,
and proved, to implement it (`KeepsPromise` of `Pool`), with the label and the pid of a
task mapped to its stage. `Broker` uses the pool through an interface of its own, which
adds the claim hook and the bounded backlog; what it expects of a future there, that it
is settled once and that one cancelled in the backlog never runs, is part of `TaskPool`.

**Atomicity.** In `Pool` a step is one operation on shared state that the code
does under one lock or in one queue call; where the code reads two things one
after the other there are two steps. So `get_process` is `CountBusy` (496),
`CountIdle` (498), `AddForTask` (502), `Take` (504) and `Claim`, and
`done_with_process` is `Release`, `ReleaseIdle`, `Retire`/`Keep` and the
branches of its `match`. `pc[t]` follows task `t` through `submit`, the backlog
and its `run_task` thread. In `Broker` everything done under `_condition` is one
step, including the callbacks that a cancellation runs re-entrantly; what is
done outside the lock (the dispatcher with a record in hand, between making the
future, submitting it and attaching the callback) is split. `_initialize` is
split where the lock is released: the first look at the state, the pool, the
listeners, the second look, the clean-up. In `Client` everything under `_lock`
or a future's `_state_lock` is one step; queue operations, sends and waits are
steps of their own, and so are the passes of the loop in `_connection_lost`. A
queue operation with a timeout either finds room or gives up when there is none.
In `Wire` a frame is sent and read whole.

**Data.** A worker is numbered in order of creation; the number stands for its
pid. What a task computes is reduced to what the pool can tell apart: it
returns, raises, never returns, or returns something pickle refuses. `Raises`,
`BadResult`, `Unpicklable`, `Unsendable` and `Hooked` name the tasks that *may*
behave so. A killed process passes through `"closing"`: its pipes are closed
and `is_alive()` still answers True until `Reap`. A reply nobody listens to is
dropped. A future's outcome carries the task that produced it (`of`), so that
a reply delivered to the wrong task can be seen. In `Broker` a session is a
connection, result bytes are counted in units of the session's result limit,
and the local pool is an external component used through its interface: a
bounded backlog, the claim hook, futures that settle, and the retry that claims
again (`PoolTakes`, `Claim`, `ClaimAgain`, `PoolSettles`, `PoolDone`). The
listeners of a server are one. In `Client` a message is its kind and its
request; the thread that cancels request `r` is identified with `r`; an
exception is its class. In `Wire` a byte is its position in its message, so that
bytes of different messages or places differ, and a digest is the payload
itself: SHA-256 is taken to have no collisions.

**History.** `SchedulerSystem.passed` and `arrival`, `Worker.host`, `Broker.view`,
`Client.calls` and `Wire.received` record what happened for the sake of a
property.

## 3. Runs

Each passing run checks one question; its properties are commented where they
are defined.

| run | question | instance |
|---|---|---|
| `PoolCapacity` | do stale counts let the pool outgrow `max_workers`, or strand a task in `workers.get()`? | 3 tasks, 2 slots, `min_workers` 1, workers worn out after 2 tasks: the pool retires, recycles and grows in one behaviour |
| `PoolFaults` | is a worker shared, a result misdelivered or a task run twice when things fail? | 1 slot so that workers are reused; a death, a timer, hard kills, jobs and results that pickle refuses, `clear_workers`, one retry |
| `PoolShutdown` | does `join` count exactly, does shutdown leave anything behind, and does the pool keep what `TaskPool` promises? | 2 slots, backlog of 1, priorities, all four modes, late submissions, cancellations, a job that cannot be sent, a hook that declines, a task that raises |
| `PoolLive` | does everything accepted end, and does shutdown return? | 1 slot, a task that hangs until its timeout, a death, memory checks, all four modes |
| `Scheduler` | are turns, priorities and the order of arrival kept? | 3 principals, 5 items, 2 priorities, any order of put, pop, put-back and removal |
| `BrokerCancel` | is a request lost, staged twice or told two outcomes, and does the server keep what `RemoteService` promises? | 3 requests, 2 staged slots, pool backlog of 1, an outbound queue of 2, cancellation, expiry, duplicates, queries that overflow the queue, messages still in hand after a close |
| `BrokerDisconnect` | do limits hold, and is nothing kept for a client that is gone? | 2 sessions of one principal, limits that bite, group cancellation, policy `terminate` |
| `BrokerLive` | does `start()` return, does every accepted request get an outcome, does shutdown end after them and release everything? | from `CREATED`, with failures of the pool and the listeners; 1 client that connects at any time, 2 requests, policy `continue`, soft and hard cancellation, shutdown at any point with every argument, also called again |
| `ClientCalls` | is a callback lost or repeated, does a future's state go back? | 1 request with everything that can happen to it: slow submission, rejection, both cancellations, a callback, five outcomes, a broken connection, shutdown with and without cancellation |
| `ClientLive` | do futures tell the truth and end, are outcomes acknowledged, does shutdown return? | 2 requests that race for numbers and for an outbound queue of one message, 2 completion slots; rejection, a result that cannot be decoded, a broken connection, shutdown |
| `Wire` | does a reader deliver only whole messages, count its bytes and accept what a correct peer sends? | messages of 0 to 3 bytes (less than a frame, whole frames, a frame and a part), limits that are equal or differ, 2 interleaved messages per end, 2 faults |

Why the bounds are enough. The hazards are between two or three actors: two
`run_task` threads and the runner, one thread and `shutdown`, one reader and the
dispatcher. Two tasks on one slot are the smallest instance in which a worker is
reused; three tasks on two slots the smallest in which two threads take and
release while a third counts. `MaxWorkers` bounds how many processes are
created and never blocks a step of a passing run: a larger value adds no state.
`MaxDeaths`
1 lets the death happen at every point, and a second one is possible through
timers and kills. One retry or two reach the limit of the counter. For
the safety properties that section 5 proves the bounds do not matter at all; the
runs show that the same definitions are not vacuous. The client's
hazards are either in the life of one future, which `ClientCalls` gives every
feature at once, or between two calls that share the queue and the numbers
(`ClientLive`). Start-up is explored with one client in `BrokerLive`, where the
limits on sockets (`MaxSockets`, `MaxAll`) never bite; in the other two runs of
the broker the server runs and its clients are connected (`ColdStart = FALSE`).

Deadlock is checked in `PoolCapacity` and `PoolLive` (`AllDone` stutters once
everything asked for has happened). It is not checked where the system may
really stop: the scheduler, the broker, the client and the wire once their
finite inputs are used up;
`PoolFaults` and `PoolShutdown` because a lost worker, a late submission or a
`shutdown` that raised leaves threads blocked, as described below.

**Fairness.** `Pool`: each thread (`SubmitStep`, `ThreadStep`, `RunnerStep`,
`ShutdownStep`) and each process and timer is scheduled by the operating system;
a function that can return does; an armed timer fires. Nothing obliges a caller
to submit, cancel or shut down, or a worker to die. `Broker`: the dispatcher,
the pool's threads, the shutdown thread and a reader whose connection was closed
are scheduled, and every execution ends (its worker replies, times out or is
lost, which is what `PoolLive` shows of the pool). The thread that serves is
scheduled, and a handshake ends because it has a deadline. Clients are under no
obligation, and `Expire` is not fair. `Client`: the sender, the receiver, the
completion lane and the thread that shuts down are scheduled; a submission that
waits for room gets it or times out; the server reads its messages and ends what
it accepted, which is what `BrokerLive` shows. Callbacks get no fairness at all:
README.rst says that "callback backpressure never blocks transport or Future
state updates", so futures must end although a callback never returns. Nobody is
obliged to submit, cancel or shut down, and the connection need not break.

**Mutants.** Next to an action stands, where a property needs it, a changed
form (`... of X`): a forgotten `task_done`, a slot given back twice, a put-back
of a request that is over. Each property is violated when the form replaces the
action, so each one depends on what the code does.

## 4. Findings

`PoolLeakUnsendable` (`_pool.py:584`) shows a disagreement between the code and
what the repository says of it: a job whose pickling raises anything but
`PicklingError` or `AttributeError` leaves `run_task` without
`done_with_process`. The worker is busy for ever; after `pool_size` such jobs the
pool is stuck. `PROJECT.json` quotes the sentence it contradicts.

Other behaviours the models show, each reproduced by changing one constant or
one property:

* a `submit` that passed the `closed` test puts its job after the runner has
  drained the backlog, and `shutdown` waits in `join()` for ever (`_pool.py:742`;
  `OneCaller = FALSE` in `PoolLive` deadlocks), although
  README.rst:733-734 says that it returns after all submitted tasks;
* a timer that fires between the reply and its cancellation reports its
  `TimeoutError` to the task that uses the worker next (`_pool.py:1025`; add
  `"timeout"` to the states of `OwnResult` and check it in `PoolFaults`);
* a result that pickle refuses is only logged in the worker, and the task waits
  until its timeout, or for ever (`_pool.py:938`; `BadResult = {b}` in
  `PoolLive`);
* with `min_workers = 0` a task that saw a busy worker may wait for it while it
  is retired (504, 528; `MinWorkers = 0` in `PoolCapacity` breaks
  `NeverStranded`);
* `clear_workers` does the same to a task between its count and its `get`
  (459; `MaxClears = 1` in `PoolLive` deadlocks);
* a sentinel that meets a full backlog raises `queue.Full`, which the handler
  does not name; the pool is closed and its runner lives on (775-783);
* `cancel_and_kill_if_running` kills by the pid last stored in the future,
  which may by then serve another task (289);
* a message that a reader has in hand when its session is purged can add a
  record nobody will release (`server.py:1246`; `LateMessages = TRUE` in
  `BrokerDisconnect` breaks `DisconnectReleases`);
* under `continue`, a queued request that expires after its client is gone
  keeps its record and its reservation (`server.py:886`; `Policy = "continue"`
  in `BrokerDisconnect` breaks `DisconnectReleases`), although the comment at
  1229-1233 says that such requests purge themselves;
* `start()` on a server that was served and stopped returns normally, because
  `_serve_thread` is set and `ready` was (`server.py:298`);
* two threads that submit draw their numbers under the lock and queue their
  messages outside it, so the lower number may come second and is rejected as
  `stale_request` (`client.py:284`); the future says so truthfully;
* a completion lane that cannot queue an acknowledgement runs
  `_connection_lost` itself, which waits for a completion slot per future; with
  fewer free slots than pending futures it waits for itself (`client.py:665`;
  `Slots = 1` in `ClientLive` breaks `EveryFutureEnds`);
* `shutdown` of a client waits for the result of every future that was
  registered, also of one whose submission then fails and which nobody settles
  (`client.py:290`, 805); `ShutdownEnds` of `Client` makes that exception.

`EveryTaskEnds` and `ShutdownEnds` of `PoolLive` are therefore claims about a
pool whose jobs and results pickle, whose `min_workers` is positive, whose
workers nobody clears, and whose submitting thread also calls `shutdown`; the
constants say so. The liveness of `ClientLive` is a claim about a client with a
completion slot for every pending call.

## 5. Proofs

Every theorem holds for all values of the constants that satisfy the assumption
of its module (`WorkerAssumption`, `PoolAssumption`, `SchedulerAssumption`,
`ArrivalsAssumption`, `BrokerAssumption`, `ClientAssumption`, `WireAssumption`):
the constants have their types, the sets of tasks, items, sessions and requests
are finite, limits are positive where the code's validation makes them so. Two
conjuncts say more than a type. `BrokerAssumption` has the pool end a request in
any way but `QUEUE_TIMED_OUT`, which only the server sets (`server.py:889`, 912);
and the value that stands for `None` is no item. Two theorems have hypotheses of their
own: `NobodyIsStranded` and `GoneClientsAreForgotten`, below.

In each module the property alone is not inductive. What follows is the
strengthening and why it is needed.

### The pool: `PoolProofs`, `PoolSafetyProofs`

* `TypeCorrect`: `TypeOK` needs to know that a step that indexes a worker's pipe
  has a worker, and that a retry has room below its limit. `TypeInv` adds which
  labels hold a worker (`HeldOK`), that labels before a send have retries left
  (`RetryOK`), that the backlog holds only tasks at `"queued"` (`QueuedOK`), and
  that a running process has a task in hand. Each type is one lemma with one step
  per action.
* `SlotsAreKept`: every live `run_task` thread, and the runner between its `put`
  and its decision, own a slot. The argument counts `Active`: a launch moves the
  runner's slot to a thread; a thread leaves `Active` in the step that gives the
  slot back, or leaks it (688), which keeps the inequality.
* `CapacityIsKept`: `CountIdle` decides to add a worker on an old busy count, so
  `Capacity` needs `Slots`. The thread that decides is itself active and holds no
  worker; the idle queue is empty at that moment; so the holders are at most the
  other active threads. The guard on the stale busy count is not needed.
* `EveryItemIsDoneOnce`, `JoinWaits` (`TaskDoneOnce`, `ShutdownWaits`): `StageOK`
  ties the runner, the sentinel and the stages of `shutdown` together. The sentinel
  is in the backlog exactly while the runner still has to meet it, so `join`, which
  counts unfinished items, cannot pass before the runner has stopped.
* `OneOwner`, `BusyIsFound` (`Exclusive`, `ReleaseFindsWorker`): a thread without a
  worker has `held` 0 and a new worker has a new number (`OwnedOK`); a worker that is
  claimed is in `busy_workers` until it is released, and the `clear()` of
  `shutdown` comes after `join` (`ShutdownInv`).
* `OutcomesAreOwn` (`OwnResult`): what is on a worker's pipes is part of the
  invariant. An idle worker and one that was just taken are `Clean`: no job in the
  inbox, no outcome in the outbox, nothing running. A worker that was sent a job is
  `Asked`, `Runs` or `Answered` for that task, and `done_with_process` returns a
  worker to the idle queue only when it is `Clean` again, because otherwise it is
  dead or marked not `ok`. Reports of timeouts are exempt, as in the property.
* `NoSecondStart`, `CancelledInTime` (`StartsOnce`, `CancelledStaysUnstarted`): a
  task is on one pipe at most and only while it has not started; once its job is
  written, `run_task` has stored the pid before it releases the worker, and it
  retries only without a pid. A future that is done in the backlog stays done, and
  the runner drops it.
* `NobodyIsStranded` (`NeverStranded`): `SupplyInv` says that every busy worker is held
  by the thread that claimed it, and that until `shutdown` is past `join` there is an
  idle worker or a thread that `Brings` one: it adds one, has taken one, or has counted
  so few while releasing its own that it will keep it. `Release` is the delicate step:
  a thread that counts other busy workers may retire its own, but then the thread
  of a busy worker brings one; the last one counts 0. The hypotheses (`Steady`) are that
  `min_workers` is positive, nobody calls `clear_workers`, memory is not weighed
  and jobs pickle. Each is needed: with `MinWorkers = 0` the last worker is retired,
  `clear_workers` takes it, and a process that dies before it is weighed, a pickling
  error for a future that was cancelled meanwhile, and any other exception of
  `send` leave `run_task` without putting a worker back.
* `NoWorkerIsLeft` (`ShutdownLeavesNoWorker`), with no hypothesis: in `LeaveInv` every
  running process is someone's to end (`TendedOK`): a `None` is in its pipe, its timer
  has reported and kills it next, it is idle or busy, `shutdown` has copied it, or a
  thread holds it. A worker marked not `ok` is one of those that are gone or that a
  timer kills (`MarkOK`), so `ReplaceDead` may drop it. When `shutdown` returns, the idle
  queue, the busy set and its copy are empty (`EmptiedOK`) and no thread holds a worker
  (`ShutdownWaits`), so only the first two are left. The exception for a timer is real:
  `timed_out` sends its report before it kills the process, and `shutdown` may return
  in between. It cannot arise in `PoolShutdown`, which has no timeouts, so the run checks
  the property without it.
* `PoolKeepsPromise` (`KeepsPromise`): the refinement, with no hypothesis. `CallerInv`
  adds that a job that was written has its pid published, but for the moment
  between the two (`PublishedOK`), which tells a task that a worker may still start from
  one that was dropped; and that whatever a worker has in hand or has written about has
  started (`BegunOK`). Three lemmas then follow one task through a step:
  `StageMoves`, `PlaceMoves`, `FutureSettles`. The proof showed why `Starts` must allow a task
  that the pool has already given up: a timeout that an earlier task left in the pipe
  (section 4) ends the wait for this one, whose job is still in the worker's inbox.

### The scheduler: `FairSchedulerProofs`, `SchedulerSystemProofs`

`FairSchedulerProofs` proves what `Enqueue`, `Pop` and `RemoveAll` do to the queued
items and that each keeps `Coherent`; the broker's proofs use the same lemmas.
`Without`, the removal from a deque, is a recursive function; what it computes is
proved by taking the least index at which a claim fails (`Least`).
`SystemInv` adds to `Coherent` that the item in the dispatcher's hand is not queued and
came before everything in its queue, so putting it back keeps the order
(`OrderOfArrival`), and that a principal that was passed by another still waits, ahead
of it in the turn order, so it cannot be passed again (`TurnsAreShared`).
`StructuresAgree` and `MostUrgentFirst` follow.

### The server: `BrokerProofs`

`AllInv` (theorem `ServerInvariant`) has these parts: the records are in both tables
and every request without an outcome has one (`RecordOK`); the counters are the
cardinalities of the tables (`CountOK`); where a request is follows from the state
of its future (`FutureOK`): queued with no future, or with a future and not queued;
what the dispatcher has in hand outside the lock has a future that is not yet in the
pool or was settled by a cancellation, until it is submitted (`HandOK`); `staged` counts the
futures whose callback has not run (`StagedOK`); a server that does not run has no
request without an outcome (`LifeInv`); and the scheduler is `Coherent`.

The server has many actions. The lemma `Forms` shows that every step has one of
a few forms: it leaves the requests alone (`Quiet`), gives a set of requests an outcome
(`SomeEnd`), runs the callback of one future (`SomeCall`), is a step of the dispatcher
with a request in hand (`HandStep`), or is a step of one request (`Single`). Each part of
the invariant is then proved once per form. From `AllInv` follow `TypeCorrect`,
`NoRequestIsLost`, `SlotsAreCounted`, `LimitsAreKept`, `OutcomesAreFinal` and
`StopsEmpty`.

`GoneClientsAreForgotten` (`DisconnectReleases`) assumes `Policy # "continue"` and
`LateMessages = FALSE`. Both are needed: section 4 describes the behaviours that
break the property without them. `ReleaseInv` says that before the handshake and
once it is forgotten nothing is kept for a session, and that what is kept for one that is
gone either runs or is about to be purged by its callback.

`ServerKeepsPromise` is the refinement, `Spec => KeepsPromise`, with no hypothesis. For
every session a step tells it something, takes the first message off its queue or
loses it (`Served`). `TellsAll` shows that the messages of a step report every change
of state and nothing else; an outbound queue without room loses the connection, and with
`PromiseInv` its messages, so that a client never sees a gap.

### The client: `ClientProofs`

* `TypeCorrect`: `TypeInv` is sharper than `TypeOK`: messages and jobs that speak of a
  request name one, and what a job carries fits its kind.
* `CallbacksAreCalledOnce` (`CallbackOnce`): the number of calls, the callback's state
  and its place in the dispatcher's queue are tied by `CallbackFor`, and the sentinel
  is the last element of a closed queue (`DispatchOK`).
* `FuturesNeverGoBack` (`NeverBackwards`): the reports about a request are ranked by the
  stage they report. `OrderOK` says that ranks increase along the whole way: the
  future is behind the jobs of the lane, these behind the job in the receiver's
  hand, that behind the reports on the wire, and those not ahead of the server.
* `ExceptionsAreHonest` (`Honest`): `WayOK` says that a submission is in one place, in the
  outbound queue, in the sender's hand or on the wire, and until then the server has not
  seen it; `TruthOK` says that every report, job and verdict was true when it was made and
  that the server's state has only moved on from it. So an exception that says "never
  sent" is set only where the submission can no longer leave.

### The wire: `WireProofs`

* `ChunksHoldPayload`: the number of chunks that `_message_chunk_count` computes
  holds the payload, and one chunk fewer would not, the empty payload excepted,
  which has one.
* `WholeAlways`: `Whole` speaks of delivered messages only, so `Truthful` says of every
  frame on the wire and of every entry of `_messages` that its digest, and the
  control data of a first frame, are those of the message it names. Faults drop,
  repeat or damage payloads and keep that true; at the last frame the digest
  decides. The checks of the index and the length are not needed for `Whole`: they
  limit what a reader stores.
* `StorageIsBounded` (`Bounded`): `_incomplete_bytes` is the number of bytes that the
  unfinished messages hold, each byte named by its message and its place, so the sum
  over the entries is the cardinality of a set and each accepted frame adds an interval
  to it. `CountOK` adds that these sets are finite. `Truthful` is needed, because
  what is subtracted at the end is the message's own total.
* `NoRefusal` (`NeverRefused`): as long as no fault has happened, `FaultFree` says of each
  message that its frames are on the wire in order and without a gap, from the one
  the reader expects to the last one sent, and that the reader holds exactly the bytes
  before them (`InStep`). With equal limits (`SameLimits`) each check of `Accepts` then follows
  from the sender's own chunking, except the two that look at other messages.

### Only model-checked

* Liveness: fairness and `ENABLED` are beyond the prover. These are the temporal
  properties of `PoolLive`, `BrokerLive` and `ClientLive`.

Every invariant and every action property of a run is stated by a theorem, and so are
both refinements.

## 6. Not modelled

* The transport: sockets, TLS, peer credentials, the lock and the path of a Unix
  listener. The serializer, configuration, `_worker.py` and the exports have no
  protocol state; their effects are constants and outcomes of the models.
* In the wire protocol: the bytes of a frame, so partial reads and their
  timeouts, and the validation of JSON control data. A message that is repeated
  as a whole, frame by frame, would be delivered again; nothing in the protocol
  excludes it, TCP does.
* In the client: `_ensure_process`, which rebuilds a client after `fork`; the
  serializer's threads and slots (a submission may be too slow); the queries
  (`get_status`, `get_statistics`, `check_health`, `cancel_group`), which are one
  `_rpc_request` each.
* In the server: several listeners, statistics, authorization hooks beyond their
  verdict.
* In the pool: two concurrent callers of `shutdown`, both of which may pass the
  `closed` test (756) and put a sentinel; it needs a second shutdown thread in
  `Pool`. Also statistics, logging, finalizers' own effects and `atexit`; `map`
  is a loop of `submit`. Memory is a free choice once `max_worker_memory_bytes`
  is set. Child processes of a worker die with it.

## 7. Plan

1. Pool, scheduler, broker with start-up, client, wire, and the refinement of
   `RemoteService` by the server and of `TaskPool` by the pool: done, with the proofs of
   section 5.
2. A second caller of `Deadpool.shutdown`.
3. `TaskPool` as the pool that `Broker` is composed with, the way `RemoteService` is the
   server of `Client`.
