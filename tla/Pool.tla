-------------------------------- MODULE Pool --------------------------------
(***************************************************************************)
(* The local process pool: class Deadpool of _pool.py.                     *)
(*                                                                         *)
(* Threads: the callers of submit, one runner thread, one run_task thread  *)
(* per launched task, at most one caller of shutdown and one caller of     *)
(* clear_workers.  Between two steps of a thread any other may run; a step *)
(* touches shared state that the code touches under one lock or in one     *)
(* queue operation.  pc[t] follows task t from submit() to the end of its  *)
(* run_task thread.                                                        *)
(***************************************************************************)
EXTENDS Worker, Integers, FiniteSets

CONSTANTS
  PoolSize,        \* max_workers
  MinWorkers,      \* min_workers
  MaxBacklog,      \* max_backlog, or 0 for an unbounded backlog
  MaxTasksPerChild,\* max_tasks_per_child, or 0 for None
  CheckMemory,     \* max_worker_memory_bytes is set
  Retries,         \* retry_count of run_task
  Priority,        \* [Tasks -> deadpool_priority]
  Unpicklable,     \* tasks whose pickling may raise Pickling-/AttributeError
  Unsendable,      \* tasks whose pickling may raise any other exception
  Hooked,          \* tasks whose future carries a _before_submit hook
  Cancels,         \* tasks whose future the caller may cancel
  Kills,           \* tasks whose future the caller may cancel_and_kill
  ShutdownModes,   \* the <<wait, cancel_futures>> that shutdown may be given
  OneCaller,       \* TRUE: the thread that submits also calls shutdown
  MaxClears        \* bound: calls of clear_workers

ASSUME PoolAssumption ==
  /\ IsFiniteSet(Tasks)
  /\ PoolSize \in Nat \ {0}
  /\ PoolSize <= MaxWorkers
  /\ MinWorkers \in Nat
  /\ MaxBacklog \in Nat
  /\ MaxTasksPerChild \in Nat
  /\ CheckMemory \in BOOLEAN
  /\ Retries \in Nat \ {0}
  /\ Priority \in [Tasks -> Nat]
  /\ Unpicklable \subseteq Tasks
  /\ Unsendable \subseteq Tasks
  /\ Hooked \subseteq Tasks
  /\ Cancels \subseteq Tasks
  /\ Kills \subseteq Tasks
  /\ ShutdownModes \subseteq [wait : BOOLEAN, cancel : BOOLEAN]
  /\ OneCaller \in BOOLEAN
  /\ MaxClears \in Nat

\* The item that ends the runner; it is no task.
Sentinel == 0

VARIABLES
  submitted_jobs,  \* the backlog: a set of tasks and of the Sentinel
  sequence,        \* [Tasks -> the submission sequence number]
  next_sequence,   \* the next sequence number
  unfinished,      \* unfinished_tasks of the backlog (puts less task_dones)
  running_jobs,    \* slots taken in the bounded queue running_jobs
  workers,         \* queue of idle workers
  busy_workers,    \* set of busy workers
  created,         \* worker_processes_created
  ok,              \* [Workers -> WorkerProcess.ok]
  ran,             \* [Workers -> tasks_ran_counter]
  fut,             \* [Tasks -> outcome of the future]
  pid,             \* [Tasks -> Future.pid, 0 for None]
  running_futs,    \* futures that were handed to a worker
  pc,              \* [Tasks -> where submit() or run_task is]
  held,            \* [Tasks -> the worker run_task holds, or 0]
  seen,            \* [Tasks -> the worker count run_task has read]
  retries,         \* [Tasks -> broken pipes met so far]
  rpc,             \* where the runner thread is
  closed,          \* Deadpool.closed
  spc,             \* where the caller of shutdown is
  mode,            \* its arguments
  todo,            \* futures or workers it has still to deal with
  joining,         \* the worker whose end it waits for, or 0
  cpc,             \* where the caller of clear_workers is
  clears           \* how often it was called

queueVars    == <<submitted_jobs, sequence, next_sequence, unfinished>>
poolVars     == <<workers, busy_workers, created, ok, ran>>
futureVars   == <<fut, pid, running_futs>>
threadVars   == <<pc, held, seen, retries>>
shutdownVars == <<closed, spc, mode, todo, joining>>
clearVars    == <<cpc, clears>>
callerVars   == <<shutdownVars, clearVars>>
vars == <<workerVars, queueVars, running_jobs, poolVars, futureVars,
          threadVars, rpc, callerVars>>

(***************************************************************************)
(* A future is pending until it is cancelled or given an outcome; "of" is  *)
(* the task whose execution produced the outcome.                          *)
(***************************************************************************)
NoTask  == 0
Outcome == [state : {"pending", "cancelled", "result", "error", "timeout"},
            of : Tasks \cup {NoTask}]
Pending == [state |-> "pending", of |-> NoTask]
Done(t) == fut[t].state # "pending"

Submitting == {"new", "putting"}
Idle == Submitting \cup {"queued", "rejected", "end"}

\* run_task, in its order; Holding: run_task holds a worker or is to add one.
Getting  == {"count_busy", "count_idle", "take"}
Holding  == {"add", "claim", "send", "publish", "await", "check", "release",
             "release_idle", "release_backlog", "recycle", "weigh"}
Ending   == {"kill", "finish", "settle", "force"}
Working  == Getting \cup Holding \cup Ending
ThreadPc == Idle \cup Working

RunnerPc   == {"acquire", "pop", "drain", "stopped"}
ShutdownPc == {"open", "cancel", "sentinel", "snapshot", "kill", "join", "idle",
               "busy", "done", "raised"}

QueueTypeOK ==
  /\ submitted_jobs \subseteq Tasks \cup {Sentinel}
  /\ sequence \in [Tasks -> Nat]
  /\ next_sequence \in Nat
  /\ unfinished \in Int
  /\ running_jobs \in Int
  /\ rpc \in RunnerPc

PoolTypeOK ==
  /\ workers \in Seq(Workers)
  /\ busy_workers \subseteq Workers
  /\ created \in 0 .. MaxWorkers
  /\ ok \in [Workers -> BOOLEAN]
  /\ ran \in [Workers -> Nat]

FutureTypeOK ==
  /\ fut \in [Tasks -> Outcome]
  /\ pid \in [Tasks -> Workers \cup {0}]
  /\ running_futs \subseteq Tasks

ThreadTypeOK ==
  /\ pc \in [Tasks -> ThreadPc]
  /\ held \in [Tasks -> Workers \cup {0}]
  /\ seen \in [Tasks -> Nat]
  /\ retries \in [Tasks -> 0 .. Retries]

CallerTypeOK ==
  /\ closed \in BOOLEAN
  /\ spc \in ShutdownPc
  /\ mode \in [wait : BOOLEAN, cancel : BOOLEAN]
  /\ todo \subseteq Tasks \cup Workers
  /\ joining \in Workers \cup {0}
  /\ cpc \in {"idle", "testing", "taking"}
  /\ clears \in 0 .. MaxClears

TypeOK ==
  /\ WorkerTypeOK
  /\ QueueTypeOK
  /\ PoolTypeOK
  /\ FutureTypeOK
  /\ ThreadTypeOK
  /\ CallerTypeOK

Init ==
  /\ WorkerInit(PoolSize)
  /\ submitted_jobs = {}
  /\ sequence = [t \in Tasks |-> 0]
  /\ next_sequence = 0
  /\ unfinished = 0
  /\ running_jobs = 0
  /\ workers = [i \in 1 .. PoolSize |-> i]
  /\ busy_workers = {}
  /\ created = PoolSize
  /\ ok = [w \in Workers |-> TRUE]
  /\ ran = [w \in Workers |-> 0]
  /\ fut = [t \in Tasks |-> Pending]
  /\ pid = [t \in Tasks |-> 0]
  /\ running_futs = {}
  /\ pc = [t \in Tasks |-> "new"]
  /\ held = [t \in Tasks |-> 0]
  /\ seen = [t \in Tasks |-> 0]
  /\ retries = [t \in Tasks |-> 0]
  /\ rpc = "acquire"
  /\ closed = FALSE
  /\ spc = "open"
  /\ mode = [wait |-> TRUE, cancel |-> FALSE]
  /\ todo = {}
  /\ joining = 0
  /\ cpc = "idle"
  /\ clears = 0

-----------------------------------------------------------------------------
(* Shared helpers.                                                         *)

Goto(t, label) == pc' = [pc EXCEPT ![t] = label]

\* set_result / set_exception guarded by fut.done(): a done future keeps its
\* outcome.
Settle(t, state, of) ==
  fut' = IF Done(t) THEN fut
         ELSE [fut EXCEPT ![t] = [state |-> state, of |-> of]]

\* Future.cancel(): no effect on a done future.
Cancel(t) == Settle(t, "cancelled", NoTask)

BacklogFull == MaxBacklog # 0 /\ Cardinality(submitted_jobs) >= MaxBacklog

\* PrioritizedItem order: priority, then submission sequence.  The sentinel
\* sorts last when shutdown waits (sys.maxsize) and first otherwise (-1).
Before(a, b) ==
  IF a = Sentinel THEN ~mode.wait
  ELSE IF b = Sentinel THEN mode.wait
  ELSE \/ Priority[a] < Priority[b]
       \/ Priority[a] = Priority[b] /\ sequence[a] < sequence[b]

IsFirst(j) ==
  /\ j \in submitted_jobs
  /\ \A k \in submitted_jobs \ {j} : Before(j, k)

\* Mutant of AddWorker: the new worker is not put on the idle queue.
AddWorkerUnqueued ==
  /\ created < MaxWorkers
  /\ created' = created + 1
  /\ workers' = workers
  /\ Spawn(created + 1)

\* add_worker_to_pool: start a process and put it at the end of the idle queue.
AddWorker ==
  /\ created < MaxWorkers
  /\ created' = created + 1
  /\ workers' = Append(workers, created + 1)
  /\ Spawn(created + 1)

-----------------------------------------------------------------------------
(* submit().                                                               *)

\* _submit_future: the pool is open; draw a sequence number.
Submit(t) ==
  /\ pc[t] = "new"
  /\ ~closed
  /\ sequence' = [sequence EXCEPT ![t] = next_sequence]
  /\ next_sequence' = next_sequence + 1
  /\ Goto(t, "putting")
  /\ UNCHANGED <<workerVars, submitted_jobs, unfinished, running_jobs, poolVars,
                 futureVars, held, seen, retries, rpc, callerVars>>

\* PoolClosed.
SubmitRejected(t) ==
  /\ pc[t] = "new"
  /\ closed
  /\ Goto(t, "rejected")
  /\ UNCHANGED <<workerVars, queueVars, running_jobs, poolVars, futureVars, held,
                 seen, retries, rpc, callerVars>>

\* submitted_jobs.put(): blocks while the backlog is full.
Put(t) ==
  /\ pc[t] = "putting"
  /\ ~BacklogFull
  /\ submitted_jobs' = submitted_jobs \cup {t}
  /\ unfinished' = unfinished + 1
  /\ Goto(t, "queued")
  /\ UNCHANGED <<workerVars, sequence, next_sequence, running_jobs, poolVars,
                 futureVars, held, seen, retries, rpc, callerVars>>

-----------------------------------------------------------------------------
(* runner().                                                               *)

\* running_jobs.put(None): take a slot; blocks while pool_size tasks run.
RunnerAcquire ==
  /\ rpc = "acquire"
  /\ running_jobs < PoolSize
  /\ running_jobs' = running_jobs + 1
  /\ rpc' = "pop"
  /\ UNCHANGED <<workerVars, queueVars, poolVars, futureVars, threadVars,
                 callerVars>>

\* Mutant of RunnerLaunch: the slot is given back at once.
RunnerLaunchFrees(t) ==
  /\ rpc = "pop"
  /\ IsFirst(t)
  /\ ~Done(t)
  /\ submitted_jobs' = submitted_jobs \ {t}
  /\ running_jobs' = running_jobs - 1
  /\ Goto(t, "count_busy")
  /\ rpc' = "acquire"
  /\ UNCHANGED <<workerVars, sequence, next_sequence, unfinished, poolVars,
                 futureVars, held, seen, retries, callerVars>>

\* Mutant of RunnerLaunch: the future is not looked at.
RunnerLaunchAny(t) ==
  /\ rpc = "pop"
  /\ IsFirst(t)
  /\ submitted_jobs' = submitted_jobs \ {t}
  /\ Goto(t, "count_busy")
  /\ rpc' = "acquire"
  /\ UNCHANGED <<workerVars, sequence, next_sequence, unfinished, running_jobs,
                 poolVars, futureVars, held, seen, retries, callerVars>>

\* Launch the first job's run_task thread, which keeps the slot.
RunnerLaunch(t) ==
  /\ rpc = "pop"
  /\ IsFirst(t)
  /\ ~Done(t)
  /\ submitted_jobs' = submitted_jobs \ {t}
  /\ Goto(t, "count_busy")
  /\ rpc' = "acquire"
  /\ UNCHANGED <<workerVars, sequence, next_sequence, unfinished, running_jobs,
                 poolVars, futureVars, held, seen, retries, callerVars>>

\* Mutant of RunnerSkip: task_done() is forgotten.
RunnerSkipUncounted(t) ==
  /\ rpc = "pop"
  /\ IsFirst(t)
  /\ Done(t)
  /\ submitted_jobs' = submitted_jobs \ {t}
  /\ running_jobs' = running_jobs - 1
  /\ Goto(t, "end")
  /\ rpc' = "acquire"
  /\ UNCHANGED <<workerVars, sequence, next_sequence, unfinished, poolVars,
                 futureVars, held, seen, retries, callerVars>>

\* The first job's future is already done (cancelled): skip the job.
RunnerSkip(t) ==
  /\ rpc = "pop"
  /\ IsFirst(t)
  /\ Done(t)
  /\ submitted_jobs' = submitted_jobs \ {t}
  /\ unfinished' = unfinished - 1
  /\ running_jobs' = running_jobs - 1
  /\ Goto(t, "end")
  /\ rpc' = "acquire"
  /\ UNCHANGED <<workerVars, sequence, next_sequence, poolVars, futureVars, held,
                 seen, retries, callerVars>>

\* Mutant of RunnerStop: task_done() is forgotten for the sentinel.
RunnerStopUncounted ==
  /\ rpc = "pop"
  /\ IsFirst(Sentinel)
  /\ submitted_jobs' = submitted_jobs \ {Sentinel}
  /\ running_jobs' = running_jobs - 1
  /\ rpc' = "drain"
  /\ UNCHANGED <<workerVars, sequence, next_sequence, unfinished, poolVars,
                 futureVars, threadVars, callerVars>>

\* The sentinel: give the slot back and drain the backlog.
RunnerStop ==
  /\ rpc = "pop"
  /\ IsFirst(Sentinel)
  /\ submitted_jobs' = submitted_jobs \ {Sentinel}
  /\ unfinished' = unfinished - 1
  /\ running_jobs' = running_jobs - 1
  /\ rpc' = "drain"
  /\ UNCHANGED <<workerVars, sequence, next_sequence, poolVars, futureVars,
                 threadVars, callerVars>>

\* One round of cancel_all_futures_on_queue, for either caller.
CancelFirst(t) ==
  /\ IsFirst(t)
  /\ submitted_jobs' = submitted_jobs \ {t}
  /\ unfinished' = unfinished - 1
  /\ Cancel(t)
  /\ Goto(t, "end")
  /\ UNCHANGED <<workerVars, sequence, next_sequence, running_jobs, poolVars, pid,
                 running_futs, held, seen, retries>>

RunnerCancel(t) ==
  /\ rpc = "drain"
  /\ CancelFirst(t)
  /\ UNCHANGED <<rpc, callerVars>>

RunnerStopped ==
  /\ rpc = "drain"
  /\ submitted_jobs = {}
  /\ rpc' = "stopped"
  /\ UNCHANGED <<workerVars, queueVars, running_jobs, poolVars, futureVars,
                 threadVars, callerVars>>

-----------------------------------------------------------------------------
(* run_task(): get_process.                                                *)

\* bw = len(busy_workers)
CountBusy(t) ==
  /\ pc[t] = "count_busy"
  /\ seen' = [seen EXCEPT ![t] = Cardinality(busy_workers)]
  /\ Goto(t, "count_idle")
  /\ UNCHANGED <<workerVars, queueVars, running_jobs, poolVars, futureVars, held,
                 retries, rpc, callerVars>>

\* Mutant of CountIdle: a worker is added although one is idle.
CountIdleGreedy(t) ==
  /\ pc[t] = "count_idle"
  /\ Goto(t, IF seen[t] + Len(workers) < PoolSize + 1 THEN "add" ELSE "take")
  /\ seen' = [seen EXCEPT ![t] = 0]
  /\ UNCHANGED <<workerVars, queueVars, running_jobs, poolVars, futureVars, held,
                 retries, rpc, callerVars>>

\* qs = workers.qsize(); a worker is added only if none is idle.
CountIdle(t) ==
  /\ pc[t] = "count_idle"
  /\ Goto(t, IF Len(workers) = 0 /\ seen[t] < PoolSize THEN "add" ELSE "take")
  /\ seen' = [seen EXCEPT ![t] = 0]
  /\ UNCHANGED <<workerVars, queueVars, running_jobs, poolVars, futureVars, held,
                 retries, rpc, callerVars>>

AddForTask(t) ==
  /\ pc[t] = "add"
  /\ AddWorker
  /\ Goto(t, "take")
  /\ UNCHANGED <<cur, inbox, outbox, listening, timer, host, deaths, queueVars,
                 running_jobs, busy_workers, ok, ran, futureVars, held, seen,
                 retries, rpc, callerVars>>

\* Mutant of Take: the worker stays on the idle queue.
TakePeeks(t) ==
  /\ pc[t] = "take"
  /\ workers # <<>>
  /\ held' = [held EXCEPT ![t] = Head(workers)]
  /\ Goto(t, "claim")
  /\ UNCHANGED <<workerVars, queueVars, running_jobs, poolVars, futureVars, seen,
                 retries, rpc, callerVars>>

\* workers.get(): blocks while no worker is idle.
Take(t) ==
  /\ pc[t] = "take"
  /\ workers # <<>>
  /\ held' = [held EXCEPT ![t] = Head(workers)]
  /\ workers' = Tail(workers)
  /\ Goto(t, "claim")
  /\ UNCHANGED <<workerVars, queueVars, running_jobs, busy_workers, created, ok,
                 ran, futureVars, seen, retries, rpc, callerVars>>

Claim(t) ==
  /\ pc[t] = "claim"
  /\ busy_workers' = busy_workers \cup {held[t]}
  /\ Goto(t, "send")
  /\ UNCHANGED <<workerVars, queueVars, running_jobs, workers, created, ok, ran,
                 futureVars, held, seen, retries, rpc, callerVars>>

-----------------------------------------------------------------------------
(* run_task(): submit_job and its errors.                                  *)

\* The framework's hook declines the dispatch.
SendDeclined(t) ==
  /\ pc[t] = "send"
  /\ t \in Hooked
  /\ Goto(t, "release")
  /\ UNCHANGED <<workerVars, queueVars, running_jobs, poolVars, futureVars, held,
                 seen, retries, rpc, callerVars>>

\* submit_job counts the attempt before it writes to the pipe.
CountRun(t) == ran' = [ran EXCEPT ![held[t]] = @ + 1]

\* PicklingError or AttributeError: the future gets it.  When the future is
\* already done, set_exception raises and the worker is not released.
SendUnpicklable(t) ==
  /\ pc[t] = "send"
  /\ t \in Unpicklable
  /\ CountRun(t)
  /\ Settle(t, "error", t)
  /\ Goto(t, IF Done(t) THEN "finish" ELSE "release")
  /\ UNCHANGED <<workerVars, queueVars, running_jobs, workers, busy_workers,
                 created, ok, pid, running_futs, held, seen, retries,
                 rpc, callerVars>>

\* Any other exception of send leaves run_task; the worker is not released.
SendRaises(t) ==
  /\ pc[t] = "send"
  /\ t \in Unsendable
  /\ CountRun(t)
  /\ Goto(t, "finish")
  /\ UNCHANGED <<workerVars, queueVars, running_jobs, workers, busy_workers,
                 created, ok, futureVars, held, seen, retries, rpc, callerVars>>

\* BrokenPipeError: release the worker as not ok, kill it and try again.
SendBroken(t) ==
  /\ pc[t] = "send"
  /\ PipeBroken(held[t])
  /\ CountRun(t)
  /\ ok' = [ok EXCEPT ![held[t]] = FALSE]
  /\ retries' = [retries EXCEPT ![t] = @ + 1]
  /\ Goto(t, "release")
  /\ UNCHANGED <<workerVars, queueVars, running_jobs, workers, busy_workers,
                 created, futureVars, held, seen, rpc, callerVars>>

SendJobTo(t) ==
  /\ pc[t] = "send"
  /\ ~PipeBroken(held[t])
  /\ SendJob(held[t], t)
  /\ CountRun(t)
  /\ Goto(t, "publish")
  /\ UNCHANGED <<proc, cur, outbox, listening, timer, host, deaths, queueVars,
                 running_jobs, workers, busy_workers, created, ok, futureVars, held,
                 seen, retries, rpc, callerVars>>

\* fut.pid = worker.pid; running_futs.add(fut)
Publish(t) ==
  /\ pc[t] = "publish"
  /\ pid' = [pid EXCEPT ![t] = held[t]]
  /\ running_futs' = running_futs \cup {t}
  /\ Goto(t, "await")
  /\ UNCHANGED <<workerVars, queueVars, running_jobs, poolVars, fut,
                 held, seen, retries, rpc, callerVars>>

-----------------------------------------------------------------------------
(* run_task(): wait for the reply.                                         *)

\* poll() finds a reply.  A TimeoutError marks the worker as not ok.
ReadReply(t) ==
  /\ pc[t] = "await"
  /\ outbox[held[t]] # <<>>
  /\ LET m == Head(outbox[held[t]]) IN
       /\ Settle(t, m.kind, m.of)
       /\ ok' = IF m.kind = "timeout" THEN [ok EXCEPT ![held[t]] = FALSE] ELSE ok
  /\ outbox' = [outbox EXCEPT ![held[t]] = Tail(@)]
  /\ Goto(t, "release")
  /\ UNCHANGED <<proc, cur, inbox, listening, timer, host, deaths, queueVars,
                 running_jobs, workers, busy_workers, created, ran, pid,
                 running_futs, held, seen, retries, rpc, callerVars>>

\* Mutant of WorkerDied: a death is handled like a broken pipe, by a retry.
WorkerDiedRetry(t) ==
  /\ pid' = [pid EXCEPT ![t] = 0]
  /\ ok' = [ok EXCEPT ![held[t]] = FALSE]
  /\ Goto(t, "release")
  /\ UNCHANGED <<workerVars, queueVars, running_jobs, workers, busy_workers,
                 created, ran, fut, running_futs, held, seen, retries,
                 rpc, callerVars>>

WorkerDied(t) ==
  /\ Settle(t, "error", t)
  /\ Goto(t, "release")
  /\ UNCHANGED <<workerVars, queueVars, running_jobs, poolVars, pid, running_futs,
                 held, seen, retries, rpc, callerVars>>

\* poll() finds the end of the pipe: recv raises EOFError.
ReadEof(t) ==
  /\ pc[t] = "await"
  /\ outbox[held[t]] = <<>>
  /\ PipeBroken(held[t])
  /\ WorkerDied(t)

\* Mutant of PollEmpty: a cancelled task is no longer waited for.
PollEmptyGivesUp(t) ==
  /\ pc[t] = "await"
  /\ outbox[held[t]] = <<>>
  /\ ~PipeBroken(held[t])
  /\ Goto(t, IF Done(t) THEN "release" ELSE "check")
  /\ UNCHANGED <<workerVars, queueVars, running_jobs, poolVars, futureVars, held,
                 seen, retries, rpc, callerVars>>

\* poll() times out...
PollEmpty(t) ==
  /\ pc[t] = "await"
  /\ outbox[held[t]] = <<>>
  /\ ~PipeBroken(held[t])
  /\ Goto(t, "check")
  /\ UNCHANGED <<workerVars, queueVars, running_jobs, poolVars, futureVars, held,
                 seen, retries, rpc, callerVars>>

\* ...and is_alive() is asked, without looking at the pipe again.
CheckAlive(t) ==
  /\ pc[t] = "check"
  /\ IsAlive(held[t])
  /\ Goto(t, "await")
  /\ UNCHANGED <<workerVars, queueVars, running_jobs, poolVars, futureVars, held,
                 seen, retries, rpc, callerVars>>

CheckDead(t) ==
  /\ pc[t] = "check"
  /\ ~IsAlive(held[t])
  /\ WorkerDied(t)

-----------------------------------------------------------------------------
(* run_task(): done_with_process.                                          *)

\* busy_workers.remove(wp); count_workers_busy
Release(t) ==
  /\ pc[t] = "release"
  /\ busy_workers' = busy_workers \ {held[t]}
  /\ seen' = [seen EXCEPT ![t] = Cardinality(busy_workers \ {held[t]})]
  /\ Goto(t, "release_idle")
  /\ UNCHANGED <<workerVars, queueVars, running_jobs, workers, created, ok, ran,
                 futureVars, held, retries, rpc, callerVars>>

\* count_workers_idle = workers.qsize(); "the 1 is for wp itself"
ReleaseIdle(t) ==
  /\ pc[t] = "release_idle"
  /\ seen' = [seen EXCEPT ![t] = @ + Len(workers) + 1]
  /\ Goto(t, "release_backlog")
  /\ UNCHANGED <<workerVars, queueVars, running_jobs, poolVars, futureVars, held,
                 retries, rpc, callerVars>>

\* Where done_with_process returns to: a worker that was never given the job
\* because its pipe was broken is killed, and the submission tried again.
Released(t) ==
  LET again == pid[t] = 0 /\ ~ok[held[t]] IN
  /\ Goto(t, IF again THEN "kill" ELSE "finish")
  /\ held' = [held EXCEPT ![t] = IF again THEN @ ELSE 0]

\* Mutant of Retire: min_workers itself is not spared.
RetireBelow(t) ==
  /\ pc[t] = "release_backlog"
  /\ seen[t] >= MinWorkers
  /\ submitted_jobs = {}
  /\ ShutdownWorker(held[t])
  /\ Released(t)
  /\ seen' = [seen EXCEPT ![t] = 0]
  /\ UNCHANGED <<proc, cur, timer, host, deaths, queueVars, running_jobs, poolVars,
                 futureVars, retries, rpc, callerVars>>

\* backlog_size == 0 and more workers than min_workers: let this one go.
Retire(t) ==
  /\ pc[t] = "release_backlog"
  /\ seen[t] > MinWorkers
  /\ submitted_jobs = {}
  /\ ShutdownWorker(held[t])
  /\ Released(t)
  /\ seen' = [seen EXCEPT ![t] = 0]
  /\ UNCHANGED <<proc, cur, timer, host, deaths, queueVars, running_jobs, poolVars,
                 futureVars, retries, rpc, callerVars>>

Keep(t) ==
  /\ pc[t] = "release_backlog"
  /\ ~(seen[t] > MinWorkers /\ submitted_jobs = {})
  /\ Goto(t, "recycle")
  /\ seen' = [seen EXCEPT ![t] = 0]
  /\ UNCHANGED <<workerVars, queueVars, running_jobs, poolVars, futureVars, held,
                 retries, rpc, callerVars>>

WornOut(w) == MaxTasksPerChild # 0 /\ ran[w] >= MaxTasksPerChild

\* Not alive or not ok: forget the worker and start another.
ReplaceDead(t) ==
  /\ pc[t] = "recycle"
  /\ ~IsAlive(held[t]) \/ ~ok[held[t]]
  /\ AddWorker
  /\ Released(t)
  /\ UNCHANGED <<cur, inbox, outbox, listening, timer, host, deaths, queueVars,
                 running_jobs, busy_workers, ok, ran, futureVars, seen, retries, rpc,
                 callerVars>>

\* wp.shutdown(wait=False); add_worker_to_pool()
ReplaceLive(t) ==
  /\ ShutdownWorker(held[t])
  /\ AddWorker
  /\ Released(t)
  /\ UNCHANGED <<cur, timer, host, deaths, queueVars, running_jobs, busy_workers,
                 ok, ran, futureVars, seen, retries, rpc, callerVars>>

\* max_tasks_per_child
ReplaceWornOut(t) ==
  /\ pc[t] = "recycle"
  /\ IsAlive(held[t]) /\ ok[held[t]]
  /\ WornOut(held[t])
  /\ ReplaceLive(t)

\* max_worker_memory_bytes is set: the worker's memory is looked up next.
Weigh(t) ==
  /\ pc[t] = "recycle"
  /\ IsAlive(held[t]) /\ ok[held[t]]
  /\ ~WornOut(held[t])
  /\ CheckMemory
  /\ Goto(t, "weigh")
  /\ UNCHANGED <<workerVars, queueVars, running_jobs, poolVars, futureVars, held,
                 seen, retries, rpc, callerVars>>

\* get_rss_bytes: the process is gone, and NoSuchProcess leaves run_task.
WeighFails(t) ==
  /\ pc[t] = "weigh"
  /\ ~IsAlive(held[t])
  /\ Goto(t, "finish")
  /\ held' = [held EXCEPT ![t] = 0]
  /\ UNCHANGED <<workerVars, queueVars, running_jobs, poolVars, futureVars, seen,
                 retries, rpc, callerVars>>

ReplaceHeavy(t) ==
  /\ pc[t] = "weigh"
  /\ IsAlive(held[t])
  /\ ReplaceLive(t)

\* workers.put(wp)
PutBack(t) ==
  /\ \/ /\ pc[t] = "recycle"
        /\ IsAlive(held[t]) /\ ok[held[t]]
        /\ ~WornOut(held[t])
        /\ ~CheckMemory
     \/ /\ pc[t] = "weigh"
        /\ IsAlive(held[t])
  /\ workers' = Append(workers, held[t])
  /\ Released(t)
  /\ UNCHANGED <<workerVars, queueVars, running_jobs, busy_workers, created, ok,
                 ran, futureVars, seen, retries, rpc, callerVars>>

\* Mutant of KillBroken: one try too many.
KillBrokenAgain(t) ==
  /\ pc[t] = "kill"
  /\ KillTree(held[t])
  /\ held' = [held EXCEPT ![t] = 0]
  /\ IF retries[t] <= Retries
     THEN Goto(t, "count_busy") /\ UNCHANGED fut
     ELSE Goto(t, "finish") /\ Settle(t, "error", t)
  /\ UNCHANGED <<outbox, listening, host, deaths, queueVars, running_jobs, poolVars,
                 pid, running_futs, seen, retries, rpc, callerVars>>

\* After a broken pipe: kill_proc_tree, then the next try, or give up.
KillBroken(t) ==
  /\ pc[t] = "kill"
  /\ KillTree(held[t])
  /\ held' = [held EXCEPT ![t] = 0]
  /\ IF retries[t] < Retries
     THEN Goto(t, "count_busy") /\ UNCHANGED fut
     ELSE Goto(t, "finish") /\ Settle(t, "error", t)
  /\ UNCHANGED <<outbox, listening, host, deaths, queueVars, running_jobs, poolVars,
                 pid, running_futs, seen, retries, rpc, callerVars>>

-----------------------------------------------------------------------------
(* run_task(): the finally clause.                                         *)

\* submitted_jobs.task_done()
TaskDone(t) ==
  /\ pc[t] = "finish"
  /\ unfinished' = unfinished - 1
  /\ Goto(t, "settle")
  /\ UNCHANGED <<workerVars, submitted_jobs, sequence, next_sequence, running_jobs,
                 poolVars, futureVars, held, seen, retries, rpc, callerVars>>

\* fut.done(): give the slot back with running_jobs.get_nowait().
FreeSlot(t) ==
  /\ pc[t] = "settle"
  /\ Done(t)
  /\ running_jobs' = running_jobs - 1
  /\ Goto(t, "end")
  /\ UNCHANGED <<workerVars, queueVars, poolVars, futureVars, held, seen, retries,
                 rpc, callerVars>>

\* not fut.done(): "Somehow no result got set on fut."
NoResult(t) ==
  /\ pc[t] = "settle"
  /\ ~Done(t)
  /\ Goto(t, "force")
  /\ UNCHANGED <<workerVars, queueVars, running_jobs, poolVars, futureVars, held,
                 seen, retries, rpc, callerVars>>

\* set_exception, then the slot.  If the caller cancelled the future since the
\* test, set_exception raises and the slot is never given back.
ForceResult(t) ==
  /\ pc[t] = "force"
  /\ Settle(t, "error", t)
  /\ running_jobs' = IF Done(t) THEN running_jobs ELSE running_jobs - 1
  /\ Goto(t, "end")
  /\ UNCHANGED <<workerVars, queueVars, poolVars, pid, running_futs,
                 held, seen, retries, rpc, callerVars>>

-----------------------------------------------------------------------------
(* shutdown(wait, cancel_futures).                                         *)

ShutdownBegin(m) ==
  /\ spc = "open"
  /\ OneCaller => \A t \in Tasks : pc[t] # "putting"
  /\ closed' = TRUE
  /\ mode' = m
  /\ spc' = IF m.cancel THEN "cancel" ELSE "sentinel"
  /\ UNCHANGED <<workerVars, queueVars, running_jobs, poolVars, futureVars,
                 threadVars, rpc, todo, joining, clearVars>>

\* cancel_all_futures_on_queue(submitted_jobs)
ShutdownCancel(t) ==
  /\ spc = "cancel"
  /\ CancelFirst(t)
  /\ UNCHANGED <<rpc, callerVars>>

ShutdownGoto(label) ==
  /\ spc' = label
  /\ UNCHANGED <<closed, mode, clearVars>>

ShutdownCancelled ==
  /\ spc = "cancel"
  /\ submitted_jobs = {}
  /\ ShutdownGoto("sentinel")
  /\ UNCHANGED <<workerVars, queueVars, running_jobs, poolVars, futureVars,
                 threadVars, rpc, todo, joining>>

PutSentinel ==
  /\ spc = "sentinel"
  /\ ~BacklogFull
  /\ submitted_jobs' = submitted_jobs \cup {Sentinel}
  /\ unfinished' = unfinished + 1
  /\ ShutdownGoto(IF ~mode.wait /\ mode.cancel THEN "snapshot" ELSE "join")
  /\ UNCHANGED <<workerVars, sequence, next_sequence, running_jobs, poolVars,
                 futureVars, threadVars, rpc, todo, joining>>

\* put(timeout=2.0) raises queue.Full, which the except clause does not name.
SentinelFull ==
  /\ spc = "sentinel"
  /\ BacklogFull
  /\ ShutdownGoto("raised")
  /\ UNCHANGED <<workerVars, queueVars, running_jobs, poolVars, futureVars,
                 threadVars, rpc, todo, joining>>

\* running_futs = list(self.running_futs)
SnapshotRunning ==
  /\ spc = "snapshot"
  /\ todo' = running_futs
  /\ ShutdownGoto("kill")
  /\ UNCHANGED <<workerVars, queueVars, running_jobs, poolVars, futureVars,
                 threadVars, rpc, joining>>

\* Future.cancel_and_kill_if_running: the process last named by fut.pid is
\* killed, whatever the state of the future.
CancelAndKill(t) ==
  /\ Cancel(t)
  /\ IF pid[t] # 0 /\ proc[pid[t]] # "dead"
     THEN KillTree(pid[t])
     ELSE UNCHANGED <<proc, cur, inbox, timer>>
  /\ UNCHANGED <<outbox, listening, host, deaths, queueVars, running_jobs, poolVars,
                 pid, running_futs, threadVars, rpc>>

ShutdownKill(t) ==
  /\ spc = "kill"
  /\ t \in todo
  /\ CancelAndKill(t)
  /\ todo' = todo \ {t}
  /\ UNCHANGED <<closed, spc, mode, joining, clearVars>>

ShutdownKilled ==
  /\ spc = "kill"
  /\ todo = {}
  /\ ShutdownGoto("join")
  /\ UNCHANGED <<workerVars, queueVars, running_jobs, poolVars, futureVars,
                 threadVars, rpc, todo, joining>>

\* Mutant of ShutdownJoin: shutdown does not wait for the backlog.
ShutdownJoinEarly ==
  /\ spc = "join"
  /\ ShutdownGoto("idle")
  /\ UNCHANGED <<workerVars, queueVars, running_jobs, poolVars, futureVars,
                 threadVars, rpc, todo, joining>>

\* submitted_jobs.join()
ShutdownJoin ==
  /\ spc = "join"
  /\ unfinished = 0
  /\ ShutdownGoto("idle")
  /\ UNCHANGED <<workerVars, queueVars, running_jobs, poolVars, futureVars,
                 threadVars, rpc, todo, joining>>

\* worker.shutdown() and, because it waits, the end of the process.
ShutdownIdle ==
  /\ spc = "idle"
  /\ joining = 0
  /\ workers # <<>>
  /\ ShutdownWorker(Head(workers))
  /\ joining' = Head(workers)
  /\ workers' = Tail(workers)
  /\ UNCHANGED <<proc, cur, timer, host, deaths, queueVars, running_jobs,
                 busy_workers, created, ok, ran, futureVars, threadVars, rpc,
                 closed, spc, mode, todo, clearVars>>

ShutdownBusy(w) ==
  /\ spc = "busy"
  /\ joining = 0
  /\ w \in todo
  /\ ShutdownWorker(w)
  /\ joining' = w
  /\ todo' = todo \ {w}
  /\ UNCHANGED <<proc, cur, timer, host, deaths, queueVars, running_jobs, poolVars,
                 futureVars, threadVars, rpc, closed, spc, mode, clearVars>>

JoinWorker ==
  /\ joining # 0
  /\ ~IsAlive(joining)
  /\ joining' = 0
  /\ UNCHANGED <<workerVars, queueVars, running_jobs, poolVars, futureVars,
                 threadVars, rpc, closed, spc, mode, todo, clearVars>>

\* Mutant of SnapshotBusy: busy_workers is cleared before it is copied.
SnapshotBusyLate ==
  /\ spc = "idle"
  /\ joining = 0
  /\ workers = <<>>
  /\ todo' = {}
  /\ busy_workers' = {}
  /\ ShutdownGoto("busy")
  /\ UNCHANGED <<workerVars, queueVars, running_jobs, workers, created, ok, ran,
                 futureVars, threadVars, rpc, joining>>

\* remaining = list(busy_workers); busy_workers.clear()
SnapshotBusy ==
  /\ spc = "idle"
  /\ joining = 0
  /\ workers = <<>>
  /\ todo' = busy_workers
  /\ busy_workers' = {}
  /\ ShutdownGoto("busy")
  /\ UNCHANGED <<workerVars, queueVars, running_jobs, workers, created, ok, ran,
                 futureVars, threadVars, rpc, joining>>

ShutdownReturns ==
  /\ spc = "busy"
  /\ joining = 0
  /\ todo = {}
  /\ ShutdownGoto("done")
  /\ UNCHANGED <<workerVars, queueVars, running_jobs, poolVars, futureVars,
                 threadVars, rpc, todo, joining>>

ShutdownStep ==
  \/ \E t \in Tasks : ShutdownCancel(t) \/ ShutdownKill(t)
  \/ \E w \in Workers : ShutdownBusy(w)
  \/ ShutdownCancelled \/ PutSentinel \/ SentinelFull \/ SnapshotRunning
  \/ ShutdownKilled \/ ShutdownJoin \/ ShutdownIdle \/ JoinWorker
  \/ SnapshotBusy \/ ShutdownReturns

-----------------------------------------------------------------------------
(* The caller's other operations.                                          *)

\* The caller has the future once submit() has returned.
HasFuture(t) == pc[t] \notin Submitting \cup {"rejected"}

CallerCancels(t) ==
  /\ t \in Cancels
  /\ HasFuture(t)
  /\ ~Done(t)
  /\ Cancel(t)
  /\ UNCHANGED <<workerVars, queueVars, running_jobs, poolVars, pid,
                 running_futs, threadVars, rpc, callerVars>>

CallerKills(t) ==
  /\ t \in Kills
  /\ HasFuture(t)
  /\ ~Done(t) \/ (pid[t] # 0 /\ proc[pid[t]] # "dead")
  /\ CancelAndKill(t)
  /\ UNCHANGED callerVars

\* clear_workers, by any thread.
ClearWorkers ==
  /\ cpc = "idle"
  /\ clears < MaxClears
  /\ clears' = clears + 1
  /\ cpc' = "testing"
  /\ UNCHANGED <<workerVars, queueVars, running_jobs, poolVars, futureVars,
                 threadVars, rpc, shutdownVars>>

\* while not workers.empty()
ClearTests ==
  /\ cpc = "testing"
  /\ cpc' = IF workers = <<>> THEN "idle" ELSE "taking"
  /\ UNCHANGED <<workerVars, queueVars, running_jobs, poolVars, futureVars,
                 threadVars, rpc, shutdownVars, clears>>

\* workers.get(), which blocks while no worker is idle; shutdown(wait=False).
ClearTakes ==
  /\ cpc = "taking"
  /\ workers # <<>>
  /\ ShutdownWorker(Head(workers))
  /\ workers' = Tail(workers)
  /\ cpc' = "testing"
  /\ UNCHANGED <<proc, cur, timer, host, deaths, queueVars, running_jobs,
                 busy_workers, created, ok, ran, futureVars, threadVars, rpc,
                 shutdownVars, clears>>

-----------------------------------------------------------------------------
(* The specification.                                                      *)

SubmitStep(t) == Submit(t) \/ SubmitRejected(t) \/ Put(t)

RunnerStep ==
  \/ RunnerAcquire \/ RunnerStop \/ RunnerStopped
  \/ \E t \in Tasks : RunnerLaunch(t) \/ RunnerSkip(t) \/ RunnerCancel(t)

ThreadStep(t) ==
  \/ CountBusy(t) \/ CountIdle(t) \/ AddForTask(t) \/ Take(t) \/ Claim(t)
  \/ SendDeclined(t) \/ SendUnpicklable(t) \/ SendRaises(t) \/ SendBroken(t)
  \/ SendJobTo(t) \/ Publish(t)
  \/ ReadReply(t) \/ ReadEof(t) \/ PollEmpty(t) \/ CheckAlive(t) \/ CheckDead(t)
  \/ Release(t) \/ ReleaseIdle(t) \/ Retire(t) \/ Keep(t)
  \/ ReplaceDead(t) \/ ReplaceWornOut(t) \/ Weigh(t) \/ WeighFails(t)
  \/ ReplaceHeavy(t) \/ PutBack(t) \/ KillBroken(t)
  \/ TaskDone(t) \/ FreeSlot(t) \/ NoResult(t) \/ ForceResult(t)

\* The processes run on their own and leave the pool's own state alone.
ProcessStep ==
  /\ \/ \E w \in Workers : WorkerStep(w) \/ Die(w)
     \/ \E t \in Tasks : TimerStep(t)
  /\ UNCHANGED <<queueVars, running_jobs, poolVars, futureVars, threadVars, rpc,
                 callerVars>>

\* Everything that was asked for has happened; the pool idles.
AllDone ==
  /\ \A t \in Tasks : pc[t] \in {"end", "rejected"}
  /\ spc \in {"open", "done", "raised"}
  /\ spc = "done" => rpc = "stopped"
  /\ cpc = "idle"
  /\ UNCHANGED vars

Next ==
  \/ \E t \in Tasks : \/ SubmitStep(t) \/ ThreadStep(t)
                      \/ CallerCancels(t) \/ CallerKills(t)
  \/ RunnerStep
  \/ ProcessStep
  \/ \E m \in ShutdownModes : ShutdownBegin(m)
  \/ ShutdownStep
  \/ ClearWorkers \/ ClearTests \/ ClearTakes
  \/ AllDone

Spec == Init /\ [][Next]_vars

(***************************************************************************)
(* Fairness: every thread and every process is scheduled, a function that  *)
(* can return does return, and a timer that is armed fires if the function *)
(* hangs.  Nothing obliges callers to act or workers to die.               *)
(***************************************************************************)
Fairness ==
  /\ \A t \in Tasks : WF_vars(SubmitStep(t) \/ ThreadStep(t))
  /\ WF_vars(RunnerStep)
  /\ WF_vars(ShutdownStep)
  /\ WF_vars(ClearTests \/ ClearTakes)
  /\ \A w \in Workers : WF_vars(WorkerStep(w) /\ ProcessStep)
  /\ \A t \in Tasks : WF_vars(TimerStep(t) /\ ProcessStep)

FairSpec == Spec /\ Fairness

-----------------------------------------------------------------------------
(* Safety.                                                                 *)

ThreadsIn(labels) == {t \in Tasks : pc[t] \in labels}

Holders   == ThreadsIn(Holding)
Active    == ThreadsIn(Working)
Owed      == ThreadsIn(Working \ {"settle", "force"})
RunnerHas == IF rpc = "pop" THEN 1 ELSE 0

\* The pool never has more than max_workers workers that are idle, in use by
\* a run_task thread or about to be added, although get_process decides on a
\* busy count and an idle count that it read at different times (494-512).
Capacity == Len(workers) + Cardinality(Holders) <= PoolSize

\* The bounded queue running_jobs holds a slot for every live run_task thread
\* and for the runner between its put and its decision (463-492, 685-694), so
\* at most pool_size tasks run and get_nowait never finds the queue empty.
Slots ==
  /\ Cardinality(Active) + RunnerHas <= running_jobs
  /\ running_jobs <= PoolSize

\* task_done() is called exactly once for every item put on the backlog, by
\* whichever of the runner, run_task or a cancelling drain took it (472, 486,
\* 686, 846), so join() neither returns early nor raises ValueError.
TaskDoneOnce == unfinished = Cardinality(submitted_jobs) + Cardinality(Owed)

\* No worker is idle twice, held by two run_task threads, or both idle and
\* held: done_with_process puts a worker back only when its task let go of it.
Holds(t, w) == held[t] = w /\ pc[t] \in Holding \cup {"kill"}
Exclusive ==
  /\ \A i, j \in 1 .. Len(workers) : workers[i] = workers[j] => i = j
  /\ \A t, u \in Tasks, w \in Workers : Holds(t, w) /\ Holds(u, w) => t = u
  /\ \A t \in Tasks, i \in 1 .. Len(workers) : ~Holds(t, workers[i])

\* busy_workers.remove(wp) (517) finds the worker: shutdown's clear (822) never
\* overtakes a run_task thread that has still to release its worker.
ReleaseFindsWorker ==
  \A t \in Tasks : pc[t] \in {"send", "publish", "await", "check", "release"}
                     => held[t] \in busy_workers

\* A result or an exception set on a future was produced by its own task, even
\* after cancellations, timeouts and reuse of the worker's pipe (620-662).
OwnResult == \A t \in Tasks : fut[t].state \in {"result", "error"} => fut[t].of = t

\* A run_task thread that waits in workers.get() (504) is never alone: a worker
\* is idle, or another thread is on its way to add one or to give one back.
NeverStranded ==
  \A t \in Tasks :
    pc[t] = "take" => \/ workers # <<>>
                      \/ \E u \in Tasks \ {t} : pc[u] \in Working \ (Ending \cup {"take"})

\* Once shutdown() has passed join() (805) no run_task thread has a task or a
\* worker in hand, also when the put of the sentinel races with submissions;
\* and nothing is left in the backlog unless another thread submits late.
ShutdownWaits ==
  spc \in {"idle", "busy", "done"} => /\ Owed = {}
                                      /\ OneCaller => submitted_jobs = {}

\* When shutdown() has returned, no worker keeps waiting for work: each one is
\* gone, has been told to exit (811-824), or was given up by run_task because
\* its timer has reported and is about to kill it (timed_out, 941-952).
ShutdownLeavesNoWorker ==
  spc = "done" => \A w \in Workers :
                    proc[w] \in Running =>
                      \/ \E i \in 1 .. Len(inbox[w]) : inbox[w][i] = Quit
                      \/ \E t \in Tasks : host[t] = w /\ timer[t] = "sent"

\* A task starts on one worker at most: the retry after a broken pipe (593-607)
\* never runs a job that a worker has already started.
StartsOnce ==
  [][\A t \in Tasks : host[t] # 0 => host'[t] = host[t]
                                     /\ ~(\E w \in Workers : cur[w] # t /\ cur'[w] = t)]_vars

\* A task whose future was cancelled while it waited in the backlog never
\* starts (480-488, 842-851).
CancelledStaysUnstarted ==
  \A t \in Tasks : [](pc[t] = "queued" /\ Done(t) => [](host[t] = 0))

-----------------------------------------------------------------------------
(* The pool implements TaskPool.                                           *)

StageOf(t) ==
  CASE pc[t] \in Submitting -> "new"
    [] pc[t] = "rejected"   -> "refused"
    [] pc[t] = "queued"     -> "waiting"
    [] pc[t] \in Working    -> "running"
    [] pc[t] = "end"        -> IF pid[t] = 0 THEN "dropped" ELSE "over"

Caller == INSTANCE TaskPool WITH
            Places  <- Workers,
            Nowhere <- 0,
            stage   <- [t \in Tasks |-> StageOf(t)],
            place   <- host,
            outcome <- fut

\* To the caller of submit() the pool with all its threads, retries, kills and
\* timers is a TaskPool: a future that is done in the backlog is never launched,
\* a task starts once, no thread leaves a pending future behind (463-492,
\* 581-694), and a result comes from a start of its own task.
KeepsPromise == Caller!TaskSpec

-----------------------------------------------------------------------------
(* Liveness.                                                               *)

\* Every accepted task ends with a done future, whatever dies or is cancelled.
EveryTaskEnds == \A t \in Tasks : pc[t] = "queued" ~> (pc[t] = "end" /\ Done(t))

\* shutdown() returns, and the runner thread ends.
ShutdownEnds == closed ~> (spc = "done" /\ rpc = "stopped")

=============================================================================
