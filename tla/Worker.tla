------------------------------- MODULE Worker -------------------------------
(***************************************************************************)
(* One worker subprocess per element of Workers, with the two pipes that   *)
(* join it to the pool: WorkerProcess and raw_runner2 of _pool.py.         *)
(*                                                                         *)
(* Workers are numbered in the order in which the pool creates them, so a  *)
(* worker's number stands for its pid and is never reused.  What a task    *)
(* computes is abstracted to what the pool can tell apart: whether it      *)
(* returns, raises, never returns, or returns a value that pickle refuses. *)
(***************************************************************************)
EXTENDS Naturals, Sequences

CONSTANTS
  Tasks,        \* the jobs that callers submit
  MaxWorkers,   \* bound: how many workers the pool may create
  MaxDeaths,    \* bound: how many workers die by themselves (OOM, crash)
  HasTimeout,   \* tasks submitted with deadpool_timeout
  Hangs,        \* tasks whose function never returns
  Raises,       \* tasks whose function may raise
  BadResult     \* tasks whose function may return a value pickle refuses

ASSUME WorkerAssumption ==
  /\ MaxWorkers \in Nat
  /\ MaxDeaths \in Nat
  /\ HasTimeout \subseteq Tasks
  /\ Hangs \subseteq Tasks
  /\ Raises \subseteq Tasks
  /\ BadResult \subseteq Tasks
  /\ 0 \notin Tasks

Workers == 1 .. MaxWorkers

\* "None" on the work pipe asks the worker to exit, and is no task.
Quit == 0

VARIABLES
  proc,       \* [Workers -> state of the process]
  cur,        \* [Workers -> the task in hand, Quit when there is none]
  inbox,      \* [Workers -> jobs the pool wrote and the worker has not read]
  outbox,     \* [Workers -> replies the worker wrote and nobody has read]
  listening,  \* [Workers -> the pool still holds the reply pipe open]
  timer,      \* [Tasks -> state of the threading.Timer of the task]
  host,       \* [Tasks -> the worker that started the task, or 0]
  deaths      \* how many workers died by themselves

workerVars == <<proc, cur, inbox, outbox, listening, timer, host, deaths>>

(***************************************************************************)
(* "closing": the kernel has closed the pipes of a terminated process but  *)
(* waitpid does not report it yet, so is_alive() still answers True.       *)
(***************************************************************************)
Running   == {"waiting", "running", "replied"}
ProcState == {"none", "closing", "dead"} \cup Running
Kind      == {"result", "error", "timeout"}
Message   == [of : Tasks, kind : Kind]

WorkerTypeOK ==
  /\ proc \in [Workers -> ProcState]
  /\ cur \in [Workers -> Tasks \cup {Quit}]
  /\ inbox \in [Workers -> Seq(Tasks \cup {Quit})]
  /\ outbox \in [Workers -> Seq(Message)]
  /\ listening \in [Workers -> BOOLEAN]
  /\ timer \in [Tasks -> {"off", "armed", "fired", "sent"}]
  /\ host \in [Tasks -> Workers \cup {0}]
  /\ deaths \in 0 .. MaxDeaths

\* The first n workers exist and wait for work.
WorkerInit(n) ==
  /\ proc = [w \in Workers |-> IF w <= n THEN "waiting" ELSE "none"]
  /\ cur = [w \in Workers |-> Quit]
  /\ inbox = [w \in Workers |-> <<>>]
  /\ outbox = [w \in Workers |-> <<>>]
  /\ listening = [w \in Workers |-> TRUE]
  /\ timer = [t \in Tasks |-> "off"]
  /\ host = [t \in Tasks |-> 0]
  /\ deaths = 0

-----------------------------------------------------------------------------
(* What the pool does to a worker.                                         *)

IsAlive(w) == proc[w] \in Running \cup {"closing"}
PipeBroken(w) == proc[w] \in {"closing", "dead"}

\* WorkerProcess(): start the process.
Spawn(w) == proc' = [proc EXCEPT ![w] = "waiting"]

\* connection_send_msgs_to_process.send(job), when the pipe is whole.
SendJob(w, job) == inbox' = [inbox EXCEPT ![w] = Append(@, job)]

\* WorkerProcess.shutdown(wait=False): stop listening and ask it to exit.
ShutdownWorker(w) ==
  IF IsAlive(w)
  THEN /\ listening' = [listening EXCEPT ![w] = FALSE]
       /\ outbox' = [outbox EXCEPT ![w] = <<>>]
       /\ inbox' = IF PipeBroken(w) THEN inbox
                   ELSE [inbox EXCEPT ![w] = Append(@, Quit)]
  ELSE UNCHANGED <<listening, outbox, inbox>>

\* The process is gone: its job, its unread work and its timers with it.
Terminate(w, state) ==
  /\ proc' = [proc EXCEPT ![w] = state]
  /\ cur' = [cur EXCEPT ![w] = Quit]
  /\ inbox' = [inbox EXCEPT ![w] = <<>>]
  /\ timer' = [t \in Tasks |-> IF host[t] = w THEN "off" ELSE timer[t]]

\* kill_proc_tree(pid, SIGKILL) from the pool: signals, then waits for the end.
KillTree(w) == Terminate(w, "dead")

-----------------------------------------------------------------------------
(* The worker's own steps: raw_runner2.                                    *)

\* conn_send_safe: a reply nobody listens to is dropped.
Reply(w, t, kind) ==
  outbox' = IF listening[w]
            THEN [outbox EXCEPT ![w] = Append(@, [of |-> t, kind |-> kind])]
            ELSE outbox

\* Receive a job, start its timer and enter the function.
Recv(w) ==
  /\ proc[w] = "waiting"
  /\ inbox[w] # <<>>
  /\ LET t == Head(inbox[w]) IN
       /\ t \in Tasks
       /\ cur' = [cur EXCEPT ![w] = t]
       /\ host' = [host EXCEPT ![t] = w]
       /\ timer' = [timer EXCEPT ![t] = IF t \in HasTimeout
                                        THEN "armed" ELSE "off"]
  /\ inbox' = [inbox EXCEPT ![w] = Tail(@)]
  /\ proc' = [proc EXCEPT ![w] = "running"]
  /\ UNCHANGED <<outbox, listening, deaths>>

\* The function returns or raises, and the outcome is sent.  A result that
\* pickle refuses is logged by conn_send_safe, and nothing is sent.
Finish(w) ==
  /\ proc[w] = "running"
  /\ LET t == cur[w] IN
       /\ t \notin Hangs
       /\ \/ Reply(w, t, "result")
          \/ t \in Raises /\ Reply(w, t, "error")
          \/ t \in BadResult /\ UNCHANGED outbox
  /\ proc' = [proc EXCEPT ![w] = "replied"]
  /\ UNCHANGED <<cur, inbox, listening, timer, host, deaths>>

\* finally: deactivate_timer().  Timer.cancel has no effect once it fired.
DeactivateTimer(w) ==
  /\ proc[w] = "replied"
  /\ LET t == cur[w] IN
       timer' = [timer EXCEPT ![t] = IF @ = "armed" THEN "off" ELSE @]
  /\ proc' = [proc EXCEPT ![w] = "waiting"]
  /\ cur' = [cur EXCEPT ![w] = Quit]
  /\ UNCHANGED <<inbox, outbox, listening, host, deaths>>

\* The worker reads None, runs its finalizer and kills itself.
ExitOnNone(w) ==
  /\ proc[w] = "waiting"
  /\ inbox[w] # <<>>
  /\ Head(inbox[w]) = Quit
  /\ Terminate(w, "closing")
  /\ UNCHANGED <<outbox, listening, host, deaths>>

\* threading.Timer: the timeout of t is reached.
TimerFires(t) ==
  /\ timer[t] = "armed"
  /\ timer' = [timer EXCEPT ![t] = "fired"]
  /\ UNCHANGED <<proc, cur, inbox, outbox, listening, host, deaths>>

\* timed_out(): report the timeout...
TimerReports(t) ==
  /\ timer[t] = "fired"
  /\ Reply(host[t], t, "timeout")
  /\ timer' = [timer EXCEPT ![t] = "sent"]
  /\ UNCHANGED <<proc, cur, inbox, listening, host, deaths>>

\* ...and kill the whole process.
TimerKills(t) ==
  /\ timer[t] = "sent"
  /\ Terminate(host[t], "closing")
  /\ UNCHANGED <<outbox, listening, host, deaths>>

\* External: the kernel's OOM killer, a crash, or a job that will not unpickle.
Die(w) ==
  /\ proc[w] \in Running
  /\ deaths < MaxDeaths
  /\ deaths' = deaths + 1
  /\ Terminate(w, "closing")
  /\ UNCHANGED <<outbox, listening, host>>

\* External: waitpid now reports the end of the process.
Reap(w) ==
  /\ proc[w] = "closing"
  /\ proc' = [proc EXCEPT ![w] = "dead"]
  /\ UNCHANGED <<cur, inbox, outbox, listening, timer, host, deaths>>

WorkerStep(w) ==
  Recv(w) \/ Finish(w) \/ DeactivateTimer(w) \/ ExitOnNone(w) \/ Reap(w)

TimerStep(t) == TimerFires(t) \/ TimerReports(t) \/ TimerKills(t)

=============================================================================
