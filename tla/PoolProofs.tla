----------------------------- MODULE PoolProofs -----------------------------
(***************************************************************************)
(* Proofs about Pool, for every value of its constants.                    *)
(*                                                                         *)
(* TypeInv is inductive: type correctness needs to know which threads have *)
(* a worker in hand, that a busy worker has a task, that what is in the    *)
(* backlog has not been launched, and how often a broken pipe was met.     *)
(* The frame lemmas say which actions touch each group of variables; the   *)
(* preservation lemmas then look at those actions only.                    *)
(***************************************************************************)
EXTENDS Pool, FiniteSetTheorems, SequenceTheorems, TLAPS

HasWorker == (Holding \ {"add"}) \cup {"kill"}
HeldOK    == \A t \in Tasks : pc[t] \in HasWorker => held[t] \in Workers
CurOK     == \A w \in Workers : proc[w] \in {"running", "replied"} => cur[w] \in Tasks
QueuedOK  == \A t \in Tasks : t \in submitted_jobs => pc[t] = "queued"
MayRetry  == Submitting \cup {"queued", "add", "claim", "send"} \cup Getting
RetryOK   == \A t \in Tasks : pc[t] \in MayRetry => retries[t] < Retries

ThreadInv == ThreadTypeOK /\ HeldOK /\ RetryOK /\ QueuedOK
WorkerInv == WorkerTypeOK /\ CurOK
TypeInv   == WorkerInv /\ QueueTypeOK /\ PoolTypeOK /\ FutureTypeOK /\ ThreadInv
             /\ CallerTypeOK

USE WorkerAssumption, PoolAssumption

-----------------------------------------------------------------------------
(* Facts about the operators the model is built from.                      *)

\* A set of workers is finite, so the counts that run_task reads are numbers.
LEMMA WorkerCount ==
  ASSUME NEW B \in SUBSET Workers
  PROVE  Cardinality(B) \in Nat
<1>1. IsFiniteSet(Workers)
  BY FS_Interval DEF Workers
<1>2. QED
  BY <1>1, FS_Subset, FS_CardinalityType

\* Writing to one of several pipes leaves each of them a sequence of messages.
LEMMA AppendAt ==
  ASSUME NEW D, NEW S, NEW f \in [D -> Seq(S)], NEW w, NEW e \in S
  PROVE  [f EXCEPT ![w] = Append(@, e)] \in [D -> Seq(S)]
<1>1. CASE w \in D
  <2>1. Append(f[w], e) \in Seq(S)
    BY <1>1, AppendProperties
  <2>2. QED
    BY <2>1
<1>2. CASE w \notin D
  <2>1. [f EXCEPT ![w] = Append(@, e)] = f
    BY <1>2
  <2>2. QED
    BY <2>1
<1>3. QED
  BY <1>1, <1>2

\* ... and so does closing one of them.
LEMMA ClearAt ==
  ASSUME NEW D, NEW S, NEW f \in [D -> Seq(S)], NEW w
  PROVE  [f EXCEPT ![w] = <<>>] \in [D -> Seq(S)]
  BY EmptySeq

\* ... and reading from one that is not empty.
LEMMA TailAt ==
  ASSUME NEW D, NEW S, NEW f \in [D -> Seq(S)], NEW w \in D, f[w] # <<>>
  PROVE  /\ [f EXCEPT ![w] = Tail(@)] \in [D -> Seq(S)]
         /\ Head(f[w]) \in S
<1>1. Tail(f[w]) \in Seq(S) /\ Head(f[w]) \in S
  BY HeadTailProperties
<1>2. QED
  BY <1>1

\* WorkerProcess.shutdown keeps the pipes well typed.
LEMMA ShutdownWorkerType ==
  ASSUME WorkerTypeOK, NEW w, ShutdownWorker(w)
  PROVE  /\ inbox' \in [Workers -> Seq(Tasks \cup {Quit})]
         /\ outbox' \in [Workers -> Seq(Message)]
         /\ listening' \in [Workers -> BOOLEAN]
<1>1. [inbox EXCEPT ![w] = Append(@, Quit)] \in [Workers -> Seq(Tasks \cup {Quit})]
  BY AppendAt DEF WorkerTypeOK
<1>2. [outbox EXCEPT ![w] = <<>>] \in [Workers -> Seq(Message)]
  BY ClearAt DEF WorkerTypeOK
<1>3. [listening EXCEPT ![w] = FALSE] \in [Workers -> BOOLEAN]
  BY DEF WorkerTypeOK
<1>4. QED
  BY <1>1, <1>2, <1>3 DEF ShutdownWorker, WorkerTypeOK

\* A worker that ends loses its task, its unread jobs and its timers.
LEMMA TerminateType ==
  ASSUME WorkerInv, NEW w, NEW state \in {"closing", "dead"}, Terminate(w, state),
         UNCHANGED <<outbox, listening, host>>, deaths' \in 0 .. MaxDeaths
  PROVE  WorkerInv'
<1>1. inbox' \in [Workers -> Seq(Tasks \cup {Quit})]
  BY ClearAt DEF WorkerInv, WorkerTypeOK, Terminate
<1>2. timer' \in [Tasks -> {"off", "armed", "fired", "sent"}]
  BY DEF WorkerInv, WorkerTypeOK, Terminate
<1>3. proc' \in [Workers -> ProcState] /\ cur' \in [Workers -> Tasks \cup {Quit}]
  BY DEF WorkerInv, WorkerTypeOK, Terminate, ProcState
<1>4. CurOK'
  BY DEF WorkerInv, WorkerTypeOK, CurOK, Terminate
<1>5. QED
  BY <1>1, <1>2, <1>3, <1>4 DEF WorkerInv, WorkerTypeOK

\* A reply is a message about the task at hand.
LEMMA ReplyType ==
  ASSUME WorkerTypeOK, NEW w, NEW t \in Tasks, NEW kind \in Kind, Reply(w, t, kind)
  PROVE  outbox' \in [Workers -> Seq(Message)]
<1> DEFINE m == [of |-> t, kind |-> kind]
<1>1. m \in Message
  BY DEF Message
<1>2. outbox' = IF listening[w] THEN [outbox EXCEPT ![w] = Append(@, m)] ELSE outbox
  BY DEF Reply
<1> HIDE DEF m
<1>3. [outbox EXCEPT ![w] = Append(@, m)] \in [Workers -> Seq(Message)]
  BY <1>1, AppendAt DEF WorkerTypeOK
<1>4. QED
  BY <1>2, <1>3 DEF WorkerTypeOK

\* Setting an outcome on a future leaves it a future.
LEMMA SettleType ==
  ASSUME FutureTypeOK, NEW t \in Tasks, NEW of \in Tasks \cup {NoTask},
         NEW state \in {"cancelled", "result", "error", "timeout"},
         Settle(t, state, of)
  PROVE  fut' \in [Tasks -> Outcome]
<1>1. [state |-> state, of |-> of] \in Outcome
  BY DEF Outcome
<1>2. QED
  BY <1>1 DEF Settle, FutureTypeOK

-----------------------------------------------------------------------------
(* Frames.                                                                 *)

\* Who touches the worker processes and their pipes.
LEMMA WorkerFrame ==
  ASSUME [Next]_vars
  PROVE  \/ UNCHANGED workerVars
         \/ \E t \in Tasks :
              \/ AddForTask(t) \/ SendJobTo(t) \/ ReadReply(t) \/ Retire(t)
              \/ ReplaceDead(t) \/ ReplaceWornOut(t) \/ ReplaceHeavy(t)
              \/ KillBroken(t) \/ CallerKills(t) \/ ShutdownKill(t)
         \/ ShutdownIdle \/ ClearTakes \/ ProcessStep
         \/ \E w \in Workers : ShutdownBusy(w)
<1>1. ASSUME NEW t \in Tasks, ThreadStep(t)
      PROVE  UNCHANGED workerVars \/ AddForTask(t) \/ SendJobTo(t) \/
             ReadReply(t) \/ Retire(t) \/ ReplaceDead(t) \/ ReplaceWornOut(t)
             \/ ReplaceHeavy(t) \/ KillBroken(t)
  BY <1>1 DEF ThreadStep, CountBusy, CountIdle, Take, Claim, SendDeclined,
       SendUnpicklable, SendRaises, SendBroken, Publish, ReadEof, PollEmpty,
       CheckAlive, CheckDead, Release, ReleaseIdle, Keep, Weigh, WeighFails,
       PutBack, TaskDone, FreeSlot, NoResult, ForceResult, WorkerDied
<1>2. ASSUME RunnerStep
      PROVE  UNCHANGED workerVars
  BY <1>2 DEF RunnerStep, RunnerLaunch, RunnerSkip, RunnerCancel,
       RunnerAcquire, RunnerStop, RunnerStopped, CancelFirst
<1>3. ASSUME ShutdownStep
      PROVE  UNCHANGED workerVars \/ ShutdownIdle \/ (\E t \in Tasks :
             ShutdownKill(t)) \/ \E w \in Workers : ShutdownBusy(w)
  BY <1>3 DEF ShutdownStep, ShutdownCancel, ShutdownCancelled, PutSentinel,
       SentinelFull, SnapshotRunning, ShutdownKilled, ShutdownJoin, JoinWorker,
       SnapshotBusy, ShutdownReturns, CancelFirst, ShutdownGoto
<1>4. QED
  BY <1>1, <1>2, <1>3 DEF Next, vars, SubmitStep, AllDone, Submit,
       SubmitRejected, Put, CallerCancels, ClearWorkers, ClearTests,
       ShutdownBegin

\* Who touches the backlog, the slots and the runner.
LEMMA QueueFrame ==
  ASSUME [Next]_vars
  PROVE  \/ UNCHANGED <<queueVars, running_jobs, rpc>>
         \/ \E t \in Tasks :
              \/ Submit(t) \/ Put(t) \/ TaskDone(t) \/ FreeSlot(t)
              \/ ForceResult(t) \/ RunnerLaunch(t) \/ RunnerSkip(t)
              \/ RunnerCancel(t) \/ ShutdownCancel(t)
         \/ RunnerAcquire \/ RunnerStop \/ RunnerStopped \/ PutSentinel
<1>1. ASSUME NEW t \in Tasks, ThreadStep(t)
      PROVE  UNCHANGED <<queueVars, running_jobs, rpc>> \/ TaskDone(t) \/
             FreeSlot(t) \/ ForceResult(t)
  BY <1>1 DEF ThreadStep, CountBusy, CountIdle, AddForTask, Take, Claim,
       SendDeclined, SendUnpicklable, SendRaises, SendBroken, SendJobTo,
       Publish, ReadReply, ReadEof, PollEmpty, CheckAlive, CheckDead, Release,
       ReleaseIdle, Retire, Keep, ReplaceDead, ReplaceWornOut, Weigh,
       WeighFails, ReplaceHeavy, PutBack, KillBroken, NoResult, WorkerDied,
       ReplaceLive
<1>2. ASSUME RunnerStep
      PROVE  UNCHANGED <<queueVars, running_jobs, rpc>> \/ RunnerAcquire \/
             RunnerStop \/ RunnerStopped \/ \E t \in Tasks : RunnerLaunch(t) \/
             RunnerSkip(t) \/ RunnerCancel(t)
  BY <1>2 DEF RunnerStep
<1>3. ASSUME ShutdownStep
      PROVE  UNCHANGED <<queueVars, running_jobs, rpc>> \/ PutSentinel \/ (\E t
             \in Tasks : ShutdownCancel(t))
  BY <1>3 DEF ShutdownStep, ShutdownKill, ShutdownCancelled, SentinelFull,
       SnapshotRunning, ShutdownKilled, ShutdownJoin, ShutdownIdle, JoinWorker,
       SnapshotBusy, ShutdownReturns, ShutdownBusy, CancelAndKill, ShutdownGoto
<1>4. QED
  BY <1>1, <1>2, <1>3 DEF Next, vars, SubmitStep, AllDone, SubmitRejected,
       CallerCancels, CallerKills, ClearWorkers, ClearTests, ClearTakes,
       ProcessStep, ShutdownBegin, CancelAndKill

\* Who touches the sets of idle and busy workers.
LEMMA PoolFrame ==
  ASSUME [Next]_vars
  PROVE  \/ UNCHANGED poolVars
         \/ \E t \in Tasks :
              \/ AddForTask(t) \/ Take(t) \/ Claim(t) \/ SendUnpicklable(t)
              \/ SendRaises(t) \/ SendBroken(t) \/ SendJobTo(t)
              \/ ReadReply(t) \/ Release(t) \/ ReplaceDead(t)
              \/ ReplaceWornOut(t) \/ ReplaceHeavy(t) \/ PutBack(t)
         \/ ShutdownIdle \/ SnapshotBusy \/ ClearTakes
<1>1. ASSUME NEW t \in Tasks, ThreadStep(t)
      PROVE  UNCHANGED poolVars \/ AddForTask(t) \/ Take(t) \/ Claim(t) \/
             SendUnpicklable(t) \/ SendRaises(t) \/ SendBroken(t) \/
             SendJobTo(t) \/ ReadReply(t) \/ Release(t) \/ ReplaceDead(t) \/
             ReplaceWornOut(t) \/ ReplaceHeavy(t) \/ PutBack(t)
  BY <1>1 DEF ThreadStep, CountBusy, CountIdle, SendDeclined, Publish, ReadEof,
       PollEmpty, CheckAlive, CheckDead, ReleaseIdle, Retire, Keep, Weigh,
       WeighFails, KillBroken, TaskDone, FreeSlot, NoResult, ForceResult,
       WorkerDied
<1>2. ASSUME RunnerStep
      PROVE  UNCHANGED poolVars
  BY <1>2 DEF RunnerStep, RunnerLaunch, RunnerSkip, RunnerCancel,
       RunnerAcquire, RunnerStop, RunnerStopped, CancelFirst
<1>3. ASSUME ShutdownStep
      PROVE  UNCHANGED poolVars \/ ShutdownIdle \/ SnapshotBusy
  BY <1>3 DEF ShutdownStep, ShutdownCancel, ShutdownKill, ShutdownCancelled,
       PutSentinel, SentinelFull, SnapshotRunning, ShutdownKilled,
       ShutdownJoin, JoinWorker, ShutdownReturns, ShutdownBusy, CancelFirst,
       CancelAndKill, ShutdownGoto
<1>4. QED
  BY <1>1, <1>2, <1>3 DEF Next, vars, SubmitStep, AllDone, Submit,
       SubmitRejected, Put, CallerCancels, CallerKills, ClearWorkers,
       ClearTests, ProcessStep, ShutdownBegin, CancelAndKill

\* Who touches the futures.
LEMMA FutureFrame ==
  ASSUME [Next]_vars
  PROVE  \/ UNCHANGED futureVars
         \/ \E t \in Tasks :
              \/ SendUnpicklable(t) \/ Publish(t) \/ ReadReply(t)
              \/ ReadEof(t) \/ CheckDead(t) \/ KillBroken(t)
              \/ ForceResult(t) \/ CallerCancels(t) \/ CallerKills(t)
              \/ RunnerCancel(t) \/ ShutdownCancel(t) \/ ShutdownKill(t)
<1>1. ASSUME NEW t \in Tasks, ThreadStep(t)
      PROVE  UNCHANGED futureVars \/ SendUnpicklable(t) \/ Publish(t) \/
             ReadReply(t) \/ ReadEof(t) \/ CheckDead(t) \/ KillBroken(t) \/
             ForceResult(t)
  BY <1>1 DEF ThreadStep, CountBusy, CountIdle, AddForTask, Take, Claim,
       SendDeclined, SendRaises, SendBroken, SendJobTo, PollEmpty, CheckAlive,
       Release, ReleaseIdle, Retire, Keep, ReplaceDead, ReplaceWornOut, Weigh,
       WeighFails, ReplaceHeavy, PutBack, TaskDone, FreeSlot, NoResult,
       ReplaceLive
<1>2. ASSUME RunnerStep
      PROVE  UNCHANGED futureVars \/ \E t \in Tasks : RunnerCancel(t)
  BY <1>2 DEF RunnerStep, RunnerLaunch, RunnerSkip, RunnerAcquire, RunnerStop,
       RunnerStopped
<1>3. ASSUME ShutdownStep
      PROVE  UNCHANGED futureVars \/ (\E t \in Tasks : ShutdownCancel(t) \/
             ShutdownKill(t))
  BY <1>3 DEF ShutdownStep, ShutdownCancelled, PutSentinel, SentinelFull,
       SnapshotRunning, ShutdownKilled, ShutdownJoin, ShutdownIdle, JoinWorker,
       SnapshotBusy, ShutdownReturns, ShutdownBusy, ShutdownGoto
<1>4. QED
  BY <1>1, <1>2, <1>3 DEF Next, vars, SubmitStep, AllDone, Submit,
       SubmitRejected, Put, ClearWorkers, ClearTests, ClearTakes, ProcessStep,
       ShutdownBegin

\* Who touches the threads and what they have queued.
LEMMA ThreadFrame ==
  ASSUME [Next]_vars
  PROVE  \/ UNCHANGED <<threadVars, submitted_jobs>>
         \/ \E t \in Tasks :
              \/ Submit(t) \/ SubmitRejected(t) \/ Put(t) \/ CountBusy(t)
              \/ CountIdle(t) \/ AddForTask(t) \/ Take(t) \/ Claim(t)
              \/ SendDeclined(t) \/ SendUnpicklable(t) \/ SendRaises(t)
              \/ SendBroken(t) \/ SendJobTo(t) \/ Publish(t) \/ ReadReply(t)
              \/ ReadEof(t) \/ PollEmpty(t) \/ CheckAlive(t) \/ CheckDead(t)
              \/ Release(t) \/ ReleaseIdle(t) \/ Retire(t) \/ Keep(t)
              \/ ReplaceDead(t) \/ ReplaceWornOut(t) \/ Weigh(t)
              \/ WeighFails(t) \/ ReplaceHeavy(t) \/ PutBack(t)
              \/ KillBroken(t) \/ TaskDone(t) \/ FreeSlot(t) \/ NoResult(t)
              \/ ForceResult(t) \/ RunnerLaunch(t) \/ RunnerSkip(t)
              \/ RunnerCancel(t) \/ ShutdownCancel(t)
         \/ RunnerStop \/ PutSentinel
<1>1. ASSUME NEW t \in Tasks, ThreadStep(t)
      PROVE  UNCHANGED <<threadVars, submitted_jobs>> \/ CountBusy(t) \/
             CountIdle(t) \/ AddForTask(t) \/ Take(t) \/ Claim(t) \/
             SendDeclined(t) \/ SendUnpicklable(t) \/ SendRaises(t) \/
             SendBroken(t) \/ SendJobTo(t) \/ Publish(t) \/ ReadReply(t) \/
             ReadEof(t) \/ PollEmpty(t) \/ CheckAlive(t) \/ CheckDead(t) \/
             Release(t) \/ ReleaseIdle(t) \/ Retire(t) \/ Keep(t) \/
             ReplaceDead(t) \/ ReplaceWornOut(t) \/ Weigh(t) \/ WeighFails(t)
             \/ ReplaceHeavy(t) \/ PutBack(t) \/ KillBroken(t) \/ TaskDone(t)
             \/ FreeSlot(t) \/ NoResult(t) \/ ForceResult(t)
  BY <1>1 DEF ThreadStep
<1>2. ASSUME RunnerStep
      PROVE  UNCHANGED <<threadVars, submitted_jobs>> \/ RunnerStop \/ \E t \in
             Tasks : RunnerLaunch(t) \/ RunnerSkip(t) \/ RunnerCancel(t)
  BY <1>2 DEF RunnerStep, RunnerAcquire, RunnerStopped, queueVars, threadVars
<1>3. ASSUME ShutdownStep
      PROVE  UNCHANGED <<threadVars, submitted_jobs>> \/ PutSentinel \/ (\E t
             \in Tasks : ShutdownCancel(t))
  BY <1>3 DEF ShutdownStep, ShutdownKill, ShutdownCancelled, SentinelFull,
       SnapshotRunning, ShutdownKilled, ShutdownJoin, ShutdownIdle, JoinWorker,
       SnapshotBusy, ShutdownReturns, ShutdownBusy, CancelAndKill, queueVars,
       threadVars, ShutdownGoto
<1>4. QED
  BY <1>1, <1>2, <1>3 DEF Next, vars, SubmitStep, AllDone, CallerCancels,
       CallerKills, ClearWorkers, ClearTests, ClearTakes, ProcessStep,
       ShutdownBegin, queueVars, threadVars, CancelAndKill

\* Who touches the callers of shutdown and clear_workers.
LEMMA CallerFrame ==
  ASSUME [Next]_vars
  PROVE  \/ UNCHANGED callerVars
         \/ \E t \in Tasks :
              \/ ShutdownKill(t)
         \/ ShutdownCancelled \/ PutSentinel \/ SentinelFull \/ SnapshotRunning
         \/ ShutdownKilled \/ ShutdownJoin \/ ShutdownIdle \/ JoinWorker
         \/ SnapshotBusy \/ ShutdownReturns \/ ClearWorkers \/ ClearTests
         \/ ClearTakes
         \/ \E w \in Workers : ShutdownBusy(w)
         \/ \E m \in ShutdownModes : ShutdownBegin(m)
<1>1. ASSUME NEW t \in Tasks, ThreadStep(t)
      PROVE  UNCHANGED callerVars
  BY <1>1 DEF ThreadStep, CountBusy, CountIdle, AddForTask, Take, Claim,
       SendDeclined, SendUnpicklable, SendRaises, SendBroken, SendJobTo,
       Publish, ReadReply, ReadEof, PollEmpty, CheckAlive, CheckDead, Release,
       ReleaseIdle, Retire, Keep, ReplaceDead, ReplaceWornOut, Weigh,
       WeighFails, ReplaceHeavy, PutBack, KillBroken, TaskDone, FreeSlot,
       NoResult, ForceResult, WorkerDied, ReplaceLive
<1>2. ASSUME RunnerStep
      PROVE  UNCHANGED callerVars
  BY <1>2 DEF RunnerStep, RunnerLaunch, RunnerSkip, RunnerCancel,
       RunnerAcquire, RunnerStop, RunnerStopped, CancelFirst
<1>3. ASSUME ShutdownStep
      PROVE  UNCHANGED callerVars \/ ShutdownCancelled \/ PutSentinel \/
             SentinelFull \/ SnapshotRunning \/ ShutdownKilled \/ ShutdownJoin
             \/ ShutdownIdle \/ JoinWorker \/ SnapshotBusy \/ ShutdownReturns
             \/ (\E t \in Tasks : ShutdownKill(t)) \/ \E w \in Workers :
             ShutdownBusy(w)
  BY <1>3, SMTT(30) DEF ShutdownStep, ShutdownCancel, CancelFirst
<1>4. QED
  BY <1>1, <1>2, <1>3 DEF Next, vars, SubmitStep, AllDone, Submit,
       SubmitRejected, Put, CallerCancels, CallerKills, ProcessStep,
       CancelAndKill

-----------------------------------------------------------------------------
(* Preservation, one group of variables at a time.                         *)

\* The control state of every thread agrees with its local variables.
LEMMA ThreadInvStep ==
  ASSUME TypeInv, [Next]_vars
  PROVE  ThreadInv'
<1> USE DEF ThreadInv, ThreadTypeOK, HeldOK, RetryOK, QueuedOK, HasWorker, MayRetry,
            ThreadPc, Idle, Working, Submitting, Getting, Holding, Ending
<1>a. ThreadInv /\ workers \in Seq(Workers)
  BY DEF TypeInv, PoolTypeOK
<1>b. ASSUME NEW t
      PROVE  /\ Cardinality(busy_workers) \in Nat
             /\ Cardinality(busy_workers \ {held[t]}) \in Nat
  BY WorkerCount DEF TypeInv, PoolTypeOK
<1>1. ASSUME NEW t \in Tasks, Submit(t) PROVE ThreadInv'
  BY <1>1, <1>a DEF Submit, Goto
<1>2. ASSUME NEW t \in Tasks, SubmitRejected(t) PROVE ThreadInv'
  BY <1>2, <1>a DEF SubmitRejected, Goto, queueVars
<1>3. ASSUME NEW t \in Tasks, Put(t) PROVE ThreadInv'
  BY <1>3, <1>a DEF Put, Goto
<1>4. ASSUME NEW t \in Tasks, CountBusy(t) PROVE ThreadInv'
  BY <1>4, <1>a, <1>b DEF CountBusy, Goto, queueVars
<1>5. ASSUME NEW t \in Tasks, CountIdle(t) PROVE ThreadInv'
  BY <1>5, <1>a DEF CountIdle, Goto, queueVars
<1>6. ASSUME NEW t \in Tasks, AddForTask(t) PROVE ThreadInv'
  BY <1>6, <1>a DEF AddForTask, Goto, AddWorker, queueVars
<1>7. ASSUME NEW t \in Tasks, Take(t) PROVE ThreadInv'
  BY <1>7, <1>a DEF Take, Goto, queueVars
<1>8. ASSUME NEW t \in Tasks, Claim(t) PROVE ThreadInv'
  BY <1>8, <1>a DEF Claim, Goto, queueVars
<1>9. ASSUME NEW t \in Tasks, SendDeclined(t) PROVE ThreadInv'
  BY <1>9, <1>a DEF SendDeclined, Goto, queueVars
<1>10. ASSUME NEW t \in Tasks, SendUnpicklable(t) PROVE ThreadInv'
  BY <1>10, <1>a DEF SendUnpicklable, Goto, queueVars
<1>11. ASSUME NEW t \in Tasks, SendRaises(t) PROVE ThreadInv'
  BY <1>11, <1>a DEF SendRaises, Goto, queueVars
<1>12. ASSUME NEW t \in Tasks, SendBroken(t) PROVE ThreadInv'
  BY <1>12, <1>a DEF SendBroken, Goto, queueVars
<1>13. ASSUME NEW t \in Tasks, SendJobTo(t) PROVE ThreadInv'
  BY <1>13, <1>a DEF SendJobTo, Goto, queueVars
<1>14. ASSUME NEW t \in Tasks, Publish(t) PROVE ThreadInv'
  BY <1>14, <1>a DEF Publish, Goto, queueVars
<1>15. ASSUME NEW t \in Tasks, ReadReply(t) PROVE ThreadInv'
  BY <1>15, <1>a DEF ReadReply, Goto, queueVars
<1>16. ASSUME NEW t \in Tasks, ReadEof(t) PROVE ThreadInv'
  BY <1>16, <1>a DEF ReadEof, WorkerDied, Goto, queueVars
<1>17. ASSUME NEW t \in Tasks, PollEmpty(t) PROVE ThreadInv'
  BY <1>17, <1>a DEF PollEmpty, Goto, queueVars
<1>18. ASSUME NEW t \in Tasks, CheckAlive(t) PROVE ThreadInv'
  BY <1>18, <1>a DEF CheckAlive, Goto, queueVars
<1>19. ASSUME NEW t \in Tasks, CheckDead(t) PROVE ThreadInv'
  BY <1>19, <1>a DEF CheckDead, WorkerDied, Goto, queueVars
<1>20. ASSUME NEW t \in Tasks, Release(t) PROVE ThreadInv'
  BY <1>20, <1>a, <1>b DEF Release, Goto, queueVars
<1>21. ASSUME NEW t \in Tasks, ReleaseIdle(t) PROVE ThreadInv'
  BY <1>21, <1>a DEF ReleaseIdle, Goto, queueVars
<1>22. ASSUME NEW t \in Tasks, Retire(t) PROVE ThreadInv'
  BY <1>22, <1>a DEF Retire, Released, Goto, queueVars
<1>23. ASSUME NEW t \in Tasks, Keep(t) PROVE ThreadInv'
  BY <1>23, <1>a DEF Keep, Goto, queueVars
<1>24. ASSUME NEW t \in Tasks, ReplaceDead(t) PROVE ThreadInv'
  BY <1>24, <1>a DEF ReplaceDead, AddWorker, Released, Goto, queueVars
<1>25. ASSUME NEW t \in Tasks, ReplaceWornOut(t) PROVE ThreadInv'
  BY <1>25, <1>a DEF ReplaceWornOut, ReplaceLive, AddWorker, Released, Goto,
       queueVars
<1>26. ASSUME NEW t \in Tasks, Weigh(t) PROVE ThreadInv'
  BY <1>26, <1>a DEF Weigh, Goto, queueVars
<1>27. ASSUME NEW t \in Tasks, WeighFails(t) PROVE ThreadInv'
  BY <1>27, <1>a DEF WeighFails, Goto, queueVars
<1>28. ASSUME NEW t \in Tasks, ReplaceHeavy(t) PROVE ThreadInv'
  BY <1>28, <1>a DEF ReplaceHeavy, ReplaceLive, AddWorker, Released, Goto,
       queueVars
<1>29. ASSUME NEW t \in Tasks, PutBack(t) PROVE ThreadInv'
  BY <1>29, <1>a DEF PutBack, Released, Goto, queueVars
<1>30. ASSUME NEW t \in Tasks, KillBroken(t) PROVE ThreadInv'
  <2>1. CASE retries[t] < Retries
    <3>1. /\ pc' = [pc EXCEPT ![t] = "count_busy"]
          /\ held' = [held EXCEPT ![t] = 0]
          /\ UNCHANGED <<seen, retries, submitted_jobs>>
          /\ pc[t] = "kill"
      BY <1>30, <2>1 DEF KillBroken, Goto, queueVars
    <3>2. QED
      BY <3>1, <2>1, <1>a
  <2>2. CASE ~(retries[t] < Retries)
    <3>1. /\ pc' = [pc EXCEPT ![t] = "finish"]
          /\ held' = [held EXCEPT ![t] = 0]
          /\ UNCHANGED <<seen, retries, submitted_jobs>>
          /\ pc[t] = "kill"
      BY <1>30, <2>2 DEF KillBroken, Goto, queueVars
    <3>2. QED
      BY <3>1, <1>a
  <2>3. QED
    BY <2>1, <2>2
<1>31. ASSUME NEW t \in Tasks, TaskDone(t) PROVE ThreadInv'
  BY <1>31, <1>a DEF TaskDone, Goto
<1>32. ASSUME NEW t \in Tasks, FreeSlot(t) PROVE ThreadInv'
  BY <1>32, <1>a DEF FreeSlot, Goto, queueVars
<1>33. ASSUME NEW t \in Tasks, NoResult(t) PROVE ThreadInv'
  BY <1>33, <1>a DEF NoResult, Goto, queueVars
<1>34. ASSUME NEW t \in Tasks, ForceResult(t) PROVE ThreadInv'
  BY <1>34, <1>a DEF ForceResult, Goto, queueVars
<1>35. ASSUME NEW t \in Tasks, RunnerLaunch(t) PROVE ThreadInv'
  BY <1>35, <1>a DEF RunnerLaunch, Goto, IsFirst
<1>36. ASSUME NEW t \in Tasks, RunnerSkip(t) PROVE ThreadInv'
  BY <1>36, <1>a DEF RunnerSkip, Goto, IsFirst
<1>37. ASSUME NEW t \in Tasks, RunnerCancel(t) PROVE ThreadInv'
  BY <1>37, <1>a DEF RunnerCancel, CancelFirst, Goto, IsFirst
<1>38. ASSUME NEW t \in Tasks, ShutdownCancel(t) PROVE ThreadInv'
  BY <1>38, <1>a DEF ShutdownCancel, CancelFirst, Goto, IsFirst
<1>39. ASSUME RunnerStop PROVE ThreadInv'
  BY <1>39, <1>a DEF RunnerStop, threadVars, Sentinel
<1>40. ASSUME PutSentinel PROVE ThreadInv'
  BY <1>40, <1>a DEF PutSentinel, threadVars, Sentinel
<1>41. CASE UNCHANGED <<threadVars, submitted_jobs>>
  BY <1>41, <1>a DEF threadVars
<1>42. QED
  BY ThreadFrame, <1>1, <1>2, <1>3, <1>4, <1>5, <1>6, <1>7, <1>8, <1>9, <1>10,
       <1>11, <1>12, <1>13, <1>14, <1>15, <1>16, <1>17, <1>18, <1>19, <1>20,
       <1>21, <1>22, <1>23, <1>24, <1>25, <1>26, <1>27, <1>28, <1>29, <1>30,
       <1>31, <1>32, <1>33, <1>34, <1>35, <1>36, <1>37, <1>38, <1>39, <1>40,
       <1>41

\* The processes and their pipes stay well typed, and a worker that runs has a
\* task in hand.
LEMMA WorkerInvStep ==
  ASSUME TypeInv, [Next]_vars
  PROVE  WorkerInv'
<1>a. WorkerInv /\ WorkerTypeOK /\ PoolTypeOK /\ ThreadInv /\ FutureTypeOK
  BY DEF TypeInv, WorkerInv
<1>b. ASSUME NEW w \in Workers, ShutdownWorker(w), UNCHANGED <<proc, cur, timer, host, deaths>>
      PROVE  WorkerInv'
  BY <1>a, <1>b, ShutdownWorkerType DEF WorkerInv, WorkerTypeOK, CurOK
<1>c. ASSUME AddWorker, UNCHANGED <<cur, timer, host, deaths>>,
             inbox' \in [Workers -> Seq(Tasks \cup {Quit})],
             outbox' \in [Workers -> Seq(Message)],
             listening' \in [Workers -> BOOLEAN]
      PROVE  WorkerInv'
  <2>1. proc' \in [Workers -> ProcState] /\ CurOK'
    BY <1>a, <1>c DEF AddWorker, Spawn, WorkerTypeOK, WorkerInv, CurOK, ProcState, Running
  <2>2. QED
    BY <1>a, <1>c, <2>1 DEF WorkerInv, WorkerTypeOK
<1>d. ASSUME NEW t \in Tasks, CancelAndKill(t) PROVE WorkerInv'
  <2>1. CASE pid[t] # 0 /\ proc[pid[t]] # "dead"
    BY <1>a, <1>d, <2>1, TerminateType DEF CancelAndKill, KillTree, WorkerTypeOK
  <2>2. CASE ~(pid[t] # 0 /\ proc[pid[t]] # "dead")
    BY <1>a, <1>d, <2>2 DEF CancelAndKill, WorkerInv, WorkerTypeOK, CurOK
  <2>3. QED
    BY <2>1, <2>2
<1>e. ASSUME NEW t \in Tasks, ReplaceLive(t) PROVE WorkerInv'
  BY <1>a, <1>c, <1>e, ShutdownWorkerType DEF ReplaceLive
<1>1. ASSUME NEW t \in Tasks, AddForTask(t) \/ ReplaceDead(t) PROVE WorkerInv'
  BY <1>a, <1>c, <1>1 DEF AddForTask, ReplaceDead, WorkerTypeOK
<1>2. ASSUME NEW t \in Tasks, ReplaceWornOut(t) \/ ReplaceHeavy(t) PROVE WorkerInv'
  BY <1>e, <1>2 DEF ReplaceWornOut, ReplaceHeavy
<1>3. ASSUME NEW t \in Tasks, SendJobTo(t) PROVE WorkerInv'
  <2>1. inbox' \in [Workers -> Seq(Tasks \cup {Quit})]
    BY <1>a, <1>3, AppendAt DEF SendJobTo, SendJob, WorkerTypeOK
  <2>2. QED
    BY <1>a, <1>3, <2>1 DEF SendJobTo, WorkerInv, WorkerTypeOK, CurOK
<1>4. ASSUME NEW t \in Tasks, ReadReply(t) PROVE WorkerInv'
  <2>1. held[t] \in Workers
    BY <1>a, <1>4 DEF ReadReply, ThreadInv, HeldOK, HasWorker, Holding
  <2>2. outbox' \in [Workers -> Seq(Message)]
    BY <1>a, <1>4, <2>1, TailAt DEF ReadReply, WorkerTypeOK
  <2>3. QED
    BY <1>a, <1>4, <2>2 DEF ReadReply, WorkerInv, WorkerTypeOK, CurOK
<1>5. ASSUME NEW t \in Tasks, Retire(t) PROVE WorkerInv'
  <2>1. held[t] \in Workers
    BY <1>a, <1>5 DEF Retire, ThreadInv, HeldOK, HasWorker, Holding
  <2>2. QED
    BY <1>b, <1>5, <2>1 DEF Retire
<1>6. ASSUME NEW t \in Tasks, KillBroken(t) PROVE WorkerInv'
  BY <1>a, <1>6, TerminateType DEF KillBroken, KillTree, WorkerTypeOK
<1>7. ASSUME NEW t \in Tasks, CallerKills(t) \/ ShutdownKill(t) PROVE WorkerInv'
  BY <1>d, <1>7 DEF CallerKills, ShutdownKill
<1>8. ASSUME ShutdownIdle \/ ClearTakes PROVE WorkerInv'
  <2>1. Head(workers) \in Workers
    BY <1>a, <1>8, HeadTailProperties DEF ShutdownIdle, ClearTakes, PoolTypeOK
  <2>2. QED
    BY <1>b, <1>8, <2>1 DEF ShutdownIdle, ClearTakes
<1>9. ASSUME NEW w \in Workers, ShutdownBusy(w) PROVE WorkerInv'
  BY <1>b, <1>9 DEF ShutdownBusy
<1>10. ASSUME ProcessStep PROVE WorkerInv'
  <2> USE <1>a DEF WorkerInv, WorkerTypeOK
  <2>1. ASSUME NEW w \in Workers, Recv(w) PROVE WorkerInv'
    BY <2>1 DEF Recv, CurOK, ProcState, Running
  <2>2. ASSUME NEW w \in Workers, Finish(w) PROVE WorkerInv'
    <3>1. cur[w] \in Tasks
      BY <2>2 DEF Finish, CurOK
    <3>2. outbox' \in [Workers -> Seq(Message)]
      BY <2>2, <3>1, ReplyType DEF Finish, Kind
    <3>3. QED
      BY <2>2, <3>1, <3>2 DEF Finish, CurOK, ProcState, Running
  <2>3. ASSUME NEW w \in Workers, DeactivateTimer(w) PROVE WorkerInv'
    BY <2>3 DEF DeactivateTimer, CurOK, ProcState, Running
  <2>4. ASSUME NEW w \in Workers, ExitOnNone(w) PROVE WorkerInv'
    BY <2>4, TerminateType DEF ExitOnNone
  <2>5. ASSUME NEW w \in Workers, Reap(w) PROVE WorkerInv'
    BY <2>5 DEF Reap, CurOK, ProcState, Running
  <2>6. ASSUME NEW w \in Workers, Die(w) PROVE WorkerInv'
    BY <2>6, TerminateType DEF Die
  <2>7. ASSUME NEW t \in Tasks, TimerFires(t) PROVE WorkerInv'
    BY <2>7 DEF TimerFires, CurOK
  <2>8. ASSUME NEW t \in Tasks, TimerReports(t) PROVE WorkerInv'
    <3>1. outbox' \in [Workers -> Seq(Message)]
      BY <2>8, ReplyType DEF TimerReports, Kind
    <3>2. QED
      BY <2>8, <3>1 DEF TimerReports, CurOK
  <2>9. ASSUME NEW t \in Tasks, TimerKills(t) PROVE WorkerInv'
    BY <2>9, TerminateType DEF TimerKills
  <2>10. QED
    BY <1>10, <2>1, <2>2, <2>3, <2>4, <2>5, <2>6, <2>7, <2>8, <2>9
       DEF ProcessStep, WorkerStep, TimerStep
<1>11. CASE UNCHANGED workerVars
  BY <1>a, <1>11 DEF workerVars, WorkerInv, WorkerTypeOK, CurOK
<1>12. QED
  BY WorkerFrame, <1>1, <1>2, <1>3, <1>4, <1>5, <1>6, <1>7, <1>8, <1>9, <1>10, <1>11

\* The backlog, the slots and the runner.
LEMMA QueueTypeStep ==
  ASSUME TypeInv, [Next]_vars
  PROVE  QueueTypeOK'
<1> USE DEF QueueTypeOK, RunnerPc
<1>a. QueueTypeOK
  BY DEF TypeInv
<1>1. ASSUME NEW t \in Tasks, Submit(t) PROVE QueueTypeOK'
  BY <1>1, <1>a DEF Submit
<1>2. ASSUME NEW t \in Tasks, Put(t) PROVE QueueTypeOK'
  BY <1>2, <1>a DEF Put
<1>3. ASSUME NEW t \in Tasks, TaskDone(t) PROVE QueueTypeOK'
  BY <1>3, <1>a DEF TaskDone
<1>4. ASSUME NEW t \in Tasks, FreeSlot(t) PROVE QueueTypeOK'
  BY <1>4, <1>a DEF FreeSlot, queueVars
<1>5. ASSUME NEW t \in Tasks, ForceResult(t) PROVE QueueTypeOK'
  BY <1>5, <1>a DEF ForceResult, queueVars
<1>6. ASSUME NEW t \in Tasks, RunnerLaunch(t) PROVE QueueTypeOK'
  BY <1>6, <1>a DEF RunnerLaunch
<1>7. ASSUME NEW t \in Tasks, RunnerSkip(t) PROVE QueueTypeOK'
  BY <1>7, <1>a DEF RunnerSkip
<1>8. ASSUME NEW t \in Tasks, RunnerCancel(t) PROVE QueueTypeOK'
  BY <1>8, <1>a DEF RunnerCancel, CancelFirst
<1>9. ASSUME NEW t \in Tasks, ShutdownCancel(t) PROVE QueueTypeOK'
  BY <1>9, <1>a DEF ShutdownCancel, CancelFirst
<1>10. ASSUME RunnerAcquire PROVE QueueTypeOK'
  BY <1>10, <1>a DEF RunnerAcquire, queueVars
<1>11. ASSUME RunnerStop PROVE QueueTypeOK'
  BY <1>11, <1>a DEF RunnerStop
<1>12. ASSUME RunnerStopped PROVE QueueTypeOK'
  BY <1>12, <1>a DEF RunnerStopped, queueVars
<1>13. ASSUME PutSentinel PROVE QueueTypeOK'
  BY <1>13, <1>a DEF PutSentinel
<1>14. CASE UNCHANGED <<queueVars, running_jobs, rpc>>
  BY <1>14, <1>a DEF queueVars
<1>15. QED
  BY QueueFrame, <1>1, <1>2, <1>3, <1>4, <1>5, <1>6, <1>7, <1>8, <1>9, <1>10,
       <1>11, <1>12, <1>13, <1>14

\* The idle queue and the set of busy workers.
LEMMA PoolTypeStep ==
  ASSUME TypeInv, [Next]_vars
  PROVE  PoolTypeOK'
<1> USE DEF PoolTypeOK
<1>a. /\ PoolTypeOK
      /\ \A t \in Tasks : pc[t] \in HasWorker => held[t] \in Workers
  BY DEF TypeInv, ThreadInv, HeldOK
<1>b. ASSUME AddWorker, UNCHANGED <<busy_workers, ok, ran>> PROVE PoolTypeOK'
  BY <1>a, <1>b, AppendProperties DEF AddWorker, Workers
<1>1. ASSUME NEW t \in Tasks, AddForTask(t) PROVE PoolTypeOK'
  BY <1>1, <1>b DEF AddForTask
<1>2. ASSUME NEW t \in Tasks, Take(t) PROVE PoolTypeOK'
  BY <1>2, <1>a DEF Take
<1>3. ASSUME NEW t \in Tasks, Claim(t) PROVE PoolTypeOK'
  BY <1>3, <1>a DEF Claim, HasWorker, Holding
<1>4. ASSUME NEW t \in Tasks, SendUnpicklable(t) PROVE PoolTypeOK'
  BY <1>4, <1>a DEF SendUnpicklable, CountRun, HasWorker, Holding
<1>5. ASSUME NEW t \in Tasks, SendRaises(t) PROVE PoolTypeOK'
  BY <1>5, <1>a DEF SendRaises, CountRun, HasWorker, Holding
<1>6. ASSUME NEW t \in Tasks, SendBroken(t) PROVE PoolTypeOK'
  BY <1>6, <1>a DEF SendBroken, CountRun, HasWorker, Holding
<1>7. ASSUME NEW t \in Tasks, SendJobTo(t) PROVE PoolTypeOK'
  BY <1>7, <1>a DEF SendJobTo, CountRun, HasWorker, Holding
<1>8. ASSUME NEW t \in Tasks, ReadReply(t) PROVE PoolTypeOK'
  BY <1>8, <1>a DEF ReadReply
<1>9. ASSUME NEW t \in Tasks, Release(t) PROVE PoolTypeOK'
  BY <1>9, <1>a DEF Release
<1>10. ASSUME NEW t \in Tasks, ReplaceDead(t) PROVE PoolTypeOK'
  BY <1>10, <1>b DEF ReplaceDead
<1>11. ASSUME NEW t \in Tasks, ReplaceWornOut(t) PROVE PoolTypeOK'
  BY <1>11, <1>b DEF ReplaceWornOut, ReplaceLive
<1>12. ASSUME NEW t \in Tasks, ReplaceHeavy(t) PROVE PoolTypeOK'
  BY <1>12, <1>b DEF ReplaceHeavy, ReplaceLive
<1>13. ASSUME NEW t \in Tasks, PutBack(t) PROVE PoolTypeOK'
  <2>1. held[t] \in Workers
    BY <1>13, <1>a DEF PutBack, HasWorker, Holding
  <2>2. QED
    BY <1>13, <1>a, <2>1, AppendProperties DEF PutBack
<1>14. ASSUME ShutdownIdle PROVE PoolTypeOK'
  BY <1>14, <1>a DEF ShutdownIdle
<1>15. ASSUME SnapshotBusy PROVE PoolTypeOK'
  BY <1>15, <1>a DEF SnapshotBusy
<1>16. ASSUME ClearTakes PROVE PoolTypeOK'
  BY <1>16, <1>a DEF ClearTakes
<1>17. CASE UNCHANGED poolVars
  BY <1>17, <1>a DEF poolVars
<1>18. QED
  BY PoolFrame, <1>1, <1>2, <1>3, <1>4, <1>5, <1>6, <1>7, <1>8, <1>9, <1>10,
       <1>11, <1>12, <1>13, <1>14, <1>15, <1>16, <1>17

\* The futures.
LEMMA FutureTypeStep ==
  ASSUME TypeInv, [Next]_vars
  PROVE  FutureTypeOK'
<1>a. FutureTypeOK /\ ThreadInv /\ WorkerTypeOK
  BY DEF TypeInv, WorkerInv
<1>1. ASSUME NEW t \in Tasks, SendUnpicklable(t) PROVE FutureTypeOK'
  <2>1. fut' \in [Tasks -> Outcome]
    BY <1>1, <1>a, SettleType DEF SendUnpicklable
  <2>2. QED
    BY <1>1, <1>a, <2>1 DEF SendUnpicklable, FutureTypeOK
<1>2. ASSUME NEW t \in Tasks, Publish(t) PROVE FutureTypeOK'
  BY <1>2, <1>a DEF Publish, FutureTypeOK, ThreadInv, ThreadTypeOK
<1>3. ASSUME NEW t \in Tasks, ReadReply(t) PROVE FutureTypeOK'
  <2>1. held[t] \in Workers
    BY <1>3, <1>a DEF ReadReply, ThreadInv, HeldOK, HasWorker, Holding
  <2>2. Head(outbox[held[t]]) \in Message
    BY <1>3, <1>a, <2>1, TailAt DEF ReadReply, WorkerTypeOK
  <2>3. fut' \in [Tasks -> Outcome]
    BY <1>3, <1>a, <2>2, SettleType DEF ReadReply, Message, Kind
  <2>4. QED
    BY <1>3, <1>a, <2>3 DEF ReadReply, FutureTypeOK
<1>4. ASSUME NEW t \in Tasks, ReadEof(t) PROVE FutureTypeOK'
  <2>1. fut' \in [Tasks -> Outcome]
    BY <1>4, <1>a, SettleType DEF ReadEof, WorkerDied
  <2>2. QED
    BY <1>4, <1>a, <2>1 DEF ReadEof, WorkerDied, FutureTypeOK
<1>5. ASSUME NEW t \in Tasks, CheckDead(t) PROVE FutureTypeOK'
  <2>1. fut' \in [Tasks -> Outcome]
    BY <1>5, <1>a, SettleType DEF CheckDead, WorkerDied
  <2>2. QED
    BY <1>5, <1>a, <2>1 DEF CheckDead, WorkerDied, FutureTypeOK
<1>6. ASSUME NEW t \in Tasks, KillBroken(t) PROVE FutureTypeOK'
  <2>1. fut' \in [Tasks -> Outcome]
    BY <1>6, <1>a, SettleType DEF KillBroken, FutureTypeOK
  <2>2. QED
    BY <1>6, <1>a, <2>1 DEF KillBroken, FutureTypeOK
<1>7. ASSUME NEW t \in Tasks, ForceResult(t) PROVE FutureTypeOK'
  <2>1. fut' \in [Tasks -> Outcome]
    BY <1>7, <1>a, SettleType DEF ForceResult
  <2>2. QED
    BY <1>7, <1>a, <2>1 DEF ForceResult, FutureTypeOK
<1>8. ASSUME NEW t \in Tasks, CallerCancels(t) PROVE FutureTypeOK'
  <2>1. fut' \in [Tasks -> Outcome]
    BY <1>8, <1>a, SettleType DEF CallerCancels, Cancel
  <2>2. QED
    BY <1>8, <1>a, <2>1 DEF CallerCancels, FutureTypeOK
<1>9. ASSUME NEW t \in Tasks, CallerKills(t) PROVE FutureTypeOK'
  <2>1. fut' \in [Tasks -> Outcome]
    BY <1>9, <1>a, SettleType DEF CallerKills, CancelAndKill, Cancel
  <2>2. QED
    BY <1>9, <1>a, <2>1 DEF CallerKills, CancelAndKill, FutureTypeOK
<1>10. ASSUME NEW t \in Tasks, RunnerCancel(t) PROVE FutureTypeOK'
  <2>1. fut' \in [Tasks -> Outcome]
    BY <1>10, <1>a, SettleType DEF RunnerCancel, CancelFirst, Cancel
  <2>2. QED
    BY <1>10, <1>a, <2>1 DEF RunnerCancel, CancelFirst, FutureTypeOK
<1>11. ASSUME NEW t \in Tasks, ShutdownCancel(t) PROVE FutureTypeOK'
  <2>1. fut' \in [Tasks -> Outcome]
    BY <1>11, <1>a, SettleType DEF ShutdownCancel, CancelFirst, Cancel
  <2>2. QED
    BY <1>11, <1>a, <2>1 DEF ShutdownCancel, CancelFirst, FutureTypeOK
<1>12. ASSUME NEW t \in Tasks, ShutdownKill(t) PROVE FutureTypeOK'
  <2>1. fut' \in [Tasks -> Outcome]
    BY <1>12, <1>a, SettleType DEF ShutdownKill, CancelAndKill, Cancel
  <2>2. QED
    BY <1>12, <1>a, <2>1 DEF ShutdownKill, CancelAndKill, FutureTypeOK
<1>13. CASE UNCHANGED futureVars
  BY <1>13, <1>a DEF futureVars, FutureTypeOK
<1>14. QED
  BY FutureFrame, <1>1, <1>2, <1>3, <1>4, <1>5, <1>6, <1>7, <1>8, <1>9, <1>10,
       <1>11, <1>12, <1>13

\* The callers of shutdown and clear_workers.
LEMMA CallerTypeStep ==
  ASSUME TypeInv, [Next]_vars
  PROVE  CallerTypeOK'
<1> USE DEF CallerTypeOK, ShutdownPc
<1>a. CallerTypeOK /\ PoolTypeOK /\ FutureTypeOK
  BY DEF TypeInv
<1>1. ASSUME NEW t \in Tasks, ShutdownKill(t) PROVE CallerTypeOK'
  BY <1>1, <1>a DEF ShutdownKill, clearVars
<1>2. ASSUME ShutdownCancelled PROVE CallerTypeOK'
  BY <1>2, <1>a DEF ShutdownCancelled, ShutdownGoto, clearVars
<1>3. ASSUME PutSentinel PROVE CallerTypeOK'
  BY <1>3, <1>a DEF PutSentinel, ShutdownGoto, clearVars
<1>4. ASSUME SentinelFull PROVE CallerTypeOK'
  BY <1>4, <1>a DEF SentinelFull, ShutdownGoto, clearVars
<1>5. ASSUME SnapshotRunning PROVE CallerTypeOK'
  BY <1>5, <1>a DEF SnapshotRunning, ShutdownGoto, clearVars, FutureTypeOK
<1>6. ASSUME ShutdownKilled PROVE CallerTypeOK'
  BY <1>6, <1>a DEF ShutdownKilled, ShutdownGoto, clearVars
<1>7. ASSUME ShutdownJoin PROVE CallerTypeOK'
  BY <1>7, <1>a DEF ShutdownJoin, ShutdownGoto, clearVars
<1>8. ASSUME ShutdownIdle PROVE CallerTypeOK'
  <2>1. Head(workers) \in Workers
    BY <1>8, <1>a, HeadTailProperties DEF ShutdownIdle, PoolTypeOK
  <2>2. QED
    BY <1>8, <1>a, <2>1 DEF ShutdownIdle, clearVars
<1>9. ASSUME JoinWorker PROVE CallerTypeOK'
  BY <1>9, <1>a DEF JoinWorker, clearVars
<1>10. ASSUME SnapshotBusy PROVE CallerTypeOK'
  BY <1>10, <1>a DEF SnapshotBusy, ShutdownGoto, clearVars, PoolTypeOK
<1>11. ASSUME ShutdownReturns PROVE CallerTypeOK'
  BY <1>11, <1>a DEF ShutdownReturns, ShutdownGoto, clearVars
<1>12. ASSUME ClearWorkers PROVE CallerTypeOK'
  BY <1>12, <1>a DEF ClearWorkers, shutdownVars
<1>13. ASSUME ClearTests PROVE CallerTypeOK'
  BY <1>13, <1>a DEF ClearTests, shutdownVars
<1>14. ASSUME ClearTakes PROVE CallerTypeOK'
  BY <1>14, <1>a DEF ClearTakes, shutdownVars
<1>15. ASSUME NEW w \in Workers, ShutdownBusy(w) PROVE CallerTypeOK'
  BY <1>15, <1>a DEF ShutdownBusy, clearVars
<1>16. ASSUME NEW m \in ShutdownModes, ShutdownBegin(m) PROVE CallerTypeOK'
  BY <1>16, <1>a DEF ShutdownBegin, clearVars
<1>17. CASE UNCHANGED callerVars
  BY <1>17, <1>a DEF callerVars, shutdownVars, clearVars
<1>18. QED
  BY CallerFrame, <1>1, <1>2, <1>3, <1>4, <1>5, <1>6, <1>7, <1>8, <1>9, <1>10,
       <1>11, <1>12, <1>13, <1>14, <1>15, <1>16, <1>17

\* The initial state satisfies the invariant.
LEMMA TypeInit == Init => TypeInv
<1> SUFFICES ASSUME Init PROVE TypeInv
  OBVIOUS
<1>1. WorkerInv
  BY DEF Init, WorkerInit, WorkerInv, WorkerTypeOK, CurOK, ProcState, Running
<1>2. QueueTypeOK
  BY DEF Init, QueueTypeOK, RunnerPc
<1>c. CallerTypeOK
  <2>1. [wait |-> TRUE, cancel |-> FALSE] \in [wait : BOOLEAN, cancel : BOOLEAN]
    OBVIOUS
  <2>2. mode \in [wait : BOOLEAN, cancel : BOOLEAN]
    BY <2>1 DEF Init
  <2>3. closed \in BOOLEAN /\ spc \in ShutdownPc /\ cpc \in {"idle", "testing", "taking"}
    BY DEF Init, ShutdownPc
  <2>4. todo \subseteq Tasks \cup Workers /\ joining \in Workers \cup {0}
    BY DEF Init
  <2>5. clears \in 0 .. MaxClears
    BY DEF Init
  <2>6. QED
    BY <2>2, <2>3, <2>4, <2>5 DEF CallerTypeOK
<1>f. FutureTypeOK
  <2>1. Pending \in Outcome
    BY DEF Pending, Outcome
  <2>2. QED
    BY <2>1 DEF Init, FutureTypeOK
<1>3. PoolTypeOK
  BY DEF Init, PoolTypeOK, Workers
<1>4. ThreadInv
  BY DEF Init, ThreadInv, ThreadTypeOK, HeldOK, RetryOK, QueuedOK, HasWorker, Holding,
         ThreadPc, Idle, Submitting
<1>5. QED
  BY <1>1, <1>2, <1>c, <1>f, <1>3, <1>4 DEF TypeInv

\* Every step preserves it.
LEMMA TypeStep == TypeInv /\ [Next]_vars => TypeInv'
  BY ThreadInvStep, WorkerInvStep, QueueTypeStep, PoolTypeStep, FutureTypeStep,
     CallerTypeStep DEF TypeInv

\* Type correctness of the pool, whatever its size, its backlog and the faults:
\* in particular a run_task thread never uses a worker it does not have, and the
\* number of tries after broken pipes stays within retry_count.
THEOREM TypeCorrect == Spec => []TypeOK
<1>1. Spec => []TypeInv
  BY TypeInit, TypeStep, PTL DEF Spec
<1>2. TypeInv => TypeOK
  BY DEF TypeInv, TypeOK, WorkerInv, ThreadInv
<1>3. QED
  BY <1>1, <1>2, PTL

-----------------------------------------------------------------------------
(* Counting threads.                                                       *)

\* When one thread moves, the number of threads in a set of control states
\* changes by what that thread contributes.
LEMMA CountMove ==
  ASSUME pc \in [Tasks -> ThreadPc], NEW t \in Tasks, NEW l, NEW S,
         pc' = [pc EXCEPT ![t] = l]
  PROVE  /\ Cardinality(ThreadsIn(S)) \in Nat
         /\ pc[t] \in S /\ l \in S => Cardinality(ThreadsIn(S)') = Cardinality(ThreadsIn(S))
         /\ pc[t] \notin S /\ l \notin S => Cardinality(ThreadsIn(S)') = Cardinality(ThreadsIn(S))
         /\ pc[t] \in S /\ l \notin S => Cardinality(ThreadsIn(S)') = Cardinality(ThreadsIn(S)) - 1
         /\ pc[t] \notin S /\ l \in S => Cardinality(ThreadsIn(S)') = Cardinality(ThreadsIn(S)) + 1
<1>1. IsFiniteSet(ThreadsIn(S)) /\ Cardinality(ThreadsIn(S)) \in Nat
  BY FS_Subset, FS_CardinalityType, PoolAssumption DEF ThreadsIn
<1>2. (pc[t] \in S <=> l \in S) => ThreadsIn(S)' = ThreadsIn(S)
  BY DEF ThreadsIn
<1>3. pc[t] \in S /\ l \notin S => ThreadsIn(S)' = ThreadsIn(S) \ {t} /\ t \in ThreadsIn(S)
  BY DEF ThreadsIn
<1>4. pc[t] \notin S /\ l \in S => ThreadsIn(S)' = ThreadsIn(S) \cup {t} /\ t \notin ThreadsIn(S)
  BY DEF ThreadsIn
<1>5. t \in ThreadsIn(S) => Cardinality(ThreadsIn(S) \ {t}) = Cardinality(ThreadsIn(S)) - 1
  BY <1>1, FS_RemoveElement
<1>6. t \notin ThreadsIn(S) => Cardinality(ThreadsIn(S) \cup {t}) = Cardinality(ThreadsIn(S)) + 1
  BY <1>1, FS_AddElement
<1>7. pc[t] \in S /\ l \notin S => Cardinality(ThreadsIn(S)') = Cardinality(ThreadsIn(S)) - 1
  BY <1>3, <1>5, Zenon
<1>8. pc[t] \notin S /\ l \in S => Cardinality(ThreadsIn(S)') = Cardinality(ThreadsIn(S)) + 1
  BY <1>4, <1>6, Zenon
<1>9. pc[t] \in S /\ l \in S => Cardinality(ThreadsIn(S)') = Cardinality(ThreadsIn(S))
  BY <1>2, Zenon
<1>10. pc[t] \notin S /\ l \notin S => Cardinality(ThreadsIn(S)') = Cardinality(ThreadsIn(S))
  BY <1>2, Zenon
<1>11. Cardinality(ThreadsIn(S)) \in Nat
  BY <1>1, ZenonT(60)
<1>12. QED
  BY <1>7, <1>8, <1>9, <1>10, <1>11, Zenon

\* Every step of a run_task thread starts in a working state and moves that
\* thread alone.
LEMMA ThreadMoves ==
  ASSUME NEW t \in Tasks, ThreadStep(t)
  PROVE  /\ pc[t] \in Working
         /\ \E l \in Working \cup {"end"} : pc' = [pc EXCEPT ![t] = l]
         /\ FreeSlot(t) \/ ForceResult(t) \/ \E l \in Working : pc' = [pc EXCEPT ![t] = l]
<1> USE DEF Working, Getting, Holding, Ending, Goto
<1>1. CASE CountBusy(t)
  BY <1>1 DEF CountBusy
<1>2. CASE CountIdle(t)
  BY <1>2 DEF CountIdle
<1>3. CASE AddForTask(t)
  BY <1>3 DEF AddForTask
<1>4. CASE Take(t)
  BY <1>4 DEF Take
<1>5. CASE Claim(t)
  BY <1>5 DEF Claim
<1>6. CASE SendDeclined(t)
  BY <1>6 DEF SendDeclined
<1>7. CASE SendUnpicklable(t)
  BY <1>7 DEF SendUnpicklable
<1>8. CASE SendRaises(t)
  BY <1>8 DEF SendRaises
<1>9. CASE SendBroken(t)
  BY <1>9 DEF SendBroken
<1>10. CASE SendJobTo(t)
  BY <1>10 DEF SendJobTo
<1>11. CASE Publish(t)
  BY <1>11 DEF Publish
<1>12. CASE ReadReply(t)
  BY <1>12 DEF ReadReply
<1>13. CASE ReadEof(t)
  BY <1>13 DEF ReadEof, WorkerDied
<1>14. CASE PollEmpty(t)
  BY <1>14 DEF PollEmpty
<1>15. CASE CheckAlive(t)
  BY <1>15 DEF CheckAlive
<1>16. CASE CheckDead(t)
  BY <1>16 DEF CheckDead, WorkerDied
<1>17. CASE Release(t)
  BY <1>17 DEF Release
<1>18. CASE ReleaseIdle(t)
  BY <1>18 DEF ReleaseIdle
<1>19. CASE Retire(t)
  BY <1>19 DEF Retire, Released
<1>20. CASE Keep(t)
  BY <1>20 DEF Keep
<1>21. CASE ReplaceDead(t)
  BY <1>21 DEF ReplaceDead, Released
<1>22. CASE ReplaceWornOut(t)
  BY <1>22 DEF ReplaceWornOut, ReplaceLive, Released
<1>23. CASE Weigh(t)
  BY <1>23 DEF Weigh
<1>24. CASE WeighFails(t)
  BY <1>24 DEF WeighFails
<1>25. CASE ReplaceHeavy(t)
  BY <1>25 DEF ReplaceHeavy, ReplaceLive, Released
<1>26. CASE PutBack(t)
  BY <1>26 DEF PutBack, Released
<1>27. CASE KillBroken(t)
  BY <1>27 DEF KillBroken
<1>28. CASE TaskDone(t)
  BY <1>28 DEF TaskDone
<1>29. CASE FreeSlot(t)
  BY <1>29 DEF FreeSlot
<1>30. CASE NoResult(t)
  BY <1>30 DEF NoResult
<1>31. CASE ForceResult(t)
  BY <1>31 DEF ForceResult
<1>32. QED
  BY <1>1, <1>2, <1>3, <1>4, <1>5, <1>6, <1>7, <1>8, <1>9, <1>10, <1>11, <1>12,
       <1>13, <1>14, <1>15, <1>16, <1>17, <1>18, <1>19, <1>20, <1>21, <1>22,
       <1>23, <1>24, <1>25, <1>26, <1>27, <1>28, <1>29, <1>30, <1>31 DEF
       ThreadStep

\* The number of run_task threads after a move.
LEMMA ActiveMoves ==
  ASSUME TypeInv, NEW t \in Tasks, NEW l, pc' = [pc EXCEPT ![t] = l]
  PROVE  /\ Cardinality(Active) \in Nat
         /\ pc[t] \in Working /\ l \in Working
              => Cardinality(Active') = Cardinality(Active)
         /\ pc[t] \notin Working /\ l \notin Working
              => Cardinality(Active') = Cardinality(Active)
         /\ pc[t] \in Working /\ l \notin Working
              => Cardinality(Active') = Cardinality(Active) - 1
         /\ pc[t] \notin Working /\ l \in Working
              => Cardinality(Active') = Cardinality(Active) + 1
<1>1. pc \in [Tasks -> ThreadPc]
  BY DEF TypeInv, ThreadInv, ThreadTypeOK
<1>2. Active = ThreadsIn(Working) /\ Active' = ThreadsIn(Working)'
  BY DEF Active
<1>3. QED
  BY <1>1, <1>2, CountMove

\* The number of those that have a worker, or are to add one, after a move.
LEMMA HolderMoves ==
  ASSUME TypeInv, NEW t \in Tasks, NEW l, pc' = [pc EXCEPT ![t] = l]
  PROVE  /\ Cardinality(Holders) \in Nat
         /\ pc[t] \in Holding /\ l \in Holding
              => Cardinality(Holders') = Cardinality(Holders)
         /\ pc[t] \notin Holding /\ l \notin Holding
              => Cardinality(Holders') = Cardinality(Holders)
         /\ pc[t] \in Holding /\ l \notin Holding
              => Cardinality(Holders') = Cardinality(Holders) - 1
         /\ pc[t] \notin Holding /\ l \in Holding
              => Cardinality(Holders') = Cardinality(Holders) + 1
<1>1. pc \in [Tasks -> ThreadPc]
  BY DEF TypeInv, ThreadInv, ThreadTypeOK
<1>2. Holders = ThreadsIn(Holding) /\ Holders' = ThreadsIn(Holding)'
  BY DEF Holders
<1>3. QED
  BY <1>1, <1>2, CountMove

\* Threads that do not move are counted as before.
LEMMA NoMoves ==
  ASSUME TypeInv
  PROVE  /\ Cardinality(Active) \in Nat
         /\ Cardinality(Holders) \in Nat
         /\ UNCHANGED pc => Active' = Active /\ Holders' = Holders
<1>1. IsFiniteSet(Active) /\ IsFiniteSet(Holders)
  BY FS_Subset, PoolAssumption DEF Active, Holders, ThreadsIn
<1>2. QED
  BY <1>1, FS_CardinalityType DEF Active, Holders, ThreadsIn

-----------------------------------------------------------------------------
(* Slots and capacity.                                                     *)

\* Every step keeps a slot for each run_task thread.
LEMMA SlotsStep ==
  ASSUME TypeInv, Slots, [Next]_vars
  PROVE  Slots'
<1> USE DEF Slots, RunnerHas
<1>a. QueueTypeOK /\ QueuedOK
  BY DEF TypeInv, ThreadInv
<1>b. Cardinality(Active) \in Nat /\ (UNCHANGED pc => Active' = Active)
  BY NoMoves
<1>c. ASSUME NEW t \in Tasks, NEW l, l \notin Working, pc[t] \notin Working,
             pc' = [pc EXCEPT ![t] = l], UNCHANGED <<running_jobs, rpc>>
      PROVE  Slots'
  <2>1. Cardinality(Active') = Cardinality(Active)
    BY <1>c, ActiveMoves, Zenon
  <2>2. QED
    BY <1>c, <2>1
<1>1. ASSUME NEW t \in Tasks, ThreadStep(t) PROVE Slots'
  <2>1. CASE FreeSlot(t) \/ ForceResult(t)
    <3>1. pc[t] \in Working /\ "end" \notin Working /\ pc' = [pc EXCEPT ![t] = "end"]
      BY <2>1 DEF FreeSlot, ForceResult, Goto, Working, Getting, Holding, Ending
    <3>2. Cardinality(Active') = Cardinality(Active) - 1
      BY <3>1, ActiveMoves, Zenon
    <3>3. (running_jobs' = running_jobs \/ running_jobs' = running_jobs - 1) /\ rpc' = rpc
      BY <2>1 DEF FreeSlot, ForceResult
    <3>4. QED
      BY <1>a, <1>b, <3>2, <3>3 DEF QueueTypeOK
  <2>3. CASE ~FreeSlot(t) /\ ~ForceResult(t)
    <3>1. UNCHANGED <<running_jobs, rpc>>
      BY <1>1, <2>3 DEF ThreadStep, CountBusy, CountIdle, AddForTask, Take,
           Claim, SendDeclined, SendUnpicklable, SendRaises, SendBroken,
           SendJobTo, Publish, ReadReply, ReadEof, PollEmpty, CheckAlive,
           CheckDead, Release, ReleaseIdle, Retire, Keep, ReplaceDead,
           ReplaceWornOut, Weigh, WeighFails, ReplaceHeavy, PutBack,
           KillBroken, TaskDone, NoResult, WorkerDied, ReplaceLive
    <3>2. PICK l \in Working : pc' = [pc EXCEPT ![t] = l]
      BY <1>1, <2>3, ThreadMoves
    <3>3. pc[t] \in Working
      BY <1>1, ThreadMoves
    <3>4. Cardinality(Active') = Cardinality(Active)
      BY <3>2, <3>3, ActiveMoves, Zenon
    <3>5. QED
      BY <3>1, <3>4
  <2>4. QED
    BY <2>1, <2>3
<1>2. ASSUME NEW t \in Tasks, SubmitStep(t) PROVE Slots'
  BY <1>2, <1>c DEF SubmitStep, Submit, SubmitRejected, Put, Goto, Working, Getting,
                    Holding, Ending
<1>3. ASSUME RunnerAcquire PROVE Slots'
  BY <1>3, <1>a, <1>b DEF RunnerAcquire, threadVars, QueueTypeOK
<1>4. ASSUME RunnerStop \/ RunnerStopped PROVE Slots'
  BY <1>4, <1>a, <1>b DEF RunnerStop, RunnerStopped, threadVars, QueueTypeOK
<1>5. ASSUME NEW t \in Tasks, RunnerLaunch(t) PROVE Slots'
  <2>1. pc[t] = "queued"
    BY <1>5, <1>a DEF RunnerLaunch, IsFirst, QueuedOK
  <2>2. "queued" \notin Working /\ "count_busy" \in Working
    BY DEF Working, Getting, Holding, Ending
  <2>3. pc' = [pc EXCEPT ![t] = "count_busy"]
    BY <1>5 DEF RunnerLaunch, Goto
  <2>4. Cardinality(Active') = Cardinality(Active) + 1
    BY <2>1, <2>2, <2>3, ActiveMoves, Zenon
  <2>5. running_jobs' = running_jobs /\ rpc = "pop" /\ rpc' = "acquire"
    BY <1>5 DEF RunnerLaunch
  <2>6. QED
    BY <1>a, <1>b, <2>4, <2>5 DEF QueueTypeOK
<1>6. ASSUME NEW t \in Tasks, RunnerSkip(t) PROVE Slots'
  <2>1. pc[t] = "queued"
    BY <1>6, <1>a DEF RunnerSkip, IsFirst, QueuedOK
  <2>2. "queued" \notin Working /\ "end" \notin Working
    BY DEF Working, Getting, Holding, Ending
  <2>3. pc' = [pc EXCEPT ![t] = "end"]
    BY <1>6 DEF RunnerSkip, Goto
  <2>4. Cardinality(Active') = Cardinality(Active)
    BY <2>1, <2>2, <2>3, ActiveMoves, Zenon
  <2>5. running_jobs' = running_jobs - 1 /\ rpc = "pop" /\ rpc' = "acquire"
    BY <1>6 DEF RunnerSkip
  <2>6. QED
    BY <1>a, <1>b, <2>4, <2>5 DEF QueueTypeOK
<1>7. ASSUME NEW t \in Tasks, RunnerCancel(t) \/ ShutdownCancel(t) PROVE Slots'
  <2>1. pc[t] = "queued"
    BY <1>7, <1>a DEF RunnerCancel, ShutdownCancel, CancelFirst, IsFirst, QueuedOK
  <2>2. QED
    BY <1>7, <1>c, <2>1 DEF RunnerCancel, ShutdownCancel, CancelFirst, Goto, Working,
                            Getting, Holding, Ending
<1>8. ASSUME UNCHANGED <<pc, running_jobs, rpc>> PROVE Slots'
  BY <1>8, <1>b
<1>9. [Next]_vars => \/ \E t \in Tasks : \/ ThreadStep(t) \/ SubmitStep(t)
                                         \/ RunnerLaunch(t) \/ RunnerSkip(t)
                                         \/ RunnerCancel(t) \/ ShutdownCancel(t)
                     \/ RunnerAcquire \/ RunnerStop \/ RunnerStopped
                     \/ UNCHANGED <<pc, running_jobs, rpc>>
  BY DEF Next, RunnerStep, ShutdownStep, ShutdownKill, ShutdownCancelled, PutSentinel,
         SentinelFull, SnapshotRunning, ShutdownKilled, ShutdownJoin, ShutdownIdle,
         ShutdownBusy, JoinWorker, SnapshotBusy, ShutdownReturns, ShutdownBegin,
         CallerCancels, CallerKills, CancelAndKill, ClearWorkers, ClearTests, ClearTakes,
         ProcessStep, AllDone, threadVars, vars
<1>10. QED
  BY <1>1, <1>2, <1>3, <1>4, <1>5, <1>6, <1>7, <1>8, <1>9

\* What a step of a run_task thread does to the idle queue: it takes a worker,
\* gives one in exchange for the one it holds or is to add, decides to add one,
\* or leaves the queue alone and takes hold of nothing.
Gives(t) == /\ pc[t] \in Holding
            /\ \E l \in Working \ Holding : pc' = [pc EXCEPT ![t] = l]
            /\ \E w : workers' = Append(workers, w)
Spares(t) == /\ UNCHANGED workers
             /\ \E l \in Working \cup {"end"} : /\ pc' = [pc EXCEPT ![t] = l]
                                                /\ pc[t] \in Holding \/ l \notin Holding

\* done_with_process ends with the worker out of the thread's hands.
LEMMA ReleasedMoves ==
  ASSUME NEW t, Released(t)
  PROVE  \E l \in Working \ Holding : pc' = [pc EXCEPT ![t] = l]
<1>1. \/ pc' = [pc EXCEPT ![t] = "kill"]
      \/ pc' = [pc EXCEPT ![t] = "finish"]
  BY DEF Released, Goto
<1>2. "kill" \in Working \ Holding /\ "finish" \in Working \ Holding
  BY DEF Working, Getting, Holding, Ending
<1>3. QED
  BY <1>1, <1>2

\* Every step of a run_task thread is of one of these four kinds.
LEMMA WorkerMoves ==
  ASSUME NEW t \in Tasks, ThreadStep(t)
  PROVE  CountIdle(t) \/ Take(t) \/ Gives(t) \/ Spares(t)
<1> USE DEF Working, Getting, Holding, Ending, Goto
<1>1. CASE CountBusy(t)
  BY <1>1 DEF CountBusy, Spares, poolVars
<1>2. CASE AddForTask(t)
  BY <1>2 DEF AddForTask, AddWorker, Gives
<1>3. CASE Claim(t)
  BY <1>3 DEF Claim, Spares, poolVars
<1>4. CASE SendDeclined(t)
  BY <1>4 DEF SendDeclined, Spares, poolVars
<1>5. CASE SendUnpicklable(t)
  BY <1>5 DEF SendUnpicklable, Spares, poolVars
<1>6. CASE SendRaises(t)
  BY <1>6 DEF SendRaises, Spares, poolVars
<1>7. CASE SendBroken(t)
  BY <1>7 DEF SendBroken, Spares, poolVars
<1>8. CASE SendJobTo(t)
  BY <1>8 DEF SendJobTo, Spares, poolVars
<1>9. CASE Publish(t)
  BY <1>9 DEF Publish, Spares, poolVars
<1>10. CASE ReadReply(t)
  BY <1>10 DEF ReadReply, Spares, poolVars
<1>11. CASE ReadEof(t)
  BY <1>11 DEF ReadEof, WorkerDied, Spares, poolVars
<1>12. CASE PollEmpty(t)
  BY <1>12 DEF PollEmpty, Spares, poolVars
<1>13. CASE CheckAlive(t)
  BY <1>13 DEF CheckAlive, Spares, poolVars
<1>14. CASE CheckDead(t)
  BY <1>14 DEF CheckDead, WorkerDied, Spares, poolVars
<1>15. CASE Release(t)
  BY <1>15 DEF Release, Spares, poolVars
<1>16. CASE ReleaseIdle(t)
  BY <1>16 DEF ReleaseIdle, Spares, poolVars
<1>17. CASE Retire(t)
  BY <1>17 DEF Retire, Released, Spares, poolVars
<1>18. CASE Keep(t)
  BY <1>18 DEF Keep, Spares, poolVars
<1>19. CASE ReplaceDead(t)
  <2>1. Released(t) /\ \E w : workers' = Append(workers, w)
    BY <1>19 DEF ReplaceDead, AddWorker
  <2>2. pc[t] \in Holding
    BY <1>19 DEF ReplaceDead
  <2>3. QED
    BY <2>1, <2>2, ReleasedMoves DEF Gives
<1>20. CASE ReplaceWornOut(t)
  <2>1. Released(t) /\ \E w : workers' = Append(workers, w)
    BY <1>20 DEF ReplaceWornOut, ReplaceLive, AddWorker
  <2>2. pc[t] \in Holding
    BY <1>20 DEF ReplaceWornOut
  <2>3. QED
    BY <2>1, <2>2, ReleasedMoves DEF Gives
<1>21. CASE Weigh(t)
  BY <1>21 DEF Weigh, Spares, poolVars
<1>22. CASE WeighFails(t)
  BY <1>22 DEF WeighFails, Spares, poolVars
<1>23. CASE ReplaceHeavy(t)
  <2>1. Released(t) /\ \E w : workers' = Append(workers, w)
    BY <1>23 DEF ReplaceHeavy, ReplaceLive, AddWorker
  <2>2. pc[t] \in Holding
    BY <1>23 DEF ReplaceHeavy
  <2>3. QED
    BY <2>1, <2>2, ReleasedMoves DEF Gives
<1>24. CASE PutBack(t)
  <2>1. Released(t) /\ \E w : workers' = Append(workers, w)
    BY <1>24 DEF PutBack
  <2>2. pc[t] \in Holding
    BY <1>24 DEF PutBack
  <2>3. QED
    BY <2>1, <2>2, ReleasedMoves DEF Gives
<1>25. CASE KillBroken(t)
  BY <1>25 DEF KillBroken, Spares, poolVars
<1>26. CASE TaskDone(t)
  BY <1>26 DEF TaskDone, Spares, poolVars
<1>27. CASE FreeSlot(t)
  BY <1>27 DEF FreeSlot, Spares, poolVars
<1>28. CASE NoResult(t)
  BY <1>28 DEF NoResult, Spares, poolVars
<1>29. CASE ForceResult(t)
  BY <1>29 DEF ForceResult, Spares, poolVars
<1>30. QED
  BY <1>1, <1>2, <1>3, <1>4, <1>5, <1>6, <1>7, <1>8, <1>9, <1>10, <1>11, <1>12,
       <1>13, <1>14, <1>15, <1>16, <1>17, <1>18, <1>19, <1>20, <1>21, <1>22,
       <1>23, <1>24, <1>25, <1>26, <1>27, <1>28, <1>29 DEF ThreadStep

\* Every step keeps the number of workers within max_workers.
LEMMA CapacityStep ==
  ASSUME TypeInv, Slots', TypeInv', Capacity, [Next]_vars
  PROVE  Capacity'
<1> USE DEF Capacity
<1>a. workers \in Seq(Workers) /\ Len(workers) \in Nat /\ QueuedOK
  BY DEF TypeInv, PoolTypeOK, ThreadInv
<1>b. Cardinality(Holders) \in Nat /\ (UNCHANGED pc => Holders' = Holders)
  BY NoMoves
<1>c. Cardinality(Holders') <= PoolSize /\ Cardinality(Holders') \in Nat
  <2>1. IsFiniteSet(Active')
    BY FS_Subset DEF Active, ThreadsIn
  <2>2. Holders' \subseteq Active'
    BY DEF Holders, Active, ThreadsIn, Working
  <2>3. /\ Cardinality(Holders') <= Cardinality(Active')
        /\ Cardinality(Active') \in Nat /\ Cardinality(Holders') \in Nat
    BY <2>1, <2>2, FS_Subset, FS_CardinalityType
  <2>4. running_jobs' \in Int
    BY DEF TypeInv, QueueTypeOK
  <2>5. QED
    BY <2>3, <2>4 DEF Slots, RunnerHas
<1>d. ASSUME NEW t \in Tasks, NEW l, pc' = [pc EXCEPT ![t] = l], UNCHANGED workers,
             pc[t] \in Holding \/ l \notin Holding
      PROVE  Capacity'
  <2>1. \/ Cardinality(Holders') = Cardinality(Holders)
        \/ Cardinality(Holders') = Cardinality(Holders) - 1
    BY <1>d, HolderMoves, Zenon
  <2>2. QED
    BY <1>a, <1>b, <1>d, <2>1
<1>e. ASSUME workers # <<>>, workers' = Tail(workers) PROVE Len(workers') = Len(workers) - 1
  BY <1>a, <1>e
<1>1. ASSUME NEW t \in Tasks, ThreadStep(t) PROVE Capacity'
  <2>1. CASE CountIdle(t)
    <3>1. CASE Len(workers) = 0
      <4>1. Len(workers') = 0
        BY <2>1, <3>1 DEF CountIdle, poolVars
      <4>2. QED
        BY <4>1, <1>c
    <3>2. CASE Len(workers) # 0
      <4>1. pc' = [pc EXCEPT ![t] = "take"] /\ "take" \notin Holding /\ UNCHANGED workers
        BY <2>1, <3>2 DEF CountIdle, Goto, Holding, poolVars
      <4>2. QED
        BY <4>1, <1>d
    <3>3. QED
      BY <3>1, <3>2
  <2>2. CASE Take(t)
    <3>1. pc[t] \notin Holding /\ "claim" \in Holding /\ pc' = [pc EXCEPT ![t] = "claim"]
      BY <2>2 DEF Take, Goto, Holding
    <3>2. Cardinality(Holders') = Cardinality(Holders) + 1
      BY <3>1, HolderMoves, Zenon
    <3>3. Len(workers') = Len(workers) - 1
      BY <2>2, <1>e DEF Take
    <3>4. QED
      BY <1>a, <1>b, <3>2, <3>3
  <2>3. CASE Gives(t)
    <3>1. PICK l \in Working \ Holding : pc' = [pc EXCEPT ![t] = l]
      BY <2>3 DEF Gives
    <3>2. Cardinality(Holders') = Cardinality(Holders) - 1
      BY <2>3, <3>1, HolderMoves, Zenon DEF Gives
    <3>3. PICK w : workers' = Append(workers, w)
      BY <2>3 DEF Gives
    <3>4. Len(workers') = Len(workers) + 1
      BY <1>a, <3>3
    <3>5. QED
      BY <1>a, <1>b, <3>2, <3>4
  <2>4. CASE Spares(t)
    BY <2>4, <1>d DEF Spares
  <2>5. QED
    BY <1>1, <2>1, <2>2, <2>3, <2>4, WorkerMoves
<1>2. ASSUME NEW t \in Tasks, SubmitStep(t) PROVE Capacity'
  BY <1>2, <1>d DEF SubmitStep, Submit, SubmitRejected, Put, Goto, Holding, poolVars
<1>3. ASSUME NEW t \in Tasks, RunnerLaunch(t) \/ RunnerSkip(t) \/ RunnerCancel(t) \/ ShutdownCancel(t)
      PROVE  Capacity'
  BY <1>3, <1>d DEF RunnerLaunch, RunnerSkip, RunnerCancel, ShutdownCancel, CancelFirst,
                    Goto, Holding, poolVars
<1>4. ASSUME ShutdownIdle \/ ClearTakes PROVE Capacity'
  <2>1. UNCHANGED pc /\ Len(workers') = Len(workers) - 1
    BY <1>4, <1>e DEF ShutdownIdle, ClearTakes, threadVars
  <2>2. QED
    BY <2>1, <1>a, <1>b
<1>5. ASSUME UNCHANGED <<pc, workers>> PROVE Capacity'
  BY <1>5, <1>b
<1>6. [Next]_vars => \/ \E t \in Tasks : \/ ThreadStep(t) \/ SubmitStep(t)
                                         \/ RunnerLaunch(t) \/ RunnerSkip(t)
                                         \/ RunnerCancel(t) \/ ShutdownCancel(t)
                     \/ ShutdownIdle \/ ClearTakes
                     \/ UNCHANGED <<pc, workers>>
  BY DEF Next, RunnerStep, RunnerAcquire, RunnerStop, RunnerStopped, ShutdownStep,
         ShutdownKill, ShutdownCancelled, PutSentinel, SentinelFull, SnapshotRunning,
         ShutdownKilled, ShutdownJoin, ShutdownBusy, JoinWorker, SnapshotBusy,
         ShutdownReturns, ShutdownBegin, CallerCancels, CallerKills, CancelAndKill,
         ClearWorkers, ClearTests, ProcessStep, AllDone, threadVars, poolVars, vars
<1>7. QED
  BY <1>1, <1>2, <1>3, <1>4, <1>5, <1>6

\* Initially no thread runs, no slot is taken and max_workers workers are idle.
LEMMA SlotsInit == Init => Slots /\ Capacity
<1> SUFFICES ASSUME Init PROVE Slots /\ Capacity
  OBVIOUS
<1>1. Active = {} /\ Holders = {}
  BY DEF Init, Active, Holders, ThreadsIn, Working, Getting, Holding, Ending
<1>2. Cardinality({}) = 0
  BY FS_EmptySet
<1>3. Len(workers) = PoolSize
  BY DEF Init
<1>4. running_jobs = 0 /\ RunnerHas = 0
  BY DEF Init, RunnerHas
<1>5. QED
  BY <1>1, <1>2, <1>3, <1>4 DEF Slots, Capacity

\* For every max_workers, backlog, retry count and set of tasks, and whatever
\* fails, is cancelled or times out: each run_task thread has its own slot in
\* running_jobs, so at most max_workers tasks run at once and get_nowait never
\* raises Empty.
THEOREM SlotsAreKept == Spec => []Slots
<1>1. TypeInv /\ Slots /\ [Next]_vars => TypeInv' /\ Slots'
  BY TypeStep, SlotsStep
<1>2. Init => TypeInv /\ Slots
  BY TypeInit, SlotsInit
<1>3. QED
  BY <1>1, <1>2, PTL DEF Spec

\* And the pool never has more than max_workers workers, although get_process
\* adds one on counts that it read at different times: the slots bound the
\* threads that can decide to.
THEOREM CapacityIsKept == Spec => []Capacity
<1>1. TypeInv /\ Slots /\ Capacity /\ [Next]_vars => TypeInv' /\ Slots' /\ Capacity'
  BY TypeStep, SlotsStep, CapacityStep
<1>2. Init => TypeInv /\ Slots /\ Capacity
  BY TypeInit, SlotsInit
<1>3. QED
  BY <1>1, <1>2, PTL DEF Spec

=============================================================================
