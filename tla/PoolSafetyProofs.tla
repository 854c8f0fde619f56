------------------------- MODULE PoolSafetyProofs -------------------------
(***************************************************************************)
(* Proofs of the pool's safety: that task_done() is called once for each   *)
(* item, what shutdown() may rely on after join(), that a worker has one   *)
(* owner at a time, that a future is only given the outcome of its own     *)
(* task, that a task starts once, or not at all if it was cancelled in     *)
(* time, that a waiting thread is never the last to wait, and that         *)
(* shutdown() leaves no worker running; and that the pool implements       *)
(* TaskPool.  TypeInv of PoolProofs is the ground they stand on.           *)
(***************************************************************************)
EXTENDS PoolProofs, SequenceLemmas

USE WorkerAssumption, PoolAssumption

-----------------------------------------------------------------------------
(* task_done() and the stages of shutdown().                               *)

NoSentinel == Sentinel \notin submitted_jobs
RunnerOn   == rpc \in {"acquire", "pop"}

\* The sentinel is put once, it is in the backlog until the runner stops on it,
\* and shutdown passes join() only after that.
StageOK ==
  /\ closed <=> spc # "open"
  /\ spc \in {"open", "cancel", "sentinel", "raised"} => RunnerOn /\ NoSentinel
  /\ spc \in {"snapshot", "kill", "join"} => (RunnerOn <=> ~NoSentinel)
  /\ spc \in {"idle", "busy", "done"} => ~RunnerOn /\ NoSentinel
  /\ OneCaller /\ closed => \A t \in Tasks : pc[t] # "putting"

ShutdownInv == StageOK /\ TaskDoneOnce /\ ShutdownWaits

\* Where run_task still owes a call of task_done().
Owing == Working \ {"settle", "force"}

\* A step of a run_task thread pays that debt in TaskDone and nowhere else.
LEMMA ThreadOwes ==
  ASSUME NEW t \in Tasks, ThreadStep(t)
  PROVE  \/ TaskDone(t) \/ FreeSlot(t) \/ NoResult(t) \/ ForceResult(t)
         \/ /\ pc[t] \in Owing
            /\ \E l \in Owing : pc' = [pc EXCEPT ![t] = l]
            /\ UNCHANGED unfinished
<1> USE DEF Owing, Working, Getting, Holding, Ending, Goto
<1>1. CASE CountBusy(t)
  BY <1>1 DEF CountBusy, queueVars
<1>2. CASE CountIdle(t)
  BY <1>2 DEF CountIdle, queueVars
<1>3. CASE AddForTask(t)
  BY <1>3 DEF AddForTask, AddWorker, queueVars
<1>4. CASE Take(t)
  BY <1>4 DEF Take, queueVars
<1>5. CASE Claim(t)
  BY <1>5 DEF Claim, queueVars
<1>6. CASE SendDeclined(t)
  BY <1>6 DEF SendDeclined, queueVars
<1>7. CASE SendUnpicklable(t)
  BY <1>7 DEF SendUnpicklable, queueVars
<1>8. CASE SendRaises(t)
  BY <1>8 DEF SendRaises, queueVars
<1>9. CASE SendBroken(t)
  BY <1>9 DEF SendBroken, queueVars
<1>10. CASE SendJobTo(t)
  BY <1>10 DEF SendJobTo, queueVars
<1>11. CASE Publish(t)
  BY <1>11 DEF Publish, queueVars
<1>12. CASE ReadReply(t)
  BY <1>12 DEF ReadReply, queueVars
<1>13. CASE ReadEof(t)
  BY <1>13 DEF ReadEof, WorkerDied, queueVars
<1>14. CASE PollEmpty(t)
  BY <1>14 DEF PollEmpty, queueVars
<1>15. CASE CheckAlive(t)
  BY <1>15 DEF CheckAlive, queueVars
<1>16. CASE CheckDead(t)
  BY <1>16 DEF CheckDead, WorkerDied, queueVars
<1>17. CASE Release(t)
  BY <1>17 DEF Release, queueVars
<1>18. CASE ReleaseIdle(t)
  BY <1>18 DEF ReleaseIdle, queueVars
<1>19. CASE Retire(t)
  BY <1>19 DEF Retire, Released, queueVars
<1>20. CASE Keep(t)
  BY <1>20 DEF Keep, queueVars
<1>21. CASE ReplaceDead(t)
  BY <1>21 DEF ReplaceDead, Released, AddWorker, queueVars
<1>22. CASE ReplaceWornOut(t)
  BY <1>22 DEF ReplaceWornOut, ReplaceLive, Released, AddWorker, queueVars
<1>23. CASE Weigh(t)
  BY <1>23 DEF Weigh, queueVars
<1>24. CASE WeighFails(t)
  BY <1>24 DEF WeighFails, queueVars
<1>25. CASE ReplaceHeavy(t)
  BY <1>25 DEF ReplaceHeavy, ReplaceLive, Released, AddWorker, queueVars
<1>26. CASE PutBack(t)
  BY <1>26 DEF PutBack, Released, queueVars
<1>27. CASE KillBroken(t)
  BY <1>27 DEF KillBroken, queueVars
<1>28. QED
  BY <1>1, <1>2, <1>3, <1>4, <1>5, <1>6, <1>7, <1>8, <1>9, <1>10, <1>11, <1>12, <1>13,
       <1>14, <1>15, <1>16, <1>17, <1>18, <1>19, <1>20, <1>21, <1>22, <1>23, <1>24, <1>25,
       <1>26, <1>27 DEF ThreadStep

\* What no run_task thread touches.
LEMMA ThreadLeaves ==
  ASSUME NEW t \in Tasks, ThreadStep(t)
  PROVE  UNCHANGED <<submitted_jobs, rpc, callerVars>>
  BY DEF ThreadStep, CountBusy, CountIdle, AddForTask, Take, Claim, SendDeclined,
       SendUnpicklable, SendRaises, SendBroken, SendJobTo, Publish, ReadReply, ReadEof,
       PollEmpty, CheckAlive, CheckDead, Release, ReleaseIdle, Retire, Keep, ReplaceDead,
       ReplaceWornOut, Weigh, WeighFails, ReplaceHeavy, PutBack, KillBroken, TaskDone,
       FreeSlot, NoResult, ForceResult, WorkerDied, ReplaceLive, queueVars

\* Who is counted: the backlog and the run_task threads are finite, and join()
\* finds both empty.
LEMMA BacklogIsEmpty ==
  ASSUME TypeInv
  PROVE  /\ IsFiniteSet(submitted_jobs) /\ Cardinality(submitted_jobs) \in Nat
         /\ IsFiniteSet(Owed) /\ Cardinality(Owed) \in Nat
         /\ TaskDoneOnce /\ unfinished = 0 => submitted_jobs = {} /\ Owed = {}
<1>1. submitted_jobs \in SUBSET (Tasks \cup {Sentinel})
  BY DEF TypeInv, QueueTypeOK
<1>2. IsFiniteSet(Tasks \cup {Sentinel})
  BY FS_AddElement
<1>3. IsFiniteSet(submitted_jobs) /\ Cardinality(submitted_jobs) \in Nat
  BY <1>1, <1>2, FS_Subset, FS_CardinalityType
<1>4. IsFiniteSet(Owed) /\ Cardinality(Owed) \in Nat
  BY FS_Subset, FS_CardinalityType DEF Owed, ThreadsIn
<1>5. ASSUME TaskDoneOnce, unfinished = 0
      PROVE  submitted_jobs = {} /\ Owed = {}
  <2>1. Cardinality(submitted_jobs) = 0 /\ Cardinality(Owed) = 0
    BY <1>3, <1>4, <1>5 DEF TaskDoneOnce
  <2>2. QED
    BY <2>1, <1>3, <1>4, FS_EmptySet
<1>6. QED
  BY <1>3, <1>4, <1>5

LEMMA StageStep ==
  ASSUME TypeInv, StageOK, TaskDoneOnce, [Next]_vars
  PROVE  StageOK'
<1> USE DEF StageOK, RunnerOn, NoSentinel, Sentinel
<1>1. ASSUME NEW t \in Tasks, ThreadStep(t) PROVE StageOK'
  <2>1. PICK l \in Working \cup {"end"} : pc' = [pc EXCEPT ![t] = l]
    BY <1>1, ThreadMoves
  <2>2. \A u \in Tasks : pc'[u] = "putting" => pc[u] = "putting"
    BY <2>1 DEF TypeInv, ThreadInv, ThreadTypeOK, Working, Getting, Holding, Ending
  <2>3. UNCHANGED <<submitted_jobs, rpc, closed, spc>>
    BY <1>1, ThreadLeaves DEF callerVars, shutdownVars
  <2>4. QED
    BY <2>2, <2>3
<1>2. ASSUME NEW t \in Tasks, SubmitStep(t) PROVE StageOK'
  <2>1. \A u \in Tasks : pc'[u] = "putting" => pc[u] = "putting" \/ ~closed
    BY <1>2 DEF SubmitStep, Submit, SubmitRejected, Put, Goto, TypeInv, ThreadInv, ThreadTypeOK
  <2>2. UNCHANGED <<rpc, closed, spc>> /\ (0 \in submitted_jobs' <=> 0 \in submitted_jobs)
    BY <1>2 DEF SubmitStep, Submit, SubmitRejected, Put, callerVars, shutdownVars, queueVars
  <2>3. QED
    BY <2>1, <2>2
<1>3. ASSUME NEW t \in Tasks,
             RunnerLaunch(t) \/ RunnerSkip(t) \/ RunnerCancel(t) \/ ShutdownCancel(t)
      PROVE  StageOK'
  <2>1. \A u \in Tasks : pc'[u] = "putting" => pc[u] = "putting"
    BY <1>3 DEF RunnerLaunch, RunnerSkip, RunnerCancel, ShutdownCancel, CancelFirst, Goto,
                TypeInv, ThreadInv, ThreadTypeOK
  <2>2. UNCHANGED <<closed, spc>> /\ (0 \in submitted_jobs' <=> 0 \in submitted_jobs)
    BY <1>3 DEF RunnerLaunch, RunnerSkip, RunnerCancel, ShutdownCancel, CancelFirst,
                callerVars, shutdownVars
  <2>3. RunnerOn' <=> RunnerOn
    BY <1>3 DEF RunnerLaunch, RunnerSkip, RunnerCancel, ShutdownCancel
  <2>4. QED
    BY <2>1, <2>2, <2>3
<1>4. ASSUME RunnerAcquire PROVE StageOK'
  BY <1>4 DEF RunnerAcquire, queueVars, threadVars, callerVars, shutdownVars
<1>5. ASSUME RunnerStop PROVE StageOK'
  <2>1. 0 \in submitted_jobs /\ 0 \notin submitted_jobs' /\ rpc' = "drain" /\ rpc = "pop"
    BY <1>5 DEF RunnerStop, IsFirst
  <2>2. UNCHANGED <<closed, spc, pc>>
    BY <1>5 DEF RunnerStop, threadVars, callerVars, shutdownVars
  <2>3. spc \in {"snapshot", "kill", "join"}
    BY <2>1 DEF TypeInv, CallerTypeOK, ShutdownPc
  <2>4. QED
    BY <2>1, <2>2, <2>3
<1>6. ASSUME RunnerStopped PROVE StageOK'
  BY <1>6 DEF RunnerStopped, queueVars, threadVars, callerVars, shutdownVars
<1>7. ASSUME NEW m \in ShutdownModes, ShutdownBegin(m) PROVE StageOK'
  <2>1. UNCHANGED <<submitted_jobs, rpc, pc>> /\ closed' = TRUE /\ spc = "open"
        /\ spc' \in {"cancel", "sentinel"}
        /\ (OneCaller => \A t \in Tasks : pc[t] # "putting")
    BY <1>7 DEF ShutdownBegin, queueVars, threadVars
  <2>2. QED
    BY <2>1
<1>8. ASSUME PutSentinel PROVE StageOK'
  <2>1. UNCHANGED <<closed, rpc, pc>> /\ spc = "sentinel" /\ 0 \in submitted_jobs'
        /\ spc' \in {"snapshot", "join"}
    BY <1>8 DEF PutSentinel, ShutdownGoto, threadVars
  <2>2. QED
    BY <2>1
<1>9. ASSUME ShutdownJoin PROVE StageOK'
  <2>1. UNCHANGED <<submitted_jobs, rpc, closed, pc>> /\ spc = "join" /\ spc' = "idle"
    BY <1>9 DEF ShutdownJoin, ShutdownGoto, queueVars, threadVars
  <2>2. submitted_jobs = {}
    BY <1>9, BacklogIsEmpty DEF ShutdownJoin
  <2>3. QED
    BY <2>1, <2>2
<1>10. ASSUME ShutdownCancelled \/ SentinelFull \/ SnapshotRunning \/ ShutdownKilled
              \/ SnapshotBusy \/ ShutdownReturns
       PROVE  StageOK'
  BY <1>10 DEF ShutdownCancelled, SentinelFull, SnapshotRunning, ShutdownKilled, SnapshotBusy,
               ShutdownReturns, ShutdownGoto, queueVars, threadVars
<1>11. ASSUME UNCHANGED <<submitted_jobs, rpc, closed, spc, pc>> PROVE StageOK'
  BY <1>11
<1>12. \/ \E t \in Tasks : \/ ThreadStep(t) \/ SubmitStep(t) \/ RunnerLaunch(t) \/ RunnerSkip(t)
                            \/ RunnerCancel(t) \/ ShutdownCancel(t)
       \/ RunnerAcquire \/ RunnerStop \/ RunnerStopped \/ PutSentinel \/ ShutdownJoin
       \/ \E m \in ShutdownModes : ShutdownBegin(m)
       \/ ShutdownCancelled \/ SentinelFull \/ SnapshotRunning \/ ShutdownKilled
       \/ SnapshotBusy \/ ShutdownReturns
       \/ UNCHANGED <<submitted_jobs, rpc, closed, spc, pc>>
  BY DEF Next, RunnerStep, ShutdownStep, ShutdownKill, ShutdownIdle, ShutdownBusy, JoinWorker,
         CallerCancels, CallerKills, CancelAndKill, ClearWorkers, ClearTests, ClearTakes,
         ProcessStep, AllDone, queueVars, threadVars, callerVars, shutdownVars, vars
<1>13. QED
  BY <1>1, <1>2, <1>3, <1>4, <1>5, <1>6, <1>7, <1>8, <1>9, <1>10, <1>11, <1>12

\* The number of threads that owe a call after a move.
LEMMA OwedMoves ==
  ASSUME TypeInv, NEW t \in Tasks, NEW l, pc' = [pc EXCEPT ![t] = l]
  PROVE  /\ pc[t] \in Owing /\ l \in Owing => Cardinality(Owed') = Cardinality(Owed)
         /\ pc[t] \notin Owing /\ l \notin Owing => Cardinality(Owed') = Cardinality(Owed)
         /\ pc[t] \in Owing /\ l \notin Owing => Cardinality(Owed') = Cardinality(Owed) - 1
         /\ pc[t] \notin Owing /\ l \in Owing => Cardinality(Owed') = Cardinality(Owed) + 1
<1>1. pc \in [Tasks -> ThreadPc]
  BY DEF TypeInv, ThreadInv, ThreadTypeOK
<1>2. Owed = ThreadsIn(Owing) /\ Owed' = ThreadsIn(Owing)'
  BY DEF Owed, Owing
<1>3. QED
  BY <1>1, <1>2, CountMove

\* Every step that takes an item from the backlog calls task_done(), or launches
\* a run_task thread that will.
LEMMA TaskDoneStep ==
  ASSUME TypeInv, StageOK, TaskDoneOnce, [Next]_vars
  PROVE  TaskDoneOnce'
<1> USE DEF TaskDoneOnce
<1>a. QueueTypeOK /\ QueuedOK
  BY DEF TypeInv, ThreadInv
<1>b. /\ IsFiniteSet(submitted_jobs) /\ Cardinality(submitted_jobs) \in Nat
      /\ Cardinality(Owed) \in Nat
  BY BacklogIsEmpty
<1>c. UNCHANGED pc => Owed' = Owed
  BY DEF Owed, ThreadsIn
<1>d. "queued" \notin Owing /\ "end" \notin Owing /\ "settle" \notin Owing /\ "force" \notin Owing
      /\ "new" \notin Owing /\ "putting" \notin Owing /\ "rejected" \notin Owing
      /\ "finish" \in Owing /\ "count_busy" \in Owing
  BY DEF Owing, Working, Getting, Holding, Ending
<1>e. ASSUME NEW j \in submitted_jobs, submitted_jobs' = submitted_jobs \ {j}
      PROVE  Cardinality(submitted_jobs') = Cardinality(submitted_jobs) - 1
  BY <1>b, <1>e, FS_RemoveElement
<1>f. ASSUME NEW j, j \notin submitted_jobs, submitted_jobs' = submitted_jobs \cup {j}
      PROVE  Cardinality(submitted_jobs') = Cardinality(submitted_jobs) + 1
  BY <1>b, <1>f, FS_AddElement
<1>1. ASSUME NEW t \in Tasks, ThreadStep(t) PROVE TaskDoneOnce'
  <2>1. submitted_jobs' = submitted_jobs
    BY <1>1, ThreadLeaves
  <2>2. CASE TaskDone(t)
    <3>1. pc[t] = "finish" /\ pc' = [pc EXCEPT ![t] = "settle"] /\ unfinished' = unfinished - 1
      BY <2>2 DEF TaskDone, Goto
    <3>2. Cardinality(Owed') = Cardinality(Owed) - 1
      BY <3>1, <1>d, OwedMoves
    <3>3. QED
      BY <3>1, <3>2, <2>1, <1>a, <1>b DEF QueueTypeOK
  <2>3. CASE FreeSlot(t) \/ NoResult(t) \/ ForceResult(t)
    <3>1. /\ pc[t] \in {"settle", "force"} /\ unfinished' = unfinished
          /\ \E l \in {"end", "force"} : pc' = [pc EXCEPT ![t] = l]
      BY <2>3 DEF FreeSlot, NoResult, ForceResult, Goto, queueVars
    <3>2. Cardinality(Owed') = Cardinality(Owed)
      BY <3>1, <1>d, OwedMoves
    <3>3. QED
      BY <3>1, <3>2, <2>1
  <2>4. CASE /\ pc[t] \in Owing /\ UNCHANGED unfinished
             /\ \E l \in Owing : pc' = [pc EXCEPT ![t] = l]
    <3>1. Cardinality(Owed') = Cardinality(Owed)
      BY <2>4, OwedMoves
    <3>2. QED
      BY <3>1, <2>1, <2>4
  <2>5. QED
    BY <1>1, <2>2, <2>3, <2>4, ThreadOwes
<1>2. ASSUME NEW t \in Tasks, Submit(t) \/ SubmitRejected(t) PROVE TaskDoneOnce'
  <2>1. /\ pc[t] = "new" /\ UNCHANGED <<submitted_jobs, unfinished>>
        /\ \E l \in {"putting", "rejected"} : pc' = [pc EXCEPT ![t] = l]
    BY <1>2 DEF Submit, SubmitRejected, Goto, queueVars
  <2>2. Cardinality(Owed') = Cardinality(Owed)
    BY <2>1, <1>d, OwedMoves
  <2>3. QED
    BY <2>1, <2>2
<1>3. ASSUME NEW t \in Tasks, Put(t) PROVE TaskDoneOnce'
  <2>1. /\ pc[t] = "putting" /\ pc' = [pc EXCEPT ![t] = "queued"]
        /\ submitted_jobs' = submitted_jobs \cup {t} /\ unfinished' = unfinished + 1
    BY <1>3 DEF Put, Goto
  <2>2. t \notin submitted_jobs
    BY <2>1, <1>a DEF QueuedOK
  <2>3. Cardinality(Owed') = Cardinality(Owed)
    BY <2>1, <1>d, OwedMoves
  <2>4. QED
    BY <2>1, <2>2, <2>3, <1>a, <1>b, <1>f DEF QueueTypeOK
<1>4. ASSUME NEW t \in Tasks, RunnerLaunch(t) PROVE TaskDoneOnce'
  <2>1. /\ t \in submitted_jobs /\ pc' = [pc EXCEPT ![t] = "count_busy"]
        /\ submitted_jobs' = submitted_jobs \ {t} /\ unfinished' = unfinished
    BY <1>4 DEF RunnerLaunch, IsFirst, Goto
  <2>2. pc[t] = "queued"
    BY <2>1, <1>a DEF QueuedOK
  <2>3. Cardinality(Owed') = Cardinality(Owed) + 1
    BY <2>1, <2>2, <1>d, OwedMoves
  <2>4. Cardinality(submitted_jobs') = Cardinality(submitted_jobs) - 1
    BY <2>1, <1>e
  <2>5. QED
    BY <2>1, <2>3, <2>4, <1>a, <1>b DEF QueueTypeOK
<1>5. ASSUME NEW t \in Tasks, RunnerSkip(t) \/ RunnerCancel(t) \/ ShutdownCancel(t)
      PROVE  TaskDoneOnce'
  <2>1. /\ t \in submitted_jobs /\ pc' = [pc EXCEPT ![t] = "end"]
        /\ submitted_jobs' = submitted_jobs \ {t} /\ unfinished' = unfinished - 1
    BY <1>5 DEF RunnerSkip, RunnerCancel, ShutdownCancel, CancelFirst, IsFirst, Goto
  <2>2. pc[t] = "queued"
    BY <2>1, <1>a DEF QueuedOK
  <2>3. Cardinality(Owed') = Cardinality(Owed)
    BY <2>1, <2>2, <1>d, OwedMoves
  <2>4. Cardinality(submitted_jobs') = Cardinality(submitted_jobs) - 1
    BY <2>1, <1>e
  <2>5. QED
    BY <2>1, <2>3, <2>4, <1>a, <1>b DEF QueueTypeOK
<1>6. ASSUME RunnerStop PROVE TaskDoneOnce'
  <2>1. /\ Sentinel \in submitted_jobs /\ UNCHANGED pc
        /\ submitted_jobs' = submitted_jobs \ {Sentinel} /\ unfinished' = unfinished - 1
    BY <1>6 DEF RunnerStop, IsFirst, threadVars
  <2>2. Cardinality(submitted_jobs') = Cardinality(submitted_jobs) - 1
    BY <2>1, <1>e
  <2>3. QED
    BY <2>1, <2>2, <1>a, <1>b, <1>c DEF QueueTypeOK
<1>7. ASSUME PutSentinel PROVE TaskDoneOnce'
  <2>1. /\ spc = "sentinel" /\ UNCHANGED pc
        /\ submitted_jobs' = submitted_jobs \cup {Sentinel} /\ unfinished' = unfinished + 1
    BY <1>7 DEF PutSentinel, threadVars
  <2>2. Sentinel \notin submitted_jobs
    BY <2>1 DEF StageOK, NoSentinel
  <2>3. Cardinality(submitted_jobs') = Cardinality(submitted_jobs) + 1
    BY <2>1, <2>2, <1>f
  <2>4. QED
    BY <2>1, <2>3, <1>a, <1>b, <1>c DEF QueueTypeOK
<1>8. ASSUME UNCHANGED <<submitted_jobs, unfinished, pc>> PROVE TaskDoneOnce'
  BY <1>8, <1>c
<1>9. \/ \E t \in Tasks : \/ ThreadStep(t) \/ Submit(t) \/ SubmitRejected(t) \/ Put(t)
                          \/ RunnerLaunch(t) \/ RunnerSkip(t) \/ RunnerCancel(t)
                          \/ ShutdownCancel(t)
      \/ RunnerStop \/ PutSentinel
      \/ UNCHANGED <<submitted_jobs, unfinished, pc>>
  BY DEF Next, SubmitStep, RunnerStep, RunnerAcquire, RunnerStopped, ShutdownStep,
         ShutdownKill, ShutdownCancelled, SentinelFull, SnapshotRunning, ShutdownKilled,
         ShutdownJoin, ShutdownIdle, ShutdownBusy, JoinWorker, SnapshotBusy, ShutdownReturns,
         ShutdownBegin, CallerCancels, CallerKills, CancelAndKill, ClearWorkers, ClearTests,
         ClearTakes, ProcessStep, AllDone, queueVars, threadVars, vars
<1>10. QED
  BY <1>1, <1>2, <1>3, <1>4, <1>5, <1>6, <1>7, <1>8, <1>9

\* After join() nothing is launched any more, so nobody gets into debt.
LEMMA WaitsStep ==
  ASSUME TypeInv, StageOK, TaskDoneOnce, ShutdownWaits, [Next]_vars
  PROVE  ShutdownWaits'
<1> DEFINE Past == spc \in {"idle", "busy", "done"}
<1>a. pc \in [Tasks -> ThreadPc] /\ QueuedOK
  BY DEF TypeInv, ThreadInv, ThreadTypeOK
<1>b. Owed = {} <=> \A t \in Tasks : pc[t] \notin Owing
  BY DEF Owed, Owing, ThreadsIn
<1>c. Owed' = {} <=> \A t \in Tasks : pc'[t] \notin Owing
  BY DEF Owed, Owing, ThreadsIn
<1>d. Past => /\ \A t \in Tasks : pc[t] \notin Owing
              /\ OneCaller => submitted_jobs = {} /\ \A t \in Tasks : pc[t] # "putting"
              /\ rpc \notin {"acquire", "pop"}
  BY <1>b DEF ShutdownWaits, StageOK, RunnerOn
<1>e. "queued" \notin Owing /\ "end" \notin Owing /\ "settle" \notin Owing /\ "force" \notin Owing
      /\ "new" \notin Owing /\ "putting" \notin Owing /\ "rejected" \notin Owing
      /\ "finish" \in Owing
  BY DEF Owing, Working, Getting, Holding, Ending
<1>f. ASSUME Past, NEW t \in Tasks, NEW l, l \notin Owing, pc' = [pc EXCEPT ![t] = l],
             OneCaller => submitted_jobs' = {}
      PROVE  ShutdownWaits'
  <2>1. \A u \in Tasks : pc'[u] \notin Owing
    BY <1>a, <1>d, <1>f
  <2>2. QED
    BY <2>1, <1>c, <1>f DEF ShutdownWaits
<1>1. ASSUME NEW t \in Tasks, ThreadStep(t) PROVE ShutdownWaits'
  <2>1. UNCHANGED <<submitted_jobs, spc>>
    BY <1>1, ThreadLeaves DEF callerVars, shutdownVars
  <2>2. SUFFICES ASSUME Past PROVE ShutdownWaits'
    BY <2>1 DEF ShutdownWaits
  <2>3. CASE FreeSlot(t) \/ NoResult(t) \/ ForceResult(t)
    <3>1. \E l \in {"end", "force"} : pc' = [pc EXCEPT ![t] = l]
      BY <2>3 DEF FreeSlot, NoResult, ForceResult, Goto
    <3>2. QED
      BY <3>1, <2>1, <2>2, <1>d, <1>e, <1>f
  <2>4. CASE TaskDone(t)
    BY <2>2, <2>4, <1>d, <1>e DEF TaskDone
  <2>5. QED
    BY <1>1, <2>2, <2>3, <2>4, <1>d, ThreadOwes
<1>2. ASSUME NEW t \in Tasks, Submit(t) \/ SubmitRejected(t) PROVE ShutdownWaits'
  <2>1. /\ UNCHANGED <<submitted_jobs, spc>>
        /\ \E l \in {"putting", "rejected"} : pc' = [pc EXCEPT ![t] = l]
    BY <1>2 DEF Submit, SubmitRejected, Goto, queueVars, callerVars, shutdownVars
  <2>2. QED
    BY <2>1, <1>d, <1>e, <1>f DEF ShutdownWaits
<1>3. ASSUME NEW t \in Tasks, Put(t) PROVE ShutdownWaits'
  <2>1. UNCHANGED spc /\ pc[t] = "putting" /\ pc' = [pc EXCEPT ![t] = "queued"]
    BY <1>3 DEF Put, Goto, callerVars, shutdownVars
  <2>2. CASE Past
    BY <2>1, <2>2, <1>d, <1>e, <1>f
  <2>3. CASE ~Past
    BY <2>1, <2>3 DEF ShutdownWaits
  <2>4. QED
    BY <2>2, <2>3
<1>4. ASSUME NEW t \in Tasks, RunnerLaunch(t) \/ RunnerSkip(t) PROVE ShutdownWaits'
  <2>1. UNCHANGED spc /\ rpc = "pop"
    BY <1>4 DEF RunnerLaunch, RunnerSkip, callerVars, shutdownVars
  <2>2. QED
    BY <2>1, <1>d DEF ShutdownWaits
<1>5. ASSUME NEW t \in Tasks, RunnerCancel(t) \/ ShutdownCancel(t) PROVE ShutdownWaits'
  <2>1. /\ UNCHANGED spc /\ pc' = [pc EXCEPT ![t] = "end"]
        /\ submitted_jobs' = submitted_jobs \ {t}
    BY <1>5 DEF RunnerCancel, ShutdownCancel, CancelFirst, Goto, callerVars, shutdownVars
  <2>2. CASE Past
    BY <2>1, <2>2, <1>d, <1>e, <1>f
  <2>3. CASE ~Past
    BY <2>1, <2>3 DEF ShutdownWaits
  <2>4. QED
    BY <2>2, <2>3
<1>6. ASSUME RunnerStop \/ PutSentinel PROVE ShutdownWaits'
  <2>1. (spc = "sentinel" /\ spc' \in {"snapshot", "join"}) \/ (UNCHANGED spc /\ rpc = "pop")
    BY <1>6 DEF RunnerStop, PutSentinel, ShutdownGoto, callerVars, shutdownVars
  <2>2. QED
    BY <2>1, <1>d DEF ShutdownWaits
<1>7. ASSUME ShutdownJoin PROVE ShutdownWaits'
  <2>1. unfinished = 0 /\ UNCHANGED <<submitted_jobs, pc>>
    BY <1>7 DEF ShutdownJoin, queueVars, threadVars
  <2>2. submitted_jobs = {} /\ Owed = {}
    BY <2>1, BacklogIsEmpty
  <2>3. QED
    BY <2>1, <2>2, <1>b, <1>c DEF ShutdownWaits
<1>8. ASSUME UNCHANGED <<submitted_jobs, pc>>,
             spc' \in {"idle", "busy", "done"} => Past
      PROVE  ShutdownWaits'
  BY <1>8, <1>b, <1>c DEF ShutdownWaits
<1>9. \/ \E t \in Tasks : \/ ThreadStep(t) \/ Submit(t) \/ SubmitRejected(t) \/ Put(t)
                          \/ RunnerLaunch(t) \/ RunnerSkip(t) \/ RunnerCancel(t)
                          \/ ShutdownCancel(t)
      \/ RunnerStop \/ PutSentinel \/ ShutdownJoin
      \/ UNCHANGED <<submitted_jobs, pc>> /\ (spc' \in {"idle", "busy", "done"} => Past)
  BY DEF Next, SubmitStep, RunnerStep, RunnerAcquire, RunnerStopped, ShutdownStep,
         ShutdownKill, ShutdownCancelled, SentinelFull, SnapshotRunning, ShutdownKilled,
         ShutdownIdle, ShutdownBusy, JoinWorker, SnapshotBusy, ShutdownReturns,
         ShutdownBegin, CallerCancels, CallerKills, CancelAndKill, ClearWorkers, ClearTests,
         ClearTakes, ProcessStep, AllDone, ShutdownGoto, queueVars, threadVars, callerVars,
         shutdownVars, vars
<1>10. QED
  BY <1>1, <1>2, <1>3, <1>4, <1>5, <1>6, <1>7, <1>8, <1>9

LEMMA ShutdownInit == Init => ShutdownInv
<1> SUFFICES ASSUME Init PROVE ShutdownInv
  OBVIOUS
<1>1. StageOK
  BY DEF Init, StageOK, RunnerOn, NoSentinel
<1>2. Owed = {} /\ submitted_jobs = {} /\ unfinished = 0
  BY DEF Init, Owed, ThreadsIn, Working, Getting, Holding, Ending
<1>3. QED
  BY <1>1, <1>2, FS_EmptySet DEF ShutdownInv, TaskDoneOnce, ShutdownWaits

LEMMA ShutdownStepInv == TypeInv /\ ShutdownInv /\ [Next]_vars => ShutdownInv'
  BY StageStep, TaskDoneStep, WaitsStep DEF ShutdownInv

\* task_done() is called exactly once for every item that was put on the backlog,
\* by the runner, by run_task or by a drain that cancels: join() neither returns
\* early nor raises.
THEOREM EveryItemIsDoneOnce == Spec => []TaskDoneOnce
<1>1. TypeInv /\ ShutdownInv => TaskDoneOnce
  BY DEF ShutdownInv
<1>2. QED
  BY <1>1, TypeInit, TypeStep, ShutdownInit, ShutdownStepInv, PTL DEF Spec

\* Once shutdown() is past join(), no run_task thread has a task or a worker in
\* hand, and nothing is left in the backlog unless another thread submits late.
THEOREM JoinWaits == Spec => []ShutdownWaits
<1>1. TypeInv /\ ShutdownInv => ShutdownWaits
  BY DEF ShutdownInv
<1>2. QED
  BY <1>1, TypeInit, TypeStep, ShutdownInit, ShutdownStepInv, PTL DEF Spec

-----------------------------------------------------------------------------
(* A worker has one owner.                                                 *)

\* Where a thread has no worker yet, or none any more.
Free == Submitting \cup {"queued", "rejected", "add"} \cup Getting
Has(t, w) == pc[t] \in HasWorker /\ held[t] = w

OwnedOK ==
  /\ \A t \in Tasks : pc[t] \in Free => held[t] = 0
  /\ \A t \in Tasks : pc[t] \in HasWorker => held[t] <= created
  /\ \A i \in 1 .. Len(workers) : workers[i] <= created
Sole ==
  /\ \A i, j \in 1 .. Len(workers) : workers[i] = workers[j] => i = j
  /\ \A t, u \in Tasks, w \in Workers : Has(t, w) /\ Has(u, w) => t = u
  /\ \A t \in Tasks, i \in 1 .. Len(workers) : ~Has(t, workers[i])
WeighOK == \A t \in Tasks : pc[t] = "weigh" => ok[held[t]]

OwnerInv == OwnedOK /\ Sole /\ WeighOK

\* What a step does to the worker of thread t, and to the idle queue.
Alone(t) == \A u \in Tasks \ {t} : pc'[u] = pc[u]
Keeps(t) == /\ UNCHANGED held
            /\ pc'[t] \in HasWorker => pc[t] \in HasWorker
            /\ pc'[t] \in Free => pc[t] \in Free
Drops(t) == held' = [held EXCEPT ![t] = 0] /\ pc'[t] \notin HasWorker
Grows == /\ created < MaxWorkers
         /\ created' = created + 1
         /\ workers' = Append(workers, created + 1)
SameIdle == UNCHANGED <<workers, created>>

\* done_with_process: the worker goes, or stays for the kill of a broken one.
LEMMA ReleasedOwns ==
  ASSUME TypeInv, NEW t \in Tasks, pc[t] \in HasWorker, Released(t)
  PROVE  Keeps(t) \/ Drops(t)
<1>1. held \in [Tasks -> Workers \cup {0}] /\ pc \in [Tasks -> ThreadPc]
  BY DEF TypeInv, ThreadInv, ThreadTypeOK
<1>2. CASE pid[t] = 0 /\ ~ok[held[t]]
  <2>1. pc'[t] = "kill" /\ held' = held
    BY <1>1, <1>2 DEF Released, Goto
  <2>2. "kill" \in HasWorker /\ "kill" \notin Free
    BY DEF HasWorker, Free, Submitting, Getting
  <2>3. QED
    BY <2>1, <2>2 DEF Keeps
<1>3. CASE ~(pid[t] = 0 /\ ~ok[held[t]])
  <2>1. pc'[t] = "finish" /\ held' = [held EXCEPT ![t] = 0]
    BY <1>1, <1>3 DEF Released, Goto
  <2>2. "finish" \notin HasWorker
    BY DEF HasWorker, Holding
  <2>3. QED
    BY <2>1, <2>2 DEF Drops
<1>4. QED
  BY <1>2, <1>3

\* Every step of a run_task thread takes a worker, puts one back, or does not
\* touch the idle queue except for a new worker.
LEMMA ThreadOwns ==
  ASSUME TypeInv, NEW t \in Tasks, ThreadStep(t)
  PROVE  Take(t) \/ PutBack(t) \/ ((Keeps(t) \/ Drops(t)) /\ (SameIdle \/ Grows))
<1>a. pc \in [Tasks -> ThreadPc]
  BY DEF TypeInv, ThreadInv, ThreadTypeOK
<1> USE DEF HasWorker, Free, Submitting, Getting, Holding, Goto, SameIdle
<1>1. CASE CountBusy(t)
  BY <1>a, <1>1 DEF CountBusy, Keeps, poolVars
<1>2. CASE CountIdle(t)
  <2>1. UNCHANGED <<held, workers, created>>
    BY <1>2 DEF CountIdle, poolVars
  <2>2. pc'[t] \in {"take", "add"}
    BY <1>a, <1>2 DEF CountIdle
  <2>3. pc[t] = "count_idle"
    BY <1>2 DEF CountIdle
  <2>4. QED
    BY <2>1, <2>2, <2>3 DEF Keeps
<1>3. CASE AddForTask(t)
  BY <1>a, <1>3 DEF AddForTask, AddWorker, Keeps, poolVars, Grows
<1>4. CASE Claim(t)
  BY <1>a, <1>4 DEF Claim, Keeps, poolVars
<1>5. CASE SendDeclined(t)
  BY <1>a, <1>5 DEF SendDeclined, Keeps, poolVars
<1>6. CASE SendUnpicklable(t)
  <2>1. UNCHANGED <<held, workers, created>>
    BY <1>6 DEF SendUnpicklable, poolVars
  <2>2. pc'[t] \in {"finish", "release"}
    BY <1>a, <1>6 DEF SendUnpicklable
  <2>3. pc[t] = "send"
    BY <1>6 DEF SendUnpicklable
  <2>4. QED
    BY <2>1, <2>2, <2>3 DEF Keeps
<1>7. CASE SendRaises(t)
  BY <1>a, <1>7 DEF SendRaises, Keeps, poolVars
<1>8. CASE SendBroken(t)
  BY <1>a, <1>8 DEF SendBroken, Keeps, poolVars
<1>9. CASE SendJobTo(t)
  BY <1>a, <1>9 DEF SendJobTo, Keeps, poolVars
<1>10. CASE Publish(t)
  BY <1>a, <1>10 DEF Publish, Keeps, poolVars
<1>11. CASE ReadReply(t)
  BY <1>a, <1>11 DEF ReadReply, Keeps, poolVars
<1>12. CASE ReadEof(t)
  BY <1>a, <1>12 DEF ReadEof, WorkerDied, Keeps, poolVars
<1>13. CASE PollEmpty(t)
  BY <1>a, <1>13 DEF PollEmpty, Keeps, poolVars
<1>14. CASE CheckAlive(t)
  BY <1>a, <1>14 DEF CheckAlive, Keeps, poolVars
<1>15. CASE CheckDead(t)
  BY <1>a, <1>15 DEF CheckDead, WorkerDied, Keeps, poolVars
<1>16. CASE Release(t)
  BY <1>a, <1>16 DEF Release, Keeps, poolVars
<1>17. CASE ReleaseIdle(t)
  BY <1>a, <1>17 DEF ReleaseIdle, Keeps, poolVars
<1>18. CASE Retire(t)
  <2>1. pc[t] \in HasWorker /\ Released(t)
    BY <1>18 DEF Retire
  <2>2. SameIdle \/ Grows
    BY <1>18 DEF Retire, AddWorker, Grows, poolVars
  <2>3. QED
    BY <2>1, <2>2, ReleasedOwns
<1>19. CASE Keep(t)
  BY <1>a, <1>19 DEF Keep, Keeps, poolVars
<1>20. CASE ReplaceDead(t)
  <2>1. pc[t] \in HasWorker /\ Released(t)
    BY <1>20 DEF ReplaceDead
  <2>2. SameIdle \/ Grows
    BY <1>20 DEF ReplaceDead, AddWorker, Grows, poolVars
  <2>3. QED
    BY <2>1, <2>2, ReleasedOwns
<1>21. CASE ReplaceWornOut(t)
  <2>1. pc[t] \in HasWorker /\ Released(t)
    BY <1>21 DEF ReplaceWornOut, ReplaceLive
  <2>2. SameIdle \/ Grows
    BY <1>21 DEF ReplaceWornOut, ReplaceLive, AddWorker, Grows, poolVars
  <2>3. QED
    BY <2>1, <2>2, ReleasedOwns
<1>22. CASE Weigh(t)
  BY <1>a, <1>22 DEF Weigh, Keeps, poolVars
<1>23. CASE WeighFails(t)
  BY <1>a, <1>23 DEF WeighFails, Drops, poolVars
<1>24. CASE ReplaceHeavy(t)
  <2>1. pc[t] \in HasWorker /\ Released(t)
    BY <1>24 DEF ReplaceHeavy, ReplaceLive
  <2>2. SameIdle \/ Grows
    BY <1>24 DEF ReplaceHeavy, ReplaceLive, AddWorker, Grows, poolVars
  <2>3. QED
    BY <2>1, <2>2, ReleasedOwns
<1>25. CASE KillBroken(t)
  <2>1. held' = [held EXCEPT ![t] = 0] /\ UNCHANGED <<workers, created>>
    BY <1>25 DEF KillBroken, poolVars
  <2>2. pc'[t] \in {"count_busy", "finish"}
    BY <1>a, <1>25 DEF KillBroken
  <2>3. QED
    BY <2>1, <2>2 DEF Drops
<1>26. CASE TaskDone(t)
  BY <1>a, <1>26 DEF TaskDone, Keeps, poolVars
<1>27. CASE FreeSlot(t)
  BY <1>a, <1>27 DEF FreeSlot, Keeps, poolVars
<1>28. CASE NoResult(t)
  BY <1>a, <1>28 DEF NoResult, Keeps, poolVars
<1>29. CASE ForceResult(t)
  BY <1>a, <1>29 DEF ForceResult, Keeps, poolVars
<1>30. QED
  BY <1>1, <1>2, <1>3, <1>4, <1>5, <1>6, <1>7, <1>8, <1>9, <1>10, <1>11, <1>12, <1>13,
       <1>14, <1>15, <1>16, <1>17, <1>18, <1>19, <1>20, <1>21, <1>22, <1>23, <1>24, <1>25,
       <1>26, <1>27, <1>28, <1>29 DEF ThreadStep

\* The threads that submit, and the runner, touch no worker.
LEMMA OwnerFrame ==
  ASSUME TypeInv, [Next]_vars
  PROVE  \/ \E t \in Tasks :
              /\ Alone(t)
              /\ Take(t) \/ PutBack(t) \/ ((Keeps(t) \/ Drops(t)) /\ (SameIdle \/ Grows))
         \/ /\ UNCHANGED <<pc, held, created>>
            /\ UNCHANGED workers \/ (workers # <<>> /\ workers' = Tail(workers))
<1>a. pc \in [Tasks -> ThreadPc] /\ QueuedOK
  BY DEF TypeInv, ThreadInv, ThreadTypeOK
<1>1. ASSUME NEW t \in Tasks, ThreadStep(t) PROVE Alone(t)
  <2>1. PICK l \in Working \cup {"end"} : pc' = [pc EXCEPT ![t] = l]
    BY <1>1, ThreadMoves
  <2>2. QED
    BY <2>1, <1>a DEF Alone
<1>2. ASSUME NEW t \in Tasks, SubmitStep(t) \/ RunnerLaunch(t) \/ RunnerSkip(t)
                              \/ RunnerCancel(t) \/ ShutdownCancel(t)
      PROVE  Alone(t) /\ Keeps(t) /\ SameIdle
  <2>1. UNCHANGED <<held, workers, created>>
    BY <1>2 DEF SubmitStep, Submit, SubmitRejected, Put, RunnerLaunch, RunnerSkip,
                RunnerCancel, ShutdownCancel, CancelFirst, poolVars
  <2>2. /\ pc[t] \in {"new", "putting", "queued"}
        /\ pc'[t] \in {"putting", "rejected", "queued", "count_busy", "end"}
        /\ Alone(t)
    <3>1. CASE SubmitStep(t)
      BY <3>1, <1>a DEF SubmitStep, Submit, SubmitRejected, Put, Goto, Alone
    <3>2. CASE RunnerLaunch(t) \/ RunnerSkip(t)
      BY <3>2, <1>a DEF RunnerLaunch, RunnerSkip, IsFirst, QueuedOK, Goto, Alone
    <3>3. CASE RunnerCancel(t) \/ ShutdownCancel(t)
      BY <3>3, <1>a DEF RunnerCancel, ShutdownCancel, CancelFirst, IsFirst, QueuedOK, Goto, Alone
    <3>4. QED
      BY <1>2, <3>1, <3>2, <3>3
  <2>3. QED
    BY <2>1, <2>2 DEF Keeps, SameIdle, HasWorker, Holding, Free, Submitting
<1>3. \/ \E t \in Tasks : \/ ThreadStep(t) \/ SubmitStep(t) \/ RunnerLaunch(t) \/ RunnerSkip(t)
                          \/ RunnerCancel(t) \/ ShutdownCancel(t)
      \/ /\ UNCHANGED <<pc, held, created>>
         /\ UNCHANGED workers \/ (workers # <<>> /\ workers' = Tail(workers))
  BY DEF Next, RunnerStep, RunnerAcquire, RunnerStop, RunnerStopped, ShutdownStep,
         ShutdownKill, ShutdownCancelled, PutSentinel, SentinelFull, SnapshotRunning,
         ShutdownKilled, ShutdownJoin, ShutdownIdle, ShutdownBusy, JoinWorker, SnapshotBusy,
         ShutdownReturns, ShutdownBegin, CallerCancels, CallerKills, CancelAndKill,
         ClearWorkers, ClearTests, ClearTakes, ProcessStep, AllDone, poolVars, threadVars, vars
<1>4. QED
  BY <1>1, <1>2, <1>3, ThreadOwns

\* Nobody gets hold of a worker, and the idle queue changes at one end.
LEMMA NoNewOwner ==
  ASSUME TypeInv, OwnedOK, Sole,
         \A u \in Tasks : pc'[u] \in HasWorker => pc[u] \in HasWorker /\ held'[u] = held[u],
         \A u \in Tasks : pc'[u] \in Free => held'[u] = 0,
         \/ SameIdle \/ Grows
         \/ UNCHANGED created /\ workers # <<>> /\ workers' = Tail(workers)
  PROVE  OwnedOK' /\ Sole'
<1>1. /\ workers \in Seq(Workers) /\ Len(workers) \in Nat /\ created \in Nat
      /\ \A t \in Tasks : pc[t] \in HasWorker => held[t] \in Workers
  BY DEF TypeInv, PoolTypeOK, ThreadInv, HeldOK
<1>2. \A i \in 1 .. Len(workers) : workers[i] \in Nat /\ workers[i] <= created
  BY <1>1 DEF OwnedOK, Workers
<1>3. \A t \in Tasks : pc'[t] \in HasWorker => held'[t] <= created /\ held'[t] \in Nat
  BY <1>1 DEF OwnedOK, Workers
<1>4. \A t, u \in Tasks, w \in Workers : Has(t, w)' /\ Has(u, w)' => t = u
  BY DEF Sole, Has
<1>5. CASE SameIdle
  BY <1>3, <1>4, <1>5 DEF OwnedOK, Sole, Has, SameIdle
<1>6. CASE Grows
  <2> DEFINE n == Len(workers)
             s == workers'
  <2>1. Len(s) = n + 1 /\ s[n + 1] = created + 1 /\ \A i \in 1 .. n : s[i] = workers[i]
    BY <1>1, <1>6 DEF Grows, Workers
  <2>2. \A i \in 1 .. Len(s) : i \in 1 .. n \/ i = n + 1
    BY <2>1, <1>1
  <2> HIDE DEF s
  <2>3. ASSUME NEW i \in 1 .. Len(s) PROVE s[i] <= created + 1
    BY <2>1, <2>2, <1>1, <1>2
  <2>4. ASSUME NEW i \in 1 .. Len(s), NEW j \in 1 .. Len(s), s[i] = s[j] PROVE i = j
    <3>1. CASE i = n + 1 \/ j = n + 1
      BY <3>1, <2>1, <2>2, <2>4, <1>1, <1>2, SMTT(30)
    <3>2. CASE i \in 1 .. n /\ j \in 1 .. n
      BY <3>2, <2>1, <2>4 DEF Sole
    <3>3. QED
      BY <3>1, <3>2, <2>2
  <2>5. ASSUME NEW t \in Tasks, NEW i \in 1 .. Len(s), pc'[t] \in HasWorker PROVE held'[t] # s[i]
    <3>1. CASE i = n + 1
      BY <3>1, <2>1, <2>5, <1>1, <1>3
    <3>2. CASE i \in 1 .. n
      BY <3>2, <2>1, <2>5 DEF Sole, Has
    <3>3. QED
      BY <3>1, <3>2, <2>2
  <2>6. created' = created + 1 /\ s = workers'
    BY <1>6 DEF Grows, s
  <2>7. \A t \in Tasks : pc'[t] \in HasWorker => held'[t] <= created + 1
    BY <1>1, <1>3
  <2>8. QED
    BY <2>3, <2>4, <2>5, <2>6, <2>7, <1>4 DEF OwnedOK, Sole, Has
<1>7. CASE UNCHANGED created /\ workers # <<>> /\ workers' = Tail(workers)
  <2> DEFINE s == workers'
  <2>1. Len(s) = Len(workers) - 1 /\ \A i \in 1 .. Len(s) : s[i] = workers[i + 1]
    BY <1>1, <1>7, HeadTailProperties
  <2> HIDE DEF s
  <2>2. \A i \in 1 .. Len(s) : i + 1 \in 1 .. Len(workers)
    BY <2>1, <1>1
  <2>3. ASSUME NEW i \in 1 .. Len(s), NEW j \in 1 .. Len(s), s[i] = s[j] PROVE i = j
    <3>1. i + 1 = j + 1
      BY <2>1, <2>2, <2>3 DEF Sole
    <3>2. QED
      BY <3>1
  <2>4. \A t \in Tasks, i \in 1 .. Len(s) : pc'[t] \in HasWorker => held'[t] # s[i]
    BY <2>1, <2>2 DEF Sole, Has
  <2>5. \A i \in 1 .. Len(s) : s[i] <= created
    BY <2>1, <2>2, <1>2
  <2>6. s = workers'
    BY DEF s
  <2>7. QED
    BY <2>3, <2>4, <2>5, <2>6, <1>3, <1>4, <1>7 DEF OwnedOK, Sole, Has
<1>8. QED
  BY <1>5, <1>6, <1>7

\* A worker that leaves the idle queue has no other owner.
LEMMA TakeOwns ==
  ASSUME TypeInv, OwnedOK, Sole, NEW t \in Tasks, Take(t)
  PROVE  OwnedOK' /\ Sole'
<1>1. /\ workers \in Seq(Workers) /\ Len(workers) \in Nat /\ workers # <<>>
      /\ pc \in [Tasks -> ThreadPc] /\ held \in [Tasks -> Workers \cup {0}]
  BY DEF TypeInv, PoolTypeOK, ThreadInv, ThreadTypeOK, Take
<1> DEFINE s == workers'
           h == Head(workers)
<1>2. /\ Len(s) = Len(workers) - 1 /\ h = workers[1] /\ 1 \in 1 .. Len(workers) /\ h \in Workers
      /\ \A i \in 1 .. Len(s) : s[i] = workers[i + 1]
  BY <1>1, HeadTailProperties, EmptySeq DEF Take
<1>3. /\ \A u \in Tasks : pc'[u] = IF u = t THEN "claim" ELSE pc[u]
      /\ \A u \in Tasks : held'[u] = IF u = t THEN h ELSE held[u]
      /\ created' = created
  BY <1>1 DEF Take, Goto
<1> HIDE DEF s, h
<1>4. \A i \in 1 .. Len(s) : i + 1 \in 1 .. Len(workers) /\ i + 1 # 1
  BY <1>1, <1>2
<1>5. "claim" \notin Free
  BY DEF Free, Submitting, Getting
<1>6. ASSUME NEW i \in 1 .. Len(s), NEW j \in 1 .. Len(s), s[i] = s[j] PROVE i = j
  <2>1. i + 1 = j + 1
    BY <1>2, <1>4, <1>6 DEF Sole
  <2>2. QED
    BY <2>1
<1>7. \A u \in Tasks : ~Has(u, h)
  BY <1>2 DEF Sole
<1>8. \A u, v \in Tasks, w \in Workers : Has(u, w)' /\ Has(v, w)' => u = v
  BY <1>3, <1>7 DEF Sole, Has
<1>9. ASSUME NEW u \in Tasks, NEW i \in 1 .. Len(s), pc'[u] \in HasWorker PROVE held'[u] # s[i]
  <2>1. CASE u = t
    <3>1. workers[1] # workers[i + 1]
      BY <1>2, <1>4 DEF Sole
    <3>2. QED
      BY <2>1, <3>1, <1>2, <1>3
  <2>2. CASE u # t
    BY <2>2, <1>2, <1>3, <1>4, <1>9 DEF Sole, Has
  <2>3. QED
    BY <2>1, <2>2
<1>10. s = workers'
  BY DEF s
<1>11. Sole'
  BY <1>6, <1>8, <1>9, <1>10 DEF Sole, Has
<1>12. OwnedOK'
  <2>1. \A u \in Tasks : pc'[u] \in Free => held'[u] = 0
    BY <1>3, <1>5 DEF OwnedOK
  <2>2. \A u \in Tasks : pc'[u] \in HasWorker => held'[u] <= created
    BY <1>2, <1>3 DEF OwnedOK
  <2>3. \A i \in 1 .. Len(s) : s[i] <= created
    BY <1>2, <1>4 DEF OwnedOK
  <2>4. QED
    BY <2>1, <2>2, <2>3, <1>3, <1>10 DEF OwnedOK
<1>13. QED
  BY <1>11, <1>12

\* A worker that is put back is let go: it is in order, so run_task is through
\* with it.
LEMMA PutBackDrops ==
  ASSUME TypeInv, OwnerInv, NEW t \in Tasks, PutBack(t)
  PROVE  /\ pc[t] \in HasWorker /\ ok[held[t]]
         /\ pc' = [pc EXCEPT ![t] = "finish"] /\ held' = [held EXCEPT ![t] = 0]
         /\ workers' = Append(workers, held[t]) /\ UNCHANGED created
<1>1. pc[t] \in {"recycle", "weigh"} /\ ok[held[t]]
  BY DEF PutBack, OwnerInv, WeighOK
<1>2. QED
  BY <1>1 DEF PutBack, Released, Goto, HasWorker, Holding

LEMMA PutBackOwns ==
  ASSUME TypeInv, OwnerInv, NEW t \in Tasks, PutBack(t)
  PROVE  OwnedOK' /\ Sole'
<1>1. /\ workers \in Seq(Workers) /\ Len(workers) \in Nat
      /\ pc \in [Tasks -> ThreadPc] /\ held \in [Tasks -> Workers \cup {0}]
  BY DEF TypeInv, PoolTypeOK, ThreadInv, ThreadTypeOK
<1> DEFINE n == Len(workers)
           s == workers'
           h == held[t]
<1>2. /\ pc[t] \in HasWorker
      /\ \A u \in Tasks : pc'[u] = IF u = t THEN "finish" ELSE pc[u]
      /\ \A u \in Tasks : held'[u] = IF u = t THEN 0 ELSE held[u]
      /\ workers' = Append(workers, h) /\ UNCHANGED created
  BY <1>1, PutBackDrops
<1>3. h \in Workers
  BY <1>2 DEF TypeInv, ThreadInv, HeldOK
<1>4. Len(s) = n + 1 /\ s[n + 1] = h /\ \A i \in 1 .. n : s[i] = workers[i]
  BY <1>1, <1>2, <1>3
<1>5. \A i \in 1 .. Len(s) : i \in 1 .. n \/ i = n + 1
  BY <1>1, <1>4
<1>6. OwnedOK /\ Sole /\ Has(t, h)
  BY <1>2 DEF OwnerInv, Has
<1>7. "finish" \notin HasWorker /\ "finish" \notin Free
  BY DEF HasWorker, Holding, Free, Submitting, Getting
<1> HIDE DEF s, h
<1>8. ASSUME NEW i \in 1 .. Len(s), NEW j \in 1 .. Len(s), s[i] = s[j] PROVE i = j
  <2>1. \A k \in 1 .. n : workers[k] # h
    BY <1>6 DEF Sole, Has
  <2>2. QED
    BY <2>1, <1>4, <1>5, <1>6, <1>8 DEF Sole
<1>9. ASSUME NEW u \in Tasks, NEW i \in 1 .. Len(s), pc'[u] \in HasWorker PROVE held'[u] # s[i]
  <2>1. u # t /\ Has(u, held[u]) /\ held'[u] = held[u]
    BY <1>2, <1>7, <1>9 DEF Has
  <2>2. held[u] # h
    BY <2>1, <1>3, <1>6 DEF Sole
  <2>3. \A k \in 1 .. n : workers[k] # held[u]
    BY <2>1, <1>6 DEF Sole
  <2>4. QED
    BY <2>1, <2>2, <2>3, <1>4, <1>5
<1>10. \A u, v \in Tasks, w \in Workers : Has(u, w)' /\ Has(v, w)' => u = v
  BY <1>2, <1>6, <1>7 DEF Sole, Has
<1>11. s = workers'
  BY DEF s
<1>12. Sole'
  BY <1>8, <1>9, <1>10, <1>11 DEF Sole, Has
<1>13. OwnedOK'
  <2>1. h <= created
    BY <1>2, <1>6 DEF OwnedOK, Has
  <2>2. \A i \in 1 .. Len(s) : s[i] <= created
    BY <2>1, <1>4, <1>5, <1>6 DEF OwnedOK
  <2>3. QED
    BY <2>2, <1>2, <1>6, <1>7, <1>11 DEF OwnedOK
<1>14. QED
  BY <1>12, <1>13

\* A worker whose memory is looked up is in order, and stays so: only its owner
\* marks it.
LEMMA ThreadWeighs ==
  ASSUME TypeInv, NEW t \in Tasks, ThreadStep(t), pc'[t] = "weigh"
  PROVE  Weigh(t)
<1>a. pc \in [Tasks -> ThreadPc]
  BY DEF TypeInv, ThreadInv, ThreadTypeOK
<1> USE DEF Goto
<1>1. CASE CountBusy(t)
  BY <1>a, <1>1 DEF CountBusy
<1>2. CASE CountIdle(t)
  BY <1>a, <1>2 DEF CountIdle
<1>3. CASE AddForTask(t)
  BY <1>a, <1>3 DEF AddForTask
<1>4. CASE Take(t)
  BY <1>a, <1>4 DEF Take
<1>5. CASE Claim(t)
  BY <1>a, <1>5 DEF Claim
<1>6. CASE SendDeclined(t)
  BY <1>a, <1>6 DEF SendDeclined
<1>7. CASE SendUnpicklable(t)
  BY <1>a, <1>7 DEF SendUnpicklable
<1>8. CASE SendRaises(t)
  BY <1>a, <1>8 DEF SendRaises
<1>9. CASE SendBroken(t)
  BY <1>a, <1>9 DEF SendBroken
<1>10. CASE SendJobTo(t)
  BY <1>a, <1>10 DEF SendJobTo
<1>11. CASE Publish(t)
  BY <1>a, <1>11 DEF Publish
<1>12. CASE ReadReply(t)
  BY <1>a, <1>12 DEF ReadReply
<1>13. CASE ReadEof(t)
  BY <1>a, <1>13 DEF ReadEof, WorkerDied
<1>14. CASE PollEmpty(t)
  BY <1>a, <1>14 DEF PollEmpty
<1>15. CASE CheckAlive(t)
  BY <1>a, <1>15 DEF CheckAlive
<1>16. CASE CheckDead(t)
  BY <1>a, <1>16 DEF CheckDead, WorkerDied
<1>17. CASE Release(t)
  BY <1>a, <1>17 DEF Release
<1>18. CASE ReleaseIdle(t)
  BY <1>a, <1>18 DEF ReleaseIdle
<1>19. CASE Retire(t)
  BY <1>a, <1>19 DEF Retire, Released
<1>20. CASE Keep(t)
  BY <1>a, <1>20 DEF Keep
<1>21. CASE ReplaceDead(t)
  BY <1>a, <1>21 DEF ReplaceDead, Released
<1>22. CASE ReplaceWornOut(t)
  BY <1>a, <1>22 DEF ReplaceWornOut, ReplaceLive, Released
<1>23. CASE WeighFails(t)
  BY <1>a, <1>23 DEF WeighFails
<1>24. CASE ReplaceHeavy(t)
  BY <1>a, <1>24 DEF ReplaceHeavy, ReplaceLive, Released
<1>25. CASE PutBack(t)
  BY <1>a, <1>25 DEF PutBack, Released
<1>26. CASE KillBroken(t)
  BY <1>a, <1>26 DEF KillBroken
<1>27. CASE TaskDone(t)
  BY <1>a, <1>27 DEF TaskDone
<1>28. CASE FreeSlot(t)
  BY <1>a, <1>28 DEF FreeSlot
<1>29. CASE NoResult(t)
  BY <1>a, <1>29 DEF NoResult
<1>30. CASE ForceResult(t)
  BY <1>a, <1>30 DEF ForceResult
<1>31. QED
  BY <1>1, <1>2, <1>3, <1>4, <1>5, <1>6, <1>7, <1>8, <1>9, <1>10, <1>11, <1>12, <1>13,
       <1>14, <1>15, <1>16, <1>17, <1>18, <1>19, <1>20, <1>21, <1>22, <1>23, <1>24, <1>25,
       <1>26, <1>27, <1>28, <1>29, <1>30 DEF ThreadStep

LEMMA OkFrame ==
  ASSUME [Next]_vars
  PROVE  UNCHANGED ok \/ \E t \in Tasks : SendBroken(t) \/ ReadReply(t)
  BY PoolFrame DEF AddForTask, Take, Claim, SendUnpicklable, SendRaises, SendJobTo, Release,
       ReplaceDead, ReplaceWornOut, ReplaceHeavy, ReplaceLive, PutBack, ShutdownIdle,
       SnapshotBusy, ClearTakes, poolVars

\* Where run_task has entered its worker among the busy ones and not yet removed
\* it.
Claimed == {"send", "publish", "await", "check", "release"}

LEMMA ThreadClaims ==
  ASSUME TypeInv, NEW t \in Tasks, ThreadStep(t)
  PROVE  \/ Claim(t) \/ Release(t)
         \/ /\ UNCHANGED busy_workers
            /\ pc'[t] \in Claimed => pc[t] \in Claimed /\ UNCHANGED held
<1>a. pc \in [Tasks -> ThreadPc]
  BY DEF TypeInv, ThreadInv, ThreadTypeOK
<1> USE DEF Claimed, Goto
<1>1. CASE CountBusy(t)
  BY <1>a, <1>1 DEF CountBusy, poolVars
<1>2. CASE CountIdle(t)
  BY <1>a, <1>2 DEF CountIdle, poolVars
<1>3. CASE AddForTask(t)
  BY <1>a, <1>3 DEF AddForTask, poolVars
<1>4. CASE Take(t)
  BY <1>a, <1>4 DEF Take, poolVars
<1>5. CASE SendDeclined(t)
  BY <1>a, <1>5 DEF SendDeclined, poolVars
<1>6. CASE SendUnpicklable(t)
  BY <1>a, <1>6 DEF SendUnpicklable, poolVars
<1>7. CASE SendRaises(t)
  BY <1>a, <1>7 DEF SendRaises, poolVars
<1>8. CASE SendBroken(t)
  BY <1>a, <1>8 DEF SendBroken, poolVars
<1>9. CASE SendJobTo(t)
  BY <1>a, <1>9 DEF SendJobTo, poolVars
<1>10. CASE Publish(t)
  BY <1>a, <1>10 DEF Publish, poolVars
<1>11. CASE ReadReply(t)
  BY <1>a, <1>11 DEF ReadReply, poolVars
<1>12. CASE ReadEof(t)
  BY <1>a, <1>12 DEF ReadEof, WorkerDied, poolVars
<1>13. CASE PollEmpty(t)
  BY <1>a, <1>13 DEF PollEmpty, poolVars
<1>14. CASE CheckAlive(t)
  BY <1>a, <1>14 DEF CheckAlive, poolVars
<1>15. CASE CheckDead(t)
  BY <1>a, <1>15 DEF CheckDead, WorkerDied, poolVars
<1>16. CASE ReleaseIdle(t)
  BY <1>a, <1>16 DEF ReleaseIdle, poolVars
<1>17. CASE Retire(t)
  BY <1>a, <1>17 DEF Retire, Released, poolVars
<1>18. CASE Keep(t)
  BY <1>a, <1>18 DEF Keep, poolVars
<1>19. CASE ReplaceDead(t)
  BY <1>a, <1>19 DEF ReplaceDead, Released, poolVars
<1>20. CASE ReplaceWornOut(t)
  BY <1>a, <1>20 DEF ReplaceWornOut, ReplaceLive, Released, poolVars
<1>21. CASE Weigh(t)
  BY <1>a, <1>21 DEF Weigh, poolVars
<1>22. CASE WeighFails(t)
  BY <1>a, <1>22 DEF WeighFails, poolVars
<1>23. CASE ReplaceHeavy(t)
  BY <1>a, <1>23 DEF ReplaceHeavy, ReplaceLive, Released, poolVars
<1>24. CASE PutBack(t)
  BY <1>a, <1>24 DEF PutBack, Released, poolVars
<1>25. CASE KillBroken(t)
  BY <1>a, <1>25 DEF KillBroken, poolVars
<1>26. CASE TaskDone(t)
  BY <1>a, <1>26 DEF TaskDone, poolVars
<1>27. CASE FreeSlot(t)
  BY <1>a, <1>27 DEF FreeSlot, poolVars
<1>28. CASE NoResult(t)
  BY <1>a, <1>28 DEF NoResult, poolVars
<1>29. CASE ForceResult(t)
  BY <1>a, <1>29 DEF ForceResult, poolVars
<1>30. QED
  BY <1>1, <1>2, <1>3, <1>4, <1>5, <1>6, <1>7, <1>8, <1>9, <1>10, <1>11, <1>12, <1>13,
       <1>14, <1>15, <1>16, <1>17, <1>18, <1>19, <1>20, <1>21, <1>22, <1>23, <1>24, <1>25,
       <1>26, <1>27, <1>28, <1>29 DEF ThreadStep

LEMMA OwnerStep ==
  ASSUME TypeInv, OwnerInv, [Next]_vars
  PROVE  OwnerInv'
<1>a. OwnedOK /\ Sole /\ WeighOK
  BY DEF OwnerInv
<1>b. /\ pc \in [Tasks -> ThreadPc] /\ held \in [Tasks -> Workers \cup {0}]
      /\ ok \in [Workers -> BOOLEAN] /\ HeldOK
  BY DEF TypeInv, PoolTypeOK, ThreadInv, ThreadTypeOK
<1>1. OwnedOK' /\ Sole'
  <2>1. ASSUME NEW t \in Tasks, Alone(t), Keeps(t) \/ Drops(t), SameIdle \/ Grows
        PROVE  OwnedOK' /\ Sole'
    <3>1. \A u \in Tasks : pc'[u] \in HasWorker => pc[u] \in HasWorker /\ held'[u] = held[u]
      BY <2>1, <1>b DEF Alone, Keeps, Drops
    <3>2. \A u \in Tasks : pc'[u] \in Free => held'[u] = 0
      BY <2>1, <1>a, <1>b DEF Alone, Keeps, Drops, OwnedOK
    <3>3. QED
      BY <2>1, <3>1, <3>2, <1>a, NoNewOwner
  <2>2. ASSUME UNCHANGED <<pc, held, created>>,
               UNCHANGED workers \/ (workers # <<>> /\ workers' = Tail(workers))
        PROVE  OwnedOK' /\ Sole'
    <3>1. \A u \in Tasks : pc'[u] \in Free => held'[u] = 0
      BY <2>2, <1>a DEF OwnedOK
    <3>2. SameIdle \/ (UNCHANGED created /\ workers # <<>> /\ workers' = Tail(workers))
      BY <2>2 DEF SameIdle
    <3>3. \A u \in Tasks : pc'[u] \in HasWorker => pc[u] \in HasWorker /\ held'[u] = held[u]
      BY <2>2
    <3>4. QED
      BY <3>1, <3>2, <3>3, <1>a, NoNewOwner
  <2>3. QED
    BY <2>1, <2>2, <1>a, OwnerFrame, TakeOwns, PutBackOwns
<1>2. ASSUME NEW t \in Tasks, pc'[t] = "weigh" PROVE ok'[held'[t]]
  <2>1. held[t] \in Workers /\ ok[held[t]] /\ Has(t, held[t]) /\ pc[t] \in {"recycle", "weigh"}
        /\ held'[t] = held[t]
    <3>1. CASE ThreadStep(t)
      <4>1. Weigh(t)
        BY <3>1, <1>2, ThreadWeighs
      <4>2. pc[t] = "recycle" /\ ok[held[t]] /\ held' = held
        BY <4>1 DEF Weigh
      <4>3. QED
        BY <4>2, <1>b DEF HeldOK, Has, HasWorker, Holding
    <3>2. CASE ~ThreadStep(t)
      <4>1. pc[t] = "weigh" /\ held'[t] = held[t]
        <5>1. CASE UNCHANGED <<pc, held>>
          BY <5>1, <1>2
        <5>2. ASSUME NEW u \in Tasks, u # t, Alone(u),
                     Take(u) \/ PutBack(u) \/ Keeps(u) \/ Drops(u)
              PROVE  pc[t] = "weigh" /\ held'[t] = held[t]
          <6>1. pc[t] = "weigh"
            BY <5>2, <1>2 DEF Alone
          <6>2. held'[t] = held[t]
            BY <5>2, <1>b DEF Take, PutBack, Released, Keeps, Drops
          <6>3. QED
            BY <6>1, <6>2
        <5>3. ASSUME Alone(t), Take(t) \/ PutBack(t) PROVE FALSE
          BY <5>3, <3>2 DEF ThreadStep
        <5>4. ASSUME Alone(t), Keeps(t) \/ Drops(t) PROVE pc[t] = "weigh" /\ held'[t] = held[t]
          <6>1. "weigh" \in HasWorker
            BY DEF HasWorker, Holding
          <6>2. Keeps(t)
            BY <5>4, <6>1, <1>2 DEF Drops
          <6>3. held'[t] = held[t]
            BY <6>2 DEF Keeps
          <6>4. pc[t] = "weigh"
            <7>1. \/ UNCHANGED pc
                  \/ \E u \in Tasks : \/ SubmitStep(u) \/ RunnerLaunch(u) \/ RunnerSkip(u)
                                      \/ RunnerCancel(u) \/ ShutdownCancel(u) \/ ThreadStep(u)
              BY DEF Next, RunnerStep, RunnerAcquire, RunnerStop, RunnerStopped, ShutdownStep,
                 ShutdownKill, ShutdownCancelled, PutSentinel, SentinelFull, SnapshotRunning,
                 ShutdownKilled, ShutdownJoin, ShutdownIdle, ShutdownBusy, JoinWorker,
                 SnapshotBusy, ShutdownReturns, ShutdownBegin, CallerCancels, CallerKills,
                 CancelAndKill, ClearWorkers, ClearTests, ClearTakes, ProcessStep, AllDone,
                 threadVars, vars
            <7>2. ASSUME NEW u \in Tasks, SubmitStep(u) \/ RunnerLaunch(u) \/ RunnerSkip(u)
                                          \/ RunnerCancel(u) \/ ShutdownCancel(u)
                  PROVE  pc[t] = "weigh"
              BY <7>2, <1>2, <1>b DEF SubmitStep, Submit, SubmitRejected, Put, RunnerLaunch,
                 RunnerSkip, RunnerCancel, ShutdownCancel, CancelFirst, Goto
            <7>3. ASSUME NEW u \in Tasks, ThreadStep(u) PROVE pc[t] = "weigh"
              <8>1. u # t
                BY <3>2, <7>3
              <8>2. PICK l \in Working \cup {"end"} : pc' = [pc EXCEPT ![u] = l]
                BY <7>3, ThreadMoves
              <8>3. QED
                BY <8>1, <8>2, <1>2, <1>b
            <7>4. QED
              BY <7>1, <7>2, <7>3, <1>2
          <6>5. QED
            BY <6>3, <6>4
        <5>5. QED
          BY <5>1, <5>2, <5>3, <5>4, OwnerFrame
      <4>2. QED
        BY <4>1, <1>a, <1>b DEF WeighOK, HeldOK, Has, HasWorker, Holding
    <3>3. QED
      BY <3>1, <3>2
  <2>2. CASE UNCHANGED ok
    BY <2>1, <2>2
  <2>3. ASSUME NEW u \in Tasks, SendBroken(u) \/ ReadReply(u) PROVE ok'[held[t]] = ok[held[t]]
    <3>1. pc[u] \in {"send", "await"}
      BY <2>3 DEF SendBroken, ReadReply
    <3>2. held[u] \in Workers /\ Has(u, held[u]) /\ u # t
      BY <3>1, <2>1, <1>b DEF HeldOK, Has, HasWorker, Holding
    <3>3. held[u] # held[t]
      BY <3>2, <2>1, <1>a DEF Sole
    <3>4. QED
      BY <2>1, <2>3, <3>3, <1>b DEF SendBroken, ReadReply
  <2>4. QED
    BY <2>1, <2>2, <2>3, OkFrame
<1>3. QED
  BY <1>1, <1>2 DEF OwnerInv, WeighOK

\* Only its owner takes a worker out of the busy ones, until shutdown empties the
\* set when there are no owners left.
LEMMA ClaimedStep ==
  ASSUME TypeInv, OwnerInv, ShutdownInv, ReleaseFindsWorker, [Next]_vars
  PROVE  ReleaseFindsWorker'
<1>a. /\ pc \in [Tasks -> ThreadPc] /\ held \in [Tasks -> Workers \cup {0}] /\ HeldOK
      /\ busy_workers \subseteq Workers /\ QueuedOK
  BY DEF TypeInv, PoolTypeOK, ThreadInv, ThreadTypeOK
<1>b. \A t \in Tasks : pc[t] \in Claimed => held[t] \in busy_workers
  BY DEF ReleaseFindsWorker, Claimed
<1>c. SUFFICES ASSUME NEW t \in Tasks, pc'[t] \in Claimed PROVE held'[t] \in busy_workers'
  BY DEF ReleaseFindsWorker, Claimed
<1>d. Sole
  BY DEF OwnerInv
<1>1. ASSUME NEW u \in Tasks, ThreadStep(u) PROVE held'[t] \in busy_workers'
  <2>1. Alone(u)
    <3>1. PICK l \in Working \cup {"end"} : pc' = [pc EXCEPT ![u] = l]
      BY <1>1, ThreadMoves
    <3>2. QED
      BY <3>1, <1>a DEF Alone
  <2>2. CASE Claim(u)
    BY <2>1, <2>2, <1>b, <1>c DEF Claim, Alone
  <2>3. CASE Release(u)
    <3>1. pc[u] = "release" /\ pc'[u] = "release_idle" /\ held' = held
          /\ busy_workers' = busy_workers \ {held[u]}
      BY <2>3, <1>a DEF Release, Goto
    <3>2. t # u /\ pc[t] \in Claimed
      BY <3>1, <2>1, <1>c DEF Alone, Claimed
    <3>3. held[t] \in Workers /\ held[u] \in Workers /\ Has(t, held[t]) /\ Has(u, held[u])
      BY <3>1, <3>2, <1>a DEF HeldOK, Has, HasWorker, Holding, Claimed
    <3>4. held[t] # held[u]
      BY <3>2, <3>3, <1>d DEF Sole
    <3>5. QED
      BY <3>1, <3>2, <3>4, <1>b
  <2>4. CASE UNCHANGED busy_workers /\ (pc'[u] \in Claimed => pc[u] \in Claimed /\ UNCHANGED held)
    <3>1. CASE t = u
      BY <3>1, <2>4, <1>b, <1>c
    <3>2. CASE t # u
      <4>1. pc[t] \in Claimed
        BY <3>2, <2>1, <1>c DEF Alone
      <4>2. held'[t] = held[t]
        <5>1. CASE Take(u) \/ PutBack(u)
          BY <5>1, <3>2, <1>a DEF Take, PutBack, Released
        <5>2. CASE Keeps(u) \/ Drops(u)
          BY <5>2, <3>2, <1>a DEF Keeps, Drops
        <5>3. QED
          BY <1>1, <5>1, <5>2, ThreadOwns
      <4>3. QED
        BY <4>1, <4>2, <2>4, <1>b
    <3>3. QED
      BY <3>1, <3>2
  <2>5. QED
    BY <1>1, <2>2, <2>3, <2>4, ThreadClaims
<1>2. ASSUME NEW u \in Tasks, SubmitStep(u) \/ RunnerLaunch(u) \/ RunnerSkip(u)
                              \/ RunnerCancel(u) \/ ShutdownCancel(u)
      PROVE  held'[t] \in busy_workers'
  <2>1. UNCHANGED <<held, busy_workers>>
    BY <1>2 DEF SubmitStep, Submit, SubmitRejected, Put, RunnerLaunch, RunnerSkip,
       RunnerCancel, ShutdownCancel, CancelFirst, poolVars
  <2>2. pc[t] \in Claimed
    BY <1>2, <1>a, <1>c DEF SubmitStep, Submit, SubmitRejected, Put, RunnerLaunch,
       RunnerSkip, RunnerCancel, ShutdownCancel, CancelFirst, Goto, Claimed
  <2>3. QED
    BY <2>1, <2>2, <1>b
<1>3. ASSUME SnapshotBusy PROVE FALSE
  <2>1. spc = "idle" /\ UNCHANGED pc
    BY <1>3 DEF SnapshotBusy, threadVars
  <2>2. Owed = {}
    BY <2>1 DEF ShutdownInv, ShutdownWaits
  <2>3. pc[t] \in Owing
    BY <2>1, <1>c DEF Claimed, Owing, Working, Holding, Ending
  <2>4. QED
    BY <2>2, <2>3 DEF Owed, Owing, ThreadsIn
<1>4. CASE UNCHANGED <<pc, held, busy_workers>>
  BY <1>4, <1>b, <1>c
<1>5. \/ UNCHANGED <<pc, held, busy_workers>>
      \/ SnapshotBusy
      \/ \E u \in Tasks : \/ SubmitStep(u) \/ RunnerLaunch(u) \/ RunnerSkip(u)
                          \/ RunnerCancel(u) \/ ShutdownCancel(u) \/ ThreadStep(u)
  BY DEF Next, RunnerStep, RunnerAcquire, RunnerStop, RunnerStopped, ShutdownStep,
     ShutdownKill, ShutdownCancelled, PutSentinel, SentinelFull, SnapshotRunning,
     ShutdownKilled, ShutdownJoin, ShutdownIdle, ShutdownBusy, JoinWorker,
     ShutdownReturns, ShutdownBegin, CallerCancels, CallerKills,
     CancelAndKill, ClearWorkers, ClearTests, ClearTakes, ProcessStep, AllDone,
     threadVars, poolVars, vars
<1>6. QED
  BY <1>1, <1>2, <1>3, <1>4, <1>5

LEMMA OwnerInit == Init => OwnerInv /\ ReleaseFindsWorker
<1> SUFFICES ASSUME Init PROVE OwnerInv /\ ReleaseFindsWorker
  OBVIOUS
<1>1. /\ \A t \in Tasks : pc[t] = "new" /\ held[t] = 0
      /\ workers = [i \in 1 .. PoolSize |-> i] /\ created = PoolSize
  BY DEF Init
<1>2. "new" \notin HasWorker /\ "new" \notin Claimed /\ "new" # "weigh"
  BY DEF HasWorker, Holding, Claimed
<1>3. workers \in Seq(Nat) /\ Len(workers) = PoolSize
  BY <1>1
<1>4. OwnedOK /\ Sole
  BY <1>1, <1>2, <1>3 DEF OwnedOK, Sole, Has
<1>5. QED
  BY <1>1, <1>2, <1>4 DEF OwnerInv, WeighOK, ReleaseFindsWorker, Claimed

\* The invariants of this module that the properties below rest on.
SafetyInv == TypeInv /\ ShutdownInv /\ OwnerInv /\ ReleaseFindsWorker

LEMMA SafetyInit == Init => SafetyInv
  BY TypeInit, ShutdownInit, OwnerInit DEF SafetyInv

LEMMA SafetyStep == SafetyInv /\ [Next]_vars => SafetyInv'
  BY TypeStep, ShutdownStepInv, OwnerStep, ClaimedStep DEF SafetyInv

\* No worker is idle twice, held by two run_task threads, or both idle and held.
THEOREM OneOwner == Spec => []Exclusive
<1>1. ASSUME SafetyInv PROVE Exclusive
  <2>1. OwnedOK /\ Sole
    BY <1>1 DEF SafetyInv, OwnerInv
  <2>2. workers \in Seq(Workers) /\ 0 \notin Workers
    BY <1>1 DEF SafetyInv, TypeInv, PoolTypeOK, Workers
  <2>3. \A t \in Tasks, w \in Workers : Holds(t, w) => Has(t, w)
    BY <2>1, <2>2 DEF Holds, Has, HasWorker, OwnedOK, Free
  <2>4. \A i \in 1 .. Len(workers) : workers[i] \in Workers
    BY <2>2
  <2>5. QED
    BY <2>1, <2>3, <2>4 DEF Exclusive, Sole
<1>2. QED
  BY <1>1, SafetyInit, SafetyStep, PTL DEF Spec

\* busy_workers.remove finds the worker: shutdown's clear() never overtakes a
\* run_task thread that has still to release one.
THEOREM BusyIsFound == Spec => []ReleaseFindsWorker
<1>1. SafetyInv => ReleaseFindsWorker
  BY DEF SafetyInv
<1>2. QED
  BY <1>1, SafetyInit, SafetyStep, PTL DEF Spec

-----------------------------------------------------------------------------
(* What a worker's pipes hold.                                             *)

\* A reply that is not the report of a timeout, and those of task t.
Outcomes == {m \in Message : m.kind # "timeout"}
Of(t)    == {m \in Outcomes : m.of = t}

NoJob(w)     == None(inbox[w], Tasks)
NoOutcome(w) == None(outbox[w], Outcomes)

\* The worker has nothing to do with any task; task t is in its inbox, in its
\* hands, or answered.
Clean(w)       == NoJob(w) /\ NoOutcome(w) /\ proc[w] # "running"
Asked(w, t)    == One(inbox[w], Tasks, {t}) /\ NoOutcome(w) /\ proc[w] # "running"
Runs(w, t)     == NoJob(w) /\ NoOutcome(w) /\ proc[w] = "running" /\ cur[w] = t
Answered(w, t) == NoJob(w) /\ One(outbox[w], Outcomes, Of(t)) /\ proc[w] # "running"
Serves(w, t)   == Clean(w) \/ Asked(w, t) \/ Runs(w, t) \/ Answered(w, t)

Kept(w) == /\ Clean(w) => Clean(w)'
           /\ \A t \in Tasks : Serves(w, t) => Serves(w, t)'

LEMMA PipeType ==
  ASSUME TypeInv, NEW w \in Workers
  PROVE  inbox[w] \in Seq(Tasks \cup {Quit}) /\ outbox[w] \in Seq(Message)
  BY DEF TypeInv, WorkerInv, WorkerTypeOK

\* The pipes are left alone, and the process starts, ends a job or is reaped.
LEMMA KeptSame ==
  ASSUME NEW w \in Workers, inbox'[w] = inbox[w], outbox'[w] = outbox[w],
         \/ proc'[w] = proc[w] /\ cur'[w] = cur[w]
         \/ proc[w] # "running" /\ proc'[w] # "running"
  PROVE  Kept(w)
  BY DEF Kept, Clean, Serves, Asked, Runs, Answered, NoJob, NoOutcome

\* The process dies.
LEMMA KeptEnd ==
  ASSUME NEW w \in Workers, inbox'[w] = <<>>, outbox'[w] = outbox[w],
         proc'[w] \in {"closing", "dead"}
  PROVE  Kept(w)
  BY NoneEmpty DEF Kept, Clean, Serves, Asked, Runs, Answered, NoJob, NoOutcome

\* The worker is told to exit and no longer listened to.
LEMMA KeptShut ==
  ASSUME TypeInv, NEW w \in Workers, outbox'[w] = <<>>,
         inbox'[w] = inbox[w] \/ inbox'[w] = Append(inbox[w], Quit),
         proc'[w] = proc[w], cur'[w] = cur[w]
  PROVE  Kept(w)
<1>1. inbox[w] \in Seq(Tasks \cup {Quit}) /\ Quit \notin Tasks /\ Quit \in Tasks \cup {Quit}
  BY PipeType DEF Quit
<1>2. NoOutcome(w)'
  BY NoneEmpty DEF NoOutcome
<1>3. NoJob(w) => NoJob(w)'
  <2>1. None(inbox[w], Tasks) => None(Append(inbox[w], Quit), Tasks)
    BY <1>1, NoneStays
  <2>2. QED
    BY <2>1 DEF NoJob
<1>4. ASSUME NEW t \in Tasks, One(inbox[w], Tasks, {t}) PROVE One(inbox'[w], Tasks, {t})
  <2>1. {t} \in SUBSET Tasks
    OBVIOUS
  <2>2. One(Append(inbox[w], Quit), Tasks, {t})
    BY <1>1, <1>4, <2>1, OneStays
  <2>3. QED
    BY <1>4, <2>2
<1>5. QED
  BY <1>2, <1>3, <1>4 DEF Kept, Clean, Serves, Asked, Runs, Answered

\* The worker starts the job it was sent.
LEMMA KeptRecv ==
  ASSUME TypeInv, NEW w \in Workers, Recv(w)
  PROVE  Kept(w)
<1> DEFINE h == Head(inbox[w])
<1>1. /\ inbox[w] \in Seq(Tasks \cup {Quit}) /\ inbox[w] # <<>> /\ h \in Tasks
      /\ inbox'[w] = Tail(inbox[w]) /\ cur'[w] = h /\ proc[w] # "running"
      /\ proc'[w] = "running" /\ outbox' = outbox
  BY PipeType DEF Recv, TypeInv, WorkerInv, WorkerTypeOK
<1>2. ~NoJob(w)
  BY <1>1, NoneStays DEF NoJob
<1>3. ASSUME NEW t \in Tasks, Asked(w, t) PROVE Runs(w, t)'
  <2>1. h = t /\ None(Tail(inbox[w]), Tasks)
    BY <1>1, <1>3, OneStays DEF Asked
  <2>2. QED
    BY <1>1, <1>3, <2>1 DEF Asked, Runs, NoJob, NoOutcome
<1>4. QED
  BY <1>2, <1>3 DEF Kept, Clean, Serves, Runs, Answered

\* The worker ends the job and answers, unless nobody listens or pickle refuses.
LEMMA KeptFinish ==
  ASSUME TypeInv, NEW w \in Workers, Finish(w)
  PROVE  Kept(w)
<1>1. /\ outbox[w] \in Seq(Message) /\ outbox \in [Workers -> Seq(Message)] /\ cur[w] \in Tasks
      /\ inbox' = inbox /\ cur' = cur /\ proc[w] = "running" /\ proc'[w] = "replied"
  BY PipeType DEF Finish, TypeInv, WorkerInv, WorkerTypeOK, CurOK
<1>2. PICK kind \in {"result", "error"} :
        outbox'[w] = outbox[w] \/ outbox'[w] = Append(outbox[w], [of |-> cur[w], kind |-> kind])
  <2>1. ASSUME NEW kind, Reply(w, cur[w], kind)
        PROVE  \/ outbox'[w] = outbox[w]
               \/ outbox'[w] = Append(outbox[w], [of |-> cur[w], kind |-> kind])
    BY <1>1, <2>1 DEF Reply
  <2>2. Reply(w, cur[w], "result") \/ Reply(w, cur[w], "error") \/ UNCHANGED outbox
    BY DEF Finish
  <2>3. QED
    BY <2>1, <2>2
<1> DEFINE m == [of |-> cur[w], kind |-> kind]
<1>3. m \in Of(cur[w]) /\ m \in Message
  BY <1>1 DEF Of, Outcomes, Message, Kind
<1> HIDE DEF m
<1>4. ASSUME NEW t \in Tasks, Runs(w, t) PROVE Serves(w, t)'
  <2>1. t = cur[w] /\ None(outbox[w], Outcomes) /\ NoJob(w)' /\ proc'[w] # "running"
    BY <1>1, <1>4 DEF Runs, NoJob, NoOutcome
  <2>2. CASE outbox'[w] = outbox[w]
    BY <2>1, <2>2 DEF Serves, Clean, NoOutcome
  <2>3. CASE outbox'[w] = Append(outbox[w], m)
    <3>1. One(outbox'[w], Outcomes, Of(t))
      BY <1>1, <1>3, <2>1, <2>3, OneBegins
    <3>2. QED
      BY <2>1, <3>1 DEF Serves, Answered
  <2>4. QED
    BY <1>2, <2>2, <2>3 DEF m
<1>5. QED
  BY <1>1, <1>4 DEF Kept, Clean, Serves, Asked, Answered

\* The timer reports a timeout.
LEMMA KeptReport ==
  ASSUME TypeInv, NEW u \in Tasks, TimerReports(u), NEW w \in Workers
  PROVE  Kept(w)
<1> DEFINE m == [of |-> u, kind |-> "timeout"]
<1>1. m \in Message /\ m \notin Outcomes
  BY DEF Outcomes, Message, Kind
<1>2. /\ outbox[w] \in Seq(Message)
      /\ outbox'[w] = outbox[w] \/ outbox'[w] = Append(outbox[w], m)
      /\ inbox' = inbox /\ cur' = cur /\ proc' = proc
  BY PipeType DEF TimerReports, Reply, TypeInv, WorkerInv, WorkerTypeOK
<1> HIDE DEF m
<1>3. NoOutcome(w) => NoOutcome(w)'
  <2>1. None(outbox[w], Outcomes) => None(Append(outbox[w], m), Outcomes)
    BY <1>1, <1>2, NoneStays
  <2>2. QED
    BY <1>2, <2>1 DEF NoOutcome
<1>4. ASSUME NEW t \in Tasks, One(outbox[w], Outcomes, Of(t)) PROVE One(outbox'[w], Outcomes, Of(t))
  <2>1. Of(t) \in SUBSET Outcomes
    BY DEF Of
  <2>2. One(Append(outbox[w], m), Outcomes, Of(t))
    BY <1>1, <1>2, <1>4, <2>1, OneStays
  <2>3. QED
    BY <1>2, <1>4, <2>2
<1>5. QED
  BY <1>2, <1>3, <1>4 DEF Kept, Clean, Serves, Asked, Runs, Answered, NoJob

\* run_task reads a reply.
LEMMA KeptRead ==
  ASSUME TypeInv, NEW u \in Tasks, ReadReply(u), NEW w \in Workers
  PROVE  Kept(w)
<1>1. CASE w # held[u]
  BY <1>1, KeptSame DEF ReadReply, TypeInv, WorkerInv, WorkerTypeOK
<1>2. CASE w = held[u]
  <2>1. /\ outbox[w] \in Seq(Message) /\ outbox[w] # <<>>
        /\ outbox'[w] = Tail(outbox[w]) /\ inbox' = inbox /\ cur' = cur /\ proc' = proc
    BY <1>2, PipeType DEF ReadReply, TypeInv, WorkerInv, WorkerTypeOK
  <2>2. NoOutcome(w) => NoOutcome(w)'
    BY <2>1, NoneStays DEF NoOutcome
  <2>3. ASSUME NEW t \in Tasks, One(outbox[w], Outcomes, Of(t))
        PROVE  One(outbox'[w], Outcomes, Of(t)) \/ NoOutcome(w)'
    <3>1. Of(t) \in SUBSET Outcomes
      BY DEF Of
    <3>2. QED
      BY <2>1, <2>3, <3>1, OneStays DEF NoOutcome
  <2>4. QED
    BY <2>1, <2>2, <2>3 DEF Kept, Clean, Serves, Asked, Runs, Answered, NoJob
<1>3. QED
  BY <1>1, <1>2

\* A timer runs only while the process of its task does.
TimerOK  == \A t \in Tasks : timer[t] # "off" => host[t] \in Workers /\ proc[host[t]] \in Running
\* Nothing is left in the inbox of a process that is gone.
BrokenOK == \A w \in Workers : PipeBroken(w) => NoJob(w)

LEMMA TerminateKeeps ==
  ASSUME TypeInv, NEW v, NEW state \in {"closing", "dead"}, Terminate(v, state),
         UNCHANGED outbox, NEW w \in Workers
  PROVE  /\ Kept(w)
         /\ w # v => proc'[w] = proc[w] /\ inbox'[w] = inbox[w]
         /\ w = v => proc'[w] = state /\ inbox'[w] = <<>>
<1>1. CASE w = v
  BY <1>1, KeptEnd DEF Terminate, TypeInv, WorkerInv, WorkerTypeOK
<1>2. CASE w # v
  BY <1>2, KeptSame DEF Terminate, TypeInv, WorkerInv, WorkerTypeOK
<1>3. QED
  BY <1>1, <1>2

LEMMA ShutdownKeeps ==
  ASSUME TypeInv, NEW v, ShutdownWorker(v), NEW w \in Workers
  PROVE  /\ inbox'[w] = inbox[w] \/ inbox'[w] = Append(inbox[w], Quit)
         /\ (outbox'[w] = outbox[w] /\ inbox'[w] = inbox[w]) \/ outbox'[w] = <<>>
  BY DEF ShutdownWorker, TypeInv, WorkerInv, WorkerTypeOK

\* What a step does to worker w, unless run_task writes a job to its pipe: the
\* pipes keep serving the same task, a dead worker stays dead, and the inbox only
\* grows by a request to exit.
FreshOK  == \A w \in Workers : w > created => Clean(w)
Mute(w)  == w <= created /\ ~IsAlive(w) => ~IsAlive(w)'
Reads(w) == \/ inbox'[w] = inbox[w] \/ inbox'[w] = <<>>
            \/ inbox'[w] = Append(inbox[w], Quit) \/ Recv(w)
Breaks(w) == PipeBroken(w)' => PipeBroken(w) \/ inbox'[w] = <<>>
Calm(w)   == Kept(w) /\ Mute(w) /\ Reads(w) /\ Breaks(w)

LEMMA TerminateCalm ==
  ASSUME TypeInv, NEW v, NEW state \in {"closing", "dead"}, Terminate(v, state),
         UNCHANGED outbox, state = "closing" => proc[v] \in Running, NEW w \in Workers
  PROVE  Calm(w)
<1>1. /\ Kept(w)
      /\ w # v => proc'[w] = proc[w] /\ inbox'[w] = inbox[w]
      /\ w = v => proc'[w] = state /\ inbox'[w] = <<>>
  BY TerminateKeeps
<1>2. Mute(w)
  BY <1>1 DEF Mute, IsAlive, Running
<1>3. QED
  BY <1>1, <1>2 DEF Calm, Reads, Breaks, PipeBroken

LEMMA ProcessCalm ==
  ASSUME TypeInv, TimerOK, ProcessStep, NEW w \in Workers
  PROVE  Calm(w)
<1>a. /\ proc \in [Workers -> ProcState] /\ inbox \in [Workers -> Seq(Tasks \cup {Quit})]
      /\ outbox \in [Workers -> Seq(Message)] /\ cur \in [Workers -> Tasks \cup {Quit}]
  BY DEF TypeInv, WorkerInv, WorkerTypeOK
<1>1. ASSUME NEW v \in Workers, Recv(v) PROVE Calm(w)
  <2>1. CASE v = w
    <3>1. proc[w] = "waiting" /\ proc'[w] = "running"
      BY <1>a, <1>1, <2>1 DEF Recv
    <3>2. QED
      BY <1>1, <2>1, <3>1, KeptRecv DEF Calm, Mute, Reads, Breaks, IsAlive, PipeBroken, Running
  <2>2. CASE v # w
    <3>1. proc'[w] = proc[w] /\ inbox'[w] = inbox[w] /\ outbox'[w] = outbox[w] /\ cur'[w] = cur[w]
      BY <1>a, <1>1, <2>2 DEF Recv
    <3>2. QED
      BY <3>1, KeptSame DEF Calm, Mute, Reads, Breaks, IsAlive, PipeBroken
  <2>3. QED
    BY <2>1, <2>2
<1>2. ASSUME NEW v \in Workers, Finish(v) PROVE Calm(w)
  <2>1. CASE v = w
    <3>1. proc[w] = "running" /\ proc'[w] = "replied" /\ inbox'[w] = inbox[w]
      BY <1>a, <1>2, <2>1 DEF Finish
    <3>2. QED
      BY <1>2, <2>1, <3>1, KeptFinish DEF Calm, Mute, Reads, Breaks, IsAlive, PipeBroken, Running
  <2>2. CASE v # w
    <3>1. proc'[w] = proc[w] /\ inbox'[w] = inbox[w] /\ outbox'[w] = outbox[w] /\ cur'[w] = cur[w]
      BY <1>a, <1>2, <2>2 DEF Finish, Reply
    <3>2. QED
      BY <3>1, KeptSame DEF Calm, Mute, Reads, Breaks, IsAlive, PipeBroken
  <2>3. QED
    BY <2>1, <2>2
<1>3. ASSUME NEW v \in Workers, DeactivateTimer(v) PROVE Calm(w)
  <2>1. /\ inbox'[w] = inbox[w] /\ outbox'[w] = outbox[w]
        /\ \/ proc'[w] = proc[w] /\ cur'[w] = cur[w]
           \/ proc[w] = "replied" /\ proc'[w] = "waiting"
    BY <1>a, <1>3 DEF DeactivateTimer
  <2>2. QED
    BY <2>1, KeptSame DEF Calm, Mute, Reads, Breaks, IsAlive, PipeBroken, Running
<1>4. ASSUME NEW v \in Workers, ExitOnNone(v) PROVE Calm(w)
  BY <1>4, TerminateCalm DEF ExitOnNone, Running
<1>5. ASSUME NEW v \in Workers, Reap(v) PROVE Calm(w)
  <2>1. /\ inbox'[w] = inbox[w] /\ outbox'[w] = outbox[w] /\ cur'[w] = cur[w]
        /\ proc'[w] = proc[w] \/ (proc[w] = "closing" /\ proc'[w] = "dead")
    BY <1>a, <1>5 DEF Reap
  <2>2. QED
    BY <2>1, KeptSame DEF Calm, Mute, Reads, Breaks, IsAlive, PipeBroken, Running
<1>6. ASSUME NEW v \in Workers, Die(v) PROVE Calm(w)
  BY <1>6, TerminateCalm DEF Die
<1>7. ASSUME NEW t \in Tasks, TimerFires(t) PROVE Calm(w)
  BY <1>7, KeptSame DEF TimerFires, Calm, Mute, Reads, Breaks, IsAlive, PipeBroken
<1>8. ASSUME NEW t \in Tasks, TimerReports(t) PROVE Calm(w)
  BY <1>8, KeptReport DEF TimerReports, Calm, Mute, Reads, Breaks, IsAlive, PipeBroken
<1>9. ASSUME NEW t \in Tasks, TimerKills(t) PROVE Calm(w)
  BY <1>9, TerminateCalm DEF TimerKills, TimerOK
<1>10. QED
  BY <1>1, <1>2, <1>3, <1>4, <1>5, <1>6, <1>7, <1>8, <1>9
     DEF ProcessStep, WorkerStep, TimerStep

LEMMA ShutdownCalm ==
  ASSUME TypeInv, NEW v, ShutdownWorker(v), UNCHANGED <<proc, cur>>, NEW w \in Workers
  PROVE  Calm(w)
<1>1. /\ inbox'[w] = inbox[w] \/ inbox'[w] = Append(inbox[w], Quit)
      /\ (outbox'[w] = outbox[w] /\ inbox'[w] = inbox[w]) \/ outbox'[w] = <<>>
  BY ShutdownKeeps
<1>2. Kept(w)
  BY <1>1, KeptSame, KeptShut
<1>3. QED
  BY <1>1, <1>2 DEF Calm, Mute, Reads, Breaks, IsAlive, PipeBroken

\* A replacement starts while the old worker is told to exit, or is dead.
LEMMA SpawnCalm ==
  ASSUME TypeInv, FreshOK, AddWorker, UNCHANGED cur, NEW v, v <= created,
         ShutdownWorker(v) \/ UNCHANGED <<inbox, outbox, listening>>, NEW w \in Workers
  PROVE  Calm(w)
<1>1. /\ created \in Nat /\ proc' = [proc EXCEPT ![created + 1] = "waiting"]
      /\ proc \in [Workers -> ProcState]
  BY DEF AddWorker, Spawn, TypeInv, PoolTypeOK, WorkerInv, WorkerTypeOK
<1>2. CASE w = created + 1
  <2>1. inbox'[w] = inbox[w] /\ outbox'[w] = outbox[w]
    <3>1. v # w
      BY <1>1, <1>2
    <3>2. QED
      BY <3>1 DEF ShutdownWorker, TypeInv, WorkerInv, WorkerTypeOK
  <2>2. proc'[w] = "waiting" /\ proc[w] # "running" /\ ~(w <= created)
    BY <1>1, <1>2 DEF FreshOK, Clean, Workers
  <2>3. QED
    BY <2>1, <2>2, KeptSame DEF Calm, Mute, Reads, Breaks, PipeBroken
<1>3. CASE w # created + 1
  <2>1. proc'[w] = proc[w] /\ cur'[w] = cur[w]
    BY <1>1, <1>3
  <2>2. /\ inbox'[w] = inbox[w] \/ inbox'[w] = Append(inbox[w], Quit)
        /\ (outbox'[w] = outbox[w] /\ inbox'[w] = inbox[w]) \/ outbox'[w] = <<>>
    BY ShutdownKeeps
  <2>3. Kept(w)
    BY <2>1, <2>2, KeptSame, KeptShut
  <2>4. QED
    BY <2>1, <2>2, <2>3 DEF Calm, Mute, Reads, Breaks, IsAlive, PipeBroken
<1>4. QED
  BY <1>2, <1>3

LEMMA StepCalm ==
  ASSUME TypeInv, OwnedOK, TimerOK, FreshOK, [Next]_vars, NEW w \in Workers,
         \A t \in Tasks : SendJobTo(t) => held[t] # w
  PROVE  Calm(w)
<1>a. /\ \A t \in Tasks : pc[t] \in HasWorker => held[t] <= created
      /\ inbox \in [Workers -> Seq(Tasks \cup {Quit})] /\ 0 <= created
  BY DEF OwnedOK, TypeInv, WorkerInv, WorkerTypeOK, PoolTypeOK
<1>b. ASSUME UNCHANGED <<proc, cur, inbox, outbox>> PROVE Calm(w)
  BY <1>b, KeptSame DEF Calm, Mute, Reads, Breaks, IsAlive, PipeBroken
<1>1. ASSUME NEW t \in Tasks, AddForTask(t) PROVE Calm(w)
  BY <1>a, <1>1, SpawnCalm DEF AddForTask
<1>2. ASSUME NEW t \in Tasks, SendJobTo(t) PROVE Calm(w)
  <2>1. inbox'[w] = inbox[w] /\ proc' = proc /\ outbox' = outbox /\ cur' = cur
    BY <1>a, <1>2 DEF SendJobTo, SendJob
  <2>2. QED
    BY <2>1, KeptSame DEF Calm, Mute, Reads, Breaks, IsAlive, PipeBroken
<1>3. ASSUME NEW t \in Tasks, ReadReply(t) PROVE Calm(w)
  BY <1>3, KeptRead DEF ReadReply, Calm, Mute, Reads, Breaks, IsAlive, PipeBroken
<1>4. ASSUME NEW t \in Tasks, Retire(t) PROVE Calm(w)
  BY <1>4, ShutdownCalm DEF Retire
<1>5. ASSUME NEW t \in Tasks, ReplaceDead(t) PROVE Calm(w)
  BY <1>a, <1>5, SpawnCalm DEF ReplaceDead
<1>6. ASSUME NEW t \in Tasks, ReplaceWornOut(t) \/ ReplaceHeavy(t) PROVE Calm(w)
  BY <1>a, <1>6, SpawnCalm DEF ReplaceWornOut, ReplaceHeavy, ReplaceLive, HasWorker, Holding
<1>7. ASSUME NEW t \in Tasks, KillBroken(t) PROVE Calm(w)
  BY <1>7, TerminateCalm DEF KillBroken, KillTree
<1>8. ASSUME NEW t \in Tasks, CallerKills(t) \/ ShutdownKill(t) PROVE Calm(w)
  <2>1. CancelAndKill(t)
    BY <1>8 DEF CallerKills, ShutdownKill
  <2>2. QED
    BY <1>b, <2>1, TerminateCalm DEF CancelAndKill, KillTree
<1>9. ASSUME ShutdownIdle \/ ClearTakes PROVE Calm(w)
  BY <1>9, ShutdownCalm DEF ShutdownIdle, ClearTakes
<1>10. ASSUME NEW v \in Workers, ShutdownBusy(v) PROVE Calm(w)
  BY <1>10, ShutdownCalm DEF ShutdownBusy
<1>11. QED
  BY <1>b, <1>1, <1>2, <1>3, <1>4, <1>5, <1>6, <1>7, <1>8, <1>9, <1>10, ProcessCalm,
     WorkerFrame DEF workerVars

LEMMA TimerKept ==
  ASSUME TypeInv, TimerOK, [Next]_vars
  PROVE  TimerOK'
<1>a. /\ proc \in [Workers -> ProcState] /\ timer \in [Tasks -> {"off", "armed", "fired", "sent"}]
      /\ host \in [Tasks -> Workers \cup {0}] /\ inbox \in [Workers -> Seq(Tasks \cup {Quit})]
  BY DEF TypeInv, WorkerInv, WorkerTypeOK
<1>b. ASSUME UNCHANGED <<timer, host, proc>> PROVE TimerOK'
  BY <1>b DEF TimerOK
<1>c. ASSUME NEW v, NEW state, Terminate(v, state), UNCHANGED host PROVE TimerOK'
  BY <1>a, <1>c DEF TimerOK, Terminate
<1>d. ASSUME AddWorker, UNCHANGED <<timer, host>> PROVE TimerOK'
  BY <1>a, <1>d DEF TimerOK, AddWorker, Spawn, Running
<1>1. ASSUME NEW v \in Workers, Recv(v) PROVE TimerOK'
  <2> DEFINE h == Head(inbox[v])
  <2>1. /\ proc' = [proc EXCEPT ![v] = "running"] /\ host' = [host EXCEPT ![h] = v] /\ h \in Tasks
        /\ \A t \in Tasks : t # h => timer'[t] = timer[t]
    BY <1>a, <1>1 DEF Recv
  <2> HIDE DEF h
  <2>2. QED
    BY <1>a, <2>1 DEF TimerOK, Running
<1>2. ASSUME NEW v \in Workers, Finish(v) \/ DeactivateTimer(v) PROVE TimerOK'
  <2>1. /\ proc' = [proc EXCEPT ![v] = "replied"] \/ proc' = [proc EXCEPT ![v] = "waiting"]
        /\ host' = host
        /\ \A t \in Tasks : timer'[t] # "off" => timer[t] # "off"
    BY <1>a, <1>2 DEF Finish, DeactivateTimer
  <2>2. QED
    BY <1>a, <2>1 DEF TimerOK, Running
<1>3. ASSUME NEW v \in Workers, Reap(v) PROVE TimerOK'
  BY <1>a, <1>3 DEF Reap, TimerOK, Running
<1>4. ASSUME NEW t \in Tasks, TimerFires(t) \/ TimerReports(t) PROVE TimerOK'
  BY <1>a, <1>4 DEF TimerFires, TimerReports, TimerOK
<1>5. CASE ProcessStep
  BY <1>c, <1>1, <1>2, <1>3, <1>4, <1>5
     DEF ProcessStep, WorkerStep, TimerStep, ExitOnNone, Die, TimerKills
<1>6. ASSUME NEW t \in Tasks, CallerKills(t) \/ ShutdownKill(t) PROVE TimerOK'
  <2>1. CancelAndKill(t)
    BY <1>6 DEF CallerKills, ShutdownKill
  <2>2. QED
    BY <1>b, <1>c, <2>1 DEF CancelAndKill, KillTree
<1>7. ASSUME NEW t \in Tasks, KillBroken(t) PROVE TimerOK'
  BY <1>c, <1>7 DEF KillBroken, KillTree
<1>8. QED
  BY <1>b, <1>d, <1>5, <1>6, <1>7, WorkerFrame
     DEF workerVars, AddForTask, SendJobTo, ReadReply, Retire, ReplaceDead, ReplaceWornOut,
         ReplaceHeavy, ReplaceLive, ShutdownIdle, ClearTakes, ShutdownBusy

-----------------------------------------------------------------------------
(* A future is given the outcome of its own task.                          *)

\* done_with_process has the worker in its hands.
Letting == {"release", "release_idle", "release_backlog", "recycle"}

\* An idle worker and one that was just taken have nothing to do with any task;
\* one that was sent a job serves that task; and done_with_process keeps a worker
\* only if it is as good as new.
IdleOK == \A i \in 1 .. Len(workers) : Clean(workers[i])
PipeFor(t) ==
  /\ pc[t] \in {"claim", "send"} => Clean(held[t])
  /\ pc[t] \in {"publish", "await", "check"} => Serves(held[t], t)
  /\ pc[t] \in Letting => Clean(held[t]) \/ ~ok[held[t]] \/ ~IsAlive(held[t])
  /\ pc[t] = "weigh" => Clean(held[t]) \/ ~IsAlive(held[t])
PipeOK  == \A t \in Tasks : PipeFor(t)
PipeInv == TimerOK /\ BrokenOK /\ FreshOK /\ IdleOK /\ PipeOK

\* How a run_task thread comes to hold a worker and passes it on.
LEMMA ThreadPipes ==
  ASSUME TypeInv, NEW t \in Tasks, ThreadStep(t)
  PROVE  \/ Take(t) \/ SendJobTo(t) \/ ReadReply(t) \/ ReadEof(t) \/ CheckDead(t) \/ Weigh(t)
         \/ pc'[t] \notin Letting \cup {"claim", "send", "publish", "await", "check", "weigh"}
         \/ /\ UNCHANGED held
            /\ \/ pc[t] \in {"claim", "send"} /\ pc'[t] \in Letting \cup {"claim", "send"}
               \/ pc[t] \in {"publish", "await", "check"} /\ pc'[t] \in {"publish", "await", "check"}
               \/ pc[t] \in Letting /\ pc'[t] \in Letting
<1>a. pc \in [Tasks -> ThreadPc]
  BY DEF TypeInv, ThreadInv, ThreadTypeOK
<1> USE DEF Letting, Goto
<1>1. CASE CountBusy(t)
  BY <1>1, <1>a DEF CountBusy
<1>2. CASE CountIdle(t)
  BY <1>2, <1>a DEF CountIdle
<1>3. CASE AddForTask(t)
  BY <1>3, <1>a DEF AddForTask, AddWorker
<1>4. CASE Take(t)
  BY <1>4, <1>a DEF Take
<1>5. CASE Claim(t)
  BY <1>5, <1>a DEF Claim
<1>6. CASE SendDeclined(t)
  BY <1>6, <1>a DEF SendDeclined
<1>7. CASE SendUnpicklable(t)
  BY <1>7, <1>a DEF SendUnpicklable
<1>8. CASE SendRaises(t)
  BY <1>8, <1>a DEF SendRaises
<1>9. CASE SendBroken(t)
  BY <1>9, <1>a DEF SendBroken
<1>10. CASE SendJobTo(t)
  BY <1>10, <1>a DEF SendJobTo
<1>11. CASE Publish(t)
  BY <1>11, <1>a DEF Publish
<1>12. CASE ReadReply(t)
  BY <1>12, <1>a DEF ReadReply
<1>13. CASE ReadEof(t)
  BY <1>13, <1>a DEF ReadEof, WorkerDied
<1>14. CASE PollEmpty(t)
  BY <1>14, <1>a DEF PollEmpty
<1>15. CASE CheckAlive(t)
  BY <1>15, <1>a DEF CheckAlive
<1>16. CASE CheckDead(t)
  BY <1>16, <1>a DEF CheckDead, WorkerDied
<1>17. CASE Release(t)
  BY <1>17, <1>a DEF Release
<1>18. CASE ReleaseIdle(t)
  BY <1>18, <1>a DEF ReleaseIdle
<1>19. CASE Retire(t)
  BY <1>19, <1>a DEF Retire, Released
<1>20. CASE Keep(t)
  BY <1>20, <1>a DEF Keep
<1>21. CASE ReplaceDead(t)
  BY <1>21, <1>a DEF ReplaceDead, Released, AddWorker
<1>22. CASE ReplaceWornOut(t)
  BY <1>22, <1>a DEF ReplaceWornOut, ReplaceLive, Released, AddWorker
<1>23. CASE Weigh(t)
  BY <1>23, <1>a DEF Weigh
<1>24. CASE WeighFails(t)
  BY <1>24, <1>a DEF WeighFails
<1>25. CASE ReplaceHeavy(t)
  BY <1>25, <1>a DEF ReplaceHeavy, ReplaceLive, Released, AddWorker
<1>26. CASE PutBack(t)
  BY <1>26, <1>a DEF PutBack, Released
<1>27. CASE KillBroken(t)
  BY <1>27, <1>a DEF KillBroken
<1>28. CASE TaskDone(t)
  BY <1>28, <1>a DEF TaskDone
<1>29. CASE FreeSlot(t)
  BY <1>29, <1>a DEF FreeSlot
<1>30. CASE NoResult(t)
  BY <1>30, <1>a DEF NoResult
<1>31. CASE ForceResult(t)
  BY <1>31, <1>a DEF ForceResult
<1>32. QED
  BY <1>1, <1>2, <1>3, <1>4, <1>5, <1>6, <1>7, <1>8, <1>9, <1>10, <1>11, <1>12, <1>13,
       <1>14, <1>15, <1>16, <1>17, <1>18, <1>19, <1>20, <1>21, <1>22, <1>23, <1>24, <1>25,
       <1>26, <1>27, <1>28, <1>29, <1>30, <1>31 DEF ThreadStep

LEMMA OkFalls ==
  ASSUME TypeInv, [Next]_vars
  PROVE  \A w \in Workers : ok'[w] => ok[w]
<1>1. ok \in [Workers -> BOOLEAN]
  BY DEF TypeInv, PoolTypeOK
<1>2. ASSUME NEW t \in Tasks, SendBroken(t) \/ ReadReply(t) PROVE \A w \in Workers : ok'[w] => ok[w]
  BY <1>1, <1>2 DEF SendBroken, ReadReply
<1>3. QED
  BY <1>2, OkFrame

\* Other threads keep their place and their worker.
LEMMA OthersKeep ==
  ASSUME TypeInv, [Next]_vars
  PROVE  \/ UNCHANGED <<pc, held>>
         \/ \E t \in Tasks : \A u \in Tasks \ {t} : pc'[u] = pc[u] /\ held'[u] = held[u]
<1>1. held \in [Tasks -> Workers \cup {0}]
  BY DEF TypeInv, ThreadInv, ThreadTypeOK
<1>2. ASSUME NEW t \in Tasks, Alone(t), Take(t) \/ PutBack(t) \/ Keeps(t) \/ Drops(t)
      PROVE  \A u \in Tasks \ {t} : pc'[u] = pc[u] /\ held'[u] = held[u]
  BY <1>1, <1>2 DEF Alone, Take, PutBack, Released, Keeps, Drops
<1>3. QED
  BY <1>2, OwnerFrame

\* The worker of a thread that stays where it is, or moves on with it, is left
\* alone by every step but the thread's own SendJobTo.
LEMMA HeldCalm ==
  ASSUME TypeInv, OwnerInv, TimerOK, FreshOK, [Next]_vars, NEW t \in Tasks,
         pc[t] \in HasWorker, ~SendJobTo(t), NEW w, w = held[t]
  PROVE  w \in Workers /\ w <= created /\ Calm(w)
<1>1. w \in Workers /\ w <= created
  BY DEF TypeInv, ThreadInv, HeldOK, OwnerInv, OwnedOK
<1>2. ASSUME NEW u \in Tasks, SendJobTo(u) PROVE held[u] # w
  <2>1. pc[u] \in HasWorker /\ u # t
    BY <1>2 DEF SendJobTo, HasWorker, Holding
  <2>2. QED
    BY <1>1, <2>1 DEF OwnerInv, Sole, Has
<1>3. QED
  BY <1>1, <1>2, StepCalm DEF OwnerInv

\* A thread that does not move keeps its claim on its worker.
LEMMA StillServed ==
  ASSUME TypeInv, OwnerInv, TimerOK, FreshOK, [Next]_vars, NEW t \in Tasks, PipeFor(t),
         ~SendJobTo(t), held'[t] = held[t],
         \/ pc'[t] = pc[t]
         \/ pc[t] \in {"claim", "send"} /\ pc'[t] \in Letting \cup {"claim", "send"}
         \/ pc[t] \in {"publish", "await", "check"} /\ pc'[t] \in {"publish", "await", "check"}
         \/ pc[t] \in Letting /\ pc'[t] \in Letting
  PROVE  PipeFor(t)'
<1>1. CASE pc[t] \notin HasWorker
  BY <1>1 DEF PipeFor, HasWorker, Holding, Letting
<1>2. CASE pc[t] \in HasWorker
  <2>a. PICK w : w = held[t]
    OBVIOUS
  <2>1. w \in Workers /\ w <= created /\ Calm(w)
    BY <1>2, <2>a, HeldCalm
  <2>2. /\ Clean(held[t]) => Clean(held[t])'
        /\ Serves(held[t], t) => Serves(held[t], t)'
        /\ ~IsAlive(held[t]) => ~IsAlive(held[t])'
    BY <2>a, <2>1 DEF Calm, Kept, Mute, Clean, NoJob, NoOutcome, Serves, Asked, Runs, Answered, IsAlive
  <2>3. ok'[held'[t]] => ok[held[t]]
    BY <2>a, <2>1, OkFalls
  <2>4. QED
    BY <2>2, <2>3 DEF PipeFor, Letting
<1>3. QED
  BY <1>1, <1>2

\* Taking a worker, sending it a job, hearing of it and looking at its memory.
LEMMA PipeMoves ==
  ASSUME TypeInv, OwnerInv, PipeInv, [Next]_vars, NEW t \in Tasks,
         Take(t) \/ SendJobTo(t) \/ ReadReply(t) \/ ReadEof(t) \/ CheckDead(t) \/ Weigh(t)
  PROVE  PipeFor(t)'
<1>a. TimerOK /\ FreshOK /\ BrokenOK /\ IdleOK /\ PipeFor(t)
  BY DEF PipeInv, PipeOK
<1>b. /\ pc \in [Tasks -> ThreadPc] /\ held \in [Tasks -> Workers \cup {0}]
      /\ ok \in [Workers -> BOOLEAN] /\ workers \in Seq(Workers) /\ HeldOK
      /\ inbox \in [Workers -> Seq(Tasks \cup {Quit})]
  BY DEF TypeInv, PoolTypeOK, ThreadInv, ThreadTypeOK, WorkerInv, WorkerTypeOK
<1>c. OwnedOK /\ Sole
  BY DEF OwnerInv
<1>1. CASE Take(t)
  <2>1. /\ workers # <<>> /\ pc'[t] = "claim" /\ held'[t] = Head(workers)
        /\ UNCHANGED <<proc, inbox, outbox>>
    BY <1>b, <1>1 DEF Take, Goto, workerVars
  <2>2. 1 \in 1 .. Len(workers) /\ Head(workers) = workers[1]
    BY <1>b, <2>1
  <2>3. Clean(held'[t])
    BY <1>a, <2>1, <2>2 DEF IdleOK
  <2>4. QED
    BY <2>1, <2>3 DEF PipeFor, Letting, Clean, NoJob, NoOutcome
<1>2. CASE SendJobTo(t)
  <2> DEFINE w == held[t]
  <2>1. /\ w \in Workers /\ inbox'[w] = Append(inbox[w], t) /\ pc'[t] = "publish"
        /\ UNCHANGED <<proc, outbox, held>> /\ Clean(w)
    BY <1>a, <1>b, <1>2 DEF SendJobTo, SendJob, Goto, HeldOK, HasWorker, Holding, PipeFor
  <2>2. One(inbox'[w], Tasks, {t})
    <3>1. None(inbox[w], Tasks) /\ inbox[w] \in Seq(Tasks \cup {Quit}) /\ t \in Tasks \cup {Quit}
      BY <1>b, <2>1 DEF Clean, NoJob
    <3>2. One(Append(inbox[w], t), Tasks, {t})
      BY <3>1, OneBegins
    <3>3. QED
      BY <2>1, <3>2
  <2>3. QED
    BY <2>1, <2>2 DEF PipeFor, Letting, Serves, Asked, Clean, NoOutcome
<1>3. CASE ReadReply(t)
  <2> DEFINE w == held[t]
             m == Head(outbox[w])
  <2>1. /\ w \in Workers /\ outbox[w] # <<>> /\ pc'[t] = "release" /\ outbox[w] \in Seq(Message)
        /\ UNCHANGED <<proc, inbox, held>> /\ Serves(w, t) /\ outbox'[w] = Tail(outbox[w])
        /\ m.kind = "timeout" => ~ok'[w]
    BY <1>a, <1>b, <1>3, PipeType
       DEF ReadReply, Goto, HeldOK, HasWorker, Holding, PipeFor, TypeInv, WorkerInv, WorkerTypeOK
  <2>2. CASE m.kind = "timeout"
    BY <2>1, <2>2 DEF PipeFor, Letting
  <2>3. CASE m.kind # "timeout"
    <3>1. m \in Outcomes
      BY <2>1, <2>3 DEF Outcomes
    <3>2. ~NoOutcome(w)
      BY <2>1, <3>1, NoneStays DEF NoOutcome
    <3>3. Answered(w, t)
      BY <2>1, <3>2 DEF Serves, Clean, Asked, Runs
    <3>4. Of(t) \in SUBSET Outcomes
      BY DEF Of
    <3>5. None(Tail(outbox[w]), Outcomes)
      BY <2>1, <3>1, <3>3, <3>4, OneStays DEF Answered
    <3>6. Clean(held[t])'
      BY <2>1, <3>3, <3>5 DEF Answered, Clean, NoJob, NoOutcome
    <3>7. QED
      BY <2>1, <3>6 DEF PipeFor, Letting
  <2>4. QED
    BY <2>2, <2>3
<1>4. CASE ReadEof(t)
  <2>1. /\ held[t] \in Workers /\ outbox[held[t]] = <<>> /\ PipeBroken(held[t])
        /\ pc'[t] = "release" /\ UNCHANGED <<held, proc, inbox, outbox>>
    BY <1>b, <1>4 DEF ReadEof, WorkerDied, Goto, HeldOK, HasWorker, Holding, workerVars
  <2>2. Clean(held[t])
    BY <1>a, <2>1, NoneEmpty DEF BrokenOK, PipeBroken, Clean, NoOutcome
  <2>3. QED
    BY <2>1, <2>2 DEF PipeFor, Letting, Clean, NoJob, NoOutcome
<1>5. CASE CheckDead(t)
  <2>1. pc'[t] = "release" /\ UNCHANGED <<held, proc>> /\ ~IsAlive(held[t])
    BY <1>b, <1>5 DEF CheckDead, WorkerDied, Goto, workerVars
  <2>2. QED
    BY <2>1 DEF PipeFor, Letting, IsAlive
<1>6. CASE Weigh(t)
  <2>1. /\ pc'[t] = "weigh" /\ UNCHANGED <<held, proc, inbox, outbox>> /\ Clean(held[t])
    BY <1>a, <1>b, <1>6 DEF Weigh, Goto, workerVars, PipeFor, Letting
  <2>2. QED
    BY <2>1 DEF PipeFor, Letting, Clean, NoJob, NoOutcome
<1>7. QED
  BY <1>1, <1>2, <1>3, <1>4, <1>5, <1>6

\* Submissions, the runner and drains move a task that no thread runs yet.
LEMMA OthersMove ==
  ASSUME TypeInv, [Next]_vars, NEW t \in Tasks, ~ThreadStep(t)
  PROVE  \/ pc'[t] = pc[t] /\ held'[t] = held[t]
         \/ /\ pc[t] \in Submitting \cup {"queued"}
            /\ pc'[t] \in Idle \cup {"count_busy"}
            /\ pc[t] = "queued" /\ Done(t) => pc'[t] = "end"
<1>a. pc \in [Tasks -> ThreadPc] /\ held \in [Tasks -> Workers \cup {0}] /\ QueuedOK
  BY DEF TypeInv, ThreadInv, ThreadTypeOK
<1> DEFINE Moves == /\ pc[t] \in Submitting \cup {"queued"}
                    /\ pc'[t] \in Idle \cup {"count_busy"}
                    /\ pc[t] = "queued" /\ Done(t) => pc'[t] = "end"
<1>1. ASSUME NEW u \in Tasks, u # t, ThreadStep(u) PROVE pc'[t] = pc[t] /\ held'[t] = held[t]
  <2>1. PICK l : pc' = [pc EXCEPT ![u] = l]
    BY <1>1, ThreadMoves
  <2>2. held'[t] = held[t]
    BY <1>a, <1>1, ThreadOwns DEF Take, PutBack, Released, Keeps, Drops
  <2>3. QED
    BY <1>a, <1>1, <2>1, <2>2
<1>2. ASSUME NEW u \in Tasks, SubmitStep(u) PROVE (pc'[t] = pc[t] /\ held'[t] = held[t]) \/ Moves
  BY <1>a, <1>2 DEF SubmitStep, Submit, SubmitRejected, Put, Goto, Idle, Submitting
<1>3. ASSUME NEW u \in Tasks, RunnerLaunch(u) \/ RunnerSkip(u) \/ CancelFirst(u)
      PROVE  (pc'[t] = pc[t] /\ held'[t] = held[t]) \/ Moves
  <2>1. pc[u] = "queued"
    BY <1>a, <1>3 DEF RunnerLaunch, RunnerSkip, CancelFirst, IsFirst, QueuedOK
  <2>2. QED
    BY <1>a, <1>3, <2>1 DEF RunnerLaunch, RunnerSkip, CancelFirst, Goto, Idle
<1> HIDE DEF Moves
<1>4. UNCHANGED <<pc, held>> \/ (\E u \in Tasks : ThreadStep(u)) \/ (\E u \in Tasks :
        SubmitStep(u) \/ RunnerLaunch(u) \/ RunnerSkip(u) \/ CancelFirst(u))
  BY DEF Next, vars, threadVars, RunnerStep, RunnerAcquire, RunnerStop, RunnerStopped,
     RunnerCancel, ShutdownCancel, ShutdownStep, ShutdownKill, CancelAndKill, ShutdownBusy,
     ShutdownCancelled, PutSentinel, SentinelFull, SnapshotRunning, ShutdownKilled, ShutdownJoin,
     ShutdownIdle, JoinWorker, SnapshotBusy, ShutdownReturns, CallerCancels, CallerKills,
     ProcessStep, ShutdownBegin, ClearWorkers, ClearTests, ClearTakes, AllDone
<1>5. QED
  BY <1>1, <1>2, <1>3, <1>4 DEF Moves

LEMMA PipeOKStep ==
  ASSUME TypeInv, OwnerInv, PipeInv, [Next]_vars
  PROVE  PipeOK'
<1> SUFFICES ASSUME NEW t \in Tasks PROVE PipeFor(t)'
  BY DEF PipeOK
<1>a. TimerOK /\ FreshOK /\ PipeFor(t)
  BY DEF PipeInv, PipeOK
<1>b. pc'[t] \notin Letting \cup {"claim", "send", "publish", "await", "check", "weigh"} => PipeFor(t)'
  BY DEF PipeFor
<1>1. CASE ThreadStep(t)
  BY <1>a, <1>b, <1>1, ThreadPipes, PipeMoves, StillServed
<1>2. CASE ~ThreadStep(t)
  <2>1. ~SendJobTo(t)
    BY <1>2 DEF ThreadStep
  <2>2. pc'[t] \in Idle \cup {"count_busy"} => PipeFor(t)'
    BY <1>b DEF Idle, Submitting, Letting
  <2>3. QED
    BY <1>a, <1>2, <2>1, <2>2, OthersMove, StillServed
<1>3. QED
  BY <1>1, <1>2

\* A worker that no run_task thread holds is sent nothing.
LEMMA UnheldCalm ==
  ASSUME TypeInv, OwnerInv, PipeInv, [Next]_vars, NEW w \in Workers,
         w > created \/ \E i \in 1 .. Len(workers) : workers[i] = w
  PROVE  Calm(w)
<1>1. ASSUME NEW t \in Tasks, SendJobTo(t) PROVE held[t] # w
  <2>1. pc[t] \in HasWorker /\ held[t] <= created /\ Has(t, held[t])
    BY <1>1 DEF SendJobTo, HasWorker, Holding, OwnerInv, OwnedOK, Has
  <2>2. created \in Nat /\ w \in Nat
    BY DEF TypeInv, PoolTypeOK, Workers
  <2>3. QED
    BY <2>1, <2>2 DEF OwnerInv, Sole, Has
<1>2. QED
  BY <1>1, StepCalm DEF OwnerInv, PipeInv

LEMMA FreshStep ==
  ASSUME TypeInv, OwnerInv, PipeInv, [Next]_vars
  PROVE  FreshOK'
<1> SUFFICES ASSUME NEW w \in Workers, w > created' PROVE Clean(w)'
  BY DEF FreshOK
<1>1. created \in Nat /\ w \in Nat
  BY DEF TypeInv, PoolTypeOK, Workers
<1>2. created' = created \/ created' = created + 1
  BY OwnerFrame DEF Take, PutBack, SameIdle, Grows
<1>3. w > created
  BY <1>1, <1>2
<1>4. Calm(w) /\ Clean(w)
  BY <1>3, UnheldCalm DEF PipeInv, FreshOK
<1>5. QED
  BY <1>4 DEF Calm, Kept

LEMMA IdleStep ==
  ASSUME TypeInv, OwnerInv, PipeInv, [Next]_vars
  PROVE  IdleOK'
<1> SUFFICES ASSUME NEW i \in 1 .. Len(workers') PROVE Clean(workers[i])'
  BY DEF IdleOK, Clean, NoJob, NoOutcome
<1>a. workers \in Seq(Workers) /\ created \in Nat /\ Len(workers) \in Nat
  BY DEF TypeInv, PoolTypeOK
<1>b. ASSUME NEW j \in 1 .. Len(workers), workers'[i] = workers[j] PROVE Clean(workers[i])'
  <2>a. PICK w : w = workers[j]
    OBVIOUS
  <2>1. w \in Workers /\ Calm(w) /\ Clean(w)
    BY <1>a, <2>a, UnheldCalm DEF PipeInv, IdleOK
  <2>2. Clean(w)'
    BY <2>1 DEF Calm, Kept
  <2>3. QED
    BY <1>b, <2>a, <2>2 DEF Clean, NoJob, NoOutcome
<1>1. CASE UNCHANGED workers
  BY <1>1, <1>b
<1>2. CASE workers # <<>> /\ workers' = Tail(workers)
  <2>1. Len(workers') = Len(workers) - 1 /\ workers'[i] = workers[i + 1]
    BY <1>a, <1>2, HeadTailProperties
  <2>2. i + 1 \in 1 .. Len(workers)
    BY <1>a, <2>1
  <2>3. QED
    BY <2>1, <2>2, <1>b
<1>3. CASE Grows
  <2>1. /\ Len(workers') = Len(workers) + 1
        /\ i \in 1 .. Len(workers) => workers'[i] = workers[i]
        /\ workers'[Len(workers) + 1] = created + 1
    BY <1>a, <1>3 DEF Grows, Workers
  <2>2. CASE i \in 1 .. Len(workers)
    BY <2>1, <2>2, <1>b
  <2>3. CASE i = Len(workers) + 1
    <3>a. PICK w : w = created + 1
      OBVIOUS
    <3>1. w \in Workers /\ w > created
      BY <1>a, <1>3, <3>a DEF Grows, Workers
    <3>2. Calm(w) /\ Clean(w)
      BY <3>1, UnheldCalm DEF PipeInv, FreshOK
    <3>3. Clean(w)'
      BY <3>2 DEF Calm, Kept
    <3>4. QED
      BY <2>1, <2>3, <3>a, <3>3 DEF Clean, NoJob, NoOutcome
  <2>4. QED
    BY <1>a, <2>1, <2>2, <2>3
<1>4. ASSUME NEW t \in Tasks, PutBack(t) PROVE Clean(workers[i])'
  <2> DEFINE w == held[t]
  <2>1. /\ w \in Workers /\ IsAlive(w) /\ ok[w] /\ pc[t] \in {"recycle", "weigh"}
        /\ workers' = Append(workers, w) /\ UNCHANGED <<proc, inbox, outbox>>
    BY <1>4, PutBackDrops DEF PutBack, TypeInv, ThreadInv, HeldOK, workerVars
  <2>2. Clean(w)
    BY <2>1 DEF PipeInv, PipeOK, PipeFor, Letting
  <2>3. /\ Len(workers') = Len(workers) + 1
        /\ i \in 1 .. Len(workers) => workers'[i] = workers[i]
        /\ workers'[Len(workers) + 1] = w
    BY <1>a, <2>1
  <2>4. CASE i \in 1 .. Len(workers)
    BY <2>3, <2>4, <1>b
  <2>5. CASE i = Len(workers) + 1
    BY <2>1, <2>2, <2>3, <2>5 DEF Clean, NoJob, NoOutcome
  <2>6. QED
    BY <1>a, <2>3, <2>4, <2>5
<1>5. QED
  BY <1>1, <1>2, <1>3, <1>4, OwnerFrame DEF SameIdle, Take

LEMMA BrokenStep ==
  ASSUME TypeInv, OwnerInv, PipeInv, [Next]_vars
  PROVE  BrokenOK'
<1> SUFFICES ASSUME NEW w \in Workers, PipeBroken(w)' PROVE NoJob(w)'
  BY DEF BrokenOK
<1>1. ASSUME NEW t \in Tasks, SendJobTo(t) PROVE held[t] # w
  BY <1>1 DEF SendJobTo, PipeBroken
<1>2. Calm(w)
  BY <1>1, StepCalm DEF OwnerInv, PipeInv
<1>3. CASE inbox'[w] = <<>>
  BY <1>3, NoneEmpty DEF NoJob
<1>4. CASE inbox'[w] # <<>>
  <2>1. PipeBroken(w) /\ NoJob(w) /\ proc[w] # "running" /\ proc'[w] # "running"
    BY <1>2, <1>4 DEF Calm, Breaks, PipeInv, BrokenOK, PipeBroken
  <2>2. inbox[w] \in Seq(Tasks \cup {Quit}) /\ Quit \in Tasks \cup {Quit} /\ Quit \notin Tasks
    BY PipeType DEF Quit
  <2>3. None(Append(inbox[w], Quit), Tasks)
    BY <2>1, <2>2, NoneStays DEF NoJob
  <2>4. ~Recv(w)
    BY <2>1, <2>2, NoneStays DEF NoJob, Recv
  <2>5. QED
    BY <1>2, <1>4, <2>1, <2>3, <2>4 DEF Calm, Reads, NoJob
<1>5. QED
  BY <1>3, <1>4

LEMMA PipeStep == TypeInv /\ OwnerInv /\ PipeInv /\ [Next]_vars => PipeInv'
  BY PipeOKStep, FreshStep, IdleStep, BrokenStep, TimerKept DEF PipeInv

\* A reply that run_task reads, and that is no timeout, is its own task's.
LEMMA ReplyIsOwn ==
  ASSUME TypeInv, PipeInv, NEW t \in Tasks, ReadReply(t),
         Head(outbox[held[t]]).kind # "timeout"
  PROVE  Head(outbox[held[t]]).of = t
<1> DEFINE s == outbox[held[t]]
<1>1. held[t] \in Workers /\ s \in Seq(Message) /\ s # <<>> /\ Serves(held[t], t)
  BY PipeType DEF ReadReply, PipeInv, PipeOK, PipeFor, TypeInv, ThreadInv, HeldOK, HasWorker, Holding
<1>2. Head(s) \in Outcomes /\ Of(t) \in SUBSET Outcomes
  BY <1>1 DEF Outcomes, Of
<1>3. ~NoOutcome(held[t])
  BY <1>1, <1>2, NoneStays DEF NoOutcome
<1>4. One(s, Outcomes, Of(t))
  BY <1>1, <1>3 DEF Serves, Clean, Asked, Runs, Answered
<1> HIDE DEF s
<1>5. Head(s) \in Of(t)
  BY <1>1, <1>2, <1>4, OneStays
<1>6. QED
  BY <1>5 DEF Of, s

LEMMA OwnResultStep ==
  ASSUME TypeInv, PipeInv, OwnResult, [Next]_vars
  PROVE  OwnResult'
<1>a. fut \in [Tasks -> Outcome]
  BY DEF TypeInv, FutureTypeOK
<1>b. ASSUME NEW t \in Tasks, NEW state, NEW of, Settle(t, state, of),
             state \in {"result", "error"} => of = t
      PROVE  OwnResult'
  BY <1>a, <1>b DEF OwnResult, Settle
<1>1. ASSUME NEW t \in Tasks, ReadReply(t) PROVE OwnResult'
  <2>1. Settle(t, Head(outbox[held[t]]).kind, Head(outbox[held[t]]).of)
    BY <1>1 DEF ReadReply
  <2>2. QED
    BY <1>b, <1>1, <2>1, ReplyIsOwn
<1>2. ASSUME NEW t \in Tasks, Cancel(t) PROVE OwnResult'
  BY <1>b, <1>2 DEF Cancel
<1>3. ASSUME NEW t \in Tasks, KillBroken(t) PROVE OwnResult'
  BY <1>b, <1>3 DEF KillBroken, OwnResult
<1>4. ASSUME NEW t \in Tasks, SendUnpicklable(t) \/ ReadEof(t) \/ CheckDead(t) \/ ForceResult(t)
      PROVE  OwnResult'
  BY <1>b, <1>4 DEF SendUnpicklable, ReadEof, CheckDead, WorkerDied, ForceResult
<1>5. QED
  BY <1>1, <1>2, <1>3, <1>4, FutureFrame
     DEF OwnResult, futureVars, Publish, CallerCancels, CallerKills, CancelAndKill, RunnerCancel,
         CancelFirst, ShutdownCancel, ShutdownKill

OutcomeInv == SafetyInv /\ PipeInv /\ OwnResult

LEMMA OutcomeInit == Init => OutcomeInv
<1> SUFFICES ASSUME Init PROVE OutcomeInv
  OBVIOUS
<1>1. /\ \A w \in Workers : inbox[w] = <<>> /\ outbox[w] = <<>> /\ proc[w] \in {"waiting", "none"}
      /\ \A t \in Tasks : timer[t] = "off" /\ pc[t] = "new" /\ fut[t].state = "pending"
  BY DEF Init, WorkerInit, Pending
<1>2. \A w \in Workers : Clean(w)
  BY <1>1, NoneEmpty DEF Clean, NoJob, NoOutcome
<1>3. SafetyInv /\ workers \in Seq(Workers)
  BY SafetyInit DEF SafetyInv, TypeInv, PoolTypeOK
<1>4. IdleOK
  BY <1>2, <1>3 DEF IdleOK
<1>5. TimerOK /\ BrokenOK /\ FreshOK
  BY <1>1, <1>2 DEF TimerOK, BrokenOK, FreshOK, PipeBroken, Clean
<1>6. PipeOK
  BY <1>1 DEF PipeOK, PipeFor, Letting
<1>7. OwnResult
  BY <1>1 DEF OwnResult
<1>8. QED
  BY <1>3, <1>4, <1>5, <1>6, <1>7 DEF OutcomeInv, PipeInv

LEMMA OutcomeStep == OutcomeInv /\ [Next]_vars => OutcomeInv'
  BY SafetyStep, PipeStep, OwnResultStep DEF OutcomeInv, SafetyInv

\* A result or an exception on a future was produced by its own task: after
\* cancellations, timeouts, deaths and recycling, the reply that run_task reads
\* from a worker's pipe is never the late answer of an earlier task.
THEOREM OutcomesAreOwn == Spec => []OwnResult
<1>1. OutcomeInv => OwnResult
  BY DEF OutcomeInv
<1>2. QED
  BY <1>1, OutcomeInit, OutcomeStep, PTL DEF Spec

-----------------------------------------------------------------------------
(* A task starts once, and not at all when it was cancelled in time.       *)

\* Where run_task has not written the job to a pipe, or will write it again.
Unsent  == Submitting \cup {"queued", "rejected", "add", "claim", "send", "kill"} \cup Getting
Sent(t) == host[t] # 0 \/ \E w \in Workers : ~None(inbox[w], {t})

SentOK(t) ==
  /\ Sent(t) => pc[t] \notin Unsent /\ (pc[t] \in Letting \cup {"weigh"} => pid[t] # 0)
  /\ pc[t] \in {"await", "check"} => pid[t] # 0
  /\ \A w \in Workers : None(inbox[w], {t}) \/ (host[t] = 0 /\ One(inbox[w], {t}, {t}))
  /\ \A v, w \in Workers : v # w => None(inbox[v], {t}) \/ None(inbox[w], {t})
SentInv == \A t \in Tasks : SentOK(t)

\* Once its job is written, run_task never comes back to the point where it
\* writes it, because done_with_process tells a broken pipe by the missing pid.
LEMMA ThreadSends ==
  ASSUME TypeInv, NEW t \in Tasks, ThreadStep(t), pc[t] \notin Unsent
  PROVE  /\ pc'[t] \notin Unsent \/ (pc[t] \in Letting \cup {"weigh"} /\ pid[t] = 0)
         /\ \/ pc'[t] \notin Letting \cup {"weigh"}
            \/ pid' = pid /\ pc[t] \in Letting \cup {"weigh", "await", "check"}
<1>a. pc \in [Tasks -> ThreadPc]
  BY DEF TypeInv, ThreadInv, ThreadTypeOK
<1> USE DEF Unsent, Submitting, Getting, Letting, Goto
<1>1. CASE CountBusy(t)
  BY <1>1, <1>a DEF CountBusy, futureVars
<1>2. CASE CountIdle(t)
  BY <1>2, <1>a DEF CountIdle, futureVars
<1>3. CASE AddForTask(t)
  BY <1>3, <1>a DEF AddForTask, AddWorker, futureVars
<1>4. CASE Take(t)
  BY <1>4, <1>a DEF Take, futureVars
<1>5. CASE Claim(t)
  BY <1>5, <1>a DEF Claim, futureVars
<1>6. CASE SendDeclined(t)
  BY <1>6, <1>a DEF SendDeclined, futureVars
<1>7. CASE SendUnpicklable(t)
  BY <1>7, <1>a DEF SendUnpicklable, futureVars
<1>8. CASE SendRaises(t)
  BY <1>8, <1>a DEF SendRaises, futureVars
<1>9. CASE SendBroken(t)
  BY <1>9, <1>a DEF SendBroken, futureVars
<1>10. CASE SendJobTo(t)
  BY <1>10, <1>a DEF SendJobTo, futureVars
<1>11. CASE Publish(t)
  BY <1>11, <1>a DEF Publish, futureVars
<1>12. CASE ReadReply(t)
  BY <1>12, <1>a DEF ReadReply, futureVars
<1>13. CASE ReadEof(t)
  BY <1>13, <1>a DEF ReadEof, WorkerDied, futureVars
<1>14. CASE PollEmpty(t)
  BY <1>14, <1>a DEF PollEmpty, futureVars
<1>15. CASE CheckAlive(t)
  BY <1>15, <1>a DEF CheckAlive, futureVars
<1>16. CASE CheckDead(t)
  BY <1>16, <1>a DEF CheckDead, WorkerDied, futureVars
<1>17. CASE Release(t)
  BY <1>17, <1>a DEF Release, futureVars
<1>18. CASE ReleaseIdle(t)
  BY <1>18, <1>a DEF ReleaseIdle, futureVars
<1>19. CASE Retire(t)
  BY <1>19, <1>a DEF Retire, Released, futureVars
<1>20. CASE Keep(t)
  BY <1>20, <1>a DEF Keep, futureVars
<1>21. CASE ReplaceDead(t)
  BY <1>21, <1>a DEF ReplaceDead, Released, AddWorker, futureVars
<1>22. CASE ReplaceWornOut(t)
  BY <1>22, <1>a DEF ReplaceWornOut, ReplaceLive, Released, AddWorker, futureVars
<1>23. CASE Weigh(t)
  BY <1>23, <1>a DEF Weigh, futureVars
<1>24. CASE WeighFails(t)
  BY <1>24, <1>a DEF WeighFails, futureVars
<1>25. CASE ReplaceHeavy(t)
  BY <1>25, <1>a DEF ReplaceHeavy, ReplaceLive, Released, AddWorker, futureVars
<1>26. CASE PutBack(t)
  BY <1>26, <1>a DEF PutBack, Released, futureVars
<1>27. CASE KillBroken(t)
  BY <1>27, <1>a DEF KillBroken, futureVars
<1>28. CASE TaskDone(t)
  BY <1>28, <1>a DEF TaskDone, futureVars
<1>29. CASE FreeSlot(t)
  BY <1>29, <1>a DEF FreeSlot, futureVars
<1>30. CASE NoResult(t)
  BY <1>30, <1>a DEF NoResult, futureVars
<1>31. CASE ForceResult(t)
  BY <1>31, <1>a DEF ForceResult, futureVars
<1>32. QED
  BY <1>1, <1>2, <1>3, <1>4, <1>5, <1>6, <1>7, <1>8, <1>9, <1>10, <1>11, <1>12, <1>13,
       <1>14, <1>15, <1>16, <1>17, <1>18, <1>19, <1>20, <1>21, <1>22, <1>23, <1>24, <1>25,
       <1>26, <1>27, <1>28, <1>29, <1>30, <1>31 DEF ThreadStep

\* A job in an inbox stays single, or leaves; no job appears by itself.
LEMMA InboxKeeps ==
  ASSUME TypeInv, NEW w \in Workers, Calm(w), NEW t \in Tasks
  PROVE  /\ None(inbox[w], {t}) => None(inbox'[w], {t})
         /\ One(inbox[w], {t}, {t}) => None(inbox'[w], {t}) \/ One(inbox'[w], {t}, {t})
         /\ Recv(w) /\ Head(inbox[w]) = t => ~None(inbox[w], {t})
         /\ Recv(w) /\ Head(inbox[w]) = t /\ One(inbox[w], {t}, {t}) => None(inbox'[w], {t})
<1>1. /\ inbox[w] \in Seq(Tasks \cup {Quit}) /\ Quit \in Tasks \cup {Quit} /\ Quit \notin {t}
      /\ {t} \in SUBSET {t}
  BY PipeType DEF Quit
<1>2. /\ None(inbox[w], {t}) => None(Append(inbox[w], Quit), {t})
      /\ One(inbox[w], {t}, {t}) => One(Append(inbox[w], Quit), {t}, {t})
  BY <1>1, NoneStays, OneStays
<1>3. ASSUME Recv(w)
      PROVE  /\ inbox[w] # <<>> /\ inbox'[w] = Tail(inbox[w])
             /\ None(inbox[w], {t}) => Head(inbox[w]) \notin {t} /\ None(inbox'[w], {t})
             /\ One(inbox[w], {t}, {t}) => None(inbox'[w], {t}) \/ One(inbox'[w], {t}, {t})
             /\ One(inbox[w], {t}, {t}) /\ Head(inbox[w]) = t => None(inbox'[w], {t})
  <2>1. inbox[w] # <<>> /\ inbox'[w] = Tail(inbox[w])
    BY <1>3 DEF Recv, TypeInv, WorkerInv, WorkerTypeOK
  <2>2. None(inbox[w], {t}) => Head(inbox[w]) \notin {t} /\ None(Tail(inbox[w]), {t})
    BY <1>1, <2>1, NoneStays
  <2>3. One(inbox[w], {t}, {t}) =>
          /\ Head(inbox[w]) \in {t} => None(Tail(inbox[w]), {t})
          /\ Head(inbox[w]) \notin {t} => One(Tail(inbox[w]), {t}, {t})
    BY <1>1, OneStays
  <2>4. QED
    BY <2>1, <2>2, <2>3
<1>4. None(<<>>, {t})
  BY NoneEmpty
<1>5. QED
  BY <1>2, <1>3, <1>4 DEF Calm, Reads

\* Writing another task's job to an inbox, and t's own to one that is free of it.
LEMMA InboxGrows ==
  ASSUME TypeInv, NEW u \in Tasks, SendJobTo(u), NEW w \in Workers, held[u] = w, NEW t \in Tasks
  PROVE  /\ u # t /\ None(inbox[w], {t}) => None(inbox'[w], {t})
         /\ u # t /\ One(inbox[w], {t}, {t}) => One(inbox'[w], {t}, {t})
         /\ u = t /\ None(inbox[w], {t}) => One(inbox'[w], {t}, {t})
<1>1. /\ inbox[w] \in Seq(Tasks \cup {Quit}) /\ u \in Tasks \cup {Quit}
      /\ {t} \in SUBSET {t} /\ inbox'[w] = Append(inbox[w], u)
  BY PipeType DEF SendJobTo, SendJob, TypeInv, WorkerInv, WorkerTypeOK
<1>2. ASSUME u # t
      PROVE  /\ None(inbox[w], {t}) => None(Append(inbox[w], u), {t})
             /\ One(inbox[w], {t}, {t}) => One(Append(inbox[w], u), {t}, {t})
  BY <1>1, <1>2, NoneStays, OneStays
<1>3. ASSUME u = t, None(inbox[w], {t}) PROVE One(Append(inbox[w], u), {t}, {t})
  BY <1>1, <1>3, OneBegins
<1>4. QED
  BY <1>1, <1>2, <1>3

\* Only a worker that receives the job becomes its host and takes it in hand.
LEMMA HostMoves ==
  ASSUME TypeInv, [Next]_vars, NEW t \in Tasks
  PROVE  \/ host'[t] = host[t] /\ \A w \in Workers : cur'[w] = cur[w] \/ cur'[w] # t
         \/ \E w \in Workers : Recv(w) /\ Head(inbox[w]) = t
<1>a. /\ host \in [Tasks -> Workers \cup {0}] /\ cur \in [Workers -> Tasks \cup {Quit}]
      /\ Quit # t
  BY DEF TypeInv, WorkerInv, WorkerTypeOK, Quit
<1>b. ASSUME NEW v, NEW state, Terminate(v, state), UNCHANGED host
      PROVE  host'[t] = host[t] /\ \A w \in Workers : cur'[w] = cur[w] \/ cur'[w] # t
  BY <1>a, <1>b DEF Terminate
<1>1. ASSUME NEW v \in Workers, Recv(v), Head(inbox[v]) # t
      PROVE  host'[t] = host[t] /\ \A w \in Workers : cur'[w] = cur[w] \/ cur'[w] # t
  BY <1>a, <1>1 DEF Recv
<1>2. ASSUME NEW v \in Workers, DeactivateTimer(v)
      PROVE  host'[t] = host[t] /\ \A w \in Workers : cur'[w] = cur[w] \/ cur'[w] # t
  BY <1>a, <1>2 DEF DeactivateTimer
<1>3. CASE ProcessStep
  BY <1>b, <1>1, <1>2, <1>3
     DEF ProcessStep, WorkerStep, TimerStep, ExitOnNone, Die, TimerKills, Finish, Reap, TimerFires,
         TimerReports
<1>4. ASSUME NEW u \in Tasks, CallerKills(u) \/ ShutdownKill(u)
      PROVE  host'[t] = host[t] /\ \A w \in Workers : cur'[w] = cur[w] \/ cur'[w] # t
  <2>1. CancelAndKill(u)
    BY <1>4 DEF CallerKills, ShutdownKill
  <2>2. QED
    BY <1>b, <2>1 DEF CancelAndKill, KillTree
<1>5. ASSUME NEW u \in Tasks, KillBroken(u)
      PROVE  host'[t] = host[t] /\ \A w \in Workers : cur'[w] = cur[w] \/ cur'[w] # t
  BY <1>b, <1>5 DEF KillBroken, KillTree
<1>6. QED
  BY <1>3, <1>4, <1>5, WorkerFrame
     DEF workerVars, AddForTask, SendJobTo, ReadReply, Retire, ReplaceDead, ReplaceWornOut,
         ReplaceHeavy, ReplaceLive, ShutdownIdle, ClearTakes, ShutdownBusy

\* run_task waits for a reply after it published the worker's pid.
LEMMA ThreadAwaits ==
  ASSUME TypeInv, NEW t \in Tasks, ThreadStep(t), pc'[t] \in {"await", "check"}
  PROVE  Publish(t) \/ pc[t] \in {"await", "check"}
<1>a. pc \in [Tasks -> ThreadPc]
  BY DEF TypeInv, ThreadInv, ThreadTypeOK
<1> USE DEF Goto
<1>1. CASE CountBusy(t)
  BY <1>1, <1>a DEF CountBusy
<1>2. CASE CountIdle(t)
  BY <1>2, <1>a DEF CountIdle
<1>3. CASE AddForTask(t)
  BY <1>3, <1>a DEF AddForTask, AddWorker
<1>4. CASE Take(t)
  BY <1>4, <1>a DEF Take
<1>5. CASE Claim(t)
  BY <1>5, <1>a DEF Claim
<1>6. CASE SendDeclined(t)
  BY <1>6, <1>a DEF SendDeclined
<1>7. CASE SendUnpicklable(t)
  BY <1>7, <1>a DEF SendUnpicklable
<1>8. CASE SendRaises(t)
  BY <1>8, <1>a DEF SendRaises
<1>9. CASE SendBroken(t)
  BY <1>9, <1>a DEF SendBroken
<1>10. CASE SendJobTo(t)
  BY <1>10, <1>a DEF SendJobTo
<1>11. CASE Publish(t)
  BY <1>11, <1>a DEF Publish
<1>12. CASE ReadReply(t)
  BY <1>12, <1>a DEF ReadReply
<1>13. CASE ReadEof(t)
  BY <1>13, <1>a DEF ReadEof, WorkerDied
<1>14. CASE PollEmpty(t)
  BY <1>14, <1>a DEF PollEmpty
<1>15. CASE CheckAlive(t)
  BY <1>15, <1>a DEF CheckAlive
<1>16. CASE CheckDead(t)
  BY <1>16, <1>a DEF CheckDead, WorkerDied
<1>17. CASE Release(t)
  BY <1>17, <1>a DEF Release
<1>18. CASE ReleaseIdle(t)
  BY <1>18, <1>a DEF ReleaseIdle
<1>19. CASE Retire(t)
  BY <1>19, <1>a DEF Retire, Released
<1>20. CASE Keep(t)
  BY <1>20, <1>a DEF Keep
<1>21. CASE ReplaceDead(t)
  BY <1>21, <1>a DEF ReplaceDead, Released, AddWorker
<1>22. CASE ReplaceWornOut(t)
  BY <1>22, <1>a DEF ReplaceWornOut, ReplaceLive, Released, AddWorker
<1>23. CASE Weigh(t)
  BY <1>23, <1>a DEF Weigh
<1>24. CASE WeighFails(t)
  BY <1>24, <1>a DEF WeighFails
<1>25. CASE ReplaceHeavy(t)
  BY <1>25, <1>a DEF ReplaceHeavy, ReplaceLive, Released, AddWorker
<1>26. CASE PutBack(t)
  BY <1>26, <1>a DEF PutBack, Released
<1>27. CASE KillBroken(t)
  BY <1>27, <1>a DEF KillBroken
<1>28. CASE TaskDone(t)
  BY <1>28, <1>a DEF TaskDone
<1>29. CASE FreeSlot(t)
  BY <1>29, <1>a DEF FreeSlot
<1>30. CASE NoResult(t)
  BY <1>30, <1>a DEF NoResult
<1>31. CASE ForceResult(t)
  BY <1>31, <1>a DEF ForceResult
<1>32. QED
  BY <1>1, <1>2, <1>3, <1>4, <1>5, <1>6, <1>7, <1>8, <1>9, <1>10, <1>11, <1>12, <1>13,
       <1>14, <1>15, <1>16, <1>17, <1>18, <1>19, <1>20, <1>21, <1>22, <1>23, <1>24, <1>25,
       <1>26, <1>27, <1>28, <1>29, <1>30, <1>31 DEF ThreadStep

LEMMA PidMoves ==
  ASSUME TypeInv, [Next]_vars, NEW t \in Tasks
  PROVE  /\ pid'[t] = pid[t] \/ pid'[t] # 0
         /\ Publish(t) => pid'[t] # 0
<1>a. pid \in [Tasks -> Workers \cup {0}] /\ 0 \notin Workers
  BY DEF TypeInv, FutureTypeOK, Workers
<1>1. ASSUME NEW u \in Tasks, Publish(u) PROVE pid' = [pid EXCEPT ![u] = held[u]] /\ held[u] # 0
  BY <1>a, <1>1 DEF Publish, TypeInv, ThreadInv, HeldOK, HasWorker, Holding
<1>2. (\E u \in Tasks : Publish(u)) \/ UNCHANGED pid
  BY FutureFrame
     DEF futureVars, SendUnpicklable, ReadReply, ReadEof, CheckDead, WorkerDied, KillBroken,
         ForceResult, CallerCancels, CallerKills, CancelAndKill, RunnerCancel, CancelFirst,
         ShutdownCancel, ShutdownKill
<1>3. QED
  BY <1>a, <1>1, <1>2

\* Every inbox, unless task t itself is written to it.
LEMMA AnyInbox ==
  ASSUME TypeInv, OwnerInv, PipeInv, [Next]_vars, NEW t \in Tasks, NEW w \in Workers,
         ~(SendJobTo(t) /\ held[t] = w)
  PROVE  /\ None(inbox[w], {t}) => None(inbox'[w], {t})
         /\ One(inbox[w], {t}, {t}) => None(inbox'[w], {t}) \/ One(inbox'[w], {t}, {t})
         /\ Recv(w) /\ Head(inbox[w]) = t => ~None(inbox[w], {t})
         /\ Recv(w) /\ Head(inbox[w]) = t /\ One(inbox[w], {t}, {t}) => None(inbox'[w], {t})
<1>1. ASSUME NEW u \in Tasks, SendJobTo(u), held[u] = w
      PROVE  /\ None(inbox[w], {t}) => None(inbox'[w], {t})
             /\ One(inbox[w], {t}, {t}) => One(inbox'[w], {t}, {t})
             /\ ~Recv(w)
  <2>1. u # t
    BY <1>1
  <2>2. ~Recv(w)
    BY <1>1 DEF SendJobTo, Recv, TypeInv, WorkerInv, WorkerTypeOK
  <2>3. QED
    BY <1>1, <2>1, <2>2, InboxGrows
<1>2. CASE \A u \in Tasks : SendJobTo(u) => held[u] # w
  <2>1. Calm(w)
    BY <1>2, StepCalm DEF OwnerInv, PipeInv
  <2>2. QED
    BY <2>1, InboxKeeps
<1>3. QED
  BY <1>1, <1>2

LEMMA SentBegins ==
  ASSUME TypeInv, OwnerInv, PipeInv, [Next]_vars, NEW t \in Tasks, SentOK(t), SendJobTo(t)
  PROVE  SentOK(t)'
<1>1. PICK h : h = held[t]
  OBVIOUS
<1>2. /\ h \in Workers /\ pc[t] = "send" /\ pc'[t] = "publish" /\ host' = host
  BY <1>1 DEF SendJobTo, Goto, TypeInv, ThreadInv, ThreadTypeOK, HeldOK, HasWorker, Holding
<1>3. ~Sent(t)
  BY <1>2 DEF SentOK, Unsent
<1>4. One(inbox'[h], {t}, {t})
  BY <1>1, <1>2, <1>3, InboxGrows DEF Sent
<1>5. \A w \in Workers : w # h => None(inbox'[w], {t})
  BY <1>1, <1>3, AnyInbox DEF Sent
<1>6. QED
  BY <1>2, <1>3, <1>4, <1>5 DEF SentOK, Sent, Unsent, Submitting, Getting, Letting

LEMMA SentStays ==
  ASSUME TypeInv, OwnerInv, PipeInv, [Next]_vars, NEW t \in Tasks, SentOK(t), ~SendJobTo(t)
  PROVE  SentOK(t)' /\ (Sent(t)' => Sent(t))
<1>a. \A w \in Workers : /\ None(inbox[w], {t}) => None(inbox'[w], {t})
                         /\ One(inbox[w], {t}, {t}) => None(inbox'[w], {t}) \/ One(inbox'[w], {t}, {t})
  BY AnyInbox
<1>1. /\ \A w \in Workers : None(inbox'[w], {t}) \/ (host'[t] = 0 /\ One(inbox'[w], {t}, {t}))
      /\ \A v, w \in Workers : v # w => None(inbox'[v], {t}) \/ None(inbox'[w], {t})
      /\ Sent(t)' => Sent(t)
  <2>1. CASE host'[t] = host[t]
    BY <1>a, <2>1 DEF SentOK, Sent
  <2>2. ASSUME NEW v \in Workers, Recv(v), Head(inbox[v]) = t
        PROVE  (\A w \in Workers : None(inbox'[w], {t})) /\ Sent(t)
    <3>1. ~None(inbox[v], {t}) /\ (One(inbox[v], {t}, {t}) => None(inbox'[v], {t}))
      BY <2>2, AnyInbox
    <3>2. \A w \in Workers : w # v => None(inbox[w], {t})
      BY <3>1 DEF SentOK
    <3>3. QED
      BY <1>a, <3>1, <3>2 DEF SentOK, Sent
  <2>3. QED
    BY <2>1, <2>2, HostMoves
<1>2. Sent(t) => pc'[t] \notin Unsent /\ (pc'[t] \in Letting \cup {"weigh"} => pid'[t] # 0)
  <2>1. CASE ThreadStep(t)
    BY <2>1, ThreadSends DEF SentOK
  <2>2. CASE ~ThreadStep(t)
    <3>1. ASSUME Sent(t) PROVE pc'[t] = pc[t]
      BY <2>2, <3>1, OthersMove DEF SentOK, Unsent
    <3>2. QED
      BY <3>1, PidMoves DEF SentOK
  <2>3. QED
    BY <2>1, <2>2
<1>3. pc'[t] \in {"await", "check"} => pid'[t] # 0
  <2>1. CASE ThreadStep(t)
    BY <2>1, ThreadAwaits, PidMoves DEF SentOK
  <2>2. CASE ~ThreadStep(t)
    BY <2>2, OthersMove, PidMoves DEF SentOK, Idle, Submitting
  <2>3. QED
    BY <2>1, <2>2
<1>4. QED
  BY <1>1, <1>2, <1>3 DEF SentOK, Sent

StartInv == OutcomeInv /\ SentInv

LEMMA StartInit == Init => StartInv
<1> SUFFICES ASSUME Init PROVE SentInv
  BY OutcomeInit DEF StartInv
<1>1. /\ \A w \in Workers : inbox[w] = <<>>
      /\ \A t \in Tasks : host[t] = 0 /\ pc[t] = "new"
  BY DEF Init, WorkerInit
<1>2. \A t \in Tasks : \A w \in Workers : None(inbox[w], {t})
  BY <1>1, NoneEmpty
<1>3. QED
  BY <1>1, <1>2 DEF SentInv, SentOK, Sent

LEMMA StartStep == StartInv /\ [Next]_vars => StartInv'
<1>1. ASSUME StartInv, [Next]_vars PROVE SentInv'
  BY <1>1, SentBegins, SentStays DEF StartInv, OutcomeInv, SafetyInv, SentInv
<1>2. QED
  BY <1>1, OutcomeStep DEF StartInv

\* A task starts on one worker at most: neither the retry after a broken pipe nor
\* a late kill, death or timeout makes a second worker start what one has started.
THEOREM NoSecondStart == Spec => StartsOnce
<1>1. ASSUME StartInv, [Next]_vars, NEW t \in Tasks, host[t] # 0
      PROVE  host'[t] = host[t] /\ ~\E w \in Workers : cur[w] # t /\ cur'[w] = t
  <2>1. SentOK(t) /\ pc[t] # "send" /\ TypeInv /\ OwnerInv /\ PipeInv
    BY <1>1 DEF StartInv, OutcomeInv, SafetyInv, SentInv, SentOK, Sent, Unsent
  <2>2. ~SendJobTo(t)
    BY <2>1 DEF SendJobTo
  <2>3. ASSUME NEW w \in Workers, Recv(w), Head(inbox[w]) = t PROVE FALSE
    BY <1>1, <2>1, <2>2, <2>3, AnyInbox DEF SentOK
  <2>4. QED
    BY <1>1, <2>1, <2>3, HostMoves
<1>2. StartInv /\ [Next]_vars =>
        [\A t \in Tasks : host[t] # 0 => host'[t] = host[t]
                            /\ ~(\E w \in Workers : cur[w] # t /\ cur'[w] = t)]_vars
  BY <1>1
<1>3. QED
  BY <1>2, StartInit, StartStep, PTL DEF Spec, StartsOnce

\* What stays true of a task that was cancelled in the backlog.
Withdrawn(t) == Done(t) /\ pc[t] \in {"queued", "end"} /\ ~Sent(t)

LEMMA DoneStays ==
  ASSUME TypeInv, [Next]_vars, NEW t \in Tasks, Done(t)
  PROVE  Done(t)'
<1>a. fut \in [Tasks -> Outcome]
  BY DEF TypeInv, FutureTypeOK
<1>1. ASSUME NEW u \in Tasks, NEW state, NEW of, Settle(u, state, of) PROVE Done(t)'
  BY <1>a, <1>1 DEF Settle, Done
<1>2. ASSUME NEW u \in Tasks, Cancel(u) PROVE Done(t)'
  BY <1>1, <1>2 DEF Cancel
<1>3. ASSUME NEW u \in Tasks,
             SendUnpicklable(u) \/ ReadReply(u) \/ ReadEof(u) \/ CheckDead(u) \/ ForceResult(u)
      PROVE  Done(t)'
  BY <1>1, <1>3 DEF SendUnpicklable, ReadReply, ReadEof, CheckDead, WorkerDied, ForceResult
<1>4. ASSUME NEW u \in Tasks, KillBroken(u) PROVE Done(t)'
  BY <1>1, <1>4 DEF KillBroken, Done
<1>5. ASSUME UNCHANGED fut PROVE Done(t)'
  BY <1>5 DEF Done
<1>6. QED
  BY <1>2, <1>3, <1>4, <1>5, FutureFrame
     DEF futureVars, Publish, CallerCancels, CallerKills, CancelAndKill, RunnerCancel,
         CancelFirst, ShutdownCancel, ShutdownKill

LEMMA WithdrawnStays ==
  ASSUME StartInv, [Next]_vars, NEW t \in Tasks, Withdrawn(t)
  PROVE  Withdrawn(t)'
<1>1. TypeInv /\ OwnerInv /\ PipeInv /\ SentOK(t)
  BY DEF StartInv, OutcomeInv, SafetyInv, SentInv
<1>2. ~ThreadStep(t)
  BY ThreadMoves DEF Withdrawn, Working, Getting, Holding, Ending
<1>3. ~SendJobTo(t)
  BY <1>2 DEF ThreadStep
<1>4. ~Sent(t)'
  BY <1>1, <1>3, SentStays DEF Withdrawn
<1>5. Done(t)'
  BY <1>1, DoneStays DEF Withdrawn
<1>6. pc'[t] \in {"queued", "end"}
  BY <1>1, <1>2, OthersMove DEF Withdrawn, Submitting
<1>7. QED
  BY <1>4, <1>5, <1>6 DEF Withdrawn

\* A task whose future was cancelled while it waited in the backlog never starts.
THEOREM CancelledInTime == Spec => CancelledStaysUnstarted
<1> SUFFICES ASSUME NEW t \in Tasks
             PROVE  Spec => [](pc[t] = "queued" /\ Done(t) => [](host[t] = 0))
  BY DEF CancelledStaysUnstarted
<1>1. StartInv /\ (pc[t] = "queued" /\ Done(t)) => Withdrawn(t)
  BY DEF StartInv, SentInv, SentOK, Withdrawn, Unsent
<1>2. StartInv /\ Withdrawn(t) /\ [Next]_vars => Withdrawn(t)'
  BY WithdrawnStays
<1>3. Withdrawn(t) => host[t] = 0
  BY DEF Withdrawn, Sent
<1>4. QED
  BY <1>1, <1>2, <1>3, StartInit, StartStep, PTL DEF Spec

-----------------------------------------------------------------------------
(* The supply of idle workers.                                             *)

\* What keeps the number of workers from falling to none: retiring leaves one
\* (min_workers), clear_workers() is not called, and run_task gives its worker
\* back on every path it can take, which it does not when sending raises or when
\* psutil finds no process to weigh.
Steady == /\ MinWorkers >= 1
          /\ MaxClears = 0
          /\ ~CheckMemory
          /\ Unpicklable = {} /\ Unsendable = {}

\* The thread is about to put a worker into the idle queue, or has counted so
\* few of them that it will not retire its own.
Brings(t) ==
  \/ pc[t] \in {"add", "claim", "recycle"} \cup Claimed
  \/ pc[t] = "release_idle" /\ seen[t] = 0
  \/ pc[t] = "release_backlog" /\ seen[t] <= 1

\* Every busy worker is held by the thread that claimed it, and until shutdown is
\* past join() there is an idle worker or a thread that brings one.
BusyHeld == \A w \in busy_workers : \E t \in Tasks : pc[t] \in Claimed /\ held[t] = w
Supplied == spc \notin {"idle", "busy", "done"} =>
              workers # <<>> \/ \E t \in Tasks : Brings(t)

SupplyInv == SafetyInv /\ cpc = "idle" /\ BusyHeld /\ Supplied

LEMMA AddedIdle ==
  ASSUME TypeInv, NEW w, workers' = Append(workers, w)
  PROVE  workers' # <<>>
<1>1. workers \in Seq(Workers)
  BY DEF TypeInv, PoolTypeOK
<1>2. Len(workers') = Len(workers) + 1 /\ Len(workers) \in Nat
  BY <1>1
<1>3. QED
  BY <1>2

\* A thread that was bringing a worker still is, or has put one into the queue;
\* only Release, which looks at the other busy workers, may hand that over.
LEMMA ThreadBrings ==
  ASSUME TypeInv, Steady, NEW t \in Tasks, ThreadStep(t)
  PROVE  /\ \A u \in Tasks \ {t} : seen'[u] = seen[u]
         /\ pc[t] \in Claimed => Release(t) \/ (pc'[t] \in Claimed /\ UNCHANGED held)
         /\ \/ workers' # <<>>
            \/ Brings(t)'
            \/ UNCHANGED workers /\ (Brings(t) => Release(t))
<1>a. pc \in [Tasks -> ThreadPc] /\ seen \in [Tasks -> Nat] /\ workers \in Seq(Workers)
  BY DEF TypeInv, ThreadInv, ThreadTypeOK, PoolTypeOK
<1>b. MinWorkers >= 1 /\ ~CheckMemory /\ Unpicklable = {} /\ Unsendable = {}
  BY DEF Steady
<1> USE DEF Claimed, Brings, Goto
<1>1. CASE CountBusy(t)
  BY <1>a, <1>1 DEF CountBusy, poolVars
<1>2. CASE CountIdle(t)
  BY <1>a, <1>2 DEF CountIdle, poolVars
<1>3. CASE AddForTask(t)
  BY <1>a, <1>3, AddedIdle DEF AddForTask, AddWorker
<1>4. CASE Take(t)
  BY <1>a, <1>4 DEF Take
<1>5. CASE Claim(t)
  BY <1>a, <1>5 DEF Claim
<1>6. CASE SendDeclined(t)
  BY <1>a, <1>6 DEF SendDeclined, poolVars
<1>7. CASE SendUnpicklable(t)
  BY <1>b, <1>7 DEF SendUnpicklable
<1>8. CASE SendRaises(t)
  BY <1>b, <1>8 DEF SendRaises
<1>9. CASE SendBroken(t)
  BY <1>a, <1>9 DEF SendBroken
<1>10. CASE SendJobTo(t)
  BY <1>a, <1>10 DEF SendJobTo
<1>11. CASE Publish(t)
  BY <1>a, <1>11 DEF Publish
<1>12. CASE ReadReply(t)
  BY <1>a, <1>12 DEF ReadReply
<1>13. CASE ReadEof(t)
  BY <1>a, <1>13 DEF ReadEof, WorkerDied
<1>14. CASE PollEmpty(t)
  BY <1>a, <1>14 DEF PollEmpty
<1>15. CASE CheckAlive(t)
  BY <1>a, <1>15 DEF CheckAlive
<1>16. CASE CheckDead(t)
  BY <1>a, <1>16 DEF CheckDead, WorkerDied
<1>17. CASE Release(t)
  BY <1>a, <1>17 DEF Release
<1>18. CASE ReleaseIdle(t)
  <2>1. /\ pc[t] = "release_idle" /\ pc'[t] = "release_backlog" /\ UNCHANGED workers
        /\ seen'[t] = seen[t] + Len(workers) + 1 /\ \A u \in Tasks \ {t} : seen'[u] = seen[u]
    BY <1>a, <1>18 DEF ReleaseIdle, poolVars
  <2>2. CASE seen[t] = 0 /\ workers = <<>>
    BY <2>1, <2>2
  <2>3. CASE ~(seen[t] = 0 /\ workers = <<>>)
    BY <2>1, <2>3
  <2>4. QED
    BY <2>2, <2>3
<1>19. CASE Retire(t)
  <2>1. /\ pc[t] = "release_backlog" /\ seen[t] > MinWorkers /\ UNCHANGED workers
        /\ seen' = [seen EXCEPT ![t] = 0]
    BY <1>19 DEF Retire, poolVars
  <2>2. ~Brings(t) /\ pc[t] \notin Claimed
    BY <1>a, <1>b, <2>1, PoolAssumption
  <2>3. QED
    BY <1>a, <2>1, <2>2
<1>20. CASE Keep(t)
  BY <1>a, <1>20 DEF Keep
<1>21. CASE ReplaceDead(t)
  BY <1>21, AddedIdle DEF ReplaceDead, AddWorker
<1>22. CASE ReplaceWornOut(t)
  BY <1>22, AddedIdle DEF ReplaceWornOut, ReplaceLive, AddWorker
<1>23. CASE Weigh(t)
  BY <1>b, <1>23 DEF Weigh
<1>24. CASE WeighFails(t)
  BY <1>a, <1>24 DEF WeighFails, poolVars
<1>25. CASE ReplaceHeavy(t)
  BY <1>25, AddedIdle DEF ReplaceHeavy, ReplaceLive, AddWorker
<1>26. CASE PutBack(t)
  BY <1>26, AddedIdle DEF PutBack
<1>27. CASE KillBroken(t)
  BY <1>a, <1>27 DEF KillBroken, poolVars
<1>28. CASE TaskDone(t)
  BY <1>a, <1>28 DEF TaskDone, poolVars
<1>29. CASE FreeSlot(t)
  BY <1>a, <1>29 DEF FreeSlot, poolVars
<1>30. CASE NoResult(t)
  BY <1>a, <1>30 DEF NoResult, poolVars
<1>31. CASE ForceResult(t)
  BY <1>a, <1>31 DEF ForceResult, poolVars
<1>32. QED
  BY <1>1, <1>2, <1>3, <1>4, <1>5, <1>6, <1>7, <1>8, <1>9, <1>10, <1>11, <1>12, <1>13,
       <1>14, <1>15, <1>16, <1>17, <1>18, <1>19, <1>20, <1>21, <1>22, <1>23, <1>24, <1>25,
       <1>26, <1>27, <1>28, <1>29, <1>30, <1>31 DEF ThreadStep

\* Release leaves the supply to the threads of the workers that are still busy;
\* with none of them it counts 0 and will keep its worker.
LEMMA SuppliedByThread ==
  ASSUME SupplyInv, Steady, NEW t \in Tasks, ThreadStep(t)
  PROVE  BusyHeld' /\ Supplied'
<1>a. /\ pc \in [Tasks -> ThreadPc] /\ seen \in [Tasks -> Nat] /\ busy_workers \subseteq Workers
      /\ held \in [Tasks -> Workers \cup {0}] /\ TypeInv
  BY DEF SupplyInv, SafetyInv, TypeInv, ThreadInv, ThreadTypeOK, PoolTypeOK
<1>b. /\ BusyHeld /\ UNCHANGED spc
      /\ spc \notin {"idle", "busy", "done"} => workers # <<>> \/ \E u \in Tasks : Brings(u)
  BY <1>a, ThreadLeaves DEF SupplyInv, Supplied, callerVars, shutdownVars
<1>c. /\ \A u \in Tasks \ {t} : pc'[u] = pc[u] /\ seen'[u] = seen[u]
      /\ \A u \in Tasks \ {t} : Brings(u) => Brings(u)'
  <2>1. PICK l \in Working \cup {"end"} : pc' = [pc EXCEPT ![t] = l]
    BY ThreadMoves
  <2>2. \A u \in Tasks \ {t} : pc'[u] = pc[u] /\ seen'[u] = seen[u]
    BY <2>1, <1>a, ThreadBrings
  <2>3. QED
    BY <2>2 DEF Brings
<1>d. \A u \in Tasks \ {t} : held'[u] = held[u]
  <2>1. CASE Take(t) \/ PutBack(t)
    BY <2>1, <1>a DEF Take, PutBack, Released
  <2>2. CASE Keeps(t) \/ Drops(t)
    BY <2>2, <1>a DEF Keeps, Drops
  <2>3. QED
    BY <1>a, <2>1, <2>2, ThreadOwns
<1>1. CASE Claim(t)
  <2>1. /\ pc[t] = "claim" /\ pc'[t] = "send" /\ UNCHANGED <<held, workers>>
        /\ busy_workers' = busy_workers \cup {held[t]}
    BY <1>1, <1>a DEF Claim, Goto
  <2>2. BusyHeld'
    <3>1. ASSUME NEW w \in busy_workers'
          PROVE  \E u \in Tasks : pc'[u] \in Claimed /\ held'[u] = w
      <4>1. CASE w = held[t]
        BY <4>1, <2>1 DEF Claimed
      <4>2. CASE w \in busy_workers
        BY <4>2, <2>1, <1>b, <1>c DEF BusyHeld, Claimed
      <4>3. QED
        BY <4>1, <4>2, <3>1, <2>1
    <3>2. QED
      BY <3>1 DEF BusyHeld
  <2>3. Brings(t)'
    BY <2>1 DEF Brings, Claimed
  <2>4. QED
    BY <2>2, <2>3 DEF Supplied
<1>2. CASE Release(t)
  <2>1. /\ pc[t] = "release" /\ pc'[t] = "release_idle" /\ UNCHANGED <<held, workers>>
        /\ busy_workers' = busy_workers \ {held[t]}
        /\ seen'[t] = Cardinality(busy_workers \ {held[t]})
    BY <1>2, <1>a DEF Release, Goto
  <2>2. ASSUME NEW w \in busy_workers \ {held[t]}
        PROVE  \E u \in Tasks \ {t} : pc[u] \in Claimed /\ held[u] = w
    BY <2>2, <1>b DEF BusyHeld
  <2>3. BusyHeld'
    BY <2>1, <2>2, <1>c DEF BusyHeld
  <2>4. CASE busy_workers \ {held[t]} = {}
    <3>1. seen'[t] = 0
      BY <2>1, <2>4, FS_EmptySet
    <3>2. Brings(t)'
      BY <3>1, <2>1 DEF Brings
    <3>3. QED
      BY <3>2, <2>3 DEF Supplied
  <2>5. CASE busy_workers \ {held[t]} # {}
    <3>1. PICK u \in Tasks \ {t} : pc[u] \in Claimed
      BY <2>2, <2>5
    <3>2. Brings(u)'
      BY <3>1, <1>c DEF Brings
    <3>3. QED
      BY <3>2, <2>3 DEF Supplied
  <2>6. QED
    BY <2>4, <2>5
<1>3. CASE ~Claim(t) /\ ~Release(t)
  <2>1. UNCHANGED busy_workers
    BY <1>3, <1>a, ThreadClaims
  <2>2. pc[t] \in Claimed => pc'[t] \in Claimed /\ UNCHANGED held
    BY <1>3, <1>a, ThreadBrings
  <2>3. BusyHeld'
    <3>1. ASSUME NEW w \in busy_workers
          PROVE  \E u \in Tasks : pc'[u] \in Claimed /\ held'[u] = w
      <4>1. PICK u \in Tasks : pc[u] \in Claimed /\ held[u] = w
        BY <1>b DEF BusyHeld
      <4>2. pc'[u] \in Claimed /\ held'[u] = w
        BY <4>1, <2>2, <1>c, <1>d
      <4>3. QED
        BY <4>2
    <3>2. QED
      BY <3>1, <2>1 DEF BusyHeld
  <2>4. CASE workers' # <<>> \/ Brings(t)'
    BY <2>3, <2>4 DEF Supplied
  <2>5. CASE UNCHANGED workers /\ ~Brings(t)
    <3>1. ASSUME spc' \notin {"idle", "busy", "done"}
          PROVE  workers' # <<>> \/ \E u \in Tasks : Brings(u)'
      BY <3>1, <2>5, <1>b, <1>c
    <3>2. QED
      BY <3>1, <2>3 DEF Supplied
  <2>6. QED
    BY <1>3, <1>a, <2>4, <2>5, ThreadBrings
<1>4. QED
  BY <1>1, <1>2, <1>3

LEMMA SupplyStep ==
  ASSUME SupplyInv, Steady, [Next]_vars
  PROVE  cpc' = "idle" /\ BusyHeld' /\ Supplied'
<1>a. /\ pc \in [Tasks -> ThreadPc] /\ QueuedOK /\ TypeInv
      /\ BusyHeld /\ Supplied /\ cpc = "idle" /\ clears = 0
  BY DEF SupplyInv, SafetyInv, TypeInv, ThreadInv, ThreadTypeOK, CallerTypeOK, Steady
<1>b. ~(clears < MaxClears)
  BY <1>a DEF Steady
<1>1. cpc' = "idle"
  BY <1>a, <1>b, CallerFrame DEF ShutdownKill, ShutdownCancelled, PutSentinel, SentinelFull,
     SnapshotRunning, ShutdownKilled, ShutdownJoin, ShutdownIdle, JoinWorker, SnapshotBusy,
     ShutdownReturns, ClearWorkers, ClearTests, ClearTakes, ShutdownBusy, ShutdownBegin,
     ShutdownGoto, callerVars, clearVars
<1>2. ASSUME NEW t \in Tasks, SubmitStep(t) \/ RunnerLaunch(t) \/ RunnerSkip(t)
                              \/ RunnerCancel(t) \/ ShutdownCancel(t)
      PROVE  BusyHeld' /\ Supplied'
  <2>1. UNCHANGED <<held, seen, workers, busy_workers, spc>>
    BY <1>2 DEF SubmitStep, Submit, SubmitRejected, Put, RunnerLaunch, RunnerSkip,
                RunnerCancel, ShutdownCancel, CancelFirst, poolVars, callerVars, shutdownVars
  <2>2. pc[t] \in {"new", "putting", "queued"} /\ Alone(t)
    <3>1. CASE SubmitStep(t)
      BY <3>1, <1>a DEF SubmitStep, Submit, SubmitRejected, Put, Goto, Alone
    <3>2. CASE RunnerLaunch(t) \/ RunnerSkip(t)
      BY <3>2, <1>a DEF RunnerLaunch, RunnerSkip, IsFirst, QueuedOK, Goto, Alone
    <3>3. CASE RunnerCancel(t) \/ ShutdownCancel(t)
      BY <3>3, <1>a DEF RunnerCancel, ShutdownCancel, CancelFirst, IsFirst, QueuedOK, Goto, Alone
    <3>4. QED
      BY <1>2, <3>1, <3>2, <3>3
  <2>3. \A u \in Tasks : Brings(u) \/ pc[u] \in Claimed => pc'[u] = pc[u]
    BY <2>2 DEF Brings, Claimed, Alone
  <2>4. BusyHeld'
    BY <2>1, <2>3, <1>a DEF BusyHeld
  <2>5. \A u \in Tasks : Brings(u) => Brings(u)'
    BY <2>1, <2>3 DEF Brings
  <2>6. QED
    BY <2>1, <2>4, <2>5, <1>a DEF Supplied
<1>3. ASSUME UNCHANGED <<pc, held, seen, workers, busy_workers>>,
             UNCHANGED spc \/ spc \notin {"idle", "busy", "done"}
                           \/ spc' \in {"idle", "busy", "done"}
      PROVE  BusyHeld' /\ Supplied'
  <2>1. BusyHeld'
    BY <1>3, <1>a DEF BusyHeld
  <2>2. \A u \in Tasks : Brings(u) => Brings(u)'
    BY <1>3 DEF Brings
  <2>3. QED
    BY <1>3, <2>1, <2>2, <1>a DEF Supplied
<1>4. ASSUME UNCHANGED <<pc, held>>, spc' \in {"idle", "busy", "done"},
             busy_workers' \subseteq busy_workers
      PROVE  BusyHeld' /\ Supplied'
  BY <1>4, <1>a DEF BusyHeld, Supplied
<1>5. \/ \E t \in Tasks : \/ ThreadStep(t) \/ SubmitStep(t) \/ RunnerLaunch(t) \/ RunnerSkip(t)
                          \/ RunnerCancel(t) \/ ShutdownCancel(t)
      \/ /\ UNCHANGED <<pc, held, seen, workers, busy_workers>>
         /\ UNCHANGED spc \/ spc \notin {"idle", "busy", "done"}
                          \/ spc' \in {"idle", "busy", "done"}
      \/ /\ UNCHANGED <<pc, held>> /\ spc' \in {"idle", "busy", "done"}
         /\ busy_workers' \subseteq busy_workers
  BY <1>a DEF Next, RunnerStep, RunnerAcquire, RunnerStop, RunnerStopped, ShutdownStep,
         ShutdownKill, ShutdownCancelled, PutSentinel, SentinelFull, SnapshotRunning,
         ShutdownKilled, ShutdownJoin, ShutdownIdle, ShutdownBusy, JoinWorker, SnapshotBusy,
         ShutdownReturns, ShutdownBegin, CallerCancels, CallerKills, CancelAndKill,
         ClearWorkers, ClearTests, ClearTakes, ProcessStep, AllDone, ShutdownGoto, poolVars,
         threadVars, callerVars, shutdownVars, vars
<1>6. QED
  BY <1>1, <1>2, <1>3, <1>4, <1>5, SuppliedByThread

\* While no worker is lost for good, a run_task thread that waits in get_process()
\* on an empty idle queue always has another thread that will put a worker there:
\* two threads that finish together cannot both retire the worker they hold.
THEOREM NobodyIsStranded ==
  ASSUME Steady
  PROVE  Spec => []NeverStranded
<1>1. Init => SupplyInv
  <2> SUFFICES ASSUME Init PROVE SupplyInv
    OBVIOUS
  <2>1. Len(workers) = PoolSize /\ PoolSize > 0 /\ cpc = "idle" /\ busy_workers = {}
    BY PoolAssumption DEF Init
  <2>2. workers # <<>>
    BY <2>1
  <2>3. QED
    BY <2>1, <2>2, SafetyInit DEF SupplyInv, BusyHeld, Supplied
<1>2. SupplyInv /\ [Next]_vars => SupplyInv'
  BY SafetyStep, SupplyStep DEF SupplyInv
<1>3. SupplyInv => NeverStranded
  <2> SUFFICES ASSUME SupplyInv, NEW t \in Tasks, pc[t] = "take", workers = <<>>
               PROVE  \E u \in Tasks \ {t} : pc[u] \in Working \ (Ending \cup {"take"})
    BY DEF NeverStranded
  <2>1. t \in Owed
    BY DEF Owed, ThreadsIn, Working, Getting
  <2>2. spc \notin {"idle", "busy", "done"}
    BY <2>1 DEF SupplyInv, SafetyInv, ShutdownInv, ShutdownWaits
  <2>3. PICK u \in Tasks : Brings(u)
    BY <2>2 DEF SupplyInv, Supplied
  <2>4. u # t /\ pc[u] \in Working \ (Ending \cup {"take"})
    BY <2>3 DEF Brings, Claimed, Working, Holding, Getting, Ending
  <2>5. QED
    BY <2>4
<1>4. QED
  BY <1>1, <1>2, <1>3, PTL DEF Spec

-----------------------------------------------------------------------------
(* The marks of a worker that is on its way out.                           *)

\* Told: a None is in the worker's pipe.  Fated: the timer of a task that the
\* worker started has reported and kills it next.  Doomed: it is gone, or fated.
Timeouts    == {m \in Message : m.kind = "timeout"}
Told(w)     == ~None(inbox[w], {Quit})
Fated(t, w) == host[t] = w /\ timer[t] = "sent"
Doomed(w)   == PipeBroken(w) \/ \E t \in Tasks : Fated(t, w)
Warned(w)   == ~None(outbox[w], Timeouts)

\* A worker that was never started has no process and no pipe; one that reported
\* a timeout, or that the pool marked as not ok, is doomed.
UnusedOK ==
  /\ \A w \in Workers : w > created => proc[w] = "none" /\ outbox[w] = <<>> /\ ok[w]
  /\ \A t \in Tasks : pid[t] <= created
MarkOK == \A w \in Workers : Warned(w) \/ ~ok[w] => Doomed(w)

\* What one step may do to these marks of a worker.
Marks(w) ==
  /\ Doomed(w) => Doomed(w)'
  /\ Told(w) => Told(w)' \/ PipeBroken(w)'
  /\ Warned(w)' => Warned(w) \/ Doomed(w)'
  /\ proc'[w] \in Running => proc[w] \in Running \/ (Grows /\ w = created + 1)
  /\ w > created' => proc'[w] = "none" /\ outbox'[w] = <<>>

\* The process and the timers stay; the pool writes to a pipe, reads or closes it.
LEMMA MarksQuiet ==
  ASSUME TypeInv, UnusedOK, NEW w \in Workers, proc'[w] = proc[w],
         UNCHANGED <<host, timer>>, created' \in Nat, created <= created',
         inbox'[w] = inbox[w] \/ \E e \in Tasks \cup {Quit} : inbox'[w] = Append(inbox[w], e),
         \/ outbox'[w] = outbox[w] \/ outbox'[w] = <<>>
         \/ outbox[w] # <<>> /\ outbox'[w] = Tail(outbox[w])
  PROVE  Marks(w)
<1>1. inbox[w] \in Seq(Tasks \cup {Quit}) /\ outbox[w] \in Seq(Message)
  BY PipeType
<1>2. Doomed(w) => Doomed(w)'
  BY DEF Doomed, PipeBroken, Fated
<1>3. Told(w) => Told(w)'
  <2>1. \A e \in Tasks \cup {Quit} : Told(w) => ~None(Append(inbox[w], e), {Quit})
    BY <1>1, SomeStays DEF Told
  <2>2. QED
    BY <2>1 DEF Told
<1>4. None(outbox[w], Timeouts) => None(outbox'[w], Timeouts)
  BY <1>1, NoneStays, NoneEmpty
<1>5. w > created' => proc'[w] = "none" /\ outbox'[w] = <<>>
  BY DEF UnusedOK, TypeInv, PoolTypeOK, Workers
<1>6. QED
  BY <1>2, <1>3, <1>4, <1>5 DEF Marks, Warned

\* A process ends.
LEMMA MarksEnd ==
  ASSUME TypeInv, UnusedOK, NEW w \in Workers, NEW v, v <= created,
         NEW state \in {"closing", "dead"}, Terminate(v, state), UNCHANGED <<outbox, host, created>>
  PROVE  Marks(w)
<1>a. proc \in [Workers -> ProcState] /\ inbox \in [Workers -> Seq(Tasks \cup {Quit})]
  BY DEF TypeInv, WorkerInv, WorkerTypeOK
<1>b. created \in Nat /\ w \in Nat
  BY DEF TypeInv, PoolTypeOK, Workers
<1>1. CASE w = v
  <2>1. proc'[w] = state /\ ~(w > created') /\ outbox'[w] = outbox[w]
    BY <1>a, <1>b, <1>1 DEF Terminate
  <2>2. PipeBroken(w)' /\ proc'[w] \notin Running
    BY <2>1 DEF PipeBroken, Running
  <2>3. QED
    BY <2>1, <2>2 DEF Marks, Doomed, Warned
<1>2. CASE w # v
  <2>1. proc'[w] = proc[w] /\ inbox'[w] = inbox[w] /\ outbox'[w] = outbox[w]
    BY <1>a, <1>2 DEF Terminate
  <2>2. \A t \in Tasks : Fated(t, w) => Fated(t, w)'
    BY <1>2 DEF Terminate, Fated
  <2>3. QED
    BY <2>1, <2>2 DEF Marks, Doomed, PipeBroken, Told, Warned, UnusedOK
<1>3. QED
  BY <1>1, <1>2

\* A worker starts, and the one it replaces may be told to exit.
LEMMA MarksSpawn ==
  ASSUME TypeInv, UnusedOK, TimerOK, NEW w \in Workers, AddWorker, NEW v, v <= created,
         ShutdownWorker(v) \/ UNCHANGED <<inbox, outbox>>, UNCHANGED <<host, timer>>
  PROVE  Marks(w)
<1>a. /\ created \in Nat /\ w \in Nat /\ created' = created + 1 /\ proc \in [Workers -> ProcState]
      /\ proc' = [proc EXCEPT ![created + 1] = "waiting"] /\ Grows
  BY DEF TypeInv, PoolTypeOK, Workers, AddWorker, Spawn, WorkerInv, WorkerTypeOK, Grows
<1>1. CASE w = created + 1
  <2>1. v # w /\ proc[w] = "none" /\ proc'[w] = "waiting" /\ w > created /\ ~(w > created')
    BY <1>a, <1>1 DEF UnusedOK
  <2>2. inbox'[w] = inbox[w] /\ outbox'[w] = outbox[w]
    BY <2>1 DEF ShutdownWorker, TypeInv, WorkerInv, WorkerTypeOK
  <2>3. ~Doomed(w)
    BY <2>1 DEF Doomed, PipeBroken, Fated, TimerOK, Running
  <2>4. QED
    BY <1>1, <1>a, <2>1, <2>2, <2>3 DEF Marks, Told, Warned
<1>2. CASE w # created + 1
  <2>1. proc'[w] = proc[w] /\ created' \in Nat /\ created <= created'
    BY <1>a, <1>2
  <2>2. /\ inbox'[w] = inbox[w] \/ inbox'[w] = Append(inbox[w], Quit)
        /\ outbox'[w] = outbox[w] \/ outbox'[w] = <<>>
    BY ShutdownKeeps
  <2>3. inbox'[w] = inbox[w] \/ \E e \in Tasks \cup {Quit} : inbox'[w] = Append(inbox[w], e)
    BY <2>2
  <2>4. QED
    BY <2>1, <2>2, <2>3, MarksQuiet
<1>3. QED
  BY <1>1, <1>2

\* A worker only receives a job that no worker has started.
LEMMA RecvFirst ==
  ASSUME TypeInv, SentInv, NEW v \in Workers, Recv(v)
  PROVE  Head(inbox[v]) \in Tasks /\ host[Head(inbox[v])] = 0
<1>1. PICK t : t = Head(inbox[v])
  OBVIOUS
<1>2. t \in Tasks /\ inbox[v] # <<>> /\ inbox[v] \in Seq(Tasks \cup {Quit})
  BY <1>1, PipeType DEF Recv
<1>3. ~None(inbox[v], {t})
  BY <1>1, <1>2, NoneStays
<1>4. QED
  BY <1>1, <1>2, <1>3 DEF SentInv, SentOK

LEMMA MarksProcess ==
  ASSUME TypeInv, UnusedOK, TimerOK, SentInv, ProcessStep, NEW w \in Workers
  PROVE  Marks(w)
<1>a. /\ proc \in [Workers -> ProcState] /\ inbox \in [Workers -> Seq(Tasks \cup {Quit})]
      /\ outbox \in [Workers -> Seq(Message)] /\ host \in [Tasks -> Workers \cup {0}]
      /\ timer \in [Tasks -> {"off", "armed", "fired", "sent"}]
      /\ cur \in [Workers -> Tasks \cup {Quit}]
      /\ created \in Nat /\ w \in Nat /\ w # 0
  BY DEF TypeInv, PoolTypeOK, Workers, WorkerInv, WorkerTypeOK
<1>b. /\ created' = created
      /\ \A v \in Workers : v > created => proc[v] = "none" /\ outbox[v] = <<>>
      /\ \A v \in Workers : proc[v] # "none" => v <= created
  BY <1>a DEF ProcessStep, poolVars, UnusedOK, Workers
<1>1. ASSUME NEW v \in Workers, Recv(v) PROVE Marks(w)
  <2>1. /\ proc[v] = "waiting" /\ outbox' = outbox /\ Head(inbox[v]) # Quit
        /\ proc' = [proc EXCEPT ![v] = "running"] /\ inbox[v] # <<>>
        /\ inbox' = [inbox EXCEPT ![v] = Tail(inbox[v])]
    BY <1>1 DEF Recv, Quit
  <2>2. \A t \in Tasks : Fated(t, w) => Fated(t, w)'
    BY <1>1, <1>a, RecvFirst DEF Fated, Recv
  <2>3. Told(w) => Told(w)'
    BY <1>a, <2>1, SomeStays DEF Told
  <2>4. PipeBroken(w) => PipeBroken(w)'
    BY <1>a, <2>1 DEF PipeBroken
  <2>5. proc'[w] \in Running => proc[w] \in Running
    BY <1>a, <2>1 DEF Running
  <2>6. w > created' => proc'[w] = "none" /\ outbox'[w] = <<>>
    BY <1>a, <1>b, <2>1
  <2>7. QED
    BY <2>1, <2>2, <2>3, <2>4, <2>5, <2>6 DEF Marks, Doomed, Warned
<1>2. ASSUME NEW v \in Workers, Finish(v) PROVE Marks(w)
  <2>1. /\ proc[v] = "running" /\ proc' = [proc EXCEPT ![v] = "replied"]
        /\ UNCHANGED <<inbox, host, timer>>
    BY <1>2 DEF Finish
  <2>2. \/ outbox'[w] = outbox[w]
        \/ w = v /\ \E m \in Message \ Timeouts : outbox'[w] = Append(outbox[w], m)
    <3>1. cur[v] \in Tasks
      BY <2>1 DEF TypeInv, WorkerInv, CurOK
    <3>2. \A k \in {"result", "error"} : [of |-> cur[v], kind |-> k] \in Message \ Timeouts
      BY <3>1 DEF Message, Kind, Timeouts
    <3>3. CASE outbox' = outbox
      BY <3>3
    <3>4. ASSUME NEW k \in {"result", "error"}, Reply(v, cur[v], k)
          PROVE  \/ outbox'[w] = outbox[w]
                 \/ w = v /\ outbox'[w] = Append(outbox[w], [of |-> cur[v], kind |-> k])
      BY <1>a, <3>4 DEF Reply
    <3>5. QED
      BY <1>2, <3>2, <3>3, <3>4 DEF Finish
  <2>3. None(outbox[w], Timeouts) => None(outbox'[w], Timeouts)
    <3>1. outbox[w] \in Seq(Message)
      BY <1>a
    <3>2. ASSUME NEW m \in Message \ Timeouts, None(outbox[w], Timeouts)
          PROVE  None(Append(outbox[w], m), Timeouts)
      BY <3>1, <3>2, NoneStays
    <3>3. QED
      BY <2>2, <3>2
  <2>4. PipeBroken(w) => PipeBroken(w)'
    BY <1>a, <2>1 DEF PipeBroken
  <2>5. proc'[w] \in Running => proc[w] \in Running
    BY <1>a, <2>1 DEF Running
  <2>6. w > created' => proc'[w] = "none" /\ outbox'[w] = <<>>
    BY <1>a, <1>b, <2>1, <2>2
  <2>7. QED
    BY <2>1, <2>3, <2>4, <2>5, <2>6 DEF Marks, Doomed, Warned, Told, Fated
<1>3. ASSUME NEW v \in Workers, DeactivateTimer(v) PROVE Marks(w)
  <2>1. /\ proc[v] = "replied" /\ proc' = [proc EXCEPT ![v] = "waiting"]
        /\ UNCHANGED <<inbox, outbox, host>>
        /\ \A t \in Tasks : timer[t] = "sent" => timer'[t] = "sent"
    BY <1>a, <1>3 DEF DeactivateTimer
  <2>2. /\ PipeBroken(w) => PipeBroken(w)'
        /\ proc'[w] \in Running => proc[w] \in Running
        /\ w > created' => proc'[w] = "none" /\ outbox'[w] = <<>>
    BY <1>a, <1>b, <2>1 DEF PipeBroken, Running
  <2>3. QED
    BY <2>1, <2>2 DEF Marks, Doomed, Warned, Told, Fated
<1>4. ASSUME NEW v \in Workers, Reap(v) PROVE Marks(w)
  <2>1. /\ proc[v] = "closing" /\ proc' = [proc EXCEPT ![v] = "dead"]
        /\ UNCHANGED <<inbox, outbox, host, timer>>
    BY <1>4 DEF Reap
  <2>2. /\ PipeBroken(w) => PipeBroken(w)'
        /\ proc'[w] \in Running => proc[w] \in Running
        /\ w > created' => proc'[w] = "none" /\ outbox'[w] = <<>>
    BY <1>a, <1>b, <2>1 DEF PipeBroken, Running
  <2>3. QED
    BY <2>1, <2>2 DEF Marks, Doomed, Warned, Told, Fated
<1>5. ASSUME NEW v \in Workers, ExitOnNone(v) \/ Die(v) PROVE Marks(w)
  <2>1. v <= created
    BY <1>b, <1>5 DEF ExitOnNone, Die, Running
  <2>2. QED
    BY <1>b, <1>5, <2>1, MarksEnd DEF ExitOnNone, Die
<1>6. ASSUME NEW t \in Tasks, TimerFires(t) PROVE Marks(w)
  <2>1. /\ UNCHANGED <<proc, inbox, outbox, host>>
        /\ \A u \in Tasks : timer[u] = "sent" => timer'[u] = "sent"
    BY <1>a, <1>6 DEF TimerFires
  <2>2. QED
    BY <1>b, <2>1 DEF Marks, Doomed, Warned, Told, Fated, PipeBroken
<1>7. ASSUME NEW t \in Tasks, TimerReports(t) PROVE Marks(w)
  <2>1. /\ UNCHANGED <<proc, inbox, host>> /\ timer'[t] = "sent"
        /\ \A u \in Tasks : timer[u] = "sent" => timer'[u] = "sent"
    BY <1>a, <1>7 DEF TimerReports
  <2>2. host[t] \in Workers /\ proc[host[t]] \in Running
    BY <1>7 DEF TimerReports, TimerOK
  <2>3. w = host[t] \/ outbox'[w] = outbox[w]
    BY <1>a, <1>7 DEF TimerReports, Reply
  <2>4. w = host[t] => Doomed(w)' /\ w <= created
    BY <1>b, <2>1, <2>2 DEF Doomed, Fated, Running
  <2>5. QED
    BY <1>a, <1>b, <2>1, <2>3, <2>4 DEF Marks, Doomed, Warned, Told, Fated, PipeBroken
<1>8. ASSUME NEW t \in Tasks, TimerKills(t) PROVE Marks(w)
  <2>1. host[t] <= created
    BY <1>b, <1>8 DEF TimerKills, TimerOK, Running
  <2>2. QED
    BY <1>b, <1>8, <2>1, MarksEnd DEF TimerKills
<1>9. QED
  BY <1>1, <1>2, <1>3, <1>4, <1>5, <1>6, <1>7, <1>8 DEF ProcessStep, WorkerStep, TimerStep

LEMMA MarksStep ==
  ASSUME TypeInv, OwnerInv, TimerOK, SentInv, UnusedOK, [Next]_vars, NEW w \in Workers
  PROVE  Marks(w)
<1>a. /\ inbox \in [Workers -> Seq(Tasks \cup {Quit})] /\ outbox \in [Workers -> Seq(Message)]
      /\ created \in Nat /\ created <= created
      /\ held \in [Tasks -> Workers \cup {0}] /\ pid \in [Tasks -> Workers \cup {0}]
  BY DEF TypeInv, PoolTypeOK, WorkerInv, WorkerTypeOK, ThreadInv, ThreadTypeOK, FutureTypeOK
<1>b. \A t \in Tasks : pc[t] \in HasWorker => held[t] \in Workers /\ held[t] <= created
  BY DEF OwnerInv, OwnedOK, TypeInv, ThreadInv, HeldOK
<1>c. ASSUME UNCHANGED <<proc, inbox, outbox, host, timer, created>> PROVE Marks(w)
  BY <1>a, <1>c, MarksQuiet
<1>d. ASSUME NEW v, ShutdownWorker(v), UNCHANGED <<proc, host, timer, created>> PROVE Marks(w)
  <2>1. /\ inbox'[w] = inbox[w] \/ inbox'[w] = Append(inbox[w], Quit)
        /\ outbox'[w] = outbox[w] \/ outbox'[w] = <<>>
    BY <1>d, ShutdownKeeps
  <2>2. inbox'[w] = inbox[w] \/ \E e \in Tasks \cup {Quit} : inbox'[w] = Append(inbox[w], e)
    BY <2>1
  <2>3. QED
    BY <1>a, <1>d, <2>1, <2>2, MarksQuiet
<1>1. ASSUME NEW t \in Tasks, AddForTask(t) PROVE Marks(w)
  BY <1>a, <1>1, MarksSpawn DEF AddForTask
<1>2. ASSUME NEW t \in Tasks, SendJobTo(t) PROVE Marks(w)
  <2>1. UNCHANGED <<proc, outbox, host, timer, created>>
    BY <1>2 DEF SendJobTo
  <2>2. inbox'[w] = inbox[w] \/ inbox'[w] = Append(inbox[w], t)
    BY <1>a, <1>2 DEF SendJobTo, SendJob
  <2>3. inbox'[w] = inbox[w] \/ \E e \in Tasks \cup {Quit} : inbox'[w] = Append(inbox[w], e)
    BY <2>2
  <2>4. QED
    BY <1>a, <2>1, <2>3, MarksQuiet
<1>3. ASSUME NEW t \in Tasks, ReadReply(t) PROVE Marks(w)
  <2>1. UNCHANGED <<proc, inbox, host, timer, created>>
    BY <1>3 DEF ReadReply
  <2>2. outbox'[w] = outbox[w] \/ (outbox[w] # <<>> /\ outbox'[w] = Tail(outbox[w]))
    BY <1>a, <1>3 DEF ReadReply
  <2>3. QED
    BY <1>a, <2>1, <2>2, MarksQuiet
<1>4. ASSUME NEW t \in Tasks, Retire(t) PROVE Marks(w)
  BY <1>d, <1>4 DEF Retire, poolVars
<1>5. ASSUME NEW t \in Tasks, ReplaceDead(t) PROVE Marks(w)
  <2>1. held[t] <= created
    BY <1>b, <1>5 DEF ReplaceDead, HasWorker, Holding
  <2>2. QED
    BY <1>5, <2>1, MarksSpawn DEF ReplaceDead
<1>6. ASSUME NEW t \in Tasks, ReplaceWornOut(t) \/ ReplaceHeavy(t) PROVE Marks(w)
  <2>1. held[t] <= created /\ ReplaceLive(t)
    BY <1>b, <1>6 DEF ReplaceWornOut, ReplaceHeavy, HasWorker, Holding
  <2>2. QED
    BY <2>1, MarksSpawn DEF ReplaceLive
<1>7. ASSUME NEW t \in Tasks, KillBroken(t) PROVE Marks(w)
  <2>1. held[t] <= created
    BY <1>b, <1>7 DEF KillBroken, HasWorker
  <2>2. QED
    BY <1>7, <2>1, MarksEnd DEF KillBroken, KillTree, poolVars
<1>8. ASSUME NEW t \in Tasks, CallerKills(t) \/ ShutdownKill(t) PROVE Marks(w)
  <2>1. CancelAndKill(t) /\ pid[t] <= created
    BY <1>8 DEF CallerKills, ShutdownKill, UnusedOK
  <2>2. QED
    BY <1>c, <2>1, MarksEnd DEF CancelAndKill, KillTree, poolVars
<1>9. ASSUME ShutdownIdle \/ ClearTakes PROVE Marks(w)
  BY <1>d, <1>9 DEF ShutdownIdle, ClearTakes
<1>10. ASSUME NEW v \in Workers, ShutdownBusy(v) PROVE Marks(w)
  BY <1>d, <1>10 DEF ShutdownBusy, poolVars
<1>11. ASSUME UNCHANGED workerVars PROVE Marks(w)
  <2>1. created' \in Nat /\ created <= created'
    <3>1. created' = created \/ created' = created + 1
      BY OwnerFrame DEF Take, PutBack, SameIdle, Grows
    <3>2. QED
      BY <1>a, <3>1
  <2>2. QED
    BY <1>11, <2>1, MarksQuiet DEF workerVars
<1>12. QED
  BY <1>1, <1>2, <1>3, <1>4, <1>5, <1>6, <1>7, <1>8, <1>9, <1>10, <1>11, MarksProcess,
     WorkerFrame

LEMMA UnusedStep ==
  ASSUME TypeInv, OwnerInv, TimerOK, SentInv, UnusedOK, [Next]_vars
  PROVE  UnusedOK'
<1>a. /\ created \in Nat /\ Workers \subseteq Nat /\ pid \in [Tasks -> Workers \cup {0}]
      /\ ok \in [Workers -> BOOLEAN] /\ TypeInv'
  BY TypeStep DEF TypeInv, PoolTypeOK, FutureTypeOK, Workers
<1>b. \A t \in Tasks : pc[t] \in HasWorker => held[t] \in Workers /\ held[t] <= created
  BY DEF OwnerInv, OwnedOK, TypeInv, ThreadInv, HeldOK
<1>1. created' = created \/ created' = created + 1
  BY OwnerFrame DEF Take, PutBack, SameIdle, Grows
<1>2. ASSUME NEW w \in Workers, w > created' PROVE ok'[w]
  <2>1. w > created /\ ok[w]
    BY <1>a, <1>1, <1>2 DEF UnusedOK
  <2>2. ASSUME NEW t \in Tasks, SendBroken(t) \/ ReadReply(t) PROVE ok'[w]
    <3>1. held[t] \in Workers /\ held[t] <= created
      BY <1>b, <2>2 DEF SendBroken, ReadReply, HasWorker, Holding
    <3>2. held[t] # w
      BY <1>a, <2>1, <3>1
    <3>3. QED
      BY <1>a, <2>1, <2>2, <3>2 DEF SendBroken, ReadReply
  <2>3. QED
    BY <2>1, <2>2, OkFrame
<1>3. ASSUME NEW t \in Tasks PROVE pid'[t] <= created'
  <2>1. pid[t] <= created /\ pid[t] \in Nat
    <3>1. pid[t] <= created
      BY DEF UnusedOK
    <3>2. pid[t] \in Workers \cup {0}
      BY <1>a
    <3>3. pid[t] \in Nat
      BY <3>2 DEF Workers
    <3>4. QED
      BY <3>1, <3>3
  <2>2. ASSUME NEW u \in Tasks, Publish(u) PROVE pid'[t] = pid[t] \/ pid'[t] = held[u]
    BY <1>a, <2>2 DEF Publish
  <2>3. ASSUME NEW u \in Tasks, Publish(u) PROVE held[u] \in Nat /\ held[u] <= created
    BY <1>a, <1>b, <2>3 DEF Publish, HasWorker, Holding
  <2>4. UNCHANGED pid \/ \E u \in Tasks : Publish(u)
    BY FutureFrame DEF futureVars, SendUnpicklable, ReadReply, ReadEof, CheckDead, WorkerDied,
       ForceResult, KillBroken, CallerCancels, CallerKills, CancelAndKill, RunnerCancel,
       CancelFirst, ShutdownCancel, ShutdownKill
  <2>5. \/ pid'[t] = pid[t]
        \/ \E u \in Tasks : pid'[t] = held[u] /\ held[u] \in Nat /\ held[u] <= created
    BY <2>2, <2>3, <2>4
  <2>6. pid'[t] \in Nat /\ pid'[t] <= created
    BY <2>1, <2>5
  <2>7. QED
    BY <1>a, <1>1, <2>6
<1>4. QED
  BY <1>2, <1>3, MarksStep DEF UnusedOK, Marks

LEMMA MarkStep ==
  ASSUME TypeInv, OwnerInv, TimerOK, SentInv, UnusedOK, MarkOK, [Next]_vars
  PROVE  MarkOK'
<1> SUFFICES ASSUME NEW w \in Workers, Warned(w)' \/ ~ok'[w] PROVE Doomed(w)'
  BY DEF MarkOK
<1>a. ok \in [Workers -> BOOLEAN] /\ Marks(w)
  BY MarksStep DEF TypeInv, PoolTypeOK
<1>1. CASE Warned(w)'
  BY <1>1, <1>a DEF Marks, MarkOK
<1>2. CASE ~ok[w]
  BY <1>2, <1>a DEF Marks, MarkOK
<1>3. CASE ok[w] /\ ~ok'[w]
  <2>1. ASSUME NEW t \in Tasks, SendBroken(t) PROVE Doomed(w)
    <3>1. w = held[t] /\ PipeBroken(held[t])
      BY <1>a, <1>3, <2>1 DEF SendBroken
    <3>2. QED
      BY <3>1 DEF Doomed
  <2>2. ASSUME NEW t \in Tasks, ReadReply(t) PROVE Doomed(w)
    <3>1. w = held[t] /\ outbox[w] # <<>> /\ Head(outbox[w]).kind = "timeout"
      BY <1>a, <1>3, <2>2 DEF ReadReply
    <3>2. outbox[w] \in Seq(Message)
      BY PipeType
    <3>3. Head(outbox[w]) \in Timeouts
      BY <3>1, <3>2 DEF Timeouts
    <3>4. Warned(w)
      BY <3>1, <3>2, <3>3, NoneStays DEF Warned
    <3>5. QED
      BY <3>4 DEF MarkOK
  <2>3. QED
    BY <1>a, <1>3, <2>1, <2>2, OkFrame DEF Marks
<1>4. QED
  BY <1>1, <1>2, <1>3

-----------------------------------------------------------------------------
(* What shutdown() leaves behind.                                           *)

\* Every running process is someone's to end: it was told or is doomed, it waits
\* in the idle queue, it is busy, shutdown has copied it, or a thread holds it.
Waits(w)  == \E i \in 1 .. Len(workers) : workers[i] = w
Tended(w) == \/ Told(w) \/ Doomed(w)
             \/ Waits(w) \/ w \in busy_workers \/ (spc = "busy" /\ w \in todo)
             \/ \E t \in Tasks : Has(t, w)
TendedOK == \A w \in Workers : proc[w] \in Running => Tended(w)
EmptiedOK == /\ spc \in {"busy", "done"} => workers = <<>> /\ busy_workers = {}
             /\ spc = "done" => todo = {}

LeaveInv == StartInv /\ UnusedOK /\ MarkOK /\ TendedOK /\ EmptiedOK

\* worker.shutdown() tells a running process to exit.
LEMMA ShutdownTells ==
  ASSUME TypeInv, NEW w \in Workers, proc[w] \in Running, ShutdownWorker(w)
  PROVE  Told(w)'
<1>1. inbox[w] \in Seq(Tasks \cup {Quit}) /\ inbox \in [Workers -> Seq(Tasks \cup {Quit})]
  BY DEF TypeInv, WorkerInv, WorkerTypeOK
<1>2. inbox'[w] = Append(inbox[w], Quit)
  BY <1>1 DEF ShutdownWorker, IsAlive, PipeBroken, Running
<1>3. Len(inbox[w]) + 1 \in 1 .. Len(inbox'[w]) /\ inbox'[w][Len(inbox[w]) + 1] = Quit
  BY <1>1, <1>2
<1>4. QED
  BY <1>3 DEF Told, None

\* How a run_task thread parts with its worker.
Parts(t) == \/ SendUnpicklable(t) \/ SendRaises(t) \/ Retire(t) \/ ReplaceDead(t)
            \/ ReplaceWornOut(t) \/ ReplaceHeavy(t) \/ PutBack(t) \/ WeighFails(t)
            \/ KillBroken(t)
LEMMA ThreadParts ==
  ASSUME TypeInv, NEW t \in Tasks, ThreadStep(t), pc[t] \in HasWorker
  PROVE  Parts(t) \/ (pc'[t] \in HasWorker /\ UNCHANGED held)
<1>a. pc \in [Tasks -> ThreadPc]
  BY DEF TypeInv, ThreadInv, ThreadTypeOK
<1> USE DEF HasWorker, Holding, Goto, Parts
<1>1. CASE CountBusy(t) \/ CountIdle(t) \/ AddForTask(t) \/ Take(t)
  BY <1>1 DEF CountBusy, CountIdle, AddForTask, Take
<1>2. CASE Claim(t) \/ SendDeclined(t) \/ SendBroken(t) \/ SendJobTo(t) \/ Publish(t)
  BY <1>a, <1>2 DEF Claim, SendDeclined, SendBroken, SendJobTo, Publish
<1>3. CASE ReadReply(t) \/ ReadEof(t) \/ PollEmpty(t) \/ CheckAlive(t) \/ CheckDead(t)
  BY <1>a, <1>3 DEF ReadReply, ReadEof, PollEmpty, CheckAlive, CheckDead, WorkerDied
<1>4. CASE Release(t) \/ ReleaseIdle(t) \/ Keep(t) \/ Weigh(t)
  BY <1>a, <1>4 DEF Release, ReleaseIdle, Keep, Weigh
<1>5. CASE TaskDone(t) \/ FreeSlot(t) \/ NoResult(t) \/ ForceResult(t)
  BY <1>5 DEF TaskDone, FreeSlot, NoResult, ForceResult
<1>6. QED
  BY <1>1, <1>2, <1>3, <1>4, <1>5 DEF ThreadStep

\* A worker that a thread parts with is put back, told to exit, doomed, or left
\* among the busy ones for shutdown to find.
LEMMA PartedTended ==
  ASSUME LeaveInv, [Next]_vars, NEW t \in Tasks, Parts(t), NEW w \in Workers, Has(t, w),
         proc[w] \in Running, proc'[w] \in Running
  PROVE  Tended(w)'
<1>a. /\ TypeInv /\ OwnerInv /\ ReleaseFindsWorker /\ TimerOK /\ SentInv /\ UnusedOK /\ MarkOK
      /\ workers \in Seq(Workers) /\ w = held[t]
  BY DEF LeaveInv, StartInv, OutcomeInv, SafetyInv, PipeInv, TypeInv, PoolTypeOK, Has
<1>b. Marks(w)
  BY <1>a, MarksStep
<1>1. CASE SendUnpicklable(t) \/ SendRaises(t)
  <2>1. pc[t] = "send" /\ UNCHANGED busy_workers
    BY <1>1 DEF SendUnpicklable, SendRaises
  <2>2. QED
    BY <1>a, <2>1 DEF ReleaseFindsWorker, Tended
<1>2. CASE Retire(t) \/ ReplaceWornOut(t) \/ ReplaceHeavy(t)
  <2>1. ShutdownWorker(w)
    BY <1>a, <1>2 DEF Retire, ReplaceWornOut, ReplaceHeavy, ReplaceLive
  <2>2. QED
    BY <1>a, <2>1, ShutdownTells DEF Tended
<1>3. CASE ReplaceDead(t)
  <2>1. ~ok[w]
    BY <1>a, <1>3 DEF ReplaceDead, IsAlive
  <2>2. Doomed(w)'
    BY <1>a, <1>b, <2>1 DEF MarkOK, Marks
  <2>3. QED
    BY <2>2 DEF Tended
<1>4. CASE PutBack(t)
  <2>1. workers' = Append(workers, w)
    BY <1>a, <1>4 DEF PutBack
  <2>2. Len(workers) + 1 \in 1 .. Len(workers') /\ workers'[Len(workers) + 1] = w
    BY <1>a, <2>1
  <2>3. QED
    BY <2>2 DEF Tended, Waits
<1>5. CASE WeighFails(t)
  BY <1>a, <1>5 DEF WeighFails, IsAlive
<1>6. CASE KillBroken(t)
  BY <1>a, <1>6 DEF KillBroken, KillTree, Terminate, TypeInv, WorkerInv, WorkerTypeOK, Running
<1>7. QED
  BY <1>1, <1>2, <1>3, <1>4, <1>5, <1>6 DEF Parts

\* A worker that waits in the idle queue.
LEMMA WaitsTended ==
  ASSUME LeaveInv, [Next]_vars, NEW w \in Workers, Waits(w),
         proc[w] \in Running, proc'[w] \in Running
  PROVE  Tended(w)'
<1>a. TypeInv /\ workers \in Seq(Workers) /\ Len(workers) \in Nat
  BY DEF LeaveInv, StartInv, OutcomeInv, SafetyInv, TypeInv, PoolTypeOK
<1>1. PICK i \in 1 .. Len(workers) : workers[i] = w
  BY DEF Waits
<1>2. ASSUME NEW v \in Workers, workers' = Append(workers, v) PROVE Tended(w)'
  <2>1. i \in 1 .. Len(workers') /\ workers'[i] = w
    BY <1>a, <1>1, <1>2
  <2>2. QED
    BY <2>1 DEF Tended, Waits
<1>3. ASSUME workers # <<>>, workers' = Tail(workers), i # 1 PROVE Tended(w)'
  <2>1. i - 1 \in 1 .. Len(workers') /\ workers'[i - 1] = w
    BY <1>a, <1>1, <1>3, HeadTailProperties
  <2>2. QED
    BY <2>1 DEF Tended, Waits
<1>4. ASSUME i = 1 PROVE Head(workers) = w
  BY <1>a, <1>1, <1>4
<1>5. ASSUME NEW t \in Tasks, Take(t) PROVE Tended(w)'
  <2>1. CASE i # 1
    BY <1>3, <1>5, <2>1 DEF Take
  <2>2. CASE i = 1
    <3>1. pc'[t] = "claim" /\ held'[t] = w
      BY <1>a, <1>4, <1>5, <2>2 DEF Take, Goto, TypeInv, ThreadInv, ThreadTypeOK
    <3>2. Has(t, w)'
      BY <3>1 DEF Has, HasWorker, Holding
    <3>3. QED
      BY <3>2 DEF Tended
  <2>3. QED
    BY <2>1, <2>2
<1>6. ASSUME ShutdownIdle \/ ClearTakes PROVE Tended(w)'
  <2>1. CASE i # 1
    BY <1>3, <1>6, <2>1 DEF ShutdownIdle, ClearTakes
  <2>2. CASE i = 1
    <3>1. ShutdownWorker(w)
      BY <1>4, <1>6, <2>2 DEF ShutdownIdle, ClearTakes
    <3>2. QED
      BY <1>a, <3>1, ShutdownTells DEF Tended
  <2>3. QED
    BY <2>1, <2>2
<1>7. ASSUME UNCHANGED workers PROVE Tended(w)'
  BY <1>7 DEF Tended, Waits
<1>8. ASSUME AddWorker PROVE Tended(w)'
  <2>1. created + 1 \in Workers /\ workers' = Append(workers, created + 1)
    BY <1>8, <1>a DEF AddWorker, TypeInv, PoolTypeOK, Workers
  <2>2. QED
    BY <1>2, <2>1
<1>9. ASSUME NEW t \in Tasks, PutBack(t) PROVE Tended(w)'
  <2>1. pc[t] \in HasWorker /\ workers' = Append(workers, held[t])
    BY <1>9 DEF PutBack, HasWorker, Holding
  <2>2. held[t] \in Workers
    BY <1>a, <2>1 DEF TypeInv, ThreadInv, HeldOK
  <2>3. QED
    BY <1>2, <2>1, <2>2
<1>10. QED
  BY <1>5, <1>6, <1>7, <1>8, <1>9, PoolFrame
     DEF poolVars, AddForTask, Claim, SendUnpicklable, SendRaises, SendBroken, SendJobTo,
         ReadReply, Release, ReplaceDead, ReplaceWornOut, ReplaceHeavy, ReplaceLive, SnapshotBusy

\* A worker among the busy ones, or that shutdown copied from there.
LEMMA BusyTended ==
  ASSUME LeaveInv, [Next]_vars, NEW w \in Workers,
         w \in busy_workers \/ (spc = "busy" /\ w \in todo),
         proc[w] \in Running, proc'[w] \in Running
  PROVE  Tended(w)'
<1>a. TypeInv /\ pc \in [Tasks -> ThreadPc]
  BY DEF LeaveInv, StartInv, OutcomeInv, SafetyInv, TypeInv, ThreadInv, ThreadTypeOK
<1>1. CASE w \in busy_workers
  <2>1. ASSUME NEW t \in Tasks, Release(t), w \notin busy_workers' PROVE Tended(w)'
    <3>1. pc'[t] = "release_idle" /\ held' = held /\ held[t] = w
      BY <1>a, <1>1, <2>1 DEF Release, Goto
    <3>2. Has(t, w)'
      BY <3>1 DEF Has, HasWorker, Holding
    <3>3. QED
      BY <3>2 DEF Tended
  <2>2. ASSUME SnapshotBusy PROVE Tended(w)'
    BY <1>1, <2>2 DEF SnapshotBusy, ShutdownGoto, Tended
  <2>3. ASSUME w \in busy_workers' PROVE Tended(w)'
    BY <2>3 DEF Tended
  <2>4. w \in busy_workers' \/ SnapshotBusy \/ \E t \in Tasks : Release(t)
    BY <1>1, PoolFrame
       DEF poolVars, AddForTask, Take, Claim, SendUnpicklable, SendRaises, SendBroken, SendJobTo,
           ReadReply, ReplaceDead, ReplaceWornOut, ReplaceHeavy, ReplaceLive, PutBack,
           ShutdownIdle, ClearTakes
  <2>5. QED
    BY <2>1, <2>2, <2>3, <2>4
<1>2. CASE spc = "busy" /\ w \in todo
  <2>1. ASSUME ShutdownBusy(w) PROVE Tended(w)'
    BY <1>a, <2>1, ShutdownTells DEF ShutdownBusy, Tended
  <2>2. ASSUME NEW v \in Workers, ShutdownBusy(v), v # w PROVE spc' = "busy" /\ w \in todo'
    BY <1>2, <2>2 DEF ShutdownBusy
  <2>3. \/ spc' = "busy" /\ w \in todo'
        \/ \E v \in Workers : ShutdownBusy(v)
    BY <1>2, CallerFrame
       DEF callerVars, shutdownVars, ShutdownKill, ShutdownCancelled, PutSentinel, SentinelFull,
           SnapshotRunning, ShutdownKilled, ShutdownJoin, ShutdownIdle, JoinWorker, SnapshotBusy,
           ShutdownReturns, ClearWorkers, ClearTests, ClearTakes, ShutdownBegin, ShutdownGoto
  <2>4. QED
    BY <2>1, <2>2, <2>3 DEF Tended
<1>3. QED
  BY <1>1, <1>2

\* No step leaves a running process to nobody.
LEMMA TendedStep ==
  ASSUME LeaveInv, [Next]_vars
  PROVE  TendedOK'
<1> SUFFICES ASSUME NEW w \in Workers, proc'[w] \in Running PROVE Tended(w)'
  BY DEF TendedOK
<1>a. /\ TypeInv /\ OwnerInv /\ TimerOK /\ SentInv /\ UnusedOK /\ TendedOK
      /\ workers \in Seq(Workers) /\ created \in Nat
  BY DEF LeaveInv, StartInv, OutcomeInv, SafetyInv, PipeInv, TypeInv, PoolTypeOK
<1>b. Marks(w)
  BY <1>a, MarksStep
<1>1. CASE proc[w] \notin Running
  <2>1. created + 1 = w /\ workers' = Append(workers, created + 1)
    BY <1>b, <1>1 DEF Marks, Grows
  <2>2. Len(workers) + 1 \in 1 .. Len(workers') /\ workers'[Len(workers) + 1] = w
    BY <1>a, <2>1
  <2>3. QED
    BY <2>2 DEF Tended, Waits
<1>2. CASE proc[w] \in Running
  <2>1. ASSUME Told(w) \/ Doomed(w) PROVE Tended(w)'
    BY <2>1, <1>b DEF Marks, Tended, Doomed
  <2>2. ASSUME NEW t \in Tasks, Has(t, w) PROVE Tended(w)'
    <3>1. CASE Parts(t)
      BY <1>2, <2>2, <3>1, PartedTended
    <3>2. CASE ~Parts(t)
      <4>1. pc'[t] \in HasWorker /\ held'[t] = held[t]
        <5>1. CASE ThreadStep(t)
          BY <1>a, <2>2, <3>2, <5>1, ThreadParts DEF Has
        <5>2. CASE ~ThreadStep(t)
          <6>1. pc[t] \notin Submitting \cup {"queued"}
            BY <2>2 DEF Has, HasWorker, Holding, Submitting
          <6>2. QED
            BY <1>a, <2>2, <5>2, <6>1, OthersMove DEF Has
        <5>3. QED
          BY <5>1, <5>2
      <4>2. Has(t, w)'
        BY <2>2, <4>1 DEF Has
      <4>3. QED
        BY <4>2 DEF Tended
    <3>3. QED
      BY <3>1, <3>2
  <2>3. Tended(w)
    BY <1>a, <1>2 DEF TendedOK
  <2>4. QED
    BY <1>2, <2>1, <2>2, <2>3, WaitsTended, BusyTended DEF Tended
<1>3. QED
  BY <1>1, <1>2

\* Behind join() the idle queue and the set of busy workers only shrink.
LEMMA EmptiedStep ==
  ASSUME LeaveInv, [Next]_vars
  PROVE  EmptiedOK'
<1>a. EmptiedOK /\ (spc \in {"idle", "busy", "done"} => Owed = {})
  BY DEF LeaveInv, StartInv, OutcomeInv, SafetyInv, ShutdownInv, ShutdownWaits
<1>1. ASSUME NEW t \in Tasks, ThreadStep(t), spc \in {"busy", "done"}
      PROVE  UNCHANGED <<workers, busy_workers, spc, todo>>
  <2>1. pc[t] \notin Owing
    BY <1>a, <1>1 DEF Owed, Owing, ThreadsIn
  <2>2. FreeSlot(t) \/ NoResult(t) \/ ForceResult(t)
    BY <1>1, <2>1 DEF Owing, Working, Getting, Holding, Ending, ThreadStep, CountBusy, CountIdle,
       AddForTask, Take, Claim, SendDeclined, SendUnpicklable, SendRaises, SendBroken, SendJobTo,
       Publish, ReadReply, ReadEof, PollEmpty, CheckAlive, CheckDead, Release, ReleaseIdle,
       Retire, Keep, ReplaceDead, ReplaceWornOut, Weigh, WeighFails, ReplaceHeavy, PutBack,
       KillBroken, TaskDone
  <2>3. QED
    BY <2>2 DEF FreeSlot, NoResult, ForceResult, poolVars, callerVars, shutdownVars
<1>2. ASSUME spc \in {"busy", "done"} PROVE UNCHANGED <<workers, busy_workers>>
  <2>1. ASSUME ~\E t \in Tasks : ThreadStep(t) PROVE UNCHANGED <<workers, busy_workers>>
    <3>1. UNCHANGED poolVars \/ ShutdownIdle \/ SnapshotBusy \/ ClearTakes
      BY <2>1, PoolFrame DEF ThreadStep
    <3>2. QED
      BY <1>2, <1>a, <3>1 DEF EmptiedOK, ShutdownIdle, SnapshotBusy, ClearTakes, poolVars
  <2>2. QED
    BY <1>1, <1>2, <2>1
<1>3. \/ UNCHANGED spc /\ (spc = "done" => UNCHANGED todo)
      \/ spc' \notin {"busy", "done"} \/ SnapshotBusy \/ ShutdownReturns
  BY CallerFrame
     DEF callerVars, shutdownVars, ShutdownKill, ShutdownCancelled, PutSentinel, SentinelFull,
         SnapshotRunning, ShutdownKilled, ShutdownJoin, ShutdownIdle, JoinWorker, ShutdownBusy,
         ClearWorkers, ClearTests, ClearTakes, ShutdownBegin, ShutdownGoto
<1>4. CASE SnapshotBusy
  BY <1>4 DEF SnapshotBusy, ShutdownGoto, EmptiedOK
<1>5. CASE ShutdownReturns
  BY <1>5, <1>a DEF ShutdownReturns, ShutdownGoto, EmptiedOK, poolVars
<1>6. CASE UNCHANGED spc /\ (spc = "done" => UNCHANGED todo)
  BY <1>2, <1>6, <1>a DEF EmptiedOK
<1>7. QED
  BY <1>3, <1>4, <1>5, <1>6 DEF EmptiedOK

LEMMA LeaveInit == Init => LeaveInv
<1> SUFFICES ASSUME Init PROVE LeaveInv
  OBVIOUS
<1>1. /\ \A w \in Workers : /\ outbox[w] = <<>> /\ ok[w]
                            /\ proc[w] = IF w <= PoolSize THEN "waiting" ELSE "none"
      /\ \A t \in Tasks : pid[t] = 0
      /\ created = PoolSize /\ workers = [i \in 1 .. PoolSize |-> i] /\ spc = "open"
  BY DEF Init, WorkerInit
<1>2. UnusedOK
  BY <1>1 DEF UnusedOK, Workers
<1>3. MarkOK
  BY <1>1, NoneEmpty DEF MarkOK, Warned
<1>4. TendedOK
  <2>1. ASSUME NEW w \in Workers, proc[w] \in Running PROVE w \in 1 .. Len(workers) /\ workers[w] = w
    BY <1>1, <2>1 DEF Workers, Running
  <2>2. QED
    BY <2>1 DEF TendedOK, Tended, Waits
<1>5. QED
  BY <1>1, <1>2, <1>3, <1>4, StartInit DEF LeaveInv, EmptiedOK

LEMMA LeaveStep == LeaveInv /\ [Next]_vars => LeaveInv'
<1> SUFFICES ASSUME LeaveInv, [Next]_vars PROVE LeaveInv'
  OBVIOUS
<1>1. TypeInv /\ OwnerInv /\ TimerOK /\ SentInv /\ UnusedOK /\ MarkOK
  BY DEF LeaveInv, StartInv, OutcomeInv, SafetyInv, PipeInv
<1>2. UnusedOK' /\ MarkOK'
  BY <1>1, UnusedStep, MarkStep
<1>3. QED
  BY <1>2, StartStep, TendedStep, EmptiedStep DEF LeaveInv

\* When shutdown(wait=True) returns, every worker process that still runs has a
\* None in its pipe, or its own timer is about to kill it.
THEOREM NoWorkerIsLeft == Spec => []ShutdownLeavesNoWorker
<1>1. ASSUME LeaveInv PROVE ShutdownLeavesNoWorker
  <2> SUFFICES ASSUME spc = "done", NEW w \in Workers, proc[w] \in Running
               PROVE  \/ \E i \in 1 .. Len(inbox[w]) : inbox[w][i] = Quit
                      \/ \E t \in Tasks : host[t] = w /\ timer[t] = "sent"
    BY DEF ShutdownLeavesNoWorker
  <2>1. Tended(w) /\ workers = <<>> /\ busy_workers = {} /\ Owed = {}
    BY <1>1 DEF LeaveInv, TendedOK, EmptiedOK, StartInv, OutcomeInv, SafetyInv, ShutdownInv,
                ShutdownWaits
  <2>2. ~Waits(w)
    BY <2>1 DEF Waits
  <2>3. \A t \in Tasks : ~Has(t, w)
    BY <2>1 DEF Has, HasWorker, Owed, ThreadsIn, Working, Ending, Holding
  <2>4. ~PipeBroken(w)
    BY DEF PipeBroken, Running
  <2>5. Told(w) \/ \E t \in Tasks : Fated(t, w)
    BY <2>1, <2>2, <2>3, <2>4 DEF Tended, Doomed
  <2>6. QED
    BY <2>5 DEF Told, None, Fated
<1>2. QED
  BY <1>1, LeaveInit, LeaveStep, PTL DEF Spec

-----------------------------------------------------------------------------
(* The pool implements TaskPool.                                           *)

\* A job that was written has its pid published, but for the moment between; a
\* task in a worker's hand, or that a reply is about, has started; and a future
\* without an outcome is as it was made.
Unbegun     == {m \in Message : host[m.of] = 0}
PublishedOK == \A t \in Tasks : /\ Sent(t) /\ pc[t] # "publish" => pid[t] # 0
                                /\ pc[t] \in Submitting \cup {"queued"} => pid[t] = 0
BegunOK     == \A w \in Workers : /\ cur[w] # Quit => host[cur[w]] # 0
                                  /\ None(outbox[w], Unbegun)
PendingOK   == \A t \in Tasks : Done(t) \/ fut[t] = Pending

CallerInv == StartInv /\ PublishedOK /\ BegunOK /\ PendingOK

\* What has started has started for good.
LEMMA HostStays ==
  ASSUME TypeInv, [Next]_vars, NEW t \in Tasks, host[t] # 0
  PROVE  host'[t] # 0
<1>1. ASSUME NEW w \in Workers, Recv(w), Head(inbox[w]) = t PROVE host'[t] # 0
  BY <1>1 DEF Recv, TypeInv, WorkerInv, WorkerTypeOK, Workers
<1>2. QED
  BY <1>1, HostMoves

\* A worker only writes about a task that has started.
LEMMA OutboxMoves ==
  ASSUME TypeInv, TimerOK, BegunOK, [Next]_vars, NEW w \in Workers
  PROVE  \/ outbox'[w] = outbox[w] \/ outbox'[w] = <<>>
         \/ outbox[w] # <<>> /\ outbox'[w] = Tail(outbox[w])
         \/ \E m \in Message \ Unbegun : outbox'[w] = Append(outbox[w], m)
<1>a. outbox \in [Workers -> Seq(Message)] /\ cur \in [Workers -> Tasks \cup {Quit}]
  BY DEF TypeInv, WorkerInv, WorkerTypeOK
<1>b. ASSUME NEW v, NEW t \in Tasks, NEW k \in Kind, host[t] # 0, Reply(v, t, k)
      PROVE  \/ outbox'[w] = outbox[w]
             \/ \E m \in Message \ Unbegun : outbox'[w] = Append(outbox[w], m)
  <2>1. [of |-> t, kind |-> k] \in Message \ Unbegun
    BY <1>b DEF Message, Unbegun
  <2>2. outbox'[w] = outbox[w] \/ outbox'[w] = Append(outbox[w], [of |-> t, kind |-> k])
    BY <1>a, <1>b DEF Reply
  <2>3. QED
    BY <2>1, <2>2
<1>1. ASSUME NEW v \in Workers, Finish(v)
      PROVE  \/ outbox'[w] = outbox[w]
             \/ \E m \in Message \ Unbegun : outbox'[w] = Append(outbox[w], m)
  <2>1. cur[v] \in Tasks /\ host[cur[v]] # 0
    <3>1. cur[v] \in Tasks
      BY <1>1 DEF Finish, TypeInv, WorkerInv, CurOK
    <3>2. cur[v] # Quit
      BY <3>1 DEF Quit
    <3>3. QED
      BY <3>1, <3>2 DEF BegunOK
  <2>2. UNCHANGED outbox \/ Reply(v, cur[v], "result") \/ Reply(v, cur[v], "error")
    BY <1>1 DEF Finish
  <2>3. QED
    BY <1>b, <2>1, <2>2 DEF Kind
<1>2. ASSUME NEW t \in Tasks, TimerReports(t)
      PROVE  \/ outbox'[w] = outbox[w]
             \/ \E m \in Message \ Unbegun : outbox'[w] = Append(outbox[w], m)
  <2>1. host[t] # 0 /\ Reply(host[t], t, "timeout")
    BY <1>2 DEF TimerReports, TimerOK, Workers
  <2>2. QED
    BY <1>b, <2>1 DEF Kind
<1>3. CASE ProcessStep
  BY <1>1, <1>2, <1>3 DEF ProcessStep, WorkerStep, TimerStep, Recv, DeactivateTimer, ExitOnNone,
     Reap, Die, TimerFires, TimerKills
<1>4. ASSUME NEW v, ShutdownWorker(v) PROVE outbox'[w] = outbox[w] \/ outbox'[w] = <<>>
  BY <1>4, ShutdownKeeps
<1>5. ASSUME NEW t \in Tasks, ReadReply(t)
      PROVE  outbox'[w] = outbox[w] \/ (outbox[w] # <<>> /\ outbox'[w] = Tail(outbox[w]))
  BY <1>a, <1>5 DEF ReadReply
<1>6. QED
  BY <1>3, <1>4, <1>5, WorkerFrame
     DEF workerVars, AddForTask, SendJobTo, Retire, ReplaceDead, ReplaceWornOut, ReplaceHeavy,
         ReplaceLive, KillBroken, CallerKills, ShutdownKill, CancelAndKill, ShutdownIdle,
         ClearTakes, ShutdownBusy

LEMMA BegunStep ==
  ASSUME TypeInv, TimerOK, BegunOK, [Next]_vars
  PROVE  BegunOK'
<1> SUFFICES ASSUME NEW w \in Workers
             PROVE  /\ cur'[w] # Quit => host'[cur'[w]] # 0
                    /\ None(outbox'[w], Unbegun')
  BY DEF BegunOK
<1>1. ASSUME cur'[w] # Quit PROVE host'[cur'[w]] # 0
  <2>1. PICK t \in Tasks : t = cur'[w]
    BY <1>1, TypeStep DEF TypeInv, WorkerInv, WorkerTypeOK
  <2>2. CASE cur[w] = t
    BY <1>1, <2>1, <2>2, HostStays DEF BegunOK
  <2>3. ASSUME NEW v \in Workers, Recv(v), Head(inbox[v]) = t PROVE host'[t] # 0
    BY <2>3 DEF Recv, TypeInv, WorkerInv, WorkerTypeOK, Workers
  <2>4. QED
    BY <2>1, <2>2, <2>3, HostMoves
<1>2. None(outbox'[w], Unbegun')
  <2>1. Unbegun' \subseteq Unbegun
    BY HostStays DEF Unbegun, Message
  <2>2. None(outbox[w], Unbegun) /\ outbox[w] \in Seq(Message)
    BY PipeType DEF BegunOK
  <2>3. ASSUME NEW m \in Message \ Unbegun PROVE None(Append(outbox[w], m), Unbegun)
    BY <2>2, NoneStays
  <2>4. outbox[w] # <<>> => None(Tail(outbox[w]), Unbegun)
    BY <2>2, NoneStays
  <2>5. None(outbox'[w], Unbegun)
    BY <2>2, <2>3, <2>4, OutboxMoves, NoneEmpty
  <2>6. QED
    BY <2>1, <2>5 DEF None
<1>3. QED
  BY <1>1, <1>2

\* run_task publishes the pid right after it has written the job.
LEMMA PidStays ==
  ASSUME TypeInv, [Next]_vars, NEW t \in Tasks, pc[t] # "publish"
  PROVE  pid'[t] = pid[t]
<1>1. ASSUME NEW u \in Tasks, Publish(u) PROVE pid'[t] = pid[t]
  BY <1>1 DEF Publish, TypeInv, FutureTypeOK
<1>2. UNCHANGED pid \/ \E u \in Tasks : Publish(u)
  BY FutureFrame DEF futureVars, SendUnpicklable, ReadReply, ReadEof, CheckDead, WorkerDied,
     ForceResult, KillBroken, CallerCancels, CallerKills, CancelAndKill, RunnerCancel,
     CancelFirst, ShutdownCancel, ShutdownKill
<1>3. QED
  BY <1>1, <1>2

\* Where submit(), the runner and a draining shutdown move a task.
LEMMA BacklogMoves ==
  ASSUME TypeInv, [Next]_vars, NEW t \in Tasks, ~ThreadStep(t)
  PROVE  \/ pc'[t] = pc[t]
         \/ pc[t] \in Submitting /\ pc'[t] \in {"putting", "queued", "rejected"}
         \/ pc[t] = "queued" /\ pc'[t] = "count_busy" /\ ~Done(t)
         \/ pc[t] = "queued" /\ pc'[t] = "end" /\ Done(t)'
<1> DEFINE Goal == \/ pc'[t] = pc[t]
                   \/ pc[t] \in Submitting /\ pc'[t] \in {"putting", "queued", "rejected"}
                   \/ pc[t] = "queued" /\ pc'[t] = "count_busy" /\ ~Done(t)
                   \/ pc[t] = "queued" /\ pc'[t] = "end" /\ Done(t)'
<1>a. pc \in [Tasks -> ThreadPc] /\ QueuedOK /\ fut \in [Tasks -> Outcome]
  BY DEF TypeInv, ThreadInv, ThreadTypeOK, FutureTypeOK
<1>1. ASSUME NEW u \in Tasks, u # t, ThreadStep(u) PROVE Goal
  <2>1. PICK l : pc' = [pc EXCEPT ![u] = l]
    BY <1>1, ThreadMoves
  <2>2. QED
    BY <1>a, <1>1, <2>1
<1>2. ASSUME NEW u \in Tasks, SubmitStep(u) PROVE Goal
  BY <1>a, <1>2 DEF SubmitStep, Submit, SubmitRejected, Put, Goto, Submitting
<1>3. ASSUME NEW u \in Tasks, RunnerLaunch(u) \/ RunnerSkip(u) \/ CancelFirst(u) PROVE Goal
  <2>1. pc[u] = "queued"
    BY <1>a, <1>3 DEF RunnerLaunch, RunnerSkip, CancelFirst, IsFirst, QueuedOK
  <2>2. CancelFirst(u) => Done(u)'
    BY <1>a DEF CancelFirst, Cancel, Settle, Done
  <2>3. RunnerSkip(u) => Done(u)'
    BY DEF RunnerSkip, futureVars, Done
  <2>4. QED
    BY <1>a, <1>3, <2>1, <2>2, <2>3 DEF RunnerLaunch, RunnerSkip, CancelFirst, Goto
<1> HIDE DEF Goal
<1>4. pc' = pc => Goal
  BY DEF Goal
<1>5. UNCHANGED pc \/ (\E u \in Tasks : ThreadStep(u)) \/ (\E u \in Tasks :
        SubmitStep(u) \/ RunnerLaunch(u) \/ RunnerSkip(u) \/ CancelFirst(u))
  BY DEF Next, vars, threadVars, RunnerStep, RunnerAcquire, RunnerStop, RunnerStopped,
     RunnerCancel, ShutdownCancel, ShutdownStep, ShutdownKill, CancelAndKill, ShutdownBusy,
     ShutdownCancelled, PutSentinel, SentinelFull, SnapshotRunning, ShutdownKilled, ShutdownJoin,
     ShutdownIdle, JoinWorker, SnapshotBusy, ShutdownReturns, CallerCancels, CallerKills,
     ProcessStep, ShutdownBegin, ClearWorkers, ClearTests, ClearTakes, AllDone
<1>6. QED
  BY <1>1, <1>2, <1>3, <1>4, <1>5 DEF Goal

LEMMA PublishedStep ==
  ASSUME StartInv, PublishedOK, [Next]_vars
  PROVE  PublishedOK'
<1> SUFFICES ASSUME NEW t \in Tasks
             PROVE  /\ Sent(t)' /\ pc'[t] # "publish" => pid'[t] # 0
                    /\ pc'[t] \in Submitting \cup {"queued"} => pid'[t] = 0
  BY DEF PublishedOK
<1>1. TypeInv /\ OwnerInv /\ PipeInv /\ SentOK(t) /\ pc \in [Tasks -> ThreadPc]
  BY DEF StartInv, OutcomeInv, SafetyInv, SentInv, TypeInv, ThreadInv, ThreadTypeOK
<1>2. ASSUME Sent(t)', pc'[t] # "publish" PROVE pid'[t] # 0
  <2>1. ~SendJobTo(t)
    BY <1>1, <1>2 DEF SendJobTo, Goto
  <2>2. Sent(t) /\ pc[t] \notin Unsent
    BY <1>1, <1>2, <2>1, SentStays DEF SentOK
  <2>3. CASE pc[t] # "publish"
    BY <1>1, <2>2, <2>3, PidMoves DEF PublishedOK
  <2>4. CASE pc[t] = "publish"
    <3>1. ThreadStep(t)
      BY <1>1, <1>2, <2>4, OthersMove DEF Submitting
    <3>2. Publish(t)
      BY <2>4, <3>1 DEF ThreadStep, CountBusy, CountIdle, AddForTask, Take, Claim, SendDeclined,
         SendUnpicklable, SendRaises, SendBroken, SendJobTo, ReadReply, ReadEof, PollEmpty,
         CheckAlive, CheckDead, Release, ReleaseIdle, Retire, Keep, ReplaceDead, ReplaceWornOut,
         Weigh, WeighFails, ReplaceHeavy, PutBack, KillBroken, TaskDone, FreeSlot, NoResult,
         ForceResult
    <3>3. QED
      BY <1>1, <3>2, PidMoves
  <2>5. QED
    BY <2>3, <2>4
<1>3. ASSUME pc'[t] \in Submitting \cup {"queued"} PROVE pid'[t] = 0
  <2>1. ~ThreadStep(t)
    <3>1. ThreadStep(t) => pc'[t] \in Working \cup {"end"}
      BY <1>1, ThreadMoves
    <3>2. QED
      BY <1>3, <3>1 DEF Submitting, Working, Getting, Holding, Ending
  <2>2. pc[t] \in Submitting \cup {"queued"}
    BY <1>1, <1>3, <2>1, BacklogMoves DEF Submitting
  <2>3. QED
    BY <1>1, <2>2, PidStays DEF PublishedOK, Submitting
<1>4. QED
  BY <1>2, <1>3

\* A future is given an outcome once, and what it is given is true.
LEMMA FutureSettles ==
  ASSUME CallerInv, [Next]_vars, NEW t \in Tasks
  PROVE  fut'[t] = fut[t] \/ (Caller!Settles(t) /\ Done(t)')
<1>a. /\ TypeInv /\ PipeInv /\ fut \in [Tasks -> Outcome] /\ (~Done(t) => fut[t] = Pending)
      /\ BegunOK
  BY DEF CallerInv, StartInv, OutcomeInv, SafetyInv, TypeInv, FutureTypeOK, PendingOK
<1>b. ASSUME NEW u \in Tasks, NEW state \in {"cancelled", "result", "error", "timeout"}, NEW of,
             Settle(u, state, of), state \in {"result", "error"} => of = u,
             state = "result" => host[u] # 0,
             state = "timeout" => of \in Tasks /\ host[of] # 0
      PROVE  fut'[t] = fut[t] \/ (Caller!Settles(t) /\ Done(t)')
  <2>1. CASE u # t \/ Done(u)
    BY <1>a, <1>b, <2>1 DEF Settle
  <2>2. CASE u = t /\ ~Done(t)
    <3>1. fut'[t] = [state |-> state, of |-> of] /\ fut[t] = Pending
      BY <1>a, <1>b, <2>2 DEF Settle
    <3>2. fut'[t].state = state /\ fut'[t].of = of
      BY <3>1
    <3>3. QED
      BY <1>b, <2>2, <3>1, <3>2 DEF Caller!Settles, Done
  <2>3. QED
    BY <2>1, <2>2
<1>1. ASSUME NEW u \in Tasks, ReadReply(u)
      PROVE  fut'[t] = fut[t] \/ (Caller!Settles(t) /\ Done(t)')
  <2>1. PICK m : m = Head(outbox[held[u]])
    OBVIOUS
  <2>2. held[u] \in Workers /\ outbox[held[u]] # <<>> /\ Settle(u, m.kind, m.of)
    BY <1>1, <1>a, <2>1 DEF ReadReply, TypeInv, ThreadInv, HeldOK, HasWorker, Holding
  <2>3. m \in Message /\ m \notin Unbegun
    BY <1>a, <2>1, <2>2, PipeType, NoneStays DEF BegunOK
  <2>4. m.of \in Tasks /\ m.kind \in Kind /\ host[m.of] # 0
    BY <2>3 DEF Message, Unbegun
  <2>5. m.kind # "timeout" => m.of = u
    BY <1>1, <1>a, <2>1, ReplyIsOwn
  <2>6. QED
    BY <1>b, <2>2, <2>4, <2>5 DEF Kind
<1>2. ASSUME NEW u \in Tasks, Cancel(u)
      PROVE  fut'[t] = fut[t] \/ (Caller!Settles(t) /\ Done(t)')
  BY <1>b, <1>2 DEF Cancel
<1>3. ASSUME NEW u \in Tasks, Settle(u, "error", u)
      PROVE  fut'[t] = fut[t] \/ (Caller!Settles(t) /\ Done(t)')
  BY <1>b, <1>3
<1>4. QED
  BY <1>1, <1>2, <1>3, FutureFrame
     DEF futureVars, Publish, SendUnpicklable, ReadEof, CheckDead, WorkerDied, KillBroken,
         ForceResult, CallerCancels, CallerKills, CancelAndKill, RunnerCancel, CancelFirst,
         ShutdownCancel, ShutdownKill

\* StageOf, label by label.
LEMMA StageIs ==
  ASSUME NEW t \in Tasks
  PROVE  /\ pc[t] \in Submitting => StageOf(t) = "new"
         /\ pc[t] = "rejected" => StageOf(t) = "refused"
         /\ pc[t] = "queued" => StageOf(t) = "waiting"
         /\ pc[t] \in Working => StageOf(t) = "running"
         /\ pc[t] = "end" => StageOf(t) = IF pid[t] = 0 THEN "dropped" ELSE "over"
  BY DEF StageOf, Submitting, Working, Getting, Holding, Ending

LEMMA StageMoves ==
  ASSUME CallerInv, [Next]_vars, NEW t \in Tasks
  PROVE  \/ StageOf(t)' = StageOf(t)
         \/ /\ StageOf(t)' \in Caller!Follows(StageOf(t))
            /\ StageOf(t)' = "running" => fut[t] = Pending
            /\ StageOf(t)' \in {"over", "dropped"} => fut'[t] # Pending
<1>a. /\ TypeInv /\ pc \in [Tasks -> ThreadPc] /\ fut \in [Tasks -> Outcome]
      /\ (~Done(t) => fut[t] = Pending) /\ PublishedOK
  BY DEF CallerInv, StartInv, OutcomeInv, SafetyInv, TypeInv, ThreadInv, ThreadTypeOK,
         FutureTypeOK, PendingOK
<1>b. Done(t)' => fut'[t] # Pending
  BY DEF Done, Pending
<1>c. /\ pc'[t] \in Submitting => StageOf(t)' = "new"
      /\ pc'[t] = "rejected" => StageOf(t)' = "refused"
      /\ pc'[t] = "queued" => StageOf(t)' = "waiting"
      /\ pc'[t] \in Working => StageOf(t)' = "running"
      /\ pc'[t] = "end" => StageOf(t)' = IF pid'[t] = 0 THEN "dropped" ELSE "over"
  BY DEF StageOf, Submitting, Working, Getting, Holding, Ending
<1>1. CASE ThreadStep(t)
  <2>1. pc[t] \in Working /\ pc'[t] \in Working \cup {"end"}
    BY <1>1, <1>a, ThreadMoves
  <2>2. ASSUME pc'[t] = "end" PROVE Done(t)'
    <3>1. FreeSlot(t) \/ ForceResult(t)
      BY <1>1, <1>a, <2>2, ThreadMoves DEF Working, Getting, Holding, Ending
    <3>2. QED
      BY <1>a, <3>1 DEF FreeSlot, ForceResult, Settle, Done, futureVars
  <2>3. QED
    BY <1>b, <1>c, <2>1, <2>2, StageIs DEF Caller!Follows
<1>2. CASE ~ThreadStep(t) /\ pc'[t] = pc[t]
  <2>1. pc[t] = "end" => pid'[t] = pid[t]
    BY <1>a, PidStays
  <2>2. pc[t] \in Submitting \cup {"rejected", "queued", "end"} \cup Working
    BY <1>a DEF ThreadPc, Idle
  <2>3. QED
    BY <1>2, <1>c, <2>1, <2>2, StageIs
<1>3. CASE pc[t] \in Submitting /\ pc'[t] \in {"putting", "queued", "rejected"}
  BY <1>3, <1>c, StageIs DEF Submitting, Caller!Follows
<1>4. CASE pc[t] = "queued" /\ pc'[t] = "count_busy" /\ ~Done(t)
  <2>1. pc'[t] \in Working
    BY <1>4 DEF Working, Getting
  <2>2. QED
    BY <1>4, <1>a, <1>c, <2>1, StageIs DEF Caller!Follows
<1>5. CASE pc[t] = "queued" /\ pc'[t] = "end" /\ Done(t)'
  <2>1. pid'[t] = 0
    BY <1>5, <1>a, PidStays DEF PublishedOK
  <2>2. StageOf(t) = "waiting" /\ StageOf(t)' = "dropped"
    BY <1>5, <1>c, <2>1, StageIs
  <2>3. QED
    BY <1>5, <1>b, <2>1, <2>2 DEF Caller!Follows
<1>6. QED
  BY <1>1, <1>2, <1>3, <1>4, <1>5, <1>a, BacklogMoves

\* A worker starts only what the pool has given it, and only once.
LEMMA PlaceMoves ==
  ASSUME CallerInv, [Next]_vars, NEW t \in Tasks
  PROVE  \/ host'[t] = host[t]
         \/ /\ StageOf(t) \in {"running", "over"}
            /\ host[t] = 0 /\ host'[t] \in Workers
<1>a. /\ TypeInv /\ SentInv /\ pc \in [Tasks -> ThreadPc] /\ PublishedOK
      /\ host \in [Tasks -> Workers \cup {0}]
  BY DEF CallerInv, StartInv, OutcomeInv, SafetyInv, TypeInv, ThreadInv, ThreadTypeOK, WorkerInv,
         WorkerTypeOK
<1>1. ASSUME NEW w \in Workers, Recv(w), Head(inbox[w]) = t
      PROVE  /\ StageOf(t) \in {"running", "over"}
             /\ host[t] = 0 /\ host'[t] \in Workers
  <2>1. host[t] = 0 /\ host'[t] = w
    BY <1>1, <1>a, RecvFirst DEF Recv
  <2>2. inbox[w] # <<>> /\ inbox[w] \in Seq(Tasks \cup {Quit})
    BY <1>1, <1>a, PipeType DEF Recv
  <2>3. ~None(inbox[w], {t})
    BY <1>1, <2>2, NoneStays
  <2>4. Sent(t)
    BY <2>3 DEF Sent
  <2>5. pc[t] \notin Unsent /\ (pc[t] # "publish" => pid[t] # 0)
    BY <2>4, <1>a DEF SentInv, SentOK, PublishedOK
  <2>6. pc[t] \in Working \/ (pc[t] = "end" /\ pid[t] # 0)
    BY <2>5, <1>a DEF Unsent, ThreadPc, Idle, Submitting
  <2>7. QED
    BY <2>1, <2>6, StageIs
<1>2. QED
  BY <1>1, <1>a, HostMoves

LEMMA CallerInit == Init => CallerInv /\ Caller!TaskInit
<1> SUFFICES ASSUME Init PROVE CallerInv /\ Caller!TaskInit
  OBVIOUS
<1>1. /\ \A w \in Workers : inbox[w] = <<>> /\ outbox[w] = <<>> /\ cur[w] = Quit
      /\ \A t \in Tasks : host[t] = 0 /\ pc[t] = "new" /\ fut[t] = Pending /\ pid[t] = 0
      /\ host = [t \in Tasks |-> 0] /\ fut = [t \in Tasks |-> Pending]
  BY DEF Init, WorkerInit
<1>2. \A t \in Tasks : ~Sent(t)
  <2>1. \A t \in Tasks : \A w \in Workers : None(inbox[w], {t})
    BY <1>1, NoneEmpty
  <2>2. QED
    BY <1>1, <2>1 DEF Sent
<1>3. CallerInv
  BY <1>1, <1>2, StartInit, NoneEmpty DEF CallerInv, PublishedOK, BegunOK, PendingOK
<1>4. \A t \in Tasks : StageOf(t) = "new"
  BY <1>1, StageIs DEF Submitting
<1>5. QED
  BY <1>1, <1>3, <1>4 DEF Caller!TaskInit

LEMMA CallerStep == CallerInv /\ [Next]_vars => CallerInv' /\ [Caller!TaskNext]_(Caller!taskVars)
<1> SUFFICES ASSUME CallerInv, [Next]_vars
             PROVE  CallerInv' /\ [Caller!TaskNext]_(Caller!taskVars)
  OBVIOUS
<1>1. TypeInv /\ TimerOK /\ BegunOK /\ StartInv /\ PublishedOK /\ PendingOK
  BY DEF CallerInv, StartInv, OutcomeInv, SafetyInv, PipeInv
<1>2. PendingOK'
  <2>1. ASSUME NEW t \in Tasks, fut'[t] = fut[t] PROVE Done(t)' \/ fut'[t] = Pending
    BY <1>1, <2>1 DEF PendingOK, Done
  <2>2. QED
    BY <2>1, FutureSettles DEF PendingOK
<1>3. CallerInv'
  BY <1>1, <1>2, StartStep, BegunStep, PublishedStep DEF CallerInv
<1>4. Caller!TaskNext
  <2> SUFFICES ASSUME NEW t \in Tasks
               PROVE  /\ StageOf(t)' = StageOf(t) \/ Caller!Moves(t)
                      /\ host'[t] = host[t] \/ Caller!Starts(t)
                      /\ fut'[t] = fut[t] \/ Caller!Settles(t)
    BY DEF Caller!TaskNext
  <2>1. StageOf(t)' = StageOf(t) \/ Caller!Moves(t)
    BY StageMoves DEF Caller!Moves
  <2>2. host'[t] = host[t] \/ Caller!Starts(t)
    BY PlaceMoves DEF Caller!Starts
  <2>3. QED
    BY <2>1, <2>2, FutureSettles
<1>5. QED
  BY <1>3, <1>4

\* The pool implements TaskPool: to its callers the threads, retries, kills,
\* deaths and timers are invisible, but for the outcomes they lead to.
THEOREM PoolKeepsPromise == Spec => KeepsPromise
  BY CallerInit, CallerStep, PTL DEF Spec, KeepsPromise, Caller!TaskSpec
=============================================================================
