--------------------------- MODULE ClientProofs ---------------------------
(***************************************************************************)
(* Proofs about the remote client: its types and bounds, that callbacks    *)
(* are called once, that a future never goes back, and that an exception   *)
(* tells the truth about its request, for every number of requests, every  *)
(* length of the queues and every choice of faults.                        *)
(***************************************************************************)
EXTENDS Client, SequenceLemmas, FiniteSetTheorems

USE ClientAssumption

-----------------------------------------------------------------------------
(* Types, sharper than TypeOK: what is on its way to the client, which     *)
(* messages and jobs name a request, and what a job carries.               *)

Report_ == [of : Requests, what : States \ {"UNSENT"}]
Answer_ == [of : [by : Askers, on : Askers \cup {"session"}], what : Decisions]
Note    == Report_ \cup Answer_

RealMessage == {m \in Message : m.kind \in {"SUBMIT", "RESULT_ACK", "CANCEL_REQUEST"} => m.of \in Requests}
LossErrors  == {"RemoteExecutorUnavailable", "SubmissionOutcomeUnknown", "RemoteConnectionLost"}
RealJob     == [do : {"accepted", "running"}, of : Requests, what : {""}]
               \cup [do : {"complete"}, of : Requests, what : Ended]
               \cup [do : {"reject"}, of : Requests, what : {"Rejected"}]
               \cup [do : {"fail"}, of : Requests, what : LossErrors]

ServerTypeOK ==
  /\ st \in [Requests -> States]
  /\ up \subseteq {Me}
  /\ out \in [{Me} -> Seq(Note)]
  /\ wire \in Seq(RealMessage)
  /\ watermark \in Nat
  /\ acked \subseteq Requests
SubmitTypeOK ==
  /\ caller \in [Requests -> {"start", "registered", "returned", "raised"}]
  /\ number \in [Requests -> Nat]
  /\ futures \subseteq Requests
  /\ terminal_received \subseteq Requests
FutureTypeOK ==
  /\ submission_state \in [Requests -> {"LOCAL_PENDING", "SENT_UNACKNOWLEDGED",
                                        "ACCEPTED_QUEUED", "RUNNING"} \cup Final]
  /\ error \in [Requests -> Errors]
OutboundOK == outbound \in Seq(RealMessage) /\ Len(outbound) <= OutboundLimit
LinkTypeOK == failed \in BOOLEAN /\ sock \in BOOLEAN
SenderOK ==
  \/ sender.at = "send" /\ sender \in [at : {"send"}, hand : RealMessage]
  \/ sender \in [at : {"get", "exit"}, hand : Message]
ReceiverOK ==
  \/ receiver \in [at : {"job"}, hand : RealJob]
  \/ receiver \in [at : {"read", "exit"}, hand : {NoJob}]
JobsOK ==
  /\ jobs \in Seq(RealJob) /\ Len(jobs) <= Slots
  /\ lane \in {"idle", "ack", "lost"}
  /\ lane # "idle" => jobs # <<>> /\ Head(jobs).do = "complete"
LossTypeOK ==
  /\ losing \in {"none", "sender", "receiver", "lane"}
  /\ lost \subseteq Requests
  /\ verdict \in {NoJob} \cup {j \in RealJob : j.do = "fail"}
AskTypeOK ==
  /\ asking \in [Askers -> Requests \cup {"no", "session", "over"}]
  /\ answer \in [Askers -> {"none", "lost", "cancelled", "running", "terminal", "unknown", "closed"}]
CallbackTypeOK ==
  /\ callbacks \in [Requests -> {"none", "added", "taken", "queued", "submitted", "called"}]
  /\ calls \in [Requests -> Nat]
  /\ dispatch \in Seq(Askers)
  /\ dispatch_closed \in BOOLEAN
CloserTypeOK ==
  /\ closed \in BOOLEAN
  /\ closing \in {"no", "cancel", "wait", "session", "stop", "drain", "done"}
  /\ to_cancel \subseteq Requests /\ awaited \subseteq Requests

TypeInv ==
  /\ ServerTypeOK /\ SubmitTypeOK /\ FutureTypeOK /\ OutboundOK /\ LinkTypeOK
  /\ SenderOK /\ ReceiverOK /\ JobsOK /\ LossTypeOK /\ AskTypeOK
  /\ CallbackTypeOK /\ CloserTypeOK

-----------------------------------------------------------------------------
(* Callbacks.                                                              *)

CallbackFor(r) ==
  /\ calls[r] = IF callbacks[r] = "called" THEN 1 ELSE 0
  /\ Done(r) => callbacks[r] # "added"
  /\ callbacks[r] # "queued" => None(dispatch, {r})
  /\ callbacks[r] = "queued" => One(dispatch, {r}, {r})
DispatchOK ==
  /\ dispatch_closed <=> closing = "done"
  /\ ~dispatch_closed => None(dispatch, {Closer})
  /\ dispatch_closed => One(dispatch, {Closer}, {Closer}) /\ dispatch[Len(dispatch)] = Closer
CallbackInv == DispatchOK /\ \A r \in Requests : CallbackFor(r)

-----------------------------------------------------------------------------
(* The way of a request to the server and of its reports back.             *)

SubmitOf(r) == {m \in RealMessage : m.kind = "SUBMIT" /\ m.of = r}
InHand(r)   == sender.at = "send" /\ sender.hand \in SubmitOf(r)

LinkOK ==
  /\ ~sock => up = {}
  /\ failed => ~sock
  /\ losing # "none" => failed
  /\ verdict # NoJob => losing # "none"
  /\ dispatch_closed => jobs = <<>>

\* A submission is in one place, and the server has not seen it yet.
WayOK(r) ==
  /\ caller[r] # "returned" => /\ None(outbound, SubmitOf(r)) /\ ~InHand(r)
                               /\ None(wire, SubmitOf(r)) /\ st[r] = "UNSENT"
  /\ \/ None(outbound, SubmitOf(r))
     \/ /\ One(outbound, SubmitOf(r), SubmitOf(r)) /\ ~InHand(r)
        /\ None(wire, SubmitOf(r)) /\ st[r] = "UNSENT"
  /\ InHand(r) => None(wire, SubmitOf(r)) /\ st[r] = "UNSENT"
  /\ submission_state[r] = "LOCAL_PENDING" =>
       ~InHand(r) /\ None(wire, SubmitOf(r)) /\ st[r] = "UNSENT"

\* How far a report, a job and the server itself are with a request.
NoteRank(r) == [m \in {n \in Report_ : n.of = r} |-> Stage(m.what)]
JobRank(r)  == [j \in {k \in RealJob : k.of = r /\ k.do # "fail"} |->
                  CASE j.do = "accepted" -> 2 [] j.do = "running" -> 3 [] OTHER -> 4]
ServerRank(r) == IF st[r] = "UNSENT" THEN 1 ELSE Stage(st[r])
HandRanks(r)  == IF receiver.at = "job" /\ receiver.hand \in DOMAIN JobRank(r)
                 THEN {JobRank(r)[receiver.hand]} ELSE {}
NoteRanks(r)  == Ranks(out[Me], NoteRank(r))
JobRanks(r)   == Ranks(jobs, JobRank(r))

\* Reports arrive in the order of the states, and the future is behind them.
OrderOK(r) ==
  /\ Ordered(out[Me], NoteRank(r)) /\ Ordered(jobs, JobRank(r))
  /\ \A i \in JobRanks(r), j \in HandRanks(r) : i < j
  /\ \A i \in JobRanks(r) \cup HandRanks(r), j \in NoteRanks(r) : i < j
  /\ \A i \in JobRanks(r) \cup HandRanks(r) \cup NoteRanks(r) : i <= ServerRank(r)
  /\ ~Done(r) => /\ \A i \in JobRanks(r) \cup HandRanks(r) \cup NoteRanks(r) :
                        Stage(submission_state[r]) < i
                 /\ Stage(submission_state[r]) <= ServerRank(r)

-----------------------------------------------------------------------------
(* What reports, jobs, futures and exceptions say of a request.            *)

NeverSent(r) ==
  /\ st[r] = "UNSENT" /\ None(wire, SubmitOf(r))
  /\ failed \/ caller[r] = "raised" \/ (Done(r) /\ ~InHand(r))

\* The report v about r was true when it was made, and st[r] has moved on from it.
TrueReport(r, v) ==
  /\ v = "ACCEPTED_QUEUED" => st[r] \notin {"UNSENT", "REJECTED"}
  /\ v = "RUNNING" => st[r] \in {"RUNNING"} \cup AfterRun
  /\ v \in Ended \cup {"REJECTED"} => st[r] = v
TrueJob(j) ==
  /\ j.do \in {"accepted", "running"} => st[j.of] \notin {"UNSENT", "REJECTED"}
  /\ j.do = "complete" => st[j.of] = j.what
  /\ j.do = "reject" => st[j.of] = "REJECTED"
  /\ j.what = "RemoteExecutorUnavailable" => failed /\ NeverSent(j.of)
  /\ j.what = "RemoteConnectionLost" => st[j.of] \notin {"UNSENT", "REJECTED"}

TrueError(r) ==
  /\ error[r] \in {"RemoteExecutorUnavailable", "RemoteSubmissionTimeout", "CancelledLocally"}
       => NeverSent(r)
  /\ error[r] = "Rejected" => st[r] = "REJECTED"
  /\ error[r] \in Completed => st[r] \in AfterRun
  /\ error[r] = "RemoteQueueTimeout" => st[r] = "QUEUE_TIMED_OUT"
  /\ error[r] \in {"RemoteProcessError", "RemoteConnectionLost"} => st[r] \notin {"UNSENT", "REJECTED"}
  /\ submission_state[r] = "SUCCEEDED" => st[r] = "SUCCEEDED"
  /\ submission_state[r] \in {"ACCEPTED_QUEUED", "RUNNING"} => st[r] \notin {"UNSENT", "REJECTED"}

TrueNotes == {m \in Note : m \in Report_ => TrueReport(m.of, m.what)}
TrueJobs  == {j \in RealJob : TrueJob(j)}
TruthOK ==
  /\ out[Me] \in Seq(TrueNotes)
  /\ jobs \in Seq(TrueJobs)
  /\ receiver.at = "job" => receiver.hand \in TrueJobs
  /\ verdict # NoJob => verdict \in TrueJobs
  /\ \A r \in Requests : TrueError(r)

\* Nobody knows of a request that has not been registered.
JobsOf(r) == {j \in RealJob : j.of = r}
StartOK(r) ==
  caller[r] = "start" =>
    /\ submission_state[r] = "LOCAL_PENDING"
    /\ r \notin futures \cup lost \cup to_cancel
    /\ \A t \in Askers : asking[t] # r
    /\ receiver.hand.of # r /\ verdict.of # r
    /\ None(jobs, JobsOf(r))

WayInv   == LinkOK /\ \A r \in Requests : WayOK(r)
OrderInv == \A r \in Requests : OrderOK(r)
StartInv == \A r \in Requests : StartOK(r)

-----------------------------------------------------------------------------
(* The steps by the thread that takes them, with what each leaves alone.   *)

SubmitStep   == \E r \in Requests : SubmitRefused(r) \/ Register(r) \/ Enqueue(r) \/ Drop(r)
CallbackStep == \/ \E r \in Requests : AddCallback(r) \/ ScheduleCallbacks(r) \/ RunCallback(r)
                \/ DispatchCallback
AskStep      == \/ \E r \in Requests : CallerCancels(r)
                \/ CloserCancels
                \/ \E t \in Askers : Decided(t) \/ Undecided(t)
CloserMove   == \/ \E cancel \in ShutdownArgs : Shutdown(cancel)
                \/ CloserStarts \/ CloserWaits \/ CloserAsks \/ CloserAnswered
                \/ CloserCloses \/ CloserDrains
ServerStep   == ServerReads \/ LinkFails \/ \E r \in Requests : ServerWorks(r)

\* Every step of the client is one of these, or stutters.
LEMMA Steps ==
  ASSUME [Next]_vars
  PROVE  \/ SubmitStep /\ SubmitFrame
         \/ CallbackStep /\ CallbackFrame
         \/ AskStep /\ AskFrame
         \/ SenderStep /\ SenderFrame
         \/ ReceiverStep /\ ReceiverFrame
         \/ LaneStep /\ LaneFrame
         \/ LossStep /\ LossFrame
         \/ CloserMove /\ CloserFrame
         \/ ServerStep /\ ServerFrame
         \/ UNCHANGED vars
<1>1. \/ SubmitStep \/ CallbackStep \/ AskStep \/ SenderStep \/ ReceiverStep \/ LaneStep
      \/ LossStep \/ CloserMove \/ ServerStep \/ UNCHANGED vars
  BY DEF Next, CallerStep, CloserStep, SubmitStep, CallbackStep, AskStep, CloserMove, ServerStep,
         Askers
<1>2. SubmitStep => SubmitFrame
  BY DEF SubmitStep, SubmitRefused, Refuse, Register, Enqueue, Drop
<1>3. CallbackStep => CallbackFrame
  BY DEF CallbackStep, AddCallback, ScheduleCallbacks, RunCallback, DispatchCallback
<1>4. AskStep => AskFrame
  BY DEF AskStep, CallerCancels, CloserCancels, Cancel, Decided, Undecided
<1>5. SenderStep => SenderFrame
  BY DEF SenderStep, SenderTakes, SenderSends, SenderFails
<1>6. ReceiverStep => ReceiverFrame
  BY DEF ReceiverStep, ReceiverReads, ReceiverSchedules, ReceiverEnds
<1>7. LaneStep => LaneFrame
  BY DEF LaneStep, LaneRuns, LaneAcks, LaneAckFails, LaneForgets
<1>8. LossStep => LossFrame
  BY DEF LossStep, LossLooks, LossSchedules, LossEnds
<1>9. CloserMove => CloserFrame
  BY DEF CloserMove, Shutdown, CloserStarts, CloserWaits, CloserAsks, CloserAnswered,
         CloserCloses, CloserDrains, CloserGoes
<1>10. ServerStep => ServerFrame
  BY DEF ServerStep, ServerReads, LinkFails, ServerWorks
<1>11. QED
  BY <1>1, <1>2, <1>3, <1>4, <1>5, <1>6, <1>7, <1>8, <1>9, <1>10

-----------------------------------------------------------------------------
(* What the parts of an action keep of the types.                          *)

\* _connection_lost and the closing of the socket.
LEMMA LossType ==
  ASSUME TypeInv, NEW t \in {"sender", "receiver", "lane"}, BeginLoss(t)
  PROVE  /\ failed' = TRUE /\ up' \subseteq {Me} /\ out' \in [{Me} -> Seq(Note)]
         /\ LinkTypeOK' /\ LossTypeOK'
         /\ answer' \in [Askers -> {"none", "lost", "cancelled", "running", "terminal",
                                    "unknown", "closed"}]
<1>1. out' \in [{Me} -> Seq(Note)] /\ up' \subseteq {Me}
  <2>1. out \in [{Me} -> Seq(Note)] /\ up \subseteq {Me}
    BY DEF TypeInv, ServerTypeOK
  <2>2. CASE failed
    BY <2>1, <2>2 DEF BeginLoss, linkVars
  <2>3. CASE ~failed
    <3>1. out' = [out EXCEPT ![Me] = <<>>] /\ up' = {}
      BY <2>3 DEF BeginLoss, CloseSocket
    <3>2. QED
      BY <2>1, <3>1, EmptySeq
  <2>4. QED
    BY <2>2, <2>3
<1>2. answer' \in [Askers -> {"none", "lost", "cancelled", "running", "terminal",
                                    "unknown", "closed"}]
  BY DEF TypeInv, AskTypeOK, BeginLoss
<1>3. failed' = TRUE /\ LinkTypeOK'
  BY DEF TypeInv, LinkTypeOK, BeginLoss, CloseSocket, linkVars
<1>4. LossTypeOK'
  BY DEF TypeInv, LossTypeOK, SubmitTypeOK, BeginLoss, lossVars
<1>5. QED
  BY <1>1, <1>2, <1>3, <1>4

\* The request that comes first is one of them.
LEMMA FirstIsOne ==
  ASSUME SubmitTypeOK, NEW R \in SUBSET Requests, R # {}
  PROVE  First(R) \in R
<1> DEFINE N == {number[r] : r \in R}
<1>1. N \subseteq Nat /\ N # {}
  BY DEF SubmitTypeOK
<1> HIDE DEF N
<1>2. PICK n \in N : \A m \in N : n <= m
  BY <1>1, Least
<1>3. PICK r \in R : n = number[r]
  BY <1>2 DEF N
<1>4. \A q \in R : number[r] <= number[q]
  BY <1>2, <1>3 DEF N
<1>5. QED
  BY <1>4 DEF First

\* What a future may be set to.
LEMMA SettleType ==
  ASSUME FutureTypeOK, NEW r \in Requests
  PROVE  /\ \A s \in {"SENT_UNACKNOWLEDGED", "ACCEPTED_QUEUED", "RUNNING"} \cup Final :
              Progress(r, s) => submission_state' \in
                [Requests -> {"LOCAL_PENDING", "SENT_UNACKNOWLEDGED", "ACCEPTED_QUEUED", "RUNNING"}
                             \cup Final]
         /\ \A s \in Final, e \in Errors : Settle(r, s, e) => FutureTypeOK'
  BY DEF FutureTypeOK, Progress, Settle

\* The callbacks are handed over, or taken for later.
LEMMA HandOverType ==
  ASSUME CallbackTypeOK, NEW r \in Requests
  PROVE  /\ HandOver(r) => CallbackTypeOK'
         /\ Dispatch(r) => CallbackTypeOK'
         /\ TakeCallbacks(r) => CallbackTypeOK'
<1>1. ASSUME HandOver(r) PROVE CallbackTypeOK'
  <2>1. Append(dispatch, r) \in Seq(Askers)
    BY AppendProperties DEF CallbackTypeOK, Askers
  <2>2. dispatch' \in Seq(Askers) /\ dispatch_closed' \in BOOLEAN
    BY <1>1, <2>1 DEF HandOver, CallbackTypeOK
  <2>3. /\ callbacks' \in [Requests -> {"none", "added", "taken", "queued", "submitted", "called"}]
        /\ calls' \in [Requests -> Nat]
    BY <1>1 DEF HandOver, CallbackTypeOK
  <2>4. QED
    BY <2>2, <2>3 DEF CallbackTypeOK
<1>2. ASSUME TakeCallbacks(r) PROVE CallbackTypeOK'
  BY <1>2 DEF TakeCallbacks, CallbackTypeOK
<1>3. ASSUME Dispatch(r) PROVE CallbackTypeOK'
  <2>1. HandOver(r) \/ UNCHANGED callbackVars
    BY <1>3 DEF Dispatch
  <2>2. QED
    BY <1>1, <2>1 DEF callbackVars, CallbackTypeOK
<1>4. QED
  BY <1>1, <1>2, <1>3

\* What the function of a job does.
LEMMA PerformType ==
  ASSUME FutureTypeOK, CallbackTypeOK, NEW j \in RealJob, Perform(j)
  PROVE  FutureTypeOK' /\ CallbackTypeOK'
<1>1. j.of \in Requests /\ j.do \in {"accepted", "running", "complete", "reject", "fail"}
  BY DEF RealJob
<1>2. CASE j.do \in {"accepted", "running"}
  <2>1. (Progress(j.of, "ACCEPTED_QUEUED") \/ Progress(j.of, "RUNNING"))
        /\ UNCHANGED <<error, callbackVars>>
    BY <1>2 DEF Perform
  <2>2. FutureTypeOK'
    BY <1>1, <2>1, SettleType DEF FutureTypeOK
  <2>3. CallbackTypeOK'
    BY <2>1 DEF callbackVars, CallbackTypeOK
  <2>4. QED
    BY <2>2, <2>3
<1>3. CASE j.do = "complete"
  <2>1. Settle(j.of, FutureState(j.of, j.what), FutureError(j.of, j.what)) /\ Dispatch(j.of)
    BY <1>3 DEF Perform
  <2>2. j.what \in Ended
    BY <1>3 DEF RealJob
  <2>3. FutureState(j.of, j.what) \in Final /\ FutureError(j.of, j.what) \in Errors
    BY <2>2 DEF FutureState, FutureError, Final, Errors, Ended, WithoutRun, AfterRun
  <2>4. QED
    BY <1>1, <2>1, <2>3, SettleType, HandOverType
<1>4. CASE j.do \in {"reject", "fail"}
  <2>1. Settle(j.of, "FAILED", j.what) /\ Dispatch(j.of)
    BY <1>4 DEF Perform
  <2>2. j.what \in Errors /\ "FAILED" \in Final
    BY <1>4 DEF RealJob, LossErrors, Errors, Final
  <2>3. QED
    BY <1>1, <2>1, <2>2, SettleType, HandOverType
<1>5. QED
  BY <1>1, <1>2, <1>3, <1>4

\* A job is queued, or its function runs at once.
LEMMA ScheduleType ==
  ASSUME TypeInv, NEW j \in RealJob, Schedule(j)
  PROVE  /\ FutureTypeOK' /\ CallbackTypeOK'
         /\ futures' \subseteq Requests /\ terminal_received' \subseteq Requests
         /\ jobs' \in Seq(RealJob) /\ Len(jobs') <= Slots
         /\ lane # "idle" => jobs' # <<>> /\ Head(jobs').do = "complete"
<1>1. CASE ~dispatch_closed
  <2>1. jobs' = Append(jobs, j) /\ Len(jobs) < Slots /\ UNCHANGED <<tableVars, futureVars, callbackVars>>
    BY <1>1 DEF Schedule
  <2>2. jobs \in Seq(RealJob) /\ Slots \in Nat
    BY DEF TypeInv, JobsOK
  <2>3. /\ jobs' \in Seq(RealJob) /\ Len(jobs') <= Slots
        /\ jobs # <<>> => jobs' # <<>> /\ Head(jobs') = Head(jobs)
    BY <2>1, <2>2, AppendProperties
  <2>4. QED
    BY <2>1, <2>3 DEF TypeInv, JobsOK, FutureTypeOK, CallbackTypeOK, SubmitTypeOK, tableVars,
                      futureVars, callbackVars
<1>2. CASE dispatch_closed
  <2>1. Perform(j) /\ Forgets(j) /\ UNCHANGED jobs
    BY <1>2 DEF Schedule
  <2>2. FutureTypeOK' /\ CallbackTypeOK'
    BY <2>1, PerformType DEF TypeInv
  <2>3. futures' \subseteq Requests /\ terminal_received' \subseteq Requests
    BY <2>1 DEF Forgets, TypeInv, SubmitTypeOK
  <2>4. QED
    BY <2>1, <2>2, <2>3 DEF TypeInv, JobsOK
<1>3. QED
  BY <1>1, <1>2

-----------------------------------------------------------------------------
(* Who touches what.                                                       *)

\* The steps that change each group of variables.
LEMMA Frames ==
  ASSUME [Next]_vars
  PROVE  /\ \/ SubmitStep \/ UNCHANGED submitVars
         /\ \/ ServerStep \/ UNCHANGED serverVars
         /\ \/ ServerStep \/ SenderStep \/ UNCHANGED wire
         /\ \/ SubmitStep \/ SenderStep \/ ReceiverStep \/ LaneStep \/ LossStep
            \/ UNCHANGED tableVars
         /\ \/ SubmitStep \/ SenderStep \/ ReceiverStep \/ LaneStep \/ LossStep \/ AskStep
            \/ UNCHANGED futureVars
         /\ \/ SubmitStep \/ SenderStep \/ LaneStep \/ AskStep \/ CloserMove
            \/ UNCHANGED outbound
         /\ \/ SenderStep \/ ReceiverStep \/ LaneStep \/ CloserMove \/ ServerStep
            \/ UNCHANGED linkVars
         /\ \/ SenderStep \/ UNCHANGED sender
         /\ \/ ReceiverStep \/ UNCHANGED receiver
         /\ \/ ReceiverStep \/ LaneStep \/ LossStep \/ UNCHANGED laneVars
         /\ \/ SenderStep \/ ReceiverStep \/ LaneStep \/ LossStep \/ UNCHANGED lossVars
         /\ \/ SenderStep \/ ReceiverStep \/ LaneStep \/ AskStep \/ CloserMove
            \/ UNCHANGED askVars
         /\ \/ CallbackStep \/ AskStep \/ ReceiverStep \/ LaneStep \/ LossStep \/ CloserMove
            \/ UNCHANGED callbackVars
         /\ \/ AskStep \/ CloserMove \/ UNCHANGED shutdownVars
  BY Steps DEF SubmitFrame, CallbackFrame, AskFrame, SenderFrame, ReceiverFrame, LaneFrame,
               LossFrame, CloserFrame, ServerFrame, vars, serverVars, submitVars, tableVars,
               futureVars, linkVars, threadVars, laneVars, lossVars, askVars, callbackVars,
               shutdownVars

-----------------------------------------------------------------------------
(* Each part of the type invariant is kept.                                *)

\* A message put on the outbound queue, and the queue without its first.
LEMMA OutboundTypes ==
  ASSUME OutboundOK
  PROVE  /\ Room => \A m \in RealMessage : /\ Append(outbound, m) \in Seq(RealMessage)
                                           /\ Len(Append(outbound, m)) <= OutboundLimit
         /\ outbound # <<>> => /\ Head(outbound) \in RealMessage
                               /\ Tail(outbound) \in Seq(RealMessage)
                               /\ Len(Tail(outbound)) <= OutboundLimit
<1>1. outbound \in Seq(RealMessage) /\ Len(outbound) <= OutboundLimit /\ OutboundLimit \in Nat
  BY DEF OutboundOK
<1>2. ASSUME Room, NEW m \in RealMessage
      PROVE  Append(outbound, m) \in Seq(RealMessage) /\ Len(Append(outbound, m)) <= OutboundLimit
  BY <1>1, <1>2, AppendProperties DEF Room
<1>3. ASSUME outbound # <<>>
      PROVE  /\ Head(outbound) \in RealMessage
             /\ Tail(outbound) \in Seq(RealMessage)
             /\ Len(Tail(outbound)) <= OutboundLimit
  BY <1>1, <1>3, HeadTailProperties
<1>4. QED
  BY <1>2, <1>3

\* What the threads of the client put on it.
LEMMA MessageTypes ==
  /\ \A r \in Requests : [kind |-> "SUBMIT", of |-> r, by |-> r, hard |-> FALSE] \in RealMessage
  /\ \A r \in Requests : [kind |-> "RESULT_ACK", of |-> r, by |-> Closer, hard |-> FALSE] \in RealMessage
  /\ \A r \in Requests, t \in Askers, hard \in BOOLEAN :
       [kind |-> "CANCEL_REQUEST", of |-> r, by |-> t, hard |-> hard] \in RealMessage
  /\ [kind |-> "CLOSE_SESSION", of |-> Closer, by |-> Closer, hard |-> FALSE] \in RealMessage
  /\ Stop \in RealMessage
  BY DEF RealMessage, Message, Askers, Stop

\* How the outbound queue changes.
LEMMA OutboundSteps ==
  ASSUME TypeInv, [Next]_vars
  PROVE  \/ UNCHANGED outbound
         \/ SenderTakes /\ outbound # <<>> /\ outbound' = Tail(outbound)
         \/ \E r \in Requests : Enqueue(r)
         \/ Room /\ ~SubmitStep /\ ~SenderStep
            /\ \E m \in RealMessage : m.kind # "SUBMIT" /\ outbound' = Append(outbound, m)
<1> DEFINE Other == Room /\ \E m \in RealMessage : m.kind # "SUBMIT" /\ outbound' = Append(outbound, m)
<1>1. CASE SubmitStep
  BY <1>1 DEF SubmitStep, SubmitRefused, Refuse, Register, Drop
<1>2. CASE SenderStep
  BY <1>2 DEF SenderStep, SenderTakes, SenderSends, SenderFails
<1>3. CASE LaneStep
  <2>1. \/ UNCHANGED outbound
        \/ /\ lane = "ack" /\ Room
           /\ outbound' = Append(outbound, [kind |-> "RESULT_ACK", of |-> Head(jobs).of,
                                            by |-> Closer, hard |-> FALSE])
    BY <1>3 DEF LaneStep, LaneRuns, LaneAcks, LaneAckFails, LaneForgets, Put
  <2>2. lane = "ack" => Head(jobs).of \in Requests
    <3>1. lane = "ack" => jobs # <<>> /\ jobs \in Seq(RealJob)
      BY DEF TypeInv, JobsOK
    <3>2. lane = "ack" => Head(jobs) \in RealJob
      BY <3>1, HeadTailProperties
    <3>3. QED
      BY <3>2 DEF RealJob
  <2>3. UNCHANGED outbound \/ Other
    BY <2>1, <2>2, MessageTypes
  <2>4. QED
    BY <1>1, <1>2, <2>3
<1>4. CASE AskStep
  <2>1. \/ UNCHANGED outbound
        \/ \E r \in Requests, t \in Askers, hard \in BOOLEAN : CancelAsks(t, r, hard)
    <3>1. ASSUME NEW r \in Requests, CallerCancels(r)
          PROVE  UNCHANGED outbound \/ \E hard \in BOOLEAN : CancelAsks(r, r, hard)
      BY <3>1 DEF CallerCancels, Cancel, CancelLocally, CancelGivesUp
    <3>2. ASSUME CloserCancels
          PROVE  UNCHANGED outbound \/ \E r \in Requests : CancelAsks(Closer, r, FALSE)
      <4>1. First(to_cancel) \in Requests
        BY <3>2, FirstIsOne DEF CloserCancels, TypeInv, CloserTypeOK
      <4>2. QED
        BY <3>2, <4>1 DEF CloserCancels, Cancel, CancelLocally, CancelGivesUp
    <3>3. QED
      BY <1>4, <3>1, <3>2 DEF AskStep, Askers, Decided, Undecided
  <2>2. ASSUME NEW r \in Requests, NEW t \in Askers, NEW hard \in BOOLEAN, CancelAsks(t, r, hard)
        PROVE  Other
    <3>1. Room /\ outbound' = Append(outbound, [kind |-> "CANCEL_REQUEST", of |-> r, by |-> t, hard |-> hard])
      BY <2>2 DEF CancelAsks, Put
    <3>2. QED
      BY <3>1, MessageTypes
  <2>3. QED
    BY <1>1, <1>2, <2>1, <2>2
<1>5. CASE CloserMove
  <2>1. \/ UNCHANGED outbound
        \/ Room /\ outbound' = Append(outbound, Stop)
        \/ Room /\ outbound' = Append(outbound, [kind |-> "CLOSE_SESSION", of |-> Closer,
                                                 by |-> Closer, hard |-> FALSE])
    BY <1>5 DEF CloserMove, Shutdown, CloserStarts, CloserWaits, CloserAsks, CloserAnswered,
                CloserCloses, CloserDrains, Put
  <2>2. Stop.kind # "SUBMIT"
    BY DEF Stop
  <2>3. UNCHANGED outbound \/ Other
    BY <2>1, <2>2, MessageTypes
  <2>4. QED
    BY <1>1, <1>2, <2>3
<1>6. QED
  BY <1>1, <1>2, <1>3, <1>4, <1>5, Frames

LEMMA OutboundKept ==
  ASSUME TypeInv, [Next]_vars
  PROVE  OutboundOK'
<1>0. OutboundOK
  BY DEF TypeInv
<1>1. ASSUME NEW r \in Requests, Enqueue(r) PROVE OutboundOK'
  <2>1. Room /\ outbound' = Append(outbound, [kind |-> "SUBMIT", of |-> r, by |-> r, hard |-> FALSE])
    BY <1>1 DEF Enqueue, Put
  <2>2. QED
    BY <1>0, <2>1, OutboundTypes, MessageTypes DEF OutboundOK
<1>2. QED
  BY <1>0, <1>1, OutboundSteps, OutboundTypes DEF OutboundOK

LEMMA LinkKept ==
  ASSUME TypeInv, [Next]_vars
  PROVE  LinkTypeOK'
<1>0. LinkTypeOK
  BY DEF TypeInv
<1>1. CASE SenderStep
  <2>1. BeginLoss("sender") \/ UNCHANGED linkVars
    BY <1>1 DEF SenderStep, SenderTakes, SenderSends, SenderFails
  <2>2. QED
    BY <1>0, <2>1, LossType DEF LinkTypeOK, linkVars
<1>2. CASE ReceiverStep
  <2>1. BeginLoss("receiver") \/ UNCHANGED <<failed, sock>>
    BY <1>2 DEF ReceiverStep, ReceiverReads, ReceiverSchedules, ReceiverEnds, linkVars
  <2>2. QED
    BY <1>0, <2>1, LossType DEF LinkTypeOK
<1>3. CASE LaneStep
  <2>1. BeginLoss("lane") \/ UNCHANGED linkVars
    BY <1>3 DEF LaneStep, LaneRuns, LaneAcks, LaneAckFails, LaneForgets
  <2>2. QED
    BY <1>0, <2>1, LossType DEF LinkTypeOK, linkVars
<1>4. CASE CloserMove
  BY <1>0, <1>4 DEF CloserMove, Shutdown, CloserStarts, CloserWaits, CloserAsks, CloserAnswered,
                    CloserCloses, CloserDrains, CloserGoes, CloserFrame, CloseSocket, LinkTypeOK
<1>5. CASE ServerStep
  BY <1>0, <1>5, Steps DEF ServerStep, ServerReads, LinkFails, ServerWorks, ServerFrame, LinkTypeOK
<1>6. CASE UNCHANGED linkVars
  BY <1>0, <1>6 DEF linkVars, LinkTypeOK
<1>7. QED
  BY <1>1, <1>2, <1>3, <1>4, <1>5, <1>6, Frames

LEMMA SenderKept ==
  ASSUME TypeInv, [Next]_vars
  PROVE  SenderOK'
<1>0. SenderOK /\ OutboundOK
  BY DEF TypeInv
<1>1. Stop \in Message
  BY DEF Stop, Message, Askers
<1>2. CASE SenderTakes
  <2>1. Head(outbound) \in RealMessage
    BY <1>0, <1>2, OutboundTypes DEF SenderTakes
  <2>2. sender.at = "get" /\ sender \in [at : {"get", "exit"}, hand : Message]
    BY <1>0, <1>2 DEF SenderTakes, SenderOK
  <2>3. sender' \in {[sender EXCEPT !.at = "exit"], sender, [at |-> "send", hand |-> Head(outbound)]}
    BY <1>2 DEF SenderTakes
  <2>4. QED
    BY <2>1, <2>2, <2>3 DEF SenderOK
<1>3. CASE SenderSends
  BY <1>1, <1>3 DEF SenderSends, SenderOK
<1>4. CASE SenderFails
  BY <1>1, <1>4 DEF SenderFails, SenderOK
<1>5. CASE UNCHANGED sender
  BY <1>0, <1>5 DEF SenderOK
<1>6. QED
  BY <1>2, <1>3, <1>4, <1>5, Frames DEF SenderStep

LEMMA JobOfType ==
  \A r \in Requests, v \in States \ {"UNSENT"} : JobOf(r, v) \in RealJob
<1> SUFFICES ASSUME NEW r \in Requests, NEW v \in States \ {"UNSENT"} PROVE JobOf(r, v) \in RealJob
  OBVIOUS
<1>1. CASE v \in {"ACCEPTED_QUEUED", "RUNNING", "REJECTED"}
  BY <1>1 DEF JobOf, RealJob
<1>2. CASE v \in Ended
  <2>1. v \notin {"ACCEPTED_QUEUED", "RUNNING", "REJECTED"}
    BY <1>2 DEF Ended, WithoutRun, AfterRun
  <2>2. JobOf(r, v) = [do |-> "complete", of |-> r, what |-> v]
    BY <2>1 DEF JobOf
  <2>3. QED
    BY <1>2, <2>2 DEF RealJob
<1>3. QED
  BY <1>1, <1>2 DEF States

LEMMA NoteTypes ==
  ASSUME ServerTypeOK, out[Me] # <<>>
  PROVE  /\ out[Me] \in Seq(Note)
         /\ Head(out[Me]) \in Note /\ Tail(out[Me]) \in Seq(Note)
         /\ Head(out[Me]).what \in States <=> Head(out[Me]) \in Report_
<1>1. Head(out[Me]) \in Note /\ Tail(out[Me]) \in Seq(Note) /\ out[Me] \in Seq(Note)
  BY HeadTailProperties DEF ServerTypeOK
<1>2. \A d \in Decisions : d \notin States
  BY DEF Decisions, States, Ended, WithoutRun, AfterRun
<1>3. QED
  BY <1>1, <1>2 DEF Note, Report_, Answer_

LEMMA ReceiverKept ==
  ASSUME TypeInv, [Next]_vars
  PROVE  ReceiverOK'
<1>0. ReceiverOK
  BY DEF TypeInv
<1>1. CASE ReceiverReads
  <2> DEFINE m == Head(out[Me])
  <2>1. out[Me] # <<>> /\ receiver.at = "read"
    BY <1>1 DEF ReceiverReads
  <2>2. CASE m.what \in States /\ m.of \in futures
    <3>1. m \in Report_
      BY <2>1, <2>2, NoteTypes DEF TypeInv
    <3>2. JobOf(m.of, m.what) \in RealJob
      BY <3>1, JobOfType DEF Report_
    <3>3. receiver' = [at |-> "job", hand |-> JobOf(m.of, m.what)]
      BY <1>1, <2>2 DEF ReceiverReads
    <3>4. QED
      BY <3>2, <3>3 DEF ReceiverOK
  <2>3. CASE ~(m.what \in States /\ m.of \in futures)
    <3>1. receiver' = receiver
      BY <1>1, <2>3 DEF ReceiverReads
    <3>2. QED
      BY <1>0, <3>1 DEF ReceiverOK
  <2>4. QED
    BY <2>2, <2>3
<1>2. CASE ReceiverSchedules
  BY <1>2 DEF ReceiverSchedules, ReceiverOK
<1>3. CASE ReceiverEnds
  BY <1>3 DEF ReceiverEnds, ReceiverOK
<1>4. CASE UNCHANGED receiver
  BY <1>0, <1>4 DEF ReceiverOK
<1>5. QED
  BY <1>1, <1>2, <1>3, <1>4, Frames DEF ReceiverStep

\* What a thread has in hand when it schedules, and the job that the lane runs.
LEMMA HandTypes ==
  ASSUME TypeInv
  PROVE  /\ receiver.at = "job" => receiver.hand \in RealJob
         /\ verdict # NoJob => verdict \in RealJob /\ verdict.do = "fail"
         /\ jobs # <<>> => /\ Head(jobs) \in RealJob /\ Tail(jobs) \in Seq(RealJob)
                           /\ Len(Tail(jobs)) <= Slots
         /\ jobs \in Seq(RealJob)
<1>1. jobs \in Seq(RealJob) /\ Len(jobs) <= Slots /\ Slots \in Nat
  BY DEF TypeInv, JobsOK
<1>2. jobs # <<>> => Head(jobs) \in RealJob /\ Tail(jobs) \in Seq(RealJob) /\ Len(Tail(jobs)) <= Slots
  BY <1>1, HeadTailProperties
<1>3. receiver.at = "job" => receiver.hand \in RealJob
  BY DEF TypeInv, ReceiverOK
<1>4. verdict # NoJob => verdict \in RealJob /\ verdict.do = "fail"
  BY DEF TypeInv, LossTypeOK
<1>5. QED
  BY <1>1, <1>2, <1>3, <1>4

LEMMA JobsKept ==
  ASSUME TypeInv, [Next]_vars
  PROVE  JobsOK'
<1>0. JobsOK
  BY DEF TypeInv
<1>1. CASE ReceiverStep
  <2>1. UNCHANGED lane /\ (UNCHANGED jobs \/ ReceiverSchedules)
    BY <1>1, Steps DEF ReceiverStep, ReceiverReads, ReceiverEnds, ReceiverSchedules, ReceiverFrame
  <2>2. CASE UNCHANGED jobs
    BY <1>0, <2>1, <2>2 DEF JobsOK
  <2>3. CASE ReceiverSchedules
    <3>1. receiver.hand \in RealJob /\ Schedule(receiver.hand)
      BY <2>3, HandTypes DEF ReceiverSchedules
    <3>2. QED
      BY <1>0, <2>1, <3>1, ScheduleType DEF JobsOK
  <2>4. QED
    BY <2>1, <2>2, <2>3
<1>2. CASE LossStep
  <2>1. UNCHANGED lane /\ (UNCHANGED jobs \/ LossSchedules)
    BY <1>2 DEF LossStep, LossLooks, LossEnds, LossSchedules, LossFrame
  <2>2. CASE UNCHANGED jobs
    BY <1>0, <2>1, <2>2 DEF JobsOK
  <2>3. CASE LossSchedules
    <3>1. verdict \in RealJob /\ Schedule(verdict)
      BY <2>3, HandTypes DEF LossSchedules
    <3>2. QED
      BY <1>0, <2>1, <3>1, ScheduleType DEF JobsOK
  <2>4. QED
    BY <2>1, <2>2, <2>3
<1>3. CASE LaneStep
  <2>1. CASE LaneRuns
    <3>1. jobs # <<>> /\ lane = "idle"
      BY <2>1 DEF LaneRuns
    <3>2. CASE Head(jobs).do = "complete"
      <4>1. jobs' = jobs /\ lane' = "ack"
        BY <2>1, <3>2 DEF LaneRuns
      <4>2. QED
        BY <1>0, <3>1, <3>2, <4>1 DEF JobsOK
    <3>3. CASE Head(jobs).do # "complete"
      <4>1. jobs' = Tail(jobs) /\ lane' = "idle"
        BY <2>1, <3>1, <3>3 DEF LaneRuns
      <4>2. QED
        BY <3>1, <4>1, HandTypes DEF JobsOK
    <3>4. QED
      BY <3>2, <3>3
  <2>2. CASE LaneAcks \/ LaneForgets
    <3>1. jobs # <<>>
      BY <1>0, <2>2 DEF LaneAcks, LaneForgets, JobsOK
    <3>2. jobs' = Tail(jobs) /\ lane' = "idle"
      BY <2>2 DEF LaneAcks, LaneForgets, LaneNext
    <3>3. QED
      BY <3>1, <3>2, HandTypes DEF JobsOK
  <2>3. CASE LaneAckFails
    BY <1>0, <2>3 DEF LaneAckFails, JobsOK
  <2>4. QED
    BY <1>3, <2>1, <2>2, <2>3 DEF LaneStep
<1>4. CASE UNCHANGED laneVars
  BY <1>0, <1>4 DEF laneVars, JobsOK
<1>5. QED
  BY <1>1, <1>2, <1>3, <1>4, Frames

LEMMA LossKept ==
  ASSUME TypeInv, [Next]_vars
  PROVE  LossTypeOK'
<1>0. LossTypeOK
  BY DEF TypeInv
<1>1. CASE SenderStep
  <2>1. BeginLoss("sender") \/ UNCHANGED lossVars
    BY <1>1 DEF SenderStep, SenderTakes, SenderSends, SenderFails
  <2>2. QED
    BY <1>0, <2>1, LossType DEF LossTypeOK, lossVars
<1>2. CASE ReceiverStep
  <2>1. BeginLoss("receiver") \/ UNCHANGED lossVars
    BY <1>2 DEF ReceiverStep, ReceiverReads, ReceiverSchedules, ReceiverEnds
  <2>2. QED
    BY <1>0, <2>1, LossType DEF LossTypeOK, lossVars
<1>3. CASE LaneStep
  <2>1. BeginLoss("lane") \/ UNCHANGED lossVars
    BY <1>3 DEF LaneStep, LaneRuns, LaneAcks, LaneAckFails, LaneForgets
  <2>2. QED
    BY <1>0, <2>1, LossType DEF LossTypeOK, lossVars
<1>4. CASE LossLooks
  <2> DEFINE r == First(lost)
  <2>1. r \in Requests
    BY <1>0, <1>4, FirstIsOne DEF TypeInv, LossTypeOK, LossLooks
  <2>2. LossError(submission_state[r]) \in LossErrors
    BY DEF LossError, LossErrors
  <2>3. verdict' \in {NoJob, [do |-> "fail", of |-> r, what |-> LossError(submission_state[r])]}
        /\ lost' = lost \ {r} /\ losing' = losing
    BY <1>4 DEF LossLooks
  <2> HIDE DEF r
  <2>4. [do |-> "fail", of |-> r, what |-> LossError(submission_state[r])] \in RealJob
    BY <2>1, <2>2 DEF RealJob
  <2>5. QED
    BY <1>0, <2>3, <2>4 DEF LossTypeOK
<1>5. CASE LossSchedules \/ LossEnds
  BY <1>0, <1>5 DEF LossSchedules, LossEnds, LossTypeOK
<1>6. CASE UNCHANGED lossVars
  BY <1>0, <1>6 DEF LossTypeOK, lossVars
<1>7. QED
  BY <1>1, <1>2, <1>3, <1>4, <1>5, <1>6, Frames DEF LossStep

LEMMA NumberType ==
  ASSUME SubmitTypeOK, NEW r \in Requests
  PROVE  [number EXCEPT ![r] = Cardinality({q \in Requests : number[q] # 0}) + 1] \in [Requests -> Nat]
<1> DEFINE Q == {q \in Requests : number[q] # 0}
<1>0. IsFiniteSet(Requests) /\ Q \subseteq Requests
  OBVIOUS
<1> HIDE DEF Q
<1>1. Cardinality(Q) \in Nat
  <2>1. IsFiniteSet(Q)
    BY <1>0, FS_Subset
  <2>2. QED
    BY <2>1, FS_CardinalityType
<1> USE DEF Q
<1>2. Cardinality({q \in Requests : number[q] # 0}) + 1 \in Nat
  BY <1>1
<1>3. QED
  BY <1>2 DEF SubmitTypeOK

LEMMA SubmitKept ==
  ASSUME TypeInv, [Next]_vars
  PROVE  SubmitTypeOK'
<1>0. SubmitTypeOK
  BY DEF TypeInv
<1>a. CASE SubmitStep
  <2>1. PICK r \in Requests : SubmitRefused(r) \/ Register(r) \/ Enqueue(r) \/ Drop(r)
    BY <1>a DEF SubmitStep
  <2>2. caller' \in [Requests -> {"start", "registered", "returned", "raised"}]
    BY <1>0, <2>1 DEF SubmitRefused, Refuse, Register, Enqueue, Drop, SubmitTypeOK
  <2>3. number' \in [Requests -> Nat]
    <3>1. UNCHANGED number \/ Register(r)
      BY <2>1 DEF SubmitRefused, Refuse, Enqueue, Drop
    <3>2. QED
      BY <1>0, <3>1, NumberType DEF SubmitTypeOK, Register
  <2>4. futures' \subseteq Requests /\ terminal_received' \subseteq Requests
    BY <1>0, <2>1 DEF SubmitRefused, Refuse, Register, Enqueue, Drop, SubmitTypeOK, SubmitFrame
  <2>5. QED
    BY <2>2, <2>3, <2>4 DEF SubmitTypeOK
<1>b. ASSUME UNCHANGED submitVars, futures' \subseteq Requests, terminal_received' \subseteq Requests
      PROVE  SubmitTypeOK'
  BY <1>0, <1>b DEF SubmitTypeOK, submitVars
<1>1. CASE SenderStep
  <2>1. futures' \subseteq Requests
    BY <1>0, <1>1 DEF SenderStep, SenderTakes, SenderSends, SenderFails, SubmitTypeOK
  <2>2. UNCHANGED <<submitVars, terminal_received>>
    BY <1>1 DEF SenderStep, SenderTakes, SenderSends, SenderFails, SenderFrame
  <2>3. QED
    BY <1>0, <1>b, <2>1, <2>2 DEF SubmitTypeOK
<1>2. CASE ReceiverStep
  <2>1. UNCHANGED submitVars
    BY <1>2 DEF ReceiverStep, ReceiverReads, ReceiverSchedules, ReceiverEnds, ReceiverFrame
  <2>2. CASE ReceiverReads
    <3>1. futures' \subseteq Requests /\ terminal_received' \subseteq Requests
      BY <1>0, <2>2 DEF ReceiverReads, SubmitTypeOK
    <3>2. QED
      BY <1>b, <2>1, <3>1
  <2>3. CASE ReceiverSchedules
    <3>1. receiver.hand \in RealJob /\ Schedule(receiver.hand)
      BY <2>3, HandTypes DEF ReceiverSchedules
    <3>2. futures' \subseteq Requests /\ terminal_received' \subseteq Requests
      BY <3>1, ScheduleType
    <3>3. QED
      BY <1>b, <2>1, <3>2
  <2>4. CASE ReceiverEnds
    BY <1>0, <1>b, <2>1, <2>4 DEF ReceiverEnds, tableVars, SubmitTypeOK
  <2>5. QED
    BY <1>2, <2>2, <2>3, <2>4 DEF ReceiverStep
<1>3. CASE LaneStep
  <2>1. UNCHANGED submitVars
    BY <1>3 DEF LaneStep, LaneRuns, LaneAcks, LaneAckFails, LaneForgets, LaneFrame
  <2>2. UNCHANGED tableVars \/ Forgets(Head(jobs))
    BY <1>3 DEF LaneStep, LaneRuns, LaneAcks, LaneAckFails, LaneForgets, LaneNext, tableVars
  <2>3. futures' \subseteq Requests /\ terminal_received' \subseteq Requests
    BY <1>0, <2>2 DEF Forgets, SubmitTypeOK, tableVars
  <2>4. QED
    BY <1>b, <2>1, <2>3
<1>4. CASE LossStep
  <2>1. UNCHANGED submitVars
    BY <1>4 DEF LossStep, LossLooks, LossSchedules, LossEnds, LossFrame
  <2>2. CASE LossSchedules
    <3>1. verdict \in RealJob /\ Schedule(verdict)
      BY <2>2, HandTypes DEF LossSchedules
    <3>2. futures' \subseteq Requests /\ terminal_received' \subseteq Requests
      BY <3>1, ScheduleType
    <3>3. QED
      BY <1>b, <2>1, <3>2
  <2>3. CASE LossLooks \/ LossEnds
    <3>1. UNCHANGED tableVars
      BY <2>3 DEF LossLooks, LossEnds, tableVars
    <3>2. QED
      BY <1>0, <1>b, <2>1, <3>1 DEF tableVars, SubmitTypeOK
  <2>4. QED
    BY <1>4, <2>2, <2>3 DEF LossStep
<1>5. CASE UNCHANGED <<submitVars, tableVars>>
  BY <1>0, <1>5 DEF submitVars, tableVars, SubmitTypeOK
<1>6. QED
  BY <1>a, <1>1, <1>2, <1>3, <1>4, <1>5, Frames

\* Who sets a future, and to what.
LEMMA FutureKept ==
  ASSUME TypeInv, [Next]_vars
  PROVE  FutureTypeOK'
<1>0. FutureTypeOK
  BY DEF TypeInv
<1>1. CASE SubmitStep
  <2>1. PICK r \in Requests : SubmitRefused(r) \/ Register(r) \/ Enqueue(r) \/ Drop(r)
    BY <1>1 DEF SubmitStep
  <2>2. UNCHANGED submission_state
    BY <2>1 DEF SubmitRefused, Refuse, Register, Enqueue, Drop, SubmitFrame
  <2>3. error' \in [Requests -> Errors]
    BY <1>0, <2>1 DEF SubmitRefused, Refuse, Register, Enqueue, Drop, FutureTypeOK, Errors
  <2>4. QED
    BY <1>0, <2>2, <2>3 DEF FutureTypeOK
<1>2. CASE SenderStep
  <2>1. UNCHANGED error
    BY <1>2 DEF SenderStep, SenderTakes, SenderSends, SenderFails, SenderFrame
  <2>2. \/ UNCHANGED submission_state
        \/ /\ outbound # <<>> /\ Head(outbound).kind = "SUBMIT"
           /\ Progress(Head(outbound).of, "SENT_UNACKNOWLEDGED")
    BY <1>2 DEF SenderStep, SenderTakes, SenderSends, SenderFails
  <2>3. CASE UNCHANGED submission_state
    BY <1>0, <2>1, <2>3 DEF FutureTypeOK
  <2>4. CASE /\ outbound # <<>> /\ Head(outbound).kind = "SUBMIT"
             /\ Progress(Head(outbound).of, "SENT_UNACKNOWLEDGED")
    <3>1. Head(outbound) \in RealMessage
      BY <2>4, OutboundTypes DEF TypeInv
    <3>2. Head(outbound).of \in Requests
      BY <2>4, <3>1 DEF RealMessage
    <3>3. QED
      BY <1>0, <2>1, <2>4, <3>2, SettleType DEF FutureTypeOK
  <2>5. QED
    BY <2>2, <2>3, <2>4
<1>3. CASE ReceiverStep
  <2>1. CASE ReceiverSchedules
    BY <2>1, HandTypes, ScheduleType DEF ReceiverSchedules
  <2>2. CASE ReceiverReads \/ ReceiverEnds
    BY <1>0, <2>2 DEF ReceiverReads, ReceiverEnds, futureVars, FutureTypeOK
  <2>3. QED
    BY <1>3, <2>1, <2>2 DEF ReceiverStep
<1>4. CASE LaneStep
  <2>1. CASE LaneRuns
    BY <2>1, HandTypes, PerformType DEF LaneRuns, TypeInv
  <2>2. CASE LaneAcks \/ LaneAckFails \/ LaneForgets
    BY <1>0, <2>2 DEF LaneAcks, LaneAckFails, LaneForgets, futureVars, FutureTypeOK
  <2>3. QED
    BY <1>4, <2>1, <2>2 DEF LaneStep
<1>5. CASE LossStep
  <2>1. CASE LossSchedules
    BY <2>1, HandTypes, ScheduleType DEF LossSchedules
  <2>2. CASE LossLooks \/ LossEnds
    BY <1>0, <2>2 DEF LossLooks, LossEnds, futureVars, FutureTypeOK
  <2>3. QED
    BY <1>5, <2>1, <2>2 DEF LossStep
<1>6. CASE AskStep
  <2>1. \/ UNCHANGED futureVars
        \/ \E r \in Requests, e \in {"CancelledLocally", "none"} : Settle(r, "CANCELLED", e)
    <3>1. ASSUME NEW r \in Requests, CallerCancels(r)
          PROVE  UNCHANGED futureVars \/ Settle(r, "CANCELLED", "CancelledLocally")
      BY <3>1 DEF CallerCancels, Cancel, CancelLocally, CancelGivesUp, CancelAsks
    <3>2. ASSUME CloserCancels
          PROVE  \/ UNCHANGED futureVars
                 \/ \E r \in Requests : Settle(r, "CANCELLED", "CancelledLocally")
      <4>1. First(to_cancel) \in Requests
        BY <3>2, FirstIsOne DEF CloserCancels, TypeInv, CloserTypeOK
      <4>2. QED
        BY <3>2, <4>1 DEF CloserCancels, Cancel, CancelLocally, CancelGivesUp, CancelAsks
    <3>3. ASSUME NEW t \in Askers, Decided(t) \/ Undecided(t)
          PROVE  \/ UNCHANGED futureVars
                 \/ asking[t] \in Requests /\ Settle(asking[t], "CANCELLED", "none")
      BY <3>3 DEF Decided, Undecided
    <3>4. QED
      BY <1>6, <3>1, <3>2, <3>3 DEF AskStep
  <2>2. "CANCELLED" \in Final /\ {"CancelledLocally", "none"} \subseteq Errors
    BY DEF Final, Errors
  <2>3. QED
    BY <1>0, <2>1, <2>2, SettleType DEF FutureTypeOK, futureVars
<1>7. CASE UNCHANGED futureVars
  BY <1>0, <1>7 DEF FutureTypeOK, futureVars
<1>8. QED
  BY <1>1, <1>2, <1>3, <1>4, <1>5, <1>6, <1>7, Frames

\* Who asks the server and who answers.
LEMMA AskKept ==
  ASSUME TypeInv, [Next]_vars
  PROVE  AskTypeOK'
<1>0. AskTypeOK
  BY DEF TypeInv
<1>1. CASE SenderStep
  <2>1. UNCHANGED asking /\ (BeginLoss("sender") \/ UNCHANGED answer)
    BY <1>1 DEF SenderStep, SenderTakes, SenderSends, SenderFails, SenderFrame
  <2>2. QED
    BY <1>0, <2>1, LossType DEF AskTypeOK
<1>2. CASE ReceiverStep
  <2>1. UNCHANGED asking
    BY <1>2 DEF ReceiverStep, ReceiverReads, ReceiverSchedules, ReceiverEnds, ReceiverFrame
  <2>2. CASE ReceiverReads
    <3>1. answer' \in [Askers -> {"none", "lost", "cancelled", "running", "terminal",
                                  "unknown", "closed"}]
      BY <1>0, <2>2 DEF ReceiverReads, Decisions, AskTypeOK
    <3>2. QED
      BY <1>0, <2>1, <3>1 DEF AskTypeOK
  <2>3. CASE ReceiverSchedules \/ ReceiverEnds
    <3>1. BeginLoss("receiver") \/ UNCHANGED answer
      BY <2>3 DEF ReceiverSchedules, ReceiverEnds
    <3>2. QED
      BY <1>0, <2>1, <3>1, LossType DEF AskTypeOK
  <2>4. QED
    BY <1>2, <2>2, <2>3 DEF ReceiverStep
<1>3. CASE LaneStep
  <2>1. UNCHANGED asking /\ (BeginLoss("lane") \/ UNCHANGED answer)
    BY <1>3 DEF LaneStep, LaneRuns, LaneAcks, LaneAckFails, LaneForgets, LaneFrame
  <2>2. QED
    BY <1>0, <2>1, LossType DEF AskTypeOK
<1>4. CASE AskStep
  <2>1. ASSUME NEW t \in Askers, Return(t) PROVE AskTypeOK'
    BY <1>0, <2>1 DEF Return, AskTypeOK
  <2>2. ASSUME NEW t \in Askers, NEW r \in Requests, NEW hard, Cancel(t, r, hard)
        PROVE  AskTypeOK'
    <3>1. CASE CancelAsks(t, r, hard)
      BY <1>0, <3>1 DEF CancelAsks, AskTypeOK
    <3>2. QED
      BY <2>1, <2>2, <3>1 DEF Cancel, CancelLocally, CancelGivesUp
  <2>3. ASSUME CloserCancels PROVE AskTypeOK'
    <3>1. First(to_cancel) \in Requests /\ Closer \in Askers
      BY <2>3, FirstIsOne DEF CloserCancels, TypeInv, CloserTypeOK, Askers
    <3>2. QED
      BY <2>2, <2>3, <3>1 DEF CloserCancels
  <2>4. QED
    BY <1>4, <2>1, <2>2, <2>3 DEF AskStep, CallerCancels, Decided, Undecided, Askers
<1>5. CASE CloserMove
  <2>1. \/ UNCHANGED askVars
        \/ asking' = [asking EXCEPT ![Closer] = "session"] /\ UNCHANGED answer
        \/ Return(Closer)
    BY <1>5 DEF CloserMove, Shutdown, CloserStarts, CloserWaits, CloserAsks, CloserAnswered,
                CloserCloses, CloserDrains, askVars
  <2>2. QED
    BY <1>0, <2>1 DEF AskTypeOK, Return, askVars
<1>6. CASE UNCHANGED askVars
  BY <1>0, <1>6 DEF AskTypeOK, askVars
<1>7. QED
  BY <1>1, <1>2, <1>3, <1>4, <1>5, <1>6, Frames

\* Who moves a callback.
LEMMA CallbackKept ==
  ASSUME TypeInv, [Next]_vars
  PROVE  CallbackTypeOK'
<1>0. CallbackTypeOK
  BY DEF TypeInv
<1>1. CASE CallbackStep
  <2>1. ASSUME NEW r \in Requests, AddCallback(r) \/ RunCallback(r) PROVE CallbackTypeOK'
    <3>1. calls' \in [Requests -> Nat]
      BY <1>0, <2>1 DEF AddCallback, RunCallback, CallbackTypeOK
    <3>2. callbacks' \in [Requests -> {"none", "added", "taken", "queued", "submitted", "called"}]
      BY <1>0, <2>1 DEF AddCallback, RunCallback, CallbackTypeOK
    <3>3. UNCHANGED <<dispatch, dispatch_closed>>
      BY <2>1 DEF AddCallback, RunCallback
    <3>4. QED
      BY <1>0, <3>1, <3>2, <3>3 DEF CallbackTypeOK
  <2>2. ASSUME NEW r \in Requests, ScheduleCallbacks(r) PROVE CallbackTypeOK'
    BY <1>0, <2>2, HandOverType DEF ScheduleCallbacks
  <2>3. ASSUME DispatchCallback PROVE CallbackTypeOK'
    <3>1. dispatch # <<>> /\ Tail(dispatch) \in Seq(Askers)
      BY <1>0, <2>3, HeadTailProperties DEF DispatchCallback, CallbackTypeOK
    <3>2. dispatch' \in Seq(Askers) /\ dispatch_closed' \in BOOLEAN
      BY <1>0, <2>3, <3>1 DEF DispatchCallback, CallbackTypeOK
    <3>3. /\ callbacks' \in [Requests -> {"none", "added", "taken", "queued", "submitted", "called"}]
          /\ calls' \in [Requests -> Nat]
      <4>1. PICK r : r = Head(dispatch)
        OBVIOUS
      <4>2. r \in Requests
        BY <1>0, <2>3, <3>1, <4>1, HeadTailProperties DEF DispatchCallback, CallbackTypeOK, Askers
      <4>3. /\ callbacks' = [callbacks EXCEPT ![r] = IF dispatch_closed THEN "called" ELSE "submitted"]
            /\ calls' = [calls EXCEPT ![r] = IF dispatch_closed THEN @ + 1 ELSE @]
        BY <2>3, <4>1 DEF DispatchCallback
      <4>4. QED
        BY <1>0, <4>2, <4>3 DEF CallbackTypeOK
    <3>4. QED
      BY <3>2, <3>3 DEF CallbackTypeOK
  <2>4. QED
    BY <1>1, <2>1, <2>2, <2>3 DEF CallbackStep
<1>2. CASE AskStep
  <2>1. UNCHANGED callbackVars \/ \E r \in Requests : TakeCallbacks(r)
    <3>1. ASSUME NEW r \in Requests, CallerCancels(r)
          PROVE  UNCHANGED callbackVars \/ TakeCallbacks(r)
      BY <3>1 DEF CallerCancels, Cancel, CancelLocally, CancelGivesUp, CancelAsks
    <3>2. ASSUME CloserCancels
          PROVE  UNCHANGED callbackVars \/ \E r \in Requests : TakeCallbacks(r)
      <4>1. First(to_cancel) \in Requests
        BY <3>2, FirstIsOne DEF CloserCancels, TypeInv, CloserTypeOK
      <4>2. QED
        BY <3>2, <4>1 DEF CloserCancels, Cancel, CancelLocally, CancelGivesUp, CancelAsks
    <3>3. ASSUME NEW t \in Askers, Decided(t) \/ Undecided(t)
          PROVE  UNCHANGED callbackVars \/ (asking[t] \in Requests /\ TakeCallbacks(asking[t]))
      BY <3>3 DEF Decided, Undecided
    <3>4. QED
      BY <1>2, <3>1, <3>2, <3>3 DEF AskStep
  <2>2. QED
    BY <1>0, <2>1, HandOverType DEF CallbackTypeOK, callbackVars
<1>3. CASE ReceiverStep
  <2>1. CASE ReceiverSchedules
    BY <2>1, HandTypes, ScheduleType DEF ReceiverSchedules
  <2>2. CASE ReceiverReads \/ ReceiverEnds
    BY <1>0, <2>2 DEF ReceiverReads, ReceiverEnds, callbackVars, CallbackTypeOK
  <2>3. QED
    BY <1>3, <2>1, <2>2 DEF ReceiverStep
<1>4. CASE LaneStep
  <2>1. CASE LaneRuns
    BY <2>1, HandTypes, PerformType DEF LaneRuns, TypeInv
  <2>2. CASE LaneAcks \/ LaneAckFails \/ LaneForgets
    BY <1>0, <2>2 DEF LaneAcks, LaneAckFails, LaneForgets, callbackVars, CallbackTypeOK
  <2>3. QED
    BY <1>4, <2>1, <2>2 DEF LaneStep
<1>5. CASE LossStep
  <2>1. CASE LossSchedules
    BY <2>1, HandTypes, ScheduleType DEF LossSchedules
  <2>2. CASE LossLooks \/ LossEnds
    BY <1>0, <2>2 DEF LossLooks, LossEnds, callbackVars, CallbackTypeOK
  <2>3. QED
    BY <1>5, <2>1, <2>2 DEF LossStep
<1>6. CASE CloserMove
  <2>1. UNCHANGED callbackVars \/ CloserDrains
    BY <1>6 DEF CloserMove, Shutdown, CloserStarts, CloserWaits, CloserAsks, CloserAnswered,
                CloserCloses
  <2>2. Append(dispatch, Closer) \in Seq(Askers)
    BY <1>0, AppendProperties DEF CallbackTypeOK, Askers
  <2>3. QED
    BY <1>0, <2>1, <2>2 DEF CloserDrains, CallbackTypeOK, callbackVars
<1>7. CASE UNCHANGED callbackVars
  BY <1>0, <1>7 DEF CallbackTypeOK, callbackVars
<1>8. QED
  BY <1>1, <1>2, <1>3, <1>4, <1>5, <1>6, <1>7, Frames

LEMMA CloserKept ==
  ASSUME TypeInv, [Next]_vars
  PROVE  CloserTypeOK'
<1>0. CloserTypeOK /\ futures \subseteq Requests
  BY DEF TypeInv, SubmitTypeOK
<1>1. CASE AskStep
  <2>1. ASSUME CloserCancels PROVE CloserTypeOK'
    BY <1>0, <2>1 DEF CloserCancels, CloserTypeOK
  <2>2. QED
    BY <1>0, <1>1, <2>1 DEF AskStep, CallerCancels, Decided, Undecided, shutdownVars, CloserTypeOK
<1>2. CASE CloserMove
  BY <1>0, <1>2 DEF CloserMove, Shutdown, CloserStarts, CloserWaits, CloserAsks, CloserAnswered,
                    CloserCloses, CloserDrains, CloserGoes, CloserTypeOK
<1>3. CASE UNCHANGED shutdownVars
  BY <1>0, <1>3 DEF CloserTypeOK, shutdownVars
<1>4. QED
  BY <1>1, <1>2, <1>3, Frames

\* A step of the server that reports state v of request r, and perhaps answers.
LEMMA ReportType ==
  ASSUME ServerTypeOK, NEW r \in Requests, NEW v, NEW more \in Seq(Note), Report(r, v, more)
  PROVE  /\ v \in States \ {"UNSENT"}
         /\ st' \in [Requests -> States] /\ UNCHANGED up
         /\ out' \in [{Me} -> Seq(Note)]
         /\ Me \in up => out'[Me] = out[Me] \o (<<[of |-> r, what |-> v]>> \o more)
         /\ Me \notin up => out' = out
<1>1. v \in States \ {"UNSENT"}
  BY DEF Report, Successors, States, Ended, AfterRun, WithoutRun
<1>2. st' \in [Requests -> States] /\ UNCHANGED up
  BY <1>1 DEF Report, ServerTypeOK
<1>3. [of |-> r, what |-> v] \in Note
  BY <1>1 DEF Note, Report_
<1>4. <<[of |-> r, what |-> v]>> \o more \in Seq(Note)
  BY <1>3, ConcatProperties
<1>5. out[Me] \o (<<[of |-> r, what |-> v]>> \o more) \in Seq(Note)
  BY <1>4, ConcatProperties DEF ServerTypeOK
<1>6. out' = [out EXCEPT ![Me] = IF Me \in up THEN @ \o (<<[of |-> r, what |-> v]>> \o more) ELSE @]
  BY DEF Report, Tell
<1>7. QED
  BY <1>1, <1>2, <1>5, <1>6 DEF ServerTypeOK

\* The server answers without a change of state.
LEMMA TellType ==
  ASSUME ServerTypeOK, NEW a \in Answer_, Tell(Me, <<a>>)
  PROVE  /\ out' \in [{Me} -> Seq(Note)]
         /\ Me \in up => out'[Me] = Append(out[Me], a)
         /\ Me \notin up => out' = out
<1>1. a \in Note /\ out[Me] \in Seq(Note)
  BY DEF Note, ServerTypeOK
<1>2. out[Me] \o <<a>> = Append(out[Me], a)
  BY <1>1, AppendIsConcat
<1>3. Append(out[Me], a) \in Seq(Note)
  BY <1>1, AppendProperties
<1>4. out' = [out EXCEPT ![Me] = IF Me \in up THEN @ \o <<a>> ELSE @]
  BY DEF Tell
<1>5. QED
  BY <1>2, <1>3, <1>4 DEF ServerTypeOK

\* The message the server reads, and what it may answer.
LEMMA WireTypes ==
  ASSUME ServerTypeOK, wire # <<>>
  PROVE  /\ Head(wire) \in RealMessage /\ Tail(wire) \in Seq(RealMessage)
         /\ Head(wire).kind \in {"SUBMIT", "RESULT_ACK", "CANCEL_REQUEST"} => Head(wire).of \in Requests
         /\ \A d \in Decisions : Head(wire).kind = "CANCEL_REQUEST" =>
              [of |-> [by |-> Head(wire).by, on |-> Head(wire).of], what |-> d] \in Answer_
<1>1. Head(wire) \in RealMessage /\ Tail(wire) \in Seq(RealMessage)
  BY HeadTailProperties DEF ServerTypeOK
<1>2. QED
  BY <1>1 DEF RealMessage, Message, Answer_, Askers

LEMMA ServerKept ==
  ASSUME TypeInv, [Next]_vars
  PROVE  ServerTypeOK'
<1>0. ServerTypeOK /\ number \in [Requests -> Nat]
  BY DEF TypeInv, SubmitTypeOK
<1>1. CASE ServerReads
  <2> DEFINE m == Head(wire)
  <2>1. wire # <<>> /\ wire' = Tail(wire)
    BY <1>1 DEF ServerReads
  <2>2. wire' \in Seq(RealMessage)
    BY <1>0, <2>1, WireTypes
  <2>3. CASE ServerSubmits(m)
    <3>1. m.of \in Requests /\ m.kind = "SUBMIT"
      BY <1>0, <2>1, <2>3, WireTypes DEF ServerSubmits
    <3>2. \E v : Report(m.of, v, <<>>)
      BY <2>3 DEF ServerSubmits
    <3>3. st' \in [Requests -> States] /\ UNCHANGED up /\ out' \in [{Me} -> Seq(Note)]
      BY <1>0, <3>1, <3>2, EmptySeq, ReportType
    <3>4. acked' = acked /\ watermark' \in {watermark, number[m.of]}
      BY <2>3 DEF ServerSubmits
    <3>5. QED
      BY <1>0, <2>2, <3>1, <3>3, <3>4 DEF ServerTypeOK
  <2>4. CASE ServerCancels(m)
    <3>1. m.of \in Requests /\ m.kind = "CANCEL_REQUEST"
      BY <1>0, <2>1, <2>4, WireTypes DEF ServerCancels
    <3>2. \/ Report(m.of, "CANCELLED", Reply(m, "cancelled"))
          \/ (\E d \in Decisions : Tell(Me, Reply(m, d))) /\ UNCHANGED <<st, up>>
      BY <2>4 DEF ServerCancels, Decisions
    <3>3. \A d \in Decisions : Reply(m, d) = <<[of |-> [by |-> m.by, on |-> m.of], what |-> d]>>
      BY DEF Reply
    <3>4. Reply(m, "cancelled") \in Seq(Note)
      <4>1. "cancelled" \in Decisions
        BY DEF Decisions
      <4>2. [of |-> [by |-> m.by, on |-> m.of], what |-> "cancelled"] \in Note
        BY <1>0, <2>1, <3>1, <4>1, WireTypes DEF Note
      <4>3. \A n \in Note : <<n>> \in Seq(Note)
        OBVIOUS
      <4>4. QED
        BY <3>3, <4>1, <4>2, <4>3
    <3>5. st' \in [Requests -> States] /\ UNCHANGED up /\ out' \in [{Me} -> Seq(Note)]
      <4>1. CASE Report(m.of, "CANCELLED", Reply(m, "cancelled"))
        BY <1>0, <3>1, <3>4, <4>1, ReportType
      <4>2. ASSUME NEW d \in Decisions, Tell(Me, Reply(m, d)), UNCHANGED <<st, up>>
            PROVE  st' \in [Requests -> States] /\ UNCHANGED up /\ out' \in [{Me} -> Seq(Note)]
        <5>1. [of |-> [by |-> m.by, on |-> m.of], what |-> d] \in Answer_
          BY <1>0, <2>1, <3>1, WireTypes
        <5>2. Tell(Me, <<[of |-> [by |-> m.by, on |-> m.of], what |-> d]>>)
          BY <3>3, <4>2
        <5>3. QED
          BY <1>0, <4>2, <5>1, <5>2, TellType DEF ServerTypeOK
      <4>3. QED
        BY <3>2, <4>1, <4>2
    <3>6. UNCHANGED <<watermark, acked>>
      BY <2>4 DEF ServerCancels
    <3>7. QED
      BY <1>0, <2>2, <3>5, <3>6 DEF ServerTypeOK
  <2>5. CASE m.kind = "RESULT_ACK" /\ acked' = acked \cup {m.of} /\ UNCHANGED <<st, up, out, watermark>>
    <3>1. m.of \in Requests
      BY <1>0, <2>1, <2>5, WireTypes
    <3>2. QED
      BY <1>0, <2>2, <2>5, <3>1 DEF ServerTypeOK
  <2>6. CASE /\ m.kind = "CLOSE_SESSION"
             /\ Tell(Me, <<[of |-> [by |-> Closer, on |-> "session"], what |-> "closed"]>>)
             /\ UNCHANGED <<st, up, watermark, acked>>
    <3>1. [of |-> [by |-> Closer, on |-> "session"], what |-> "closed"] \in Answer_
      BY DEF Answer_, Decisions, Askers
    <3>2. out' \in [{Me} -> Seq(Note)]
      BY <1>0, <2>6, <3>1, TellType
    <3>3. QED
      BY <1>0, <2>2, <2>6, <3>2 DEF ServerTypeOK
  <2>7. QED
    BY <1>1, <2>3, <2>4, <2>5, <2>6 DEF ServerReads
<1>2. ASSUME NEW r \in Requests, ServerWorks(r) PROVE ServerTypeOK'
  <2>1. (\E v : Report(r, v, <<>>)) /\ UNCHANGED <<watermark, acked, wire>>
    BY <1>2 DEF ServerWorks
  <2>2. st' \in [Requests -> States] /\ UNCHANGED up /\ out' \in [{Me} -> Seq(Note)]
    BY <1>0, <2>1, EmptySeq, ReportType
  <2>3. QED
    BY <1>0, <2>1, <2>2 DEF ServerTypeOK
<1>3. CASE LinkFails
  BY <1>0, <1>3, EmptySeq DEF LinkFails, ServerTypeOK
<1>4. ASSUME UNCHANGED <<serverVars, wire>>, up' \subseteq {Me}, out' \in [{Me} -> Seq(Note)]
      PROVE  ServerTypeOK'
  BY <1>0, <1>4 DEF serverVars, ServerTypeOK
<1>5. CASE SenderStep
  <2>1. UNCHANGED serverVars
    BY <1>5 DEF SenderStep, SenderTakes, SenderSends, SenderFails, SenderFrame
  <2>2. CASE SenderSends
    <3>1. sender.hand \in RealMessage
      BY <2>2 DEF SenderSends, TypeInv, SenderOK
    <3>2. wire' \in Seq(RealMessage)
      BY <1>0, <2>2, <3>1, AppendProperties DEF SenderSends, ServerTypeOK
    <3>3. UNCHANGED linkVars
      BY <2>2 DEF SenderSends
    <3>4. QED
      BY <1>0, <2>1, <3>2, <3>3 DEF serverVars, linkVars, ServerTypeOK
  <2>3. CASE SenderTakes
    BY <1>0, <1>4, <2>1, <2>3 DEF SenderTakes, linkVars, ServerTypeOK
  <2>4. CASE SenderFails
    <3>1. BeginLoss("sender") /\ UNCHANGED wire
      BY <2>4 DEF SenderFails
    <3>2. QED
      BY <1>4, <2>1, <3>1, LossType
  <2>5. QED
    BY <1>5, <2>2, <2>3, <2>4 DEF SenderStep
<1>6. CASE ReceiverStep
  <2>1. UNCHANGED <<serverVars, wire>>
    BY <1>6 DEF ReceiverStep, ReceiverReads, ReceiverSchedules, ReceiverEnds, ReceiverFrame
  <2>2. CASE ReceiverReads
    <3>1. out[Me] # <<>> /\ UNCHANGED up /\ out' = [out EXCEPT ![Me] = Tail(@)]
      BY <2>2 DEF ReceiverReads
    <3>2. out' \in [{Me} -> Seq(Note)]
      BY <1>0, <3>1, NoteTypes DEF ServerTypeOK
    <3>3. QED
      BY <1>0, <1>4, <2>1, <3>1, <3>2 DEF ServerTypeOK
  <2>3. CASE ReceiverSchedules \/ ReceiverEnds
    <3>1. BeginLoss("receiver") \/ UNCHANGED linkVars
      BY <2>3 DEF ReceiverSchedules, ReceiverEnds
    <3>2. QED
      BY <1>0, <1>4, <2>1, <3>1, LossType DEF linkVars, ServerTypeOK
  <2>4. QED
    BY <1>6, <2>2, <2>3 DEF ReceiverStep
<1>7. CASE LaneStep
  <2>1. UNCHANGED <<serverVars, wire>> /\ (BeginLoss("lane") \/ UNCHANGED linkVars)
    BY <1>7 DEF LaneStep, LaneRuns, LaneAcks, LaneAckFails, LaneForgets, LaneFrame
  <2>2. QED
    BY <1>0, <1>4, <2>1, LossType DEF linkVars, ServerTypeOK
<1>8. CASE CloserMove
  <2>1. UNCHANGED <<serverVars, wire>> /\ (CloseSocket \/ UNCHANGED <<up, out>>)
    BY <1>8 DEF CloserMove, Shutdown, CloserStarts, CloserWaits, CloserAsks, CloserAnswered,
                CloserCloses, CloserDrains, CloserGoes, CloserFrame
  <2>2. CASE CloseSocket
    <3>1. up' = {} /\ out' = [out EXCEPT ![Me] = <<>>]
      BY <2>2 DEF CloseSocket
    <3>2. out' \in [{Me} -> Seq(Note)]
      BY <1>0, <3>1, EmptySeq DEF ServerTypeOK
    <3>3. QED
      BY <1>4, <2>1, <3>1, <3>2
  <2>3. CASE UNCHANGED <<up, out>>
    BY <1>0, <1>4, <2>1, <2>3 DEF ServerTypeOK
  <2>4. QED
    BY <2>1, <2>2, <2>3
<1>9. CASE UNCHANGED <<serverVars, wire, linkVars>>
  BY <1>0, <1>4, <1>9 DEF linkVars, ServerTypeOK
<1>10. QED
  BY <1>1, <1>2, <1>3, <1>5, <1>6, <1>7, <1>8, <1>9, Frames DEF ServerStep

\* The types hold when _connect has returned.
LEMMA TypeBegins == Init => TypeInv
<1> SUFFICES ASSUME Init PROVE TypeInv
  OBVIOUS
<1>1. ServerTypeOK
  BY EmptySeq DEF Init, ServiceInit, ServerTypeOK, States
<1>2. OutboundOK /\ JobsOK
  BY EmptySeq DEF Init, OutboundOK, JobsOK
<1>3. SubmitTypeOK /\ FutureTypeOK /\ LinkTypeOK
  BY DEF Init, SubmitTypeOK, FutureTypeOK, LinkTypeOK, Errors
<1>4. SenderOK /\ ReceiverOK
  BY DEF Init, SenderOK, ReceiverOK, Stop, Message, Askers
<1>5. LossTypeOK /\ AskTypeOK /\ CloserTypeOK
  BY DEF Init, LossTypeOK, AskTypeOK, CloserTypeOK
<1>6. CallbackTypeOK
  BY EmptySeq DEF Init, CallbackTypeOK
<1>7. QED
  BY <1>1, <1>2, <1>3, <1>4, <1>5, <1>6 DEF TypeInv

\* ... and what the model calls its types is weaker.
LEMMA TypeSuffices == TypeInv => TypeOK
<1> SUFFICES ASSUME TypeInv PROVE TypeOK
  OBVIOUS
<1>1. RealJob \subseteq Job /\ RealMessage \subseteq Message /\ NoJob \in Job
  BY DEF RealJob, Job, RealMessage, NoJob, Askers, LossErrors, Errors
<1>2. jobs \in Seq(Job) /\ wire \in Seq(Message) /\ outbound \in Seq(Message)
  BY <1>1, SeqDef DEF TypeInv, JobsOK, ServerTypeOK, OutboundOK
<1>3. sender \in [at : {"get", "send", "exit"}, hand : Message]
  BY <1>1 DEF TypeInv, SenderOK
<1>4. receiver \in [at : {"read", "job", "exit"}, hand : Job]
  BY <1>1 DEF TypeInv, ReceiverOK
<1>5. verdict \in Job
  BY <1>1 DEF TypeInv, LossTypeOK
<1>6. QED
  BY <1>2, <1>3, <1>4, <1>5 DEF TypeInv, TypeOK, ServerTypeOK, SubmitTypeOK, FutureTypeOK,
     OutboundOK, LinkTypeOK, JobsOK, LossTypeOK, AskTypeOK, CallbackTypeOK, CloserTypeOK

\* The types are inductive.
LEMMA TypeStep == TypeInv /\ [Next]_vars => TypeInv'
  BY OutboundKept, LinkKept, SenderKept, ReceiverKept, JobsKept, LossKept, SubmitKept, FutureKept,
     AskKept, CallbackKept, CloserKept, ServerKept DEF TypeInv

LEMMA TypesHold == Spec => []TypeInv
  BY TypeBegins, TypeStep, PTL DEF Spec

\* Every variable of the client keeps its type and the queues their bounds: what
\* the sender, the receiver and the lane take from a queue is always something
\* they know how to handle.
THEOREM TypeCorrect == Spec => []TypeOK
  BY TypesHold, TypeSuffices, PTL

-----------------------------------------------------------------------------
(* Callbacks are called once.                                              *)

\* Setting the state of a future ends no other, and a state that is not final
\* ends none.
LEMMA DoneAfter ==
  ASSUME FutureTypeOK, NEW r \in Requests, NEW s, Progress(r, s)
  PROVE  /\ \A q \in Requests : q # r \/ s \notin Final => (Done(q)' <=> Done(q))
         /\ Done(r) => Done(r)'
  BY DEF FutureTypeOK, Progress, Done

\* The callbacks of r are handed over.
LEMMA HandOverKept ==
  ASSUME TypeInv, CallbackInv, NEW r \in Requests, callbacks[r] \in {"added", "taken"},
         HandOver(r), UNCHANGED closing, \A q \in Requests \ {r} : Done(q)' => Done(q)
  PROVE  CallbackInv'
<1>0. CallbackTypeOK /\ dispatch \in Seq(Askers) /\ r \in Askers /\ r # Closer
  BY DEF TypeInv, CallbackTypeOK, Askers
<1>1. None(dispatch, {r}) /\ calls[r] = 0
  BY DEF CallbackInv, CallbackFor
<1>2. CASE dispatch_closed
  <2>1. /\ callbacks' = [callbacks EXCEPT ![r] = "called"] /\ UNCHANGED <<dispatch, dispatch_closed>>
        /\ calls' = [calls EXCEPT ![r] = calls[r] + 1]
    BY <1>2 DEF HandOver
  <2>2. DispatchOK'
    BY <2>1 DEF CallbackInv, DispatchOK
  <2>3. CallbackFor(r)'
    BY <1>0, <1>1, <2>1 DEF CallbackFor, CallbackTypeOK
  <2>4. ASSUME NEW q \in Requests, q # r PROVE CallbackFor(q)'
    <3>1. CallbackFor(q) /\ callbacks'[q] = callbacks[q] /\ calls'[q] = calls[q] /\ dispatch' = dispatch
      BY <1>0, <2>1, <2>4 DEF CallbackTypeOK, CallbackInv
    <3>2. QED
      BY <2>4, <3>1 DEF CallbackFor
  <2>5. QED
    BY <2>2, <2>3, <2>4 DEF CallbackInv
<1>3. CASE ~dispatch_closed
  <2>1. /\ callbacks' = [callbacks EXCEPT ![r] = "queued"] /\ UNCHANGED dispatch_closed
        /\ calls' = [calls EXCEPT ![r] = calls[r]] /\ dispatch' = Append(dispatch, r)
    BY <1>3 DEF HandOver
  <2>2. DispatchOK'
    BY <1>0, <1>3, <2>1, NoneStays DEF CallbackInv, DispatchOK
  <2>3. CallbackFor(r)'
    <3>1. One(dispatch', {r}, {r})
      BY <1>0, <1>1, <2>1, OneBegins
    <3>2. QED
      BY <1>0, <1>1, <2>1, <3>1 DEF CallbackFor, CallbackTypeOK
  <2>4. ASSUME NEW q \in Requests, q # r PROVE CallbackFor(q)'
    <3>1. CallbackFor(q) /\ callbacks'[q] = callbacks[q] /\ calls'[q] = calls[q]
      BY <1>0, <2>1, <2>4 DEF CallbackTypeOK, CallbackInv
    <3>2. None(dispatch, {q}) => None(dispatch', {q})
      BY <1>0, <2>1, <2>4, NoneStays
    <3>3. One(dispatch, {q}, {q}) => One(dispatch', {q}, {q})
      BY <1>0, <2>1, <2>4, OneStays
    <3>4. QED
      BY <2>4, <3>1, <3>2, <3>3 DEF CallbackFor
  <2>5. QED
    BY <2>2, <2>3, <2>4 DEF CallbackInv
<1>4. QED
  BY <1>2, <1>3

\* A step in which only r's callback moves, not to or from the queue.
LEMMA MoveKept ==
  ASSUME TypeInv, CallbackInv, NEW r \in Requests, UNCHANGED <<closing, dispatch, dispatch_closed>>,
         \A q \in Requests \ {r} : /\ Done(q)' => Done(q)
                                   /\ callbacks'[q] = callbacks[q] /\ calls'[q] = calls[q],
         calls'[r] = IF callbacks'[r] = "called" THEN 1 ELSE 0,
         callbacks[r] = "queued" <=> callbacks'[r] = "queued",
         Done(r)' => callbacks'[r] # "added"
  PROVE  CallbackInv'
<1>1. DispatchOK'
  BY DEF CallbackInv, DispatchOK
<1>2. CallbackFor(r)'
  BY DEF CallbackInv, CallbackFor
<1>3. ASSUME NEW q \in Requests, q # r PROVE CallbackFor(q)'
  <2>1. CallbackFor(q) /\ callbacks'[q] = callbacks[q] /\ calls'[q] = calls[q] /\ dispatch' = dispatch
    BY <1>3 DEF CallbackInv
  <2>2. QED
    BY <1>3, <2>1 DEF CallbackFor
<1>4. QED
  BY <1>1, <1>2, <1>3 DEF CallbackInv

\* A step in which no callback moves and no future ends.
LEMMA StillKept ==
  ASSUME TypeInv, CallbackInv, UNCHANGED <<closing, callbackVars>>,
         \A q \in Requests : Done(q)' => Done(q)
  PROVE  CallbackInv'
<1>1. DispatchOK'
  BY DEF CallbackInv, DispatchOK, callbackVars
<1>2. ASSUME NEW q \in Requests PROVE CallbackFor(q)'
  BY DEF CallbackInv, CallbackFor, callbackVars
<1>3. QED
  BY <1>1, <1>2 DEF CallbackInv

\* The thread that settles r hands its callbacks over at once, or later.
LEMMA SettleKept ==
  ASSUME TypeInv, CallbackInv, NEW r \in Requests, NEW s \in Final, Progress(r, s), UNCHANGED closing,
         Dispatch(r) \/ TakeCallbacks(r)
  PROVE  CallbackInv'
<1>0. FutureTypeOK /\ CallbackTypeOK
  BY DEF TypeInv
<1>1. \A q \in Requests \ {r} : Done(q)' => Done(q)
  BY <1>0, DoneAfter
<1>2. CASE Dispatch(r)
  <2>1. CASE callbacks[r] = "added" /\ ~Done(r)
    BY <1>1, <1>2, <2>1, HandOverKept DEF Dispatch
  <2>2. CASE ~(callbacks[r] = "added" /\ ~Done(r))
    <3>1. UNCHANGED callbackVars
      BY <1>2, <2>2 DEF Dispatch
    <3>2. callbacks[r] # "added"
      BY <2>2 DEF CallbackInv, CallbackFor
    <3>3. calls[r] = IF callbacks[r] = "called" THEN 1 ELSE 0
      BY DEF CallbackInv, CallbackFor
    <3>4. QED
      BY <1>1, <3>1, <3>2, <3>3, MoveKept DEF callbackVars
  <2>3. QED
    BY <2>1, <2>2
<1>3. CASE TakeCallbacks(r)
  <2>1. /\ callbacks' = [callbacks EXCEPT ![r] = IF callbacks[r] = "added" /\ ~Done(r) THEN "taken"
                                                 ELSE callbacks[r]]
        /\ UNCHANGED <<calls, dispatch, dispatch_closed>>
    BY <1>3 DEF TakeCallbacks
  <2>2. /\ calls[r] = IF callbacks[r] = "called" THEN 1 ELSE 0
        /\ Done(r) => callbacks[r] # "added"
    BY DEF CallbackInv, CallbackFor
  <2>3. /\ callbacks'[r] # "added" /\ (callbacks[r] = "queued" <=> callbacks'[r] = "queued")
        /\ callbacks[r] = "called" <=> callbacks'[r] = "called"
        /\ \A q \in Requests \ {r} : callbacks'[q] = callbacks[q]
    BY <1>0, <2>1, <2>2 DEF CallbackTypeOK
  <2>4. QED
    BY <1>1, <2>1, <2>2, <2>3, MoveKept
<1>4. QED
  BY <1>2, <1>3

\* The function of a job.
LEMMA PerformKept ==
  ASSUME TypeInv, CallbackInv, NEW j \in RealJob, Perform(j), UNCHANGED closing
  PROVE  CallbackInv'
<1>0. j.of \in Requests /\ j.do \in {"accepted", "running", "complete", "reject", "fail"} /\ FutureTypeOK
  BY DEF RealJob, TypeInv
<1>1. CASE j.do \in {"accepted", "running"}
  <2>1. /\ Progress(j.of, "ACCEPTED_QUEUED") \/ Progress(j.of, "RUNNING")
        /\ UNCHANGED <<error, callbackVars>>
    BY <1>1 DEF Perform
  <2>2. "ACCEPTED_QUEUED" \notin Final /\ "RUNNING" \notin Final
    BY DEF Final
  <2>3. \A q \in Requests : Done(q)' => Done(q)
    BY <1>0, <2>1, <2>2, DoneAfter
  <2>4. QED
    BY <2>1, <2>3, StillKept
<1>2. CASE j.do = "complete"
  <2>1. /\ Progress(j.of, FutureState(j.of, j.what)) /\ Dispatch(j.of)
    BY <1>2 DEF Perform, Settle
  <2>2. FutureState(j.of, j.what) \in Final
    BY DEF FutureState, Final
  <2>3. QED
    BY <1>0, <2>1, <2>2, SettleKept
<1>3. CASE j.do \in {"reject", "fail"}
  <2>1. Progress(j.of, "FAILED") /\ Dispatch(j.of) /\ "FAILED" \in Final
    BY <1>3 DEF Perform, Settle, Final
  <2>2. QED
    BY <1>0, <2>1, SettleKept
<1>4. QED
  BY <1>0, <1>1, <1>2, <1>3

LEMMA ScheduleKept ==
  ASSUME TypeInv, CallbackInv, NEW j \in RealJob, Schedule(j), UNCHANGED closing
  PROVE  CallbackInv'
<1>1. CASE Perform(j)
  BY <1>1, PerformKept
<1>2. CASE UNCHANGED <<futureVars, callbackVars>>
  BY <1>2, StillKept DEF futureVars, Done
<1>3. QED
  BY <1>1, <1>2 DEF Schedule

\* The dispatcher takes the head of its queue.
LEMMA DispatchKept ==
  ASSUME TypeInv, CallbackInv, DispatchCallback
  PROVE  CallbackInv'
<1>0. CallbackTypeOK /\ dispatch \in Seq(Askers) /\ dispatch # <<>>
  BY DEF TypeInv, CallbackTypeOK, DispatchCallback
<1>1. PICK r : r = Head(dispatch)
  OBVIOUS
<1>2. r \in Requests /\ r # Closer
  BY <1>0, <1>1, HeadTailProperties DEF DispatchCallback, Askers
<1>3. /\ dispatch' = Tail(dispatch) /\ UNCHANGED <<dispatch_closed, closing, submission_state>>
      /\ callbacks' = [callbacks EXCEPT ![r] = IF dispatch_closed THEN "called" ELSE "submitted"]
      /\ calls' = [calls EXCEPT ![r] = IF dispatch_closed THEN calls[r] + 1 ELSE calls[r]]
  BY <1>1 DEF DispatchCallback, CallbackFrame, shutdownVars, futureVars
<1>4. callbacks[r] = "queued" /\ One(dispatch, {r}, {r}) /\ calls[r] = 0
  <2>1. ~None(dispatch, {r})
    BY <1>0, <1>1, NoneStays
  <2>2. QED
    BY <1>2, <2>1 DEF CallbackInv, CallbackFor
<1>5. DispatchOK'
  <2>1. CASE ~dispatch_closed
    <3>1. None(dispatch, {Closer}) /\ closing # "done"
      BY <2>1 DEF CallbackInv, DispatchOK
    <3>2. None(dispatch', {Closer})
      BY <1>0, <1>3, <3>1, NoneStays
    <3>3. QED
      BY <1>3, <2>1, <3>1, <3>2 DEF DispatchOK
  <2>2. CASE dispatch_closed
    <3>1. One(dispatch, {Closer}, {Closer}) /\ dispatch[Len(dispatch)] = Closer /\ closing = "done"
      BY <2>2 DEF CallbackInv, DispatchOK
    <3>2. One(dispatch', {Closer}, {Closer})
      BY <1>0, <1>1, <1>2, <1>3, <3>1, OneStays
    <3>3. dispatch'[Len(dispatch')] = Closer
      <4>1. /\ Len(dispatch) \in Nat /\ Head(dispatch) = dispatch[1] /\ Len(dispatch') = Len(dispatch) - 1
            /\ \A i \in 1 .. Len(dispatch') : dispatch'[i] = dispatch[i + 1]
        BY <1>0, <1>3, HeadTailProperties
      <4>2. Len(dispatch) # 1 /\ Len(dispatch) # 0
        BY <1>0, <1>1, <1>2, <3>1, <4>1, EmptySeq
      <4>3. Len(dispatch') \in 1 .. Len(dispatch') /\ Len(dispatch') + 1 = Len(dispatch)
        BY <4>1, <4>2
      <4>4. QED
        BY <3>1, <4>1, <4>3
    <3>4. QED
      BY <1>3, <2>2, <3>1, <3>2, <3>3 DEF DispatchOK
  <2>3. QED
    BY <2>1, <2>2
<1>6. CallbackFor(r)'
  <2>1. None(dispatch', {r})
    BY <1>0, <1>1, <1>3, <1>4, OneStays
  <2>2. callbacks'[r] = (IF dispatch_closed THEN "called" ELSE "submitted")
        /\ calls'[r] = IF dispatch_closed THEN 1 ELSE 0
    BY <1>0, <1>2, <1>3, <1>4 DEF CallbackTypeOK
  <2>3. QED
    BY <2>1, <2>2 DEF CallbackFor
<1>7. ASSUME NEW q \in Requests, q # r PROVE CallbackFor(q)'
  <2>1. CallbackFor(q) /\ callbacks'[q] = callbacks[q] /\ calls'[q] = calls[q] /\ (Done(q)' <=> Done(q))
    BY <1>0, <1>3, <1>7 DEF CallbackTypeOK, CallbackInv, Done
  <2>2. None(dispatch, {q}) => None(dispatch', {q})
    BY <1>0, <1>3, NoneStays
  <2>3. One(dispatch, {q}, {q}) => One(dispatch', {q}, {q})
    BY <1>0, <1>1, <1>3, <1>7, OneStays
  <2>4. QED
    BY <2>1, <2>2, <2>3 DEF CallbackFor
<1>8. QED
  BY <1>5, <1>6, <1>7 DEF CallbackInv

\* The dispatcher is closed.
LEMMA DrainKept ==
  ASSUME TypeInv, CallbackInv, CloserDrains
  PROVE  CallbackInv'
<1>0. CallbackTypeOK /\ dispatch \in Seq(Askers) /\ Closer \in Askers
  BY DEF TypeInv, CallbackTypeOK, Askers
<1>1. /\ closing = "drain" /\ closing' = "done" /\ dispatch_closed' = TRUE
      /\ dispatch' = Append(dispatch, Closer) /\ UNCHANGED <<callbacks, calls, submission_state>>
  BY DEF CloserDrains, CloserGoes, CloserFrame, futureVars
<1>2. None(dispatch, {Closer})
  BY <1>1 DEF CallbackInv, DispatchOK
<1>3. One(dispatch', {Closer}, {Closer}) /\ dispatch'[Len(dispatch')] = Closer
  BY <1>0, <1>1, <1>2, OneBegins, AppendProperties
<1>4. ASSUME NEW q \in Requests PROVE CallbackFor(q)'
  <2>1. CallbackFor(q) /\ callbacks'[q] = callbacks[q] /\ calls'[q] = calls[q] /\ (Done(q)' <=> Done(q))
        /\ q # Closer
    BY <1>1 DEF CallbackInv, Done
  <2>2. None(dispatch, {q}) => None(dispatch', {q})
    BY <1>0, <1>1, <2>1, NoneStays
  <2>3. One(dispatch, {q}, {q}) => One(dispatch', {q}, {q})
    BY <1>0, <1>1, <2>1, OneStays
  <2>4. QED
    BY <2>1, <2>2, <2>3 DEF CallbackFor
<1>5. QED
  BY <1>1, <1>3, <1>4 DEF CallbackInv, DispatchOK

\* Only these steps set the state of a future, and with what.
LEMMA FutureSteps ==
  ASSUME TypeInv, [Next]_vars
  PROVE  \/ UNCHANGED submission_state
         \/ \E r \in Requests : /\ SenderTakes /\ Progress(r, "SENT_UNACKNOWLEDGED")
                                /\ r = Head(outbound).of /\ Head(outbound).kind = "SUBMIT"
         \/ ReceiverSchedules \/ LossSchedules \/ LaneRuns
         \/ \E t \in Askers, r \in Requests :
              /\ \/ CancelLocally(t, r)
                 \/ Decided(t) /\ asking[t] = r /\ Settle(r, "CANCELLED", "none") /\ TakeCallbacks(r)
                    /\ answer[t] = "cancelled"
              /\ UNCHANGED closing
<1>1. CASE SubmitStep
  BY <1>1 DEF SubmitStep, SubmitRefused, Refuse, Register, Enqueue, Drop, SubmitFrame
<1>2. CASE SenderStep
  <2>1. CASE SenderTakes
    <3>1. outbound # <<>> /\ Head(outbound) \in RealMessage
      BY <2>1, OutboundTypes DEF SenderTakes, TypeInv
    <3>2. Head(outbound).kind = "SUBMIT" => Head(outbound).of \in Requests
      BY <3>1 DEF RealMessage
    <3>3. QED
      BY <2>1, <3>2 DEF SenderTakes
  <2>2. QED
    BY <1>2, <2>1 DEF SenderStep, SenderSends, SenderFails
<1>3. CASE ReceiverStep
  BY <1>3 DEF ReceiverStep, ReceiverReads, ReceiverEnds, futureVars
<1>4. CASE LaneStep
  BY <1>4 DEF LaneStep, LaneAcks, LaneAckFails, LaneForgets, futureVars
<1>5. CASE LossStep
  BY <1>5 DEF LossStep, LossLooks, LossEnds, futureVars
<1>6. CASE AskStep
  <2>1. ASSUME NEW r \in Requests, CallerCancels(r)
        PROVE  (UNCHANGED submission_state \/ CancelLocally(r, r)) /\ UNCHANGED closing
    BY <2>1 DEF CallerCancels, Cancel, CancelGivesUp, CancelAsks, futureVars, shutdownVars
  <2>2. ASSUME CloserCancels
        PROVE  /\ UNCHANGED submission_state \/ \E r \in Requests : CancelLocally(Closer, r)
               /\ UNCHANGED closing
    <3>1. First(to_cancel) \in Requests
      BY <2>2, FirstIsOne DEF CloserCancels, TypeInv, CloserTypeOK
    <3>2. QED
      BY <2>2, <3>1 DEF CloserCancels, Cancel, CancelGivesUp, CancelAsks, futureVars
  <2>3. ASSUME NEW t \in Askers, Decided(t)
        PROVE  \/ UNCHANGED submission_state
               \/ /\ asking[t] \in Requests /\ Settle(asking[t], "CANCELLED", "none")
                  /\ TakeCallbacks(asking[t]) /\ answer[t] = "cancelled" /\ UNCHANGED closing
    BY <2>3 DEF Decided, futureVars, shutdownVars
  <2>4. ASSUME NEW t \in Askers, Undecided(t) PROVE UNCHANGED submission_state
    BY <2>4 DEF Undecided, futureVars
  <2>5. QED
    BY <1>6, <2>1, <2>2, <2>3, <2>4 DEF AskStep, Askers
<1>7. CASE UNCHANGED futureVars
  BY <1>7 DEF futureVars
<1>8. QED
  BY <1>1, <1>2, <1>3, <1>4, <1>5, <1>6, <1>7, Frames

\* The callbacks' invariant is inductive.
LEMMA CallbackInvKept ==
  ASSUME TypeInv, CallbackInv, [Next]_vars
  PROVE  CallbackInv'
<1>0. FutureTypeOK /\ CallbackTypeOK
  BY DEF TypeInv
<1>1. ASSUME UNCHANGED submission_state, UNCHANGED callbackVars,
             UNCHANGED closing \/ (closing # "done" /\ closing' # "done")
      PROVE  CallbackInv'
  <2>1. DispatchOK'
    BY <1>1 DEF CallbackInv, DispatchOK, callbackVars
  <2>2. ASSUME NEW q \in Requests PROVE CallbackFor(q)'
    BY <1>1 DEF CallbackInv, CallbackFor, callbackVars, Done
  <2>3. QED
    BY <2>1, <2>2 DEF CallbackInv
<1>2. CASE CallbackStep
  <2>1. UNCHANGED <<closing, submission_state>>
    BY <1>2 DEF CallbackStep, AddCallback, ScheduleCallbacks, RunCallback, DispatchCallback,
                CallbackFrame, shutdownVars, futureVars
  <2>2. \A q : Done(q)' <=> Done(q)
    BY <2>1 DEF Done
  <2>3. ASSUME NEW r \in Requests, AddCallback(r) PROVE CallbackInv'
    <3>1. /\ callbacks[r] = "none" /\ UNCHANGED <<dispatch, dispatch_closed>>
          /\ callbacks' = [callbacks EXCEPT ![r] = IF Done(r) THEN "called" ELSE "added"]
          /\ calls' = [calls EXCEPT ![r] = IF Done(r) THEN calls[r] + 1 ELSE calls[r]]
      BY <2>3 DEF AddCallback
    <3>2. calls[r] = 0
      BY <3>1 DEF CallbackInv, CallbackFor
    <3>3. /\ callbacks'[r] = (IF Done(r) THEN "called" ELSE "added")
          /\ calls'[r] = (IF Done(r) THEN 1 ELSE 0)
          /\ \A q \in Requests \ {r} : callbacks'[q] = callbacks[q] /\ calls'[q] = calls[q]
      BY <1>0, <3>1, <3>2 DEF CallbackTypeOK
    <3>4. QED
      BY <2>1, <2>2, <3>1, <3>3, MoveKept
  <2>4. ASSUME NEW r \in Requests, RunCallback(r) PROVE CallbackInv'
    <3>1. /\ callbacks[r] = "submitted" /\ UNCHANGED <<dispatch, dispatch_closed>>
          /\ callbacks' = [callbacks EXCEPT ![r] = "called"]
          /\ calls' = [calls EXCEPT ![r] = calls[r] + 1]
      BY <2>4 DEF RunCallback
    <3>2. calls[r] = 0
      BY <3>1 DEF CallbackInv, CallbackFor
    <3>3. /\ callbacks'[r] = "called" /\ calls'[r] = 1
          /\ \A q \in Requests \ {r} : callbacks'[q] = callbacks[q] /\ calls'[q] = calls[q]
      BY <1>0, <3>1, <3>2 DEF CallbackTypeOK
    <3>4. QED
      BY <2>1, <2>2, <3>1, <3>3, MoveKept
  <2>5. ASSUME NEW r \in Requests, ScheduleCallbacks(r) PROVE CallbackInv'
    BY <2>1, <2>2, <2>5, HandOverKept DEF ScheduleCallbacks
  <2>6. QED
    BY <1>2, <2>3, <2>4, <2>5, DispatchKept DEF CallbackStep
<1>3. CASE ReceiverSchedules
  <2>1. PICK j : j = receiver.hand
    OBVIOUS
  <2>2. j \in RealJob /\ Schedule(j) /\ UNCHANGED closing
    BY <1>3, <2>1, HandTypes DEF ReceiverSchedules, ReceiverFrame, shutdownVars
  <2>3. QED
    BY <2>2, ScheduleKept
<1>4. CASE LossSchedules
  <2>1. PICK j : j = verdict
    OBVIOUS
  <2>2. j \in RealJob /\ Schedule(j) /\ UNCHANGED closing
    BY <1>4, <2>1, HandTypes DEF LossSchedules, LossFrame, shutdownVars
  <2>3. QED
    BY <2>2, ScheduleKept
<1>5. CASE LaneRuns
  <2>1. PICK j : j = Head(jobs)
    OBVIOUS
  <2>2. j \in RealJob /\ Perform(j) /\ UNCHANGED closing
    BY <1>5, <2>1, HandTypes DEF LaneRuns, LaneFrame, shutdownVars
  <2>3. QED
    BY <2>2, PerformKept
<1>6. ASSUME NEW t \in Askers, NEW r \in Requests, UNCHANGED closing,
             \/ CancelLocally(t, r)
             \/ Settle(r, "CANCELLED", "none") /\ TakeCallbacks(r)
      PROVE  CallbackInv'
  <2>1. Progress(r, "CANCELLED") /\ TakeCallbacks(r) /\ "CANCELLED" \in Final
    BY <1>6 DEF CancelLocally, Settle, Final
  <2>2. QED
    BY <1>6, <2>1, SettleKept
<1>7. ASSUME NEW r \in Requests, SenderTakes, Progress(r, "SENT_UNACKNOWLEDGED") PROVE CallbackInv'
  <2>1. UNCHANGED <<closing, callbackVars>> /\ "SENT_UNACKNOWLEDGED" \notin Final
    BY <1>7 DEF SenderTakes, SenderFrame, shutdownVars, Final
  <2>2. \A q \in Requests : Done(q)' => Done(q)
    BY <1>0, <1>7, <2>1, DoneAfter
  <2>3. QED
    BY <2>1, <2>2, StillKept
<1>8. CASE CloserDrains
  BY <1>8, DrainKept
<1>9. ASSUME UNCHANGED submission_state,
             ~CallbackStep, ~ReceiverSchedules, ~LossSchedules, ~LaneRuns, ~CloserDrains
      PROVE  CallbackInv'
  <2>1. CASE AskStep
    <3>1. UNCHANGED closing
      BY <2>1 DEF AskStep, CallerCancels, CloserCancels, Decided, Undecided, shutdownVars
    <3>2. CASE UNCHANGED callbackVars
      BY <1>1, <1>9, <3>1, <3>2
    <3>3. ASSUME NEW r \in Requests, NEW e, Settle(r, "CANCELLED", e), TakeCallbacks(r) PROVE CallbackInv'
      <4>1. Progress(r, "CANCELLED") /\ "CANCELLED" \in Final
        BY <3>3 DEF Settle, Final
      <4>2. QED
        BY <3>1, <3>3, <4>1, SettleKept
    <3>4. UNCHANGED callbackVars \/ \E r \in Requests, e \in {"CancelledLocally", "none"} :
            Settle(r, "CANCELLED", e) /\ TakeCallbacks(r)
      <4>1. ASSUME NEW r \in Requests, CallerCancels(r)
            PROVE  \/ UNCHANGED callbackVars
                   \/ Settle(r, "CANCELLED", "CancelledLocally") /\ TakeCallbacks(r)
        BY <4>1 DEF CallerCancels, Cancel, CancelLocally, CancelGivesUp, CancelAsks
      <4>2. ASSUME CloserCancels
            PROVE  \/ UNCHANGED callbackVars
                   \/ \E r \in Requests : Settle(r, "CANCELLED", "CancelledLocally") /\ TakeCallbacks(r)
        <5>1. First(to_cancel) \in Requests
          BY <4>2, FirstIsOne DEF CloserCancels, TypeInv, CloserTypeOK
        <5>2. QED
          BY <4>2, <5>1 DEF CloserCancels, Cancel, CancelLocally, CancelGivesUp, CancelAsks
      <4>3. ASSUME NEW t \in Askers, Decided(t) \/ Undecided(t)
            PROVE  \/ UNCHANGED callbackVars
                   \/ /\ asking[t] \in Requests
                      /\ Settle(asking[t], "CANCELLED", "none") /\ TakeCallbacks(asking[t])
        BY <4>3 DEF Decided, Undecided
      <4>4. QED
        BY <2>1, <4>1, <4>2, <4>3 DEF AskStep
    <3>5. QED
      BY <3>2, <3>3, <3>4
  <2>2. CASE CloserMove
    <3>1. UNCHANGED callbackVars /\ closing # "done" /\ closing' # "done"
      BY <1>9, <2>2 DEF CloserMove, Shutdown, CloserStarts, CloserWaits, CloserAsks, CloserAnswered,
                        CloserCloses, CloserGoes
    <3>2. QED
      BY <1>1, <1>9, <3>1
  <2>3. CASE ReceiverStep \/ LaneStep \/ LossStep
    <3>1. UNCHANGED callbackVars /\ UNCHANGED closing
      BY <1>9, <2>3 DEF ReceiverStep, ReceiverReads, ReceiverEnds, LaneStep, LaneAcks, LaneAckFails,
                        LaneForgets, LossStep, LossLooks, LossEnds, ReceiverFrame, LaneFrame,
                        LossFrame, shutdownVars
    <3>2. QED
      BY <1>1, <1>9, <3>1
  <2>4. CASE UNCHANGED callbackVars /\ UNCHANGED shutdownVars
    <3>1. UNCHANGED closing
      BY <2>4 DEF shutdownVars
    <3>2. QED
      BY <1>1, <1>9, <2>4, <3>1
  <2>5. QED
    BY <1>9, <2>1, <2>2, <2>3, <2>4, Frames
<1>10. QED
  BY <1>2, <1>3, <1>4, <1>5, <1>6, <1>7, <1>8, <1>9, FutureSteps

LEMMA CallbackBegins == Init => CallbackInv
<1> SUFFICES ASSUME Init PROVE CallbackInv
  OBVIOUS
<1>1. \A X : None(dispatch, X)
  BY NoneEmpty DEF Init
<1>2. QED
  BY <1>1 DEF Init, CallbackInv, DispatchOK, CallbackFor, Done, Final

\* The dispatcher stops at its sentinel, and nothing is behind it.
LEMMA CallbackSuffices == TypeInv /\ CallbackInv => CallbackOnce
<1> SUFFICES ASSUME TypeInv, CallbackInv, NEW r \in Requests
             PROVE  /\ calls[r] <= 1
                    /\ Done(r) => callbacks[r] # "added"
                    /\ dispatch # <<>> /\ Head(dispatch) = Closer => callbacks[r] # "queued"
  BY DEF CallbackOnce
<1>1. CallbackFor(r) /\ DispatchOK
  BY DEF CallbackInv
<1>2. ASSUME dispatch # <<>>, Head(dispatch) = Closer, callbacks[r] = "queued" PROVE FALSE
  <2>1. One(dispatch, {r}, {r}) /\ dispatch \in Seq(Askers)
    BY <1>1, <1>2 DEF CallbackFor, TypeInv, CallbackTypeOK
  <2>2. Head(dispatch) \notin {r}
    BY <1>2
  <2>3. PICK T : T = Tail(dispatch)
    OBVIOUS
  <2>4. One(T, {r}, {r}) /\ T \in Seq(Askers)
    BY <1>2, <2>1, <2>2, <2>3, OneStays, HeadTailProperties
  <2>5. ~None(dispatch, {Closer})
    BY <1>2, <2>1, NoneStays
  <2>6. dispatch_closed /\ One(dispatch, {Closer}, {Closer}) /\ dispatch[Len(dispatch)] = Closer
    BY <1>1, <2>5 DEF DispatchOK
  <2>7. None(T, {Closer})
    BY <1>2, <2>1, <2>3, <2>6, OneStays
  <2>8. /\ Len(dispatch) \in Nat /\ Len(T) = Len(dispatch) - 1
        /\ \A i \in 1 .. Len(T) : T[i] = dispatch[i + 1]
    BY <1>2, <2>1, <2>3, HeadTailProperties
  <2>9. Len(T) \in Nat /\ Len(T) # 0
    <3>1. PICK i \in 1 .. Len(T) : T[i] = r
      BY <2>4 DEF One
    <3>2. QED
      BY <2>4, <3>1, LenProperties
  <2>10. Len(T) \in 1 .. Len(T) /\ Len(T) + 1 = Len(dispatch)
    BY <2>8, <2>9
  <2>11. QED
    BY <2>6, <2>7, <2>8, <2>10 DEF None
<1>3. QED
  BY <1>1, <1>2 DEF CallbackFor

\* A callback is called at most once, a future that is done leaves none behind,
\* and none is queued behind the dispatcher's sentinel: although add_done_callback,
\* the thread that settles the future, the dispatcher, its executor and the closing
\* of both meet in any order.
THEOREM CallbacksAreCalledOnce == Spec => []CallbackOnce
<1>1. Spec => [](TypeInv /\ CallbackInv)
  BY TypeBegins, TypeStep, CallbackBegins, CallbackInvKept, PTL DEF Spec
<1>2. QED
  BY <1>1, CallbackSuffices, PTL

-----------------------------------------------------------------------------
(* The way of a submission.                                                *)

\* No future becomes pending again, and none that is done changes.
LEMMA StateSteps ==
  ASSUME TypeInv, [Next]_vars
  PROVE  \/ UNCHANGED submission_state
         \/ \E r \in Requests, s \in {"SENT_UNACKNOWLEDGED", "ACCEPTED_QUEUED", "RUNNING"} \cup Final :
              Progress(r, s)
<1>1. ASSUME NEW j \in RealJob, Perform(j)
      PROVE  \E r \in Requests, s \in {"SENT_UNACKNOWLEDGED", "ACCEPTED_QUEUED", "RUNNING"} \cup Final :
               Progress(r, s)
  <2>1. j.of \in Requests
    BY DEF RealJob
  <2>2. FutureState(j.of, j.what) \in Final /\ "FAILED" \in Final
    BY DEF FutureState, Final
  <2>3. QED
    BY <1>1, <2>1, <2>2 DEF Perform, Settle
<1>2. ASSUME NEW j \in RealJob, Schedule(j) PROVE Perform(j) \/ UNCHANGED submission_state
  BY <1>2 DEF Schedule, futureVars
<1>3. ReceiverSchedules => receiver.hand \in RealJob /\ Schedule(receiver.hand)
  BY HandTypes DEF ReceiverSchedules
<1>4. LossSchedules => verdict \in RealJob /\ Schedule(verdict)
  BY HandTypes DEF LossSchedules
<1>5. LaneRuns => Head(jobs) \in RealJob /\ Perform(Head(jobs))
  BY HandTypes DEF LaneRuns
<1>6. \A t, r : CancelLocally(t, r) => Progress(r, "CANCELLED")
  BY DEF CancelLocally, Settle
<1>7. "CANCELLED" \in Final
  BY DEF Final
<1>8. QED
  BY <1>1, <1>2, <1>3, <1>4, <1>5, <1>6, <1>7, FutureSteps DEF Settle

LEMMA NotPendingAgain ==
  ASSUME TypeInv, [Next]_vars, NEW r \in Requests
  PROVE  /\ submission_state'[r] = "LOCAL_PENDING" => submission_state[r] = "LOCAL_PENDING"
         /\ Done(r) => submission_state'[r] = submission_state[r]
<1>0. FutureTypeOK
  BY DEF TypeInv
<1>1. ASSUME NEW q \in Requests, NEW s \in {"SENT_UNACKNOWLEDGED", "ACCEPTED_QUEUED", "RUNNING"} \cup Final,
             Progress(q, s)
      PROVE  /\ submission_state'[r] = "LOCAL_PENDING" => submission_state[r] = "LOCAL_PENDING"
             /\ Done(r) => submission_state'[r] = submission_state[r]
  BY <1>0, <1>1 DEF Progress, FutureTypeOK, Done, Final
<1>2. QED
  BY <1>1, StateSteps

\* How the server changes its mind about a request.
LEMMA ServerSteps ==
  ASSUME TypeInv, [Next]_vars, NEW r \in Requests
  PROVE  \/ st'[r] = st[r]
         \/ /\ ServerReads /\ Head(wire) \in SubmitOf(r) /\ st[r] = "UNSENT"
            /\ st'[r] \in {"ACCEPTED_QUEUED", "REJECTED"}
         \/ /\ st[r] \in {"ACCEPTED_QUEUED", "RUNNING"}
            /\ st'[r] \in Successors(st[r])
<1>0. st \in [Requests -> States] /\ ServerTypeOK
  BY DEF TypeInv, ServerTypeOK
<1>1. ASSUME NEW q \in Requests, NEW v, NEW more, Report(q, v, more)
      PROVE  /\ v \in Successors(st[q])
             /\ q = r => st'[r] = v
             /\ q # r => st'[r] = st[r]
  BY <1>0, <1>1 DEF Report
<1>2. CASE ServerReads
  <2> DEFINE m == Head(wire)
  <2>1. m \in RealMessage /\ wire # <<>>
    BY <1>0, <1>2, WireTypes DEF ServerReads
  <2>2. CASE ServerSubmits(m)
    <3>1. m.of \in Requests /\ m.kind = "SUBMIT"
      BY <2>1, <2>2 DEF ServerSubmits, RealMessage
    <3>2. PICK v \in {"ACCEPTED_QUEUED", "REJECTED"} : Report(m.of, v, <<>>)
      BY <2>2 DEF ServerSubmits
    <3>3. CASE m.of = r
      <4>1. m \in SubmitOf(r)
        BY <2>1, <3>1, <3>3 DEF SubmitOf
      <4>2. v \in Successors(st[r]) /\ st'[r] = v
        BY <1>1, <3>1, <3>2, <3>3
      <4>3. st[r] = "UNSENT"
        BY <1>0, <4>2 DEF Successors, WithoutRun, AfterRun
      <4>4. QED
        BY <1>2, <4>1, <4>2, <4>3
    <3>4. CASE m.of # r
      BY <1>1, <3>1, <3>2, <3>4
    <3>5. QED
      BY <3>3, <3>4
  <2>3. CASE ServerCancels(m)
    <3>1. m.of \in Requests /\ m.kind = "CANCEL_REQUEST"
      BY <2>1, <2>3 DEF ServerCancels, RealMessage
    <3>2. \/ st[m.of] \in {"ACCEPTED_QUEUED", "RUNNING"} /\ Report(m.of, "CANCELLED", Reply(m, "cancelled"))
          \/ UNCHANGED st
      BY <2>3 DEF ServerCancels
    <3>3. QED
      BY <1>1, <3>1, <3>2
  <2>4. QED
    BY <1>2, <2>2, <2>3 DEF ServerReads
<1>3. ASSUME NEW q \in Requests, ServerWorks(q)
      PROVE  \/ st'[r] = st[r]
             \/ st[r] \in {"ACCEPTED_QUEUED", "RUNNING"} /\ st'[r] \in Successors(st[r])
  <2>1. st[q] \in {"ACCEPTED_QUEUED", "RUNNING"} /\ \E v : Report(q, v, <<>>)
    BY <1>3 DEF ServerWorks
  <2>2. QED
    BY <1>1, <2>1
<1>4. CASE LinkFails
  BY <1>4 DEF LinkFails
<1>5. CASE UNCHANGED serverVars
  BY <1>5 DEF serverVars
<1>6. QED
  BY <1>2, <1>3, <1>4, <1>5, Frames DEF ServerStep

\* A submission that is neither put, taken, sent nor read stays where it is.
LEMMA WayStays ==
  ASSUME TypeInv, NEW r \in Requests, WayOK(r),
         caller'[r] # "returned" => caller[r] # "returned",
         submission_state'[r] = "LOCAL_PENDING" => submission_state[r] = "LOCAL_PENDING",
         None(outbound, SubmitOf(r)) => None(outbound', SubmitOf(r)),
         One(outbound, SubmitOf(r), SubmitOf(r)) =>
           One(outbound', SubmitOf(r), SubmitOf(r)) \/ None(outbound', SubmitOf(r)),
         None(wire, SubmitOf(r)) => None(wire', SubmitOf(r)),
         InHand(r)' => InHand(r),
         st[r] = "UNSENT" => st'[r] = "UNSENT"
  PROVE  WayOK(r)'
<1>1. SubmitOf(r)' = SubmitOf(r)
  BY DEF SubmitOf, RealMessage, Message, Askers
<1>2. WayOK(r)' <=>
      /\ caller'[r] # "returned" => /\ None(outbound', SubmitOf(r)) /\ ~InHand(r)'
                                    /\ None(wire', SubmitOf(r)) /\ st'[r] = "UNSENT"
      /\ \/ None(outbound', SubmitOf(r))
         \/ /\ One(outbound', SubmitOf(r), SubmitOf(r)) /\ ~InHand(r)'
            /\ None(wire', SubmitOf(r)) /\ st'[r] = "UNSENT"
      /\ InHand(r)' => None(wire', SubmitOf(r)) /\ st'[r] = "UNSENT"
      /\ submission_state'[r] = "LOCAL_PENDING" =>
           ~InHand(r)' /\ None(wire', SubmitOf(r)) /\ st'[r] = "UNSENT"
  BY <1>1 DEF WayOK, None, One
<1>3. QED
  BY <1>2 DEF WayOK

\* Messages of other kinds, and the queue without its head.
LEMMA SubmitQueue ==
  ASSUME NEW s \in Seq(RealMessage), NEW r
  PROVE  /\ \A m \in RealMessage : m \notin SubmitOf(r) =>
              /\ None(s, SubmitOf(r)) => None(Append(s, m), SubmitOf(r))
              /\ One(s, SubmitOf(r), SubmitOf(r)) => One(Append(s, m), SubmitOf(r), SubmitOf(r))
         /\ s # <<>> =>
              /\ None(s, SubmitOf(r)) => None(Tail(s), SubmitOf(r)) /\ Head(s) \notin SubmitOf(r)
              /\ One(s, SubmitOf(r), SubmitOf(r)) =>
                   IF Head(s) \in SubmitOf(r) THEN None(Tail(s), SubmitOf(r))
                   ELSE One(Tail(s), SubmitOf(r), SubmitOf(r))
<1>1. PICK X : X = SubmitOf(r)
  OBVIOUS
<1>2. X \in SUBSET X
  OBVIOUS
<1>3. None(s, X) => /\ \A e \in RealMessage : e \notin X => None(Append(s, e), X)
                    /\ s # <<>> => Head(s) \notin X /\ None(Tail(s), X)
  BY NoneStays
<1>4. One(s, X, X) => /\ \A e \in RealMessage : e \notin X => One(Append(s, e), X, X)
                      /\ Head(s) \in X => None(Tail(s), X)
                      /\ Head(s) \notin X => One(Tail(s), X, X)
  BY <1>2, OneStays
<1>5. QED
  BY <1>1, <1>3, <1>4

\* Each step keeps the way of request r.
LEMMA WayKept ==
  ASSUME TypeInv, [Next]_vars, NEW r \in Requests, WayOK(r)
  PROVE  WayOK(r)'
<1>0. /\ outbound \in Seq(RealMessage) /\ wire \in Seq(RealMessage)
      /\ caller \in [Requests -> {"start", "registered", "returned", "raised"}]
      /\ st \in [Requests -> States]
  BY DEF TypeInv, OutboundOK, ServerTypeOK, SubmitTypeOK
<1>1. submission_state'[r] = "LOCAL_PENDING" => submission_state[r] = "LOCAL_PENDING"
  BY NotPendingAgain
<1>a. SubmitOf(r)' = SubmitOf(r)
  BY DEF SubmitOf, RealMessage, Message, Askers
<1>b. \A m : m \in SubmitOf(r) => m.kind = "SUBMIT" /\ m.of = r
  BY DEF SubmitOf
<1>2. CASE SubmitStep
  <2>1. UNCHANGED <<st, wire, sender>>
    BY <1>2 DEF SubmitStep, SubmitRefused, Refuse, Register, Enqueue, Drop, SubmitFrame, serverVars,
                threadVars
  <2>2. InHand(r)' => InHand(r)
    BY <1>a, <2>1 DEF InHand
  <2>3. PICK q \in Requests : SubmitRefused(q) \/ Register(q) \/ Enqueue(q) \/ Drop(q)
    BY <1>2 DEF SubmitStep
  <2>4. caller'[r] # "returned" => caller[r] # "returned"
    BY <1>0, <2>3 DEF SubmitRefused, Refuse, Register, Enqueue, Drop
  <2>5. CASE UNCHANGED outbound
    BY <1>1, <2>1, <2>2, <2>4, <2>5, WayStays
  <2>6. CASE Enqueue(q)
    <3>1. PICK m : m = [kind |-> "SUBMIT", of |-> q, by |-> q, hard |-> FALSE]
      OBVIOUS
    <3>2. m \in RealMessage /\ outbound' = Append(outbound, m) /\ m.of = q /\ m.kind = "SUBMIT"
      BY <2>6, <3>1, MessageTypes DEF Enqueue, Put
    <3>3. CASE q # r
      <4>1. m \notin SubmitOf(r)
        BY <1>b, <3>2, <3>3
      <4>2. /\ None(outbound, SubmitOf(r)) => None(outbound', SubmitOf(r))
            /\ One(outbound, SubmitOf(r), SubmitOf(r)) => One(outbound', SubmitOf(r), SubmitOf(r))
        BY <1>0, <3>2, <4>1, SubmitQueue
      <4>3. QED
        BY <1>1, <2>1, <2>2, <2>4, <4>2, WayStays
    <3>4. CASE q = r
      <4>1. caller[r] # "returned" /\ caller'[r] = "returned"
        BY <1>0, <2>6, <3>4 DEF Enqueue
      <4>2. None(outbound, SubmitOf(r)) /\ ~InHand(r) /\ None(wire, SubmitOf(r)) /\ st[r] = "UNSENT"
        BY <4>1 DEF WayOK
      <4>3. m \in SubmitOf(r)
        BY <3>2, <3>4 DEF SubmitOf
      <4>4. One(outbound', SubmitOf(r), SubmitOf(r))
        BY <1>0, <3>2, <4>2, <4>3, OneBegins
      <4>5. One(outbound, SubmitOf(r), SubmitOf(r))' /\ None(wire, SubmitOf(r))' /\ ~InHand(r)'
        BY <1>a, <2>1, <2>2, <4>2, <4>4 DEF One, None
      <4>6. QED
        BY <2>1, <4>1, <4>2, <4>5 DEF WayOK
    <3>5. QED
      BY <3>3, <3>4
  <2>7. QED
    BY <2>3, <2>5, <2>6 DEF SubmitRefused, Refuse, Register, Drop
<1>3. CASE SenderStep
  <2>1. UNCHANGED <<st, caller>>
    BY <1>3 DEF SenderStep, SenderTakes, SenderSends, SenderFails, SenderFrame, serverVars, submitVars
  <2>2. CASE SenderTakes
    <3>1. /\ outbound # <<>> /\ outbound' = Tail(outbound) /\ UNCHANGED wire /\ sender.at = "get"
          /\ \/ sender' = [at |-> "send", hand |-> Head(outbound)]
             \/ sender' = sender \/ sender' = [sender EXCEPT !.at = "exit"]
      BY <2>2 DEF SenderTakes
    <3>2. sender \in [at : {"get", "exit"}, hand : Message]
      BY <3>1 DEF TypeInv, SenderOK
    <3>3. ~InHand(r) /\ (InHand(r)' => Head(outbound) \in SubmitOf(r))
      BY <1>a, <3>1, <3>2 DEF InHand
    <3>4. CASE Head(outbound) \notin SubmitOf(r)
      <4>1. /\ None(outbound, SubmitOf(r)) => None(outbound', SubmitOf(r))
            /\ One(outbound, SubmitOf(r), SubmitOf(r)) => One(outbound', SubmitOf(r), SubmitOf(r))
        BY <1>0, <3>1, <3>4, SubmitQueue
      <4>2. QED
        BY <1>1, <2>1, <3>1, <3>3, <3>4, <4>1, WayStays
    <3>5. CASE Head(outbound) \in SubmitOf(r)
      <4>1. ~None(outbound, SubmitOf(r))
        BY <1>0, <3>1, <3>5, SubmitQueue
      <4>2. /\ One(outbound, SubmitOf(r), SubmitOf(r)) /\ None(wire, SubmitOf(r)) /\ st[r] = "UNSENT"
            /\ caller[r] = "returned"
        BY <4>1 DEF WayOK
      <4>3. None(outbound', SubmitOf(r))
        BY <1>0, <3>1, <3>5, <4>2, SubmitQueue
      <4>4. submission_state'[r] # "LOCAL_PENDING"
        <5>1. Progress(r, "SENT_UNACKNOWLEDGED")
          BY <1>b, <2>2, <3>5 DEF SenderTakes
        <5>2. QED
          BY <5>1 DEF Progress, Done, Final, TypeInv, FutureTypeOK
      <4>5. None(outbound, SubmitOf(r))' /\ None(wire, SubmitOf(r))'
        BY <1>a, <3>1, <4>2, <4>3 DEF None
      <4>6. QED
        BY <2>1, <4>2, <4>4, <4>5 DEF WayOK
    <3>6. QED
      BY <3>4, <3>5
  <2>3. CASE SenderSends
    <3>1. /\ sender.at = "send" /\ UNCHANGED outbound
          /\ wire' = wire \/ wire' = Append(wire, sender.hand)
          /\ sender' = [at |-> "get", hand |-> Stop]
      BY <2>3 DEF SenderSends
    <3>2. sender.hand \in RealMessage /\ ~InHand(r)'
      BY <3>1 DEF TypeInv, SenderOK, InHand
    <3>3. CASE ~InHand(r)
      <4>1. sender.hand \notin SubmitOf(r)
        BY <3>1, <3>3 DEF InHand
      <4>2. None(wire, SubmitOf(r)) => None(wire', SubmitOf(r))
        <5>1. None(wire, SubmitOf(r)) => None(Append(wire, sender.hand), SubmitOf(r))
          BY <1>0, <3>2, <4>1, SubmitQueue
        <5>2. QED
          BY <3>1, <5>1
      <4>3. QED
        BY <1>1, <2>1, <3>1, <3>2, <4>2, WayStays
    <3>4. CASE InHand(r)
      <4>1. caller[r] = "returned" /\ None(outbound, SubmitOf(r)) /\ submission_state[r] # "LOCAL_PENDING"
        BY <3>4 DEF WayOK
      <4>2. None(outbound, SubmitOf(r))'
        BY <1>a, <3>1, <4>1 DEF None
      <4>3. QED
        BY <1>1, <2>1, <3>2, <4>1, <4>2 DEF WayOK
    <3>5. QED
      BY <3>3, <3>4
  <2>4. CASE SenderFails
    <3>1. UNCHANGED <<wire, outbound>> /\ ~InHand(r)'
      BY <2>4 DEF SenderFails, InHand
    <3>2. QED
      BY <1>1, <2>1, <3>1, WayStays
  <2>5. QED
    BY <1>3, <2>2, <2>3, <2>4 DEF SenderStep
<1>4. CASE ServerStep
  <2>1. UNCHANGED <<caller, outbound, sender>>
    BY <1>4 DEF ServerStep, ServerReads, LinkFails, ServerWorks, ServerFrame, submitVars, threadVars
  <2>2. InHand(r)' => InHand(r)
    BY <1>a, <2>1 DEF InHand
  <2>3. CASE ServerReads
    <3>1. wire # <<>> /\ wire' = Tail(wire)
      BY <2>3 DEF ServerReads
    <3>2. CASE Head(wire) \in SubmitOf(r)
      <4>1. ~None(wire, SubmitOf(r))
        BY <1>0, <3>1, <3>2, SubmitQueue
      <4>2. /\ caller[r] = "returned" /\ None(outbound, SubmitOf(r)) /\ ~InHand(r)
            /\ submission_state[r] # "LOCAL_PENDING"
        BY <4>1 DEF WayOK
      <4>3. None(outbound, SubmitOf(r))'
        BY <1>a, <2>1, <4>2 DEF None
      <4>4. QED
        BY <1>1, <2>1, <2>2, <4>2, <4>3 DEF WayOK
    <3>3. CASE Head(wire) \notin SubmitOf(r)
      <4>1. None(wire, SubmitOf(r)) => None(wire', SubmitOf(r))
        BY <1>0, <3>1, SubmitQueue
      <4>2. st[r] = "UNSENT" => st'[r] = "UNSENT"
        BY <3>3, ServerSteps
      <4>3. QED
        BY <1>1, <2>1, <2>2, <4>1, <4>2, WayStays
    <3>4. QED
      BY <3>2, <3>3
  <2>4. CASE ~ServerReads
    <3>1. st[r] = "UNSENT" => st'[r] = "UNSENT"
      BY <2>4, ServerSteps
    <3>2. wire' = wire \/ wire' = <<>>
      BY <1>4, <2>4 DEF ServerStep, LinkFails, ServerWorks
    <3>3. None(wire, SubmitOf(r)) => None(wire', SubmitOf(r))
      BY <3>2, NoneEmpty
    <3>4. QED
      BY <1>1, <2>1, <2>2, <3>1, <3>3, WayStays
  <2>5. QED
    BY <2>3, <2>4
<1>5. ASSUME ~SubmitStep, ~SenderStep, ~ServerStep PROVE WayOK(r)'
  <2>1. UNCHANGED <<caller, wire, sender, st>>
    BY <1>5, Frames DEF submitVars, serverVars
  <2>2. InHand(r)' => InHand(r)
    BY <1>a, <2>1 DEF InHand
  <2>3. /\ None(outbound, SubmitOf(r)) => None(outbound', SubmitOf(r))
        /\ One(outbound, SubmitOf(r), SubmitOf(r)) => One(outbound', SubmitOf(r), SubmitOf(r))
    <3>1. CASE UNCHANGED outbound
      BY <3>1
    <3>2. ASSUME NEW m \in RealMessage, m.kind # "SUBMIT", outbound' = Append(outbound, m)
          PROVE  /\ None(outbound, SubmitOf(r)) => None(outbound', SubmitOf(r))
                 /\ One(outbound, SubmitOf(r), SubmitOf(r)) => One(outbound', SubmitOf(r), SubmitOf(r))
      <4>1. m \notin SubmitOf(r)
        BY <1>b, <3>2
      <4>2. QED
        BY <1>0, <3>2, <4>1, SubmitQueue
    <3>3. QED
      BY <1>5, <3>1, <3>2, OutboundSteps DEF SubmitStep, SenderStep
  <2>4. QED
    BY <1>1, <2>1, <2>2, <2>3, WayStays
<1>6. QED
  BY <1>2, <1>3, <1>4, <1>5

\* How the connection and the lane depend on one another.
LEMMA LinkInvKept ==
  ASSUME TypeInv, LinkOK, [Next]_vars
  PROVE  LinkOK'
<1> DEFINE A == /\ ~sock => up = {}
                /\ failed => ~sock
           B == /\ losing # "none" => failed
                /\ verdict # NoJob => losing # "none"
           C == dispatch_closed => jobs = <<>>
<1>0. A /\ B /\ C
  BY DEF LinkOK
<1>1. ASSUME NEW t \in {"sender", "receiver", "lane"}, BeginLoss(t) PROVE A' /\ B'
  BY <1>0, <1>1 DEF BeginLoss, CloseSocket, linkVars, lossVars
<1>2. A'
  <2>0. ASSUME UNCHANGED <<failed, sock, up>> PROVE A'
    BY <1>0, <2>0
  <2>1. CASE SenderStep
    <3>1. BeginLoss("sender") \/ UNCHANGED linkVars
      BY <2>1 DEF SenderStep, SenderTakes, SenderSends, SenderFails
    <3>2. QED
      BY <1>1, <2>0, <3>1 DEF linkVars
  <2>2. CASE ReceiverStep
    <3>1. BeginLoss("receiver") \/ UNCHANGED <<failed, sock, up>>
      BY <2>2 DEF ReceiverStep, ReceiverReads, ReceiverSchedules, ReceiverEnds, linkVars
    <3>2. QED
      BY <1>1, <2>0, <3>1
  <2>3. CASE LaneStep
    <3>1. BeginLoss("lane") \/ UNCHANGED linkVars
      BY <2>3 DEF LaneStep, LaneRuns, LaneAcks, LaneAckFails, LaneForgets
    <3>2. QED
      BY <1>1, <2>0, <3>1 DEF linkVars
  <2>4. CASE CloserMove
    <3>1. CloseSocket \/ UNCHANGED <<failed, sock, up>>
      BY <2>4 DEF CloserMove, Shutdown, CloserStarts, CloserWaits, CloserAsks, CloserAnswered,
                  CloserCloses, CloserDrains, CloserGoes, CloserFrame
    <3>2. CloseSocket => A'
      BY DEF CloseSocket
    <3>3. QED
      BY <2>0, <3>1, <3>2
  <2>5. CASE ServerStep
    <3>1. UNCHANGED <<failed, sock>> /\ (UNCHANGED up \/ up' = {})
      BY <2>5 DEF ServerStep, ServerReads, ServerSubmits, ServerCancels, Report, LinkFails,
                  ServerWorks, ServerFrame
    <3>2. QED
      BY <1>0, <3>1
  <2>6. CASE UNCHANGED linkVars
    BY <1>0, <2>6 DEF linkVars
  <2>7. QED
    BY <2>1, <2>2, <2>3, <2>4, <2>5, <2>6, Frames
<1>3. B'
  <2>1. CASE SenderStep
    BY <1>0, <1>1, <2>1 DEF SenderStep, SenderTakes, SenderSends, SenderFails, linkVars, lossVars
  <2>2. CASE ReceiverStep
    BY <1>0, <1>1, <2>2 DEF ReceiverStep, ReceiverReads, ReceiverSchedules, ReceiverEnds, linkVars,
                            lossVars
  <2>3. CASE LaneStep
    BY <1>0, <1>1, <2>3 DEF LaneStep, LaneRuns, LaneAcks, LaneAckFails, LaneForgets, linkVars, lossVars
  <2>4. CASE LossStep
    BY <1>0, <2>4 DEF LossStep, LossLooks, LossSchedules, LossEnds, LossFrame, linkVars
  <2>5. CASE CloserMove
    BY <1>0, <2>5, Steps DEF CloserMove, Shutdown, CloserStarts, CloserWaits, CloserAsks,
                             CloserAnswered, CloserCloses, CloserDrains, CloserGoes, CloserFrame,
                             threadVars, lossVars
  <2>6. CASE ServerStep
    BY <1>0, <2>6 DEF ServerStep, ServerReads, LinkFails, ServerWorks, ServerFrame, threadVars, lossVars
  <2>7. CASE UNCHANGED linkVars /\ UNCHANGED lossVars
    BY <1>0, <2>7 DEF linkVars, lossVars
  <2>8. QED
    BY <2>1, <2>2, <2>3, <2>4, <2>5, <2>6, <2>7, Frames
<1>4. C'
  <2>1. ASSUME NEW j, Schedule(j) PROVE C'
    <3>1. CASE dispatch_closed
      <4>1. UNCHANGED jobs
        BY <2>1, <3>1 DEF Schedule
      <4>2. QED
        BY <1>0, <3>1, <4>1
    <3>2. CASE ~dispatch_closed
      <4>1. UNCHANGED dispatch_closed
        BY <2>1, <3>2 DEF Schedule, callbackVars
      <4>2. QED
        BY <3>2, <4>1
    <3>3. QED
      BY <3>1, <3>2
  <2>2. ASSUME NEW j, Perform(j) PROVE UNCHANGED dispatch_closed
    BY <2>2 DEF Perform, Dispatch, HandOver, callbackVars
  <2>3. CASE ReceiverStep
    BY <1>0, <2>1, <2>3 DEF ReceiverStep, ReceiverReads, ReceiverSchedules, ReceiverEnds, callbackVars
  <2>4. CASE LossStep
    BY <1>0, <2>1, <2>4 DEF LossStep, LossLooks, LossSchedules, LossEnds, callbackVars
  <2>5. CASE LaneStep
    <3>1. UNCHANGED dispatch_closed
      BY <2>2, <2>5 DEF LaneStep, LaneRuns, LaneAcks, LaneAckFails, LaneForgets, callbackVars
    <3>2. jobs # <<>> \/ UNCHANGED jobs
      BY <2>5 DEF LaneStep, LaneRuns, LaneAcks, LaneAckFails, LaneForgets, TypeInv, JobsOK
    <3>3. QED
      BY <1>0, <3>1, <3>2
  <2>6. CASE CallbackStep
    BY <1>0, <2>6 DEF CallbackStep, AddCallback, ScheduleCallbacks, RunCallback, DispatchCallback,
                      HandOver, CallbackFrame, threadVars, laneVars
  <2>7. CASE AskStep
    <3>1. UNCHANGED jobs
      BY <2>7 DEF AskStep, CallerCancels, CloserCancels, Cancel, Decided, Undecided, AskFrame,
                  threadVars, laneVars
    <3>2. UNCHANGED dispatch_closed
      BY <2>7 DEF AskStep, CallerCancels, CloserCancels, Cancel, CancelLocally, CancelGivesUp,
                  CancelAsks, Decided, Undecided, TakeCallbacks, callbackVars
    <3>3. QED
      BY <1>0, <3>1, <3>2
  <2>8. CASE CloserMove
    BY <1>0, <2>8 DEF CloserMove, Shutdown, CloserStarts, CloserWaits, CloserAsks, CloserAnswered,
                      CloserCloses, CloserDrains, CloserGoes, CloserFrame, threadVars, laneVars,
                      callbackVars
  <2>9. CASE UNCHANGED laneVars /\ UNCHANGED callbackVars
    BY <1>0, <2>9 DEF laneVars, callbackVars
  <2>10. QED
    BY <2>3, <2>4, <2>5, <2>6, <2>7, <2>8, <2>9, Frames
<1>5. QED
  BY <1>2, <1>3, <1>4 DEF LinkOK

LEMMA WayBegins == Init => WayInv
<1> SUFFICES ASSUME Init PROVE WayInv
  OBVIOUS
<1>1. \A X : None(outbound, X) /\ None(wire, X)
  BY NoneEmpty DEF Init
<1>2. ASSUME NEW r \in Requests PROVE WayOK(r)
  BY <1>1 DEF Init, ServiceInit, WayOK, InHand
<1>3. LinkOK
  BY DEF Init, LinkOK
<1>4. QED
  BY <1>2, <1>3 DEF WayInv

LEMMA WayStep == TypeInv /\ WayInv /\ [Next]_vars => WayInv'
  BY WayKept, LinkInvKept DEF WayInv

-----------------------------------------------------------------------------
(* Reports arrive in order.                                                *)

\* Ranks are numbers, and no report ranks below 2.
LEMMA RankTypes ==
  ASSUME TypeInv, NEW r \in Requests
  PROVE  /\ NoteRanks(r) \subseteq 2 .. 4 /\ JobRanks(r) \subseteq 2 .. 4 /\ HandRanks(r) \subseteq 2 .. 4
         /\ ServerRank(r) \in 1 .. 4 /\ Stage(submission_state[r]) \in 0 .. 4
         /\ \A n \in DOMAIN NoteRank(r) : NoteRank(r)[n] = Stage(n.what) /\ Stage(n.what) \in 2 .. 4
         /\ \A j \in DOMAIN JobRank(r) : JobRank(r)[j] \in 2 .. 4
<1>1. \A v \in States \ {"UNSENT"} : Stage(v) \in 2 .. 4
  BY DEF Stage, States, Ended, AfterRun, WithoutRun
<1>2. \A n \in DOMAIN NoteRank(r) : NoteRank(r)[n] = Stage(n.what) /\ Stage(n.what) \in 2 .. 4
  BY <1>1 DEF NoteRank, Report_
<1>3. \A j \in DOMAIN JobRank(r) : JobRank(r)[j] \in 2 .. 4
  BY DEF JobRank
<1>4. NoteRanks(r) \subseteq 2 .. 4
  BY <1>2 DEF NoteRanks, Ranks
<1>5. JobRanks(r) \subseteq 2 .. 4
  BY <1>3 DEF JobRanks, Ranks
<1>6. HandRanks(r) \subseteq 2 .. 4
  BY <1>3 DEF HandRanks
<1>7. ServerRank(r) \in 1 .. 4
  BY <1>1 DEF ServerRank, TypeInv, ServerTypeOK
<1>8. Stage(submission_state[r]) \in 0 .. 4
  BY DEF Stage
<1>9. QED
  BY <1>2, <1>3, <1>4, <1>5, <1>6, <1>7, <1>8

\* The reports that name r, and the jobs they become.
LEMMA RankDomains ==
  ASSUME NEW r \in Requests
  PROVE  /\ \A n \in Report_ : n \in DOMAIN NoteRank(r) <=> n.of = r
         /\ \A a \in Answer_ : a \notin DOMAIN NoteRank(r)
         /\ \A j \in RealJob : j \in DOMAIN JobRank(r) <=> j.of = r /\ j.do # "fail"
         /\ \A q \in Requests, v \in States \ {"UNSENT"} :
              JobOf(q, v) \in DOMAIN JobRank(r) => q = r /\ JobRank(r)[JobOf(q, v)] = Stage(v)
<1>1. \A d \in Decisions : d \notin States
  BY DEF Decisions, States, Ended, AfterRun, WithoutRun
<1>2. DOMAIN NoteRank(r) = {n \in Report_ : n.of = r}
  BY DEF NoteRank
<1>3. \A a \in Answer_ : a \notin DOMAIN NoteRank(r)
  BY <1>1, <1>2 DEF Report_, Answer_
<1>4. DOMAIN JobRank(r) = {k \in RealJob : k.of = r /\ k.do # "fail"}
  BY DEF JobRank
<1>5. ASSUME NEW q \in Requests, NEW v \in States \ {"UNSENT"}, JobOf(q, v) \in DOMAIN JobRank(r)
      PROVE  q = r /\ JobRank(r)[JobOf(q, v)] = Stage(v)
  <2>1. PICK j : j = JobOf(q, v)
    OBVIOUS
  <2>2. /\ j.of = q
        /\ j.do = CASE v = "ACCEPTED_QUEUED" -> "accepted" [] v = "RUNNING" -> "running"
                    [] v = "REJECTED" -> "reject" [] OTHER -> "complete"
    BY <2>1 DEF JobOf
  <2>3. j \in RealJob /\ j.of = r /\ j.do # "fail"
    BY <1>4, <1>5, <2>1
  <2>4. JobRank(r)[j] = CASE j.do = "accepted" -> 2 [] j.do = "running" -> 3 [] OTHER -> 4
    BY <2>3 DEF JobRank
  <2>5. v \notin {"LOCAL_PENDING", "SENT_UNACKNOWLEDGED"}
    BY DEF States, Ended, AfterRun, WithoutRun
  <2>6. JobRank(r)[j] = Stage(v)
    BY <2>2, <2>4, <2>5 DEF Stage
  <2>7. QED
    BY <2>1, <2>2, <2>3, <2>6
<1>6. QED
  BY <1>2, <1>3, <1>4, <1>5

\* A step that moves no report forward, and leaves the future or ends it.
LEMMA OrderStays ==
  ASSUME TypeInv, TypeInv', NEW r \in Requests, OrderOK(r),
         Ordered(out'[Me], NoteRank(r)), Ordered(jobs', JobRank(r)),
         NoteRanks(r)' \subseteq NoteRanks(r), JobRanks(r)' \subseteq JobRanks(r),
         HandRanks(r)' \subseteq HandRanks(r), ServerRank(r) <= ServerRank(r)',
         ~Done(r)' => submission_state'[r] = submission_state[r]
  PROVE  OrderOK(r)'
<1>0. NoteRank(r)' = NoteRank(r) /\ JobRank(r)' = JobRank(r)
  BY DEF NoteRank, JobRank, Stage, Report_, RealJob, LossErrors
<1>1. Ordered(out[Me], NoteRank(r))' /\ Ordered(jobs, JobRank(r))'
  BY <1>0 DEF Ordered
<1>2. /\ NoteRanks(r) \subseteq 2 .. 4 /\ JobRanks(r) \subseteq 2 .. 4 /\ HandRanks(r) \subseteq 2 .. 4
      /\ ServerRank(r) \in 1 .. 4
  BY RankTypes
<1>3. ServerRank(r)' \in 1 .. 4
  <2>1. st'[r] \in States
    BY DEF TypeInv, ServerTypeOK
  <2>2. QED
    BY <2>1 DEF ServerRank, Stage, States, Ended, AfterRun, WithoutRun
<1>4. /\ \A i \in JobRanks(r)', j \in HandRanks(r)' : i < j
      /\ \A i \in JobRanks(r)' \cup HandRanks(r)', j \in NoteRanks(r)' : i < j
  BY DEF OrderOK
<1>5. \A i \in JobRanks(r)' \cup HandRanks(r)' \cup NoteRanks(r)' : i <= ServerRank(r)'
  BY <1>2, <1>3 DEF OrderOK
<1>6. ASSUME ~Done(r)'
      PROVE  /\ \A i \in JobRanks(r)' \cup HandRanks(r)' \cup NoteRanks(r)' :
                   Stage(submission_state'[r]) < i
             /\ Stage(submission_state'[r]) <= ServerRank(r)'
  <2>1. submission_state'[r] = submission_state[r] /\ ~Done(r)
    BY <1>6 DEF Done
  <2>2. Stage(submission_state[r]) \in 0 .. 4
    BY RankTypes
  <2>3. QED
    BY <1>2, <1>3, <2>1, <2>2 DEF OrderOK
<1>7. QED
  BY <1>1, <1>4, <1>5, <1>6 DEF OrderOK

\* What the function of a job sets, if the future is not done.
LEMMA PerformStage ==
  ASSUME NEW j \in RealJob, Perform(j)
  PROVE  \E s \in {"ACCEPTED_QUEUED", "RUNNING"} \cup Final :
           /\ Progress(j.of, s)
           /\ j.do \in {"complete", "reject", "fail"} => s \in Final
           /\ j.do # "fail" => j \in DOMAIN JobRank(j.of) /\ JobRank(j.of)[j] = Stage(s)
<1>1. j.do \in {"accepted", "running", "complete", "reject", "fail"} /\ j.of \in Requests
  BY DEF RealJob
<1>2. j.do # "fail" => /\ j \in DOMAIN JobRank(j.of)
                       /\ JobRank(j.of)[j] = CASE j.do = "accepted" -> 2 [] j.do = "running" -> 3
                                               [] OTHER -> 4
  BY DEF JobRank
<1>3. CASE j.do = "accepted"
  BY <1>2, <1>3 DEF Perform, Stage
<1>4. CASE j.do = "running"
  BY <1>2, <1>4 DEF Perform, Stage
<1>5. CASE j.do = "complete"
  <2>1. PICK s : s = FutureState(j.of, j.what)
    OBVIOUS
  <2>2. s \in Final /\ Stage(s) = 4
    BY <2>1 DEF FutureState, Final, Stage
  <2>3. Progress(j.of, s)
    BY <1>5, <2>1 DEF Perform, Settle
  <2>4. QED
    BY <1>2, <1>5, <2>2, <2>3
<1>6. CASE j.do \in {"reject", "fail"}
  <2>1. Progress(j.of, "FAILED") /\ "FAILED" \in Final /\ Stage("FAILED") = 4
    BY <1>6 DEF Perform, Settle, Final, Stage
  <2>2. QED
    BY <1>2, <1>6, <2>1
<1>7. QED
  BY <1>1, <1>3, <1>4, <1>5, <1>6

\* The job that is next in order is run, and every other report is behind it.
LEMMA OrderRuns ==
  ASSUME TypeInv, TypeInv', NEW r \in Requests, OrderOK(r), NEW j \in RealJob, Perform(j),
         Ordered(out'[Me], NoteRank(r)), Ordered(jobs', JobRank(r)),
         NoteRanks(r)' \subseteq NoteRanks(r), JobRanks(r)' \subseteq JobRanks(r),
         HandRanks(r)' \subseteq HandRanks(r), ServerRank(r) = ServerRank(r)',
         j \in DOMAIN JobRank(r) =>
           /\ JobRank(r)[j] \in JobRanks(r) \cup HandRanks(r)
           /\ \/ j.do = "complete"
              \/ \A i \in JobRanks(r)' \cup HandRanks(r)' \cup NoteRanks(r)' : JobRank(r)[j] < i
  PROVE  OrderOK(r)' /\ Stage(submission_state[r]) <= Stage(submission_state'[r])
<1>1. PICK s \in {"ACCEPTED_QUEUED", "RUNNING"} \cup Final :
        /\ Progress(j.of, s)
        /\ j.do \in {"complete", "reject", "fail"} => s \in Final
        /\ j.do # "fail" => j \in DOMAIN JobRank(j.of) /\ JobRank(j.of)[j] = Stage(s)
  BY PerformStage
<1>2. j.of \in Requests
  BY DEF RealJob
<1>3. CASE j.of = r /\ s \notin Final /\ ~Done(r)
  <2>1. submission_state'[r] = s /\ ~Done(r)' /\ j.do # "complete"
    BY <1>1, <1>3 DEF Progress, Done, TypeInv, FutureTypeOK
  <2>2. j \in DOMAIN JobRank(r) /\ JobRank(r)[j] = Stage(s)
    BY <1>1, <1>3
  <2>3. \A i \in JobRanks(r)' \cup HandRanks(r)' \cup NoteRanks(r)' : Stage(s) < i
    BY <2>1, <2>2
  <2>4. Stage(s) \in JobRanks(r) \cup HandRanks(r)
    BY <2>2
  <2>5. /\ NoteRanks(r) \subseteq 2 .. 4 /\ JobRanks(r) \subseteq 2 .. 4 /\ HandRanks(r) \subseteq 2 .. 4
        /\ ServerRank(r) \in 1 .. 4 /\ Stage(submission_state[r]) \in 0 .. 4
    BY RankTypes
  <2>6. Stage(s) <= ServerRank(r) /\ Stage(submission_state[r]) < Stage(s)
    BY <1>3, <2>4 DEF OrderOK
  <2>7. NoteRank(r)' = NoteRank(r) /\ JobRank(r)' = JobRank(r)
    BY DEF NoteRank, JobRank, Stage, Report_, RealJob, LossErrors
  <2>8. Ordered(out[Me], NoteRank(r))' /\ Ordered(jobs, JobRank(r))'
    BY <2>7 DEF Ordered
  <2>9. /\ \A i \in JobRanks(r)', k \in HandRanks(r)' : i < k
        /\ \A i \in JobRanks(r)' \cup HandRanks(r)', k \in NoteRanks(r)' : i < k
        /\ \A i \in JobRanks(r)' \cup HandRanks(r)' \cup NoteRanks(r)' : i <= ServerRank(r)'
    BY DEF OrderOK
  <2>10. /\ \A i \in JobRanks(r)' \cup HandRanks(r)' \cup NoteRanks(r)' : Stage(submission_state'[r]) < i
         /\ Stage(submission_state'[r]) <= ServerRank(r)'
         /\ Stage(submission_state[r]) <= Stage(submission_state'[r])
    BY <2>1, <2>3, <2>5, <2>6, <2>4
  <2>11. OrderOK(r)'
    BY <2>8, <2>9, <2>10 DEF OrderOK
  <2>12. QED
    BY <2>10, <2>11
<1>4. CASE ~(j.of = r /\ s \notin Final /\ ~Done(r))
  <2>1. (~Done(r)' => submission_state'[r] = submission_state[r])
        /\ (submission_state'[r] = submission_state[r] \/ submission_state'[r] \in Final)
    BY <1>1, <1>2, <1>4 DEF Progress, Done, TypeInv, FutureTypeOK
  <2>2. ServerRank(r) <= ServerRank(r)'
    BY RankTypes
  <2>3. OrderOK(r)'
    BY <2>1, <2>2, OrderStays
  <2>4. \A f \in Final : Stage(f) = 4
    BY DEF Final, Stage
  <2>5. Stage(submission_state[r]) \in 0 .. 4
    BY RankTypes
  <2>6. QED
    BY <2>1, <2>3, <2>4, <2>5
<1>5. QED
  BY <1>3, <1>4

\* The ranks after a step.
LEMMA RanksAfter ==
  ASSUME NEW r \in Requests
  PROVE  /\ NoteRanks(r)' = Ranks(out'[Me], NoteRank(r))
         /\ JobRanks(r)' = Ranks(jobs', JobRank(r))
         /\ HandRanks(r)' = IF receiver'.at = "job" /\ receiver'.hand \in DOMAIN JobRank(r)
                            THEN {JobRank(r)[receiver'.hand]} ELSE {}
<1>1. NoteRank(r)' = NoteRank(r) /\ JobRank(r)' = JobRank(r)
  BY DEF NoteRank, JobRank, Stage, Report_, RealJob, LossErrors
<1>2. QED
  BY <1>1 DEF NoteRanks, JobRanks, HandRanks, Ranks

\* What the server tells: nothing, an answer, or the new state of a request and
\* perhaps an answer.
LEMMA ServerTells ==
  ASSUME TypeInv, ServerStep
  PROVE  /\ UNCHANGED <<jobs, receiver, submission_state>>
         /\ \/ out' = out /\ Me \notin up
            \/ out' = out /\ UNCHANGED st
            \/ UNCHANGED st /\ \E a \in Answer_ : out'[Me] = Append(out[Me], a)
            \/ \E q \in Requests, v \in States \ {"UNSENT"}, n \in Report_ :
                 /\ v \in Successors(st[q]) /\ st' = [st EXCEPT ![q] = v]
                 /\ n = [of |-> q, what |-> v]
                 /\ \/ out'[Me] = Append(out[Me], n)
                    \/ \E a \in Answer_ : out'[Me] = Append(Append(out[Me], n), a)
<1>0. ServerTypeOK /\ out[Me] \in Seq(Note)
  BY DEF TypeInv, ServerTypeOK
<1>1. UNCHANGED <<jobs, receiver, submission_state>>
  BY DEF ServerStep, ServerReads, LinkFails, ServerWorks, ServerFrame, threadVars, laneVars, futureVars
<1>2. ASSUME NEW a \in Answer_, Tell(Me, <<a>>), UNCHANGED st
      PROVE  out' = out \/ out'[Me] = Append(out[Me], a)
  BY <1>0, <1>2, TellType
<1> DEFINE Told == \E q \in Requests, v \in States \ {"UNSENT"}, n \in Report_ :
                     /\ v \in Successors(st[q]) /\ st' = [st EXCEPT ![q] = v]
                     /\ n = [of |-> q, what |-> v]
                     /\ \/ out'[Me] = Append(out[Me], n)
                        \/ \E a \in Answer_ : out'[Me] = Append(Append(out[Me], n), a)
<1>3. ASSUME NEW q \in Requests, NEW v, Report(q, v, <<>>)
      PROVE  (out' = out /\ Me \notin up) \/ Told
  <2>0. PICK more \in Seq(Note) : more = <<>>
    BY EmptySeq
  <2>1. /\ v \in States \ {"UNSENT"} /\ (Me \notin up => out' = out)
        /\ Me \in up => out'[Me] = out[Me] \o (<<[of |-> q, what |-> v]>> \o more)
    <3>1. Report(q, v, more)
      BY <1>3, <2>0
    <3>2. ServerTypeOK
      BY <1>0
    <3>3. QED
      BY <3>1, <3>2, ReportType, ZenonT(60)
  <2>2. PICK n : n = [of |-> q, what |-> v]
    OBVIOUS
  <2>3. n \in Report_ /\ n \in Note /\ <<n>> \in Seq(Note)
    BY <2>1, <2>2 DEF Report_, Note
  <2>4. Me \in up => out'[Me] = out[Me] \o (<<n>> \o <<>>)
    BY <2>0, <2>1, <2>2
  <2>5. <<n>> \o <<>> = <<n>> /\ out[Me] \o <<n>> = Append(out[Me], n)
    BY <1>0, <2>3, ConcatEmptySeq, AppendIsConcat
  <2>6. v \in Successors(st[q]) /\ st' = [st EXCEPT ![q] = v]
    BY <1>3 DEF Report
  <2>7. QED
    BY <2>1, <2>2, <2>3, <2>4, <2>5, <2>6
<1>4. ASSUME NEW q \in Requests, NEW v, NEW a \in Answer_, Report(q, v, <<a>>)
      PROVE  (out' = out /\ Me \notin up) \/ Told
  <2>1. a \in Note /\ <<a>> \in Seq(Note)
    BY DEF Note
  <2>0. PICK more \in Seq(Note) : more = <<a>>
    BY <2>1
  <2>2. /\ v \in States \ {"UNSENT"} /\ (Me \notin up => out' = out)
        /\ Me \in up => out'[Me] = out[Me] \o (<<[of |-> q, what |-> v]>> \o more)
    <3>1. Report(q, v, more)
      BY <1>4, <2>0
    <3>2. ServerTypeOK
      BY <1>0
    <3>3. QED
      BY <3>1, <3>2, ReportType, ZenonT(60)
  <2>3. PICK n : n = [of |-> q, what |-> v]
    OBVIOUS
  <2>4. n \in Report_ /\ n \in Note /\ <<n>> \in Seq(Note)
    BY <2>2, <2>3 DEF Report_, Note
  <2>5. /\ out[Me] \o <<n>> = Append(out[Me], n) /\ Append(out[Me], n) \in Seq(Note)
        /\ Append(out[Me], n) \o <<a>> = Append(Append(out[Me], n), a)
    BY <1>0, <2>1, <2>4, AppendIsConcat, AppendProperties
  <2>6. out[Me] \o (<<n>> \o <<a>>) = (out[Me] \o <<n>>) \o <<a>>
    BY <1>0, <2>1, <2>4, ConcatAssociative, SMTT(30)
  <2>7. Me \in up => out'[Me] = Append(Append(out[Me], n), a)
    BY <2>0, <2>2, <2>3, <2>5, <2>6
  <2>8. v \in Successors(st[q]) /\ st' = [st EXCEPT ![q] = v]
    BY <1>4 DEF Report
  <2>9. QED
    BY <2>2, <2>3, <2>4, <2>7, <2>8
<1> HIDE DEF Told
<1>. SUFFICES \/ out' = out /\ Me \notin up
              \/ out' = out /\ UNCHANGED st
              \/ UNCHANGED st /\ \E a \in Answer_ : out'[Me] = Append(out[Me], a)
              \/ Told
  BY <1>1 DEF Told
<1>5. CASE ServerReads
  <2> DEFINE m == Head(wire)
  <2>0. wire # <<>>
    BY <1>5 DEF ServerReads
  <2>1. CASE ServerSubmits(m)
    <3>1. m.of \in Requests /\ \E v : Report(m.of, v, <<>>)
      BY <1>0, <2>0, <2>1, WireTypes DEF ServerSubmits
    <3>2. QED
      BY <1>1, <1>3, <3>1
  <2>2. CASE ServerCancels(m)
    <3>1. m.of \in Requests /\ m.kind = "CANCEL_REQUEST"
      BY <1>0, <2>0, <2>2, WireTypes DEF ServerCancels
    <3>2. \A d \in Decisions : \E a \in Answer_ : Reply(m, d) = <<a>>
      BY <1>0, <2>0, <3>1, WireTypes DEF Reply
    <3>3. "cancelled" \in Decisions
      BY DEF Decisions
    <3>4. CASE Report(m.of, "CANCELLED", Reply(m, "cancelled"))
      <4>1. PICK a \in Answer_ : Report(m.of, "CANCELLED", <<a>>)
        BY <3>2, <3>3, <3>4
      <4>2. QED
        BY <1>1, <1>4, <3>1, <4>1
    <3>5. CASE (\E d \in Decisions : Tell(Me, Reply(m, d))) /\ UNCHANGED <<st, up>>
      <4>1. PICK a \in Answer_ : Tell(Me, <<a>>)
        BY <3>2, <3>5
      <4>2. out' = out \/ out'[Me] = Append(out[Me], a)
        BY <1>2, <3>5, <4>1
      <4>3. QED
        BY <1>1, <3>5, <4>2
    <3>6. QED
      BY <2>2, <3>4, <3>5 DEF ServerCancels, Decisions
  <2>3. CASE /\ m.kind = "CLOSE_SESSION"
             /\ Tell(Me, <<[of |-> [by |-> Closer, on |-> "session"], what |-> "closed"]>>)
             /\ UNCHANGED <<st, up, watermark, acked>>
    <3>1. [of |-> [by |-> Closer, on |-> "session"], what |-> "closed"] \in Answer_
      BY DEF Answer_, Decisions, Askers
    <3>2. QED
      BY <1>1, <1>2, <2>3, <3>1
  <2>4. QED
    BY <1>1, <1>5, <2>1, <2>2, <2>3 DEF ServerReads
<1>6. ASSUME NEW q \in Requests, ServerWorks(q)
      PROVE  \E v : Report(q, v, <<>>)
  BY <1>6 DEF ServerWorks
<1>7. CASE \E q \in Requests : ServerWorks(q)
  BY <1>1, <1>3, <1>6, <1>7
<1>8. CASE LinkFails
  BY <1>1, <1>8 DEF LinkFails
<1>9. QED
  BY <1>5, <1>7, <1>8 DEF ServerStep

\* A new state ranks higher.
LEMMA SuccessorRank ==
  ASSUME TypeInv, NEW r \in Requests, NEW v \in Successors(st[r])
  PROVE  ServerRank(r) < Stage(v)
<1>1. st[r] \in States
  BY DEF TypeInv, ServerTypeOK
<1>2. st[r] \in {"UNSENT", "ACCEPTED_QUEUED", "RUNNING"}
  BY <1>1 DEF Successors
<1>3. CASE st[r] = "UNSENT"
  BY <1>3 DEF Successors, ServerRank, Stage
<1>4. CASE st[r] = "ACCEPTED_QUEUED"
  BY <1>4 DEF Successors, ServerRank, Stage, WithoutRun
<1>5. CASE st[r] = "RUNNING"
  BY <1>5 DEF Successors, ServerRank, Stage, AfterRun
<1>6. QED
  BY <1>2, <1>3, <1>4, <1>5

\* The server reports a request, or another one.
LEMMA OrderServer ==
  ASSUME TypeInv, TypeInv', NEW r \in Requests, OrderOK(r), ServerStep
  PROVE  OrderOK(r)'
<1>0. /\ UNCHANGED <<jobs, receiver, submission_state>>
      /\ out[Me] \in Seq(Note) /\ st \in [Requests -> States]
  BY ServerTells DEF TypeInv, ServerTypeOK
<1>1. /\ JobRanks(r)' = JobRanks(r) /\ HandRanks(r)' = HandRanks(r)
      /\ Ordered(jobs', JobRank(r)) /\ Ordered(out[Me], NoteRank(r))
      /\ ~Done(r)' => submission_state'[r] = submission_state[r]
  BY <1>0, RanksAfter DEF JobRanks, HandRanks, OrderOK
<1>2. ASSUME Ordered(out'[Me], NoteRank(r)), NoteRanks(r)' \subseteq NoteRanks(r),
             ServerRank(r) <= ServerRank(r)'
      PROVE  OrderOK(r)'
  BY <1>1, <1>2, OrderStays
<1>3. \A a \in Answer_ : a \in Note /\ a \notin DOMAIN NoteRank(r)
  BY RankDomains DEF Note
<1>4. /\ NoteRanks(r) \subseteq 2 .. 4 /\ JobRanks(r) \subseteq 2 .. 4 /\ HandRanks(r) \subseteq 2 .. 4
      /\ ServerRank(r) \in 1 .. 4 /\ Stage(submission_state[r]) \in 0 .. 4
  BY RankTypes
<1>5. UNCHANGED st => ServerRank(r)' = ServerRank(r)
  BY DEF ServerRank
<1>6. CASE out' = out /\ UNCHANGED st
  BY <1>1, <1>2, <1>4, <1>5, <1>6, RanksAfter DEF NoteRanks
<1>7. ASSUME UNCHANGED st, NEW a \in Answer_, out'[Me] = Append(out[Me], a) PROVE OrderOK(r)'
  <2>1. Ranks(out'[Me], NoteRank(r)) = Ranks(out[Me], NoteRank(r)) /\ Ordered(out'[Me], NoteRank(r))
    BY <1>0, <1>1, <1>3, <1>7, RankAppend
  <2>2. QED
    BY <1>2, <1>4, <1>5, <1>7, <2>1, RanksAfter DEF NoteRanks
<1>8. CASE out' = out /\ Me \notin up
  <2>1. st' = st \/ \E q \in Requests : \E v : Report(q, v, <<>>) \/ \E a : Report(q, v, a)
    <3>1. ServerReads \/ LinkFails \/ \E q \in Requests : ServerWorks(q)
      BY DEF ServerStep
    <3>2. wire # <<>> /\ Head(wire).kind \in {"SUBMIT", "CANCEL_REQUEST"} => Head(wire).of \in Requests
      BY WireTypes DEF TypeInv
    <3>3. QED
      BY <3>1, <3>2 DEF ServerReads, ServerSubmits, ServerCancels, ServerWorks, LinkFails
  <2>2. st'[r] = st[r] \/ st'[r] \in Successors(st[r])
    BY <1>0, <2>1 DEF Report
  <2>3. ServerRank(r)' = ServerRank(r) \/ ServerRank(r) < ServerRank(r)'
    <3>1. CASE st'[r] = st[r]
      BY <3>1 DEF ServerRank
    <3>2. ASSUME NEW v \in Successors(st[r]), st'[r] = v PROVE ServerRank(r) < ServerRank(r)'
      <4>1. ServerRank(r) < Stage(v)
        BY SuccessorRank
      <4>2. v # "UNSENT"
        BY DEF Successors, AfterRun, WithoutRun
      <4>3. QED
        BY <3>2, <4>1, <4>2 DEF ServerRank
    <3>3. QED
      BY <2>2, <3>1, <3>2
  <2>4. ServerRank(r)' \in 1 .. 4
    <3>1. st'[r] \in States
      BY DEF TypeInv, ServerTypeOK
    <3>2. QED
      BY <3>1 DEF ServerRank, Stage, States, Ended, AfterRun, WithoutRun
  <2>5. QED
    BY <1>1, <1>2, <1>4, <1>8, <2>3, <2>4, RanksAfter DEF NoteRanks
<1>9. ASSUME NEW q \in Requests, NEW v \in States \ {"UNSENT"}, NEW n \in Report_,
             v \in Successors(st[q]), st' = [st EXCEPT ![q] = v], n = [of |-> q, what |-> v],
             \/ out'[Me] = Append(out[Me], n)
             \/ \E a \in Answer_ : out'[Me] = Append(Append(out[Me], n), a)
      PROVE  OrderOK(r)'
  <2>0. n \in Note /\ n.of = q /\ n.what = v
    BY <1>9 DEF Note
  <2>1. PICK s : s = Append(out[Me], n)
    OBVIOUS
  <2>2. s \in Seq(Note)
    BY <1>0, <2>0, <2>1, AppendProperties
  <2>3. /\ Ranks(out'[Me], NoteRank(r)) = Ranks(s, NoteRank(r))
        /\ Ordered(s, NoteRank(r)) => Ordered(out'[Me], NoteRank(r))
    <3>1. CASE out'[Me] = s
      BY <3>1
    <3>2. ASSUME NEW a \in Answer_, out'[Me] = Append(s, a)
          PROVE  /\ Ranks(out'[Me], NoteRank(r)) = Ranks(s, NoteRank(r))
                 /\ Ordered(s, NoteRank(r)) => Ordered(out'[Me], NoteRank(r))
      BY <1>3, <2>2, <3>2, RankAppend
    <3>3. QED
      BY <1>9, <2>1, <3>1, <3>2
  <2>4. CASE q # r
    <3>1. n \notin DOMAIN NoteRank(r)
      BY <2>0, <2>4, RankDomains
    <3>2. Ranks(s, NoteRank(r)) = NoteRanks(r) /\ Ordered(s, NoteRank(r))
      BY <1>0, <1>1, <2>0, <2>1, <3>1, RankAppend DEF NoteRanks
    <3>3. ServerRank(r)' = ServerRank(r)
      BY <1>0, <1>9, <2>4 DEF ServerRank
    <3>4. QED
      BY <1>2, <1>4, <2>3, <3>2, <3>3, RanksAfter
  <2>5. CASE q = r
    <3>1. n \in DOMAIN NoteRank(r)
      BY <2>0, <2>5, RankDomains
    <3>2. NoteRank(r)[n] = Stage(v) /\ Stage(v) \in 2 .. 4
      BY <2>0, <3>1, RankTypes
    <3>3. ServerRank(r) < Stage(v) /\ ServerRank(r)' = Stage(v)
      BY <1>0, <1>9, <2>5, SuccessorRank DEF ServerRank
    <3>4. \A k \in Ranks(out[Me], NoteRank(r)) : k < NoteRank(r)[n]
      BY <1>4, <3>2, <3>3 DEF OrderOK, NoteRanks
    <3>5. Ranks(s, NoteRank(r)) = NoteRanks(r) \cup {Stage(v)} /\ Ordered(s, NoteRank(r))
      BY <1>0, <1>1, <2>0, <2>1, <3>1, <3>2, <3>4, RankAppend DEF NoteRanks
    <3>6. NoteRanks(r)' = NoteRanks(r) \cup {Stage(v)} /\ Ordered(out'[Me], NoteRank(r))
      BY <2>3, <3>5, RanksAfter
    <3>7. NoteRank(r)' = NoteRank(r) /\ JobRank(r)' = JobRank(r)
      BY DEF NoteRank, JobRank, Stage, Report_, RealJob, LossErrors
    <3>8. Ordered(out[Me], NoteRank(r))' /\ Ordered(jobs, JobRank(r))'
      BY <1>1, <3>6, <3>7 DEF Ordered
    <3>9. /\ \A i \in JobRanks(r)', k \in HandRanks(r)' : i < k
          /\ \A i \in JobRanks(r)' \cup HandRanks(r)', k \in NoteRanks(r)' : i < k
          /\ \A i \in JobRanks(r)' \cup HandRanks(r)' \cup NoteRanks(r)' : i <= ServerRank(r)'
      BY <1>1, <1>4, <3>2, <3>3, <3>6 DEF OrderOK
    <3>10. ~Done(r)' =>
             /\ \A i \in JobRanks(r)' \cup HandRanks(r)' \cup NoteRanks(r)' :
                  Stage(submission_state'[r]) < i
             /\ Stage(submission_state'[r]) <= ServerRank(r)'
      <4>1. Done(r)' <=> Done(r)
        BY <1>0 DEF Done
      <4>2. QED
        BY <1>0, <1>1, <1>4, <3>2, <3>3, <3>6, <4>1 DEF OrderOK
    <3>11. QED
      BY <3>8, <3>9, <3>10 DEF OrderOK
  <2>6. QED
    BY <2>4, <2>5
<1>10. QED
  BY <1>6, <1>7, <1>8, <1>9, ServerTells

\* The receiver takes a report in hand, or passes it on.
LEMMA OrderReceiver ==
  ASSUME TypeInv, TypeInv', LinkOK, NEW r \in Requests, OrderOK(r), ReceiverReads \/ ReceiverSchedules
  PROVE  OrderOK(r)' /\ Stage(submission_state[r]) <= Stage(submission_state'[r])
<1>0. /\ NoteRanks(r) \subseteq 2 .. 4 /\ JobRanks(r) \subseteq 2 .. 4 /\ HandRanks(r) \subseteq 2 .. 4
      /\ ServerRank(r) \in 1 .. 4 /\ Stage(submission_state[r]) \in 0 .. 4
  BY RankTypes
<1>1. UNCHANGED st /\ ServerRank(r)' = ServerRank(r)
  BY DEF ReceiverReads, ReceiverSchedules, ReceiverFrame, serverVars, ServerRank
<1>2. Ordered(out[Me], NoteRank(r)) /\ Ordered(jobs, JobRank(r)) /\ out[Me] \in Seq(Note)
      /\ jobs \in Seq(RealJob)
  BY DEF OrderOK, TypeInv, ServerTypeOK, JobsOK
<1>3. CASE ReceiverReads
  <2> DEFINE m == Head(out[Me])
  <2>1. /\ receiver.at = "read" /\ out[Me] # <<>> /\ out'[Me] = Tail(out[Me])
        /\ UNCHANGED <<jobs, submission_state>>
    BY <1>3 DEF ReceiverReads, futureVars, TypeInv, ServerTypeOK
  <2>2. HandRanks(r) = {} /\ JobRanks(r)' = JobRanks(r) /\ Ordered(jobs', JobRank(r))
    BY <1>2, <2>1, RanksAfter DEF HandRanks, JobRanks
  <2>3. /\ NoteRanks(r)' \subseteq NoteRanks(r) /\ Ordered(out'[Me], NoteRank(r))
        /\ m \in DOMAIN NoteRank(r) => /\ NoteRank(r)[m] \in NoteRanks(r)
                                       /\ \A k \in NoteRanks(r)' : NoteRank(r)[m] < k
    BY <1>2, <2>1, RankTail, RanksAfter DEF NoteRanks
  <2>4. ASSUME HandRanks(r)' = {} PROVE OrderOK(r)'
    BY <1>0, <1>1, <2>1, <2>2, <2>3, <2>4, OrderStays
  <2>5. CASE ~(m.what \in States /\ m.of \in futures)
    <3>1. receiver' = receiver
      BY <1>3, <2>5 DEF ReceiverReads
    <3>2. HandRanks(r)' = {}
      BY <2>1, <3>1, RanksAfter
    <3>3. QED
      BY <1>0, <2>1, <2>4, <3>2
  <2>6. CASE m.what \in States /\ m.of \in futures
    <3>1. m \in Report_ /\ m.of \in Requests /\ m.what \in States \ {"UNSENT"}
      BY <2>1, <2>6, NoteTypes DEF TypeInv, Report_
    <3>2. receiver' = [at |-> "job", hand |-> JobOf(m.of, m.what)]
      BY <1>3, <2>6 DEF ReceiverReads
    <3>3. CASE JobOf(m.of, m.what) \notin DOMAIN JobRank(r)
      <4>1. HandRanks(r)' = {}
        BY <3>2, <3>3, RanksAfter
      <4>2. QED
        BY <1>0, <2>1, <2>4, <4>1
    <3>4. CASE JobOf(m.of, m.what) \in DOMAIN JobRank(r)
      <4>1. PICK k : k = Stage(m.what)
        OBVIOUS
      <4>2. m.of = r /\ JobRank(r)[JobOf(m.of, m.what)] = k
        BY <3>1, <3>4, <4>1, RankDomains
      <4>3. m \in DOMAIN NoteRank(r)
        BY <3>1, <4>2, RankDomains
      <4>4. NoteRank(r)[m] = k /\ k \in 2 .. 4
        BY <4>1, <4>3, RankTypes
      <4>5. HandRanks(r)' = {k}
        BY <3>2, <3>4, <4>2, RanksAfter
      <4>6. k \in NoteRanks(r) /\ \A i \in NoteRanks(r)' : k < i
        BY <2>3, <4>3, <4>4
      <4>7. NoteRank(r)' = NoteRank(r) /\ JobRank(r)' = JobRank(r)
        BY DEF NoteRank, JobRank, Stage, Report_, RealJob, LossErrors
      <4>8. Ordered(out[Me], NoteRank(r))' /\ Ordered(jobs, JobRank(r))'
        BY <2>2, <2>3, <4>7 DEF Ordered
      <4>9. /\ \A i \in JobRanks(r)', j \in HandRanks(r)' : i < j
            /\ \A i \in JobRanks(r)' \cup HandRanks(r)', j \in NoteRanks(r)' : i < j
            /\ \A i \in JobRanks(r)' \cup HandRanks(r)' \cup NoteRanks(r)' : i <= ServerRank(r)'
        BY <1>1, <2>2, <2>3, <4>5, <4>6 DEF OrderOK
      <4>10. ~Done(r)' =>
               /\ \A i \in JobRanks(r)' \cup HandRanks(r)' \cup NoteRanks(r)' :
                    Stage(submission_state'[r]) < i
               /\ Stage(submission_state'[r]) <= ServerRank(r)'
        <5>1. Done(r)' <=> Done(r)
          BY <2>1 DEF Done
        <5>2. QED
          BY <1>1, <2>1, <2>2, <2>3, <4>5, <4>6, <5>1 DEF OrderOK
      <4>11. OrderOK(r)'
        BY <4>8, <4>9, <4>10 DEF OrderOK
      <4>12. QED
        BY <1>0, <2>1, <4>11
    <3>5. QED
      BY <3>3, <3>4
  <2>7. QED
    BY <2>5, <2>6
<1>4. CASE ReceiverSchedules
  <2>1. PICK j : j = receiver.hand
    OBVIOUS
  <2>2. /\ receiver.at = "job" /\ j \in RealJob /\ Schedule(j) /\ UNCHANGED out
        /\ receiver' = [at |-> "read", hand |-> NoJob]
    BY <1>4, <2>1, HandTypes DEF ReceiverSchedules, linkVars
  <2>3. /\ NoteRanks(r)' = NoteRanks(r) /\ Ordered(out'[Me], NoteRank(r)) /\ HandRanks(r)' = {}
    BY <1>2, <2>2, RanksAfter DEF NoteRanks
  <2>4. /\ j \in DOMAIN JobRank(r) => HandRanks(r) = {JobRank(r)[j]}
        /\ j \notin DOMAIN JobRank(r) => HandRanks(r) = {}
    BY <2>1, <2>2 DEF HandRanks
  <2>5. CASE ~dispatch_closed
    <3>1. jobs' = Append(jobs, j) /\ UNCHANGED submission_state
      BY <2>2, <2>5 DEF Schedule, futureVars
    <3>2. JobRanks(r)' = JobRanks(r) \cup HandRanks(r)
      BY <1>2, <2>2, <2>4, <3>1, RankAppend, RanksAfter DEF JobRanks
    <3>3. Ordered(jobs', JobRank(r))
      <4>1. j \in DOMAIN JobRank(r) => \A k \in Ranks(jobs, JobRank(r)) : k < JobRank(r)[j]
        BY <2>4 DEF OrderOK, JobRanks
      <4>2. QED
        BY <1>2, <2>2, <3>1, <4>1, RankAppend
    <3>4. NoteRank(r)' = NoteRank(r) /\ JobRank(r)' = JobRank(r)
      BY DEF NoteRank, JobRank, Stage, Report_, RealJob, LossErrors
    <3>5. Ordered(out[Me], NoteRank(r))' /\ Ordered(jobs, JobRank(r))'
      BY <2>3, <3>3, <3>4 DEF Ordered
    <3>6. /\ \A i \in JobRanks(r)', k \in HandRanks(r)' : i < k
          /\ \A i \in JobRanks(r)' \cup HandRanks(r)', k \in NoteRanks(r)' : i < k
          /\ \A i \in JobRanks(r)' \cup HandRanks(r)' \cup NoteRanks(r)' : i <= ServerRank(r)'
      BY <1>1, <2>3, <3>2 DEF OrderOK
    <3>7. ~Done(r)' =>
            /\ \A i \in JobRanks(r)' \cup HandRanks(r)' \cup NoteRanks(r)' : Stage(submission_state'[r]) < i
            /\ Stage(submission_state'[r]) <= ServerRank(r)'
      <4>1. Done(r)' <=> Done(r)
        BY <3>1 DEF Done
      <4>2. QED
        BY <1>1, <2>3, <3>1, <3>2, <4>1 DEF OrderOK
    <3>8. OrderOK(r)'
      BY <3>5, <3>6, <3>7 DEF OrderOK
    <3>9. QED
      BY <1>0, <3>1, <3>8
  <2>6. CASE dispatch_closed
    <3>1. Perform(j) /\ jobs = <<>> /\ UNCHANGED jobs
      BY <2>2, <2>6 DEF Schedule, LinkOK
    <3>2. JobRanks(r)' = {} /\ Ordered(jobs', JobRank(r)) /\ JobRanks(r) = {}
      BY <3>1, RankEmpty, RanksAfter DEF JobRanks
    <3>3. j \in DOMAIN JobRank(r) =>
            /\ JobRank(r)[j] \in JobRanks(r) \cup HandRanks(r)
            /\ \A i \in JobRanks(r)' \cup HandRanks(r)' \cup NoteRanks(r)' : JobRank(r)[j] < i
      BY <2>3, <2>4, <3>2 DEF OrderOK
    <3>4. QED
      BY <1>1, <2>2, <2>3, <3>1, <3>2, <3>3, OrderRuns
  <2>7. QED
    BY <2>5, <2>6
<1>5. QED
  BY <1>3, <1>4

\* The lane runs the next job.
LEMMA OrderLane ==
  ASSUME TypeInv, TypeInv', NEW r \in Requests, OrderOK(r), LaneRuns
  PROVE  OrderOK(r)' /\ Stage(submission_state[r]) <= Stage(submission_state'[r])
<1>1. PICK j : j = Head(jobs)
  OBVIOUS
<1>2. /\ jobs # <<>> /\ j \in RealJob /\ Perform(j) /\ UNCHANGED <<out, st, receiver>>
      /\ (jobs' = jobs /\ j.do = "complete") \/ jobs' = Tail(jobs)
  BY <1>1, HandTypes DEF LaneRuns, LaneFrame, serverVars, linkVars
<1>3. Ordered(out[Me], NoteRank(r)) /\ Ordered(jobs, JobRank(r)) /\ jobs \in Seq(RealJob)
  BY DEF OrderOK, TypeInv, JobsOK
<1>4. /\ NoteRanks(r)' = NoteRanks(r) /\ Ordered(out'[Me], NoteRank(r)) /\ HandRanks(r)' = HandRanks(r)
      /\ ServerRank(r)' = ServerRank(r)
  BY <1>2, <1>3, RanksAfter DEF NoteRanks, HandRanks, ServerRank
<1>5. /\ Ranks(Tail(jobs), JobRank(r)) \subseteq JobRanks(r) /\ Ordered(Tail(jobs), JobRank(r))
      /\ j \in DOMAIN JobRank(r) => /\ JobRank(r)[j] \in JobRanks(r)
                                    /\ \A k \in Ranks(Tail(jobs), JobRank(r)) : JobRank(r)[j] < k
  BY <1>1, <1>2, <1>3, RankTail DEF JobRanks
<1>6. CASE jobs' = jobs /\ j.do = "complete"
  <2>1. JobRanks(r)' = JobRanks(r) /\ Ordered(jobs', JobRank(r))
    BY <1>3, <1>6, RanksAfter DEF JobRanks
  <2>2. QED
    BY <1>2, <1>4, <1>5, <1>6, <2>1, OrderRuns
<1>7. CASE jobs' = Tail(jobs)
  <2>1. JobRanks(r)' = Ranks(Tail(jobs), JobRank(r)) /\ Ordered(jobs', JobRank(r))
    BY <1>5, <1>7, RanksAfter
  <2>2. j \in DOMAIN JobRank(r) =>
          /\ JobRank(r)[j] \in JobRanks(r)
          /\ \A i \in JobRanks(r)' \cup HandRanks(r)' \cup NoteRanks(r)' : JobRank(r)[j] < i
    BY <1>4, <1>5, <2>1 DEF OrderOK
  <2>3. QED
    BY <1>2, <1>4, <1>5, <2>1, <2>2, OrderRuns
<1>8. QED
  BY <1>2, <1>6, <1>7

\* The loss of the connection fails a future, now or through the lane.
LEMMA OrderLoss ==
  ASSUME TypeInv, TypeInv', NEW r \in Requests, OrderOK(r), LossSchedules
  PROVE  OrderOK(r)' /\ Stage(submission_state[r]) <= Stage(submission_state'[r])
<1>1. PICK j : j = verdict
  OBVIOUS
<1>2. j \in RealJob /\ j.do = "fail" /\ Schedule(j) /\ UNCHANGED <<out, st, receiver>>
  BY <1>1, HandTypes DEF LossSchedules, LossFrame, serverVars, linkVars
<1>3. Ordered(out[Me], NoteRank(r)) /\ Ordered(jobs, JobRank(r)) /\ jobs \in Seq(RealJob)
  BY DEF OrderOK, TypeInv, JobsOK
<1>4. /\ NoteRanks(r)' = NoteRanks(r) /\ Ordered(out'[Me], NoteRank(r)) /\ HandRanks(r)' = HandRanks(r)
      /\ ServerRank(r)' = ServerRank(r) /\ ServerRank(r) <= ServerRank(r)'
      /\ Stage(submission_state[r]) <= Stage(submission_state[r])
  BY <1>2, <1>3, RanksAfter, RankTypes DEF NoteRanks, HandRanks, ServerRank
<1>5. j \notin DOMAIN JobRank(r)
  BY <1>2, RankDomains
<1>6. CASE ~dispatch_closed
  <2>1. jobs' = Append(jobs, j) /\ UNCHANGED submission_state
    BY <1>2, <1>6 DEF Schedule, futureVars
  <2>2. JobRanks(r)' = JobRanks(r) /\ Ordered(jobs', JobRank(r))
    BY <1>2, <1>3, <1>5, <2>1, RankAppend, RanksAfter DEF JobRanks
  <2>3. QED
    BY <1>4, <2>1, <2>2, OrderStays
<1>7. CASE dispatch_closed
  <2>1. Perform(j) /\ UNCHANGED jobs
    BY <1>2, <1>7 DEF Schedule
  <2>2. JobRanks(r)' = JobRanks(r) /\ Ordered(jobs', JobRank(r))
    BY <1>3, <2>1, RanksAfter DEF JobRanks
  <2>3. QED
    BY <1>2, <1>4, <1>5, <2>1, <2>2, OrderRuns
<1>8. QED
  BY <1>6, <1>7

\* The sender takes a submission, of which the server knows nothing yet.
LEMMA OrderSender ==
  ASSUME TypeInv, TypeInv', NEW r \in Requests, WayOK(r), OrderOK(r), SenderTakes
  PROVE  OrderOK(r)' /\ Stage(submission_state[r]) <= Stage(submission_state'[r])
<1>0. /\ NoteRanks(r) \subseteq 2 .. 4 /\ JobRanks(r) \subseteq 2 .. 4 /\ HandRanks(r) \subseteq 2 .. 4
      /\ ServerRank(r) \in 1 .. 4 /\ Stage(submission_state[r]) \in 0 .. 4
  BY RankTypes
<1>1. UNCHANGED <<out, st, receiver, jobs>>
  BY DEF SenderTakes, SenderFrame, serverVars, linkVars, laneVars
<1>2. Ordered(out[Me], NoteRank(r)) /\ Ordered(jobs, JobRank(r))
  BY DEF OrderOK
<1>3. /\ NoteRanks(r)' = NoteRanks(r) /\ JobRanks(r)' = JobRanks(r) /\ HandRanks(r)' = HandRanks(r)
      /\ ServerRank(r)' = ServerRank(r) /\ ServerRank(r) <= ServerRank(r)'
      /\ Ordered(out'[Me], NoteRank(r)) /\ Ordered(jobs', JobRank(r))
  BY <1>0, <1>1, <1>2, RanksAfter DEF NoteRanks, HandRanks, JobRanks, ServerRank
<1>4. outbound # <<>> /\ Head(outbound) \in RealMessage /\ outbound \in Seq(RealMessage)
  BY OutboundTypes DEF SenderTakes, TypeInv, OutboundOK
<1>5. CASE submission_state'[r] = submission_state[r]
  BY <1>0, <1>3, <1>5, OrderStays
<1>6. CASE submission_state'[r] # submission_state[r]
  <2>1. PICK q : q = Head(outbound).of
    OBVIOUS
  <2>2. Head(outbound).kind = "SUBMIT" /\ Progress(q, "SENT_UNACKNOWLEDGED")
    BY <1>6, <2>1 DEF SenderTakes
  <2>3. q = r /\ submission_state'[r] = "SENT_UNACKNOWLEDGED" /\ ~Done(r)
    BY <1>6, <2>2 DEF Progress, TypeInv, FutureTypeOK
  <2>4. Head(outbound) \in SubmitOf(r)
    BY <1>4, <2>1, <2>2, <2>3 DEF SubmitOf
  <2>5. ~None(outbound, SubmitOf(r))
    BY <1>4, <2>4, SubmitQueue
  <2>6. ServerRank(r) = 1
    BY <2>5 DEF WayOK, ServerRank
  <2>7. NoteRanks(r) = {} /\ JobRanks(r) = {} /\ HandRanks(r) = {} /\ Stage(submission_state[r]) <= 1
    BY <1>0, <2>3, <2>6 DEF OrderOK
  <2>8. Stage("SENT_UNACKNOWLEDGED") = 1
    BY DEF Stage
  <2>9. NoteRank(r)' = NoteRank(r) /\ JobRank(r)' = JobRank(r)
    BY DEF NoteRank, JobRank, Stage, Report_, RealJob, LossErrors
  <2>10. Ordered(out[Me], NoteRank(r))' /\ Ordered(jobs, JobRank(r))'
    BY <1>3, <2>9 DEF Ordered
  <2>11. OrderOK(r)'
    BY <1>3, <2>3, <2>6, <2>7, <2>8, <2>10 DEF OrderOK
  <2>12. QED
    BY <2>3, <2>7, <2>8, <2>11
<1>7. QED
  BY <1>5, <1>6

\* Every step keeps the order of the reports about r, and its future goes on.
LEMMA OrderKept ==
  ASSUME TypeInv, TypeInv', WayInv, NEW r \in Requests, OrderOK(r), [Next]_vars
  PROVE  OrderOK(r)' /\ Stage(submission_state[r]) <= Stage(submission_state'[r])
<1>0. /\ ServerRank(r) \in 1 .. 4 /\ Stage(submission_state[r]) \in 0 .. 4
      /\ LinkOK /\ WayOK(r) /\ jobs \in Seq(RealJob)
      /\ Ordered(out[Me], NoteRank(r)) /\ Ordered(jobs, JobRank(r))
  BY RankTypes DEF WayInv, OrderOK, TypeInv, JobsOK
<1>1. CASE ServerStep
  <2>1. UNCHANGED submission_state
    BY <1>1, ServerTells
  <2>2. QED
    BY <1>0, <1>1, <2>1, OrderServer
<1>2. CASE ReceiverReads \/ ReceiverSchedules
  BY <1>0, <1>2, OrderReceiver
<1>3. CASE LaneRuns
  BY <1>3, OrderLane
<1>4. CASE LossSchedules
  BY <1>4, OrderLoss
<1>5. CASE SenderTakes
  BY <1>0, <1>5, OrderSender
<1>6. ASSUME ~ServerStep, ~ReceiverReads, ~ReceiverSchedules, ~LaneRuns, ~LossSchedules, ~SenderTakes
      PROVE  OrderOK(r)' /\ Stage(submission_state[r]) <= Stage(submission_state'[r])
  <2>1. UNCHANGED st
    BY <1>6, Frames DEF serverVars
  <2>2. ServerRank(r)' = ServerRank(r)
    BY <2>1 DEF ServerRank
  <2>3. HandRanks(r)' \subseteq HandRanks(r)
    <3>1. UNCHANGED receiver \/ receiver' = [at |-> "exit", hand |-> NoJob]
      BY <1>6, Frames DEF ReceiverStep, ReceiverEnds
    <3>2. QED
      BY <3>1, RanksAfter DEF HandRanks
  <2>4. out'[Me] = out[Me] \/ out'[Me] = <<>>
    <3>1. CASE SenderStep
      BY <1>6, <3>1 DEF SenderStep, SenderSends, SenderFails, BeginLoss, CloseSocket, linkVars,
                        TypeInv, ServerTypeOK
    <3>2. CASE ReceiverStep
      BY <1>6, <3>2 DEF ReceiverStep, ReceiverEnds, BeginLoss, CloseSocket, linkVars, TypeInv,
                        ServerTypeOK
    <3>3. CASE LaneStep
      BY <1>6, <3>3 DEF LaneStep, LaneAcks, LaneAckFails, LaneForgets, BeginLoss, CloseSocket,
                        linkVars, TypeInv, ServerTypeOK
    <3>4. CASE CloserMove
      BY <3>4 DEF CloserMove, Shutdown, CloserStarts, CloserWaits, CloserAsks, CloserAnswered,
                  CloserCloses, CloserDrains, CloseSocket, TypeInv, ServerTypeOK
    <3>5. CASE UNCHANGED linkVars
      BY <3>5 DEF linkVars
    <3>6. QED
      BY <1>6, <3>1, <3>2, <3>3, <3>4, <3>5, Frames
  <2>5. NoteRanks(r)' \subseteq NoteRanks(r) /\ Ordered(out'[Me], NoteRank(r))
    BY <1>0, <2>4, RankEmpty, RanksAfter DEF NoteRanks
  <2>6. jobs' = jobs \/ (jobs # <<>> /\ jobs' = Tail(jobs))
    <3>1. CASE ReceiverStep
      BY <1>6, <3>1 DEF ReceiverStep, ReceiverEnds
    <3>2. CASE LaneStep
      <4>1. LaneAcks \/ LaneAckFails \/ LaneForgets
        BY <1>6, <3>2 DEF LaneStep
      <4>2. lane \in {"ack", "lost"} /\ (jobs' = jobs \/ jobs' = Tail(jobs))
        BY <4>1 DEF LaneAcks, LaneAckFails, LaneForgets, LaneNext
      <4>3. jobs # <<>>
        BY <4>2 DEF TypeInv, JobsOK
      <4>4. QED
        BY <4>2, <4>3
    <3>3. CASE LossStep
      BY <1>6, <3>3 DEF LossStep, LossLooks, LossEnds
    <3>4. QED
      BY <3>1, <3>2, <3>3, Frames DEF laneVars
  <2>7. JobRanks(r)' \subseteq JobRanks(r) /\ Ordered(jobs', JobRank(r))
    <3>1. CASE jobs' = jobs
      BY <1>0, <3>1, RanksAfter DEF JobRanks
    <3>2. CASE jobs # <<>> /\ jobs' = Tail(jobs)
      BY <1>0, <3>2, RankTail, RanksAfter DEF JobRanks
    <3>3. QED
      BY <2>6, <3>1, <3>2
  <2>8. UNCHANGED submission_state \/ \E q \in Requests : Progress(q, "CANCELLED")
    BY <1>6, FutureSteps DEF CancelLocally, Settle
  <2>9. /\ ~Done(r)' => submission_state'[r] = submission_state[r]
        /\ submission_state'[r] = submission_state[r] \/ submission_state'[r] = "CANCELLED"
    <3>1. "CANCELLED" \in Final
      BY DEF Final
    <3>2. ASSUME NEW q \in Requests, Progress(q, "CANCELLED")
          PROVE  submission_state'[r] = submission_state[r] \/ submission_state'[r] = "CANCELLED"
      BY <3>2 DEF Progress, TypeInv, FutureTypeOK
    <3>3. QED
      BY <2>8, <3>1, <3>2 DEF Done
  <2>10. Stage(submission_state[r]) <= Stage(submission_state'[r])
    <3>1. Stage("CANCELLED") = 4
      BY DEF Stage
    <3>2. QED
      BY <1>0, <2>9, <3>1
  <2>11. OrderOK(r)'
    BY <1>0, <2>2, <2>3, <2>5, <2>7, <2>9, OrderStays
  <2>12. QED
    BY <2>10, <2>11
<1>7. QED
  BY <1>1, <1>2, <1>3, <1>4, <1>5, <1>6

LEMMA OrderBegins == Init => OrderInv
<1> SUFFICES ASSUME Init, NEW r \in Requests PROVE OrderOK(r)
  BY DEF OrderInv
<1>1. TypeInv
  BY TypeBegins
<1>2. NoteRanks(r) = {} /\ JobRanks(r) = {} /\ Ordered(out[Me], NoteRank(r)) /\ Ordered(jobs, JobRank(r))
  BY RankEmpty DEF Init, ServiceInit, NoteRanks, JobRanks
<1>3. HandRanks(r) = {}
  BY DEF Init, HandRanks
<1>4. ServerRank(r) = 1 /\ Stage(submission_state[r]) = 0
  BY DEF Init, ServiceInit, ServerRank, Stage
<1>5. QED
  BY <1>2, <1>3, <1>4 DEF OrderOK

-----------------------------------------------------------------------------
(* A future that is done keeps its outcome.                                *)

\* Who is cancelled, and by whom.
LEMMA AskSteps ==
  ASSUME TypeInv, AskStep
  PROVE  \/ \E t \in Askers, q \in Requests, hard \in BOOLEAN :
              /\ Cancel(t, q, hard)
              /\ caller[q] = "returned" \/ q \in to_cancel
              /\ to_cancel' \subseteq to_cancel
         \/ \E t \in Askers : (Decided(t) \/ Undecided(t)) /\ UNCHANGED to_cancel
<1>1. ASSUME NEW r \in Requests, CallerCancels(r)
      PROVE  \E hard \in BOOLEAN : Cancel(r, r, hard) /\ caller[r] = "returned" /\ UNCHANGED to_cancel
  BY <1>1 DEF CallerCancels, shutdownVars
<1>2. ASSUME CloserCancels
      PROVE  \E q \in Requests : Cancel(Closer, q, FALSE) /\ q \in to_cancel /\ to_cancel' \subseteq to_cancel
  <2>1. First(to_cancel) \in to_cancel /\ to_cancel \subseteq Requests
    BY <1>2, FirstIsOne DEF CloserCancels, TypeInv, CloserTypeOK
  <2>2. QED
    BY <1>2, <2>1 DEF CloserCancels
<1>3. ASSUME NEW t \in Askers, Decided(t) \/ Undecided(t) PROVE UNCHANGED to_cancel
  BY <1>3 DEF Decided, Undecided, shutdownVars
<1>4. CASE \E t \in Askers : Decided(t) \/ Undecided(t)
  BY <1>3, <1>4
<1>5. CASE \E r \in Requests : CallerCancels(r)
  BY <1>1, <1>5 DEF Askers
<1>6. CASE CloserCancels
  BY <1>2, <1>6 DEF Askers
<1>7. QED
  BY <1>4, <1>5, <1>6 DEF AskStep

\* A job that the thread which schedules it runs itself, or queues.
LEMMA ScheduleOthers ==
  ASSUME TypeInv, NEW r \in Requests, NEW j \in RealJob, j.of # r, Schedule(j), None(jobs, JobsOf(r))
  PROVE  /\ submission_state'[r] = submission_state[r] /\ None(jobs', JobsOf(r))
         /\ futures' \subseteq futures
<1>1. jobs' = jobs \/ jobs' = Append(jobs, j)
  BY DEF Schedule
<1>2. None(jobs', JobsOf(r))
  <2>1. None(Append(jobs, j), JobsOf(r))
    BY HandTypes, NoneStays DEF JobsOf
  <2>2. QED
    BY <1>1, <2>1
<1>3. submission_state'[r] = submission_state[r]
  BY DEF Schedule, Perform, Settle, Progress, futureVars, TypeInv, FutureTypeOK
<1>4. QED
  BY <1>2, <1>3 DEF Schedule, Forgets, tableVars

LEMMA StartKept ==
  ASSUME TypeInv, WayInv, NEW r \in Requests, StartOK(r), [Next]_vars
  PROVE  StartOK(r)'
<1> SUFFICES ASSUME caller'[r] = "start"
             PROVE  /\ submission_state'[r] = "LOCAL_PENDING"
                    /\ r \notin futures' \cup lost' \cup to_cancel'
                    /\ \A t \in Askers : asking'[t] # r
                    /\ receiver'.hand.of # r /\ verdict'.of # r
                    /\ None(jobs', JobsOf(r))
  BY DEF StartOK, JobsOf, Askers
<1>0. caller[r] = "start"
  <2>1. CASE SubmitStep
    BY <2>1 DEF SubmitStep, SubmitRefused, Refuse, Register, Enqueue, Drop, TypeInv, SubmitTypeOK
  <2>2. QED
    BY <2>1, Frames DEF submitVars
<1>1. /\ submission_state[r] = "LOCAL_PENDING"
      /\ r \notin futures \cup lost \cup to_cancel
      /\ \A t \in Askers : asking[t] # r
      /\ receiver.hand.of # r /\ verdict.of # r
      /\ None(jobs, JobsOf(r))
  BY <1>0 DEF StartOK
<1>2. NoJob.of # r /\ r \notin {"no", "session", "over"}
  BY DEF NoJob
<1>3. \A t : BeginLoss(t) => r \notin lost' /\ UNCHANGED verdict
  BY <1>1 DEF BeginLoss, lossVars
<1>4. CASE SubmitStep /\ SubmitFrame
  <2>1. r \notin futures'
    <3>1. PICK q \in Requests : SubmitRefused(q) \/ Register(q) \/ Enqueue(q) \/ Drop(q)
      BY <1>4 DEF SubmitStep
    <3>2. CASE Register(q)
      <4>1. caller' = [caller EXCEPT ![q] = "registered"] /\ futures' = futures \cup {q}
        BY <3>2 DEF Register
      <4>2. caller \in [Requests -> {"start", "registered", "returned", "raised"}]
        BY DEF TypeInv, SubmitTypeOK
      <4>3. caller'[q] = "registered"
        BY <4>1, <4>2
      <4>4. q # r
        BY <4>3
      <4>5. QED
        BY <4>1, <4>4, <1>1
    <3>3. CASE SubmitRefused(q) \/ Enqueue(q) \/ Drop(q)
      <4>1. futures' \subseteq futures
        BY <3>3 DEF SubmitRefused, Refuse, Enqueue, Drop
      <4>2. QED
        BY <4>1, <1>1
    <3>4. QED
      BY <3>1, <3>2, <3>3
  <2>2. QED
    BY <1>1, <1>4, <2>1 DEF SubmitFrame, threadVars, lossVars, laneVars, askVars, shutdownVars
<1>5. CASE CallbackStep /\ CallbackFrame
  BY <1>1, <1>5 DEF CallbackFrame, threadVars, lossVars, laneVars, askVars, shutdownVars, futureVars, tableVars
<1>6. CASE AskStep /\ AskFrame
  <2>0. UNCHANGED <<futures, lost, receiver, verdict, jobs>>
    BY <1>6 DEF AskFrame, tableVars, threadVars, laneVars, lossVars
  <2>1. ASSUME NEW t \in Askers, NEW q \in Requests, q # r, NEW hard \in BOOLEAN, Cancel(t, q, hard)
        PROVE  submission_state'[r] = submission_state[r] /\ \A u \in Askers : asking'[u] # r
    <3>1. CASE CancelLocally(t, q)
      BY <1>1, <1>2, <2>1, <3>1 DEF CancelLocally, Settle, Progress, Return, TypeInv, FutureTypeOK, AskTypeOK
    <3>2. CASE CancelGivesUp(t, q)
      BY <1>1, <1>2, <2>1, <3>2 DEF CancelGivesUp, Return, futureVars, TypeInv, AskTypeOK
    <3>3. CASE CancelAsks(t, q, hard)
      BY <1>1, <1>2, <2>1, <3>3 DEF CancelAsks, futureVars, TypeInv, AskTypeOK
    <3>4. QED
      BY <2>1, <3>1, <3>2, <3>3 DEF Cancel
  <2>2. ASSUME NEW t \in Askers, Decided(t) \/ Undecided(t)
        PROVE  submission_state'[r] = submission_state[r] /\ \A u \in Askers : asking'[u] # r
    <3>1. \A u \in Askers : asking'[u] # r
      BY <1>1, <1>2, <2>2 DEF Decided, Undecided, Return, TypeInv, AskTypeOK
    <3>2. asking[t] # r
      BY <1>1
    <3>3. submission_state'[r] = submission_state[r]
      BY <2>2, <3>2 DEF Decided, Undecided, Settle, Progress, futureVars, TypeInv, FutureTypeOK
    <3>4. QED
      BY <3>1, <3>3
  <2>3. QED
    BY <1>0, <1>1, <1>6, <2>0, <2>1, <2>2, AskSteps
<1>7. CASE SenderStep /\ SenderFrame
  <2>1. submission_state'[r] = submission_state[r]
    <3>1. CASE SenderTakes
      <4>1. outbound # <<>> /\ Head(outbound) \in RealMessage /\ outbound \in Seq(RealMessage)
        BY <3>1, OutboundTypes DEF SenderTakes, TypeInv, OutboundOK
      <4>2. None(outbound, SubmitOf(r))
        BY <1>0 DEF WayInv, WayOK
      <4>3. Head(outbound) \notin SubmitOf(r)
        BY <4>1, <4>2, NoneStays
      <4>4. ~(Head(outbound).kind = "SUBMIT" /\ Head(outbound).of = r)
        BY <4>1, <4>3 DEF SubmitOf
      <4>5. QED
        BY <3>1, <4>4 DEF SenderTakes, Progress, TypeInv, FutureTypeOK
    <3>2. QED
      BY <1>7, <3>1 DEF SenderStep, SenderSends, SenderFails
  <2>2. futures' \subseteq futures /\ UNCHANGED <<receiver, jobs, asking, to_cancel>>
    BY <1>7 DEF SenderStep, SenderTakes, SenderSends, SenderFails, SenderFrame, laneVars, shutdownVars
  <2>3. UNCHANGED lossVars \/ BeginLoss("sender")
    BY <1>7 DEF SenderStep, SenderTakes, SenderSends, SenderFails
  <2>4. QED
    BY <1>1, <1>3, <2>1, <2>2, <2>3 DEF lossVars
<1>8. CASE ReceiverStep /\ ReceiverFrame
  <2>0. UNCHANGED <<asking, to_cancel>>
    BY <1>8 DEF ReceiverFrame, shutdownVars
  <2>1. CASE ReceiverReads
    <3>1. UNCHANGED <<submission_state, futures, lost, verdict, jobs>>
      BY <2>1 DEF ReceiverReads, futureVars, lossVars
    <3>2. receiver'.hand.of # r
      <4>1. receiver' = receiver \/ \E q \in futures : \E v : receiver' = [at |-> "job", hand |-> JobOf(q, v)]
        BY <2>1 DEF ReceiverReads
      <4>2. \A q, v : [at |-> "job", hand |-> JobOf(q, v)].hand.of = q
        BY DEF JobOf
      <4>3. QED
        BY <1>1, <4>1, <4>2
    <3>3. QED
      BY <1>1, <2>0, <3>1, <3>2
  <2>2. CASE ReceiverSchedules
    <3>1. receiver.hand \in RealJob /\ Schedule(receiver.hand)
      BY <2>2, HandTypes DEF ReceiverSchedules
    <3>2. /\ submission_state'[r] = submission_state[r] /\ None(jobs', JobsOf(r))
          /\ futures' \subseteq futures
      BY <1>1, <3>1, ScheduleOthers
    <3>3. receiver' = [at |-> "read", hand |-> NoJob] /\ UNCHANGED <<lost, verdict>>
      BY <2>2 DEF ReceiverSchedules, lossVars
    <3>4. QED
      BY <1>1, <1>2, <2>0, <3>2, <3>3
  <2>3. CASE ReceiverEnds
    <3>1. UNCHANGED <<submission_state, futures, jobs>> /\ receiver' = [at |-> "exit", hand |-> NoJob]
      BY <2>3 DEF ReceiverEnds, futureVars, tableVars
    <3>2. UNCHANGED lossVars \/ BeginLoss("receiver")
      BY <2>3 DEF ReceiverEnds
    <3>3. QED
      BY <1>1, <1>2, <1>3, <2>0, <3>1, <3>2 DEF lossVars
  <2>4. QED
    BY <1>8, <2>1, <2>2, <2>3 DEF ReceiverStep
<1>9. CASE LaneStep /\ LaneFrame
  <2>0. UNCHANGED <<asking, to_cancel, receiver>>
    BY <1>9 DEF LaneFrame, shutdownVars
  <2>1. jobs # <<>> /\ Head(jobs) \in RealJob /\ jobs \in Seq(RealJob)
    BY <1>9, HandTypes DEF LaneStep, LaneRuns, LaneAcks, LaneAckFails, LaneForgets, TypeInv, JobsOK
  <2>2. None(Tail(jobs), JobsOf(r)) /\ Head(jobs) \notin JobsOf(r)
    BY <1>1, <2>1, NoneStays
  <2>3. Head(jobs).of # r
    BY <2>1, <2>2 DEF JobsOf
  <2>4. jobs' = jobs \/ jobs' = Tail(jobs)
    BY <1>9 DEF LaneStep, LaneRuns, LaneAcks, LaneAckFails, LaneForgets, LaneNext
  <2>5. futures' \subseteq futures
    BY <1>9 DEF LaneStep, LaneRuns, LaneAcks, LaneAckFails, LaneForgets, LaneNext, Forgets, tableVars
  <2>6. UNCHANGED lossVars \/ BeginLoss("lane")
    BY <1>9 DEF LaneStep, LaneRuns, LaneAcks, LaneAckFails, LaneForgets
  <2>7. submission_state'[r] = submission_state[r]
    <3>1. CASE LaneRuns
      BY <2>3, <3>1 DEF LaneRuns, Perform, Settle, Progress, TypeInv, FutureTypeOK
    <3>2. QED
      BY <1>9, <3>1 DEF LaneStep, LaneAcks, LaneAckFails, LaneForgets, futureVars
  <2>8. QED
    BY <1>1, <1>3, <2>0, <2>2, <2>4, <2>5, <2>6, <2>7 DEF lossVars
<1>10. CASE LossStep /\ LossFrame
  <2>0. UNCHANGED <<asking, to_cancel, receiver>>
    BY <1>10 DEF LossFrame, askVars, shutdownVars
  <2>1. CASE LossLooks
    <3>1. First(lost) \in lost
      BY <2>1, FirstIsOne DEF LossLooks, TypeInv, LossTypeOK
    <3>2. First(lost) # r
      BY <1>1, <3>1
    <3>3. verdict' = NoJob \/ \E w : verdict' = [do |-> "fail", of |-> First(lost), what |-> w]
      BY <2>1 DEF LossLooks
    <3>4. verdict'.of # r
      BY <1>2, <3>2, <3>3
    <3>5. lost' \subseteq lost /\ UNCHANGED <<submission_state, futures, jobs>>
      BY <2>1 DEF LossLooks, futureVars, tableVars
    <3>6. QED
      BY <1>1, <2>0, <3>4, <3>5
  <2>2. CASE LossSchedules
    <3>1. verdict \in RealJob /\ Schedule(verdict)
      BY <2>2, HandTypes DEF LossSchedules
    <3>2. /\ submission_state'[r] = submission_state[r] /\ None(jobs', JobsOf(r))
          /\ futures' \subseteq futures
      BY <1>1, <3>1, ScheduleOthers
    <3>3. verdict' = NoJob /\ UNCHANGED lost
      BY <2>2 DEF LossSchedules
    <3>4. QED
      BY <1>1, <1>2, <2>0, <3>2, <3>3
  <2>3. CASE LossEnds
    BY <1>1, <2>0, <2>3 DEF LossEnds, futureVars, tableVars
  <2>4. QED
    BY <1>10, <2>1, <2>2, <2>3 DEF LossStep
<1>11. CASE CloserMove /\ CloserFrame
  <2>1. to_cancel' \subseteq to_cancel \cup futures
    BY <1>11 DEF CloserMove, Shutdown, CloserStarts, CloserWaits, CloserAsks, CloserAnswered,
                 CloserCloses, CloserDrains, CloserGoes
  <2>2. \A t \in Askers : asking'[t] \in {asking[t], "no", "session", "over"}
    BY <1>11 DEF CloserMove, Shutdown, CloserStarts, CloserWaits, CloserAsks, CloserAnswered,
                 CloserCloses, CloserDrains, Return, askVars, TypeInv, AskTypeOK
  <2>3. QED
    BY <1>1, <1>2, <1>11, <2>1, <2>2 DEF CloserFrame, tableVars, futureVars, threadVars, laneVars, lossVars
<1>12. CASE ServerStep /\ ServerFrame
  BY <1>1, <1>12 DEF ServerFrame, tableVars, futureVars, threadVars, laneVars, lossVars, askVars, shutdownVars
<1>13. CASE UNCHANGED vars
  BY <1>1, <1>13 DEF vars, tableVars, futureVars, threadVars, laneVars, lossVars, askVars, shutdownVars
<1>14. QED
  BY <1>4, <1>5, <1>6, <1>7, <1>8, <1>9, <1>10, <1>11, <1>12, <1>13, Steps

\* How the exception of a future is set.
LEMMA ErrorSteps ==
  ASSUME TypeInv, [Next]_vars
  PROVE  \/ UNCHANGED error
         \/ \E r \in Requests, e \in Errors : Refuse(r, e)
         \/ \E r \in Requests : Drop(r)
         \/ \E r \in Requests, s \in Final, e \in Errors : Settle(r, s, e)
<1>1. ASSUME NEW j \in RealJob, Perform(j)
      PROVE  UNCHANGED error \/ \E s \in Final, e \in Errors : Settle(j.of, s, e)
  <2>1. CASE j.do \in {"accepted", "running"}
    BY <1>1, <2>1 DEF Perform
  <2>2. CASE j.do = "complete"
    <3>1. Settle(j.of, FutureState(j.of, j.what), FutureError(j.of, j.what))
      BY <1>1, <2>2 DEF Perform
    <3>2. FutureState(j.of, j.what) \in Final
      BY DEF FutureState, Final
    <3>3. j.what \in Ended
      BY <2>2 DEF RealJob
    <3>4. FutureError(j.of, j.what) \in Errors
      BY <3>3 DEF FutureError, Errors, Ended, WithoutRun, AfterRun
    <3>5. QED
      BY <3>1, <3>2, <3>4
  <2>3. CASE j.do \in {"reject", "fail"}
    <3>1. Settle(j.of, "FAILED", j.what)
      BY <1>1, <2>3 DEF Perform
    <3>2. j.what \in Errors
      BY <2>3 DEF RealJob, LossErrors, Errors
    <3>3. QED
      BY <3>1, <3>2 DEF Final
  <2>4. QED
    BY <2>1, <2>2, <2>3 DEF RealJob
<1>2. ASSUME NEW j \in RealJob, Schedule(j) PROVE Perform(j) \/ UNCHANGED error
  BY <1>2 DEF Schedule, futureVars
<1>3. \A j \in RealJob : j.of \in Requests
  BY DEF RealJob
<1>4. CASE SubmitStep
  BY <1>4 DEF SubmitStep, SubmitRefused, Register, Enqueue, Errors
<1>5. CASE ReceiverStep
  <2>1. ReceiverSchedules => receiver.hand \in RealJob /\ Schedule(receiver.hand)
    BY HandTypes DEF ReceiverSchedules
  <2>2. QED
    BY <1>1, <1>2, <1>3, <1>5, <2>1 DEF ReceiverStep, ReceiverReads, ReceiverEnds, futureVars
<1>6. CASE LaneStep
  <2>1. LaneRuns => Head(jobs) \in RealJob /\ Perform(Head(jobs))
    BY HandTypes DEF LaneRuns
  <2>2. QED
    BY <1>1, <1>3, <1>6, <2>1 DEF LaneStep, LaneAcks, LaneAckFails, LaneForgets, futureVars
<1>7. CASE LossStep
  <2>1. LossSchedules => verdict \in RealJob /\ Schedule(verdict)
    BY HandTypes DEF LossSchedules
  <2>2. QED
    BY <1>1, <1>2, <1>3, <1>7, <2>1 DEF LossStep, LossLooks, LossEnds, futureVars
<1>8. CASE AskStep
  <2>1. "CANCELLED" \in Final /\ {"none", "CancelledLocally"} \subseteq Errors
    BY DEF Final, Errors
  <2>2. ASSUME NEW t \in Askers, NEW q \in Requests, NEW hard \in BOOLEAN, Cancel(t, q, hard)
        PROVE  UNCHANGED error \/ Settle(q, "CANCELLED", "CancelledLocally")
    BY <2>2 DEF Cancel, CancelLocally, CancelGivesUp, CancelAsks, futureVars
  <2>3. ASSUME NEW t \in Askers, Decided(t) \/ Undecided(t)
        PROVE  UNCHANGED error \/ (asking[t] \in Requests /\ Settle(asking[t], "CANCELLED", "none"))
    BY <2>3 DEF Decided, Undecided, futureVars
  <2>4. QED
    BY <1>8, <2>1, <2>2, <2>3, AskSteps
<1>9. CASE SenderStep
  BY <1>9, Steps DEF SenderStep, SenderTakes, SenderSends, SenderFails, SenderFrame
<1>10. QED
  BY <1>4, <1>5, <1>6, <1>7, <1>8, <1>9, Frames DEF futureVars

LEMMA OutcomeKept ==
  ASSUME TypeInv, [Next]_vars, NEW r \in Requests, StartOK(r), Done(r)
  PROVE  submission_state'[r] = submission_state[r] /\ error'[r] = error[r]
<1>0. error \in [Requests -> Errors]
  BY DEF TypeInv, FutureTypeOK
<1>1. caller[r] # "start"
  BY DEF StartOK, Done, Final
<1>2. ASSUME NEW q \in Requests, NEW e \in Errors, Refuse(q, e) PROVE error'[r] = error[r]
  BY <1>0, <1>1, <1>2 DEF Refuse
<1>3. ASSUME NEW q \in Requests, Drop(q) PROVE error'[r] = error[r]
  BY <1>0, <1>3 DEF Drop
<1>4. ASSUME NEW q \in Requests, NEW s \in Final, NEW e \in Errors, Settle(q, s, e)
      PROVE  error'[r] = error[r]
  BY <1>0, <1>4 DEF Settle
<1>5. QED
  BY <1>2, <1>3, <1>4, ErrorSteps, NotPendingAgain

LEMMA StartBegins == Init => StartInv
<1> SUFFICES ASSUME Init, NEW r \in Requests PROVE StartOK(r)
  BY DEF StartInv
<1>1. None(jobs, JobsOf(r))
  BY NoneEmpty DEF Init
<1>2. QED
  BY <1>1 DEF Init, StartOK, NoJob

\* What the order of the reports rests on, together.
LEMMA OrderHolds == Spec => [](TypeInv /\ WayInv /\ OrderInv /\ StartInv)
<1>1. Init => TypeInv /\ WayInv /\ OrderInv /\ StartInv
  BY TypeBegins, WayBegins, OrderBegins, StartBegins
<1>2. TypeInv /\ WayInv /\ OrderInv /\ StartInv /\ [Next]_vars
      => (TypeInv /\ WayInv /\ OrderInv /\ StartInv)'
  <2> SUFFICES ASSUME TypeInv, WayInv, OrderInv, StartInv, [Next]_vars
               PROVE  (TypeInv /\ WayInv /\ OrderInv /\ StartInv)'
    OBVIOUS
  <2>1. TypeInv' /\ WayInv'
    BY TypeStep, WayStep
  <2>2. ASSUME NEW r \in Requests PROVE OrderOK(r)' /\ StartOK(r)'
    BY <2>1, OrderKept, StartKept DEF OrderInv, StartInv
  <2>3. QED
    BY <2>1, <2>2 DEF OrderInv, StartInv
<1>3. QED
  BY <1>1, <1>2, PTL DEF Spec

\* A future's state never goes back, and a future that has ended keeps its state
\* and its exception, although the sender, the lane, the thread that lost the
\* connection and those that cancel all set it.
THEOREM FuturesNeverGoBack == Spec => NeverBackwards
<1> DEFINE Forwards == \A r \in Requests :
                         /\ Stage(submission_state[r]) <= Stage(submission_state'[r])
                         /\ Done(r) => submission_state'[r] = submission_state[r] /\ error'[r] = error[r]
<1>1. TypeInv /\ TypeInv' /\ WayInv /\ OrderInv /\ StartInv /\ [Next]_vars => Forwards
  BY OrderKept, OutcomeKept DEF OrderInv, StartInv
<1>2. Spec => [][Forwards]_vars
  <2> HIDE DEF Forwards
  <2>1. QED
    BY <1>1, OrderHolds, PTL DEF Spec
<1>3. QED
  BY <1>2 DEF NeverBackwards

-----------------------------------------------------------------------------
(* What is said of a request stays true.                                   *)

LEMMA SeqGrows ==
  ASSUME NEW S, NEW T, S \subseteq T, NEW s \in Seq(S)
  PROVE  s \in Seq(T)
  BY LenProperties, SeqDef

\* What the states of the server are final about.
LEMMA ServerMovesOn ==
  ASSUME TypeInv, [Next]_vars, NEW r \in Requests
  PROVE  /\ st[r] \notin {"UNSENT", "REJECTED"} => st'[r] \notin {"UNSENT", "REJECTED"}
         /\ st[r] \in {"RUNNING"} \cup AfterRun => st'[r] \in {"RUNNING"} \cup AfterRun
         /\ st[r] \in Ended \cup {"REJECTED"} => st'[r] = st[r]
<1>0. st[r] \in States
  BY DEF TypeInv, ServerTypeOK
<1>1. \A v \in Ended \cup {"REJECTED"} : v \notin {"UNSENT", "ACCEPTED_QUEUED", "RUNNING"}
  BY DEF Ended, WithoutRun, AfterRun
<1>2. st[r] = "RUNNING" => Successors(st[r]) = AfterRun
  BY DEF Successors
<1>3. st[r] = "ACCEPTED_QUEUED" => Successors(st[r]) = {"RUNNING"} \cup WithoutRun
  BY DEF Successors
<1>4. "UNSENT" \notin AfterRun \cup WithoutRun /\ "REJECTED" \notin AfterRun \cup WithoutRun
      /\ "ACCEPTED_QUEUED" \notin AfterRun
  BY DEF AfterRun, WithoutRun
<1>5. AfterRun \subseteq Ended
  BY DEF Ended
<1>6. QED
  BY <1>0, <1>1, <1>2, <1>3, <1>4, <1>5, ServerSteps

LEMMA FailedStays ==
  ASSUME [Next]_vars, failed
  PROVE  failed'
<1>1. \A t : BeginLoss(t) /\ failed => failed'
  BY DEF BeginLoss, linkVars
<1>2. CASE SenderStep
  BY <1>1, <1>2 DEF SenderStep, SenderTakes, SenderSends, SenderFails, linkVars
<1>3. CASE ReceiverStep
  BY <1>1, <1>3 DEF ReceiverStep, ReceiverReads, ReceiverSchedules, ReceiverEnds, linkVars
<1>4. CASE LaneStep
  BY <1>1, <1>4 DEF LaneStep, LaneRuns, LaneAcks, LaneAckFails, LaneForgets, linkVars
<1>5. CASE CloserMove /\ CloserFrame
  BY <1>5 DEF CloserFrame
<1>6. CASE ServerStep /\ ServerFrame
  BY <1>6 DEF ServerFrame
<1>7. QED
  BY <1>2, <1>3, <1>4, <1>5, <1>6, Steps DEF SubmitFrame, CallbackFrame, AskFrame, LossFrame,
                                             vars, linkVars

\* A submission that will not be sent is not sent.
LEMMA NeverSentKept ==
  ASSUME TypeInv, WayInv, [Next]_vars, NEW r \in Requests, NeverSent(r)
  PROVE  NeverSent(r)'
<1>0. /\ st[r] = "UNSENT" /\ None(wire, SubmitOf(r)) /\ wire \in Seq(RealMessage)
      /\ LinkOK /\ WayOK(r)
      /\ failed \/ caller[r] = "raised" \/ (Done(r) /\ ~InHand(r))
  BY DEF NeverSent, WayInv, TypeInv, ServerTypeOK
<1>a. SubmitOf(r)' = SubmitOf(r)
  BY DEF SubmitOf, RealMessage, Message, Askers
<1>1. st'[r] = "UNSENT"
  <2>1. wire # <<>> => Head(wire) \notin SubmitOf(r)
    BY <1>0, SubmitQueue
  <2>2. ServerReads => wire # <<>>
    BY DEF ServerReads
  <2>3. QED
    BY <1>0, <2>1, <2>2, ServerSteps
<1>2. None(wire', SubmitOf(r))
  <2>1. CASE ServerStep
    <3>1. wire' = wire \/ wire' = <<>> \/ (wire # <<>> /\ wire' = Tail(wire))
      BY <2>1 DEF ServerStep, ServerReads, LinkFails, ServerWorks
    <3>2. wire # <<>> => None(Tail(wire), SubmitOf(r))
      BY <1>0, SubmitQueue
    <3>3. None(<<>>, SubmitOf(r))
      BY NoneEmpty
    <3>4. QED
      BY <1>0, <3>1, <3>2, <3>3
  <2>2. CASE SenderSends
    <3>1. wire' = wire \/ (wire' = Append(wire, sender.hand) /\ Me \in up)
      BY <2>2 DEF SenderSends
    <3>2. sender.at = "send" /\ sock /\ sender.hand \in RealMessage
      BY <2>2 DEF SenderSends, TypeInv, SenderOK
    <3>3. ~InHand(r)
      BY <1>0, <3>2 DEF LinkOK, WayOK
    <3>4. sender.hand \notin SubmitOf(r)
      BY <3>2, <3>3 DEF InHand
    <3>5. None(Append(wire, sender.hand), SubmitOf(r))
      BY <1>0, <3>2, <3>4, SubmitQueue
    <3>6. QED
      BY <1>0, <3>1, <3>5
  <2>3. QED
    BY <1>0, <2>1, <2>2, Frames DEF SenderStep, SenderTakes, SenderFails
<1>3. failed => failed'
  BY FailedStays
<1>4. caller[r] = "raised" => caller'[r] = "raised"
  <2>1. CASE SubmitStep
    BY <2>1 DEF SubmitStep, SubmitRefused, Refuse, Register, Enqueue, Drop, TypeInv, SubmitTypeOK
  <2>2. QED
    BY <2>1, Frames DEF submitVars
<1>5. Done(r) => Done(r)'
  BY NotPendingAgain DEF Done
<1>6. Done(r) /\ ~InHand(r) => ~InHand(r)'
  <2>1. CASE SenderTakes
    <3>1. Done(r) /\ Head(outbound) \in SubmitOf(r) => sender' = [sender EXCEPT !.at = "exit"] \/ sender' = sender
      BY <2>1 DEF SenderTakes, SubmitOf
    <3>2. \/ sender' = [sender EXCEPT !.at = "exit"] \/ sender' = sender
          \/ sender' = [at |-> "send", hand |-> Head(outbound)]
      BY <2>1 DEF SenderTakes
    <3>3. sender = [at |-> sender.at, hand |-> sender.hand]
      BY DEF TypeInv, SenderOK
    <3>4. QED
      BY <1>a, <3>1, <3>2, <3>3 DEF InHand
  <2>2. CASE SenderSends \/ SenderFails
    BY <2>2 DEF SenderSends, SenderFails, InHand
  <2>3. CASE UNCHANGED sender
    BY <1>a, <2>3 DEF InHand
  <2>4. QED
    BY <2>1, <2>2, <2>3, Frames DEF SenderStep
<1>7. QED
  BY <1>0, <1>a, <1>1, <1>2, <1>3, <1>4, <1>5, <1>6 DEF NeverSent, None

\* A report, a job and what a future says stay true.
LEMMA ReportsStayTrue ==
  ASSUME TypeInv, WayInv, [Next]_vars
  PROVE  TrueNotes \subseteq TrueNotes' /\ TrueJobs \subseteq TrueJobs'
<1>0. Note' = Note /\ Report_' = Report_ /\ RealJob' = RealJob
  BY DEF Note, Report_, Answer_, RealJob, Askers
<1>1. ASSUME NEW r \in Requests, NEW v, TrueReport(r, v) PROVE TrueReport(r, v)'
  BY <1>1, ServerMovesOn DEF TrueReport
<1>2. failed => failed'
  BY FailedStays
<1>3. ASSUME NEW j \in RealJob, TrueJob(j) PROVE TrueJob(j)'
  <2>1. j.of \in Requests
    BY DEF RealJob
  <2>2. PICK r \in Requests : r = j.of
    BY <2>1
  <2>3. /\ j.do \in {"accepted", "running"} => st[r] \notin {"UNSENT", "REJECTED"}
        /\ j.do = "complete" => st[r] = j.what
        /\ j.do = "reject" => st[r] = "REJECTED"
        /\ j.what = "RemoteExecutorUnavailable" => failed /\ NeverSent(r)
        /\ j.what = "RemoteConnectionLost" => st[r] \notin {"UNSENT", "REJECTED"}
    BY <1>3, <2>2 DEF TrueJob
  <2>4. j.do = "complete" => j.what \in Ended
    BY DEF RealJob
  <2>5. j.what = "RemoteExecutorUnavailable" => failed' /\ NeverSent(r)'
    BY <1>2, <2>3, NeverSentKept
  <2>6. QED
    BY <2>2, <2>3, <2>4, <2>5, ServerMovesOn DEF TrueJob, NeverSent, InHand, SubmitOf, Done
<1>4. \A m \in Report_ : m.of \in Requests
  BY DEF Report_
<1>5. QED
  BY <1>0, <1>1, <1>3, <1>4 DEF TrueNotes, TrueJobs

\* A future whose state and exception are left alone says what it said.
LEMMA ErrorStays ==
  ASSUME TypeInv, WayInv, [Next]_vars, NEW r \in Requests, TrueError(r),
         error'[r] = error[r],
         submission_state'[r] \in {submission_state[r], "SENT_UNACKNOWLEDGED", "CANCELLED"}
  PROVE  TrueError(r)'
<1>1. error[r] \in {"RemoteExecutorUnavailable", "RemoteSubmissionTimeout", "CancelledLocally"}
        => NeverSent(r)'
  BY NeverSentKept DEF TrueError
<1>2. "REJECTED" \in Ended \cup {"REJECTED"} /\ AfterRun \subseteq Ended
      /\ {"QUEUE_TIMED_OUT", "SUCCEEDED"} \subseteq Ended
  BY DEF Ended, WithoutRun, AfterRun
<1>3. QED
  BY <1>1, <1>2, ServerMovesOn DEF TrueError

\* What a true job does to its future is true.
LEMMA PerformTruth ==
  ASSUME TypeInv, WayInv, [Next]_vars, UNCHANGED st, NEW r \in Requests, TrueError(r),
         NEW j \in TrueJobs, Perform(j)
  PROVE  TrueError(r)'
<1>0. /\ j \in RealJob /\ TrueJob(j) /\ error \in [Requests -> Errors] /\ j.of \in Requests
      /\ DOMAIN submission_state = Requests
  BY DEF TrueJobs, RealJob, TypeInv, FutureTypeOK
<1>1. ASSUME j.of # r \/ Done(r) PROVE TrueError(r)'
  <2>1. error'[r] = error[r] /\ submission_state'[r] = submission_state[r]
    BY <1>0, <1>1 DEF Perform, Settle, Progress
  <2>2. QED
    BY <2>1, ErrorStays
<1>2. ASSUME j.of = r, ~Done(r) PROVE TrueError(r)'
  <2>1. CASE j.do \in {"accepted", "running"}
    <3>1. error'[r] = error[r] /\ submission_state'[r] \in {"ACCEPTED_QUEUED", "RUNNING"}
      BY <1>0, <1>2, <2>1 DEF Perform, Progress
    <3>2. st[r] \notin {"UNSENT", "REJECTED"}
      BY <1>0, <1>2, <2>1 DEF TrueJob
    <3>3. error[r] \in {"RemoteExecutorUnavailable", "RemoteSubmissionTimeout", "CancelledLocally"}
            => NeverSent(r)'
      BY NeverSentKept DEF TrueError
    <3>4. QED
      BY <3>1, <3>2, <3>3 DEF TrueError
  <2>2. CASE j.do = "complete"
    <3>1. st[r] = j.what /\ j.what \in Ended
      BY <1>0, <1>2, <2>2 DEF TrueJob, RealJob
    <3>2. error'[r] = FutureError(r, j.what) /\ submission_state'[r] = FutureState(r, j.what)
      BY <1>0, <1>2, <2>2 DEF Perform, Settle, Progress
    <3>3. /\ FutureError(r, j.what) \notin {"RemoteExecutorUnavailable", "RemoteSubmissionTimeout",
                                             "CancelledLocally", "Rejected"}
          /\ FutureError(r, j.what) \in Completed => j.what \in AfterRun
          /\ FutureError(r, j.what) = "RemoteQueueTimeout" => j.what = "QUEUE_TIMED_OUT"
          /\ FutureState(r, j.what) = "SUCCEEDED" => j.what = "SUCCEEDED"
          /\ j.what \notin {"UNSENT", "REJECTED"}
          /\ FutureState(r, j.what) \notin {"ACCEPTED_QUEUED", "RUNNING"}
      BY <3>1 DEF FutureError, FutureState, Completed, Ended, WithoutRun, AfterRun
    <3>4. QED
      BY <3>1, <3>2, <3>3 DEF TrueError
  <2>3. CASE j.do = "reject"
    <3>1. st[r] = "REJECTED" /\ j.what = "Rejected"
      BY <1>0, <1>2, <2>3 DEF TrueJob, RealJob
    <3>2. error'[r] = "Rejected" /\ submission_state'[r] = "FAILED"
      BY <1>0, <1>2, <2>3, <3>1 DEF Perform, Settle, Progress
    <3>3. QED
      BY <3>1, <3>2 DEF TrueError, Completed
  <2>4. CASE j.do = "fail"
    <3>1. j.what \in LossErrors
      BY <1>0, <2>4 DEF RealJob
    <3>2. error'[r] = j.what /\ submission_state'[r] = "FAILED"
      BY <1>0, <1>2, <2>4 DEF Perform, Settle, Progress
    <3>3. j.what = "RemoteExecutorUnavailable" => NeverSent(r)'
      BY <1>0, <1>2, NeverSentKept DEF TrueJob
    <3>4. j.what = "RemoteConnectionLost" => st[r] \notin {"UNSENT", "REJECTED"}
      BY <1>0, <1>2 DEF TrueJob
    <3>5. QED
      BY <3>1, <3>2, <3>3, <3>4 DEF TrueError, Completed, LossErrors
  <2>5. QED
    BY <1>0, <2>1, <2>2, <2>3, <2>4 DEF RealJob
<1>3. QED
  BY <1>1, <1>2

LEMMA ErrorKept ==
  ASSUME TypeInv, WayInv, TruthOK, [Next]_vars, NEW r \in Requests
  PROVE  TrueError(r)'
<1>0. TrueError(r) /\ error \in [Requests -> Errors] /\ DOMAIN submission_state = Requests
      /\ DOMAIN caller = Requests /\ LinkOK /\ WayOK(r)
  BY DEF TruthOK, TypeInv, FutureTypeOK, SubmitTypeOK, WayInv
<1>a. SubmitOf(r)' = SubmitOf(r)
  BY DEF SubmitOf, RealMessage, Message, Askers
<1>1. CASE SubmitStep
  <2>0. UNCHANGED <<submission_state, st, wire, failed, sender>>
    BY <1>1 DEF SubmitStep, SubmitRefused, Refuse, Register, Enqueue, Drop, SubmitFrame, serverVars,
                linkVars, threadVars
  <2>1. CASE error'[r] = error[r]
    BY <1>0, <2>0, <2>1, ErrorStays
  <2>2. CASE error'[r] # error[r]
    <3>1. /\ caller[r] # "returned" /\ caller'[r] = "raised"
          /\ error'[r] \in {"RuntimeError", "RemoteExecutorUnavailable", "RemoteSubmissionTimeout"}
      BY <1>0, <1>1, <2>2 DEF SubmitStep, SubmitRefused, Refuse, Register, Enqueue, Drop
    <3>2. st[r] = "UNSENT" /\ None(wire, SubmitOf(r))
      BY <1>0, <3>1 DEF WayOK
    <3>3. NeverSent(r)'
      BY <1>a, <2>0, <3>1, <3>2 DEF NeverSent
    <3>4. QED
      BY <1>0, <2>0, <3>1, <3>2, <3>3 DEF TrueError, Completed
  <2>3. QED
    BY <2>1, <2>2
<1>2. CASE SenderStep
  <2>1. error' = error
    BY <1>2, Steps DEF SenderStep, SenderTakes, SenderSends, SenderFails, SenderFrame
  <2>2. submission_state'[r] \in {submission_state[r], "SENT_UNACKNOWLEDGED"}
    BY <1>0, <1>2 DEF SenderStep, SenderTakes, SenderSends, SenderFails, Progress
  <2>3. QED
    BY <1>0, <2>1, <2>2, ErrorStays
<1>b. ASSUME UNCHANGED futureVars PROVE TrueError(r)'
  BY <1>0, <1>b, ErrorStays DEF futureVars
<1>3. CASE ReceiverStep
  <2>1. UNCHANGED st
    BY <1>3 DEF ReceiverStep, ReceiverReads, ReceiverSchedules, ReceiverEnds, ReceiverFrame, serverVars
  <2>2. UNCHANGED futureVars \/ \E j \in TrueJobs : Perform(j)
    BY <1>3 DEF ReceiverStep, ReceiverReads, ReceiverSchedules, ReceiverEnds, Schedule, TruthOK
  <2>3. QED
    BY <1>0, <1>b, <2>1, <2>2, PerformTruth
<1>4. CASE LaneStep
  <2>1. UNCHANGED st
    BY <1>4 DEF LaneStep, LaneRuns, LaneAcks, LaneAckFails, LaneForgets, LaneFrame, serverVars
  <2>2. jobs # <<>> => Head(jobs) \in TrueJobs
    BY HeadTailProperties DEF TruthOK
  <2>3. UNCHANGED futureVars \/ \E j \in TrueJobs : Perform(j)
    BY <1>4, <2>2 DEF LaneStep, LaneRuns, LaneAcks, LaneAckFails, LaneForgets
  <2>4. QED
    BY <1>0, <1>b, <2>1, <2>3, PerformTruth
<1>5. CASE LossStep
  <2>1. UNCHANGED st
    BY <1>5 DEF LossStep, LossLooks, LossSchedules, LossEnds, LossFrame, serverVars
  <2>2. UNCHANGED futureVars \/ \E j \in TrueJobs : Perform(j)
    BY <1>5 DEF LossStep, LossLooks, LossSchedules, LossEnds, Schedule, TruthOK
  <2>3. QED
    BY <1>0, <1>b, <2>1, <2>2, PerformTruth
<1>6. CASE AskStep
  <2>0. UNCHANGED <<st, wire, sender>>
    BY <1>6, AskSteps DEF Cancel, Decided, Undecided, AskFrame, serverVars, threadVars
  <2>1. ASSUME NEW t \in Askers, NEW q \in Requests, NEW hard \in BOOLEAN, Cancel(t, q, hard)
        PROVE  TrueError(r)'
    <3>1. CASE CancelLocally(t, q)
      <4>1. CASE q = r
        <5>1. submission_state[r] = "LOCAL_PENDING" /\ ~Done(r)
          BY <3>1, <4>1 DEF CancelLocally, Done, Final
        <5>2. error'[r] = "CancelledLocally" /\ submission_state'[r] = "CANCELLED"
          BY <1>0, <3>1, <4>1, <5>1 DEF CancelLocally, Settle, Progress
        <5>3. st[r] = "UNSENT" /\ None(wire, SubmitOf(r)) /\ ~InHand(r)
          BY <1>0, <5>1 DEF WayOK
        <5>4. ~InHand(r)' /\ Done(r)'
          BY <1>a, <2>0, <5>2, <5>3 DEF InHand, Done, Final
        <5>5. NeverSent(r)'
          BY <1>a, <2>0, <5>3, <5>4 DEF NeverSent
        <5>6. QED
          BY <5>2, <5>5 DEF TrueError, Completed
      <4>2. CASE q # r
        <5>1. error'[r] = error[r] /\ submission_state'[r] = submission_state[r]
          BY <1>0, <3>1, <4>2 DEF CancelLocally, Settle, Progress
        <5>2. QED
          BY <1>0, <5>1, ErrorStays
      <4>3. QED
        BY <4>1, <4>2
    <3>2. CASE CancelGivesUp(t, q) \/ CancelAsks(t, q, hard)
      BY <1>b, <3>2 DEF CancelGivesUp, CancelAsks
    <3>3. QED
      BY <2>1, <3>1, <3>2 DEF Cancel
  <2>2. ASSUME NEW t \in Askers, Decided(t) \/ Undecided(t) PROVE TrueError(r)'
    <3>1. CASE UNCHANGED futureVars
      BY <1>b, <3>1
    <3>2. CASE Settle(asking[t], "CANCELLED", "none")
      <4>1. \/ error'[r] = error[r] /\ submission_state'[r] = submission_state[r]
            \/ error'[r] = "none" /\ submission_state'[r] = "CANCELLED"
        BY <1>0, <3>2 DEF Settle, Progress
      <4>2. CASE error'[r] = "none" /\ submission_state'[r] = "CANCELLED"
        BY <4>2 DEF TrueError, Completed
      <4>3. QED
        BY <1>0, <4>1, <4>2, ErrorStays
    <3>3. QED
      BY <2>2, <3>1, <3>2 DEF Decided, Undecided
  <2>3. QED
    BY <1>6, <2>1, <2>2, AskSteps
<1>7. QED
  BY <1>1, <1>2, <1>3, <1>4, <1>5, <1>6, <1>b, Frames


\* What is on its way to the future is true.
LEMMA TruthKept == TypeInv /\ TypeInv' /\ WayInv /\ TruthOK /\ [Next]_vars => TruthOK'
<1> SUFFICES ASSUME TypeInv, TypeInv', WayInv, TruthOK, [Next]_vars PROVE TruthOK'
  OBVIOUS
<1>0. PICK N, N1, J, J1 : N = TrueNotes /\ N1 = TrueNotes' /\ J = TrueJobs /\ J1 = TrueJobs'
  OBVIOUS
<1>1. /\ N \subseteq N1 /\ J \subseteq J1
      /\ out[Me] \in Seq(N1) /\ jobs \in Seq(J1)
      /\ receiver.at = "job" => receiver.hand \in J1
      /\ verdict # NoJob => verdict \in J1
  <2>1. N \subseteq N1 /\ J \subseteq J1
    BY <1>0, ReportsStayTrue
  <2>2. out[Me] \in Seq(N) /\ jobs \in Seq(J)
    BY <1>0 DEF TruthOK
  <2>3. out[Me] \in Seq(N1) /\ jobs \in Seq(J1)
    BY <2>1, <2>2, SeqGrows
  <2>4. QED
    BY <1>0, <2>1, <2>3 DEF TruthOK
<1>2. out'[Me] \in Seq(N1)
  <2>1. CASE ServerStep
    <3>1. \A a \in Answer_ : a \in N1
      <4>1. \A a \in Answer_ : a \notin Report_
        BY DEF Answer_, Report_, States, Decisions, Ended, WithoutRun, AfterRun
      <4>2. Answer_' = Answer_ /\ Report_' = Report_ /\ Note' = Note
        BY DEF Answer_, Report_, Note, Askers
      <4>3. QED
        BY <1>0, <4>1, <4>2 DEF TrueNotes, Note
    <3>2. ASSUME NEW q \in Requests, NEW v \in States \ {"UNSENT"}, NEW n \in Report_,
                 st' = [st EXCEPT ![q] = v], n = [of |-> q, what |-> v]
          PROVE  n \in N1
      <4>1. st'[q] = v /\ n.of = q /\ n.what = v
        BY <3>2 DEF TypeInv, ServerTypeOK
      <4>2. TrueReport(q, v)'
        BY <4>1 DEF TrueReport, Ended, WithoutRun, AfterRun
      <4>3. QED
        BY <1>0, <4>1, <4>2 DEF TrueNotes, Note, TrueReport
    <3>3. CASE out' = out
      BY <1>1, <3>3
    <3>4. ASSUME NEW a \in Answer_, out'[Me] = Append(out[Me], a) PROVE out'[Me] \in Seq(N1)
      BY <1>1, <3>1, <3>4, AppendProperties
    <3>5. ASSUME NEW n \in N1, \/ out'[Me] = Append(out[Me], n)
                               \/ \E a \in Answer_ : out'[Me] = Append(Append(out[Me], n), a)
          PROVE  out'[Me] \in Seq(N1)
      <4>1. Append(out[Me], n) \in Seq(N1)
        BY <1>1, AppendProperties
      <4>2. \A a \in Answer_ : Append(Append(out[Me], n), a) \in Seq(N1)
        BY <3>1, <4>1, AppendProperties
      <4>3. QED
        BY <3>5, <4>1, <4>2
    <3>6. QED
      BY <2>1, <3>2, <3>3, <3>4, <3>5, ServerTells
  <2>2. ASSUME ~ServerStep PROVE out'[Me] \in Seq(N1)
    <3>1. DOMAIN out = {Me}
      BY DEF TypeInv, ServerTypeOK
    <3>2. \A t : BeginLoss(t) => out'[Me] \in {out[Me], <<>>}
      BY <3>1 DEF BeginLoss, CloseSocket, linkVars
    <3>3. CASE ReceiverReads
      <4>1. out[Me] # <<>> /\ out'[Me] = Tail(out[Me])
        BY <3>1, <3>3 DEF ReceiverReads
      <4>2. QED
        BY <1>1, <4>1, HeadTailProperties
    <3>4. ASSUME ~ReceiverReads PROVE out'[Me] \in {out[Me], <<>>}
      <4>1. CASE SenderStep
        BY <3>2, <4>1 DEF SenderStep, SenderTakes, SenderSends, SenderFails, linkVars
      <4>2. CASE ReceiverStep
        BY <3>2, <3>4, <4>2 DEF ReceiverStep, ReceiverSchedules, ReceiverEnds, linkVars
      <4>3. CASE LaneStep
        BY <3>2, <4>3 DEF LaneStep, LaneRuns, LaneAcks, LaneAckFails, LaneForgets, linkVars
      <4>4. CASE CloserMove
        BY <3>1, <4>4 DEF CloserMove, Shutdown, CloserStarts, CloserWaits, CloserAsks, CloserAnswered,
                          CloserCloses, CloserDrains, CloseSocket
      <4>5. QED
        BY <2>2, <4>1, <4>2, <4>3, <4>4, Frames DEF linkVars
    <3>5. <<>> \in Seq(N1)
      OBVIOUS
    <3>6. QED
      BY <1>1, <3>3, <3>4, <3>5
  <2>3. QED
    BY <2>1, <2>2
<1>3. jobs' \in Seq(J1)
  <2>1. ASSUME NEW j \in J1, Schedule(j) PROVE jobs' \in Seq(J1)
    <3>1. Append(jobs, j) \in Seq(J1)
      BY <1>1, AppendProperties
    <3>2. QED
      BY <1>1, <2>1, <3>1 DEF Schedule
  <2>2. CASE ReceiverStep
    BY <1>1, <2>1, <2>2 DEF ReceiverStep, ReceiverReads, ReceiverSchedules, ReceiverEnds
  <2>3. CASE LossStep
    BY <1>1, <2>1, <2>3 DEF LossStep, LossLooks, LossSchedules, LossEnds
  <2>4. CASE LaneStep
    <3>1. jobs' = jobs \/ jobs' = Tail(jobs)
      BY <2>4 DEF LaneStep, LaneRuns, LaneAcks, LaneAckFails, LaneForgets, LaneNext
    <3>2. jobs # <<>>
      BY <2>4 DEF LaneStep, LaneRuns, LaneAcks, LaneAckFails, LaneForgets, TypeInv, JobsOK
    <3>3. Tail(jobs) \in Seq(J1)
      BY <1>1, <3>2, HeadTailProperties
    <3>4. QED
      BY <1>1, <3>1, <3>3
  <2>5. QED
    BY <1>1, <2>2, <2>3, <2>4, Frames DEF laneVars
<1>4. receiver'.at = "job" => receiver'.hand \in J1
  <2>1. CASE ReceiverReads
    <3>1. PICK m : m = Head(out[Me])
      OBVIOUS
    <3>2. out[Me] # <<>> /\ m \in N /\ (m.what \in States <=> m \in Report_)
      <4>1. out[Me] # <<>>
        BY <2>1 DEF ReceiverReads
      <4>2. m.what \in States <=> m \in Report_
        BY <3>1, <4>1, NoteTypes DEF TypeInv
      <4>3. out[Me] \in Seq(N)
        BY <1>0 DEF TruthOK
      <4>4. QED
        BY <3>1, <4>1, <4>2, <4>3, HeadTailProperties
    <3>3. CASE m.what \in States /\ m.of \in futures
      <4>1. receiver' = [at |-> "job", hand |-> JobOf(m.of, m.what)]
        BY <2>1, <3>1, <3>3 DEF ReceiverReads
      <4>2. m.of \in Requests /\ m.what \in States \ {"UNSENT"} /\ TrueReport(m.of, m.what)
        BY <1>0, <3>2, <3>3 DEF TrueNotes, Report_
      <4>3. JobOf(m.of, m.what) \in RealJob
        BY <4>2, JobOfType
      <4>4. TrueJob(JobOf(m.of, m.what))
        <5>1. PICK r, v : r = m.of /\ v = m.what
          OBVIOUS
        <5>2. PICK j : j = JobOf(r, v)
          OBVIOUS
        <5>3. v \in {"ACCEPTED_QUEUED", "RUNNING", "REJECTED"} \cup Ended
          BY <4>2, <5>1 DEF States
        <5>4. \A e \in Ended : e \notin {"ACCEPTED_QUEUED", "RUNNING", "REJECTED", "UNSENT",
                                          "RemoteExecutorUnavailable", "RemoteConnectionLost"}
          BY DEF Ended, WithoutRun, AfterRun
        <5>5. /\ j.of = r
              /\ j.do = (CASE v = "ACCEPTED_QUEUED" -> "accepted" [] v = "RUNNING" -> "running"
                           [] v = "REJECTED" -> "reject" [] OTHER -> "complete")
              /\ j.what = (CASE v \in {"ACCEPTED_QUEUED", "RUNNING"} -> ""
                             [] v = "REJECTED" -> "Rejected" [] OTHER -> v)
          BY <5>2 DEF JobOf
        <5>6. \/ v = "ACCEPTED_QUEUED" /\ j.do = "accepted" /\ j.what = ""
              \/ v = "RUNNING" /\ j.do = "running" /\ j.what = ""
              \/ v = "REJECTED" /\ j.do = "reject" /\ j.what = "Rejected"
              \/ v \in Ended /\ j.do = "complete" /\ j.what = v
          BY <5>3, <5>4, <5>5
        <5>7. TrueReport(r, v)
          BY <4>2, <5>1
        <5>8. TrueJob(j)
          BY <5>4, <5>5, <5>6, <5>7 DEF TrueJob, TrueReport, AfterRun
        <5>9. QED
          BY <5>1, <5>2, <5>8
      <4>5. JobOf(m.of, m.what) \in J
        BY <1>0, <4>3, <4>4 DEF TrueJobs
      <4>6. QED
        BY <1>1, <4>1, <4>5
    <3>4. CASE ~(m.what \in States /\ m.of \in futures)
      BY <1>1, <2>1, <3>1, <3>4 DEF ReceiverReads
    <3>5. QED
      BY <3>3, <3>4
  <2>2. CASE ReceiverSchedules \/ ReceiverEnds
    BY <2>2 DEF ReceiverSchedules, ReceiverEnds
  <2>3. QED
    BY <1>1, <2>1, <2>2, Frames DEF ReceiverStep
<1>5. verdict' # NoJob => verdict' \in J1
  <2>1. CASE LossLooks
    <3> DEFINE r == First(lost)
    <3>1. r \in Requests
      BY <2>1, FirstIsOne DEF LossLooks, TypeInv, LossTypeOK
    <3>2. \/ verdict' = NoJob
          \/ ~Done(r) /\ verdict' = [do |-> "fail", of |-> r, what |-> LossError(submission_state[r])]
      BY <2>1 DEF LossLooks
    <3>3. failed
      BY <2>1 DEF LossLooks, WayInv, LinkOK
    <3> HIDE DEF r
    <3>4. PICK e : e = LossError(submission_state[r])
      OBVIOUS
    <3>5. ~Done(r) => /\ e \in LossErrors
                      /\ e = "RemoteExecutorUnavailable" => submission_state[r] = "LOCAL_PENDING"
                      /\ e = "RemoteConnectionLost" => submission_state[r] \in {"ACCEPTED_QUEUED", "RUNNING"}
      BY <3>1, <3>4 DEF LossError, LossErrors, TypeInv, FutureTypeOK, Done
    <3>6. submission_state[r] = "LOCAL_PENDING" => NeverSent(r)
      BY <3>1, <3>3 DEF WayInv, WayOK, NeverSent
    <3>7. submission_state[r] \in {"ACCEPTED_QUEUED", "RUNNING"} => st[r] \notin {"UNSENT", "REJECTED"}
      BY <3>1 DEF TruthOK, TrueError
    <3>8. ASSUME ~Done(r) PROVE [do |-> "fail", of |-> r, what |-> e] \in J
      <4>1. [do |-> "fail", of |-> r, what |-> e] \in RealJob
        BY <3>1, <3>5, <3>8 DEF RealJob
      <4>2. TrueJob([do |-> "fail", of |-> r, what |-> e])
        BY <3>3, <3>5, <3>6, <3>7, <3>8 DEF TrueJob
      <4>3. QED
        BY <1>0, <4>1, <4>2 DEF TrueJobs
    <3>9. QED
      BY <1>1, <3>2, <3>4, <3>8
  <2>2. CASE LossSchedules \/ LossEnds
    BY <1>1, <2>2 DEF LossSchedules, LossEnds
  <2>3. \A t : BeginLoss(t) => verdict' = verdict
    BY DEF BeginLoss, lossVars
  <2>4. CASE SenderStep
    BY <1>1, <2>3, <2>4 DEF SenderStep, SenderTakes, SenderSends, SenderFails, lossVars
  <2>5. CASE ReceiverStep
    BY <1>1, <2>3, <2>5 DEF ReceiverStep, ReceiverReads, ReceiverSchedules, ReceiverEnds, lossVars
  <2>6. CASE LaneStep
    BY <1>1, <2>3, <2>6 DEF LaneStep, LaneRuns, LaneAcks, LaneAckFails, LaneForgets, lossVars
  <2>7. QED
    BY <1>1, <2>1, <2>2, <2>4, <2>5, <2>6, Frames DEF LossStep, lossVars
<1>6. \A r \in Requests : TrueError(r)'
  BY ErrorKept
<1>7. NoJob' = NoJob
  BY DEF NoJob
<1>8. QED
  BY <1>0, <1>2, <1>3, <1>4, <1>5, <1>6, <1>7 DEF TruthOK

LEMMA TruthBegins == Init => TruthOK
<1> SUFFICES ASSUME Init PROVE TruthOK
  OBVIOUS
<1>1. out[Me] = <<>> /\ jobs = <<>> /\ receiver.at = "read" /\ verdict = NoJob
  BY DEF Init, ServiceInit
<1>2. out[Me] \in Seq(TrueNotes) /\ jobs \in Seq(TrueJobs)
  BY <1>1
<1>3. \A r \in Requests : TrueError(r)
  BY DEF Init, TrueError, Completed
<1>4. QED
  BY <1>1, <1>2, <1>3 DEF TruthOK

\* The invariant says what Honest says.
LEMMA TruthSuffices == TruthOK => Honest
<1> SUFFICES ASSUME TruthOK, NEW r \in Requests
             PROVE  /\ error[r] \in NotAccepted => st[r] \in {"UNSENT", "REJECTED"}
                    /\ error[r] \in Accepted => st[r] \notin {"UNSENT", "REJECTED"}
                    /\ error[r] \in NotStarted => st[r] \in {"UNSENT", "REJECTED", "QUEUE_TIMED_OUT"}
                    /\ error[r] \in Completed => st[r] \in AfterRun
                    /\ submission_state[r] = "SUCCEEDED" => st[r] = "SUCCEEDED"
  BY DEF Honest
<1>1. TrueError(r)
  BY DEF TruthOK
<1>2. "UNSENT" \notin AfterRun /\ "REJECTED" \notin AfterRun
  BY DEF AfterRun
<1>3. QED
  BY <1>1, <1>2 DEF TrueError, NeverSent, NotAccepted, Accepted, NotStarted, Completed

\* What an exception says about the request is true and stays true: a request
\* reported as not accepted never is, one reported as not started never runs,
\* one cancelled before it was sent is never sent, whatever the connection, the
\* other threads and the server do meanwhile.
THEOREM ExceptionsAreHonest == Spec => []Honest
<1>1. Init => TruthOK
  BY TruthBegins
<1>2. TypeInv /\ TypeInv' /\ WayInv /\ TruthOK /\ [Next]_vars => TruthOK'
  BY TruthKept
<1>3. TruthOK => Honest
  BY TruthSuffices
<1>4. QED
  BY <1>1, <1>2, <1>3, OrderHolds, PTL DEF Spec
=============================================================================
