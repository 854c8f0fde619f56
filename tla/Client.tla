------------------------------- MODULE Client -------------------------------
(***************************************************************************)
(* The remote client: DeadpoolClient of remote/client.py and RemoteFuture  *)
(* of remote/_future.py, composed with the server as RemoteService         *)
(* describes it.                                                           *)
(*                                                                         *)
(* Threads: one per submission, one per cancellation, the sender, the      *)
(* receiver, the completion lane (an executor with one worker), the        *)
(* callback dispatcher and its executor, and the thread that shuts the     *)
(* client down.  What a thread does under _lock or a future's _state_lock  *)
(* is one step; queues, semaphores and the connection are used outside.    *)
(***************************************************************************)
EXTENDS Integers, Sequences, FiniteSets

CONSTANTS
  Requests,         \* one per call of submit or submit_task
  Me,               \* the client's session
  Closer,           \* the thread that shuts the client down
  SlowSubmits,      \* submissions that may fail before they are queued
  Refused,          \* requests the server may reject for its own reasons
  Cancels,          \* requests a caller cancels
  Kills,            \* requests a caller cancels and kills
  Watched,          \* requests a caller adds a callback to
  Undecodable,      \* requests whose result cannot be loaded
  Outcomes,         \* the terminal states the server may report
  ShutdownArgs,     \* the values of cancel_futures that shutdown may be given
  LinkMayFail,      \* the connection may break
  OutboundLimit,    \* outbound_queue_size
  Slots,            \* inbound_queue_size: the completion slots
  CallbackSlots     \* callback_queue_size

ASSUME ClientAssumption ==
  /\ IsFiniteSet(Requests)
  /\ Requests \cap {Closer, "no", "session", "over"} = {}
  /\ {SlowSubmits, Refused, Cancels, Kills, Watched, Undecodable} \subseteq SUBSET Requests
  /\ ShutdownArgs \subseteq BOOLEAN
  /\ LinkMayFail \in BOOLEAN
  /\ {OutboundLimit, Slots, CallbackSlots} \subseteq Nat \ {0}

VARIABLES
  st, up, out,         \* the server: see RemoteService
  wire,                \* messages on their way to the server
  watermark,           \* the session's watermark
  acked,               \* the requests whose record the server has forgotten
  caller,              \* [Requests -> where the submitting thread is]
  number,              \* [Requests -> the sequence number, 0 before]
  futures,             \* _futures
  submission_state,    \* [Requests -> the future's submission_state]
  error,               \* [Requests -> what the future ended with]
  outbound,            \* _outbound
  closed,              \* _closed
  failed,              \* _transport_failed
  sock,                \* _socket is not None
  terminal_received,   \* _terminal_received
  sender,              \* the sender: a label and the message in hand
  receiver,            \* the receiver: a label and the job in hand
  jobs,                \* the completion executor's queue; the lane runs its head
  lane,                \* where the lane is in that job
  losing,              \* the thread that runs _connection_lost
  lost,                \* the futures it has still to look at
  verdict,             \* the job it has in hand
  asking,              \* [Askers -> what it waits for a decision on]
  answer,              \* [Askers -> the decision]
  callbacks,           \* [Requests -> where the future's callback is]
  calls,               \* [Requests -> how often it was called]
  dispatch,            \* _callback_dispatch_queue
  dispatch_closed,     \* _callback_dispatch_closed
  closing,             \* where the shutdown thread is
  to_cancel,           \* the futures it has still to cancel
  awaited              \* the futures it waits for

Decisions == {"cancelled", "running", "terminal", "unknown", "closed"}

INSTANCE RemoteService
WITH Sessions <- {Me}, SessionOf <- [r \in Requests |-> Me],
     Replies <- Decisions

serverVars   == <<st, watermark, acked>>
submitVars   == <<caller, number>>
futureVars   == <<submission_state, error>>
linkVars     == <<failed, sock, up, out>>
laneVars     == <<jobs, lane>>
lossVars     == <<losing, lost, verdict>>
askVars      == <<asking, answer>>
callbackVars == <<callbacks, calls, dispatch, dispatch_closed>>
shutdownVars == <<closed, closing, to_cancel, awaited>>
threadVars   == <<sender, receiver, laneVars, lossVars>>
tableVars    == <<futures, terminal_received>>
vars == <<serverVars, wire, submitVars, tableVars, futureVars, outbound, linkVars,
          threadVars, askVars, callbackVars, shutdownVars>>

(***************************************************************************)
(* Every thread that waits for a decision of the server has a token of its *)
(* own: the thread that cancels request r is r.                            *)
(***************************************************************************)
Askers   == Requests \cup {Closer}
NoJob    == [do |-> "nothing", of |-> Closer, what |-> ""]
Stop     == [kind |-> "STOP", of |-> Closer, by |-> Closer, hard |-> FALSE]
Final    == {"SUCCEEDED", "TASK_FAILED", "CANCELLED", "FAILED"}
Errors   == {"none", "RuntimeError", "CancelledLocally", "Rejected", "TimeoutError", "RemoteTaskError",
             "RemoteExecutorUnavailable", "RemoteSubmissionTimeout", "SubmissionOutcomeUnknown",
             "RemoteConnectionLost", "RemoteQueueTimeout", "RemoteProcessError",
             "RemoteResultEncodingError", "RemoteResultTooLarge", "RemoteProtocolError"}
Job      == [do : {"accepted", "running", "complete", "reject", "fail", "nothing"},
             of : Askers, what : Ended \cup Errors \cup {""}]
Message  == [kind : {"SUBMIT", "RESULT_ACK", "CANCEL_REQUEST", "CLOSE_SESSION", "STOP"},
             of : Askers, by : Askers, hard : BOOLEAN]

TypeOK ==
  /\ st \in [Requests -> States]
  /\ up \subseteq {Me}
  /\ wire \in Seq(Message)
  /\ watermark \in Nat
  /\ acked \subseteq Requests
  /\ caller \in [Requests -> {"start", "registered", "returned", "raised"}]
  /\ number \in [Requests -> Nat]
  /\ futures \subseteq Requests
  /\ submission_state \in [Requests -> {"LOCAL_PENDING", "SENT_UNACKNOWLEDGED",
                                        "ACCEPTED_QUEUED", "RUNNING"} \cup Final]
  /\ error \in [Requests -> Errors]
  /\ outbound \in Seq(Message) /\ Len(outbound) <= OutboundLimit
  /\ {closed, failed, sock, dispatch_closed} \subseteq BOOLEAN
  /\ terminal_received \subseteq Requests
  /\ sender \in [at : {"get", "send", "exit"}, hand : Message]
  /\ receiver \in [at : {"read", "job", "exit"}, hand : Job]
  /\ jobs \in Seq(Job) /\ Len(jobs) <= Slots
  /\ lane \in {"idle", "ack", "lost"}
  /\ losing \in {"none", "sender", "receiver", "lane"}
  /\ lost \subseteq Requests
  /\ verdict \in Job
  /\ asking \in [Askers -> Requests \cup {"no", "session", "over"}]
  /\ answer \in [Askers -> {"none", "lost", "cancelled", "running", "terminal", "unknown", "closed"}]
  /\ callbacks \in [Requests -> {"none", "added", "taken", "queued", "submitted", "called"}]
  /\ calls \in [Requests -> Nat]
  /\ dispatch \in Seq(Askers)
  /\ closing \in {"no", "cancel", "wait", "session", "stop", "drain", "done"}
  /\ to_cancel \subseteq Requests /\ awaited \subseteq Requests

\* _connect has returned: the session is open and nothing is submitted.
Init ==
  /\ ServiceInit
  /\ wire = <<>>
  /\ watermark = 0
  /\ acked = {}
  /\ caller = [r \in Requests |-> "start"]
  /\ number = [r \in Requests |-> 0]
  /\ futures = {}
  /\ submission_state = [r \in Requests |-> "LOCAL_PENDING"]
  /\ error = [r \in Requests |-> "none"]
  /\ outbound = <<>>
  /\ closed = FALSE
  /\ failed = FALSE
  /\ sock = TRUE
  /\ terminal_received = {}
  /\ sender = [at |-> "get", hand |-> Stop]
  /\ receiver = [at |-> "read", hand |-> NoJob]
  /\ jobs = <<>>
  /\ lane = "idle"
  /\ losing = "none"
  /\ lost = {}
  /\ verdict = NoJob
  /\ asking = [t \in Askers |-> "no"]
  /\ answer = [t \in Askers |-> "none"]
  /\ callbacks = [r \in Requests |-> "none"]
  /\ calls = [r \in Requests |-> 0]
  /\ dispatch = <<>>
  /\ dispatch_closed = FALSE
  /\ closing = "no"
  /\ to_cancel = {}
  /\ awaited = {}

Room == Len(outbound) < OutboundLimit
Put(kind, r, by, hard) ==
  outbound' = Append(outbound, [kind |-> kind, of |-> r, by |-> by, hard |-> hard])

\* Futures are kept in the order of their registration.
First(R) == CHOOSE r \in R : \A q \in R : number[r] <= number[q]

-----------------------------------------------------------------------------
(* RemoteFuture.                                                           *)

Done(r) == submission_state[r] \in Final

\* Mutant of Progress: nobody asks whether the future is done.
ProgressAnyway(r, s) == submission_state' = [submission_state EXCEPT ![r] = s]

\* _set_sent, _set_accepted and _set_running.
Progress(r, s) ==
  submission_state' = [submission_state EXCEPT ![r] = IF Done(r) THEN @ ELSE s]

\* _set_result, _set_exception and _set_cancelled, without the callbacks.
Settle(r, s, e) ==
  /\ Progress(r, s)
  /\ error' = [error EXCEPT ![r] = IF Done(r) THEN @ ELSE e]

\* _schedule_callbacks: inline once the dispatcher is closed.
HandOver(r) ==
  /\ callbacks' = [callbacks EXCEPT ![r] = IF dispatch_closed THEN "called" ELSE "queued"]
  /\ calls' = [calls EXCEPT ![r] = IF dispatch_closed THEN @ + 1 ELSE @]
  /\ dispatch' = IF dispatch_closed THEN dispatch ELSE Append(dispatch, r)
  /\ UNCHANGED dispatch_closed

\* _dispatch_callbacks in the thread that settles the future, when nothing can
\* close the dispatcher before it has scheduled them...
Dispatch(r) ==
  IF callbacks[r] = "added" /\ ~Done(r) THEN HandOver(r) ELSE UNCHANGED callbackVars

\* ...and when it schedules them later.
TakeCallbacks(r) ==
  /\ callbacks' = [callbacks EXCEPT ![r] = IF @ = "added" /\ ~Done(r) THEN "taken" ELSE @]
  /\ UNCHANGED <<calls, dispatch, dispatch_closed>>

CallbackFrame ==
  UNCHANGED <<serverVars, wire, submitVars, tableVars, futureVars, outbound, linkVars,
              threadVars, askVars, shutdownVars>>

ScheduleCallbacks(r) ==
  /\ callbacks[r] = "taken"
  /\ HandOver(r)
  /\ CallbackFrame

\* Mutant of AddCallback: done() was asked earlier, outside the lock.
AddCallbackUnlocked(r) ==
  /\ r \in Watched
  /\ caller[r] = "returned"
  /\ callbacks[r] = "none"
  /\ callbacks' = [callbacks EXCEPT ![r] = "added"]
  /\ UNCHANGED <<calls, dispatch, dispatch_closed>>
  /\ CallbackFrame

\* add_done_callback
AddCallback(r) ==
  /\ r \in Watched
  /\ caller[r] = "returned"
  /\ callbacks[r] = "none"
  /\ callbacks' = [callbacks EXCEPT ![r] = IF Done(r) THEN "called" ELSE "added"]
  /\ calls' = [calls EXCEPT ![r] = IF Done(r) THEN @ + 1 ELSE @]
  /\ UNCHANGED <<dispatch, dispatch_closed>>
  /\ CallbackFrame

\* _callback_dispatcher_loop: a slot, then the executor; inline once the
\* executor is shut down, which is when the dispatcher is closed.
Submitted == {r \in Requests : callbacks[r] = "submitted"}
DispatchCallback ==
  LET r == Head(dispatch) IN
  /\ dispatch # <<>>
  /\ r # Closer
  /\ Cardinality(Submitted) < CallbackSlots
  /\ dispatch' = Tail(dispatch)
  /\ callbacks' = [callbacks EXCEPT ![r] = IF dispatch_closed THEN "called" ELSE "submitted"]
  /\ calls' = [calls EXCEPT ![r] = IF dispatch_closed THEN @ + 1 ELSE @]
  /\ UNCHANGED dispatch_closed
  /\ CallbackFrame

\* _run_callback_batch: gives its slot back and calls.
RunCallback(r) ==
  /\ callbacks[r] = "submitted"
  /\ callbacks' = [callbacks EXCEPT ![r] = "called"]
  /\ calls' = [calls EXCEPT ![r] = @ + 1]
  /\ UNCHANGED <<dispatch, dispatch_closed>>
  /\ CallbackFrame

-----------------------------------------------------------------------------
(* Submission.                                                             *)

SubmitFrame ==
  UNCHANGED <<serverVars, wire, terminal_received, submission_state, linkVars, threadVars,
              askVars, callbackVars, shutdownVars>>

\* The closed check, serialization and the second check under the lock, which
\* fail without a trace...
Refuse(r, e) ==
  /\ caller[r] = "start"
  /\ caller' = [caller EXCEPT ![r] = "raised"]
  /\ error' = [error EXCEPT ![r] = e]
  /\ UNCHANGED <<number, futures, outbound>>
  /\ SubmitFrame

SubmitRefused(r) ==
  \/ closed /\ Refuse(r, "RuntimeError")
  \/ ~closed /\ (failed \/ ~sock) /\ Refuse(r, "RemoteExecutorUnavailable")
  \/ ~closed /\ r \in SlowSubmits /\ Refuse(r, "RemoteSubmissionTimeout")

\* ...or draw a sequence number and register the future.
Register(r) ==
  /\ caller[r] = "start"
  /\ ~closed /\ ~failed /\ sock
  /\ number' = [number EXCEPT ![r] = Cardinality({q \in Requests : number[q] # 0}) + 1]
  /\ futures' = futures \cup {r}
  /\ caller' = [caller EXCEPT ![r] = "registered"]
  /\ UNCHANGED <<error, outbound>>
  /\ SubmitFrame

\* The message is queued outside the lock.
Enqueue(r) ==
  /\ caller[r] = "registered"
  /\ Room
  /\ Put("SUBMIT", r, r, FALSE)
  /\ caller' = [caller EXCEPT ![r] = "returned"]
  /\ UNCHANGED <<number, futures, error>>
  /\ SubmitFrame

\* The control data do not fit, the deadline has passed or the queue is full:
\* the future is dropped as it is.
Drop(r) ==
  /\ caller[r] = "registered"
  /\ r \in SlowSubmits \/ ~Room
  /\ futures' = futures \ {r}
  /\ caller' = [caller EXCEPT ![r] = "raised"]
  /\ error' = [error EXCEPT ![r] = IF Done(r) THEN @ ELSE "RemoteSubmissionTimeout"]
  /\ UNCHANGED <<number, outbound>>
  /\ SubmitFrame

-----------------------------------------------------------------------------
(* The loss of the connection.                                             *)

\* The client closes its socket: it hears no more, while the server may still
\* read what was sent.
CloseSocket ==
  /\ sock' = FALSE
  /\ up' = {}
  /\ out' = [out EXCEPT ![Me] = <<>>]

\* Mutant of BeginLoss: only futures that were sent are failed.
BeginLossSent(t) ==
  IF failed
  THEN UNCHANGED <<linkVars, lossVars, answer>>
  ELSE /\ failed' = TRUE
       /\ CloseSocket
       /\ losing' = t
       /\ lost' = {r \in futures : submission_state[r] # "LOCAL_PENDING"}
       /\ UNCHANGED <<verdict, answer>>

\* _connection_lost, up to the lock's release; only the first call does it.
BeginLoss(t) ==
  IF failed
  THEN UNCHANGED <<linkVars, lossVars, answer>>
  ELSE /\ failed' = TRUE
       /\ CloseSocket
       /\ losing' = t
       /\ lost' = futures
       /\ answer' = [x \in Askers |-> IF asking[x] \notin {"no", "over"} /\ answer[x] = "none"
                                      THEN "lost" ELSE answer[x]]
       /\ UNCHANGED verdict

LossFrame ==
  UNCHANGED <<serverVars, wire, submitVars, outbound, linkVars, sender, receiver, lane,
              askVars, shutdownVars>>

\* What a future that the loss leaves without an outcome fails with.
LossError(s) ==
  CASE s = "LOCAL_PENDING"       -> "RemoteExecutorUnavailable"
    [] s = "SENT_UNACKNOWLEDGED" -> "SubmissionOutcomeUnknown"
    [] OTHER                     -> "RemoteConnectionLost"

\* The next future of the loop, unless it is done or its outcome is in hand.
LossLooks ==
  LET r == First(lost) IN
  /\ losing # "none" /\ lost # {} /\ verdict = NoJob
  /\ lost' = lost \ {r}
  /\ verdict' = IF Done(r) \/ r \in terminal_received THEN NoJob
                ELSE [do |-> "fail", of |-> r, what |-> LossError(submission_state[r])]
  /\ UNCHANGED <<losing, tableVars, futureVars, jobs, callbackVars>>
  /\ LossFrame

\* The states and errors a future is settled with, by the report of the server.
FutureState(r, v) ==
  CASE v = "SUCCEEDED"   -> IF r \in Undecodable THEN "FAILED" ELSE "SUCCEEDED"
    [] v = "TASK_FAILED" -> "TASK_FAILED"
    [] v = "CANCELLED"   -> "CANCELLED"
    [] OTHER             -> "FAILED"

FutureError(r, v) ==
  CASE v = "SUCCEEDED"              -> IF r \in Undecodable THEN "RemoteProtocolError" ELSE "none"
    [] v = "TASK_FAILED"            -> "RemoteTaskError"
    [] v = "CANCELLED"              -> "none"
    [] v = "EXECUTION_TIMED_OUT"    -> "TimeoutError"
    [] v = "QUEUE_TIMED_OUT"        -> "RemoteQueueTimeout"
    [] v = "WORKER_LOST"            -> "RemoteProcessError"
    [] v = "RESULT_ENCODING_FAILED" -> "RemoteResultEncodingError"
    [] v = "RESULT_TOO_LARGE"       -> "RemoteResultTooLarge"

\* What the function of a job does to its future, the callbacks included.
Perform(j) ==
  CASE j.do = "accepted" -> Progress(j.of, "ACCEPTED_QUEUED") /\ UNCHANGED <<error, callbackVars>>
    [] j.do = "running"  -> Progress(j.of, "RUNNING") /\ UNCHANGED <<error, callbackVars>>
    [] j.do = "complete" -> /\ Settle(j.of, FutureState(j.of, j.what), FutureError(j.of, j.what))
                            /\ Dispatch(j.of)
    [] OTHER             -> Settle(j.of, "FAILED", j.what) /\ Dispatch(j.of)

\* _forget, where the function ends with it.
Forgets(j) ==
  /\ futures' = IF j.do \in {"accepted", "running"} THEN futures ELSE futures \ {j.of}
  /\ terminal_received' = IF j.do = "complete" THEN terminal_received \ {j.of}
                          ELSE terminal_received

\* Mutant of Schedule: no slot is waited for.
ScheduleUnbounded(j) ==
  /\ jobs' = Append(jobs, j)
  /\ UNCHANGED <<tableVars, futureVars, callbackVars>>

\* _schedule_completion waits for a slot; the lane gives it back after the job.
\* Once the executor is shut down the thread runs the function itself.
Schedule(j) ==
  \/ /\ ~dispatch_closed
     /\ Len(jobs) < Slots
     /\ jobs' = Append(jobs, j)
     /\ UNCHANGED <<tableVars, futureVars, callbackVars>>
  \/ /\ dispatch_closed
     /\ Perform(j)
     /\ Forgets(j)
     /\ UNCHANGED jobs

LossSchedules ==
  /\ verdict # NoJob
  /\ Schedule(verdict)
  /\ verdict' = NoJob
  /\ UNCHANGED <<losing, lost>>
  /\ LossFrame

LossEnds ==
  /\ losing # "none" /\ lost = {} /\ verdict = NoJob
  /\ losing' = "none"
  /\ UNCHANGED <<lost, verdict, tableVars, futureVars, jobs, callbackVars>>
  /\ LossFrame

LossStep == LossLooks \/ LossSchedules \/ LossEnds

-----------------------------------------------------------------------------
(* The sender.                                                             *)

SenderFrame ==
  UNCHANGED <<serverVars, submitVars, terminal_received, error, receiver, laneVars, asking,
              callbackVars, shutdownVars>>

\* Mutant of SenderTakes: the future is marked once the message is sent, which
\* an answer may overtake.
SenderTakesUnmarked ==
  LET m == Head(outbound)
      skip == m.kind = "SUBMIT" /\ Done(m.of)
  IN  /\ sender.at = "get" /\ outbound # <<>>
      /\ outbound' = Tail(outbound)
      /\ sender' = CASE m = Stop -> [sender EXCEPT !.at = "exit"]
                     [] m # Stop /\ skip -> sender
                     [] OTHER -> [at |-> "send", hand |-> m]
      /\ futures' = IF skip THEN futures \ {m.of} ELSE futures
      /\ UNCHANGED <<submission_state, wire, linkVars, lossVars, answer>>
      /\ SenderFrame

\* The next message; a future that is done by now is not submitted.
SenderTakes ==
  LET m == Head(outbound)
      skip == m.kind = "SUBMIT" /\ Done(m.of)
  IN  /\ sender.at = "get" /\ outbound # <<>>
      /\ outbound' = Tail(outbound)
      /\ sender' = CASE m = Stop -> [sender EXCEPT !.at = "exit"]
                     [] m # Stop /\ skip -> sender
                     [] OTHER -> [at |-> "send", hand |-> m]
      /\ futures' = IF skip THEN futures \ {m.of} ELSE futures
      /\ IF m.kind = "SUBMIT" THEN Progress(m.of, "SENT_UNACKNOWLEDGED")
         ELSE UNCHANGED submission_state
      /\ UNCHANGED <<wire, linkVars, lossVars, answer>>
      /\ SenderFrame

\* send_message; on a broken connection it may seem to succeed.
SenderSends ==
  /\ sender.at = "send" /\ sock
  /\ wire' = IF Me \in up THEN Append(wire, sender.hand) ELSE wire
  /\ sender' = [at |-> "get", hand |-> Stop]
  /\ UNCHANGED <<outbound, futures, submission_state, linkVars, lossVars, answer>>
  /\ SenderFrame

SenderFails ==
  /\ sender.at = "send" /\ (~sock \/ Me \notin up)
  /\ BeginLoss("sender")
  /\ sender' = [at |-> "exit", hand |-> Stop]
  /\ UNCHANGED <<wire, outbound, futures, submission_state>>
  /\ SenderFrame

-----------------------------------------------------------------------------
(* The receiver.                                                           *)

ReceiverFrame ==
  UNCHANGED <<serverVars, wire, submitVars, outbound, sender, lane, asking, shutdownVars>>

JobOf(r, v) ==
  [do |-> CASE v = "ACCEPTED_QUEUED" -> "accepted" [] v = "RUNNING" -> "running"
            [] v = "REJECTED" -> "reject" [] OTHER -> "complete",
   of |-> r,
   what |-> CASE v \in {"ACCEPTED_QUEUED", "RUNNING"} -> "" [] v = "REJECTED" -> "Rejected"
              [] OTHER -> v]

\* _receive: a report about a future in _futures becomes a job, a response
\* wakes the thread that waits for it.
ReceiverReads ==
  LET m == Head(out[Me])
      report == m.what \in States /\ m.of \in futures
  IN  /\ receiver.at = "read" /\ sock
      /\ out[Me] # <<>>
      /\ out' = [out EXCEPT ![Me] = Tail(@)]
      /\ receiver' = IF report THEN [at |-> "job", hand |-> JobOf(m.of, m.what)] ELSE receiver
      /\ terminal_received' = IF report /\ m.what \in Ended THEN terminal_received \cup {m.of}
                              ELSE terminal_received
      /\ answer' = [t \in Askers |-> IF /\ m.what \in Decisions
                                        /\ m.of = [by |-> t, on |-> asking[t]]
                                        /\ answer[t] = "none"
                                     THEN m.what ELSE answer[t]]
      /\ UNCHANGED <<failed, sock, up, futures, futureVars, jobs, lossVars, callbackVars>>
      /\ ReceiverFrame

ReceiverSchedules ==
  /\ receiver.at = "job"
  /\ Schedule(receiver.hand)
  /\ receiver' = [at |-> "read", hand |-> NoJob]
  /\ UNCHANGED <<linkVars, lossVars, answer>>
  /\ ReceiverFrame

\* The connection broke, the server said GOAWAY, or the socket was closed here,
\* which the loop may also notice without an error.
ReceiverEnds ==
  /\ receiver.at = "read" /\ (~sock \/ Me \notin up)
  /\ \/ BeginLoss("receiver")
     \/ ~sock /\ UNCHANGED <<linkVars, lossVars, answer>>
  /\ receiver' = [at |-> "exit", hand |-> NoJob]
  /\ UNCHANGED <<tableVars, futureVars, jobs, callbackVars>>
  /\ ReceiverFrame

-----------------------------------------------------------------------------
(* The completion lane: one worker, which runs the jobs in order.          *)

LaneFrame ==
  UNCHANGED <<serverVars, wire, submitVars, sender, receiver, asking, shutdownVars>>

\* _run_bounded and the function; _complete has its acknowledgement to send.
LaneRuns ==
  LET j == Head(jobs) IN
  /\ lane = "idle" /\ jobs # <<>>
  /\ Perform(j)
  /\ IF j.do = "complete"
     THEN lane' = "ack" /\ UNCHANGED <<jobs, tableVars>>
     ELSE jobs' = Tail(jobs) /\ Forgets(j) /\ UNCHANGED lane
  /\ UNCHANGED <<outbound, linkVars, lossVars, answer>>
  /\ LaneFrame

\* The job is over and its slot is free again.
LaneNext ==
  /\ Forgets(Head(jobs))
  /\ jobs' = Tail(jobs)
  /\ lane' = "idle"

LaneAcks ==
  /\ lane = "ack" /\ Room
  /\ Put("RESULT_ACK", Head(jobs).of, Closer, FALSE)
  /\ LaneNext
  /\ UNCHANGED <<futureVars, linkVars, lossVars, answer, callbackVars>>
  /\ LaneFrame

\* Mutant of LaneAckFails: the session goes on without the acknowledgement.
LaneAckFailsQuietly ==
  /\ lane = "ack" /\ ~Room
  /\ lane' = "lost"
  /\ UNCHANGED <<outbound, linkVars, lossVars, answer, jobs, tableVars, futureVars, callbackVars>>
  /\ LaneFrame

\* The outbound queue stays full: the lane itself closes the session.
LaneAckFails ==
  /\ lane = "ack" /\ ~Room
  /\ BeginLoss("lane")
  /\ lane' = "lost"
  /\ UNCHANGED <<outbound, jobs, tableVars, futureVars, callbackVars>>
  /\ LaneFrame

LaneForgets ==
  /\ lane = "lost" /\ losing # "lane"
  /\ LaneNext
  /\ UNCHANGED <<outbound, futureVars, linkVars, lossVars, answer, callbackVars>>
  /\ LaneFrame

-----------------------------------------------------------------------------
(* Cancellation.                                                           *)

AskFrame == UNCHANGED <<serverVars, wire, submitVars, tableVars, linkVars, threadVars>>

\* The thread t goes on and its token is gone; a thread of a caller asks once.
Return(t) ==
  /\ asking' = [asking EXCEPT ![t] = IF t = Closer THEN "no" ELSE "over"]
  /\ answer' = [answer EXCEPT ![t] = "none"]

\* cancel() and cancel_and_kill_if_running(): a future that is done is left
\* alone, one that is pending is cancelled here, of others the server decides.
CancelLocally(t, r) ==
  /\ submission_state[r] = "LOCAL_PENDING"
  /\ Settle(r, "CANCELLED", "CancelledLocally")
  /\ TakeCallbacks(r)
  /\ Return(t)
  /\ UNCHANGED outbound

CancelGivesUp(t, r) ==
  /\ Done(r) \/ ~sock \/ ~Room
  /\ Return(t)
  /\ UNCHANGED <<futureVars, callbackVars, outbound>>

CancelAsks(t, r, hard) ==
  /\ ~Done(r) /\ sock /\ Room
  /\ Put("CANCEL_REQUEST", r, t, hard)
  /\ asking' = [asking EXCEPT ![t] = r]
  /\ UNCHANGED <<futureVars, callbackVars, answer>>

Cancel(t, r, hard) ==
  /\ IF submission_state[r] = "LOCAL_PENDING" /\ ~hard
     THEN CancelLocally(t, r)
     ELSE CancelGivesUp(t, r) \/ CancelAsks(t, r, hard)
  /\ AskFrame

\* Callers cancel futures that submit() has returned.
CallerCancels(r) ==
  /\ asking[r] = "no" /\ caller[r] = "returned"
  /\ \/ r \in Cancels /\ Cancel(r, r, FALSE)
     \/ r \in Kills /\ Cancel(r, r, TRUE)
  /\ UNCHANGED shutdownVars

\* The decision: a cancelled future is settled by the thread that asked.
Decided(t) ==
  LET r == asking[t] IN
  /\ r \in Requests /\ answer[t] # "none"
  /\ IF answer[t] = "cancelled"
     THEN Settle(r, "CANCELLED", "none") /\ TakeCallbacks(r)
     ELSE UNCHANGED <<futureVars, callbackVars>>
  /\ Return(t)
  /\ UNCHANGED <<outbound, shutdownVars>>
  /\ AskFrame

\* control_timeout passes first.
Undecided(t) ==
  /\ asking[t] \in Requests /\ answer[t] = "none"
  /\ Return(t)
  /\ UNCHANGED <<futureVars, callbackVars, outbound, shutdownVars>>
  /\ AskFrame

-----------------------------------------------------------------------------
(* shutdown() and _finish_shutdown.                                        *)

CloserFrame ==
  UNCHANGED <<serverVars, wire, submitVars, tableVars, futureVars, failed, threadVars>>

Shutdown(cancel) ==
  /\ closing = "no"
  /\ closed' = TRUE
  /\ awaited' = futures
  /\ to_cancel' = IF cancel THEN futures ELSE {}
  /\ closing' = "cancel"
  /\ UNCHANGED <<sock, up, out, outbound, askVars, callbackVars>>
  /\ CloserFrame

\* cancel_futures: one cancellation after the other.
CloserCancels ==
  /\ closing = "cancel" /\ asking[Closer] = "no" /\ to_cancel # {}
  /\ to_cancel' = to_cancel \ {First(to_cancel)}
  /\ Cancel(Closer, First(to_cancel), FALSE)
  /\ UNCHANGED <<closed, closing, awaited>>

\* A step of _finish_shutdown that changes none of the futures.
CloserGoes(from, to) ==
  /\ closing = from
  /\ closing' = to
  /\ UNCHANGED <<closed, to_cancel, awaited>>
  /\ CloserFrame

CloserStarts ==
  /\ to_cancel = {} /\ asking[Closer] = "no"
  /\ CloserGoes("cancel", "wait")
  /\ UNCHANGED <<sock, up, out, outbound, askVars, callbackVars>>

CloserWaits ==
  /\ \A r \in awaited : Done(r)
  /\ CloserGoes("wait", "session")
  /\ UNCHANGED <<sock, up, out, outbound, askVars, callbackVars>>

\* CLOSE_SESSION is asked for if the connection is there and has room...
CloserAsks ==
  /\ asking[Closer] = "no"
  /\ IF sock /\ ~failed /\ Room
     THEN /\ Put("CLOSE_SESSION", Closer, Closer, FALSE)
          /\ asking' = [asking EXCEPT ![Closer] = "session"]
          /\ CloserGoes("session", "session")
     ELSE /\ CloserGoes("session", "stop")
          /\ UNCHANGED <<outbound, asking>>
  /\ UNCHANGED <<sock, up, out, answer, callbackVars>>

\* ...and answered, or not in time.
CloserAnswered ==
  /\ asking[Closer] = "session"
  /\ Return(Closer)
  /\ CloserGoes("session", "stop")
  /\ UNCHANGED <<sock, up, out, outbound, callbackVars>>

\* The sender is told to stop, unless the queue stays full, and the socket is
\* closed.
CloserCloses ==
  /\ outbound' = IF Room THEN Append(outbound, Stop) ELSE outbound
  /\ CloseSocket
  /\ CloserGoes("stop", "drain")
  /\ UNCHANGED <<askVars, callbackVars>>

\* _drain_semaphore, then the dispatcher and the executors are closed.
CloserDrains ==
  /\ jobs = <<>>
  /\ dispatch_closed' = TRUE
  /\ dispatch' = Append(dispatch, Closer)
  /\ CloserGoes("drain", "done")
  /\ UNCHANGED <<sock, up, out, outbound, askVars, callbacks, calls>>

CloserStep ==
  \/ CloserCancels \/ CloserStarts \/ CloserWaits \/ CloserAsks \/ CloserAnswered
  \/ CloserCloses \/ CloserDrains \/ Decided(Closer) \/ Undecided(Closer)

-----------------------------------------------------------------------------
(* External: the server and the network.                                   *)

ServerFrame ==
  UNCHANGED <<submitVars, tableVars, futureVars, outbound, failed, sock, threadVars, askVars,
              callbackVars, shutdownVars>>

Reply(m, decision) == <<[of |-> [by |-> m.by, on |-> m.of], what |-> decision]>>

\* A submission: numbers must rise, and the server may have reasons to refuse.
ServerSubmits(m) ==
  LET stale == number[m.of] <= watermark IN
  /\ m.kind = "SUBMIT"
  /\ UNCHANGED acked
  /\ watermark' = IF stale THEN watermark ELSE number[m.of]
  /\ \/ ~stale /\ Report(m.of, "ACCEPTED_QUEUED", <<>>)
     \/ (stale \/ m.of \in Refused) /\ Report(m.of, "REJECTED", <<>>)

\* A cancellation; a record that is acknowledged is unknown.
ServerCancels(m) ==
  /\ m.kind = "CANCEL_REQUEST"
  /\ UNCHANGED <<watermark, acked>>
  /\ \/ /\ st[m.of] = "ACCEPTED_QUEUED" \/ (st[m.of] = "RUNNING" /\ m.hard)
        /\ Report(m.of, "CANCELLED", Reply(m, "cancelled"))
     \/ /\ \/ st[m.of] = "RUNNING" /\ ~m.hard /\ Tell(Me, Reply(m, "running"))
           \/ st[m.of] \in Ended /\ m.of \notin acked /\ Tell(Me, Reply(m, "terminal"))
           \/ (st[m.of] = "REJECTED" \/ m.of \in acked) /\ Tell(Me, Reply(m, "unknown"))
        /\ UNCHANGED <<st, up>>

ServerReads ==
  LET m == Head(wire) IN
  /\ wire # <<>>
  /\ wire' = Tail(wire)
  /\ \/ ServerSubmits(m)
     \/ ServerCancels(m)
     \/ /\ m.kind = "RESULT_ACK"
        /\ acked' = acked \cup {m.of}
        /\ UNCHANGED <<st, up, out, watermark>>
     \/ /\ m.kind = "CLOSE_SESSION"
        /\ Tell(Me, <<[of |-> [by |-> Closer, on |-> "session"], what |-> "closed"]>>)
        /\ UNCHANGED <<st, up, watermark, acked>>
  /\ ServerFrame

\* The server starts the request, or ends it.  What it does after it has lost the
\* session cannot be seen by the client.
ServerWorks(r) ==
  /\ Me \in up
  /\ \E v \in {"RUNNING"} \cup Outcomes :
       /\ st[r] \in {"ACCEPTED_QUEUED", "RUNNING"}
       /\ Report(r, v, <<>>)
  /\ UNCHANGED <<watermark, acked, wire>>
  /\ ServerFrame

\* The connection breaks, or the server closes it.
LinkFails ==
  /\ LinkMayFail
  /\ Me \in up
  /\ up' = {}
  /\ wire' = <<>>
  /\ UNCHANGED <<st, out, watermark, acked>>
  /\ ServerFrame

-----------------------------------------------------------------------------
(* The specification.                                                      *)

CallerStep(r) ==
  \/ SubmitRefused(r) \/ Register(r) \/ Enqueue(r) \/ Drop(r)
  \/ CallerCancels(r) \/ Decided(r) \/ Undecided(r) \/ AddCallback(r)

SenderStep   == SenderTakes \/ SenderSends \/ SenderFails
ReceiverStep == ReceiverReads \/ ReceiverSchedules \/ ReceiverEnds
LaneStep     == LaneRuns \/ LaneAcks \/ LaneAckFails \/ LaneForgets

Next ==
  \/ \E r \in Requests : CallerStep(r) \/ ScheduleCallbacks(r) \/ RunCallback(r) \/ ServerWorks(r)
  \/ SenderStep \/ ReceiverStep \/ LaneStep \/ LossStep
  \/ DispatchCallback
  \/ \E cancel \in ShutdownArgs : Shutdown(cancel)
  \/ CloserStep
  \/ ServerReads \/ LinkFails

Spec == Init /\ [][Next]_vars

(***************************************************************************)
(* Fairness: the client's threads are scheduled, a submission that waits   *)
(* for room gets it or times out, and the server, which Broker shows to    *)
(* end every request, reads its messages and ends what it accepted.        *)
(* Nothing obliges a caller's callback to run: a slow callback must not    *)
(* hold up the futures.                                                    *)
(***************************************************************************)
Fairness ==
  /\ WF_vars(SenderStep) /\ WF_vars(ReceiverStep) /\ WF_vars(LaneStep) /\ WF_vars(LossStep)
  /\ WF_vars(CloserStep)
  /\ WF_vars(ServerReads)
  /\ \A r \in Requests : WF_vars(Enqueue(r) \/ Drop(r)) /\ WF_vars(ServerWorks(r))

FairSpec == Spec /\ Fairness

-----------------------------------------------------------------------------
(* Safety.                                                                 *)

NotAccepted == {"RemoteExecutorUnavailable", "RemoteSubmissionTimeout", "Rejected"}
Completed   == {"RemoteTaskError", "RemoteResultEncodingError", "RemoteResultTooLarge"}
Accepted    == Completed \cup {"RemoteQueueTimeout", "RemoteProcessError", "RemoteConnectionLost"}
NotStarted  == NotAccepted \cup {"RemoteQueueTimeout", "CancelledLocally"}

\* What an exception says about the request is true and stays true, whatever is
\* still on its way to the server: one reported as not accepted never will be,
\* one reported as not started never runs, one that is cancelled before it was
\* sent is never sent ("the facts an application needs before retrying").
Honest ==
  \A r \in Requests :
    /\ error[r] \in NotAccepted => st[r] \in {"UNSENT", "REJECTED"}
    /\ error[r] \in Accepted => st[r] \notin {"UNSENT", "REJECTED"}
    /\ error[r] \in NotStarted => st[r] \in {"UNSENT", "REJECTED", "QUEUE_TIMED_OUT"}
    /\ error[r] \in Completed => st[r] \in AfterRun
    /\ submission_state[r] = "SUCCEEDED" => st[r] = "SUCCEEDED"

\* A callback is called at most once, is never left behind by the future it was
\* added to, and none is in the queue that the dispatcher no longer reads.
CallbackOnce ==
  \A r \in Requests :
    /\ calls[r] <= 1
    /\ Done(r) => callbacks[r] # "added"
    /\ dispatch # <<>> /\ Head(dispatch) = Closer => callbacks[r] # "queued"

\* A future's state never goes back, and its outcome is final, although four
\* threads set it.
Stage(s) ==
  CASE s = "LOCAL_PENDING" -> 0 [] s = "SENT_UNACKNOWLEDGED" -> 1
    [] s = "ACCEPTED_QUEUED" -> 2 [] s = "RUNNING" -> 3 [] OTHER -> 4
NeverBackwards ==
  [][\A r \in Requests :
       /\ Stage(submission_state[r]) <= Stage(submission_state'[r])
       /\ Done(r) => submission_state'[r] = submission_state[r] /\ error'[r] = error[r]]_vars

-----------------------------------------------------------------------------
(* Liveness.                                                               *)

\* Every future that submit() returned ends, also when the connection is lost at
\* any point and however slow the callbacks are.
EveryFutureEnds == \A r \in Requests : caller[r] = "returned" ~> Done(r)

\* Every outcome is acknowledged, or the session ends, which releases it.
EveryOutcomeAcked == \A r \in Requests : st[r] \in Ended ~> r \in acked \/ Me \notin up

\* shutdown() ends, unless it waits for a future whose submission failed.
ShutdownEnds ==
  closing = "cancel" ~> closing = "done" \/ \E r \in awaited : caller[r] = "raised" /\ ~Done(r)

=============================================================================
