---------------------------- MODULE RemoteService ----------------------------
(***************************************************************************)
(* What the remote server promises the clients of its sessions, with the   *)
(* scheduler, the local pool and the threads left out: every request goes  *)
(* through its states in order, and every change of state is told to its   *)
(* session, in the order of the changes and truthfully, or the session's   *)
(* connection is lost for good.                                            *)
(*                                                                         *)
(* Broker implements this specification; Client is composed with it.       *)
(***************************************************************************)
EXTENDS Naturals, Sequences

SequenceOps == INSTANCE SequencesExt

CONSTANTS
  Requests,    \* the requests that clients may submit
  Sessions,    \* their sessions
  SessionOf,   \* [Requests -> Sessions]
  Replies      \* what a message that reports no state may say

VARIABLES
  st,          \* [Requests -> the state of the request]
  up,          \* the sessions that can still be told something
  out          \* [Sessions -> the messages on their way to the client]

serviceVars == <<st, up, out>>

(***************************************************************************)
(* RequestState, with UNSENT for a request the server has not seen and     *)
(* REJECTED for one it has refused.                                        *)
(***************************************************************************)
WithoutRun == {"CANCELLED", "QUEUE_TIMED_OUT", "WORKER_LOST"}
AfterRun   == {"SUCCEEDED", "TASK_FAILED", "EXECUTION_TIMED_OUT", "CANCELLED",
               "WORKER_LOST", "RESULT_ENCODING_FAILED", "RESULT_TOO_LARGE"}
Ended      == WithoutRun \cup AfterRun
States     == {"UNSENT", "REJECTED", "ACCEPTED_QUEUED", "RUNNING"} \cup Ended

Successors(v) ==
  CASE v = "UNSENT"          -> {"ACCEPTED_QUEUED", "REJECTED"}
    [] v = "ACCEPTED_QUEUED" -> {"RUNNING"} \cup WithoutRun
    [] v = "RUNNING"         -> AfterRun
    [] OTHER                 -> {}

ServiceInit ==
  /\ st = [r \in Requests |-> "UNSENT"]
  /\ up = Sessions
  /\ out = [s \in Sessions |-> <<>>]

-----------------------------------------------------------------------------
(* One step of the server, seen by session s.                              *)

Changed(s) == {r \in Requests : SessionOf[r] = s /\ st'[r] # st[r]}

\* The messages that the step has added to those of session s.
News(s) == SubSeq(out'[s], Len(out[s]) + 1, Len(out'[s]))

True(s, m) ==
  \/ m.what \in Replies
  \/ m.of \in Requests /\ SessionOf[m.of] = s /\ m.what = st'[m.of]

\* The server tells every change; it may also repeat a state or answer.
Tells(s) ==
  /\ s \in up'
  /\ SequenceOps!IsPrefix(out[s], out'[s])
  /\ \A i \in DOMAIN News(s) : True(s, News(s)[i])
  /\ \A r \in Changed(s) : \E i \in DOMAIN News(s) : News(s)[i] = [of |-> r, what |-> st'[r]]

\* The client takes the next message.
Takes(s) ==
  /\ Changed(s) = {}
  /\ out[s] # <<>>
  /\ out'[s] = Tail(out[s])

\* The connection is lost: what was on its way may still arrive, nothing else.
Loses(s) == s \notin up' /\ SequenceOps!IsPrefix(out'[s], out[s])

ServiceNext ==
  /\ \A r \in Requests : st'[r] = st[r] \/ st'[r] \in Successors(st[r])
  /\ up' \subseteq up
  /\ \A s \in Sessions : Tells(s) \/ Takes(s) \/ Loses(s)

ServiceSpec == ServiceInit /\ [][ServiceNext]_serviceVars

-----------------------------------------------------------------------------
(* The steps of a server that does one thing at a time.                    *)

Tell(s, messages) ==
  out' = [out EXCEPT ![s] = IF s \in up THEN @ \o messages ELSE @]

\* Request r enters state v, and more messages follow the report.
Report(r, v, more) ==
  /\ v \in Successors(st[r])
  /\ st' = [st EXCEPT ![r] = v]
  /\ Tell(SessionOf[r], <<[of |-> r, what |-> v]>> \o more)
  /\ UNCHANGED up

=============================================================================
