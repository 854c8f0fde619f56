------------------------------- MODULE Broker -------------------------------
(***************************************************************************)
(* The remote server: class DeadpoolServer of remote/server.py, from the   *)
(* listeners to the local pool.                                            *)
(*                                                                         *)
(* Threads: the one that serves, the accept loop, one reader and one       *)
(* writer per connection, the dispatcher, the run_task threads of the pool *)
(* (through _claim_dispatch and the futures' callbacks) and the shutdown   *)
(* thread.  Everything a thread does under _condition is one step.  The    *)
(* lock is reentrant and a future runs its callbacks in the thread that    *)
(* cancels it, so a cancellation by the broker includes the callback.      *)
(*                                                                         *)
(* The items of FairScheduler are the requests.  A connection carries one  *)
(* session.  Result bytes are reserved in units of the session's result    *)
(* limit, so the limits on bytes are limits on the number of outcomes.     *)
(***************************************************************************)
EXTENDS FairScheduler

CONSTANTS
  Sessions,          \* the connections that clients open
  SessionOf,         \* [Items -> the session that submits the request]
  OwnerOf,           \* [Sessions -> its principal]
  SequenceOf,        \* [Items -> the number in the request ID]
  Denied,            \* requests that are malformed or not authorized
  HasDeadline,       \* requests submitted with a queue timeout
  Group,             \* requests that share a group ID
  Cancels,           \* requests their client may cancel
  Repeats,           \* requests their client may send twice
  Queries,           \* sessions that ping or ask for a status or statistics
  HardAllowed,       \* the authorizer allows hard_cancel
  Policy,            \* disconnect_policy
  MaxConnections,    \* max_connections_per_principal
  MaxPerSession,     \* max_pending_per_session and max_retained_outcomes_...
  MaxPerPrincipal,   \* max_pending_per_principal
  MaxGlobal,         \* max_pending_global and max_retained_outcomes_global
  MaxStaged,         \* max_staged_tasks
  OutboundLimit,     \* outbound_queue_size
  PoolBacklog,       \* max_backlog of the local pool
  PoolOutcomes,      \* the terminal states that an execution can lead to
  ShutdownArgs,      \* the arguments that shutdown may be given
  ColdStart,         \* TRUE: behaviours begin before start(), not when it has
                     \* returned and the clients are connected
  MaxSockets,        \* max_unauthenticated_connections
  MaxAll,            \* max_connections_global
  LateMessages       \* TRUE: a reader has a message in hand when another
                     \* thread closes its connection

Policies == {"cancel_queued", "continue", "terminate"}
Live     == {"ACCEPTED_QUEUED", "RUNNING"}
Terminal == {"SUCCEEDED", "TASK_FAILED", "EXECUTION_TIMED_OUT", "CANCELLED",
             "QUEUE_TIMED_OUT", "WORKER_LOST", "RESULT_ENCODING_FAILED",
             "RESULT_TOO_LARGE"}

NoItem == 0

ASSUME BrokerAssumption ==
  /\ NoItem \notin Items
  /\ IsFiniteSet(Sessions)
  /\ SessionOf \in [Items -> Sessions]
  /\ OwnerOf \in [Sessions -> Principals]
  /\ \A r \in Items : PrincipalOf[r] = OwnerOf[SessionOf[r]]
  /\ SequenceOf \in [Items -> Nat \ {0}]
  /\ Denied \subseteq Items
  /\ HasDeadline \subseteq Items
  /\ Group \subseteq Items
  /\ Cancels \subseteq Items
  /\ Repeats \subseteq Items
  /\ Queries \subseteq Sessions
  /\ HardAllowed \in BOOLEAN
  /\ Policy \in Policies
  /\ {MaxConnections, MaxPerSession, MaxPerPrincipal, MaxGlobal, MaxStaged,
      OutboundLimit, PoolBacklog, MaxSockets, MaxAll} \subseteq Nat \ {0}
  /\ PoolOutcomes \subseteq Terminal \ {"QUEUE_TIMED_OUT"}
  /\ ShutdownArgs \subseteq [cancel : BOOLEAN, deadline : BOOLEAN]
  /\ {ColdStart, LateMessages} \subseteq BOOLEAN

VARIABLES
  state,              \* ServerState
  conn,               \* [Sessions -> state of the connection and its reader]
  sessions,           \* the sessions in _sessions
  clean_close,        \* sessions whose client closed them cleanly
  watermark,          \* [Sessions -> the greatest sequence number seen]
  records,            \* [Sessions -> session.requests]
  requests,           \* _requests
  reserved,           \* [Sessions -> session.reserved_outcomes]
  reserved_outcomes,  \* _reserved_outcomes
  st,                 \* [Items -> RequestState]
  local_future,       \* [Items -> state of the record's local future]
  staged,             \* _staged
  dpc,                \* where the dispatcher is
  hand,               \* the record it has in hand
  backlog,            \* futures on the local pool's backlog
  pool_open,          \* the local pool accepts work
  out,                \* [Sessions -> messages queued for the writer]
  view,               \* [Items -> the last state its client was told]
  ready,              \* the event ready
  stopped,            \* the event _stopped
  serve,              \* where the thread that runs serve_forever is
  listening,          \* the listeners
  shpc,               \* where the shutdown thread is
  shutdown_cancel,    \* _shutdown_cancel_futures
  shutdown_deadline   \* _shutdown_deadline_at is set

recordVars   == <<sessions, records, requests, reserved, reserved_outcomes>>
sessionVars  == <<clean_close, watermark>>
dispatchVars == <<dpc, hand>>
poolVars     == <<backlog, pool_open>>
startVars    == <<ready, stopped, serve, listening>>
shutdownVars == <<state, startVars, shpc, shutdown_cancel, shutdown_deadline>>
vars == <<schedulerVars, recordVars, sessionVars, dispatchVars, poolVars,
          shutdownVars, conn, st, local_future, staged, out, view>>

(***************************************************************************)
(* A client is "away" until it connects; its socket is "accepted", "raw"   *)
(* in _raw_sockets, and the connection is "new" in _connections, or "shut" *)
(* if it is closed before the handshake, and "open" after it.  It is       *)
(* "closed" when connection.closed is set and its reader has not noticed,  *)
(* "lost" when the reader has only _disconnect to do.                      *)
(*                                                                         *)
(* A local future is "made" by the dispatcher, "pooled" on the backlog,    *)
(* "taken" by a run_task thread, "running" once claimed, "done", and       *)
(* "called" when its callback has run.                                     *)
(***************************************************************************)
ConnState   == {"away", "accepted", "raw", "new", "shut", "open", "closed", "lost", "gone"}
FutureState == {"none", "made", "pooled", "taken", "running", "done", "called"}
Message     == [of : Items \cup {NoItem}, what : Live \cup Terminal \cup {"REJECTED", "CONTROL"}]

TypeOK ==
  /\ SchedulerTypeOK
  /\ state \in {"CREATED", "STARTING", "RUNNING", "DRAINING", "STOPPING", "STOPPED"}
  /\ conn \in [Sessions -> ConnState]
  /\ sessions \subseteq Sessions
  /\ clean_close \subseteq Sessions
  /\ watermark \in [Sessions -> Nat]
  /\ records \in [Sessions -> SUBSET Items]
  /\ requests \subseteq Items
  /\ reserved \in [Sessions -> Nat]
  /\ reserved_outcomes \in Nat
  /\ st \in [Items -> Live \cup Terminal \cup {"UNSENT", "REJECTED"}]
  /\ local_future \in [Items -> FutureState]
  /\ staged \in Nat
  /\ dpc \in {"none", "loop", "submit", "full", "failed", "attach", "exit"}
  /\ hand \in Items \cup {NoItem}
  /\ backlog \subseteq Items
  /\ pool_open \in BOOLEAN
  /\ out \in [Sessions -> Seq(Message)]
  /\ view \in [Items -> Live \cup Terminal \cup {"UNSENT", "REJECTED"}]
  /\ {ready, stopped} \subseteq BOOLEAN
  /\ serve \in {"none", "init", "build", "bind", "publish", "discard", "wait", "failed"}
  /\ listening \in {"none", "bound", "open", "closed"}
  /\ shpc \in {"none", "drain", "bound", "pool", "join", "connections", "done"}
  /\ shutdown_cancel \in BOOLEAN
  /\ shutdown_deadline \in BOOLEAN

Init ==
  /\ SchedulerInit
  /\ state = IF ColdStart THEN "CREATED" ELSE "RUNNING"
  /\ ready = ~ColdStart
  /\ stopped = FALSE
  /\ serve = IF ColdStart THEN "none" ELSE "wait"
  /\ listening = IF ColdStart THEN "none" ELSE "open"
  /\ conn = [s \in Sessions |-> IF ColdStart THEN "away" ELSE "new"]
  /\ sessions = {}
  /\ clean_close = {}
  /\ watermark = [s \in Sessions |-> 0]
  /\ records = [s \in Sessions |-> {}]
  /\ requests = {}
  /\ reserved = [s \in Sessions |-> 0]
  /\ reserved_outcomes = 0
  /\ st = [r \in Items |-> "UNSENT"]
  /\ local_future = [r \in Items |-> "none"]
  /\ staged = 0
  /\ dpc = IF ColdStart THEN "none" ELSE "loop"
  /\ hand = NoItem
  /\ backlog = {}
  /\ pool_open = ~ColdStart
  /\ out = [s \in Sessions |-> <<>>]
  /\ view = [r \in Items |-> "UNSENT"]
  /\ shpc = "none"
  /\ shutdown_cancel = FALSE
  /\ shutdown_deadline = FALSE

-----------------------------------------------------------------------------
(* Messages to the clients: _ServerConnection.send.                        *)

Control == [of |-> NoItem, what |-> "CONTROL"]
Nothing == [s \in Sessions |-> <<>>]
To(s, m) == [Nothing EXCEPT ![s] = m]
About(r, what) == To(SessionOf[r], <<[of |-> r, what |-> what]>>)

\* The outcomes of several requests, in the order of submission.
InOrder(R) ==
  CHOOSE q \in [1 .. Cardinality(R) -> R] :
    \A i, j \in 1 .. Cardinality(R) :
      i < j => q[i] # q[j] /\ SequenceOf[q[i]] <= SequenceOf[q[j]]
Outcomes(T, what) ==
  [s \in Sessions |->
     LET R == {r \in T : SessionOf[r] = s}
     IN  [i \in 1 .. Cardinality(R) |-> [of |-> InOrder(R)[i], what |-> what]]]

\* put_nowait finds the queue full: the connection is closed.
Overflows(m) == {s \in Sessions : conn[s] = "open" /\ Len(out[s]) + Len(m[s]) > OutboundLimit}
ClosedAfter(m) == Overflows(m) \cup {s \in Sessions : conn[s] # "open"}

\* Queue the messages of m; a closed connection takes none and keeps none.
Send(m) == out' = [s \in Sessions |-> IF s \in ClosedAfter(m) THEN <<>> ELSE out[s] \o m[s]]

\* Mutant of SendFrom: a full queue swallows the messages.
SendFromSwallows(m) ==
  /\ out' = [s \in Sessions |-> CASE s \in Overflows(m) -> out[s]
                                [] s \in ClosedAfter(m) \ Overflows(m) -> <<>>
                                [] OTHER -> out[s] \o m[s]]
  /\ UNCHANGED conn

\* The connections after a step of a thread that is not a reader.
SendFrom(m) ==
  /\ Send(m)
  /\ conn' = [s \in Sessions |-> IF s \in Overflows(m) THEN "closed" ELSE conn[s]]

\* Reader s has a message; after handling it, it looks at connection.closed.
Reads(s) == conn[s] = "open" \/ (LateMessages /\ conn[s] = "closed")
SendFromReader(s, m) ==
  /\ Send(m)
  /\ conn' = [x \in Sessions |-> IF x = s /\ s \in ClosedAfter(m) THEN "lost"
                                 ELSE IF x \in Overflows(m) THEN "closed" ELSE conn[x]]

-----------------------------------------------------------------------------
(* Records, reservations and callbacks.                                    *)

\* _remove_request_locked and _release_reservation_locked, for the records R:
\* nothing happens to a record whose session is no longer in _sessions.
Forget(R) ==
  LET gone == {r \in R : SessionOf[r] \in sessions} IN
  /\ records' = [s \in Sessions |-> records[s] \ gone]
  /\ requests' = requests \ gone
  /\ reserved' = [s \in Sessions |-> reserved[s] - Cardinality(records[s] \cap gone)]
  /\ reserved_outcomes' = reserved_outcomes - Cardinality(requests \cap gone)

\* _purge_session_locked, for the sessions P, after the records have changed.
Purge(P) ==
  LET ended == {r \in UNION {records[s] : s \in P} : st'[r] \in Terminal} IN
  /\ Forget(ended)
  /\ sessions' = sessions \ {s \in P : records'[s] = {}}

\* Mutant of EndAs: the first outcome does not win.
EndAsOverwrites(T, what) ==
  st' = [r \in Items |-> IF r \in T THEN what ELSE st[r]]

\* _terminal_locked, for the records T: the first outcome wins.
EndAs(T, what) ==
  st' = [r \in Items |-> IF r \in T /\ st[r] \notin Terminal THEN what ELSE st[r]]

\* Futures of T that Future.cancel() completes, and those whose callback is
\* already attached and therefore runs at once.
Unfinished(T) == {r \in T : local_future[r] \in {"made", "pooled", "taken", "running"}}
CalledBack(T) == Unfinished(T) \ {hand}

\* _complete_local: "if self._staged: self._staged -= 1", once per callback.
Unstage(n) == staged' = IF staged >= n THEN staged - n ELSE 0

\* Mutant of CancelFutures: the slot is given back although no callback ran.
CancelFuturesUncalled(T) ==
  /\ local_future' = [r \in Items |-> IF r \in CalledBack(T) THEN "called"
                                      ELSE IF r \in Unfinished(T) THEN "done"
                                      ELSE local_future[r]]
  /\ Unstage(Cardinality(Unfinished(T)))

\* local_future.cancel() or cancel_and_kill_if_running(), for the records T.
CancelFutures(T) ==
  /\ local_future' = [r \in Items |-> IF r \in CalledBack(T) THEN "called"
                                      ELSE IF r \in Unfinished(T) THEN "done"
                                      ELSE local_future[r]]
  /\ Unstage(Cardinality(CalledBack(T)))

\* The sessions that the callbacks of cancelled futures purge: those whose
\* connection is closed by then, which may also be by a later message.
PurgedByCallbacks(T, m) ==
  {P \in SUBSET {SessionOf[r] : r \in CalledBack(T)} :
     /\ P \subseteq ClosedAfter(m)
     /\ {s \in Sessions : conn[s] # "open"} \cap {SessionOf[r] : r \in CalledBack(T)} \subseteq P}

\* What cancellation and expiry do to records: leave the queue, become
\* terminal, cancel the local future.
EndQueued(T, what, m) ==
  /\ RemoveAll(T)
  /\ EndAs(T, what)
  /\ CancelFutures(T)
  /\ \E P \in PurgedByCallbacks(T, m) : Purge(P)

-----------------------------------------------------------------------------
(* start() and serve_forever().                                            *)

StartFrame ==
  UNCHANGED <<schedulerVars, recordVars, sessionVars, hand, backlog, conn, st, local_future,
              staged, out, view, shpc, shutdown_cancel, shutdown_deadline>>

\* start() or serve_forever(): the first call starts to serve, unless shutdown()
\* came before.  The callers of start() wait for ready.
Start ==
  /\ state = "CREATED"
  /\ state' = "STARTING"
  /\ serve' = "init"
  /\ UNCHANGED <<ready, stopped, listening, dpc, pool_open>>
  /\ StartFrame

\* Mutant of ServeEnds: the callers of start() are not woken.
ServeEndsUnready(label) ==
  /\ serve' = label
  /\ state' = "STOPPED"
  /\ stopped' = TRUE
  /\ UNCHANGED ready

\* The end of a server that never ran.
ServeEnds(label) ==
  /\ serve' = label
  /\ state' = "STOPPED"
  /\ ready' = TRUE
  /\ stopped' = TRUE

\* _initialize, until the pool is built: shutdown() may have come first.
ServeInit ==
  /\ serve = "init"
  /\ IF state = "STARTING"
     THEN serve' = "build" /\ UNCHANGED <<state, ready, stopped>>
     ELSE ServeEnds("failed")
  /\ UNCHANGED <<listening, dpc, pool_open>>
  /\ StartFrame

\* pool_factory() may raise...
ServeBuilds ==
  /\ serve = "build"
  /\ \/ pool_open' = TRUE /\ serve' = "bind" /\ UNCHANGED <<state, ready, stopped>>
     \/ ServeEnds("failed") /\ UNCHANGED pool_open
  /\ UNCHANGED <<listening, dpc>>
  /\ StartFrame

\* ...and so may a listener that is not optional: the pool is given up then.
ServeBinds ==
  /\ serve = "bind"
  /\ \/ listening' = "bound" /\ serve' = "publish" /\ UNCHANGED <<state, ready, stopped, pool_open>>
     \/ pool_open' = FALSE /\ ServeEnds("failed") /\ UNCHANGED listening
  /\ UNCHANGED dpc
  /\ StartFrame

\* Mutant of ServePublishes: nobody asks whether shutdown() came meanwhile.
ServePublishesAnyway ==
  /\ serve = "publish"
  /\ serve' = "wait"
  /\ state' = "RUNNING"
  /\ ready' = TRUE
  /\ listening' = "open"
  /\ dpc' = "loop"
  /\ UNCHANGED <<stopped, pool_open>>
  /\ StartFrame

\* The state decides, under the lock, whether the server runs.
ServePublishes ==
  /\ serve = "publish"
  /\ IF state = "STARTING"
     THEN /\ serve' = "wait"
          /\ state' = "RUNNING"
          /\ ready' = TRUE
          /\ listening' = "open"
          /\ dpc' = "loop"
     ELSE serve' = "discard" /\ UNCHANGED <<state, ready, listening, dpc>>
  /\ UNCHANGED <<stopped, pool_open>>
  /\ StartFrame

\* _discard_startup_resources
ServeDiscards ==
  /\ serve = "discard"
  /\ listening' = "closed"
  /\ pool_open' = FALSE
  /\ ServeEnds("failed")
  /\ UNCHANGED dpc
  /\ StartFrame

ServeStep == ServeInit \/ ServeBuilds \/ ServeBinds \/ ServePublishes \/ ServeDiscards

-----------------------------------------------------------------------------
(* The connection threads.                                                 *)

ConnectionFrame ==
  UNCHANGED <<schedulerVars, recordVars, sessionVars, dispatchVars, poolVars, shutdownVars,
              st, local_future, staged, out, view>>

Connects(s, from, to) ==
  /\ conn[s] \in from
  /\ conn' = [conn EXCEPT ![s] = to]
  /\ ConnectionFrame

\* _accept_loop: accept() returns a socket...
Accept(s) == listening = "open" /\ Connects(s, {"away"}, "accepted")

\* ...which is kept, whatever the state is by then, if there are not too many.
Unauthenticated == {s \in Sessions : conn[s] \in {"raw", "new", "shut"}}
Connections == {s \in Sessions : conn[s] \in {"raw", "new", "shut", "open", "closed", "lost"}}
Admit(s) ==
  LET kept == Cardinality(Unauthenticated) < MaxSockets /\ Cardinality(Connections) < MaxAll
  IN  Connects(s, {"accepted"}, IF kept THEN "raw" ELSE "gone")

\* Mutant of Prepare: the state is not looked at.
PrepareAnyway(s) == Connects(s, {"raw"}, "new") \/ Connects(s, {"raw"}, "gone")

\* _prepare_connection, which may fail: a connection of a server that stops is
\* closed at once.
Prepare(s) ==
  \/ Connects(s, {"raw"}, IF state \in {"RUNNING", "DRAINING"} THEN "new" ELSE "gone")
  \/ Connects(s, {"raw"}, "gone")

\* _connection_loop without a session: no valid HELLO in time, or the handshake
\* is rejected.
HandshakeFails(s) == Connects(s, {"new", "shut"}, "gone")

\* _handshake: a session per connection, up to the limit of its principal.  The
\* loop goes on if nobody has closed the connection meanwhile.
Handshake(s) ==
  /\ conn[s] \in {"new", "shut"}
  /\ Cardinality({x \in sessions : OwnerOf[x] = OwnerOf[s]}) < MaxConnections
  /\ sessions' = sessions \cup {s}
  /\ conn' = [conn EXCEPT ![s] = IF @ = "new" THEN "open" ELSE "lost"]
  /\ out' = IF conn[s] = "new" THEN [out EXCEPT ![s] = <<Control>>] ELSE out
  /\ UNCHANGED <<schedulerVars, records, requests, reserved, reserved_outcomes,
                 sessionVars, dispatchVars, poolVars, shutdownVars, st, local_future,
                 staged, view>>

\* Mutant of QueueFull: the limit of the server is not looked at.
QueueFullLocal(s) ==
  \/ Cardinality(records[s]) >= MaxPerSession
  \/ Cardinality({r \in requests : PrincipalOf[r] = OwnerOf[s]}) >= MaxPerPrincipal
  \/ reserved[s] >= MaxPerSession

\* The conditions of the "queue_full" rejection.
QueueFull(s) ==
  \/ Cardinality(records[s]) >= MaxPerSession
  \/ Cardinality({r \in requests : PrincipalOf[r] = OwnerOf[s]}) >= MaxPerPrincipal
  \/ Cardinality(requests) >= MaxGlobal
  \/ reserved[s] >= MaxPerSession
  \/ reserved_outcomes >= MaxGlobal

\* _submit of a request that is new to the session: stale, refused or accepted.
Submit(r) ==
  LET s     == SessionOf[r]
      stale == SequenceOf[r] <= watermark[s]
      admit == ~stale /\ state = "RUNNING" /\ ~QueueFull(s) /\ r \notin Denied
  IN  /\ Reads(s)
      /\ s \notin clean_close
      /\ st[r] = "UNSENT"
      /\ watermark' = [watermark EXCEPT ![s] = IF stale THEN @ ELSE SequenceOf[r]]
      /\ \/ /\ admit
            /\ records' = [records EXCEPT ![s] = @ \cup {r}]
            /\ requests' = requests \cup {r}
            /\ reserved' = [reserved EXCEPT ![s] = @ + 1]
            /\ reserved_outcomes' = reserved_outcomes + 1
            /\ Enqueue(r, FALSE)
            /\ st' = [st EXCEPT ![r] = "ACCEPTED_QUEUED"]
            /\ SendFromReader(s, About(r, "ACCEPTED_QUEUED"))
         \/ /\ ~admit
            /\ st' = [st EXCEPT ![r] = "REJECTED"]
            /\ SendFromReader(s, About(r, "REJECTED"))
            /\ UNCHANGED <<schedulerVars, records, requests, reserved, reserved_outcomes>>
      /\ UNCHANGED <<sessions, clean_close, dispatchVars, poolVars, shutdownVars,
                     local_future, staged, view>>

\* A handler that changes no record: the answer is all.
Answers(s, m) ==
  /\ Reads(s)
  /\ SendFromReader(s, m)
  /\ UNCHANGED <<schedulerVars, recordVars, sessionVars, dispatchVars, poolVars,
                 shutdownVars, st, local_future, staged, view>>

\* _submit of a request the session knows: _send_record.
SubmitAgain(r) ==
  /\ r \in Repeats
  /\ r \in records[SessionOf[r]]
  /\ Answers(SessionOf[r], About(r, st[r]))

\* PING, STATUS_REQUEST and STATS_REQUEST.
Query(s) ==
  /\ s \in Queries
  /\ Answers(s, To(s, <<Control>>))

\* RESULT_ACK, sent by a client that was told the outcome.
Ack(r) ==
  LET s == SessionOf[r] IN
  /\ Reads(s)
  /\ view[r] \in Terminal
  /\ r \in records[s]
  /\ st[r] \in Terminal
  /\ Forget({r})
  /\ SendFromReader(s, Nothing)
  /\ UNCHANGED <<schedulerVars, sessions, sessionVars, dispatchVars, poolVars,
                 shutdownVars, st, local_future, staged, view>>

\* What a (hard) cancellation of the records R ends.
Cancellable(R, hard) ==
  {r \in R : st[r] = "ACCEPTED_QUEUED" \/ (st[r] = "RUNNING" /\ hard /\ HardAllowed)}

\* _cancel and _cancel_group: the outcomes, then the response.
CancelRecords(s, R, hard) ==
  LET T == Cancellable(R \cap records[s], hard)
      m == Outcomes(T, "CANCELLED")
  IN
  /\ Reads(s)
  /\ EndQueued(T, "CANCELLED", m)
  /\ SendFromReader(s, [m EXCEPT ![s] = Append(@, Control)])
  /\ UNCHANGED <<sessionVars, dispatchVars, poolVars, shutdownVars, view>>

CancelRequest(r, hard) ==
  /\ r \in Cancels
  /\ st[r] # "UNSENT"
  /\ CancelRecords(SessionOf[r], {r}, hard)

CancelGroup(s, hard) ==
  /\ Group # {}
  /\ CancelRecords(s, Group, hard)

\* CLOSE_SESSION, when every request of the session is terminal.
CloseSession(s) ==
  /\ Reads(s)
  /\ s \notin clean_close
  /\ \A r \in records[s] : st[r] \in Terminal
  /\ clean_close' = clean_close \cup {s}
  /\ SendFromReader(s, To(s, <<Control>>))
  /\ UNCHANGED <<schedulerVars, recordVars, watermark, dispatchVars, poolVars,
                 shutdownVars, st, local_future, staged, view>>

\* The reader ends: the peer is gone, broke the protocol, or the socket was
\* closed by another thread.
ReaderEnds(s) ==
  /\ conn[s] \in {"open", "closed"}
  /\ conn' = [conn EXCEPT ![s] = "lost"]
  /\ out' = [out EXCEPT ![s] = <<>>]
  /\ UNCHANGED <<schedulerVars, recordVars, sessionVars, dispatchVars, poolVars,
                 shutdownVars, st, local_future, staged, view>>

\* The writer fails to send and closes the connection.
WriterFails(s) ==
  /\ conn[s] = "open"
  /\ conn' = [conn EXCEPT ![s] = "closed"]
  /\ out' = [out EXCEPT ![s] = <<>>]
  /\ UNCHANGED <<schedulerVars, recordVars, sessionVars, dispatchVars, poolVars,
                 shutdownVars, st, local_future, staged, view>>

\* The writer sends the next message, and the client takes note of it.
Deliver(s) ==
  /\ conn[s] = "open"
  /\ out[s] # <<>>
  /\ LET m == Head(out[s]) IN
       view' = IF m.of = NoItem THEN view ELSE [view EXCEPT ![m.of] = m.what]
  /\ out' = [out EXCEPT ![s] = Tail(@)]
  /\ UNCHANGED <<schedulerVars, recordVars, sessionVars, dispatchVars, poolVars,
                 shutdownVars, conn, st, local_future, staged>>

\* Mutant of Disconnect: the terminal records are left for an acknowledgement.
DisconnectKeeps(s) ==
  LET drop == s \notin clean_close /\ Policy \in {"cancel_queued", "terminate"}
      T == {r \in records[s] : /\ drop
                               /\ st[r] = "ACCEPTED_QUEUED"}
  IN  /\ conn[s] = "lost"
      /\ conn' = [conn EXCEPT ![s] = "gone"]
      /\ RemoveAll(T)
      /\ EndAs(T, "CANCELLED")
      /\ CancelFutures(T)
      /\ UNCHANGED <<recordVars, sessionVars, dispatchVars, poolVars, shutdownVars, out, view>>

\* _disconnect: queued requests are cancelled unless the policy says continue or
\* the session was closed; running ones only if it says terminate.
Disconnect(s) ==
  LET drop == s \notin clean_close /\ Policy \in {"cancel_queued", "terminate"}
      T == {r \in records[s] :
              /\ drop
              /\ \/ st[r] = "ACCEPTED_QUEUED"
                 \/ /\ st[r] = "RUNNING"
                    /\ Policy = "terminate"
                    /\ local_future[r] # "none"}
  IN  /\ conn[s] = "lost"
      /\ conn' = [conn EXCEPT ![s] = "gone"]
      /\ RemoveAll(T)
      /\ EndAs(T, "CANCELLED")
      /\ CancelFutures(T)
      /\ Purge({s})
      /\ UNCHANGED <<sessionVars, dispatchVars, poolVars, shutdownVars, out, view>>

-----------------------------------------------------------------------------
(* The dispatcher and the deadlines.                                       *)

\* _expire_queued_locked, for one record whose queue deadline has passed.
Expire(r) ==
  /\ dpc = "loop"
  /\ r \in HasDeadline \cap requests
  /\ st[r] = "ACCEPTED_QUEUED"
  /\ EndQueued({r}, "QUEUE_TIMED_OUT", About(r, "QUEUE_TIMED_OUT"))
  /\ SendFrom(About(r, "QUEUE_TIMED_OUT"))
  /\ UNCHANGED <<sessionVars, dispatchVars, poolVars, shutdownVars, view>>

DispatchFrame == UNCHANGED <<sessionVars, backlog, pool_open, shutdownVars, view>>

\* Pop the next record and stage it.
Dispatch(r) ==
  /\ dpc = "loop"
  /\ state \in {"RUNNING", "DRAINING"}
  /\ staged < MaxStaged
  /\ Pop(r)
  /\ IF st[r] = "ACCEPTED_QUEUED"
     THEN /\ local_future' = [local_future EXCEPT ![r] = "made"]
          /\ staged' = staged + 1
          /\ dpc' = "submit"
          /\ hand' = r
     ELSE UNCHANGED <<local_future, staged, dispatchVars>>
  /\ DispatchFrame
  /\ UNCHANGED <<recordVars, conn, st, out>>

DispatcherExits ==
  /\ dpc = "loop"
  /\ state \in {"STOPPING", "STOPPED"}
  /\ dpc' = "exit"
  /\ DispatchFrame
  /\ UNCHANGED <<schedulerVars, recordVars, conn, st, local_future, staged, hand, out>>

\* pool._submit_future(block=False), outside the lock.
SubmitFuture ==
  /\ dpc = "submit"
  /\ \/ /\ pool_open
        /\ Cardinality(backlog) < PoolBacklog
        /\ backlog' = backlog \cup {hand}
        /\ local_future' = [local_future EXCEPT ![hand] = IF @ = "made" THEN "pooled" ELSE @]
        /\ dpc' = "attach"
     \/ /\ pool_open
        /\ Cardinality(backlog) >= PoolBacklog
        /\ dpc' = "full"
        /\ UNCHANGED <<backlog, local_future>>
     \/ /\ ~pool_open
        /\ dpc' = "failed"
        /\ UNCHANGED <<backlog, local_future>>
  /\ UNCHANGED <<schedulerVars, recordVars, sessionVars, hand, pool_open, shutdownVars,
                 conn, st, staged, out, view>>

\* Mutant of Restore: a record that was cancelled meanwhile is put back.
RestoreAny ==
  /\ dpc = "full"
  /\ local_future' = [local_future EXCEPT ![hand] = "none"]
  /\ staged' = staged - 1
  /\ Enqueue(hand, TRUE)
  /\ dpc' = "loop"
  /\ hand' = NoItem
  /\ DispatchFrame
  /\ UNCHANGED <<recordVars, conn, st, out>>

\* Mutant of Restore: the record is not put back.
RestoreLoses ==
  /\ dpc = "full"
  /\ local_future' = [local_future EXCEPT ![hand] = "none"]
  /\ staged' = staged - 1
  /\ dpc' = "loop"
  /\ hand' = NoItem
  /\ DispatchFrame
  /\ UNCHANGED <<schedulerVars, recordVars, conn, st, out>>

\* queue.Full: back to the front of its stream, unless it ended meanwhile.
Restore ==
  /\ dpc = "full"
  /\ local_future' = [local_future EXCEPT ![hand] = "none"]
  /\ staged' = staged - 1
  /\ IF st[hand] = "ACCEPTED_QUEUED" THEN Enqueue(hand, TRUE) ELSE UNCHANGED schedulerVars
  /\ dpc' = "loop"
  /\ hand' = NoItem
  /\ DispatchFrame
  /\ UNCHANGED <<recordVars, conn, st, out>>

\* add_done_callback; the callback of a done future may run from now on.
Attach ==
  /\ dpc = "attach"
  /\ dpc' = "loop"
  /\ hand' = NoItem
  /\ DispatchFrame
  /\ UNCHANGED <<schedulerVars, recordVars, conn, st, local_future, staged, out>>

\* Mutant of Complete: a request that is terminal already is left staged.
CompleteLive(r, what) ==
  LET m == IF st[r] \in Terminal THEN Nothing ELSE About(r, what) IN
  /\ EndAs({r}, what)
  /\ local_future' = [local_future EXCEPT ![r] = "called"]
  /\ Unstage(IF st[r] \in Terminal THEN 0 ELSE 1)
  /\ Purge({SessionOf[r]} \cap ClosedAfter(m))
  /\ SendFrom(m)

\* _complete_local
Complete(r, what) ==
  LET m == IF st[r] \in Terminal THEN Nothing ELSE About(r, what) IN
  /\ EndAs({r}, what)
  /\ local_future' = [local_future EXCEPT ![r] = "called"]
  /\ Unstage(1)
  /\ Purge({SessionOf[r]} \cap ClosedAfter(m))
  /\ SendFrom(m)

\* Any other exception of _submit_future.
DispatchFails ==
  /\ dpc = "failed"
  /\ Complete(hand, "WORKER_LOST")
  /\ dpc' = "loop"
  /\ hand' = NoItem
  /\ DispatchFrame
  /\ UNCHANGED schedulerVars

-----------------------------------------------------------------------------
(* The local pool, and what it calls.                                      *)

\* External: the pool's runner takes a job; one whose future is done is skipped.
PoolTakes(r) ==
  /\ r \in backlog
  /\ backlog' = backlog \ {r}
  /\ local_future' = [local_future EXCEPT ![r] = IF @ = "pooled" THEN "taken" ELSE @]
  /\ UNCHANGED <<schedulerVars, recordVars, sessionVars, dispatchVars, pool_open,
                 shutdownVars, conn, st, staged, out, view>>

\* _claim_dispatch by a run_task thread: the request is now running...
Claim(r) ==
  /\ local_future[r] = "taken"
  /\ st[r] = "ACCEPTED_QUEUED"
  /\ st' = [st EXCEPT ![r] = "RUNNING"]
  /\ local_future' = [local_future EXCEPT ![r] = "running"]
  /\ SendFrom(About(r, "RUNNING"))
  /\ UNCHANGED <<schedulerVars, recordVars, sessionVars, dispatchVars, poolVars,
                 shutdownVars, staged, view>>

\* ...or its queue deadline has passed...
ClaimExpired(r) ==
  /\ local_future[r] = "taken"
  /\ st[r] = "ACCEPTED_QUEUED"
  /\ r \in HasDeadline
  /\ EndAs({r}, "QUEUE_TIMED_OUT")
  /\ CancelFutures({r})
  /\ \E P \in PurgedByCallbacks({r}, About(r, "QUEUE_TIMED_OUT")) : Purge(P)
  /\ SendFrom(About(r, "QUEUE_TIMED_OUT"))
  /\ UNCHANGED <<schedulerVars, sessionVars, dispatchVars, poolVars, shutdownVars, view>>

\* ...or it is a retry after a broken pipe, with another worker.
ClaimAgain(r) ==
  /\ local_future[r] = "running"
  /\ st[r] = "RUNNING"
  /\ SendFrom(About(r, "RUNNING"))
  /\ UNCHANGED <<schedulerVars, recordVars, sessionVars, dispatchVars, poolVars,
                 shutdownVars, st, local_future, staged, view>>

\* External: the pool gives the future its outcome, also without having run it.
PoolSettles(r) ==
  /\ local_future[r] \in {"taken", "running"}
  /\ local_future' = [local_future EXCEPT ![r] = "done"]
  /\ UNCHANGED <<schedulerVars, recordVars, sessionVars, dispatchVars, poolVars,
                 shutdownVars, conn, st, staged, out, view>>

\* The callback of a done future: _pool_done.  A future that fails before its
\* job was claimed holds an exception of the pool.
PoolDone(r) ==
  /\ local_future[r] = "done"
  /\ r # hand
  /\ \E what \in IF st[r] = "RUNNING" THEN PoolOutcomes ELSE {"WORKER_LOST"} : Complete(r, what)
  /\ UNCHANGED <<schedulerVars, sessionVars, dispatchVars, poolVars, shutdownVars, view>>

-----------------------------------------------------------------------------
(* shutdown().                                                             *)

\* A server that has not started only remembers that it was told to stop.
Shutdown(a) ==
  /\ state # "STOPPED" /\ (state = "STOPPING" => ~ready)
  /\ IF state \in {"RUNNING", "DRAINING"}
     THEN /\ state' = "DRAINING"
          /\ shutdown_cancel' = (shutdown_cancel \/ a.cancel)
          /\ shutdown_deadline' = (shutdown_deadline \/ a.deadline)
          /\ shpc' = IF shpc = "none" THEN "drain" ELSE shpc
          /\ UNCHANGED <<ready, stopped>>
     ELSE /\ state' = IF state = "CREATED" THEN "STOPPED" ELSE "STOPPING"
          /\ ready' = (state = "CREATED")
          /\ stopped' = (state = "CREATED")
          /\ UNCHANGED <<shutdown_cancel, shutdown_deadline, shpc>>
  /\ UNCHANGED <<schedulerVars, recordVars, sessionVars, dispatchVars, poolVars, conn,
                 st, local_future, staged, out, view, serve, listening>>

ShutdownGoto(label, s) ==
  /\ shpc' = label
  /\ state' = s
  /\ UNCHANGED <<startVars, shutdown_cancel, shutdown_deadline>>

Queued == {r \in requests : st[r] = "ACCEPTED_QUEUED"}
Active == {r \in requests : st[r] \in Live}

EndBatch(T) ==
  LET m == Outcomes(T, "CANCELLED") IN
  /\ EndQueued(T, "CANCELLED", m)
  /\ SendFrom(m)

\* One round of _finish_shutdown with cancel_futures.
DrainCancels ==
  /\ shpc = "drain"
  /\ shutdown_cancel
  /\ Queued # {}
  /\ EndBatch(Queued)
  /\ UNCHANGED <<sessionVars, dispatchVars, poolVars, shutdownVars, view>>

\* The deadline: everything that has a future, or waits for one, ends.
DrainDeadline ==
  /\ shpc = "drain"
  /\ shutdown_deadline
  /\ Active # {}
  /\ EndBatch({r \in Active : st[r] = "ACCEPTED_QUEUED" \/ local_future[r] # "none"})
  /\ ShutdownGoto("bound", "STOPPING")
  /\ UNCHANGED <<sessionVars, dispatchVars, poolVars, view>>

\* Mutant of Drained: only the records that wait are waited for.
DrainedEarly ==
  /\ shpc = "drain"
  /\ Queued = {}
  /\ ShutdownGoto("bound", "STOPPING")
  /\ UNCHANGED <<schedulerVars, recordVars, sessionVars, dispatchVars, poolVars, conn,
                 st, local_future, staged, out, view>>

Drained ==
  /\ shpc = "drain"
  /\ Active = {}
  /\ ShutdownGoto("bound", "STOPPING")
  /\ UNCHANGED <<schedulerVars, recordVars, sessionVars, dispatchVars, poolVars, conn,
                 st, local_future, staged, out, view>>

\* _close_bound: the listeners and the sockets that are not connections yet.
CloseBound ==
  /\ shpc = "bound"
  /\ listening' = "closed"
  /\ conn' = [s \in Sessions |-> IF conn[s] = "raw" THEN "gone" ELSE conn[s]]
  /\ shpc' = "pool"
  /\ UNCHANGED <<schedulerVars, recordVars, sessionVars, dispatchVars, poolVars, state, ready,
                 stopped, serve, shutdown_cancel, shutdown_deadline, st,
                 local_future, staged, out, view>>

\* pool.shutdown(wait=True): closes the pool...
ClosePool ==
  /\ shpc = "pool"
  /\ pool_open' = FALSE
  /\ ShutdownGoto("join", state)
  /\ UNCHANGED <<schedulerVars, recordVars, sessionVars, dispatchVars, backlog, conn, st,
                 local_future, staged, out, view>>

\* ...and waits for its work.
PoolClosed ==
  /\ shpc = "join"
  /\ backlog = {}
  /\ \A r \in Items : local_future[r] \notin {"pooled", "taken", "running"}
  /\ ShutdownGoto("connections", state)
  /\ UNCHANGED <<schedulerVars, recordVars, sessionVars, dispatchVars, poolVars, conn,
                 st, local_future, staged, out, view>>

\* Flush, GOAWAY, flush, close; a flush may time out.
CloseConnection(s) ==
  /\ shpc = "connections"
  /\ conn[s] \in {"new", "open"}
  /\ conn' = [conn EXCEPT ![s] = IF @ = "new" THEN "shut" ELSE "closed"]
  /\ out' = [out EXCEPT ![s] = <<>>]
  /\ UNCHANGED <<schedulerVars, recordVars, sessionVars, dispatchVars, poolVars,
                 shutdownVars, st, local_future, staged, view>>

Stopped ==
  /\ shpc = "connections"
  /\ \A s \in Sessions : conn[s] \notin {"new", "open"}
  /\ shpc' = "done"
  /\ state' = "STOPPED"
  /\ stopped' = TRUE
  /\ UNCHANGED <<schedulerVars, recordVars, sessionVars, dispatchVars, poolVars, conn, ready,
                 serve, listening, shutdown_cancel, shutdown_deadline, st,
                 local_future, staged, out, view>>

-----------------------------------------------------------------------------
(* The specification.                                                      *)

Arrival(s) == Admit(s) \/ Prepare(s) \/ HandshakeFails(s) \/ Handshake(s)

ConnectionStep(s) ==
  \/ Accept(s) \/ Arrival(s) \/ Query(s) \/ CloseSession(s)
  \/ \E hard \in BOOLEAN : CancelGroup(s, hard)
  \/ ReaderEnds(s) \/ WriterFails(s) \/ Deliver(s) \/ Disconnect(s)

RequestStep(r) ==
  \/ Submit(r) \/ SubmitAgain(r) \/ Ack(r)
  \/ \E hard \in BOOLEAN : CancelRequest(r, hard)

DispatcherStep ==
  \/ \E r \in Items : Dispatch(r)
  \/ DispatcherExits \/ SubmitFuture \/ Restore \/ Attach \/ DispatchFails

PoolStep(r) == PoolTakes(r) \/ Claim(r) \/ ClaimExpired(r) \/ PoolSettles(r) \/ PoolDone(r)

ShutdownStep ==
  \/ DrainCancels \/ DrainDeadline \/ Drained
  \/ CloseBound \/ ClosePool \/ PoolClosed \/ Stopped
  \/ \E s \in Sessions : CloseConnection(s)

Next ==
  \/ Start \/ ServeStep
  \/ \E s \in Sessions : ConnectionStep(s)
  \/ DispatcherStep
  \/ \E r \in Items : RequestStep(r) \/ Expire(r) \/ PoolStep(r) \/ ClaimAgain(r)
  \/ \E a \in ShutdownArgs : Shutdown(a)
  \/ ShutdownStep

Spec == Init /\ [][Next]_vars

(***************************************************************************)
(* Fairness: the broker's own threads and the pool's are scheduled, every  *)
(* handshake ends (it has a deadline), and so does every execution (a task *)
(* returns, times out or loses its worker).                                *)
(* Nothing obliges a client to submit, acknowledge, cancel or disconnect.  *)
(***************************************************************************)
Fairness ==
  /\ WF_vars(ServeStep)
  /\ WF_vars(DispatcherStep)
  /\ \A r \in Items : WF_vars(PoolStep(r))
  /\ \A s \in Sessions : /\ WF_vars(Arrival(s))
                         /\ WF_vars(Disconnect(s))
                         /\ WF_vars(conn[s] = "closed" /\ ReaderEnds(s))
  /\ WF_vars(ShutdownStep)

FairSpec == Spec /\ Fairness

-----------------------------------------------------------------------------
(* Safety.                                                                 *)

\* No accepted request is lost between the broker's queue and the pool: a
\* queued record is in the scheduler or has a local future, never both, and
\* nothing else is in the scheduler, across cancellation, expiry, a full pool
\* and disconnects (811-894, 1035-1131).
NothingLost ==
  \A r \in Items :
    /\ IsQueued(r) => st[r] = "ACCEPTED_QUEUED" /\ local_future[r] = "none"
    /\ st[r] = "ACCEPTED_QUEUED" => IsQueued(r) \/ local_future[r] # "none"

\* _staged counts the local futures whose callback has not run, each exactly
\* once although four threads give slots back (854, 951, 1007), and stays within
\* max_staged_tasks; a slot that leaked would in the end stop the dispatcher.
StagedExactly ==
  /\ staged = Cardinality({r \in Items : local_future[r] \notin {"none", "called"}})
  /\ staged <= MaxStaged

\* Every record holds exactly one reservation until it is forgotten, and the
\* limits hold for the session, the principal and the server (731-749).
WithinLimits ==
  /\ requests = UNION {records[s] : s \in Sessions}
  /\ reserved_outcomes = Cardinality(requests)
  /\ reserved_outcomes <= MaxGlobal
  /\ \A s \in Sessions : reserved[s] = Cardinality(records[s]) /\ reserved[s] <= MaxPerSession
  /\ \A p \in Principals : Cardinality({r \in requests : PrincipalOf[r] = p}) <= MaxPerPrincipal

\* The server stops only when everything it accepted has an outcome (1327-1370).
ShutdownDrains == state \in {"STOPPING", "STOPPED"} => Active = {}

\* Once a connection's end has been dealt with, no outcome that nobody can
\* fetch is kept for it (1200-1235).
DisconnectReleases ==
  \A s \in Sessions : conn[s] = "gone" =>
    \A r \in records[s] : st[r] \in Live \/ local_future[r] = "done"

\* The first outcome is final: a late result, a second cancellation or a retry
\* after a broken pipe never replaces it, and never revives the request.
FirstOutcomeWins == [][\A r \in Items : st[r] \in Terminal => st'[r] = st[r]]_vars

\* The broker keeps the promise of RemoteService, on which the client is built:
\* whatever the dispatcher, the pool, the deadlines and other sessions do, every
\* change of a request is told to its session, truthfully and in order, and a
\* message is lost only together with the connection (157-183, 1035-1131).
Service ==
  INSTANCE RemoteService
  WITH Requests <- Items, Replies <- {"CONTROL"},
       up <- {s \in Sessions : conn[s] \notin {"shut", "closed", "lost", "gone"}}
KeepsPromise == Service!ServiceSpec

-----------------------------------------------------------------------------
(* Liveness.                                                               *)

\* Every accepted request reaches an outcome.
EveryRequestEnds == \A r \in Items : st[r] = "ACCEPTED_QUEUED" ~> st[r] \in Terminal

\* shutdown() ends, whatever is queued, staged or running, and also when it
\* comes while the server is still starting (292-405, 1277-1325).
ShutdownEnds == state \in {"DRAINING", "STOPPING"} ~> stopped

\* start() and wait_ready() end, whatever shutdown() does meanwhile.
StartReturns == state = "STARTING" ~> ready

\* A server that has stopped in the end holds nothing, although a socket may be
\* accepted, a connection registered or a handshake completed while it stops:
\* no pool, no listener and no connection (420-472, 580-612, 1369-1398).
StopReleases ==
  stopped ~> /\ ~pool_open
             /\ listening \notin {"bound", "open"}
             /\ \A s \in Sessions : conn[s] \in {"away", "gone"}

=============================================================================
