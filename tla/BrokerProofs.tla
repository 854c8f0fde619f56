---------------------------- MODULE BrokerProofs ----------------------------
(***************************************************************************)
(* Proofs about the remote server, for every number of sessions, requests  *)
(* and principals, every limit and every policy: no request is lost        *)
(* between the queue and the pool, slots and reservations are counted      *)
(* exactly, the first outcome is final, a server that stops has given      *)
(* every request an outcome, a client that is gone leaves nothing behind,  *)
(* and the server implements RemoteService, its promise to the client.     *)
(***************************************************************************)
EXTENDS Broker, FairSchedulerProofs

-----------------------------------------------------------------------------
(* The inductive invariant.                                                *)

\* The records are in both tables, and every request that has no outcome is.
RecordOK ==
  /\ st \in [Items -> Live \cup Terminal \cup {"UNSENT", "REJECTED"}]
  /\ records \in [Sessions -> SUBSET Items]
  /\ requests \in SUBSET Items
  /\ \A r \in requests : r \in records[SessionOf[r]] /\ st[r] \in Live \cup Terminal
  /\ \A s \in Sessions : \A r \in records[s] : SessionOf[r] = s /\ r \in requests
  /\ \A r \in Items : st[r] \in Live => r \in requests

OwnedBy(p) == {r \in requests : PrincipalOf[r] = p}
CountOK ==
  /\ reserved \in [Sessions -> Nat]
  /\ reserved_outcomes = Cardinality(requests) /\ Cardinality(requests) <= MaxGlobal
  /\ \A s \in Sessions : reserved[s] = Cardinality(records[s]) /\ Cardinality(records[s]) <= MaxPerSession
  /\ \A p \in Principals : Cardinality(OwnedBy(p)) <= MaxPerPrincipal

\* Where a request is, by the state of its future.
FutureOf(r) ==
  /\ st[r] = "RUNNING" => local_future[r] \in {"running", "done"}
  /\ local_future[r] = "called" => st[r] \in Terminal
  /\ local_future[r] = "made" => r = hand
  /\ st[r] \in {"UNSENT", "REJECTED"} => local_future[r] = "none"
  /\ r \in QueuedItems => st[r] = "ACCEPTED_QUEUED" /\ local_future[r] = "none"
  /\ st[r] = "ACCEPTED_QUEUED" => r \in QueuedItems \/ local_future[r] # "none"
FutureOK ==
  /\ local_future \in [Items -> FutureState]
  /\ \A r \in Items : FutureOf(r)

\* What the dispatcher has in hand, outside the lock.
HandOK ==
  /\ dpc \in {"none", "loop", "submit", "full", "failed", "attach", "exit"}
  /\ dpc \in {"none", "loop", "exit"} => hand = NoItem
  /\ dpc \in {"submit", "full", "failed"} =>
       /\ hand \in Items
       /\ local_future[hand] = "made" \/ (local_future[hand] = "done" /\ st[hand] \in Terminal)
  /\ dpc = "attach" => hand \in Items /\ local_future[hand] \in {"pooled", "taken", "running", "done"}

\* The futures that hold a slot.
Busy == {r \in Items : local_future[r] \notin {"none", "called"}}
StagedOK == staged = Cardinality(Busy) /\ Cardinality(Busy) <= MaxStaged

CoreInv ==
  /\ SchedulerTypeOK /\ Coherent
  /\ RecordOK /\ CountOK /\ FutureOK /\ HandOK /\ StagedOK

\* The rest of the types.  A message about a request reports a state of it.
Note == {m \in Message : m.of \in Items => m.what # "CONTROL"}
OtherTypes ==
  /\ state \in {"CREATED", "STARTING", "RUNNING", "DRAINING", "STOPPING", "STOPPED"}
  /\ conn \in [Sessions -> ConnState]
  /\ sessions \subseteq Sessions
  /\ clean_close \subseteq Sessions
  /\ watermark \in [Sessions -> Nat]
  /\ backlog \subseteq Items
  /\ pool_open \in BOOLEAN
  /\ out \in [Sessions -> Seq(Note)]
  /\ view \in [Items -> Live \cup Terminal \cup {"UNSENT", "REJECTED"}]
  /\ ready \in BOOLEAN /\ stopped \in BOOLEAN
  /\ serve \in {"none", "init", "build", "bind", "publish", "discard", "wait", "failed"}
  /\ listening \in {"none", "bound", "open", "closed"}
  /\ shpc \in {"none", "drain", "bound", "pool", "join", "connections", "done"}
  /\ shutdown_cancel \in BOOLEAN
  /\ shutdown_deadline \in BOOLEAN

\* A server that does not run has no request without an outcome, and the
\* dispatcher is there once the server has been published.
LifeInv ==
  /\ dpc # "none" => serve = "wait" /\ state # "CREATED"
  /\ state \notin {"RUNNING", "DRAINING"} => Active = {}
  /\ serve \in {"init", "build", "bind", "publish", "discard"} => state \notin {"RUNNING", "DRAINING"}
  /\ shpc \in {"bound", "pool", "join", "connections", "done"} => state \in {"STOPPING", "STOPPED"}

\* What is kept for a session: nothing before the handshake, nothing once it is
\* forgotten, and for a client that is gone only what still runs.
Early == {"away", "accepted", "raw", "new", "shut"}
Left(r) ==
  \/ st[r] = "RUNNING"
  \/ st[r] \in Terminal /\ local_future[r] = "done" /\ (r = hand => dpc = "attach")
SessionOK(s) ==
  /\ conn[s] \in Early => records[s] = {}
  /\ conn[s] = "open" => s \in sessions
  /\ s \notin sessions => records[s] = {}
  /\ s \in clean_close => \A r \in records[s] : st[r] \in Terminal
  /\ conn[s] = "gone" => \A r \in records[s] : Left(r)
ReleaseInv == \A s \in Sessions : SessionOK(s)

-----------------------------------------------------------------------------
(* Sets of requests.                                                       *)

LEMMA Finite ==
  /\ IsFiniteSet(Items)
  /\ \A T \in SUBSET Items : IsFiniteSet(T) /\ Cardinality(T) \in Nat
<1>1. IsFiniteSet(Items)
  BY SchedulerAssumption
<1>2. ASSUME NEW T \in SUBSET Items PROVE IsFiniteSet(T) /\ Cardinality(T) \in Nat
  BY <1>1, FS_Subset, FS_CardinalityType
<1>3. QED
  BY <1>1, <1>2

LEMMA Smaller ==
  ASSUME NEW T \in SUBSET Items, NEW S \in SUBSET T
  PROVE  Cardinality(S) <= Cardinality(T)
  BY Finite, FS_Subset

LEMMA OneMore ==
  ASSUME NEW T \in SUBSET Items, NEW r \in Items, r \notin T
  PROVE  Cardinality(T \cup {r}) = Cardinality(T) + 1
<1>1. IsFiniteSet(T)
  BY Finite
<1>2. QED
  BY <1>1, FS_AddElement

LEMMA Fewer ==
  ASSUME NEW T \in SUBSET Items, NEW S
  PROVE  /\ Cardinality(T \ S) = Cardinality(T) - Cardinality(T \cap S)
         /\ Cardinality(T \cap S) <= Cardinality(T)
<1>1. IsFiniteSet(T) /\ T \cap S \in SUBSET T /\ T \cap S \in SUBSET Items /\ T \ S = T \ (T \cap S)
  BY Finite
<1>2. Cardinality(T \ (T \cap S)) = Cardinality(T) - Cardinality(T \cap (T \cap S))
  BY <1>1, FS_Difference
<1>3. T \cap (T \cap S) = T \cap S
  OBVIOUS
<1>4. Cardinality(T \cap S) <= Cardinality(T)
  BY <1>1, Smaller
<1>5. QED
  BY <1>1, <1>2, <1>3, <1>4

\* The requests of a set can be put in the order of their numbers.
LEMMA OrderExists ==
  ASSUME NEW R \in SUBSET Items
  PROVE  /\ InOrder(R) \in [1 .. Cardinality(R) -> R]
         /\ \A i, j \in 1 .. Cardinality(R) : i < j => InOrder(R)[i] # InOrder(R)[j]
<1> DEFINE Sorted(q, n) == \A i, j \in 1 .. n : i < j => q[i] # q[j] /\ SequenceOf[q[i]] <= SequenceOf[q[j]]
           Good(n) == \A T \in SUBSET Items :
                        Cardinality(T) = n => \E q \in [1 .. n -> T] : Sorted(q, n)
           P == {n \in Nat : Good(n)}
<1>1. 0 \in P
  <2>1. ASSUME NEW T \in SUBSET Items PROVE \E q \in [1 .. 0 -> T] : Sorted(q, 0)
    <3>1. [i \in 1 .. 0 |-> i] \in [1 .. 0 -> T]
      OBVIOUS
    <3>2. \A q : Sorted(q, 0)
      OBVIOUS
    <3>3. QED
      BY <3>1, <3>2
  <2>2. QED
    BY <2>1
<1>2. ASSUME NEW n \in Nat, Good(n) PROVE Good(n + 1)
  <2> SUFFICES ASSUME NEW T \in SUBSET Items, Cardinality(T) = n + 1
               PROVE  \E q \in [1 .. n + 1 -> T] : Sorted(q, n + 1)
    OBVIOUS
  <2>0. IsFiniteSet(T) /\ T # {}
    BY Finite, FS_EmptySet
  <2>1. PICK r \in T : \A x \in T : SequenceOf[r] <= SequenceOf[x]
    <3> DEFINE N == {SequenceOf[x] : x \in T}
    <3>1. N \subseteq Nat /\ N # {}
      BY <2>0, BrokerAssumption
    <3>2. PICK m \in N : \A k \in N : m <= k
      <4> HIDE DEF N
      <4>1. QED
        BY <3>1, Least
    <3>3. QED
      BY <3>2
  <2>2. Cardinality(T \ {r}) = n /\ T \ {r} \in SUBSET Items
    BY <2>0, FS_RemoveElement, SMTT(30)
  <2>3. PICK q \in [1 .. n -> T \ {r}] : Sorted(q, n)
    BY <1>2, <2>2
  <2> DEFINE h == [i \in 1 .. n + 1 |-> IF i = 1 THEN r ELSE q[i - 1]]
  <2>4. h \in [1 .. n + 1 -> T]
    OBVIOUS
  <2>5. \A i \in 1 .. n + 1 : h[i] = IF i = 1 THEN r ELSE q[i - 1]
    OBVIOUS
  <2> HIDE DEF h
  <2>6. ASSUME NEW i \in 1 .. n + 1, NEW j \in 1 .. n + 1, i < j
        PROVE  h[i] # h[j] /\ SequenceOf[h[i]] <= SequenceOf[h[j]]
    <3>1. j - 1 \in 1 .. n /\ h[j] = q[j - 1] /\ h[j] \in T \ {r}
      BY <2>5, <2>6
    <3>2. CASE i = 1
      BY <2>1, <2>5, <3>1, <3>2
    <3>3. CASE i # 1
      <4>1. i - 1 \in 1 .. n /\ h[i] = q[i - 1] /\ i - 1 < j - 1
        BY <2>5, <2>6, <3>3
      <4>2. QED
        BY <2>3, <3>1, <4>1
    <3>4. QED
      BY <3>2, <3>3
  <2>7. QED
    BY <2>4, <2>6
<1>3. Cardinality(R) \in Nat
  BY Finite
<1>4. 0 .. Cardinality(R) \subseteq P
  <2> HIDE DEF Good
  <2>1. \A k \in 0 .. Cardinality(R) - 1 : k \in P => k + 1 \in P
    BY <1>2, <1>3
  <2> HIDE DEF P
  <2>2. QED
    BY <1>1, <1>3, <2>1, Induction
<1>5. Good(Cardinality(R))
  <2> HIDE DEF Good
  <2>1. QED
    BY <1>3, <1>4
<1>6. \E q \in [1 .. Cardinality(R) -> R] : Sorted(q, Cardinality(R))
  BY <1>5
<1>7. QED
  BY <1>6 DEF InOrder

-----------------------------------------------------------------------------
(* Messages.                                                               *)

Mail == [Sessions -> Seq(Note)]

LEMMA MailTypes ==
  /\ Nothing \in Mail
  /\ \A s \in Sessions : To(s, <<Control>>) \in Mail
  /\ \A r \in Items, what \in Live \cup Terminal \cup {"REJECTED"} : About(r, what) \in Mail
  /\ \A T \in SUBSET Items, what \in Terminal : Outcomes(T, what) \in Mail
  /\ \A m \in Mail, s \in Sessions : [m EXCEPT ![s] = Append(@, Control)] \in Mail
<1>0. <<>> \in Seq(Note) /\ Control \in Note
  BY BrokerAssumption DEF Note, Message, Control
<1>1. Nothing \in Mail
  BY <1>0 DEF Nothing, Mail
<1>2. ASSUME NEW s \in Sessions, NEW n \in Note PROVE To(s, <<n>>) \in Mail
  <2>1. <<n>> \in Seq(Note)
    OBVIOUS
  <2>2. QED
    BY <1>1, <2>1 DEF To, Mail
<1>3. ASSUME NEW r \in Items, NEW what \in Live \cup Terminal \cup {"REJECTED"} PROVE About(r, what) \in Mail
  <2>1. what # "CONTROL"
    BY DEF Live, Terminal
  <2>2. [of |-> r, what |-> what] \in Note
    BY <2>1 DEF Note, Message
  <2>3. SessionOf[r] \in Sessions
    BY BrokerAssumption
  <2>4. QED
    BY <1>2, <2>2, <2>3 DEF About
<1>4. ASSUME NEW T \in SUBSET Items, NEW what \in Terminal PROVE Outcomes(T, what) \in Mail
  <2>1. ASSUME NEW s \in Sessions
        PROVE  LET R == {r \in T : SessionOf[r] = s}
               IN  [i \in 1 .. Cardinality(R) |-> [of |-> InOrder(R)[i], what |-> what]] \in Seq(Note)
    <3> DEFINE R == {r \in T : SessionOf[r] = s}
    <3>1. R \in SUBSET Items
      OBVIOUS
    <3> HIDE DEF R
    <3>2. PICK n \in Nat : n = Cardinality(R)
      BY <3>1, Finite
    <3>3. PICK q \in [1 .. n -> R] : q = InOrder(R)
      BY <3>1, <3>2, OrderExists
    <3>4. what # "CONTROL"
      BY DEF Terminal
    <3>5. \A i \in 1 .. n : [of |-> q[i], what |-> what] \in Note
      BY <3>1, <3>4 DEF Note, Message
    <3>6. [i \in 1 .. n |-> [of |-> q[i], what |-> what]] \in Seq(Note)
      BY <3>5, SeqDef
    <3>7. QED
      BY <3>2, <3>3, <3>6 DEF R
  <2>2. QED
    BY <2>1 DEF Outcomes, Mail
<1>5. ASSUME NEW m \in Mail, NEW s \in Sessions PROVE [m EXCEPT ![s] = Append(@, Control)] \in Mail
  <2>1. Append(m[s], Control) \in Seq(Note)
    BY <1>0, AppendProperties DEF Mail
  <2>2. QED
    BY <2>1 DEF Mail
<1>6. QED
  BY <1>0, <1>1, <1>2, <1>3, <1>4, <1>5

LEMMA SendTypes ==
  ASSUME NEW m \in Mail, out \in Mail, conn \in [Sessions -> ConnState]
  PROVE  /\ Send(m) => out' \in Mail
         /\ SendFrom(m) => out' \in Mail /\ conn' \in [Sessions -> ConnState]
         /\ \A s : SendFromReader(s, m) => out' \in Mail /\ conn' \in [Sessions -> ConnState]
<1>1. ASSUME NEW s \in Sessions PROVE out[s] \o m[s] \in Seq(Note) /\ <<>> \in Seq(Note)
  BY ConcatProperties DEF Mail
<1>2. Send(m) => out' \in Mail
  BY <1>1 DEF Send, Mail
<1>3. QED
  BY <1>2 DEF SendFrom, SendFromReader, ConnState

-----------------------------------------------------------------------------
(* Records.                                                                *)

\* _remove_request_locked and _purge_session_locked, for records with outcomes.
LEMMA ForgetKeeps ==
  ASSUME RecordOK, CountOK, NEW R \in SUBSET requests, Forget(R),
         st' \in [Items -> Live \cup Terminal \cup {"UNSENT", "REJECTED"}],
         \A r \in requests : st'[r] \in Live \cup Terminal,
         \A r \in Items : st'[r] \in Live => st[r] \in Live,
         \A r \in R : st'[r] \in Terminal
  PROVE  RecordOK' /\ CountOK'
<1> DEFINE gone == {r \in R : SessionOf[r] \in sessions}
<1>0. /\ records' = [s \in Sessions |-> records[s] \ gone]
      /\ requests' = requests \ gone
      /\ reserved' = [s \in Sessions |-> reserved[s] - Cardinality(records[s] \cap gone)]
      /\ reserved_outcomes' = reserved_outcomes - Cardinality(requests \cap gone)
  BY DEF Forget
<1>1. gone \in SUBSET R
  OBVIOUS
<1> HIDE DEF gone
<1>2. \A r \in gone : st'[r] \notin Live
  BY <1>1 DEF Live, Terminal
<1>3. RecordOK'
  BY <1>0, <1>1, <1>2, BrokerAssumption DEF RecordOK
<1>4. requests \in SUBSET Items /\ \A s \in Sessions : records[s] \in SUBSET Items
  BY DEF RecordOK
<1>5. /\ Cardinality(requests \ gone) = Cardinality(requests) - Cardinality(requests \cap gone)
      /\ Cardinality(requests \ gone) <= Cardinality(requests)
  BY <1>4, Fewer, Smaller
<1>6. ASSUME NEW s \in Sessions
      PROVE  /\ reserved'[s] = Cardinality(records'[s]) /\ Cardinality(records'[s]) <= MaxPerSession
             /\ reserved'[s] \in Nat
  <2>1. /\ Cardinality(records[s] \ gone) = Cardinality(records[s]) - Cardinality(records[s] \cap gone)
        /\ Cardinality(records[s] \ gone) <= Cardinality(records[s])
        /\ Cardinality(records[s] \ gone) \in Nat /\ Cardinality(records[s]) \in Nat
    BY <1>4, Fewer, Smaller, Finite
  <2>2. reserved[s] = Cardinality(records[s]) /\ Cardinality(records[s]) <= MaxPerSession
    BY DEF CountOK
  <2>3. reserved'[s] = reserved[s] - Cardinality(records[s] \cap gone) /\ records'[s] = records[s] \ gone
    BY <1>0
  <2>4. MaxPerSession \in Nat
    BY BrokerAssumption
  <2>5. QED
    BY <2>1, <2>2, <2>3, <2>4
<1>7. reserved' \in [Sessions -> Nat]
  BY <1>0, <1>6
<1>8. ASSUME NEW p \in Principals PROVE Cardinality(OwnedBy(p)') <= MaxPerPrincipal
  <2>1. OwnedBy(p)' \in SUBSET OwnedBy(p) /\ OwnedBy(p) \in SUBSET Items
    BY <1>0, <1>4 DEF OwnedBy
  <2>2. Cardinality(OwnedBy(p)') \in Nat /\ Cardinality(OwnedBy(p)) \in Nat /\ MaxPerPrincipal \in Nat
    BY <2>1, Finite, BrokerAssumption
  <2>3. Cardinality(OwnedBy(p)') <= Cardinality(OwnedBy(p)) /\ Cardinality(OwnedBy(p)) <= MaxPerPrincipal
    BY <2>1, Smaller DEF CountOK
  <2>4. QED
    BY <2>2, <2>3
<1>9. reserved_outcomes' = Cardinality(requests') /\ Cardinality(requests') <= MaxGlobal
  <2>1. Cardinality(requests) \in Nat /\ Cardinality(requests \ gone) \in Nat /\ MaxGlobal \in Nat
    BY <1>4, Finite, BrokerAssumption
  <2>2. QED
    BY <1>0, <1>5, <2>1 DEF CountOK
<1>10. CountOK'
  BY <1>6, <1>7, <1>8, <1>9 DEF CountOK
<1>11. QED
  BY <1>3, <1>10

LEMMA PurgeKeeps ==
  ASSUME RecordOK, CountOK, NEW P \in SUBSET Sessions, Purge(P),
         st' \in [Items -> Live \cup Terminal \cup {"UNSENT", "REJECTED"}],
         \A r \in requests : st'[r] \in Live \cup Terminal,
         \A r \in Items : st'[r] \in Live => st[r] \in Live
  PROVE  RecordOK' /\ CountOK'
<1> DEFINE ended == {r \in UNION {records[s] : s \in P} : st'[r] \in Terminal}
<1>1. ended \in SUBSET requests /\ \A r \in ended : st'[r] \in Terminal
  BY DEF RecordOK
<1>2. Forget(ended)
  BY DEF Purge
<1> HIDE DEF ended
<1>3. QED
  BY <1>1, <1>2, ForgetKeeps

-----------------------------------------------------------------------------
(* The forms a step can take.                                              *)

AllInv == CoreInv /\ OtherTypes /\ LifeInv

\* A step that leaves the requests alone.
Quiet ==
  /\ UNCHANGED <<schedulerVars, records, requests, reserved, reserved_outcomes, st, local_future, staged, hand>>
  /\ dpc' = dpc \/ (dpc \in {"none", "loop"} /\ dpc' \in {"loop", "exit"})

\* A step that gives the requests T, which have none, an outcome.
Ends(T, what, P) ==
  /\ \A r \in T : st[r] \in Live
  /\ what = "CANCELLED" \/ (what = "QUEUE_TIMED_OUT" /\ \A r \in T : st[r] = "ACCEPTED_QUEUED")
  /\ RemoveAll(T) \/ (UNCHANGED schedulerVars /\ \A r \in T : local_future[r] # "none")
  /\ EndAs(T, what)
  /\ CancelFutures(T)
  /\ Purge(P)
  /\ \A r \in CalledBack(T) : conn[SessionOf[r]] # "open" => SessionOf[r] \in P
  /\ UNCHANGED dispatchVars
SomeEnd == \E T \in SUBSET requests, what \in Terminal, P \in SUBSET Sessions : Ends(T, what, P)

\* The callback of the future of r.
Calls(r, what, P) ==
  /\ local_future[r] \in {"made", "done"}
  /\ what = "WORKER_LOST" \/ (st[r] = "RUNNING" /\ what # "QUEUE_TIMED_OUT")
  /\ EndAs({r}, what)
  /\ local_future' = [local_future EXCEPT ![r] = "called"]
  /\ Unstage(1)
  /\ Purge(P)
  /\ conn[SessionOf[r]] # "open" => SessionOf[r] \in P
  /\ UNCHANGED schedulerVars
  /\ \/ r # hand /\ UNCHANGED dispatchVars
     \/ r = hand /\ dpc' = "loop" /\ hand' = NoItem
SomeCall == \E r \in Items, what \in Terminal, P \in SUBSET Sessions : Calls(r, what, P)

\* The steps of one request that are neither.
Single(r) ==
  \/ Submit(r) \/ Ack(r) \/ Dispatch(r) \/ PoolTakes(r) \/ Claim(r) \/ PoolSettles(r)
HandStep == SubmitFuture \/ Restore \/ Attach

LEMMA PurgedSessions ==
  ASSUME NEW T \in SUBSET Items, NEW m, NEW P \in PurgedByCallbacks(T, m)
  PROVE  /\ P \in SUBSET Sessions
         /\ P \subseteq ClosedAfter(m)
         /\ \A r \in CalledBack(T) : conn[SessionOf[r]] # "open" => SessionOf[r] \in P
<1>1. /\ P \in SUBSET {SessionOf[r] : r \in CalledBack(T)}
      /\ P \subseteq ClosedAfter(m)
      /\ {s \in Sessions : conn[s] # "open"} \cap {SessionOf[r] : r \in CalledBack(T)} \subseteq P
  BY DEF PurgedByCallbacks
<1>2. CalledBack(T) \subseteq Items
  BY DEF CalledBack, Unfinished
<1>3. \A r \in CalledBack(T) : SessionOf[r] \in Sessions
  BY <1>2, BrokerAssumption
<1>4. QED
  BY <1>1, <1>3

LEMMA EndQueuedForm ==
  ASSUME NEW T \in SUBSET Items, NEW what \in Terminal, NEW m, EndQueued(T, what, m),
         T \subseteq requests, \A r \in T : st[r] \in Live, UNCHANGED dispatchVars,
         what = "CANCELLED" \/ (what = "QUEUE_TIMED_OUT" /\ \A r \in T : st[r] = "ACCEPTED_QUEUED")
  PROVE  SomeEnd
<1>1. PICK P \in PurgedByCallbacks(T, m) : Purge(P)
  BY DEF EndQueued
<1>2. /\ P \in SUBSET Sessions
      /\ \A r \in CalledBack(T) : conn[SessionOf[r]] # "open" => SessionOf[r] \in P
  BY <1>1, PurgedSessions
<1>3. Ends(T, what, P)
  BY <1>1, <1>2 DEF EndQueued, Ends
<1>4. QED
  BY <1>2, <1>3 DEF SomeEnd

LEMMA EndForms ==
  ASSUME CoreInv
  PROVE  /\ \A s \in Sessions : \A R, hard : CancelRecords(s, R, hard) => SomeEnd
         /\ \A s \in Sessions : Disconnect(s) => SomeEnd
         /\ \A r \in Items : Expire(r) \/ ClaimExpired(r) => SomeEnd
         /\ DrainCancels \/ DrainDeadline => SomeEnd
<1>0. /\ requests \subseteq Items
      /\ \A s \in Sessions : records[s] \subseteq requests
      /\ \A r \in Items : st[r] \in Live => r \in requests
      /\ {"CANCELLED", "QUEUE_TIMED_OUT"} \subseteq Terminal
      /\ {"ACCEPTED_QUEUED", "RUNNING"} \subseteq Live
  BY DEF CoreInv, RecordOK, Terminal, Live
<1>1. ASSUME NEW s \in Sessions, NEW R, NEW hard, CancelRecords(s, R, hard) PROVE SomeEnd
  <2> DEFINE T == Cancellable(R \cap records[s], hard)
  <2>1. T \in SUBSET Items /\ T \subseteq requests /\ \A r \in T : st[r] \in Live
    BY <1>0 DEF Cancellable
  <2>2. EndQueued(T, "CANCELLED", Outcomes(T, "CANCELLED")) /\ UNCHANGED dispatchVars
    BY <1>1 DEF CancelRecords
  <2> HIDE DEF T
  <2>3. QED
    BY <1>0, <2>1, <2>2, EndQueuedForm
<1>2. ASSUME NEW s \in Sessions, Disconnect(s) PROVE SomeEnd
  <2> DEFINE drop == s \notin clean_close /\ Policy \in {"cancel_queued", "terminate"}
             T == {r \in records[s] :
                     /\ drop
                     /\ \/ st[r] = "ACCEPTED_QUEUED"
                        \/ /\ st[r] = "RUNNING"
                           /\ Policy = "terminate"
                           /\ local_future[r] # "none"}
  <2>1. T \in SUBSET requests /\ \A r \in T : st[r] \in Live /\ SessionOf[r] = s
    BY <1>0 DEF CoreInv, RecordOK
  <2>2. RemoveAll(T) /\ EndAs(T, "CANCELLED") /\ CancelFutures(T) /\ Purge({s}) /\ UNCHANGED dispatchVars
    BY <1>2 DEF Disconnect
  <2> HIDE DEF T
  <2>3. Ends(T, "CANCELLED", {s})
    BY <2>1, <2>2 DEF Ends, CalledBack, Unfinished
  <2>4. {s} \in SUBSET Sessions /\ "CANCELLED" \in Terminal
    BY <1>0
  <2>5. QED
    BY <2>1, <2>3, <2>4 DEF SomeEnd
<1>3. ASSUME NEW r \in Items, Expire(r) PROVE SomeEnd
  <2>1. /\ {r} \in SUBSET Items /\ {r} \subseteq requests
        /\ \A x \in {r} : st[x] \in Live /\ st[x] = "ACCEPTED_QUEUED"
    BY <1>0, <1>3 DEF Expire
  <2>2. QED
    BY <1>0, <1>3, <2>1, EndQueuedForm DEF Expire
<1>4. ASSUME NEW r \in Items, ClaimExpired(r) PROVE SomeEnd
  <2>1. /\ {r} \in SUBSET requests
        /\ \A x \in {r} : st[x] \in Live /\ st[x] = "ACCEPTED_QUEUED" /\ local_future[x] # "none"
    BY <1>0, <1>4 DEF ClaimExpired
  <2>2. PICK P \in PurgedByCallbacks({r}, About(r, "QUEUE_TIMED_OUT")) : Purge(P)
    BY <1>4 DEF ClaimExpired
  <2>3. {r} \in SUBSET Items
    OBVIOUS
  <2>4. /\ P \in SUBSET Sessions
        /\ \A x \in CalledBack({r}) : conn[SessionOf[x]] # "open" => SessionOf[x] \in P
    BY <2>2, <2>3, PurgedSessions
  <2>5. Ends({r}, "QUEUE_TIMED_OUT", P)
    BY <1>4, <2>1, <2>2, <2>4 DEF Ends, ClaimExpired
  <2>6. QED
    BY <1>0, <2>1, <2>4, <2>5 DEF SomeEnd
<1>5. ASSUME NEW T, T \subseteq Active, EndBatch(T), UNCHANGED dispatchVars PROVE SomeEnd
  <2>1. T \in SUBSET Items /\ T \subseteq requests /\ \A x \in T : st[x] \in Live
    BY <1>0, <1>5 DEF Active
  <2>2. QED
    BY <1>0, <1>5, <2>1, EndQueuedForm DEF EndBatch
<1>6. ASSUME DrainCancels PROVE SomeEnd
  <2>1. Queued \subseteq Active
    BY <1>0 DEF Queued, Active
  <2>2. QED
    BY <1>5, <1>6, <2>1 DEF DrainCancels
<1>7. ASSUME DrainDeadline PROVE SomeEnd
  <2> DEFINE T == {r \in Active : st[r] = "ACCEPTED_QUEUED" \/ local_future[r] # "none"}
  <2>1. T \subseteq Active /\ EndBatch(T) /\ UNCHANGED dispatchVars
    BY <1>7 DEF DrainDeadline
  <2> HIDE DEF T
  <2>2. QED
    BY <1>5, <2>1
<1>8. QED
  BY <1>1, <1>2, <1>3, <1>4, <1>6, <1>7

\* Every step has one of the forms.
LEMMA Forms ==
  ASSUME AllInv, [Next]_vars
  PROVE  \/ Quiet \/ SomeEnd \/ SomeCall \/ HandStep
         \/ \E r \in Items : Single(r)
<1> USE DEF AllInv
<1>1. CASE Start \/ ServeStep
  BY <1>1 DEF Start, ServeStep, ServeInit, ServeBuilds, ServeBinds, ServePublishes, ServeDiscards,
              StartFrame, Quiet, recordVars, LifeInv
<1>2. CASE \E s \in Sessions : ConnectionStep(s)
  <2> SUFFICES ASSUME NEW s \in Sessions, ConnectionStep(s) PROVE Quiet \/ SomeEnd
    BY <1>2
  <2>1. CASE Accept(s) \/ Admit(s) \/ Prepare(s) \/ HandshakeFails(s)
    BY <2>1 DEF Accept, Admit, Prepare, HandshakeFails, Connects, ConnectionFrame, Quiet, recordVars, dispatchVars
  <2>2. CASE Handshake(s)
    BY <2>2 DEF Handshake, Quiet, dispatchVars
  <2>3. CASE Query(s) \/ CloseSession(s)
    BY <2>3 DEF Query, Answers, CloseSession, Quiet, recordVars, dispatchVars
  <2>4. CASE ReaderEnds(s) \/ WriterFails(s) \/ Deliver(s)
    BY <2>4 DEF ReaderEnds, WriterFails, Deliver, Quiet, recordVars, dispatchVars
  <2>5. CASE \E hard \in BOOLEAN : CancelGroup(s, hard)
    BY <2>5, EndForms DEF CancelGroup
  <2>6. CASE Disconnect(s)
    BY <2>6, EndForms
  <2>7. QED
    BY <2>1, <2>2, <2>3, <2>4, <2>5, <2>6 DEF ConnectionStep, Arrival
<1>3. CASE DispatcherStep
  <2>1. CASE DispatchFails
    <3>1. hand \in Items /\ local_future[hand] \in {"made", "done"} /\ "WORKER_LOST" \in Terminal
      BY <2>1 DEF DispatchFails, CoreInv, HandOK, Terminal
    <3>2. PICK P : /\ P = {SessionOf[hand]} \cap ClosedAfter(IF st[hand] \in Terminal THEN Nothing ELSE About(hand, "WORKER_LOST"))
                   /\ Purge(P)
      BY <2>1 DEF DispatchFails, Complete
    <3>3. P \in SUBSET Sessions /\ (conn[SessionOf[hand]] # "open" => SessionOf[hand] \in P)
      BY <3>1, <3>2, BrokerAssumption DEF ClosedAfter
    <3>4. Calls(hand, "WORKER_LOST", P)
      BY <2>1, <3>1, <3>2, <3>3 DEF DispatchFails, Complete, Calls
    <3>5. QED
      BY <3>1, <3>3, <3>4 DEF SomeCall
  <2>2. CASE DispatcherExits
    BY <2>2 DEF DispatcherExits, DispatchFrame, Quiet, recordVars
  <2>3. QED
    BY <1>3, <2>1, <2>2 DEF DispatcherStep, Single, HandStep
<1>4. CASE \E r \in Items : RequestStep(r)
  <2> SUFFICES ASSUME NEW r \in Items, RequestStep(r) PROVE Quiet \/ SomeEnd \/ Single(r)
    BY <1>4
  <2>1. CASE SubmitAgain(r)
    BY <2>1 DEF SubmitAgain, Answers, Quiet, recordVars, dispatchVars
  <2>2. CASE \E hard \in BOOLEAN : CancelRequest(r, hard)
    <3>1. SessionOf[r] \in Sessions
      BY BrokerAssumption
    <3>2. QED
      BY <2>2, <3>1, EndForms DEF CancelRequest
  <2>3. QED
    BY <2>1, <2>2 DEF RequestStep, Single
<1>5. CASE \E r \in Items : Expire(r) \/ PoolStep(r) \/ ClaimAgain(r)
  <2> SUFFICES ASSUME NEW r \in Items, Expire(r) \/ PoolStep(r) \/ ClaimAgain(r)
               PROVE  Quiet \/ SomeEnd \/ SomeCall \/ Single(r)
    BY <1>5
  <2>1. CASE Expire(r) \/ ClaimExpired(r)
    BY <2>1, EndForms
  <2>2. CASE ClaimAgain(r)
    BY <2>2 DEF ClaimAgain, Quiet, recordVars, dispatchVars
  <2>3. CASE PoolDone(r)
    <3>1. PICK what \in Terminal :
            Complete(r, what) /\ (what = "WORKER_LOST" \/ (st[r] = "RUNNING" /\ what # "QUEUE_TIMED_OUT"))
      BY <2>3, BrokerAssumption DEF PoolDone, Terminal
    <3>2. PICK P : /\ P = {SessionOf[r]} \cap ClosedAfter(IF st[r] \in Terminal THEN Nothing ELSE About(r, what))
                   /\ Purge(P)
      BY <3>1 DEF Complete
    <3>3. P \in SUBSET Sessions /\ (conn[SessionOf[r]] # "open" => SessionOf[r] \in P)
      BY <3>2, BrokerAssumption DEF ClosedAfter
    <3>4. Calls(r, what, P)
      BY <2>3, <3>1, <3>2, <3>3 DEF PoolDone, Complete, Calls
    <3>5. QED
      BY <3>3, <3>4 DEF SomeCall
  <2>4. QED
    BY <2>1, <2>2, <2>3 DEF PoolStep, Single
<1>6. CASE \E a \in ShutdownArgs : Shutdown(a)
  BY <1>6 DEF Shutdown, Quiet, recordVars, dispatchVars
<1>7. CASE ShutdownStep
  <2>1. CASE DrainCancels \/ DrainDeadline
    BY <2>1, EndForms
  <2>2. CASE Drained \/ CloseBound \/ ClosePool \/ PoolClosed \/ Stopped
    BY <2>2 DEF Drained, CloseBound, ClosePool, PoolClosed, Stopped, Quiet, recordVars, dispatchVars
  <2>3. CASE \E s \in Sessions : CloseConnection(s)
    BY <2>3 DEF CloseConnection, Quiet, recordVars, dispatchVars
  <2>4. QED
    BY <1>7, <2>1, <2>2, <2>3 DEF ShutdownStep
<1>8. CASE UNCHANGED vars
  BY <1>8 DEF vars, Quiet, recordVars, dispatchVars
<1>9. QED
  BY <1>1, <1>2, <1>3, <1>4, <1>5, <1>6, <1>7, <1>8 DEF Next

-----------------------------------------------------------------------------
(* Every form of a step keeps the core of the invariant.                   *)

LEMMA QuietCore == CoreInv /\ Quiet => CoreInv'
<1> SUFFICES ASSUME CoreInv, Quiet PROVE CoreInv'
  OBVIOUS
<1>1. /\ principals' = principals /\ queued' = queued /\ heap' = heap /\ size' = size
      /\ records' = records /\ requests' = requests /\ reserved' = reserved
      /\ reserved_outcomes' = reserved_outcomes /\ st' = st /\ local_future' = local_future
      /\ staged' = staged /\ hand' = hand
  BY DEF Quiet, schedulerVars
<1>2. SchedulerTypeOK' /\ Coherent' /\ QueuedItems' = QueuedItems
  BY <1>1 DEF CoreInv, SchedulerTypeOK, Coherent, QueuedItems, IsQueued, QueueOf
<1>3. RecordOK' /\ CountOK'
  BY <1>1 DEF CoreInv, RecordOK, CountOK, OwnedBy
<1>4. FutureOK' /\ StagedOK'
  BY <1>1, <1>2 DEF CoreInv, FutureOK, FutureOf, StagedOK, Busy
<1>5. HandOK'
  BY <1>1 DEF CoreInv, HandOK, Quiet
<1>6. QED
  BY <1>2, <1>3, <1>4, <1>5 DEF CoreInv

LEMMA EndCore == CoreInv /\ SomeEnd => CoreInv'
<1> SUFFICES ASSUME CoreInv, NEW T \in SUBSET requests, NEW what \in Terminal,
                    NEW P \in SUBSET Sessions, Ends(T, what, P)
             PROVE  CoreInv'
  BY DEF SomeEnd
<1> USE DEF CoreInv
<1>0. T \in SUBSET Items /\ (\A r \in T : st[r] \in Live) /\ what \notin Live
  BY DEF RecordOK, Ends, Live, Terminal
<1>1. st' = [r \in Items |-> IF r \in T THEN what ELSE st[r]]
  BY <1>0 DEF Ends, EndAs, Live, Terminal
<1>2. /\ local_future' = [r \in Items |-> IF r \in CalledBack(T) THEN "called"
                                          ELSE IF r \in Unfinished(T) THEN "done"
                                          ELSE local_future[r]]
      /\ Unstage(Cardinality(CalledBack(T)))
      /\ hand' = hand /\ dpc' = dpc
  BY DEF Ends, CancelFutures, dispatchVars
<1>3. SchedulerTypeOK' /\ Coherent' /\ QueuedItems' = QueuedItems \ T
  <2>1. CASE RemoveAll(T)
    BY <1>0, <2>1, RemoveAllKeeps
  <2>2. CASE UNCHANGED schedulerVars /\ \A r \in T : local_future[r] # "none"
    <3>1. QueuedItems \cap T = {}
      BY <2>2 DEF FutureOK, FutureOf, QueuedItems
    <3>2. SchedulerTypeOK' /\ Coherent' /\ QueuedItems' = QueuedItems
      BY <2>2 DEF schedulerVars, SchedulerTypeOK, Coherent, QueuedItems, IsQueued, QueueOf
    <3>3. QED
      BY <3>1, <3>2
  <2>3. QED
    BY <2>1, <2>2 DEF Ends
<1>4. RecordOK' /\ CountOK'
  <2>1. st' \in [Items -> Live \cup Terminal \cup {"UNSENT", "REJECTED"}]
    BY <1>1 DEF RecordOK
  <2>2. \A r \in requests : st'[r] \in Live \cup Terminal
    BY <1>1 DEF RecordOK
  <2>3. \A r \in Items : st'[r] \in Live => st[r] \in Live
    BY <1>0, <1>1
  <2>4. QED
    BY <2>1, <2>2, <2>3, PurgeKeeps DEF Ends
<1>5. FutureOK'
  <2>1. local_future' \in [Items -> FutureState]
    BY <1>2 DEF FutureOK, FutureState
  <2>2. ASSUME NEW r \in Items PROVE FutureOf(r)'
    <3>0. FutureOf(r)
      BY DEF FutureOK
    <3>1. CASE r \in T
      <4>1. st'[r] = what /\ r \notin QueuedItems' /\ local_future'[r] # "made"
        BY <1>1, <1>2, <1>3, <3>1 DEF Unfinished
      <4>2. QED
        BY <4>1 DEF FutureOf, Terminal
    <3>2. CASE r \notin T
      <4>1. st'[r] = st[r] /\ local_future'[r] = local_future[r] /\ (r \in QueuedItems' <=> r \in QueuedItems)
        BY <1>1, <1>2, <1>3, <3>2 DEF Unfinished, CalledBack
      <4>2. QED
        BY <1>2, <3>0, <4>1 DEF FutureOf
    <3>3. QED
      BY <3>1, <3>2
  <2>3. QED
    BY <2>1, <2>2 DEF FutureOK
<1>6. HandOK'
  <2>1. ASSUME hand \in Items
        PROVE  \/ local_future'[hand] = local_future[hand] /\ st'[hand] = st[hand]
               \/ local_future'[hand] = "done" /\ st'[hand] \in Terminal
               \/ local_future'[hand] = local_future[hand] /\ st'[hand] \in Terminal
    BY <1>1, <1>2, <2>1 DEF CalledBack, Unfinished
  <2>2. ASSUME hand \in Items, local_future[hand] = "made"
        PROVE \/ local_future'[hand] = "made"
              \/ local_future'[hand] = "done" /\ st'[hand] \in Terminal
    BY <2>1, <2>2
  <2>3. QED
    BY <1>2, <2>1, <2>2 DEF HandOK
<1>7. StagedOK'
  <2> DEFINE C == CalledBack(T)
  <2>1. C \in SUBSET Busy /\ Busy \in SUBSET Items
    BY <1>0 DEF CalledBack, Unfinished, Busy
  <2>2. Busy' = Busy \ C
    BY <1>0, <1>2 DEF CalledBack, Unfinished, Busy
  <2> HIDE DEF C
  <2>3. /\ Cardinality(Busy \ C) = Cardinality(Busy) - Cardinality(Busy \cap C)
        /\ Cardinality(C) <= Cardinality(Busy) /\ Busy \cap C = C
        /\ Cardinality(C) \in Nat /\ Cardinality(Busy) \in Nat /\ MaxStaged \in Nat
    BY <2>1, Fewer, Smaller, Finite, BrokerAssumption
  <2>4. staged' = staged - Cardinality(C)
    BY <1>2, <2>3 DEF Unstage, StagedOK, C
  <2>5. QED
    BY <2>2, <2>3, <2>4 DEF StagedOK
<1>8. QED
  BY <1>3, <1>4, <1>5, <1>6, <1>7

LEMMA CallCore == CoreInv /\ SomeCall => CoreInv'
<1> SUFFICES ASSUME CoreInv, NEW r \in Items, NEW what \in Terminal,
                    NEW P \in SUBSET Sessions, Calls(r, what, P)
             PROVE  CoreInv'
  BY DEF SomeCall
<1> USE DEF CoreInv
<1>0. what \notin Live /\ what # "UNSENT" /\ what # "REJECTED"
  BY DEF Live, Terminal
<1>1. /\ st' = [x \in Items |-> IF x = r /\ st[x] \notin Terminal THEN what ELSE st[x]]
      /\ local_future' = [local_future EXCEPT ![r] = "called"]
      /\ local_future \in [Items -> FutureState]
      /\ local_future[r] \in {"made", "done"}
  BY DEF Calls, EndAs, FutureOK
<1>2. SchedulerTypeOK' /\ Coherent' /\ QueuedItems' = QueuedItems
  BY DEF Calls, schedulerVars, SchedulerTypeOK, Coherent, QueuedItems, IsQueued, QueueOf
<1>3. RecordOK' /\ CountOK'
  <2>1. st' \in [Items -> Live \cup Terminal \cup {"UNSENT", "REJECTED"}]
    BY <1>1 DEF RecordOK
  <2>2. \A x \in requests : st'[x] \in Live \cup Terminal
    BY <1>1 DEF RecordOK
  <2>3. \A x \in Items : st'[x] \in Live => st[x] \in Live
    BY <1>0, <1>1
  <2>4. QED
    BY <2>1, <2>2, <2>3, PurgeKeeps DEF Calls
<1>4. \A x \in Items \ {r} : st'[x] = st[x] /\ local_future'[x] = local_future[x]
  BY <1>1
<1>5. st'[r] \in Terminal /\ local_future'[r] = "called" /\ r \notin QueuedItems
  BY <1>1 DEF FutureOK, FutureOf
<1>6. FutureOK'
  <2>1. local_future' \in [Items -> FutureState]
    BY <1>1 DEF FutureState
  <2>2. ASSUME NEW x \in Items PROVE FutureOf(x)'
    <3>0. FutureOf(x)
      BY DEF FutureOK
    <3>1. CASE x = r
      BY <1>2, <1>5, <3>1 DEF FutureOf, Terminal
    <3>2. CASE x # r
      BY <1>2, <1>4, <3>0, <3>2 DEF FutureOf, Calls, dispatchVars
    <3>3. QED
      BY <3>1, <3>2
  <2>3. QED
    BY <2>1, <2>2 DEF FutureOK
<1>7. HandOK'
  <2>1. CASE r # hand /\ UNCHANGED dispatchVars
    BY <1>4, <2>1 DEF HandOK, dispatchVars
  <2>2. CASE r = hand /\ dpc' = "loop" /\ hand' = NoItem
    BY <2>2 DEF HandOK
  <2>3. QED
    BY <2>1, <2>2 DEF Calls
<1>8. StagedOK'
  <2>1. Busy \in SUBSET Items /\ r \in Busy /\ IsFiniteSet(Busy)
    BY <1>1, Finite DEF Busy
  <2>2. Busy' = Busy \ {r}
    BY <1>1 DEF Busy
  <2>3. Cardinality(Busy \ {r}) = Cardinality(Busy) - 1 /\ Cardinality(Busy) \in Nat
    BY <2>1, FS_RemoveElement, Finite
  <2>4. Cardinality(Busy) # 0
    BY <2>1, FS_EmptySet
  <2>5. staged' = staged - 1 /\ MaxStaged \in Nat
    BY <2>3, <2>4, BrokerAssumption DEF Calls, Unstage, StagedOK
  <2>6. QED
    BY <2>2, <2>3, <2>5 DEF StagedOK
<1>9. QED
  BY <1>2, <1>3, <1>6, <1>7, <1>8

LEMMA SchedulerSame ==
  ASSUME SchedulerTypeOK, Coherent, UNCHANGED schedulerVars
  PROVE  SchedulerTypeOK' /\ Coherent' /\ QueuedItems' = QueuedItems
  BY DEF schedulerVars, SchedulerTypeOK, Coherent, QueuedItems, IsQueued, QueueOf

LEMMA RecordsSame ==
  ASSUME RecordOK, CountOK, UNCHANGED <<records, requests, reserved, reserved_outcomes>>,
         st' \in [Items -> Live \cup Terminal \cup {"UNSENT", "REJECTED"}],
         \A r \in requests : st'[r] \in Live \cup Terminal,
         \A r \in Items : st'[r] \in Live => st[r] \in Live
  PROVE  RecordOK' /\ CountOK'
  BY DEF RecordOK, CountOK, OwnedBy

\* A step of one future that keeps its slot.
LEMMA FutureMoves ==
  ASSUME CoreInv, NEW r \in Items, UNCHANGED schedulerVars,
         UNCHANGED <<records, requests, reserved, reserved_outcomes, staged, hand>>,
         st' \in [Items -> Live \cup Terminal \cup {"UNSENT", "REJECTED"}],
         local_future' \in [Items -> FutureState],
         \A x \in Items \ {r} : st'[x] = st[x] /\ local_future'[x] = local_future[x],
         local_future[r] \notin {"none", "called"}, local_future'[r] \notin {"none", "called", "made"},
         st'[r] = st[r] \/ (st[r] \in Live /\ st'[r] = "RUNNING"),
         st'[r] = "RUNNING" => local_future'[r] \in {"running", "done"},
         HandOK'
  PROVE  CoreInv'
<1> USE DEF CoreInv
<1>1. SchedulerTypeOK' /\ Coherent' /\ QueuedItems' = QueuedItems
  BY SchedulerSame
<1>2. RecordOK' /\ CountOK'
  <2>1. \A x \in requests : st'[x] \in Live \cup Terminal
    BY DEF RecordOK, Live
  <2>2. \A x \in Items : st'[x] \in Live => st[x] \in Live
    OBVIOUS
  <2>3. QED
    BY <2>1, <2>2, RecordsSame
<1>3. FutureOf(r)'
  <2>1. FutureOf(r)
    BY DEF FutureOK
  <2>2. QED
    BY <1>1, <2>1 DEF FutureOf, Live
<1>4. ASSUME NEW x \in Items, x # r PROVE FutureOf(x)'
  <2>1. FutureOf(x)
    BY DEF FutureOK
  <2>2. QED
    BY <1>1, <1>4, <2>1 DEF FutureOf
<1>5. FutureOK'
  BY <1>3, <1>4 DEF FutureOK
<1>6. StagedOK'
  <2>1. Busy' = Busy
    BY DEF Busy
  <2>2. QED
    BY <2>1 DEF StagedOK
<1>7. QED
  BY <1>1, <1>2, <1>5, <1>6

LEMMA MovesCore ==
  ASSUME CoreInv
  PROVE  /\ \A r \in Items : PoolTakes(r) \/ Claim(r) \/ PoolSettles(r) => CoreInv'
         /\ SubmitFuture \/ Attach => CoreInv'
<1> USE DEF CoreInv
<1>0. /\ st \in [Items -> Live \cup Terminal \cup {"UNSENT", "REJECTED"}]
      /\ local_future \in [Items -> FutureState]
      /\ \A r \in Items : FutureOf(r)
  BY DEF RecordOK, FutureOK
<1>1. ASSUME NEW r \in Items, PoolTakes(r) PROVE CoreInv'
  <2>1. /\ local_future' = [local_future EXCEPT ![r] = IF @ = "pooled" THEN "taken" ELSE @]
        /\ st' = st /\ staged' = staged /\ hand' = hand /\ dpc' = dpc
        /\ UNCHANGED <<records, requests, reserved, reserved_outcomes>>
        /\ UNCHANGED schedulerVars
    BY <1>1 DEF PoolTakes, recordVars, dispatchVars
  <2>2. CASE local_future[r] = "pooled"
    <3>1. local_future' \in [Items -> FutureState] /\ local_future'[r] = "taken"
      BY <1>0, <2>1, <2>2 DEF FutureState
    <3>2. \A x \in Items \ {r} : st'[x] = st[x] /\ local_future'[x] = local_future[x]
      BY <1>0, <2>1
    <3>3. HandOK'
      BY <1>0, <2>1, <2>2, <3>1, <3>2 DEF HandOK
    <3>4. st'[r] # "RUNNING"
      BY <1>0, <2>1, <2>2 DEF FutureOf
    <3>5. QED
      BY <1>0, <2>1, <2>2, <3>1, <3>2, <3>3, <3>4, FutureMoves
  <2>3. CASE local_future[r] # "pooled"
    <3>1. local_future' = local_future
      BY <1>0, <2>1, <2>3
    <3>2. Quiet
      BY <2>1, <3>1 DEF Quiet
    <3>3. QED
      BY <3>2, QuietCore
  <2>4. QED
    BY <2>2, <2>3
<1>2. ASSUME NEW r \in Items, Claim(r) PROVE CoreInv'
  <2>1. /\ local_future[r] = "taken" /\ st[r] = "ACCEPTED_QUEUED"
        /\ local_future' = [local_future EXCEPT ![r] = "running"]
        /\ st' = [st EXCEPT ![r] = "RUNNING"]
        /\ staged' = staged /\ hand' = hand /\ dpc' = dpc
        /\ UNCHANGED <<records, requests, reserved, reserved_outcomes>>
        /\ UNCHANGED schedulerVars
    BY <1>2 DEF Claim, recordVars, dispatchVars
  <2>2. /\ local_future' \in [Items -> FutureState] /\ local_future'[r] = "running"
        /\ st' \in [Items -> Live \cup Terminal \cup {"UNSENT", "REJECTED"}] /\ st'[r] = "RUNNING"
        /\ st[r] \in Live
    BY <1>0, <2>1 DEF FutureState, Live
  <2>3. \A x \in Items \ {r} : st'[x] = st[x] /\ local_future'[x] = local_future[x]
    BY <1>0, <2>1
  <2>4. HandOK'
    BY <1>0, <2>1, <2>2, <2>3 DEF HandOK
  <2>5. QED
    BY <1>0, <2>1, <2>2, <2>3, <2>4, FutureMoves
<1>3. ASSUME NEW r \in Items, PoolSettles(r) PROVE CoreInv'
  <2>1. /\ local_future[r] \in {"taken", "running"}
        /\ local_future' = [local_future EXCEPT ![r] = "done"]
        /\ st' = st /\ staged' = staged /\ hand' = hand /\ dpc' = dpc
        /\ UNCHANGED <<records, requests, reserved, reserved_outcomes>>
        /\ UNCHANGED schedulerVars
    BY <1>3 DEF PoolSettles, recordVars, dispatchVars
  <2>2. local_future' \in [Items -> FutureState] /\ local_future'[r] = "done"
    BY <1>0, <2>1 DEF FutureState
  <2>3. \A x \in Items \ {r} : st'[x] = st[x] /\ local_future'[x] = local_future[x]
    BY <1>0, <2>1
  <2>4. HandOK'
    BY <1>0, <2>1, <2>2, <2>3 DEF HandOK
  <2>5. QED
    BY <1>0, <2>1, <2>2, <2>3, <2>4, FutureMoves
<1>4. ASSUME SubmitFuture PROVE CoreInv'
  <2>1. /\ dpc = "submit" /\ hand \in Items
        /\ local_future[hand] = "made" \/ (local_future[hand] = "done" /\ st[hand] \in Terminal)
        /\ dpc' \in {"attach", "full", "failed"}
        /\ st' = st /\ staged' = staged /\ hand' = hand
        /\ UNCHANGED <<records, requests, reserved, reserved_outcomes>>
        /\ UNCHANGED schedulerVars
    BY <1>4 DEF SubmitFuture, HandOK, recordVars
  <2>2. PICK r \in Items : r = hand
    BY <2>1
  <2>3. \/ /\ local_future' = [local_future EXCEPT ![r] = IF @ = "made" THEN "pooled" ELSE @]
           /\ dpc' = "attach"
        \/ local_future' = local_future /\ dpc' \in {"full", "failed"}
    BY <1>4, <2>2 DEF SubmitFuture
  <2>4. CASE local_future' = local_future /\ dpc' \in {"full", "failed"}
    <3>1. SchedulerTypeOK' /\ Coherent' /\ QueuedItems' = QueuedItems
      BY <2>1, SchedulerSame
    <3>2. RecordOK' /\ CountOK'
      BY <2>1 DEF RecordOK, CountOK, OwnedBy
    <3>3. FutureOK' /\ StagedOK'
      BY <1>0, <2>1, <2>4, <3>1 DEF FutureOK, FutureOf, StagedOK, Busy
    <3>4. HandOK'
      BY <2>1, <2>4 DEF HandOK
    <3>5. QED
      BY <3>1, <3>2, <3>3, <3>4
  <2>5. CASE /\ local_future' = [local_future EXCEPT ![r] = IF @ = "made" THEN "pooled" ELSE @]
             /\ dpc' = "attach"
    <3>1. local_future' \in [Items -> FutureState] /\ local_future'[r] \in {"pooled", "done"}
      BY <1>0, <2>1, <2>2, <2>5 DEF FutureState
    <3>2. \A x \in Items \ {r} : st'[x] = st[x] /\ local_future'[x] = local_future[x]
      BY <1>0, <2>1, <2>5
    <3>3. HandOK'
      BY <2>1, <2>2, <2>5, <3>1 DEF HandOK
    <3>4. st'[r] # "RUNNING" /\ local_future[r] \notin {"none", "called"}
      BY <1>0, <2>1, <2>2 DEF FutureOf, Terminal
    <3>5. QED
      BY <1>0, <2>1, <3>1, <3>2, <3>3, <3>4, FutureMoves
  <2>6. QED
    BY <2>3, <2>4, <2>5
<1>5. ASSUME Attach PROVE CoreInv'
  <2>1. /\ dpc = "attach" /\ dpc' = "loop" /\ hand' = NoItem
        /\ hand \in Items /\ local_future[hand] # "made"
        /\ local_future' = local_future /\ st' = st /\ staged' = staged
        /\ UNCHANGED <<records, requests, reserved, reserved_outcomes>>
        /\ UNCHANGED schedulerVars
    BY <1>5 DEF Attach, HandOK, recordVars
  <2>2. SchedulerTypeOK' /\ Coherent' /\ QueuedItems' = QueuedItems
    BY <2>1, SchedulerSame
  <2>3. RecordOK' /\ CountOK'
    BY <2>1 DEF RecordOK, CountOK, OwnedBy
  <2>4. FutureOK' /\ StagedOK'
    BY <1>0, <2>1, <2>2 DEF FutureOK, FutureOf, StagedOK, Busy
  <2>5. HandOK'
    BY <2>1 DEF HandOK
  <2>6. QED
    BY <2>2, <2>3, <2>4, <2>5
<1>6. QED
  BY <1>1, <1>2, <1>3, <1>4, <1>5

LEMMA DispatchCore == \A r \in Items : CoreInv /\ Dispatch(r) => CoreInv'
<1> SUFFICES ASSUME NEW r \in Items, CoreInv, Dispatch(r) PROVE CoreInv'
  OBVIOUS
<1> USE DEF CoreInv
<1>0. /\ local_future \in [Items -> FutureState]
      /\ \A x \in Items : FutureOf(x)
      /\ dpc = "loop" /\ hand = NoItem /\ staged < MaxStaged /\ NoItem \notin Items
  BY BrokerAssumption DEF FutureOK, Dispatch, HandOK
<1>1. /\ SchedulerTypeOK' /\ Coherent' /\ QueuedItems' = QueuedItems \ {r}
      /\ r \in QueuedItems
  BY PopKeeps DEF Dispatch, QueuedItems
<1>2. st[r] = "ACCEPTED_QUEUED" /\ local_future[r] = "none"
  BY <1>0, <1>1 DEF FutureOf
<1>3. /\ local_future' = [local_future EXCEPT ![r] = "made"]
      /\ staged' = staged + 1 /\ dpc' = "submit" /\ hand' = r
      /\ st' = st /\ UNCHANGED <<records, requests, reserved, reserved_outcomes>>
  BY <1>2 DEF Dispatch, recordVars
<1>4. RecordOK' /\ CountOK'
  BY <1>3 DEF RecordOK, CountOK, OwnedBy
<1>5. FutureOK'
  <2>1. local_future' \in [Items -> FutureState]
    BY <1>0, <1>3 DEF FutureState
  <2>2. FutureOf(r)'
    BY <1>0, <1>1, <1>2, <1>3 DEF FutureOf
  <2>3. ASSUME NEW x \in Items, x # r PROVE FutureOf(x)'
    <3>1. FutureOf(x) /\ local_future'[x] = local_future[x] /\ st'[x] = st[x]
      BY <1>0, <1>3, <2>3
    <3>2. local_future[x] # "made"
      BY <1>0, <3>1 DEF FutureOf
    <3>3. x \in QueuedItems' <=> x \in QueuedItems
      BY <1>1, <2>3
    <3>4. QED
      BY <3>1, <3>2, <3>3 DEF FutureOf
  <2>4. QED
    BY <2>1, <2>2, <2>3 DEF FutureOK
<1>6. HandOK'
  BY <1>0, <1>3 DEF HandOK
<1>7. StagedOK'
  <2>1. Busy \in SUBSET Items /\ r \notin Busy /\ Busy' = Busy \cup {r}
    BY <1>0, <1>2, <1>3 DEF Busy
  <2>2. Cardinality(Busy') = Cardinality(Busy) + 1 /\ Cardinality(Busy) \in Nat /\ MaxStaged \in Nat
    BY <2>1, OneMore, Finite, BrokerAssumption
  <2>3. QED
    BY <1>0, <1>3, <2>2 DEF StagedOK
<1>8. QED
  BY <1>1, <1>4, <1>5, <1>6, <1>7

LEMMA RestoreCore == CoreInv /\ Restore => CoreInv'
<1> SUFFICES ASSUME CoreInv, Restore PROVE CoreInv'
  OBVIOUS
<1> USE DEF CoreInv
<1>0. /\ local_future \in [Items -> FutureState]
      /\ \A x \in Items : FutureOf(x)
      /\ hand \in Items
      /\ local_future[hand] = "made" \/ (local_future[hand] = "done" /\ st[hand] \in Terminal)
  BY DEF FutureOK, Restore, HandOK
<1>1. PICK r \in Items : r = hand
  BY <1>0
<1>2. /\ local_future' = [local_future EXCEPT ![r] = "none"]
      /\ staged' = staged - 1 /\ dpc' = "loop" /\ hand' = NoItem
      /\ st' = st /\ UNCHANGED <<records, requests, reserved, reserved_outcomes>>
  BY <1>1 DEF Restore, recordVars
<1>3. r \notin QueuedItems /\ ~IsQueued(r) /\ st[r] \notin {"RUNNING", "UNSENT", "REJECTED"}
  BY <1>0, <1>1 DEF FutureOf, QueuedItems, Terminal
<1>4. /\ SchedulerTypeOK' /\ Coherent'
      /\ QueuedItems' = IF st[r] = "ACCEPTED_QUEUED" THEN QueuedItems \cup {r} ELSE QueuedItems
  <2>1. CASE st[r] = "ACCEPTED_QUEUED"
    <3>1. Enqueue(r, TRUE)
      BY <1>1, <2>1 DEF Restore
    <3>2. QED
      BY <1>3, <2>1, <3>1, EnqueueKeeps
  <2>2. CASE st[r] # "ACCEPTED_QUEUED"
    <3>1. UNCHANGED schedulerVars
      BY <1>1, <2>2 DEF Restore
    <3>2. QED
      BY <2>2, <3>1, SchedulerSame
  <2>3. QED
    BY <2>1, <2>2
<1>5. RecordOK' /\ CountOK'
  BY <1>2 DEF RecordOK, CountOK, OwnedBy
<1>6. FutureOK'
  <2>1. local_future' \in [Items -> FutureState]
    BY <1>0, <1>2 DEF FutureState
  <2>2. FutureOf(r)'
    BY <1>0, <1>2, <1>3, <1>4 DEF FutureOf
  <2>3. ASSUME NEW x \in Items, x # r PROVE FutureOf(x)'
    <3>1. FutureOf(x) /\ local_future'[x] = local_future[x] /\ st'[x] = st[x]
      BY <1>0, <1>2, <2>3
    <3>2. local_future[x] # "made"
      BY <1>1, <2>3, <3>1 DEF FutureOf
    <3>3. x \in QueuedItems' <=> x \in QueuedItems
      BY <1>4, <2>3
    <3>4. QED
      BY <3>1, <3>2, <3>3 DEF FutureOf
  <2>4. QED
    BY <2>1, <2>2, <2>3 DEF FutureOK
<1>7. HandOK'
  BY <1>2 DEF HandOK
<1>8. StagedOK'
  <2>1. Busy \in SUBSET Items /\ r \in Busy /\ Busy' = Busy \ {r} /\ IsFiniteSet(Busy)
    BY <1>0, <1>1, <1>2, Finite DEF Busy
  <2>2. Cardinality(Busy') = Cardinality(Busy) - 1 /\ Cardinality(Busy) \in Nat /\ MaxStaged \in Nat
    BY <2>1, FS_RemoveElement, Finite, BrokerAssumption
  <2>3. QED
    BY <1>2, <2>2 DEF StagedOK
<1>9. QED
  BY <1>4, <1>5, <1>6, <1>7, <1>8

LEMMA AckCore == \A r \in Items : CoreInv /\ Ack(r) => CoreInv'
<1> SUFFICES ASSUME NEW r \in Items, CoreInv, Ack(r) PROVE CoreInv'
  OBVIOUS
<1> USE DEF CoreInv
<1>1. /\ st' = st /\ local_future' = local_future /\ staged' = staged /\ hand' = hand /\ dpc' = dpc
      /\ UNCHANGED schedulerVars /\ Forget({r}) /\ st[r] \in Terminal
      /\ r \in records[SessionOf[r]]
  BY DEF Ack, dispatchVars
<1>2. SchedulerTypeOK' /\ Coherent' /\ QueuedItems' = QueuedItems
  BY <1>1, SchedulerSame
<1>3. RecordOK' /\ CountOK'
  <2>1. {r} \in SUBSET requests
    BY <1>1, BrokerAssumption DEF RecordOK
  <2>2. /\ st' \in [Items -> Live \cup Terminal \cup {"UNSENT", "REJECTED"}]
        /\ \A x \in requests : st'[x] \in Live \cup Terminal
        /\ \A x \in Items : st'[x] \in Live => st[x] \in Live
        /\ \A x \in {r} : st'[x] \in Terminal
    BY <1>1 DEF RecordOK
  <2>3. QED
    BY <1>1, <2>1, <2>2, ForgetKeeps
<1>4. FutureOK' /\ StagedOK' /\ HandOK'
  BY <1>1, <1>2 DEF FutureOK, FutureOf, StagedOK, Busy, HandOK
<1>5. QED
  BY <1>2, <1>3, <1>4

LEMMA SubmitCore == \A r \in Items : CoreInv /\ Submit(r) => CoreInv'
<1> SUFFICES ASSUME NEW r \in Items, CoreInv, Submit(r) PROVE CoreInv'
  OBVIOUS
<1> USE DEF CoreInv
<1> DEFINE s == SessionOf[r]
<1>0. /\ st \in [Items -> Live \cup Terminal \cup {"UNSENT", "REJECTED"}]
      /\ \A x \in Items : FutureOf(x)
      /\ st[r] = "UNSENT" /\ s \in Sessions
      /\ local_future' = local_future /\ staged' = staged /\ hand' = hand /\ dpc' = dpc
  BY BrokerAssumption DEF Submit, RecordOK, FutureOK, dispatchVars
<1>1. local_future[r] = "none" /\ r \notin QueuedItems /\ ~IsQueued(r) /\ r \notin requests
  BY <1>0 DEF FutureOf, QueuedItems, RecordOK, Live, Terminal
<1>2. StagedOK'
  BY <1>0 DEF StagedOK, Busy
<1>3. CASE st' = [st EXCEPT ![r] = "REJECTED"]
           /\ UNCHANGED schedulerVars /\ UNCHANGED <<records, requests, reserved, reserved_outcomes>>
  <2>1. SchedulerTypeOK' /\ Coherent' /\ QueuedItems' = QueuedItems
    BY <1>3, SchedulerSame
  <2>2. /\ st' \in [Items -> Live \cup Terminal \cup {"UNSENT", "REJECTED"}]
        /\ st'[r] = "REJECTED" /\ \A x \in Items \ {r} : st'[x] = st[x]
    BY <1>0, <1>3
  <2>3. RecordOK' /\ CountOK'
    <3>1. \A x \in requests : st'[x] \in Live \cup Terminal
      BY <1>1, <2>2 DEF RecordOK
    <3>2. \A x \in Items : st'[x] \in Live => st[x] \in Live
      BY <2>2 DEF Live
    <3>3. QED
      BY <1>3, <2>2, <3>1, <3>2, RecordsSame
  <2>4. FutureOK'
    <3>1. FutureOf(r)'
      BY <1>0, <1>1, <2>1, <2>2 DEF FutureOf
    <3>2. ASSUME NEW x \in Items, x # r PROVE FutureOf(x)'
      BY <1>0, <2>1, <2>2, <3>2 DEF FutureOf
    <3>3. QED
      BY <1>0, <3>1, <3>2 DEF FutureOK
  <2>5. HandOK'
    <3>1. hand # r \/ dpc \notin {"submit", "full", "failed", "attach"}
      BY <1>1 DEF HandOK
    <3>2. QED
      BY <1>0, <2>2, <3>1 DEF HandOK
  <2>6. QED
    BY <1>2, <2>1, <2>3, <2>4, <2>5
<1>4. CASE /\ ~QueueFull(s)
           /\ records' = [records EXCEPT ![s] = @ \cup {r}]
           /\ requests' = requests \cup {r}
           /\ reserved' = [reserved EXCEPT ![s] = @ + 1]
           /\ reserved_outcomes' = reserved_outcomes + 1
           /\ Enqueue(r, FALSE)
           /\ st' = [st EXCEPT ![r] = "ACCEPTED_QUEUED"]
  <2>1. SchedulerTypeOK' /\ Coherent' /\ QueuedItems' = QueuedItems \cup {r}
    BY <1>1, <1>4, EnqueueKeeps
  <2>2. /\ st' \in [Items -> Live \cup Terminal \cup {"UNSENT", "REJECTED"}]
        /\ st'[r] = "ACCEPTED_QUEUED" /\ \A x \in Items \ {r} : st'[x] = st[x]
    BY <1>0, <1>4 DEF Live
  <2>3. /\ records \in [Sessions -> SUBSET Items] /\ requests \in SUBSET Items
        /\ \A x \in Sessions : \A y \in records[x] : SessionOf[y] = x /\ y \in requests
    BY DEF RecordOK
  <2>4. /\ records' \in [Sessions -> SUBSET Items]
        /\ records'[s] = records[s] \cup {r}
        /\ \A x \in Sessions \ {s} : records'[x] = records[x]
    BY <1>0, <1>4, <2>3
  <2>5. RecordOK'
    <3>1. \A x \in requests' : x \in records'[SessionOf[x]] /\ st'[x] \in Live \cup Terminal
      BY <1>0, <1>4, <2>2, <2>3, <2>4, BrokerAssumption DEF RecordOK, Live
    <3>2. \A x \in Sessions : \A y \in records'[x] : SessionOf[y] = x /\ y \in requests'
      BY <1>0, <1>4, <2>3, <2>4
    <3>3. \A x \in Items : st'[x] \in Live => x \in requests'
      BY <1>4, <2>2 DEF RecordOK
    <3>4. QED
      BY <1>4, <2>2, <2>3, <2>4, <3>1, <3>2, <3>3 DEF RecordOK
  <2>6. CountOK'
    <3>0. /\ MaxGlobal \in Nat /\ MaxPerSession \in Nat /\ MaxPerPrincipal \in Nat
          /\ PrincipalOf[r] = OwnerOf[s]
      BY BrokerAssumption
    <3>1. Cardinality(requests') = Cardinality(requests) + 1 /\ Cardinality(requests) \in Nat
      BY <1>1, <1>4, <2>3, OneMore, Finite
    <3>2. Cardinality(records'[s]) = Cardinality(records[s]) + 1 /\ Cardinality(records[s]) \in Nat
      <4>1. r \notin records[s] /\ records[s] \in SUBSET Items
        BY <1>0, <1>1, <2>3
      <4>2. QED
        BY <2>4, <4>1, OneMore, Finite
    <3>3. ASSUME NEW p \in Principals PROVE Cardinality(OwnedBy(p)') <= MaxPerPrincipal
      <4>1. OwnedBy(p) \in SUBSET Items /\ r \notin OwnedBy(p) /\ Cardinality(OwnedBy(p)) <= MaxPerPrincipal
        BY <1>1, <2>3 DEF OwnedBy, CountOK
      <4>2. Cardinality(OwnedBy(p) \cup {r}) = Cardinality(OwnedBy(p)) + 1 /\ Cardinality(OwnedBy(p)) \in Nat
        BY <4>1, OneMore, Finite
      <4>3. CASE p = PrincipalOf[r]
        <5>1. OwnedBy(p)' = OwnedBy(p) \cup {r}
          BY <1>4, <4>3 DEF OwnedBy
        <5>2. ~(Cardinality(OwnedBy(p)) >= MaxPerPrincipal)
          BY <1>4, <3>0, <4>3 DEF QueueFull, OwnedBy
        <5>3. QED
          BY <3>0, <4>2, <5>1, <5>2
      <4>4. CASE p # PrincipalOf[r]
        <5>1. OwnedBy(p)' = OwnedBy(p)
          BY <1>4, <4>4 DEF OwnedBy
        <5>2. QED
          BY <4>1, <5>1
      <4>5. QED
        BY <4>3, <4>4
    <3>4. /\ ~(Cardinality(records[s]) >= MaxPerSession) /\ ~(Cardinality(requests) >= MaxGlobal)
      BY <1>4 DEF QueueFull
    <3>5. /\ reserved' \in [Sessions -> Nat]
          /\ \A x \in Sessions : reserved'[x] = Cardinality(records'[x]) /\ Cardinality(records'[x]) <= MaxPerSession
      <4>1. reserved \in [Sessions -> Nat] /\ \A x \in Sessions : reserved[x] = Cardinality(records[x]) /\ Cardinality(records[x]) <= MaxPerSession
        BY DEF CountOK
      <4>2. reserved' \in [Sessions -> Nat] /\ reserved'[s] = reserved[s] + 1 /\ \A x \in Sessions \ {s} : reserved'[x] = reserved[x]
        BY <1>0, <1>4, <4>1
      <4>3. reserved'[s] = Cardinality(records'[s]) /\ Cardinality(records'[s]) <= MaxPerSession
        BY <1>0, <3>0, <3>2, <3>4, <4>1, <4>2
      <4>4. ASSUME NEW x \in Sessions, x # s
            PROVE  reserved'[x] = Cardinality(records'[x]) /\ Cardinality(records'[x]) <= MaxPerSession
        BY <2>4, <4>1, <4>2, <4>4
      <4>5. QED
        BY <4>2, <4>3, <4>4
    <3>6. reserved_outcomes' = Cardinality(requests') /\ Cardinality(requests') <= MaxGlobal
      BY <1>4, <3>0, <3>1, <3>4 DEF CountOK
    <3>7. QED
      BY <3>3, <3>5, <3>6 DEF CountOK
  <2>7. FutureOK'
    <3>1. FutureOf(r)'
      BY <1>0, <1>1, <2>1, <2>2 DEF FutureOf
    <3>2. ASSUME NEW x \in Items, x # r PROVE FutureOf(x)'
      BY <1>0, <2>1, <2>2, <3>2 DEF FutureOf
    <3>3. QED
      BY <1>0, <3>1, <3>2 DEF FutureOK
  <2>8. HandOK'
    <3>1. hand # r \/ dpc \notin {"submit", "full", "failed", "attach"}
      BY <1>1 DEF HandOK
    <3>2. QED
      BY <1>0, <2>2, <3>1 DEF HandOK
  <2>9. QED
    BY <1>2, <2>1, <2>5, <2>6, <2>7, <2>8
<1>5. QED
  BY <1>3, <1>4 DEF Submit

LEMMA CoreKept == AllInv /\ [Next]_vars => CoreInv'
  BY Forms, QuietCore, EndCore, CallCore, MovesCore, DispatchCore, RestoreCore, AckCore, SubmitCore
  DEF AllInv, HandStep, Single

-----------------------------------------------------------------------------
(* The states of a request, and those of the server.                       *)

\* What a step may do to the state of a request.
StateMove(r) ==
  \/ st'[r] = st[r]
  \/ st[r] = "ACCEPTED_QUEUED" /\ st'[r] \in {"RUNNING", "CANCELLED", "QUEUE_TIMED_OUT", "WORKER_LOST"}
  \/ st[r] = "RUNNING" /\ st'[r] \in Terminal \ {"QUEUE_TIMED_OUT"}
  \/ st[r] = "UNSENT" /\ st'[r] = "REJECTED" /\ Reads(SessionOf[r])
  \/ /\ st[r] = "UNSENT" /\ st'[r] = "ACCEPTED_QUEUED" /\ Reads(SessionOf[r])
     /\ state = "RUNNING" /\ state' = "RUNNING"

LEMMA StateMoves ==
  ASSUME AllInv, [Next]_vars
  PROVE  \A r \in Items : StateMove(r)
<1> USE DEF AllInv, CoreInv
<1>0. st \in [Items -> Live \cup Terminal \cup {"UNSENT", "REJECTED"}]
  BY DEF RecordOK
<1>1. CASE Quiet \/ HandStep
  BY <1>1 DEF Quiet, HandStep, SubmitFuture, Restore, Attach, StateMove
<1>2. CASE SomeEnd
  <2> SUFFICES ASSUME NEW T \in SUBSET requests, NEW what \in Terminal, NEW P, Ends(T, what, P),
                      NEW x \in Items
               PROVE  StateMove(x)
    BY <1>2 DEF SomeEnd
  <2>1. st'[x] = st[x] \/ (st'[x] = what /\ x \in T /\ st[x] \in Live)
    BY <1>0 DEF Ends, EndAs
  <2>2. QED
    BY <2>1 DEF Ends, StateMove, Live, Terminal
<1>3. CASE SomeCall
  <2> SUFFICES ASSUME NEW r \in Items, NEW what \in Terminal, NEW P, Calls(r, what, P),
                      NEW x \in Items
               PROVE  StateMove(x)
    BY <1>3 DEF SomeCall
  <2>1. st[r] \notin {"UNSENT", "REJECTED"}
    BY DEF Calls, FutureOK, FutureOf
  <2>2. st[r] \in Live \cup Terminal
    BY <1>0, <2>1
  <2>3. QED
    BY <1>0, <2>2 DEF Calls, EndAs, StateMove, Live, Terminal
<1>4. CASE \E r \in Items : Single(r)
  <2> SUFFICES ASSUME NEW r \in Items, Single(r), NEW x \in Items PROVE StateMove(x)
    BY <1>4
  <2>1. CASE Submit(r)
    <3>1. /\ st[r] = "UNSENT" /\ Reads(SessionOf[r]) /\ state' = state
          /\ \/ st' = [st EXCEPT ![r] = "REJECTED"]
             \/ st' = [st EXCEPT ![r] = "ACCEPTED_QUEUED"] /\ state = "RUNNING"
      BY <2>1 DEF Submit, shutdownVars
    <3>2. CASE x = r
      BY <1>0, <3>1, <3>2 DEF StateMove
    <3>3. CASE x # r
      BY <1>0, <3>1, <3>3 DEF StateMove
    <3>4. QED
      BY <3>2, <3>3
  <2>2. CASE Claim(r)
    BY <1>0, <2>2 DEF Claim, StateMove, Live
  <2>3. CASE Ack(r) \/ Dispatch(r) \/ PoolTakes(r) \/ PoolSettles(r)
    BY <2>3 DEF Ack, Dispatch, PoolTakes, PoolSettles, StateMove
  <2>4. QED
    BY <2>1, <2>2, <2>3 DEF Single
<1>5. QED
  BY <1>1, <1>2, <1>3, <1>4, Forms

\* Nothing but the thread that serves, shutdown() and the shutdown thread moves
\* the server, and only a server that runs accepts a request.
Still == UNCHANGED <<state, serve, shpc>> /\ (dpc' # "none" => dpc # "none")
LEMMA MostAreStill ==
  ASSUME [Next]_vars
  PROVE  \/ Still \/ Start \/ ServeStep \/ ShutdownStep
         \/ \E a \in ShutdownArgs : Shutdown(a)
<1> USE DEF Still, shutdownVars, startVars, dispatchVars
<1>1. CASE \E s \in Sessions : ConnectionStep(s)
  <2> SUFFICES ASSUME NEW s \in Sessions, ConnectionStep(s) PROVE Still
    BY <1>1
  <2>1. CASE Accept(s) \/ Arrival(s)
    BY <2>1 DEF Accept, Arrival, Admit, Prepare, HandshakeFails, Connects, ConnectionFrame, Handshake
  <2>2. CASE Query(s) \/ CloseSession(s) \/ \E hard \in BOOLEAN : CancelGroup(s, hard)
    BY <2>2 DEF Query, Answers, CloseSession, CancelGroup, CancelRecords
  <2>3. CASE ReaderEnds(s) \/ WriterFails(s) \/ Deliver(s) \/ Disconnect(s)
    BY <2>3 DEF ReaderEnds, WriterFails, Deliver, Disconnect
  <2>4. QED
    BY <2>1, <2>2, <2>3 DEF ConnectionStep
<1>2. CASE DispatcherStep
  BY <1>2 DEF DispatcherStep, Dispatch, DispatcherExits, SubmitFuture, Restore, Attach, DispatchFails, DispatchFrame
<1>3. CASE \E r \in Items : RequestStep(r)
  <2>1. PICK r \in Items : RequestStep(r)
    BY <1>3
  <2>2. CASE Submit(r)
    BY <2>2 DEF Submit, Answers
  <2>3. CASE SubmitAgain(r) \/ Ack(r)
    BY <2>3 DEF SubmitAgain, Answers, Ack
  <2>4. CASE \E hard \in BOOLEAN : CancelRequest(r, hard)
    BY <2>4 DEF CancelRequest, CancelRecords, Answers
  <2>5. QED
    BY <2>1, <2>2, <2>3, <2>4 DEF RequestStep
<1>4. CASE \E r \in Items : Expire(r) \/ PoolStep(r) \/ ClaimAgain(r)
  BY <1>4 DEF Expire, PoolStep, PoolTakes, Claim, ClaimExpired, PoolSettles, PoolDone, ClaimAgain
<1>5. CASE UNCHANGED vars
  BY <1>5 DEF vars
<1>6. QED
  BY <1>1, <1>2, <1>3, <1>4, <1>5 DEF Next

LEMMA LifeKept == AllInv /\ [Next]_vars => LifeInv'
<1> SUFFICES ASSUME AllInv, [Next]_vars PROVE LifeInv'
  OBVIOUS
<1> USE DEF AllInv
<1>0. RecordOK /\ RecordOK'
  BY CoreKept DEF CoreInv
<1>1. Active = {r \in Items : st[r] \in Live} /\ Active' = {r \in Items : st'[r] \in Live}
  BY <1>0 DEF RecordOK, Active
<1>2. Active' \subseteq Active \/ (state = "RUNNING" /\ state' = "RUNNING")
  BY <1>1, StateMoves DEF StateMove, Live, Terminal
<1>3. CASE Still
  BY <1>2, <1>3 DEF Still, LifeInv
<1>4. CASE Start
  BY <1>2, <1>4 DEF Start, StartFrame, LifeInv
<1>5. CASE ServeStep
  <2>1. shpc' = shpc /\ dpc = "none"
    BY <1>5 DEF ServeStep, ServeInit, ServeBuilds, ServeBinds, ServePublishes, ServeDiscards, StartFrame, LifeInv
  <2>2. CASE ServeInit \/ ServeBuilds
    BY <1>2, <2>1, <2>2 DEF ServeInit, ServeBuilds, ServeEnds, LifeInv
  <2>3. CASE ServeBinds \/ ServeDiscards
    BY <1>2, <2>1, <2>3 DEF ServeBinds, ServeDiscards, ServeEnds, LifeInv
  <2>4. CASE ServePublishes
    BY <1>2, <2>1, <2>4 DEF ServePublishes, LifeInv
  <2>5. QED
    BY <1>5, <2>2, <2>3, <2>4 DEF ServeStep
<1>6. CASE \E a \in ShutdownArgs : Shutdown(a)
  <2>1. serve' = serve /\ dpc' = dpc
    BY <1>6 DEF Shutdown, dispatchVars
  <2>2. CASE state \in {"RUNNING", "DRAINING"}
    BY <1>6, <2>1, <2>2 DEF Shutdown, LifeInv, OtherTypes
  <2>3. CASE state \notin {"RUNNING", "DRAINING"}
    BY <1>2, <1>6, <2>1, <2>3 DEF Shutdown, LifeInv, OtherTypes
  <2>4. QED
    BY <2>2, <2>3
<1>7. CASE ShutdownStep
  <2>1. serve' = serve /\ dpc' = dpc
    BY <1>7 DEF ShutdownStep, DrainCancels, DrainDeadline, Drained, CloseBound, ClosePool, PoolClosed, Stopped,
                CloseConnection, ShutdownGoto, shutdownVars, startVars, dispatchVars
  <2>2. CASE DrainCancels \/ \E s \in Sessions : CloseConnection(s)
    BY <1>2, <2>1, <2>2 DEF DrainCancels, CloseConnection, shutdownVars, LifeInv
  <2>3. CASE Drained
    BY <1>2, <2>1, <2>3 DEF Drained, ShutdownGoto, LifeInv
  <2>4. CASE CloseBound \/ ClosePool \/ PoolClosed \/ Stopped
    BY <1>2, <2>1, <2>4 DEF CloseBound, ClosePool, PoolClosed, Stopped, ShutdownGoto, LifeInv
  <2>5. CASE DrainDeadline
    <3>1. state' = "STOPPING" /\ shpc' = "bound" /\ shpc = "drain"
      BY <2>5 DEF DrainDeadline, ShutdownGoto
    <3>2. \A r \in Active : local_future[r] # "none" \/ st[r] = "ACCEPTED_QUEUED"
      BY <1>1 DEF CoreInv, FutureOK, FutureOf, Live
    <3>3. {r \in Active : st[r] = "ACCEPTED_QUEUED" \/ local_future[r] # "none"} = Active
      BY <3>2
    <3>4. EndAs(Active, "CANCELLED")
      BY <2>5, <3>3 DEF DrainDeadline, EndBatch, EndQueued
    <3>5. Active' = {}
      BY <1>0, <1>1, <3>4 DEF EndAs, Live, Terminal
    <3>6. QED
      BY <2>1, <3>1, <3>5 DEF LifeInv
  <2>6. QED
    BY <1>7, <2>2, <2>3, <2>4, <2>5 DEF ShutdownStep
<1>8. QED
  BY <1>3, <1>4, <1>5, <1>6, <1>7, MostAreStill

-----------------------------------------------------------------------------
(* The remaining types.                                                    *)

\* What a step does to the connections and their messages.
LinkTypes == conn \in [Sessions -> ConnState] /\ out \in Mail
LEMMA LinksKept ==
  ASSUME AllInv, [Next]_vars
  PROVE  LinkTypes'
<1> USE DEF AllInv
<1>0. /\ conn \in [Sessions -> ConnState] /\ out \in Mail
      /\ {"CANCELLED", "QUEUE_TIMED_OUT", "WORKER_LOST"} \subseteq Terminal
      /\ {"ACCEPTED_QUEUED", "RUNNING"} \subseteq Live
      /\ requests \subseteq Items /\ \A s \in Sessions : records[s] \subseteq Items
      /\ \A r \in Items : SessionOf[r] \in Sessions
      /\ <<>> \in Seq(Note)
  BY BrokerAssumption DEF OtherTypes, Mail, Terminal, Live, CoreInv, RecordOK
<1>1. ASSUME NEW m \in Mail, SendFrom(m) \/ \E s : SendFromReader(s, m) PROVE LinkTypes'
  BY <1>0, <1>1, SendTypes DEF LinkTypes
<1>2. ASSUME NEW s \in Sessions, NEW c \in ConnState, conn' = [conn EXCEPT ![s] = c],
             out' = out \/ out' = [out EXCEPT ![s] = <<>>]
      PROVE  LinkTypes'
  BY <1>0, <1>2 DEF LinkTypes, Mail
<1>3. ASSUME UNCHANGED <<conn, out>> PROVE LinkTypes'
  BY <1>0, <1>3 DEF LinkTypes
<1>4. CASE Start \/ ServeStep \/ \E a \in ShutdownArgs : Shutdown(a)
  BY <1>3, <1>4 DEF Start, ServeStep, ServeInit, ServeBuilds, ServeBinds, ServePublishes, ServeDiscards,
                    StartFrame, Shutdown
<1>5. CASE \E s \in Sessions : ConnectionStep(s)
  <2> SUFFICES ASSUME NEW s \in Sessions, ConnectionStep(s) PROVE LinkTypes'
    BY <1>5
  <2>1. CASE Accept(s) \/ Admit(s) \/ Prepare(s) \/ HandshakeFails(s)
    <3>1. PICK c \in ConnState : conn' = [conn EXCEPT ![s] = c] /\ out' = out
      BY <2>1 DEF Accept, Admit, Prepare, HandshakeFails, Connects, ConnectionFrame, ConnState
    <3>2. QED
      BY <1>2, <3>1
  <2>2. CASE Handshake(s)
    <3>1. <<Control>> \in Seq(Note)
      <4>1. Control \in Note
        BY BrokerAssumption DEF Control, Note, Message
      <4>2. QED
        BY <4>1
    <3>2. conn' \in [Sessions -> ConnState]
      BY <1>0, <2>2 DEF Handshake, ConnState
    <3>3. out' \in Mail
      BY <1>0, <2>2, <3>1 DEF Handshake, Mail
    <3>4. QED
      BY <3>2, <3>3 DEF LinkTypes
  <2>3. CASE Query(s) \/ CloseSession(s)
    <3>1. To(s, <<Control>>) \in Mail /\ SendFromReader(s, To(s, <<Control>>))
      BY <2>3, MailTypes DEF Query, Answers, CloseSession
    <3>2. QED
      BY <1>1, <3>1
  <2>4. CASE ReaderEnds(s) \/ WriterFails(s)
    <3>1. PICK c \in ConnState : conn' = [conn EXCEPT ![s] = c] /\ out' = [out EXCEPT ![s] = <<>>]
      BY <2>4 DEF ReaderEnds, WriterFails, ConnState
    <3>2. QED
      BY <1>2, <3>1
  <2>5. CASE Deliver(s)
    <3>1. out[s] \in Seq(Note) /\ out[s] # <<>>
      BY <1>0, <2>5 DEF Deliver, Mail
    <3>2. Tail(out[s]) \in Seq(Note)
      BY <3>1, HeadTailProperties
    <3>3. QED
      BY <1>0, <2>5, <3>2 DEF Deliver, Mail, LinkTypes
  <2>6. CASE \E hard \in BOOLEAN : CancelGroup(s, hard)
    <3>1. PICK hard \in BOOLEAN : CancelRecords(s, Group, hard)
      BY <2>6 DEF CancelGroup
    <3> DEFINE T == Cancellable(Group \cap records[s], hard)
    <3>2. T \in SUBSET Items
      BY <1>0 DEF Cancellable
    <3>3. SendFromReader(s, [Outcomes(T, "CANCELLED") EXCEPT ![s] = Append(@, Control)])
      BY <3>1 DEF CancelRecords
    <3> HIDE DEF T
    <3>4. Outcomes(T, "CANCELLED") \in Mail
      BY <1>0, <3>2, MailTypes
    <3>5. [Outcomes(T, "CANCELLED") EXCEPT ![s] = Append(@, Control)] \in Mail
      BY <3>4, MailTypes
    <3>6. QED
      BY <1>1, <3>3, <3>5
  <2>7. CASE Disconnect(s)
    <3>1. "gone" \in ConnState /\ conn' = [conn EXCEPT ![s] = "gone"] /\ out' = out
      BY <2>7 DEF Disconnect, ConnState
    <3>2. QED
      BY <1>2, <3>1
  <2>8. QED
    BY <2>1, <2>2, <2>3, <2>4, <2>5, <2>6, <2>7 DEF ConnectionStep, Arrival
<1>6. CASE DispatcherStep
  <2>1. CASE DispatchFails
    <3>1. hand \in Items /\ Complete(hand, "WORKER_LOST")
      BY <2>1 DEF DispatchFails, CoreInv, HandOK
    <3>2. Nothing \in Mail /\ About(hand, "WORKER_LOST") \in Mail
      BY <1>0, <3>1, MailTypes
    <3>3. QED
      BY <1>1, <3>1, <3>2 DEF Complete
  <2>2. CASE (\E r \in Items : Dispatch(r)) \/ DispatcherExits \/ SubmitFuture \/ Restore \/ Attach
    BY <1>3, <2>2 DEF Dispatch, DispatcherExits, SubmitFuture, Restore, Attach
  <2>3. QED
    BY <1>6, <2>1, <2>2 DEF DispatcherStep
<1>7. CASE \E r \in Items : RequestStep(r)
  <2> SUFFICES ASSUME NEW r \in Items, RequestStep(r) PROVE LinkTypes'
    BY <1>7
  <2>1. CASE Submit(r)
    <3>1. About(r, "ACCEPTED_QUEUED") \in Mail /\ About(r, "REJECTED") \in Mail
      BY <1>0, MailTypes
    <3>2. QED
      BY <1>1, <2>1, <3>1 DEF Submit
  <2>2. CASE SubmitAgain(r)
    <3>1. st[r] \in Live \cup Terminal
      BY <1>0, <2>2 DEF SubmitAgain, CoreInv, RecordOK
    <3>2. About(r, st[r]) \in Mail
      BY <3>1, MailTypes
    <3>3. QED
      BY <1>1, <2>2, <3>2 DEF SubmitAgain, Answers
  <2>3. CASE Ack(r)
    BY <1>1, <2>3, MailTypes DEF Ack
  <2>4. CASE \E hard \in BOOLEAN : CancelRequest(r, hard)
    <3>1. PICK s \in Sessions, hard \in BOOLEAN : CancelRecords(s, {r}, hard)
      BY <1>0, <2>4 DEF CancelRequest
    <3> DEFINE T == Cancellable({r} \cap records[s], hard)
    <3>2. T \in SUBSET Items
      BY <1>0 DEF Cancellable
    <3>3. SendFromReader(s, [Outcomes(T, "CANCELLED") EXCEPT ![s] = Append(@, Control)])
      BY <3>1 DEF CancelRecords
    <3> HIDE DEF T
    <3>4. Outcomes(T, "CANCELLED") \in Mail
      BY <1>0, <3>2, MailTypes
    <3>5. [Outcomes(T, "CANCELLED") EXCEPT ![s] = Append(@, Control)] \in Mail
      BY <3>4, MailTypes
    <3>6. QED
      BY <1>1, <3>3, <3>5
  <2>5. QED
    BY <2>1, <2>2, <2>3, <2>4 DEF RequestStep
<1>8. CASE \E r \in Items : Expire(r) \/ PoolStep(r) \/ ClaimAgain(r)
  <2> SUFFICES ASSUME NEW r \in Items, Expire(r) \/ PoolStep(r) \/ ClaimAgain(r) PROVE LinkTypes'
    BY <1>8
  <2>1. /\ About(r, "QUEUE_TIMED_OUT") \in Mail /\ About(r, "RUNNING") \in Mail /\ Nothing \in Mail
        /\ \A what \in Terminal : About(r, what) \in Mail
    BY <1>0, MailTypes
  <2>2. CASE Expire(r) \/ ClaimExpired(r)
    BY <1>1, <2>1, <2>2 DEF Expire, ClaimExpired
  <2>3. CASE Claim(r) \/ ClaimAgain(r)
    BY <1>1, <2>1, <2>3 DEF Claim, ClaimAgain
  <2>4. CASE PoolTakes(r) \/ PoolSettles(r)
    BY <1>3, <2>4 DEF PoolTakes, PoolSettles
  <2>5. CASE PoolDone(r)
    <3>1. PICK what \in Terminal : Complete(r, what)
      BY <1>0, <2>5, BrokerAssumption DEF PoolDone
    <3>2. QED
      BY <1>1, <2>1, <3>1 DEF Complete
  <2>6. QED
    BY <2>2, <2>3, <2>4, <2>5 DEF PoolStep
<1>9. CASE ShutdownStep
  <2>1. ASSUME NEW T, T \subseteq requests, EndBatch(T) PROVE LinkTypes'
    <3>1. T \in SUBSET Items
      BY <1>0, <2>1
    <3>2. Outcomes(T, "CANCELLED") \in Mail
      BY <1>0, <3>1, MailTypes
    <3>3. QED
      BY <1>1, <2>1, <3>2 DEF EndBatch
  <2>2. CASE DrainCancels
    BY <2>1, <2>2 DEF DrainCancels, Queued
  <2>3. CASE DrainDeadline
    <3> DEFINE T == {r \in Active : st[r] = "ACCEPTED_QUEUED" \/ local_future[r] # "none"}
    <3>1. T \subseteq requests /\ EndBatch(T)
      BY <2>3 DEF DrainDeadline, Active
    <3> HIDE DEF T
    <3>2. QED
      BY <2>1, <3>1
  <2>4. CASE Drained \/ ClosePool \/ PoolClosed \/ Stopped
    BY <1>3, <2>4 DEF Drained, ClosePool, PoolClosed, Stopped
  <2>5. CASE CloseBound
    BY <1>0, <2>5 DEF CloseBound, LinkTypes, ConnState
  <2>6. CASE \E s \in Sessions : CloseConnection(s)
    <3>1. PICK s \in Sessions, c \in ConnState : conn' = [conn EXCEPT ![s] = c] /\ out' = [out EXCEPT ![s] = <<>>]
      BY <2>6 DEF CloseConnection, ConnState
    <3>2. QED
      BY <1>2, <3>1
  <2>7. QED
    BY <1>9, <2>2, <2>3, <2>4, <2>5, <2>6 DEF ShutdownStep
<1>10. CASE UNCHANGED vars
  BY <1>3, <1>10 DEF vars
<1>11. QED
  BY <1>4, <1>5, <1>6, <1>7, <1>8, <1>9, <1>10 DEF Next

RestTypes ==
  /\ state \in {"CREATED", "STARTING", "RUNNING", "DRAINING", "STOPPING", "STOPPED"}
  /\ pool_open \in BOOLEAN
  /\ ready \in BOOLEAN /\ stopped \in BOOLEAN
  /\ serve \in {"none", "init", "build", "bind", "publish", "discard", "wait", "failed"}
  /\ listening \in {"none", "bound", "open", "closed"}
  /\ shpc \in {"none", "drain", "bound", "pool", "join", "connections", "done"}
  /\ shutdown_cancel \in BOOLEAN
  /\ shutdown_deadline \in BOOLEAN
TableTypes ==
  /\ sessions \subseteq Sessions
  /\ clean_close \subseteq Sessions
  /\ watermark \in [Sessions -> Nat]
  /\ backlog \subseteq Items
  /\ view \in [Items -> Live \cup Terminal \cup {"UNSENT", "REJECTED"}]

LEMMA TypeParts == /\ OtherTypes <=> LinkTypes /\ RestTypes /\ TableTypes
                   /\ OtherTypes' <=> LinkTypes' /\ RestTypes' /\ TableTypes'
  BY DEF OtherTypes, LinkTypes, RestTypes, TableTypes, Mail

\* Everything but serving and shutting down leaves the server's own state alone.
LEMMA RestKept ==
  ASSUME AllInv, [Next]_vars
  PROVE  RestTypes'
<1>0. RestTypes
  BY TypeParts DEF AllInv
<1>1. CASE Start
  BY <1>0, <1>1 DEF Start, StartFrame, RestTypes
<1>2. CASE ServeStep
  <2>1. CASE ServeInit \/ ServeBuilds
    BY <1>0, <2>1, ZenonT(60) DEF ServeInit, ServeBuilds, ServeEnds, StartFrame, RestTypes
  <2>2. CASE ServeBinds
    BY <1>0, <2>2, ZenonT(60) DEF ServeBinds, ServeEnds, StartFrame, RestTypes
  <2>3. CASE ServePublishes \/ ServeDiscards
    BY <1>0, <2>3, ZenonT(60) DEF ServePublishes, ServeDiscards, ServeEnds, StartFrame, RestTypes
  <2>4. QED
    BY <1>2, <2>1, <2>2, <2>3 DEF ServeStep
<1>3. CASE \E a \in ShutdownArgs : Shutdown(a)
  <2>1. PICK a \in ShutdownArgs : Shutdown(a)
    BY <1>3
  <2>2. /\ state' \in {"CREATED", "STARTING", "RUNNING", "DRAINING", "STOPPING", "STOPPED"}
        /\ shpc' \in {"none", "drain", "bound", "pool", "join", "connections", "done"}
        /\ serve' = serve /\ listening' = listening /\ pool_open' = pool_open
    BY <1>0, <2>1 DEF Shutdown, poolVars, RestTypes
  <2>3. ready' \in BOOLEAN /\ stopped' \in BOOLEAN
    BY <1>0, <2>1, Zenon DEF Shutdown, RestTypes
  <2>4. shutdown_cancel' \in BOOLEAN
    BY <1>0, <2>1, Zenon DEF Shutdown, RestTypes
  <2>5. shutdown_deadline' \in BOOLEAN
    BY <1>0, <2>1, Zenon DEF Shutdown, RestTypes
  <2>6. QED
    BY <1>0, <2>2, <2>3, <2>4, <2>5 DEF RestTypes
<1>4. CASE ShutdownStep
  <2>1. CASE DrainCancels \/ \E s \in Sessions : CloseConnection(s)
    BY <1>0, <2>1 DEF DrainCancels, CloseConnection, shutdownVars, startVars, poolVars, RestTypes
  <2>2. CASE DrainDeadline \/ Drained \/ PoolClosed
    BY <1>0, <2>2 DEF DrainDeadline, Drained, PoolClosed, ShutdownGoto, startVars, poolVars, RestTypes
  <2>3. CASE CloseBound \/ Stopped
    BY <1>0, <2>3 DEF CloseBound, Stopped, poolVars, RestTypes
  <2>4. CASE ClosePool
    <3>1. pool_open' = FALSE /\ shpc' = "join"
      BY <2>4 DEF ClosePool, ShutdownGoto
    <3>2. UNCHANGED <<state, ready, stopped, serve, listening, shutdown_cancel, shutdown_deadline>>
      BY <2>4 DEF ClosePool, ShutdownGoto, startVars
    <3>3. QED
      BY <1>0, <3>1, <3>2, ZenonT(60) DEF RestTypes
  <2>5. QED
    BY <1>4, <2>1, <2>2, <2>3, <2>4 DEF ShutdownStep
<1>5. CASE UNCHANGED shutdownVars /\ UNCHANGED pool_open
  BY <1>0, <1>5 DEF shutdownVars, startVars, RestTypes
<1>6. CASE \E s \in Sessions : ConnectionStep(s)
  <2> SUFFICES ASSUME NEW s \in Sessions, ConnectionStep(s) PROVE UNCHANGED shutdownVars /\ UNCHANGED pool_open
    BY <1>5, <1>6
  <2>1. CASE Accept(s) \/ Arrival(s)
    BY <2>1 DEF Accept, Arrival, Admit, Prepare, HandshakeFails, Connects, ConnectionFrame, Handshake, poolVars
  <2>2. CASE Query(s) \/ CloseSession(s) \/ \E hard \in BOOLEAN : CancelGroup(s, hard)
    BY <2>2 DEF Query, Answers, CloseSession, CancelGroup, CancelRecords, poolVars
  <2>3. CASE ReaderEnds(s) \/ WriterFails(s) \/ Deliver(s) \/ Disconnect(s)
    BY <2>3 DEF ReaderEnds, WriterFails, Deliver, Disconnect, poolVars
  <2>4. QED
    BY <2>1, <2>2, <2>3 DEF ConnectionStep
<1>7. CASE DispatcherStep
  BY <1>5, <1>7 DEF DispatcherStep, Dispatch, DispatcherExits, SubmitFuture, Restore, Attach, DispatchFails,
                    DispatchFrame, poolVars
<1>8. CASE \E r \in Items : RequestStep(r)
  BY <1>5, <1>8 DEF RequestStep, Submit, SubmitAgain, Answers, Ack, CancelRequest, CancelRecords, poolVars
<1>9. CASE \E r \in Items : Expire(r) \/ PoolStep(r) \/ ClaimAgain(r)
  BY <1>5, <1>9 DEF Expire, PoolStep, PoolTakes, Claim, ClaimExpired, PoolSettles, PoolDone, ClaimAgain, poolVars
<1>10. CASE UNCHANGED vars
  BY <1>5, <1>10 DEF vars, poolVars
<1>11. QED
  BY <1>1, <1>2, <1>3, <1>4, <1>6, <1>7, <1>8, <1>9, <1>10 DEF Next

LEMMA PurgeSessions == \A P : Purge(P) => sessions' \subseteq sessions
  BY DEF Purge

LEMMA TablesKept ==
  ASSUME AllInv, [Next]_vars
  PROVE  TableTypes'
<1>0. TableTypes
  BY TypeParts DEF AllInv
<1>1. ASSUME sessions' \subseteq sessions, UNCHANGED sessionVars, UNCHANGED view, backlog' \subseteq backlog
      PROVE  TableTypes'
  BY <1>0, <1>1 DEF TableTypes, sessionVars
<1> USE DEF recordVars, poolVars
<1>2. CASE Start \/ ServeStep \/ \E a \in ShutdownArgs : Shutdown(a)
  BY <1>1, <1>2 DEF Start, ServeStep, ServeInit, ServeBuilds, ServeBinds, ServePublishes, ServeDiscards,
                    StartFrame, Shutdown
<1>3. CASE ShutdownStep
  <2>1. CASE DrainCancels \/ DrainDeadline
    BY <1>1, <2>1, PurgeSessions DEF DrainCancels, DrainDeadline, EndBatch, EndQueued
  <2>2. CASE Drained \/ CloseBound \/ ClosePool \/ PoolClosed \/ Stopped \/ \E s \in Sessions : CloseConnection(s)
    BY <1>1, <2>2 DEF Drained, CloseBound, ClosePool, PoolClosed, Stopped, CloseConnection
  <2>3. QED
    BY <1>3, <2>1, <2>2 DEF ShutdownStep
<1>4. CASE \E s \in Sessions : ConnectionStep(s)
  <2> SUFFICES ASSUME NEW s \in Sessions, ConnectionStep(s) PROVE TableTypes'
    BY <1>4
  <2>1. CASE Accept(s) \/ Admit(s) \/ Prepare(s) \/ HandshakeFails(s)
    BY <1>1, <2>1 DEF Accept, Admit, Prepare, HandshakeFails, Connects, ConnectionFrame
  <2>2. CASE Handshake(s)
    BY <1>0, <2>2 DEF Handshake, sessionVars, TableTypes
  <2>3. CASE Query(s) \/ ReaderEnds(s) \/ WriterFails(s)
    BY <1>1, <2>3 DEF Query, Answers, ReaderEnds, WriterFails
  <2>4. CASE CloseSession(s)
    BY <1>0, <2>4 DEF CloseSession, TableTypes
  <2>5. CASE (\E hard \in BOOLEAN : CancelGroup(s, hard)) \/ Disconnect(s)
    BY <1>1, <2>5, PurgeSessions DEF CancelGroup, CancelRecords, EndQueued, Disconnect
  <2>6. CASE Deliver(s)
    <3>1. out[s] \in Seq(Note) /\ out[s] # <<>>
      BY <2>6 DEF Deliver, AllInv, OtherTypes
    <3>2. PICK m \in Note : m = Head(out[s])
      BY <3>1, HeadTailProperties
    <3>3. m.of # NoItem => m.of \in Items /\ m.what \in Live \cup Terminal \cup {"REJECTED"}
      BY DEF Note, Message
    <3>4. view' = IF m.of = NoItem THEN view ELSE [view EXCEPT ![m.of] = m.what]
      BY <2>6, <3>2 DEF Deliver
    <3>5. view' \in [Items -> Live \cup Terminal \cup {"UNSENT", "REJECTED"}]
      BY <1>0, <3>3, <3>4 DEF TableTypes
    <3>6. QED
      BY <1>0, <2>6, <3>5 DEF Deliver, TableTypes, sessionVars
  <2>7. QED
    BY <2>1, <2>2, <2>3, <2>4, <2>5, <2>6 DEF ConnectionStep, Arrival
<1>5. CASE DispatcherStep
  <2>1. CASE SubmitFuture
    <3>1. hand \in Items
      BY <2>1 DEF SubmitFuture, AllInv, CoreInv, HandOK
    <3>2. QED
      BY <1>0, <2>1, <3>1 DEF SubmitFuture, TableTypes, sessionVars
  <2>2. CASE DispatchFails
    BY <1>1, <2>2, PurgeSessions DEF DispatchFails, Complete, DispatchFrame
  <2>3. CASE (\E r \in Items : Dispatch(r)) \/ DispatcherExits \/ Restore \/ Attach
    BY <1>1, <2>3 DEF Dispatch, DispatcherExits, Restore, Attach, DispatchFrame
  <2>4. QED
    BY <1>5, <2>1, <2>2, <2>3 DEF DispatcherStep
<1>6. CASE \E r \in Items : RequestStep(r)
  <2> SUFFICES ASSUME NEW r \in Items, RequestStep(r) PROVE TableTypes'
    BY <1>6
  <2>1. CASE Submit(r)
    <3>1. watermark' \in [Sessions -> Nat]
      BY <1>0, <2>1, BrokerAssumption DEF Submit, TableTypes
    <3>2. QED
      BY <1>0, <2>1, <3>1 DEF Submit, TableTypes
  <2>2. CASE SubmitAgain(r) \/ Ack(r)
    BY <1>1, <2>2 DEF SubmitAgain, Answers, Ack
  <2>3. CASE \E hard \in BOOLEAN : CancelRequest(r, hard)
    BY <1>1, <2>3, PurgeSessions DEF CancelRequest, CancelRecords, EndQueued
  <2>4. QED
    BY <2>1, <2>2, <2>3 DEF RequestStep
<1>7. CASE \E r \in Items : Expire(r) \/ PoolStep(r) \/ ClaimAgain(r)
  <2> SUFFICES ASSUME NEW r \in Items, Expire(r) \/ PoolStep(r) \/ ClaimAgain(r) PROVE TableTypes'
    BY <1>7
  <2>1. CASE Expire(r) \/ ClaimExpired(r) \/ PoolDone(r)
    BY <1>1, <2>1, PurgeSessions DEF Expire, EndQueued, ClaimExpired, PoolDone, Complete
  <2>2. CASE PoolTakes(r) \/ Claim(r) \/ PoolSettles(r) \/ ClaimAgain(r)
    BY <1>1, <2>2 DEF PoolTakes, Claim, PoolSettles, ClaimAgain
  <2>3. QED
    BY <2>1, <2>2 DEF PoolStep
<1>8. CASE UNCHANGED vars
  BY <1>1, <1>8 DEF vars
<1>9. QED
  BY <1>2, <1>3, <1>4, <1>5, <1>6, <1>7, <1>8 DEF Next

-----------------------------------------------------------------------------
(* The theorems.                                                           *)

LEMMA Begins == Init => AllInv
<1> SUFFICES ASSUME Init PROVE AllInv
  OBVIOUS
<1> USE DEF Init
<1>1. SchedulerTypeOK /\ Coherent /\ QueuedItems = {}
  BY SchedulerInitKeeps
<1>2. RecordOK
  BY DEF RecordOK, Live
<1>3. CountOK
  <2>1. \A p \in Principals : OwnedBy(p) = {}
    BY DEF OwnedBy
  <2>2. Cardinality({}) = 0
    BY FS_EmptySet
  <2>3. 0 <= MaxGlobal /\ 0 <= MaxPerSession /\ 0 <= MaxPerPrincipal
    BY BrokerAssumption
  <2>4. /\ requests = {} /\ reserved_outcomes = 0 /\ reserved \in [Sessions -> Nat]
        /\ \A s \in Sessions : records[s] = {} /\ reserved[s] = 0
    OBVIOUS
  <2>5. QED
    BY <2>1, <2>2, <2>3, <2>4 DEF CountOK
<1>4. FutureOK
  BY <1>1 DEF FutureOK, FutureOf, FutureState
<1>5. HandOK
  BY DEF HandOK
<1>6. StagedOK
  <2>1. Busy = {}
    BY DEF Busy
  <2>2. Cardinality({}) = 0 /\ MaxStaged \in Nat
    BY FS_EmptySet, BrokerAssumption
  <2>3. QED
    BY <2>1, <2>2 DEF StagedOK
<1>7. LinkTypes
  <2>1. <<>> \in Seq(Note)
    OBVIOUS
  <2>2. QED
    BY <2>1 DEF LinkTypes, Mail, ConnState
<1>8. RestTypes
  <2>1. ColdStart \in BOOLEAN
    BY BrokerAssumption
  <2>2. ready \in BOOLEAN /\ pool_open \in BOOLEAN
    BY <2>1
  <2>3. QED
    BY <2>2 DEF RestTypes
<1>9. TableTypes
  BY DEF TableTypes
<1>10. LifeInv
  BY DEF LifeInv, Active
<1>11. QED
  BY <1>1, <1>2, <1>3, <1>4, <1>5, <1>6, <1>7, <1>8, <1>9, <1>10, TypeParts DEF AllInv, CoreInv

LEMMA Kept == AllInv /\ [Next]_vars => AllInv'
  BY CoreKept, LifeKept, LinksKept, RestKept, TablesKept, TypeParts DEF AllInv

\* The inductive invariant of the server: its structures are in order, every
\* variable has its type, and only a server that runs has work.
THEOREM ServerInvariant == Spec => []AllInv
  BY Begins, Kept, PTL DEF Spec

\* Every variable of the server keeps its type.
THEOREM TypeCorrect == Spec => []TypeOK
<1>1. AllInv => TypeOK
  <2> SUFFICES ASSUME AllInv PROVE TypeOK
    OBVIOUS
  <2>1. out \in [Sessions -> Seq(Message)]
    <3>1. \A s \in Sessions : out[s] \in Seq(Note) /\ Len(out[s]) \in Nat
      BY DEF AllInv, OtherTypes
    <3>2. \A s \in Sessions : \A k \in 1 .. Len(out[s]) : out[s][k] \in Note
      BY <3>1
    <3>3. \A n \in Note : n \in Message
      BY DEF Note
    <3>4. \A s \in Sessions : out[s] \in Seq(Message)
      BY <3>1, <3>2, <3>3, SeqDef
    <3>5. QED
      BY <3>4 DEF AllInv, OtherTypes
  <2>2. staged \in Nat /\ reserved_outcomes \in Nat
    <3>1. Busy \in SUBSET Items /\ requests \in SUBSET Items
      BY DEF AllInv, CoreInv, RecordOK, Busy
    <3>2. QED
      BY <3>1, Finite DEF AllInv, CoreInv, StagedOK, CountOK
  <2>3. hand \in Items \cup {NoItem} /\ dpc \in {"none", "loop", "submit", "full", "failed", "attach", "exit"}
    BY DEF AllInv, CoreInv, HandOK
  <2>4. QED
    BY <2>1, <2>2, <2>3 DEF TypeOK, AllInv, CoreInv, OtherTypes, RecordOK, CountOK, FutureOK
<1>2. QED
  BY <1>1, ServerInvariant, PTL

\* No accepted request is lost between the queue and the pool, and none is in
\* both: not when it is cancelled or expires while the dispatcher has it in
\* hand, not when the pool is full and it is put back, not when the client goes.
THEOREM NoRequestIsLost == Spec => []NothingLost
<1>1. AllInv => NothingLost
  BY DEF AllInv, CoreInv, FutureOK, FutureOf, NothingLost, QueuedItems
<1>2. QED
  BY <1>1, ServerInvariant, PTL

\* The counter of staged work is the number of futures whose callback has not
\* run: it never leaks a slot, never gives one back twice, and stays within
\* max_staged_tasks.
THEOREM SlotsAreCounted == Spec => []StagedExactly
<1>1. AllInv => StagedExactly
  BY DEF AllInv, CoreInv, StagedOK, StagedExactly, Busy
<1>2. QED
  BY <1>1, ServerInvariant, PTL

\* The counters of reservations count the records of the session and of the
\* server, and no limit is exceeded: not that of a session, not that of a
\* principal, however many sessions it has, and not that of the server.
THEOREM LimitsAreKept == Spec => []WithinLimits
<1>1. AllInv => WithinLimits
  <2> SUFFICES ASSUME AllInv PROVE WithinLimits
    OBVIOUS
  <2>1. requests = UNION {records[s] : s \in Sessions}
    BY BrokerAssumption DEF AllInv, CoreInv, RecordOK
  <2>2. QED
    BY <2>1 DEF AllInv, CoreInv, CountOK, OwnedBy, WithinLimits
<1>2. QED
  BY <1>1, ServerInvariant, PTL

\* A request that has an outcome keeps it, whatever arrives later from the pool,
\* from a deadline, from a second cancellation or from the shutdown.
THEOREM OutcomesAreFinal == Spec => FirstOutcomeWins
<1>1. AllInv /\ [Next]_vars => [\A r \in Items : st[r] \in Terminal => st'[r] = st[r]]_vars
  <2> SUFFICES ASSUME AllInv, [Next]_vars, NEW r \in Items, st[r] \in Terminal PROVE st'[r] = st[r]
    OBVIOUS
  <2>1. StateMove(r)
    BY StateMoves
  <2>2. QED
    BY <2>1 DEF StateMove, Live, Terminal
<1>2. QED
  BY <1>1, ServerInvariant, PTL DEF Spec, FirstOutcomeWins

\* A server that stops, or has stopped, owes nobody an outcome: whether it was
\* drained, told to cancel what waits, or ran into its deadline.
THEOREM StopsEmpty == Spec => []ShutdownDrains
<1>1. AllInv => ShutdownDrains
  BY DEF AllInv, LifeInv, ShutdownDrains
<1>2. QED
  BY <1>1, ServerInvariant, PTL

-----------------------------------------------------------------------------
(* What is left of a client that is gone.                                  *)

LEMMA SendsMove ==
  ASSUME conn \in [Sessions -> ConnState], NEW s \in Sessions, NEW m,
         SendFrom(m) \/ \E x : SendFromReader(x, m)
  PROVE  /\ conn'[s] = conn[s] \/ conn'[s] \in {"closed", "lost"}
         /\ s \in ClosedAfter(m) => conn'[s] # "open"
  BY DEF SendFrom, SendFromReader, ClosedAfter

\* A connection is open only if its session is known, stays closed once it is,
\* and is gone only once _disconnect has run, unless it never had a session.
Closed == {"shut", "closed", "lost", "gone"}
LinkMove(s) ==
  /\ conn'[s] \in Early => conn[s] \in Early
  /\ conn[s] \in Closed => conn'[s] \in Closed
  /\ conn'[s] = "open" => conn[s] = "open" \/ s \in sessions'
  /\ conn'[s] = "gone" => conn[s] = "gone" \/ conn[s] \in Early \/ Disconnect(s)

LEMMA LinkMoves ==
  ASSUME AllInv, [Next]_vars, NEW s \in Sessions
  PROVE  LinkMove(s)
<1>0. conn \in [Sessions -> ConnState]
  BY DEF AllInv, OtherTypes
<1>1. ASSUME NEW m, SendFrom(m) \/ \E x : SendFromReader(x, m) PROVE LinkMove(s)
  <2>1. conn'[s] = conn[s] \/ conn'[s] \in {"closed", "lost"}
    BY <1>0, <1>1, SendsMove
  <2>2. QED
    BY <2>1 DEF LinkMove, Early, Closed
<1>2. ASSUME UNCHANGED conn PROVE LinkMove(s)
  BY <1>2 DEF LinkMove
<1>4. CASE Start \/ ServeStep \/ \E a \in ShutdownArgs : Shutdown(a)
  BY <1>2, <1>4 DEF Start, ServeStep, ServeInit, ServeBuilds, ServeBinds, ServePublishes, ServeDiscards,
                    StartFrame, Shutdown
<1>5. CASE \E x \in Sessions : ConnectionStep(x)
  <2> SUFFICES ASSUME NEW x \in Sessions, ConnectionStep(x) PROVE LinkMove(s)
    BY <1>5
  <2>1. CASE Accept(x) \/ Admit(x) \/ Prepare(x) \/ HandshakeFails(x)
    <3>1. PICK c \in Early \cup {"gone"} : 
            conn' = [conn EXCEPT ![x] = c] /\ conn[x] \in Early /\ (conn[x] = "shut" => c = "gone")
      BY <2>1 DEF Accept, Admit, Prepare, HandshakeFails, Connects, Early
    <3>2. QED
      BY <1>0, <3>1 DEF LinkMove, Early, Closed
  <2>2. CASE Handshake(x)
    <3>1. /\ conn[x] \in Early /\ x \in sessions'
          /\ conn' = [conn EXCEPT ![x] = IF conn[x] = "new" THEN "open" ELSE "lost"]
      BY <2>2 DEF Handshake, Early
    <3>2. QED
      BY <1>0, <3>1 DEF LinkMove, Early, Closed
  <2>3. CASE Query(x) \/ CloseSession(x)
    BY <1>1, <2>3 DEF Query, Answers, CloseSession
  <2>4. CASE ReaderEnds(x) \/ WriterFails(x)
    <3>1. PICK c \in {"lost", "closed"} : conn' = [conn EXCEPT ![x] = c]
      BY <2>4 DEF ReaderEnds, WriterFails
    <3>2. QED
      BY <1>0, <3>1 DEF LinkMove, Early, Closed
  <2>5. CASE Deliver(x)
    BY <1>2, <2>5 DEF Deliver
  <2>6. CASE \E hard \in BOOLEAN : CancelGroup(x, hard)
    BY <1>1, <2>6 DEF CancelGroup, CancelRecords
  <2>7. CASE Disconnect(x)
    <3>1. conn' = [conn EXCEPT ![x] = "gone"]
      BY <2>7 DEF Disconnect
    <3>2. QED
      BY <1>0, <2>7, <3>1 DEF LinkMove, Early, Closed
  <2>8. QED
    BY <2>1, <2>2, <2>3, <2>4, <2>5, <2>6, <2>7 DEF ConnectionStep, Arrival
<1>6. CASE DispatcherStep
  BY <1>1, <1>2, <1>6 DEF DispatcherStep, Dispatch, DispatcherExits, SubmitFuture, Restore, Attach, DispatchFails, Complete
<1>7. CASE \E r \in Items : RequestStep(r)
  <2>1. PICK r \in Items : RequestStep(r)
    BY <1>7
  <2>2. CASE Submit(r)
    BY <1>1, <2>2 DEF Submit, Answers
  <2>3. CASE SubmitAgain(r) \/ Ack(r)
    BY <1>1, <2>3 DEF SubmitAgain, Answers, Ack
  <2>4. CASE \E hard \in BOOLEAN : CancelRequest(r, hard)
    BY <1>1, <2>4 DEF CancelRequest, CancelRecords, Answers
  <2>5. QED
    BY <2>1, <2>2, <2>3, <2>4 DEF RequestStep
<1>8. CASE \E r \in Items : Expire(r) \/ PoolStep(r) \/ ClaimAgain(r)
  BY <1>1, <1>2, <1>8 DEF Expire, PoolStep, PoolTakes, Claim, ClaimExpired, PoolSettles, PoolDone, Complete, ClaimAgain
<1>9. CASE ShutdownStep
  <2>1. CASE DrainCancels \/ DrainDeadline
    BY <1>1, <2>1 DEF DrainCancels, DrainDeadline, EndBatch
  <2>2. CASE Drained \/ ClosePool \/ PoolClosed \/ Stopped
    BY <1>2, <2>2 DEF Drained, ClosePool, PoolClosed, Stopped
  <2>3. CASE CloseBound
    BY <1>0, <2>3 DEF CloseBound, LinkMove, Early, Closed
  <2>4. CASE \E x \in Sessions : CloseConnection(x)
    <3>1. PICK x \in Sessions : CloseConnection(x)
      BY <2>4
    <3>2. CASE s = x
      BY <1>0, <3>1, <3>2 DEF CloseConnection, LinkMove, Early, Closed
    <3>3. CASE s # x
      BY <1>0, <3>1, <3>3 DEF CloseConnection, LinkMove, Early, Closed
    <3>4. QED
      BY <3>2, <3>3
  <2>5. QED
    BY <1>9, <2>1, <2>2, <2>3, <2>4 DEF ShutdownStep
<1>10. CASE UNCHANGED vars
  BY <1>2, <1>10 DEF vars
<1>11. QED
  BY <1>4, <1>5, <1>6, <1>7, <1>8, <1>9, <1>10 DEF Next

\* Records are added by _submit only, and a session is forgotten only when it
\* has none and its connection is closed.
TableMove(s) ==
  /\ records'[s] \subseteq records[s] \/ \E r \in Items : Submit(r) /\ SessionOf[r] = s
  /\ s \in sessions /\ s \notin sessions' => records'[s] = {} /\ conn'[s] # "open"
  /\ s \in clean_close' => s \in clean_close \/ CloseSession(s)

LEMMA PurgeMoves ==
  ASSUME NEW s \in Sessions, NEW P, Purge(P)
  PROVE  /\ records'[s] \subseteq records[s]
         /\ s \in sessions /\ s \notin sessions' => s \in P /\ records'[s] = {}
         /\ s \in P /\ s \in sessions => \A r \in records'[s] : SessionOf[r] = s => st'[r] \notin Terminal
<1>1. /\ Forget({r \in UNION {records[x] : x \in P} : st'[r] \in Terminal})
      /\ sessions' = sessions \ {x \in P : records'[x] = {}}
  BY DEF Purge
<1>2. QED
  BY <1>1 DEF Forget

LEMMA PurgeAndSend ==
  ASSUME AllInv, NEW s \in Sessions, NEW P, Purge(P), NEW m, P \subseteq ClosedAfter(m),
         SendFrom(m) \/ \E x : SendFromReader(x, m), clean_close' = clean_close
  PROVE  TableMove(s)
<1>1. conn \in [Sessions -> ConnState]
  BY DEF AllInv, OtherTypes
<1>2. s \in P => conn'[s] # "open"
  BY <1>1, SendsMove
<1>3. QED
  BY <1>2, PurgeMoves DEF TableMove

\* One more message closes no fewer connections.
LEMMA MoreCloses ==
  ASSUME NEW m \in Mail, NEW s \in Sessions, out \in Mail
  PROVE  ClosedAfter(m) \subseteq ClosedAfter([m EXCEPT ![s] = Append(@, Control)])
<1> DEFINE n == [m EXCEPT ![s] = Append(@, Control)]
<1>1. Control \in Note
  BY BrokerAssumption DEF Control, Note, Message
<1>2. ASSUME NEW x \in Sessions
      PROVE  Len(m[x]) \in Nat /\ Len(n[x]) \in Nat /\ Len(m[x]) <= Len(n[x]) /\ Len(out[x]) \in Nat
  <2>1. m[x] \in Seq(Note) /\ out[x] \in Seq(Note)
    BY DEF Mail
  <2>2. Len(m[x]) \in Nat /\ Len(out[x]) \in Nat
    BY <2>1, LenProperties
  <2>3. Len(Append(m[x], Control)) = Len(m[x]) + 1
    BY <1>1, <2>1, AppendProperties
  <2>4. n[x] = IF x = s THEN Append(m[x], Control) ELSE m[x]
    BY DEF Mail
  <2>5. QED
    BY <2>2, <2>3, <2>4
<1> HIDE DEF n
<1>3. OutboundLimit \in Nat
  BY BrokerAssumption
<1>4. Overflows(m) \subseteq Overflows(n)
  <2>1. ASSUME NEW x \in Sessions, Len(out[x]) + Len(m[x]) > OutboundLimit
        PROVE  Len(out[x]) + Len(n[x]) > OutboundLimit
    <3>1. PICK a \in Nat, b \in Nat, c \in Nat : a = Len(out[x]) /\ b = Len(m[x]) /\ c = Len(n[x])
      BY <1>2
    <3>2. b <= c /\ a + b > OutboundLimit
      BY <1>2, <2>1, <3>1
    <3>3. a + c > OutboundLimit
      BY <1>3, <3>2
    <3>4. QED
      BY <3>1, <3>3
  <2>2. QED
    BY <2>1 DEF Overflows
<1>5. ClosedAfter(m) \subseteq ClosedAfter(n)
  BY <1>4 DEF ClosedAfter
<1>6. QED
  BY <1>5 DEF n

LEMMA EndsAndSends ==
  ASSUME AllInv, NEW s \in Sessions, NEW T \in SUBSET Items, NEW what, NEW m, EndQueued(T, what, m),
         SendFrom(m) \/ (\E x \in Sessions : SendFromReader(x, [m EXCEPT ![x] = Append(@, Control)]) /\ m \in Mail),
         clean_close' = clean_close
  PROVE  TableMove(s)
<1>1. PICK P \in PurgedByCallbacks(T, m) : Purge(P)
  BY DEF EndQueued
<1>2. P \subseteq ClosedAfter(m)
  BY <1>1, PurgedSessions
<1>3. CASE SendFrom(m)
  BY <1>1, <1>2, <1>3, PurgeAndSend
<1>4. CASE \E x \in Sessions : SendFromReader(x, [m EXCEPT ![x] = Append(@, Control)]) /\ m \in Mail
  <2>1. PICK x \in Sessions : SendFromReader(x, [m EXCEPT ![x] = Append(@, Control)])
    BY <1>4
  <2>2. out \in Mail
    BY DEF AllInv, OtherTypes, Mail
  <2>3. P \subseteq ClosedAfter([m EXCEPT ![x] = Append(@, Control)])
    BY <1>2, <1>4, <2>2, MoreCloses
  <2>4. QED
    BY <1>1, <2>1, <2>3, PurgeAndSend
<1>5. QED
  BY <1>3, <1>4

LEMMA CancelMoves ==
  ASSUME AllInv, NEW s \in Sessions, NEW x \in Sessions, NEW R, NEW hard, CancelRecords(x, R, hard)
  PROVE  TableMove(s)
<1> DEFINE T == Cancellable(R \cap records[x], hard)
           m == Outcomes(T, "CANCELLED")
<1>1. T \in SUBSET Items
  BY DEF Cancellable, AllInv, CoreInv, RecordOK
<1>2. /\ EndQueued(T, "CANCELLED", m) /\ clean_close' = clean_close
      /\ SendFromReader(x, [m EXCEPT ![x] = Append(@, Control)])
  BY DEF CancelRecords, sessionVars
<1>3. m \in Mail
  BY <1>1, MailTypes DEF Terminal
<1> HIDE DEF T, m
<1>4. QED
  BY <1>1, <1>2, <1>3, EndsAndSends

LEMMA TableMoves ==
  ASSUME AllInv, [Next]_vars, NEW s \in Sessions
  PROVE  TableMove(s)
<1>0. \A x \in Sessions : records[x] \subseteq Items
  BY DEF AllInv, CoreInv, RecordOK
<1>1. ASSUME UNCHANGED recordVars, clean_close' = clean_close PROVE TableMove(s)
  BY <1>1 DEF TableMove, recordVars
<1> USE DEF sessionVars
<1>2. CASE Start \/ ServeStep \/ \E a \in ShutdownArgs : Shutdown(a)
  BY <1>1, <1>2 DEF Start, ServeStep, ServeInit, ServeBuilds, ServeBinds, ServePublishes, ServeDiscards,
                    StartFrame, Shutdown
<1>3. CASE \E x \in Sessions : ConnectionStep(x)
  <2> SUFFICES ASSUME NEW x \in Sessions, ConnectionStep(x) PROVE TableMove(s)
    BY <1>3
  <2>1. CASE Accept(x) \/ Admit(x) \/ Prepare(x) \/ HandshakeFails(x)
    BY <1>1, <2>1 DEF Accept, Admit, Prepare, HandshakeFails, Connects, ConnectionFrame
  <2>2. CASE Handshake(x)
    BY <2>2 DEF Handshake, TableMove
  <2>3. CASE CloseSession(x)
    BY <2>3 DEF CloseSession, TableMove, recordVars
  <2>4. CASE Query(x) \/ ReaderEnds(x) \/ WriterFails(x) \/ Deliver(x)
    BY <1>1, <2>4 DEF Query, Answers, ReaderEnds, WriterFails, Deliver
  <2>5. CASE \E hard \in BOOLEAN : CancelGroup(x, hard)
    BY <2>5, CancelMoves DEF CancelGroup
  <2>6. CASE Disconnect(x)
    <3>1. Purge({x}) /\ conn' = [conn EXCEPT ![x] = "gone"] /\ clean_close' = clean_close
      BY <2>6 DEF Disconnect
    <3>2. conn'[x] # "open"
      BY <3>1 DEF AllInv, OtherTypes
    <3>3. QED
      BY <3>1, <3>2, PurgeMoves DEF TableMove
  <2>7. QED
    BY <2>1, <2>2, <2>3, <2>4, <2>5, <2>6 DEF ConnectionStep, Arrival
<1>4. ASSUME NEW r \in Items, NEW what, Complete(r, what), clean_close' = clean_close PROVE TableMove(s)
  BY <1>4, PurgeAndSend DEF Complete
<1>5. CASE DispatcherStep
  <2>1. CASE DispatchFails
    <3>1. hand \in Items
      BY <2>1 DEF DispatchFails, AllInv, CoreInv, HandOK
    <3>2. QED
      BY <1>4, <2>1, <3>1 DEF DispatchFails, DispatchFrame
  <2>2. CASE (\E r \in Items : Dispatch(r)) \/ DispatcherExits \/ SubmitFuture \/ Restore \/ Attach
    BY <1>1, <2>2 DEF Dispatch, DispatcherExits, SubmitFuture, Restore, Attach, DispatchFrame
  <2>3. QED
    BY <1>5, <2>1, <2>2 DEF DispatcherStep
<1>6. CASE \E r \in Items : RequestStep(r)
  <2> SUFFICES ASSUME NEW r \in Items, RequestStep(r) PROVE TableMove(s)
    BY <1>6
  <2>1. CASE Submit(r)
    <3>1. sessions' = sessions /\ clean_close' = clean_close
      BY <2>1 DEF Submit
    <3>2. CASE s = SessionOf[r]
      BY <2>1, <3>1, <3>2 DEF TableMove
    <3>3. CASE s # SessionOf[r]
      <4>1. records'[s] = records[s]
        <5>1. records \in [Sessions -> SUBSET Items]
          BY DEF AllInv, CoreInv, RecordOK
        <5>2. \/ records' = records
              \/ records' = [records EXCEPT ![SessionOf[r]] = @ \cup {r}]
          BY <2>1 DEF Submit
        <5>3. QED
          BY <3>3, <5>1, <5>2
      <4>2. QED
        BY <3>1, <4>1 DEF TableMove
    <3>4. QED
      BY <3>2, <3>3
  <2>2. CASE SubmitAgain(r)
    BY <1>1, <2>2 DEF SubmitAgain, Answers
  <2>3. CASE Ack(r)
    <3>1. Forget({r}) /\ sessions' = sessions /\ clean_close' = clean_close
      BY <2>3 DEF Ack
    <3>2. records'[s] \subseteq records[s]
      BY <3>1 DEF Forget
    <3>3. QED
      BY <3>1, <3>2 DEF TableMove
  <2>4. CASE \E hard \in BOOLEAN : CancelRequest(r, hard)
    <3>1. SessionOf[r] \in Sessions
      BY BrokerAssumption
    <3>2. QED
      BY <2>4, <3>1, CancelMoves DEF CancelRequest
  <2>5. QED
    BY <2>1, <2>2, <2>3, <2>4 DEF RequestStep
<1>7. CASE \E r \in Items : Expire(r) \/ PoolStep(r) \/ ClaimAgain(r)
  <2> SUFFICES ASSUME NEW r \in Items, Expire(r) \/ PoolStep(r) \/ ClaimAgain(r) PROVE TableMove(s)
    BY <1>7
  <2>0. {r} \in SUBSET Items
    OBVIOUS
  <2>1. CASE Expire(r)
    BY <2>0, <2>1, EndsAndSends DEF Expire
  <2>2. CASE ClaimExpired(r)
    <3>1. PICK P \in PurgedByCallbacks({r}, About(r, "QUEUE_TIMED_OUT")) : Purge(P)
      BY <2>2 DEF ClaimExpired
    <3>2. P \subseteq ClosedAfter(About(r, "QUEUE_TIMED_OUT"))
      BY <2>0, <3>1, PurgedSessions
    <3>3. QED
      BY <2>2, <3>1, <3>2, PurgeAndSend DEF ClaimExpired
  <2>3. CASE PoolDone(r)
    BY <1>4, <2>3 DEF PoolDone
  <2>4. CASE PoolTakes(r) \/ Claim(r) \/ PoolSettles(r) \/ ClaimAgain(r)
    BY <1>1, <2>4 DEF PoolTakes, Claim, PoolSettles, ClaimAgain
  <2>5. QED
    BY <2>1, <2>2, <2>3, <2>4 DEF PoolStep
<1>8. CASE ShutdownStep
  <2>1. ASSUME NEW T, T \subseteq requests, EndBatch(T), clean_close' = clean_close PROVE TableMove(s)
    <3>1. T \in SUBSET Items
      BY <2>1 DEF AllInv, CoreInv, RecordOK
    <3>2. QED
      BY <2>1, <3>1, EndsAndSends DEF EndBatch
  <2>2. CASE DrainCancels
    BY <2>1, <2>2 DEF DrainCancels, Queued
  <2>3. CASE DrainDeadline
    <3> DEFINE T == {r \in Active : st[r] = "ACCEPTED_QUEUED" \/ local_future[r] # "none"}
    <3>1. T \subseteq requests /\ EndBatch(T) /\ clean_close' = clean_close
      BY <2>3 DEF DrainDeadline, Active
    <3> HIDE DEF T
    <3>2. QED
      BY <2>1, <3>1
  <2>4. CASE Drained \/ CloseBound \/ ClosePool \/ PoolClosed \/ Stopped \/ \E x \in Sessions : CloseConnection(x)
    BY <1>1, <2>4 DEF Drained, CloseBound, ClosePool, PoolClosed, Stopped, CloseConnection
  <2>5. QED
    BY <1>8, <2>2, <2>3, <2>4 DEF ShutdownStep
<1>9. CASE UNCHANGED vars
  BY <1>1, <1>9 DEF vars
<1>10. QED
  BY <1>2, <1>3, <1>5, <1>6, <1>7, <1>8, <1>9 DEF Next

\* A request of a client that was gone before the step: it runs, or its future
\* is done and the callback will forget it, or it is forgotten now.
LEMMA LeftKept ==
  ASSUME AllInv, ReleaseInv, [Next]_vars, LateMessages = FALSE,
         NEW s \in Sessions, conn[s] = "gone", NEW r \in records[s], r \in records'[s]
  PROVE  Left(r)'
<1> USE DEF AllInv, CoreInv
<1>0. /\ r \in Items /\ SessionOf[r] = s /\ s \in sessions /\ Left(r)
      /\ local_future \in [Items -> FutureState]
      /\ st \in [Items -> Live \cup Terminal \cup {"UNSENT", "REJECTED"}]
      /\ \A x \in Items : FutureOf(x)
      /\ NoItem \notin Items
  BY BrokerAssumption DEF RecordOK, FutureOK, ReleaseInv, SessionOK
<1>1. st[r] \notin {"UNSENT", "REJECTED", "ACCEPTED_QUEUED"} /\ (st[r] \in Live => st[r] = "RUNNING")
  BY <1>0 DEF Left, Terminal, Live
<1>3. CASE Quiet
  <2>1. st' = st /\ local_future' = local_future /\ hand' = hand
    BY <1>3 DEF Quiet
  <2>2. r = hand => dpc' = dpc
    BY <1>0, <1>3 DEF Quiet, HandOK
  <2>3. QED
    BY <1>0, <2>1, <2>2 DEF Left
<1>4. CASE SubmitFuture
  <2>1. st' = st /\ hand' = hand /\ dpc = "submit"
    BY <1>4 DEF SubmitFuture
  <2>2. r # hand => local_future'[r] = local_future[r]
    BY <1>0, <1>4 DEF SubmitFuture
  <2>3. QED
    BY <1>0, <2>1, <2>2 DEF Left
<1>5. CASE Restore
  <2>1. st' = st /\ hand' = NoItem /\ dpc = "full"
    BY <1>5 DEF Restore
  <2>2. r # hand => local_future'[r] = local_future[r]
    BY <1>0, <1>5 DEF Restore
  <2>3. QED
    BY <1>0, <2>1, <2>2 DEF Left
<1>6. CASE Attach
  BY <1>0, <1>6 DEF Attach, Left
<1>7. CASE SomeEnd
  <2>1. PICK T \in SUBSET requests, what \in Terminal, P \in SUBSET Sessions : Ends(T, what, P)
    BY <1>7 DEF SomeEnd
  <2>2. /\ st' = [x \in Items |-> IF x \in T /\ st[x] \notin Terminal THEN what ELSE st[x]]
        /\ local_future' = [x \in Items |-> IF x \in CalledBack(T) THEN "called"
                                            ELSE IF x \in Unfinished(T) THEN "done"
                                            ELSE local_future[x]]
        /\ hand' = hand /\ dpc' = dpc /\ Purge(P)
        /\ \A x \in CalledBack(T) : conn[SessionOf[x]] # "open" => SessionOf[x] \in P
        /\ \A x \in T : st[x] \in Live
    BY <2>1 DEF Ends, EndAs, CancelFutures, dispatchVars
  <2>3. CASE r \notin T
    <3>1. st'[r] = st[r] /\ local_future'[r] = local_future[r]
      BY <1>0, <2>2, <2>3 DEF CalledBack, Unfinished
    <3>2. QED
      BY <1>0, <2>2, <3>1 DEF Left
  <2>4. CASE r \in T
    <3>1. st[r] = "RUNNING" /\ st'[r] \in Terminal
      BY <1>0, <1>1, <2>2, <2>4
    <3>2. r \notin CalledBack(T)
      BY <1>0, <2>2, <3>1, PurgeMoves
    <3>3. local_future'[r] = "done"
      BY <1>0, <2>2, <2>4, <3>1, <3>2 DEF FutureOf, Unfinished
    <3>4. r = hand => dpc = "attach"
      BY <1>0, <3>1 DEF HandOK, FutureOf, Terminal
    <3>5. QED
      BY <2>2, <3>1, <3>3, <3>4 DEF Left
  <2>5. QED
    BY <2>3, <2>4
<1>8. CASE SomeCall
  <2>1. PICK x \in Items, what \in Terminal, P \in SUBSET Sessions : Calls(x, what, P)
    BY <1>8 DEF SomeCall
  <2>2. /\ st' = [y \in Items |-> IF y = x /\ st[y] \notin Terminal THEN what ELSE st[y]]
        /\ local_future' = [local_future EXCEPT ![x] = "called"]
        /\ Purge(P) /\ (conn[SessionOf[x]] # "open" => SessionOf[x] \in P)
        /\ (hand' = hand /\ dpc' = dpc) \/ hand' = NoItem
    BY <2>1 DEF Calls, EndAs, dispatchVars
  <2>3. CASE r = x
    <3>1. st'[r] \in Terminal /\ s \in P
      BY <1>0, <2>2, <2>3
    <3>2. QED
      BY <1>0, <2>2, <3>1, PurgeMoves
  <2>4. CASE r # x
    <3>1. st'[r] = st[r] /\ local_future'[r] = local_future[r]
      BY <1>0, <2>2, <2>4
    <3>2. QED
      BY <1>0, <2>2, <3>1 DEF Left
  <2>5. QED
    BY <2>3, <2>4
<1>9. ASSUME NEW x \in Items, Single(x) PROVE Left(r)'
  <2>1. CASE Submit(x)
    <3>1. r # x /\ hand' = hand /\ dpc' = dpc /\ local_future' = local_future
      BY <1>1, <2>1 DEF Submit, dispatchVars
    <3>2. st'[r] = st[r]
      BY <1>0, <2>1, <3>1 DEF Submit
    <3>3. QED
      BY <1>0, <3>1, <3>2 DEF Left
  <2>2. CASE Ack(x)
    BY <1>0, <2>2 DEF Ack, dispatchVars, Left
  <2>3. CASE Dispatch(x)
    <3>1. st' = st
      BY <2>3 DEF Dispatch
    <3>2. x \in QueuedItems
      BY <2>3, PopKeeps DEF Dispatch, QueuedItems
    <3>3. st[x] = "ACCEPTED_QUEUED"
      BY <1>0, <3>2 DEF FutureOf
    <3>4. r # x /\ hand' = x /\ local_future' = [local_future EXCEPT ![x] = "made"]
      BY <1>1, <2>3, <3>3 DEF Dispatch
    <3>5. local_future'[r] = local_future[r]
      BY <1>0, <3>4
    <3>6. QED
      BY <1>0, <3>1, <3>4, <3>5 DEF Left
  <2>4. CASE PoolTakes(x)
    <3>1. st' = st /\ hand' = hand /\ dpc' = dpc /\ (local_future[r] = "done" => local_future'[r] = "done")
      BY <1>0, <2>4 DEF PoolTakes, dispatchVars
    <3>2. QED
      BY <1>0, <3>1 DEF Left
  <2>5. CASE Claim(x)
    <3>1. r # x /\ hand' = hand /\ dpc' = dpc
      BY <1>1, <2>5 DEF Claim, dispatchVars
    <3>2. st'[r] = st[r] /\ local_future'[r] = local_future[r]
      BY <1>0, <2>5, <3>1 DEF Claim
    <3>3. QED
      BY <1>0, <3>1, <3>2 DEF Left
  <2>6. CASE PoolSettles(x)
    <3>1. st' = st /\ hand' = hand /\ dpc' = dpc /\ (local_future[r] = "done" => local_future'[r] = "done")
      BY <1>0, <2>6 DEF PoolSettles, dispatchVars
    <3>2. QED
      BY <1>0, <3>1 DEF Left
  <2>7. QED
    BY <1>9, <2>1, <2>2, <2>3, <2>4, <2>5, <2>6 DEF Single
<1>10. QED
  BY <1>3, <1>4, <1>5, <1>6, <1>7, <1>8, <1>9, Forms DEF HandStep

\* _disconnect leaves the requests that run, unless the policy ends those too.
LEMMA DisconnectLeaves ==
  ASSUME AllInv, ReleaseInv, Policy # "continue", NEW s \in Sessions, Disconnect(s), NEW r \in records'[s]
  PROVE  st'[r] = "RUNNING"
<1> USE DEF AllInv, CoreInv
<1> DEFINE drop == s \notin clean_close /\ Policy \in {"cancel_queued", "terminate"}
           T == {x \in records[s] :
                   /\ drop
                   /\ \/ st[x] = "ACCEPTED_QUEUED"
                      \/ /\ st[x] = "RUNNING"
                         /\ Policy = "terminate"
                         /\ local_future[x] # "none"}
<1>1. EndAs(T, "CANCELLED") /\ Purge({s})
  BY DEF Disconnect
<1>2. r \in records[s]
  BY <1>1, PurgeMoves
<1>3. r \in Items /\ SessionOf[r] = s /\ s \in sessions /\ st[r] \in Live \cup Terminal
  BY <1>2 DEF RecordOK, ReleaseInv, SessionOK
<1>4. st'[r] \notin Terminal
  BY <1>1, <1>3, PurgeMoves
<1>5. st'[r] = IF r \in T /\ st[r] \notin Terminal THEN "CANCELLED" ELSE st[r]
  BY <1>1, <1>3 DEF EndAs
<1>6. s \notin clean_close
  BY <1>2, <1>4, <1>5 DEF ReleaseInv, SessionOK, Terminal
<1>7. drop
  BY <1>6, BrokerAssumption DEF Policies
<1>8. r \notin T
  BY <1>4, <1>5 DEF Terminal
<1>9. QED
  BY <1>2, <1>3, <1>4, <1>5, <1>7, <1>8 DEF Live

LEMMA ReleaseKept ==
  ASSUME AllInv, ReleaseInv, [Next]_vars, LateMessages = FALSE, Policy # "continue"
  PROVE  ReleaseInv'
<1> SUFFICES ASSUME NEW s \in Sessions PROVE SessionOK(s)'
  BY DEF ReleaseInv
<1>0. SessionOK(s) /\ LinkMove(s) /\ TableMove(s) /\ AllInv' /\ \A r \in Items : StateMove(r)
  BY LinkMoves, TableMoves, StateMoves, Kept DEF ReleaseInv
<1>1. conn[s] # "open" \/ s \in clean_close => records'[s] \subseteq records[s]
  BY <1>0 DEF TableMove, Submit, Reads
<1>2. conn'[s] \in Early => records'[s] = {}
  BY <1>0, <1>1 DEF LinkMove, SessionOK, Early
<1>3. conn'[s] = "open" => s \in sessions'
  BY <1>0 DEF LinkMove, TableMove, SessionOK
<1>4. s \notin sessions' => records'[s] = {}
  <2>1. s \notin sessions => conn[s] # "open"
    BY <1>0 DEF SessionOK
  <2>2. QED
    BY <1>0, <1>1, <2>1 DEF TableMove, SessionOK
<1>5. s \in clean_close' => \A r \in records'[s] : st'[r] \in Terminal
  <2> SUFFICES ASSUME s \in clean_close', NEW r \in records'[s] PROVE st'[r] \in Terminal
    OBVIOUS
  <2>1. CASE s \in clean_close
    <3>1. r \in records[s] /\ st[r] \in Terminal /\ r \in Items
      BY <1>0, <1>1, <2>1 DEF SessionOK, AllInv, CoreInv, RecordOK
    <3>2. QED
      BY <1>0, <3>1 DEF StateMove, Live, Terminal
  <2>2. CASE CloseSession(s)
    <3>1. records' = records /\ st' = st /\ \A x \in records[s] : st[x] \in Terminal
      BY <2>2 DEF CloseSession, recordVars
    <3>2. QED
      BY <3>1
  <2>3. QED
    BY <1>0, <2>1, <2>2 DEF TableMove
<1>6. conn'[s] = "gone" => \A r \in records'[s] : Left(r)'
  <2> SUFFICES ASSUME conn'[s] = "gone", NEW r \in records'[s] PROVE Left(r)'
    OBVIOUS
  <2>1. CASE conn[s] = "gone"
    <3>1. r \in records[s]
      BY <1>1, <2>1
    <3>2. QED
      BY <2>1, <3>1, LeftKept
  <2>2. CASE conn[s] \in Early
    <3>1. records[s] = {} /\ conn[s] # "open"
      BY <1>0, <2>2 DEF SessionOK, Early
    <3>2. QED
      BY <1>1, <3>1
  <2>3. CASE Disconnect(s)
    BY <2>3, DisconnectLeaves DEF Left
  <2>4. QED
    BY <1>0, <2>1, <2>2, <2>3 DEF LinkMove
<1>7. QED
  BY <1>2, <1>3, <1>4, <1>5, <1>6 DEF SessionOK

LEMMA ReleaseBegins == Init => ReleaseInv
  BY DEF Init, ReleaseInv, SessionOK, Early

\* With the policies that end the work of a client that is gone, nothing is kept
\* for it once its connection has been dealt with, except what still runs and
\* what its callback is about to forget.  Left out are the policy "continue" and
\* a message that is handled after its connection was closed: both leave
\* outcomes behind that nobody can fetch.
THEOREM GoneClientsAreForgotten ==
  ASSUME Policy # "continue", LateMessages = FALSE
  PROVE  Spec => []DisconnectReleases
<1>1. Init => ReleaseInv
  BY ReleaseBegins
<1>2. AllInv /\ ReleaseInv /\ [Next]_vars => ReleaseInv'
  BY ReleaseKept
<1>3. ReleaseInv => DisconnectReleases
  BY DEF ReleaseInv, SessionOK, Left, DisconnectReleases, Live
<1>4. QED
  BY <1>1, <1>2, <1>3, ServerInvariant, PTL DEF Spec

-----------------------------------------------------------------------------
(* The server keeps the promise of RemoteService.                          *)

\* Only an open connection has messages, and a client that has not got through
\* the handshake has no request.
PromiseInv ==
  \A s \in Sessions : /\ conn[s] # "open" => out[s] = <<>>
                      /\ conn[s] \in Early => records[s] = {}

LEMMA EarlyAreSilent ==
  ASSUME AllInv, PromiseInv, [Next]_vars, NEW s \in Sessions, conn[s] \in Early,
         NEW r \in Items, SessionOf[r] = s
  PROVE  st'[r] = st[r]
<1>1. r \notin requests
  BY DEF PromiseInv, AllInv, CoreInv, RecordOK
<1>2. st[r] \notin Live
  BY <1>1 DEF AllInv, CoreInv, RecordOK
<1>3. ~Reads(SessionOf[r])
  BY DEF Reads, Early
<1>4. QED
  BY <1>2, <1>3, StateMoves DEF StateMove, Live

\* What a step says to session s is true, and says everything.
Truthful(s, q) ==
  \A i \in 1 .. Len(q) : \/ q[i].what = "CONTROL"
                         \/ q[i].of \in Items /\ SessionOf[q[i].of] = s /\ q[i].what = st'[q[i].of]
Reports(s, q) ==
  \A r \in Items : SessionOf[r] = s /\ st'[r] # st[r] =>
                     \E i \in 1 .. Len(q) : q[i] = [of |-> r, what |-> st'[r]]
TellsAll(m) == \A s \in Sessions : Truthful(s, m[s]) /\ Reports(s, m[s])

\* What becomes of session s in a step.
Served(s) ==
  /\ Service!Tells(s) \/ Service!Takes(s) \/ Service!Loses(s)
  /\ conn'[s] # "open" => out'[s] = <<>>

\* A session for which nothing happens.
LEMMA NothingNew ==
  ASSUME NEW s \in Sessions, out[s] \in Seq(Note), out'[s] = out[s],
         \A r \in Items : SessionOf[r] = s => st'[r] = st[r]
  PROVE  Service!Tells(s) \/ Service!Loses(s)
<1>1. Len(out[s]) \in Nat
  OBVIOUS
<1>2. SubSeq(out[s], Len(out[s]) + 1, Len(out[s])) = <<>>
  BY <1>1, SubSeqEmpty
<1>3. Service!News(s) = <<>> /\ Service!Changed(s) = {}
  BY <1>2 DEF Service!News, Service!Changed
<1>4. Service!SequenceOps!IsPrefix(out[s], out'[s]) /\ Service!SequenceOps!IsPrefix(out'[s], out[s])
  BY <1>1 DEF Service!SequenceOps!IsPrefix
<1>5. QED
  BY <1>3, <1>4 DEF Service!Tells, Service!Loses

\* A session whose connection is closed.
LEMMA NothingMore ==
  ASSUME NEW s \in Sessions, out[s] \in Seq(Note), out'[s] = <<>> \/ out'[s] = out[s], conn'[s] \in Closed
  PROVE  Service!Loses(s)
<1>1. Len(out[s]) \in Nat /\ Len(<<>>) = 0
  OBVIOUS
<1>2. SubSeq(out[s], 1, 0) = <<>> /\ SubSeq(<<>>, 1, 0) = <<>>
  BY SubSeqEmpty
<1>3. Service!SequenceOps!IsPrefix(out'[s], out[s])
  BY <1>1, <1>2 DEF Service!SequenceOps!IsPrefix
<1>4. QED
  BY <1>3 DEF Service!Loses, Closed

\* A session that is sent messages.
LEMMA SomethingNew ==
  ASSUME NEW s \in Sessions, out[s] \in Seq(Note), NEW q \in Seq(Note), out'[s] = out[s] \o q,
         conn'[s] \notin Closed, Truthful(s, q), Reports(s, q)
  PROVE  Service!Tells(s)
<1> DEFINE a == out[s]
           b == a \o q
           n == Len(a)
           k == Len(q)
<1>1. /\ n \in Nat /\ k \in Nat /\ b \in Seq(Note) /\ Len(b) = n + k
      /\ \A i \in 1 .. n + k : b[i] = IF i <= n THEN a[i] ELSE q[i - n]
  BY ConcatProperties, LenProperties
<1>2. \A i \in 1 .. n + k : b[i] \in Note
  BY <1>1
<1> DEFINE new == SubSeq(b, n + 1, n + k)
           old == SubSeq(b, 1, n)
<1> HIDE DEF a, b
<1>3. /\ Len(new) = k /\ new \in Seq(Note)
      /\ \A i \in 1 .. k : new[i] = q[i]
  <2>1. \A i \in n + 1 .. n + k : b[i] \in Note
    BY <1>1, <1>2
  <2>2. /\ new \in Seq(Note) /\ Len(new) = (IF n + 1 <= n + k THEN (n + k) - (n + 1) + 1 ELSE 0)
        /\ \A i \in 1 .. (n + k) - (n + 1) + 1 : new[i] = b[(n + 1) + i - 1]
    <3> HIDE DEF n, k
    <3>1. QED
      BY <1>1, <2>1, SubSeqProperties
  <2>3. (n + k) - (n + 1) + 1 = k
    BY <1>1
  <2>4. ASSUME NEW i \in 1 .. k PROVE new[i] = q[i]
    <3>1. n + i \in 1 .. n + k /\ (n + 1) + i - 1 = n + i /\ ~(n + i <= n) /\ (n + i) - n = i
      BY <1>1
    <3>2. QED
      BY <1>1, <2>2, <2>3, <3>1
  <2>5. QED
    BY <1>1, <2>2, <2>3, <2>4
<1>4. old = SubSeq(a, 1, n)
  <2>1. \A i \in 1 .. n : b[i] = a[i] /\ a[i] \in Note /\ b[i] \in Note
    BY <1>1 DEF a
  <2>2. /\ old \in Seq(Note) /\ Len(old) = n /\ \A i \in 1 .. n : old[i] = b[i]
    <3>1. /\ old \in Seq(Note) /\ Len(old) = (IF 1 <= n THEN n - 1 + 1 ELSE 0)
          /\ \A i \in 1 .. n - 1 + 1 : old[i] = b[1 + i - 1]
      <4> HIDE DEF n
      <4>1. QED
        BY <1>1, <2>1, SubSeqProperties
    <3>2. QED
      BY <1>1, <3>1
  <2>3. SubSeq(a, 1, n) = a
    BY SubSeqFull DEF a
  <2>4. a \in Seq(Note)
    BY DEF a
  <2>5. old = a
    <3> HIDE DEF old
    <3>1. QED
      BY <2>1, <2>2, <2>4, SeqEqual
  <2>6. QED
    BY <2>3, <2>5
<1>5. Service!News(s) = new
  BY <1>1 DEF Service!News, a, b
<1>6. Service!SequenceOps!IsPrefix(out[s], out'[s])
  BY <1>1, <1>4 DEF Service!SequenceOps!IsPrefix, a, b
<1>7. DOMAIN new = 1 .. k
  BY <1>3, LenProperties
<1> HIDE DEF new, k
<1>8. \A i \in DOMAIN new : Service!True(s, new[i])
  BY <1>3, <1>7 DEF Truthful, Service!True, k
<1>9. \A r \in Service!Changed(s) : \E i \in DOMAIN new : new[i] = [of |-> r, what |-> st'[r]]
  BY <1>3, <1>7, ZenonT(60) DEF Reports, Service!Changed, k
<1>10. QED
  BY <1>5, <1>6, <1>8, <1>9 DEF Service!Tells, Closed

\* A step that sends m: each session is told, or its connection is closed.
LEMMA MailServes ==
  ASSUME AllInv, PromiseInv, [Next]_vars, NEW m \in Mail, TellsAll(m),
         SendFrom(m) \/ \E x : SendFromReader(x, m), NEW s \in Sessions
  PROVE  Served(s)
<1>0. conn \in [Sessions -> ConnState] /\ out[s] \in Seq(Note) /\ m[s] \in Seq(Note)
  BY DEF AllInv, OtherTypes, Mail
<1>1. out'[s] = IF s \in ClosedAfter(m) THEN <<>> ELSE out[s] \o m[s]
  BY DEF SendFrom, SendFromReader, Send
<1>2. /\ conn'[s] = conn[s] \/ conn'[s] \in {"closed", "lost"}
      /\ s \in ClosedAfter(m) => conn'[s] # "open"
  BY <1>0, SendsMove
<1>3. CASE s \notin ClosedAfter(m)
  <2>1. conn[s] = "open" /\ conn'[s] = "open"
    BY <1>0, <1>3 DEF ClosedAfter, SendFrom, SendFromReader
  <2>2. conn'[s] \notin Closed
    BY <2>1 DEF Closed
  <2>3. Service!Tells(s)
    BY <1>0, <1>1, <1>3, <2>2, SomethingNew DEF TellsAll
  <2>4. QED
    BY <2>1, <2>3 DEF Served
<1>4. CASE s \in ClosedAfter(m)
  <2>1. out'[s] = <<>>
    BY <1>1, <1>4
  <2>2. CASE conn[s] \in Early
    <3>1. out'[s] = out[s]
      BY <2>1, <2>2 DEF PromiseInv, Early
    <3>2. \A r \in Items : SessionOf[r] = s => st'[r] = st[r]
      BY <2>2, EarlyAreSilent
    <3>3. QED
      BY <1>0, <2>1, <3>1, <3>2, NothingNew DEF Served
  <2>3. CASE conn[s] \notin Early
    <3>1. conn'[s] \in Closed
      BY <1>0, <1>2, <1>4, <2>3 DEF Early, Closed, ConnState
    <3>2. QED
      BY <1>0, <2>1, <3>1, NothingMore DEF Served
  <2>4. QED
    BY <2>2, <2>3
<1>5. QED
  BY <1>3, <1>4

\* A step that sends nothing and gives no request of session s another state.
LEMMA SilenceServes ==
  ASSUME AllInv, PromiseInv, NEW s \in Sessions, out'[s] = out[s],
         \A r \in Items : SessionOf[r] = s => st'[r] = st[r],
         conn[s] = "open" => conn'[s] = "open"
  PROVE  Served(s)
<1>1. out[s] \in Seq(Note)
  BY DEF AllInv, OtherTypes
<1>2. Service!Tells(s) \/ Service!Loses(s)
  BY <1>1, NothingNew
<1>3. QED
  BY <1>2 DEF Served, PromiseInv

-----------------------------------------------------------------------------
(* What the messages of a step say.                                        *)

LEMMA NothingTells ==
  ASSUME \A r \in Items : st'[r] = st[r]
  PROVE  TellsAll(Nothing)
<1>1. ASSUME NEW s \in Sessions PROVE Nothing[s] = <<>> /\ Len(Nothing[s]) = 0
  BY DEF Nothing
<1>2. ASSUME NEW s \in Sessions PROVE Truthful(s, Nothing[s]) /\ Reports(s, Nothing[s])
  BY <1>1 DEF Truthful, Reports
<1>3. QED
  BY <1>2 DEF TellsAll

LEMMA ControlTells ==
  ASSUME \A r \in Items : st'[r] = st[r], NEW x \in Sessions
  PROVE  TellsAll(To(x, <<Control>>))
<1>1. ASSUME NEW s \in Sessions
      PROVE  To(x, <<Control>>)[s] = IF s = x THEN <<Control>> ELSE <<>>
  BY DEF To, Nothing
<1>2. Len(<<>>) = 0 /\ Len(<<Control>>) = 1 /\ <<Control>>[1] = Control /\ Control.what = "CONTROL"
  BY DEF Control
<1>3. ASSUME NEW s \in Sessions PROVE Truthful(s, To(x, <<Control>>)[s]) /\ Reports(s, To(x, <<Control>>)[s])
  <2>1. Reports(s, To(x, <<Control>>)[s])
    BY DEF Reports
  <2>2. Truthful(s, <<>>) /\ Truthful(s, <<Control>>)
    BY <1>2 DEF Truthful
  <2>3. QED
    BY <1>1, <2>1, <2>2
<1>4. QED
  BY <1>3 DEF TellsAll

LEMMA AboutTells ==
  ASSUME NEW r \in Items, NEW v, st'[r] = v, \A x \in Items \ {r} : st'[x] = st[x]
  PROVE  TellsAll(About(r, v))
<1> DEFINE note == [of |-> r, what |-> v]
<1>1. ASSUME NEW s \in Sessions
      PROVE  About(r, v)[s] = IF s = SessionOf[r] THEN <<note>> ELSE <<>>
  BY DEF About, To, Nothing
<1>2. Len(<<>>) = 0 /\ Len(<<note>>) = 1 /\ <<note>>[1] = note /\ note.of = r /\ note.what = v
  OBVIOUS
<1> HIDE DEF note
<1>3. ASSUME NEW s \in Sessions PROVE Truthful(s, About(r, v)[s]) /\ Reports(s, About(r, v)[s])
  <2>1. CASE s = SessionOf[r]
    <3>1. Truthful(s, <<note>>)
      BY <1>2, <2>1 DEF Truthful
    <3>2. Reports(s, <<note>>)
      <4>1. ASSUME NEW x \in Items, st'[x] # st[x]
            PROVE  \E i \in 1 .. Len(<<note>>) : <<note>>[i] = [of |-> x, what |-> st'[x]]
        <5>1. x = r
          BY <4>1
        <5>2. note = [of |-> x, what |-> st'[x]]
          BY <5>1 DEF note
        <5>3. QED
          BY <1>2, <5>2
      <4>2. QED
        BY <4>1 DEF Reports
    <3>3. QED
      BY <1>1, <2>1, <3>1, <3>2
  <2>2. CASE s # SessionOf[r]
    <3>1. Truthful(s, <<>>) /\ Reports(s, <<>>)
      BY <1>2, <2>2 DEF Truthful, Reports
    <3>2. QED
      BY <1>1, <2>2, <3>1
  <2>3. QED
    BY <2>1, <2>2
<1>4. QED
  BY <1>3 DEF TellsAll

\* InOrder leaves none out.
LEMMA OrderIsComplete ==
  ASSUME NEW R \in SUBSET Items
  PROVE  \A r \in R : \E i \in 1 .. Cardinality(R) : InOrder(R)[i] = r
<1>1. PICK n \in Nat : n = Cardinality(R)
  BY Finite
<1>2. PICK q \in [1 .. n -> R] :
        /\ q = InOrder(R)
        /\ \A i, j \in 1 .. n : i < j => q[i] # q[j]
  BY <1>1, OrderExists
<1>3. q \in Injection(1 .. n, R)
  <2>1. ASSUME NEW i \in 1 .. n, NEW j \in 1 .. n, q[i] = q[j] PROVE i = j
    BY <1>2, <2>1
  <2>2. QED
    BY <2>1 DEF Injection, IsInjective
<1>4. Cardinality(1 .. n) = n
  BY FS_Interval
<1>5. IsFiniteSet(R)
  BY Finite
<1>6. q \in Surjection(1 .. n, R)
  BY <1>1, <1>3, <1>4, <1>5, FS_Injection
<1>7. QED
  BY <1>1, <1>2, <1>6 DEF Surjection

LEMMA OutcomesTell ==
  ASSUME NEW T \in SUBSET Items, NEW what \in Terminal,
         \A r \in T : st'[r] = what, \A r \in Items \ T : st'[r] = st[r]
  PROVE  TellsAll(Outcomes(T, what))
<1>1. ASSUME NEW s \in Sessions
      PROVE  Truthful(s, Outcomes(T, what)[s]) /\ Reports(s, Outcomes(T, what)[s])
  <2> DEFINE R == {r \in T : SessionOf[r] = s}
  <2>1. R \in SUBSET Items
    OBVIOUS
  <2>0. PICK n \in Nat : n = Cardinality(R)
    <3> HIDE DEF R
    <3>1. QED
      BY <2>1, Finite
  <2>2. PICK q \in [1 .. n -> R] :
          /\ q = InOrder(R)
          /\ \A r \in R : \E i \in 1 .. n : q[i] = r
    <3> HIDE DEF R
    <3>1. QED
      BY <2>1, <2>0, OrderExists, OrderIsComplete
  <2> DEFINE m == [i \in 1 .. n |-> [of |-> q[i], what |-> what]]
  <2>3. Outcomes(T, what)[s] = m
    BY <2>0, <2>2 DEF Outcomes
  <2>4. Len(m) = n /\ \A i \in 1 .. n : m[i] = [of |-> q[i], what |-> what]
    OBVIOUS
  <2> HIDE DEF m
  <2>5. Truthful(s, m)
    <3>1. ASSUME NEW i \in 1 .. n
          PROVE  m[i].of \in Items /\ SessionOf[m[i].of] = s /\ m[i].what = st'[m[i].of]
      <4>1. q[i] \in R /\ m[i].of = q[i] /\ m[i].what = what
        BY <2>4
      <4>2. QED
        BY <4>1
    <3>2. QED
      BY <2>4, <3>1 DEF Truthful
  <2>6. Reports(s, m)
    <3>1. ASSUME NEW r \in Items, SessionOf[r] = s, st'[r] # st[r]
          PROVE  \E i \in 1 .. Len(m) : m[i] = [of |-> r, what |-> st'[r]]
      <4>1. r \in T /\ r \in R /\ st'[r] = what
        BY <3>1
      <4>2. PICK i \in 1 .. n : q[i] = r
        BY <2>2, <4>1
      <4>3. QED
        BY <2>4, <4>1, <4>2
    <3>2. QED
      BY <3>1 DEF Reports
  <2>7. QED
    BY <2>3, <2>5, <2>6
<1>2. QED
  BY <1>1 DEF TellsAll

LEMMA ControlMay ==
  ASSUME NEW m \in Mail, TellsAll(m), NEW x \in Sessions
  PROVE  TellsAll([m EXCEPT ![x] = Append(@, Control)])
<1> DEFINE n == [m EXCEPT ![x] = Append(@, Control)]
<1>0. Control \in Note /\ Control.what = "CONTROL"
  BY BrokerAssumption DEF Control, Note, Message
<1>1. ASSUME NEW s \in Sessions PROVE Truthful(s, n[s]) /\ Reports(s, n[s])
  <2>0. m[s] \in Seq(Note) /\ Truthful(s, m[s]) /\ Reports(s, m[s])
    BY DEF Mail, TellsAll
  <2>1. CASE s # x
    <3>1. n[s] = m[s]
      BY <2>1 DEF Mail
    <3>2. QED
      BY <2>0, <3>1
  <2>2. CASE s = x
    <3> DEFINE q == Append(m[s], Control)
    <3>1. n[s] = q
      BY <2>2 DEF Mail
    <3>2. /\ Len(m[s]) \in Nat /\ Len(q) = Len(m[s]) + 1 /\ q[Len(m[s]) + 1] = Control
          /\ \A i \in 1 .. Len(m[s]) : q[i] = m[s][i]
      BY <1>0, <2>0, AppendProperties, LenProperties
    <3> HIDE DEF q
    <3>3. Truthful(s, q)
      <4>1. ASSUME NEW i \in 1 .. Len(q)
            PROVE  \/ q[i].what = "CONTROL"
                   \/ q[i].of \in Items /\ SessionOf[q[i].of] = s /\ q[i].what = st'[q[i].of]
        <5>1. CASE i = Len(m[s]) + 1
          BY <1>0, <3>2, <5>1
        <5>2. CASE i \in 1 .. Len(m[s])
          BY <2>0, <3>2, <5>2 DEF Truthful
        <5>3. QED
          BY <3>2, <5>1, <5>2
      <4>2. QED
        BY <4>1 DEF Truthful
    <3>4. Reports(s, q)
      <4>1. ASSUME NEW r \in Items, SessionOf[r] = s, st'[r] # st[r]
            PROVE  \E i \in 1 .. Len(q) : q[i] = [of |-> r, what |-> st'[r]]
        <5>1. PICK i \in 1 .. Len(m[s]) : m[s][i] = [of |-> r, what |-> st'[r]]
          BY <2>0, <4>1 DEF Reports
        <5>2. i \in 1 .. Len(q) /\ q[i] = m[s][i]
          BY <3>2
        <5>3. QED
          BY <5>1, <5>2
      <4>2. QED
        BY <4>1 DEF Reports
    <3>5. QED
      BY <3>1, <3>3, <3>4
  <2>3. QED
    BY <2>1, <2>2
<1> HIDE DEF n
<1>2. TellsAll(n)
  BY <1>1 DEF TellsAll
<1>3. QED
  BY <1>2 DEF n

-----------------------------------------------------------------------------
(* Every step serves every session.                                        *)

\* Several requests end at once.
LEMMA BatchServes ==
  ASSUME AllInv, PromiseInv, [Next]_vars, NEW s \in Sessions, NEW T \in SUBSET Items,
         \A r \in T : st[r] \in Live, EndAs(T, "CANCELLED"),
         \/ SendFrom(Outcomes(T, "CANCELLED"))
         \/ \E x \in Sessions : SendFromReader(x, [Outcomes(T, "CANCELLED") EXCEPT ![x] = Append(@, Control)])
  PROVE  Served(s)
<1> DEFINE m == Outcomes(T, "CANCELLED")
<1>0. "CANCELLED" \in Terminal
  BY DEF Terminal
<1>1. (\A r \in T : st'[r] = "CANCELLED") /\ \A r \in Items \ T : st'[r] = st[r]
  BY DEF EndAs, Live, Terminal
<1>2. m \in Mail /\ TellsAll(m)
  BY <1>0, <1>1, MailTypes, OutcomesTell
<1> HIDE DEF m
<1>3. CASE SendFrom(m)
  BY <1>2, <1>3, MailServes
<1>4. CASE \E x \in Sessions : SendFromReader(x, [m EXCEPT ![x] = Append(@, Control)])
  <2>1. PICK x \in Sessions : SendFromReader(x, [m EXCEPT ![x] = Append(@, Control)])
    BY <1>4
  <2>2. [m EXCEPT ![x] = Append(@, Control)] \in Mail /\ TellsAll([m EXCEPT ![x] = Append(@, Control)])
    BY <1>2, MailTypes, ControlMay
  <2>3. QED
    BY <2>1, <2>2, MailServes
<1>5. QED
  BY <1>3, <1>4 DEF m

LEMMA CancelServes ==
  ASSUME AllInv, PromiseInv, [Next]_vars, NEW s \in Sessions, NEW x \in Sessions, NEW R, NEW hard,
         CancelRecords(x, R, hard)
  PROVE  Served(s)
<1> DEFINE T == Cancellable(R \cap records[x], hard)
<1>1. T \in SUBSET Items /\ \A r \in T : st[r] \in Live
  BY DEF Cancellable, AllInv, CoreInv, RecordOK, Live
<1>2. /\ EndAs(T, "CANCELLED")
      /\ SendFromReader(x, [Outcomes(T, "CANCELLED") EXCEPT ![x] = Append(@, Control)])
  BY DEF CancelRecords, EndQueued
<1> HIDE DEF T
<1>3. QED
  BY <1>1, <1>2, BatchServes

\* One request ends or moves, and its session is told.
LEMMA AboutServes ==
  ASSUME AllInv, PromiseInv, [Next]_vars, NEW s \in Sessions, NEW r \in Items,
         NEW v \in Live \cup Terminal \cup {"REJECTED"},
         st'[r] = v, \A x \in Items \ {r} : st'[x] = st[x],
         SendFrom(About(r, v)) \/ \E x : SendFromReader(x, About(r, v))
  PROVE  Served(s)
<1>1. About(r, v) \in Mail /\ TellsAll(About(r, v))
  BY MailTypes, AboutTells
<1>2. QED
  BY <1>1, MailServes

LEMMA CompleteServes ==
  ASSUME AllInv, PromiseInv, [Next]_vars, NEW s \in Sessions, NEW r \in Items, NEW what \in Terminal,
         Complete(r, what)
  PROVE  Served(s)
<1>0. \A x \in Items : st'[x] = IF x = r /\ st[x] \notin Terminal THEN what ELSE st[x]
  BY DEF Complete, EndAs
<1>1. CASE st[r] \in Terminal
  <2>1. SendFrom(Nothing) /\ \A x \in Items : st'[x] = st[x]
    BY <1>0, <1>1 DEF Complete
  <2>2. QED
    BY <2>1, MailTypes, NothingTells, MailServes
<1>2. CASE st[r] \notin Terminal
  <2>1. SendFrom(About(r, what)) /\ st'[r] = what /\ \A x \in Items \ {r} : st'[x] = st[x]
    BY <1>0, <1>2 DEF Complete
  <2>2. QED
    BY <2>1, AboutServes
<1>3. QED
  BY <1>1, <1>2

LEMMA ConnectionServes ==
  ASSUME AllInv, PromiseInv, [Next]_vars, NEW s \in Sessions, NEW x \in Sessions, ConnectionStep(x)
  PROVE  Served(s)
<1>0. /\ conn \in [Sessions -> ConnState] /\ out \in Mail /\ out[s] \in Seq(Note)
      /\ \A r \in requests : SessionOf[r] \in Sessions
  BY BrokerAssumption DEF AllInv, OtherTypes, Mail, CoreInv, RecordOK
<1>1. CASE Accept(x) \/ Admit(x) \/ Prepare(x) \/ HandshakeFails(x)
  <2>1. PICK c : conn' = [conn EXCEPT ![x] = c] /\ conn[x] # "open" /\ out' = out /\ st' = st
    BY <1>1 DEF Accept, Admit, Prepare, HandshakeFails, Connects, ConnectionFrame
  <2>2. conn[s] = "open" => conn'[s] = "open"
    BY <1>0, <2>1
  <2>3. QED
    BY <2>1, <2>2, SilenceServes
<1>2. CASE Handshake(x)
  <2>1. /\ conn' = [conn EXCEPT ![x] = IF conn[x] = "new" THEN "open" ELSE "lost"]
        /\ out' = IF conn[x] = "new" THEN [out EXCEPT ![x] = <<Control>>] ELSE out
        /\ st' = st /\ conn[x] \in {"new", "shut"}
    BY <1>2 DEF Handshake
  <2>2. CASE s # x \/ conn[x] = "shut"
    <3>1. out'[s] = out[s] /\ (conn[s] = "open" => conn'[s] = "open")
      BY <1>0, <2>1, <2>2 DEF Mail
    <3>2. QED
      BY <2>1, <3>1, SilenceServes
  <2>3. CASE s = x /\ conn[x] = "new"
    <3>1. conn'[s] = "open" /\ out'[s] = <<Control>> /\ out[s] = <<>>
      BY <1>0, <2>1, <2>3 DEF Mail, PromiseInv
    <3>2. Control \in Note
      BY BrokerAssumption DEF Control, Note, Message
    <3>3. <<Control>> \in Seq(Note) /\ <<>> \o <<Control>> = <<Control>>
      BY <3>2
    <3>4. TellsAll(To(x, <<Control>>))
      BY <2>1, ControlTells
    <3>5. To(x, <<Control>>)[x] = <<Control>>
      BY DEF To, Nothing
    <3>6. Truthful(s, <<Control>>) /\ Reports(s, <<Control>>)
      BY <2>3, <3>4, <3>5 DEF TellsAll
    <3>7. Service!Tells(s)
      BY <1>0, <3>1, <3>3, <3>6, SomethingNew DEF Closed
    <3>8. QED
      BY <3>1, <3>7 DEF Served
  <2>4. QED
    BY <2>1, <2>2, <2>3
<1>3. CASE Query(x) \/ CloseSession(x)
  <2>1. st' = st /\ SendFromReader(x, To(x, <<Control>>))
    BY <1>3 DEF Query, Answers, CloseSession
  <2>2. To(x, <<Control>>) \in Mail /\ TellsAll(To(x, <<Control>>))
    BY <2>1, MailTypes, ControlTells
  <2>3. QED
    BY <2>1, <2>2, MailServes
<1>4. CASE ReaderEnds(x) \/ WriterFails(x)
  <2>1. PICK c \in {"lost", "closed"} : conn' = [conn EXCEPT ![x] = c]
    BY <1>4 DEF ReaderEnds, WriterFails
  <2>2. out' = [out EXCEPT ![x] = <<>>] /\ st' = st
    BY <1>4 DEF ReaderEnds, WriterFails
  <2>3. CASE s = x
    <3>1. out'[s] = <<>> /\ conn'[s] \in Closed
      BY <1>0, <2>1, <2>2, <2>3 DEF Mail, Closed
    <3>2. QED
      BY <1>0, <3>1, NothingMore DEF Served
  <2>4. CASE s # x
    <3>1. out'[s] = out[s] /\ conn'[s] = conn[s]
      BY <1>0, <2>1, <2>2, <2>4 DEF Mail
    <3>2. QED
      BY <2>2, <3>1, SilenceServes
  <2>5. QED
    BY <2>3, <2>4
<1>5. CASE Deliver(x)
  <2>1. /\ conn[x] = "open" /\ conn' = conn /\ out[x] # <<>> /\ st' = st
        /\ out' = [out EXCEPT ![x] = Tail(@)]
    BY <1>5 DEF Deliver
  <2>2. CASE s = x
    <3>1. out'[s] = Tail(out[s]) /\ Service!Changed(s) = {}
      BY <1>0, <2>1, <2>2 DEF Mail, Service!Changed
    <3>2. QED
      BY <2>1, <2>2, <3>1 DEF Served, Service!Takes
  <2>3. CASE s # x
    <3>1. out'[s] = out[s]
      BY <1>0, <2>1, <2>3 DEF Mail
    <3>2. QED
      BY <2>1, <3>1, SilenceServes
  <2>4. QED
    BY <2>2, <2>3
<1>6. CASE \E hard \in BOOLEAN : CancelGroup(x, hard)
  BY <1>6, CancelServes DEF CancelGroup
<1>7. CASE Disconnect(x)
  <2>1. conn[x] = "lost" /\ conn' = [conn EXCEPT ![x] = "gone"] /\ out' = out
    BY <1>7 DEF Disconnect
  <2>2. CASE s = x
    <3>1. conn'[s] \in Closed /\ out'[s] = out[s] /\ out[s] = <<>>
      BY <1>0, <2>1, <2>2 DEF Closed, PromiseInv
    <3>2. QED
      BY <1>0, <3>1, NothingMore DEF Served
  <2>3. CASE s # x
    <3>1. \A r \in Items : r \notin records[x] => st'[r] = st[r]
      BY <1>7 DEF Disconnect, EndAs
    <3>2. \A r \in Items : SessionOf[r] = s => r \notin records[x]
      BY <2>3 DEF AllInv, CoreInv, RecordOK
    <3>3. conn'[s] = conn[s]
      BY <1>0, <2>1, <2>3
    <3>4. QED
      BY <2>1, <3>1, <3>2, <3>3, SilenceServes
  <2>4. QED
    BY <2>2, <2>3
<1>8. QED
  BY <1>1, <1>2, <1>3, <1>4, <1>5, <1>6, <1>7 DEF ConnectionStep, Arrival

LEMMA EveryoneIsServed ==
  ASSUME AllInv, PromiseInv, [Next]_vars, NEW s \in Sessions
  PROVE  Served(s)
<1>0. /\ conn \in [Sessions -> ConnState] /\ out \in Mail /\ out[s] \in Seq(Note)
      /\ st \in [Items -> Live \cup Terminal \cup {"UNSENT", "REJECTED"}]
      /\ {"CANCELLED", "QUEUE_TIMED_OUT", "WORKER_LOST"} \subseteq Terminal
      /\ {"ACCEPTED_QUEUED", "RUNNING"} \subseteq Live
  BY DEF AllInv, OtherTypes, Mail, CoreInv, RecordOK, Terminal, Live
<1>1. ASSUME UNCHANGED <<out, st, conn>> PROVE Served(s)
  BY <1>1, SilenceServes
<1>2. CASE Start \/ ServeStep \/ \E a \in ShutdownArgs : Shutdown(a)
  BY <1>1, <1>2 DEF Start, ServeStep, ServeInit, ServeBuilds, ServeBinds, ServePublishes, ServeDiscards,
                    StartFrame, Shutdown
<1>3. CASE \E x \in Sessions : ConnectionStep(x)
  BY <1>3, ConnectionServes
<1>4. CASE DispatcherStep
  <2>1. CASE DispatchFails
    <3>1. hand \in Items
      BY <2>1 DEF DispatchFails, AllInv, CoreInv, HandOK
    <3>2. QED
      BY <1>0, <2>1, <3>1, CompleteServes DEF DispatchFails
  <2>2. CASE (\E r \in Items : Dispatch(r)) \/ DispatcherExits \/ SubmitFuture \/ Restore \/ Attach
    BY <1>1, <2>2 DEF Dispatch, DispatcherExits, SubmitFuture, Restore, Attach
  <2>3. QED
    BY <1>4, <2>1, <2>2 DEF DispatcherStep
<1>5. CASE \E r \in Items : RequestStep(r)
  <2> SUFFICES ASSUME NEW r \in Items, RequestStep(r) PROVE Served(s)
    BY <1>5
  <2>1. CASE Submit(r)
    <3>1. PICK v \in {"ACCEPTED_QUEUED", "REJECTED"} :
            st' = [st EXCEPT ![r] = v] /\ SendFromReader(SessionOf[r], About(r, v))
      BY <2>1 DEF Submit
    <3>2. st'[r] = v /\ (\A x \in Items \ {r} : st'[x] = st[x]) /\ v \in Live \cup Terminal \cup {"REJECTED"}
      BY <1>0, <3>1
    <3>3. QED
      BY <3>1, <3>2, AboutServes
  <2>2. CASE SubmitAgain(r)
    <3>1. st' = st /\ SendFromReader(SessionOf[r], About(r, st[r])) /\ st[r] \in Live \cup Terminal
      BY <2>2, BrokerAssumption DEF SubmitAgain, Answers, AllInv, CoreInv, RecordOK
    <3>2. PICK v \in Live \cup Terminal \cup {"REJECTED"} : v = st[r]
      BY <3>1
    <3>3. st'[r] = v /\ (\A x \in Items \ {r} : st'[x] = st[x]) /\ SendFromReader(SessionOf[r], About(r, v))
      BY <3>1, <3>2
    <3>4. QED
      BY <3>3, AboutServes
  <2>3. CASE Ack(r)
    <3>1. st' = st /\ SendFromReader(SessionOf[r], Nothing)
      BY <2>3 DEF Ack
    <3>2. QED
      BY <3>1, MailTypes, NothingTells, MailServes
  <2>4. CASE \E hard \in BOOLEAN : CancelRequest(r, hard)
    <3>1. SessionOf[r] \in Sessions
      BY BrokerAssumption
    <3>2. QED
      BY <2>4, <3>1, CancelServes DEF CancelRequest
  <2>5. QED
    BY <2>1, <2>2, <2>3, <2>4 DEF RequestStep
<1>6. CASE \E r \in Items : Expire(r) \/ PoolStep(r) \/ ClaimAgain(r)
  <2> SUFFICES ASSUME NEW r \in Items, Expire(r) \/ PoolStep(r) \/ ClaimAgain(r) PROVE Served(s)
    BY <1>6
  <2>1. CASE Expire(r) \/ ClaimExpired(r)
    <3>1. /\ EndAs({r}, "QUEUE_TIMED_OUT") /\ st[r] = "ACCEPTED_QUEUED"
          /\ SendFrom(About(r, "QUEUE_TIMED_OUT"))
      BY <2>1 DEF Expire, EndQueued, ClaimExpired
    <3>2. st'[r] = "QUEUE_TIMED_OUT" /\ \A x \in Items \ {r} : st'[x] = st[x]
      BY <3>1 DEF EndAs, Terminal
    <3>3. QED
      BY <1>0, <3>1, <3>2, AboutServes
  <2>2. CASE Claim(r) \/ ClaimAgain(r)
    <3>1. SendFrom(About(r, "RUNNING")) /\ st'[r] = "RUNNING" /\ \A x \in Items \ {r} : st'[x] = st[x]
      BY <1>0, <2>2 DEF Claim, ClaimAgain
    <3>2. QED
      BY <1>0, <3>1, AboutServes
  <2>3. CASE PoolDone(r)
    <3>1. PICK what \in Terminal : Complete(r, what)
      BY <1>0, <2>3, BrokerAssumption DEF PoolDone
    <3>2. QED
      BY <3>1, CompleteServes
  <2>4. CASE PoolTakes(r) \/ PoolSettles(r)
    BY <1>1, <2>4 DEF PoolTakes, PoolSettles
  <2>5. QED
    BY <2>1, <2>2, <2>3, <2>4 DEF PoolStep
<1>7. CASE ShutdownStep
  <2>1. ASSUME NEW T, T \subseteq Active, EndBatch(T) PROVE Served(s)
    <3>1. T \in SUBSET Items /\ \A r \in T : st[r] \in Live
      BY <2>1 DEF Active, AllInv, CoreInv, RecordOK
    <3>2. EndAs(T, "CANCELLED") /\ SendFrom(Outcomes(T, "CANCELLED"))
      BY <2>1 DEF EndBatch, EndQueued
    <3>3. QED
      BY <3>1, <3>2, BatchServes
  <2>2. CASE DrainCancels
    BY <1>0, <2>1, <2>2 DEF DrainCancels, Queued, Active
  <2>3. CASE DrainDeadline
    <3> DEFINE T == {r \in Active : st[r] = "ACCEPTED_QUEUED" \/ local_future[r] # "none"}
    <3>1. T \subseteq Active /\ EndBatch(T)
      BY <2>3 DEF DrainDeadline
    <3> HIDE DEF T
    <3>2. QED
      BY <2>1, <3>1
  <2>4. CASE Drained \/ ClosePool \/ PoolClosed \/ Stopped
    BY <1>1, <2>4 DEF Drained, ClosePool, PoolClosed, Stopped
  <2>5. CASE CloseBound
    <3>1. out' = out /\ st' = st /\ (conn[s] = "open" => conn'[s] = "open")
      BY <2>5 DEF CloseBound
    <3>2. QED
      BY <3>1, SilenceServes
  <2>6. CASE \E x \in Sessions : CloseConnection(x)
    <3>1. PICK x \in Sessions, c \in {"shut", "closed"} :
            conn' = [conn EXCEPT ![x] = c] /\ out' = [out EXCEPT ![x] = <<>>] /\ st' = st
      BY <2>6 DEF CloseConnection
    <3>2. CASE s = x
      <4>1. out'[s] = <<>> /\ conn'[s] \in Closed
        BY <1>0, <3>1, <3>2 DEF Mail, Closed
      <4>2. QED
        BY <1>0, <4>1, NothingMore DEF Served
    <3>3. CASE s # x
      <4>1. out'[s] = out[s] /\ conn'[s] = conn[s]
        BY <1>0, <3>1, <3>3 DEF Mail
      <4>2. QED
        BY <3>1, <4>1, SilenceServes
    <3>4. QED
      BY <3>2, <3>3
  <2>7. QED
    BY <1>7, <2>2, <2>3, <2>4, <2>5, <2>6 DEF ShutdownStep
<1>8. CASE UNCHANGED vars
  BY <1>1, <1>8 DEF vars
<1>9. QED
  BY <1>2, <1>3, <1>4, <1>5, <1>6, <1>7, <1>8 DEF Next

LEMMA PromiseKept == AllInv /\ PromiseInv /\ [Next]_vars => PromiseInv'
<1> SUFFICES ASSUME AllInv, PromiseInv, [Next]_vars, NEW s \in Sessions
             PROVE  /\ conn'[s] # "open" => out'[s] = <<>>
                    /\ conn'[s] \in Early => records'[s] = {}
  BY DEF PromiseInv
<1>1. Served(s) /\ LinkMove(s) /\ TableMove(s)
  BY EveryoneIsServed, LinkMoves, TableMoves
<1>2. conn'[s] \in Early => records'[s] = {}
  BY <1>1 DEF LinkMove, TableMove, PromiseInv, Submit, Reads, Early
<1>3. QED
  BY <1>1, <1>2 DEF Served

LEMMA PromiseBegins == Init => PromiseInv /\ Service!ServiceInit
<1> SUFFICES ASSUME Init PROVE PromiseInv /\ Service!ServiceInit
  OBVIOUS
<1>1. \A s \in Sessions : conn[s] \in {"away", "new"} /\ out[s] = <<>> /\ records[s] = {}
  BY DEF Init
<1>2. PromiseInv
  BY <1>1 DEF PromiseInv
<1>3. {s \in Sessions : conn[s] \notin {"shut", "closed", "lost", "gone"}} = Sessions
  BY <1>1
<1>4. QED
  BY <1>2, <1>3 DEF Init, Service!ServiceInit

\* Every step of the server is a step of the service.
LEMMA StepsImplement ==
  AllInv /\ PromiseInv /\ [Next]_vars => [Service!ServiceNext]_(Service!serviceVars)
<1> SUFFICES ASSUME AllInv, PromiseInv, [Next]_vars PROVE Service!ServiceNext
  OBVIOUS
<1>1. ASSUME NEW r \in Items PROVE st'[r] = st[r] \/ st'[r] \in Service!Successors(st[r])
  <2>1. StateMove(r)
    BY StateMoves
  <2>2. QED
    BY <2>1 DEF StateMove, Service!Successors, Service!WithoutRun, Service!AfterRun, Terminal
<1>2. {s \in Sessions : conn'[s] \notin {"shut", "closed", "lost", "gone"}}
        \subseteq {s \in Sessions : conn[s] \notin {"shut", "closed", "lost", "gone"}}
  <2>1. \A s \in Sessions : conn[s] \in Closed => conn'[s] \in Closed
    BY LinkMoves DEF LinkMove
  <2>2. QED
    BY <2>1 DEF Closed
<1>3. \A s \in Sessions : Service!Tells(s) \/ Service!Takes(s) \/ Service!Loses(s)
  BY EveryoneIsServed DEF Served
<1>4. QED
  BY <1>1, <1>2, <1>3 DEF Service!ServiceNext

\* The server implements RemoteService, the specification the client is
\* composed with: whatever its threads do, every request goes through its states
\* in order, and every change is told to its session, truthfully and in order, or
\* the connection is lost.
THEOREM ServerKeepsPromise == Spec => KeepsPromise
  BY PromiseBegins, PromiseKept, StepsImplement, ServerInvariant, PTL
  DEF Spec, KeepsPromise, Service!ServiceSpec
=============================================================================
