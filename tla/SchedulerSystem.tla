-------------------------- MODULE SchedulerSystem --------------------------
(***************************************************************************)
(* FairScheduler under every sequence of the calls that the broker makes:  *)
(* it puts an item when a request is accepted, pops one to stage it, puts  *)
(* the popped one back in front when the local pool is full, and removes   *)
(* one that is cancelled or expires.                                       *)
(***************************************************************************)
EXTENDS FairScheduler

CONSTANT MaxArrivals   \* bound: how many items are put

ASSUME ArrivalsAssumption == MaxArrivals \in Nat

VARIABLES
  arrival,   \* [Items -> when it was put, 0 for never]
  clock,     \* the number of arrivals
  hand,      \* the items popped and not yet accepted by the pool
  passed     \* history: for each priority, the turns that the second principal
             \* had there since the first, who waits there, last had one

systemVars == <<arrival, clock, hand, passed>>
vars == <<schedulerVars, systemVars>>

TypeOK ==
  /\ SchedulerTypeOK
  /\ arrival \in [Items -> 0 .. MaxArrivals]
  /\ clock \in 0 .. MaxArrivals
  /\ hand \subseteq Items
  /\ passed \in [Priorities -> [Principals -> [Principals -> Nat]]]

Init ==
  /\ SchedulerInit
  /\ arrival = [i \in Items |-> 0]
  /\ clock = 0
  /\ hand = {}
  /\ passed = [n \in Priorities |-> [p \in Principals |-> [q \in Principals |-> 0]]]

\* FairScheduler.put
PutItem(i) ==
  /\ arrival[i] = 0
  /\ clock < MaxArrivals
  /\ clock' = clock + 1
  /\ arrival' = [arrival EXCEPT ![i] = clock + 1]
  /\ Enqueue(i, FALSE)
  /\ UNCHANGED <<hand, passed>>

Waits(n, q) == queued[n][q] # <<>>

\* FairScheduler.pop, by the one dispatcher thread
PopItem(i) ==
  LET n == PriorityOf[i]
      p == PrincipalOf[i]
  IN  /\ hand = {}
      /\ Pop(i)
      /\ hand' = {i}
      /\ passed' = [passed EXCEPT ![n] =
                      [q \in Principals |-> [x \in Principals |->
                         IF q = p THEN 0
                         ELSE IF x = p /\ Waits(n, q) THEN @[q][x] + 1
                         ELSE @[q][x]]]]
      /\ UNCHANGED <<arrival, clock>>

\* FairScheduler.put_front: the pool was full.
RestoreItem(i) ==
  /\ i \in hand
  /\ Enqueue(i, TRUE)
  /\ hand' = {}
  /\ UNCHANGED <<arrival, clock, passed>>

\* The pool took the item.
Accepted(i) ==
  /\ i \in hand
  /\ hand' = {}
  /\ UNCHANGED <<schedulerVars, arrival, clock, passed>>

\* FairScheduler.remove: the item may be queued or in the dispatcher's hand.
\* A principal that has nothing left at the priority no longer waits.
RemoveItem(i) ==
  /\ arrival[i] # 0
  /\ IsQueued(i) \/ i \in hand
  /\ RemoveAll({i})
  /\ passed' = IF Len(QueueOf(i)) = 1 /\ IsQueued(i)
               THEN [passed EXCEPT ![PriorityOf[i]][PrincipalOf[i]] = [q \in Principals |-> 0]]
               ELSE passed
  /\ UNCHANGED <<arrival, clock, hand>>

Next == \E i \in Items : PutItem(i) \/ PopItem(i) \/ RestoreItem(i) \/ Accepted(i)
                         \/ RemoveItem(i)

Spec == Init /\ [][Next]_vars

-----------------------------------------------------------------------------

\* While a principal waits at a priority, no other has two turns there: pop
\* (55-71) takes turns, also when items are removed or put back in front in
\* between.
NoOneIsPassedTwice ==
  \A n \in Priorities : \A p, q \in Principals : passed[n][p][q] <= 1

\* The work of one principal at one priority leaves in the order of arrival,
\* although a popped item may be put back in front (30-53).
FirstInFirstOut ==
  \A n \in Priorities, p \in Principals :
    \A j, k \in 1 .. Len(queued[n][p]) :
      j < k => arrival[queued[n][p][j]] < arrival[queued[n][p][k]]

\* What is popped is never less urgent than anything that stays.
StrictPriority ==
  [][\A i \in Items : PopItem(i) =>
       \A j \in Items : IsQueued(j) => PriorityOf[i] <= PriorityOf[j]]_vars

=============================================================================
