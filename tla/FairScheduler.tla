--------------------------- MODULE FairScheduler ---------------------------
(***************************************************************************)
(* The broker's queue: class FairScheduler of remote/_scheduler.py.        *)
(*                                                                         *)
(* Lower priorities go first; within one priority the principals that have *)
(* work take turns, and the work of one principal is first in, first out.  *)
(* A bucket that the code deletes is an empty one here, and the binary     *)
(* heap of priorities is the set of its elements.                          *)
(***************************************************************************)
EXTENDS Integers, Sequences, FiniteSets

CONSTANTS
  Items,        \* what can be scheduled; an item is queued once at a time
  Principals,   \* the authenticated owners of work
  PriorityOf,   \* [Items -> the priority it is put with]
  PrincipalOf   \* [Items -> the principal it is put for]

ASSUME SchedulerAssumption ==
  /\ IsFiniteSet(Items)
  /\ IsFiniteSet(Principals)
  /\ PriorityOf \in [Items -> Nat]
  /\ PrincipalOf \in [Items -> Principals]

Priorities == {PriorityOf[i] : i \in Items}

VARIABLES
  principals,   \* [Priorities -> the turn order of the principals with work]
  queued,       \* [Priorities -> [Principals -> the principal's FIFO]]
  heap,         \* the priorities with a bucket
  size          \* the number of queued items

schedulerVars == <<principals, queued, heap, size>>

SchedulerTypeOK ==
  /\ principals \in [Priorities -> Seq(Principals)]
  /\ queued \in [Priorities -> [Principals -> Seq(Items)]]
  /\ heap \subseteq Priorities
  /\ size \in Nat

SchedulerInit ==
  /\ principals = [n \in Priorities |-> <<>>]
  /\ queued = [n \in Priorities |-> [p \in Principals |-> <<>>]]
  /\ heap = {}
  /\ size = 0

Elements(s) == {s[k] : k \in 1 .. Len(s)}
QueueOf(i) == queued[PriorityOf[i]][PrincipalOf[i]]
IsQueued(i) == i \in Elements(QueueOf(i))

\* Mutant of Enqueue: put_front appends.
EnqueueBack(i, front) ==
  LET n == PriorityOf[i]
      p == PrincipalOf[i]
  IN  /\ queued' = [queued EXCEPT ![n][p] = Append(@, i)]
      /\ principals' = [principals EXCEPT ![n] = IF queued[n][p] = <<>>
                                                 THEN Append(@, p) ELSE @]
      /\ heap' = heap \cup {n}
      /\ size' = size + 1

\* _put: a principal without work at this priority joins the turn order last.
Enqueue(i, front) ==
  LET n == PriorityOf[i]
      p == PrincipalOf[i]
  IN  /\ queued' = [queued EXCEPT ![n][p] = IF front THEN <<i>> \o @ ELSE Append(@, i)]
      /\ principals' = [principals EXCEPT ![n] = IF queued[n][p] = <<>>
                                                 THEN Append(@, p) ELSE @]
      /\ heap' = heap \cup {n}
      /\ size' = size + 1

\* Mutant of IsNext: the greatest priority number goes first.
IsNextLast(i) ==
  LET n == PriorityOf[i] IN
  /\ size > 0
  /\ n \in heap
  /\ \A m \in heap : n >= m
  /\ PrincipalOf[i] = Head(principals[n])
  /\ i = Head(QueueOf(i))

\* The item that pop() returns.
IsNext(i) ==
  LET n == PriorityOf[i] IN
  /\ size > 0
  /\ n \in heap
  /\ \A m \in heap : n <= m
  /\ PrincipalOf[i] = Head(principals[n])
  /\ i = Head(QueueOf(i))

\* Mutant of Pop: a principal that has more work keeps its turn.
PopKeepsTurn(i) ==
  LET n    == PriorityOf[i]
      p    == PrincipalOf[i]
      more == Tail(QueueOf(i)) # <<>>
      rest == IF more THEN principals[n] ELSE Tail(principals[n])
  IN  /\ IsNext(i)
      /\ queued' = [queued EXCEPT ![n][p] = Tail(@)]
      /\ principals' = [principals EXCEPT ![n] = rest]
      /\ heap' = IF rest = <<>> THEN heap \ {n} ELSE heap
      /\ size' = size - 1

\* pop: a principal that has more work goes to the end of the turn order.
Pop(i) ==
  LET n    == PriorityOf[i]
      p    == PrincipalOf[i]
      more == Tail(QueueOf(i)) # <<>>
      rest == IF more THEN Append(Tail(principals[n]), p) ELSE Tail(principals[n])
  IN  /\ IsNext(i)
      /\ queued' = [queued EXCEPT ![n][p] = Tail(@)]
      /\ principals' = [principals EXCEPT ![n] = rest]
      /\ heap' = IF rest = <<>> THEN heap \ {n} ELSE heap
      /\ size' = size - 1

\* A deque without the elements of gone, the others in their order.
Without(s, gone) ==
  LET kept[k \in 0 .. Len(s)] ==
        IF k = 0 THEN <<>>
        ELSE IF s[k] \in gone THEN kept[k - 1] ELSE Append(kept[k - 1], s[k])
  IN  kept[Len(s)]

\* Mutant of RemoveAll: a principal whose last item goes keeps its turn.
RemoveAllKeepsTurn(S) ==
  LET gone == {i \in S : IsQueued(i)}
      Rest(n, p) == Without(queued[n][p], gone)
  IN  /\ queued' = [n \in Priorities |-> [p \in Principals |-> Rest(n, p)]]
      /\ principals' = principals
      /\ heap' = {n \in heap : principals[n] # <<>>}
      /\ size' = size - Cardinality(gone)

\* remove, for each item of S in turn: a principal whose last item goes loses
\* its turn, and a bucket without principals is deleted.  An item that is not
\* queued is no error.
RemoveAll(S) ==
  LET gone == {i \in S : IsQueued(i)}
      Rest(n, p) == Without(queued[n][p], gone)
      Emptied(n) == {p \in Principals : queued[n][p] # <<>> /\ Rest(n, p) = <<>>}
      Turns(n) == Without(principals[n], Emptied(n))
  IN  /\ queued' = [n \in Priorities |-> [p \in Principals |-> Rest(n, p)]]
      /\ principals' = [n \in Priorities |-> Turns(n)]
      /\ heap' = {n \in heap : Turns(n) # <<>>}
      /\ size' = size - Cardinality(gone)

-----------------------------------------------------------------------------
(* What every reachable state satisfies.                                   *)

Distinct(s) == \A j, k \in 1 .. Len(s) : s[j] = s[k] => j = k

\* The structures agree, whatever mix of put, put_front, pop and remove led
\* here: a principal has exactly one turn at a priority when it has work there,
\* the heap holds exactly the priorities with work, size counts the items, and
\* no item is queued twice.
Coherent ==
  /\ \A n \in Priorities :
       /\ Distinct(principals[n])
       /\ \A p \in Principals : p \in Elements(principals[n]) <=> queued[n][p] # <<>>
       /\ n \in heap <=> principals[n] # <<>>
  /\ size = Cardinality({i \in Items : IsQueued(i)})
  /\ \A n \in Priorities, p \in Principals :
       /\ Distinct(queued[n][p])
       /\ \A i \in Elements(queued[n][p]) : PriorityOf[i] = n /\ PrincipalOf[i] = p

=============================================================================
