----------------------- MODULE SchedulerSystemProofs -----------------------
(***************************************************************************)
(* Proofs about SchedulerSystem: for every set of items, principals and    *)
(* priorities, and every sequence of put, put_front, pop and remove.       *)
(*                                                                         *)
(* The inductive invariant adds to Coherent what the dispatcher's hand and *)
(* the history have to do with the queues: an item in hand is not queued   *)
(* and came before everything in its queue, arrivals are numbered by the   *)
(* clock, and a principal that was passed once still waits, with the one   *)
(* that passed it behind.                                                  *)
(***************************************************************************)
EXTENDS SchedulerSystem, FairSchedulerProofs

USE ArrivalsAssumption, SchedulerAssumption

Increasing(s, a) == \A j, k \in 1 .. Len(s) : j < k => a[s[j]] < a[s[k]]
Behind(s, p, q) == \A j, k \in 1 .. Len(s) : s[j] = p /\ s[k] = q => j < k

HandOK ==
  /\ \A i, j \in hand : i = j
  /\ \A i \in hand : /\ ~IsQueued(i) /\ arrival[i] # 0
                     /\ \A j \in Elements(QueueOf(i)) : arrival[i] < arrival[j]
ArrivalOK ==
  \A i \in Items : arrival[i] <= clock /\ (IsQueued(i) => arrival[i] # 0)
PassedOK ==
  \A n \in Priorities : \A p, q \in Principals :
    passed[n][p][q] # 0 => /\ passed[n][p][q] = 1
                           /\ p \in Elements(principals[n])
                           /\ Behind(principals[n], p, q)

OrderInv  == HandOK /\ ArrivalOK /\ FirstInFirstOut
SystemInv == TypeOK /\ Coherent /\ OrderInv /\ PassedOK

-----------------------------------------------------------------------------
(* Order in a sequence that changes at an end, or loses elements.          *)

LEMMA AppendOrder ==
  ASSUME NEW S, NEW s \in Seq(S), NEW e \in S
  PROVE  /\ \A a : Increasing(s, a) /\ (\A x \in Elements(s) : a[x] < a[e])
                  => Increasing(Append(s, e), a)
         /\ \A p, q : Behind(s, p, q) /\ e # p => Behind(Append(s, e), p, q)
<1> DEFINE t == Append(s, e)
<1>1. /\ Len(s) \in Nat /\ Len(t) = Len(s) + 1
      /\ \A i \in 1 .. Len(s) : t[i] = s[i]
      /\ t[Len(s) + 1] = e
  BY AppendProperties, LenProperties
<1> HIDE DEF t
<1>2. ASSUME NEW a, Increasing(s, a), \A x \in Elements(s) : a[x] < a[e],
             NEW j \in 1 .. Len(t), NEW k \in 1 .. Len(t), j < k
      PROVE  a[t[j]] < a[t[k]]
  <2>1. j \in 1 .. Len(s) /\ t[j] = s[j]
    BY <1>1, <1>2
  <2>2. CASE k = Len(s) + 1
    <3>1. s[j] \in Elements(s) /\ t[k] = e
      BY <2>1, <2>2, <1>1 DEF Elements
    <3>2. QED
      BY <2>1, <3>1, <1>2
  <2>3. CASE k # Len(s) + 1
    <3>1. k \in 1 .. Len(s)
      BY <2>3, <1>1
    <3>2. t[k] = s[k]
      BY <3>1, <1>1
    <3>3. a[s[j]] < a[s[k]]
      BY <2>1, <3>1, <1>2 DEF Increasing
    <3>4. QED
      BY <2>1, <3>2, <3>3
  <2>4. QED
    BY <2>2, <2>3
<1>3. ASSUME NEW p, NEW q, Behind(s, p, q), e # p,
             NEW j \in 1 .. Len(t), NEW k \in 1 .. Len(t), t[j] = p, t[k] = q
      PROVE  j < k
  <2>1. j \in 1 .. Len(s) /\ s[j] = p
    BY <1>1, <1>3
  <2>2. CASE k = Len(s) + 1
    BY <2>1, <2>2, <1>1
  <2>3. CASE k # Len(s) + 1
    <3>1. k \in 1 .. Len(s)
      BY <2>3, <1>1
    <3>2. s[k] = q
      BY <3>1, <1>1, <1>3
    <3>3. QED
      BY <2>1, <3>1, <3>2, <1>3 DEF Behind
  <2>4. QED
    BY <2>2, <2>3
<1>4. QED
  BY <1>2, <1>3 DEF t, Increasing, Behind

LEMMA PrependOrder ==
  ASSUME NEW S, NEW s \in Seq(S), NEW e \in S, NEW a, Increasing(s, a),
         \A x \in Elements(s) : a[e] < a[x]
  PROVE  Increasing(<<e>> \o s, a)
<1> DEFINE t == <<e>> \o s
<1>1. <<e>> \in Seq(S) /\ Len(<<e>>) = 1 /\ <<e>>[1] = e /\ Len(s) \in Nat
  BY LenProperties
<1>2. /\ Len(t) = Len(s) + 1
      /\ \A i \in 1 .. Len(s) + 1 : t[i] = IF i = 1 THEN e ELSE s[i - 1]
  BY <1>1, ConcatProperties
<1> HIDE DEF t
<1>3. ASSUME NEW j \in 1 .. Len(t), NEW k \in 1 .. Len(t), j < k PROVE a[t[j]] < a[t[k]]
  <2>1. k - 1 \in 1 .. Len(s) /\ t[k] = s[k - 1]
    BY <1>1, <1>2, <1>3
  <2>2. CASE j = 1
    <3>1. s[k - 1] \in Elements(s)
      BY <2>1 DEF Elements
    <3>2. t[j] = e
      BY <2>2, <1>1, <1>2
    <3>3. QED
      BY <2>1, <3>1, <3>2
  <2>3. CASE j # 1
    <3>1. j - 1 \in 1 .. Len(s) /\ t[j] = s[j - 1] /\ j - 1 < k - 1
      BY <2>3, <1>1, <1>2, <1>3
    <3>2. QED
      BY <2>1, <3>1 DEF Increasing
  <2>4. QED
    BY <2>2, <2>3
<1>4. QED
  BY <1>3 DEF t, Increasing

LEMMA TailOrder ==
  ASSUME NEW S, NEW s \in Seq(S), s # <<>>
  PROVE  /\ \A a : Increasing(s, a) => /\ Increasing(Tail(s), a)
                                       /\ \A x \in Elements(Tail(s)) : a[Head(s)] < a[x]
         /\ \A p, q : Behind(s, p, q) => /\ Behind(Tail(s), p, q)
                                         /\ p \in Elements(s) => Head(s) # q
<1> DEFINE t == Tail(s)
<1>1. /\ Len(s) \in Nat \ {0} /\ Len(t) = Len(s) - 1 /\ Head(s) = s[1]
      /\ \A i \in 1 .. Len(t) : t[i] = s[i + 1]
  BY HeadTailProperties, EmptySeq, LenProperties
<1> HIDE DEF t
<1>2. \A i \in 1 .. Len(t) : i + 1 \in 1 .. Len(s) /\ 1 \in 1 .. Len(s) /\ 1 < i + 1
  BY <1>1
<1>3. ASSUME NEW a, Increasing(s, a)
      PROVE  Increasing(t, a) /\ \A x \in Elements(t) : a[Head(s)] < a[x]
  <2>1. ASSUME NEW j \in 1 .. Len(t), NEW k \in 1 .. Len(t), j < k PROVE a[t[j]] < a[t[k]]
    <3>1. j + 1 < k + 1
      BY <2>1
    <3>2. QED
      BY <3>1, <1>1, <1>2, <1>3 DEF Increasing
  <2>2. ASSUME NEW k \in 1 .. Len(t) PROVE a[Head(s)] < a[t[k]]
    BY <1>1, <1>2, <1>3 DEF Increasing
  <2>3. QED
    BY <2>1, <2>2 DEF Increasing, Elements
<1>4. ASSUME NEW p, NEW q, Behind(s, p, q)
      PROVE  Behind(t, p, q) /\ (p \in Elements(s) => Head(s) # q)
  <2>1. ASSUME NEW j \in 1 .. Len(t), NEW k \in 1 .. Len(t), t[j] = p, t[k] = q PROVE j < k
    <3>1. s[j + 1] = p /\ s[k + 1] = q
      BY <1>1, <2>1
    <3>2. j + 1 < k + 1
      BY <3>1, <1>2, <1>4 DEF Behind
    <3>3. QED
      BY <3>2
  <2>2. ASSUME p \in Elements(s), Head(s) = q PROVE FALSE
    <3>1. PICK j \in 1 .. Len(s) : s[j] = p
      BY <2>2 DEF Elements
    <3>2. j < 1
      BY <3>1, <2>2, <1>1, <1>4 DEF Behind
    <3>3. QED
      BY <3>2
  <2>3. QED
    BY <2>1, <2>2 DEF Behind
<1>5. QED
  BY <1>3, <1>4 DEF t

LEMMA WithoutOrder ==
  ASSUME NEW S, NEW s \in Seq(S), NEW gone
  PROVE  /\ \A a : Increasing(s, a) => Increasing(Without(s, gone), a)
         /\ \A p, q : Behind(s, p, q) => Behind(Without(s, gone), p, q)
<1> DEFINE t == Without(s, gone)
<1>1. t \in Seq(S) /\ \E f : Lists(f, t, s, Len(s), gone)
  BY WithoutLists
<1> HIDE DEF t
<1>2. PICK f : Lists(f, t, s, Len(s), gone)
  BY <1>1
<1>3. /\ f \in [1 .. Len(t) -> 1 .. Len(s)]
      /\ \A i, j \in 1 .. Len(t) : i < j => f[i] < f[j]
      /\ \A j \in 1 .. Len(t) : t[j] = s[f[j]]
  BY <1>2 DEF Lists
<1>4. Len(t) \in Nat /\ Len(s) \in Nat
  BY <1>1, LenProperties
<1>5. ASSUME NEW a, Increasing(s, a) PROVE Increasing(t, a)
  <2>1. ASSUME NEW j \in 1 .. Len(t), NEW k \in 1 .. Len(t), j < k
        PROVE  a[t[j]] < a[t[k]]
    <3>1. f[j] \in 1 .. Len(s) /\ f[k] \in 1 .. Len(s) /\ f[j] < f[k]
      BY <2>1, <1>3
    <3>2. a[s[f[j]]] < a[s[f[k]]]
      BY <3>1, <1>5 DEF Increasing
    <3>3. QED
      BY <3>2, <1>3
  <2>2. QED
    BY <2>1 DEF Increasing
<1>6. ASSUME NEW p, NEW q, Behind(s, p, q),
             NEW j \in 1 .. Len(t), NEW k \in 1 .. Len(t), t[j] = p, t[k] = q
      PROVE  j < k
  <2>0. f[j] \in 1 .. Len(s) /\ f[k] \in 1 .. Len(s)
    BY <1>3
  <2>1. f[j] < f[k]
    BY <2>0, <1>3, <1>6 DEF Behind
  <2>2. f[j] \in Nat /\ f[k] \in Nat
    BY <2>0, <1>4
  <2>3. ~(k < j) /\ j # k
    BY <2>1, <2>2, <1>3
  <2>4. QED
    BY <2>3, <1>4
<1>7. QED
  BY <1>5, <1>6 DEF t, Behind

LEMMA SameOrder ==
  ASSUME NEW s, NEW a, NEW b, Increasing(s, a), \A x \in Elements(s) : b[x] = a[x]
  PROVE  Increasing(s, b)
<1>1. \A k \in 1 .. Len(s) : b[s[k]] = a[s[k]]
  BY DEF Elements
<1>2. QED
  BY <1>1 DEF Increasing

-----------------------------------------------------------------------------
(* The queues.                                                             *)

\* An item is only in the queue of its priority and its principal.
LEMMA Found ==
  ASSUME SchedulerTypeOK, Coherent, NEW n \in Priorities, NEW p \in Principals,
         NEW i \in Elements(queued[n][p])
  PROVE  i \in Items /\ PriorityOf[i] = n /\ PrincipalOf[i] = p /\ IsQueued(i)
<1>1. QueueOK(n, p)
  BY Parts DEF CoherentParts
<1>2. queued[n][p] \in Seq(Items)
  BY DEF SchedulerTypeOK
<1>3. i \in Items
  BY <1>2, ElementsEmpty
<1>4. QED
  BY <1>1, <1>3 DEF QueueOK, IsQueued, QueueOf

LEMMA Fifo ==
  /\ FirstInFirstOut <=> \A n \in Priorities, p \in Principals : Increasing(queued[n][p], arrival)
  /\ FirstInFirstOut' <=>
       \A n \in Priorities, p \in Principals : Increasing(queued'[n][p], arrival')
BY DEF FirstInFirstOut, Increasing

\* Joining the turn order last puts nobody behind.
LEMMA EnqueuePassed ==
  ASSUME SchedulerTypeOK, Coherent, PassedOK, NEW i \in Items, NEW front \in BOOLEAN,
         Enqueue(i, front), UNCHANGED passed
  PROVE  PassedOK'
<1> DEFINE n == PriorityOf[i]
           p == PrincipalOf[i]
           turns == principals[n]
           newt == IF queued[n][p] = <<>> THEN Append(turns, p) ELSE turns
<1>1. n \in Priorities /\ p \in Principals
  BY DEF Priorities
<1>2. \A m \in Priorities : principals'[m] = IF m = n THEN newt ELSE principals[m]
  BY <1>1 DEF Enqueue, SchedulerTypeOK
<1>3. turns \in Seq(Principals) /\ TurnsOK(n)
  BY <1>1, Parts DEF SchedulerTypeOK, CoherentParts
<1>4. queued[n][p] = <<>> => p \notin Elements(turns)
  BY <1>1, <1>3 DEF TurnsOK
<1>5. ASSUME NEW r \in Principals, NEW x \in Principals,
             r \in Elements(turns), Behind(turns, r, x)
      PROVE  r \in Elements(newt) /\ Behind(newt, r, x)
  <2>1. CASE queued[n][p] = <<>>
    <3>1. newt = Append(turns, p) /\ r # p
      BY <2>1, <1>4, <1>5
    <3> HIDE DEF turns, newt, p
    <3>2. QED
      BY <3>1, <1>1, <1>3, <1>5, ElementsAppend, AppendOrder
  <2>2. CASE queued[n][p] # <<>>
    BY <2>2, <1>5
  <2>3. QED
    BY <2>1, <2>2
<1> HIDE DEF newt
<1>6. ASSUME NEW m \in Priorities, NEW r \in Principals, NEW x \in Principals,
             passed'[m][r][x] # 0
      PROVE  /\ passed'[m][r][x] = 1
             /\ r \in Elements(principals'[m])
             /\ Behind(principals'[m], r, x)
  <2>1. passed[m][r][x] = 1 /\ r \in Elements(principals[m]) /\ Behind(principals[m], r, x)
    BY <1>6 DEF PassedOK
  <2>2. QED
    BY <2>1, <1>2, <1>5
<1>7. QED
  BY <1>6 DEF PassedOK

-----------------------------------------------------------------------------
(* One lemma for each operation.                                           *)

LEMMA PutStep ==
  ASSUME SystemInv, NEW i \in Items, PutItem(i)
  PROVE  SystemInv'
<1> USE DEF SystemInv, OrderInv
<1>1. /\ arrival[i] = 0 /\ clock < MaxArrivals /\ clock' = clock + 1
      /\ arrival' = [arrival EXCEPT ![i] = clock + 1]
      /\ Enqueue(i, FALSE) /\ UNCHANGED <<hand, passed>>
  BY DEF PutItem
<1>2. SchedulerTypeOK /\ arrival \in [Items -> 0 .. MaxArrivals] /\ clock \in Nat
      /\ hand \subseteq Items
  BY DEF TypeOK
<1>3. ~IsQueued(i) /\ i \notin hand
  BY <1>1 DEF ArrivalOK, HandOK
<1>4. SchedulerTypeOK' /\ Coherent' /\ QueuedItems' = QueuedItems \cup {i}
  BY <1>1, <1>2, <1>3, EnqueueKeeps
<1>5. TypeOK'
  BY <1>1, <1>2, <1>4 DEF TypeOK
<1>6. arrival'[i] = clock + 1 /\ \A j \in Items : j # i => arrival'[j] = arrival[j]
  BY <1>1, <1>2
<1>7. \A j \in Items : arrival[j] \in Nat /\ arrival[j] <= clock
  BY <1>2 DEF ArrivalOK
<1>8. \A j \in Items : IsQueued(j)' <=> IsQueued(j) \/ j = i
  BY <1>4 DEF QueuedItems
<1>9. ArrivalOK'
  <2>1. ASSUME NEW j \in Items
        PROVE  arrival'[j] <= clock' /\ (IsQueued(j)' => arrival'[j] # 0)
    <3>1. CASE j = i
      BY <3>1, <1>1, <1>2, <1>6
    <3>2. CASE j # i
      BY <3>2, <1>1, <1>2, <1>6, <1>7, <1>8 DEF ArrivalOK
    <3>3. QED
      BY <3>1, <3>2
  <2>2. QED
    BY <2>1 DEF ArrivalOK
<1>10. QueueOf(i) \in Seq(Items) /\ PriorityOf[i] \in Priorities /\ PrincipalOf[i] \in Principals
       /\ \A m \in Priorities, r \in Principals :
            queued'[m][r] = IF m = PriorityOf[i] /\ r = PrincipalOf[i]
                            THEN Append(QueueOf(i), i) ELSE queued[m][r]
  <2>1. PriorityOf[i] \in Priorities /\ PrincipalOf[i] \in Principals
    BY DEF Priorities
  <2>2. QED
    BY <2>1, <1>1, <1>2 DEF Enqueue, SchedulerTypeOK, QueueOf
<1>11. FirstInFirstOut'
  <2>1. ASSUME NEW m \in Priorities, NEW r \in Principals
        PROVE  Increasing(queued'[m][r], arrival')
    <3>1. Increasing(queued[m][r], arrival)
      BY Fifo
    <3>2. \A x \in Elements(queued[m][r]) : x \in Items /\ x # i
      BY <1>2, <1>3, Found
    <3>3. Increasing(queued[m][r], arrival')
      <4>1. \A x \in Elements(queued[m][r]) : arrival'[x] = arrival[x]
        BY <3>2, <1>6
      <4>2. QED
        BY <4>1, <3>1, SameOrder
    <3>4. CASE m = PriorityOf[i] /\ r = PrincipalOf[i]
      <4> DEFINE s == queued[m][r]
      <4>1. s \in Seq(Items) /\ queued'[m][r] = Append(s, i)
        BY <3>4, <1>10 DEF QueueOf
      <4>2. \A x \in Elements(s) : arrival'[x] < arrival'[i]
        BY <3>2, <1>6, <1>7, <1>2
      <4>3. Increasing(s, arrival')
        BY <3>3
      <4> HIDE DEF s
      <4>4. Increasing(Append(s, i), arrival')
        BY <4>1, <4>2, <4>3, AppendOrder
      <4>5. QED
        BY <4>1, <4>4
    <3>5. CASE ~(m = PriorityOf[i] /\ r = PrincipalOf[i])
      BY <3>3, <3>5, <1>10
    <3>6. QED
      BY <3>4, <3>5
  <2>2. QED
    BY <2>1, Fifo
<1>12. HandOK'
  <2>1. ASSUME NEW h \in hand
        PROVE  /\ ~IsQueued(h)' /\ arrival'[h] # 0
               /\ \A j \in Elements(QueueOf(h)') : arrival'[h] < arrival'[j]
    <3>1. h \in Items /\ h # i /\ arrival'[h] = arrival[h] /\ arrival[h] # 0 /\ ~IsQueued(h)
      BY <1>2, <1>3, <1>6 DEF HandOK
    <3>2. PriorityOf[h] \in Priorities /\ PrincipalOf[h] \in Principals
      BY <3>1 DEF Priorities
    <3>3. ASSUME NEW j \in Elements(QueueOf(h)') PROVE arrival'[h] < arrival'[j]
      <4>1. j \in Elements(QueueOf(h)) \/ j = i
        <5>1. CASE PriorityOf[h] = PriorityOf[i] /\ PrincipalOf[h] = PrincipalOf[i]
          <6>1. QueueOf(h)' = Append(QueueOf(i), i) /\ QueueOf(h) = QueueOf(i)
            BY <5>1, <3>2, <1>10 DEF QueueOf
          <6>2. Elements(Append(QueueOf(i), i)) = Elements(QueueOf(i)) \cup {i}
            BY <1>10, ElementsAppend
          <6>3. QED
            BY <6>1, <6>2
        <5>2. CASE ~(PriorityOf[h] = PriorityOf[i] /\ PrincipalOf[h] = PrincipalOf[i])
          BY <5>2, <3>2, <1>10 DEF QueueOf
        <5>3. QED
          BY <5>1, <5>2
      <4>2. CASE j = i
        BY <4>2, <3>1, <1>2, <1>6, <1>7
      <4>3. CASE j # i
        <5>1. j \in Elements(QueueOf(h)) /\ j \in Items
          BY <4>1, <4>3, <3>2, <1>2, Found DEF QueueOf
        <5>2. arrival[h] < arrival[j]
          BY <5>1 DEF HandOK
        <5>3. QED
          BY <5>1, <5>2, <3>1, <4>3, <1>6
      <4>4. QED
        BY <4>2, <4>3
    <3>4. QED
      BY <3>1, <3>3, <1>8
  <2>2. QED
    BY <2>1, <1>1 DEF HandOK
<1>13. PassedOK'
  BY <1>1, <1>2, EnqueuePassed
<1>14. QED
  BY <1>4, <1>5, <1>9, <1>11, <1>12, <1>13

LEMMA RestoreStep ==
  ASSUME SystemInv, NEW i \in Items, RestoreItem(i)
  PROVE  SystemInv'
<1> USE DEF SystemInv, OrderInv
<1>1. i \in hand /\ Enqueue(i, TRUE) /\ hand' = {} /\ UNCHANGED <<arrival, clock, passed>>
  BY DEF RestoreItem
<1>2. SchedulerTypeOK
  BY DEF TypeOK
<1>3. ~IsQueued(i) /\ arrival[i] # 0 /\ \A j \in Elements(QueueOf(i)) : arrival[i] < arrival[j]
  BY <1>1 DEF HandOK
<1>4. SchedulerTypeOK' /\ Coherent' /\ QueuedItems' = QueuedItems \cup {i}
  BY <1>1, <1>2, <1>3, EnqueueKeeps
<1>5. TypeOK'
  BY <1>1, <1>4 DEF TypeOK
<1>6. ArrivalOK'
  BY <1>1, <1>3, <1>4 DEF ArrivalOK, QueuedItems
<1>7. QueueOf(i) \in Seq(Items) /\ PriorityOf[i] \in Priorities /\ PrincipalOf[i] \in Principals
      /\ \A m \in Priorities, r \in Principals :
           queued'[m][r] = IF m = PriorityOf[i] /\ r = PrincipalOf[i]
                           THEN <<i>> \o QueueOf(i) ELSE queued[m][r]
  <2>1. PriorityOf[i] \in Priorities /\ PrincipalOf[i] \in Principals
    BY DEF Priorities
  <2>2. QED
    BY <2>1, <1>1, <1>2 DEF Enqueue, SchedulerTypeOK, QueueOf
<1>8. FirstInFirstOut'
  <2>1. Increasing(<<i>> \o QueueOf(i), arrival)
    <3>1. Increasing(QueueOf(i), arrival)
      BY <1>7, Fifo DEF QueueOf
    <3>2. QED
      BY <3>1, <1>3, <1>7, PrependOrder
  <2>2. \A m \in Priorities, r \in Principals : Increasing(queued[m][r], arrival)
    BY Fifo
  <2>3. \A m \in Priorities, r \in Principals : Increasing(queued'[m][r], arrival')
    BY <2>1, <2>2, <1>1, <1>7
  <2>4. QED
    BY <2>3, Fifo
<1>9. HandOK'
  BY <1>1 DEF HandOK
<1>10. PassedOK'
  BY <1>1, <1>2, EnqueuePassed
<1>11. QED
  BY <1>4, <1>5, <1>6, <1>8, <1>9, <1>10

LEMMA AcceptedStep ==
  ASSUME SystemInv, NEW i \in Items, Accepted(i)
  PROVE  SystemInv'
<1>1. UNCHANGED schedulerVars /\ UNCHANGED <<arrival, clock, passed>> /\ hand' = {}
  BY DEF Accepted
<1>2. SchedulerTypeOK' <=> SchedulerTypeOK
  BY <1>1 DEF SchedulerTypeOK, schedulerVars
<1>3. Coherent' <=> Coherent
  BY <1>1 DEF Coherent, IsQueued, QueueOf, schedulerVars
<1>4. FirstInFirstOut' <=> FirstInFirstOut
  BY <1>1 DEF FirstInFirstOut, schedulerVars
<1>5. ArrivalOK' <=> ArrivalOK
  BY <1>1 DEF ArrivalOK, IsQueued, QueueOf, schedulerVars
<1>6. PassedOK' <=> PassedOK
  BY <1>1 DEF PassedOK, schedulerVars
<1>7. QED
  BY <1>1, <1>2, <1>3, <1>4, <1>5, <1>6 DEF SystemInv, OrderInv, TypeOK, HandOK

\* The one whose turn it is was not behind anyone who waits.
LEMMA PopPassed ==
  ASSUME TypeOK, Coherent, PassedOK, NEW i \in Items, PopItem(i)
  PROVE  PassedOK' /\ passed' \in [Priorities -> [Principals -> [Principals -> Nat]]]
<1> DEFINE n == PriorityOf[i]
           p == PrincipalOf[i]
           turns == principals[n]
           more == Tail(queued[n][p]) # <<>>
           newt == IF more THEN Append(Tail(turns), p) ELSE Tail(turns)
<1>1. n \in Priorities /\ p \in Principals
  BY DEF Priorities
<1>2. SchedulerTypeOK /\ passed \in [Priorities -> [Principals -> [Principals -> Nat]]]
  BY DEF TypeOK
<1>3. Pop(i)
  BY DEF PopItem
<1>4. \A m \in Priorities : principals'[m] = IF m = n THEN newt ELSE principals[m]
  BY <1>1, <1>2, <1>3 DEF Pop, SchedulerTypeOK, QueueOf
<1>5. turns \in Seq(Principals) /\ TurnsOK(n)
  BY <1>1, <1>2, Parts DEF SchedulerTypeOK, CoherentParts
<1>6. n \in heap /\ p = Head(turns)
  BY <1>3 DEF Pop, IsNext
<1>7. turns # <<>> /\ Distinct(turns)
      /\ \A r \in Principals : r \in Elements(turns) <=> queued[n][r] # <<>>
  BY <1>5, <1>6 DEF TurnsOK
<1>8. Tail(turns) \in Seq(Principals) /\ Elements(Tail(turns)) = Elements(turns) \ {p}
  <2> HIDE DEF turns
  <2>1. QED
    BY <1>5, <1>6, <1>7, ElementsTail
<1>9. ASSUME NEW r \in Principals, r # p, r \in Elements(turns), NEW x \in Principals,
             Behind(Tail(turns), r, x)
      PROVE  r \in Elements(newt) /\ Behind(newt, r, x)
  <2> DEFINE t == Tail(turns)
  <2>1. t \in Seq(Principals) /\ r \in Elements(t) /\ Behind(t, r, x) /\ p # r
    BY <1>8, <1>9
  <2>2. newt = t \/ newt = Append(t, p)
    OBVIOUS
  <2> HIDE DEF t, newt, p
  <2>3. Behind(Append(t, p), r, x)
    BY <2>1, <1>1, AppendOrder
  <2>4. r \in Elements(Append(t, p))
    BY <2>1, <1>1, ElementsAppend
  <2>5. QED
    BY <2>1, <2>2, <2>3, <2>4
<1>10. \A r, x \in Principals : r \in Elements(turns) /\ Behind(turns, r, x)
                                => x # p /\ Behind(Tail(turns), r, x)
  <2> HIDE DEF turns, p
  <2>1. QED
    BY <1>5, <1>6, <1>7, TailOrder
<1>11. \A r \in Principals : Behind(Tail(turns), r, p)
  <2> DEFINE t == Tail(turns)
  <2>1. p \notin Elements(t)
    BY <1>8
  <2>2. \A k \in 1 .. Len(t) : t[k] # p
    BY <2>1 DEF Elements
  <2> HIDE DEF t
  <2>3. \A r \in Principals : Behind(t, r, p)
    BY <2>2 DEF Behind
  <2>4. QED
    BY <2>3 DEF t
<1> DEFINE new == [r \in Principals |-> [x \in Principals |->
                     IF r = p THEN 0
                     ELSE IF x = p /\ Waits(n, r) THEN passed[n][r][x] + 1
                     ELSE passed[n][r][x]]]
<1>12. passed' = [passed EXCEPT ![n] = new]
  BY DEF PopItem
<1>13. new \in [Principals -> [Principals -> Nat]]
  BY <1>1, <1>2
<1>14. ASSUME NEW r \in Principals, NEW x \in Principals, new[r][x] # 0
       PROVE  new[r][x] = 1 /\ r \in Elements(newt) /\ Behind(newt, r, x)
  <2>1. r # p
    BY <1>14
  <2>2. passed[n][r][x] # 0 => /\ passed[n][r][x] = 1 /\ r \in Elements(turns)
                               /\ Behind(turns, r, x)
    BY <1>1 DEF PassedOK
  <2>3. Waits(n, r) <=> r \in Elements(turns)
    BY <1>7 DEF Waits
  <2>4. CASE x = p /\ Waits(n, r)
    <3>1. passed[n][r][x] = 0
      BY <2>2, <2>4, <1>1, <1>10
    <3>2. new[r][x] = 1
      BY <3>1, <2>1, <2>4
    <3> HIDE DEF new, newt, turns, p
    <3>3. QED
      BY <3>2, <2>1, <2>3, <2>4, <1>9, <1>11
  <2>5. CASE ~(x = p /\ Waits(n, r))
    <3>1. new[r][x] = passed[n][r][x]
      BY <2>1, <2>5
    <3> HIDE DEF new, newt, turns, p, n
    <3>2. QED
      BY <3>1, <2>1, <2>2, <1>9, <1>10, <1>14
  <2>6. QED
    BY <2>4, <2>5
<1> HIDE DEF new, newt
<1>15. \A m \in Priorities : passed'[m] = IF m = n THEN new ELSE passed[m]
  BY <1>12, <1>2
<1>16. ASSUME NEW m \in Priorities, NEW r \in Principals, NEW x \in Principals,
              passed'[m][r][x] # 0
       PROVE  /\ passed'[m][r][x] = 1
              /\ r \in Elements(principals'[m])
              /\ Behind(principals'[m], r, x)
  <2>1. CASE m = n
    BY <2>1, <1>4, <1>14, <1>15, <1>16
  <2>2. CASE m # n
    BY <2>2, <1>4, <1>15, <1>16 DEF PassedOK
  <2>3. QED
    BY <2>1, <2>2
<1>17. QED
  BY <1>2, <1>12, <1>13, <1>16 DEF PassedOK

LEMMA PopStep ==
  ASSUME SystemInv, NEW i \in Items, PopItem(i)
  PROVE  SystemInv'
<1> USE DEF SystemInv, OrderInv
<1> DEFINE n == PriorityOf[i]
           p == PrincipalOf[i]
           q == queued[n][p]
<1>1. Pop(i) /\ hand' = {i} /\ UNCHANGED <<arrival, clock>>
  BY DEF PopItem
<1>2. SchedulerTypeOK /\ n \in Priorities /\ p \in Principals /\ q \in Seq(Items)
  <2>1. SchedulerTypeOK /\ n \in Priorities /\ p \in Principals
    BY DEF TypeOK, Priorities
  <2> HIDE DEF n, p
  <2>2. q \in Seq(Items)
    BY <2>1 DEF SchedulerTypeOK
  <2>3. QED
    BY <2>1, <2>2
<1>3. SchedulerTypeOK' /\ Coherent' /\ IsQueued(i) /\ QueuedItems' = QueuedItems \ {i}
  BY <1>1, <1>2, PopKeeps
<1>4. PassedOK' /\ passed' \in [Priorities -> [Principals -> [Principals -> Nat]]]
  BY PopPassed
<1>5. TypeOK'
  BY <1>1, <1>3, <1>4 DEF TypeOK
<1>6. ArrivalOK'
  BY <1>1, <1>3 DEF ArrivalOK, QueuedItems
<1>7. \A m \in Priorities, r \in Principals :
        queued'[m][r] = IF m = n /\ r = p THEN Tail(q) ELSE queued[m][r]
  BY <1>1, <1>2 DEF Pop, SchedulerTypeOK
<1>8. i = Head(q) /\ q # <<>>
  <2>1. i = Head(q) /\ i \in Elements(q)
    BY <1>1, <1>3 DEF Pop, IsNext, IsQueued, QueueOf
  <2> HIDE DEF q
  <2>2. QED
    BY <2>1, <1>2, ElementsEmpty
<1>9. \A m \in Priorities, r \in Principals : Increasing(queued[m][r], arrival)
  BY Fifo
<1>10. Increasing(Tail(q), arrival) /\ \A x \in Elements(Tail(q)) : arrival[i] < arrival[x]
  <2>1. Increasing(q, arrival)
    BY <1>2, <1>9
  <2> HIDE DEF q
  <2>2. QED
    BY <2>1, <1>2, <1>8, TailOrder
<1>11. FirstInFirstOut'
  <2>1. \A m \in Priorities, r \in Principals : Increasing(queued'[m][r], arrival')
    BY <1>1, <1>7, <1>9, <1>10
  <2>2. QED
    BY <2>1, Fifo
<1>12. HandOK'
  <2>1. ~IsQueued(i)' /\ arrival'[i] # 0
    BY <1>1, <1>3 DEF ArrivalOK, QueuedItems
  <2>2. QueueOf(i)' = Tail(q)
    BY <1>2, <1>7 DEF QueueOf
  <2>3. \A j \in Elements(QueueOf(i)') : arrival'[i] < arrival'[j]
    BY <2>2, <1>1, <1>10
  <2>4. QED
    BY <2>1, <2>3, <1>1 DEF HandOK
<1>13. QED
  BY <1>3, <1>4, <1>5, <1>6, <1>11, <1>12

\* A principal that loses its turn has nothing left, and is nobody that waits.
LEMMA RemovePassed ==
  ASSUME TypeOK, Coherent, PassedOK, NEW i \in Items, RemoveItem(i)
  PROVE  PassedOK' /\ passed' \in [Priorities -> [Principals -> [Principals -> Nat]]]
<1> DEFINE gone == {j \in {i} : IsQueued(j)}
           Rest(n, p) == Without(queued[n][p], gone)
           Emptied(n) == {p \in Principals : queued[n][p] # <<>> /\ Rest(n, p) = <<>>}
           Last == Len(QueueOf(i)) = 1 /\ IsQueued(i)
<1>1. PriorityOf[i] \in Priorities /\ PrincipalOf[i] \in Principals
  BY DEF Priorities
<1>2. SchedulerTypeOK /\ passed \in [Priorities -> [Principals -> [Principals -> Nat]]]
  BY DEF TypeOK
<1>3. \A n \in Priorities : principals'[n] = Without(principals[n], Emptied(n))
  BY DEF RemoveItem, RemoveAll
<1>4. passed' = IF Last
                THEN [passed EXCEPT ![PriorityOf[i]][PrincipalOf[i]] = [x \in Principals |-> 0]]
                ELSE passed
  BY DEF RemoveItem
<1>5. passed' \in [Priorities -> [Principals -> [Principals -> Nat]]]
  <2> DEFINE none == [x \in Principals |-> 0]
  <2>1. none \in [Principals -> Nat]
    OBVIOUS
  <2>2. passed' = IF Last THEN [passed EXCEPT ![PriorityOf[i]][PrincipalOf[i]] = none] ELSE passed
    BY <1>4
  <2> HIDE DEF none, Last
  <2>3. QED
    BY <2>1, <2>2, <1>1, <1>2
<1>6. \A n \in Priorities, r, x \in Principals :
        passed'[n][r][x] = IF Last /\ n = PriorityOf[i] /\ r = PrincipalOf[i]
                           THEN 0 ELSE passed[n][r][x]
  <2> HIDE DEF Last
  <2>1. QED
    BY <1>1, <1>2, <1>4
<1>7. ASSUME NEW n \in Priorities, NEW r \in Emptied(n)
      PROVE  Last /\ n = PriorityOf[i] /\ r = PrincipalOf[i]
  <2> DEFINE q == queued[n][r]
  <2>1. r \in Principals /\ q # <<>> /\ Without(q, gone) = <<>>
    BY <1>7
  <2>2. q \in Seq(Items) /\ QueueOK(n, r)
    BY <2>1, <1>2, Parts DEF SchedulerTypeOK, CoherentParts
  <2>3. Distinct(q)
    BY <2>2 DEF QueueOK
  <2> HIDE DEF q
  <2>4. Elements(q) # {} /\ Elements(q) \subseteq gone
    <3> HIDE DEF gone
    <3>1. Without(q, gone) \in Seq(Items) /\ Elements(Without(q, gone)) = Elements(q) \ gone
      BY <2>2, WithoutElements
    <3>2. Elements(Without(q, gone)) = {}
      BY <2>1, <3>1, ElementsEmpty
    <3>3. QED
      BY <2>1, <2>2, <3>1, <3>2, ElementsEmpty
  <2>5. i \in Elements(q) /\ \A k \in 1 .. Len(q) : q[k] = i
    BY <2>4 DEF Elements
  <2>6. PriorityOf[i] = n /\ PrincipalOf[i] = r /\ IsQueued(i) /\ q = QueueOf(i)
    <3>1. i \in Elements(queued[n][r])
      BY <2>5 DEF q
    <3>2. PriorityOf[i] = n /\ PrincipalOf[i] = r /\ IsQueued(i)
      BY <3>1, <2>1, <1>2, Found
    <3>3. QED
      BY <3>2 DEF q, QueueOf
  <2>7. Len(q) = 1
    <3>1. Len(q) \in Nat \ {0}
      BY <2>1, <2>2, LenProperties, EmptySeq
    <3>2. \A j, k \in 1 .. Len(q) : j = k
      BY <2>3, <2>5 DEF Distinct
    <3>3. 1 \in 1 .. Len(q) /\ Len(q) \in 1 .. Len(q)
      BY <3>1
    <3>4. QED
      BY <3>2, <3>3
  <2>8. QED
    BY <2>6, <2>7
<1>8. ASSUME NEW n \in Priorities, NEW r \in Principals, NEW x \in Principals,
             passed'[n][r][x] # 0
      PROVE  /\ passed'[n][r][x] = 1
             /\ r \in Elements(principals'[n])
             /\ Behind(principals'[n], r, x)
  <2> HIDE DEF Last
  <2>1. passed'[n][r][x] = passed[n][r][x] /\ ~(Last /\ n = PriorityOf[i] /\ r = PrincipalOf[i])
    BY <1>6, <1>8
  <2>2. /\ passed[n][r][x] = 1 /\ r \in Elements(principals[n])
        /\ Behind(principals[n], r, x)
    BY <2>1, <1>8 DEF PassedOK
  <2> DEFINE e == Emptied(n)
             t == principals[n]
  <2>3. r \notin e
    BY <2>1, <1>7
  <2>4. principals'[n] = Without(t, e) /\ t \in Seq(Principals)
    BY <1>2, <1>3 DEF SchedulerTypeOK
  <2>5. r \in Elements(t) /\ Behind(t, r, x)
    BY <2>2
  <2> HIDE DEF e, t
  <2>6. Elements(Without(t, e)) = Elements(t) \ e
    BY <2>4, WithoutElements
  <2>7. Behind(Without(t, e), r, x)
    BY <2>4, <2>5, WithoutOrder
  <2>8. QED
    BY <2>1, <2>2, <2>3, <2>4, <2>5, <2>6, <2>7
<1>9. QED
  BY <1>5, <1>8 DEF PassedOK

LEMMA RemoveStep ==
  ASSUME SystemInv, NEW i \in Items, RemoveItem(i)
  PROVE  SystemInv'
<1> USE DEF SystemInv, OrderInv
<1> DEFINE gone == {j \in {i} : IsQueued(j)}
<1>1. RemoveAll({i}) /\ UNCHANGED <<arrival, clock, hand>>
  BY DEF RemoveItem
<1>2. SchedulerTypeOK /\ hand \subseteq Items
  BY DEF TypeOK
<1>3. SchedulerTypeOK' /\ Coherent' /\ QueuedItems' = QueuedItems \ {i}
  BY <1>1, <1>2, RemoveAllKeeps
<1>4. PassedOK' /\ passed' \in [Priorities -> [Principals -> [Principals -> Nat]]]
  BY RemovePassed
<1>5. TypeOK'
  BY <1>1, <1>3, <1>4 DEF TypeOK
<1>6. ArrivalOK'
  BY <1>1, <1>3 DEF ArrivalOK, QueuedItems
<1>7. \A m \in Priorities, r \in Principals : queued'[m][r] = Without(queued[m][r], gone)
  BY <1>1 DEF RemoveAll
<1> HIDE DEF gone
<1>8. FirstInFirstOut'
  <2>1. ASSUME NEW m \in Priorities, NEW r \in Principals
        PROVE  Increasing(queued'[m][r], arrival')
    <3> DEFINE q == queued[m][r]
    <3>1. Increasing(q, arrival) /\ q \in Seq(Items)
      BY <1>2, Fifo DEF SchedulerTypeOK
    <3>2. queued'[m][r] = Without(q, gone)
      BY <1>7
    <3> HIDE DEF q
    <3>3. Increasing(Without(q, gone), arrival)
      BY <3>1, WithoutOrder
    <3>4. QED
      BY <3>2, <3>3, <1>1
  <2>2. QED
    BY <2>1, Fifo
<1>9. HandOK'
  <2>1. ASSUME NEW h \in hand
        PROVE  /\ ~IsQueued(h)' /\ arrival'[h] # 0
               /\ \A j \in Elements(QueueOf(h)') : arrival'[h] < arrival'[j]
    <3>1. h \in Items /\ ~IsQueued(h) /\ arrival[h] # 0
      BY <1>2 DEF HandOK
    <3>2. PriorityOf[h] \in Priorities /\ PrincipalOf[h] \in Principals
      BY <3>1 DEF Priorities
    <3>3. QueueOf(h) \in Seq(Items) /\ QueueOf(h)' = Without(QueueOf(h), gone)
      BY <3>2, <1>2, <1>7 DEF SchedulerTypeOK, QueueOf
    <3>4. Elements(QueueOf(h)') \subseteq Elements(QueueOf(h))
      BY <3>3, WithoutElements
    <3>5. QED
      BY <3>1, <3>4, <1>1, <1>3 DEF HandOK, QueuedItems
  <2>2. QED
    BY <2>1, <1>1 DEF HandOK
<1>10. QED
  BY <1>3, <1>4, <1>5, <1>6, <1>8, <1>9

-----------------------------------------------------------------------------
(* The theorems.                                                           *)

LEMMA SystemInit == Init => SystemInv
<1> SUFFICES ASSUME Init PROVE SystemInv
  OBVIOUS
<1>1. SchedulerTypeOK /\ Coherent /\ QueuedItems = {}
  BY SchedulerInitKeeps DEF Init
<1>2. TypeOK
  BY <1>1 DEF TypeOK, Init
<1>3. ArrivalOK /\ HandOK /\ PassedOK
  BY <1>1 DEF ArrivalOK, HandOK, PassedOK, Init, QueuedItems
<1>4. FirstInFirstOut
  <2>1. \A n \in Priorities, p \in Principals : queued[n][p] = <<>>
    BY DEF Init, SchedulerInit
  <2>2. Len(<<>>) = 0
    BY EmptySeq
  <2>3. QED
    BY <2>1, <2>2 DEF FirstInFirstOut
<1>5. QED
  BY <1>1, <1>2, <1>3, <1>4 DEF SystemInv, OrderInv

LEMMA SystemStep == SystemInv /\ [Next]_vars => SystemInv'
<1> SUFFICES ASSUME SystemInv, [Next]_vars PROVE SystemInv'
  OBVIOUS
<1>1. CASE UNCHANGED vars
  <2>1. UNCHANGED schedulerVars /\ UNCHANGED <<arrival, clock, hand, passed>>
    BY <1>1 DEF vars, systemVars
  <2>2. SchedulerTypeOK' <=> SchedulerTypeOK
    BY <2>1 DEF SchedulerTypeOK, schedulerVars
  <2>3. Coherent' <=> Coherent
    BY <2>1 DEF Coherent, IsQueued, QueueOf, schedulerVars
  <2>4. FirstInFirstOut' <=> FirstInFirstOut
    BY <2>1 DEF FirstInFirstOut, schedulerVars
  <2>5. ArrivalOK' <=> ArrivalOK
    BY <2>1 DEF ArrivalOK, IsQueued, QueueOf, schedulerVars
  <2>6. HandOK' <=> HandOK
    BY <2>1 DEF HandOK, IsQueued, QueueOf, schedulerVars
  <2>7. PassedOK' <=> PassedOK
    BY <2>1 DEF PassedOK, schedulerVars
  <2>8. QED
    BY <2>1, <2>2, <2>3, <2>4, <2>5, <2>6, <2>7 DEF SystemInv, OrderInv, TypeOK
<1>2. ASSUME NEW i \in Items,
             PutItem(i) \/ PopItem(i) \/ RestoreItem(i) \/ Accepted(i) \/ RemoveItem(i)
      PROVE  SystemInv'
  BY <1>2, PutStep, PopStep, RestoreStep, AcceptedStep, RemoveStep
<1>3. QED
  BY <1>1, <1>2 DEF Next

\* The inductive invariant holds in every reachable state.
THEOREM SystemInvariant == Spec => []SystemInv
<1>1. QED
  BY SystemInit, SystemStep, PTL DEF Spec

\* Whatever mix of put, put_front, pop and remove is called: the turn order, the
\* queues, the heap of priorities and the size of the scheduler agree.
THEOREM StructuresAgree == Spec => []Coherent
<1>1. SystemInv => Coherent
  BY DEF SystemInv
<1>2. QED
  BY <1>1, SystemInvariant, PTL

\* The work of one principal at one priority leaves in the order in which it was
\* put, although the dispatcher puts a popped item back in front.
THEOREM OrderOfArrival == Spec => []FirstInFirstOut
<1>1. SystemInv => FirstInFirstOut
  BY DEF SystemInv, OrderInv
<1>2. QED
  BY <1>1, SystemInvariant, PTL

\* While a principal waits at a priority, no other one has two turns there.
THEOREM TurnsAreShared == Spec => []NoOneIsPassedTwice
<1>1. SystemInv => NoOneIsPassedTwice
  <2> SUFFICES ASSUME SystemInv, NEW n \in Priorities, NEW p \in Principals, NEW q \in Principals
               PROVE  passed[n][p][q] <= 1
    BY DEF NoOneIsPassedTwice
  <2>1. passed[n][p][q] \in Nat
    BY DEF SystemInv, TypeOK
  <2>2. passed[n][p][q] # 0 => passed[n][p][q] = 1
    BY DEF SystemInv, PassedOK
  <2>3. QED
    BY <2>1, <2>2
<1>2. QED
  BY <1>1, SystemInvariant, PTL

\* What pop returns is never less urgent than anything that stays queued.
THEOREM MostUrgentFirst == Spec => StrictPriority
<1>1. ASSUME SystemInv, NEW i \in Items, PopItem(i), NEW j \in Items, IsQueued(j)
      PROVE  PriorityOf[i] <= PriorityOf[j]
  <2> DEFINE m == PriorityOf[j]
  <2>1. m \in Priorities /\ PrincipalOf[j] \in Principals
    BY DEF Priorities
  <2>2. queued[m] \in [Principals -> Seq(Items)] /\ j \in Elements(queued[m][PrincipalOf[j]])
    BY <1>1, <2>1 DEF SystemInv, TypeOK, SchedulerTypeOK, IsQueued, QueueOf
  <2>3. queued[m][PrincipalOf[j]] # <<>>
    <3> DEFINE q == queued[m][PrincipalOf[j]]
    <3>1. q \in Seq(Items) /\ j \in Elements(q)
      BY <2>1, <2>2
    <3> HIDE DEF q
    <3>2. q # <<>>
      BY <3>1, ElementsEmpty
    <3>3. QED
      BY <3>2 DEF q
  <2>4. TurnsOK(m)
    BY <1>1, <2>1, Parts DEF SystemInv, CoherentParts
  <2>5. principals[m] \in Seq(Principals)
    BY <1>1, <2>1 DEF SystemInv, TypeOK, SchedulerTypeOK
  <2>6. principals[m] # <<>>
    BY <2>1, <2>3, <2>4, <2>5, ElementsEmpty DEF TurnsOK
  <2>7. m \in heap
    BY <2>4, <2>6 DEF TurnsOK
  <2>8. QED
    BY <1>1, <2>7 DEF PopItem, Pop, IsNext
<1>2. SystemInv /\ [Next]_vars =>
        [\A i \in Items : PopItem(i) =>
           \A j \in Items : IsQueued(j) => PriorityOf[i] <= PriorityOf[j]]_vars
  BY <1>1
<1>3. QED
  BY <1>2, SystemInvariant, PTL DEF Spec, StrictPriority
=============================================================================
