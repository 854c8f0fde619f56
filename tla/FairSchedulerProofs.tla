------------------------ MODULE FairSchedulerProofs ------------------------
(***************************************************************************)
(* What the operations of FairScheduler do, proved for every set of items  *)
(* and principals: each one keeps the structures coherent and changes the  *)
(* set of queued items as its name says.  SchedulerSystemProofs and        *)
(* BrokerProofs build on these lemmas.                                     *)
(*                                                                         *)
(* Without is defined by recursion over a sequence.  What it computes is   *)
(* proved by taking the least index at which a claim fails (lemma Least).  *)
(***************************************************************************)
EXTENDS FairScheduler, SequenceLemmas, FiniteSetTheorems

USE SchedulerAssumption

-----------------------------------------------------------------------------
(* Without.                                                                *)

\* The recursion by which Without is defined has a solution.
LEMMA WithoutRecursion ==
  ASSUME NEW S, NEW s \in Seq(S), NEW gone
  PROVE  \E kept :
           /\ kept = [k \in 0 .. Len(s) |->
                        IF k = 0 THEN <<>>
                        ELSE IF s[k] \in gone THEN kept[k - 1] ELSE Append(kept[k - 1], s[k])]
           /\ Without(s, gone) = kept[Len(s)]
<1> DEFINE Step(g, k) == IF k = 0 THEN <<>>
                         ELSE IF s[k] \in gone THEN g[k - 1] ELSE Append(g[k - 1], s[k])
           Solved(n) == \E g : g = [k \in 0 .. n |-> Step(g, k)]
           P == {n \in Nat : Solved(n)}
<1>1. 0 \in P
  <2> DEFINE g == [k \in 0 .. 0 |-> <<>>]
  <2>1. g = [k \in 0 .. 0 |-> Step(g, k)]
    OBVIOUS
  <2>2. QED
    BY <2>1
<1>2. ASSUME NEW n \in Nat, Solved(n) PROVE Solved(n + 1)
  <2>1. PICK g : g = [k \in 0 .. n |-> Step(g, k)]
    BY <1>2
  <2>2. \A k \in 0 .. n : g[k] = Step(g, k)
    BY <2>1
  <2> DEFINE h == [k \in 0 .. n + 1 |-> IF k = n + 1 THEN Step(g, k) ELSE g[k]]
  <2>3. ASSUME NEW k \in 0 .. n + 1 PROVE h[k] = Step(h, k)
    <3>1. h[k] = Step(g, k)
      <4>1. CASE k = n + 1
        BY <4>1
      <4>2. CASE k # n + 1
        <5>1. k \in 0 .. n /\ h[k] = g[k]
          BY <4>2
        <5> HIDE DEF h, Step
        <5>2. QED
          BY <5>1, <2>2
      <4>3. QED
        BY <4>1, <4>2
    <3>2. k # 0 => h[k - 1] = g[k - 1]
      OBVIOUS
    <3> HIDE DEF h
    <3>3. QED
      BY <3>1, <3>2
  <2>4. h = [k \in 0 .. n + 1 |-> Step(h, k)]
    <3>1. h = [k \in 0 .. n + 1 |-> h[k]]
      OBVIOUS
    <3> HIDE DEF h, Step
    <3>2. QED
      BY <3>1, <2>3
  <2> HIDE DEF h
  <2>5. QED
    BY <2>4
<1>3. 0 .. Len(s) \subseteq P
  <2> HIDE DEF Solved
  <2>1. Len(s) \in Nat
    BY LenProperties
  <2>2. \A k \in 0 .. Len(s) - 1 : k \in P => k + 1 \in P
    BY <2>1, <1>2
  <2> HIDE DEF P
  <2>3. QED
    BY <2>1, <2>2, <1>1, Induction
<1>4. Len(s) \in P
  <2>1. Len(s) \in 0 .. Len(s)
    BY LenProperties
  <2> HIDE DEF P
  <2>2. QED
    BY <1>3, <2>1
<1>5. Solved(Len(s))
  BY <1>4
<1>6. QED
  BY <1>5 DEF Without

\* f lists, in their order, the positions of s up to n whose element is not in
\* gone, and r has the elements at these positions.
Lists(f, r, s, n, gone) ==
  /\ f \in [1 .. Len(r) -> 1 .. n]
  /\ \A i, j \in 1 .. Len(r) : i < j => f[i] < f[j]
  /\ \A j \in 1 .. Len(r) : r[j] = s[f[j]] /\ s[f[j]] \notin gone
  /\ \A k \in 1 .. n : s[k] \notin gone => \E j \in 1 .. Len(r) : f[j] = k

\* Without(s, gone) has, in their order, the elements of s that are not in gone.
LEMMA WithoutLists ==
  ASSUME NEW S, NEW s \in Seq(S), NEW gone
  PROVE  /\ Without(s, gone) \in Seq(S)
         /\ \E f : Lists(f, Without(s, gone), s, Len(s), gone)
<1>1. PICK kept :
           /\ kept = [k \in 0 .. Len(s) |->
                        IF k = 0 THEN <<>>
                        ELSE IF s[k] \in gone THEN kept[k - 1] ELSE Append(kept[k - 1], s[k])]
           /\ Without(s, gone) = kept[Len(s)]
  BY WithoutRecursion
<1> DEFINE Good(n) == kept[n] \in Seq(S) /\ \E f : Lists(f, kept[n], s, n, gone)
           P == {n \in 0 .. Len(s) : Good(n)}
<1>2. Len(s) \in Nat /\ s \in [1 .. Len(s) -> S]
  BY LenProperties
<1>3. 0 \in P
  <2>1. kept[0] = <<>>
    BY <1>1, <1>2
  <2>2. kept[0] \in Seq(S) /\ Len(kept[0]) = 0
    BY <2>1, EmptySeq
  <2> DEFINE f == [j \in {} |-> 0]
  <2>3. Lists(f, kept[0], s, 0, gone)
    BY <2>2 DEF Lists
  <2>4. QED
    BY <2>2, <2>3, <1>2
<1>4. ASSUME NEW n \in 0 .. Len(s) - 1, Good(n) PROVE Good(n + 1)
  <2>0. PICK f : Lists(f, kept[n], s, n, gone)
    BY <1>4
  <2>1. /\ f \in [1 .. Len(kept[n]) -> 1 .. n]
        /\ \A i, j \in 1 .. Len(kept[n]) : i < j => f[i] < f[j]
        /\ \A j \in 1 .. Len(kept[n]) : kept[n][j] = s[f[j]] /\ s[f[j]] \notin gone
        /\ \A k \in 1 .. n : s[k] \notin gone => \E j \in 1 .. Len(kept[n]) : f[j] = k
    BY <2>0 DEF Lists
  <2>2. n \in Nat /\ n + 1 \in 1 .. Len(s) /\ s[n + 1] \in S
    BY <1>2
  <2>3. kept[n + 1] = IF s[n + 1] \in gone THEN kept[n] ELSE Append(kept[n], s[n + 1])
    <3>1. n + 1 \in 0 .. Len(s) /\ n + 1 # 0 /\ (n + 1) - 1 = n
      BY <2>2, <1>2
    <3>2. QED
      BY <3>1, <1>1
  <2>4. kept[n] \in Seq(S) /\ Len(kept[n]) \in Nat
    BY <1>4, LenProperties
  <2>5. CASE s[n + 1] \in gone
    <3>1. kept[n + 1] = kept[n]
      BY <2>3, <2>5
    <3>2. f \in [1 .. Len(kept[n]) -> 1 .. n + 1]
      BY <2>1, <2>2
    <3>3. \A k \in 1 .. n + 1 : s[k] \notin gone => \E j \in 1 .. Len(kept[n]) : f[j] = k
      BY <2>1, <2>2, <2>5
    <3>4. Lists(f, kept[n], s, n + 1, gone)
      BY <3>2, <3>3, <2>1 DEF Lists
    <3>5. QED
      BY <3>1, <3>4, <2>4
  <2>6. CASE s[n + 1] \notin gone
    <3> DEFINE m == Len(kept[n]) + 1
               g == [j \in 1 .. m |-> IF j = m THEN n + 1 ELSE f[j]]
    <3>1. /\ kept[n + 1] \in Seq(S)
          /\ Len(kept[n + 1]) = m
          /\ \A j \in 1 .. Len(kept[n]) : kept[n + 1][j] = kept[n][j]
          /\ kept[n + 1][m] = s[n + 1]
      BY <2>2, <2>3, <2>4, <2>6, AppendProperties
    <3>2. g \in [1 .. m -> 1 .. n + 1]
      BY <2>1, <2>2, <2>4
    <3>3. ASSUME NEW i \in 1 .. m, NEW j \in 1 .. m, i < j
          PROVE  g[i] < g[j]
      <4>1. i \in 1 .. Len(kept[n])
        BY <3>3, <2>4
      <4>2. i # m
        BY <4>1, <2>4
      <4>3. g[i] = f[i]
        BY <4>2
      <4>4. f[i] \in 1 .. n
        BY <4>1, <2>1
      <4>5. CASE j = m
        <5>1. g[j] = n + 1
          BY <4>5
        <5> HIDE DEF g, m
        <5>2. QED
          BY <4>3, <4>4, <5>1, <2>2
      <4>6. CASE j # m
        <5>1. j \in 1 .. Len(kept[n]) /\ g[j] = f[j]
          BY <4>6, <2>4
        <5> HIDE DEF g, m
        <5>2. QED
          BY <4>1, <4>3, <5>1, <3>3, <2>1
      <4>7. QED
        BY <4>5, <4>6
    <3>4. ASSUME NEW j \in 1 .. m
          PROVE  kept[n + 1][j] = s[g[j]] /\ s[g[j]] \notin gone
      <4>1. CASE j = m
        BY <4>1, <2>6, <3>1
      <4>2. CASE j # m
        <5>1. j \in 1 .. Len(kept[n]) /\ g[j] = f[j]
          BY <4>2, <2>4
        <5> HIDE DEF g, m
        <5>2. QED
          BY <5>1, <2>1, <3>1
      <4>3. QED
        BY <4>1, <4>2
    <3>5. ASSUME NEW k \in 1 .. n + 1, s[k] \notin gone
          PROVE  \E j \in 1 .. m : g[j] = k
      <4>1. CASE k = n + 1
        <5>1. m \in 1 .. m /\ g[m] = n + 1
          BY <2>4
        <5>2. QED
          BY <4>1, <5>1
      <4>2. CASE k # n + 1
        <5>1. PICK j \in 1 .. Len(kept[n]) : f[j] = k
          BY <4>2, <3>5, <2>1, <2>2
        <5>2. j \in 1 .. m /\ g[j] = k
          BY <5>1, <2>4
        <5>3. QED
          BY <5>2
      <4>3. QED
        BY <4>1, <4>2
    <3> HIDE DEF g, m
    <3>6. Lists(g, kept[n + 1], s, n + 1, gone)
      BY <3>1, <3>2, <3>3, <3>4, <3>5 DEF Lists
    <3>7. QED
      BY <3>1, <3>6
  <2>7. QED
    BY <2>5, <2>6
<1>5. 0 .. Len(s) \subseteq P
  <2> HIDE DEF Good
  <2>1. \A k \in 0 .. Len(s) - 1 : k \in P => k + 1 \in P
    BY <1>2, <1>4
  <2> HIDE DEF P
  <2>2. QED
    BY <1>2, <1>3, <2>1, Induction
<1>6. Good(Len(s))
  BY <1>2, <1>5
<1>7. Without(s, gone) = kept[Len(s)]
  BY <1>1
<1>8. QED
  BY <1>6, <1>7

\* What is kept are the elements that are not in gone; distinct ones stay distinct.
LEMMA WithoutElements ==
  ASSUME NEW S, NEW s \in Seq(S), NEW gone
  PROVE  /\ Without(s, gone) \in Seq(S)
         /\ Elements(Without(s, gone)) = Elements(s) \ gone
         /\ Distinct(s) => Distinct(Without(s, gone))
<1> DEFINE r == Without(s, gone)
<1>0. r \in Seq(S) /\ \E f : Lists(f, r, s, Len(s), gone)
  BY WithoutLists
<1>2. r \in Seq(S) /\ Len(r) \in Nat /\ Len(s) \in Nat
  BY <1>0, LenProperties
<1> HIDE DEF r
<1>. PICK f : Lists(f, r, s, Len(s), gone)
  BY <1>0
<1>1. /\ f \in [1 .. Len(r) -> 1 .. Len(s)]
      /\ \A i, j \in 1 .. Len(r) : i < j => f[i] < f[j]
      /\ \A j \in 1 .. Len(r) : r[j] = s[f[j]] /\ s[f[j]] \notin gone
      /\ \A k \in 1 .. Len(s) : s[k] \notin gone => \E j \in 1 .. Len(r) : f[j] = k
  BY DEF Lists
<1>3. Elements(r) = Elements(s) \ gone
  <2>1. ASSUME NEW x \in Elements(r) PROVE x \in Elements(s) \ gone
    <3>1. PICK j \in 1 .. Len(r) : x = r[j]
      BY DEF Elements
    <3>2. f[j] \in 1 .. Len(s) /\ x = s[f[j]] /\ x \notin gone
      BY <3>1, <1>1
    <3>3. QED
      BY <3>2 DEF Elements
  <2>2. ASSUME NEW x \in Elements(s) \ gone PROVE x \in Elements(r)
    <3>1. PICK k \in 1 .. Len(s) : x = s[k]
      BY DEF Elements
    <3>2. PICK j \in 1 .. Len(r) : f[j] = k
      BY <3>1, <1>1
    <3>3. QED
      BY <3>1, <3>2, <1>1 DEF Elements
  <2>3. QED
    BY <2>1, <2>2
<1>4. ASSUME Distinct(s), NEW i \in 1 .. Len(r), NEW j \in 1 .. Len(r), r[i] = r[j]
      PROVE  i = j
  <2>1. f[i] \in 1 .. Len(s) /\ f[j] \in 1 .. Len(s) /\ s[f[i]] = s[f[j]]
    BY <1>1, <1>4
  <2>2. f[i] = f[j]
    BY <2>1, <1>4 DEF Distinct
  <2>3. ~(i < j) /\ ~(j < i)
    BY <1>1, <2>1, <2>2
  <2>4. QED
    BY <2>3
<1>5. Distinct(s) => Distinct(r)
  BY <1>4 DEF Distinct
<1>6. QED
  BY <1>2, <1>3, <1>5 DEF r

-----------------------------------------------------------------------------
(* Elements of a sequence that changes at an end.                          *)

LEMMA ElementsEmpty ==
  ASSUME NEW S, NEW s \in Seq(S)
  PROVE  /\ s = <<>> <=> Elements(s) = {}
         /\ Elements(s) \subseteq S
<1>1. Len(s) \in Nat /\ s \in [1 .. Len(s) -> S]
  BY LenProperties
<1>2. s # <<>> => 1 \in 1 .. Len(s)
  BY EmptySeq
<1>3. s = <<>> => Len(s) = 0
  BY EmptySeq
<1>4. s # <<>> => s[1] \in Elements(s)
  BY <1>2 DEF Elements
<1>5. s = <<>> => Elements(s) = {}
  BY <1>3 DEF Elements
<1>6. QED
  BY <1>1, <1>4, <1>5 DEF Elements

LEMMA ElementsAppend ==
  ASSUME NEW S, NEW s \in Seq(S), NEW e \in S
  PROVE  /\ Append(s, e) \in Seq(S)
         /\ Elements(Append(s, e)) = Elements(s) \cup {e}
         /\ Distinct(s) /\ e \notin Elements(s) => Distinct(Append(s, e))
<1> DEFINE a == Append(s, e)
<1>1. /\ a \in Seq(S) /\ Len(s) \in Nat /\ Len(a) = Len(s) + 1
      /\ \A i \in 1 .. Len(s) : a[i] = s[i]
      /\ a[Len(s) + 1] = e
  BY AppendProperties, LenProperties
<1> HIDE DEF a
<1>2. 1 .. Len(a) = (1 .. Len(s)) \cup {Len(s) + 1}
  BY <1>1
<1>3. Elements(a) = Elements(s) \cup {e}
  <2>1. ASSUME NEW k \in 1 .. Len(a) PROVE a[k] \in Elements(s) \cup {e}
    <3>1. CASE k = Len(s) + 1
      BY <3>1, <1>1
    <3>2. CASE k \in 1 .. Len(s)
      BY <3>2, <1>1 DEF Elements
    <3>3. QED
      BY <3>1, <3>2, <1>2
  <2>2. Elements(a) \subseteq Elements(s) \cup {e}
    BY <2>1 DEF Elements
  <2>3. e \in Elements(a)
    BY <1>1, <1>2 DEF Elements
  <2>4. ASSUME NEW k \in 1 .. Len(s) PROVE k \in 1 .. Len(a) /\ a[k] = s[k]
    BY <1>1, <1>2
  <2>5. Elements(s) \subseteq Elements(a)
    BY <2>4 DEF Elements
  <2>6. QED
    BY <2>2, <2>3, <2>5
<1>4. ASSUME Distinct(s), e \notin Elements(s), NEW i \in 1 .. Len(a), NEW j \in 1 .. Len(a),
             a[i] = a[j]
      PROVE  i = j
  <2>1. \A k \in 1 .. Len(s) : s[k] # e
    BY <1>4 DEF Elements
  <2>2. QED
    BY <2>1, <1>1, <1>2, <1>4 DEF Distinct
<1>5. QED
  BY <1>1, <1>3, <1>4 DEF a, Distinct

LEMMA ElementsPrepend ==
  ASSUME NEW S, NEW s \in Seq(S), NEW e \in S
  PROVE  /\ <<e>> \o s \in Seq(S)
         /\ Elements(<<e>> \o s) = Elements(s) \cup {e}
         /\ Distinct(s) /\ e \notin Elements(s) => Distinct(<<e>> \o s)
<1> DEFINE a == <<e>> \o s
<1>1. <<e>> \in Seq(S) /\ Len(<<e>>) = 1 /\ <<e>>[1] = e /\ Len(s) \in Nat
  BY LenProperties
<1>2. /\ a \in Seq(S) /\ Len(a) = Len(s) + 1
      /\ \A i \in 1 .. Len(s) + 1 : a[i] = IF i = 1 THEN e ELSE s[i - 1]
  BY <1>1, ConcatProperties
<1> HIDE DEF a
<1>3. Elements(a) = Elements(s) \cup {e}
  <2>1. Elements(a) \subseteq Elements(s) \cup {e}
    BY <1>1, <1>2 DEF Elements
  <2>2. a[1] = e /\ 1 \in 1 .. Len(a)
    BY <1>1, <1>2
  <2>3. ASSUME NEW k \in 1 .. Len(s) PROVE k + 1 \in 1 .. Len(a) /\ a[k + 1] = s[k]
    BY <1>1, <1>2
  <2>4. e \in Elements(a)
    BY <2>2 DEF Elements
  <2>5. ASSUME NEW x \in Elements(s) PROVE x \in Elements(a)
    BY <2>3 DEF Elements
  <2>6. QED
    BY <2>1, <2>4, <2>5
<1>4. ASSUME Distinct(s), e \notin Elements(s), NEW i \in 1 .. Len(a), NEW j \in 1 .. Len(a),
             a[i] = a[j]
      PROVE  i = j
  <2>1. \A k \in 1 .. Len(s) : s[k] # e
    BY <1>4 DEF Elements
  <2>2. i # 1 => i - 1 \in 1 .. Len(s) /\ a[i] = s[i - 1]
    BY <1>1, <1>2
  <2>3. j # 1 => j - 1 \in 1 .. Len(s) /\ a[j] = s[j - 1]
    BY <1>1, <1>2
  <2>4. a[1] = e
    BY <1>1, <1>2
  <2>5. i = 1 <=> j = 1
    BY <2>1, <2>2, <2>3, <2>4, <1>4
  <2>6. i # 1 => i - 1 = j - 1
    BY <2>2, <2>3, <2>5, <1>4 DEF Distinct
  <2>7. QED
    BY <2>5, <2>6
<1>5. QED
  BY <1>2, <1>3, <1>4 DEF a, Distinct

LEMMA ElementsTail ==
  ASSUME NEW S, NEW s \in Seq(S), s # <<>>
  PROVE  /\ Tail(s) \in Seq(S) /\ Head(s) \in Elements(s)
         /\ Distinct(s) => /\ Distinct(Tail(s))
                           /\ Elements(Tail(s)) = Elements(s) \ {Head(s)}
<1> DEFINE a == Tail(s)
<1>1. /\ a \in Seq(S) /\ Len(s) \in Nat \ {0} /\ Len(a) = Len(s) - 1 /\ Head(s) = s[1]
      /\ \A i \in 1 .. Len(a) : a[i] = s[i + 1]
  BY HeadTailProperties, EmptySeq, LenProperties
<1> HIDE DEF a
<1>2. Head(s) \in Elements(s)
  BY <1>1 DEF Elements
<1>3. ASSUME Distinct(s) PROVE Distinct(a)
  <2>1. ASSUME NEW i \in 1 .. Len(a), NEW j \in 1 .. Len(a), a[i] = a[j] PROVE i = j
    <3>1. i + 1 \in 1 .. Len(s) /\ j + 1 \in 1 .. Len(s) /\ s[i + 1] = s[j + 1]
      BY <1>1, <2>1
    <3>2. i + 1 = j + 1
      BY <3>1, <1>3 DEF Distinct
    <3>3. QED
      BY <3>2
  <2>2. QED
    BY <2>1 DEF Distinct
<1>4. ASSUME Distinct(s) PROVE Elements(a) = Elements(s) \ {Head(s)}
  <2>1. ASSUME NEW x \in Elements(a) PROVE x \in Elements(s) \ {Head(s)}
    <3>1. PICK i \in 1 .. Len(a) : x = a[i]
      BY DEF Elements
    <3>2. i + 1 \in 1 .. Len(s) /\ 1 \in 1 .. Len(s) /\ i + 1 # 1 /\ x = s[i + 1]
      BY <3>1, <1>1
    <3>3. s[i + 1] # s[1]
      BY <3>2, <1>4 DEF Distinct
    <3>4. QED
      BY <3>2, <3>3, <1>1 DEF Elements
  <2>2. ASSUME NEW x \in Elements(s), x # Head(s) PROVE x \in Elements(a)
    <3>1. PICK k \in 1 .. Len(s) : x = s[k]
      BY DEF Elements
    <3>2. k # 1 /\ k - 1 \in 1 .. Len(a) /\ (k - 1) + 1 = k
      BY <3>1, <2>2, <1>1
    <3>3. a[k - 1] = x
      BY <3>1, <3>2, <1>1
    <3>4. QED
      BY <3>2, <3>3 DEF Elements
  <2>3. QED
    BY <2>1, <2>2
<1>5. QED
  BY <1>1, <1>2, <1>3, <1>4 DEF a

-----------------------------------------------------------------------------
(* The operations.                                                         *)

QueuedItems == {i \in Items : IsQueued(i)}

\* Coherent, one bucket, one queue and the counter at a time.
TurnsOK(n) ==
  /\ Distinct(principals[n])
  /\ \A p \in Principals : p \in Elements(principals[n]) <=> queued[n][p] # <<>>
  /\ n \in heap <=> principals[n] # <<>>
QueueOK(n, p) ==
  /\ Distinct(queued[n][p])
  /\ \A i \in Elements(queued[n][p]) : PriorityOf[i] = n /\ PrincipalOf[i] = p
CoherentParts ==
  /\ \A n \in Priorities : TurnsOK(n)
  /\ size = Cardinality(QueuedItems)
  /\ \A n \in Priorities, p \in Principals : QueueOK(n, p)

LEMMA Parts == /\ Coherent <=> CoherentParts
               /\ Coherent' <=> CoherentParts'
  BY DEF Coherent, CoherentParts, TurnsOK, QueueOK, QueuedItems

LEMMA QueuedItemsFinite ==
  /\ IsFiniteSet(QueuedItems) /\ Cardinality(QueuedItems) \in Nat
  /\ \A T \in SUBSET QueuedItems : IsFiniteSet(T) /\ Cardinality(T) \in Nat
<1>1. QueuedItems \in SUBSET Items
  BY DEF QueuedItems
<1>2. \A T \in SUBSET QueuedItems : T \in SUBSET Items
  BY <1>1
<1>3. QED
  BY <1>1, <1>2, FS_Subset, FS_CardinalityType

\* put and put_front: the item, which was not queued, now is, and no other.
LEMMA EnqueueKeeps ==
  ASSUME SchedulerTypeOK, Coherent, NEW i \in Items, ~IsQueued(i),
         NEW front \in BOOLEAN, Enqueue(i, front)
  PROVE  SchedulerTypeOK' /\ Coherent' /\ QueuedItems' = QueuedItems \cup {i}
<1> DEFINE n == PriorityOf[i]
           p == PrincipalOf[i]
           q == queued[n][p]
           newq == IF front THEN <<i>> \o q ELSE Append(q, i)
           turns == principals[n]
           newt == IF q = <<>> THEN Append(turns, p) ELSE turns
<1>1. n \in Priorities /\ p \in Principals
  BY DEF Priorities
<1>2. q \in Seq(Items) /\ turns \in Seq(Principals) /\ heap \subseteq Priorities /\ size \in Nat
  BY <1>1 DEF SchedulerTypeOK
<1>3. CoherentParts
  BY Parts
<1>4. TurnsOK(n) /\ QueueOK(n, p)
  BY <1>1, <1>3 DEF CoherentParts
<1>5. i \notin Elements(q)
  BY DEF IsQueued, QueueOf
<1>6. newq \in Seq(Items) /\ Elements(newq) = Elements(q) \cup {i} /\ Distinct(newq)
  <2>1. Distinct(q)
    BY <1>4 DEF QueueOK
  <2> HIDE DEF q
  <2>2. QED
    BY <1>2, <1>5, <2>1, ElementsAppend, ElementsPrepend
<1>7. newt \in Seq(Principals) /\ Elements(newt) = Elements(turns) \cup {p} /\ Distinct(newt)
  <2>1. Distinct(turns) /\ (p \in Elements(turns) <=> q # <<>>)
    BY <1>1, <1>4 DEF TurnsOK
  <2> HIDE DEF q, turns
  <2>2. QED
    BY <1>1, <1>2, <2>1, ElementsAppend
<1>8. \A m \in Priorities, r \in Principals :
        queued'[m][r] = IF m = n /\ r = p THEN newq ELSE queued[m][r]
  BY <1>1 DEF Enqueue, SchedulerTypeOK
<1>9. \A m \in Priorities : principals'[m] = IF m = n THEN newt ELSE principals[m]
  BY <1>1 DEF Enqueue, SchedulerTypeOK
<1>10. heap' = heap \cup {n} /\ size' = size + 1
  BY DEF Enqueue
<1>11. SchedulerTypeOK'
  <2>1. principals' \in [Priorities -> Seq(Principals)]
    BY <1>1, <1>7 DEF Enqueue, SchedulerTypeOK
  <2>2. queued' \in [Priorities -> [Principals -> Seq(Items)]]
    BY <1>1, <1>6 DEF Enqueue, SchedulerTypeOK
  <2>3. QED
    BY <1>1, <1>2, <1>10, <2>1, <2>2 DEF SchedulerTypeOK
<1>12. newq # <<>> /\ newt # <<>>
  <2> HIDE DEF newq, newt
  <2>1. QED
    BY <1>6, <1>7, ElementsEmpty
<1> HIDE DEF newq, newt
<1>13. QueuedItems' = QueuedItems \cup {i}
  <2>1. ASSUME NEW j \in Items PROVE IsQueued(j)' <=> IsQueued(j) \/ j = i
    <3>1. PriorityOf[j] \in Priorities /\ PrincipalOf[j] \in Principals
      BY DEF Priorities
    <3>2. CASE PriorityOf[j] = n /\ PrincipalOf[j] = p
      <4>1. IsQueued(j)' <=> j \in Elements(newq)
        BY <1>8, <3>1, <3>2 DEF IsQueued, QueueOf
      <4>2. IsQueued(j) <=> j \in Elements(q)
        BY <3>2 DEF IsQueued, QueueOf
      <4>3. QED
        BY <4>1, <4>2, <1>6
    <3>3. CASE ~(PriorityOf[j] = n /\ PrincipalOf[j] = p)
      BY <1>8, <3>1, <3>3 DEF IsQueued, QueueOf
    <3>4. QED
      BY <3>2, <3>3
  <2>2. QED
    BY <2>1 DEF QueuedItems
<1>14. ASSUME NEW m \in Priorities PROVE TurnsOK(m)'
  <2>1. TurnsOK(m)
    BY <1>3 DEF CoherentParts
  <2>2. CASE m = n
    <3>1. principals'[m] = newt /\ m \in heap'
      BY <2>2, <1>1, <1>9, <1>10
    <3>2. ASSUME NEW r \in Principals
          PROVE  r \in Elements(principals'[m]) <=> queued'[m][r] # <<>>
      <4>1. r \in Elements(turns) <=> queued[n][r] # <<>>
        BY <1>4 DEF TurnsOK
      <4>2. QED
        BY <4>1, <3>1, <2>2, <1>1, <1>7, <1>8, <1>12
    <3>3. QED
      BY <3>1, <3>2, <1>7, <1>12 DEF TurnsOK
  <2>3. CASE m # n
    <3>1. principals'[m] = principals[m] /\ \A r \in Principals : queued'[m][r] = queued[m][r]
      BY <2>3, <1>8, <1>9
    <3>2. QED
      BY <3>1, <2>1, <2>3, <1>10 DEF TurnsOK
  <2>4. QED
    BY <2>2, <2>3
<1>15. ASSUME NEW m \in Priorities, NEW r \in Principals PROVE QueueOK(m, r)'
  <2>1. QueueOK(m, r)
    BY <1>3 DEF CoherentParts
  <2>2. CASE m = n /\ r = p
    BY <2>1, <2>2, <1>1, <1>6, <1>8 DEF QueueOK
  <2>3. CASE ~(m = n /\ r = p)
    BY <2>1, <2>3, <1>8 DEF QueueOK
  <2>4. QED
    BY <2>2, <2>3
<1>16. size' = Cardinality(QueuedItems')
  <2>1. i \notin QueuedItems
    BY DEF QueuedItems
  <2>2. Cardinality(QueuedItems \cup {i}) = Cardinality(QueuedItems) + 1
    BY <2>1, QueuedItemsFinite, FS_AddElement
  <2>3. QED
    BY <2>2, <1>3, <1>10, <1>13 DEF CoherentParts
<1>17. QED
  BY <1>11, <1>13, <1>14, <1>15, <1>16, Parts DEF CoherentParts

\* pop returns an item that was queued and is no longer.
LEMMA PopKeeps ==
  ASSUME SchedulerTypeOK, Coherent, NEW i \in Items, Pop(i)
  PROVE  /\ SchedulerTypeOK' /\ Coherent'
         /\ IsQueued(i) /\ QueuedItems' = QueuedItems \ {i}
<1> DEFINE n == PriorityOf[i]
           p == PrincipalOf[i]
           q == queued[n][p]
           newq == Tail(q)
           turns == principals[n]
           newt == IF newq # <<>> THEN Append(Tail(turns), p) ELSE Tail(turns)
<1>1. n \in Priorities /\ p \in Principals
  BY DEF Priorities
<1>2. q \in Seq(Items) /\ turns \in Seq(Principals) /\ heap \subseteq Priorities /\ size \in Nat
  BY <1>1 DEF SchedulerTypeOK
<1>3. CoherentParts
  BY Parts
<1>4. TurnsOK(n) /\ QueueOK(n, p)
  BY <1>1, <1>3, SMTT(30) DEF CoherentParts
<1>5. n \in heap /\ p = Head(turns) /\ i = Head(q) /\ size > 0
  BY DEF Pop, IsNext, QueueOf
<1>6. turns # <<>> /\ Distinct(turns)
  BY <1>4, <1>5 DEF TurnsOK
<1>7. Tail(turns) \in Seq(Principals) /\ p \in Elements(turns) /\ Distinct(Tail(turns))
      /\ Elements(Tail(turns)) = Elements(turns) \ {p}
  <2> HIDE DEF turns
  <2>1. QED
    BY <1>2, <1>5, <1>6, ElementsTail
<1>8. q # <<>> /\ Distinct(q)
  BY <1>1, <1>4, <1>7 DEF TurnsOK, QueueOK
<1>9. newq \in Seq(Items) /\ i \in Elements(q) /\ Distinct(newq)
      /\ Elements(newq) = Elements(q) \ {i}
  <2> HIDE DEF q
  <2>1. QED
    BY <1>2, <1>5, <1>8, ElementsTail
<1>10. newt \in Seq(Principals) /\ Distinct(newt)
       /\ Elements(newt) = IF newq = <<>> THEN Elements(turns) \ {p} ELSE Elements(turns)
  <2> HIDE DEF turns, newq
  <2>1. p \notin Elements(Tail(turns))
    BY <1>7
  <2>2. (Elements(turns) \ {p}) \cup {p} = Elements(turns)
    BY <1>7
  <2>3. CASE newq = <<>>
    BY <2>3, <1>7
  <2>4. CASE newq # <<>>
    <3>1. newt = Append(Tail(turns), p)
      BY <2>4
    <3> HIDE DEF newt
    <3>2. Elements(newt) = Elements(Tail(turns)) \cup {p} /\ newt \in Seq(Principals)
          /\ Distinct(newt)
      <4> DEFINE t == Tail(turns)
      <4>1. t \in Seq(Principals) /\ Distinct(t) /\ p \notin Elements(t) /\ newt = Append(t, p)
        BY <3>1, <2>1, <1>7
      <4> HIDE DEF t, p
      <4>2. /\ Append(t, p) \in Seq(Principals) /\ Distinct(Append(t, p))
            /\ Elements(Append(t, p)) = Elements(t) \cup {p}
        BY <4>1, <1>1, ElementsAppend, ZenonT(60)
      <4>3. QED
        BY <4>1, <4>2 DEF t
    <3>3. QED
      BY <3>2, <2>2, <2>4, <1>7
  <2>5. QED
    BY <2>3, <2>4
<1>11. \A m \in Priorities, r \in Principals :
        queued'[m][r] = IF m = n /\ r = p THEN newq ELSE queued[m][r]
  BY <1>1 DEF Pop, SchedulerTypeOK
<1>12. \A m \in Priorities : principals'[m] = IF m = n THEN newt ELSE principals[m]
  BY <1>1 DEF Pop, SchedulerTypeOK, QueueOf
<1>13. heap' = (IF newt = <<>> THEN heap \ {n} ELSE heap) /\ size' = size - 1
  BY DEF Pop, QueueOf
<1>14. SchedulerTypeOK'
  <2>1. principals' \in [Priorities -> Seq(Principals)]
    BY <1>1, <1>10 DEF Pop, SchedulerTypeOK, QueueOf
  <2>2. queued' \in [Priorities -> [Principals -> Seq(Items)]]
    BY <1>1, <1>9 DEF Pop, SchedulerTypeOK
  <2>3. heap' \subseteq Priorities /\ size' \in Nat
    <3> HIDE DEF newt
    <3>1. QED
      BY <1>2, <1>5, <1>13
  <2>4. QED
    BY <2>1, <2>2, <2>3 DEF SchedulerTypeOK
<1> HIDE DEF newq, newt
<1>15. IsQueued(i) /\ QueuedItems' = QueuedItems \ {i}
  <2>1. IsQueued(i)
    BY <1>9 DEF IsQueued, QueueOf
  <2>2. ASSUME NEW j \in Items PROVE IsQueued(j)' <=> IsQueued(j) /\ j # i
    <3>1. PriorityOf[j] \in Priorities /\ PrincipalOf[j] \in Principals
      BY DEF Priorities
    <3>2. CASE PriorityOf[j] = n /\ PrincipalOf[j] = p
      <4>1. IsQueued(j)' <=> j \in Elements(newq)
        BY <1>11, <3>1, <3>2 DEF IsQueued, QueueOf
      <4>2. IsQueued(j) <=> j \in Elements(q)
        BY <3>2 DEF IsQueued, QueueOf
      <4>3. QED
        BY <4>1, <4>2, <1>9
    <3>3. CASE ~(PriorityOf[j] = n /\ PrincipalOf[j] = p)
      BY <1>11, <3>1, <3>3 DEF IsQueued, QueueOf
    <3>4. QED
      BY <3>2, <3>3
  <2>3. QED
    BY <2>1, <2>2 DEF QueuedItems
<1>16. newt = <<>> <=> Elements(newt) = {}
  BY <1>10, ElementsEmpty
<1>17. ASSUME NEW m \in Priorities PROVE TurnsOK(m)'
  <2>1. TurnsOK(m)
    BY <1>3 DEF CoherentParts
  <2>2. CASE m = n
    <3>1. principals'[m] = newt /\ (m \in heap' <=> newt # <<>>)
      BY <2>2, <1>1, <1>5, <1>12, <1>13
    <3>2. ASSUME NEW r \in Principals
          PROVE  r \in Elements(principals'[m]) <=> queued'[m][r] # <<>>
      <4>1. r \in Elements(turns) <=> queued[n][r] # <<>>
        BY <1>4 DEF TurnsOK
      <4>2. QED
        BY <4>1, <3>1, <2>2, <1>1, <1>7, <1>10, <1>11
    <3>3. QED
      BY <3>1, <3>2, <1>10 DEF TurnsOK
  <2>3. CASE m # n
    <3>1. principals'[m] = principals[m] /\ \A r \in Principals : queued'[m][r] = queued[m][r]
      BY <2>3, <1>11, <1>12
    <3>2. QED
      BY <3>1, <2>1, <2>3, <1>13 DEF TurnsOK
  <2>4. QED
    BY <2>2, <2>3
<1>18. ASSUME NEW m \in Priorities, NEW r \in Principals PROVE QueueOK(m, r)'
  <2>1. QueueOK(m, r)
    BY <1>3 DEF CoherentParts
  <2>2. CASE m = n /\ r = p
    BY <2>1, <2>2, <1>1, <1>9, <1>11 DEF QueueOK
  <2>3. CASE ~(m = n /\ r = p)
    BY <2>1, <2>3, <1>11 DEF QueueOK
  <2>4. QED
    BY <2>2, <2>3
<1>19. size' = Cardinality(QueuedItems')
  <2>1. i \in QueuedItems
    BY <1>15 DEF QueuedItems
  <2>2. Cardinality(QueuedItems \ {i}) = Cardinality(QueuedItems) - 1
    BY <2>1, QueuedItemsFinite, FS_RemoveElement
  <2>3. QED
    BY <2>2, <1>3, <1>13, <1>15 DEF CoherentParts
<1>20. QED
  BY <1>14, <1>15, <1>17, <1>18, <1>19, Parts DEF CoherentParts

\* remove: the items of S are no longer queued, the others stay.
LEMMA RemoveAllKeeps ==
  ASSUME SchedulerTypeOK, Coherent, NEW S \in SUBSET Items, RemoveAll(S)
  PROVE  SchedulerTypeOK' /\ Coherent' /\ QueuedItems' = QueuedItems \ S
<1> DEFINE gone == {i \in S : IsQueued(i)}
           Rest(n, p) == Without(queued[n][p], gone)
           Emptied(n) == {p \in Principals : queued[n][p] # <<>> /\ Rest(n, p) = <<>>}
           Turns(n) == Without(principals[n], Emptied(n))
<1>1. /\ queued' = [n \in Priorities |-> [p \in Principals |-> Rest(n, p)]]
      /\ principals' = [n \in Priorities |-> Turns(n)]
      /\ heap' = {n \in heap : Turns(n) # <<>>}
      /\ size' = size - Cardinality(gone)
  BY DEF RemoveAll
<1>2. CoherentParts
  BY Parts
<1>3. ASSUME NEW n \in Priorities, NEW p \in Principals
      PROVE  /\ Rest(n, p) \in Seq(Items)
             /\ Elements(Rest(n, p)) = Elements(queued[n][p]) \ gone
             /\ Distinct(Rest(n, p))
             /\ queued'[n][p] = Rest(n, p)
  <2>1. queued[n][p] \in Seq(Items) /\ Distinct(queued[n][p])
    BY <1>2 DEF SchedulerTypeOK, CoherentParts, QueueOK
  <2>2. queued'[n][p] = Rest(n, p)
    BY <1>1
  <2> HIDE DEF gone
  <2>3. QED
    BY <2>1, <2>2, WithoutElements
<1>4. ASSUME NEW n \in Priorities
      PROVE  /\ Turns(n) \in Seq(Principals)
             /\ Elements(Turns(n)) = Elements(principals[n]) \ Emptied(n)
             /\ Distinct(Turns(n))
             /\ principals'[n] = Turns(n)
  <2>1. principals[n] \in Seq(Principals) /\ Distinct(principals[n])
    BY <1>2 DEF SchedulerTypeOK, CoherentParts, TurnsOK
  <2>2. principals'[n] = Turns(n)
    BY <1>1
  <2> HIDE DEF Emptied
  <2>3. QED
    BY <2>1, <2>2, WithoutElements
<1>5. QueuedItems' = QueuedItems \ S /\ gone = QueuedItems \cap S
  <2>1. ASSUME NEW j \in Items PROVE IsQueued(j)' <=> IsQueued(j) /\ j \notin S
    <3>1. PriorityOf[j] \in Priorities /\ PrincipalOf[j] \in Principals
      BY DEF Priorities
    <3>2. IsQueued(j)' <=> j \in Elements(queued'[PriorityOf[j]][PrincipalOf[j]])
      BY DEF IsQueued, QueueOf
    <3>3. Elements(queued'[PriorityOf[j]][PrincipalOf[j]]) = Elements(QueueOf(j)) \ gone
      <4> HIDE DEF gone, Rest
      <4>1. QED
        BY <3>1, <1>3 DEF QueueOf
    <3>4. QED
      BY <3>2, <3>3 DEF IsQueued
  <2>2. QED
    BY <2>1 DEF QueuedItems
<1>6. Cardinality(QueuedItems \ S) = Cardinality(QueuedItems) - Cardinality(gone)
  <2>1. QueuedItems \ S = QueuedItems \ gone
    BY <1>5
  <2>2. gone \in SUBSET QueuedItems
    BY <1>5
  <2>3. QueuedItems \cap gone = gone
    BY <2>2
  <2> HIDE DEF gone
  <2>4. QED
    BY <2>1, <2>3, QueuedItemsFinite, FS_Difference
<1>7. size' = Cardinality(QueuedItems') /\ size' \in Nat
  <2>1. Cardinality(QueuedItems \ S) \in Nat
    BY QueuedItemsFinite
  <2>2. QED
    BY <2>1, <1>1, <1>2, <1>5, <1>6 DEF CoherentParts
<1> HIDE DEF gone
<1>8. SchedulerTypeOK'
  <2>1. principals' \in [Priorities -> Seq(Principals)]
    <3> HIDE DEF Turns
    <3>1. QED
      BY <1>1, <1>4
  <2>2. queued' \in [Priorities -> [Principals -> Seq(Items)]]
    <3> HIDE DEF Rest
    <3>1. QED
      BY <1>1, <1>3
  <2>3. heap' \subseteq Priorities
    BY <1>1 DEF SchedulerTypeOK
  <2>4. QED
    BY <1>7, <2>1, <2>2, <2>3 DEF SchedulerTypeOK
<1>9. ASSUME NEW n \in Priorities PROVE TurnsOK(n)'
  <2>1. TurnsOK(n)
    BY <1>2 DEF CoherentParts
  <2>2. ASSUME NEW p \in Principals
        PROVE  p \in Elements(principals'[n]) <=> queued'[n][p] # <<>>
    <3>1. p \in Elements(principals'[n]) <=> queued[n][p] # <<>> /\ p \notin Emptied(n)
      BY <2>1, <1>4 DEF TurnsOK
    <3>2. p \notin Emptied(n) <=> queued[n][p] = <<>> \/ Rest(n, p) # <<>>
      OBVIOUS
    <3>3. queued[n][p] = <<>> => Rest(n, p) = <<>>
      <4>1. queued[n][p] \in Seq(Items)
        BY DEF SchedulerTypeOK
      <4>2. Rest(n, p) \in Seq(Items)
            /\ Elements(Rest(n, p)) = Elements(queued[n][p]) \ gone
        BY <1>3
      <4> HIDE DEF Rest
      <4>3. Elements(queued[n][p]) = {} => Elements(Rest(n, p)) = {}
        BY <4>2
      <4>4. queued[n][p] = <<>> <=> Elements(queued[n][p]) = {}
        BY <4>1, ElementsEmpty
      <4>5. Rest(n, p) = <<>> <=> Elements(Rest(n, p)) = {}
        BY <4>2, ElementsEmpty
      <4>6. QED
        BY <4>3, <4>4, <4>5
    <3>4. queued'[n][p] = Rest(n, p)
      BY <1>3
    <3> HIDE DEF Rest, Emptied
    <3>5. QED
      BY <3>1, <3>2, <3>3, <3>4
  <2>3. n \in heap' <=> principals'[n] # <<>>
    <3>1. n \in heap' <=> n \in heap /\ Turns(n) # <<>>
      BY <1>1
    <3>2. n \notin heap => principals[n] = <<>>
      BY <2>1 DEF TurnsOK
    <3>3. principals[n] = <<>> => Turns(n) = <<>>
      <4>1. principals[n] \in Seq(Principals)
        BY DEF SchedulerTypeOK
      <4>2. /\ Turns(n) \in Seq(Principals)
            /\ Elements(Turns(n)) \subseteq Elements(principals[n])
        BY <1>4
      <4> HIDE DEF Turns
      <4>3. principals[n] = <<>> => Elements(principals[n]) = {}
        BY <4>1, ElementsEmpty
      <4>4. Elements(Turns(n)) = {} => Turns(n) = <<>>
        BY <4>2, ElementsEmpty
      <4>5. QED
        BY <4>2, <4>3, <4>4
    <3>4. principals'[n] = Turns(n)
      BY <1>4
    <3> HIDE DEF Turns
    <3>5. QED
      BY <3>1, <3>2, <3>3, <3>4
  <2>4. Distinct(principals'[n])
    BY <1>4
  <2>5. QED
    BY <2>2, <2>3, <2>4 DEF TurnsOK
<1>10. ASSUME NEW n \in Priorities, NEW p \in Principals PROVE QueueOK(n, p)'
  <2>1. QueueOK(n, p)
    BY <1>2 DEF CoherentParts
  <2> HIDE DEF Rest
  <2>2. QED
    BY <2>1, <1>3 DEF QueueOK
<1>11. QED
  BY <1>5, <1>7, <1>8, <1>9, <1>10, Parts DEF CoherentParts

\* An empty scheduler is coherent.
LEMMA SchedulerInitKeeps ==
  ASSUME SchedulerInit
  PROVE  SchedulerTypeOK /\ Coherent /\ QueuedItems = {}
<1>1. <<>> \in Seq(Items) /\ <<>> \in Seq(Principals)
  BY EmptySeq
<1>2. SchedulerTypeOK
  BY <1>1 DEF SchedulerInit, SchedulerTypeOK
<1>3. Elements(<<>>) = {} /\ Distinct(<<>>)
  <2>1. Len(<<>>) = 0
    BY EmptySeq
  <2>2. QED
    BY <2>1 DEF Elements, Distinct
<1>4. \A n \in Priorities : principals[n] = <<>> /\ \A p \in Principals : queued[n][p] = <<>>
  BY DEF SchedulerInit
<1>5. QueuedItems = {}
  BY <1>3, <1>4 DEF QueuedItems, IsQueued, QueueOf, Priorities
<1>6. size = Cardinality(QueuedItems)
  BY <1>5, FS_EmptySet DEF SchedulerInit
<1>7. CoherentParts
  BY <1>3, <1>4, <1>6 DEF CoherentParts, TurnsOK, QueueOK, SchedulerInit
<1>8. QED
  BY <1>2, <1>5, <1>7, Parts
=============================================================================
