--------------------------- MODULE SequenceLemmas ---------------------------
(***************************************************************************)
(* Facts about numbers and sequences that the proofs about the pool, the   *)
(* scheduler, the broker and the client share.  Their queues and pipes are *)
(* sequences that grow by Append and shrink by Tail; None, One, Ranks and  *)
(* Ordered say what such a queue holds without naming positions in it.     *)
(***************************************************************************)
EXTENDS Integers, Sequences, FiniteSets, SequenceTheorems, WellFoundedInduction, TLAPS

-----------------------------------------------------------------------------
(* Induction.                                                              *)

\* A set of natural numbers that is not empty has a least element.
LEMMA Least ==
  ASSUME NEW T, T \subseteq Nat, T # {}
  PROVE  \E n \in T : \A m \in T : n <= m
<1> DEFINE R == {ss \in Nat \X Nat : ss[1] < ss[2]}
<1>1. IsWellFoundedOn(R, Nat)
  BY NatLessThanWellFounded DEF OpToRel
<1> HIDE DEF R
<1>2. PICK x \in T : \A y \in T : ~(<<y, x>> \in R)
  BY <1>1, WFMin
<1>3. \A y \in T : ~(y < x)
  BY <1>2 DEF R
<1>4. QED
  BY <1>3

\* A set of numbers that holds 0 and the successor of each of its elements below
\* n holds everything up to n.
LEMMA Induction ==
  ASSUME NEW n \in Nat, NEW P, 0 \in P, \A k \in 0 .. n - 1 : k \in P => k + 1 \in P
  PROVE  0 .. n \subseteq P
<1> DEFINE T == (0 .. n) \ P
<1>1. SUFFICES ASSUME T # {} PROVE FALSE
  OBVIOUS
<1>2. PICK m \in T : \A k \in T : m <= k
  <2>1. T \subseteq Nat
    OBVIOUS
  <2> HIDE DEF T
  <2>2. QED
    BY <1>1, <2>1, Least
<1>3. m # 0 /\ m - 1 \in 0 .. n - 1 /\ m - 1 \notin T
  BY <1>2
<1>4. m - 1 \in P
  BY <1>3
<1>5. (m - 1) + 1 \in P
  BY <1>3, <1>4
<1>6. QED
  BY <1>5, <1>2

-----------------------------------------------------------------------------
(* Sequences with no message of a kind X, or with a single one.            *)

None(s, X)   == \A i \in 1 .. Len(s) : s[i] \notin X
One(s, X, Y) == \E i \in 1 .. Len(s) :
                  s[i] \in Y /\ \A j \in 1 .. Len(s) : j # i => s[j] \notin X

\* Writing a message of another kind, and reading, leave no message of kind X.
LEMMA NoneStays ==
  ASSUME NEW S, NEW s \in Seq(S), NEW X, None(s, X)
  PROVE  /\ \A e \in S : e \notin X => None(Append(s, e), X)
         /\ s # <<>> => Head(s) \notin X /\ None(Tail(s), X)
<1>1. ASSUME NEW e \in S, e \notin X PROVE None(Append(s, e), X)
  BY <1>1, AppendProperties DEF None
<1>2. ASSUME s # <<>> PROVE Head(s) \notin X /\ None(Tail(s), X)
  BY <1>2, HeadTailProperties DEF None
<1>3. QED
  BY <1>1, <1>2

LEMMA NoneEmpty == \A X : None(<<>>, X)
  BY DEF None

\* Writing the first message of kind X makes it the only one.
LEMMA OneBegins ==
  ASSUME NEW S, NEW s \in Seq(S), NEW X, NEW Y, None(s, X), NEW e \in S, e \in Y
  PROVE  One(Append(s, e), X, Y)
<1>1. /\ Len(Append(s, e)) = Len(s) + 1 /\ Append(s, e)[Len(s) + 1] = e /\ Len(s) \in Nat
      /\ \A i \in 1 .. Len(s) : Append(s, e)[i] = s[i]
  BY AppendProperties
<1>2. Len(s) + 1 \in 1 .. Len(Append(s, e))
  BY <1>1
<1>3. \A j \in 1 .. Len(Append(s, e)) : j # Len(s) + 1 => j \in 1 .. Len(s)
  BY <1>1
<1>4. QED
  BY <1>1, <1>2, <1>3 DEF None, One

\* Writing other messages leaves it the only one; reading takes it, or another.
LEMMA OneStays ==
  ASSUME NEW S, NEW s \in Seq(S), NEW X, NEW Y \in SUBSET X, One(s, X, Y)
  PROVE  /\ s # <<>>
         /\ \A e \in S : e \notin X => One(Append(s, e), X, Y)
         /\ Head(s) \in X => Head(s) \in Y /\ None(Tail(s), X)
         /\ Head(s) \notin X => One(Tail(s), X, Y)
<1>1. PICK i \in 1 .. Len(s) : s[i] \in Y /\ \A j \in 1 .. Len(s) : j # i => s[j] \notin X
  BY DEF One
<1>2. s # <<>> /\ Len(s) \in Nat /\ Head(s) = s[1] /\ 1 \in 1 .. Len(s)
      /\ Len(Tail(s)) = Len(s) - 1
      /\ \A k \in 1 .. Len(Tail(s)) : Tail(s)[k] = s[k + 1] /\ k + 1 \in 1 .. Len(s)
  <2>1. s # <<>>
    BY <1>1
  <2>2. QED
    BY <2>1, HeadTailProperties
<1>3. ASSUME NEW e \in S, e \notin X PROVE One(Append(s, e), X, Y)
  <2>1. /\ Len(Append(s, e)) = Len(s) + 1 /\ Append(s, e)[Len(s) + 1] = e
        /\ \A k \in 1 .. Len(s) : Append(s, e)[k] = s[k]
    BY AppendProperties
  <2>2. /\ \A k \in 1 .. Len(Append(s, e)) : k \in 1 .. Len(s) \/ k = Len(s) + 1
        /\ i \in 1 .. Len(Append(s, e))
    BY <1>2, <2>1
  <2>3. QED
    BY <1>1, <1>3, <2>1, <2>2 DEF One
<1>4. ASSUME Head(s) \in X PROVE Head(s) \in Y /\ None(Tail(s), X)
  <2>1. i = 1
    BY <1>1, <1>2, <1>4
  <2>2. \A k \in 1 .. Len(Tail(s)) : k + 1 # 1
    OBVIOUS
  <2>3. QED
    BY <1>1, <1>2, <2>1, <2>2 DEF None
<1>5. ASSUME Head(s) \notin X PROVE One(Tail(s), X, Y)
  <2>1. i # 1
    BY <1>1, <1>2, <1>5
  <2>2. i - 1 \in 1 .. Len(Tail(s)) /\ (i - 1) + 1 = i
    BY <1>2, <2>1
  <2>3. \A k \in 1 .. Len(Tail(s)) : k # i - 1 => k + 1 # i
    BY <1>2, <2>1
  <2>4. QED
    BY <1>1, <1>2, <2>2, <2>3 DEF One
<1>6. QED
  BY <1>2, <1>3, <1>4, <1>5

-----------------------------------------------------------------------------
(* Messages with a rank: f is a function from some messages to numbers.    *)

Ranks(s, f)   == {f[s[i]] : i \in {j \in 1 .. Len(s) : s[j] \in DOMAIN f}}
Ordered(s, f) == \A i, j \in 1 .. Len(s) :
                   i < j /\ s[i] \in DOMAIN f /\ s[j] \in DOMAIN f => f[s[i]] < f[s[j]]

LEMMA RankEmpty == \A f : Ranks(<<>>, f) = {} /\ Ordered(<<>>, f)
  BY DEF Ranks, Ordered

\* Writing a message adds its rank; the order is kept when it is the greatest.
LEMMA RankAppend ==
  ASSUME NEW S, NEW s \in Seq(S), NEW f, NEW e \in S
  PROVE  /\ e \in DOMAIN f => Ranks(Append(s, e), f) = Ranks(s, f) \cup {f[e]}
         /\ e \notin DOMAIN f => Ranks(Append(s, e), f) = Ranks(s, f)
         /\ /\ Ordered(s, f)
            /\ e \in DOMAIN f => \A k \in Ranks(s, f) : k < f[e]
            => Ordered(Append(s, e), f)
<1> DEFINE n == Len(s)
           t == Append(s, e)
<1>1. /\ n \in Nat /\ Len(t) = n + 1 /\ t[n + 1] = e
      /\ \A i \in 1 .. n : t[i] = s[i]
  BY AppendProperties
<1>2. \A i : i \in 1 .. n + 1 <=> i \in 1 .. n \/ i = n + 1
  BY <1>1
<1> HIDE DEF n, t
<1>3. ASSUME e \in DOMAIN f PROVE Ranks(t, f) = Ranks(s, f) \cup {f[e]}
  <2>1. ASSUME NEW k \in Ranks(t, f) PROVE k \in Ranks(s, f) \cup {f[e]}
    <3>1. PICK i \in 1 .. n + 1 : t[i] \in DOMAIN f /\ k = f[t[i]]
      BY <1>1, <2>1 DEF Ranks
    <3>2. QED
      BY <1>1, <1>2, <3>1 DEF Ranks, n
  <2>2. ASSUME NEW k \in Ranks(s, f) PROVE k \in Ranks(t, f)
    <3>1. PICK i \in 1 .. n : s[i] \in DOMAIN f /\ k = f[s[i]]
      BY <2>2 DEF Ranks, n
    <3>2. QED
      BY <1>1, <1>2, <3>1 DEF Ranks
  <2>3. f[e] \in Ranks(t, f)
    BY <1>1, <1>2, <1>3 DEF Ranks
  <2>4. QED
    BY <2>1, <2>2, <2>3
<1>4. ASSUME e \notin DOMAIN f PROVE Ranks(t, f) = Ranks(s, f)
  <2>1. ASSUME NEW k \in Ranks(t, f) PROVE k \in Ranks(s, f)
    <3>1. PICK i \in 1 .. n + 1 : t[i] \in DOMAIN f /\ k = f[t[i]]
      BY <1>1, <2>1 DEF Ranks
    <3>2. QED
      BY <1>1, <1>2, <1>4, <3>1 DEF Ranks, n
  <2>2. ASSUME NEW k \in Ranks(s, f) PROVE k \in Ranks(t, f)
    <3>1. PICK i \in 1 .. n : s[i] \in DOMAIN f /\ k = f[s[i]]
      BY <2>2 DEF Ranks, n
    <3>2. QED
      BY <1>1, <1>2, <3>1 DEF Ranks
  <2>3. QED
    BY <2>1, <2>2
<1>5. ASSUME Ordered(s, f), e \in DOMAIN f => \A k \in Ranks(s, f) : k < f[e]
      PROVE  Ordered(t, f)
  <2> SUFFICES ASSUME NEW i \in 1 .. n + 1, NEW j \in 1 .. n + 1, i < j,
                      t[i] \in DOMAIN f, t[j] \in DOMAIN f
               PROVE  f[t[i]] < f[t[j]]
    BY <1>1 DEF Ordered
  <2>1. i \in 1 .. n
    BY <1>1
  <2>2. f[s[i]] \in Ranks(s, f)
    BY <1>1, <2>1 DEF Ranks, n
  <2>3. CASE j = n + 1
    BY <1>1, <1>5, <2>1, <2>2, <2>3
  <2>4. CASE j \in 1 .. n
    BY <1>1, <1>5, <2>1, <2>4 DEF Ordered, n
  <2>5. QED
    BY <1>2, <2>3, <2>4
<1>6. QED
  BY <1>3, <1>4, <1>5 DEF t

\* Reading takes the least rank.
LEMMA RankTail ==
  ASSUME NEW S, NEW s \in Seq(S), s # <<>>, NEW f, Ordered(s, f)
  PROVE  /\ Ranks(Tail(s), f) \subseteq Ranks(s, f)
         /\ Ranks(s, f) \subseteq Ranks(Tail(s), f)
                            \cup (IF Head(s) \in DOMAIN f THEN {f[Head(s)]} ELSE {})
         /\ Ordered(Tail(s), f)
         /\ Head(s) \in DOMAIN f => /\ f[Head(s)] \in Ranks(s, f)
                                    /\ \A k \in Ranks(Tail(s), f) : f[Head(s)] < k
<1> DEFINE n == Len(s)
           t == Tail(s)
<1>1. /\ n \in Nat /\ 1 \in 1 .. n /\ Head(s) = s[1] /\ Len(t) = n - 1
      /\ \A i \in 1 .. n - 1 : t[i] = s[i + 1] /\ i + 1 \in 1 .. n /\ 1 < i + 1
  BY HeadTailProperties
<1> HIDE DEF n, t
<1>2. ASSUME NEW k \in Ranks(t, f)
      PROVE  k \in Ranks(s, f) /\ (Head(s) \in DOMAIN f => f[Head(s)] < k)
  <2>1. PICK i \in 1 .. n - 1 : t[i] \in DOMAIN f /\ k = f[t[i]]
    BY <1>1, <1>2 DEF Ranks
  <2>2. s[i + 1] \in DOMAIN f /\ k = f[s[i + 1]] /\ i + 1 \in 1 .. n /\ 1 < i + 1
    BY <1>1, <2>1
  <2>3. QED
    BY <1>1, <2>2 DEF Ranks, Ordered, n
<1>3. Ordered(t, f)
  <2> SUFFICES ASSUME NEW i \in 1 .. n - 1, NEW j \in 1 .. n - 1, i < j,
                      t[i] \in DOMAIN f, t[j] \in DOMAIN f
               PROVE  f[t[i]] < f[t[j]]
    BY <1>1 DEF Ordered
  <2>1. /\ t[i] = s[i + 1] /\ t[j] = s[j + 1] /\ i + 1 \in 1 .. n /\ j + 1 \in 1 .. n
        /\ i + 1 < j + 1
    BY <1>1
  <2>2. QED
    BY <2>1 DEF Ordered, n
<1>4. Head(s) \in DOMAIN f => f[Head(s)] \in Ranks(s, f)
  BY <1>1 DEF Ranks, n
<1>5. ASSUME NEW k \in Ranks(s, f), ~(Head(s) \in DOMAIN f /\ k = f[Head(s)])
      PROVE  k \in Ranks(t, f)
  <2>1. PICK i \in 1 .. n : s[i] \in DOMAIN f /\ k = f[s[i]]
    BY <1>5 DEF Ranks, n
  <2>2. i # 1
    BY <1>1, <1>5, <2>1
  <2>3. i - 1 \in 1 .. n - 1 /\ (i - 1) + 1 = i
    BY <1>1, <2>2
  <2>4. t[i - 1] = s[i]
    BY <1>1, <2>3
  <2>5. QED
    BY <1>1, <2>1, <2>3, <2>4 DEF Ranks
<1>6. QED
  BY <1>2, <1>3, <1>4, <1>5 DEF t

\* An element of X that is in the sequence stays there when one is appended and
\* when another one is taken from the front.
LEMMA SomeStays ==
  ASSUME NEW S, NEW s \in Seq(S), NEW X, ~None(s, X)
  PROVE  /\ \A e \in S : ~None(Append(s, e), X)
         /\ s # <<>> /\ Head(s) \notin X => ~None(Tail(s), X)
<1>1. PICK i \in 1 .. Len(s) : s[i] \in X
  BY DEF None
<1>2. ASSUME NEW e \in S PROVE ~None(Append(s, e), X)
  <2>1. i \in 1 .. Len(Append(s, e)) /\ Append(s, e)[i] = s[i]
    BY AppendProperties
  <2>2. QED
    BY <1>1, <2>1 DEF None
<1>3. ASSUME s # <<>>, Head(s) \notin X PROVE ~None(Tail(s), X)
  <2>1. Head(s) = s[1] /\ i # 1 /\ Len(Tail(s)) = Len(s) - 1 /\ Len(s) \in Nat
    BY <1>1, <1>3, HeadTailProperties
  <2>2. i - 1 \in 1 .. Len(Tail(s)) /\ Tail(s)[i - 1] = s[i]
    BY <1>3, <2>1, HeadTailProperties
  <2>3. QED
    BY <1>1, <2>2 DEF None
<1>4. QED
  BY <1>2, <1>3
=============================================================================
