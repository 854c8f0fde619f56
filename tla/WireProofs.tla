----------------------------- MODULE WireProofs -----------------------------
(***************************************************************************)
(* What is proved about Wire for every set of messages, every size, every  *)
(* choice of limits and any number of faults.                              *)
(***************************************************************************)
EXTENDS Wire, SequenceLemmas, FiniteSetTheorems

-----------------------------------------------------------------------------
(* The number of chunks.                                                   *)

\* Division rounds down.
LEMMA Division ==
  ASSUME NEW n \in Nat, NEW d \in Nat, d >= 1
  PROVE  n \div d \in Int /\ d * (n \div d) <= n /\ n < d * (n \div d) + d
OBVIOUS

\* _message_chunk_count is exact: the chunks hold the payload, and one chunk
\* less would not, whatever the size and the frame limit.
THEOREM ChunksHoldPayload ==
  ASSUME NEW L \in [frame : Nat \ {0}, message : Nat \ {0}, chunks : Nat \ {0},
                    incomplete : Nat \ {0}],
         NEW size \in Nat
  PROVE  /\ ChunkCount(size, L) \in Nat \ {0}
         /\ size <= ChunkCount(size, L) * L.frame
         /\ ChunkCount(size, L) > 1 => (ChunkCount(size, L) - 1) * L.frame < size
<1> DEFINE F == L.frame
           q == (size + F - 1) \div F
<1>1. F \in Nat /\ F >= 1 /\ size + F - 1 \in Nat
  OBVIOUS
<1>2. q \in Int /\ F * q <= size + F - 1 /\ size + F - 1 < F * q + F
  BY <1>1, Division
<1>3. ChunkCount(size, L) = IF q > 1 THEN q ELSE 1
  BY DEF ChunkCount
<1> HIDE DEF F, q
<1>4. size <= q * F /\ (q - 1) * F < size
  BY <1>1, <1>2
<1>5. CASE q > 1
  BY <1>1, <1>2, <1>3, <1>4, <1>5 DEF F
<1>6. CASE ~(q > 1)
  <2>1. size <= F
    BY <1>1, <1>2, <1>4, <1>6
  <2> QED
    BY <1>1, <1>3, <1>6, <2>1 DEF F
<1> QED
  BY <1>2, <1>5, <1>6

-----------------------------------------------------------------------------
(* Messages are received whole.                                            *)

(***************************************************************************)
(* The inductive invariant: every frame on the wire, and every message     *)
(* that is put together, names the digest of a message that is sent and,   *)
(* in its first frame, that message's control data.  What a fault does to  *)
(* payloads, to the order of frames or to their number does not matter.    *)
(***************************************************************************)
Byte     == AllMessages \X Nat
Frames   == {f \in [id : AllMessages, index : Nat, count : Nat, total : Nat, digest : Seq(Byte),
                    control : {NoControl} \cup {ControlOf(m) : m \in AllMessages},
                    payload : Seq(Byte)] :
               f.digest = Payload(f.id) /\ f.control \in {NoControl, ControlOf(f.id)}}
Entry(id) == [count : Nat, total : Nat, digest : {Payload(id)}, control : {ControlOf(id)},
              next_index : Nat, data : Seq(Byte)]
Wholes   == {[id |-> m, control |-> ControlOf(m), payload |-> Payload(m)] : m \in AllMessages}

Truthful ==
  /\ limits \in [Ends -> LimitChoices]
  /\ next \in [AllMessages -> Int]
  /\ wire \in [Ends -> Seq(Frames)]
  /\ messages = [e \in Ends |-> messages[e]]
  /\ \A e \in Ends : \A id \in DOMAIN messages[e] :
       id \in AllMessages /\ messages[e][id] \in Entry(id)
  /\ received \in [Ends -> Seq(Wholes)]

LEMMA SubSeqType ==
  ASSUME NEW S, NEW s \in Seq(S), NEW m \in Int, NEW n \in Int, m >= 1, n <= Len(s)
  PROVE  SubSeq(s, m, n) \in Seq(S)
<1>1. \A i \in m..n : s[i] \in S
  OBVIOUS
<1> QED
  BY <1>1, SubSeqProperties

LEMMA PayloadType == \A m \in AllMessages : Payload(m) \in Seq(Byte)
<1> SUFFICES ASSUME NEW m \in AllMessages PROVE Payload(m) \in Seq(Byte)
  OBVIOUS
<1>1. CASE m \in Messages
  <2>1. Size[m] \in Nat
    BY <1>1, WireAssumption
  <2>2. \A i \in 1..Size[m] : <<m, i>> \in Byte
    BY <2>1 DEF Byte
  <2> QED
    BY <1>1, <2>1, <2>2 DEF Payload
<1>2. CASE m \notin Messages
  BY <1>2 DEF Payload
<1> QED
  BY <1>1, <1>2

LEMMA FromType == \A m \in AllMessages : From(m) \in Ends
BY WireAssumption DEF From, Ends, AllMessages

\* send_message cuts truthful frames.
LEMMA FrameTruthful ==
  ASSUME NEW m \in AllMessages, NEW index \in Nat, limits \in [Ends -> LimitChoices]
  PROVE  Frame(m, index) \in Frames
<1> DEFINE L == limits[From(m)]
           p == Payload(m)
           start == index * L.frame
           end == IF start + L.frame < Len(p) THEN start + L.frame ELSE Len(p)
<1>1. L \in [frame : Nat \ {0}, message : Nat \ {0}, chunks : Nat \ {0}, incomplete : Nat \ {0}]
  BY FromType, WireAssumption
<1>2. p \in Seq(Byte) /\ Len(p) \in Nat
  BY PayloadType, LenProperties
<1>3. ChunkCount(Len(p), L) \in Nat
  BY <1>1, <1>2, ChunksHoldPayload
<1> HIDE DEF L, p
<1>4. L.frame \in Nat /\ start \in Nat /\ start >= 0
  BY <1>1
<1>5. end \in Int /\ end <= Len(p)
  BY <1>2, <1>4
<1>6. SubSeq(p, start + 1, end) \in Seq(Byte)
  <2>1. start + 1 \in Int /\ start + 1 >= 1
    BY <1>4
  <2> HIDE DEF start, end
  <2> QED
    BY <1>2, <1>5, <2>1, SubSeqType
<1>7. Frame(m, index) = [id |-> m, index |-> index, count |-> ChunkCount(Len(p), L),
                         total |-> Len(p), digest |-> p,
                         control |-> IF index = 0 THEN ControlOf(m) ELSE NoControl,
                         payload |-> SubSeq(p, start + 1, end)]
  BY DEF Frame, Digest, L, p
<1> QED
  BY <1>2, <1>3, <1>6, <1>7 DEF Frames, p

\* A reader that agrees to a truthful frame has a truthful state for it.
LEMMA StateTruthful ==
  ASSUME Truthful, NEW e \in Ends, NEW f \in Frames, Agrees(e, f)
  PROVE  StateOf(e, f) \in Entry(f.id)
<1>1. CASE f.id \in DOMAIN messages[e]
  BY <1>1 DEF StateOf, Truthful
<1>2. CASE f.id \notin DOMAIN messages[e]
  <2>1. f.control = ControlOf(f.id)
    BY <1>2 DEF Agrees, Frames
  <2> QED
    BY <1>2, <2>1 DEF StateOf, Entry, Frames
<1> QED
  BY <1>1, <1>2

\* The state stays truthful when a frame is added.
LEMMA NextEntry ==
  ASSUME NEW id, NEW x \in Entry(id), NEW d \in Seq(Byte)
  PROVE  /\ [x EXCEPT !.data = d] \in Entry(id)
         /\ [x EXCEPT !.next_index = x.next_index + 1] \in Entry(id)
<1>1. [x EXCEPT !.data = d] \in Entry(id)
  BY DEF Entry
<1>2. x.next_index + 1 \in Nat
  BY DEF Entry
<1>3. [x EXCEPT !.next_index = x.next_index + 1] \in Entry(id)
  BY <1>2 DEF Entry
<1> QED
  BY <1>1, <1>3

\* While the limits stay, the sets above do.
LEMMA SameSets ==
  ASSUME UNCHANGED limits
  PROVE  /\ Frames' = Frames
         /\ Wholes' = Wholes
         /\ \A id : Entry(id)' = Entry(id)
BY DEF Frames, Wholes, Entry, ControlOf, Payload, NoControl, Byte, AllMessages, From, WireLimits

LEMMA TruthfulInit == Init => Truthful
BY DEF Init, Truthful, NotSent

LEMMA BeginTruthful ==
  ASSUME Truthful, NEW m \in AllMessages, Begin(m)
  PROVE  Truthful'
BY SameSets DEF Truthful, Begin, Sent

LEMMA SendFrameTruthful ==
  ASSUME Truthful, NEW m \in AllMessages, SendFrame(m)
  PROVE  Truthful'
<1> DEFINE f == Frame(m, next[m])
           e == Peer(From(m))
<1>1. next[m] \in Nat /\ limits \in [Ends -> LimitChoices]
  BY DEF Truthful, SendFrame
<1>2. f \in Frames
  BY <1>1, FrameTruthful
<1>3. e \in Ends
  BY FromType DEF Peer, Ends
<1>4. wire' = [wire EXCEPT ![e] = Append(@, f)]
  BY DEF SendFrame
<1>5. next' \in [AllMessages -> Int]
  BY <1>1 DEF Truthful, SendFrame, Sent
<1> HIDE DEF f, e
<1>6. Append(wire[e], f) \in Seq(Frames)
  BY <1>2, <1>3, AppendProperties DEF Truthful
<1>7. wire' \in [Ends -> Seq(Frames)]
  BY <1>3, <1>4, <1>6 DEF Truthful
<1>8. UNCHANGED <<limits, messages, received>>
  BY DEF SendFrame
<1> QED
  BY <1>5, <1>7, <1>8, SameSets DEF Truthful

LEMMA ReadTruthful ==
  ASSUME Truthful, NEW e \in Ends, Read(e)
  PROVE  Truthful'
<1> DEFINE f == Head(wire[e])
           s == StateOf(e, f)
<1>1. wire[e] \in Seq(Frames) /\ wire[e] # <<>>
  BY DEF Truthful, Read
<1>2. f \in Frames /\ Tail(wire[e]) \in Seq(Frames)
  BY <1>1, HeadTailProperties
<1>3. Agrees(e, f)
  BY DEF Read, Accepts
<1>4. s \in Entry(f.id)
  BY <1>2, <1>3, StateTruthful
<1>5. UNCHANGED limits /\ UNCHANGED next
  BY DEF Read
<1>6. wire' \in [Ends -> Seq(Frames)]
  BY <1>2 DEF Truthful, Read
<1>7. f.id \in AllMessages /\ f.payload \in Seq(Byte)
  BY <1>2 DEF Frames
<1>8. CASE IsLast(f)
  <2>1. Return(e, f) /\ IsWhole(s, s.data \o f.payload)
    BY <1>8, SMTT(30) DEF Read, Accepts
  <2>2. s.control = ControlOf(f.id) /\ s.data \o f.payload = Payload(f.id)
    BY <1>4, <2>1 DEF Entry, IsWhole, Digest
  <2> DEFINE m == [id |-> f.id, control |-> s.control, payload |-> s.data \o f.payload]
  <2>3. m \in Wholes
    BY <1>7, <2>2 DEF Wholes
  <2>4. received' = [received EXCEPT ![e] = Append(@, m)]
    BY <2>1 DEF Return
  <2>5. messages' = [messages EXCEPT ![e] = [id \in DOMAIN messages[e] \ {f.id} |-> messages[e][id]]]
    BY <2>1 DEF Return, Truthful
  <2> HIDE DEF m, f, s
  <2>6. received' \in [Ends -> Seq(Wholes)]
    BY <2>3, <2>4, AppendProperties DEF Truthful
  <2>7. messages' = [x \in Ends |-> messages'[x]]
    BY <2>5 DEF Truthful
  <2>8. \A x \in Ends : \A id \in DOMAIN messages'[x] :
          id \in AllMessages /\ messages'[x][id] \in Entry(id)
    BY <2>5 DEF Truthful
  <2> QED
    BY <1>5, <1>6, <2>6, <2>7, <2>8, SameSets DEF Truthful
<1>9. CASE ~IsLast(f)
  <2> DEFINE u == [s EXCEPT !.data = s.data \o f.payload]
             t == [u EXCEPT !.next_index = u.next_index + 1]
  <2>1. Keep(e, f)
    BY <1>9 DEF Read
  <2>2. s.data \o f.payload \in Seq(Byte)
    BY <1>4, <1>7, ConcatProperties DEF Entry
  <2>3. t \in Entry(f.id)
    <3>1. u \in Entry(f.id)
      BY <1>4, <2>2, NextEntry
    <3> HIDE DEF u
    <3> QED
      BY <2>2, <3>1, NextEntry
  <2>4. messages' = [messages EXCEPT ![e] =
                       [id \in DOMAIN messages[e] \cup {f.id} |->
                          IF id = f.id THEN t ELSE messages[e][id]]]
    BY <2>1 DEF Keep, Truthful
  <2>5. received' = received
    BY <2>1 DEF Keep
  <2> HIDE DEF t, f, s
  <2>6. messages' = [x \in Ends |-> messages'[x]]
    BY <2>4 DEF Truthful
  <2>7. \A x \in Ends : \A id \in DOMAIN messages'[x] :
          id \in AllMessages /\ messages'[x][id] \in Entry(id)
    BY <1>7, <2>3, <2>4 DEF Truthful
  <2> QED
    BY <1>5, <1>6, <2>5, <2>6, <2>7, SameSets DEF Truthful
<1> QED
  BY <1>8, <1>9

LEMMA FaultTruthful ==
  ASSUME Truthful, NEW e \in Ends, Fault(e)
  PROVE  Truthful'
<1>1. wire[e] \in Seq(Frames)
  BY DEF Truthful
<1>2. PICK i \in DOMAIN wire[e] :
        \E frames \in {<<>>, <<wire[e][i], wire[e][i]>>} \cup {<<g>> : g \in Damaged(wire[e][i])} :
          wire' = [wire EXCEPT ![e] = SubSeq(@, 1, i - 1) \o frames \o SubSeq(@, i + 1, Len(@))]
  BY DEF Fault
<1>3. PICK frames \in {<<>>, <<wire[e][i], wire[e][i]>>} \cup {<<g>> : g \in Damaged(wire[e][i])} :
        wire' = [wire EXCEPT ![e] = SubSeq(@, 1, i - 1) \o frames \o SubSeq(@, i + 1, Len(@))]
  BY <1>2
<1>4. i \in 1..Len(wire[e]) /\ Len(wire[e]) \in Nat /\ wire[e][i] \in Frames
  BY <1>1
<1>5. \A g \in Damaged(wire[e][i]) : g \in Frames
  <2> DEFINE f == wire[e][i]
  <2> SUFFICES ASSUME f.payload # <<>>
               PROVE  /\ [f EXCEPT !.payload = Tail(@)] \in Frames
                      /\ [f EXCEPT !.payload[1] = <<f.id, 0>>] \in Frames
    BY DEF Damaged
  <2>1. f.payload \in Seq(Byte) /\ f.id \in AllMessages
    BY <1>4 DEF Frames
  <2>2. Tail(f.payload) \in Seq(Byte)
    BY <2>1, HeadTailProperties
  <2>3. [f.payload EXCEPT ![1] = <<f.id, 0>>] \in Seq(Byte)
    BY <2>1 DEF Byte
  <2> QED
    BY <1>4, <2>2, <2>3 DEF Frames
<1>6. frames \in Seq(Frames)
  <2>1. CASE frames = <<>>
    BY <2>1
  <2>2. CASE frames = <<wire[e][i], wire[e][i]>>
    BY <1>4, <2>2
  <2>3. ASSUME NEW g \in Damaged(wire[e][i]), frames = <<g>> PROVE frames \in Seq(Frames)
    BY <1>5, <2>3
  <2> QED
    BY <1>3, <2>1, <2>2, <2>3
<1>7. SubSeq(wire[e], 1, i - 1) \in Seq(Frames) /\ SubSeq(wire[e], i + 1, Len(wire[e])) \in Seq(Frames)
  BY <1>1, <1>4, SubSeqType
<1>8. SubSeq(wire[e], 1, i - 1) \o frames \o SubSeq(wire[e], i + 1, Len(wire[e])) \in Seq(Frames)
  BY <1>6, <1>7, ConcatProperties
<1>9. wire' \in [Ends -> Seq(Frames)]
  BY <1>3, <1>8 DEF Truthful
<1>10. UNCHANGED <<limits, next, messages, received>>
  BY DEF Fault
<1> QED
  BY <1>9, <1>10, SameSets DEF Truthful

LEMMA TruthfulStep == Truthful /\ [Next]_vars => Truthful'
<1> SUFFICES ASSUME Truthful, [Next]_vars PROVE Truthful'
  OBVIOUS
<1>1. ASSUME NEW e \in Ends, NEW m, Refuse(e) \/ Compare(e, m) PROVE Truthful'
  BY <1>1, SameSets DEF Refuse, Compare, Truthful
<1>2. CASE UNCHANGED vars
  BY <1>2, SameSets DEF vars, Truthful
<1> QED
  BY <1>1, <1>2, BeginTruthful, SendFrameTruthful, ReadTruthful, FaultTruthful DEF Next, Ends

LEMMA TruthfulImpliesWhole == Truthful => Whole
<1> SUFFICES ASSUME Truthful, NEW e \in Ends, NEW i \in DOMAIN received[e]
             PROVE  /\ received[e][i].id \in AllMessages
                    /\ received[e][i].control = ControlOf(received[e][i].id)
                    /\ received[e][i].payload = Payload(received[e][i].id)
  BY DEF Whole
<1>1. received[e][i] \in Wholes
  BY DEF Truthful
<1> QED
  BY <1>1 DEF Wholes

\* Whatever happens to frames on their way, receive() returns only messages that
\* the peer sent, each with all of its payload and its own control data.
THEOREM WholeAlways == Spec => []Whole
<1>1. Spec => []Truthful
  BY TruthfulInit, TruthfulStep, PTL DEF Spec
<1> QED
  BY <1>1, TruthfulImpliesWhole, PTL

-----------------------------------------------------------------------------
(* What a reader stores is counted and limited.                            *)

CountOK ==
  /\ incomplete_bytes \in [Ends -> Nat]
  /\ \A e \in Ends : IsFiniteSet(Kept(e)) /\ IsFiniteSet(DOMAIN messages[e])
  /\ Bounded

LEMMA Run ==
  ASSUME NEW id, NEW m \in Nat, NEW n \in Nat, m <= n
  PROVE  IsFiniteSet({id} \X (m + 1 .. n)) /\ Cardinality({id} \X (m + 1 .. n)) = n - m
<1>0. m + 1 \in Int /\ n \in Int /\ (m + 1 > n => n - m = 0) /\ n - (m + 1) + 1 = n - m
  OBVIOUS
<1>1. IsFiniteSet(m + 1 .. n) /\ Cardinality(m + 1 .. n) = n - m
  <2>1. /\ IsFiniteSet(m + 1 .. n)
        /\ Cardinality(m + 1 .. n) = IF m + 1 > n THEN 0 ELSE n - (m + 1) + 1
    BY <1>0, FS_Interval
  <2> QED
    BY <1>0, <2>1
<1>2. IsFiniteSet({id}) /\ Cardinality({id}) = 1
  BY FS_Singleton
<1> DEFINE A == {id}
           B == m + 1 .. n
<1>3. IsFiniteSet(A \X B) /\ Cardinality(A \X B) = Cardinality(A) * Cardinality(B)
  <2>1. IsFiniteSet(A) /\ IsFiniteSet(B)
    BY <1>1, <1>2
  <2> HIDE DEF A, B
  <2> QED
    BY <2>1, FS_Product
<1>4. Cardinality(A) * Cardinality(B) = 1 * (n - m)
  BY <1>1, <1>2
<1> QED
  BY <1>3, <1>4

\* A frame adds its payload to what is kept.
LEMMA KeepCounts ==
  ASSUME Truthful, CountOK, NEW e \in Ends, Read(e), ~IsLast(Head(wire[e]))
  PROVE  CountOK'
<1> DEFINE f == Head(wire[e])
           s == StateOf(e, f)
           u == [s EXCEPT !.data = s.data \o f.payload]
           t == [u EXCEPT !.next_index = u.next_index + 1]
<1>1. f \in Frames /\ Accepts(e, f) /\ Keep(e, f) /\ UNCHANGED limits
  BY HeadTailProperties DEF Truthful, Read
<1>2. s \in Entry(f.id) /\ f.payload \in Seq(Byte) /\ s.data \in Seq(Byte)
  BY <1>1, StateTruthful DEF Accepts, Frames, Entry
<1>3. /\ Len(s.data) \in Nat /\ Len(f.payload) \in Nat
      /\ Len(s.data \o f.payload) = Len(s.data) + Len(f.payload)
  BY <1>2
<1>4. t.data = s.data \o f.payload
  BY <1>2 DEF Entry
<1>5. messages' = [messages EXCEPT ![e] =
                     [id \in DOMAIN messages[e] \cup {f.id} |->
                        IF id = f.id THEN t ELSE messages[e][id]]]
  BY <1>1 DEF Keep, Truthful
<1>6. incomplete_bytes' = [incomplete_bytes EXCEPT ![e] = @ + Len(f.payload)]
  BY <1>1 DEF Keep
<1>7. /\ f.id \in DOMAIN messages[e] => s = messages[e][f.id]
      /\ f.id \notin DOMAIN messages[e] => s.data = <<>>
      /\ f.id \notin DOMAIN messages[e] => Cardinality(DOMAIN messages[e]) < limits[e].incomplete
      /\ incomplete_bytes[e] + Len(f.payload) <= limits[e].message
  BY <1>1 DEF StateOf, Accepts, Agrees, WithinLimits
<1> DEFINE old == Len(s.data)
           new == old + Len(f.payload)
           New == {f.id} \X (old + 1 .. new)
<1> HIDE DEF f, s, u, t
<1>0. old \in Nat /\ new \in Nat /\ old <= new /\ new - old = Len(f.payload) /\ Len(s.data \o f.payload) = new
  <2> DEFINE b == Len(f.payload)
             c == Len(s.data \o f.payload)
  <2>1. old \in Nat /\ b \in Nat /\ c = old + b
    BY <1>3
  <2> HIDE DEF b, c, old
  <2>2. old \in Nat /\ new \in Nat /\ old <= new /\ new - old = b /\ c = new
    BY <2>1 DEF b
  <2> QED
    BY <2>2 DEF b, c
<1> HIDE DEF old, new
<1>8. IsFiniteSet(New) /\ Cardinality(New) = Len(f.payload)
  <2>1. IsFiniteSet(New) /\ Cardinality(New) = new - old
    BY <1>0, Run, ZenonT(60)
  <2> QED
    BY <1>0, <2>1
<1>9. /\ messages'[e] = [id \in DOMAIN messages[e] \cup {f.id} |->
                           IF id = f.id THEN t ELSE messages[e][id]]
      /\ \A x \in Ends : x # e => messages'[x] = messages[x]
  BY <1>5 DEF Truthful
<1>10. Kept(e)' = Kept(e) \cup New
  <2>1. \A id : id \in DOMAIN messages'[e] <=> id \in DOMAIN messages[e] \/ id = f.id
    BY <1>9
  <2>2. ASSUME NEW id \in DOMAIN messages[e], id # f.id PROVE messages'[e][id] = messages[e][id]
    BY <1>9, <2>2
  <2>3. messages'[e][f.id].data = s.data \o f.payload
    BY <1>4, <1>9
  <2>4. ASSUME NEW b \in Kept(e)' PROVE b \in Kept(e) \cup New
    <3>1. PICK id \in DOMAIN messages'[e] : b \in {id} \X (1 .. Len(messages'[e][id].data))
      BY <2>4 DEF Kept
    <3>2. CASE id # f.id
      BY <2>1, <2>2, <3>1, <3>2 DEF Kept
    <3>3. CASE id = f.id
      <4>1. PICK i \in 1 .. new : b = <<f.id, i>>
        <5>1. b \in {f.id} \X (1 .. new)
          BY <1>0, <2>3, <3>1, <3>3
        <5> QED
          BY <5>1
      <4>2. CASE i <= old
        <5>1. i \in 1 .. Len(s.data)
          BY <1>0, <4>1, <4>2 DEF old
        <5>2. f.id \in DOMAIN messages[e] /\ s = messages[e][f.id]
          BY <1>7, <5>1
        <5>3. b \in {f.id} \X (1 .. Len(messages[e][f.id].data))
          BY <4>1, <5>1, <5>2
        <5> QED
          BY <5>2, <5>3 DEF Kept
      <4>3. CASE ~(i <= old)
        <5>1. i \in old + 1 .. new
          BY <1>0, <4>1, <4>3
        <5> QED
          BY <4>1, <5>1
      <4> QED
        BY <4>2, <4>3
    <3> QED
      BY <3>2, <3>3
  <2>5. ASSUME NEW b \in Kept(e) PROVE b \in Kept(e)'
    <3>1. PICK id \in DOMAIN messages[e] : b \in {id} \X (1 .. Len(messages[e][id].data))
      BY <2>5 DEF Kept
    <3>2. b \in {id} \X (1 .. Len(messages'[e][id].data))
      <4>1. CASE id # f.id
        BY <2>2, <3>1, <4>1
      <4>2. CASE id = f.id
        <5>1. PICK i \in 1 .. old : b = <<id, i>>
          BY <1>7, <3>1, <4>2 DEF old
        <5>2. i \in 1 .. new
          BY <1>0, <5>1
        <5> QED
          BY <1>0, <2>3, <4>2, <5>1, <5>2
      <4> QED
        BY <4>1, <4>2
    <3> QED
      BY <2>1, <3>1, <3>2 DEF Kept
  <2>6. ASSUME NEW b \in New PROVE b \in Kept(e)'
    <3>1. PICK i \in old + 1 .. new : b = <<f.id, i>>
      BY <2>6
    <3>2. i \in 1 .. new
      BY <1>0, <3>1
    <3>3. b \in {f.id} \X (1 .. Len(messages'[e][f.id].data))
      BY <1>0, <2>3, <3>1, <3>2
    <3> QED
      BY <2>1, <3>3 DEF Kept
  <2> HIDE DEF New
  <2> QED
    BY <2>4, <2>5, <2>6
<1>11. Kept(e) \cap New = {}
  <2> SUFFICES ASSUME NEW b \in Kept(e), b \in New PROVE FALSE
    OBVIOUS
  <2>1. PICK id \in DOMAIN messages[e] : b \in {id} \X (1 .. Len(messages[e][id].data))
    BY DEF Kept
  <2>2. PICK i \in old + 1 .. new : b = <<f.id, i>>
    OBVIOUS
  <2>3. id = f.id /\ i \in 1 .. old
    BY <1>7, <2>1, <2>2 DEF old
  <2> QED
    BY <1>0, <2>2, <2>3
<1> HIDE DEF New
<1>12. IsFiniteSet(Kept(e)') /\ Cardinality(Kept(e)') = incomplete_bytes[e] + Len(f.payload)
  <2>1. IsFiniteSet(Kept(e)) /\ Cardinality(Kept(e)) = incomplete_bytes[e] /\ incomplete_bytes[e] \in Nat
    BY DEF CountOK, Bounded
  <2>2. Cardinality(Kept(e) \cup New) = Cardinality(Kept(e)) + Cardinality(New) - Cardinality({})
    BY <1>8, <1>11, <2>1, FS_Union
  <2>3. IsFiniteSet(Kept(e) \cup New)
    BY <1>8, <2>1, FS_Union
  <2>4. Cardinality({}) = 0
    BY FS_EmptySet
  <2> QED
    BY <1>3, <1>8, <1>10, <2>1, <2>2, <2>3, <2>4
<1>13. /\ IsFiniteSet(DOMAIN messages'[e])
       /\ Cardinality(DOMAIN messages'[e]) <= limits[e].incomplete
  <2>1. IsFiniteSet(DOMAIN messages[e]) /\ Cardinality(DOMAIN messages[e]) <= limits[e].incomplete
    BY DEF CountOK, Bounded
  <2>2. Cardinality(DOMAIN messages[e]) \in Nat /\ limits[e].incomplete \in Nat
    BY <2>1, FS_CardinalityType, WireAssumption DEF Truthful
  <2>3. DOMAIN messages'[e] = DOMAIN messages[e] \cup {f.id}
    BY <1>9
  <2>4. /\ IsFiniteSet(DOMAIN messages[e] \cup {f.id})
        /\ Cardinality(DOMAIN messages[e] \cup {f.id}) =
             IF f.id \in DOMAIN messages[e] THEN Cardinality(DOMAIN messages[e])
             ELSE Cardinality(DOMAIN messages[e]) + 1
    BY <2>1, FS_AddElement
  <2> QED
    BY <1>7, <2>1, <2>2, <2>3, <2>4
<1>14. \A x \in Ends : x # e => Kept(x)' = Kept(x)
  BY <1>9 DEF Kept
<1> QED
  BY <1>1, <1>3, <1>6, <1>7, <1>9, <1>12, <1>13, <1>14 DEF CountOK, Bounded

\* A message that is returned gives back what it kept.
LEMMA ReturnCounts ==
  ASSUME Truthful, CountOK, NEW e \in Ends, Read(e), IsLast(Head(wire[e]))
  PROVE  CountOK'
<1> DEFINE f == Head(wire[e])
           s == StateOf(e, f)
           old == Len(s.data)
           Old == {f.id} \X (1 .. old)
<1>1. f \in Frames /\ Accepts(e, f) /\ Return(e, f) /\ UNCHANGED limits
  BY HeadTailProperties DEF Truthful, Read
<1>2. s \in Entry(f.id) /\ s.data \in Seq(Byte)
  BY <1>1, StateTruthful DEF Accepts, Entry
<1>3. old \in Nat
  BY <1>2
<1>4. messages' = [messages EXCEPT ![e] = [id \in DOMAIN messages[e] \ {f.id} |-> messages[e][id]]]
  BY <1>1 DEF Return, Truthful
<1>5. incomplete_bytes' = [incomplete_bytes EXCEPT ![e] = @ - old]
  BY <1>1 DEF Return
<1>6. /\ f.id \in DOMAIN messages[e] => s = messages[e][f.id]
      /\ f.id \notin DOMAIN messages[e] => s.data = <<>>
  BY <1>1 DEF StateOf
<1> HIDE DEF f, s
<1>7. /\ messages'[e] = [id \in DOMAIN messages[e] \ {f.id} |-> messages[e][id]]
      /\ \A x \in Ends : x # e => messages'[x] = messages[x]
  BY <1>4 DEF Truthful
<1>8. f.id \notin DOMAIN messages[e] => old = 0
  BY <1>6
<1>9. f.id \in DOMAIN messages[e] => old = Len(messages[e][f.id].data)
  BY <1>6
<1> HIDE DEF old
<1>10. Old \subseteq Kept(e)
  <2>1. CASE f.id \in DOMAIN messages[e]
    BY <1>9, <2>1 DEF Kept
  <2>2. CASE f.id \notin DOMAIN messages[e]
    BY <1>8, <2>2
  <2> QED
    BY <2>1, <2>2
<1>11. IsFiniteSet(Old) /\ Cardinality(Old) = old
  <2>1. 0 \in Nat /\ 0 <= old /\ 0 + 1 = 1 /\ old - 0 = old
    BY <1>3
  <2>2. IsFiniteSet({f.id} \X (0 + 1 .. old)) /\ Cardinality({f.id} \X (0 + 1 .. old)) = old - 0
    BY <1>3, <2>1, Run
  <2> QED
    BY <2>1, <2>2
<1>12. Kept(e)' = Kept(e) \ Old
  <2>1. ASSUME NEW b \in Kept(e)' PROVE b \in Kept(e) /\ b \notin Old
    <3>1. PICK id \in DOMAIN messages'[e] : b \in {id} \X (1 .. Len(messages'[e][id].data))
      BY <2>1 DEF Kept
    <3>2. id \in DOMAIN messages[e] /\ id # f.id /\ messages'[e][id] = messages[e][id]
      BY <1>7, <3>1
    <3> QED
      BY <3>1, <3>2 DEF Kept
  <2>2. ASSUME NEW b \in Kept(e), b \notin Old PROVE b \in Kept(e)'
    <3>1. PICK id \in DOMAIN messages[e] : b \in {id} \X (1 .. Len(messages[e][id].data))
      BY <2>2 DEF Kept
    <3>2. id # f.id
      BY <1>9, <2>2, <3>1
    <3>3. id \in DOMAIN messages'[e] /\ messages'[e][id] = messages[e][id]
      BY <1>7, <3>1, <3>2
    <3> QED
      BY <3>1, <3>3 DEF Kept
  <2> HIDE DEF Old
  <2> QED
    BY <2>1, <2>2
<1> HIDE DEF Old
<1>13. /\ IsFiniteSet(Kept(e)') /\ Cardinality(Kept(e)') = incomplete_bytes[e] - old
       /\ incomplete_bytes[e] - old \in Nat
  <2>1. IsFiniteSet(Kept(e)) /\ Cardinality(Kept(e)) = incomplete_bytes[e] /\ incomplete_bytes[e] \in Nat
    BY DEF CountOK, Bounded
  <2>2. Kept(e) \cap Old = Old
    BY <1>10
  <2>3. /\ IsFiniteSet(Kept(e) \ Old)
        /\ Cardinality(Kept(e) \ Old) = Cardinality(Kept(e)) - Cardinality(Kept(e) \cap Old)
    BY <2>1, FS_Difference
  <2>4. Cardinality(Kept(e) \ Old) \in Nat
    BY <2>3, FS_CardinalityType
  <2> QED
    BY <1>11, <1>12, <2>1, <2>2, <2>3, <2>4
<1>14. /\ IsFiniteSet(DOMAIN messages'[e])
       /\ Cardinality(DOMAIN messages'[e]) <= limits[e].incomplete
  <2>1. IsFiniteSet(DOMAIN messages[e]) /\ Cardinality(DOMAIN messages[e]) <= limits[e].incomplete
    BY DEF CountOK, Bounded
  <2>2. DOMAIN messages'[e] \subseteq DOMAIN messages[e]
    BY <1>7
  <2>3. /\ IsFiniteSet(DOMAIN messages'[e])
        /\ Cardinality(DOMAIN messages'[e]) <= Cardinality(DOMAIN messages[e])
    BY <2>1, <2>2, FS_Subset
  <2>4. /\ Cardinality(DOMAIN messages[e]) \in Nat /\ limits[e].incomplete \in Nat
        /\ Cardinality(DOMAIN messages'[e]) \in Nat
    BY <2>1, <2>3, FS_CardinalityType, WireAssumption DEF Truthful
  <2> QED
    BY <2>1, <2>3, <2>4
<1>15. \A x \in Ends : x # e => Kept(x)' = Kept(x)
  BY <1>7 DEF Kept
<1>16. incomplete_bytes'[e] = incomplete_bytes[e] - old /\ incomplete_bytes' \in [Ends -> Nat]
       /\ \A x \in Ends : x # e => incomplete_bytes'[x] = incomplete_bytes[x]
  BY <1>5, <1>13 DEF CountOK
<1>17. incomplete_bytes'[e] <= limits[e].message
  <2>1. incomplete_bytes[e] \in Nat /\ limits[e].message \in Nat /\ incomplete_bytes[e] <= limits[e].message
    BY WireAssumption DEF CountOK, Bounded, Truthful
  <2> QED
    BY <1>3, <1>16, <2>1
<1> QED
  BY <1>1, <1>7, <1>13, <1>14, <1>15, <1>16, <1>17 DEF CountOK, Bounded

LEMMA CountInit == Init => CountOK
<1> SUFFICES ASSUME Init PROVE CountOK
  OBVIOUS
<1>1. \A e \in Ends : DOMAIN messages[e] = {} /\ Kept(e) = {}
  BY DEF Init, Kept
<1>2. IsFiniteSet({}) /\ Cardinality({}) = 0
  BY FS_EmptySet
<1>3. \A e \in Ends : limits[e].message >= 0 /\ limits[e].incomplete >= 0
  BY WireAssumption DEF Init
<1>4. incomplete_bytes \in [Ends -> Nat] /\ \A e \in Ends : incomplete_bytes[e] = 0
  BY DEF Init
<1>5. Bounded
  BY <1>1, <1>2, <1>3, <1>4 DEF Bounded
<1> QED
  BY <1>1, <1>2, <1>4, <1>5 DEF CountOK

LEMMA CountStep == Truthful /\ CountOK /\ [Next]_vars => CountOK'
<1> SUFFICES ASSUME Truthful, CountOK, [Next]_vars PROVE CountOK'
  OBVIOUS
<1>1. ASSUME UNCHANGED <<limits, messages, incomplete_bytes>> PROVE CountOK'
  BY <1>1 DEF CountOK, Bounded, Kept
<1>2. ASSUME NEW m \in AllMessages, Begin(m) \/ SendFrame(m) PROVE CountOK'
  BY <1>1, <1>2 DEF Begin, SendFrame
<1>3. ASSUME NEW e \in Ends, NEW m, Refuse(e) \/ Fault(e) \/ Compare(e, m) PROVE CountOK'
  BY <1>1, <1>3 DEF Refuse, Fault, Compare
<1>4. CASE UNCHANGED vars
  BY <1>1, <1>4 DEF vars
<1> QED
  BY <1>2, <1>3, <1>4, KeepCounts, ReturnCounts DEF Next, Ends

\* However frames are lost, repeated, damaged or interleaved, and however many
\* messages come and go, _incomplete_bytes is exactly what the unfinished messages
\* of a reader hold, and neither it nor their number exceeds the limits.
THEOREM StorageIsBounded == Spec => []Bounded
<1>1. Truthful /\ CountOK /\ [Next]_vars => (Truthful /\ CountOK)'
  BY TruthfulStep, CountStep
<1>2. Init => Truthful /\ CountOK
  BY TruthfulInit, CountInit
<1>3. CountOK => Bounded
  BY DEF CountOK
<1> QED
  BY <1>1, <1>2, <1>3, PTL DEF Spec

-----------------------------------------------------------------------------
(* A faultless peer is not refused.                                        *)

\* The number of frames of a message, and the bytes before its i-th frame.
Count(m)     == ChunkCount(Len(Payload(m)), limits[From(m)])
Before(m, i) == IF i < Count(m) THEN i * limits[From(m)].frame ELSE Len(Payload(m))

\* The frames of a faultless peer, and the place of the frames of m among them.
Genuine(e) == {f \in Frames : f = Frame(f.id, f.index) /\ From(f.id) = Peer(e)}
Index(m)   == [f \in {g \in Frames : g.id = m} |-> f.index]

\* The frames of m from Expected to Upto are on their way.
Expected(e, m) == IF m \in DOMAIN messages[e] THEN messages[e][m].next_index ELSE 0
Upto(m)        == IF next[m] = Sent THEN Count(m) ELSE next[m]

Quiet(e, m) ==
  next[m] \in {NotSent, Sent} /\ Ranks(wire[e], Index(m)) = {} /\ m \notin DOMAIN messages[e]

OnItsWay(e, m) ==
  /\ next[m] # NotSent
  /\ next[m] # Sent => next[m] < Count(m)
  /\ Fits(Len(Payload(m)), limits[From(m)])
  /\ Expected(e, m) < Count(m) /\ Upto(m) \in Expected(e, m) .. Count(m)
  /\ Ranks(wire[e], Index(m)) = Expected(e, m) .. Upto(m) - 1
  /\ m \in DOMAIN messages[e] =>
       /\ Expected(e, m) > 0
       /\ messages[e][m].count = Count(m)
       /\ messages[e][m].total = Len(Payload(m))
       /\ messages[e][m].data = SubSeq(Payload(m), 1, Before(m, Expected(e, m)))

InStep(e, m) == Ordered(wire[e], Index(m)) /\ (Quiet(e, m) \/ OnItsWay(e, m))

FaultFree ==
  /\ faults \in Nat
  /\ faults = 0 => \A e \in Ends :
       /\ wire[e] \in Seq(Genuine(e))
       /\ \A m \in AllMessages : From(m) = Peer(e) => InStep(e, m)

\* Ends that speak have found their limits equal.
SameLimits ==
  /\ phase \in [Ends -> {"start", "open", "closed"}]
  /\ \A e \in Ends : phase[e] = "open" => WireLimits(limits["client"]) = WireLimits(limits["server"])

LEMMA Times ==
  ASSUME NEW a \in Nat, NEW b \in Nat, NEW F \in Nat, a <= b
  PROVE  a * F \in Nat /\ a * F <= b * F
OBVIOUS

LEMMA Pieces ==
  ASSUME NEW S, NEW p \in Seq(S), NEW a \in Nat, NEW b \in Nat, a <= b, b <= Len(p)
  PROVE  /\ SubSeq(p, 1, a) \o SubSeq(p, a + 1, b) = SubSeq(p, 1, b)
         /\ Len(SubSeq(p, 1, a)) = a
         /\ Len(SubSeq(p, a + 1, b)) = b - a
         /\ SubSeq(p, 1, Len(p)) = p
         /\ SubSeq(p, 1, 0) = <<>>
<1>1. \A i \in 1 .. Len(p) : p[i] \in S
  OBVIOUS
<1>2. SubSeq(p, 1, a) \in Seq(S) /\ SubSeq(p, a + 1, b) \in Seq(S) /\ SubSeq(p, 1, b) \in Seq(S)
  BY SubSeqType
<1>3. Len(SubSeq(p, 1, a)) = a /\ Len(SubSeq(p, a + 1, b)) = b - a /\ Len(SubSeq(p, 1, b)) = b
  OBVIOUS
<1>4. SubSeq(p, 1, a) \o SubSeq(p, a + 1, b) = SubSeq(p, 1, b)
  OBVIOUS
<1>5. SubSeq(p, 1, Len(p)) = p /\ SubSeq(p, 1, 0) = <<>>
  OBVIOUS
<1> QED
  BY <1>3, <1>4, <1>5

LEMMA LimitsType ==
  ASSUME limits \in [Ends -> LimitChoices], NEW m \in AllMessages
  PROVE  limits[From(m)] \in [frame : Nat \ {0}, message : Nat \ {0}, chunks : Nat \ {0},
                              incomplete : Nat \ {0}]
BY FromType, WireAssumption

\* Frame i holds the bytes between Before(m, i) and Before(m, i + 1).
LEMMA FrameHolds ==
  ASSUME limits \in [Ends -> LimitChoices], NEW m \in AllMessages, NEW i \in Nat, i < Count(m)
  PROVE  /\ Count(m) \in Nat /\ Before(m, 0) = 0
         /\ Before(m, i) \in Nat /\ Before(m, i + 1) \in Nat
         /\ Before(m, i) <= Before(m, i + 1) /\ Before(m, i + 1) <= Len(Payload(m))
         /\ Before(m, i + 1) - Before(m, i) <= limits[From(m)].frame
         /\ i + 1 = Count(m) => Before(m, i + 1) = Len(Payload(m))
         /\ Frame(m, i) = [id |-> m, index |-> i, count |-> Count(m), total |-> Len(Payload(m)),
                           digest |-> Payload(m),
                           control |-> IF i = 0 THEN ControlOf(m) ELSE NoControl,
                           payload |-> SubSeq(Payload(m), Before(m, i) + 1, Before(m, i + 1))]
<1> DEFINE L == limits[From(m)]
           F == L.frame
           p == Payload(m)
           n == Len(p)
           c == Count(m)
           start == i * F
           end == IF start + F < n THEN start + F ELSE n
<1>1. L \in [frame : Nat \ {0}, message : Nat \ {0}, chunks : Nat \ {0}, incomplete : Nat \ {0}]
  BY LimitsType
<1>2. p \in Seq(Byte) /\ n \in Nat
  BY PayloadType, LenProperties
<1>3. c \in Nat \ {0} /\ n <= c * F /\ (c > 1 => (c - 1) * F < n)
  <2>1. c = ChunkCount(n, L)
    BY DEF Count
  <2> HIDE DEF c, n, L
  <2> QED
    BY <1>1, <1>2, <2>1, ChunksHoldPayload
<1>4. Frame(m, i) = [id |-> m, index |-> i, count |-> c, total |-> n, digest |-> p,
                     control |-> IF i = 0 THEN ControlOf(m) ELSE NoControl,
                     payload |-> SubSeq(p, start + 1, end)]
  BY DEF Frame, Digest, Count
<1>5. F \in Nat \ {0}
  BY <1>1
<1>6. Before(m, i) = start /\ Before(m, 0) = 0 * F
      /\ Before(m, i + 1) = IF i + 1 < c THEN (i + 1) * F ELSE n
  <2>1. 0 < c
    BY <1>3
  <2> QED
    BY <2>1 DEF Before
<1>7. i \in Nat /\ i < c
  OBVIOUS
<1> DEFINE Good == /\ c \in Nat /\ Before(m, 0) = 0
                   /\ Before(m, i) \in Nat /\ Before(m, i + 1) \in Nat
                   /\ Before(m, i) <= Before(m, i + 1) /\ Before(m, i + 1) <= n
                   /\ Before(m, i + 1) - Before(m, i) <= F
                   /\ i + 1 = c => Before(m, i + 1) = n
           Cut == Frame(m, i) = [id |-> m, index |-> i, count |-> c, total |-> n, digest |-> p,
                                 control |-> IF i = 0 THEN ControlOf(m) ELSE NoControl,
                                 payload |-> SubSeq(p, Before(m, i) + 1, Before(m, i + 1))]
<1> HIDE DEF c, n, F, p
<1>8. start \in Nat /\ (i + 1) * F = start + F /\ 0 * F = 0
  BY <1>5
<1>9. ASSUME i + 1 < c PROVE Good /\ Cut
  <2>1. i + 1 <= c - 1 /\ c - 1 \in Nat /\ c > 1 /\ i + 1 \in Nat
    BY <1>3, <1>7, <1>9
  <2>2. (i + 1) * F <= (c - 1) * F /\ (c - 1) * F \in Nat
    BY <1>5, <2>1, Times
  <2>3. start + F < n
    BY <1>2, <1>3, <1>5, <1>8, <2>1, <2>2
  <2>4. end = start + F /\ Before(m, i + 1) = start + F /\ i + 1 # c
    BY <1>6, <1>8, <1>9, <2>3
  <2>5. Good
    BY <1>2, <1>3, <1>5, <1>6, <1>8, <2>3, <2>4
  <2>6. Cut
    BY <1>4, <1>6, <2>4
  <2> QED
    BY <2>5, <2>6
<1>10. ASSUME ~(i + 1 < c) PROVE Good /\ Cut
  <2>1. i + 1 = c /\ i = c - 1
    BY <1>3, <1>7, <1>10
  <2>2. n <= start + F
    BY <1>3, <1>8, <2>1
  <2>3. start <= n
    <3>1. CASE c > 1
      BY <1>2, <1>3, <1>8, <2>1, <3>1
    <3>2. CASE ~(c > 1)
      <4>1. i = 0
        BY <1>3, <1>7, <3>2
      <4> QED
        BY <1>2, <1>8, <4>1
    <3> QED
      BY <3>1, <3>2
  <2>4. end = n /\ Before(m, i + 1) = n
    BY <1>2, <1>5, <1>6, <1>8, <1>10, <2>2
  <2>5. Good
    BY <1>2, <1>3, <1>5, <1>6, <1>8, <2>2, <2>3, <2>4
  <2>6. Cut
    BY <1>4, <1>6, <2>4
  <2> QED
    BY <2>5, <2>6
<1> QED
  BY <1>9, <1>10 DEF c, n, F, p, Good, Cut

LEMMA SameFrames ==
  ASSUME UNCHANGED limits
  PROVE  /\ \A m, i : Frame(m, i)' = Frame(m, i) /\ Before(m, i)' = Before(m, i)
         /\ \A m : Count(m)' = Count(m) /\ Index(m)' = Index(m) /\ Payload(m)' = Payload(m)
         /\ \A m, n : Fits(n, limits[From(m)])' = Fits(n, limits[From(m)])
         /\ \A e : Genuine(e)' = Genuine(e)
<1>1. Frames' = Frames
  BY SameSets
<1>2. /\ \A m, i : Frame(m, i)' = Frame(m, i) /\ Before(m, i)' = Before(m, i)
      /\ \A m : Count(m)' = Count(m) /\ Payload(m)' = Payload(m)
      /\ \A m, n : Fits(n, limits[From(m)])' = Fits(n, limits[From(m)])
  BY DEF Frame, Before, Count, Payload, Fits, ControlOf, From, WireLimits, NoControl
<1>3. \A e : Genuine(e)' = Genuine(e)
  BY <1>1, <1>2 DEF Genuine, From, Peer
<1>4. \A m : Index(m)' = Index(m)
  BY <1>1 DEF Index
<1> QED
  BY <1>2, <1>3, <1>4

\* A message that no step touches stays in step.
LEMMA InStepStays ==
  ASSUME UNCHANGED limits, NEW e \in Ends, NEW m \in AllMessages, InStep(e, m),
         next'[m] = next[m],
         Ranks(wire'[e], Index(m)) = Ranks(wire[e], Index(m)), Ordered(wire'[e], Index(m)),
         m \in DOMAIN messages'[e] <=> m \in DOMAIN messages[e],
         m \in DOMAIN messages[e] => messages'[e][m] = messages[e][m]
  PROVE  InStep(e, m)'
<1>1. Expected(e, m)' = Expected(e, m)
  BY DEF Expected
<1>2. /\ Count(m)' = Count(m) /\ Index(m)' = Index(m) /\ Payload(m)' = Payload(m)
      /\ \A i : Before(m, i)' = Before(m, i)
      /\ Fits(Len(Payload(m)), limits[From(m)])' = Fits(Len(Payload(m)), limits[From(m)])
  <2>1. Payload(m)' = Payload(m)
    BY SameFrames
  <2>2. Fits(Len(Payload(m)), limits[From(m)])' = Fits(Len(Payload(m)), limits[From(m)])
    BY <2>1 DEF Fits, From
  <2> QED
    BY <2>1, <2>2, SameFrames
<1>3. Upto(m)' = Upto(m)
  BY <1>2 DEF Upto
<1>4. Quiet(e, m) => Quiet(e, m)'
  BY <1>2 DEF Quiet
<1>5. OnItsWay(e, m) => OnItsWay(e, m)'
  BY <1>1, <1>2, <1>3 DEF OnItsWay
<1>6. Ordered(wire[e], Index(m))'
  BY <1>2
<1> QED
  BY <1>4, <1>5, <1>6 DEF InStep

LEMMA FaultFreeInit == Init => FaultFree
<1> SUFFICES ASSUME Init PROVE FaultFree
  OBVIOUS
<1>1. ASSUME NEW e \in Ends, NEW m \in AllMessages PROVE InStep(e, m)
  <2>1. wire[e] = <<>> /\ DOMAIN messages[e] = {} /\ next[m] = NotSent
    BY DEF Init
  <2> QED
    BY <2>1, RankEmpty DEF InStep, Quiet
<1>2. \A e \in Ends : wire[e] \in Seq(Genuine(e))
  BY DEF Init
<1> QED
  BY <1>1, <1>2 DEF FaultFree, Init

LEMMA FaultFreeStays ==
  ASSUME FaultFree, UNCHANGED <<limits, faults, wire, messages, next>>
  PROVE  FaultFree'
<1> SUFFICES ASSUME faults = 0, NEW e \in Ends
             PROVE  /\ wire[e] \in Seq(Genuine(e))
                    /\ \A m \in AllMessages : From(m) = Peer(e) => InStep(e, m)'
  BY SameFrames DEF FaultFree, AllMessages, From, Peer, Ends
<1>1. \A m \in AllMessages : From(m) = Peer(e) => InStep(e, m)
  BY DEF FaultFree
<1>2. ASSUME NEW m \in AllMessages, From(m) = Peer(e) PROVE InStep(e, m)'
  <2>1. InStep(e, m)
    BY <1>1, <1>2
  <2>2. Ordered(wire[e], Index(m))
    BY <2>1 DEF InStep
  <2> QED
    BY <2>1, <2>2, InStepStays
<1> QED
  BY <1>2 DEF FaultFree

\* How a step of a faultless run keeps FaultFree.
LEMMA FaultFreeBy ==
  ASSUME FaultFree, UNCHANGED <<limits, faults>>,
         faults = 0 => \A e \in Ends :
           /\ wire'[e] \in Seq(Genuine(e))
           /\ \A m \in AllMessages : From(m) = Peer(e) => InStep(e, m)'
  PROVE  FaultFree'
BY SameFrames DEF FaultFree, AllMessages, From, Peer, Ends

LEMMA BeginFaultFree ==
  ASSUME Truthful, FaultFree, NEW m \in AllMessages, Begin(m)
  PROVE  FaultFree'
<1>1. UNCHANGED <<limits, faults, wire, messages>> /\ next[m] = NotSent
  BY DEF Begin
<1>2. next' = [next EXCEPT ![m] = IF Fits(Len(Payload(m)), limits[From(m)]) THEN 0 ELSE Sent]
  BY DEF Begin
<1>3. ASSUME faults = 0, NEW e \in Ends, NEW x \in AllMessages, From(x) = Peer(e)
      PROVE  InStep(e, x)'
  <2>1. InStep(e, x) /\ Ordered(wire[e], Index(x))
    BY <1>3 DEF FaultFree, InStep
  <2>2. CASE x # m
    <3>1. next'[x] = next[x]
      BY <1>2, <2>2 DEF Truthful
    <3> QED
      BY <1>1, <2>1, <3>1, InStepStays
  <2>3. CASE x = m
    <3>1. Quiet(e, m)
      BY <1>1, <2>1, <2>3 DEF InStep, OnItsWay
    <3>2. /\ Count(m)' = Count(m) /\ Index(m)' = Index(m) /\ Payload(m)' = Payload(m)
      BY <1>1, SameFrames
    <3>3. next'[m] = IF Fits(Len(Payload(m)), limits[From(m)]) THEN 0 ELSE Sent
      BY <1>2 DEF Truthful
    <3>4. CASE ~Fits(Len(Payload(m)), limits[From(m)])
      BY <1>1, <2>1, <2>3, <3>1, <3>2, <3>3, <3>4 DEF InStep, Quiet
    <3>5. CASE Fits(Len(Payload(m)), limits[From(m)])
      <4>1. Count(m) \in Nat \ {0}
        BY LimitsType, PayloadType, LenProperties, ChunksHoldPayload DEF Count, Truthful
      <4>2. Expected(e, m)' = 0 /\ Upto(m)' = 0
        BY <1>1, <3>1, <3>3, <3>5 DEF Quiet, Expected, Upto, Sent
      <4>3. Fits(Len(Payload(m)), limits[From(m)])'
        BY <1>1, <3>2, <3>5 DEF Fits, From
      <4>4. Ranks(wire[e], Index(m))' = 0 .. 0 - 1 /\ m \notin DOMAIN messages'[e]
        BY <1>1, <3>1, <3>2 DEF Quiet
      <4>5. next'[m] = 0 /\ next'[m] # NotSent /\ 0 < Count(m)' /\ 0 \in 0 .. Count(m)'
        BY <3>2, <3>3, <3>5, <4>1 DEF NotSent
      <4>6. OnItsWay(e, m)'
        BY <4>2, <4>3, <4>4, <4>5 DEF OnItsWay
      <4> QED
        BY <1>1, <2>1, <2>3, <3>2, <4>6 DEF InStep
    <3> QED
      BY <3>4, <3>5
  <2> QED
    BY <2>2, <2>3
<1> QED
  BY <1>1, <1>3, FaultFreeBy DEF FaultFree

LEMMA PeerOfPeer ==
  ASSUME NEW e \in Ends, NEW d \in Ends
  PROVE  Peer(e) \in Ends /\ (d = Peer(e) <=> e = Peer(d)) /\ Peer(e) # e
BY DEF Peer, Ends

\* The next frame of a message comes last.
LEMMA SendFrameFaultFree ==
  ASSUME Truthful, FaultFree, NEW m \in AllMessages, SendFrame(m)
  PROVE  FaultFree'
<1> DEFINE i == next[m]
           f == Frame(m, i)
           d == Peer(From(m))
<1>1. UNCHANGED <<limits, faults, messages>> /\ i \in Nat /\ limits \in [Ends -> LimitChoices]
  BY DEF SendFrame, Truthful
<1>2. /\ wire' = [wire EXCEPT ![d] = Append(wire[d], f)]
      /\ next' = [next EXCEPT ![m] = IF f.index + 1 = f.count THEN Sent ELSE i + 1]
  BY DEF SendFrame, Truthful
<1>3. d \in Ends /\ From(m) \in Ends /\ From(m) = Peer(d)
  BY FromType, PeerOfPeer
<1>4. f \in Frames
  BY <1>1, FrameTruthful
<1>5. f.id = m /\ f.index = i /\ f.count = Count(m)
  BY DEF Frame, Count
<1>6. f \in Genuine(d)
  BY <1>3, <1>4, <1>5 DEF Genuine
<1> HIDE DEF f, d
<1>7. wire'[d] = Append(wire[d], f) /\ \A e \in Ends : e # d => wire'[e] = wire[e]
  BY <1>2, <1>3 DEF Truthful
<1>8. /\ \A x \in AllMessages : x # m => next'[x] = next[x]
      /\ next'[m] = IF i + 1 = Count(m) THEN Sent ELSE i + 1
  BY <1>2, <1>5 DEF Truthful
<1>9. ASSUME faults = 0, NEW e \in Ends PROVE wire'[e] \in Seq(Genuine(e))
  <2>1. wire[e] \in Seq(Genuine(e))
    BY <1>9 DEF FaultFree
  <2>2. CASE e = d
    <3>1. Append(wire[e], f) \in Seq(Genuine(e))
      BY <1>6, <2>1, <2>2, AppendProperties
    <3> QED
      BY <1>7, <2>2, <3>1
  <2>3. CASE e # d
    BY <1>7, <2>1, <2>3
  <2> QED
    BY <2>2, <2>3
<1>10. ASSUME faults = 0, NEW e \in Ends, NEW x \in AllMessages, From(x) = Peer(e)
       PROVE  InStep(e, x)'
  <2>1. InStep(e, x) /\ Ordered(wire[e], Index(x)) /\ wire[e] \in Seq(Frames)
    BY <1>10 DEF FaultFree, InStep, Truthful
  <2>2. CASE x # m
    <3>1. f \notin DOMAIN Index(x)
      BY <1>5, <2>2 DEF Index
    <3>2. Ranks(wire'[e], Index(x)) = Ranks(wire[e], Index(x)) /\ Ordered(wire'[e], Index(x))
      <4>1. CASE e # d
        BY <1>7, <2>1, <4>1
      <4>2. CASE e = d
        <5>1. /\ Ranks(Append(wire[e], f), Index(x)) = Ranks(wire[e], Index(x))
              /\ Ordered(Append(wire[e], f), Index(x))
          BY <1>4, <2>1, <3>1, RankAppend
        <5> QED
          BY <1>7, <4>2, <5>1
      <4> QED
        BY <4>1, <4>2
    <3> QED
      BY <1>1, <1>8, <2>1, <2>2, <3>2, InStepStays
  <2>3. CASE x = m
    <3>1. e = d
      BY <1>3, <1>10, <2>3, PeerOfPeer, ZenonT(60)
    <3>2. OnItsWay(e, m)
      BY <1>1, <2>1, <2>3 DEF InStep, Quiet, NotSent, Sent
    <3>3. f \in DOMAIN Index(m) /\ Index(m)[f] = i
      BY <1>4, <1>5 DEF Index
    <3>4. Upto(m) = i /\ i < Count(m) /\ Expected(e, m) <= i /\ i # Sent /\ i # NotSent
      BY <1>1, <3>2 DEF OnItsWay, Upto, Sent, NotSent
    <3>5. Count(m) \in Nat \ {0}
      BY LimitsType, PayloadType, LenProperties, ChunksHoldPayload DEF Count, Truthful
    <3>6. Expected(e, m) \in Nat
      BY <2>3, <3>2 DEF Expected, Truthful, Entry
    <3>7. Ranks(wire[e], Index(m)) = Expected(e, m) .. i - 1
      BY <3>2, <3>4 DEF OnItsWay
    <3>8. \A k \in Ranks(wire[e], Index(m)) : k < i
      BY <1>1, <3>6, <3>7
    <3>9. /\ Ranks(wire'[e], Index(m)) = Ranks(wire[e], Index(m)) \cup {i}
          /\ Ordered(wire'[e], Index(m))
      <4>1. wire[e] \in Seq(Frames) /\ Ordered(wire[e], Index(m))
        BY <2>1, <2>3
      <4>2. \A k \in Ranks(wire[e], Index(m)) : k < Index(m)[f]
        BY <3>3, <3>8
      <4>3. /\ Ranks(Append(wire[e], f), Index(m)) = Ranks(wire[e], Index(m)) \cup {Index(m)[f]}
            /\ Ordered(Append(wire[e], f), Index(m))
        BY <1>4, <3>3, <4>1, <4>2, RankAppend
      <4> QED
        BY <1>7, <3>1, <3>3, <4>3
    <3>10. Ranks(wire'[e], Index(m)) = Expected(e, m) .. (i + 1) - 1
      BY <1>1, <3>4, <3>6, <3>7, <3>9
    <3>11. /\ Count(m)' = Count(m) /\ Index(m)' = Index(m) /\ Payload(m)' = Payload(m)
           /\ Expected(e, m)' = Expected(e, m) /\ \A k : Before(m, k)' = Before(m, k)
           /\ (Fits(Len(Payload(m)), limits[From(m)]))' = Fits(Len(Payload(m)), limits[From(m)])
      <4>1. Count(m)' = Count(m) /\ Index(m)' = Index(m) /\ Payload(m)' = Payload(m)
            /\ \A k : Before(m, k)' = Before(m, k)
        BY <1>1, SameFrames
      <4>2. (Fits(Len(Payload(m)), limits[From(m)]))' = Fits(Len(Payload(m)), limits[From(m)])
        BY <1>1, <4>1 DEF Fits, From
      <4>3. Expected(e, m)' = Expected(e, m)
        BY <1>1 DEF Expected
      <4> QED
        BY <4>1, <4>2, <4>3
    <3>12. Upto(m)' = i + 1 /\ next'[m] # NotSent /\ (next'[m] # Sent => next'[m] < Count(m))
           /\ i + 1 \in Expected(e, m) .. Count(m)
      BY <1>1, <1>8, <3>4, <3>5, <3>6, <3>11 DEF Upto, Sent, NotSent
    <3>13. m \in DOMAIN messages'[e] <=> m \in DOMAIN messages[e]
      BY <1>1
    <3>14. OnItsWay(e, m)'
      <4>1. /\ next'[m] # NotSent
            /\ next'[m] # Sent => next'[m] < Count(m)'
            /\ Fits(Len(Payload(m)), limits[From(m)])'
            /\ Expected(e, m)' < Count(m)' /\ Upto(m)' \in Expected(e, m)' .. Count(m)'
        BY <3>2, <3>11, <3>12 DEF OnItsWay
      <4>2. Ranks(wire[e], Index(m))' = Expected(e, m)' .. Upto(m)' - 1
        BY <3>10, <3>11, <3>12
      <4>3. m \in DOMAIN messages'[e] =>
              /\ Expected(e, m)' > 0
              /\ messages'[e][m].count = Count(m)'
              /\ messages'[e][m].total = Len(Payload(m)')
              /\ messages'[e][m].data = SubSeq(Payload(m)', 1, Before(m, Expected(e, m))')
        <5>1. Before(m, Expected(e, m))' = Before(m, Expected(e, m))
          BY <1>1, <3>11 DEF Before, From
        <5> QED
          BY <1>1, <3>2, <3>11, <5>1 DEF OnItsWay
      <4> QED
        BY <4>1, <4>2, <4>3 DEF OnItsWay
    <3>15. Ordered(wire[e], Index(m))'
      BY <3>9, <3>11
    <3> QED
      BY <2>3, <3>14, <3>15 DEF InStep
  <2> QED
    BY <2>2, <2>3
<1> QED
  BY <1>1, <1>9, <1>10, FaultFreeBy

\* The first frame on the wire is the one its reader expects.
LEMMA HeadIsNext ==
  ASSUME Truthful, FaultFree, faults = 0, NEW e \in Ends, wire[e] # <<>>
  PROVE  LET f == Head(wire[e])
             m == f.id
         IN  /\ f \in Frames /\ m \in AllMessages /\ From(m) = Peer(e)
             /\ f.index = Expected(e, m) /\ f = Frame(m, Expected(e, m))
             /\ Expected(e, m) \in Nat /\ Count(m) \in Nat
             /\ OnItsWay(e, m) /\ Upto(m) \in Expected(e, m) + 1 .. Count(m)
             /\ Ordered(Tail(wire[e]), Index(m))
             /\ Ranks(Tail(wire[e]), Index(m)) = Expected(e, m) + 1 .. Upto(m) - 1
<1> DEFINE f == Head(wire[e])
           m == f.id
           lo == Expected(e, m)
           hi == Upto(m)
           R == Ranks(wire[e], Index(m))
           T == Ranks(Tail(wire[e]), Index(m))
<1>1. wire[e] \in Seq(Genuine(e)) /\ wire[e] \in Seq(Frames)
  BY DEF FaultFree, Truthful
<1>2. f \in Genuine(e) /\ f \in Frames
  BY <1>1, HeadTailProperties
<1>3. m \in AllMessages /\ From(m) = Peer(e) /\ f = Frame(m, f.index) /\ f.index \in Nat
  BY <1>2 DEF Genuine, Frames
<1>4. InStep(e, m) /\ Ordered(wire[e], Index(m))
  BY <1>3 DEF FaultFree, InStep
<1>5. f \in DOMAIN Index(m) /\ Index(m)[f] = f.index
  BY <1>2 DEF Index
<1> HIDE DEF f, m
<1>6. /\ f.index \in R /\ T \subseteq R /\ R \subseteq T \cup {f.index}
      /\ \A k \in T : f.index < k
      /\ Ordered(Tail(wire[e]), Index(m))
  BY <1>1, <1>4, <1>5, RankTail DEF f
<1>7. OnItsWay(e, m)
  BY <1>4, <1>6 DEF InStep, Quiet
<1>8. R = lo .. hi - 1 /\ hi \in lo .. Count(m) /\ lo < Count(m)
  BY <1>7 DEF OnItsWay
<1>9. lo \in Nat
  BY <1>3 DEF Expected, Truthful, Entry
<1>10. Count(m) \in Nat
  BY <1>3, LimitsType, PayloadType, LenProperties, ChunksHoldPayload DEF Count, Truthful
<1> HIDE DEF R, T, lo, hi
<1>11. hi \in Nat /\ lo \in R /\ hi \in lo + 1 .. Count(m)
  BY <1>3, <1>6, <1>8, <1>9, <1>10
<1>12. f.index = lo
  <2>1. f.index \in lo .. hi - 1
    BY <1>6, <1>8
  <2>2. CASE lo \in T
    BY <1>3, <1>6, <1>9, <1>11, <2>1, <2>2
  <2>3. CASE lo \notin T
    BY <1>6, <1>11, <2>3
  <2> QED
    BY <2>2, <2>3
<1>13. T = lo + 1 .. hi - 1
  <2>1. ASSUME NEW k \in T PROVE k \in lo + 1 .. hi - 1
    BY <1>6, <1>8, <1>9, <1>11, <1>12, <2>1
  <2>2. ASSUME NEW k \in lo + 1 .. hi - 1 PROVE k \in T
    <3>1. k \in R /\ k # f.index
      BY <1>8, <1>9, <1>11, <1>12, <2>2
    <3> QED
      BY <1>6, <3>1
  <2> QED
    BY <2>1, <2>2, Zenon
<1> QED
  BY <1>2, <1>3, <1>6, <1>7, <1>9, <1>10, <1>11, <1>12, <1>13 DEF f, m, lo, hi, T

\* What the reader has of the message, and what the frame adds to it.
LEMMA HeadAdds ==
  ASSUME Truthful, FaultFree, faults = 0, NEW e \in Ends, wire[e] # <<>>
  PROVE  LET f == Head(wire[e])
             m == f.id
             s == StateOf(e, f)
             i == Expected(e, m)
         IN  /\ s.count = Count(m) /\ s.total = Len(Payload(m)) /\ s.digest = Payload(m)
             /\ s.next_index = i /\ f.index = i /\ i \in Nat /\ i < Count(m)
             /\ f.count = Count(m) /\ f.total = Len(Payload(m)) /\ f.digest = Payload(m)
             /\ f.control = IF i = 0 THEN ControlOf(m) ELSE NoControl
             /\ Len(s.data) = Before(m, i)
             /\ Len(f.payload) = Before(m, i + 1) - Before(m, i)
             /\ s.data \o f.payload = SubSeq(Payload(m), 1, Before(m, i + 1))
             /\ Len(s.data \o f.payload) = Before(m, i + 1)
<1> DEFINE f == Head(wire[e])
           m == f.id
           s == StateOf(e, f)
           i == Expected(e, m)
           p == Payload(m)
<1>1. /\ m \in AllMessages /\ f.index = i /\ f = Frame(m, i) /\ i \in Nat /\ OnItsWay(e, m)
      /\ i < Count(m)
  BY HeadIsNext DEF OnItsWay
<1>2. limits \in [Ends -> LimitChoices] /\ p \in Seq(Byte)
  BY <1>1, PayloadType DEF Truthful
<1>3. /\ m \in DOMAIN messages[e] => s = messages[e][m]
      /\ m \notin DOMAIN messages[e] =>
           s = [count |-> f.count, total |-> f.total, digest |-> f.digest, control |-> f.control,
                next_index |-> 0, data |-> <<>>]
  BY DEF StateOf
<1>4. m \in DOMAIN messages[e] => messages[e][m].digest = p
  BY DEF Truthful, Entry
<1> HIDE DEF f, m, s, p
<1>5. /\ Count(m) \in Nat /\ Before(m, 0) = 0
      /\ Before(m, i) \in Nat /\ Before(m, i + 1) \in Nat
      /\ Before(m, i) <= Before(m, i + 1) /\ Before(m, i + 1) <= Len(p)
      /\ f = [id |-> m, index |-> i, count |-> Count(m), total |-> Len(p), digest |-> p,
              control |-> IF i = 0 THEN ControlOf(m) ELSE NoControl,
              payload |-> SubSeq(p, Before(m, i) + 1, Before(m, i + 1))]
  BY <1>1, <1>2, FrameHolds DEF p
<1>6. /\ f.count = Count(m) /\ f.total = Len(p) /\ f.digest = p
      /\ f.control = IF i = 0 THEN ControlOf(m) ELSE NoControl
      /\ f.payload = SubSeq(p, Before(m, i) + 1, Before(m, i + 1))
  BY <1>5
<1>7. /\ SubSeq(p, 1, Before(m, i)) \o SubSeq(p, Before(m, i) + 1, Before(m, i + 1))
           = SubSeq(p, 1, Before(m, i + 1))
      /\ Len(SubSeq(p, 1, Before(m, i))) = Before(m, i)
      /\ Len(SubSeq(p, Before(m, i) + 1, Before(m, i + 1))) = Before(m, i + 1) - Before(m, i)
      /\ SubSeq(p, 1, 0) = <<>>
  <2> DEFINE a == Before(m, i)
             b == Before(m, i + 1)
  <2>1. a \in Nat /\ b \in Nat /\ a <= b /\ b <= Len(p)
    BY <1>5
  <2> HIDE DEF a, b
  <2>2. /\ SubSeq(p, 1, a) \o SubSeq(p, a + 1, b) = SubSeq(p, 1, b)
        /\ Len(SubSeq(p, 1, a)) = a /\ Len(SubSeq(p, a + 1, b)) = b - a
        /\ SubSeq(p, 1, 0) = <<>>
    BY <1>2, <2>1, Pieces
  <2> QED
    BY <2>2 DEF a, b
<1>8. Len(SubSeq(p, 1, Before(m, i + 1))) = Before(m, i + 1)
  BY <1>2, <1>5, Pieces
<1>9. /\ s.count = Count(m) /\ s.total = Len(p) /\ s.digest = p /\ s.next_index = i
      /\ s.data = SubSeq(p, 1, Before(m, i))
  <2>1. CASE m \in DOMAIN messages[e]
    <3>1. /\ messages[e][m].count = Count(m) /\ messages[e][m].total = Len(p)
          /\ messages[e][m].data = SubSeq(p, 1, Before(m, i))
      BY <1>1, <2>1 DEF OnItsWay, p
    <3>2. messages[e][m].next_index = i
      BY <2>1 DEF Expected
    <3> QED
      BY <1>3, <1>4, <2>1, <3>1, <3>2
  <2>2. CASE m \notin DOMAIN messages[e]
    <3>1. i = 0
      BY <2>2 DEF Expected
    <3>2. SubSeq(p, 1, Before(m, i)) = <<>>
      BY <1>5, <1>7, <3>1
    <3>3. s.count = f.count /\ s.total = f.total /\ s.digest = f.digest /\ s.next_index = 0 /\ s.data = <<>>
      BY <1>3, <2>2
    <3> HIDE DEF i
    <3> QED
      BY <1>6, <3>1, <3>2, <3>3
  <2> QED
    BY <2>1, <2>2
<1> QED
  BY <1>1, <1>6, <1>7, <1>8, <1>9, ZenonT(60) DEF f, m, s, p

LEMMA ReadFaultFree ==
  ASSUME Truthful, FaultFree, NEW e \in Ends, Read(e)
  PROVE  FaultFree'
<1> DEFINE f == Head(wire[e])
           m == f.id
           s == StateOf(e, f)
           i == Expected(e, m)
<1>1. UNCHANGED <<limits, faults, next>> /\ wire[e] # <<>> /\ wire' = [wire EXCEPT ![e] = Tail(wire[e])]
  BY DEF Read, Truthful
<1>2. wire'[e] = Tail(wire[e]) /\ \A x \in Ends : x # e => wire'[x] = wire[x]
  BY <1>1 DEF Truthful
<1>3. ASSUME faults = 0, NEW x \in Ends PROVE wire'[x] \in Seq(Genuine(x))
  <2>1. wire[x] \in Seq(Genuine(x))
    BY <1>3 DEF FaultFree
  <2> QED
    BY <1>1, <1>2, <2>1, HeadTailProperties
<1>4. /\ \A x \in Ends : x # e => messages'[x] = messages[x]
      /\ IsLast(f) => messages'[e] = [id \in DOMAIN messages[e] \ {m} |-> messages[e][id]]
      /\ ~IsLast(f) =>
           messages'[e] = [id \in DOMAIN messages[e] \cup {m} |->
             IF id = m THEN [[s EXCEPT !.data = s.data \o f.payload] EXCEPT !.next_index = @ + 1]
             ELSE messages[e][id]]
  <2>1. CASE IsLast(f)
    BY <2>1 DEF Read, Return, Truthful
  <2>2. CASE ~IsLast(f)
    BY <2>2 DEF Read, Keep, Truthful
  <2> QED
    BY <2>1, <2>2
<1>5. s \in Entry(m) /\ Accepts(e, f)
  BY <1>1, StateTruthful, HeadTailProperties DEF Truthful, Read, Accepts
<1>6. ASSUME faults = 0, NEW d \in Ends, NEW x \in AllMessages, From(x) = Peer(d)
      PROVE  InStep(d, x)'
  <2>1. InStep(d, x) /\ Ordered(wire[d], Index(x)) /\ wire[d] \in Seq(Frames)
    BY <1>6 DEF FaultFree, InStep, Truthful
  <2>2. CASE d # e
    <3>1. wire'[d] = wire[d] /\ messages'[d] = messages[d] /\ next'[x] = next[x]
      BY <1>1, <1>2, <1>4, <2>2
    <3> QED
      BY <1>1, <2>1, <3>1, InStepStays
  <2>3. CASE d = e /\ x # m
    <3>1. f \notin DOMAIN Index(x)
      BY <2>3 DEF Index
    <3>2. /\ Ranks(Tail(wire[e]), Index(x)) \subseteq Ranks(wire[e], Index(x))
          /\ Ranks(wire[e], Index(x)) \subseteq Ranks(Tail(wire[e]), Index(x)) \cup {}
          /\ Ordered(Tail(wire[e]), Index(x))
      BY <1>1, <2>1, <2>3, <3>1, RankTail
    <3>3. Ranks(wire'[e], Index(x)) = Ranks(wire[e], Index(x)) /\ Ordered(wire'[e], Index(x))
      BY <1>2, <3>2
    <3>4. /\ x \in DOMAIN messages'[e] <=> x \in DOMAIN messages[e]
          /\ x \in DOMAIN messages[e] => messages'[e][x] = messages[e][x]
      <4>1. CASE IsLast(f)
        BY <1>4, <2>3, <4>1
      <4>2. CASE ~IsLast(f)
        BY <1>4, <2>3, <4>2
      <4> QED
        BY <4>1, <4>2
    <3> QED
      BY <1>1, <2>1, <2>3, <3>3, <3>4, InStepStays
  <2>4. CASE d = e /\ x = m
    <3>1. /\ m \in AllMessages /\ i \in Nat /\ Count(m) \in Nat /\ OnItsWay(e, m)
          /\ Upto(m) \in i + 1 .. Count(m)
          /\ Ordered(Tail(wire[e]), Index(m))
          /\ Ranks(Tail(wire[e]), Index(m)) = i + 1 .. Upto(m) - 1
      BY <1>1, <1>6, HeadIsNext
    <3>2. /\ s.count = Count(m) /\ s.total = Len(Payload(m)) /\ s.next_index = i
          /\ f.index = i /\ f.count = Count(m) /\ i < Count(m)
          /\ s.data \o f.payload = SubSeq(Payload(m), 1, Before(m, i + 1))
      BY <1>1, <1>6, HeadAdds
    <3> DEFINE j == Expected(e, x)
    <3>a. /\ j \in Nat /\ Count(x) \in Nat /\ OnItsWay(e, x)
          /\ Upto(x) \in j + 1 .. Count(x)
          /\ Ordered(Tail(wire[e]), Index(x))
          /\ Ranks(Tail(wire[e]), Index(x)) = j + 1 .. Upto(x) - 1
      BY <2>4, <3>1
    <3>b. /\ s.count = Count(x) /\ s.total = Len(Payload(x)) /\ s.next_index = j
          /\ f.index = j /\ f.count = Count(x) /\ j < Count(x)
          /\ s.data \o f.payload = SubSeq(Payload(x), 1, Before(x, j + 1))
      BY <2>4, <3>2
    <3>3. /\ Count(x)' = Count(x) /\ Index(x)' = Index(x) /\ Payload(x)' = Payload(x)
          /\ \A k : Before(x, k)' = Before(x, k)
      BY <1>1, SameFrames
    <3>4. Fits(Len(Payload(x)), limits[From(x)])'
      BY <1>1, <3>a, <3>3 DEF OnItsWay, Fits, From
    <3>5. Ordered(wire[e], Index(x))'
      BY <1>2, <3>a, <3>3
    <3>6. Upto(x)' = Upto(x)
      BY <1>1, <3>3 DEF Upto
    <3>7. CASE IsLast(f)
      <4>1. j + 1 = Count(x)
        BY <3>b, <3>7 DEF IsLast
      <4>2. Upto(x) = Count(x)
        BY <3>a, <4>1
      <4>3. next[x] = Sent
        BY <3>a, <4>2 DEF OnItsWay, Upto
      <4>4. x \notin DOMAIN messages'[e]
        BY <1>4, <2>4, <3>7
      <4>5. Ranks(wire[e], Index(x))' = {}
        BY <1>2, <3>a, <3>3, <4>1, <4>2
      <4>6. Quiet(e, x)'
        BY <1>1, <4>3, <4>4, <4>5 DEF Quiet
      <4> QED
        BY <2>4, <3>5, <4>6 DEF InStep
    <3>8. CASE ~IsLast(f)
      <4>1. j + 1 < Count(x)
        BY <3>a, <3>b, <3>8 DEF IsLast
      <4>2. x \in DOMAIN messages'[e]
            /\ messages'[e][x] = [[s EXCEPT !.data = s.data \o f.payload] EXCEPT !.next_index = @ + 1]
        BY <1>4, <2>4, <3>8
      <4>3. /\ messages'[e][x].next_index = j + 1 /\ messages'[e][x].count = Count(x)
            /\ messages'[e][x].total = Len(Payload(x))
            /\ messages'[e][x].data = SubSeq(Payload(x), 1, Before(x, j + 1))
        BY <1>5, <3>b, <4>2 DEF Entry
      <4>4. Expected(e, x)' = j + 1 /\ j + 1 > 0
        BY <3>a, <4>2, <4>3 DEF Expected
      <4>5. Ranks(wire[e], Index(x))' = Expected(e, x)' .. Upto(x)' - 1
        BY <1>2, <3>a, <3>3, <3>6, <4>4
      <4>6. Before(x, Expected(e, x))' = Before(x, j + 1)
        BY <1>1, <3>3, <4>4 DEF Before, From
      <4>7. /\ next'[x] # NotSent
            /\ next'[x] # Sent => next'[x] < Count(x)'
            /\ Expected(e, x)' < Count(x)' /\ Upto(x)' \in Expected(e, x)' .. Count(x)'
        BY <1>1, <3>a, <3>3, <3>6, <4>1, <4>4 DEF OnItsWay
      <4>8. OnItsWay(e, x)'
        BY <3>3, <3>4, <4>3, <4>4, <4>5, <4>6, <4>7 DEF OnItsWay
      <4> QED
        BY <2>4, <3>5, <4>8 DEF InStep
    <3> QED
      BY <3>7, <3>8
  <2> QED
    BY <2>2, <2>3, <2>4
<1> QED
  BY <1>1, <1>3, <1>6, FaultFreeBy

LEMMA FaultFreeStep == Truthful /\ FaultFree /\ [Next]_vars => FaultFree'
<1> SUFFICES ASSUME Truthful, FaultFree, [Next]_vars PROVE FaultFree'
  OBVIOUS
<1>1. ASSUME NEW e \in Ends, NEW m, Refuse(e) \/ Compare(e, m) PROVE FaultFree'
  BY <1>1, FaultFreeStays DEF Refuse, Compare
<1>2. ASSUME NEW e \in Ends, Fault(e) PROVE FaultFree'
  <2>1. faults' \in Nat /\ faults' # 0
    BY <1>2 DEF Fault, FaultFree
  <2> QED
    BY <2>1 DEF FaultFree
<1>3. CASE UNCHANGED vars
  BY <1>3, FaultFreeStays DEF vars
<1> QED
  BY <1>1, <1>2, <1>3, BeginFaultFree, SendFrameFaultFree, ReadFaultFree DEF Next, Ends

LEMMA SameLimitsStep == Truthful /\ SameLimits /\ [Next]_vars => SameLimits'
<1> SUFFICES ASSUME Truthful, SameLimits, [Next]_vars PROVE SameLimits'
  OBVIOUS
<1>1. ASSUME NEW e \in Ends, NEW m \in {HELLO, WELCOME}, From(m) = Peer(e), Compare(e, m)
      PROVE  SameLimits'
  <2> DEFINE first == Head(received[e])
             equal == first.id = m /\ first.control = <<WireLimits(limits[e])>>
  <2>1. first \in Wholes
    BY <1>1, HeadTailProperties DEF Compare, Truthful
  <2>2. UNCHANGED limits /\ phase' = [phase EXCEPT ![e] = IF equal THEN "open" ELSE "closed"]
    BY <1>1 DEF Compare
  <2>3. equal => WireLimits(limits["client"]) = WireLimits(limits["server"])
    <3>1. equal => first.control = ControlOf(m)
      BY <2>1 DEF Wholes
    <3>2. ControlOf(m) = <<WireLimits(limits[Peer(e)])>>
      BY <1>1, WireAssumption DEF ControlOf
    <3>3. equal => WireLimits(limits[e]) = WireLimits(limits[Peer(e)])
      BY <3>1, <3>2
    <3> QED
      BY <3>3 DEF Peer, Ends
  <2>4. \A L : WireLimits(L)' = WireLimits(L)
    BY DEF WireLimits
  <2> HIDE DEF equal
  <2>5. phase' \in [Ends -> {"start", "open", "closed"}]
    BY <2>2 DEF SameLimits
  <2>6. ASSUME NEW x \in Ends, phase'[x] = "open"
        PROVE  WireLimits(limits["client"]) = WireLimits(limits["server"])
    BY <2>2, <2>3, <2>6 DEF SameLimits
  <2> QED
    BY <2>2, <2>5, <2>6 DEF SameLimits, WireLimits
<1>2. Compare("server", HELLO) => SameLimits'
  <2>1. From(HELLO) = "client" /\ Peer("server") = "client" /\ "server" \in Ends
    BY WireAssumption DEF Ends, From, Peer
  <2> QED
    BY <1>1, <2>1
<1>3. Compare("client", WELCOME) => SameLimits'
  BY <1>1, WireAssumption DEF Ends, From, Peer
<1>4. ASSUME NEW e \in Ends, Refuse(e) PROVE SameLimits'
  BY <1>4 DEF Refuse, SameLimits, WireLimits
<1>5. ASSUME UNCHANGED <<limits, phase>> PROVE SameLimits'
  BY <1>5 DEF SameLimits, WireLimits
<1>6. ASSUME NEW m \in AllMessages, Begin(m) \/ SendFrame(m) PROVE SameLimits'
  BY <1>5, <1>6 DEF Begin, SendFrame
<1>7. ASSUME NEW e \in Ends, Read(e) \/ Fault(e) PROVE SameLimits'
  BY <1>5, <1>7 DEF Read, Fault
<1>8. CASE UNCHANGED vars
  BY <1>5, <1>8 DEF vars
<1> QED
  BY <1>2, <1>3, <1>4, <1>6, <1>7, <1>8 DEF Next

\* With the limits equal, the frame that comes next fits into what is left.
LEMMA NextIsAccepted ==
  ASSUME Truthful, CountOK, FaultFree, SameLimits, faults = 0, NEW e \in Ends,
         phase[Peer(e)] = "open", wire[e] # <<>>,
         DOMAIN messages[e] \subseteq {Head(wire[e]).id}
  PROVE  Accepts(e, Head(wire[e]))
<1> DEFINE f == Head(wire[e])
           m == f.id
           s == StateOf(e, f)
           i == Expected(e, m)
           p == Payload(m)
           L == limits[From(m)]
<1>1. /\ m \in AllMessages /\ From(m) = Peer(e) /\ i \in Nat /\ Count(m) \in Nat /\ OnItsWay(e, m)
  BY HeadIsNext
<1>2. /\ s.count = Count(m) /\ s.total = Len(p) /\ s.digest = p
      /\ s.next_index = i /\ f.index = i /\ i < Count(m)
      /\ f.count = Count(m) /\ f.total = Len(p) /\ f.digest = p
      /\ f.control = IF i = 0 THEN ControlOf(m) ELSE NoControl
      /\ Len(s.data) = Before(m, i)
      /\ Len(f.payload) = Before(m, i + 1) - Before(m, i)
      /\ s.data \o f.payload = SubSeq(p, 1, Before(m, i + 1))
      /\ Len(s.data \o f.payload) = Before(m, i + 1)
  BY HeadAdds
<1>3. /\ Before(m, 0) = 0 /\ Before(m, i) \in Nat /\ Before(m, i + 1) \in Nat
      /\ Before(m, i) <= Before(m, i + 1) /\ Before(m, i + 1) <= Len(p)
      /\ Before(m, i + 1) - Before(m, i) <= L.frame
      /\ i + 1 = Count(m) => Before(m, i + 1) = Len(p)
  BY <1>1, <1>2, FrameHolds DEF Truthful
<1>4. p \in Seq(Byte) /\ Len(p) \in Nat
  BY <1>1, PayloadType, LenProperties
<1>5. /\ limits[e].frame = L.frame /\ limits[e].message = L.message /\ limits[e].chunks = L.chunks
      /\ limits[e].message \in Nat /\ limits[e].incomplete \in Nat \ {0}
  <2>1. WireLimits(limits["client"]) = WireLimits(limits["server"])
    BY PeerOfPeer DEF SameLimits
  <2>2. WireLimits(limits[e]) = WireLimits(L)
    BY <1>1, <2>1 DEF Ends, Peer
  <2>3. limits[e] \in LimitChoices
    <3>1. limits \in [Ends -> LimitChoices]
      BY DEF Truthful
    <3> QED
      BY <3>1, Zenon
  <2> HIDE DEF L
  <2>4. /\ limits[e].frame = L.frame /\ limits[e].message = L.message
        /\ limits[e].chunks = L.chunks
    BY <2>2 DEF WireLimits
  <2>5. limits[e].message \in Nat /\ limits[e].incomplete \in Nat \ {0}
    <3>1. limits[e] \in [frame : Nat \ {0}, message : Nat \ {0}, chunks : Nat \ {0},
                         incomplete : Nat \ {0}]
      BY <2>3, WireAssumption, Zenon
    <3> QED
      BY <3>1, SMTT(30)
  <2> QED
    BY <2>4, <2>5
<1>6. Len(p) <= L.message /\ Count(m) <= L.chunks
  BY <1>1 DEF OnItsWay, Fits, Count
<1>7. m \notin DOMAIN messages[e] => i = 0 /\ DOMAIN messages[e] = {}
  <2>1. DOMAIN messages[e] \subseteq {m}
    BY Zenon
  <2>2. m \notin DOMAIN messages[e] => i = 0
    BY Zenon DEF Expected
  <2> HIDE DEF m, i
  <2> QED
    BY <2>1, <2>2
<1>8. m \in DOMAIN messages[e] =>
        i > 0 /\ messages[e][m] = s /\ DOMAIN messages[e] = {m}
  <2>1. DOMAIN messages[e] \subseteq {m}
    BY Zenon
  <2>2. m \in DOMAIN messages[e] => i > 0
    BY <1>1, Zenon DEF OnItsWay
  <2>3. m \in DOMAIN messages[e] => messages[e][m] = s
    BY Zenon DEF StateOf
  <2> HIDE DEF m, i, s
  <2> QED
    BY <2>1, <2>2, <2>3
<1> HIDE DEF f, m, s, i, p, L
<1>9. incomplete_bytes[e] = Before(m, i)
  <2>1. incomplete_bytes[e] = Cardinality(Kept(e))
    BY DEF CountOK, Bounded
  <2>2. CASE m \in DOMAIN messages[e]
    <3>1. Kept(e) = {m} \X (1 .. Before(m, i))
      <4>1. Len(messages[e][m].data) = Before(m, i)
        BY <1>2, <1>8, <2>2
      <4> QED
        BY <1>8, <2>2, <4>1 DEF Kept
    <3> DEFINE n == Before(m, i)
    <3>2. n \in Nat /\ 0 \in Nat /\ 0 <= n /\ 0 + 1 = 1 /\ n - 0 = n
      BY <1>3
    <3> HIDE DEF n
    <3>3. Cardinality({m} \X (0 + 1 .. n)) = n - 0
      BY <3>2, Run
    <3>4. Cardinality({m} \X (1 .. n)) = n
      BY <3>2, <3>3
    <3> QED
      BY <2>1, <3>1, <3>4 DEF n
  <2>3. CASE m \notin DOMAIN messages[e]
    <3>1. Kept(e) = {}
      BY <1>7, <2>3 DEF Kept
    <3> QED
      BY <1>3, <1>7, <2>1, <2>3, <3>1, FS_EmptySet
  <2> QED
    BY <2>2, <2>3
<1>10. WithinLimits(e, f)
  <2> DEFINE a == Before(m, i)
             b == Before(m, i + 1)
             c == Count(m)
             n == Len(p)
  <2>1. /\ a \in Nat /\ b \in Nat /\ n \in Nat /\ a <= b /\ b <= n /\ b - a <= L.frame
        /\ n <= L.message /\ i < c /\ c <= L.chunks /\ incomplete_bytes[e] = a
        /\ f.count = c /\ f.total = n /\ Len(f.payload) = b - a /\ f.index = i
    BY <1>2, <1>3, <1>4, <1>6, <1>9
  <2> HIDE DEF a, b, c, n
  <2>2. L.message \in Nat
    BY <1>5
  <2>3. incomplete_bytes[e] + Len(f.payload) <= L.message
    BY <2>1, <2>2
  <2> QED
    BY <1>5, <2>1, <2>3 DEF WithinLimits
<1>11. Agrees(e, f)
  <2>1. CASE m \in DOMAIN messages[e]
    <3>1. f.control = NoControl
      BY <1>1, <1>2, <1>8, <2>1
    <3> QED
      BY <1>2, <2>1, <3>1 DEF Agrees, s, m
  <2>2. CASE m \notin DOMAIN messages[e]
    <3>1. f.control # NoControl
      BY <1>2, <1>7, <2>2 DEF ControlOf, NoControl
    <3>2. Cardinality(DOMAIN messages[e]) = 0
      BY <1>7, <2>2, FS_EmptySet
    <3>3. Cardinality(DOMAIN messages[e]) < limits[e].incomplete
      BY <1>5, <3>2
    <3> QED
      BY <2>2, <3>1, <3>3 DEF Agrees, m
  <2> QED
    BY <2>1, <2>2
<1>12. IsLast(f) => IsWhole(s, s.data \o f.payload)
  <2> SUFFICES ASSUME IsLast(f) PROVE IsWhole(s, s.data \o f.payload)
    OBVIOUS
  <2>1. Before(m, i + 1) = Len(p)
    BY <1>2, <1>3 DEF IsLast
  <2>2. SubSeq(p, 1, Len(p)) = p
    BY <1>4, Pieces
  <2>3. s.data \o f.payload = p
    BY <1>2, <2>1, <2>2
  <2> QED
    BY <1>2, <2>3 DEF IsWhole, Digest
<1>13. Len(s.data \o f.payload) <= s.total /\ f.index = s.next_index
  BY <1>2, <1>3
<1> QED
  BY <1>10, <1>11, <1>12, <1>13 DEF Accepts, f, s

\* Ends that have found their limits equal, and whose frames are not tampered
\* with, never refuse a frame unless another unfinished message takes the room:
\* for every choice of messages, sizes, limits and interleaving of sends.
THEOREM NoRefusal == Spec => []NeverRefused
<1> DEFINE IInv == Truthful /\ CountOK /\ FaultFree /\ SameLimits
<1>1. Init => IInv
  <2>1. Init => SameLimits
    BY DEF Init, SameLimits
  <2> QED
    BY <2>1, TruthfulInit, CountInit, FaultFreeInit
<1>2. IInv /\ [Next]_vars => IInv'
  BY TruthfulStep, CountStep, FaultFreeStep, SameLimitsStep
<1>3. IInv => NeverRefused
  <2> SUFFICES ASSUME IInv, NEW e \in Ends, faults = 0, phase[Peer(e)] = "open", wire[e] # <<>>,
                      ~Accepts(e, Head(wire[e])), DOMAIN messages[e] \ {Head(wire[e]).id} = {}
               PROVE  FALSE
    BY DEF NeverRefused
  <2> QED
    BY NextIsAccepted
<1> QED
  BY <1>1, <1>2, <1>3, PTL DEF Spec

=============================================================================
