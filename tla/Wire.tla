-------------------------------- MODULE Wire --------------------------------
(***************************************************************************)
(* The wire protocol of the remote package, remote/_protocol.py: messages  *)
(* cut into frames by send_message, put together again by MessageReader,   *)
(* under the limits that _connect and _handshake compare.                  *)
(*                                                                         *)
(* A frame is sent and read as a whole.  Its digest is the payload itself, *)
(* as if SHA-256 had no collisions.  The ends of this release finish one   *)
(* message before they begin the next, while a reader also takes           *)
(* interleaved ones (Lanes > 1), and it has to notice what a faulty peer   *)
(* does to frames (Faults).                                                *)
(***************************************************************************)
EXTENDS Integers, Sequences, FiniteSets

CONSTANTS
  Messages,      \* the messages the ends send after the handshake
  Sender,        \* [Messages -> Ends]
  Size,          \* [Messages -> the length of the payload]
  HELLO,         \* the first message of the client...
  WELCOME,       \* ...and of the server, which carry no payload
  LimitChoices,  \* the limits an end may be configured with
  Lanes,         \* how many messages an end sends at the same time
  Faults         \* how many frames are lost, repeated or damaged

Ends == {"client", "server"}
Peer(e) == IF e = "client" THEN "server" ELSE "client"

ASSUME WireAssumption ==
  /\ IsFiniteSet(Messages)
  /\ {HELLO, WELCOME} \cap Messages = {} /\ HELLO # WELCOME
  /\ Sender \in [Messages -> Ends]
  /\ Size \in [Messages -> Nat]
  /\ LimitChoices \subseteq [frame : Nat \ {0}, message : Nat \ {0}, chunks : Nat \ {0},
                             incomplete : Nat \ {0}]
  /\ Lanes \in Nat \ {0}
  /\ Faults \in Nat

VARIABLES
  limits,            \* [Ends -> RemoteLimits]
  phase,             \* [Ends -> how far the handshake is]
  next,              \* [AllMessages -> the next frame to send, NotSent, Sent]
  wire,              \* [Ends -> the frames on their way to it]
  messages,          \* [Ends -> _messages, by message ID]
  incomplete_bytes,  \* [Ends -> _incomplete_bytes]
  received,          \* [Ends -> the messages that receive() has returned]
  faults             \* the number of faults so far

vars == <<limits, phase, next, wire, messages, incomplete_bytes, received, faults>>

-----------------------------------------------------------------------------
(* Sending.                                                                *)

AllMessages == Messages \cup {HELLO, WELCOME}
NotSent == -1
Sent    == -2

From(m) ==
  CASE m = HELLO -> "client" [] m = WELCOME -> "server" [] OTHER -> Sender[m]

\* Every byte can be told from every other.
Payload(m) == IF m \in Messages THEN [i \in 1..Size[m] |-> <<m, i>>] ELSE <<>>
Digest(payload) == payload

\* Mutant of WireLimits: the number of chunks is not compared.
WireLimitsPartial(L) == <<L.frame, L.message>>

\* _wire_limits
WireLimits(L) == <<L.frame, L.message, L.chunks>>

\* What the first frame carries: the handshake messages name the limits.
ControlOf(m) == <<IF m \in Messages THEN <<>> ELSE WireLimits(limits[From(m)])>>
NoControl == <<>>

\* _message_chunk_count, and whether it raises.
ChunkCount(size, L) ==
  LET n == (size + L.frame - 1) \div L.frame IN IF n > 1 THEN n ELSE 1
Fits(size, L) == size <= L.message /\ ChunkCount(size, L) <= L.chunks

Frame(m, index) ==
  LET L == limits[From(m)]
      p == Payload(m)
      start == index * L.frame
      end == IF start + L.frame < Len(p) THEN start + L.frame ELSE Len(p)
  IN  [id      |-> m,
       index   |-> index,
       count   |-> ChunkCount(Len(p), L),
       total   |-> Len(p),
       digest  |-> Digest(p),
       control |-> IF index = 0 THEN ControlOf(m) ELSE NoControl,
       payload |-> SubSeq(p, start + 1, end)]

Init ==
  /\ limits \in [Ends -> LimitChoices]
  /\ phase = [e \in Ends |-> "start"]
  /\ next = [m \in AllMessages |-> NotSent]
  /\ wire = [e \in Ends |-> <<>>]
  /\ messages = [e \in Ends |-> <<>>]
  /\ incomplete_bytes = [e \in Ends |-> 0]
  /\ received = [e \in Ends |-> <<>>]
  /\ faults = 0

\* HELLO comes first, WELCOME after the limits were found equal.
MayBegin(m) ==
  CASE m = HELLO   -> phase["client"] = "start"
    [] m = WELCOME -> phase["server"] = "open"
    [] OTHER       -> phase[From(m)] = "open" /\ next[WELCOME] = Sent

Sending(e) == {m \in AllMessages : From(m) = e /\ next[m] >= 0}

\* send_message, before the first frame: a message that does not fit is not sent.
Begin(m) ==
  /\ next[m] = NotSent
  /\ MayBegin(m)
  /\ Cardinality(Sending(From(m))) < Lanes
  /\ next' = [next EXCEPT ![m] = IF Fits(Len(Payload(m)), limits[From(m)]) THEN 0 ELSE Sent]
  /\ UNCHANGED <<limits, phase, wire, messages, incomplete_bytes, received, faults>>

SendFrame(m) ==
  LET f == Frame(m, next[m]) IN
  /\ next[m] >= 0
  /\ phase[From(m)] # "closed"
  /\ wire' = [wire EXCEPT ![Peer(From(m))] = Append(@, f)]
  /\ next' = [next EXCEPT ![m] = IF f.index + 1 = f.count THEN Sent ELSE @ + 1]
  /\ UNCHANGED <<limits, phase, messages, incomplete_bytes, received, faults>>

-----------------------------------------------------------------------------
(* Reading: MessageReader.receive and _accept.                             *)

\* The state of a message: from its first frame...
StateOf(e, f) ==
  IF f.id \in DOMAIN messages[e] THEN messages[e][f.id]
  ELSE [count |-> f.count, total |-> f.total, digest |-> f.digest, control |-> f.control,
        next_index |-> 0, data |-> <<>>]

\* ...with which the others must agree.
Agrees(e, f) ==
  LET s == StateOf(e, f) IN
  IF f.id \in DOMAIN messages[e]
  THEN f.count = s.count /\ f.total = s.total /\ f.digest = s.digest /\ f.control = NoControl
  ELSE /\ f.control # NoControl
       /\ Cardinality(DOMAIN messages[e]) < limits[e].incomplete

WithinLimits(e, f) ==
  /\ Len(f.payload) <= limits[e].frame
  /\ f.count <= limits[e].chunks
  /\ f.index < f.count
  /\ f.total <= limits[e].message
  /\ incomplete_bytes[e] + Len(f.payload) <= limits[e].message

\* The message is complete, and complete means whole.
IsLast(f) == f.index + 1 = f.count
IsWhole(s, data) == Len(data) = s.total /\ Digest(data) = s.digest

\* Mutant of Accepts: the digest is not looked at.
AcceptsUndigested(e, f) ==
  LET s == StateOf(e, f)
      data == s.data \o f.payload
  IN  /\ WithinLimits(e, f)
      /\ Agrees(e, f)
      /\ f.index = s.next_index
      /\ Len(data) <= s.total
      /\ IsLast(f) => Len(data) = s.total

Accepts(e, f) ==
  LET s == StateOf(e, f)
      data == s.data \o f.payload
  IN  /\ WithinLimits(e, f)
      /\ Agrees(e, f)
      /\ f.index = s.next_index
      /\ Len(data) <= s.total
      /\ IsLast(f) => IsWhole(s, data)

Keep(e, f) ==
  LET s == StateOf(e, f)
      t == [s EXCEPT !.data = @ \o f.payload]
  IN
  /\ messages' = [messages EXCEPT ![e] =
       [id \in DOMAIN @ \cup {f.id} |->
          IF id = f.id THEN [t EXCEPT !.next_index = @ + 1] ELSE messages[e][id]]]
  /\ incomplete_bytes' = [incomplete_bytes EXCEPT ![e] = @ + Len(f.payload)]
  /\ UNCHANGED received

\* Mutant of Return: only the bytes of the last frame are given back.
ReturnLast(e, f) ==
  LET s == StateOf(e, f) IN
  /\ messages' = [messages EXCEPT ![e] =
       [id \in DOMAIN @ \ {f.id} |-> messages[e][id]]]
  /\ UNCHANGED incomplete_bytes
  /\ received' = [received EXCEPT ![e] =
       Append(@, [id |-> f.id, control |-> s.control, payload |-> s.data \o f.payload])]

Return(e, f) ==
  LET s == StateOf(e, f) IN
  /\ messages' = [messages EXCEPT ![e] =
       [id \in DOMAIN @ \ {f.id} |-> messages[e][id]]]
  /\ incomplete_bytes' = [incomplete_bytes EXCEPT ![e] = @ - Len(s.data)]
  /\ received' = [received EXCEPT ![e] =
       Append(@, [id |-> f.id, control |-> s.control, payload |-> s.data \o f.payload])]

Read(e) ==
  LET f == Head(wire[e]) IN
  /\ phase[e] # "closed"
  /\ wire[e] # <<>>
  /\ Accepts(e, f)
  /\ IF IsLast(f) THEN Return(e, f) ELSE Keep(e, f)
  /\ wire' = [wire EXCEPT ![e] = Tail(@)]
  /\ UNCHANGED <<limits, phase, next, faults>>

\* RemoteProtocolError: the connection is closed; the frame is left for the
\* properties to look at.
Refuse(e) ==
  /\ phase[e] # "closed"
  /\ wire[e] # <<>>
  /\ ~Accepts(e, Head(wire[e]))
  /\ phase' = [phase EXCEPT ![e] = "closed"]
  /\ UNCHANGED <<limits, next, wire, messages, incomplete_bytes, received, faults>>

-----------------------------------------------------------------------------
(* The handshake.                                                          *)

\* The server has HELLO, or the client WELCOME: the limits must be equal, or
\* the connection is given up.
Compare(e, m) ==
  /\ phase[e] = "start"
  /\ received[e] # <<>>
  /\ LET first == Head(received[e])
         equal == first.id = m /\ first.control = <<WireLimits(limits[e])>>
     IN  phase' = [phase EXCEPT ![e] = IF equal THEN "open" ELSE "closed"]
  /\ UNCHANGED <<limits, next, wire, messages, incomplete_bytes, received, faults>>

-----------------------------------------------------------------------------
(* External: frames that are lost, repeated, cut short or altered.         *)

Damaged(f) ==
  IF f.payload = <<>> THEN {}
  ELSE {[f EXCEPT !.payload = Tail(@)], [f EXCEPT !.payload[1] = <<f.id, 0>>]}

Fault(e) ==
  /\ faults < Faults
  /\ \E i \in DOMAIN wire[e] :
       \E frames \in {<<>>, <<wire[e][i], wire[e][i]>>} \cup {<<g>> : g \in Damaged(wire[e][i])} :
         wire' = [wire EXCEPT ![e] =
                    SubSeq(@, 1, i - 1) \o frames \o SubSeq(@, i + 1, Len(@))]
  /\ faults' = faults + 1
  /\ UNCHANGED <<limits, phase, next, messages, incomplete_bytes, received>>

-----------------------------------------------------------------------------
(* The specification.                                                      *)

Next ==
  \/ \E m \in AllMessages : Begin(m) \/ SendFrame(m)
  \/ \E e \in Ends : Read(e) \/ Refuse(e) \/ Fault(e)
  \/ Compare("server", HELLO)
  \/ Compare("client", WELCOME)

Spec == Init /\ [][Next]_vars

-----------------------------------------------------------------------------
(* Safety.                                                                 *)

\* What receive() returns was sent, and all of it: no frame of another message,
\* none lost, repeated or damaged, and with the control data of its own first
\* frame (_protocol.py:363-433).
Whole ==
  \A e \in Ends : \A i \in DOMAIN received[e] :
    LET m == received[e][i] IN
    /\ m.id \in AllMessages
    /\ m.control = ControlOf(m.id)
    /\ m.payload = Payload(m.id)

\* The bytes of unfinished messages that a reader keeps.
Kept(e) ==
  UNION {{id} \X (1 .. Len(messages[e][id].data)) : id \in DOMAIN messages[e]}

\* _incomplete_bytes counts exactly the bytes that unfinished messages hold, so
\* that it neither lets a peer exceed max_message_bytes nor, after many messages,
\* refuses one for bytes that are long gone (_protocol.py:404-424).
Bounded ==
  \A e \in Ends :
    /\ incomplete_bytes[e] = Cardinality(Kept(e))
    /\ incomplete_bytes[e] <= limits[e].message
    /\ Cardinality(DOMAIN messages[e]) <= limits[e].incomplete

\* Ends that have found their limits equal understand each other: a reader
\* refuses a frame of a faultless peer only for want of room that another
\* unfinished message takes, which no sender of this release causes.  The limit
\* on incomplete messages need not be compared (_protocol.py:31-41, 223-234).
NeverRefused ==
  \A e \in Ends :
    /\ faults = 0
    /\ phase[Peer(e)] = "open"
    /\ wire[e] # <<>>
    /\ ~Accepts(e, Head(wire[e]))
    => DOMAIN messages[e] \ {Head(wire[e]).id} # {}

=============================================================================
