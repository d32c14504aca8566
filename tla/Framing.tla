------------------------------ MODULE Framing -------------------------------
(***************************************************************************)
(* From the radio of one gateway to the processes and to the radios of the *)
(* others.  Each open XBeeGateway has one thread: it takes the bytes that  *)
(* have arrived into a buffer, tries to read one frame from the buffer,    *)
(* dispatches its packet to the topics of inbound and outbound packets,    *)
(* and then drains its own queue of the outbound topic to the radio.       *)
(*                                                                         *)
(* The bytes are kept, because what can go wrong is a boundary: a frame is *)
(* a delimiter, a length of two bytes, the payload and a checksum.  A byte *)
(* is a number below 2 * Half.  The payload keeps its first byte, the type *)
(* of the frame; one byte that stands for the receive options, the profile *)
(* and the endpoint; and a body.  The gateways stay connected: Gateways    *)
(* has their connections.                                                  *)
(***************************************************************************)
EXTENDS Integers, Sequences, SequencesExt

CONSTANTS
  Gateways,     \* the ids of the gateways
  Talking,      \* those whose modules send
  Half,         \* half of the values of a byte, 128 in the code
  Delimiter,    \* the byte that starts a frame
  RxType,       \* the type of the frames that a gateway reads
  Payloads,     \* the payloads that the modules send
  Noise,        \* the values that a damaged byte, or one of noise, may have
  MaxSent,      \* bound: the frames sent to each gateway
  MaxIssued,    \* bound: the packets that the processes send
  MaxDamage     \* bound: the bytes that the line damages or adds

Controller == 1
Everyone   == 0
Byte       == 2 * Half
Bytes      == 0 .. Byte - 1

ASSUME GatewaysAssumption ==
  Talking \subseteq Gateways /\ Gateways \subseteq Nat \ {Everyone, Controller}
ASSUME HalfAssumption == Half \in Nat /\ Half >= 2
ASSUME BytesAssumption ==
  /\ {Delimiter, RxType} \cup Noise \subseteq Bytes
  /\ Payloads \subseteq Seq(Bytes)
  /\ \A p \in Payloads : Len(p) < Byte * Byte
ASSUME BoundsAssumption ==
  MaxSent \in Nat /\ MaxIssued \in Nat /\ MaxDamage \in Nat

VARIABLES
  wire,       \* the bytes on their way to each gateway
  buffer,     \* the bytes that a gateway keeps between two reads
  pc,         \* what the thread of a gateway does next
  inbound,    \* the packets that each gateway sent to the inbound topic
  topic,      \* the packets of the outbound topic
  taken,      \* how many of them each gateway has received
  radio,      \* the packets that each gateway has written
  offered,    \* history: the packets that came whole, from each source
  astray,     \* history: whether a byte went wrong where no reader recovers
  sent,       \* the frames sent to each gateway
  damage      \* the bytes damaged or added

line == <<wire, offered, astray, sent, damage>>
vars == <<line, buffer, pc, inbound, topic, taken, radio>>

Sources == Gateways \cup {Controller}
Packet  == [from : Sources, to : Gateways \cup {Everyone, Controller},
            body : Seq(Bytes)]
-----------------------------------------------------------------------------
\* The frames, as the modules write them and as the gateway reads them.

\* The sum of bytes, of which a frame keeps the lowest eight bits.
Sum(s) ==
  LET total[k \in 0 .. Len(s)] ==
        IF k = 0 THEN 0 ELSE (total[k - 1] + s[k]) % Byte
  IN total[Len(s)]

\* The frame of a payload.
Frame(p) ==
  <<Delimiter, Len(p) \div Byte, Len(p) % Byte>> \o p
    \o <<Byte - 1 - Sum(p)>>

Length(b)  == b[2] * Byte + b[3]
Payload(b) == SubSeq(b, 4, 3 + Length(b))

\* What the payload must hold: 19 bytes in the code, or 20 with a command.
Overhead == 2

Delimited(b) == b # <<>> /\ Head(b) = Delimiter
Complete(b)  == Delimited(b) /\ Len(b) >= 3 /\ Len(b) >= 4 + Length(b)
Sound(b)     == Sum(SubSeq(b, 4, 4 + Length(b))) = Byte - 1
Typed(p)     == p # <<>> /\ p[1] = RxType
Readable(b)  == Complete(b) /\ Sound(b) /\ Typed(Payload(b))

\* The second byte of a payload: a broadcast to a port that is, or is not,
\* one of management.  Everything else is for the controller.
Broadcast == 1
Unported  == 2

Convert(g, p) ==
  [from |-> g,
   to   |-> IF p[2] = Broadcast THEN Everyone ELSE Controller,
   body |-> SubSeq(p, 3, Len(p))]

\* The packets that a frame of this payload is to become.
Packets(g, p) ==
  IF Typed(p) /\ Len(p) >= Overhead /\ p[2] # Unported
  THEN <<Convert(g, p)>> ELSE <<>>

\* A byte of a Java array is signed.
Signed(x) == IF x < Half THEN x ELSE x - Byte

From(b, n) == SubSeq(b, n + 1, Len(b))

\* Mutant: all that has arrived is dropped with the frame.
DiscardedAll(b) == <<>>

\* What is left of a buffer after its first frame is refused.  The bytes of
\* the length are read from an array, with their sign: a negative number of
\* bytes is an exception, and then the buffer has already been emptied.
Discarded(b) ==
  LET n == 4 + Signed(b[2]) * Byte + Signed(b[3])
  IN IF n < 0 THEN <<>> ELSE From(b, n)
-----------------------------------------------------------------------------
Init ==
  /\ wire = [g \in Gateways |-> <<>>]
  /\ buffer = [g \in Gateways |-> <<>>]
  /\ pc = [g \in Gateways |-> "in"]
  /\ inbound = [g \in Gateways |-> <<>>]
  /\ topic = <<>>
  /\ taken = [g \in Gateways |-> 0]
  /\ radio = [g \in Gateways |-> <<>>]
  /\ offered = [s \in Sources |-> <<>>]
  /\ astray = FALSE
  /\ sent = [g \in Gateways |-> 0]
  /\ damage = 0

\* The modules and the line.

Transmit(g, bytes) ==
  /\ sent[g] < MaxSent
  /\ sent' = [sent EXCEPT ![g] = @ + 1]
  /\ wire' = [wire EXCEPT ![g] = @ \o bytes]
  /\ UNCHANGED <<buffer, pc, inbound, topic, taken, radio>>

\* Whether a reader finds the end of a frame that it refuses: both bytes of
\* its length have the sign that they have in an array.
Skippable(p) == Len(p) \div Byte < Half /\ Len(p) % Byte < Half

\* Whether a reader finds the frame after that of p.  One of another type
\* is skipped, one that is too short is read for ever.
Passable(p) ==
  IF Typed(p) THEN Len(p) >= Overhead ELSE Skippable(p)

\* A module of the network of g sends a frame, which comes whole.
SendWhole(g) ==
  \E p \in Payloads :
    /\ Transmit(g, Frame(p))
    /\ offered' = [offered EXCEPT ![g] = @ \o Packets(g, p)]
    /\ astray' = (astray \/ ~Passable(p))
    /\ UNCHANGED damage

\* Whether a reader finds the frame after f, of which byte i was damaged:
\* the delimiter, and there is no other in the frame; or the payload or the
\* checksum, and the frame is skipped.  A damaged length is believed.
Harmless(p, f, i) ==
  \/ i = 1 /\ \A k \in 2 .. Len(f) : f[k] # Delimiter
  \/ i > 3 /\ Skippable(p)

SendDamaged(g) ==
  \E p \in Payloads, x \in Noise :
    LET f == Frame(p)
    IN \E i \in DOMAIN f :
         /\ damage < MaxDamage /\ x # f[i]
         /\ Transmit(g, [f EXCEPT ![i] = x])
         /\ damage' = damage + 1
         /\ astray' = (astray \/ ~Harmless(p, f, i))
         /\ UNCHANGED offered

\* A byte of noise between two frames.
SendNoise(g) ==
  \E x \in Noise :
    /\ damage < MaxDamage
    /\ Transmit(g, <<x>>)
    /\ damage' = damage + 1
    /\ astray' = (astray \/ x = Delimiter)
    /\ UNCHANGED offered

\* A process sends a packet to a gateway, or to every one.
Issue ==
  \E to \in Gateways \cup {Everyone} :
    LET packet == [from |-> Controller, to |-> to, body |-> <<>>]
    IN /\ Len(offered[Controller]) < MaxIssued
       /\ topic' = Append(topic, packet)
       /\ offered' = [offered EXCEPT ![Controller] = Append(@, packet)]
       /\ UNCHANGED <<wire, buffer, pc, inbound, taken, radio, astray, sent,
                      damage>>
-----------------------------------------------------------------------------
\* The thread of a gateway.

\* What a read makes of b, the buffer with the bytes that have arrived.  The
\* second half of the loop comes next, with rest in the buffer.
Turn(g, rest) ==
  /\ buffer' = [buffer EXCEPT ![g] = rest]
  /\ pc' = [pc EXCEPT ![g] = "out"]

\* There is no byte, or not yet a whole frame.
ReadIncomplete(g, b) ==
  /\ b = <<>> \/ (Delimited(b) /\ ~Complete(b))
  /\ Turn(g, b)
  /\ UNCHANGED inbound

\* The first byte starts no frame: it is pruned.
Prune(g, b) ==
  /\ b # <<>> /\ ~Delimited(b)
  /\ Turn(g, Tail(b))
  /\ UNCHANGED inbound

\* The checksum fails, or the type is another.
Discard(g, b) ==
  /\ Complete(b) /\ ~Readable(b)
  /\ Turn(g, Discarded(b))
  /\ UNCHANGED inbound

\* The payload is too short: an array of negative size, before any byte of
\* the buffer is counted as read.  The frame stays.
ReadShort(g, b) ==
  /\ Readable(b) /\ Len(Payload(b)) < Overhead
  /\ Turn(g, b)
  /\ UNCHANGED inbound

\* Mutant: the refusal is caught too early, and something is dispatched.
RefuseLate(g, b) ==
  /\ Readable(b) /\ Len(Payload(b)) >= Overhead
  /\ Payload(b)[2] = Unported
  /\ buffer' = [buffer EXCEPT ![g] = From(b, 4 + Length(b))]
  /\ pc' = [pc EXCEPT ![g] = "dispatch"]
  /\ UNCHANGED inbound

\* A broadcast to another port is refused after the frame was read.
Refuse(g, b) ==
  /\ Readable(b) /\ Len(Payload(b)) >= Overhead
  /\ Payload(b)[2] = Unported
  /\ Turn(g, From(b, 4 + Length(b)))
  /\ UNCHANGED inbound

\* Mutant: the frame stays in the buffer.
AcceptKeeping(g, b) ==
  /\ Readable(b) /\ Packets(g, Payload(b)) # <<>>
  /\ inbound' = [inbound EXCEPT ![g] = @ \o Packets(g, Payload(b))]
  /\ buffer' = [buffer EXCEPT ![g] = b]
  /\ pc' = [pc EXCEPT ![g] = "dispatch"]

\* A packet: the processes are told.
Accept(g, b) ==
  /\ Readable(b) /\ Packets(g, Payload(b)) # <<>>
  /\ inbound' = [inbound EXCEPT ![g] = @ \o Packets(g, Payload(b))]
  /\ buffer' = [buffer EXCEPT ![g] = From(b, 4 + Length(b))]
  /\ pc' = [pc EXCEPT ![g] = "dispatch"]

\* Mutant: only what is for the controller is dispatched to the others.
DispatchDirect(g) ==
  /\ pc[g] = "dispatch"
  /\ topic' = IF Last(inbound[g]).to = Everyone THEN topic
              ELSE Append(topic, Last(inbound[g]))
  /\ pc' = [pc EXCEPT ![g] = "out"]
  /\ UNCHANGED <<line, buffer, inbound, taken, radio>>

\* The packet goes to the other gateways as well.
Dispatch(g) ==
  /\ pc[g] = "dispatch"
  /\ topic' = Append(topic, Last(inbound[g]))
  /\ pc' = [pc EXCEPT ![g] = "out"]
  /\ UNCHANGED <<line, buffer, inbound, taken, radio>>

\* Mutant: the source is not looked at.
WantedBack(g, packet) == packet.to \in {g, Everyone}

Wanted(g, packet) == packet.from # g /\ packet.to \in {g, Everyone}

\* The second half: the next packet of the topic is written, if it is for
\* this gateway and of another source.
Write(g) ==
  /\ pc[g] = "out"
  /\ taken[g] < Len(topic)
  /\ taken' = [taken EXCEPT ![g] = @ + 1]
  /\ radio' = IF Wanted(g, topic[taken[g] + 1])
              THEN [radio EXCEPT ![g] = Append(@, topic[taken[g] + 1])]
              ELSE radio
  /\ UNCHANGED <<line, buffer, pc, inbound, topic>>

\* There is none for 250 ms: the loop starts again.
Drained(g) ==
  /\ pc[g] = "out"
  /\ taken[g] = Len(topic)
  /\ pc' = [pc EXCEPT ![g] = "in"]
  /\ UNCHANGED <<line, buffer, inbound, topic, taken, radio>>

\* The first half of the loop.  Of the bytes on their way n have arrived, at
\* least one if there are any.
HandleInbound(g) ==
  /\ pc[g] = "in"
  /\ \E n \in (IF wire[g] = <<>> THEN {0} ELSE 1 .. Len(wire[g])) :
       LET b == buffer[g] \o SubSeq(wire[g], 1, n)
       IN /\ wire' = [wire EXCEPT ![g] = From(@, n)]
          /\ \/ ReadIncomplete(g, b)
             \/ Prune(g, b)
             \/ Discard(g, b)
             \/ ReadShort(g, b)
             \/ Refuse(g, b)
             \/ Accept(g, b)
  /\ UNCHANGED <<topic, taken, radio, offered, astray, sent, damage>>

HandleOutbound(g) == Write(g) \/ Drained(g)

Run(g) == HandleInbound(g) \/ Dispatch(g) \/ HandleOutbound(g)

Next ==
  \/ \E g \in Talking : SendWhole(g) \/ SendDamaged(g) \/ SendNoise(g)
  \/ Issue
  \/ \E g \in Gateways : Run(g)

Spec == Init /\ [][Next]_vars

\* The threads of the gateways run on, and the bytes of the line arrive.
FairSpec == Spec /\ \A g \in Gateways : WF_vars(Run(g))
-----------------------------------------------------------------------------
\* Every variable keeps its type, no gateway is ahead of the topic, and one
\* that dispatches has a packet to dispatch.
TypeOK ==
  /\ wire \in [Gateways -> Seq(Bytes)]
  /\ buffer \in [Gateways -> Seq(Bytes)]
  /\ pc \in [Gateways -> {"in", "dispatch", "out"}]
  /\ inbound \in [Gateways -> Seq(Packet)]
  /\ topic \in Seq(Packet)
  /\ taken \in [Gateways -> 0 .. Len(topic)]
  /\ radio \in [Gateways -> Seq(Packet)]
  /\ offered \in [Sources -> Seq(Packet)]
  /\ astray \in BOOLEAN
  /\ sent \in [Gateways -> 0 .. MaxSent]
  /\ damage \in 0 .. MaxDamage
  /\ \A g \in Gateways : pc[g] = "dispatch" => inbound[g] # <<>>

\* Whatever pieces the bytes come in, and whatever is damaged where a reader
\* recovers, the packets that the processes get from a gateway are those
\* that were sent to it whole: none is lost, made up, repeated or out of
\* order.
InOrder ==
  astray \/ \A g \in Gateways : IsPrefix(inbound[g], offered[g])

\* They get them all: no damage that a reader recovers from, and no frame of
\* another kind, stops a gateway.
Received ==
  []~astray => \A g \in Gateways : <>[](inbound[g] = offered[g])

\* The packets of a sequence that are in a set, in their order.
Filter(packets, S) ==
  LET kept[k \in 0 .. Len(packets)] ==
        IF k = 0 THEN <<>>
        ELSE IF packets[k] \in S THEN Append(kept[k - 1], packets[k])
        ELSE kept[k - 1]
  IN kept[Len(packets)]

Of(s, packets) == Filter(packets, {p \in Packet : p.from = s})

\* What gateway g owes its network of the packets of source s.
Due(g, s) ==
  Filter(offered[s], {p \in Packet : s # g /\ p.to \in {g, Everyone}})

\* Whatever the threads of the gateways do meanwhile, what a gateway has
\* written of each source is a part of what it owes: nothing comes back to
\* the network that it is from, or out of the order of its source, or twice.
RelayedInOrder ==
  astray \/ \A g \in Gateways, s \in Sources :
              IsPrefix(Of(s, radio[g]), Due(g, s))

\* From the module of one network to the radio of another, or from a process
\* to a radio: what is for a gateway is at last written by it, once, in the
\* order of its source, and nothing else is, its own packets least of all.
Relayed ==
  []~astray =>
    \A g \in Gateways, s \in Sources : <>[](Of(s, radio[g]) = Due(g, s))
=============================================================================
