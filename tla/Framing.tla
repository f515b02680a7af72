------------------------------- MODULE Framing -------------------------------
(***************************************************************************)
(* One direction of a connection, from bytes to packets.  Three receivers  *)
(* of the code split the same format in three ways:                        *)
(*                                                                         *)
(*   "usbHost"  the reader thread of handle_usb_client, which drops one    *)
(*              byte wherever no header can be decoded;                    *)
(*   "tcpHost"  FramedStream.read_packet, which would give the connection  *)
(*              up, but never meets such a place: a TCP stream begins      *)
(*              with its session;                                          *)
(*   "client"   readPacket of UsbAccessoryTransport and TcpClient, which   *)
(*              slides a window over the bytes up to the magic, does not   *)
(*              look at the version, and throws on a bad length.           *)
(*                                                                         *)
(* A stream over USB may begin with what an earlier session left: the end  *)
(* of a packet its receiver had begun, or the beginning of a packet its    *)
(* sender did not finish.  A header is six bytes here: two of magic,       *)
(* version, type, sequence and length.  As in the 16 bytes of the code,    *)
(* the bytes of the next header may land in the length of a torn one, some *)
(* of them are plausible lengths (version, type) and some are not (magic). *)
(***************************************************************************)
EXTENDS Naturals, Sequences

CONSTANTS
    Magic,       \* ORD_MAGIC, two bytes
    Version,     \* ORD_PROTOCOL_VERSION
    MaxPayload,  \* MAX_PAYLOAD_SIZE
    Contents,    \* type and payload of the packets that are sent
    Count        \* bound: packets in a stream

HeaderSize == 6

ASSUME FormatAssumption ==
    /\ Count \in Nat
    /\ Magic \in [1..2 -> Nat] /\ Version \in Nat /\ MaxPayload \in Nat
    /\ Magic[1] > MaxPayload /\ Magic[2] > MaxPayload
    /\ Magic[1] # Magic[2] /\ Version \notin {Magic[1], Magic[2]}
    /\ \A c \in Contents : /\ c.type \in Nat
                           /\ c.payload \in Seq(Nat)
                           /\ Len(c.payload) <= MaxPayload

VARIABLES
    receiver,  \* which of the three
    leftover,  \* bytes of an earlier session before the first packet
    packets,   \* what is sent: contents, numbered by their place
    fetched,   \* bytes read from the transport so far
    consumed,  \* bytes taken out of the accumulator, or out of rxBuffer
    phase,     \* "magic", "header" or "payload"; the hosts know "header" only
    first,     \* where the reading of the current packet began
    out,       \* the packets handed up, with the place of their first byte
    broken     \* the receiver gave the stream up

streamVars ==
    <<receiver, leftover, packets, fetched, consumed, phase, first, out, broken>>
stream == <<receiver, leftover, packets>>

Encode(c, seq) == Magic \o <<Version, c.type, seq, Len(c.payload)>> \o c.payload

\* The bytes up to the end of packet n, all bytes, and where packet n begins.
BytesUpTo[n \in 0..Count] ==
    IF n = 0 THEN leftover ELSE BytesUpTo[n - 1] \o Encode(packets[n], n)
Bytes == BytesUpTo[Count]
StartOf(n) == Len(BytesUpTo[n - 1])

\* The fields of a header that begins after the first i bytes.
MagicAt(i)   == SubSeq(Bytes, i + 1, i + 2) = Magic
VersionAt(i) == Bytes[i + 3]
LengthAt(i)  == Bytes[i + 6]
EndAt(i)     == i + HeaderSize + LengthAt(i)

\* A packet as it is handed up: its place, header fields and payload.
PacketAt(i) ==
    [at |-> i, type |-> Bytes[i + 4], seq |-> Bytes[i + 5],
     payload |-> SubSeq(Bytes, i + HeaderSize + 1, EndAt(i))]

\* Mutant: a payload of exactly the greatest length is refused.
DecodesShorter(i) == MagicAt(i) /\ VersionAt(i) = Version /\ LengthAt(i) < MaxPayload

\* OrdHeader::decode returns Ok.
Decodes(i) == MagicAt(i) /\ VersionAt(i) = Version /\ LengthAt(i) <= MaxPayload

\* What an earlier session may leave of a packet: its beginning or its end.
Torn(p) ==
    {SubSeq(p, 1, i) : i \in 1..Len(p) - 1} \cup {SubSeq(p, i, Len(p)) : i \in 2..Len(p)}

StreamInit ==
    /\ receiver \in {"usbHost", "tcpHost", "client"}
    /\ leftover \in {<<>>} \cup UNION {Torn(Encode(c, 0)) : c \in Contents}
    /\ receiver = "tcpHost" => leftover = <<>>
    /\ packets \in [1..Count -> Contents]
    /\ fetched = 0 /\ consumed = 0
    /\ phase = IF receiver = "client" THEN "magic" ELSE "header"
    /\ first = 0
    /\ out = <<>>
    /\ broken = FALSE

(***************************************************************************)
(* The receivers                                                           *)
(***************************************************************************)
Available(n) == ~broken /\ fetched - consumed >= n

\* Mutant: the accumulator is made anew for every read.
FetchFresh ==
    /\ ~broken
    /\ fetched' \in (fetched + 1)..Len(Bytes)
    /\ consumed' = IF phase = "header" THEN fetched ELSE consumed
    /\ UNCHANGED <<stream, phase, first, out, broken>>

\* A read returns any number of the bytes that are there.  The hosts read when
\* they can go no further, the client when its buffer is empty; in between
\* more may arrive, which is the same as a longer read.
Fetch ==
    /\ ~broken
    /\ fetched' \in (fetched + 1)..Len(Bytes)
    /\ UNCHANGED <<stream, consumed, phase, first, out, broken>>

\* The packet is handed up and the next one begins after it.
HandUp(i) ==
    /\ out' = Append(out, PacketAt(i))
    /\ consumed' = EndAt(i)
    /\ first' = EndAt(i)
    /\ UNCHANGED <<stream, fetched, broken>>

\* Mutant: a packet is taken only when there is a byte after it.
HostTakeLate ==
    /\ receiver \in {"usbHost", "tcpHost"}
    /\ Available(HeaderSize) /\ Decodes(consumed)
    /\ fetched > EndAt(consumed)
    /\ HandUp(consumed)
    /\ UNCHANGED phase

\* Both hosts: a header that can be decoded and its whole payload are there.
HostTake ==
    /\ receiver \in {"usbHost", "tcpHost"}
    /\ Available(HeaderSize) /\ Decodes(consumed)
    /\ fetched >= EndAt(consumed)
    /\ HandUp(consumed)
    /\ UNCHANGED phase

\* Mutant: a header that cannot be decoded is dropped as a whole.
HostSkipHeader ==
    /\ receiver = "usbHost"
    /\ Available(HeaderSize) /\ ~Decodes(consumed)
    /\ consumed' = consumed + HeaderSize /\ first' = consumed + HeaderSize
    /\ UNCHANGED <<stream, fetched, phase, out, broken>>

\* accumulator.remove(0): a leading byte that begins no header.
HostSkip ==
    /\ receiver = "usbHost"
    /\ Available(HeaderSize) /\ ~Decodes(consumed)
    /\ consumed' = consumed + 1 /\ first' = consumed + 1
    /\ UNCHANGED <<stream, fetched, phase, out, broken>>

\* One byte into the window, which starts empty for every packet.
ClientSlide ==
    /\ phase = "magic" /\ Available(1)
    /\ consumed' = consumed + 1
    /\ phase' = IF consumed' - first >= 2 /\ MagicAt(consumed' - 2) THEN "header" ELSE "magic"
    /\ UNCHANGED <<stream, fetched, first, out, broken>>

\* The rest of the header; the version is read and not compared.
ClientHeader ==
    /\ receiver = "client" /\ phase = "header" /\ Available(HeaderSize - 2)
    /\ consumed' = consumed + HeaderSize - 2
    /\ IF LengthAt(consumed - 2) <= MaxPayload
         THEN phase' = "payload" /\ UNCHANGED broken
         ELSE broken' = TRUE /\ UNCHANGED phase
    /\ UNCHANGED <<stream, fetched, first, out>>

ClientPayload ==
    /\ phase = "payload" /\ Available(LengthAt(consumed - HeaderSize))
    /\ HandUp(consumed - HeaderSize)
    /\ phase' = "magic"

Receiver == HostTake \/ HostSkip \/ ClientSlide \/ ClientHeader \/ ClientPayload

StreamNext == Fetch \/ Receiver

StreamSpec == StreamInit /\ [][StreamNext]_streamVars /\ WF_streamVars(Fetch) /\ WF_streamVars(Receiver)

-----------------------------------------------------------------------------
(* Properties *)

\* The packets in the bytes after i, for a reader that has all of them at once:
\* the shortest way to say what the format means.
PacketsFrom(i) ==
    LET n == Len(Bytes)
        after[k \in 0..n] ==
            IF k + HeaderSize > n THEN <<>>
            ELSE IF IF receiver = "client" THEN MagicAt(k) ELSE Decodes(k)
            THEN IF LengthAt(k) > MaxPayload \/ EndAt(k) > n THEN <<>>
                 ELSE <<PacketAt(k)>> \o after[EndAt(k)]
            ELSE after[k + 1]
    IN  after[i]

\* How the bytes are cut into reads makes no difference: what was handed up and
\* what the rest will yield is at every moment what the whole stream yields, and
\* no byte is used before it is there.
CutsAreInvisible ==
    /\ first <= consumed /\ consumed <= fetched
    /\ out \o PacketsFrom(first) = PacketsFrom(0)

\* p is packet n as it was sent; the number of p, 0 if it never was sent.
Is(p, n) ==
    p = [at |-> StartOf(n), type |-> packets[n].type, seq |-> n, payload |-> packets[n].payload]
NumberOf(p) ==
    IF \E n \in 1..Count : Is(p, n) THEN CHOOSE n \in 1..Count : Is(p, n) ELSE 0

\* The stream as PacketStream sees it: numbers for packets, 0 for what never was
\* sent, and aligned as soon as one of the packets was recognised.
Abstract == INSTANCE PacketStream WITH
    sent     <- Count,
    received <- [i \in 1..Len(out) |-> NumberOf(out[i])],
    aligned  <- leftover = <<>> \/ \E i \in 1..Len(out) : NumberOf(out[i]) # 0

\* Every receiver keeps the promise of PacketStream: with nothing left over it
\* receives what was sent and nothing else, and otherwise it finds the packet
\* boundaries once and for all.
KeepsPromise == Abstract!Safety

\* A receiver that has found the boundaries hands up every packet to the last.
HoldsNothingBack == Abstract!EverythingArrives

\* The price of a leftover: a packet is missing only if its first byte lies in a
\* packet that never was sent, which a torn or chance header announced.
Swallowed(n) ==
    \E i \in 1..Len(out) :
        /\ NumberOf(out[i]) = 0
        /\ out[i].at < StartOf(n)
        /\ StartOf(n) < out[i].at + HeaderSize + Len(out[i].payload)

LostOnlySwallowed ==
    \A n \in 1..Count :
        first > StartOf(n) =>
            \/ \E i \in 1..Len(out) : Is(out[i], n)
            \/ Swallowed(n)

=============================================================================
