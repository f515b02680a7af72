-------------------------- MODULE UsbSessionProofs --------------------------
(***************************************************************************)
(* Whose input a USB session injects, for any capacities and any number of *)
(* sessions, connections and returns of the accessory.  The argument is    *)
(* about order: what a session took last, what it has read and what is     *)
(* still on the bus form one sequence (Whole), in which a packet follows   *)
(* one of its own connection unless it is a HELLO, and the loop ends       *)
(* at every HELLO.                                                         *)
(***************************************************************************)
EXTENDS UsbSession, SequenceTheorems, TLAPS

\* The handler has answered a HELLO and its loop goes on.
Answered == handler \in {"display", "starting", "loop", "pong"}

\* What came from the device, in its order: the HELLO for which the rest of what
\* the session took stands, what is queued, in the reader's hand, and on the bus.
Taken  == IF Answered THEN <<Packet("HELLO", peer)>> ELSE <<>>
Hand   == IF reader[sess] = "sending" THEN <<readHand[sess]>> ELSE <<>>
Coming == IF attached[sess] THEN toHost ELSE <<>>
Queued == usbIn \o (Hand \o Coming)
Whole  == Taken \o Queued

\* A connection begins with its HELLO.
Follows(p, q) == q.type = "HELLO" \/ q.from = p.from
Grouped(s) == \A i \in 1..Len(s) : i < Len(s) => Follows(s[i], s[i + 1])

\* The last packet is of the connection that may send the next one.
Ends(s) == client # "off" /\ s # <<>> => s[Len(s)].from = conn

OrderInv ==
    /\ Grouped(toHost) /\ Ends(toHost)
    /\ handler # "none" => Grouped(Whole)
    /\ handler # "none" /\ attached[sess] => Ends(Whole)

\* A session begins with nothing of another, and the only reader that still gets
\* anything from the bus is that of the last session.
SessionInv ==
    /\ handler = "none" => usbIn = <<>>
    /\ handler \in {"hello", "display"} => usbOut[sess] = <<>>
    /\ Answered => peer \in 1..MaxClients
    /\ client # "off" => conn > 0
    /\ \A s \in SessionIds : attached[s] /\ s # sess => reader[s] \in {"none", "done"}
    /\ \A s \in SessionIds : s > sess => /\ reader[s] = "none" /\ writer[s] = "none"
                                        /\ usbOut[s] = <<>>

IInv == TypeOK /\ SessionInv /\ OrderInv

-----------------------------------------------------------------------------
(* Sequences of packets *)

LEMMA Bounds ==
    /\ InCap \in Nat /\ OutCap \in Nat /\ WireCap \in Nat
    /\ InCap > 0 /\ OutCap > 0 /\ WireCap > 0
    /\ MaxSessions \in Nat /\ MaxClients \in Nat /\ MaxPlugs \in Nat
    /\ ClientTypes \subseteq ToHostTypes
BY CapAssumption DEF ToHostTypes

LEMMA NoPacketIsNone ==
    NoPacket \notin ToHostPackets /\ NoPacket \notin ToClientPackets
BY DEF NoPacket, ToHostPackets, ToClientPackets

(* Taking the first packet away *)
LEMMA GroupedTail ==
    ASSUME NEW S, NEW s \in Seq(S), s # <<>>, Grouped(s)
    PROVE  Grouped(Tail(s)) /\ (Ends(s) => Ends(Tail(s)))
<1>1. /\ Len(s) \in Nat /\ Len(s) >= 1 /\ Tail(s) \in Seq(S) /\ Len(Tail(s)) = Len(s) - 1
      /\ \A i \in 1..Len(s) - 1 : Tail(s)[i] = s[i + 1]
  OBVIOUS
<1>2. ASSUME NEW i \in 1..Len(Tail(s)), i < Len(Tail(s))
      PROVE  Follows(Tail(s)[i], Tail(s)[i + 1])
  <2>1. Tail(s)[i] = s[i + 1] /\ Tail(s)[i + 1] = s[(i + 1) + 1]
    BY <1>1, <1>2
  <2>2. i + 1 \in 1..Len(s) /\ i + 1 < Len(s)
    BY <1>1, <1>2
  <2> QED
    BY <2>1, <2>2 DEF Grouped
<1>3. ASSUME Tail(s) # <<>> PROVE Tail(s)[Len(Tail(s))] = s[Len(s)]
  <2>1. Len(s) - 1 \in 1..Len(s) - 1
    BY <1>1, <1>3
  <2> QED
    BY <1>1, <2>1
<1> QED
  BY <1>2, <1>3 DEF Grouped, Ends

(* A packet is added at the end. *)
LEMMA GroupedAppend ==
    ASSUME NEW S, NEW s \in Seq(S), NEW p \in S, Grouped(s),
           p.type = "HELLO" \/ (s # <<>> => s[Len(s)].from = p.from)
    PROVE  Grouped(Append(s, p))
<1>1. /\ Len(s) \in Nat /\ Len(Append(s, p)) = Len(s) + 1 /\ Append(s, p)[Len(s) + 1] = p
      /\ \A i \in 1..Len(s) : Append(s, p)[i] = s[i]
  OBVIOUS
<1>2. ASSUME NEW i \in 1..Len(Append(s, p)), i < Len(Append(s, p))
      PROVE  Follows(Append(s, p)[i], Append(s, p)[i + 1])
  <2>1. CASE i < Len(s)
    <3>1. Append(s, p)[i] = s[i] /\ Append(s, p)[i + 1] = s[i + 1] /\ i \in 1..Len(s)
      BY <1>1, <2>1
    <3> QED
      BY <2>1, <3>1 DEF Grouped
  <2>2. CASE i = Len(s)
    <3>1. Append(s, p)[i] = s[Len(s)] /\ Append(s, p)[i + 1] = p /\ s # <<>>
      BY <1>1, <2>2
    <3> QED
      BY <3>1 DEF Follows
  <2> QED
    BY <1>1, <1>2, <2>1, <2>2
<1> QED
  BY <1>2 DEF Grouped

(* The beginning of a sequence *)
LEMMA GroupedPrefix ==
    ASSUME NEW S, NEW s \in Seq(S), NEW t \in Seq(S), Grouped(s \o t)
    PROVE  Grouped(s)
<1>1. /\ Len(s) \in Nat /\ Len(t) \in Nat /\ Len(s \o t) = Len(s) + Len(t)
      /\ \A i \in 1..Len(s) : (s \o t)[i] = s[i]
  OBVIOUS
<1>2. ASSUME NEW i \in 1..Len(s), i < Len(s) PROVE Follows(s[i], s[i + 1])
  <2>1. (s \o t)[i] = s[i] /\ (s \o t)[i + 1] = s[i + 1]
    BY <1>1, <1>2
  <2>2. i \in 1..Len(s \o t) /\ i < Len(s \o t)
    BY <1>1, <1>2
  <2> QED
    BY <2>1, <2>2 DEF Grouped
<1> QED
  BY <1>2 DEF Grouped

(* Taking away a packet of the same connection as the one before it *)
LEMMA GroupedSkip ==
    ASSUME NEW S, NEW a \in S, NEW b \in S, NEW t \in Seq(S), b.from = a.from,
           Grouped(<<a>> \o (<<b>> \o t))
    PROVE  /\ Grouped(<<a>> \o t)
           /\ Ends(<<a>> \o (<<b>> \o t)) => Ends(<<a>> \o t)
<1> DEFINE long == <<a>> \o (<<b>> \o t)
           short == <<a>> \o t
<1>1. /\ Len(t) \in Nat /\ Len(short) = Len(t) + 1 /\ short[1] = a
      /\ \A i \in 1..Len(t) : short[i + 1] = t[i]
  OBVIOUS
<1>2. /\ <<b>> \o t \in Seq(S) /\ Len(<<b>> \o t) = Len(t) + 1 /\ (<<b>> \o t)[1] = b
      /\ \A i \in 1..Len(t) : (<<b>> \o t)[i + 1] = t[i]
  OBVIOUS
<1>3. /\ Len(long) = Len(t) + 2 /\ long[1] = a /\ long[2] = b
      /\ \A i \in 1..Len(t) : long[i + 2] = t[i]
  <2>1. /\ Len(long) = 1 + Len(<<b>> \o t) /\ long[1] = a
        /\ \A i \in 1..Len(<<b>> \o t) : long[i + 1] = (<<b>> \o t)[i]
    BY <1>2
  <2>2. ASSUME NEW i \in 1..Len(t) PROVE long[i + 2] = t[i]
    <3>1. i + 1 \in 1..Len(<<b>> \o t) /\ (i + 1) + 1 = i + 2
      BY <1>1, <1>2
    <3> QED
      BY <1>2, <2>1, <3>1
  <2>3. long[2] = b
    BY <1>1, <1>2, <2>1
  <2> QED
    BY <1>1, <1>2, <2>1, <2>2, <2>3
<1> HIDE DEF long, short
<1>4. ASSUME NEW i \in 1..Len(short), i < Len(short) PROVE Follows(short[i], short[i + 1])
  <2>1. CASE i = 1
    <3>1. 2 \in 1..Len(long) /\ 2 < Len(long) /\ long[2 + 1] = t[1] /\ short[1 + 1] = t[1]
      BY <1>1, <1>3, <1>4, <2>1
    <3>2. Follows(b, t[1])
      BY <1>3, <3>1 DEF Grouped, long
    <3> QED
      BY <1>1, <2>1, <3>1, <3>2 DEF Follows
  <2>2. CASE i > 1
    <3>1. /\ i + 1 \in 1..Len(long) /\ i + 1 < Len(long)
          /\ i - 1 \in 1..Len(t) /\ i \in 1..Len(t)
          /\ (i - 1) + 2 = i + 1 /\ i + 2 = (i + 1) + 1 /\ (i - 1) + 1 = i
      BY <1>1, <1>3, <1>4, <2>2
    <3>2. /\ long[i + 1] = t[i - 1] /\ long[(i + 1) + 1] = t[i]
          /\ short[i] = t[i - 1] /\ short[i + 1] = t[i]
      BY <1>1, <1>3, <3>1
    <3>3. Follows(long[i + 1], long[(i + 1) + 1])
      BY <3>1 DEF Grouped, long
    <3> QED
      BY <3>2, <3>3
  <2> QED
    BY <1>1, <2>1, <2>2
<1>5. ASSUME Ends(long) PROVE Ends(short)
  <2>1. CASE Len(t) = 0
    BY <1>1, <1>3, <1>5, <2>1 DEF Ends
  <2>2. CASE Len(t) > 0
    <3>1. Len(t) \in 1..Len(t) /\ long[Len(t) + 2] = t[Len(t)] /\ short[Len(t) + 1] = t[Len(t)]
      BY <1>1, <1>3, <2>2
    <3> QED
      BY <1>1, <1>3, <1>5, <2>2, <3>1 DEF Ends
  <2> QED
    BY <1>1, <2>1, <2>2
<1> QED
  BY <1>4, <1>5 DEF Grouped, long, short

-----------------------------------------------------------------------------
(* Types and SessionInv *)

(* The handler goes on or returns without touching a packet. *)
LEMMA ControlStep ==
    ASSUME TypeOK, SessionInv,
           HelloNone \/ StartPipeline \/ LoopNoFrames \/ CloseStream \/ JoinReader \/ JoinWriter
    PROVE  TypeOK' /\ SessionInv'
<1>1. UNCHANGED <<sess, usbOut, threadVars, busVars, toHost, toClient, clientVars>>
  BY DEF HelloNone, StartPipeline, LoopNoFrames, CloseStream, JoinReader, JoinWriter
<1>2. /\ handler' \in HandlerPcs \ {"hello", "display"}
      /\ handler # "none"
      /\ handler' \in {"starting", "loop", "pong"} => Answered
  BY DEF HelloNone, StartPipeline, LoopNoFrames, CloseStream, JoinReader, JoinWriter,
         Return, HandlerPcs, Answered
<1>3. \/ UNCHANGED <<peer, usbIn>> /\ handler' # "none"
      \/ handler' = "none" /\ peer' = 0 /\ usbIn' = <<>>
  BY DEF HelloNone, StartPipeline, LoopNoFrames, CloseStream, JoinReader, JoinWriter, Return
<1>4. closed' \in [SessionIds -> BOOLEAN]
  BY DEF HelloNone, StartPipeline, LoopNoFrames, CloseStream, JoinReader, JoinWriter, TypeOK
<1>5. usbIn' \in Seq(ToHostPackets) /\ Len(usbIn') <= InCap /\ peer' \in 0..MaxClients
  <2>1. CASE UNCHANGED <<peer, usbIn>>
    BY <2>1 DEF TypeOK
  <2>2. CASE peer' = 0 /\ usbIn' = <<>>
    BY <2>2, Bounds
  <2> QED
    BY <1>3, <2>1, <2>2
<1>6. TypeOK'
  BY <1>1, <1>2, <1>4, <1>5 DEF TypeOK, threadVars, busVars, clientVars
<1>7. SessionInv'
  BY <1>1, <1>2, <1>3 DEF SessionInv, Answered, threadVars, busVars, clientVars
<1> QED
  BY <1>6, <1>7

(* The handler takes a packet. *)
LEMMA TakeStep ==
    ASSUME TypeOK, SessionInv, HelloPacket \/ LoopInput \/ LoopPing \/ LoopEnd
    PROVE  TypeOK' /\ SessionInv'
<1>1. /\ UNCHANGED <<sess, usbOut, threadVars, closed, busVars, toHost, toClient, client, conn>>
      /\ handler \in {"hello", "loop"} /\ usbIn # <<>>
  BY DEF HelloPacket, LoopInput, LoopPing, LoopEnd, clientVars
<1>2. usbIn \in Seq(ToHostPackets) /\ Head(usbIn) \in ToHostPackets /\ Len(usbIn) <= InCap
  BY <1>1 DEF TypeOK
<1>3. /\ Tail(usbIn) \in Seq(ToHostPackets) /\ Len(Tail(usbIn)) <= InCap
      /\ Head(usbIn).from \in 1..MaxClients
  BY <1>1, <1>2, Bounds DEF ToHostPackets
<1>4. /\ handler' \in {"none", "display", "loop", "pong", "closing"}
      /\ handler' = "display" => handler = "hello" /\ peer' = Head(usbIn).from
      /\ handler' \in {"loop", "pong"} => handler = "loop" /\ peer' = peer
      /\ handler' = "none" => usbIn' = <<>> /\ peer' = 0
      /\ handler' = "closing" => peer' = peer
      /\ usbIn' \in {<<>>, Tail(usbIn)}
  BY DEF HelloPacket, LoopInput, LoopPing, LoopEnd, Return
<1>5. restarter' \in 0..MaxClients
  BY <1>3, Bounds DEF HelloPacket, LoopInput, LoopPing, LoopEnd, clientVars, TypeOK
<1>6. usbIn' \in Seq(ToHostPackets) /\ Len(usbIn') <= InCap
  <2>1. <<>> \in Seq(ToHostPackets) /\ Len(<<>>) <= InCap
    BY Bounds
  <2> QED
    BY <1>3, <1>4, <2>1
<1>7. peer' \in 0..MaxClients
  BY <1>3, <1>4, Bounds DEF TypeOK
<1>8. TypeOK'
  <2>1. handler' \in HandlerPcs /\ (handler' # "none" => sess' > 0)
    BY <1>1, <1>4 DEF HandlerPcs, TypeOK
  <2> QED
    BY <1>1, <1>5, <1>6, <1>7, <2>1 DEF TypeOK, threadVars, busVars
<1>9. SessionInv'
  <2>1. Answered' => peer' \in 1..MaxClients
    BY <1>3, <1>4 DEF SessionInv, Answered
  <2>2. handler' \in {"hello", "display"} => usbOut'[sess'] = <<>>
    BY <1>1, <1>4 DEF SessionInv
  <2> QED
    BY <1>1, <1>4, <2>1, <2>2 DEF SessionInv, threadVars, busVars
<1> QED
  BY <1>8, <1>9

(* The handler gives its writer a packet, or finds it gone. *)
LEMMA GiveStep ==
    ASSUME TypeOK, SessionInv, SendAck \/ LoopFrame \/ SendPong
    PROVE  TypeOK' /\ SessionInv'
<1>1. /\ UNCHANGED <<sess, peer, usbIn, threadVars, closed, busVars, toHost, toClient, clientVars>>
      /\ handler \in {"display", "loop", "pong"}
      /\ handler' \in {"starting", "loop", "closing"}
      /\ sess \in SessionIds
  BY DEF SendAck, LoopFrame, SendPong, TypeOK, SessionIds
<1>2. peer \in 1..MaxClients
  BY <1>1 DEF SessionInv, Answered
<1>3. \A t \in ToClientTypes : Packet(t, peer) \in ToClientPackets
  BY <1>2 DEF Packet, ToClientPackets
<1>4. \/ usbOut' = usbOut
      \/ /\ Len(usbOut[sess]) < OutCap
         /\ \E t \in ToClientTypes :
               usbOut' = [usbOut EXCEPT ![sess] = Append(@, Packet(t, peer))]
  <2>1. handler = "display" => Len(usbOut[sess]) < OutCap
    BY <1>1, Bounds DEF SessionInv
  <2> QED
    BY <2>1 DEF SendAck, LoopFrame, SendPong, ToClientTypes
<1>5. usbOut' \in [SessionIds -> Seq(ToClientPackets)]
      /\ \A s \in SessionIds : Len(usbOut'[s]) <= OutCap
  <2>1. CASE usbOut' = usbOut
    BY <2>1 DEF TypeOK
  <2>2. ASSUME NEW t \in ToClientTypes, Len(usbOut[sess]) < OutCap,
               usbOut' = [usbOut EXCEPT ![sess] = Append(@, Packet(t, peer))]
        PROVE  usbOut' \in [SessionIds -> Seq(ToClientPackets)]
               /\ \A s \in SessionIds : Len(usbOut'[s]) <= OutCap
    <3>1. /\ usbOut[sess] \in Seq(ToClientPackets) /\ Packet(t, peer) \in ToClientPackets
          /\ Append(usbOut[sess], Packet(t, peer)) \in Seq(ToClientPackets)
          /\ Len(Append(usbOut[sess], Packet(t, peer))) = Len(usbOut[sess]) + 1
          /\ Len(usbOut[sess]) \in Nat
      BY <1>1, <1>3 DEF TypeOK
    <3> QED
      BY <1>1, <2>2, <3>1, Bounds DEF TypeOK
  <2> QED
    BY <1>4, <2>1, <2>2
<1>6. TypeOK'
  BY <1>1, <1>5 DEF TypeOK, threadVars, busVars, clientVars, HandlerPcs
<1>7. SessionInv'
  <2>1. \A s \in SessionIds : s > sess => usbOut'[s] = <<>>
    <3>1. \A s \in SessionIds : s > sess => usbOut'[s] = usbOut[s]
      BY <1>1, <1>4 DEF TypeOK
    <3> QED
      BY <3>1 DEF SessionInv
  <2> QED
    BY <1>1, <1>2, <2>1 DEF SessionInv, Answered, threadVars, busVars, clientVars
<1> QED
  BY <1>6, <1>7

(* A session starts: what is left of earlier ones cannot read any more. *)
LEMMA StartStep ==
    ASSUME TypeOK, SessionInv, StartSession
    PROVE  TypeOK' /\ SessionInv'
<1>1. /\ UNCHANGED <<peer, usbIn, usbOut, readHand, writeHand, closed, plugged, plugs,
                     toHost, toClient, clientVars>>
      /\ handler = "none" /\ handler' = "hello" /\ sess' = sess + 1 /\ sess < MaxSessions
      /\ reader' = [reader EXCEPT ![sess + 1] = "reading"]
      /\ writer' = [writer EXCEPT ![sess + 1] = "idle"]
      /\ attached' = [attached EXCEPT ![sess + 1] = TRUE]
      /\ \A s \in SessionIds : attached[s] => reader[s] \notin {"reading", "sending"}
  BY DEF StartSession, Held
<1>2. sess \in Nat /\ sess + 1 \in SessionIds /\ sess' \in 0..MaxSessions /\ sess' > 0
  BY <1>1, Bounds DEF TypeOK, SessionIds
<1>3. reader[sess + 1] = "none" /\ writer[sess + 1] = "none" /\ usbOut[sess + 1] = <<>>
  BY <1>2 DEF SessionInv
<1>4. /\ reader' \in [SessionIds -> {"none", "reading", "sending", "done"}]
      /\ writer' \in [SessionIds -> {"none", "idle", "writing", "done"}]
      /\ \A s \in SessionIds : reader'[s] = "sending" <=> reader[s] = "sending"
      /\ \A s \in SessionIds : writer'[s] = "writing" <=> writer[s] = "writing"
  BY <1>1, <1>2, <1>3 DEF TypeOK
<1>5. attached' \in [SessionIds -> BOOLEAN]
  BY <1>1 DEF TypeOK
<1>6. TypeOK'
  BY <1>1, <1>2, <1>4, <1>5 DEF TypeOK, clientVars, HandlerPcs
<1>7. SessionInv'
  <2>1. \A s \in SessionIds : attached'[s] /\ s # sess' => reader'[s] \in {"none", "done"}
    BY <1>1, <1>2, <1>4 DEF TypeOK
  <2>2. \A s \in SessionIds : s > sess' => /\ reader'[s] = "none" /\ writer'[s] = "none"
                                          /\ usbOut'[s] = <<>>
    BY <1>1, <1>2 DEF SessionInv, TypeOK, SessionIds
  <2>3. usbIn' = <<>> /\ usbOut'[sess'] = <<>> /\ ~Answered'
    BY <1>1, <1>3 DEF SessionInv, Answered
  <2> QED
    BY <1>1, <2>1, <2>2, <2>3 DEF SessionInv, clientVars
<1> QED
  BY <1>6, <1>7

(* The reader of session s *)
LEMMA ReaderStep ==
    ASSUME TypeOK, SessionInv, NEW s \in SessionIds, Reader(s)
    PROVE  TypeOK' /\ SessionInv'
<1>1. /\ UNCHANGED <<handler, sess, peer, usbOut, writer, writeHand, busVars, toClient,
                     clientVars>>
      /\ reader[s] \in {"reading", "sending"}
  BY DEF Reader, ReadPacket, SendToHandler, ReaderEnds
<1>2. PICK next \in {"reading", "sending", "done"} : reader' = [reader EXCEPT ![s] = next]
  BY DEF Reader, ReadPacket, SendToHandler, ReaderEnds
<1>3. reader' \in [SessionIds -> {"none", "reading", "sending", "done"}]
      /\ reader'[s] = next /\ \A r \in SessionIds : r # s => reader'[r] = reader[r]
  BY <1>2 DEF TypeOK
<1>4. /\ toHost' \in Seq(ToHostPackets) /\ Len(toHost') <= WireCap
      /\ readHand' \in [SessionIds -> ToHostPackets \cup {NoPacket}]
      /\ \A r \in SessionIds : reader'[r] = "sending" <=> readHand'[r] # NoPacket
  <2>1. CASE ReadPacket(s)
    <3>1. /\ toHost # <<>> /\ toHost \in Seq(ToHostPackets) /\ Head(toHost) \in ToHostPackets
          /\ toHost' = Tail(toHost) /\ Len(toHost) <= WireCap
          /\ readHand' = [readHand EXCEPT ![s] = Head(toHost)]
          /\ reader' = [reader EXCEPT ![s] = "sending"]
      BY <2>1 DEF ReadPacket, TypeOK
    <3>2. toHost' \in Seq(ToHostPackets) /\ Len(toHost') <= WireCap
      BY <3>1, Bounds
    <3>3. Head(toHost) # NoPacket
      BY <3>1, NoPacketIsNone
    <3> QED
      BY <3>1, <3>2, <3>3 DEF TypeOK
  <2>2. CASE SendToHandler(s)
    <3>1. /\ toHost' = toHost /\ readHand' = [readHand EXCEPT ![s] = NoPacket]
          /\ reader'[s] # "sending"
      BY <2>2 DEF SendToHandler, TypeOK
    <3> QED
      BY <1>3, <3>1 DEF TypeOK
  <2>3. CASE ReaderEnds(s)
    <3>1. toHost' = toHost /\ readHand' = readHand /\ reader'[s] = "done" /\ reader[s] = "reading"
      BY <2>3 DEF ReaderEnds, TypeOK
    <3> QED
      BY <1>3, <3>1 DEF TypeOK
  <2> QED
    BY <2>1, <2>2, <2>3 DEF Reader
<1>5. closed' \in [SessionIds -> BOOLEAN]
  BY DEF Reader, ReadPacket, SendToHandler, ReaderEnds, TypeOK
<1>6. usbIn' \in Seq(ToHostPackets) /\ Len(usbIn') <= InCap /\ (handler = "none" => usbIn' = usbIn)
  <2>1. CASE usbIn' = usbIn
    BY <2>1 DEF TypeOK
  <2>2. CASE SendToHandler(s) /\ Serving(s) /\ Len(usbIn) < InCap /\ usbIn' = Append(usbIn, readHand[s])
    <3>1. readHand[s] \in ToHostPackets /\ usbIn \in Seq(ToHostPackets)
      BY <2>2 DEF SendToHandler, TypeOK
    <3> QED
      BY <2>2, <3>1, Bounds DEF Serving
  <2> QED
    BY <2>1, <2>2 DEF Reader, ReadPacket, SendToHandler, ReaderEnds
<1>7. TypeOK'
  BY <1>1, <1>3, <1>4, <1>5, <1>6 DEF TypeOK, busVars, clientVars
<1>8. SessionInv'
  <2>1. \A r \in SessionIds : attached'[r] /\ r # sess' => reader'[r] \in {"none", "done"}
    <3> SUFFICES ASSUME NEW r \in SessionIds, attached'[r], r # sess'
                 PROVE  reader'[r] \in {"none", "done"}
      OBVIOUS
    <3>1. reader[r] \in {"none", "done"}
      BY <1>1 DEF SessionInv, busVars
    <3> QED
      BY <1>1, <1>3, <3>1
  <2>2. \A r \in SessionIds : r > sess => reader'[r] = "none"
    BY <1>1, <1>3 DEF SessionInv
  <2> QED
    BY <1>1, <1>6, <2>1, <2>2 DEF SessionInv, Answered, clientVars
<1> QED
  BY <1>7, <1>8

(* The writer of session s *)
LEMMA WriterStep ==
    ASSUME TypeOK, SessionInv, NEW s \in SessionIds, Writer(s)
    PROVE  TypeOK' /\ SessionInv'
<1>1. /\ UNCHANGED <<handler, sess, peer, usbIn, reader, readHand, busVars, toHost, clientVars>>
      /\ writer[s] \in {"idle", "writing"}
  BY DEF Writer, TakePacket, WritePacket, WriteFails, WriterEnds
<1>2. closed' \in [SessionIds -> BOOLEAN]
  BY DEF Writer, TakePacket, WritePacket, WriteFails, WriterEnds, TypeOK
<1>3. CASE writer' = [writer EXCEPT ![s] = "done"] /\ writeHand' = [writeHand EXCEPT ![s] = NoPacket]
           /\ usbOut' = [usbOut EXCEPT ![s] = <<>>] /\ toClient' = toClient
  <2>1. /\ usbOut' \in [SessionIds -> Seq(ToClientPackets)]
        /\ \A r \in SessionIds : usbOut'[r] \in {usbOut[r], <<>>}
        /\ \A r \in SessionIds : Len(usbOut'[r]) <= OutCap
    BY <1>3, Bounds DEF TypeOK
  <2>2. /\ writer' \in [SessionIds -> {"none", "idle", "writing", "done"}]
        /\ writeHand' \in [SessionIds -> ToClientPackets \cup {NoPacket}]
        /\ \A r \in SessionIds : writer'[r] = "writing" <=> writeHand'[r] # NoPacket
        /\ \A r \in SessionIds : writer[r] = "none" => writer'[r] = "none"
    BY <1>1, <1>3 DEF TypeOK
  <2>3. TypeOK'
    BY <1>1, <1>2, <1>3, <2>1, <2>2 DEF TypeOK, busVars, clientVars
  <2>4. SessionInv'
    <3>1. handler' \in {"hello", "display"} => usbOut'[sess'] = <<>>
      <4>1. handler # "none" => sess \in SessionIds
        BY DEF TypeOK, SessionIds
      <4> QED
        BY <1>1, <2>1, <4>1 DEF SessionInv
    <3> QED
      BY <1>1, <2>1, <2>2, <3>1 DEF SessionInv, Answered, busVars, clientVars
  <2> QED
    BY <2>3, <2>4
<1>4. CASE TakePacket(s) /\ ~closed[s]
  <2>1. /\ usbOut[s] # <<>> /\ usbOut[s] \in Seq(ToClientPackets)
        /\ usbOut' = [usbOut EXCEPT ![s] = Tail(@)]
        /\ writeHand' = [writeHand EXCEPT ![s] = Head(usbOut[s])]
        /\ writer' = [writer EXCEPT ![s] = "writing"]
        /\ UNCHANGED toClient
    BY <1>4 DEF TakePacket, TypeOK
  <2>2. Head(usbOut[s]) \in ToClientPackets /\ Head(usbOut[s]) # NoPacket
    BY <2>1, NoPacketIsNone
  <2>3. Tail(usbOut[s]) \in Seq(ToClientPackets) /\ Len(Tail(usbOut[s])) = Len(usbOut[s]) - 1
    BY <2>1
  <2>4. /\ usbOut' \in [SessionIds -> Seq(ToClientPackets)]
        /\ \A r \in SessionIds : Len(usbOut'[r]) <= OutCap
    BY <2>1, <2>3, Bounds DEF TypeOK
  <2>5. /\ writer' \in [SessionIds -> {"none", "idle", "writing", "done"}]
        /\ writeHand' \in [SessionIds -> ToClientPackets \cup {NoPacket}]
        /\ \A r \in SessionIds : writer'[r] = "writing" <=> writeHand'[r] # NoPacket
    BY <2>1, <2>2 DEF TypeOK
  <2>6. TypeOK'
    BY <1>1, <1>2, <2>1, <2>4, <2>5 DEF TypeOK, busVars, clientVars
  <2>7. SessionInv'
    <3>1. /\ sess # s => usbOut'[sess] = usbOut[sess]
          /\ handler \in {"hello", "display"} => sess # s
      BY <2>1 DEF SessionInv, TypeOK
    <3>2. ASSUME NEW r \in SessionIds, r > sess
          PROVE  writer'[r] = "none" /\ usbOut'[r] = <<>>
      BY <1>1, <2>1, <3>2 DEF SessionInv, TypeOK
    <3> QED
      BY <1>1, <3>1, <3>2 DEF SessionInv, Answered, busVars, clientVars
  <2> QED
    BY <2>6, <2>7
<1>5. CASE WritePacket(s)
  <2>1. /\ usbOut' = usbOut /\ toClient' = Append(toClient, writeHand[s])
        /\ writeHand' = [writeHand EXCEPT ![s] = NoPacket]
        /\ writer' = [writer EXCEPT ![s] = "idle"]
        /\ writer[s] = "writing" /\ Len(toClient) < WireCap
    BY <1>5 DEF WritePacket
  <2>2. writeHand[s] \in ToClientPackets
    BY <2>1 DEF TypeOK
  <2>3. toClient' \in Seq(ToClientPackets) /\ Len(toClient') <= WireCap
    BY <2>1, <2>2, Bounds DEF TypeOK
  <2>4. /\ writer' \in [SessionIds -> {"none", "idle", "writing", "done"}]
        /\ writeHand' \in [SessionIds -> ToClientPackets \cup {NoPacket}]
        /\ \A r \in SessionIds : writer'[r] = "writing" <=> writeHand'[r] # NoPacket
        /\ \A r \in SessionIds : writer[r] = "none" => writer'[r] = "none"
    BY <2>1 DEF TypeOK
  <2>5. TypeOK'
    BY <1>1, <1>2, <2>1, <2>3, <2>4 DEF TypeOK, busVars, clientVars
  <2>6. SessionInv'
    BY <1>1, <2>1, <2>4 DEF SessionInv, Answered, busVars, clientVars
  <2> QED
    BY <2>5, <2>6
<1> QED
  BY <1>3, <1>4, <1>5 DEF Writer, TakePacket, WriteFails, WriterEnds, WriterDone

(* The client and the bus *)
LEMMA ClientStep ==
    ASSUME TypeOK, SessionInv, Client \/ Unplug \/ Plug
    PROVE  TypeOK' /\ SessionInv'
<1>1. UNCHANGED <<handler, sess, peer, usbIn, usbOut, threadVars, closed>>
  BY DEF Client, ClientConnect, ClientReads, ClientSends, ClientLeaves, Unplug, Plug
<1>2. /\ client' \in {"off", "waiting", "streaming"} /\ conn' \in 0..MaxClients
      /\ restarter' = restarter /\ plugged' \in BOOLEAN /\ plugs' \in 0..MaxPlugs
      /\ client' # "off" => conn' > 0
  <2>1. CASE ClientConnect
    BY <2>1, Bounds DEF ClientConnect, busVars, TypeOK
  <2>2. CASE ClientReads
    BY <2>2 DEF ClientReads, busVars, TypeOK, SessionInv
  <2>3. CASE ClientSends
    BY <2>3 DEF ClientSends, busVars, clientVars, TypeOK, SessionInv
  <2>4. CASE ClientLeaves
    BY <2>4 DEF ClientLeaves, busVars, TypeOK
  <2>5. CASE Unplug
    BY <2>5 DEF Unplug, TypeOK
  <2>6. CASE Plug
    BY <2>6, Bounds DEF Plug, clientVars, TypeOK, SessionInv
  <2> QED
    BY <2>1, <2>2, <2>3, <2>4, <2>5, <2>6 DEF Client
<1>3. /\ attached' \in [SessionIds -> BOOLEAN]
      /\ \A s \in SessionIds : attached'[s] => attached[s]
  BY DEF Client, ClientConnect, ClientReads, ClientSends, ClientLeaves, Unplug, Plug,
         busVars, TypeOK
<1>4. toHost' \in Seq(ToHostPackets) /\ Len(toHost') <= WireCap
  <2>1. CASE toHost' = toHost
    BY <2>1 DEF TypeOK
  <2>2. CASE toHost' = <<>>
    BY <2>2, Bounds
  <2>3. ASSUME NEW p \in ToHostPackets, Len(toHost) < WireCap, toHost' = Append(toHost, p)
        PROVE  toHost' \in Seq(ToHostPackets) /\ Len(toHost') <= WireCap
    BY <2>3, Bounds DEF TypeOK
  <2>4. CASE ClientConnect
    <3>1. Packet("HELLO", conn + 1) \in ToHostPackets
      BY <2>4, Bounds DEF ClientConnect, Packet, ToHostPackets, ToHostTypes, TypeOK
    <3> QED
      BY <2>3, <2>4, <3>1 DEF ClientConnect
  <2>5. CASE ClientSends
    <3>1. PICK t \in ClientTypes : toHost' = Append(toHost, Packet(t, conn))
      BY <2>5 DEF ClientSends
    <3>2. conn \in 1..MaxClients
      BY <2>5 DEF ClientSends, TypeOK, SessionInv
    <3>3. Packet(t, conn) \in ToHostPackets
      BY <3>2, Bounds DEF Packet, ToHostPackets
    <3> QED
      BY <2>3, <2>5, <3>1, <3>3 DEF ClientSends
  <2> QED
    BY <2>1, <2>2, <2>4, <2>5 DEF Client, ClientReads, ClientLeaves, Unplug, Plug
<1>5. toClient' \in Seq(ToClientPackets) /\ Len(toClient') <= WireCap
  <2>1. CASE toClient' = toClient
    BY <2>1 DEF TypeOK
  <2>2. CASE toClient' = <<>>
    BY <2>2, Bounds
  <2>3. CASE toClient # <<>> /\ toClient' = Tail(toClient)
    BY <2>3, Bounds DEF TypeOK
  <2> QED
    BY <2>1, <2>2, <2>3 DEF Client, ClientConnect, ClientReads, ClientSends, ClientLeaves,
                            Unplug, Plug
<1>6. TypeOK'
  BY <1>1, <1>2, <1>3, <1>4, <1>5 DEF TypeOK, threadVars
<1>7. SessionInv'
  BY <1>1, <1>2, <1>3 DEF SessionInv, Answered, threadVars
<1> QED
  BY <1>6, <1>7

-----------------------------------------------------------------------------
(* Order *)

(* Sequences put together in different ways *)
LEMMA SplitHead ==
    ASSUME NEW S, NEW s \in Seq(S), NEW t \in Seq(S), s # <<>>
    PROVE  s \o t = <<Head(s)>> \o (Tail(s) \o t)
OBVIOUS

LEMMA MoveFirst ==
    ASSUME NEW S, NEW s \in Seq(S), NEW t \in Seq(S), NEW p \in S
    PROVE  s \o (<<p>> \o t) = Append(s, p) \o (<<>> \o t)
OBVIOUS

LEMMA AppendApart ==
    ASSUME NEW S, NEW s \in Seq(S), NEW t \in Seq(S), NEW p \in S
    PROVE  s \o Append(t, p) = Append(s \o t, p)
OBVIOUS

LEMMA TailOfOne ==
    ASSUME NEW S, NEW s \in Seq(S), NEW p \in S
    PROVE  Tail(<<p>> \o s) = s /\ <<p>> \o s # <<>> /\ <<p>> \o s \in Seq(S)
OBVIOUS

LEMMA Parts ==
    ASSUME TypeOK, SessionInv, handler # "none"
    PROVE  /\ sess \in SessionIds
           /\ Taken \in Seq(ToHostPackets) /\ usbIn \in Seq(ToHostPackets)
           /\ Hand \in Seq(ToHostPackets) /\ Coming \in Seq(ToHostPackets)
           /\ Hand \o Coming \in Seq(ToHostPackets)
           /\ Queued \in Seq(ToHostPackets) /\ Whole \in Seq(ToHostPackets)
           /\ Answered => Packet("HELLO", peer) \in ToHostPackets
<1>1. sess \in SessionIds
  BY DEF TypeOK, SessionIds
<1>2. Answered => Packet("HELLO", peer) \in ToHostPackets
  BY DEF SessionInv, Packet, ToHostPackets, ToHostTypes
<1>3. Taken \in Seq(ToHostPackets)
  BY <1>2 DEF Taken
<1>4. Hand \in Seq(ToHostPackets)
  <2>1. reader[sess] = "sending" => readHand[sess] \in ToHostPackets
    BY <1>1 DEF TypeOK
  <2> QED
    BY <2>1 DEF Hand
<1>5. usbIn \in Seq(ToHostPackets) /\ toHost \in Seq(ToHostPackets)
  BY DEF TypeOK
<1>6. Coming \in Seq(ToHostPackets)
  BY <1>5 DEF Coming
<1>7. Hand \o Coming \in Seq(ToHostPackets)
  BY <1>4, <1>6
<1>8. Queued \in Seq(ToHostPackets)
  BY <1>5, <1>7 DEF Queued
<1>9. Whole \in Seq(ToHostPackets)
  BY <1>3, <1>8 DEF Whole
<1> QED
  BY <1>1, <1>2, <1>3, <1>4, <1>5, <1>6, <1>7, <1>8, <1>9

(* What may happen to Whole when nothing is sent *)
LEMMA OrderKept ==
    ASSUME OrderInv, Grouped(toHost'), Ends(toHost) => Ends(toHost)',
           handler' # "none" => Grouped(Whole'),
           handler' # "none" /\ attached'[sess'] => Ends(Whole)'
    PROVE  OrderInv'
BY DEF OrderInv, Ends, Grouped, Follows

(* A step that leaves Whole and the client as they are, or returns *)
LEMMA OrderSame ==
    ASSUME OrderInv, toHost' = toHost, conn' = conn, client # "off" \/ client' = "off",
           handler' # "none" => /\ handler # "none" /\ Whole' = Whole
                                /\ attached'[sess'] => attached[sess]
    PROVE  OrderInv'
BY DEF OrderInv, Ends, Grouped, Follows

LEMMA SameStep ==
    ASSUME TypeOK, SessionInv, OrderInv,
           \/ HelloNone \/ StartPipeline \/ CloseStream \/ JoinReader \/ JoinWriter
           \/ SendAck \/ SendPong \/ Plug \/ ClientReads \/ ClientLeaves
           \/ \E s \in SessionIds : ReaderEnds(s) \/ Writer(s)
    PROVE  OrderInv'
<1>1. CASE HelloNone \/ StartPipeline \/ CloseStream \/ JoinReader \/ JoinWriter \/ SendAck
           \/ SendPong
  <2>1. /\ UNCHANGED <<toHost, conn, client, sess, attached, reader, readHand>>
        /\ handler # "none"
        /\ handler' # "none" => UNCHANGED <<peer, usbIn>> /\ (Answered' <=> Answered)
    BY <1>1 DEF HelloNone, StartPipeline, CloseStream, JoinReader, JoinWriter, SendAck,
                SendPong, Return, Answered, threadVars, busVars, clientVars
  <2>2. handler' # "none" => Whole' = Whole
    BY <2>1 DEF Whole, Taken, Queued, Hand, Coming, Packet
  <2> QED
    BY <2>1, <2>2, OrderSame
<1>2. CASE Plug \/ ClientReads \/ ClientLeaves \/ \E s \in SessionIds : Writer(s)
  <2>1. /\ UNCHANGED <<toHost, conn, handler, peer, usbIn, sess, attached, reader, readHand>>
        /\ client # "off" \/ client' = "off"
    BY <1>2 DEF Plug, ClientReads, ClientLeaves, Writer, TakePacket, WritePacket, WriteFails,
                WriterEnds, threadVars, busVars, clientVars
  <2>2. Whole' = Whole
    BY <2>1 DEF Whole, Taken, Queued, Hand, Coming, Packet, Answered
  <2> QED
    BY <2>1, <2>2, OrderSame
<1>3. ASSUME NEW s \in SessionIds, ReaderEnds(s) PROVE OrderInv'
  <2>1. /\ UNCHANGED <<toHost, conn, client, handler, peer, usbIn, sess, attached, readHand>>
        /\ reader[s] = "reading" /\ reader' = [reader EXCEPT ![s] = "done"]
    BY <1>3 DEF ReaderEnds, busVars, clientVars
  <2>2. handler # "none" => Hand' = Hand
    BY <2>1, Parts DEF Hand, TypeOK
  <2>3. handler # "none" => Whole' = Whole
    BY <2>1, <2>2 DEF Whole, Taken, Queued, Coming, Packet, Answered
  <2> QED
    BY <2>1, <2>3, OrderSame
<1> QED
  BY <1>1, <1>2, <1>3

(* A session starts with what is on the bus. *)
LEMMA StartOrder == ASSUME TypeOK, SessionInv, OrderInv, StartSession PROVE OrderInv'
<1>1. /\ UNCHANGED <<toHost, conn, client, usbIn>> /\ handler = "none" /\ handler' = "hello"
      /\ sess' = sess + 1
      /\ reader' = [reader EXCEPT ![sess + 1] = "reading"]
      /\ attached' = [attached EXCEPT ![sess + 1] = TRUE]
      /\ sess + 1 \in SessionIds
  BY Bounds DEF StartSession, clientVars, TypeOK, SessionIds
<1>2. Taken' = <<>> /\ usbIn' = <<>> /\ Hand' = <<>> /\ Coming' = toHost
  BY <1>1 DEF Taken, Answered, Hand, Coming, SessionInv, TypeOK
<1>3. toHost \in Seq(ToHostPackets)
  BY DEF TypeOK
<1>4. Whole' = toHost
  BY <1>2, <1>3 DEF Whole, Queued
<1> QED
  BY <1>1, <1>4 DEF OrderInv, Ends, Grouped, Follows

(* The loop ends: the session answers to nobody any more. *)
LEMMA LoopLeaves ==
    ASSUME TypeOK, SessionInv, OrderInv, LoopFrame \/ LoopNoFrames
    PROVE  OrderInv'
<1>1. /\ UNCHANGED <<toHost, conn, client, sess, attached, reader, readHand, peer, usbIn>>
      /\ handler = "loop" /\ handler' \in {"loop", "closing"}
  BY DEF LoopFrame, LoopNoFrames, threadVars, busVars, clientVars
<1>2. CASE handler' = "loop"
  <2>1. Whole' = Whole
    BY <1>1, <1>2 DEF Whole, Taken, Queued, Hand, Coming, Packet, Answered
  <2> QED
    BY <1>1, <1>2, <2>1, OrderSame
<1>3. CASE handler' = "closing"
  <2>1. Queued' = Queued /\ Taken' = <<>> /\ Taken = <<Packet("HELLO", peer)>>
    BY <1>1, <1>3 DEF Taken, Queued, Hand, Coming, Answered
  <2>2. /\ Queued \in Seq(ToHostPackets) /\ Packet("HELLO", peer) \in ToHostPackets
        /\ Whole \in Seq(ToHostPackets)
    BY <1>1, Parts DEF Answered
  <2>3. Whole' = Queued
    BY <2>1, <2>2 DEF Whole
  <2>4. Whole # <<>> /\ Tail(Whole) = Queued
    BY <2>1, <2>2, TailOfOne DEF Whole
  <2>5. Grouped(Queued) /\ (Ends(Whole) => Ends(Queued))
    BY <1>1, <2>2, <2>4, GroupedTail DEF OrderInv
  <2>6. Grouped(Whole') /\ (attached'[sess'] => Ends(Whole)')
    BY <1>1, <2>3, <2>5 DEF OrderInv, Grouped, Ends
  <2> QED
    BY <1>1, <2>6, OrderKept DEF OrderInv, Ends
<1> QED
  BY <1>1, <1>2, <1>3

(* The first packet is a HELLO, which from then on stands for the session. *)
LEMMA HelloOrder == ASSUME TypeOK, SessionInv, OrderInv, HelloPacket PROVE OrderInv'
<1>1. /\ UNCHANGED <<toHost, conn, client, sess, attached, reader, readHand>>
      /\ handler = "hello" /\ usbIn # <<>> /\ handler' \in {"display", "none"}
  BY DEF HelloPacket, Return, threadVars, busVars, clientVars
<1>2. CASE handler' = "display"
  <2>1. /\ Head(usbIn).type = "HELLO" /\ usbIn' = Tail(usbIn) /\ peer' = Head(usbIn).from
        /\ Head(usbIn) \in ToHostPackets
    BY <1>1, <1>2, Parts DEF HelloPacket, Return
  <2>2. Head(usbIn) = Packet("HELLO", peer')
    BY <2>1 DEF ToHostPackets, Packet
  <2>3. /\ Taken = <<>> /\ Taken' = <<Head(usbIn)>> /\ Hand' = Hand /\ Coming' = Coming
    BY <1>1, <1>2, <2>2 DEF Taken, Answered, Hand, Coming
  <2>4. usbIn \o (Hand \o Coming) = <<Head(usbIn)>> \o (Tail(usbIn) \o (Hand \o Coming))
    BY <1>1, Parts, SplitHead
  <2>5. Whole = Queued
    BY <1>1, <2>3, Parts DEF Whole
  <2>6. Whole' = Whole
    BY <2>1, <2>3, <2>4, <2>5 DEF Whole, Queued
  <2> QED
    BY <1>1, <2>6, OrderSame
<1>3. CASE handler' = "none"
  BY <1>1, <1>3, OrderSame
<1> QED
  BY <1>1, <1>2, <1>3

(* In the loop Whole begins with the HELLO answered and the packet to be handled. *)
LEMMA LoopWhole ==
    ASSUME TypeOK, SessionInv, OrderInv, handler = "loop", usbIn # <<>>
    PROVE  /\ Whole = <<Packet("HELLO", peer)>>
                          \o (<<Head(usbIn)>> \o (Tail(usbIn) \o (Hand \o Coming)))
           /\ Head(usbIn) \in ToHostPackets /\ Packet("HELLO", peer) \in ToHostPackets
           /\ Tail(usbIn) \o (Hand \o Coming) \in Seq(ToHostPackets)
           /\ Head(usbIn).type # "HELLO" => Head(usbIn).from = peer
<1>1. /\ usbIn \in Seq(ToHostPackets) /\ Hand \o Coming \in Seq(ToHostPackets)
      /\ Packet("HELLO", peer) \in ToHostPackets /\ Taken = <<Packet("HELLO", peer)>>
  BY Parts DEF Answered, Taken
<1>2. Head(usbIn) \in ToHostPackets /\ Tail(usbIn) \in Seq(ToHostPackets)
  BY <1>1
<1>3. Tail(usbIn) \o (Hand \o Coming) \in Seq(ToHostPackets)
  BY <1>1, <1>2
<1>4. Whole = <<Packet("HELLO", peer)>>
                  \o (<<Head(usbIn)>> \o (Tail(usbIn) \o (Hand \o Coming)))
  BY <1>1, SplitHead DEF Whole, Queued
<1>5. Follows(Packet("HELLO", peer), Head(usbIn))
  <2>1. Whole[1] = Packet("HELLO", peer) /\ Whole[2] = Head(usbIn) /\ Len(Whole) >= 2
    <3>1. PICK t \in Seq(ToHostPackets) : t = Tail(usbIn) \o (Hand \o Coming)
      BY <1>3
    <3>2. PICK a \in ToHostPackets, b \in ToHostPackets :
             a = Packet("HELLO", peer) /\ b = Head(usbIn)
      BY <1>1, <1>2
    <3>3. Whole = <<a>> \o (<<b>> \o t)
      BY <1>4, <3>1, <3>2
    <3> QED
      BY <3>2, <3>3
  <2>2. Grouped(Whole) /\ Len(Whole) \in Nat
    <3>1. Whole \in Seq(ToHostPackets)
      BY Parts
    <3> QED
      BY <3>1 DEF OrderInv
  <2>3. 1 \in 1..Len(Whole) /\ 1 < Len(Whole)
    BY <2>1, <2>2
  <2>4. Follows(Whole[1], Whole[1 + 1])
    BY <2>2, <2>3 DEF Grouped
  <2> QED
    BY <2>1, <2>4
<1> QED
  BY <1>1, <1>2, <1>3, <1>4, <1>5 DEF Follows, Packet

(* A packet of the session is handled and forgotten, or a HELLO ends the loop. *)
LEMMA LoopTakes ==
    ASSUME TypeOK, SessionInv, OrderInv, LoopInput \/ LoopPing \/ LoopEnd
    PROVE  OrderInv'
<1> DEFINE rest == Tail(usbIn) \o (Hand \o Coming)
           hello == Packet("HELLO", peer)
<1>1. /\ UNCHANGED <<toHost, conn, client, sess, attached, reader, readHand, peer>>
      /\ handler = "loop" /\ usbIn # <<>> /\ usbIn' = Tail(usbIn)
      /\ handler' \in {"loop", "pong", "closing"}
      /\ handler' # "closing" => Head(usbIn).type # "HELLO"
  BY DEF LoopInput, LoopPing, LoopEnd, threadVars, busVars, clientVars
<1>2. /\ Whole = <<hello>> \o (<<Head(usbIn)>> \o rest)
      /\ Head(usbIn) \in ToHostPackets /\ hello \in ToHostPackets
      /\ rest \in Seq(ToHostPackets)
      /\ Head(usbIn).type # "HELLO" => Head(usbIn).from = peer
  BY <1>1, LoopWhole
<1>3. Queued' = rest
  BY <1>1 DEF Queued, Hand, Coming
<1>4. hello.from = peer /\ hello' = hello
  BY <1>1 DEF Packet
<1> HIDE DEF rest, hello
<1>5. Grouped(Whole) /\ (attached[sess] => Ends(Whole))
  BY <1>1 DEF OrderInv
<1>6. CASE handler' # "closing"
  <2>1. Whole' = <<hello>> \o rest
    BY <1>1, <1>3, <1>4, <1>6 DEF Whole, Taken, Answered, hello
  <2>2. Head(usbIn).from = hello.from
    BY <1>1, <1>2, <1>4, <1>6
  <2>3. Grouped(<<hello>> \o rest) /\ (Ends(Whole) => Ends(<<hello>> \o rest))
    BY <1>2, <1>5, <2>2, GroupedSkip
  <2>4. Grouped(Whole') /\ (attached'[sess'] => Ends(Whole)')
    BY <1>1, <1>5, <2>1, <2>3 DEF Grouped, Ends
  <2> QED
    BY <1>1, <2>4, OrderKept DEF OrderInv, Ends
<1>7. CASE handler' = "closing"
  <2>1. Whole' = rest
    BY <1>1, <1>2, <1>3, <1>7 DEF Whole, Taken, Answered
  <2>2. /\ <<Head(usbIn)>> \o rest \in Seq(ToHostPackets) /\ <<Head(usbIn)>> \o rest # <<>>
        /\ Tail(<<Head(usbIn)>> \o rest) = rest
    BY <1>2, TailOfOne
  <2>3. Whole \in Seq(ToHostPackets) /\ Whole # <<>> /\ Tail(Whole) = <<Head(usbIn)>> \o rest
    BY <1>2, <2>2, TailOfOne
  <2>4. /\ Grouped(<<Head(usbIn)>> \o rest)
        /\ Ends(Whole) => Ends(<<Head(usbIn)>> \o rest)
    BY <1>5, <2>3, GroupedTail
  <2>5. Grouped(rest) /\ (Ends(Whole) => Ends(rest))
    BY <2>2, <2>4, GroupedTail
  <2>6. Grouped(Whole') /\ (attached'[sess'] => Ends(Whole)')
    BY <1>1, <1>5, <2>1, <2>5 DEF Grouped, Ends
  <2> QED
    BY <1>1, <2>6, OrderKept DEF OrderInv, Ends
<1> QED
  BY <1>1, <1>6, <1>7

(* The reader moves packets on, the one of another session drops what it had. *)
LEMMA ReaderOrder ==
    ASSUME TypeOK, SessionInv, OrderInv, NEW s \in SessionIds, ReadPacket(s) \/ SendToHandler(s)
    PROVE  OrderInv'
<1>1. /\ UNCHANGED <<handler, sess, peer, attached, client, conn>>
      /\ Taken' = Taken
  BY DEF ReadPacket, SendToHandler, busVars, clientVars, Taken, Answered
<1>2. CASE ReadPacket(s)
  <2>1. /\ reader[s] = "reading" /\ attached[s] /\ toHost # <<>> /\ toHost' = Tail(toHost)
        /\ readHand' = [readHand EXCEPT ![s] = Head(toHost)]
        /\ reader' = [reader EXCEPT ![s] = "sending"] /\ usbIn' = usbIn
        /\ toHost \in Seq(ToHostPackets)
    BY <1>2 DEF ReadPacket, TypeOK
  <2>2. s = sess
    BY <2>1 DEF SessionInv
  <2>3. Grouped(Tail(toHost)) /\ Ends(Tail(toHost))
    BY <2>1, GroupedTail DEF OrderInv
  <2>4. /\ Hand = <<>> /\ Coming = toHost
        /\ Hand' = <<Head(toHost)>> /\ Coming' = Tail(toHost)
    BY <1>1, <2>1, <2>2 DEF Hand, Coming, TypeOK
  <2>5. Hand \o Coming = Hand' \o Coming'
    BY <2>1, <2>4
  <2>6. Whole' = Whole
    BY <1>1, <2>1, <2>5 DEF Whole, Queued
  <2>7. Grouped(toHost') /\ Ends(toHost)'
    BY <1>1, <2>1, <2>3 DEF Ends
  <2> QED
    BY <1>1, <2>6, <2>7 DEF OrderInv, Ends, Grouped
<1>3. CASE SendToHandler(s)
  <2>1. /\ UNCHANGED toHost /\ reader[s] = "sending"
        /\ readHand' = [readHand EXCEPT ![s] = NoPacket]
        /\ \E next \in {"done", "reading"} : reader' = [reader EXCEPT ![s] = next]
        /\ \/ Serving(s) /\ usbIn' = Append(usbIn, readHand[s])
           \/ ~Serving(s) /\ usbIn' = usbIn
    BY <1>3 DEF SendToHandler
  <2>2. ASSUME handler # "none" PROVE Whole' = Whole
    <3>1. CASE s = sess
      <4>1. usbIn' = Append(usbIn, readHand[s]) /\ readHand[s] \in ToHostPackets
        BY <2>1, <2>2, <3>1 DEF Serving, TypeOK
      <4>2. Hand = <<readHand[s]>> /\ Hand' = <<>> /\ Coming' = Coming
        BY <1>1, <2>1, <3>1 DEF Hand, Coming, TypeOK
      <4>3. usbIn \in Seq(ToHostPackets) /\ Coming \in Seq(ToHostPackets)
        BY <2>2, Parts
      <4>4. Queued' = Queued
        BY <4>1, <4>2, <4>3, MoveFirst DEF Queued
      <4> QED
        BY <1>1, <4>4 DEF Whole
    <3>2. CASE s # sess
      <4>1. usbIn' = usbIn
        BY <2>1, <3>2 DEF Serving
      <4>2. Hand' = Hand /\ Coming' = Coming
        BY <1>1, <2>1, <2>2, <3>2, Parts DEF Hand, Coming, TypeOK
      <4> QED
        BY <1>1, <4>1, <4>2 DEF Whole, Queued
    <3> QED
      BY <3>1, <3>2
  <2> QED
    BY <1>1, <2>1, <2>2, OrderSame
<1> QED
  BY <1>2, <1>3

(* The client adds a packet at the end. *)
LEMMA SentOrder ==
    ASSUME TypeOK, SessionInv, OrderInv, ClientConnect \/ ClientSends
    PROVE  OrderInv'
<1>1. UNCHANGED <<handler, sess, peer, usbIn, reader, readHand, attached>>
  BY DEF ClientConnect, ClientSends, threadVars, busVars
<1>2. PICK p \in ToHostPackets :
          /\ toHost' = Append(toHost, p) /\ p.from = conn'
          /\ p.type = "HELLO" \/ (client # "off" /\ conn' = conn)
  <2>1. CASE ClientConnect
    <3>1. Packet("HELLO", conn + 1) \in ToHostPackets
      BY <2>1, Bounds DEF ClientConnect, Packet, ToHostPackets, ToHostTypes, TypeOK
    <3>2. Packet("HELLO", conn + 1).type = "HELLO" /\ Packet("HELLO", conn + 1).from = conn + 1
      BY DEF Packet
    <3> QED
      BY <2>1, <3>1, <3>2 DEF ClientConnect
  <2>2. CASE ClientSends
    <3>1. PICK t \in ClientTypes : toHost' = Append(toHost, Packet(t, conn))
      BY <2>2 DEF ClientSends
    <3>2. Packet(t, conn) \in ToHostPackets /\ Packet(t, conn).from = conn
      BY <2>2, Bounds DEF ClientSends, TypeOK, SessionInv, Packet, ToHostPackets
    <3> QED
      BY <2>2, <3>1, <3>2 DEF ClientSends, clientVars
  <2> QED
    BY <2>1, <2>2
<1>3. ASSUME NEW q \in Seq(ToHostPackets), Grouped(q), Ends(q)
      PROVE  Grouped(Append(q, p)) /\ Append(q, p)[Len(Append(q, p))] = p
  <2>1. p.type = "HELLO" \/ (q # <<>> => q[Len(q)].from = p.from)
    BY <1>2, <1>3 DEF Ends
  <2> QED
    BY <1>3, <2>1, GroupedAppend
<1>4. Grouped(toHost') /\ toHost'[Len(toHost')].from = conn'
  <2>1. toHost \in Seq(ToHostPackets) /\ Grouped(toHost) /\ Ends(toHost)
    BY DEF TypeOK, OrderInv
  <2> QED
    BY <1>2, <1>3, <2>1
<1>5. CASE handler # "none" /\ attached[sess]
  <2>1. /\ Taken \in Seq(ToHostPackets) /\ usbIn \in Seq(ToHostPackets)
        /\ Hand \in Seq(ToHostPackets) /\ toHost \in Seq(ToHostPackets)
        /\ Hand \o toHost \in Seq(ToHostPackets) /\ Queued \in Seq(ToHostPackets)
        /\ Whole \in Seq(ToHostPackets) /\ Coming = toHost
    BY <1>5, Parts DEF TypeOK, Coming
  <2>2. Taken' = Taken /\ Hand' = Hand /\ Coming' = Append(toHost, p)
    BY <1>1, <1>2, <1>5 DEF Taken, Hand, Coming, Answered
  <2>3. Hand' \o Coming' = Append(Hand \o toHost, p)
    BY <2>1, <2>2, AppendApart
  <2>4. Queued' = Append(Queued, p)
    <3>1. Queued' = usbIn \o Append(Hand \o toHost, p) /\ Queued = usbIn \o (Hand \o toHost)
      BY <1>1, <2>1, <2>3 DEF Queued
    <3> QED
      BY <2>1, <3>1, AppendApart
  <2>5. Whole' = Append(Whole, p)
    BY <2>1, <2>2, <2>4, AppendApart DEF Whole
  <2>6. Grouped(Whole') /\ Whole'[Len(Whole')].from = conn'
    BY <1>2, <1>3, <1>5, <2>1, <2>5 DEF OrderInv
  <2> QED
    BY <1>4, <2>6 DEF OrderInv, Ends, Grouped
<1>6. CASE handler # "none" /\ ~attached[sess]
  <2>1. Whole' = Whole
    BY <1>1, <1>6 DEF Whole, Taken, Queued, Hand, Coming, Answered
  <2> QED
    BY <1>1, <1>4, <1>6, <2>1 DEF OrderInv, Ends, Grouped
<1>7. CASE handler = "none"
  BY <1>1, <1>4, <1>7 DEF OrderInv, Ends, Grouped
<1> QED
  BY <1>5, <1>6, <1>7

(* What the session has read stays, the rest is lost. *)
LEMMA UnplugOrder == ASSUME TypeOK, SessionInv, OrderInv, Unplug PROVE OrderInv'
<1>1. /\ UNCHANGED <<handler, sess, peer, usbIn, reader, readHand>>
      /\ toHost' = <<>> /\ client' = "off" /\ attached' = [s \in SessionIds |-> FALSE]
  BY DEF Unplug, threadVars
<1>2. ASSUME handler # "none" PROVE Grouped(Whole')
  <2>1. /\ Taken \in Seq(ToHostPackets) /\ usbIn \in Seq(ToHostPackets)
        /\ Hand \in Seq(ToHostPackets) /\ Coming \in Seq(ToHostPackets) /\ sess \in SessionIds
    BY <1>2, Parts
  <2>2. Taken' = Taken /\ Hand' = Hand /\ Coming' = <<>>
    BY <1>1, <2>1 DEF Taken, Hand, Coming, Answered
  <2>3. Whole' = (Taken \o usbIn) \o Hand
    BY <1>1, <2>1, <2>2 DEF Whole, Queued
  <2>4. Whole = ((Taken \o usbIn) \o Hand) \o Coming
    BY <2>1 DEF Whole, Queued
  <2>5. (Taken \o usbIn) \o Hand \in Seq(ToHostPackets)
    BY <2>1
  <2>6. Grouped((Taken \o usbIn) \o Hand)
    BY <1>2, <2>1, <2>4, <2>5, GroupedPrefix DEF OrderInv
  <2> QED
    BY <2>3, <2>6
<1> QED
  BY <1>1, <1>2 DEF OrderInv, Ends, Grouped

-----------------------------------------------------------------------------
(* The invariant *)

LEMMA InitIInv == Init => IInv
<1> SUFFICES ASSUME Init PROVE IInv
  OBVIOUS
<1>1. /\ usbIn \in Seq(ToHostPackets) /\ Len(usbIn) <= InCap
      /\ toHost \in Seq(ToHostPackets) /\ Len(toHost) <= WireCap
      /\ toClient \in Seq(ToClientPackets) /\ Len(toClient) <= WireCap
      /\ usbOut \in [SessionIds -> Seq(ToClientPackets)]
      /\ \A s \in SessionIds : Len(usbOut[s]) <= OutCap
  BY Bounds DEF Init
<1>2. /\ handler \in HandlerPcs /\ handler = "none"
      /\ sess \in 0..MaxSessions /\ peer \in 0..MaxClients /\ plugs \in 0..MaxPlugs
      /\ conn \in 0..MaxClients /\ restarter \in 0..MaxClients
      /\ client \in {"off", "waiting", "streaming"}
  BY Bounds DEF Init, HandlerPcs
<1>3. plugged \in BOOLEAN /\ closed \in [SessionIds -> BOOLEAN]
      /\ attached \in [SessionIds -> BOOLEAN]
  BY DEF Init
<1>4. /\ reader \in [SessionIds -> {"none", "reading", "sending", "done"}]
      /\ readHand \in [SessionIds -> ToHostPackets \cup {NoPacket}]
      /\ \A s \in SessionIds : reader[s] = "sending" <=> readHand[s] # NoPacket
      /\ writer \in [SessionIds -> {"none", "idle", "writing", "done"}]
      /\ writeHand \in [SessionIds -> ToClientPackets \cup {NoPacket}]
      /\ \A s \in SessionIds : writer[s] = "writing" <=> writeHand[s] # NoPacket
  BY DEF Init
<1>5. TypeOK
  BY <1>1, <1>2, <1>3, <1>4 DEF TypeOK
<1>6. SessionInv
  BY DEF Init, SessionInv, Answered
<1>7. OrderInv
  BY DEF Init, OrderInv, Grouped, Ends
<1> QED
  BY <1>5, <1>6, <1>7 DEF IInv

LEMMA NextIInv == IInv /\ [Next]_vars => IInv'
<1> SUFFICES ASSUME IInv, [Next]_vars PROVE IInv'
  OBVIOUS
<1> USE DEF IInv
<1>1. CASE UNCHANGED vars
  <2>1. Whole' = Whole
    BY <1>1 DEF vars, Whole, Taken, Queued, Hand, Coming, Packet, Answered
  <2> QED
    BY <1>1, <2>1, OrderSame DEF vars, TypeOK, SessionInv, Answered
<1>2. CASE HelloNone \/ StartPipeline \/ CloseStream \/ JoinReader \/ JoinWriter
  BY <1>2, ControlStep, SameStep
<1>3. CASE LoopNoFrames
  BY <1>3, ControlStep, LoopLeaves
<1>4. CASE SendAck \/ SendPong
  BY <1>4, GiveStep, SameStep
<1>5. CASE LoopFrame
  BY <1>5, GiveStep, LoopLeaves
<1>6. CASE HelloPacket
  BY <1>6, TakeStep, HelloOrder
<1>7. CASE LoopInput \/ LoopPing \/ LoopEnd
  BY <1>7, TakeStep, LoopTakes
<1>8. CASE StartSession
  BY <1>8, StartStep, StartOrder
<1>9. ASSUME NEW s \in SessionIds, Reader(s) PROVE IInv'
  <2>1. TypeOK' /\ SessionInv'
    BY <1>9, ReaderStep
  <2>2. CASE ReaderEnds(s)
    BY <2>1, <2>2, SameStep
  <2>3. CASE ReadPacket(s) \/ SendToHandler(s)
    BY <2>1, <2>3, ReaderOrder
  <2> QED
    BY <1>9, <2>2, <2>3 DEF Reader
<1>10. ASSUME NEW s \in SessionIds, Writer(s) PROVE IInv'
  BY <1>10, WriterStep, SameStep
<1>11. CASE ClientReads \/ ClientLeaves \/ Plug
  BY <1>11, ClientStep, SameStep DEF Client
<1>12. CASE ClientConnect \/ ClientSends
  BY <1>12, ClientStep, SentOrder DEF Client
<1>13. CASE Unplug
  BY <1>13, ClientStep, UnplugOrder
<1> QED
  BY <1>1, <1>2, <1>3, <1>4, <1>5, <1>6, <1>7, <1>8, <1>9, <1>10, <1>11, <1>12, <1>13
     DEF Next, Handler, Client

LEMMA Invariance == Spec => []IInv
BY InitIInv, NextIInv, PTL DEF Spec

-----------------------------------------------------------------------------
(* The theorems *)

(* Types, queues within their capacities, and what a thread has in its hand. *)
THEOREM TypeCorrect == Spec => []TypeOK
<1>1. IInv => TypeOK
  BY DEF IInv
<1> QED
  BY <1>1, Invariance, PTL

(* A session injects only the input of the connection whose HELLO it answered,       *)
(* whatever earlier connections left on the bus, in a reader's hand or in usb_in, and *)
(* whichever HELLO_ACK made the client send.                                          *)
THEOREM OnlyPeerInput == Spec => InputFromPeer
<1>1. ASSUME IInv, LoopInput PROVE Head(usbIn).from = peer
  <2>1. handler = "loop" /\ usbIn # <<>> /\ Head(usbIn).type # "HELLO"
    BY <1>1 DEF LoopInput
  <2> QED
    BY <1>1, <2>1, LoopWhole DEF IInv
<1>2. IInv /\ [Next]_vars => [LoopInput => Head(usbIn).from = peer]_vars
  BY <1>1
<1> QED
  BY <1>2, Invariance, PTL DEF Spec, InputFromPeer

=============================================================================
