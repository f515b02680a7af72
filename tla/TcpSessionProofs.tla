-------------------------- MODULE TcpSessionProofs --------------------------
(***************************************************************************)
(* What TcpSession keeps of the byte streams, for any capacities and any   *)
(* number of packets: nothing that the client sent is lost, doubled or     *)
(* reordered by a cancelled read, and nothing that the host writes is cut  *)
(* off by the next packet, whichever branch of select! comes next.         *)
(***************************************************************************)
EXTENDS TcpSession, SequenceTheorems, TLAPS

Active == client \in {"waiting", "streaming"}

\* The stream to the host in its two parts, and how much of it was sent: no packet
\* can be complete before the client began it.
InputInv ==
    /\ \A i \in 1..Len(readBuf) : readBuf[i] = 2 * taken + i
    /\ \A i \in 1..Len(toHost) : toHost[i] = 2 * taken + Len(readBuf) + i
    /\ sent <= 2 * Begun
    /\ 2 * taken + Len(readBuf) + Len(toHost) <= sent
    /\ Active => sent = 2 * taken + Len(readBuf) + Len(toHost)

\* A handler that is not writing owes a client that is there nothing.
OutputInv ==
    /\ Active => Following(toClient, got)
    /\ Active => got + Len(toClient) + unwritten = 2 * packets
    /\ Active /\ pc \notin {"write", "returned", "killed"} => unwritten = 0
    /\ pc = "write" => packets >= 1

IInv == TypeOK /\ InputInv /\ OutputInv

LEMMA Capacities == ChanCap \in Nat /\ WireCap \in Nat /\ ChanCap > 0 /\ WireCap > 0
BY CapAssumption

(* Two numbered pieces that fit make one numbered sequence. *)
LEMMA Joined ==
    ASSUME NEW s \in Seq(Nat), NEW t \in Seq(Nat), NEW n \in Nat,
           \A i \in 1..Len(s) : s[i] = n + i,
           \A i \in 1..Len(t) : t[i] = n + Len(s) + i
    PROVE  Following(s \o t, n)
<1>1. Len(s \o t) = Len(s) + Len(t) /\ Len(s) \in Nat /\ Len(t) \in Nat
  OBVIOUS
<1>2. ASSUME NEW i \in 1..Len(s \o t) PROVE (s \o t)[i] = n + i
  <2>1. CASE i <= Len(s)
    BY <1>1, <2>1
  <2>2. CASE i > Len(s)
    <3>1. (s \o t)[i] = t[i - Len(s)] /\ i - Len(s) \in 1..Len(t)
      BY <1>1, <2>2
    <3> QED
      BY <1>1, <3>1
  <2> QED
    BY <1>1, <2>1, <2>2
<1> QED
  BY <1>2 DEF Following

(* What is left of a sequence after its first m - 1 elements. *)
LEMMA Suffix ==
    ASSUME NEW s \in Seq(Nat), NEW m \in 1..Len(s) + 1
    PROVE  /\ SubSeq(s, m, Len(s)) \in Seq(Nat)
           /\ Len(SubSeq(s, m, Len(s))) = Len(s) - m + 1
           /\ \A i \in 1..Len(s) - m + 1 : SubSeq(s, m, Len(s))[i] = s[m + i - 1]
<1>1. SubSeq(s, m, Len(s)) \in Seq(Nat)
  OBVIOUS
<1>2. Len(SubSeq(s, m, Len(s))) = Len(s) - m + 1
  OBVIOUS
<1>3. \A i \in 1..Len(s) - m + 1 : SubSeq(s, m, Len(s))[i] = s[m + i - 1]
  OBVIOUS
<1> QED
  BY <1>1, <1>2, <1>3

LEMMA InitIInv == Init => IInv
<1> SUFFICES ASSUME Init PROVE IInv
  OBVIOUS
<1>1. TypeOK
  <2>1. kinds \in Seq(InKinds) /\ toHost \in Seq(Nat) /\ readBuf \in Seq(Nat)
        /\ toClient \in Seq(Nat) /\ Len(toHost) = 0 /\ Len(toClient) = 0
    BY DEF Init
  <2>2. frames \in 0..ChanCap /\ Len(toHost) <= WireCap /\ Len(toClient) <= WireCap
    BY <2>1, Capacities DEF Init
  <2> QED
    <3>1. /\ sent \in Nat /\ taken \in Nat /\ packets \in Nat /\ got \in Nat
          /\ unwritten \in 0..2
      BY DEF Init
    <3>2. pc \in Pcs /\ writing \in OutKinds
      BY DEF Init, Pcs, OutKinds
    <3>3. /\ client \in {"waiting", "streaming", "closed", "vanished"}
          /\ pipe \in {"none", "playing", "broken", "stopped"}
          /\ mode \in {"mutter", "test"}
          /\ display \in {"none", "held", "stopped", "dropped"}
      BY DEF Init
    <3>4. conn \in BOOLEAN /\ monitor \in BOOLEAN
      BY DEF Init
    <3> QED
      BY <2>1, <2>2, <3>1, <3>2, <3>3, <3>4 DEF TypeOK
<1>2. InputInv
  BY DEF Init, InputInv, Begun
<1>3. OutputInv
  BY DEF Init, OutputInv, Following
<1> QED
  BY <1>1, <1>2, <1>3 DEF IInv

-----------------------------------------------------------------------------
(* Input *)

(* The counting part of InputInv, without its quantifiers. *)
LEMMA Counts ==
    ASSUME TypeOK, InputInv
    PROVE  /\ sent \in Nat /\ taken \in Nat
           /\ Len(readBuf) \in Nat /\ Len(toHost) \in Nat /\ Len(kinds) \in Nat
           /\ sent <= 2 * (taken + Len(kinds))
           /\ 2 * taken + Len(readBuf) + Len(toHost) <= sent
           /\ Active => sent = 2 * taken + Len(readBuf) + Len(toHost)
BY DEF TypeOK, InputInv, Begun

LEMMA InputUntouched ==
    ASSUME InputInv, UNCHANGED inVars, Active' => Active PROVE InputInv'
BY DEF InputInv, inVars, Begun

LEMMA ReadMoreStep ==
    ASSUME TypeOK, InputInv, ReadMore
    PROVE  InputInv' /\ readBuf' \in Seq(Nat) /\ toHost' \in Seq(Nat)
           /\ Len(toHost') <= WireCap
<1>1. PICK n \in 1..Len(toHost) :
          /\ readBuf' = readBuf \o SubSeq(toHost, 1, n)
          /\ toHost' = SubSeq(toHost, n + 1, Len(toHost))
  BY DEF ReadMore
<1>2. UNCHANGED <<kinds, sent, taken, client>>
  BY DEF ReadMore
<1>3. /\ readBuf \in Seq(Nat) /\ toHost \in Seq(Nat) /\ Len(toHost) \in Nat
      /\ Len(readBuf) \in Nat /\ taken \in Nat
  BY DEF TypeOK
<1>4. /\ SubSeq(toHost, 1, n) \in Seq(Nat) /\ Len(SubSeq(toHost, 1, n)) = n
      /\ \A i \in 1..n : SubSeq(toHost, 1, n)[i] = toHost[i]
  BY <1>3
<1>5. /\ Len(toHost') = Len(toHost) - n
      /\ \A i \in 1..Len(toHost) - n : toHost'[i] = toHost[n + i]
  BY <1>1, <1>3
<1>6. /\ Len(readBuf') = Len(readBuf) + n
      /\ \A i \in 1..Len(readBuf) : readBuf'[i] = readBuf[i]
      /\ \A i \in 1..n : readBuf'[Len(readBuf) + i] = toHost[i]
  BY <1>1, <1>3, <1>4
<1>7. ASSUME NEW i \in 1..Len(readBuf') PROVE readBuf'[i] = 2 * taken' + i
  <2>1. CASE i <= Len(readBuf)
    BY <1>2, <1>3, <1>6, <2>1 DEF InputInv
  <2>2. CASE i > Len(readBuf)
    <3>1. i - Len(readBuf) \in 1..n /\ Len(readBuf) + (i - Len(readBuf)) = i
      BY <1>3, <1>6, <2>2
    <3>2. readBuf'[i] = toHost[i - Len(readBuf)]
      BY <1>6, <3>1
    <3>3. toHost[i - Len(readBuf)] = 2 * taken + Len(readBuf) + (i - Len(readBuf))
      BY <1>3, <3>1 DEF InputInv
    <3> QED
      BY <1>2, <1>3, <3>1, <3>2, <3>3
  <2> QED
    BY <1>3, <1>6, <2>1, <2>2
<1>8. \A i \in 1..Len(toHost') : toHost'[i] = 2 * taken' + Len(readBuf') + i
  <2> SUFFICES ASSUME NEW i \in 1..Len(toHost')
               PROVE  toHost'[i] = 2 * taken' + Len(readBuf') + i
    OBVIOUS
  <2>1. toHost'[i] = toHost[n + i] /\ n + i \in 1..Len(toHost)
    BY <1>3, <1>5
  <2>2. toHost[n + i] = 2 * taken + Len(readBuf) + (n + i)
    BY <2>1 DEF InputInv
  <2> QED
    BY <1>2, <1>3, <1>6, <2>1, <2>2
<1>9. Len(readBuf') + Len(toHost') = Len(readBuf) + Len(toHost)
  BY <1>3, <1>5, <1>6
<1>10. /\ sent' <= 2 * Begun'
       /\ 2 * taken' + Len(readBuf') + Len(toHost') <= sent'
       /\ Active' => sent' = 2 * taken' + Len(readBuf') + Len(toHost')
  <2>1. 2 * taken' + Len(readBuf') + Len(toHost') = 2 * taken + Len(readBuf) + Len(toHost)
    BY <1>2, <1>3, <1>5, <1>6
  <2>2. Begun' = taken + Len(kinds) /\ (Active' => Active)
    BY <1>2 DEF Begun, Active
  <2> QED
    BY <1>2, <2>1, <2>2, Counts
<1>11. readBuf' \in Seq(Nat)
  BY <1>1, <1>3, <1>4
<1>12. toHost' \in Seq(Nat) /\ Len(toHost') <= WireCap
  <2>1. n + 1 \in 1..Len(toHost) + 1
    BY <1>3
  <2>2. Len(toHost) <= WireCap
    BY DEF TypeOK
  <2> QED
    BY <1>1, <1>3, <1>5, <2>1, <2>2, Suffix, Capacities
<1> QED
  BY <1>7, <1>8, <1>10, <1>11, <1>12 DEF InputInv

(* A complete packet is one that the client began. *)
LEMMA CompleteIsBegun == ASSUME TypeOK, InputInv, Complete PROVE kinds # <<>>
BY DEF TypeOK, InputInv, Complete, Begun

LEMMA TakeStep ==
    ASSUME TypeOK, InputInv, NEW kind, Take(kind), UNCHANGED client
    PROVE  InputInv' /\ kinds' \in Seq(InKinds) /\ readBuf' \in Seq(Nat) /\ taken' \in Nat
<1>1. /\ readBuf \in Seq(Nat) /\ Len(readBuf) \in Nat /\ Len(readBuf) >= 2 /\ taken \in Nat
      /\ kinds \in Seq(InKinds) /\ kinds # <<>> /\ toHost' = toHost /\ sent' = sent
      /\ taken' = taken + 1
  BY CompleteIsBegun DEF TypeOK, Take, Complete
<1>2. /\ readBuf' \in Seq(Nat) /\ Len(readBuf') = Len(readBuf) - 2
      /\ \A i \in 1..Len(readBuf) - 2 : readBuf'[i] = readBuf[2 + i]
  <2>1. readBuf' = SubSeq(readBuf, 3, Len(readBuf))
    BY DEF Take
  <2>2. 3 \in 1..Len(readBuf) + 1
    BY <1>1
  <2>3. /\ readBuf' \in Seq(Nat)
        /\ Len(readBuf') = Len(readBuf) - 3 + 1
        /\ \A i \in 1..Len(readBuf) - 3 + 1 : readBuf'[i] = readBuf[3 + i - 1]
    BY <1>1, <2>1, <2>2, Suffix
  <2>4. Len(readBuf') = Len(readBuf) - 2
    BY <1>1, <2>3
  <2>5. ASSUME NEW i \in 1..Len(readBuf) - 2 PROVE readBuf'[i] = readBuf[2 + i]
    <3>1. i \in 1..Len(readBuf) - 3 + 1 /\ 3 + i - 1 = 2 + i
      BY <1>1
    <3> QED
      BY <2>3, <3>1
  <2> QED
    BY <2>3, <2>4, <2>5
<1>3. kinds' \in Seq(InKinds) /\ Len(kinds') = Len(kinds) - 1 /\ Len(kinds) \in Nat
  BY <1>1 DEF Take
<1>4. ASSUME NEW i \in 1..Len(readBuf') PROVE readBuf'[i] = 2 * taken' + i
  <2>1. readBuf'[i] = readBuf[2 + i] /\ 2 + i \in 1..Len(readBuf)
    BY <1>1, <1>2
  <2>2. readBuf[2 + i] = 2 * taken + (2 + i)
    BY <2>1 DEF InputInv
  <2> QED
    BY <1>1, <2>1, <2>2
<1>5. \A i \in 1..Len(toHost') : toHost'[i] = 2 * taken' + Len(readBuf') + i
  BY <1>1, <1>2 DEF InputInv, TypeOK
<1>6. /\ sent' <= 2 * Begun'
      /\ 2 * taken' + Len(readBuf') + Len(toHost') <= sent'
      /\ Active' => sent' = 2 * taken' + Len(readBuf') + Len(toHost')
  <2>1. Begun' = taken + Len(kinds) /\ (Active' => Active)
    BY <1>1, <1>3, Counts DEF Begun, Active
  <2>2. 2 * taken' + Len(readBuf') + Len(toHost') = 2 * taken + Len(readBuf) + Len(toHost)
    BY <1>1, <1>2, Counts
  <2> QED
    BY <1>1, <2>1, <2>2, Counts
<1> QED
  BY <1>1, <1>2, <1>3, <1>4, <1>5, <1>6 DEF InputInv

LEMMA SendStep ==
    ASSUME TypeOK, InputInv, ClientSends
    PROVE  InputInv' /\ kinds' \in Seq(InKinds) /\ toHost' \in Seq(Nat)
           /\ Len(toHost') <= WireCap
<1>1. /\ kinds \in Seq(InKinds) /\ toHost \in Seq(Nat) /\ sent \in Nat /\ taken \in Nat
      /\ Len(readBuf) \in Nat /\ Len(toHost) \in Nat /\ Len(kinds) \in Nat /\ Active
  BY DEF TypeOK, ClientSends, Active
<1>2. /\ toHost' \in Seq(Nat) /\ Len(toHost') = Len(toHost) + 1
      /\ \A i \in 1..Len(toHost) : toHost'[i] = toHost[i]
      /\ toHost'[Len(toHost) + 1] = sent + 1
  BY <1>1 DEF ClientSends
<1>3. /\ kinds' \in Seq(InKinds)
      /\ \/ sent = 2 * Begun /\ Len(kinds') = Len(kinds) + 1
         \/ sent < 2 * Begun /\ kinds' = kinds
  <2>1. NextKinds \subseteq InKinds
    BY CapAssumption DEF NextKinds, InKinds
  <2>2. CASE sent = 2 * Begun /\ \E kind \in NextKinds : kinds' = Append(kinds, kind)
    <3>1. PICK kind \in InKinds : kinds' = Append(kinds, kind)
      BY <2>1, <2>2
    <3> QED
      BY <1>1, <2>2, <3>1
  <2>3. CASE sent < 2 * Begun /\ kinds' = kinds
    BY <1>1, <2>3
  <2> QED
    BY <2>2, <2>3 DEF ClientSends
<1>4. sent = 2 * taken + Len(readBuf) + Len(toHost)
  BY <1>1 DEF InputInv
<1>5. \A i \in 1..Len(toHost') : toHost'[i] = 2 * taken + Len(readBuf) + i
  <2> SUFFICES ASSUME NEW i \in 1..Len(toHost')
               PROVE  toHost'[i] = 2 * taken + Len(readBuf) + i
    OBVIOUS
  <2>1. CASE i = Len(toHost) + 1
    BY <1>1, <1>2, <1>4, <2>1
  <2>2. CASE i \in 1..Len(toHost)
    BY <1>1, <1>2, <2>2 DEF InputInv
  <2> QED
    BY <1>1, <1>2, <2>1, <2>2
<1>6. UNCHANGED <<readBuf, taken, client>> /\ sent' = sent + 1
  BY DEF ClientSends
<1>7. sent' <= 2 * Begun'
  BY <1>1, <1>3, <1>6 DEF Begun
<1>8. InputInv'
  BY <1>1, <1>2, <1>4, <1>5, <1>6, <1>7 DEF InputInv, Active
<1>9. Len(toHost') <= WireCap
  BY <1>1, <1>2, Capacities DEF ClientSends
<1> QED
  BY <1>2, <1>3, <1>8, <1>9

LEMMA LeaveStep == ASSUME TypeOK, InputInv, ClientLeaves PROVE InputInv'
<1>1. toHost' = toHost \/ toHost' = <<>>
  BY DEF ClientLeaves
<1>2. ~Active' /\ UNCHANGED <<kinds, sent, readBuf, taken>>
  BY DEF ClientLeaves, Active
<1> QED
  BY <1>1, <1>2 DEF InputInv, TypeOK, Begun

-----------------------------------------------------------------------------
(* Output *)

(* The counting part of OutputInv. *)
LEMMA OutCounts ==
    ASSUME TypeOK, OutputInv
    PROVE  /\ packets \in Nat /\ unwritten \in 0..2 /\ got \in Nat /\ Len(toClient) \in Nat
           /\ Active => got + Len(toClient) + unwritten = 2 * packets
BY DEF TypeOK, OutputInv

(* What writes nothing may do to the handler *)
LEMMA OutputUntouched ==
    ASSUME OutputInv, UNCHANGED outVars, Active' => Active,
           \/ pc' = pc
           \/ pc' \in {"returned", "killed"}
           \/ pc' # "write" /\ (Active => unwritten = 0)
    PROVE  OutputInv'
BY DEF OutputInv, outVars, Following

LEMMA BeginWriteStep ==
    ASSUME TypeOK, OutputInv, NEW what, BeginWrite(what), UNCHANGED <<toClient, got, client>>,
           Active => unwritten = 0
    PROVE  OutputInv'
<1>1. packets \in Nat /\ got \in Nat /\ Len(toClient) \in Nat /\ unwritten \in 0..2
  BY DEF TypeOK
<1>2. /\ pc' = "write" /\ packets' = packets + 1 /\ unwritten' = 2
      /\ UNCHANGED <<toClient, got, client>>
  BY DEF BeginWrite
<1>3. Active' => Following(toClient', got')
  BY <1>2 DEF OutputInv, Following, Active
<1>4. Active' => got' + Len(toClient') + unwritten' = 2 * packets'
  <2>1. Active => got + Len(toClient) = 2 * packets
    BY <1>1 DEF OutputInv
  <2> QED
    BY <1>1, <1>2, <2>1 DEF Active
<1> QED
  BY <1>1, <1>2, <1>3, <1>4 DEF OutputInv

LEMMA WriteChunkStep ==
    ASSUME TypeOK, OutputInv, WriteChunk
    PROVE  OutputInv' /\ toClient' \in Seq(Nat) /\ Len(toClient') <= WireCap
<1>1. /\ toClient \in Seq(Nat) /\ Len(toClient) \in Nat /\ got \in Nat /\ packets \in Nat
      /\ unwritten \in 1..2
  BY DEF TypeOK, WriteChunk
<1>2. 2 * packets - unwritten + 1 \in Nat
  <2>1. packets >= 1
    BY DEF TypeOK, WriteChunk, OutputInv
  <2> QED
    BY <1>1, <2>1
<1>3. /\ toClient' \in Seq(Nat) /\ Len(toClient') = Len(toClient) + 1
      /\ \A i \in 1..Len(toClient) : toClient'[i] = toClient[i]
      /\ toClient'[Len(toClient) + 1] = 2 * packets - unwritten + 1
  BY <1>1, <1>2 DEF WriteChunk
<1>4. UNCHANGED <<pc, packets, got, client>> /\ unwritten' = unwritten - 1 /\ pc = "write"
  BY DEF WriteChunk
<1>5. Active => Following(toClient', got')
  <2> SUFFICES ASSUME Active, NEW i \in 1..Len(toClient') PROVE toClient'[i] = got' + i
    BY DEF Following
  <2>1. CASE i = Len(toClient) + 1
    BY <1>3, <1>4, <2>1, OutCounts
  <2>2. CASE i \in 1..Len(toClient)
    BY <1>1, <1>3, <1>4, <2>2 DEF OutputInv, Following
  <2> QED
    BY <1>1, <1>3, <2>1, <2>2
<1>6. OutputInv'
  <2>1. Active' => Active
    BY <1>4 DEF Active
  <2>2. Active => got' + Len(toClient') + unwritten' = 2 * packets'
    BY <1>3, <1>4, OutCounts
  <2> QED
    BY <1>4, <1>5, <2>1, <2>2 DEF OutputInv
<1> QED
  BY <1>1, <1>3, <1>6, Capacities DEF WriteChunk

LEMMA ClientReadsStep ==
    ASSUME TypeOK, OutputInv, ClientReads
    PROVE  OutputInv' /\ toClient' \in Seq(Nat) /\ Len(toClient') <= WireCap /\ got' \in Nat
<1>1. /\ toClient \in Seq(Nat) /\ toClient # <<>> /\ Len(toClient) \in Nat /\ got \in Nat
      /\ packets \in Nat /\ unwritten \in 0..2 /\ Active
  BY DEF TypeOK, ClientReads, Active
<1>2. /\ toClient' \in Seq(Nat) /\ Len(toClient') = Len(toClient) - 1
      /\ \A i \in 1..Len(toClient) - 1 : toClient'[i] = toClient[i + 1]
      /\ got' = toClient[1] /\ 1 \in 1..Len(toClient)
  BY <1>1 DEF ClientReads
<1>3. got' = got + 1
  BY <1>1, <1>2 DEF OutputInv, Following
<1>4. Following(toClient', got')
  BY <1>1, <1>2, <1>3 DEF OutputInv, Following
<1>5. UNCHANGED <<pc, packets, unwritten>>
  BY DEF ClientReads
<1>6. OutputInv'
  <2>1. got' + Len(toClient') + unwritten' = 2 * packets'
    <3>1. Len(toClient') = Len(toClient) - 1
      BY <1>2
    <3> QED
      BY <1>1, <1>3, <1>5, <3>1, OutCounts
  <2> QED
    BY <1>1, <1>4, <1>5, <2>1 DEF OutputInv
<1> QED
  BY <1>1, <1>2, <1>3, <1>6, Capacities DEF TypeOK

-----------------------------------------------------------------------------
(* The invariant: the handler's steps that read nothing *)

LEMMA SilentStep ==
    ASSUME IInv, HelloFails \/ HandshakeFails \/ Build \/ StopPipeline \/ DestroyDisplay
                 \/ Finish \/ Kill \/ LoopReadFails \/ LoopWriteFails
                 \/ PushFrame \/ PipelineBreaks \/ MutterReaps
    PROVE  IInv'
<1> USE DEF IInv
<1>1. UNCHANGED <<inVars, outVars, client>>
  BY DEF HelloFails, HandshakeFails, Build, StopPipeline, DestroyDisplay, Finish, Kill,
         LoopReadFails, LoopWriteFails, PushFrame, PipelineBreaks, MutterReaps, vars
<1>2. /\ pc' \in Pcs
      /\ \/ pc' = pc
         \/ pc' \in {"returned", "killed"}
         \/ pc' # "write" /\ (Active => unwritten = 0)
  BY DEF HelloFails, HandshakeFails, Build, StopPipeline, DestroyDisplay, Finish, Kill,
         LoopReadFails, LoopWriteFails, PushFrame, PipelineBreaks, MutterReaps,
         TypeOK, OutputInv, Active, Broken, Reading, Pcs
<1>3. frames' \in 0..ChanCap
  <2>1. CASE PushFrame
    BY <2>1, Capacities DEF PushFrame, TypeOK
  <2>2. CASE ~PushFrame
    BY <2>2 DEF HelloFails, HandshakeFails, Build, StopPipeline, DestroyDisplay, Finish,
                Kill, LoopReadFails, LoopWriteFails, PipelineBreaks, MutterReaps, TypeOK
  <2> QED
    BY <2>1, <2>2
<1>4. /\ pipe' \in {"none", "playing", "broken", "stopped"}
      /\ mode' \in {"mutter", "test"}
      /\ display' \in {"none", "held", "stopped", "dropped"}
  BY DEF HelloFails, HandshakeFails, Build, StopPipeline, DestroyDisplay, Finish, Kill,
         LoopReadFails, LoopWriteFails, PushFrame, PipelineBreaks, MutterReaps,
         Drop, displayVars, TypeOK
<1>5. conn' \in BOOLEAN /\ monitor' \in BOOLEAN
  BY DEF HelloFails, HandshakeFails, Build, StopPipeline, DestroyDisplay, Finish, Kill,
         LoopReadFails, LoopWriteFails, PushFrame, PipelineBreaks, MutterReaps,
         Drop, displayVars, TypeOK
<1>6. TypeOK'
  BY <1>1, <1>2, <1>3, <1>4, <1>5 DEF TypeOK, inVars, outVars
<1>7. InputInv'
  BY <1>1, InputUntouched DEF Active
<1>8. OutputInv'
  BY <1>1, <1>2, OutputUntouched DEF Active
<1> QED
  BY <1>6, <1>7, <1>8

(* The steps with which the handler writes, but for those that answer a packet *)
LEMMA BeginStep ==
    ASSUME IInv, Create \/ HandshakeWritten \/ LoopFrame \/ LoopWritten
    PROVE  IInv'
<1> USE DEF IInv
<1>1. UNCHANGED <<inVars, toClient, got, client>>
  BY DEF Create, HandshakeWritten, LoopFrame, LoopWritten
<1>2. /\ pc' \in Pcs /\ writing' \in OutKinds
      /\ \/ \E what \in OutKinds : BeginWrite(what)
         \/ UNCHANGED outVars /\ pc' # "write" /\ unwritten = 0
  BY DEF Create, HandshakeWritten, LoopFrame, LoopWritten, BeginWrite, Pcs, OutKinds,
         outVars, TypeOK
<1>3. packets' \in Nat /\ unwritten' \in 0..2
  BY <1>2 DEF BeginWrite, outVars, TypeOK
<1>4. frames' \in 0..ChanCap
  BY Capacities DEF Create, HandshakeWritten, LoopFrame, LoopWritten, TypeOK
<1>5. /\ pipe' \in {"none", "playing", "broken", "stopped"}
      /\ mode' \in {"mutter", "test"}
      /\ display' \in {"none", "held", "stopped", "dropped"}
  BY DEF Create, HandshakeWritten, LoopFrame, LoopWritten, displayVars, TypeOK
<1>6. conn' \in BOOLEAN /\ monitor' \in BOOLEAN
  BY DEF Create, HandshakeWritten, LoopFrame, LoopWritten, displayVars, TypeOK
<1>7. TypeOK'
  BY <1>1, <1>2, <1>3, <1>4, <1>5, <1>6 DEF TypeOK, inVars
<1>8. InputInv'
  BY <1>1, InputUntouched DEF Active
<1>9. OutputInv'
  <2>1. CASE UNCHANGED outVars /\ pc' # "write" /\ unwritten = 0
    BY <1>1, <2>1, OutputUntouched DEF Active
  <2>2. CASE \E what \in OutKinds : BeginWrite(what)
    <3>1. Active => unwritten = 0
      BY DEF Create, HandshakeWritten, LoopFrame, LoopWritten, OutputInv
    <3> QED
      BY <1>1, <2>2, <3>1, BeginWriteStep
  <2> QED
    BY <1>2, <2>1, <2>2
<1> QED
  BY <1>7, <1>8, <1>9

(* The steps that take a packet *)
LEMMA PacketStep == ASSUME IInv, Hello \/ LoopTake PROVE IInv'
<1> USE DEF IInv
<1>1. UNCHANGED <<client, frames, toClient, got>>
  BY DEF Hello, LoopTake, LoopInput, LoopPing, LoopDisconnect, outVars
<1>2. PICK kind : Take(kind)
  BY DEF Hello, LoopTake, LoopInput, LoopPing, LoopDisconnect
<1>3. InputInv' /\ kinds' \in Seq(InKinds) /\ readBuf' \in Seq(Nat) /\ taken' \in Nat
  BY <1>1, <1>2, TakeStep
<1>4. UNCHANGED <<sent, toHost>>
  BY <1>2 DEF Take
<1>5. /\ pc' \in Pcs /\ pc \in {"hello", "select"}
      /\ \/ BeginWrite("pong")
         \/ UNCHANGED outVars /\ pc' # "write"
  BY DEF Hello, LoopTake, LoopInput, LoopPing, LoopDisconnect, BeginWrite, Pcs
<1>6. writing' \in OutKinds /\ packets' \in Nat /\ unwritten' \in 0..2
  BY <1>5 DEF BeginWrite, outVars, OutKinds, TypeOK
<1>7. /\ pipe' \in {"none", "playing", "broken", "stopped"}
      /\ mode' \in {"mutter", "test"}
      /\ display' \in {"none", "held", "stopped", "dropped"}
  BY DEF Hello, LoopTake, LoopInput, LoopPing, LoopDisconnect, Drop, displayVars, TypeOK
<1>8. conn' \in BOOLEAN /\ monitor' \in BOOLEAN
  BY DEF Hello, LoopTake, LoopInput, LoopPing, LoopDisconnect, Drop, displayVars, TypeOK
<1>9. TypeOK'
  BY <1>1, <1>3, <1>4, <1>5, <1>6, <1>7, <1>8 DEF TypeOK
<1>10. Active => unwritten = 0
  BY <1>5 DEF OutputInv
<1>11. OutputInv'
  <2>1. CASE BeginWrite("pong")
    BY <1>1, <1>10, <2>1, BeginWriteStep
  <2>2. CASE UNCHANGED outVars /\ pc' # "write"
    BY <1>1, <1>10, <2>2, OutputUntouched DEF Active
  <2> QED
    BY <1>5, <2>1, <2>2
<1> QED
  BY <1>3, <1>9, <1>11

-----------------------------------------------------------------------------
(* The invariant: all steps *)

LEMMA NextIInv == IInv /\ [Next]_vars => IInv'
<1> SUFFICES ASSUME IInv, [Next]_vars PROVE IInv'
  OBVIOUS
<1> USE DEF IInv
<1>1. CASE UNCHANGED vars
  BY <1>1 DEF vars, TypeOK, InputInv, OutputInv, Begun, Active, Following
<1>2. CASE ReadMore
  <2>1. UNCHANGED <<pc, outVars, client>>
    BY <1>2 DEF ReadMore
  <2>2. TypeOK'
    BY <1>2, ReadMoreStep DEF ReadMore, outVars, displayVars, TypeOK
  <2>3. OutputInv'
    BY <2>1, OutputUntouched DEF Active
  <2> QED
    BY <1>2, <2>2, <2>3, ReadMoreStep
<1>3. CASE WriteChunk
  <2>1. TypeOK'
    BY <1>3, WriteChunkStep DEF WriteChunk, inVars, displayVars, TypeOK
  <2>2. InputInv'
    BY <1>3, InputUntouched DEF WriteChunk, Active
  <2> QED
    BY <1>3, <2>1, <2>2, WriteChunkStep
<1>4. CASE ClientReads
  <2>1. TypeOK'
    BY <1>4, ClientReadsStep DEF ClientReads, inVars, displayVars, TypeOK
  <2>2. InputInv'
    BY <1>4, InputUntouched DEF ClientReads, Active
  <2> QED
    BY <1>4, <2>1, <2>2, ClientReadsStep
<1>5. CASE ClientSends
  <2>1. UNCHANGED <<pc, outVars, client>>
    BY <1>5 DEF ClientSends
  <2>2. TypeOK'
    BY <1>5, SendStep DEF ClientSends, outVars, displayVars, TypeOK
  <2>3. OutputInv'
    BY <2>1, OutputUntouched DEF Active
  <2> QED
    BY <1>5, <2>2, <2>3, SendStep
<1>6. CASE ClientLeaves
  <2>1. TypeOK'
    <3>1. toHost' \in Seq(Nat) /\ Len(toHost') <= WireCap
      <4>1. CASE toHost' = toHost
        BY <4>1 DEF TypeOK
      <4>2. CASE toHost' = <<>>
        BY <4>2, Capacities
      <4> QED
        BY <1>6, <4>1, <4>2 DEF ClientLeaves
    <3>2. client' \in {"waiting", "streaming", "closed", "vanished"}
      BY <1>6 DEF ClientLeaves
    <3>3. UNCHANGED <<pc, kinds, sent, readBuf, taken, outVars, frames, pipe, displayVars>>
      BY <1>6 DEF ClientLeaves
    <3> QED
      BY <3>1, <3>2, <3>3 DEF outVars, displayVars, TypeOK
  <2>2. OutputInv'
    BY <1>6, OutputUntouched DEF ClientLeaves, Active
  <2> QED
    BY <1>6, <2>1, <2>2, LeaveStep
<1>7. CASE Create \/ HandshakeWritten \/ LoopFrame \/ LoopWritten
  BY <1>7, BeginStep
<1>8. CASE Hello \/ LoopTake
  BY <1>8, PacketStep
<1>9. CASE HelloFails \/ HandshakeFails \/ Build \/ StopPipeline \/ DestroyDisplay
           \/ Finish \/ Kill \/ LoopReadFails \/ LoopWriteFails
           \/ PushFrame \/ PipelineBreaks \/ MutterReaps
  BY <1>9, SilentStep
<1> QED
  BY <1>1, <1>2, <1>3, <1>4, <1>5, <1>6, <1>7, <1>8, <1>9 DEF Next, Write

LEMMA Invariance == Spec => []IInv
BY InitIInv, NextIInv, PTL DEF Spec

-----------------------------------------------------------------------------
(* The theorems *)

(* Types, and queues within their capacities. *)
THEOREM TypeCorrect == Spec => []TypeOK
<1>1. IInv => TypeOK
  BY DEF IInv
<1> QED
  BY <1>1, Invariance, PTL

(* A cancelled read_packet loses nothing: what was read and what is under way follow *)
(* what was taken, without a gap, for every way to cut the stream into reads.        *)
THEOREM NothingReadIsLost == Spec => []InputIntact
<1>1. IInv => InputIntact
  BY Joined DEF IInv, TypeOK, InputInv, InputIntact
<1> QED
  BY <1>1, Invariance, PTL

(* A client that is there gets every packet whole, one after the other: a write that *)
(* a branch of select! began is finished before the loop writes anything else.       *)
THEOREM NothingWrittenIsCut == Spec => []OutputIntact
<1>1. IInv => OutputIntact
  BY DEF IInv, OutputInv, OutputIntact, Active
<1> QED
  BY <1>1, Invariance, PTL

=============================================================================
