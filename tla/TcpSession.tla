----------------------------- MODULE TcpSession -----------------------------
(***************************************************************************)
(* A session over TCP: handle_client and run_session_loop                  *)
(* (host/src/session/mod.rs) on a FramedStream (host/src/transport/tcp.rs),*)
(* the virtual display they create and every way in which they let go of   *)
(* it, and the client at the other end.                                    *)
(*                                                                         *)
(* TCP is a stream: a packet is sent and received in two chunks, which     *)
(* stand for any way to split it.  The chunks of a direction are numbered, *)
(* packet p is made of the chunks 2p - 1 and 2p.  read_packet is cancelled *)
(* whenever another branch of select! completes and is called anew; what   *)
(* it has read is in the FramedStream.  A write is part of a branch that   *)
(* was chosen, and runs to its end.                                        *)
(***************************************************************************)
EXTENDS Naturals, Sequences

CONSTANTS
    ChanCap,      \* capacity of the frame channel, 16
    WireCap,      \* chunks the kernels hold in each direction
    ClientTypes,  \* what the client sends once it has its HELLO_ACK
    MaxIn,        \* bound: packets the client sends
    MaxOut        \* bound: the host sends frames and METRICS up to this many packets

ASSUME CapAssumption ==
    /\ ChanCap \in Nat \ {0} /\ WireCap \in Nat \ {0}
    /\ ClientTypes \subseteq {"INPUT_EVENT", "PING", "DISCONNECT", "HELLO"}
    /\ MaxIn \in Nat /\ MaxOut \in Nat

VARIABLES
    pc,        \* where the handler stands
    kinds,     \* the types of the packets the client began to send, until taken
    sent,      \* chunks the client sent
    toHost,    \* chunks under way, client to host
    readBuf,   \* read_buf: chunks of packets not yet taken
    taken,     \* packets the host took
    writing,   \* the packet the host is writing, or wrote last
    packets,   \* packets the host began to write
    unwritten, \* chunks of the last of them still to be written
    toClient,  \* chunks under way, host to client
    got,       \* the last chunk the client read
    client,    \* "waiting" for HELLO_ACK, "streaming", "closed" or "vanished"
    frames,    \* frames in the channel
    pipe,      \* the pipeline: "none", "playing", "broken" or "stopped"
    mode,      \* the backend: "mutter" or "test"
    display,   \* "none", "held", "stopped", or "dropped" without a Stop
    conn,      \* the backend's D-Bus connection is open
    monitor    \* Mutter shows a virtual monitor of this session

inVars      == <<kinds, sent, toHost, readBuf, taken>>
outVars     == <<writing, packets, unwritten, toClient, got>>
displayVars == <<mode, display, conn, monitor>>
vars == <<pc, kinds, sent, toHost, readBuf, taken, writing, packets, unwritten, toClient,
          got, client, frames, pipe, mode, display, conn, monitor>>

Init ==
    /\ pc = "hello"
    /\ kinds = <<>> /\ sent = 0 /\ toHost = <<>> /\ readBuf = <<>> /\ taken = 0
    /\ writing = "none" /\ packets = 0 /\ unwritten = 0 /\ toClient = <<>> /\ got = 0
    /\ client = "waiting"
    /\ frames = 0 /\ pipe = "none"
    /\ mode \in {"mutter", "test"}
    /\ display = "none" /\ conn = FALSE /\ monitor = FALSE

Ended == pc \in {"returned", "killed"}
Reading == pc \in {"hello", "select"}

\* Mutant of Complete: a packet is only taken with something after it.
CompleteLate == Len(readBuf) > 2

\* read_buf begins with a packet that is there to its end.
Complete == Len(readBuf) >= 2

\* A read or a write can fail: the client closed its socket, or it vanished and what
\* was sent to it has not been acknowledged for too long.
Broken == client = "closed" \/ (client = "vanished" /\ toClient # <<>>)

-----------------------------------------------------------------------------
(* FramedStream *)

\* stream.read: some of what has arrived, if read_buf has no complete packet.
ReadMore ==
    /\ Reading /\ ~Complete
    /\ \E n \in 1..Len(toHost) :
          /\ readBuf' = readBuf \o SubSeq(toHost, 1, n)
          /\ toHost' = SubSeq(toHost, n + 1, Len(toHost))
    /\ UNCHANGED <<pc, kinds, sent, taken, outVars, client, frames, pipe, displayVars>>

\* The packet at the front of read_buf is drained and returned.
Take(kind) ==
    /\ Complete
    /\ Head(kinds) = kind
    /\ kinds' = Tail(kinds)
    /\ taken' = taken + 1
    /\ readBuf' = SubSeq(readBuf, 3, Len(readBuf))
    /\ UNCHANGED <<sent, toHost>>

\* End of file, or an error of the connection, which the rest of a packet does not survive.
ReadError ==
    /\ Reading /\ ~Complete
    /\ Broken /\ (client = "closed" => toHost = <<>>)

\* write_packet, write_frame_data: the first of the two chunks is next.
BeginWrite(what) ==
    /\ pc' = "write"
    /\ writing' = what
    /\ packets' = packets + 1
    /\ unwritten' = 2

WriteChunk ==
    /\ pc = "write" /\ unwritten > 0
    /\ Len(toClient) < WireCap
    /\ toClient' = Append(toClient, 2 * packets - unwritten + 1)
    /\ unwritten' = unwritten - 1
    /\ UNCHANGED <<pc, inVars, writing, packets, got, client, frames, pipe, displayVars>>

-----------------------------------------------------------------------------
(* handle_client *)

\* Mutant of Drop: the connection of the display backend is not the handler's own.
DropKeepsConnection ==
    /\ pipe' = IF pipe = "none" THEN "none" ELSE "stopped"
    /\ display' = IF display = "held" THEN "dropped" ELSE display
    /\ UNCHANGED <<mode, conn, monitor>>

\* The handler returns with what it owns: the pipeline stops, the connection of the
\* display backend closes, and nobody calls Stop for a display still held.
Drop ==
    /\ pipe' = IF pipe = "none" THEN "none" ELSE "stopped"
    /\ display' = IF display = "held" THEN "dropped" ELSE display
    /\ conn' = FALSE
    /\ UNCHANGED <<mode, monitor>>

\* The first packet is a HELLO, or the handler returns an error.
Hello ==
    /\ pc = "hello"
    /\ \/ Take("HELLO") /\ pc' = "create" /\ UNCHANGED <<pipe, displayVars>>
       \/ Take("OTHER") /\ pc' = "returned" /\ Drop
    /\ UNCHANGED <<outVars, client, frames>>

HelloFails ==
    /\ pc = "hello" /\ ReadError
    /\ pc' = "returned"
    /\ Drop
    /\ UNCHANGED <<inVars, outVars, client, frames>>

\* create_virtual_display.  If Mutter fails, before it made a monitor or after, the
\* test pattern takes its place and the connection goes.  Then HELLO_ACK is sent.
Create ==
    /\ pc = "create"
    /\ display' = "held"
    /\ \/ mode = "mutter" /\ monitor' = TRUE /\ conn' = TRUE /\ UNCHANGED mode
       \/ mode = "mutter" /\ mode' = "test" /\ monitor' \in BOOLEAN /\ UNCHANGED conn
       \/ mode = "test" /\ UNCHANGED <<mode, monitor, conn>>
    /\ BeginWrite("ack")
    /\ UNCHANGED <<inVars, toClient, got, client, frames, pipe>>

\* HELLO_ACK is followed by DISPLAY_CONFIG, and that by the pipeline.
HandshakeWritten ==
    /\ pc = "write" /\ unwritten = 0
    /\ \/ writing = "ack" /\ BeginWrite("config")
       \/ writing = "config" /\ pc' = "build" /\ UNCHANGED <<writing, packets, unwritten>>
    /\ UNCHANGED <<inVars, toClient, got, client, frames, pipe, displayVars>>

\* During the handshake the handler returns the error.
HandshakeFails ==
    /\ pc = "write" /\ unwritten > 0 /\ Broken
    /\ writing \in {"ack", "config"}
    /\ pc' = "returned"
    /\ Drop
    /\ UNCHANGED <<inVars, outVars, client, frames>>

\* The input backend is opened, or its stub, and the pipeline built and started; if it
\* cannot be, the handler returns the error.
Build ==
    /\ pc = "build"
    /\ \/ pc' = "select" /\ pipe' = "playing" /\ UNCHANGED displayVars
       \/ pc' = "returned" /\ Drop
    /\ UNCHANGED <<inVars, outVars, client, frames>>

StopPipeline ==
    /\ pc = "stop"
    /\ pipe' = "stopped"
    /\ pc' = "destroy"
    /\ UNCHANGED <<inVars, outVars, client, frames, displayVars>>

\* Stop is called, which may fail; the connection stays until the handler returns.
DestroyDisplay ==
    /\ pc = "destroy"
    /\ display' = "stopped"
    /\ monitor' \in (IF mode = "mutter" THEN {FALSE, monitor} ELSE {monitor})
    /\ pc' = "end"
    /\ UNCHANGED <<mode, conn, inVars, outVars, client, frames, pipe>>

Finish ==
    /\ pc = "end"
    /\ pc' = "returned"
    /\ Drop
    /\ UNCHANGED <<inVars, outVars, client, frames>>

\* ctrl_c or a signal: the task is dropped where it stands.
Kill ==
    /\ ~Ended
    /\ pc' = "killed"
    /\ Drop
    /\ UNCHANGED <<inVars, outVars, client, frames>>

-----------------------------------------------------------------------------
(* run_session_loop *)

\* Mutant of LoopFrame: what read_packet had read is lost when it is cancelled.
LoopFrameLosesRead ==
    /\ pc = "select" /\ frames > 0 /\ packets < MaxOut
    /\ frames' = frames - 1
    /\ readBuf' = <<>>
    /\ BeginWrite("frame")
    /\ UNCHANGED <<kinds, sent, toHost, taken, toClient, got, client, pipe, displayVars>>

\* A frame is written by the branch that received it; read_packet is cancelled.
LoopFrame ==
    /\ pc = "select" /\ frames > 0 /\ packets < MaxOut
    /\ frames' = frames - 1
    /\ BeginWrite("frame")
    /\ UNCHANGED <<inVars, toClient, got, client, pipe, displayVars>>

\* A frame may be followed by METRICS, once in a second.
LoopWritten ==
    /\ pc = "write" /\ unwritten = 0
    /\ \/ /\ writing \in {"frame", "metrics", "pong"}
          /\ pc' = "select" /\ UNCHANGED <<writing, packets, unwritten>>
       \/ writing = "frame" /\ packets < MaxOut /\ BeginWrite("metrics")
    /\ UNCHANGED <<inVars, toClient, got, client, frames, pipe, displayVars>>

\* An error is the end of the loop; nobody looks at the result of METRICS.
LoopWriteFails ==
    /\ pc = "write" /\ unwritten > 0 /\ Broken
    /\ \/ writing \in {"frame", "pong"} /\ pc' = "stop"
       \/ writing = "metrics" /\ pc' = "select"
    /\ UNCHANGED <<inVars, outVars, client, frames, pipe, displayVars>>

\* Mutant of LoopInput: a packet of the client cancels a frame that is being written.
LoopInputCancels ==
    /\ pc = "select" \/ (pc = "write" /\ writing = "frame")
    /\ \E kind \in {"INPUT_EVENT", "HELLO"} : Take(kind)
    /\ pc' = "select"
    /\ unwritten' = 0
    /\ UNCHANGED <<writing, packets, toClient, got, client, frames, pipe, displayVars>>

\* An input event is injected; a HELLO, like anything else unknown, is ignored.
LoopInput ==
    /\ pc = "select"
    /\ \E kind \in {"INPUT_EVENT", "HELLO"} : Take(kind)
    /\ UNCHANGED <<pc, outVars, client, frames, pipe, displayVars>>

LoopPing ==
    /\ pc = "select"
    /\ Take("PING")
    /\ BeginWrite("pong")
    /\ UNCHANGED <<toClient, got, client, frames, pipe, displayVars>>

LoopDisconnect ==
    /\ pc = "select"
    /\ Take("DISCONNECT")
    /\ pc' = "stop"
    /\ UNCHANGED <<outVars, client, frames, pipe, displayVars>>

\* Mutant of LoopReadFails: the error is logged and the loop goes on.
LoopReadFailsIgnored ==
    /\ pc = "select" /\ ReadError
    /\ UNCHANGED vars

LoopReadFails ==
    /\ pc = "select" /\ ReadError
    /\ pc' = "stop"
    /\ UNCHANGED <<inVars, outVars, client, frames, pipe, displayVars>>

-----------------------------------------------------------------------------
(* The pipeline and Mutter *)

\* Mutant of PushFrame: the channel is not bounded.
PushFrameUnbounded ==
    /\ pipe = "playing" /\ frames <= ChanCap
    /\ frames' = frames + 1
    /\ UNCHANGED <<pc, inVars, outVars, client, pipe, displayVars>>

PushFrame ==
    /\ pipe = "playing" /\ frames < ChanCap
    /\ frames' = frames + 1
    /\ UNCHANGED <<pc, inVars, outVars, client, pipe, displayVars>>

\* The pipeline fails or stalls: over TCP nobody waits for its notification.
PipelineBreaks ==
    /\ pipe = "playing"
    /\ pipe' = "broken"
    /\ UNCHANGED <<pc, inVars, outVars, client, frames, displayVars>>

\* Mutter removes a monitor whose D-Bus peer is gone.
MutterReaps ==
    /\ monitor /\ ~conn
    /\ monitor' = FALSE
    /\ UNCHANGED <<pc, inVars, outVars, client, frames, pipe, mode, display, conn>>

-----------------------------------------------------------------------------
(* The client: its read loop, and its senders of HELLO and of input; the handler *)
(* takes its end of the connection with it                                       *)

ClientReads ==
    /\ client \in {"waiting", "streaming"}
    /\ toClient # <<>>
    /\ got' = Head(toClient)
    /\ toClient' = Tail(toClient)
    /\ client' = IF got' = 2 THEN "streaming" ELSE client
    /\ UNCHANGED <<pc, inVars, writing, packets, unwritten, frames, pipe, displayVars>>

\* What it may begin with: HELLO first (another program may send anything), then
\* nothing until it has its HELLO_ACK.  This client sends input only; the protocol
\* and the host know PING and DISCONNECT as well.
NextKinds ==
    IF sent = 0 THEN {"HELLO", "OTHER"}
    ELSE IF client = "streaming" THEN ClientTypes ELSE {}

Begun == taken + Len(kinds)

ClientSends ==
    /\ client \in {"waiting", "streaming"} /\ ~Ended
    /\ Len(toHost) < WireCap
    /\ \/ /\ sent = 2 * Begun /\ Begun < MaxIn
          /\ \E kind \in NextKinds : kinds' = Append(kinds, kind)
       \/ sent < 2 * Begun /\ UNCHANGED kinds
    /\ sent' = sent + 1
    /\ toHost' = Append(toHost, sent + 1)
    /\ UNCHANGED <<pc, readBuf, taken, outVars, client, frames, pipe, displayVars>>

\* The app closes the socket, perhaps in the middle of a packet, or the network is
\* gone; what is under way may be lost.
ClientLeaves ==
    /\ client \in {"waiting", "streaming"} /\ ~Ended
    /\ client' \in {"closed", "vanished"}
    /\ toHost' \in {toHost, <<>>}
    /\ UNCHANGED <<pc, kinds, sent, readBuf, taken, outVars, frames, pipe, displayVars>>

Write ==
    \/ WriteChunk
    \/ HandshakeWritten \/ HandshakeFails
    \/ LoopWritten \/ LoopWriteFails
LoopTake == LoopInput \/ LoopPing \/ LoopDisconnect

Next ==
    \/ ReadMore \/ Write
    \/ Hello \/ HelloFails \/ Create \/ Build
    \/ StopPipeline \/ DestroyDisplay \/ Finish \/ Kill
    \/ LoopFrame \/ LoopTake \/ LoopReadFails
    \/ PushFrame \/ PipelineBreaks \/ MutterReaps
    \/ ClientReads \/ ClientSends \/ ClientLeaves

Spec == Init /\ [][Next]_vars

(* Fairness: the handler goes on when it can, select! polls its branches in  *)
(* random order and starves none, a client that is there reads, and Mutter   *)
(* cleans up.  Nobody need send, leave or break.                             *)
Fairness ==
    /\ WF_vars(Hello \/ HelloFails) /\ WF_vars(Create) /\ WF_vars(Build)
    /\ WF_vars(Write) /\ WF_vars(StopPipeline) /\ WF_vars(DestroyDisplay) /\ WF_vars(Finish)
    /\ SF_vars(ReadMore) /\ SF_vars(LoopTake) /\ SF_vars(LoopReadFails)
    /\ WF_vars(ClientReads) /\ WF_vars(MutterReaps)

FairSpec == Spec /\ Fairness

-----------------------------------------------------------------------------
(* Properties *)

InKinds == {"HELLO", "OTHER", "INPUT_EVENT", "PING", "DISCONNECT"}
OutKinds == {"none", "ack", "config", "frame", "metrics", "pong"}
Pcs == {"hello", "create", "write", "build", "select", "stop", "destroy", "end",
        "returned", "killed"}

\* Types and capacities.
TypeOK ==
    /\ pc \in Pcs
    /\ kinds \in Seq(InKinds)
    /\ sent \in Nat /\ toHost \in Seq(Nat) /\ Len(toHost) <= WireCap
    /\ readBuf \in Seq(Nat) /\ taken \in Nat
    /\ writing \in OutKinds /\ packets \in Nat /\ unwritten \in 0..2
    /\ toClient \in Seq(Nat) /\ Len(toClient) <= WireCap /\ got \in Nat
    /\ client \in {"waiting", "streaming", "closed", "vanished"}
    /\ frames \in 0..ChanCap
    /\ pipe \in {"none", "playing", "broken", "stopped"}
    /\ mode \in {"mutter", "test"}
    /\ display \in {"none", "held", "stopped", "dropped"}
    /\ conn \in BOOLEAN /\ monitor \in BOOLEAN

Following(s, n) == \A i \in 1..Len(s) : s[i] = n + i

\* Whatever select! cancels, no chunk that the client sent is lost, doubled or taken
\* out of its order: what is read and under way follows what was taken.
InputIntact == Following(readBuf \o toHost, 2 * taken)

\* No packet to the client is cut off by the next one: what is under way follows what
\* the client read, and the packet being written follows that, for as long as the
\* client is there.
OutputIntact ==
    client \in {"waiting", "streaming"} =>
        /\ Following(toClient, got)
        /\ got + Len(toClient) + unwritten = 2 * packets

\* A client that closed its socket, or vanished with something sent to it, ends its
\* session, wherever the handler stands.
GoneClientEndsSession == Broken ~> Ended

\* What a client sends is taken while it is there and the session lasts, though every
\* frame that is ready cancels the read: what was read stays, and select! picks at
\* random among the ready branches, which is all that keeps video from starving input.
InputIsTaken ==
    \A p \in 1..MaxIn :
        (sent >= 2 * p) ~>
            (taken >= p \/ Ended \/ client \in {"closed", "vanished"})

\* "Cleanly releases the virtual display upon client disconnection to avoid ghost
\* monitors" (docs/architecture.md): once the session is over its monitor goes, on
\* the ways out without a Stop because the connection goes with the handler.  (One of
\* them is ctrl_c, for which docs/linux-display.md promises a Stop.)
MonitorIsReleased == Ended ~> ~monitor

=============================================================================
