------------------------------ MODULE UsbSession ------------------------------
(***************************************************************************)
(* Sessions over USB: handle_usb_client (host/src/session/mod.rs) with the *)
(* reader and the writer thread it spawns, the stream they share           *)
(* (host/src/transport/usb.rs), and the client at the other end            *)
(* (DisplayFragment.kt), which connects, goes away and comes back.         *)
(*                                                                         *)
(* The watcher of the daemon starts a session when the one before has      *)
(* returned and no thread keeps its claim on the accessory (SessionGuard). *)
(* The display and the encoder are StreamRecovery's: here a session gets a *)
(* pipeline or fails to, and its frame channel yields frames until a       *)
(* failed recovery closes it.  A packet crosses the bus whole; the framing *)
(* that puts it together again is not modelled here.                       *)
(***************************************************************************)
EXTENDS Naturals, Sequences

CONSTANTS
    InCap,        \* capacity of usb_in, 120
    OutCap,       \* capacity of usb_out, 120
    WireCap,      \* packets the bus and the kernels hold in each direction
    ClientTypes,  \* what the client sends after its HELLO
    MaxSessions,  \* bound: sessions the daemon starts
    MaxClients,   \* bound: times the app connects
    MaxPlugs      \* bound: times the accessory comes back after it went away

ASSUME CapAssumption ==
    /\ InCap \in Nat \ {0} /\ OutCap \in Nat \ {0} /\ WireCap \in Nat \ {0}
    /\ ClientTypes \subseteq {"INPUT_EVENT", "PING", "DISCONNECT"}
    /\ MaxSessions \in Nat /\ MaxClients \in Nat /\ MaxPlugs \in Nat

VARIABLES
    handler,   \* where handle_usb_client stands; "none": no session is running
    sess,      \* number of the current or last session
    peer,      \* the connection whose HELLO the current session answered, or 0
    usbIn,     \* usb_in: packets for the handler
    usbOut,    \* usb_out of each session: packets for its writer
    reader,    \* the reader thread of each session
    readHand,  \* the packet a reader is about to send to its handler
    writer,    \* the writer thread of each session
    writeHand, \* the packet a writer is writing
    closed,    \* is_closed of each session's stream
    attached,  \* the device has been on the bus since the session opened it
    plugged,   \* the accessory is on the bus
    plugs,     \* times it came back
    toHost,    \* packets on the bus, device to host
    toClient,  \* packets on the bus, or in the accessory driver, host to device
    client,    \* "off", "waiting" for HELLO_ACK or "streaming"
    conn,      \* number of the app's current or last connection
    restarter  \* history: the last connection whose HELLO ended a running session

busVars    == <<attached, plugged, plugs>>
threadVars == <<reader, readHand, writer, writeHand>>
clientVars == <<client, conn, restarter>>
vars == <<handler, sess, peer, usbIn, usbOut, reader, readHand, writer, writeHand,
          closed, attached, plugged, plugs, toHost, toClient, client, conn, restarter>>

SessionIds == 1..MaxSessions
NoPacket == [type |-> "NONE", from |-> 0]

\* A packet, with the connection it comes from or, sent by the host, the connection
\* whose HELLO its session answered.
Packet(t, n) == [type |-> t, from |-> n]

\* The stream is alive: one of the threads or the handler holds a reference.
Held(s) ==
    \/ reader[s] \in {"reading", "sending"}
    \/ writer[s] \in {"idle", "writing"}
    \/ handler # "none" /\ sess = s

\* The handler's ends of its channels exist until it returns.
Serving(s) == handler # "none" /\ sess = s

Init ==
    /\ handler = "none" /\ sess = 0 /\ peer = 0
    /\ usbIn = <<>>
    /\ usbOut = [s \in SessionIds |-> <<>>]
    /\ reader = [s \in SessionIds |-> "none"]
    /\ readHand = [s \in SessionIds |-> NoPacket]
    /\ writer = [s \in SessionIds |-> "none"]
    /\ writeHand = [s \in SessionIds |-> NoPacket]
    /\ closed = [s \in SessionIds |-> FALSE]
    /\ attached = [s \in SessionIds |-> FALSE]
    /\ plugged = TRUE /\ plugs = 0
    /\ toHost = <<>> /\ toClient = <<>>
    /\ client = "off" /\ conn = 0 /\ restarter = 0

-----------------------------------------------------------------------------
(* handle_usb_client *)

\* The handler returns, with Ok or an error: its ends of the channels are dropped.
Return ==
    /\ handler' = "none"
    /\ peer' = 0
    /\ usbIn' = <<>>

\* The watcher opened the accessory: the threads are spawned.
StartSession ==
    /\ handler = "none" /\ plugged /\ sess < MaxSessions
    /\ \A s \in SessionIds : attached[s] => ~Held(s)
    /\ sess' = sess + 1
    /\ handler' = "hello"
    /\ reader' = [reader EXCEPT ![sess + 1] = "reading"]
    /\ writer' = [writer EXCEPT ![sess + 1] = "idle"]
    /\ attached' = [attached EXCEPT ![sess + 1] = TRUE]
    /\ UNCHANGED <<peer, usbIn, usbOut, readHand, writeHand, closed, plugged, plugs, toHost, toClient,
                   clientVars>>

\* The first packet is a HELLO, or the handler returns at once with an error, also over
\* a HELLO it cannot parse; the stream is not closed and the threads are not joined.
HelloPacket ==
    /\ handler = "hello"
    /\ usbIn # <<>>
    /\ \/ /\ Head(usbIn).type = "HELLO"
          /\ usbIn' = Tail(usbIn)
          /\ handler' = "display"
          /\ peer' = Head(usbIn).from
       \/ Return
    /\ UNCHANGED <<sess, usbOut, threadVars, closed, busVars, toHost, toClient,
                   clientVars>>

\* The reader is gone and nothing is queued: "USB connection closed before HELLO".
HelloNone ==
    /\ handler = "hello"
    /\ usbIn = <<>>
    /\ reader[sess] = "done"
    /\ Return
    /\ UNCHANGED <<sess, usbOut, threadVars, closed, busVars, toHost, toClient, clientVars>>

\* The display, or the test pattern, is up: HELLO_ACK is sent, and DISPLAY_CONFIG,
\* which the client ignores, with it; that the writer may be gone is ignored.
SendAck ==
    /\ handler = "display"
    /\ handler' = "starting"
    /\ usbOut' = IF writer[sess] = "done" THEN usbOut
                 ELSE [usbOut EXCEPT ![sess] = Append(@, Packet("HELLO_ACK", peer))]
    /\ UNCHANGED <<sess, peer, usbIn, threadVars, closed, busVars, toHost, toClient,
                   clientVars>>

\* The encoder pipeline is built and started, or the handler returns the error:
\* again nothing is closed or joined.
StartPipeline ==
    /\ handler = "starting"
    /\ (handler' = "loop" /\ UNCHANGED <<peer, usbIn>>) \/ Return
    /\ UNCHANGED <<sess, usbOut, threadVars, closed, busVars, toHost,
                   toClient, clientVars>>

\* Mutant of LoopFrame: the queue to the writer is not bounded.
LoopFrameUnbounded ==
    /\ handler = "loop"
    /\ IF writer[sess] = "done"
       THEN handler' = "closing" /\ UNCHANGED usbOut
       ELSE /\ usbOut' = [usbOut EXCEPT ![sess] = Append(@, Packet("VIDEO_DATA", peer))]
            /\ UNCHANGED handler
    /\ Len(usbOut[sess]) <= OutCap
    /\ UNCHANGED <<sess, peer, usbIn, threadVars, closed, busVars, toHost, toClient,
                   clientVars>>

\* Mutant of LoopFrame: every error of try_send drops the frame.
LoopFrameDrops ==
    /\ handler = "loop"
    /\ IF writer[sess] = "done"
       THEN UNCHANGED usbOut
       ELSE /\ Len(usbOut[sess]) < OutCap
            /\ usbOut' = [usbOut EXCEPT ![sess] = Append(@, Packet("VIDEO_DATA", peer))]
    /\ UNCHANGED <<handler, sess, peer, usbIn, threadVars, closed, busVars, toHost, toClient,
                   clientVars>>

\* A frame: try_send never waits; a full queue drops it, a closed one ends the loop.
LoopFrame ==
    /\ handler = "loop"
    /\ \/ /\ writer[sess] = "done"
          /\ handler' = "closing"
          /\ UNCHANGED usbOut
       \/ /\ writer[sess] # "done"
          /\ Len(usbOut[sess]) < OutCap
          /\ usbOut' = [usbOut EXCEPT ![sess] = Append(@, Packet("VIDEO_DATA", peer))]
          /\ UNCHANGED handler
    /\ UNCHANGED <<sess, peer, usbIn, threadVars, closed, busVars, toHost, toClient,
                   clientVars>>

\* A recovery could not build a pipeline: the frame channel is closed.
LoopNoFrames ==
    /\ handler = "loop"
    /\ handler' = "closing"
    /\ UNCHANGED <<sess, peer, usbIn, usbOut, threadVars, closed, busVars, toHost,
                   toClient, clientVars>>

LoopInput ==
    /\ handler = "loop"
    /\ usbIn # <<>> /\ Head(usbIn).type = "INPUT_EVENT"
    /\ usbIn' = Tail(usbIn)
    /\ UNCHANGED <<handler, sess, peer, usbOut, threadVars, closed, busVars, toHost,
                   toClient, clientVars>>

\* PING: the PONG is sent with an await, that is, once there is room for it.
LoopPing ==
    /\ handler = "loop"
    /\ usbIn # <<>> /\ Head(usbIn).type = "PING"
    /\ usbIn' = Tail(usbIn)
    /\ handler' = "pong"
    /\ UNCHANGED <<sess, peer, usbOut, threadVars, closed, busVars, toHost, toClient,
                   clientVars>>

SendPong ==
    /\ handler = "pong"
    /\ \/ writer[sess] = "done" /\ UNCHANGED usbOut
       \/ /\ writer[sess] # "done" /\ Len(usbOut[sess]) < OutCap
          /\ usbOut' = [usbOut EXCEPT ![sess] = Append(@, Packet("PONG", peer))]
    /\ handler' = "loop"
    /\ UNCHANGED <<sess, peer, usbIn, threadVars, closed, busVars, toHost, toClient,
                   clientVars>>

\* Mutant of LoopEnd: a HELLO in a running session is one more unknown packet.
LoopEndNotOnHello ==
    /\ handler = "loop"
    /\ usbIn # <<>> /\ Head(usbIn).type \in {"DISCONNECT", "HELLO"}
    /\ usbIn' = Tail(usbIn)
    /\ handler' = IF Head(usbIn).type = "HELLO" THEN "loop" ELSE "closing"
    /\ UNCHANGED <<sess, peer, usbOut, threadVars, closed, busVars, toHost, toClient,
                   clientVars>>

\* DISCONNECT and HELLO both end the loop; the HELLO is consumed.
LoopEnd ==
    /\ handler = "loop"
    /\ usbIn # <<>> /\ Head(usbIn).type \in {"DISCONNECT", "HELLO"}
    /\ usbIn' = Tail(usbIn)
    /\ handler' = "closing"
    /\ restarter' = IF Head(usbIn).type = "HELLO" THEN Head(usbIn).from ELSE restarter
    /\ UNCHANGED <<sess, peer, usbOut, threadVars, closed, busVars, toHost, toClient,
                   client, conn>>

\* Mutant of CloseStream: the stream is not closed, and the reader not told to end.
CloseStreamForgotten ==
    /\ handler = "closing"
    /\ handler' = "joinReader"
    /\ UNCHANGED <<sess, peer, usbIn, usbOut, threadVars, closed, busVars, toHost, toClient,
                   clientVars>>

\* stream.close(); the pipeline is stopped and the display destroyed.
CloseStream ==
    /\ handler = "closing"
    /\ closed' = [closed EXCEPT ![sess] = TRUE]
    /\ handler' = "joinReader"
    /\ UNCHANGED <<sess, peer, usbIn, usbOut, threadVars, busVars, toHost, toClient,
                   clientVars>>

JoinReader ==
    /\ handler = "joinReader"
    /\ reader[sess] = "done"
    /\ handler' = "joinWriter"
    /\ UNCHANGED <<sess, peer, usbIn, usbOut, threadVars, closed, busVars, toHost,
                   toClient, clientVars>>

\* The sender usb_out_tx lives until this join is over.
JoinWriter ==
    /\ handler = "joinWriter"
    /\ writer[sess] = "done"
    /\ Return
    /\ UNCHANGED <<sess, usbOut, threadVars, closed, busVars, toHost, toClient, clientVars>>

-----------------------------------------------------------------------------
(* The reader thread: read_packet_sync looks at is_closed at least every     *)
(* 500 ms, and the thread blocks while usb_in is full.                       *)

\* A read that waits when the stream is closed may still return a packet.
ReadPacket(s) ==
    /\ reader[s] = "reading" /\ attached[s]
    /\ toHost # <<>>
    /\ toHost' = Tail(toHost)
    /\ readHand' = [readHand EXCEPT ![s] = Head(toHost)]
    /\ reader' = [reader EXCEPT ![s] = "sending"]
    /\ UNCHANGED <<handler, sess, peer, usbIn, usbOut, writer, writeHand, closed, busVars,
                   toClient, clientVars>>

\* Mutant of SendToHandler: that nobody takes the packet does not end the thread.
SendToHandlerIgnored(s) ==
    /\ reader[s] = "sending"
    /\ IF Serving(s)
       THEN Len(usbIn) < InCap /\ usbIn' = Append(usbIn, readHand[s])
       ELSE UNCHANGED usbIn
    /\ reader' = [reader EXCEPT ![s] = IF closed[s] THEN "done" ELSE "reading"]
    /\ readHand' = [readHand EXCEPT ![s] = NoPacket]
    /\ UNCHANGED <<handler, sess, peer, usbOut, writer, writeHand, closed, busVars, toHost,
                   toClient, clientVars>>

SendToHandler(s) ==
    /\ reader[s] = "sending"
    /\ \/ /\ Serving(s) /\ Len(usbIn) < InCap
          /\ usbIn' = Append(usbIn, readHand[s])
          /\ reader' = [reader EXCEPT ![s] = IF closed[s] THEN "done" ELSE "reading"]
       \/ /\ ~Serving(s)
          /\ reader' = [reader EXCEPT ![s] = "done"]
          /\ UNCHANGED usbIn
    /\ readHand' = [readHand EXCEPT ![s] = NoPacket]
    /\ UNCHANGED <<handler, sess, peer, usbOut, writer, writeHand, closed, busVars, toHost,
                   toClient, clientVars>>

ReaderEnds(s) ==
    /\ reader[s] = "reading"
    /\ closed[s] \/ ~attached[s]
    /\ closed' = [closed EXCEPT ![s] = TRUE]
    /\ reader' = [reader EXCEPT ![s] = "done"]
    /\ UNCHANGED <<handler, sess, peer, usbIn, usbOut, readHand, writer, writeHand, busVars,
                   toHost, toClient, clientVars>>

(* The writer thread: write_packet_sync looks at is_closed on entry only and *)
(* goes on after a timeout, for as long as nobody reads at the other end.    *)

\* The thread ends, and the queue goes with its receiver.
WriterDone(s) ==
    /\ writer' = [writer EXCEPT ![s] = "done"]
    /\ writeHand' = [writeHand EXCEPT ![s] = NoPacket]
    /\ usbOut' = [usbOut EXCEPT ![s] = <<>>]

TakePacket(s) ==
    /\ writer[s] = "idle"
    /\ usbOut[s] # <<>>
    /\ \/ /\ closed[s]
          /\ WriterDone(s)
       \/ /\ ~closed[s]
          /\ usbOut' = [usbOut EXCEPT ![s] = Tail(@)]
          /\ writeHand' = [writeHand EXCEPT ![s] = Head(usbOut[s])]
          /\ writer' = [writer EXCEPT ![s] = "writing"]
    /\ UNCHANGED <<handler, sess, peer, usbIn, reader, readHand, closed, busVars, toHost,
                   toClient, clientVars>>

WritePacket(s) ==
    /\ writer[s] = "writing" /\ attached[s]
    /\ Len(toClient) < WireCap
    /\ toClient' = Append(toClient, writeHand[s])
    /\ writeHand' = [writeHand EXCEPT ![s] = NoPacket]
    /\ writer' = [writer EXCEPT ![s] = "idle"]
    /\ UNCHANGED <<handler, sess, peer, usbIn, usbOut, reader, readHand, closed, busVars,
                   toHost, clientVars>>

WriteFails(s) ==
    /\ writer[s] = "writing" /\ ~attached[s]
    /\ closed' = [closed EXCEPT ![s] = TRUE]
    /\ WriterDone(s)
    /\ UNCHANGED <<handler, sess, peer, usbIn, reader, readHand, busVars, toHost,
                   toClient, clientVars>>

\* blocking_recv returns None: the handler has returned and nothing is queued.
WriterEnds(s) ==
    /\ writer[s] = "idle"
    /\ usbOut[s] = <<>> /\ ~Serving(s)
    /\ WriterDone(s)
    /\ UNCHANGED <<handler, sess, peer, usbIn, reader, readHand, closed,
                   busVars, toHost, toClient, clientVars>>

-----------------------------------------------------------------------------
(* The client *)

\* The app opens the accessory and sends HELLO.
ClientConnect ==
    /\ client = "off" /\ plugged
    /\ conn < MaxClients /\ Len(toHost) < WireCap
    /\ conn' = conn + 1
    /\ client' = "waiting"
    /\ toHost' = Append(toHost, Packet("HELLO", conn + 1))
    /\ UNCHANGED <<handler, sess, peer, usbIn, usbOut, threadVars, closed, busVars, toClient,
                   restarter>>

\* While it waits for HELLO_ACK every other packet is discarded.
ClientReads ==
    /\ client # "off"
    /\ toClient # <<>>
    /\ toClient' = Tail(toClient)
    /\ IF client = "waiting" /\ Head(toClient).type = "HELLO_ACK"
       THEN client' = "streaming"
       ELSE UNCHANGED client
    /\ UNCHANGED <<handler, sess, peer, usbIn, usbOut, threadVars, closed, busVars, toHost,
                   conn, restarter>>

\* Touch input, or the other packets the protocol lets a client send (the Android
\* client sends no PING and no DISCONNECT).
ClientSends ==
    /\ client = "streaming"
    /\ Len(toHost) < WireCap
    /\ \E t \in ClientTypes : toHost' = Append(toHost, Packet(t, conn))
    /\ UNCHANGED <<handler, sess, peer, usbIn, usbOut, threadVars, closed, busVars, toClient,
                   clientVars>>

\* The app closes the accessory without a word.  What is on the bus stays there,
\* and the driver may or may not keep what the app did not read.
ClientLeaves ==
    /\ client # "off"
    /\ client' = "off"
    /\ toClient' \in {toClient, <<>>}
    /\ UNCHANGED <<handler, sess, peer, usbIn, usbOut, threadVars, closed, busVars, toHost,
                   conn, restarter>>

Unplug ==
    /\ plugged
    /\ plugged' = FALSE
    /\ attached' = [s \in SessionIds |-> FALSE]
    /\ toHost' = <<>> /\ toClient' = <<>>
    /\ client' = "off"
    /\ UNCHANGED <<handler, sess, peer, usbIn, usbOut, threadVars, closed, plugs, conn,
                   restarter>>

Plug ==
    /\ ~plugged /\ plugs < MaxPlugs
    /\ plugged' = TRUE
    /\ plugs' = plugs + 1
    /\ UNCHANGED <<handler, sess, peer, usbIn, usbOut, threadVars, closed, attached, toHost,
                   toClient, clientVars>>

Handler ==
    \/ StartSession \/ HelloPacket \/ HelloNone \/ SendAck \/ StartPipeline
    \/ LoopFrame \/ LoopNoFrames \/ LoopInput \/ LoopPing \/ SendPong \/ LoopEnd
    \/ CloseStream \/ JoinReader \/ JoinWriter

Reader(s) == ReadPacket(s) \/ SendToHandler(s) \/ ReaderEnds(s)
Writer(s) == TakePacket(s) \/ WritePacket(s) \/ WriteFails(s) \/ WriterEnds(s)
Client == ClientConnect \/ ClientReads \/ ClientSends \/ ClientLeaves

Next ==
    \/ Handler
    \/ \E s \in SessionIds : Reader(s) \/ Writer(s)
    \/ Client
    \/ Unplug \/ Plug

Spec == Init /\ [][Next]_vars

(* Fairness: threads and tasks that can go on do, the encoder yields frames, *)
(* select! polls its ready branches in random order and so starves none, and *)
(* a connected client reads.  The client need not connect, stay or send.     *)
Fairness ==
    /\ WF_vars(StartSession \/ HelloPacket \/ HelloNone \/ SendAck \/ StartPipeline)
    /\ SF_vars(LoopFrame)
    /\ SF_vars(LoopInput \/ LoopPing \/ LoopEnd)
    /\ WF_vars(SendPong)
    /\ WF_vars(CloseStream \/ JoinReader \/ JoinWriter)
    /\ \A s \in SessionIds : WF_vars(Reader(s)) /\ WF_vars(Writer(s))
    /\ WF_vars(ClientReads)

FairSpec == Spec /\ Fairness

-----------------------------------------------------------------------------
(* Properties *)

ToHostTypes == {"HELLO", "INPUT_EVENT", "PING", "DISCONNECT"}
ToClientTypes == {"HELLO_ACK", "VIDEO_DATA", "PONG"}
ToHostPackets == [type : ToHostTypes, from : 1..MaxClients]
ToClientPackets == [type : ToClientTypes, from : 1..MaxClients]

HandlerPcs == {"none", "hello", "display", "starting", "loop", "pong", "closing",
               "joinReader", "joinWriter"}

\* Types, capacities, and what a thread has in its hand.
TypeOK ==
    /\ handler \in HandlerPcs
    /\ sess \in 0..MaxSessions
    /\ handler # "none" => sess > 0
    /\ peer \in 0..MaxClients
    /\ usbIn \in Seq(ToHostPackets) /\ Len(usbIn) <= InCap
    /\ usbOut \in [SessionIds -> Seq(ToClientPackets)]
    /\ \A s \in SessionIds : Len(usbOut[s]) <= OutCap
    /\ reader \in [SessionIds -> {"none", "reading", "sending", "done"}]
    /\ readHand \in [SessionIds -> ToHostPackets \cup {NoPacket}]
    /\ \A s \in SessionIds : reader[s] = "sending" <=> readHand[s] # NoPacket
    /\ writer \in [SessionIds -> {"none", "idle", "writing", "done"}]
    /\ writeHand \in [SessionIds -> ToClientPackets \cup {NoPacket}]
    /\ \A s \in SessionIds : writer[s] = "writing" <=> writeHand[s] # NoPacket
    /\ closed \in [SessionIds -> BOOLEAN]
    /\ attached \in [SessionIds -> BOOLEAN]
    /\ plugged \in BOOLEAN /\ plugs \in 0..MaxPlugs
    /\ toHost \in Seq(ToHostPackets) /\ Len(toHost) <= WireCap
    /\ toClient \in Seq(ToClientPackets) /\ Len(toClient) <= WireCap
    /\ client \in {"off", "waiting", "streaming"}
    /\ conn \in 0..MaxClients /\ restarter \in 0..MaxClients

\* A session injects only the input of the connection whose HELLO it answered:
\* touches that an earlier connection left on the bus, in the reader or in
\* usb_in never reach the display of a later one.
InputFromPeer == [][LoopInput => Head(usbIn).from = peer]_vars

\* The three ways the joins at the end of a session can wait for ever: the reader
\* blocked on a full usb_in that nobody empties; the writer waiting on an empty
\* usb_out, whose sender the waiting handler itself holds; the writer repeating
\* a write that the absent client never takes.
ReaderStuck == handler = "joinReader" /\ reader[sess] = "sending" /\ Len(usbIn) = InCap
WriterStarved == handler = "joinWriter" /\ writer[sess] = "idle" /\ usbOut[sess] = <<>>
WriterUnread ==
    /\ handler = "joinWriter" /\ writer[sess] = "writing"
    /\ attached[sess] /\ client = "off"

\* A session that ends its loop returns, unless one of the three happens.
TeardownCompletes ==
    (handler = "closing") ~>
        (handler = "none" \/ ReaderStuck \/ WriterStarved \/ WriterUnread)

\* When the accessory goes away under a running session, the session notices (by
\* its frames, once the writer failed: the end of the reader is not noticed).
UnplugIsNoticed ==
    (handler \in {"loop", "pong"} /\ ~attached[sess]) ~> (handler = "closing")

\* The stream of a session that returned early, which keeps the accessory claimed,
\* is given up with the next packet the device sends - a packet that is lost -
\* unless its writer repeats a write for an absent client.
AbandonedStreamIsReleased ==
    \A s \in SessionIds :
        (reader[s] = "reading" /\ ~Serving(s) /\ toHost # <<>>)
            ~> (~Held(s) \/ (writer[s] = "writing" /\ client = "off"))

\* "Client reconnected with new HELLO message - restarting session": the connection
\* whose HELLO ended a session is served by the next one.  Instead client and host
\* wait for each other with nothing under way: the HELLO was consumed by the
\* session that it ended.
ReconnectIsServed ==
    ~ /\ client = "waiting" /\ restarter = conn
      /\ handler = "hello"
      /\ toHost = <<>> /\ usbIn = <<>> /\ toClient = <<>>
      /\ \A s \in SessionIds : /\ readHand[s] = NoPacket /\ writeHand[s] = NoPacket
                                /\ usbOut[s] = <<>>

\* "Await HELLO_ACK (discard any stale packets from previous session)": the HELLO_ACK
\* that a client takes answers its own HELLO.  One that an earlier connection left
\* unread cannot be told from it.
AckIsFresh ==
    [][(ClientReads /\ client = "waiting" /\ Head(toClient).type = "HELLO_ACK")
            => Head(toClient).from = conn]_vars

=============================================================================
