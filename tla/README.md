# A verification of ORD (OpenRemoteDisplay)

ORD turns an Android device into a second monitor of a GNOME desktop: a Rust host
(`host/src`) creates a virtual display in Mutter, encodes what is drawn on it with
GStreamer and streams it over TCP or over USB (AOAP); a Kotlin client
(`android/app/src/main/java/org/ord/client`, below `client/`) decodes the stream and sends touches
back. This directory holds TLA+ models of the parts where the order of events matters, the
TLC runs that check them on small instances, and proofs, checked by TLAPS, that hold for
every value of the constants. `PROJECT.json` maps every definition to the lines it models.

## 1. The system

| Component (code) | State it keeps | Operations | Talks to | Correct when |
|---|---|---|---|---|
| Daemon (`daemon.rs`) | `is_session_active`; the watcher's `UsbState`, `waited_ms`, `switch_cooldown_ms` | TCP accept loop, USB watcher, one task per session, ctrl_c | session handlers by spawned tasks; all of them by the flag | one session at a time; the flag is never stuck; every connection and accessory is taken |
| USB manager and stream (`transport/usb.rs`) | the claim on the interface; `is_closed` | find, switch, open; read, write, close with timeouts | watcher; both USB threads | a closed stream lets its threads go |
| USB session (`session/mod.rs`, `handle_usb_client`) | two bounded channels, two threads, display, pipeline, input backend | handshake, `select!` loop, recovery, teardown with two joins | everything below | only its own client's input; it ends, and is over when it ended |
| TCP session (`handle_client`, `run_session_loop`) | framed stream with its read buffer | the same without threads and without recovery | the same | no packet lost by cancelled reads; display stopped on every way out |
| Display recovery (`recover_display`) | display, pipeline, notifier and channel, replaced one by one | stop, destroy, create, build | Mutter, GStreamer | the parts belong together afterwards; the picture comes back or the session ends |
| Display backends (`display/`) | D-Bus connection, session and stream path | create, destroy | Mutter | every monitor made is stopped |
| Encoder pipeline (`encoder/pipeline.rs`) | GStreamer pipeline, bus task, `Notify` | new, start, stop, appsink callback | frame channel | an error is noticed |
| Input backends (`input/`) | RemoteDesktop session, stream path | `handle_event` | Mutter | events reach the display shown, no finger stays down |
| Framing, messages (`protocol/`, `tcp.rs`, `client/protocol`, `client/transport`) | partial packets | encode, decode, resynchronise | both ends | what is sent is received, whole and in order |
| Client session (`client/ui/DisplayFragment.kt`) | session job, transport, decoder, ring | surface callbacks, connect, HELLO, read loop, stop | transports, ring | one session at a time; everything is closed |
| Frame ring and decoder (`client/decoder`) | queue, drop flag; codec | offer, poll, feed, drain, start, stop | read loop | no P-frame without its reference; a keyframe gets through |
| Touch input (`client/input`) | unbounded queue | `onTouch`, sender coroutine | transport | order kept, every finger lifted |
| Discovery (`transport/discovery.rs`, `client/discovery`) | beacon task; host list | start, stop, update | UDP | hosts appear once; restart works |

What is hard here: the session flag is read and written by threads that await in between; a USB
session is three threads around two bounded queues; a session may end in eight ways, each
with another subset of the cleanup; recovery replaces four objects one by one while the
callbacks of the old ones are running; the ring buffer is used by two threads without a lock;
the client cancels coroutines that sit in blocking calls, and starts their successors on the
same fields; and what a connection leaves behind (packets on the bus, frames in the buffer, an
answer nobody read, half a header, a socket, a finger) meets the next one. `PROJECT.json` lists
these hazards at their lines.

### Not modelled

* The frame ticker and its C drivers: a child process that redraws two pixels and shares nothing
  with the host but its start and its kill.
* Configuration, command line and diagnostics: reading a file, parsing, printing a report.
* The other screens of the client and `MainActivity`: views, preferences and navigation.
* Generated Wayland code.
* Of parts that are modelled: pointer and keyboard events (the host's backend knows them, this
  client does not send them); `display_to_normalized` and `transform_orientation`, which only
  tests call; the contents of JSON messages beyond what decides a branch; the choice of an
  encoder or a codec.

## 2. Modules

```
host                                                          proofs
 SessionGuard        flag, accept loop, watcher               SessionGuardProofs (MCSessionGuard: TLC)
    |  a session is "serving", then "returned"
 UsbSession          a session, its threads, bus, client      UsbSessionProofs
    |  "its frame channel yields frames until it is closed"
 StreamRecovery      display, pipeline, loop, recovery        StreamRecoveryProofs
    |  (frames reach the client)
 TcpSession          a session, its stream, every way out     TcpSessionProofs

between them
 Framing             bytes to packets, three receivers        WireProofs (MCFraming: TLC)
    implements PacketStream

client
 Discovery           beacons, listening, the list of hosts    DiscoveryProofs
 ClientSession       surface callbacks, session coroutines    ClientSessionProofs
 FrameRing           ring buffer and decoder                  FrameRingProofs
    implements GopDelivery
 TouchInput          from the glass through both ends to Mutter   WireProofs (MCTouchInput: TLC)
```

Each module abstracts its neighbours to what it needs of them, as a rule in the direction that allows
more behaviour: in SessionGuard a session may last for ever or return at any time, and a
leftover reader may or may not keep the claim; in UsbSession the pipeline may fail to start and the
frame channel may close at any moment; in StreamRecovery the client may leave at any moment. TcpSession is
SessionGuard's other kind of session, with its display and pipeline in one module, as nothing recovers there.
Where a module allows less than the code, it is one of these: bounds (the cfg of each run; in TouchInput the user waits while
`MaxQueue` events are queued, `MayTouch`), one `offer` at a time (section 5), and in StreamRecovery no frame from a pipeline
after its `stop`, which waits for the streaming threads.

**SessionGuard** (`daemon.rs`). `flag` is `is_session_active`. A load and the store that
depends on it are two actions (`AcceptLoad`/`AcceptStore`; `IdleFind` ... `SpawnUsbSession`).
`watcher` is `UsbState`, refined by the await at which it stands: `opening` and `waitOpening`
are inside `find_and_open_accessory`, `scanning` inside `scan_and_switch_any`, `spawning` between the return of
the blocking call and the store. A session's task runs the handler
(`serving`), which returns (`returned`), and then clears the flag (`ClearFlag`). Time is in ticks of
500 ms. `claim` is the USB interface: it is exclusive, is freed with the last reference to the
stream, and is void when the device is gone. `overwritten` is history: TRUE was stored over
TRUE while somebody was served.

**UsbSession** (`handle_usb_client`, `usb.rs`, `DisplayFragment.kt`). `handler` follows the
function from top to bottom; `reader` and `writer` are the two threads of each session, with the
packet each has in hand, `usbIn` and `usbOut` the two channels, `closed` the flag of the stream, `toHost` and `toClient` what is under way
on the bus or in the accessory driver. A packet is its type and the connection it
comes from or answers. The early returns (`HelloPacket`, `HelloNone`, `StartPipeline`) leave
the threads behind, as in the code; the regular end closes the stream and joins them.

**StreamRecovery** (`session/mod.rs`, `mutter.rs`, `pipeline.rs`, `mutter_input.rs`). Displays are
numbered by the attempts to create one; a pipeline, its notifier and its frames carry the
number of the display they record, so that "belongs together" is an equation. `pc = "select"` is the moment in which the loop
listens; an error notified at any other moment is lost, because `notify_waiters` stores
nothing. The 500 ms timeout is enabled only when every other branch is quiet, as its timer starts anew in
each round; the client may send input for ever, a bounded number of events waiting at a time. The bus task of a pipeline that was stopped may still have an
error in hand (`bus = "late"`), and wakes the loop if no new pipeline could be built and it listens to the old notifier again. Calls to Mutter and GStreamer fail when `Fail` says so, within a bound.

**TcpSession** (`handle_client`, `run_session_loop`, `tcp.rs`). `pc` follows the function; `write` is
any place where it writes, and `writing` says what. A packet is two chunks, numbered per direction, which stand
for any cut of the byte stream: `readBuf` is `read_buf`, which keeps what a cancelled `read_packet` had
read, and `unwritten` what the current write still owes. `Drop` is what Rust does when the function
returns or its task is dropped: the pipeline stops, the connection to Mutter closes, nobody calls `Stop`. `ClientTypes` holds
what the protocol lets a client send; the app in this repository sends HELLO and input only.

**FrameRing** (`FrameRingBuffer.kt`, `H264Decoder.kt`). `offer` is four steps (flag, capacity, clear,
enqueue) between which decoders poll. Frames are numbered. Each decoder is one `start`, with its own `running`, its codec (`inputs`, `held`)
and the frame its feeding loop has `inHand`; `StartDecoder` is the running session's, on the buffer as the session before left it, and `StartStray`
that of a coroutine that was stopped before it got there, beside any other decoder. Feeding succeeds (`Feed`), finds no
buffer (`FeedTimeout`) or fails (`FeedFails`: an exception that is swallowed, or a null buffer), and in the latter two cases the loop goes
on with the next frame. `excused[d]` is history: since d last took a keyframe it lost a frame in this way, or another decoder took one; or it
began in midstream.

**GopDelivery** is the abstract promise: the buffer may leave frames out, but what it
hands over is a keyframe or the very next frame. FrameRing implements it with the
identity mapping on `keys` and `delivered`.

**Framing** (`packet.rs`, `tcp.rs`, `session/mod.rs`, `TcpClient.kt`, `UsbAccessoryTransport.kt`). One
direction of a connection is a stream of bytes: what an earlier session left, then packets. `fetched` is how
much of it was read, `consumed` how much was taken; the receivers differ in what they do where no header can be decoded
(`HostSkip` drops one byte, `ClientSlide` slides a window, `ClientHeader` throws on a bad length). A header has six
bytes, and the bytes that follow a torn header land in its length, as the real sixteen do. Its definitions are named
`StreamInit`, `StreamNext`, `StreamSpec`, so that one module can hold the proofs about it and about TouchInput.

**PacketStream** is the abstract promise: once the receiver has found the boundaries it gets every packet, once and in order;
before that it may hand up junk, miss packets or give up. `Safety` is the part of the promise that Framing is proved to implement (`KeepsPromise`);
`EverythingArrives`, that a receiver at the boundaries gets to the last packet, is checked by TLC (`HoldsNothingBack`). A packet handed up maps
to its number, or to 0 if it never was sent, and `aligned` to "nothing was left over, or a packet that was sent has been recognised".

**TouchInput** (`TouchInputHandler.kt`, `coordinate.rs`, `mutter_input.rs`). `glass` is what the user does, `queue` each
session's `inputChannel`, `wire` the connection, `touches` what Mutter shows. The places go through the real arithmetic: `Normalized`
is the client's, `ToDisplay` the host's. `own` and `strayed` are history: the fingers that came
down under this session's handler, and the slots a CANCEL left down, as the code reports slot 0 only. That a session's surface has its own handler is
assumed here; ClientSession says when it does not (`NoStaleScreen`).

**ClientSession** (`DisplayFragment.kt`). `started`, `sessionJob`, `activeTransport`, `decoder` are the
fragment's fields, holding session numbers; `pc[s]` is where the coroutine of session s stands. Cancellation is a flag
that a coroutine meets on entering and leaving `withContext`, and nowhere else, so it may still store its transport or its decoder over
those of its successor; `tardy` is history and remembers who did. `touchHandler` is a field too: it is stored on the I/O thread
(`StoreHandler`) and read on the main thread (`AttachTouch`), by whom it may. What the session reads and offers is UsbSession's and FrameRing's.

**Discovery** (`discovery.rs`, `HostDiscoveryManager.kt`, `DiscoveryFragment.kt`). `main` is where the main thread
stands in `stop`, `pc[j]` where the coroutine of the j-th `start` stands; `socket`, `job` and `hosts` are the fields they share. `Receive` reads
the field `socket` and `Received` waits on what was found there, as the code does anew for every datagram. A lost beacon is a step that changes nothing.

## 3. Runs

| Run | Question | Bounds | Result |
|---|---|---|---|
| `guard` | Does the flag follow the sessions; are connections and accessories taken? | 2 TCP clients, 2 USB sessions, waits of 1-2 ticks; 62 334 states | holds |
| `usb` | Whose input; do sessions end; is unplugging noticed; is the claim given up? | queues of 1, 2 sessions, 2 connections, 1 replugging; 233 918 states | holds |
| `usb_stale_ack` | "discard any stale packets from previous session" (`DisplayFragment.kt:188`) | no replugging | **violated** |
| `usb_reconnect` | "restarting session" (`session/mod.rs:368`) | no replugging | **violated** |
| `recovery` | Is a rebuilt stream consistent, and does the picture come back? | channel of 1, 2 breaks, 1 slow start, 2 failures, 1 input waiting; 57 538 states | holds |
| `recovery_input` | "directly targeted at the virtual display stream" (`docs/architecture.md:61`) | 1 break | **violated** |
| `tcp` | Is the stream intact, does a gone client end it, is input taken, does the monitor go? | 2 packets from the client, 4 from the host before pongs, 2 chunks under way, channel of 1; 104 576 states | holds |
| `framing` | Does the cut into reads matter; what does a leftover cost; does the last packet come? | 3 packets, every leftover of a torn one, every cut, 3 receivers; 53 549 states | holds |
| `touch` | Does the host follow the fingers, and let go of them? | 2 fingers in 3 places, 2 queued events, 1 on the wire, 2 sessions; 721 915 states | holds |
| `client` | What can a stopped session still do to its successor? | 2 sessions; 43 882 states | holds |
| `discovery` | Which sockets and jobs stay behind; are hosts listed all the same? | 2 hosts, junk, inbox of 1, 2 starts; 167 922 states | holds |
| `frames` | Does the ring keep groups of pictures whole? | capacity 2, 1 codec buffer, 5 frames, 2 decoders; 469 035 states | holds |

Why the bounds are enough. Two TCP clients and two USB sessions give every pair of sessions
that can overlap, and a third that enters over a wrongly cleared flag. A queue of capacity 1 is
empty, full and overflowing within one step, and a queue of 120 has no other boundary; two
sessions and two connections are the smallest case in which something of one meets another.
Five frames through a ring of two allow a loss, a drop state, a keyframe that
ends it, a full queue met by a keyframe, and a second decoder on what is left or beside the first. Two breaks and two
failures allow a failure inside the recovery from a failure. Two packets of a TCP client are its HELLO and
one that is half read, or waits complete, when the loop takes a frame instead. Three packets of a stream
are one that a torn header swallows, one at which the receiver finds the boundaries again, and one that has to be right after that;
their payloads are empty or as long as allowed, and the long one is the magic itself. Two fingers distinguish a finger's number from its index,
three places are beyond either edge and within. Two client sessions, or two starts of the listening, are one that was stopped and one
that runs; a third adds only that the first is older still, which the proofs cover. What the
bounds cut off is covered by the proofs of section 4 wherever there is one.

The runs that are violated are disagreements between the code and what its own comments and
documents say:

* `usb_stale_ack`, `usb_reconnect`: a HELLO_ACK does not say which HELLO it answers, and the
  HELLO that ends a session is consumed by it.
* `recovery_input`: a recovery replaces the display, not the input backend (`session/mod.rs:488`).

Other limits of the code are part of properties that hold, which name them as the only exceptions:

* `GuardExact`: more than one session is served at a time ("only one active session", `daemon.rs:55`) only after TRUE was
  stored over TRUE - the watcher stores it after an await without looking again (`daemon.rs:93`), and
  while it waits for re-enumeration it never looks (`daemon.rs:133`).
* `TornOnlyIfExcused`: a P-frame reaches a codec without its predecessor only if, since the decoder's last keyframe, its feeding loop forgot a frame
  that found no input buffer within 2 ms (`H264Decoder.kt:130`), no buffer behind its index (118) or an exception of the codec (133), or a second decoder
  took a frame from the buffer; or if the decoder started on a used buffer, or late. The ring is never the cause.
* `StreamRecovers`: a session without frames plays again or ends, unless the client sends input for ever. The "500ms watchdog" (`session/mod.rs:336`) is made
  anew in every round of `select!` (line 311), so a finger that keeps moving keeps missing frames from being noticed, whether they just stopped or the
  pipeline's error was notified while nobody listened.
* `NoStaleScreen`: the handler that the current session attaches is its own, or that of a stopped session that came late out of `dec.start` and stored its
  own (`DisplayFragment.kt:208`) between the current session's store and its attach at line 210; touches then go to a closed transport, and
  not "back to the Linux host" (`docs/android.md:32`).
* `TeardownCompletes`: a session that ends its loop returns, except where the handler joins its writer while it owns the sender the
  writer waits on (`session/mod.rs:383`), its reader while nobody empties `usb_in`, or a writer whose client is gone.
* `MonitorIsReleased`: the early returns between creating the display and the loop (`session/mod.rs:93`), and ctrl_c
  (`daemon.rs:195`), call no `Stop`, although `docs/linux-display.md:23` promises one on SIGINT and SIGTERM (and nothing handles SIGTERM);
  the monitor goes all the same, because Mutter removes what belonged to a closed connection.
* `LostOnlySwallowed`: over USB a torn header of an earlier session may take the bytes after it as its payload; a packet is missing only
  if it began in there.
* `HostFollows`, `HostCatchesUp`: a CANCEL lifts slot 0 only (`TouchInputHandler.kt:97`); the other slots stay down until
  their fingers come down again or the session ends.
* `ForgottenIsSilent`, `StrayDecoderIsTardy`, `StoppedSessionEnds`: a session stopped while it connects may keep its connection, and one stopped later
  its decoder, but only in these named ways; a stopped USB session may wait in its read for as long as no packet comes.
* `SocketsAccounted`, `StoppedListeningEnds`, `HostIsListed`: a job that publishes its socket after it was stopped leaks a socket, and a stopped job may
  wait on its successor's socket and take a beacon away, or write an old list over a new one; a host that goes on sending is listed all the same.

### Fairness

Liveness is checked under fairness of what the runtime and the kernel schedule, never of the user or the client.
SessionGuard: weak fairness of the accept loop and of the watcher, which
loops over sleeps; strong fairness of a successful open, which the watcher tries again and again. Nothing is
assumed of sessions: UsbSession shows that they may hang.
UsbSession: weak fairness of every thread and of the handler; strong fairness of the branches of `select!`, which
polls its ready branches in random order; a connected client reads; the encoder
yields frames (it repeats the last one every few milliseconds). The client need not connect, send or stay.
StreamRecovery: the same for the handler; a pipeline that is not broken yields frames. The client need not stop sending.
TcpSession: the handler goes on; strong fairness of reading, of taking a packet and of noticing an error, branches of the same
`select!`, which an endless stream of frames therefore cannot keep from their turn; a client that is there reads; Mutter removes the monitors of a closed connection. The client need not send or leave,
frames need not come.
FrameRing: the thread inside `offer` goes on, and every feeding loop polls and is done with what it took; nothing is assumed of the codecs.
Framing: bytes that were sent arrive, and the receiver, a loop, goes on.
TouchInput: the workers and the host's loop go on; the user may stop at any time.
ClientSession: the main thread and the coroutines go on, connecting ends (it has a timeout of 5 s), and a read on a socket that was closed
returns. A read of the accessory need not end, and the host need not answer.
Discovery: the main thread and the coroutines go on; a host that runs broadcasts again and again, and the network does not lose every one of its beacons from some
time on (strong fairness of `Beacon`).

`CHECK_DEADLOCK FALSE` is set for UsbSession, StreamRecovery, TcpSession, Framing and ClientSession, whose bounded sessions, clients and streams come
to an end. SessionGuard and FrameRing name the states in which they may stop (`Stopped`, `Done`); these, TouchInput and Discovery are checked for deadlock.

## 4. Proofs

TLAPS proves, for every value of the constants that satisfies the named assumptions:

* `SessionGuardProofs`: `TypeOK`, `GuardNotStranded`, `GuardExact`, `UsbSupervised`. With the type
  invariant these are inductive together. The argument for `GuardExact`: while `overwritten` is
  FALSE, at most one session is alive and the flag says whether there is one; a store of
  TRUE over FALSE adds the only one; a store over TRUE sets `overwritten`, which only the last session
  to end takes back. `UsbSupervised` needs in addition that a watcher outside
  `connected` has spawned nothing that is still alive.
* `FrameRingProofs`: `TypeOK`, `QueueIsGapFree`, `TornOnlyIfExcused` and that FrameRing implements
  GopDelivery. The property alone is not inductive: `offer` decides on what it saw two
  steps ago. The strengthening says, for each place inside `offer`, what its frame may follow: what is
  queued last or, with an empty queue, what the decoder took last; and that outside the drop state the last frame that
  arrived is the one queued or taken last (`OfferInv`). `CodecInv` says the same of the other end, for each decoder: while nothing excuses a gap, the next
  frame its codec can get - in hand, at the front of the queue, or inside `offer` - may follow the last one it got (`Chained`). A decoder that takes
  a frame excuses every other one, so at most one is without an excuse once frames flow.
* `StreamRecoveryProofs`: `TypeOK`, `StreamInSync`, `FramesAreCurrent`, `NoForgottenMonitor`. The
  strengthening follows backend and pipeline through setup and recovery: where the code expects a display there is
  one, it is the one its connection made, and Mutter has it (`DisplayInv`); a pipeline that is not stopped
  belongs to it, is the one the loop listens to, and is never found between the destroy and the
  rebuild (`PipelineInv`).

* `UsbSessionProofs`: `TypeOK` and `InputFromPeer`. The argument is about order. What the session took last, what is in
  `usb_in`, in the reader's hand and on the bus is one sequence (`Whole`), in which each packet is a HELLO or comes from the same
  connection as the one before it (`Grouped`); the loop injects the second element and ends at a HELLO. Taking, reading, sending on and unplugging keep that, and
  a client can only add behind its own HELLO (`Ends`), even one that a stale HELLO_ACK made send. `SessionInv` says that no other reader gets anything from the bus.
* `TcpSessionProofs`: `TypeOK`, `InputIntact`, `OutputIntact`. `InputInv` numbers the chunks in `read_buf` and under way and counts them
  against what the client sent, so that a packet can only be complete if the client began it; `OutputInv` adds that a handler that
  is not writing owes nothing to a client that is there.
* `ClientSessionProofs`: `TypeOK`, `ForgottenIsSilent`, `StrayDecoderIsTardy`, `NoStaleScreen`. The two properties are about sessions whose field
  was written over; the strengthening (`TransportInv`, `DecoderInv`) says of a session that still is in a field
  what it must have done to be there after its stop, and `JobInv` that at most the last session is not cancelled. `HandlerInv` says
  whose handler the field holds when a session that was not stopped is about to attach it: its own, or that of a tardy one.
* `DiscoveryProofs`: `SocketsAccounted`, with the same two ingredients (`FieldInv`, `JobInv`).
* `WireProofs`, about Framing: `CutsAreInvisible`, `LostOnlySwallowed`, `TcpSeesPackets`, that Framing implements PacketStream (`KeepsPromise`),
  and that with nothing left over the packets handed up are those that were sent (`SentIsReceived`) - for any stream of any
  packets, any bytes left over, and any cut into reads. The first group of lemmas says where the bytes of a packet lie (`PacketThere`: at
  its beginning every receiver sees its header, its length and its contents) and what the bytes after a place
  hold (`PacketsDef`, `NoHeaders`: places without a header yield what follows them). The invariant adds `Window`, what a receiver knows of the bytes it has taken but not used
  (no header begins among them, or the first one is the one it is reading), and `Settled`: as soon as a packet was recognised the
  receiver is at a boundary, behind the packet with the greatest number. Then the first header it meets is the next packet's, which
  gives the refinement; and a packet can only be passed over by one that begins before it and ends behind its first byte, which
  no packet that was sent does (`StartsAscend`).
* `WireProofs`, about TouchInput: `TypeOK` and `HostFollows`, and that a coordinate, normalized by the client and put on the display by the host, is less than one
  step of the scale away from the finger (`NormalizedIsNear`), for any widths. `GestureInv` says what the fingers of a gesture have
  to do with the touches the events on their way will make; the lemmas on `AfterAll` say that an event at the end of the
  queue acts last, and that injecting the first one leaves the outcome as it is.

Both are about functions defined by recursion over data of any length. The library's induction theorems take an operator as a parameter, which none of the
provers can instantiate, so `WireProofs` begins with its own: a set of numbers with 0 and with the successors of its members holds all numbers (`Induction`),
and repeating a step defines a function, and only one (`Recursion`, `RecursionUnique`). They speak of sets and functions, can be cited, and
are derived from the library's well-foundedness of < (`NatLessThanWellFounded`, `WFMin`). For this the models use recursive functions (`BytesUpTo`, `PacketsFrom`, `AfterAll`,
`Moves`) where a fold would do.

Each proof module has an inductive invariant (`IInv`; `FramingInv` and `TouchInv` in `WireProofs`), one lemma per action or group of actions, and a theorem that it
always holds; the other theorems follow. The parts of every such invariant were checked by TLC on the instances of section 3 before they were proved.
The assumptions are the ones named in the modules (distinct names, positive capacities, natural bounds, a magic that is neither a length nor a version); TLC evaluates them in every run.

Only model-checked: every liveness property (`AccessoryIsOpened`, `ConnectionIsTaken`, `KeyframeGetsThrough`, `StreamRecovers`,
`TeardownCompletes`, `UnplugIsNoticed`, `AbandonedStreamIsReleased`, `GoneClientEndsSession`, `InputIsTaken`, `MonitorIsReleased`,
`HoldsNothingBack`, `HostCatchesUp`, `StoppedSessionEnds`, `StoppedListeningEnds`, `HostIsListed`), as liveness under fairness and ENABLED are beyond this
prover. Every other property of a passing run is a theorem. Three theorems state what no run repeats: `TcpSeesPackets`, `SentIsReceived`
and ClientSession's `TypeOK`; they were checked once on the instances of section 3, and the proof carries them from there. No module declares a RECURSIVE operator.

## 5. Abstractions

* Time: only in the watcher's ticks. Timeouts are steps that may happen when their condition lasts.
* A packet crosses the USB bus whole and in order; unplugging loses what is under way. When the app closes
  the accessory the driver may keep or discard what was not read.
* `FrameRingBuffer.clear`, which nothing calls, is left out; an exception of the draining loop only delays an output.
  The session's stop does not wait for its coroutines, so a frame may still be offered or polled after it
  (`Offer`, `StopDecoder`); that an `offer` is still under way when the next session has finished its handshake is excluded: it
  takes microseconds. No two read loops offer at a time for longer: a stopped loop offers the packet it had read and ends.
* Relaxed atomics on one flag are sequentially consistent for that flag; each access is a step.
* A header has 6 bytes instead of 16. Three bytes of it (version, type, sequence) are small enough to be a length, the magic is not.
* One coordinate of a touch instead of two: both take the same way. Mutter lets a Down on a slot that is down move it, and ignores a
  motion of a slot that is not; when a RemoteDesktop session stops it lifts the touches of it.
* kotlinx cancels cooperatively: `withContext` throws on entry and on return, blocking calls are not interrupted. A socket or transport without
  a reference stays open until the garbage collector finds it, which is not modelled.
* The host's wait for a HELLO has no timeout (`session/mod.rs:39`): a connection that stays silent and alive holds the flag. No statement of the repository
  says otherwise, and no property here does; `GoneClientEndsSession` is about clients that leave.
* The fragment is one view; leaving it for the list of hosts ends what the model follows.

## 6. Plan

Done: the modules of section 2, their runs, and the proofs of section 4: every safety property that a run checks, and both refinements. Left, in this order:

1. **UsbSession** with **ClientSession**: the client of UsbSession is one process; a composition with the coroutines of ClientSession would show which of
   two sessions of one app reads the accessory.
2. The safety part of the liveness properties that only TLC checks (what a state that may stop for ever looks like), as theorems.

Judged not to be worth a module: a composition of the host's two dropping queues with FrameRing. The client looks at nothing that a property
of it could be about, and the composition would only restate that the host drops frames.
