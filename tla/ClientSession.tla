---------------------------- MODULE ClientSession ----------------------------
(***************************************************************************)
(* The client's DisplayFragment: one view, and the sessions that the       *)
(* surface's callbacks start and stop.  A session is a coroutine on an I/O *)
(* thread that connects, says HELLO, waits for the answer, starts a        *)
(* decoder, attaches the touch handler and reads packets; it shares        *)
(* activeTransport, decoder, touchHandler and sessionJob with the other    *)
(* sessions and with stopDisplaySession, which runs on the main thread,    *)
(* without a lock.                                                         *)
(*                                                                         *)
(* Cancelling a coroutine interrupts nothing.  A cancelled one finds out   *)
(* where it enters or leaves withContext (connect, open, sendRaw,          *)
(* readPacket and every block for the main thread), which then throws, and *)
(* its finally block is no exception: disconnectAndExit runs only for a    *)
(* session that was not stopped.                                           *)
(***************************************************************************)
EXTENDS Naturals, FiniteSets

CONSTANT MaxSessions  \* bound: sessions of one view

ASSUME MaxAssumption == MaxSessions \in Nat \ {0}

VARIABLES
    isUsb,            \* the fragment is a USB instance
    view,             \* the fragment's view, and with it its lifecycleScope, lives
    surface,          \* surfaceReady
    main,             \* where the main thread stands in stopDisplaySession
    exiting,          \* it goes on to navigateBack
    started,          \* sessions started so far
    sessionJob,       \* the fragment's fields: a session's number, or 0
    activeTransport,
    decoder,
    touchHandler,
    pc,               \* where the coroutine of each session stands
    cancelled,        \* its job is cancelled
    transport,        \* its transport: "none", "open" or "closed"
    running,          \* isRunning of its decoder, with a worker that polls
    listener,         \* the session whose handler gets the touches
    greeted,          \* history: the session sent its HELLO
    tardy             \* history: sessions that wrote a field of the fragment, or
                      \* started their decoder, after they were stopped

vars == <<isUsb, view, surface, main, exiting, started, sessionJob, activeTransport, decoder,
          touchHandler, pc, cancelled, transport, running, listener, greeted, tardy>>

screen == <<isUsb, view, surface, main, exiting, started, sessionJob>>

Sessions == 1..MaxSessions

Init ==
    /\ isUsb \in BOOLEAN
    /\ view = TRUE /\ surface = FALSE
    /\ main = "idle" /\ exiting = FALSE
    /\ started = 0 /\ sessionJob = 0 /\ activeTransport = 0 /\ decoder = 0
    /\ touchHandler = 0
    /\ pc = [s \in Sessions |-> "none"]
    /\ cancelled = [s \in Sessions |-> FALSE]
    /\ transport = [s \in Sessions |-> "none"]
    /\ running = [s \in Sessions |-> FALSE]
    /\ listener = 0
    /\ greeted = [s \in Sessions |-> FALSE]
    /\ tardy = {}

(***************************************************************************)
(* The main thread                                                         *)
(***************************************************************************)
\* surfaceCreated; not after an exit, which takes the fragment away.
SurfaceCreated ==
    /\ main = "idle" /\ view /\ ~surface /\ ~exiting /\ started < MaxSessions
    /\ surface' = TRUE
    /\ started' = started + 1
    /\ sessionJob' = started'
    /\ pc' = [pc EXCEPT ![started'] = "launched"]
    /\ UNCHANGED <<isUsb, view, main, exiting, activeTransport, decoder, cancelled, transport,
                   running, touchHandler, listener, greeted, tardy>>

\* sessionJob?.cancel(); sessionJob = null
CancelJob ==
    /\ cancelled' = [s \in Sessions |-> cancelled[s] \/ s = sessionJob]
    /\ sessionJob' = 0
    /\ main' = "stopDecoder"

\* surfaceDestroyed, or a click on btnDisconnect, while nothing else runs.
Stop ==
    /\ main = "idle" /\ view
    /\ \/ surface /\ surface' = FALSE /\ exiting' = exiting
       \/ ~exiting /\ surface' = surface /\ exiting' = TRUE
    /\ CancelJob
    /\ UNCHANGED <<isUsb, view, started, activeTransport, decoder, pc, transport,
                   running, touchHandler, listener, greeted, tardy>>

\* onDestroyView, after the surface is gone; the lifecycleScope is cancelled
\* before, and with it the workers of decoders and handlers.
DestroyView ==
    /\ main = "idle" /\ view /\ ~surface
    /\ view' = FALSE
    /\ running' = [s \in Sessions |-> FALSE]
    /\ CancelJob
    /\ UNCHANGED <<isUsb, surface, exiting, started, activeTransport, decoder, pc, transport,
                   touchHandler, listener, greeted, tardy>>

\* Mutant: only the reference is dropped.
StopDecoderForgets ==
    /\ main = "stopDecoder"
    /\ decoder' = 0
    /\ main' = "closeTransport"
    /\ UNCHANGED <<isUsb, view, surface, exiting, started, sessionJob, activeTransport, pc,
                   cancelled, transport, running, touchHandler, listener, greeted, tardy>>

\* decoder?.stop(); decoder = null
StopDecoder ==
    /\ main = "stopDecoder"
    /\ running' = [s \in Sessions |-> running[s] /\ s # decoder]
    /\ decoder' = 0
    /\ main' = "closeTransport"
    /\ UNCHANGED <<isUsb, view, surface, exiting, started, sessionJob, activeTransport, pc,
                   cancelled, transport, touchHandler, listener, greeted, tardy>>

\* Mutant: the transport is left to the session, which closes it nowhere.
CloseTransportForgets ==
    /\ main = "closeTransport"
    /\ activeTransport' = 0
    /\ main' = "idle"
    /\ pc' = [s \in Sessions |-> IF pc[s] = "exit" THEN "done" ELSE pc[s]]
    /\ UNCHANGED <<isUsb, view, surface, exiting, started, sessionJob, decoder, cancelled,
                   transport, running, touchHandler, listener, greeted, tardy>>

\* activeTransport?.close(); activeTransport = null; then navigateBack, if at all
CloseTransport ==
    /\ main = "closeTransport"
    /\ transport' = [s \in Sessions |-> IF s = activeTransport THEN "closed" ELSE transport[s]]
    /\ activeTransport' = 0
    /\ main' = "idle"
    /\ pc' = [s \in Sessions |-> IF pc[s] = "exit" THEN "done" ELSE pc[s]]
    /\ UNCHANGED <<isUsb, view, surface, exiting, started, sessionJob, decoder, cancelled,
                   running, touchHandler, listener, greeted, tardy>>

(***************************************************************************)
(* The coroutine of session s                                              *)
(***************************************************************************)
Noted(s) == tardy' = IF cancelled[s] THEN tardy \cup {s} ELSE tardy

\* Where a cancelled coroutine notices it: the exception leads to the end, as
\* the withContext of the finally block throws again.
Checked(s, next) == pc' = [pc EXCEPT ![s] = IF cancelled[s] THEN "done" ELSE next]

\* A plain step of the code, which looks at nothing.
Goto(s, next) == pc' = [pc EXCEPT ![s] = next]

\* Connecting ...: the coroutine starts, and shows it on the main thread.
Show(s) ==
    /\ pc[s] = "launched" /\ (main = "idle" \/ cancelled[s])
    /\ Checked(s, "connect")
    /\ UNCHANGED <<screen, activeTransport, decoder, cancelled, transport, running,
                   touchHandler, listener, greeted, tardy>>

\* The accessory driver opens once at a time: it is busy while another transport
\* is open, or a read still blocks on one that is closed.
Busy(s) ==
    isUsb /\ \E r \in Sessions \ {s} :
        transport[r] = "open" \/ (transport[r] = "closed" /\ pc[r] \in {"ack", "loop"})

\* connect or open succeeds; a session that was stopped meanwhile forgets what
\* it has opened.
Connect(s) ==
    /\ pc[s] = "connect" /\ ~Busy(s)
    /\ transport' = [transport EXCEPT ![s] = "open"]
    /\ Checked(s, "store")
    /\ UNCHANGED <<screen, activeTransport, decoder, cancelled, running,
                   touchHandler, listener, greeted, tardy>>

ConnectFails(s) ==
    /\ pc[s] = "connect"
    /\ Checked(s, "finally")
    /\ UNCHANGED <<screen, activeTransport, decoder, cancelled, transport, running,
                   touchHandler, listener, greeted, tardy>>

\* activeTransport = transport
Store(s) ==
    /\ pc[s] = "store"
    /\ activeTransport' = s
    /\ Noted(s)
    /\ Goto(s, "hello")
    /\ UNCHANGED <<screen, decoder, cancelled, transport, running, touchHandler, listener,
                   greeted>>

\* sendRaw(MSG_HELLO); it throws where the connection is gone.
SendHello(s) ==
    /\ pc[s] = "hello"
    /\ \/ /\ ~cancelled[s] /\ transport[s] = "open"
          /\ greeted' = [greeted EXCEPT ![s] = TRUE]
          /\ Goto(s, "ack")
       \/ Checked(s, "finally") /\ UNCHANGED greeted
    /\ UNCHANGED <<screen, activeTransport, decoder, cancelled, transport, running,
                   touchHandler, listener, tardy>>

\* HELLO_ACK arrives.
ReadAck(s) ==
    /\ pc[s] = "ack" /\ transport[s] = "open"
    /\ Checked(s, "decoder")
    /\ UNCHANGED <<screen, activeTransport, decoder, cancelled, transport, running,
                   touchHandler, listener, greeted, tardy>>

\* decoder = dec
StoreDecoder(s) ==
    /\ pc[s] = "decoder"
    /\ decoder' = s
    /\ Noted(s)
    /\ Goto(s, "start")
    /\ UNCHANGED <<screen, activeTransport, cancelled, transport, running, touchHandler,
                   listener, greeted>>

\* dec.start(lifecycleScope): isRunning and the worker, if a codec can be had.
StartDecoder(s) ==
    /\ pc[s] = "start"
    /\ \/ /\ view
          /\ running' = [running EXCEPT ![s] = TRUE]
          /\ Noted(s)
       \/ UNCHANGED <<running, tardy>>
    /\ Goto(s, "handler")
    /\ UNCHANGED <<screen, activeTransport, decoder, cancelled, transport, touchHandler,
                   listener, greeted>>

\* touchHandler = TouchInputHandler(...); viewLifecycleOwner may throw once the
\* view is gone.
StoreHandler(s) ==
    /\ pc[s] = "handler"
    /\ \/ touchHandler' = s /\ Noted(s) /\ Goto(s, "attach")
       \/ ~view /\ Goto(s, "finally") /\ UNCHANGED <<touchHandler, tardy>>
    /\ UNCHANGED <<screen, activeTransport, decoder, cancelled, transport, running,
                   listener, greeted>>

\* setOnTouchListener(touchHandler), on the main thread: whichever handler is in the
\* field by now.
AttachTouch(s) ==
    /\ pc[s] = "attach" /\ (main = "idle" \/ cancelled[s])
    /\ Checked(s, "loop")
    /\ listener' = IF cancelled[s] THEN listener ELSE touchHandler
    /\ UNCHANGED <<screen, activeTransport, decoder, cancelled, transport, running,
                   touchHandler, greeted, tardy>>

\* A packet in the loop; MSG_DISCONNECT leaves it.
ReadPacket(s) ==
    /\ pc[s] = "loop" /\ transport[s] = "open"
    /\ \E next \in {"loop", "finally"} : Checked(s, next)
    /\ UNCHANGED <<screen, activeTransport, decoder, cancelled, transport, running,
                   touchHandler, listener, greeted, tardy>>

\* A read ends with an exception: the host is gone, or the transport closed.
ReadFails(s) ==
    /\ pc[s] \in {"ack", "loop"}
    /\ Checked(s, "finally")
    /\ UNCHANGED <<screen, activeTransport, decoder, cancelled, transport, running,
                   touchHandler, listener, greeted, tardy>>

\* Mutant: the block is made uncancellable (withContext(NonCancellable + Main)).
FinallyAlways(s) ==
    /\ pc[s] = "finally" /\ main = "idle"
    /\ exiting' = TRUE
    /\ CancelJob
    /\ Goto(s, "exit")
    /\ UNCHANGED <<isUsb, view, surface, started, activeTransport, decoder, transport,
                   running, touchHandler, listener, greeted, tardy>>

\* withContext(Main) { disconnectAndExit() }
Finally(s) ==
    /\ pc[s] = "finally"
    /\ IF cancelled[s]
         THEN Goto(s, "done") /\ UNCHANGED <<main, exiting, sessionJob, cancelled>>
         ELSE main = "idle" /\ exiting' = TRUE /\ CancelJob /\ Goto(s, "exit")
    /\ UNCHANGED <<isUsb, view, surface, started, activeTransport, decoder, transport, running,
                   touchHandler, listener, greeted, tardy>>

\* The steps a coroutine takes by itself, and those of others that it waits for.
Step(s) ==
    \/ Show(s) \/ Store(s) \/ SendHello(s)
    \/ StoreDecoder(s) \/ StartDecoder(s) \/ StoreHandler(s)
    \/ AttachTouch(s) \/ Finally(s)

ConnectEnds(s) == Connect(s) \/ ConnectFails(s)

\* Closing a socket ends the read that blocks on it; closing the accessory does not.
ReadIsEnded(s) == ~isUsb /\ transport[s] = "closed" /\ ReadFails(s)

MainGoesOn == StopDecoder \/ CloseTransport

Next ==
    \/ SurfaceCreated \/ Stop \/ DestroyView \/ MainGoesOn
    \/ \E s \in Sessions :
        Step(s) \/ ConnectEnds(s) \/ ReadAck(s) \/ ReadPacket(s) \/ ReadFails(s)

\* Threads go on and connecting ends (after 5 s at the latest).  Nothing is
\* assumed of the user or of the host.
Spec ==
    /\ Init /\ [][Next]_vars
    /\ WF_vars(MainGoesOn)
    /\ \A s \in Sessions :
        WF_vars(Step(s)) /\ WF_vars(ConnectEnds(s)) /\ WF_vars(ReadIsEnded(s))

-----------------------------------------------------------------------------
(* Properties *)

Steps == {"none", "launched", "connect", "store", "hello", "ack", "decoder", "start",
          "handler", "attach", "loop", "finally", "exit", "done"}

TypeOK ==
    /\ isUsb \in BOOLEAN /\ view \in BOOLEAN /\ surface \in BOOLEAN /\ exiting \in BOOLEAN
    /\ main \in {"idle", "stopDecoder", "closeTransport"}
    /\ started \in 0..MaxSessions
    /\ {sessionJob, activeTransport, decoder, touchHandler, listener} \subseteq 0..started
    /\ pc \in [Sessions -> Steps]
    /\ \A s \in Sessions : pc[s] = "none" <=> s > started
    /\ cancelled \in [Sessions -> BOOLEAN] /\ greeted \in [Sessions -> BOOLEAN]
    /\ transport \in [Sessions -> {"none", "open", "closed"}]
    /\ running \in [Sessions -> {r \in BOOLEAN : r => view}]
    /\ tardy \subseteq {s \in Sessions : cancelled[s]}

\* A connection that the fragment can no longer close was opened while its session
\* was being stopped, and no HELLO was sent on it - unless an older session that
\* was stopped came late and wrote over activeTransport.  (It lasts until the
\* garbage collector finds it, and the host waits for its HELLO.)
ForgottenIsSilent ==
    \A s \in Sessions :
        (transport[s] = "open" /\ activeTransport # s /\ pc[s] # "store") =>
            \/ cancelled[s] /\ ~greeted[s]
            \/ \E r \in tardy : r < s

\* A decoder that the fragment can no longer stop, and that takes frames from the
\* buffer the next session fills, was started after its session was stopped, or
\* an older session that was stopped came late and wrote over decoder.
StrayDecoderIsTardy ==
    \A s \in Sessions : running[s] => decoder = s \/ \E r \in tardy : r <= s

\* Only the current session touches the screen, attaching a handler to the surface or
\* leaving for the list of hosts: one that ends when the user has moved on does
\* not end the session the user moved on to.  The handler it attaches is its own,
\* or that of an older session that was stopped, came late and wrote over the field
\* (the touches then go to a transport that is closed).
NoStaleScreen ==
    [][/\ listener' # listener =>
            /\ sessionJob = started
            /\ listener' = started \/ listener' \in tardy
       /\ \A s \in Sessions :
            pc[s] # "exit" /\ pc'[s] = "exit" => sessionJob = s /\ started = s]_vars

\* A stopped session comes to its end, but for a read that nobody interrupts: over
\* USB, or where an older session wrote over the transport that was to be closed.
StoppedSessionEnds ==
    \A s \in Sessions :
        cancelled[s] ~> \/ pc[s] = "done"
                        \/ pc[s] \in {"ack", "loop"} /\ (isUsb \/ \E r \in tardy : r < s)

=============================================================================
