---------------------------- MODULE StreamRecovery ----------------------------
(***************************************************************************)
(* The video side of a USB session: the virtual display                    *)
(* (host/src/display/mutter.rs), the encoder pipeline fed from it          *)
(* (host/src/encoder/pipeline.rs) with its bus task and frame channel, and *)
(* the loop of handle_usb_client (host/src/session/mod.rs) that forwards   *)
(* frames, injects input and, when the pipeline reports an error or no     *)
(* frame comes for 500 ms, rebuilds display and pipeline (recover_display).*)
(*                                                                         *)
(* Displays are numbered by the attempts to create them, 0 is none.  A     *)
(* pipeline, its notifier and the frames it yields have the number of the  *)
(* display it records.  Packets and threads are UsbSession's; GNOME Mutter *)
(* and GStreamer are modelled from how the code uses them.                 *)
(***************************************************************************)
EXTENDS Naturals, Sequences

CONSTANTS
    ChanCap,    \* capacity of the frame channel, 16
    MaxBreaks,  \* bound: times a pipeline fails or stalls
    MaxSlow,    \* bound: times a new pipeline takes more than 500 ms to its first frame
    MaxFails,   \* bound: calls to Mutter or to GStreamer that fail
    MaxInputs   \* bound: input events waiting at a time

ASSUME BoundAssumption ==
    /\ ChanCap \in Nat \ {0}
    /\ MaxBreaks \in Nat /\ MaxSlow \in Nat /\ MaxFails \in Nat /\ MaxInputs \in Nat

VARIABLES
    pc,          \* where the handler stands
    kind,        \* the backend: "mutter" or the "test" pattern
    made,        \* attempts to create a display so far
    display,     \* the display the backend holds (its session_path)
    conn,        \* the display whose D-Bus connection the backend keeps open
    monitors,    \* virtual monitors in Mutter
    abandoned,   \* history: monitors that no Stop has reached and none will
    pipe,        \* the handler's pipeline
    pstate,      \* "starting", "playing", "stalled", "failed" or "stopped"
    bus,         \* the pipeline's bus task: "watching", "late" (it has an error in
                 \* hand that it has not notified yet) or "done"
    notifier,    \* the pipeline whose Notify the loop waits on
    woken,       \* the notified() future of this round of select! is complete
    frames,      \* frame_rx: the pipelines that the queued frames come from
    chanOpen,    \* the frame channel has a sender
    inputStream, \* the display the input backend was opened for; 0: none
    inputs,      \* input events waiting in usb_in
    breaks, slow, fails

counters    == <<breaks, slow, fails>>
displayVars == <<kind, made, display, conn, monitors, abandoned>>
pipeVars    == <<pipe, pstate, bus, notifier, frames, chanOpen>>
inputVars   == <<inputStream, inputs>>
vars == <<pc, kind, made, display, conn, monitors, abandoned, pipe, pstate, bus, notifier,
          woken, frames, chanOpen, inputStream, inputs, breaks, slow, fails>>

Yielding == {"starting", "playing"}

Init ==
    /\ pc = "create"
    /\ kind \in {"mutter", "test"}
    /\ made = 0 /\ display = 0 /\ conn = 0
    /\ monitors = {} /\ abandoned = {}
    /\ pipe = 0 /\ pstate = "stopped" /\ bus = "done" /\ notifier = 0 /\ woken = FALSE
    /\ frames = <<>> /\ chanOpen = FALSE
    /\ inputStream = 0 /\ inputs = 0
    /\ breaks = 0 /\ slow = 0 /\ fails = 0

Fail == fails < MaxFails /\ fails' = fails + 1

-----------------------------------------------------------------------------
(* The display backend *)

\* create_virtual_display: the new connection replaces the old one.  The test
\* pattern has no monitor.
DisplayUp ==
    /\ made' = made + 1
    /\ display' = made + 1
    /\ IF kind = "mutter"
       THEN monitors' = monitors \cup {made + 1} /\ conn' = made + 1
       ELSE UNCHANGED <<monitors, conn>>
    /\ UNCHANGED abandoned

\* It fails, before RecordVirtual made a monitor or after (the signal with the node
\* did not come within 5 s): the backend keeps nothing of it.
DisplayError ==
    /\ kind = "mutter"
    /\ Fail
    /\ made' = made + 1
    /\ \E m \in {{}, {made + 1}} :
          /\ monitors' = monitors \cup m
          /\ abandoned' = abandoned \cup m
    /\ UNCHANGED <<display, conn>>

\* destroy_virtual_display: Stop, whose failure is ignored, and forget the session.
DestroyDisplay ==
    /\ \/ /\ kind = "mutter" /\ display # 0
          /\ \/ monitors' = monitors \ {display} /\ UNCHANGED <<abandoned, fails>>
             \/ Fail /\ abandoned' = abandoned \cup {display} /\ UNCHANGED monitors
       \/ /\ kind = "test" \/ display = 0
          /\ UNCHANGED <<monitors, abandoned, fails>>
    /\ display' = 0
    /\ UNCHANGED <<kind, made>>

\* Mutter removes a monitor whose D-Bus peer is gone.
MutterReaps ==
    /\ \E m \in monitors \ {conn} : monitors' = monitors \ {m}
    /\ UNCHANGED <<pc, kind, made, display, conn, abandoned, pipeVars, woken, inputVars,
                   counters>>

-----------------------------------------------------------------------------
(* The pipeline *)

\* Mutant of PushFrame: the channel is not bounded.
PushFrameUnbounded ==
    /\ pstate \in Yielding \cup {"stalled"} /\ chanOpen
    /\ pstate' = "playing"
    /\ Len(frames) <= ChanCap
    /\ frames' = Append(frames, pipe)
    /\ UNCHANGED <<pc, displayVars, pipe, bus, notifier, woken, chanOpen, inputVars, counters>>

\* The appsink callback: a sample is queued, or dropped when the channel is full.  A
\* stall may end by itself.
PushFrame ==
    /\ pstate \in Yielding \cup {"stalled"} /\ chanOpen
    /\ pstate' = "playing"
    /\ Len(frames) < ChanCap
    /\ frames' = Append(frames, pipe)
    /\ UNCHANGED <<pc, displayVars, pipe, bus, notifier, woken, chanOpen, inputVars, counters>>

\* The pipeline posts an error or EOS, or GNOME reconfigures the display and the
\* frames just stop.
PipelineBreaks ==
    /\ pstate \in Yielding
    /\ breaks < MaxBreaks /\ breaks' = breaks + 1
    /\ pstate' \in {"failed", "stalled"}
    /\ UNCHANGED <<pc, displayVars, pipe, bus, notifier, woken, frames, chanOpen, inputVars,
                   slow, fails>>

\* The bus task sees the error and calls notify_waiters, which wakes a loop that is in
\* select! on this Notify and is lost on any other.  The task ends.  It may come to
\* that when the pipeline is stopped already.
BusNotifies ==
    /\ \/ bus = "watching" /\ pstate = "failed"
       \/ bus = "late"
    /\ bus' = "done"
    /\ woken' = (woken \/ (pc = "select" /\ notifier = pipe))
    /\ UNCHANGED <<pc, displayVars, pipe, pstate, notifier, frames, chanOpen, inputVars,
                   counters>>

\* VideoPipeline::new and start, on the display just created, with a new channel.
PipelineUp ==
    /\ pipe' = display
    /\ bus' = "watching"
    /\ frames' = <<>> /\ chanOpen' = TRUE

-----------------------------------------------------------------------------
(* handle_usb_client: setup *)

\* When Mutter's display cannot be created the test pattern takes its place.
Create ==
    /\ pc = "create"
    /\ \/ DisplayUp /\ pc' = "openInput" /\ UNCHANGED <<kind, fails>>
       \/ DisplayError /\ kind' = "test" /\ UNCHANGED pc
    /\ UNCHANGED <<pipeVars, woken, inputVars, breaks, slow>>

\* The input backend is opened for this display, or is the uinput stub.
OpenInput ==
    /\ pc = "openInput"
    /\ \/ kind = "mutter" /\ inputStream' = display /\ UNCHANGED fails
       \/ kind = "mutter" /\ Fail /\ UNCHANGED inputStream
       \/ kind = "test" /\ UNCHANGED <<inputStream, fails>>
    /\ pc' = "build"
    /\ UNCHANGED <<displayVars, pipeVars, woken, inputs, breaks, slow>>

\* The pipeline starts, or the handler returns and drops the backend without a Stop.
Build ==
    /\ pc = "build"
    /\ \/ /\ PipelineUp
          /\ pstate' = "starting" /\ notifier' = display
          /\ pc' = "body"
          /\ UNCHANGED <<display, conn, abandoned, fails>>
       \/ /\ Fail
          /\ pc' = "ended"
          /\ display' = 0 /\ conn' = 0
          /\ abandoned' = abandoned \cup (monitors \cap {display})
          /\ UNCHANGED pipeVars
    /\ UNCHANGED <<kind, made, monitors, woken, inputVars, breaks, slow>>

(* The loop.  "body": a branch is running, or is over, and nothing listens. *)

\* The next round of select!: a new notified() future and a new 500 ms timer.
Resume ==
    /\ pc = "body"
    /\ pc' = "select"
    /\ UNCHANGED <<displayVars, pipeVars, woken, inputVars, counters>>

LoopNotified ==
    /\ pc = "select" /\ woken
    /\ pc' = "stop"
    /\ woken' = FALSE
    /\ UNCHANGED <<displayVars, pipeVars, inputVars, counters>>

\* A frame is forwarded; an error notified in the same round is forgotten.
LoopFrame ==
    /\ pc = "select" /\ frames # <<>>
    /\ frames' = Tail(frames)
    /\ pc' = "body"
    /\ woken' = FALSE
    /\ UNCHANGED <<displayVars, pipe, pstate, bus, notifier, chanOpen, inputVars, counters>>

LoopNone ==
    /\ pc = "select" /\ frames = <<>> /\ ~chanOpen
    /\ pc' = "closing"
    /\ woken' = FALSE
    /\ UNCHANGED <<displayVars, pipeVars, inputVars, counters>>

\* Mutant of Watchdog: the timeout goes unanswered, the error is what matters.
WatchdogIgnored ==
    /\ pc = "select" /\ frames = <<>> /\ chanOpen /\ ~woken /\ inputs = 0
    /\ \/ pstate \in {"stopped", "stalled", "failed"} /\ UNCHANGED slow
       \/ pstate = "starting" /\ slow < MaxSlow /\ slow' = slow + 1
    /\ pc' = "body"
    /\ UNCHANGED <<displayVars, pipeVars, woken, inputVars, breaks, fails>>

\* 500 ms pass in one round of select!: every other branch was quiet.  A pipeline
\* that plays repeats its last frame more often than that (keepalive-time).
Watchdog ==
    /\ pc = "select" /\ frames = <<>> /\ chanOpen /\ ~woken /\ inputs = 0
    /\ \/ pstate \in {"stopped", "stalled", "failed"} /\ UNCHANGED slow
       \/ pstate = "starting" /\ slow < MaxSlow /\ slow' = slow + 1
    /\ pc' = "stop"
    /\ UNCHANGED <<displayVars, pipeVars, woken, inputVars, breaks, fails>>

\* An input event, injected with an await on D-Bus.
LoopInput ==
    /\ pc = "select" /\ inputs > 0
    /\ inputs' = inputs - 1
    /\ pc' = "body"
    /\ woken' = FALSE
    /\ UNCHANGED <<displayVars, pipeVars, inputStream, counters>>

\* DISCONNECT, HELLO, or the writer is gone.
LoopEnd ==
    /\ pc = "select"
    /\ pc' = "closing"
    /\ woken' = FALSE
    /\ UNCHANGED <<displayVars, pipeVars, inputVars, counters>>

ClientInput ==
    /\ pc # "ended"
    /\ inputs < MaxInputs /\ inputs' = inputs + 1
    /\ UNCHANGED <<pc, displayVars, pipeVars, woken, inputStream, counters>>

-----------------------------------------------------------------------------
(* recover_display *)

\* The pipeline's bus is flushed, but for an error that the bus task took before.
RecoverStop ==
    /\ pc = "stop"
    /\ pstate' = "stopped"
    /\ bus' \in {bus} \cup {b \in {"late"} : bus = "watching" /\ pstate = "failed"}
    /\ pc' = "destroy"
    /\ UNCHANGED <<displayVars, pipe, notifier, woken, frames, chanOpen, inputVars,
                   counters>>

\* Mutant of RecoverDestroy: the backend's session is forgotten, not stopped.
RecoverDestroyForgets ==
    /\ pc = "destroy"
    /\ display' = 0
    /\ pc' = "recreate"
    /\ UNCHANGED <<kind, made, conn, monitors, abandoned, pipeVars, woken, inputVars, counters>>

RecoverDestroy ==
    /\ pc = "destroy"
    /\ DestroyDisplay /\ UNCHANGED conn
    /\ pc' = "recreate"
    /\ UNCHANGED <<pipeVars, woken, inputVars, breaks, slow>>

\* 250 ms later.  On failure the loop goes on with the stopped pipeline and its
\* channel, and the watchdog tries again.
RecoverCreate ==
    /\ pc = "recreate"
    /\ \/ DisplayUp /\ pc' = "rebuild" /\ UNCHANGED fails
       \/ DisplayError /\ pc' = "body"
    /\ UNCHANGED <<kind, pipeVars, woken, inputVars, breaks, slow>>

\* Mutant of RecoverBuild: the loop keeps waiting on the notifier of the old pipeline.
RecoverBuildDeaf ==
    /\ pc = "rebuild"
    /\ pc' = "body"
    /\ \/ /\ PipelineUp
          /\ pstate' = "starting"
          /\ UNCHANGED <<notifier, fails>>
       \/ /\ Fail
          /\ frames' = <<>> /\ chanOpen' = FALSE
          /\ UNCHANGED <<pipe, pstate, bus, notifier>>
    /\ UNCHANGED <<displayVars, woken, inputVars, breaks, slow>>

\* Mutant of RecoverBuild: the new pipeline sends into the old channel.
RecoverBuildSameChannel ==
    /\ pc = "rebuild"
    /\ pc' = "body"
    /\ \/ /\ pipe' = display /\ notifier' = display
          /\ bus' = "watching" /\ pstate' = "starting"
          /\ UNCHANGED <<frames, chanOpen, fails>>
       \/ /\ Fail
          /\ UNCHANGED pipeVars
    /\ UNCHANGED <<displayVars, woken, inputVars, breaks, slow>>

\* The channel is replaced first.  A start that fails is ignored; when the pipeline
\* cannot even be built, the sender of the new channel goes with it.
RecoverBuild ==
    /\ pc = "rebuild"
    /\ pc' = "body"
    /\ \/ /\ PipelineUp
          /\ notifier' = display
          /\ \/ pstate' = "starting" /\ UNCHANGED fails
             \/ Fail /\ pstate' \in {"stalled", "failed"}
       \/ /\ Fail
          /\ frames' = <<>> /\ chanOpen' = FALSE
          /\ UNCHANGED <<pipe, pstate, bus, notifier>>
    /\ UNCHANGED <<displayVars, woken, inputVars, breaks, slow>>

(* The end of the session *)

Close ==
    /\ pc = "closing"
    /\ pstate' = "stopped"
    /\ pc' = "release"
    /\ UNCHANGED <<displayVars, pipe, bus, notifier, woken, frames, chanOpen, inputVars,
                   counters>>

\* The backend goes when the handler returns, and its connection with it.
Release ==
    /\ pc = "release"
    /\ DestroyDisplay
    /\ conn' = 0
    /\ pc' = "ended"
    /\ UNCHANGED <<pipeVars, woken, inputVars, breaks, slow>>

-----------------------------------------------------------------------------

Setup   == Create \/ OpenInput \/ Build
Recover == RecoverStop \/ RecoverDestroy \/ RecoverCreate \/ RecoverBuild
Loop    == LoopNotified \/ LoopFrame \/ LoopNone \/ Watchdog \/ LoopInput \/ LoopEnd

Next ==
    \/ Setup \/ Resume \/ Loop \/ Recover \/ Close \/ Release
    \/ PushFrame \/ PipelineBreaks \/ BusNotifies \/ MutterReaps
    \/ ClientInput

Spec == Init /\ [][Next]_vars

\* The handler goes on when it can and select! starves no ready branch; a pipeline
\* that is not broken yields frames.  The client need not send or leave.
Fairness ==
    /\ WF_vars(Setup) /\ WF_vars(Resume) /\ WF_vars(Recover)
    /\ WF_vars(Close) /\ WF_vars(Release)
    /\ SF_vars(LoopNotified) /\ SF_vars(LoopFrame) /\ SF_vars(LoopInput)
    /\ WF_vars(LoopNone) /\ WF_vars(Watchdog)
    /\ WF_vars(PushFrame /\ pstate \in Yielding) /\ WF_vars(BusNotifies)

FairSpec == Spec /\ Fairness

-----------------------------------------------------------------------------
(* Properties *)

Pcs == {"create", "openInput", "build", "body", "select", "stop", "destroy", "recreate",
        "rebuild", "closing", "release", "ended"}

\* Types, the capacity of the channel, and the bounds.
TypeOK ==
    /\ pc \in Pcs /\ kind \in {"mutter", "test"}
    /\ made \in Nat /\ display \in 0..made /\ conn \in 0..made
    /\ monitors \subseteq 1..made /\ abandoned \subseteq 1..made
    /\ pipe \in 0..made /\ notifier \in 0..made
    /\ pstate \in Yielding \cup {"stalled", "failed", "stopped"}
    /\ bus \in {"watching", "late", "done"}
    /\ woken \in BOOLEAN /\ chanOpen \in BOOLEAN
    /\ frames \in Seq(0..made) /\ Len(frames) <= ChanCap
    /\ inputStream \in 0..made
    /\ inputs \in 0..MaxInputs
    /\ breaks \in 0..MaxBreaks /\ slow \in 0..MaxSlow /\ fails \in 0..MaxFails

\* While a pipeline yields frames to the loop, it records the display the backend holds
\* (never one that a recovery destroyed), the loop waits on its notifier and not on
\* that of a pipeline before it, and there is a monitor behind it.
StreamInSync ==
    (pstate \in Yielding /\ pc \in {"body", "select"}) =>
        /\ pipe = display /\ notifier = pipe /\ chanOpen
        /\ kind = "mutter" => display \in monitors

\* The loop never forwards a frame of a pipeline that a recovery replaced: what is
\* queued comes from the pipeline it has.
FramesAreCurrent == \A i \in 1..Len(frames) : frames[i] = pipe

\* Every monitor in Mutter is the one the session holds, or one that no Stop of the
\* session could reach: no sequence of failures and recoveries forgets another.
NoForgottenMonitor ==
    /\ monitors \subseteq {display} \cup abandoned
    /\ pc = "ended" => display = 0

\* The loop gets no frames: its pipeline failed, stalled or was not replaced.
Starved == pc \in {"body", "select"} /\ pstate # "playing"

\* A session that gets no frames plays again or ends, also when the notification is
\* lost because it comes while an input event is being injected, or with a frame -
\* unless the client sends input for ever: the 500 ms timer is that of one round of
\* select!, and every input event begins a new round.
StreamRecovers ==
    []<>(inputs > 0) \/ (Starved ~> (pstate = "playing" \/ pc = "ended"))

\* "Injects NotifyTouchDown, NotifyTouchMotion ... directly targeted at the virtual display
\* stream" (docs/architecture.md): an event goes to the display that the session
\* shows.  After a recovery the backend still has the stream of the first display.
InputFollowsDisplay == [][LoopInput => inputStream \in {0, display}]_vars

=============================================================================
