---------------------------- MODULE SessionGuard ----------------------------
(***************************************************************************)
(* The host daemon (host/src/daemon.rs): the TCP accept loop, the USB AOAP *)
(* watcher task, and the flag is_session_active through which they try to  *)
(* keep a single client in service.                                        *)
(*                                                                         *)
(* The accept loop and the watcher run on different threads of the tokio   *)
(* runtime, so a load of the flag and the store that follows it are two    *)
(* steps; every `.await' of the watcher is a step boundary as well.  What  *)
(* a session does between its start and its return is abstracted here      *)
(* (UsbSession has it): a session runs for an arbitrary time, returns, and *)
(* only in a later step does its task clear the flag.                      *)
(*                                                                         *)
(* Time is counted in the watcher's own ticks of 500 ms.                   *)
(***************************************************************************)
EXTENDS Naturals, Sequences

CONSTANTS
    Clients,          \* TCP clients; each has at most one connection at a time
    UsbSlots,         \* names for the USB sessions that may be alive together
    NoSession,        \* neither a client nor a USB session
    WaitTicks,        \* 8000 ms / 500 ms: limit of the wait for re-enumeration
    TimeoutCooldown,  \* 5000 ms / 500 ms: cooldown after that wait timed out
    SessionCooldown   \* 2000 ms / 500 ms: cooldown after a session ended

ASSUME NamesAssumption ==
    /\ Clients \cap UsbSlots = {}
    /\ NoSession \notin Clients \cup UsbSlots
ASSUME TicksAssumption ==
    WaitTicks \in Nat /\ TimeoutCooldown \in Nat /\ SessionCooldown \in Nat

VARIABLES
    flag,         \* is_session_active
    session,      \* what the task of each session is doing
    backlog,      \* connections the kernel holds for accept(), oldest first
    acceptPc,     \* "listen", "storing" (flag was read FALSE) or "stopped"
    accepted,     \* the connection in the hands of the accept loop
    watcher,      \* UsbState, refined by the await the watcher stands at
    waited,       \* waited_ms, in ticks
    cooldown,     \* switch_cooldown_ms, in ticks
    opened,       \* the stream the last find_and_open_accessory returned
    device,       \* the Android device on the bus
    claim,        \* whose stream has claimed the accessory's interface
    overwritten   \* history: TRUE was stored over TRUE while somebody is served

vars == <<flag, session, backlog, acceptPc, accepted, watcher, waited,
          cooldown, opened, device, claim, overwritten>>

acceptVars  == <<backlog, acceptPc, accepted>>
watcherVars == <<watcher, waited, cooldown, opened>>
usbVars     == <<device, claim>>

Sessions == Clients \cup UsbSlots

\* Sessions whose task has been spawned and has not yet cleared the flag.
Live == {s \in Sessions : session[s] # "none"}

InBacklog(c) == \E i \in 1..Len(backlog) : backlog[i] = c

Running == acceptPc # "stopped"

FreeSlot(s) == session[s] = "none" /\ claim # s /\ opened # s

Init ==
    /\ flag = FALSE
    /\ session = [s \in Sessions |-> "none"]
    /\ backlog = <<>>
    /\ acceptPc = "listen"
    /\ accepted = NoSession
    /\ watcher = "idle"
    /\ waited = 0
    /\ cooldown = 0
    /\ opened = NoSession
    /\ device \in {"absent", "normal", "accessory"}
    /\ claim = NoSession
    /\ overwritten = FALSE

-----------------------------------------------------------------------------
(* The TCP accept loop *)

Connect(c) ==
    /\ Running
    /\ session[c] = "none"
    /\ accepted # c
    /\ ~InBacklog(c)
    /\ backlog' = Append(backlog, c)
    /\ UNCHANGED <<flag, session, acceptPc, accepted, watcherVars, usbVars, overwritten>>

\* Mutant: accept() is not called while somebody is in service.
AcceptRejectNever ==
    FALSE /\ UNCHANGED vars

\* The flag is read TRUE: the stream is dropped and the client is turned away.
AcceptReject ==
    /\ acceptPc = "listen"
    /\ backlog # <<>>
    /\ flag
    /\ backlog' = Tail(backlog)
    /\ UNCHANGED <<flag, session, acceptPc, accepted, watcherVars, usbVars, overwritten>>

AcceptLoad ==
    /\ acceptPc = "listen"
    /\ backlog # <<>>
    /\ ~flag
    /\ backlog' = Tail(backlog)
    /\ accepted' = Head(backlog)
    /\ acceptPc' = "storing"
    /\ UNCHANGED <<flag, session, watcherVars, usbVars, overwritten>>

\* A session task is spawned right after a store of TRUE, whatever the flag was.
Spawn(s) ==
    /\ flag' = TRUE
    /\ session' = [session EXCEPT ![s] = "serving"]
    /\ overwritten' = (overwritten \/ flag)

AcceptStore ==
    /\ acceptPc = "storing"
    /\ Spawn(accepted)
    /\ acceptPc' = "listen"
    /\ accepted' = NoSession
    /\ UNCHANGED <<backlog, watcherVars, usbVars>>

\* ctrl_c: the accept loop breaks, run() returns and every task is dropped.
Shutdown ==
    /\ acceptPc = "listen"
    /\ acceptPc' = "stopped"
    /\ UNCHANGED <<flag, session, backlog, accepted, watcherVars, usbVars, overwritten>>

-----------------------------------------------------------------------------
(* The tasks of the sessions *)

\* handle_client returns, with Ok or with an error.
TcpReturn(c) ==
    /\ Running
    /\ session[c] = "serving"
    /\ session' = [session EXCEPT ![c] = "returned"]
    /\ UNCHANGED <<flag, acceptVars, watcherVars, usbVars, overwritten>>

\* handle_usb_client returns.  It has joined its reader and writer threads, and
\* the stream is dropped with the claim, unless it returned early because the
\* first packet was no HELLO: then the reader thread keeps the stream.
UsbReturn(s) ==
    /\ Running
    /\ session[s] = "serving"
    /\ session' = [session EXCEPT ![s] = "returned"]
    /\ claim' \in (IF claim = s THEN {s, NoSession} ELSE {claim})
    /\ UNCHANGED <<flag, acceptVars, watcherVars, device, overwritten>>

\* The reader thread that an early return left behind ends at last.
LeftoverReaderExit(s) ==
    /\ Running
    /\ claim = s
    /\ session[s] # "serving"
    /\ opened # s
    /\ claim' = NoSession
    /\ UNCHANGED <<flag, session, acceptVars, watcherVars, device, overwritten>>

\* Mutant: the task ends without storing FALSE.
ClearFlagForgotten(s) ==
    /\ Running
    /\ session[s] = "returned"
    /\ session' = [session EXCEPT ![s] = "none"]
    /\ overwritten' = (overwritten /\ Live # {s})
    /\ UNCHANGED <<flag, acceptVars, watcherVars, usbVars>>

\* The spawned task stores FALSE after its handler returned.
ClearFlag(s) ==
    /\ Running
    /\ session[s] = "returned"
    /\ session' = [session EXCEPT ![s] = "none"]
    /\ flag' = FALSE
    /\ overwritten' = (overwritten /\ Live # {s})
    /\ UNCHANGED <<acceptVars, watcherVars, usbVars>>

-----------------------------------------------------------------------------
(* The USB watcher.  An iteration that only sleeps changes nothing: in Idle  *)
(* while the flag is TRUE, in Connected while it stays TRUE.                 *)

\* Mutant: the cooldown is slept through but not counted down.
IdleCooldownStuck ==
    /\ Running
    /\ watcher = "idle"
    /\ ~flag
    /\ cooldown > 0
    /\ UNCHANGED vars

IdleCooldown ==
    /\ Running
    /\ watcher = "idle"
    /\ ~flag
    /\ cooldown > 0
    /\ cooldown' = cooldown - 1
    /\ UNCHANGED <<flag, session, acceptVars, watcher, waited, opened, usbVars, overwritten>>

\* The flag was read FALSE; the blocking call that looks for an accessory starts.
IdleFind ==
    /\ Running
    /\ watcher = "idle"
    /\ ~flag
    /\ cooldown = 0
    /\ watcher' = "opening"
    /\ UNCHANGED <<flag, session, acceptVars, waited, cooldown, opened, usbVars, overwritten>>

\* find_and_open_accessory: claiming the interface fails while another stream
\* of the daemon holds it.
OpenAccessory(s) ==
    /\ Running
    /\ watcher \in {"opening", "waitOpening"}
    /\ device = "accessory"
    /\ claim = NoSession
    /\ FreeSlot(s)
    /\ claim' = s
    /\ opened' = s
    /\ watcher' = "spawning"
    /\ UNCHANGED <<flag, session, acceptVars, waited, cooldown, device, overwritten>>

\* The flag is not read again: neither after the await nor in Waiting.
SpawnUsbSession ==
    /\ Running
    /\ watcher = "spawning"
    /\ Spawn(opened)
    /\ watcher' = "connected"
    /\ opened' = NoSession
    /\ UNCHANGED <<acceptVars, waited, cooldown, usbVars>>

\* Idle found no accessory, or could not open it, and goes on to switch one.
IdleFindNone ==
    /\ Running
    /\ watcher = "opening"
    /\ watcher' = "scanning"
    /\ UNCHANGED <<flag, session, acceptVars, waited, cooldown, opened, usbVars, overwritten>>

ScanSwitched ==
    /\ Running
    /\ watcher = "scanning"
    /\ device = "normal"
    /\ device' = "switching"
    /\ watcher' = "waiting"
    /\ waited' = 0
    /\ UNCHANGED <<flag, session, acceptVars, cooldown, opened, claim, overwritten>>

\* Nothing to switch (an accessory is present, no candidate) or the switch failed.
ScanNone ==
    /\ Running
    /\ watcher = "scanning"
    /\ watcher' = "idle"
    /\ UNCHANGED <<flag, session, acceptVars, waited, cooldown, opened, usbVars, overwritten>>

WaitTick ==
    /\ Running
    /\ watcher = "waiting"
    /\ waited' = waited + 1
    /\ watcher' = "waitOpening"
    /\ UNCHANGED <<flag, session, acceptVars, cooldown, opened, usbVars, overwritten>>

\* Mutant: `>=' and `>' confused, one tick more.
WaitFindNoneLate ==
    /\ Running
    /\ watcher = "waitOpening"
    /\ IF waited > WaitTicks + 1
       THEN watcher' = "idle" /\ cooldown' = TimeoutCooldown
       ELSE watcher' = "waiting" /\ UNCHANGED cooldown
    /\ UNCHANGED <<flag, session, acceptVars, waited, opened, usbVars, overwritten>>

\* Mutant: the wait that timed out also gives the flag back.
WaitFindNoneClears ==
    /\ Running
    /\ watcher = "waitOpening"
    /\ IF waited > WaitTicks
       THEN watcher' = "idle" /\ cooldown' = TimeoutCooldown /\ flag' = FALSE
       ELSE watcher' = "waiting" /\ UNCHANGED <<cooldown, flag>>
    /\ UNCHANGED <<session, acceptVars, waited, opened, usbVars, overwritten>>

WaitFindNone ==
    /\ Running
    /\ watcher = "waitOpening"
    /\ IF waited > WaitTicks
       THEN watcher' = "idle" /\ cooldown' = TimeoutCooldown
       ELSE watcher' = "waiting" /\ UNCHANGED cooldown
    /\ UNCHANGED <<flag, session, acceptVars, waited, opened, usbVars, overwritten>>

\* Mutant: Connected gives up after one tick, whatever the flag says.
ConnectedEndEarly ==
    /\ Running
    /\ watcher = "connected"
    /\ watcher' = "idle"
    /\ cooldown' = SessionCooldown
    /\ UNCHANGED <<flag, session, acceptVars, waited, opened, usbVars, overwritten>>

ConnectedEnd ==
    /\ Running
    /\ watcher = "connected"
    /\ ~flag
    /\ watcher' = "idle"
    /\ cooldown' = SessionCooldown
    /\ UNCHANGED <<flag, session, acceptVars, waited, opened, usbVars, overwritten>>

-----------------------------------------------------------------------------
(* The device: it is plugged, re-enumerates after a switch, is unplugged.    *)

Plug ==
    /\ Running
    /\ device = "absent"
    /\ device' \in {"normal", "accessory"}
    /\ UNCHANGED <<flag, session, acceptVars, watcherVars, claim, overwritten>>

Reenumerate ==
    /\ Running
    /\ device = "switching"
    /\ device' \in {"normal", "accessory"}
    /\ UNCHANGED <<flag, session, acceptVars, watcherVars, claim, overwritten>>

\* A claim is on one enumeration of the device: it is void once that is gone.
Unplug ==
    /\ Running
    /\ device # "absent"
    /\ device' = "absent"
    /\ claim' = NoSession
    /\ UNCHANGED <<flag, session, acceptVars, watcherVars, overwritten>>

\* After ctrl_c nothing moves any more.
Stopped ==
    /\ ~Running
    /\ UNCHANGED vars

AcceptLoop == AcceptReject \/ AcceptLoad \/ AcceptStore

Watcher ==
    \/ IdleCooldown \/ IdleFind \/ IdleFindNone \/ ScanSwitched \/ ScanNone
    \/ WaitTick \/ WaitFindNone \/ ConnectedEnd \/ SpawnUsbSession
    \/ \E s \in UsbSlots : OpenAccessory(s)

Device == Plug \/ Reenumerate \/ Unplug

Next ==
    \/ \E c \in Clients : Connect(c) \/ TcpReturn(c)
    \/ \E s \in UsbSlots : UsbReturn(s) \/ LeftoverReaderExit(s)
    \/ \E s \in Sessions : ClearFlag(s)
    \/ AcceptLoop
    \/ Watcher
    \/ Device
    \/ Shutdown
    \/ Stopped

Spec == Init /\ [][Next]_vars

(* Fairness: the runtime schedules the accept loop and the watcher, and an   *)
(* open that is tried again and again succeeds in the end.  Nothing is       *)
(* assumed of clients, of the device or of a session: it may never return    *)
(* (UsbSession shows teardowns that hang).                                   *)
Fairness ==
    /\ WF_vars(AcceptLoop)
    /\ WF_vars(Watcher)
    /\ SF_vars(\E s \in UsbSlots : OpenAccessory(s))

FairSpec == Spec /\ Fairness

-----------------------------------------------------------------------------
(* Properties *)

WatcherPcs == {"idle", "opening", "scanning", "waiting", "waitOpening",
               "spawning", "connected"}

\* Types; a slot stays reserved between the open and the spawn of its session.
TypeOK ==
    /\ flag \in BOOLEAN
    /\ session \in [Sessions -> {"none", "serving", "returned"}]
    /\ backlog \in Seq(Clients)
    /\ acceptPc \in {"listen", "storing", "stopped"}
    /\ accepted \in Clients \cup {NoSession}
    /\ (acceptPc = "storing") <=> (accepted # NoSession)
    /\ watcher \in WatcherPcs
    /\ waited \in 0..(WaitTicks + 1)
    /\ (watcher = "waiting") => (waited <= WaitTicks)
    /\ cooldown \in Nat
    /\ opened \in UsbSlots \cup {NoSession}
    /\ (watcher = "spawning") <=> (opened # NoSession)
    /\ device \in {"absent", "normal", "switching", "accessory"}
    /\ claim \in UsbSlots \cup {NoSession}
    /\ overwritten \in BOOLEAN

\* A client is turned away only on account of a session that really exists: the
\* flag is never left TRUE with nobody in service, however starts and ends of
\* TCP and USB sessions interleave.
GuardNotStranded == flag => Live # {}

\* The flag is exact - TRUE iff somebody is in service, and then one session
\* only - as long as no store of TRUE hit a flag that was already TRUE.  The
\* unchecked stores are therefore the only way the guard can fail, and it is
\* exact again as soon as nobody is in service.
GuardExact ==
    ~overwritten =>
        /\ flag <=> Live # {}
        /\ \A s, t \in Live : s = t

\* Under the same condition no USB session outlives the watcher's Connected
\* state: the watcher never looks for, switches or waits for a device while one
\* of its own sessions is running.
UsbSupervised ==
    (~overwritten /\ watcher # "connected") => Live \cap UsbSlots = {}

\* An accessory that nobody holds is opened again, also after a session on it
\* ended or a wait timed out, unless it is unplugged, a session takes the flag
\* or the daemon stops (the log at the end of a USB session says "ready for new
\* connection").  The last disjunct is the bound's: every slot is in use.
AccessoryIsOpened ==
    (device = "accessory" /\ claim = NoSession)
        ~> \/ claim # NoSession \/ device # "accessory" \/ flag \/ ~Running
           \/ UsbSlots \subseteq Live

\* Every connection in the kernel's backlog is taken, to be served or refused,
\* while the daemon runs.
ConnectionIsTaken ==
    \A c \in Clients : InBacklog(c) ~> (~InBacklog(c) \/ ~Running)

=============================================================================
