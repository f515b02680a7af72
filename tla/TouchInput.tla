------------------------------ MODULE TouchInput ------------------------------
(***************************************************************************)
(* Touches on their way from the glass to Mutter: TouchInputHandler, the   *)
(* listener of the client's surface, its queue and the one coroutine that  *)
(* empties it, the connection, and MutterInputBackend at the other end.    *)
(*                                                                         *)
(* Every session makes a handler with a queue and a coroutine of its own.  *)
(* The listener of an ended session stays in place until the next one      *)
(* replaces it, be it in the middle of a gesture; its events fail in       *)
(* sendRaw and are forgotten.  Android promises that the first finger of a *)
(* gesture is number 0, that a further one gets the least free number, and *)
(* that a gesture goes to whoever got its first finger.                    *)
(***************************************************************************)
EXTENDS Integers, Sequences, FiniteSets, SequencesExt

CONSTANTS
    MaxFingers,    \* fingers the screen tells apart
    Places,        \* where a finger may be: x in pixels of the view, or beyond it
    ViewWidth,     \* v.width
    Scale,         \* 65535, the greatest normalized coordinate
    DisplayWidth,  \* width of the virtual display
    MaxQueue,      \* bound: the user waits while so many events are queued
    MaxWire,       \* events under way before a write blocks
    MaxSessions    \* bound: sessions

ASSUME SizesAssumption ==
    /\ Places \subseteq Int
    /\ {MaxFingers, ViewWidth, Scale, DisplayWidth, MaxQueue, MaxWire, MaxSessions}
          \subseteq Nat \ {0}

VARIABLES
    glass,      \* the fingers on the screen: number |-> place
    heard,      \* there is a gesture and it is delivered to the listener
    session,    \* the last session that attached its handler, 0 before
    link,       \* its connection: "off", "open", or "closing": the session
                \* ends and its backend is not yet dropped
    queue,      \* inputChannel of each session's handler
    wire,       \* events on the connection
    touches,    \* touches down in Mutter: slot |-> x in DisplayWidth / Scale pixels
    own,        \* history: fingers that came down under this handler
    strayed     \* history: slots this session left down at a CANCEL

vars == <<glass, heard, session, link, queue, wire, touches, own, strayed>>

Fingers  == 0..MaxFingers - 1
Sessions == 1..MaxSessions
Down     == DOMAIN glass

NoTouch == [f \in {} |-> 0]
Put(t, f, x)  == [g \in DOMAIN t \cup {f} |-> IF g = f THEN x ELSE t[g]]
Without(t, f) == [g \in DOMAIN t \ {f} |-> t[g]]
Least(S)      == CHOOSE f \in S : \A g \in S : f <= g

Event(type, f, x) == [type |-> type, slot |-> f, x |-> x]

\* Mutant: the coordinate is not clamped.
NormalizedUnclamped(x) == (x * Scale) \div ViewWidth

\* ((x / width) * 65535).toInt().coerceIn(0, 65535)
Normalized(x) ==
    LET n == (x * Scale) \div ViewWidth
    IN  IF n < 0 THEN 0 ELSE IF n > Scale THEN Scale ELSE n

\* normalized_to_display, in units of 1 / Scale pixels.
ToDisplay(n) == n * DisplayWidth

Init ==
    /\ glass = NoTouch /\ heard = FALSE
    /\ session = 0 /\ link = "off"
    /\ queue = [s \in Sessions |-> <<>>]
    /\ wire = <<>>
    /\ touches = NoTouch
    /\ own = {} /\ strayed = {}

(***************************************************************************)
(* The user, and onTouch on the main thread                                *)
(***************************************************************************)
MayTouch == Len(FlattenSeq(queue)) < MaxQueue

\* trySend on an unlimited channel never fails.
Enqueue(listening, events) ==
    queue' = IF listening THEN [queue EXCEPT ![session] = @ \o events] ELSE queue

FingerDown ==
    /\ MayTouch /\ Down # Fingers
    /\ LET f == Least(Fingers \ Down) IN
        \E x \in Places :
            /\ glass' = Put(glass, f, x)
            /\ heard' = IF Down = {} THEN session # 0 ELSE heard
            /\ Enqueue(heard', <<Event("down", f, Normalized(x))>>)
            /\ own' = IF heard' THEN own \cup {f} ELSE own
            /\ strayed' = IF heard' THEN strayed \ {f} ELSE strayed
    /\ UNCHANGED <<session, link, wire, touches>>

\* Mutant: the pointer index is taken for the number of the finger.
MovesByIndex(places) ==
    LET upTo[n \in 0..MaxFingers] ==
            IF n = 0 THEN <<>>
            ELSE IF n - 1 \in DOMAIN places
            THEN Append(upTo[n - 1],
                        Event("move", Len(upTo[n - 1]), Normalized(places[n - 1])))
            ELSE upTo[n - 1]
    IN  upTo[MaxFingers]

\* One MotionEvent reports every finger that is down, in the order of the numbers.
Moves(places) ==
    LET upTo[n \in 0..MaxFingers] ==
            IF n = 0 THEN <<>>
            ELSE IF n - 1 \in DOMAIN places
            THEN Append(upTo[n - 1], Event("move", n - 1, Normalized(places[n - 1])))
            ELSE upTo[n - 1]
    IN  upTo[MaxFingers]

Move ==
    /\ MayTouch
    /\ glass' \in [Down -> Places] \ {glass}
    /\ Enqueue(heard, Moves(glass'))
    /\ UNCHANGED <<heard, session, link, wire, touches, own, strayed>>

FingerUp ==
    /\ MayTouch
    /\ \E f \in Down :
        /\ glass' = Without(glass, f)
        /\ Enqueue(heard, <<Event("up", f, Normalized(glass[f]))>>)
        /\ heard' = (heard /\ Down # {f})
        /\ own' = own \ {f}
    /\ UNCHANGED <<session, link, wire, touches, strayed>>

\* The system takes the gesture away, with all its fingers.
Cancel ==
    /\ MayTouch /\ Down # {}
    /\ glass' = NoTouch
    /\ heard' = FALSE
    /\ Enqueue(heard, <<Event("cancel", 0, 0)>>)
    /\ own' = {}
    /\ strayed' = strayed \cup (own \ {0})
    /\ UNCHANGED <<session, link, wire, touches>>

(***************************************************************************)
(* Sessions and their workers                                              *)
(***************************************************************************)
\* A session is set up and its handler becomes the listener of the surface.
Attach ==
    /\ link = "off" /\ session < MaxSessions
    /\ session' = session + 1
    /\ link' = "open"
    /\ own' = {} /\ strayed' = {}
    /\ UNCHANGED <<glass, heard, queue, wire, touches>>

\* The session ends, by transport.close() or at the host; what is under way arrives
\* up to some point.
CloseLink ==
    /\ link = "open"
    /\ link' = "closing"
    /\ \E n \in 0..Len(wire) : wire' = SubSeq(wire, 1, n)
    /\ UNCHANGED <<glass, heard, session, queue, touches, own, strayed>>

\* The worker of session s sends its oldest event; the exception of a closed
\* transport is swallowed, and the event with it.
Work(s) ==
    /\ queue[s] # <<>>
    /\ IF s = session /\ link = "open"
         THEN Len(wire) < MaxWire /\ wire' = Append(wire, Head(queue[s]))
         ELSE UNCHANGED wire
    /\ queue' = [queue EXCEPT ![s] = Tail(@)]
    /\ UNCHANGED <<glass, heard, session, link, touches, own, strayed>>

(***************************************************************************)
(* The host                                                                *)
(***************************************************************************)
\* Mutant: a CANCEL is not handled.
InjectedNoCancel(t, e) ==
    IF e.type = "up" THEN Without(t, e.slot)
    ELSE IF e.type = "cancel" \/ (e.type = "move" /\ e.slot \notin DOMAIN t) THEN t
    ELSE Put(t, e.slot, ToDisplay(e.x))

\* handle_event: what the event makes of the touches t.  Mutter ignores a
\* motion or an end of a slot that is not down.
Injected(t, e) ==
    IF e.type \in {"up", "cancel"} THEN Without(t, e.slot)
    ELSE IF e.type = "move" /\ e.slot \notin DOMAIN t THEN t
    ELSE Put(t, e.slot, ToDisplay(e.x))

Inject ==
    /\ wire # <<>>
    /\ touches' = Injected(touches, Head(wire))
    /\ wire' = Tail(wire)
    /\ UNCHANGED <<glass, heard, session, link, queue, own, strayed>>

\* The session ends: its backend stops its RemoteDesktop session, and Mutter
\* lifts every touch of it.
HostEnds ==
    /\ link = "closing" /\ wire = <<>>
    /\ link' = "off"
    /\ touches' = NoTouch
    /\ UNCHANGED <<glass, heard, session, queue, wire, own, strayed>>

User == FingerDown \/ Move \/ FingerUp \/ Cancel

Next ==
    \/ User
    \/ Attach \/ CloseLink \/ Inject \/ HostEnds
    \/ \E s \in Sessions : Work(s)

\* Workers and host go on; of the user and of sessions nothing is assumed.
Spec ==
    /\ Init /\ [][Next]_vars
    /\ \A s \in Sessions : WF_vars(Work(s))
    /\ WF_vars(Inject)

-----------------------------------------------------------------------------
(* Properties *)

Events ==
    [type : {"down", "move", "up", "cancel"}, slot : Fingers, x : 0..Scale]

TypeOK ==
    /\ Down \subseteq Fingers /\ glass \in [Down -> Places]
    /\ heard \in BOOLEAN
    /\ session \in 0..MaxSessions
    /\ link \in {"off", "open", "closing"}
    /\ queue \in [Sessions -> Seq(Events)]
    /\ \A s \in Sessions : s > session => queue[s] = <<>>
    /\ wire \in Seq(Events) /\ Len(wire) <= MaxWire
    /\ DOMAIN touches \subseteq Fingers
    /\ touches \in [DOMAIN touches -> 0..Scale * DisplayWidth]
    /\ own \subseteq Down /\ strayed \subseteq Fingers \ own

\* A touch at n / Scale pixels is where a finger at x is, up to one step of the
\* normalized scale; beyond the view it is at the edge.
Inside(x) == IF x < 0 THEN 0 ELSE IF x > ViewWidth THEN ViewWidth ELSE x
At(n, x) ==
    LET gap == Inside(x) * DisplayWidth * Scale - n * ViewWidth
    IN  0 <= gap /\ gap < DisplayWidth * ViewWidth

\* What the events make of the touches t, one after the other.
AfterAll(t, events) ==
    LET after[i \in 0..Len(events)] ==
            IF i = 0 THEN t ELSE Injected(after[i - 1], events[i])
    IN  after[Len(events)]

\* The host follows the fingers: once everything under way is injected, the
\* touches of an open session are the fingers that came down in it, each in its
\* place, whatever happened to earlier sessions, gestures and the queue - and
\* the slots, other than 0, that a CANCEL left down.
HostFollows ==
    link = "open" =>
        LET later == AfterAll(touches, wire \o queue[session])
        IN  /\ DOMAIN later = own \cup strayed
            /\ \A f \in own : At(later[f], glass[f])

\* A screen without fingers becomes, as long as it is left alone and the session
\* lasts, a display without touches other than those a CANCEL left.
HostCatchesUp ==
    (Down = {} /\ link = "open") ~>
        (DOMAIN touches \subseteq strayed \/ Down # {} \/ link # "open")

=============================================================================
