------------------------- MODULE StreamRecoveryProofs -------------------------
(***************************************************************************)
(* Theorems about the display and the pipeline of a session, for any       *)
(* capacity of the frame channel and any number of failures, stalls,       *)
(* recoveries and input events.                                            *)
(*                                                                         *)
(* StreamInSync only speaks of the loop: DisplayInv and PipelineInv follow *)
(* the backend and the pipeline through recover_display as well, where     *)
(* the pipeline is stopped before the display goes and runs again only on  *)
(* the next one.                                                           *)
(***************************************************************************)
EXTENDS StreamRecovery, SequenceTheorems, TLAPS

\* The display the backend holds is the one its connection created, and is in
\* Mutter, unless it is the test pattern; where the code expects one, there is one.
DisplayInv ==
    /\ kind = "test" => display \notin monitors
    /\ kind = "mutter" /\ display # 0 => display = conn /\ display \in monitors
    /\ pc \in {"openInput", "build", "rebuild"} => display # 0
    /\ pc \in {"create", "recreate", "ended"} => display = 0

\* A pipeline that is not stopped belongs to the display the backend holds.
PipelineInv ==
    /\ pstate # "stopped" =>
          /\ pc \in {"body", "select", "stop", "closing"}
          /\ pipe = display /\ notifier = pipe /\ chanOpen
          /\ display # 0

IInv == TypeOK /\ DisplayInv /\ PipelineInv /\ FramesAreCurrent /\ NoForgottenMonitor

USE DEF displayVars, pipeVars, inputVars, counters

(* TypeOK in four parts. *)

TypeControl ==
    /\ pc \in Pcs /\ kind \in {"mutter", "test"}
    /\ pstate \in Yielding \cup {"stalled", "failed", "stopped"}
    /\ bus \in {"watching", "late", "done"}
    /\ woken \in BOOLEAN /\ chanOpen \in BOOLEAN

Ids(n) == 0..n
MonitorIds(n) == 1..n

TypeDisplay ==
    /\ made \in Nat /\ display \in Ids(made) /\ conn \in Ids(made)
    /\ monitors \subseteq MonitorIds(made) /\ abandoned \subseteq MonitorIds(made)
    /\ pipe \in Ids(made) /\ notifier \in Ids(made) /\ inputStream \in Ids(made)

LEMMA IdsGrow ==
  ASSUME NEW n \in Nat
  PROVE  /\ 0 \in Ids(n) /\ n + 1 \in Nat
         /\ Ids(n) \subseteq Ids(n + 1) /\ n + 1 \in Ids(n + 1)
         /\ MonitorIds(n) \subseteq MonitorIds(n + 1) /\ n + 1 \in MonitorIds(n + 1)
         /\ 0 \notin MonitorIds(n) /\ n + 1 \notin MonitorIds(n)
         /\ \A d \in Ids(n) \ {0} : d \in MonitorIds(n)
  BY DEF Ids, MonitorIds

TypeFrames == frames \in Seq(0..made) /\ Len(frames) <= ChanCap

TypeCounters ==
    /\ inputs \in 0..MaxInputs
    /\ breaks \in 0..MaxBreaks /\ slow \in 0..MaxSlow /\ fails \in 0..MaxFails

LEMMA TypeParts == TypeOK <=> TypeControl /\ TypeDisplay /\ TypeFrames /\ TypeCounters
  BY DEF TypeOK, TypeControl, TypeDisplay, TypeFrames, TypeCounters, Ids, MonitorIds

LEMMA InitInv == Init => IInv
<1> SUFFICES ASSUME Init
             PROVE  IInv
  OBVIOUS
<1>1. frames = <<>> /\ <<>> \in Seq(0..made) /\ Len(<<>>) = 0
  BY DEF Init
<1>2. TypeControl
  BY DEF Init, TypeControl, Pcs
<1>3. TypeDisplay
  BY DEF Init, TypeDisplay, Ids, MonitorIds
<1>4. TypeFrames
  BY <1>1, BoundAssumption DEF TypeFrames
<1>5. TypeCounters
  BY BoundAssumption DEF Init, TypeCounters
<1>6. FramesAreCurrent
  BY <1>1 DEF FramesAreCurrent
<1>7. DisplayInv /\ PipelineInv /\ NoForgottenMonitor
  BY DEF Init, DisplayInv, PipelineInv, NoForgottenMonitor
<1> QED
  BY <1>2, <1>3, <1>4, <1>5, <1>6, <1>7, TypeParts DEF IInv

(* The four parts, through every step. *)

LEMMA ControlStep == TypeControl /\ [Next]_vars => TypeControl'
<1> SUFFICES ASSUME TypeControl, [Next]_vars
             PROVE  TypeControl'
  OBVIOUS
<1> USE DEF TypeControl, Pcs, Yielding
<1>1. CASE UNCHANGED vars
  BY <1>1 DEF vars
<1>2. CASE Setup
  BY <1>2 DEF Setup, Create, OpenInput, Build, PipelineUp, DisplayUp, DisplayError
<1>3. CASE Loop \/ Resume
  BY <1>3 DEF Loop, LoopNotified, LoopFrame, LoopNone, Watchdog, LoopInput, LoopEnd, Resume
<1>4. CASE Recover
  BY <1>4 DEF Recover, RecoverStop, RecoverDestroy, RecoverCreate, RecoverBuild, PipelineUp,
              DestroyDisplay
<1>5. CASE Close \/ Release
  BY <1>5 DEF Close, Release, DestroyDisplay
<1>6. CASE PushFrame \/ PipelineBreaks \/ BusNotifies \/ MutterReaps \/ ClientInput
  BY <1>6 DEF PushFrame, PipelineBreaks, BusNotifies, MutterReaps, ClientInput
<1> QED
  BY <1>1, <1>2, <1>3, <1>4, <1>5, <1>6 DEF Next

LEMMA DisplayStep == TypeDisplay /\ [Next]_vars => TypeDisplay' /\ made' \in {made, made + 1}
<1> SUFFICES ASSUME TypeDisplay, [Next]_vars
             PROVE  TypeDisplay' /\ made' \in {made, made + 1}
  OBVIOUS
<1> USE DEF TypeDisplay
<1>0. /\ 0 \in Ids(made) /\ made + 1 \in Nat
      /\ Ids(made) \subseteq Ids(made + 1) /\ made + 1 \in Ids(made + 1)
      /\ MonitorIds(made) \subseteq MonitorIds(made + 1)
      /\ made + 1 \in MonitorIds(made + 1)
      /\ \A d \in Ids(made) \ {0} : d \in MonitorIds(made)
  BY IdsGrow
<1>1. CASE UNCHANGED vars
  BY <1>1 DEF vars
<1>2. CASE Setup
  <2>1. CASE Create
    BY <2>1, <1>0 DEF Create, DisplayUp, DisplayError
  <2>2. CASE OpenInput \/ Build
    BY <2>2, <1>0 DEF OpenInput, Build, PipelineUp
  <2> QED
    BY <1>2, <2>1, <2>2 DEF Setup
<1>3. CASE Loop \/ Resume
  BY <1>3 DEF Loop, LoopNotified, LoopFrame, LoopNone, Watchdog, LoopInput, LoopEnd, Resume
<1>4. CASE Recover
  <2>1. CASE RecoverStop
    BY <2>1 DEF RecoverStop
  <2>2. CASE RecoverDestroy
    BY <2>2, <1>0 DEF RecoverDestroy, DestroyDisplay
  <2>3. CASE RecoverCreate
    BY <2>3, <1>0 DEF RecoverCreate, DisplayUp, DisplayError
  <2>4. CASE RecoverBuild
    BY <2>4 DEF RecoverBuild, PipelineUp
  <2> QED
    BY <1>4, <2>1, <2>2, <2>3, <2>4 DEF Recover
<1>5. CASE Close \/ Release
  BY <1>5, <1>0 DEF Close, Release, DestroyDisplay
<1>6. CASE PushFrame \/ PipelineBreaks \/ BusNotifies \/ MutterReaps \/ ClientInput
  BY <1>6 DEF PushFrame, PipelineBreaks, BusNotifies, MutterReaps, ClientInput
<1> QED
  BY <1>1, <1>2, <1>3, <1>4, <1>5, <1>6 DEF Next

LEMMA CountersStep == TypeCounters /\ [Next]_vars => TypeCounters'
<1> SUFFICES ASSUME TypeCounters, [Next]_vars
             PROVE  TypeCounters'
  OBVIOUS
<1> USE BoundAssumption DEF TypeCounters, Fail
<1>1. CASE UNCHANGED vars
  BY <1>1 DEF vars
<1>2. CASE Setup
  BY <1>2 DEF Setup, Create, OpenInput, Build, DisplayError
<1>3. CASE Loop \/ Resume
  BY <1>3 DEF Loop, LoopNotified, LoopFrame, LoopNone, Watchdog, LoopInput, LoopEnd, Resume
<1>4. CASE Recover
  BY <1>4 DEF Recover, RecoverStop, RecoverDestroy, RecoverCreate, RecoverBuild,
              DestroyDisplay, DisplayError
<1>5. CASE Close \/ Release
  BY <1>5 DEF Close, Release, DestroyDisplay
<1>6. CASE PushFrame \/ PipelineBreaks \/ BusNotifies \/ MutterReaps \/ ClientInput
  BY <1>6 DEF PushFrame, PipelineBreaks, BusNotifies, MutterReaps, ClientInput
<1> QED
  BY <1>1, <1>2, <1>3, <1>4, <1>5, <1>6 DEF Next

(* The queue: one frame is added or taken, or the channel is replaced; and the *)
(* pipeline only changes with the channel.                                     *)
LEMMA QueueMoves ==
  ASSUME [Next]_vars
  PROVE  \/ UNCHANGED <<frames, pipe>>
         \/ PushFrame
         \/ LoopFrame
         \/ frames' = <<>>
<1>1. CASE UNCHANGED vars
  BY <1>1 DEF vars
<1>2. CASE Setup
  BY <1>2 DEF Setup, Create, OpenInput, Build, PipelineUp
<1>3. CASE Loop \/ Resume
  BY <1>3 DEF Loop, LoopNotified, LoopNone, Watchdog, LoopInput, LoopEnd, Resume
<1>4. CASE Recover
  BY <1>4 DEF Recover, RecoverStop, RecoverDestroy, RecoverCreate, RecoverBuild, PipelineUp
<1>5. CASE Close \/ Release
  BY <1>5 DEF Close, Release
<1>6. CASE PushFrame \/ PipelineBreaks \/ BusNotifies \/ MutterReaps \/ ClientInput
  BY <1>6 DEF PipelineBreaks, BusNotifies, MutterReaps, ClientInput
<1> QED
  BY <1>1, <1>2, <1>3, <1>4, <1>5, <1>6 DEF Next

LEMMA FramesStep ==
  ASSUME TypeDisplay, TypeFrames, FramesAreCurrent, [Next]_vars
  PROVE  TypeFrames' /\ FramesAreCurrent'
<1>1. /\ made \in Nat /\ made' \in {made, made + 1}
      /\ pipe \in 0..made
      /\ frames \in Seq(0..made) /\ Len(frames) <= ChanCap
      /\ Len(frames) \in Nat
  <2>1. made' \in {made, made + 1}
    BY DisplayStep
  <2>2. made \in Nat /\ pipe \in 0..made
    BY DEF TypeDisplay, Ids
  <2>3. frames \in Seq(0..made) /\ Len(frames) <= ChanCap
    BY DEF TypeFrames
  <2> QED
    BY <2>1, <2>2, <2>3, LenProperties
<1>2. 0..made \subseteq 0..made'
  BY <1>1
<1>3. CASE UNCHANGED <<frames, pipe>>
  <2>1. frames \in Seq(0..made')
    BY <1>1, <1>2, SeqMonotonic
  <2> QED
    BY <2>1, <1>1, <1>3 DEF TypeFrames, FramesAreCurrent
<1>4. CASE PushFrame
  <2>1. made' = made /\ pipe' = pipe /\ frames' = Append(frames, pipe) /\ Len(frames) < ChanCap
    BY <1>4 DEF PushFrame
  <2>2. /\ frames' \in Seq(0..made)
        /\ Len(frames') = Len(frames) + 1
        /\ \A i \in 1..Len(frames) : frames'[i] = frames[i]
        /\ frames'[Len(frames) + 1] = pipe
    BY <2>1, <1>1, AppendProperties
  <2>3. Len(frames') <= ChanCap
    BY <2>1, <2>2, <1>1, BoundAssumption
  <2>4. \A i \in 1..Len(frames') : frames'[i] = pipe
    BY <2>2, <1>1 DEF FramesAreCurrent
  <2> QED
    BY <2>1, <2>2, <2>3, <2>4 DEF TypeFrames, FramesAreCurrent
<1>5. CASE LoopFrame
  <2>1. made' = made /\ pipe' = pipe /\ frames' = Tail(frames) /\ frames # <<>>
    BY <1>5 DEF LoopFrame
  <2>2. /\ frames' \in Seq(0..made)
        /\ Len(frames') = Len(frames) - 1
        /\ \A i \in 1..Len(frames') : frames'[i] = frames[i + 1]
    BY <2>1, <1>1, HeadTailProperties
  <2>3. Len(frames') <= ChanCap
    BY <2>2, <1>1, BoundAssumption
  <2>4. \A i \in 1..Len(frames') : frames'[i] = pipe
    BY <2>2, <1>1 DEF FramesAreCurrent
  <2> QED
    BY <2>1, <2>2, <2>3, <2>4 DEF TypeFrames, FramesAreCurrent
<1>6. CASE frames' = <<>>
  <2>1. <<>> \in Seq(0..made') /\ Len(<<>>) = 0
    OBVIOUS
  <2> QED
    BY <2>1, <1>6, BoundAssumption DEF TypeFrames, FramesAreCurrent
<1> QED
  BY <1>3, <1>4, <1>5, <1>6, QueueMoves

(* The display and the pipeline, one action at a time. *)

LEMMA StreamStep ==
  ASSUME TypeControl, TypeDisplay, DisplayInv, PipelineInv, NoForgottenMonitor, [Next]_vars
  PROVE  DisplayInv' /\ PipelineInv' /\ NoForgottenMonitor'
<1> USE DEF DisplayInv, PipelineInv, NoForgottenMonitor
<1>0. /\ made + 1 # 0
      /\ 0 \notin monitors
      /\ made + 1 \notin monitors
  BY IdsGrow DEF TypeDisplay
<1>k. kind \in {"mutter", "test"}
  BY DEF TypeControl
<1>1. CASE UNCHANGED vars
  BY <1>1 DEF vars
<1>2. CASE Create
  BY <1>2, <1>0, <1>k DEF Create, DisplayUp, DisplayError
<1>3. CASE OpenInput
  BY <1>3 DEF OpenInput
<1>4. CASE Build
  BY <1>4, <1>0, <1>k DEF Build, PipelineUp
<1>5. CASE Resume \/ LoopNotified \/ LoopFrame \/ LoopNone
  BY <1>5 DEF Resume, LoopNotified, LoopFrame, LoopNone
<1>6. CASE Watchdog \/ LoopInput \/ LoopEnd
  BY <1>6 DEF Watchdog, LoopInput, LoopEnd
<1>7. CASE RecoverStop
  BY <1>7 DEF RecoverStop
<1>8. CASE RecoverDestroy
  BY <1>8, <1>0, <1>k DEF RecoverDestroy, DestroyDisplay
<1>9. CASE RecoverCreate
  BY <1>9, <1>0, <1>k DEF RecoverCreate, DisplayUp, DisplayError
<1>10. CASE RecoverBuild
  BY <1>10 DEF RecoverBuild, PipelineUp
<1>11. CASE Close
  BY <1>11 DEF Close
<1>12. CASE Release
  BY <1>12, <1>0, <1>k DEF Release, DestroyDisplay
<1>13. CASE PushFrame \/ PipelineBreaks
  BY <1>13 DEF PushFrame, PipelineBreaks, Yielding
<1>14. CASE BusNotifies \/ ClientInput
  BY <1>14 DEF BusNotifies, ClientInput
<1>15. CASE MutterReaps
  BY <1>15 DEF MutterReaps
<1> QED
  BY <1>1, <1>2, <1>3, <1>4, <1>5, <1>6, <1>7, <1>8, <1>9, <1>10, <1>11, <1>12, <1>13, <1>14,
     <1>15 DEF Next, Setup, Loop, Recover

THEOREM Invariance == Spec => []IInv
<1>1. IInv /\ [Next]_vars => IInv'
  <2> SUFFICES ASSUME IInv, [Next]_vars
               PROVE  IInv'
    OBVIOUS
  <2>1. TypeControl /\ TypeDisplay /\ TypeFrames /\ TypeCounters
    BY TypeParts DEF IInv
  <2>2. TypeControl' /\ TypeDisplay' /\ TypeCounters'
    BY <2>1, ControlStep, DisplayStep, CountersStep
  <2>3. TypeFrames' /\ FramesAreCurrent'
    BY <2>1, FramesStep DEF IInv
  <2>4. DisplayInv' /\ PipelineInv' /\ NoForgottenMonitor'
    BY <2>1, StreamStep DEF IInv
  <2>5. TypeOK'
    BY <2>2, <2>3
       DEF TypeOK, TypeControl, TypeDisplay, TypeFrames, TypeCounters, Ids, MonitorIds
  <2> QED
    BY <2>3, <2>4, <2>5 DEF IInv
<1> QED
  BY InitInv, <1>1, PTL DEF Spec

\* Types, the capacity of the frame channel and the bounds hold throughout.
THEOREM TypeCorrect == Spec => []TypeOK
<1>1. IInv => TypeOK
  BY DEF IInv
<1> QED
  BY Invariance, <1>1, PTL

\* Whatever fails in whatever order, a pipeline that yields frames records the display
\* the backend holds, and the loop listens to it.
THEOREM InSync == Spec => []StreamInSync
<1>1. IInv => StreamInSync
  BY DEF IInv, DisplayInv, PipelineInv, StreamInSync, Yielding
<1> QED
  BY Invariance, <1>1, PTL

\* No frame of a replaced pipeline is ever in the loop's channel.
THEOREM CurrentFrames == Spec => []FramesAreCurrent
<1>1. IInv => FramesAreCurrent
  BY DEF IInv
<1> QED
  BY Invariance, <1>1, PTL

\* No recovery and no end of a session forgets a monitor that a Stop could remove.
THEOREM MonitorsAccounted == Spec => []NoForgottenMonitor
<1>1. IInv => NoForgottenMonitor
  BY DEF IInv
<1> QED
  BY Invariance, <1>1, PTL

=============================================================================
