-------------------------- MODULE SessionGuardProofs --------------------------
(***************************************************************************)
(* Theorems about the session guard, for any sets of clients and USB       *)
(* sessions and any timings.  GuardExact and UsbSupervised are inductive   *)
(* only together with each other and with the types: leaving Connected is  *)
(* safe because the flag is exact, and a store over a FALSE flag is safe   *)
(* because GuardExact makes FALSE mean that nobody is in service.          *)
(***************************************************************************)
EXTENDS SessionGuard, TLAPS

\* What every step preserves: the types and the three promises of the guard.
IInv == TypeOK /\ GuardNotStranded /\ GuardExact /\ UsbSupervised

USE DEF acceptVars, watcherVars, usbVars, Sessions

LEMMA InitTypeOK == Init => TypeOK
<1> SUFFICES ASSUME Init
             PROVE  TypeOK
  OBVIOUS
<1>1. backlog \in Seq(Clients)
  BY DEF Init
<1>2. session \in [Sessions -> {"none", "serving", "returned"}]
  BY DEF Init
<1>3. waited \in 0..(WaitTicks + 1) /\ cooldown \in Nat
  BY TicksAssumption DEF Init
<1> QED
  BY <1>1, <1>2, <1>3 DEF Init, TypeOK, WatcherPcs

(* The types are preserved, whichever part of the system moves. *)
LEMMA TypeStep == TypeOK /\ [Next]_vars => TypeOK'
<1> SUFFICES ASSUME TypeOK, [Next]_vars
             PROVE  TypeOK'
  OBVIOUS
<1> USE NamesAssumption, TicksAssumption
<1>1. CASE UNCHANGED vars
  BY <1>1 DEF TypeOK, vars
<1>2. ASSUME NEW c \in Clients, Connect(c) \/ TcpReturn(c)
      PROVE  TypeOK'
  BY <1>2 DEF TypeOK, Connect, TcpReturn
<1>3. ASSUME NEW s \in UsbSlots, UsbReturn(s) \/ LeftoverReaderExit(s)
      PROVE  TypeOK'
  BY <1>3 DEF TypeOK, UsbReturn, LeftoverReaderExit
<1>4. ASSUME NEW s \in Sessions, ClearFlag(s)
      PROVE  TypeOK'
  BY <1>4 DEF TypeOK, ClearFlag
<1>5. CASE AcceptLoop
  <2>1. CASE AcceptReject
    BY <2>1 DEF TypeOK, AcceptReject
  <2>2. CASE AcceptLoad
    BY <2>2 DEF TypeOK, AcceptLoad
  <2>3. CASE AcceptStore
    BY <2>3 DEF TypeOK, AcceptStore, Spawn
  <2> QED
    BY <1>5, <2>1, <2>2, <2>3 DEF AcceptLoop
<1>6. CASE Watcher
  <2>1. CASE IdleCooldown
    BY <2>1 DEF TypeOK, IdleCooldown
  <2>2. CASE IdleFind \/ IdleFindNone \/ ScanSwitched \/ ScanNone
    BY <2>2 DEF TypeOK, IdleFind, IdleFindNone, ScanSwitched, ScanNone, WatcherPcs
  <2>3. CASE WaitTick \/ WaitFindNone \/ ConnectedEnd
    BY <2>3 DEF TypeOK, WaitTick, WaitFindNone, ConnectedEnd, WatcherPcs
  <2>4. CASE SpawnUsbSession
    BY <2>4 DEF TypeOK, SpawnUsbSession, Spawn, WatcherPcs
  <2>5. ASSUME NEW s \in UsbSlots, OpenAccessory(s)
        PROVE  TypeOK'
    BY <2>5 DEF TypeOK, OpenAccessory, WatcherPcs
  <2> QED
    BY <1>6, <2>1, <2>2, <2>3, <2>4, <2>5 DEF Watcher
<1>7. CASE Device \/ Shutdown
  BY <1>7 DEF TypeOK, Device, Plug, Reenumerate, Unplug, Shutdown
<1> QED
  BY <1>1, <1>2, <1>3, <1>4, <1>5, <1>6, <1>7 DEF Next, Stopped

(* Spawning a session on a FALSE flag makes it the only one in service. *)
LEMMA SpawnExact ==
  ASSUME TypeOK, GuardExact, NEW s \in Sessions, Spawn(s), ~overwritten'
  PROVE  flag' /\ Live' = {s}
<1>1. ~overwritten /\ ~flag
  BY DEF Spawn, TypeOK
<1>2. Live = {}
  BY <1>1 DEF GuardExact
<1>3. session' = [session EXCEPT ![s] = "serving"] /\ flag'
  BY DEF Spawn
<1>4. ASSUME NEW t \in Sessions
      PROVE  (session'[t] # "none") <=> (t = s)
  BY <1>2, <1>3 DEF Live, TypeOK
<1> QED
  BY <1>3, <1>4 DEF Live

LEMMA GuardStep ==
  IInv /\ [Next]_vars => GuardNotStranded' /\ GuardExact' /\ UsbSupervised'
<1> DEFINE Goal == GuardNotStranded' /\ GuardExact' /\ UsbSupervised'
<1> SUFFICES ASSUME IInv, [Next]_vars
             PROVE  Goal
  OBVIOUS
<1> USE NamesAssumption
<1>a. TypeOK
  BY DEF IInv
<1>b. ASSUME flag' = flag, overwritten' = overwritten, Live' = Live, watcher' = watcher
      PROVE  Goal
  BY <1>b DEF IInv, GuardNotStranded, GuardExact, UsbSupervised
<1>c. ASSUME UNCHANGED <<flag, overwritten, session>>, watcher # "connected"
      PROVE  Goal
  BY <1>c DEF IInv, GuardNotStranded, GuardExact, UsbSupervised, Live
<1>1. CASE UNCHANGED vars
  BY <1>1, <1>b DEF vars, Live
<1>2. ASSUME NEW c \in Clients, Connect(c)
      PROVE  Goal
  BY <1>2, <1>b DEF Connect, Live
<1>3. ASSUME NEW c \in Clients, TcpReturn(c)
      PROVE  Goal
  <2>1. Live' = Live
    BY <1>3, <1>a DEF TcpReturn, Live, TypeOK
  <2> QED
    BY <2>1, <1>3, <1>b DEF TcpReturn
<1>4. ASSUME NEW s \in UsbSlots, UsbReturn(s)
      PROVE  Goal
  <2>1. Live' = Live
    BY <1>4, <1>a DEF UsbReturn, Live, TypeOK
  <2> QED
    BY <2>1, <1>4, <1>b DEF UsbReturn
<1>5. ASSUME NEW s \in UsbSlots, LeftoverReaderExit(s)
      PROVE  Goal
  BY <1>5, <1>b DEF LeftoverReaderExit, Live
<1>6. ASSUME NEW s \in Sessions, ClearFlag(s)
      PROVE  Goal
  <2>1. Live' = Live \ {s} /\ s \in Live /\ flag' = FALSE
    BY <1>6, <1>a DEF ClearFlag, Live, TypeOK
  <2>2. ~overwritten' => Live = {s}
    BY <2>1, <1>6 DEF ClearFlag, IInv, GuardExact
  <2> QED
    BY <2>1, <2>2 DEF GuardNotStranded, GuardExact, UsbSupervised
<1>7. CASE AcceptReject \/ AcceptLoad \/ Shutdown
  BY <1>7, <1>b DEF AcceptReject, AcceptLoad, Shutdown, Live
<1>8. CASE AcceptStore
  <2>1. accepted \in Clients /\ Spawn(accepted)
    BY <1>8, <1>a DEF AcceptStore, TypeOK
  <2>2. accepted \in Live'
    BY <2>1, <1>a DEF Spawn, Live, TypeOK
  <2>3. ~overwritten' => flag' /\ Live' = {accepted}
    BY <2>1, SpawnExact DEF IInv
  <2> QED
    BY <2>1, <2>2, <2>3 DEF GuardNotStranded, GuardExact, UsbSupervised
<1>9. CASE SpawnUsbSession
  <2>1. opened \in UsbSlots /\ Spawn(opened) /\ watcher' = "connected"
    BY <1>9, <1>a DEF SpawnUsbSession, TypeOK
  <2>2. opened \in Live'
    BY <2>1, <1>a DEF Spawn, Live, TypeOK
  <2>3. ~overwritten' => flag' /\ Live' = {opened}
    BY <2>1, SpawnExact DEF IInv
  <2> QED
    BY <2>1, <2>2, <2>3 DEF GuardNotStranded, GuardExact, UsbSupervised
<1>10. CASE IdleCooldown
  BY <1>10, <1>b DEF IdleCooldown, Live
<1>11. CASE IdleFind \/ IdleFindNone \/ ScanSwitched \/ ScanNone
  BY <1>11, <1>c DEF IdleFind, IdleFindNone, ScanSwitched, ScanNone
<1>12. CASE WaitTick \/ WaitFindNone
  BY <1>12, <1>c DEF WaitTick, WaitFindNone
<1>13. ASSUME NEW s \in UsbSlots, OpenAccessory(s)
       PROVE  Goal
  BY <1>13, <1>c DEF OpenAccessory
<1>14. CASE ConnectedEnd
  <2>1. ~overwritten => Live = {}
    BY <1>14 DEF ConnectedEnd, IInv, GuardExact
  <2>2. UNCHANGED <<flag, overwritten>> /\ Live' = Live
    BY <1>14 DEF ConnectedEnd, Live
  <2> QED
    BY <2>1, <2>2 DEF IInv, GuardNotStranded, GuardExact, UsbSupervised
<1>15. CASE Device
  BY <1>15, <1>b DEF Device, Plug, Reenumerate, Unplug, Live
<1> HIDE DEF Goal
<1> QED
  BY <1>1, <1>2, <1>3, <1>4, <1>5, <1>6, <1>7, <1>8, <1>9, <1>10, <1>11, <1>12,
     <1>13, <1>14, <1>15
  DEF Next, AcceptLoop, Watcher, Stopped

LEMMA InitGuard == Init => GuardNotStranded /\ GuardExact /\ UsbSupervised
  BY DEF Init, GuardNotStranded, GuardExact, UsbSupervised, Live

(* IInv holds in every reachable state. *)
THEOREM Invariance == Spec => []IInv
<1>1. Init => IInv
  BY InitTypeOK, InitGuard DEF IInv
<1>2. IInv /\ [Next]_vars => IInv'
  BY TypeStep, GuardStep DEF IInv
<1> QED
  BY <1>1, <1>2, PTL DEF Spec

(* Every variable keeps its type, for every Clients, UsbSlots and timing. *)
THEOREM TypeCorrect == Spec => []TypeOK
<1>1. IInv => TypeOK
  BY DEF IInv
<1> QED
  BY <1>1, Invariance, PTL

(* The accept loop of daemon.rs never refuses a client for a session that no *)
(* longer exists.                                                            *)
THEOREM NeverStranded == Spec => []GuardNotStranded
<1>1. IInv => GuardNotStranded
  BY DEF IInv
<1> QED
  BY <1>1, Invariance, PTL

(* is_session_active is exact, and the session single, unless TRUE was stored *)
(* over TRUE since somebody was last out of service.                          *)
THEOREM ExactUnlessOverwritten == Spec => []GuardExact
<1>1. IInv => GuardExact
  BY DEF IInv
<1> QED
  BY <1>1, Invariance, PTL

(* Unless the flag was overwritten, the watcher stays in Connected as long as *)
(* a USB session is alive.                                                    *)
THEOREM WatcherSupervises == Spec => []UsbSupervised
<1>1. IInv => UsbSupervised
  BY DEF IInv
<1> QED
  BY <1>1, Invariance, PTL

=============================================================================
