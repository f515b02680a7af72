------------------------- MODULE ClientSessionProofs -------------------------
(***************************************************************************)
(* The safety properties of ClientSession, for any number of sessions.     *)
(*                                                                         *)
(* The fields activeTransport, decoder and touchHandler are written by     *)
(* coroutines that may be stopped already.  What a stop did not reach is   *)
(* found out only when the field is written over; TransportInv, DecoderInv *)
(* and HandlerInv say of a field what its session must have done to be in  *)
(* it after its stop.                                                      *)
(***************************************************************************)
EXTENDS ClientSession, TLAPS

\* A stop leaves no session that is not cancelled: the only one is the last.
JobInv ==
    /\ sessionJob \in {0, started}
    /\ \A s \in Sessions : s <= started /\ ~cancelled[s] => sessionJob = s
    /\ ~surface => sessionJob = 0
    /\ main # "idle" => sessionJob = 0

\* Where a session has not said HELLO
Before == {"none", "launched", "connect", "store", "hello"}

\* A stopped session whose open transport is in the field, where the main thread is
\* not about to close it, stored it after it was stopped, and says no HELLO.
TransportInv ==
    /\ \A s \in Sessions : greeted[s] => pc[s] \notin Before
    /\ \A s \in Sessions :
        (activeTransport = s /\ transport[s] = "open" /\ cancelled[s]
            /\ (main = "idle" \/ s # started)) => ~greeted[s]

\* The same of the decoder: it came late.  And the session that is not stopped finds
\* its decoder in the field when it starts it, or an older one came late.
DecoderInv ==
    /\ \A s \in Sessions :
        (decoder = s /\ running[s] /\ cancelled[s] /\ (main # "stopDecoder" \/ s # started))
            => s \in tardy
    /\ \A s \in Sessions :
        (pc[s] = "start" /\ ~cancelled[s]) => decoder = s \/ \E r \in tardy : r < s

\* The session that attaches finds its handler in the field, or that of one that
\* came late.
HandlerInv ==
    \A s \in Sessions :
        (pc[s] = "attach" /\ ~cancelled[s]) => touchHandler = s \/ touchHandler \in tardy

IInv ==
    /\ TypeOK /\ JobInv /\ TransportInv /\ DecoderInv /\ HandlerInv
    /\ ForgottenIsSilent /\ StrayDecoderIsTardy

LEMMA SessionNumbers == MaxSessions \in Nat /\ MaxSessions > 0 /\ Sessions = 1..MaxSessions
BY MaxAssumption DEF Sessions

LEMMA InitIInv == Init => IInv
<1> SUFFICES ASSUME Init PROVE IInv
  OBVIOUS
<1> USE SessionNumbers
<1>1. TypeOK
  <2>1. pc \in [Sessions -> Steps] /\ \A s \in Sessions : pc[s] = "none" /\ s > started
    BY DEF Init, Steps
  <2>2. /\ cancelled \in [Sessions -> BOOLEAN] /\ greeted \in [Sessions -> BOOLEAN]
        /\ transport \in [Sessions -> {"none", "open", "closed"}]
        /\ running \in [Sessions -> {r \in BOOLEAN : r => view}]
    BY DEF Init
  <2>3. /\ started \in 0..MaxSessions
        /\ {sessionJob, activeTransport, decoder, touchHandler, listener} \subseteq 0..started
        /\ tardy = {}
    BY DEF Init
  <2>4. /\ isUsb \in BOOLEAN /\ view \in BOOLEAN /\ surface \in BOOLEAN /\ exiting \in BOOLEAN
        /\ main \in {"idle", "stopDecoder", "closeTransport"}
    BY DEF Init
  <2> QED
    BY <2>1, <2>2, <2>3, <2>4 DEF TypeOK
<1>2. JobInv /\ TransportInv
  BY DEF Init, JobInv, TransportInv
<1>3. DecoderInv /\ HandlerInv
  BY DEF Init, DecoderInv, HandlerInv
<1>4. ForgottenIsSilent /\ StrayDecoderIsTardy
  BY DEF Init, ForgottenIsSilent, StrayDecoderIsTardy
<1> QED
  BY <1>1, <1>2, <1>3, <1>4 DEF IInv

(* A session that is not stopped is the current one. *)
LEMMA OnlyCurrent ==
    ASSUME IInv, NEW s \in Sessions, pc[s] # "none", ~cancelled[s]
    PROVE  sessionJob = s /\ started = s /\ main = "idle"
BY SessionNumbers DEF IInv, TypeOK, JobInv

LEMMA SurfaceStep == IInv /\ SurfaceCreated => IInv'
<1> SUFFICES ASSUME IInv, SurfaceCreated PROVE IInv'
  OBVIOUS
<1> USE SessionNumbers DEF IInv
<1>1. started' \in Sessions /\ started' = started + 1 /\ sessionJob = 0
  BY DEF SurfaceCreated, TypeOK, JobInv
<1>2. TypeOK'
  BY <1>1 DEF SurfaceCreated, TypeOK, Steps
<1>3. JobInv'
  BY <1>1 DEF SurfaceCreated, TypeOK, JobInv
<1>4. TransportInv' /\ ForgottenIsSilent'
  BY <1>1 DEF SurfaceCreated, TypeOK, TransportInv, ForgottenIsSilent, Before
<1>5. DecoderInv' /\ StrayDecoderIsTardy' /\ HandlerInv'
  BY <1>1 DEF SurfaceCreated, TypeOK, DecoderInv, StrayDecoderIsTardy, HandlerInv
<1> QED
  BY <1>2, <1>3, <1>4, <1>5

(* sessionJob?.cancel(), wherever it is called: by surfaceDestroyed, a click, the
   end of the view or the end of a session. *)
LEMMA CancelStep ==
    ASSUME IInv, CancelJob, surface' \in BOOLEAN, exiting' \in BOOLEAN, view' \in BOOLEAN,
           running' \in [Sessions -> {r \in BOOLEAN : r => view'}],
           \A s \in Sessions : running'[s] => running[s],
           \/ UNCHANGED pc
           \/ \E s \in Sessions : pc[s] = "finally" /\ pc' = [pc EXCEPT ![s] = "exit"],
           UNCHANGED <<isUsb, started, activeTransport, decoder, transport, touchHandler,
                       listener, greeted, tardy>>
    PROVE  IInv'
<1> USE SessionNumbers DEF IInv
<1>1. /\ cancelled' \in [Sessions -> BOOLEAN] /\ sessionJob' = 0 /\ main' = "stopDecoder"
      /\ \A s \in Sessions : cancelled'[s] = (cancelled[s] \/ s = sessionJob)
  BY DEF CancelJob, TypeOK
<1>2. /\ pc' \in [Sessions -> Steps]
      /\ \A s \in Sessions : pc'[s] = pc[s] \/ (pc[s] = "finally" /\ pc'[s] = "exit")
  BY DEF TypeOK, Steps
<1>3. TypeOK'
  BY <1>1, <1>2 DEF TypeOK
<1>4. \A s \in Sessions : s <= started => cancelled'[s]
  BY <1>1 DEF JobInv
<1>5. JobInv'
  BY <1>1, <1>4 DEF JobInv
<1>6. \A s \in Sessions : cancelled'[s] /\ ~cancelled[s] => s = started
  BY <1>1 DEF JobInv, TypeOK
<1>7. TransportInv' /\ ForgottenIsSilent'
  BY <1>1, <1>2, <1>6 DEF TypeOK, TransportInv, ForgottenIsSilent, Before
<1>8. DecoderInv' /\ StrayDecoderIsTardy'
  BY <1>1, <1>2, <1>6 DEF TypeOK, DecoderInv, StrayDecoderIsTardy
<1>9. HandlerInv'
  BY <1>1, <1>2 DEF HandlerInv
<1> QED
  BY <1>3, <1>5, <1>7, <1>8, <1>9

LEMMA StopStep == IInv /\ (Stop \/ DestroyView) => IInv'
<1> SUFFICES ASSUME IInv, Stop \/ DestroyView PROVE IInv'
  OBVIOUS
<1>1. CASE Stop
  <2>1. running' \in [Sessions -> {r \in BOOLEAN : r => view'}]
    BY <1>1 DEF Stop, IInv, TypeOK
  <2> QED
    BY <1>1, <2>1, CancelStep DEF Stop, IInv, TypeOK
<1>2. CASE DestroyView
  <2>1. /\ running' \in [Sessions -> {r \in BOOLEAN : r => view'}]
        /\ \A s \in Sessions : ~running'[s]
    BY <1>2 DEF DestroyView
  <2> QED
    BY <1>2, <2>1, CancelStep DEF DestroyView, IInv, TypeOK
<1> QED
  BY <1>1, <1>2

LEMMA FinallyStep == ASSUME NEW s \in Sessions PROVE IInv /\ Finally(s) => IInv'
<1> SUFFICES ASSUME IInv, Finally(s) PROVE IInv'
  OBVIOUS
<1> USE SessionNumbers DEF IInv
<1>1. CASE cancelled[s]
  <2>1. /\ pc' = [pc EXCEPT ![s] = "done"] /\ pc[s] = "finally"
        /\ UNCHANGED <<isUsb, view, surface, main, exiting, started, sessionJob, activeTransport,
                       decoder, cancelled, transport, running, touchHandler,
                       listener, greeted, tardy>>
    BY <1>1 DEF Finally, Goto
  <2>2. TypeOK' /\ JobInv'
    BY <2>1 DEF TypeOK, JobInv, Steps
  <2>3. TransportInv' /\ ForgottenIsSilent'
    BY <2>1 DEF TypeOK, TransportInv, ForgottenIsSilent, Before
  <2>4. DecoderInv' /\ StrayDecoderIsTardy' /\ HandlerInv'
    BY <2>1 DEF TypeOK, DecoderInv, StrayDecoderIsTardy, HandlerInv
  <2> QED
    BY <2>2, <2>3, <2>4
<1>2. CASE ~cancelled[s]
  <2>1. running' \in [Sessions -> {r \in BOOLEAN : r => view'}]
    BY <1>2 DEF Finally, TypeOK
  <2>2. /\ pc[s] = "finally" /\ pc' = [pc EXCEPT ![s] = "exit"] /\ CancelJob /\ exiting' = TRUE
        /\ UNCHANGED <<isUsb, view, surface, started, activeTransport, decoder, transport,
                       running, touchHandler, listener, greeted, tardy>>
    BY <1>2 DEF Finally, Goto
  <2> QED
    BY <2>1, <2>2, CancelStep DEF TypeOK
<1> QED
  BY <1>1, <1>2

LEMMA MainStep == IInv /\ MainGoesOn => IInv'
<1> SUFFICES ASSUME IInv, MainGoesOn PROVE IInv'
  OBVIOUS
<1> USE SessionNumbers DEF IInv
<1>1. CASE StopDecoder
  <2>1. \A s \in Sessions : running'[s] = (running[s] /\ s # decoder)
    BY <1>1 DEF StopDecoder
  <2>2. TypeOK' /\ JobInv'
    BY <1>1 DEF StopDecoder, TypeOK, JobInv
  <2>3. TransportInv' /\ ForgottenIsSilent'
    BY <1>1 DEF StopDecoder, TransportInv, ForgottenIsSilent
  <2>4. \A s \in Sessions : pc[s] # "none" => cancelled[s]
    BY <1>1 DEF StopDecoder, TypeOK, JobInv
  <2>5. DecoderInv' /\ HandlerInv'
    BY <1>1, <2>4 DEF StopDecoder, DecoderInv, HandlerInv
  <2>6. StrayDecoderIsTardy'
    BY <1>1, <2>1 DEF StopDecoder, StrayDecoderIsTardy
  <2> QED
    BY <2>2, <2>3, <2>5, <2>6
<1>2. CASE CloseTransport
  <2>1. /\ \A s \in Sessions : pc'[s] = pc[s] \/ (pc[s] = "exit" /\ pc'[s] = "done")
        /\ pc' \in [Sessions -> Steps]
    BY <1>2 DEF CloseTransport, TypeOK, Steps
  <2>2. /\ transport' \in [Sessions -> {"none", "open", "closed"}]
        /\ \A s \in Sessions :
              transport'[s] = "open" => transport[s] = "open" /\ s # activeTransport
    BY <1>2 DEF CloseTransport, TypeOK
  <2>3. TypeOK' /\ JobInv'
    BY <1>2, <2>1, <2>2 DEF CloseTransport, TypeOK, JobInv
  <2>4. TransportInv' /\ ForgottenIsSilent'
    BY <1>2, <2>1, <2>2 DEF CloseTransport, TypeOK, TransportInv, ForgottenIsSilent, Before
  <2>5. DecoderInv' /\ StrayDecoderIsTardy' /\ HandlerInv'
    BY <1>2, <2>1 DEF CloseTransport, TypeOK, DecoderInv, StrayDecoderIsTardy, HandlerInv
  <2> QED
    BY <2>3, <2>4, <2>5
<1> QED
  BY <1>1, <1>2 DEF MainGoesOn

(* A step that moves one coroutine on and touches no field; it may attach the
   touch handler. *)
LEMMA QuietStep ==
    ASSUME IInv, NEW s \in Sessions, pc[s] \notin {"none", "store"},
           NEW next \in Steps \ {"none", "start", "attach"}, pc' = [pc EXCEPT ![s] = next],
           next \in Before => pc[s] \in Before,
           listener' \in {listener, touchHandler},
           UNCHANGED <<screen, activeTransport, decoder, cancelled, transport, running,
                       touchHandler, greeted, tardy>>
    PROVE  IInv'
<1> USE SessionNumbers DEF IInv, screen
<1>1. TypeOK' /\ JobInv'
  BY DEF TypeOK, JobInv
<1>2. TransportInv' /\ ForgottenIsSilent'
  BY DEF TypeOK, TransportInv, ForgottenIsSilent
<1>3. DecoderInv' /\ StrayDecoderIsTardy' /\ HandlerInv'
  BY DEF TypeOK, DecoderInv, StrayDecoderIsTardy, HandlerInv
<1> QED
  BY <1>1, <1>2, <1>3

LEMMA QuietSteps ==
    ASSUME IInv, NEW s \in Sessions,
           Show(s) \/ ConnectFails(s) \/ ReadAck(s) \/ AttachTouch(s) \/ ReadPacket(s)
               \/ ReadFails(s)
    PROVE  IInv'
<1>1. /\ pc[s] \notin {"none", "store"} /\ listener' \in {listener, touchHandler}
      /\ UNCHANGED <<screen, activeTransport, decoder, cancelled, transport, running,
                     touchHandler, greeted, tardy>>
  BY DEF Show, ConnectFails, ReadAck, AttachTouch, ReadPacket, ReadFails
<1>2. PICK next \in Steps \ {"none", "start", "attach"} :
          pc' = [pc EXCEPT ![s] = next] /\ (next \in Before => pc[s] \in Before)
  BY DEF Show, ConnectFails, ReadAck, AttachTouch, ReadPacket, ReadFails, Checked, Steps, Before
<1> QED
  BY <1>1, <1>2, QuietStep

LEMMA ConnectStep == ASSUME NEW s \in Sessions PROVE IInv /\ Connect(s) => IInv'
<1> SUFFICES ASSUME IInv, Connect(s) PROVE IInv'
  OBVIOUS
<1> USE SessionNumbers DEF IInv, screen
<1>1. /\ pc[s] = "connect" /\ transport' = [transport EXCEPT ![s] = "open"]
      /\ pc' = [pc EXCEPT ![s] = IF cancelled[s] THEN "done" ELSE "store"]
      /\ UNCHANGED <<screen, activeTransport, decoder, cancelled, running, touchHandler,
                     listener, greeted, tardy>>
  BY DEF Connect, Checked
<1>2. TypeOK' /\ JobInv'
  BY <1>1 DEF TypeOK, JobInv, Steps
<1>3. ~greeted[s]
  BY <1>1 DEF TransportInv, Before
<1>4. TransportInv' /\ ForgottenIsSilent'
  BY <1>1, <1>3 DEF TypeOK, TransportInv, ForgottenIsSilent, Before
<1>5. DecoderInv' /\ StrayDecoderIsTardy' /\ HandlerInv'
  BY <1>1 DEF TypeOK, DecoderInv, StrayDecoderIsTardy, HandlerInv
<1> QED
  BY <1>2, <1>4, <1>5

(* The session that activeTransport or decoder is taken from by session s *)
LEMMA Overwritten ==
    ASSUME IInv, NEW s \in Sessions, pc[s] # "none", NEW q \in 1..started, q # s, Noted(s)
    PROVE  \/ s \in tardy' /\ s < q
           \/ q # started /\ cancelled[q]
<1> USE SessionNumbers DEF IInv
<1>1. s <= started /\ q \in Sessions
  BY DEF TypeOK
<1>2. CASE q < s
  BY <1>1, <1>2 DEF TypeOK, JobInv
<1>3. CASE s < q
  <2>1. cancelled[s]
    BY <1>1, <1>3 DEF TypeOK, JobInv
  <2> QED
    BY <1>3, <2>1 DEF Noted
<1> QED
  BY <1>2, <1>3 DEF TypeOK

LEMMA StoreStep == ASSUME NEW s \in Sessions PROVE IInv /\ Store(s) => IInv'
<1> SUFFICES ASSUME IInv, Store(s) PROVE IInv'
  OBVIOUS
<1> USE SessionNumbers DEF IInv, screen
<1>1. /\ pc[s] = "store" /\ pc' = [pc EXCEPT ![s] = "hello"] /\ activeTransport' = s /\ Noted(s)
      /\ UNCHANGED <<screen, decoder, cancelled, transport, running, touchHandler,
                     listener, greeted>>
  BY DEF Store, Goto
<1>2. tardy \subseteq tardy' /\ tardy' \subseteq {r \in Sessions : cancelled[r]}
  BY <1>1 DEF Noted, TypeOK
<1>3. TypeOK' /\ JobInv'
  BY <1>1, <1>2 DEF TypeOK, JobInv, Steps
<1>4. ~greeted[s]
  BY <1>1 DEF TransportInv, Before
<1>5. TransportInv'
  BY <1>1, <1>4 DEF TypeOK, TransportInv, Before
<1>6. ASSUME NEW q \in Sessions, transport[q] = "open", q # s, pc[q] # "store"
      PROVE  (cancelled[q] /\ ~greeted[q]) \/ \E r \in tardy' : r < q
  <2>1. CASE activeTransport # q
    BY <1>2, <1>6, <2>1 DEF ForgottenIsSilent
  <2>2. CASE activeTransport = q
    <3>1. q \in 1..started
      BY <2>2 DEF TypeOK
    <3>2. (s \in tardy' /\ s < q) \/ (q # started /\ cancelled[q])
      BY <1>1, <1>6, <3>1, Overwritten
    <3> QED
      BY <1>6, <2>2, <3>2 DEF TransportInv
  <2> QED
    BY <2>1, <2>2
<1>7. ForgottenIsSilent'
  BY <1>1, <1>6 DEF TypeOK, ForgottenIsSilent
<1>8. DecoderInv' /\ StrayDecoderIsTardy' /\ HandlerInv'
  BY <1>1, <1>2 DEF TypeOK, DecoderInv, StrayDecoderIsTardy, HandlerInv
<1> QED
  BY <1>3, <1>5, <1>7, <1>8

LEMMA HelloStep == ASSUME NEW s \in Sessions PROVE IInv /\ SendHello(s) => IInv'
<1> SUFFICES ASSUME IInv, SendHello(s) PROVE IInv'
  OBVIOUS
<1> USE SessionNumbers DEF IInv, screen
<1>1. CASE Checked(s, "finally") /\ UNCHANGED greeted
  <2>1. PICK next \in {"done", "finally"} : pc' = [pc EXCEPT ![s] = next]
    BY <1>1 DEF Checked
  <2> QED
    BY <2>1, <1>1, QuietStep DEF SendHello, Steps, Before
<1>2. CASE ~cancelled[s] /\ greeted' = [greeted EXCEPT ![s] = TRUE] /\ Goto(s, "ack")
  <2>1. /\ pc[s] = "hello" /\ pc' = [pc EXCEPT ![s] = "ack"]
        /\ UNCHANGED <<screen, activeTransport, decoder, cancelled, transport, running,
                       touchHandler, listener, tardy>>
    BY <1>2 DEF SendHello, Goto
  <2>2. TypeOK' /\ JobInv'
    BY <1>2, <2>1 DEF TypeOK, JobInv, Steps
  <2>3. TransportInv'
    BY <1>2, <2>1 DEF TypeOK, TransportInv, Before
  <2>4. ForgottenIsSilent'
    BY <1>2, <2>1 DEF TypeOK, ForgottenIsSilent
  <2>5. DecoderInv' /\ StrayDecoderIsTardy' /\ HandlerInv'
    BY <2>1 DEF TypeOK, DecoderInv, StrayDecoderIsTardy, HandlerInv
  <2> QED
    BY <2>2, <2>3, <2>4, <2>5
<1> QED
  BY <1>1, <1>2 DEF SendHello

LEMMA StoreDecoderStep == ASSUME NEW s \in Sessions PROVE IInv /\ StoreDecoder(s) => IInv'
<1> SUFFICES ASSUME IInv, StoreDecoder(s) PROVE IInv'
  OBVIOUS
<1> USE SessionNumbers DEF IInv, screen
<1>1. /\ pc[s] = "decoder" /\ pc' = [pc EXCEPT ![s] = "start"] /\ decoder' = s /\ Noted(s)
      /\ UNCHANGED <<screen, activeTransport, cancelled, transport, running, touchHandler,
                     listener, greeted>>
  BY DEF StoreDecoder, Goto
<1>2. tardy \subseteq tardy' /\ tardy' \subseteq {r \in Sessions : cancelled[r]}
  BY <1>1 DEF Noted, TypeOK
<1>3. TypeOK' /\ JobInv'
  BY <1>1, <1>2 DEF TypeOK, JobInv, Steps
<1>4. TransportInv' /\ ForgottenIsSilent'
  BY <1>1, <1>2 DEF TypeOK, TransportInv, ForgottenIsSilent, Before
<1>5. cancelled[s] => s \in tardy'
  BY <1>1 DEF Noted
<1>6. ASSUME NEW q \in Sessions, running[q], q # s
      PROVE  \E r \in tardy' : r <= q
  <2>1. CASE decoder # q
    BY <1>2, <1>6, <2>1 DEF StrayDecoderIsTardy
  <2>2. CASE decoder = q
    <3>1. q \in 1..started
      BY <2>2 DEF TypeOK
    <3>2. (s \in tardy' /\ s < q) \/ (q # started /\ cancelled[q])
      BY <1>1, <1>6, <3>1, Overwritten
    <3>3. CASE s \in tardy' /\ s < q
      BY <3>3
    <3>4. CASE q # started /\ cancelled[q]
      <4>1. q \in tardy' /\ q <= q
        BY <1>2, <1>6, <2>2, <3>4 DEF DecoderInv
      <4> QED
        BY <4>1
    <3> QED
      BY <3>2, <3>3, <3>4
  <2> QED
    BY <2>1, <2>2
<1>7. StrayDecoderIsTardy'
  BY <1>1, <1>6 DEF StrayDecoderIsTardy
<1>8. ASSUME NEW q \in Sessions, pc[q] = "start", ~cancelled[q], q # s
      PROVE  \E r \in tardy' : r < q
  <2>1. q = started /\ q \in 1..started
    BY <1>8, OnlyCurrent
  <2> QED
    BY <1>1, <1>8, <2>1, Overwritten
<1>9. DecoderInv' /\ HandlerInv'
  BY <1>1, <1>2, <1>5, <1>8 DEF TypeOK, DecoderInv, HandlerInv
<1> QED
  BY <1>3, <1>4, <1>7, <1>9

LEMMA StartDecoderStep == ASSUME NEW s \in Sessions PROVE IInv /\ StartDecoder(s) => IInv'
<1> SUFFICES ASSUME IInv, StartDecoder(s) PROVE IInv'
  OBVIOUS
<1> USE SessionNumbers DEF IInv, screen
<1>1. /\ pc[s] = "start" /\ pc' = [pc EXCEPT ![s] = "handler"]
      /\ UNCHANGED <<screen, activeTransport, decoder, cancelled, transport, touchHandler,
                     listener, greeted>>
      /\ \/ view /\ running' = [running EXCEPT ![s] = TRUE] /\ Noted(s)
         \/ UNCHANGED <<running, tardy>>
  BY DEF StartDecoder, Goto
<1>2. tardy \subseteq tardy' /\ tardy' \subseteq {r \in Sessions : cancelled[r]}
  BY <1>1 DEF Noted, TypeOK
<1>3. running' \in [Sessions -> {r \in BOOLEAN : r => view'}]
  BY <1>1 DEF TypeOK
<1>4. TypeOK' /\ JobInv'
  BY <1>1, <1>2, <1>3 DEF TypeOK, JobInv, Steps
<1>5. TransportInv' /\ ForgottenIsSilent'
  BY <1>1, <1>2 DEF TypeOK, TransportInv, ForgottenIsSilent, Before
<1>6. running'[s] /\ ~running[s] => (cancelled[s] => s \in tardy')
  BY <1>1 DEF Noted
<1>7. \A q \in Sessions : running'[q] => running[q] \/ q = s
  BY <1>1 DEF TypeOK
<1>8. DecoderInv' /\ HandlerInv'
  BY <1>1, <1>2, <1>6, <1>7 DEF TypeOK, DecoderInv, HandlerInv
<1>9. running'[s] /\ ~running[s] => decoder = s \/ \E r \in tardy' : r <= s
  <2>1. CASE cancelled[s]
    BY <1>6, <2>1
  <2>2. CASE ~cancelled[s]
    BY <1>1, <1>2, <2>2 DEF DecoderInv, TypeOK
  <2> QED
    BY <2>1, <2>2
<1>10. StrayDecoderIsTardy'
  BY <1>1, <1>2, <1>7, <1>9 DEF StrayDecoderIsTardy
<1> QED
  BY <1>4, <1>5, <1>8, <1>10

LEMMA StoreHandlerStep == ASSUME NEW s \in Sessions PROVE IInv /\ StoreHandler(s) => IInv'
<1> SUFFICES ASSUME IInv, StoreHandler(s) PROVE IInv'
  OBVIOUS
<1> USE SessionNumbers DEF IInv, screen
<1>1. CASE ~view /\ Goto(s, "finally") /\ UNCHANGED <<touchHandler, tardy>>
  BY <1>1, QuietStep DEF StoreHandler, Goto, Steps, Before
<1>2. CASE touchHandler' = s /\ Noted(s) /\ Goto(s, "attach")
  <2>1. /\ pc[s] = "handler" /\ pc' = [pc EXCEPT ![s] = "attach"]
        /\ touchHandler' = s /\ Noted(s)
        /\ UNCHANGED <<screen, activeTransport, decoder, cancelled, transport, running,
                       listener, greeted>>
    BY <1>2 DEF StoreHandler, Goto
  <2>2. tardy \subseteq tardy' /\ tardy' \subseteq {r \in Sessions : cancelled[r]}
    BY <2>1 DEF Noted, TypeOK
  <2>3. TypeOK' /\ JobInv'
    BY <2>1, <2>2 DEF TypeOK, JobInv, Steps
  <2>4. TransportInv' /\ ForgottenIsSilent'
    BY <2>1, <2>2 DEF TypeOK, TransportInv, ForgottenIsSilent, Before
  <2>5. DecoderInv' /\ StrayDecoderIsTardy'
    BY <2>1, <2>2 DEF TypeOK, DecoderInv, StrayDecoderIsTardy
  <2>6. ASSUME NEW q \in Sessions, pc[q] = "attach", ~cancelled[q], q # s
        PROVE  s \in tardy'
    <3>1. cancelled[s]
      BY <2>1, <2>6, OnlyCurrent
    <3> QED
      BY <2>1, <3>1 DEF Noted
  <2>7. HandlerInv'
    BY <2>1, <2>6 DEF TypeOK, HandlerInv
  <2> QED
    BY <2>3, <2>4, <2>5, <2>7
<1> QED
  BY <1>1, <1>2 DEF StoreHandler

LEMMA NextIInv == IInv /\ [Next]_vars => IInv'
<1> SUFFICES ASSUME IInv, [Next]_vars PROVE IInv'
  OBVIOUS
<1>1. CASE UNCHANGED vars
  BY <1>1 DEF vars, IInv, TypeOK, JobInv, TransportInv, DecoderInv, HandlerInv,
              ForgottenIsSilent, StrayDecoderIsTardy
<1>2. CASE SurfaceCreated \/ Stop \/ DestroyView \/ MainGoesOn
  BY <1>2, SurfaceStep, StopStep, MainStep
<1>3. ASSUME NEW s \in Sessions,
             Step(s) \/ ConnectEnds(s) \/ ReadAck(s) \/ ReadPacket(s) \/ ReadFails(s)
      PROVE  IInv'
  BY <1>3, QuietSteps, StoreStep, HelloStep, StoreDecoderStep, StartDecoderStep,
     StoreHandlerStep, FinallyStep, ConnectStep DEF Step, ConnectEnds
<1> QED
  BY <1>1, <1>2, <1>3 DEF Next

LEMMA Invariance == Spec => []IInv
BY InitIInv, NextIInv, PTL DEF Spec

(* Types, and the relations of fields and coroutines that TypeOK states. *)
THEOREM TypeCorrect == Spec => []TypeOK
<1>1. IInv => TypeOK
  BY DEF IInv
<1> QED
  BY <1>1, Invariance, PTL

(* A connection that the fragment forgot said no HELLO, unless an older session
   came late. *)
THEOREM ForgottenSaysNothing == Spec => []ForgottenIsSilent
<1>1. IInv => ForgottenIsSilent
  BY DEF IInv
<1> QED
  BY <1>1, Invariance, PTL

(* A decoder that the fragment lost was started late, or lost to one that was. *)
THEOREM StrayDecoderCameLate == Spec => []StrayDecoderIsTardy
<1>1. IInv => StrayDecoderIsTardy
  BY DEF IInv
<1> QED
  BY <1>1, Invariance, PTL

(* Only the current session attaches a handler or leaves the screen, and the
   handler is its own, unless an older session came late. *)
THEOREM OnlyCurrentOnScreen == Spec => NoStaleScreen
<1> DEFINE Screen ==
        /\ listener' # listener =>
              /\ sessionJob = started
              /\ listener' = started \/ listener' \in tardy
        /\ \A s \in Sessions :
              pc[s] # "exit" /\ pc'[s] = "exit" => sessionJob = s /\ started = s
<1>1. ASSUME IInv, Next PROVE Screen
  <2>1. CASE SurfaceCreated \/ Stop \/ DestroyView \/ MainGoesOn
    BY <1>1, <2>1 DEF IInv, TypeOK, SurfaceCreated, Stop, DestroyView, MainGoesOn,
                      StopDecoder, CloseTransport
  <2>2. ASSUME NEW q \in Sessions,
               Step(q) \/ ConnectEnds(q) \/ ReadAck(q) \/ ReadPacket(q) \/ ReadFails(q)
        PROVE  Screen
    <3>1. CASE AttachTouch(q)
      <4>1. pc[q] = "attach" /\ (cancelled[q] => listener' = listener)
        BY <3>1 DEF AttachTouch
      <4>2. ~cancelled[q] =>
               /\ sessionJob = started /\ q = started /\ listener' = touchHandler
               /\ touchHandler = q \/ touchHandler \in tardy
        BY <1>1, <3>1, <4>1, OnlyCurrent DEF AttachTouch, IInv, HandlerInv
      <4>3. \A s \in Sessions : pc'[s] = "exit" => pc[s] = "exit"
        BY <1>1, <3>1 DEF AttachTouch, Checked, IInv, TypeOK
      <4> QED
        BY <4>1, <4>2, <4>3
    <3>2. CASE Finally(q)
      BY <1>1, <3>2, OnlyCurrent DEF Finally, Goto, IInv, TypeOK
    <3>3. CASE ~AttachTouch(q) /\ ~Finally(q)
      <4>1. listener' = listener
        BY <2>2, <3>3 DEF Step, ConnectEnds, Show, Store, SendHello, StoreDecoder,
               StartDecoder, StoreHandler, Connect, ConnectFails, ReadAck, ReadPacket,
               ReadFails
      <4>2. PICK next \in Steps \ {"exit"} : pc' = [pc EXCEPT ![q] = next]
        BY <2>2, <3>3 DEF Step, ConnectEnds, Show, Store, SendHello, StoreDecoder,
               StartDecoder, StoreHandler, Connect, ConnectFails, ReadAck, ReadPacket,
               ReadFails, Checked, Goto, Steps
      <4> QED
        BY <1>1, <4>1, <4>2 DEF IInv, TypeOK
    <3> QED
      BY <3>1, <3>2, <3>3
  <2> QED
    BY <1>1, <2>1, <2>2 DEF Next
<1>2. IInv /\ [Next]_vars => [Screen]_vars
  BY <1>1
<1> QED
  BY <1>2, Invariance, PTL DEF Spec, NoStaleScreen

=============================================================================
