------------------------------ MODULE FrameRing ------------------------------
(***************************************************************************)
(* The client's frame path: FrameRingBuffer.offer, called by the packet    *)
(* read loop of DisplayFragment, against the feeding loops of H264Decoder, *)
(* which run in other coroutines, on other threads.                        *)
(*                                                                         *)
(* offer is not synchronized: it reads and writes the drop flag, asks the  *)
(* queue for its remaining capacity, clears it and enqueues in separate    *)
(* steps, and a decoder may poll between any two of them.  Only the        *)
(* queue's own methods are atomic.                                         *)
(*                                                                         *)
(* The buffer belongs to the fragment, not to the session: when the        *)
(* surface is destroyed and created again a new decoder takes over the     *)
(* buffer as the old one left it, and a decoder that a stopped session     *)
(* started late, or that a stop did not reach, polls the same buffer       *)
(* beside it.  Frames are numbered as they arrive and the first frame of   *)
(* every session is a keyframe.                                            *)
(***************************************************************************)
EXTENDS Naturals, Sequences

CONSTANTS
    Capacity,     \* maxCapacity
    CodecInputs,  \* input buffers of a MediaCodec
    MaxFrames,    \* bound: frames that arrive
    MaxStarts     \* bound: decoders that are started

ASSUME CapacityAssumption == Capacity \in Nat \ {0}
ASSUME BoundsAssumption ==
    CodecInputs \in Nat \ {0} /\ MaxFrames \in Nat /\ MaxStarts \in Nat

\* Decoders are numbered in the order they are created.
Decoders == 1..MaxStarts

VARIABLES
    keys,        \* keyframe flag of every frame that arrived
    queue,       \* numbers of the frames in the LinkedBlockingQueue
    dropping,    \* isDroppingUntilKeyframe
    offerPc,     \* where the read loop stands inside offer
    newSession,  \* the next frame is the first of its session
    reading,     \* the session's read loop has not ended
    active,      \* there is a session that was not stopped
    starts,      \* decoders created so far
    running,     \* isRunning of every decoder
    inHand,      \* frame each polled and has not yet given to its codec, or 0
    inputs,      \* free input buffers of each codec
    held,        \* input buffers that a failed feeding took and kept
    delivered,   \* history: the last frame polled
    fed,         \* history: the last frame each codec was given, or 0
    excused      \* history: since it last took a keyframe a frame was lost in
                 \* this decoder or taken by another, or it began in midstream

vars == <<keys, queue, dropping, offerPc, newSession, reading, active, starts,
          running, inHand, inputs, held, delivered, fed, excused>>

offerVars   == <<keys, dropping, offerPc, newSession, reading>>
sessionVars == <<active, starts>>
codecVars   == <<inputs, held, fed>>
decoderVars == <<running, inHand, codecVars, excused>>

Arrived == Len(keys)
Last(s) == s[Len(s)]

Init ==
    /\ keys = <<>>
    /\ queue = <<>>
    /\ dropping = FALSE
    /\ offerPc = "idle"
    /\ newSession = TRUE
    /\ reading = FALSE
    /\ active = FALSE
    /\ starts = 0
    /\ running = [d \in Decoders |-> FALSE]
    /\ inHand = [d \in Decoders |-> 0]
    /\ inputs = [d \in Decoders |-> CodecInputs]
    /\ held = [d \in Decoders |-> 0]
    /\ delivered = 0
    /\ fed = [d \in Decoders |-> 0]
    /\ excused = [d \in Decoders |-> FALSE]

-----------------------------------------------------------------------------
(* The read loop: VIDEO_DATA arrives and is offered. The frame under way is  *)
(* always number Arrived.  A session that is stopped still offers the frame  *)
(* it was reading.                                                           *)

\* Mutant: a P-frame may enter the queue while the flag says drop.
OfferForgetsDrop ==
    /\ offerPc = "idle" /\ reading /\ Arrived < MaxFrames
    /\ \E key \in {k \in BOOLEAN : newSession => k} :
          /\ keys' = Append(keys, key)
          /\ dropping' = (dropping /\ ~key)
    /\ offerPc' = "room"
    /\ newSession' = FALSE
    /\ reading' = active
    /\ UNCHANGED <<queue, delivered, sessionVars, decoderVars>>

\* Mutant: a keyframe does not end the drop state.
OfferKeepsDrop ==
    /\ offerPc = "idle" /\ reading /\ Arrived < MaxFrames
    /\ \E key \in {k \in BOOLEAN : newSession => k} :
          /\ keys' = Append(keys, key)
          /\ offerPc' = IF dropping THEN "idle" ELSE "room"
    /\ newSession' = FALSE
    /\ reading' = active
    /\ UNCHANGED <<queue, dropping, delivered, sessionVars, decoderVars>>

\* offer up to the capacity check: a keyframe ends the drop state, and a
\* P-frame met in it is refused.
Offer ==
    /\ offerPc = "idle" /\ reading /\ Arrived < MaxFrames
    /\ \E key \in {k \in BOOLEAN : newSession => k} :
          /\ keys' = Append(keys, key)
          /\ dropping' = (dropping /\ ~key)
    /\ offerPc' = IF dropping' THEN "idle" ELSE "room"
    /\ newSession' = FALSE
    /\ reading' = active
    /\ UNCHANGED <<queue, delivered, sessionVars, decoderVars>>

\* remainingCapacity(), and what follows from its answer.
OfferRoom ==
    /\ offerPc = "room"
    /\ \/ /\ Len(queue) < Capacity
          /\ offerPc' = "enqueue"
          /\ UNCHANGED dropping
       \/ /\ Len(queue) >= Capacity
          /\ keys[Arrived]
          /\ offerPc' = "clear"
          /\ UNCHANGED dropping
       \/ /\ Len(queue) >= Capacity
          /\ ~keys[Arrived]
          /\ dropping' = TRUE
          /\ offerPc' = "idle"
    /\ UNCHANGED <<keys, newSession, reading, queue, delivered, sessionVars, decoderVars>>

OfferClear ==
    /\ offerPc = "clear"
    /\ queue' = <<>>
    /\ offerPc' = "enqueue"
    /\ UNCHANGED <<keys, dropping, newSession, reading, delivered, sessionVars, decoderVars>>

\* queue.offer: refuses when the queue is full.
OfferEnqueue ==
    /\ offerPc = "enqueue"
    /\ queue' = IF Len(queue) < Capacity THEN Append(queue, Arrived) ELSE queue
    /\ offerPc' = "idle"
    /\ UNCHANGED <<keys, dropping, newSession, reading, delivered, sessionVars, decoderVars>>

-----------------------------------------------------------------------------
(* The feeding loop of decoder d, and the codec behind it *)

\* A frame that d takes is one the other decoders miss; a keyframe makes up for
\* what d itself missed.
Takes(d, frame) ==
    /\ delivered' = frame
    /\ excused' = [e \in Decoders |-> e = d => excused[d] /\ ~keys[frame]]

\* Mutant: the newest frame is taken, not the oldest.
PollNewest(d) ==
    /\ running[d] /\ inHand[d] = 0 /\ queue # <<>>
    /\ Takes(d, Last(queue))
    /\ inHand' = [inHand EXCEPT ![d] = Last(queue)]
    /\ queue' = <<>>
    /\ UNCHANGED <<offerVars, sessionVars, running, codecVars>>

\* queue.poll returns the oldest frame.
TakeOldest(d) ==
    /\ queue # <<>>
    /\ Takes(d, Head(queue))
    /\ queue' = Tail(queue)

Poll(d) ==
    /\ running[d] /\ inHand[d] = 0
    /\ TakeOldest(d)
    /\ inHand' = [inHand EXCEPT ![d] = Head(queue)]
    /\ UNCHANGED <<offerVars, sessionVars, running, codecVars>>

\* The frame in hand is done with, one way or another.
LetGo(d) ==
    /\ running[d] /\ inHand[d] # 0
    /\ inHand' = [inHand EXCEPT ![d] = 0]
    /\ UNCHANGED <<offerVars, sessionVars, queue, delivered, running>>

\* dequeueInputBuffer found a buffer, and the frame goes to the codec.
Feed(d) ==
    /\ inputs[d] > 0
    /\ inputs' = [inputs EXCEPT ![d] = @ - 1]
    /\ fed' = [fed EXCEPT ![d] = inHand[d]]
    /\ LetGo(d)
    /\ UNCHANGED <<held, excused>>

\* The frame is forgotten, and the loop goes on with its successors.
Lost(d) == LetGo(d) /\ excused' = [excused EXCEPT ![d] = TRUE] /\ UNCHANGED fed

\* No input buffer within 2 ms: the frame is counted as dropped.
FeedTimeout(d) ==
    /\ inputs[d] = 0
    /\ Lost(d)
    /\ UNCHANGED <<inputs, held>>

\* The codec throws while the decoder runs, and the exception is swallowed, or
\* getInputBuffer returns null.  A buffer that was dequeued before is never queued.
FeedFails(d) ==
    /\ Lost(d)
    /\ \/ UNCHANGED <<inputs, held>>
       \/ /\ inputs[d] > 0
          /\ inputs' = [inputs EXCEPT ![d] = @ - 1]
          /\ held' = [held EXCEPT ![d] = @ + 1]

\* Mutant: an output is released although none was dequeued.
DrainUnchecked(d) ==
    /\ running[d]
    /\ inputs' = [inputs EXCEPT ![d] = @ + 1]
    /\ UNCHANGED <<offerVars, sessionVars, queue, delivered, running, inHand, held, fed,
                   excused>>

\* The draining loop releases an output, and the codec an input buffer.
Drain(d) ==
    /\ running[d] /\ inputs[d] + held[d] < CodecInputs
    /\ inputs' = [inputs EXCEPT ![d] = @ + 1]
    /\ UNCHANGED <<offerVars, sessionVars, queue, delivered, running, inHand, held, fed,
                   excused>>

-----------------------------------------------------------------------------
(* Sessions *)

\* A new decoder, on the buffer as it is.  runs: some codec could be started.
NewDecoder(runs, late) ==
    /\ starts < MaxStarts
    /\ starts' = starts + 1
    /\ running' = [running EXCEPT ![starts + 1] = runs]
    /\ excused' = [excused EXCEPT ![starts + 1] = late \/ queue # <<>>]
    /\ UNCHANGED <<keys, queue, dropping, offerPc, delivered, inHand, codecVars>>

\* A session got its HELLO_ACK and starts a decoder on the fragment's buffer.  An
\* offer of the session before takes microseconds, the handshake far longer, so
\* that offer is over.
StartDecoder ==
    /\ ~active /\ offerPc = "idle"
    /\ \E runs \in BOOLEAN : NewDecoder(runs, FALSE)
    /\ active' = TRUE
    /\ newSession' = TRUE /\ reading' = TRUE

\* The same coroutine of a session that was stopped meanwhile: nothing in
\* it looks at the cancellation before its decoder runs.
StartStray ==
    /\ NewDecoder(TRUE, TRUE)
    /\ UNCHANGED <<active, newSession, reading>>

\* H264Decoder.stop releases the codec; the frame in the worker's hand is lost, or
\* one that its poll still takes.
StopDecoder(d) ==
    /\ running[d]
    /\ running' = [running EXCEPT ![d] = FALSE]
    /\ inHand' = [inHand EXCEPT ![d] = 0]
    /\ inputs' = [inputs EXCEPT ![d] = CodecInputs]
    /\ held' = [held EXCEPT ![d] = 0]
    /\ fed' = [fed EXCEPT ![d] = 0]
    /\ \/ UNCHANGED <<queue, delivered, excused>>
       \/ inHand[d] = 0 /\ TakeOldest(d)

\* stopDisplaySession: the decoder stopped is the one in the fragment's field, which
\* a session that came late may have written over, and which then need not even
\* run.  The buffer keeps its frames and its flag, and an offer under way runs
\* on: it has no point of cancellation.  Destroying the view is one more such call.
StopSession ==
    /\ active' = FALSE
    /\ \/ \E d \in Decoders : StopDecoder(d)
       \/ active /\ UNCHANGED <<queue, delivered, decoderVars>>
    /\ UNCHANGED <<offerVars, starts>>

\* Every session is over, and every decoder.
Done ==
    /\ offerPc = "idle" /\ ~active
    /\ \A d \in Decoders : ~running[d]
    /\ starts = MaxStarts /\ (reading => Arrived = MaxFrames)
    /\ UNCHANGED vars

OfferStep == OfferRoom \/ OfferClear \/ OfferEnqueue

Feeding(d) == Feed(d) \/ FeedTimeout(d) \/ FeedFails(d)

Next ==
    \/ Offer \/ OfferStep
    \/ \E d \in Decoders : Poll(d) \/ Feeding(d) \/ Drain(d)
    \/ StartDecoder \/ StartStray \/ StopSession
    \/ Done

Spec == Init /\ [][Next]_vars

(* Fairness: the thread inside offer goes on, and every feeding loop polls   *)
(* and hands over as long as its decoder runs.  Nothing is assumed of the    *)
(* codecs, of arrivals, or of sessions.                                      *)
FairSpec ==
    /\ Spec
    /\ WF_vars(OfferStep)
    /\ \A d \in Decoders : WF_vars(Poll(d)) /\ WF_vars(Feeding(d))

-----------------------------------------------------------------------------
(* Properties *)

TypeOK ==
    /\ keys \in Seq(BOOLEAN)
    /\ queue \in Seq(1..Arrived)
    /\ Len(queue) <= Capacity
    /\ dropping \in BOOLEAN
    /\ offerPc \in {"idle", "room", "clear", "enqueue"}
    /\ newSession \in BOOLEAN /\ reading \in BOOLEAN
    /\ active \in BOOLEAN
    /\ starts \in 0..MaxStarts
    /\ running \in [Decoders -> BOOLEAN]
    /\ inHand \in [Decoders -> 0..Arrived]
    /\ inputs \in [Decoders -> 0..CodecInputs]
    /\ held \in [Decoders -> 0..CodecInputs]
    /\ \A d \in Decoders : inputs[d] + held[d] <= CodecInputs
    /\ delivered \in 0..Arrived
    /\ fed \in [Decoders -> 0..Arrived]
    /\ excused \in [Decoders -> BOOLEAN]

\* Frame n may follow frame m at the decoder.
Follows(m, n) == m < n /\ (keys[n] \/ n = m + 1)

\* The queue continues what the decoders have taken, frame by frame, each a
\* keyframe or the successor of the one before it, however offer and poll
\* interleave (a full queue cleared by a keyframe while a decoder drains it
\* included).
QueueIsGapFree ==
    \A i \in 1..Len(queue) :
        Follows(IF i = 1 THEN delivered ELSE queue[i - 1], queue[i])

\* The ring hands over a GopDelivery of what was offered to it.
AbstractDelivery == INSTANCE GopDelivery WITH keys <- keys, delivered <- delivered
DeliversGops == AbstractDelivery!Spec

\* A codec is given a P-frame without the frame before it only after one of the
\* following: its decoder had no input buffer in time, or the codec failed on a
\* frame; another decoder took a frame from the buffer; its decoder was started on
\* a buffer in use, or late.  With one decoder and a codec that keeps up none of
\* them happens: offer and its race with poll never are the cause.  (So the comments
\* in offer, which drop P-frames "to prevent reference-frame tearing", hold for the
\* ring; the feeding loop loses a frame and goes on with its successors.)
TornOnlyIfExcused ==
    [][\A d \in Decoders :
          fed'[d] \notin {fed[d], 0} => Follows(fed[d], fed'[d]) \/ excused[d]]_vars

\* Every keyframe gets through the ring, past the drop state and the clearing of a
\* full queue: a decoder takes it, or a later frame, unless none is running.
KeyframeGetsThrough ==
    \A n \in 1..MaxFrames :
        (n <= Arrived /\ keys[n])
            ~> (delivered >= n \/ \A d \in Decoders : ~running[d])

=============================================================================
