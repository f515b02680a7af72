---------------------------- MODULE FrameRingProofs ----------------------------
(***************************************************************************)
(* Theorems about the client's frame path, for any capacity of the ring,   *)
(* any number of decoders and codec buffers, and any stream of frames.     *)
(*                                                                         *)
(* QueueIsGapFree is not inductive: a frame enters the queue three steps   *)
(* after it was numbered, and decoders poll in between.     The invariant *)
(* relates the frame that offer has in hand to the end of the queue        *)
(* (OfferInv) and every codec to the front of it (CodecInv).               *)
(***************************************************************************)
EXTENDS FrameRing, SequenceTheorems, TLAPS

\* The newest frame that is queued, or that left the queue.
Newest == IF queue = <<>> THEN delivered ELSE queue[Len(queue)]

\* The frames in the queue are increasing and newer than what was polled.
QueueIncreases ==
    /\ \A i \in 1..Len(queue) : delivered < queue[i]
    /\ \A i, j \in 1..Len(queue) : i < j => queue[i] < queue[j]

\* Between offers the newest frame is in, unless the ring is dropping; inside
\* offer the frame in hand can follow the newest one.
OfferInv ==
    /\ offerPc = "idle" => dropping \/ Newest = Arrived
    /\ offerPc # "idle" =>
          /\ ~dropping
          /\ Arrived > 0
          /\ delivered < Arrived
          /\ \A i \in 1..Len(queue) : queue[i] < Arrived
          /\ keys[Arrived] \/ Newest = Arrived - 1
    /\ offerPc = "clear" => keys[Arrived]
    /\ offerPc = "enqueue" => Len(queue) < Capacity

\* What codec d gets next can follow what it got last, unless it is excused.
Chained(d) ==
    /\ inHand[d] # 0 => inHand[d] = delivered /\ Follows(fed[d], inHand[d])
    /\ inHand[d] = 0 /\ queue # <<>> => Follows(fed[d], queue[1])
    /\ inHand[d] = 0 /\ queue = <<>> /\ offerPc # "idle" => Follows(fed[d], Arrived)
    /\ inHand[d] = 0 /\ queue = <<>> /\ offerPc = "idle" =>
          newSession \/ dropping \/ fed[d] = Arrived

CodecInv ==
    \A d \in Decoders :
       /\ d > starts => ~running[d]
       /\ fed[d] <= delivered
       /\ inHand[d] # 0 => running[d] /\ fed[d] < inHand[d] /\ inHand[d] <= delivered
       /\ running[d] /\ ~excused[d] => Chained(d)

IInv == TypeOK /\ QueueIncreases /\ QueueIsGapFree /\ OfferInv /\ CodecInv

(* What the queue's elements are once its type is known. *)
LEMMA QueueElements ==
  ASSUME TypeOK
  PROVE  /\ Arrived \in Nat
         /\ Len(queue) \in Nat
         /\ \A i \in 1..Len(queue) : queue[i] \in 1..Arrived
         /\ queue # <<>> <=> Len(queue) > 0
         /\ delivered \in Nat /\ delivered <= Arrived
         /\ \A d \in Decoders : fed[d] \in 0..Arrived /\ inHand[d] \in 0..Arrived
<1>1. keys \in Seq(BOOLEAN) /\ queue \in Seq(1..Arrived)
  BY DEF TypeOK
<1>2. Arrived \in Nat /\ Len(queue) \in Nat
  BY <1>1, LenProperties DEF Arrived
<1>3. \A i \in 1..Len(queue) : queue[i] \in 1..Arrived
  BY <1>1, ElementOfSeq
<1>4. queue # <<>> <=> Len(queue) > 0
  BY <1>1, <1>2, EmptySeq
<1> QED
  BY <1>2, <1>3, <1>4 DEF TypeOK

LEMMA InitIInv == Init => IInv
<1> SUFFICES ASSUME Init
             PROVE  IInv
  OBVIOUS
<1>1. Len(keys) = 0 /\ Len(queue) = 0 /\ keys \in Seq(BOOLEAN) /\ queue \in Seq(1..Len(keys))
  BY DEF Init
<1>2. TypeOK
  <2>1. /\ inputs \in [Decoders -> 0..CodecInputs] /\ held \in [Decoders -> 0..CodecInputs]
        /\ \A d \in Decoders : inputs[d] + held[d] <= CodecInputs
    BY BoundsAssumption DEF Init
  <2>2. Len(queue) <= Capacity
    BY <1>1, CapacityAssumption
  <2>3. /\ delivered \in 0..Arrived /\ starts \in 0..MaxStarts
        /\ inHand \in [Decoders -> 0..Arrived] /\ fed \in [Decoders -> 0..Arrived]
    BY <1>1, BoundsAssumption DEF Init, Arrived
  <2>4. queue \in Seq(1..Arrived)
    BY <1>1 DEF Arrived
  <2> QED
    BY <1>1, <2>1, <2>2, <2>3, <2>4 DEF Init, TypeOK
<1>3. QueueIncreases /\ QueueIsGapFree
  BY <1>1 DEF QueueIncreases, QueueIsGapFree
<1>4. OfferInv /\ CodecInv
  BY <1>1 DEF Init, OfferInv, CodecInv, Newest, Arrived
<1> QED
  BY <1>2, <1>3, <1>4 DEF IInv

(* A frame arrives: nothing that was queued or polled is touched. *)
LEMMA OfferStepInv == IInv /\ Offer => IInv'
<1> SUFFICES ASSUME IInv, Offer
             PROVE  IInv'
  OBVIOUS
<1>1. PICK key \in BOOLEAN :
        /\ newSession => key
        /\ keys' = Append(keys, key)
        /\ dropping' = (dropping /\ ~key)
  BY DEF Offer
<1>2. /\ offerPc = "idle"
      /\ offerPc' = IF dropping' THEN "idle" ELSE "room"
      /\ newSession' = FALSE /\ reading' = active
      /\ UNCHANGED <<queue, delivered, active, starts, running, inHand, inputs, held, fed, excused>>
  BY DEF Offer, sessionVars, decoderVars, codecVars
<1>3. TypeOK /\ keys \in Seq(BOOLEAN)
  BY DEF IInv, TypeOK
<1>4. /\ keys' \in Seq(BOOLEAN)
      /\ Arrived' = Arrived + 1
      /\ \A i \in 1..Arrived : keys'[i] = keys[i]
      /\ keys'[Arrived'] = key
  BY <1>1, <1>3, AppendProperties DEF Arrived
<1>q. /\ Arrived \in Nat /\ Len(queue) \in Nat
      /\ \A i \in 1..Len(queue) : queue[i] \in 1..Arrived
      /\ queue # <<>> <=> Len(queue) > 0
      /\ delivered \in Nat /\ delivered <= Arrived
      /\ \A d \in Decoders : fed[d] \in 0..Arrived /\ inHand[d] \in 0..Arrived
  BY <1>3, QueueElements
<1>d. /\ offerPc' \in {"idle", "room"}
      /\ offerPc' = "idle" => dropping'
      /\ offerPc' = "room" => ~dropping' /\ (key \/ ~dropping)
  BY <1>1, <1>2
<1>5. TypeOK'
  <2>1. queue' \in Seq(1..Arrived')
    <3>1. queue \in Seq(1..Arrived) /\ 1..Arrived \subseteq 1..Arrived'
      BY <1>3, <1>4, <1>q DEF TypeOK
    <3> QED
      BY <3>1, <1>2, SeqMonotonic
  <2>2. /\ inHand' \in [Decoders -> 0..Arrived'] /\ delivered' \in 0..Arrived'
        /\ fed' \in [Decoders -> 0..Arrived']
    <3>1. 0..Arrived \subseteq 0..Arrived'
      BY <1>4, <1>q
    <3> QED
      BY <3>1, <1>2, <1>3 DEF TypeOK
  <2>3. dropping' \in BOOLEAN
    BY <1>1
  <2> QED
    BY <1>2, <1>3, <1>4, <1>d, <2>1, <2>2, <2>3 DEF TypeOK
<1>6. \A m, n \in Nat : n \in 1..Arrived => (Follows(m, n)' <=> Follows(m, n))
  BY <1>4 DEF Follows
<1>7. QueueIncreases' /\ QueueIsGapFree'
  <2>1. QueueIncreases'
    BY <1>2 DEF IInv, QueueIncreases
  <2>2. QueueIsGapFree'
    BY <1>2, <1>6, <1>q, <1>4 DEF IInv, QueueIsGapFree, Follows
  <2> QED
    BY <2>1, <2>2
<1>8. OfferInv'
  <2>1. Newest' = Newest
    BY <1>2 DEF Newest
  <2>2. delivered <= Arrived
    BY <1>3, <1>q DEF TypeOK
  <2>3. \A i \in 1..Len(queue') : queue'[i] < Arrived'
    BY <1>2, <1>4, <1>q
  <2>4. Arrived' > 0 /\ delivered' < Arrived'
    BY <2>2, <1>2, <1>4, <1>q
  <2>5. ~dropping => Newest = Arrived
    BY <1>2 DEF IInv, OfferInv
  <2>6. offerPc' = "room" => keys'[Arrived'] \/ Newest' = Arrived' - 1
    BY <2>1, <2>5, <1>d, <1>4, <1>q
  <2> QED
    BY <1>d, <2>3, <2>4, <2>6 DEF OfferInv
<1>9. CodecInv'
  <2> SUFFICES ASSUME NEW d \in Decoders, running[d], ~excused[d]
               PROVE  Chained(d)'
    BY <1>2 DEF IInv, CodecInv
  <2>1. fed[d] <= delivered /\ Chained(d)
    BY DEF IInv, CodecInv
  <2>3. inHand[d] # 0 => inHand[d] = delivered /\ Follows(fed[d], inHand[d])'
    BY <2>1, <1>2, <1>4, <1>q DEF Chained, Follows
  <2>4. inHand[d] = 0 /\ queue # <<>> => Follows(fed[d], queue[1])'
    BY <2>1, <1>2, <1>4, <1>q DEF Chained, Follows
  <2>5. inHand[d] = 0 /\ queue = <<>> => newSession \/ dropping \/ fed[d] = Arrived
    BY <2>1, <1>2 DEF Chained
  <2>6. inHand[d] = 0 /\ queue = <<>> /\ offerPc' # "idle" => Follows(fed[d], Arrived)'
    <3>1. fed[d] < Arrived'
      BY <2>1, <1>4, <1>q
    <3>2. inHand[d] = 0 /\ queue = <<>> /\ offerPc' # "idle" => key \/ Arrived' = fed[d] + 1
      BY <2>5, <1>1, <1>d, <1>4, <1>q
    <3> QED
      BY <3>1, <3>2, <1>2, <1>4 DEF Follows
  <2> QED
    BY <2>3, <2>4, <2>6, <1>2, <1>d DEF Chained
<1> QED
  BY <1>5, <1>7, <1>8, <1>9 DEF IInv

(* The steps inside offer. *)
LEMMA OfferRoomInv == IInv /\ OfferRoom => IInv'
<1> SUFFICES ASSUME IInv, OfferRoom
             PROVE  IInv'
  OBVIOUS
<1>1. UNCHANGED <<keys, newSession, reading, queue, delivered, active, starts, running,
                  inHand, inputs, held, fed, excused>>
  BY DEF OfferRoom, sessionVars, decoderVars, codecVars
<1>q. /\ Arrived \in Nat /\ Len(queue) \in Nat
      /\ \A i \in 1..Len(queue) : queue[i] \in 1..Arrived
      /\ queue # <<>> <=> Len(queue) > 0
  BY QueueElements DEF IInv
<1>2. offerPc = "room" /\ ~dropping
  BY DEF OfferRoom, IInv, OfferInv
<1>3. TypeOK'
  BY <1>1 DEF OfferRoom, IInv, TypeOK, Arrived
<1>4. QueueIncreases' /\ QueueIsGapFree'
  BY <1>1 DEF IInv, QueueIncreases, QueueIsGapFree, Follows
<1>5. OfferInv'
  BY <1>1, <1>2, <1>q DEF OfferRoom, IInv, OfferInv, Newest, Arrived
<1>6. offerPc' = "idle" => queue # <<>>
  BY <1>q, <1>2, CapacityAssumption DEF OfferRoom
<1>7. CodecInv'
  BY <1>1, <1>2, <1>6 DEF OfferRoom, IInv, CodecInv, Chained, Follows, Arrived
<1> QED
  BY <1>3, <1>4, <1>5, <1>7 DEF IInv

LEMMA OfferClearInv == IInv /\ OfferClear => IInv'
<1> SUFFICES ASSUME IInv, OfferClear
             PROVE  IInv'
  OBVIOUS
<1>1. /\ offerPc = "clear" /\ offerPc' = "enqueue" /\ queue' = <<>> /\ Len(queue') = 0
      /\ UNCHANGED <<keys, dropping, newSession, reading, delivered, active, starts,
                     running, inHand, inputs, held, fed, excused>>
  BY DEF OfferClear, sessionVars, decoderVars, codecVars
<1>q. Arrived \in Nat /\ delivered \in Nat /\ \A d \in Decoders : fed[d] \in 0..Arrived
  BY QueueElements DEF IInv
<1>2. TypeOK'
  BY <1>1, CapacityAssumption DEF IInv, TypeOK, Arrived
<1>3. QueueIncreases' /\ QueueIsGapFree'
  BY <1>1 DEF QueueIncreases, QueueIsGapFree
<1>4. OfferInv'
  BY <1>1, CapacityAssumption DEF IInv, OfferInv, Newest, Arrived
<1>5. keys[Arrived] /\ \A d \in Decoders : fed[d] < Arrived
  BY <1>1, <1>q DEF IInv, OfferInv, CodecInv
<1>6. CodecInv'
  BY <1>1, <1>5 DEF IInv, CodecInv, Chained, Follows, Arrived
<1> QED
  BY <1>2, <1>3, <1>4, <1>6 DEF IInv

LEMMA OfferEnqueueInv == IInv /\ OfferEnqueue => IInv'
<1> SUFFICES ASSUME IInv, OfferEnqueue
             PROVE  IInv'
  OBVIOUS
<1>1. /\ offerPc = "enqueue" /\ offerPc' = "idle"
      /\ UNCHANGED <<keys, dropping, newSession, reading, delivered, active, starts,
                     running, inHand, inputs, held, fed, excused>>
  BY DEF OfferEnqueue, sessionVars, decoderVars, codecVars
<1>2. queue' = Append(queue, Arrived) /\ Len(queue) < Capacity
  BY <1>1 DEF OfferEnqueue, IInv, OfferInv
<1>q. /\ Arrived \in Nat /\ Len(queue) \in Nat
      /\ \A i \in 1..Len(queue) : queue[i] \in 1..Arrived
      /\ queue # <<>> <=> Len(queue) > 0
      /\ delivered \in Nat
  BY QueueElements DEF IInv
<1>3. /\ Arrived > 0 /\ delivered < Arrived /\ ~dropping
      /\ \A i \in 1..Len(queue) : queue[i] < Arrived
      /\ keys[Arrived] \/ Newest = Arrived - 1
  BY <1>1 DEF IInv, OfferInv
<1>4. /\ queue' \in Seq(1..Arrived)
      /\ Len(queue') = Len(queue) + 1
      /\ \A i \in 1..Len(queue) : queue'[i] = queue[i]
      /\ queue'[Len(queue) + 1] = Arrived
  <2>1. queue \in Seq(1..Arrived) /\ Arrived \in 1..Arrived
    BY <1>3, <1>q DEF IInv, TypeOK
  <2> QED
    BY <2>1, <1>2, AppendProperties
<1>5. TypeOK'
  BY <1>1, <1>2, <1>4, <1>q, CapacityAssumption DEF IInv, TypeOK, Arrived
<1>6. QueueIncreases'
  <2>1. \A i \in 1..Len(queue) : delivered < queue[i]
    BY DEF IInv, QueueIncreases
  <2>2. \A i, j \in 1..Len(queue) : i < j => queue[i] < queue[j]
    BY DEF IInv, QueueIncreases
  <2>3. \A i \in 1..Len(queue') : i \in 1..Len(queue) \/ i = Len(queue) + 1
    BY <1>4, <1>q
  <2>4. \A i \in 1..Len(queue') : delivered' < queue'[i]
    BY <2>1, <2>3, <1>1, <1>3, <1>4
  <2>5. \A i, j \in 1..Len(queue') : i < j => queue'[i] < queue'[j]
    <3> SUFFICES ASSUME NEW i \in 1..Len(queue'), NEW j \in 1..Len(queue'), i < j
                 PROVE  queue'[i] < queue'[j]
      OBVIOUS
    <3>1. i \in 1..Len(queue) /\ queue'[i] = queue[i]
      BY <1>4, <1>q
    <3>2. CASE j \in 1..Len(queue)
      BY <3>1, <3>2, <2>2, <1>4
    <3>3. CASE j = Len(queue) + 1
      BY <3>1, <3>3, <1>3, <1>4
    <3> QED
      BY <3>2, <3>3, <2>3
  <2> QED
    BY <2>4, <2>5 DEF QueueIncreases
<1>7. QueueIsGapFree'
  <2> SUFFICES ASSUME NEW i \in 1..(Len(queue) + 1)
               PROVE  Follows(IF i = 1 THEN delivered ELSE queue'[i - 1], queue'[i])
    BY <1>1, <1>4 DEF QueueIsGapFree, Follows
  <2>1. CASE i \in 1..Len(queue)
    <3>1. Follows(IF i = 1 THEN delivered ELSE queue[i - 1], queue[i])
      BY <2>1 DEF IInv, QueueIsGapFree
    <3>2. queue'[i] = queue[i] /\ (i # 1 => queue'[i - 1] = queue[i - 1])
      BY <2>1, <1>4, <1>q
    <3> QED
      BY <3>1, <3>2
  <2>2. CASE i = Len(queue) + 1
    <3>1. (IF i = 1 THEN delivered ELSE queue'[i - 1]) = Newest
      <4>1. CASE i = 1
        BY <4>1, <2>2, <1>q DEF Newest
      <4>2. CASE i # 1
        <5>1. i - 1 = Len(queue) /\ Len(queue) \in 1..Len(queue) /\ queue # <<>>
          BY <4>2, <2>2, <1>q
        <5> QED
          BY <4>2, <5>1, <1>4 DEF Newest
      <4> QED
        BY <4>1, <4>2
    <3>2. Newest \in Nat /\ Newest < Arrived
      BY <1>3, <1>q DEF Newest
    <3>3. Follows(Newest, Arrived)
      BY <3>2, <1>3, <1>q DEF Follows
    <3> QED
      BY <2>2, <3>1, <3>3, <1>4
  <2> QED
    BY <2>1, <2>2, <1>q
<1>8. OfferInv'
  <2>1. Newest' = Arrived
    BY <1>4, <1>q DEF Newest
  <2> QED
    BY <1>1, <2>1 DEF OfferInv, Arrived
<1>9. CodecInv'
  <2>1. queue' # <<>>
    BY <1>4, <1>q
  <2>2. queue # <<>> => queue'[1] = queue[1]
    BY <1>4, <1>q
  <2>3. queue = <<>> => queue'[1] = Arrived
    BY <1>4, <1>q
  <2> QED
    BY <1>1, <2>1, <2>2, <2>3 DEF IInv, CodecInv, Chained, Follows, Arrived
<1> QED
  BY <1>5, <1>6, <1>7, <1>8, <1>9 DEF IInv

(* What the ring is after its oldest frame was taken. *)
LEMMA TakeOldestRing ==
  ASSUME IInv, NEW d \in Decoders, TakeOldest(d), UNCHANGED <<keys, dropping, offerPc>>
  PROVE  /\ queue' \in Seq(1..Arrived) /\ Len(queue') <= Capacity
         /\ delivered' = queue[1] /\ Head(queue) = queue[1]
         /\ delivered' \in 1..Arrived
         /\ queue' # <<>> => Follows(delivered', queue'[1])
         /\ queue' = <<>> /\ offerPc # "idle" => Follows(delivered', Arrived)
         /\ queue' = <<>> /\ offerPc = "idle" => dropping \/ delivered' = Arrived
         /\ delivered < delivered' /\ Follows(delivered, queue[1])
         /\ QueueIncreases' /\ QueueIsGapFree' /\ OfferInv'
<1>1. /\ queue # <<>>
      /\ delivered' = Head(queue) /\ queue' = Tail(queue)
      /\ UNCHANGED <<keys, dropping, offerPc>>
  BY DEF TakeOldest, Takes
<1>q. /\ Arrived \in Nat /\ Len(queue) \in Nat /\ Len(queue) > 0
      /\ \A i \in 1..Len(queue) : queue[i] \in 1..Arrived
      /\ delivered \in Nat
  BY <1>1, QueueElements DEF IInv
<1>2. /\ Head(queue) = queue[1]
      /\ queue' \in Seq(1..Arrived)
      /\ Len(queue') = Len(queue) - 1
      /\ \A i \in 1..(Len(queue) - 1) : queue'[i] = queue[i + 1]
  <2>1. queue \in Seq(1..Arrived)
    BY DEF IInv, TypeOK
  <2>2. Head(queue) = queue[1]
    BY <2>1, <1>1
  <2>3. /\ Tail(queue) \in Seq(1..Arrived) /\ Len(Tail(queue)) = Len(queue) - 1
        /\ \A i \in 1..Len(Tail(queue)) : Tail(queue)[i] = queue[i + 1]
    BY <2>1, <1>1, HeadTailProperties
  <2> QED
    BY <2>2, <2>3, <1>1
<1>3. queue' = <<>> <=> Len(queue) = 1
  BY <1>2, <1>q, EmptySeq
<1>4. Len(queue') <= Capacity
  BY <1>2, <1>q, CapacityAssumption DEF IInv, TypeOK
<1>5. QueueIncreases'
  BY <1>1, <1>2, <1>q DEF IInv, QueueIncreases
<1>6. QueueIsGapFree'
  <2> SUFFICES ASSUME NEW i \in 1..(Len(queue) - 1)
               PROVE  Follows(IF i = 1 THEN queue[1] ELSE queue'[i - 1], queue'[i])
    BY <1>1, <1>2 DEF QueueIsGapFree, Follows
  <2>1. i + 1 \in 1..Len(queue) /\ i + 1 # 1 /\ (i + 1) - 1 = i
    BY <1>q
  <2>2. Follows(queue[i], queue[i + 1])
    BY <2>1 DEF IInv, QueueIsGapFree
  <2>3. (IF i = 1 THEN queue[1] ELSE queue'[i - 1]) = queue[i] /\ queue'[i] = queue[i + 1]
    <3>1. queue'[i] = queue[i + 1]
      BY <1>2
    <3>2. i # 1 => i - 1 \in 1..(Len(queue) - 1) /\ (i - 1) + 1 = i
      BY <1>q
    <3>3. i # 1 => queue'[i - 1] = queue[i]
      BY <3>2, <1>2
    <3> QED
      BY <3>1, <3>3
  <2> QED
    BY <2>2, <2>3
<1>7. OfferInv'
  <2>1. Newest' = Newest
    BY <1>1, <1>2, <1>3, <1>q DEF Newest
  <2>2. \A i \in 1..Len(queue') : queue'[i] = queue[i + 1] /\ i + 1 \in 1..Len(queue)
    BY <1>2, <1>q
  <2>3. offerPc # "idle" => delivered' < Arrived
    BY <1>1, <1>2, <1>q DEF IInv, OfferInv
  <2>4. offerPc # "idle" => \A i \in 1..Len(queue') : queue'[i] < Arrived
    BY <2>2 DEF IInv, OfferInv
  <2>5. offerPc = "enqueue" => Len(queue') < Capacity
    BY <1>2, <1>q, CapacityAssumption DEF IInv, OfferInv
  <2> QED
    BY <1>1, <2>1, <2>3, <2>4, <2>5 DEF IInv, OfferInv, Arrived
<1>8. Follows(delivered, queue[1]) /\ delivered < delivered'
  BY <1>1, <1>2, <1>q DEF IInv, QueueIsGapFree, Follows
<1>9. queue' # <<>> => Follows(delivered', queue'[1])
  <2> SUFFICES ASSUME queue' # <<>>
               PROVE  Follows(delivered', queue'[1])
    OBVIOUS
  <2>0. Len(queue) # 1 /\ Len(queue) \in Nat /\ Len(queue) > 0
    BY <1>3, <1>q
  <2>1. 1 \in 1..(Len(queue) - 1) /\ 2 \in 1..Len(queue)
    <3>1. \A n \in Nat : n # 1 /\ n > 0 => 1 \in 1..(n - 1) /\ 2 \in 1..n
      OBVIOUS
    <3> QED
      BY <3>1, <2>0
  <2>2. 2 \in 1..Len(queue) /\ 2 # 1 /\ 2 - 1 = 1
    BY <2>1, <1>q
  <2>3. Follows(queue[1], queue[2])
    BY <2>2 DEF IInv, QueueIsGapFree
  <2>4. queue'[1] = queue[2] /\ delivered' = queue[1]
    BY <2>1, <1>1, <1>2
  <2> QED
    BY <2>3, <2>4
<1>10. queue' = <<>> => Newest = queue[1]
  BY <1>1, <1>3 DEF Newest
<1>11. queue' = <<>> /\ offerPc # "idle" => Follows(delivered', Arrived)
  <2>1. offerPc # "idle" => delivered' < Arrived /\ (keys[Arrived] \/ Newest = Arrived - 1)
    BY <1>1, <1>2, <1>q DEF IInv, OfferInv
  <2> QED
    BY <2>1, <1>10, <1>1, <1>2, <1>q DEF Follows
<1>12. queue' = <<>> /\ offerPc = "idle" => dropping \/ delivered' = Arrived
  BY <1>10, <1>1, <1>2 DEF IInv, OfferInv
<1> QED
  BY <1>1, <1>2, <1>q, <1>4, <1>5, <1>6, <1>7, <1>8, <1>9, <1>11, <1>12

(* A frame was taken by d: what codecs other than d have to do with is as before, *)
(* and they are excused.                                                          *)
LEMMA TakeOldestOthers ==
  ASSUME IInv, NEW d \in Decoders, TakeOldest(d), UNCHANGED <<keys, dropping, offerPc>>,
         NEW e \in Decoders, e # d
  PROVE  excused'[e] /\ fed[e] <= delivered' /\ (inHand[e] # 0 => inHand[e] <= delivered')
<1>1. delivered < delivered' /\ delivered' \in 1..Arrived
  BY TakeOldestRing
<1>2. fed[e] <= delivered /\ (inHand[e] # 0 => inHand[e] <= delivered)
  BY DEF IInv, CodecInv
<1>3. delivered \in Nat /\ Arrived \in Nat /\ fed[e] \in 0..Arrived /\ inHand[e] \in 0..Arrived
  BY QueueElements DEF IInv
<1>4. excused'[e]
  BY DEF TakeOldest, Takes
<1> QED
  BY <1>1, <1>2, <1>3, <1>4

(* A decoder takes the oldest frame. *)
LEMMA PollInv == ASSUME IInv, NEW d \in Decoders, Poll(d) PROVE IInv'
<1>1. /\ running[d] /\ inHand[d] = 0 /\ TakeOldest(d)
      /\ inHand' = [inHand EXCEPT ![d] = Head(queue)]
      /\ UNCHANGED <<keys, dropping, offerPc, newSession, reading, active, starts, running,
                     inputs, held, fed>>
  BY DEF Poll, offerVars, sessionVars, codecVars
<1>2. /\ queue' \in Seq(1..Arrived) /\ Len(queue') <= Capacity
      /\ delivered' = queue[1] /\ Head(queue) = queue[1]
      /\ delivered' \in 1..Arrived
      /\ delivered < delivered'
      /\ QueueIncreases' /\ QueueIsGapFree' /\ OfferInv'
  BY <1>1, TakeOldestRing
<1>q. /\ Arrived \in Nat /\ delivered \in Nat
      /\ \A e \in Decoders : fed[e] \in 0..Arrived /\ inHand[e] \in 0..Arrived
  BY QueueElements DEF IInv
<1>t. inHand \in [Decoders -> 0..Arrived] /\ excused \in [Decoders -> BOOLEAN]
  BY DEF IInv, TypeOK
<1>x. /\ excused' = [e \in Decoders |-> e = d => excused[d] /\ ~keys[Head(queue)]]
      /\ queue # <<>>
  BY <1>1 DEF TakeOldest, Takes
<1>3. TypeOK'
  <2>1. inHand' \in [Decoders -> 0..Arrived]
    BY <1>1, <1>2, <1>t
  <2>2. excused' \in [Decoders -> BOOLEAN]
    BY <1>x
  <2> QED
    BY <1>1, <1>2, <2>1, <2>2, <1>q DEF IInv, TypeOK, Arrived
<1>4. inHand'[d] = delivered' /\ delivered' # 0
  BY <1>1, <1>2, <1>q, <1>t
<1>5. fed[d] < delivered'
  BY <1>2, <1>q DEF IInv, CodecInv
<1>6. ~excused'[d] => Follows(fed[d], queue[1])
  <2>1. CASE excused[d]
    <3>1. ~excused'[d] => keys[queue[1]]
      BY <2>1, <1>2, <1>x
    <3> QED
      BY <3>1, <1>5, <1>2 DEF Follows
  <2>2. CASE ~excused[d]
    BY <2>2, <1>1, <1>x DEF IInv, CodecInv, Chained
  <2> QED
    BY <2>1, <2>2
<1>7. CodecInv'
  <2> SUFFICES ASSUME NEW e \in Decoders
               PROVE  (/\ e > starts => ~running[e]
                       /\ fed[e] <= delivered
                       /\ inHand[e] # 0 =>
                             running[e] /\ fed[e] < inHand[e] /\ inHand[e] <= delivered
                       /\ running[e] /\ ~excused[e] => Chained(e))'
    BY DEF CodecInv, Decoders
  <2>1. CASE e # d
    <3>1. excused'[e] /\ fed[e] <= delivered' /\ (inHand[e] # 0 => inHand[e] <= delivered')
      BY <2>1, <1>1, TakeOldestOthers
    <3>2. inHand'[e] = inHand[e]
      BY <2>1, <1>1, <1>t
    <3> QED
      BY <3>1, <3>2, <1>1 DEF IInv, CodecInv
  <2>2. CASE e = d
    <3>1. running[d] /\ (d > starts => ~running[d])
      BY <1>1 DEF IInv, CodecInv
    <3>2. ~excused'[d] => Chained(d)'
      BY <1>1, <1>2, <1>4, <1>6 DEF Chained, Follows
    <3> QED
      BY <2>2, <3>1, <3>2, <1>1, <1>2, <1>4, <1>5, <1>q
  <2> QED
    BY <2>1, <2>2
<1> QED
  BY <1>2, <1>3, <1>7 DEF IInv

(* What a step that leaves the ring alone keeps. *)
LEMMA RingKept ==
  ASSUME IInv, UNCHANGED <<keys, dropping, offerPc, queue, delivered>>
  PROVE  QueueIncreases' /\ QueueIsGapFree' /\ OfferInv'
BY DEF IInv, QueueIncreases, QueueIsGapFree, OfferInv, Newest, Follows, Arrived

(* Codec d gets the frame in hand: what follows it in the ring follows it at the *)
(* codec as well.                                                                *)
LEMMA FeedInv == ASSUME IInv, NEW d \in Decoders, Feed(d) PROVE IInv'
<1>1. /\ running[d] /\ inHand[d] # 0 /\ inputs[d] > 0
      /\ inputs' = [inputs EXCEPT ![d] = @ - 1]
      /\ fed' = [fed EXCEPT ![d] = inHand[d]]
      /\ inHand' = [inHand EXCEPT ![d] = 0]
      /\ UNCHANGED <<keys, dropping, offerPc, newSession, reading, active, starts, queue,
                     delivered, running, held, excused>>
  BY DEF Feed, LetGo, offerVars, sessionVars
<1>q. /\ Arrived \in Nat /\ Len(queue) \in Nat
      /\ \A i \in 1..Len(queue) : queue[i] \in 1..Arrived
      /\ queue # <<>> <=> Len(queue) > 0
      /\ delivered \in Nat
      /\ \A e \in Decoders : fed[e] \in 0..Arrived /\ inHand[e] \in 0..Arrived
  BY QueueElements DEF IInv
<1>t. /\ inHand \in [Decoders -> 0..Arrived] /\ fed \in [Decoders -> 0..Arrived]
      /\ inputs \in [Decoders -> 0..CodecInputs] /\ held \in [Decoders -> 0..CodecInputs]
      /\ \A e \in Decoders : inputs[e] + held[e] <= CodecInputs
  BY DEF IInv, TypeOK
<1>2. TypeOK'
  <2>1. inputs' \in [Decoders -> 0..CodecInputs]
    BY <1>1, <1>t, BoundsAssumption
  <2>2. \A e \in Decoders : inputs'[e] + held'[e] <= CodecInputs
    BY <1>1, <1>t, BoundsAssumption
  <2>3. inHand' \in [Decoders -> 0..Arrived] /\ fed' \in [Decoders -> 0..Arrived]
    BY <1>1, <1>t, <1>q
  <2> QED
    BY <1>1, <2>1, <2>2, <2>3 DEF IInv, TypeOK, Arrived
<1>3. QueueIncreases' /\ QueueIsGapFree' /\ OfferInv'
  BY <1>1, RingKept
<1>4. /\ fed'[d] = inHand[d] /\ inHand'[d] = 0 /\ inHand[d] <= delivered
      /\ d > starts => ~running[d]
  BY <1>1, <1>t DEF IInv, CodecInv
<1>5. queue # <<>> => Follows(delivered, queue[1])
  BY <1>q DEF IInv, QueueIsGapFree
<1>6. queue = <<>> /\ offerPc # "idle" => Follows(delivered, Arrived)
  BY <1>q DEF IInv, OfferInv, Newest, Follows
<1>7. queue = <<>> /\ offerPc = "idle" => dropping \/ delivered = Arrived
  BY DEF IInv, OfferInv, Newest
<1>8. ~excused[d] => Chained(d)'
  <2>1. ~excused[d] => fed'[d] = delivered
    BY <1>1, <1>4 DEF IInv, CodecInv, Chained
  <2> QED
    BY <2>1, <1>1, <1>4, <1>5, <1>6, <1>7 DEF Chained, Follows, Arrived
<1>9. CodecInv'
  <2> SUFFICES ASSUME NEW e \in Decoders
               PROVE  (/\ e > starts => ~running[e]
                       /\ fed[e] <= delivered
                       /\ inHand[e] # 0 =>
                             running[e] /\ fed[e] < inHand[e] /\ inHand[e] <= delivered
                       /\ running[e] /\ ~excused[e] => Chained(e))'
    BY DEF CodecInv, Decoders
  <2>1. CASE e # d
    <3>1. fed'[e] = fed[e] /\ inHand'[e] = inHand[e]
      BY <2>1, <1>1, <1>t
    <3> QED
      BY <3>1, <1>1 DEF IInv, CodecInv, Chained, Follows, Arrived
  <2>2. CASE e = d
    BY <2>2, <1>1, <1>4, <1>8
  <2> QED
    BY <2>1, <2>2
<1> QED
  BY <1>2, <1>3, <1>9 DEF IInv

(* The frame in hand is lost at the codec, which is excused for it. *)
LEMMA LostInv ==
  ASSUME IInv, NEW d \in Decoders, FeedTimeout(d) \/ FeedFails(d)
  PROVE  IInv'
<1>1. /\ inHand' = [inHand EXCEPT ![d] = 0]
      /\ excused' = [excused EXCEPT ![d] = TRUE]
      /\ UNCHANGED <<keys, dropping, offerPc, newSession, reading, active, starts, queue,
                     delivered, running, fed>>
  BY DEF FeedTimeout, FeedFails, Lost, LetGo, offerVars, sessionVars
<1>t. /\ inHand \in [Decoders -> 0..Arrived] /\ excused \in [Decoders -> BOOLEAN]
      /\ inputs \in [Decoders -> 0..CodecInputs] /\ held \in [Decoders -> 0..CodecInputs]
      /\ \A e \in Decoders : inputs[e] + held[e] <= CodecInputs
      /\ Arrived \in Nat
  BY QueueElements DEF IInv, TypeOK
<1>2. /\ inputs' \in [Decoders -> 0..CodecInputs] /\ held' \in [Decoders -> 0..CodecInputs]
      /\ \A e \in Decoders : inputs'[e] + held'[e] <= CodecInputs
  <2>1. CASE UNCHANGED <<inputs, held>>
    BY <2>1, <1>t
  <2>2. CASE /\ inputs[d] > 0
             /\ inputs' = [inputs EXCEPT ![d] = @ - 1]
             /\ held' = [held EXCEPT ![d] = @ + 1]
    <3>1. inputs[d] - 1 \in 0..CodecInputs /\ held[d] + 1 \in 0..CodecInputs
      BY <2>2, <1>t, BoundsAssumption
    <3> QED
      BY <2>2, <3>1, <1>t, BoundsAssumption
  <2> QED
    BY <2>1, <2>2 DEF FeedTimeout, FeedFails
<1>3. TypeOK'
  <2>1. inHand' \in [Decoders -> 0..Arrived] /\ excused' \in [Decoders -> BOOLEAN]
    BY <1>1, <1>t
  <2> QED
    BY <1>1, <1>2, <2>1 DEF IInv, TypeOK, Arrived
<1>4. \A e \in Decoders : /\ inHand'[e] \in {0, inHand[e]}
                          /\ ~excused'[e] => ~excused[e] /\ inHand'[e] = inHand[e]
  BY <1>1, <1>t
<1>5. CodecInv'
  BY <1>1, <1>4 DEF IInv, CodecInv, Chained, Follows, Arrived
<1> QED
  BY <1>1, <1>3, <1>5, RingKept DEF IInv

LEMMA DrainInv == ASSUME IInv, NEW d \in Decoders, Drain(d) PROVE IInv'
<1>1. /\ inputs[d] + held[d] < CodecInputs
      /\ inputs' = [inputs EXCEPT ![d] = @ + 1]
      /\ UNCHANGED <<keys, dropping, offerPc, newSession, reading, active, starts, queue,
                     delivered, running, inHand, held, fed, excused>>
  BY DEF Drain, offerVars, sessionVars
<1>t. /\ inputs \in [Decoders -> 0..CodecInputs] /\ held \in [Decoders -> 0..CodecInputs]
      /\ \A e \in Decoders : inputs[e] + held[e] <= CodecInputs
  BY DEF IInv, TypeOK
<1>2. /\ inputs' \in [Decoders -> 0..CodecInputs]
      /\ \A e \in Decoders : inputs'[e] + held'[e] <= CodecInputs
  BY <1>1, <1>t, BoundsAssumption
<1>3. TypeOK' /\ CodecInv'
  BY <1>1, <1>2 DEF IInv, TypeOK, CodecInv, Chained, Follows, Arrived
<1> QED
  BY <1>1, <1>3, RingKept DEF IInv

(* A decoder is created: in time, on an empty buffer, or excused. *)
LEMMA StartInv == IInv /\ (StartDecoder \/ StartStray) => IInv'
<1> SUFFICES ASSUME IInv, StartDecoder \/ StartStray
             PROVE  IInv'
  OBVIOUS
<1> DEFINE n == starts + 1
<1>1. PICK runs \in BOOLEAN, late \in BOOLEAN : NewDecoder(runs, late)
  BY DEF StartDecoder, StartStray
<1>2. /\ starts < MaxStarts /\ starts' = n
      /\ running' = [running EXCEPT ![n] = runs]
      /\ UNCHANGED <<keys, queue, dropping, offerPc, delivered, inHand, inputs, held, fed>>
      /\ \A r, l \in BOOLEAN : NewDecoder(r, l) =>
            excused' = [excused EXCEPT ![n] = l \/ queue # <<>>]
  BY <1>1 DEF NewDecoder, codecVars
<1>3. \/ /\ StartDecoder /\ offerPc = "idle"
         /\ active' = TRUE /\ newSession' = TRUE /\ reading' = TRUE
         /\ excused' = [excused EXCEPT ![n] = queue # <<>>]
      \/ /\ StartStray /\ UNCHANGED <<active, newSession, reading>>
         /\ excused' = [excused EXCEPT ![n] = TRUE]
  BY DEF StartDecoder, StartStray, NewDecoder
<1>t. /\ running \in [Decoders -> BOOLEAN] /\ excused \in [Decoders -> BOOLEAN]
      /\ starts \in 0..MaxStarts /\ MaxStarts \in Nat
  BY BoundsAssumption DEF IInv, TypeOK
<1>4. n \in Decoders /\ n \in 0..MaxStarts
  BY <1>2, <1>t DEF Decoders
<1>5. TypeOK'
  <2>1. running' \in [Decoders -> BOOLEAN] /\ excused' \in [Decoders -> BOOLEAN]
    BY <1>2, <1>3, <1>4, <1>t
  <2> QED
    BY <1>2, <1>3, <1>4, <2>1 DEF IInv, TypeOK, Arrived
<1>6. CodecInv'
  <2> SUFFICES ASSUME NEW e \in Decoders
               PROVE  (/\ e > starts => ~running[e]
                       /\ fed[e] <= delivered
                       /\ inHand[e] # 0 =>
                             running[e] /\ fed[e] < inHand[e] /\ inHand[e] <= delivered
                       /\ running[e] /\ ~excused[e] => Chained(e))'
    BY DEF CodecInv, Decoders
  <2>1. CASE e # n
    <3>1. running'[e] = running[e] /\ excused'[e] = excused[e]
      BY <2>1, <1>2, <1>3, <1>4, <1>t
    <3>2. e > n => e > starts
      BY <1>t DEF Decoders
    <3>3. newSession => newSession'
      BY <1>3
    <3> QED
      BY <3>1, <3>2, <3>3, <1>2 DEF IInv, CodecInv, Chained, Follows, Arrived
  <2>2. CASE e = n
    <3>1. ~running[n] /\ fed[n] <= delivered /\ inHand[n] = 0
      BY <1>4, <1>t DEF IInv, CodecInv
    <3>2. ~excused'[n] => queue = <<>> /\ offerPc = "idle" /\ newSession'
      BY <1>3, <1>4, <1>t
    <3>3. ~(n > starts')
      BY <1>2, <1>t
    <3> QED
      BY <2>2, <3>1, <3>2, <3>3, <1>2 DEF Chained
  <2> QED
    BY <2>1, <2>2
<1> QED
  BY <1>2, <1>5, <1>6, RingKept DEF IInv

(* A session is stopped, its decoder or another's with it, whose worker may take *)
(* one more frame.                                                               *)
LEMMA StopInv == IInv /\ StopSession => IInv'
<1> SUFFICES ASSUME IInv, StopSession
             PROVE  IInv'
  OBVIOUS
<1>1. active' = FALSE /\ UNCHANGED <<keys, dropping, offerPc, newSession, reading, starts>>
  BY DEF StopSession, offerVars
<1>q. /\ Arrived \in Nat /\ delivered \in Nat
      /\ \A e \in Decoders : fed[e] \in 0..Arrived /\ inHand[e] \in 0..Arrived
  BY QueueElements DEF IInv
<1>2. CASE UNCHANGED <<queue, delivered, decoderVars>>
  <2>1. UNCHANGED <<queue, delivered, running, inHand, inputs, held, fed, excused>>
    BY <1>2 DEF decoderVars, codecVars
  <2>2. TypeOK' /\ CodecInv'
    BY <1>1, <2>1 DEF IInv, TypeOK, CodecInv, Chained, Follows, Arrived
  <2> QED
    BY <1>1, <2>1, <2>2, RingKept DEF IInv
<1>3. CASE \E d \in Decoders : StopDecoder(d)
  <2>1. PICK d \in Decoders : StopDecoder(d)
    BY <1>3
  <2>2. /\ running' = [running EXCEPT ![d] = FALSE]
        /\ inHand' = [inHand EXCEPT ![d] = 0]
        /\ inputs' = [inputs EXCEPT ![d] = CodecInputs]
        /\ held' = [held EXCEPT ![d] = 0]
        /\ fed' = [fed EXCEPT ![d] = 0]
        /\ UNCHANGED <<queue, delivered, excused>> \/ TakeOldest(d)
    BY <2>1 DEF StopDecoder
  <2>t. /\ running \in [Decoders -> BOOLEAN] /\ inHand \in [Decoders -> 0..Arrived]
        /\ inputs \in [Decoders -> 0..CodecInputs] /\ held \in [Decoders -> 0..CodecInputs]
        /\ fed \in [Decoders -> 0..Arrived] /\ excused \in [Decoders -> BOOLEAN]
        /\ \A e \in Decoders : inputs[e] + held[e] <= CodecInputs
    BY DEF IInv, TypeOK
  <2>3. /\ running' \in [Decoders -> BOOLEAN] /\ inHand' \in [Decoders -> 0..Arrived]
        /\ inputs' \in [Decoders -> 0..CodecInputs] /\ held' \in [Decoders -> 0..CodecInputs]
        /\ fed' \in [Decoders -> 0..Arrived]
        /\ \A e \in Decoders : inputs'[e] + held'[e] <= CodecInputs
    BY <2>2, <2>t, <1>q, BoundsAssumption
  <2>4. ~running'[d] /\ inHand'[d] = 0 /\ fed'[d] = 0
    BY <2>2, <2>t
  <2>5. \A e \in Decoders \ {d} :
           running'[e] = running[e] /\ inHand'[e] = inHand[e] /\ fed'[e] = fed[e]
    BY <2>2, <2>t
  <2>6. CASE UNCHANGED <<queue, delivered, excused>>
    <3>1. TypeOK'
      BY <1>1, <2>3, <2>6 DEF IInv, TypeOK, Arrived
    <3>2. CodecInv'
      BY <1>1, <1>q, <2>4, <2>5, <2>6 DEF IInv, CodecInv, Chained, Follows, Arrived
    <3> QED
      BY <1>1, <2>6, <3>1, <3>2, RingKept DEF IInv
  <2>7. CASE TakeOldest(d)
    <3>1. /\ queue' \in Seq(1..Arrived) /\ Len(queue') <= Capacity
          /\ delivered' \in 1..Arrived
          /\ QueueIncreases' /\ QueueIsGapFree' /\ OfferInv'
      BY <1>1, <2>7, TakeOldestRing
    <3>2. TypeOK'
      <4>1. excused' \in [Decoders -> BOOLEAN]
        BY <2>7, <2>t DEF TakeOldest, Takes
      <4>2. delivered' \in 0..Arrived
        BY <3>1, <1>q
      <4> QED
        BY <1>1, <2>3, <3>1, <4>1, <4>2 DEF IInv, TypeOK, Arrived
    <3>3. \A e \in Decoders \ {d} :
             excused'[e] /\ fed[e] <= delivered' /\ (inHand[e] # 0 => inHand[e] <= delivered')
      BY <1>1, <2>7, TakeOldestOthers
    <3>4. fed'[d] <= delivered'
      BY <2>4, <3>1, <1>q
    <3>5. CodecInv'
      BY <1>1, <2>4, <2>5, <3>3, <3>4 DEF IInv, CodecInv
    <3> QED
      BY <3>1, <3>2, <3>5 DEF IInv
  <2> QED
    BY <2>2, <2>6, <2>7
<1> QED
  BY <1>2, <1>3 DEF StopSession

LEMMA StutterInv == IInv /\ UNCHANGED vars => IInv'
<1> SUFFICES ASSUME IInv, UNCHANGED vars
             PROVE  IInv'
  OBVIOUS
<1>1. QueueIncreases' /\ QueueIsGapFree' /\ OfferInv'
  BY RingKept DEF vars
<1>2. TypeOK' /\ CodecInv'
  BY DEF vars, IInv, TypeOK, CodecInv, Chained, Follows, Arrived
<1> QED
  BY <1>1, <1>2 DEF IInv

(* IInv holds in every reachable state. *)
THEOREM Invariance == Spec => []IInv
<1>1. IInv /\ [Next]_vars => IInv'
  BY OfferStepInv, OfferRoomInv, OfferClearInv, OfferEnqueueInv, PollInv, FeedInv,
     LostInv, DrainInv, StartInv, StopInv, StutterInv
  DEF Next, OfferStep, Feeding, Done
<1> QED
  BY InitIInv, <1>1, PTL DEF Spec

(* The variables of the ring and the decoders keep their types; the queue never *)
(* exceeds maxCapacity.                                                        *)
THEOREM TypeCorrect == Spec => []TypeOK
<1>1. IInv => TypeOK
  BY DEF IInv
<1> QED
  BY <1>1, Invariance, PTL

(* Whatever the interleaving of offer and poll, the frames in the ring can be *)
(* decoded one after the other, from where the decoders stand.                *)
THEOREM GapFree == Spec => []QueueIsGapFree
<1>1. IInv => QueueIsGapFree
  BY DEF IInv
<1> QED
  BY <1>1, Invariance, PTL

(* A codec is fed a P-frame without its predecessor only after a frame was lost   *)
(* at that codec or taken by another decoder, or its decoder was started on a     *)
(* buffer in use or late: for every number of decoders, with frames that the      *)
(* codec refuses, fails on or is too slow for.                                    *)
THEOREM TornOnlyWhenExcused == Spec => TornOnlyIfExcused
<1>1. IInv /\ [Next]_vars
        => [\A d \in Decoders :
               fed'[d] \notin {fed[d], 0} => Follows(fed[d], fed'[d]) \/ excused[d]]_vars
  <2> SUFFICES ASSUME IInv, Next, NEW d \in Decoders, fed'[d] # fed[d], fed'[d] # 0
               PROVE  Follows(fed[d], fed'[d]) \/ excused[d]
    BY DEF vars
  <2>t. fed \in [Decoders -> 0..Arrived]
    BY DEF IInv, TypeOK
  <2>1. Feed(d)
    <3>1. CASE \E e \in Decoders : Feed(e)
      <4>1. PICK e \in Decoders : Feed(e)
        BY <3>1
      <4>2. fed' = [fed EXCEPT ![e] = inHand[e]]
        BY <4>1 DEF Feed
      <4> QED
        BY <4>1, <4>2, <2>t
    <3>2. CASE \E e \in Decoders : StopDecoder(e)
      <4>1. PICK e \in Decoders : fed' = [fed EXCEPT ![e] = 0]
        BY <3>2 DEF StopDecoder
      <4> QED
        BY <4>1, <2>t
    <3>3. ~UNCHANGED fed
      OBVIOUS
    <3> QED
      BY <3>1, <3>2, <3>3
      DEF Next, Offer, OfferStep, OfferRoom, OfferClear, OfferEnqueue, Poll, Feeding,
          FeedTimeout, FeedFails, Lost, Drain, StartDecoder, StartStray, NewDecoder,
          StopSession, Done, decoderVars, codecVars, vars
  <2>2. fed'[d] = inHand[d] /\ inHand[d] # 0 /\ running[d]
    BY <2>1, <2>t DEF Feed, LetGo
  <2> QED
    BY <2>2 DEF IInv, CodecInv, Chained
<1> QED
  BY <1>1, Invariance, PTL DEF Spec, TornOnlyIfExcused

(* The ring implements the abstract delivery of groups of pictures. *)
THEOREM Refinement == Spec => DeliversGops
<1>1. Init => AbstractDelivery!Init
  BY DEF Init, AbstractDelivery!Init
<1>2. IInv /\ [Next]_vars => [AbstractDelivery!Next]_<<keys, delivered>>
  <2> SUFFICES ASSUME IInv, Next
               PROVE  AbstractDelivery!Next \/ UNCHANGED <<keys, delivered>>
    BY DEF vars
  <2>1. CASE Offer
    BY <2>1 DEF Offer, AbstractDelivery!Next, AbstractDelivery!Offer
  <2>2. ASSUME NEW d \in Decoders, TakeOldest(d), UNCHANGED <<keys, dropping, offerPc>>
        PROVE  AbstractDelivery!Next
    <3>1. Arrived \in Nat /\ delivered \in Nat
      BY QueueElements DEF IInv
    <3>2. delivered' = queue[1] /\ queue[1] \in 1..Arrived /\ Follows(delivered, queue[1])
      BY <2>2, TakeOldestRing
    <3>3. UNCHANGED keys
      BY <2>2
    <3> QED
      BY <3>1, <3>2, <3>3
      DEF AbstractDelivery!Next, AbstractDelivery!Deliver, Follows, Arrived
  <2>3. CASE OfferStep \/ StartDecoder \/ StartStray \/ Done
    BY <2>3 DEF OfferStep, OfferRoom, OfferClear, OfferEnqueue, StartDecoder, StartStray,
                NewDecoder, Done, vars
  <2>4. ASSUME NEW d \in Decoders, Poll(d) \/ Feeding(d) \/ Drain(d)
        PROVE  AbstractDelivery!Next \/ UNCHANGED <<keys, delivered>>
    <3>1. CASE Poll(d)
      BY <3>1, <2>2 DEF Poll, offerVars
    <3>2. CASE Feeding(d) \/ Drain(d)
      BY <3>2 DEF Feeding, Feed, FeedTimeout, FeedFails, Lost, LetGo, Drain, offerVars
    <3> QED
      BY <2>4, <3>1, <3>2
  <2>5. CASE StopSession
    <3>1. UNCHANGED <<keys, dropping, offerPc>>
      BY <2>5 DEF StopSession, offerVars
    <3> QED
      BY <2>2, <2>5, <3>1 DEF StopSession, StopDecoder
  <2> QED
    BY <2>1, <2>3, <2>4, <2>5 DEF Next
<1> QED
  BY <1>1, <1>2, Invariance, PTL DEF Spec, DeliversGops, AbstractDelivery!Spec

=============================================================================
