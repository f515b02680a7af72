--------------------------- MODULE DiscoveryProofs ---------------------------
(***************************************************************************)
(* SocketsAccounted of Discovery, for any number of hosts and starts.  The *)
(* property is not inductive: Publish takes the field from a socket, and   *)
(* what excuses that one is a fact about its own past.  FieldInv keeps it. *)
(***************************************************************************)
EXTENDS Discovery, TLAPS

Places == {"none", "launched", "bind", "publish", "again", "receive", "blocked", "parse",
           "update", "done"}

\* The main thread and the jobs: stop leaves none that is not cancelled, so the only
\* one that is not is the last one, in the field.
JobInv ==
    /\ main \in {"idle", "close", "clear"} /\ resumed \in BOOLEAN
    /\ started \in 0..MaxJobs /\ job \in {0, started}
    /\ pc \in [Jobs -> Places]
    /\ cancelled \in [Jobs -> BOOLEAN]
    /\ \A j \in Jobs : j > started => pc[j] = "none"
    /\ \A j \in Jobs : j <= started /\ ~cancelled[j] => job = j
    /\ main # "idle" => ~resumed /\ \A j \in Jobs : j <= started => cancelled[j]
    /\ main = "idle" /\ ~resumed => job = 0

\* Where a job has not published yet
Before == {"none", "launched", "bind", "publish"}

\* A stopped job whose open socket is in the field, where stop is not about to close
\* it, published it after it was stopped.
FieldInv ==
    /\ state \in [Jobs -> {"none", "open", "closed"}]
    /\ socket \in 0..started /\ tardy \subseteq 1..started
    /\ \A r \in Jobs :
        (socket = r /\ state[r] = "open" /\ cancelled[r] /\ (main # "close" \/ r # started))
            => r \in tardy
    /\ \A r \in Jobs : pc[r] \in Before => socket # r

IInv == JobInv /\ FieldInv /\ SocketsAccounted

LEMMA JobNumbers == MaxJobs \in Nat /\ MaxJobs > 0 /\ Jobs = 1..MaxJobs
BY BoundsAssumption DEF Jobs

LEMMA InitIInv == Init => IInv
<1> SUFFICES ASSUME Init PROVE IInv
  OBVIOUS
<1>1. JobInv
  <2>1. pc \in [Jobs -> Places] /\ cancelled \in [Jobs -> BOOLEAN]
    BY DEF Init, Places
  <2>2. \A j \in Jobs : pc[j] = "none" /\ ~(j <= started)
    BY JobNumbers DEF Init
  <2>3. started \in 0..MaxJobs /\ job \in {0, started}
    BY JobNumbers DEF Init
  <2>4. resumed = FALSE /\ main = "idle" /\ job = 0
    BY DEF Init
  <2> QED
    BY <2>1, <2>2, <2>3, <2>4 DEF JobInv
<1>2. FieldInv
  BY JobNumbers DEF Init, FieldInv, Before
<1>3. SocketsAccounted
  BY DEF Init, SocketsAccounted
<1> QED
  BY <1>1, <1>2, <1>3 DEF IInv

(* The network does not touch the manager. *)
LEMMA NetworkStep ==
    IInv /\ UNCHANGED manager => IInv'
BY JobNumbers DEF IInv, JobInv, FieldInv, SocketsAccounted, manager

LEMMA StartStep == IInv /\ Start => IInv'
<1> SUFFICES ASSUME IInv, Start PROVE IInv'
  OBVIOUS
<1> USE JobNumbers DEF IInv
<1>1. job = 0 /\ started' = started + 1 /\ job' = started'
      /\ pc' = [pc EXCEPT ![started'] = "launched"]
  BY DEF Start, JobInv
<1>2. \A j \in Jobs : j <= started => cancelled[j]
  BY <1>1 DEF JobInv
<1>3. started' \in Jobs
  BY <1>1 DEF Start, JobInv
<1>4. JobInv'
  BY <1>1, <1>2, <1>3 DEF Start, JobInv, Places
<1>5. FieldInv'
  BY <1>1, <1>2 DEF Start, JobInv, FieldInv, Before
<1>6. SocketsAccounted'
  BY <1>1, <1>3 DEF Start, JobInv, SocketsAccounted
<1> QED
  BY <1>4, <1>5, <1>6

LEMMA StopStep == IInv /\ (StopJob \/ MainGoesOn) => IInv'
<1> SUFFICES ASSUME IInv, StopJob \/ MainGoesOn PROVE IInv'
  OBVIOUS
<1> USE JobNumbers DEF IInv
<1>1. CASE StopJob
  <2>1. JobInv'
    BY <1>1 DEF StopJob, JobInv
  <2>2. FieldInv'
    BY <1>1 DEF StopJob, JobInv, FieldInv
  <2>3. SocketsAccounted'
    BY <1>1 DEF StopJob, SocketsAccounted
  <2> QED
    BY <2>1, <2>2, <2>3
<1>2. CASE CloseSocket
  <2>1. JobInv'
    BY <1>2 DEF CloseSocket, JobInv
  <2>2. FieldInv'
    BY <1>2 DEF CloseSocket, JobInv, FieldInv
  <2>3. SocketsAccounted'
    BY <1>2 DEF CloseSocket, FieldInv, SocketsAccounted
  <2> QED
    BY <2>1, <2>2, <2>3
<1>3. CASE ClearFields
  <2>1. JobInv'
    BY <1>3 DEF ClearFields, JobInv
  <2>2. FieldInv'
    BY <1>3 DEF ClearFields, JobInv, FieldInv
  <2>3. \A r \in Jobs : socket = r /\ state[r] = "open" => r \in tardy
    BY <1>3 DEF ClearFields, JobInv, FieldInv
  <2>4. SocketsAccounted'
    BY <1>3, <2>3 DEF ClearFields, SocketsAccounted
  <2> QED
    BY <2>1, <2>2, <2>4
<1> QED
  BY <1>1, <1>2, <1>3 DEF MainGoesOn

(* Publish is the step that takes the field from another socket. *)
LEMMA PublishStep == ASSUME NEW j \in Jobs PROVE IInv /\ Publish(j) => IInv'
<1> SUFFICES ASSUME IInv, Publish(j) PROVE IInv'
  OBVIOUS
<1> USE JobNumbers DEF IInv
<1>1. JobInv'
  BY DEF Publish, Goto, JobInv, Places, screen
<1>2. j <= started
  BY DEF Publish, JobInv
<1>3. FieldInv'
  BY <1>2 DEF Publish, Goto, JobInv, FieldInv, Before, screen
<1>4. tardy \subseteq tardy'
  BY DEF Publish
<1>5. ASSUME NEW r \in Jobs, state[r] = "open", pc[r] # "publish", r # j
      PROVE  \E t \in tardy' : t <= r
  <2>1. CASE socket # r
    BY <1>5, <1>4, <2>1 DEF SocketsAccounted
  <2>2. CASE socket = r /\ r \in tardy
    BY <1>4, <2>2
  <2>3. CASE socket = r /\ r \notin tardy
    <3>1. cancelled[r] => r = started
      BY <1>5, <2>3 DEF FieldInv
    <3>2. ~cancelled[r] => r = started
      BY <2>3 DEF FieldInv, JobInv
    <3>3. j < r
      BY <1>2, <1>5, <3>1, <3>2 DEF JobInv
    <3>4. cancelled[j]
      BY <1>2, <3>1, <3>2, <3>3 DEF JobInv
    <3>5. j \in tardy' /\ j <= r
      BY <3>3, <3>4 DEF Publish
    <3> QED
      BY <3>5
  <2> QED
    BY <2>1, <2>2, <2>3
<1>6. SocketsAccounted'
  BY <1>5 DEF Publish, Goto, JobInv, SocketsAccounted
<1> QED
  BY <1>1, <1>3, <1>6

LEMMA BindStep == ASSUME NEW j \in Jobs PROVE IInv /\ BindEnds(j) => IInv'
<1> SUFFICES ASSUME IInv, BindEnds(j) PROVE IInv'
  OBVIOUS
<1> USE JobNumbers DEF IInv
<1>1. JobInv'
  BY DEF BindEnds, Bind, BindFails, Goto, JobInv, Places, screen
<1>2. pc[j] = "bind"
  BY DEF BindEnds, Bind, BindFails
<1>3. SocketsAccounted'
  BY <1>2 DEF BindEnds, Bind, BindFails, Goto, JobInv, FieldInv, SocketsAccounted, screen
<1>4. FieldInv'
  BY <1>2 DEF BindEnds, Bind, BindFails, Goto, JobInv, FieldInv, Before, screen
<1> QED
  BY <1>1, <1>3, <1>4

LEMMA LaunchStep == ASSUME NEW j \in Jobs PROVE IInv /\ Launch(j) => IInv'
<1> SUFFICES ASSUME IInv, Launch(j) PROVE IInv'
  OBVIOUS
<1> USE JobNumbers DEF IInv
<1>1. JobInv'
  BY DEF Launch, Goto, JobInv, Places, screen
<1>2. FieldInv'
  BY DEF Launch, Goto, JobInv, FieldInv, Before, screen
<1>3. SocketsAccounted'
  BY DEF Launch, Goto, JobInv, SocketsAccounted
<1> QED
  BY <1>1, <1>2, <1>3

(* The rest of a job neither opens nor publishes. *)
LEMMA LoopStep ==
    ASSUME NEW j \in Jobs, pc[j] \notin {"none", "publish"},
           NEW next \in Places \ Before, pc' = [pc EXCEPT ![j] = next],
           UNCHANGED <<screen, socket, cancelled, state, tardy>>
    PROVE  IInv => IInv'
BY JobNumbers DEF IInv, JobInv, FieldInv, SocketsAccounted, Before, screen

LEMMA NextIInv == IInv /\ [Next]_vars => IInv'
<1> SUFFICES ASSUME IInv, [Next]_vars PROVE IInv'
  OBVIOUS
<1>1. CASE UNCHANGED vars \/ Noise \/ \E h \in Hosts : HostBinds(h) \/ Beacon(h) \/ HostStops(h)
  <2>1. UNCHANGED manager
    BY <1>1 DEF vars, manager, Noise, HostBinds, Beacon, HostStops
  <2> QED
    BY <2>1, NetworkStep
<1>2. CASE Start
  BY <1>2, StartStep
<1>3. CASE StopJob \/ MainGoesOn
  BY <1>3, StopStep
<1>4. ASSUME NEW j \in Jobs, Step(j) PROVE IInv'
  <2>1. CASE Publish(j)
    BY <2>1, PublishStep
  <2>2. CASE BindEnds(j)
    BY <2>2, BindStep
  <2>3. CASE Check(j) \/ Receive(j) \/ Received(j) \/ ReceiveFails(j)
             \/ Parse(j) \/ UpdateHost(j)
    <3>1. pc[j] \notin {"none", "publish"} /\ UNCHANGED <<screen, socket, cancelled, state, tardy>>
      BY <2>3 DEF Check, Receive, Received, ReceiveFails, Parse, UpdateHost
    <3>2. PICK next \in Places \ Before : pc' = [pc EXCEPT ![j] = next]
      BY <2>3 DEF Check, Receive, Received, ReceiveFails, Parse, UpdateHost,
                  Again, Goto, Places, Before
    <3> QED
      BY <3>1, <3>2, LoopStep
  <2>4. CASE Launch(j)
    BY <2>4, LaunchStep
  <2> QED
    BY <1>4, <2>1, <2>2, <2>3, <2>4 DEF Step
<1> QED
  BY <1>1, <1>2, <1>3, <1>4 DEF Next

LEMMA Invariance == Spec => []IInv
BY InitIInv, NextIInv, PTL DEF Spec

(* A socket that no stop can close any more is the fault of a job that published
   after it was stopped, however many starts and stops there were. *)
THEOREM SocketsAreAccounted == Spec => []SocketsAccounted
<1>1. IInv => SocketsAccounted
  BY DEF IInv
<1> QED
  BY <1>1, Invariance, PTL

=============================================================================
