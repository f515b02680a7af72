------------------------------ MODULE Discovery ------------------------------
(***************************************************************************)
(* How the client finds hosts: every host broadcasts a beacon every two    *)
(* seconds, and while its list is on the screen the client's               *)
(* HostDiscoveryManager listens.  start launches a coroutine that opens a  *)
(* socket, publishes it in the field socket and reads; stop, on the main   *)
(* thread, cancels the coroutine and closes the socket it finds in that    *)
(* field.  The next start may come at once, while the coroutine before is  *)
(* still opening its socket or updating the list, and they share the field *)
(* and the list without a lock.                                            *)
(*                                                                         *)
(* A beacon may be lost; that is a step that changes nothing, and there is *)
(* no action for it.                                                       *)
(***************************************************************************)
EXTENDS Naturals, Sequences

CONSTANTS
    Hosts,        \* hosts in the network: address and port
    Junk,         \* a datagram on the port that is no beacon
    NoPacket,     \* the empty buffer
    MaxInbox,     \* bound: datagrams a socket holds, more are lost
    MaxJobs       \* bound: starts

ASSUME BoundsAssumption ==
    /\ MaxInbox \in Nat \ {0} /\ MaxJobs \in Nat \ {0}
    /\ Junk \notin Hosts /\ NoPacket \notin Hosts \cup {Junk}

VARIABLES
    broadcaster,  \* of each host: "new", "running" or "stopped"
    resumed,      \* the list of hosts is on the screen
    main,         \* where the main thread stands in stop
    started,      \* jobs started so far
    job,          \* the manager's fields: the number of a job, or 0
    socket,       \* ... and the number of the job that opened it, or 0
    hosts,        \* _hosts
    pc,           \* where each job stands
    cancelled,    \* it is cancelled
    state,        \* the socket it opens: "none", "open" or "closed"
    inbox,        \* datagrams the socket holds
    on,           \* the socket it reads from
    packet,       \* its packet: what was received last
    current,      \* its copy of the list
    tardy         \* history: jobs that published a socket after they were cancelled

vars == <<broadcaster, resumed, main, started, job, socket, hosts, pc, cancelled, state,
          inbox, on, packet, current, tardy>>

Jobs == 1..MaxJobs

Init ==
    /\ broadcaster = [h \in Hosts |-> "new"]
    /\ resumed = FALSE /\ main = "idle"
    /\ started = 0 /\ job = 0 /\ socket = 0
    /\ hosts = {}
    /\ pc = [j \in Jobs |-> "none"]
    /\ cancelled = [j \in Jobs |-> FALSE]
    /\ state = [j \in Jobs |-> "none"]
    /\ inbox = [j \in Jobs |-> <<>>]
    /\ on = [j \in Jobs |-> 0]
    /\ packet = [j \in Jobs |-> NoPacket]
    /\ current = [j \in Jobs |-> {}]
    /\ tardy = {}

(***************************************************************************)
(* The network                                                             *)
(***************************************************************************)
Broadcast(datagram) ==
    inbox' = [j \in Jobs |-> IF state[j] = "open" /\ Len(inbox[j]) < MaxInbox
                               THEN Append(inbox[j], datagram) ELSE inbox[j]]

manager == <<resumed, main, started, job, socket, hosts, pc, cancelled, state, on, packet,
             current, tardy>>

\* The task of start binds its socket, or gives up.
HostBinds(h) ==
    /\ broadcaster[h] = "new"
    /\ \E next \in {"running", "stopped"} : broadcaster' = [broadcaster EXCEPT ![h] = next]
    /\ UNCHANGED <<manager, inbox>>

\* One round of its loop
Beacon(h) ==
    /\ broadcaster[h] = "running"
    /\ Broadcast(h)
    /\ UNCHANGED <<manager, broadcaster>>

\* The daemon ends: disc.stop().
HostStops(h) ==
    /\ broadcaster[h] = "running"
    /\ broadcaster' = [broadcaster EXCEPT ![h] = "stopped"]
    /\ UNCHANGED <<manager, inbox>>

Noise == Broadcast(Junk) /\ UNCHANGED <<manager, broadcaster>>

(***************************************************************************)
(* The main thread                                                         *)
(***************************************************************************)
Active(j) == pc[j] # "done" /\ ~cancelled[j]

\* onResume: start(scope); one whose job is active changes nothing
Start ==
    /\ ~resumed /\ main = "idle" /\ started < MaxJobs
    /\ resumed' = TRUE
    /\ IF job # 0 /\ Active(job)
         THEN UNCHANGED <<started, job, pc>>
         ELSE /\ started' = started + 1
              /\ job' = started'
              /\ pc' = [pc EXCEPT ![started'] = "launched"]
    /\ UNCHANGED <<broadcaster, main, socket, hosts, cancelled, state, inbox, on, packet,
                   current, tardy>>

\* Mutant: the job is only forgotten.
StopJobForgets ==
    /\ resumed /\ main = "idle"
    /\ resumed' = FALSE
    /\ main' = "close"
    /\ UNCHANGED <<broadcaster, started, job, socket, hosts, pc, cancelled, state, inbox, on,
                   packet, current, tardy>>

\* onPause: stop(), job?.cancel()
StopJob ==
    /\ resumed /\ main = "idle"
    /\ resumed' = FALSE
    /\ cancelled' = [j \in Jobs |-> cancelled[j] \/ j = job]
    /\ main' = "close"
    /\ UNCHANGED <<broadcaster, started, job, socket, hosts, pc, state, inbox, on, packet,
                   current, tardy>>

\* Mutant: the socket is left to the job.
CloseSocketForgets ==
    /\ main = "close"
    /\ main' = "clear"
    /\ UNCHANGED <<broadcaster, resumed, started, job, socket, hosts, pc, cancelled, state,
                   inbox, on, packet, current, tardy>>

\* socket?.close()
CloseSocket ==
    /\ main = "close"
    /\ state' = [j \in Jobs |-> IF j = socket THEN "closed" ELSE state[j]]
    /\ inbox' = [j \in Jobs |-> IF j = socket THEN <<>> ELSE inbox[j]]
    /\ main' = "clear"
    /\ UNCHANGED <<broadcaster, resumed, started, job, socket, hosts, pc, cancelled, on,
                   packet, current, tardy>>

\* socket = null; job = null - be it a socket that was published only now
ClearFields ==
    /\ main = "clear"
    /\ socket' = 0 /\ job' = 0
    /\ main' = "idle"
    /\ UNCHANGED <<broadcaster, resumed, started, hosts, pc, cancelled, state, inbox, on,
                   packet, current, tardy>>

(***************************************************************************)
(* The coroutine of job j                                                  *)
(***************************************************************************)
Goto(j, next) == pc' = [pc EXCEPT ![j] = next]

\* isActive, at the head of the loop and where an exception was caught
Again(j) == Goto(j, IF cancelled[j] THEN "done" ELSE "receive")

screen == <<broadcaster, resumed, main, started, job>>

\* A coroutine that is cancelled before it gets a thread does not run.
Launch(j) ==
    /\ pc[j] = "launched"
    /\ Goto(j, IF cancelled[j] THEN "done" ELSE "bind")
    /\ UNCHANGED <<screen, socket, hosts, cancelled, state, inbox, on, packet, current, tardy>>

\* DatagramSocket(null).apply { ... bind ... }
Bind(j) ==
    /\ pc[j] = "bind"
    /\ state' = [state EXCEPT ![j] = "open"]
    /\ Goto(j, "publish")
    /\ UNCHANGED <<screen, socket, hosts, cancelled, inbox, on, packet, current, tardy>>

BindFails(j) ==
    /\ pc[j] = "bind"
    /\ Goto(j, "done")
    /\ UNCHANGED <<screen, socket, hosts, cancelled, state, inbox, on, packet, current, tardy>>

\* socket = ...
Publish(j) ==
    /\ pc[j] = "publish"
    /\ socket' = j
    /\ tardy' = IF cancelled[j] THEN tardy \cup {j} ELSE tardy
    /\ Goto(j, "again")
    /\ UNCHANGED <<screen, hosts, cancelled, state, inbox, on, packet, current>>

\* while (isActive)
Check(j) ==
    /\ pc[j] = "again"
    /\ Again(j)
    /\ UNCHANGED <<screen, socket, hosts, cancelled, state, inbox, on, packet, current, tardy>>

\* socket?.receive(packet) reads the field first; without a socket the packet
\* stays what it was, and is parsed again.
Receive(j) ==
    /\ pc[j] = "receive"
    /\ on' = [on EXCEPT ![j] = socket]
    /\ Goto(j, IF socket = 0 THEN "parse" ELSE "blocked")
    /\ UNCHANGED <<screen, socket, hosts, cancelled, state, inbox, packet, current, tardy>>

Received(j) ==
    /\ pc[j] = "blocked" /\ inbox[on[j]] # <<>>
    /\ packet' = [packet EXCEPT ![j] = Head(inbox[on[j]])]
    /\ inbox' = [inbox EXCEPT ![on[j]] = Tail(@)]
    /\ on' = [on EXCEPT ![j] = 0]
    /\ Goto(j, "parse")
    /\ UNCHANGED <<screen, socket, hosts, cancelled, state, current, tardy>>

\* receive throws, as the socket was closed.
ReceiveFails(j) ==
    /\ pc[j] = "blocked" /\ state[on[j]] = "closed"
    /\ on' = [on EXCEPT ![j] = 0]
    /\ Again(j)
    /\ UNCHANGED <<screen, socket, hosts, cancelled, state, inbox, packet, current, tardy>>

\* A beacon leads to updateHost, which copies the list; anything else is caught
\* or ignored.
Parse(j) ==
    /\ pc[j] = "parse"
    /\ IF packet[j] \in Hosts
         THEN current' = [current EXCEPT ![j] = hosts] /\ Goto(j, "update")
         ELSE UNCHANGED current /\ Again(j)
    /\ UNCHANGED <<screen, socket, hosts, cancelled, state, inbox, on, packet, tardy>>

\* Mutant: the list becomes the host just heard.
UpdateHostReplaces(j) ==
    /\ pc[j] = "update"
    /\ hosts' = {packet[j]}
    /\ current' = [current EXCEPT ![j] = {}]
    /\ Goto(j, "again")
    /\ UNCHANGED <<screen, socket, cancelled, state, inbox, on, packet, tardy>>

\* _hosts.value = current, with the host replaced or added
UpdateHost(j) ==
    /\ pc[j] = "update"
    /\ hosts' = current[j] \cup {packet[j]}
    /\ current' = [current EXCEPT ![j] = {}]
    /\ Goto(j, "again")
    /\ UNCHANGED <<screen, socket, cancelled, state, inbox, on, packet, tardy>>

BindEnds(j) == Bind(j) \/ BindFails(j)

Step(j) ==
    \/ Launch(j) \/ BindEnds(j) \/ Publish(j) \/ Check(j) \/ Receive(j)
    \/ Received(j) \/ ReceiveFails(j) \/ Parse(j) \/ UpdateHost(j)

MainGoesOn == CloseSocket \/ ClearFields

Next ==
    \/ Start \/ StopJob \/ MainGoesOn \/ Noise
    \/ \E h \in Hosts : HostBinds(h) \/ Beacon(h) \/ HostStops(h)
    \/ \E j \in Jobs : Step(j)

\* Threads go on, and of the beacons a host sends for ever, one every two
\* seconds, the network does not lose all.
Spec ==
    /\ Init /\ [][Next]_vars
    /\ WF_vars(MainGoesOn)
    /\ \A j \in Jobs : WF_vars(Step(j))
    /\ \A h \in Hosts : SF_vars(Beacon(h))

-----------------------------------------------------------------------------
(* Properties *)

\* A socket that no stop can close any more - it is open, its job has published it
\* and the field holds another or none - is the fault of a job that published after
\* it was stopped: this one, between the close and the null of stop or later, or
\* an older one, which wrote over the field.  Nothing closes such a socket before
\* the garbage collector does.
SocketsAccounted ==
    \A j \in Jobs :
        (state[j] = "open" /\ pc[j] # "publish" /\ socket # j) =>
            \E r \in tardy : r <= j

\* A job that was stopped ends, but for one that goes on to wait for a datagram
\* where no stop reaches it: on the socket of the job after it, whose beacon it
\* then takes away, or on one that an older job wrote over.
StoppedListeningEnds ==
    \A j \in Jobs :
        cancelled[j] ~> \/ pc[j] = "done"
                        \/ pc[j] = "blocked" /\ (on[j] > j \/ \E r \in tardy : r < j)

Listening == resumed /\ main = "idle" /\ job # 0 /\ pc[job] # "done"

\* A host that goes on sending comes to the list of a client that goes on
\* listening, and stays there: junk on the port does not end the listening, a
\* stopped job that wrote an old copy of the list over it, or put its socket in the
\* field, or took a beacon, does not hide a host for good.
HostIsListed ==
    \A h \in Hosts :
        <>[](Listening /\ broadcaster[h] = "running") => <>[](h \in hosts)

=============================================================================
