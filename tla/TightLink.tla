------------------------------ MODULE TightLink ------------------------------
(***************************************************************************)
(* The link between two endpoints of Tight: handshake and key exchange,    *)
(* Online announcements, heartbeats, the dead_timeout, Bye, reconnection,  *)
(* and the PeerEvents the application is told (transport.cpp).             *)
(*                                                                         *)
(* An endpoint is one process, at a fixed address, that keeps one Peer for *)
(* the other.  Two of its threads touch the Peer: the receiver handles a   *)
(* packet (peer looked up under m_peers_mutex, the rest outside it), the   *)
(* reactor sends and runs check_offline, all under m_peers_mutex.  Both    *)
(* set m_state without a common lock and call the application after it.    *)
(* A restarted process has a new key pair: its incarnation.                *)
(***************************************************************************)
EXTENDS Naturals, FiniteSets

CONSTANTS Ends,         \* the two endpoints
          Connectors,   \* those whose application calls connect()
          Stopping,     \* those that may be stopped; any may crash
          MaxFaults,    \* bound: stops, crashes and outages of dead_timeout
          MaxFlight     \* bound: packets under way to an endpoint

ASSUME LinkConstants ==
    /\ \E a, b \in Ends : a # b /\ Ends = {a, b}
    /\ Connectors \subseteq Ends /\ Stopping \subseteq Ends
    /\ MaxFaults \in Nat /\ MaxFlight \in Nat

VARIABLES
    running,    \* "up", "stopping" (byes sent, threads not joined), "down"
    inc,        \* incarnation of the process: its key pair
    state,      \* m_state of the Peer, "none" when there is no Peer
    reconnect,  \* m_reconnect: connect() was called
    key,        \* incarnation m_crypto_key was derived from, 0 if none
    silent,     \* a linked Peer has now - m_last_recv >= dead_timeout
    rx,         \* the packet whose Peer the receiver thread has found, if any
    reactor,    \* where check_offline is; it holds m_peers_mutex unless idle
    told,       \* state in the last PeerEvent the application got
    wire,       \* packets under way to the endpoint
    faults

peerVars == <<state, reconnect, key, silent>>
vars == <<running, inc, peerVars, rx, reactor, told, wire, faults>>

Other(e) == CHOOSE o \in Ends : o # e

LinkStates == {"Handshake", "Established", "Online", "Closed"}
Incs       == 1 .. MaxFaults + 1
Packets    == [kind : {"Handshake", "HandshakeAck"}, inc : Incs]
                \cup [kind : {"Online", "Bye"}]

TypeOK ==
    /\ running \in [Ends -> {"up", "stopping", "down"}]
    /\ inc \in [Ends -> Incs]
    /\ state \in [Ends -> LinkStates \cup {"none"}]
    /\ reconnect \in [Ends -> BOOLEAN]
    /\ key \in [Ends -> 0 .. MaxFaults + 1]
    /\ silent \in [Ends -> BOOLEAN]
    /\ rx \in [Ends -> SUBSET Packets]
    /\ reactor \in [Ends -> {"idle", "closed", "fired"}]
    /\ told \in [Ends -> LinkStates \cup {"none"}]
    /\ wire \in [Ends -> SUBSET Packets]
    /\ faults \in 0 .. MaxFaults
    /\ \A e \in Ends :
        running[e] = "down" => state[e] = "none" /\ rx[e] = {} /\ reactor[e] = "idle"

Init ==
    /\ running = [e \in Ends |-> "up"]
    /\ inc = [e \in Ends |-> 1]
    /\ state = [e \in Ends |-> "none"]
    /\ reconnect = [e \in Ends |-> FALSE]
    /\ key = [e \in Ends |-> 0]
    /\ silent = [e \in Ends |-> FALSE]
    /\ rx = [e \in Ends |-> {}]
    /\ reactor = [e \in Ends |-> "idle"]
    /\ told = [e \in Ends |-> "none"]
    /\ wire = [e \in Ends |-> {}]
    /\ faults = 0

Handshake(e)    == [kind |-> "Handshake", inc |-> inc[e]]
HandshakeAck(e) == [kind |-> "HandshakeAck", inc |-> inc[e]]
Online          == [kind |-> "Online"]
Bye             == [kind |-> "Bye"]

\* send_control and send_raw: the packets P leave for the other endpoint, as
\* many as there is room for (a full m_outbound_queue drops in silence).
send(e, P) ==
    \E Q \in SUBSET P :
        /\ Cardinality(wire[Other(e)] \cup Q) <= MaxFlight
        /\ \A R \in SUBSET P :
              Cardinality(wire[Other(e)] \cup R) <= MaxFlight => ~ (Q \subseteq R /\ Q # R)
        /\ wire' = [wire EXCEPT ![Other(e)] = @ \cup Q]

Alive(e)     == running[e] # "down"
Linked(e)    == state[e] \in {"Established", "Online"}
PeersFree(e) == Alive(e) /\ reactor[e] = "idle"    \* m_peers_mutex
-----------------------------------------------------------------------------
(* Application *)

\* connect(): a Peer made for a packet of the address is erased, and the new
\* one starts in Handshake; a Closed Peer of connect() is revived.  (With a
\* Peer in another state it would only send one more Handshake.  Erasing a
\* Peer the receiver works on is undefined and left out.)
connect(e) ==
    /\ e \in Connectors
    /\ running[e] = "up" /\ PeersFree(e)
    /\ IF reconnect[e] THEN state[e] = "Closed" ELSE rx[e] = {}
    /\ reconnect' = [reconnect EXCEPT ![e] = TRUE]
    /\ state' = [state EXCEPT ![e] = "Handshake"]
    /\ key' = [key EXCEPT ![e] = IF reconnect[e] THEN @ ELSE 0]
    /\ silent' = [silent EXCEPT ![e] = FALSE]
    /\ send(e, {Handshake(e)})
    /\ UNCHANGED <<running, inc, rx, reactor, told, faults>>

\* TightTransport::stop() begins with send_byes(), the threads still running.
send_byes(e) ==
    /\ e \in Stopping /\ faults < MaxFaults
    /\ running[e] = "up" /\ PeersFree(e)
    /\ running' = [running EXCEPT ![e] = "stopping"]
    /\ faults' = faults + 1
    /\ silent' = [silent EXCEPT ![e] = FALSE]
    /\ IF state[e] \in {"none", "Closed"}
       THEN UNCHANGED <<state, wire>>
       ELSE /\ state' = [state EXCEPT ![e] = "Closed"]
            /\ send(e, {Bye})
    /\ UNCHANGED <<inc, reconnect, key, rx, reactor, told>>

\* The process is gone and its Peer with it.
Gone(e) ==
    /\ running' = [running EXCEPT ![e] = "down"]
    /\ state' = [state EXCEPT ![e] = "none"]
    /\ reconnect' = [reconnect EXCEPT ![e] = FALSE]
    /\ key' = [key EXCEPT ![e] = 0]
    /\ silent' = [silent EXCEPT ![e] = FALSE]
    /\ rx' = [rx EXCEPT ![e] = {}]
    /\ reactor' = [reactor EXCEPT ![e] = "idle"]
    /\ told' = [told EXCEPT ![e] = "none"]

\* stop(): the threads are joined, the process ends.
stop(e) ==
    /\ running[e] = "stopping" /\ rx[e] = {} /\ reactor[e] = "idle"
    /\ Gone(e)
    /\ UNCHANGED <<inc, wire, faults>>

Crash(e) ==
    /\ running[e] = "up" /\ faults < MaxFaults
    /\ faults' = faults + 1
    /\ Gone(e)
    /\ UNCHANGED <<inc, wire>>

\* A new process: new key pair, no peers.
start(e) ==
    /\ running[e] = "down"
    /\ running' = [running EXCEPT ![e] = "up"]
    /\ inc' = [inc EXCEPT ![e] = @ + 1]
    /\ UNCHANGED <<peerVars, rx, reactor, told, wire, faults>>
-----------------------------------------------------------------------------
(* Receiver thread *)

\* find_or_create_peer_by_addr: an unknown address gets a Peer in Handshake.
FindOrCreate(e) == state' = [state EXCEPT ![e] = IF @ = "none" THEN "Handshake" ELSE @]

\* receiver_loop takes a datagram.
receive(e, p) ==
    /\ PeersFree(e) /\ rx[e] = {}
    /\ p \in wire[e]
    /\ wire' = [wire EXCEPT ![e] = @ \ {p}]
    /\ rx' = [rx EXCEPT ![e] = {p}]
    /\ FindOrCreate(e)
    /\ UNCHANGED <<running, inc, reconnect, key, silent, reactor, told, faults>>

\* The handler sets m_state and tells the application (fire_peer_event).
Enter(e, s) ==
    /\ state' = [state EXCEPT ![e] = s]
    /\ told' = [told EXCEPT ![e] = s]

\* derive_session_key: the key shared with the process that sent p.
Derive(e, p) == key' = [key EXCEPT ![e] = p.inc]

\* handle_handshake of a packet with the right token: key, an answering
\* Handshake from an endpoint that did not connect(), and the HandshakeAck.
handle_handshake(e, p) ==
    /\ p.kind = "Handshake"
    /\ Derive(e, p)
    /\ send(e, {HandshakeAck(e)} \cup (IF reconnect[e] THEN {} ELSE {Handshake(e)}))
    /\ IF Linked(e) THEN UNCHANGED <<state, told>> ELSE Enter(e, "Established")

handle_handshake_ack(e, p) ==
    /\ p.kind = "HandshakeAck"
    /\ Derive(e, p)
    /\ IF state[e] \in {"Handshake", "Established"}
       THEN send(e, {Online}) /\ Enter(e, "Online")
       ELSE UNCHANGED <<wire, state, told>>

handle_online(e, p) ==
    /\ p.kind = "Online"
    /\ IF state[e] # "Online" THEN Enter(e, "Online") ELSE UNCHANGED <<state, told>>
    /\ UNCHANGED <<key, wire>>

handle_bye(e, p) ==
    /\ p.kind = "Bye"
    /\ IF state[e] # "Closed" THEN Enter(e, "Closed") ELSE UNCHANGED <<state, told>>
    /\ UNCHANGED <<key, wire>>

\* handle_packet once the peer is found: m_last_recv, then the handler, which
\* is one step: check_offline can come before it, not into it, because
\* m_last_recv is fresh.
handle_packet(e) ==
    /\ silent' = [silent EXCEPT ![e] = FALSE]
    /\ rx' = [rx EXCEPT ![e] = {}]
    /\ \E p \in rx[e] :
          \/ handle_handshake(e, p)
          \/ handle_handshake_ack(e, p)
          \/ handle_online(e, p)
          \/ handle_bye(e, p)
    /\ UNCHANGED <<running, inc, reconnect, reactor, faults>>

\* A heartbeat (send_heartbeats of the other endpoint, handle_heartbeat here)
\* or any other packet without a handler that touches the link.
heartbeat(e) ==
    /\ PeersFree(e) /\ rx[e] = {}
    /\ PeersFree(Other(e)) /\ Linked(Other(e))
    /\ silent' = [silent EXCEPT ![e] = FALSE]
    /\ FindOrCreate(e)
    /\ UNCHANGED <<running, inc, reconnect, key, rx, reactor, told, wire, faults>>
-----------------------------------------------------------------------------
(* Reactor thread *)

\* One of the periodic senders, when m_state asks for it.
Periodic(e, asked, p) ==
    /\ PeersFree(e) /\ asked
    /\ send(e, {p})
    /\ UNCHANGED <<running, inc, peerVars, rx, reactor, told, faults>>

send_handshakes(e) == Periodic(e, state[e] = "Handshake", Handshake(e))

\* Mutant: Online is announced until this end is Online, not for ever.
announce_established(e) == Periodic(e, state[e] = "Established", Online)

\* Mutant: Online is announced while still shaking hands.
announce_early(e) == Periodic(e, state[e] \notin {"none", "Closed"}, Online)

send_online_announcements(e) == Periodic(e, Linked(e), Online)

\* Mutant: only an Established peer is dropped.
check_offline_established(e) ==
    /\ PeersFree(e)
    /\ state[e] = "Established" /\ silent[e]
    /\ state' = [state EXCEPT ![e] = "Closed"]
    /\ silent' = [silent EXCEPT ![e] = FALSE]
    /\ reactor' = [reactor EXCEPT ![e] = "closed"]
    /\ UNCHANGED <<running, inc, reconnect, key, rx, told, wire, faults>>

\* check_offline, in three steps because it calls the application in the
\* middle: Closed, the PeerEvent, and Handshake if connect() was called.
check_offline(e) ==
    /\ PeersFree(e)
    /\ Linked(e) /\ silent[e]
    /\ state' = [state EXCEPT ![e] = "Closed"]
    /\ silent' = [silent EXCEPT ![e] = FALSE]
    /\ reactor' = [reactor EXCEPT ![e] = "closed"]
    /\ UNCHANGED <<running, inc, reconnect, key, rx, told, wire, faults>>

check_offline_fire(e) ==
    /\ Alive(e) /\ reactor[e] = "closed"
    /\ told' = [told EXCEPT ![e] = "Closed"]
    /\ reactor' = [reactor EXCEPT ![e] = IF reconnect[e] THEN "fired" ELSE "idle"]
    /\ UNCHANGED <<running, inc, peerVars, rx, wire, faults>>

check_offline_reconnect(e) ==
    /\ Alive(e) /\ reactor[e] = "fired"
    /\ state' = [state EXCEPT ![e] = "Handshake"]
    /\ silent' = [silent EXCEPT ![e] = FALSE]
    /\ reactor' = [reactor EXCEPT ![e] = "idle"]
    /\ UNCHANGED <<running, inc, reconnect, key, rx, told, wire, faults>>
-----------------------------------------------------------------------------
(* Environment *)

Lose(e, p) ==
    /\ p \in wire[e]
    /\ wire' = [wire EXCEPT ![e] = @ \ {p}]
    /\ UNCHANGED <<running, inc, peerVars, rx, reactor, told, faults>>

\* dead_timeout passes without a packet: the other endpoint is down ...
PeerSilent(e) ==
    /\ Linked(e) /\ ~silent[e]
    /\ running[Other(e)] = "down" /\ wire[e] = {}
    /\ silent' = [silent EXCEPT ![e] = TRUE]
    /\ UNCHANGED <<running, inc, state, reconnect, key, rx, reactor, told, wire, faults>>

\* ... or the network is.
Outage(e) ==
    /\ Linked(e) /\ ~silent[e] /\ faults < MaxFaults
    /\ silent' = [silent EXCEPT ![e] = TRUE]
    /\ faults' = faults + 1
    /\ UNCHANGED <<running, inc, state, reconnect, key, rx, reactor, told, wire>>
-----------------------------------------------------------------------------
Next ==
    \E e \in Ends :
        \/ connect(e) \/ send_byes(e) \/ stop(e) \/ Crash(e) \/ start(e)
        \/ \E p \in wire[e] : receive(e, p) \/ Lose(e, p)
        \/ handle_packet(e) \/ heartbeat(e)
        \/ send_handshakes(e) \/ send_online_announcements(e)
        \/ check_offline(e) \/ check_offline_fire(e) \/ check_offline_reconnect(e)
        \/ PeerSilent(e) \/ Outage(e)

Spec == Init /\ [][Next]_vars

\* The threads run, the application connects once, time passes, and of the
\* packets an endpoint is sent again and again some arrive.
FairSpec ==
    /\ Spec
    /\ \A e \in Ends :
        /\ SF_vars(connect(e) /\ ~reconnect[e])
        /\ WF_vars(stop(e))
        /\ WF_vars(handle_packet(e))
        /\ WF_vars(send_handshakes(e))
        /\ WF_vars(send_online_announcements(e))
        /\ WF_vars(check_offline(e) \/ check_offline_fire(e) \/ check_offline_reconnect(e))
        /\ WF_vars(PeerSilent(e))
        /\ SF_vars(\E p \in wire[e] : receive(e, p))
-----------------------------------------------------------------------------
(* Properties *)

\* Until a process restarts, neither end is Online before the one that did
\* not connect() has handled a Handshake and holds the key of the other:
\* whichever of Handshake, HandshakeAck and Online came first, was lost, or
\* came late after an outage.
AnswererIsKeyed ==
    /\ TypeOK
    /\ (/\ \A e \in Ends : running[e] = "up" /\ inc[e] = 1
        /\ \E e \in Ends : state[e] = "Online")
           => \A e \in Ends \ Connectors : key[e] = 1

StayUp == <>[](\A e \in Ends : running[e] = "up")

\* Once both processes stay up both ends become Online and stay so, whatever
\* was lost, closed or restarted before (the comment of
\* send_online_announcements: the states converge), and the application that
\* called connect() is told so last, although two threads report to it.
Converges ==
    StayUp => <>[](/\ \A e \in Ends : state[e] = "Online"
                   /\ \A e \in Connectors : told[e] = "Online")

Widowed(e, o) == running[e] = "up" /\ running[o] = "down"

\* An endpoint does not stay Online when the other process is gone
\* (check_offline), even if a packet of it is handled late.
DeadIsNoticed ==
    \A e \in Ends : (state[e] = "Online" /\ Widowed(e, Other(e)))
                        ~> (state[e] # "Online" \/ ~Widowed(e, Other(e)))

\* An endpoint is Online only after a handshake with the other (the state
\* diagrams of litemode/02_architecture.md and tight_architecture.md).
OnlineIsHandshaken == \A e \in Ends : state[e] = "Online" => key[e] # 0
=============================================================================
