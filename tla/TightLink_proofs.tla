-------------------------- MODULE TightLink_proofs --------------------------
(***************************************************************************)
(* Proofs about TightLink, for any number of faults and packets under way, *)
(* whichever of the ends connect() and may be stopped: type correctness,   *)
(* and that nobody is Online before the end that waits holds a key.        *)
(*                                                                         *)
(* The second part is about UdpEmulator, the link under it, for any number *)
(* of directions, rates, commands and any scenario: the latest change of   *)
(* the bandwidth is not missed, and the leads that two readings of the     *)
(* clock give the bandwidth's backlog over the link's do not add up.       *)
(***************************************************************************)
EXTENDS TightLink, UdpEmulator, FiniteSetTheorems, SequenceTheorems, TLAPS

\* No process was stopped or started again: byes and packets of an earlier
\* process do not exist yet.
Pristine == \A e \in Ends : running[e] = "up" /\ inc[e] = 1

\* Every new process is paid for by a fault.
Counted == \A e \in Ends : inc[e] + (IF running[e] = "up" THEN 0 ELSE 1) <= faults + 1

FirstHandshake == [kind |-> "Handshake", inc |-> 1]

OfFirstProcess(p) ==
    /\ p.kind \in {"Handshake", "HandshakeAck", "Online"}
    /\ p.kind # "Online" => p.inc = 1

PacketsOfFirst == \A e \in Ends : \A p \in wire[e] \cup rx[e] : OfFirstProcess(p)

\* The other end o has heard nothing of a, and a only a Handshake.
Unheard(a, o) ==
    /\ state[a] = "none" /\ rx[a] = {} /\ wire[a] \subseteq {FirstHandshake}
    /\ wire[o] = {} /\ rx[o] = {} /\ state[o] \in {"none", "Handshake"}

\* Before the end a that waits has its key: it has sent nothing but Handshakes, and
\* those only while the Handshake that will give it the key is being handled.
Waiting(a, o) ==
    /\ reactor[a] = "idle" /\ state[a] \in {"none", "Handshake"}
    /\ state[o] # "Online"
    /\ wire[o] \cup rx[o] \subseteq {FirstHandshake}
    /\ rx[a] = {FirstHandshake} \/ Unheard(a, o)

Unanswered == \A a \in Ends \ Connectors : key[a] # 1 => Waiting(a, Other(a))

\* The inductive invariant.
IInv ==
    /\ TypeOK
    /\ Counted
    /\ Pristine => PacketsOfFirst /\ Unanswered
-----------------------------------------------------------------------------
(* Lemmas about the operators *)

LEMMA OtherEnd ==
    ASSUME NEW e \in Ends
    PROVE  /\ Other(e) \in Ends /\ Other(e) # e /\ Other(Other(e)) = e
           /\ \A x \in Ends : x = e \/ x = Other(e)
<1>1. PICK a \in Ends, b \in Ends : a # b /\ Ends = {a, b}
  BY LinkConstants
<1>2. \A x \in Ends : Other(x) \in Ends /\ Other(x) # x
  BY <1>1 DEF Other
<1>3. QED
  BY <1>1, <1>2

\* What is sent goes to the other end and is some of P; what was under way stays.
LEMMA SendWire ==
    ASSUME TypeOK, NEW e \in Ends, NEW P \in SUBSET Packets, send(e, P)
    PROVE  /\ wire' \in [Ends -> SUBSET Packets]
           /\ wire'[e] = wire[e]
           /\ wire[Other(e)] \subseteq wire'[Other(e)]
           /\ \A p \in wire'[Other(e)] : p \in wire[Other(e)] \/ p \in P
<1>1. PICK Q \in SUBSET P : wire' = [wire EXCEPT ![Other(e)] = @ \cup Q]
  BY DEF send
<1>2. Other(e) \in Ends /\ Other(e) # e /\ wire \in [Ends -> SUBSET Packets]
  BY OtherEnd DEF TypeOK
<1>3. QED
  BY <1>1, <1>2

\* The packets an end sends.
LEMMA SentPackets ==
    ASSUME TypeOK, NEW e \in Ends
    PROVE  /\ Handshake(e) \in Packets /\ HandshakeAck(e) \in Packets
           /\ Online \in Packets /\ Bye \in Packets
BY DEF TypeOK, Packets, Handshake, HandshakeAck, Online, Bye

\* A packet with a key carries the incarnation of a process.
LEMMA PacketInc ==
    ASSUME NEW p \in Packets, p.kind \in {"Handshake", "HandshakeAck"}
    PROVE  p.inc \in Incs
BY DEF Packets
-----------------------------------------------------------------------------
(* Type correctness *)

LEMMA InitIInv == Init => IInv
<1> SUFFICES ASSUME Init PROVE IInv
  OBVIOUS
<1>1. MaxFaults \in Nat
  BY LinkConstants
<1>2. TypeOK
  BY <1>1 DEF Init, TypeOK, Incs, LinkStates
<1>3. Counted
  BY DEF Init, Counted
<1>4. PacketsOfFirst
  BY DEF Init, PacketsOfFirst
<1>5. Unanswered
  <2>1. \A a \in Ends : Other(a) \in Ends
    BY OtherEnd
  <2>2. QED
    BY <2>1 DEF Init, Unanswered, Waiting, Unheard
<1>6. QED
  BY <1>2, <1>3, <1>4, <1>5 DEF IInv

LEMMA TypeStep ==
    ASSUME TypeOK, Counted, [Next]_vars
    PROVE  TypeOK' /\ Counted'
<1> USE DEF TypeOK, Counted, peerVars
<1>0. MaxFaults \in Nat
  BY LinkConstants
<1>1. CASE UNCHANGED vars
  BY <1>1 DEF vars
<1>2. ASSUME NEW e \in Ends, connect(e) PROVE TypeOK' /\ Counted'
  <2>1. wire' \in [Ends -> SUBSET Packets]
    BY <1>2, SendWire, SentPackets DEF connect
  <2>2. /\ state' \in [Ends -> LinkStates \cup {"none"}]
        /\ \A x \in Ends : x # e => state'[x] = state[x]
        /\ reconnect' \in [Ends -> BOOLEAN] /\ silent' \in [Ends -> BOOLEAN]
    BY <1>2 DEF connect, LinkStates
  <2>3. key' \in [Ends -> 0 .. MaxFaults + 1]
    BY <1>0, <1>2 DEF connect
  <2>4. running[e] = "up" /\ UNCHANGED <<running, inc, rx, reactor, told, faults>>
    BY <1>2 DEF connect
  <2>5. QED
    BY <2>1, <2>2, <2>3, <2>4
<1>3. ASSUME NEW e \in Ends, send_byes(e) PROVE TypeOK' /\ Counted'
  <2>1. wire' \in [Ends -> SUBSET Packets]
    BY <1>3, SendWire, SentPackets DEF send_byes
  <2>2. /\ state' \in [Ends -> LinkStates \cup {"none"}]
        /\ \A x \in Ends : x # e => state'[x] = state[x]
    BY <1>3 DEF send_byes, LinkStates
  <2>3. /\ silent' \in [Ends -> BOOLEAN] /\ running' \in [Ends -> {"up", "stopping", "down"}]
        /\ \A x \in Ends : x # e => running'[x] = running[x]
        /\ running'[e] = "stopping" /\ faults' \in 0 .. MaxFaults
        /\ UNCHANGED <<inc, reconnect, key, rx, reactor, told>>
    BY <1>0, <1>3 DEF send_byes
  <2>4. TypeOK'
    BY <2>1, <2>2, <2>3
  <2>5. Counted'
    BY <1>0, <1>3 DEF send_byes, Incs
  <2>6. QED
    BY <2>4, <2>5
<1>4. ASSUME NEW e \in Ends, stop(e) PROVE TypeOK' /\ Counted'
  BY <1>0, <1>4 DEF stop, Gone
<1>5. ASSUME NEW e \in Ends, Crash(e) PROVE TypeOK' /\ Counted'
  <2>1. TypeOK'
    BY <1>0, <1>5 DEF Crash, Gone
  <2>2. Counted'
    BY <1>0, <1>5 DEF Crash, Gone, Incs
  <2>3. QED
    BY <2>1, <2>2
<1>6. ASSUME NEW e \in Ends, start(e) PROVE TypeOK' /\ Counted'
  BY <1>0, <1>6 DEF start, Incs
<1>7. ASSUME NEW e \in Ends, NEW p \in wire[e], receive(e, p) PROVE TypeOK' /\ Counted'
  BY <1>7 DEF receive, FindOrCreate, LinkStates, PeersFree, Alive
<1>8. ASSUME NEW e \in Ends, NEW p \in wire[e], Lose(e, p) PROVE TypeOK' /\ Counted'
  BY <1>8 DEF Lose
<1>9. ASSUME NEW e \in Ends, handle_packet(e) PROVE TypeOK' /\ Counted'
  <2>1. PICK p \in rx[e] : \/ handle_handshake(e, p) \/ handle_handshake_ack(e, p)
                           \/ handle_online(e, p) \/ handle_bye(e, p)
    BY <1>9 DEF handle_packet
  <2>2. p \in Packets /\ running[e] # "down"
    BY <2>1
  <2>3. wire' \in [Ends -> SUBSET Packets]
    BY <2>1, SendWire, SentPackets DEF handle_handshake, handle_handshake_ack, handle_online,
                                       handle_bye
  <2>4. key' \in [Ends -> 0 .. MaxFaults + 1]
    BY <1>0, <2>1, <2>2, PacketInc DEF handle_handshake, handle_handshake_ack, handle_online,
                                       handle_bye, Derive, Incs
  <2>5. /\ state' \in [Ends -> LinkStates \cup {"none"}] /\ told' \in [Ends -> LinkStates \cup {"none"}]
        /\ \A x \in Ends : x # e => state'[x] = state[x]
    BY <2>1 DEF handle_handshake, handle_handshake_ack, handle_online, handle_bye, Enter,
                LinkStates
  <2>6. /\ silent' \in [Ends -> BOOLEAN] /\ rx' \in [Ends -> SUBSET Packets]
        /\ \A x \in Ends : rx'[x] = {} \/ rx'[x] = rx[x]
        /\ UNCHANGED <<running, inc, reconnect, reactor, faults>>
    BY <1>9 DEF handle_packet
  <2>7. QED
    BY <2>2, <2>3, <2>4, <2>5, <2>6
<1>10. ASSUME NEW e \in Ends, heartbeat(e) PROVE TypeOK' /\ Counted'
  BY <1>10 DEF heartbeat, FindOrCreate, LinkStates, PeersFree, Alive
<1>11. ASSUME NEW e \in Ends, send_handshakes(e) \/ send_online_announcements(e)
       PROVE TypeOK' /\ Counted'
  <2>1. /\ send(e, {Handshake(e)}) \/ send(e, {Online})
        /\ UNCHANGED <<running, inc, peerVars, rx, reactor, told, faults>>
    BY <1>11 DEF send_handshakes, send_online_announcements, Periodic
  <2>2. Handshake(e) \in Packets /\ Online \in Packets
    BY SentPackets
  <2>3. wire' \in [Ends -> SUBSET Packets]
    BY <2>1, <2>2, SendWire
  <2>4. QED
    BY <2>1, <2>3
<1>12. ASSUME NEW e \in Ends, check_offline(e) PROVE TypeOK' /\ Counted'
  BY <1>12 DEF check_offline, LinkStates, PeersFree, Alive
<1>13. ASSUME NEW e \in Ends, check_offline_fire(e) PROVE TypeOK' /\ Counted'
  BY <1>13 DEF check_offline_fire, LinkStates, Alive
<1>14. ASSUME NEW e \in Ends, check_offline_reconnect(e) PROVE TypeOK' /\ Counted'
  BY <1>14 DEF check_offline_reconnect, LinkStates, Alive
<1>15. ASSUME NEW e \in Ends, PeerSilent(e) PROVE TypeOK' /\ Counted'
  BY <1>15 DEF PeerSilent
<1>16. ASSUME NEW e \in Ends, Outage(e) PROVE TypeOK' /\ Counted'
  <2>1. TypeOK'
    BY <1>0, <1>16 DEF Outage
  <2>2. Counted'
    BY <1>0, <1>16 DEF Outage, Incs
  <2>3. QED
    BY <2>1, <2>2
<1>17. QED
  BY <1>1, <1>2, <1>3, <1>4, <1>5, <1>6, <1>7, <1>8, <1>9, <1>10, <1>11, <1>12, <1>13,
     <1>14, <1>15, <1>16 DEF Next
-----------------------------------------------------------------------------
(* The first meeting of the two processes *)

\* A process that was stopped or started again stays so.
LEMMA PristineBefore ==
    ASSUME TypeOK, [Next]_vars, Pristine'
    PROVE  /\ Pristine
           /\ UNCHANGED vars \/ \E e \in Ends :
                \/ connect(e)
                \/ \E p \in wire[e] : receive(e, p) \/ Lose(e, p)
                \/ handle_packet(e) \/ heartbeat(e)
                \/ send_handshakes(e) \/ send_online_announcements(e)
                \/ check_offline(e) \/ check_offline_fire(e) \/ check_offline_reconnect(e)
                \/ PeerSilent(e) \/ Outage(e)
<1> USE DEF TypeOK, Pristine
<1>1. ASSUME NEW e \in Ends, send_byes(e) PROVE FALSE
  BY <1>1 DEF send_byes
<1>2. ASSUME NEW e \in Ends, stop(e) \/ Crash(e) PROVE FALSE
  BY <1>2 DEF stop, Crash, Gone
<1>3. ASSUME NEW e \in Ends, start(e) PROVE FALSE
  <2>1. inc'[e] = inc[e] + 1 /\ inc[e] \in Nat /\ inc[e] >= 1
    BY <1>3, LinkConstants DEF start, Incs
  <2>2. QED
    BY <2>1
<1>4. UNCHANGED <<running, inc>>
  BY <1>1, <1>2, <1>3 DEF Next, vars, peerVars, connect, receive, Lose, handle_packet,
     heartbeat, send_handshakes, send_online_announcements, Periodic, check_offline,
     check_offline_fire, check_offline_reconnect, PeerSilent, Outage
<1>5. QED
  BY <1>1, <1>2, <1>3, <1>4 DEF Next

LEMMA MeetingStep ==
    ASSUME TypeOK, TypeOK', Pristine, PacketsOfFirst, Unanswered, [Next]_vars, Pristine'
    PROVE  PacketsOfFirst' /\ Unanswered'
<1> DEFINE Goal == PacketsOfFirst' /\ Unanswered'
<1>0. \A e \in Ends : /\ Other(e) \in Ends /\ Other(e) # e /\ Other(Other(e)) = e
                      /\ \A x \in Ends : x = e \/ x = Other(e)
  BY OtherEnd
<1>1. ASSUME NEW e \in Ends
      PROVE  /\ Handshake(e) = FirstHandshake /\ OfFirstProcess(FirstHandshake)
             /\ OfFirstProcess(HandshakeAck(e)) /\ OfFirstProcess(Online)
             /\ FirstHandshake.kind = "Handshake" /\ FirstHandshake.inc = 1
  BY DEF Pristine, Handshake, HandshakeAck, Online, FirstHandshake, OfFirstProcess
<1>2. CASE UNCHANGED vars
  BY <1>2 DEF vars, peerVars, PacketsOfFirst, Unanswered, Waiting, Unheard
<1>3. ASSUME NEW e \in Ends, connect(e) PROVE Goal
  <2>1. /\ wire'[e] = wire[e]
        /\ \A p \in wire'[Other(e)] : p \in wire[Other(e)] \/ p = FirstHandshake
    BY <1>1, <1>3, SendWire, SentPackets DEF connect
  <2>2. PacketsOfFirst'
    BY <1>0, <1>1, <1>3, <2>1 DEF PacketsOfFirst, connect
  <2>3. Unanswered'
    <3>1. SUFFICES ASSUME NEW a \in Ends \ Connectors, key'[a] # 1
                   PROVE  Waiting(a, Other(a))'
      BY DEF Unanswered
    <3>2. e = Other(a) /\ Other(e) = a
      BY <1>0, <1>3 DEF connect
    <3>3. /\ key'[a] = key[a] /\ state'[a] = state[a] /\ state'[e] = "Handshake"
          /\ UNCHANGED <<rx, reactor>>
      BY <1>0, <1>3, <3>2 DEF connect, TypeOK
    <3>4. Waiting(a, e)
      BY <3>1, <3>2, <3>3 DEF Unanswered
    <3>5. QED
      BY <2>1, <3>2, <3>3, <3>4 DEF Waiting, Unheard
  <2>4. QED
    BY <2>2, <2>3
<1>4. ASSUME NEW e \in Ends, NEW p \in wire[e], receive(e, p) PROVE Goal
  <2>1. /\ wire'[e] = wire[e] \ {p} /\ rx'[e] = {p} /\ rx[e] = {}
        /\ \A x \in Ends : x # e => wire'[x] = wire[x] /\ rx'[x] = rx[x] /\ state'[x] = state[x]
        /\ state'[e] = (IF state[e] = "none" THEN "Handshake" ELSE state[e])
        /\ UNCHANGED <<key, reactor>>
    BY <1>4 DEF receive, FindOrCreate, TypeOK
  <2>2. PacketsOfFirst'
    BY <2>1 DEF PacketsOfFirst
  <2>3. Unanswered'
    <3>1. SUFFICES ASSUME NEW a \in Ends \ Connectors, key'[a] # 1
                   PROVE  Waiting(a, Other(a))'
      BY DEF Unanswered
    <3>2. Waiting(a, Other(a))
      BY <2>1, <3>1 DEF Unanswered
    <3>3. CASE e = a
      BY <1>0, <2>1, <3>2, <3>3 DEF Waiting, Unheard
    <3>4. CASE e = Other(a)
      BY <1>0, <2>1, <3>2, <3>4 DEF Waiting, Unheard
    <3>5. QED
      BY <1>0, <3>3, <3>4
  <2>4. QED
    BY <2>2, <2>3
<1>5. ASSUME NEW e \in Ends, NEW p \in wire[e], Lose(e, p) PROVE Goal
  <2>1. /\ \A x \in Ends : wire'[x] \subseteq wire[x]
        /\ UNCHANGED <<state, key, rx, reactor>>
    BY <1>5 DEF Lose, peerVars, TypeOK
  <2>2. PacketsOfFirst'
    BY <2>1 DEF PacketsOfFirst
  <2>3. Unanswered'
    BY <1>0, <2>1 DEF Unanswered, Waiting, Unheard
  <2>4. QED
    BY <2>2, <2>3
<1>6. ASSUME NEW e \in Ends, handle_packet(e) PROVE Goal
  <2>1. PICK p \in rx[e] : \/ handle_handshake(e, p) \/ handle_handshake_ack(e, p)
                           \/ handle_online(e, p) \/ handle_bye(e, p)
    BY <1>6 DEF handle_packet
  <2>2. /\ rx'[e] = {} /\ \A x \in Ends : x # e => rx'[x] = rx[x]
        /\ UNCHANGED reactor
    BY <1>6 DEF handle_packet, TypeOK
  <2>3. /\ wire'[e] = wire[e]
        /\ \A q \in wire'[Other(e)] : q \in wire[Other(e)] \/ OfFirstProcess(q)
    <3>1. CASE handle_handshake(e, p)
      <4>1. {HandshakeAck(e)} \cup (IF reconnect[e] THEN {} ELSE {Handshake(e)}) \in SUBSET Packets
        BY SentPackets
      <4>2. QED
        BY <1>1, <3>1, <4>1, SendWire DEF handle_handshake
    <3>2. CASE handle_handshake_ack(e, p)
      BY <1>1, <3>2, SendWire, SentPackets DEF handle_handshake_ack
    <3>3. QED
      BY <2>1, <3>1, <3>2 DEF handle_online, handle_bye
  <2>4. PacketsOfFirst'
    BY <1>0, <2>2, <2>3 DEF PacketsOfFirst
  <2>5. Unanswered'
    <3>1. SUFFICES ASSUME NEW a \in Ends \ Connectors, key'[a] # 1
                   PROVE  Waiting(a, Other(a))'
      BY DEF Unanswered
    <3>2. \A x \in Ends : x # e => key'[x] = key[x] /\ state'[x] = state[x]
      BY <2>1 DEF handle_handshake, handle_handshake_ack, handle_online, handle_bye, Enter,
                  Derive, TypeOK
    <3>3. CASE e = a
      <4>1. p \in {FirstHandshake} => key'[a] = 1
        BY <1>1, <2>1, <3>3 DEF handle_handshake, handle_handshake_ack, handle_online,
                                handle_bye, Derive, TypeOK
      <4>2. key[a] # 1
        <5>1. OfFirstProcess(p)
          BY <2>1 DEF PacketsOfFirst
        <5>2. QED
          BY <2>1, <3>1, <3>3, <5>1 DEF OfFirstProcess, handle_handshake, handle_handshake_ack,
                handle_online, handle_bye, Derive, TypeOK
      <4>3. Waiting(a, Other(a))
        BY <4>2 DEF Unanswered
      <4>4. QED
        BY <2>1, <3>1, <3>3, <4>1, <4>3 DEF Waiting, Unheard
    <3>4. CASE e = Other(a)
      <4>1. Waiting(a, Other(a))
        BY <1>0, <3>1, <3>2, <3>4 DEF Unanswered
      <4>2. p = FirstHandshake /\ rx[a] = {FirstHandshake}
        BY <2>1, <3>4, <4>1 DEF Waiting, Unheard
      <4>3. handle_handshake(e, p)
        BY <1>1, <2>1, <4>2 DEF handle_handshake_ack, handle_online, handle_bye
      <4>4. state'[e] # "Online"
        BY <3>4, <4>1, <4>3 DEF handle_handshake, Enter, Waiting, TypeOK
      <4>5. QED
        BY <1>0, <2>2, <2>3, <3>2, <3>4, <4>1, <4>2, <4>4 DEF Waiting
    <3>5. QED
      BY <1>0, <3>3, <3>4
  <2>6. QED
    BY <2>4, <2>5
<1>7. ASSUME NEW e \in Ends, heartbeat(e) PROVE Goal
  <2>1. /\ rx[e] = {} /\ Linked(Other(e)) /\ UNCHANGED <<key, rx, reactor, wire>>
        /\ \A x \in Ends : x # e => state'[x] = state[x]
        /\ state'[e] # "Online" \/ state[e] = "Online"
    BY <1>7 DEF heartbeat, FindOrCreate, TypeOK
  <2>2. PacketsOfFirst'
    BY <2>1 DEF PacketsOfFirst
  <2>3. Unanswered'
    <3>1. SUFFICES ASSUME NEW a \in Ends \ Connectors, key'[a] # 1
                   PROVE  Waiting(a, Other(a))'
      BY DEF Unanswered
    <3>2. Waiting(a, Other(a))
      BY <2>1, <3>1 DEF Unanswered
    <3>3. e # a
      BY <2>1, <3>2 DEF Waiting, Unheard, Linked
    <3>4. e # Other(a)
      BY <1>0, <2>1, <3>2 DEF Waiting, Linked
    <3>5. QED
      BY <1>0, <3>3, <3>4
  <2>4. QED
    BY <2>2, <2>3
<1>8. ASSUME NEW e \in Ends, send_handshakes(e) \/ send_online_announcements(e) PROVE Goal
  <2>1. UNCHANGED <<state, key, rx, reactor>>
    BY <1>8 DEF send_handshakes, send_online_announcements, Periodic, peerVars
  <2>2. /\ wire'[e] = wire[e]
        /\ \A q \in wire'[Other(e)] :
             \/ q \in wire[Other(e)]
             \/ q = FirstHandshake /\ state[e] = "Handshake"
             \/ q = Online /\ Linked(e)
    BY <1>1, <1>8, SendWire, SentPackets DEF send_handshakes, send_online_announcements, Periodic
  <2>3. PacketsOfFirst'
    BY <1>0, <1>1, <2>1, <2>2 DEF PacketsOfFirst
  <2>4. Unanswered'
    <3>1. SUFFICES ASSUME NEW a \in Ends \ Connectors, key'[a] # 1
                   PROVE  Waiting(a, Other(a))'
      BY DEF Unanswered
    <3>2. Waiting(a, Other(a))
      BY <2>1, <3>1 DEF Unanswered
    <3>3. CASE e = a
      BY <1>0, <2>1, <2>2, <3>2, <3>3 DEF Waiting, Unheard, Linked
    <3>4. CASE e = Other(a)
      BY <1>0, <2>1, <2>2, <3>2, <3>4 DEF Waiting, Unheard, Linked
    <3>5. QED
      BY <1>0, <3>3, <3>4
  <2>5. QED
    BY <2>3, <2>4
<1>9. ASSUME NEW e \in Ends,
             check_offline(e) \/ check_offline_fire(e) \/ check_offline_reconnect(e)
      PROVE  Goal
  <2>1. /\ UNCHANGED <<key, rx, wire>>
        /\ \A x \in Ends : x # e => state'[x] = state[x] /\ reactor'[x] = reactor[x]
        /\ state'[e] = state[e] \/ state'[e] = "Handshake" \/ (Linked(e) /\ state'[e] = "Closed")
        /\ Linked(e) \/ reactor[e] # "idle"
    BY <1>9 DEF check_offline, check_offline_fire, check_offline_reconnect, peerVars, TypeOK
  <2>2. PacketsOfFirst'
    BY <2>1 DEF PacketsOfFirst
  <2>3. Unanswered'
    <3>1. SUFFICES ASSUME NEW a \in Ends \ Connectors, key'[a] # 1
                   PROVE  Waiting(a, Other(a))'
      BY DEF Unanswered
    <3>2. Waiting(a, Other(a))
      BY <2>1, <3>1 DEF Unanswered
    <3>3. e # a
      BY <2>1, <3>2 DEF Waiting, Linked
    <3>4. e = Other(a)
      BY <1>0, <3>3
    <3>5. QED
      BY <1>0, <2>1, <3>2, <3>4 DEF Waiting, Unheard, Linked
  <2>4. QED
    BY <2>2, <2>3
<1>10. ASSUME NEW e \in Ends, PeerSilent(e) \/ Outage(e) PROVE Goal
  <2>1. UNCHANGED <<state, key, rx, reactor, wire>>
    BY <1>10 DEF PeerSilent, Outage
  <2>2. QED
    BY <2>1 DEF PacketsOfFirst, Unanswered, Waiting, Unheard
<1>11. QED
  BY <1>2, <1>3, <1>4, <1>5, <1>6, <1>7, <1>8, <1>9, <1>10, PristineBefore
-----------------------------------------------------------------------------
LEMMA Inductive == Spec => []IInv
<1>1. IInv /\ [Next]_vars => IInv'
  <2> SUFFICES ASSUME IInv, [Next]_vars PROVE IInv'
    OBVIOUS
  <2>1. TypeOK' /\ Counted'
    BY TypeStep DEF IInv
  <2>2. ASSUME Pristine' PROVE PacketsOfFirst' /\ Unanswered'
    BY <2>1, <2>2, PristineBefore, MeetingStep DEF IInv
  <2>3. QED
    BY <2>1, <2>2 DEF IInv
<1>2. QED
  BY InitIInv, <1>1, PTL DEF Spec

\* Until a process restarts, neither end is Online before the end that did not connect()
\* holds the key of the other, however often packets are lost, delayed or sent again.
THEOREM AnswererKeyed == Spec => []AnswererIsKeyed
<1>1. IInv => AnswererIsKeyed
  <2> SUFFICES ASSUME IInv, Pristine, NEW e \in Ends, state[e] = "Online",
                      NEW a \in Ends \ Connectors
               PROVE  key[a] = 1
    BY DEF IInv, AnswererIsKeyed, Pristine
  <2>1. e = a \/ e = Other(a)
    BY OtherEnd
  <2>2. QED
    BY <2>1 DEF IInv, Unanswered, Waiting
<1>2. QED
  BY Inductive, <1>1, PTL
-----------------------------------------------------------------------------
(* The emulated link (UdpEmulator) *)

\* What a direction's reschedule will still have to use.
Announced(d) == flag[d] \/ \E i \in 1..Len(mark) : mark[i] = <<d, TRUE>>

\* The receiving thread is at a reschedule of direction d.
Rescheduling(d) == recv.dir = d /\ recv.at \in 1..Apply

\* The stores of a change.
FieldNames == {"was", "now", "before", "after"}
FlagStore == {<<d, TRUE>> : d \in Dirs}
Pairs(f, V) == {<<f, v>> : v \in V}
Store == Pairs("was", BOOLEAN) \cup Pairs("now", BOOLEAN)
         \cup Pairs("before", Rates \cup {0}) \cup Pairs("after", Rates \cup {0}) \cup FlagStore

Schedules == [on : BOOLEAN, low : Rates \cup {0}, normal : Rates \cup {0}, now : BOOLEAN, over : BOOLEAN]

EmulatorTypes ==
    /\ cfg \in Config
    /\ stall \in Schedules
    /\ scen \in 0..Len(Script)
    /\ stored \in Stored
    /\ recv \in [at : 0..6, dir : Dirs, got : Stored]
    /\ flag \in [Dirs -> BOOLEAN] /\ applied \in [Dirs -> BOOLEAN]
    /\ mark \in Seq(Store)

\* The flags are stored last.
FlagsFollow ==
    \A i \in 1..Len(mark) :
        mark[i][1] \in FieldNames => \A d \in Dirs : \E j \in i + 1..Len(mark) : mark[j] = <<d, TRUE>>

\* A direction that has not used what is stored was told, will be, or is at it.
Owed == \A d \in Dirs : ~applied[d] => Announced(d) \/ Rescheduling(d)

\* What a reschedule has loaded is still stored, or the change is announced.
LoadedIsStored ==
    recv.at \in 1..Apply =>
        \/ Announced(recv.dir)
        \/ \A k \in 1..recv.at - 1 : recv.got[Fields[k]] = stored[Fields[k]]

\* The inductive invariant.
EmulatorInv == EmulatorTypes /\ FlagsFollow /\ Owed /\ LoadedIsStored

\* SetToSeq lists every member of a set, and nothing else.
LEMMA SetToSeqAll ==
    ASSUME NEW S, IsFiniteSet(S)
    PROVE  /\ SetToSeq(S) \in Seq(S)
           /\ \A x \in S : \E i \in 1..Len(SetToSeq(S)) : SetToSeq(S)[i] = x
  <1> DEFINE n == Cardinality(S)
             q == SetToSeq(S)
  <1>1. n \in Nat /\ ExistsBijection(1..n, S)
    BY FS_CardinalityType
  <1>2. \E f \in [1..n -> S] : IsInjective(f)
    BY <1>1 DEF ExistsBijection, Bijection, Injection
  <1>3. q \in [1..n -> S] /\ IsInjective(q)
    BY <1>2 DEF SetToSeq
  <1>4. q \in Injection(1..n, S)
    BY <1>3 DEF Injection
  <1>5. Cardinality(1..n) = n
    BY <1>1, FS_Interval
  <1>6. q \in Surjection(1..n, S)
    BY <1>4, <1>5, FS_Injection
  <1>7. \A x \in S : \E i \in 1..n : q[i] = x
    BY <1>6 DEF Surjection
  <1>8. q \in Seq(S) /\ Len(q) = n
    BY <1>1, <1>3
  <1> QED BY <1>7, <1>8

\* The flags' stores raise the flag of every direction.
LEMMA FlagStores ==
    /\ SetToSeq(FlagStore) \in Seq(FlagStore)
    /\ \A d \in Dirs : \E i \in 1..Len(SetToSeq(FlagStore)) : SetToSeq(FlagStore)[i] = <<d, TRUE>>
  <1>1. IsFiniteSet({<<"fwd", TRUE>>} \cup {<<"rev", TRUE>>})
    <2>1. IsFiniteSet({<<"fwd", TRUE>>})
      BY FS_Singleton
    <2> QED BY <2>1, FS_AddElement
  <1>2. FlagStore \in SUBSET ({<<"fwd", TRUE>>} \cup {<<"rev", TRUE>>})
    BY EmulatorAssumption DEF FlagStore
  <1>3. IsFiniteSet(FlagStore)
    BY <1>1, <1>2, FS_Subset
  <1>4. /\ SetToSeq(FlagStore) \in Seq(FlagStore)
        /\ \A x \in FlagStore : \E i \in 1..Len(SetToSeq(FlagStore)) : SetToSeq(FlagStore)[i] = x
    BY <1>3, SetToSeqAll
  <1>5. \A d \in Dirs : <<d, TRUE>> \in FlagStore
    BY DEF FlagStore
  <1> QED BY <1>4, <1>5

\* The stores of one change: every field's is followed by the flag of each direction.
LEMMA StoresFollow ==
    ASSUME NEW b \in Rates \cup {0}, NEW c \in Config, NEW a \in Rates \cup {0}
    PROVE  /\ Stores(b, c, a) \in Seq(Store)
           /\ \A i \in 1..Len(Stores(b, c, a)) :
                 Stores(b, c, a)[i][1] \in FieldNames =>
                     \A d \in Dirs : \E j \in i + 1..Len(Stores(b, c, a)) : Stores(b, c, a)[j] = <<d, TRUE>>
  <1>1. PICK v \in BOOLEAN : v = (b > 0)
    <2>1. CASE b > 0
      <3>1. TRUE = (b > 0)
        BY <2>1
      <3> QED BY <3>1, Zenon
    <2>2. CASE ~(b > 0)
      <3>1. FALSE = (b > 0)
        BY <2>2
      <3> QED BY <3>1, Zenon
    <2> QED BY <2>1, <2>2, Zenon
  <1>2. PICK w \in BOOLEAN : w = c.on
    BY DEF Config
  <1>3. PICK x \in Rates \cup {0} : x = IF b > 0 THEN b ELSE 1
    BY EmulatorAssumption
  <1>4. PICK y \in Rates \cup {0} : y = IF c.on THEN a ELSE 1
    BY EmulatorAssumption
  <1>5. PICK q : q = SetToSeq(FlagStore)
    OBVIOUS
  <1>6. q \in Seq(FlagStore) /\ \A d \in Dirs : \E i \in 1..Len(q) : q[i] = <<d, TRUE>>
    BY <1>5, FlagStores
  <1>7. PICK h : h = <<<<"was", v>>, <<"now", w>>, <<"before", x>>, <<"after", y>>>>
    OBVIOUS
  <1>8. PICK m : m = h \o q
    OBVIOUS
  <1>9. Stores(b, c, a) = m
    BY Zenon, <1>1, <1>2, <1>3, <1>4, <1>5, <1>7, <1>8 DEF Stores, FlagStore
  <1>10. <<"was", v>> \in Store /\ <<"now", w>> \in Store
    BY DEF Store, Pairs
  <1>11. <<"before", x>> \in Store /\ <<"after", y>> \in Store
    BY DEF Store, Pairs
  <1>12. h \in Seq(Store) /\ Len(h) = 4
    <2> DEFINE w1 == <<"was", v>>  w2 == <<"now", w>>  w3 == <<"before", x>>  w4 == <<"after", y>>
    <2>1. w1 \in Store /\ w2 \in Store /\ w3 \in Store /\ w4 \in Store /\ h = <<w1, w2, w3, w4>>
      BY <1>7, <1>10, <1>11
    <2> HIDE DEF w1, w2, w3, w4
    <2> QED BY <2>1
  <1>13. q \in Seq(Store)
    <2>1. FlagStore \subseteq Store
      BY DEF Store
    <2> QED BY <2>1, <1>6
  <1>14. m \in Seq(Store) /\ Len(m) = 4 + Len(q) /\ Len(q) \in Nat
    <2>1. h \o q \in Seq(Store) /\ Len(h \o q) = Len(h) + Len(q)
      BY <1>12, <1>13, ConcatProperties, Zenon
    <2>2. Len(q) \in Nat
      BY <1>13
    <2> QED BY <2>1, <2>2, <1>8, <1>12
  <1>15. \A i \in 1..Len(q) : m[i + 4] = q[i]
    BY <1>8, <1>12, <1>13, <1>14, ConcatProperties
  <1>16. \A i \in 5..Len(m) : m[i][1] \notin FieldNames
    <2> SUFFICES ASSUME NEW i \in 5..Len(m)
                 PROVE  m[i][1] \notin FieldNames
      OBVIOUS
    <2>1. i - 4 \in 1..Len(q) /\ m[i - 4 + 4] = q[i - 4] /\ i - 4 + 4 = i
      BY <1>14, <1>15
    <2>2. q[i - 4] \in FlagStore
      BY <2>1, <1>6
    <2>3. PICK d \in Dirs : m[i] = <<d, TRUE>>
      BY <2>1, <2>2 DEF FlagStore
    <2>4. m[i][1] = d
      BY <2>3
    <2> QED BY <2>4, EmulatorAssumption DEF FieldNames
  <1>17. \A i \in 1..4, d \in Dirs : \E j \in i + 1..Len(m) : m[j] = <<d, TRUE>>
    <2> SUFFICES ASSUME NEW i \in 1..4, NEW d \in Dirs
                 PROVE  \E j \in i + 1..Len(m) : m[j] = <<d, TRUE>>
      OBVIOUS
    <2>1. PICK k \in 1..Len(q) : q[k] = <<d, TRUE>>
      BY <1>6
    <2>2. k + 4 \in i + 1..Len(m)
      BY <1>14
    <2> QED BY <2>1, <2>2, <1>15
  <1>18. \A i \in 1..Len(m) : i \in 1..4 \/ i \in 5..Len(m)
    BY <1>14
  <1> QED BY <1>9, <1>14, <1>16, <1>17, <1>18

\* What process() reads as the bandwidth is a rate of the script or 0.
LEMMA BandwidthIsRate ==
    ASSUME NEW c \in Config
    PROVE  Bandwidth(c) \subseteq Rates \cup {0}
  BY DEF Bandwidth, Config

\* The rate that RestoreDefaults gives a direction is one of the rates.
LEMMA DefaultIsRate == DefaultRate \in Rates
  BY EmulatorAssumption DEF DefaultRate

\* A pair is equal to another when its parts are.
LEMMA PairOf ==
    ASSUME NEW A, NEW B, NEW c \in A \X B
    PROVE  \E f \in A, r \in B : c = <<f, r>>
  OBVIOUS

\* What a command of the controller leaves of the configuration.
LEMMA CommandedTypes ==
    ASSUME EmulatorTypes, NEW c \in Understood
    PROVE  Commanded(c)[1] \in Config /\ Commanded(c)[2] \in Schedules
  <1> USE DEF EmulatorTypes
  <1>1. ASSUME NEW f \in {"bw", "bw-min", "bw-max", "stall"}, NEW r \in Rates \cup {0}, c = <<f, r>>
        PROVE  Commanded(c)[1] \in Config /\ Commanded(c)[2] \in Schedules
    <2>1. r > 0 \/ ~(r > 0)
      OBVIOUS
    <2>2. CASE f = "bw"
      <3>1. /\ Commanded(c)[2] = stall
            /\ Commanded(c)[1] = [cfg EXCEPT !.on = r > 0, !.min = IF r > 0 THEN r ELSE @, !.max = IF r > 0 THEN r ELSE @]
        BY <1>1, <2>2 DEF Commanded
      <3>2. CASE r > 0
        <4>1. (r > 0) = TRUE
          BY <3>2
        <4>2. Commanded(c)[1] = [cfg EXCEPT !.on = TRUE, !.min = r, !.max = r]
          BY <3>1, <3>2, <4>1, Zenon
        <4> QED BY <3>1, <4>2 DEF Config
      <3>3. CASE ~(r > 0)
        <4>1. (r > 0) = FALSE
          BY <3>3
        <4>2. Commanded(c)[1] = [cfg EXCEPT !.on = FALSE, !.min = @, !.max = @]
          BY <3>1, <3>3, <4>1, Zenon
        <4> QED BY <3>1, <4>2 DEF Config
      <3> QED BY <3>2, <3>3
    <2>3. CASE f = "bw-min"
      BY <1>1, <2>3 DEF Commanded, Config
    <2>4. CASE f = "bw-max"
      BY <1>1, <2>4 DEF Commanded, Config
    <2>5. CASE f = "stall"
      <3>1. Commanded(c) = Stall(r)
        BY <1>1, <2>5 DEF Commanded
      <3>2. Stall(r)[1] \in Config
        BY DEF Stall, Config
      <3>3. (IF cfg.max > 0 THEN cfg.max ELSE DefaultRate) \in Rates \cup {0}
        BY DefaultIsRate DEF Config
      <3>4. Stall(r)[2] \in Schedules
        BY <3>3 DEF Stall, Schedules
      <3> QED BY <3>1, <3>2, <3>4
    <2> QED BY <2>2, <2>3, <2>4, <2>5
  <1>2. ASSUME NEW mix \in SUBSET Disturbances, c = <<"mix", mix>>
        PROVE  Commanded(c)[1] \in Config /\ Commanded(c)[2] \in Schedules
    BY <1>2 DEF Commanded, Config
  <1>3. CASE c = <<"wave off">>
    BY <1>3 DEF Commanded, Config
  <1>4. CASE c = <<"stall off">>
    <2>1. Commanded(c) = StallOff
      BY <1>4 DEF Commanded
    <2>2. StallOff[1] \in Config /\ StallOff[2] \in Schedules
      BY DEF StallOff, Config, NoStall, Schedules
    <2> QED BY <2>1, <2>2
  <1>5. CASE c = <<"reset">>
    BY <1>5 DEF Commanded, Config
  <1>6. CASE c \in {"bw", "bw-min", "bw-max", "stall"} \X (Rates \cup {0})
    BY <1>1, <1>6, PairOf
  <1>7. CASE c \in {"mix"} \X SUBSET Disturbances
    BY <1>2, <1>7, PairOf
  <1> QED BY <1>3, <1>4, <1>5, <1>6, <1>7 DEF Understood

\* A critical section leaves stores of which the flags' come last.
LEMMA ReconfigureMarks ==
    ASSUME EmulatorTypes, NEW new \in Config, NEW touched \in BOOLEAN, Reconfigure(new, touched)
    PROVE  cfg' \in Config /\ mark' \in Seq(Store) /\ FlagsFollow'
  <1>1. cfg' = new
    BY DEF Reconfigure
  <1>2. PICK b \in (IF cfg.on THEN Bandwidth(cfg) ELSE {0}), a \in (IF new.on THEN Bandwidth(new) ELSE {0}) :
            mark' = IF touched THEN Stores(b, new, a) ELSE <<>>
    BY DEF Reconfigure
  <1>3. b \in Rates \cup {0} /\ a \in Rates \cup {0}
    BY BandwidthIsRate DEF EmulatorTypes
  <1>4. /\ Stores(b, new, a) \in Seq(Store)
        /\ \A i \in 1..Len(Stores(b, new, a)) :
              Stores(b, new, a)[i][1] \in FieldNames =>
                  \A d \in Dirs : \E j \in i + 1..Len(Stores(b, new, a)) : Stores(b, new, a)[j] = <<d, TRUE>>
    BY <1>3, StoresFollow
  <1>5. CASE touched
    <2>1. mark' = Stores(b, new, a)
      BY <1>2, <1>5
    <2> QED BY <1>1, <1>4, <2>1 DEF FlagsFollow
  <1>6. CASE ~touched
    <2>1. mark' = <<>>
      BY <1>2, <1>6
    <2> QED BY <1>1, <2>1 DEF FlagsFollow
  <1> QED BY <1>5, <1>6

\* A critical section that changes the configuration keeps the invariant, when its stores follow.
LEMMA ConfigStep ==
    ASSUME EmulatorInv, NEW new \in Config, NEW touched \in BOOLEAN, Reconfigure(new, touched),
           stall' \in Schedules, scen' \in 0..Len(Script), UNCHANGED <<stored, flag, applied, recv>>
    PROVE  EmulatorInv'
  <1>1. EmulatorTypes /\ Owed /\ LoadedIsStored
    BY DEF EmulatorInv
  <1>2. cfg' \in Config /\ mark' \in Seq(Store) /\ FlagsFollow'
    BY <1>1, ReconfigureMarks
  <1>3. EmulatorTypes'
    BY <1>1, <1>2 DEF EmulatorTypes
  <1>4. mark = <<>>
    BY DEF Reconfigure, Unlocked
  <1>5. \A d \in Dirs : Announced(d) => Announced(d)'
    <2>1. \A i \in 1..Len(mark) : FALSE
      BY <1>4
    <2> QED BY <2>1 DEF Announced
  <1>6. Owed'
    BY <1>1, <1>5 DEF Owed, Rescheduling
  <1>7. LoadedIsStored'
    BY <1>1, <1>5 DEF LoadedIsStored, EmulatorTypes
  <1> QED BY <1>2, <1>3, <1>6, <1>7 DEF EmulatorInv

\* A step that leaves the change alone keeps the invariant, and may end a datagram's schedule.
LEMMA QuietLink ==
    ASSUME EmulatorInv, UNCHANGED <<stored, flag, mark, applied, cfg, scen>>, stall' \in Schedules,
           recv' = recv \/ (recv.at = Schedule /\ recv' = [recv EXCEPT !.at = Idle])
    PROVE  EmulatorInv'
  <1>1. EmulatorTypes /\ FlagsFollow /\ Owed /\ LoadedIsStored
    BY DEF EmulatorInv
  <1>2. /\ recv'.at \in 1..Apply => recv' = recv
        /\ \A d \in Dirs : Rescheduling(d)' <=> Rescheduling(d)
        /\ recv' \in [at : 0..6, dir : Dirs, got : Stored]
    BY <1>1 DEF Rescheduling, EmulatorTypes, Apply, Schedule, Idle
  <1>3. EmulatorTypes' /\ FlagsFollow'
    BY <1>1, <1>2 DEF EmulatorTypes, FlagsFollow
  <1>4. \A d \in Dirs : Announced(d)' <=> Announced(d)
    BY DEF Announced
  <1>5. Owed'
    BY <1>1, <1>2, <1>4 DEF Owed
  <1>6. LoadedIsStored'
    BY <1>1, <1>2, <1>4 DEF LoadedIsStored, EmulatorTypes
  <1> QED BY <1>3, <1>5, <1>6 DEF EmulatorInv

\* What is left of a change after its first store.
LEMMA TailStores ==
    ASSUME NEW m \in Seq(Store), m # <<>>
    PROVE  /\ Tail(m) \in Seq(Store) /\ Len(Tail(m)) = Len(m) - 1 /\ Len(m) \in Nat \ {0}
           /\ Head(m) = m[1] /\ m[1] \in Store
           /\ \A i \in 1..Len(Tail(m)) : Tail(m)[i] = m[i + 1]
  OBVIOUS

\* The store at the head of a change is of a field of the change or of a direction's flag.
LEMMA StoreCases ==
    ASSUME NEW x \in Store
    PROVE  \/ x[1] \in {"was", "now"} /\ x[2] \in BOOLEAN
           \/ x[1] \in {"before", "after"} /\ x[2] \in Rates \cup {0}
           \/ x[1] \in Dirs /\ x[2] = TRUE
  <1>1. ASSUME NEW f \in {"was", "now"}, NEW v \in BOOLEAN, x = <<f, v>>
        PROVE  x[1] \in {"was", "now"} /\ x[2] \in BOOLEAN
    <2>1. x[1] = f
      BY <1>1
    <2>2. x[2] = v
      BY <1>1
    <2> QED BY <2>1, <2>2, Zenon
  <1>2. ASSUME NEW f \in {"before", "after"}, NEW r \in Rates \cup {0}, x = <<f, r>>
        PROVE  x[1] \in {"before", "after"} /\ x[2] \in Rates \cup {0}
    BY <1>2
  <1>3. ASSUME NEW d \in Dirs, x = <<d, TRUE>>
        PROVE  x[1] \in Dirs /\ x[2] = TRUE
    BY <1>3
  <1>4. \/ \E f \in {"was", "now"}, v \in BOOLEAN : x = <<f, v>>
        \/ \E f \in {"before", "after"}, r \in Rates \cup {0} : x = <<f, r>>
        \/ \E d \in Dirs : x = <<d, TRUE>>
    <2>1. CASE x \in Pairs("was", BOOLEAN) \/ x \in Pairs("now", BOOLEAN)
      BY <2>1 DEF Pairs
    <2>2. CASE x \in Pairs("before", Rates \cup {0}) \/ x \in Pairs("after", Rates \cup {0})
      BY <2>2 DEF Pairs
    <2>3. CASE x \in FlagStore
      BY <2>3 DEF FlagStore
    <2> QED BY <2>1, <2>2, <2>3, Zenon DEF Store
  <1> QED BY <1>1, <1>2, <1>3, <1>4, Zenon

\* The next store of a change keeps the invariant: a field, while flags are to come, or a flag.
LEMMA StoreStep ==
    ASSUME EmulatorInv, markBwChanged
    PROVE  EmulatorInv'
  <1>1. EmulatorTypes /\ FlagsFollow /\ Owed /\ LoadedIsStored
    BY DEF EmulatorInv
  <1>2. PICK f, v : f = Head(mark)[1] /\ v = Head(mark)[2]
    OBVIOUS
  <1>3. /\ mark # <<>> /\ mark' = Tail(mark)
        /\ IF f \in Dirs
           THEN flag' = [flag EXCEPT ![f] = v] /\ UNCHANGED <<stored, applied>>
           ELSE /\ stored' = [stored EXCEPT ![f] = v] /\ UNCHANGED flag
                /\ applied' = [d \in Dirs |-> applied[d] /\ stored[f] = v]
        /\ UNCHANGED <<cfg, stall, scen, recv>>
    BY <1>2 DEF markBwChanged, config
  <1>4. mark \in Seq(Store)
    BY <1>1 DEF EmulatorTypes
  <1>5. /\ mark' \in Seq(Store) /\ Len(mark') = Len(mark) - 1 /\ Len(mark) \in Nat \ {0}
        /\ Head(mark) = mark[1] /\ mark[1] \in Store
        /\ \A i \in 1..Len(mark') : mark'[i] = mark[i + 1]
    BY <1>3, <1>4, TailStores
  <1>6. \A d \in Dirs, k \in 2..Len(mark) : mark[k] = <<d, TRUE>> => \E i \in 1..Len(mark') : mark'[i] = <<d, TRUE>>
    <2> SUFFICES ASSUME NEW d \in Dirs, NEW k \in 2..Len(mark), mark[k] = <<d, TRUE>>
                 PROVE  \E i \in 1..Len(mark') : mark'[i] = <<d, TRUE>>
      OBVIOUS
    <2>1. k - 1 \in 1..Len(mark') /\ mark'[k - 1] = mark[k - 1 + 1] /\ k - 1 + 1 = k
      BY <1>5
    <2> QED BY <2>1
  <1>7. FlagsFollow'
    <2> SUFFICES ASSUME NEW i \in 1..Len(mark'), mark'[i][1] \in FieldNames, NEW d \in Dirs
                 PROVE  \E j \in i + 1..Len(mark') : mark'[j] = <<d, TRUE>>
      BY DEF FlagsFollow
    <2>1. i + 1 \in 1..Len(mark) /\ mark[i + 1][1] \in FieldNames
      BY <1>5
    <2>2. PICK j \in i + 1 + 1..Len(mark) : mark[j] = <<d, TRUE>>
      BY <2>1, <1>1 DEF FlagsFollow
    <2>3. j - 1 \in i + 1..Len(mark') /\ j - 1 \in 1..Len(mark') /\ mark'[j - 1] = mark[j - 1 + 1] /\ j - 1 + 1 = j
      BY <1>5, <2>2
    <2> QED BY <2>2, <2>3
  <1>8. CASE f \in Dirs
    <2>1. v = TRUE
      <3>1. f \notin {"was", "now", "before", "after"}
        BY <1>8, EmulatorAssumption
      <3> QED BY <1>2, <1>5, <3>1, StoreCases
    <2>2. flag' = [flag EXCEPT ![f] = TRUE] /\ UNCHANGED <<stored, applied, recv>>
      BY <2>1, <1>3, <1>8
    <2>3. flag' \in [Dirs -> BOOLEAN]
      BY <2>2, <1>1 DEF EmulatorTypes
    <2>4. EmulatorTypes'
      BY <2>2, <2>3, <1>1, <1>3, <1>5 DEF EmulatorTypes
    <2>5. \A d \in Dirs : Announced(d) => Announced(d)'
      <3> SUFFICES ASSUME NEW d \in Dirs, Announced(d)
                   PROVE  Announced(d)'
        OBVIOUS
      <3>1. CASE flag[d]
        BY <3>1, <2>2, <1>1 DEF Announced, EmulatorTypes
      <3>2. ASSUME NEW i \in 1..Len(mark), mark[i] = <<d, TRUE>>
            PROVE  Announced(d)'
        <4>1. CASE i = 1
          <5>1. f = d
            BY <4>1, <3>2, <1>2, <1>5
          <5> QED BY <5>1, <2>2, <1>1 DEF Announced, EmulatorTypes
        <4>2. CASE i # 1
          <5>1. i \in 2..Len(mark)
            BY <4>2
          <5> QED BY <5>1, <3>2, <1>6 DEF Announced
        <4> QED BY <4>1, <4>2
      <3> QED BY <3>1, <3>2 DEF Announced
    <2>6. Owed'
      BY <2>2, <2>5, <1>1 DEF Owed, Rescheduling
    <2>7. LoadedIsStored'
      BY <2>2, <2>5, <1>1 DEF LoadedIsStored, EmulatorTypes
    <2> QED BY <2>4, <2>6, <2>7, <1>7 DEF EmulatorInv
  <1>9. CASE f \notin Dirs
    <2>1. /\ stored' = [stored EXCEPT ![f] = v] /\ flag' = flag /\ recv' = recv
          /\ applied' = [d \in Dirs |-> applied[d] /\ stored[f] = v]
      BY <1>3, <1>9
    <2>2. \/ f \in {"was", "now"} /\ v \in BOOLEAN
          \/ f \in {"before", "after"} /\ v \in Rates \cup {0}
      BY <1>2, <1>5, <1>9, StoreCases
    <2>3. stored' \in Stored
      <3>1. CASE f = "was" /\ v \in BOOLEAN
        BY <2>1, <3>1, <1>1 DEF Stored, EmulatorTypes
      <3>2. CASE f = "now" /\ v \in BOOLEAN
        BY <2>1, <3>2, <1>1 DEF Stored, EmulatorTypes
      <3>3. CASE f = "before" /\ v \in Rates \cup {0}
        BY <2>1, <3>3, <1>1 DEF Stored, EmulatorTypes
      <3>4. CASE f = "after" /\ v \in Rates \cup {0}
        BY <2>1, <3>4, <1>1 DEF Stored, EmulatorTypes
      <3> QED BY <2>2, <3>1, <3>2, <3>3, <3>4
    <2>4. applied' \in [Dirs -> BOOLEAN]
      BY <2>1, Zenon
    <2>5. EmulatorTypes'
      BY <2>1, <2>3, <2>4, <1>1, <1>3, <1>5 DEF EmulatorTypes
    <2>6. \A d \in Dirs : Announced(d)'
      <3> SUFFICES ASSUME NEW d \in Dirs
                   PROVE  Announced(d)'
        OBVIOUS
      <3>1. 1 \in 1..Len(mark) /\ mark[1][1] \in FieldNames
        BY <1>2, <1>5, <2>2 DEF FieldNames
      <3>2. PICK j \in 1 + 1..Len(mark) : mark[j] = <<d, TRUE>>
        BY <3>1, <1>1 DEF FlagsFollow
      <3>3. j \in 2..Len(mark)
        OBVIOUS
      <3> QED BY <3>2, <3>3, <1>6 DEF Announced
    <2>7. Owed' /\ LoadedIsStored'
      BY <2>1, <2>6, <1>1 DEF Owed, LoadedIsStored, EmulatorTypes
    <2> QED BY <2>5, <2>7, <1>7 DEF EmulatorInv
  <1> QED BY <1>8, <1>9

\* A datagram arrives: a flag that falls starts a reschedule, with nothing loaded yet.
LEMMA RecvStep ==
    ASSUME EmulatorInv, NEW d \in Dirs, recvfrom(d)
    PROVE  EmulatorInv'
  <1>1. EmulatorTypes /\ FlagsFollow /\ Owed /\ LoadedIsStored
    BY DEF EmulatorInv
  <1>2. /\ recv.at = 0
        /\ recv' = [recv EXCEPT !.at = IF flag[d] THEN 1 ELSE 6, !.dir = d]
        /\ flag' = [flag EXCEPT ![d] = FALSE]
        /\ UNCHANGED <<cfg, stall, scen, stored, mark, applied>>
    BY DEF recvfrom, config, Idle, Schedule
  <1>3. recv'.dir = d /\ recv'.at = (IF flag[d] THEN 1 ELSE 6) /\ recv' \in [at : 0..6, dir : Dirs, got : Stored]
    <2>1. PICK n \in 0..6 : n = IF flag[d] THEN 1 ELSE 6
      OBVIOUS
    <2>2. recv' = [recv EXCEPT !.at = n, !.dir = d]
      BY <1>2, <2>1
    <2>3. recv'.dir = d /\ recv'.at = n /\ recv' \in [at : 0..6, dir : Dirs, got : Stored]
      BY <1>1, <2>2 DEF EmulatorTypes
    <2> QED BY <2>1, <2>3
  <1>4. EmulatorTypes' /\ FlagsFollow'
    BY <1>1, <1>2, <1>3 DEF EmulatorTypes, FlagsFollow
  <1>5. \A e \in Dirs : ~applied[e] => Announced(e)
    BY <1>1, <1>2 DEF Owed, Rescheduling, Apply
  <1>6. Owed'
    <2> SUFFICES ASSUME NEW e \in Dirs, ~applied[e]
                 PROVE  Announced(e)' \/ Rescheduling(e)'
      BY <1>2 DEF Owed
    <2>1. flag[e] \/ \E i \in 1..Len(mark) : mark[i] = <<e, TRUE>>
      BY <1>5 DEF Announced
    <2>2. CASE \E i \in 1..Len(mark) : mark[i] = <<e, TRUE>>
      BY <1>2, <2>2 DEF Announced
    <2>3. CASE flag[e] /\ e = d
      BY <1>3, <2>3 DEF Rescheduling, Apply
    <2>4. CASE flag[e] /\ e # d
      BY <1>1, <1>2, <2>4 DEF Announced, EmulatorTypes
    <2> QED BY <2>1, <2>2, <2>3, <2>4
  <1>7. LoadedIsStored'
    BY <1>3 DEF LoadedIsStored, Apply
  <1> QED BY <1>4, <1>6, <1>7 DEF EmulatorInv

\* One more field is loaded: as it is stored, or a flag is raised or will be.
LEMMA LoadStep ==
    ASSUME EmulatorInv, rescale_load
    PROVE  EmulatorInv'
  <1>1. EmulatorTypes /\ FlagsFollow /\ Owed /\ LoadedIsStored
    BY DEF EmulatorInv
  <1>2. PICK n \in 1..4 : n = recv.at
    BY DEF rescale_load
  <1>3. PICK f \in FieldNames : f = Fields[n]
    BY DEF Fields, FieldNames
  <1>4. /\ recv' = [recv EXCEPT !.at = n + 1, !.got = [recv.got EXCEPT ![f] = stored[f]]]
        /\ UNCHANGED <<cfg, stall, scen, stored, flag, mark, applied>>
    BY <1>2, <1>3 DEF rescale_load, config, change
  <1>5. /\ recv'.dir = recv.dir /\ recv'.at = n + 1 /\ recv'.got = [recv.got EXCEPT ![f] = stored[f]]
        /\ recv' = [at |-> n + 1, dir |-> recv.dir, got |-> recv'.got]
    BY <1>1, <1>4 DEF EmulatorTypes
  <1>6. recv'.got \in Stored
    <2>1. recv.got \in Stored /\ stored \in Stored
      BY <1>1 DEF EmulatorTypes
    <2>2. CASE f = "was"
      BY <2>1, <2>2, <1>5 DEF Stored
    <2>3. CASE f = "now"
      BY <2>1, <2>3, <1>5 DEF Stored
    <2>4. CASE f = "before"
      BY <2>1, <2>4, <1>5 DEF Stored
    <2>5. CASE f = "after"
      BY <2>1, <2>5, <1>5 DEF Stored
    <2> QED BY <2>2, <2>3, <2>4, <2>5 DEF FieldNames
  <1>7. recv' \in [at : 0..6, dir : Dirs, got : Stored]
    BY <1>1, <1>5, <1>6 DEF EmulatorTypes
  <1>8. EmulatorTypes' /\ FlagsFollow'
    BY <1>1, <1>4, <1>7 DEF EmulatorTypes, FlagsFollow
  <1>9. \A d \in Dirs : (Announced(d)' <=> Announced(d)) /\ (Rescheduling(d)' <=> Rescheduling(d))
    BY <1>2, <1>4, <1>5 DEF Announced, Rescheduling, Apply
  <1>10. Owed'
    BY <1>1, <1>4, <1>9 DEF Owed
  <1>11. LoadedIsStored'
    <2> SUFFICES ASSUME ~Announced(recv.dir), NEW k \in 1..n
                 PROVE  recv'.got[Fields[k]] = stored[Fields[k]]
      <3>1. recv.dir \in Dirs
        BY <1>1 DEF EmulatorTypes
      <3> QED BY <1>4, <1>5, <1>9, <3>1 DEF LoadedIsStored
    <2>1. Fields[k] \in FieldNames
      BY DEF Fields, FieldNames
    <2>2. DOMAIN recv.got = FieldNames
      BY <1>1 DEF EmulatorTypes, Stored, FieldNames
    <2>3. CASE k = n
      BY <2>2, <2>3, <1>3, <1>5
    <2>4. CASE k # n
      <3>1. recv.got[Fields[k]] = stored[Fields[k]]
        BY <1>1, <1>2, <2>4 DEF LoadedIsStored, Apply
      <3> QED BY <3>1, <2>1, <2>2, <1>5
    <2> QED BY <2>3, <2>4
  <1> QED BY <1>8, <1>10, <1>11 DEF EmulatorInv

\* A reschedule by what was loaded: it is what is stored, or a flag is raised or will be.
LEMMA ApplyStep ==
    ASSUME EmulatorInv, rescaleDirection
    PROVE  EmulatorInv'
  <1>1. EmulatorTypes /\ FlagsFollow /\ Owed /\ LoadedIsStored
    BY DEF EmulatorInv
  <1>2. PICK d \in Dirs, g \in Stored : d = recv.dir /\ g = recv.got
    BY <1>1 DEF EmulatorTypes
  <1>3. /\ recv.at = 5
        /\ recv' = [recv EXCEPT !.at = 6, !.got = NoChange]
        /\ UNCHANGED <<cfg, stall, scen, stored, flag, mark>>
    BY <1>2 DEF rescaleDirection, config, change, Apply, Schedule
  <1>0. applied' = [applied EXCEPT ![d] = (g = stored)]
    BY <1>2, Zenon DEF rescaleDirection
  <1>4. NoChange \in Stored
    BY EmulatorAssumption DEF NoChange, Stored
  <1>5. recv'.at = 6 /\ recv' \in [at : 0..6, dir : Dirs, got : Stored]
    <2>1. PICK z \in Stored : z = NoChange
      BY <1>4
    <2>2. recv' = [recv EXCEPT !.at = 6, !.got = z] /\ recv \in [at : 0..6, dir : Dirs, got : Stored]
      BY <1>1, <1>3, <2>1 DEF EmulatorTypes
    <2>3. recv' = [at |-> 6, dir |-> recv.dir, got |-> z]
      BY <2>2
    <2> QED BY <2>2, <2>3
  <1>6. /\ applied' \in [Dirs -> BOOLEAN]
        /\ applied'[d] = (g = stored) /\ \A e \in Dirs \ {d} : applied'[e] = applied[e]
    BY <1>0, <1>1, Zenon DEF EmulatorTypes
  <1>7. EmulatorTypes' /\ FlagsFollow'
    BY <1>1, <1>3, <1>5, <1>6 DEF EmulatorTypes, FlagsFollow
  <1>8. \A e \in Dirs : Announced(e)' <=> Announced(e)
    BY <1>3 DEF Announced
  <1>9. g = stored \/ Announced(d)
    <2> SUFFICES ASSUME ~Announced(d)
                 PROVE  g = stored
      OBVIOUS
    <2>1. \A k \in 1..4 : g[Fields[k]] = stored[Fields[k]]
      BY <1>1, <1>2, <1>3 DEF LoadedIsStored, Apply
    <2>2. g["was"] = stored["was"] /\ g["now"] = stored["now"] /\ g["before"] = stored["before"]
          /\ g["after"] = stored["after"]
      BY <2>1 DEF Fields
    <2>3. stored \in Stored
      BY <1>1 DEF EmulatorTypes
    <2> QED BY <2>2, <2>3 DEF Stored
  <1>10. Owed'
    <2> SUFFICES ASSUME NEW e \in Dirs, ~applied'[e]
                 PROVE  Announced(e)
      BY <1>8 DEF Owed
    <2>1. CASE e = d
      BY <2>1, <1>6, <1>9, Zenon
    <2>2. CASE e # d
      <3>1. ~applied[e]
        BY <2>2, <1>6, Zenon
      <3> QED BY <3>1, <2>2, <1>1, <1>2 DEF Owed, Rescheduling
    <2> QED BY <2>1, <2>2
  <1>11. LoadedIsStored'
    BY <1>5 DEF LoadedIsStored, Apply
  <1> QED BY <1>7, <1>10, <1>11 DEF EmulatorInv

\* The scenario has a length.
LEMMA ScriptLength == Len(Script) \in Nat
  BY EmulatorAssumption

\* A command says of the bandwidth that it was touched or that it was not.
LEMMA CommandTouches ==
    ASSUME NEW c \in Understood
    PROVE  Commanded(c)[3] \in BOOLEAN
  <1> SUFFICES Commanded(c)[3] = TRUE \/ Commanded(c)[3] = FALSE
    BY Zenon
  <1>1. ASSUME NEW f \in {"bw", "bw-min", "bw-max", "stall"}, NEW r \in Rates \cup {0}, c = <<f, r>>
        PROVE  Commanded(c)[3] = TRUE
    BY <1>1 DEF Commanded, Stall
  <1>2. ASSUME NEW mix \in SUBSET Disturbances, c = <<"mix", mix>>
        PROVE  Commanded(c)[3] = FALSE
    BY <1>2 DEF Commanded
  <1>3. CASE c = <<"wave off">>
    BY <1>3 DEF Commanded
  <1>7. CASE c = <<"reset">>
    BY <1>7 DEF Commanded
  <1>4. CASE c = <<"stall off">>
    <2>1. Commanded(c) = StallOff
      BY <1>4 DEF Commanded
    <2>2. StallOff[3] = TRUE \/ StallOff[3] = FALSE
      BY DEF StallOff
    <2> QED BY <2>1, <2>2
  <1>5. CASE c \in {"bw", "bw-min", "bw-max", "stall"} \X (Rates \cup {0})
    BY <1>1, <1>5, PairOf
  <1>6. CASE c \in {"mix"} \X SUBSET Disturbances
    BY <1>2, <1>6, PairOf
  <1> QED BY <1>3, <1>4, <1>5, <1>6, <1>7 DEF Understood

\* The emulator starts with no change under way and nothing queued.
LEMMA InitEmulator == EmulatorInit => EmulatorInv
  <1> SUFFICES ASSUME EmulatorInit
               PROVE  EmulatorInv
    OBVIOUS
  <1>1. NoChange \in Stored
    BY EmulatorAssumption DEF NoChange, Stored
  <1>2. recv \in [at : 0..6, dir : Dirs, got : Stored] /\ recv.at = 0
    <2>1. PICK d \in Dirs : d = CHOOSE e \in Dirs : TRUE
      BY EmulatorAssumption
    <2>2. PICK z \in Stored : z = NoChange
      BY <1>1
    <2>3. recv = [at |-> 0, dir |-> d, got |-> z]
      BY <2>1, <2>2 DEF EmulatorInit, Idle
    <2> QED BY <2>3
  <1>3. NoStall \in Schedules
    BY DEF NoStall, Schedules
  <1>4. mark = <<>> /\ mark \in Seq(Store) /\ Len(mark) = 0
    BY DEF EmulatorInit
  <1>5. flag \in [Dirs -> BOOLEAN] /\ applied \in [Dirs -> BOOLEAN] /\ \A d \in Dirs : applied[d]
    BY DEF EmulatorInit
  <1>6. scen \in 0..Len(Script)
    BY ScriptLength DEF EmulatorInit
  <1>7. EmulatorTypes
    BY <1>1, <1>2, <1>3, <1>4, <1>5, <1>6, EmulatorAssumption DEF EmulatorInit, EmulatorTypes
  <1> QED BY <1>2, <1>4, <1>5, <1>7 DEF EmulatorInv, FlagsFollow, Owed, LoadedIsStored, Apply

\* A command of the controller keeps the invariant.
LEMMA CommandStep ==
    ASSUME EmulatorInv, NEW c \in Understood, apply_command(c), scen' \in 0..Len(Script)
    PROVE  EmulatorInv'
  <1>1. Commanded(c)[1] \in Config /\ Commanded(c)[2] \in Schedules
    BY CommandedTypes DEF EmulatorInv
  <1>2. Commanded(c)[3] \in BOOLEAN
    BY CommandTouches
  <1>3. /\ Reconfigure(Commanded(c)[1], Commanded(c)[3]) /\ stall' \in Schedules
        /\ UNCHANGED <<stored, flag, applied, recv>>
    BY <1>1 DEF apply_command
  <1> QED BY <1>1, <1>2, <1>3, ConfigStep

\* A step of the scenario thread keeps the invariant.
LEMMA ScenarioStep ==
    ASSUME EmulatorInv, scenarioLoop
    PROVE  EmulatorInv'
  <1>1. EmulatorTypes
    BY DEF EmulatorInv
  <1>2. scen' \in 0..Len(Script)
    BY <1>1, ScriptLength DEF scenarioLoop, EmulatorTypes
  <1>3. CASE scen = 0
    <2>1. Reconfigure(Baseline, TRUE) /\ stall' \in Schedules /\ UNCHANGED <<stored, flag, applied, recv>>
      BY <1>1, <1>3 DEF scenarioLoop, EmulatorTypes
    <2> QED BY <1>2, <2>1, ConfigStep, EmulatorAssumption
  <1>4. CASE scen # 0
    <2>1. apply_command(Script[scen])
      BY <1>4 DEF scenarioLoop
    <2>2. scen \in 1..Len(Script)
      BY <1>1, <1>4, ScriptLength DEF EmulatorTypes
    <2>3. Script[scen] \in Understood
      BY <2>2, EmulatorAssumption
    <2> QED BY <1>2, <2>1, <2>3, CommandStep
  <1> QED BY <1>3, <1>4

\* A poll of the stall thread keeps the invariant.
LEMMA StallStep ==
    ASSUME EmulatorInv, applyStallSchedule
    PROVE  EmulatorInv'
  <1>1. EmulatorTypes
    BY DEF EmulatorInv
  <1>2. scen' \in 0..Len(Script) /\ UNCHANGED <<scen, stored, flag, applied, recv>>
    BY <1>1 DEF applyStallSchedule, EmulatorTypes
  <1>3. CASE ~stall.over
    <2>1. UNCHANGED <<cfg, stall, mark>> /\ stall' \in Schedules
      BY <1>1, <1>3 DEF applyStallSchedule, EmulatorTypes
    <2> QED BY <1>2, <2>1, QuietLink
  <1>4. CASE stall.over
    <2>1. PICK rate \in Rates \cup {0} : rate = IF stall.now THEN stall.normal ELSE stall.low
      BY <1>1 DEF EmulatorTypes, Schedules
    <2>2. Reconfigure([cfg EXCEPT !.on = TRUE, !.min = rate, !.max = rate], TRUE)
      BY <1>4, <2>1 DEF applyStallSchedule
    <2>3. stall' = [stall EXCEPT !.now = ~stall.now, !.over = FALSE]
      BY <1>4 DEF applyStallSchedule
    <2>4. stall' \in Schedules
      BY <1>1, <2>3 DEF EmulatorTypes, Schedules
    <2>5. [cfg EXCEPT !.on = TRUE, !.min = rate, !.max = rate] \in Config
      BY <1>1 DEF EmulatorTypes, Config
    <2> QED BY <1>2, <2>2, <2>4, <2>5, ConfigStep
  <1> QED BY <1>3, <1>4

\* Every step of the emulator keeps the invariant.
LEMMA NextEmulator == EmulatorInv /\ [EmulatorNext]_emulator => EmulatorInv'
  <1> SUFFICES ASSUME EmulatorInv, [EmulatorNext]_emulator
               PROVE  EmulatorInv'
    OBVIOUS
  <1> USE DEF config, change, link, emulator
  <1>0. EmulatorTypes
    BY DEF EmulatorInv
  <1>t. stall \in Schedules
    BY <1>0 DEF EmulatorTypes
  <1>1. ASSUME NEW d \in Dirs, recvfrom(d)
        PROVE  EmulatorInv'
    BY <1>1, RecvStep
  <1>2. CASE rescale_load
    BY <1>2, LoadStep
  <1>3. CASE rescaleDirection
    BY <1>3, ApplyStep
  <1>4. CASE process_drop
    BY <1>4, <1>t, QuietLink DEF process_drop
  <1>5. CASE process
    BY <1>5, <1>t, QuietLink DEF process
  <1>6. ASSUME NEW d \in Dirs, senderLoop(d)
        PROVE  EmulatorInv'
    BY <1>6, <1>t, QuietLink DEF senderLoop
  <1>7. CASE stall_active
    BY <1>7, <1>t, QuietLink DEF stall_active
  <1>8. CASE applyStallSchedule
    BY <1>8, StallStep
  <1>9. CASE StallTimer
    <2>1. stall' = [stall EXCEPT !.over = TRUE] /\ UNCHANGED <<stored, flag, mark, applied, cfg, scen, recv>>
      BY <1>9 DEF StallTimer
    <2>2. stall' \in Schedules
      BY <1>t, <2>1 DEF Schedules
    <2> QED BY <2>1, <2>2, QuietLink
  <1>10. CASE control_command
    <2>1. PICK c \in Commands : apply_command(c)
      BY <1>10 DEF control_command
    <2>2. c \in Understood
      BY EmulatorAssumption
    <2>3. scen' \in 0..Len(Script)
      BY <1>0, <1>10 DEF control_command, EmulatorTypes
    <2> QED BY <2>1, <2>2, <2>3, CommandStep
  <1>11. CASE scenarioLoop
    BY <1>11, ScenarioStep
  <1>12. CASE markBwChanged
    BY <1>12, StoreStep
  <1>13. CASE Tick
    BY <1>13, <1>t, QuietLink DEF Tick
  <1>14. CASE UNCHANGED emulator
    BY <1>14, <1>t, QuietLink
  <1> QED BY <1>1, <1>2, <1>3, <1>4, <1>5, <1>6, <1>7, <1>8, <1>9, <1>10, <1>11, <1>12, <1>13, <1>14
       DEF EmulatorNext, Receiver, StallPoll

\* The invariant holds of every behaviour.
LEMMA EmulatorKeeps == EmulatorSpec => []EmulatorInv
  BY InitEmulator, NextEmulator, PTL DEF EmulatorSpec

\* Whatever commands, scenario and stalls change, and wherever the receiving thread is
\* between the loads of a reschedule, the latest change of the bandwidth is not missed.
THEOREM NoneMissed == EmulatorSpec => []NoChangeIsMissed
  <1>1. EmulatorInv => NoChangeIsMissed
    <2> SUFFICES ASSUME EmulatorInv, NEW d \in Dirs, Unlocked, ~flag[d], ~Rescheduling(d)
                 PROVE  applied[d]
      BY DEF NoChangeIsMissed, Rescheduling
    <2>1. \A i \in 1..Len(mark) : FALSE
      BY DEF Unlocked
    <2>2. ~Announced(d)
      BY <2>1 DEF Announced
    <2> QED BY <2>2 DEF EmulatorInv, Owed
  <1> QED BY <1>1, EmulatorKeeps, PTL

\* The pointers of both schedules are times, counted from now and from MaxLag ago.
Pointers == /\ drain \in [Dirs -> Int] /\ bw_drain \in [Dirs -> Int]
            /\ \A d \in Dirs : drain[d] >= -MaxLag /\ bw_drain[d] >= 0

\* What LeadsDoNotAddUp says of one step.
LeadKept ==
    \A d \in Dirs : bw_drain'[d] - drain'[d] <= LaterOf(MaxLag, bw_drain[d] - drain[d])

LEMMA LagIsNat == MaxLag \in Nat
  BY EmulatorAssumption

\* A quotient of a natural number is one.
LEMMA DivIsNat ==
    ASSUME NEW x \in Nat, NEW n \in Nat \ {0}
    PROVE  x \div n \in Nat
  OBVIOUS

\* A reschedule leaves a time that is ahead of now ahead of it, and a past one alone or now.
LEMMA PointerTypes ==
    ASSUME NEW g \in Stored, NEW t \in Int
    PROVE  Pointer(t, g) \in Int /\ (Pointer(t, g) >= 0 \/ Pointer(t, g) = t)
  <1>1. PICK b \in Nat, a \in Nat : b = g.before /\ a = g.after
    BY EmulatorAssumption DEF Stored
  <1>2. CASE t > 0 /\ Limited(g)
    <2>1. a \in Nat \ {0}
      BY <1>1, <1>2 DEF Limited
    <2>2. PICK x \in Nat : x = t * b
      <3>1. t \in Nat
        BY <1>2
      <3> QED BY <3>1
    <2>3. x \div a \in Nat
      BY <2>1, <2>2, DivIsNat
    <2>4. Pointer(t, g) = x \div a
      BY <1>1, <1>2, <2>2 DEF Pointer, Rescheduled, Scaled
    <2> QED BY <2>3, <2>4
  <1>3. CASE t <= 0 /\ Limited(g)
    BY <1>3 DEF Pointer, Rescheduled
  <1>4. CASE ~Limited(g)
    BY <1>4 DEF Pointer
  <1> QED BY <1>2, <1>3, <1>4

\* process moves both pointers by the same time, the link's from no earlier a point.
LEMMA ProcessPointers ==
    ASSUME EmulatorInv, Pointers, RateIsPositive, process
    PROVE  Pointers' /\ LeadKept
  <1>1. PICK d \in Dirs : d = recv.dir
    BY DEF EmulatorInv, EmulatorTypes
  <1>2. CASE d \notin Clean /\ cfg.on
    <2>1. PICK delay \in Nat, lag \in 0..MaxLag, rate \in Bandwidth(cfg) :
            /\ drain' = [drain EXCEPT ![d] = LaterOf(delay - lag, @) + (Unit \div rate)]
            /\ bw_drain' = [bw_drain EXCEPT ![d] = @ + (Unit \div rate)]
      <3>1. PICK delay \in Chosen("delay", d), lag \in 0..MaxLag, late \in Chosen("reorder", d),
                 rate \in Bandwidth(cfg) :
               IF d \notin Clean /\ cfg.on
               THEN /\ drain' = [drain EXCEPT ![d] = LaterOf(delay - lag, @) + (Unit \div rate)]
                    /\ bw_drain' = [bw_drain EXCEPT ![d] = @ + (Unit \div rate)]
               ELSE UNCHANGED <<drain, bw_drain>>
        BY <1>1 DEF process
      <3>2. delay \in Nat
        BY EmulatorAssumption DEF Chosen
      <3> QED BY <1>2, <3>1, <3>2
    <2>2. rate \in Nat \ {0}
      BY <1>2, EmulatorAssumption DEF Bandwidth, RateIsPositive, EmulatorInv, EmulatorTypes, Config
    <2>3. PICK time \in Nat : time = Unit \div rate
      BY <2>2, EmulatorAssumption, DivIsNat
    <2>4. PICK later \in Int : later = LaterOf(delay - lag, drain[d]) /\ later >= drain[d]
      BY LagIsNat DEF LaterOf, Pointers
    <2>5. drain' = [drain EXCEPT ![d] = later + time] /\ bw_drain' = [bw_drain EXCEPT ![d] = bw_drain[d] + time]
      BY <2>1, <2>3, <2>4, Zenon
    <2>6. /\ drain' \in [Dirs -> Int] /\ bw_drain' \in [Dirs -> Int]
          /\ drain'[d] = later + time /\ bw_drain'[d] = bw_drain[d] + time
          /\ \A e \in Dirs \ {d} : drain'[e] = drain[e] /\ bw_drain'[e] = bw_drain[e]
      BY <2>5 DEF Pointers
    <2>7. Pointers'
      BY <2>4, <2>6, LagIsNat DEF Pointers
    <2>8. LeadKept
      BY <2>4, <2>6, LagIsNat DEF Pointers, LeadKept, LaterOf
    <2> QED BY <2>7, <2>8
  <1>3. CASE ~(d \notin Clean /\ cfg.on)
    <2>1. UNCHANGED <<drain, bw_drain>>
      BY <1>1, <1>3 DEF process
    <2> QED BY <2>1, LagIsNat DEF Pointers, LeadKept, LaterOf
  <1> QED BY <1>2, <1>3

\* Only a reschedule and the past end of the pointers can widen the lead, when rates are
\* positive.
LEMMA NextPointers ==
    ASSUME EmulatorInv, Pointers, RateIsPositive, [EmulatorNext]_emulator
    PROVE  Pointers' /\ (rescaleDirection \/ LeadKept)
  <1> USE DEF config, change, link, emulator
  <1>0. ASSUME UNCHANGED <<drain, bw_drain>>
        PROVE  Pointers' /\ LeadKept
    BY <1>0, LagIsNat DEF Pointers, LeadKept, LaterOf
  <1>1. CASE \E d \in Dirs : recvfrom(d) \/ senderLoop(d)
    BY <1>0, <1>1 DEF recvfrom, senderLoop
  <1>2. CASE rescale_load \/ process_drop
    BY <1>0, <1>2 DEF rescale_load, process_drop
  <1>3. CASE rescaleDirection
    <2>1. PICK d \in Dirs, g \in Stored : d = recv.dir /\ g = recv.got
      BY DEF EmulatorInv, EmulatorTypes
    <2>2. PICK t \in Int, u \in Int : t = bw_drain[d] /\ u = drain[d] /\ t >= 0 /\ u >= -MaxLag
      BY DEF Pointers
    <2>3. PICK v \in Int, w \in Int : v = Pointer(t, g) /\ w = Pointer(u, g) /\ v >= 0 /\ w >= -MaxLag
      BY <2>2, PointerTypes, LagIsNat
    <2>4. drain' = [drain EXCEPT ![d] = w] /\ bw_drain' = [bw_drain EXCEPT ![d] = v]
      BY <1>3, <2>1, <2>2, <2>3, Zenon DEF rescaleDirection
    <2> QED BY <1>3, <2>3, <2>4 DEF Pointers
  <1>4. CASE process
    BY <1>4, ProcessPointers
  <1>5. CASE stall_active \/ applyStallSchedule \/ StallTimer \/ markBwChanged
    BY <1>0, <1>5 DEF stall_active, applyStallSchedule, StallTimer, markBwChanged
  <1>6. CASE control_command \/ scenarioLoop
    BY <1>0, <1>6 DEF control_command, scenarioLoop, apply_command
  <1>7. CASE Tick
    <2>1. drain' = [d \in Dirs |-> Earlier(drain[d], -MaxLag)]
          /\ bw_drain' = [d \in Dirs |-> Earlier(bw_drain[d], 0)]
      BY <1>7 DEF Tick
    <2>2. \A d \in Dirs : /\ drain'[d] = (IF drain[d] > -MaxLag THEN drain[d] - 1 ELSE -MaxLag)
                          /\ bw_drain'[d] = (IF bw_drain[d] > 0 THEN bw_drain[d] - 1 ELSE 0)
      BY <2>1 DEF Earlier
    <2>3. drain' \in [Dirs -> Int] /\ bw_drain' \in [Dirs -> Int]
      BY <2>1, LagIsNat DEF Pointers, Earlier
    <2>4. Pointers'
      BY <2>2, <2>3, LagIsNat DEF Pointers
    <2>5. LeadKept
      BY <2>2, LagIsNat DEF Pointers, LeadKept, LaterOf
    <2> QED BY <2>4, <2>5
  <1>8. CASE UNCHANGED emulator
    BY <1>0, <1>8
  <1> QED BY <1>1, <1>2, <1>3, <1>4, <1>5, <1>6, <1>7, <1>8 DEF EmulatorNext, Receiver, StallPoll

\* As long as no rate in force is 0, by which process would divide, the leads that the two
\* readings of the clock give the backlog of the CE marks over the link's schedule do not
\* add up, for any delays, sizes of the queue and pauses.
THEOREM LeadsBounded == EmulatorSpec /\ []RateIsPositive => LeadsDoNotAddUp
  <1>1. EmulatorInit => Pointers
    BY LagIsNat DEF EmulatorInit, Pointers
  <1>2. EmulatorInv /\ Pointers /\ RateIsPositive /\ [EmulatorNext]_emulator => Pointers'
    BY NextPointers
  <1>3. EmulatorInv /\ Pointers /\ RateIsPositive /\ [EmulatorNext]_emulator
          => [recv.at # Apply \/ recv'.at = Apply =>
                \A d \in Dirs : bw_drain'[d] - drain'[d] <= LaterOf(MaxLag, bw_drain[d] - drain[d])]_emulator
    <2> SUFFICES ASSUME EmulatorInv, Pointers, RateIsPositive, [EmulatorNext]_emulator,
                        recv.at # Apply \/ recv'.at = Apply
                 PROVE  LeadKept
      BY DEF LeadKept
    <2>1. CASE rescaleDirection
      <3>1. recv.at = Apply /\ recv'.at = Schedule
        BY <2>1 DEF rescaleDirection, EmulatorInv, EmulatorTypes
      <3> QED BY <3>1 DEF Apply, Schedule
    <2>2. CASE ~rescaleDirection
      BY <2>2, NextPointers
    <2> QED BY <2>1, <2>2
  <1> QED BY <1>1, <1>2, <1>3, EmulatorKeeps, PTL DEF EmulatorSpec, LeadsDoNotAddUp
=============================================================================
