-------------------------- MODULE LeafCalls_proofs --------------------------
(***************************************************************************)
(* Proofs about LeafCalls, for any number of callers, endpoints and        *)
(* parents, any threshold of the breaker and any number of calls and       *)
(* faults: m_pending holds the slots of the callers that wait and of       *)
(* nobody else, and a half-open circuit is closed by a probe's success.    *)
(***************************************************************************)
EXTENDS LeafCalls, TLAPS

Breaker ==
    [state : {"closed", "open", "half"}, cool : BOOLEAN, total_calls : Nat, errors : Nat,
     consecutive_failures : Nat, half_open_count : 0..HalfOpenMax]

Call ==
    [pc : {"idle", "pick", "backend", "wait"}, attempt : 0..2, tried : SUBSET Endpoints,
     ep : Endpoints \cup {None}, probe : BOOLEAN, rid : Nat,
     answer : Results \cup {None}, status : Results \cup {None}]

Events == [id : Parents, state : {"online", "closed"}]

BreakerType == breaker \in [Endpoints -> Breaker]

BalancerType == entry \in Endpoints \cup {None} /\ rr \in 0..(Len(List) - 1)

\* A call under way has an endpoint and a round left to count.
CallType ==
    /\ call \in [Callers -> Call]
    /\ \A c \in Callers : InFlight(c) => call[c].ep \in Endpoints /\ call[c].attempt < 2

LinkType ==
    /\ link \in [online : SUBSET Parents, active : Parents \cup {None},
                 firing : [Transport -> Events \cup {NoEvent}],
                 heard : [Parents -> {"online", "closed"}],
                 hung : BOOLEAN, outages : Nat]

\* Request ids: every one in use was given out, and no two waiting callers share one.
Ids ==
    /\ next \in Nat \ {0}
    /\ pending \subseteq 1..(next - 1)
    /\ \A c \in Callers : call[c].pc = "wait" => call[c].rid \in 1..(next - 1)
    /\ \A c, d \in Callers :
         call[c].pc = "wait" /\ call[d].pc = "wait" /\ call[c].rid = call[d].rid => c = d

\* The response in handle_inbound_response's hands: at most one, its slot has left
\* m_pending. A response on the wire carries a result.
Answers ==
    /\ \A m, n \in taken : m = n
    /\ \A m \in taken : m.rid \in 1..(next - 1) /\ m.rid \notin pending /\ m.res \in Results
    /\ \A m \in wire : m.kind = "response" => m.res \in Results

\* A slot is waited for, and is there until it is answered or about to be.
Slots ==
    /\ \A r \in pending : \E c \in Callers : call[c].pc = "wait" /\ call[c].rid = r
    /\ \A c \in Callers : call[c].pc = "wait" =>
         \/ call[c].rid \in pending /\ call[c].answer = None
         \/ \E m \in taken : m.rid = call[c].rid
         \/ call[c].answer # None
    /\ \A c \in Callers : call[c].answer # None => call[c].pc = "wait" /\ call[c].rid \notin pending

\* Nobody is in flight at an endpoint whose cooldown is over, so that whoever is in
\* flight while its circuit is half open was let in as a probe.
Probes ==
    \A e \in Endpoints, c \in Callers :
       InFlight(c) /\ call[c].ep = e =>
         /\ ~(breaker[e].state = "open" /\ breaker[e].cool)
         /\ breaker[e].state = "half" => call[c].probe

\* The inductive invariant.
IInv ==
    /\ BreakerType
    /\ BalancerType
    /\ CallType
    /\ LinkType
    /\ Ids
    /\ Answers
    /\ Slots
    /\ Probes

\* What ClosedByProbe says of one step.
ClosedStep ==
    \A e \in Endpoints :
       breaker[e].state = "half" /\ breaker'[e].state = "closed" /\ breaker'[e] # Fresh
         => \E c \in Callers : call[c].probe /\ call[c].ep = e /\ InFlight(c)
                               /\ call'[c] = Idle
-----------------------------------------------------------------------------
(* Lemmas about the operators *)

\* allow() lets a call in: a closed circuit stays closed, an open one whose cooldown is
\* over is half open afterwards, and the probes do not exceed half_open_max.
LEMMA AdmitBreaker ==
    ASSUME NEW r \in Breaker, Allowed(r)
    PROVE  /\ Admit(r) \in Breaker
           /\ r.state = "closed" => Admit(r) = r
           /\ r.state # "closed" => Admit(r).state = "half"
           /\ r.state # "half" => r.state = "closed" \/ (r.state = "open" /\ r.cool)
<1>1. CASE r.state = "open"
  <2> DEFINE h == [r EXCEPT !.state = "half"]
             a == [h EXCEPT !.half_open_count = 1]
  <2>1. h \in Breaker /\ h.state = "half"
    BY DEF Breaker
  <2> HIDE DEF h
  <2>2. a \in Breaker /\ a.state = "half"
    <3>1. 1 \in 0..HalfOpenMax
      BY CallConstants
    <3>2. PICK one \in 0..HalfOpenMax : one = 1
      BY <3>1
    <3>3. [h EXCEPT !.half_open_count = one] \in Breaker
      BY <2>1 DEF Breaker
    <3>4. [h EXCEPT !.half_open_count = one].state = "half"
      BY <2>1 DEF Breaker
    <3>5. QED
      BY <3>2, <3>3, <3>4
  <2>3. Admit(r) = a
    BY <1>1 DEF Admit, a, h
  <2>4. QED
    BY <1>1, <2>2, <2>3 DEF Allowed
<1>2. CASE r.state = "half"
  BY <1>2, CallConstants DEF Allowed, Admit, Breaker
<1>3. CASE r.state = "closed"
  BY <1>3, CallConstants DEF Allowed, Admit, Breaker
<1>4. QED
  BY <1>1, <1>2, <1>3 DEF Breaker

\* record_success closes a half-open circuit and opens none.
LEMMA SuccessBreaker ==
    ASSUME NEW r \in Breaker
    PROVE  /\ record_success(r) \in Breaker
           /\ record_success(r).state = IF r.state = "half" THEN "closed" ELSE r.state
           /\ record_success(r).cool = r.cool
<1> DEFINE a == [r EXCEPT !.total_calls = @ + 1]
           b == [a EXCEPT !.consecutive_failures = 0]
           d == [b EXCEPT !.state = IF @ = "half" THEN "closed" ELSE @]
<1>1. a \in Breaker /\ a.state = r.state /\ a.cool = r.cool
  BY DEF Breaker
<1> HIDE DEF a
<1>2. b \in Breaker /\ b.state = r.state /\ b.cool = r.cool
  BY <1>1 DEF Breaker
<1> HIDE DEF b
<1>3. /\ d \in Breaker /\ d.cool = r.cool
      /\ d.state = IF r.state = "half" THEN "closed" ELSE r.state
  BY <1>2 DEF Breaker
<1>4. record_success(r) = d
  BY DEF record_success, a, b, d
<1>5. QED
  BY <1>3, <1>4

\* record_failure closes no circuit; one it opens, or finds open, starts its cooldown.
LEMMA FailureBreaker ==
    ASSUME NEW r \in Breaker, NEW slow \in BOOLEAN
    PROVE  /\ record_failure(r, slow) \in Breaker
           /\ \/ r.state = "closed" /\ record_failure(r, slow).state = "closed"
              \/ record_failure(r, slow).state = "open" /\ record_failure(r, slow).cool = FALSE
<1> DEFINE n == [r EXCEPT !.total_calls = @ + 1, !.errors = @ + 1, !.consecutive_failures = @ + 1]
           o == [n EXCEPT !.state = "open", !.cool = FALSE]
<1>1. n \in Breaker /\ n.state = r.state
  <2> DEFINE a == [r EXCEPT !.total_calls = @ + 1]
             b == [a EXCEPT !.errors = @ + 1]
             d == [b EXCEPT !.consecutive_failures = @ + 1]
  <2>1. /\ a \in Breaker /\ a.state = r.state /\ a.errors = r.errors
        /\ a.consecutive_failures = r.consecutive_failures
    BY DEF Breaker
  <2> HIDE DEF a
  <2>2. /\ b \in Breaker /\ b.state = r.state
        /\ b.consecutive_failures = r.consecutive_failures
    BY <2>1 DEF Breaker
  <2> HIDE DEF b
  <2>3. d \in Breaker /\ d.state = r.state
    BY <2>2 DEF Breaker
  <2>4. n = d
    BY <2>1, <2>2 DEF a, b, d
  <2>5. QED
    BY <2>3, <2>4
<1> HIDE DEF n
<1>2. o \in Breaker /\ o.state = "open" /\ o.cool = FALSE
  <2> DEFINE a == [n EXCEPT !.state = "open"]
             b == [a EXCEPT !.cool = FALSE]
  <2>1. a \in Breaker /\ a.state = "open"
    BY <1>1 DEF Breaker
  <2> HIDE DEF a
  <2>2. b \in Breaker /\ b.state = "open" /\ b.cool = FALSE
    BY <2>1 DEF Breaker
  <2>3. o = b
    BY DEF a, b
  <2>4. QED
    BY <2>2, <2>3
<1> HIDE DEF o
<1>3. \/ record_failure(r, slow) = o
      \/ record_failure(r, slow) = n /\ n.state = "closed"
  BY DEF record_failure, n, o
<1>4. QED
  BY <1>1, <1>2, <1>3

\* The balancer's state after a pick.
LEMMA PickBalancer ==
    ASSUME BalancerType, NEW kind, NEW e \in Endpoints, Pick(kind, e)
    PROVE  BalancerType'
<1>1. CASE UNCHANGED <<entry, rr>>
  BY <1>1 DEF BalancerType
<1>2. CASE /\ rr' = (rr + 1) % Len(List)
           /\ entry' = IF kind = "sticky" THEN e ELSE entry
  <2>1. Len(List) \in Nat /\ Len(List) > 0 /\ rr \in Nat
    BY CallConstants DEF BalancerType
  <2>2. rr' \in 0..(Len(List) - 1)
    BY <1>2, <2>1
  <2>3. QED
    BY <1>2, <2>2 DEF BalancerType
<1>3. QED
  BY <1>1, <1>2 DEF Pick

-----------------------------------------------------------------------------
(* The inductive step, by the part of the state an action changes *)

LEMMA InitIInv == Init => IInv
<1> SUFFICES ASSUME Init PROVE IInv
  OBVIOUS
<1>1. BreakerType
  BY CallConstants DEF Init, BreakerType, Breaker, Fresh
<1>2. BalancerType
  BY CallConstants DEF Init, BalancerType
<1>3. CallType
  BY DEF Init, CallType, Call, Idle, InFlight
<1>4. LinkType
  <2>1. (CHOOSE p \in Parents : TRUE) \in Parents
    BY CallConstants
  <2>2. QED
    BY <2>1 DEF Init, LinkType
<1>5. Ids /\ Answers /\ Slots /\ Probes
  BY DEF Init, Ids, Answers, Slots, Probes, Idle, InFlight
<1>6. QED
  BY <1>1, <1>2, <1>3, <1>4, <1>5 DEF IInv

\* Of the parents' links the calls read only which are Online, and whether the leaf hangs.
LEMMA LinkStep ==
    ASSUME IInv,
           \/ \E p \in Parents : LinkOnline(p)
           \/ \E p \in Parents, t \in Transport : LinkClosed(p, t)
           \/ \E t \in Transport : on_peer_event(t)
           \/ do_sync_work
    PROVE  IInv' /\ ClosedStep
<1> USE DEF LinkType
<1>1. UNCHANGED <<breaker, entry, rr, call, pending, next, taken, wire>>
  BY DEF LinkOnline, LinkClosed, on_peer_event, do_sync_work
<1>2. LinkType'
  <2>1. ASSUME NEW p \in Parents, LinkOnline(p) PROVE LinkType'
    <3>1. Event(p, "online") \in Events /\ "receiver" \in Transport
      BY DEF Event, Events, Transport
    <3>2. QED
      BY <3>1, <2>1 DEF IInv, LinkOnline
  <2>2. ASSUME NEW p \in Parents, NEW t \in Transport, LinkClosed(p, t) PROVE LinkType'
    <3>1. PICK ev \in Events : ev = Event(p, "closed")
      BY DEF Event, Events
    <3>2. PICK n \in Nat : n = link.outages + 1
      BY DEF IInv
    <3>3. PICK on \in SUBSET Parents : on = link.online \ {p}
      BY DEF IInv
    <3>4. PICK f \in [Transport -> Events \cup {NoEvent}] : f = [link.firing EXCEPT ![t] = ev]
      BY DEF IInv
    <3>5. link' = [link EXCEPT !.online = on, !.firing = f, !.outages = n]
      BY <2>2, <3>1, <3>2, <3>3, <3>4 DEF IInv, LinkClosed
    <3>6. QED
      BY <3>5 DEF IInv
  <2>3. ASSUME NEW t \in Transport, on_peer_event(t) PROVE LinkType'
    <3>1. PICK ev : ev = link.firing[t]
      OBVIOUS
    <3>2. ev \in Events
      BY <2>3, <3>1 DEF IInv, on_peer_event
    <3>3. CASE link' = [link EXCEPT !.hung = TRUE]
      BY <3>3 DEF IInv
    <3>4. CASE \E p \in Parents \cup {None} :
                  link' = [link EXCEPT !.active = p, !.firing[t] = NoEvent, !.heard[ev.id] = ev.state,
                                       !.online = IF t = "reactor" THEN @ \ {ev.id} ELSE @]
      <4>1. PICK p \in Parents \cup {None} :
                    link' = [link EXCEPT !.active = p, !.firing[t] = NoEvent, !.heard[ev.id] = ev.state,
                                         !.online = IF t = "reactor" THEN @ \ {ev.id} ELSE @]
        BY <3>4
      <4>2. PICK f \in [Transport -> Events \cup {NoEvent}] : f = [link.firing EXCEPT ![t] = NoEvent]
        BY DEF IInv
      <4>3. PICK h \in [Parents -> {"online", "closed"}] : h = [link.heard EXCEPT ![ev.id] = ev.state]
        BY <3>2 DEF IInv, Events
      <4>4. PICK on \in SUBSET Parents :
                    on = IF t = "reactor" THEN link.online \ {ev.id} ELSE link.online
        BY DEF IInv
      <4>5. link' = [link EXCEPT !.active = p, !.firing = f, !.heard = h, !.online = on]
        BY <4>1, <4>2, <4>3, <4>4 DEF IInv
      <4>6. QED
        BY <4>5 DEF IInv
    <3>5. QED
      <4>1. \A p : p \in (IF ev.state = "online"
                            THEN {IF link.active = None THEN ev.id ELSE link.active}
                            ELSE IF ev.id = link.active THEN OneOf(link.online \ {ev.id})
                                 ELSE {link.active})
                   => p \in Parents \cup {None}
        BY <3>2 DEF IInv, Events, OneOf
      <4>2. QED
        BY <2>3, <3>1, <3>3, <3>4, <4>1 DEF on_peer_event
  <2>4. ASSUME do_sync_work PROVE LinkType'
    BY <2>4 DEF IInv, do_sync_work
  <2>5. QED
    BY <2>1, <2>2, <2>3, <2>4
<1>3. QED
  BY <1>1, <1>2 DEF IInv, BreakerType, BalancerType, CallType, Ids, Answers, Slots, Probes,
                    InFlight, ClosedStep

\* The balancer's table and the endpoints' lives.
LEMMA BalancerStep ==
    ASSUME IInv,
           \/ handle_set_sticky
           \/ EntryExpires
           \/ \E e \in Endpoints : EndpointDies(e)
    PROVE  IInv' /\ ClosedStep
<1>1. UNCHANGED <<breaker, rr, call, pending, next, taken, wire, link>>
  BY DEF handle_set_sticky, EntryExpires, EndpointDies
<1>2. BalancerType'
  BY DEF IInv, BalancerType, handle_set_sticky, EntryExpires, EndpointDies
<1>3. QED
  BY <1>1, <1>2 DEF IInv, BreakerType, BalancerType, CallType, LinkType, Ids, Answers, Slots, Probes,
                    InFlight, ClosedStep

\* A breaker that changes while every call stays where it is: the cooldown, the
\* administrator's reset, and a stream that is let in.
LEMMA BreakerStep ==
    ASSUME IInv,
           \/ \E e \in Endpoints : CooldownPasses(e)
           \/ handle_set_breaker
           \/ \E k \in {"plain", "sticky", "shard"} : generic_begin_stream(k)
    PROVE  IInv' /\ ClosedStep
<1>1. UNCHANGED <<call, pending, next, taken, wire, link>>
  BY DEF CooldownPasses, handle_set_breaker, generic_begin_stream
<1>2. BreakerType /\ BalancerType /\ Probes
  BY DEF IInv
<1>3. BreakerType' /\ BalancerType' /\ Probes' /\ ClosedStep
  <2>1. ASSUME NEW e \in Endpoints, CooldownPasses(e)
        PROVE  BreakerType' /\ BalancerType' /\ Probes' /\ ClosedStep
    <3>1. [breaker[e] EXCEPT !.cool = TRUE] \in Breaker
      BY <1>2 DEF BreakerType, Breaker
    <3>2. breaker' = [breaker EXCEPT ![e] = [breaker[e] EXCEPT !.cool = TRUE]]
      BY <2>1 DEF CooldownPasses
    <3>3. /\ breaker' \in [Endpoints -> Breaker]
          /\ \A x \in Endpoints : x # e => breaker'[x] = breaker[x]
          /\ breaker'[e].state = "open" /\ breaker[e].state = "open"
      BY <1>2, <2>1, <3>1, <3>2 DEF BreakerType, Breaker, CooldownPasses
    <3>4. BalancerType'
      BY <1>2, <2>1 DEF BalancerType, CooldownPasses
    <3>5. Probes'
      BY <1>1, <1>2, <2>1, <3>3 DEF Probes, InFlight, CooldownPasses
    <3>6. ClosedStep
      BY <3>3 DEF ClosedStep
    <3>7. QED
      BY <3>3, <3>4, <3>5, <3>6 DEF BreakerType
  <2>2. ASSUME handle_set_breaker
        PROVE  BreakerType' /\ BalancerType' /\ Probes' /\ ClosedStep
    <3>1. PICK E \in {Endpoints} \cup {{e} : e \in Endpoints} :
             breaker' = [e \in Endpoints |-> IF e \in E THEN Fresh ELSE breaker[e]]
      BY <2>2 DEF handle_set_breaker
    <3>2. Fresh \in Breaker /\ Fresh.state = "closed"
      BY CallConstants DEF Fresh, Breaker
    <3>3. /\ breaker' \in [Endpoints -> Breaker]
          /\ \A x \in Endpoints : breaker'[x] = breaker[x] \/ breaker'[x] = Fresh
      BY <1>2, <3>1, <3>2 DEF BreakerType
    <3>4. BalancerType'
      BY <1>2, <2>2 DEF BalancerType, handle_set_breaker
    <3>5. Probes'
      BY <1>1, <1>2, <3>2, <3>3 DEF Probes, InFlight
    <3>6. ClosedStep
      BY <3>3 DEF ClosedStep
    <3>7. QED
      BY <3>3, <3>4, <3>5, <3>6 DEF BreakerType
  <2>3. ASSUME NEW k, generic_begin_stream(k)
        PROVE  BreakerType' /\ BalancerType' /\ Probes' /\ ClosedStep
    <3>1. PICK e \in Endpoints :
             /\ Pick(k, e)
             /\ breaker' = IF Allowed(breaker[e]) THEN [breaker EXCEPT ![e] = Admit(@)] ELSE breaker
      BY <2>3 DEF generic_begin_stream
    <3>2. BalancerType'
      BY <1>2, <3>1, PickBalancer
    <3>3. CASE ~Allowed(breaker[e])
      BY <1>1, <1>2, <3>1, <3>2, <3>3 DEF BreakerType, Probes, InFlight, ClosedStep
    <3>4. CASE Allowed(breaker[e])
      <4>1. breaker[e] \in Breaker
        BY <1>2 DEF BreakerType
      <4>2. /\ Admit(breaker[e]) \in Breaker
            /\ breaker[e].state = "closed" => Admit(breaker[e]) = breaker[e]
            /\ breaker[e].state # "closed" => Admit(breaker[e]).state = "half"
            /\ breaker[e].state # "half" =>
                 breaker[e].state = "closed" \/ (breaker[e].state = "open" /\ breaker[e].cool)
        BY <3>4, <4>1, AdmitBreaker
      <4>3. /\ breaker' \in [Endpoints -> Breaker]
            /\ \A x \in Endpoints : x # e => breaker'[x] = breaker[x]
            /\ breaker'[e] = Admit(breaker[e])
        BY <1>2, <3>1, <3>4, <4>2 DEF BreakerType
      <4>4. Probes'
        BY <1>1, <1>2, <4>2, <4>3 DEF Probes, InFlight
      <4>5. ClosedStep
        BY <4>2, <4>3 DEF ClosedStep
      <4>6. QED
        BY <3>2, <4>3, <4>4, <4>5 DEF BreakerType
    <3>5. QED
      BY <3>3, <3>4
  <2>4. QED
    BY <2>1, <2>2, <2>3
<1>4. QED
  BY <1>1, <1>3 DEF IInv, CallType, LinkType, Ids, Answers, Slots, InFlight

\* A caller between attempts moves on: k is its call afterwards.
LEMMA BetweenAttempts ==
    ASSUME IInv, NEW c \in Callers, ~InFlight(c), NEW k \in Call, k.pc \in {"idle", "pick"},
           k.answer = None, call' = [call EXCEPT ![c] = k], BalancerType',
           UNCHANGED <<breaker, pending, next, taken, wire, link>>
    PROVE  IInv' /\ ClosedStep
<1>1. call \in [Callers -> Call]
  BY DEF IInv, CallType
<1>2. /\ call' \in [Callers -> Call] /\ call'[c] = k
      /\ \A d \in Callers : d # c => call'[d] = call[d]
  BY <1>1
<1>3. /\ k.pc # "wait" /\ call[c].pc # "wait"
      /\ k.pc \notin {"backend", "wait"}
  BY DEF InFlight
<1>4. CallType'
  BY <1>2, <1>3 DEF IInv, CallType, InFlight
<1>5. Ids' /\ Answers'
  BY <1>2, <1>3 DEF IInv, Ids, Answers
<1>6. Slots'
  BY <1>2, <1>3 DEF IInv, Slots
<1>7. Probes'
  BY <1>2, <1>3 DEF IInv, Probes, InFlight
<1>8. QED
  BY <1>4, <1>5, <1>6, <1>7 DEF IInv, BreakerType, LinkType, ClosedStep

\* The rounds of the loop that call nobody.
LEMMA RoundStep ==
    ASSUME IInv, NEW c \in Callers, invoke_for_hello(c) \/ give_up(c) \/ circuit_open(c)
    PROVE  IInv' /\ ClosedStep
<1>1. Idle \in Call /\ [Idle EXCEPT !.pc = "pick"] \in Call
  <2>1. Idle \in Call
    BY DEF Idle, Call
  <2>2. [Idle EXCEPT !.pc = "pick"] \in Call
    BY <2>1 DEF Call
  <2>3. QED
    BY <2>1, <2>2
<1>2. /\ Idle.pc = "idle" /\ [Idle EXCEPT !.pc = "pick"].pc = "pick"
      /\ Idle.answer = None /\ [Idle EXCEPT !.pc = "pick"].answer = None
  BY DEF Idle
<1>3. ~InFlight(c)
  BY DEF InFlight, invoke_for_hello, give_up, circuit_open
<1>4. call[c] \in Call /\ BalancerType
  BY DEF IInv, CallType
<1>5. UNCHANGED <<breaker, pending, next, taken, wire, link>>
  BY DEF invoke_for_hello, give_up, circuit_open
<1>6. CASE invoke_for_hello(c)
  <2>1. BalancerType'
    BY <1>4, <1>6 DEF invoke_for_hello, BalancerType
  <2>2. call' = [call EXCEPT ![c] = [Idle EXCEPT !.pc = "pick"]]
    BY <1>6 DEF invoke_for_hello
  <2>3. QED
    BY <2>1, <2>2, <1>1, <1>2, <1>3, <1>5, BetweenAttempts
<1>7. CASE give_up(c)
  <2>1. BalancerType'
    <3>1. CASE UNCHANGED <<entry, rr>>
      BY <1>4, <3>1 DEF BalancerType
    <3>2. CASE \E e \in call[c].tried : Pick(Kind(c), e)
      <4>1. PICK e \in call[c].tried : Pick(Kind(c), e)
        BY <3>2
      <4>2. e \in Endpoints
        BY <1>4 DEF Call
      <4>3. QED
        BY <1>4, <4>1, <4>2, PickBalancer
    <3>3. QED
      BY <1>7, <3>1, <3>2 DEF give_up
  <2>2. call' = [call EXCEPT ![c] = Idle]
    BY <1>7 DEF give_up
  <2>3. QED
    BY <2>1, <2>2, <1>1, <1>2, <1>3, <1>5, BetweenAttempts
<1>8. CASE circuit_open(c)
  <2>1. PICK e \in Endpoints \ call[c].tried :
           /\ Pick(Kind(c), e)
           /\ call' = [call EXCEPT ![c].attempt = @ + 1, ![c].tried = @ \cup {e}]
    BY <1>8 DEF circuit_open
  <2>2. BalancerType'
    BY <1>4, <2>1, PickBalancer
  <2> DEFINE a == [call[c] EXCEPT !.attempt = @ + 1]
             b == [a EXCEPT !.tried = @ \cup {e}]
  <2>3. a \in Call /\ a.pc = "pick" /\ a.tried = call[c].tried /\ a.answer = None
    BY <1>4, <1>8 DEF Call, circuit_open, IInv, Slots
  <2>4. call' = [call EXCEPT ![c] = b]
    BY <2>1
  <2> HIDE DEF a
  <2>5. b \in Call /\ b.pc = "pick" /\ b.answer = None
    BY <2>3 DEF Call
  <2> HIDE DEF b
  <2>6. QED
    BY <2>2, <2>4, <2>5, <1>3, <1>5, BetweenAttempts
<1>9. QED
  BY <1>6, <1>7, <1>8

\* An attempt ends with res. Its slot is no longer pending, and those of the others are.
LEMMA AttemptEnds ==
    ASSUME IInv, NEW c \in Callers, InFlight(c), NEW res \in Results, Ended(c, res),
           pending' \subseteq pending,
           call[c].pc = "wait" => call[c].rid \notin pending',
           \A r \in pending : r \in pending' \/ (call[c].pc = "wait" /\ r = call[c].rid),
           UNCHANGED <<rr, next, taken, wire, link>>
    PROVE  IInv' /\ ClosedStep
<1> DEFINE e == call[c].ep
<1>1. call \in [Callers -> Call] /\ call[c] \in Call /\ e \in Endpoints /\ call[c].attempt < 2
  BY DEF IInv, CallType
<1>2. breaker \in [Endpoints -> Breaker] /\ breaker[e] \in Breaker
  BY <1>1 DEF IInv, BreakerType
<1>3. PICK k \in Call : /\ k.pc \in {"idle", "pick"} /\ k.answer = None
                        /\ (res = "ok" => k = Idle)
                        /\ call' = [call EXCEPT ![c] = k]
  <2>1. CASE res = "ok"
    <3>1. Idle \in Call /\ Idle.pc = "idle" /\ Idle.answer = None
      BY DEF Idle, Call
    <3>2. call' = [call EXCEPT ![c] = Idle]
      BY <2>1 DEF Ended
    <3>3. QED
      BY <3>1, <3>2
  <2>2. CASE res # "ok"
    <3> DEFINE k1 == [call[c] EXCEPT !.pc = "pick"]
               k2 == [k1 EXCEPT !.attempt = call[c].attempt + 1]
               k3 == [k2 EXCEPT !.status = res]
               k4 == [k3 EXCEPT !.ep = None]
               k5 == [k4 EXCEPT !.probe = FALSE]
               k6 == [k5 EXCEPT !.rid = 0]
               k7 == [k6 EXCEPT !.answer = None]
    <3>1. call' = [call EXCEPT ![c] = k7]
      BY <2>2 DEF Ended
    <3>2. k1 \in Call /\ k1.pc = "pick" /\ call[c].attempt + 1 \in 0..2
      BY <1>1 DEF Call
    <3> HIDE DEF k1
    <3>3. k2 \in Call /\ k2.pc = "pick"
      BY <3>2 DEF Call
    <3> HIDE DEF k2
    <3>4. k3 \in Call /\ k3.pc = "pick"
      BY <3>3 DEF Call
    <3> HIDE DEF k3
    <3>5. k4 \in Call /\ k4.pc = "pick"
      BY <3>4 DEF Call
    <3> HIDE DEF k4
    <3>6. k5 \in Call /\ k5.pc = "pick"
      BY <3>5 DEF Call
    <3> HIDE DEF k5
    <3>7. k6 \in Call /\ k6.pc = "pick"
      BY <3>6 DEF Call
    <3> HIDE DEF k6
    <3>8. k7 \in Call /\ k7.pc = "pick" /\ k7.answer = None
      BY <3>7 DEF Call
    <3> HIDE DEF k7
    <3>9. QED
      BY <2>2, <3>1, <3>8
  <2>3. QED
    BY <2>1, <2>2
<1>4. /\ call' \in [Callers -> Call] /\ call'[c] = k
      /\ \A d \in Callers : d # c => call'[d] = call[d]
      /\ k.pc \notin {"backend", "wait"}
  BY <1>1, <1>3
<1>5. /\ breaker' \in [Endpoints -> Breaker]
      /\ \A x \in Endpoints : x # e => breaker'[x] = breaker[x]
      /\ \/ breaker'[e] = breaker[e]
         \/ /\ res = "ok" /\ breaker'[e].cool = breaker[e].cool
            /\ breaker'[e].state = IF breaker[e].state = "half" THEN "closed" ELSE breaker[e].state
         \/ breaker[e].state = "closed" /\ breaker'[e].state = "closed"
         \/ breaker'[e].state = "open" /\ breaker'[e].cool = FALSE
  <2>1. CASE res = "ok"
    <3>1. breaker' = [breaker EXCEPT ![e] = record_success(breaker[e])]
      BY <2>1 DEF Ended
    <3>2. QED
      BY <1>1, <1>2, <2>1, <3>1, SuccessBreaker
  <2>2. CASE res # "ok"
    <3>1. PICK slow \in BOOLEAN :
             breaker' = IF Recorded(res)
                          THEN [breaker EXCEPT ![e] = record_failure(breaker[e], slow)]
                          ELSE breaker
      BY <2>2 DEF Ended
    <3>2. /\ record_failure(breaker[e], slow) \in Breaker
          /\ \/ breaker[e].state = "closed" /\ record_failure(breaker[e], slow).state = "closed"
             \/ /\ record_failure(breaker[e], slow).state = "open"
                /\ record_failure(breaker[e], slow).cool = FALSE
      BY <1>2, FailureBreaker
    <3>3. CASE Recorded(res)
      BY <1>1, <1>2, <3>1, <3>2, <3>3
    <3>4. CASE ~Recorded(res)
      BY <1>1, <1>2, <3>1, <3>4
    <3>5. QED
      BY <3>3, <3>4
  <2>3. QED
    BY <2>1, <2>2
<1>6. BalancerType'
  BY DEF IInv, BalancerType, Ended, invalidate
<1>7. CallType'
  BY <1>4 DEF IInv, CallType, InFlight
<1>8. Ids'
  <2>1. Ids
    BY DEF IInv
  <2>2. QED
    BY <1>4, <2>1 DEF Ids
<1>9. Answers'
  BY DEF IInv, Answers
<1>10. Slots'
  <2>1. Slots /\ Ids
    BY DEF IInv
  <2>2. \A d \in Callers : call'[d].pc = "wait" => d # c /\ call[d].pc = "wait"
    BY <1>4
  <2>3. \A d \in Callers : call'[d].pc = "wait" => (call[d].rid \in pending => call[d].rid \in pending')
    BY <2>1, <2>2 DEF Ids
  <2>4. \A r \in pending' : \E d \in Callers : call'[d].pc = "wait" /\ call'[d].rid = r
    <3>1. SUFFICES ASSUME NEW r \in pending'
                   PROVE \E d \in Callers : call'[d].pc = "wait" /\ call'[d].rid = r
      OBVIOUS
    <3>2. PICK d \in Callers : call[d].pc = "wait" /\ call[d].rid = r
      BY <2>1 DEF Slots
    <3>3. d # c
      BY <3>2
    <3>4. QED
      BY <1>4, <3>2, <3>3
  <2>5. \A d \in Callers : call'[d].pc = "wait" =>
           \/ call'[d].rid \in pending' /\ call'[d].answer = None
           \/ \E m \in taken' : m.rid = call'[d].rid
           \/ call'[d].answer # None
    BY <1>4, <2>1, <2>2, <2>3 DEF Slots
  <2>6. \A d \in Callers : call'[d].answer # None
                             => call'[d].pc = "wait" /\ call'[d].rid \notin pending'
    BY <1>3, <1>4, <2>1 DEF Slots
  <2>7. QED
    BY <2>4, <2>5, <2>6 DEF Slots
<1>11. Probes'
  <2>1. Probes
    BY DEF IInv
  <2>2. \A x \in Endpoints : /\ breaker'[x].state = "half" => breaker[x].state = "half"
                             /\ breaker'[x].state = "open" /\ breaker'[x].cool
                                  => breaker[x].state = "open" /\ breaker[x].cool
    BY <1>5
  <2>3. SUFFICES ASSUME NEW x \in Endpoints, NEW d \in Callers, InFlight(d)', call'[d].ep = x
                 PROVE  /\ ~(breaker'[x].state = "open" /\ breaker'[x].cool)
                        /\ breaker'[x].state = "half" => call'[d].probe
    BY DEF Probes
  <2>4. d # c /\ call'[d] = call[d] /\ InFlight(d)
    BY <1>4, <2>3 DEF InFlight
  <2>5. QED
    BY <2>1, <2>2, <2>3, <2>4 DEF Probes
<1>12. ClosedStep
  <2>1. SUFFICES ASSUME NEW x \in Endpoints, breaker[x].state = "half", breaker'[x].state = "closed"
                 PROVE  \E d \in Callers : call[d].probe /\ call[d].ep = x /\ InFlight(d)
                                           /\ call'[d] = Idle
    BY DEF ClosedStep
  <2>2. x = e /\ res = "ok"
    BY <1>5, <2>1
  <2>3. call[c].probe
    BY <1>1, <2>1, <2>2 DEF IInv, Probes
  <2>4. call'[c] = Idle
    BY <1>3, <1>4, <2>2
  <2>5. QED
    BY <2>2, <2>3, <2>4
<1>13. QED
  BY <1>5, <1>6, <1>7, <1>8, <1>9, <1>10, <1>11, <1>12 DEF IInv, BreakerType, LinkType

\* call_backend's answer, the answer wait_for ends with, and its timeout.
LEMMA EndStep ==
    ASSUME IInv, NEW c \in Callers, call_backend(c) \/ answered(c) \/ rpc_timeout(c)
    PROVE  IInv' /\ ClosedStep
<1>1. call[c] \in Call
  BY DEF IInv, CallType
<1>2. CASE call_backend(c)
  <2>1. PICK res \in {"ok", "error"} : Ended(c, res)
    BY <1>2 DEF call_backend
  <2>2. InFlight(c) /\ res \in Results /\ call[c].pc # "wait"
    BY <1>2 DEF InFlight, Results, call_backend
  <2>3. UNCHANGED <<rr, pending, next, taken, wire, link>>
    BY <1>2 DEF call_backend
  <2>4. QED
    BY <2>1, <2>2, <2>3, AttemptEnds
<1>3. CASE answered(c)
  <2>1. InFlight(c) /\ call[c].answer \in Results /\ Ended(c, call[c].answer)
    BY <1>1, <1>3 DEF InFlight, Call, answered
  <2>2. call[c].rid \notin pending
    BY <1>3 DEF IInv, Slots, answered
  <2>3. UNCHANGED <<rr, pending, next, taken, wire, link>>
    BY <1>3 DEF answered
  <2>4. QED
    BY <2>1, <2>2, <2>3, AttemptEnds
<1>4. CASE rpc_timeout(c)
  <2>1. InFlight(c) /\ "timeout" \in Results /\ Ended(c, "timeout") /\ call[c].pc = "wait"
    BY <1>4 DEF InFlight, Results, rpc_timeout
  <2>2. pending' = pending \ {call[c].rid}
    BY <1>4 DEF rpc_timeout
  <2>3. UNCHANGED <<rr, next, taken, wire, link>>
    BY <1>4 DEF rpc_timeout
  <2>4. QED
    BY <2>1, <2>2, <2>3, AttemptEnds
<1>5. QED
  BY <1>2, <1>3, <1>4

\* An attempt starts: at a backend of this leaf, or with a new slot and a request.
LEMMA StartStep ==
    ASSUME IInv, NEW c \in Callers, start_attempt(c)
    PROVE  IInv' /\ ClosedStep
<1>1. PICK e \in Endpoints \ call[c].tried :
         /\ Pick(Kind(c), e)
         /\ Allowed(breaker[e])
         /\ breaker' = [breaker EXCEPT ![e] = Admit(@)]
         /\ call' = [call EXCEPT ![c].pc = IF e \in Local THEN "backend" ELSE "wait",
                                 ![c].ep = e, ![c].tried = @ \cup {e},
                                 ![c].rid = IF e \in Local THEN 0 ELSE next,
                                 ![c].probe = breaker[e].state # "closed"]
         /\ IF e \in Local THEN UNCHANGED <<pending, next, wire>> ELSE send_routed_request(e)
  BY DEF start_attempt
<1>2. UNCHANGED <<taken, link>> /\ call[c].pc = "pick" /\ call[c].attempt < 2
  BY DEF start_attempt
<1>3. /\ call \in [Callers -> Call] /\ call[c] \in Call /\ next \in Nat
      /\ breaker \in [Endpoints -> Breaker] /\ breaker[e] \in Breaker
  BY DEF IInv, CallType, BreakerType, Ids
<1>4. BalancerType'
  BY <1>1, PickBalancer DEF IInv
<1>5. /\ Admit(breaker[e]) \in Breaker
      /\ breaker[e].state = "closed" => Admit(breaker[e]) = breaker[e]
      /\ breaker[e].state # "closed" => Admit(breaker[e]).state = "half"
      /\ breaker[e].state # "half" =>
           breaker[e].state = "closed" \/ (breaker[e].state = "open" /\ breaker[e].cool)
  BY <1>1, <1>3, AdmitBreaker
<1>6. /\ breaker' \in [Endpoints -> Breaker]
      /\ \A x \in Endpoints : x # e => breaker'[x] = breaker[x]
      /\ breaker'[e] = Admit(breaker[e])
  BY <1>1, <1>3, <1>5
<1>7. PICK k \in Call :
         /\ call' = [call EXCEPT ![c] = k]
         /\ k.pc = (IF e \in Local THEN "backend" ELSE "wait") /\ k.ep = e
         /\ k.rid = (IF e \in Local THEN 0 ELSE next) /\ k.attempt < 2
         /\ k.probe = (breaker[e].state # "closed") /\ k.answer = None
  <2> DEFINE pc == IF e \in Local THEN "backend" ELSE "wait"
             rid == IF e \in Local THEN 0 ELSE next
             k1 == [call[c] EXCEPT !.pc = pc]
             k2 == [k1 EXCEPT !.ep = e]
             k3 == [k2 EXCEPT !.tried = call[c].tried \cup {e}]
             k4 == [k3 EXCEPT !.rid = rid]
             k5 == [k4 EXCEPT !.probe = breaker[e].state # "closed"]
  <2>1. call' = [call EXCEPT ![c] = k5]
    BY <1>1
  <2>2. pc \in {"backend", "wait"} /\ rid \in Nat /\ call[c].tried \cup {e} \in SUBSET Endpoints
    BY <1>3 DEF Call
  <2> HIDE DEF pc, rid
  <2>3. k1 \in Call /\ k1.pc = pc /\ k1.attempt < 2 /\ k1.answer = None
    BY <1>2, <1>3, <2>2 DEF Call, IInv, Slots
  <2> HIDE DEF k1
  <2>4. k2 \in Call /\ k2.pc = pc /\ k2.attempt < 2 /\ k2.answer = None /\ k2.ep = e
    BY <2>3 DEF Call
  <2> HIDE DEF k2
  <2>5. k3 \in Call /\ k3.pc = pc /\ k3.attempt < 2 /\ k3.answer = None /\ k3.ep = e
    BY <2>2, <2>4 DEF Call
  <2> HIDE DEF k3
  <2>6. /\ k4 \in Call /\ k4.pc = pc /\ k4.attempt < 2 /\ k4.answer = None /\ k4.ep = e
        /\ k4.rid = rid
    BY <2>2, <2>5 DEF Call
  <2> HIDE DEF k4
  <2>7. /\ k5 \in Call /\ k5.pc = pc /\ k5.attempt < 2 /\ k5.ep = e /\ k5.rid = rid
        /\ k5.probe = (breaker[e].state # "closed") /\ k5.answer = None
    BY <2>6 DEF Call
  <2> HIDE DEF k5
  <2>8. QED
    BY <2>1, <2>7 DEF pc, rid
<1>8. /\ call' \in [Callers -> Call] /\ call'[c] = k
      /\ \A d \in Callers : d # c => call'[d] = call[d]
  BY <1>3, <1>7
<1>9. CallType'
  BY <1>2, <1>7, <1>8 DEF IInv, CallType, InFlight
<1>10. Probes'
  <2>1. SUFFICES ASSUME NEW x \in Endpoints, NEW d \in Callers, InFlight(d)', call'[d].ep = x
                 PROVE  /\ ~(breaker'[x].state = "open" /\ breaker'[x].cool)
                        /\ breaker'[x].state = "half" => call'[d].probe
    BY DEF Probes
  <2>2. CASE d = c
    <3>1. x = e /\ call'[d].probe = (breaker[e].state # "closed")
      BY <1>7, <1>8, <2>1, <2>2
    <3>2. QED
      BY <1>5, <1>6, <3>1
  <2>3. CASE d # c
    <3>1. InFlight(d) /\ call[d].ep = x /\ call'[d].probe = call[d].probe
      BY <1>8, <2>1, <2>3 DEF InFlight
    <3>2. /\ ~(breaker[x].state = "open" /\ breaker[x].cool)
          /\ breaker[x].state = "half" => call[d].probe
      BY <3>1 DEF IInv, Probes
    <3>3. CASE x = e
      BY <1>5, <1>6, <3>1, <3>2, <3>3
    <3>4. CASE x # e
      BY <1>6, <3>1, <3>2, <3>4
    <3>5. QED
      BY <3>3, <3>4
  <2>4. QED
    BY <2>2, <2>3
<1>11. ClosedStep
  BY <1>5, <1>6 DEF ClosedStep
<1>12. Ids' /\ Answers' /\ Slots'
  <2>0. Ids /\ Answers /\ Slots
    BY DEF IInv
  <2>1. CASE e \in Local
    <3>1. UNCHANGED <<pending, next, wire, taken>>
      BY <1>1, <1>2, <2>1
    <3>2. k.pc # "wait" /\ call[c].pc # "wait"
      BY <1>2, <1>7, <2>1
    <3>3. Ids' /\ Answers'
      BY <1>8, <2>0, <3>1, <3>2 DEF Ids, Answers
    <3>4. Slots'
      BY <1>7, <1>8, <2>0, <3>1, <3>2 DEF Slots
    <3>5. QED
      BY <3>3, <3>4
  <2>2. CASE e \notin Local
    <3>1. /\ pending' = pending \cup {next} /\ next' = next + 1 /\ taken' = taken
          /\ \A m \in wire' : m \in wire \/ m.kind = "request"
      BY <1>1, <1>2, <2>2 DEF send_routed_request, send_to_mesh
    <3>2. k.pc = "wait" /\ k.rid = next /\ call[c].pc # "wait"
      BY <1>2, <1>7, <2>2
    <3>4. Ids'
      BY <1>8, <2>0, <3>1, <3>2 DEF Ids
    <3>5. Answers'
      <4>1. \A m \in taken' : m.rid \in 1..(next' - 1) /\ m.rid \notin pending' /\ m.res \in Results
        BY <1>3, <2>0, <3>1 DEF Answers
      <4>2. QED
        BY <2>0, <3>1, <4>1 DEF Answers
    <3>6. Slots'
      <4>1. \A r \in pending' : \E d \in Callers : call'[d].pc = "wait" /\ call'[d].rid = r
        BY <1>8, <2>0, <3>1, <3>2 DEF Slots
      <4>2. \A d \in Callers : call'[d].pc = "wait" =>
               \/ call'[d].rid \in pending' /\ call'[d].answer = None
               \/ \E m \in taken' : m.rid = call'[d].rid
               \/ call'[d].answer # None
        BY <1>7, <1>8, <2>0, <3>1, <3>2 DEF Slots
      <4>3. \A d \in Callers : call'[d].answer # None
                                 => call'[d].pc = "wait" /\ call'[d].rid \notin pending'
        <5>1. SUFFICES ASSUME NEW d \in Callers, call'[d].answer # None
                       PROVE  call'[d].pc = "wait" /\ call'[d].rid \notin pending'
          OBVIOUS
        <5>2. d # c /\ call'[d] = call[d]
          BY <1>7, <1>8, <5>1
        <5>3. call[d].pc = "wait" /\ call[d].rid \notin pending /\ call[d].rid \in 1..(next - 1)
          BY <2>0, <5>1, <5>2 DEF Slots, Ids
        <5>4. QED
          BY <1>3, <3>1, <5>2, <5>3
      <4>4. QED
        BY <4>1, <4>2, <4>3 DEF Slots
    <3>7. QED
      BY <3>4, <3>5, <3>6
  <2>3. QED
    BY <2>1, <2>2
<1>13. QED
  BY <1>2, <1>4, <1>6, <1>9, <1>10, <1>11, <1>12 DEF IInv, BreakerType, LinkType

\* What happens to requests and responses on their way.
LEMMA WireStep ==
    ASSUME IInv, NEW m \in wire,
           \/ route_request_refused(m) \/ handle_inbound_request(m)
           \/ process_inbound_request(m) \/ Lose(m) \/ take_slot(m)
    PROVE  IInv' /\ ClosedStep
<1>1. UNCHANGED <<breaker, entry, rr, call, next, link>>
  BY DEF route_request_refused, handle_inbound_request, process_inbound_request, Answer,
         Lose, take_slot
<1>2. \A w \in wire' : w.kind = "response" => w.res \in Results
  <2>1. CASE \E res \in Results : Answer(m, res)
    <3>1. PICK res \in Results : Answer(m, res)
      BY <2>1
    <3>2. wire' = (wire \ {m}) \cup {Response(m.rid, res)} /\ Response(m.rid, res).res = res
      BY <3>1 DEF Answer, Response
    <3>3. QED
      BY <3>2 DEF IInv, Answers
  <2>2. CASE wire' \subseteq wire
    BY <2>2 DEF IInv, Answers
  <2>3. CASE route_request_refused(m) \/ handle_inbound_request(m)
    BY <2>1, <2>3 DEF route_request_refused, handle_inbound_request, Results
  <2>4. CASE process_inbound_request(m)
    BY <2>1, <2>4 DEF process_inbound_request, BackendResult, Results
  <2>5. CASE Lose(m) \/ take_slot(m)
    BY <2>2, <2>5 DEF Lose, take_slot
  <2>6. QED
    BY <2>3, <2>4, <2>5
<1>3. Ids' /\ Answers' /\ Slots'
  <2>0. Ids /\ Answers /\ Slots
    BY DEF IInv
  <2>1. CASE UNCHANGED <<pending, taken>>
    BY <1>1, <1>2, <2>0, <2>1 DEF Ids, Answers, Slots
  <2>2. CASE /\ m.rid \in pending /\ m.kind = "response" /\ taken = {}
             /\ pending' = pending \ {m.rid} /\ taken' = {m}
    <3>1. m.res \in Results /\ m.rid \in 1..(next - 1)
      BY <2>0, <2>2 DEF Answers, Ids
    <3>2. Ids' /\ Answers'
      BY <1>1, <1>2, <2>0, <2>2, <3>1 DEF Ids, Answers
    <3>3. Slots'
      BY <1>1, <2>0, <2>2 DEF Slots
    <3>4. QED
      BY <3>2, <3>3
  <2>3. QED
    BY <2>1, <2>2 DEF route_request_refused, handle_inbound_request, process_inbound_request,
                      Answer, Lose, take_slot
<1>4. QED
  BY <1>1, <1>3 DEF IInv, BreakerType, BalancerType, CallType, LinkType, Probes, InFlight,
                    ClosedStep

\* handle_inbound_response fills the slot it took, unless its caller has gone.
LEMMA FillStep ==
    ASSUME IInv, fill_slot
    PROVE  IInv' /\ ClosedStep
<1>1. PICK m \in taken :
         call' = [c \in Callers |-> IF call[c].pc = "wait" /\ call[c].rid = m.rid
                                      THEN [call[c] EXCEPT !.answer = m.res] ELSE call[c]]
  BY DEF fill_slot
<1>2. UNCHANGED <<breaker, entry, rr, pending, next, wire, link>> /\ taken' = {}
  BY DEF fill_slot
<1>3. m.res \in Results /\ m.rid \notin pending /\ \A n \in taken : n = m
  BY DEF IInv, Answers
<1>4. ASSUME NEW c \in Callers
      PROVE  /\ call'[c] \in Call
             /\ call'[c].pc = call[c].pc /\ call'[c].rid = call[c].rid
             /\ call'[c].ep = call[c].ep /\ call'[c].attempt = call[c].attempt
             /\ call'[c].probe = call[c].probe
             /\ call'[c].answer = IF call[c].pc = "wait" /\ call[c].rid = m.rid
                                    THEN m.res ELSE call[c].answer
  <2>1. call[c] \in Call
    BY DEF IInv, CallType
  <2>2. CASE call[c].pc = "wait" /\ call[c].rid = m.rid
    BY <1>1, <1>3, <2>1, <2>2 DEF Call
  <2>3. CASE ~(call[c].pc = "wait" /\ call[c].rid = m.rid)
    BY <1>1, <2>1, <2>3
  <2>4. QED
    BY <2>2, <2>3
<1>5. call' \in [Callers -> Call]
  BY <1>1, <1>4
<1>6. CallType'
  BY <1>4, <1>5 DEF IInv, CallType, InFlight
<1>7. Ids' /\ Answers'
  BY <1>2, <1>4 DEF IInv, Ids, Answers
<1>8. Slots'
  <2>1. Slots
    BY DEF IInv
  <2>2. None \notin Results
    BY DEF None, Results
  <2>3. \A c \in Callers : call'[c].pc = "wait" =>
           \/ call'[c].rid \in pending' /\ call'[c].answer = None
           \/ call'[c].answer # None
    BY <1>2, <1>3, <1>4, <2>1, <2>2 DEF Slots
  <2>4. \A c \in Callers : call'[c].answer # None
                             => call'[c].pc = "wait" /\ call'[c].rid \notin pending'
    BY <1>2, <1>3, <1>4, <2>1 DEF Slots
  <2>5. \A r \in pending' : \E c \in Callers : call'[c].pc = "wait" /\ call'[c].rid = r
    BY <1>2, <1>4, <2>1 DEF Slots
  <2>6. QED
    BY <2>3, <2>4, <2>5 DEF Slots
<1>9. Probes' /\ ClosedStep
  BY <1>2, <1>4 DEF IInv, Probes, InFlight, ClosedStep
<1>10. QED
  BY <1>2, <1>6, <1>7, <1>8, <1>9 DEF IInv, BreakerType, BalancerType, LinkType

LEMMA NextIInv ==
    ASSUME IInv, [Next]_vars
    PROVE  IInv' /\ ClosedStep
<1>1. CASE UNCHANGED vars
  BY <1>1 DEF vars, IInv, BreakerType, BalancerType, CallType, LinkType, Ids, Answers, Slots,
              Probes, InFlight, ClosedStep
<1>2. CASE Next
  <2>1. CASE \E c \in Callers : invoke_for_hello(c) \/ CallStep(c)
    BY <2>1, RoundStep, StartStep, EndStep DEF CallStep
  <2>2. CASE \E e \in Endpoints : CooldownPasses(e) \/ EndpointDies(e)
    BY <2>2, BreakerStep, BalancerStep
  <2>3. CASE handle_set_breaker \/ handle_set_sticky \/ EntryExpires
    BY <2>3, BreakerStep, BalancerStep
  <2>4. CASE \E k \in {"plain", "sticky", "shard"} : generic_begin_stream(k)
    BY <2>4, BreakerStep
  <2>5. CASE \E m \in wire : \/ route_request_refused(m) \/ handle_inbound_request(m)
                             \/ process_inbound_request(m)
                             \/ Lose(m) \/ take_slot(m)
    BY <2>5, WireStep
  <2>6. CASE fill_slot
    BY <2>6, FillStep
  <2>7. CASE \/ \E p \in Parents : LinkOnline(p)
             \/ \E p \in Parents, t \in Transport : LinkClosed(p, t)
             \/ \E t \in Transport : on_peer_event(t)
             \/ do_sync_work
    BY <2>7, LinkStep
  <2>8. QED
    BY <1>2, <2>1, <2>2, <2>3, <2>4, <2>5, <2>6, <2>7 DEF Next
<1>3. QED
  BY <1>1, <1>2
-----------------------------------------------------------------------------
LEMMA Inductive == Spec => []IInv
<1>1. IInv /\ [Next]_vars => IInv'
  BY NextIInv
<1>2. QED
  BY InitIInv, <1>1, PTL DEF Spec

\* Whichever of timeout, late answer and second attempt comes first, m_pending holds
\* the slots of the callers that wait and of nobody else.
THEOREM PendingSlots == Spec => []PendingIsWaited
<1>1. IInv => PendingIsWaited
  <2>1. IInv => TypeOK
    BY DEF IInv, TypeOK, BreakerType, Breaker, BalancerType, CallType, Call, LinkType, Ids
  <2>2. QED
    BY <2>1 DEF IInv, Slots, PendingIsWaited
<1>2. QED
  BY Inductive, <1>1, PTL

\* A late success of a call from before the circuit opened never closes it: only a probe
\* that was let in after the cooldown does, or the administrator.
THEOREM ProbeCloses == Spec => ClosedByProbe
<1>1. IInv /\ [Next]_vars => [ClosedStep]_vars
  BY NextIInv
<1>2. [ClosedStep]_vars => [\A e \in Endpoints :
         breaker[e].state = "half" /\ breaker'[e].state = "closed" /\ breaker'[e] # Fresh
           => \E c \in Callers : call[c].probe /\ call[c].ep = e /\ InFlight(c)
                                 /\ call'[c] = Idle]_vars
  BY DEF ClosedStep
<1>3. QED
  BY Inductive, <1>1, <1>2, PTL DEF Spec, ClosedByProbe
=============================================================================
