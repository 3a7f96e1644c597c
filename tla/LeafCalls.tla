------------------------------ MODULE LeafCalls ------------------------------
(***************************************************************************)
(* Unary calls of a leaf (leaf_runtime.cpp: invoke_for_hello): an endpoint *)
(* is picked (routing.cpp: StickyBalancer), admitted by its circuit        *)
(* breaker (circuit_breaker.cpp) and called here or, over the mesh, at     *)
(* another leaf; a second endpoint is tried when the first one fails.      *)
(*                                                                         *)
(*   breaker  EndpointStats of every endpoint; cool: the cooldown is over  *)
(*   entry    endpoint of the one session of the sticky callers, or None   *)
(*   rr       round_robin_ modulo the number of endpoints                  *)
(*   call     for each caller the call it is in: its thread's position,    *)
(*            attempt, tried, endpoint, whether it was let in as a probe   *)
(*   pending  request ids in m_pending;  next  the next request id         *)
(*   taken    the response handle_inbound_response works on, if any        *)
(*   wire     requests and responses under way between the leaves          *)
(*   alive    endpoints whose backend still sends heartbeats               *)
(*   link     parents that are Online, m_active_parent, the event each     *)
(*            thread of the transport is about to report, what was reported  *)
(*            last of each parent, whether the leaf hangs, outages so far    *)
(*                                                                         *)
(* The directory's contents are MeshDirectory's subject and fixed here.    *)
(***************************************************************************)
EXTENDS Naturals, Sequences

CONSTANTS Callers,      \* threads that call invoke_for_hello
          Sticky,       \* the callers of one session ("sticky" and a sid)
          Sharded,      \* the callers with a shard key
          List,         \* the endpoints of the service, as the directory lists them
          Local,        \* those of this leaf
          Parents,      \* m_parent_ids
          Threshold,    \* consecutive_failure_threshold
          MinSamples,   \* min_samples; the error rate threshold is one half
          HalfOpenMax,  \* half_open_max
          MaxCalls,     \* bound: calls of a run
          MaxOutages,   \* bound: closed links of a run
          MaxFaults     \* bound: losses, dead endpoints, resets, streams, expiries

None == "none"

ASSUME CallConstants ==
    /\ Len(List) \in Nat \ {0} /\ Sticky \cap Sharded = {}
    /\ Parents # {} /\ None \notin Parents
    /\ {Threshold, MinSamples, HalfOpenMax} \subseteq Nat \ {0}
    /\ {MaxCalls, MaxOutages, MaxFaults} \subseteq Nat

VARIABLES breaker, entry, rr, call, pending, next, taken, wire, alive, link, calls, faults

vars == <<breaker, entry, rr, call, pending, next, taken, wire, alive, link, calls, faults>>

Endpoints == {List[i] : i \in 1..Len(List)}

\* Bound: links are closed in runs with at most one call or fault.
Calm  == link.outages = 0 \/ calls + faults = 0
Fault == Calm /\ faults < MaxFaults /\ faults' = faults + 1

\* The transport's threads that report PeerEvents, each one event at a time.
Transport == {"receiver", "reactor"}
NoEvent == [id |-> None, state |-> None]

Fresh == [state |-> "closed", cool |-> FALSE, total_calls |-> 0, errors |-> 0,
          consecutive_failures |-> 0, half_open_count |-> 0]

Idle == [pc |-> "idle", attempt |-> 0, tried |-> {}, ep |-> None, probe |-> FALSE,
         rid |-> 0, answer |-> None, status |-> None]

Init ==
    /\ breaker = [e \in Endpoints |-> Fresh]
    /\ entry = None /\ rr = 0
    /\ call = [c \in Callers |-> Idle]
    /\ pending = {} /\ next = 1 /\ taken = {} /\ wire = {}
    /\ alive = Endpoints
    /\ link = [online |-> Parents, active |-> CHOOSE p \in Parents : TRUE,
               firing |-> [t \in Transport |-> NoEvent], heard |-> [p \in Parents |-> "online"],
               hung |-> FALSE, outages |-> 0]
    /\ calls = 0 /\ faults = 0

------------------------------------------------------------------------------
(* Circuit breaker *)

\* Mutant: the first call after the circuit opened is let in.
Allowed_hot(r) == r.state # "half" \/ r.half_open_count < HalfOpenMax

Allowed(r) ==
    \/ r.state = "closed"
    \/ r.state = "open" /\ r.cool
    \/ r.state = "half" /\ r.half_open_count < HalfOpenMax

\* allow(), when it returns true.
Admit(r) ==
    CASE r.state = "open" -> [r EXCEPT !.state = "half", !.half_open_count = 1]
      [] r.state = "half" -> [r EXCEPT !.half_open_count = @ + 1]
      [] OTHER -> r

record_success(r) ==
    [r EXCEPT !.total_calls = @ + 1, !.consecutive_failures = 0,
              !.state = IF @ = "half" THEN "closed" ELSE @]

\* record_failure. slow: the average latency is above its threshold.
record_failure(r, slow) ==
    LET n == [r EXCEPT !.total_calls = @ + 1, !.errors = @ + 1, !.consecutive_failures = @ + 1]
        trips == \/ n.state # "closed"
                 \/ n.consecutive_failures >= Threshold
                 \/ n.total_calls >= MinSamples /\ (2 * n.errors >= n.total_calls \/ slow)
    IN  IF trips THEN [n EXCEPT !.state = "open", !.cool = FALSE] ELSE n

InFlight(c) == call[c].pc \in {"backend", "wait"}

\* The cooldown (30 s) is longer than any attempt (rpc_timeout 15 s, backend_timeout
\* less): an attempt admitted before the circuit opened has ended when it is over.
CooldownPasses(e) ==
    /\ breaker[e].state = "open" /\ ~breaker[e].cool
    /\ \A c \in Callers : InFlight(c) => call[c].ep # e
    /\ breaker' = [breaker EXCEPT ![e].cool = TRUE]
    /\ UNCHANGED <<entry, rr, call, pending, next, taken, wire, alive, link, calls, faults>>

\* handle_set_breaker: the administrator resets one circuit, or all of them.
handle_set_breaker ==
    /\ Fault
    /\ \E E \in {Endpoints} \cup {{e} : e \in Endpoints} :
          breaker' = [e \in Endpoints |-> IF e \in E THEN Fresh ELSE breaker[e]]
    /\ UNCHANGED <<entry, rr, call, pending, next, taken, wire, alive, link, calls>>

------------------------------------------------------------------------------
(* Balancer *)

\* m_mutex can be taken: no thread of the leaf waits for ever with it (Parents, below).
MutexFree == ~link.hung

\* StickyBalancer::pick of endpoint e, under m_mutex: shard key, then session, then round
\* robin. The session's entry serves while its endpoint lives, and is replaced otherwise.
Pick(kind, e) ==
    /\ MutexFree
    /\ CASE kind = "shard" ->
              e = List[1] /\ UNCHANGED <<entry, rr>>
         [] kind = "sticky" /\ entry # None /\ entry \in alive ->
              e = entry /\ UNCHANGED <<entry, rr>>
         [] OTHER ->
              /\ e = List[rr + 1]
              /\ rr' = (rr + 1) % Len(List)
              /\ entry' = IF kind = "sticky" THEN e ELSE entry

Kind(c) == CASE c \in Sticky -> "sticky" [] c \in Sharded -> "shard" [] OTHER -> "plain"

\* A session that was silent for the ttl has its entry marked lru: it serves no more.
EntryExpires ==
    /\ Fault
    /\ entry # None
    /\ entry' = None
    /\ UNCHANGED <<breaker, rr, call, pending, next, taken, wire, alive, link, calls>>

\* handle_set_sticky with a new ttl forgets every session.
handle_set_sticky ==
    /\ MutexFree
    /\ Fault
    /\ entry' = None
    /\ UNCHANGED <<breaker, rr, call, pending, next, taken, wire, alive, link, calls>>

\* The sessions of an endpoint that failed are dropped.
invalidate(e) == entry' = IF entry = e THEN None ELSE entry

------------------------------------------------------------------------------
(* Calls *)

invoke_for_hello(c) ==
    /\ call[c].pc = "idle" /\ calls < MaxCalls /\ Calm
    /\ calls' = calls + 1
    /\ call' = [call EXCEPT ![c] = [Idle EXCEPT !.pc = "pick"]]
    /\ UNCHANGED <<breaker, entry, rr, pending, next, taken, wire, alive, link, faults>>

\* The loop ends: after two rounds, or when the balancer offers an endpoint again.
give_up(c) ==
    /\ call[c].pc = "pick"
    /\ \/ call[c].attempt = 2 /\ UNCHANGED <<entry, rr>>
       \/ call[c].attempt < 2 /\ \E e \in call[c].tried : Pick(Kind(c), e)
    /\ call' = [call EXCEPT ![c] = Idle]
    /\ UNCHANGED <<breaker, pending, next, taken, wire, alive, link, calls, faults>>

\* A round with an endpoint whose circuit refuses it.
circuit_open(c) ==
    /\ call[c].pc = "pick" /\ call[c].attempt < 2
    /\ \E e \in Endpoints \ call[c].tried :
          /\ Pick(Kind(c), e)
          /\ ~Allowed(breaker[e])
          /\ call' = [call EXCEPT ![c].attempt = @ + 1, ![c].tried = @ \cup {e}]
    /\ UNCHANGED <<breaker, pending, next, taken, wire, alive, link, calls, faults>>

\* send_to_mesh gives the message to the active parent's queue, or when there is none or
\* the queues are full to another parent or a direct connection. A queue takes it whatever
\* the state of the link, so with an active parent that is not Online it may go nowhere.
send_to_mesh(m) ==
    \/ wire' = wire \cup {m}
    \/ link.active \notin link.online /\ wire' = wire

\* send_routed_request up to its wait: the slot, then the request.
send_routed_request(e) ==
    /\ pending' = pending \cup {next}
    /\ next' = next + 1
    /\ send_to_mesh([kind |-> "request", rid |-> next, ep |-> e])

\* A round that calls: pick, allow and the call's start are lock sections of their own
\* that read nothing another thread's section between them could change for this call.
start_attempt(c) ==
    /\ call[c].pc = "pick" /\ call[c].attempt < 2
    /\ \E e \in Endpoints \ call[c].tried :
          /\ Pick(Kind(c), e)
          /\ Allowed(breaker[e])
          /\ breaker' = [breaker EXCEPT ![e] = Admit(@)]
          /\ call' = [call EXCEPT ![c].pc = IF e \in Local THEN "backend" ELSE "wait",
                                  ![c].ep = e, ![c].tried = @ \cup {e},
                                  ![c].rid = IF e \in Local THEN 0 ELSE next,
                                  ![c].probe = breaker[e].state # "closed"]
          /\ IF e \in Local THEN UNCHANGED <<pending, next, wire>> ELSE send_routed_request(e)
    /\ UNCHANGED <<taken, alive, link, calls, faults>>

\* Mutant: a timeout is not recorded either.
Recorded_answer(res) == res \notin {"leaf_not_found", "timeout"}

Recorded(res) == res # "leaf_not_found"

\* The attempt has ended: tell the breaker, and after a failure drop the sessions of
\* the endpoint, under m_mutex, and go on to the next round.
Ended(c, res) ==
    LET e == call[c].ep
    IN  /\ res = "ok" \/ MutexFree
        /\ IF res = "ok"
             THEN breaker' = [breaker EXCEPT ![e] = record_success(@)]
             ELSE \E slow \in BOOLEAN :
                    breaker' = IF Recorded(res)
                                 THEN [breaker EXCEPT ![e] = record_failure(@, slow)]
                                 ELSE breaker
        /\ IF res = "ok" THEN UNCHANGED entry ELSE invalidate(e)
        /\ call' = [call EXCEPT ![c] =
                      IF res = "ok" THEN Idle
                      ELSE [call[c] EXCEPT !.pc = "pick", !.attempt = @ + 1, !.status = res,
                                           !.ep = None, !.probe = FALSE, !.rid = 0, !.answer = None]]

\* call_backend: gRPC answers, or its deadline passes.
call_backend(c) ==
    /\ call[c].pc = "backend"
    /\ \E res \in {"ok", "error"} : Ended(c, res)
    /\ UNCHANGED <<rr, pending, next, taken, wire, alive, link, calls, faults>>

\* wait_for ends with the answer.
answered(c) ==
    /\ call[c].pc = "wait" /\ call[c].answer # None
    /\ Ended(c, call[c].answer)
    /\ UNCHANGED <<rr, pending, next, taken, wire, alive, link, calls, faults>>

\* Mutant: the slot of a call that gave up stays in m_pending.
rpc_timeout_kept(c) ==
    /\ call[c].pc = "wait" /\ call[c].answer = None
    /\ Ended(c, "timeout")
    /\ UNCHANGED <<rr, pending, next, taken, wire, alive, link, calls, faults>>

\* wait_for ends without one; the slot is erased.
rpc_timeout(c) ==
    /\ call[c].pc = "wait" /\ call[c].answer = None
    /\ pending' = pending \ {call[c].rid}
    /\ Ended(c, "timeout")
    /\ UNCHANGED <<rr, next, taken, wire, alive, link, calls, faults>>

\* generic_begin_stream: a stream is picked and admitted like a call; how it ends is
\* never recorded.
generic_begin_stream(kind) ==
    /\ Fault
    /\ \E e \in Endpoints :
          /\ Pick(kind, e)
          /\ breaker' = IF Allowed(breaker[e]) THEN [breaker EXCEPT ![e] = Admit(@)] ELSE breaker
    /\ UNCHANGED <<call, pending, next, taken, wire, alive, link, calls>>

------------------------------------------------------------------------------
(* The mesh *)

Response(rid, res) == [kind |-> "response", rid |-> rid, res |-> res]

\* The request m gives way to its answer.
Answer(m, res) ==
    /\ m \in wire /\ m.kind = "request"
    /\ wire' = (wire \ {m}) \cup {Response(m.rid, res)}
    /\ UNCHANGED <<breaker, entry, rr, call, pending, next, taken, alive, link, calls, faults>>

\* A node without the leaf or the next node answers itself ...
route_request_refused(m) == \E res \in {"leaf_not_found", "error"} : Answer(m, res)

\* ... and so does the destination leaf when its worker queue is full ("overloaded").
handle_inbound_request(m) == Answer(m, "error")

\* What the endpoint's backend answers, for a Greeter or a generic call.
BackendResult(e) == IF e \in alive THEN {"ok", "error"} ELSE {"error"}

\* process_inbound_request by a worker of the destination leaf.
process_inbound_request(m) ==
    /\ m.kind = "request"
    /\ \E res \in BackendResult(m.ep) : Answer(m, res)

\* Nodes drop what they cannot route, leaves without a parent what they cannot send.
Lose(m) ==
    /\ Fault
    /\ m \in wire /\ wire' = wire \ {m}
    /\ UNCHANGED <<breaker, entry, rr, call, pending, next, taken, alive, link, calls>>

\* handle_inbound_response: the slot leaves m_pending ...
take_slot(m) ==
    /\ MutexFree /\ taken = {}
    /\ m \in wire /\ m.kind = "response"
    /\ wire' = wire \ {m}
    /\ IF m.rid \in pending
         THEN pending' = pending \ {m.rid} /\ taken' = {m}
         ELSE UNCHANGED <<pending, taken>>
    /\ UNCHANGED <<breaker, entry, rr, call, next, alive, link, calls, faults>>

\* ... and then is filled; its caller may have given up in between.
fill_slot ==
    /\ \E m \in taken :
          call' = [c \in Callers |-> IF call[c].pc = "wait" /\ call[c].rid = m.rid
                                       THEN [call[c] EXCEPT !.answer = m.res] ELSE call[c]]
    /\ taken' = {}
    /\ UNCHANGED <<breaker, entry, rr, pending, next, wire, alive, link, calls, faults>>

EndpointDies(e) ==
    /\ Fault
    /\ e \in alive /\ alive' = alive \ {e}
    /\ UNCHANGED <<breaker, entry, rr, call, pending, next, taken, wire, link, calls>>

------------------------------------------------------------------------------
(* Parents *)

Event(p, s) == [id |-> p, state |-> s]

\* The receiver makes a parent's link Online, and then reports it.
LinkOnline(p) ==
    /\ p \notin link.online /\ link.firing["receiver"] = NoEvent
    /\ link' = [link EXCEPT !.online = @ \cup {p}, !.firing["receiver"] = Event(p, "online")]
    /\ UNCHANGED <<breaker, entry, rr, call, pending, next, taken, wire, alive, calls, faults>>

\* A parent's link is closed, and then reported, by the receiver after a Bye or by the
\* reactor after dead_timeout (check_offline).
LinkClosed(p, t) ==
    /\ link.outages < MaxOutages /\ calls + faults <= 1
    /\ link.firing[t] = NoEvent
    /\ link' = [link EXCEPT !.online = @ \ {p}, !.firing[t] = Event(p, "closed"), !.outages = @ + 1]
    /\ UNCHANGED <<breaker, entry, rr, call, pending, next, taken, wire, alive, calls, faults>>

OneOf(ps) == IF ps = {} THEN {None} ELSE ps

\* check_offline holds m_peers_mutex, which peers() locks, until its report is made.
PeersLocked == link.firing["reactor"] # NoEvent

\* Mutant: a closed parent stays the active one.
on_peer_event_kept(t) ==
    LET ev == link.firing[t]
    IN  /\ MutexFree /\ ev # NoEvent
        /\ link' = [link EXCEPT !.active = IF ev.state = "online" /\ @ = None THEN ev.id ELSE @,
                                !.firing[t] = NoEvent, !.heard[ev.id] = ev.state,
                                !.online = IF t = "reactor" THEN @ \ {ev.id} ELSE @]
        /\ UNCHANGED <<breaker, entry, rr, call, pending, next, taken, wire, alive, calls, faults>>

\* The callback of thread t, under m_mutex. When the active parent is closed and there are
\* others it asks peers(), with which the reactor waits for itself, or for the receiver
\* that waits for it. The reactor then goes back to Handshake, whatever came meanwhile.
on_peer_event(t) ==
    LET ev == link.firing[t]
        asks == ev.state = "closed" /\ ev.id = link.active /\ Parents # {ev.id}
        found == IF ev.state = "online"
                   THEN {IF link.active = None THEN ev.id ELSE link.active}
                   ELSE IF ev.id = link.active THEN OneOf(link.online \ {ev.id})
                        ELSE {link.active}
    IN  /\ MutexFree /\ ev # NoEvent
        /\ \/ asks /\ PeersLocked /\ link' = [link EXCEPT !.hung = TRUE]
           \/ /\ ~(asks /\ PeersLocked)
              /\ \E p \in found :
                    link' = [link EXCEPT !.active = p, !.firing[t] = NoEvent,
                                         !.heard[ev.id] = ev.state,
                                         !.online = IF t = "reactor" THEN @ \ {ev.id} ELSE @]
        /\ UNCHANGED <<breaker, entry, rr, call, pending, next, taken, wire, alive, calls, faults>>

\* A leaf without active parent asks peers() as well, with m_mutex held.
do_sync_work ==
    /\ MutexFree /\ link.active = None
    /\ \/ PeersLocked /\ link' = [link EXCEPT !.hung = TRUE]
       \/ ~PeersLocked /\ \E p \in link.online : link' = [link EXCEPT !.active = p]
    /\ UNCHANGED <<breaker, entry, rr, call, pending, next, taken, wire, alive, calls, faults>>

------------------------------------------------------------------------------
CallStep(c) == give_up(c) \/ circuit_open(c) \/ start_attempt(c) \/ call_backend(c)
               \/ answered(c) \/ rpc_timeout(c)

Next ==
    \/ \E c \in Callers : invoke_for_hello(c) \/ CallStep(c)
    \/ \E e \in Endpoints : CooldownPasses(e) \/ EndpointDies(e)
    \/ handle_set_breaker \/ handle_set_sticky \/ EntryExpires
    \/ \E k \in {"plain", "sticky", "shard"} : generic_begin_stream(k)
    \/ \E m \in wire : \/ route_request_refused(m) \/ handle_inbound_request(m)
                       \/ process_inbound_request(m)
                       \/ Lose(m) \/ take_slot(m)
    \/ fill_slot
    \/ \E p \in Parents : LinkOnline(p)
    \/ \E p \in Parents, t \in Transport : LinkClosed(p, t)
    \/ \E t \in Transport : on_peer_event(t)
    \/ do_sync_work

\* Callers' threads go on, gRPC and wait_for have deadlines, the transport's threads
\* go on, and the sync task runs every tick.
Spec ==
    /\ Init /\ [][Next]_vars
    /\ \A c \in Callers : WF_vars(CallStep(c))
    /\ \A t \in Transport : WF_vars(on_peer_event(t))
    /\ WF_vars(fill_slot) /\ WF_vars(do_sync_work)

------------------------------------------------------------------------------
Results == {"ok", "error", "leaf_not_found", "timeout"}

TypeOK ==
    /\ \A e \in Endpoints : /\ breaker[e].state \in {"closed", "open", "half"}
                            /\ breaker[e].half_open_count \in 0..HalfOpenMax
    /\ entry \in Endpoints \cup {None} /\ rr \in 0..(Len(List) - 1)
    /\ \A c \in Callers : /\ call[c].pc \in {"idle", "pick", "backend", "wait"}
                          /\ call[c].attempt \in 0..2
                          /\ call[c].status \in Results \cup {None}
    /\ pending \subseteq 1..(next - 1)
    /\ link.active \in Parents \cup {None}

\* m_pending holds the slots of the callers that wait and of nobody else, whichever of
\* timeout, late answer and second attempt comes first: a caller without its answer is
\* still to be found by it, or the answer that took its slot is about to be filled in.
PendingIsWaited ==
    /\ TypeOK
    /\ \A r \in pending : \E c \in Callers : call[c].pc = "wait" /\ call[c].rid = r
    /\ \A c \in Callers : call[c].pc = "wait" =>
         \/ call[c].rid \in pending /\ call[c].answer = None
         \/ \E m \in taken : m.rid = call[c].rid
         \/ call[c].answer # None

\* A half-open circuit is closed by the success of a probe, let in after the cooldown,
\* not by a late success of a call from before it opened.
ClosedByProbe ==
    [][\A e \in Endpoints :
         breaker[e].state = "half" /\ breaker'[e].state = "closed" /\ breaker'[e] # Fresh
           => \E c \in Callers : call[c].probe /\ call[c].ep = e /\ InFlight(c)
                                 /\ call'[c] = Idle]_vars

\* A call let in as a probe decides: the circuit closes or opens, unless the mesh had
\* no route to the leaf, which is not recorded, or the leaf hangs.
ProbeDecides ==
    \A e \in Endpoints :
       (breaker[e].state = "half" /\ \E c \in Callers : call[c].probe /\ call[c].ep = e)
         ~> (\/ breaker[e].state # "half" \/ link.hung
             \/ \E c \in Callers : call[c].status = "leaf_not_found")

\* When links stop changing, the leaf's active parent is one whose link is Online, if
\* there is any: a parent that came Online while another was active and was not
\* remembered, and reports of two threads that overtake each other, do not leave it
\* without. Unless the last it was told of that parent is that it came Online, or it hangs.
ParentIsFound ==
    <>[](\/ link.online = {} \/ link.active \in link.online \/ link.hung
         \/ link.active \in Parents /\ link.heard[link.active] = "online")

\* "push our directory immediately so a late-started/restarted node mounts this leaf"
\* (leaf_runtime.cpp): a leaf follows the reports. Its active parent may stay one whose
\* Online was reported after the Closed that came after it.
ParentIsOnline == <>[](link.online = {} \/ link.active \in link.online \/ link.hung)

\* "holding m_mutex across it stalls every forwarding and heartbeat path on this leaf"
\* (leaf_runtime.cpp, of a log message): m_mutex is not held for ever.
LeafGoesOn == []MutexFree

\* docs/overview.md: a half-open circuit probes by itself and recovers. It can be asked
\* again, or is being asked.
ProbeIsPossible ==
    \A e \in Endpoints :
       breaker[e].state = "half" ~> Allowed(breaker[e])

==============================================================================
