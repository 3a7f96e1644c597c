--------------------------- MODULE TightPipeline ---------------------------
(***************************************************************************)
(* The way of a message through a Tight endpoint up to its packets         *)
(* (transport.cpp, full mode): send_message puts it in m_send_queue, the   *)
(* reactor moves it to m_encode_queue once the link is up, the encode      *)
(* thread cuts it into packets.  clear_outbound and drain_channel throw    *)
(* away what waits, stop() ends the threads.  What becomes of the packets  *)
(* is left to the sender thread; when its queue is full send_message       *)
(* refuses, which is no step here.                                         *)
(*                                                                         *)
(* One peer; channel 0 is video, 1 audio, any other is like video here.    *)
(***************************************************************************)
EXTENDS Integers, Sequences, FiniteSets

CONSTANTS Kinds,          \* bound: the <<channel, priority>> messages are sent with
          MaxMessages,    \* bound: messages accepted
          QueueLimit,     \* queue_limit
          EncodeLimit,    \* encode_queue_limit
          MaxEvents       \* bound: link failures, drain_channel, clear_outbound

ASSUME PipelineConstants ==
    /\ Kinds \subseteq (0 .. 7) \X {0, 1}
    /\ MaxMessages \in Nat /\ MaxEvents \in Nat
    /\ QueueLimit \in Nat \ {0} /\ EncodeLimit \in Nat \ {0}

VARIABLES
    accepted,      \* number of messages send_message took
    send_queue,    \* m_send_queue: priority -> messages
    local,         \* what process_send_queue has swapped out
    encode_queue,  \* m_encode_queue
    encoded,       \* history: messages in the order they were cut into packets
    moved,         \* history: messages that were put back into a queue
    clearing,      \* the clear_outbound_impl under way
    link,          \* m_state of the peer
    draining,      \* channels whose m_drain_until_ms is in the future
    running,       \* m_running
    closed,        \* the queues are closed
    alive,         \* threads that have not ended
    events         \* bound: events so far

queues == <<accepted, send_queue, local, encode_queue, encoded, moved>>
env == <<link, draining, events>>
control == <<running, closed, alive>>
pipeline == <<queues, clearing, env, control>>

Channels   == {k[1] : k \in Kinds}
Priorities == {0, 1}
Threads    == {"reactor", "encode", "cap"}
MsgType    == [id : 1 .. MaxMessages, ch : Channels, prio : Priorities, whole : BOOLEAN]
Idle       == [at |-> "none", keep |-> <<>>]

\* The messages counted by send_message and by the requeue.
Total == Len(send_queue[0]) + Len(send_queue[1]) + Len(encode_queue)

\* m_encode_queue is a BlockingQueue: try_push is refused when it is closed or
\* full and otherwise links the task at the tail; take_for and poll unlink the head.
CanPush == ~closed /\ Len(encode_queue) < EncodeLimit
Pushed(m) == Append(encode_queue, m)
Unlinked == Tail(encode_queue)

\* No queue grows past its limit, whoever fills it.
TypeOK ==
    /\ accepted \in 0 .. MaxMessages
    /\ send_queue \in [Priorities -> Seq(MsgType)]
    /\ Len(send_queue[0]) + Len(send_queue[1]) <= QueueLimit
    /\ local \in Seq(MsgType)
    /\ encode_queue \in Seq(MsgType) /\ Len(encode_queue) <= EncodeLimit
    /\ encoded \in Seq(MsgType)
    /\ moved \subseteq 1 .. MaxMessages
    /\ clearing.at \in {"none", "encode", "push"} /\ clearing.keep \in Seq(MsgType)
    /\ link \in {"none", "handshake", "linked", "closed"}
    /\ draining \subseteq Channels
    /\ running \in BOOLEAN /\ closed \in BOOLEAN /\ alive \subseteq Threads
    /\ events \in 0 .. MaxEvents

PipelineInit ==
    /\ accepted = 0
    /\ send_queue = [p \in Priorities |-> <<>>] /\ local = <<>>
    /\ encode_queue = <<>> /\ encoded = <<>> /\ moved = {}
    /\ clearing = Idle
    /\ link = "handshake" /\ draining = {}
    /\ running = TRUE /\ closed = FALSE /\ alive = Threads
    /\ events = 0
-----------------------------------------------------------------------------
(* Application *)

\* send_message on channel c with priority p; refused (no step) when as many
\* messages wait as the limit allows.
send_message_on(c, p) ==
    /\ running
    /\ accepted < MaxMessages
    /\ Total < QueueLimit
    /\ accepted' = accepted + 1
    /\ send_queue' = [send_queue EXCEPT ![p] =
                         Append(@, [id |-> accepted', ch |-> c, prio |-> p, whole |-> TRUE])]
    /\ UNCHANGED <<local, encode_queue, encoded, moved, clearing, env, control>>

Event == events < MaxEvents /\ events' = events + 1

\* drain_channel, until its time is over.
drain_channel(c) ==
    /\ Event
    /\ draining' = draining \cup {c}
    /\ UNCHANGED <<queues, clearing, link, control>>

DrainEnds(c) ==
    /\ c \in draining
    /\ draining' = draining \ {c}
    /\ UNCHANGED <<queues, clearing, link, events, control>>

\* clear_outbound_impl, called by the application or by the fast evacuation
\* of video_capacity_bps: messages of priority below 1 go first.
clear_outbound ==
    /\ clearing = Idle
    /\ Event
    /\ send_queue' = [send_queue EXCEPT ![0] = <<>>]
    /\ clearing' = [at |-> "encode", keep |-> <<>>]
    /\ UNCHANGED <<accepted, local, encode_queue, encoded, moved, link, draining, control>>

\* Then the encode queue is emptied task by task, audio put aside.
clear_encode ==
    /\ clearing.at = "encode"
    /\ \/ /\ encode_queue # <<>>
          /\ encode_queue' = Unlinked
          /\ clearing' = [clearing EXCEPT
                !.keep = IF Head(encode_queue).ch = 1 THEN Append(@, Head(encode_queue)) ELSE @]
       \/ /\ encode_queue = <<>>
          /\ clearing' = [clearing EXCEPT !.at = "push"]
          /\ UNCHANGED encode_queue
    /\ UNCHANGED <<accepted, send_queue, local, encoded, moved, env, control>>

\* Then audio goes back as far as there is room.
clear_push ==
    /\ clearing.at = "push"
    /\ \/ /\ clearing.keep # <<>>
          /\ encode_queue' = IF CanPush THEN Pushed(Head(clearing.keep)) ELSE encode_queue
          /\ moved' = moved \cup {Head(clearing.keep).id}
          /\ clearing' = [clearing EXCEPT !.keep = Tail(@)]
       \/ /\ clearing.keep = <<>>
          /\ clearing' = Idle
          /\ UNCHANGED <<encode_queue, moved>>
    /\ UNCHANGED <<accepted, send_queue, local, encoded, env, control>>
-----------------------------------------------------------------------------
(* Reactor thread: process_send_queue *)

\* The queues are swapped out, highest priority first.
process_send_queue_swap ==
    /\ "reactor" \in alive /\ running
    /\ local = <<>>
    /\ send_queue # [p \in Priorities |-> <<>>]
    /\ local' = send_queue[1] \o send_queue[0]
    /\ send_queue' = [p \in Priorities |-> <<>>]
    /\ UNCHANGED <<accepted, encode_queue, encoded, moved, clearing, env, control>>

\* A message goes back to the end of its queue, or is lost when the limit is
\* reached.
requeue(m) ==
    \/ /\ Total < QueueLimit
       /\ send_queue' = [send_queue EXCEPT ![m.prio] = Append(@, m)]
       /\ moved' = moved \cup {m.id}
    \/ Total >= QueueLimit /\ UNCHANGED <<send_queue, moved>>

\* The peer is unknown, the channel is being drained or the link is closed.
Discarded(m) == link \in {"none", "closed"} \/ m.ch \in draining

\* Mutant: a message put back for want of a link is pushed as well.
process_send_queue_twice ==
    LET m == Head(local)
    IN  /\ local # <<>>
        /\ \/ Discarded(m) /\ UNCHANGED <<send_queue, encode_queue, moved>>
           \/ /\ ~Discarded(m) /\ Len(encode_queue) < EncodeLimit
              /\ encode_queue' = Append(encode_queue, m)
              /\ IF link = "handshake" THEN requeue(m) ELSE UNCHANGED <<send_queue, moved>>
           \/ /\ ~Discarded(m) /\ Len(encode_queue) >= EncodeLimit
              /\ requeue([m EXCEPT !.prio = 0, !.whole = FALSE])
              /\ UNCHANGED encode_queue
        /\ local' = Tail(local)
        /\ UNCHANGED <<accepted, encoded, clearing, env, control>>

\* One message: put back until the link is up, then on to the encode queue.
\* When that refuses it, the task that try_push took by value is put back: its
\* payload has been moved out.
process_send_queue ==
    LET m == Head(local)
    IN  /\ local # <<>>
        /\ \/ Discarded(m) /\ UNCHANGED <<send_queue, encode_queue, moved>>
           \/ ~Discarded(m) /\ link = "handshake" /\ requeue(m) /\ UNCHANGED encode_queue
           \/ /\ ~Discarded(m) /\ link = "linked" /\ CanPush
              /\ encode_queue' = Pushed(m)
              /\ UNCHANGED <<send_queue, moved>>
           \/ /\ ~Discarded(m) /\ link = "linked" /\ ~CanPush
              /\ requeue([m EXCEPT !.prio = 0, !.whole = FALSE])
              /\ UNCHANGED encode_queue
        /\ local' = Tail(local)
        /\ UNCHANGED <<accepted, encoded, clearing, env, control>>
-----------------------------------------------------------------------------
(* Encode thread *)

\* Mutant: a lone task is not taken.
encode_loop_lone ==
    /\ "encode" \in alive
    /\ Len(encode_queue) > 1
    /\ encode_queue' = Tail(encode_queue)
    /\ encoded' = Append(encoded, Head(encode_queue))
    /\ UNCHANGED <<accepted, send_queue, local, moved, clearing, env, control>>

\* encode_loop takes a task and cuts it into packets; while the loop runs, one
\* of a channel being drained is dropped.
encode_loop ==
    /\ "encode" \in alive
    /\ encode_queue # <<>>
    /\ encode_queue' = Unlinked
    /\ \/ Head(encode_queue).ch \in draining /\ UNCHANGED encoded
       \/ /\ Head(encode_queue).ch \notin draining \/ ~running
          /\ encoded' = Append(encoded, Head(encode_queue))
    /\ UNCHANGED <<accepted, send_queue, local, moved, clearing, env, control>>
-----------------------------------------------------------------------------
(* stop() and the ends of the threads *)

stop ==
    /\ running
    /\ running' = FALSE
    /\ UNCHANGED <<queues, clearing, env, closed, alive>>

\* Mutant: the queues stay open.
stop_close_forgotten ==
    /\ ~running /\ ~closed
    /\ UNCHANGED pipeline

stop_close ==
    /\ ~running /\ ~closed
    /\ closed' = TRUE
    /\ UNCHANGED <<queues, clearing, env, running, alive>>

\* A thread ends where its loop looks at m_running; the capacity thread sits
\* in take() until its queue is closed, the encode thread first cuts what is
\* left.
ThreadEnds(t) ==
    /\ t \in alive /\ ~running
    /\ t = "reactor" => local = <<>>
    /\ t = "encode"  => encode_queue = <<>>
    /\ t = "cap"     => closed
    /\ alive' = alive \ {t}
    /\ UNCHANGED <<queues, clearing, env, running, closed>>
-----------------------------------------------------------------------------
(* The link state machine (TightLink) *)

LinkUp ==
    /\ link = "handshake"
    /\ link' = "linked"
    /\ UNCHANGED <<queues, clearing, draining, events, control>>

LinkFails(s) ==
    /\ link # s /\ Event
    /\ link' = s
    /\ UNCHANGED <<queues, clearing, draining, control>>
-----------------------------------------------------------------------------
reactor == process_send_queue_swap \/ process_send_queue \/ ThreadEnds("reactor")
encode  == encode_loop \/ ThreadEnds("encode")
clearer == clear_encode \/ clear_push

PipelineNext ==
    \/ \E k \in Kinds : send_message_on(k[1], k[2])
    \/ \E c \in Channels : drain_channel(c) \/ DrainEnds(c)
    \/ clear_outbound
    \/ clearer \/ reactor \/ encode
    \/ stop \/ stop_close \/ ThreadEnds("cap")
    \/ LinkUp
    \/ \E s \in {"none", "handshake", "closed"} : LinkFails(s)

PipelineSpec == PipelineInit /\ [][PipelineNext]_pipeline

\* Every thread goes on, and so do calls of clear_outbound and stop.
FairSpec ==
    /\ PipelineSpec
    /\ WF_pipeline(reactor) /\ WF_pipeline(encode) /\ WF_pipeline(clearer)
    /\ WF_pipeline(stop_close) /\ WF_pipeline(ThreadEnds("cap"))
-----------------------------------------------------------------------------
(* Properties *)

Ids(s) == {s[i].id : i \in 1 .. Len(s)}
Waiting == Ids(send_queue[0]) \cup Ids(send_queue[1]) \cup Ids(local)
           \cup Ids(encode_queue) \cup Ids(clearing.keep)

\* However often the reactor or clear_outbound put it back.
OnePlace ==
    LET places == <<send_queue[0], send_queue[1], local, encode_queue, clearing.keep, encoded>>
    IN  \A i \in 1 .. 6 :
          /\ Cardinality(Ids(places[i])) = Len(places[i])
          /\ \A j \in 1 .. i - 1 : Ids(places[i]) \cap Ids(places[j]) = {}

\* The queues keep their limits, a message is in one place and cut into
\* packets at most once, and messages of one priority that no one had to put
\* back leave in the order in which they were accepted.
KeptInOrder ==
    /\ TypeOK /\ OnePlace
    /\ \A i, j \in 1 .. Len(encoded) :
          (i < j /\ encoded[i].prio = encoded[j].prio /\ {encoded[i].id, encoded[j].id} \cap moved = {})
              => encoded[i].id < encoded[j].id

\* A message put back into a queue still has its payload (send_message: a
\* message that was accepted is not lost in silence on the way back).
PayloadKept == \A i \in 1 .. Len(encoded) : encoded[i].whole

\* Once the link stays up and nothing more is sent, the queues empty: no
\* message is passed round for ever.
QueuesEmpty == <>[](link = "linked" /\ running) => <>[](Waiting = {})

\* After stop() every thread ends, so that its joins return.
StopEnds == ~running ~> alive = {}
=============================================================================
