---------------------------- MODULE GenericStream ----------------------------
(***************************************************************************)
(* One call through the generic gRPC proxy of a leaf (leaf_generic.cpp):   *)
(* a client calls any method on the ingress leaf, which opens a stream to  *)
(* a backend of its own (place "local") or, over the mesh, to a backend of *)
(* another leaf ("remote").                                                *)
(*                                                                         *)
(*   s      IngressStream: flags, classification, queue towards the client *)
(*   known  the stream is in m_streams                                     *)
(*   todo   what the pump thread still has to forward                      *)
(*   b      BackendStream, in m_backend_streams while it is Registered     *)
(*   up     wire messages from the ingress leaf to the destination leaf    *)
(*   down   wire messages from the destination leaf to the ingress leaf    *)
(*   client what the client did and got;  app  what the backend did and got: *)
(*          got is the number of frames that came, in order                *)
(*                                                                         *)
(* A frame is its number in its direction. Handlers run on the generic     *)
(* pump, the stream worker, the sweeper and the backend's pump; each is a  *)
(* step, its last critical section being ingress_try_finish. Wire messages *)
(* arrive in any order, once or never.                                     *)
(***************************************************************************)
EXTENDS Naturals, Sequences

CONSTANTS MaxFrames,      \* messages client and backend of a local stream may send, together
          MaxRemote,      \* those of a remote stream
          IngressLimit,   \* kMaxIngressWriteQueue
          BackendLimit,   \* kMaxBackendWriteQueue
          MaxLost,        \* wire messages that may be lost
          Places          \* where an endpoint may be: {"local", "remote"}

ASSUME StreamConstants ==
    /\ {MaxFrames, MaxRemote, IngressLimit, BackendLimit, MaxLost} \subseteq Nat
    /\ Places \subseteq {"local", "remote"}

VARIABLES s, known, todo, b, up, down, replied, lost, client, app

vars == <<s, known, todo, b, up, down, replied, lost, client, app>>

Half == 0                        \* the half-close, in the place of a frame
Open == [kind |-> "open"]
Frame(f) == [kind |-> "frame", frame |-> f]
Close(st) == [kind |-> "close", status |-> st]

Mixed == MaxFrames + 1           \* got, when frames came out of order, twice or not all
Got(n, f) == IF f = n + 1 THEN f ELSE Mixed

MaySend == client.sent + app.sent < IF s.place = "remote" THEN MaxRemote ELSE MaxFrames

Statuses == {"ok", "error"}

Init ==
    /\ s = [phase |-> 0, reads |-> 0, writes |-> 0, writing |-> 0, write_queue |-> <<>>,
            buffered |-> <<>>, alarm |-> "off", read_stopped |-> FALSE,
            finish_pending |-> FALSE, finishing |-> FALSE, status |-> "ok", dead |-> FALSE,
            place |-> "none", opened |-> FALSE, confirmed |-> FALSE]
    /\ known = FALSE
    /\ todo = <<>>
    /\ b = [at |-> "none", started |-> FALSE, queue |-> <<>>, writing |-> 0,
            half |-> FALSE, writes_done |-> FALSE, cancelled |-> FALSE]
    /\ up = {} /\ down = {} /\ replied = FALSE /\ lost = 0
    /\ client = [sent |-> 0, half |-> FALSE, cancelled |-> FALSE, got |-> 0, status |-> "none"]
    /\ app = [sent |-> 0, got |-> 0, ended |-> "none"]

------------------------------------------------------------------------------
(* The ingress stream *)

\* Mutant: Finish does not wait for the read under way.
TryFinish_reading(t) ==
    IF t.dead \/ t.finishing THEN t
    ELSE IF t.writes > 0 \/ t.write_queue # <<>> THEN [t EXCEPT !.finish_pending = TRUE]
    ELSE [t EXCEPT !.finishing = TRUE]

\* ingress_try_finish: Finish waits for the write under way and the queue, then
\* for the read under way.
TryFinish(t) ==
    IF t.dead \/ t.finishing THEN t
    ELSE IF t.writes > 0 \/ t.write_queue # <<>> THEN [t EXCEPT !.finish_pending = TRUE]
    ELSE IF t.reads > 0 THEN [t EXCEPT !.finish_pending = TRUE, !.read_stopped = TRUE]
    ELSE [t EXCEPT !.finishing = TRUE, !.alarm = IF @ = "set" THEN "off" ELSE @]

Registered(c) == c.at \in {"starting", "open", "finish"}

Cancelled(c) == [c EXCEPT !.cancelled = TRUE]

\* ingress_teardown of the stream t: cancel the backend, note the status, tell
\* the other leaf, drive towards Finish.
Teardown(t) ==
    /\ b' = IF t.place = "local" /\ Registered(b) THEN Cancelled(b) ELSE b
    /\ IF t.dead \/ t.finishing
         THEN s' = t /\ up' = up
         ELSE /\ s' = TryFinish([t EXCEPT !.status = "error", !.read_stopped = TRUE])
              /\ up' = IF t.place = "remote" THEN up \cup {Close("error")} ELSE up

\* ingress_queue_write without its overflow.
Stalled(t) == t.writes > 0 /\ Len(t.write_queue) >= IngressLimit /\ ~t.dead /\ ~t.finishing

QueueWrite(t, f) ==
    IF t.dead \/ t.finishing THEN t
    ELSE IF t.writes > 0 THEN [t EXCEPT !.write_queue = Append(@, f)]
    ELSE [t EXCEPT !.writes = 1, !.writing = f]

\* ingress_backend_message, with the teardown of a client that does not read.
BackendMessage(f) ==
    LET t == [s EXCEPT !.confirmed = TRUE]
    IN  IF Stalled(t)
          THEN Teardown([t EXCEPT !.read_stopped = TRUE, !.status = "error"])
          ELSE s' = QueueWrite(t, f) /\ UNCHANGED <<b, up>>

\* ingress_backend_closed.
BackendClosed(t, st) ==
    IF ~known \/ t.dead \/ t.finishing THEN t
    ELSE TryFinish([t EXCEPT !.confirmed = TRUE, !.status = st, !.read_stopped = TRUE])

generic_on_new_call ==
    /\ s.phase = 0
    /\ known' = TRUE
    /\ s' = [s EXCEPT !.phase = 1, !.reads = 1]
    /\ UNCHANGED <<todo, b, up, down, replied, lost, client, app>>

\* Mutant: the messages read while classifying are not flushed.
generic_begin_stream_unflushed(t, last) ==
    \E p \in Places :
       /\ s' = [t EXCEPT !.place = p, !.opened = TRUE, !.buffered = <<>>]
       /\ todo' = last
       /\ b' = IF p = "local" THEN [b EXCEPT !.at = "starting"] ELSE b
       /\ up' = IF p = "remote" THEN up \cup {Open} ELSE up

\* generic_begin_stream for the stream t, then the frames read so far and, for a
\* client that has ended its side, the half-close. The directory, the balancer
\* and the breaker decide: no endpoint (or an open circuit), or one somewhere.
generic_begin_stream(t, last) ==
    \/ /\ s' = TryFinish([t EXCEPT !.status = "error"])
       /\ UNCHANGED <<todo, b, up>>
    \/ \E p \in Places :
          /\ s' = [t EXCEPT !.place = p, !.opened = TRUE, !.buffered = <<>>]
          /\ todo' = t.buffered \o last
          /\ b' = IF p = "local" THEN [b EXCEPT !.at = "starting"] ELSE b
          /\ up' = IF p = "remote" THEN up \cup {Open} ELSE up

\* generic_on_read, a message: keep it while classifying, forward it later on.
ReadMessage(t, f) ==
    \/ /\ t.phase = 1
       /\ s' = [t EXCEPT !.phase = 2, !.reads = 1, !.buffered = Append(@, f), !.alarm = "set"]
       /\ UNCHANGED <<todo, b, up>>
    \/ /\ t.phase = 2
       /\ LET u == [t EXCEPT !.phase = 3, !.reads = 1, !.buffered = Append(t.buffered, f),
                           !.alarm = IF t.alarm = "set" THEN "off" ELSE t.alarm]
          IN  generic_begin_stream(u, <<>>)
    \/ /\ t.phase = 3
       /\ IF t.read_stopped
            THEN s' = t /\ todo' = todo
            ELSE s' = [t EXCEPT !.reads = 1] /\ todo' = <<f>>
       /\ UNCHANGED <<b, up>>

\* generic_on_read, no message: the client has ended its side or is gone.
ReadEnd(t) ==
    \/ /\ t.phase \in {1, 2}
       /\ generic_begin_stream([t EXCEPT !.phase = 3,
                                         !.alarm = IF @ = "set" THEN "off" ELSE @], <<Half>>)
    \/ /\ t.phase = 3
       /\ s' = [t EXCEPT !.read_stopped = TRUE]
       /\ todo' = IF t.read_stopped THEN todo ELSE <<Half>>
       /\ UNCHANGED <<b, up>>

Ended == client.half \/ client.cancelled

generic_on_read(message) ==
    /\ known /\ s.reads > 0 /\ todo = <<>>
    /\ message => ~Ended /\ MaySend
    /\ ~message => Ended
    /\ client' = IF message THEN [client EXCEPT !.sent = @ + 1] ELSE client
    /\ LET t == [s EXCEPT !.reads = 0]
       IN  IF t.finish_pending \/ t.finishing
             THEN s' = TryFinish(t) /\ UNCHANGED <<todo, b, up>>
             ELSE IF message THEN ReadMessage(t, client.sent + 1) ELSE ReadEnd(t)
    /\ UNCHANGED <<known, down, replied, lost, app>>

\* The write has ended: the client took the frame, or is gone.
generic_on_write ==
    /\ known /\ s.writes > 0 /\ todo = <<>>
    /\ LET t == [s EXCEPT !.writes = 0, !.writing = 0]
       IN  IF client.cancelled
             THEN Teardown(t) /\ UNCHANGED client
             ELSE /\ client' = [client EXCEPT !.got = Got(@, s.writing)]
                  /\ s' = IF t.write_queue # <<>> /\ ~t.finishing /\ ~t.finish_pending
                            THEN [t EXCEPT !.writes = 1, !.writing = Head(t.write_queue),
                                           !.write_queue = Tail(@)]
                            ELSE IF t.finish_pending THEN TryFinish(t) ELSE t
                  /\ UNCHANGED <<b, up>>
    /\ UNCHANGED <<known, todo, down, replied, lost, app>>

generic_on_finish ==
    /\ known /\ s.finishing /\ ~s.dead /\ todo = <<>>
    /\ s' = [s EXCEPT !.dead = TRUE]
    /\ client' = [client EXCEPT !.status = s.status]
    /\ UNCHANGED <<known, todo, b, up, down, replied, lost, app>>

\* The classification window has passed; the event may be overtaken by a read
\* that cancels the alarm too late.
AlarmFires ==
    /\ s.alarm = "set"
    /\ s' = [s EXCEPT !.alarm = "fired"]
    /\ UNCHANGED <<known, todo, b, up, down, replied, lost, client, app>>

generic_on_alarm ==
    /\ known /\ s.alarm = "fired" /\ todo = <<>>
    /\ LET t == [s EXCEPT !.alarm = "off"]
       IN  IF t.dead \/ t.phase # 2
             THEN s' = t /\ UNCHANGED <<todo, b, up>>
             ELSE generic_begin_stream([t EXCEPT !.phase = 3], <<>>)
    /\ UNCHANGED <<known, down, replied, lost, client, app>>

------------------------------------------------------------------------------
(* The backend stream *)

\* drive_writes_locked: one write at a time, WritesDone after the last.
Drive(c) ==
    IF ~c.started \/ c.writing # 0 THEN c
    ELSE IF c.queue # <<>> THEN [c EXCEPT !.writing = Head(c.queue), !.queue = Tail(@)]
    ELSE IF c.half THEN [c EXCEPT !.writes_done = TRUE]
    ELSE c

\* client_message and client_half_close.
ClientMessage(c, f) ==
    IF f = Half THEN Drive([c EXCEPT !.half = TRUE])
    ELSE IF Len(c.queue) >= BackendLimit THEN Cancelled(c)
    ELSE Drive([c EXCEPT !.queue = Append(@, f)])

\* ingress_forward_frame, on the pump thread.
ingress_forward_frame ==
    /\ todo # <<>>
    /\ LET f == Head(todo)
           on == known /\ ~s.dead /\ ~s.finishing
       IN  /\ up' = IF on /\ s.place = "remote" THEN up \cup {Frame(f)} ELSE up
           /\ b' = IF on /\ s.place = "local" /\ Registered(b) THEN ClientMessage(b, f) ELSE b
    /\ todo' = Tail(todo)
    /\ UNCHANGED <<s, known, down, replied, lost, client, app>>

\* run(): the call was started, or could not be.
backend_started ==
    /\ b.at = "starting"
    /\ \/ b' = Drive([b EXCEPT !.at = "open", !.started = TRUE]) /\ ~b.cancelled
       \/ b' = [b EXCEPT !.at = "finish"]
    /\ UNCHANGED <<s, known, todo, up, down, replied, lost, client, app>>

\* run(): a message of the backend. on_message hands it to the ingress stream or
\* to the mesh.
backend_read ==
    /\ b.at = "open"
    /\ app.ended = "none" /\ MaySend
    /\ app' = [app EXCEPT !.sent = @ + 1]
    /\ IF s.place = "local" /\ known
         THEN BackendMessage(app.sent + 1) /\ UNCHANGED down
         ELSE /\ down' = IF s.place = "remote" THEN down \cup {Frame(app.sent + 1)} ELSE down
              /\ UNCHANGED <<s, b, up>>
    /\ UNCHANGED <<known, todo, replied, lost, client>>

backend_read_end ==
    /\ b.at = "open" /\ (b.cancelled \/ app.ended # "none")
    /\ b' = [b EXCEPT !.at = "finish"]
    /\ UNCHANGED <<s, known, todo, up, down, replied, lost, client, app>>

backend_wrote ==
    /\ Registered(b) /\ b.writing # 0
    /\ app' = IF b.cancelled \/ app.ended # "none" \/ b.at = "finish" THEN app
              ELSE [app EXCEPT !.got = Got(@, b.writing)]
    /\ b' = Drive([b EXCEPT !.writing = 0])
    /\ UNCHANGED <<s, known, todo, up, down, replied, lost, client>>

\* run() after kFinish: leave the registry, then on_close.
backend_stream_finished ==
    /\ b.at = "finish"
    /\ b' = [b EXCEPT !.at = "gone"]
    /\ LET st == IF b.cancelled \/ app.ended # "ok" THEN "error" ELSE "ok"
       IN  IF s.place = "local"
             THEN s' = BackendClosed(s, st) /\ UNCHANGED down
             ELSE down' = down \cup {Close(st)} /\ UNCHANGED s
    /\ UNCHANGED <<known, todo, up, replied, lost, client, app>>

------------------------------------------------------------------------------
(* The wire *)

\* A node that does not know the destination answers an Open; frames and closes
\* it drops (Lose).
handle_stream_open_refused ==
    /\ Open \in up
    /\ up' = up \ {Open}
    /\ down' = down \cup {Close("error")}
    /\ UNCHANGED <<s, known, todo, b, replied, lost, client, app>>

\* The destination leaf: no such endpoint or an overloaded worker, or a new stream.
process_stream_open ==
    /\ Open \in up
    /\ up' = up \ {Open}
    /\ \/ b' = [b EXCEPT !.at = "starting"] /\ UNCHANGED down
       \/ down' = down \cup {Close("error")} /\ UNCHANGED b
    /\ UNCHANGED <<s, known, todo, replied, lost, client, app>>

\* The destination leaf: a frame of the client. An unknown stream is answered with
\* a close, not more often than every five seconds.
process_stream_frame_origin ==
    /\ \E m \in up :
          /\ m.kind = "frame"
          /\ up' = up \ {m}
          /\ IF Registered(b)
               THEN b' = ClientMessage(b, m.frame) /\ UNCHANGED <<down, replied>>
               ELSE /\ replied' = TRUE
                    /\ \/ down' = down \cup {Close("error")}
                       \/ replied /\ down' = down
                    /\ UNCHANGED b
    /\ UNCHANGED <<s, known, todo, lost, client, app>>

\* The destination leaf: the ingress gave the stream up.
process_stream_close_origin ==
    /\ Close("error") \in up
    /\ up' = up \ {Close("error")}
    /\ b' = IF Registered(b) THEN Cancelled(b) ELSE b
    /\ UNCHANGED <<s, known, todo, down, replied, lost, client, app>>

\* Mutant: a frame of a forgotten stream is dropped without an answer.
process_stream_frame_quiet ==
    /\ \E m \in down :
          /\ m.kind = "frame"
          /\ down' = down \ {m}
          /\ IF known THEN BackendMessage(m.frame) ELSE UNCHANGED <<s, b, up>>
    /\ UNCHANGED <<known, todo, replied, lost, client, app>>

\* The ingress leaf: a frame of the backend, for a stream it may have forgotten.
process_stream_frame ==
    /\ \E m \in down :
          /\ m.kind = "frame"
          /\ down' = down \ {m}
          /\ IF known THEN BackendMessage(m.frame)
             ELSE up' = up \cup {Close("error")} /\ UNCHANGED <<s, b>>
    /\ UNCHANGED <<known, todo, replied, lost, client, app>>

\* The ingress leaf: the backend has ended, or a node or the other leaf refused.
process_stream_close ==
    /\ \E m \in down :
          /\ m.kind = "close"
          /\ down' = down \ {m}
          /\ s' = BackendClosed(s, m.status)
    /\ UNCHANGED <<known, todo, b, up, replied, lost, client, app>>

Lose ==
    /\ lost < MaxLost
    /\ lost' = lost + 1
    /\ \/ \E m \in up : up' = up \ {m} /\ UNCHANGED down
       \/ \E m \in down : down' = down \ {m} /\ UNCHANGED up
    /\ UNCHANGED <<s, known, todo, b, replied, client, app>>

------------------------------------------------------------------------------
(* The sweeper *)

\* A dead stream is forgotten after two seconds, when no alarm event is left.
sweep_dead ==
    /\ known /\ s.dead /\ s.alarm = "off" /\ todo = <<>>
    /\ known' = FALSE
    /\ UNCHANGED <<s, todo, b, up, down, replied, lost, client, app>>

\* kStreamIdleTimeout has passed: much more than a classification window.
sweep_idle ==
    /\ known /\ s.phase # 2 /\ ~s.dead /\ ~s.finishing /\ todo = <<>>
    /\ Teardown(s)
    /\ UNCHANGED <<known, todo, down, replied, lost, client, app>>

\* Mutant: only local streams have an open timeout.
sweep_unconfirmed_local == s.place = "local" /\ s.opened /\ ~s.confirmed /\ sweep_idle

\* kStreamOpenTimeout has passed without a sign of the backend.
sweep_unconfirmed == s.opened /\ ~s.confirmed /\ sweep_idle

------------------------------------------------------------------------------
(* Client and backend program *)

ClientActs ==
    /\ s.phase > 0 /\ client.status = "none" /\ ~client.cancelled
    /\ \/ ~client.half /\ client' = [client EXCEPT !.half = TRUE]
       \/ client' = [client EXCEPT !.cancelled = TRUE]
    /\ UNCHANGED <<s, known, todo, b, up, down, replied, lost, app>>

BackendActs ==
    /\ b.at = "open" /\ app.ended = "none"
    /\ \E st \in Statuses : app' = [app EXCEPT !.ended = st]
    /\ UNCHANGED <<s, known, todo, b, up, down, replied, lost, client>>

Pump == (\E m \in BOOLEAN : generic_on_read(m)) \/ generic_on_write \/ generic_on_finish \/ generic_on_alarm
        \/ ingress_forward_frame

BackendPump == backend_started \/ backend_read_end \/ backend_wrote \/ backend_stream_finished

Wire == process_stream_open \/ process_stream_frame_origin \/ process_stream_close_origin
        \/ process_stream_frame \/ process_stream_close

Next ==
    \/ generic_on_new_call \/ AlarmFires \/ Pump
    \/ BackendPump \/ backend_read
    \/ Wire \/ handle_stream_open_refused \/ Lose
    \/ sweep_dead \/ sweep_idle \/ sweep_unconfirmed
    \/ ClientActs \/ BackendActs

\* The threads of both leaves go on, a classification window ends, wire messages
\* arrive, and a client takes what it is sent.
Spec ==
    /\ Init /\ [][Next]_vars
    /\ WF_vars(generic_on_read(FALSE)) /\ WF_vars(generic_on_write) /\ WF_vars(generic_on_finish)
    /\ WF_vars(generic_on_alarm) /\ WF_vars(AlarmFires) /\ WF_vars(ingress_forward_frame)
    /\ WF_vars(BackendPump) /\ WF_vars(Wire) /\ WF_vars(sweep_dead) /\ WF_vars(sweep_unconfirmed)

------------------------------------------------------------------------------
TypeOK ==
    /\ s.phase \in 0..3 /\ s.reads \in 0..1 /\ s.writes \in 0..1
    /\ s.alarm \in {"off", "set", "fired"} /\ s.place \in Places \cup {"none"}
    /\ Len(s.write_queue) <= IngressLimit /\ Len(b.queue) <= BackendLimit
    /\ b.at \in {"none", "starting", "open", "finish", "gone"}
    /\ s.status \in Statuses /\ client.status \in Statuses \cup {"none"}
    /\ lost \in 0..MaxLost

\* No Write on the backend's call after its WritesDone. leaf_runtime_impl.hpp says of
\* the stream worker that a single consumer preserves the order of a stream's frames;
\* a remote stream's frames may come out of order before it sees them.
WriteIsLegal == b.writes_done => b.queue = <<>> /\ b.writing = 0

\* What gRPC demands of the callers of one call object, whichever threads interleave:
\* Finish is called with no Read and no Write under way, and no Write follows
\* WritesDone on a call to a backend of this leaf; a dead stream has been finished.
CallsAreLegal ==
    /\ TypeOK
    /\ s.finishing => s.reads = 0 /\ s.writes = 0 /\ s.write_queue = <<>>
    /\ s.dead => s.finishing
    /\ s.place = "local" => WriteIsLegal

\* A call to a backend of this leaf keeps both directions in order, without gaps or
\* copies: from the client through buffered, todo and the backend's write_queue, and,
\* while the call is not cancelled, back through the client's write_queue and with the
\* end of the requests after all of them; a client that is told OK has got every answer.
LocalInOrder ==
    s.place = "local" =>
      /\ app.got # Mixed
      /\ client.got # Mixed \/ b.cancelled
      /\ b.writes_done /\ app.ended = "none" => app.got = client.sent \/ client.cancelled \/ b.cancelled
      /\ client.status = "ok" => client.got = app.sent

\* A stream that is to finish, or from whose backend nothing has been heard (its Open
\* may be lost), does finish once its client has ended its side or is gone, unless
\* frames wait behind the write under way.
EndIsReached ==
    Ended /\ (s.finish_pending \/ (s.opened /\ ~s.confirmed))
       ~> s.dead \/ s.write_queue # <<>> \/ (s.confirmed /\ ~s.finish_pending)

\* A backend that still speaks for a stream its ingress leaf has forgotten is
\* cancelled, whatever overtook what on the wire (process_stream_frame: "Our side is
\* gone; make sure the destination side is too").
SpeakerIsCancelled ==
    (s.phase = 3 /\ ~known /\ lost = MaxLost /\ \E m \in down : m.kind = "frame")
       ~> b.cancelled \/ b.at \in {"finish", "gone"}

\* What leaf_generic.cpp says of a stream that is to fail ("Fail the stream instead",
\* "the idle timeout is the fallback cleanup"): it ends once its client has.
FailedEnds == Ended /\ s.finish_pending ~> s.dead

==============================================================================
