------------------------ MODULE GenericStream_proofs ------------------------
(***************************************************************************)
(* The gRPC call objects of a proxied stream are used as gRPC demands      *)
(* (LegalCalls), and a call to a backend of the same leaf keeps both       *)
(* directions in order (LocalOrder): for every number of frames, every     *)
(* size of the two write queues and every number of lost wire messages.    *)
(***************************************************************************)
EXTENDS GenericStream, SequenceTheorems, TLAPS

Stream ==
    [phase : 0..3, reads : 0..1, writes : 0..1, writing : Nat, write_queue : Seq(Nat),
     buffered : Seq(Nat \ {Half}), alarm : {"off", "set", "fired"}, read_stopped : BOOLEAN,
     finish_pending : BOOLEAN, finishing : BOOLEAN, status : Statuses, dead : BOOLEAN,
     place : Places \cup {"none"}, opened : BOOLEAN, confirmed : BOOLEAN]

Backend ==
    [at : {"none", "starting", "open", "finish", "gone"}, started : BOOLEAN, queue : Seq(Nat),
     writing : Nat, half : BOOLEAN, writes_done : BOOLEAN, cancelled : BOOLEAN]

Message == {Open} \cup {Frame(f) : f \in Nat} \cup {Close(st) : st \in Statuses}

Types ==
    /\ s \in Stream /\ known \in BOOLEAN /\ todo \in Seq(Nat) /\ b \in Backend
    /\ up \subseteq Message /\ down \subseteq Message /\ lost \in 0..MaxLost
    /\ client.sent \in Nat /\ client.status \in Statuses \cup {"none"}
    /\ client \in [sent : Nat, half : BOOLEAN, cancelled : BOOLEAN, got : Nat,
                   status : Statuses \cup {"none"}]
    /\ app \in [sent : Nat, got : Nat, ended : Statuses \cup {"none"}]

\* What holds of an ingress stream between the handlers' critical sections.
Settled(t) ==
    /\ Len(t.write_queue) <= IngressLimit
    /\ t.finishing => t.reads = 0 /\ t.writes = 0 /\ t.write_queue = <<>>
    /\ t.dead => t.finishing

\* Before the first read nobody has heard of the stream; before it is classified
\* nothing was forwarded and no backend was chosen.
Phases ==
    /\ s.phase = 0 => ~known /\ ~s.finishing
    /\ s.phase < 3 => todo = <<>> /\ ~b.half /\ ~b.writes_done /\ s.place = "none"

\* What a backend call of this leaf may still be told: the half-close is the last
\* thing under way, the read that brought it was the last read, and nothing
\* follows it.
Requests(c, td) ==
    /\ \A i \in 1..(Len(td) - 1) : td[i] # Half
    /\ c.half => td = <<>>
    /\ c.writes_done => c.half /\ c.queue = <<>> /\ c.writing = 0

LastRead == b.half \/ (\E i \in 1..Len(todo) : todo[i] = Half) => s.reads = 0

Local ==
    /\ s.place = "local" => Requests(b, todo) /\ LastRead
    /\ s.place # "remote" => \A m \in up : m.kind = "close"

IInv ==
    /\ Types
    /\ Settled(s)
    /\ Len(b.queue) <= BackendLimit
    /\ Phases
    /\ Local

------------------------------------------------------------------------------
(* The operators *)

LEMMA Messages ==
    /\ \A m \in Message : m.kind = "frame" => m.frame \in Nat
    /\ \A m \in Message : m.kind = "close" => m.status \in Statuses
    /\ Open \in Message /\ Open.kind # "close"
    /\ \A f \in Nat : Frame(f) \in Message /\ Frame(f).kind = "frame"
    /\ \A st \in Statuses : Close(st) \in Message /\ Close(st).kind = "close"
<1>1. \A m \in Message : m.kind = "frame" => m.frame \in Nat
  BY DEF Message, Open, Frame, Close
<1>2. \A m \in Message : m.kind = "close" => m.status \in Statuses
  BY DEF Message, Open, Frame, Close
<1>3. Open \in Message /\ Open.kind # "close"
  BY DEF Message, Open
<1>4. \A f \in Nat : Frame(f) \in Message /\ Frame(f).kind = "frame"
  BY DEF Message, Frame
<1>5. \A st \in Statuses : Close(st) \in Message /\ Close(st).kind = "close"
  BY DEF Message, Close
<1> QED BY <1>1, <1>2, <1>3, <1>4, <1>5

\* ingress_try_finish finishes a stream only when nothing is under way, and changes
\* neither what is under way nor where the stream goes.
LEMMA TryFinishSettles ==
    ASSUME NEW t \in Stream, Settled(t)
    PROVE  /\ TryFinish(t) \in Stream /\ Settled(TryFinish(t))
           /\ TryFinish(t).phase = t.phase /\ TryFinish(t).place = t.place
           /\ TryFinish(t).reads = t.reads
<1>1. CASE t.dead \/ t.finishing
  BY <1>1 DEF TryFinish
<1>2. CASE ~(t.dead \/ t.finishing) /\ (t.writes > 0 \/ t.write_queue # <<>>)
  <2>1. TryFinish(t) = [t EXCEPT !.finish_pending = TRUE]
    BY <1>2 DEF TryFinish
  <2> QED BY <1>2, <2>1 DEF Stream, Settled
<1>3. CASE ~(t.dead \/ t.finishing) /\ ~(t.writes > 0 \/ t.write_queue # <<>>) /\ t.reads > 0
  <2>1. TryFinish(t) = [t EXCEPT !.finish_pending = TRUE, !.read_stopped = TRUE]
    BY <1>3 DEF TryFinish
  <2> QED BY <1>3, <2>1 DEF Stream, Settled
<1>4. CASE ~(t.dead \/ t.finishing) /\ ~(t.writes > 0 \/ t.write_queue # <<>>) /\ ~(t.reads > 0)
  <2>1. PICK a : a = IF t.alarm = "set" THEN "off" ELSE t.alarm
    OBVIOUS
  <2>2. a \in {"off", "set", "fired"}
    BY <2>1 DEF Stream
  <2>3. TryFinish(t) = [t EXCEPT !.finishing = TRUE, !.alarm = a]
    BY <1>4, <2>1 DEF TryFinish
  <2>4. t.reads = 0 /\ t.writes = 0 /\ t.write_queue = <<>>
    BY <1>4 DEF Stream
  <2> QED BY <1>4, <2>2, <2>3, <2>4 DEF Stream, Settled
<1> QED BY <1>1, <1>2, <1>3, <1>4

\* ingress_queue_write, below its limit.
LEMMA QueueWriteSettles ==
    ASSUME NEW t \in Stream, Settled(t), NEW f \in Nat, ~Stalled(t)
    PROVE  /\ QueueWrite(t, f) \in Stream /\ Settled(QueueWrite(t, f))
           /\ QueueWrite(t, f).phase = t.phase /\ QueueWrite(t, f).place = t.place
           /\ QueueWrite(t, f).reads = t.reads /\ QueueWrite(t, f).finishing = t.finishing
<1>1. CASE t.dead \/ t.finishing
  BY <1>1 DEF QueueWrite
<1>2. CASE ~(t.dead \/ t.finishing) /\ t.writes > 0
  <2>1. PICK q : q = Append(t.write_queue, f)
    OBVIOUS
  <2>2. q \in Seq(Nat) /\ Len(q) <= IngressLimit
    <3>1. t.write_queue \in Seq(Nat) /\ Len(t.write_queue) < IngressLimit
      BY <1>2, StreamConstants DEF Stream, Stalled
    <3> QED BY <2>1, <3>1, StreamConstants
  <2>3. QueueWrite(t, f) = [t EXCEPT !.write_queue = q]
    BY <1>2, <2>1 DEF QueueWrite
  <2> QED BY <1>2, <2>2, <2>3 DEF Stream, Settled
<1>3. CASE ~(t.dead \/ t.finishing) /\ ~(t.writes > 0)
  <2>1. QueueWrite(t, f) = [t EXCEPT !.writes = 1, !.writing = f]
    BY <1>3 DEF QueueWrite
  <2>2. PICK n : n \in 0..1 /\ n = 1
    OBVIOUS
  <2>3. [t EXCEPT !.writes = n, !.writing = f] \in Stream
    BY <2>2 DEF Stream
  <2>4. QueueWrite(t, f) \in Stream
    BY <2>1, <2>2, <2>3
  <2> QED BY <1>3, <2>1, <2>4 DEF Stream, Settled
<1> QED BY <1>1, <1>2, <1>3

\* drive_writes_locked starts the next write or, after the last, WritesDone.
LEMMA DriveTyped ==
    ASSUME NEW c \in Backend, Len(c.queue) <= BackendLimit
    PROVE  /\ Drive(c) \in Backend /\ Len(Drive(c).queue) <= BackendLimit
           /\ Drive(c).half = c.half
           /\ Drive(c).writes_done => c.half \/ c.writes_done
<1>1. CASE ~c.started \/ c.writing # 0
  BY <1>1 DEF Drive
<1>2. CASE ~(~c.started \/ c.writing # 0) /\ c.queue # <<>>
  <2>1. PICK h, q : h = Head(c.queue) /\ q = Tail(c.queue)
    OBVIOUS
  <2>2. h \in Nat /\ q \in Seq(Nat) /\ Len(q) <= BackendLimit
    <3>1. c.queue \in Seq(Nat) BY DEF Backend
    <3> QED BY <1>2, <2>1, <3>1, StreamConstants
  <2>3. Drive(c) = [c EXCEPT !.writing = h, !.queue = q]
    BY <1>2, <2>1 DEF Drive
  <2> QED BY <2>2, <2>3 DEF Backend
<1>3. CASE ~(~c.started \/ c.writing # 0) /\ ~(c.queue # <<>>) /\ c.half
  <2>1. Drive(c) = [c EXCEPT !.writes_done = TRUE]
    BY <1>3 DEF Drive
  <2> QED BY <1>3, <2>1 DEF Backend
<1>4. CASE ~(~c.started \/ c.writing # 0) /\ ~(c.queue # <<>>) /\ ~c.half
  BY <1>4 DEF Drive
<1> QED BY <1>1, <1>2, <1>3, <1>4

\* It keeps WritesDone last.
LEMMA DriveLegal ==
    ASSUME NEW c \in Backend, c.writes_done => c.half /\ c.queue = <<>> /\ c.writing = 0
    PROVE  Drive(c).writes_done => Drive(c).half /\ Drive(c).queue = <<>> /\ Drive(c).writing = 0
<1>1. CASE ~c.started \/ c.writing # 0
  BY <1>1 DEF Drive
<1>2. CASE ~(~c.started \/ c.writing # 0) /\ c.queue # <<>>
  <2>1. Drive(c).writes_done = c.writes_done
    BY <1>2 DEF Drive, Backend
  <2> QED BY <1>2, <2>1
<1>3. CASE ~(~c.started \/ c.writing # 0) /\ ~(c.queue # <<>>) /\ c.half
  <2>1. Drive(c) = [c EXCEPT !.writes_done = TRUE]
    BY <1>3 DEF Drive
  <2> QED BY <1>3, <2>1 DEF Backend
<1>4. CASE ~(~c.started \/ c.writing # 0) /\ ~(c.queue # <<>>) /\ ~c.half
  BY <1>4 DEF Drive
<1> QED BY <1>1, <1>2, <1>3, <1>4

\* client_message and client_half_close.
LEMMA ClientMessageTyped ==
    ASSUME NEW c \in Backend, Len(c.queue) <= BackendLimit, NEW f \in Nat
    PROVE  /\ ClientMessage(c, f) \in Backend /\ Len(ClientMessage(c, f).queue) <= BackendLimit
           /\ ClientMessage(c, f).half = (c.half \/ f = Half)
<1>1. CASE f = Half
  <2>1. PICK d : d = [c EXCEPT !.half = TRUE]
    OBVIOUS
  <2>2. d \in Backend /\ Len(d.queue) <= BackendLimit /\ d.half
    BY <2>1 DEF Backend
  <2>3. ClientMessage(c, f) = Drive(d)
    BY <1>1, <2>1 DEF ClientMessage
  <2> QED BY <1>1, <2>2, <2>3, DriveTyped
<1>2. CASE f # Half /\ Len(c.queue) >= BackendLimit
  <2>1. ClientMessage(c, f) = [c EXCEPT !.cancelled = TRUE]
    BY <1>2 DEF ClientMessage, Cancelled
  <2> QED BY <1>2, <2>1 DEF Backend
<1>3. CASE f # Half /\ ~(Len(c.queue) >= BackendLimit)
  <2>1. PICK q : q = Append(c.queue, f)
    OBVIOUS
  <2>2. q \in Seq(Nat) /\ Len(q) <= BackendLimit
    <3>1. c.queue \in Seq(Nat) BY DEF Backend
    <3> QED BY <1>3, <2>1, <3>1, StreamConstants
  <2>3. PICK d : d = [c EXCEPT !.queue = q]
    OBVIOUS
  <2>4. d \in Backend /\ Len(d.queue) <= BackendLimit /\ d.half = c.half
    BY <2>2, <2>3 DEF Backend
  <2>5. ClientMessage(c, f) = Drive(d)
    BY <1>3, <2>1, <2>3 DEF ClientMessage
  <2>6. c.half \in BOOLEAN
    BY DEF Backend
  <2> QED BY <1>3, <2>4, <2>5, <2>6, DriveTyped
<1> QED BY <1>1, <1>2, <1>3

\* The frame at the head of what is forwarded to a backend call of this leaf may
\* be written: the half-close has not been.
LEMMA ClientMessageLegal ==
    ASSUME NEW c \in Backend, Len(c.queue) <= BackendLimit,
           NEW td \in Seq(Nat), td # <<>>, Requests(c, td)
    PROVE  Requests(ClientMessage(c, Head(td)), Tail(td))
<1>1. PICK f : f = Head(td)
  OBVIOUS
<1>2. f \in Nat /\ f = td[1] /\ ~c.half /\ ~c.writes_done
  BY <1>1 DEF Requests
<1>3. \A i \in 1..(Len(Tail(td)) - 1) : Tail(td)[i] # Half
  BY DEF Requests
<1>4. f = Half => Tail(td) = <<>>
  <2>1. Len(td) \in Nat \ {0}
    OBVIOUS
  <2>2. f = Half => ~(1 \in 1..(Len(td) - 1))
    BY <1>2 DEF Requests
  <2>3. \A n \in Nat \ {0} : ~(1 \in 1..(n - 1)) => n = 1
    OBVIOUS
  <2>4. Tail(td) \in Seq(Nat) /\ Len(Tail(td)) = Len(td) - 1
    OBVIOUS
  <2> QED BY <2>1, <2>2, <2>3, <2>4
<1>5. ClientMessage(c, f).writes_done =>
         ClientMessage(c, f).half /\ ClientMessage(c, f).queue = <<>> /\ ClientMessage(c, f).writing = 0
  <2>1. CASE f = Half
    <3>1. PICK d : d = [c EXCEPT !.half = TRUE]
      OBVIOUS
    <3>2. d \in Backend /\ ~d.writes_done
      BY <1>2, <3>1 DEF Backend
    <3>3. ClientMessage(c, f) = Drive(d)
      BY <2>1, <3>1 DEF ClientMessage
    <3> QED BY <3>2, <3>3, DriveLegal
  <2>2. CASE f # Half /\ Len(c.queue) >= BackendLimit
    <3>1. ClientMessage(c, f) = [c EXCEPT !.cancelled = TRUE]
      BY <2>2 DEF ClientMessage, Cancelled
    <3> QED BY <1>2, <3>1 DEF Backend
  <2>3. CASE f # Half /\ ~(Len(c.queue) >= BackendLimit)
    <3>1. PICK q : q = Append(c.queue, f)
      OBVIOUS
    <3>2. q \in Seq(Nat)
      BY <1>2, <3>1 DEF Backend
    <3>3. PICK d : d = [c EXCEPT !.queue = q]
      OBVIOUS
    <3>4. d \in Backend /\ ~d.writes_done
      BY <1>2, <3>2, <3>3 DEF Backend
    <3>5. ClientMessage(c, f) = Drive(d)
      BY <2>3, <3>1, <3>3 DEF ClientMessage
    <3> QED BY <3>4, <3>5, DriveLegal
  <2> QED BY <2>1, <2>2, <2>3
<1>6. ClientMessage(c, f).half = (f = Half)
  BY <1>2, ClientMessageTyped
<1> QED BY <1>1, <1>3, <1>4, <1>5, <1>6 DEF Requests

\* A step towards Finish notes the status first.
LEMMA TornDown ==
    ASSUME NEW t \in Stream, Settled(t), NEW st \in Statuses, NEW cf \in BOOLEAN,
           NEW r, r = TryFinish([t EXCEPT !.confirmed = cf, !.status = st, !.read_stopped = TRUE])
    PROVE  /\ r \in Stream /\ Settled(r)
           /\ r.phase = t.phase /\ r.place = t.place /\ r.reads = t.reads
<1>1. PICK u : u = [t EXCEPT !.confirmed = cf, !.status = st, !.read_stopped = TRUE]
  OBVIOUS
<1>2. u \in Stream
  BY <1>1 DEF Stream
<1>3. Settled(u) /\ u.phase = t.phase /\ u.place = t.place /\ u.reads = t.reads
  BY <1>1 DEF Stream, Settled
<1> QED BY <1>1, <1>2, <1>3, TryFinishSettles

LEMMA PhaseOrder == (\A n \in {0, 1, 2} : n < 3) /\ ~(3 < 3) /\ 3 # 0 /\ 1 # 0 /\ 2 # 0
OBVIOUS

LEMMA LastAppended ==
    ASSUME NEW q \in Seq(Nat), NEW h \in Nat
    PROVE  /\ q \o <<h>> \in Seq(Nat) /\ Len(q \o <<h>>) = Len(q) + 1
           /\ \A i \in 1..Len(q) : (q \o <<h>>)[i] = q[i]
<1>1. <<h>> \in Seq(Nat) /\ Len(<<h>>) = 1
  OBVIOUS
<1> QED BY <1>1

\* The frames read while the stream was classified, and then perhaps the half-close:
\* it is the last.
LEMMA Flushed ==
    ASSUME NEW q \in Seq(Nat \ {Half}), NEW last \in {<<>>, <<Half>>}
    PROVE  /\ q \o last \in Seq(Nat)
           /\ \A i \in 1..(Len(q \o last) - 1) : (q \o last)[i] # Half
           /\ last = <<>> => \A i \in 1..Len(q \o last) : (q \o last)[i] # Half
<1>1. \A i \in 1..Len(q) : q[i] \in Nat /\ q[i] # Half
  OBVIOUS
<1>2. q \in Seq(Nat) /\ Len(q) \in Nat
  <2>1. Nat \ {Half} \subseteq Nat
    OBVIOUS
  <2> QED BY <2>1
<1>3. CASE last = <<>>
  <2>1. q \o last = q
    BY <1>2, <1>3
  <2> QED BY <1>1, <1>2, <2>1
<1>4. CASE last = <<Half>>
  <2>1. Half \in Nat
    BY DEF Half
  <2>3. q \o last \in Seq(Nat) /\ Len(q \o last) = Len(q) + 1
    BY <1>2, <1>4, <2>1, LastAppended, Zenon
  <2>4. \A i \in 1..Len(q) : (q \o last)[i] = q[i]
    BY <1>2, <1>4, <2>1, LastAppended, Zenon
  <2>5. last # <<>>
    BY <1>4
  <2> QED BY <1>1, <1>2, <2>3, <2>4, <2>5
<1> QED BY <1>3, <1>4

------------------------------------------------------------------------------
(* Kinds of steps *)

\* A step that moves the stream on without a new read, a new phase or a new place,
\* and leaves the requests of the backend's call alone.
LEMMA QuietStep ==
    ASSUME IInv, s' \in Stream, Settled(s'), s'.phase = s.phase, s'.place = s.place,
           s'.reads = s.reads \/ s'.reads = 0, known \/ s'.finishing = s.finishing,
           known' \in BOOLEAN, known' => known, todo' = todo, b' \in Backend,
           b'.half = b.half, b'.writes_done = b.writes_done, b'.queue = b.queue,
           b'.writing = b.writing, up' \subseteq up \cup {Close("error")}, down' \subseteq Message,
           lost' \in 0..MaxLost,
           client' \in [sent : Nat, half : BOOLEAN, cancelled : BOOLEAN, got : Nat,
                        status : Statuses \cup {"none"}],
           app' \in [sent : Nat, got : Nat, ended : Statuses \cup {"none"}]
    PROVE  IInv'
<1>1. Types'
  <2>1. up' \subseteq Message
    BY Messages DEF IInv, Types, Statuses
  <2>2. client'.sent \in Nat /\ client'.status \in Statuses \cup {"none"}
    OBVIOUS
  <2> QED BY <2>1, <2>2 DEF IInv, Types
<1>2. Settled(s)' /\ (Len(b.queue) <= BackendLimit)'
  BY DEF IInv, Settled
<1>3. Phases'
  BY DEF IInv, Phases
<1>4. Local'
  <2>1. s'.place = "local" => Requests(b, todo)'
    BY DEF IInv, Local, Requests
  <2>2. s'.place = "local" => LastRead'
    BY DEF IInv, Local, LastRead
  <2>3. s'.place # "remote" => \A m \in up' : m.kind = "close"
    BY Messages DEF IInv, Local, Statuses
  <2> QED BY <2>1, <2>2, <2>3 DEF Local
<1> QED BY <1>1, <1>2, <1>3, <1>4 DEF IInv

\* A step of the backend's call: the stream, its requests on the wire and
\* what the pump has to forward stay.
LEMMA CallStep ==
    ASSUME IInv, UNCHANGED <<s, known, todo, lost, client>>, b' \in Backend,
           Len(b'.queue) <= BackendLimit, b'.half = b.half,
           b'.writes_done => b.half \/ b.writes_done,
           Requests(b, todo) => (b'.writes_done => b'.half /\ b'.queue = <<>> /\ b'.writing = 0),
           up' \subseteq up, down' \subseteq Message,
           app' \in [sent : Nat, got : Nat, ended : Statuses \cup {"none"}]
    PROVE  IInv'
<1>1. Types'
  BY DEF IInv, Types
<1>2. Settled(s)' /\ (Len(b.queue) <= BackendLimit)'
  BY DEF IInv, Settled
<1>3. Phases'
  BY DEF IInv, Phases
<1>4. Local'
  <2>1. s'.place = "local" => Requests(b, todo)'
    BY DEF IInv, Local, Requests
  <2>2. s'.place = "local" => LastRead'
    BY DEF IInv, Local, LastRead
  <2> QED BY <2>1, <2>2 DEF Local, IInv
<1> QED BY <1>1, <1>2, <1>3, <1>4 DEF IInv

\* generic_begin_stream of the stream u: no endpoint, or one on this or another leaf.
LEMMA BeginStep ==
    ASSUME IInv, s.phase \in {1, 2}, NEW u \in Stream, Settled(u), u.phase = 3, u.place = "none",
           NEW last \in {<<>>, <<Half>>}, last = <<Half>> => u.reads = 0,
           \/ /\ s' = TryFinish([u EXCEPT !.status = "error"])
              /\ UNCHANGED <<todo, b, up>>
           \/ \E p \in Places :
                 /\ s' = [u EXCEPT !.place = p, !.opened = TRUE, !.buffered = <<>>]
                 /\ todo' = u.buffered \o last
                 /\ b' = IF p = "local" THEN [b EXCEPT !.at = "starting"] ELSE b
                 /\ up' = IF p = "remote" THEN up \cup {Open} ELSE up,
           UNCHANGED <<known, down, lost, app>>,
           client' \in [sent : Nat, half : BOOLEAN, cancelled : BOOLEAN, got : Nat,
                        status : Statuses \cup {"none"}]
    PROVE  IInv'
<1>0. todo = <<>> /\ ~b.half /\ ~b.writes_done /\ s.place = "none"
  <2>1. s.phase < 3
    BY PhaseOrder, Zenon
  <2> QED BY <2>1 DEF IInv, Phases
<1>c. client'.sent \in Nat /\ client'.status \in Statuses \cup {"none"}
  OBVIOUS
<1>1. CASE s' = TryFinish([u EXCEPT !.status = "error"]) /\ UNCHANGED <<todo, b, up>>
  <2>1. PICK e \in Statuses : e = "error"
    BY DEF Statuses
  <2>2. PICK v : v = [u EXCEPT !.status = e]
    OBVIOUS
  <2>3. v \in Stream /\ Settled(v) /\ v.phase = 3 /\ v.place = "none"
    BY <2>2 DEF Stream, Settled
  <2>4. s' = TryFinish(v)
    BY <1>1, <2>1, <2>2
  <2>5. s' \in Stream /\ Settled(s') /\ s'.phase = 3 /\ s'.place = "none"
    BY <2>3, <2>4, TryFinishSettles
  <2>6. Types'
    BY <1>1, <1>c, <2>5 DEF IInv, Types
  <2>7. Phases' /\ Local'
    BY <1>1, <2>5, <1>0 DEF IInv, Phases, Local
  <2> QED BY <1>1, <2>5, <2>6, <2>7 DEF IInv, Settled
<1>2. ASSUME NEW p \in Places,
             s' = [u EXCEPT !.place = p, !.opened = TRUE, !.buffered = <<>>],
             todo' = u.buffered \o last,
             b' = IF p = "local" THEN [b EXCEPT !.at = "starting"] ELSE b,
             up' = IF p = "remote" THEN up \cup {Open} ELSE up
      PROVE  IInv'
  <2>1. PICK em \in Seq(Nat \ {Half}) : em = <<>>
    BY EmptySeq
  <2>2. s' \in Stream /\ s'.phase = 3 /\ s'.place = p /\ s'.reads = u.reads
    <3>1. p \in Places \cup {"none"}
      OBVIOUS
    <3>2. s' = [u EXCEPT !.place = p, !.opened = TRUE, !.buffered = em]
      BY <1>2, <2>1
    <3> QED BY <2>1, <3>1, <3>2 DEF Stream
  <2>3. Settled(s')
    BY <1>2 DEF Settled, Stream
  <2>4. PICK at : at = "starting" /\ at \in {"none", "starting", "open", "finish", "gone"}
    OBVIOUS
  <2>5. /\ b' \in Backend /\ b'.half = b.half /\ b'.writes_done = b.writes_done
        /\ b'.queue = b.queue
    <3>1. b' = IF p = "local" THEN [b EXCEPT !.at = at] ELSE b
      BY <1>2, <2>4
    <3>2. b \in Backend
      BY DEF IInv, Types
    <3> QED BY <2>4, <3>1, <3>2 DEF Backend
  <2>6. u.buffered \in Seq(Nat \ {Half})
    BY DEF Stream
  <2>7. todo' \in Seq(Nat)
    BY <1>2, <2>6, Flushed
  <2>8. last = <<>> => \A i \in 1..Len(todo') : todo'[i] # Half
    BY <1>2, <2>6, Flushed
  <2>9. \A i \in 1..(Len(todo') - 1) : todo'[i] # Half
    BY <1>2, <2>6, Flushed
  <2>10. Types'
    <3>1. up' \subseteq Message
      BY <1>2, Messages DEF IInv, Types
    <3> QED BY <1>c, <2>2, <2>5, <2>7, <3>1 DEF IInv, Types
  <2>11. Phases'
    <3>1. ~(s'.phase < 3) /\ s'.phase # 0
      BY <2>2, PhaseOrder, Zenon
    <3> QED BY <3>1 DEF Phases
  <2>13. Requests(b, todo)'
    BY <1>0, <2>5, <2>9 DEF Requests
  <2>14. LastRead'
    BY <1>0, <2>2, <2>5, <2>8 DEF LastRead
  <2>15. s'.place # "remote" => \A m \in up' : m.kind = "close"
    BY <1>0, <1>2, <2>2 DEF IInv, Local
  <2> QED BY <2>3, <2>5, <2>10, <2>11, <2>13, <2>14, <2>15 DEF IInv, Settled, Local
<1> QED BY <1>1, <1>2

------------------------------------------------------------------------------
(* The actions of the ingress stream *)

LEMMA InitIInv == Init => IInv
<1> SUFFICES ASSUME Init PROVE IInv
  OBVIOUS
<1>1. /\ s.phase = 0 /\ s.place = "none" /\ ~s.finishing /\ ~s.dead /\ s.write_queue = <<>>
      /\ ~b.half /\ ~b.writes_done /\ b.queue = <<>>
  BY DEF Init
<1>2. s \in Stream
  BY EmptySeq DEF Init, Stream, Statuses
<1>3. b \in Backend
  BY DEF Init, Backend
<1>4. Types
  <2>0. todo \in Seq(Nat)
    BY EmptySeq DEF Init
  <2>1. known \in BOOLEAN /\ up \subseteq Message /\ down \subseteq Message
    BY DEF Init
  <2>2. lost \in 0..MaxLost
    BY StreamConstants DEF Init
  <2>3. client \in [sent : Nat, half : BOOLEAN, cancelled : BOOLEAN, got : Nat,
                   status : Statuses \cup {"none"}]
    BY DEF Init
  <2>4. client.sent \in Nat /\ client.status \in Statuses \cup {"none"}
    BY DEF Init
  <2>5. app \in [sent : Nat, got : Nat, ended : Statuses \cup {"none"}]
    BY DEF Init
  <2> QED BY <1>2, <1>3, <2>0, <2>1, <2>2, <2>3, <2>4, <2>5 DEF Types
<1>5. Settled(s) /\ Len(b.queue) <= BackendLimit
  BY <1>1, StreamConstants DEF Settled
<1>6. Phases
  BY <1>1 DEF Init, Phases
<1>7. Local
  BY <1>1 DEF Init, Local
<1> QED BY <1>4, <1>5, <1>6, <1>7 DEF IInv

LEMMA StreamTyped ==
    ASSUME IInv
    PROVE  /\ s \in Stream /\ Settled(s) /\ b \in Backend /\ Len(b.queue) <= BackendLimit
           /\ up \subseteq Message /\ down \subseteq Message /\ known \in BOOLEAN
           /\ lost \in 0..MaxLost /\ todo \in Seq(Nat)
           /\ client \in [sent : Nat, half : BOOLEAN, cancelled : BOOLEAN, got : Nat,
                          status : Statuses \cup {"none"}]
           /\ app \in [sent : Nat, got : Nat, ended : Statuses \cup {"none"}]
BY DEF IInv, Types

\* ingress_teardown of the stream t, which differs from s in what is under way.
LEMMA TeardownStep ==
    ASSUME IInv, known, NEW t \in Stream, Settled(t), t.phase = s.phase, t.place = s.place,
           t.reads = s.reads,
           b' = IF t.place = "local" /\ Registered(b) THEN Cancelled(b) ELSE b,
           IF t.dead \/ t.finishing
             THEN s' = t /\ up' = up
             ELSE /\ s' = TryFinish([t EXCEPT !.status = "error", !.read_stopped = TRUE])
                  /\ up' = IF t.place = "remote" THEN up \cup {Close("error")} ELSE up,
           UNCHANGED <<known, todo, lost, client>>, down' \subseteq Message,
           app' \in [sent : Nat, got : Nat, ended : Statuses \cup {"none"}]
    PROVE  IInv'
<1>1. /\ s' \in Stream /\ Settled(s') /\ s'.phase = s.phase /\ s'.place = s.place
      /\ s'.reads = s.reads /\ up' \subseteq up \cup {Close("error")}
  <2>1. CASE t.dead \/ t.finishing
    BY <2>1
  <2>2. CASE ~(t.dead \/ t.finishing)
    <3>1. PICK e \in Statuses : e = "error"
      BY DEF Statuses
    <3>2. PICK v : v = [t EXCEPT !.status = e, !.read_stopped = TRUE]
      OBVIOUS
    <3>3. v \in Stream
      BY <3>2 DEF Stream
    <3>4. Settled(v) /\ v.phase = t.phase /\ v.place = t.place /\ v.reads = t.reads
      BY <3>2 DEF Stream, Settled
    <3>5. s' = TryFinish(v)
      BY <2>2, <3>1, <3>2
    <3>6. up' \subseteq up \cup {Close("error")}
      BY <2>2
    <3> QED BY <3>3, <3>4, <3>5, <3>6, TryFinishSettles
  <2> QED BY <2>1, <2>2
<1>2. /\ b' \in Backend /\ b'.half = b.half /\ b'.writes_done = b.writes_done
      /\ b'.queue = b.queue /\ b'.writing = b.writing
  BY StreamTyped DEF Cancelled, Backend
<1> QED BY <1>1, <1>2, StreamTyped, QuietStep

\* ingress_backend_message of the frame f.
LEMMA BackendMessageStep ==
    ASSUME IInv, known, NEW f \in Nat,
           NEW t, t = [s EXCEPT !.confirmed = TRUE],
           IF Stalled(t)
             THEN LET u == [t EXCEPT !.read_stopped = TRUE, !.status = "error"]
                  IN  /\ b' = IF u.place = "local" /\ Registered(b) THEN Cancelled(b) ELSE b
                      /\ IF u.dead \/ u.finishing
                           THEN s' = u /\ up' = up
                           ELSE /\ s' = TryFinish([u EXCEPT !.status = "error", !.read_stopped = TRUE])
                                /\ up' = IF u.place = "remote" THEN up \cup {Close("error")} ELSE up
             ELSE s' = QueueWrite(t, f) /\ UNCHANGED <<b, up>>,
           UNCHANGED <<known, todo, lost, client>>, down' \subseteq Message,
           app' \in [sent : Nat, got : Nat, ended : Statuses \cup {"none"}]
    PROVE  IInv'
<1>1. t \in Stream /\ Settled(t) /\ t.phase = s.phase /\ t.place = s.place /\ t.reads = s.reads
  BY StreamTyped DEF Stream, Settled
<1>2. CASE Stalled(t)
  <2>1. PICK e \in Statuses : e = "error"
    BY DEF Statuses
  <2>2. PICK u : u = [t EXCEPT !.read_stopped = TRUE, !.status = e]
    OBVIOUS
  <2>3. u \in Stream
    BY <1>1, <2>2 DEF Stream
  <2>4. Settled(u) /\ u.phase = s.phase /\ u.place = s.place /\ u.reads = s.reads
    BY <1>1, <2>2 DEF Stream, Settled
  <2>5. /\ b' = IF u.place = "local" /\ Registered(b) THEN Cancelled(b) ELSE b
        /\ IF u.dead \/ u.finishing
             THEN s' = u /\ up' = up
             ELSE /\ s' = TryFinish([u EXCEPT !.status = "error", !.read_stopped = TRUE])
                  /\ up' = IF u.place = "remote" THEN up \cup {Close("error")} ELSE up
    BY <1>2, <2>1, <2>2
  <2> QED BY <2>3, <2>4, <2>5, TeardownStep
<1>3. CASE ~Stalled(t)
  <2>1. s' = QueueWrite(t, f) /\ UNCHANGED <<b, up>>
    BY <1>3
  <2>2. /\ s' \in Stream /\ Settled(s') /\ s'.phase = s.phase /\ s'.place = s.place
        /\ s'.reads = s.reads
    BY <1>1, <1>3, <2>1, QueueWriteSettles
  <2> QED BY <2>1, <2>2, StreamTyped, QuietStep
<1> QED BY <1>2, <1>3

\* ingress_backend_closed.
LEMMA BackendClosedStep ==
    ASSUME IInv, NEW st \in Statuses, s' = BackendClosed(s, st),
           UNCHANGED <<known, todo, up, lost, client, app>>, down' \subseteq Message, b' \in Backend,
           b'.half = b.half, b'.writes_done = b.writes_done, b'.queue = b.queue,
           b'.writing = b.writing
    PROVE  IInv'
<1>1. CASE ~known \/ s.dead \/ s.finishing
  <2>1. s' = s
    BY <1>1 DEF BackendClosed
  <2> QED BY <2>1, StreamTyped, QuietStep
<1>2. CASE ~(~known \/ s.dead \/ s.finishing)
  <2>1. s' = TryFinish([s EXCEPT !.confirmed = TRUE, !.status = st, !.read_stopped = TRUE])
    BY <1>2 DEF BackendClosed
  <2>2. PICK t, cf : t = s /\ cf = TRUE
    OBVIOUS
  <2>3. t \in Stream /\ Settled(t) /\ cf \in BOOLEAN
    BY <2>2, StreamTyped
  <2>4. PICK r : /\ r = TryFinish([t EXCEPT !.confirmed = cf, !.status = st, !.read_stopped = TRUE])
                 /\ s' = r
    BY <2>1, <2>2
  <2>5. /\ s' \in Stream /\ Settled(s') /\ s'.phase = s.phase /\ s'.place = s.place
        /\ s'.reads = s.reads
    <3>1. /\ r \in Stream /\ Settled(r)
          /\ r.phase = t.phase /\ r.place = t.place /\ r.reads = t.reads
      BY <2>3, <2>4, TornDown, Zenon
    <3> QED BY <2>2, <2>4, <3>1
  <2> QED BY <1>2, <2>5, StreamTyped, QuietStep
<1> QED BY <1>1, <1>2

LEMMA NewCallStep == IInv /\ generic_on_new_call => IInv'
<1> SUFFICES ASSUME IInv, generic_on_new_call PROVE IInv'
  OBVIOUS
<1>1. s.phase = 0 /\ ~s.finishing /\ todo = <<>> /\ ~b.half /\ ~b.writes_done /\ s.place = "none"
  BY PhaseOrder DEF IInv, Phases, generic_on_new_call
<1>2. PICK n, r : n = 1 /\ n \in 0..3 /\ r = 1 /\ r \in 0..1
  OBVIOUS
<1>3. s' = [s EXCEPT !.phase = n, !.reads = r]
  BY <1>2 DEF generic_on_new_call
<1>4. s' \in Stream /\ s'.phase = 1 /\ s'.place = "none" /\ Settled(s')
  BY <1>1, <1>2, <1>3, StreamTyped DEF Stream, Settled
<1>5. Types'
  BY <1>4 DEF IInv, Types, generic_on_new_call
<1>6. Phases' /\ Local' /\ (Len(b.queue) <= BackendLimit)'
  BY <1>1, <1>4, PhaseOrder DEF IInv, Phases, Local, generic_on_new_call
<1> QED BY <1>4, <1>5, <1>6 DEF IInv, Settled

\* generic_on_read, the handler's three outcomes.
LEMMA ReadStep ==
    ASSUME IInv, NEW message \in BOOLEAN, generic_on_read(message)
    PROVE  IInv'
<1>0. /\ client' \in [sent : Nat, half : BOOLEAN, cancelled : BOOLEAN, got : Nat,
                      status : Statuses \cup {"none"}]
      /\ UNCHANGED <<known, down, lost, app>> /\ known /\ s.reads > 0 /\ todo = <<>>
  BY StreamTyped DEF generic_on_read
<1>1. PICK z, one, two, three : /\ z \in 0..1 /\ z = 0 /\ one \in 0..1 /\ one = 1
                                /\ two \in 0..3 /\ two = 2 /\ three \in 0..3 /\ three = 3
  OBVIOUS
<1>2. PICK t : t = [s EXCEPT !.reads = z]
  OBVIOUS
<1>3. t \in Stream
  BY <1>1, <1>2, StreamTyped DEF Stream
<1>4. /\ Settled(t) /\ t.reads = 0 /\ t.phase = s.phase /\ t.place = s.place
      /\ t.finishing = s.finishing /\ t.dead = s.dead
  BY <1>1, <1>2, StreamTyped DEF Stream, Settled
<1>5. CASE t.finish_pending \/ t.finishing
  <2>1. s' = TryFinish(t) /\ UNCHANGED <<todo, b, up>>
    BY <1>1, <1>2, <1>5 DEF generic_on_read
  <2>2. s' \in Stream /\ Settled(s') /\ s'.phase = s.phase /\ s'.place = s.place /\ s'.reads = 0
    BY <1>3, <1>4, <2>1, TryFinishSettles
  <2> QED BY <1>0, <2>1, <2>2, StreamTyped, QuietStep
<1> DEFINE f == client.sent + 1
<1>6. CASE ~(t.finish_pending \/ t.finishing) /\ message
  <2>0. f \in Nat \ {Half}
    <3>1. client.sent \in Nat
      BY StreamTyped
    <3> QED BY <3>1 DEF Half
  <2>1. PICK bf, al : bf = Append(t.buffered, f) /\ al = (IF t.alarm = "set" THEN "off" ELSE t.alarm)
    OBVIOUS
  <2>2. bf \in Seq(Nat \ {Half}) /\ al \in {"off", "set", "fired"}
    BY <1>3, <2>0, <2>1 DEF Stream
  <2>3. ReadMessage(t, f)
    BY <1>1, <1>2, <1>6 DEF generic_on_read
  <2>4. CASE t.phase = 1
    <3>1. s' = [t EXCEPT !.phase = two, !.reads = one, !.buffered = bf, !.alarm = "set"]
      BY <1>1, <2>1, <2>3, <2>4 DEF ReadMessage
    <3>2. UNCHANGED <<todo, b, up>>
      BY <2>3, <2>4 DEF ReadMessage
    <3>3. s' \in Stream
      BY <1>1, <1>3, <2>2, <3>1 DEF Stream
    <3>4. s'.phase = 2 /\ s'.place = s.place /\ Settled(s')
      BY <1>1, <1>3, <1>4, <1>6, <3>1 DEF Stream, Settled
    <3>5. todo = <<>> /\ ~b.half /\ ~b.writes_done /\ s.place = "none"
      BY <1>4, <2>4, PhaseOrder DEF IInv, Phases
    <3>6. Types'
      <4>1. client'.sent \in Nat /\ client'.status \in Statuses \cup {"none"}
        BY <1>0
      <4> QED BY <1>0, <3>2, <3>3, <4>1 DEF IInv, Types
    <3>7. Phases' /\ Local' /\ (Len(b.queue) <= BackendLimit)'
      BY <3>2, <3>4, <3>5, PhaseOrder DEF IInv, Phases, Local
    <3> QED BY <3>4, <3>6, <3>7 DEF IInv, Settled
  <2>5. CASE t.phase = 2
    <3>1. PICK u : u = [t EXCEPT !.phase = three, !.reads = one, !.buffered = bf, !.alarm = al]
      OBVIOUS
    <3>2. u \in Stream
      BY <1>1, <1>3, <2>2, <3>1 DEF Stream
    <3>3. u.phase = 3 /\ u.place = s.place /\ Settled(u)
      BY <1>1, <1>3, <1>4, <1>6, <3>1 DEF Stream, Settled
    <3>4. s.place = "none"
      BY <1>4, <2>5, PhaseOrder DEF IInv, Phases
    <3>5. \/ /\ s' = TryFinish([u EXCEPT !.status = "error"])
             /\ UNCHANGED <<todo, b, up>>
          \/ \E p \in Places :
                /\ s' = [u EXCEPT !.place = p, !.opened = TRUE, !.buffered = <<>>]
                /\ todo' = u.buffered \o <<>>
                /\ b' = IF p = "local" THEN [b EXCEPT !.at = "starting"] ELSE b
                /\ up' = IF p = "remote" THEN up \cup {Open} ELSE up
      <4>1. t.phase # 1 /\ t.phase # 3
        BY <2>5
      <4>2. LET v == [t EXCEPT !.phase = 3, !.reads = 1, !.buffered = Append(t.buffered, f),
                               !.alarm = IF t.alarm = "set" THEN "off" ELSE t.alarm]
            IN  generic_begin_stream(v, <<>>)
        BY <2>3, <4>1, Zenon DEF ReadMessage
      <4>3. u = [t EXCEPT !.phase = 3, !.reads = 1, !.buffered = Append(t.buffered, f),
                          !.alarm = IF t.alarm = "set" THEN "off" ELSE t.alarm]
        BY <1>1, <2>1, <3>1
      <4> QED BY <4>2, <4>3 DEF generic_begin_stream
    <3>6. PICK last \in {<<>>, <<Half>>} : last = <<>> /\ last # <<Half>>
      OBVIOUS
    <3>7. s.phase \in {1, 2}
      BY <1>4, <2>5
    <3> QED BY <1>0, <3>2, <3>3, <3>4, <3>5, <3>6, <3>7, BeginStep
  <2>6. CASE t.phase = 3
    <3>0. UNCHANGED <<b, up>>
      BY <2>3, <2>6 DEF ReadMessage
    <3>1. CASE t.read_stopped
      <4>1. s' = t /\ todo' = todo
        BY <2>3, <2>6, <3>1 DEF ReadMessage
      <4> QED BY <1>0, <1>3, <1>4, <3>0, <4>1, StreamTyped, QuietStep
    <3>2. CASE ~t.read_stopped
      <4>1. s' = [t EXCEPT !.reads = one] /\ todo' = <<f>>
        BY <1>1, <2>3, <2>6, <3>2 DEF ReadMessage
      <4>2. s' \in Stream /\ s'.phase = 3 /\ s'.place = s.place /\ Settled(s')
        BY <1>1, <1>3, <1>4, <1>6, <2>6, <4>1 DEF Stream, Settled
      <4>3. todo' \in Seq(Nat) /\ Len(todo') = 1 /\ todo'[1] # Half
        BY <2>0, <4>1
      <4>4. Types'
        <5>1. client'.sent \in Nat /\ client'.status \in Statuses \cup {"none"}
          BY <1>0
        <5> QED BY <1>0, <3>0, <4>2, <4>3, <5>1 DEF IInv, Types
      <4>5. s.place = "local" => ~b.half /\ ~b.writes_done
        <5>1. s.reads # 0
          BY <1>0, StreamTyped DEF Stream
        <5> QED BY <5>1 DEF IInv, Local, LastRead, Requests
      <4>6. \A i \in 1..Len(todo') : todo'[i] # Half
        BY <4>3
      <4>7. \A i \in 1..(Len(todo') - 1) : todo'[i] # Half
        BY <4>3
      <4>8. s'.place = "local" => Requests(b, todo)' /\ LastRead'
        BY <3>0, <4>2, <4>5, <4>6, <4>7 DEF Requests, LastRead
      <4>9. Phases' /\ Local' /\ (Len(b.queue) <= BackendLimit)'
        BY <3>0, <4>2, <4>8, PhaseOrder DEF IInv, Phases, Local
      <4> QED BY <4>2, <4>4, <4>9 DEF IInv, Settled
    <3> QED BY <3>1, <3>2
  <2> QED BY <2>3, <2>4, <2>5, <2>6 DEF ReadMessage
<1>7. CASE ~(t.finish_pending \/ t.finishing) /\ ~message
  <2>1. ReadEnd(t)
    BY <1>1, <1>2, <1>7 DEF generic_on_read
  <2>2. PICK al : al = (IF t.alarm = "set" THEN "off" ELSE t.alarm)
    OBVIOUS
  <2>3. al \in {"off", "set", "fired"}
    BY <1>3, <2>2 DEF Stream
  <2>4. CASE t.phase \in {1, 2}
    <3>1. PICK u : u = [t EXCEPT !.phase = three, !.alarm = al]
      OBVIOUS
    <3>2. u \in Stream
      BY <1>1, <1>3, <2>3, <3>1 DEF Stream
    <3>3. u.phase = 3 /\ u.place = s.place /\ u.reads = 0 /\ Settled(u)
      BY <1>1, <1>3, <1>4, <3>1 DEF Stream, Settled
    <3>4. s.phase \in {1, 2} /\ s.place = "none"
      BY <1>4, <2>4, PhaseOrder DEF IInv, Phases
    <3>5. t.phase # 3
      BY <2>4
    <3>6. \/ /\ s' = TryFinish([u EXCEPT !.status = "error"])
             /\ UNCHANGED <<todo, b, up>>
          \/ \E p \in Places :
                /\ s' = [u EXCEPT !.place = p, !.opened = TRUE, !.buffered = <<>>]
                /\ todo' = u.buffered \o <<Half>>
                /\ b' = IF p = "local" THEN [b EXCEPT !.at = "starting"] ELSE b
                /\ up' = IF p = "remote" THEN up \cup {Open} ELSE up
      BY <1>1, <2>1, <2>2, <3>1, <3>5 DEF ReadEnd, generic_begin_stream
    <3>7. PICK last \in {<<>>, <<Half>>} : last = <<Half>>
      OBVIOUS
    <3> QED BY <1>0, <3>2, <3>3, <3>4, <3>6, <3>7, BeginStep
  <2>5. CASE t.phase = 3
    <3>1. s' = [t EXCEPT !.read_stopped = TRUE] /\ UNCHANGED <<b, up>>
      BY <2>1, <2>5 DEF ReadEnd
    <3>2. todo' = IF t.read_stopped THEN todo ELSE <<Half>>
      BY <2>1, <2>5 DEF ReadEnd
    <3>3. s' \in Stream /\ s'.phase = 3 /\ s'.place = s.place /\ s'.reads = 0 /\ Settled(s')
      BY <1>3, <1>4, <2>5, <3>1 DEF Stream, Settled
    <3>4. CASE t.read_stopped
      <4>1. todo' = todo /\ s'.phase = s.phase
        BY <1>4, <2>5, <3>2, <3>3, <3>4
      <4> QED BY <1>0, <3>1, <3>3, <4>1, StreamTyped, QuietStep
    <3>5. CASE ~t.read_stopped
      <4>1. todo' \in Seq(Nat) /\ Len(todo') = 1
        BY <3>2, <3>5 DEF Half
      <4>2. Types'
        <5>1. client'.sent \in Nat /\ client'.status \in Statuses \cup {"none"}
          BY <1>0
        <5> QED BY <1>0, <3>1, <3>3, <4>1, <5>1 DEF IInv, Types
      <4>3. s.place = "local" => ~b.half /\ ~b.writes_done
        <5>1. s.reads # 0
          BY <1>0, StreamTyped DEF Stream
        <5> QED BY <5>1 DEF IInv, Local, LastRead, Requests
      <4>4. \A i \in 1..(Len(todo') - 1) : todo'[i] # Half
        BY <4>1
      <4>5. s'.place = "local" => Requests(b, todo)' /\ LastRead'
        BY <3>1, <3>3, <4>3, <4>4 DEF Requests, LastRead
      <4>6. Phases' /\ Local' /\ (Len(b.queue) <= BackendLimit)'
        BY <3>1, <3>3, <4>5, PhaseOrder DEF IInv, Phases, Local
      <4> QED BY <3>3, <4>2, <4>6 DEF IInv, Settled
    <3> QED BY <3>4, <3>5
  <2> QED BY <2>1, <2>4, <2>5 DEF ReadEnd
<1> QED BY <1>5, <1>6, <1>7

\* The end of a write: the next one, Finish, or the teardown for a client that is gone.
LEMMA WriteStep == IInv /\ generic_on_write => IInv'
<1> SUFFICES ASSUME IInv, generic_on_write PROVE IInv'
  OBVIOUS
<1>0. known /\ s.writes > 0 /\ UNCHANGED <<known, todo, down, lost, app>>
  BY DEF generic_on_write
<1>1. PICK z, one : z \in 0..1 /\ z = 0 /\ z \in Nat /\ one \in 0..1 /\ one = 1
  OBVIOUS
<1>2. PICK t : t = [s EXCEPT !.writes = z, !.writing = z]
  OBVIOUS
<1>3. t \in Stream
  BY <1>1, <1>2, StreamTyped DEF Stream
<1>4. /\ Settled(t) /\ t.reads = s.reads /\ t.phase = s.phase /\ t.place = s.place
      /\ t.writes = 0
  BY <1>1, <1>2, StreamTyped DEF Stream, Settled
<1>5. CASE client.cancelled
  <2>1. /\ b' = IF t.place = "local" /\ Registered(b) THEN Cancelled(b) ELSE b
        /\ IF t.dead \/ t.finishing
             THEN s' = t /\ up' = up
             ELSE /\ s' = TryFinish([t EXCEPT !.status = "error", !.read_stopped = TRUE])
                  /\ up' = IF t.place = "remote" THEN up \cup {Close("error")} ELSE up
        /\ UNCHANGED client
    BY <1>1, <1>2, <1>5 DEF generic_on_write, Teardown
  <2> QED BY <1>0, <1>3, <1>4, <2>1, StreamTyped, TeardownStep
<1>6. CASE ~client.cancelled
  <2>1. /\ client' = [client EXCEPT !.got = Got(@, s.writing)]
        /\ s' = IF t.write_queue # <<>> /\ ~t.finishing /\ ~t.finish_pending
                  THEN [t EXCEPT !.writes = 1, !.writing = Head(t.write_queue),
                                 !.write_queue = Tail(t.write_queue)]
                  ELSE IF t.finish_pending THEN TryFinish(t) ELSE t
        /\ UNCHANGED <<b, up>>
    BY <1>1, <1>2, <1>6 DEF generic_on_write
  <2>2. client' \in [sent : Nat, half : BOOLEAN, cancelled : BOOLEAN, got : Nat,
                     status : Statuses \cup {"none"}]
    <3>1. PICK g : g = Got(client.got, s.writing)
      OBVIOUS
    <3>2. g \in Nat
      BY <3>1, StreamTyped, StreamConstants DEF Got, Mixed, Stream
    <3>3. client' = [client EXCEPT !.got = g]
      BY <2>1, <3>1
    <3> QED BY <3>2, <3>3, StreamTyped
  <2>3. /\ s' \in Stream /\ Settled(s') /\ s'.phase = s.phase /\ s'.place = s.place
        /\ s'.reads = s.reads
    <3>1. CASE t.write_queue # <<>> /\ ~t.finishing /\ ~t.finish_pending
      <4>1. PICK h, q : h = Head(t.write_queue) /\ q = Tail(t.write_queue)
        OBVIOUS
      <4>2. h \in Nat /\ q \in Seq(Nat) /\ Len(q) <= IngressLimit
        <5>1. t.write_queue \in Seq(Nat) /\ Len(t.write_queue) <= IngressLimit
          BY <1>3, <1>4 DEF Stream, Settled
        <5> QED BY <3>1, <4>1, <5>1, StreamConstants
      <4>3. s' = [t EXCEPT !.writes = one, !.writing = h, !.write_queue = q]
        BY <1>1, <2>1, <3>1, <4>1
      <4>4. s' \in Stream
        BY <1>1, <1>3, <4>2, <4>3 DEF Stream
      <4> QED BY <1>3, <1>4, <3>1, <4>2, <4>3, <4>4 DEF Stream, Settled
    <3>2. CASE ~(t.write_queue # <<>> /\ ~t.finishing /\ ~t.finish_pending) /\ t.finish_pending
      <4>1. s' = TryFinish(t)
        BY <2>1, <3>2
      <4> QED BY <1>3, <1>4, <4>1, TryFinishSettles
    <3>3. CASE ~(t.write_queue # <<>> /\ ~t.finishing /\ ~t.finish_pending) /\ ~t.finish_pending
      <4>1. s' = t
        BY <2>1, <3>3
      <4> QED BY <1>3, <1>4, <4>1
    <3> QED BY <3>1, <3>2, <3>3
  <2> QED BY <1>0, <2>1, <2>2, <2>3, StreamTyped, QuietStep
<1> QED BY <1>5, <1>6

LEMMA FinishStep == IInv /\ generic_on_finish => IInv'
<1> SUFFICES ASSUME IInv, generic_on_finish PROVE IInv'
  OBVIOUS
<1>1. s' = [s EXCEPT !.dead = TRUE] /\ known /\ s.finishing
  BY DEF generic_on_finish
<1>2. /\ s' \in Stream /\ Settled(s') /\ s'.phase = s.phase /\ s'.place = s.place
      /\ s'.reads = s.reads
  BY <1>1, StreamTyped DEF Stream, Settled
<1>3. client' \in [sent : Nat, half : BOOLEAN, cancelled : BOOLEAN, got : Nat,
                   status : Statuses \cup {"none"}]
  <2>1. s.status \in Statuses \cup {"none"}
    BY StreamTyped DEF Stream
  <2>2. client' = [client EXCEPT !.status = s.status]
    BY DEF generic_on_finish
  <2> QED BY <2>1, <2>2, StreamTyped
<1>4. UNCHANGED <<known, todo, b, up, down, lost, app>>
  BY DEF generic_on_finish
<1> QED BY <1>1, <1>2, <1>3, <1>4, StreamTyped, QuietStep

LEMMA AlarmFiresStep == IInv /\ AlarmFires => IInv'
<1> SUFFICES ASSUME IInv, AlarmFires PROVE IInv'
  OBVIOUS
<1>1. s' = [s EXCEPT !.alarm = "fired"] /\ UNCHANGED <<known, todo, b, up, down, lost, client, app>>
  BY DEF AlarmFires
<1>2. /\ s' \in Stream /\ Settled(s') /\ s'.phase = s.phase /\ s'.place = s.place
      /\ s'.reads = s.reads /\ s'.finishing = s.finishing
  BY <1>1, StreamTyped DEF Stream, Settled
<1> QED BY <1>1, <1>2, StreamTyped, QuietStep

\* The classification window has passed: the stream begins with the one frame read.
LEMMA AlarmStep == IInv /\ generic_on_alarm => IInv'
<1> SUFFICES ASSUME IInv, generic_on_alarm PROVE IInv'
  OBVIOUS
<1>0. known /\ UNCHANGED <<known, down, lost, client, app>>
  BY DEF generic_on_alarm
<1>1. PICK t : t = [s EXCEPT !.alarm = "off"]
  OBVIOUS
<1>2. /\ t \in Stream /\ Settled(t) /\ t.phase = s.phase /\ t.place = s.place
      /\ t.reads = s.reads
  BY <1>1, StreamTyped DEF Stream, Settled
<1>3. CASE t.dead \/ t.phase # 2
  <2>1. s' = t /\ UNCHANGED <<todo, b, up>>
    BY <1>1, <1>3 DEF generic_on_alarm
  <2> QED BY <1>0, <1>2, <2>1, StreamTyped, QuietStep
<1>4. CASE ~(t.dead \/ t.phase # 2)
  <2>1. PICK three : three \in 0..3 /\ three = 3
    OBVIOUS
  <2>2. PICK u : u = [t EXCEPT !.phase = three]
    OBVIOUS
  <2>3. u \in Stream
    BY <1>2, <2>1, <2>2 DEF Stream
  <2>4. u.phase = 3 /\ u.place = s.place /\ Settled(u)
    BY <1>2, <2>1, <2>2 DEF Stream, Settled
  <2>5. s.phase \in {1, 2} /\ s.place = "none"
    BY <1>2, <1>4, PhaseOrder DEF IInv, Phases
  <2>6. \/ /\ s' = TryFinish([u EXCEPT !.status = "error"])
           /\ UNCHANGED <<todo, b, up>>
        \/ \E p \in Places :
              /\ s' = [u EXCEPT !.place = p, !.opened = TRUE, !.buffered = <<>>]
              /\ todo' = u.buffered \o <<>>
              /\ b' = IF p = "local" THEN [b EXCEPT !.at = "starting"] ELSE b
              /\ up' = IF p = "remote" THEN up \cup {Open} ELSE up
    BY <1>1, <1>4, <2>1, <2>2 DEF generic_on_alarm, generic_begin_stream
  <2>7. PICK last \in {<<>>, <<Half>>} : last = <<>> /\ last # <<Half>>
    OBVIOUS
  <2> QED BY <1>0, <2>3, <2>4, <2>5, <2>6, <2>7, StreamTyped, BeginStep
<1> QED BY <1>3, <1>4

\* The sweeper tears down an idle stream.
LEMMA SweepStep == IInv /\ (sweep_dead \/ sweep_idle \/ sweep_unconfirmed) => IInv'
<1> SUFFICES ASSUME IInv, sweep_dead \/ sweep_idle \/ sweep_unconfirmed PROVE IInv'
  OBVIOUS
<1>1. CASE sweep_dead
  <2>1. /\ UNCHANGED <<s, todo, b, up, down, lost, client, app>>
        /\ known /\ known' = FALSE
    BY <1>1 DEF sweep_dead
  <2> QED BY <2>1, StreamTyped, QuietStep
<1>2. CASE sweep_idle \/ sweep_unconfirmed
  <2>1. PICK t : t = s
    OBVIOUS
  <2>2. /\ b' = IF t.place = "local" /\ Registered(b) THEN Cancelled(b) ELSE b
        /\ IF t.dead \/ t.finishing
             THEN s' = t /\ up' = up
             ELSE /\ s' = TryFinish([t EXCEPT !.status = "error", !.read_stopped = TRUE])
                  /\ up' = IF t.place = "remote" THEN up \cup {Close("error")} ELSE up
        /\ UNCHANGED <<known, todo, down, lost, client, app>> /\ known
    BY <1>2, <2>1 DEF sweep_idle, sweep_unconfirmed, Teardown
  <2>3. /\ t \in Stream /\ Settled(t) /\ t.phase = s.phase /\ t.place = s.place
        /\ t.reads = s.reads
    BY <2>1, StreamTyped
  <2> QED BY <2>2, <2>3, StreamTyped, TeardownStep
<1> QED BY <1>1, <1>2

------------------------------------------------------------------------------
(* The actions of the backend's call and of the wire *)

\* The pump hands the backend's call the next frame, or the half-close.
LEMMA ForwardStep == IInv /\ ingress_forward_frame => IInv'
<1> SUFFICES ASSUME IInv, ingress_forward_frame PROVE IInv'
  OBVIOUS
<1>0. /\ todo # <<>> /\ todo' = Tail(todo) /\ todo \in Seq(Nat)
      /\ UNCHANGED <<s, known, down, lost, client, app>>
  BY StreamTyped DEF ingress_forward_frame
<1>1. PICK td, c : td = todo /\ c = b
  OBVIOUS
<1>2. td \in Seq(Nat) /\ td # <<>> /\ c \in Backend /\ Len(c.queue) <= BackendLimit
  BY <1>0, <1>1, StreamTyped
<1>3. Head(td) \in Nat /\ Tail(td) \in Seq(Nat)
  BY <1>2
<1>4. b' = b \/ (s.place = "local" /\ b' = ClientMessage(c, Head(td)))
  BY <1>1 DEF ingress_forward_frame
<1>5. up' = up \/ (s.place = "remote" /\ up' = up \cup {Frame(Head(td))})
  BY <1>1 DEF ingress_forward_frame
<1>6. b' \in Backend /\ Len(b'.queue) <= BackendLimit
  BY <1>2, <1>3, <1>4, StreamTyped, ClientMessageTyped
<1>7. up' \subseteq Message
  BY <1>3, <1>5, StreamTyped, Messages
<1>8. Types'
  BY <1>0, <1>1, <1>3, <1>6, <1>7 DEF IInv, Types
<1>9. s.phase # 0 /\ ~(s.phase < 3)
  <2>1. ~(s.phase < 3)
    BY <1>0 DEF IInv, Phases
  <2>2. 0 < 3
    BY PhaseOrder
  <2> QED BY <2>1, <2>2
<1>10. s.place = "local" => Requests(b, todo)' /\ LastRead'
  <2> SUFFICES ASSUME s.place = "local" PROVE Requests(b', todo') /\ LastRead'
    BY DEF Requests
  <2>1. Requests(c, td)
    BY <1>1 DEF IInv, Local
  <2>2. ~c.half
    BY <1>2, <2>1 DEF Requests
  <2>3. Requests(ClientMessage(c, Head(td)), Tail(td))
    BY <1>2, <2>1, ClientMessageLegal
  <2>4. Requests(c, Tail(td))
    <3>1. \A i \in 1..(Len(Tail(td)) - 1) : Tail(td)[i] # Half
      BY <2>3 DEF Requests
    <3> QED BY <2>1, <2>2, <3>1 DEF Requests
  <2>5. Requests(b', todo')
    BY <1>0, <1>1, <1>4, <2>3, <2>4
  <2>6. \A i \in 1..Len(Tail(td)) : Tail(td)[i] = td[i + 1] /\ i + 1 \in 1..Len(td)
    BY <1>2
  <2>7. b'.half => Head(td) = Half
    <3>1. ClientMessage(c, Head(td)).half = (c.half \/ Head(td) = Half)
      BY <1>2, <1>3, ClientMessageTyped
    <3> QED BY <1>1, <1>4, <2>2, <3>1
  <2>8. Head(td) = td[1] /\ 1 \in 1..Len(td)
    BY <1>2
  <2>9. b'.half \/ (\E i \in 1..Len(todo') : todo'[i] = Half) => \E i \in 1..Len(td) : td[i] = Half
    BY <1>0, <1>1, <2>6, <2>7, <2>8
  <2>10. LastRead'
    BY <1>0, <1>1, <2>9 DEF IInv, Local, LastRead
  <2> QED BY <2>5, <2>10
<1>11. s.place # "remote" => \A m \in up' : m.kind = "close"
  BY <1>5 DEF IInv, Local
<1>12. Phases' /\ Local'
  BY <1>0, <1>9, <1>10, <1>11 DEF Phases, Local
<1> QED BY <1>0, <1>6, <1>8, <1>12 DEF IInv, Settled

\* run(): the call is started, its reads and its writes end.
LEMMA PumpStep == IInv /\ (backend_started \/ backend_read_end \/ backend_wrote) => IInv'
<1> SUFFICES ASSUME IInv, backend_started \/ backend_read_end \/ backend_wrote PROVE IInv'
  OBVIOUS
<1>0. PICK c : c = b
  OBVIOUS
<1>1. c \in Backend /\ Len(c.queue) <= BackendLimit
  BY <1>0, StreamTyped
<1>2. ASSUME NEW d \in Backend, d.queue = c.queue, d.half = c.half, d.writes_done = c.writes_done,
             d.writing = c.writing \/ (d.writing = 0 /\ c.writing # 0),
             b' = Drive(d) \/ b' = d,
             UNCHANGED <<s, known, todo, up, down, lost, client>>,
             app' \in [sent : Nat, got : Nat, ended : Statuses \cup {"none"}]
      PROVE  IInv'
  <2>1. /\ b' \in Backend /\ Len(b'.queue) <= BackendLimit /\ b'.half = b.half
        /\ b'.writes_done => b.half \/ b.writes_done
    BY <1>0, <1>1, <1>2, DriveTyped
  <2>2. Requests(b, todo) => (b'.writes_done => b'.half /\ b'.queue = <<>> /\ b'.writing = 0)
    <3> SUFFICES ASSUME Requests(b, todo)
                 PROVE  b'.writes_done => b'.half /\ b'.queue = <<>> /\ b'.writing = 0
      OBVIOUS
    <3>1. d.writes_done => d.half /\ d.queue = <<>> /\ d.writing = 0
      BY <1>0, <1>2 DEF Requests
    <3> QED BY <1>2, <3>1, DriveLegal
  <2> QED BY <1>2, <2>1, <2>2, StreamTyped, CallStep
<1>3. CASE backend_started
  <2>1. UNCHANGED <<s, known, todo, up, down, lost, client, app>>
    BY <1>3 DEF backend_started
  <2>2. CASE b' = Drive([b EXCEPT !.at = "open", !.started = TRUE])
    <3>1. PICK d : d = [c EXCEPT !.at = "open", !.started = TRUE]
      OBVIOUS
    <3>2. /\ d \in Backend /\ d.queue = c.queue /\ d.half = c.half
          /\ d.writes_done = c.writes_done /\ d.writing = c.writing
      BY <1>1, <3>1 DEF Backend
    <3>3. b' = Drive(d)
      BY <1>0, <2>2, <3>1
    <3> QED BY <1>2, <2>1, <3>2, <3>3, StreamTyped
  <2>3. CASE b' = [b EXCEPT !.at = "finish"]
    <3>1. PICK d : d = [c EXCEPT !.at = "finish"]
      OBVIOUS
    <3>2. /\ d \in Backend /\ d.queue = c.queue /\ d.half = c.half
          /\ d.writes_done = c.writes_done /\ d.writing = c.writing
      BY <1>1, <3>1 DEF Backend
    <3>3. b' = d
      BY <1>0, <2>3, <3>1
    <3> QED BY <1>2, <2>1, <3>2, <3>3, StreamTyped
  <2> QED BY <1>3, <2>2, <2>3 DEF backend_started
<1>4. CASE backend_read_end
  <2>1. UNCHANGED <<s, known, todo, up, down, lost, client, app>> /\ b' = [b EXCEPT !.at = "finish"]
    BY <1>4 DEF backend_read_end
  <2>2. PICK d : d = [c EXCEPT !.at = "finish"]
    OBVIOUS
  <2>3. /\ d \in Backend /\ d.queue = c.queue /\ d.half = c.half
        /\ d.writes_done = c.writes_done /\ d.writing = c.writing
    BY <1>1, <2>2 DEF Backend
  <2>4. b' = d
    BY <1>0, <2>1, <2>2
  <2> QED BY <1>2, <2>1, <2>3, <2>4, StreamTyped
<1>5. CASE backend_wrote
  <2>1. UNCHANGED <<s, known, todo, up, down, lost, client>> /\ b.writing # 0
    BY <1>5 DEF backend_wrote
  <2>2. PICK z : z \in Nat /\ z = 0
    OBVIOUS
  <2>3. PICK d : d = [c EXCEPT !.writing = z]
    OBVIOUS
  <2>4. /\ d \in Backend /\ d.queue = c.queue /\ d.half = c.half
        /\ d.writes_done = c.writes_done /\ d.writing = 0 /\ c.writing # 0
    BY <1>0, <1>1, <2>1, <2>2, <2>3 DEF Backend
  <2>5. b' = Drive(d)
    BY <1>0, <1>5, <2>2, <2>3 DEF backend_wrote
  <2>6. app' \in [sent : Nat, got : Nat, ended : Statuses \cup {"none"}]
    <3>1. PICK g : g = Got(app.got, b.writing)
      OBVIOUS
    <3>2. g \in Nat
      BY <3>1, StreamTyped, StreamConstants DEF Got, Mixed, Backend
    <3>3. app' = app \/ app' = [app EXCEPT !.got = g]
      BY <1>5, <3>1 DEF backend_wrote
    <3> QED BY <3>2, <3>3, StreamTyped
  <2> QED BY <1>2, <2>1, <2>4, <2>5, <2>6
<1> QED BY <1>3, <1>4, <1>5

\* A message of the backend, for a stream here or on another leaf.
LEMMA BackendReadStep == IInv /\ backend_read => IInv'
<1> SUFFICES ASSUME IInv, backend_read PROVE IInv'
  OBVIOUS
<1>1. app' \in [sent : Nat, got : Nat, ended : Statuses \cup {"none"}] /\ app.sent + 1 \in Nat
  <2>1. PICK n : n = app.sent + 1
    OBVIOUS
  <2>2. n \in Nat
    BY <2>1, StreamTyped
  <2>3. app' = [app EXCEPT !.sent = n]
    BY <2>1 DEF backend_read
  <2> QED BY <2>1, <2>2, <2>3, StreamTyped
<1>2. UNCHANGED <<known, todo, lost, client>>
  BY DEF backend_read
<1>3. CASE s.place = "local" /\ known
  <2>1. PICK f, t : f = app.sent + 1 /\ t = [s EXCEPT !.confirmed = TRUE]
    OBVIOUS
  <2>2. IF Stalled(t)
          THEN LET u == [t EXCEPT !.read_stopped = TRUE, !.status = "error"]
               IN  /\ b' = IF u.place = "local" /\ Registered(b) THEN Cancelled(b) ELSE b
                   /\ IF u.dead \/ u.finishing
                        THEN s' = u /\ up' = up
                        ELSE /\ s' = TryFinish([u EXCEPT !.status = "error", !.read_stopped = TRUE])
                             /\ up' = IF u.place = "remote" THEN up \cup {Close("error")} ELSE up
          ELSE s' = QueueWrite(t, f) /\ UNCHANGED <<b, up>>
    BY <1>3, <2>1 DEF backend_read, BackendMessage, Teardown
  <2>3. down' \subseteq Message /\ f \in Nat
    BY <1>1, <1>3, <2>1, StreamTyped DEF backend_read
  <2> QED BY <1>1, <1>2, <1>3, <2>1, <2>2, <2>3, BackendMessageStep
<1>4. CASE ~(s.place = "local" /\ known)
  <2>1. UNCHANGED <<s, b, up>>
    BY <1>4 DEF backend_read
  <2>2. down' \subseteq Message
    <3>1. down' \subseteq down \cup {Frame(app.sent + 1)}
      BY <1>4 DEF backend_read
    <3> QED BY <1>1, <3>1, StreamTyped, Messages
  <2> QED BY <1>1, <1>2, <2>1, <2>2, StreamTyped, QuietStep
<1> QED BY <1>3, <1>4

\* on_close of the backend's call.
LEMMA FinishedStep == IInv /\ backend_stream_finished => IInv'
<1> SUFFICES ASSUME IInv, backend_stream_finished PROVE IInv'
  OBVIOUS
<1>1. PICK st \in Statuses : st = IF b.cancelled \/ app.ended # "ok" THEN "error" ELSE "ok"
  BY DEF Statuses
<1>2. b' = [b EXCEPT !.at = "gone"] /\ UNCHANGED <<known, todo, up, lost, client, app>>
  BY DEF backend_stream_finished
<1>3. /\ b' \in Backend /\ b'.half = b.half /\ b'.writes_done = b.writes_done
      /\ b'.queue = b.queue /\ b'.writing = b.writing
  BY <1>2, StreamTyped DEF Backend
<1>4. CASE s.place = "local"
  <2>1. s' = BackendClosed(s, st) /\ down' = down
    BY <1>1, <1>4 DEF backend_stream_finished
  <2> QED BY <1>2, <1>3, <2>1, StreamTyped, BackendClosedStep
<1>5. CASE s.place # "local"
  <2>1. down' = down \cup {Close(st)} /\ s' = s
    BY <1>1, <1>5 DEF backend_stream_finished
  <2>2. down' \subseteq Message
    BY <2>1, StreamTyped, Messages
  <2> QED BY <1>2, <1>3, <2>1, <2>2, StreamTyped, QuietStep
<1> QED BY <1>4, <1>5

\* Opens and client frames, which only a remote stream has on the wire, at the
\* destination leaf or at a node that refuses.
LEMMA OriginStep ==
    IInv /\ (process_stream_open \/ handle_stream_open_refused \/ process_stream_frame_origin
             \/ process_stream_close_origin) => IInv'
<1> SUFFICES ASSUME IInv, process_stream_open \/ handle_stream_open_refused
                          \/ process_stream_frame_origin \/ process_stream_close_origin
             PROVE  IInv'
  OBVIOUS
<1>0. UNCHANGED <<s, known, todo, lost, client, app>> /\ up' \subseteq up
  BY DEF process_stream_open, handle_stream_open_refused, process_stream_frame_origin,
         process_stream_close_origin
<1>1. Close("error") \in Message
  BY Messages DEF Statuses
<1>2. down' \subseteq Message
  <2>1. down' \subseteq down \cup {Close("error")}
    BY DEF process_stream_open, handle_stream_open_refused, process_stream_frame_origin,
           process_stream_close_origin
  <2> QED BY <1>1, <2>1, StreamTyped
<1>3. CASE handle_stream_open_refused \/ process_stream_close_origin
  <2>1. b' = b \/ b' = Cancelled(b)
    BY <1>3 DEF handle_stream_open_refused, process_stream_close_origin
  <2>2. /\ b' \in Backend /\ b'.half = b.half /\ b'.writes_done = b.writes_done
        /\ b'.queue = b.queue /\ b'.writing = b.writing
    BY <2>1, StreamTyped DEF Cancelled, Backend
  <2> QED BY <1>0, <1>2, <2>2, StreamTyped, QuietStep
<1>4. CASE process_stream_open
  <2>1. b' = b \/ b' = [b EXCEPT !.at = "starting"]
    BY <1>4 DEF process_stream_open
  <2>2. /\ b' \in Backend /\ b'.half = b.half /\ b'.writes_done = b.writes_done
        /\ b'.queue = b.queue /\ b'.writing = b.writing
    BY <2>1, StreamTyped DEF Backend
  <2> QED BY <1>0, <1>2, <2>2, StreamTyped, QuietStep
<1>5. CASE process_stream_frame_origin
  <2>1. PICK m \in up : m.kind = "frame" /\ (b' = b \/ b' = ClientMessage(b, m.frame))
    BY <1>5 DEF process_stream_frame_origin
  <2>2. m.frame \in Nat
    BY <2>1, StreamTyped, Messages
  <2>3. PICK c, f : c = b /\ f = m.frame
    OBVIOUS
  <2>4. b' \in Backend /\ Len(b'.queue) <= BackendLimit
    <3>1. ClientMessage(c, f) \in Backend /\ Len(ClientMessage(c, f).queue) <= BackendLimit
      BY <2>2, <2>3, StreamTyped, ClientMessageTyped
    <3> QED BY <2>1, <2>3, <3>1, StreamTyped
  <2>5. s.place = "remote"
    BY <2>1 DEF IInv, Local
  <2>6. s.phase # 0 /\ ~(s.phase < 3)
    <3>1. ~(s.phase < 3)
      BY <2>5 DEF IInv, Phases
    <3>2. 0 < 3
      BY PhaseOrder
    <3> QED BY <3>1, <3>2
  <2>7. Types'
    BY <1>0, <1>2, <2>4 DEF IInv, Types
  <2>8. Phases' /\ Local'
    BY <1>0, <2>5, <2>6 DEF Phases, Local
  <2> QED BY <1>0, <2>4, <2>7, <2>8 DEF IInv, Settled
<1> QED BY <1>3, <1>4, <1>5

\* The backend's frames and its close at the ingress leaf.
LEMMA IngressStep == IInv /\ (process_stream_frame \/ process_stream_close) => IInv'
<1> SUFFICES ASSUME IInv, process_stream_frame \/ process_stream_close PROVE IInv'
  OBVIOUS
<1>1. CASE process_stream_frame
  <2>0. UNCHANGED <<known, todo, lost, client, app>>
    BY <1>1 DEF process_stream_frame
  <2>1. PICK m \in down : /\ m.kind = "frame" /\ down' = down \ {m}
                          /\ IF known THEN BackendMessage(m.frame)
                             ELSE up' = up \cup {Close("error")} /\ UNCHANGED <<s, b>>
    BY <1>1 DEF process_stream_frame
  <2>2. m.frame \in Nat /\ down' \subseteq Message
    BY <2>1, StreamTyped, Messages
  <2>3. CASE known
    <3>1. PICK f, t : f = m.frame /\ t = [s EXCEPT !.confirmed = TRUE]
      OBVIOUS
    <3>2. IF Stalled(t)
            THEN LET u == [t EXCEPT !.read_stopped = TRUE, !.status = "error"]
                 IN  /\ b' = IF u.place = "local" /\ Registered(b) THEN Cancelled(b) ELSE b
                     /\ IF u.dead \/ u.finishing
                          THEN s' = u /\ up' = up
                          ELSE /\ s' = TryFinish([u EXCEPT !.status = "error", !.read_stopped = TRUE])
                               /\ up' = IF u.place = "remote" THEN up \cup {Close("error")} ELSE up
            ELSE s' = QueueWrite(t, f) /\ UNCHANGED <<b, up>>
      BY <2>1, <2>3, <3>1 DEF BackendMessage, Teardown
    <3> QED BY <2>0, <2>2, <2>3, <3>1, <3>2, StreamTyped, BackendMessageStep
  <2>4. CASE ~known
    <3>1. up' = up \cup {Close("error")} /\ UNCHANGED <<s, b>>
      BY <2>1, <2>4
    <3> QED BY <2>0, <2>2, <3>1, StreamTyped, QuietStep
  <2> QED BY <2>3, <2>4
<1>2. CASE process_stream_close
  <2>0. UNCHANGED <<known, todo, b, up, lost, client, app>>
    BY <1>2 DEF process_stream_close
  <2>1. PICK m \in down : /\ m.kind = "close" /\ down' = down \ {m}
                          /\ s' = BackendClosed(s, m.status)
    BY <1>2 DEF process_stream_close
  <2>2. m.status \in Statuses /\ down' \subseteq Message
    BY <2>1, StreamTyped, Messages
  <2>3. PICK st \in Statuses : st = m.status
    BY <2>2
  <2>4. s' = BackendClosed(s, st)
    BY <2>1, <2>3
  <2> QED BY <2>0, <2>2, <2>4, StreamTyped, BackendClosedStep
<1> QED BY <1>1, <1>2

\* Losses, and what client and backend program do.
LEMMA EnvironmentStep == IInv /\ (Lose \/ ClientActs \/ BackendActs) => IInv'
<1> SUFFICES ASSUME IInv, Lose \/ ClientActs \/ BackendActs PROVE IInv'
  OBVIOUS
<1>1. CASE Lose
  <2>1. lost' \in 0..MaxLost
    BY <1>1, StreamTyped, StreamConstants DEF Lose
  <2>2. up' \subseteq up /\ down' \subseteq down /\ UNCHANGED <<s, known, todo, b, client, app>>
    BY <1>1 DEF Lose
  <2> QED BY <2>1, <2>2, StreamTyped, QuietStep
<1>2. CASE ClientActs
  <2>1. UNCHANGED <<s, known, todo, b, up, down, app>> /\ lost' = lost
    BY <1>2 DEF ClientActs
  <2>2. client' = [client EXCEPT !.half = TRUE] \/ client' = [client EXCEPT !.cancelled = TRUE]
    BY <1>2 DEF ClientActs
  <2>3. client' \in [sent : Nat, half : BOOLEAN, cancelled : BOOLEAN, got : Nat,
                     status : Statuses \cup {"none"}]
    BY <2>2, StreamTyped
  <2> QED BY <2>1, <2>3, StreamTyped, QuietStep
<1>3. CASE BackendActs
  <2>1. UNCHANGED <<s, known, todo, b, up, down, lost, client>>
    BY <1>3 DEF BackendActs
  <2>2. app' \in [sent : Nat, got : Nat, ended : Statuses \cup {"none"}]
    BY <1>3, StreamTyped DEF BackendActs
  <2> QED BY <2>1, <2>2, StreamTyped, QuietStep
<1> QED BY <1>1, <1>2, <1>3

LEMMA NextIInv == IInv /\ [Next]_vars => IInv'
<1> SUFFICES ASSUME IInv, [Next]_vars PROVE IInv'
  OBVIOUS
<1>1. CASE UNCHANGED vars
  <2>1. UNCHANGED <<s, known, todo, b, up, down, lost, client, app>>
    BY <1>1 DEF vars
  <2> QED BY <2>1, StreamTyped, QuietStep
<1>2. CASE Pump
  BY <1>2, ReadStep, WriteStep, FinishStep, AlarmStep, ForwardStep DEF Pump
<1>3. CASE BackendPump
  BY <1>3, PumpStep, FinishedStep DEF BackendPump
<1>4. CASE Wire
  BY <1>4, OriginStep, IngressStep DEF Wire
<1>5. CASE generic_on_new_call \/ AlarmFires \/ backend_read
  BY <1>5, NewCallStep, AlarmFiresStep, BackendReadStep
<1>6. CASE handle_stream_open_refused \/ Lose \/ ClientActs \/ BackendActs
  BY <1>6, OriginStep, EnvironmentStep
<1>7. CASE sweep_dead \/ sweep_idle \/ sweep_unconfirmed
  BY <1>7, SweepStep
<1> QED BY <1>1, <1>2, <1>3, <1>4, <1>5, <1>6, <1>7 DEF Next

LEMMA Inductive == Spec => []IInv
<1>1. Init => IInv
  BY InitIInv
<1>2. IInv /\ [Next]_vars => IInv'
  BY NextIInv
<1> QED BY <1>1, <1>2, PTL DEF Spec

\* Whatever the pump, the alarm, the stream worker, the sweeper and the backend's
\* thread do to a stream in whatever order: ingress_try_finish calls Finish with no
\* Read and no Write under way and the queue empty, a dead stream was finished, the
\* queues keep their limits, and drive_writes_locked writes nothing after WritesDone
\* to a backend of the same leaf.
THEOREM LegalCalls == Spec => []CallsAreLegal
<1>1. IInv => CallsAreLegal
  <2> SUFFICES ASSUME IInv PROVE CallsAreLegal
    OBVIOUS
  <2>1. TypeOK
    BY DEF IInv, Types, TypeOK, Settled, Stream, Backend
  <2>2. s.finishing => s.reads = 0 /\ s.writes = 0 /\ s.write_queue = <<>>
    BY DEF IInv, Settled
  <2>3. s.dead => s.finishing
    BY DEF IInv, Settled
  <2>4. s.place = "local" => WriteIsLegal
    BY DEF IInv, Local, Requests, WriteIsLegal
  <2> QED BY <2>1, <2>2, <2>3, <2>4 DEF CallsAreLegal
<1> QED BY <1>1, Inductive, PTL


------------------------------------------------------------------------------
(* Order: what is on its way, in both directions of a call to a backend of   *)
(* this leaf                                                                 *)

\* The frames of q are numbered from n + 1 on.
Line(q, n) == \A i \in 1..Len(q) : q[i] = n + i

\* td lists the frames n + 1 .. m and then, perhaps, the half-close.
Row(td, n, m) ==
    /\ n <= m
    /\ Len(td) = m - n \/ Len(td) = m - n + 1
    /\ \A i \in 1..Len(td) : td[i] = IF i <= m - n THEN n + i ELSE Half

Handed(c, g) == IF c.writing = 0 THEN g ELSE g + 1

\* A backend that has got g of the client's n frames: the next is the one being
\* written, then come the call's queue and what the pump still has to forward.
InFlight(c, g, td, n) ==
    /\ c.writing # 0 => c.writing = g + 1
    /\ Line(c.queue, Handed(c, g))
    /\ Row(td, Handed(c, g) + Len(c.queue), n)

\* A client that has got g of the backend's n frames: the others are the one being
\* written and the stream's queue.
Answers(t, g, n) ==
    /\ t.writes = 1 => t.writing = g + 1
    /\ Line(t.write_queue, g + t.writes)
    /\ g + t.writes + Len(t.write_queue) = n

Closing(t) == t.finish_pending \/ t.finishing

\* Frames wait for the client only behind a write, or in a stream that is to finish.
Waits(t) == t.writes = 0 /\ ~t.finish_pending => t.write_queue = <<>>

\* A client was told what was noted when the stream was finished.
Told == client.status = "ok" => s.dead /\ s.status = "ok"

Quiet == up = {} /\ down = {} /\ client.sent + app.sent <= MaxFrames

\* No backend was chosen: no call was made, nothing came back.
Fresh ==
    /\ b.at = "none" /\ ~b.started /\ b.queue = <<>> /\ b.writing = 0 /\ ~b.cancelled
    /\ app.sent = 0 /\ app.got = 0 /\ app.ended = "none" /\ client.got = 0
    /\ s.writes = 0 /\ s.write_queue = <<>> /\ todo = <<>>

\* A stream that is being classified keeps all the client sent; one without a
\* backend is to finish.
Classifying ==
    /\ s.phase = 2 => s.reads = 1 /\ ~Closing(s)
    /\ s.phase = 3 => Closing(s)
    /\ s.phase < 3 /\ ~Closing(s) =>
         /\ s.status = "ok" /\ ~s.read_stopped
         /\ Line(s.buffered, 0) /\ Len(s.buffered) = client.sent

\* The backend's call: one that was started ends by itself or is cancelled.
Called ==
    /\ b.at # "none"
    /\ b.at = "starting" => ~b.started
    /\ b.at = "open" => b.started
    /\ ~b.started => ~b.writes_done /\ b.writing = 0
    /\ b.started /\ b.at \in {"finish", "gone"} => b.cancelled \/ app.ended # "none"

\* While the call is neither cancelled nor over the stream does not end, and what
\* the client sends is forwarded.
Running ==
    ~b.cancelled /\ b.at # "gone" =>
      /\ known /\ ~Closing(s) /\ s.status = "ok"
      /\ s.reads = 1 => ~s.read_stopped

\* A stream ends with OK only after a call that ended by itself.
Closed == Closing(s) /\ s.status = "ok" => b.at = "gone" /\ ~b.cancelled

RequestsFlow ==
    /\ app.got <= client.sent
    /\ ~b.cancelled /\ app.ended = "none" /\ b.at \in {"starting", "open"} =>
         InFlight(b, app.got, todo, client.sent)

\* The client's direction is kept until the call is cancelled or a stream is given
\* up whose client is gone.
AnswersFlow ==
    ~b.cancelled =>
      /\ client.got <= app.sent
      /\ ~client.cancelled \/ s.status = "ok" => Answers(s, client.got, app.sent)

\* A stream without a backend, and one whose backend is on this leaf.
Unplaced == Quiet /\ Fresh /\ Classifying
Placed == Quiet /\ Called /\ Running /\ Closed /\ RequestsFlow /\ AnswersFlow

\* With IInv, the inductive invariant of LocalInOrder.
Orderly ==
    /\ Told
    /\ Waits(s)
    /\ s.place = "none" => Unplaced
    /\ s.place = "local" => Placed

------------------------------------------------------------------------------
(* Rows and lines *)

LEMMA LineTail ==
    ASSUME NEW q \in Seq(Nat), NEW n \in Nat, Line(q, n), q # <<>>
    PROVE  /\ Head(q) = n + 1 /\ Line(Tail(q), n + 1)
           /\ Len(Tail(q)) \in Nat /\ Len(q) = Len(Tail(q)) + 1
<1>1. Len(q) \in Nat /\ Len(q) > 0 /\ Tail(q) \in Seq(Nat) /\ Len(Tail(q)) = Len(q) - 1
  OBVIOUS
<1>2. Head(q) = q[1] /\ 1 \in 1..Len(q)
  BY <1>1
<1>3. \A i \in 1..Len(Tail(q)) : Tail(q)[i] = q[i + 1] /\ i + 1 \in 1..Len(q)
  BY <1>1
<1>4. \A i \in 1..Len(Tail(q)) : Tail(q)[i] = n + 1 + i
  BY <1>1, <1>3 DEF Line
<1> QED BY <1>1, <1>2, <1>4 DEF Line

LEMMA LineAppend ==
    ASSUME NEW q \in Seq(Nat), NEW n \in Nat, Line(q, n), NEW f \in Nat, f = n + Len(q) + 1
    PROVE  /\ Append(q, f) \in Seq(Nat) /\ Line(Append(q, f), n)
           /\ Len(Append(q, f)) = Len(q) + 1
<1>1. Append(q, f) \in Seq(Nat) /\ Len(Append(q, f)) = Len(q) + 1 /\ Len(q) \in Nat
  OBVIOUS
<1>2. \A i \in 1..(Len(q) + 1) : Append(q, f)[i] = IF i <= Len(q) THEN q[i] ELSE f
  OBVIOUS
<1>3. \A i \in 1..(Len(q) + 1) : Append(q, f)[i] = n + i
  BY <1>1, <1>2 DEF Line
<1> QED BY <1>1, <1>3 DEF Line

LEMMA RowHead ==
    ASSUME NEW td \in Seq(Nat), NEW n \in Nat, NEW m \in Nat, Row(td, n, m), td # <<>>
    PROVE  /\ Head(td) = Half => n = m /\ Tail(td) = <<>> /\ Row(Tail(td), n, m)
           /\ Head(td) # Half => Head(td) = n + 1 /\ Row(Tail(td), n + 1, m)
<1>1. /\ Len(td) \in Nat /\ Len(td) > 0 /\ Tail(td) \in Seq(Nat) /\ Len(Tail(td)) = Len(td) - 1
      /\ Head(td) = td[1] /\ 1 \in 1..Len(td)
  OBVIOUS
<1>2. td[1] = IF 1 <= m - n THEN n + 1 ELSE Half
  BY <1>1 DEF Row
<1>3. n + 1 # Half
  BY DEF Half
<1>4. CASE 1 <= m - n
  <2>1. \A i \in 1..Len(Tail(td)) : Tail(td)[i] = td[i + 1] /\ i + 1 \in 1..Len(td)
    BY <1>1
  <2>2. \A i \in 1..Len(Tail(td)) : Tail(td)[i] = IF i <= m - (n + 1) THEN n + 1 + i ELSE Half
    BY <1>1, <2>1 DEF Row
  <2>3. n + 1 <= m /\ (Len(Tail(td)) = m - (n + 1) \/ Len(Tail(td)) = m - (n + 1) + 1)
    BY <1>1, <1>4 DEF Row
  <2> QED BY <1>1, <1>2, <1>3, <1>4, <2>2, <2>3 DEF Row
<1>5. CASE ~(1 <= m - n)
  <2>1. n = m /\ Len(td) = 1
    BY <1>1, <1>5 DEF Row
  <2>a. PICK tl : tl = Tail(td)
    OBVIOUS
  <2>b. tl \in Seq(Nat) /\ Len(tl) = Len(td) - 1
    BY <1>1, <2>a
  <2>c. 1 - 1 = 0
    OBVIOUS
  <2>2. tl \in Seq(Nat) /\ Len(tl) = 0
    BY <2>1, <2>b, <2>c
  <2>3. tl = <<>>
    BY <2>2
  <2>4. Row(tl, n, m)
    BY <2>1, <2>2 DEF Row
  <2> QED BY <1>1, <1>2, <1>5, <2>a, <2>1, <2>3, <2>4
<1> QED BY <1>4, <1>5

\* The read that follows a forwarded batch brings the next frame or the half-close.
LEMMA RowNext ==
    ASSUME NEW n \in Nat, NEW m \in Nat, Row(<<>>, n, m)
    PROVE  n = m /\ Row(<<m + 1>>, n, m + 1) /\ Row(<<Half>>, n, m)
<1>1. n = m
  BY DEF Row
<1>2. \A x : Len(<<x>>) = 1 /\ <<x>>[1] = x
  OBVIOUS
<1>3. \A i \in 1..1 : i = 1
  OBVIOUS
<1>4. Row(<<m + 1>>, m, m + 1)
  BY <1>2, <1>3 DEF Row
<1>5. Row(<<Half>>, m, m)
  BY <1>2, <1>3 DEF Row
<1> QED BY <1>1, <1>4, <1>5

\* What was read while the stream was classified, and then perhaps the half-close.
LEMMA RowFlushed ==
    ASSUME NEW q \in Seq(Nat \ {Half}), Line(q, 0), NEW last \in {<<>>, <<Half>>}
    PROVE  Row(q \o last, 0, Len(q))
<1>1. q \in Seq(Nat) /\ Len(q) \in Nat
  <2>1. Nat \ {Half} \subseteq Nat
    OBVIOUS
  <2> QED BY <2>1
<1>2. CASE last = <<>>
  <2>1. q \o last = q
    BY <1>1, <1>2
  <2> QED BY <1>1, <2>1 DEF Row, Line
<1>3. CASE last = <<Half>>
  <2>1. Half \in Nat
    BY DEF Half
  <2>2. q \o last \in Seq(Nat) /\ Len(q \o last) = Len(q) + 1
    BY <1>1, <1>3, <2>1, LastAppended, Zenon
  <2>3. \A i \in 1..Len(q) : (q \o last)[i] = q[i]
    BY <1>1, <1>3, <2>1, LastAppended, Zenon
  <2>4. (q \o last)[Len(q) + 1] = Half
    BY <1>1, <1>3, <2>1
  <2>5. PICK k \in Nat : k = Len(q)
    BY <1>1
  <2>6. PICK r : r = q \o last
    OBVIOUS
  <2>7. Len(r) = k + 1 /\ r[k + 1] = Half /\ \A i \in 1..k : r[i] = i
    BY <1>1, <2>2, <2>3, <2>4, <2>5, <2>6 DEF Line
  <2>8. \A i \in 1..(k + 1) : r[i] = IF i <= k - 0 THEN 0 + i ELSE Half
    BY <2>7
  <2>9. Row(r, 0, k)
    BY <2>7, <2>8 DEF Row
  <2> QED BY <2>5, <2>6, <2>9
<1> QED BY <1>2, <1>3

------------------------------------------------------------------------------
(* The operators keep the order *)

\* Only the write and the queue of the backend's call count.
LEMMA SameFlight ==
    ASSUME NEW c, NEW d, NEW g, NEW td, NEW n, InFlight(c, g, td, n),
           d.writing = c.writing, d.queue = c.queue
    PROVE  InFlight(d, g, td, n)
BY DEF InFlight, Handed

\* drive_writes_locked starts the write of the frame that is next.
LEMMA DriveFlight ==
    ASSUME NEW c \in Backend, NEW g \in Nat, NEW td \in Seq(Nat), NEW n \in Nat,
           InFlight(c, g, td, n)
    PROVE  InFlight(Drive(c), g, td, n)
<1>1. CASE ~c.started \/ c.writing # 0
  BY <1>1 DEF Drive
<1>2. CASE ~(~c.started \/ c.writing # 0) /\ c.queue # <<>>
  <2>1. PICK h, q : h = Head(c.queue) /\ q = Tail(c.queue)
    OBVIOUS
  <2>2. c.queue \in Seq(Nat) /\ Line(c.queue, g)
    BY <1>2 DEF Backend, InFlight, Handed
  <2>3. h = g + 1 /\ Line(q, g + 1) /\ Len(q) \in Nat /\ Len(c.queue) = Len(q) + 1
    BY <1>2, <2>1, <2>2, LineTail
  <2>4. PICK d : d = [c EXCEPT !.writing = h, !.queue = q]
    OBVIOUS
  <2>5. d.writing = h /\ d.queue = q /\ h # 0
    BY <2>3, <2>4 DEF Backend
  <2>6. Row(td, g + Len(c.queue), n)
    BY <1>2 DEF InFlight, Handed
  <2>7. g + Len(c.queue) = g + 1 + Len(q)
    BY <2>3
  <2>8. Drive(c) = d
    BY <1>2, <2>1, <2>4 DEF Drive
  <2> QED BY <2>3, <2>5, <2>6, <2>7, <2>8 DEF InFlight, Handed
<1>3. CASE ~(~c.started \/ c.writing # 0) /\ ~(c.queue # <<>>) /\ c.half
  <2>1. PICK d : d = [c EXCEPT !.writes_done = TRUE]
    OBVIOUS
  <2>2. d.writing = c.writing /\ d.queue = c.queue
    BY <2>1 DEF Backend
  <2>3. Drive(c) = d
    BY <1>3, <2>1 DEF Drive
  <2> QED BY <2>2, <2>3, SameFlight
<1>4. CASE ~(~c.started \/ c.writing # 0) /\ ~(c.queue # <<>>) /\ ~c.half
  BY <1>4 DEF Drive
<1> QED BY <1>1, <1>2, <1>3, <1>4

LEMMA DriveSame ==
    ASSUME NEW c \in Backend
    PROVE  /\ Drive(c).at = c.at /\ Drive(c).started = c.started /\ Drive(c).cancelled = c.cancelled
           /\ ~c.started => Drive(c) = c
<1>1. CASE ~c.started \/ c.writing # 0
  BY <1>1 DEF Drive
<1>2. CASE ~(~c.started \/ c.writing # 0) /\ c.queue # <<>>
  <2>1. PICK h, q : h = Head(c.queue) /\ q = Tail(c.queue)
    OBVIOUS
  <2>2. Drive(c) = [c EXCEPT !.writing = h, !.queue = q]
    BY <1>2, <2>1 DEF Drive
  <2> QED BY <1>2, <2>2 DEF Backend
<1>3. CASE ~(~c.started \/ c.writing # 0) /\ ~(c.queue # <<>>) /\ c.half
  <2>1. Drive(c) = [c EXCEPT !.writes_done = TRUE]
    BY <1>3 DEF Drive
  <2> QED BY <1>3, <2>1 DEF Backend
<1>4. CASE ~(~c.started \/ c.writing # 0) /\ ~(c.queue # <<>>) /\ ~c.half
  BY <1>4 DEF Drive
<1> QED BY <1>1, <1>2, <1>3, <1>4

\* client_message and client_half_close of what the pump forwards next: it is
\* queued in its place, or the call is cancelled.
LEMMA ForwardFlight ==
    ASSUME NEW c \in Backend, Len(c.queue) <= BackendLimit, NEW g \in Nat,
           NEW td \in Seq(Nat), td # <<>>, NEW n \in Nat, InFlight(c, g, td, n)
    PROVE  \/ ClientMessage(c, Head(td)).cancelled
           \/ InFlight(ClientMessage(c, Head(td)), g, Tail(td), n)
<1>1. PICK f, k : f = Head(td) /\ k = Handed(c, g) + Len(c.queue)
  OBVIOUS
<1>2. /\ f \in Nat /\ Tail(td) \in Seq(Nat) /\ c.queue \in Seq(Nat) /\ Len(c.queue) \in Nat
      /\ Handed(c, g) \in Nat /\ k \in Nat
  <2>1. c.queue \in Seq(Nat) /\ Len(c.queue) \in Nat
    BY DEF Backend
  <2>2. f \in Nat /\ Tail(td) \in Seq(Nat)
    BY <1>1
  <2>3. Handed(c, g) \in Nat
    BY DEF Handed
  <2> QED BY <1>1, <2>1, <2>2, <2>3
<1>3. Row(td, k, n)
  BY <1>1 DEF InFlight
<1>4. CASE f = Half
  <2>1. PICK d : d = [c EXCEPT !.half = TRUE]
    OBVIOUS
  <2>2. d \in Backend /\ d.writing = c.writing /\ d.queue = c.queue
    BY <2>1 DEF Backend
  <2>3. Row(Tail(td), k, n)
    BY <1>1, <1>2, <1>3, <1>4, RowHead
  <2>4. InFlight(d, g, Tail(td), n)
    BY <1>1, <2>2, <2>3 DEF InFlight, Handed
  <2>5. ClientMessage(c, f) = Drive(d)
    BY <1>4, <2>1 DEF ClientMessage
  <2> QED BY <1>1, <1>2, <2>2, <2>4, <2>5, DriveFlight
<1>5. CASE f # Half /\ Len(c.queue) >= BackendLimit
  <2>1. ClientMessage(c, f) = [c EXCEPT !.cancelled = TRUE]
    BY <1>5 DEF ClientMessage, Cancelled
  <2> QED BY <1>1, <2>1 DEF Backend
<1>6. CASE f # Half /\ ~(Len(c.queue) >= BackendLimit)
  <2>1. PICK q : q = Append(c.queue, f)
    OBVIOUS
  <2>2. f = k + 1 /\ Row(Tail(td), k + 1, n)
    BY <1>1, <1>2, <1>3, <1>6, RowHead
  <2>3. PICK h \in Nat : h = Handed(c, g)
    BY <1>2
  <2>4. Line(c.queue, h) /\ f = h + Len(c.queue) + 1
    BY <1>1, <2>2, <2>3 DEF InFlight
  <2>5. q \in Seq(Nat) /\ Line(q, h) /\ Len(q) = Len(c.queue) + 1
    BY <1>2, <2>1, <2>4, LineAppend
  <2>6. PICK d : d = [c EXCEPT !.queue = q]
    OBVIOUS
  <2>7. d \in Backend /\ d.queue = q /\ d.writing = c.writing
    BY <2>5, <2>6 DEF Backend
  <2>8. Handed(d, g) = h
    BY <2>3, <2>7 DEF Handed
  <2>9. h + Len(q) = k + 1
    BY <1>1, <1>2, <2>3, <2>5
  <2>10. InFlight(d, g, Tail(td), n)
    BY <2>2, <2>5, <2>7, <2>8, <2>9 DEF InFlight
  <2>11. ClientMessage(c, f) = Drive(d)
    BY <1>6, <2>1, <2>6 DEF ClientMessage
  <2> QED BY <1>1, <1>2, <2>7, <2>10, <2>11, DriveFlight
<1> QED BY <1>4, <1>5, <1>6

\* What else client_message and client_half_close leave alone.
LEMMA ForwardSame ==
    ASSUME NEW c \in Backend, NEW f \in Nat
    PROVE  /\ ClientMessage(c, f).at = c.at /\ ClientMessage(c, f).started = c.started
           /\ c.cancelled => ClientMessage(c, f).cancelled
           /\ ~c.started => /\ ClientMessage(c, f).writes_done = c.writes_done
                            /\ ClientMessage(c, f).writing = c.writing
<1>1. CASE f = Half
  <2>1. PICK d : d = [c EXCEPT !.half = TRUE]
    OBVIOUS
  <2>2. /\ d \in Backend /\ d.at = c.at /\ d.started = c.started /\ d.cancelled = c.cancelled
        /\ d.writes_done = c.writes_done /\ d.writing = c.writing
    BY <2>1 DEF Backend
  <2>3. ClientMessage(c, f) = Drive(d)
    BY <1>1, <2>1 DEF ClientMessage
  <2> QED BY <2>2, <2>3, DriveSame
<1>2. CASE f # Half /\ Len(c.queue) >= BackendLimit
  <2>1. ClientMessage(c, f) = [c EXCEPT !.cancelled = TRUE]
    BY <1>2 DEF ClientMessage, Cancelled
  <2> QED BY <2>1 DEF Backend
<1>3. CASE f # Half /\ ~(Len(c.queue) >= BackendLimit)
  <2>1. PICK q : q = Append(c.queue, f)
    OBVIOUS
  <2>2. q \in Seq(Nat)
    BY <2>1 DEF Backend
  <2>3. PICK d : d = [c EXCEPT !.queue = q]
    OBVIOUS
  <2>4. /\ d \in Backend /\ d.at = c.at /\ d.started = c.started /\ d.cancelled = c.cancelled
        /\ d.writes_done = c.writes_done /\ d.writing = c.writing
    BY <2>2, <2>3 DEF Backend
  <2>5. ClientMessage(c, f) = Drive(d)
    BY <1>3, <2>1, <2>3 DEF ClientMessage
  <2> QED BY <2>4, <2>5, DriveSame
<1> QED BY <1>1, <1>2, <1>3

LEMMA Sums ==
    /\ \A a, k, m \in Nat : a + 1 + k <= m => a + 1 <= m
    /\ \A a \in Nat : a + 1 \in Nat
    /\ \A a, k \in Nat : a + k + 1 = a + (k + 1)
OBVIOUS

\* The backend takes the frame that is next.
LEMMA TakenFlight ==
    ASSUME NEW c \in Backend, NEW d, NEW g \in Nat, NEW td \in Seq(Nat), NEW n \in Nat,
           InFlight(c, g, td, n), c.writing # 0, d.writing = 0, d.queue = c.queue
    PROVE  c.writing = g + 1 /\ g + 1 <= n /\ InFlight(d, g + 1, td, n)
<1>1. c.writing = g + 1 /\ Handed(c, g) = g + 1 /\ Handed(d, g + 1) = g + 1
  BY DEF InFlight, Handed
<1>2. PICK k \in Nat : k = Len(c.queue)
  BY DEF Backend
<1>3. g + 1 + k <= n
  BY <1>1, <1>2 DEF InFlight, Row
<1>4. g + 1 <= n
  BY <1>2, <1>3, Sums, Zenon
<1>5. Line(d.queue, g + 1) /\ Row(td, g + 1 + Len(d.queue), n)
  BY <1>1 DEF InFlight
<1>6. InFlight(d, g + 1, td, n)
  BY <1>1, <1>5 DEF InFlight
<1> QED BY <1>1, <1>4, <1>6

\* When nothing is on its way the backend has got everything.
LEMMA AllTaken ==
    ASSUME NEW c \in Backend, NEW g \in Nat, NEW n \in Nat, InFlight(c, g, <<>>, n),
           c.queue = <<>>, c.writing = 0
    PROVE  g = n
BY DEF InFlight, Handed, Row

\* ingress_try_finish notes that the stream is to finish and changes nothing else.
LEMMA TryFinishKeeps ==
    ASSUME NEW t \in Stream, Settled(t), NEW r, r = TryFinish(t)
    PROVE  /\ r.phase = t.phase /\ r.reads = t.reads /\ r.writes = t.writes
           /\ r.writing = t.writing /\ r.write_queue = t.write_queue
           /\ r.status = t.status /\ r.dead = t.dead /\ r.place = t.place
           /\ Closing(r) /\ (t.finishing => r.finishing) /\ Waits(r)
<1>1. CASE t.dead \/ t.finishing
  BY <1>1 DEF TryFinish, Settled, Closing, Waits
<1>2. CASE ~(t.dead \/ t.finishing) /\ (t.writes > 0 \/ t.write_queue # <<>>)
  <2>1. r = [t EXCEPT !.finish_pending = TRUE]
    BY <1>2 DEF TryFinish
  <2> QED BY <1>2, <2>1 DEF Stream, Closing, Waits
<1>3. CASE ~(t.dead \/ t.finishing) /\ ~(t.writes > 0 \/ t.write_queue # <<>>) /\ t.reads > 0
  <2>1. r = [t EXCEPT !.finish_pending = TRUE, !.read_stopped = TRUE]
    BY <1>3 DEF TryFinish
  <2> QED BY <1>3, <2>1 DEF Stream, Closing, Waits
<1>4. CASE ~(t.dead \/ t.finishing) /\ ~(t.writes > 0 \/ t.write_queue # <<>>) /\ ~(t.reads > 0)
  <2>1. PICK a : a = IF t.alarm = "set" THEN "off" ELSE t.alarm
    OBVIOUS
  <2>2. r = [t EXCEPT !.finishing = TRUE, !.alarm = a]
    BY <1>4, <2>1 DEF TryFinish
  <2> QED BY <1>4, <2>2 DEF Stream, Closing, Waits
<1> QED BY <1>1, <1>2, <1>3, <1>4

\* ingress_queue_write below its limit: written at once, or behind the others.
LEMMA QueueWriteAnswers ==
    ASSUME NEW t \in Stream, Settled(t), Waits(t), NEW f \in Nat, ~Stalled(t),
           NEW r, r = QueueWrite(t, f)
    PROVE  /\ r.phase = t.phase /\ r.reads = t.reads /\ r.status = t.status /\ r.dead = t.dead
           /\ r.place = t.place /\ r.finish_pending = t.finish_pending
           /\ r.finishing = t.finishing /\ r.read_stopped = t.read_stopped /\ Waits(r)
           /\ \A g \in Nat : ~Closing(t) /\ Answers(t, g, f - 1) => Answers(r, g, f)
<1>1. CASE t.dead \/ t.finishing
  BY <1>1 DEF QueueWrite, Settled, Closing
<1>2. CASE ~(t.dead \/ t.finishing) /\ t.writes > 0
  <2>1. PICK q : q = Append(t.write_queue, f)
    OBVIOUS
  <2>2. r = [t EXCEPT !.write_queue = q]
    BY <1>2, <2>1 DEF QueueWrite
  <2>3. t.writes = 1 /\ t.write_queue \in Seq(Nat) /\ Len(t.write_queue) \in Nat
    BY <1>2 DEF Stream
  <2>4. /\ r.phase = t.phase /\ r.reads = t.reads /\ r.status = t.status /\ r.dead = t.dead
        /\ r.place = t.place /\ r.finish_pending = t.finish_pending
        /\ r.finishing = t.finishing /\ r.read_stopped = t.read_stopped
        /\ r.writes = t.writes /\ r.writing = t.writing /\ r.write_queue = q
    BY <2>2 DEF Stream
  <2>5. ASSUME NEW g \in Nat, Answers(t, g, f - 1)
        PROVE  Answers(r, g, f)
    <3>0. PICK h, k : h = g + 1 /\ k = Len(t.write_queue) /\ h \in Nat /\ k \in Nat
      BY <2>3, Sums
    <3>1. t.writing = g + 1 /\ Line(t.write_queue, h) /\ h + k = f - 1
      BY <2>3, <2>5, <3>0 DEF Answers
    <3>2. f = h + k + 1
      BY <3>1
    <3>3. Line(q, h) /\ Len(q) = k + 1
      BY <2>1, <2>3, <3>0, <3>1, <3>2, LineAppend
    <3>4. h + (k + 1) = f
      BY <3>0, <3>2, Sums, Zenon
    <3> QED BY <2>3, <2>4, <3>0, <3>1, <3>3, <3>4 DEF Answers
  <2>6. Waits(r)
    BY <2>3, <2>4 DEF Waits
  <2> QED BY <2>4, <2>5, <2>6
<1>3. CASE ~(t.dead \/ t.finishing) /\ ~(t.writes > 0)
  <2>1. PICK n : n \in 0..1 /\ n = 1
    OBVIOUS
  <2>2. r = [t EXCEPT !.writes = n, !.writing = f]
    BY <1>3, <2>1 DEF QueueWrite
  <2>3. t.writes = 0 /\ (~Closing(t) => t.write_queue = <<>>)
    BY <1>3 DEF Stream, Waits, Closing
  <2>4. /\ r.phase = t.phase /\ r.reads = t.reads /\ r.status = t.status /\ r.dead = t.dead
        /\ r.place = t.place /\ r.finish_pending = t.finish_pending
        /\ r.finishing = t.finishing /\ r.read_stopped = t.read_stopped
        /\ r.writes = n /\ r.writing = f /\ r.write_queue = t.write_queue
    BY <2>2 DEF Stream
  <2>5. ASSUME NEW g \in Nat, ~Closing(t), Answers(t, g, f - 1)
        PROVE  Answers(r, g, f)
    <3>1. Len(t.write_queue) = 0 /\ f = g + 1
      BY <2>3, <2>5 DEF Answers
    <3> QED BY <2>1, <2>4, <3>1 DEF Answers, Line
  <2>6. Waits(r)
    BY <2>1, <2>4 DEF Waits
  <2> QED BY <2>4, <2>5, <2>6
<1> QED BY <1>1, <1>2, <1>3

------------------------------------------------------------------------------
(* Kinds of steps, and the order *)

\* A remote stream promises no order.
LEMMA RemoteOrder ==
    ASSUME s'.place = "remote", Told', Waits(s')
    PROVE  Orderly'
BY DEF Orderly, Waits

\* A step that leaves the frames, the call and the end of the stream alone.
LEMMA SameOrder ==
    ASSUME IInv, Orderly,
           s'.phase = s.phase, s'.reads = s.reads, s'.writes = s.writes, s'.writing = s.writing,
           s'.write_queue = s.write_queue, s'.buffered = s.buffered,
           s'.read_stopped = s.read_stopped, s'.finish_pending = s.finish_pending,
           s'.finishing = s.finishing, s'.status = s.status, s'.dead = s.dead, s'.place = s.place,
           known' = known \/ Closing(s), UNCHANGED <<todo, b, app>>,
           s.place # "remote" => UNCHANGED <<up, down>>,
           client'.sent = client.sent, client'.got = client.got, client'.status = client.status,
           client.cancelled => client'.cancelled
    PROVE  Orderly'
<1>1. Told' /\ Waits(s')
  BY DEF Orderly, Told, Waits
<1>2. ASSUME s.place = "none" PROVE Unplaced'
  <2>1. Unplaced
    BY <1>2 DEF Orderly
  <2>2. Quiet' /\ Fresh'
    BY <1>2, <2>1 DEF Unplaced, Quiet, Fresh
  <2>3. Classifying'
    BY <1>2, <2>1 DEF Unplaced, Classifying, Closing
  <2> QED BY <2>2, <2>3 DEF Unplaced
<1>3. ASSUME s.place = "local" PROVE Placed'
  <2>1. Placed
    BY <1>3 DEF Orderly
  <2>2. Quiet' /\ Called'
    BY <1>3, <2>1 DEF Placed, Quiet, Called
  <2>3. Running' /\ Closed'
    BY <2>1 DEF Placed, Running, Closed, Closing
  <2>4. RequestsFlow'
    BY <2>1 DEF Placed, RequestsFlow
  <2>5. Answers(s, client.got, app.sent) => Answers(s, client.got, app.sent)'
    BY DEF Answers
  <2>6. AnswersFlow'
    BY <2>1, <2>5 DEF Placed, AnswersFlow
  <2> QED BY <2>2, <2>3, <2>4, <2>6 DEF Placed
<1> QED BY <1>1, <1>2, <1>3 DEF Orderly, Waits

\* A step of the backend's call that does not end it.
LEMMA CallOrder ==
    ASSUME Orderly, UNCHANGED <<s, known, client>>, s.place # "none",
           s.place = "local" =>
             /\ UNCHANGED <<up, down>> /\ Called' /\ RequestsFlow' /\ app'.sent = app.sent
             /\ b.cancelled => b'.cancelled
             /\ b.at = "gone" => b'.at = "gone" /\ b'.cancelled = b.cancelled
             /\ b'.at = "gone" => b.at = "gone"
    PROVE  Orderly'
<1>1. Told' /\ Waits(s')
  BY DEF Orderly, Told, Waits
<1>2. ASSUME s.place = "local" PROVE Placed'
  <2>1. Placed
    BY <1>2 DEF Orderly
  <2>2. Quiet'
    BY <1>2, <2>1 DEF Placed, Quiet
  <2>3. Running' /\ Closed'
    BY <1>2, <2>1 DEF Placed, Running, Closed, Closing
  <2>4. AnswersFlow'
    BY <1>2, <2>1 DEF Placed, AnswersFlow, Answers
  <2> QED BY <1>2, <2>2, <2>3, <2>4 DEF Placed
<1> QED BY <1>1, <1>2 DEF Orderly, Waits

\* ingress_teardown: the stream is to finish, and with an error unless it already
\* does; a call to a backend of this leaf is cancelled if it is not over.
LEMMA ClosingOrder ==
    ASSUME IInv, Orderly, UNCHANGED <<todo, known, client>>,
           s'.phase = s.phase, s'.reads = s.reads, s'.place = s.place, s'.dead = s.dead,
           Closing(s'), Waits(s'),
           IF s.finishing
             THEN /\ s'.status = s.status /\ s'.finishing /\ s'.writes = s.writes
                  /\ s'.writing = s.writing /\ s'.write_queue = s.write_queue
             ELSE s'.status = "error",
           s.place # "remote" => UNCHANGED <<up, down>> /\ client.sent + app'.sent <= MaxFrames,
           app'.got = app.got, app'.ended = app.ended,
           s.place = "none" => /\ UNCHANGED <<b, app>> /\ s.phase # 2
                               /\ s'.writes = s.writes /\ s'.write_queue = s.write_queue,
           s.place = "local" =>
             IF Registered(b) THEN b' = Cancelled(b)
             ELSE /\ UNCHANGED <<b, app>>
                  /\ \/ client.cancelled
                     \/ /\ s'.writes = s.writes /\ s'.writing = s.writing
                        /\ s'.write_queue = s.write_queue
    PROVE  Orderly'
<1>1. Told'
  BY DEF IInv, Settled, Orderly, Told
<1>2. ASSUME s.place = "none" PROVE Unplaced'
  <2>1. Unplaced
    BY <1>2 DEF Orderly
  <2>2. Quiet' /\ Fresh'
    BY <1>2, <2>1 DEF Unplaced, Quiet, Fresh
  <2>3. Classifying'
    BY <1>2 DEF Classifying
  <2> QED BY <2>2, <2>3 DEF Unplaced
<1>3. ASSUME s.place = "local" PROVE Placed'
  <2>1. Placed
    BY <1>3 DEF Orderly
  <2>2. Quiet'
    BY <1>3, <2>1 DEF Placed, Quiet
  <2>3. b \in Backend /\ b.at # "none"
    BY <2>1, StreamTyped DEF Placed, Called
  <2>4. CASE Registered(b)
    <3>1. /\ b'.cancelled /\ b'.at = b.at /\ b'.started = b.started /\ b'.writes_done = b.writes_done
          /\ b'.writing = b.writing /\ b.at # "gone"
      BY <1>3, <2>3, <2>4 DEF Cancelled, Backend, Registered
    <3>2. Called' /\ Running' /\ AnswersFlow'
      BY <2>1, <3>1 DEF Placed, Called, Running, AnswersFlow
    <3>3. Closed'
      BY <2>1, <3>1 DEF Placed, Closed, Closing
    <3>4. RequestsFlow'
      BY <2>1, <3>1 DEF Placed, RequestsFlow
    <3> QED BY <2>2, <3>2, <3>3, <3>4 DEF Placed
  <2>5. CASE ~Registered(b)
    <3>1. b.at = "gone"
      BY <2>3, <2>5 DEF Backend, Registered
    <3>2. UNCHANGED <<b, app>>
      BY <1>3, <2>5
    <3>3. Called' /\ Running' /\ RequestsFlow'
      BY <2>1, <3>1, <3>2 DEF Placed, Called, Running, RequestsFlow
    <3>4. Closed'
      BY <2>1, <3>1, <3>2 DEF Placed, Closed, Closing
    <3>5. AnswersFlow'
      <4>1. /\ s'.writes = s.writes /\ s'.writing = s.writing /\ s'.write_queue = s.write_queue
            => (Answers(s, client.got, app.sent) => Answers(s, client.got, app.sent)')
        BY <3>2 DEF Answers
      <4> QED BY <1>3, <2>1, <2>5, <3>2, <4>1 DEF Placed, AnswersFlow
    <3> QED BY <2>2, <3>3, <3>4, <3>5 DEF Placed
  <2> QED BY <2>4, <2>5
<1> QED BY <1>1, <1>2, <1>3 DEF Orderly, Waits

------------------------------------------------------------------------------
(* The actions, and the order *)

LEMMA InitOrderly == Init => Orderly
<1> SUFFICES ASSUME Init PROVE Orderly
  OBVIOUS
<1>1. Told /\ Waits(s) /\ s.place = "none"
  BY DEF Init, Told, Waits
<1>2. Quiet
  BY StreamConstants DEF Init, Quiet
<1>3. Fresh
  BY DEF Init, Fresh
<1>4. Classifying
  <2>1. s.phase = 0 /\ s.buffered = <<>> /\ s.status = "ok" /\ ~s.read_stopped /\ client.sent = 0
    BY DEF Init
  <2> QED BY <2>1 DEF Classifying, Line
<1> QED BY <1>1, <1>2, <1>3, <1>4 DEF Orderly, Unplaced

\* ingress_teardown of the stream t.
LEMMA TeardownEffect ==
    ASSUME NEW t \in Stream, Settled(t),
           NEW r, IF t.dead \/ t.finishing THEN r = t
                  ELSE r = TryFinish([t EXCEPT !.status = "error", !.read_stopped = TRUE])
    PROVE  /\ r.phase = t.phase /\ r.reads = t.reads /\ r.writes = t.writes
           /\ r.writing = t.writing /\ r.write_queue = t.write_queue
           /\ r.dead = t.dead /\ r.place = t.place /\ Closing(r) /\ Waits(r)
           /\ IF t.finishing THEN r.status = t.status /\ r.finishing ELSE r.status = "error"
<1>1. CASE t.dead \/ t.finishing
  BY <1>1 DEF Settled, Closing, Waits
<1>2. CASE ~(t.dead \/ t.finishing)
  <2>1. PICK e \in Statuses : e = "error"
    BY DEF Statuses
  <2>2. PICK v : v = [t EXCEPT !.status = e, !.read_stopped = TRUE]
    OBVIOUS
  <2>3. v \in Stream
    BY <2>2 DEF Stream
  <2>4. /\ Settled(v) /\ v.phase = t.phase /\ v.reads = t.reads /\ v.writes = t.writes
        /\ v.writing = t.writing /\ v.write_queue = t.write_queue
        /\ v.dead = t.dead /\ v.place = t.place /\ v.status = e /\ v.finishing = t.finishing
    BY <2>2 DEF Stream, Settled
  <2>5. r = TryFinish(v)
    BY <1>2, <2>1, <2>2
  <2> QED BY <1>2, <2>1, <2>3, <2>4, <2>5, TryFinishKeeps
<1> QED BY <1>1, <1>2

\* The client's gRPC call exists: its first read is under way.
LEMMA NewCallOrder == IInv /\ Orderly /\ generic_on_new_call => Orderly'
<1> SUFFICES ASSUME IInv, Orderly, generic_on_new_call PROVE Orderly'
  OBVIOUS
<1>1. s.phase = 0 /\ s.place = "none"
  BY PhaseOrder DEF IInv, Phases, generic_on_new_call
<1>2. PICK n, r : n = 1 /\ n \in 0..3 /\ r = 1 /\ r \in 0..1
  OBVIOUS
<1>3. s' = [s EXCEPT !.phase = n, !.reads = r]
  BY <1>2 DEF generic_on_new_call
<1>4. /\ s'.phase = n /\ s'.reads = r /\ s'.writes = s.writes /\ s'.write_queue = s.write_queue
      /\ s'.buffered = s.buffered /\ s'.read_stopped = s.read_stopped
      /\ s'.finish_pending = s.finish_pending /\ s'.finishing = s.finishing
      /\ s'.status = s.status /\ s'.dead = s.dead /\ s'.place = "none"
  BY <1>1, <1>3, StreamTyped DEF Stream
<1>5. Told' /\ Waits(s')
  BY <1>4 DEF Orderly, Told, Waits, generic_on_new_call
<1>6. Unplaced
  BY <1>1 DEF Orderly
<1>7. Quiet' /\ Fresh'
  BY <1>4, <1>6 DEF Unplaced, Quiet, Fresh, generic_on_new_call
<1>8. client' = client
  BY DEF generic_on_new_call
<1>9. s.phase < 3 /\ n # 2 /\ n # 3
  BY <1>1, <1>2, PhaseOrder
<1>10. Classifying'
  BY <1>4, <1>6, <1>8, <1>9 DEF Unplaced, Classifying, Closing
<1> QED BY <1>4, <1>5, <1>7, <1>10 DEF Orderly, Unplaced, Waits

\* ingress_backend_message of the frame f: of a remote stream, or the frame the
\* backend of this leaf has just sent.
LEMMA BackendMessageOrder ==
    ASSUME IInv, Orderly, known, NEW f \in Nat,
           NEW t, t = [s EXCEPT !.confirmed = TRUE],
           IF Stalled(t)
             THEN LET u == [t EXCEPT !.read_stopped = TRUE, !.status = "error"]
                  IN  /\ b' = IF u.place = "local" /\ Registered(b) THEN Cancelled(b) ELSE b
                      /\ IF u.dead \/ u.finishing
                           THEN s' = u /\ up' = up
                           ELSE /\ s' = TryFinish([u EXCEPT !.status = "error", !.read_stopped = TRUE])
                                /\ up' = IF u.place = "remote" THEN up \cup {Close("error")} ELSE up
             ELSE s' = QueueWrite(t, f) /\ UNCHANGED <<b, up>>,
           UNCHANGED <<known, todo, client>>,
           app'.got = app.got, app'.ended = app.ended, s.place # "none",
           s.place = "local" => /\ down' = down /\ b.at = "open" /\ f = app.sent + 1 /\ app'.sent = f
                                /\ client.sent + f <= MaxFrames
    PROVE  Orderly'
<1>1. t \in Stream /\ Settled(t) /\ Waits(t)
  <2>1. t \in Stream /\ Settled(t)
    BY StreamTyped DEF Stream, Settled
  <2> QED BY <2>1, StreamTyped DEF Orderly, Waits, Stream
<1>2. /\ t.phase = s.phase /\ t.reads = s.reads /\ t.writes = s.writes /\ t.writing = s.writing
      /\ t.write_queue = s.write_queue /\ t.read_stopped = s.read_stopped
      /\ t.finish_pending = s.finish_pending /\ t.finishing = s.finishing
      /\ t.status = s.status /\ t.dead = s.dead /\ t.place = s.place
  BY StreamTyped DEF Stream
<1>3. CASE Stalled(t)
  <2>1. PICK e \in Statuses : e = "error"
    BY DEF Statuses
  <2>2. PICK u : u = [t EXCEPT !.read_stopped = TRUE, !.status = e]
    OBVIOUS
  <2>3. u \in Stream
    BY <1>1, <2>2 DEF Stream
  <2>4. /\ Settled(u) /\ u.phase = s.phase /\ u.reads = s.reads /\ u.dead = s.dead
        /\ u.place = s.place /\ u.finishing = s.finishing
    BY <1>1, <1>2, <2>2 DEF Stream, Settled
  <2>5. ~s.finishing
    BY <1>2, <1>3 DEF Stalled
  <2>6. /\ b' = IF u.place = "local" /\ Registered(b) THEN Cancelled(b) ELSE b
        /\ IF u.dead \/ u.finishing THEN s' = u
           ELSE s' = TryFinish([u EXCEPT !.status = "error", !.read_stopped = TRUE])
        /\ u.place # "remote" => up' = up
    BY <1>3, <2>1, <2>2
  <2>7. PICK r : r = s'
    OBVIOUS
  <2>8. /\ r.phase = u.phase /\ r.reads = u.reads /\ r.dead = u.dead /\ r.place = u.place
        /\ Closing(r) /\ Waits(r) /\ r.status = "error"
    <3>1. IF u.dead \/ u.finishing THEN r = u
          ELSE r = TryFinish([u EXCEPT !.status = "error", !.read_stopped = TRUE])
      BY <2>6, <2>7
    <3> QED BY <2>3, <2>4, <2>5, <3>1, TeardownEffect
  <2>9. s.place = "local" => Registered(b) /\ b' = Cancelled(b)
    BY <2>4, <2>6 DEF Registered
  <2>10. s.place # "remote" => UNCHANGED <<up, down>> /\ client.sent + app'.sent <= MaxFrames
    <3>1. s.place # "remote" => s.place = "local"
      BY StreamTyped, StreamConstants DEF Stream
    <3> QED BY <2>4, <2>6, <3>1
  <2>11. Closing(s') /\ Waits(s')
    BY <2>7, <2>8
  <2> QED BY <2>4, <2>5, <2>7, <2>8, <2>9, <2>10, <2>11, ClosingOrder
<1>4. CASE ~Stalled(t)
  <2>1. s' = QueueWrite(t, f) /\ UNCHANGED <<b, up>>
    BY <1>4
  <2>2. PICK r : r = s'
    OBVIOUS
  <2>3. /\ r.phase = s.phase /\ r.reads = s.reads /\ r.status = s.status /\ r.dead = s.dead
        /\ r.place = s.place /\ r.finish_pending = s.finish_pending
        /\ r.finishing = s.finishing /\ r.read_stopped = s.read_stopped /\ Waits(r)
        /\ \A g \in Nat : ~Closing(t) /\ Answers(t, g, f - 1) => Answers(r, g, f)
    <3>1. r = QueueWrite(t, f)
      BY <2>1, <2>2
    <3>2. /\ r.phase = t.phase /\ r.reads = t.reads /\ r.status = t.status /\ r.dead = t.dead
          /\ r.place = t.place /\ r.finish_pending = t.finish_pending
          /\ r.finishing = t.finishing /\ r.read_stopped = t.read_stopped /\ Waits(r)
          /\ \A g \in Nat : ~Closing(t) /\ Answers(t, g, f - 1) => Answers(r, g, f)
      <4>1. \A x \in Stream : Settled(x) /\ Waits(x) /\ ~Stalled(x) =>
              LET y == QueueWrite(x, f)
              IN  /\ y.phase = x.phase /\ y.reads = x.reads /\ y.status = x.status /\ y.dead = x.dead
                  /\ y.place = x.place /\ y.finish_pending = x.finish_pending
                  /\ y.finishing = x.finishing /\ y.read_stopped = x.read_stopped /\ Waits(y)
                  /\ \A g \in Nat : ~Closing(x) /\ Answers(x, g, f - 1) => Answers(y, g, f)
        BY QueueWriteAnswers
      <4> QED BY <1>1, <1>4, <3>1, <4>1
    <3> QED BY <1>2, <3>2
  <2>4. Told' /\ Waits(s')
    BY <2>2, <2>3 DEF Orderly, Told, Waits
  <2>5. ASSUME s.place = "local" PROVE Placed'
    <3>1. Placed
      BY <2>5 DEF Orderly
    <3>2. Quiet' /\ Called'
      BY <2>1, <2>5, <3>1 DEF Placed, Quiet, Called
    <3>3. Running' /\ Closed'
      BY <2>1, <2>2, <2>3, <3>1 DEF Placed, Running, Closed, Closing
    <3>4. RequestsFlow'
      BY <2>1, <3>1 DEF Placed, RequestsFlow
    <3>5. AnswersFlow'
      <4> SUFFICES ASSUME ~b.cancelled
                   PROVE  client.got <= app'.sent /\ Answers(r, client.got, app'.sent)
        BY <2>1, <2>2 DEF AnswersFlow
      <4>1. ~Closing(s) /\ s.status = "ok"
        BY <2>5, <3>1 DEF Placed, Running
      <4>2. client.got <= app.sent /\ Answers(s, client.got, app.sent)
        BY <3>1, <4>1 DEF Placed, AnswersFlow
      <4>3. PICK g, n : g = client.got /\ n = app.sent /\ g \in Nat /\ n \in Nat
        BY StreamTyped
      <4>4. f - 1 = n /\ g <= f
        BY <2>5, <4>2, <4>3
      <4>5. Answers(t, g, n)
        BY <1>2, <4>2, <4>3 DEF Answers
      <4>6. ~Closing(t)
        BY <1>2, <4>1 DEF Closing
      <4>7. Answers(r, g, f)
        BY <2>3, <4>3, <4>4, <4>5, <4>6
      <4> QED BY <2>5, <4>3, <4>4, <4>7
    <3> QED BY <3>2, <3>3, <3>4, <3>5 DEF Placed
  <2> QED BY <2>2, <2>3, <2>4, <2>5 DEF Orderly, Waits
<1> QED BY <1>3, <1>4

LEMMA TwoIsNotThree == 3 # 2
OBVIOUS

\* Nothing has been handed to the call, and nothing has come back.
LEMMA FirstFlight ==
    ASSUME NEW c, c.writing = 0, c.queue = <<>>, NEW td, NEW n, Row(td, 0, n)
    PROVE  InFlight(c, 0, td, n) /\ 0 <= n
BY DEF InFlight, Handed, Line, Row

LEMMA NoAnswers ==
    ASSUME NEW t, t.writes = 0, t.write_queue = <<>>
    PROVE  Answers(t, 0, 0) /\ 0 <= 0
BY DEF Answers, Line

\* generic_begin_stream of the stream u: all that was read so far goes ahead.
LEMMA BeginOrder ==
    ASSUME IInv, Orderly, known, s.phase \in {1, 2}, ~Closing(s),
           NEW u \in Stream, Settled(u), u.phase = 3, u.place = "none", ~Closing(u),
           u.writes = s.writes, u.write_queue = s.write_queue, u.status = s.status,
           u.read_stopped = s.read_stopped, u.dead = s.dead,
           Line(u.buffered, 0), Len(u.buffered) = client'.sent,
           NEW last \in {<<>>, <<Half>>},
           \/ /\ s' = TryFinish([u EXCEPT !.status = "error"])
              /\ UNCHANGED <<todo, b, up>>
           \/ \E p \in Places :
                 /\ s' = [u EXCEPT !.place = p, !.opened = TRUE, !.buffered = <<>>]
                 /\ todo' = u.buffered \o last
                 /\ b' = IF p = "local" THEN [b EXCEPT !.at = "starting"] ELSE b
                 /\ up' = IF p = "remote" THEN up \cup {Open} ELSE up,
           UNCHANGED <<known, down, app>>,
           client'.sent + app.sent <= MaxFrames, client'.got = client.got,
           client'.status = client.status
    PROVE  Orderly'
<1>1. s.place = "none" /\ ~b.writes_done /\ s.phase < 3
  <2>1. s.phase < 3
    BY PhaseOrder, Zenon
  <2> QED BY <2>1 DEF IInv, Phases
<1>2. Quiet /\ Fresh /\ Classifying
  BY <1>1 DEF Orderly, Unplaced
<1>3. s.status = "ok" /\ ~s.read_stopped /\ s.writes = 0 /\ s.write_queue = <<>>
  BY <1>1, <1>2 DEF Fresh, Classifying
<1>4. client'.status # "ok"
  BY DEF IInv, Settled, Orderly, Told, Closing
<1>5. CASE s' = TryFinish([u EXCEPT !.status = "error"]) /\ UNCHANGED <<todo, b, up>>
  <2>1. PICK e \in Statuses : e = "error"
    BY DEF Statuses
  <2>2. PICK v : v = [u EXCEPT !.status = e]
    OBVIOUS
  <2>3. /\ v \in Stream /\ Settled(v) /\ v.phase = 3 /\ v.place = "none"
        /\ v.writes = u.writes /\ v.write_queue = u.write_queue
    BY <2>2 DEF Stream, Settled
  <2>4. PICK r : r = TryFinish(v) /\ r = s'
    BY <1>5, <2>1, <2>2
  <2>5. /\ s'.phase = 3 /\ s'.place = "none" /\ s'.writes = s.writes
        /\ s'.write_queue = s.write_queue /\ Waits(s') /\ Closing(s')
    <3>1. \A x \in Stream : Settled(x) =>
            LET y == TryFinish(x)
            IN  /\ y.phase = x.phase /\ y.place = x.place /\ y.writes = x.writes
                /\ y.write_queue = x.write_queue /\ Waits(y) /\ Closing(y)
      BY TryFinishKeeps
    <3>2. /\ r.phase = v.phase /\ r.place = v.place /\ r.writes = v.writes
          /\ r.write_queue = v.write_queue /\ Waits(r) /\ Closing(r)
      BY <2>3, <2>4, <3>1, Zenon
    <3>3. r.phase = 3 /\ r.place = "none" /\ r.writes = s.writes /\ r.write_queue = s.write_queue
      BY <2>3, <3>2, Zenon
    <3> QED BY <2>4, <3>2, <3>3, Zenon
  <2>6. Told'
    BY <1>4 DEF Told
  <2>7. Quiet' /\ Fresh'
    BY <1>2, <1>5, <2>5 DEF Quiet, Fresh
  <2>8. Classifying'
    <3>1. ~(s'.phase < 3) /\ s'.phase # 2
      BY <2>5, PhaseOrder, TwoIsNotThree, Zenon
    <3> QED BY <2>5, <3>1 DEF Classifying, Closing
  <2> QED BY <2>5, <2>6, <2>7, <2>8 DEF Orderly, Unplaced, Waits
<1>6. ASSUME NEW p \in Places,
             s' = [u EXCEPT !.place = p, !.opened = TRUE, !.buffered = <<>>],
             todo' = u.buffered \o last,
             b' = IF p = "local" THEN [b EXCEPT !.at = "starting"] ELSE b,
             up' = IF p = "remote" THEN up \cup {Open} ELSE up
      PROVE  Orderly'
  <2>1. /\ s'.place = p /\ s'.writes = 0 /\ s'.write_queue = <<>> /\ s'.status = "ok"
        /\ ~s'.read_stopped /\ ~Closing(s')
    BY <1>3, <1>6 DEF Stream, Closing
  <2>2. Told' /\ Waits(s')
    BY <1>4, <2>1 DEF Told, Waits
  <2>3. ASSUME p = "local" PROVE Placed'
    <3>1. /\ b'.at = "starting" /\ ~b'.started /\ ~b'.writes_done /\ b'.writing = 0
          /\ b'.queue = <<>> /\ ~b'.cancelled
      BY <1>1, <1>2, <1>6, <2>3, StreamTyped DEF Fresh, Backend
    <3>2. Quiet'
      BY <1>2, <1>6, <2>3 DEF Quiet
    <3>3. Called'
      BY <3>1 DEF Called
    <3>4. Running' /\ Closed'
      BY <2>1 DEF Running, Closed
    <3>5. app.got = 0 /\ app.sent = 0 /\ client.got = 0
      BY <1>2 DEF Fresh
    <3>6. RequestsFlow'
      <4>1. u.buffered \in Seq(Nat \ {Half})
        BY DEF Stream
      <4>2. Row(todo', 0, client'.sent)
        BY <1>6, <4>1, RowFlushed
      <4>3. PICK c, td, n : c = b' /\ td = todo' /\ n = client'.sent
        OBVIOUS
      <4>4. InFlight(c, 0, td, n) /\ 0 <= n
        BY <3>1, <4>2, <4>3, FirstFlight
      <4> QED BY <3>5, <4>3, <4>4 DEF RequestsFlow
    <3>7. AnswersFlow'
      <4>1. PICK r : r = s'
        OBVIOUS
      <4>2. Answers(r, 0, 0) /\ 0 <= 0
        BY <2>1, <4>1, NoAnswers
      <4> QED BY <3>5, <4>1, <4>2 DEF AnswersFlow
    <3> QED BY <3>2, <3>3, <3>4, <3>6, <3>7 DEF Placed
  <2>4. p # "none"
    BY StreamConstants
  <2> QED BY <2>1, <2>2, <2>3, <2>4 DEF Orderly, Waits
<1> QED BY <1>5, <1>6

\* The next frame, or the half-close, when all the others have been handed on.
LEMMA FlightNext ==
    ASSUME NEW c \in Backend, NEW g \in Nat, NEW n \in Nat, InFlight(c, g, <<>>, n)
    PROVE  InFlight(c, g, <<n + 1>>, n + 1) /\ InFlight(c, g, <<Half>>, n)
<1>1. PICK k : k = Handed(c, g) + Len(c.queue)
  OBVIOUS
<1>2. k \in Nat
  <2>1. Handed(c, g) \in Nat /\ Len(c.queue) \in Nat
    BY DEF Handed, Backend
  <2> QED BY <1>1, <2>1
<1>3. Row(<<>>, k, n)
  BY <1>1 DEF InFlight
<1>4. Row(<<n + 1>>, k, n + 1) /\ Row(<<Half>>, k, n)
  BY <1>2, <1>3, RowNext
<1> QED BY <1>1, <1>4 DEF InFlight

\* generic_on_read of a stream that is to finish: the read was what it waited for.
LEMMA ReadClosingOrder ==
    ASSUME IInv, Orderly, Closing(s), UNCHANGED <<known, todo, b, up, down, app>>,
           s'.phase = s.phase, s'.writes = s.writes, s'.writing = s.writing,
           s'.write_queue = s.write_queue, s'.status = s.status, s'.dead = s.dead,
           s'.place = s.place, Closing(s'), Waits(s'),
           client'.sent \in Nat, client.sent <= client'.sent, client'.got = client.got,
           client'.status = client.status, client'.cancelled = client.cancelled,
           s.place # "remote" => client'.sent + app.sent <= MaxFrames
    PROVE  Orderly'
<1>1. Told'
  BY DEF Orderly, Told
<1>2. ASSUME s.place = "none" PROVE Unplaced'
  <2>1. Unplaced
    BY <1>2 DEF Orderly
  <2>2. Quiet' /\ Fresh'
    BY <1>2, <2>1 DEF Unplaced, Quiet, Fresh
  <2>3. Classifying'
    BY <1>2, <2>1 DEF Unplaced, Classifying
  <2> QED BY <2>2, <2>3 DEF Unplaced
<1>3. ASSUME s.place = "local" PROVE Placed'
  <2>1. Placed
    BY <1>3 DEF Orderly
  <2>2. Quiet' /\ Called'
    BY <1>3, <2>1 DEF Placed, Quiet, Called
  <2>3. b.cancelled \/ b.at = "gone"
    BY <2>1 DEF Placed, Running
  <2>4. Running' /\ Closed'
    BY <2>1, <2>3 DEF Placed, Running, Closed
  <2>5. RequestsFlow'
    <3>1. app.got <= client.sent
      BY <2>1 DEF Placed, RequestsFlow
    <3>2. PICK g, n, m : g = app.got /\ n = client.sent /\ m = client'.sent
      OBVIOUS
    <3>3. g \in Nat /\ n \in Nat /\ m \in Nat
      BY <3>2, StreamTyped
    <3>4. app'.got <= client'.sent
      BY <3>1, <3>2, <3>3
    <3> QED BY <2>3, <3>4 DEF RequestsFlow
  <2>6. AnswersFlow'
    <3>1. Answers(s, client.got, app.sent) => Answers(s', client.got, app.sent)
      BY DEF Answers
    <3> QED BY <2>1, <3>1 DEF Placed, AnswersFlow
  <2> QED BY <2>2, <2>4, <2>5, <2>6 DEF Placed
<1> QED BY <1>1, <1>2, <1>3 DEF Orderly, Waits

\* generic_on_read of a stream that has a backend.
LEMMA ReadOnOrder ==
    ASSUME IInv, Orderly, s.place # "none", UNCHANGED <<known, b, up, down, app>>,
           s'.writes = s.writes, s'.writing = s.writing, s'.write_queue = s.write_queue,
           s'.status = s.status, s'.dead = s.dead, s'.place = s.place,
           s'.finish_pending = s.finish_pending, s'.finishing = s.finishing,
           s'.reads = 1 => ~s'.read_stopped,
           client'.got = client.got, client'.status = client.status,
           client'.cancelled = client.cancelled,
           s.place = "local" => RequestsFlow' /\ client'.sent + app.sent <= MaxFrames
    PROVE  Orderly'
<1>1. Told' /\ Waits(s')
  BY DEF Orderly, Told, Waits
<1>2. ASSUME s.place = "local" PROVE Placed'
  <2>1. Placed
    BY <1>2 DEF Orderly
  <2>2. Quiet' /\ Called'
    BY <1>2, <2>1 DEF Placed, Quiet, Called
  <2>3. Running' /\ Closed'
    BY <2>1 DEF Placed, Running, Closed, Closing
  <2>4. AnswersFlow'
    <3>1. Answers(s, client.got, app.sent) => Answers(s', client.got, app.sent)
      BY DEF Answers
    <3> QED BY <2>1, <3>1 DEF Placed, AnswersFlow
  <2> QED BY <1>2, <2>2, <2>3, <2>4 DEF Placed
<1> QED BY <1>1, <1>2 DEF Orderly, Waits

\* generic_on_read: a frame is kept while the stream is classified, and then
\* forwarded behind all that came before it; so is the half-close.
LEMMA ReadOrder ==
    ASSUME IInv, Orderly, NEW message \in BOOLEAN, generic_on_read(message)
    PROVE  Orderly'
<1>0. UNCHANGED <<known, down, app>> /\ known /\ s.reads > 0 /\ todo = <<>>
  BY DEF generic_on_read
<1>c. PICK n : n = client.sent
  OBVIOUS
<1>f. PICK f : f = n + 1
  OBVIOUS
<1>n. n \in Nat /\ f \in Nat /\ f \in Nat \ {Half} /\ n <= f /\ f = client.sent + 1
  <2>1. n \in Nat
    BY <1>c, StreamTyped
  <2> QED BY <1>c, <1>f, <2>1 DEF Half
<1>m. /\ client'.sent = (IF message THEN f ELSE n) /\ client'.got = client.got
      /\ client'.status = client.status /\ client'.cancelled = client.cancelled
  <2>1. client' = IF message THEN [client EXCEPT !.sent = f] ELSE client
    BY <1>c, <1>f DEF generic_on_read
  <2> QED BY <1>c, <2>1, StreamTyped
<1>b. s.place # "remote" => client'.sent + app.sent <= MaxFrames
  <2>1. ASSUME s.place # "remote" PROVE client.sent + app.sent <= MaxFrames
    <3>1. s.place = "none" \/ s.place = "local"
      BY <2>1, StreamTyped, StreamConstants DEF Stream
    <3> QED BY <3>1 DEF Orderly, Unplaced, Placed, Quiet
  <2>2. ASSUME s.place # "remote", message PROVE n + app.sent < MaxFrames
    BY <1>c, <2>2 DEF generic_on_read, MaySend
  <2>3. PICK m : m = app.sent /\ m \in Nat
    BY StreamTyped
  <2>4. n + m < MaxFrames => f + m <= MaxFrames
    BY <1>f, <1>n, <2>3, StreamConstants
  <2> QED BY <1>c, <1>m, <2>1, <2>2, <2>3, <2>4
<1>1. PICK z, one, two, three : /\ z \in 0..1 /\ z = 0 /\ one \in 0..1 /\ one = 1
                                /\ two \in 0..3 /\ two = 2 /\ three \in 0..3 /\ three = 3
  OBVIOUS
<1>2. PICK t : t = [s EXCEPT !.reads = z]
  OBVIOUS
<1>3. t \in Stream /\ Settled(t)
  <2>1. t \in Stream
    BY <1>1, <1>2, StreamTyped DEF Stream
  <2> QED BY <1>1, <1>2, <2>1, StreamTyped DEF Stream, Settled
<1>4. /\ t.reads = z /\ t.phase = s.phase /\ t.place = s.place /\ t.finishing = s.finishing
      /\ t.dead = s.dead /\ t.writes = s.writes /\ t.writing = s.writing
      /\ t.write_queue = s.write_queue /\ t.status = s.status /\ t.buffered = s.buffered
      /\ t.read_stopped = s.read_stopped /\ t.finish_pending = s.finish_pending
  BY <1>2, StreamTyped DEF Stream
<1>5. CASE t.finish_pending \/ t.finishing
  <2>1. s' = TryFinish(t) /\ UNCHANGED <<todo, b, up>>
    BY <1>1, <1>2, <1>5 DEF generic_on_read
  <2>2. PICK r : r = s' /\ r = TryFinish(t)
    BY <2>1
  <2>3. /\ r.phase = t.phase /\ r.reads = t.reads /\ r.writes = t.writes
        /\ r.writing = t.writing /\ r.write_queue = t.write_queue
        /\ r.status = t.status /\ r.dead = t.dead /\ r.place = t.place
        /\ Closing(r) /\ Waits(r)
    BY <1>3, <2>2, TryFinishKeeps, Zenon
  <2>4. Closing(s) /\ Closing(s') /\ Waits(s')
    BY <1>4, <1>5, <2>2, <2>3 DEF Closing
  <2>5. client'.sent \in Nat /\ client.sent <= client'.sent
    BY <1>c, <1>n, <1>m
  <2>6. /\ s'.phase = s.phase /\ s'.writes = s.writes /\ s'.writing = s.writing
        /\ s'.write_queue = s.write_queue /\ s'.status = s.status /\ s'.dead = s.dead
        /\ s'.place = s.place
    BY <1>4, <2>2, <2>3
  <2> QED BY <1>0, <1>m, <1>b, <2>1, <2>4, <2>5, <2>6, ReadClosingOrder
<1>6. CASE ~(t.finish_pending \/ t.finishing) /\ s.phase \in {1, 2}
  <2>1. s.place = "none" /\ s.phase < 3
    <3>1. s.phase < 3
      BY <1>6, PhaseOrder, Zenon
    <3> QED BY <3>1 DEF IInv, Phases
  <2>2. Quiet /\ Fresh /\ Classifying /\ ~Closing(s)
    BY <1>4, <1>6, <2>1 DEF Orderly, Unplaced, Closing
  <2>3. Line(s.buffered, 0) /\ Len(s.buffered) = n /\ s.status = "ok" /\ ~s.read_stopped
    BY <1>c, <2>1, <2>2 DEF Classifying
  <2>4. PICK bf, al : bf = Append(t.buffered, f) /\ al = (IF t.alarm = "set" THEN "off" ELSE t.alarm)
    OBVIOUS
  <2>5. bf \in Seq(Nat \ {Half}) /\ al \in {"off", "set", "fired"}
    BY <1>3, <1>n, <2>4 DEF Stream
  <2>6. Line(bf, 0) /\ Len(bf) = f
    <3>1. s.buffered \in Seq(Nat)
      <4>1. s.buffered \in Seq(Nat \ {Half}) /\ Nat \ {Half} \subseteq Nat
        BY StreamTyped DEF Stream
      <4> QED BY <4>1
    <3>2. PICK q : q = s.buffered /\ q \in Seq(Nat) /\ Line(q, 0) /\ Len(q) = n
      BY <2>3, <3>1
    <3>3. f = 0 + Len(q) + 1 /\ 0 \in Nat
      BY <1>f, <1>n, <3>2
    <3>4. Line(Append(q, f), 0) /\ Len(Append(q, f)) = Len(q) + 1
      BY <1>n, <3>2, <3>3, LineAppend
    <3> QED BY <1>4, <1>f, <2>4, <3>2, <3>4
  <2>7. CASE message /\ s.phase = 1
    <3>0. ReadMessage(t, f)
      BY <1>1, <1>2, <1>4, <1>6, <1>n, <2>7 DEF generic_on_read
    <3>1. s' = [t EXCEPT !.phase = two, !.reads = one, !.buffered = bf, !.alarm = "set"]
      BY <1>1, <1>4, <2>4, <2>7, <3>0 DEF ReadMessage
    <3>2. UNCHANGED <<todo, b, up>>
      BY <1>4, <2>7, <3>0 DEF ReadMessage
    <3>3. /\ s'.phase = two /\ s'.reads = one /\ s'.buffered = bf /\ s'.place = "none"
          /\ s'.writes = s.writes /\ s'.write_queue = s.write_queue /\ s'.status = s.status
          /\ s'.read_stopped = s.read_stopped /\ s'.finish_pending = s.finish_pending
          /\ s'.finishing = s.finishing /\ s'.dead = s.dead
      BY <1>3, <1>4, <2>1, <3>1 DEF Stream
    <3>4. Told' /\ Waits(s')
      BY <1>m, <3>3 DEF Orderly, Told, Waits
    <3>5. Quiet'
      BY <1>0, <1>b, <2>1, <2>2, <3>2 DEF Quiet
    <3>6. Fresh'
      BY <1>0, <1>m, <2>2, <3>2, <3>3 DEF Fresh
    <3>7. Classifying'
      <4>1. client'.sent = f /\ one = 1 /\ two # 3
        BY <1>m, <1>1, <2>7
      <4> QED BY <2>2, <2>3, <2>6, <3>3, <4>1 DEF Classifying, Closing
    <3> QED BY <3>3, <3>4, <3>5, <3>6, <3>7 DEF Orderly, Unplaced, Waits
  <2>8. CASE message /\ s.phase = 2
    <3>0. ReadMessage(t, f)
      BY <1>1, <1>2, <1>4, <1>6, <1>n, <2>8 DEF generic_on_read
    <3>1. PICK u : u = [t EXCEPT !.phase = three, !.reads = one, !.buffered = bf, !.alarm = al]
      OBVIOUS
    <3>2. u \in Stream
      BY <1>1, <1>3, <2>5, <3>1 DEF Stream
    <3>3. /\ u.phase = 3 /\ u.place = "none" /\ u.writes = s.writes
          /\ u.write_queue = s.write_queue /\ u.status = s.status
          /\ u.read_stopped = s.read_stopped /\ u.dead = s.dead /\ u.buffered = bf
          /\ u.finish_pending = s.finish_pending /\ u.finishing = s.finishing
      BY <1>1, <1>3, <1>4, <2>1, <3>1 DEF Stream
    <3>4. Settled(u) /\ ~Closing(u)
      BY <1>3, <1>4, <1>6, <3>3 DEF Settled, Closing
    <3>5. \/ /\ s' = TryFinish([u EXCEPT !.status = "error"])
             /\ UNCHANGED <<todo, b, up>>
          \/ \E p \in Places :
                /\ s' = [u EXCEPT !.place = p, !.opened = TRUE, !.buffered = <<>>]
                /\ todo' = u.buffered \o <<>>
                /\ b' = IF p = "local" THEN [b EXCEPT !.at = "starting"] ELSE b
                /\ up' = IF p = "remote" THEN up \cup {Open} ELSE up
      <4>1. t.phase # 1 /\ t.phase # 3
        BY <1>4, <2>8
      <4>2. LET v == [t EXCEPT !.phase = 3, !.reads = 1, !.buffered = Append(t.buffered, f),
                               !.alarm = IF t.alarm = "set" THEN "off" ELSE t.alarm]
            IN  generic_begin_stream(v, <<>>)
        BY <3>0, <4>1, Zenon DEF ReadMessage
      <4>3. u = [t EXCEPT !.phase = 3, !.reads = 1, !.buffered = Append(t.buffered, f),
                          !.alarm = IF t.alarm = "set" THEN "off" ELSE t.alarm]
        BY <1>1, <2>4, <3>1
      <4> QED BY <4>2, <4>3 DEF generic_begin_stream
    <3>6. PICK last \in {<<>>, <<Half>>} : last = <<>>
      OBVIOUS
    <3>7. Line(u.buffered, 0) /\ Len(u.buffered) = client'.sent
      BY <1>m, <2>6, <2>8, <3>3
    <3> QED BY <1>0, <1>6, <1>m, <1>b, <2>1, <2>2, <3>2, <3>3, <3>4, <3>5, <3>6, <3>7, BeginOrder
  <2>9. CASE ~message
    <3>0. ReadEnd(t)
      BY <1>1, <1>2, <1>6, <2>9 DEF generic_on_read
    <3>1. PICK u : u = [t EXCEPT !.phase = three, !.alarm = al]
      OBVIOUS
    <3>2. u \in Stream
      BY <1>1, <1>3, <2>5, <3>1 DEF Stream
    <3>3. /\ u.phase = 3 /\ u.place = "none" /\ u.writes = s.writes
          /\ u.write_queue = s.write_queue /\ u.status = s.status /\ u.reads = t.reads
          /\ u.read_stopped = s.read_stopped /\ u.dead = s.dead /\ u.buffered = s.buffered
          /\ u.finish_pending = s.finish_pending /\ u.finishing = s.finishing
      BY <1>1, <1>3, <1>4, <2>1, <3>1 DEF Stream
    <3>4. Settled(u) /\ ~Closing(u)
      BY <1>3, <1>4, <1>6, <3>3 DEF Settled, Closing
    <3>5. t.phase # 3
      BY <1>4, <1>6
    <3>6. \/ /\ s' = TryFinish([u EXCEPT !.status = "error"])
             /\ UNCHANGED <<todo, b, up>>
          \/ \E p \in Places :
                /\ s' = [u EXCEPT !.place = p, !.opened = TRUE, !.buffered = <<>>]
                /\ todo' = u.buffered \o <<Half>>
                /\ b' = IF p = "local" THEN [b EXCEPT !.at = "starting"] ELSE b
                /\ up' = IF p = "remote" THEN up \cup {Open} ELSE up
      BY <1>1, <2>4, <3>0, <3>1, <3>5 DEF ReadEnd, generic_begin_stream
    <3>7. PICK last \in {<<>>, <<Half>>} : last = <<Half>>
      OBVIOUS
    <3>8. Line(u.buffered, 0) /\ Len(u.buffered) = client'.sent
      BY <1>m, <2>3, <2>9, <3>3
    <3> QED BY <1>0, <1>6, <1>m, <1>b, <2>1, <2>2, <3>2, <3>3, <3>4, <3>6, <3>7, <3>8, BeginOrder
  <2> QED BY <1>6, <2>7, <2>8, <2>9
<1>7. CASE ~(t.finish_pending \/ t.finishing) /\ ~(s.phase \in {1, 2})
  <2>1. s.phase = 3
    <3>1. s.phase \in 0..3 /\ (s.phase = 0 => ~known)
      BY StreamTyped DEF Stream, IInv, Phases
    <3>2. \A k \in 0..3 : k \in {0, 1, 2, 3}
      OBVIOUS
    <3> QED BY <1>0, <1>7, <3>1, <3>2
  <2>2. ~Closing(s)
    BY <1>4, <1>7 DEF Closing
  <2>3. s.place # "none"
    BY <2>1, <2>2 DEF Orderly, Unplaced, Classifying
  <2>4. t.phase # 1 /\ t.phase # 2 /\ ~(t.phase \in {1, 2})
    BY <1>4, <2>1
  <2>5. UNCHANGED <<b, up>>
    <3>1. message => ReadMessage(t, f)
      BY <1>1, <1>2, <1>7, <1>n DEF generic_on_read
    <3>2. ~message => ReadEnd(t)
      BY <1>1, <1>2, <1>7 DEF generic_on_read
    <3> QED BY <2>4, <3>1, <3>2 DEF ReadMessage, ReadEnd
  <2>6. \/ message /\ s.read_stopped /\ s' = t
        \/ message /\ ~s.read_stopped /\ s' = [t EXCEPT !.reads = one] /\ todo' = <<f>>
        \/ /\ ~message /\ s' = [t EXCEPT !.read_stopped = TRUE]
           /\ ~s.read_stopped => todo' = <<Half>>
    <3>1. message => ReadMessage(t, f)
      BY <1>1, <1>2, <1>7, <1>n DEF generic_on_read
    <3>2. ~message => ReadEnd(t)
      BY <1>1, <1>2, <1>7 DEF generic_on_read
    <3> QED BY <1>1, <1>4, <2>4, <3>1, <3>2 DEF ReadMessage, ReadEnd
  <2>7. /\ s'.writes = s.writes /\ s'.writing = s.writing /\ s'.write_queue = s.write_queue
        /\ s'.status = s.status /\ s'.dead = s.dead /\ s'.place = s.place
        /\ s'.finish_pending = s.finish_pending /\ s'.finishing = s.finishing
    BY <1>3, <1>4, <2>6 DEF Stream
  <2>8. s'.reads = 1 => ~s'.read_stopped
    <3>1. z # 1
      BY <1>1
    <3> QED BY <1>3, <1>4, <2>6, <3>1 DEF Stream
  <2>9. ASSUME s.place = "local" PROVE RequestsFlow'
    <3>1. Running /\ RequestsFlow
      BY <2>9 DEF Orderly, Placed
    <3>2. PICK g : g = app.got /\ g \in Nat
      BY StreamTyped
    <3>3. app'.got <= client'.sent
      <4>1. g <= n
        BY <1>c, <3>1, <3>2 DEF RequestsFlow
      <4>2. g <= f
        BY <1>f, <1>n, <3>2, <4>1
      <4> QED BY <1>0, <1>m, <3>2, <4>1, <4>2
    <3>4. ASSUME ~b.cancelled, app.ended = "none", b.at \in {"starting", "open"}
          PROVE  InFlight(b, g, todo', client'.sent)
      <4>1. ~s.read_stopped
        <5>1. s.reads = 1
          BY <1>0, StreamTyped DEF Stream
        <5> QED BY <3>1, <3>4, <5>1 DEF Running
      <4>2. InFlight(b, g, <<>>, n)
        BY <1>0, <1>c, <3>1, <3>2, <3>4 DEF RequestsFlow
      <4>3. PICK c : c = b
        OBVIOUS
      <4>4. c \in Backend /\ InFlight(c, g, <<>>, n)
        BY <4>2, <4>3, StreamTyped
      <4>5. InFlight(c, g, <<f>>, f) /\ InFlight(c, g, <<Half>>, n)
        BY <1>f, <1>n, <3>2, <4>4, FlightNext
      <4> QED BY <1>m, <2>6, <4>1, <4>3, <4>5
    <3> QED BY <1>0, <2>5, <3>2, <3>3, <3>4 DEF RequestsFlow
  <2> QED BY <1>0, <1>m, <1>b, <2>3, <2>5, <2>7, <2>8, <2>9, ReadOnOrder
<1> QED BY <1>5, <1>6, <1>7

\* The client takes the frame that is next: the write ends, and the next one starts
\* if there is one and the stream is not to finish.
LEMMA AnswerTaken ==
    ASSUME NEW t \in Stream, NEW g \in Nat, NEW n \in Nat, Answers(t, g, n), t.writes = 1
    PROVE  /\ t.writing = g + 1 /\ g + 1 <= n
           /\ \A r : r.writes = 0 /\ r.write_queue = t.write_queue => Answers(r, g + 1, n)
           /\ \A r : /\ t.write_queue # <<>> /\ r.writes = 1
                     /\ r.writing = Head(t.write_queue) /\ r.write_queue = Tail(t.write_queue)
                     => Answers(r, g + 1, n)
<1>1. PICK q, h : q = t.write_queue /\ h = g + 1
  OBVIOUS
<1>2. q \in Seq(Nat) /\ h \in Nat /\ Len(q) \in Nat
  <2>1. t.write_queue \in Seq(Nat)
    BY DEF Stream
  <2>2. h \in Nat
    BY <1>1, Sums
  <2> QED BY <1>1, <2>1, <2>2
<1>3. t.writing = h /\ Line(q, h) /\ h + Len(q) = n
  BY <1>1 DEF Answers
<1>4. h <= n
  BY <1>2, <1>3
<1>5. ASSUME NEW r, r.writes = 0, r.write_queue = q PROVE Answers(r, h, n)
  <2>1. h + 0 = h
    BY <1>2
  <2> QED BY <1>2, <1>3, <1>5, <2>1 DEF Answers
<1>6. ASSUME q # <<>>, NEW r, r.writes = 1, r.writing = Head(q), r.write_queue = Tail(q)
      PROVE  Answers(r, h, n)
  <2>1. PICK k, tl : tl = Tail(q) /\ k = Len(tl)
    OBVIOUS
  <2>2. Head(q) = h + 1 /\ Line(tl, h + 1) /\ k \in Nat /\ Len(q) = k + 1
    BY <1>2, <1>3, <1>6, <2>1, LineTail
  <2>3. h + 1 + k = n
    BY <1>2, <1>3, <2>2
  <2> QED BY <1>6, <2>1, <2>2, <2>3 DEF Answers
<1> QED BY <1>1, <1>3, <1>4, <1>5, <1>6

LEMMA WriteOrder == IInv /\ Orderly /\ generic_on_write => Orderly'
<1> SUFFICES ASSUME IInv, Orderly, generic_on_write PROVE Orderly'
  OBVIOUS
<1>0. known /\ s.writes > 0 /\ UNCHANGED <<known, todo, down, app>>
  BY DEF generic_on_write
<1>1. PICK z, one : z \in 0..1 /\ z = 0 /\ z \in Nat /\ one \in 0..1 /\ one = 1
  OBVIOUS
<1>2. s.writes = 1 /\ s.writes # 0 /\ ~s.finishing /\ ~s.dead
  <2>1. s.writes = 1 /\ s.writes # 0
    BY <1>0, StreamTyped DEF Stream
  <2> QED BY <2>1 DEF IInv, Settled
<1>3. s.place # "none"
  BY <1>2 DEF Orderly, Unplaced, Fresh
<1>4. PICK t : t = [s EXCEPT !.writes = z, !.writing = z]
  OBVIOUS
<1>5. t \in Stream /\ Settled(t)
  <2>1. t \in Stream
    BY <1>1, <1>4, StreamTyped DEF Stream
  <2> QED BY <1>1, <1>4, <2>1, StreamTyped DEF Stream, Settled
<1>6. /\ t.reads = s.reads /\ t.phase = s.phase /\ t.place = s.place /\ t.finishing = s.finishing
      /\ t.dead = s.dead /\ t.writes = z /\ t.write_queue = s.write_queue /\ t.status = s.status
      /\ t.read_stopped = s.read_stopped /\ t.finish_pending = s.finish_pending
  BY <1>4, StreamTyped DEF Stream
<1>7. s.place # "remote" => s.place = "local" /\ Placed
  <2>1. s.place # "remote" => s.place = "local"
    BY <1>3, StreamTyped, StreamConstants DEF Stream
  <2> QED BY <2>1 DEF Orderly
<1>8. CASE client.cancelled
  <2>1. /\ b' = IF t.place = "local" /\ Registered(b) THEN Cancelled(b) ELSE b
        /\ IF t.dead \/ t.finishing THEN s' = t
           ELSE s' = TryFinish([t EXCEPT !.status = "error", !.read_stopped = TRUE])
        /\ t.place # "remote" => up' = up
        /\ UNCHANGED client
    BY <1>1, <1>4, <1>8 DEF generic_on_write, Teardown
  <2>2. PICK r : r = s'
    OBVIOUS
  <2>3. /\ r.phase = t.phase /\ r.reads = t.reads /\ r.dead = t.dead /\ r.place = t.place
        /\ Closing(r) /\ Waits(r) /\ r.status = "error"
    <3>1. IF t.dead \/ t.finishing THEN r = t
          ELSE r = TryFinish([t EXCEPT !.status = "error", !.read_stopped = TRUE])
      BY <2>1, <2>2
    <3> QED BY <1>2, <1>5, <1>6, <3>1, TeardownEffect
  <2>4. s.place # "remote" => UNCHANGED <<up, down>> /\ client.sent + app'.sent <= MaxFrames
    BY <1>0, <1>6, <1>7, <2>1 DEF Placed, Quiet
  <2>5. Closing(s') /\ Waits(s')
    BY <2>2, <2>3
  <2>6. s.place = "local" => IF Registered(b) THEN b' = Cancelled(b) ELSE UNCHANGED <<b, app>>
    BY <1>0, <1>6, <2>1
  <2> QED BY <1>0, <1>2, <1>3, <1>6, <1>8, <2>1, <2>2, <2>3, <2>4, <2>5, <2>6, ClosingOrder
<1>9. CASE ~client.cancelled
  <2>1. /\ client' = [client EXCEPT !.got = Got(@, s.writing)]
        /\ s' = IF t.write_queue # <<>> /\ ~t.finishing /\ ~t.finish_pending
                  THEN [t EXCEPT !.writes = 1, !.writing = Head(t.write_queue),
                                 !.write_queue = Tail(t.write_queue)]
                  ELSE IF t.finish_pending THEN TryFinish(t) ELSE t
        /\ UNCHANGED <<b, up>>
    BY <1>1, <1>4, <1>9 DEF generic_on_write
  <2>2. /\ client'.sent = client.sent /\ client'.status = client.status
        /\ client'.cancelled = client.cancelled /\ client'.got = Got(client.got, s.writing)
    <3>1. PICK g : g = Got(client.got, s.writing)
      OBVIOUS
    <3>2. client' = [client EXCEPT !.got = g]
      BY <2>1, <3>1
    <3> QED BY <3>1, <3>2, StreamTyped
  <2>3. /\ s'.reads = s.reads /\ s'.place = s.place /\ s'.dead = s.dead /\ s'.status = s.status
        /\ Closing(s') = Closing(s) /\ Waits(s')
        /\ ~Closing(s) => s'.read_stopped = s.read_stopped
        /\ \/ s'.writes = 0 /\ s'.write_queue = s.write_queue
           \/ /\ s.write_queue # <<>> /\ s'.writes = 1
              /\ s'.writing = Head(s.write_queue) /\ s'.write_queue = Tail(s.write_queue)
    <3>1. CASE t.write_queue # <<>> /\ ~t.finishing /\ ~t.finish_pending
      <4>1. PICK h, q : h = Head(t.write_queue) /\ q = Tail(t.write_queue)
        OBVIOUS
      <4>2. s' = [t EXCEPT !.writes = one, !.writing = h, !.write_queue = q]
        BY <1>1, <2>1, <3>1, <4>1
      <4>3. /\ s'.reads = t.reads /\ s'.place = t.place /\ s'.dead = t.dead
            /\ s'.status = t.status /\ s'.finish_pending = t.finish_pending
            /\ s'.finishing = t.finishing /\ s'.read_stopped = t.read_stopped
            /\ s'.writes = one /\ s'.writing = h /\ s'.write_queue = q
        BY <1>5, <4>2 DEF Stream
      <4>4. one # 0
        BY <1>1
      <4> QED BY <1>1, <1>6, <3>1, <4>1, <4>3, <4>4 DEF Closing, Waits
    <3>2. CASE ~(t.write_queue # <<>> /\ ~t.finishing /\ ~t.finish_pending) /\ t.finish_pending
      <4>1. PICK r : r = s' /\ r = TryFinish(t)
        BY <2>1, <3>2
      <4>2. /\ r.reads = t.reads /\ r.writes = t.writes /\ r.write_queue = t.write_queue
            /\ r.status = t.status /\ r.dead = t.dead /\ r.place = t.place
            /\ Closing(r) /\ Waits(r)
        BY <1>5, <4>1, TryFinishKeeps
      <4>3. Closing(s)
        BY <1>6, <3>2 DEF Closing
      <4> QED BY <1>1, <1>6, <4>1, <4>2, <4>3 DEF Closing
    <3>3. CASE ~(t.write_queue # <<>> /\ ~t.finishing /\ ~t.finish_pending) /\ ~t.finish_pending
      <4>1. s' = t
        BY <2>1, <3>3
      <4>2. t.write_queue = <<>>
        BY <1>2, <1>6, <3>3
      <4> QED BY <1>1, <1>6, <4>1, <4>2 DEF Closing, Waits
    <3> QED BY <3>1, <3>2, <3>3
  <2>4. Told'
    BY <2>2, <2>3 DEF Orderly, Told
  <2>5. ASSUME s.place = "local" PROVE Placed'
    <3>1. Placed
      BY <2>5 DEF Orderly
    <3>2. Quiet' /\ Called'
      BY <1>0, <2>1, <2>2, <3>1 DEF Placed, Quiet, Called
    <3>3. Running' /\ Closed'
      BY <1>0, <2>1, <2>3, <3>1 DEF Placed, Running, Closed
    <3>4. RequestsFlow'
      BY <1>0, <2>1, <2>2, <3>1 DEF Placed, RequestsFlow
    <3>5. AnswersFlow'
      <4> SUFFICES ASSUME ~b.cancelled
                   PROVE  client'.got <= app.sent /\ Answers(s', client'.got, app.sent)
        BY <1>0, <2>1 DEF AnswersFlow
      <4>1. Answers(s, client.got, app.sent)
        BY <1>9, <3>1 DEF Placed, AnswersFlow
      <4>2. PICK x, g, n, r : x = s /\ g = client.got /\ n = app.sent /\ r = s'
        OBVIOUS
      <4>3. x \in Stream /\ g \in Nat /\ n \in Nat /\ Answers(x, g, n) /\ x.writes = 1
        BY <1>2, <4>1, <4>2, StreamTyped
      <4>4. x.writing = g + 1 /\ g + 1 <= n
        BY <4>3, AnswerTaken
      <4>5. Answers(r, g + 1, n)
        BY <2>3, <4>2, <4>3, AnswerTaken
      <4>6. client'.got = g + 1
        BY <2>2, <4>2, <4>4 DEF Got
      <4> QED BY <4>2, <4>4, <4>5, <4>6
    <3> QED BY <3>2, <3>3, <3>4, <3>5 DEF Placed
  <2> QED BY <1>3, <2>3, <2>4, <2>5 DEF Orderly, Waits
<1> QED BY <1>8, <1>9

LEMMA FinishOrder == IInv /\ Orderly /\ generic_on_finish => Orderly'
<1> SUFFICES ASSUME IInv, Orderly, generic_on_finish PROVE Orderly'
  OBVIOUS
<1>1. /\ s' = [s EXCEPT !.dead = TRUE] /\ client' = [client EXCEPT !.status = s.status]
      /\ UNCHANGED <<known, todo, b, up, down, app>>
  BY DEF generic_on_finish
<1>2. /\ s'.phase = s.phase /\ s'.reads = s.reads /\ s'.writes = s.writes /\ s'.writing = s.writing
      /\ s'.write_queue = s.write_queue /\ s'.buffered = s.buffered
      /\ s'.read_stopped = s.read_stopped /\ s'.finish_pending = s.finish_pending
      /\ s'.finishing = s.finishing /\ s'.status = s.status /\ s'.dead /\ s'.place = s.place
  BY <1>1, StreamTyped DEF Stream
<1>3. /\ client'.sent = client.sent /\ client'.got = client.got
      /\ client'.cancelled = client.cancelled /\ client'.status = s.status
  BY <1>1, StreamTyped
<1>4. Told' /\ Waits(s')
  BY <1>2, <1>3 DEF Orderly, Told, Waits
<1>5. ASSUME s.place = "none" PROVE Unplaced'
  <2>1. Unplaced
    BY <1>5 DEF Orderly
  <2>2. Quiet' /\ Fresh'
    BY <1>1, <1>2, <1>3, <2>1 DEF Unplaced, Quiet, Fresh
  <2>3. Classifying'
    BY <1>2, <1>3, <2>1 DEF Unplaced, Classifying, Closing
  <2> QED BY <2>2, <2>3 DEF Unplaced
<1>6. ASSUME s.place = "local" PROVE Placed'
  <2>1. Placed
    BY <1>6 DEF Orderly
  <2>2. Quiet' /\ Called'
    BY <1>1, <1>3, <2>1 DEF Placed, Quiet, Called
  <2>3. Running' /\ Closed'
    BY <1>1, <1>2, <2>1 DEF Placed, Running, Closed, Closing
  <2>4. RequestsFlow'
    BY <1>1, <1>3, <2>1 DEF Placed, RequestsFlow
  <2>5. Answers(s, client.got, app.sent) => Answers(s', client.got, app.sent)
    BY <1>2 DEF Answers
  <2>6. AnswersFlow'
    BY <1>1, <1>2, <1>3, <2>1, <2>5 DEF Placed, AnswersFlow
  <2> QED BY <2>2, <2>3, <2>4, <2>6 DEF Placed
<1> QED BY <1>2, <1>4, <1>5, <1>6 DEF Orderly, Waits

\* The classification window: the event, and the handler that begins the stream
\* with the one frame read.
LEMMA AlarmOrder == IInv /\ Orderly /\ (AlarmFires \/ generic_on_alarm) => Orderly'
<1> SUFFICES ASSUME IInv, Orderly, AlarmFires \/ generic_on_alarm PROVE Orderly'
  OBVIOUS
<1>1. ASSUME NEW a, s' = [s EXCEPT !.alarm = a], UNCHANGED <<known, todo, b, up, down, client, app>>
      PROVE  Orderly'
  <2>1. /\ s'.phase = s.phase /\ s'.reads = s.reads /\ s'.writes = s.writes
        /\ s'.writing = s.writing
        /\ s'.write_queue = s.write_queue /\ s'.buffered = s.buffered
        /\ s'.read_stopped = s.read_stopped /\ s'.finish_pending = s.finish_pending
        /\ s'.finishing = s.finishing /\ s'.status = s.status /\ s'.dead = s.dead
        /\ s'.place = s.place
    BY <1>1, StreamTyped DEF Stream
  <2> QED BY <1>1, <2>1, SameOrder
<1>2. CASE AlarmFires
  BY <1>1, <1>2 DEF AlarmFires
<1>3. CASE generic_on_alarm
  <2>0. known /\ UNCHANGED <<known, down, client, app>>
    BY <1>3 DEF generic_on_alarm
  <2>1. PICK t : t = [s EXCEPT !.alarm = "off"]
    OBVIOUS
  <2>2. CASE t.dead \/ t.phase # 2
    <3>1. s' = t /\ UNCHANGED <<todo, b, up>>
      BY <1>3, <2>1, <2>2 DEF generic_on_alarm
    <3> QED BY <1>1, <2>0, <2>1, <3>1
  <2>3. CASE ~(t.dead \/ t.phase # 2)
    <3>1. PICK three : three \in 0..3 /\ three = 3
      OBVIOUS
    <3>2. PICK u : u = [t EXCEPT !.phase = three]
      OBVIOUS
    <3>3. t \in Stream /\ u \in Stream
      BY <2>1, <3>1, <3>2, StreamTyped DEF Stream
    <3>4. /\ u.phase = 3 /\ u.place = s.place /\ u.writes = s.writes /\ u.reads = s.reads
          /\ u.write_queue = s.write_queue /\ u.status = s.status
          /\ u.read_stopped = s.read_stopped /\ u.dead = s.dead /\ u.buffered = s.buffered
          /\ u.finish_pending = s.finish_pending /\ u.finishing = s.finishing
          /\ t.phase = s.phase /\ t.dead = s.dead
      BY <2>1, <3>1, <3>2, StreamTyped DEF Stream
    <3>5. s.phase = 2 /\ s.phase \in {1, 2} /\ s.phase < 3
      BY <2>3, <3>4
    <3>6. s.place = "none"
      BY <3>5 DEF IInv, Phases
    <3>7. Classifying /\ ~Closing(s) /\ Quiet
      BY <3>5, <3>6 DEF Orderly, Unplaced, Classifying
    <3>8. Settled(u) /\ ~Closing(u)
      BY <3>4, <3>7, StreamTyped DEF Settled, Closing
    <3>9. Line(u.buffered, 0) /\ Len(u.buffered) = client'.sent
      BY <2>0, <3>4, <3>5, <3>7 DEF Classifying
    <3>10. \/ /\ s' = TryFinish([u EXCEPT !.status = "error"])
              /\ UNCHANGED <<todo, b, up>>
           \/ \E p \in Places :
                 /\ s' = [u EXCEPT !.place = p, !.opened = TRUE, !.buffered = <<>>]
                 /\ todo' = u.buffered \o <<>>
                 /\ b' = IF p = "local" THEN [b EXCEPT !.at = "starting"] ELSE b
                 /\ up' = IF p = "remote" THEN up \cup {Open} ELSE up
      BY <1>3, <2>1, <2>3, <3>1, <3>2 DEF generic_on_alarm, generic_begin_stream
    <3>11. PICK last \in {<<>>, <<Half>>} : last = <<>>
      OBVIOUS
    <3>12. client'.sent + app.sent <= MaxFrames
      BY <2>0, <3>7 DEF Quiet
    <3> QED BY <2>0, <3>3, <3>4, <3>5, <3>6, <3>7, <3>8, <3>9, <3>10, <3>11, <3>12, BeginOrder
  <2> QED BY <2>2, <2>3
<1> QED BY <1>2, <1>3

LEMMA SweepOrder == IInv /\ Orderly /\ (sweep_dead \/ sweep_idle \/ sweep_unconfirmed) => Orderly'
<1> SUFFICES ASSUME IInv, Orderly, sweep_dead \/ sweep_idle \/ sweep_unconfirmed PROVE Orderly'
  OBVIOUS
<1>1. CASE sweep_dead
  <2>1. UNCHANGED <<s, todo, b, up, down, client, app>> /\ s.dead
    BY <1>1 DEF sweep_dead
  <2>2. Closing(s)
    BY <2>1 DEF IInv, Settled, Closing
  <2> QED BY <2>1, <2>2, SameOrder
<1>2. CASE sweep_idle \/ sweep_unconfirmed
  <2>1. PICK t : t = s
    OBVIOUS
  <2>2. /\ b' = IF t.place = "local" /\ Registered(b) THEN Cancelled(b) ELSE b
        /\ IF t.dead \/ t.finishing THEN s' = t
           ELSE s' = TryFinish([t EXCEPT !.status = "error", !.read_stopped = TRUE])
        /\ t.place # "remote" => up' = up
        /\ UNCHANGED <<known, todo, down, client, app>> /\ ~s.finishing /\ s.phase # 2
    BY <1>2, <2>1 DEF sweep_idle, sweep_unconfirmed, Teardown
  <2>3. PICK r : r = s'
    OBVIOUS
  <2>4. /\ r.phase = t.phase /\ r.reads = t.reads /\ r.writes = t.writes
        /\ r.writing = t.writing /\ r.write_queue = t.write_queue
        /\ r.dead = t.dead /\ r.place = t.place
        /\ Closing(r) /\ Waits(r) /\ r.status = "error"
    <3>1. IF t.dead \/ t.finishing THEN r = t
          ELSE r = TryFinish([t EXCEPT !.status = "error", !.read_stopped = TRUE])
      BY <2>2, <2>3
    <3>2. t \in Stream /\ Settled(t) /\ ~t.finishing
      BY <2>1, <2>2, StreamTyped
    <3> QED BY <3>1, <3>2, TeardownEffect
  <2>5. Closing(s') /\ Waits(s')
    BY <2>3, <2>4
  <2>6. s.place # "remote" => UNCHANGED <<up, down>> /\ client.sent + app'.sent <= MaxFrames
    <3>1. s.place # "remote" => s.place = "local" \/ s.place = "none"
      BY StreamTyped, StreamConstants DEF Stream
    <3> QED BY <2>1, <2>2, <3>1 DEF Orderly, Placed, Unplaced, Quiet
  <2> QED BY <2>1, <2>2, <2>3, <2>4, <2>5, <2>6, ClosingOrder
<1> QED BY <1>1, <1>2

\* The pump forwards the next frame, or the half-close.
LEMMA ForwardOrder == IInv /\ Orderly /\ ingress_forward_frame => Orderly'
<1> SUFFICES ASSUME IInv, Orderly, ingress_forward_frame PROVE Orderly'
  OBVIOUS
<1>0. /\ todo # <<>> /\ todo' = Tail(todo) /\ UNCHANGED <<s, known, down, client, app>>
      /\ s.place # "remote" => up' = up
  BY DEF ingress_forward_frame
<1>1. s.place # "none"
  BY <1>0 DEF Orderly, Unplaced, Fresh
<1>2. PICK td, c : td = todo /\ c = b
  OBVIOUS
<1>3. /\ td \in Seq(Nat) /\ td # <<>> /\ c \in Backend /\ Len(c.queue) <= BackendLimit
      /\ Head(td) \in Nat
  BY <1>0, <1>2, StreamTyped
<1>4. ASSUME s.place = "local"
      PROVE  /\ UNCHANGED <<up, down>> /\ Called' /\ RequestsFlow' /\ app'.sent = app.sent
             /\ b.cancelled => b'.cancelled
             /\ b.at = "gone" => b'.at = "gone" /\ b'.cancelled = b.cancelled
             /\ b'.at = "gone" => b.at = "gone"
  <2>1. Placed
    BY <1>4 DEF Orderly
  <2>2. b' = IF known /\ ~s.dead /\ ~s.finishing /\ Registered(c) THEN ClientMessage(c, Head(td)) ELSE c
    BY <1>2, <1>4 DEF ingress_forward_frame
  <2>3. /\ ClientMessage(c, Head(td)).at = c.at /\ ClientMessage(c, Head(td)).started = c.started
        /\ c.cancelled => ClientMessage(c, Head(td)).cancelled
        /\ ~c.started => /\ ClientMessage(c, Head(td)).writes_done = c.writes_done
                         /\ ClientMessage(c, Head(td)).writing = c.writing
    BY <1>3, ForwardSame
  <2>5. ~b.started => b'.writes_done = b.writes_done /\ b'.writing = b.writing
    BY <1>2, <2>2, <2>3
  <2>6. Called'
    BY <1>0, <1>2, <2>1, <2>2, <2>3, <2>5 DEF Placed, Called
  <2>7. RequestsFlow'
    <3>1. app.got <= client.sent
      BY <2>1 DEF Placed, RequestsFlow
    <3>2. ASSUME ~b'.cancelled, app.ended = "none", b'.at \in {"starting", "open"}
          PROVE  InFlight(b', app.got, todo', client.sent)
      <4>1. ~c.cancelled /\ c.at \in {"starting", "open"}
        BY <1>2, <2>2, <2>3, <3>2
      <4>2. PICK g, n : g = app.got /\ n = client.sent /\ g \in Nat /\ n \in Nat
        BY StreamTyped
      <4>3. InFlight(c, g, td, n)
        BY <1>2, <2>1, <3>2, <4>1, <4>2 DEF Placed, RequestsFlow
      <4>4. known /\ ~s.finishing /\ ~s.dead /\ Registered(c)
        BY <1>2, <2>1, <4>1 DEF Placed, Running, Closing, Registered, IInv, Settled
      <4>5. b' = ClientMessage(c, Head(td))
        BY <2>2, <4>4
      <4>6. InFlight(ClientMessage(c, Head(td)), g, Tail(td), n)
        BY <1>3, <3>2, <4>2, <4>3, <4>5, ForwardFlight
      <4> QED BY <1>0, <1>2, <4>2, <4>5, <4>6
    <3> QED BY <1>0, <3>1, <3>2 DEF RequestsFlow
  <2>8. b.at = "gone" => b'.cancelled = b.cancelled
    BY <1>2, <2>2 DEF Registered
  <2>9. b'.at = b.at /\ (b.cancelled => b'.cancelled)
    BY <1>2, <2>2, <2>3
  <2> QED BY <1>0, <1>4, <2>6, <2>7, <2>8, <2>9
<1> QED BY <1>0, <1>1, <1>4, CallOrder

\* run(): the call is started, its reads and its writes end.
LEMMA PumpOrder ==
    IInv /\ Orderly /\ (backend_started \/ backend_read_end \/ backend_wrote) => Orderly'
<1> SUFFICES ASSUME IInv, Orderly, backend_started \/ backend_read_end \/ backend_wrote
             PROVE  Orderly'
  OBVIOUS
<1>0. UNCHANGED <<s, known, todo, up, down, client>> /\ b.at # "none"
  BY DEF backend_started, backend_read_end, backend_wrote, Registered
<1>1. s.place # "none"
  BY <1>0 DEF Orderly, Unplaced, Fresh
<1>2. PICK c, g, n : c = b /\ g = app.got /\ n = client.sent
  OBVIOUS
<1>3. c \in Backend /\ g \in Nat /\ n \in Nat /\ todo \in Seq(Nat)
  BY <1>2, StreamTyped
<1>4. ASSUME s.place = "local", NEW d \in Backend, b' = Drive(d) \/ b' = d,
             d.cancelled = c.cancelled, d.at # "none", d.at # "gone", c.at # "gone",
             d.at = "starting" => ~d.started,
             d.at = "open" => d.started,
             ~d.started => ~d.writes_done /\ d.writing = 0 /\ b' = d,
             d.started /\ d.at = "finish" => d.cancelled \/ app'.ended # "none",
             app'.sent = app.sent, app'.got <= n,
             ~d.cancelled /\ app'.ended = "none" /\ d.at \in {"starting", "open"} =>
               app'.got \in Nat /\ InFlight(d, app'.got, todo, n)
      PROVE  Orderly'
  <2>1. b'.at = d.at /\ b'.started = d.started /\ b'.cancelled = d.cancelled
    BY <1>4, DriveSame
  <2>2. Called'
    BY <1>4, <2>1 DEF Called
  <2>3. ~d.cancelled /\ app'.ended = "none" /\ d.at \in {"starting", "open"} =>
          InFlight(b', app'.got, todo, n)
    <3>1. PICK e, h, td : e = b' /\ h = app'.got /\ td = todo
      OBVIOUS
    <3>2. h \in Nat /\ InFlight(d, h, td, n) => InFlight(Drive(d), h, td, n)
      BY <1>3, <1>4, <3>1, DriveFlight
    <3> QED BY <1>4, <3>1, <3>2
  <2>4. RequestsFlow'
    BY <1>0, <1>2, <1>4, <2>1, <2>3 DEF RequestsFlow
  <2> QED BY <1>0, <1>1, <1>2, <1>4, <2>1, <2>2, <2>4, CallOrder
<1>5. s.place = "local" => Called /\ RequestsFlow
  BY DEF Orderly, Placed
<1>6. s.place # "local" => Orderly'
  BY <1>0, <1>1, CallOrder
<1>7. g <= n \/ s.place # "local"
  BY <1>2, <1>5 DEF RequestsFlow
<1>8. s.place = "local" /\ ~c.cancelled /\ app.ended = "none" /\ c.at \in {"starting", "open"} =>
        InFlight(c, g, todo, n)
  BY <1>2, <1>5 DEF RequestsFlow
<1>9. ASSUME s.place = "local", backend_started PROVE Orderly'
  <2>1. app' = app /\ c.at = "starting" /\ ~c.started /\ ~c.writes_done /\ c.writing = 0
    BY <1>2, <1>5, <1>9 DEF backend_started, Called
  <2>2. CASE b' = Drive([b EXCEPT !.at = "open", !.started = TRUE]) /\ ~b.cancelled
    <3>1. PICK d : d = [c EXCEPT !.at = "open", !.started = TRUE]
      OBVIOUS
    <3>2. /\ d \in Backend /\ d.queue = c.queue /\ d.writing = c.writing /\ d.at = "open"
          /\ d.started /\ d.cancelled = c.cancelled
      BY <1>3, <3>1 DEF Backend
    <3>3. b' = Drive(d)
      BY <1>2, <2>2, <3>1
    <3>4. ~d.cancelled /\ app.ended = "none" => InFlight(d, g, todo, n)
      BY <1>8, <1>9, <2>1, <3>2, SameFlight
    <3> QED BY <1>2, <1>3, <1>4, <1>7, <1>9, <2>1, <3>2, <3>3, <3>4
  <2>3. CASE b' = [b EXCEPT !.at = "finish"]
    <3>1. PICK d : d = [c EXCEPT !.at = "finish"]
      OBVIOUS
    <3>2. /\ d \in Backend /\ d.writing = c.writing /\ d.at = "finish"
          /\ d.started = c.started /\ d.cancelled = c.cancelled /\ d.writes_done = c.writes_done
      BY <1>3, <3>1 DEF Backend
    <3>3. b' = d
      BY <1>2, <2>3, <3>1
    <3> QED BY <1>2, <1>3, <1>4, <1>7, <1>9, <2>1, <3>2, <3>3
  <2> QED BY <1>9, <2>2, <2>3 DEF backend_started
<1>10. ASSUME s.place = "local", backend_read_end PROVE Orderly'
  <2>1. /\ app' = app /\ c.at = "open" /\ c.started /\ (c.cancelled \/ app.ended # "none")
        /\ b' = [c EXCEPT !.at = "finish"]
    BY <1>2, <1>5, <1>10 DEF backend_read_end, Called
  <2>2. PICK d : d = [c EXCEPT !.at = "finish"]
    OBVIOUS
  <2>3. d \in Backend /\ d.at = "finish" /\ d.started /\ d.cancelled = c.cancelled
    BY <1>3, <2>1, <2>2 DEF Backend
  <2>4. b' = d
    BY <2>1, <2>2
  <2> QED BY <1>2, <1>3, <1>4, <1>7, <1>10, <2>1, <2>3, <2>4
<1>11. ASSUME s.place = "local", backend_wrote PROVE Orderly'
  <2>1. /\ c.at \in {"starting", "open", "finish"} /\ c.writing # 0 /\ c.started
        /\ c.at # "starting"
    BY <1>2, <1>5, <1>11 DEF backend_wrote, Registered, Called
  <2>2. PICK z : z \in Nat /\ z = 0
    OBVIOUS
  <2>3. PICK d : d = [c EXCEPT !.writing = z]
    OBVIOUS
  <2>4. /\ d \in Backend /\ d.queue = c.queue /\ d.writing = 0 /\ d.at = c.at
        /\ d.started /\ d.cancelled = c.cancelled
    BY <1>3, <2>1, <2>2, <2>3 DEF Backend
  <2>5. b' = Drive(d)
    BY <1>2, <1>11, <2>2, <2>3 DEF backend_wrote
  <2>6. c.at = "finish" => c.cancelled \/ app.ended # "none"
    BY <1>2, <1>5, <1>11, <2>1 DEF Called
  <2>7. CASE c.cancelled \/ app.ended # "none"
    <3>1. app' = app
      BY <1>2, <1>11, <2>7 DEF backend_wrote
    <3> QED BY <1>2, <1>3, <1>4, <1>7, <1>11, <2>1, <2>4, <2>5, <2>7, <3>1
  <2>8. CASE ~(c.cancelled \/ app.ended # "none")
    <3>1. c.at = "open" /\ InFlight(c, g, todo, n)
      BY <1>8, <1>11, <2>1, <2>6, <2>8
    <3>2. c.writing = g + 1 /\ g + 1 <= n /\ InFlight(d, g + 1, todo, n)
      BY <1>3, <2>1, <2>4, <3>1, TakenFlight
    <3>3. PICK h : h = g + 1 /\ h \in Nat
      BY <1>3, Sums
    <3>4. Got(g, c.writing) = h
      BY <3>2, <3>3 DEF Got
    <3>5. app' = [app EXCEPT !.got = h]
      <4>1. app' = [app EXCEPT !.got = Got(app.got, b.writing)]
        BY <1>2, <1>11, <2>8, <3>1 DEF backend_wrote
      <4> QED BY <1>2, <3>4, <4>1
    <3>6. app'.got = h /\ app'.sent = app.sent /\ app'.ended = app.ended
      BY <3>5, StreamTyped
    <3> QED BY <1>3, <1>4, <1>11, <2>1, <2>4, <2>5, <2>8, <3>1, <3>2, <3>3, <3>6
  <2> QED BY <2>7, <2>8
<1> QED BY <1>6, <1>9, <1>10, <1>11

\* A message of the backend, for a stream here or on another leaf.
LEMMA BackendReadOrder == IInv /\ Orderly /\ backend_read => Orderly'
<1> SUFFICES ASSUME IInv, Orderly, backend_read PROVE Orderly'
  OBVIOUS
<1>0. UNCHANGED <<known, todo, client>> /\ b.at = "open"
  BY DEF backend_read
<1>1. s.place # "none"
  BY <1>0 DEF Orderly, Unplaced, Fresh
<1>2. PICK f : f = app.sent + 1 /\ f \in Nat
  <2>1. app.sent \in Nat
    BY StreamTyped
  <2> QED BY <2>1, Sums
<1>3. app'.sent = f /\ app'.got = app.got /\ app'.ended = app.ended
  <2>1. app' = [app EXCEPT !.sent = f]
    BY <1>2 DEF backend_read
  <2> QED BY <2>1, StreamTyped
<1>4. s.place = "local" => client.sent + f <= MaxFrames
  <2>1. s.place = "local" => client.sent + app.sent < MaxFrames
    BY DEF backend_read, MaySend
  <2>2. PICK n, m : n = client.sent /\ m = app.sent /\ n \in Nat /\ m \in Nat
    BY StreamTyped
  <2>3. n + m < MaxFrames => n + (m + 1) <= MaxFrames
    BY <2>2, StreamConstants
  <2> QED BY <1>2, <2>1, <2>2, <2>3
<1>5. CASE s.place = "local" /\ known
  <2>1. PICK t : t = [s EXCEPT !.confirmed = TRUE]
    OBVIOUS
  <2>2. IF Stalled(t)
          THEN LET u == [t EXCEPT !.read_stopped = TRUE, !.status = "error"]
               IN  /\ b' = IF u.place = "local" /\ Registered(b) THEN Cancelled(b) ELSE b
                   /\ IF u.dead \/ u.finishing
                        THEN s' = u /\ up' = up
                        ELSE /\ s' = TryFinish([u EXCEPT !.status = "error", !.read_stopped = TRUE])
                             /\ up' = IF u.place = "remote" THEN up \cup {Close("error")} ELSE up
          ELSE s' = QueueWrite(t, f) /\ UNCHANGED <<b, up>>
    BY <1>2, <1>5, <2>1 DEF backend_read, BackendMessage, Teardown
  <2>3. down' = down
    BY <1>5 DEF backend_read
  <2> QED BY <1>0, <1>1, <1>2, <1>3, <1>4, <1>5, <2>1, <2>2, <2>3, BackendMessageOrder
<1>6. CASE ~(s.place = "local" /\ known)
  <2>1. UNCHANGED <<s, b, up>> /\ (s.place = "local" => down' = down)
    BY <1>6 DEF backend_read
  <2>2. Told' /\ Waits(s')
    BY <1>0, <2>1 DEF Orderly, Told
  <2>3. ASSUME s.place = "local" PROVE Placed'
    <3>1. Placed /\ b.cancelled
      BY <1>0, <1>6, <2>3 DEF Orderly, Placed, Running
    <3>2. Quiet' /\ Called'
      BY <1>0, <1>3, <1>4, <2>1, <2>3, <3>1 DEF Placed, Quiet, Called
    <3>3. Running' /\ Closed' /\ AnswersFlow'
      BY <2>1, <3>1 DEF Placed, Running, Closed, AnswersFlow
    <3>4. RequestsFlow'
      BY <1>0, <1>3, <2>1, <3>1 DEF Placed, RequestsFlow
    <3> QED BY <3>2, <3>3, <3>4 DEF Placed
  <2> QED BY <1>1, <2>1, <2>2, <2>3 DEF Orderly
<1> QED BY <1>5, <1>6

\* ingress_backend_closed notes how the call ended, unless the stream is finished.
LEMMA ClosedEffect ==
    ASSUME IInv, Orderly, NEW st \in Statuses, s' = BackendClosed(s, st)
    PROVE  \/ s' = s /\ (~known \/ s.finishing)
           \/ /\ known /\ ~s.finishing /\ s'.phase = s.phase /\ s'.writes = s.writes
              /\ s'.writing = s.writing /\ s'.write_queue = s.write_queue
              /\ s'.dead = s.dead /\ ~s.dead /\ s'.place = s.place
              /\ s'.status = st /\ Closing(s') /\ Waits(s')
<1>1. CASE ~known \/ s.dead \/ s.finishing
  BY <1>1 DEF BackendClosed, IInv, Settled
<1>2. CASE ~(~known \/ s.dead \/ s.finishing)
  <2>1. s' = TryFinish([s EXCEPT !.confirmed = TRUE, !.status = st, !.read_stopped = TRUE])
    BY <1>2 DEF BackendClosed
  <2>2. PICK v : v = [s EXCEPT !.confirmed = TRUE, !.status = st, !.read_stopped = TRUE]
    OBVIOUS
  <2>3. v \in Stream
    BY <2>2, StreamTyped DEF Stream
  <2>4. /\ Settled(v) /\ v.phase = s.phase /\ v.writes = s.writes /\ v.writing = s.writing
        /\ v.write_queue = s.write_queue /\ v.dead = s.dead /\ v.place = s.place /\ v.status = st
    BY <2>2, StreamTyped DEF Stream, Settled
  <2>5. PICK r : r = s' /\ r = TryFinish(v)
    BY <2>1, <2>2
  <2>6. /\ r.phase = v.phase /\ r.writes = v.writes
        /\ r.writing = v.writing /\ r.write_queue = v.write_queue
        /\ r.status = v.status /\ r.dead = v.dead /\ r.place = v.place
        /\ Closing(r) /\ Waits(r)
    BY <2>3, <2>4, <2>5, TryFinishKeeps
  <2>7. Closing(s') /\ Waits(s')
    BY <2>5, <2>6
  <2> QED BY <1>2, <2>4, <2>5, <2>6, <2>7
<1> QED BY <1>1, <1>2

\* on_close of the backend's call: OK only if nobody cancelled it.
LEMMA FinishedOrder == IInv /\ Orderly /\ backend_stream_finished => Orderly'
<1> SUFFICES ASSUME IInv, Orderly, backend_stream_finished PROVE Orderly'
  OBVIOUS
<1>1. PICK st \in Statuses : st = IF b.cancelled \/ app.ended # "ok" THEN "error" ELSE "ok"
  BY DEF Statuses
<1>2. /\ b' = [b EXCEPT !.at = "gone"] /\ UNCHANGED <<known, todo, up, client, app>>
      /\ b.at = "finish"
  BY DEF backend_stream_finished
<1>3. /\ b'.at = "gone" /\ b'.started = b.started /\ b'.writes_done = b.writes_done
      /\ b'.queue = b.queue /\ b'.writing = b.writing /\ b'.cancelled = b.cancelled
  BY <1>2, StreamTyped DEF Backend
<1>4. s.place # "none"
  BY <1>2 DEF Orderly, Unplaced, Fresh
<1>5. CASE s.place = "local"
  <2>1. s' = BackendClosed(s, st) /\ down' = down
    BY <1>1, <1>5 DEF backend_stream_finished
  <2>2. \/ s' = s /\ (~known \/ s.finishing)
        \/ /\ known /\ ~s.finishing /\ s'.phase = s.phase /\ s'.writes = s.writes
           /\ s'.writing = s.writing /\ s'.write_queue = s.write_queue
           /\ s'.dead = s.dead /\ ~s.dead /\ s'.place = s.place
           /\ s'.status = st /\ Closing(s') /\ Waits(s')
    BY <2>1, ClosedEffect
  <2>3. Told' /\ Waits(s')
    BY <1>2, <2>2 DEF Orderly, Told
  <2>4. Placed
    BY <1>5 DEF Orderly
  <2>5. Quiet' /\ Called'
    BY <1>2, <1>3, <2>1, <2>4 DEF Placed, Quiet, Called
  <2>6. Running'
    BY <1>3 DEF Running
  <2>7. Closed'
    <3>1. CASE s' = s
      BY <1>2, <2>4, <3>1 DEF Placed, Closed, Closing
    <3>2. CASE s'.status = st
      BY <1>1, <1>3, <3>2 DEF Closed
    <3> QED BY <2>2, <3>1, <3>2
  <2>8. RequestsFlow'
    BY <1>2, <1>3, <2>4 DEF Placed, RequestsFlow
  <2>9. AnswersFlow'
    <3> SUFFICES ASSUME ~b.cancelled
                 PROVE  client.got <= app.sent /\ Answers(s', client.got, app.sent)
      BY <1>2, <1>3 DEF AnswersFlow
    <3>1. s.status = "ok"
      BY <1>2, <2>4 DEF Placed, Running
    <3>2. client.got <= app.sent /\ Answers(s, client.got, app.sent)
      BY <2>4, <3>1 DEF Placed, AnswersFlow
    <3>3. s'.writes = s.writes /\ s'.writing = s.writing /\ s'.write_queue = s.write_queue
      BY <2>2
    <3>4. Answers(s', client.got, app.sent)
      BY <3>2, <3>3 DEF Answers
    <3> QED BY <3>2, <3>4
  <2>10. s'.place = "local"
    BY <1>5, <2>2
  <2> QED BY <2>3, <2>5, <2>6, <2>7, <2>8, <2>9, <2>10 DEF Orderly, Placed
<1>6. CASE s.place # "local"
  <2>1. s' = s /\ s.place = "remote"
    BY <1>4, <1>6, StreamTyped, StreamConstants DEF backend_stream_finished, Stream
  <2>2. Told' /\ Waits(s')
    BY <1>2, <2>1 DEF Orderly, Told
  <2> QED BY <2>1, <2>2, RemoteOrder
<1> QED BY <1>5, <1>6

\* Only a remote stream has messages on the wire.
LEMMA WireOrder ==
    IInv /\ Orderly /\ (Wire \/ handle_stream_open_refused \/ Lose) => Orderly'
<1> SUFFICES ASSUME IInv, Orderly, Wire \/ handle_stream_open_refused \/ Lose PROVE Orderly'
  OBVIOUS
<1>1. UNCHANGED <<known, todo, client, app>> /\ (up # {} \/ down # {})
  BY DEF Wire, process_stream_open, process_stream_frame_origin, process_stream_close_origin,
         process_stream_frame, process_stream_close, handle_stream_open_refused, Lose
<1>2. s.place = "remote"
  <2>1. s.place \in {"none", "local", "remote"}
    BY StreamTyped, StreamConstants DEF Stream
  <2> QED BY <1>1, <2>1 DEF Orderly, Unplaced, Placed, Quiet
<1>3. CASE s' = s
  <2>1. Told' /\ Waits(s')
    BY <1>1, <1>3 DEF Orderly, Told
  <2> QED BY <1>2, <1>3, <2>1, RemoteOrder
<1>4. CASE process_stream_frame
  <2>1. PICK m \in down : /\ m.kind = "frame"
                          /\ IF known THEN BackendMessage(m.frame)
                             ELSE up' = up \cup {Close("error")} /\ UNCHANGED <<s, b>>
    BY <1>4 DEF process_stream_frame
  <2>2. CASE known
    <3>1. PICK f, t : f = m.frame /\ t = [s EXCEPT !.confirmed = TRUE]
      OBVIOUS
    <3>2. f \in Nat
      BY <2>1, <3>1, StreamTyped, Messages
    <3>3. IF Stalled(t)
            THEN LET u == [t EXCEPT !.read_stopped = TRUE, !.status = "error"]
                 IN  /\ b' = IF u.place = "local" /\ Registered(b) THEN Cancelled(b) ELSE b
                     /\ IF u.dead \/ u.finishing
                          THEN s' = u /\ up' = up
                          ELSE /\ s' = TryFinish([u EXCEPT !.status = "error", !.read_stopped = TRUE])
                               /\ up' = IF u.place = "remote" THEN up \cup {Close("error")} ELSE up
            ELSE s' = QueueWrite(t, f) /\ UNCHANGED <<b, up>>
      BY <2>1, <2>2, <3>1 DEF BackendMessage, Teardown
    <3> QED BY <1>1, <1>2, <2>2, <3>1, <3>2, <3>3, BackendMessageOrder
  <2>3. CASE ~known
    BY <1>3, <2>1, <2>3
  <2> QED BY <2>2, <2>3
<1>5. CASE process_stream_close
  <2>1. PICK m \in down : m.kind = "close" /\ s' = BackendClosed(s, m.status)
    BY <1>5 DEF process_stream_close
  <2>2. PICK st \in Statuses : st = m.status
    BY <2>1, StreamTyped, Messages
  <2>3. \/ s' = s
        \/ s'.dead = s.dead /\ ~s.dead /\ s'.place = s.place /\ Waits(s')
    BY <2>1, <2>2, ClosedEffect
  <2>4. CASE s' # s
    <3>1. Told' /\ Waits(s')
      BY <1>1, <2>3, <2>4 DEF Orderly, Told
    <3> QED BY <1>2, <2>3, <2>4, <3>1, RemoteOrder
  <2> QED BY <1>3, <2>4
<1>6. CASE process_stream_open \/ process_stream_frame_origin \/ process_stream_close_origin
           \/ handle_stream_open_refused \/ Lose
  <2>1. s' = s
    BY <1>6 DEF process_stream_open, process_stream_frame_origin, process_stream_close_origin,
                handle_stream_open_refused, Lose
  <2> QED BY <1>3, <2>1
<1> QED BY <1>4, <1>5, <1>6 DEF Wire

\* What client and backend program do.
LEMMA ProgramOrder == IInv /\ Orderly /\ (ClientActs \/ BackendActs) => Orderly'
<1> SUFFICES ASSUME IInv, Orderly, ClientActs \/ BackendActs PROVE Orderly'
  OBVIOUS
<1>1. CASE ClientActs
  <2>1. UNCHANGED <<s, known, todo, b, up, down, app>>
    BY <1>1 DEF ClientActs
  <2>2. client' = [client EXCEPT !.half = TRUE] \/ client' = [client EXCEPT !.cancelled = TRUE]
    BY <1>1 DEF ClientActs
  <2>3. /\ client'.sent = client.sent /\ client'.got = client.got
        /\ client'.status = client.status /\ (client.cancelled => client'.cancelled)
    BY <2>2, StreamTyped
  <2> QED BY <2>1, <2>3, SameOrder
<1>2. CASE BackendActs
  <2>1. UNCHANGED <<s, known, todo, b, up, down, client>> /\ b.at = "open"
    BY <1>2 DEF BackendActs
  <2>2. PICK st \in Statuses : app' = [app EXCEPT !.ended = st]
    BY <1>2 DEF BackendActs
  <2>3. app'.sent = app.sent /\ app'.got = app.got /\ app'.ended # "none"
    BY <2>2, StreamTyped DEF Statuses
  <2>4. s.place # "none"
    BY <2>1 DEF Orderly, Unplaced, Fresh
  <2>5. s.place = "local" => Called' /\ RequestsFlow'
    BY <2>1, <2>3 DEF Orderly, Placed, Called, RequestsFlow
  <2> QED BY <2>1, <2>3, <2>4, <2>5, CallOrder
<1> QED BY <1>1, <1>2

LEMMA NextOrderly == IInv /\ Orderly /\ [Next]_vars => Orderly'
<1> SUFFICES ASSUME IInv, Orderly, [Next]_vars PROVE Orderly'
  OBVIOUS
<1>1. CASE UNCHANGED vars
  <2>1. UNCHANGED <<s, known, todo, b, up, down, client, app>>
    BY <1>1 DEF vars
  <2> QED BY <2>1, SameOrder
<1>2. CASE Pump
  BY <1>2, ReadOrder, WriteOrder, FinishOrder, AlarmOrder, ForwardOrder DEF Pump
<1>3. CASE BackendPump
  BY <1>3, PumpOrder, FinishedOrder DEF BackendPump
<1>4. CASE Wire \/ handle_stream_open_refused \/ Lose
  BY <1>4, WireOrder
<1>5. CASE generic_on_new_call \/ AlarmFires \/ backend_read
  BY <1>5, NewCallOrder, AlarmOrder, BackendReadOrder
<1>6. CASE ClientActs \/ BackendActs
  BY <1>6, ProgramOrder
<1>7. CASE sweep_dead \/ sweep_idle \/ sweep_unconfirmed
  BY <1>7, SweepOrder
<1> QED BY <1>1, <1>2, <1>3, <1>4, <1>5, <1>6, <1>7 DEF Next

LEMMA OrderIsKept == Spec => []Orderly
<1>1. Init => Orderly
  BY InitOrderly
<1>2. IInv /\ Orderly /\ [Next]_vars => Orderly'
  BY NextOrderly
<1> QED BY <1>1, <1>2, Inductive, PTL DEF Spec

\* Through a proxied call to a backend of the same leaf the backend gets the client's
\* frames in their order, each once, and its WritesDone only after the last of them;
\* the client gets the backend's in theirs while the call is not cancelled; and when
\* ingress_try_finish has told the client OK, the client has got them all. This for
\* every number of frames and every size of the two queues, whatever the pump, the
\* alarm, the sweeper, the backend's thread and a client that goes away do in between.
THEOREM LocalOrder == Spec => []LocalInOrder
<1>1. IInv /\ Orderly => LocalInOrder
  <2> SUFFICES ASSUME IInv, Orderly, s.place = "local" PROVE LocalInOrder
    BY DEF LocalInOrder
  <2>1. Placed
    BY DEF Orderly
  <2>2. PICK g, n, h, m : g = app.got /\ n = client.sent /\ h = client.got /\ m = app.sent
    OBVIOUS
  <2>3. g \in Nat /\ n \in Nat /\ h \in Nat /\ m \in Nat /\ MaxFrames \in Nat
    BY <2>2, StreamTyped, StreamConstants
  <2>4. g <= n /\ n + m <= MaxFrames
    BY <2>1, <2>2 DEF Placed, RequestsFlow, Quiet
  <2>5. app.got # Mixed
    BY <2>2, <2>3, <2>4 DEF Mixed
  <2>6. client.got # Mixed \/ b.cancelled
    <3>1. b.cancelled \/ h <= m
      BY <2>1, <2>2 DEF Placed, AnswersFlow
    <3> QED BY <2>2, <2>3, <2>4, <3>1 DEF Mixed
  <2>7. b.writes_done /\ app.ended = "none" => app.got = client.sent \/ b.cancelled
    <3> SUFFICES ASSUME b.writes_done, app.ended = "none", ~b.cancelled PROVE g = n
      BY <2>2
    <3>1. b.at \in {"starting", "open"} /\ b \in Backend
      BY <2>1, StreamTyped DEF Placed, Called, Backend
    <3>2. InFlight(b, g, todo, n)
      BY <2>1, <2>2, <3>1 DEF Placed, RequestsFlow
    <3>3. todo = <<>> /\ b.queue = <<>> /\ b.writing = 0
      BY DEF IInv, Local, Requests
    <3>4. PICK c : c = b
      OBVIOUS
    <3>5. c \in Backend /\ InFlight(c, g, <<>>, n) /\ c.queue = <<>> /\ c.writing = 0
      BY <3>1, <3>2, <3>3, <3>4
    <3> QED BY <2>3, <3>5, AllTaken
  <2>8. client.status = "ok" => client.got = app.sent
    <3> SUFFICES ASSUME client.status = "ok" PROVE h = m
      BY <2>2
    <3>1. s.dead /\ s.status = "ok" /\ s.finishing
      BY DEF Orderly, Told, IInv, Settled
    <3>2. s.writes = 0 /\ s.write_queue = <<>> /\ ~b.cancelled
      BY <2>1, <3>1 DEF IInv, Settled, Placed, Closed, Closing
    <3>3. Answers(s, h, m)
      BY <2>1, <2>2, <3>1, <3>2 DEF Placed, AnswersFlow
    <3> QED BY <2>3, <3>2, <3>3 DEF Answers
  <2> QED BY <2>5, <2>6, <2>7, <2>8 DEF LocalInOrder
<1> QED BY <1>1, Inductive, OrderIsKept, PTL

=============================================================================
