--------------------------- MODULE TightTransfer ---------------------------
(***************************************************************************)
(* Messages, files and data over Tight: a message is cut into data and     *)
(* parity fragments (fragmenter.cpp) that arrive in any order, more than   *)
(* once or not at all, is put together again from any data_count of them   *)
(* (reassembler.cpp), and is handed to the file channel, the data callback *)
(* or the message callback (transport.cpp).                                *)
(*                                                                         *)
(* Time is kept as flags: loss_wait or dead_timeout has passed since the   *)
(* first fragment (m_first_seen), dead_timeout since the message was       *)
(* completed.  The network and the sender's retransmissions are done with  *)
(* a packet before dead_timeout (12 report periods against 30 s).          *)
(***************************************************************************)
EXTENDS Naturals, FiniteSets

CONSTANTS MaxMessages,    \* bound: messages sent
          MaxFiles,       \* bound: calls of send_file
          MaxChunks,      \* bound: chunks of a file
          DataCounts,     \* bound: numbers of data fragments of a message
          ParityCounts    \* bound: numbers of parity fragments

ASSUME TransferConstants ==
    /\ MaxMessages \in Nat /\ MaxFiles \in Nat /\ MaxChunks \in Nat
    /\ DataCounts \subseteq Nat \ {0} /\ ParityCounts \subseteq Nat

VARIABLES
    sent,         \* message_id -> what it is and how it was cut
    file_id_out,  \* m_file_id_out
    sending,      \* the send_file calls under way: file -> next part
    sizes,        \* chunk_count of every file
    underway,     \* messages whose packets may still arrive
    incoming,     \* receiver: m_incoming
    completed,    \* receiver: m_completed, TRUE once dead_timeout has passed
    files,        \* receiver: m_files, file -> chunks it has
    delivered,    \* how often each message was handed to deliver_message
    lost,         \* messages the loss callback was called for
    fired         \* how often each file was given to the file callback

senderVars == <<sent, file_id_out, sending, sizes>>
received   == <<delivered, lost, fired, files>>
vars == <<senderVars, underway, incoming, completed, received>>

Messages  == 1 .. MaxMessages
FileIds   == 1 .. MaxFiles
Kinds     == {"manifest", "chunk", "data"}
Empty     == [x \in {} |-> 0]

TypeOK ==
    /\ DOMAIN sent \subseteq Messages
    /\ sent \in [DOMAIN sent -> [kind : Kinds, file : {0} \cup FileIds, idx : 0 .. MaxChunks,
                                 data : DataCounts, parity : ParityCounts]]
    /\ file_id_out \in Nat
    /\ DOMAIN sizes = 1 .. file_id_out
    /\ DOMAIN sending \subseteq DOMAIN sizes
    /\ \A f \in DOMAIN sending : sending[f] \in 0 .. sizes[f]
    /\ underway \subseteq DOMAIN sent
    /\ DOMAIN incoming \subseteq DOMAIN sent
    /\ incoming \in [DOMAIN incoming -> [have : SUBSET Nat,
                                         waited : {"no", "loss", "dead"}]]
    /\ DOMAIN completed \subseteq DOMAIN sent \ DOMAIN incoming
    /\ completed \in [DOMAIN completed -> BOOLEAN]
    /\ DOMAIN files \subseteq DOMAIN sizes
    /\ \A f \in DOMAIN files : files[f] \subseteq 1 .. sizes[f] /\ files[f] # 1 .. sizes[f]
    /\ delivered \in [Messages -> Nat]
    /\ lost \subseteq DOMAIN sent
    /\ fired \in [FileIds -> Nat]

Init ==
    /\ sent = Empty /\ file_id_out = 0 /\ sending = Empty /\ sizes = Empty
    /\ underway = {} /\ incoming = Empty /\ completed = Empty /\ files = Empty
    /\ delivered = [m \in Messages |-> 0]
    /\ lost = {}
    /\ fired = [f \in FileIds |-> 0]

\* The function f without the arguments in S, and with x mapped to v.
Without(f, S) == [x \in DOMAIN f \ S |-> f[x]]
With(f, x, v) == [y \in DOMAIN f \cup {x} |-> IF y = x THEN v ELSE f[y]]
-----------------------------------------------------------------------------
(* Sending endpoint *)

\* fragment_and_send: the next message_id, data_count fragments, and as many
\* parity fragments as the redundancy of the moment asks for, never more than
\* data_count.
fragment_and_send(kind, f, i) ==
    LET m == Cardinality(DOMAIN sent) + 1
    IN  /\ m \in Messages
        /\ \E d \in DataCounts, p \in ParityCounts :
              /\ p <= d
              /\ sent' = With(sent, m, [kind |-> kind, file |-> f, idx |-> i,
                                        data |-> d, parity |-> p])
        /\ underway' = underway \cup {m}

\* send_data (and send of an ordinary message).
send_data ==
    /\ fragment_and_send("data", 0, 0)
    /\ UNCHANGED <<file_id_out, sending, sizes, incoming, completed, received>>

\* send_file begins: a new file_id for n chunks.
send_file(n) ==
    /\ file_id_out < MaxFiles
    /\ file_id_out' = file_id_out + 1
    /\ sizes' = With(sizes, file_id_out', n)
    /\ sending' = With(sending, file_id_out', 0)
    /\ UNCHANGED <<sent, underway, incoming, completed, received>>

\* send_file's loop: the manifest (part 0), then the chunks.
send_part(f) ==
    /\ f \in DOMAIN sending
    /\ fragment_and_send(IF sending[f] = 0 THEN "manifest" ELSE "chunk", f, sending[f])
    /\ sending' = IF sending[f] = sizes[f] THEN Without(sending, {f})
                  ELSE [sending EXCEPT ![f] = @ + 1]
    /\ UNCHANGED <<file_id_out, sizes, incoming, completed, received>>

\* send_message refuses a part (back pressure): send_file returns false.
send_part_refused(f) ==
    /\ f \in DOMAIN sending
    /\ sending' = Without(sending, {f})
    /\ UNCHANGED <<sent, file_id_out, sizes, underway, incoming, completed, received>>
-----------------------------------------------------------------------------
(* Receiving endpoint, receiver thread *)

\* The data fragments of m that are not among h.
MissingData(m, h) == sent[m].data - Cardinality(h \cap 0 .. sent[m].data - 1)

\* try_assemble: the data is complete, or the parity fragments that came
\* restore what is missing (ReedSolomon::decode).
Recoverable(m, h) ==
    MissingData(m, h) <= Cardinality(h \ (0 .. sent[m].data - 1))

\* try_assemble: more is missing than parity can restore, and loss_wait has
\* passed since the first fragment.
Hopeless(m, h, waited) == MissingData(m, h) > sent[m].parity /\ waited # "no"

\* handle_file_manifest: a fresh context for the file.
handle_file_manifest(m) ==
    /\ sent[m].kind = "manifest"
    /\ files' = With(files, sent[m].file, {})
    /\ UNCHANGED fired

\* Mutant: a chunk counts although it is the last but one.
handle_file_chunk_early(m) ==
    LET f == sent[m].file
        i == sent[m].idx
    IN  /\ sent[m].kind = "chunk"
        /\ IF f \notin DOMAIN files \/ i > sizes[f] THEN UNCHANGED <<files, fired>>
           ELSE IF Cardinality(files[f] \cup {i}) >= sizes[f] - 1
           THEN /\ files' = Without(files, {f})
                /\ fired' = [fired EXCEPT ![f] = @ + 1]
           ELSE /\ files' = [files EXCEPT ![f] = @ \cup {i}]
                /\ UNCHANGED fired

\* handle_file_chunk: dropped when the manifest has not come, or as a copy;
\* the last chunk completes the file.
handle_file_chunk(m) ==
    LET f == sent[m].file
        i == sent[m].idx
    IN  /\ sent[m].kind = "chunk"
        /\ IF f \notin DOMAIN files \/ i \in files[f] THEN UNCHANGED <<files, fired>>
           ELSE IF files[f] \cup {i} = 1 .. sizes[f]
           THEN /\ files' = Without(files, {f})
                /\ fired' = [fired EXCEPT ![f] = @ + 1]
           ELSE /\ files' = [files EXCEPT ![f] = @ \cup {i}]
                /\ UNCHANGED fired

\* deliver_message: by the tag in the first byte.
deliver_message(m) ==
    /\ delivered' = [delivered EXCEPT ![m] = @ + 1]
    /\ \/ handle_file_manifest(m)
       \/ handle_file_chunk(m)
       \/ sent[m].kind = "data" /\ UNCHANGED <<files, fired>>
    /\ UNCHANGED lost

\* The entry of m goes, and later fragments of m are dropped.
Finish(m) ==
    /\ completed' = With(completed, m, FALSE)
    /\ incoming' = Without(incoming, {m})

\* Mutant: fragments of a finished message start it again.
Stale(m) == FALSE

\* Reassembler::handle_data: fragments of a finished message are dropped.
Duplicate(m) == m \in DOMAIN completed

\* handle_data with Reassembler::handle_data and try_assemble, for fragment i
\* of message m.
handle_data(m, i) ==
    LET waited == IF m \in DOMAIN incoming THEN incoming[m].waited ELSE "no"
        h      == (IF m \in DOMAIN incoming THEN incoming[m].have ELSE {}) \cup {i}
    IN  /\ m \in underway
        /\ ~Duplicate(m)
        /\ \/ Recoverable(m, h) /\ deliver_message(m) /\ Finish(m)
           \/ /\ ~Recoverable(m, h) /\ Hopeless(m, h, waited)
              /\ lost' = lost \cup {m}
              /\ Finish(m)
              /\ UNCHANGED <<delivered, fired, files>>
           \/ /\ ~Recoverable(m, h) /\ ~Hopeless(m, h, waited)
              /\ incoming' = With(incoming, m, [have |-> h, waited |-> waited])
              /\ UNCHANGED <<completed, received>>
        /\ UNCHANGED <<senderVars, underway>>
-----------------------------------------------------------------------------
(* Reactor thread and time *)

\* Mutant: only what was completed is dropped.
DeadIncomingNone == {}

DeadIncoming  == {m \in DOMAIN incoming : incoming[m].waited = "dead"}
DeadCompleted == {m \in DOMAIN completed : completed[m]}

\* check_offline drops what is older than dead_timeout, and tells nobody.
check_offline ==
    /\ DeadIncoming \cup DeadCompleted # {}
    /\ incoming' = Without(incoming, DeadIncoming)
    /\ completed' = Without(completed, DeadCompleted)
    /\ UNCHANGED <<senderVars, underway, received>>

\* loss_wait passes for a message.
LossWait(m) ==
    /\ m \in DOMAIN incoming /\ incoming[m].waited = "no"
    /\ incoming' = [incoming EXCEPT ![m].waited = "loss"]
    /\ UNCHANGED <<senderVars, underway, completed, received>>

\* dead_timeout passes for a message whose packets are gone.
DeadTimeout(m) ==
    /\ m \notin underway
    /\ \/ /\ m \in DOMAIN incoming /\ incoming[m].waited = "loss"
          /\ incoming' = [incoming EXCEPT ![m].waited = "dead"]
          /\ UNCHANGED completed
       \/ /\ m \in DOMAIN completed /\ ~completed[m]
          /\ completed' = [completed EXCEPT ![m] = TRUE]
          /\ UNCHANGED incoming
    /\ UNCHANGED <<senderVars, underway, received>>

\* The network has lost or delivered the last packet of the message, and the
\* sender does not send it again.
Vanish(m) ==
    /\ m \in underway
    /\ underway' = underway \ {m}
    /\ UNCHANGED <<senderVars, incoming, completed, received>>
-----------------------------------------------------------------------------
Next ==
    \/ send_data
    \/ \E n \in 1 .. MaxChunks : send_file(n)
    \/ \E f \in DOMAIN sending : send_part(f) \/ send_part_refused(f)
    \/ \E m \in DOMAIN sent :
          \/ \E i \in 0 .. sent[m].data + sent[m].parity - 1 : handle_data(m, i)
          \/ LossWait(m) \/ DeadTimeout(m) \/ Vanish(m)
    \/ check_offline

Spec == Init /\ [][Next]_vars

\* Time passes and the reactor beats.
FairSpec ==
    /\ Spec
    /\ WF_vars(check_offline)
    /\ \A m \in Messages : WF_vars(m \in DOMAIN sent /\ (LossWait(m) \/ DeadTimeout(m) \/ Vanish(m)))
-----------------------------------------------------------------------------
(* Properties *)

\* A message is handed over at most once and a file is completed at most
\* once, although fragments come in copies, before and after the message is
\* finished, and m_completed forgets (tight.hpp: delivered only once).  A
\* message reported lost is not delivered, before or after, and nothing that
\* could be restored is left in m_incoming.
HandedOnce ==
    /\ TypeOK
    /\ \A m \in Messages : delivered[m] <= 1
    /\ \A f \in FileIds : fired[f] <= 1
    /\ \A m \in lost : delivered[m] = 0
    /\ \A m \in DOMAIN incoming : Cardinality(incoming[m].have) < sent[m].data

\* A file is completed only from its manifest and every one of its chunks,
\* also when send_file was refused half way.
FiredWhole ==
    \A f \in FileIds : fired[f] > 0 =>
        \A i \in 0 .. sizes[f] :
            \E m \in DOMAIN sent : sent[m].file = f /\ sent[m].idx = i /\ delivered[m] > 0

\* No half-received message is kept for ever.
IncomingIsSettled ==
    \A m \in Messages : (m \in DOMAIN incoming) ~> (m \notin DOMAIN incoming)

\* A file all of whose parts were put together is given to the application
\* (tight.hpp: the block-level retransmission guarantees complete arrival;
\* usage.md: reordering loses no message).
FileArrives ==
    \A f \in FileIds :
        (/\ f \in DOMAIN sizes
         /\ \A i \in 0 .. sizes[f] :
              \E m \in DOMAIN sent : sent[m].file = f /\ sent[m].idx = i /\ delivered[m] > 0)
            => fired[f] > 0
=============================================================================
