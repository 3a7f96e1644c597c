------------------------ MODULE TightTransfer_proofs ------------------------
(***************************************************************************)
(* Proofs about TightTransfer, for any number of messages, files, chunks,  *)
(* data and parity fragments: every message is handed over at most once    *)
(* and every file completed at most once, and from all of its parts.       *)
(***************************************************************************)
EXTENDS TightTransfer, TLAPS, FiniteSetTheorems

\* Message ids are given out one after the other; a file has at least a chunk.
Numbered ==
    /\ \E n \in 0 .. MaxMessages : DOMAIN sent = 1 .. n
    /\ file_id_out <= MaxFiles
    /\ sizes \in [1 .. file_id_out -> 1 .. MaxChunks]

\* What was sent of a file: its manifest is part 0, its chunks have their numbers, every
\* part was sent once, and none that is still to come.
IsPart(m) ==
    /\ sent[m].kind # "data" => sent[m].file \in DOMAIN sizes
    /\ sent[m].kind = "manifest" => sent[m].idx = 0
    /\ sent[m].kind = "chunk" => sent[m].idx \in 1 .. sizes[sent[m].file]
    /\ sent[m].kind = "data" => sent[m].file = 0

Parts ==
    /\ \A m \in DOMAIN sent : IsPart(m)
    /\ \A m \in DOMAIN sent : sent[m].file \in DOMAIN sending => sent[m].idx < sending[sent[m].file]
    /\ \A m, n \in DOMAIN sent :
         /\ sent[m].file # 0 /\ sent[m].file = sent[n].file /\ sent[m].idx = sent[n].idx
         => m = n

\* m_incoming has fragments of the message, fewer than would restore it.
Fragments ==
    \A m \in DOMAIN incoming :
       /\ incoming[m].have \subseteq 0 .. sent[m].data + sent[m].parity - 1
       /\ Cardinality(incoming[m].have) < sent[m].data

\* m_completed remembers what is finished for as long as packets of it may come.
Finished ==
    /\ \A m \in DOMAIN completed : completed[m] => m \notin underway
    /\ \A m \in underway : delivered[m] > 0 \/ m \in lost => m \in DOMAIN completed
    /\ \A m \in Messages \ DOMAIN sent : delivered[m] = 0
    /\ \A m \in Messages : delivered[m] <= 1
    /\ \A m \in lost : delivered[m] = 0

\* Part i of file f was handed over.
HasPart(f, i) == \E m \in DOMAIN sent : sent[m].file = f /\ sent[m].idx = i /\ delivered[m] > 0

\* A file in progress has its manifest and the chunks it lists; one that was completed
\* has all of them, and is not in progress again.
Progress ==
    /\ \A f \in DOMAIN files : HasPart(f, 0) /\ \A i \in files[f] : HasPart(f, i)
    /\ \A f \in FileIds : fired[f] > 0 =>
         fired[f] = 1 /\ f \in DOMAIN sizes /\ f \notin DOMAIN files
         /\ \A i \in 0 .. sizes[f] : HasPart(f, i)

\* The inductive invariant.
IInv == TypeOK /\ Numbered /\ Parts /\ Fragments /\ Finished /\ Progress

\* What fragment_and_send makes of a message.
SentRecord == [kind : Kinds, file : {0} \cup FileIds, idx : 0 .. MaxChunks,
               data : DataCounts, parity : ParityCounts]
-----------------------------------------------------------------------------
(* Lemmas *)

\* What With does to a function.
LEMMA WithValues ==
    ASSUME NEW f, NEW x, NEW v
    PROVE  /\ DOMAIN With(f, x, v) = DOMAIN f \cup {x}
           /\ With(f, x, v)[x] = v
           /\ \A y \in DOMAIN f : y # x => With(f, x, v)[y] = f[y]
  BY DEF With

\* What Without does to a function.
LEMMA WithoutValues ==
    ASSUME NEW f, NEW S
    PROVE  /\ DOMAIN Without(f, S) = DOMAIN f \ S
           /\ \A y \in DOMAIN f \ S : Without(f, S)[y] = f[y]
  BY DEF Without

\* fragment_and_send sends a message that was not sent before.
LEMMA NextMessage ==
    ASSUME Numbered
    PROVE  \E n \in Nat : DOMAIN sent = 1 .. n /\ Cardinality(DOMAIN sent) + 1 = n + 1
<1>1. PICK n \in 0 .. MaxMessages : DOMAIN sent = 1 .. n
  BY DEF Numbered
<1>2. n \in Nat /\ Cardinality(1 .. n) = n
  BY FS_Interval, TransferConstants
<1>3. QED
  BY <1>1, <1>2

\* Fewer fragments than data_count came when the message cannot be restored.
LEMMA NotRecoverable ==
    ASSUME NEW m, sent[m].data \in Nat, NEW h, IsFiniteSet(h), ~Recoverable(m, h)
    PROVE  Cardinality(h) < sent[m].data
<1> DEFINE D == 0 .. sent[m].data - 1
<1>1. Cardinality(h \ D) = Cardinality(h) - Cardinality(h \cap D)
  BY FS_Difference
<1>2. IsFiniteSet(h \cap D) /\ IsFiniteSet(h \ D)
  BY FS_Difference, FS_Intersection
<1>3. Cardinality(h) \in Nat /\ Cardinality(h \cap D) \in Nat /\ Cardinality(h \ D) \in Nat
  BY <1>2, FS_CardinalityType
<1>4. ~(sent[m].data - Cardinality(h \cap D) <= Cardinality(h \ D))
  BY DEF Recoverable, MissingData
<1> HIDE DEF D
<1>5. QED
  BY <1>1, <1>3, <1>4
-----------------------------------------------------------------------------
(* The sending endpoint *)

\* A message sent in its turn: an ordinary one, or the next part of a file.
LEMMA SendPreserves ==
    ASSUME IInv, NEW m \in Messages, NEW r \in SentRecord,
           DOMAIN sent = 1 .. m - 1,
           sent' = With(sent, m, r),
           underway' = underway \cup {m},
           UNCHANGED <<file_id_out, sizes, incoming, completed, received>>,
           DOMAIN sending' \subseteq DOMAIN sending,
           \A g \in DOMAIN sending' : sending'[g] \in 0 .. sizes[g] /\ sending'[g] >= sending[g],
           r.kind = "data" => r.file = 0,
           r.kind # "data" =>
              /\ r.file \in DOMAIN sending /\ r.idx = sending[r.file]
              /\ r.idx = 0 <=> r.kind = "manifest"
              /\ r.file \in DOMAIN sending' => sending'[r.file] > sending[r.file]
    PROVE  IInv'
<1> USE TransferConstants
<1>1. m \in Nat /\ m \notin DOMAIN sent
  BY DEF Messages
<1>2. /\ DOMAIN sent' = DOMAIN sent \cup {m} /\ sent'[m] = r
      /\ \A k \in DOMAIN sent : sent'[k] = sent[k]
  BY <1>1 DEF With
<1>3. DOMAIN sent' = 1 .. m
  BY <1>1, <1>2 DEF Messages
<1>4. sent' \in [DOMAIN sent' -> SentRecord]
  BY <1>2 DEF IInv, TypeOK, SentRecord, With
<1>5. /\ r.kind \in Kinds /\ r.file \in {0} \cup FileIds /\ r.idx \in 0 .. MaxChunks
      /\ r.data \in DataCounts /\ r.parity \in ParityCounts
  BY DEF SentRecord
<1>6. TypeOK'
  <2>1. /\ DOMAIN sent' \subseteq Messages
        /\ sent' \in [DOMAIN sent' -> [kind : Kinds, file : {0} \cup FileIds, idx : 0 .. MaxChunks,
                                       data : DataCounts, parity : ParityCounts]]
        /\ file_id_out' \in Nat
        /\ DOMAIN sizes' = 1 .. file_id_out'
    BY <1>2, <1>4 DEF IInv, TypeOK, SentRecord
  <2>2. /\ DOMAIN sending' \subseteq DOMAIN sizes'
        /\ \A f \in DOMAIN sending' : sending'[f] \in 0 .. sizes'[f]
        /\ underway' \subseteq DOMAIN sent'
    BY <1>2 DEF IInv, TypeOK
  <2>3. /\ DOMAIN incoming' \subseteq DOMAIN sent'
        /\ incoming' \in [DOMAIN incoming' -> [have : SUBSET Nat, waited : {"no", "loss", "dead"}]]
        /\ DOMAIN completed' \subseteq DOMAIN sent' \ DOMAIN incoming'
        /\ completed' \in [DOMAIN completed' -> BOOLEAN]
    BY <1>2 DEF IInv, TypeOK
  <2>4. /\ DOMAIN files' \subseteq DOMAIN sizes'
        /\ \A f \in DOMAIN files' : files'[f] \subseteq 1 .. sizes'[f] /\ files'[f] # 1 .. sizes'[f]
        /\ delivered' \in [Messages -> Nat]
        /\ lost' \subseteq DOMAIN sent'
        /\ fired' \in [FileIds -> Nat]
    BY <1>2 DEF IInv, TypeOK, received
  <2>5. QED
    BY <2>1, <2>2, <2>3, <2>4 DEF TypeOK
<1>7. Numbered'
  BY <1>3 DEF IInv, Numbered, Messages
<1>8. Parts'
  <2>1. \A k \in DOMAIN sent : sent[k] \in SentRecord
    BY DEF IInv, TypeOK, SentRecord
  <2>2. \A g \in DOMAIN sizes : g # 0 /\ g \in 1 .. file_id_out /\ sizes[g] \in 1 .. MaxChunks
    BY DEF IInv, Numbered, TypeOK
  <2>3. \A k \in DOMAIN sent' : IsPart(k)'
    <3>1. ASSUME NEW k \in DOMAIN sent PROVE IsPart(k)'
      BY <1>2 DEF IInv, Parts, IsPart
    <3>2. IsPart(m)'
      BY <1>2, <1>5, <2>2 DEF IInv, TypeOK, IsPart, Kinds
    <3>3. QED
      BY <3>1, <3>2, <1>2
  <2>4. \A g \in DOMAIN sending : g # 0 /\ sending[g] \in Nat
    BY <2>2 DEF IInv, TypeOK
  <2>5. \A g \in DOMAIN sending' : g \in DOMAIN sending /\ sending'[g] \in Nat
    BY <2>4, <2>2
  <2>6. ASSUME NEW k \in DOMAIN sent', sent'[k].file \in DOMAIN sending'
        PROVE  sent'[k].idx < sending'[sent'[k].file]
    <3>1. CASE k = m
      BY <3>1, <1>2, <1>5, <2>4, <2>5, <2>6
    <3>2. CASE k \in DOMAIN sent
      <4>1. sent[k].idx < sending[sent[k].file] /\ sent[k].idx \in Nat
        BY <3>2, <2>6, <1>2, <2>1 DEF IInv, Parts, SentRecord
      <4>2. QED
        BY <4>1, <3>2, <2>6, <1>2, <2>4, <2>5
    <3>3. QED
      BY <3>1, <3>2, <1>2
  <2>7. ASSUME NEW k \in DOMAIN sent, r.file # 0, sent[k].file = r.file, sent[k].idx = r.idx
        PROVE  FALSE
    <3>1. r.kind # "data" /\ r.file \in DOMAIN sending /\ r.idx = sending[r.file]
      BY <2>7
    <3>2. sent[k].idx < sending[sent[k].file]
      BY <3>1, <2>7 DEF IInv, Parts
    <3>3. QED
      BY <3>1, <3>2, <2>4, <2>7
  <2>8. ASSUME NEW k \in DOMAIN sent', NEW n \in DOMAIN sent',
               sent'[k].file # 0, sent'[k].file = sent'[n].file, sent'[k].idx = sent'[n].idx
        PROVE  k = n
    BY <1>2, <2>7, <2>8 DEF IInv, Parts
  <2>9. QED
    BY <2>3, <2>6, <2>8 DEF Parts
<1>9. Fragments'
  BY <1>2 DEF IInv, Fragments, TypeOK
<1>10. delivered[m] = 0 /\ m \notin lost
  BY <1>1 DEF IInv, Finished, TypeOK
<1>11. Finished'
  BY <1>1, <1>2, <1>10 DEF IInv, Finished, TypeOK, received
<1>12. \A f, i : HasPart(f, i) => HasPart(f, i)'
  BY <1>2 DEF HasPart, received
<1>13. Progress'
  BY <1>12 DEF IInv, Progress, received
<1>14. QED
  BY <1>6, <1>7, <1>8, <1>9, <1>11, <1>13 DEF IInv

\* send_data.
LEMMA SendDataPreserves == IInv /\ send_data => IInv'
<1> SUFFICES ASSUME IInv, send_data PROVE IInv'
  OBVIOUS
<1>1. PICK m \in Messages, r \in SentRecord :
         /\ DOMAIN sent = 1 .. m - 1
         /\ r.kind = "data" /\ r.file = 0 /\ r.idx = 0
         /\ sent' = With(sent, m, r)
         /\ underway' = underway \cup {m}
  <2>1. "data" \in Kinds /\ 0 \in {0} \cup FileIds /\ 0 \in 0 .. MaxChunks
    BY TransferConstants DEF Kinds
  <2>2. fragment_and_send("data", 0, 0) /\ Numbered
    BY DEF send_data, IInv
  <2>3. PICK n \in Nat : DOMAIN sent = 1 .. n /\ Cardinality(DOMAIN sent) + 1 = n + 1
    BY <2>2, NextMessage
  <2>4. n + 1 \in Messages /\ underway' = underway \cup {n + 1} /\ n + 1 - 1 = n
    BY <2>2, <2>3 DEF fragment_and_send
  <2>5. PICK d \in DataCounts, p \in ParityCounts :
           sent' = With(sent, n + 1, [kind |-> "data", file |-> 0, idx |-> 0, data |-> d, parity |-> p])
    BY <2>2, <2>3 DEF fragment_and_send
  <2> DEFINE r == [kind |-> "data", file |-> 0, idx |-> 0, data |-> d, parity |-> p]
  <2>6. r \in SentRecord /\ r.kind = "data" /\ r.file = 0 /\ r.idx = 0
    BY <2>1 DEF SentRecord
  <2>7. sent' = With(sent, n + 1, r)
    BY <2>5
  <2> HIDE DEF r
  <2>8. QED
    BY <2>1, <2>3, <2>4, <2>6, <2>7
<1>2. /\ DOMAIN sending' \subseteq DOMAIN sending
      /\ \A g \in DOMAIN sending' : sending'[g] \in 0 .. sizes[g] /\ sending'[g] >= sending[g]
  <2>1. \A g \in DOMAIN sending : g \in DOMAIN sizes /\ sizes[g] \in Nat
    BY TransferConstants DEF IInv, TypeOK, Numbered
  <2>2. QED
    BY <2>1 DEF send_data, IInv, TypeOK
<1>3. UNCHANGED <<file_id_out, sizes, incoming, completed, received>>
  BY DEF send_data
<1>4. QED
  BY <1>1, <1>2, <1>3, SendPreserves

\* send_file.
LEMMA SendFilePreserves ==
    ASSUME IInv, NEW n \in 1 .. MaxChunks, send_file(n)
    PROVE  IInv'
<1> USE TransferConstants
<1> DEFINE f == file_id_out + 1
<1>1. /\ file_id_out \in Nat /\ file_id_out < MaxFiles /\ DOMAIN sizes = 1 .. file_id_out
      /\ file_id_out' = f /\ sizes' = With(sizes, f, n) /\ sending' = With(sending, f, 0)
  BY DEF send_file, IInv, TypeOK
<1>2. UNCHANGED <<sent, underway, incoming, completed, received>>
  BY DEF send_file
<1>3. f \in Nat /\ f \notin DOMAIN sizes /\ f \in FileIds
  BY <1>1 DEF FileIds
<1>4. DOMAIN sizes' = 1 .. f /\ sizes' \in [1 .. f -> 1 .. MaxChunks]
  BY <1>1 DEF With, IInv, Numbered
<1>5. sizes'[f] = n /\ \A g \in DOMAIN sizes : sizes'[g] = sizes[g] /\ g \in DOMAIN sizes'
  BY <1>1, <1>3 DEF With
<1>6. /\ DOMAIN sending' = DOMAIN sending \cup {f} /\ sending'[f] = 0
      /\ \A g \in DOMAIN sending : sending'[g] = sending[g]
  BY <1>1, <1>3 DEF With, IInv, TypeOK
<1> HIDE DEF f
<1>7. TypeOK'
  <2>1. /\ DOMAIN sending' \subseteq DOMAIN sizes'
        /\ \A g \in DOMAIN sending' : sending'[g] \in 0 .. sizes'[g]
    <3>1. f \in DOMAIN sizes' /\ 0 \in 0 .. n
      BY <1>3, <1>4 DEF FileIds
    <3>2. \A g \in DOMAIN sending : g \in DOMAIN sizes /\ sending[g] \in 0 .. sizes[g]
      BY DEF IInv, TypeOK
    <3>3. QED
      BY <3>1, <3>2, <1>5, <1>6
  <2>2. /\ DOMAIN files' \subseteq DOMAIN sizes'
        /\ \A g \in DOMAIN files' : files'[g] \subseteq 1 .. sizes'[g] /\ files'[g] # 1 .. sizes'[g]
    BY <1>2, <1>5 DEF IInv, TypeOK, received
  <2>3. QED
    BY <1>1, <1>2, <1>3, <1>4, <2>1, <2>2 DEF IInv, TypeOK, received
<1>8. Numbered'
  <2>1. file_id_out' <= MaxFiles
    BY <1>1, <1>3 DEF FileIds
  <2>2. sizes' \in [1 .. file_id_out' -> 1 .. MaxChunks]
    BY <1>1, <1>4
  <2>3. QED
    BY <1>2, <2>1, <2>2 DEF IInv, Numbered
<1>9. \A m \in DOMAIN sent : sent[m].file # f
  <2> SUFFICES ASSUME NEW m \in DOMAIN sent PROVE sent[m].file # f
    OBVIOUS
  <2>1. sent[m].kind \in Kinds /\ IsPart(m)
    BY DEF IInv, TypeOK, Parts
  <2>2. f # 0
    BY <1>3 DEF FileIds
  <2>3. QED
    BY <2>1, <2>2, <1>3 DEF IsPart
<1>10. Parts'
  <2>1. ASSUME NEW m \in DOMAIN sent' PROVE IsPart(m)'
    BY <1>2, <1>5 DEF IInv, Parts, IsPart, TypeOK, Kinds
  <2>2. ASSUME NEW m \in DOMAIN sent', sent'[m].file \in DOMAIN sending'
        PROVE  sent'[m].idx < sending'[sent'[m].file]
    BY <2>2, <1>2, <1>6, <1>9 DEF IInv, Parts
  <2>3. QED
    BY <2>1, <2>2, <1>2 DEF IInv, Parts
<1>11. Fragments' /\ Finished'
  BY <1>2 DEF IInv, Fragments, Finished, received
<1>12. \A g, i : HasPart(g, i) <=> HasPart(g, i)'
  BY <1>2 DEF HasPart, received
<1>13. Progress'
  BY <1>2, <1>5, <1>12 DEF IInv, Progress, received
<1>14. QED
  BY <1>7, <1>8, <1>10, <1>11, <1>13 DEF IInv

\* send_file's loop.
LEMMA SendPartPreserves ==
    ASSUME IInv, NEW f \in DOMAIN sending, send_part(f)
    PROVE  IInv'
<1> USE TransferConstants
<1> DEFINE kind == IF sending[f] = 0 THEN "manifest" ELSE "chunk"
<1>1. \A g \in DOMAIN sending :
         g \in DOMAIN sizes /\ sizes[g] \in 1 .. MaxChunks /\ sending[g] \in 0 .. sizes[g]
  BY DEF IInv, TypeOK, Numbered
<1>2. f \in FileIds
  BY <1>1 DEF IInv, TypeOK, Numbered, FileIds
<1>3. kind \in Kinds /\ f \in {0} \cup FileIds /\ sending[f] \in 0 .. MaxChunks
  BY <1>1, <1>2 DEF Kinds
<1>4. fragment_and_send(kind, f, sending[f]) /\ Numbered
  BY DEF send_part, IInv
<1>5. PICK m \in Messages, r \in SentRecord :
         /\ DOMAIN sent = 1 .. m - 1
         /\ r.kind = kind /\ r.file = f /\ r.idx = sending[f]
         /\ sent' = With(sent, m, r)
         /\ underway' = underway \cup {m}
  <2>1. PICK k \in Kinds, i \in 0 .. MaxChunks : k = kind /\ i = sending[f]
    BY <1>3
  <2>2. fragment_and_send(k, f, i) /\ Numbered
    BY <1>4, <2>1 DEF fragment_and_send
  <2>3. PICK n \in Nat : DOMAIN sent = 1 .. n /\ Cardinality(DOMAIN sent) + 1 = n + 1
    BY <2>2, NextMessage
  <2>4. n + 1 \in Messages /\ underway' = underway \cup {n + 1} /\ n + 1 - 1 = n
    BY <2>2, <2>3 DEF fragment_and_send
  <2>5. PICK d \in DataCounts, p \in ParityCounts :
           sent' = With(sent, n + 1, [kind |-> k, file |-> f, idx |-> i, data |-> d, parity |-> p])
    BY <2>2, <2>3 DEF fragment_and_send
  <2> DEFINE r == [kind |-> k, file |-> f, idx |-> i, data |-> d, parity |-> p]
  <2>6. r \in SentRecord /\ r.kind = k /\ r.file = f /\ r.idx = i
    BY <1>2 DEF SentRecord
  <2>7. sent' = With(sent, n + 1, r)
    BY <2>5
  <2> HIDE DEF r
  <2>8. QED
    BY <2>1, <2>3, <2>4, <2>6, <2>7
<1>6. UNCHANGED <<file_id_out, sizes, incoming, completed, received>>
  BY DEF send_part
<1>7. /\ DOMAIN sending' \subseteq DOMAIN sending
      /\ \A g \in DOMAIN sending' : sending'[g] \in 0 .. sizes[g] /\ sending'[g] >= sending[g]
      /\ f \in DOMAIN sending' => sending'[f] > sending[f]
  <2>1. CASE sending[f] = sizes[f]
    <3>1. /\ DOMAIN sending' = DOMAIN sending \ {f}
          /\ \A g \in DOMAIN sending' : sending'[g] = sending[g]
      BY <2>1 DEF send_part, Without
    <3>2. QED
      BY <3>1, <1>1
  <2>2. CASE sending[f] # sizes[f]
    <3>1. sending' = [sending EXCEPT ![f] = sending[f] + 1]
      BY <2>2 DEF send_part
    <3>2. DOMAIN sending' = DOMAIN sending /\ sending'[f] = sending[f] + 1
          /\ \A g \in DOMAIN sending : g # f => sending'[g] = sending[g]
      BY <3>1
    <3>3. QED
      BY <3>2, <2>2, <1>1
  <2>3. QED
    BY <2>1, <2>2
<1>8. r.kind # "data" /\ (r.idx = 0 <=> r.kind = "manifest")
  BY <1>5
<1> HIDE DEF kind
<1>9. QED
  BY <1>5, <1>6, <1>7, <1>8, SendPreserves

\* send_message refuses a part.
LEMMA RefusedPreserves ==
    ASSUME IInv, NEW f \in DOMAIN sending, send_part_refused(f)
    PROVE  IInv'
<1>1. UNCHANGED <<sent, file_id_out, sizes, underway, incoming, completed, received>>
  BY DEF send_part_refused
<1>2. /\ DOMAIN sending' = DOMAIN sending \ {f}
      /\ \A g \in DOMAIN sending' : sending'[g] = sending[g]
  BY DEF send_part_refused, Without
<1>3. TypeOK'
  BY <1>1, <1>2 DEF IInv, TypeOK, received
<1>4. Numbered' /\ Fragments' /\ Finished'
  BY <1>1 DEF IInv, Numbered, Fragments, Finished, received
<1>5. Parts'
  <2>1. \A m \in DOMAIN sent : IsPart(m) <=> IsPart(m)'
    BY <1>1 DEF IsPart
  <2>2. QED
    BY <2>1, <1>1, <1>2 DEF IInv, Parts
<1>6. \A g, i : HasPart(g, i) <=> HasPart(g, i)'
  BY <1>1 DEF HasPart, received
<1>7. Progress'
  BY <1>1, <1>6 DEF IInv, Progress, received
<1>8. QED
  BY <1>3, <1>4, <1>5, <1>7 DEF IInv
-----------------------------------------------------------------------------
(* The receiving endpoint *)

\* The parts of IInv about what the sending endpoint did hold as long as it does nothing.
LEMMA SenderUnchanged ==
    ASSUME Numbered, Parts, UNCHANGED senderVars
    PROVE  Numbered' /\ Parts'
<1>1. sent' = sent /\ file_id_out' = file_id_out /\ sending' = sending /\ sizes' = sizes
  BY DEF senderVars
<1>2. \A m : IsPart(m) <=> IsPart(m)'
  BY <1>1 DEF IsPart
<1>3. QED
  BY <1>1, <1>2 DEF Numbered, Parts

\* A message whose fragments still count was not handed over nor given up.
LEMMA NotFinished ==
    ASSUME IInv, NEW m \in underway, ~Duplicate(m)
    PROVE  m \in DOMAIN sent /\ m \in Messages /\ delivered[m] = 0 /\ m \notin lost
                             /\ m \notin DOMAIN completed
  BY DEF IInv, Finished, TypeOK, Duplicate

\* An entry of m_incoming that goes to m_completed.
LEMMA FinishPreserves ==
    ASSUME IInv, NEW m \in underway, ~Duplicate(m), Finish(m), UNCHANGED <<senderVars, underway>>
    PROVE  /\ DOMAIN incoming' \subseteq DOMAIN sent'
           /\ incoming' \in [DOMAIN incoming' -> [have : SUBSET Nat, waited : {"no", "loss", "dead"}]]
           /\ DOMAIN completed' \subseteq DOMAIN sent' \ DOMAIN incoming'
           /\ completed' \in [DOMAIN completed' -> BOOLEAN]
           /\ Fragments'
           /\ \A k \in DOMAIN completed' : completed'[k] => k \notin underway'
           /\ DOMAIN completed' = DOMAIN completed \cup {m}
<1>1. m \in DOMAIN sent /\ m \notin DOMAIN completed
  BY NotFinished
<1>2. /\ DOMAIN incoming' = DOMAIN incoming \ {m}
      /\ \A k \in DOMAIN incoming' : incoming'[k] = incoming[k]
      /\ incoming' \in [DOMAIN incoming' -> [have : SUBSET Nat, waited : {"no", "loss", "dead"}]]
  BY DEF Finish, Without, IInv, TypeOK
<1>3. /\ DOMAIN completed' = DOMAIN completed \cup {m}
      /\ completed'[m] = FALSE
      /\ \A k \in DOMAIN completed : completed'[k] = completed[k]
      /\ completed' \in [DOMAIN completed' -> BOOLEAN]
  BY <1>1 DEF Finish, With, IInv, TypeOK
<1>4. sent' = sent /\ underway' = underway
  BY DEF senderVars
<1>5. Fragments'
  BY <1>2, <1>4 DEF IInv, Fragments
<1>6. QED
  BY <1>1, <1>2, <1>3, <1>4, <1>5 DEF IInv, TypeOK, Finished

\* A fragment after which the message is given up.
LEMMA LostPreserves ==
    ASSUME IInv, NEW m \in underway, ~Duplicate(m), Finish(m), lost' = lost \cup {m},
           UNCHANGED <<delivered, fired, files, senderVars, underway>>
    PROVE  IInv'
<1>1. m \in DOMAIN sent /\ m \in Messages /\ delivered[m] = 0 /\ m \notin lost
  BY NotFinished
<1>2. sent' = sent /\ file_id_out' = file_id_out /\ sending' = sending /\ sizes' = sizes
      /\ underway' = underway /\ delivered' = delivered /\ fired' = fired /\ files' = files
  BY DEF senderVars
<1>3. TypeOK'
  BY <1>1, <1>2, FinishPreserves DEF IInv, TypeOK
<1>4. Finished'
  BY <1>1, <1>2, FinishPreserves DEF IInv, Finished
<1>5. \A f, i : HasPart(f, i) <=> HasPart(f, i)'
  BY <1>2 DEF HasPart
<1>6. Progress'
  BY <1>2, <1>5 DEF IInv, Progress
<1>7. QED
  BY <1>3, <1>4, <1>6, SenderUnchanged, FinishPreserves DEF IInv

\* What deliver_message does to the files.
LEMMA FilesPreserved ==
    ASSUME IInv, NEW m \in underway, ~Duplicate(m), deliver_message(m), UNCHANGED senderVars
    PROVE  /\ DOMAIN files' \subseteq DOMAIN sizes'
           /\ \A f \in DOMAIN files' : files'[f] \subseteq 1 .. sizes'[f] /\ files'[f] # 1 .. sizes'[f]
           /\ fired' \in [FileIds -> Nat]
           /\ Progress'
<1> USE TransferConstants
<1>1. m \in DOMAIN sent /\ m \in Messages /\ delivered[m] = 0
  BY NotFinished
<1>2. sent' = sent /\ file_id_out' = file_id_out /\ sending' = sending /\ sizes' = sizes
  BY DEF senderVars
<1>3. /\ delivered' = [delivered EXCEPT ![m] = delivered[m] + 1]
      /\ delivered \in [Messages -> Nat]
      /\ DOMAIN sent \subseteq Messages
  BY DEF deliver_message, IInv, TypeOK
<1>4. \A f, i : HasPart(f, i) => HasPart(f, i)'
  BY <1>2, <1>3 DEF HasPart
<1>5. PICK g, j : g = sent[m].file /\ j = sent[m].idx
  OBVIOUS
<1>6. HasPart(g, j)'
  BY <1>1, <1>2, <1>3, <1>5 DEF HasPart
<1>7. ASSUME g # 0, HasPart(g, j) PROVE FALSE
  <2>1. PICK k \in DOMAIN sent : sent[k].file = g /\ sent[k].idx = j /\ delivered[k] > 0
    BY <1>7 DEF HasPart
  <2>2. k = m
    BY <1>1, <1>7, <1>5, <2>1 DEF IInv, Parts
  <2>3. QED
    BY <2>1, <2>2, <1>1
<1>8. \A f \in DOMAIN sizes : f # 0 /\ f \in FileIds /\ sizes[f] \in 1 .. MaxChunks
  BY DEF IInv, TypeOK, Numbered, FileIds
<1>9. DOMAIN files \subseteq DOMAIN sizes /\ fired \in [FileIds -> Nat]
      /\ \A f \in DOMAIN files : files[f] \subseteq 1 .. sizes[f] /\ files[f] # 1 .. sizes[f]
  BY DEF IInv, TypeOK
<1>10. sent[m].kind \in Kinds /\ IsPart(m)
  BY <1>1 DEF IInv, TypeOK, Parts
<1>11. CASE UNCHANGED <<files, fired>>
  BY <1>11, <1>2, <1>4, <1>9 DEF IInv, Progress
<1>12. CASE handle_file_manifest(m)
  <2>1. g \in DOMAIN sizes /\ j = 0
    BY <1>10, <1>12, <1>5 DEF handle_file_manifest, IsPart
  <2>2. /\ DOMAIN files' = DOMAIN files \cup {g} /\ files'[g] = {}
        /\ \A f \in DOMAIN files : f # g => files'[f] = files[f]
        /\ fired' = fired
    BY <1>12, <1>5 DEF handle_file_manifest, With
  <2>3. fired[g] = 0
    <3>1. SUFFICES ASSUME fired[g] > 0 PROVE FALSE
      BY <1>8, <1>9, <2>1
    <3>2. 0 \in 0 .. sizes[g]
      BY <1>8, <2>1
    <3>3. HasPart(g, 0)
      BY <1>8, <2>1, <3>1, <3>2 DEF IInv, Progress
    <3>4. QED
      BY <3>3, <2>1, <1>7, <1>8
  <2>4. {} # 1 .. sizes[g]
    <3>1. 1 \in 1 .. sizes[g]
      BY <1>8, <2>1
    <3>2. QED
      BY <3>1
  <2>5. /\ DOMAIN files' \subseteq DOMAIN sizes'
        /\ \A f \in DOMAIN files' : files'[f] \subseteq 1 .. sizes'[f] /\ files'[f] # 1 .. sizes'[f]
    BY <1>2, <1>9, <2>1, <2>2, <2>4
  <2>6. \A f \in DOMAIN files' : HasPart(f, 0)' /\ \A i \in files'[f] : HasPart(f, i)'
    BY <1>4, <1>6, <2>1, <2>2 DEF IInv, Progress
  <2>7. ASSUME NEW f \in FileIds, fired'[f] > 0
        PROVE  /\ fired'[f] = 1 /\ f \in DOMAIN sizes' /\ f \notin DOMAIN files'
               /\ \A i \in 0 .. sizes'[f] : HasPart(f, i)'
    <3>1. fired[f] > 0 /\ f # g
      BY <2>2, <2>3, <2>7
    <3>2. QED
      BY <1>2, <1>4, <2>2, <3>1 DEF IInv, Progress
  <2>8. QED
    BY <1>9, <2>2, <2>5, <2>6, <2>7 DEF Progress
<1>13. CASE handle_file_chunk(m) /\ ~UNCHANGED <<files, fired>>
  <2>1. g \in DOMAIN sizes /\ j \in 1 .. sizes[g] /\ g \in DOMAIN files
    BY <1>10, <1>13, <1>5 DEF handle_file_chunk, IsPart
  <2>2. fired[g] = 0
    BY <1>8, <1>9, <2>1 DEF IInv, Progress
  <2>3. HasPart(g, 0)' /\ \A i \in files[g] \cup {j} : HasPart(g, i)'
    BY <1>4, <1>6, <2>1 DEF IInv, Progress
  <2>4. CASE files[g] \cup {j} = 1 .. sizes[g]
    <3>1. files' = Without(files, {g}) /\ fired' = [fired EXCEPT ![g] = fired[g] + 1]
      BY <1>13, <1>5, <2>4, <2>1 DEF handle_file_chunk
      <3>2. DOMAIN files' = DOMAIN files \ {g} /\ \A f \in DOMAIN files' : files'[f] = files[f]
      BY <3>1 DEF Without
    <3>3. /\ fired' \in [FileIds -> Nat] /\ fired'[g] = 1
          /\ \A f \in FileIds : f # g => fired'[f] = fired[f]
      BY <3>1, <2>1, <2>2, <1>8, <1>9
    <3>4. \A i \in 0 .. sizes[g] : HasPart(g, i)'
      <4>1. ASSUME NEW i \in 0 .. sizes[g] PROVE i = 0 \/ i \in 1 .. sizes[g]
        BY <1>8, <2>1
      <4>2. QED
        BY <4>1, <2>3, <2>4
    <3>5. \A f \in DOMAIN files' : HasPart(f, 0)' /\ \A i \in files'[f] : HasPart(f, i)'
      BY <1>4, <3>2 DEF IInv, Progress
    <3>6. ASSUME NEW f \in FileIds, fired'[f] > 0
          PROVE  /\ fired'[f] = 1 /\ f \in DOMAIN sizes' /\ f \notin DOMAIN files'
                 /\ \A i \in 0 .. sizes'[f] : HasPart(f, i)'
      BY <1>2, <1>4, <2>1, <3>2, <3>3, <3>4, <3>6 DEF IInv, Progress
    <3>7. QED
      BY <1>2, <1>9, <3>2, <3>3, <3>5, <3>6 DEF Progress
  <2>5. CASE files[g] \cup {j} # 1 .. sizes[g]
    <3>1. files' = [files EXCEPT ![g] = files[g] \cup {j}] /\ fired' = fired
      BY <1>13, <1>5, <2>5, <2>1 DEF handle_file_chunk
      <3>2. /\ DOMAIN files' = DOMAIN files /\ files'[g] = files[g] \cup {j}
          /\ \A f \in DOMAIN files : f # g => files'[f] = files[f]
      BY <3>1, <2>1
    <3>3. \A f \in DOMAIN files' : HasPart(f, 0)' /\ \A i \in files'[f] : HasPart(f, i)'
      BY <1>4, <2>3, <3>2 DEF IInv, Progress
    <3>4. ASSUME NEW f \in FileIds, fired'[f] > 0
          PROVE  /\ fired'[f] = 1 /\ f \in DOMAIN sizes' /\ f \notin DOMAIN files'
                 /\ \A i \in 0 .. sizes'[f] : HasPart(f, i)'
      BY <1>2, <1>4, <3>1, <3>2, <3>4 DEF IInv, Progress
    <3>5. /\ DOMAIN files' \subseteq DOMAIN sizes'
          /\ \A f \in DOMAIN files' : files'[f] \subseteq 1 .. sizes'[f] /\ files'[f] # 1 .. sizes'[f]
      BY <1>2, <1>9, <2>1, <2>5, <3>2
    <3>6. QED
      BY <1>9, <3>1, <3>3, <3>4, <3>5 DEF Progress
  <2>6. QED
    BY <2>4, <2>5
<1>14. QED
  BY <1>11, <1>12, <1>13 DEF deliver_message

\* A fragment after which the message is handed over.
LEMMA DeliverPreserves ==
    ASSUME IInv, NEW m \in underway, ~Duplicate(m), deliver_message(m), Finish(m),
           UNCHANGED <<senderVars, underway>>
    PROVE  IInv'
<1>1. m \in DOMAIN sent /\ m \in Messages /\ delivered[m] = 0 /\ m \notin lost
  BY NotFinished
<1>2. sent' = sent /\ file_id_out' = file_id_out /\ sending' = sending /\ sizes' = sizes
      /\ underway' = underway /\ lost' = lost
  BY DEF senderVars, deliver_message
<1>3. /\ delivered' \in [Messages -> Nat]
      /\ delivered'[m] = 1
      /\ \A k \in Messages : k # m => delivered'[k] = delivered[k]
  BY <1>1 DEF deliver_message, IInv, TypeOK
<1>4. TypeOK'
  BY <1>2, <1>3, FinishPreserves, FilesPreserved DEF IInv, TypeOK
<1>5. Finished'
  <2>1. \A k \in underway : k \in Messages
    BY DEF IInv, TypeOK
  <2>2. \A k \in lost : k \in Messages
    BY DEF IInv, TypeOK
  <2>3. \A k \in DOMAIN completed' : completed'[k] => k \notin underway'
    BY FinishPreserves
  <2>4. DOMAIN completed' = DOMAIN completed \cup {m}
    BY FinishPreserves
  <2>5. \A k \in underway' : delivered'[k] > 0 \/ k \in lost' => k \in DOMAIN completed'
    BY <1>2, <1>3, <2>1, <2>4 DEF IInv, Finished
  <2>6. /\ \A k \in Messages \ DOMAIN sent' : delivered'[k] = 0
        /\ \A k \in Messages : delivered'[k] <= 1
        /\ \A k \in lost' : delivered'[k] = 0
    BY <1>1, <1>2, <1>3, <2>2 DEF IInv, Finished
  <2>7. QED
    BY <2>3, <2>5, <2>6 DEF Finished
<1>6. QED
  BY <1>4, <1>5, SenderUnchanged, FinishPreserves, FilesPreserved DEF IInv

\* A fragment that is kept with the others.
LEMMA KeptPreserves ==
    ASSUME IInv, NEW m \in underway, ~Duplicate(m),
           NEW i \in 0 .. sent[m].data + sent[m].parity - 1,
           NEW h, h = (IF m \in DOMAIN incoming THEN incoming[m].have ELSE {}) \cup {i},
           NEW w \in {"no", "loss", "dead"}, ~Recoverable(m, h),
           incoming' = With(incoming, m, [have |-> h, waited |-> w]),
           UNCHANGED <<completed, received, senderVars, underway>>
    PROVE  IInv'
<1>1. m \in DOMAIN sent /\ m \notin DOMAIN completed
  BY NotFinished
<1>2. sent[m].data \in Nat /\ sent[m].parity \in Nat
  BY <1>1, TransferConstants DEF IInv, TypeOK
<1>3. h \subseteq 0 .. sent[m].data + sent[m].parity - 1
  BY DEF IInv, Fragments
<1>4. IsFiniteSet(h) /\ h \subseteq Nat
  <2> DEFINE top == sent[m].data + sent[m].parity - 1
  <2>1. top \in Int
    BY <1>2
  <2> HIDE DEF top
  <2>2. IsFiniteSet(0 .. top)
    BY <2>1, FS_Interval
  <2>3. h \in SUBSET (0 .. top)
    BY <1>3 DEF top
  <2>4. IsFiniteSet(h)
    BY <2>2, <2>3, FS_Subset
  <2>5. h \subseteq Nat
    BY <2>1, <2>3
  <2>6. QED
    BY <2>4, <2>5
<1>5. Cardinality(h) < sent[m].data
  BY <1>2, <1>4, NotRecoverable
<1>6. /\ DOMAIN incoming' = DOMAIN incoming \cup {m}
      /\ incoming'[m].have = h
      /\ \A k \in DOMAIN incoming : k # m => incoming'[k] = incoming[k]
  BY DEF With
<1>7. incoming' \in [DOMAIN incoming' -> [have : SUBSET Nat, waited : {"no", "loss", "dead"}]]
  BY <1>4 DEF With, IInv, TypeOK
<1>8. sent' = sent /\ file_id_out' = file_id_out /\ sending' = sending /\ sizes' = sizes
      /\ underway' = underway /\ completed' = completed /\ delivered' = delivered
      /\ lost' = lost /\ fired' = fired /\ files' = files
  BY DEF senderVars, received
<1>9. TypeOK'
  BY <1>1, <1>6, <1>7, <1>8 DEF IInv, TypeOK
<1>10. Fragments'
  BY <1>3, <1>5, <1>6, <1>8 DEF IInv, Fragments
<1>11. Finished'
  BY <1>8 DEF IInv, Finished
<1>12. \A f, j : HasPart(f, j) <=> HasPart(f, j)'
  BY <1>8 DEF HasPart
<1>13. Progress'
  BY <1>8, <1>12 DEF IInv, Progress
<1>14. QED
  BY <1>9, <1>10, <1>11, <1>13, SenderUnchanged DEF IInv

\* handle_data.
LEMMA HandleDataPreserves ==
    ASSUME IInv, NEW m \in DOMAIN sent, NEW i \in 0 .. sent[m].data + sent[m].parity - 1,
           handle_data(m, i)
    PROVE  IInv'
<1>1. PICK w, h :
         /\ w = (IF m \in DOMAIN incoming THEN incoming[m].waited ELSE "no")
         /\ h = (IF m \in DOMAIN incoming THEN incoming[m].have ELSE {}) \cup {i}
  OBVIOUS
<1>2. w \in {"no", "loss", "dead"}
  BY <1>1 DEF IInv, TypeOK
<1>3. m \in underway /\ ~Duplicate(m) /\ UNCHANGED <<senderVars, underway>>
  BY DEF handle_data
<1>4. \/ deliver_message(m) /\ Finish(m)
      \/ lost' = lost \cup {m} /\ Finish(m) /\ UNCHANGED <<delivered, fired, files>>
      \/ /\ ~Recoverable(m, h)
         /\ incoming' = With(incoming, m, [have |-> h, waited |-> w])
         /\ UNCHANGED <<completed, received>>
  BY <1>1 DEF handle_data
<1>5. CASE deliver_message(m) /\ Finish(m)
  BY <1>3, <1>5, DeliverPreserves
<1>6. CASE lost' = lost \cup {m} /\ Finish(m) /\ UNCHANGED <<delivered, fired, files>>
  <2>1. UNCHANGED <<delivered, fired, files, senderVars, underway>>
    BY <1>3, <1>6
  <2>2. QED
    BY <1>3, <1>6, <2>1, LostPreserves
<1>7. CASE /\ ~Recoverable(m, h)
           /\ incoming' = With(incoming, m, [have |-> h, waited |-> w])
           /\ UNCHANGED <<completed, received>>
  <2>1. UNCHANGED <<completed, received, senderVars, underway>>
    BY <1>3, <1>7
  <2>2. QED
    BY <1>1, <1>2, <1>3, <1>7, <2>1, KeptPreserves
<1>8. QED
  BY <1>4, <1>5, <1>6, <1>7

\* Steps that touch neither what was sent nor what was handed over: time, the end of
\* a message's packets, and check_offline.
LEMMA TimePreserves ==
    ASSUME IInv, UNCHANGED <<senderVars, received>>,
           underway' \subseteq underway,
           DOMAIN incoming' \subseteq DOMAIN incoming,
           incoming' \in [DOMAIN incoming' -> [have : SUBSET Nat, waited : {"no", "loss", "dead"}]],
           \A m \in DOMAIN incoming' : incoming'[m].have = incoming[m].have,
           DOMAIN completed' \subseteq DOMAIN completed,
           completed' \in [DOMAIN completed' -> BOOLEAN],
           \A m \in DOMAIN completed' : completed'[m] => m \notin underway',
           \A m \in DOMAIN completed \ DOMAIN completed' : m \notin underway
    PROVE  IInv'
<1>1. sent' = sent /\ file_id_out' = file_id_out /\ sending' = sending /\ sizes' = sizes
      /\ delivered' = delivered /\ lost' = lost /\ fired' = fired /\ files' = files
  BY DEF senderVars, received
<1>2. TypeOK'
  BY <1>1 DEF IInv, TypeOK
<1>3. Fragments' /\ Finished'
  BY <1>1 DEF IInv, Fragments, Finished
<1>4. \A f, j : HasPart(f, j) <=> HasPart(f, j)'
  BY <1>1 DEF HasPart
<1>5. Progress'
  BY <1>1, <1>4 DEF IInv, Progress
<1>6. QED
  BY <1>2, <1>3, <1>5, SenderUnchanged DEF IInv

\* check_offline.
LEMMA CheckOfflinePreserves == IInv /\ check_offline => IInv'
<1> SUFFICES ASSUME IInv, check_offline PROVE IInv'
  OBVIOUS
<1>1. UNCHANGED <<senderVars, received>> /\ underway' \subseteq underway
  BY DEF check_offline
<1>2. /\ DOMAIN incoming' \subseteq DOMAIN incoming
      /\ incoming' \in [DOMAIN incoming' -> [have : SUBSET Nat, waited : {"no", "loss", "dead"}]]
      /\ \A m \in DOMAIN incoming' : incoming'[m].have = incoming[m].have
  BY DEF check_offline, Without, IInv, TypeOK
<1>3. /\ DOMAIN completed' = DOMAIN completed \ DeadCompleted
      /\ completed' \in [DOMAIN completed' -> BOOLEAN]
      /\ \A m \in DOMAIN completed' : completed'[m] = completed[m]
  BY DEF check_offline, Without, IInv, TypeOK
<1>4. /\ \A m \in DOMAIN completed' : completed'[m] => m \notin underway'
      /\ \A m \in DOMAIN completed \ DOMAIN completed' : m \notin underway
  BY <1>1, <1>3 DEF IInv, Finished, DeadCompleted
<1>5. DOMAIN completed' \subseteq DOMAIN completed
  BY <1>3
<1>6. QED
  BY <1>1, <1>2, <1>3, <1>4, <1>5, TimePreserves

\* A new value of waited for an entry of m_incoming.
LEMMA WaitedType ==
    ASSUME TypeOK, NEW m \in DOMAIN incoming, NEW w \in {"no", "loss", "dead"},
           incoming' = [incoming EXCEPT ![m].waited = w]
    PROVE  /\ DOMAIN incoming' = DOMAIN incoming
           /\ incoming' \in [DOMAIN incoming' -> [have : SUBSET Nat, waited : {"no", "loss", "dead"}]]
           /\ \A k \in DOMAIN incoming' : incoming'[k].have = incoming[k].have
  BY DEF TypeOK

\* loss_wait and dead_timeout pass, packets are gone.
LEMMA ClockPreserves ==
    ASSUME IInv, NEW m \in DOMAIN sent, LossWait(m) \/ DeadTimeout(m) \/ Vanish(m)
    PROVE  IInv'
<1>1. UNCHANGED <<senderVars, received>> /\ underway' \subseteq underway
  BY DEF LossWait, DeadTimeout, Vanish
<1>2. /\ DOMAIN incoming' \subseteq DOMAIN incoming
      /\ incoming' \in [DOMAIN incoming' -> [have : SUBSET Nat, waited : {"no", "loss", "dead"}]]
      /\ \A k \in DOMAIN incoming' : incoming'[k].have = incoming[k].have
  <2>1. CASE UNCHANGED incoming
    BY <2>1 DEF IInv, TypeOK
  <2>2. CASE m \in DOMAIN incoming /\ incoming' = [incoming EXCEPT ![m].waited = "loss"]
    BY <2>2, WaitedType DEF IInv
  <2>3. CASE m \in DOMAIN incoming /\ incoming' = [incoming EXCEPT ![m].waited = "dead"]
    BY <2>3, WaitedType DEF IInv
  <2>4. QED
    BY <2>1, <2>2, <2>3 DEF LossWait, DeadTimeout, Vanish
<1>3. /\ DOMAIN completed' = DOMAIN completed
      /\ completed' \in [DOMAIN completed' -> BOOLEAN]
      /\ \A k \in DOMAIN completed' : completed'[k] => k \notin underway'
  <2>1. CASE UNCHANGED completed
    BY <2>1, <1>1 DEF IInv, TypeOK, Finished
  <2>2. CASE m \notin underway /\ completed' = [completed EXCEPT ![m] = TRUE]
    BY <2>2, <1>1 DEF IInv, TypeOK, Finished
  <2>3. QED
    BY <2>1, <2>2 DEF LossWait, DeadTimeout, Vanish
<1>4. /\ DOMAIN completed' \subseteq DOMAIN completed
      /\ \A k \in DOMAIN completed \ DOMAIN completed' : k \notin underway
  BY <1>3
<1>5. QED
  BY <1>1, <1>2, <1>3, <1>4, TimePreserves
-----------------------------------------------------------------------------
(* Theorems *)

\* Nothing was sent and nothing came.
LEMMA InitEstablishes == Init => IInv
<1> SUFFICES ASSUME Init PROVE IInv
  OBVIOUS
<1> USE TransferConstants
<1>1. /\ DOMAIN sent = {} /\ DOMAIN sending = {} /\ DOMAIN sizes = {} /\ DOMAIN incoming = {}
      /\ DOMAIN completed = {} /\ DOMAIN files = {} /\ 1 .. 0 = {}
  BY DEF Init, Empty
<1>2. TypeOK
  BY <1>1 DEF Init, TypeOK, Empty
<1>3. Numbered
  BY <1>1 DEF Init, Numbered, Empty
<1>4. Parts /\ Fragments /\ Finished /\ Progress
  BY <1>1 DEF Init, Parts, Fragments, Finished, Progress
<1>5. QED
  BY <1>2, <1>3, <1>4 DEF IInv

\* Every step of the endpoints, the network and time keeps the invariant.
LEMMA NextPreserves == IInv /\ [Next]_vars => IInv'
<1> SUFFICES ASSUME IInv, [Next]_vars PROVE IInv'
  OBVIOUS
<1>1. CASE send_data
  BY <1>1, SendDataPreserves
<1>2. ASSUME NEW n \in 1 .. MaxChunks, send_file(n) PROVE IInv'
  BY <1>2, SendFilePreserves
<1>3. ASSUME NEW f \in DOMAIN sending, send_part(f) PROVE IInv'
  BY <1>3, SendPartPreserves
<1>4. ASSUME NEW f \in DOMAIN sending, send_part_refused(f) PROVE IInv'
  BY <1>4, RefusedPreserves
<1>5. ASSUME NEW m \in DOMAIN sent, NEW i \in 0 .. sent[m].data + sent[m].parity - 1,
             handle_data(m, i)
      PROVE  IInv'
  BY <1>5, HandleDataPreserves
<1>6. ASSUME NEW m \in DOMAIN sent, LossWait(m) \/ DeadTimeout(m) \/ Vanish(m) PROVE IInv'
  BY <1>6, ClockPreserves
<1>7. CASE check_offline
  BY <1>7, CheckOfflinePreserves
<1>8. CASE UNCHANGED vars
  <2>1. /\ DOMAIN incoming' \subseteq DOMAIN incoming
        /\ incoming' \in [DOMAIN incoming' -> [have : SUBSET Nat, waited : {"no", "loss", "dead"}]]
        /\ \A m \in DOMAIN incoming' : incoming'[m].have = incoming[m].have
        /\ DOMAIN completed' \subseteq DOMAIN completed
        /\ completed' \in [DOMAIN completed' -> BOOLEAN]
        /\ underway' \subseteq underway
        /\ \A m \in DOMAIN completed' : completed'[m] => m \notin underway'
        /\ \A m \in DOMAIN completed \ DOMAIN completed' : m \notin underway
    BY <1>8 DEF vars, IInv, TypeOK, Finished
  <2>2. UNCHANGED <<senderVars, received>>
    BY <1>8 DEF vars
  <2>3. QED
    BY <2>1, <2>2, TimePreserves
<1>9. QED
  BY <1>1, <1>2, <1>3, <1>4, <1>5, <1>6, <1>7, <1>8 DEF Next

\* The inductive invariant holds throughout.
LEMMA Inductive == Spec => []IInv
<1>1. Init => IInv
  BY InitEstablishes
<1>2. IInv /\ [Next]_vars => IInv'
  BY NextPreserves
<1>3. QED
  BY <1>1, <1>2, PTL DEF Spec

\* A message is handed over at most once and never after it was reported lost, a file is
\* completed at most once, and what could be restored does not stay in m_incoming: for any
\* number of messages and files, any fragment counts, and any order and number of copies
\* of the fragments within dead_timeout.
THEOREM HandedAtMostOnce == Spec => []HandedOnce
<1>1. IInv => HandedOnce
  <2> SUFFICES ASSUME IInv PROVE HandedOnce
    OBVIOUS
  <2>1. \A f \in FileIds : fired[f] <= 1
    BY DEF IInv, TypeOK, Progress
  <2>2. QED
    BY <2>1 DEF IInv, Fragments, Finished, HandedOnce
<1>2. QED
  BY <1>1, Inductive, PTL

\* A file given to the application is whole: its manifest and all of its chunks were
\* handed over, also when send_file was refused half way and the ids go on.
THEOREM CompletedFilesAreWhole == Spec => []FiredWhole
<1>1. IInv => FiredWhole
  BY DEF IInv, Progress, HasPart, FiredWhole
<1>2. QED
  BY <1>1, Inductive, PTL
=============================================================================
