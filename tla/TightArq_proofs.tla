-------------------------- MODULE TightArq_proofs --------------------------
(***************************************************************************)
(* Proofs about TightArq, for any number of packets, channels, retries and *)
(* gaps, and any loss, duplication and reordering on the wire: the         *)
(* receiver's cumulative ack passes nothing it forgets, and the sender     *)
(* drops nothing the receiver still asks for, as long as the gaps of a     *)
(* report fit on its list.                                                 *)
(***************************************************************************)
EXTENDS TightArq, TLAPS, FiniteSetTheorems, WellFoundedInduction

\* Only what was sent as data is on the wire, in m_pending as data, or in the snapshot
\* that handle_report resends from.
SentOnly ==
    /\ \A s \in wire : s < sequence_out
    /\ \A s \in DOMAIN pending : pending[s].kind = "data" => s < sequence_out
    /\ \A s \in DOMAIN resending : resending[s] = "data" => s < sequence_out

\* The receiver's cursor: nothing before the first packet; after it every sequence behind
\* the cursor is accounted for, and every gap below a packet that waits in m_recv_seqs was
\* put on the list.
Cursor ==
    /\ ~initialized => /\ next_expected = 0 /\ recv_seqs = {}
                       /\ DOMAIN missing = {} /\ got = {}
    /\ initialized => /\ next_expected >= 1
                      /\ \A s \in 1 .. next_expected - 1 : s \in got \cup DOMAIN missing \cup abandoned
                      /\ next_expected \notin got
                      /\ \A s \in got : s > next_expected => s \in recv_seqs
    /\ recv_seqs \subseteq got
    /\ \A s \in recv_seqs : \A k \in next_expected .. s - 1 :
          k \in recv_seqs \cup DOMAIN missing \cup abandoned

\* A gap behind the cursor that has not arrived has been reported; it is older than the
\* threshold, so the next report lists it again.
Aged ==
    \A s \in DOMAIN missing : s < next_expected => s \in got \/ missing[s].age > LossThreshold

\* The inductive invariant of the cursor.
IInv == TypeOK /\ SentOnly /\ Cursor /\ Aged

\* What a report on the way acknowledges, and does not list, has arrived or was given up.
Reported ==
    \A r \in reports : \A s \in 1 .. r.ack : s \in r.lost \cup got \cup abandoned

\* The gaps of the moment fit on the list of one report.
ListFits == Cardinality(Lost) <= MaxListed

\* The inductive invariant of the retransmission buffer.
BufferInv == IInv /\ Reported /\ NothingPrunedEarly
-----------------------------------------------------------------------------
(* Lemmas about the operators *)

\* A set of numbers has a least one.
LEMMA LeastNumber ==
    ASSUME NEW T \in SUBSET Nat, T # {}
    PROVE  \E x \in T : \A y \in T : x <= y
<1> DEFINE R == {ss \in Nat \X Nat : ss[1] < ss[2]}
<1>1. IsWellFoundedOn(R, Nat)
  BY NatLessThanWellFounded DEF OpToRel
<1> HIDE DEF R
<1>2. PICK x \in T : \A y \in T : ~ (<<y, x>> \in R)
  BY <1>1, WFMin
<1>3. \A y \in T : x <= y
  <2> SUFFICES ASSUME NEW y \in T, y < x PROVE FALSE
    OBVIOUS
  <2>1. <<y, x>> \in Nat \X Nat /\ <<y, x>>[1] = y /\ <<y, x>>[2] = x
    OBVIOUS
  <2>2. <<y, x>> \in R
    BY <2>1 DEF R
  <2>3. QED
    BY <1>2, <2>2
<1>4. QED
  BY <1>3

\* The loops that move the cursor stop, at the first sequence that is not in S.
LEMMA HoleStops ==
    ASSUME NEW n \in 0 .. MaxData + 1, NEW S \in SUBSET Seqs
    PROVE  /\ Hole(n, S) \in n .. MaxData + 1
           /\ Hole(n, S) \notin S
           /\ \A k \in n .. Hole(n, S) - 1 : k \in S
<1> USE ArqConstants
<1> DEFINE T == {m \in n .. MaxData + 1 : m \notin S}
<1>1. MaxData + 1 \in T /\ T \in SUBSET Nat
  BY DEF Seqs
<1>2. PICK x \in T : \A y \in T : x <= y
  <2> HIDE DEF T
  <2>1. QED
    BY <1>1, LeastNumber
<1>3. x \in n .. MaxData + 1 /\ x \notin S /\ \A k \in n .. x - 1 : k \in S
  BY <1>2
<1>4. QED
  BY <1>3 DEF Hole

\* A list that is long enough holds every gap.
LEMMA SmallestOfAll ==
    ASSUME NEW S, IsFiniteSet(S), Cardinality(S) <= MaxListed, S \subseteq Int
    PROVE  Smallest(MaxListed, S) = S
<1> SUFFICES ASSUME NEW s \in S PROVE Cardinality({k \in S : k < s}) < MaxListed
  BY DEF Smallest
<1> DEFINE B == {k \in S : k < s}
<1>1. B \in SUBSET S /\ s \notin B
  OBVIOUS
<1> HIDE DEF B
<1>2. IsFiniteSet(B) /\ Cardinality(B) <= Cardinality(S) /\ (Cardinality(S) = Cardinality(B) => S = B)
  BY <1>1, FS_Subset
<1>3. Cardinality(B) \in Nat /\ Cardinality(S) \in Nat
  BY <1>2, FS_CardinalityType
<1>4. Cardinality(B) < MaxListed
  BY <1>1, <1>2, <1>3, ArqConstants
<1>5. QED
  BY <1>4 DEF B

\* What send_report keeps and lists are among the gaps.
LEMMA GapsTyped ==
    ASSUME TypeOK
    PROVE  /\ Unreliable \subseteq DOMAIN missing /\ Lost \subseteq DOMAIN missing
           /\ TooOld \subseteq DOMAIN missing /\ DOMAIN missing \in SUBSET Seqs
           /\ \A n, S : Smallest(n, S) \subseteq S /\ Largest(n, S) \subseteq S
  BY DEF TypeOK, Unreliable, Lost, TooOld, Smallest, Largest

\* Sequences and control numbers are positive.
LEMMA KeysAreNumbers ==
    (\A k \in Keys : k \in Nat /\ k >= 1) /\ (\A k \in Seqs : k \in Nat /\ k >= 1 /\ k \in Keys)
  BY ArqConstants DEF Keys, Seqs
-----------------------------------------------------------------------------
(* The sending endpoint *)

\* A step of the sending endpoint or of the wire that leaves the receiver alone.
LEMMA ReceiverUnchanged ==
    ASSUME Cursor, Aged, UNCHANGED <<receiverVars, got>>, abandoned \subseteq abandoned'
    PROVE  Cursor' /\ Aged'
  BY DEF Cursor, Aged, receiverVars

\* An entry of m_pending that is written.
LEMMA PendingWith ==
    ASSUME TypeOK, NEW s \in Keys, NEW v \in Pendings, pending' = With(pending, s, v)
    PROVE  /\ DOMAIN pending' = DOMAIN pending \cup {s}
           /\ DOMAIN pending' \subseteq Keys
           /\ pending' \in [DOMAIN pending' -> Pendings]
           /\ pending'[s] = v
           /\ \A k \in DOMAIN pending : k # s => pending'[k] = pending[k]
  BY DEF TypeOK, With

\* Entries of m_pending that are dropped.
LEMMA PendingWithout ==
    ASSUME TypeOK, NEW S, pending' = Without(pending, S)
    PROVE  /\ DOMAIN pending' = DOMAIN pending \ S
           /\ DOMAIN pending' \subseteq Keys
           /\ pending' \in [DOMAIN pending' -> Pendings]
           /\ \A k \in DOMAIN pending' : pending'[k] = pending[k]
  BY DEF TypeOK, Without

\* send_data_packet.
LEMMA SendDataPreserves ==
    ASSUME IInv, NEW ch \in Channels, send_data_packet(ch)
    PROVE  IInv'
<1> USE ArqConstants
<1>1. PICK s : s = sequence_out
  OBVIOUS
<1>2. /\ s \in Seqs /\ s \in Keys /\ s \in Nat /\ sequence_out' = s + 1
      /\ wire' = wire \cup {s} /\ channel' = With(channel, s, ch)
      /\ UNCHANGED <<control_seq_out, resending, reports, receiverVars, got, abandoned>>
  BY <1>1 DEF send_data_packet, IInv, TypeOK, Seqs, Keys
<1>3. channel' \in [1 .. sequence_out' - 1 -> Channels]
  <2>1. DOMAIN channel = 1 .. s - 1 /\ channel \in [1 .. s - 1 -> Channels]
    BY <1>1 DEF IInv, TypeOK
  <2>2. (1 .. s - 1) \cup {s} = 1 .. s /\ sequence_out' - 1 = s
    BY <1>2 DEF Seqs
  <2>3. QED
    BY <1>2, <2>1, <2>2 DEF With
<1>4. /\ DOMAIN pending' \subseteq Keys
      /\ pending' \in [DOMAIN pending' -> Pendings]
      /\ filling' \in 0 .. MaxData
      /\ \A k \in DOMAIN pending' : pending'[k].kind = "data" => k < sequence_out'
  <2>1. \A k \in DOMAIN pending : pending[k].kind = "data" => k < sequence_out'
    <3>1. \A k \in DOMAIN pending : k \in Nat /\ (pending[k].kind = "data" => k < s)
      BY <1>1, KeysAreNumbers DEF IInv, TypeOK, SentOnly
    <3>2. QED
      BY <1>2, <3>1
  <2>2. CASE ch \in Reliable
    <3>1. PICK v : v = [kind |-> "data", retries |-> IF s \in DOMAIN pending THEN pending[s].retries ELSE 0]
      OBVIOUS
    <3>2. v \in Pendings
      BY <3>1 DEF IInv, TypeOK, Pendings, Kinds
    <3>3. pending' = With(pending, s, v) /\ filling' = s
      BY <1>1, <2>2, <3>1 DEF send_data_packet
    <3>4. /\ DOMAIN pending' = DOMAIN pending \cup {s}
          /\ DOMAIN pending' \subseteq Keys
          /\ pending' \in [DOMAIN pending' -> Pendings]
          /\ \A k \in DOMAIN pending : k # s => pending'[k] = pending[k]
      BY <1>2, <3>2, <3>3, PendingWith DEF IInv
    <3>5. s < sequence_out' /\ s \in 0 .. MaxData
      BY <1>2 DEF Seqs
    <3>6. QED
      BY <2>1, <3>3, <3>4, <3>5
  <2>3. CASE ch \notin Reliable
    <3>1. UNCHANGED <<pending, filling>>
      BY <2>3 DEF send_data_packet
    <3>2. QED
      BY <2>1, <3>1 DEF IInv, TypeOK
  <2>4. QED
    BY <2>2, <2>3
<1>5. TypeOK'
  <2>1. sequence_out' \in 1 .. MaxData + 1
    BY <1>2 DEF Seqs
  <2>2. wire' \subseteq Seqs
    BY <1>2 DEF IInv, TypeOK
  <2>3. QED
    BY <1>2, <1>3, <1>4, <2>1, <2>2 DEF IInv, TypeOK, receiverVars
<1>6. SentOnly'
  <2>1. \A k \in wire' : k < sequence_out'
    BY <1>1, <1>2, KeysAreNumbers DEF IInv, TypeOK, SentOnly
  <2>2. \A k \in DOMAIN resending' : resending'[k] = "data" => k < sequence_out'
    <3>1. \A k \in DOMAIN resending : k \in Nat /\ (resending[k] = "data" => k < s)
      BY <1>1, KeysAreNumbers DEF IInv, TypeOK, SentOnly
    <3>2. QED
      BY <1>2, <3>1
  <2>3. QED
    BY <1>4, <2>1, <2>2 DEF SentOnly
<1>7. Cursor' /\ Aged'
  BY <1>2, ReceiverUnchanged DEF IInv
<1>8. QED
  BY <1>5, <1>6, <1>7 DEF IInv

\* What every other step of the sending endpoint and of the wire has in common.
SenderStep ==
    /\ sequence_out' = sequence_out /\ channel' = channel
    /\ control_seq_out' \in 1 .. MaxControl + 1 /\ control_seq_out' >= control_seq_out
    /\ DOMAIN pending' \subseteq Keys
    /\ pending' \in [DOMAIN pending' -> Pendings]
    /\ \A k \in DOMAIN pending' : pending'[k].kind = "data" => k < sequence_out
    /\ filling' \in 0 .. MaxData
    /\ DOMAIN resending' \subseteq Keys
    /\ resending' \in [DOMAIN resending' -> Kinds]
    /\ \A k \in DOMAIN resending' : resending'[k] = "data" => k < sequence_out
    /\ wire' \subseteq Seqs
    /\ \A k \in wire' : k < sequence_out
    /\ reports' \subseteq reports
    /\ abandoned \subseteq abandoned' /\ abandoned' \subseteq Keys
    /\ UNCHANGED <<receiverVars, got>>

\* Such a step keeps the invariant.
LEMMA SenderStepPreserves == IInv /\ SenderStep => IInv'
<1> SUFFICES ASSUME IInv, SenderStep PROVE IInv'
  OBVIOUS
<1>1. TypeOK'
  BY DEF IInv, TypeOK, SenderStep, receiverVars
<1>2. SentOnly'
  BY DEF SentOnly, SenderStep
<1>3. Cursor' /\ Aged'
  BY ReceiverUnchanged DEF IInv, SenderStep
<1>4. QED
  BY <1>1, <1>2, <1>3 DEF IInv

\* fill_bytes.
LEMMA FillStep == IInv /\ fill_bytes => SenderStep /\ DOMAIN pending \subseteq DOMAIN pending'
<1> SUFFICES ASSUME IInv, fill_bytes PROVE SenderStep /\ DOMAIN pending \subseteq DOMAIN pending'
  OBVIOUS
<1> USE ArqConstants
<1>1. PICK v, f : v = [kind |-> "blank", retries |-> 0] /\ f = filling
  OBVIOUS
<1>2. v \in Pendings /\ v.kind # "data"
  BY <1>1 DEF Pendings, Kinds
<1>3. f \in Keys
  BY <1>1 DEF fill_bytes, IInv, TypeOK, Keys, Seqs
<1>4. /\ DOMAIN pending' \subseteq Keys
      /\ pending' \in [DOMAIN pending' -> Pendings]
      /\ \A k \in DOMAIN pending' : pending'[k].kind = "data" => k < sequence_out
      /\ DOMAIN pending \subseteq DOMAIN pending'
  <2>1. CASE f \in DOMAIN pending
    BY <1>1, <2>1 DEF fill_bytes, IInv, TypeOK, SentOnly
  <2>2. CASE f \notin DOMAIN pending
    <3>1. pending' = With(pending, f, v)
      BY <1>1, <2>2 DEF fill_bytes
    <3>2. QED
      BY <1>2, <1>3, <3>1, PendingWith DEF IInv, SentOnly
  <2>3. QED
    BY <2>1, <2>2
<1>5. QED
  BY <1>4 DEF fill_bytes, SenderStep, IInv, TypeOK, SentOnly, wireVars

\* send_control.
LEMMA SendControlStep == IInv /\ send_control => SenderStep /\ DOMAIN pending \subseteq DOMAIN pending'
<1> SUFFICES ASSUME IInv, send_control PROVE SenderStep /\ DOMAIN pending \subseteq DOMAIN pending'
  OBVIOUS
<1> USE ArqConstants
<1>1. PICK v, c : /\ c = control_seq_out
                  /\ v = [kind |-> "control",
                          retries |-> IF c \in DOMAIN pending THEN pending[c].retries ELSE 0]
  OBVIOUS
<1>2. v \in Pendings /\ v.kind # "data"
  BY <1>1 DEF IInv, TypeOK, Pendings, Kinds
<1>3. c \in Keys /\ control_seq_out' \in 1 .. MaxControl + 1 /\ control_seq_out' >= control_seq_out
  <2>1. c \in 1 .. MaxControl /\ control_seq_out' = c + 1
    BY <1>1 DEF send_control, IInv, TypeOK
  <2>2. QED
    BY <1>1, <2>1 DEF Keys
<1>4. pending' = With(pending, c, v)
  BY <1>1 DEF send_control
<1>5. /\ DOMAIN pending' \subseteq Keys
      /\ pending' \in [DOMAIN pending' -> Pendings]
      /\ \A k \in DOMAIN pending' : pending'[k].kind = "data" => k < sequence_out
      /\ DOMAIN pending \subseteq DOMAIN pending'
  BY <1>2, <1>3, <1>4, PendingWith DEF IInv, SentOnly
<1>6. QED
  BY <1>3, <1>5 DEF send_control, SenderStep, IInv, TypeOK, SentOnly, wireVars

\* handle_ack drops the entry of a control number.
LEMMA HandleAckStep ==
    ASSUME IInv, NEW k \in 1 .. MaxControl, handle_ack(k)
    PROVE  SenderStep /\ \A s \in DOMAIN pending : s \in DOMAIN pending' \/ s < control_seq_out'
<1>1. pending' = Without(pending, {k}) /\ control_seq_out' = control_seq_out /\ k < control_seq_out
  BY DEF handle_ack
<1>2. control_seq_out \in 1 .. MaxControl + 1 /\ control_seq_out \in Nat
  BY ArqConstants DEF IInv, TypeOK
<1>3. /\ DOMAIN pending' = DOMAIN pending \ {k}
      /\ DOMAIN pending' \subseteq Keys
      /\ pending' \in [DOMAIN pending' -> Pendings]
      /\ \A s \in DOMAIN pending' : pending'[s] = pending[s]
  BY <1>1, PendingWithout DEF IInv
<1>4. control_seq_out' \in 1 .. MaxControl + 1 /\ control_seq_out' >= control_seq_out
  BY <1>1, <1>2
<1>5. UNCHANGED <<sequence_out, channel, filling, resending, wire, reports, receiverVars, got, abandoned>>
  BY DEF handle_ack, wireVars
<1>6. SenderStep
  BY <1>3, <1>4, <1>5 DEF SenderStep, IInv, TypeOK, SentOnly
<1>7. QED
  BY <1>1, <1>3, <1>6

\* handle_report drops what the report acknowledges and what was resent often enough.
LEMMA HandleReportStep ==
    ASSUME IInv, NEW r \in reports, NEW dup \in BOOLEAN, handle_report(r, dup)
    PROVE  /\ SenderStep
           /\ \A s \in DOMAIN pending :
                s \in DOMAIN pending' \cup abandoned' \/ (s <= r.ack /\ s \notin r.lost)
<1> DEFINE gone == {s \in DOMAIN pending : Prunable(r, s)}
           last == {s \in DOMAIN pending : pending[s].retries >= kMaxRetries}
<1>1. /\ pending' = Without(pending, gone) /\ abandoned' = abandoned \cup last
      /\ resending' = [s \in (DOMAIN pending \cap r.lost) \ last |-> pending[s].kind]
      /\ reports' \subseteq reports
      /\ UNCHANGED <<sequence_out, control_seq_out, channel, filling, wire, receiverVars, got>>
  BY DEF handle_report
<1>2. \A s \in gone : s \in last \/ (s <= r.ack /\ s \notin r.lost)
  BY DEF Prunable
<1>3. last \subseteq DOMAIN pending /\ DOMAIN pending \subseteq Keys
  BY DEF IInv, TypeOK
<1> HIDE DEF gone, last
<1>4. PICK G : G = gone
  OBVIOUS
<1>5. /\ DOMAIN pending' = DOMAIN pending \ G
      /\ DOMAIN pending' \subseteq Keys
      /\ pending' \in [DOMAIN pending' -> Pendings]
      /\ \A s \in DOMAIN pending' : pending'[s] = pending[s]
  BY <1>1, <1>4, PendingWithout DEF IInv
<1>6. /\ DOMAIN resending' \subseteq Keys
      /\ resending' \in [DOMAIN resending' -> Kinds]
      /\ \A s \in DOMAIN resending' : resending'[s] = "data" => s < sequence_out
  BY <1>1, <1>3 DEF IInv, TypeOK, SentOnly, Pendings
<1>7. control_seq_out' \in 1 .. MaxControl + 1 /\ control_seq_out' >= control_seq_out
  BY <1>1, ArqConstants DEF IInv, TypeOK
<1>8. SenderStep
  BY <1>1, <1>3, <1>5, <1>6, <1>7 DEF SenderStep, IInv, TypeOK, SentOnly
<1>9. QED
  BY <1>1, <1>2, <1>4, <1>5, <1>8

\* A packet of handle_report's snapshot is resent.
LEMMA ResendStep ==
    ASSUME IInv, NEW s \in Keys, resend(s)
    PROVE  SenderStep /\ DOMAIN pending' = DOMAIN pending
<1> USE ArqConstants
<1>1. s \in DOMAIN resending /\ resending' = Without(resending, {s})
      /\ UNCHANGED <<sequence_out, control_seq_out, channel, filling, reports, receiverVars, got, abandoned>>
  BY DEF resend
<1>2. /\ DOMAIN resending' \subseteq Keys
      /\ resending' \in [DOMAIN resending' -> Kinds]
      /\ \A k \in DOMAIN resending' : resending'[k] = "data" => k < sequence_out
  BY <1>1 DEF Without, IInv, TypeOK, SentOnly
<1>3. /\ DOMAIN pending' = DOMAIN pending
      /\ DOMAIN pending' \subseteq Keys
      /\ pending' \in [DOMAIN pending' -> Pendings]
      /\ \A k \in DOMAIN pending' : pending'[k].kind = "data" => k < sequence_out
  <2>1. CASE pending' = pending
    BY <2>1 DEF IInv, TypeOK, SentOnly
  <2>2. CASE /\ s \in DOMAIN pending /\ pending[s].retries < kMaxRetries
             /\ pending' = [pending EXCEPT ![s].retries = pending[s].retries + 1]
    <3>1. PICK v : v = [pending[s] EXCEPT !.retries = pending[s].retries + 1]
      OBVIOUS
    <3>2. pending[s] \in Pendings
      BY <2>2 DEF IInv, TypeOK
    <3>3. v \in Pendings /\ v.kind = pending[s].kind
      BY <2>2, <3>1, <3>2 DEF Pendings
    <3>4. pending' = [pending EXCEPT ![s] = v]
      BY <2>2, <3>1
    <3>5. QED
      BY <2>2, <3>3, <3>4 DEF IInv, TypeOK, SentOnly
  <2>3. QED
    BY <2>1, <2>2 DEF resend
<1>4. wire' \subseteq Seqs /\ \A k \in wire' : k < sequence_out
  <2>1. CASE wire' = wire
    BY <2>1 DEF IInv, TypeOK, SentOnly
  <2>2. CASE resending[s] = "data" /\ wire' = wire \cup {s}
    <3>1. s < sequence_out
      BY <1>1, <2>2 DEF IInv, SentOnly
    <3>2. s \in Seqs
      BY <3>1, KeysAreNumbers DEF IInv, TypeOK, Seqs
    <3>3. QED
      BY <2>2, <3>1, <3>2 DEF IInv, TypeOK, SentOnly
  <2>3. QED
    BY <2>1, <2>2 DEF resend
<1>5. control_seq_out' \in 1 .. MaxControl + 1 /\ control_seq_out' >= control_seq_out
  BY <1>1 DEF IInv, TypeOK
<1>6. SenderStep
  BY <1>1, <1>2, <1>3, <1>4, <1>5 DEF SenderStep, IInv, TypeOK
<1>7. QED
  BY <1>3, <1>6

\* check_offline gives up everything in m_pending.
LEMMA CheckOfflineStep == IInv /\ check_offline => SenderStep /\ DOMAIN pending \subseteq abandoned'
<1> SUFFICES ASSUME IInv, check_offline PROVE SenderStep /\ DOMAIN pending \subseteq abandoned'
  OBVIOUS
<1>1. DOMAIN pending' = {} /\ pending' \in [DOMAIN pending' -> Pendings]
  BY DEF check_offline, Empty
<1>2. control_seq_out' \in 1 .. MaxControl + 1 /\ control_seq_out' >= control_seq_out
  BY ArqConstants DEF check_offline, IInv, TypeOK
<1>3. QED
  BY <1>1, <1>2 DEF check_offline, SenderStep, IInv, TypeOK, SentOnly, wireVars

\* The wire loses a packet or a report.
LEMMA LoseStep == IInv /\ Lose => SenderStep /\ pending' = pending
<1> SUFFICES ASSUME IInv, Lose PROVE SenderStep /\ pending' = pending
  OBVIOUS
<1>1. wire' \subseteq wire /\ reports' \subseteq reports
      /\ UNCHANGED <<senderVars, receiverVars, got, abandoned>>
  BY DEF Lose
<1>2. control_seq_out' \in 1 .. MaxControl + 1 /\ control_seq_out' >= control_seq_out
  BY <1>1, ArqConstants DEF senderVars, IInv, TypeOK
<1>3. QED
  BY <1>1, <1>2 DEF SenderStep, IInv, TypeOK, SentOnly, senderVars
-----------------------------------------------------------------------------
(* The receiving endpoint *)

\* The types of the receiver's state after a step that the sender and the wire have no part in.
ReceiverType ==
    /\ initialized \in BOOLEAN
    /\ next_expected \in 0 .. MaxData + 1
    /\ recv_seqs \subseteq Seqs
    /\ DOMAIN missing \subseteq Seqs
    /\ missing \in [DOMAIN missing -> [age : 0 .. GiveUp + 1, channel : Channels]]
    /\ got \subseteq Seqs
    /\ abandoned \subseteq Keys

\* A step of the receiving endpoint keeps the invariant if it keeps the receiver's part.
LEMMA ReceiverStepPreserves ==
    ASSUME IInv, UNCHANGED senderVars, wire' \subseteq wire,
           reports' \subseteq [ack : 0 .. MaxData, lost : SUBSET Seqs],
           ReceiverType', Cursor', Aged'
    PROVE  IInv'
<1>1. TypeOK'
  BY DEF IInv, TypeOK, ReceiverType, senderVars
<1>2. SentOnly'
  BY DEF IInv, SentOnly, senderVars
<1>3. QED
  BY <1>1, <1>2 DEF IInv

\* The first sequence.
LEMMA TrackFirstCursor ==
    ASSUME IInv, ~initialized, NEW s \in Seqs, got' = got \cup {s}, TrackFirst(s)
    PROVE  ReceiverType' /\ Cursor' /\ Aged'
<1> USE ArqConstants
<1>1. /\ initialized' = TRUE /\ next_expected' = s + 1 /\ abandoned' = abandoned \cup 1 .. s - 1
      /\ recv_seqs' = {} /\ DOMAIN missing' = {} /\ got' = {s} /\ missing' = missing
  BY DEF TrackFirst, IInv, Cursor
<1>2. s \in Nat /\ s >= 1 /\ s <= MaxData
  BY DEF Seqs
<1>3. 1 .. s - 1 \subseteq Keys
  BY <1>2 DEF Keys, Seqs
<1>4. ReceiverType'
  <2>1. next_expected' \in 0 .. MaxData + 1
    BY <1>1, <1>2
  <2>2. abandoned' \subseteq Keys
    BY <1>1, <1>3 DEF IInv, TypeOK
  <2>3. QED
    BY <1>1, <2>1, <2>2 DEF ReceiverType, IInv, TypeOK
<1>5. Cursor'
  <2>1. \A k \in 1 .. next_expected' - 1 : k \in got' \cup abandoned'
    BY <1>1, <1>2
  <2>2. next_expected' >= 1 /\ next_expected' \notin got'
        /\ \A k \in got' : ~(k > next_expected')
    BY <1>1, <1>2
  <2>3. QED
    BY <1>1, <2>1, <2>2 DEF Cursor
<1>6. QED
  BY <1>1, <1>4, <1>5 DEF Aged

\* A sequence behind the cursor.
LEMMA TrackLateCursor ==
    ASSUME IInv, initialized, NEW s \in Seqs, s < next_expected, got' = got \cup {s}, TrackLate(s)
    PROVE  ReceiverType' /\ Cursor' /\ Aged'
<1> USE ArqConstants
<1>1. /\ recv_seqs' = recv_seqs \cup {s}
      /\ initialized' = initialized /\ next_expected' = next_expected /\ abandoned' = abandoned
  BY DEF TrackLate
<1>2. /\ DOMAIN missing' = DOMAIN missing \ {s}
      /\ missing' \in [DOMAIN missing' -> [age : 0 .. GiveUp + 1, channel : Channels]]
      /\ \A g \in DOMAIN missing' : missing'[g] = missing[g]
  BY DEF TrackLate, Without, IInv, TypeOK
<1>3. next_expected \in Nat /\ s \in Nat /\ recv_seqs \subseteq Nat /\ got \subseteq Nat
  BY KeysAreNumbers DEF IInv, TypeOK
<1>4. ReceiverType'
  BY <1>1, <1>2 DEF ReceiverType, IInv, TypeOK
<1>5. Cursor'
  <2>1. /\ \A k \in 1 .. next_expected' - 1 : k \in got' \cup DOMAIN missing' \cup abandoned'
        /\ next_expected' >= 1
        /\ next_expected' \notin got'
        /\ \A k \in got' : k > next_expected' => k \in recv_seqs'
    BY <1>1, <1>2, <1>3 DEF IInv, Cursor
  <2>2. ASSUME NEW k \in recv_seqs', NEW j \in next_expected' .. k - 1
        PROVE  j \in recv_seqs' \cup DOMAIN missing' \cup abandoned'
    <3>1. k \in recv_seqs /\ j # s
      BY <1>1, <1>3, <2>2
    <3>2. QED
      BY <1>1, <1>2, <3>1, <2>2 DEF IInv, Cursor
  <2>3. QED
    BY <1>1, <2>1, <2>2 DEF IInv, Cursor
<1>6. Aged'
  BY <1>1, <1>2 DEF IInv, Aged
<1>7. QED
  BY <1>4, <1>5, <1>6

\* A sequence at the cursor or ahead of it.
LEMMA TrackAheadCursor ==
    ASSUME IInv, initialized, NEW s \in Seqs, s >= next_expected, channel[s] \in Channels,
           got' = got \cup {s}, TrackAhead(s)
    PROVE  ReceiverType' /\ Cursor' /\ Aged'
<1> USE ArqConstants
<1>1. PICK n, gaps, ne : /\ ne = next_expected
                         /\ n = Hole(next_expected, recv_seqs \cup {s})
                         /\ gaps = (next_expected .. s - 1) \ recv_seqs
  OBVIOUS
<1>2. /\ recv_seqs' = (recv_seqs \cup {s}) \ (ne .. n - 1) /\ next_expected' = n
      /\ initialized' = initialized /\ abandoned' = abandoned
  BY <1>1 DEF TrackAhead
<1>3. missing' = [g \in DOMAIN missing \cup gaps |->
                    [age |-> IF g \in DOMAIN missing THEN missing[g].age ELSE 0,
                     channel |-> IF g \in gaps THEN channel[s] ELSE missing[g].channel]]
  BY <1>1 DEF TrackAhead
<1>4. ne \in 1 .. MaxData + 1 /\ ne \in Nat /\ s \in Nat /\ s <= MaxData /\ recv_seqs \subseteq Nat
      /\ got \subseteq Nat
  BY <1>1, KeysAreNumbers DEF IInv, TypeOK, Cursor, Seqs
<1>5. n \in ne .. MaxData + 1 /\ n \notin recv_seqs \cup {s} /\ \A k \in ne .. n - 1 : k \in recv_seqs \cup {s}
  <2>1. recv_seqs \cup {s} \in SUBSET Seqs /\ next_expected \in 0 .. MaxData + 1
    BY DEF IInv, TypeOK
  <2>2. QED
    BY <1>1, <2>1, HoleStops
<1>6. gaps \subseteq Seqs /\ \A g \in gaps : g >= ne
  BY <1>1, <1>4 DEF Seqs
<1>7. /\ DOMAIN missing' = DOMAIN missing \cup gaps
      /\ \A g \in DOMAIN missing : missing'[g].age = missing[g].age
      /\ missing' \in [DOMAIN missing' -> [age : 0 .. GiveUp + 1, channel : Channels]]
  <2>1. DOMAIN missing' = DOMAIN missing \cup gaps
    BY <1>3
  <2>2. \A g \in DOMAIN missing : missing'[g].age = missing[g].age
    BY <1>3
  <2>3. ASSUME NEW g \in DOMAIN missing \cup gaps
        PROVE  missing'[g] \in [age : 0 .. GiveUp + 1, channel : Channels]
    <3>1. g \in DOMAIN missing => missing[g].age \in 0 .. GiveUp + 1 /\ missing[g].channel \in Channels
      BY DEF IInv, TypeOK
    <3>2. PICK a, c : /\ a = (IF g \in DOMAIN missing THEN missing[g].age ELSE 0)
                      /\ c = (IF g \in gaps THEN channel[s] ELSE missing[g].channel)
      OBVIOUS
    <3>3. a \in 0 .. GiveUp + 1 /\ c \in Channels
      BY <2>3, <3>1, <3>2
    <3>4. missing'[g] = [age |-> a, channel |-> c]
      BY <1>3, <2>3, <3>2
    <3>5. QED
      BY <3>3, <3>4
  <2>4. QED
    BY <1>3, <2>1, <2>2, <2>3
<1>8. ReceiverType'
  <2>1. n \in 0 .. MaxData + 1
    BY <1>4, <1>5
  <2>2. QED
    BY <1>2, <1>6, <1>7, <2>1 DEF ReceiverType, IInv, TypeOK
<1>9. Cursor'
  <2>1. ASSUME NEW k \in 1 .. n - 1 PROVE k \in got' \cup DOMAIN missing' \cup abandoned'
    <3>1. CASE k < ne
      BY <1>1, <1>2, <1>4, <1>7, <3>1, <2>1 DEF IInv, Cursor
    <3>2. CASE k >= ne
      <4>1. k \in ne .. n - 1
        BY <3>2, <1>4, <1>5, <2>1
      <4>2. QED
        BY <4>1, <1>5 DEF IInv, Cursor
    <3>3. QED
      BY <3>1, <3>2, <1>4
  <2>2. n \notin got'
    BY <1>1, <1>4, <1>5 DEF IInv, Cursor
  <2>3. ASSUME NEW k \in got', k > n PROVE k \in recv_seqs'
    <3>1. k \in Nat /\ k > ne
      BY <1>4, <1>5, <2>3
    <3>2. k \in recv_seqs \cup {s}
      BY <1>1, <2>3, <3>1 DEF IInv, Cursor
    <3>3. k \notin ne .. n - 1
      BY <3>1, <1>4, <1>5, <2>3
    <3>4. QED
      BY <1>2, <3>2, <3>3
  <2>4. ASSUME NEW k \in recv_seqs', NEW j \in n .. k - 1
        PROVE  j \in recv_seqs' \cup DOMAIN missing' \cup abandoned'
    <3>1. k \in recv_seqs \cup {s} /\ k \in Nat /\ j \in Nat /\ j \in ne .. k - 1 /\ j \notin ne .. n - 1
      BY <1>2, <1>4, <1>5, <2>4
    <3>2. CASE k = s
      <4>1. j \in gaps \/ j \in recv_seqs
        BY <1>1, <3>1, <3>2
      <4>2. QED
        BY <1>2, <1>7, <3>1, <4>1
    <3>3. CASE k \in recv_seqs
      <4>1. j \in recv_seqs \cup DOMAIN missing \cup abandoned
        BY <1>1, <3>1, <3>3 DEF IInv, Cursor
      <4>2. QED
        BY <1>2, <1>7, <3>1, <4>1
    <3>4. QED
      BY <3>1, <3>2, <3>3
  <2>5. n >= 1 /\ recv_seqs' \subseteq got'
    BY <1>2, <1>4, <1>5 DEF IInv, Cursor
  <2>6. QED
    BY <1>2, <2>1, <2>2, <2>3, <2>4, <2>5 DEF Cursor
<1>10. Aged'
  <2> SUFFICES ASSUME NEW g \in DOMAIN missing', g < n PROVE g \in got' \/ missing'[g].age > LossThreshold
    BY <1>2 DEF Aged
  <2>1. g \in Nat
    BY <1>6, <1>7, KeysAreNumbers DEF IInv, TypeOK
  <2>2. CASE g < ne
    BY <1>1, <1>4, <1>6, <1>7, <2>1, <2>2 DEF IInv, Aged
  <2>3. CASE g >= ne
    <3>1. g \in ne .. n - 1
      BY <1>4, <1>5, <2>1, <2>3
    <3>2. QED
      BY <1>5, <3>1 DEF IInv, Cursor
  <2>4. QED
    BY <1>4, <2>1, <2>2, <2>3
<1>11. QED
  BY <1>8, <1>9, <1>10

\* A data packet arrives.
LEMMA HandleDataPreserves ==
    ASSUME IInv, NEW s \in Seqs, handle_data(s)
    PROVE  IInv'
<1>1. /\ s \in wire /\ wire' \subseteq wire /\ got' = got \cup {s}
      /\ UNCHANGED <<senderVars, reports>>
  BY DEF handle_data
<1>2. channel[s] \in Channels
  <2>1. s \in 1 .. sequence_out - 1
    BY <1>1, KeysAreNumbers, ArqConstants DEF IInv, TypeOK, SentOnly
  <2>2. QED
    BY <2>1 DEF IInv, TypeOK
<1>3. ReceiverType' /\ Cursor' /\ Aged'
  <2>1. CASE ~initialized /\ TrackFirst(s)
    BY <1>1, <2>1, TrackFirstCursor
  <2>2. CASE initialized /\ s >= next_expected /\ TrackAhead(s)
    BY <1>1, <1>2, <2>2, TrackAheadCursor
  <2>3. CASE initialized /\ s < next_expected /\ TrackLate(s)
    BY <1>1, <2>3, TrackLateCursor
  <2>4. QED
    BY <2>1, <2>2, <2>3 DEF handle_data
<1>4. reports' \subseteq [ack : 0 .. MaxData, lost : SUBSET Seqs]
  BY <1>1 DEF IInv, TypeOK
<1>5. QED
  BY <1>1, <1>3, <1>4, ReceiverStepPreserves

\* What send_report does: the new cursor n, the gaps it keeps, and the report it sends.
ReportStep(n, kept, r) ==
    /\ n = CursorAfterSkips
    /\ kept = Largest(MaxMissing, DOMAIN missing \ (Unreliable \cup TooOld))
    /\ r.ack = IF initialized THEN n - 1 ELSE 0
    /\ r.lost = Smallest(MaxListed, Lost)
    /\ reports' = reports \cup {r}
    /\ next_expected' = IF initialized THEN n ELSE next_expected
    /\ recv_seqs' = IF initialized THEN recv_seqs \ (next_expected .. n - 1) ELSE recv_seqs
    /\ missing' = Without(missing, DOMAIN missing \ kept)
    /\ abandoned' = abandoned \cup (DOMAIN missing \ kept)
    /\ UNCHANGED <<senderVars, wire, initialized, got>>

\* The facts about the values of a send_report that its proofs share.
LEMMA SendReportFacts ==
    ASSUME IInv, send_report
    PROVE  \E n, kept, r :
              /\ ReportStep(n, kept, r)
              /\ r \in [ack : 0 .. MaxData, lost : SUBSET Seqs]
              /\ kept \subseteq DOMAIN missing /\ kept \cap Unreliable = {} /\ kept \cap TooOld = {}
              /\ DOMAIN missing' = kept
              /\ missing' \in [DOMAIN missing' -> [age : 0 .. GiveUp + 1, channel : Channels]]
              /\ \A g \in kept : missing'[g] = missing[g]
              /\ n \in next_expected .. MaxData + 1
              /\ n \notin recv_seqs
              /\ \A k \in next_expected .. n - 1 : k \in recv_seqs \cup Unreliable \cup Lost
<1> USE ArqConstants
<1>1. PICK n, kept, ack, list :
         /\ n = CursorAfterSkips
         /\ kept = Largest(MaxMissing, DOMAIN missing \ (Unreliable \cup TooOld))
         /\ ack = (IF initialized THEN n - 1 ELSE 0)
         /\ list = Smallest(MaxListed, Lost)
  OBVIOUS
<1>2. PICK r : r = [ack |-> ack, lost |-> list]
  OBVIOUS
<1>3. ReportStep(n, kept, r)
  BY <1>1, <1>2 DEF send_report, send_reports, ReportStep
<1>4. /\ n \in next_expected .. MaxData + 1
      /\ n \notin recv_seqs
      /\ \A k \in next_expected .. n - 1 : k \in recv_seqs \cup Unreliable \cup Lost
  <2>1. next_expected \in 0 .. MaxData + 1 /\ recv_seqs \cup Unreliable \cup Lost \in SUBSET Seqs
    BY GapsTyped DEF IInv, TypeOK
  <2>2. QED
    BY <1>1, <2>1, HoleStops DEF CursorAfterSkips
<1>5. kept \subseteq DOMAIN missing /\ kept \cap Unreliable = {} /\ kept \cap TooOld = {}
  BY <1>1 DEF Largest
<1>6. list \subseteq Seqs
  <2>1. list \subseteq Lost
    BY <1>1 DEF Smallest
  <2>2. QED
    BY <2>1, GapsTyped DEF IInv
<1>7. ack \in 0 .. MaxData
  <2>1. initialized => next_expected >= 1
    BY DEF IInv, Cursor
  <2>2. next_expected \in Nat
    BY DEF IInv, TypeOK
  <2>3. QED
    BY <1>1, <1>4, <2>1, <2>2
<1>8. r \in [ack : 0 .. MaxData, lost : SUBSET Seqs]
  BY <1>2, <1>6, <1>7
<1>9. missing' = Without(missing, DOMAIN missing \ kept)
  BY <1>3 DEF ReportStep
<1>10. /\ DOMAIN missing' = kept
       /\ missing' \in [DOMAIN missing' -> [age : 0 .. GiveUp + 1, channel : Channels]]
       /\ \A g \in kept : missing'[g] = missing[g]
  BY <1>5, <1>9 DEF Without, IInv, TypeOK
<1>11. QED
  BY <1>3, <1>4, <1>5, <1>8, <1>10

\* build_payload: skipping gaps keeps the cursor exact.
LEMMA SendReportPreserves == IInv /\ send_report => IInv'
<1> SUFFICES ASSUME IInv, send_report PROVE IInv'
  OBVIOUS
<1> USE ArqConstants
<1>1. PICK n, kept, r :
         /\ ReportStep(n, kept, r)
         /\ r \in [ack : 0 .. MaxData, lost : SUBSET Seqs]
         /\ kept \subseteq DOMAIN missing /\ kept \cap Unreliable = {} /\ kept \cap TooOld = {}
         /\ DOMAIN missing' = kept
         /\ missing' \in [DOMAIN missing' -> [age : 0 .. GiveUp + 1, channel : Channels]]
         /\ \A g \in kept : missing'[g] = missing[g]
         /\ n \in next_expected .. MaxData + 1
         /\ n \notin recv_seqs
         /\ \A k \in next_expected .. n - 1 : k \in recv_seqs \cup Unreliable \cup Lost
  BY SendReportFacts
<1>2. /\ abandoned' = abandoned \cup (DOMAIN missing \ kept)
      /\ got' = got /\ initialized' = initialized /\ wire' = wire /\ UNCHANGED senderVars
      /\ reports' = reports \cup {r}
  BY <1>1 DEF ReportStep
<1>3. reports' \subseteq [ack : 0 .. MaxData, lost : SUBSET Seqs]
  BY <1>1, <1>2 DEF IInv, TypeOK
<1>4. DOMAIN missing \subseteq Seqs /\ DOMAIN missing \subseteq Keys /\ recv_seqs \subseteq Nat
      /\ next_expected \in Nat /\ got \subseteq Nat
  BY KeysAreNumbers DEF IInv, TypeOK
<1>5. \A k : k \in DOMAIN missing \cup abandoned => k \in DOMAIN missing' \cup abandoned'
  BY <1>1, <1>2
<1>6. CASE ~initialized
  <2>1. next_expected' = next_expected /\ recv_seqs' = recv_seqs
    BY <1>1, <1>6 DEF ReportStep
  <2>2. ReceiverType'
    BY <1>1, <1>2, <1>4, <2>1 DEF ReceiverType, IInv, TypeOK
  <2>3. Cursor' /\ Aged'
    BY <1>1, <1>2, <1>5, <1>6, <2>1 DEF IInv, Cursor, Aged
  <2>4. QED
    BY <1>2, <1>3, <2>2, <2>3, ReceiverStepPreserves
<1>7. CASE initialized
  <2>1. next_expected' = n /\ recv_seqs' = recv_seqs \ (next_expected .. n - 1)
    BY <1>1, <1>7 DEF ReportStep
  <2>2. n \in Nat /\ n >= next_expected /\ n >= 1
    BY <1>1, <1>4, <1>7 DEF IInv, Cursor
  <2>3. ReceiverType'
    <3>1. n \in 0 .. MaxData + 1
      BY <1>1, <2>2
    <3>2. QED
      BY <1>1, <1>2, <1>4, <2>1, <3>1 DEF ReceiverType, IInv, TypeOK
  <2>4. Unreliable \cup Lost \subseteq DOMAIN missing
    BY GapsTyped DEF IInv
  <2>5. ASSUME NEW k \in 1 .. n - 1 PROVE k \in got' \cup DOMAIN missing' \cup abandoned'
    <3>1. k \in got \cup DOMAIN missing \cup abandoned
      <4>1. CASE k < next_expected
        BY <1>4, <1>7, <2>5, <4>1 DEF IInv, Cursor
      <4>2. CASE k >= next_expected
        <5>1. k \in next_expected .. n - 1
          BY <1>4, <2>2, <2>5, <4>2
        <5>2. QED
          BY <1>1, <2>4, <5>1 DEF IInv, Cursor
      <4>3. QED
        BY <1>4, <4>1, <4>2
    <3>2. QED
      BY <1>2, <1>5, <3>1
  <2>6. n \notin got
    <3>1. CASE n = next_expected
      BY <1>7, <3>1 DEF IInv, Cursor
    <3>2. CASE n > next_expected
      BY <1>1, <1>7, <3>2 DEF IInv, Cursor
    <3>3. QED
      BY <1>4, <2>2, <3>1, <3>2
  <2>7. ASSUME NEW k \in got, k > n PROVE k \in recv_seqs'
    <3>1. k \in Nat /\ k > next_expected /\ k \notin next_expected .. n - 1
      BY <1>4, <2>2, <2>7
    <3>2. QED
      BY <1>7, <2>1, <2>7, <3>1 DEF IInv, Cursor
  <2>8. ASSUME NEW k \in recv_seqs', NEW j \in n .. k - 1
        PROVE  j \in recv_seqs' \cup DOMAIN missing' \cup abandoned'
    <3>1. k \in recv_seqs /\ k \in Nat /\ j \in next_expected .. k - 1 /\ j \notin next_expected .. n - 1
      BY <1>4, <2>1, <2>2, <2>8
    <3>2. j \in recv_seqs \cup DOMAIN missing \cup abandoned
      BY <3>1 DEF IInv, Cursor
    <3>3. QED
      BY <1>5, <2>1, <3>1, <3>2
  <2>9. Cursor'
    <3>1. recv_seqs' \subseteq got'
      BY <1>2, <2>1 DEF IInv, Cursor
    <3>2. QED
      BY <1>2, <1>7, <2>1, <2>2, <2>5, <2>6, <2>7, <2>8, <3>1 DEF Cursor
  <2>10. Aged'
    <3> SUFFICES ASSUME NEW g \in kept, g < n PROVE g \in got \/ missing[g].age > LossThreshold
      BY <1>1, <1>2, <2>1 DEF Aged
    <3>1. CASE g < next_expected
      BY <1>1, <3>1 DEF IInv, Aged
    <3>2. CASE g >= next_expected
      <4>1. g \in next_expected .. n - 1
        BY <1>1, <1>4, <2>2, <3>2, KeysAreNumbers
      <4>2. g \in recv_seqs \/ g \in Lost
        BY <1>1, <4>1
      <4>3. QED
        BY <4>2 DEF Lost, IInv, Cursor
    <3>3. QED
      BY <1>1, <1>4, <3>1, <3>2, KeysAreNumbers
  <2>11. QED
    BY <1>2, <1>3, <2>3, <2>9, <2>10, ReceiverStepPreserves
<1>8. QED
  BY <1>6, <1>7

\* Time passes for the open gaps.
LEMMA TickPreserves == IInv /\ Tick => IInv'
<1> SUFFICES ASSUME IInv, Tick PROVE IInv'
  OBVIOUS
<1> USE ArqConstants
<1>1. /\ UNCHANGED <<initialized, next_expected, recv_seqs, got, abandoned, wire, reports>>
      /\ UNCHANGED senderVars /\ DOMAIN missing' = DOMAIN missing
  BY DEF Tick, wireVars
<1>2. ASSUME NEW g \in DOMAIN missing
      PROVE  /\ missing'[g] \in [age : 0 .. GiveUp + 1, channel : Channels]
             /\ missing'[g].age >= missing[g].age
  <2>1. PICK a : a = (IF missing[g].age > GiveUp THEN missing[g].age ELSE missing[g].age + 1)
    OBVIOUS
  <2>2. missing[g] \in [age : 0 .. GiveUp + 1, channel : Channels]
    BY DEF IInv, TypeOK
  <2>3. a \in 0 .. GiveUp + 1 /\ a >= missing[g].age
    BY <2>1, <2>2
  <2>4. missing'[g] = [missing[g] EXCEPT !.age = a]
    BY <2>1 DEF Tick
  <2>5. QED
    BY <2>2, <2>3, <2>4
<1>3. missing' \in [DOMAIN missing' -> [age : 0 .. GiveUp + 1, channel : Channels]]
  BY <1>1, <1>2 DEF Tick
<1>4. ReceiverType'
  BY <1>1, <1>3 DEF ReceiverType, IInv, TypeOK
<1>5. Cursor'
  BY <1>1 DEF IInv, Cursor
<1>6. Aged'
  <2> SUFFICES ASSUME NEW g \in DOMAIN missing, g < next_expected
               PROVE  g \in got \/ missing'[g].age > LossThreshold
    BY <1>1 DEF Aged
  <2>1. missing[g].age \in Nat /\ missing'[g].age \in Nat
    BY <1>2 DEF IInv, TypeOK
  <2>2. QED
    BY <1>2, <2>1 DEF IInv, Aged
<1>7. QED
  BY <1>1, <1>4, <1>5, <1>6, ReceiverStepPreserves DEF IInv, TypeOK
-----------------------------------------------------------------------------
(* The cursor is exact *)

\* Nothing was sent and nothing came.
LEMMA InitEstablishes == Init => IInv
<1> SUFFICES ASSUME Init PROVE IInv
  OBVIOUS
<1> USE ArqConstants
<1>1. DOMAIN channel = {} /\ DOMAIN pending = {} /\ DOMAIN resending = {} /\ DOMAIN missing = {}
  BY DEF Init, Empty
<1>2. channel \in [1 .. sequence_out - 1 -> Channels]
  <2>1. 1 .. sequence_out - 1 = {}
    BY DEF Init
  <2>2. QED
    BY <2>1 DEF Init, Empty
<1>3. /\ pending \in [DOMAIN pending -> Pendings] /\ resending \in [DOMAIN resending -> Kinds]
      /\ missing \in [DOMAIN missing -> [age : 0 .. GiveUp + 1, channel : Channels]]
  BY DEF Init, Empty
<1>4. TypeOK
  <2>1. sequence_out \in 1 .. MaxData + 1 /\ control_seq_out \in 1 .. MaxControl + 1
    BY DEF Init
  <2>2. filling \in 0 .. MaxData /\ next_expected \in 0 .. MaxData + 1
    BY DEF Init
  <2>3. initialized \in BOOLEAN
    BY DEF Init
  <2>4. wire = {} /\ reports = {} /\ recv_seqs = {} /\ got = {} /\ abandoned = {}
    BY DEF Init
  <2>5. QED
    BY <1>1, <1>2, <1>3, <2>1, <2>2, <2>3, <2>4 DEF TypeOK
<1>5. SentOnly /\ Cursor /\ Aged
  BY <1>1 DEF Init, SentOnly, Cursor, Aged
<1>6. QED
  BY <1>4, <1>5 DEF IInv

\* Every step of the endpoints and of the wire keeps the invariant.
LEMMA NextPreserves == IInv /\ [Next]_vars => IInv'
<1> SUFFICES ASSUME IInv, [Next]_vars PROVE IInv'
  OBVIOUS
<1>1. ASSUME NEW ch \in Channels, send_data_packet(ch) PROVE IInv'
  BY <1>1, SendDataPreserves
<1>2. CASE fill_bytes
  BY <1>2, FillStep, SenderStepPreserves
<1>3. CASE send_control
  BY <1>3, SendControlStep, SenderStepPreserves
<1>4. ASSUME NEW k \in 1 .. MaxControl, handle_ack(k) PROVE IInv'
  BY <1>4, HandleAckStep, SenderStepPreserves
<1>5. ASSUME NEW r \in reports, NEW dup \in BOOLEAN, handle_report(r, dup) PROVE IInv'
  BY <1>5, HandleReportStep, SenderStepPreserves
<1>6. ASSUME NEW s \in Keys, resend(s) PROVE IInv'
  BY <1>6, ResendStep, SenderStepPreserves
<1>7. CASE check_offline
  BY <1>7, CheckOfflineStep, SenderStepPreserves
<1>8. ASSUME NEW s \in Seqs, handle_data(s) PROVE IInv'
  BY <1>8, HandleDataPreserves
<1>9. CASE send_report
  BY <1>9, SendReportPreserves
<1>10. CASE Tick
  BY <1>10, TickPreserves
<1>11. CASE Lose
  BY <1>11, LoseStep, SenderStepPreserves
<1>12. CASE UNCHANGED vars
  <2>1. UNCHANGED <<sequence_out, control_seq_out, channel, pending, filling, resending, wire, reports,
                    initialized, next_expected, recv_seqs, missing, got, abandoned>>
    BY <1>12 DEF vars, senderVars, wireVars, receiverVars
  <2>2. QED
    BY <2>1 DEF IInv, TypeOK, SentOnly, Cursor, Aged
<1>13. QED
  BY <1>1, <1>2, <1>3, <1>4, <1>5, <1>6, <1>7, <1>8, <1>9, <1>10, <1>11, <1>12 DEF Next

\* The cumulative ack passes only what arrived, is still asked for or was given up; it
\* never stops at a packet that arrived, and what waits beyond it waits for a gap on the
\* list: for any number of packets and gaps, and any loss, duplication and reordering.
THEOREM CursorExact == Spec => []CursorIsExact
<1>1. Init => IInv
  BY InitEstablishes
<1>2. IInv /\ [Next]_vars => IInv'
  BY NextPreserves
<1>3. IInv => CursorIsExact
  <2> SUFFICES ASSUME IInv PROVE CursorIsExact
    OBVIOUS
  <2>1. ASSUME NEW s \in recv_seqs, s > next_expected
        PROVE  next_expected \in DOMAIN missing \cup abandoned
    <3>1. next_expected \in next_expected .. s - 1
      BY <2>1, KeysAreNumbers DEF IInv, TypeOK
    <3>2. initialized /\ next_expected \notin recv_seqs
      BY <2>1 DEF IInv, Cursor
    <3>3. QED
      BY <2>1, <3>1, <3>2 DEF IInv, Cursor
  <2>2. QED
    BY <2>1 DEF IInv, Cursor, CursorIsExact
<1>4. QED
  BY <1>1, <1>2, <1>3, PTL DEF Spec
-----------------------------------------------------------------------------
(* Nothing is pruned early *)

\* Steps that send no data: entries leave m_pending only when the receiver has the
\* packet or an endpoint gave it up, and reports on the way stay true.
LEMMA BufferStep ==
    ASSUME BufferInv, channel' = channel, control_seq_out' >= control_seq_out,
           got \subseteq got', abandoned \subseteq abandoned', reports' \subseteq reports,
           TypeOK',
           \A s \in DOMAIN pending :
              s \in DOMAIN pending' \cup got' \cup abandoned' \/ s < control_seq_out'
    PROVE  Reported' /\ NothingPrunedEarly'
<1>1. Reported'
  BY DEF BufferInv, Reported
<1>2. ASSUME NEW s \in DOMAIN channel, channel[s] \in Reliable, s >= control_seq_out'
      PROVE  s \in DOMAIN pending' \cup got' \cup abandoned'
  <2>1. s \in Int /\ control_seq_out \in Int /\ control_seq_out' \in Int
    BY ArqConstants DEF BufferInv, IInv, TypeOK
  <2>2. s >= control_seq_out /\ ~(s < control_seq_out')
    BY <1>2, <2>1
  <2>3. s \in DOMAIN pending \cup got \cup abandoned
    BY <1>2, <2>2 DEF BufferInv, NothingPrunedEarly
  <2>4. QED
    BY <2>2, <2>3
<1>3. QED
  BY <1>1, <1>2 DEF NothingPrunedEarly

\* send_data_packet puts what it sends on a reliable channel into m_pending.
LEMMA BufferSendData ==
    ASSUME BufferInv, NEW ch \in Channels, send_data_packet(ch)
    PROVE  Reported' /\ NothingPrunedEarly'
<1>1. PICK s : s = sequence_out
  OBVIOUS
<1>2. /\ channel' = With(channel, s, ch)
      /\ UNCHANGED <<control_seq_out, reports, got, abandoned>>
  BY <1>1 DEF send_data_packet
<1>3. /\ DOMAIN channel' = DOMAIN channel \cup {s} /\ channel'[s] = ch
      /\ \A k \in DOMAIN channel : k # s => channel'[k] = channel[k]
  BY <1>2 DEF With
<1>4. DOMAIN pending \subseteq DOMAIN pending' /\ (ch \in Reliable => s \in DOMAIN pending')
  BY <1>1 DEF send_data_packet, With
<1>5. Reported'
  BY <1>2 DEF BufferInv, Reported
<1>6. NothingPrunedEarly'
  BY <1>2, <1>3, <1>4 DEF BufferInv, NothingPrunedEarly
<1>7. QED
  BY <1>5, <1>6

\* A report lists every gap its ack has passed, when the list is long enough.
LEMMA BufferSendReport ==
    ASSUME BufferInv, ListFits, send_report
    PROVE  Reported' /\ NothingPrunedEarly'
<1>1. IInv
  BY DEF BufferInv
<1>2. PICK n, kept, r :
         /\ ReportStep(n, kept, r)
         /\ r \in [ack : 0 .. MaxData, lost : SUBSET Seqs]
         /\ kept \subseteq DOMAIN missing /\ kept \cap Unreliable = {} /\ kept \cap TooOld = {}
         /\ DOMAIN missing' = kept
         /\ missing' \in [DOMAIN missing' -> [age : 0 .. GiveUp + 1, channel : Channels]]
         /\ \A g \in kept : missing'[g] = missing[g]
         /\ n \in next_expected .. MaxData + 1
         /\ n \notin recv_seqs
         /\ \A k \in next_expected .. n - 1 : k \in recv_seqs \cup Unreliable \cup Lost
  BY <1>1, SendReportFacts
<1>3. /\ abandoned' = abandoned \cup (DOMAIN missing \ kept) /\ got' = got
      /\ reports' = reports \cup {r} /\ UNCHANGED senderVars
      /\ r.ack = (IF initialized THEN n - 1 ELSE 0) /\ r.lost = Smallest(MaxListed, Lost)
  BY <1>2 DEF ReportStep
<1>4. r.lost = Lost
  <2>1. Lost \in SUBSET Seqs /\ IsFiniteSet(Seqs)
    BY <1>1, GapsTyped, FS_Interval, ArqConstants DEF IInv, Seqs
  <2>2. IsFiniteSet(Lost)
    BY <2>1, FS_Subset
  <2>3. Lost \subseteq Int
    BY <2>1, KeysAreNumbers
  <2>4. PICK L : L = Lost
    OBVIOUS
  <2>5. Smallest(MaxListed, L) = L
    BY <2>2, <2>3, <2>4, SmallestOfAll DEF ListFits
  <2>6. QED
    BY <1>3, <2>4, <2>5
<1>5. next_expected \in Nat /\ n \in Nat
  BY <1>1, <1>2, ArqConstants DEF IInv, TypeOK
<1>6. ASSUME NEW s \in 1 .. r.ack PROVE s \in r.lost \cup got' \cup abandoned'
  <2>1. initialized /\ s \in 1 .. n - 1
    BY <1>3, <1>6
  <2>2. CASE s >= next_expected
    <3>1. s \in next_expected .. n - 1
      BY <1>5, <2>1, <2>2
    <3>2. s \in recv_seqs \cup Unreliable \cup Lost
      BY <1>2, <3>1
    <3>3. recv_seqs \subseteq got /\ Unreliable \subseteq DOMAIN missing
      BY <1>1, GapsTyped DEF IInv, Cursor
    <3>4. QED
      BY <1>2, <1>3, <1>4, <3>2, <3>3
  <2>3. CASE s < next_expected
    <3>1. s \in got \cup DOMAIN missing \cup abandoned
      BY <1>1, <1>5, <2>1, <2>3 DEF IInv, Cursor
    <3>2. CASE s \in kept /\ s \notin got
      <4>1. missing[s].age > LossThreshold
        BY <1>1, <1>2, <2>3, <3>2 DEF IInv, Aged
      <4>2. s \in Lost
        BY <1>2, <3>2, <4>1 DEF Lost
      <4>3. QED
        BY <1>4, <4>2
    <3>3. QED
      BY <1>3, <3>1, <3>2
  <2>4. QED
    BY <1>5, <2>1, <2>2, <2>3
<1>7. Reported'
  <2>1. ASSUME NEW q \in reports, NEW s \in 1 .. q.ack PROVE s \in q.lost \cup got' \cup abandoned'
    BY <1>3 DEF BufferInv, Reported
  <2>2. QED
    BY <1>3, <1>6, <2>1 DEF Reported
<1>8. NothingPrunedEarly'
  BY <1>3 DEF BufferInv, NothingPrunedEarly, senderVars
<1>9. QED
  BY <1>7, <1>8

\* Every step keeps the buffer's invariant, while the gaps fit on the list.
LEMMA BufferPreserves == BufferInv /\ ListFits /\ [Next]_vars => BufferInv'
<1> SUFFICES ASSUME BufferInv, ListFits, [Next]_vars PROVE BufferInv'
  OBVIOUS
<1>1. IInv /\ IInv' /\ TypeOK'
  BY NextPreserves DEF BufferInv, IInv
<1>2. SUFFICES Reported' /\ NothingPrunedEarly'
  BY <1>1 DEF BufferInv
<1>3. ASSUME NEW ch \in Channels, send_data_packet(ch) PROVE Reported' /\ NothingPrunedEarly'
  BY <1>3, BufferSendData
<1>4. ASSUME SenderStep,
             \A s \in DOMAIN pending :
                s \in DOMAIN pending' \cup got' \cup abandoned' \/ s < control_seq_out'
      PROVE  Reported' /\ NothingPrunedEarly'
  <2>1. /\ channel' = channel /\ control_seq_out' >= control_seq_out /\ got \subseteq got'
        /\ abandoned \subseteq abandoned' /\ reports' \subseteq reports
    BY <1>4 DEF SenderStep
  <2>2. QED
    BY <1>1, <1>4, <2>1, BufferStep
<1>5. CASE fill_bytes
  BY <1>1, <1>4, <1>5, FillStep
<1>6. CASE send_control
  BY <1>1, <1>4, <1>6, SendControlStep
<1>7. ASSUME NEW k \in 1 .. MaxControl, handle_ack(k) PROVE Reported' /\ NothingPrunedEarly'
  BY <1>1, <1>4, <1>7, HandleAckStep
<1>8. ASSUME NEW r \in reports, NEW dup \in BOOLEAN, handle_report(r, dup)
      PROVE  Reported' /\ NothingPrunedEarly'
  <2>1. /\ SenderStep
        /\ \A s \in DOMAIN pending :
             s \in DOMAIN pending' \cup abandoned' \/ (s <= r.ack /\ s \notin r.lost)
    BY <1>1, <1>8, HandleReportStep
  <2>2. ASSUME NEW s \in DOMAIN pending, s <= r.ack, s \notin r.lost
        PROVE  s \in got' \cup abandoned'
    <3>1. r.ack \in Nat /\ s \in Nat /\ s >= 1
      BY <1>1, KeysAreNumbers, ArqConstants DEF IInv, TypeOK
    <3>2. s \in 1 .. r.ack
      BY <2>2, <3>1
    <3>3. s \in got \cup abandoned
      BY <2>2, <3>2 DEF BufferInv, Reported
    <3>4. QED
      BY <2>1, <3>3 DEF SenderStep
  <2>3. QED
    BY <1>4, <2>1, <2>2
<1>9. ASSUME NEW s \in Keys, resend(s) PROVE Reported' /\ NothingPrunedEarly'
  BY <1>1, <1>4, <1>9, ResendStep
<1>10. CASE check_offline
  BY <1>1, <1>4, <1>10, CheckOfflineStep
<1>11. CASE Lose
  BY <1>1, <1>4, <1>11, LoseStep
<1>12. ASSUME NEW s \in Seqs, handle_data(s) PROVE Reported' /\ NothingPrunedEarly'
  <2>1. UNCHANGED senderVars /\ reports' = reports /\ got \subseteq got'
    BY <1>12 DEF handle_data
  <2>2. abandoned \subseteq abandoned'
    BY <1>12 DEF handle_data, TrackFirst, TrackAhead, TrackLate
  <2>3. control_seq_out' >= control_seq_out
    BY <1>1, <2>1, ArqConstants DEF senderVars, IInv, TypeOK
  <2>4. QED
    BY <1>1, <2>1, <2>2, <2>3, BufferStep DEF senderVars
<1>13. CASE send_report
  BY <1>13, BufferSendReport
<1>14. CASE Tick \/ UNCHANGED vars
  <2>1. UNCHANGED senderVars /\ UNCHANGED <<reports, got, abandoned>>
    BY <1>14 DEF Tick, wireVars, vars
  <2>2. QED
    BY <2>1 DEF BufferInv, Reported, NothingPrunedEarly, senderVars
<1>15. QED
  BY <1>3, <1>5, <1>6, <1>7, <1>8, <1>9, <1>10, <1>11, <1>12, <1>13, <1>14 DEF Next

\* A packet of a reliable channel leaves m_pending only when the receiver has it or an
\* endpoint gave it up by its own rules, however reports are lost, duplicated, late or out
\* of order, as long as no report has more lost sequences to list than it can carry
\* (256): the ack passes every gap that is old enough, listed or not.
THEOREM PrunedInTime == Spec /\ []ListFits => []NothingPrunedEarly
<1>1. Init => BufferInv
  <2> SUFFICES ASSUME Init PROVE BufferInv
    OBVIOUS
  <2>1. reports = {} /\ DOMAIN channel = {}
    BY DEF Init, Empty
  <2>2. QED
    BY <2>1, InitEstablishes DEF BufferInv, Reported, NothingPrunedEarly
<1>2. BufferInv /\ ListFits /\ [Next]_vars => BufferInv'
  BY BufferPreserves
<1>3. BufferInv => NothingPrunedEarly
  BY DEF BufferInv
<1>4. QED
  BY <1>1, <1>2, <1>3, PTL DEF Spec
=============================================================================
