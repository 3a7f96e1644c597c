------------------------------ MODULE TightArq ------------------------------
(***************************************************************************)
(* Selective retransmission of Tight, for the data one endpoint (the       *)
(* sender) has for another (the receiver) over a wire that loses,          *)
(* duplicates and reorders datagrams: sequence numbers and the             *)
(* retransmission buffer m_pending (transport.cpp), the receiver's gap     *)
(* tracking (reassembler.cpp), and the periodic report that carries the    *)
(* cumulative ack and the lost sequences back (report.cpp).                *)
(*                                                                         *)
(* Ackable control packets (Handshake, HandshakeAck, Online) have their    *)
(* own counter but share m_pending with the data.                          *)
(*                                                                         *)
(* Threads: send_data_packet runs on the encode thread, control packets    *)
(* and check_offline on the reactor, handle_ack and handle_report on the   *)
(* receiver thread; handle_report resends after it released peer.m_mu.     *)
(***************************************************************************)
EXTENDS Integers, FiniteSets

CONSTANTS Channels,        \* logical channels
          Reliable,        \* those with channel_reliable set, at both ends
          MaxData,         \* bound: data packets
          MaxControl,      \* bound: ackable control packets
          MaxFlight,       \* bound: reports under way
          kMaxRetries,     \* resends of one packet
          LossThreshold,   \* ticks after which a gap is reported: 3.5 RTT
          GiveUp,          \* ticks after which it is dropped: 12 reports
          MaxListed,       \* lost sequences one report can carry (256)
          MaxMissing       \* gaps the receiver keeps (4096)

ASSUME ArqConstants ==
    /\ Reliable \subseteq Channels
    /\ MaxData \in Nat /\ MaxControl \in Nat /\ MaxFlight \in Nat
    /\ kMaxRetries \in Nat /\ LossThreshold \in Nat /\ GiveUp \in Nat
    /\ MaxListed \in Nat /\ MaxMissing \in Nat

VARIABLES
    sequence_out,       \* sender: m_sequence_out
    control_seq_out,    \* sender: m_control_seq_out
    channel,            \* the channel of each data packet sent
    pending,            \* sender: m_pending, seq -> [kind, retries]
    filling,            \* the sequence whose m_bytes is to be filled in, or 0
    resending,          \* handle_report's snapshot, not yet resent: seq -> kind
    wire,               \* data packets under way
    reports,            \* reports under way
    initialized,        \* receiver: m_seq_initialized
    next_expected,      \* receiver: m_next_expected_seq
    recv_seqs,          \* receiver: m_recv_seqs
    missing,            \* receiver: m_missing_seqs and m_missing_channel
    got,                \* data packets that arrived
    abandoned           \* packets an endpoint gave up on by its own rules

senderVars   == <<sequence_out, control_seq_out, channel, pending, filling, resending>>
wireVars     == <<wire, reports>>
receiverVars == <<initialized, next_expected, recv_seqs, missing>>
vars == <<senderVars, wireVars, receiverVars, got, abandoned>>

Seqs     == 1 .. MaxData
Keys     == Seqs \cup 1 .. MaxControl
Kinds    == {"data", "control", "blank"}
Pendings == [kind : Kinds, retries : 0 .. kMaxRetries]
Empty    == [s \in {} |-> 0]

TypeOK ==
    /\ sequence_out \in 1 .. MaxData + 1
    /\ control_seq_out \in 1 .. MaxControl + 1
    /\ channel \in [1 .. sequence_out - 1 -> Channels]
    /\ DOMAIN pending \subseteq Keys
    /\ pending \in [DOMAIN pending -> Pendings]
    /\ filling \in 0 .. MaxData
    /\ DOMAIN resending \subseteq Keys
    /\ resending \in [DOMAIN resending -> Kinds]
    /\ wire \subseteq Seqs
    /\ reports \subseteq [ack : 0 .. MaxData, lost : SUBSET Seqs]
    /\ initialized \in BOOLEAN
    /\ next_expected \in 0 .. MaxData + 1
    /\ recv_seqs \subseteq Seqs
    /\ DOMAIN missing \subseteq Seqs
    /\ missing \in [DOMAIN missing -> [age : 0 .. GiveUp + 1, channel : Channels]]
    /\ got \subseteq Seqs
    /\ abandoned \subseteq Keys

Init ==
    /\ sequence_out = 1 /\ control_seq_out = 1
    /\ channel = Empty
    /\ pending = Empty /\ filling = 0 /\ resending = Empty
    /\ wire = {} /\ reports = {}
    /\ initialized = FALSE /\ next_expected = 0
    /\ recv_seqs = {} /\ missing = Empty
    /\ got = {} /\ abandoned = {}

\* The function f without the arguments in S.
Without(f, S) == [s \in DOMAIN f \ S |-> f[s]]

\* The function f with s mapped to v.
With(f, s, v) == [x \in DOMAIN f \cup {s} |-> IF x = s THEN v ELSE f[x]]

\* The first number from n on that is not in S.
Hole(n, S) ==
    CHOOSE m \in n .. MaxData + 1 : m \notin S /\ \A k \in n .. m - 1 : k \in S

\* The members of S with fewer than n smaller ones, and with fewer than n
\* larger ones.
Smallest(n, S) == {s \in S : Cardinality({k \in S : k < s}) < n}
Largest(n, S)  == {s \in S : Cardinality({k \in S : k > s}) < n}
-----------------------------------------------------------------------------
(* Sending endpoint *)

\* send_data_packet up to send_raw: the sequence, and the entry in m_pending
\* of a packet on a reliable channel, under peer.m_mu.  An entry that is
\* there already (a control packet's) is taken over with its retries.
send_data_packet(ch) ==
    LET s == sequence_out
        r == IF s \in DOMAIN pending THEN pending[s].retries ELSE 0
    IN  /\ s <= MaxData
        /\ filling = 0
        /\ sequence_out' = s + 1
        /\ channel' = With(channel, s, ch)
        /\ wire' = wire \cup {s}
        /\ IF ch \in Reliable
           THEN /\ pending' = With(pending, s, [kind |-> "data", retries |-> r])
                /\ filling' = s
           ELSE UNCHANGED <<pending, filling>>
        /\ UNCHANGED <<control_seq_out, resending, reports, receiverVars,
                       got, abandoned>>

\* send_data_packet's last statement, under peer.m_mu again: m_pending[seq]
\* makes a blank entry when the packet's own is gone by now.
fill_bytes ==
    /\ filling # 0
    /\ filling' = 0
    /\ pending' = IF filling \in DOMAIN pending THEN pending
                  ELSE With(pending, filling, [kind |-> "blank", retries |-> 0])
    /\ UNCHANGED <<sequence_out, control_seq_out, channel, resending, wireVars,
                   receiverVars, got, abandoned>>

\* send_control of an ackable packet.
send_control ==
    LET s == control_seq_out
        r == IF s \in DOMAIN pending THEN pending[s].retries ELSE 0
    IN  /\ s <= MaxControl
        /\ control_seq_out' = s + 1
        /\ pending' = With(pending, s, [kind |-> "control", retries |-> r])
        /\ UNCHANGED <<sequence_out, channel, filling, resending, wireVars,
                       receiverVars, got, abandoned>>

\* handle_ack of a control packet (the receiver acknowledges each copy it
\* gets at once, so the ack may come at any time, more than once, or never):
\* the entry of that number goes, whatever it holds.
handle_ack(k) ==
    /\ resending = Empty
    /\ k < control_seq_out
    /\ k \in DOMAIN pending
    /\ pending' = Without(pending, {k})
    /\ UNCHANGED <<sequence_out, control_seq_out, channel, filling, resending,
                   wireVars, receiverVars, got, abandoned>>

\* Mutant: the lost sequences are pruned with the acknowledged ones.
PrunableLost(r, s) == s <= r.ack \/ pending[s].retries >= kMaxRetries

\* Mutant: the acknowledged sequence itself is kept.
PrunableStrict(r, s) ==
    \/ s < r.ack /\ s \notin r.lost
    \/ pending[s].retries >= kMaxRetries

\* Report::handle: what the report lets the sender drop.
Prunable(r, s) ==
    \/ s <= r.ack /\ s \notin r.lost
    \/ pending[s].retries >= kMaxRetries

\* Report::handle under peer.m_mu; a duplicate of the report may follow.
handle_report(r, dup) ==
    LET gone == {s \in DOMAIN pending : Prunable(r, s)}
        last == {s \in DOMAIN pending : pending[s].retries >= kMaxRetries}
    IN  /\ resending = Empty
        /\ r \in reports
        /\ reports' = IF dup THEN reports ELSE reports \ {r}
        /\ resending' = [s \in (DOMAIN pending \cap r.lost) \ last |-> pending[s].kind]
        /\ pending' = Without(pending, gone)
        /\ abandoned' = abandoned \cup last
        /\ UNCHANGED <<sequence_out, control_seq_out, channel, filling, wire,
                       receiverVars, got>>

\* Report::handle outside the lock: one packet of the snapshot is resent,
\* and its entry, if it is still there, counts it.
resend(s) ==
    /\ s \in DOMAIN resending
    /\ \A k \in DOMAIN resending : s <= k
    /\ resending' = Without(resending, {s})
    /\ wire' = IF resending[s] = "data" THEN wire \cup {s} ELSE wire
    /\ pending' = IF s \in DOMAIN pending /\ pending[s].retries < kMaxRetries
                  THEN [pending EXCEPT ![s].retries = @ + 1] ELSE pending
    /\ UNCHANGED <<sequence_out, control_seq_out, channel, filling, reports,
                   receiverVars, got, abandoned>>

\* check_offline at the sender: the peer is dead and the buffer is cleared.
check_offline ==
    /\ DOMAIN pending # {}
    /\ pending' = Empty
    /\ abandoned' = abandoned \cup DOMAIN pending
    /\ UNCHANGED <<sequence_out, control_seq_out, channel, filling, resending,
                   wireVars, receiverVars, got>>
-----------------------------------------------------------------------------
(* Receiving endpoint *)

\* Reassembler::handle_data, a sequence behind the cursor.  It stays in
\* m_recv_seqs: the loop that follows starts at the cursor.
TrackLate(s) ==
    /\ recv_seqs' = recv_seqs \cup {s}
    /\ missing' = Without(missing, {s})
    /\ UNCHANGED <<initialized, next_expected, abandoned>>

\* Mutant: what was received behind a filled gap is not taken with it.
TrackAheadNoDrain(s) ==
    LET gaps == (next_expected .. s - 1) \ recv_seqs
    IN  /\ missing' = [g \in DOMAIN missing \cup gaps |->
                          IF g \in DOMAIN missing THEN missing[g]
                          ELSE [age |-> 0, channel |-> channel[s]]]
        /\ next_expected' = IF s = next_expected THEN s + 1 ELSE next_expected
        /\ recv_seqs' = IF s = next_expected THEN recv_seqs ELSE recv_seqs \cup {s}
        /\ UNCHANGED <<initialized, abandoned>>

\* Reassembler::handle_data, a sequence at or ahead of the cursor: every
\* sequence it skips is missing, since the first packet that showed it, and
\* is taken to be of the channel of the packet that showed it last.
TrackAhead(s) ==
    LET gaps == (next_expected .. s - 1) \ recv_seqs
        n    == Hole(next_expected, recv_seqs \cup {s})
    IN  /\ missing' = [g \in DOMAIN missing \cup gaps |->
                          [age |-> IF g \in DOMAIN missing THEN missing[g].age ELSE 0,
                           channel |-> IF g \in gaps THEN channel[s]
                                       ELSE missing[g].channel]]
        /\ next_expected' = n
        /\ recv_seqs' = (recv_seqs \cup {s}) \ (next_expected .. n - 1)
        /\ UNCHANGED <<initialized, abandoned>>

\* Reassembler::handle_data, the first sequence: what was sent before it and
\* has not arrived will not be asked for.
TrackFirst(s) ==
    /\ initialized' = TRUE
    /\ next_expected' = s + 1
    /\ abandoned' = abandoned \cup 1 .. s - 1
    /\ UNCHANGED <<recv_seqs, missing>>

\* A data packet arrives.
handle_data(s) ==
    /\ s \in wire
    /\ wire' = wire \ {s}
    /\ got' = got \cup {s}
    /\ \/ ~initialized /\ TrackFirst(s)
       \/ initialized /\ s >= next_expected /\ TrackAhead(s)
       \/ initialized /\ s < next_expected /\ TrackLate(s)
    /\ UNCHANGED <<senderVars, reports>>

\* Gaps of a channel without retransmission: build_payload drops them.
Unreliable == {g \in DOMAIN missing : missing[g].channel \notin Reliable}

\* Mutant: a gap is reported for ever.
TooOldNever == {}

\* Gaps nobody filled for twelve reports: build_payload drops them.
TooOld == {g \in DOMAIN missing \ Unreliable : missing[g].age > GiveUp}

\* The gaps build_payload reports.
Lost == {g \in DOMAIN missing \ (Unreliable \cup TooOld) :
            missing[g].age > LossThreshold}

\* build_payload's cursor: in ascending order, the unreliable and the
\* reported gaps are skipped when they are at the cursor, with what was
\* received behind them.
CursorAfterSkips == Hole(next_expected, recv_seqs \cup Unreliable \cup Lost)

\* send_reports: the report leaves past the queues.
send_reports(r) ==
    /\ Cardinality(reports \cup {r}) <= MaxFlight
    /\ reports' = reports \cup {r}

\* build_payload on the reactor, and the report is sent.
send_report ==
    LET n    == CursorAfterSkips
        kept == Largest(MaxMissing, DOMAIN missing \ (Unreliable \cup TooOld))
        r    == [ack  |-> IF initialized THEN n - 1 ELSE 0,
                 lost |-> Smallest(MaxListed, Lost)]
    IN  /\ send_reports(r)
        /\ next_expected' = IF initialized THEN n ELSE next_expected
        /\ recv_seqs' = IF initialized THEN recv_seqs \ (next_expected .. n - 1)
                        ELSE recv_seqs
        /\ missing' = Without(missing, DOMAIN missing \ kept)
        /\ abandoned' = abandoned \cup (DOMAIN missing \ kept)
        /\ UNCHANGED <<senderVars, wire, initialized, got>>

\* Time passes for the open gaps.
Tick ==
    /\ \E g \in DOMAIN missing : missing[g].age <= GiveUp
    /\ missing' = [g \in DOMAIN missing |->
                     [missing[g] EXCEPT !.age = IF @ > GiveUp THEN @ ELSE @ + 1]]
    /\ UNCHANGED <<senderVars, wireVars, initialized, next_expected, recv_seqs,
                   got, abandoned>>

\* The wire loses a packet or a report.
Lose ==
    /\ \/ \E s \in wire : wire' = wire \ {s} /\ UNCHANGED reports
       \/ \E r \in reports : reports' = reports \ {r} /\ UNCHANGED wire
    /\ UNCHANGED <<senderVars, receiverVars, got, abandoned>>
-----------------------------------------------------------------------------
Next ==
    \/ \E ch \in Channels : send_data_packet(ch)
    \/ fill_bytes
    \/ send_control
    \/ \E k \in 1 .. MaxControl : handle_ack(k)
    \/ \E r \in reports, dup \in BOOLEAN : handle_report(r, dup)
    \/ \E s \in Keys : resend(s)
    \/ check_offline
    \/ \E s \in Seqs : handle_data(s)
    \/ send_report
    \/ Tick
    \/ Lose

Spec == Init /\ [][Next]_vars

\* The reactor beats, the threads run and time passes; the wire delivers a
\* report now and then.
FairSpec ==
    /\ Spec
    /\ WF_vars(fill_bytes)
    /\ WF_vars(\E s \in Keys : resend(s))
    /\ WF_vars(send_report)
    /\ WF_vars(Tick)
    /\ SF_vars(\E r \in reports : handle_report(r, FALSE))
-----------------------------------------------------------------------------
(* Properties *)

\* A packet of a reliable channel leaves m_pending only when the receiver
\* has it, or one of the endpoints gave it up by its own rules: no lost,
\* late, duplicated or reordered report makes the sender drop what the
\* receiver still asks for.  (Numbers below the control counter are shared
\* with control packets.)
NothingPrunedEarly ==
    \A s \in DOMAIN channel :
        channel[s] \in Reliable /\ s >= control_seq_out
            => s \in DOMAIN pending \cup got \cup abandoned

\* Every sequence the cumulative ack has passed arrived, is still asked for,
\* or was given up: skipping gaps never forgets one.  The ack never stops at
\* a packet that arrived, remembers what arrived beyond it, and what waits
\* there waits for a gap that is still being watched.
CursorIsExact ==
    /\ TypeOK
    /\ initialized => /\ \A s \in 1 .. next_expected - 1 :
                             s \in got \cup DOMAIN missing \cup abandoned
                      /\ next_expected \notin got
                      /\ \A s \in got : s > next_expected => s \in recv_seqs
    /\ \A s \in recv_seqs : s > next_expected =>
           next_expected \in DOMAIN missing \cup abandoned

\* No gap stays on the list for ever, whether it is filled or not.
GapIsSettled ==
    \A s \in Seqs : (s \in DOMAIN missing) ~> (s \notin DOMAIN missing)

\* The retransmission buffer does not leak: what the cumulative ack has
\* passed leaves m_pending, even when it never arrives.
AckedIsReleased ==
    \A s \in Seqs : (s \in DOMAIN pending /\ s < next_expected)
                        ~> (s \notin DOMAIN pending)

\* A sequence on the list of missing ones has not arrived: "when the
\* retransmission arrives the Reassembler removes it" (report.cpp).
MissingHasNotArrived == DOMAIN missing \cap got = {}
=============================================================================
