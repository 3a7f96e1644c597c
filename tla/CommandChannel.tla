--------------------------- MODULE CommandChannel ---------------------------
(***************************************************************************)
(* One direction of Tight's command channel (creek/tight/src/command.cpp)  *)
(* between a sending and a receiving endpoint, with the transport code     *)
(* that drives it: send_command, handle_command, flush_commands and the    *)
(* resets of a (re)handshake.  The wire may lose, duplicate and reorder    *)
(* datagrams: net only grows and any packet of it may arrive at any time,  *)
(* any number of times, or never.                                          *)
(*                                                                         *)
(* Two threads of the receiving endpoint take commands out of the channel: *)
(* the receiver thread (handle) and the reactor thread (flush_expired).    *)
(* Each works on the channel under peer.m_mu, but fires the callbacks of   *)
(* what it got after it released the mutex, one after another.             *)
(***************************************************************************)
EXTENDS Naturals, Sequences

CONSTANTS MaxCmds,      \* bound: commands sent in all
          MaxResets,    \* bound: resets of either endpoint
          Rtts,         \* the RTT estimates that may be current (0: none yet)
          DefaultRtt,   \* the 10 ms used while there is no estimate
          kMaxWaitRtt,  \* a gap is waited for this many RTTs
          MaxWait       \* bound: the age of a gap is not counted further

ASSUME CommandConstants ==
    /\ MaxCmds \in Nat /\ MaxResets \in Nat
    /\ DefaultRtt \in Nat /\ kMaxWaitRtt \in Nat /\ MaxWait \in Nat
    /\ Rtts \subseteq Nat

VARIABLES
    cmd_seq_out,        \* sender: m_cmd_seq_out
    sent_count,         \* commands sent so far; the k-th has id k
    net,                \* packets ever put on the wire
    initialized,        \* receiver: m_cmd_initialized
    next_expected,      \* receiver: m_cmd_next_expected
    held,               \* receiver: m_cmd_held, sequence -> command id
    gap_age,            \* ticks since m_cmd_gap_since
    handed,             \* packets taken out of the channel in this session
    ready,              \* per thread: taken out, callback not yet fired
    fired,              \* packets given to the callback in this session
    resets              \* resets so far

vars == <<cmd_seq_out, sent_count, net, initialized, next_expected, held,
          gap_age, handed, ready, fired, resets>>

sender   == <<cmd_seq_out, sent_count, net>>
receiver == <<initialized, next_expected, held, gap_age, handed, ready, fired>>

Seqs    == 1 .. MaxCmds
Packets == [seq : Seqs, id : Seqs]
Threads == {"receiver", "reactor"}
Empty   == [s \in {} |-> 0]

TypeOK ==
    /\ cmd_seq_out \in 1 .. MaxCmds + 1
    /\ sent_count \in 0 .. MaxCmds
    /\ net \subseteq Packets
    /\ initialized \in BOOLEAN
    /\ next_expected \in 0 .. MaxCmds + 1
    /\ DOMAIN held \subseteq Seqs
    /\ held \in [DOMAIN held -> Seqs]
    /\ gap_age \in 0 .. MaxWait
    /\ handed \in Seq(Packets)
    /\ ready \in [Threads -> Seq(Packets)]
    /\ fired \in Seq(Packets)
    /\ resets \in 0 .. MaxResets

Init ==
    /\ cmd_seq_out = 1
    /\ sent_count = 0
    /\ net = {}
    /\ initialized = FALSE
    /\ next_expected = 0
    /\ held = Empty
    /\ gap_age = 0
    /\ handed = << >>
    /\ ready = [t \in Threads |-> << >>]
    /\ fired = << >>
    /\ resets = 0
-----------------------------------------------------------------------------
(* Sending endpoint *)

\* send_command: the packet takes the next sequence and goes out directly.
send_command ==
    /\ sent_count < MaxCmds
    /\ sent_count' = sent_count + 1
    /\ net' = net \cup {[seq |-> cmd_seq_out, id |-> sent_count']}
    /\ cmd_seq_out' = cmd_seq_out + 1
    /\ UNCHANGED <<receiver, resets>>

\* A Handshake or HandshakeAck reaches the sending endpoint.
reset_sender ==
    /\ resets < MaxResets
    /\ resets' = resets + 1
    /\ cmd_seq_out' = 1
    /\ UNCHANGED <<sent_count, net, receiver>>
-----------------------------------------------------------------------------
(* Receiving endpoint: the channel, under peer.m_mu *)

\* The first sequence from n on that is not held: where drain_locked stops.
Hole(n, H) ==
    CHOOSE m \in n .. MaxCmds + 1 :
        /\ m \notin H
        /\ \A k \in n .. m - 1 : k \in H

\* drain_locked: takes the run of held commands that starts at n.
Run(n, h) ==
    [i \in 1 .. Hole(n, DOMAIN h) - n |-> [seq |-> n + i - 1, id |-> h[n + i - 1]]]

\* Mutant: the run is delivered, and its commands stay in the map.
AfterRunKept(n, h) == h

\* What the map holds once that run is taken out.
AfterRun(n, h) ==
    [s \in DOMAIN h \ (n .. Hole(n, DOMAIN h) - 1) |-> h[s]]

\* expire_locked's wait, in ticks.
wait_us(rtt) == kMaxWaitRtt * (IF rtt > 0 THEN rtt ELSE DefaultRtt)

\* The smallest held sequence: m_cmd_held is an ordered map.
FirstHeld(h) == CHOOSE s \in DOMAIN h : \A k \in DOMAIN h : s <= k

\* What the channel does with out: the thread t will fire it.
HandOver(t, out) ==
    /\ handed' = handed \o out
    /\ ready' = [ready EXCEPT ![t] = out]

\* Mutant: an expired gap is waited for again instead of skipped.
SkipGapStuck(t, h) ==
    /\ gap_age' = 0
    /\ UNCHANGED <<next_expected, held, handed, ready>>

\* Mutant: the cursor is left one past the end of the run.
SkipGapPast(t, h) ==
    /\ next_expected' = Hole(FirstHeld(h), DOMAIN h) + 1
    /\ held' = AfterRun(FirstHeld(h), h)
    /\ gap_age' = 0
    /\ HandOver(t, Run(FirstHeld(h), h))

\* expire_locked once the wait is over: the gap is skipped and what follows
\* it goes out; a further gap starts a wait of its own.
SkipGap(t, h) ==
    /\ next_expected' = Hole(FirstHeld(h), DOMAIN h)
    /\ held' = AfterRun(FirstHeld(h), h)
    /\ gap_age' = 0
    /\ HandOver(t, Run(FirstHeld(h), h))

Base(p) == IF initialized THEN next_expected ELSE p.seq

\* handle, the sequence the channel waits for (or the first of a session).
HandleNext(p) ==
    /\ p.seq = Base(p)
    /\ initialized' = TRUE
    /\ next_expected' = Hole(p.seq + 1, DOMAIN held)
    /\ held' = AfterRun(p.seq + 1, held)
    /\ HandOver("receiver", <<p>> \o Run(p.seq + 1, held))
    /\ UNCHANGED gap_age

\* handle, a sequence ahead of a gap: it is held (an earlier copy wins), the
\* wait starts with the first held command, and may be over already.
HandleAhead(p, rtt) ==
    LET h   == [s \in DOMAIN held \cup {p.seq} |->
                   IF s \in DOMAIN held THEN held[s] ELSE p.id]
        age == IF DOMAIN held = {} THEN 0 ELSE gap_age
    IN  /\ p.seq > Base(p)
        /\ UNCHANGED initialized
        /\ IF age >= wait_us(rtt)
           THEN SkipGap("receiver", h)
           ELSE /\ held' = h
                /\ gap_age' = age
                /\ UNCHANGED <<next_expected, handed, ready>>

\* Mutant: a late copy of a command is delivered.
HandleLateDelivered(p) ==
    /\ p.seq < Base(p)
    /\ HandOver("receiver", <<p>>)
    /\ UNCHANGED <<initialized, next_expected, held, gap_age>>

\* handle, a sequence already delivered or skipped: dropped.
HandleLate(p) ==
    /\ p.seq < Base(p)
    /\ UNCHANGED <<initialized, next_expected, held, gap_age, handed, ready>>

\* handle_command on the receiver thread, which has fired what it took before.
handle_command(p, rtt) ==
    /\ ready["receiver"] = << >>
    /\ HandleNext(p) \/ HandleAhead(p, rtt) \/ HandleLate(p)
    /\ UNCHANGED <<sender, fired, resets>>

\* flush_commands on the reactor thread.
flush_commands(rtt) ==
    /\ ready["reactor"] = << >>
    /\ DOMAIN held # {}
    /\ gap_age >= wait_us(rtt)
    /\ SkipGap("reactor", held)
    /\ UNCHANGED <<sender, initialized, fired, resets>>

\* fire_command: the callback runs outside every lock.
fire_command(t) ==
    /\ ready[t] # << >>
    /\ fired' = Append(fired, Head(ready[t]))
    /\ ready' = [ready EXCEPT ![t] = Tail(@)]
    /\ UNCHANGED <<sender, initialized, next_expected, held, gap_age, handed, resets>>

\* Mutant: the commands held for the old session survive the reset.
reset_receiver_keeps_held ==
    /\ ready["receiver"] = << >>
    /\ resets < MaxResets
    /\ resets' = resets + 1
    /\ initialized' = FALSE
    /\ next_expected' = 0
    /\ handed' = << >>
    /\ fired' = << >>
    /\ UNCHANGED <<sender, ready, held, gap_age>>

\* A Handshake or HandshakeAck reaches the receiving endpoint, on its
\* receiver thread.
reset_receiver ==
    /\ ready["receiver"] = << >>
    /\ resets < MaxResets
    /\ resets' = resets + 1
    /\ initialized' = FALSE
    /\ next_expected' = 0
    /\ held' = Empty
    /\ gap_age' = 0
    /\ handed' = << >>
    /\ fired' = << >>
    /\ UNCHANGED <<sender, ready>>

\* Time passes while a gap is open.
Tick ==
    /\ DOMAIN held # {}
    /\ gap_age < MaxWait
    /\ gap_age' = gap_age + 1
    /\ UNCHANGED <<sender, initialized, next_expected, held, handed, ready, fired, resets>>
-----------------------------------------------------------------------------
Next ==
    \/ send_command
    \/ reset_sender
    \/ \E p \in net, rtt \in Rtts : handle_command(p, rtt)
    \/ \E rtt \in Rtts : flush_commands(rtt)
    \/ \E t \in Threads : fire_command(t)
    \/ reset_receiver
    \/ Tick

Spec == Init /\ [][Next]_vars

\* The reactor beats, the threads run and time passes.
FairSpec ==
    /\ Spec
    /\ WF_vars(\E rtt \in Rtts : flush_commands(rtt))
    /\ WF_vars(fire_command("receiver"))
    /\ WF_vars(fire_command("reactor"))
    /\ WF_vars(Tick)
-----------------------------------------------------------------------------
(* Properties *)

\* Whenever peer.m_mu is free, every held command waits behind a real gap:
\* nothing deliverable is left in m_cmd_held by handle, flush_expired or
\* reset, whatever arrived in whatever order.
HeldWaitsOnGap ==
    \A s \in DOMAIN held : initialized /\ next_expected < s

\* The commands taken out of the channel in one session leave in strictly
\* increasing sequence order, so none leaves twice (command.hpp: "delivered
\* in order"): handle and flush_expired together never go back.
HandedInOrder ==
    \A i, j \in DOMAIN handed : i < j => handed[i].seq < handed[j].seq

\* The channel implements what it promises: see OrderedLossyChannel.
Ordered == INSTANCE OrderedLossyChannel WITH sent <- net
ImplementsOrdered == Ordered!Spec

\* No held command waits for ever: the gap before it fills or is skipped,
\* even when no further command arrives (flush_commands).
HeldIsReleased ==
    \A s \in Seqs : (s \in DOMAIN held) ~> (s \notin DOMAIN held)

\* The callback sees the commands of a session in order, as tight.hpp says of
\* CommandCallback.
FiredInOrder ==
    \A i, j \in DOMAIN fired : i < j => fired[i].seq < fired[j].seq
=============================================================================
