------------------------ MODULE CommandChannel_proofs ------------------------
(***************************************************************************)
(* Proofs about CommandChannel, for any number of commands, resets, RTT    *)
(* estimates and waits: the type invariant, that held commands wait behind *)
(* a real gap, that a session's commands leave in order, and that the      *)
(* channel implements OrderedLossyChannel.                                 *)
(***************************************************************************)
EXTENDS CommandChannel, TLAPS, SequenceTheorems, WellFoundedInduction

\* The sender never runs ahead of the commands it was given.
SeqOutBound == cmd_seq_out <= sent_count + 1

\* The cursor is past everything that was taken out in this session.
HandedPassed ==
    /\ \A i \in DOMAIN handed : handed[i].seq < next_expected
    /\ ~initialized => handed = << >>
    /\ initialized => next_expected >= 1

\* What is held or was taken out came over the wire.
HeldCame   == \A s \in DOMAIN held : [seq |-> s, id |-> held[s]] \in net
HandedCame == \A i \in DOMAIN handed : handed[i] \in net

\* The inductive invariant: order alone is not inductive, it needs the cursor
\* to be past the log and the held commands to be past the cursor.
IInv ==
    /\ TypeOK
    /\ SeqOutBound
    /\ HeldWaitsOnGap
    /\ HandedPassed
    /\ HandedInOrder
    /\ HeldCame
    /\ HandedCame

\* A step that takes a nonempty batch out of the channel.
Grown ==
    /\ Len(handed') > Len(handed)
    /\ SubSeq(handed', 1, Len(handed)) = handed
-----------------------------------------------------------------------------
(* Lemmas about the operators *)

\* A nonempty set of naturals has a smallest element: the iterators
\* m_cmd_held.begin() and the loop of drain_locked find it.
LEMMA LeastNat ==
    ASSUME NEW T, T \subseteq Nat, T # {}
    PROVE  \E x \in T : \A y \in T : x <= y
<1> DEFINE R == OpToRel(<, Nat)
<1>1. \E x \in T : \A y \in T : ~ (<<y, x>> \in R)
  BY NatLessThanWellFounded, WFMin
<1>2. R = {ss \in Nat \X Nat : ss[1] < ss[2]}
  BY DEF OpToRel
<1> HIDE DEF R
<1>3. \A x, y \in Nat : x < y => <<x, y>> \in R
  BY <1>2
<1>4. PICK x \in T : \A y \in T : ~ (<<y, x>> \in R)
  BY <1>1
<1>5. ASSUME NEW y \in T PROVE x <= y
  <2>1. ~ (y < x)
    BY <1>3, <1>4
  <2>2. QED
    BY <2>1
<1>6. QED
  BY <1>5

\* drain_locked stops at the first sequence from n on that is not held.
LEMMA HoleFound ==
    ASSUME NEW n \in 1 .. MaxCmds + 1, NEW H, H \subseteq Seqs
    PROVE  /\ Hole(n, H) \in n .. MaxCmds + 1
           /\ Hole(n, H) \notin H
           /\ \A k \in n .. Hole(n, H) - 1 : k \in H
<1> DEFINE T == {m \in n .. MaxCmds + 1 : m \notin H}
<1>1. MaxCmds \in Nat
  BY CommandConstants
<1>2. MaxCmds + 1 \in T
  BY <1>1 DEF Seqs
<1>3. T \subseteq Nat
  BY <1>1
<1>4. PICK x \in T : \A y \in T : x <= y
  BY <1>2, <1>3, LeastNat
<1>5. \A k \in n .. x - 1 : k \in H
  BY <1>1, <1>4
<1>6. QED
  BY <1>4, <1>5 DEF Hole

\* m_cmd_held.begin() is the smallest held sequence.
LEMMA FirstHeldLeast ==
    ASSUME NEW h, DOMAIN h \subseteq Seqs, DOMAIN h # {}
    PROVE  /\ FirstHeld(h) \in DOMAIN h
           /\ \A k \in DOMAIN h : FirstHeld(h) <= k
<1>1. DOMAIN h \subseteq Nat
  BY CommandConstants DEF Seqs
<1>2. \E s \in DOMAIN h : \A k \in DOMAIN h : s <= k
  BY <1>1, LeastNat
<1>3. QED
  BY <1>2 DEF FirstHeld

\* The run drained from n on: consecutive sequences, with what was held.
LEMMA RunDrained ==
    ASSUME NEW n \in 1 .. MaxCmds + 1,
           NEW h, DOMAIN h \subseteq Seqs, h \in [DOMAIN h -> Seqs]
    PROVE  /\ Run(n, h) \in Seq(Packets)
           /\ Len(Run(n, h)) = Hole(n, DOMAIN h) - n
           /\ \A i \in DOMAIN Run(n, h) :
                /\ Run(n, h)[i].seq = n + i - 1
                /\ n + i - 1 \in DOMAIN h
                /\ n + i - 1 < Hole(n, DOMAIN h)
                /\ Run(n, h)[i] = [seq |-> n + i - 1, id |-> h[n + i - 1]]
<1> DEFINE m == Hole(n, DOMAIN h)
<1>1. MaxCmds \in Nat
  BY CommandConstants
<1>2. /\ m \in n .. MaxCmds + 1
      /\ \A k \in n .. m - 1 : k \in DOMAIN h
  BY HoleFound
<1> HIDE DEF m
<1>3. Run(n, h) = [i \in 1 .. m - n |-> [seq |-> n + i - 1, id |-> h[n + i - 1]]]
  BY DEF Run, m
<1>4. m - n \in Nat /\ n \in Nat
  BY <1>1, <1>2
<1>5. \A i \in 1 .. m - n : n + i - 1 \in DOMAIN h /\ n + i - 1 < m
  BY <1>1, <1>2
<1>6. \A i \in 1 .. m - n : [seq |-> n + i - 1, id |-> h[n + i - 1]] \in Packets
  BY <1>5 DEF Packets
<1>7. Run(n, h) \in [1 .. m - n -> Packets]
  BY <1>3, <1>6
<1>8. Run(n, h) \in Seq(Packets)
  BY <1>4, <1>7, SeqDef
<1>9. DOMAIN Run(n, h) = 1 .. m - n /\ Len(Run(n, h)) = m - n
  BY <1>3, <1>4, <1>8, LenProperties
<1>10. ASSUME NEW i \in 1 .. m - n
       PROVE  /\ Run(n, h)[i].seq = n + i - 1
              /\ Run(n, h)[i] = [seq |-> n + i - 1, id |-> h[n + i - 1]]
  BY <1>3
<1>11. QED
  BY <1>5, <1>8, <1>9, <1>10 DEF m

\* What is left after the run lies beyond the place where it stopped, when
\* nothing was held before its start.
LEMMA AfterRunBeyond ==
    ASSUME NEW n \in 1 .. MaxCmds + 1,
           NEW h, DOMAIN h \subseteq Seqs, h \in [DOMAIN h -> Seqs],
           \A s \in DOMAIN h : n <= s
    PROVE  /\ DOMAIN AfterRun(n, h) \subseteq DOMAIN h
           /\ \A s \in DOMAIN AfterRun(n, h) :
                 AfterRun(n, h)[s] = h[s] /\ Hole(n, DOMAIN h) < s
           /\ AfterRun(n, h) \in [DOMAIN AfterRun(n, h) -> Seqs]
<1> DEFINE m == Hole(n, DOMAIN h)
<1>1. MaxCmds \in Nat
  BY CommandConstants
<1>2. /\ m \in n .. MaxCmds + 1
      /\ m \notin DOMAIN h
  BY HoleFound
<1> HIDE DEF m
<1>3. AfterRun(n, h) = [s \in DOMAIN h \ (n .. m - 1) |-> h[s]]
  BY DEF AfterRun, m
<1>4. \A s \in DOMAIN h \ (n .. m - 1) : m < s
  BY <1>1, <1>2 DEF Seqs
<1>5. QED
  BY <1>3, <1>4 DEF m

\* What a log of packets consists of.
LEMMA LogEntry ==
    ASSUME NEW log \in Seq(Packets), NEW i \in DOMAIN log
    PROVE  log[i] \in Packets /\ log[i].seq \in Nat
<1>1. i \in 1 .. Len(log)
  BY LenProperties
<1>2. log[i] \in Packets
  BY <1>1, ElementOfSeq
<1>3. QED
  BY <1>2, CommandConstants DEF Packets, Seqs

\* A batch that starts where the log ended keeps the log in order.
LEMMA BatchInOrder ==
    ASSUME NEW log \in Seq(Packets), NEW out \in Seq(Packets),
           NEW lo \in Nat, NEW hi \in Nat, lo <= hi, NEW S,
           \A i \in DOMAIN log : log[i].seq < lo /\ log[i] \in S,
           \A i, j \in DOMAIN log : i < j => log[i].seq < log[j].seq,
           \A i \in DOMAIN out :
              lo <= out[i].seq /\ out[i].seq < hi /\ out[i] \in S,
           \A i, j \in DOMAIN out : i < j => out[i].seq < out[j].seq
    PROVE  /\ log \o out \in Seq(Packets)
           /\ \A i \in DOMAIN (log \o out) :
                 (log \o out)[i].seq < hi /\ (log \o out)[i] \in S
           /\ \A i, j \in DOMAIN (log \o out) :
                 i < j => (log \o out)[i].seq < (log \o out)[j].seq
<1> DEFINE all == log \o out
<1>1. /\ all \in Seq(Packets)
      /\ DOMAIN all = 1 .. Len(log) + Len(out)
      /\ \A i \in 1 .. Len(log) + Len(out) :
            all[i] = IF i <= Len(log) THEN log[i] ELSE out[i - Len(log)]
  BY ConcatProperties, LenProperties
<1>2. /\ Len(log) \in Nat /\ Len(out) \in Nat
      /\ DOMAIN log = 1 .. Len(log) /\ DOMAIN out = 1 .. Len(out)
  BY LenProperties
<1>3. /\ \A i \in DOMAIN log : log[i].seq \in Nat
      /\ \A i \in DOMAIN out : out[i].seq \in Nat
  BY LogEntry
<1> HIDE DEF all
<1>4. ASSUME NEW i \in DOMAIN all
      PROVE  \/ i \in DOMAIN log /\ all[i] = log[i]
             \/ /\ i > Len(log) /\ i - Len(log) \in DOMAIN out
                /\ all[i] = out[i - Len(log)]
  BY <1>1, <1>2
<1>5. ASSUME NEW i \in DOMAIN all
      PROVE  all[i].seq < hi /\ all[i] \in S
  BY <1>3, <1>4
<1>6. ASSUME NEW i \in DOMAIN all, NEW j \in DOMAIN all, i < j
      PROVE  all[i].seq < all[j].seq
  <2>0. i \in Nat /\ j \in Nat
    BY <1>1
  <2>1. CASE j \in DOMAIN log /\ all[j] = log[j]
    <3>1. i \in DOMAIN log
      BY <2>0, <2>1, <1>1, <1>2, <1>6
    <3>2. all[i] = log[i]
      BY <3>1, <1>1, <1>2
    <3>3. QED
      BY <3>1, <3>2, <2>1, <1>6
  <2>2. CASE /\ j > Len(log) /\ j - Len(log) \in DOMAIN out
             /\ all[j] = out[j - Len(log)]
    <3>1. CASE i \in DOMAIN log /\ all[i] = log[i]
      BY <3>1, <2>2, <1>3
    <3>2. CASE /\ i > Len(log) /\ i - Len(log) \in DOMAIN out
               /\ all[i] = out[i - Len(log)]
      <4>1. i - Len(log) < j - Len(log)
        BY <2>0, <1>2, <1>6
      <4>2. QED
        BY <4>1, <3>2, <2>2
    <3>3. QED
      BY <3>1, <3>2, <1>4
  <2>3. QED
    BY <2>1, <2>2, <1>4
<1>7. QED
  BY <1>1, <1>5, <1>6 DEF all

\* A nonempty batch makes the log longer and leaves what was there.
LEMMA BatchGrows ==
    ASSUME NEW log \in Seq(Packets), NEW out \in Seq(Packets), Len(out) > 0
    PROVE  /\ Len(log \o out) > Len(log)
           /\ SubSeq(log \o out, 1, Len(log)) = log
<1> DEFINE all == log \o out
           pre == SubSeq(all, 1, Len(log))
<1>1. /\ Len(all) = Len(log) + Len(out)
      /\ \A i \in 1 .. Len(log) + Len(out) :
            all[i] = IF i <= Len(log) THEN log[i] ELSE out[i - Len(log)]
  BY ConcatProperties
<1>2. /\ Len(log) \in Nat /\ Len(out) \in Nat
  BY LenProperties
<1>3. \A i \in 1 .. Len(log) : all[i] = log[i] /\ log[i] \in Packets
  BY <1>1, <1>2, ElementOfSeq
<1> HIDE DEF all
<1>4. /\ pre \in Seq(Packets)
      /\ Len(pre) = IF 1 <= Len(log) THEN Len(log) - 1 + 1 ELSE 0
      /\ \A i \in 1 .. Len(log) - 1 + 1 : pre[i] = all[1 + i - 1]
  BY <1>2, <1>3, SubSeqProperties
<1>5. Len(pre) = Len(log)
  BY <1>2, <1>4
<1>6. \A i \in 1 .. Len(pre) : pre[i] = log[i]
  BY <1>2, <1>3, <1>4, <1>5
<1> HIDE DEF pre
<1>7. pre = log
  BY <1>4, <1>5, <1>6, SeqEqual
<1>8. QED
  BY <1>1, <1>2, <1>7 DEF all, pre
-----------------------------------------------------------------------------
(* The inductive step *)

LEMMA InitIInv == Init => IInv
<1> SUFFICES ASSUME Init PROVE IInv
  OBVIOUS
<1>1. TypeOK
  <2>1. DOMAIN held \subseteq Seqs /\ held \in [DOMAIN held -> Seqs]
    BY DEF Init, Empty
  <2>2. handed \in Seq(Packets) /\ fired \in Seq(Packets)
    BY DEF Init
  <2>3. ready \in [Threads -> Seq(Packets)]
    BY DEF Init
  <2>4. /\ cmd_seq_out \in 1 .. MaxCmds + 1 /\ sent_count \in 0 .. MaxCmds
        /\ next_expected \in 0 .. MaxCmds + 1
        /\ gap_age \in 0 .. MaxWait /\ resets \in 0 .. MaxResets
    BY CommandConstants DEF Init
  <2>5. initialized \in BOOLEAN /\ net \subseteq Packets
    BY DEF Init
  <2>6. QED
    BY <2>1, <2>2, <2>3, <2>4, <2>5 DEF TypeOK
<1>2. QED
  BY <1>1 DEF Init, IInv, SeqOutBound, HeldWaitsOnGap, HandedPassed, HandedInOrder,
              HeldCame, HandedCame, Empty

\* expire_locked: h is what is held, all of it beyond the cursor.
LEMMA SkipGapStep ==
    ASSUME IInv, initialized, NEW t \in Threads,
           NEW h, DOMAIN h \subseteq Seqs, DOMAIN h # {}, h \in [DOMAIN h -> Seqs],
           \A s \in DOMAIN h : /\ next_expected < s
                               /\ [seq |-> s, id |-> h[s]] \in net,
           SkipGap(t, h), UNCHANGED <<sender, initialized, fired, resets>>
    PROVE  IInv' /\ Grown
<1> DEFINE f == FirstHeld(h)
           m == Hole(f, DOMAIN h)
           out == Run(f, h)
<1>1. f \in DOMAIN h /\ \A k \in DOMAIN h : f <= k
  BY FirstHeldLeast
<1>2. f \in 1 .. MaxCmds + 1 /\ MaxCmds \in Nat
  BY <1>1, CommandConstants DEF Seqs
<1>3. m \in f .. MaxCmds + 1 /\ m \notin DOMAIN h
  BY <1>2, HoleFound
<1>4. f < m
  BY <1>1, <1>2, <1>3
<1>5. /\ out \in Seq(Packets)
      /\ Len(out) = m - f
      /\ \A i \in DOMAIN out :
            /\ out[i].seq = f + i - 1
            /\ f + i - 1 \in DOMAIN h
            /\ f + i - 1 < m
            /\ out[i] = [seq |-> f + i - 1, id |-> h[f + i - 1]]
  BY <1>2, RunDrained
<1>6. /\ DOMAIN AfterRun(f, h) \subseteq DOMAIN h
      /\ \A s \in DOMAIN AfterRun(f, h) : AfterRun(f, h)[s] = h[s] /\ m < s
      /\ AfterRun(f, h) \in [DOMAIN AfterRun(f, h) -> Seqs]
  BY <1>1, <1>2, AfterRunBeyond
<1>7. /\ next_expected' = m /\ held' = AfterRun(f, h) /\ gap_age' = 0
      /\ handed' = handed \o out /\ ready' = [ready EXCEPT ![t] = out]
  BY DEF SkipGap, HandOver
<1> HIDE DEF f, m, out
<1>8. DOMAIN out = 1 .. m - f
  BY <1>5, LenProperties
<1>9. /\ handed' \in Seq(Packets)
      /\ \A i \in DOMAIN handed' : handed'[i].seq < m /\ handed'[i] \in net
      /\ \A i, j \in DOMAIN handed' : i < j => handed'[i].seq < handed'[j].seq
  <2>1. \A i \in DOMAIN handed : handed[i].seq < f /\ handed[i] \in net
    <3>1. ASSUME NEW i \in DOMAIN handed PROVE handed[i].seq < f
      <4>1. handed[i].seq < next_expected /\ next_expected < f
        BY <1>1 DEF IInv, HandedPassed
      <4>2. handed[i] \in Packets /\ handed[i].seq \in Nat /\ next_expected \in Nat
        BY <1>2, LogEntry DEF IInv, TypeOK
      <4>3. QED
        BY <4>1, <4>2, <1>2
    <3>2. QED
      BY <3>1 DEF IInv, HandedCame
  <2>2. \A i \in DOMAIN out : f <= out[i].seq /\ out[i].seq < m /\ out[i] \in net
    BY <1>2, <1>3, <1>5, <1>8
  <2>3. \A i, j \in DOMAIN out : i < j => out[i].seq < out[j].seq
    BY <1>2, <1>3, <1>5, <1>8
  <2>4. handed \in Seq(Packets) /\ f \in Nat /\ m \in Nat /\ f <= m
    BY <1>2, <1>3 DEF IInv, TypeOK
  <2>5. \A i, j \in DOMAIN handed : i < j => handed[i].seq < handed[j].seq
    BY DEF IInv, HandedInOrder
  <2>6. QED
    BY <2>1, <2>2, <2>3, <2>4, <2>5, <1>5, <1>7, BatchInOrder
<1>10. TypeOK'
  <2>1. ready' \in [Threads -> Seq(Packets)]
    BY <1>5, <1>7 DEF IInv, TypeOK
  <2>2. next_expected' \in 0 .. MaxCmds + 1 /\ gap_age' \in 0 .. MaxWait
    BY <1>2, <1>3, <1>7, CommandConstants
  <2>3. QED
    BY <2>1, <2>2, <1>6, <1>7, <1>9 DEF IInv, TypeOK, sender
<1>11. HeldWaitsOnGap' /\ HeldCame'
  BY <1>6, <1>7 DEF HeldWaitsOnGap, HeldCame, sender
<1>12. HandedPassed' /\ HandedCame' /\ HandedInOrder'
  BY <1>2, <1>3, <1>7, <1>9 DEF HandedPassed, HandedCame, HandedInOrder, sender
<1>13. SeqOutBound'
  BY DEF IInv, SeqOutBound, sender
<1>14. Grown
  <2>1. Len(out) > 0
    BY <1>2, <1>3, <1>4, <1>5
  <2>2. QED
    BY <2>1, <1>5, <1>7, BatchGrows DEF Grown, IInv, TypeOK
<1>15. QED
  BY <1>10, <1>11, <1>12, <1>13, <1>14 DEF IInv

\* handle, the expected sequence: nothing is held up to it.
LEMMA HandleNextStep ==
    ASSUME IInv, NEW p \in net, HandleNext(p), UNCHANGED <<sender, fired, resets>>
    PROVE  IInv' /\ Grown
<1> DEFINE n == p.seq + 1
           m == Hole(n, DOMAIN held)
           run == Run(n, held)
           out == <<p>> \o run
<1>1. p \in Packets /\ p.seq \in 1 .. MaxCmds /\ MaxCmds \in Nat
  BY CommandConstants DEF IInv, TypeOK, Packets, Seqs
<1>2. /\ n \in 1 .. MaxCmds + 1 /\ n \in Nat
      /\ DOMAIN held \subseteq Seqs /\ held \in [DOMAIN held -> Seqs]
  BY <1>1 DEF IInv, TypeOK
<1>3. \A s \in DOMAIN held : n <= s
  <2>1. ASSUME NEW s \in DOMAIN held PROVE p.seq < s
    BY DEF HandleNext, Base, IInv, HeldWaitsOnGap
  <2>2. QED
    BY <2>1, <1>1, <1>2 DEF Seqs
<1>4. m \in n .. MaxCmds + 1
  BY <1>2, HoleFound
<1>5. /\ run \in Seq(Packets)
      /\ Len(run) = m - n
      /\ \A i \in DOMAIN run :
            /\ run[i].seq = n + i - 1
            /\ n + i - 1 \in DOMAIN held
            /\ n + i - 1 < m
            /\ run[i] = [seq |-> n + i - 1, id |-> held[n + i - 1]]
  BY <1>2, RunDrained
<1>6. /\ DOMAIN AfterRun(n, held) \subseteq DOMAIN held
      /\ \A s \in DOMAIN AfterRun(n, held) : AfterRun(n, held)[s] = held[s] /\ m < s
      /\ AfterRun(n, held) \in [DOMAIN AfterRun(n, held) -> Seqs]
  BY <1>2, <1>3, AfterRunBeyond
<1>7. /\ next_expected' = m /\ held' = AfterRun(n, held) /\ initialized' = TRUE
      /\ handed' = handed \o out /\ ready' = [ready EXCEPT !["receiver"] = out]
      /\ gap_age' = gap_age
  BY DEF HandleNext, HandOver
<1> HIDE DEF n, m, run
<1>8. <<p>> \in Seq(Packets) /\ Len(<<p>>) = 1
  BY <1>1
<1>9. /\ out \in Seq(Packets)
      /\ Len(out) = 1 + m - n
      /\ \A i \in 1 .. 1 + m - n : out[i] = IF i <= 1 THEN <<p>>[i] ELSE run[i - 1]
  <2>1. /\ out \in Seq(Packets)
        /\ Len(out) = Len(<<p>>) + Len(run)
        /\ \A i \in 1 .. Len(<<p>>) + Len(run) :
              out[i] = IF i <= Len(<<p>>) THEN <<p>>[i] ELSE run[i - Len(<<p>>)]
    BY <1>5, <1>8, ConcatProperties
  <2>2. 1 + (m - n) = 1 + m - n
    BY <1>2, <1>4
  <2>3. QED
    BY <2>1, <2>2, <1>5, <1>8
<1> HIDE DEF out
<1>10. DOMAIN out = 1 .. 1 + m - n /\ DOMAIN run = 1 .. m - n
  BY <1>5, <1>9, LenProperties
<1>11. ASSUME NEW i \in DOMAIN out
       PROVE  /\ i \in Nat /\ out[i].seq = p.seq + i - 1
              /\ out[i].seq < m /\ out[i] \in net
  <2>1. CASE i = 1
    BY <2>1, <1>1, <1>2, <1>4, <1>9, <1>10 DEF n
  <2>2. CASE i # 1
    <3>1. i - 1 \in DOMAIN run /\ out[i] = run[i - 1] /\ i \in Nat
      BY <2>2, <1>2, <1>4, <1>9, <1>10
    <3>2. n + (i - 1) - 1 = p.seq + i - 1
      BY <3>1, <1>1 DEF n
    <3>3. out[i].seq = p.seq + i - 1 /\ out[i].seq < m
      BY <3>1, <3>2, <1>5
    <3>4. out[i] \in net
      BY <3>1, <1>5 DEF IInv, HeldCame
    <3>5. QED
      BY <3>1, <3>3, <3>4
  <2>3. QED
    BY <2>1, <2>2
<1>12. /\ handed' \in Seq(Packets)
       /\ \A i \in DOMAIN handed' : handed'[i].seq < m /\ handed'[i] \in net
       /\ \A i, j \in DOMAIN handed' : i < j => handed'[i].seq < handed'[j].seq
  <2>1. \A i \in DOMAIN handed : handed[i].seq < p.seq /\ handed[i] \in net
    <3>1. CASE initialized
      BY <3>1 DEF HandleNext, Base, IInv, HandedPassed, HandedCame
    <3>2. CASE ~initialized
      BY <3>2 DEF IInv, HandedPassed
    <3>3. QED
      BY <3>1, <3>2 DEF IInv, TypeOK
  <2>2. \A i \in DOMAIN out : p.seq <= out[i].seq /\ out[i].seq < m /\ out[i] \in net
    <3>1. ASSUME NEW i \in DOMAIN out PROVE p.seq <= p.seq + i - 1
      BY <1>1, <1>2, <1>4, <1>10
    <3>2. QED
      BY <3>1, <1>11
  <2>3. \A i, j \in DOMAIN out : i < j => out[i].seq < out[j].seq
    BY <1>1, <1>11
  <2>4. handed \in Seq(Packets) /\ p.seq \in Nat /\ m \in Nat /\ p.seq <= m
    BY <1>1, <1>2, <1>4 DEF IInv, TypeOK, n
  <2>5. \A i, j \in DOMAIN handed : i < j => handed[i].seq < handed[j].seq
    BY DEF IInv, HandedInOrder
  <2>6. QED
    BY <2>1, <2>2, <2>3, <2>4, <2>5, <1>7, <1>9, BatchInOrder
<1>13. TypeOK'
  <2>1. ready' \in [Threads -> Seq(Packets)]
    BY <1>7, <1>9 DEF IInv, TypeOK
  <2>2. next_expected' \in 0 .. MaxCmds + 1
    BY <1>1, <1>2, <1>4, <1>7
  <2>3. QED
    BY <2>1, <2>2, <1>6, <1>7, <1>12 DEF IInv, TypeOK, sender
<1>14. HeldWaitsOnGap' /\ HeldCame'
  BY <1>6, <1>7 DEF HeldWaitsOnGap, IInv, HeldCame, sender
<1>15. HandedPassed' /\ HandedCame' /\ HandedInOrder'
  <2>1. next_expected' >= 1
    BY <1>1, <1>2, <1>4, <1>7
  <2>2. QED
    BY <2>1, <1>7, <1>12 DEF HandedPassed, HandedCame, HandedInOrder, sender
<1>16. SeqOutBound'
  BY DEF IInv, SeqOutBound, sender
<1>17. Grown
  <2>1. Len(out) > 0
    BY <1>2, <1>4, <1>9
  <2>2. QED
    BY <2>1, <1>7, <1>9, BatchGrows DEF Grown, IInv, TypeOK
<1>18. QED
  BY <1>13, <1>14, <1>15, <1>16, <1>17 DEF IInv

\* handle, a sequence ahead of a gap.
LEMMA HandleAheadStep ==
    ASSUME IInv, NEW p \in net, NEW rtt \in Rtts, HandleAhead(p, rtt),
           UNCHANGED <<sender, fired, resets>>
    PROVE  IInv' /\ (handed' = handed \/ Grown)
<1> DEFINE h == [s \in DOMAIN held \cup {p.seq} |->
                    IF s \in DOMAIN held THEN held[s] ELSE p.id]
           age == IF DOMAIN held = {} THEN 0 ELSE gap_age
<1>1. /\ p = [seq |-> p.seq, id |-> p.id] /\ p.seq \in Seqs /\ p.id \in Seqs
  BY DEF IInv, TypeOK, Packets
<1>2. initialized /\ next_expected < p.seq /\ initialized' = initialized
  BY <1>1, CommandConstants DEF HandleAhead, Base, Seqs
<1>3. /\ DOMAIN h \subseteq Seqs /\ DOMAIN h # {} /\ h \in [DOMAIN h -> Seqs]
  BY <1>1 DEF IInv, TypeOK
<1>4. \A s \in DOMAIN h : next_expected < s /\ [seq |-> s, id |-> h[s]] \in net
  BY <1>1, <1>2 DEF IInv, HeldWaitsOnGap, HeldCame
<1>5. CASE age >= wait_us(rtt)
  <2>1. SkipGap("receiver", h)
    BY <1>5 DEF HandleAhead
  <2> HIDE DEF h
  <2>2. QED
    BY <2>1, <1>2, <1>3, <1>4, SkipGapStep DEF Threads
<1>6. CASE ~(age >= wait_us(rtt))
  <2>1. /\ held' = h /\ gap_age' = age
        /\ UNCHANGED <<next_expected, handed, ready>>
    BY <1>6 DEF HandleAhead
  <2>2. age \in 0 .. MaxWait
    BY CommandConstants DEF IInv, TypeOK
  <2> HIDE DEF h, age
  <2>3. TypeOK'
    BY <2>1, <2>2, <1>2, <1>3 DEF IInv, TypeOK, sender
  <2>4. HeldWaitsOnGap' /\ HeldCame'
    BY <2>1, <1>2, <1>4 DEF HeldWaitsOnGap, HeldCame, sender
  <2>5. HandedPassed' /\ HandedInOrder' /\ HandedCame' /\ SeqOutBound'
    BY <2>1, <1>2 DEF IInv, HandedPassed, HandedInOrder, HandedCame, SeqOutBound, sender
  <2>6. QED
    BY <2>1, <2>3, <2>4, <2>5 DEF IInv
<1>7. QED
  BY <1>5, <1>6

\* Every step keeps the invariant, and takes out a batch, or nothing, or
\* starts a new session, and puts at most one more packet on the wire.
LEMMA NextStep ==
    ASSUME IInv, [Next]_vars
    PROVE  /\ IInv'
           /\ \/ handed' = handed /\ net' = net
              \/ handed' = handed /\ \E p \in Packets : net' = net \cup {p}
              \/ Grown /\ net' = net
              \/ handed' = << >> /\ net' = net
<1> USE DEF sender, receiver
<1>1. ASSUME send_command
      PROVE  /\ IInv' /\ handed' = handed
             /\ \E p \in Packets : net' = net \cup {p}
  <2> DEFINE p == [seq |-> cmd_seq_out, id |-> sent_count + 1]
  <2>1. /\ cmd_seq_out \in Seqs /\ sent_count + 1 \in Seqs
        /\ cmd_seq_out' \in 1 .. MaxCmds + 1 /\ sent_count' \in 0 .. MaxCmds
        /\ SeqOutBound'
    <3>1. /\ cmd_seq_out \in 1 .. MaxCmds + 1 /\ sent_count \in 0 .. MaxCmds
          /\ cmd_seq_out <= sent_count + 1 /\ MaxCmds \in Nat
      BY CommandConstants DEF IInv, TypeOK, SeqOutBound
    <3>2. /\ sent_count < MaxCmds /\ sent_count' = sent_count + 1
          /\ cmd_seq_out' = cmd_seq_out + 1
      BY <1>1 DEF send_command
    <3>3. QED
      BY <3>1, <3>2 DEF SeqOutBound, Seqs
  <2>2. p \in Packets
    BY <2>1 DEF Packets
  <2>3. net' = net \cup {p}
    BY <1>1 DEF send_command
  <2>4. UNCHANGED <<receiver, resets>>
    BY <1>1 DEF send_command
  <2> HIDE DEF p
  <2>5. TypeOK'
    BY <2>1, <2>2, <2>3, <2>4 DEF IInv, TypeOK
  <2>6. /\ HeldWaitsOnGap' /\ HeldCame' /\ HandedPassed' /\ HandedInOrder'
        /\ HandedCame'
    BY <2>3, <2>4 DEF IInv, HeldWaitsOnGap, HeldCame, HandedPassed, HandedInOrder,
                      HandedCame
  <2>7. QED
    BY <2>1, <2>2, <2>3, <2>4, <2>5, <2>6 DEF IInv
<1>2. ASSUME reset_sender PROVE IInv' /\ handed' = handed /\ net' = net
  <2>1. /\ cmd_seq_out' \in 1 .. MaxCmds + 1 /\ resets' \in 0 .. MaxResets
        /\ SeqOutBound'
    BY <1>2, CommandConstants DEF reset_sender, IInv, TypeOK, SeqOutBound
  <2>2. UNCHANGED <<sent_count, net, receiver>>
    BY <1>2 DEF reset_sender
  <2>3. QED
    BY <2>1, <2>2 DEF IInv, TypeOK, HeldWaitsOnGap, HeldCame, HandedPassed,
                      HandedInOrder, HandedCame
<1>3. ASSUME NEW p \in net, NEW rtt \in Rtts, handle_command(p, rtt)
      PROVE  IInv' /\ net' = net /\ (handed' = handed \/ Grown)
  <2>1. UNCHANGED <<sender, fired, resets>>
    BY <1>3 DEF handle_command
  <2>2. CASE HandleNext(p)
    BY <2>1, <2>2, HandleNextStep
  <2>3. CASE HandleAhead(p, rtt)
    BY <2>1, <2>3, HandleAheadStep
  <2>4. CASE HandleLate(p)
    BY <2>1, <2>4 DEF HandleLate, IInv, TypeOK, SeqOutBound, HeldWaitsOnGap, HeldCame,
                      HandedPassed, HandedInOrder, HandedCame
  <2>5. QED
    BY <1>3, <2>1, <2>2, <2>3, <2>4 DEF handle_command
<1>4. ASSUME NEW rtt \in Rtts, flush_commands(rtt)
      PROVE  IInv' /\ Grown /\ net' = net
  <2>1. /\ SkipGap("reactor", held) /\ DOMAIN held # {}
        /\ UNCHANGED <<sender, initialized, fired, resets>>
    BY <1>4 DEF flush_commands
  <2>2. initialized
    BY <2>1 DEF IInv, HeldWaitsOnGap
  <2>3. \A s \in DOMAIN held :
           next_expected < s /\ [seq |-> s, id |-> held[s]] \in net
    BY DEF IInv, HeldWaitsOnGap, HeldCame
  <2>4. DOMAIN held \subseteq Seqs /\ held \in [DOMAIN held -> Seqs]
    BY DEF IInv, TypeOK
  <2>5. QED
    BY <2>1, <2>2, <2>3, <2>4, SkipGapStep DEF Threads
<1>5. ASSUME NEW t \in Threads, fire_command(t)
      PROVE  IInv' /\ handed' = handed /\ net' = net
  <2>1. ready[t] \in Seq(Packets) /\ ready[t] # << >>
    BY <1>5 DEF fire_command, IInv, TypeOK
  <2>2. Head(ready[t]) \in Packets /\ Tail(ready[t]) \in Seq(Packets)
    BY <2>1, HeadTailProperties
  <2>3. ready' \in [Threads -> Seq(Packets)]
    BY <1>5, <2>2 DEF fire_command, IInv, TypeOK
  <2>4. fired' \in Seq(Packets)
    BY <1>5, <2>2, AppendProperties DEF fire_command, IInv, TypeOK
  <2>5. UNCHANGED <<sender, initialized, next_expected, held, gap_age, handed, resets>>
    BY <1>5 DEF fire_command
  <2>6. QED
    BY <2>3, <2>4, <2>5 DEF IInv, TypeOK, SeqOutBound, HeldWaitsOnGap, HeldCame,
                            HandedPassed, HandedInOrder, HandedCame
<1>6. ASSUME reset_receiver PROVE IInv' /\ handed' = << >> /\ net' = net
  <2>1. /\ handed' = << >> /\ fired' = << >> /\ held' = Empty
        /\ initialized' = FALSE /\ UNCHANGED <<sender, ready>>
    BY <1>6 DEF reset_receiver
  <2>2. /\ next_expected' \in 0 .. MaxCmds + 1 /\ gap_age' \in 0 .. MaxWait
        /\ resets' \in 0 .. MaxResets
    BY <1>6, CommandConstants DEF reset_receiver, IInv, TypeOK
  <2>3. DOMAIN held' = {} /\ held' \in [DOMAIN held' -> Seqs]
    BY <2>1 DEF Empty
  <2>4. handed' \in Seq(Packets) /\ fired' \in Seq(Packets)
    BY <2>1
  <2>5. TypeOK'
    BY <2>1, <2>2, <2>3, <2>4 DEF IInv, TypeOK
  <2>6. DOMAIN handed' = {}
    BY <2>1
  <2>7. HeldWaitsOnGap' /\ HeldCame' /\ HandedPassed' /\ HandedInOrder' /\ HandedCame'
    BY <2>1, <2>3, <2>6 DEF HeldWaitsOnGap, HeldCame, HandedPassed, HandedInOrder,
                            HandedCame
  <2>8. SeqOutBound'
    BY <2>1 DEF IInv, SeqOutBound
  <2>9. QED
    BY <2>1, <2>5, <2>7, <2>8 DEF IInv
<1>7. ASSUME Tick PROVE IInv' /\ handed' = handed /\ net' = net
  <2>1. gap_age' \in 0 .. MaxWait
    BY <1>7, CommandConstants DEF Tick, IInv, TypeOK
  <2>2. UNCHANGED <<sender, initialized, next_expected, held, handed, ready, fired, resets>>
    BY <1>7 DEF Tick
  <2>3. QED
    BY <2>1, <2>2 DEF IInv, TypeOK, SeqOutBound, HeldWaitsOnGap, HeldCame,
                      HandedPassed, HandedInOrder, HandedCame
<1>8. ASSUME UNCHANGED vars PROVE IInv' /\ handed' = handed /\ net' = net
  BY <1>8 DEF vars, IInv, TypeOK, SeqOutBound, HeldWaitsOnGap, HeldCame,
              HandedPassed, HandedInOrder, HandedCame
<1>9. QED
  BY <1>1, <1>2, <1>3, <1>4, <1>5, <1>6, <1>7, <1>8 DEF Next
-----------------------------------------------------------------------------
(* The theorems *)

\* The inductive invariant holds in every reachable state.
THEOREM Invariance == Spec => []IInv
<1>1. IInv /\ [Next]_vars => IInv'
  BY NextStep
<1>2. QED
  BY <1>1, InitIInv, PTL DEF Spec

\* Every variable keeps its type: the cursor, the held sequences and the
\* sender's counter never leave the range of the sequences sent.
THEOREM TypeCorrect == Spec => []TypeOK
<1>1. IInv => TypeOK
  BY DEF IInv
<1>2. QED
  BY <1>1, Invariance, PTL

\* Nothing deliverable stays in m_cmd_held, whatever arrived in whatever
\* order and whichever thread took commands out.
THEOREM HeldBehindGap == Spec => []HeldWaitsOnGap
<1>1. IInv => HeldWaitsOnGap
  BY DEF IInv
<1>2. QED
  BY <1>1, Invariance, PTL

\* Within a session the receiver and the reactor thread together take the
\* commands out in strictly increasing order, and none twice.
THEOREM InOrder == Spec => []HandedInOrder
<1>1. IInv => HandedInOrder
  BY DEF IInv
<1>2. QED
  BY <1>1, Invariance, PTL

\* The reorder window with its waits, skips and resets implements the
\* channel that hands out ordered batches of what was sent.
THEOREM Refinement == Spec => ImplementsOrdered
<1>1. Init => Ordered!Init
  BY DEF Init, Ordered!Init
<1>2. IInv /\ [Next]_vars => [Ordered!Next]_<<net, handed>>
  <2> SUFFICES ASSUME IInv, [Next]_vars
               PROVE  [Ordered!Next]_<<net, handed>>
    OBVIOUS
  <2>1. CASE handed' = handed /\ net' = net
    BY <2>1
  <2>2. CASE handed' = handed /\ \E p \in Packets : net' = net \cup {p}
    BY <2>2 DEF Ordered!Next, Ordered!Send
  <2>3. CASE Grown /\ net' = net
    <3>1. handed' \in Seq(Packets) /\ HandedInOrder' /\ HandedCame'
      BY NextStep DEF IInv, TypeOK
    <3>2. \A i \in 1 .. Len(handed') : handed'[i] \in net
      BY <2>3, <3>1, LenProperties DEF HandedCame
    <3>3. handed' \in [1 .. Len(handed') -> net] /\ Len(handed') \in Nat
      BY <3>1, <3>2, LenProperties
    <3>4. handed' \in Seq(net)
      BY <3>3, SeqDef
    <3>5. Ordered!HandOut
      BY <2>3, <3>1, <3>4 DEF Ordered!HandOut, Ordered!StrictlyOrdered, HandedInOrder, Grown
    <3>6. QED
      BY <3>5 DEF Ordered!Next
  <2>4. CASE handed' = << >> /\ net' = net
    BY <2>4 DEF Ordered!Next, Ordered!Restart
  <2>5. QED
    BY <2>1, <2>2, <2>3, <2>4, NextStep
<1>3. QED
  BY <1>1, <1>2, Invariance, PTL DEF Spec, ImplementsOrdered, Ordered!Spec
=============================================================================
