------------------------ MODULE MeshDirectory_proofs ------------------------
(***************************************************************************)
(* Proofs about MeshDirectory, for any finite sets of nodes, leaves and    *)
(* endpoints, any order of starts, and any number of changes, faults and   *)
(* snapshots under way: the tables a merge leaves do not depend on the     *)
(* order in which snapshots arrive, nor on how often; and what a running   *)
(* node knows of an endpoint never grows older.                            *)
(*                                                                         *)
(* The second part is about TaskFramework, on which a node's runtime runs, *)
(* for any pools, tasks and queues: there is exactly one heartbeat tick,   *)
(* and m_pending is exact.                                                 *)
(***************************************************************************)
EXTENDS MeshDirectory, TaskFramework, FiniteSetTheorems, TLAPS

\* The inductive invariant: a handler that stamps does so for a leaf.
IInv ==
    /\ TypeOK
    /\ \A n \in Nodes : handling[n].at = "stamp" => handling[n].from \in Leaves

\* What KnownGrows says of one step.
GrowsStep ==
    \A n \in up \cap up', e \in Eps : Known(n, e)' >= Known(n, e) \/ tomb'[n][e] < tomb[n][e]

\* The entry and the tombstone of one endpoint after a snapshot that has entry x and
\* removal r for it, and the newest version the two have seen.
MergedEntry(d, t, x, r) == RemoveEntry(MergeEntry(d, t, x), r)
Newest(d, t) == IF d.v > t THEN d.v ELSE t
-----------------------------------------------------------------------------
(* The merge of one endpoint *)

\* A merge keeps entry and tombstone apart, and what the two have seen grows.
LEMMA MergeGrows ==
    ASSUME NEW d \in Entry, NEW t \in Nat, NEW x \in Entry, NEW r \in Nat,
           d.v > 0 => d.v > t
    PROVE  /\ MergedEntry(d, t, x, r) \in Entry
           /\ RemoveTomb(t, r) \in Nat
           /\ MergedEntry(d, t, x, r).v > 0 => MergedEntry(d, t, x, r).v > RemoveTomb(t, r)
           /\ Newest(MergedEntry(d, t, x, r), RemoveTomb(t, r)) >= Newest(d, t)
<1>1. d.v \in Nat /\ x.v \in Nat
  BY DEF Entry
<1>2. Absent \in Entry /\ Absent.v = 0
  BY DEF Absent, Entry
<1>3. QED
  BY <1>1, <1>2 DEF MergedEntry, MergeEntry, RemoveEntry, RemoveTomb, Newest

\* A snapshot that comes twice changes nothing the second time: the transport may
\* deliver it again, and the sync sends it again every period.
THEOREM MergeIdempotent ==
    ASSUME NEW d \in Entry, NEW t \in Nat, NEW x \in Entry, NEW r \in Nat,
           d.v > 0 => d.v > t
    PROVE  LET d1 == MergedEntry(d, t, x, r)
               t1 == RemoveTomb(t, r)
           IN  MergedEntry(d1, t1, x, r) = d1 /\ RemoveTomb(t1, r) = t1
<1>1. d.v \in Nat /\ x.v \in Nat
  BY DEF Entry
<1>2. Absent.v = 0
  BY DEF Absent
<1>3. QED
  BY <1>1, <1>2 DEF MergedEntry, MergeEntry, RemoveEntry, RemoveTomb

\* Two snapshots leave the same table in either order, when entries with the same
\* version are the same entry: no node depends on which of its peers' snapshots arrived
\* first, so reordering on the way and the threads that handle them cannot tell nodes apart.
THEOREM MergeCommutes ==
    ASSUME NEW d \in Entry, NEW t \in Nat, d.v > 0 => d.v > t,
           NEW x \in Entry, NEW r \in Nat, NEW y \in Entry, NEW s \in Nat,
           x.v = y.v => x = y
    PROVE  LET dx == MergedEntry(d, t, x, r)
               tx == RemoveTomb(t, r)
               dy == MergedEntry(d, t, y, s)
               ty == RemoveTomb(t, s)
           IN  /\ MergedEntry(dx, tx, y, s) = MergedEntry(dy, ty, x, r)
               /\ RemoveTomb(tx, s) = RemoveTomb(ty, r)
<1>1. d.v \in Nat /\ x.v \in Nat /\ y.v \in Nat
  BY DEF Entry
<1>2. Absent.v = 0
  BY DEF Absent
<1>3. QED
  BY <1>1, <1>2 DEF MergedEntry, MergeEntry, RemoveEntry, RemoveTomb
-----------------------------------------------------------------------------
(* Lemmas about the operators *)

LEMMA FiniteProcs == IsFiniteSet(Procs) /\ Cardinality(Procs) \in Nat
<1>1. IsFiniteSet(Procs)
  BY MeshConstants, FS_Union DEF Procs
<1>2. QED
  BY <1>1, FS_CardinalityType

LEMMA ProductNat ==
    ASSUME NEW a \in Nat, NEW b \in Nat
    PROVE  a * b \in Nat
OBVIOUS

LEMMA CardinalNat ==
    ASSUME NEW S \in SUBSET Eps
    PROVE  Cardinality(S) \in Nat
BY MeshConstants, FS_Subset, FS_CardinalityType

LEMMA RankNat ==
    ASSUME NEW S \in SUBSET Eps, NEW e
    PROVE  Rank(e, S) \in Nat
<1>1. {x \in S : x <= e} \in SUBSET Eps
  OBVIOUS
<1>2. QED
  BY <1>1, CardinalNat DEF Rank

\* A table after the merge of a snapshot, and what its node knows then.
LEMMA MergedTable ==
    ASSUME TypeOK, NEW n \in Nodes, NEW s \in Snapshot
    PROVE  /\ MergeDir(n, s) \in [Eps -> Entry]
           /\ MergeTomb(n, s) \in [Eps -> Nat]
           /\ \A e \in Eps :
                /\ MergeDir(n, s)[e].v > 0 => MergeDir(n, s)[e].v > MergeTomb(n, s)[e]
                /\ Newest(MergeDir(n, s)[e], MergeTomb(n, s)[e]) >= Newest(dir[n][e], tomb[n][e])
<1>1. ASSUME NEW e \in Eps
      PROVE  /\ dir[n][e] \in Entry /\ tomb[n][e] \in Nat /\ s.eps[e] \in Entry /\ s.removed[e] \in Nat
             /\ dir[n][e].v > 0 => dir[n][e].v > tomb[n][e]
  BY DEF TypeOK, Snapshot
<1>2. ASSUME NEW e \in Eps
      PROVE  /\ MergeDir(n, s)[e] = MergedEntry(dir[n][e], tomb[n][e], s.eps[e], s.removed[e])
             /\ MergeTomb(n, s)[e] = RemoveTomb(tomb[n][e], s.removed[e])
  BY DEF MergeDir, MergeTomb, MergedEntry
<1>3. ASSUME NEW e \in Eps
      PROVE  /\ MergeDir(n, s)[e] \in Entry /\ MergeTomb(n, s)[e] \in Nat
             /\ MergeDir(n, s)[e].v > 0 => MergeDir(n, s)[e].v > MergeTomb(n, s)[e]
             /\ Newest(MergeDir(n, s)[e], MergeTomb(n, s)[e]) >= Newest(dir[n][e], tomb[n][e])
  <2> DEFINE d == dir[n][e]
             t == tomb[n][e]
             x == s.eps[e]
             r == s.removed[e]
  <2>1. d \in Entry /\ t \in Nat /\ x \in Entry /\ r \in Nat /\ (d.v > 0 => d.v > t)
    BY <1>1
  <2>2. MergeDir(n, s)[e] = MergedEntry(d, t, x, r) /\ MergeTomb(n, s)[e] = RemoveTomb(t, r)
    BY <1>2
  <2> HIDE DEF d, t, x, r
  <2>3. /\ MergedEntry(d, t, x, r) \in Entry /\ RemoveTomb(t, r) \in Nat
        /\ MergedEntry(d, t, x, r).v > 0 => MergedEntry(d, t, x, r).v > RemoveTomb(t, r)
        /\ Newest(MergedEntry(d, t, x, r), RemoveTomb(t, r)) >= Newest(d, t)
    BY <2>1, MergeGrows
  <2>4. QED
    BY <2>2, <2>3 DEF d, t
<1>4. QED
  BY <1>3 DEF MergeDir, MergeTomb

\* What is sent is a snapshot from x to nodes.
LEMMA SentTyped ==
    ASSUME TypeOK, NEW x \in Procs, NEW to \in SUBSET Nodes, NEW s \in Snapshot
    PROVE  Send(x, to, s) \subseteq [from : Procs, to : Nodes, snap : Snapshot]
BY DEF TypeOK, Send

LEMMA LeafSnapshotTyped ==
    ASSUME NEW l, NEW loc \in [Eps -> Entry], NEW gn \in [Eps -> Nat]
    PROVE  LeafSnapshot(l, loc, gn) \in Snapshot
<1>1. Absent \in Entry
  BY DEF Absent, Entry
<1>2. QED
  BY <1>1 DEF LeafSnapshot, snapshot, Snapshot

\* The stamped snapshot of a leaf.
LEMMA StampedTyped ==
    ASSUME TypeOK, NEW n \in Nodes, NEW l \in Leaves, NEW s \in Snapshot
    PROVE  /\ snapshot(Stamped(n, l, s).eps, Stamped(n, l, s).removed) \in Snapshot
           /\ Stamped(n, l, s).listed \in SUBSET Eps
           /\ Stamped(n, l, s).used \in Nat
<1> DEFINE listed   == {e \in Eps : Owner[e] = l /\ s.eps[e].v > 0}
           vanished == leaf_eps[n][l] \ listed
           own(e)   == counter[n] + Cardinality(listed) + Rank(e, vanished)
           eps      == [e \in Eps |-> IF e \in listed
                                      THEN [v |-> counter[n] + Rank(e, listed), node |-> n,
                                            alive |-> s.eps[e].alive]
                                      ELSE s.eps[e]]
           removed  == [e \in Eps |-> IF e \in vanished THEN RemoveTomb(s.removed[e], own(e))
                                      ELSE s.removed[e]]
<1>1. listed \in SUBSET Eps /\ vanished \in SUBSET Eps /\ counter[n] \in Nat
  BY DEF TypeOK, Procs
<1>2. Stamped(n, l, s) = [eps |-> eps, removed |-> removed, listed |-> listed,
                          used |-> Cardinality(listed \cup vanished)]
  BY DEF Stamped
<1> HIDE DEF listed, vanished
<1>3. /\ Cardinality(listed) \in Nat /\ Cardinality(listed \cup vanished) \in Nat
      /\ \A e \in Eps : Rank(e, listed) \in Nat /\ Rank(e, vanished) \in Nat
  BY <1>1, CardinalNat, RankNat
<1>4. s.eps \in [Eps -> Entry] /\ s.removed \in [Eps -> Nat]
  BY DEF Snapshot
<1>5. eps \in [Eps -> Entry]
  <2>1. ASSUME NEW e \in Eps
        PROVE  [v |-> counter[n] + Rank(e, listed), node |-> n, alive |-> s.eps[e].alive] \in Entry
    BY <1>1, <1>3, <1>4 DEF Entry
  <2>2. QED
    BY <1>4, <2>1
<1>6. removed \in [Eps -> Nat]
  <2>1. ASSUME NEW e \in Eps PROVE RemoveTomb(s.removed[e], own(e)) \in Nat
    BY <1>1, <1>3, <1>4 DEF RemoveTomb
  <2> HIDE DEF own
  <2>2. QED
    BY <1>4, <2>1
<1> HIDE DEF eps, removed
<1>7. snapshot(eps, removed) \in Snapshot
  BY <1>5, <1>6 DEF snapshot, Snapshot
<1>8. QED
  BY <1>1, <1>2, <1>3, <1>7
-----------------------------------------------------------------------------
(* The inductive step *)

LEMMA NothingTyped == Nothing \in Handling /\ Nothing.at = "idle"
<1>1. Absent \in Entry
  BY DEF Absent, Entry
<1>2. [eps |-> [e \in Eps |-> Absent], removed |-> [e \in Eps |-> 0]] \in Snapshot
  BY <1>1 DEF Snapshot
<1>3. QED
  BY <1>2 DEF Nothing, Handling

LEMMA InitIInv == Init => IInv
<1> SUFFICES ASSUME Init PROVE IInv
  OBVIOUS
<1>1. Absent \in Entry /\ Absent.v = 0
  BY DEF Absent, Entry
<1>2. clock \in Nat /\ counter \in [Procs -> Nat]
  <2>1. PICK s \in StartOrders : counter = [p \in Procs |-> s[p] * StartGap]
    BY DEF Init
  <2>2. s \in [Procs -> 1 .. Cardinality(Procs)] /\ StartGap \in Nat
    BY MeshConstants
  <2>3. \A p \in Procs : s[p] \in Nat
    BY <2>2, FiniteProcs
  <2>4. \A p \in Procs : s[p] * StartGap \in Nat
    BY <2>2, <2>3
  <2>5. QED
    BY <2>1, <2>4, FiniteProcs DEF Init
<1>3. \A n \in Nodes : handling[n] \in Handling /\ handling[n].at = "idle"
  BY NothingTyped DEF Init
<1>4. handling \in [Nodes -> Handling]
  BY NothingTyped DEF Init
<1>5. changes \in 0 .. MaxChanges /\ faults \in [count : 0 .. MaxFaults, kinds : SUBSET Kinds] /\ expiries \in 0 .. MaxExpiries
  BY MeshConstants DEF Init
<1>6. TypeOK
  BY <1>1, <1>2, <1>4, <1>5 DEF Init, TypeOK
<1>7. QED
  BY <1>3, <1>6 DEF IInv

\* The tables of the nodes are as they were.
LEMMA SameTables ==
    ASSUME TypeOK, UNCHANGED <<dir, tomb>>
    PROVE  GrowsStep
<1>1. \A n \in Nodes, e \in Eps : Known(n, e)' = Known(n, e) /\ Known(n, e) \in Nat
  BY DEF Known, TypeOK, Entry
<1>2. QED
  BY <1>1 DEF GrowsStep, TypeOK

\* The table of one node is the one before, merged with a snapshot.
LEMMA OneMerges ==
    ASSUME TypeOK, NEW n \in Nodes, NEW s \in Snapshot,
           dir' = [dir EXCEPT ![n] = MergeDir(n, s)],
           tomb' = [tomb EXCEPT ![n] = MergeTomb(n, s)]
    PROVE  /\ dir' \in [Nodes -> [Eps -> Entry]]
           /\ tomb' \in [Nodes -> [Eps -> Nat]]
           /\ \A m \in Nodes, e \in Eps : dir'[m][e].v > 0 => dir'[m][e].v > tomb'[m][e]
           /\ dir'[n] \in [Eps -> Entry] /\ tomb'[n] \in [Eps -> Nat]
           /\ GrowsStep
<1>1. /\ MergeDir(n, s) \in [Eps -> Entry]
      /\ MergeTomb(n, s) \in [Eps -> Nat]
      /\ \A e \in Eps :
           /\ MergeDir(n, s)[e].v > 0 => MergeDir(n, s)[e].v > MergeTomb(n, s)[e]
           /\ Newest(MergeDir(n, s)[e], MergeTomb(n, s)[e]) >= Newest(dir[n][e], tomb[n][e])
  BY MergedTable
<1>2. /\ dir \in [Nodes -> [Eps -> Entry]] /\ tomb \in [Nodes -> [Eps -> Nat]]
      /\ \A m \in Nodes, e \in Eps : dir[m][e].v > 0 => dir[m][e].v > tomb[m][e]
      /\ up \subseteq Nodes
  BY DEF TypeOK
<1>3. /\ dir' \in [Nodes -> [Eps -> Entry]] /\ tomb' \in [Nodes -> [Eps -> Nat]]
      /\ dir'[n] = MergeDir(n, s) /\ tomb'[n] = MergeTomb(n, s)
      /\ \A m \in Nodes : m # n => dir'[m] = dir[m] /\ tomb'[m] = tomb[m]
  BY <1>1, <1>2
<1>4. \A m \in Nodes, e \in Eps : dir'[m][e].v > 0 => dir'[m][e].v > tomb'[m][e]
  BY <1>1, <1>2, <1>3
<1>5. ASSUME NEW m \in Nodes, NEW e \in Eps PROVE Known(m, e)' >= Known(m, e)
  <2>1. Known(m, e) = Newest(dir[m][e], tomb[m][e]) /\ Known(m, e)' = Newest(dir'[m][e], tomb'[m][e])
    BY DEF Known, Newest
  <2>2. CASE m = n
    BY <1>1, <1>3, <2>1, <2>2
  <2>3. CASE m # n
    <3>1. Known(m, e)' = Known(m, e)
      BY <1>3, <2>3 DEF Known
    <3>2. Known(m, e) \in Nat
      BY <1>2 DEF Known, Entry
    <3>3. QED
      BY <3>1, <3>2
  <2>4. QED
    BY <2>2, <2>3
<1>6. GrowsStep
  BY <1>2, <1>5 DEF GrowsStep
<1>7. QED
  BY <1>1, <1>3, <1>4, <1>6

\* An endpoint gets a new version at its leaf.
LEMMA AnnounceStep ==
    ASSUME IInv, NEW e \in Eps, NEW alive \in BOOLEAN, Announce(e, alive),
           changes' \in 0 .. MaxChanges
    PROVE  IInv' /\ GrowsStep
<1> DEFINE l == Owner[e]
<1>1. l \in Leaves /\ l \in Procs
  BY MeshConstants DEF Procs
<1>2. /\ counter' = [counter EXCEPT ![l] = @ + 1]
      /\ local' = [local EXCEPT ![e] = [v |-> counter'[l], node |-> "none", alive |-> alive]]
      /\ gone' = IF alive THEN [gone EXCEPT ![e] = 0] ELSE gone
      /\ net' = Send(l, Nodes, LeafSnapshot(l, local', gone'))
      /\ UNCHANGED <<up, dir, tomb, leaves, leaf_eps, handling, clock, faults, expiries>>
  BY DEF Announce
<1> HIDE DEF l
<1>3. counter' \in [Procs -> Nat] /\ counter'[l] \in Nat
  BY <1>1, <1>2 DEF IInv, TypeOK
<1>4. [v |-> counter'[l], node |-> "none", alive |-> alive] \in Entry
  BY <1>3 DEF Entry
<1>5. local' \in [Eps -> Entry] /\ gone' \in [Eps -> Nat]
  BY <1>2, <1>4 DEF IInv, TypeOK
<1>6. net' \subseteq [from : Procs, to : Nodes, snap : Snapshot]
  BY <1>1, <1>2, <1>5, LeafSnapshotTyped, SentTyped DEF IInv
<1>7. GrowsStep
  BY <1>2, SameTables DEF IInv
<1>8. QED
  BY <1>2, <1>3, <1>5, <1>6, <1>7 DEF IInv, TypeOK

LEMMA LeafStep ==
    ASSUME IInv,
           \/ \E e \in Eps : \/ handle_register(e) \/ handle_heartbeat(e) \/ handle_deregister(e)
                             \/ do_heartbeat_dead(e) \/ do_heartbeat_remove(e)
                             \/ LocalTombstoneExpires(e)
           \/ \E l \in Leaves : leaf_sync(l) \/ leaf_sync_again(l) \/ LeafRestarts(l)
    PROVE  IInv' /\ GrowsStep
<1>0. MaxChanges \in Nat /\ MaxFaults \in Nat /\ StartGap \in Nat
  BY MeshConstants
<1>1. Absent \in Entry
  BY DEF Absent, Entry
<1>2. ASSUME Change PROVE changes' \in 0 .. MaxChanges
  BY <1>0, <1>2 DEF Change, IInv, TypeOK
<1>3. ASSUME NEW e \in Eps, handle_register(e) \/ handle_heartbeat(e) \/ handle_deregister(e)
                             \/ do_heartbeat_dead(e)
      PROVE  IInv' /\ GrowsStep
  <2>1. changes' \in 0 .. MaxChanges
    BY <1>2, <1>3 DEF handle_register, handle_heartbeat, handle_deregister, do_heartbeat_dead,
                      IInv, TypeOK
  <2>2. PICK alive \in BOOLEAN : Announce(e, alive)
    BY <1>3 DEF handle_register, handle_heartbeat, handle_deregister, do_heartbeat_dead
  <2>3. QED
    BY <2>1, <2>2, AnnounceStep
<1>4. ASSUME NEW e \in Eps, do_heartbeat_remove(e) PROVE IInv' /\ GrowsStep
  <2>1. Owner[e] \in Procs /\ changes' \in 0 .. MaxChanges
    BY <1>2, <1>4, MeshConstants DEF Procs, do_heartbeat_remove
  <2>2. local' \in [Eps -> Entry] /\ gone' \in [Eps -> Nat]
    <3>1. local[e].v \in Nat
      BY DEF IInv, TypeOK, Entry
    <3>2. QED
      BY <1>1, <1>4, <3>1 DEF do_heartbeat_remove, IInv, TypeOK
  <2>3. net' \subseteq [from : Procs, to : Nodes, snap : Snapshot]
    <3>1. CASE net' = net
      BY <3>1 DEF IInv, TypeOK
    <3>2. CASE net' = Send(Owner[e], Nodes, LeafSnapshot(Owner[e], local', gone'))
      BY <2>1, <2>2, <3>2, LeafSnapshotTyped, SentTyped DEF IInv
    <3>3. QED
      BY <1>4, <3>1, <3>2 DEF do_heartbeat_remove
  <2>4. UNCHANGED <<node, clock, faults, expiries>>
    BY <1>4 DEF do_heartbeat_remove
  <2>5. GrowsStep
    BY <2>4, SameTables DEF IInv, node
  <2>6. QED
    BY <2>1, <2>2, <2>3, <2>4, <2>5 DEF IInv, TypeOK, node
<1>5. ASSUME NEW l \in Leaves, leaf_sync(l) \/ leaf_sync_again(l) PROVE IInv' /\ GrowsStep
  <2>1. l \in Procs /\ changes' \in 0 .. MaxChanges
    BY <1>2, <1>5 DEF Procs, leaf_sync, leaf_sync_again, IInv, TypeOK
  <2>2. UNCHANGED <<node, clock, leaf, faults, expiries>>
    BY <1>5 DEF leaf_sync, leaf_sync_again
  <2>3. net' = Send(l, Nodes, LeafSnapshot(l, local, gone))
    BY <1>5 DEF leaf_sync, leaf_sync_again
  <2>4. LeafSnapshot(l, local, gone) \in Snapshot
    BY LeafSnapshotTyped DEF IInv, TypeOK
  <2>5. net' \subseteq [from : Procs, to : Nodes, snap : Snapshot]
    BY <2>1, <2>3, <2>4, SentTyped DEF IInv
  <2>6. GrowsStep
    BY <2>2, SameTables DEF IInv, node
  <2>7. QED
    BY <2>1, <2>2, <2>5, <2>6 DEF IInv, TypeOK, node, leaf
<1>6. ASSUME NEW l \in Leaves, LeafRestarts(l) PROVE IInv' /\ GrowsStep
  <2>1. clock' = clock + 1 /\ clock' \in Nat
    BY <1>6 DEF LeafRestarts, IInv, TypeOK
  <2>2. clock' * StartGap \in Nat
    BY <1>0, <2>1
  <2>3. counter' \in [Procs -> Nat]
    BY <1>6, <2>2 DEF LeafRestarts, IInv, TypeOK
  <2>4. local' \in [Eps -> Entry] /\ gone' \in [Eps -> Nat]
    BY <1>1, <1>6 DEF LeafRestarts, IInv, TypeOK
  <2>5. faults' \in [count : 0 .. MaxFaults, kinds : SUBSET Kinds]
    BY <1>0, <1>6 DEF LeafRestarts, Fault, Kinds, IInv, TypeOK
  <2>6. UNCHANGED <<up, dir, tomb, leaves, leaf_eps, handling, net, changes, expiries>>
    BY <1>6 DEF LeafRestarts
  <2>7. GrowsStep
    BY <2>6, SameTables DEF IInv
  <2>8. QED
    BY <2>1, <2>3, <2>4, <2>5, <2>6, <2>7 DEF IInv, TypeOK
<1>7. ASSUME NEW e \in Eps, LocalTombstoneExpires(e) PROVE IInv' /\ GrowsStep
  <2>1. /\ gone' = [gone EXCEPT ![e] = 0]
        /\ UNCHANGED <<node, clock, local, net, changes, faults, expiries>>
    BY <1>7 DEF LocalTombstoneExpires
  <2>2. gone' \in [Eps -> Nat]
    BY <2>1 DEF IInv, TypeOK
  <2>3. GrowsStep
    BY <2>1, SameTables DEF IInv, node
  <2>4. QED
    BY <2>1, <2>2, <2>3 DEF IInv, TypeOK, node
<1>8. QED
  BY <1>3, <1>4, <1>5, <1>6, <1>7

\* handle_directory of a node.
LEMMA ReceiverStep ==
    ASSUME IInv, NEW n \in Nodes, receiver(n)
    PROVE  IInv' /\ GrowsStep
<1>1. ASSUME NEW m \in net, handle_directory(n, m) PROVE IInv' /\ GrowsStep
  <2>1. m.from \in Leaves /\ m.snap \in Snapshot
    BY <1>1 DEF handle_directory, IInv, TypeOK
  <2> DEFINE h == [from |-> m.from, at |-> "stamp", snap |-> m.snap]
  <2>2. h \in Handling /\ h.from \in Leaves
    BY <2>1 DEF Handling
  <2>3. handling' = [handling EXCEPT ![n] = h] /\ net' = net \ {m}
    BY <1>1 DEF handle_directory
  <2> HIDE DEF h
  <2>4. UNCHANGED <<up, counter, dir, tomb, leaves, leaf_eps, clock, leaf, changes, faults, expiries>>
    BY <1>1 DEF handle_directory
  <2>5. handling' \in [Nodes -> Handling]
    BY <2>2, <2>3 DEF IInv, TypeOK
  <2>6. \A k \in Nodes : handling'[k].at = "stamp" => handling'[k].from \in Leaves
    BY <2>2, <2>3 DEF IInv, TypeOK
  <2>7. GrowsStep
    BY <2>4, SameTables DEF IInv
  <2>8. QED
    BY <2>3, <2>4, <2>5, <2>6, <2>7 DEF IInv, TypeOK, leaf
<1>2. ASSUME NEW m \in net, handle_directory_other(n, m) PROVE IInv' /\ GrowsStep
  <2>1. m.snap \in Snapshot
    BY DEF IInv, TypeOK
  <2>2. /\ dir' = [dir EXCEPT ![n] = MergeDir(n, m.snap)]
        /\ tomb' = [tomb EXCEPT ![n] = MergeTomb(n, m.snap)]
        /\ net' = net \ {m}
        /\ UNCHANGED <<up, counter, leaves, leaf_eps, handling, clock, leaf, changes, faults, expiries>>
    BY <1>2 DEF handle_directory_other
  <2>3. /\ dir' \in [Nodes -> [Eps -> Entry]] /\ tomb' \in [Nodes -> [Eps -> Nat]]
        /\ \A k \in Nodes, e \in Eps : dir'[k][e].v > 0 => dir'[k][e].v > tomb'[k][e]
        /\ GrowsStep
    BY <2>1, <2>2, OneMerges DEF IInv
  <2>4. QED
    BY <2>2, <2>3 DEF IInv, TypeOK, leaf
<1>3. ASSUME handle_directory_stamp(n) PROVE IInv' /\ GrowsStep
  <2> DEFINE h == handling[n]
             s == Stamped(n, h.from, h.snap)
             a == [h EXCEPT !.at = "merge"]
             b == [a EXCEPT !.snap = snapshot(s.eps, s.removed)]
  <2>1. h \in Handling /\ h.from \in Leaves /\ h.snap \in Snapshot
    BY <1>3 DEF handle_directory_stamp, IInv, TypeOK, Handling
  <2>2. /\ handling' = [handling EXCEPT ![n] = b]
        /\ counter' = [counter EXCEPT ![n] = @ + s.used]
        /\ leaf_eps' = [leaf_eps EXCEPT ![n][h.from] = s.listed]
        /\ UNCHANGED <<up, dir, tomb, leaves, clock, leaf, net, changes, faults, expiries>>
    BY <1>3 DEF handle_directory_stamp
  <2>3. snapshot(s.eps, s.removed) \in Snapshot /\ s.listed \in SUBSET Eps /\ s.used \in Nat
    BY <2>1, StampedTyped DEF IInv
  <2>4. a \in Handling /\ a.at = "merge"
    BY <2>1 DEF Handling
  <2> HIDE DEF a, s, h
  <2>5. b \in Handling /\ b.at = "merge"
    BY <2>3, <2>4 DEF Handling
  <2> HIDE DEF b
  <2>6. handling' \in [Nodes -> Handling]
    BY <2>2, <2>5 DEF IInv, TypeOK
  <2>7. \A k \in Nodes : handling'[k].at = "stamp" => handling'[k].from \in Leaves
    BY <2>2, <2>5 DEF IInv, TypeOK
  <2>8. counter' \in [Procs -> Nat]
    BY <2>2, <2>3 DEF IInv, TypeOK, Procs
  <2>9. leaf_eps' \in [Nodes -> [Leaves -> SUBSET Eps]]
    BY <2>1, <2>2, <2>3 DEF IInv, TypeOK
  <2>10. GrowsStep
    BY <2>2, SameTables DEF IInv
  <2>11. QED
    BY <2>2, <2>6, <2>7, <2>8, <2>9, <2>10 DEF IInv, TypeOK, leaf
<1>4. ASSUME handle_directory_merge(n) PROVE IInv' /\ GrowsStep
  <2>1. handling[n].snap \in Snapshot
    BY DEF IInv, TypeOK, Handling
  <2>2. /\ dir' = [dir EXCEPT ![n] = MergeDir(n, handling[n].snap)]
        /\ tomb' = [tomb EXCEPT ![n] = MergeTomb(n, handling[n].snap)]
        /\ handling' = [handling EXCEPT ![n] = Nothing]
        /\ net' = Send(n, Nodes \ {n}, snapshot(dir'[n], tomb'[n]))
        /\ UNCHANGED <<up, counter, leaves, leaf_eps, clock, leaf, changes, faults, expiries>>
    BY <1>4 DEF handle_directory_merge, broadcast_snapshot
  <2>3. /\ dir' \in [Nodes -> [Eps -> Entry]] /\ tomb' \in [Nodes -> [Eps -> Nat]]
        /\ \A k \in Nodes, e \in Eps : dir'[k][e].v > 0 => dir'[k][e].v > tomb'[k][e]
        /\ dir'[n] \in [Eps -> Entry] /\ tomb'[n] \in [Eps -> Nat]
        /\ GrowsStep
    BY <2>1, <2>2, OneMerges DEF IInv
  <2>4. snapshot(dir'[n], tomb'[n]) \in Snapshot
    BY <2>3 DEF snapshot, Snapshot
  <2>5. net' \subseteq [from : Procs, to : Nodes, snap : Snapshot]
    BY <2>2, <2>4, SentTyped DEF IInv, Procs
  <2>6. handling' \in [Nodes -> Handling]
    BY <2>2, NothingTyped DEF IInv, TypeOK
  <2>7. \A k \in Nodes : handling'[k].at = "stamp" => handling'[k].from \in Leaves
    BY <2>2, NothingTyped DEF IInv, TypeOK
  <2>8. QED
    BY <2>2, <2>3, <2>5, <2>6, <2>7 DEF IInv, TypeOK, leaf
<1>5. QED
  BY <1>1, <1>2, <1>3, <1>4 DEF receiver

\* A node marks the endpoints of a leaf it lost as dead.
LEMMA ClosedStep ==
    ASSUME IInv, NEW n \in Nodes, NEW l \in Leaves, on_peer_closed(n, l)
    PROVE  IInv' /\ GrowsStep
<1> DEFINE its == {e \in Eps : Owner[e] = l /\ dir[n][e].v > 0}
           s   == [e \in Eps |-> IF e \in its
                                 THEN [dir[n][e] EXCEPT !.alive = FALSE, !.v = counter[n] + Rank(e, its)]
                                 ELSE dir[n][e]]
<1>1. /\ Fault("close")
      /\ leaves' = [leaves EXCEPT ![n] = @ \ {l}]
      /\ leaf_eps' = [leaf_eps EXCEPT ![n][l] = {}]
      /\ counter' = [counter EXCEPT ![n] = @ + Cardinality(its)]
      /\ dir' = [dir EXCEPT ![n] = MergeDir(n, snapshot(s, tomb[n]))]
      /\ net' = IF its = {} THEN net ELSE Send(n, Nodes \ {n}, snapshot(dir'[n], tomb[n]))
      /\ UNCHANGED <<up, tomb, handling, clock, leaf, changes, expiries>>
  BY DEF on_peer_closed, broadcast_snapshot
<1>2. its \in SUBSET Eps /\ counter[n] \in Nat /\ dir[n] \in [Eps -> Entry] /\ tomb[n] \in [Eps -> Nat]
  BY DEF IInv, TypeOK, Procs
<1> HIDE DEF its
<1>3. Cardinality(its) \in Nat /\ \A e \in Eps : Rank(e, its) \in Nat
  BY <1>2, CardinalNat, RankNat
<1>4. s \in [Eps -> Entry]
  <2>1. ASSUME NEW e \in Eps
        PROVE  [dir[n][e] EXCEPT !.alive = FALSE, !.v = counter[n] + Rank(e, its)] \in Entry
    <3> DEFINE d == dir[n][e]
               w == counter[n] + Rank(e, its)
               a == [d EXCEPT !.alive = FALSE]
    <3>1. d \in Entry /\ w \in Nat
      BY <1>2, <1>3
    <3> HIDE DEF d, w
    <3>2. a \in Entry
      BY <3>1 DEF Entry
    <3> HIDE DEF a
    <3>3. [a EXCEPT !.v = w] \in Entry
      BY <3>1, <3>2 DEF Entry
    <3>4. QED
      BY <3>3 DEF a, d, w
  <2>2. QED
    BY <1>2, <2>1
<1> HIDE DEF s
<1>5. snapshot(s, tomb[n]) \in Snapshot /\ snapshot(s, tomb[n]).removed = tomb[n]
  BY <1>2, <1>4 DEF snapshot, Snapshot
<1>6. MergeTomb(n, snapshot(s, tomb[n])) = tomb[n]
  BY <1>2, <1>5 DEF MergeTomb, RemoveTomb
<1>7. tomb' = [tomb EXCEPT ![n] = MergeTomb(n, snapshot(s, tomb[n]))]
  BY <1>1, <1>6 DEF IInv, TypeOK
<1>8. /\ dir' \in [Nodes -> [Eps -> Entry]] /\ tomb' \in [Nodes -> [Eps -> Nat]]
      /\ \A k \in Nodes, e \in Eps : dir'[k][e].v > 0 => dir'[k][e].v > tomb'[k][e]
      /\ dir'[n] \in [Eps -> Entry] /\ tomb'[n] \in [Eps -> Nat]
      /\ GrowsStep
  BY <1>1, <1>5, <1>7, OneMerges DEF IInv
<1>9. snapshot(dir'[n], tomb[n]) \in Snapshot
  BY <1>2, <1>8 DEF snapshot, Snapshot
<1>10. net' \subseteq [from : Procs, to : Nodes, snap : Snapshot]
  <2>1. CASE its = {}
    BY <1>1, <2>1 DEF IInv, TypeOK
  <2>2. CASE its # {}
    BY <1>1, <1>9, <2>2, SentTyped DEF IInv, Procs
  <2>3. QED
    BY <2>1, <2>2
<1>11. faults' \in [count : 0 .. MaxFaults, kinds : SUBSET Kinds]
  BY <1>1, MeshConstants DEF Fault, Kinds, IInv, TypeOK
<1>12. counter' \in [Procs -> Nat] /\ leaves' \in [Nodes -> SUBSET Leaves]
  BY <1>1, <1>3 DEF IInv, TypeOK, Procs
<1>13. leaf_eps' \in [Nodes -> [Leaves -> SUBSET Eps]]
  BY <1>1 DEF IInv, TypeOK
<1>14. QED
  BY <1>1, <1>8, <1>10, <1>11, <1>12, <1>13 DEF IInv, TypeOK, leaf

\* The node's other steps, the end of tombstones, and losses.
LEMMA NodeStep ==
    ASSUME IInv,
           \/ \E n \in Nodes, e \in Eps : TombstoneExpires(n, e)
           \/ \E n \in Nodes : node_sync(n) \/ Crash(n) \/ start(n)
           \/ \E n \in Nodes, l \in Leaves : on_peer_online(n, l)
           \/ \E m \in net : Lose(m)
    PROVE  IInv' /\ GrowsStep
<1>0. MaxFaults \in Nat /\ MaxExpiries \in Nat /\ StartGap \in Nat
  BY MeshConstants
<1>1. Absent \in Entry /\ Absent.v = 0
  BY DEF Absent, Entry
<1>2. ASSUME NEW n \in Nodes, NEW e \in Eps, TombstoneExpires(n, e) PROVE IInv' /\ GrowsStep
  <2>1. /\ tomb' = [tomb EXCEPT ![n][e] = 0]
        /\ expiries < MaxExpiries /\ expiries' = expiries + 1
        /\ UNCHANGED <<up, counter, dir, leaves, leaf_eps, handling, clock, leaf, net, changes, faults>>
    BY <1>2 DEF TombstoneExpires
  <2>2. /\ tomb' \in [Nodes -> [Eps -> Nat]]
        /\ \A m \in Nodes, x \in Eps : tomb'[m][x] = IF m = n /\ x = e THEN 0 ELSE tomb[m][x]
    BY <2>1 DEF IInv, TypeOK
  <2>3. \A m \in Nodes, x \in Eps : dir'[m][x].v > 0 => dir'[m][x].v > tomb'[m][x]
    BY <2>1, <2>2 DEF IInv, TypeOK
  <2>4. expiries' \in 0 .. MaxExpiries
    BY <1>0, <2>1 DEF IInv, TypeOK
  <2>5. GrowsStep
    <3>1. SUFFICES ASSUME NEW m \in Nodes, NEW x \in Eps
                   PROVE  Known(m, x)' >= Known(m, x) \/ tomb'[m][x] < tomb[m][x]
      BY DEF GrowsStep, IInv, TypeOK
    <3>2. dir[m][x].v \in Nat /\ tomb[m][x] \in Nat /\ dir'[m][x] = dir[m][x]
      BY <2>1 DEF IInv, TypeOK, Entry
    <3>3. tomb'[m][x] < tomb[m][x] \/ tomb'[m][x] = tomb[m][x]
      BY <2>2, <3>2
    <3>4. QED
      BY <3>2, <3>3 DEF Known
  <2>6. QED
    BY <2>1, <2>2, <2>3, <2>4, <2>5 DEF IInv, TypeOK, leaf
<1>3. ASSUME NEW n \in Nodes, node_sync(n) PROVE IInv' /\ GrowsStep
  <2>1. /\ net' = Send(n, Nodes \ {n}, snapshot(dir[n], tomb[n]))
        /\ UNCHANGED <<node, clock, leaf, changes, faults, expiries>>
    BY <1>3 DEF node_sync, broadcast_snapshot
  <2>2. snapshot(dir[n], tomb[n]) \in Snapshot
    BY DEF IInv, TypeOK, snapshot, Snapshot
  <2>3. net' \subseteq [from : Procs, to : Nodes, snap : Snapshot]
    BY <2>1, <2>2, SentTyped DEF IInv, Procs
  <2>4. GrowsStep
    BY <2>1, SameTables DEF IInv, node
  <2>5. QED
    BY <2>1, <2>3, <2>4 DEF IInv, TypeOK, node, leaf
<1>4. ASSUME NEW n \in Nodes, Crash(n) PROVE IInv' /\ GrowsStep
  <2>1. /\ up' = up \ {n}
        /\ dir' = [dir EXCEPT ![n] = [e \in Eps |-> Absent]]
        /\ tomb' = [tomb EXCEPT ![n] = [e \in Eps |-> 0]]
        /\ leaves' = [leaves EXCEPT ![n] = {}]
        /\ leaf_eps' = [leaf_eps EXCEPT ![n] = [l \in Leaves |-> {}]]
        /\ handling' = [handling EXCEPT ![n] = Nothing]
        /\ net' \subseteq net /\ UNCHANGED <<counter, clock, leaf, changes, expiries>>
    BY <1>4 DEF Crash
  <2>2. faults' \in [count : 0 .. MaxFaults, kinds : SUBSET Kinds]
    BY <1>0, <1>4 DEF Crash, Fault, Kinds, IInv, TypeOK
  <2>3. /\ dir' \in [Nodes -> [Eps -> Entry]] /\ tomb' \in [Nodes -> [Eps -> Nat]]
        /\ \A k \in Nodes : k # n => dir'[k] = dir[k] /\ tomb'[k] = tomb[k]
        /\ \A e \in Eps : dir'[n][e].v = 0
    BY <1>1, <2>1 DEF IInv, TypeOK
  <2>4. ASSUME NEW k \in Nodes, NEW e \in Eps
        PROVE  dir'[k][e].v > 0 => dir'[k][e].v > tomb'[k][e]
    <3>1. CASE k = n
      BY <2>3, <3>1
    <3>2. CASE k # n
      BY <2>3, <3>2 DEF IInv, TypeOK
    <3>3. QED
      BY <3>1, <3>2
  <2>5. handling' \in [Nodes -> Handling]
    BY <2>1, NothingTyped DEF IInv, TypeOK
  <2>6. \A k \in Nodes : handling'[k].at = "stamp" => handling'[k].from \in Leaves
    BY <2>1, NothingTyped DEF IInv, TypeOK
  <2>7. leaves' \in [Nodes -> SUBSET Leaves] /\ leaf_eps' \in [Nodes -> [Leaves -> SUBSET Eps]]
    BY <2>1 DEF IInv, TypeOK
  <2>8. GrowsStep
    <3>1. SUFFICES ASSUME NEW k \in Nodes, k # n, NEW e \in Eps PROVE Known(k, e)' >= Known(k, e)
      BY <2>1 DEF GrowsStep, IInv, TypeOK
    <3>2. Known(k, e)' = Known(k, e) /\ Known(k, e) \in Nat
      BY <2>3, <3>1 DEF Known, IInv, TypeOK, Entry
    <3>3. QED
      BY <3>2
  <2>9. QED
    BY <2>1, <2>2, <2>3, <2>4, <2>5, <2>6, <2>7, <2>8 DEF IInv, TypeOK, leaf
<1>5. ASSUME NEW n \in Nodes, start(n) PROVE IInv' /\ GrowsStep
  <2>1. /\ up' = up \cup {n} /\ clock' = clock + 1
        /\ counter' = [counter EXCEPT ![n] = clock' * StartGap]
        /\ UNCHANGED <<dir, tomb, leaves, leaf_eps, handling, leaf, net, changes, faults, expiries>>
    BY <1>5 DEF start
  <2>2. clock' \in Nat /\ clock' * StartGap \in Nat
    <3>1. clock' \in Nat
      BY <2>1 DEF IInv, TypeOK
    <3>2. QED
      BY <1>0, <3>1, ProductNat
  <2>3. counter' \in [Procs -> Nat]
    BY <2>1, <2>2 DEF IInv, TypeOK
  <2>4. GrowsStep
    BY <2>1, SameTables DEF IInv
  <2>5. QED
    BY <2>1, <2>2, <2>3, <2>4 DEF IInv, TypeOK, leaf
<1>6. ASSUME NEW n \in Nodes, NEW l \in Leaves, on_peer_online(n, l) PROVE IInv' /\ GrowsStep
  <2>1. /\ leaves' = [leaves EXCEPT ![n] = @ \cup {l}]
        /\ UNCHANGED <<up, counter, dir, tomb, leaf_eps, handling, clock, leaf, net, changes, faults, expiries>>
    BY <1>6 DEF on_peer_online
  <2>2. GrowsStep
    BY <2>1, SameTables DEF IInv
  <2>3. QED
    BY <2>1, <2>2 DEF IInv, TypeOK, leaf
<1>7. ASSUME NEW m \in net, Lose(m) PROVE IInv' /\ GrowsStep
  <2>1. net' = net \ {m} /\ UNCHANGED <<node, clock, leaf, changes, expiries>>
    BY <1>7 DEF Lose
  <2>2. faults' \in [count : 0 .. MaxFaults, kinds : SUBSET Kinds]
    BY <1>0, <1>7 DEF Lose, Fault, Kinds, IInv, TypeOK
  <2>3. GrowsStep
    BY <2>1, SameTables DEF IInv, node
  <2>4. QED
    BY <2>1, <2>2, <2>3 DEF IInv, TypeOK, node, leaf
<1>8. QED
  BY <1>2, <1>3, <1>4, <1>5, <1>6, <1>7

LEMMA NextIInv ==
    ASSUME IInv, [Next]_vars
    PROVE  IInv' /\ GrowsStep
<1>1. CASE UNCHANGED vars
  <2>1. GrowsStep
    BY <1>1, SameTables DEF IInv, vars, node
  <2>2. QED
    BY <1>1, <2>1 DEF IInv, TypeOK, vars, node, leaf
<1>2. CASE Next
  BY <1>2, LeafStep, ReceiverStep, ClosedStep, NodeStep DEF Next
<1>3. QED
  BY <1>1, <1>2
-----------------------------------------------------------------------------
LEMMA Inductive == Spec => []IInv
<1>1. IInv /\ [Next]_vars => IInv'
  BY NextIInv
<1>2. QED
  BY InitIInv, <1>1, PTL DEF Spec

\* While a node runs, what it knows of an endpoint never grows older, whichever leaves and
\* nodes it hears of it from and in whatever order, until the tombstone expires.
THEOREM KnowledgeGrows == Spec => KnownGrows
<1>1. IInv /\ [Next]_vars =>
        [TypeOK /\ \A n \in up \cap up', e \in Eps : Known(n, e)' >= Known(n, e) \/ tomb'[n][e] < tomb[n][e]]_vars
  BY NextIInv DEF IInv, GrowsStep
<1>2. QED
  BY Inductive, <1>1, PTL DEF Spec, KnownGrows
-----------------------------------------------------------------------------
(* The framework under the node's runtime (TaskFramework) *)

\* The steps of a cycle.
Steps == {"idle", "beat", "evolve", "execute", "count", "recycle", "rearm"}

FrameworkTypes ==
    /\ starts \in Nat /\ running \in BOOLEAN /\ closed \in BOOLEAN
    /\ heap \in [Jobs -> {"none", "waiting", "due", "late"}]
    /\ queue \in [{"cpu", "io"} -> Seq(Jobs)]
    /\ work \in [Workers -> Jobs \cup {None}]
    /\ phase \in [Cpu -> Steps]
    /\ \A w \in Cpu : Len(cs[w]) \in Nat
    /\ DOMAIN cs = Cpu
    /\ calls \in Int /\ busy \in Int /\ pending \in Int

\* A heartbeat tick: an entry of the heap, one of the cpu pool's queue, a worker.
HeapTick(c) == heap[c] # "none"
QueueTick(i) == queue["cpu"][i] \in Chains
WorkTick(w) == work[w] \in Chains

QueueSpots == 1..Len(queue["cpu"])

\* Ticks are run by the cpu pool, and a worker is at a step of a cycle when it runs one.
TicksOnCpu ==
    /\ \A i \in 1..Len(queue["io"]) : queue["io"][i] \notin Chains
    /\ \A w \in Io : work[w] \notin Chains
    /\ \A w \in Cpu : work[w] \in Chains <=> phase[w] # "idle"

\* No two ticks, wherever they are.
AtMostOne ==
    /\ \A c \in Chains : HeapTick(c) =>
          /\ \A e \in Chains : HeapTick(e) => c = e
          /\ \A i \in QueueSpots : ~QueueTick(i)
          /\ \A w \in Cpu : ~WorkTick(w)
    /\ \A i \in QueueSpots : QueueTick(i) =>
          /\ \A k \in QueueSpots : QueueTick(k) => i = k
          /\ \A w \in Cpu : ~WorkTick(w)
    /\ \A w, x \in Cpu : WorkTick(w) /\ WorkTick(x) => w = x

SomeTick ==
    \/ \E c \in Chains : HeapTick(c)
    \/ \E i \in QueueSpots : QueueTick(i)
    \/ \E w \in Cpu : WorkTick(w)

\* No tick before start(), and one afterwards, up to the end of the chain after stop().
Lone ==
    /\ starts = 0 => ~SomeTick /\ ~running
    /\ starts <= 1 => AtMostOne /\ (running => SomeTick)

\* m_pending is behind by the change set that is queued and not yet counted.
Counted ==
    (starts <= 1 /\ ~closed) =>
        /\ (\A w \in Cpu : phase[w] # "count") => pending = (calls + busy) % Wrap
        /\ \A w \in Cpu : phase[w] = "count" => pending = (calls + busy - Len(cs[w])) % Wrap

\* The inductive invariant.
FrameworkInv == FrameworkTypes /\ TicksOnCpu /\ Lone /\ Counted

\* The heartbeat ticks and the runtime's tasks are different jobs, each with its pool.
LEMMA JobFacts ==
    /\ Chains \subseteq Jobs /\ Tasks \subseteq Jobs
    /\ \A c \in Chains : c \notin Tasks /\ PoolOf(c) = "cpu"
    /\ None \notin Chains
    /\ Cpu \subseteq Workers /\ Io \subseteq Workers
    /\ \A w \in Workers : w \in Cpu \/ (w \in Io /\ w \notin Cpu)
    /\ \A w \in Cpu : Pool(w) = "cpu"
    /\ \A w \in Workers \ Cpu : Pool(w) = "io"
    /\ \A j \in Jobs : PoolOf(j) \in {"cpu", "io"}
  <1>1. \A c \in Chains : c \notin Tasks
    <2> SUFFICES ASSUME NEW n \in 1..MaxStarts, NEW p \in Periodic, <<"tick", n>> = <<p, 0>>
                 PROVE  FALSE
      BY DEF Chains, Tasks
    <2> QED BY FrameworkAssumption
  <1>2. None \notin Chains
    BY DEF None, Chains
  <1> QED BY <1>1, <1>2, FrameworkAssumption DEF Jobs, Workers, Pool, PoolOf

\* A step that moves no tick keeps what is said of where the ticks are.
LEMMA SamePlaces ==
    ASSUME TicksOnCpu, Lone, \A c \in Chains : HeapTick(c)' <=> HeapTick(c),
           UNCHANGED <<queue, work, starts>>, running' => running,
           \A w \in Cpu : phase'[w] = "idle" <=> phase[w] = "idle"
    PROVE  TicksOnCpu' /\ Lone'
  <1>1. TicksOnCpu'
    BY DEF TicksOnCpu
  <1>2. /\ \A i \in QueueSpots : QueueTick(i)' <=> QueueTick(i)
        /\ \A w \in Cpu : WorkTick(w)' <=> WorkTick(w)
        /\ QueueSpots' = QueueSpots
    BY DEF QueueTick, WorkTick, QueueSpots
  <1>3. SomeTick' <=> SomeTick
    BY <1>2 DEF SomeTick
  <1>4. AtMostOne => AtMostOne'
    BY <1>2 DEF AtMostOne
  <1> QED BY <1>1, <1>3, <1>4 DEF Lone

\* A step that moves no call and counts none keeps what is said of m_pending.
LEMMA SameCount ==
    ASSUME Counted, starts' \in Nat, starts' = starts \/ starts' > 1, closed' = closed \/ closed',
           UNCHANGED <<calls, busy, pending>>,
           \A w \in Cpu : /\ phase'[w] = "count" <=> phase[w] = "count"
                          /\ phase[w] = "count" => Len(cs'[w]) = Len(cs[w])
    PROVE  Counted'
  <1> SUFFICES ASSUME starts' <= 1, ~closed'
               PROVE  /\ (\A w \in Cpu : phase'[w] # "count") => pending' = (calls' + busy') % Wrap
                      /\ \A w \in Cpu : phase'[w] = "count" => pending' = (calls' + busy' - Len(cs'[w])) % Wrap
    BY DEF Counted
  <1>1. starts <= 1 /\ ~closed
    OBVIOUS
  <1> QED BY <1>1 DEF Counted

\* A sum modulo n does not change with a multiple of n.
LEMMA ModShift ==
    ASSUME NEW y \in Int, NEW q \in Int, NEW n \in Nat \ {0}
    PROVE  (y + n * q) % n = y % n
  <1>1. PICK k \in Int, r \in Int : y = n * k + r /\ r = y % n /\ 0 <= r /\ r < n
    OBVIOUS
  <1>2. PICK z \in Int : z = y + n * q
    OBVIOUS
  <1>3. PICK l \in Int, t \in Int : z = n * l + t /\ t = z % n /\ 0 <= t /\ t < n
    OBVIOUS
  <1>4. PICK e \in Int : e = k + q - l
    OBVIOUS
  <1>5. n * e = t - r
    <2>1. n * e = n * k + n * q - n * l
      BY <1>4
    <2>2. PICK a \in Int, b \in Int, c \in Int : a = n * k /\ b = n * q /\ c = n * l
      OBVIOUS
    <2>3. n * e = a + b - c /\ y = a + r /\ z = y + b /\ z = c + t
      BY <1>1, <1>2, <1>3, <2>1, <2>2, Zenon
    <2> QED BY <2>3
  <1>6. e = 0
    <2>1. CASE e >= 1
      <3>1. n * e >= n
        BY <2>1
      <3> QED BY <3>1, <1>1, <1>3, <1>5
    <2>2. CASE e <= -1
      <3>1. n * e <= -n
        BY <2>2
      <3> QED BY <3>1, <1>1, <1>3, <1>5
    <2> QED BY <2>1, <2>2
  <1>7. t = r
    BY <1>5, <1>6
  <1> QED BY <1>1, <1>2, <1>3, <1>7

\* m_pending may be reduced before or after an addition.
LEMMA ModAdd ==
    ASSUME NEW x \in Int, NEW l \in Int, NEW n \in Nat \ {0}
    PROVE  ((x % n) + l) % n = (x + l) % n
  <1>1. PICK q \in Int, r \in Int : x = n * q + r /\ r = x % n /\ 0 <= r /\ r < n
    OBVIOUS
  <1>4. PICK p \in Int, y \in Int : p = n * q /\ y = r + l
    OBVIOUS
  <1>2. x + l = y + p
    BY <1>1, <1>4
  <1>3. (y + p) % n = y % n
    BY <1>4, ModShift
  <1> QED BY <1>1, <1>2, <1>3, <1>4

HeapStates == {"none", "waiting", "due", "late"}

\* Before start() there is no tick and nothing is counted.
LEMMA InitFramework == FrameworkInit => FrameworkInv
  <1> SUFFICES ASSUME FrameworkInit
               PROVE  FrameworkInv
    OBVIOUS
  <1>1. /\ starts = 0 /\ running = FALSE /\ closed = FALSE
        /\ heap = [j \in Jobs |-> "none"] /\ queue = [p \in {"cpu", "io"} |-> <<>>]
        /\ work = [w \in Workers |-> None] /\ phase = [w \in Cpu |-> "idle"] /\ cs = [w \in Cpu |-> <<>>]
        /\ calls = 0 /\ busy = 0 /\ pending = 0
    BY DEF FrameworkInit
  <1>2. FrameworkTypes
    <2>1. queue \in [{"cpu", "io"} -> Seq(Jobs)]
      BY <1>1
    <2>2. work \in [Workers -> Jobs \cup {None}] /\ phase \in [Cpu -> Steps]
      BY <1>1 DEF Steps
    <2>3. DOMAIN cs = Cpu /\ \A w \in Cpu : Len(cs[w]) \in Nat
      <3>1. PICK e : e = <<>> /\ Len(e) \in Nat
        OBVIOUS
      <3>2. cs = [w \in Cpu |-> e]
        BY <1>1, <3>1
      <3> QED BY <3>1, <3>2
    <2>4. heap \in [Jobs -> {"none", "waiting", "due", "late"}]
      BY <1>1
    <2>5. starts \in Nat /\ calls \in Int /\ busy \in Int /\ pending \in Int
      BY <1>1
    <2>6. running \in BOOLEAN /\ closed \in BOOLEAN
      BY <1>1, Zenon
    <2> QED BY <2>1, <2>2, <2>3, <2>4, <2>5, <2>6 DEF FrameworkTypes
  <1>3. /\ \A c \in Chains : heap[c] = "none" /\ c \in Jobs
        /\ Len(queue["cpu"]) = 0 /\ Len(queue["io"]) = 0
        /\ \A w \in Workers : work[w] \notin Chains
        /\ \A w \in Cpu : w \in Workers /\ phase[w] = "idle"
        /\ \A w \in Io : w \in Workers
    BY <1>1, JobFacts
  <1>4. TicksOnCpu
    BY <1>3 DEF TicksOnCpu
  <1>5. Lone
    BY <1>1, <1>3 DEF Lone, SomeTick, AtMostOne, HeapTick, QueueTick, WorkTick, QueueSpots
  <1>6. Counted
    <2>1. 0 % Wrap = 0
      BY FrameworkAssumption
    <2> QED BY <1>1, <2>1 DEF Counted
  <1> QED BY <1>2, <1>4, <1>5, <1>6 DEF FrameworkInv

\* A step that moves no tick, stops at most, and counts nothing, or after the close.
LEMMA QuietFramework ==
    ASSUME FrameworkInv, heap' \in [Jobs -> HeapStates],
           \A c \in Chains : HeapTick(c)' <=> HeapTick(c),
           UNCHANGED <<starts, queue, work, phase, cs>>, running' \in BOOLEAN, running' => running,
           closed' \in BOOLEAN, closed' \/ UNCHANGED <<calls, busy, pending, closed>>,
           calls' \in Int, busy' \in Int, pending' \in Int
    PROVE  FrameworkInv'
  <1>1. FrameworkTypes /\ TicksOnCpu /\ Lone /\ Counted
    BY DEF FrameworkInv
  <1>2. FrameworkTypes'
    BY <1>1 DEF FrameworkTypes, HeapStates
  <1>3. TicksOnCpu' /\ Lone'
    BY <1>1, SamePlaces
  <1>4. Counted'
    <2>1. CASE closed'
      BY <2>1 DEF Counted
    <2>2. CASE UNCHANGED <<calls, busy, pending, closed>>
      BY <2>2, <1>1 DEF Counted
    <2> QED BY <2>1, <2>2
  <1> QED BY <1>2, <1>3, <1>4 DEF FrameworkInv

\* start() arms the first tick, when no other exists.
LEMMA StartFramework ==
    ASSUME FrameworkInv, framework_start
    PROVE  FrameworkInv'
  <1>1. FrameworkTypes /\ TicksOnCpu /\ Lone /\ Counted
    BY DEF FrameworkInv
  <1>2. PICK t : t = <<"tick", starts + 1>>
    OBVIOUS
  <1>3. /\ starts < MaxStarts /\ starts' = starts + 1 /\ running' = TRUE
        /\ heap' = [j \in Jobs |-> IF j \in {t} THEN "waiting" ELSE heap[j]]
        /\ UNCHANGED <<queue, work, phase, cs, calls, busy, pending, closed>>
    BY <1>2 DEF framework_start, Armed, reactor, flow, stage4
  <1>4. starts \in Nat /\ starts + 1 \in 1..MaxStarts
    BY <1>1, <1>3, FrameworkAssumption DEF FrameworkTypes
  <1>5. t \in Chains /\ t \in Jobs
    BY <1>2, <1>4, JobFacts DEF Chains
  <1>6. FrameworkTypes'
    BY <1>1, <1>3, <1>4 DEF FrameworkTypes
  <1>7. TicksOnCpu'
    BY <1>1, <1>3 DEF TicksOnCpu
  <1>8. Lone'
    <2>1. CASE starts = 0
      <3>1. ~SomeTick
        BY <1>1, <2>1 DEF Lone
      <3>2. /\ \A c \in Chains : HeapTick(c)' <=> c = t
            /\ \A i \in QueueSpots : ~QueueTick(i)'
            /\ \A w \in Cpu : ~WorkTick(w)'
            /\ QueueSpots' = QueueSpots
        BY <1>3, <1>5, <3>1, JobFacts DEF SomeTick, HeapTick, QueueTick, WorkTick, QueueSpots
      <3>3. AtMostOne' /\ SomeTick'
        BY <1>5, <3>2 DEF AtMostOne, SomeTick
      <3> QED BY <1>3, <2>1, <3>3 DEF Lone
    <2>2. CASE starts # 0
      BY <1>3, <1>4, <2>2 DEF Lone
    <2> QED BY <2>1, <2>2
  <1>9. Counted'
    <2>1. CASE starts = 0
      <3>1. starts <= 1
        BY <2>1
      <3> QED BY <1>1, <1>3, <3>1 DEF Counted
    <2>2. CASE starts # 0
      BY <1>3, <1>4, <2>2 DEF Counted
    <2> QED BY <2>1, <2>2
  <1> QED BY <1>6, <1>7, <1>8, <1>9 DEF FrameworkInv

\* A step of run_one_cycle between two of its steps that count nothing.
LEMMA CycleStep ==
    ASSUME FrameworkInv, NEW w \in Cpu, phase[w] \in {"beat", "evolve", "recycle"},
           NEW p \in {"evolve", "execute", "rearm"}, phase' = [phase EXCEPT ![w] = p],
           UNCHANGED <<starts, running, closed, heap, queue, work, calls, busy, pending>>,
           DOMAIN cs' = Cpu, Len(cs'[w]) \in Nat, \A x \in Cpu \ {w} : cs'[x] = cs[x]
    PROVE  FrameworkInv'
  <1>1. FrameworkTypes /\ TicksOnCpu /\ Lone /\ Counted
    BY DEF FrameworkInv
  <1>2. phase' \in [Cpu -> Steps] /\ phase'[w] = p /\ \A x \in Cpu \ {w} : phase'[x] = phase[x]
    BY <1>1 DEF FrameworkTypes, Steps
  <1>3. FrameworkTypes'
    BY <1>1, <1>2 DEF FrameworkTypes
  <1>4. TicksOnCpu' /\ Lone'
    <2>1. \A c \in Chains : HeapTick(c)' <=> HeapTick(c)
      BY DEF HeapTick
    <2>2. \A x \in Cpu : phase'[x] = "idle" <=> phase[x] = "idle"
      BY <1>2
    <2> QED BY <1>1, <2>1, <2>2, SamePlaces
  <1>5. Counted'
    <2>1. \A x \in Cpu : /\ phase'[x] = "count" <=> phase[x] = "count"
                         /\ phase[x] = "count" => Len(cs'[x]) = Len(cs[x])
      BY <1>2
    <2>2. starts' \in Nat
      BY <1>3 DEF FrameworkTypes
    <2> QED BY <1>1, <2>1, <2>2, SameCount
  <1> QED BY <1>3, <1>4, <1>5 DEF FrameworkInv

\* No other worker is in a cycle when one is.
LEMMA OneInCycle ==
    ASSUME FrameworkInv, starts <= 1, NEW w \in Cpu, phase[w] # "idle"
    PROVE  \A x \in Cpu \ {w} : phase[x] = "idle"
  BY DEF FrameworkInv, TicksOnCpu, Lone, AtMostOne, WorkTick

\* Stage4Executor::execute queues the calls of the change set before it counts them ...
LEMMA ExecuteStep ==
    ASSUME FrameworkInv, NEW w \in Cpu, execute(w)
    PROVE  FrameworkInv'
  <1>1. FrameworkTypes /\ TicksOnCpu /\ Lone /\ Counted
    BY DEF FrameworkInv
  <1>2. PICK n \in Nat : n = Len(cs[w])
    BY <1>1 DEF FrameworkTypes
  <1>3. /\ phase[w] = "execute" /\ phase' = [phase EXCEPT ![w] = "count"]
        /\ calls' = IF closed THEN calls ELSE calls + n
        /\ UNCHANGED <<starts, running, closed, heap, queue, work, cs, busy, pending>>
    BY <1>2 DEF execute, At, Goto, timer
  <1>4. phase' \in [Cpu -> Steps] /\ phase'[w] = "count" /\ \A x \in Cpu \ {w} : phase'[x] = phase[x]
    BY <1>1, <1>3 DEF FrameworkTypes, Steps
  <1>5. calls' \in Int
    BY <1>1, <1>3 DEF FrameworkTypes
  <1>6. FrameworkTypes'
    BY <1>1, <1>3, <1>4, <1>5 DEF FrameworkTypes
  <1>7. TicksOnCpu' /\ Lone'
    <2>1. \A c \in Chains : HeapTick(c)' <=> HeapTick(c)
      BY <1>3 DEF HeapTick
    <2>2. \A x \in Cpu : phase'[x] = "idle" <=> phase[x] = "idle"
      BY <1>3, <1>4
    <2> QED BY <1>1, <1>3, <2>1, <2>2, SamePlaces
  <1>8. Counted'
    <2> SUFFICES ASSUME starts <= 1, ~closed
                 PROVE  \A x \in Cpu : phase'[x] = "count" => x = w /\ pending = (calls' + busy - n) % Wrap
      BY <1>2, <1>3, <1>4 DEF Counted
    <2>1. \A x \in Cpu \ {w} : phase[x] = "idle"
      BY <1>3, OneInCycle
    <2>2. pending = (calls + busy) % Wrap
      <3>1. \A x \in Cpu : phase[x] # "count"
        BY <1>3, <2>1
      <3> QED BY <1>1, <3>1 DEF Counted
    <2>3. calls' + busy - n = calls + busy
      BY <1>1, <1>3 DEF FrameworkTypes
    <2> QED BY <1>4, <2>1, <2>2, <2>3
  <1> QED BY <1>6, <1>7, <1>8 DEF FrameworkInv

\* ... and counts them.
LEMMA CountStep ==
    ASSUME FrameworkInv, NEW w \in Cpu, execute_count(w)
    PROVE  FrameworkInv'
  <1>1. FrameworkTypes /\ TicksOnCpu /\ Lone /\ Counted
    BY DEF FrameworkInv
  <1>2. PICK n \in Nat : n = Len(cs[w])
    BY <1>1 DEF FrameworkTypes
  <1>3. /\ phase[w] = "count" /\ phase' = [phase EXCEPT ![w] = "recycle"]
        /\ pending' = (pending + n) % Wrap
        /\ UNCHANGED <<starts, running, closed, heap, queue, work, calls, busy>>
    BY <1>2 DEF execute_count, At, Goto, timer
  <1>4. phase' \in [Cpu -> Steps] /\ phase'[w] = "recycle" /\ \A x \in Cpu \ {w} : phase'[x] = phase[x]
    BY <1>1, <1>3 DEF FrameworkTypes, Steps
  <1>5. cs' = [cs EXCEPT ![w] = <<>>]
    BY DEF execute_count
  <1>6. DOMAIN cs' = Cpu /\ \A x \in Cpu : Len(cs'[x]) \in Nat
    <2>1. Len(<<>>) \in Nat
      OBVIOUS
    <2> QED BY <1>1, <1>5, <2>1 DEF FrameworkTypes
  <1>7. pending' \in Int
    BY <1>1, <1>2, <1>3, FrameworkAssumption DEF FrameworkTypes
  <1>8. FrameworkTypes'
    BY <1>1, <1>3, <1>4, <1>6, <1>7 DEF FrameworkTypes
  <1>9. TicksOnCpu' /\ Lone'
    <2>1. \A c \in Chains : HeapTick(c)' <=> HeapTick(c)
      BY <1>3 DEF HeapTick
    <2>2. \A x \in Cpu : phase'[x] = "idle" <=> phase[x] = "idle"
      BY <1>3, <1>4
    <2> QED BY <1>1, <1>3, <2>1, <2>2, SamePlaces
  <1>10. Counted'
    <2> SUFFICES ASSUME starts <= 1, ~closed
                 PROVE  /\ \A x \in Cpu : phase'[x] # "count"
                        /\ pending' = (calls + busy) % Wrap
      BY <1>3 DEF Counted
    <2>1. \A x \in Cpu \ {w} : phase[x] = "idle"
      BY <1>3, OneInCycle
    <2>2. PICK b \in Int : b = calls + busy - n
      BY <1>1 DEF FrameworkTypes
    <2>3. pending = b % Wrap
      BY <1>1, <1>2, <1>3, <2>2 DEF Counted
    <2>4. ((b % Wrap) + n) % Wrap = (b + n) % Wrap
      <3>1. Wrap \in Nat \ {0} /\ n \in Int
        BY FrameworkAssumption
      <3> QED BY <3>1, ModAdd, Zenon
    <2>5. b + n = calls + busy
      BY <1>1, <2>2 DEF FrameworkTypes
    <2> QED BY <1>3, <1>4, <2>1, <2>3, <2>4, <2>5
  <1> QED BY <1>8, <1>9, <1>10 DEF FrameworkInv

\* A job submitted to a pool is the last of its queue.
LEMMA AppendJob ==
    ASSUME NEW s \in Seq(Jobs), NEW j \in Jobs
    PROVE  /\ Append(s, j) \in Seq(Jobs) /\ Len(s) \in Nat /\ Len(Append(s, j)) = Len(s) + 1
           /\ Append(s, j)[Len(s) + 1] = j /\ \A i \in 1..Len(s) : Append(s, j)[i] = s[i]
  OBVIOUS

\* What a worker leaves of the queue it takes a job from.
LEMMA TailJobs ==
    ASSUME NEW s \in Seq(Jobs), s # <<>>
    PROVE  /\ Tail(s) \in Seq(Jobs) /\ Len(s) \in Nat \ {0} /\ Len(Tail(s)) = Len(s) - 1
           /\ Head(s) = s[1] /\ s[1] \in Jobs
           /\ \A i \in 1..Len(Tail(s)) : Tail(s)[i] = s[i + 1]
  OBVIOUS

\* A worker takes a call, or has made it: what is owed and what is counted shrink alike.
LEMMA CallsStep ==
    ASSUME FrameworkInv, take_call \/ call_done
    PROVE  FrameworkInv'
  <1>1. FrameworkTypes /\ TicksOnCpu /\ Lone /\ Counted
    BY DEF FrameworkInv
  <1>2. UNCHANGED <<starts, running, heap, queue, work, phase, cs, closed>>
    BY DEF take_call, call_done, timer, reactor, flow
  <1>3. calls' \in Int /\ busy' \in Int /\ pending' \in Int
    BY <1>1, FrameworkAssumption DEF take_call, call_done, FrameworkTypes
  <1>4. FrameworkTypes'
    BY <1>1, <1>2, <1>3 DEF FrameworkTypes
  <1>5. TicksOnCpu' /\ Lone'
    <2>1. \A c \in Chains : HeapTick(c)' <=> HeapTick(c)
      BY <1>2 DEF HeapTick
    <2> QED BY <1>1, <1>2, <2>1, SamePlaces
  <1>6. CASE take_call
    <2>1. /\ pending' = pending /\ calls' + busy' = calls + busy
          /\ \A n \in Nat : calls' + busy' - n = calls + busy - n
      BY <1>1, <1>6 DEF take_call, FrameworkTypes
    <2>2. \A w \in Cpu : Len(cs[w]) \in Nat
      BY <1>1 DEF FrameworkTypes
    <2>3. Counted'
      BY <1>1, <1>2, <2>1, <2>2 DEF Counted
    <2> QED BY <1>4, <1>5, <2>3 DEF FrameworkInv
  <1>7. CASE call_done
    <2>1. PICK s \in Int : s = calls + busy
      BY <1>1 DEF FrameworkTypes
    <2>2. pending' = (pending - 1) % Wrap /\ calls' + busy' = s - 1
      BY <1>1, <1>7, <2>1 DEF call_done, FrameworkTypes
    <2>3. \A b \in Int : ((b % Wrap) - 1) % Wrap = (b - 1) % Wrap
      <3> TAKE b \in Int
      <3>1. Wrap \in Nat \ {0} /\ -1 \in Int /\ b % Wrap \in Int
        BY FrameworkAssumption
      <3>2. ((b % Wrap) + (-1)) % Wrap = (b + (-1)) % Wrap
        BY <3>1, ModAdd, Zenon
      <3>3. (b % Wrap) + (-1) = (b % Wrap) - 1 /\ b + (-1) = b - 1
        BY <3>1
      <3> QED BY <3>2, <3>3
    <2>4. Counted'
      <3> SUFFICES ASSUME starts <= 1, ~closed
                   PROVE  /\ (\A w \in Cpu : phase[w] # "count") => pending' = (calls' + busy') % Wrap
                          /\ \A w \in Cpu : phase[w] = "count" => pending' = (calls' + busy' - Len(cs[w])) % Wrap
        BY <1>2 DEF Counted
      <3>1. ASSUME \A w \in Cpu : phase[w] # "count"
            PROVE  pending' = (calls' + busy') % Wrap
        <4>1. pending = s % Wrap
          BY <1>1, <2>1, <3>1 DEF Counted
        <4> QED BY <4>1, <2>2, <2>3
      <3>2. ASSUME NEW w \in Cpu, phase[w] = "count"
            PROVE  pending' = (calls' + busy' - Len(cs[w])) % Wrap
        <4>1. PICK n \in Nat : n = Len(cs[w])
          BY <1>1 DEF FrameworkTypes
        <4>2. PICK b \in Int : b = s - n
          OBVIOUS
        <4>3. pending = b % Wrap
          <5>1. calls + busy - Len(cs[w]) = b
            BY <1>1, <2>1, <4>1, <4>2 DEF FrameworkTypes
          <5> QED BY <1>1, <3>2, <5>1 DEF Counted
        <4>4. calls' + busy' - Len(cs[w]) = b - 1
          <5>1. PICK t \in Int : t = s - 1
            OBVIOUS
          <5>2. t - n = b - 1
            BY <5>1, <4>2
          <5>3. calls' + busy' = t
            BY <2>2, <5>1, Zenon
          <5>4. (calls' + busy') - n = t - n
            BY <5>3, Zenon
          <5>5. calls' + busy' - n = b - 1
            <6>1. PICK x \in Int, y \in Int : x = calls' /\ y = busy'
              BY <1>3
            <6>2. (x + y) - n = b - 1
              BY <5>2, <5>4, <6>1, Zenon
            <6>3. x + y - n = b - 1
              BY <6>2
            <6> QED BY <6>1, <6>3, Zenon
          <5> QED BY <5>5, <4>1, Zenon
        <4>5. ((b % Wrap) - 1) % Wrap = (b - 1) % Wrap
          BY <2>3, <4>2, Zenon
        <4> QED BY <4>3, <4>4, <4>5, <2>2, Zenon
      <3> QED BY <3>1, <3>2
    <2> QED BY <1>4, <1>5, <2>4 DEF FrameworkInv
  <1> QED BY <1>6, <1>7

\* A step that moves a tick or a task and counts nothing.
LEMMA MoveCount ==
    ASSUME FrameworkInv, FrameworkTypes', UNCHANGED <<starts, closed, calls, busy, pending, cs>>,
           \A w \in Cpu : phase'[w] = "count" <=> phase[w] = "count"
    PROVE  Counted'
  BY SameCount DEF FrameworkInv, FrameworkTypes

\* The timer thread pops the entry of job j and submits it, and a task is armed again.
LEMMA ExpireStep ==
    ASSUME FrameworkInv, NEW j \in Jobs, get_expired_tasks(j)
    PROVE  FrameworkInv'
  <1>1. FrameworkTypes /\ TicksOnCpu /\ Lone /\ Counted
    BY DEF FrameworkInv
  <1>2. PICK q \in {"cpu", "io"} : q = PoolOf(j)
    BY JobFacts
  <1>3. PICK h \in {"none", "waiting"} : h = IF j \in Tasks /\ ~Skipped(j) THEN "waiting" ELSE "none"
    OBVIOUS
  <1>4. /\ heap' = [heap EXCEPT ![j] = h]
        /\ queue' = IF Skipped(j) THEN queue ELSE [queue EXCEPT ![q] = Append(queue[q], j)]
        /\ heap[j] # "none"
        /\ UNCHANGED <<starts, running, work, phase, cs, calls, busy, pending, closed>>
    BY <1>2, <1>3 DEF get_expired_tasks, flow, stage4
  <1>5. heap' \in [Jobs -> HeapStates] /\ heap'[j] = h /\ \A c \in Jobs \ {j} : heap'[c] = heap[c]
    BY <1>1, <1>4 DEF FrameworkTypes, HeapStates
  <1>6. CASE j \in Tasks
    <2>1. j \notin Chains
      BY <1>6, JobFacts
    <2>2. \A c \in Chains : HeapTick(c)' <=> HeapTick(c)
      BY <1>5, <2>1, JobFacts DEF HeapTick
    <2>3. CASE Skipped(j)
      BY <1>4, <1>5, <1>1, <2>2, <2>3, QuietFramework DEF FrameworkTypes
    <2>4. CASE ~Skipped(j)
      <3>1. PICK s \in Seq(Jobs) : s = queue[q]
        BY <1>1 DEF FrameworkTypes
      <3>2. PICK a : a = Append(s, j)
        OBVIOUS
      <3>3. /\ a \in Seq(Jobs) /\ Len(s) \in Nat /\ Len(a) = Len(s) + 1
            /\ a[Len(s) + 1] = j /\ \A i \in 1..Len(s) : a[i] = s[i]
        BY <3>2, AppendJob, Zenon
      <3>4. queue' = [queue EXCEPT ![q] = a]
        BY <1>4, <2>4, <3>1, <3>2
      <3>5. queue' \in [{"cpu", "io"} -> Seq(Jobs)] /\ queue'[q] = a /\ \A p \in {"cpu", "io"} \ {q} : queue'[p] = queue[p]
        BY <1>1, <3>3, <3>4 DEF FrameworkTypes
      <3>6. FrameworkTypes'
        BY <1>1, <1>4, <1>5, <3>5 DEF FrameworkTypes, HeapStates
      <3>7. TicksOnCpu'
        <4>1. \A i \in 1..Len(queue'["io"]) : queue'["io"][i] \notin Chains
          <5>1. CASE q = "io"
            <6>1. \A i \in 1..Len(s) : s[i] \notin Chains
              BY <1>1, <3>1, <5>1 DEF TicksOnCpu
            <6>2. \A i \in 1..Len(a) : i \in 1..Len(s) \/ i = Len(s) + 1
              BY <3>3
            <6>3. \A i \in 1..Len(a) : a[i] \notin Chains
              BY <2>1, <3>3, <6>1, <6>2
            <6> QED BY <3>5, <5>1, <6>3
          <5>2. CASE q = "cpu"
            BY <1>1, <3>5, <5>2 DEF TicksOnCpu
          <5> QED BY <5>1, <5>2
        <4> QED BY <1>1, <1>4, <4>1 DEF TicksOnCpu
      <3>8. /\ \A i \in QueueSpots : i \in QueueSpots' /\ (QueueTick(i)' <=> QueueTick(i))
            /\ \A i \in QueueSpots' : QueueTick(i)' => i \in QueueSpots
        <4>1. CASE q = "io"
          BY <3>5, <4>1 DEF QueueSpots, QueueTick
        <4>2. CASE q = "cpu"
          BY <2>1, <3>1, <3>3, <3>5, <4>2 DEF QueueSpots, QueueTick
        <4> QED BY <4>1, <4>2
      <3>9. \A w \in Cpu : WorkTick(w)' <=> WorkTick(w)
        BY <1>4 DEF WorkTick
      <3>10. SomeTick' <=> SomeTick
        BY <2>2, <3>8, <3>9 DEF SomeTick
      <3>11. AtMostOne => AtMostOne'
        BY <2>2, <3>8, <3>9 DEF AtMostOne
      <3>12. Lone'
        BY <1>1, <1>4, <3>10, <3>11 DEF Lone
      <3>13. Counted'
        BY <1>4, <3>6, MoveCount
      <3> QED BY <3>6, <3>7, <3>12, <3>13 DEF FrameworkInv
    <2> QED BY <2>3, <2>4
  <1>7. CASE j \in Chains
    <2>1. j \notin Tasks /\ q = "cpu" /\ ~Skipped(j) /\ h = "none"
      BY <1>2, <1>3, <1>7, JobFacts DEF Skipped
    <2>2. PICK s \in Seq(Jobs) : s = queue["cpu"]
      BY <1>1 DEF FrameworkTypes
    <2>3. PICK a : a = Append(s, j)
      OBVIOUS
    <2>4. /\ a \in Seq(Jobs) /\ Len(s) \in Nat /\ Len(a) = Len(s) + 1
          /\ a[Len(s) + 1] = j /\ \A i \in 1..Len(s) : a[i] = s[i]
      BY <2>3, AppendJob, Zenon
    <2>5. queue' = [queue EXCEPT !["cpu"] = a]
      BY <1>4, <2>1, <2>2, <2>3
    <2>6. queue' \in [{"cpu", "io"} -> Seq(Jobs)] /\ queue'["cpu"] = a /\ queue'["io"] = queue["io"]
      BY <1>1, <2>4, <2>5 DEF FrameworkTypes
    <2>7. FrameworkTypes'
      BY <1>1, <1>4, <1>5, <2>6 DEF FrameworkTypes, HeapStates
    <2>8. TicksOnCpu'
      BY <1>1, <1>4, <2>6 DEF TicksOnCpu
    <2>9. Counted'
      BY <1>4, <2>7, MoveCount
    <2>10. HeapTick(j)
      BY <1>4 DEF HeapTick
    <2>11. SomeTick
      BY <1>7, <2>10 DEF SomeTick
    <2>12. AtMostOne => AtMostOne' /\ SomeTick'
      <3> SUFFICES ASSUME AtMostOne
                   PROVE  AtMostOne' /\ SomeTick'
        OBVIOUS
      <3>1. \A c \in Chains : ~HeapTick(c)'
        BY <1>5, <1>7, <2>1, <2>10, JobFacts DEF HeapTick, AtMostOne
      <3>2. \A w \in Cpu : ~WorkTick(w)'
        BY <1>4, <1>7, <2>10 DEF WorkTick, AtMostOne
      <3>3. \A i \in QueueSpots' : QueueTick(i)' <=> i = Len(s) + 1
        BY <1>7, <2>2, <2>4, <2>6, <2>10 DEF QueueSpots, QueueTick, AtMostOne
      <3>4. Len(s) + 1 \in QueueSpots'
        BY <2>4, <2>6 DEF QueueSpots
      <3> QED BY <3>1, <3>2, <3>3, <3>4 DEF AtMostOne, SomeTick
    <2>13. Lone'
      BY <1>1, <1>4, <2>11, <2>12 DEF Lone
    <2> QED BY <2>7, <2>8, <2>9, <2>13 DEF FrameworkInv
  <1> QED BY <1>6, <1>7 DEF Jobs

\* A worker takes the front of its pool's queue: a tick stays the only one.
LEMMA TakeStep ==
    ASSUME FrameworkInv, NEW w \in Workers, take(w)
    PROVE  FrameworkInv'
  <1>1. FrameworkTypes /\ TicksOnCpu /\ Lone /\ Counted
    BY DEF FrameworkInv
  <1>2. PICK q \in {"cpu", "io"} : q = Pool(w)
    BY DEF Pool
  <1>3. PICK s \in Seq(Jobs) : s = queue[q]
    BY <1>1 DEF FrameworkTypes
  <1>4. s # <<>>
    BY <1>2, <1>3 DEF take
  <1>5. PICK j, a : j = Head(s) /\ a = Tail(s)
    OBVIOUS
  <1>6. /\ a \in Seq(Jobs) /\ Len(s) \in Nat \ {0} /\ Len(a) = Len(s) - 1
        /\ j = s[1] /\ j \in Jobs /\ \A i \in 1..Len(a) : a[i] = s[i + 1]
    BY <1>4, <1>5, TailJobs, Zenon
  <1>7. /\ work[w] = None /\ work' = [work EXCEPT ![w] = j]
        /\ queue' = [queue EXCEPT ![q] = a]
        /\ phase' = IF w \in Cpu /\ work'[w] \in Chains THEN [phase EXCEPT ![w] = "beat"] ELSE phase
        /\ UNCHANGED <<starts, running, heap, cs, calls, busy, pending, closed>>
    BY <1>2, <1>3, <1>5 DEF take, timer, flow, stage4
  <1>8. queue' \in [{"cpu", "io"} -> Seq(Jobs)] /\ queue'[q] = a /\ \A p \in {"cpu", "io"} \ {q} : queue'[p] = queue[p]
    BY <1>1, <1>6, <1>7 DEF FrameworkTypes
  <1>9. work' \in [Workers -> Jobs \cup {None}] /\ work'[w] = j /\ \A x \in Workers \ {w} : work'[x] = work[x]
    BY <1>1, <1>6, <1>7 DEF FrameworkTypes
  <1>10. work[w] \notin Chains
    BY <1>7, JobFacts
  <1>11. CASE q = "io"
    <2>1. w \in Io /\ w \notin Cpu
      BY <1>2, <1>11, JobFacts
    <2>2. j \notin Chains
      BY <1>1, <1>3, <1>6, <1>11 DEF TicksOnCpu
    <2>3. phase' = phase
      BY <1>7, <2>1
    <2>4. FrameworkTypes'
      BY <1>1, <1>7, <1>8, <1>9, <2>3 DEF FrameworkTypes
    <2>5. \A x \in Workers : work'[x] \in Chains <=> work[x] \in Chains
      BY <1>9, <1>10, <2>2
    <2>6. TicksOnCpu'
      <3>1. \A i \in 1..Len(a) : a[i] \notin Chains
        <4> TAKE i \in 1..Len(a)
        <4>1. i + 1 \in 1..Len(s) /\ a[i] = s[i + 1]
          BY <1>6
        <4> QED BY <1>1, <1>3, <1>11, <4>1 DEF TicksOnCpu
      <3> QED BY <1>1, <1>8, <1>11, <2>3, <2>5, <3>1, JobFacts DEF TicksOnCpu
    <2>7. /\ QueueSpots' = QueueSpots /\ \A i \in QueueSpots : QueueTick(i)' <=> QueueTick(i)
          /\ \A c \in Chains : HeapTick(c)' <=> HeapTick(c)
          /\ \A x \in Cpu : WorkTick(x)' <=> WorkTick(x)
      BY <1>7, <1>8, <1>11, <2>5, JobFacts DEF QueueSpots, QueueTick, HeapTick, WorkTick
    <2>8. (SomeTick' <=> SomeTick) /\ (AtMostOne => AtMostOne')
      BY <2>7 DEF SomeTick, AtMostOne
    <2>9. Lone'
      BY <1>1, <1>7, <2>8 DEF Lone
    <2>10. Counted'
      BY <1>7, <2>3, <2>4, MoveCount
    <2> QED BY <2>4, <2>6, <2>9, <2>10 DEF FrameworkInv
  <1>12. CASE q = "cpu"
    <2>1. w \in Cpu /\ w \notin Io
      BY <1>2, <1>12, JobFacts, FrameworkAssumption
    <2>2. phase[w] = "idle"
      BY <1>1, <1>10, <2>1 DEF TicksOnCpu
    <2>3. phase' = IF j \in Chains THEN [phase EXCEPT ![w] = "beat"] ELSE phase
      BY <1>7, <1>9, <2>1
    <2>4. /\ phase' \in [Cpu -> Steps] /\ (phase'[w] = "idle" <=> j \notin Chains) /\ phase'[w] \in {"idle", "beat"}
          /\ \A x \in Cpu \ {w} : phase'[x] = phase[x]
      BY <1>1, <2>1, <2>2, <2>3 DEF FrameworkTypes, Steps
    <2>5. FrameworkTypes'
      BY <1>1, <1>7, <1>8, <1>9, <2>4 DEF FrameworkTypes
    <2>6. TicksOnCpu'
      BY <1>1, <1>8, <1>9, <1>12, <2>1, <2>4, JobFacts DEF TicksOnCpu
    <2>7. Counted'
      BY <1>7, <2>2, <2>4, <2>5, MoveCount
    <2>8. /\ \A c \in Chains : HeapTick(c)' <=> HeapTick(c)
          /\ \A x \in Cpu \ {w} : WorkTick(x)' <=> WorkTick(x)
          /\ ~WorkTick(w) /\ (WorkTick(w)' <=> QueueTick(1)) /\ 1 \in QueueSpots
          /\ \A i \in QueueSpots' : i + 1 \in QueueSpots /\ i + 1 # 1 /\ (QueueTick(i)' <=> QueueTick(i + 1))
          /\ \A i \in QueueSpots : i = 1 \/ (i - 1 \in QueueSpots' /\ (QueueTick(i - 1)' <=> QueueTick(i)))
          /\ \A i, k \in QueueSpots' : i + 1 = k + 1 => i = k
      <3>1. \A c \in Chains : HeapTick(c)' <=> HeapTick(c)
        BY <1>7 DEF HeapTick
      <3>2. \A x \in Cpu \ {w} : WorkTick(x)' <=> WorkTick(x)
        BY <1>9, JobFacts DEF WorkTick
      <3>3. ~WorkTick(w) /\ (WorkTick(w)' <=> QueueTick(1)) /\ 1 \in QueueSpots
        BY <1>3, <1>6, <1>9, <1>10, <1>12 DEF WorkTick, QueueTick, QueueSpots
      <3>4. QueueSpots = 1..Len(s) /\ QueueSpots' = 1..Len(a)
        BY <1>3, <1>8, <1>12 DEF QueueSpots
      <3>5. ASSUME NEW i \in QueueSpots'
            PROVE  i + 1 \in QueueSpots /\ i + 1 # 1 /\ (QueueTick(i)' <=> QueueTick(i + 1))
        <4>1. i \in 1..Len(a) /\ i + 1 \in 1..Len(s) /\ i + 1 # 1
          BY <1>6, <3>4
        <4>2. a[i] = s[i + 1]
          BY <1>6, <4>1
        <4> QED BY <1>3, <1>8, <1>12, <3>4, <4>1, <4>2 DEF QueueTick
      <3>6. ASSUME NEW i \in QueueSpots, i # 1
            PROVE  i - 1 \in QueueSpots' /\ (QueueTick(i - 1)' <=> QueueTick(i))
        <4>1. i - 1 \in QueueSpots' /\ i - 1 + 1 = i
          BY <1>6, <3>4, <3>6
        <4> QED BY <3>5, <4>1
      <3>7. \A i, k \in QueueSpots' : i + 1 = k + 1 => i = k
        BY <3>4
      <3> QED BY <3>1, <3>2, <3>3, <3>5, <3>6, <3>7
    <2>9. SomeTick => SomeTick'
      BY <2>1, <2>8 DEF SomeTick
    <2>10. ~SomeTick => ~SomeTick'
      BY <2>1, <2>8 DEF SomeTick
    <2>11. AtMostOne => AtMostOne'
      <3> SUFFICES ASSUME AtMostOne
                   PROVE  AtMostOne'
        OBVIOUS
      <3>1. ASSUME NEW c \in Chains, HeapTick(c)'
            PROVE  /\ \A e \in Chains : HeapTick(e)' => c = e
                   /\ \A i \in QueueSpots' : ~QueueTick(i)'
                   /\ \A x \in Cpu : ~WorkTick(x)'
        BY <2>8, <3>1 DEF AtMostOne
      <3>2. ASSUME NEW i \in QueueSpots', QueueTick(i)'
            PROVE  /\ \A k \in QueueSpots' : QueueTick(k)' => i = k
                   /\ \A x \in Cpu : ~WorkTick(x)'
        BY <2>8, <3>2 DEF AtMostOne
      <3>3. ASSUME NEW x \in Cpu, NEW y \in Cpu, WorkTick(x)', WorkTick(y)'
            PROVE  x = y
        BY <2>8, <3>3 DEF AtMostOne
      <3> QED BY <3>1, <3>2, <3>3 DEF AtMostOne
    <2>12. Lone'
      BY <1>1, <1>7, <2>9, <2>10, <2>11 DEF Lone
    <2> QED BY <2>5, <2>6, <2>7, <2>12 DEF FrameworkInv
  <1> QED BY <1>11, <1>12

\* A worker has run a task of the runtime.
LEMMA DoneStep ==
    ASSUME FrameworkInv, NEW w \in Workers, task_done(w)
    PROVE  FrameworkInv'
  <1>1. FrameworkTypes /\ TicksOnCpu /\ Lone /\ Counted
    BY DEF FrameworkInv
  <1>2. /\ work[w] \in Tasks /\ work' = [work EXCEPT ![w] = None]
        /\ UNCHANGED <<starts, running, heap, queue, phase, cs, calls, busy, pending, closed>>
    BY DEF task_done, timer, flow, stage4
  <1>3. work' \in [Workers -> Jobs \cup {None}] /\ \A x \in Workers : work'[x] \in Chains <=> work[x] \in Chains
    BY <1>1, <1>2, JobFacts DEF FrameworkTypes
  <1>4. FrameworkTypes'
    BY <1>1, <1>2, <1>3 DEF FrameworkTypes
  <1>5. TicksOnCpu'
    BY <1>1, <1>2, <1>3, JobFacts DEF TicksOnCpu
  <1>6. /\ QueueSpots' = QueueSpots /\ \A i \in QueueSpots : QueueTick(i)' <=> QueueTick(i)
        /\ \A c \in Chains : HeapTick(c)' <=> HeapTick(c)
        /\ \A x \in Cpu : WorkTick(x)' <=> WorkTick(x)
    BY <1>2, <1>3, JobFacts DEF QueueSpots, QueueTick, HeapTick, WorkTick
  <1>7. (SomeTick' <=> SomeTick) /\ (AtMostOne => AtMostOne')
    BY <1>6 DEF SomeTick, AtMostOne
  <1>8. Lone'
    BY <1>1, <1>2, <1>7 DEF Lone
  <1>9. Counted'
    BY <1>2, <1>4, MoveCount
  <1> QED BY <1>4, <1>5, <1>8, <1>9 DEF FrameworkInv

\* A cycle ends: stop() has come and the chain ends, or the tick arms its successor.
LEMMA EndStep ==
    ASSUME FrameworkInv, NEW w \in Cpu, tick_ends(w) \/ rearm(w)
    PROVE  FrameworkInv'
  <1>1. FrameworkTypes /\ TicksOnCpu /\ Lone /\ Counted
    BY DEF FrameworkInv
  <1>2. /\ work[w] \in Chains /\ phase[w] \in {"beat", "rearm"}
        /\ work' = [work EXCEPT ![w] = None] /\ phase' = [phase EXCEPT ![w] = "idle"]
        /\ UNCHANGED <<starts, running, queue, cs, calls, busy, pending, closed>>
    BY DEF tick_ends, rearm, At, Goto, timer, flow, stage4
  <1>3. /\ work' \in [Workers -> Jobs \cup {None}] /\ work'[w] \notin Chains
        /\ \A x \in Workers \ {w} : work'[x] = work[x]
    BY <1>1, <1>2, JobFacts DEF FrameworkTypes
  <1>4. phase' \in [Cpu -> Steps] /\ phase'[w] = "idle" /\ \A x \in Cpu \ {w} : phase'[x] = phase[x]
    BY <1>1, <1>2 DEF FrameworkTypes, Steps
  <1>5. /\ heap' \in [Jobs -> HeapStates]
        /\ \/ heap' = heap /\ ~running
           \/ heap'[work[w]] = "waiting" /\ \A c \in Jobs \ {work[w]} : heap'[c] = heap[c]
    <2>1. CASE tick_ends(w)
      BY <1>1, <2>1 DEF tick_ends, timer, FrameworkTypes, HeapStates
    <2>2. CASE rearm(w)
      <3>1. PICK c \in Chains : c = work[w]
        BY <1>2
      <3>2. heap' = [j \in Jobs |-> IF j \in {c} THEN "waiting" ELSE heap[j]]
        BY <2>2, <3>1 DEF rearm, Armed
      <3> QED BY <1>1, <3>1, <3>2, JobFacts DEF FrameworkTypes, HeapStates
    <2> QED BY <2>1, <2>2
  <1>6. FrameworkTypes'
    BY <1>1, <1>2, <1>3, <1>4, <1>5 DEF FrameworkTypes, HeapStates
  <1>7. TicksOnCpu'
    BY <1>1, <1>2, <1>3, <1>4, JobFacts, FrameworkAssumption DEF TicksOnCpu
  <1>8. Counted'
    BY <1>2, <1>4, <1>6, MoveCount
  <1>9. SomeTick
    BY <1>2 DEF SomeTick, WorkTick
  <1>10. AtMostOne => AtMostOne' /\ (running => SomeTick')
    <2> SUFFICES ASSUME AtMostOne
                 PROVE  AtMostOne' /\ (running => SomeTick')
      OBVIOUS
    <2>1. WorkTick(w)
      BY <1>2 DEF WorkTick
    <2>2. \A x \in Cpu : ~WorkTick(x)'
      BY <1>3, <2>1, JobFacts DEF AtMostOne, WorkTick
    <2>3. QueueSpots' = QueueSpots /\ \A i \in QueueSpots : ~QueueTick(i)'
      BY <1>2, <2>1 DEF AtMostOne, QueueTick, QueueSpots
    <2>4. \A c \in Chains : ~HeapTick(c)
      BY <2>1 DEF AtMostOne
    <2>5. \A c \in Chains : HeapTick(c)' => c = work[w]
      BY <1>5, <2>4, JobFacts DEF HeapTick
    <2>6. AtMostOne'
      BY <2>2, <2>3, <2>5 DEF AtMostOne
    <2>7. running => SomeTick'
      BY <1>2, <1>5 DEF SomeTick, HeapTick
    <2> QED BY <2>6, <2>7
  <1>11. Lone'
    BY <1>1, <1>2, <1>9, <1>10 DEF Lone
  <1> QED BY <1>6, <1>7, <1>8, <1>11 DEF FrameworkInv
\* What a batch gives rise to is a sequence.
LEMMA ProducedLength == \A batch : Len(Produced(batch)) \in Nat
  <1> TAKE batch
  <1>1. PICK n : n = Len(Produced(batch))
    OBVIOUS
  <1> QED BY DEF Produced

\* Every step of the framework keeps the invariant.
LEMMA NextFramework ==
    ASSUME FrameworkInv, [FrameworkNext]_framework
    PROVE  FrameworkInv'
  <1>1. FrameworkTypes /\ HeapStates = {"none", "waiting", "due", "late"}
    BY DEF FrameworkInv, HeapStates
  <1>2. CASE framework_start
    BY <1>2, StartFramework
  <1>3. CASE framework_stop \/ reset_transport \/ mark_changed \/ send \/ UNCHANGED framework
    <2>1. /\ UNCHANGED <<heap, starts, queue, work, phase, cs, calls, busy, pending, closed>>
          /\ running' \in BOOLEAN /\ (running' => running)
      <3>2. CASE framework_stop
        BY <1>1, <3>2 DEF framework_stop, timer, reactor, flow, stage4, FrameworkTypes
      <3>3. CASE reset_transport \/ mark_changed
        BY <1>1, <3>3 DEF reset_transport, mark_changed, timer, reactor, flow, stage4, FrameworkTypes
      <3>4. CASE send
        BY <1>1, <3>4 DEF send, timer, reactor, stage4, FrameworkTypes
      <3>5. CASE UNCHANGED framework
        BY <1>1, <3>5 DEF framework, flow, stage4, FrameworkTypes
      <3> QED BY <1>3, <3>2, <3>3, <3>4, <3>5
    <2>2. \A c \in Chains : HeapTick(c)' <=> HeapTick(c)
      BY <2>1 DEF HeapTick
    <2> QED BY <1>1, <2>1, <2>2, QuietFramework DEF FrameworkTypes
  <1>4. CASE stage4_stop
    <2>1. UNCHANGED <<heap, starts, running, queue, work, phase, cs, busy, pending>> /\ closed' /\ closed' \in BOOLEAN /\ calls' = 0
      BY <1>4 DEF stage4_stop, timer, reactor, flow
    <2>2. \A c \in Chains : HeapTick(c)' <=> HeapTick(c)
      BY <2>1 DEF HeapTick
    <2> QED BY <1>1, <2>1, <2>2, QuietFramework DEF FrameworkTypes
  <1>5. CASE schedule_periodic \/ cancel_periodic
    <2>1. /\ UNCHANGED <<starts, running, queue, work, phase, cs, calls, busy, pending, closed>>
          /\ \E h \in {"waiting", "none"} : heap' = [j \in Jobs |-> IF j \in Tasks THEN h ELSE heap[j]]
      BY <1>5 DEF schedule_periodic, cancel_periodic, Armed, reactor, flow, stage4
    <2>2. /\ heap' \in [Jobs -> HeapStates]
          /\ \A c \in Chains : heap'[c] = heap[c]
      BY <1>1, <2>1, JobFacts DEF FrameworkTypes
    <2>3. \A c \in Chains : HeapTick(c)' <=> HeapTick(c)
      BY <2>2 DEF HeapTick
    <2> QED BY <1>1, <2>1, <2>2, <2>3, QuietFramework DEF FrameworkTypes
  <1>6. CASE \E j \in Jobs : TimePasses(j)
    <2>1. PICK j \in Jobs : TimePasses(j)
      BY <1>6
    <2>2. /\ UNCHANGED <<starts, running, queue, work, phase, cs, calls, busy, pending, closed>>
          /\ heap[j] \in {"waiting", "due"}
          /\ \E h \in {"due", "late"} : heap' = [heap EXCEPT ![j] = h]
      BY <2>1 DEF TimePasses, reactor, flow, stage4
    <2>3. /\ heap' \in [Jobs -> HeapStates]
          /\ \A c \in Jobs : heap'[c] # "none" <=> heap[c] # "none"
      BY <1>1, <2>2 DEF FrameworkTypes
    <2>4. \A c \in Chains : HeapTick(c)' <=> HeapTick(c)
      BY <2>3, JobFacts DEF HeapTick
    <2> QED BY <1>1, <2>2, <2>3, <2>4, QuietFramework DEF FrameworkTypes
  <1>7. CASE \E j \in Jobs : get_expired_tasks(j)
    BY <1>7, ExpireStep
  <1>8. CASE \E w \in Workers : Worker(w)
    BY <1>8, TakeStep, DoneStep DEF Worker
  <1>9. CASE \E w \in Cpu : Cycle(w)
    <2>1. PICK w \in Cpu : Cycle(w)
      BY <1>9
    <2>2. CASE tick_ends(w) \/ rearm(w)
      BY <2>2, EndStep
    <2>3. CASE execute(w)
      BY <2>3, ExecuteStep
    <2>4. CASE execute_count(w)
      BY <2>4, CountStep
    <2>5. CASE beat(w) \/ evolve_once(w) \/ recycle(w)
      <3>1. /\ phase[w] \in {"beat", "evolve", "recycle"}
            /\ \E p \in {"evolve", "execute", "rearm"} : phase' = [phase EXCEPT ![w] = p]
            /\ UNCHANGED <<starts, running, closed, heap, queue, work, calls, busy, pending>>
        BY <2>5 DEF beat, evolve_once, recycle, At, Goto, timer, flow, stage4
      <3>2. DOMAIN cs' = Cpu /\ Len(cs'[w]) \in Nat /\ \A x \in Cpu \ {w} : cs'[x] = cs[x]
        <4>1. CASE beat(w)
          <5>1. PICK batch : batch = Produced(input)
            OBVIOUS
          <5>2. Len(batch) \in Nat
            BY <5>1, ProducedLength
          <5>3. cs' = [cs EXCEPT ![w] = batch]
            BY <4>1, <5>1 DEF beat
          <5> QED BY <1>1, <5>2, <5>3 DEF FrameworkTypes
        <4>2. CASE evolve_once(w) \/ recycle(w)
          <5>1. cs' = cs
            BY <4>2 DEF evolve_once, recycle, flow
          <5> QED BY <1>1, <5>1 DEF FrameworkTypes
        <4> QED BY <2>5, <4>1, <4>2
      <3> QED BY <3>1, <3>2, CycleStep
    <2> QED BY <2>1, <2>2, <2>3, <2>4, <2>5 DEF Cycle
  <1>10. CASE take_call \/ call_done
    BY <1>10, CallsStep
  <1> QED BY <1>2, <1>3, <1>4, <1>5, <1>6, <1>7, <1>8, <1>9, <1>10 DEF FrameworkNext

\* The invariant holds of every behaviour.
LEMMA FrameworkHolds == FrameworkSpec => []FrameworkInv
  <1>1. FrameworkInv /\ [FrameworkNext]_framework => FrameworkInv'
    BY NextFramework
  <1> QED BY InitFramework, <1>1, PTL DEF FrameworkSpec

\* The cardinalities that Copies adds.
LEMMA SmallSets == Cardinality({}) = 0 /\ \A x : Cardinality({x}) = 1
  <1>1. Cardinality({}) = 0
    BY FS_EmptySet
  <1>2. \A x : Cardinality({x}) = 1
    BY FS_Singleton
  <1> QED BY <1>1, <1>2

\* A tick that is neither armed, nor queued, nor run has no copy.
LEMMA NoCopies ==
    ASSUME FrameworkInv, NEW c \in Chains, ~HeapTick(c),
           \A i \in QueueSpots : queue["cpu"][i] # c, \A w \in Cpu : work[w] # c
    PROVE  Copies(c) = 0
  <1>1. TicksOnCpu /\ PoolOf(c) = "cpu"
    BY JobFacts DEF FrameworkInv
  <1>2. {i \in 1..Len(queue[PoolOf(c)]) : queue[PoolOf(c)][i] = c} = {}
    BY <1>1 DEF QueueSpots
  <1>3. {w \in Workers : work[w] = c} = {}
    BY <1>1, JobFacts DEF TicksOnCpu
  <1>4. heap[c] = "none"
    BY DEF HeapTick
  <1>5. Copies(c) = (IF heap[c] = "none" THEN 0 ELSE 1) + Cardinality({}) + Cardinality({})
    BY <1>2, <1>3, Zenon DEF Copies
  <1>6. Cardinality({}) = 0
    BY SmallSets
  <1> QED BY <1>4, <1>5, <1>6

\* The invariant implies that there is exactly one tick.
LEMMA TickIsOne ==
    ASSUME FrameworkInv, starts <= 1
    PROVE  OneTick
  <1>1. TicksOnCpu /\ AtMostOne /\ (running => SomeTick)
    BY DEF FrameworkInv, Lone
  <1>2. ASSUME running
        PROVE  \E c \in Chains : Copies(c) = 1 /\ \A d \in Chains \ {c} : Copies(d) = 0
    <2>1. CASE \E c \in Chains : HeapTick(c)
      <3>1. PICK c \in Chains : HeapTick(c)
        BY <2>1
      <3>2. /\ \A i \in QueueSpots : queue["cpu"][i] \notin Chains
            /\ \A w \in Cpu : work[w] \notin Chains
            /\ \A d \in Chains \ {c} : ~HeapTick(d)
        BY <1>1, <3>1 DEF AtMostOne, QueueTick, WorkTick
      <3>3. \A d \in Chains \ {c} : Copies(d) = 0
        BY <3>2, NoCopies
      <3>4. {i \in 1..Len(queue[PoolOf(c)]) : queue[PoolOf(c)][i] = c} = {}
        BY <3>2, JobFacts DEF QueueSpots
      <3>5. {w \in Workers : work[w] = c} = {}
        BY <1>1, <3>2, JobFacts DEF TicksOnCpu
      <3>6. Copies(c) = 1
        <4>1. Copies(c) = (IF heap[c] = "none" THEN 0 ELSE 1) + Cardinality({}) + Cardinality({})
          BY <3>4, <3>5, Zenon DEF Copies
        <4>2. Cardinality({}) = 0 /\ Cardinality({}) = 0
          BY SmallSets
        <4> QED BY <4>1, <4>2, <3>1 DEF HeapTick
      <3> QED BY <3>3, <3>6
    <2>2. CASE \E i \in QueueSpots : QueueTick(i)
      <3>1. PICK i \in QueueSpots : QueueTick(i)
        BY <2>2
      <3>2. PICK c \in Chains : c = queue["cpu"][i]
        BY <3>1 DEF QueueTick
      <3>3. /\ \A k \in QueueSpots : queue["cpu"][k] \in Chains => k = i
            /\ \A w \in Cpu : work[w] \notin Chains
            /\ \A d \in Chains : ~HeapTick(d)
        BY <1>1, <3>1 DEF AtMostOne, QueueTick, WorkTick
      <3>4. \A d \in Chains \ {c} : Copies(d) = 0
        BY <3>2, <3>3, NoCopies
      <3>5. {k \in 1..Len(queue[PoolOf(c)]) : queue[PoolOf(c)][k] = c} = {i}
        BY <3>1, <3>2, <3>3, JobFacts DEF QueueSpots
      <3>6. {w \in Workers : work[w] = c} = {}
        BY <1>1, <3>3, JobFacts DEF TicksOnCpu
      <3>7. heap[c] = "none"
        BY <3>3 DEF HeapTick
      <3>8. Copies(c) = 1
        <4>1. Copies(c) = (IF heap[c] = "none" THEN 0 ELSE 1) + Cardinality({i}) + Cardinality({})
          BY <3>5, <3>6, Zenon DEF Copies
        <4>2. Cardinality({i}) = 1 /\ Cardinality({}) = 0
          BY SmallSets
        <4> QED BY <4>1, <4>2, <3>7
      <3> QED BY <3>4, <3>8
    <2>3. CASE \E w \in Cpu : WorkTick(w)
      <3>1. PICK w \in Cpu : WorkTick(w)
        BY <2>3
      <3>2. PICK c \in Chains : c = work[w]
        BY <3>1 DEF WorkTick
      <3>3. /\ \A i \in QueueSpots : queue["cpu"][i] \notin Chains
            /\ \A x \in Cpu : work[x] \in Chains => x = w
            /\ \A d \in Chains : ~HeapTick(d)
        BY <1>1, <3>1 DEF AtMostOne, QueueTick, WorkTick
      <3>4. \A d \in Chains \ {c} : Copies(d) = 0
        BY <3>2, <3>3, NoCopies
      <3>5. {i \in 1..Len(queue[PoolOf(c)]) : queue[PoolOf(c)][i] = c} = {}
        BY <3>3, JobFacts DEF QueueSpots
      <3>6. {x \in Workers : work[x] = c} = {w}
        BY <1>1, <3>2, <3>3, JobFacts DEF TicksOnCpu
      <3>7. heap[c] = "none"
        BY <3>3 DEF HeapTick
      <3>8. Copies(c) = 1
        <4>1. Copies(c) = (IF heap[c] = "none" THEN 0 ELSE 1) + Cardinality({}) + Cardinality({w})
          BY <3>5, <3>6, Zenon DEF Copies
        <4>2. Cardinality({}) = 0 /\ Cardinality({w}) = 1
          BY SmallSets
        <4> QED BY <4>1, <4>2, <3>7
      <3> QED BY <3>4, <3>8
    <2> QED BY <1>1, <1>2, <2>1, <2>2, <2>3 DEF SomeTick
  <1>3. Cardinality({w \in Cpu : work[w] \in Chains}) <= 1
    <2>1. CASE \A w \in Cpu : work[w] \notin Chains
      <3>1. {w \in Cpu : work[w] \in Chains} = {}
        BY <2>1
      <3> QED BY <3>1, SmallSets
    <2>2. CASE \E w \in Cpu : work[w] \in Chains
      <3>1. PICK w \in Cpu : work[w] \in Chains
        BY <2>2
      <3>2. {x \in Cpu : work[x] \in Chains} = {w}
        BY <1>1, <3>1 DEF AtMostOne, WorkTick
      <3>3. Cardinality({w}) <= 1
        BY SmallSets
      <3> QED BY <3>2, <3>3, Zenon
    <2> QED BY <2>1, <2>2
  <1> QED BY <1>2, <1>3 DEF OneTick

\* As long as start() ran once, whatever the timer, the pools and a stop do, there
\* is exactly one heartbeat tick, and no cycle overlaps another.
THEOREM OneHeartbeat == FrameworkSpec => [](starts <= 1 => OneTick)
  <1>1. FrameworkInv => (starts <= 1 => OneTick)
    BY TickIsOne
  <1> QED BY FrameworkHolds, <1>1, PTL

\* As long as start() ran once, m_pending is what is queued and under way, modulo its
\* width, whenever no change set is between Stage4Executor's queueing and counting.
THEOREM PendingExact == FrameworkSpec => [](starts <= 1 => PendingIsExact)
  <1>1. FrameworkInv => (starts <= 1 => PendingIsExact)
    BY DEF FrameworkInv, Counted, PendingIsExact
  <1> QED BY FrameworkHolds, <1>1, PTL
=============================================================================
