--------------------------- MODULE MeshDirectory ---------------------------
(***************************************************************************)
(* The directory of endpoints that the nodes of a mesh keep (routing.cpp,  *)
(* node_runtime.cpp) and the leaves feed (leaf_runtime.cpp).  A leaf sends *)
(* a snapshot of its endpoints to every parent; each node stamps them with *)
(* its own version counter, merges them, last writer wins, and broadcasts  *)
(* its table.  Removed endpoints leave a tombstone.                        *)
(*                                                                         *)
(* Every node is a parent of every leaf and a peer of every node.  Not     *)
(* modelled: the copy of the directory a leaf keeps for its own calls, the *)
(* routing of requests, discovery over Redis.                              *)
(***************************************************************************)
EXTENDS Integers, FiniteSets

CONSTANTS Nodes, Leaves,
          Eps,            \* endpoint ids, numbers in the order maps keep them
          Owner,          \* owner_leaf of each endpoint
          StartOrders,    \* bound: orders in which the processes were started
          StartGap,       \* milliseconds between two starts of processes
          MaxFlight,      \* bound: snapshots under way between two processes
          MaxChanges,     \* bound: registrations, ends of endpoints, needless syncs
          MaxFaults,      \* bound: closed links, crashes, restarts, losses
          MaxEvents,      \* bound: changes and faults together
          MaxExpiries     \* bound: tombstones of nodes that expire

Procs == Nodes \cup Leaves

ASSUME MeshConstants ==
    /\ Eps \subseteq Nat \ {0} /\ Owner \in [Eps -> Leaves]
    /\ IsFiniteSet(Nodes) /\ IsFiniteSet(Leaves) /\ IsFiniteSet(Eps)
    /\ Nodes \cap Leaves = {} /\ "none" \notin Procs
    /\ \A s \in StartOrders : /\ s \in [Procs -> 1 .. Cardinality(Procs)]
                              /\ \A p, q \in Procs : p # q => s[p] # s[q]
    /\ StartGap \in Nat /\ MaxFlight \in Nat \ {0}
    /\ MaxChanges \in Nat /\ MaxFaults \in Nat /\ MaxEvents \in Nat /\ MaxExpiries \in Nat

VARIABLES
    up,          \* the nodes that run
    clock,       \* number of process starts, for unix_millis
    counter,     \* m_version_counter of nodes and leaves
    dir,         \* endpoints_ of each node
    tomb,        \* tombstones_ of each node: version, 0 for none
    leaves,      \* m_leaves
    leaf_eps,    \* m_leaf_endpoints
    handling,    \* the handle_directory under way in a node's receiver thread
    local,       \* m_local_endpoints of the leaf that owns the endpoint
    gone,        \* m_local_tombstones: version, 0 for none
    net,         \* snapshots under way
    changes,     \* bound: changes so far
    faults,      \* bound: faults so far, and their kinds
    expiries     \* bound: tombstones that expired so far

node == <<up, counter, dir, tomb, leaves, leaf_eps, handling>>
leaf == <<local, gone>>
vars == <<node, clock, leaf, net, changes, faults, expiries>>

Entry    == [v : Nat, node : Nodes \cup {"none"}, alive : BOOLEAN]
Absent   == [v |-> 0, node |-> "none", alive |-> FALSE]
Snapshot == [eps : [Eps -> Entry], removed : [Eps -> Nat]]
Nothing  == [from |-> "none", at |-> "idle",
             snap |-> [eps |-> [e \in Eps |-> Absent], removed |-> [e \in Eps |-> 0]]]
Handling == [from : Leaves \cup {"none"}, at : {"idle", "stamp", "merge"}, snap : Snapshot]
Kinds    == {"close", "crash", "restart", "loss"}

TypeOK ==
    /\ up \subseteq Nodes
    /\ clock \in Nat
    /\ counter \in [Procs -> Nat]
    /\ dir \in [Nodes -> [Eps -> Entry]]
    /\ tomb \in [Nodes -> [Eps -> Nat]]
    /\ \A n \in Nodes, e \in Eps : dir[n][e].v > 0 => dir[n][e].v > tomb[n][e]
    /\ leaves \in [Nodes -> SUBSET Leaves]
    /\ leaf_eps \in [Nodes -> [Leaves -> SUBSET Eps]]
    /\ handling \in [Nodes -> Handling]
    /\ local \in [Eps -> Entry] /\ gone \in [Eps -> Nat]
    /\ net \subseteq [from : Procs, to : Nodes, snap : Snapshot]
    /\ changes \in 0 .. MaxChanges
    /\ faults \in [count : 0 .. MaxFaults, kinds : SUBSET Kinds]
    /\ expiries \in 0 .. MaxExpiries

\* Processes start one after the other.
Init ==
    /\ up = Nodes
    /\ clock = Cardinality(Procs)
    /\ \E s \in StartOrders : counter = [p \in Procs |-> s[p] * StartGap]
    /\ dir = [n \in Nodes |-> [e \in Eps |-> Absent]]
    /\ tomb = [n \in Nodes |-> [e \in Eps |-> 0]]
    /\ leaves = [n \in Nodes |-> Leaves]
    /\ leaf_eps = [n \in Nodes |-> [l \in Leaves |-> {}]]
    /\ handling = [n \in Nodes |-> Nothing]
    /\ local = [e \in Eps |-> Absent] /\ gone = [e \in Eps |-> 0]
    /\ net = {}
    /\ changes = 0 /\ faults = [count |-> 0, kinds |-> {}] /\ expiries = 0
-----------------------------------------------------------------------------
(* EndpointDirectory *)

\* Mutant: the entry that comes last wins.
MergeEntry_last(d, t, x) == IF x.v > t THEN x ELSE d

\* merge of one endpoint into entry d with tombstone t.  Versions of two
\* writers differ, so the comparison of updated_ms never decides.
MergeEntry(d, t, x) == IF x.v > t /\ x.v > d.v THEN x ELSE d

\* apply_removal with version r.
RemoveEntry(d, r) == IF d.v <= r THEN Absent ELSE d
RemoveTomb(t, r)  == IF t < r THEN r ELSE t

\* merge of a snapshot: its endpoints, then its removals.
MergeDir(n, s)  == [e \in Eps |-> RemoveEntry(MergeEntry(dir[n][e], tomb[n][e], s.eps[e]), s.removed[e])]
MergeTomb(n, s) == [e \in Eps |-> RemoveTomb(tomb[n][e], s.removed[e])]

snapshot(d, t) == [eps |-> d, removed |-> t]
-----------------------------------------------------------------------------
(* Messages *)

\* TightTransport::send to several nodes: lost when the node is down or too
\* much is under way.
Room(x, n) == Cardinality({k \in net : k.from = x /\ k.to = n}) < MaxFlight

Send(x, to, s) == net \cup [from : {x}, to : {n \in to \cap up : Room(x, n)}, snap : {s}]

\* Mutant: removals are not passed on.
broadcast_snapshot_bare(n, d, t) == Send(n, Nodes \ {n}, snapshot(d, [e \in Eps |-> 0]))

broadcast_snapshot(n, d, t) == Send(n, Nodes \ {n}, snapshot(d, t))

\* What a leaf says of its endpoints: other leaves' are not in it.
LeafSnapshot(l, loc, gn) ==
    snapshot([e \in Eps |-> IF Owner[e] = l THEN loc[e] ELSE Absent],
             [e \in Eps |-> IF Owner[e] = l THEN gn[e] ELSE 0])

Few == changes + faults.count < MaxEvents

Fault(kind) ==
    /\ Few
    /\ faults.count < MaxFaults
    /\ faults' = [count |-> faults.count + 1, kinds |-> faults.kinds \cup {kind}]

Lose(m) ==
    /\ Fault("loss")
    /\ net' = net \ {m}
    /\ UNCHANGED <<node, clock, leaf, changes, expiries>>
-----------------------------------------------------------------------------
(* Leaf *)

Change == Few /\ changes < MaxChanges /\ changes' = changes + 1

\* Bound: a leaf has something new to say when there is room to say it.
Quiet(l) == \A n \in up : Room(l, n)

\* An endpoint gets a new version, and the parents are told.  The parent it
\* names as owner_node is overwritten by the node and left out.
Announce(e, alive) ==
    LET l == Owner[e]
    IN  /\ Quiet(l)
        /\ counter' = [counter EXCEPT ![l] = @ + 1]
        /\ local' = [local EXCEPT ![e] = [v |-> counter'[l], node |-> "none", alive |-> alive]]
        /\ gone' = IF alive THEN [gone EXCEPT ![e] = 0] ELSE gone
        /\ net' = Send(l, Nodes, LeafSnapshot(l, local', gone'))
        /\ UNCHANGED <<up, dir, tomb, leaves, leaf_eps, handling, clock, faults, expiries>>

handle_register(e)   == Change /\ Announce(e, TRUE)
handle_deregister(e) == Change /\ local[e].v > 0 /\ Announce(e, FALSE)
do_heartbeat_dead(e) == Change /\ local[e].alive /\ Announce(e, FALSE)
handle_heartbeat(e)  == local[e].v > 0 /\ ~local[e].alive /\ Announce(e, TRUE) /\ UNCHANGED changes

\* An endpoint without heartbeats is dropped; a tombstone is kept, and the
\* parents are told at once, if the leaf's own directory still had it.
do_heartbeat_remove(e) ==
    LET l == Owner[e]
    IN  /\ local[e].v > 0
        /\ Quiet(l) /\ Change
        /\ local' = [local EXCEPT ![e] = Absent]
        /\ \/ /\ gone' = [gone EXCEPT ![e] = local[e].v]
              /\ net' = Send(l, Nodes, LeafSnapshot(l, local', gone'))
           \/ UNCHANGED <<gone, net>>
        /\ UNCHANGED <<node, clock, faults, expiries>>

\* A new process of the leaf: its backends have to register again.
LeafRestarts(l) ==
    /\ Fault("restart")
    /\ clock' = clock + 1
    /\ counter' = [counter EXCEPT ![l] = clock' * StartGap]
    /\ local' = [e \in Eps |-> IF Owner[e] = l THEN Absent ELSE local[e]]
    /\ gone' = [e \in Eps |-> IF Owner[e] = l THEN 0 ELSE gone[e]]
    /\ UNCHANGED <<up, dir, tomb, leaves, leaf_eps, handling, net, changes, expiries>>
-----------------------------------------------------------------------------
(* Node: handle_directory, in the three sections under m_mutex *)

\* A snapshot of a mounted leaf: it has to be stamped.
handle_directory(n, m) ==
    /\ n \in up /\ m.to = n /\ handling[n] = Nothing
    /\ m.from \in leaves[n]
    /\ net' = net \ {m}
    /\ handling' = [handling EXCEPT ![n] = [from |-> m.from, at |-> "stamp", snap |-> m.snap]]
    /\ UNCHANGED <<up, counter, dir, tomb, leaves, leaf_eps, clock, leaf, changes, faults, expiries>>

\* Any other snapshot, of a node or of a leaf that is not mounted, is merged as
\* it is: what happens between the sections might as well happen before.
handle_directory_other(n, m) ==
    /\ n \in up /\ m.to = n /\ handling[n] = Nothing
    /\ m.from \notin leaves[n]
    /\ net' = net \ {m}
    /\ dir' = [dir EXCEPT ![n] = MergeDir(n, m.snap)]
    /\ tomb' = [tomb EXCEPT ![n] = MergeTomb(n, m.snap)]
    /\ UNCHANGED <<up, counter, leaves, leaf_eps, handling, clock, leaf, changes, faults, expiries>>

Rank(e, S) == Cardinality({x \in S : x <= e})

\* Mutant: what is no longer listed is forgotten instead of removed.
Stamped_forgets(n, l, s) ==
    LET listed == {e \in Eps : Owner[e] = l /\ s.eps[e].v > 0}
    IN  [eps |-> [e \in Eps |-> IF e \in listed
                                THEN [v |-> counter[n] + Rank(e, listed), node |-> n,
                                      alive |-> s.eps[e].alive]
                                ELSE s.eps[e]],
         removed |-> s.removed, listed |-> listed, used |-> Cardinality(listed)]

\* The snapshot of a leaf's endpoints with this node's versions: first those
\* it lists, then removals of those it listed the last time, besides the
\* removals the leaf sends itself.
Stamped(n, l, s) ==
    LET listed   == {e \in Eps : Owner[e] = l /\ s.eps[e].v > 0}
        vanished == leaf_eps[n][l] \ listed
        own(e)   == counter[n] + Cardinality(listed) + Rank(e, vanished)
    IN  [eps |-> [e \in Eps |-> IF e \in listed
                                THEN [v |-> counter[n] + Rank(e, listed), node |-> n,
                                      alive |-> s.eps[e].alive]
                                ELSE s.eps[e]],
         removed |-> [e \in Eps |-> IF e \in vanished THEN RemoveTomb(s.removed[e], own(e))
                                    ELSE s.removed[e]],
         listed |-> listed,
         used |-> Cardinality(listed \cup vanished)]

handle_directory_stamp(n) ==
    LET h == handling[n]
        s == Stamped(n, h.from, h.snap)
    IN  /\ h.at = "stamp"
        /\ handling' = [handling EXCEPT ![n].at = "merge",
                                        ![n].snap = snapshot(s.eps, s.removed)]
        /\ counter' = [counter EXCEPT ![n] = @ + s.used]
        /\ leaf_eps' = [leaf_eps EXCEPT ![n][h.from] = s.listed]
        /\ UNCHANGED <<up, dir, tomb, leaves, clock, leaf, net, changes, faults, expiries>>

\* The news are broadcast at once.
handle_directory_merge(n) ==
    LET h == handling[n]
    IN  /\ h.at = "merge"
        /\ dir' = [dir EXCEPT ![n] = MergeDir(n, h.snap)]
        /\ tomb' = [tomb EXCEPT ![n] = MergeTomb(n, h.snap)]
        /\ handling' = [handling EXCEPT ![n] = Nothing]
        /\ net' = broadcast_snapshot(n, dir'[n], tomb'[n])
        /\ UNCHANGED <<up, counter, leaves, leaf_eps, clock, leaf, changes, faults, expiries>>
-----------------------------------------------------------------------------
(* Node: peer events, syncs, expiry of tombstones, crash and start *)

on_peer_online(n, l) ==
    /\ n \in up /\ l \notin leaves[n]
    /\ leaves' = [leaves EXCEPT ![n] = @ \cup {l}]
    /\ UNCHANGED <<up, counter, dir, tomb, leaf_eps, handling, clock, leaf, net, changes, faults, expiries>>

\* The leaf's endpoints are marked dead (revoke_leaf), whoever stamped them.
on_peer_closed(n, l) ==
    LET its == {e \in Eps : Owner[e] = l /\ dir[n][e].v > 0}
        s   == [e \in Eps |-> IF e \in its
                              THEN [dir[n][e] EXCEPT !.alive = FALSE, !.v = counter[n] + Rank(e, its)]
                              ELSE dir[n][e]]
    IN  /\ n \in up /\ l \in leaves[n]
        /\ Fault("close")
        /\ leaves' = [leaves EXCEPT ![n] = @ \ {l}]
        /\ leaf_eps' = [leaf_eps EXCEPT ![n][l] = {}]
        /\ counter' = [counter EXCEPT ![n] = @ + Cardinality(its)]
        /\ dir' = [dir EXCEPT ![n] = MergeDir(n, snapshot(s, tomb[n]))]
        /\ net' = IF its = {} THEN net ELSE broadcast_snapshot(n, dir'[n], tomb[n])
        /\ UNCHANGED <<up, tomb, handling, clock, leaf, changes, expiries>>

\* do_sync_work; a broadcast that tells no one anything is left out.
node_sync(n) ==
    LET s == snapshot(dir[n], tomb[n])
    IN  /\ n \in up
        /\ \E m \in up \ {n} : <<MergeDir(m, s), MergeTomb(m, s)>> # <<dir[m], tomb[m]>>
        /\ \A k \in net : k.from # n
        /\ net' = broadcast_snapshot(n, dir[n], tomb[n])
        /\ UNCHANGED <<node, clock, leaf, changes, faults, expiries>>

\* Would a node's table say something else of l's endpoints after a sync?
SyncMatters(l) ==
    \E n \in up : l \in leaves[n] /\ \E e \in Eps :
        LET s == Stamped(n, l, LeafSnapshot(l, local, gone))
            d == MergeDir(n, snapshot(s.eps, s.removed))[e]
        IN  (d.v > 0) # (dir[n][e].v > 0) \/ d.alive # dir[n][e].alive

\* A leaf's do_sync_work: as often as it matters, and MaxChanges times besides.
leaf_sync(l) ==
    /\ \A k \in net : k.from # l
    /\ \A n \in up : handling[n].from # l
    /\ SyncMatters(l)
    /\ net' = Send(l, Nodes, LeafSnapshot(l, local, gone))
    /\ UNCHANGED <<node, clock, leaf, changes, faults, expiries>>

leaf_sync_again(l) ==
    /\ Quiet(l) /\ Change
    /\ net' = Send(l, Nodes, LeafSnapshot(l, local, gone))
    /\ UNCHANGED <<node, clock, leaf, faults, expiries>>

\* A tombstone is forgotten sixty seconds after this node heard of it, whatever
\* others still hold or send (snapshot).  If the endpoint is still gone, the
\* syncs, one every fifteen seconds, have removed it everywhere by then.
TombstoneExpires(n, e) ==
    LET passed(x) == x[e].v = 0 \/ x[e].v > tomb[n][e]
    IN  /\ n \in up /\ tomb[n][e] > 0
        /\ \/ local[e].v > 0
           \/ /\ \A m \in up : passed(dir[m]) /\ passed(handling[m].snap.eps)
              /\ \A k \in net : passed(k.snap.eps)
        /\ expiries < MaxExpiries /\ expiries' = expiries + 1
        /\ tomb' = [tomb EXCEPT ![n][e] = 0]
        /\ UNCHANGED <<up, counter, dir, leaves, leaf_eps, handling, clock, leaf, net, changes, faults>>

\* So does the leaf with its own, the next time it sends (send_snapshot_to_parent).
LocalTombstoneExpires(e) ==
    /\ gone[e] > 0
    /\ gone' = [gone EXCEPT ![e] = 0]
    /\ UNCHANGED <<node, clock, local, net, changes, faults, expiries>>

Crash(n) ==
    /\ n \in up
    /\ Fault("crash")
    /\ up' = up \ {n}
    /\ dir' = [dir EXCEPT ![n] = [e \in Eps |-> Absent]]
    /\ tomb' = [tomb EXCEPT ![n] = [e \in Eps |-> 0]]
    /\ leaves' = [leaves EXCEPT ![n] = {}]
    /\ leaf_eps' = [leaf_eps EXCEPT ![n] = [l \in Leaves |-> {}]]
    /\ handling' = [handling EXCEPT ![n] = Nothing]
    /\ net' = {m \in net : m.to # n}
    /\ UNCHANGED <<counter, clock, leaf, changes, expiries>>

start(n) ==
    /\ n \notin up
    /\ up' = up \cup {n}
    /\ clock' = clock + 1
    /\ counter' = [counter EXCEPT ![n] = clock' * StartGap]
    /\ UNCHANGED <<dir, tomb, leaves, leaf_eps, handling, leaf, net, changes, faults, expiries>>
-----------------------------------------------------------------------------
receiver(n) == \/ \E m \in net : handle_directory(n, m) \/ handle_directory_other(n, m)
               \/ handle_directory_stamp(n) \/ handle_directory_merge(n)

Next ==
    \/ \E e \in Eps : \/ handle_register(e) \/ handle_heartbeat(e) \/ handle_deregister(e)
                      \/ do_heartbeat_dead(e) \/ do_heartbeat_remove(e)
                      \/ LocalTombstoneExpires(e)
    \/ \E n \in Nodes, e \in Eps : TombstoneExpires(n, e)
    \/ \E l \in Leaves : leaf_sync(l) \/ leaf_sync_again(l) \/ LeafRestarts(l)
    \/ \E n \in Nodes : receiver(n) \/ node_sync(n) \/ Crash(n) \/ start(n)
    \/ \E n \in Nodes, l \in Leaves : on_peer_online(n, l) \/ on_peer_closed(n, l)
    \/ \E m \in net : Lose(m)

Spec == Init /\ [][Next]_vars

\* The processes go on: snapshots under way are handled and syncs that matter
\* come round.  Each of these ends after a while, so nothing is asked of one more
\* than of another; tombstones may get old or go round for ever.
Goes == \/ \E n \in Nodes : receiver(n) \/ node_sync(n)
        \/ \E l \in Leaves : leaf_sync(l)

FairSpec == Spec /\ WF_vars(Goes)
-----------------------------------------------------------------------------
(* Properties *)

\* While a node runs, what it knows of an endpoint never grows older: the
\* version it holds or has buried falls only when the tombstone expires.
Known(n, e) == IF dir[n][e].v > tomb[n][e] THEN dir[n][e].v ELSE tomb[n][e]

KnownGrows ==
    [][TypeOK /\ \A n \in up \cap up', e \in Eps : Known(n, e)' >= Known(n, e) \/ tomb'[n][e] < tomb[n][e]]_vars

\* Fewer versions are given out than milliseconds pass, so that versions of two
\* processes are never the same.
VersionsApart == \A p \in Procs : counter[p] < StartGap * (clock + 1)

Healthy == up = Nodes /\ \A n \in Nodes : leaves[n] = Leaves

\* When all nodes run and are linked to all leaves from some time on, their
\* tables become equal, whatever was lost, closed or restarted before.
TablesConverge ==
    /\ []VersionsApart
    /\ <>[]Healthy => <>[](\A m, n \in Nodes : dir[m] = dir[n])

\* Some node stamps above every tombstone of e.  A leaf's own tombstone may be
\* above all of them, when the leaf was started last.
Surpassed(e) == \A m \in Nodes : \E n \in Nodes : tomb[m][e] <= counter[n]

\* A registered endpoint comes to be in the tables, and as its leaf says it is, if
\* no link was ever closed on a leaf that ran on.
Returns(e) ==
    (<>[]Healthy /\ []("close" \notin faults.kinds)) =>
        <>[](local[e].v > 0 =>
                 \A n \in Nodes : dir[n][e].v > 0 /\ dir[n][e].alive = local[e].alive)

\* That is so once no tombstone outranks the nodes' stamps; and an endpoint its
\* leaf removed leaves every table, if besides no node restarted.
TablesFollow ==
    \A e \in Eps :
        /\ <>[]Surpassed(e) => Returns(e)
        /\ (<>[]Healthy /\ [](faults.kinds \cap {"close", "crash"} = {})) =>
              <>[](local[e].v = 0 => \A n \in Nodes : dir[n][e].v = 0)

\* Tombstones are there "to suppress resurrection by older in-flight snapshots"
\* (routing.hpp): with nothing in flight, none buries what a node has of an
\* endpoint that its leaf has registered again; the next sync would remove it.
NothingBuried ==
    (Healthy /\ net = {} /\ \A n \in Nodes : handling[n] = Nothing) =>
        \A m, n \in Nodes, e \in Eps :
            local[e].alive /\ dir[m][e].v = 0 /\ dir[n][e].v > 0 => tomb[m][e] < dir[n][e].v

\* "The leaf's snapshot is authoritative for its own endpoints"
\* (node_runtime.cpp): when the only node that runs has merged it, its table
\* says what the snapshot says.
AuthoritativeLeaf ==
    [][\A n \in Nodes : LET h == handling[n] IN
        (up = {n} /\ h.at = "merge" /\ h.from \in leaves[n] /\ handling'[n] = Nothing /\ up' = up) =>
            \A e \in Eps : Owner[e] = h.from /\ h.snap.eps[e].v > 0 => dir'[n][e] = h.snap.eps[e]]_vars
=============================================================================
