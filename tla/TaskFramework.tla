----------------------------- MODULE TaskFramework -----------------------------
(***************************************************************************)
(* The creek framework that a sidecar's runtime runs on: the timer heap and   *)
(* its thread, the two worker pools of the Reactor, the 20 ms heartbeat_tick   *)
(* that drains the input channel, evolves the blackboard's changes, hands the   *)
(* change set to the Stage4Executor and re-arms itself, and the workers that    *)
(* make the external calls.  The runtime on top (Node or Leaf) registers its     *)
(* periodic tasks when it starts and cancels them when it stops.                 *)
(*                                                                            *)
(* A timer entry is waiting, due, or late (past the skip threshold).  A         *)
(* message a of the producers is processed to a new message b and an external   *)
(* call; b is processed to nothing.                                             *)
(***************************************************************************)
EXTENDS Integers, Sequences, FiniteSets, SequencesExt

CONSTANTS Periodic,      \* names of the runtime's periodic tasks
          High,          \* the ones of priority High: they go to the cpu pool
          Skippable,     \* the ones registered as skippable
          Cpu, Io,       \* the workers of the two pools
          MaxStarts,     \* bound on Framework::start
          MaxMsgs,       \* bound on messages sent by producers
          MaxQueue,      \* bound on a pool's queue, which has none in the code
          Wrap,          \* the width of m_pending: it counts modulo Wrap
          OwnChannel     \* register_input_channel was called with another channel

ASSUME FrameworkAssumption ==
    /\ High \subseteq Periodic /\ Skippable \subseteq Periodic
    /\ Cpu \cap Io = {} /\ MaxStarts \in Nat /\ MaxMsgs \in Nat /\ MaxQueue \in Nat
    /\ Wrap \in Nat \ {0}
    /\ OwnChannel \in BOOLEAN

VARIABLES
    starts,              \* how often start() ran
    running,             \* Framework::m_running
    pools,               \* Reactor::m_running and both pools' running
    heap,                \* m_heap: per job "none", "waiting", "due" or "late"
    queue,               \* the queue of each pool
    work,                \* per worker: the job it runs
    phase,               \* per cpu worker: the step of run_one_cycle it is at
    input, given,        \* the channel that producers fill; producers' messages so far
    buffer,              \* m_input_buffer, when it is not the input channel
    fresh,               \* m_new_message_channel
    cs,                  \* per cpu worker: the change set (messages; calls are as many)
    changed, owed,       \* m_changed_keys is not empty; a mark that nobody evolved
    calls, busy,         \* m_work_queue's size; calls that workers make
    closed, pending,     \* m_work_queue is closed; m_pending
    seen,                \* messages a processor has seen
    runtime              \* the runtime: "off", "up", "cancelled", "down"

timer == <<heap>>
reactor == <<queue, work, phase>>
flow == <<input, given, buffer, fresh, cs, seen>>
stage4 == <<calls, busy, closed, pending>>
board == <<changed, owed>>
framework == <<starts, running, pools, heap, queue, work, phase, flow, board, stage4, runtime>>

Workers == Cpu \cup Io
Chains == {<<"tick", n>> : n \in 1..MaxStarts}
Tasks == {<<p, 0>> : p \in Periodic}
Jobs == Chains \cup Tasks
None == <<"none", 0>>
Pool(w) == IF w \in Cpu THEN "cpu" ELSE "io"
\* schedule_in, schedule_periodic_entry: the jobs J have an entry in the heap.
Armed(J) == [j \in Jobs |-> IF j \in J THEN "waiting" ELSE heap[j]]
\* The timer thread submits Critical and High tasks to the cpu pool.
PoolOf(j) == IF j \in Chains \/ j[1] \in High THEN "cpu" ELSE "io"

FrameworkInit ==
    /\ starts = 0 /\ running = FALSE /\ pools = FALSE
    /\ heap = [j \in Jobs |-> "none"]
    /\ queue = [p \in {"cpu", "io"} |-> <<>>]
    /\ work = [w \in Workers |-> None] /\ phase = [w \in Cpu |-> "idle"]
    /\ input = <<>> /\ given = 0 /\ buffer = <<>> /\ fresh = <<>>
    /\ cs = [w \in Cpu |-> <<>>] /\ seen = {}
    /\ changed = FALSE /\ owed = FALSE
    /\ calls = 0 /\ busy = 0 /\ closed = FALSE /\ pending = 0
    /\ runtime = "off"

-----------------------------------------------------------------------------
(* Framework start and stop. *)

framework_start ==
    /\ ~running /\ ~pools /\ starts < MaxStarts
    /\ starts' = starts + 1
    /\ running' = TRUE /\ pools' = TRUE
    /\ heap' = Armed({<<"tick", starts + 1>>})
    /\ UNCHANGED <<reactor, flow, board, stage4, runtime>>

\* The flags fall; the workers finish the task they run and take no other.
framework_stop ==
    /\ running /\ runtime # "up"
    /\ running' = FALSE /\ pools' = FALSE
    /\ UNCHANGED <<starts, timer, reactor, flow, board, stage4, runtime>>

Joined == \A w \in Workers : work[w] = None

\* Stage4Executor::stop after the reactor's threads are joined: the queue is
\* closed and emptied, and m_pending keeps what was queued.
stage4_stop ==
    /\ ~running /\ starts > 0 /\ Joined /\ ~closed
    /\ closed' = TRUE /\ calls' = 0
    /\ UNCHANGED <<starts, running, pools, timer, reactor, flow, board, busy, pending, runtime>>

-----------------------------------------------------------------------------
(* The runtime. *)

\* start() of the runtime registers its tasks.
schedule_periodic ==
    /\ runtime = "off" /\ running
    /\ heap' = Armed(Tasks)
    /\ runtime' = "up"
    /\ UNCHANGED <<starts, running, pools, reactor, flow, board, stage4>>

\* stop() of the runtime removes its entries from the heap ...
cancel_periodic ==
    /\ runtime = "up"
    /\ heap' = [j \in Jobs |-> IF j \in Tasks THEN "none" ELSE heap[j]]
    /\ runtime' = "cancelled"
    /\ UNCHANGED <<starts, running, pools, reactor, flow, board, stage4>>

\* ... and then destroys its transport and the rest of its state.
reset_transport ==
    /\ runtime = "cancelled" /\ runtime' = "down"
    /\ UNCHANGED <<starts, running, pools, timer, reactor, flow, board, stage4>>

-----------------------------------------------------------------------------
(* The timer thread and the worker pools. *)

TimePasses(j) ==
    /\ heap[j] \in {"waiting", "due"}
    /\ heap' = [heap EXCEPT ![j] = IF @ = "waiting" THEN "due" ELSE "late"]
    /\ UNCHANGED <<starts, running, pools, reactor, flow, board, stage4, runtime>>

\* Mutant: the skip threshold applies to every task.
Skipped_any(j) == heap[j] = "late" /\ j \in Tasks

\* A skippable task that is late is popped and, periodic or not, not re-armed.
Skipped(j) == heap[j] = "late" /\ j \in Tasks /\ j[1] \in Skippable

\* get_expired_tasks for one entry: a periodic task is re-armed as it is
\* popped, and every popped task goes to its pool.
get_expired_tasks(j) ==
    /\ pools /\ heap[j] \in {"due", "late"}
    /\ Len(queue[PoolOf(j)]) < MaxQueue
    /\ heap' = [heap EXCEPT ![j] = IF j \in Tasks /\ ~Skipped(j) THEN "waiting" ELSE "none"]
    /\ queue' = IF Skipped(j) THEN queue ELSE [queue EXCEPT ![PoolOf(j)] = Append(@, j)]
    /\ UNCHANGED <<starts, running, pools, work, phase, flow, board, stage4, runtime>>

\* io_loop and cpu_loop take the front of their queue.
take(w) ==
    /\ pools /\ work[w] = None /\ queue[Pool(w)] # <<>>
    /\ work' = [work EXCEPT ![w] = Head(queue[Pool(w)])]
    /\ queue' = [queue EXCEPT ![Pool(w)] = Tail(@)]
    /\ phase' = IF w \in Cpu /\ work'[w] \in Chains THEN [phase EXCEPT ![w] = "beat"] ELSE phase
    /\ UNCHANGED <<starts, running, pools, timer, flow, board, stage4, runtime>>

\* A periodic task of the runtime has run.
task_done(w) ==
    /\ work[w] \in Tasks
    /\ work' = [work EXCEPT ![w] = None]
    /\ UNCHANGED <<starts, running, pools, timer, queue, phase, flow, board, stage4, runtime>>

-----------------------------------------------------------------------------
(* run_one_cycle, by the cpu worker that runs the heartbeat tick. *)

At(w, step) == work[w] \in Chains /\ phase[w] = step
Goto(w, step) == phase' = [phase EXCEPT ![w] = step]

\* on_heartbeat_timer after stop(): the chain ends.
tick_ends(w) ==
    /\ At(w, "beat") /\ ~running
    /\ work' = [work EXCEPT ![w] = None] /\ Goto(w, "idle")
    /\ UNCHANGED <<starts, running, pools, timer, queue, flow, board, stage4, runtime>>

Produced(batch) == LET Kind(m) == m.kind = "a"
                       ToB(m) == [m EXCEPT !.kind = "b"]
                   IN [i \in 1..Len(SelectSeq(batch, Kind)) |-> ToB(SelectSeq(batch, Kind)[i])]

\* MessageHeartbeat::beat: the changed keys are cleared, the channel is
\* drained, the processor sees the batch and may mark keys.
beat(w) ==
    /\ At(w, "beat") /\ running
    /\ input' = <<>>
    /\ seen' = seen \cup ToSet(input)
    /\ cs' = [cs EXCEPT ![w] = Produced(input)]
    /\ changed' = (input # <<>>)
    /\ Goto(w, "evolve")
    /\ UNCHANGED <<starts, running, pools, timer, queue, work, given, buffer, fresh,
                   owed, stage4, runtime>>

\* DataEvolver::evolve_once takes the changed keys.
evolve_once(w) ==
    /\ At(w, "evolve")
    /\ owed' = (owed /\ ~changed) /\ changed' = FALSE
    /\ Goto(w, "execute")
    /\ UNCHANGED <<starts, running, pools, timer, queue, work, flow, stage4, runtime>>

\* Stage4Executor::execute: messages to the new-message channel, calls to the
\* work queue (a closed one drops them) ...
execute(w) ==
    /\ At(w, "execute")
    /\ fresh' = fresh \o cs[w]
    /\ calls' = IF closed THEN calls ELSE calls + Len(cs[w])
    /\ Goto(w, "count")
    /\ UNCHANGED <<starts, running, pools, timer, queue, work, input, given, buffer, cs,
                   seen, board, busy, closed, pending, runtime>>

\* ... and only then m_pending grows: a worker may have finished a call already.
execute_count(w) ==
    /\ At(w, "count")
    /\ pending' = (pending + Len(cs[w])) % Wrap
    /\ cs' = [cs EXCEPT ![w] = <<>>]
    /\ Goto(w, "recycle")
    /\ UNCHANGED <<starts, running, pools, timer, queue, work, input, given, buffer, fresh,
                   seen, board, calls, busy, closed, runtime>>

\* Mutant: the new messages replace what producers sent during the cycle.
recycle_swap(w) ==
    /\ At(w, "recycle")
    /\ fresh' = <<>>
    /\ input' = fresh /\ UNCHANGED buffer
    /\ Goto(w, "rearm")
    /\ UNCHANGED <<starts, running, pools, timer, queue, work, given, cs, seen, board,
                   stage4, runtime>>

\* The new messages go back to m_input_buffer, whatever the input channel is.
recycle(w) ==
    /\ At(w, "recycle")
    /\ fresh' = <<>>
    /\ IF OwnChannel
       THEN buffer' = buffer \o fresh /\ UNCHANGED input
       ELSE input' = input \o fresh /\ UNCHANGED buffer
    /\ Goto(w, "rearm")
    /\ UNCHANGED <<starts, running, pools, timer, queue, work, given, cs, seen, board,
                   stage4, runtime>>

\* Mutant: an idle framework stops ticking.
rearm_idle(w) ==
    /\ At(w, "rearm")
    /\ heap' = IF input = <<>> THEN heap ELSE [heap EXCEPT ![work[w]] = "waiting"]
    /\ work' = [work EXCEPT ![w] = None] /\ Goto(w, "idle")
    /\ UNCHANGED <<starts, running, pools, queue, flow, board, stage4, runtime>>

\* The tick arms its successor, also when stop() has come since it began.
rearm(w) ==
    /\ At(w, "rearm")
    /\ heap' = Armed({work[w]})
    /\ work' = [work EXCEPT ![w] = None] /\ Goto(w, "idle")
    /\ UNCHANGED <<starts, running, pools, queue, flow, board, stage4, runtime>>

-----------------------------------------------------------------------------
(* Stage 4 workers, producers, other threads that mark keys. *)

take_call ==
    /\ calls > 0 /\ ~closed
    /\ calls' = calls - 1 /\ busy' = busy + 1
    /\ UNCHANGED <<starts, running, pools, timer, reactor, flow, board, closed, pending, runtime>>

\* Mutant: a call that throws is not counted down.
call_done_throws ==
    /\ busy > 0 /\ busy' = busy - 1
    /\ \/ pending' = (pending - 1) % Wrap
       \/ UNCHANGED pending
    /\ UNCHANGED <<starts, running, pools, timer, reactor, flow, board, calls, closed, runtime>>

\* A call returns or throws: in both cases it is counted down.
call_done ==
    /\ busy > 0 /\ busy' = busy - 1
    /\ pending' = (pending - 1) % Wrap
    /\ UNCHANGED <<starts, running, pools, timer, reactor, flow, board, calls, closed, runtime>>

send ==
    /\ given < MaxMsgs
    /\ given' = given + 1
    /\ input' = Append(input, [kind |-> "a", id |-> given + 1])
    /\ UNCHANGED <<starts, running, pools, timer, reactor, buffer, fresh, cs, seen, board,
                   stage4, runtime>>

\* An adapter of the routing tables marks its key from a thread of its own.
mark_changed ==
    /\ changed' = TRUE /\ owed' = TRUE
    /\ UNCHANGED <<starts, running, pools, timer, reactor, flow, stage4, runtime>>

Worker(w) == take(w) \/ task_done(w)

Cycle(w) == \/ tick_ends(w) \/ beat(w) \/ evolve_once(w) \/ execute(w) \/ execute_count(w)
            \/ recycle(w) \/ rearm(w)

FrameworkNext ==
    \/ framework_start \/ framework_stop \/ stage4_stop
    \/ schedule_periodic \/ cancel_periodic \/ reset_transport
    \/ \E j \in Jobs : TimePasses(j) \/ get_expired_tasks(j)
    \/ \E w \in Workers : Worker(w)
    \/ \E w \in Cpu : Cycle(w)
    \/ take_call \/ call_done
    \/ send \/ mark_changed

\* Time passes, and the timer thread and the pools' workers go on; nobody has to
\* start, stop, send or mark.  (Strong for the timer, because MaxQueue is a bound
\* of the model: in the code a queue is never full.)
Fairness ==
    /\ \A j \in Jobs : WF_framework(TimePasses(j)) /\ SF_framework(get_expired_tasks(j))
    /\ \A w \in Workers : WF_framework(Worker(w))
    /\ \A w \in Cpu : WF_framework(Cycle(w))

FrameworkSpec == FrameworkInit /\ [][FrameworkNext]_framework /\ Fairness

-----------------------------------------------------------------------------

\* Where a job is: an entry in the heap, copies in a queue, copies at work.
Copies(j) == (IF heap[j] = "none" THEN 0 ELSE 1)
             + Cardinality({i \in 1..Len(queue[PoolOf(j)]) : queue[PoolOf(j)][i] = j})
             + Cardinality({w \in Workers : work[w] = j})

\* Exactly one heartbeat tick exists while the framework runs: no cycle overlaps
\* another and none is the last, whatever the timer, the pools and a stop do.
OneTick == /\ running => \E c \in Chains : /\ Copies(c) = 1
                                           /\ \A d \in Chains \ {c} : Copies(d) = 0
           /\ Cardinality({w \in Cpu : work[w] \in Chains}) <= 1

\* Once a change set is counted, m_pending is the number of calls queued or
\* under way, although a worker may count a call down before it was counted up.
PendingIsExact ==
    (~closed /\ \A w \in Cpu : phase[w] # "count") => pending = (calls + busy) % Wrap

\* A message that was sent, and the one it gives rise to, are processed unless
\* the framework stops.
MessagesAreSeen ==
    \A n \in 1..MaxMsgs :
        (running /\ given >= n) ~> (~running \/ {[kind |-> k, id |-> n] : k \in {"a", "b"}} \subseteq seen)

\* A periodic task keeps running as long as its runtime is up.
PeriodicComesBack ==
    \A p \in Periodic :
        (runtime = "up") ~> (runtime # "up" \/ ~running \/ \E w \in Workers : work[w] = <<p, 0>>)

\* Deviation: a task that its runtime has cancelled does not run on what is
\* left of the runtime.
CancelledIsQuiet == runtime = "down" => \A w \in Workers : work[w] \notin Tasks

\* Deviation: a key that was marked changed stays so until it is evolved.
ChangeIsKept == owed => changed
=============================================================================
