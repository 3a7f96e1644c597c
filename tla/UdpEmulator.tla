------------------------------ MODULE UdpEmulator ------------------------------
(***************************************************************************)
(* The UDP network emulator (udpsim::UdpProxy): one thread receives the       *)
(* datagrams of both directions, drops, delays, serialises and queues them,    *)
(* one sender per direction sends what is due, and a control thread and a       *)
(* scenario thread change the configuration while packets are queued.  A        *)
(* change of bandwidth is left in four atomics and a flag per direction for     *)
(* the receiving thread, which reschedules the backlog on its next datagram.     *)
(*                                                                            *)
(* Times are relative to now: a packet's due, the pointers drain and bw_drain.   *)
(* The past is counted as far as it matters: bw_drain from now, and drain from     *)
(* MaxLag ago, the earliest time that process may take for now.                   *)
(* A packet is its due; contents, addresses and counters are left out.           *)
(***************************************************************************)
EXTENDS Integers, Sequences, SequencesExt

CONSTANTS Dirs,         \* the directions: "fwd", "rev"
          Clean,        \* the ones that are not disturbed (clean_reverse)
          Rates,        \* bandwidths; a packet takes Unit \div rate on the link
          Unit,
          Baseline,     \* the configuration given at start
          Script,       \* the scenario: a sequence of commands, repeated for ever
          Commands,     \* what the control port receives
          MaxDelay,     \* bound on simulated delay and reordering
          MaxLag,       \* bound on the time between two readings of the clock in process
          QueueCap,     \* queue_cap
          MaxDrain      \* bound on the backlog: a longer one is not fed

Disturbances == {"loss", "dup", "delay", "reorder"}
Stored == [was : BOOLEAN, now : BOOLEAN, before : Rates \cup {0}, after : Rates \cup {0}]
Config == [on : BOOLEAN, min : Rates \cup {0}, max : Rates \cup {0}, mix : SUBSET Disturbances]
Fields == <<"was", "now", "before", "after">>
\* What apply_command understands.
Understood == ({"bw", "bw-min", "bw-max", "stall"} \X (Rates \cup {0}))
              \cup ({"mix"} \X SUBSET Disturbances)
              \cup {<<"wave off">>, <<"stall off">>, <<"reset">>}

ASSUME EmulatorAssumption ==
    /\ Rates \subseteq Nat \ {0} /\ 1 \in Rates /\ Unit \in Nat
    /\ \E r \in Rates : \A s \in Rates : s <= r
    /\ Baseline \in Config
    /\ Commands \subseteq Understood /\ Script \in Seq(Understood)
    /\ Dirs \subseteq {"fwd", "rev"} /\ Dirs # {} /\ Clean \subseteq Dirs
    /\ MaxDelay \in Nat /\ MaxLag \in Nat /\ QueueCap \in Nat /\ MaxDrain \in Nat

VARIABLES
    cfg,                \* cfg_
    stored, flag,       \* bwWasEnabled_ ... bwAfter_; rescaleFwd_, rescaleRev_
    mark,               \* markBwChanged under cfgMutex_: the stores it has left
    applied,            \* per direction: the last reschedule used what is stored
    stall, polled,      \* stall_; applyStallSchedule has seen stall_.active
    scen,               \* scenarioLoop: the position in Script
    recv,               \* the receiving thread
    queue,              \* PktQueue per direction: dues, in the order of arrival
    drain, bw_drain     \* the end of the link's schedule; of its serialisation

config == <<cfg, stall, scen>>
change == <<stored, flag, mark>>
link == <<queue, drain, bw_drain>>
emulator == <<config, change, applied, polled, recv, link>>

NoChange == [was |-> FALSE, now |-> FALSE, before |-> 1, after |-> 1]
\* Where the receiving thread is: 1 to 4 are the loads of rescaleDirection.
Idle == 0
Apply == 5
Schedule == 6
NoStall == [on |-> FALSE, low |-> 0, normal |-> 0, now |-> FALSE, over |-> TRUE]
Unlocked == mark = <<>>

EmulatorInit ==
    /\ cfg = Baseline
    /\ stored = NoChange /\ flag = [d \in Dirs |-> FALSE] /\ mark = <<>>
    /\ applied = [d \in Dirs |-> TRUE]
    /\ stall = NoStall /\ polled = FALSE
    /\ scen = 0
    /\ recv = [at |-> Idle, dir |-> CHOOSE d \in Dirs : TRUE, got |-> NoChange]
    /\ queue = [d \in Dirs |-> <<>>]
    /\ drain = [d \in Dirs |-> 0] /\ bw_drain = [d \in Dirs |-> 0]

-----------------------------------------------------------------------------
(* Configuration. *)

\* Engine::bandwidth: some rate of the wave, between min and max.
Bandwidth(c) == IF c.min = c.max THEN {c.min} ELSE {r \in Rates : c.min <= r /\ r <= c.max}

\* The rate after a stall of a link that had none (4 Mbit/s).
DefaultRate == CHOOSE r \in Rates : \A s \in Rates : s <= r

\* A schedule of stalls down to low; one that is under way is forgotten.
Stall(low) ==
    <<[cfg EXCEPT !.on = TRUE],
      [on |-> TRUE, low |-> low, normal |-> IF cfg.max > 0 THEN cfg.max ELSE DefaultRate,
       now |-> FALSE, over |-> FALSE],
      TRUE>>
StallOff ==
    IF stall.now
    THEN <<[cfg EXCEPT !.on = TRUE, !.min = stall.normal, !.max = stall.normal], NoStall, TRUE>>
    ELSE <<cfg, NoStall, FALSE>>

\* What apply_command makes of the configuration and the stall schedule:
\* <<cfg, stall, the bandwidth was touched>>.
Commanded(c) ==
    CASE c[1] = "bw" -> <<[cfg EXCEPT !.on = c[2] > 0,
                                      !.min = IF c[2] > 0 THEN c[2] ELSE @,
                                      !.max = IF c[2] > 0 THEN c[2] ELSE @], stall, TRUE>>
      [] c[1] = "bw-min" -> <<[cfg EXCEPT !.on = TRUE, !.min = c[2]], stall, TRUE>>
      [] c[1] = "bw-max" -> <<[cfg EXCEPT !.on = TRUE, !.max = c[2]], stall, TRUE>>
      [] c[1] = "wave off" -> <<[cfg EXCEPT !.on = FALSE], stall, TRUE>>
      [] c[1] = "mix" -> <<[cfg EXCEPT !.mix = c[2]], stall, FALSE>>
      [] c[1] = "stall" -> Stall(c[2])
      [] c[1] = "stall off" -> StallOff
      [] c[1] = "reset" -> <<[cfg EXCEPT !.on = FALSE, !.mix = @ \cap {"reorder"}], stall, TRUE>>

\* The stores of markBwChanged, in order, for a change from rate b (0 for none).
Stores(b, new, a) ==
    <<<<"was", b > 0>>, <<"now", new.on>>, <<"before", IF b > 0 THEN b ELSE 1>>,
      <<"after", IF new.on THEN a ELSE 1>>>>
    \o SetToSeq({<<d, TRUE>> : d \in Dirs})

\* A critical section of cfgMutex_ that leaves the configuration new.
Reconfigure(new, touched) ==
    /\ Unlocked
    /\ cfg' = new
    /\ \E b \in (IF cfg.on THEN Bandwidth(cfg) ELSE {0}), a \in (IF new.on THEN Bandwidth(new) ELSE {0}) :
           mark' = IF touched THEN Stores(b, new, a) ELSE <<>>

\* One store of markBwChanged; the mutex is free after the last one.
markBwChanged ==
    /\ mark # <<>> /\ mark' = Tail(mark)
    /\ LET f == Head(mark)[1]
           v == Head(mark)[2]
       IN  IF f \in Dirs
           THEN flag' = [flag EXCEPT ![f] = v] /\ UNCHANGED <<stored, applied>>
           ELSE /\ stored' = [stored EXCEPT ![f] = v] /\ UNCHANGED flag
                /\ applied' = [d \in Dirs |-> applied[d] /\ stored[f] = v]
    /\ UNCHANGED <<config, polled, recv, link>>

apply_command(c) ==
    /\ Reconfigure(Commanded(c)[1], Commanded(c)[3])
    /\ stall' = Commanded(c)[2]
    /\ UNCHANGED <<stored, flag, applied, recv, link>>

\* The control thread between two looks at the stall schedule.
control_command ==
    /\ ~polled
    /\ \E c \in Commands : apply_command(c)
    /\ UNCHANGED <<scen, polled>>

\* scenarioLoop: the baseline comes back before the first command, the steps'
\* commands follow; how long a step lasts is left open.
scenarioLoop ==
    /\ Script # <<>>
    /\ scen' = (scen + 1) % (Len(Script) + 1)
    /\ IF scen = 0
       THEN /\ Reconfigure(Baseline, TRUE)
            /\ UNCHANGED <<stall, stored, flag, applied, recv, link>>
       ELSE apply_command(Script[scen])
    /\ UNCHANGED polled

-----------------------------------------------------------------------------
(* The stall schedule, looked at by the control thread. *)

\* next_start or restore_at is reached.
StallTimer ==
    /\ stall.on /\ ~stall.over
    /\ stall' = [stall EXCEPT !.over = TRUE]
    /\ UNCHANGED <<cfg, scen, change, applied, polled, recv, link>>

\* applyStallSchedule reads stall_.active before it takes the mutex ...
stall_active ==
    /\ ~polled /\ stall.on
    /\ polled' = TRUE
    /\ UNCHANGED <<config, change, applied, recv, link>>

\* Mutant: the rate is not restored before the next stall would begin.
applyStallSchedule_start ==
    /\ polled /\ polled' = FALSE /\ Unlocked
    /\ IF ~stall.over \/ stall.now
       THEN UNCHANGED <<cfg, stall, mark>>
       ELSE /\ stall' = [stall EXCEPT !.now = TRUE, !.over = FALSE]
            /\ Reconfigure([cfg EXCEPT !.on = TRUE, !.min = stall.low, !.max = stall.low], TRUE)
    /\ UNCHANGED <<scen, stored, flag, applied, recv, link>>

\* ... and under it ends the stall that is over or begins the next one.
applyStallSchedule ==
    /\ polled /\ polled' = FALSE /\ Unlocked
    /\ IF ~stall.over
       THEN UNCHANGED <<cfg, stall, mark>>
       ELSE /\ stall' = [stall EXCEPT !.now = ~@, !.over = FALSE]
            /\ LET rate == IF stall.now THEN stall.normal ELSE stall.low
               IN  Reconfigure([cfg EXCEPT !.on = TRUE, !.min = rate, !.max = rate], TRUE)
    /\ UNCHANGED <<scen, stored, flag, applied, recv, link>>

-----------------------------------------------------------------------------
(* The receiving thread: recvLoop and process. *)

\* A datagram arrives; a flag that is set is cleared before anything is read.
recvfrom(d) ==
    /\ recv.at = Idle
    /\ drain[d] < MaxDrain /\ bw_drain[d] < MaxDrain
    /\ \A i \in DOMAIN queue[d] : queue[d][i] <= MaxDrain
    /\ recv' = [recv EXCEPT !.at = IF flag[d] THEN 1 ELSE Schedule, !.dir = d]
    /\ flag' = [flag EXCEPT ![d] = FALSE]
    /\ UNCHANGED <<config, stored, mark, applied, polled, link>>

\* rescaleDirection loads the four atomics one after the other.
rescale_load ==
    /\ recv.at \in 1..4
    /\ recv' = [recv EXCEPT !.at = @ + 1, !.got[Fields[recv.at]] = stored[Fields[recv.at]]]
    /\ UNCHANGED <<config, change, applied, polled, link>>

\* PktQueue::rescale, and the same for a pointer.
Scaled(t, g) == (t * g.before) \div g.after

\* Both sides of the change had a limit, and a rate.
Limited(g) == g.was /\ g.now /\ g.before > 0 /\ g.after > 0

\* PktQueue::rescale and rebase: what is ahead of now is scaled, or due now when there
\* is nothing to scale by; what is due stays so.
Rescheduled(t, g) == IF t <= 0 THEN t ELSE IF Limited(g) THEN Scaled(t, g) ELSE 0

\* The same of a pointer; one of the past becomes now when there is nothing to scale by.
Pointer(t, g) == IF Limited(g) THEN Rescheduled(t, g) ELSE 0

\* Mutant: the flag falls when the reschedule is done.
rescaleDirection_late ==
    LET d == recv.dir  g == recv.got IN
    /\ recv.at = Apply
    /\ recv' = [recv EXCEPT !.at = Schedule, !.got = NoChange]
    /\ applied' = [applied EXCEPT ![d] = (g = stored)]
    /\ queue' = [queue EXCEPT ![d] = [i \in DOMAIN @ |-> Rescheduled(@[i], g)]]
    /\ drain' = [drain EXCEPT ![d] = Pointer(@, g)]
    /\ bw_drain' = [bw_drain EXCEPT ![d] = Pointer(@, g)]
    /\ flag' = [flag EXCEPT ![d] = FALSE]
    /\ UNCHANGED <<config, stored, mark, polled>>

\* The backlog is rescaled from the old rate to the new one.
rescaleDirection ==
    LET d == recv.dir  g == recv.got IN
    /\ recv.at = Apply
    /\ recv' = [recv EXCEPT !.at = Schedule, !.got = NoChange]
    /\ applied' = [applied EXCEPT ![d] = (g = stored)]
    /\ queue' = [queue EXCEPT ![d] = [i \in DOMAIN @ |-> Rescheduled(@[i], g)]]
    /\ drain' = [drain EXCEPT ![d] = Pointer(@, g)]
    /\ bw_drain' = [bw_drain EXCEPT ![d] = Pointer(@, g)]
    /\ UNCHANGED <<config, change, polled>>

\* What a disturbance adds to a packet's time.
Chosen(kind, d) == IF kind \in cfg.mix /\ d \notin Clean THEN 0..MaxDelay ELSE {0}

LaterOf(a, b) == IF a > b THEN a ELSE b

\* loss, block and report-drop: the datagram ends here.
process_drop ==
    /\ recv.at = Schedule /\ Unlocked
    /\ "loss" \in cfg.mix /\ recv.dir \notin Clean
    /\ recv' = [recv EXCEPT !.at = Idle]
    /\ UNCHANGED <<config, change, applied, polled, link>>

\* Mutant: a datagram that a full queue refuses leaves the link's pointer where it was.
process_refused ==
    LET d == recv.dir
        disturb == d \notin Clean
    IN
    /\ recv.at = Schedule /\ Unlocked
    /\ recv' = [recv EXCEPT !.at = Idle]
    /\ \E delay \in Chosen("delay", d), lag \in 0..MaxLag, late \in Chosen("reorder", d),
          rate \in Bandwidth(cfg), copies \in (IF disturb /\ "dup" \in cfg.mix THEN 1..2 ELSE {1}) :
           LET time == Unit \div rate
               begin == IF disturb /\ cfg.on THEN LaterOf(delay - lag, drain[d]) + time ELSE delay - lag
               room == QueueCap - Len(queue[d])
               taken == IF copies <= room THEN copies ELSE room
           IN  /\ IF disturb /\ cfg.on
                  THEN /\ drain' = [drain EXCEPT ![d] = IF taken > 0 THEN LaterOf(delay - lag, @) + time ELSE @]
                       /\ bw_drain' = [bw_drain EXCEPT ![d] = @ + time]
                  ELSE UNCHANGED <<drain, bw_drain>>
               /\ queue' = [queue EXCEPT ![d] = @ \o [i \in 1..taken |-> begin + late]]
    /\ UNCHANGED <<config, change, applied, polled>>

\* The rest of process on a copy of the configuration: delay, serialisation,
\* reordering and duplication; a full queue refuses a copy, and the pointers have moved
\* all the same. The clock is read for due and, lag later, for bw_drain; what process
\* reads in between is its own.
process ==
    LET d == recv.dir
        disturb == d \notin Clean
    IN
    /\ recv.at = Schedule /\ Unlocked
    /\ recv' = [recv EXCEPT !.at = Idle]
    /\ \E delay \in Chosen("delay", d), lag \in 0..MaxLag, late \in Chosen("reorder", d),
          rate \in Bandwidth(cfg), copies \in (IF disturb /\ "dup" \in cfg.mix THEN 1..2 ELSE {1}) :
           LET time == Unit \div rate
               begin == IF disturb /\ cfg.on THEN LaterOf(delay - lag, drain[d]) + time ELSE delay - lag
               room == QueueCap - Len(queue[d])
               taken == IF copies <= room THEN copies ELSE room
           IN  /\ IF disturb /\ cfg.on
                  THEN /\ drain' = [drain EXCEPT ![d] = LaterOf(delay - lag, @) + time]
                       /\ bw_drain' = [bw_drain EXCEPT ![d] = @ + time]
                  ELSE UNCHANGED <<drain, bw_drain>>
               /\ queue' = [queue EXCEPT ![d] = @ \o [i \in 1..taken |-> begin + late]]
    /\ UNCHANGED <<config, change, applied, polled>>

-----------------------------------------------------------------------------
(* The senders and time. *)

Overdue(d) == \E i \in DOMAIN queue[d] : queue[d][i] <= 0

\* pop_or_wait gives the packet that is due first; of equal dues the heap gives any.
senderLoop(d) ==
    /\ \E i \in DOMAIN queue[d] :
           /\ queue[d][i] <= 0 /\ \A j \in DOMAIN queue[d] : queue[d][i] <= queue[d][j]
           /\ queue' = [queue EXCEPT ![d] = RemoveAt(@, i)]
    /\ UNCHANGED <<config, change, applied, polled, recv, drain, bw_drain>>

Earlier(t, first) == IF t > first THEN t - 1 ELSE first

\* A unit of time; the senders are faster than that.
Tick ==
    /\ \A d \in Dirs : ~Overdue(d)
    /\ \E d \in Dirs : queue[d] # <<>> \/ drain[d] > -MaxLag \/ bw_drain[d] > 0
    /\ queue' = [d \in Dirs |-> [i \in DOMAIN queue[d] |-> queue[d][i] - 1]]
    /\ drain' = [d \in Dirs |-> Earlier(drain[d], -MaxLag)]
    /\ bw_drain' = [d \in Dirs |-> Earlier(bw_drain[d], 0)]
    /\ UNCHANGED <<config, change, applied, polled, recv>>

Receiver == (\E d \in Dirs : recvfrom(d)) \/ rescale_load \/ rescaleDirection \/ process_drop \/ process
StallPoll == stall_active \/ applyStallSchedule

EmulatorNext ==
    \/ Receiver \/ \E d \in Dirs : senderLoop(d)
    \/ StallPoll \/ StallTimer \/ control_command \/ scenarioLoop \/ markBwChanged
    \/ Tick

\* Time passes, a holder of a mutex releases it, and the control thread gets
\* the mutex in spite of the others, which hold it for microseconds.
Fairness ==
    /\ WF_emulator(markBwChanged) /\ WF_emulator(StallTimer)
    /\ WF_emulator(stall_active) /\ SF_emulator(applyStallSchedule)

EmulatorSpec == EmulatorInit /\ [][EmulatorNext]_emulator /\ Fairness

-----------------------------------------------------------------------------

\* The latest change of bandwidth is not missed: a direction whose flag is down, and that
\* is not in a reschedule, has used what that change stored, although it is stored and
\* loaded piece by piece without a lock. (Of two changes between two datagrams the
\* earlier one is never used.)
NoChangeIsMissed ==
    \A d \in Dirs :
        (Unlocked /\ ~flag[d] /\ ~(recv.dir = d /\ recv.at \in 1..Apply)) => applied[d]

\* The backlog a CE mark is judged by is ahead of the link's real schedule because
\* process reads the clock twice. These leads do not add up, whatever delays and refused
\* packets there were: unless the backlog is rescheduled, the lead does not grow beyond
\* one pause between two readings.
LeadsDoNotAddUp ==
    [][recv.at # Apply \/ recv'.at = Apply =>
          \A d \in Dirs : bw_drain'[d] - drain'[d] <= LaterOf(MaxLag, bw_drain[d] - drain[d])]_emulator

\* A stall ends, whoever reconfigures the link meanwhile: stalled_now falls. What rate
\* the link has afterwards is another question (StallGivesBack).
StallEnds == stall.now ~> ~stall.now

\* Deviation: the backlog a CE mark is judged by is never ahead of the link's schedule.
BacklogIsBandwidth == \A d \in Dirs : bw_drain[d] <= drain[d]

\* Deviation: as long as the schedule is ahead of now, some packet is queued.
LinkIsBusy == \A d \in Dirs : (drain[d] > 0 /\ recv.at = Idle) => queue[d] # <<>>

\* Deviation: without reordering a direction delivers in the order of arrival.
OrderKept ==
    [][\A d \in Dirs : Len(queue'[d]) < Len(queue[d]) => queue'[d] = Tail(queue[d])]_emulator

\* Deviation: a limited link has a positive rate.
RateIsPositive == cfg.on => cfg.min > 0 /\ cfg.max > 0

\* Deviation: during a stall the rate to restore stays the one before it.
StallGivesBack == [][stall.now => stall'.normal = stall.normal \/ ~stall'.on]_emulator
=============================================================================
