------------------------------ MODULE TightPacer ------------------------------
(***************************************************************************)
(* The pacing of one tight endpoint: the bandwidth estimator that the       *)
(* peer's reports drive, the token bucket with its loan for video, the       *)
(* evacuation window that follows a deep cut of the rate, and the two         *)
(* senders that spend the tokens (the 10 ms heartbeat of sender_loop or, in    *)
(* lite mode, the reactor's drain_sender).                                      *)
(*                                                                            *)
(* Four threads meet here: the sender, the receiver (handle_report and then   *)
(* notify_video_capacity), the application's poll of video_capacity_bps, and   *)
(* the application's send.  They share atomics and, for m_evac_processed_cong,  *)
(* a plain field; an evacuation is therefore two steps, the test that there is   *)
(* a new cut and the work on it.                                                *)
(*                                                                            *)
(* Rates and tokens are small integers: one packet costs one token, one       *)
(* heartbeat brings btl of them, the loan is LoanBeats heartbeats.  A report    *)
(* is what its ratios are to the thresholds: late is -1 (below the recovery      *)
(* thresholds), 0 (between) or the congestion tier 1..4, ce is 0 or a tier.       *)
(* The mode is chosen at the start; set_lite_mode at run time is not modelled.     *)
(***************************************************************************)
EXTENDS Integers, Sequences, FiniteSetsExt

CONSTANTS Seed,          \* the configured rate m_btl_seed
          MinBtl,        \* kMinBtlBps
          Probes,        \* what the probe of the handshake may measure
          Tiers,         \* the congestion tiers that reports show
          Bucket,        \* token_bucket_cap
          LoanBeats,     \* loan_seconds in heartbeats
          MaxQueue,      \* bound on the outbound queue
          Depth,         \* the backlog that counts as local pacing (32 packets)
          MaxDebt,       \* bound on the debt in lite mode, which nothing in the code limits
          LiteModes      \* the values of lite_mode that are considered

ASSUME PacerAssumption ==
    /\ Seed \in Nat /\ MinBtl \in 1..Seed /\ Probes \subseteq Nat \ {0}
    /\ Tiers \subseteq 1..4 /\ {Bucket, LoanBeats, MaxQueue, Depth} \subseteq Nat \ {0}
    /\ MaxDebt \in Nat
    /\ LiteModes \subseteq BOOLEAN

VARIABLES
    btl, step,           \* m_btl_bw, m_recover_step
    stall, calibrated,   \* m_report_stall, m_seed_calibrated
    fast,                \* the last deep cut's factor is below kEvacFastMaxFactor
    fresh,               \* now - m_last_congest_at < slowdown_window_ms
    taken,               \* m_evac_processed_cong = m_last_congest_at
    mode,                \* m_evac_mode: 0 none, 1 fast, 2 slow
    keySent,             \* m_evac_keyframe_sent
    freeze, slow,        \* m_evac_freeze_until_ns, m_evac_slow_deadline: "off", "on", "over"
    purge,               \* now < m_drain_until_ms[0]
    reset,               \* m_evac_reset_token
    token, drain,        \* m_token_bucket, m_loan_drain
    reported, limited,   \* m_loan_exhausted_reported, m_pacer_limited
    outq, slot,          \* m_outbound_queue by channel, m_lite_pending
    lite, sender,        \* m_lite_mode; sender_loop is at "beat" or at "send"
    edge,                \* the callers of video_capacity_bps that found a new cut
    notify,              \* handle_report has yet to call notify_video_capacity
    told                 \* the argument of the last loan callback

estimator == <<btl, step, stall, calibrated, fast, fresh>>
window == <<mode, keySent, freeze, slow, purge, reset>>
bucket == <<token, drain, reported, limited, slot, sender, told>>
vars == <<estimator, taken, window, bucket, outq, lite, edge, notify>>

Pollers == {"receiver", "app"}
Timer == {"off", "on", "over"}

Init ==
    /\ btl = Seed /\ step = 0 /\ stall = FALSE /\ calibrated = FALSE
    /\ fast = FALSE /\ fresh = FALSE /\ taken = TRUE
    /\ mode = 0 /\ keySent = FALSE /\ freeze = "off" /\ slow = "off"
    /\ purge = FALSE /\ reset = FALSE
    /\ token = 0 /\ drain = FALSE /\ reported = FALSE /\ limited = FALSE
    /\ outq = <<>> /\ slot = "none" /\ lite \in LiteModes /\ sender = "beat"
    /\ edge = {} /\ notify = FALSE
    /\ told = FALSE

-----------------------------------------------------------------------------
(* The estimator. *)

\* The factor of a tier, in percent: the table shared by late, loss and CE.
Factor(tier) == CASE tier = 1 -> 90 [] tier = 2 -> 75 [] tier = 3 -> 65 [] tier = 4 -> 50

\* The rate after a report whose probe field is measured (0: none): only the
\* first probe result clamps it, to one byte at least and to no other floor.
set_seed_and_clamp(rate, measured) ==
    IF measured = 0 \/ calibrated THEN rate ELSE Min({rate, measured})

\* A report that finds congestion outside a window while the sender outruns
\* the receiver: the rate falls, a deep cut is dated for the window to come.
Slowdown(tier, measured) ==
    /\ btl' = set_seed_and_clamp(Max({(btl * Factor(tier)) \div 100, MinBtl}), measured)
    /\ step' = 0
    /\ IF Factor(tier) <= 80
       THEN fast' = (Factor(tier) < 60) /\ fresh' = TRUE /\ taken' = FALSE
       ELSE UNCHANGED <<fast, fresh, taken>>

\* The recovery steps: two rises by half (FEC probes run in step 1), a pause.
Recover(ceiling, measured) ==
    /\ LET risen == Max({Min({(btl * 3) \div 2, Seed, ceiling}), MinBtl})
       IN btl' = set_seed_and_clamp(IF step = 2 THEN btl ELSE risen, measured)
    /\ step' = (step + 1) % 3
    /\ UNCHANGED <<fast, fresh, taken>>

\* BandwidthEstimator::on_report.  While the sender is limited by its own
\* tokens only CE counts; inside a window the rate neither falls nor rises.
on_report(late, ce, overload, measured, frozen) ==
    LET congested == (~limited /\ late > 0) \/ ce > 0
        tier == IF limited THEN ce ELSE Max({late, ce})
        rises == ~congested /\ ~frozen /\ (limited \/ late = -1)
    IN /\ stall' = FALSE
       /\ calibrated' = (calibrated \/ measured # 0)
       /\ IF congested /\ ~frozen /\ overload THEN Slowdown(tier, measured)
          ELSE IF rises
          THEN \E ceiling \in (IF limited THEN {Seed} ELSE btl..Seed) : Recover(ceiling, measured)
          ELSE /\ btl' = set_seed_and_clamp(btl, measured)
               /\ UNCHANGED <<step, fast, fresh, taken>>

-----------------------------------------------------------------------------
(* The receiver thread and the reactor's timeout check. *)

\* What a report shows: lateness or loss, or CE marks.
Reports == {[late |-> l, ce |-> 0] : l \in {-1, 0} \cup Tiers}
           \cup {[late |-> -1, ce |-> c] : c \in Tiers}

\* Mutant: the confirmed keyframe ends the freeze as well.
Confirmed_unfreeze ==
    IF mode = 1 /\ keySent
    THEN mode' = 0 /\ keySent' = FALSE /\ freeze' = "off"
    ELSE UNCHANGED <<mode, keySent, freeze>>

\* A submitted keyframe ends the fast window at the next report; the freeze
\* of the rate stays until it expires.
Confirmed ==
    /\ IF mode = 1 /\ keySent
       THEN mode' = 0 /\ keySent' = FALSE
       ELSE UNCHANGED <<mode, keySent>>
    /\ UNCHANGED freeze

\* handle_report; the capacity notification follows in the same thread.
handle_report ==
    /\ ~notify
    /\ Confirmed
    /\ LET frozen == (mode' = 2 /\ slow = "on") \/ freeze' = "on"
       IN \E r \in Reports, overload \in BOOLEAN, measured \in {0} \cup Probes :
             on_report(r.late, r.ce, overload, measured, frozen)
    /\ notify' = TRUE
    /\ UNCHANGED <<slow, purge, reset, bucket, outq, lite, edge>>

\* BandwidthEstimator::on_report_timeout: one halving per silence.
on_report_timeout ==
    /\ ~stall /\ stall' = TRUE
    /\ btl' = Max({btl \div 2, MinBtl}) /\ step' = 0
    /\ UNCHANGED <<calibrated, fast, fresh>>

\* check_report_timeouts: every live peer's report is overdue, and no fast
\* evacuation holds the rate.
check_report_timeouts ==
    /\ freeze # "on" /\ on_report_timeout
    /\ UNCHANGED <<taken, window, bucket, outq, lite, edge, notify>>

-----------------------------------------------------------------------------
(* video_capacity_bps, called by the receiver's notify_video_capacity and by   *)
(* the application.                                                            *)

MayPoll(p) == p \notin edge /\ (p = "receiver" => notify)

NewCut == ~taken /\ fresh

\* Mutant: a fast window waits for its keyframe for ever.
poll_mode_waits(p) ==
    /\ MayPoll(p) /\ ~NewCut
    /\ IF mode = 1 /\ freeze = "over" /\ keySent
       THEN freeze' = "off" /\ UNCHANGED <<mode, slow>>
       ELSE IF mode = 2 /\ slow = "over"
       THEN mode' = 0 /\ slow' = "off" /\ UNCHANGED freeze
       ELSE UNCHANGED <<mode, freeze, slow>>
    /\ notify' = (notify /\ p # "receiver")
    /\ UNCHANGED <<estimator, taken, keySent, purge, reset, bucket, outq, lite, edge>>

\* No new cut: an expired fast window without its keyframe ends, an expired
\* slow window ends.
poll_mode(p) ==
    /\ MayPoll(p) /\ ~NewCut
    /\ IF mode = 1 /\ freeze = "over"
       THEN freeze' = "off" /\ mode' = (IF keySent THEN 1 ELSE 0) /\ UNCHANGED slow
       ELSE IF mode = 2 /\ slow = "over"
       THEN mode' = 0 /\ slow' = "off" /\ UNCHANGED freeze
       ELSE UNCHANGED <<mode, freeze, slow>>
    /\ notify' = (notify /\ p # "receiver")
    /\ UNCHANGED <<estimator, taken, keySent, purge, reset, bucket, outq, lite, edge>>

\* The test that there is a cut nobody has worked on: two callers may pass it.
poll_edge(p) ==
    /\ MayPoll(p) /\ NewCut
    /\ edge' = edge \cup {p}
    /\ UNCHANGED <<estimator, taken, window, bucket, outq, lite, notify>>

\* The work: fast empties the outbound queue, drains the video channel, orders the
\* debt's reset, freezes the rate and asks for a keyframe (a callback); slow drains by
\* rate until its deadline.
evacuate(p) ==
    /\ p \in edge
    /\ IF fast
       THEN /\ outq' = <<>> /\ purge' = TRUE /\ reset' = TRUE
            /\ keySent' = FALSE /\ freeze' = "on" /\ mode' = 1
            /\ UNCHANGED slow
       ELSE /\ slow' = "on" /\ mode' = 2
            /\ UNCHANGED <<outq, purge, reset, keySent, freeze>>
    /\ taken' = TRUE
    /\ edge' = edge \ {p}
    /\ notify' = (notify /\ p # "receiver")
    /\ UNCHANGED <<estimator, bucket, lite>>

-----------------------------------------------------------------------------
(* The sender thread. *)

Limit == btl * LoanBeats             \* loan_limit
Refilled == Min({token + btl, Bucket})

\* The start of a heartbeat: refill, the reset that an evacuation ordered, and
\* the mark that the sender is limited by its own tokens.
heartbeat ==
    /\ sender = "beat" /\ ~lite
    /\ IF reset
       THEN token' = 0 /\ drain' = FALSE /\ reported' = FALSE
       ELSE token' = Refilled /\ UNCHANGED <<drain, reported>>
    /\ reset' = FALSE
    /\ limited' = (token' < 0 \/ Len(outq) >= Depth)
    /\ sender' = "send"
    /\ UNCHANGED <<estimator, taken, mode, keySent, freeze, slow, purge,
                   outq, slot, lite, edge, notify, told>>

\* Mutant: a repaid debt leaves the mark that it was reported.
Settled_latched(debt, tl, rep) ==
    IF debt /\ token >= 0
    THEN drain' = FALSE /\ reported' = rep /\ told' = FALSE
    ELSE drain' = debt /\ reported' = rep /\ told' = tl

\* The end of a heartbeat: a repaid debt lifts the drain and tells the application.
Settled(debt, tl, rep) ==
    IF debt /\ token >= 0
    THEN drain' = FALSE /\ reported' = FALSE /\ told' = FALSE
    ELSE drain' = debt /\ reported' = rep /\ told' = tl

\* Mutant: files may borrow too.
Affordable_loan(channel) == token - 1 >= -Limit

\* Video may borrow, file and data may not.
Affordable(channel) == IF channel = "video" THEN token - 1 >= -Limit ELSE token >= 1

Dropped(channel) == channel = "video" /\ (purge \/ drain)

\* A packet that is sent or dropped, and the loop goes on.
send_packet ==
    /\ sender = "send" /\ outq # <<>>
    /\ LET channel == Head(outq)
       IN /\ Dropped(channel) \/ Affordable(channel)
          /\ token' = IF Dropped(channel) THEN token ELSE token - 1
    /\ outq' = Tail(outq)
    /\ UNCHANGED <<estimator, taken, window, drain, reported, limited, slot,
                   lite, sender, edge, notify, told>>

\* A file packet that finds too few tokens has left the queue and is not sent;
\* the heartbeat ends.
send_short ==
    /\ sender = "send" /\ outq # <<>>
    /\ Head(outq) = "file" /\ ~Affordable("file")
    /\ outq' = Tail(outq) /\ limited' = TRUE /\ sender' = "beat"
    /\ Settled(drain, told, reported)
    /\ UNCHANGED <<estimator, taken, window, token, slot, lite, edge, notify>>

\* Video beyond the loan: the queue is emptied, video drains until the debt is
\* repaid, the application is told once.
loan_exhausted ==
    /\ sender = "send" /\ outq # <<>>
    /\ Head(outq) = "video" /\ ~Dropped("video") /\ ~Affordable("video")
    /\ outq' = <<>> /\ sender' = "beat"
    /\ Settled(TRUE, told \/ ~reported, TRUE)
    /\ UNCHANGED <<estimator, taken, window, token, limited, slot, lite, edge, notify>>

send_done ==
    /\ sender = "send" /\ outq = <<>>
    /\ sender' = "beat"
    /\ Settled(drain, told, reported)
    /\ UNCHANGED <<estimator, taken, window, token, limited, slot, outq,
                   lite, edge, notify>>

Sender == heartbeat \/ send_packet \/ send_short \/ loan_exhausted \/ send_done

\* drain_sender, in lite mode: the slot is filled from the queue, and leaves
\* when there are tokens or the application is quiet (app_limited), whatever the debt.
drain_sender_fill ==
    /\ lite /\ slot = "none" /\ outq # <<>>
    /\ slot' = IF Head(outq) = "video" /\ purge THEN "none" ELSE Head(outq)
    /\ outq' = Tail(outq)
    /\ UNCHANGED <<estimator, taken, window, token, drain, reported, limited,
                   lite, sender, edge, notify, told>>

drain_sender ==
    /\ lite /\ slot # "none"
    /\ \E elapsed, quiet \in BOOLEAN :
          LET tokens == IF elapsed THEN Refilled ELSE token
          IN /\ quiet => Len(outq) < Depth    \* at most 8 packets
             /\ IF tokens < 1 /\ ~quiet
                THEN /\ token' = tokens /\ UNCHANGED slot
                     /\ limited' = (limited \/ Len(outq) >= Depth)
                ELSE token' = tokens - 1 /\ slot' = "none" /\ UNCHANGED limited
    /\ token' >= -MaxDebt
    /\ UNCHANGED <<estimator, taken, window, drain, reported, outq,
                   lite, sender, edge, notify, told>>

-----------------------------------------------------------------------------
(* The application and time. *)

send_message(channel) ==
    /\ Len(outq) < MaxQueue
    /\ outq' = Append(outq, channel)
    /\ UNCHANGED <<estimator, taken, window, bucket, lite, edge, notify>>

\* A keyframe, asked for by an evacuation or of the application's own accord:
\* during a fast window it is the one the window waits for, and it holds the rate.
send_keyframe ==
    /\ Len(outq) < MaxQueue
    /\ outq' = Append(outq, "video")
    /\ IF mode = 1
       THEN keySent' = TRUE /\ freeze' = "on"
       ELSE UNCHANGED <<keySent, freeze>>
    /\ UNCHANGED <<estimator, taken, mode, slow, purge, reset, bucket, lite, edge, notify>>

\* The windows last seconds: no clock runs out while a thread is between the
\* test of a cut and the work on it.
Settling == notify \/ edge # {}

\* slowdown_window_ms since the last deep cut.
CutAges ==
    /\ fresh /\ ~Settling
    /\ fresh' = FALSE
    /\ UNCHANGED <<btl, step, stall, calibrated, fast, taken, window, bucket, outq, lite,
                   edge, notify>>

\* The freeze and the slow deadline start with the work on the cut and last at
\* least as long as the window of the cut itself.
Expires ==
    /\ ~fresh /\ ~Settling
    /\ \/ freeze = "on" /\ freeze' = "over" /\ UNCHANGED slow
       \/ slow = "on" /\ slow' = "over" /\ UNCHANGED freeze
    /\ UNCHANGED <<estimator, taken, mode, keySent, purge, reset, bucket,
                   outq, lite, edge, notify>>

PurgeEnds ==
    /\ purge /\ purge' = FALSE
    /\ UNCHANGED <<estimator, taken, mode, keySent, freeze, slow, reset, bucket,
                   outq, lite, edge, notify>>

Next ==
    \/ handle_report \/ check_report_timeouts
    \/ \E p \in Pollers : poll_mode(p) \/ poll_edge(p) \/ evacuate(p)
    \/ Sender
    \/ drain_sender_fill \/ drain_sender
    \/ \E channel \in {"video", "file"} : send_message(channel)
    \/ send_keyframe
    \/ CutAges \/ Expires \/ PurgeEnds

\* The sender's heartbeat never stops, reports keep arriving and each is followed
\* by the capacity notification; clocks run out, however often the moment is not
\* theirs.  The application promises nothing.
Fairness ==
    /\ WF_vars(Sender) /\ WF_vars(handle_report)
    /\ WF_vars(poll_mode("receiver") \/ poll_edge("receiver") \/ evacuate("receiver"))
    /\ WF_vars(evacuate("app"))
    /\ SF_vars(CutAges) /\ SF_vars(Expires)

Spec == Init /\ [][Next]_vars /\ Fairness

-----------------------------------------------------------------------------

\* Types, and what the threads keep between them: the rate stays at or below
\* its seed, the debt never exceeds the largest loan unless the sender is the
\* lite one, video that is drained for debt is known to the application, and an
\* evacuation whose clock was stopped has its keyframe.
PacerInv ==
    /\ btl \in 1..Seed /\ step \in 0..2 /\ mode \in 0..2
    /\ freeze \in Timer /\ slow \in Timer /\ edge \subseteq Pollers
    /\ token <= Bucket /\ (lite \/ token >= -(Seed * LoanBeats))
    /\ sender = "beat" /\ drain => told /\ reported
    /\ mode = 2 => slow # "off"
    /\ mode = 1 /\ freeze = "off" => keySent

\* Two deep cuts are a full window apart: after one, the rate is held by the
\* window or by the lock-in that outlives it, whichever thread opened it.
CutsAreSpaced == [][taken /\ ~taken' => ~fresh]_vars

\* A window ends, or a new cut replaces it, with or without the keyframe
\* that the application was asked for.
EvacEnds == (mode # 0) ~> (mode = 0 \/ ~taken)

\* While video is drained for debt, nothing deepens the debt: each heartbeat
\* pays some of it back, whatever is queued and however the rate moves.
DebtShrinks == [][drain /\ drain' => token' >= Min({token, 0})]_vars

\* Deviation: local pacing passes.  A comment in handle_report says that each
\* report takes the mark and resets it; in lite mode nothing ever does.
LimitedPasses == (lite /\ limited) ~> ~limited

\* Deviation: between heartbeats an application that was told to pause is
\* waiting for a debt; a fast evacuation forgives the debt and does not tell.
PausedForDebt == sender = "beat" /\ told => drain
=============================================================================
