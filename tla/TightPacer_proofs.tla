------------------------- MODULE TightPacer_proofs -------------------------
(***************************************************************************)
(* Proofs about TightPacer, for any rates, loans, queue and probe results: *)
(* what the sender, the receiver and the application's thread keep between *)
(* them, that deep cuts are spaced, and that a debt that drains video only *)
(* shrinks.                                                                *)
(*                                                                         *)
(* The second part is about TightPipeline, the queues before the sender,   *)
(* for any channels, priorities and limits: a message is in one place, and *)
(* messages that nobody had to put back leave in order.                    *)
(***************************************************************************)
EXTENDS TightPacer, TightPipeline, FiniteSetTheorems, TLAPS

\* The values of the fields.
Numbers ==
    /\ btl \in 1 .. Seed /\ step \in 0 .. 2 /\ mode \in 0 .. 2
    /\ freeze \in Timer /\ slow \in Timer /\ edge \subseteq Pollers
    /\ token \in Int /\ token <= Bucket
    /\ lite \/ token >= -(Seed * LoanBeats)

Flags ==
    /\ fresh \in BOOLEAN /\ taken \in BOOLEAN /\ keySent \in BOOLEAN
    /\ drain \in BOOLEAN /\ reported \in BOOLEAN /\ told \in BOOLEAN /\ lite \in BOOLEAN

Types == Numbers /\ Flags

\* Video is drained only for a debt that was reported, and a reported debt is known to the
\* application, at every step of the heartbeat; the lite sender has no loan.
Debt ==
    /\ drain => reported
    /\ reported => told
    /\ lite => ~drain /\ sender = "beat"

\* A window has its clock, or its keyframe; while a cut that was worked on is fresh, its
\* window or its lock-in holds the rate.
Window ==
    /\ mode = 2 => slow # "off"
    /\ mode = 1 /\ freeze = "off" => keySent
    /\ fresh /\ taken => (mode = 2 /\ slow = "on") \/ freeze = "on"

\* The inductive invariant.
IInv == Types /\ Debt /\ Window

\* What CutsAreSpaced and DebtShrinks say of one step.
SpacedStep == taken /\ ~taken' => ~fresh
ShrinkStep == drain /\ drain' => token' >= Min({token, 0})
-----------------------------------------------------------------------------
(* Arithmetic *)

\* The larger of two numbers.
LEMMA MaxOfTwo ==
    ASSUME NEW a \in Int, NEW b \in Int
    PROVE  Max({a, b}) \in {a, b} /\ Max({a, b}) >= a /\ Max({a, b}) >= b
<1>1. \E x \in {a, b} : \A y \in {a, b} : x >= y
  OBVIOUS
<1>2. QED
  BY <1>1 DEF Max

\* The smaller of two numbers.
LEMMA MinOfTwo ==
    ASSUME NEW a \in Int, NEW b \in Int
    PROVE  Min({a, b}) \in {a, b} /\ Min({a, b}) <= a /\ Min({a, b}) <= b
<1>1. \E x \in {a, b} : \A y \in {a, b} : x <= y
  OBVIOUS
<1>2. QED
  BY <1>1 DEF Min

\* The smallest of three numbers.
LEMMA MinOfThree ==
    ASSUME NEW a \in Int, NEW b \in Int, NEW c \in Int
    PROVE  Min({a, b, c}) \in {a, b, c} /\ Min({a, b, c}) <= a /\ Min({a, b, c}) <= b /\ Min({a, b, c}) <= c
<1>1. \E x \in {a, b, c} : \A y \in {a, b, c} : x <= y
  OBVIOUS
<1>2. QED
  BY <1>1 DEF Min

\* The constants as numbers.
LEMMA Constants ==
    /\ Seed \in Nat /\ Seed >= 1 /\ MinBtl \in 1 .. Seed /\ Bucket \in Nat /\ Bucket >= 1
    /\ LoanBeats \in Nat /\ Seed * LoanBeats \in Nat
<1>1. Seed \in Nat /\ MinBtl \in 1 .. Seed /\ Bucket \in Nat /\ Bucket # 0 /\ LoanBeats \in Nat
  BY PacerAssumption
<1>2. QED
  BY <1>1

\* A loan at the rate of the moment is no larger than one at the seed.
LEMMA LoanWithinSeed ==
    ASSUME NEW b \in 1 .. Seed
    PROVE  b * LoanBeats \in Nat /\ b * LoanBeats <= Seed * LoanBeats
<1>1. b \in Nat /\ Seed \in Nat /\ LoanBeats \in Nat /\ b <= Seed
  BY Constants
<1>2. PICK d \in Nat : Seed = b + d
  <2>1. Seed - b \in Nat /\ Seed = b + (Seed - b)
    BY <1>1
  <2>2. QED
    BY <2>1
<1>3. Seed * LoanBeats = b * LoanBeats + d * LoanBeats
  BY <1>1, <1>2
<1>4. b * LoanBeats \in Nat /\ d * LoanBeats \in Nat
  BY <1>1, <1>2
<1>5. QED
  BY <1>3, <1>4
-----------------------------------------------------------------------------
(* The estimator *)

\* The first probe result keeps the rate positive and within the seed.
LEMMA ClampKeepsRate ==
    ASSUME NEW rate \in 1 .. Seed, NEW measured \in {0} \cup Probes
    PROVE  set_seed_and_clamp(rate, measured) \in 1 .. Seed
<1>1. rate \in Int /\ measured \in Int /\ (measured # 0 => measured >= 1)
  BY Constants, PacerAssumption
<1>2. Min({rate, measured}) \in {rate, measured} /\ Min({rate, measured}) <= rate
  BY <1>1, MinOfTwo
<1>3. QED
  BY <1>1, <1>2, Constants DEF set_seed_and_clamp

\* A cut leaves a rate between the floor and the seed.
LEMMA CutKeepsRate ==
    ASSUME NEW b \in 1 .. Seed, NEW tier \in 1 .. 4
    PROVE  Max({(b * Factor(tier)) \div 100, MinBtl}) \in 1 .. Seed
<1>1. b \in Nat /\ Factor(tier) \in {90, 75, 65, 50}
  BY Constants DEF Factor
<1>2. PICK c : c = (b * Factor(tier)) \div 100
  OBVIOUS
<1>3. c \in Int /\ c <= b
  <2>1. CASE Factor(tier) = 90
    BY <1>1, <1>2, <2>1
  <2>2. CASE Factor(tier) = 75
    BY <1>1, <1>2, <2>2
  <2>3. CASE Factor(tier) = 65
    BY <1>1, <1>2, <2>3
  <2>4. CASE Factor(tier) = 50
    BY <1>1, <1>2, <2>4
  <2>5. QED
    BY <1>1, <2>1, <2>2, <2>3, <2>4
<1>4. MinBtl \in Int
  BY Constants
<1>5. Max({c, MinBtl}) \in {c, MinBtl} /\ Max({c, MinBtl}) >= MinBtl
  BY <1>3, <1>4, MaxOfTwo
<1>6. Max({c, MinBtl}) \in 1 .. Seed
  BY <1>3, <1>5, Constants
<1>7. QED
  BY <1>2, <1>6

\* A rise leaves a rate between the floor and the seed.
LEMMA RiseKeepsRate ==
    ASSUME NEW b \in 1 .. Seed, NEW ceiling \in 1 .. Seed
    PROVE  Max({Min({(b * 3) \div 2, Seed, ceiling}), MinBtl}) \in 1 .. Seed
<1>1. PICK c : c = (b * 3) \div 2
  OBVIOUS
<1>2. c \in Int /\ Seed \in Int /\ ceiling \in Int /\ MinBtl \in Int
  BY <1>1, Constants
<1>3. PICK m : m = Min({c, Seed, ceiling})
  OBVIOUS
<1>4. m \in {c, Seed, ceiling} /\ m <= Seed
  BY <1>2, <1>3, MinOfThree
<1>5. m \in Int
  BY <1>2, <1>4
<1>6. Max({m, MinBtl}) \in {m, MinBtl} /\ Max({m, MinBtl}) >= MinBtl
  BY <1>2, <1>5, MaxOfTwo
<1>7. Max({m, MinBtl}) \in 1 .. Seed
  BY <1>4, <1>5, <1>6, Constants
<1>8. QED
  BY <1>1, <1>3, <1>7

\* What a report does to the estimator, and that it cuts only outside a window.
LEMMA ReportStep ==
    ASSUME IInv, NEW r \in Reports, NEW overload \in BOOLEAN, NEW measured \in {0} \cup Probes,
           NEW frozen, on_report(r.late, r.ce, overload, measured, frozen)
    PROVE  /\ btl' \in 1 .. Seed /\ step' \in 0 .. 2
           /\ \/ fresh' = fresh /\ taken' = taken
              \/ fresh' = TRUE /\ taken' = FALSE /\ ~frozen
<1>1. btl \in 1 .. Seed /\ step \in 0 .. 2
  BY DEF IInv, Types, Numbers, Flags
<1>2. /\ r.late \in -1 .. 4 /\ r.ce \in 0 .. 4
      /\ r.late > 0 => r.late \in 1 .. 4
      /\ r.ce > 0 => r.ce \in 1 .. 4
  BY PacerAssumption DEF Reports
<1> DEFINE congested == (~limited /\ r.late > 0) \/ r.ce > 0
           tier == IF limited THEN r.ce ELSE Max({r.late, r.ce})
           rises == ~congested /\ ~frozen /\ (limited \/ r.late = -1)
<1>3. CASE congested /\ ~frozen /\ overload
  <2>1. Slowdown(tier, measured)
    BY <1>3 DEF on_report
  <2>2. tier \in 1 .. 4
    <3>1. CASE limited
      BY <1>2, <1>3, <3>1
    <3>2. CASE ~limited
      <4>1. PICK a \in Int, b \in Int : a = r.late /\ b = r.ce
        BY <1>2
      <4>2. Max({a, b}) \in {a, b} /\ Max({a, b}) >= a /\ Max({a, b}) >= b
        BY MaxOfTwo
      <4>3. tier = Max({a, b})
        BY <3>2, <4>1
      <4>4. (a > 0 \/ b > 0) /\ a <= 4 /\ b <= 4
        BY <1>2, <1>3, <3>2, <4>1
      <4> HIDE DEF tier
      <4>5. QED
        BY <4>2, <4>3, <4>4
    <3>3. QED
      BY <3>1, <3>2
  <2>3. PICK t \in 1 .. 4 : t = tier
    BY <2>2
  <2> HIDE DEF tier
  <2>4. PICK cut : cut = Max({(btl * Factor(t)) \div 100, MinBtl})
    OBVIOUS
  <2>5. cut \in 1 .. Seed
    BY <1>1, <2>4, CutKeepsRate
  <2>6. btl' = set_seed_and_clamp(cut, measured)
    BY <2>1, <2>3, <2>4 DEF Slowdown
  <2>7. btl' \in 1 .. Seed
    BY <2>5, <2>6, ClampKeepsRate
  <2>8. step' = 0 /\ ((fresh' = fresh /\ taken' = taken) \/ (fresh' = TRUE /\ taken' = FALSE))
    BY <2>1 DEF Slowdown
  <2>9. QED
    BY <1>3, <2>7, <2>8
<1>4. CASE ~(congested /\ ~frozen /\ overload) /\ rises
  <2>1. PICK ceiling \in (IF limited THEN {Seed} ELSE btl .. Seed) : Recover(ceiling, measured)
    BY <1>4 DEF on_report
  <2>2. ceiling \in 1 .. Seed
    BY <1>1, <2>1, Constants
  <2>3. PICK risen : risen = Max({Min({(btl * 3) \div 2, Seed, ceiling}), MinBtl})
    OBVIOUS
  <2>4. risen \in 1 .. Seed
    BY <1>1, <2>2, <2>3, RiseKeepsRate
  <2>5. PICK rate : rate = (IF step = 2 THEN btl ELSE risen)
    OBVIOUS
  <2>6. rate \in 1 .. Seed
    BY <1>1, <2>4, <2>5
  <2>7. btl' = set_seed_and_clamp(rate, measured)
    BY <2>1, <2>3, <2>5 DEF Recover
  <2>8. btl' \in 1 .. Seed
    BY <2>6, <2>7, ClampKeepsRate
  <2>9. step' \in 0 .. 2 /\ fresh' = fresh /\ taken' = taken
    BY <1>1, <2>1 DEF Recover
  <2>10. QED
    BY <2>8, <2>9
<1>5. CASE ~(congested /\ ~frozen /\ overload) /\ ~rises
  <2>1. btl' = set_seed_and_clamp(btl, measured) /\ UNCHANGED <<step, fast, fresh, taken>>
    BY <1>5 DEF on_report
  <2>2. PICK rate \in 1 .. Seed : rate = btl
    BY <1>1
  <2>3. set_seed_and_clamp(rate, measured) \in 1 .. Seed
    BY ClampKeepsRate
  <2>4. QED
    BY <1>1, <2>1, <2>2, <2>3
<1>6. QED
  BY <1>3, <1>4, <1>5
-----------------------------------------------------------------------------
(* The steps of the receiver, the reactor and the callers of video_capacity_bps *)

\* handle_report.
LEMMA HandleReportPreserves == IInv /\ handle_report => IInv' /\ SpacedStep /\ ShrinkStep
<1> SUFFICES ASSUME IInv, handle_report PROVE IInv' /\ SpacedStep /\ ShrinkStep
  OBVIOUS
<1>1. PICK frozen \in BOOLEAN : frozen <=> ((mode' = 2 /\ slow = "on") \/ freeze' = "on")
  OBVIOUS
<1>2. PICK r \in Reports, overload \in BOOLEAN, measured \in {0} \cup Probes :
         on_report(r.late, r.ce, overload, measured, (mode' = 2 /\ slow = "on") \/ freeze' = "on")
  BY DEF handle_report
<1>3. on_report(r.late, r.ce, overload, measured, frozen)
  BY <1>1, <1>2 DEF on_report
<1>4. /\ btl' \in 1 .. Seed /\ step' \in 0 .. 2
      /\ \/ fresh' = fresh /\ taken' = taken
         \/ fresh' = TRUE /\ taken' = FALSE /\ ~frozen
  BY <1>3, ReportStep
<1>5. /\ \/ mode = 1 /\ keySent /\ mode' = 0 /\ keySent' = FALSE
         \/ mode' = mode /\ keySent' = keySent
      /\ freeze' = freeze
  BY DEF handle_report, Confirmed
<1>6. UNCHANGED <<slow, token, drain, reported, sender, told, lite, edge>>
  BY DEF handle_report, bucket
<1>7. fresh /\ taken => frozen
  BY <1>1, <1>5, <1>6 DEF IInv, Window, Types, Numbers, Flags
<1>8. Types'
  <2>1. Numbers'
    BY <1>4, <1>5, <1>6 DEF IInv, Types, Numbers, Flags
  <2>2. Flags'
    BY <1>4, <1>5, <1>6 DEF IInv, Types, Numbers, Flags
  <2>3. QED
    BY <2>1, <2>2 DEF Types
<1>9. Debt'
  BY <1>6 DEF IInv, Debt
<1>10. Window'
  BY <1>1, <1>4, <1>5, <1>6 DEF IInv, Window, Types, Numbers, Flags
<1>11. SpacedStep
  BY <1>4, <1>7 DEF SpacedStep, IInv, Types, Numbers, Flags
<1>12. ShrinkStep
  <2>1. token \in Int
    BY Constants DEF IInv, Types, Numbers, Flags
  <2>2. PICK t \in Int : t = token
    BY <2>1
  <2>3. t >= Min({t, 0})
    BY <2>2, MinOfTwo
  <2>4. QED
    BY <1>6, <2>2, <2>3 DEF ShrinkStep
<1>13. QED
  BY <1>8, <1>9, <1>10, <1>11, <1>12 DEF IInv

\* Steps that leave the token bucket and its debt alone.
LEMMA BucketUnchanged ==
    ASSUME IInv, UNCHANGED <<token, drain, reported, sender, told, lite>>
    PROVE  Debt' /\ ShrinkStep
<1>1. PICK t \in Int : t = token
  BY Constants DEF IInv, Types, Numbers, Flags
<1>2. t >= Min({t, 0})
  BY <1>1, MinOfTwo
<1>3. QED
  BY <1>1, <1>2 DEF ShrinkStep, IInv, Debt

\* Steps that leave the cut, its window and its lock-in alone.
LEMMA WindowUnchanged ==
    ASSUME IInv, UNCHANGED <<mode, freeze, slow, keySent, fresh, taken>>
    PROVE  Window' /\ SpacedStep
  BY DEF IInv, Window, SpacedStep, Types, Numbers, Flags

\* check_report_timeouts.
LEMMA TimeoutPreserves == IInv /\ check_report_timeouts => IInv' /\ SpacedStep /\ ShrinkStep
<1> SUFFICES ASSUME IInv, check_report_timeouts PROVE IInv' /\ SpacedStep /\ ShrinkStep
  OBVIOUS
<1>1. /\ UNCHANGED <<mode, freeze, slow, keySent, fresh, taken>>
      /\ UNCHANGED <<token, drain, reported, sender, told, lite>> /\ edge' = edge
      /\ step' = 0 /\ btl' = Max({btl \div 2, MinBtl})
  BY DEF check_report_timeouts, on_report_timeout, window, bucket
<1>2. btl' \in 1 .. Seed
  <2>1. PICK c : c = btl \div 2
    OBVIOUS
  <2>2. c \in Int /\ c <= Seed /\ MinBtl \in Int
    BY <2>1, Constants DEF IInv, Types, Numbers, Flags
  <2>3. Max({c, MinBtl}) \in {c, MinBtl} /\ Max({c, MinBtl}) >= MinBtl
    BY <2>2, MaxOfTwo
  <2>4. QED
    BY <1>1, <2>1, <2>2, <2>3, Constants
<1>3. Types'
  <2>1. Numbers'
    BY <1>1, <1>2 DEF IInv, Types, Numbers, Flags
  <2>2. Flags'
    BY <1>1, <1>2 DEF IInv, Types, Numbers, Flags
  <2>3. QED
    BY <2>1, <2>2 DEF Types
<1>4. QED
  BY <1>1, <1>3, BucketUnchanged, WindowUnchanged DEF IInv

\* video_capacity_bps without a new cut.
LEMMA PollPreserves ==
    ASSUME IInv, NEW p \in Pollers, poll_mode(p)
    PROVE  IInv' /\ SpacedStep /\ ShrinkStep
<1>1. UNCHANGED <<token, drain, reported, sender, told, lite>> /\ UNCHANGED <<btl, step, fresh, taken, keySent, edge>>
  BY DEF poll_mode, bucket, estimator
<1>2. fresh => taken
  BY DEF poll_mode, NewCut, IInv, Types, Numbers, Flags
<1>3. \/ /\ mode = 1 /\ freeze = "over" /\ freeze' = "off" /\ slow' = slow
         /\ mode' = (IF keySent THEN 1 ELSE 0)
      \/ mode = 2 /\ slow = "over" /\ mode' = 0 /\ slow' = "off" /\ freeze' = freeze
      \/ UNCHANGED <<mode, freeze, slow>>
  BY DEF poll_mode
<1>4. Types'
  <2>1. Numbers'
    BY <1>1, <1>3 DEF IInv, Types, Numbers, Flags, Timer
  <2>2. Flags'
    BY <1>1, <1>3 DEF IInv, Types, Numbers, Flags, Timer
  <2>3. QED
    BY <2>1, <2>2 DEF Types
<1>5. Window'
  BY <1>1, <1>2, <1>3 DEF IInv, Window, Types, Numbers, Flags
<1>6. SpacedStep
  BY <1>1 DEF SpacedStep
<1>7. QED
  BY <1>1, <1>4, <1>5, <1>6, BucketUnchanged DEF IInv

\* The test that there is a new cut, and the work on it.
LEMMA EvacuatePreserves ==
    ASSUME IInv, NEW p \in Pollers, poll_edge(p) \/ evacuate(p)
    PROVE  IInv' /\ SpacedStep /\ ShrinkStep
<1>1. UNCHANGED <<token, drain, reported, sender, told, lite>> /\ UNCHANGED <<btl, step, fresh>>
      /\ edge' \subseteq Pollers
  BY DEF poll_edge, evacuate, bucket, estimator, IInv, Types, Numbers, Flags
<1>2. \/ UNCHANGED <<mode, freeze, slow, keySent, taken>>
      \/ keySent' = FALSE /\ freeze' = "on" /\ mode' = 1 /\ slow' = slow /\ taken' = TRUE
      \/ slow' = "on" /\ mode' = 2 /\ keySent' = keySent /\ freeze' = freeze /\ taken' = TRUE
  BY DEF poll_edge, evacuate, window
<1>3. Types'
  <2>1. Numbers'
    BY <1>1, <1>2 DEF IInv, Types, Numbers, Flags, Timer
  <2>2. Flags'
    BY <1>1, <1>2 DEF IInv, Types, Numbers, Flags, Timer
  <2>3. QED
    BY <2>1, <2>2 DEF Types
<1>4. Window'
  BY <1>1, <1>2 DEF IInv, Window
<1>5. SpacedStep
  BY <1>2 DEF SpacedStep
<1>6. QED
  BY <1>1, <1>3, <1>4, <1>5, BucketUnchanged DEF IInv
-----------------------------------------------------------------------------
(* The steps of the sender *)

\* Refilling the bucket stays within its size, and pays a debt back.
LEMMA RefillPays ==
    ASSUME IInv
    PROVE  /\ Refilled \in Int /\ Refilled <= Bucket
           /\ lite \/ Refilled >= -(Seed * LoanBeats)
           /\ Refilled >= Min({token, 0})
<1>1. PICK t \in Int, b \in Int : t = token /\ b = btl
  BY Constants DEF IInv, Types, Numbers, Flags
<1>2. (lite \/ t >= -(Seed * LoanBeats)) /\ t <= Bucket /\ b >= 1 /\ Bucket >= 1 /\ Bucket \in Int
      /\ Seed * LoanBeats \in Nat
  BY <1>1, Constants DEF IInv, Types, Numbers, Flags
<1>3. PICK u \in Int : u = t + b
  BY <1>1
<1>4. Min({u, Bucket}) \in {u, Bucket} /\ Min({u, Bucket}) <= Bucket
  BY <1>2, <1>3, MinOfTwo
<1>5. Min({t, 0}) \in {t, 0} /\ Min({t, 0}) <= t /\ Min({t, 0}) <= 0
  BY MinOfTwo
<1>6. Refilled = Min({u, Bucket})
  BY <1>1, <1>3 DEF Refilled
<1>7. QED
  BY <1>1, <1>2, <1>3, <1>4, <1>5, <1>6

\* heartbeat.
LEMMA HeartbeatPreserves == IInv /\ heartbeat => IInv' /\ SpacedStep /\ ShrinkStep
<1> SUFFICES ASSUME IInv, heartbeat PROVE IInv' /\ SpacedStep /\ ShrinkStep
  OBVIOUS
<1>1. /\ UNCHANGED <<mode, freeze, slow, keySent, fresh, taken>>
      /\ UNCHANGED <<btl, step, edge, told, lite>> /\ ~lite
      /\ \/ token' = 0 /\ drain' = FALSE /\ reported' = FALSE
         \/ token' = Refilled /\ UNCHANGED <<drain, reported>>
  BY DEF heartbeat, estimator
<1>2. 0 \in Int /\ 0 <= Bucket /\ 0 >= -(Seed * LoanBeats)
  BY Constants
<1>3. Types'
  <2>1. Numbers'
    BY <1>1, <1>2, RefillPays DEF IInv, Types, Numbers, Flags
  <2>2. Flags'
    BY <1>1, <1>2, RefillPays DEF IInv, Types, Numbers, Flags
  <2>3. QED
    BY <2>1, <2>2 DEF Types
<1>4. Debt'
  BY <1>1 DEF IInv, Debt
<1>5. ShrinkStep
  BY <1>1, RefillPays DEF ShrinkStep
<1>6. QED
  BY <1>1, <1>3, <1>4, <1>5, WindowUnchanged DEF IInv

\* send_packet spends a token the channel can afford, never while video drains for debt.
LEMMA SendPacketPreserves == IInv /\ send_packet => IInv' /\ SpacedStep /\ ShrinkStep
<1> SUFFICES ASSUME IInv, send_packet PROVE IInv' /\ SpacedStep /\ ShrinkStep
  OBVIOUS
<1>1. /\ UNCHANGED <<mode, freeze, slow, keySent, fresh, taken>>
      /\ UNCHANGED <<btl, step, edge, drain, reported, sender, told, lite>>
  BY DEF send_packet, estimator, window
<1>2. PICK t \in Int, b \in 1 .. Seed : t = token /\ b = btl
  BY Constants DEF IInv, Types, Numbers, Flags
<1>3. (lite \/ t >= -(Seed * LoanBeats)) /\ t <= Bucket /\ Seed * LoanBeats \in Nat /\ Bucket \in Nat
  BY <1>2, Constants DEF IInv, Types, Numbers, Flags
<1>4. b * LoanBeats \in Nat /\ b * LoanBeats <= Seed * LoanBeats
  BY LoanWithinSeed
<1>5. \/ token' = t
      \/ /\ token' = t - 1
         /\ t - 1 >= -(b * LoanBeats) \/ t >= 1
         /\ drain => t >= 1
  BY <1>2 DEF send_packet, Dropped, Affordable, Limit
<1>6. token' \in Int /\ token' <= Bucket /\ (lite \/ token' >= -(Seed * LoanBeats))
  BY <1>2, <1>3, <1>4, <1>5
<1>7. Types'
  <2>1. Numbers'
    BY <1>1, <1>6 DEF IInv, Types, Numbers, Flags
  <2>2. Flags'
    BY <1>1, <1>6 DEF IInv, Types, Numbers, Flags
  <2>3. QED
    BY <2>1, <2>2 DEF Types
<1>8. Min({t, 0}) \in {t, 0} /\ Min({t, 0}) <= t /\ Min({t, 0}) <= 0
  BY MinOfTwo
<1>9. ShrinkStep
  BY <1>2, <1>5, <1>8 DEF ShrinkStep
<1>10. Debt'
  BY <1>1 DEF IInv, Debt
<1>11. QED
  BY <1>1, <1>7, <1>9, <1>10, WindowUnchanged DEF IInv

\* The ends of a heartbeat.
LEMMA BeatEndPreserves ==
    IInv /\ (send_short \/ loan_exhausted \/ send_done) => IInv' /\ SpacedStep /\ ShrinkStep
<1> SUFFICES ASSUME IInv, send_short \/ loan_exhausted \/ send_done
             PROVE  IInv' /\ SpacedStep /\ ShrinkStep
  OBVIOUS
<1>1. /\ UNCHANGED <<mode, freeze, slow, keySent, fresh, taken>>
      /\ UNCHANGED <<btl, step, edge, token, lite>> /\ sender = "send" /\ sender' = "beat"
  BY DEF send_short, loan_exhausted, send_done, estimator, window
<1>2. \/ drain' = FALSE /\ reported' = FALSE /\ told' = FALSE
      \/ drain' = drain /\ reported' = reported /\ told' = told
      \/ drain' = TRUE /\ reported' = TRUE /\ told' = (told \/ ~reported)
  BY DEF send_short, loan_exhausted, send_done, Settled
<1>3. ~lite
  BY <1>1 DEF IInv, Debt
<1>4. Types'
  <2>1. Numbers'
    BY <1>1, <1>2 DEF IInv, Types, Numbers, Flags
  <2>2. Flags'
    BY <1>1, <1>2 DEF IInv, Types, Numbers, Flags
  <2>3. QED
    BY <2>1, <2>2 DEF Types
<1>5. Debt'
  <2>1. (told \/ ~reported) = TRUE
    BY DEF IInv, Debt
  <2>2. (drain' => reported') /\ (reported' => told')
    <3>1. CASE drain' = FALSE /\ reported' = FALSE /\ told' = FALSE
      BY <3>1
    <3>2. CASE drain' = drain /\ reported' = reported /\ told' = told
      BY <3>2 DEF IInv, Debt
    <3>3. CASE drain' = TRUE /\ reported' = TRUE /\ told' = (told \/ ~reported)
      BY <3>3, <2>1
    <3>4. QED
      BY <1>2, <3>1, <3>2, <3>3
  <2>3. QED
    BY <1>1, <1>3, <2>2 DEF Debt
<1>6. ShrinkStep
  <2>1. PICK t \in Int : t = token
    BY Constants DEF IInv, Types, Numbers, Flags
  <2>2. t >= Min({t, 0})
    BY MinOfTwo
  <2>3. QED
    BY <1>1, <2>1, <2>2 DEF ShrinkStep
<1>7. QED
  BY <1>1, <1>4, <1>5, <1>6, WindowUnchanged DEF IInv

\* drain_sender, which knows no loan.
LEMMA LitePreserves ==
    IInv /\ (drain_sender_fill \/ drain_sender) => IInv' /\ SpacedStep /\ ShrinkStep
<1> SUFFICES ASSUME IInv, drain_sender_fill \/ drain_sender
             PROVE  IInv' /\ SpacedStep /\ ShrinkStep
  OBVIOUS
<1>1. /\ UNCHANGED <<mode, freeze, slow, keySent, fresh, taken>> /\ lite
      /\ UNCHANGED <<btl, step, edge, drain, reported, sender, told, lite>>
  BY DEF drain_sender_fill, drain_sender, estimator, window
<1>2. ~drain /\ ShrinkStep
  BY <1>1 DEF IInv, Debt, ShrinkStep
<1>3. PICK t \in Int, b \in 1 .. Seed : t = token /\ b = btl
  BY Constants DEF IInv, Types, Numbers, Flags
<1>4. t <= Bucket /\ Bucket \in Nat
  BY <1>3, Constants DEF IInv, Types, Numbers, Flags
<1>6. PICK u \in Int : u = Refilled /\ u <= Bucket
  BY RefillPays, Constants
<1>7. token' \in {t, u, t - 1, u - 1}
  BY <1>3, <1>6 DEF drain_sender_fill, drain_sender
<1>8. token' \in Int /\ token' <= Bucket
  BY <1>3, <1>4, <1>6, <1>7
<1>9. Types'
  <2>1. Numbers'
    BY <1>1, <1>8 DEF IInv, Types, Numbers, Flags
  <2>2. Flags'
    BY <1>1, <1>8 DEF IInv, Types, Numbers, Flags
  <2>3. QED
    BY <2>1, <2>2 DEF Types
<1>10. Debt'
  BY <1>1 DEF IInv, Debt
<1>11. QED
  BY <1>1, <1>2, <1>9, <1>10, WindowUnchanged DEF IInv
-----------------------------------------------------------------------------
(* The steps of the application and of time *)

\* The application sends, clocks run out.
LEMMA EnvironmentPreserves ==
    ASSUME IInv, \/ \E channel \in {"video", "file"} : send_message(channel)
                 \/ send_keyframe \/ CutAges \/ Expires \/ PurgeEnds
    PROVE  IInv' /\ SpacedStep /\ ShrinkStep
<1>1. /\ UNCHANGED <<token, drain, reported, sender, told, lite>>
      /\ UNCHANGED <<btl, step, edge, mode, taken>>
  BY DEF send_message, send_keyframe, CutAges, Expires, PurgeEnds, bucket, window, estimator
<1>2. \/ UNCHANGED <<freeze, slow, keySent, fresh>>
      \/ mode = 1 /\ keySent' = TRUE /\ freeze' = "on" /\ UNCHANGED <<slow, fresh>>
      \/ fresh' = FALSE /\ UNCHANGED <<freeze, slow, keySent>>
      \/ ~fresh /\ freeze = "on" /\ freeze' = "over" /\ UNCHANGED <<slow, keySent, fresh>>
      \/ ~fresh /\ slow = "on" /\ slow' = "over" /\ UNCHANGED <<freeze, keySent, fresh>>
  BY DEF send_message, send_keyframe, CutAges, Expires, PurgeEnds, window, estimator
<1>3. Types'
  <2>1. Numbers'
    BY <1>1, <1>2 DEF IInv, Types, Numbers, Flags, Timer
  <2>2. Flags'
    BY <1>1, <1>2 DEF IInv, Types, Numbers, Flags, Timer
  <2>3. QED
    BY <2>1, <2>2 DEF Types
<1>4. Window'
  BY <1>1, <1>2 DEF IInv, Window, Types, Numbers, Flags
<1>5. SpacedStep
  BY <1>1 DEF SpacedStep
<1>6. QED
  BY <1>1, <1>3, <1>4, <1>5, BucketUnchanged DEF IInv
-----------------------------------------------------------------------------
(* Theorems *)

\* The endpoint starts at its seed, without debt and outside a window.
LEMMA InitEstablishes == Init => IInv
<1> SUFFICES ASSUME Init PROVE IInv
  OBVIOUS
<1>1. btl \in 1 .. Seed /\ step \in 0 .. 2 /\ mode \in 0 .. 2
      /\ token \in Int /\ token <= Bucket /\ token >= -(Seed * LoanBeats)
  BY Constants DEF Init
<1>2. Types
  BY <1>1, PacerAssumption DEF Init, Types, Numbers, Flags, Timer
<1>3. Debt /\ Window
  BY DEF Init, Debt, Window
<1>4. QED
  BY <1>2, <1>3 DEF IInv

\* Every step keeps the invariant and does what the two action properties say.
LEMMA NextPreserves == IInv /\ [Next]_vars => IInv' /\ ((SpacedStep /\ ShrinkStep) \/ UNCHANGED vars)
<1> SUFFICES ASSUME IInv, [Next]_vars PROVE IInv' /\ ((SpacedStep /\ ShrinkStep) \/ UNCHANGED vars)
  OBVIOUS
<1>1. CASE handle_report
  BY <1>1, HandleReportPreserves
<1>2. CASE check_report_timeouts
  BY <1>2, TimeoutPreserves
<1>3. ASSUME NEW p \in Pollers, poll_mode(p) PROVE IInv' /\ SpacedStep /\ ShrinkStep
  BY <1>3, PollPreserves
<1>4. ASSUME NEW p \in Pollers, poll_edge(p) \/ evacuate(p) PROVE IInv' /\ SpacedStep /\ ShrinkStep
  BY <1>4, EvacuatePreserves
<1>5. CASE Sender
  BY <1>5, HeartbeatPreserves, SendPacketPreserves, BeatEndPreserves DEF Sender
<1>6. CASE drain_sender_fill \/ drain_sender
  BY <1>6, LitePreserves
<1>7. CASE \/ \E channel \in {"video", "file"} : send_message(channel)
           \/ send_keyframe \/ CutAges \/ Expires \/ PurgeEnds
  BY <1>7, EnvironmentPreserves
<1>8. CASE UNCHANGED vars
  BY <1>8 DEF vars, estimator, window, bucket, IInv, Types, Numbers, Flags, Debt, Window
<1>9. QED
  BY <1>1, <1>2, <1>3, <1>4, <1>5, <1>6, <1>7, <1>8 DEF Next

\* The inductive invariant holds throughout.
LEMMA Inductive == Spec => []IInv
<1>1. Init => IInv
  BY InitEstablishes
<1>2. IInv /\ [Next]_vars => IInv'
  BY NextPreserves
<1>3. QED
  BY <1>1, <1>2, PTL DEF Spec

\* The rate stays between one and its seed, the debt within the largest loan (except that of
\* the lite sender, which knows no loan), drained video is known to the application, and a
\* window has its clock or its keyframe: for any rates, loans and probe results, and every
\* interleaving of the four threads.
THEOREM PacerKeeps == Spec => []PacerInv
<1>1. IInv => PacerInv
  BY DEF IInv, Types, Numbers, Flags, Debt, Window, PacerInv
<1>2. QED
  BY <1>1, Inductive, PTL

\* Two deep cuts are a full window apart, whichever thread opened the window.
THEOREM DeepCutsSpaced == Spec => CutsAreSpaced
<1>1. IInv /\ [Next]_vars => [SpacedStep]_vars
  BY NextPreserves
<1>2. QED
  BY <1>1, Inductive, PTL DEF Spec, CutsAreSpaced, SpacedStep

\* A debt that drains video never deepens, however the rate moves meanwhile.
THEOREM DebtOnlyShrinks == Spec => DebtShrinks
<1>1. IInv /\ [Next]_vars => [ShrinkStep]_vars
  BY NextPreserves
<1>2. QED
  BY <1>1, Inductive, PTL DEF Spec, DebtShrinks, ShrinkStep
-----------------------------------------------------------------------------
(* The queues before the sender (TightPipeline) *)

\* The places of a message, from the furthest on its way: encoded, the encode queue,
\* what the reactor has swapped out, the two send queues; and the audio that
\* clear_outbound_impl has put aside.
PlaceNo == 1 .. 6
Way == 1 .. 5
Aside == 6
Held == [k \in PlaceNo |->
            IF k = 1 THEN encoded ELSE IF k = 2 THEN encode_queue ELSE IF k = 3 THEN local
            ELSE IF k = 4 THEN send_queue[0] ELSE IF k = 5 THEN send_queue[1] ELSE clearing.keep]

\* The places as sequences of messages.
Spread == [PlaceNo -> Seq(MsgType)]

\* No message is twice in the places P.
Unique(P) ==
    \A k, l \in PlaceNo : \A i \in 1 .. Len(P[k]), j \in 1 .. Len(P[l]) :
        P[k][i].id = P[l][j].id => k = l /\ i = j

\* Of two messages of one priority that are not in M, the older one is further.
Ordered(P, M) ==
    \A k, l \in Way : \A i \in 1 .. Len(P[k]), j \in 1 .. Len(P[l]) :
        /\ k < l \/ (k = l /\ i < j)
        /\ P[k][i].prio = P[l][j].prio /\ P[k][i].id \notin M /\ P[l][j].id \notin M
        => P[k][i].id < P[l][j].id

\* The send queues hold messages of their priority, and every message was accepted.
Sorted(P) == /\ \A i \in 1 .. Len(P[4]) : P[4][i].prio = 0
             /\ \A i \in 1 .. Len(P[5]) : P[5][i].prio = 1
Below(P, n) == \A k \in PlaceNo : \A i \in 1 .. Len(P[k]) : P[k][i].id <= n

\* What holds of the places P when M were put back and n were accepted.
Good(P, M, n) == Unique(P) /\ Ordered(P, M) /\ Sorted(P) /\ Below(P, n)

\* t is s after its first message, or every one, has left.
FirstLeft(s, t) == \A i \in 1 .. Len(t) : i + 1 \in 1 .. Len(s) /\ t[i] = s[i + 1]
\* t is s and then x.
Grown(s, x, t) ==
    /\ Len(t) = Len(s) + 1 /\ t[Len(s) + 1] = x
    /\ \A i \in 1 .. Len(s) : t[i] = s[i]

\* Ordered, at one pair of messages.
LEMMA OrderedAt ==
    ASSUME NEW P, NEW M, Ordered(P, M), NEW g \in Way, NEW h \in Way,
           NEW i \in 1 .. Len(P[g]), NEW j \in 1 .. Len(P[h]), g < h \/ (g = h /\ i < j),
           P[g][i].prio = P[h][j].prio, P[g][i].id \notin M, P[h][j].id \notin M
    PROVE  P[g][i].id < P[h][j].id
  BY DEF Ordered

\* The places are sequences of messages.
LEMMA Lengths ==
    ASSUME NEW P \in Spread, NEW k \in PlaceNo
    PROVE  /\ Len(P[k]) \in Nat
           /\ \A i \in 1 .. Len(P[k]) : P[k][i] \in MsgType /\ P[k][i].id \in Nat
  <1>1. P[k] \in Seq(MsgType)
    BY DEF Spread
  <1>2. \A m \in MsgType : m.id \in Nat
    BY PipelineConstants DEF MsgType
  <1> QED BY <1>1, <1>2

\* The first message of a place, or every one, may leave.
LEMMA GoodLeft ==
    ASSUME NEW P \in Spread, NEW Q \in Spread, NEW M, NEW n \in Nat, NEW k \in PlaceNo,
           Good(P, M, n), FirstLeft(P[k], Q[k]), \A l \in PlaceNo \ {k} : Q[l] = P[l]
    PROVE  Good(Q, M, n)
  <1>1. \A l \in PlaceNo : Len(P[l]) \in Nat /\ Len(Q[l]) \in Nat
    BY Lengths
  <1>2. \A l \in PlaceNo : \A i \in 1 .. Len(Q[l]) :
            IF l = k THEN i + 1 \in 1 .. Len(P[l]) /\ Q[l][i] = P[l][i + 1]
                     ELSE i \in 1 .. Len(P[l]) /\ Q[l][i] = P[l][i]
    BY DEF FirstLeft
  <1> DEFINE Old(l, i) == IF l = k THEN i + 1 ELSE i
  <1>3. \A l \in PlaceNo : \A i \in 1 .. Len(Q[l]) : Old(l, i) \in 1 .. Len(P[l]) /\ Q[l][i] = P[l][Old(l, i)]
    BY <1>2
  <1>4. \A l \in PlaceNo : \A i, j \in 1 .. Len(Q[l]) :
            (Old(l, i) = Old(l, j) => i = j) /\ (i < j => Old(l, i) < Old(l, j))
    BY <1>1
  <1> HIDE DEF Old
  <1>5. Unique(Q)
    <2> SUFFICES ASSUME NEW g \in PlaceNo, NEW h \in PlaceNo, NEW i \in 1 .. Len(Q[g]), NEW j \in 1 .. Len(Q[h]),
                        Q[g][i].id = Q[h][j].id
                 PROVE  g = h /\ i = j
      BY DEF Unique
    <2>1. P[g][Old(g, i)].id = P[h][Old(h, j)].id
      BY <1>3
    <2>2. g = h /\ Old(g, i) = Old(h, j)
      BY <2>1, <1>3 DEF Good, Unique
    <2> QED BY <2>2, <1>4
  <1>6. Ordered(Q, M)
    <2> SUFFICES ASSUME NEW g \in Way, NEW h \in Way, NEW i \in 1 .. Len(Q[g]), NEW j \in 1 .. Len(Q[h]),
                        g < h \/ (g = h /\ i < j),
                        Q[g][i].prio = Q[h][j].prio, Q[g][i].id \notin M, Q[h][j].id \notin M
                 PROVE  Q[g][i].id < Q[h][j].id
      BY DEF Ordered
    <2>1. g \in PlaceNo /\ h \in PlaceNo
      BY DEF Way, PlaceNo
    <2>2. /\ Old(g, i) \in 1 .. Len(P[g]) /\ Q[g][i] = P[g][Old(g, i)]
          /\ Old(h, j) \in 1 .. Len(P[h]) /\ Q[h][j] = P[h][Old(h, j)]
      BY <1>3, <2>1
    <2>3. g < h \/ (g = h /\ Old(g, i) < Old(h, j))
      BY <1>4, <2>1
    <2> QED BY <2>2, <2>3 DEF Good, Ordered
  <1>7. Sorted(Q)
    <2>1. 4 \in PlaceNo /\ 5 \in PlaceNo
      BY DEF PlaceNo
    <2>2. ASSUME NEW i \in 1 .. Len(Q[4])
          PROVE  Q[4][i].prio = 0
      <3>1. Old(4, i) \in 1 .. Len(P[4]) /\ Q[4][i] = P[4][Old(4, i)]
        BY <1>3, <2>1
      <3> QED BY <3>1 DEF Good, Sorted
    <2>3. ASSUME NEW i \in 1 .. Len(Q[5])
          PROVE  Q[5][i].prio = 1
      <3>1. Old(5, i) \in 1 .. Len(P[5]) /\ Q[5][i] = P[5][Old(5, i)]
        BY <1>3, <2>1
      <3> QED BY <3>1 DEF Good, Sorted
    <2> QED BY <2>2, <2>3 DEF Sorted
  <1>8. Below(Q, n)
    <2> SUFFICES ASSUME NEW h \in PlaceNo, NEW j \in 1 .. Len(Q[h])
                 PROVE  Q[h][j].id <= n
      BY DEF Below
    <2>1. Old(h, j) \in 1 .. Len(P[h]) /\ Q[h][j] = P[h][Old(h, j)]
      BY <1>3
    <2> QED BY <2>1 DEF Good, Below
  <1> QED BY <1>5, <1>6, <1>7, <1>8 DEF Good

\* x leaves place k as its first message and comes to the end of place l: it was put
\* back, or aside, or goes on to the next place.
Moves(P, Q, N, k, l, x) ==
    /\ k # l /\ P[k] # <<>> /\ FirstLeft(P[k], Q[k]) /\ Grown(P[l], x, Q[l])
    /\ \A h \in PlaceNo \ {k, l} : Q[h] = P[h]
    /\ x.id = P[k][1].id /\ (l = 4 => x.prio = 0) /\ (l = 5 => x.prio = 1)
    /\ x.id \in N \/ l = Aside \/ (k \in {2, 3} /\ l = k - 1 /\ x.prio = P[k][1].prio)

\* The first message of a place may come to the end of another, when it is put back, put
\* aside or goes on.
LEMMA GoodMove ==
    ASSUME NEW P \in Spread, NEW Q \in Spread, NEW M, NEW N, M \subseteq N, NEW n \in Nat,
           NEW k \in PlaceNo, NEW l \in PlaceNo, NEW x \in MsgType, Good(P, M, n), Moves(P, Q, N, k, l, x)
    PROVE  Good(Q, N, n)
  <1>0. /\ k # l /\ P[k] # <<>> /\ FirstLeft(P[k], Q[k]) /\ Grown(P[l], x, Q[l])
        /\ \A h \in PlaceNo \ {k, l} : Q[h] = P[h]
        /\ x.id = P[k][1].id /\ (l = 4 => x.prio = 0) /\ (l = 5 => x.prio = 1)
        /\ x.id \in N \/ l = Aside \/ (k \in {2, 3} /\ l = k - 1 /\ x.prio = P[k][1].prio)
    BY DEF Moves
  <1> USE <1>0
  <1> DEFINE New(h, i) == h = l /\ i = Len(P[l]) + 1
  <1> DEFINE Old(h, i) == IF h = k THEN i + 1 ELSE i
  <1>1. /\ \A h \in PlaceNo : Len(P[h]) \in Nat /\ Len(Q[h]) \in Nat
        /\ 1 \in 1 .. Len(P[k])
    BY Lengths DEF Spread
  <1>2. ASSUME NEW h \in PlaceNo, NEW i \in 1 .. Len(Q[h]), ~New(h, i)
        PROVE  /\ Old(h, i) \in 1 .. Len(P[h]) /\ Q[h][i] = P[h][Old(h, i)]
               /\ h = k => Old(h, i) # 1 /\ 1 < Old(h, i)
    <2>1. CASE h = k
      <3>1. i + 1 \in 1 .. Len(P[h]) /\ Q[h][i] = P[h][i + 1]
        BY <2>1 DEF FirstLeft
      <3> QED BY <2>1, <3>1, <1>1
    <2>2. CASE h = l
      <3>1. i \in 1 .. Len(P[h])
        BY <1>1, <1>2, <2>2 DEF Grown
      <3>2. Q[h][i] = P[h][i]
        BY <2>2, <3>1 DEF Grown
      <3> QED BY <2>2, <3>1, <3>2
    <2>3. CASE h # k /\ h # l
      BY <2>3
    <2> QED BY <2>1, <2>2, <2>3
  <1>3. \A h \in PlaceNo : \A i, j \in 1 .. Len(Q[h]) :
            (Old(h, i) = Old(h, j) => i = j) /\ (i < j => Old(h, i) < Old(h, j))
    BY <1>1
  <1>4. \A h \in PlaceNo : \A i \in 1 .. Len(Q[h]) : New(h, i) => Q[h][i] = x
    BY DEF Grown
  <1>5. \A h, g \in PlaceNo : \A i \in 1 .. Len(Q[h]), j \in 1 .. Len(Q[g]) :
            New(h, i) /\ New(g, j) => h = g /\ i = j
    OBVIOUS
  <1>6. \A h, g \in Way : \A i \in 1 .. Len(Q[h]), j \in 1 .. Len(Q[g]) :
            /\ New(h, i) /\ ~New(g, j) /\ (h < g \/ (h = g /\ i < j)) => h = l /\ l < g
            /\ ~New(h, i) /\ New(g, j) /\ (h < g \/ (h = g /\ i < j)) => g = l /\ h <= l
    <2> SUFFICES ASSUME NEW h \in Way, NEW g \in Way, NEW i \in 1 .. Len(Q[h]), NEW j \in 1 .. Len(Q[g]),
                        h < g \/ (h = g /\ i < j)
                 PROVE  (New(h, i) => h = l /\ l < g) /\ (New(g, j) => g = l /\ h <= l)
      BY Zenon
    <2>1. Len(P[l]) \in Nat /\ Len(Q[l]) = Len(P[l]) + 1
      BY <1>1 DEF Grown
    <2> QED BY <2>1 DEF Way
  <1> HIDE DEF Old, New
  <1>7. Unique(Q)
    <2> SUFFICES ASSUME NEW g \in PlaceNo, NEW h \in PlaceNo, NEW i \in 1 .. Len(Q[g]), NEW j \in 1 .. Len(Q[h]),
                        Q[g][i].id = Q[h][j].id
                 PROVE  g = h /\ i = j
      BY DEF Unique
    <2>1. CASE New(g, i) /\ New(h, j)
      BY <2>1, <1>5
    <2>2. CASE New(g, i) /\ ~New(h, j)
      <3>1. Old(h, j) \in 1 .. Len(P[h]) /\ P[h][Old(h, j)].id = P[k][1].id /\ (h = k => Old(h, j) # 1)
        BY <1>2, <1>4, <2>2
      <3> QED BY <1>1, <3>1 DEF Good, Unique
    <2>3. CASE ~New(g, i) /\ New(h, j)
      <3>1. Old(g, i) \in 1 .. Len(P[g]) /\ P[g][Old(g, i)].id = P[k][1].id /\ (g = k => Old(g, i) # 1)
        BY <1>2, <1>4, <2>3
      <3> QED BY <1>1, <3>1 DEF Good, Unique
    <2>4. CASE ~New(g, i) /\ ~New(h, j)
      <3>1. /\ Old(g, i) \in 1 .. Len(P[g]) /\ Q[g][i] = P[g][Old(g, i)]
            /\ Old(h, j) \in 1 .. Len(P[h]) /\ Q[h][j] = P[h][Old(h, j)]
        BY <1>2, <2>4
      <3>2. g = h /\ Old(g, i) = Old(h, j)
        BY <3>1 DEF Good, Unique
      <3> QED BY <3>2, <1>3
    <2> QED BY <2>1, <2>2, <2>3, <2>4
  <1>8. Ordered(Q, N)
    <2> SUFFICES ASSUME NEW g \in Way, NEW h \in Way, NEW i \in 1 .. Len(Q[g]), NEW j \in 1 .. Len(Q[h]),
                        g < h \/ (g = h /\ i < j),
                        Q[g][i].prio = Q[h][j].prio, Q[g][i].id \notin N, Q[h][j].id \notin N
                 PROVE  Q[g][i].id < Q[h][j].id
      BY DEF Ordered
    <2>0. g \in PlaceNo /\ h \in PlaceNo /\ \A w \in Way : w \in Nat
      BY DEF Way, PlaceNo
    <2>1. CASE New(g, i) /\ New(h, j)
      <3>1. g = h /\ i = j
        BY <2>0, <2>1, <1>5
      <3> QED BY <3>1, <2>0, <1>1
    <2>2. CASE New(g, i) /\ ~New(h, j)
      <3>1. Q[g][i] = x /\ g = l /\ l < h
        BY <1>4, <1>6, <2>0, <2>2
      <3>2. k \in Way /\ k \in {2, 3} /\ l = k - 1 /\ x.prio = P[k][1].prio
        BY <3>1 DEF Aside, Way
      <3>3. Q[h][j] = P[h][Old(h, j)] /\ Old(h, j) \in 1 .. Len(P[h]) /\ (h = k => 1 < Old(h, j))
        BY <1>2, <2>0, <2>2
      <3>4. k < h \/ (k = h /\ 1 < Old(h, j))
        BY <3>1, <3>2, <3>3, <2>0
      <3>5. P[k][1].prio = P[h][Old(h, j)].prio /\ P[k][1].id \notin M /\ P[h][Old(h, j)].id \notin M
        BY <3>1, <3>2, <3>3
      <3>6. P[k][1].id < P[h][Old(h, j)].id
        BY <3>2, <3>3, <3>4, <3>5, <1>1 DEF Good, Ordered
      <3> QED BY <3>1, <3>3, <3>6
    <2>3. CASE ~New(g, i) /\ New(h, j)
      <3>1. Q[h][j] = x /\ h = l /\ g <= l
        BY <1>4, <1>6, <2>0, <2>3
      <3>2. k \in Way /\ k \in {2, 3} /\ l = k - 1 /\ x.prio = P[k][1].prio
        BY <3>1 DEF Aside, Way
      <3>3. Q[g][i] = P[g][Old(g, i)] /\ Old(g, i) \in 1 .. Len(P[g])
        BY <1>2, <2>0, <2>3
      <3>4. g < k
        <4>1. g \in Nat /\ ((k = 2 /\ l = 1) \/ (k = 3 /\ l = 2)) /\ g <= l
          BY <3>1, <3>2, <2>0
        <4> QED BY <4>1
      <3>5. P[k][1].prio = P[g][Old(g, i)].prio /\ P[k][1].id \notin M /\ P[g][Old(g, i)].id \notin M
        BY <3>1, <3>2, <3>3
      <3>6. P[g][Old(g, i)].id < P[k][1].id
        BY <3>2, <3>3, <3>4, <3>5, <1>1 DEF Good, Ordered
      <3>7. Q[h][j].id = P[k][1].id /\ Q[g][i].id = P[g][Old(g, i)].id
        BY <3>1, <3>3
      <3> QED BY <3>6, <3>7, Zenon
    <2>4. CASE ~New(g, i) /\ ~New(h, j)
      <3>1. /\ Q[g][i] = P[g][Old(g, i)] /\ Old(g, i) \in 1 .. Len(P[g])
            /\ Q[h][j] = P[h][Old(h, j)] /\ Old(h, j) \in 1 .. Len(P[h])
        BY <1>2, <2>0, <2>4
      <3>2. g < h \/ (g = h /\ Old(g, i) < Old(h, j))
        BY <1>3, <2>0
      <3>3. /\ P[g][Old(g, i)].id \notin M /\ P[h][Old(h, j)].id \notin M
            /\ P[g][Old(g, i)].prio = P[h][Old(h, j)].prio
        BY <3>1
      <3>4. P[g][Old(g, i)].id < P[h][Old(h, j)].id
        BY <3>1, <3>2, <3>3, OrderedAt DEF Good
      <3> QED BY <3>1, <3>4
    <2> QED BY <2>1, <2>2, <2>3, <2>4
  <1>9. Sorted(Q)
    <2>1. 4 \in PlaceNo /\ 5 \in PlaceNo
      BY DEF PlaceNo
    <2>2. ASSUME NEW i \in 1 .. Len(Q[4])
          PROVE  Q[4][i].prio = 0
      <3>1. CASE New(4, i)
        BY <1>4, <2>1, <3>1 DEF New
      <3>2. CASE ~New(4, i)
        <4>1. Old(4, i) \in 1 .. Len(P[4]) /\ Q[4][i] = P[4][Old(4, i)]
          BY <1>2, <2>1, <3>2
        <4> QED BY <4>1 DEF Good, Sorted
      <3> QED BY <3>1, <3>2
    <2>3. ASSUME NEW i \in 1 .. Len(Q[5])
          PROVE  Q[5][i].prio = 1
      <3>1. CASE New(5, i)
        BY <1>4, <2>1, <3>1 DEF New
      <3>2. CASE ~New(5, i)
        <4>1. Old(5, i) \in 1 .. Len(P[5]) /\ Q[5][i] = P[5][Old(5, i)]
          BY <1>2, <2>1, <3>2
        <4> QED BY <4>1 DEF Good, Sorted
      <3> QED BY <3>1, <3>2
    <2> QED BY <2>2, <2>3 DEF Sorted
  <1>10. Below(Q, n)
    <2> SUFFICES ASSUME NEW h \in PlaceNo, NEW j \in 1 .. Len(Q[h])
                 PROVE  Q[h][j].id <= n
      BY DEF Below
    <2>1. CASE New(h, j)
      <3>1. Q[h][j].id = P[k][1].id
        BY <1>4, <2>1
      <3> QED BY <3>1, <1>1 DEF Good, Below
    <2>2. CASE ~New(h, j)
      <3>1. Old(h, j) \in 1 .. Len(P[h]) /\ Q[h][j] = P[h][Old(h, j)]
        BY <1>2, <2>2
      <3> QED BY <3>1 DEF Good, Below
    <2> QED BY <2>1, <2>2
  <1> QED BY <1>7, <1>8, <1>9, <1>10 DEF Good

\* A message that was just accepted, which is the youngest, comes to the end of its queue.
LEMMA GoodNew ==
    ASSUME NEW P \in Spread, NEW Q \in Spread, NEW M, NEW n \in Nat, NEW l \in {4, 5}, NEW x \in MsgType,
           Good(P, M, n), Grown(P[l], x, Q[l]), \A h \in PlaceNo \ {l} : Q[h] = P[h],
           x.id = n + 1, x.prio = l - 4
    PROVE  Good(Q, M, n + 1)
  <1> DEFINE New(h, i) == h = l /\ i = Len(P[l]) + 1
  <1>1. /\ \A h \in PlaceNo : Len(P[h]) \in Nat /\ \A i \in 1 .. Len(P[h]) : P[h][i].id \in Nat
        /\ \A h \in PlaceNo : Len(Q[h]) \in Nat
        /\ l \in PlaceNo
    <2>1. \A h \in PlaceNo : Len(P[h]) \in Nat /\ \A i \in 1 .. Len(P[h]) : P[h][i].id \in Nat
      BY Lengths
    <2>2. \A h \in PlaceNo : Len(Q[h]) \in Nat
      BY Lengths
    <2>3. l \in PlaceNo
      BY DEF PlaceNo
    <2> QED BY <2>1, <2>2, <2>3
  <1>2. ASSUME NEW h \in PlaceNo, NEW i \in 1 .. Len(Q[h]), ~New(h, i)
        PROVE  i \in 1 .. Len(P[h]) /\ Q[h][i] = P[h][i]
    <2>1. CASE h = l
      <3>1. i \in 1 .. Len(P[h])
        BY <1>1, <1>2, <2>1 DEF Grown
      <3> QED BY <2>1, <3>1 DEF Grown
    <2>2. CASE h # l
      BY <2>2
    <2> QED BY <2>1, <2>2
  <1>3. \A h \in PlaceNo : \A i \in 1 .. Len(Q[h]) : New(h, i) => Q[h][i].id = n + 1 /\ Q[h][i].prio = l - 4
    BY DEF Grown
  <1>4. \A h, g \in PlaceNo : \A i \in 1 .. Len(Q[h]), j \in 1 .. Len(Q[g]) :
            New(h, i) /\ New(g, j) => h = g /\ i = j
    OBVIOUS
  <1>5. \A h, g \in Way : \A i \in 1 .. Len(Q[h]), j \in 1 .. Len(Q[g]) :
            New(h, i) /\ (h < g \/ (h = g /\ i < j)) => l = 4 /\ g = 5
    <2>1. Len(P[l]) \in Nat /\ Len(Q[l]) = Len(P[l]) + 1
      BY <1>1 DEF Grown
    <2> QED BY <2>1 DEF Way
  <1>6. \A h \in PlaceNo : \A i \in 1 .. Len(P[h]) : P[h][i].id <= n
    BY DEF Good, Below
  <1> HIDE DEF New
  <1>7. Unique(Q)
    <2> SUFFICES ASSUME NEW g \in PlaceNo, NEW h \in PlaceNo, NEW i \in 1 .. Len(Q[g]), NEW j \in 1 .. Len(Q[h]),
                        Q[g][i].id = Q[h][j].id
                 PROVE  g = h /\ i = j
      BY DEF Unique
    <2>1. CASE New(g, i) /\ New(h, j)
      BY <2>1, <1>4
    <2>2. CASE New(g, i) /\ ~New(h, j)
      <3>1. Q[h][j].id = n + 1 /\ Q[h][j].id <= n
        BY <1>2, <1>3, <1>6, <2>2
      <3> QED BY <3>1
    <2>3. CASE ~New(g, i) /\ New(h, j)
      <3>1. Q[g][i].id = n + 1 /\ Q[g][i].id <= n
        BY <1>2, <1>3, <1>6, <2>3
      <3> QED BY <3>1
    <2>4. CASE ~New(g, i) /\ ~New(h, j)
      <3>1. i \in 1 .. Len(P[g]) /\ Q[g][i] = P[g][i] /\ j \in 1 .. Len(P[h]) /\ Q[h][j] = P[h][j]
        BY <1>2, <2>4
      <3> QED BY <3>1 DEF Good, Unique
    <2> QED BY <2>1, <2>2, <2>3, <2>4
  <1>8. Ordered(Q, M)
    <2> SUFFICES ASSUME NEW g \in Way, NEW h \in Way, NEW i \in 1 .. Len(Q[g]), NEW j \in 1 .. Len(Q[h]),
                        g < h \/ (g = h /\ i < j),
                        Q[g][i].prio = Q[h][j].prio, Q[g][i].id \notin M, Q[h][j].id \notin M
                 PROVE  Q[g][i].id < Q[h][j].id
      BY DEF Ordered
    <2>0. g \in PlaceNo /\ h \in PlaceNo
      BY DEF Way, PlaceNo
    <2>1. CASE New(g, i)
      <3>1. l = 4 /\ h = 5 /\ Q[g][i].prio = 0
        BY <1>3, <1>5, <2>0, <2>1
      <3>2. Q[h] = P[h] /\ P[h][j].prio = 1
        BY <3>1, <2>0 DEF Good, Sorted
      <3> QED BY <3>1, <3>2
    <2>2. CASE ~New(g, i) /\ New(h, j)
      <3>1. Q[g][i].id <= n /\ Q[g][i].id \in Nat /\ Q[h][j].id = n + 1
        BY <1>1, <1>2, <1>3, <1>6, <2>0, <2>2
      <3> QED BY <3>1
    <2>3. CASE ~New(g, i) /\ ~New(h, j)
      <3>1. i \in 1 .. Len(P[g]) /\ Q[g][i] = P[g][i] /\ j \in 1 .. Len(P[h]) /\ Q[h][j] = P[h][j]
        BY <1>2, <2>0, <2>3
      <3>2. P[g][i].id < P[h][j].id
        BY <3>1, OrderedAt DEF Good
      <3> QED BY <3>1, <3>2
    <2> QED BY <2>1, <2>2, <2>3
  <1>9. Sorted(Q)
    <2>1. 4 \in PlaceNo /\ 5 \in PlaceNo
      BY DEF PlaceNo
    <2>2. ASSUME NEW i \in 1 .. Len(Q[4])
          PROVE  Q[4][i].prio = 0
      <3>1. CASE New(4, i)
        BY <1>3, <2>1, <3>1 DEF New
      <3>2. CASE ~New(4, i)
        <4>1. i \in 1 .. Len(P[4]) /\ Q[4][i] = P[4][i]
          BY <1>2, <2>1, <3>2
        <4> QED BY <4>1 DEF Good, Sorted
      <3> QED BY <3>1, <3>2
    <2>3. ASSUME NEW i \in 1 .. Len(Q[5])
          PROVE  Q[5][i].prio = 1
      <3>1. CASE New(5, i)
        BY <1>3, <2>1, <3>1 DEF New
      <3>2. CASE ~New(5, i)
        <4>1. i \in 1 .. Len(P[5]) /\ Q[5][i] = P[5][i]
          BY <1>2, <2>1, <3>2
        <4> QED BY <4>1 DEF Good, Sorted
      <3> QED BY <3>1, <3>2
    <2> QED BY <2>2, <2>3 DEF Sorted
  <1>10. Below(Q, n + 1)
    <2> SUFFICES ASSUME NEW h \in PlaceNo, NEW j \in 1 .. Len(Q[h])
                 PROVE  Q[h][j].id <= n + 1
      BY DEF Below
    <2>1. CASE New(h, j)
      BY <1>3, <2>1
    <2>2. CASE ~New(h, j)
      <3>1. Q[h][j].id <= n /\ Q[h][j].id \in Nat
        BY <1>1, <1>2, <1>6, <2>2
      <3> QED BY <3>1
    <2> QED BY <2>1, <2>2
  <1> QED BY <1>7, <1>8, <1>9, <1>10 DEF Good

\* The place in the second of two queues that have been joined.
LEMMA Offset ==
    \A a, b \in Nat : \A i \in 1 .. a + b : i > a => i - a \in 1 .. b /\ ~(i <= a) /\ i > a
  OBVIOUS

\* Both send queues, the one of the higher priority first, become the swapped-out queue.
LEMMA GoodSwap ==
    ASSUME NEW P \in Spread, NEW Q \in Spread, NEW M, NEW n \in Nat, Good(P, M, n),
           Len(Q[3]) = Len(P[5]) + Len(P[4]),
           \A i \in 1 .. Len(Q[3]) :
               Q[3][i] = IF i <= Len(P[5]) THEN P[5][i] ELSE P[4][i - Len(P[5])],
           Len(Q[4]) = 0, Len(Q[5]) = 0, \A h \in {1, 2, 6} : Q[h] = P[h]
    PROVE  Good(Q, M, n)
  <1> DEFINE Src(h, i) == IF h = 3 THEN IF i <= Len(P[5]) THEN 5 ELSE 4 ELSE h
  <1> DEFINE Pos(h, i) == IF h = 3 /\ i > Len(P[5]) THEN i - Len(P[5]) ELSE i
  <1>1. /\ \A h \in PlaceNo : Len(P[h]) \in Nat /\ Len(Q[h]) \in Nat
        /\ Len(P[5]) \in Nat /\ Len(P[4]) \in Nat
    BY Lengths DEF PlaceNo
  <1>2. \A h \in PlaceNo : \A i \in 1 .. Len(Q[h]) : h \in {1, 2, 6} \/ h = 3
    BY DEF PlaceNo
  <1>3. ASSUME NEW h \in PlaceNo, NEW i \in 1 .. Len(Q[h])
        PROVE  Src(h, i) \in PlaceNo /\ Pos(h, i) \in 1 .. Len(P[Src(h, i)]) /\ Q[h][i] = P[Src(h, i)][Pos(h, i)]
    <2>1. CASE h \in {1, 2, 6}
      BY <2>1
    <2>2. CASE h = 3 /\ i <= Len(P[5])
      <3>1. i \in 1 .. Len(P[5]) /\ ~(i > Len(P[5]))
        BY <1>1, <2>2
      <3>2. Q[3][i] = P[5][i]
        BY <2>2
      <3>3. Src(h, i) = 5 /\ Pos(h, i) = i /\ 5 \in PlaceNo
        BY <2>2, <3>1 DEF PlaceNo
      <3> QED BY <2>2, <3>1, <3>2, <3>3
    <2>3. CASE h = 3 /\ i > Len(P[5])
      <3>1. PICK a \in Nat, b \in Nat : a = Len(P[5]) /\ b = Len(P[4]) /\ i \in 1 .. a + b
        BY <1>1, <2>3
      <3>2. i - a \in 1 .. b /\ ~(i <= a) /\ i > a
        <4>1. i > a
          BY <2>3, <3>1, Zenon
        <4> QED BY <3>1, <4>1, Offset, Zenon
      <3>3. Q[3][i] = P[4][i - a]
        BY <2>3, <3>1, <3>2
      <3>4. Src(h, i) = 4 /\ Pos(h, i) = i - a
        BY <2>3, <3>1, <3>2, Zenon
      <3>5. 4 \in PlaceNo
        BY DEF PlaceNo
      <3> QED BY <2>3, <3>1, <3>2, <3>3, <3>4, <3>5
    <2>4. i \in Nat
      BY <1>1
    <2> QED BY <1>1, <1>2, <2>1, <2>2, <2>3, <2>4
  <1>4. ASSUME NEW g \in PlaceNo, NEW h \in PlaceNo, NEW i \in 1 .. Len(Q[g]), NEW j \in 1 .. Len(Q[h]),
               Src(g, i) = Src(h, j), Pos(g, i) = Pos(h, j)
        PROVE  g = h /\ i = j
    <2>1. i \in Nat /\ j \in Nat
      BY <1>1
    <2> QED BY <1>1, <1>2, <1>4, <2>1
  <1>5. ASSUME NEW g \in PlaceNo, NEW h \in PlaceNo, NEW i \in 1 .. Len(Q[g]), NEW j \in 1 .. Len(Q[h]),
               g \in Way, h \in Way, g < h \/ (g = h /\ i < j)
        PROVE  \/ Src(g, i) = 5 /\ Src(h, j) = 4
               \/ /\ Src(g, i) \in Way /\ Src(h, j) \in Way
                  /\ Src(g, i) < Src(h, j) \/ (Src(g, i) = Src(h, j) /\ Pos(g, i) < Pos(h, j))
    <2>1. i \in Nat /\ j \in Nat
      BY <1>1
    <2>2. (g \in {1, 2} \/ g = 3) /\ (h \in {1, 2} \/ h = 3)
      BY <1>2, <1>5 DEF Way
    <2>3. CASE h \in {1, 2}
      BY <1>5, <2>2, <2>3 DEF Way
    <2>4. CASE g \in {1, 2} /\ h = 3
      BY <2>4 DEF Way
    <2>5. CASE g = 3 /\ h = 3
      BY <1>1, <1>5, <2>1, <2>5 DEF Way
    <2> QED BY <2>2, <2>3, <2>4, <2>5
  <1> HIDE DEF Src, Pos
  <1>6. Unique(Q)
    <2> SUFFICES ASSUME NEW g \in PlaceNo, NEW h \in PlaceNo, NEW i \in 1 .. Len(Q[g]), NEW j \in 1 .. Len(Q[h]),
                        Q[g][i].id = Q[h][j].id
                 PROVE  g = h /\ i = j
      BY DEF Unique
    <2>1. PICK s \in PlaceNo, t \in PlaceNo : s = Src(g, i) /\ t = Src(h, j)
      BY <1>3
    <2>2. PICK a \in 1 .. Len(P[s]), b \in 1 .. Len(P[t]) :
              a = Pos(g, i) /\ b = Pos(h, j) /\ Q[g][i] = P[s][a] /\ Q[h][j] = P[t][b]
      BY <1>3, <2>1
    <2>3. P[s][a].id = P[t][b].id
      BY <2>2
    <2>4. s = t /\ a = b
      <3>1. Unique(P)
        BY DEF Good
      <3> QED BY <2>3, <3>1 DEF Unique
    <2>5. Src(g, i) = Src(h, j) /\ Pos(g, i) = Pos(h, j)
      BY <2>1, <2>2, <2>4
    <2> QED BY <1>4, <2>5
  <1>7. Ordered(Q, M)
    <2> SUFFICES ASSUME NEW g \in Way, NEW h \in Way, NEW i \in 1 .. Len(Q[g]), NEW j \in 1 .. Len(Q[h]),
                        g < h \/ (g = h /\ i < j),
                        Q[g][i].prio = Q[h][j].prio, Q[g][i].id \notin M, Q[h][j].id \notin M
                 PROVE  Q[g][i].id < Q[h][j].id
      BY DEF Ordered
    <2>1. g \in PlaceNo /\ h \in PlaceNo
      BY DEF Way, PlaceNo
    <2>2. PICK s \in PlaceNo, t \in PlaceNo : s = Src(g, i) /\ t = Src(h, j)
      BY <1>3, <2>1
    <2>3. PICK a \in 1 .. Len(P[s]), b \in 1 .. Len(P[t]) :
              a = Pos(g, i) /\ b = Pos(h, j) /\ Q[g][i] = P[s][a] /\ Q[h][j] = P[t][b]
      BY <1>3, <2>1, <2>2
    <2>4. ASSUME s = 5, t = 4
          PROVE  FALSE
      <3>1. P[s][a].prio = 1 /\ P[t][b].prio = 0
        BY <2>4 DEF Good, Sorted
      <3> QED BY <2>3, <3>1
    <2>5. s \in Way /\ t \in Way /\ (s < t \/ (s = t /\ a < b))
      BY <1>5, <2>1, <2>2, <2>3, <2>4
    <2>6. P[s][a].prio = P[t][b].prio /\ P[s][a].id \notin M /\ P[t][b].id \notin M
      BY <2>3
    <2>7. P[s][a].id < P[t][b].id
      BY <2>5, <2>6, OrderedAt DEF Good
    <2> QED BY <2>3, <2>7
  <1>8. Sorted(Q)
    BY DEF Sorted
  <1>9. Below(Q, n)
    <2> SUFFICES ASSUME NEW h \in PlaceNo, NEW j \in 1 .. Len(Q[h])
                 PROVE  Q[h][j].id <= n
      BY DEF Below
    <2>1. PICK t \in PlaceNo : \E b \in 1 .. Len(P[t]) : Q[h][j] = P[t][b]
      BY <1>3
    <2> QED BY <2>1 DEF Good, Below
  <1> QED BY <1>6, <1>7, <1>8, <1>9 DEF Good

\* More messages may count as put back.
LEMMA GoodMono ==
    ASSUME NEW P, NEW M, NEW N, M \subseteq N, NEW n, Good(P, M, n)
    PROVE  Good(P, N, n)
  <1>1. Ordered(P, N)
    BY OrderedAt DEF Good, Ordered
  <1> QED BY <1>1 DEF Good

\* Tail is a queue after its first message has left.
LEMMA TailLeft ==
    ASSUME NEW s \in Seq(MsgType), s # <<>>
    PROVE  /\ Tail(s) \in Seq(MsgType) /\ Len(Tail(s)) = Len(s) - 1 /\ Len(s) \in Nat
           /\ FirstLeft(s, Tail(s)) /\ Head(s) \in MsgType /\ Head(s) = s[1]
  <1>1. /\ Tail(s) \in Seq(MsgType) /\ Len(Tail(s)) = Len(s) - 1 /\ Len(s) \in Nat
        /\ \A i \in 1 .. Len(Tail(s)) : Tail(s)[i] = s[i + 1]
        /\ Head(s) \in MsgType /\ Head(s) = s[1]
    OBVIOUS
  <1>2. \A i \in 1 .. Len(Tail(s)) : i + 1 \in 1 .. Len(s)
    BY <1>1
  <1> QED BY <1>1, <1>2 DEF FirstLeft

\* Append is a queue after a message has come.
LEMMA AppendGrown ==
    ASSUME NEW s \in Seq(MsgType), NEW x \in MsgType
    PROVE  /\ Append(s, x) \in Seq(MsgType) /\ Len(Append(s, x)) = Len(s) + 1 /\ Len(s) \in Nat
           /\ Grown(s, x, Append(s, x))
  BY DEF Grown

\* The values of the variables: of the queues, and of the threads and the link.
ClearingType == clearing \in [at : {"none", "encode", "push"}, keep : Seq(MsgType)]

QueueTypes ==
    /\ accepted \in 0 .. MaxMessages
    /\ send_queue \in [Priorities -> Seq(MsgType)]
    /\ Len(send_queue[0]) + Len(send_queue[1]) <= QueueLimit
    /\ local \in Seq(MsgType)
    /\ encode_queue \in Seq(MsgType) /\ Len(encode_queue) <= EncodeLimit
    /\ encoded \in Seq(MsgType)
    /\ moved \subseteq 1 .. MaxMessages
    /\ ClearingType

ControlTypes ==
    /\ link \in {"none", "handshake", "linked", "closed"}
    /\ draining \subseteq Channels
    /\ running \in BOOLEAN /\ closed \in BOOLEAN /\ alive \subseteq Threads
    /\ events \in 0 .. MaxEvents

\* The inductive invariant.
PipelineInv == QueueTypes /\ ControlTypes /\ Good(Held, moved, accepted)

\* The places, one by one.
LEMMA HeldPlaces ==
    /\ Held[1] = encoded /\ Held[2] = encode_queue /\ Held[3] = local
    /\ Held[4] = send_queue[0] /\ Held[5] = send_queue[1] /\ Held[6] = clearing.keep
    /\ Held'[1] = encoded' /\ Held'[2] = encode_queue' /\ Held'[3] = local'
    /\ Held'[4] = send_queue'[0] /\ Held'[5] = send_queue'[1] /\ Held'[6] = clearing'.keep
  BY DEF Held, PlaceNo

\* The places are sequences of messages, before and after a step.
LEMMA HeldSpread == (QueueTypes => Held \in Spread) /\ (QueueTypes' => Held' \in Spread)
  <1>1. ASSUME QueueTypes
        PROVE  Held \in Spread
    <2>1. /\ encoded \in Seq(MsgType) /\ encode_queue \in Seq(MsgType) /\ local \in Seq(MsgType)
          /\ send_queue[0] \in Seq(MsgType) /\ send_queue[1] \in Seq(MsgType)
          /\ clearing.keep \in Seq(MsgType)
      BY <1>1 DEF QueueTypes, Priorities, ClearingType
    <2> QED BY <2>1 DEF Held, Spread
  <1>2. ASSUME QueueTypes'
        PROVE  Held' \in Spread
    <2>1. /\ encoded' \in Seq(MsgType) /\ encode_queue' \in Seq(MsgType) /\ local' \in Seq(MsgType)
          /\ send_queue'[0] \in Seq(MsgType) /\ send_queue'[1] \in Seq(MsgType)
          /\ clearing'.keep \in Seq(MsgType)
      BY <1>2 DEF QueueTypes, Priorities, ClearingType
    <2> QED BY <2>1 DEF Held, Spread
  <1> QED BY <1>1, <1>2

\* At the start every place is empty.
LEMMA InitPipeline == PipelineInit => PipelineInv
  <1> SUFFICES ASSUME PipelineInit PROVE PipelineInv
    OBVIOUS
  <1>1. QueueTypes
    BY PipelineConstants DEF PipelineInit, QueueTypes, Priorities, ClearingType, Idle
  <1>2. ControlTypes
    <2>1. link \in {"none", "handshake", "linked", "closed"} /\ draining \subseteq Channels /\ alive \subseteq Threads
      BY DEF PipelineInit
    <2>2. events \in 0 .. MaxEvents
      BY PipelineConstants DEF PipelineInit
    <2>3. running \in BOOLEAN /\ closed \in BOOLEAN
      BY DEF PipelineInit
    <2> QED BY <2>1, <2>2, <2>3 DEF ControlTypes
  <1>3. /\ encoded = <<>> /\ encode_queue = <<>> /\ local = <<>>
        /\ send_queue[0] = <<>> /\ send_queue[1] = <<>> /\ clearing.keep = <<>>
    BY DEF PipelineInit, Priorities, Idle
  <1>4. \A k \in PlaceNo : Held[k] = <<>>
    BY <1>3 DEF Held
  <1>5. \A k \in PlaceNo : \A i \in 1 .. Len(Held[k]) : FALSE
    BY <1>4
  <1>6. Way \subseteq PlaceNo /\ 4 \in PlaceNo /\ 5 \in PlaceNo
    BY DEF Way, PlaceNo
  <1>7. Good(Held, moved, accepted)
    BY <1>5, <1>6 DEF Good, Unique, Ordered, Sorted, Below
  <1> QED BY <1>1, <1>2, <1>7 DEF PipelineInv

\* A step by which a place loses its first message, or every one, keeps the invariant.
LEMMA LeftStep ==
    ASSUME PipelineInv, QueueTypes', ControlTypes', NEW k \in PlaceNo, FirstLeft(Held[k], Held'[k]),
           \A l \in PlaceNo \ {k} : Held'[l] = Held[l], moved \subseteq moved', accepted' = accepted
    PROVE  PipelineInv'
  <1>1. PICK P \in Spread, Q \in Spread : P = Held /\ Q = Held'
    BY HeldSpread DEF PipelineInv
  <1>0. PICK n \in Nat : n = accepted
    BY DEF PipelineInv, QueueTypes
  <1>2. PICK M, N : M = moved /\ N = moved' /\ n = accepted
    BY <1>0
  <1>3. Good(P, M, n)
    BY <1>1, <1>2 DEF PipelineInv
  <1>4. Good(Q, M, n)
    BY <1>1, <1>3, GoodLeft
  <1>5. Good(Q, N, n)
    BY <1>2, <1>4, GoodMono
  <1> QED BY <1>1, <1>2, <1>5 DEF PipelineInv

\* A step by which a message moves keeps the invariant.
LEMMA MoveStep ==
    ASSUME PipelineInv, QueueTypes', ControlTypes', NEW k \in PlaceNo, NEW l \in PlaceNo, NEW x \in MsgType,
           Moves(Held, Held', moved', k, l, x), moved \subseteq moved', accepted' = accepted
    PROVE  PipelineInv'
  <1>1. PICK P \in Spread, Q \in Spread : P = Held /\ Q = Held'
    BY HeldSpread DEF PipelineInv
  <1>0. PICK n \in Nat : n = accepted
    BY DEF PipelineInv, QueueTypes
  <1>2. PICK M, N : M = moved /\ N = moved' /\ n = accepted
    BY <1>0
  <1>3. Good(P, M, n) /\ Moves(P, Q, N, k, l, x) /\ M \subseteq N
    BY <1>1, <1>2 DEF PipelineInv
  <1>4. Good(Q, N, n)
    BY <1>3, GoodMove
  <1> QED BY <1>1, <1>2, <1>4 DEF PipelineInv

\* A step that leaves every place alone keeps the invariant.
LEMMA QuietPipeline ==
    ASSUME PipelineInv, UNCHANGED <<queues, clearing>>, ControlTypes'
    PROVE  PipelineInv'
  <1>1. UNCHANGED <<accepted, send_queue, local, encode_queue, encoded, moved, clearing>>
    BY DEF queues
  <1>2. QueueTypes'
    BY <1>1 DEF PipelineInv, QueueTypes, ClearingType
  <1>3. Held' = Held
    BY <1>1 DEF Held
  <1> QED BY <1>1, <1>2, <1>3 DEF PipelineInv

\* A step of the queues leaves the threads and the link alone.
LEMMA ControlHolds ==
    ASSUME PipelineInv, UNCHANGED <<env, control>>
    PROVE  ControlTypes'
  BY DEF PipelineInv, ControlTypes, env, control

\* One message fits while the queues are below their limit.
LEMMA OneMore ==
    \A a, b, e, q, u, v \in Nat : a + b + e < q /\ u + v = a + b + 1 => u + v <= q
  OBVIOUS

\* When one of the two send queues has grown by one message, they are as many and one more.
LEMMA OneLonger ==
    \A p \in {0, 1}, a, b \in Nat : \A u, v :
        (p = 0 => u = a + 1 /\ v = b) /\ (p = 1 => u = a /\ v = b + 1)
        => u \in Nat /\ v \in Nat /\ u + v = a + b + 1
  <1> TAKE p \in {0, 1}, a, b \in Nat
  <1>1. CASE p = 0
    BY <1>1
  <1>2. CASE p = 1
    BY <1>2
  <1> QED BY <1>1, <1>2

\* The lengths that send_message and the requeue count.
LEMMA QueueLengths ==
    QueueTypes => Len(send_queue[0]) \in Nat /\ Len(send_queue[1]) \in Nat /\ Len(encode_queue) \in Nat
  BY DEF QueueTypes, Priorities

\* One message may come to a send queue while the queues are below the limit.
LEMMA RoomForOne ==
    ASSUME QueueTypes, Total < QueueLimit, NEW p \in {0, 1}, NEW s \in Seq(MsgType), s = send_queue[p],
           NEW t \in Seq(MsgType), Len(t) = Len(s) + 1, send_queue'[p] = t,
           \A r \in Priorities \ {p} : send_queue'[r] = send_queue[r]
    PROVE  Len(send_queue'[0]) + Len(send_queue'[1]) <= QueueLimit
  <1>1. PICK a \in Nat, b \in Nat, e \in Nat :
            a = Len(send_queue[0]) /\ b = Len(send_queue[1]) /\ e = Len(encode_queue)
    BY QueueLengths, Zenon
  <1>2. QueueLimit \in Nat /\ a + b + e < QueueLimit
    BY <1>1, PipelineConstants DEF Total
  <1>3. PICK u, v : u = Len(send_queue'[0]) /\ v = Len(send_queue'[1])
    OBVIOUS
  <1>4. (p = 0 => u = a + 1 /\ v = b) /\ (p = 1 => u = a /\ v = b + 1)
    <2>1. CASE p = 0
      <3>1. Len(s) = a /\ u = Len(t) /\ v = b
        BY <1>1, <1>3, <2>1 DEF Priorities
      <3> QED BY <2>1, <3>1
    <2>2. CASE p = 1
      <3>1. Len(s) = b /\ v = Len(t) /\ u = a
        BY <1>1, <1>3, <2>2 DEF Priorities
      <3> QED BY <2>2, <3>1
    <2> QED BY <2>1, <2>2
  <1>5. u \in Nat /\ v \in Nat /\ u + v = a + b + 1
    BY <1>4, OneLonger
  <1>6. u + v <= QueueLimit
    BY <1>2, <1>5, OneMore, Zenon
  <1> QED BY <1>3, <1>6, Zenon

\* send_message: the new message has the largest number, and there is room for it.
LEMMA SendStep ==
    ASSUME PipelineInv, NEW c \in Channels, NEW p \in {0, 1}, send_message_on(c, p)
    PROVE  PipelineInv'
  <1>1. QueueTypes /\ Good(Held, moved, accepted)
    BY DEF PipelineInv
  <1>2. PICK n \in Nat : n = accepted /\ n + 1 \in 1 .. MaxMessages
    BY <1>1, PipelineConstants DEF QueueTypes, send_message_on
  <1>3. PICK x : x = [id |-> n + 1, ch |-> c, prio |-> p, whole |-> TRUE]
    OBVIOUS
  <1>4. x \in MsgType /\ x.id = n + 1 /\ x.prio = p
    BY <1>2, <1>3 DEF MsgType, Priorities
  <1>5. PICK s \in Seq(MsgType) : s = send_queue[p]
    BY <1>1 DEF QueueTypes, Priorities
  <1>6. PICK t \in Seq(MsgType) : t = Append(s, x) /\ Len(t) = Len(s) + 1 /\ Len(s) \in Nat /\ Grown(s, x, t)
    BY <1>4, AppendGrown
  <1>7. /\ accepted' = n + 1 /\ send_queue' = [send_queue EXCEPT ![p] = t]
        /\ UNCHANGED <<local, encode_queue, encoded, moved, clearing, env, control>>
    BY <1>2, <1>3, <1>5, <1>6 DEF send_message_on
  <1>8. /\ send_queue' \in [Priorities -> Seq(MsgType)] /\ send_queue'[p] = t
        /\ \A r \in Priorities \ {p} : send_queue'[r] = send_queue[r]
    BY <1>1, <1>7 DEF QueueTypes, Priorities
  <1>9. Len(send_queue'[0]) + Len(send_queue'[1]) <= QueueLimit
    <2>1. Total < QueueLimit
      BY DEF send_message_on
    <2> QED BY <1>1, <1>5, <1>6, <1>8, <2>1, RoomForOne
  <1>10. QueueTypes'
    <2>1. accepted' \in 0 .. MaxMessages
      BY <1>2, <1>7
    <2>2. /\ local' \in Seq(MsgType) /\ encode_queue' \in Seq(MsgType) /\ Len(encode_queue') <= EncodeLimit
          /\ encoded' \in Seq(MsgType) /\ moved' \subseteq 1 .. MaxMessages /\ ClearingType'
      BY <1>1, <1>7 DEF QueueTypes, ClearingType
    <2> QED BY <1>8, <1>9, <2>1, <2>2 DEF QueueTypes
  <1>11. PICK P \in Spread, Q \in Spread : P = Held /\ Q = Held'
    BY <1>1, <1>10, HeldSpread
  <1>12. PICK l \in {4, 5} : l = 4 + p
    OBVIOUS
  <1>13. Grown(P[l], x, Q[l]) /\ \A h \in PlaceNo \ {l} : Q[h] = P[h]
    <2>1. P[l] = s /\ Q[l] = t
      <3>1. CASE p = 0
        BY <1>5, <1>8, <1>11, <1>12, <3>1, HeldPlaces
      <3>2. CASE p = 1
        BY <1>5, <1>8, <1>11, <1>12, <3>2, HeldPlaces
      <3> QED BY <3>1, <3>2
    <2>2. \A h \in PlaceNo \ {l} : Q[h] = P[h]
      BY <1>7, <1>8, <1>11, <1>12 DEF Held, Priorities
    <2> QED BY <1>6, <2>1, <2>2
  <1>14. PICK M : M = moved
    OBVIOUS
  <1>15. Good(P, M, n)
    BY <1>1, <1>2, <1>11, <1>14
  <1>16. x.prio = l - 4
    BY <1>4, <1>12
  <1>17. Good(Q, M, n + 1)
    BY <1>4, <1>13, <1>15, <1>16, GoodNew
  <1>18. Good(Held, moved, accepted)'
    BY <1>7, <1>11, <1>14, <1>17
  <1> QED BY <1>7, <1>10, <1>18, ControlHolds DEF PipelineInv

\* clear_outbound_impl empties the queue of the default priority.
LEMMA ClearStep ==
    ASSUME PipelineInv, clear_outbound
    PROVE  PipelineInv'
  <1>1. QueueTypes
    BY DEF PipelineInv
  <1>2. /\ send_queue' \in [Priorities -> Seq(MsgType)] /\ send_queue'[0] = <<>> /\ send_queue'[1] = send_queue[1]
        /\ clearing' = [at |-> "encode", keep |-> <<>>] /\ clearing.keep = <<>>
        /\ UNCHANGED <<accepted, local, encode_queue, encoded, moved>>
    BY <1>1 DEF clear_outbound, QueueTypes, Priorities, Idle
  <1>3. Len(send_queue'[0]) + Len(send_queue'[1]) <= QueueLimit
    <2>1. PICK a \in Nat, b \in Nat : a = Len(send_queue[0]) /\ b = Len(send_queue[1])
      BY <1>1 DEF QueueTypes, Priorities
    <2>2. a + b <= QueueLimit /\ QueueLimit \in Nat
      BY <1>1, <2>1, PipelineConstants DEF QueueTypes
    <2>3. PICK u \in Nat, v \in Nat : u = Len(send_queue'[0]) /\ v = Len(send_queue'[1]) /\ u = 0 /\ v = b
      BY <1>2, <2>1
    <2>4. u + v <= QueueLimit
      BY <2>2, <2>3
    <2> QED BY <2>3, <2>4, Zenon
  <1>4. QueueTypes'
    BY <1>1, <1>2, <1>3 DEF QueueTypes, ClearingType
  <1>5. ControlTypes'
    <2>1. events' \in 0 .. MaxEvents /\ UNCHANGED <<link, draining, running, closed, alive>>
      BY PipelineConstants DEF clear_outbound, Event, control, PipelineInv, ControlTypes
    <2> QED BY <2>1 DEF PipelineInv, ControlTypes
  <1>6. 4 \in PlaceNo /\ FirstLeft(Held[4], Held'[4])
    BY <1>2, HeldPlaces DEF FirstLeft, Held, PlaceNo
  <1>7. \A l \in PlaceNo \ {4} : Held'[l] = Held[l]
    BY <1>2 DEF Held
  <1> QED BY <1>2, <1>4, <1>5, <1>6, <1>7, LeftStep

\* clear_outbound_impl takes a task from the encode queue, and keeps the audio.
LEMMA ClearEncodeStep ==
    ASSUME PipelineInv, clear_encode
    PROVE  PipelineInv'
  <1>1. QueueTypes
    BY DEF PipelineInv
  <1>2. UNCHANGED <<accepted, send_queue, local, encoded, moved>> /\ ControlTypes'
    BY ControlHolds DEF clear_encode
  <1>3. CASE encode_queue = <<>>
    <2>1. encode_queue' = encode_queue /\ clearing' = [clearing EXCEPT !.at = "push"]
      BY <1>3 DEF clear_encode
    <2>2. ClearingType' /\ clearing'.keep = clearing.keep
      BY <1>1, <2>1 DEF QueueTypes, ClearingType
    <2>3. QueueTypes'
      BY <1>1, <1>2, <2>1, <2>2 DEF QueueTypes
    <2>4. Held' = Held
      BY <1>2, <2>1, <2>2 DEF Held
    <2> QED BY <1>2, <2>3, <2>4 DEF PipelineInv
  <1>4. CASE encode_queue # <<>>
    <2>1. PICK s \in Seq(MsgType) : s = encode_queue /\ s # <<>>
      BY <1>1, <1>4 DEF QueueTypes
    <2>2. PICK t \in Seq(MsgType) : t = Tail(s) /\ FirstLeft(s, t) /\ Len(t) = Len(s) - 1 /\ Len(s) \in Nat
      BY <2>1, TailLeft
    <2>3. PICK x \in MsgType : x = Head(s) /\ x = s[1]
      BY <2>1, TailLeft
    <2>4. PICK a \in Seq(MsgType) : a = clearing.keep
      BY <1>1 DEF QueueTypes, ClearingType
    <2>5. PICK b \in Seq(MsgType) : b = Append(a, x) /\ Grown(a, x, b)
      BY AppendGrown
    <2>6. encode_queue' = t /\ (clearing' = [clearing EXCEPT !.keep = b] \/ clearing' = clearing)
      <3>1. encode_queue' = t /\ clearing' = [clearing EXCEPT !.keep = IF x.ch = 1 THEN b ELSE a]
        BY <1>4, <2>1, <2>2, <2>3, <2>4, <2>5 DEF clear_encode, Unlinked
      <3>2. [clearing EXCEPT !.keep = a] = clearing
        BY <1>1, <2>4 DEF QueueTypes, ClearingType
      <3> QED BY <3>1, <3>2
    <2>7. ClearingType' /\ (clearing'.keep = b \/ clearing' = clearing)
      BY <1>1, <2>6 DEF QueueTypes, ClearingType
    <2>8. Len(encode_queue') <= EncodeLimit
      <3>1. Len(s) <= EncodeLimit /\ EncodeLimit \in Nat
        BY <1>1, <2>1, PipelineConstants DEF QueueTypes
      <3> QED BY <2>2, <2>6, <3>1
    <2>9. QueueTypes'
      BY <1>1, <1>2, <2>6, <2>7, <2>8 DEF QueueTypes
    <2>10. /\ Held[2] = s /\ Held'[2] = t /\ Held[6] = a /\ Held'[6] = clearing'.keep /\ 2 \in PlaceNo /\ 6 \in PlaceNo
           /\ \A h \in PlaceNo \ {2, 6} : Held'[h] = Held[h]
      <3>1. Held[2] = s /\ Held'[2] = t /\ Held[6] = a /\ Held'[6] = clearing'.keep /\ 2 \in PlaceNo /\ 6 \in PlaceNo
        BY <2>1, <2>4, <2>6 DEF Held, PlaceNo
      <3>2. \A h \in PlaceNo \ {2, 6} : Held'[h] = Held[h]
        <4>1. \A h \in PlaceNo \ {2, 6} : h \in {1, 3, 4, 5}
          BY DEF PlaceNo
        <4> QED BY <1>2, <4>1, HeldPlaces
      <3> QED BY <3>1, <3>2
    <2>11. CASE clearing' = clearing
      <3>1. \A h \in PlaceNo \ {2} : Held'[h] = Held[h]
        BY <2>10, <2>11, <2>4
      <3> QED BY <1>2, <2>2, <2>9, <2>10, <3>1, LeftStep
    <2>12. CASE clearing'.keep = b
      <3>1. Moves(Held, Held', moved', 2, 6, x)
        BY <2>1, <2>2, <2>3, <2>5, <2>10, <2>12 DEF Moves, Aside
      <3> QED BY <1>2, <2>9, <2>10, <3>1, MoveStep
    <2> QED BY <2>7, <2>11, <2>12
  <1> QED BY <1>3, <1>4

\* A message comes to the end of the encode queue while there is room.
LEMMA PushedTypes ==
    ASSUME QueueTypes, NEW x \in MsgType, CanPush
    PROVE  /\ Pushed(x) \in Seq(MsgType) /\ Len(Pushed(x)) <= EncodeLimit /\ Grown(encode_queue, x, Pushed(x))
  <1>1. PICK s \in Seq(MsgType) : s = encode_queue
    BY DEF QueueTypes
  <1>2. Append(s, x) \in Seq(MsgType) /\ Len(Append(s, x)) = Len(s) + 1 /\ Len(s) \in Nat /\ Grown(s, x, Append(s, x))
    BY AppendGrown
  <1>3. Len(s) < EncodeLimit /\ EncodeLimit \in Nat
    BY <1>1, PipelineConstants DEF CanPush
  <1> QED BY <1>1, <1>2, <1>3 DEF Pushed

\* clear_outbound_impl puts the audio back as far as there is room.
LEMMA ClearPushStep ==
    ASSUME PipelineInv, clear_push
    PROVE  PipelineInv'
  <1>1. QueueTypes
    BY DEF PipelineInv
  <1>2. UNCHANGED <<accepted, send_queue, local, encoded>> /\ ControlTypes'
    BY ControlHolds DEF clear_push
  <1>3. CASE clearing.keep = <<>>
    <2>1. clearing' = Idle /\ UNCHANGED <<encode_queue, moved>>
      BY <1>3 DEF clear_push
    <2>2. ClearingType' /\ clearing'.keep = clearing.keep
      BY <1>3, <2>1 DEF ClearingType, Idle
    <2>3. QueueTypes'
      BY <1>1, <1>2, <2>1, <2>2 DEF QueueTypes
    <2>4. Held' = Held
      BY <1>2, <2>1, <2>2 DEF Held
    <2> QED BY <1>2, <2>1, <2>3, <2>4 DEF PipelineInv
  <1>4. CASE clearing.keep # <<>>
    <2>1. PICK s \in Seq(MsgType) : s = clearing.keep /\ s # <<>>
      BY <1>1, <1>4 DEF QueueTypes, ClearingType
    <2>2. PICK t \in Seq(MsgType) : t = Tail(s) /\ FirstLeft(s, t)
      BY <2>1, TailLeft
    <2>3. PICK x \in MsgType : x = Head(s) /\ x = s[1] /\ x.id \in 1 .. MaxMessages
      BY <2>1, TailLeft DEF MsgType
    <2>4. /\ clearing' = [clearing EXCEPT !.keep = t] /\ moved' = moved \cup {x.id}
          /\ encode_queue' = IF CanPush THEN Pushed(x) ELSE encode_queue
      BY <1>4, <2>1, <2>2, <2>3 DEF clear_push
    <2>5. ClearingType' /\ clearing'.keep = t
      BY <1>1, <2>4 DEF QueueTypes, ClearingType
    <2>6. moved' \subseteq 1 .. MaxMessages /\ moved \subseteq moved' /\ x.id \in moved'
      BY <1>1, <2>3, <2>4 DEF QueueTypes
    <2>7. encode_queue' \in Seq(MsgType) /\ Len(encode_queue') <= EncodeLimit
      BY <1>1, <2>4, PushedTypes DEF QueueTypes
    <2>8. QueueTypes'
      BY <1>1, <1>2, <2>5, <2>6, <2>7 DEF QueueTypes
    <2>9. Held[6] = s /\ Held'[6] = t /\ Held[2] = encode_queue /\ Held'[2] = encode_queue' /\ 2 \in PlaceNo /\ 6 \in PlaceNo
      BY <2>1, <2>5, HeldPlaces DEF PlaceNo
    <2>10. \A h \in PlaceNo \ {6, 2} : Held'[h] = Held[h]
      <3>1. \A h \in PlaceNo \ {6, 2} : h \in {1, 3, 4, 5}
        BY DEF PlaceNo
      <3> QED BY <1>2, <3>1, HeldPlaces
    <2>11. CASE CanPush
      <3>1. Grown(Held[2], x, Held'[2])
        BY <1>1, <2>4, <2>9, <2>11, PushedTypes
      <3>2. Moves(Held, Held', moved', 6, 2, x)
        BY <2>1, <2>2, <2>3, <2>6, <2>9, <2>10, <3>1 DEF Moves
      <3> QED BY <1>2, <2>6, <2>8, <2>9, <3>2, MoveStep
    <2>12. CASE ~CanPush
      <3>1. \A h \in PlaceNo \ {6} : Held'[h] = Held[h]
        BY <2>4, <2>9, <2>10, <2>12
      <3> QED BY <1>2, <2>2, <2>6, <2>8, <2>9, <3>1, LeftStep
    <2> QED BY <2>11, <2>12
  <1> QED BY <1>3, <1>4

\* What the concatenation of two queues holds, and where.
LEMMA Joined ==
    ASSUME NEW s \in Seq(MsgType), NEW t \in Seq(MsgType)
    PROVE  /\ s \o t \in Seq(MsgType) /\ Len(s \o t) = Len(s) + Len(t)
           /\ \A i \in 1 .. Len(s \o t) : (s \o t)[i] = IF i <= Len(s) THEN s[i] ELSE t[i - Len(s)]
  OBVIOUS

\* The reactor swaps the send queues out.
LEMMA SwapStep ==
    ASSUME PipelineInv, process_send_queue_swap
    PROVE  PipelineInv'
  <1>1. QueueTypes /\ Good(Held, moved, accepted)
    BY DEF PipelineInv
  <1>2. PICK s \in Seq(MsgType), t \in Seq(MsgType) : s = send_queue[1] /\ t = send_queue[0]
    BY <1>1 DEF QueueTypes, Priorities
  <1>3. PICK u \in Seq(MsgType) :
            /\ u = s \o t /\ Len(u) = Len(s) + Len(t)
            /\ \A i \in 1 .. Len(u) : u[i] = IF i <= Len(s) THEN s[i] ELSE t[i - Len(s)]
    BY Joined
  <1>4. /\ local' = u /\ send_queue' = [p \in Priorities |-> <<>>]
        /\ UNCHANGED <<accepted, encode_queue, encoded, moved, clearing>>
    BY <1>2, <1>3 DEF process_send_queue_swap
  <1>5. send_queue' \in [Priorities -> Seq(MsgType)] /\ Len(send_queue'[0]) = 0 /\ Len(send_queue'[1]) = 0
    BY <1>4 DEF Priorities
  <1>6. QueueTypes'
    <2>1. Len(send_queue'[0]) + Len(send_queue'[1]) <= QueueLimit
      BY <1>5, PipelineConstants
    <2> QED BY <1>1, <1>4, <1>5, <2>1 DEF QueueTypes, ClearingType
  <1>7. PICK P \in Spread, Q \in Spread : P = Held /\ Q = Held'
    BY <1>1, <1>6, HeldSpread
  <1>8. /\ P[5] = s /\ P[4] = t /\ Q[3] = u /\ Len(Q[4]) = 0 /\ Len(Q[5]) = 0
        /\ \A h \in {1, 2, 6} : Q[h] = P[h]
    BY <1>2, <1>4, <1>5, <1>7, HeldPlaces
  <1>9. PICK n \in Nat : n = accepted
    BY <1>1 DEF QueueTypes
  <1>10. PICK M : M = moved
    OBVIOUS
  <1>11. Good(P, M, n)
    BY <1>1, <1>7, <1>9, <1>10
  <1>12. /\ Len(Q[3]) = Len(P[5]) + Len(P[4])
         /\ \A i \in 1 .. Len(Q[3]) : Q[3][i] = IF i <= Len(P[5]) THEN P[5][i] ELSE P[4][i - Len(P[5])]
    BY <1>3, <1>8
  <1>13. Good(Q, M, n)
    BY <1>8, <1>11, <1>12, GoodSwap
  <1>14. Good(Held, moved, accepted)'
    BY <1>4, <1>7, <1>9, <1>10, <1>13
  <1>15. ControlTypes'
    BY ControlHolds DEF process_send_queue_swap
  <1> QED BY <1>6, <1>14, <1>15 DEF PipelineInv

\* The first message of the swapped-out queue, or what try_push left of it, is put back.
LEMMA RequeueStep ==
    ASSUME PipelineInv, local # <<>>, NEW x \in MsgType, x.id = Head(local).id, requeue(x),
           local' = Tail(local), UNCHANGED <<accepted, encode_queue, encoded, clearing, env, control>>
    PROVE  PipelineInv'
  <1>1. QueueTypes
    BY DEF PipelineInv
  <1>2. PICK s \in Seq(MsgType) : s = local /\ s # <<>>
    BY <1>1 DEF QueueTypes
  <1>3. PICK t \in Seq(MsgType) : t = Tail(s) /\ FirstLeft(s, t) /\ Head(s) = s[1]
    BY <1>2, TailLeft
  <1>4. local' = t /\ x.id = s[1].id /\ x.id \in 1 .. MaxMessages
    BY <1>2, <1>3 DEF MsgType
  <1>5. ControlTypes'
    BY ControlHolds
  <1>6. Held[3] = s /\ Held'[3] = t /\ 3 \in PlaceNo
    BY <1>2, <1>4, HeldPlaces DEF PlaceNo
  <1>7. CASE Total >= QueueLimit /\ UNCHANGED <<send_queue, moved>>
    <2>1. QueueTypes'
      BY <1>1, <1>4, <1>7 DEF QueueTypes, ClearingType
    <2>2. \A h \in PlaceNo \ {3} : Held'[h] = Held[h]
      <3>1. \A h \in PlaceNo \ {3} : h \in {1, 2, 4, 5, 6}
        BY DEF PlaceNo
      <3> QED BY <1>7, <3>1, HeldPlaces
    <2> QED BY <1>3, <1>5, <1>6, <1>7, <2>1, <2>2, LeftStep
  <1>8. CASE Total < QueueLimit /\ send_queue' = [send_queue EXCEPT ![x.prio] = Append(send_queue[x.prio], x)]
             /\ moved' = moved \cup {x.id}
    <2>1. PICK p \in {0, 1} : p = x.prio
      BY DEF MsgType, Priorities
    <2>2. PICK a \in Seq(MsgType) : a = send_queue[p]
      BY <1>1 DEF QueueTypes, Priorities
    <2>3. PICK b \in Seq(MsgType) : b = Append(a, x) /\ Len(b) = Len(a) + 1 /\ Len(a) \in Nat /\ Grown(a, x, b)
      BY AppendGrown
    <2>4. send_queue' = [send_queue EXCEPT ![p] = b]
      BY <1>8, <2>1, <2>2, <2>3
    <2>5. /\ send_queue' \in [Priorities -> Seq(MsgType)] /\ send_queue'[p] = b
          /\ \A r \in Priorities \ {p} : send_queue'[r] = send_queue[r]
      BY <1>1, <2>4 DEF QueueTypes, Priorities
    <2>6. Len(send_queue'[0]) + Len(send_queue'[1]) <= QueueLimit
      BY <1>1, <1>8, <2>2, <2>3, <2>5, RoomForOne
    <2>7. moved' \subseteq 1 .. MaxMessages /\ moved \subseteq moved' /\ x.id \in moved'
      BY <1>1, <1>4, <1>8 DEF QueueTypes
    <2>8. QueueTypes'
      BY <1>1, <1>4, <2>5, <2>6, <2>7 DEF QueueTypes, ClearingType
    <2>9. PICK l \in {4, 5} : l = 4 + p
      OBVIOUS
    <2>10. Held[l] = a /\ Held'[l] = b /\ l \in PlaceNo /\ l # 3 /\ l # Aside
      <3>1. CASE p = 0
        BY <2>2, <2>5, <2>9, <3>1, HeldPlaces DEF PlaceNo, Aside
      <3>2. CASE p = 1
        BY <2>2, <2>5, <2>9, <3>2, HeldPlaces DEF PlaceNo, Aside
      <3> QED BY <3>1, <3>2
    <2>11. \A h \in PlaceNo \ {3, l} : Held'[h] = Held[h]
      <3>1. \A h \in PlaceNo \ {3, l} : h \in {1, 2, 6} \/ (h = 4 /\ p = 1) \/ (h = 5 /\ p = 0)
        BY <2>9 DEF PlaceNo
      <3>2. (p = 1 => send_queue'[0] = send_queue[0]) /\ (p = 0 => send_queue'[1] = send_queue[1])
        BY <2>5 DEF Priorities
      <3> QED BY <3>1, <3>2, HeldPlaces
    <2>12. (l = 4 => x.prio = 0) /\ (l = 5 => x.prio = 1)
      BY <2>1, <2>9
    <2>13. Moves(Held, Held', moved', 3, l, x)
      BY <1>2, <1>3, <1>4, <1>6, <2>3, <2>7, <2>10, <2>11, <2>12 DEF Moves
    <2> QED BY <1>5, <1>6, <2>7, <2>8, <2>10, <2>13, MoveStep
  <1> QED BY <1>7, <1>8 DEF requeue

\* process_send_queue: discarded, put back, pushed, or put back because it was refused.
LEMMA ProcessStep ==
    ASSUME PipelineInv, process_send_queue
    PROVE  PipelineInv'
  <1>1. QueueTypes
    BY DEF PipelineInv
  <1>2. PICK s \in Seq(MsgType) : s = local /\ s # <<>>
    BY <1>1 DEF QueueTypes, process_send_queue
  <1>3. PICK t \in Seq(MsgType) : t = Tail(s) /\ FirstLeft(s, t)
    BY <1>2, TailLeft
  <1>4. PICK m \in MsgType : m = Head(s) /\ m = s[1]
    BY <1>2, TailLeft
  <1>5. local' = t /\ local' = Tail(local) /\ m = Head(local)
        /\ UNCHANGED <<accepted, encoded, clearing, env, control>> /\ ControlTypes'
    BY <1>2, <1>3, <1>4, ControlHolds DEF process_send_queue
  <1>6. Held[3] = s /\ Held'[3] = t /\ 3 \in PlaceNo
    BY <1>2, <1>5, HeldPlaces DEF PlaceNo
  <1>7. CASE UNCHANGED <<send_queue, encode_queue, moved>>
    <2>1. QueueTypes'
      BY <1>1, <1>5, <1>7 DEF QueueTypes, ClearingType
    <2>2. \A h \in PlaceNo \ {3} : Held'[h] = Held[h]
      <3>1. \A h \in PlaceNo \ {3} : h \in {1, 2, 4, 5, 6}
        BY DEF PlaceNo
      <3> QED BY <1>5, <1>7, <3>1, HeldPlaces
    <2> QED BY <1>3, <1>5, <1>6, <1>7, <2>1, <2>2, LeftStep
  <1>8. CASE requeue(m) /\ UNCHANGED encode_queue
    BY <1>2, <1>5, <1>8, RequeueStep
  <1>9. CASE CanPush /\ encode_queue' = Pushed(m) /\ UNCHANGED <<send_queue, moved>>
    <2>1. encode_queue' \in Seq(MsgType) /\ Len(encode_queue') <= EncodeLimit /\ Grown(encode_queue, m, encode_queue')
      BY <1>1, <1>9, PushedTypes
    <2>2. QueueTypes'
      BY <1>1, <1>5, <1>9, <2>1 DEF QueueTypes, ClearingType
    <2>3. Grown(Held[2], m, Held'[2]) /\ 2 \in PlaceNo
      BY <2>1, HeldPlaces DEF PlaceNo
    <2>4. \A h \in PlaceNo \ {3, 2} : Held'[h] = Held[h]
      <3>1. \A h \in PlaceNo \ {3, 2} : h \in {1, 4, 5, 6}
        BY DEF PlaceNo
      <3> QED BY <1>5, <1>9, <3>1, HeldPlaces
    <2>5. Moves(Held, Held', moved', 3, 2, m)
      BY <1>2, <1>3, <1>4, <1>6, <2>3, <2>4 DEF Moves
    <2> QED BY <1>5, <1>6, <1>9, <2>2, <2>3, <2>5, MoveStep
  <1>10. CASE requeue([m EXCEPT !.prio = 0, !.whole = FALSE]) /\ UNCHANGED encode_queue
    <2>1. PICK x \in MsgType : x = [m EXCEPT !.prio = 0, !.whole = FALSE] /\ x.id = m.id
      <3>1. [m EXCEPT !.prio = 0, !.whole = FALSE] \in MsgType
        BY DEF MsgType, Priorities
      <3>2. [m EXCEPT !.prio = 0, !.whole = FALSE].id = m.id
        BY DEF MsgType
      <3> QED BY <3>1, <3>2
    <2>2. requeue(x)
      BY <1>10, <2>1
    <2> QED BY <1>2, <1>5, <1>10, <2>1, <2>2, RequeueStep
  <1>11. \/ UNCHANGED <<send_queue, encode_queue, moved>>
         \/ requeue(m) /\ UNCHANGED encode_queue
         \/ CanPush /\ encode_queue' = Pushed(m) /\ UNCHANGED <<send_queue, moved>>
         \/ requeue([m EXCEPT !.prio = 0, !.whole = FALSE]) /\ UNCHANGED encode_queue
    BY <1>5, Zenon DEF process_send_queue
  <1> QED BY <1>7, <1>8, <1>9, <1>10, <1>11

\* encode_loop takes the first task: it is dropped, or cut into packets.
LEMMA EncodeStep ==
    ASSUME PipelineInv, encode_loop
    PROVE  PipelineInv'
  <1>1. QueueTypes
    BY DEF PipelineInv
  <1>2. PICK s \in Seq(MsgType) : s = encode_queue /\ s # <<>>
    BY <1>1 DEF QueueTypes, encode_loop
  <1>3. PICK t \in Seq(MsgType) : t = Tail(s) /\ FirstLeft(s, t) /\ Len(t) = Len(s) - 1 /\ Len(s) \in Nat
    BY <1>2, TailLeft
  <1>4. PICK x \in MsgType : x = Head(s) /\ x = s[1]
    BY <1>2, TailLeft
  <1>5. encode_queue' = t /\ UNCHANGED <<accepted, send_queue, local, moved, clearing>> /\ ControlTypes'
    BY <1>2, <1>3, ControlHolds DEF encode_loop, Unlinked
  <1>6. Len(encode_queue') <= EncodeLimit
    <2>1. Len(s) <= EncodeLimit /\ EncodeLimit \in Nat
      BY <1>1, <1>2, PipelineConstants DEF QueueTypes
    <2> QED BY <1>3, <1>5, <2>1
  <1>7. PICK a \in Seq(MsgType) : a = encoded
    BY <1>1 DEF QueueTypes
  <1>8. PICK b \in Seq(MsgType) : b = Append(a, x) /\ Grown(a, x, b)
    BY AppendGrown
  <1>9. encoded' = a \/ encoded' = b
    BY <1>2, <1>4, <1>7, <1>8 DEF encode_loop
  <1>10. QueueTypes'
    BY <1>1, <1>5, <1>6, <1>9 DEF QueueTypes, ClearingType
  <1>11. Held[2] = s /\ Held'[2] = t /\ Held[1] = a /\ Held'[1] = encoded' /\ 1 \in PlaceNo /\ 2 \in PlaceNo
    BY <1>2, <1>5, <1>7, HeldPlaces DEF PlaceNo
  <1>12. \A h \in PlaceNo \ {2, 1} : Held'[h] = Held[h]
    <2>1. \A h \in PlaceNo \ {2, 1} : h \in {3, 4, 5, 6}
      BY DEF PlaceNo
    <2> QED BY <1>5, <2>1, HeldPlaces
  <1>13. CASE encoded' = a
    <2>1. \A h \in PlaceNo \ {2} : Held'[h] = Held[h]
      BY <1>11, <1>12, <1>13
    <2> QED BY <1>3, <1>5, <1>10, <1>11, <2>1, LeftStep
  <1>14. CASE encoded' = b
    <2>1. Moves(Held, Held', moved', 2, 1, x)
      BY <1>2, <1>3, <1>4, <1>8, <1>11, <1>12, <1>14 DEF Moves
    <2> QED BY <1>5, <1>10, <1>11, <2>1, MoveStep
  <1> QED BY <1>9, <1>13, <1>14

\* The steps of the environment and of stop() leave the queues alone.
LEMMA EnvironmentStep ==
    ASSUME PipelineInv, UNCHANGED <<queues, clearing>>,
           link' \in {"none", "handshake", "linked", "closed"}, draining' \subseteq Channels,
           events' = events \/ Event, running' \in BOOLEAN, closed' \in BOOLEAN, alive' \subseteq alive
    PROVE  PipelineInv'
  <1>1. events' \in 0 .. MaxEvents
    <2>1. events \in 0 .. MaxEvents
      BY DEF PipelineInv, ControlTypes
    <2> QED BY <2>1, PipelineConstants DEF Event
  <1>2. alive' \subseteq Threads
    BY DEF PipelineInv, ControlTypes
  <1>3. ControlTypes'
    BY <1>1, <1>2 DEF ControlTypes
  <1> QED BY <1>3, QuietPipeline

\* Every step keeps the invariant.
LEMMA NextPipeline == PipelineInv /\ [PipelineNext]_pipeline => PipelineInv'
  <1> SUFFICES ASSUME PipelineInv, [PipelineNext]_pipeline PROVE PipelineInv'
    OBVIOUS
  <1>0. ControlTypes
    BY DEF PipelineInv
  <1>1. ASSUME NEW k \in Kinds, send_message_on(k[1], k[2])
        PROVE  PipelineInv'
    <2>1. k[1] \in Channels /\ k[2] \in {0, 1}
      BY PipelineConstants DEF Channels
    <2> QED BY <1>1, <2>1, SendStep
  <1>2. ASSUME NEW c \in Channels, drain_channel(c) \/ DrainEnds(c)
        PROVE  PipelineInv'
    <2>1. CASE drain_channel(c)
      BY <1>0, <2>1, EnvironmentStep DEF drain_channel, ControlTypes, control
    <2>2. CASE DrainEnds(c)
      BY <1>0, <2>2, EnvironmentStep DEF DrainEnds, ControlTypes, control
    <2> QED BY <1>2, <2>1, <2>2
  <1>3. CASE clear_outbound
    BY <1>3, ClearStep
  <1>4. CASE clearer
    BY <1>4, ClearEncodeStep, ClearPushStep DEF clearer
  <1>5. ASSUME NEW t \in Threads, ThreadEnds(t)
        PROVE  PipelineInv'
    <2>1. UNCHANGED <<queues, clearing, link, draining, events, running, closed>> /\ alive' \subseteq alive
      BY <1>5 DEF ThreadEnds, env
    <2> QED BY <1>0, <2>1, EnvironmentStep DEF ControlTypes
  <1>6. CASE reactor
    <2>1. "reactor" \in Threads
      BY DEF Threads
    <2> QED BY <1>5, <1>6, <2>1, SwapStep, ProcessStep DEF reactor
  <1>7. CASE encode
    <2>1. "encode" \in Threads
      BY DEF Threads
    <2> QED BY <1>5, <1>7, <2>1, EncodeStep DEF encode
  <1>8. CASE stop
    BY <1>0, <1>8, EnvironmentStep DEF stop, env, ControlTypes
  <1>9. CASE stop_close
    BY <1>0, <1>9, EnvironmentStep DEF stop_close, env, ControlTypes
  <1>10. CASE ThreadEnds("cap")
    <2>1. "cap" \in Threads
      BY DEF Threads
    <2> QED BY <1>5, <1>10, <2>1
  <1>11. CASE LinkUp
    BY <1>0, <1>11, EnvironmentStep DEF LinkUp, control, ControlTypes
  <1>12. ASSUME NEW s \in {"none", "handshake", "closed"}, LinkFails(s)
         PROVE  PipelineInv'
    BY <1>0, <1>12, EnvironmentStep DEF LinkFails, control, ControlTypes
  <1>13. CASE UNCHANGED pipeline
    BY <1>0, <1>13, EnvironmentStep DEF pipeline, env, control, ControlTypes
  <1> QED
    BY <1>1, <1>2, <1>3, <1>4, <1>6, <1>7, <1>8, <1>9, <1>10, <1>11, <1>12, <1>13 DEF PipelineNext

\* No two elements of s have one id: as many ids as elements.
LEMMA AsManyIds ==
    ASSUME NEW s \in Seq(MsgType), \A i, j \in 1 .. Len(s) : s[i].id = s[j].id => i = j
    PROVE  Cardinality(Ids(s)) = Len(s)
  <1> DEFINE f == [i \in 1 .. Len(s) |-> s[i].id]
  <1>1. Len(s) \in Nat
    OBVIOUS
  <1>2. IsFiniteSet(1 .. Len(s)) /\ Cardinality(1 .. Len(s)) = Len(s)
    <2>1. IsFiniteSet(1 .. Len(s)) /\ Cardinality(1 .. Len(s)) = IF 1 > Len(s) THEN 0 ELSE Len(s) - 1 + 1
      BY <1>1, FS_Interval
    <2> QED BY <1>1, <2>1
  <1>3. f \in [1 .. Len(s) -> Ids(s)] /\ \A i \in 1 .. Len(s) : f[i] = s[i].id
    BY DEF Ids
  <1>4. \A x \in Ids(s) : \E i \in 1 .. Len(s) : f[i] = x
    BY <1>3 DEF Ids
  <1>5. \A i, j \in 1 .. Len(s) : f[i] = f[j] => i = j
    BY <1>3
  <1> HIDE DEF f
  <1>6. f \in Surjection(1 .. Len(s), Ids(s))
    BY <1>3, <1>4 DEF Surjection
  <1>7. f \in Injection(1 .. Len(s), Ids(s))
    BY <1>3, <1>5 DEF Injection, IsInjective
  <1> QED BY <1>2, <1>6, <1>7, FS_Surjection

\* The invariant says that no queue is past its limit, no message in two places, and that what
\* was encoded without having been put back is in order.
LEMMA InvKeptInOrder == PipelineInv => KeptInOrder
  <1> SUFFICES ASSUME PipelineInv PROVE KeptInOrder
    OBVIOUS
  <1>1. QueueTypes /\ ControlTypes /\ Good(Held, moved, accepted)
    BY DEF PipelineInv
  <1>2. TypeOK
    BY <1>1 DEF TypeOK, QueueTypes, ControlTypes, ClearingType
  <1>3. PICK P \in Spread : P = Held
    BY <1>1, HeldSpread
  <1>4. PICK n, M : n = accepted /\ M = moved
    OBVIOUS
  <1>5. Unique(P) /\ Ordered(P, M)
    BY <1>1, <1>3, <1>4 DEF Good
  <1>6. /\ P[1] = encoded /\ P[2] = encode_queue /\ P[3] = local
        /\ P[4] = send_queue[0] /\ P[5] = send_queue[1] /\ P[6] = clearing.keep
    BY <1>3, HeldPlaces
  <1>7. \A k \in PlaceNo : Cardinality(Ids(P[k])) = Len(P[k])
    <2> SUFFICES ASSUME NEW k \in PlaceNo PROVE Cardinality(Ids(P[k])) = Len(P[k])
      OBVIOUS
    <2>1. PICK s \in Seq(MsgType) : s = P[k]
      BY DEF Spread
    <2>2. \A i, j \in 1 .. Len(s) : s[i].id = s[j].id => i = j
      BY <1>5, <2>1 DEF Unique
    <2> QED BY <2>1, <2>2, AsManyIds
  <1>8. \A k, l \in PlaceNo : k # l => Ids(P[k]) \cap Ids(P[l]) = {}
    BY <1>5 DEF Unique, Ids
  <1>9. OnePlace
    <2> DEFINE places == <<send_queue[0], send_queue[1], local, encode_queue, clearing.keep, encoded>>
               No == <<4, 5, 3, 2, 6, 1>>
    <2>1. \A i \in 1 .. 6 : places[i] = P[No[i]] /\ No[i] \in PlaceNo
      BY <1>6 DEF PlaceNo
    <2>2. \A i, j \in 1 .. 6 : No[i] = No[j] => i = j
      OBVIOUS
    <2> HIDE DEF No
    <2>3. \A i \in 1 .. 6 : Cardinality(Ids(places[i])) = Len(places[i])
      BY <1>7, <2>1
    <2>4. \A i \in 1 .. 6 : \A j \in 1 .. i - 1 : Ids(places[i]) \cap Ids(places[j]) = {}
      <3>1. \A i \in 1 .. 6 : \A j \in 1 .. i - 1 : j \in 1 .. 6 /\ i # j
        OBVIOUS
      <3>2. \A i, j \in 1 .. 6 : i # j => Ids(places[i]) \cap Ids(places[j]) = {}
        <4> SUFFICES ASSUME NEW i \in 1 .. 6, NEW j \in 1 .. 6, i # j
                     PROVE  Ids(places[i]) \cap Ids(places[j]) = {}
          OBVIOUS
        <4>1. No[i] # No[j] /\ No[i] \in PlaceNo /\ No[j] \in PlaceNo
          BY <2>1, <2>2
        <4>2. Ids(P[No[i]]) \cap Ids(P[No[j]]) = {}
          BY <1>8, <4>1, Zenon
        <4> QED BY <2>1, <4>2
      <3> HIDE DEF places
      <3> QED BY <3>1, <3>2
    <2> QED BY <2>3, <2>4 DEF OnePlace
  <1>10. \A i, j \in 1 .. Len(encoded) :
            (i < j /\ encoded[i].prio = encoded[j].prio /\ {encoded[i].id, encoded[j].id} \cap moved = {})
              => encoded[i].id < encoded[j].id
    <2> SUFFICES ASSUME NEW i \in 1 .. Len(P[1]), NEW j \in 1 .. Len(P[1]), i < j,
                        P[1][i].prio = P[1][j].prio, {P[1][i].id, P[1][j].id} \cap M = {}
                 PROVE  P[1][i].id < P[1][j].id
      BY <1>4, <1>6, Zenon
    <2>1. P[1][i].id \notin M /\ P[1][j].id \notin M /\ 1 \in Way
      BY DEF Way
    <2> QED BY <1>5, <2>1, OrderedAt
  <1> QED BY <1>2, <1>9, <1>10 DEF KeptInOrder

\* Whatever is sent, drained, cleared and refused, and wherever the threads are: no queue is
\* past its limit, a message is in one place and cut into packets at most once, and messages of
\* one priority that were never put back leave in the order send_message took them.
THEOREM InOrder == PipelineSpec => []KeptInOrder
  <1>1. PipelineInit => PipelineInv
    BY InitPipeline
  <1>2. PipelineInv /\ [PipelineNext]_pipeline => PipelineInv'
    BY NextPipeline
  <1>3. PipelineInv => KeptInOrder
    BY InvKeptInOrder
  <1> QED BY <1>1, <1>2, <1>3, PTL DEF PipelineSpec
=============================================================================
