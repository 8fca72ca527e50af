--------------------------- MODULE SocLimitsProofs ---------------------------
(***************************************************************************)
(* Proofs about SocLimits, for every SOC scale, margin, pack lag and set   *)
(* of limits.                                                              *)
(***************************************************************************)
EXTENDS SocLimits, TLAPS

\* What the least full pack of a well-typed battery reads.
LEMMA PackType ==
  ASSUME TypeOK PROVE Pack \in 0..Top /\ Pack <= soc /\ soc \in 0..Top
BY ScaleAssumption DEF TypeOK, Pack

Latches == [active : BOOLEAN, base : -1..Top]

LEMMA ClearedType == Cleared \in Latches
<1>1. None \in -1..Top
  BY ScaleAssumption DEF None
<1> QED BY <1>1 DEF Cleared, Latches

LEMMA CurrentType ==
  ASSUME TypeOK PROVE [active |-> active, base |-> base] \in Latches
BY DEF TypeOK, Latches

\* The latch an evaluation of _refresh_battery_charge_limit_blocks() or
\* _get_available_batteries() leaves behind is well formed.
LEMMA EvaluatedType ==
  ASSUME TypeOK, NEW arm PROVE Evaluated(arm) \in Latches
<1>1. soc \in -1..Top
  BY ScaleAssumption DEF TypeOK
<1>2. Kept \in Latches
  BY ClearedType, CurrentType DEF Kept
<1>3. [active |-> TRUE, base |-> IF Kept.base = None THEN soc ELSE Kept.base]
        \in Latches
  <2>1. (IF Kept.base = None THEN soc ELSE Kept.base) \in -1..Top
    BY <1>1, <1>2 DEF Latches
  <2> QED BY <2>1 DEF Latches
<1> QED
  BY <1>2, <1>3, ClearedType DEF Evaluated

\* The latch _get_available_batteries() leaves behind is well formed.
LEMMA ChargeLatchType == ASSUME TypeOK PROVE ChargeLatch \in Latches
<1>1. soc \in -1..Top
  BY ScaleAssumption DEF TypeOK
<1> DEFINE l == IF Routine \in {"weekly", "recal", "tobms"} THEN Cleared
                ELSE Evaluated(Pack >= maxSoc \/ AtTopVoltage)
<1>2. l \in Latches
  BY EvaluatedType, ClearedType
<1>3. [active |-> TRUE, base |-> IF l.base = None THEN soc ELSE l.base]
        \in Latches
  <2>1. (IF l.base = None THEN soc ELSE l.base) \in -1..Top
    BY <1>1, <1>2 DEF Latches
  <2> QED BY <2>1 DEF Latches
<1>4. ChargeLatch = IF noCharge # {} THEN [active |-> active, base |-> base]
        ELSE IF ~l.active /\ IsFull /\ Routine \notin {"recal", "tobms"}
        THEN [active |-> TRUE, base |-> IF l.base = None THEN soc ELSE l.base]
        ELSE l
  BY DEF ChargeLatch
<1> HIDE DEF l
<1> QED
  BY <1>2, <1>3, <1>4, CurrentType

Stops == [at : -1..Top, low : -1..Top, kind : {"none", "ceiling", "top"}]

LEMMA MarkType == ASSUME TypeOK PROVE Mark \in Stops /\ NoStop \in Stops
BY ScaleAssumption DEF Mark, NoStop, Stops, TypeOK, None

LEMMA InitTypeOK == Init => TypeOK
<1> SUFFICES ASSUME Init PROVE TypeOK
  OBVIOUS
<1>1. NoStop \in Stops
  BY ScaleAssumption DEF NoStop, Stops, None
<1>2. /\ cutoffs \in 0..Confirm /\ accepts \in 0..(Confirm - 1)
      /\ base \in -1..Top
  BY ScaleAssumption, MarginAssumption DEF Init, None
<1>3. /\ active \in BOOLEAN /\ emptied \in BOOLEAN /\ noDischarge \in BOOLEAN
  BY DEF Init
<1> QED
  BY <1>1, <1>2, <1>3 DEF Init, TypeOK, Stops

\* Every step of the cycle, the battery, the users and the managers keeps the
\* state well typed.
LEMMA StepTypeOK == TypeOK /\ [Next]_vars => TypeOK'
<1> SUFFICES ASSUME TypeOK, [Next]_vars PROVE TypeOK'
  OBVIOUS
<1> USE DEF TypeOK
<1>1. CASE UNCHANGED vars
  BY <1>1 DEF vars, battery, limits, latch, counts, blocks, past
<1>2. CASE Tick
  <2>1. cutoffs' \in 0..Confirm /\ accepts' \in 0..(Confirm - 1)
    <3>1. CASE Refuses
      BY <3>1, MarginAssumption DEF Refuses
    <3>2. CASE Takes
      BY <3>2, MarginAssumption DEF Takes
    <3>3. CASE UNCHANGED counts
      BY <3>3 DEF counts
    <3>4. CASE cutoffs' = 0 /\ accepts' = 0
      BY <3>4, MarginAssumption
    <3> QED BY <1>2, <3>1, <3>2, <3>3, <3>4 DEF Tick
  <2> QED BY <1>2, <2>1 DEF Tick, battery, limits, latch, blocks, past
<1>3. CASE WeeklyComplete
  BY <1>3, MarkType, ScaleAssumption
     DEF WeeklyComplete, Stops, battery, limits, counts, blocks
<1>4. CASE Refresh
  <2>1. /\ active' \in BOOLEAN /\ base' \in -1..Top
        /\ stop' \in Stops /\ noCharge' \subseteq Sources
    <3>1. CASE RefreshOverridden
      BY <3>1, ScaleAssumption, MarkType
         DEF RefreshOverridden, SetLatch, Cleared, Sources, None
    <3>2. CASE RefreshNormal
      <4> DEFINE l == Evaluated(Pack >= maxSoc \/ IsFull \/ AtTopVoltage)
      <4>1. l.active \in BOOLEAN /\ l.base \in -1..Top
        BY EvaluatedType DEF Latches
      <4>2. /\ active' = l.active /\ base' = l.base /\ stop' = Recorded(l)
            /\ noCharge' \subseteq {"max_soc", "charge_hysteresis"}
        BY <3>2 DEF RefreshNormal, SetLatch
      <4> HIDE DEF l
      <4> QED BY <4>1, <4>2, MarkType DEF Recorded, Stops, Sources
    <3> QED BY <1>4, <3>1, <3>2 DEF Refresh
  <2>2. noDischarge' \in BOOLEAN
    BY <1>4 DEF Refresh
  <2> QED BY <1>4, <2>1, <2>2 DEF Refresh, battery, limits, counts, Stops
<1>5. CASE Enforce
  BY <1>5 DEF Enforce, past, battery, limits, latch, counts, blocks
<1>6. CASE Hold
  BY <1>6 DEF Hold, battery, limits, latch, counts, blocks, past
<1>7. CASE DecideCharge
  <2>1. active' \in BOOLEAN /\ base' \in -1..Top
    BY <1>7, ChargeLatchType DEF DecideCharge, SetLatch, Latches
  <2>2. stop' \in Stops
    BY <1>7, MarkType DEF DecideCharge, Recorded, Stops
  <2>3. emptied' \in BOOLEAN
    BY <1>7 DEF DecideCharge, Emptied
  <2> QED
    BY <1>7, <2>1, <2>2, <2>3
       DEF DecideCharge, battery, limits, counts, blocks, Stops
<1>8. CASE DecideDischarge
  <2>1. emptied' \in BOOLEAN
    BY <1>8 DEF DecideDischarge, Emptied
  <2> QED
    BY <1>8, <2>1 DEF DecideDischarge, battery, limits, latch, counts, blocks
<1>9. CASE Poll
  <2>1. stop' \in Stops
    BY <1>9 DEF Poll, Stops
  <2> QED
    BY <1>9, <2>1 DEF Poll, Relaxed, limits, latch, counts, blocks, Stops
<1>10. ASSUME NEW v \in Targets, SetMax(v) PROVE TypeOK'
  <2>1. active' \in BOOLEAN
    BY <1>10 DEF SetMax
  <2>2. stop' \in Stops
    BY <1>10, MarkType DEF SetMax, Stops
  <2> QED BY <1>10, <2>1, <2>2 DEF SetMax, battery, counts, blocks, Stops
<1>11. ASSUME NEW v \in Floors, SetMin(v) PROVE TypeOK'
  BY <1>11 DEF SetMin, battery, latch, counts, blocks
<1>12. CASE SlotTurns
  BY <1>12 DEF SlotTurns, battery, latch, counts, blocks, past
<1>13. CASE OverrideTurns
  BY <1>13 DEF OverrideTurns, battery, limits, latch, counts, blocks, past
<1> QED
  BY <1>1, <1>2, <1>3, <1>4, <1>5, <1>6, <1>7, <1>8, <1>9, <1>10, <1>11,
     <1>12, <1>13 DEF Next, Cycle

\* The limits, latches and counters of SocLimits keep their types.
THEOREM TypeCorrect == Spec => []TypeOK
<1> QED BY InitTypeOK, StepTypeOK, PTL DEF Spec

-----------------------------------------------------------------------------
(* The re-entry latch *)

\* A battery seen at its floor is latched, has not recovered, and is not being
\* discharged: the latch outlives every reading inside the margin.
LatchedOut == drained = "seen" => /\ emptied /\ order # "discharge"
                                  /\ Pack < minSoc + Margin

LEMMA InitLatchedOut == Init => LatchedOut
BY DEF Init, LatchedOut

LEMMA StepLatchedOut == TypeOK /\ LatchedOut /\ [Next]_vars => LatchedOut'
<1> SUFFICES ASSUME TypeOK, LatchedOut, [Next]_vars PROVE LatchedOut'
  OBVIOUS
<1>0. Pack \in Int /\ minSoc \in Int /\ Margin \in Int /\ Margin > 0
  BY PackType, ScaleAssumption, MarginAssumption DEF TypeOK
<1>1. CASE UNCHANGED vars
  BY <1>1 DEF LatchedOut, Pack, vars, battery, limits, past
<1>2. CASE Tick
  BY <1>2 DEF LatchedOut, Pack, Tick, battery, limits, past
<1>3. CASE WeeklyComplete
  BY <1>3 DEF LatchedOut, Pack, WeeklyComplete, battery, limits
<1>4. CASE Refresh
  BY <1>4 DEF LatchedOut, Pack, Refresh, battery, limits
<1>5. CASE Enforce
  BY <1>5 DEF LatchedOut, Pack, Enforce, past, battery, limits
<1>6. CASE Hold
  BY <1>6 DEF LatchedOut, Pack, Hold, battery, limits, past
<1>7. CASE DecideCharge
  <2>1. Pack' = Pack /\ minSoc' = minSoc /\ order' # "discharge"
    BY <1>7 DEF DecideCharge, Pack, battery, limits
  <2>2. ASSUME drained' = "seen" PROVE emptied' /\ Pack < minSoc + Margin
    BY <1>0, <1>7, <2>2 DEF DecideCharge, LatchedOut, Emptied
  <2> QED BY <2>1, <2>2 DEF LatchedOut
<1>8. CASE DecideDischarge
  <2>1. Pack' = Pack /\ minSoc' = minSoc
    BY <1>8 DEF DecideDischarge, Pack, battery, limits
  <2>2. ASSUME drained' = "seen" PROVE Emptied /\ Pack < minSoc + Margin
    BY <1>0, <1>8, <2>2 DEF DecideDischarge, LatchedOut, Emptied
  <2>3. Emptied => order' # "discharge" /\ emptied'
    BY <1>8 DEF DecideDischarge, DischargeAvailable
  <2> QED BY <2>1, <2>2, <2>3 DEF LatchedOut
<1>9. CASE Poll
  BY <1>9 DEF LatchedOut, Poll, limits
<1>10. ASSUME NEW v \in Targets, SetMax(v) PROVE LatchedOut'
  BY <1>10 DEF LatchedOut, Pack, SetMax, battery
<1>11. ASSUME NEW v \in Floors, SetMin(v) PROVE LatchedOut'
  BY <1>11 DEF LatchedOut, SetMin
<1>12. CASE SlotTurns
  BY <1>12 DEF LatchedOut, Pack, SlotTurns, battery, past
<1>13. CASE OverrideTurns
  BY <1>13 DEF LatchedOut, Pack, OverrideTurns, battery, limits, past
<1> QED
  BY <1>1, <1>2, <1>3, <1>4, <1>5, <1>6, <1>7, <1>8, <1>9, <1>10, <1>11,
     <1>12, <1>13 DEF Next, Cycle

\* A battery that was at min_soc when batteries were chosen is out of
\* discharge until it has recovered by DISCHARGE_MIN_SOC_REENTRY_MARGIN.
THEOREM ReentryCorrect == Spec => []SeenEmptyStaysOut
<1>1. LatchedOut => SeenEmptyStaysOut
  BY DEF LatchedOut, SeenEmptyStaysOut
<1> QED
  BY <1>1, InitTypeOK, StepTypeOK, InitLatchedOut, StepLatchedOut, PTL DEF Spec

-----------------------------------------------------------------------------
(* The charge latch *)

\* A refresh never leaves a battery that is more than the hysteresis below
\* max_soc held by the latch, unless it is full by its BMS or its cells.
THEOREM LockoutCorrect == Spec => NoLockout
<1>1. ASSUME TypeOK, Refresh, active', soc + Pct < maxSoc
      PROVE  IsFull \/ AtTopVoltage
  <2> SUFFICES ASSUME ~IsFull, ~AtTopVoltage PROVE FALSE
    OBVIOUS
  <2>1. /\ soc \in Int /\ maxSoc \in Int /\ Pct \in Int /\ Pct > 0
        /\ Pack \in Int /\ Pack <= soc /\ base \in Int
    BY <1>1, PackType, ScaleAssumption, MarginAssumption DEF TypeOK
  <2>2. ~(Pack >= maxSoc \/ IsFull \/ AtTopVoltage)
    BY <1>1, <2>1
  <2>3. RefreshNormal
    BY <1>1 DEF Refresh, RefreshOverridden, SetLatch, Cleared
  <2>4. active' = Evaluated(FALSE).active
    BY <2>2, <2>3 DEF RefreshNormal, SetLatch
  <2> DEFINE from == IF Kept.base = None THEN maxSoc ELSE Kept.base
  <2>5. Evaluated(FALSE) = IF soc + Pct < from THEN Cleared ELSE Kept
    BY DEF Evaluated
  <2>6. soc + Pct < from
    <3>1. CASE Stale
      BY <1>1, <3>1 DEF Kept, Cleared
    <3>2. CASE ~Stale
      BY <1>1, <2>1, <3>2 DEF Kept, Stale
    <3> QED BY <3>1, <3>2
  <2>7. Evaluated(FALSE) = Cleared
    BY <2>5, <2>6
  <2>8. Cleared.active = FALSE
    BY DEF Cleared
  <2> QED BY <1>1, <2>4, <2>7, <2>8
<1>2. TypeOK /\ [Next]_vars
        => [Refresh /\ active' /\ soc + Pct < maxSoc
              => IsFull \/ AtTopVoltage]_vars
  BY <1>1
<1> QED
  BY <1>2, InitTypeOK, StepTypeOK, PTL DEF Spec, NoLockout

\* An evaluation at the ceiling arms a fresh latch at the current SOC.
LEMMA ArmsAtCeiling ==
  ASSUME TypeOK, base = None, Pack >= maxSoc, NEW arm, arm = TRUE
  PROVE  Evaluated(arm) = [active |-> TRUE, base |-> soc]
<1>1. soc \in Int /\ Pct \in Int /\ Pct > 0 /\ soc # None
  BY PackType, ScaleAssumption, MarginAssumption DEF TypeOK, None
<1>2. Kept.base = None
  BY DEF Kept, Stale
<1>3. ~(soc + Pct < soc)
  BY <1>1
<1> QED
  BY <1>1, <1>2, <1>3 DEF Evaluated

\* An evaluation keeps a latch armed at or above max_soc until the SOC is
\* more than the hysteresis below it.
LEMMA KeepsArmed ==
  ASSUME TypeOK, active = TRUE, base >= maxSoc, soc + Pct >= base, NEW arm
  PROVE  Evaluated(arm) = [active |-> TRUE, base |-> base]
<1>1. /\ soc \in Int /\ Pct \in Int /\ base \in Int /\ maxSoc \in Int
      /\ maxSoc > 0
  BY ScaleAssumption, MarginAssumption DEF TypeOK
<1>2. base # None /\ ~Stale
  BY <1>1 DEF Stale, None
<1>3. Kept = [active |-> TRUE, base |-> base]
  BY <1>2 DEF Kept
<1>4. ~(soc + Pct < base)
  BY <1>1
<1> QED
  BY <1>2, <1>3, <1>4 DEF Evaluated

\* The last charge was ended by the ceiling and the SOC has not fallen by the
\* hysteresis since.
Held == stop.kind = "ceiling" /\ ~(stop.low + Pct < stop.at)

\* While it is held, the latch stands where the charge ended, and from the
\* refresh on the battery is blocked.
HeldOut ==
    /\ stop.kind # "none" => stop.low <= soc
    /\ ~active => base = None
    /\ Held => active /\ base = stop.at /\ stop.at >= maxSoc
    /\ Held /\ step \in {"refreshed", "enforced"} => noCharge # {}

LEMMA InitHeldOut == Init => HeldOut
BY DEF Init, HeldOut, Held, NoStop

\* A stop that is marked at the ceiling holds the latch it was marked with.
LEMMA MarkHolds ==
  ASSUME TypeOK, Mark.kind = "ceiling"
  PROVE  Mark.low <= soc /\ Mark.at = soc /\ soc >= maxSoc /\ Pack >= maxSoc
<1>1. soc \in Int /\ Pack \in Int /\ maxSoc \in Int /\ Pack <= soc
  BY PackType, ScaleAssumption DEF TypeOK
<1> QED BY <1>1 DEF Mark

\* A latch armed or kept by the evaluation l, in a step that records it.
LEMMA RecordedHolds ==
  ASSUME TypeOK, HeldOut, NEW l,
         ~Held \/ l = [active |-> TRUE, base |-> base],
         ~active /\ l.active /\ Pack >= maxSoc
           => l = [active |-> TRUE, base |-> soc],
         stop' = Recorded(l), active' = l.active, base' = l.base,
         soc' = soc, maxSoc' = maxSoc, Held'
  PROVE  l.active = TRUE /\ base' = stop'.at /\ stop'.at >= maxSoc
<1>1. CASE Stopping(l)
  <2>1. stop' = Mark /\ Mark.kind = "ceiling"
    BY <1>1 DEF Recorded, Held
  <2>2. Mark.at = soc /\ soc >= maxSoc /\ Pack >= maxSoc
    BY <2>1, MarkHolds
  <2>3. l = [active |-> TRUE, base |-> soc]
    BY <1>1, <2>2 DEF Stopping
  <2> QED BY <2>1, <2>2, <2>3
<1>2. CASE ~Stopping(l)
  <2>1. stop' = stop /\ Held
    BY <1>2 DEF Recorded, Held
  <2>2. l = [active |-> TRUE, base |-> base]
    BY <2>1
  <2> QED BY <2>1, <2>2 DEF HeldOut
<1> QED BY <1>1, <1>2

\* The recorded low point is never above the SOC.
LEMMA RecordedLow ==
  ASSUME TypeOK, HeldOut, NEW l, Recorded(l).kind # "none"
  PROVE  Recorded(l).low <= soc
<1>1. soc \in Int
  BY ScaleAssumption DEF TypeOK
<1> QED BY <1>1 DEF Recorded, Mark, HeldOut

LEMMA StepHeldOut ==
  ASSUME NEW t, Targets = {t}, TypeOK, HeldOut, [Next]_vars
  PROVE  HeldOut' /\ StartsAfterDrop
<1>0. /\ soc \in Int /\ Pct \in Int /\ Pct > 0 /\ maxSoc \in Int
      /\ stop.low \in Int /\ stop.at \in Int /\ base \in Int
      /\ active \in BOOLEAN
  BY ScaleAssumption, MarginAssumption DEF TypeOK
<1>a. Held => active = TRUE /\ base >= maxSoc /\ soc + Pct >= base
  BY <1>0 DEF HeldOut, Held
<1>b. ASSUME UNCHANGED <<stop, soc, maxSoc, active, base, noCharge>>,
             step' \in {"refreshed", "enforced"}
               => step \in {"refreshed", "enforced"}
      PROVE  HeldOut'
  BY <1>b DEF HeldOut, Held
<1>1. CASE UNCHANGED vars
  BY <1>1, <1>b
     DEF vars, battery, limits, latch, blocks, past, StartsAfterDrop
<1>2. CASE Tick
  BY <1>2, <1>b DEF Tick, battery, limits, latch, blocks, past, StartsAfterDrop
<1>3. CASE WeeklyComplete
  <2>1. /\ active' = TRUE /\ base' = soc /\ stop' = Mark /\ soc' = soc
        /\ maxSoc' = maxSoc /\ step' = "ticked" /\ order' = order
    BY <1>3 DEF WeeklyComplete, battery, limits
  <2>2. Mark.low <= soc
    BY <1>0 DEF Mark
  <2> QED BY <2>1, <2>2, MarkHolds DEF HeldOut, Held, StartsAfterDrop
<1>4. CASE Refresh
  <2>1. soc' = soc /\ maxSoc' = maxSoc /\ order' = order
    BY <1>4 DEF Refresh, battery, limits
  <2>2. CASE RefreshOverridden
    BY <2>1, <2>2
       DEF RefreshOverridden, SetLatch, Cleared, NoStop, HeldOut, Held,
           StartsAfterDrop
  <2>3. CASE RefreshNormal
    <3> DEFINE arm == Pack >= maxSoc \/ IsFull \/ AtTopVoltage
               l == Evaluated(arm)
    <3>1. /\ active' = l.active /\ base' = l.base /\ stop' = Recorded(l)
          /\ l.active => "charge_hysteresis" \in noCharge'
      BY <2>3 DEF RefreshNormal, SetLatch
    <3>2. Held => l = [active |-> TRUE, base |-> base]
      BY <1>a, KeepsArmed
    <3>3. ~active /\ l.active /\ Pack >= maxSoc
            => l = [active |-> TRUE, base |-> soc]
      BY ArmsAtCeiling DEF HeldOut
    <3>4. ~l.active => l.base = None
      BY DEF Evaluated, Kept, Cleared, HeldOut
    <3> HIDE DEF l
    <3>5. Held' => l.active = TRUE /\ base' = stop'.at /\ stop'.at >= maxSoc
      BY <2>1, <3>1, <3>2, <3>3, RecordedHolds
    <3>6. stop'.kind # "none" => stop'.low <= soc'
      BY <2>1, <3>1, RecordedLow
    <3> QED
      BY <2>1, <3>1, <3>4, <3>5, <3>6 DEF HeldOut, StartsAfterDrop
  <2> QED BY <1>4, <2>2, <2>3 DEF Refresh
<1>5. CASE Enforce
  BY <1>5, <1>b DEF Enforce, battery, limits, latch, blocks, past, StartsAfterDrop
<1>6. CASE Hold
  BY <1>6, <1>b DEF Hold, battery, limits, latch, blocks, past, StartsAfterDrop
<1>7. CASE DecideCharge
  <2>1. /\ soc' = soc /\ maxSoc' = maxSoc /\ step = "enforced" /\ step' = "idle"
        /\ active' = ChargeLatch.active /\ base' = ChargeLatch.base
        /\ noCharge' = noCharge
    BY <1>7 DEF DecideCharge, SetLatch, battery, limits, blocks
  <2>2. CASE noCharge # {}
    <3>1. ChargeLatch = [active |-> active, base |-> base]
      BY <2>2 DEF ChargeLatch
    <3>2. stop' = stop /\ order' # "charge"
      BY <1>7, <2>2, <3>1
         DEF DecideCharge, Recorded, Stopping, ChargeAvailable
    <3> QED BY <2>1, <3>1, <3>2 DEF HeldOut, Held, StartsAfterDrop
  <2>3. CASE noCharge = {}
    <3>1. ~Held
      BY <2>1, <2>3 DEF HeldOut
    <3>2. StartsAfterDrop
      BY <3>1 DEF StartsAfterDrop, Held
    <3> DEFINE l == ChargeLatch
    <3>3. ~l.active => l.base = None
      <4> DEFINE e == IF Routine \in {"weekly", "recal", "tobms"} THEN Cleared
                      ELSE Evaluated(Pack >= maxSoc \/ AtTopVoltage)
      <4>1. ~e.active => e.base = None
        BY DEF Evaluated, Kept, Cleared, HeldOut
      <4>2. l = IF ~e.active /\ IsFull /\ Routine \notin {"recal", "tobms"}
                THEN [active |-> TRUE,
                      base |-> IF e.base = None THEN soc ELSE e.base]
                ELSE e
        BY <2>3 DEF ChargeLatch
      <4> HIDE DEF e, l
      <4> QED BY <4>1, <4>2
    <3>4. CASE Routine \in {"weekly", "recal", "tobms"}
      <4>1. stop' = NoStop
        BY <1>7, <2>3, <3>4 DEF DecideCharge
      <4> QED BY <2>1, <3>2, <3>3, <4>1 DEF HeldOut, Held, NoStop
    <3>5. CASE Routine \notin {"weekly", "recal", "tobms"}
      <4>1. stop' = Recorded(l)
        BY <1>7, <3>5 DEF DecideCharge
      <4>2. ~active /\ l.active /\ Pack >= maxSoc
              => l = [active |-> TRUE, base |-> soc]
        <5> SUFFICES ASSUME ~active, Pack >= maxSoc
                     PROVE  l = [active |-> TRUE, base |-> soc]
          OBVIOUS
        <5> DEFINE e == Evaluated(Pack >= maxSoc \/ AtTopVoltage)
        <5>1. e = [active |-> TRUE, base |-> soc]
          BY ArmsAtCeiling DEF HeldOut
        <5>2. l = IF ~e.active /\ IsFull /\ Routine \notin {"recal", "tobms"}
                  THEN [active |-> TRUE,
                        base |-> IF e.base = None THEN soc ELSE e.base]
                  ELSE e
          BY <2>3, <3>5 DEF ChargeLatch
        <5> HIDE DEF e, l
        <5> QED BY <5>1, <5>2
      <4> HIDE DEF l
      <4>3. Held' => l.active = TRUE /\ base' = stop'.at /\ stop'.at >= maxSoc
        BY <2>1, <3>1, <4>1, <4>2, RecordedHolds DEF l
      <4>4. stop'.kind # "none" => stop'.low <= soc'
        BY <2>1, <4>1, RecordedLow
      <4> QED BY <2>1, <3>2, <3>3, <4>3, <4>4 DEF HeldOut, l
    <3> QED BY <3>4, <3>5
  <2> QED BY <2>2, <2>3
<1>8. CASE DecideDischarge
  BY <1>8, <1>b
     DEF DecideDischarge, battery, limits, latch, blocks, StartsAfterDrop
<1>9. CASE Poll
  <2>1. /\ UNCHANGED <<maxSoc, active, base, noCharge, step, order>>
        /\ soc' \in Int
    BY <1>9 DEF Poll, limits, latch, blocks
  <2>2. stop' = IF stop.low > soc' THEN [stop EXCEPT !.low = soc'] ELSE stop
    BY <1>9 DEF Poll
  <2>3. /\ stop'.kind = stop.kind /\ stop'.at = stop.at
        /\ stop'.low <= soc' /\ stop'.low <= stop.low /\ stop'.low \in Int
    BY <1>0, <2>1, <2>2 DEF TypeOK
  <2>4. Held' => Held
    BY <1>0, <2>3 DEF Held
  <2> QED BY <2>1, <2>3, <2>4 DEF HeldOut, StartsAfterDrop
<1>10. ASSUME NEW v \in Targets, SetMax(v) PROVE FALSE
  BY <1>10 DEF SetMax, TypeOK
<1>11. ASSUME NEW v \in Floors, SetMin(v)
       PROVE HeldOut' /\ StartsAfterDrop
  BY <1>11, <1>b DEF SetMin, battery, latch, blocks, StartsAfterDrop
<1>12. CASE SlotTurns
  BY <1>12, <1>b DEF SlotTurns, battery, latch, blocks, past, StartsAfterDrop
<1>13. CASE OverrideTurns
  BY <1>13, <1>b
     DEF OverrideTurns, battery, limits, latch, blocks, past, StartsAfterDrop
<1> QED
  BY <1>1, <1>2, <1>3, <1>4, <1>5, <1>6, <1>7, <1>8, <1>9, <1>10, <1>11,
     <1>12, <1>13 DEF Next, Cycle

\* While max_soc is left alone, a charge that the ceiling ended begins again
\* only after the SOC has been more than the hysteresis below where it ended.
THEOREM RechargeCorrect ==
  ASSUME NEW t, Targets = {t} PROVE Spec => RechargeNeedsDrop
<1>1. TypeOK /\ HeldOut /\ [Next]_vars => HeldOut'
  BY StepHeldOut
<1>2. TypeOK /\ HeldOut /\ [Next]_vars => [StartsAfterDrop]_vars
  BY StepHeldOut
<1> QED
  BY <1>1, <1>2, InitTypeOK, StepTypeOK, InitHeldOut, PTL
     DEF Spec, RechargeNeedsDrop

=============================================================================
