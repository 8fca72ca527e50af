------------------------------ MODULE SocLimits ------------------------------
(***************************************************************************)
(* What a battery's state of charge forbids: the charge ceiling and its    *)
(* hysteresis latch, the BMS cutoff counter, the discharge floor and its   *)
(* re-entry latch, and the control cycle that refreshes, enforces and      *)
(* applies them (ChargeDischargeController of __init__.py,                 *)
(* WeeklyFullChargeManager.tick_bms_cutoff and is_battery_full).           *)
(*                                                                         *)
(* One battery under automatic control, reachable, outside a predictive    *)
(* grid charge.  SOC is counted in steps of a scale whose top is 100 %.    *)
(* The cycle's steps are those between awaits; polls, users and the other  *)
(* managers act between any two of them.                                   *)
(***************************************************************************)
EXTENDS Integers

CONSTANTS
    Top,        \* 100 % SOC
    Lags,       \* how far the least full pack may be behind the aggregate
    Targets,    \* the max_soc values the user picks
    Floors,     \* the min_soc values the user picks
    Caps,       \* soc_max overrides of the charge slots
    SlotFloors, \* soc_min overrides of the discharge slots
    Overrides,  \* the full-charge routines that take part
    Pct,        \* charge_hysteresis_percent
    Margin,     \* DISCHARGE_MIN_SOC_REENTRY_MARGIN
    Confirm,    \* _BMS_CUTOFF_REQUIRED_CYCLES
    NearTop,    \* from this SOC on a cutoff is counted whatever the voltage
    Zone        \* below this SOC no cell is in the taper zone

AllOverrides == {"weekly", "recal", "tobms", "retry"}

ASSUME ScaleAssumption ==
    /\ Top \in Nat /\ NearTop \in 0..Top /\ Zone \in 1..Top /\ Lags \subseteq 0..Top /\ 0 \in Lags
    /\ Targets \subseteq 1..Top /\ Floors \subseteq 0..Top
    /\ Targets # {} /\ Floors # {}
    /\ Caps \subseteq 0..Top /\ SlotFloors \subseteq 0..Top
    /\ \A t \in Targets, f \in Floors : f < t
ASSUME MarginAssumption ==
    /\ Pct \in Nat \ {0} /\ Margin \in Nat \ {0} /\ Confirm \in Nat \ {0}
ASSUME OverrideAssumption == Overrides \subseteq AllOverrides

None == -1   \* no base, no slot override, no stop on record

VARIABLES
    soc,       \* battery_soc of the last poll
    lag,       \* the aggregate minus the least full pack
    vmax,      \* max_cell_voltage: below the taper zone, in it, at the pause
    maxSoc,    \* coordinator.max_soc
    minSoc,    \* coordinator.min_soc
    cap,       \* soc_max of the charge slot in force, or None
    floor,     \* soc_min of the discharge slot in force, or None
    override,  \* the full-charge routine in force, or "none"
    active,    \* _hysteresis_active
    base,      \* _hysteresis_base_soc
    emptied,   \* _discharge_min_soc_latched
    cutoffs,   \* _bms_cutoff_counts
    accepts,   \* _bms_accept_counts
    noCharge,  \* the SOC sources in the battery's charge blockers
    noDischarge, \* "min_soc" is among its discharge blockers
    order,     \* the power last commanded
    step,      \* where the control cycle is
    stop,      \* history: the charge last stopped by the latch
    drained    \* history: the floor was "seen" when batteries were chosen, and
               \* the SOC has not recovered since

limits == <<maxSoc, minSoc, cap, floor>>
latch == <<active, base>>
counts == <<cutoffs, accepts>>
blocks == <<noCharge, noDischarge>>
battery == <<soc, lag, vmax>>
past == <<stop, drained>>
vars == <<battery, limits, override, latch, emptied, counts, blocks, order,
          step, past>>

Sources == {"max_soc", "charge_hysteresis", "bms_cutoff_retry"}
NoStop == [at |-> None, low |-> None, kind |-> "none"]

TypeOK ==
    /\ soc \in 0..Top /\ lag \in Lags /\ vmax \in {"low", "taper", "pause"}
    /\ maxSoc \in Targets /\ minSoc \in Floors
    /\ cap \in Caps \union {None} /\ floor \in SlotFloors \union {None}
    /\ override \in Overrides \union {"none"}
    /\ active \in BOOLEAN /\ base \in -1..Top
    /\ emptied \in BOOLEAN
    /\ cutoffs \in 0..Confirm /\ accepts \in 0..(Confirm - 1)
    /\ noCharge \subseteq Sources /\ noDischarge \in BOOLEAN
    /\ order \in {"charge", "idle", "discharge"}
    /\ step \in {"idle", "ticked", "refreshed", "enforced"}
    /\ stop \in [at : -1..Top, low : -1..Top,
                 kind : {"none", "ceiling", "top"}]
    /\ drained \in {"no", "seen"}

-----------------------------------------------------------------------------
(* What the battery is judged by *)

\* soc_vs_ceiling() and soc_vs_floor(): the least full pack decides both.
Pack == IF soc > lag THEN soc - lag ELSE 0

\* control_vmax(): the top cell does not count while the packs disagree.
Cells(zones) == lag = 0 /\ vmax \in zones

\* should_charge_to_bms_cutoff() ends with the confirmed cutoff.
Routine == IF override = "tobms" /\ cutoffs = Confirm THEN "none" ELSE override

IsFull ==
    /\ Routine # "retry"
    /\ \/ Pack >= Top /\ Routine # "tobms"
       \/ Pack < Top /\ cutoffs = Confirm

EffectiveMax == IF Routine = "weekly" THEN Top
                ELSE IF cap # None THEN cap ELSE maxSoc
EffectiveMin == IF floor # None THEN floor ELSE minSoc

AtTopVoltage == EffectiveMax >= Top /\ Cells({"pause"})

-----------------------------------------------------------------------------
(* The charge hysteresis latch *)

Cleared == [active |-> FALSE, base |-> None]

\* Mutants of Stale: the ceiling itself counts as raised; a latch is never
\* stale.
StaleAtCeiling == base # None /\ maxSoc >= base
NeverStale == FALSE

\* The ceiling was raised above the SOC the latch was armed at.
Stale == base # None /\ maxSoc > base

Kept == IF Stale THEN Cleared ELSE [active |-> active, base |-> base]

\* The latch after one evaluation with the given reason to arm it.
Evaluated(arm) ==
    LET armed == IF arm
                 THEN [active |-> TRUE,
                       base |-> IF Kept.base = None THEN soc ELSE Kept.base]
                 ELSE Kept
        from == IF armed.base = None THEN maxSoc ELSE armed.base
    IN  IF soc + Pct < from THEN Cleared ELSE armed

SetLatch(l) == active' = l.active /\ base' = l.base

\* History: a latch that ends a charge.
Stopping(l) == order = "charge" /\ l.active /\ ~active
Mark == [at |-> soc, low |-> soc,
         kind |-> IF Pack >= maxSoc THEN "ceiling" ELSE "top"]
Recorded(l) == IF Stopping(l) THEN Mark ELSE stop

-----------------------------------------------------------------------------
(* One control cycle *)

\* tick_bms_cutoff() at the head of handle_registers().  The battery refuses
\* or takes the charge it is commanded, or shows neither.
InZone == soc >= NearTop \/ Cells({"taper", "pause"})

Refuses ==
    /\ order = "charge"
    /\ cutoffs' = IF cutoffs < Confirm THEN cutoffs + 1 ELSE Confirm
    /\ accepts' = 0

Takes ==
    /\ accepts' = (accepts + 1) % Confirm
    /\ cutoffs' = IF accepts + 1 < Confirm THEN cutoffs ELSE 0

Tick ==
    /\ step = "idle" /\ step' = "ticked"
    /\ \/ InZone /\ (Refuses \/ Takes \/ UNCHANGED counts)
       \/ ~InZone /\ cutoffs' = 0 /\ accepts' = 0
    /\ UNCHANGED <<battery, limits, override, latch, emptied, blocks, order,
                   past>>

\* handle_registers() finds every battery full and arms the latch anew.
WeeklyComplete ==
    /\ step = "ticked" /\ override = "weekly" /\ IsFull
    /\ override' = "none" /\ active' = TRUE /\ base' = soc
    /\ stop' = Mark
    /\ UNCHANGED <<battery, limits, emptied, counts, blocks, order, step,
                   drained>>

\* _refresh_battery_charge_limit_blocks() under a full-charge routine.
RefreshOverridden ==
    /\ Routine # "none"
    /\ SetLatch(Cleared)
    /\ noCharge' = IF Routine = "retry" THEN {"bms_cutoff_retry"} ELSE {}
    /\ stop' = NoStop

\* _refresh_battery_charge_limit_blocks() otherwise.
RefreshNormal ==
    LET l == Evaluated(Pack >= maxSoc \/ IsFull \/ AtTopVoltage)
    IN  /\ Routine = "none"
        /\ SetLatch(l)
        /\ noCharge' = {s \in {"max_soc", "charge_hysteresis"} :
                          \/ s = "max_soc" /\ (Pack >= EffectiveMax \/ IsFull)
                          \/ s = "charge_hysteresis" /\ l.active}
        /\ stop' = Recorded(l)

\* _refresh_operation_blockers(), the SOC limits of it.
Refresh ==
    /\ step = "ticked" /\ step' = "refreshed"
    /\ RefreshOverridden \/ RefreshNormal
    /\ noDischarge' = (Pack <= EffectiveMin)
    /\ UNCHANGED <<battery, limits, override, emptied, counts, order,
                   drained>>

Blocked(d) == \/ d = "charge" /\ noCharge # {}
              \/ d = "discharge" /\ noDischarge

\* _stop_blocked_active_batteries()
Enforce ==
    /\ step = "refreshed" /\ step' = "enforced"
    /\ order' = IF Blocked(order) THEN "idle" ELSE order
    /\ UNCHANGED <<battery, limits, override, latch, emptied, counts, blocks,
                   past>>

\* The cycle ends before the batteries are asked, and the orders stand: within
\* the deadband, or without a new sample, unless a block has just stopped
\* something; or, whatever happened, without a grid reading.
Hold ==
    /\ step = "enforced" /\ step' = "idle"
    /\ UNCHANGED <<battery, limits, override, latch, emptied, counts, blocks,
                   order, past>>

-----------------------------------------------------------------------------
(* _get_available_batteries() *)

\* Mutant of Emptied: the bare comparison, without the latch.
EmptyNow == Pack <= minSoc

\* The re-entry latch after one evaluation.
Emptied == \/ Pack <= minSoc
           \/ emptied /\ Pack < minSoc + Margin

DischargeAvailable == ~noDischarge /\ Pack > minSoc /\ ~Emptied

\* The charge latch after one evaluation; a blocked battery is not evaluated.
ChargeLatch ==
    LET l == IF Routine \in {"weekly", "recal", "tobms"} THEN Cleared
             ELSE Evaluated(Pack >= maxSoc \/ AtTopVoltage)
    IN  IF noCharge # {} THEN [active |-> active, base |-> base]
        ELSE IF ~l.active /\ IsFull /\ Routine \notin {"recal", "tobms"}
        THEN [active |-> TRUE, base |-> IF l.base = None THEN soc ELSE l.base]
        ELSE l

ChargeAvailable ==
    /\ noCharge = {} /\ ~ChargeLatch.active
    /\ Pack < EffectiveMax \/ Routine = "tobms"

\* The regulator asks for charge, and may still end up with nothing to do.
DecideCharge ==
    /\ step = "enforced" /\ step' = "idle"
    /\ SetLatch(ChargeLatch)
    /\ order' \in (IF ChargeAvailable THEN {"charge", "idle"} ELSE {"idle"})
    /\ emptied' = Emptied
    /\ stop' = IF noCharge = {} /\ Routine \in {"weekly", "recal", "tobms"}
               THEN NoStop ELSE Recorded(ChargeLatch)
    /\ drained' = IF Pack <= minSoc THEN "seen" ELSE drained
    /\ UNCHANGED <<battery, limits, override, counts, blocks>>

\* The regulator asks for discharge.  The re-entry latch is evaluated again
\* for the grid-at-min-SOC counter, past the blockers.
DecideDischarge ==
    /\ step = "enforced" /\ step' = "idle"
    /\ emptied' = Emptied
    /\ order' \in (IF DischargeAvailable THEN {"discharge", "idle"} ELSE {"idle"})
    /\ drained' = IF Pack <= minSoc THEN "seen" ELSE drained
    /\ UNCHANGED <<battery, limits, override, latch, counts, blocks,
                   stop>>

-----------------------------------------------------------------------------
(* The battery, the users and the other managers *)

\* A poll: the SOC follows the order, and moves either way at rest; cells only
\* reach the top under charge, and relax.
Drift == CASE order = "charge" -> {0, 1}
           [] order = "discharge" -> {-1, 0}
           [] OTHER -> {-1, 0, 1}

Relaxed == CASE vmax = "low" -> {"low"}
             [] vmax = "taper" -> {"low", "taper"}
             [] OTHER -> {"low", "taper", "pause"}

Poll ==
    /\ soc' \in {soc + d : d \in Drift} \intersect 0..Top
    /\ lag' \in Lags
    /\ vmax' \in (IF order = "charge" THEN {"low", "taper", "pause"} ELSE Relaxed)
    /\ soc' < Zone => vmax' = "low"
    /\ stop' = IF stop.low > soc' THEN [stop EXCEPT !.low = soc'] ELSE stop
    /\ drained' = IF Pack' < minSoc + Margin THEN drained ELSE "no"
    /\ UNCHANGED <<limits, override, latch, emptied, counts, blocks, order,
                   step>>

\* The max_soc number entity.
SetMax(v) ==
    /\ v # maxSoc /\ maxSoc' = v
    /\ active' = (active /\ ~(v > maxSoc /\ soc < v))
    /\ stop' = IF v > maxSoc THEN NoStop ELSE stop
    /\ UNCHANGED <<battery, minSoc, cap, floor, override, base, emptied, counts,
                   blocks, order, step, drained>>

\* The min_soc number entity.
SetMin(v) ==
    /\ v # minSoc /\ minSoc' = v /\ drained' = "no"
    /\ UNCHANGED <<battery, maxSoc, cap, floor, override, latch, emptied,
                   counts, blocks, order, step, stop>>

\* A charge or discharge slot with a SOC override begins or ends.
SlotTurns ==
    /\ cap' \in Caps \union {None} /\ floor' \in SlotFloors \union {None}
    /\ UNCHANGED <<battery, maxSoc, minSoc, override, latch, emptied, counts,
                   blocks, order, step, past>>

\* The full-charge managers begin or end a routine.
OverrideTurns ==
    /\ override' \in Overrides \union {"none"}
    /\ UNCHANGED <<battery, limits, latch, emptied, counts, blocks, order,
                   step, past>>

Init ==
    /\ soc \in 0..Top /\ lag \in Lags /\ vmax = "low"
    /\ maxSoc \in Targets /\ minSoc \in Floors
    /\ cap = None /\ floor = None /\ override = "none"
    /\ active = FALSE /\ base = None /\ emptied = FALSE
    /\ cutoffs = 0 /\ accepts = 0 /\ noCharge = {} /\ noDischarge = FALSE
    /\ order = "idle" /\ step = "idle"
    /\ stop = NoStop /\ drained = "no"

Cycle == \/ Tick \/ WeeklyComplete \/ Refresh \/ Enforce \/ Hold
         \/ DecideCharge \/ DecideDischarge

Next == \/ Cycle
        \/ Poll
        \/ \E v \in Targets : SetMax(v)
        \/ \E v \in Floors : SetMin(v)
        \/ SlotTurns
        \/ OverrideTurns

Spec == Init /\ [][Next]_vars

-----------------------------------------------------------------------------
(* Properties *)

\* A charge that the ceiling ended begins again only after the SOC has been
\* more than the hysteresis below where it ended (docstring of
\* _get_available_batteries(); the latch is evaluated in two places, with
\* polls and orders in between).
StartsAfterDrop ==
    order # "charge" /\ order' = "charge" /\ stop.kind = "ceiling"
        => stop.low + Pct < stop.at
RechargeNeedsDrop == [][StartsAfterDrop]_vars

\* A battery more than the hysteresis below max_soc is never held by the
\* latch, unless the BMS or the cells say at that moment that it is full: a
\* refresh forgets a latch armed at another ceiling.
NoLockout ==
    [][Refresh /\ active' /\ soc + Pct < maxSoc => IsFull \/ AtTopVoltage]_vars

\* A battery that was at min_soc when the cycle chose its batteries is not
\* discharged before its SOC has recovered by the re-entry margin, whatever
\* it reads in between.
SeenEmptyStaysOut == drained = "seen" => order # "discharge"
=============================================================================
