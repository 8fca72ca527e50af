----------------------------- MODULE GridCharge -----------------------------
(***************************************************************************)
(* Charging from the grid up to the import limit (__init__.py,              *)
(* _handle_predictive_grid_charging), its suspension when the house alone   *)
(* exceeds the limit, and the protective discharge that may follow           *)
(* (_handle_predictive_demand_protection).  The batteries act as one; a       *)
(* command takes effect later, the polled power and the meter follow later    *)
(* still.  Power in units of the settle band: what lies within it is zero.   *)
(* The law has gain one and no derivative.                                   *)
(***************************************************************************)
EXTENDS Integers

CONSTANTS
    GcLoads,      \* what the house may draw
    GcCeiling,    \* the import limit the charge is regulated to
    GcMargin,     \* excess over the limit that counts as a hard overload
    GcResume,     \* headroom below the limit at which charging may resume
    GcMaxCharge,  \* the batteries' joint charge power
    GcFloor,      \* the smallest charge that is commanded
    GcMaxDischarge, \* the batteries' joint discharge power
    GcMaxUpsets   \* bound: load changes, blocks, slot edges, lost or late samples

ASSUME GcAssumption ==
    /\ GcLoads \subseteq Nat /\ {GcCeiling, GcMargin, GcResume, GcMaxUpsets} \subseteq Nat
    /\ {GcMaxCharge, GcFloor, GcMaxDischarge} \subseteq Nat \ {0} /\ GcFloor <= GcMaxCharge

GcUnknown == 99 \* no telemetry
GcPower == -GcMaxDischarge..GcMaxCharge
GcConfirmations == 3
GcFreshNeeded == 2

VARIABLES
    gcHouse,   \* the load now
    gcCmd,     \* the power last commanded, charging positive
    gcActual,  \* the power the batteries exchange
    gcRead,    \* the power last polled, or unknown
    gcMeter,   \* the last publication: its value, the load in it, taken over yet, and the value before
    gcRun,     \* the charge: in its slot, initialised, its demand state and counters
    gcElapsed, \* the settle window has passed since the last transition
    gcBlocked, \* a charge blocker is set
    gcWants,   \* some battery is below its target
    gcUpsets

gcVars == <<gcHouse, gcCmd, gcActual, gcRead, gcMeter, gcRun, gcElapsed, gcBlocked, gcWants, gcUpsets>>

GcSettling == {"settling_after_charge", "settling_after_discharge"}
GcProtects == {"peak_shaving", "emergency_discharge"}
GcState == {"charging", "holding_idle"} \cup GcSettling \cup GcProtects

GcTypeOK ==
    /\ gcHouse \in GcLoads /\ gcCmd \in GcPower /\ gcActual \in GcPower
    /\ gcRead \in GcPower \cup {GcUnknown}
    /\ gcMeter \in [value: Int, load: GcLoads, fresh: BOOLEAN, last: Int]
    /\ gcRun \in [active: BOOLEAN, initialized: BOOLEAN, suspended: BOOLEAN, state: GcState,
                  fresh: 0..GcFreshNeeded, recovery: 0..2, hard: 0..GcConfirmations,
                  resume: -1..GcMaxCharge, prev: 0..GcMaxCharge]
    /\ {gcElapsed, gcBlocked, gcWants} \subseteq BOOLEAN
    /\ gcUpsets \in 0..GcMaxUpsets

---------------------------------------------------------------------------
Clip(x, lo, hi) == IF x < lo THEN lo ELSE IF x > hi THEN hi ELSE x

(* The house as the controller sees it: the meter less what the batteries report. *)
BaseLoad == IF gcRead = GcUnknown THEN gcMeter.value ELSE gcMeter.value - gcRead
New == gcMeter.value # gcMeter.last

(* _reset_predictive_demand_runtime() *)
ResetDemand(r) ==
    [r EXCEPT !.suspended = FALSE, !.state = "charging", !.fresh = 0, !.recovery = 0,
              !.hard = 0, !.resume = -1]

\* Mutant of Settled: one publication after the transition is enough.
SettledAtOnce(r) == (gcRead \in {0, GcUnknown}) /\ gcElapsed /\ gcMeter.fresh
(* The batteries idle, the latency over, and two publications since. *)
Settled(r) ==
    /\ gcRead \in {0, GcUnknown} /\ gcElapsed
    /\ r.fresh + (IF gcMeter.fresh THEN 1 ELSE 0) >= GcFreshNeeded
Settling(r) ==
    [r EXCEPT !.fresh = IF gcRead \notin {0, GcUnknown} THEN 0
                        ELSE IF gcElapsed /\ gcMeter.fresh /\ r.fresh < GcFreshNeeded
                             THEN r.fresh + 1 ELSE r.fresh]

(* What a cycle leaves behind: the run, the command, and whether a settle window starts. *)
Outcome(r, power, starts) ==
    /\ gcRun' = r /\ gcCmd' = power
    /\ gcElapsed' = (gcElapsed /\ ~starts)

(* _suspend_predictive_grid_charging_for_demand() *)
Suspend(r) ==
    Outcome([r EXCEPT !.suspended = TRUE, !.state = "settling_after_charge", !.fresh = 0,
                      !.recovery = 0, !.hard = 0, !.resume = -1, !.active = TRUE,
                      !.initialized = FALSE, !.prev = 0], 0, ~r.suspended)

(* _handle_predictive_demand_protection() *)
Leave(r) == Outcome([r EXCEPT !.state = "settling_after_discharge", !.fresh = 0], 0, TRUE)
Protect(r) ==
    LET wanted == Clip(BaseLoad - GcCeiling, 0, GcMaxDischarge)
    IN Outcome([r EXCEPT !.state = "peak_shaving", !.fresh = 0], -wanted, FALSE)
Recover(r) ==
    LET seen == IF gcMeter.value > GcCeiling - GcResume THEN 0
                ELSE IF r.recovery < 2 THEN r.recovery + 1 ELSE 2
        idle == [r EXCEPT !.state = "holding_idle", !.fresh = 0, !.recovery = seen]
    IN IF gcBlocked \/ seen < 2 THEN Outcome(idle, gcCmd, FALSE)
       ELSE Outcome([ResetDemand(idle) EXCEPT !.resume = Clip(GcCeiling - BaseLoad, 0, GcMaxCharge),
                                              !.initialized = FALSE], gcCmd, FALSE)
Protection(r, within) ==
    IF ~within THEN IF r.state \in GcProtects THEN Leave(r) ELSE Outcome(r, gcCmd, FALSE)
    ELSE IF r.state \in GcSettling /\ ~Settled(r) THEN Outcome(Settling(r), gcCmd, FALSE)
    ELSE IF ~gcMeter.fresh
         THEN Outcome(IF r.state \in GcSettling THEN [r EXCEPT !.state = "holding_idle", !.fresh = 0] ELSE r,
                      gcCmd, FALSE)
    ELSE IF BaseLoad > GcCeiling THEN Protect(r)
    ELSE IF r.state \in GcProtects THEN Leave(r)
    ELSE Recover(r)

(* _predictive_hard_limit_confirmed(): consecutive fresh publications *)
HardCount(r, within) ==
    IF gcMeter.fresh /\ within /\ BaseLoad > GcCeiling + GcMargin THEN r.hard + 1 ELSE 0

(* The rest of the handler: the first charge of a slot or of a resumption, then the law. *)
First(r) ==
    IF r.resume >= 0 THEN Clip(r.resume, GcFloor, GcMaxCharge) ELSE Clip(GcCeiling, 0, GcMaxCharge)
Law(charge) == IF New THEN charge + (GcCeiling - gcMeter.value) ELSE charge
Charge(r, within) ==
    LET before == IF r.initialized THEN r.prev ELSE First(r)
        hard == HardCount(r, within)
        power == Clip(Law(before), GcFloor, GcMaxCharge)
        next == [r EXCEPT !.initialized = TRUE, !.resume = -1, !.hard = hard, !.prev = before]
    IN IF hard >= GcConfirmations THEN Suspend(next)
       ELSE IF ~New /\ within /\ hard = 0 THEN Outcome(next, gcCmd, FALSE)
       ELSE Outcome([next EXCEPT !.prev = power], power, FALSE)
(* Nothing left to charge: the slot's run ends without a write. *)
Complete(r) == Outcome([r EXCEPT !.active = FALSE, !.initialized = FALSE, !.prev = 0], gcCmd, FALSE)

Handle(within) ==
    IF gcRun.suspended THEN Protection(gcRun, within)
    ELSE IF gcBlocked THEN Suspend(gcRun)
    ELSE IF ~gcWants THEN Complete(gcRun)
    ELSE Charge(gcRun, within)

---------------------------------------------------------------------------
GcSample == gcMeter' = [gcMeter EXCEPT !.fresh = FALSE, !.last = gcMeter.value]
GcUpset == gcUpsets < GcMaxUpsets /\ gcUpsets' = gcUpsets + 1

(* A cycle within the slot on a publication that has just arrived ... *)
GcCycle ==
    /\ gcRun.active /\ gcMeter.fresh
    /\ Handle(TRUE) /\ GcSample
    /\ UNCHANGED <<gcHouse, gcActual, gcRead, gcBlocked, gcWants, gcUpsets>>
(* ... or the watchdog's, between two publications or long after the last. *)
GcWatchdog ==
    /\ gcRun.active /\ ~gcMeter.fresh /\ GcUpset
    /\ \E within \in BOOLEAN : Handle(within)
    /\ GcSample
    /\ UNCHANGED <<gcHouse, gcActual, gcRead, gcBlocked, gcWants>>

(* Outside the slot the ordinary regulator commands what it likes. *)
GcRegulates ==
    /\ ~gcRun.active /\ gcMeter.fresh
    /\ gcCmd' = Clip(gcCmd - gcMeter.value, -GcMaxDischarge, GcMaxCharge)
    /\ GcSample
    /\ UNCHANGED <<gcHouse, gcActual, gcRead, gcRun, gcElapsed, gcBlocked, gcWants, gcUpsets>>

(* A mode's handler opens the slot, or closes it with or without a write of zero. *)
GcOpens ==
    /\ ~gcRun.active /\ gcWants /\ ~gcBlocked /\ GcUpset
    /\ gcRun' = [gcRun EXCEPT !.active = TRUE, !.initialized = FALSE]
    /\ UNCHANGED <<gcHouse, gcCmd, gcActual, gcRead, gcMeter, gcElapsed, gcBlocked, gcWants>>
GcCloses ==
    /\ gcRun.active /\ GcUpset
    /\ \E idle \in BOOLEAN :
        Outcome([ResetDemand(gcRun) EXCEPT !.active = FALSE, !.initialized = FALSE, !.prev = 0],
                IF idle THEN 0 ELSE gcCmd, FALSE)
    /\ UNCHANGED <<gcHouse, gcActual, gcRead, gcMeter, gcBlocked, gcWants>>

(* The batteries, the poll, the meter and the house. *)
GcActs ==
    /\ gcActual # gcCmd /\ gcActual' = gcCmd
    /\ UNCHANGED <<gcHouse, gcCmd, gcRead, gcMeter, gcRun, gcElapsed, gcBlocked, gcWants, gcUpsets>>
GcPolls ==
    /\ gcRead # gcActual /\ gcRead' = gcActual
    /\ UNCHANGED <<gcHouse, gcCmd, gcActual, gcMeter, gcRun, gcElapsed, gcBlocked, gcWants, gcUpsets>>
GcLosesTelemetry ==
    /\ gcRead # GcUnknown /\ GcUpset /\ gcRead' = GcUnknown
    /\ UNCHANGED <<gcHouse, gcCmd, gcActual, gcMeter, gcRun, gcElapsed, gcBlocked, gcWants>>
(* _predictive_demand_settle_window_s(): twice the slowest readback *)
GcWindowPasses ==
    /\ ~gcElapsed /\ gcActual = gcCmd /\ gcElapsed' = TRUE
    /\ UNCHANGED <<gcHouse, gcCmd, gcActual, gcRead, gcMeter, gcRun, gcBlocked, gcWants, gcUpsets>>
GcPublishes ==
    /\ ~gcMeter.fresh
    /\ gcMeter' = [gcMeter EXCEPT !.value = gcHouse + gcActual, !.load = gcHouse, !.fresh = TRUE]
    /\ UNCHANGED <<gcHouse, gcCmd, gcActual, gcRead, gcRun, gcElapsed, gcBlocked, gcWants, gcUpsets>>
GcChanges ==
    /\ GcUpset
    /\ \/ gcHouse' \in GcLoads \ {gcHouse} /\ UNCHANGED <<gcBlocked, gcWants>>
       \/ gcBlocked' = ~gcBlocked /\ UNCHANGED <<gcHouse, gcWants>>
       \/ gcWants' = ~gcWants /\ UNCHANGED <<gcHouse, gcBlocked>>
    /\ UNCHANGED <<gcCmd, gcActual, gcRead, gcMeter, gcRun, gcElapsed>>

GcInit ==
    /\ gcHouse \in GcLoads /\ gcCmd = 0 /\ gcActual = 0 /\ gcRead = 0
    /\ gcMeter = [value |-> gcHouse, load |-> gcHouse, fresh |-> TRUE, last |-> 0]
    /\ gcRun = [active |-> FALSE, initialized |-> FALSE, suspended |-> FALSE, state |-> "charging",
                fresh |-> 0, recovery |-> 0, hard |-> 0, resume |-> -1, prev |-> 0]
    /\ gcElapsed = TRUE /\ gcBlocked = FALSE /\ gcWants = TRUE /\ gcUpsets = 0

GcNext ==
    \/ GcCycle \/ GcWatchdog \/ GcRegulates \/ GcOpens \/ GcCloses
    \/ GcActs \/ GcPolls \/ GcLosesTelemetry \/ GcWindowPasses \/ GcPublishes \/ GcChanges

(* Commands take effect, polls, publications and the cycles they trigger go on. *)
GcFairness ==
    /\ WF_gcVars(GcCycle) /\ WF_gcVars(GcRegulates) /\ WF_gcVars(GcActs)
    /\ WF_gcVars(GcPolls) /\ WF_gcVars(GcWindowPasses) /\ WF_gcVars(GcPublishes)
GcSpec == GcInit /\ [][GcNext]_gcVars /\ GcFairness

---------------------------------------------------------------------------
(* The first protective discharge after a charge is what the house alone drew beyond the limit: *)
(* the old charge, still in the meter's last samples, is never answered as if it were demand     *)
(* (__init__.py:6039, the settle window, the idle readback and the two publications). *)
ProtectionFitsHouse ==
    [][(gcRun.state \in GcSettling \cup {"holding_idle"} /\ gcRun'.state \in GcProtects)
         => -gcCmd' <= gcMeter.load - GcCeiling]_gcVars

(* A house that stays above the hard limit ends the charge, although the law never goes below     *)
(* its floor (__init__.py:5872, three fresh publications in a row). *)
GcOverload == gcRun.active /\ gcHouse > GcCeiling + GcMargin
OverloadStopsCharge == GcOverload ~> (~GcOverload \/ gcCmd <= 0)

(* A suspension ends once the house has fallen back below the limit and no blocker forbids the     *)
(* charge (__init__.py:6155, two samples with headroom), even on a meter that repeats its value. *)
GcHeadroom == gcRun.suspended /\ gcHouse <= GcCeiling - GcResume /\ ~gcBlocked
HeadroomResumes == GcHeadroom ~> ~GcHeadroom

(* The charge's own draw is never answered as demand, whatever the meter repeats or leaves out, and  *)
(* the flags of the charge stay what the handler expects of them. *)
ProtectionSound ==
    /\ []GcTypeOK
    /\ ProtectionFitsHouse
=============================================================================
