------------------------------ MODULE Regulator -----------------------------
(***************************************************************************)
(* The regulator of the control cycle (__init__.py): from a meter reading to     *)
(* one signed power, charging positive.  Capacity protection moves the target,     *)
(* the PD law or the feed-forward step proposes, the guards of control/residual_     *)
(* load.py, the zero-cross hold, the minimum power, the relay dwell, the blockers,     *)
(* the limits and the contract dispose.  The gains are data: a correction is any step   *)
(* towards the target that does not pass it.  The house, the batteries and the meter    *)
(* close the loop.                                                                        *)
(***************************************************************************)
EXTENDS Integers, FiniteSetsExt

CONSTANTS
    RgLoads,    \* what the house may draw (negative: solar surplus)
    RgLimit,    \* the batteries' nominal power
    RgTaper,    \* what they may really give when they taper
    RgContract, \* contracted power
    RgPeak,     \* import up to which a low battery is spared
    RgDeadband, RgHyst, RgBand, RgRate, RgLeast, RgHoldPower, \* deadband, direction hysteresis, surplus
                \* guard band, largest change, minimum power (0: none), power held by the relay dwell
    RgCross, RgDwell, RgShort, RgQuiet, \* cycles: zero-cross window, relay cooldown, sustained shortfall, stale
    RgMaxUpsets \* bound: changes of the house, silent meters, tapers, blocks

ASSUME RgAssumption ==
    /\ RgLoads \subseteq Int /\ RgTaper \in 0..RgLimit
    /\ {RgContract, RgPeak, RgLeast, RgMaxUpsets, RgCross, RgDwell} \subseteq Nat
    /\ {RgLimit, RgDeadband, RgHyst, RgBand, RgRate, RgHoldPower, RgShort, RgQuiet} \subseteq Nat \ {0}

VARIABLES
    rgLoad,   \* what the house draws
    rgReal,   \* what the batteries deliver
    rgCap,    \* what they can deliver
    rgMeter,  \* the last published reading
    rgFresh,  \* it has not been used yet
    rgAge,    \* cycles since it was published
    rgPower,  \* previous_power: the standing command
    rgSign,   \* last_output_sign
    rgFirst,  \* first_execution
    rgZero,   \* cycles of the zero-cross hold, -1 when not armed
    rgRelay,  \* cycles of the relay dwell, -1 when not armed
    rgLack,   \* cycles of a delivery short of the command
    rgGuard,  \* the surplus guard is latched
    rgLow,    \* the batteries are below the capacity-protection threshold
    rgBlock,  \* blocked directions
    rgTurn,   \* the plant or the cycle is next
    rgLeft    \* the bound's budget

rgVars == <<rgLoad, rgReal, rgCap, rgMeter, rgFresh, rgAge, rgPower, rgSign, rgFirst, rgZero, rgRelay, rgLack,
            rgGuard, rgLow, rgBlock, rgTurn, rgLeft>>
plant == <<rgLoad, rgReal, rgCap, rgMeter, rgAge, rgLow, rgBlock, rgLeft>>

Sgn(n) == IF n > 0 THEN 1 ELSE IF n < 0 THEN -1 ELSE 0
Mag(n) == IF n < 0 THEN -n ELSE n
Powers == -RgLimit..RgLimit

RgTypeOK ==
    /\ rgLoad \in RgLoads /\ rgReal \in Powers /\ rgCap \in {RgLimit, RgTaper} /\ rgPower \in Powers
    /\ rgMeter \in Int /\ rgFresh \in BOOLEAN /\ rgAge \in 0..RgQuiet /\ rgSign \in -1..1
    /\ rgFirst \in BOOLEAN /\ rgZero \in -1..RgCross /\ rgRelay \in -1..RgDwell /\ rgLack \in 0..RgShort
    /\ rgGuard \in BOOLEAN /\ rgLow \in BOOLEAN /\ rgBlock \subseteq {1, -1}
    /\ rgTurn \in {"plant", "cycle"} /\ rgLeft \in 0..RgMaxUpsets

---------------------------------------------------------------------------
(* _apply_capacity_protection(): a low battery gives only what the house draws above the peak limit *)
House == rgMeter - rgReal
Target == IF rgLow /\ House > RgPeak THEN RgPeak ELSE IF rgLow /\ House > 0 THEN rgMeter ELSE 0
ForceIdle == rgLow /\ House > 0 /\ House <= RgPeak /\ rgPower # 0

(* apply_guards(): nothing is discharged into a surplus, nor more than the house needs *)
Demand(target) == House - target
Guarded(target) == IF rgGuard THEN Demand(target) <= 0 ELSE Demand(target) < -RgBand
Ceiling(power, target) ==
    IF power < 0 /\ Demand(target) > 0 /\ -power > Demand(target) + RgDeadband THEN -Demand(target) ELSE power
Guards(power, target) == Ceiling(IF power < 0 /\ Guarded(target) THEN 0 ELSE power, target)
Pending(target) == Guards(rgPower, target) # rgPower

(* _compute_pd_new_power(): back-calculation, a correction, the rate limit, the direction hysteresis;
   or the feed-forward step from what is delivered *)
Lacking == rgPower # 0 /\ (rgPower > 0) = (rgReal >= 0) /\ Mag(rgPower) - Mag(rgReal) > 0
BackCalculates == Lacking /\ rgLack + 1 >= RgShort
Base == IF BackCalculates THEN rgReal ELSE rgPower
Flips(power) == rgSign # 0 /\ Sgn(power) # 0 /\ Sgn(power) # rgSign
Straight(power, error) == IF Flips(power) /\ Mag(power) < RgHyst /\ Mag(error) < RgHyst THEN 0 ELSE power
Proposals(error) ==
    {Straight(Base - Sgn(error) * c, error) : c \in 1..Min({Mag(error), RgRate})} \cup {Straight(rgReal - error, error)}

\* Mutant of Ask: a silent meter's value is acted on again.
AskAgain(error) == Proposals(error)
Ask(error) == IF rgFresh THEN Proposals(error) ELSE {rgPower}

(* _apply_zero_cross_hold(): the opposite direction passes only after it has been asked for so long *)
Crossed(power) == IF Flips(power) THEN (IF rgZero + 1 >= RgCross THEN power ELSE 0) ELSE power
\* Mutant of ZeroNext: every pass starts the hold again.
ZeroNextRestarts(power, stale) == IF Flips(power) /\ rgZero + 1 < RgCross THEN 0 ELSE -1
ZeroNext(power, stale) ==
    IF stale /\ power = 0 /\ rgZero >= 0 THEN rgZero
    ELSE IF Flips(power) /\ rgZero + 1 < RgCross THEN rgZero + 1 ELSE -1
(* _apply_min_power() *)
Lifted(power, error) ==
    IF power = 0 \/ Mag(power) >= RgLeast THEN power
    ELSE IF -Sgn(power) * error >= RgLeast - RgDeadband THEN Sgn(power) * RgLeast ELSE 0
(* _apply_relay_dwell(): an idle decision keeps the relays closed at a small power for a while *)
Idling(power, error, zero) ==
    /\ RgDwell > 0 /\ power = 0 /\ rgPower # 0
    /\ zero >= 0 \/ Mag(error) - Mag(rgPower) < Max({3 * RgDeadband, RgHoldPower})
DwellNext(power, error, zero, stale) ==
    IF stale /\ rgRelay >= 0 THEN rgRelay
    ELSE IF Idling(power, error, zero) /\ rgRelay + 1 < RgDwell THEN rgRelay + 1 ELSE -1
Dwelt(power, error, zero, stale) ==
    IF ~(stale /\ rgRelay >= 0) /\ Idling(power, error, zero) /\ rgRelay + 1 < RgDwell
    THEN Sgn(rgPower) * Max({RgLeast, RgHoldPower}) ELSE power

(* The limits: what the batteries can take, and the contract, from what the meter would read without them *)
Clamp(power) == Max({-RgLimit, Min({RgLimit, power})})
Contract(power) == IF power > 0 THEN Min({power, Max({0, RgContract - rgMeter + rgPower})}) ELSE power

---------------------------------------------------------------------------
Done == rgTurn' = "plant" /\ rgFresh' = FALSE /\ UNCHANGED plant
Stopped == rgPower' = 0 /\ rgSign' = 0 /\ UNCHANGED <<rgFirst, rgZero, rgRelay, rgLack, rgGuard>>

(* A command in a direction blocked meanwhile stops everything *)
RgBlocked ==
    /\ rgTurn = "cycle" /\ Sgn(rgPower) \in rgBlock
    /\ Stopped /\ Done
Free == rgTurn = "cycle" /\ (rgPower = 0 \/ Sgn(rgPower) \notin rgBlock)
(* No new sample and nothing that must be reviewed: the command stands *)
Quiet == ~rgFirst /\ ~rgFresh /\ rgAge < RgQuiet /\ ~(rgPower < 0 /\ rgLow) /\ ~Pending(0)
RgStands == Free /\ Quiet /\ Done /\ UNCHANGED <<rgPower, rgSign, rgFirst, rgZero, rgRelay, rgLack, rgGuard>>
(* Capacity protection stops a battery that is to be spared *)
RgIdles == Free /\ ~Quiet /\ ForceIdle /\ Stopped /\ Done
(* Inside the deadband the command stands and the hold is disarmed *)
InBand == Mag(rgMeter - Target) < RgDeadband /\ ~Pending(Target)
RgInBand ==
    /\ Free /\ ~Quiet /\ ~ForceIdle /\ ~rgFirst /\ InBand
    /\ rgZero' = -1 /\ Done
    /\ rgGuard' = Guarded(Target)
    /\ UNCHANGED <<rgPower, rgSign, rgFirst, rgRelay, rgLack>>
(* The first cycle answers the whole imbalance *)
RgStarts ==
    /\ Free /\ ~ForceIdle /\ rgFirst
    /\ LET power == Clamp(-(rgMeter - Target))
           new == IF Sgn(power) \in rgBlock THEN 0 ELSE power
       IN rgPower' = new /\ rgSign' = Sgn(new)
    /\ rgFirst' = FALSE /\ Done
    /\ UNCHANGED <<rgZero, rgRelay, rgLack, rgGuard>>
(* An ordinary cycle; without a new sample the standing command only passes the limits again *)
RgControls ==
    /\ Free /\ ~Quiet /\ ~ForceIdle /\ ~rgFirst /\ ~InBand
    /\ \E proposal \in Ask(rgMeter - Target) :
         LET stale == ~rgFresh
             error == rgMeter - Target
             guarded == Guards(proposal, Target)
             zero == ZeroNext(guarded, stale)
             lifted == Lifted(Crossed(guarded), error)
             held == Dwelt(lifted, error, zero, stale)
             restricted == Sgn(held) \in rgBlock
             new == IF restricted THEN 0 ELSE Contract(Clamp(held))
         IN /\ rgZero' = zero /\ rgRelay' = DwellNext(lifted, error, zero, stale)
            /\ rgPower' = new
            /\ rgSign' = IF restricted \/ new = 0 THEN rgSign ELSE Sgn(new)
    /\ rgLack' = IF rgFresh THEN (IF Lacking /\ ~BackCalculates THEN rgLack + 1 ELSE 0) ELSE rgLack
    /\ rgGuard' = Guarded(Target) /\ Done
    /\ UNCHANGED rgFirst

(* Between two cycles: the batteries follow, the meter publishes unless it is silent.  Only a changed
   value is a new sample (_track_control_sample); the same value here may still differ by jitter *)
Delivered == Max({-rgCap, Min({rgCap, rgPower})})
RgPlant ==
    /\ rgTurn = "plant"
    /\ rgTurn' = "cycle" /\ rgReal' = Delivered
    /\ \/ /\ rgMeter' = rgLoad + Delivered /\ rgFresh' \in {rgMeter' # rgMeter, TRUE}
          /\ rgAge' = 0 /\ UNCHANGED rgLeft
       \/ /\ rgLeft > 0 /\ rgLeft' = rgLeft - 1
          /\ rgAge' = Min({RgQuiet, rgAge + 1}) /\ rgFresh' = FALSE /\ UNCHANGED rgMeter
    /\ UNCHANGED <<rgLoad, rgCap, rgPower, rgSign, rgFirst, rgZero, rgRelay, rgLack, rgGuard, rgLow, rgBlock>>
(* The surroundings change *)
RgChanges ==
    /\ rgTurn = "plant" /\ rgLeft > 0 /\ rgLeft' = rgLeft - 1
    /\ \/ rgLoad' \in RgLoads \ {rgLoad} /\ UNCHANGED <<rgCap, rgLow, rgBlock>>
       \/ rgCap' \in {RgLimit, RgTaper} \ {rgCap} /\ UNCHANGED <<rgLoad, rgLow, rgBlock>>
       \/ rgLow' = ~rgLow /\ UNCHANGED <<rgLoad, rgCap, rgBlock>>
       \/ rgBlock' \in {{}, {1}, {-1}} \ {rgBlock} /\ UNCHANGED <<rgLoad, rgCap, rgLow>>
    /\ UNCHANGED <<rgReal, rgMeter, rgFresh, rgAge, rgPower, rgSign, rgFirst, rgZero, rgRelay, rgLack, rgGuard, rgTurn>>

RgInit ==
    /\ rgLoad \in RgLoads /\ rgReal = 0 /\ rgCap = RgLimit /\ rgMeter = rgLoad /\ rgFresh = TRUE /\ rgAge = 0
    /\ rgPower = 0 /\ rgSign = 0 /\ rgFirst = TRUE /\ rgZero = -1 /\ rgRelay = -1 /\ rgLack = 0 /\ rgGuard = FALSE
    /\ rgLow \in BOOLEAN /\ rgBlock = {} /\ rgTurn = "cycle" /\ rgLeft = RgMaxUpsets
RgCycle == RgBlocked \/ RgStands \/ RgIdles \/ RgInBand \/ RgStarts \/ RgControls
RgNext == RgPlant \/ RgCycle \/ RgChanges

(* The timer runs the cycle, the batteries work, and the meter's readings keep jittering *)
RgJitter == RgPlant /\ rgFresh'
RgFairness == WF_rgVars(RgPlant) /\ WF_rgVars(RgCycle) /\ SF_rgVars(RgJitter)
RgSpec == RgInit /\ [][RgNext]_rgVars /\ RgFairness

---------------------------------------------------------------------------
(* When the house settles the grid does too: what is left of the imbalance is inside the direction
   hysteresis, or at the batteries' limit, the contract, a block or the spared battery's share.
   Holds, dwells, guards and back-calculation do not keep each other going *)
Excuse ==
    \/ Mag(rgMeter - Target) < RgHyst
    \/ rgMeter > Target /\ (rgReal <= -rgCap \/ -1 \in rgBlock)
    \/ rgMeter < Target /\ (rgReal >= rgCap \/ 1 \in rgBlock \/ rgMeter >= RgContract)
Converges == <>[](rgTurn = "cycle" => Excuse)

(* A silent meter is no reason to ask more of the batteries, nor to turn them round; only the minimum
   power and the relay hold may lift a smaller command to theirs *)
StaleNeverGrows ==
    [][rgTurn = "cycle" /\ ~rgFresh /\ ~rgFirst =>
        \/ rgPower' = 0
        \/ /\ Sgn(rgPower') = Sgn(rgPower)
           /\ Mag(rgPower') <= Max({Mag(rgPower), RgLeast, RgHoldPower})]_rgVars

(* Charging never takes the import over the contract that the house alone kept, once the meter has
   shown what the batteries did before; a command whose reading is inside the deadband stands as it is *)
ContractKept ==
    [][rgTurn = "cycle" /\ rgTurn' = "plant" /\ rgFresh /\ ~rgFirst /\ rgReal = rgPower /\ rgMeter = rgLoad + rgReal
         => \/ rgPower' <= 0 \/ rgLoad + rgPower' <= RgContract
            \/ rgPower' = rgPower /\ Mag(rgMeter - Target) < RgDeadband]_rgVars

(* A battery below the protection threshold is in the end used only for what exceeds the peak limit,
   also when it was discharging before it ran low *)
LowSpared == <>[](rgLow /\ rgTurn = "cycle" => rgPower >= 0 \/ -rgPower <= Max({0, rgLoad - RgPeak}))

(* A command is never more than was decided: a silent meter does not make it grow, and charging keeps the
   contract (__init__.py: the stale-meter law and the import limit). *)
CommandsBounded ==
    /\ StaleNeverGrows
    /\ ContractKept
=============================================================================
