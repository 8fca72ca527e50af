----------------------------- MODULE SurplusHold -----------------------------
(* Holding the battery's charge back for a cheaper feed-in hour:               *)
(* pricing/surplus_absorption.py (the plan) and control/surplus_price_hold.py  *)
(* (its keeper).  The plan picks the cheapest hours of the solar day whose     *)
(* surplus reaches the energy the battery still needs; in the other hours the  *)
(* surplus is exported, unless what the picked hours still promise no longer   *)
(* covers the need.                                                            *)
(*                                                                             *)
(* The model walks one solar day slot by slot, up to the plan's deadline.  In  *)
(* each slot the keeper rebuilds the plan, only refreshes its live target, or  *)
(* loses the plan, a guard may release it, and the sun may bring less than it  *)
(* promised.  A rebuild awaits nothing that suspends, so it is one step.       *)
EXTENDS Integers, FiniteSets, FiniteSetsExt

CONSTANTS
    AhN,        \* slots until the deadline
    AhPrices,   \* export prices
    AhSuns,     \* forecast surplus of a slot
    AhPower,    \* what the battery can take in a slot
    AhNeeds,    \* remaining consumption + margin - usable energy at the start
    AhSpaces,   \* free space of the battery at the start
    AhSaving,   \* surplus_hold_min_saving
    AhMaxUpsets \* bound on slots that bring less, and on guards, failures and lost plans

ASSUME AhAssumption ==
    /\ AhN \in Nat \ {0} /\ AhPower \in Nat \ {0}
    /\ AhPrices \subseteq Int /\ AhSuns \subseteq Nat /\ AhNeeds \subseteq Nat
    /\ AhSpaces \subseteq Nat /\ AhSaving \in Nat /\ AhMaxUpsets \in Nat

VARIABLES
    ahDay,     \* the day: price and forecast surplus of each slot
    ahNow,     \* the current slot; AhN + 1 past the deadline
    ahNeed, ahSpace,  \* what the battery needs and takes, at the start
    ahStored,  \* energy taken since the start
    ahPlan,    \* {} or the plan: can_hold, target and selected slots
    ahHeld, ahGot,    \* history: slots whose sun was held back, slots in which the battery took energy
    ahLate,    \* history: energy held back since the sun last brought less than promised
    ahLess,    \* history: some slot brought less, or a plan was lost or released
    ahUpsets

ahVars == <<ahDay, ahNow, ahNeed, ahSpace, ahStored, ahPlan, ahHeld, ahGot, ahLate, ahLess, ahUpsets>>

ahSlots == 1 .. AhN
Least2(a, b) == IF a < b THEN a ELSE b
NotBelow0(n) == IF n > 0 THEN n ELSE 0

(* What the battery can take of a slot's surplus. *)
Absorbable(s) == Least2(ahDay[s].sun, AhPower)

SumOver(S) == MapThenSumSet(Absorbable, S)

(* calculate_absorption_target_kwh, for the energy taken so far. *)
AbsorptionTarget == NotBelow0(Least2(ahNeed - ahStored, ahSpace - ahStored))

(* Cheapest first, the earlier of two equals. *)
RankedBefore(s, t) ==
    \/ ahDay[s].price < ahDay[t].price
    \/ ahDay[s].price = ahDay[t].price /\ s < t

(* select_absorption_slots *)
SelectSlots(candidates, target) ==
    {t \in candidates : /\ target > 0 /\ Absorbable(t) > 0
                        /\ SumOver({s \in candidates : RankedBefore(s, t)}) < target}

(* plan_surplus_absorption at the current slot: infeasible and needless plans *)
(* hold nothing.                                                              *)
PlanAbsorption ==
    LET candidates == {s \in ahSlots : s >= ahNow}
        target == AbsorptionTarget
        feasible == SumOver(candidates) >= target
    IN  [can |-> target > 0 /\ feasible, target |-> target, slots |-> candidates,
         selected |-> SelectSlots(candidates, target)]

(* hold_decision: not past the need, not in a picked slot, not when the picked *)
(* slots ahead fall short, and only for a cheaper slot that brings something.  *)
HoldDecision(plan, target) ==
    /\ plan.can /\ target > 0
    /\ ahNow \notin plan.selected
    /\ SumOver({s \in plan.selected : s >= ahNow}) >= target
    /\ \E s \in plan.slots : s > ahNow /\ Absorbable(s) > 0
                             /\ ahDay[s].price <= ahDay[ahNow].price - AhSaving

-----------------------------------------------------------------------------
AhInit ==
    /\ ahDay \in [ahSlots -> [price : AhPrices, sun : AhSuns]]
    /\ ahNeed \in AhNeeds /\ ahSpace \in AhSpaces
    /\ ahNow = 1 /\ ahStored = 0 /\ ahPlan = {}
    /\ ahHeld = {} /\ ahGot = {} /\ ahLate = 0 /\ ahLess = FALSE
    /\ ahUpsets = 0

(* One slot: the keeper's plan and the target it goes by, then the sun.       *)
(* hold is what is_hold_active returned; less is what the sun did not bring.  *)
SlotPasses(plan, hold, less) ==
    LET sun == ahDay[ahNow].sun - less
        took == IF hold THEN 0 ELSE Least2(Least2(sun, AhPower), ahSpace - ahStored)
    IN  /\ ahPlan' = plan
        /\ ahStored' = ahStored + took
        /\ ahNow' = ahNow + 1
        /\ ahHeld' = IF hold /\ Least2(sun, AhPower) > 0 THEN ahHeld \cup {ahNow} ELSE ahHeld
        /\ ahGot' = IF took > 0 THEN ahGot \cup {ahNow} ELSE ahGot
        /\ ahLate' = IF less > 0 THEN 0
                     ELSE IF hold THEN ahLate + Least2(sun, AhPower) ELSE ahLate
        /\ UNCHANGED <<ahDay, ahNeed, ahSpace>>

(* async_rebuild_plan: due after its interval or when marked stale. *)
Rebuild ==
    /\ ahNow <= AhN
    /\ \E p \in {PlanAbsorption} : SlotPasses({p}, HoldDecision(p, p.target), 0)
    /\ UNCHANGED <<ahLess, ahUpsets>>

Plan == CHOOSE p \in ahPlan : TRUE

(* Between rebuilds the target follows what the battery took meanwhile. *)
RefreshTarget == AbsorptionTarget

(* Not due: _refresh_live_target, and the decision on the plan as it stands. *)
KeepPlan ==
    /\ ahNow <= AhN /\ ahPlan # {}
    /\ SlotPasses(ahPlan, HoldDecision(Plan, RefreshTarget), 0)
    /\ UNCHANGED <<ahLess, ahUpsets>>

Upsetting == ahUpsets < AhMaxUpsets /\ ahUpsets' = ahUpsets + 1 /\ ahLess' = TRUE

(* The sun brings less than promised; the plan learns of it only later. *)
SunFails ==
    /\ ahNow <= AhN /\ ahDay[ahNow].sun > 0 /\ Upsetting
    /\ \/ \E p \in {PlanAbsorption} : SlotPasses({p}, HoldDecision(p, p.target), 1)
       \/ ahPlan # {} /\ SlotPasses(ahPlan, HoldDecision(Plan, RefreshTarget), 1)

(* A release guard, an unreadable battery or a feature switched off: no hold. *)
HoldReleased == ahNow <= AhN /\ Upsetting /\ SlotPasses(ahPlan, FALSE, 0)

(* clear(): the feature or its prices changed, manual mode, a planner error. *)
PlanLost == ahNow <= AhN /\ Upsetting /\ SlotPasses({}, FALSE, 0)

AhNext == Rebuild \/ KeepPlan \/ SunFails \/ HoldReleased \/ PlanLost
AhSpec == AhInit /\ [][AhNext]_ahVars

-----------------------------------------------------------------------------
AhTypeOK ==
    /\ ahNow \in 1 .. AhN + 1 /\ ahStored \in 0 .. ahSpace
    /\ ahHeld \subseteq ahSlots /\ ahGot \subseteq ahSlots /\ ahLate \in Nat
    /\ \A p \in ahPlan : p.selected \subseteq p.slots /\ p.can \in BOOLEAN

(* At the deadline a battery that is short of its need has exported nothing   *)
(* for a better hour since the sun last fell behind: a hold never costs the   *)
(* night its energy (surplus_absorption.py:390-392).                          *)
ShortfallMadeUp ==
    ahNow = AhN + 1 /\ ahStored < ahNeed /\ ahStored < ahSpace => ahLate = 0

(* Where the day keeps its promise, sun that was held back is followed by a    *)
(* slot that charges the battery at a lower price (surplus_absorption.py:      *)
(* 394-408).  Lower by the saving asked for is more than the code gives: a     *)
(* slot is held for any cheap one, and one that saves less may fill the        *)
(* battery before it.                                                          *)
HoldPays ==
    ahNow = AhN + 1 /\ ~ahLess =>
        \A h \in ahHeld : \E g \in ahGot :
            g > h /\ ahDay[g].price < ahDay[h].price
=============================================================================
