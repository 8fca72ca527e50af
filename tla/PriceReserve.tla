---------------------------- MODULE PriceReserve -----------------------------
(* Keeping energy back for a dearer hour: pricing/discharge_reserve.py (how    *)
(* much) and control/discharge_reserve.py with _refresh_price_reserve_blocks   *)
(* (the discharge block it becomes).                                           *)
(*                                                                             *)
(* The model walks the priced horizon slot by slot.  In a slot the house wants *)
(* energy or the sun leaves a surplus, never both.  The reserve is worked out  *)
(* from the live state of the battery; the battery serves the house down to    *)
(* the reserve, then takes the surplus it has room for.                        *)
EXTENDS Integers, FiniteSets, FiniteSetsExt

CONSTANTS
    RpN,         \* slots of the horizon
    RpPrices,    \* import prices
    RpNets,      \* demand (> 0) or surplus (< 0) of a slot
    RpCapacity,  \* usable capacity of the fleet
    RpLevels,    \* energy above the floor at the start
    RpSaving,    \* discharge_reserve_min_saving
    RpMaxUpsets  \* bound on slots in which a guard or a missing reading releases the reserve

ASSUME RpAssumption ==
    /\ RpN \in Nat \ {0} /\ RpCapacity \in Nat /\ RpSaving \in Nat /\ RpMaxUpsets \in Nat
    /\ RpPrices \subseteq Int /\ RpNets \subseteq Int /\ RpLevels \subseteq 0 .. RpCapacity

VARIABLES
    rpDay,     \* price and net of each slot
    rpNow,     \* the current slot
    rpLevel,   \* energy above the floor: usable_energy_kwh
    rpServed,  \* history: what the battery gave the house, by slot
    rpFirst,   \* history: the level at the start
    rpReserve, \* history: the reserve of the slot just passed
    rpGiven,   \* history: some slot was passed without its reserve
    rpUpsets

rpVars == <<rpDay, rpNow, rpLevel, rpServed, rpFirst, rpReserve, rpGiven, rpUpsets>>

rpSlots == 1 .. RpN
RpMin(a, b) == IF a < b THEN a ELSE b
RpPos(n) == IF n > 0 THEN n ELSE 0

RpDemand(s) == RpPos(rpDay[s].net)
Bonus(s) == RpPos(-rpDay[s].net)

(* Slots not yet begun that are dearer than now by the saving asked for. *)
Dearer == {s \in rpSlots : /\ s > rpNow /\ RpDemand(s) > 0
                           /\ rpDay[s].price > rpDay[rpNow].price + RpSaving}

(* Dearest first, the earlier of two equals. *)
ClaimsBefore(s, t) ==
    \/ rpDay[s].price > rpDay[t].price
    \/ rpDay[s].price = rpDay[t].price /\ s < t

(* What a dearer slot claims: the dearest are served first from what there is. *)
Claim(t, cands) ==
    RpPos(RpMin(RpDemand(t), rpLevel - MapThenSumSet(RpDemand, {s \in cands : ClaimsBefore(s, t)})))

(* The room at a slot grows by what the house takes out before it. *)
RoomAt(w, s) == RpMin(RpCapacity, w.room + RpDemand(s))

(* One slot of _reserve_after_pv: a claim due at it is paid from the sun stored *)
(* before it, the rest is reserved; then the slot's own surplus is stored.      *)
Walked(w, s, take) ==
    LET credit == RpMin(take, w.stored)
        room == RoomAt(w, s)
        absorbed == RpMin(Bonus(s), room)
    IN  [room |-> room - absorbed, stored |-> w.stored - credit + absorbed,
         reserve |-> w.reserve + take - credit]

(* The walk begins with the free space there is and no sun stored yet. *)
Unwalked == [room |-> RpCapacity - rpLevel, stored |-> 0, reserve |-> 0]

(* reserve_kwh_at: from the slots that begin from now on. *)
ReserveNow ==
    LET cands == Dearer
        claim == [s \in rpSlots |-> IF s \in cands THEN Claim(s, cands) ELSE 0]
        walk[s \in rpNow .. RpN] ==
          IF s = rpNow THEN Unwalked
          ELSE Walked(walk[s - 1], s, claim[s])
    IN  IF rpLevel = 0 THEN 0 ELSE walk[RpN].reserve

-----------------------------------------------------------------------------
RpInit ==
    /\ rpDay \in [rpSlots -> [price : RpPrices, net : RpNets]]
    /\ rpLevel \in RpLevels /\ rpFirst = rpLevel
    /\ rpNow = 1 /\ rpReserve = 0 /\ rpGiven = FALSE
    /\ rpServed = [s \in rpSlots |-> 0]
    /\ rpUpsets = 0

(* The battery serves the slot down to the reserve and takes its surplus. *)
SlotServed(reserve) ==
    LET given == RpMin(RpDemand(rpNow), RpPos(rpLevel - reserve))
        left == rpLevel - given
    IN  /\ rpServed' = [rpServed EXCEPT ![rpNow] = given]
        /\ rpLevel' = RpMin(RpCapacity, left + Bonus(rpNow))
        /\ rpReserve' = reserve
        /\ rpNow' = rpNow + 1
        /\ UNCHANGED <<rpDay, rpFirst>>

(* The plan is current: the block follows the reserve. *)
ReservedSlot ==
    /\ rpNow <= RpN
    /\ SlotServed(ReserveNow)
    /\ UNCHANGED <<rpGiven, rpUpsets>>

(* A guard, no plan yet, a new day or an unknown fleet: nothing is held back. *)
UnreservedSlot ==
    /\ rpNow <= RpN /\ rpUpsets < RpMaxUpsets
    /\ rpUpsets' = rpUpsets + 1
    /\ SlotServed(0)
    /\ rpGiven' = TRUE

RpNext == ReservedSlot \/ UnreservedSlot
RpSpec == RpInit /\ [][RpNext]_rpVars

-----------------------------------------------------------------------------
RpTypeOK ==
    /\ rpNow \in 1 .. RpN + 1 /\ rpLevel \in 0 .. RpCapacity /\ rpFirst \in 0 .. RpCapacity
    /\ rpReserve \in 0 .. RpCapacity /\ rpServed \in [rpSlots -> 0 .. RpCapacity]

(* What the battery still has for slot s.  With sun on the way the claim, cut   *)
(* to what the battery holds, is credited with that sun again in every slot:    *)
(* the reserve may shrink to nothing, and only the last sun is sure to be there. *)
KeptFor(s) ==
    LET sunny == {t \in 1 .. s - 1 : Bonus(t) > 0}
    IN IF sunny = {} THEN rpFirst ELSE RpMin(rpFirst, Bonus(Max(sunny)))
(* The first slot that is dearer than every one before it by more than the    *)
(* saving is served in full, with all the battery held at the start, or, when  *)
(* sun comes before it, with the last of that sun                              *)
(* (discharge_reserve.py:110-190, 221-245).                                    *)
DearestIsServed ==
    \A s \in rpSlots :
        /\ s < rpNow /\ ~rpGiven
        /\ \A t \in rpSlots \ {s} : IF t < s THEN rpDay[s].price > rpDay[t].price + RpSaving
                                    ELSE rpDay[s].price >= rpDay[t].price
        => rpServed[s] >= RpMin(RpDemand(s), KeptFor(s))

(* No slot is left short for the sake of one that is not dearer: what stays in *)
(* the battery when a slot was refused fits the demand of the dearer ones.     *)
HeldForDearerOnly ==
    rpNow > 1 => LET s == rpNow - 1 IN
        rpServed[s] < RpDemand(s) =>
            rpReserve <= MapThenSumSet(RpDemand, {t \in rpSlots : t > s /\ rpDay[t].price > rpDay[s].price + RpSaving})
=============================================================================
