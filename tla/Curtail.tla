------------------------------- MODULE Curtail -------------------------------
(* Making room for sun that would otherwise be injected at a negative price:   *)
(* pricing/curtailment.py (the plan) and the smart pre-discharge part of       *)
(* pricing/engine.py (its live action, its replanning, and the import charging *)
(* it lets through in the same hours).                                         *)
(*                                                                             *)
(* The model walks one day slot by slot; a slot takes one unit of time, so     *)
(* power and energy are the same number, and the charge efficiency is 1.  The  *)
(* live action is worked out at the beginning of a slot from the battery as it *)
(* is.  Beside the battery runs a shadow that never imports, with which        *)
(* ImportSparesSun compares it.                                                *)
EXTENDS Integers, FiniteSets, FiniteSetsExt

CONSTANTS
    CuN,        \* slots of the day
    CuKinds,    \* kinds of slot: price, net = sun - load, open = discharge allowed
    CuCapacity, \* usable capacity up to max_soc
    CuFloor,    \* predischarge_reserve_soc
    CuCharge, CuDischarge,  \* power limits
    CuMargin,   \* _predictive_safety_margin_kwh
    CuModes,    \* export modes: "self_consumption", "automatic", "custom"
    CuExport,   \* the custom limit
    CuLevels,   \* level at the start of the day
    CuMaxUpsets \* bound on fail-safes, outside charging and sun that does not come

ASSUME CuAssumption ==
    /\ CuN \in Nat \ {0} /\ CuCapacity \in Nat /\ CuFloor \in 0 .. CuCapacity
    /\ CuCharge \in Nat /\ CuDischarge \in Nat /\ CuMargin \in Nat /\ CuExport \in Nat
    /\ CuModes \subseteq {"self_consumption", "automatic", "custom"}
    /\ CuLevels \subseteq 0 .. CuCapacity /\ CuMaxUpsets \in Nat

VARIABLES
    cuDay,     \* the slots, as forecast
    cuNow,     \* the current slot
    cuLevel,   \* energy in the battery
    cuMode,    \* the export mode
    cuPlan,    \* _curtailment_plan: the selected slots, the shortfall, the level it saw
    cuLost,    \* history: sun at risk that found no room
    cuShadow,  \* history: level, loss and plan of a battery that never imports
    cuSound,   \* history: the last plan had no shortfall and nothing went wrong since
    cuBroken,  \* history: sun at risk was lost under such a plan
    cuDark,    \* history: energy was imported at a negative price outside the risk slots
    cuUpsets

cuVars == <<cuDay, cuNow, cuLevel, cuMode, cuPlan, cuLost, cuShadow, cuSound, cuBroken, cuDark, cuUpsets>>

cuSlots == 1 .. CuN
CuMin(a, b) == IF a < b THEN a ELSE b
CuPos(n) == IF n > 0 THEN n ELSE 0

SunOver(s) == CuPos(cuDay[s].net)
LoadOver(s) == CuPos(-cuDay[s].net)

(* The slots to come whose surplus would be injected at or below the threshold. *)
RiskSlots == {s \in cuSlots : s >= cuNow /\ cuDay[s].price <= 0 /\ SunOver(s) > 0}

(* solar_reserve_by_slot: what the charge power can take of a slot's surplus. *)
SlotReserve(s) == CuMin(SunOver(s), CuCharge)

(* required_headroom_kwh, and solar_reserve_remaining_kwh as the day goes on. *)
Reserve == IF RiskSlots = {} THEN 0 ELSE MapThenSumSet(SlotReserve, RiskSlots) + CuMargin

(* calculate_opportunistic_space_kwh *)
Space(level) == CuPos(CuCapacity - level - Reserve)

Deliberate == CASE cuMode = "automatic" -> CuDischarge
                [] cuMode = "custom" -> CuExport
                [] cuMode = "self_consumption" -> 0

(* What a slot can give: into the load, and into the grid as far as allowed. *)
CanGive(s) == CuMin(CuDischarge, LoadOver(s) + Deliberate)

(* All headroom must exist before the first risk slot. *)
DischargeCandidates ==
    {s \in cuSlots : s >= cuNow /\ cuDay[s].price > 0 /\ cuDay[s].open /\ s < Min(RiskSlots)}

(* Dearest first, the later of two equals. *)
MoreValuable(s, t) ==
    \/ cuDay[s].price > cuDay[t].price
    \/ cuDay[s].price = cuDay[t].price /\ s > t

(* select_most_valuable_discharge_slots *)
MostValuable(cands, want) ==
    {t \in cands : /\ CanGive(t) > 0
                   /\ MapThenSumSet(CanGive, {s \in cands : MoreValuable(s, t)}) < want}

(* plan_curtailment for a battery that holds this much. *)
PlanAt(level) ==
    LET extra == Reserve - (CuCapacity - level)
        want == CuMin(extra, CuPos(level - CuFloor))
        chosen == MostValuable(DischargeCandidates, want)
        planned == CuMin(want, MapThenSumSet(CanGive, chosen))
    IN  IF RiskSlots = {} \/ extra <= 0
        THEN [selected |-> {}, short |-> FALSE, seen |-> level]
        ELSE [selected |-> chosen, short |-> planned < extra, seen |-> level]

(* _maybe_rebuild_curtailment_plan: before the first risk slot begins, when the *)
(* headroom moved or headroom is missing and no selected slot is left.          *)
ReplanDueFor(plan, level) ==
    /\ RiskSlots # {} /\ cuNow < Min(RiskSlots)
    /\ \/ level # plan.seen
       \/ CuCapacity - level < Reserve /\ \A s \in plan.selected : s < cuNow
PlanFor(plan, level) == IF ReplanDueFor(plan, level) THEN PlanAt(level) ELSE plan

ReplanDue == ReplanDueFor(cuPlan, cuLevel)
CurrentPlan == PlanFor(cuPlan, cuLevel)

-----------------------------------------------------------------------------
CuInit ==
    /\ cuDay \in [cuSlots -> CuKinds]
    /\ cuNow = 1
    /\ cuLevel \in CuLevels
    /\ cuMode \in CuModes
    /\ cuPlan = PlanAt(cuLevel)
    /\ cuLost = 0 /\ cuShadow = [level |-> cuLevel, lost |-> 0, plan |-> cuPlan]
    /\ cuSound = ~cuPlan.short /\ cuBroken = FALSE /\ cuDark = FALSE
    /\ cuUpsets = 0

AtRisk == cuNow \in RiskSlots

(* _refresh_curtailment_runtime in a selected slot: the export that makes the  *)
(* missing headroom in what is left of it, as far as the mode allows.          *)
ExportTarget(level, selected) ==
    LET needed == CuMin(CuDischarge, CuPos(Reserve - (CuCapacity - level)))
    IN  IF AtRisk \/ cuNow \notin selected THEN 0 ELSE CuMin(Deliberate, needed)

(* The slot: the battery balances the house to the target.  The reserve floor  *)
(* guards the pre-discharge; an operation block stops discharging.             *)
LevelAfter(level, selected, sun) ==
    LET flow == ExportTarget(level, selected) - sun
        floor == IF cuNow \in selected THEN CuFloor ELSE 0
    IN  IF flow > 0
        THEN IF cuDay[cuNow].open THEN level - CuMin(CuMin(flow, CuDischarge), CuPos(level - floor)) ELSE level
        ELSE level + CuMin(CuMin(-flow, CuCharge), CuCapacity - level)

LostHere(level, sun) ==
    IF AtRisk THEN CuPos(CuMin(CuPos(sun), CuCharge) - (CuCapacity - level)) ELSE 0

(* A slot passes with this plan, import from the grid, and sun less the load; *)
(* live says that the runtime acts: the shadow battery keeps a plan of its own *)
(* and loses the slot where the real one does.                                 *)
CuSlot(plan, live, import, sun) ==
    /\ cuPlan' = plan
    /\ cuLevel' = LevelAfter(cuLevel + import, plan.selected, sun)
    /\ cuLost' = cuLost + LostHere(cuLevel + import, sun)
    /\ \E q \in {IF live THEN PlanFor(cuShadow.plan, cuShadow.level)
                         ELSE [cuShadow.plan EXCEPT !.selected = @ \ {cuNow}]} :
         cuShadow' = [level |-> LevelAfter(cuShadow.level, q.selected, sun), plan |-> q,
                      lost |-> cuShadow.lost + LostHere(cuShadow.level, sun)]
    /\ cuNow' = cuNow + 1
    /\ cuBroken' = (cuBroken \/ (cuSound' /\ LostHere(cuLevel + import, sun) > 0))
    /\ UNCHANGED <<cuDay, cuMode>>

RunSlot ==
    /\ cuNow <= CuN
    /\ \E p \in {CurrentPlan} :
         /\ cuSound' = IF ReplanDue THEN ~p.short ELSE cuSound
         /\ CuSlot(p, TRUE, 0, cuDay[cuNow].net)
    /\ UNCHANGED <<cuDark, cuUpsets>>

(* What a charge from the grid can add in the slot, under a ceiling. *)
Imported(ceiling) == CuMin(ceiling, CuCharge - CuMin(CuPos(cuDay[cuNow].net), CuCharge))

(* _prepare_curtailment_opportunistic_charge: in a risk slot the target leaves *)
(* the solar reserve free; elsewhere it is max_soc.                            *)
ImportSlot ==
    /\ cuNow <= CuN /\ cuDay[cuNow].price < 0
    /\ cuSound' = (cuSound /\ AtRisk)
    /\ LET ceiling == IF AtRisk THEN Space(cuLevel) ELSE CuCapacity - cuLevel
       IN  /\ Imported(ceiling) > 0
           /\ \E p \in {CurrentPlan} :
                CuSlot([p EXCEPT !.selected = @ \ {cuNow}], TRUE, Imported(ceiling), CuPos(cuDay[cuNow].net))
    /\ cuDark' = (cuDark \/ ~AtRisk)
    /\ UNCHANGED cuUpsets

CuUpset == cuNow <= CuN /\ cuUpsets < CuMaxUpsets /\ cuUpsets' = cuUpsets + 1 /\ UNCHANGED cuDark

(* clear_curtailment_runtime: no meter, no price, no forecast or a runtime     *)
(* error.  Overrides and blocks go; the battery balances the house to zero.    *)
FailSafeSlot ==
    /\ CuUpset
    /\ cuSound' = FALSE
    /\ CuSlot([cuPlan EXCEPT !.selected = @ \ {cuNow}], FALSE, 0, cuDay[cuNow].net)

(* The sun brings less than the forecast. *)
DimSlot ==
    /\ CuUpset /\ cuDay[cuNow].net > 0
    /\ cuSound' = IF ReplanDue THEN ~CurrentPlan.short ELSE cuSound
    /\ \E p \in {CurrentPlan} : CuSlot(p, TRUE, 0, cuDay[cuNow].net - 1)

(* The weekly charge, a manual command or a price slot fills the battery. *)
ChargedOutside ==
    /\ CuUpset /\ cuLevel < CuCapacity
    /\ cuLevel' = CuCapacity
    /\ cuShadow' = [cuShadow EXCEPT !.level = CuCapacity]
    /\ cuSound' = FALSE
    /\ UNCHANGED <<cuDay, cuNow, cuMode, cuPlan, cuLost, cuBroken>>

CuNext == RunSlot \/ ImportSlot \/ FailSafeSlot \/ DimSlot \/ ChargedOutside
CuSpec == CuInit /\ [][CuNext]_cuVars

-----------------------------------------------------------------------------
CuTypeOK ==
    /\ cuNow \in 1 .. CuN + 1 /\ cuLevel \in 0 .. CuCapacity
    /\ cuPlan.selected \subseteq cuSlots /\ cuPlan.short \in BOOLEAN /\ cuPlan.seen \in 0 .. CuCapacity
    /\ cuLost \in Nat /\ cuShadow.level \in 0 .. CuCapacity /\ cuShadow.plan.selected \subseteq cuSlots

(* Neither the plan nor the live action looks at sun outside the risk slots. *)
SunAtRiskOnly == \A s \in cuSlots : cuDay[s].net > 0 => cuDay[s].price <= 0

(* A plan that reports no shortfall keeps its word: all the sun of the         *)
(* negative hours that the charge power can take finds room, through the       *)
(* discharges before them, the replanning on the way and the imports between   *)
(* (curtailment.py:618-622, engine.py:1956-1963).                              *)
NegativeSunStored == SunAtRiskOnly => ~cuBroken

(* Import charging in the negative hours never costs sun that a battery which  *)
(* does not import would have stored: "Opportunistic energy is never allowed   *)
(* to consume reserved solar headroom" (engine.py:3647-3648).                  *)
ImportSparesSun == SunAtRiskOnly /\ ~cuDark => cuLost <= cuShadow.lost
=============================================================================
