----------------------------- MODULE HighExport ------------------------------
(* Selling stored energy into a price peak: pricing/high_price_discharge.py    *)
(* (the plan) and control/high_price_discharge.py (the setpoint override it    *)
(* becomes).  Trigger 1 sells what the house does not need before sunrise if   *)
(* the next day's sun proves it can be refilled; trigger 2 sells energy the    *)
(* house does need, against a later demand that is bought back for less.       *)
(*                                                                             *)
(* The model walks the horizon (now until sunrise) slot by slot and then the   *)
(* fill window behind it.  A slot takes one unit of time, so power and energy  *)
(* are the same number; efficiency is 1.  Beside the battery that sells runs a *)
(* shadow that never does, with which the properties compare it.  As in the    *)
(* plan, the sun of the horizon itself goes to the grid.                       *)
EXTENDS Integers, Sequences, FiniteSets, FiniteSetsExt

CONSTANTS
    HxN,         \* slots of the horizon
    HxKinds,     \* kinds of slot: export and import price ({} unknown), consumption - sun
    HxTails,     \* consumption of the last slot when its prices are not published yet
    HxFills,     \* fill windows: sequences of export price and sun - consumption
    HxLevels,    \* usable energy at the start
    HxCapacity,  \* usable energy of a full battery
    HxPower,     \* discharge power of the fleet
    HxCeiling,   \* high_price_discharge_max_power_w
    HxCost,      \* min_arbitrage_margin
    HxMargin,    \* _predictive_safety_margin_kwh
    HxMaxUpsets  \* bound on guards, refetches, toggles and missing plans

ASSUME HxAssumption ==
    /\ HxN \in Nat \ {0} /\ HxCapacity \in Nat /\ HxLevels \subseteq 0 .. HxCapacity
    /\ HxPower \in Nat /\ HxCeiling \in Nat \ {0} /\ HxCost \in Nat /\ HxMargin \in Nat
    /\ HxTails \subseteq Nat /\ HxMaxUpsets \in Nat
    /\ \A k \in HxKinds : k.export # {} /\ k.import # {}

VARIABLES
    hxDay,     \* the slots of the horizon
    hxFill,    \* the fill window
    hxNow,     \* the current slot
    hxLevel,   \* usable energy
    hxConf,    \* the two triggers, and chronological_coverage (no discharge reserve)
    hxKnown,   \* the hourly forecast of the fill window is there
    hxMoney,   \* history: earned on exports less paid for imports, less the cost of selling
    hxShort,   \* history: demand not served in a slot without price
    hxSpared,  \* history: every demand was served as the shadow served it
    hxAlone,   \* history: trigger 2 has been off throughout
    hxShadow,  \* history: level, money and short of a battery that never sells
    hxUpsets

hxVars == <<hxDay, hxFill, hxNow, hxLevel, hxConf, hxKnown, hxMoney, hxShort,
            hxSpared, hxAlone, hxShadow, hxUpsets>>

hxSlots == 1 .. HxN
HxMin(a, b) == IF a < b THEN a ELSE b
HxPos(n) == IF n > 0 THEN n ELSE 0
Of(s) == CHOOSE x \in s : TRUE

Deficit(s) == HxPos(hxDay[s].net)
Excess(s) == HxPos(-hxDay[s].net)
Priced(s) == hxDay[s].import # {}
Ahead == hxNow .. HxN

(* _slot_capacity_kwh: what the connection still allows beside the sun's own   *)
(* export, and what the batteries have left beside the house.                  *)
SlotCapacity(s) == HxMin(HxPos(HxCeiling - Excess(s)), HxPos(HxPower - Deficit(s)))

(* protected_demand_kwh: the sum of every deficit, never offset by a surplus. *)
ProtectedDemand == MapThenSumSet(Deficit, Ahead)

-----------------------------------------------------------------------------
(* Trigger 1 *)

Filling(from, i) == MapThenSumSet(LAMBDA j : hxFill[j].sun, 1 .. i) + from

(* _solar_refill_price: the dearest hour whose sun is needed until the battery *)
(* is full again; {} unless the forecast proves that it gets full and that it  *)
(* is not drained first.                                                       *)
RefillPrice(from) ==
    LET fullAt == {i \in DOMAIN hxFill : Filling(from, i) >= HxCapacity}
        last == Min(fullAt)
    IN  IF from >= HxCapacity THEN {0}
        ELSE IF \/ ~hxKnown \/ fullAt = {}
                \/ \E i \in 1 .. last : Filling(from, i) < 0
        THEN {}
        ELSE {Max({0} \cup {hxFill[i].price : i \in {j \in 1 .. last : hxFill[j].sun > 0}})}

DearestFirst(s, t) ==
    \/ Of(hxDay[s].export) > Of(hxDay[t].export)
    \/ hxDay[s].export = hxDay[t].export /\ s < t

\* Mutant of SellBudget: what the house needs is sold as well.
BudgetUnprotected == HxPos(hxLevel - HxMargin)
(* What is left once the house and the safety margin are provided for. *)
SellBudget == HxPos(hxLevel - ProtectedDemand - HxMargin)

(* The surplus sold in each slot, dearest first. *)
SurplusSales ==
    LET budget == SellBudget
        price == RefillPrice(HxPos(hxLevel - ProtectedDemand - budget))
        over == {s \in Ahead : /\ hxDay[s].export # {}
                               /\ Of(hxDay[s].export) > Of(price) + HxCost}
        takes == IF hxConf.t1 /\ budget > 0 /\ price # {} THEN over ELSE {}
    IN  [s \in Ahead |->
           IF s \in takes
           THEN HxPos(HxMin(SlotCapacity(s),
                    budget - MapThenSumSet(SlotCapacity, {t \in takes : DearestFirst(t, s)})))
           ELSE 0]

-----------------------------------------------------------------------------
(* Trigger 2 *)

PricedEnd == Max({0} \cup {s \in Ahead : Priced(s)})

UnpricedTail == MapThenSumSet(Deficit, {s \in Ahead : s > PricedEnd})

(* tail_coverage: without a reserve the battery runs out before the horizon    *)
(* does, so selling makes the run-out come sooner.                             *)
RunsOut(left) == hxConf.chrono /\ left < ProtectedDemand

(* The demand a sale may be linked to: all of it, or what the battery reaches. *)
Ledger(left) ==
    [s \in Ahead |->
       IF RunsOut(left)
       THEN HxPos(HxMin(Deficit(s), left - MapThenSumSet(Deficit, {t \in Ahead : t < s})))
       ELSE Deficit(s)]

(* tail_reserve_kwh: what a sale leaves for the slots without a price. *)
TailReserve ==
    IF UnpricedTail = 0 THEN 0
    ELSE IF hxConf.chrono THEN ProtectedDemand ELSE UnpricedTail

Later(s) == {t \in Ahead : s < t /\ t <= PricedEnd}

(* The slots that may sell: everything later is priced and, unless links are   *)
(* judged one by one, cheaper by the cost.                                     *)
Sellers(left) ==
    {s \in Ahead : /\ hxConf.t2 /\ hxDay[s].export # {}
                   /\ Later(s) # {} /\ \A t \in Later(s) : Priced(t)
                   /\ \/ RunsOut(left)
                      \/ \A t \in Later(s) : Of(hxDay[s].export) > Of(hxDay[t].import) + HxCost}

Beats(s, t) == Priced(t) /\ Of(hxDay[s].export) > Of(hxDay[t].import) + HxCost

(* From the run-out backwards, up to the first demand the sale does not beat. *)
TailLinks(s, ledger) ==
    LET open == {t \in Ahead : ledger[t] > 0}
        stop == Max({0} \cup {t \in open : t <= s \/ ~Beats(s, t)})
    IN  {t \in open : t > stop}

Linkable(s, ledger) == {t \in Ahead : ledger[t] > 0 /\ t > s /\ Priced(t)}

(* One seller: the links it takes off the ledger, the latest demand first when *)
(* the battery runs out, the earliest first otherwise.                         *)
Linked(w, s, surplus, outs) ==
    LET links == IF outs THEN TailLinks(s, w.ledger) ELSE Linkable(s, w.ledger)
        cap == HxPos(SlotCapacity(s) - surplus[s])
        room == IF outs THEN w.left ELSE w.left - TailReserve
        owed == MapThenSumSet(LAMBDA t : w.ledger[t], links)
        sale == HxPos(HxMin(HxMin(cap, room), owed))
        Sooner(t) == {u \in links : IF outs THEN u > t ELSE u < t}
        take == [t \in links |->
                   HxPos(HxMin(w.ledger[t], sale - MapThenSumSet(LAMBDA u : w.ledger[u], Sooner(t))))]
    IN  [ledger |-> [t \in Ahead |-> IF t \in links THEN w.ledger[t] - take[t] ELSE w.ledger[t]],
         left |-> w.left - sale, sales |-> [w.sales EXCEPT ![s] = @ + sale]]

(* plan_high_price_discharge: the energy each slot exports. *)
Allocations ==
    LET surplus == SurplusSales
        left == hxLevel - MapThenSumSet(LAMBDA s : surplus[s], Ahead)
        outs == RunsOut(left)
        sellers == Sellers(left)
        Nth(k) == CHOOSE s \in sellers : Cardinality({t \in sellers : DearestFirst(t, s)}) = k - 1
        walk[k \in 0 .. Cardinality(sellers)] ==
          IF k = 0 THEN [ledger |-> Ledger(left), left |-> left, sales |-> surplus]
          ELSE Linked(walk[k - 1], Nth(k), surplus, outs)
    IN  walk[Cardinality(sellers)].sales

-----------------------------------------------------------------------------
NoShadow(level) == [level |-> level, money |-> 0, short |-> 0]

HxInit ==
    /\ hxDay \in {[s \in hxSlots |-> IF s = HxN THEN t ELSE d[s]] :
                    d \in [1 .. HxN - 1 -> HxKinds],
                    t \in HxKinds \cup {[export |-> {}, import |-> {}, net |-> n] : n \in HxTails}}
    /\ hxFill \in HxFills
    /\ hxLevel \in HxLevels
    /\ hxConf \in {c \in [t1 : BOOLEAN, t2 : BOOLEAN, chrono : BOOLEAN] : c.t1 \/ c.t2}
    /\ hxNow = 1 /\ hxKnown \in BOOLEAN
    /\ hxMoney = 0 /\ hxShort = 0 /\ hxSpared = TRUE /\ hxAlone = ~hxConf.t2
    /\ hxShadow = NoShadow(hxLevel)
    /\ hxUpsets = 0

(* With a discharge reserve the house is served only from what dearer and      *)
(* unpriced slots ahead do not need (the module PriceReserve).                 *)
Reserved ==
    IF hxConf.chrono THEN 0
    ELSE MapThenSumSet(Deficit, {t \in Ahead : /\ t > hxNow
                                               /\ ~Priced(t) \/ ~Priced(hxNow)
                                                  \/ Of(hxDay[t].import) > Of(hxDay[hxNow].import)})

ToHouse(level) == HxMin(HxMin(Deficit(hxNow), HxPower), HxPos(level - Reserved))

(* The target is a net one: the sun's own export counts towards it. *)
SoldNow(alloc) ==
    HxMin(HxPos(alloc - Excess(hxNow)),
          HxMin(HxPower - ToHouse(hxLevel), hxLevel - ToHouse(hxLevel)))

PriceOf(p) == IF p = {} THEN 0 ELSE Of(p)
Bill(unmet) == unmet * PriceOf(hxDay[hxNow].import)
Unpriced(unmet) == IF Priced(hxNow) THEN 0 ELSE unmet

(* One slot: refresh_override has set or removed the export target. *)
HxSlot(alloc) ==
    LET give == ToHouse(hxLevel)
        shadow == ToHouse(hxShadow.level)
        sold == SoldNow(alloc)
    IN  /\ hxLevel' = hxLevel - give - sold
        /\ hxMoney' = hxMoney - Bill(Deficit(hxNow) - give)
                              + sold * (PriceOf(hxDay[hxNow].export) - HxCost)
        /\ hxShort' = hxShort + Unpriced(Deficit(hxNow) - give)
        /\ hxSpared' = (hxSpared /\ give >= shadow)
        /\ hxShadow' = [level |-> hxShadow.level - shadow,
                        money |-> hxShadow.money - Bill(Deficit(hxNow) - shadow),
                        short |-> hxShadow.short + Unpriced(Deficit(hxNow) - shadow)]
        /\ hxNow' = hxNow + 1
        /\ UNCHANGED <<hxDay, hxFill, hxConf, hxKnown, hxAlone>>

(* _maybe_rebuild: the plan is remade several times within a slot, and at once *)
(* when the settings or the forecast change, so a slot sells by its own plan.  *)
SellSlot ==
    /\ hxNow <= HxN
    /\ HxSlot(Allocations[hxNow])
    /\ UNCHANGED hxUpsets

HxUpset == hxUpsets < HxMaxUpsets /\ hxUpsets' = hxUpsets + 1

(* _block_guard: a charge slot, the weekly charge, curtailment, capacity       *)
(* protection, manual control, a blocked discharge or a silent meter; or no    *)
(* plan, for want of prices, forecast or consumption profile.                  *)
SaleBlocked == hxNow <= HxN /\ HxUpset /\ HxSlot(0)

(* The user switches a trigger or the discharge reserve. *)
TriggersSet ==
    /\ hxNow <= HxN /\ HxUpset
    /\ \E c \in [t1 : BOOLEAN, t2 : BOOLEAN, chrono : {hxConf.chrono}] \ {hxConf} :
         hxConf' = c /\ hxAlone' = (hxAlone /\ ~c.t2)
    /\ UNCHANGED <<hxDay, hxFill, hxNow, hxLevel, hxKnown, hxMoney, hxShort, hxSpared, hxShadow>>

(* _fetch_solar_forecast answers, with the hours or with nothing. *)
ForecastFetched ==
    /\ hxNow <= HxN /\ HxUpset
    /\ hxConf.t1
    /\ hxKnown' = ~hxKnown
    /\ UNCHANGED <<hxDay, hxFill, hxNow, hxLevel, hxConf, hxMoney, hxShort, hxSpared, hxAlone, hxShadow>>

HxNext == SellSlot \/ SaleBlocked \/ TriggersSet \/ ForecastFetched
HxSpec == HxInit /\ [][HxNext]_hxVars

-----------------------------------------------------------------------------
HxTypeOK ==
    /\ hxNow \in 1 .. HxN + 1 /\ hxLevel \in 0 .. HxCapacity /\ hxShadow.level \in 0 .. HxCapacity
    /\ hxMoney \in Int /\ hxShort \in Nat /\ hxSpared \in BOOLEAN

(* What the fill window earns a battery that enters it with this much: its sun *)
(* fills the battery first, and goes to the grid after that.                   *)
FillMoney(from) ==
    LET walk[i \in 0 .. Len(hxFill)] ==
          IF i = 0 THEN [level |-> from, money |-> 0]
          ELSE LET w == walk[i - 1]
                   sun == HxPos(hxFill[i].sun)
                   taken == HxMin(sun, HxCapacity - w.level)
                   used == HxMin(HxPos(-hxFill[i].sun), w.level)
               IN  [level |-> w.level + taken - used, money |-> w.money + (sun - taken) * hxFill[i].price]
    IN  walk[Len(hxFill)].money

(* Selling leaves the house no worse off than keeping would have, with the     *)
(* cost of every sale paid (high_price_discharge.py:3-8).  For trigger 1 alone *)
(* that includes the fill window: the sun that refills the battery is worth    *)
(* less than what was sold.  With trigger 2 it holds up to sunrise: what is    *)
(* bought back later costs less than the sale brought.                         *)
SaleNeverLoses ==
    hxNow = HxN + 1 =>
        IF hxAlone THEN hxMoney + FillMoney(hxLevel) >= hxShadow.money + FillMoney(hxShadow.level)
        ELSE hxMoney >= hxShadow.money

(* A night whose prices are not published is served as if nothing had been     *)
(* sold (high_price_discharge.py:456-457, 553-561).                            *)
TailKept == hxNow = HxN + 1 /\ hxConf.chrono => hxShort <= hxShadow.short

(* Trigger 1 on its own takes nothing from the house: no demand up to sunrise  *)
(* goes without energy it would have had (high_price_discharge.py:22-24).      *)
SurplusSparesHouse == hxAlone => hxSpared
=============================================================================
