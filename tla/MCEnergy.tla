------------------------------ MODULE MCEnergy ------------------------------
(*****************************************************************************)
(* Where energy goes, over time and over batteries, in one run: price slot   *)
(* runtime, chronological planner, surplus hold, discharge reserve,          *)
(* high-price discharge, curtailment, hourly balance, load sharing, the last *)
(* stretch of a charge, the charge delay, and the drivers' readings.  They   *)
(* share no variable: `focus` names the one that runs, the others stay in    *)
(* an initial state.                                                         *)
(*****************************************************************************)
EXTENDS PriceSlots, PricePlan, SurplusHold, PriceReserve, HighExport, Curtail, HourlyBalance, PowerShare, DriverReads, TopCharge,
        ChargeDelay

VARIABLE focus

PlanNets == {-3, -1, 1, 2}
ReserveNets == {-2, -1, 1, 2}
(* Hours to sell in: dear, middling, cheap, and one that still adds sun *)
SaleKinds == {[export |-> {5}, import |-> {3}, net |-> 1], [export |-> {3}, import |-> {2}, net |-> 2],
              [export |-> {1}, import |-> {4}, net |-> 1], [export |-> {4}, import |-> {1}, net |-> -1]}
RefillsToTry == {<<[price |-> 1, sun |-> 3], [price |-> 4, sun |-> 3]>>,
                 <<[price |-> 4, sun |-> 1], [price |-> 2, sun |-> 4]>>}
(* Hours with negative and positive prices, with sun and without, where selling is allowed or not *)
CurtailKinds == {[price |-> -1, net |-> 2, open |-> TRUE], [price |-> -1, net |-> -1, open |-> TRUE],
                 [price |-> 1, net |-> -1, open |-> TRUE], [price |-> 2, net |-> -1, open |-> TRUE],
                 [price |-> 2, net |-> -1, open |-> FALSE], [price |-> 1, net |-> 1, open |-> TRUE]}
ImportAndExport == {-2, 2}
(* Two batteries on phase 1, one on phase 2 *)
PackPhase == <<1, 1, 2>>
PackMost == <<2, 2, 3>>
PackWeight == <<1, 3, 2>>
PhaseLimit == <<3, 2>>
PhaseBases == {-1, 2}

(* Three kinds of day for the delay: a sunny one with prices, the same without, a dull one.  rest: the
   sun still to come at each hour *)
OverDay(s) == [h \in CdHour |-> s[h + 1]]
SunnyRest == OverDay(<<18, 18, 18, 15, 11, 7, 3, 0>>)
DullRest == OverDay(<<6, 6, 6, 6, 4, 2, 0, 0>>)
DaysToTry == {
    [rest |-> SunnyRest, price |-> OverDay(<<3, 3, 4, 3, 1, 2, 5, 5>>), use |-> 1, need |-> 10, len |-> 1, usable |-> 4],
    [rest |-> SunnyRest, price |-> <<>>, use |-> 1, need |-> 10, len |-> 2, usable |-> 4],
    [rest |-> DullRest, price |-> OverDay(<<3, 1, 4, 3, 1, 2, 5, 0>>), use |-> 1, need |-> 10, len |-> 2, usable |-> 0]}

vars == <<focus, psVars, ppVars, ahVars, rpVars, hxVars, cuVars, hbVars, shVars, drVars, tcVars, cdVars>>

(* A part that is not in focus starts, and stays, in one state *)
Parked ==
    /\ IF focus # "slots" THEN psMode = CHOOSE m \in PsModes : TRUE ELSE TRUE
    /\ IF focus # "plan"
       THEN /\ ppIn = Request([i \in Grid |-> Min(PpNets)], [i \in Grid |-> Min(PpPrices)],
                              Min(PpInitial), Min(PpRequired), Min(PpHours), 0)
            /\ ppAt = [stage |-> "blocks", next |-> 1]
       ELSE TRUE
    /\ IF focus # "hold"
       THEN /\ ahDay = [s \in ahSlots |-> [price |-> Min(AhPrices), sun |-> Min(AhSuns)]]
            /\ ahNeed = Min(AhNeeds) /\ ahSpace = Min(AhSpaces)
       ELSE TRUE
    /\ IF focus # "reserve"
       THEN /\ rpDay = [s \in rpSlots |-> [price |-> Min(RpPrices), net |-> Min(RpNets)]]
            /\ rpLevel = Min(RpLevels)
       ELSE TRUE
    /\ IF focus # "sale"
       THEN /\ hxDay = [s \in hxSlots |-> CHOOSE k \in HxKinds : TRUE] /\ hxFill = (CHOOSE f \in HxFills : TRUE)
            /\ hxLevel = Min(HxLevels) /\ hxConf = [t1 |-> TRUE, t2 |-> FALSE, chrono |-> TRUE] /\ hxKnown = TRUE
       ELSE TRUE
    /\ IF focus # "curtail"
       THEN /\ cuDay = [s \in cuSlots |-> CHOOSE k \in CuKinds : TRUE]
            /\ cuLevel = Min(CuLevels) /\ cuMode = CHOOSE m \in CuModes : TRUE
       ELSE TRUE
    /\ IF focus # "hour"
       THEN /\ hbMode = CHOOSE m \in HbModes : TRUE
            /\ hbGrid = [power |-> Min(HbPowers), total |-> 0, read |-> TRUE]
       ELSE TRUE
    /\ IF focus # "share" THEN shBase = [p \in Phases |-> Min(ShBases)] ELSE TRUE
    /\ IF focus # "reads" THEN drBrand = "anker" ELSE TRUE
    /\ IF focus # "top" THEN tcKind = "single" ELSE TRUE
    /\ IF focus # "delay" THEN cdClock = [day |-> 0, hour |-> 0, kind |-> CHOOSE d \in CdDays : TRUE, judged |-> FALSE] ELSE TRUE
Init ==
    /\ focus \in {"slots", "plan", "hold", "reserve", "sale", "curtail", "hour", "share", "reads", "top", "delay"}
    /\ Parked
    /\ PsInit /\ PpInit /\ AhInit /\ RpInit /\ HxInit /\ CuInit /\ HbInit /\ ShInit /\ DrInit /\ TcInit /\ CdInit

Next ==
    /\ UNCHANGED focus
    /\ \/ focus = "slots" /\ PsNext /\ UNCHANGED <<ppVars, ahVars, rpVars, hxVars, cuVars, hbVars, shVars, drVars, tcVars, cdVars>>
       \/ focus = "plan" /\ PpNext /\ UNCHANGED <<psVars, ahVars, rpVars, hxVars, cuVars, hbVars, shVars, drVars, tcVars, cdVars>>
       \/ focus = "hold" /\ AhNext /\ UNCHANGED <<psVars, ppVars, rpVars, hxVars, cuVars, hbVars, shVars, drVars, tcVars, cdVars>>
       \/ focus = "reserve" /\ RpNext /\ UNCHANGED <<psVars, ppVars, ahVars, hxVars, cuVars, hbVars, shVars, drVars, tcVars, cdVars>>
       \/ focus = "sale" /\ HxNext /\ UNCHANGED <<psVars, ppVars, ahVars, rpVars, cuVars, hbVars, shVars, drVars, tcVars, cdVars>>
       \/ focus = "curtail" /\ CuNext /\ UNCHANGED <<psVars, ppVars, ahVars, rpVars, hxVars, hbVars, shVars, drVars, tcVars, cdVars>>
       \/ focus = "hour" /\ HbNext /\ UNCHANGED <<psVars, ppVars, ahVars, rpVars, hxVars, cuVars, shVars, drVars, tcVars, cdVars>>
       \/ focus = "share" /\ ShNext /\ UNCHANGED <<psVars, ppVars, ahVars, rpVars, hxVars, cuVars, hbVars, drVars, tcVars, cdVars>>
       \/ focus = "reads" /\ DrNext /\ UNCHANGED <<psVars, ppVars, ahVars, rpVars, hxVars, cuVars, hbVars, shVars, tcVars, cdVars>>
       \/ focus = "top" /\ TcNext /\ UNCHANGED <<psVars, ppVars, ahVars, rpVars, hxVars, cuVars, hbVars, shVars, drVars, cdVars>>
       \/ focus = "delay" /\ CdNext /\ UNCHANGED <<psVars, ppVars, ahVars, rpVars, hxVars, cuVars, hbVars, shVars, drVars, tcVars>>

Spec == Init /\ [][Next]_vars

(* What was planned is kept: a slot that reached its target stays closed, a plan that reports no
   shortfall leaves the house none, fits the request and stores the sun of the negative hours *)
PlansKept ==
    /\ PsTypeOK /\ PpTypeOK /\ CuTypeOK
    /\ DoneStaysDone
    /\ PlanHoldsOut /\ PlanFitsRequest /\ BlocksCover
    /\ NegativeSunStored /\ ImportSparesSun

(* Energy held, reserved or sold for its price pays, and never at the cost of what the house needs:
   over the whole day, decided slot after slot on what was then known *)
PricesPay ==
    /\ AhTypeOK /\ RpTypeOK /\ HxTypeOK
    /\ ShortfallMadeUp /\ HoldPays
    /\ DearestIsServed /\ HeldForDearerOnly
    /\ SaleNeverLoses /\ TailKept /\ SurplusSparesHouse

(* Waiting loses nothing: what a slot did not get is carried to the others or reported, and a charge
   held for a cheaper hour is released in time *)
WaitingLosesNothing ==
    /\ CarryLosesNothing
    /\ HoldKeepsTarget
=============================================================================
