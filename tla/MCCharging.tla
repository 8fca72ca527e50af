----------------------------- MODULE MCCharging -----------------------------
(***************************************************************************)
(* What decides when a battery may charge, and the diary of what it did, in  *)
(* one run: weekly full charge, grid charging, external loads and the day's  *)
(* timeline, each with what must come to an end.                             *)
(* They share no variable, so each is explored by itself: `focus` names the  *)
(* one that runs, the others stay in one of their initial states.            *)
(***************************************************************************)
EXTENDS FullCharge, GridCharge, ExternalLoads, DayDiary

VARIABLE focus

(* The first cell of the first day comes twice *)
LongDay == <<1, 1, 2, 1>>
LongDays == <<1, 1, 1, 2>>

vars == <<focus, wkVars, gcVars, xlVars, ddVars>>

(* A part that is not in focus starts, and stays, in one state *)
Parked ==
    /\ IF focus # "weekly" THEN wkCfg = [b \in WkBatteries |-> CHOOSE c \in WkCeilings : TRUE] ELSE TRUE
    /\ IF focus # "grid" THEN gcHouse = CHOOSE l \in GcLoads : TRUE ELSE TRUE
    /\ IF focus # "loads"
       THEN xlSense = [power |-> [d \in XlDevices |-> {Min(XlPowers)}], active |-> [d \in XlDevices |-> FALSE],
                       enabled |-> XlDevices, sun |-> {}, home |-> {Min(XlHomes)}, ev |-> "off"]
       ELSE TRUE
Init ==
    /\ focus \in {"weekly", "grid", "loads", "diary"}
    /\ Parked
    /\ WkInit /\ GcInit /\ XlInit /\ DdInit

Next ==
    /\ UNCHANGED focus
    /\ \/ focus = "weekly" /\ WkNext /\ UNCHANGED <<gcVars, xlVars, ddVars>>
       \/ focus = "grid" /\ GcNext /\ UNCHANGED <<wkVars, xlVars, ddVars>>
       \/ focus = "loads" /\ XlNext /\ UNCHANGED <<wkVars, gcVars, ddVars>>
       \/ focus = "diary" /\ DdNext /\ UNCHANGED <<wkVars, gcVars, xlVars>>

(* WkFairness, GcFairness and XlFairness, each for the part in focus *)
Fairness ==
    /\ WF_wkVars(focus = "weekly" /\ WkCycle) /\ WF_wkVars(focus = "weekly" /\ SaveRuns)
    /\ WF_wkVars(focus = "weekly" /\ WkSetUp) /\ WF_wkVars(focus = "weekly" /\ WkMidnight)
    /\ WF_gcVars(focus = "grid" /\ GcCycle) /\ WF_gcVars(focus = "grid" /\ GcRegulates)
    /\ WF_gcVars(focus = "grid" /\ GcActs) /\ WF_gcVars(focus = "grid" /\ GcPolls)
    /\ WF_gcVars(focus = "grid" /\ GcWindowPasses) /\ WF_gcVars(focus = "grid" /\ GcPublishes)
    /\ WF_<<xlLatch, xlStatus>>(focus = "loads" /\ RefreshDynamic)

Spec == Init /\ [][Next]_vars /\ Fairness

(* What charges is let go of in the end: a raised cutoff is put back, an overload ends the charge and
   headroom brings it back, a device gives the battery its charge back *)
ChargingSettles ==
    /\ RaisedIsUndone
    /\ OverloadStopsCharge
    /\ HeadroomResumes
    /\ ChargeReturns
=============================================================================
