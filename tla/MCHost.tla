------------------------------- MODULE MCHost -------------------------------
(***************************************************************************)
(* What lives between the integration and Home Assistant, in one run:       *)
(* configuration flow, life of the entry, migrations, daily history.  They   *)
(* share no variable: `focus` names the one that runs, the others stay in    *)
(* one of their initial states.                                              *)
(***************************************************************************)
EXTENDS ConfigFlow, EntryLife, DomainMove, DailyTally, EntryUpgrade

VARIABLE focus

(* Every brand, two at a time *)
BrandPairs == {[u \in CfUnits |-> IF u = "u" THEN p[1] ELSE p[2]] : p \in
    {<<"marstek", "zendure">>, <<"anker", "sessy">>, <<"huawei", "esphome">>, <<"hoymiles", "marstek">>}}

vars == <<focus, cfVars, elVars, dmVars, dtVars, euVars>>

(* A part that is not in focus starts, and stays, in one state *)
Parked ==
    /\ IF focus # "flow" THEN cfMake = CHOOSE m \in CfMakes : TRUE ELSE TRUE
    /\ IF focus # "move" THEN dmShown = {} ELSE TRUE
    /\ IF focus # "upgrade"
       THEN /\ euVer = (CHOOSE v \in EuVersions : TRUE) /\ euReg = (CHOOSE r \in Registries(euVer) : TRUE)
            /\ euMode = "slot" /\ euRec = "none" /\ euManual = FALSE
       ELSE TRUE
Init ==
    /\ focus \in {"flow", "life", "move", "tally", "upgrade"}
    /\ Parked
    /\ CfInit /\ ElInit /\ DmInit /\ DtInit /\ EuInit

Next ==
    /\ UNCHANGED focus
    /\ \/ focus = "flow" /\ CfNext /\ UNCHANGED <<elVars, dmVars, dtVars, euVars>>
       \/ focus = "life" /\ ElNext /\ UNCHANGED <<cfVars, dmVars, dtVars, euVars>>
       \/ focus = "move" /\ DmNext /\ UNCHANGED <<cfVars, elVars, dtVars, euVars>>
       \/ focus = "tally" /\ DtNext /\ UNCHANGED <<cfVars, elVars, dmVars, euVars>>
       \/ focus = "upgrade" /\ EuNext /\ UNCHANGED <<cfVars, elVars, dmVars, dtVars>>

(* CfFairness, ElFairness and DtFairness, each for the part in focus *)
Fairness ==
    /\ WF_cfVars(focus = "flow" /\ OptionsTested) /\ WF_cfVars(focus = "flow" /\ (LeaseSilent \/ LeaseMoves))
    /\ WF_elVars(focus = "life" /\ SetupSteps) /\ WF_elVars(focus = "life" /\ UnloadSteps)
    /\ WF_elVars(focus = "life" /\ ElPoll) /\ WF_elVars(focus = "life" /\ ElReload)
    /\ WF_dtVars(focus = "tally" /\ JobStarts) /\ WF_dtVars(focus = "tally" /\ JobAsks)
    /\ WF_dtVars(focus = "tally" /\ JobAnswered) /\ WF_dtVars(focus = "tally" /\ JobEnds)

Spec == Init /\ [][Next]_vars /\ Fairness

(* Nothing is left hanging: a link closed for a probe comes back, a battery that was away joins, a
   recorder job ends, and what it writes replaces nothing measured *)
HostSettles ==
    /\ LinkComesBack
    /\ AbsentJoins
    /\ JobFinishes
    /\ MeasuredKept
=============================================================================
