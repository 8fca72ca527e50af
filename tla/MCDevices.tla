----------------------------- MODULE MCDevices ------------------------------
(***************************************************************************)
(* From the meter to the registers, in one run: the regulator, the writes   *)
(* of the drivers, the Huawei solar gate.  They share no variable: `focus`   *)
(* names the one that runs, the others stay in one of their initial states.  *)
(***************************************************************************)
EXTENDS Regulator, DriverWrites, HuaweiGate

VARIABLE focus

HouseLoads == {-5, -1, 2, 6}
CommandPowers == {-2, 1, 2}
SocWindows == {[top |-> 10, floor |-> 0], [top |-> 6, floor |-> 3]}
SolarAsks == {-6, 3, 7, 13}

devicesVars == <<focus, rgVars, dvVars, hwVars>>
DevicesTypeOK == RgTypeOK /\ DvTypeOK /\ HwTypeOK

(* A part that is not in focus starts, and stays, in one state; the regulator in balance *)
Parked ==
    /\ IF focus # "regulator" THEN rgLoad = (CHOOSE l \in RgLoads : Mag(l) < RgHyst) /\ rgLow = FALSE ELSE TRUE
    /\ IF focus # "writes" THEN dvBrand = CHOOSE b \in DvBrands : TRUE ELSE TRUE
    /\ IF focus # "huawei" THEN hwSun = Min(HwSuns) /\ hwAsk = Min(HwAsks) /\ hwPath = "direct" ELSE TRUE
DevicesInit ==
    /\ focus \in {"regulator", "writes", "huawei"}
    /\ Parked
    /\ RgInit /\ DvInit /\ HwInit

DevicesNext ==
    /\ UNCHANGED focus
    /\ \/ focus = "regulator" /\ RgNext /\ UNCHANGED <<dvVars, hwVars>>
       \/ focus = "writes" /\ DvNext /\ UNCHANGED <<rgVars, hwVars>>
       \/ focus = "huawei" /\ HwNext /\ UNCHANGED <<rgVars, dvVars>>

(* RgFairness, DvFairness and HwFairness, each for the part in focus *)
DevicesFairness ==
    /\ WF_rgVars(focus = "regulator" /\ RgPlant) /\ WF_rgVars(focus = "regulator" /\ RgCycle)
    /\ SF_rgVars(focus = "regulator" /\ RgJitter)
    /\ SF_dvVars(focus = "writes" /\ DvWrite("done"))
    /\ WF_dvVars(focus = "writes" /\ dvBrand = "hoymiles" /\ DvReport)
    /\ SF_dvVars(focus = "writes" /\ KeepTakes) /\ WF_dvVars(focus = "writes" /\ KeepSends)
    /\ WF_dvVars(focus = "writes" /\ KeepSkips) /\ WF_dvVars(focus = "writes" /\ DvLapse)
    /\ SF_dvVars(focus = "writes" /\ DvShutStep)
    /\ WF_hwVars(focus = "huawei" /\ (HwPoll \/ HwApply \/ HwTick))

DevicesSpec == DevicesInit /\ [][DevicesNext]_devicesVars /\ DevicesFairness

(* The device does what it is told: nothing beyond old and new while a command is being written, no
   window narrower than asked, and what the Huawei driver holds to be in force is *)
DeviceObeys ==
    /\ DevicesTypeOK
    /\ SequenceStaysBetween
    /\ WindowContains
    /\ CommandStands

(* From the meter to the registers everything settles: the balance is reached, a low battery spared,
   an outage made up for, a closed driver lets go, and the roof is neither held down nor flapping; a
   driver that reports success has written all of the command *)
DevicesSettle ==
    /\ SuccessIsWhole
    /\ Converges
    /\ LowSpared
    /\ RefreshedAfterOutage
    /\ ClosedLetsGo
    /\ RoofFreed
    /\ SteadySettles
=============================================================================
