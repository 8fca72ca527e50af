----------------------------- MODULE HuaweiGate -----------------------------
(***************************************************************************)
(* The Huawei driver (drivers/huawei.py).  A forcible command on this hybrid is a  *)
(* ceiling on the roof: while it stands the inverter harvests no more than it asks,  *)
(* so what the driver reads of the sun is its own doing.  The gate decides from the    *)
(* readings it can believe whether to command at all, probes when it has none, and      *)
(* writes four registers per command, seldom enough for the battery to ramp and often    *)
(* enough for the command not to run out.  The sun, the inverter and the writes that       *)
(* fail close the loop; powers are in steps of 50 W, time in steps of 20 s.                 *)
(***************************************************************************)
EXTENDS Integers, FiniteSetsExt

CONSTANTS
    HwSuns,      \* what the roof could harvest; 0 is night
    HwAsks,      \* powers the control layer may ask for
    HwPaths,     \* which ways of writing are checked: registers, and huawei_solar's services
    HwThreshold, HwHyst, HwDeadband, \* harvest worth protecting, its band, smallest change worth a write
    HwSettle, HwGap, HwProbe, HwWindow, HwRefresh, HwDuration, \* ticks: tracker settles, battery ramps,
                 \* verdict gets old, a probe lasts, a command is renewed, a command runs out
    HwMaxUpsets  \* bound: changes of sun and request, failed writes and reads, releases

ASSUME HwAssumption ==
    /\ HwSuns \subseteq Nat /\ HwAsks \subseteq Int /\ HwPaths \subseteq {"direct", "service"}
    /\ {HwThreshold, HwHyst, HwDeadband, HwSettle, HwGap, HwProbe, HwWindow} \subseteq Nat \ {0}
    /\ {HwRefresh, HwDuration, HwMaxUpsets} \subseteq Nat
    /\ HwRefresh > HwGap /\ HwDuration > HwRefresh /\ HwSettle <= HwRefresh

VARIABLES
    hwSun, hwAsk, hwPath,
    hwDev,     \* the inverter: mode, charge and discharge power, ticks left, ticks since it was let go
    hwLast,    \* _last_written_w, empty when none
    hwSince,   \* ticks since _last_write_monotonic, as far as the driver tells them apart
    hwStrings, \* _strings_lit
    hwLit,     \* _pv_lit
    hwSeen,    \* _pv_harvest_w, empty when no reading can be believed
    hwAge,     \* ticks since _pv_verdict_monotonic
    hwUntil,   \* ticks left of a probe, -1 when there is none
    hwTorn,    \* history: a write failed since the last one that did not
    hwTurn, hwLeft

hwVars == <<hwSun, hwAsk, hwPath, hwDev, hwLast, hwSince, hwStrings, hwLit, hwSeen, hwAge, hwUntil, hwTorn, hwTurn, hwLeft>>
gate == <<hwStrings, hwLit, hwSeen, hwAge, hwUntil>>

HwTypeOK ==
    /\ hwSun \in HwSuns /\ hwAsk \in HwAsks /\ hwPath \in HwPaths
    /\ hwDev.mode \in -1..1 /\ {hwDev.ch, hwDev.dis} \subseteq Nat
    /\ hwDev.left \in 0..HwDuration /\ hwDev.calm \in 0..HwSettle
    /\ hwLast \in {{}} \cup {{n} : n \in HwAsks \cup {0}} /\ hwSince \in 0..HwRefresh
    /\ {hwStrings, hwLit, hwTorn} \subseteq BOOLEAN /\ hwSeen \in {{}} \cup {{n} : n \in HwSuns \cup HwAsks \cup {0}}
    /\ hwAge \in 0..HwProbe /\ hwUntil \in -1..HwWindow
    /\ hwTurn \in {"tick", "poll", "apply"} /\ hwLeft \in 0..HwMaxUpsets

---------------------------------------------------------------------------
Forced(d) == IF d.mode = 1 THEN d.ch ELSE IF d.mode = -1 THEN -d.dis ELSE 0
(* what the roof gives under the command in force; for a while after a release, anything up to the sun *)
Harvests ==
    CASE hwDev.mode = 1 -> {Min({hwSun, hwDev.ch})}
      [] hwDev.mode = -1 -> {0}
      [] hwDev.calm < HwSettle -> {0, hwSun}
      [] OTHER -> {hwSun}
Curtailed == hwDev.mode # 0 /\ hwSun > HwThreshold + HwHyst /\ Harvests # {hwSun}
Way(n) == IF n > 0 THEN 1 ELSE IF n < 0 THEN -1 ELSE 0
Standing == IF hwLast = {} THEN 0 ELSE Max(hwLast)

(* _update_pv_gate(): can this reading be believed? *)
Believable(harvest) ==
    IF Standing = 0 THEN hwSince >= HwSettle ELSE Standing > 0 /\ Standing > harvest + HwHyst
Threshold == IF hwLit THEN HwThreshold - HwHyst ELSE HwThreshold + HwHyst
GateSays(lit) == hwLit' = lit /\ hwAge' = 0 /\ hwUntil' = -1
GateNight == hwStrings' = FALSE /\ hwSeen' = {0} /\ GateSays(FALSE)
GateReads(harvest) ==
    /\ hwStrings' = TRUE
    /\ hwSeen' = IF Believable(harvest) THEN {harvest} ELSE {}
    /\ IF harvest > Threshold THEN GateSays(TRUE)
       ELSE IF Believable(harvest) THEN GateSays(FALSE)
       ELSE /\ UNCHANGED hwLit
            /\ IF hwUntil >= 0
               THEN IF hwUntil = 0 THEN hwUntil' = -1 /\ hwAge' = 0 ELSE UNCHANGED <<hwUntil, hwAge>>
               ELSE hwUntil' = (IF hwAge >= HwProbe THEN HwWindow ELSE -1) /\ UNCHANGED hwAge

(* read_telemetry(): a block that does not answer, or a value the inverter marks invalid, leaves no reading *)
HwPoll ==
    /\ hwTurn = "poll" /\ hwTurn' = "apply"
    /\ IF hwSun = 0 THEN GateNight ELSE \E harvest \in Harvests : GateReads(harvest)
    /\ UNCHANGED <<hwSun, hwAsk, hwPath, hwDev, hwLast, hwSince, hwTorn, hwLeft>>
HwPollFails ==
    /\ hwTurn = "poll" /\ hwTurn' = "apply"
    /\ hwLeft > 0 /\ hwLeft' = hwLeft - 1
    /\ hwStrings' \in {hwStrings, hwSun > 0}
    /\ IF hwStrings' THEN UNCHANGED <<hwSeen, hwLit, hwAge, hwUntil>> ELSE hwSeen' = {0} /\ GateSays(FALSE)
    /\ UNCHANGED <<hwSun, hwAsk, hwPath, hwDev, hwLast, hwSince, hwTorn>>

---------------------------------------------------------------------------
(* _refuses(): while the roof produces, no discharge, and no charge the harvest could reach *)
GateClosed == hwLit \/ hwUntil >= 0
Refuses(n) == n # 0 /\ GateClosed /\ (n < 0 \/ hwSeen = {} \/ n <= Max(hwSeen) + HwHyst)
(* _should_write() *)
ShouldWrite(n) ==
    \/ hwLast = {}
    \/ hwSince >= HwGap /\ (Way(n) # Way(Standing) \/ n - Standing \notin (1 - HwDeadband)..(HwDeadband - 1))
    \/ hwSince >= HwRefresh
(* _write_setpoint_registers(): the first k of the four writes; stop first, command last *)
Four == 4
AfterWrites(n, k) ==
    IF n = 0
    THEN [hwDev EXCEPT !.mode = IF k > 0 THEN 0 ELSE @, !.calm = IF k > 0 /\ hwDev.mode # 0 THEN 0 ELSE @,
                       !.dis = IF k > 1 THEN 0 ELSE @]
    ELSE [hwDev EXCEPT !.ch = IF k > 0 /\ n > 0 THEN n ELSE @, !.dis = IF k > 0 /\ n < 0 THEN -n ELSE @,
                       !.mode = IF k = Four THEN Way(n) ELSE @, !.left = IF k = Four THEN HwDuration ELSE @]
Applied == IF Refuses(hwAsk) THEN 0 ELSE hwAsk
HwApply ==
    /\ hwTurn = "apply" /\ hwTurn' = "tick"
    /\ IF ShouldWrite(Applied)
       THEN hwDev' = AfterWrites(Applied, Four) /\ hwLast' = {Applied} /\ hwSince' = 0 /\ hwTorn' = FALSE
       ELSE UNCHANGED <<hwDev, hwLast, hwSince, hwTorn>>
    /\ UNCHANGED <<hwSun, hwAsk, hwPath, gate, hwLeft>>
HwApplyFails ==
    /\ hwTurn = "apply" /\ hwTurn' = "tick"
    /\ hwLeft > 0 /\ hwLeft' = hwLeft - 1
    /\ ShouldWrite(Applied)
    /\ \E k \in IF hwPath = "direct" THEN 0..Four - 1 ELSE {0} : hwDev' = AfterWrites(Applied, k)
    /\ hwTorn' = TRUE
    /\ UNCHANGED <<hwSun, hwAsk, hwPath, hwLast, hwSince, gate>>
(* standby(): a real stop, and nothing is remembered *)
HwStandby ==
    /\ hwTurn = "apply" /\ hwLeft > 0 /\ hwLeft' = hwLeft - 1 /\ hwTurn' = "tick"
    /\ hwDev' = AfterWrites(0, Four) /\ hwLast' = {} /\ hwSince' = HwRefresh /\ hwTorn' = FALSE
    /\ UNCHANGED <<hwSun, hwAsk, hwPath, gate>>

(* time passes; the sun and the request may change; a command runs out *)
Aged(d) ==
    [d EXCEPT !.left = Max({@ - 1, 0}), !.mode = IF d.left <= 1 THEN 0 ELSE @,
              !.calm = IF d.mode = 0 THEN Min({@ + 1, HwSettle}) ELSE 0]
HwTick ==
    /\ hwTurn = "tick" /\ hwTurn' = "poll"
    /\ \E sun \in HwSuns, ask \in HwAsks :
        /\ <<sun, ask>> # <<hwSun, hwAsk>> => hwLeft > 0
        /\ hwSun' = sun /\ hwAsk' = ask /\ hwLeft' = IF <<sun, ask>> = <<hwSun, hwAsk>> THEN hwLeft ELSE hwLeft - 1
    /\ hwDev' = Aged(hwDev)
    /\ hwSince' = Min({hwSince + 1, HwRefresh}) /\ hwAge' = Min({hwAge + 1, HwProbe})
    /\ hwUntil' = IF hwUntil > 0 THEN hwUntil - 1 ELSE hwUntil
    /\ UNCHANGED <<hwPath, hwLast, hwStrings, hwLit, hwSeen, hwTorn>>

HwInit ==
    /\ hwSun \in HwSuns /\ hwAsk \in HwAsks /\ hwPath \in HwPaths
    /\ hwDev = [mode |-> 0, ch |-> 0, dis |-> 0, left |-> 0, calm |-> HwSettle]
    /\ hwLast = {} /\ hwSince = HwRefresh /\ hwStrings = FALSE /\ hwLit = FALSE /\ hwSeen = {} /\ hwAge = HwProbe
    /\ hwUntil = -1 /\ hwTorn = FALSE /\ hwTurn = "poll" /\ hwLeft = HwMaxUpsets
HwNext == HwPoll \/ HwPollFails \/ HwApply \/ HwApplyFails \/ HwStandby \/ HwTick
(* polls and control cycles go on *)
HwFairness == WF_hwVars(HwPoll \/ HwApply \/ HwTick)
HwSpec == HwInit /\ [][HwNext]_hwVars /\ HwFairness

---------------------------------------------------------------------------
(* A roof that could produce is not held down for good by a command of this driver: the command itself hides the
   sun from it, so only a probe (_update_pv_gate()) finds out. *)
RoofFreed == <>[]~Curtailed

(* What the driver holds to be in force is in force: a command is renewed before its duration runs out, and
   nothing that was not sent is reported, unless a write failed half-way. *)
CommandStands == hwLast # {} /\ ~hwTorn => Forced(hwDev) = Standing

(* In steady sunlight a steady charge request does not make the driver release and command in turn, which the
   inverter answers by derating the array (_refuses()). *)
SteadySettles == <>[][hwSun > HwThreshold + HwHyst /\ hwAsk >= 0 => Forced(hwDev') = Forced(hwDev)]_hwVars
=============================================================================
