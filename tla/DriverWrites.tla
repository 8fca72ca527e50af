---------------------------- MODULE DriverWrites ----------------------------
(***************************************************************************)
(* How the battery drivers (drivers/*.py) put a signed power, charging positive,  *)
(* on the wire.  Marstek and ESPHome write three registers one by one and go on     *)
(* after one that fails; Zendure posts one message; Anker, Sessy and Hoymiles take   *)
(* the device over and then send one number, and stop at the first failure; Hoymiles  *)
(* also refreshes the command from a task of its own, under a lock the control layer   *)
(* does not know.  A write is done, lost, or done and reported as failed.  The          *)
(* coordinator's lock lets one command at a time in; close() does not take it.            *)
(***************************************************************************)
EXTENDS Integers, Sequences, FiniteSetsExt

CONSTANTS
    DvBrands,   \* brands checked
    DvPowers,   \* powers asked for
    DvMost,     \* the rated power
    DvLess,     \* a lower limit a Hoymiles may announce
    DvLeast,    \* the smallest power an Anker runs at
    DvWindows,  \* SOC windows asked for: [top, floor]
    DvMaxUpsets \* bound: failed writes, apps taking the device, closed links

ASSUME DvAssumption ==
    /\ DvBrands \subseteq {"marstek", "esphome", "zendure", "anker", "sessy", "hoymiles"}
    /\ DvPowers \subseteq Int /\ DvWindows \subseteq [top: 0..10, floor: 0..10]
    /\ {DvMost, DvLess, DvLeast, DvMaxUpsets} \subseteq Nat /\ DvLess <= DvMost

VARIABLES
    dvBrand,  \* the driver
    dvUp,     \* connected
    dvDev,    \* the device: whether it obeys, mode, charge and discharge power
    dvWin,    \* the device's own SOC window
    dvCmd,    \* the command being written, and the writes left
    dvKeep,   \* Hoymiles: the keepalive task
    dvShut,   \* Hoymiles: how far close() is
    dvNet,    \* Hoymiles: _last_net_power_w, empty when none
    dvCap,    \* Hoymiles: the limit in force
    dvMissed, \* Hoymiles: the last refresh did not get out
    dvFrom,   \* history: what flowed when the command's first write began
    dvStale,  \* history: failed writes and take-overs since the last complete command (2: or more)
    dvTaken,  \* history: the app took the device while the command was written
    dvTold,   \* the last result reported
    dvLeft    \* the bound's budget

dvVars == <<dvBrand, dvUp, dvDev, dvWin, dvCmd, dvKeep, dvShut, dvNet, dvCap, dvMissed, dvFrom, dvStale, dvTaken,
            dvTold, dvLeft>>
hoy == <<dvKeep, dvShut, dvNet, dvCap>>

Registers == {"marstek", "esphome"}
Takers == {"anker", "sessy", "hoymiles"}
AtRest == [ctl |-> TRUE, mode |-> 0, ch |-> 0, dis |-> 0]
Loose == [AtRest EXCEPT !.ctl = FALSE]
NoCmd == [kind |-> "none", net |-> 0, want |-> [top |-> 10, floor |-> 0], todo |-> <<>>, ok |-> TRUE, begun |-> FALSE]
NoTold == [kind |-> "none", ok |-> FALSE, net |-> 0, want |-> NoCmd.want]

DvTypeOK ==
    /\ dvBrand \in DvBrands /\ {dvUp, dvMissed, dvTaken} \subseteq BOOLEAN
    /\ dvDev \in [ctl: BOOLEAN, mode: -1..1, ch: 0..DvMost, dis: 0..DvMost]
    /\ dvWin \in [top: 0..10, floor: 0..10] /\ dvCmd.kind \in {"none", "set", "rest", "window", "rs485"}
    /\ dvKeep.at \in {"none", "sleep", "power"} /\ dvShut \in {"no", "mode", "power", "general"}
    /\ dvNet \in {{}} \cup {{n} : n \in -DvMost..DvMost} /\ dvCap \in {DvMost, DvLess}
    /\ dvFrom \in -DvMost..DvMost /\ dvStale \in 0..2 /\ dvLeft \in 0..DvMaxUpsets

---------------------------------------------------------------------------
(* what the device does with its registers: nothing of ours when it does not obey *)
Flow(d) == IF ~d.ctl THEN 0 ELSE IF d.mode = 1 THEN d.ch ELSE IF d.mode = -1 THEN -d.dis ELSE 0
Cut(n, most) == Min({Max({n, -most}), most})
Side(n) == IF n > 0 THEN 1 ELSE IF n < 0 THEN -1 ELSE 0

(* the limits of each driver; an Anker does not run below its smallest power *)
Wire(net) ==
    LET n == Cut(net, IF dvBrand = "hoymiles" THEN dvCap ELSE DvMost)
    IN IF dvBrand = "anker" /\ n \in (1 - DvLeast)..(DvLeast - 1) THEN 0 ELSE n
(* the window a device is given: Zendure takes 70-100 and 0-50 %, Anker 80-100 and 0-20 % *)
Within(lo, hi, n) == Max({lo, Min({hi, n})})
AnkerWindow(w) == [top |-> Within(8, 10, w.top), floor |-> Within(0, 2, w.floor)]
ZendureWindow(w) == [top |-> Within(7, 10, w.top), floor |-> Within(0, 5, w.floor)]
Window(w) == IF dvBrand = "anker" THEN AnkerWindow(w) ELSE IF dvBrand = "zendure" THEN ZendureWindow(w) ELSE w

\* Mutant of RegisterWrites: the mode before the powers.
RegisterWritesModeFirst == <<"mode", "dis", "ch">>
(* the order of the writes *)
RegisterWrites == <<"dis", "ch", "mode">>
AnkerWrites(kind) == IF kind = "rest" THEN <<"power">> ELSE <<"take", "power">>
SetWrites(kind) ==
    CASE dvBrand \in Registers -> RegisterWrites
      [] dvBrand = "zendure" -> <<"power">>
      [] dvBrand = "anker" -> AnkerWrites(kind)
      [] OTHER -> <<"take", "power">>
WindowWrites ==
    CASE dvBrand \in Registers \cup {"anker"} -> <<"top", "floor">>
      [] dvBrand = "zendure" -> <<"window">>
      [] OTHER -> <<>>

(* one write, on the device; a device that is given back forgets the power *)
Device(d, w, net) ==
    CASE w = "dis" -> [d EXCEPT !.dis = Max({-net, 0})]
      [] w = "ch" -> [d EXCEPT !.ch = Max({net, 0})]
      [] w = "mode" -> [d EXCEPT !.mode = Side(net)]
      [] w = "power" -> IF d.ctl THEN [d EXCEPT !.mode = Side(net), !.ch = Max({net, 0}), !.dis = Max({-net, 0})] ELSE d
      [] w = "take" -> [d EXCEPT !.ctl = TRUE]
      [] w = "free" -> Loose
      [] OTHER -> d
OwnWindow(v, w, want) ==
    CASE w = "top" -> [v EXCEPT !.top = Window(want).top]
      [] w = "floor" -> [v EXCEPT !.floor = Window(want).floor]
      [] w = "window" -> Window(want)
      [] OTHER -> v

---------------------------------------------------------------------------
(* the coordinator lets a command in: apply_setpoint(), standby(), apply_config(), set_charge_cutoff(),
   set_rs485_control() *)
Enter(kind, net, want, todo) ==
    /\ dvCmd = NoCmd
    /\ dvBrand \in {"anker", "hoymiles"} => dvUp
    /\ dvCmd' = [kind |-> kind, net |-> net, want |-> want, todo |-> todo, ok |-> TRUE, begun |-> FALSE]
    /\ dvTold' = NoTold
    /\ UNCHANGED <<dvBrand, dvUp, dvDev, dvWin, hoy, dvMissed, dvFrom, dvStale, dvTaken, dvLeft>>
DvApply == \E net \in DvPowers : Enter("set", Wire(net), NoCmd.want, SetWrites("set"))
DvStandby == Enter("rest", 0, NoCmd.want, SetWrites("rest"))
DvConfig == \E w \in DvWindows : dvCmd = NoCmd /\ Enter("window", 0, w, WindowWrites)
DvCutoff == \E w \in DvWindows :
    /\ dvBrand \in Registers \cup {"anker", "zendure"}
    /\ Enter("window", 0, [w EXCEPT !.floor = dvWin.floor], <<"top">>)
DvRs485 == \E w \in {"take", "free"} : dvBrand \in Registers /\ Enter("rs485", 0, NoCmd.want, <<w>>)

(* the Hoymiles driver's own write lock *)
CmdHolds == dvCmd.begun
KeepHolds == dvKeep.at = "power"
ShutHolds == dvShut \in {"power", "general"}
Unlocked == dvBrand = "hoymiles" => ~KeepHolds /\ ~ShutHolds

(* what a failed write does to the rest of the command *)
After(w, ok) ==
    IF ~ok /\ dvBrand \in Takers /\ dvCmd.kind # "window" THEN <<>> ELSE Tail(dvCmd.todo)
(* Anker looks at the mode first and writes it only when it is another *)
Spared(w) == w = "take" /\ dvBrand = "anker" /\ dvDev.ctl
AllWritten(ok, done) == ok /\ done
(* a closed Modbus client writes nothing; MQTT, Home Assistant's services and a new HTTP session still do *)
OnTheWire == dvUp \/ dvBrand \notin {"marstek", "anker"}
(* how a write, with the retry of an HTTP driver, ends *)
Outcomes == {"done", "lost", "late"}
(* the next write of the command *)
DvWrite(out) ==
    /\ dvCmd.todo # <<>>
    /\ dvCmd.begun \/ Unlocked
    /\ LET w == Head(dvCmd.todo)
           done == out = "done"
       IN /\ done => OnTheWire
          /\ dvLeft' = IF done \/ ~OnTheWire THEN dvLeft ELSE dvLeft - 1
          /\ ~done => IF OnTheWire THEN dvLeft > 0 /\ ~Spared(w) ELSE out = "lost"
          /\ dvDev' = IF out = "lost" \/ Spared(w) THEN dvDev ELSE Device(dvDev, w, dvCmd.net)
          /\ dvWin' = IF out = "lost" THEN dvWin ELSE OwnWindow(dvWin, w, dvCmd.want)
          /\ dvCmd' = [dvCmd EXCEPT !.begun = TRUE, !.todo = After(w, done), !.ok = AllWritten(@, done)]
          /\ dvFrom' = IF dvCmd.begun THEN dvFrom ELSE Flow(dvDev)
          /\ dvStale' = IF done THEN dvStale ELSE Min({dvStale + 1, 2})
    /\ UNCHANGED <<dvBrand, dvUp, hoy, dvMissed, dvTaken, dvTold>>

(* _ensure_keepalive() *)
KeepAlive == IF dvKeep.at = "none" THEN [dvKeep EXCEPT !.at = "sleep"] ELSE dvKeep
(* the result; Hoymiles remembers the command and sees that somebody refreshes it *)
DvReport ==
    /\ dvCmd # NoCmd /\ dvCmd.todo = <<>>
    /\ dvTold' = [kind |-> dvCmd.kind, ok |-> dvCmd.ok, net |-> dvCmd.net, want |-> dvCmd.want]
    /\ dvCmd' = NoCmd /\ dvFrom' = 0 /\ dvTaken' = FALSE
    /\ IF dvBrand = "hoymiles" /\ dvCmd.ok /\ dvCmd.kind \in {"set", "rest"}
       THEN dvNet' = {dvCmd.net} /\ dvKeep' = KeepAlive /\ dvMissed' = FALSE
       ELSE UNCHANGED <<dvNet, dvKeep, dvMissed>>
    /\ dvStale' = IF dvCmd.ok /\ dvCmd.kind = "set" THEN 0 ELSE dvStale
    /\ UNCHANGED <<dvBrand, dvUp, dvDev, dvWin, dvShut, dvCap, dvLeft>>

---------------------------------------------------------------------------
(* Hoymiles: _refresh_command(): nothing without a connection or a command; the power is taken under the lock *)
MayRefresh == dvUp /\ dvNet # {}
(* a failed refresh is retried sooner, it does not end the loop *)
Retry == [dvKeep EXCEPT !.at = "sleep"]
KeepSkips ==
    /\ dvKeep.at = "sleep" /\ ~MayRefresh /\ ~dvMissed
    /\ dvMissed' = TRUE
    /\ UNCHANGED <<dvBrand, dvUp, dvDev, dvWin, dvCmd, hoy, dvFrom, dvStale, dvTaken, dvTold, dvLeft>>
KeepTakes ==
    /\ dvKeep.at = "sleep" /\ MayRefresh /\ ~CmdHolds /\ ~ShutHolds
    /\ \E n \in dvNet :
        /\ dvNet' = {Cut(n, dvCap)}
        /\ dvKeep' = [at |-> "power", net |-> Cut(n, dvCap)]
    /\ dvDev' = Device(dvDev, "take", 0)
    /\ UNCHANGED <<dvBrand, dvUp, dvWin, dvCmd, dvShut, dvCap, dvMissed, dvFrom, dvStale, dvTaken, dvTold, dvLeft>>
KeepSends ==
    /\ dvKeep.at = "power"
    /\ dvDev' = Device(dvDev, "power", dvKeep.net)
    /\ dvKeep' = [dvKeep EXCEPT !.at = "sleep"] /\ dvMissed' = FALSE
    /\ UNCHANGED <<dvBrand, dvUp, dvWin, dvCmd, dvShut, dvNet, dvCap, dvFrom, dvStale, dvTaken, dvTold, dvLeft>>
KeepFails ==
    /\ dvKeep.at = "power" \/ (dvKeep.at = "sleep" /\ MayRefresh /\ ~CmdHolds /\ ~ShutHolds)
    /\ dvLeft > 0 /\ dvLeft' = dvLeft - 1
    /\ dvKeep' = Retry /\ dvMissed' = TRUE
    /\ UNCHANGED <<dvBrand, dvUp, dvDev, dvWin, dvCmd, dvShut, dvNet, dvCap, dvFrom, dvStale, dvTaken, dvTold>>
(* _handle_power_config(): a new limit clamps what is remembered *)
DvCaps ==
    /\ dvBrand = "hoymiles" /\ dvUp
    /\ \E cap \in {DvMost, DvLess} \ {dvCap} :
        dvCap' = cap /\ dvNet' = {Cut(n, cap) : n \in dvNet}
    /\ UNCHANGED <<dvBrand, dvUp, dvDev, dvWin, dvCmd, dvKeep, dvShut, dvMissed, dvFrom, dvStale, dvTaken, dvTold, dvLeft>>
(* the device gives up on a controller that went silent: longer than the refresh interval *)
DvLapse ==
    /\ dvBrand = "hoymiles" /\ dvDev.ctl /\ ~KeepHolds /\ ~CmdHolds
    /\ dvMissed \/ dvKeep.at = "none"
    /\ dvDev' = Loose
    /\ UNCHANGED <<dvBrand, dvUp, dvWin, dvCmd, hoy, dvMissed, dvFrom, dvStale, dvTaken, dvTold, dvLeft>>

(* close(): Hoymiles ends the refresh and hands the device back under the write lock; the others drop the link *)
DvClose ==
    /\ dvUp /\ dvShut = "no" /\ dvLeft > 0 /\ dvLeft' = dvLeft - 1
    /\ IF dvBrand = "hoymiles"
       THEN /\ dvKeep' = [dvKeep EXCEPT !.at = "none"] /\ dvShut' = "mode"
            /\ UNCHANGED dvUp
       ELSE dvUp' = FALSE /\ UNCHANGED <<dvKeep, dvShut>>
    /\ UNCHANGED <<dvBrand, dvDev, dvWin, dvCmd, dvNet, dvCap, dvMissed, dvFrom, dvStale, dvTaken, dvTold>>
Closed == dvUp' = FALSE /\ dvNet' = {} /\ dvShut' = "no"
DvShutStep ==
    /\ dvShut # "no"
    /\ CASE dvShut = "mode" -> /\ ~CmdHolds /\ ~KeepHolds
                               /\ dvDev' = Device(dvDev, "take", 0) /\ dvShut' = "power" /\ UNCHANGED <<dvUp, dvNet>>
         [] dvShut = "power" -> dvDev' = Device(dvDev, "power", 0) /\ dvShut' = "general" /\ UNCHANGED <<dvUp, dvNet>>
         [] OTHER -> dvDev' = Device(dvDev, "free", 0) /\ Closed
    /\ UNCHANGED <<dvBrand, dvWin, dvCmd, dvKeep, dvCap, dvMissed, dvFrom, dvStale, dvTaken, dvTold, dvLeft>>
(* a publish that fails ends the hand-back, not the close *)
DvShutFails ==
    /\ dvShut # "no" /\ (dvShut = "mode" => ~CmdHolds /\ ~KeepHolds)
    /\ dvLeft > 0 /\ dvLeft' = dvLeft - 1
    /\ Closed
    /\ UNCHANGED <<dvBrand, dvDev, dvWin, dvCmd, dvKeep, dvCap, dvMissed, dvFrom, dvStale, dvTaken, dvTold>>
DvConnect ==
    /\ ~dvUp
    /\ dvUp' = TRUE
    /\ UNCHANGED <<dvBrand, dvDev, dvWin, dvCmd, hoy, dvMissed, dvFrom, dvStale, dvTaken, dvTold, dvLeft>>
(* the vendor's app takes the device *)
DvApp ==
    /\ dvDev.ctl /\ dvBrand # "zendure" /\ dvLeft > 0
    /\ dvDev' = Loose /\ dvTaken' = (dvCmd # NoCmd) /\ dvStale' = Min({dvStale + 1, 2}) /\ dvLeft' = dvLeft - 1
    /\ UNCHANGED <<dvBrand, dvUp, dvWin, dvCmd, hoy, dvMissed, dvFrom, dvTold>>

DvInit ==
    /\ dvBrand \in DvBrands /\ dvUp = TRUE /\ dvWin = NoCmd.want /\ dvCmd = NoCmd
    /\ dvDev = IF dvBrand \in Takers THEN Loose ELSE AtRest
    /\ dvKeep = [at |-> "none", net |-> 0] /\ dvShut = "no" /\ dvNet = {} /\ dvCap = DvMost /\ dvMissed = FALSE
    /\ dvFrom = 0 /\ dvStale = 0 /\ dvTaken = FALSE /\ dvTold = NoTold /\ dvLeft = DvMaxUpsets
DvNext ==
    \/ DvApply \/ DvStandby \/ DvConfig \/ DvCutoff \/ DvRs485
    \/ \E out \in Outcomes : DvWrite(out)
    \/ DvReport \/ KeepSkips \/ KeepTakes \/ KeepSends \/ KeepFails \/ DvCaps \/ DvLapse
    \/ DvClose \/ DvShutStep \/ DvShutFails \/ DvConnect \/ DvApp
(* the lock is first come, first served; tasks run; the device's watchdog expires *)
DvFairness ==
    /\ SF_dvVars(DvWrite("done")) /\ WF_dvVars(dvBrand = "hoymiles" /\ DvReport)
    /\ SF_dvVars(KeepTakes) /\ WF_dvVars(KeepSends) /\ WF_dvVars(KeepSkips)
    /\ WF_dvVars(DvLapse) /\ SF_dvVars(DvShutStep)
DvSpec == DvInit /\ [][DvNext]_dvVars /\ DvFairness

---------------------------------------------------------------------------
(* While a command is written, register by register, the battery does no more than what it did before or
   what it is told, although one write failed: apply_setpoint() zeroes and sets the powers before the mode. *)
SequenceStaysBetween ==
    dvCmd.begun /\ dvCmd.kind \in {"set", "rest"} /\ dvStale <= 1 =>
        Flow(dvDev) \in Min({dvFrom, dvCmd.net, 0})..Max({dvFrom, dvCmd.net, 0})

(* A driver that reports success has the whole command in the device: the power, in the brands that take the
   device over the obedience too, unless the app took it while the command was written. *)
SuccessIsWhole ==
    [][dvTold'.ok /\ dvTold' # dvTold /\ ~dvTaken /\ dvTold'.kind = "set" =>
         Flow([dvDev EXCEPT !.ctl = @ \/ dvBrand \notin Takers]) = dvTold'.net]_dvVars

(* A window reported as written never narrows the one asked for: the device stops no charge below the ceiling
   and no discharge above the floor the control layer works with. *)
WindowContains ==
    dvTold.kind = "window" /\ dvTold.ok /\ dvCmd = NoCmd /\ WindowWrites # <<>> =>
        dvWin.top >= dvTold.want.top /\ dvWin.floor <= dvTold.want.floor

(* A Hoymiles that lost its controller for a while does again what it was last told (_keepalive_loop()). *)
RefreshedAfterOutage ==
    (dvBrand = "hoymiles" /\ dvUp /\ dvNet # {}) ~> (dvNet = {Flow(dvDev)} \/ ~dvUp \/ dvShut # "no")

(* A closed Hoymiles driver lets the device go, also when a command was still on its way to the wire. *)
ClosedLetsGo == (dvBrand = "hoymiles" /\ ~dvUp) ~> (~dvDev.ctl \/ dvUp)
=============================================================================
