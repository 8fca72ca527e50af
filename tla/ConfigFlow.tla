----------------------------- MODULE ConfigFlow -----------------------------
(***************************************************************************)
(* The dialogs that write the configuration entry (config_flow.py): the set-up  *)
(* flow, the options menus, the reconfigure flow, and the DHCP flow that follows *)
(* a battery to a new address (infra/mac_tracking.py).  A dialog step is an       *)
(* action; a step whose input is refused shows its form again and is a stutter.    *)
(* Between two steps of a dialog the other flows run, batteries move to other       *)
(* addresses, and the entry may be reloaded.                                         *)
(***************************************************************************)
EXTENDS Integers, Sequences, FiniteSets, SequencesExt

CONSTANTS
    CfUnits,    \* the batteries of the house, known by their MAC
    CfMakes,    \* which brand each is: a set of functions
    CfHosts,    \* addresses, or device ids of the brands without one
    CfTimes,    \* times of day of a slot's ends
    CfMaxSlots, \* MAX_TIME_SLOTS
    CfMaxDevs,  \* at most so many excluded devices
    CfMaxMoves, \* bound: address changes
    CfMaxFlows  \* bound: dialogs after the set-up

ASSUME CfAssumption ==
    /\ CfTimes \subseteq Nat /\ {CfMaxSlots, CfMaxMoves, CfMaxFlows} \subseteq Nat /\ CfMaxDevs \in Nat \ {0}
    /\ {"nobody", "blank"} \cap CfUnits = {}
    /\ \E f \in [CfUnits -> CfHosts] : \A u, v \in CfUnits : u # v => f[u] # f[v]
    /\ CfMakes \subseteq [CfUnits -> {"marstek", "zendure", "anker", "sessy", "huawei", "esphome", "hoymiles"}]

VARIABLES
    cfMake,   \* the brand of each battery
    cfNet,    \* the address it answers at
    cfEntry,  \* the stored entry
    cfIds,    \* the device and entity registry: whose history an address's unique ids carry
    cfOpen,   \* whether the link of each running coordinator is open
    cfFlow,   \* the dialog of the user
    cfLease,  \* the DHCP flow
    cfKnown,  \* the last address each battery was stored with by the user or by a lease
    cfTorn,   \* two writers of the battery list overlapped, or a reconfigure was given up half way
    cfLeft    \* the bounds' budget

cfVars == <<cfMake, cfNet, cfEntry, cfIds, cfOpen, cfFlow, cfLease, cfKnown, cfTorn, cfLeft>>

IpBased == {"marstek", "zendure", "anker", "sessy"}
Everyone == 0
Scopes == {Everyone} \cup 1..Cardinality(CfUnits)
Slots == {s \in [from: CfTimes, to: CfTimes, who: Scopes] : s.from < s.to}
Modes == {"off", "slot", "dynamic", "realtime"}
Nobody == "nobody"
Steps == {"user", "phases", "count", "brand", "connect", "testing", "slave", "limits", "slots", "slot",
          "details", "more", "devices", "device", "moredev", "predictive", "mode", "slotcfg",
          "dynamiccfg", "realtimecfg", "menu", "assign", "remove", "confirm", "confirmslave", "none"}
NoSlot == [from |-> 0, to |-> 0, who |-> Everyone]
NoFlow == [kind |-> "none", step |-> "none", n |-> 0, got |-> <<>>, brand |-> Nobody, cur |-> Nobody,
           slots |-> <<>>, pend |-> NoSlot, devs |-> 0, copy |-> <<>>, at |-> 0]
NoLease == [at |-> "none", unit |-> Nobody, host |-> 0, bats |-> <<>>, index |-> 0]

CfTypeOK ==
    /\ cfMake \in CfMakes /\ cfNet \in [CfUnits -> CfHosts]
    /\ \A i \in 1..Len(cfEntry.bats) : cfEntry.bats[i] \in [unit: CfUnits, host: CfHosts]
    /\ \A i \in 1..Len(cfEntry.slots) : cfEntry.slots[i] \in Slots
    /\ cfEntry.mode \in Modes /\ cfEntry.devs \in 0..CfMaxDevs
    /\ cfIds \in [CfHosts -> CfUnits \cup {Nobody, "blank"}] /\ cfKnown \in [CfUnits -> CfHosts \cup {0}]
    /\ DOMAIN cfOpen = 1..Len(cfEntry.bats) /\ \A i \in DOMAIN cfOpen : cfOpen[i] \in BOOLEAN
    /\ cfFlow.kind \in {"none", "setup", "options", "reconfigure"} /\ cfFlow.step \in Steps
    /\ cfLease.at \in {"none", "told", "probing"} /\ cfTorn \in BOOLEAN

---------------------------------------------------------------------------
At(kind, step) == cfFlow.kind = kind /\ cfFlow.step = step
Go(step) == [cfFlow EXCEPT !.step = step]
(* A step that only keeps its answers and shows the next form *)
Form(flow) == cfFlow' = flow /\ UNCHANGED <<cfMake, cfNet, cfEntry, cfIds, cfOpen, cfLease, cfKnown, cfTorn, cfLeft>>

HostsOf(bats) == {bats[i].host : i \in 1..Len(bats)}
(* The platforms register the entities of addresses that have none yet; they start blank when the
   battery has a history under another address *)
Blank == "blank"
Registry(ids, bats) ==
    LET at(h) == (CHOOSE b \in ToSet(bats) : b.host = h).unit
    IN [h \in CfHosts |-> IF ids[h] # Nobody \/ h \notin HostsOf(bats) THEN ids[h]
                          ELSE IF at(h) \in Range(ids) THEN Blank ELSE at(h)]
(* async_update_entry() and the reload that follows: new coordinators, open links *)
Stored(entry, ids) ==
    /\ cfEntry' = entry
    /\ cfOpen' = [i \in 1..Len(entry.bats) |-> TRUE]
    /\ cfIds' = Registry(ids, entry.bats)
(* The user's flow ends with the entry stored; a lease under way now has an old battery list *)
Saved(entry, ids, known, torn) ==
    /\ Stored(entry, ids)
    /\ cfFlow' = NoFlow
    /\ cfKnown' = known
    /\ cfTorn' = (cfTorn \/ torn \/ (cfLease.at = "probing" /\ entry.bats # cfEntry.bats))
    /\ cfLease' = [cfLease EXCEPT !.index = 0]
    /\ UNCHANGED <<cfMake, cfNet, cfLeft>>
KnownFrom(bats) ==
    [u \in CfUnits |-> IF \E i \in 1..Len(bats) : bats[i].unit = u
                       THEN (CHOOSE b \in ToSet(bats) : b.unit = u).host ELSE cfKnown[u]]

---------------------------------------------------------------------------
(* The set-up flow: the house's sensors, the three-phase form, the number of batteries *)
SetupUser == At("setup", "user") /\ \E three \in BOOLEAN :
    Form(Go(IF three THEN "phases" ELSE "count"))
SetupPhases == At("setup", "phases") /\ Form(Go("count"))
AskCount(kind) == At(kind, "count") /\ \E n \in 1..Cardinality(CfUnits) : Form([Go("brand") EXCEPT !.n = n])
SetupCount == AskCount("setup")
OptionsCount == AskCount("options")

(* async_step_battery_brand(): what was kept of the battery before is dropped *)
AskBrand(kind) ==
    /\ At(kind, "brand")
    /\ \E u \in CfUnits : Form([Go("connect") EXCEPT !.brand = cfMake[u], !.cur = Nobody])
SetupBrand == AskBrand("setup")
OptionsBrand == AskBrand("options")

(* A connection step: the address is probed, the form comes back until a battery answers *)
Fresh(u) == \A i \in 1..Len(cfFlow.got) : cfFlow.got[i].unit # u
Connects(kind, brand) ==
    /\ At(kind, "connect") /\ cfFlow.brand = brand
    /\ \E u \in CfUnits : cfMake[u] = brand /\ Fresh(u) /\ Form([Go("limits") EXCEPT !.cur = u])
SetupMarstek == Connects("setup", "marstek")
SetupZendure == Connects("setup", "zendure")
SetupEsphome == Connects("setup", "esphome")
SetupSessy == Connects("setup", "sessy")
SetupHoymiles == Connects("setup", "hoymiles")
SetupAnker == Connects("setup", "anker")
OptionsZendure == Connects("options", "zendure")
OptionsSessy == Connects("options", "sessy")
OptionsEsphome == Connects("options", "esphome")
OptionsHoymiles == Connects("options", "hoymiles")
OptionsAnker == Connects("options", "anker")

(* Huawei: the slave id is probed or searched for; several inverters with a battery are shown first *)
HuaweiSearch(kind) ==
    /\ At(kind, "connect") /\ cfFlow.brand = "huawei"
    /\ \E u \in CfUnits : cfMake[u] = "huawei" /\ Fresh(u) /\ \E step \in {"limits", "slave"} :
        Form([Go(step) EXCEPT !.cur = IF step = "slave" THEN Nobody ELSE u])
HuaweiSlave(kind) ==
    /\ At(kind, "slave")
    /\ \E u \in CfUnits : cfMake[u] = "huawei" /\ Fresh(u) /\ Form([Go("limits") EXCEPT !.cur = u])
SetupHuawei == HuaweiSearch("setup")
SetupHuaweiSlave == HuaweiSlave("setup")
OptionsHuawei == HuaweiSearch("options")
OptionsHuaweiSlave == HuaweiSlave("options")

(* OptionsFlowHandler._test_connection(): under the coordinator's lock its link is closed, the
   address is probed, the link is opened again *)
Running(h) == {i \in 1..Len(cfEntry.bats) : cfEntry.bats[i].host = h}
Probed(i) == cfLease.at = "probing" /\ cfLease.index = i
OptionsTest ==
    /\ At("options", "connect") /\ cfFlow.brand = "marstek"
    /\ \E u \in CfUnits : cfMake[u] = "marstek" /\ Fresh(u) /\
        LET rs == Running(cfNet[u])
            i == IF rs = {} THEN 0 ELSE CHOOSE j \in rs : \A k \in rs : j <= k
        IN /\ ~Probed(i)
           /\ cfFlow' = [Go("testing") EXCEPT !.cur = u, !.at = i]
           /\ cfOpen' = [j \in DOMAIN cfOpen |-> cfOpen[j] /\ j # i]
    /\ UNCHANGED <<cfMake, cfNet, cfEntry, cfIds, cfLease, cfKnown, cfTorn, cfLeft>>
OptionsTested ==
    /\ At("options", "testing")
    /\ \E ok \in BOOLEAN : cfFlow' = [Go(IF ok THEN "limits" ELSE "connect") EXCEPT !.at = 0]
    /\ cfOpen' = [j \in DOMAIN cfOpen |-> cfOpen[j] \/ j = cfFlow.at]
    /\ UNCHANGED <<cfMake, cfNet, cfEntry, cfIds, cfLease, cfKnown, cfTorn, cfLeft>>

(* async_step_battery_limits(): the battery is kept; after the last one the set-up goes on, the
   options are saved with the batteries entered now *)
WithBattery == Append(cfFlow.got, [unit |-> cfFlow.cur, host |-> cfNet[cfFlow.cur]])
SetupLimits ==
    /\ At("setup", "limits")
    /\ Form([Go(IF Len(WithBattery) >= cfFlow.n THEN "slots" ELSE "brand") EXCEPT !.got = WithBattery, !.cur = Nobody])
OptionsLimits ==
    /\ At("options", "limits")
    /\ IF Len(WithBattery) < cfFlow.n
       THEN Form([Go("brand") EXCEPT !.got = WithBattery, !.cur = Nobody])
       ELSE Saved([cfEntry EXCEPT !.bats = WithBattery], cfIds, KnownFrom(WithBattery),
                  \E i \in 1..Len(WithBattery) : Registry(cfIds, WithBattery)[WithBattery[i].host] # WithBattery[i].unit)

---------------------------------------------------------------------------
(* _slots_overlap(): the same day (there is one here), a battery in common, the times overlap *)
TimesOverlap(a, b) == a.from < b.to /\ b.from < a.to
ScopesMeet(a, b) == Everyone \in {a.who, b.who} \/ a.who = b.who
SlotsOverlap(a, b) == ScopesMeet(a, b) /\ TimesOverlap(a, b)

\* Mutant of SaveOptions: the battery list of the dialog's start is written back.
SaveOptionsStale(entry) == Saved([entry EXCEPT !.bats = IF @ = cfEntry.bats THEN cfFlow.copy ELSE @], cfIds, cfKnown, FALSE)
(* _save_and_finish(): the answers are laid over the entry as it is now, not as the dialog found it *)
SaveOptions(entry) == Saved(entry, cfIds, cfKnown, FALSE)

(* _finalize_time_slot(): another slot may follow, at the limit the dialog goes on *)
SlotKept(s) ==
    LET slots == Append(cfFlow.slots, s) IN
    IF Len(slots) < CfMaxSlots THEN Form([Go("more") EXCEPT !.slots = slots, !.pend = NoSlot])
    ELSE IF cfFlow.kind = "setup" THEN Form([Go("devices") EXCEPT !.slots = slots, !.pend = NoSlot])
    ELSE SaveOptions([cfEntry EXCEPT !.slots = slots])
(* async_step_add_time_slot(): step A, then the details when limits are overridden *)
AddSlot(kind, count) ==
    /\ At(kind, "slot")
    /\ \E s \in Slots : /\ s.who <= count
                        /\ \A i \in 1..Len(cfFlow.slots) : ~SlotsOverlap(s, cfFlow.slots[i])
                        /\ SlotKept(s) \/ Form([Go("details") EXCEPT !.pend = s])
SlotDetails(kind) == At(kind, "details") /\ SlotKept(cfFlow.pend)
SetupAskSlots == At("setup", "slots") /\ \E yes \in BOOLEAN : Form(Go(IF yes THEN "slot" ELSE "devices"))
SetupAddSlot == AddSlot("setup", cfFlow.n)
SetupSlotDetails == SlotDetails("setup")
SetupMoreSlots == At("setup", "more") /\ \E more \in BOOLEAN : Form(Go(IF more THEN "slot" ELSE "devices"))
OptionsSlots ==
    /\ At("options", "slots")
    /\ \E yes \in BOOLEAN : IF yes THEN Form([Go("slot") EXCEPT !.slots = <<>>])
                            ELSE SaveOptions([cfEntry EXCEPT !.slots = <<>>])
OptionsAddSlot == AddSlot("options", Len(cfEntry.bats))
OptionsSlotDetails == SlotDetails("options")
OptionsMoreSlots ==
    /\ At("options", "more")
    /\ \E more \in BOOLEAN : IF more THEN Form(Go("slot")) ELSE SaveOptions([cfEntry EXCEPT !.slots = cfFlow.slots])

(* Excluded devices, at most CfMaxDevs of them *)
SetupAskDevices == At("setup", "devices") /\ \E yes \in BOOLEAN : Form(Go(IF yes THEN "device" ELSE "predictive"))
SetupDevice == At("setup", "device") /\ Form([Go(IF cfFlow.devs + 1 < CfMaxDevs THEN "moredev" ELSE "predictive")
                                               EXCEPT !.devs = @ + 1])
SetupMoreDevices == At("setup", "moredev") /\ \E yes \in BOOLEAN : Form(Go(IF yes THEN "device" ELSE "predictive"))
OptionsDevices ==
    /\ At("options", "devices")
    /\ \E yes \in BOOLEAN : IF yes THEN Form([Go("device") EXCEPT !.devs = 0]) ELSE SaveOptions([cfEntry EXCEPT !.devs = 0])
OptionsDevice ==
    /\ At("options", "device")
    /\ IF cfFlow.devs + 1 < CfMaxDevs THEN Form([Go("moredev") EXCEPT !.devs = @ + 1])
       ELSE SaveOptions([cfEntry EXCEPT !.devs = cfFlow.devs + 1])
OptionsMoreDevices ==
    /\ At("options", "moredev")
    /\ \E yes \in BOOLEAN : IF yes THEN Form(Go("device")) ELSE SaveOptions([cfEntry EXCEPT !.devs = cfFlow.devs])

(* Predictive charging: off, or one of three modes, each with a form of its own *)
SettingsOf(mode) == CASE mode = "dynamic" -> "dynamiccfg" [] mode = "realtime" -> "realtimecfg" [] OTHER -> "slotcfg"
AskMode(kind) == At(kind, "mode") /\ \E m \in Modes \ {"off"} : Form(Go(SettingsOf(m)))
SetupEntry(mode) == [bats |-> cfFlow.got, slots |-> cfFlow.slots, devs |-> cfFlow.devs, mode |-> mode]
Finish(mode) == Saved(SetupEntry(mode), cfIds, KnownFrom(cfFlow.got), FALSE)
SetupPredictive ==
    /\ At("setup", "predictive")
    /\ \E yes \in BOOLEAN : IF yes THEN Form(Go("mode")) ELSE Finish("off")
SetupMode == AskMode("setup")
SetupSlotMode == At("setup", "slotcfg") /\ Finish("slot")
SetupDynamic == At("setup", "dynamiccfg") /\ Finish("dynamic")
SetupRealtime == At("setup", "realtimecfg") /\ Finish("realtime")
OptionsPredictive ==
    /\ At("options", "predictive")
    /\ \E yes \in BOOLEAN : IF yes THEN Form(Go("mode")) ELSE SaveOptions([cfEntry EXCEPT !.mode = "off"])
OptionsMode == AskMode("options")
OptionsSlotMode == At("options", "slotcfg") /\ SaveOptions([cfEntry EXCEPT !.mode = "slot"])
OptionsDynamic == At("options", "dynamiccfg") /\ SaveOptions([cfEntry EXCEPT !.mode = "dynamic"])
OptionsRealtime == At("options", "realtimecfg") /\ SaveOptions([cfEntry EXCEPT !.mode = "realtime"])

---------------------------------------------------------------------------
(* The options menu, the house's sensors, removal of a battery *)
OptionsMenu ==
    /\ At("options", "menu")
    /\ \E step \in {"user", "slots", "devices", "predictive", "count", "remove"} :
        /\ step = "remove" => Len(cfEntry.bats) >= 2
        /\ Form([Go(step) EXCEPT !.copy = cfEntry.bats])
OptionsSensors ==
    /\ At("options", "user")
    /\ \E three \in BOOLEAN : IF three THEN Form(Go("phases")) ELSE SaveOptions(cfEntry)
(* async_step_three_phase(): from here the battery list of this moment is edited, a form per battery *)
OptionsPhases == At("options", "phases") /\ Form([Go("assign") EXCEPT !.got = cfEntry.bats, !.at = 1])
OptionsAssign ==
    /\ At("options", "assign")
    /\ IF cfFlow.at < Len(cfFlow.got) THEN Form([cfFlow EXCEPT !.at = @ + 1])
       ELSE SaveOptions([cfEntry EXCEPT !.bats = cfFlow.got])
OptionsRemove ==
    /\ At("options", "remove")
    /\ \E i \in 1..Len(cfEntry.bats) : Saved([cfEntry EXCEPT !.bats = RemoveAt(@, i)],
                                             [cfIds EXCEPT ![cfEntry.bats[i].host] = Nobody], cfKnown, FALSE)

(* _migrate_battery_registry_ids(): the unique ids of an address move to the new one; Home Assistant
   refuses when they exist already *)
Migrate(ids, old, new) == [ids EXCEPT ![new] = ids[old], ![old] = Nobody]
CanMigrate(ids, old, new) == old = new \/ ids[new] = Nobody
(* async_step_reconfigure_battery(): probed, its ids migrated at once, the list kept for the end.
   Where a stale lease (cfTorn) has shortened the list under the dialog, the code shows an empty form,
   which would enter one battery too many; here the dialog can then only be closed. *)
Reconfigured(brand, step) ==
    /\ At("reconfigure", step)
    /\ LET i == Len(cfFlow.got) + 1
           b == cfEntry.bats[i]
           new == cfNet[b.unit]
           ids == IF b.host = new THEN cfIds ELSE Migrate(cfIds, b.host, new)
           got == Append(cfFlow.got, [b EXCEPT !.host = new])
       IN /\ i <= Len(cfEntry.bats) /\ cfMake[b.unit] = brand /\ CanMigrate(cfIds, b.host, new)
          /\ IF i < Len(cfEntry.bats)
             THEN /\ cfIds' = ids /\ cfFlow' = [Go("confirm") EXCEPT !.got = got]
                  /\ UNCHANGED <<cfMake, cfNet, cfEntry, cfOpen, cfLease, cfKnown, cfTorn, cfLeft>>
             ELSE Saved([cfEntry EXCEPT !.bats = got], ids, KnownFrom(got), FALSE)
ReconfigureMarstek == Reconfigured("marstek", "confirm")
ReconfigureZendure == Reconfigured("zendure", "confirm")
ReconfigureSessy == Reconfigured("sessy", "confirm")
ReconfigureEsphome == Reconfigured("esphome", "confirm")
ReconfigureAnker == Reconfigured("anker", "confirm")
ReconfigureHoymiles == Reconfigured("hoymiles", "confirm")
ReconfigureHuawei == Reconfigured("huawei", "confirm")
ReconfigureHuaweiScan ==
    /\ At("reconfigure", "confirm") /\ Len(cfFlow.got) < Len(cfEntry.bats)
    /\ cfMake[cfEntry.bats[Len(cfFlow.got) + 1].unit] = "huawei"
    /\ Form(Go("confirmslave"))
ReconfigureHuaweiSlave == Reconfigured("huawei", "confirmslave")

---------------------------------------------------------------------------
(* A dialog is opened, or closed by the user at any form *)
CfOpen ==
    /\ cfFlow.kind = "none"
    /\ \/ cfEntry.bats = <<>> /\ Form([NoFlow EXCEPT !.kind = "setup", !.step = "user"])
       \/ /\ cfEntry.bats # <<>> /\ cfLeft.flows > 0
          /\ \E k \in {"options", "reconfigure"} :
              cfFlow' = [NoFlow EXCEPT !.kind = k, !.step = IF k = "options" THEN "menu" ELSE "confirm"]
          /\ cfLeft' = [cfLeft EXCEPT !.flows = @ - 1]
          /\ UNCHANGED <<cfMake, cfNet, cfEntry, cfIds, cfOpen, cfLease, cfKnown, cfTorn>>
CfClose ==
    /\ cfFlow.kind # "none" /\ cfFlow.step # "testing"
    /\ cfFlow' = NoFlow
    /\ cfTorn' = (cfTorn \/ (cfFlow.kind = "reconfigure" /\ cfFlow.got # <<>>))
    /\ UNCHANGED <<cfMake, cfNet, cfEntry, cfIds, cfOpen, cfLease, cfKnown, cfLeft>>

(* The router gives a battery another address (once there is an entry); Home Assistant tells *)
CfMove ==
    /\ cfLeft.moves > 0 /\ cfLease.at = "none" /\ cfEntry.bats # <<>>
    /\ \E u \in CfUnits, h \in CfHosts :
        /\ cfMake[u] \in IpBased \cup {"huawei"} /\ h \notin {cfNet[v] : v \in CfUnits}
        /\ cfNet' = [cfNet EXCEPT ![u] = h]
        /\ cfLease' = [NoLease EXCEPT !.at = "told", !.unit = u, !.host = h]
    /\ cfLeft' = [cfLeft EXCEPT !.moves = @ - 1]
    /\ UNCHANGED <<cfMake, cfEntry, cfIds, cfOpen, cfFlow, cfKnown, cfTorn>>

(* evaluate_lease(): one tracked battery of that MAC, of an IP brand, at another address, that does
   not answer there, whose new address no other battery is stored with *)
Matches == {i \in 1..Len(cfEntry.bats) : cfEntry.bats[i].unit = cfLease.unit}
Verdict(i, reachable) ==
    /\ Cardinality(Matches) = 1 /\ i \in Matches
    /\ cfMake[cfLease.unit] \in IpBased
    /\ cfEntry.bats[i].host # cfLease.host
    /\ ~reachable
    /\ \A j \in 1..Len(cfEntry.bats) \ {i} : cfEntry.bats[j].host # cfLease.host
(* _async_apply_dhcp_lease(): refused (also when the coordinator has not noticed yet that the battery
   is gone), or its link is closed under the lock for the probe of the new address *)
LeaseRefused ==
    /\ cfLease.at = "told"
    /\ cfLease' = NoLease
    /\ UNCHANGED <<cfMake, cfNet, cfEntry, cfIds, cfOpen, cfFlow, cfKnown, cfTorn, cfLeft>>
LeaseProbes ==
    /\ cfLease.at = "told"
    /\ \E i \in Matches :
        /\ Verdict(i, FALSE) /\ ~(cfFlow.step = "testing" /\ cfFlow.at = i)
        /\ cfLease' = [cfLease EXCEPT !.at = "probing", !.bats = cfEntry.bats, !.index = i]
        /\ cfOpen' = [cfOpen EXCEPT ![i] = FALSE]
    /\ UNCHANGED <<cfMake, cfNet, cfEntry, cfIds, cfFlow, cfKnown, cfTorn, cfLeft>>
LeaseSilent ==
    /\ cfLease.at = "probing"
    /\ cfLease' = NoLease
    /\ cfOpen' = [i \in DOMAIN cfOpen |-> cfOpen[i] \/ i = cfLease.index]
    /\ UNCHANGED <<cfMake, cfNet, cfEntry, cfIds, cfFlow, cfKnown, cfTorn, cfLeft>>
(* The battery answers at the new address: ids migrated, the list read before the probe stored, reloaded *)
HoldsList == cfFlow.got # <<>> \/ cfFlow.step = "testing"
LeaseMoves ==
    /\ cfLease.at = "probing" /\ cfNet[cfLease.unit] = cfLease.host
    /\ LET i == CHOOSE j \in 1..Len(cfLease.bats) : cfLease.bats[j].unit = cfLease.unit
           old == cfLease.bats[i].host
       IN /\ CanMigrate(cfIds, old, cfLease.host)
          /\ Stored([cfEntry EXCEPT !.bats = [cfLease.bats EXCEPT ![i].host = cfLease.host]],
                    Migrate(cfIds, old, cfLease.host))
    /\ cfKnown' = [cfKnown EXCEPT ![cfLease.unit] = cfLease.host]
    /\ cfTorn' = (cfTorn \/ HoldsList)
    /\ cfLease' = NoLease
    /\ cfFlow' = [cfFlow EXCEPT !.at = IF cfFlow.step = "testing" THEN 0 ELSE @]
    /\ UNCHANGED <<cfMake, cfNet, cfLeft>>

---------------------------------------------------------------------------
CfInit ==
    /\ cfMake \in CfMakes
    /\ cfNet \in {CHOOSE f \in [CfUnits -> CfHosts] : \A u, v \in CfUnits : u # v => f[u] # f[v]}
    /\ cfEntry = [bats |-> <<>>, slots |-> <<>>, devs |-> 0, mode |-> "off"]
    /\ cfIds = [h \in CfHosts |-> Nobody] /\ cfOpen = <<>> /\ cfFlow = NoFlow /\ cfLease = NoLease
    /\ cfKnown = [u \in CfUnits |-> 0] /\ cfTorn = FALSE
    /\ cfLeft = [moves |-> CfMaxMoves, flows |-> CfMaxFlows]

SetupStep ==
    \/ SetupUser \/ SetupPhases \/ SetupCount \/ SetupBrand \/ SetupMarstek \/ SetupZendure \/ SetupEsphome
    \/ SetupSessy \/ SetupHuawei \/ SetupHuaweiSlave \/ SetupHoymiles \/ SetupAnker \/ SetupLimits
    \/ SetupAskSlots \/ SetupAddSlot \/ SetupSlotDetails \/ SetupMoreSlots \/ SetupAskDevices \/ SetupDevice
    \/ SetupMoreDevices \/ SetupPredictive \/ SetupMode \/ SetupSlotMode \/ SetupDynamic \/ SetupRealtime
OptionsStep ==
    \/ OptionsMenu \/ OptionsSensors \/ OptionsPhases \/ OptionsAssign \/ OptionsRemove \/ OptionsCount
    \/ OptionsBrand \/ OptionsTest \/ OptionsTested \/ OptionsZendure \/ OptionsSessy \/ OptionsEsphome
    \/ OptionsHuawei \/ OptionsHuaweiSlave \/ OptionsHoymiles \/ OptionsAnker \/ OptionsLimits
    \/ OptionsSlots \/ OptionsAddSlot \/ OptionsSlotDetails \/ OptionsMoreSlots \/ OptionsDevices
    \/ OptionsDevice \/ OptionsMoreDevices \/ OptionsPredictive \/ OptionsMode \/ OptionsSlotMode
    \/ OptionsDynamic \/ OptionsRealtime
ReconfigureStep ==
    \/ ReconfigureMarstek \/ ReconfigureZendure \/ ReconfigureSessy \/ ReconfigureEsphome \/ ReconfigureAnker
    \/ ReconfigureHoymiles \/ ReconfigureHuawei \/ ReconfigureHuaweiScan \/ ReconfigureHuaweiSlave
CfNext ==
    \/ SetupStep \/ OptionsStep \/ ReconfigureStep \/ CfOpen \/ CfClose
    \/ CfMove \/ LeaseRefused \/ LeaseProbes \/ LeaseSilent \/ LeaseMoves

(* A probe returns or times out; nothing else is fair: a user may leave a form open for ever *)
CfFairness == WF_cfVars(OptionsTested) /\ WF_cfVars(LeaseSilent \/ LeaseMoves)
CfSpec == CfInit /\ [][CfNext]_cfVars /\ CfFairness

---------------------------------------------------------------------------
(* An address learnt from a lease, or entered last, is the one stored: a dialog opened before the
   lease and saved after it does not put the old address back.  Exempt are the dialogs that had
   the battery list in hand meanwhile (cfTorn), which do overwrite it. *)
AddressKept ==
    ~cfTorn => \A i \in 1..Len(cfEntry.bats) : cfEntry.bats[i].host = cfKnown[cfEntry.bats[i].unit]

(* The registry ids of a stored battery's address carry that battery's history: a lease and a
   finished reconfigure move the ids with the battery, a removal frees them *)
HistoryFollows ==
    ~cfTorn /\ ~(cfFlow.kind = "reconfigure" /\ cfFlow.got # <<>>) => \A i \in 1..Len(cfEntry.bats) : cfIds[cfEntry.bats[i].host] = cfEntry.bats[i].unit

(* No two stored slots give one battery contradictory orders at one time *)
SlotsDisjoint ==
    \A i, j \in 1..Len(cfEntry.slots) : i # j /\ ScopesMeet(cfEntry.slots[i], cfEntry.slots[j]) =>
        ~TimesOverlap(cfEntry.slots[i], cfEntry.slots[j])

(* A link closed for a probe, by the options or by a lease, is open again in the end: reconnected
   when nobody answers, replaced by the reload when the battery does *)
LinkComesBack == (\E i \in DOMAIN cfOpen : ~cfOpen[i]) ~> (\A i \in DOMAIN cfOpen : cfOpen[i])

(* What dialogs, leases and reconfigurations leave stored is consistent: each battery under its last
   address, the ids of that address its own, the slots free of contradiction *)
EntryConsistent ==
    /\ CfTypeOK
    /\ AddressKept
    /\ HistoryFollows
    /\ SlotsDisjoint
=============================================================================
