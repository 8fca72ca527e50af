---------------------------- MODULE FullCharge ----------------------------
(***************************************************************************)
(* The weekly full charge (control/weekly_full_charge.py): once a week the *)
(* controller raises the charge cutoff in every battery's own register to  *)
(* 100 %, waits until all of them are full, and puts the user's ceiling    *)
(* back.  The register survives the host, the controller's memory does not:*)
(* what was raised is known from a store that is written after the fact.   *)
(*                                                                         *)
(* A cycle (handle_registers) is a walk over awaits: one write per battery.*)
(* Polls, option updates, the number entity, midnight and a crash happen   *)
(* between any two of them; the manual-mode handoff does not, because it   *)
(* takes the control lock that the cycle holds.                            *)
(* _force_full_charge is initialised to False and set by nobody.           *)
(***************************************************************************)
EXTENDS Integers

CONSTANTS
    WkBatteries,    \* batteries with a cutoff register
    WkDeviceOwned,  \* those whose ceiling setup does not write again
    WkCeilings,     \* ceilings a user may choose
    WkTop,          \* the ceiling of a full charge (100 %)
    WkWeek,         \* days in a week
    WkHandsOver,    \* batteries that manual or backup mode may take
    WkEditsInLoop,  \* options may change while registers are being raised
    WkMaxUpsets     \* bound on restarts, option changes, handoffs and failed writes together

ASSUME WkAssumption ==
    /\ WkDeviceOwned \subseteq WkBatteries /\ WkHandsOver \subseteq WkBatteries
    /\ WkCeilings \subseteq 1..WkTop
    /\ WkTop \in Nat \ {0} /\ WkWeek \in Nat \ {0, 1}
    /\ WkEditsInLoop \in BOOLEAN /\ WkMaxUpsets \in Nat

VARIABLES
    wk,         \* the controller's flags and the options it follows
    wkSaved,    \* the ceiling to put back, 0 when none is kept
    wkApplied,  \* batteries raised since the host came up
    wkStore,    \* what the store holds
    wkSaving,   \* a background save is due
    wkCfg,      \* the ceiling in the config entry
    wkReg,      \* the battery's own register
    wkOwner,    \* who commands the battery
    wkDay,      \* today
    wkAt,       \* where the cycle is, or "down"
    wkTodo,     \* batteries the loop has yet to visit
    wkOk,       \* no write of the loop failed so far
    wkClean,    \* history: every stop so far saved the state first
    wkDone,     \* history: today's run was completed and saved
    wkUpsets    \* how many of them so far

wkVars == <<wk, wkSaved, wkApplied, wkStore, wkSaving, wkCfg, wkReg, wkOwner,
            wkDay, wkAt, wkTodo, wkOk, wkClean, wkDone, wkUpsets>>
wkMemory == <<wk, wkSaved, wkApplied, wkSaving>>
wkHistory == <<wkClean, wkDone, wkUpsets>>
wkWorld == <<wkCfg, wkReg, wkOwner, wkDay, wkHistory>>
wkFaced == <<wkClean, wkDone>>

Unsaved == [b \in WkBatteries |-> 0]
NoWeekday == WkWeek
Flags(enabled, day, complete, written, pending, last) ==
    [enabled |-> enabled, day |-> day, complete |-> complete,
     written |-> written, pending |-> pending, last |-> last]

WkTypeOK ==
    /\ wk \in [enabled: BOOLEAN, day: 0..WkWeek-1, complete: BOOLEAN,
               written: BOOLEAN, pending: BOOLEAN, last: 0..WkWeek]
    /\ wkSaved \in [WkBatteries -> {0} \cup WkCeilings]
    /\ wkApplied \subseteq WkBatteries
    /\ wkStore \in [have: BOOLEAN, fresh: BOOLEAN, complete: BOOLEAN,
                    written: BOOLEAN, pending: BOOLEAN,
                    saved: [WkBatteries -> {0} \cup WkCeilings]]
    /\ wkCfg \in [WkBatteries -> WkCeilings]
    /\ wkReg \in [WkBatteries -> WkCeilings \cup {WkTop}]
    /\ wkOwner \in [WkBatteries -> {"auto", "manual", "backup"}]
    /\ wkDay \in 0..WkWeek-1 /\ wkTodo \subseteq WkBatteries
    /\ wkAt \in {"idle", "restore", "check", "raise", "judge", "finish", "down"}
    /\ {wkSaving, wkOk, wkClean, wkDone} \subseteq BOOLEAN
    /\ wkUpsets \in 0..WkMaxUpsets

WkInit ==
    /\ wk = Flags(TRUE, 0, FALSE, FALSE, FALSE, NoWeekday)
    /\ wkSaved = Unsaved /\ wkApplied = {} /\ wkSaving = FALSE
    /\ wkStore = [have |-> FALSE, fresh |-> FALSE, complete |-> FALSE,
                  written |-> FALSE, pending |-> FALSE, saved |-> Unsaved]
    /\ wkCfg \in {[b \in WkBatteries |-> c] : c \in WkCeilings}
    /\ wkReg = wkCfg
    /\ wkOwner = [b \in WkBatteries |-> "auto"]
    /\ wkDay = 1 /\ wkAt = "idle" /\ wkTodo = {} /\ wkOk = TRUE
    /\ wkClean = TRUE /\ wkDone = FALSE /\ wkUpsets = 0

---------------------------------------------------------------------------
(* is_active(): the first look on another day ends the run of the last one *)
RolledOver == /\ wk.enabled /\ wk.last \notin {NoWeekday, wkDay}
              /\ wk.last = wk.day
Unfinished == wk.written /\ ~wk.complete
\* Mutant of Looked: the run of yesterday is dropped without a restore.
LookedForgets ==
    IF RolledOver THEN Flags(TRUE, wk.day, FALSE, FALSE, wk.pending, wkDay)
    ELSE IF wk.enabled THEN [wk EXCEPT !.last = wkDay] ELSE wk
Looked ==
    IF RolledOver THEN Flags(TRUE, wk.day, FALSE, FALSE,
                             wk.pending \/ Unfinished, wkDay)
    ELSE IF wk.enabled THEN [wk EXCEPT !.last = wkDay] ELSE wk
IsActive(w) == w.enabled /\ wkDay = w.day /\ ~w.complete

(* save_state(): nothing is saved while the feature is off *)
SaveState(w, saved) ==
    wkStore' = IF w.enabled
               THEN [have |-> TRUE, fresh |-> TRUE, complete |-> w.complete,
                     written |-> w.written, pending |-> w.pending, saved |-> saved]
               ELSE wkStore

(* something the code has to cope with; bounded *)
WkUpset == wkUpsets < WkMaxUpsets /\ wkUpsets' = wkUpsets + 1

StartWalk(at) == wkAt' = at /\ wkTodo' = WkBatteries /\ wkOk' = TRUE
GoTo(at) == wkAt' = at /\ wkTodo' = {} /\ wkOk' = TRUE

(* handle_registers() up to the restore of an aborted run *)
WkStart ==
    /\ wkAt = "idle"
    /\ wk' = Looked /\ wkSaving' = (wkSaving \/ RolledOver)
    /\ IF Looked.pending THEN StartWalk("restore") ELSE GoTo("check")
    /\ UNCHANGED <<wkSaved, wkApplied, wkStore, wkWorld>>

(* _restore_hardware_cutoffs(), one battery at a time *)
Original(b) == IF wkSaved[b] # 0 THEN wkSaved[b] ELSE wkCfg[b]
PutsBack(b) == wkOwner[b] = "auto"
RestoreOne(b) ==
    /\ wkAt \in {"restore", "finish"} /\ b \in wkTodo
    /\ wkTodo' = wkTodo \ {b}
    /\ wkReg' = IF PutsBack(b) THEN [wkReg EXCEPT ![b] = Original(b)] ELSE wkReg
    /\ UNCHANGED <<wkMemory, wkStore, wkCfg, wkOwner, wkDay, wkAt, wkOk,
                   wkHistory>>
\* Mutant of RestoreFails: the failure is not noticed.
RestoreFailsUnnoticed(b) ==
    /\ wkAt \in {"restore", "finish"} /\ b \in wkTodo /\ PutsBack(b)
    /\ wkTodo' = wkTodo \ {b} /\ wkOk' = wkOk /\ WkUpset
    /\ UNCHANGED <<wkMemory, wkStore, wkCfg, wkReg, wkOwner, wkDay, wkAt, wkFaced>>
RestoreFails(b) ==
    /\ wkAt \in {"restore", "finish"} /\ b \in wkTodo /\ PutsBack(b)
    /\ wkTodo' = wkTodo \ {b} /\ wkOk' = FALSE /\ WkUpset
    /\ UNCHANGED <<wkMemory, wkStore, wkCfg, wkReg, wkOwner, wkDay, wkAt, wkFaced>>

(* a failed restore is kept for the next cycle, a complete one is forgotten *)
Forget == wkSaved' = Unsaved /\ wkApplied' = {}
RestoreEnds ==
    /\ wkAt = "restore" /\ wkTodo = {}
    /\ IF wkOk THEN /\ wk' = [wk EXCEPT !.pending = FALSE] /\ Forget /\ GoTo("check")
               ELSE UNCHANGED <<wk, wkSaved, wkApplied>> /\ GoTo("idle")
    /\ SaveState(wk', wkSaved')
    /\ UNCHANGED <<wkSaving, wkWorld>>

(* the rest of handle_registers(): is there a run, and must it be applied? *)
AllManual == \A b \in WkBatteries : wkOwner[b] = "manual"
Reachable == {b \in WkBatteries : wkOwner[b] = "auto"}
NeedWrite == \/ ~wk.written \/ wkSaved = Unsaved
             \/ Reachable \ wkApplied # {}
NoRun ==
    /\ wkAt = "check" /\ wk' = Looked /\ wkSaving' = (wkSaving \/ RolledOver)
    /\ ~IsActive(Looked) \/ AllManual
    /\ GoTo("idle") /\ UNCHANGED <<wkSaved, wkApplied, wkStore, wkWorld>>
HeldByDelay ==      \* the charge delay has not been unlocked yet
    /\ wkAt = "check" /\ IsActive(Looked) /\ wk' = Looked /\ GoTo("idle")
    /\ UNCHANGED <<wkSaved, wkApplied, wkSaving, wkStore, wkWorld>>
RunGoesOn ==
    /\ wkAt = "check" /\ IsActive(Looked) /\ ~AllManual /\ wk' = Looked
    /\ IF NeedWrite THEN StartWalk("raise") ELSE GoTo("judge")
    /\ UNCHANGED <<wkSaved, wkApplied, wkSaving, wkStore, wkWorld>>

(* the original is kept before the register is overwritten *)
WkKeep(b) == IF wkSaved[b] = 0 THEN wkCfg[b] ELSE wkSaved[b]
RaiseOne(b, ok) ==
    /\ wkAt = "raise" /\ b \in wkTodo /\ wkTodo' = wkTodo \ {b}
    /\ IF wkOwner[b] # "auto" THEN UNCHANGED <<wkSaved, wkApplied, wkReg>>
       ELSE /\ wkSaved' = [wkSaved EXCEPT ![b] = WkKeep(b)]
            /\ wkApplied' = IF ok THEN wkApplied \cup {b} ELSE wkApplied
            /\ wkReg' = IF ok THEN [wkReg EXCEPT ![b] = WkTop] ELSE wkReg
    /\ IF ok THEN UNCHANGED wkUpsets ELSE WkUpset
    /\ UNCHANGED <<wk, wkSaving, wkStore, wkCfg, wkOwner, wkDay, wkAt, wkOk, wkFaced>>
RaiseEnds ==
    /\ wkAt = "raise" /\ wkTodo = {}
    /\ wk' = [wk EXCEPT !.written = TRUE] /\ wkSaving' = TRUE
    /\ GoTo("judge") /\ UNCHANGED <<wkSaved, wkApplied, wkStore, wkWorld>>

(* completion: every battery that is not in manual mode is full; one whose  *)
(* register was never raised stops below.                                   *)
MayBeFull == /\ ~AllManual
             /\ \A b \in WkBatteries : wkOwner[b] # "manual" => wkReg[b] = WkTop
JudgeRun(full) ==
    /\ wkAt = "judge"
    /\ IF full THEN /\ MayBeFull /\ ~wk.complete
                    /\ wk' = [wk EXCEPT !.complete = TRUE] /\ StartWalk("finish")
               ELSE wk' = wk /\ GoTo("idle")
    /\ UNCHANGED <<wkSaved, wkApplied, wkSaving, wkStore, wkWorld>>
FinishEnds ==
    /\ wkAt = "finish" /\ wkTodo = {}
    /\ wk' = [wk EXCEPT !.pending = ~wkOk]
    /\ IF wkOk THEN Forget ELSE UNCHANGED <<wkSaved, wkApplied>>
    /\ SaveState(wk', wkSaved')
    /\ wkDone' = (wk.enabled /\ wk.complete)
    /\ GoTo("idle") /\ UNCHANGED <<wkSaving, wkCfg, wkReg, wkOwner, wkDay, wkClean, wkUpsets>>

(* the background task that save_state() was handed to *)
SaveRuns ==
    /\ wkSaving /\ wkAt # "down" /\ wkSaving' = FALSE
    /\ SaveState(wk, wkSaved)
    /\ UNCHANGED <<wk, wkSaved, wkApplied, wkWorld, wkAt, wkTodo, wkOk>>

(* update_settings(): another day, or the feature switched off *)
Reconfigure(enabled, day) ==
    /\ wkAt # "down" /\ <<enabled, day>> # <<wk.enabled, wk.day>>
    /\ wkAt = "raise" => WkEditsInLoop
    /\ WkUpset
    /\ wk' = IF day # wk.day \/ (wk.enabled /\ ~enabled)
             THEN Flags(enabled, day, FALSE, FALSE, wk.pending \/ Unfinished, wk.last)
             ELSE [wk EXCEPT !.enabled = enabled]
    /\ wkDone' = FALSE
    /\ UNCHANGED <<wkSaved, wkApplied, wkSaving, wkStore, wkCfg, wkReg, wkOwner,
                   wkDay, wkClean, wkAt, wkTodo, wkOk>>

(* load_state() after setup has written the ceilings it owns *)
WkFresh == Flags(wk.enabled, wk.day, FALSE, FALSE, FALSE, NoWeekday)
\* Mutant of WkReload: a run of today is loaded as still to be completed.
ReloadReopens ==
    IF ~wk.enabled \/ ~wkStore.have THEN UNCHANGED <<wk, wkSaved>>
    ELSE /\ wkSaved' = wkStore.saved
         /\ wk' = Flags(TRUE, wk.day, FALSE, wkStore.written, wkStore.pending, NoWeekday)
WkReload ==
    LET s == wkStore
        aborted == s.pending \/ (s.written /\ ~s.complete)
    IN  IF ~wk.enabled \/ ~s.have THEN UNCHANGED <<wk, wkSaved>>
        ELSE /\ wkSaved' = s.saved
             /\ wk' = IF s.fresh THEN Flags(TRUE, wk.day, s.complete, s.written,
                                            s.pending, NoWeekday)
                      ELSE IF aborted THEN Flags(TRUE, wk.day, s.complete, FALSE,
                                                 TRUE, NoWeekday)
                      ELSE wk
WkSetUp ==
    /\ wkAt = "down" /\ WkReload
    /\ wkReg' = [b \in WkBatteries |-> IF b \in WkDeviceOwned THEN wkReg[b] ELSE wkCfg[b]]
    /\ GoTo("idle")
    /\ UNCHANGED <<wkApplied, wkSaving, wkStore, wkCfg, wkOwner, wkDay, wkHistory>>
GoesDown(clean) ==
    /\ WkUpset
    /\ wkClean' = (wkClean /\ clean)
    /\ wk' = WkFresh /\ wkSaved' = Unsaved /\ wkApplied' = {} /\ wkSaving' = FALSE
    /\ GoTo("down") /\ UNCHANGED <<wkCfg, wkReg, wkOwner, wkDay, wkDone>>
WkUnload == wkAt = "idle" /\ GoesDown(wk.enabled) /\ SaveState(wk, wkSaved)
WkCrash == wkAt # "down" /\ GoesDown(FALSE) /\ UNCHANGED wkStore

(* the user, the batteries and the calendar *)
ChangeOwner(b, o) ==
    /\ b \in WkHandsOver /\ o # wkOwner[b]
    /\ "manual" \in {o, wkOwner[b]} => wkAt = "idle"
    /\ wkOwner' = [wkOwner EXCEPT ![b] = o] /\ WkUpset
    /\ UNCHANGED <<wkMemory, wkStore, wkCfg, wkReg, wkDay, wkAt, wkTodo, wkOk, wkFaced>>
WkMidnight ==
    /\ wkDay' = (wkDay + 1) % WkWeek
    /\ wkStore' = [wkStore EXCEPT !.fresh = FALSE]
    /\ wkAt = "down" \/ (wk.enabled => wk.last = wkDay)   \* some cycle ran today
    /\ wkDone' = FALSE
    /\ UNCHANGED <<wkMemory, wkCfg, wkReg, wkOwner, wkAt, wkTodo, wkOk, wkClean, wkUpsets>>

WkCycle ==
    \/ WkStart \/ RestoreEnds \/ NoRun \/ RunGoesOn \/ RaiseEnds \/ FinishEnds
    \/ \E full \in BOOLEAN : JudgeRun(full)
    \/ \E b \in WkBatteries : RestoreOne(b)
    \/ \E b \in WkBatteries : RaiseOne(b, TRUE)
WkNext ==
    \/ WkCycle \/ HeldByDelay \/ SaveRuns \/ WkSetUp \/ WkUnload \/ WkCrash \/ WkMidnight
    \/ \E b \in WkBatteries : \/ RestoreFails(b) \/ RaiseOne(b, FALSE) 
                              \/ \E o \in {"auto", "manual", "backup"} : ChangeOwner(b, o)
    \/ \E e \in BOOLEAN, d \in 0..1 : Reconfigure(e, d)

WkFairness ==
    /\ WF_wkVars(WkCycle) /\ WF_wkVars(SaveRuns)
    /\ WF_wkVars(WkSetUp) /\ WF_wkVars(WkMidnight)
WkSpec == WkInit /\ [][WkNext]_wkVars /\ WkFairness

---------------------------------------------------------------------------
WkRaised(b) == wkReg[b] = WkTop /\ wkCfg[b] # WkTop
(* a stop without a save is made up for by setup, unless the device owns its ceiling *)
Recoverable(b) == b \notin WkHandsOver /\ (b \notin WkDeviceOwned \/ wkClean)

(* While the controller runs, a battery whose own cutoff register was raised *)
(* above the user's ceiling has the ceiling to put back in memory: neither a *)
(* crash between a write and its save, a reload, midnight, a failed write,   *)
(* nor switching the feature off makes the controller forget one.            *)
RaisedIsRemembered ==
    wkAt # "down" => \A b \in WkBatteries : WkRaised(b) /\ Recoverable(b) => wkSaved[b] # 0

(* A raised register is put back: the run ends at the latest with its day,   *)
(* and handle_registers() retries a restore that failed on every cycle.      *)
RaisedIsUndone ==
    \A b \in WkBatteries : WkRaised(b) ~> ~WkRaised(b) \/ ~Recoverable(b)

(* A run that was completed and saved is not followed by another raise on    *)
(* the same day, whatever restarts in between (load_state), unless the        *)
(* options changed.                                                          *)
OneRunADay ==
    [][wkDone => \A b \in WkBatteries : wkReg'[b] = WkTop => wkReg[b] = WkTop]_wkVars

(* The controller never loses track of a cutoff it raised                    *)
(* (weekly_full_charge.py: _battery_saved_max_soc, save_state, load_state).  *)
CutoffsRemembered == WkTypeOK /\ RaisedIsRemembered
=============================================================================
