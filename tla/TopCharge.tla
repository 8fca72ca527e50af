----------------------------- MODULE TopCharge -----------------------------
(***************************************************************************)
(* The last stretch of a charge to 100 % (control/max_soc_charge.py) for   *)
(* one battery: the taper latch, the SOC recalibration of single packs and *)
(* the cutoff retry of coupled packs (Venus A/D), and the cell measurement *)
(* with its 0 W hold.  One step is one control cycle on one sample: the    *)
(* cutoff counters tick (handle_registers), the blocks are refreshed, and  *)
(* the measurement may take the battery over.                              *)
(*                                                                         *)
(* Cell voltage is a level: 0 below the taper exit, 1 below the taper, 2 up *)
(* to the retry voltage, 3 below the pause, 4 at the pause, 5 above it.    *)
(***************************************************************************)
EXTENDS Integers

CONSTANTS
    TcConfirm,  \* consecutive cycles that confirm a refusal or an acceptance
    TcWait      \* cycles of rest before a measurement

ASSUME TcAssumption == TcConfirm \in Nat \ {0} /\ TcWait \in Nat

VARIABLES
    tc,     \* the battery's entries in the controller's dictionaries
    tcKind, \* "single" or "coupled"
    tcSeen, \* history: refusals since the last proof that it accepts
    tcTries \* history: retries opened in this session

tcVars == <<tc, tcKind, tcSeen, tcTries>>

Volts == 0..5
InZone(v) == v >= 2
Relaxed(v) == v <= 2
AtPause(v) == v >= 4

(* What a cycle sees: power above 10 W is "takes"; a refusal is a command   *)
(* that an inverter in standby does not follow.                            *)
Samples == {x \in [v: Volts, soc: {98, 99, 100}, cmd: BOOLEAN, takes: BOOLEAN,
                    weekly: BOOLEAN] : x.takes => x.cmd}
CutSignature(x) == x.cmd /\ ~x.takes

TcStart == [cut |-> 0, streak |-> 0, taper |-> FALSE,
            over |-> FALSE, count |-> 0, latched |-> FALSE, high |-> FALSE, run |-> 0,
            pending |-> FALSE, active |-> FALSE, accepted |-> 0,
            owned |-> FALSE, meas |-> "none", phase |-> "none", wait |-> 0]

TcTypeOK ==
    /\ tc \in [cut: 0..TcConfirm, streak: 0..TcConfirm, taper: BOOLEAN,
               over: BOOLEAN, count: 0..TcConfirm, latched: BOOLEAN,
               high: BOOLEAN, run: 0..TcConfirm, pending: BOOLEAN,
               active: BOOLEAN, accepted: 0..TcConfirm, owned: BOOLEAN,
               meas: {"none", "pending", "done"},
               phase: {"none", "wait", "measured"}, wait: 0..TcWait]
    /\ tcKind \in {"single", "coupled"}
    /\ tcSeen \in 0..TcConfirm /\ tcTries \in 0..2

---------------------------------------------------------------------------
(* tick_bms_cutoff_retry_acceptance(): a sustained acceptance re-arms *)
TickAcceptance(t, x) ==
    IF ~t.active \/ tcKind = "single" THEN t
    ELSE IF ~x.takes THEN [t EXCEPT !.accepted = 0]
    ELSE IF t.accepted + 1 < TcConfirm THEN [t EXCEPT !.accepted = @ + 1]
    ELSE [t EXCEPT !.accepted = 0, !.active = FALSE, !.cut = 0]

(* tick_bms_cutoff(): count, reset or freeze the shared cutoff counter *)
AtMost(n) == IF n > TcConfirm THEN TcConfirm ELSE n
TickCutoff(t, x) ==
    IF x.soc < 99 /\ ~InZone(x.v) THEN [t EXCEPT !.cut = 0, !.streak = 0]
    ELSE IF CutSignature(x) THEN [t EXCEPT !.streak = 0, !.cut = AtMost(@ + 1)]
    ELSE IF ~x.takes THEN t
    ELSE IF t.streak + 1 < TcConfirm THEN [t EXCEPT !.streak = @ + 1]
    ELSE [t EXCEPT !.streak = 0, !.cut = 0]
Confirmed(t) == t.cut >= TcConfirm

(* prepare_bms_cutoff_retry(): the first refusal of coupled packs is provisional *)
DropRetry(t) == [t EXCEPT !.pending = FALSE, !.active = FALSE, !.accepted = 0]
OpenRetry(t) == [t EXCEPT !.pending = FALSE, !.active = TRUE, !.cut = 0]
PrepareRetry(t, x) ==
    IF t.meas # "none" THEN DropRetry(t)
    ELSE IF t.pending
         THEN IF x.takes \/ x.soc >= 100 THEN [t EXCEPT !.pending = FALSE]
              ELSE IF Relaxed(x.v) THEN OpenRetry(t) ELSE t
    ELSE IF t.active
         THEN IF ~InZone(x.v) THEN DropRetry(t)
              ELSE IF Confirmed(t) THEN [DropRetry(t) EXCEPT !.meas = "pending"] ELSE t
    ELSE IF ~Confirmed(t) \/ x.soc >= 100 THEN t
    ELSE IF Relaxed(x.v) THEN OpenRetry(t) ELSE [t EXCEPT !.pending = TRUE]

(* should_charge_to_bms_cutoff(): a coupled battery stays eligible at 100 % *)
ChargesOn(t, x) ==
    /\ tcKind = "coupled" /\ t.meas = "none"
    /\ LET r == PrepareRetry(t, x)
       IN ~r.pending /\ (r.active \/ (~Confirmed(r) /\ (r.owned \/ AtPause(x.v))))

(* _recal_accept_sustained(): the streak of accepted samples *)
RecalStreak(t, x) ==
    IF CutSignature(x) THEN [t EXCEPT !.run = 0]
    ELSE IF x.takes THEN [t EXCEPT !.run = IF @ + 1 >= TcConfirm THEN 0 ELSE @ + 1] ELSE t
Sustained(t, x) == x.takes /\ t.run + 1 >= TcConfirm

(* _compute_recal_override(): the drifted counter is charged to the BMS's own cutoff, once more after it *)
Override(t, on) == [t EXCEPT !.over = on]
\* Mutant of RetryStep: a refused retry is marked for another one.
RetryStepAgain(t, x) ==
    IF x.soc >= 100 THEN [t EXCEPT !.active = FALSE, !.count = 0, !.over = FALSE]
    ELSE IF ~CutSignature(x) THEN Override(RecalStreak(t, x), TRUE)
    ELSE IF t.count + 1 < TcConfirm THEN [t EXCEPT !.count = @ + 1, !.over = TRUE]
    ELSE [t EXCEPT !.active = FALSE, !.count = 0, !.over = FALSE, !.pending = TRUE]
RetryStep(t, x) ==
    LET s == RecalStreak(t, x) IN
    IF x.soc >= 100 THEN [t EXCEPT !.active = FALSE, !.count = 0, !.over = FALSE]
    ELSE IF CutSignature(x)
         THEN IF t.count + 1 < TcConfirm THEN [s EXCEPT !.count = @ + 1, !.over = TRUE]
              ELSE [s EXCEPT !.active = FALSE, !.count = 0, !.over = FALSE]
    ELSE Override(IF Sustained(t, x) THEN [s EXCEPT !.count = 0] ELSE s, TRUE)
FirstStep(t, x) ==
    LET s == RecalStreak(t, x)
        high == t.high \/ x.v = 5
    IN
    IF x.soc >= 99 THEN [t EXCEPT !.count = 0, !.high = FALSE, !.over = FALSE]
    ELSE IF t.latched THEN Override(t, FALSE)
    ELSE IF CutSignature(x)
         THEN IF t.count + 1 < TcConfirm
              THEN [s EXCEPT !.count = @ + 1, !.high = high, !.over = TRUE]
              ELSE [s EXCEPT !.count = 0, !.high = high, !.latched = TRUE,
                             !.pending = high, !.over = FALSE]
    ELSE Override(IF Sustained(t, x) THEN [s EXCEPT !.count = 0, !.high = FALSE] ELSE s, TRUE)
RecalOverride(t, x) ==
    IF t.pending
    THEN IF x.soc >= 100 THEN [t EXCEPT !.pending = FALSE, !.over = FALSE]
         ELSE IF ~Relaxed(x.v) THEN Override(t, FALSE)
         ELSE RetryStep([t EXCEPT !.pending = FALSE, !.active = TRUE, !.count = 0], x)
    ELSE IF t.active THEN RetryStep(t, x) ELSE FirstStep(t, x)
DropRecal(t) == [t EXCEPT !.over = FALSE, !.count = 0, !.latched = FALSE, !.pending = FALSE,
                          !.active = FALSE, !.high = FALSE, !.run = 0]

(* refresh_blocks(): the taper latch with its exit, then the two families *)
TaperLatch(t, x) == [t EXCEPT !.taper = InZone(x.v) \/ (@ /\ x.v # 0)]
RefreshCoupled(t, x) ==
    LET r == PrepareRetry(t, x) IN
    IF r.pending THEN [r EXCEPT !.owned = FALSE, !.meas = "none"]
    ELSE IF r.meas # "none" THEN [DropRetry(r) EXCEPT !.owned = FALSE]
    ELSE IF Confirmed(r) THEN [r EXCEPT !.owned = FALSE, !.meas = "pending"]
    ELSE [r EXCEPT !.owned = InZone(x.v) /\ (r.active \/ @ \/ AtPause(x.v))]
MeasureAfterCutoff(t, x) ==
    LET m == IF t.meas = "done" /\ ~InZone(x.v) THEN "none" ELSE t.meas IN
    [t EXCEPT !.meas = IF /\ Confirmed(t) /\ m = "none" /\ ~AtPause(x.v)
                          /\ InZone(x.v) \/ t.taper
                          /\ ~t.pending /\ ~t.active
                       THEN "pending" ELSE m]
RefreshSingle(t, x) ==
    LET z == IF InZone(x.v) THEN t ELSE DropRecal(t)
        m == MeasureAfterCutoff(TaperLatch(z, x), x)
        begun == /\ InZone(x.v)
                 /\ \/ AtPause(x.v) \/ CutSignature(x) \/ m.over \/ m.count > 0
                    \/ m.latched \/ m.pending \/ m.active
    IN IF ~x.weekly /\ begun THEN RecalOverride(m, x) ELSE Override(m, FALSE)
RefreshBlocks(t, x) ==
    IF tcKind = "coupled" THEN RefreshCoupled(TaperLatch(t, x), x)
    ELSE RefreshSingle(t, x)

(* handle_measurement(): rest at 0 W, measure, hold until the cell relaxes *)
Skipped(t, x) ==
    t.meas # "pending" /\ (tcKind = "coupled" \/ x.weekly \/ t.over)
NoPhase(t) == [t EXCEPT !.phase = "none", !.wait = 0]
Measure(t, x) ==
    IF Skipped(t, x) THEN NoPhase(t)
    ELSE IF t.phase = "none" /\ t.meas # "pending" /\ ~AtPause(x.v) THEN t
    ELSE LET p == IF t.phase = "none" THEN [t EXCEPT !.phase = "wait"] ELSE t
             q == IF p.phase = "wait" /\ p.wait >= TcWait
                  THEN [p EXCEPT !.phase = "measured", !.wait = 0,
                                 !.meas = IF @ = "pending" THEN "done" ELSE @]
                  ELSE IF p.phase = "wait" THEN [p EXCEPT !.wait = @ + 1] ELSE p
         IN IF q.phase = "measured" /\ ~AtPause(x.v) THEN NoPhase(q) ELSE q

TopCycle(x) ==
    LET t == TickCutoff(TickAcceptance(tc, x), x)
        u == Measure(RefreshBlocks(t, x), x)
        proof == ~InZone(x.v) \/ x.weekly \/ x.soc >= 99 \/ (x.takes /\ tc.run + 1 >= TcConfirm)
        ended == ~InZone(x.v) \/ (tc.active /\ ~u.active /\ tcKind = "coupled" /\ u.meas = "none")
    IN  /\ x.cmd => tc.phase = "none"       \* the measurement holds it at 0 W
        /\ tc' = u
        /\ tcSeen' = IF proof \/ (u.active /\ ~tc.active) THEN 0
                     ELSE IF CutSignature(x) THEN AtMost(tcSeen + 1) ELSE tcSeen
        /\ tcTries' = IF ended THEN 0
                      ELSE IF ~tc.active /\ u.active /\ tcTries < 2 THEN tcTries + 1
                      ELSE tcTries
        /\ UNCHANGED tcKind
Forgotten == tcSeen' = 0 /\ tcTries' = 0 /\ UNCHANGED tcKind

(* reset_if_new_day(): what is latched ends, but not a charge the BMS owns *)
TopNewDay ==
    /\ tc' = IF tcKind = "single"
             THEN [DropRecal([tc EXCEPT !.taper = FALSE]) EXCEPT !.phase = "none", !.wait = 0,
                                                                 !.run = tc.run]
             ELSE [tc EXCEPT !.taper = FALSE, !.phase = "none", !.wait = 0]
    /\ Forgotten

(* _reset_battery_ownership_state() on the way into manual mode, which freezes the rest *)
TopHandover ==
    /\ tc' = LET t == [tc EXCEPT !.cut = 0, !.meas = "none", !.owned = FALSE]
             IN IF tcKind = "coupled" THEN DropRetry(t) ELSE t
    /\ Forgotten

(* a cycle without data *)
TopNoData ==
    /\ tc' = LET t == [tc EXCEPT !.cut = 0, !.taper = FALSE, !.owned = FALSE,
                                 !.meas = "none", !.over = FALSE]
             IN NoPhase(IF tcKind = "coupled" THEN DropRetry(t) ELSE t)
    /\ Forgotten

(* the taper switch turned off, and the cycle that sees it *)
TaperOff == tc' = [TcStart EXCEPT !.cut = tc.cut, !.streak = tc.streak] /\ Forgotten

TcInit == /\ tc = TcStart /\ tcKind \in {"single", "coupled"}
          /\ tcSeen = 0 /\ tcTries = 0
TcNext == \/ TopNewDay \/ TopHandover \/ TopNoData \/ TaperOff
          \/ \E x \in Samples : TopCycle(x)
TcSpec == TcInit /\ [][TcNext]_tcVars

---------------------------------------------------------------------------
(* A recalibration does not push a battery that refuses: once the BMS has    *)
(* refused the confirming number of commands, with no sustained acceptance   *)
(* between them, _compute_recal_override() stops asking, however the BMS      *)
(* flaps between charge and standby and however the samples are spaced.      *)
RefusalEndsRecal ==
    tcKind = "single" /\ tcSeen >= TcConfirm => ~tc.over

(* One top-charge session opens at most one retry after a confirmed refusal; *)
(* coupled packs earn another by accepting charge for the confirming number  *)
(* of cycles (tick_bms_cutoff_retry_acceptance).                             *)
OneRetry == tcTries <= 1

(* Nothing is pushed that rests at 0 W: coupled packs held for a measurement   *)
(* are neither in their retry nor kept eligible, and a single pack that        *)
(* recalibrates is held only to measure after a cutoff of its own, never by    *)
(* the rest at the pause voltage (handle_measurement(); a hand-over to manual  *)
(* mode, which clears the cutoff, freezes the hold where it is).               *)
HoldOrRetry ==
    /\ tcKind = "coupled" /\ tc.phase # "none" => ~tc.active /\ ~tc.owned
    /\ tcKind = "single" /\ tc.phase # "none" /\ tc.over => tc.meas # "none" \/ tc.cut = 0

(* The last stretch of a charge ends: a refusal is believed, tried once more  *)
(* and not pushed (max_soc_charge.py).                                       *)
RetriedOnce ==
    /\ TcTypeOK
    /\ RefusalEndsRecal
    /\ OneRetry
    /\ HoldOrRetry
=============================================================================
