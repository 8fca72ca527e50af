---------------------------- MODULE HourlyBalance ----------------------------
(* Hourly net balance: tracking/hourly_balance.py.  The manager sums what the  *)
(* house took from the grid in the current hour and shifts the regulator's     *)
(* set-point so that the hour closes at its target.  It reads either the       *)
(* meter's power, integrated between samples, or a counter of another          *)
(* integration, of which it remembers the value at the start of the hour.      *)
(*                                                                             *)
(* Time goes in ticks of HbTicks to the hour and ends at HbEnd, within a day.  *)
(* Only the net of import and export is kept (the two are separate for display *)
(* only: every branch of the trapezoid adds (p + q) / 2 to their difference),  *)
(* in half units so that it stays an integer.                                  *)
EXTENDS Integers

CONSTANTS
    HbModes,      \* subset of {"power", "counter"}
    HbPowers,     \* what the meter may show
    HbTicks,      \* ticks of an hour
    HbEnd,        \* last tick of the clock
    HbRamp, HbForce, HbMin,     \* RAMP_IN, FORCE_RECALC_REMAINING, MIN_REMAINING
    HbCap, HbHyst, HbDeadband,  \* the three settings of the feature
    HbMaxUpsets   \* bound on lost readings, switches and restarts

ASSUME HbAssumption ==
    /\ HbModes \subseteq {"power", "counter"} /\ HbPowers \subseteq Int
    /\ {HbTicks, HbEnd, HbRamp, HbForce, HbMin, HbCap, HbHyst, HbMaxUpsets} \subseteq Nat \ {0}
    /\ HbDeadband \in Nat

VARIABLES
    hbMode, hbClock,
    hbGrid,    \* the sensor: power, the counter's total, readable or not
    hbOn,      \* hourly_balance_enabled
    hbAsked,   \* not manual and inside an active slot
    hbUp,      \* the entry is loaded
    hbMgr,     \* the manager: hour, net, last sample, snapshot, last offset, last save
    hbStore,   \* the store: hour, net, offset
    hbApplied, \* the controller's "hourly_balance" offset, 0 when absent
    hbSaving,  \* {} or the offset of the pass that waits for its save
    hbTruth,   \* history: what the hour's net ought to be
    hbSaved,   \* history: hbTruth and its hour when the store was written
    hbFresh,   \* history: the last step was a complete pass
    hbUpsets

hbVars == <<hbMode, hbClock, hbGrid, hbOn, hbAsked, hbUp, hbMgr, hbStore, hbApplied,
            hbSaving, hbTruth, hbSaved, hbFresh, hbUpsets>>

Hour == hbClock \div HbTicks
Elapsed == hbClock % HbTicks
HourLeft == HbTicks - Elapsed

Abs(n) == IF n < 0 THEN -n ELSE n
Quot(n, d) == IF n < 0 THEN -((-n) \div d) ELSE n \div d
Clamped(n) == IF n > HbCap THEN HbCap ELSE IF n < -HbCap THEN -HbCap ELSE n

-----------------------------------------------------------------------------
(* The law.                                                                  *)

Ramped(w) == IF Elapsed < HbRamp THEN Quot(w * Elapsed, HbRamp) ELSE w

(* The average power that brings the net back to 0 in the rest of the hour. *)
NeededShift(net) ==
    IF HourLeft < HbMin \/ Abs(net) <= HbDeadband THEN 0
    ELSE Clamped(Ramped(Quot(-net * HbTicks, 2 * HourLeft)))

(* Small changes are not worth a step, except towards the end of the hour. *)
SteadyShift(w, last) ==
    IF HourLeft >= HbForce /\ Abs(w - last) < HbHyst THEN last ELSE w

-----------------------------------------------------------------------------
(* The manager.                                                              *)

NewMgr == [hour |-> {}, net |-> 0, sample |-> {}, snap |-> {}, offset |-> 0, save |-> 0]

(* A new hour starts from nothing: sums, sample, snapshot and offset. *)
Turned(m) ==
    IF m.hour = {Hour} THEN m
    ELSE [NewMgr EXCEPT !.hour = {Hour}, !.save = m.save]

The1(S) == CHOOSE x \in S : TRUE

(* _read_external_net_wh and the assignment of the sums. *)
ByCounter(m) ==
    IF m.snap = {} THEN [m EXCEPT !.snap = {hbGrid.total}, !.net = 0]
    ELSE [m EXCEPT !.net = 2 * (hbGrid.total - The1(m.snap))]

(* The trapezoid between the last sample and this one. *)
ByPower(m) ==
    [m EXCEPT !.net = IF m.sample = {} THEN @
                      ELSE @ + (The1(m.sample).p + hbGrid.power) * (hbClock - The1(m.sample).at),
              !.sample = {[p |-> hbGrid.power, at |-> hbClock]}]

Summed(m) == IF hbMode = "counter" THEN ByCounter(m) ELSE ByPower(m)

(* clear_offset *)
Cleared == [hbMgr EXCEPT !.offset = 0, !.sample = {}]

Written(m) == [hour |-> m.hour, net |-> m.net, offset |-> m.offset]

Wrote(m, truth) == hbStore' = Written(m) /\ hbSaved' = [hour |-> m.hour, truth |-> truth]

(* History: what a complete pass ought to have in its sum. *)
TruthAfter(m) ==
    LET same == hbMgr.hour = {Hour}
        base == IF same THEN hbTruth ELSE [net |-> 0, from |-> {}, sample |-> {}]
    IN  IF hbMode = "counter"
        THEN LET from == IF base.from = {} THEN {hbGrid.total} ELSE base.from
             IN  [net |-> 2 * (hbGrid.total - The1(from)), from |-> from, sample |-> {}]
        ELSE [net |-> base.net + (IF base.sample = {} THEN 0
                                  ELSE (The1(base.sample).p + hbGrid.power) * (hbClock - The1(base.sample).at)),
              from |-> {}, sample |-> {[p |-> hbGrid.power, at |-> hbClock]}]

NoTruth == [net |-> 0, from |-> {}, sample |-> {}]

-----------------------------------------------------------------------------
HbInit ==
    /\ hbMode \in HbModes
    /\ hbClock = 0
    /\ \E p \in HbPowers : hbGrid = [power |-> p, total |-> 0, read |-> TRUE]
    /\ hbOn = TRUE /\ hbAsked = TRUE /\ hbUp = TRUE
    /\ hbMgr = NewMgr
    /\ hbStore = Written(NewMgr)
    /\ hbApplied = 0 /\ hbSaving = {}
    /\ hbTruth = NoTruth
    /\ hbSaved = [hour |-> {}, truth |-> NoTruth]
    /\ hbFresh = FALSE
    /\ hbUpsets = 0

(* Time passes; the counter goes on whoever looks. *)
HbTick ==
    /\ hbClock < HbEnd /\ hbSaving = {}
    /\ hbClock' = hbClock + 1
    /\ \E p \in HbPowers :
          hbGrid' = [hbGrid EXCEPT !.power = p, !.total = @ + hbGrid.power]
    /\ hbFresh' = FALSE
    /\ UNCHANGED <<hbMode, hbOn, hbAsked, hbUp, hbMgr, hbStore, hbApplied, hbSaving,
                   hbTruth, hbSaved, hbUpsets>>

(* async_process while the feature is not to act: the offset is dropped. *)
PassIdle ==
    /\ hbUp /\ hbSaving = {}
    /\ ~hbOn \/ ~hbAsked
    /\ hbMgr' = Cleared /\ hbApplied' = 0
    /\ hbTruth' = [hbTruth EXCEPT !.sample = {}]
    /\ hbFresh' = FALSE
    /\ UNCHANGED <<hbMode, hbClock, hbGrid, hbOn, hbAsked, hbUp, hbStore, hbSaving, hbSaved, hbUpsets>>

(* async_process with an unreadable sensor: the offset stays as it is, and an *)
(* integration of power starts over with the next sample.                     *)
PassBlind ==
    /\ hbUp /\ hbSaving = {} /\ hbOn /\ hbAsked /\ ~hbGrid.read
    /\ hbMgr' = IF hbMode = "power" THEN [hbMgr EXCEPT !.sample = {}] ELSE hbMgr
    /\ hbTruth' = [hbTruth EXCEPT !.sample = {}]
    /\ hbFresh' = FALSE
    /\ UNCHANGED <<hbMode, hbClock, hbGrid, hbOn, hbAsked, hbUp, hbStore, hbApplied, hbSaving,
                   hbSaved, hbUpsets>>

(* async_process in full: the hour's turn, the sum, the offset; every save    *)
(* period the pass then waits for the store, the offset already in place.     *)
Pass ==
    /\ hbUp /\ hbSaving = {} /\ hbOn /\ hbAsked /\ hbGrid.read
    /\ \E m \in {Summed(Turned(hbMgr))} :
          LET w == SteadyShift(NeededShift(m.net), m.offset)
              due == hbClock > m.save
              n == [m EXCEPT !.offset = w, !.save = IF due THEN hbClock ELSE @]
          IN  /\ hbMgr' = n
              /\ hbApplied' = w
              /\ hbSaving' = IF due THEN {w} ELSE {}
              /\ hbTruth' = TruthAfter(hbMgr)
              /\ IF due THEN Wrote(n, hbTruth') ELSE UNCHANGED <<hbStore, hbSaved>>
              /\ hbFresh' = TRUE
    /\ UNCHANGED <<hbMode, hbClock, hbGrid, hbOn, hbAsked, hbUp, hbUpsets>>

(* The store has been written and the pass ends. *)
SaveDone ==
    /\ hbSaving # {}
    /\ hbSaving' = {}
    /\ hbFresh' = FALSE
    /\ UNCHANGED <<hbMode, hbClock, hbGrid, hbOn, hbAsked, hbUp, hbMgr, hbStore, hbApplied, hbTruth, hbSaved, hbUpsets>>

HbUpset == hbUpsets < HbMaxUpsets /\ hbUpsets' = hbUpsets + 1 /\ hbFresh' = FALSE

(* The switch, or an edit of the options: OFF drops the offset at once, also *)
(* while a pass waits for its save.                                          *)
SwitchOff ==
    /\ HbUpset /\ hbOn /\ hbUp
    /\ hbOn' = FALSE
    /\ hbMgr' = Cleared /\ hbApplied' = 0
    /\ hbTruth' = [hbTruth EXCEPT !.sample = {}]
    /\ UNCHANGED <<hbMode, hbClock, hbGrid, hbAsked, hbUp, hbStore, hbSaving, hbSaved>>

SwitchOn ==
    /\ HbUpset /\ ~hbOn /\ hbUp
    /\ hbOn' = TRUE
    /\ UNCHANGED <<hbMode, hbClock, hbGrid, hbAsked, hbUp, hbMgr, hbStore, hbApplied, hbSaving, hbTruth, hbSaved>>

(* Manual mode, or the edge of a time slot. *)
AskedMoves ==
    /\ HbUpset
    /\ hbAsked' = ~hbAsked
    /\ UNCHANGED <<hbMode, hbClock, hbGrid, hbOn, hbUp, hbMgr, hbStore, hbApplied, hbSaving, hbTruth, hbSaved>>

SensorMoves ==
    /\ HbUpset
    /\ hbGrid' = [hbGrid EXCEPT !.read = ~@]
    /\ UNCHANGED <<hbMode, hbClock, hbOn, hbAsked, hbUp, hbMgr, hbStore, hbApplied, hbSaving, hbTruth, hbSaved>>

Down(saves) ==
    /\ HbUpset /\ hbUp /\ hbSaving = {}
    /\ hbUp' = FALSE
    /\ IF saves THEN Wrote(hbMgr, hbTruth) ELSE UNCHANGED <<hbStore, hbSaved>>
    /\ hbMgr' = NewMgr /\ hbApplied' = 0 /\ hbTruth' = NoTruth
    /\ UNCHANGED <<hbMode, hbClock, hbGrid, hbOn, hbAsked, hbSaving>>

(* async_unload saves; a crash does not. *)
Unload == Down(TRUE)
Crash == Down(FALSE)

(* The sums are taken over only within the hour they were written in. *)
RestoredHour ==
    IF hbStore.hour # {Hour} THEN NewMgr
    ELSE [NewMgr EXCEPT !.hour = hbStore.hour, !.net = hbStore.net, !.offset = hbStore.offset]

\* Mutant of Primed: the counter starts anew after a restart.
PrimedNot(m) == m
(* A restored sum puts the snapshot back so that the counter continues it. *)
Primed(m) ==
    IF hbMode = "counter" /\ m.hour # {} /\ hbGrid.read
    THEN [m EXCEPT !.snap = {hbGrid.total - Quot(m.net, 2)}]
    ELSE m

(* async_setup.  A counter that cannot be read now leaves the snapshot empty, *)
(* and its first reading starts the sum at 0 (the history follows it there);  *)
(* until then the sum is what was stored, and is stored again at the next stop. *)
Setup ==
    /\ ~hbUp
    /\ hbUp' = TRUE
    /\ hbMgr' = Primed(RestoredHour)
    /\ hbTruth' = IF hbSaved.hour # {Hour} THEN NoTruth
                  ELSE [net |-> hbSaved.truth.net, sample |-> {},
                        from |-> IF hbMode = "power" \/ ~hbGrid.read THEN {}
                                 ELSE {hbGrid.total - Quot(hbSaved.truth.net, 2)}]
    /\ hbFresh' = FALSE
    /\ UNCHANGED <<hbMode, hbClock, hbGrid, hbOn, hbAsked, hbStore, hbApplied, hbSaving, hbSaved, hbUpsets>>

HbNext ==
    \/ HbTick \/ PassIdle \/ PassBlind \/ Pass \/ SaveDone
    \/ SwitchOff \/ SwitchOn \/ AskedMoves \/ SensorMoves
    \/ Unload \/ Crash \/ Setup
HbSpec == HbInit /\ [][HbNext]_hbVars

-----------------------------------------------------------------------------
HbTypeOK ==
    /\ hbMode \in HbModes /\ hbClock \in 0 .. HbEnd
    /\ hbMgr.net \in Int /\ hbMgr.offset \in -HbCap .. HbCap
    /\ hbApplied \in -HbCap .. HbCap
    /\ {hbOn, hbAsked, hbUp} \subseteq BOOLEAN

(* After every complete pass the offset is the one this hour's energy calls   *)
(* for, to within the hysteresis and exactly at the end of the hour: nothing  *)
(* of an earlier hour, of a gap in the readings or of a stored hour that is   *)
(* over steers this one (hourly_balance.py:339-398, 430-456).                 *)
OffsetTracksHour ==
    hbFresh =>
        LET w == NeededShift(hbTruth.net) IN
        /\ Abs(hbApplied - w) < HbHyst
        /\ HourLeft < HbForce => hbApplied = w

(* A restart in the middle of an hour goes on with the sum the store had, and *)
(* the sum of the hour is never anything but its own energy                   *)
(* (hourly_balance.py:88-133, 354-368).                                       *)
SumSurvivesRestart == hbFresh => hbMgr.net = hbTruth.net

(* A feature switched off steers no longer, though a pass may have been       *)
(* waiting for its store at that moment (hourly_balance.py:455-463, __init__.py:3101).  *)
OffMeansOff == hbApplied # 0 => hbOn

(* The balance steers by this hour's own energy, exactly at its end, through  *)
(* restarts, and not at all when it is off (tracking/hourly_balance.py).      *)
HourBalanced ==
    /\ HbTypeOK
    /\ SumSurvivesRestart
    /\ OffsetTracksHour
    /\ OffMeansOff
=============================================================================
