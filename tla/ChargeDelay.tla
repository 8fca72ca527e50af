---------------------------- MODULE ChargeDelay ----------------------------
(***************************************************************************)
(* Charging is held back while the sun is expected to fill the batteries    *)
(* later in the day (control/charge_delay.py), and allowed for the rest of  *)
(* the day once it is released.  The hold, the daily latch, the floor to     *)
(* which every battery may charge meanwhile, and what of it survives a       *)
(* restart: the manager's store and the status sensor's restored state.      *)
(*                                                                         *)
(* Time goes in hours; a cycle and a save are much shorter, so an hour        *)
(* passes only after a cycle that did not merely wait for a forecast.        *)
(***************************************************************************)
EXTENDS Integers, FiniteSets, FiniteSetsExt

CONSTANTS
    CdBatteries,  \* the batteries under automatic control
    CdDays,       \* the kinds of day: sun still to come and price per hour, load, need, length
    CdHours,      \* hours of a day
    CdDawn,       \* hour from which the start of production is looked for
    CdFallback,   \* hour by which production must have started
    CdNoon,       \* twice the solar noon
    CdMargin,     \* hours kept in reserve before dusk
    CdLastDay,    \* bound: the last day
    CdMaxUpsets   \* bound: switches, stops and crashes

CdNone == -1
CdHour == 0..(CdHours - 1)

(* The day as the forecast and the projection see it: the sun still to come, and in an hour. *)
Remaining(d, h) == d.rest[h]
Sun(d, h) == d.rest[h] - (IF h + 1 \in CdHour THEN d.rest[h + 1] ELSE 0)

ASSUME CdAssumption ==
    /\ CdBatteries # {}      \* the config flow asks for at least one
    /\ CdHours \in Nat /\ {CdDawn, CdFallback} \subseteq 1..(CdHours - 1)
    /\ CdMargin \in Nat /\ CdNoon \in Nat /\ CdLastDay \in Nat /\ CdMaxUpsets \in Nat
    /\ \A d \in CdDays : /\ d.rest \in [CdHour -> Nat] /\ d.price \in [CdHour -> Nat] \cup {<<>>}
                          /\ {d.use, d.need, d.usable} \subseteq Nat /\ d.len \in Nat \ {0}
    (* what an hour can lose is less than the safety cushion of 30 % *)
    /\ \A d \in CdDays : \A h \in CdHour : 10 * (Sun(d, h) - d.use) <= 3 * d.need

VARIABLES
    cd,       \* the manager's fields on the controller
    cdDisk,   \* the manager's store
    cdShown,  \* the status sensor's last state, which Home Assistant restores
    cdClock,  \* day, hour, kind of day, and whether this hour was judged
    cdUp,     \* the entry is set up
    cdSaving, \* a deferred save is under way
    cdUpsets, \* how often somebody interfered
    cdOn,     \* history: the day on which the latch was released, or restored
    cdCovers  \* history: the sun covered the need when first judged today, and the hold went on

cdVars == <<cd, cdDisk, cdShown, cdClock, cdUp, cdSaving, cdUpsets, cdOn, cdCovers>>

CdFresh == [enabled |-> TRUE, unlocked |-> FALSE, reached |-> FALSE, start |-> CdNone,
            last |-> CdNone, since |-> FALSE, cache |-> CdNone, needs |-> TRUE, blocks |-> {}]

CdShown == {"idle", "disabled", "delayed", "waiting", "allowed", "skipped", "setpoint"}
CdLatch == [day: -1..CdLastDay, unlocked: BOOLEAN, reached: BOOLEAN, start: CdHour \cup {CdNone}]

CdTypeOK ==
    /\ cd \in [enabled: BOOLEAN, unlocked: BOOLEAN, reached: BOOLEAN, start: CdHour \cup {CdNone},
               last: -1..CdLastDay, since: BOOLEAN, cache: Nat \cup {CdNone}, needs: BOOLEAN,
               blocks: SUBSET CdBatteries]
    /\ cdDisk \in CdLatch
    /\ cdShown \in [day: -1..CdLastDay, state: CdShown]
    /\ cdClock \in [day: 0..CdLastDay, hour: CdHour, kind: CdDays, judged: BOOLEAN]
    /\ {cdUp, cdSaving, cdCovers} \subseteq BOOLEAN
    /\ cdUpsets \in 0..CdMaxUpsets /\ cdOn \in -1..CdLastDay

---------------------------------------------------------------------------

(* estimate_t_end(): symmetric around noon, extended while a battery charges *)
TEnd(start, h, charging) ==
    IF h > CdNoon - start /\ charging THEN h + 1 ELSE CdNoon - start
NetSolar(d, h, end) == Remaining(d, h) - d.use * (IF end > h THEN end - h ELSE 0)
Short(d, h, end, tenths) == 10 * NetSolar(d, h, end) < tenths * d.need

(* _estimate_energy_balance_unlock_h(): the last hour before the balance breaks *)
EnergyEdge(d, h, end, tenths) ==
    LET broken == {k \in h..end : k \in CdHour /\ Short(d, k, end, tenths)}
    IN IF broken = {} THEN end ELSE IF Min(broken) = h THEN h ELSE Min(broken) - 1

(* _window_avg_price(): the whole charge must lie within the known prices *)
Scored(d, len) == {h \in CdHour : h + len <= CdHours}
WindowPrice(d, h, len) == MapThenSumSet(LAMBDA k : d.price[k], h..(h + len - 1))

(* _price_optimal_release_h(): the cheapest start up to the edge, the earliest of equals *)
PriceRelease(d, h, edge, len) ==
    LET starts == {k \in Scored(d, len) : k >= h /\ k <= edge}
        cheapest == {k \in starts : \A j \in starts : WindowPrice(d, k, len) <= WindowPrice(d, j, len)}
    IN IF d.price = <<>> \/ starts = {} THEN CdNone
       ELSE IF h \in cheapest THEN h ELSE Min(cheapest)
(* _price_hold_release_h() *)
PriceHold(d, h, edge, len) == IF edge <= h THEN CdNone ELSE PriceRelease(d, h, edge, len)

(* _low_forecast_price_release(): the unavoidable import waits for the cheapest hour before the sun *)
CheapImportAhead(d, h, start) ==
    LET edge == IF start # CdNone THEN start ELSE CdFallback
    IN edge > h /\ PriceRelease(d, h, edge, 1) > h

---------------------------------------------------------------------------
(* What one cycle sees: an ordinary sample, or one thing out of the ordinary. *)
Usual == [read |-> "true", capacity |-> TRUE, power |-> TRUE, full |-> FALSE,
          charging |-> FALSE, skip |-> FALSE, soc |-> [b \in CdBatteries |-> "top"]]
CdSeen ==
    {[Usual EXCEPT !.read = r] : r \in {"none", "gap", "late", "zero", "true"}} \cup
    {[Usual EXCEPT !.soc = s] : s \in [CdBatteries -> {"low", "band", "top"}]} \cup
    {[Usual EXCEPT !.capacity = FALSE], [Usual EXCEPT !.power = FALSE], [Usual EXCEPT !.full = TRUE],
     [Usual EXCEPT !.charging = TRUE], [Usual EXCEPT !.skip = TRUE]}
(* The day as the sensor tells it: zero is taken at its word. *)
Told(x, d) ==
    IF x.read = "zero"
    THEN [rest |-> [h \in CdHour |-> 0], price |-> d.price, use |-> d.use, need |-> d.need,
          len |-> d.len, usable |-> d.usable]
    ELSE d
Value(x, d, h) == Remaining(Told(x, d), h)

(* _should_delay_charge(): what holds the charge, or why it is released *)
NeedsCharge(c, x, d, h) ==
    IF c.cache = Value(x, d, h) THEN c.needs
    ELSE d.usable + Value(x, d, h) < d.use * (CdHours - h)
(* the energy, the time and the price together *)
Weigh(d, h, end) ==
    LET backup == end - d.len - CdMargin
        edge(tenths) == Min({backup, EnergyEdge(d, h, end, tenths)})
        release == PriceHold(d, h, edge(13), d.len)
        cushion == PriceHold(d, h, edge(10), d.len)
    IN IF Short(d, h, end, 13)
            THEN IF ~Short(d, h, end, 10) /\ cushion > h THEN "delayed" ELSE "energy_balance"
       ELSE IF h + d.len + CdMargin >= end THEN "time_backup"
       ELSE IF release = CdNone \/ release > h THEN "delayed" ELSE "price_optimal"
Judge(c, x, d, h) ==
    LET end == TEnd(c.start, h, x.charging)
    IN IF c.start = CdNone THEN IF h > CdFallback THEN "no_t_start" ELSE "waiting"
       ELSE IF h >= end /\ ~x.charging THEN "past_t_end"
       ELSE IF x.full THEN "batteries_full"
       ELSE IF ~x.power THEN "no_charge_power"
       ELSE Weigh(Told(x, d), h, end)
Provisional(x, d, h) == Value(x, d, h) = 0 /\ h < 1
Decision(c, x, d, h) ==
    IF x.read \in {"none", "late"} THEN "no_forecast"
    ELSE IF x.read = "gap" \/ Provisional(x, d, h) THEN "waiting"
    ELSE IF ~x.capacity THEN "no_forecast"
    ELSE IF ~NeedsCharge(c, x, d, h) THEN Judge(c, x, d, h)
    ELSE IF CheapImportAhead(d, h, c.start) THEN "delayed"
    ELSE IF Value(x, d, h) = 0 THEN "zero_forecast" ELSE "low_forecast"
Weighed(x, d, h) == x.read \in {"zero", "true"} /\ x.capacity /\ ~Provisional(x, d, h)
Transient == {"no_forecast", "zero_forecast"}
Holds(reason) == reason \in {"waiting", "delayed"}

(* is_charge_delayed(): the setpoint phase with its hysteresis, the latch, the decision *)
Floor(c, x) ==
    LET lowest == IF \E b \in CdBatteries : x.soc[b] = "low" THEN "low"
                  ELSE IF \E b \in CdBatteries : x.soc[b] = "band" THEN "band" ELSE "top"
    IN IF c.reached THEN lowest # "low" ELSE lowest = "top"
IsChargeDelayed(c, x, d, h) ==
    IF ~c.enabled THEN [c |-> c, state |-> "disabled"]
    ELSE IF x.skip THEN [c |-> c, state |-> "skipped"]
    ELSE IF c.unlocked THEN [c |-> c, state |-> "allowed"]
    ELSE IF ~Floor(c, x) THEN [c |-> [c EXCEPT !.reached = FALSE], state |-> "setpoint"]
    ELSE LET r == Decision(c, x, d, h)
             e == [c EXCEPT !.reached = TRUE,
                            !.since = x.read \in {"gap", "late"},
                            !.cache = IF Weighed(x, d, h) THEN Value(x, d, h) ELSE @,
                            !.needs = IF Weighed(x, d, h) THEN NeedsCharge(c, x, d, h) ELSE @]
         IN [c |-> [e EXCEPT !.unlocked = ~Holds(r) /\ r \notin Transient],
             state |-> IF Holds(r) THEN r ELSE "allowed"]

(* refresh_setpoint_blocks(): while the floor is being filled, who has reached it waits *)
SetpointBlocks(c, x) ==
    IF ~c.enabled THEN c.blocks
    ELSE IF c.unlocked \/ c.reached \/ x.skip THEN {}
    ELSE {b \in CdBatteries : x.soc[b] = "top"}

(* handle_daily_reset_and_eval(): a new day starts over; the first cycle keeps what was restored *)
DailyReset(c, day) ==
    IF ~c.enabled \/ c.last = day THEN c
    ELSE [(IF c.last = CdNone THEN c
           ELSE [c EXCEPT !.unlocked = FALSE, !.reached = FALSE, !.start = CdNone, !.since = FALSE])
          EXCEPT !.last = day, !.cache = CdNone, !.needs = TRUE]
(* detect_solar_t_start() *)
DetectStart(c, d, h) ==
    IF c.enabled /\ c.start = CdNone /\ h >= CdDawn /\ Sun(d, h) > 0
    THEN [c EXCEPT !.start = h] ELSE c

InTime(c, d, h) ==
    LET end == CdNoon - c.start IN ~Short(d, h, end, 10) /\ h + d.len <= end

DelayCycle(x) ==
    LET d == cdClock.kind  h == cdClock.hour  day == cdClock.day IN
    \E c \in {DetectStart(DailyReset(cd, day), d, h)} : \E r \in {IsChargeDelayed(c, x, d, h)} :
    \E n \in {[r.c EXCEPT !.blocks = SetpointBlocks(r.c, x)]} :
        /\ cdUp
        /\ x.read # "late" \/ c.since      \* a gap outlives its grace only after it began
        /\ cd' = n
        /\ cdShown' = [day |-> day, state |-> r.state]
        /\ cdSaving' = (cdSaving \/ n.last # cd.last \/ n.unlocked # c.unlocked
                                 \/ n.reached # c.reached)
        /\ cdClock' = [cdClock EXCEPT !.judged = x.read # "gap" \/ ~Holds(r.state)]
        /\ cdOn' = IF n.unlocked /\ ~c.unlocked THEN day
                   ELSE IF n.unlocked THEN cdOn ELSE CdNone
        /\ cdCovers' =
             (/\ n.start # CdNone /\ n.start <= h /\ n.enabled /\ ~n.unlocked /\ Holds(r.state)
              /\ cdCovers \/ (r.state = "delayed" /\ x.read = "true" /\ InTime(n, d, h)))
        /\ UNCHANGED <<cdDisk, cdUp, cdUpsets>>

(* _deferred_save() -> _save_state() *)
DelayKept(c, day) == [day |-> day, unlocked |-> c.unlocked, reached |-> c.reached, start |-> c.start]
SaveLands ==
    /\ cdUp /\ cdSaving
    /\ cdSaving' = FALSE
    /\ cdDisk' = DelayKept(cd, cdClock.day)
    /\ UNCHANGED <<cd, cdShown, cdClock, cdUp, cdUpsets, cdOn, cdCovers>>

(* an hour passes; the first hour of a day brings another kind of day *)
HourPasses ==
    /\ cdUp => cdClock.judged /\ ~cdSaving
    /\ \/ /\ cdClock.hour < CdHours - 1
          /\ cdClock' = [cdClock EXCEPT !.hour = @ + 1, !.judged = FALSE]
          /\ UNCHANGED cdCovers
       \/ /\ cdClock.hour = CdHours - 1 /\ cdClock.day < CdLastDay
          /\ \E k \in CdDays :
                cdClock' = [day |-> cdClock.day + 1, hour |-> 0, kind |-> k, judged |-> FALSE]
          /\ cdCovers' = FALSE
    /\ UNCHANGED <<cd, cdDisk, cdShown, cdUp, cdSaving, cdUpsets, cdOn>>

CdUpset == cdUpsets < CdMaxUpsets /\ cdUpsets' = cdUpsets + 1

(* ChargeDelaySwitch: on starts the day afresh, off keeps the latch and the blocks *)
DelaySwitch ==
    /\ cdUp /\ CdUpset
    /\ cd' = IF cd.enabled THEN [cd EXCEPT !.enabled = FALSE]
             ELSE [cd EXCEPT !.enabled = TRUE, !.unlocked = FALSE, !.reached = FALSE, !.since = FALSE]
    /\ cdSaving' = (cdSaving \/ ~cd.enabled)
    /\ cdShown' = [day |-> cdClock.day, state |-> IF cd.enabled THEN "disabled" ELSE "idle"]
    /\ cdCovers' = FALSE /\ cdOn' = IF cd.enabled THEN cdOn ELSE CdNone
    /\ cdClock' = [cdClock EXCEPT !.judged = FALSE]
    /\ UNCHANGED <<cdDisk, cdUp>>

(* async_flush_state() on the way out, once this hour was seen; a crash saves nothing *)
DelayStop(flushes) ==
    /\ cdUp /\ CdUpset /\ (flushes => cdClock.judged)
    /\ cdUp' = FALSE /\ cdSaving' = FALSE
    /\ cdDisk' = IF flushes /\ cd.enabled THEN DelayKept(cd, cdClock.day) ELSE cdDisk
    /\ cd' = [CdFresh EXCEPT !.enabled = cd.enabled]
    /\ cdCovers' = FALSE
    /\ UNCHANGED <<cdShown, cdClock, cdOn>>

\* Mutant of Loaded: the stored date is not compared.
LoadedAnyDay(c) ==
    IF c.enabled
    THEN [c EXCEPT !.unlocked = cdDisk.unlocked, !.reached = cdDisk.reached, !.start = cdDisk.start]
    ELSE c
(* load_state(), then ChargeDelaySensor.async_added_to_hass(): only what is of today *)
Loaded(c) ==
    IF c.enabled /\ cdDisk.day = cdClock.day
    THEN [c EXCEPT !.unlocked = cdDisk.unlocked, !.reached = cdDisk.reached, !.start = cdDisk.start]
    ELSE c
Restored(c) ==
    IF cdShown.day = cdClock.day
    THEN [c EXCEPT !.reached = @ \/ cdShown.state \in {"delayed", "waiting", "allowed"},
                   !.unlocked = @ \/ cdShown.state = "allowed"]
    ELSE c
DelaySetUp ==
    /\ ~cdUp /\ cdUp' = TRUE
    /\ cd' = Restored(Loaded(cd))
    /\ cdOn' = IF cd'.unlocked THEN (IF cdOn = CdNone THEN cdClock.day ELSE cdOn) ELSE CdNone
    /\ cdClock' = [cdClock EXCEPT !.judged = FALSE]
    /\ UNCHANGED <<cdDisk, cdShown, cdSaving, cdUpsets, cdCovers>>

CdInit ==
    /\ cd = CdFresh /\ cdUp = TRUE /\ cdSaving = FALSE /\ cdUpsets = 0
    /\ cdDisk = [day |-> CdNone, unlocked |-> FALSE, reached |-> FALSE, start |-> CdNone]
    /\ cdShown = [day |-> CdNone, state |-> "idle"]
    /\ cdClock \in [day: {0}, hour: {0}, kind: CdDays, judged: {FALSE}]
    /\ cdOn = CdNone /\ cdCovers = FALSE

CdNext ==
    \/ \E x \in CdSeen : DelayCycle(x)
    \/ SaveLands \/ HourPasses \/ DelaySwitch \/ DelaySetUp
    \/ \E flushes \in BOOLEAN : DelayStop(flushes)
CdSpec == CdInit /\ [][CdNext]_cdVars

---------------------------------------------------------------------------
(* Holding costs nothing but time: on a day whose remaining sun covered the  *)
(* need when it was first judged after production began, and on which the     *)
(* charge was held ever since, it is released while the sun still covers the  *)
(* need and the charge still fits before dusk, whatever cheaper hour the      *)
(* release waited for (charge_delay.py:743-940).                              *)
HoldKeepsTarget ==
    [][cdCovers /\ cd'.unlocked /\ ~cd.unlocked
       => InTime(cd', cdClock.kind, cdClock.hour)]_cdVars

(* No hold outlasts the sun: once production has ended a judged hour is not   *)
(* held, whether the batteries filled, the forecast was wrong or a cheaper    *)
(* hour was awaited.  (Before the start of production on record it may be:    *)
(* switched off and on again just after midnight the delay keeps yesterday's   *)
(* start, which may lie after the noon it is mirrored at.)                     *)
DelayEndsByDusk ==
    cdUp /\ cdClock.judged /\ cdShown.state = "delayed"
    => IF cd.start = CdNone THEN cdClock.hour <= CdFallback
       ELSE cdClock.hour < cd.start \/ cdClock.hour < CdNoon - cd.start

(* A release lasts for its day: a latch in force was released today, through  *)
(* midnight, restarts, and reloads that restore it from the store or from     *)
(* the sensor's last state.                                                  *)
UnlockEndsWithDay ==
    cdUp /\ cdClock.judged /\ cd.enabled /\ cd.unlocked => cdOn = cdClock.day

(* The floor never blocks everyone: while the batteries fill up to the        *)
(* setpoint some battery may charge, whatever their charges do around it.     *)
FloorLeavesOne == cd.blocks # CdBatteries

(* The delay ends with the sun, its release with the day, and it never holds  *)
(* every battery back while the setpoint is being filled (charge_delay.py).   *)
DelaySound ==
    /\ CdTypeOK
    /\ DelayEndsByDusk
    /\ UnlockEndsWithDay
    /\ FloorLeavesOne
=============================================================================
