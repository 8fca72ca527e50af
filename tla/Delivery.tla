------------------------------ MODULE Delivery ------------------------------
(***************************************************************************)
(* One battery as the charge/discharge controller commands it, judges its  *)
(* delivery, nudges it awake and, in the end, excludes it from the pool:   *)
(* _set_battery_power, _check_non_delivery and _attempt_wake of            *)
(* ChargeDischargeController (__init__.py) over the bookkeeping of         *)
(* NonResponsiveTracker (tracking/non_responsive_tracker.py).              *)
(*                                                                         *)
(* All of that state is kept in dictionaries keyed by the battery and no   *)
(* entry reads another battery's, so one battery is modelled.  Cycles and  *)
(* the manual handoff run under the controller's lock, so one call of a    *)
(* handler is one step; what the device answers during the call is chosen  *)
(* by \E.  (A direction switch stops its battery without the lock; its     *)
(* idle write is a DirectCycle here.)                                      *)
(*                                                                         *)
(* Timestamps are ages in ticks that stop growing once every comparison    *)
(* with them is settled; None stands for an absent timestamp.  Power is a  *)
(* signed level: + charge, - discharge, magnitude 2 when the command is    *)
(* at least 100 W (only those are judged), 1 below, 0 idle.                *)
(***************************************************************************)
EXTENDS Integers

CONSTANTS
    FailThreshold,   \* failed cycles before the tracker acts (3)
    Cooldown,        \* ticks an exclusion lasts (5 min)
    RepairAfter,     \* ticks of a degraded spell before a Repair (30 min)
    EngageGrace,     \* ticks granted after a direction flip (30 s)
    RampGrace,       \* ticks granted after a flip to idle (15 s)
    TaperGrace,      \* ticks granted to the top-of-charge tail (45 min)
    ReadbackEvery,   \* a readback every N-th real write (5)
    HotPath,         \* the driver reads set-points back fast enough
    HasRs485,        \* the driver has an RS485 control register
    Bodies,          \* device behaviours the environment picks from
    Socs,            \* state-of-charge classes it picks from
    Acks             \* whether a write pair can succeed, fail, or both

AllBodies == {"follows", "stalled", "runaway", "blind", "gone"}
AllSocs == {"low", "mid", "tail", "full"}

ASSUME TimingAssumption ==
    /\ {FailThreshold, Cooldown, RepairAfter, EngageGrace, RampGrace,
        TaperGrace, ReadbackEvery} \subseteq Nat \ {0}
ASSUME DriverAssumption == HotPath \in BOOLEAN /\ HasRs485 \in BOOLEAN
ASSUME DeviceAssumption ==
    /\ Bodies \subseteq AllBodies /\ "follows" \in Bodies
    /\ Socs \subseteq AllSocs /\ "mid" \in Socs
    /\ Acks \subseteq BOOLEAN /\ TRUE \in Acks

VARIABLES
    tr,      \* the tracker's entry for the battery
    bk,      \* the controller's per-battery engage/taper/runaway bookkeeping
    cmd,     \* commanded_charge_power / commanded_discharge_power
    want,    \* the last command a caller asked for (recovery writes excluded)
    manual,  \* battery_manual_mode_enabled
    body,    \* how the device answers commands now
    soc      \* its state of charge, in the classes the judgement tells apart

vars == <<tr, bk, cmd, want, manual, body, soc>>
ctrl == <<tr, bk, cmd, want, manual>>

None == -1
Levels == -2 .. 2
Reasons == {"none", "charge", "discharge", "comm"}
NestedWrites == {"skipped", "acked", "failed"}
StampMax == IF EngageGrace > RampGrace THEN EngageGrace ELSE RampGrace

Sign(n) == IF n > 0 THEN 1 ELSE IF n < 0 THEN -1 ELSE 0
Hard(n) == n \in {-2, 2}
Within(age, grace) == age # None /\ age < grace
Older(age, most) == IF age = None \/ age >= most THEN age ELSE age + 1

\* The sensors' view: is power flowing the way the command asks for, is the
\* delivered power known at all, does the weekly manager call the battery full.
Delivers(net) == body = "follows" \/ (body = "runaway" /\ net < 0)
Known == body # "blind"
Full == soc = "full" /\ ~manual

-----------------------------------------------------------------------------
(* NonResponsiveTracker *)

Entry(fails, excluded, wakeUsed, degraded, reason, repair) ==
    [fails |-> fails, excluded |-> excluded, wakeUsed |-> wakeUsed,
     degraded |-> degraded, reason |-> reason, repair |-> repair]

FreshTracker == Entry(0, None, FALSE, None, "none", FALSE)

\* clear(): the battery delivers, or is exempt; the spell is over.
Clear(t) == Entry(0, None, FALSE, None, "none", t.repair)

\* clear(delivering=False): a new episode in the same degraded spell.
NewEpisode(t) == Entry(0, None, FALSE, t.degraded, "none", t.repair)

\* _record_fail() at the threshold excludes; the spell may be older.
Exclude(t, fails, why) ==
    Entry(fails, 0, t.wakeUsed, IF t.degraded = None THEN 0 ELSE t.degraded,
          why, t.repair)

\* One more failure; the count stops at the threshold, above which it is only
\* compared while the battery is already excluded.
OneMore(t) == IF t.fails < FailThreshold THEN t.fails + 1 ELSE t.fails
Crosses(t) == t.fails + 1 >= FailThreshold /\ t.excluded = None
Count(t, why) ==
    Entry(OneMore(t), t.excluded, t.wakeUsed, t.degraded, why, t.repair)

\* record_non_delivery(): the first crossing of an episode is the grace round,
\* which wakes the battery instead of excluding it.
GraceRound(t) == Crosses(t) /\ ~t.wakeUsed
RecordNonDelivery(t, why) ==
    IF GraceRound(t) THEN Entry(0, None, TRUE, t.degraded, why, t.repair)
    ELSE IF Crosses(t) THEN Exclude(t, OneMore(t), why)
    ELSE Count(t, why)

\* record_comm_failure(): no grace.
RecordCommFailure(t) ==
    IF Crosses(t) THEN Exclude(t, OneMore(t), "comm") ELSE Count(t, "comm")

\* Mutated: the retry after a cooldown starts with the old count.
ExpireKeepsFails(t) ==
    IF t.excluded >= Cooldown
    THEN Entry(t.fails, None, FALSE, t.degraded, t.reason, t.repair)
    ELSE t

\* is_excluded(): asking is what ends an elapsed cooldown.
Expire(t) ==
    IF t.excluded >= Cooldown
    THEN Entry(0, None, FALSE, t.degraded, t.reason, t.repair)
    ELSE t

\* update_repairs(): raised exactly while the spell is old enough.
UpdateRepairs(t) ==
    Entry(t.fails, t.excluded, t.wakeUsed, t.degraded, t.reason,
          t.degraded >= RepairAfter)

\* The start of _run_control_cycle: forgive a full battery its charge-side
\* failures, then raise or resolve the Repair.
Prologue(t) ==
    UpdateRepairs(IF Full /\ t.reason = "charge" THEN Clear(t) ELSE t)

-----------------------------------------------------------------------------
(* _set_battery_power and what it calls.  A call's state is the record     *)
(* [tr, bk, cmd].                                                          *)

Book(last, stamp, taper, handled, writes) ==
    [last |-> last, stamp |-> stamp, taper |-> taper, handled |-> handled,
     writes |-> writes]

\* _reset_battery_ownership_state(); the write cadence lives on.
OwnershipReset(b) == Book(0, None, None, FALSE, b.writes)

Call == [tr |-> tr, bk |-> bk, cmd |-> cmd]

\* Mutated: a flip counts as a recovery.
FlipTrackerForgives(t, sign) == IF sign # 0 THEN Clear(t) ELSE t

\* A move in a new direction resets the episode; it proves nothing about
\* delivery, so the degraded spell goes on.
FlipTracker(t, sign) == IF sign # 0 THEN NewEpisode(t) ELSE t

\* Engage bookkeeping: a move in a new direction restarts the grace and the
\* episode (never the degraded spell), a flip to idle starts the ramp-down.
\* One stamp serves both directions and idle: each is stamped on the flip that
\* makes it current, and only the current one is read.
Engage(s, net) ==
    LET sign == Sign(net)
        flips == sign # s.bk.last
    IN  [tr  |-> IF flips THEN FlipTracker(s.tr, sign) ELSE s.tr,
         bk  |-> Book(sign,
                      IF flips THEN 0 ELSE s.bk.stamp,
                      IF flips /\ sign = 1 THEN None ELSE s.bk.taper,
                      s.bk.handled /\ sign = 0,
                      s.bk.writes),
         cmd |-> net]

WithTracker(s, t) == [s EXCEPT !.tr = t]
WithTaper(s, age) == [s EXCEPT !.bk.taper = age]
MarkHandled(s) == [s EXCEPT !.bk.handled = TRUE]
UnmarkHandled(s) == [s EXCEPT !.bk.handled = FALSE]
Idle(s) == [s EXCEPT !.cmd = 0]
Written(s) == [s EXCEPT !.bk.writes = (@ + 1) % ReadbackEvery]
CommFailed(s) == WithTracker(s, RecordCommFailure(s.tr))

\* Mutated: the recovery's standby write counts as a flip to idle.
StandbyWriteEndsEpisode(s, nested) ==
    IF nested = "skipped" THEN s
    ELSE LET w == Engage(Written(s), 0)
         IN  IF nested = "acked" THEN w ELSE CommFailed(w)

\* The recovery's own standby write: a forced 0 W that leaves the direction
\* bookkeeping alone (preserve_non_responsive_episode).
StandbyWrite(s, nested) ==
    IF nested = "skipped" THEN s
    ELSE LET w == Idle(Written(s))
         IN  IF nested = "acked" THEN w ELSE CommFailed(w)

\* _attempt_wake(): reconnect or re-assert RS485, then pin standby.  What the
\* device does of it shows in `nested` and in later choices of body.
AttemptWake(s, nested) ==
    IF manual \/ ~HasRs485 THEN s ELSE StandbyWrite(s, nested)

\* The battery is exempt from judgement: charging through the top-of-charge
\* tail, or discharging in the range where the BMS may cut it off.
TaperAge(s) == IF s.bk.taper = None THEN 0 ELSE s.bk.taper
Tapering(net) == net > 0 /\ soc \in {"tail", "full"} /\ ~Full
Exempt(s, net) ==
    \/ net > 0 /\ Full
    \/ Tapering(net) /\ TaperAge(s) < TaperGrace
    \/ net < 0 /\ soc = "low"

\* The taper clock after a judgement past the engage grace.
TaperClock(s, net) ==
    IF net < 0 THEN s.bk.taper
    ELSE IF Tapering(net) THEN TaperAge(s) ELSE None

Side(net) == IF net > 0 THEN "charge" ELSE "discharge"

\* _check_non_delivery(): a hard command and the power seen under it.
Judge(s, net, nested) ==
    LET judged == WithTaper(s, TaperClock(s, net))
        failed == WithTracker(judged, RecordNonDelivery(s.tr, Side(net)))
    IN  IF Delivers(net) THEN WithTracker(WithTaper(s, None), Clear(s.tr))
        ELSE IF Within(s.bk.stamp, EngageGrace) THEN s
        ELSE IF Exempt(s, net) THEN WithTracker(judged, Clear(s.tr))
        ELSE IF GraceRound(s.tr) THEN AttemptWake(failed, nested)
        ELSE failed

\* The write itself, with its one retry: `ack` says whether either attempt
\* went through.  A readback cycle judges what it reads.
Write(s, net, ack, nested) ==
    LET readBack == HotPath /\ s.bk.writes = 0
        w == Written(s)
    IN  IF ~ack THEN CommFailed(w)
        ELSE IF readBack /\ Hard(net) /\ Known THEN Judge(w, net, nested)
        ELSE w

\* Commanded idle, set-points idle, and the battery exports on its own.
RunningAway(s) ==
    body = "runaway" /\ ~Within(s.bk.stamp, RampGrace)

\* A matching set-point is judged when the write is skipped, and always for a
\* slow actuator, which no readback will judge.
JudgedAtPoll(net) == Known /\ (Delivers(net) \/ ~HotPath)

\* The polled set-points already match: skip the write if the battery also
\* does what they say, else re-assert; a slow actuator is judged here.
Matching(s, net, ack, nested) ==
    LET judged == IF JudgedAtPoll(net) THEN Judge(s, net, nested) ELSE s
    IN  IF net = 0 /\ ~RunningAway(s) THEN UnmarkHandled(s)
        ELSE IF net = 0 /\ HasRs485 /\ ~s.bk.handled
             THEN AttemptWake(MarkHandled(s), nested)
        ELSE IF Hard(net) /\ Delivers(net) THEN judged
        ELSE IF Hard(net) THEN Write(judged, net, ack, nested)
        ELSE IF net = 0 THEN Write(s, net, ack, nested)
        ELSE s

\* _set_battery_power() past its ownership and reachability gates.
SetPower(s, net, matches, force, ack, nested) ==
    LET e == Engage(s, net)
    IN  IF matches /\ ~force
        THEN Matching(e, net, ack, nested)
        ELSE Write(e, net, ack, nested)

Apply(s) == tr' = s.tr /\ bk' = s.bk /\ cmd' = s.cmd

-----------------------------------------------------------------------------
(* The steps *)

Init ==
    /\ tr = FreshTracker /\ bk = Book(0, None, None, FALSE, 0)
    /\ cmd = 0 /\ want = 0 /\ manual = FALSE
    /\ body = "follows" /\ soc = "mid"

\* A cycle that returns before it commands this battery.
QuietCycle ==
    /\ tr' = Prologue(tr)
    /\ UNCHANGED <<bk, cmd, want, manual, body, soc>>

\* A cycle that commands it with the pool: only a battery that is neither
\* excluded nor, for a charge, full is offered power; every other gets 0 W.
CommandCycle(net, matches) ==
    LET offered == Expire(Prologue(tr))
    IN  /\ ~manual /\ body # "gone"
        /\ net # 0 => offered.excluded = None
        /\ net > 0 => ~Full
        /\ want' = net
        /\ UNCHANGED <<manual, body, soc>>
        /\ \E ack \in Acks, nested \in NestedWrites :
              Apply(SetPower(WithTracker(Call, offered), net, matches, FALSE,
                             ack, nested))

\* A cycle that commands it past the pool's exclusion gate: the software
\* manual set-points and the phase-safety clamp of standing commands.
DirectCycle(net) ==
    /\ body # "gone"
    /\ net = 0 => ~manual
    /\ \E matches \in BOOLEAN, ack \in Acks, nested \in NestedWrites :
          Apply(SetPower(WithTracker(Call, Prologue(tr)), net, matches, FALSE,
                         ack, nested))
    /\ want' = net
    /\ UNCHANGED <<manual, body, soc>>

\* A sensor or planner reads is_excluded() between cycles.
ReadExclusion ==
    /\ tr' = Expire(tr)
    /\ UNCHANGED <<bk, cmd, want, manual, body, soc>>

\* _set_battery_manual_mode(True): ownership first, then the idle write.
ManualOn ==
    /\ ~manual
    /\ manual' = TRUE
    /\ want' = 0
    /\ LET owned == [tr |-> tr, bk |-> OwnershipReset(bk), cmd |-> cmd]
       IN  IF body = "gone" THEN Apply(owned)
           ELSE \E ack \in Acks : Apply(SetPower(owned, 0, FALSE, TRUE, ack,
                                                 "skipped"))
    /\ UNCHANGED <<body, soc>>

\* _set_battery_manual_mode(False): ownership ends only after a good idle
\* write; a failed one leaves the battery manual.
ManualOff ==
    /\ manual
    /\ body # "gone"
    /\ want' = 0
    /\ \E ack \in Acks :
         LET s == SetPower(Call, 0, FALSE, TRUE, ack, "skipped")
         IN  /\ tr' = s.tr /\ cmd' = s.cmd
             /\ bk' = IF ack THEN OwnershipReset(s.bk) ELSE s.bk
             /\ manual' = ~ack
    /\ UNCHANGED <<body, soc>>

BodyChanges ==
    /\ \E b \in Bodies \ {body} : body' = b
    /\ UNCHANGED <<ctrl, soc>>

SocChanges ==
    /\ \E c \in Socs \ {soc} : soc' = c
    /\ UNCHANGED <<ctrl, body>>

Tick ==
    /\ tr' = Entry(tr.fails, Older(tr.excluded, Cooldown), tr.wakeUsed,
                   Older(tr.degraded, RepairAfter), tr.reason, tr.repair)
    /\ bk' = Book(bk.last, Older(bk.stamp, StampMax),
                  Older(bk.taper, TaperGrace), bk.handled, bk.writes)
    /\ UNCHANGED <<cmd, want, manual, body, soc>>

Commanded == \E net \in Levels, matches \in BOOLEAN : CommandCycle(net, matches)

Cycle ==
    \/ QuietCycle
    \/ Commanded
    \/ \E net \in Levels : DirectCycle(net)

Next ==
    \/ Cycle
    \/ ReadExclusion
    \/ ManualOn \/ ManualOff
    \/ BodyChanges \/ SocChanges
    \/ Tick

Spec == Init /\ [][Next]_vars

\* The scheduler's timer keeps running cycles, the pool keeps being commanded
\* while it can be, and time passes.
FairSpec == Spec /\ WF_vars(Tick) /\ WF_vars(QuietCycle) /\ WF_vars(Commanded)

-----------------------------------------------------------------------------
(* Properties *)

Ages(most) == None .. most

TypeOK ==
    /\ tr \in [fails : 0 .. FailThreshold, excluded : Ages(Cooldown),
               wakeUsed : BOOLEAN, degraded : Ages(RepairAfter),
               reason : Reasons, repair : BOOLEAN]
    /\ bk \in [last : {-1, 0, 1}, stamp : Ages(StampMax),
               taper : Ages(TaperGrace), handled : BOOLEAN,
               writes : 0 .. ReadbackEvery - 1]
    /\ cmd \in Levels /\ want \in Levels /\ manual \in BOOLEAN
    /\ body \in AllBodies /\ soc \in AllSocs

\* The failures counted against a battery in motion belong to the direction it
\* is moved in now and were seen after that direction's engage grace: no count
\* survives a direction flip in _set_battery_power to exclude the battery for
\* what it did not do the other way.
FailuresMatchDirection ==
    (tr.fails > 0 /\ tr.excluded = None /\ bk.last # 0) =>
        /\ tr.reason = "charge" => bk.last = 1
        /\ tr.reason = "discharge" => bk.last = -1
        /\ tr.reason \in {"charge", "discharge"} => bk.stamp >= EngageGrace

\* A battery back in the pool has its whole failure budget again: below the
\* threshold unless excluded, and an exclusion always has a spell at least as
\* old behind it, which is what the Repair is timed from.
ExclusionAccountedFor ==
    /\ tr.excluded = None => tr.fails < FailThreshold
    /\ tr.excluded # None =>
          /\ tr.degraded >= tr.excluded \/ tr.degraded = RepairAfter
          /\ tr.reason # "none"

\* Nothing but power seen flowing the way the battery is commanded, or the BMS
\* protecting itself at either end of the SOC range, ends or restarts the
\* degraded spell: not a direction flip, not an expired cooldown, not a
\* handoff to or from manual mode.
SpellEndsOnlyByRecovery ==
    [][ (tr.degraded # None /\ tr'.degraded < tr.degraded)
          => \/ Hard(want') /\ Delivers(want')
             \/ want' = -2 /\ soc = "low"
             \/ want' = 2 /\ soc \in {"tail", "full"}
             \/ Full ]_vars

\* A battery that is asked for the same hard command for ever and delivers
\* nothing does not stay in the pool for ever: the wake nudge's own standby
\* write, the grace periods and comm failures in between cannot keep resetting
\* the count that excludes it.
StalledIsExcluded ==
    \A net \in {-2, 2} :
        ~<>[](body = "stalled" /\ soc = "mid" /\ ~manual /\ want = net
              /\ tr.excluded = None)

\* A spell that lasts is surfaced as a Repair, and the Repair of a spell that
\* is over for good is resolved.
RepairFollowsSpell ==
    /\ <>[](tr.degraded # None) => <>[](tr.repair)
    /\ <>[](tr.degraded = None) => <>[](~tr.repair)

\* What is held against a battery is justified: each count belongs to what the
\* battery is asked now, each exclusion to a spent budget and a spell
\* (non_responsive_tracker.py, _set_battery_power).
FailuresAccountedFor ==
    /\ TypeOK
    /\ FailuresMatchDirection
    /\ ExclusionAccountedFor

\* A battery that does not deliver is dealt with in the end: left out of the
\* pool, and its lasting spell surfaced and resolved as a Repair.
FaultSurfaces == StalledIsExcluded /\ RepairFollowsSpell
=============================================================================
