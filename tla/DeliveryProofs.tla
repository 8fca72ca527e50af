--------------------------- MODULE DeliveryProofs ---------------------------
(* The power command from the shares to the driver: Delivery's invariants   *)
(* for every threshold, grace period, cooldown, driver capability and       *)
(* device behaviour, and PowerShare's for every house: any batteries, any   *)
(* wiring to the phases, fuses, limits, prices of charge and requests.      *)
EXTENDS Delivery, PowerShare, WellFoundedInduction, SequenceTheorems, FiniteSetTheorems, TLAPS

Trackers ==
    [fails : 0 .. FailThreshold, excluded : Ages(Cooldown),
     wakeUsed : BOOLEAN, degraded : Ages(RepairAfter),
     reason : Reasons, repair : BOOLEAN]
Books ==
    [last : {-1, 0, 1}, stamp : Ages(StampMax), taper : Ages(TaperGrace),
     handled : BOOLEAN, writes : 0 .. ReadbackEvery - 1]
Calls == [tr : Trackers, bk : Books, cmd : Levels]

\* The invariants as predicates on one call's tracker and bookkeeping.
Accounted(t) ==
    /\ t.excluded = None => t.fails < FailThreshold
    /\ t.excluded # None =>
          /\ t.degraded >= t.excluded \/ t.degraded = RepairAfter
          /\ t.reason # "none"
Matched(t, b) ==
    (t.fails > 0 /\ t.excluded = None /\ b.last # 0) =>
        /\ t.reason = "charge" => b.last = 1
        /\ t.reason = "discharge" => b.last = -1
        /\ t.reason \in {"charge", "discharge"} => b.stamp >= EngageGrace
Stamped(b) == b.last # 0 => b.stamp >= 0

Sound(s) ==
    /\ s \in Calls
    /\ Accounted(s.tr) /\ Matched(s.tr, s.bk) /\ Stamped(s.bk)

-----------------------------------------------------------------------------
\* The constants as numbers, for the arithmetic of the leaves.
LEMMA Numbers ==
    /\ FailThreshold \in Nat /\ FailThreshold > 0
    /\ Cooldown \in Nat /\ Cooldown > 0
    /\ RepairAfter \in Nat /\ RepairAfter > 0
    /\ EngageGrace \in Nat /\ EngageGrace > 0
    /\ RampGrace \in Nat /\ RampGrace > 0
    /\ TaperGrace \in Nat /\ TaperGrace > 0
    /\ ReadbackEvery \in Nat /\ ReadbackEvery > 0
    /\ StampMax \in Nat /\ StampMax > 0 /\ StampMax >= EngageGrace
BY TimingAssumption DEF StampMax

\* clear(), with or without a delivery, leaves nothing counted.
LEMMA ClearSound ==
    ASSUME NEW t \in Trackers
    PROVE  /\ Clear(t) \in Trackers /\ Accounted(Clear(t))
           /\ Clear(t).fails = 0 /\ Clear(t).degraded = None
           /\ NewEpisode(t) \in Trackers /\ Accounted(NewEpisode(t))
           /\ NewEpisode(t).fails = 0 /\ NewEpisode(t).degraded = t.degraded
BY Numbers DEF Clear, NewEpisode, Entry, Trackers, Accounted, Ages, None,
               Reasons

\* One more failure that does not cross the threshold.
LEMMA CountSound ==
    ASSUME NEW t \in Trackers, Accounted(t), ~Crosses(t),
           NEW why \in Reasons \ {"none"}
    PROVE  /\ Count(t, why) \in Trackers /\ Accounted(Count(t, why))
           /\ Count(t, why).reason = why
           /\ Count(t, why).degraded = t.degraded
BY Numbers DEF Count, OneMore, Crosses, Entry, Trackers, Accounted, Ages, None,
               Reasons

\* An exclusion opens a spell unless one is running.
LEMMA ExcludeSound ==
    ASSUME NEW t \in Trackers, Accounted(t), Crosses(t),
           NEW why \in Reasons \ {"none"}
    PROVE  LET r == Exclude(t, OneMore(t), why)
           IN  /\ r \in Trackers /\ Accounted(r) /\ r.reason = why
               /\ r.degraded >= t.degraded /\ r.excluded # None
BY Numbers DEF Exclude, OneMore, Crosses, Entry, Trackers, Accounted, Ages,
               None, Reasons

\* _record_fail() in both its uses keeps the tracker accounted for.
LEMMA RecordSound ==
    ASSUME NEW t \in Trackers, Accounted(t)
    PROVE  /\ \A why \in {"charge", "discharge"} :
                 LET r == RecordNonDelivery(t, why)
                 IN  /\ r \in Trackers /\ Accounted(r) /\ r.reason = why
                     /\ r.degraded >= t.degraded
           /\ LET r == RecordCommFailure(t)
              IN  /\ r \in Trackers /\ Accounted(r) /\ r.reason = "comm"
                  /\ r.degraded >= t.degraded
<1>0. /\ t.degraded \in Int
      /\ \A w \in {"charge", "discharge", "comm"} : w \in Reasons \ {"none"}
  BY Numbers DEF Trackers, Ages, None, Reasons
<1>1. ASSUME NEW why \in {"charge", "discharge"}
      PROVE  LET r == RecordNonDelivery(t, why)
             IN  /\ r \in Trackers /\ Accounted(r) /\ r.reason = why
                 /\ r.degraded >= t.degraded
  <2>1. CASE GraceRound(t)
    BY <2>1, Numbers DEF RecordNonDelivery, Entry, Trackers, Accounted, Ages,
                         None, Reasons
  <2>2. CASE ~GraceRound(t) /\ Crosses(t)
    BY <2>2, <1>0, ExcludeSound DEF RecordNonDelivery
  <2>3. CASE ~GraceRound(t) /\ ~Crosses(t)
    BY <2>3, <1>0, CountSound DEF RecordNonDelivery
  <2> QED BY <2>1, <2>2, <2>3
<1>2. LET r == RecordCommFailure(t)
      IN  /\ r \in Trackers /\ Accounted(r) /\ r.reason = "comm"
          /\ r.degraded >= t.degraded
  BY <1>0, ExcludeSound, CountSound DEF RecordCommFailure
<1> QED BY <1>1, <1>2

\* is_excluded() and the cycle's prologue keep both, and only ever forget.
LEMMA ExpireSound ==
    ASSUME NEW t \in Trackers, Accounted(t)
    PROVE  /\ Expire(t) \in Trackers /\ Accounted(Expire(t))
           /\ (Expire(t) = t \/ Expire(t).fails = 0)
           /\ Expire(t).degraded = t.degraded
BY Numbers DEF Expire, Entry, Trackers, Accounted, Ages, None, Reasons

\* The repair notice touches nothing but itself and keeps the accounts.
LEMMA UpdateRepairsSound ==
    ASSUME NEW t \in Trackers, Accounted(t)
    PROVE  LET p == UpdateRepairs(t)
           IN  /\ p \in Trackers /\ Accounted(p)
               /\ p.fails = t.fails /\ p.reason = t.reason
               /\ p.excluded = t.excluded /\ p.degraded = t.degraded
BY Numbers DEF UpdateRepairs, Entry, Trackers, Accounted, Ages, None, Reasons

\* What a command does before it is written keeps the accounts; failures go only with the exclusion they led to.
LEMMA PrologueSound ==
    ASSUME NEW t \in Trackers, Accounted(t)
    PROVE  LET p == Prologue(t)
           IN  /\ p \in Trackers /\ Accounted(p)
               /\ \/ p.fails = 0
                  \/ /\ p.fails = t.fails /\ p.reason = t.reason
                     /\ p.excluded = t.excluded
               /\ p.degraded = t.degraded \/ Full
<1>1. CASE Full /\ t.reason = "charge"
  <2>1. /\ Clear(t) \in Trackers /\ Accounted(Clear(t))
        /\ Clear(t).fails = 0
    BY ClearSound
  <2> QED BY <1>1, <2>1, UpdateRepairsSound DEF Prologue
<1>2. CASE ~(Full /\ t.reason = "charge")
  BY <1>2, UpdateRepairsSound DEF Prologue
<1> QED BY <1>1, <1>2

-----------------------------------------------------------------------------
\* r is a sound call whose spell is at least as old as s's.
Keeps(s, r) == Sound(r) /\ r.tr.degraded >= s.tr.degraded

\* What may end a spell when the battery is asked for net.
Recovered(net) ==
    \/ Hard(net) /\ Delivers(net)
    \/ net = -2 /\ soc = "low"
    \/ net = 2 /\ soc \in {"tail", "full"}

\* The fields of a sound call, for the leaves that rebuild one.
LEMMA CallFields ==
    ASSUME NEW s, Sound(s)
    PROVE  /\ s.tr \in Trackers /\ s.bk \in Books /\ s.cmd \in Levels
           /\ s.tr.degraded \in Int /\ s.tr.fails \in Int
           /\ s.bk.last \in {-1, 0, 1} /\ s.bk.stamp \in Ages(StampMax)
           /\ s.bk.taper \in Ages(TaperGrace) /\ s.bk.handled \in BOOLEAN
           /\ s.bk.writes \in 0 .. ReadbackEvery - 1
BY Numbers DEF Sound, Calls, Trackers, Books, Ages, None

\* Replacing the tracker.
LEMMA TrackerSound ==
    ASSUME NEW s, Sound(s), NEW t \in Trackers, Accounted(t), Matched(t, s.bk)
    PROVE  /\ Sound(WithTracker(s, t))
           /\ WithTracker(s, t).tr = t /\ WithTracker(s, t).bk = s.bk
BY DEF WithTracker, Sound, Calls

\* Replacing the taper clock, the runaway flag or the cadence.
LEMMA UpdateSound ==
    ASSUME NEW s, Sound(s)
    PROVE  /\ \A age \in Ages(TaperGrace) :
                 /\ Sound(WithTaper(s, age))
                 /\ WithTaper(s, age).tr = s.tr
                 /\ WithTaper(s, age).bk.last = s.bk.last
                 /\ WithTaper(s, age).bk.stamp = s.bk.stamp
           /\ Sound(MarkHandled(s)) /\ MarkHandled(s).tr = s.tr
           /\ Sound(UnmarkHandled(s)) /\ UnmarkHandled(s).tr = s.tr
           /\ Sound(Idle(s)) /\ Idle(s).tr = s.tr /\ Idle(s).bk = s.bk
           /\ Sound(Written(s)) /\ Written(s).tr = s.tr
           /\ Written(s).bk.last = s.bk.last
           /\ Written(s).bk.stamp = s.bk.stamp
<1>0. /\ (s.bk.writes + 1) % ReadbackEvery \in 0 .. ReadbackEvery - 1
      /\ 0 \in Levels
  BY Numbers, CallFields DEF Levels
<1> USE DEF Sound, Calls, Books, Stamped
<1>3. \A age \in Ages(TaperGrace) :
        /\ Sound(WithTaper(s, age)) /\ WithTaper(s, age).tr = s.tr
        /\ WithTaper(s, age).bk.last = s.bk.last
        /\ WithTaper(s, age).bk.stamp = s.bk.stamp
  BY DEF WithTaper, Matched
<1>4. /\ Sound(MarkHandled(s)) /\ MarkHandled(s).tr = s.tr
      /\ Sound(UnmarkHandled(s)) /\ UnmarkHandled(s).tr = s.tr
  BY DEF MarkHandled, UnmarkHandled, Matched
<1>5. Sound(Idle(s)) /\ Idle(s).tr = s.tr /\ Idle(s).bk = s.bk
  BY <1>0 DEF Idle
<1>6. /\ Sound(Written(s)) /\ Written(s).tr = s.tr
      /\ Written(s).bk.last = s.bk.last /\ Written(s).bk.stamp = s.bk.stamp
  BY <1>0 DEF Written, Matched
<1> QED BY <1>3, <1>4, <1>5, <1>6

\* A failed write pair: its reason is no direction's, so nothing mismatches.
LEMMA CommFailedSound ==
    ASSUME NEW s, Sound(s)
    PROVE  Keeps(s, CommFailed(s)) /\ CommFailed(s).bk = s.bk
<1> DEFINE r == RecordCommFailure(s.tr)
<1>1. /\ r \in Trackers /\ Accounted(r) /\ r.reason = "comm"
      /\ r.degraded >= s.tr.degraded
  BY CallFields, RecordSound DEF Sound
<1>2. Matched(r, s.bk)
  BY <1>1 DEF Matched
<1> HIDE DEF r
<1>3. /\ Sound(WithTracker(s, r)) /\ WithTracker(s, r).tr = r
      /\ WithTracker(s, r).bk = s.bk
  BY <1>1, <1>2, TrackerSound
<1> QED BY <1>1, <1>3 DEF CommFailed, Keeps, r

\* The recovery's standby write leaves direction, stamp and episode alone.
LEMMA AttemptWakeSound ==
    ASSUME NEW s, Sound(s), NEW nested \in NestedWrites
    PROVE  /\ Keeps(s, AttemptWake(s, nested))
           /\ AttemptWake(s, nested).bk.last = s.bk.last
<1>1. Keeps(s, s)
  BY CallFields DEF Keeps
<1> DEFINE w == Idle(Written(s))
<1>2. Sound(w) /\ w.tr = s.tr /\ w.bk.last = s.bk.last
  BY UpdateSound
<1> HIDE DEF w
<1>3. /\ Keeps(s, w) /\ Keeps(s, CommFailed(w))
      /\ CommFailed(w).bk.last = s.bk.last
  BY <1>2, CommFailedSound, CallFields DEF Keeps
<1> QED BY <1>1, <1>2, <1>3 DEF AttemptWake, StandbyWrite, w

\* After the engage bookkeeping the call moves in net's direction, with a
\* stamp, and no count of another direction's failures.
LEMMA EngageSound ==
    ASSUME NEW s, Sound(s), NEW net \in Levels
    PROVE  /\ Keeps(s, Engage(s, net))
           /\ Engage(s, net).bk.last = Sign(net)
<1> DEFINE e == Engage(s, net)
           sign == Sign(net)
<1>1. sign \in {-1, 0, 1} /\ (sign = 0 <=> net = 0)
  BY DEF Sign, Levels
<1>2. NewEpisode(s.tr) \in Trackers /\ Accounted(NewEpisode(s.tr))
      /\ NewEpisode(s.tr).fails = 0
      /\ NewEpisode(s.tr).degraded = s.tr.degraded
  BY ClearSound, CallFields
<1>3. /\ e.tr \in Trackers /\ Accounted(e.tr)
      /\ e.tr.degraded = s.tr.degraded
      /\ (sign # s.bk.last /\ sign # 0) => e.tr.fails = 0
      /\ (sign = s.bk.last \/ sign = 0) => e.tr = s.tr
  BY <1>2, CallFields DEF Engage, FlipTracker, Sound
<1>4. /\ e.bk \in Books /\ e.cmd = net /\ e.bk.last = sign
      /\ e.bk.stamp = (IF sign # s.bk.last THEN 0 ELSE s.bk.stamp)
  <2>1. (s.bk.handled /\ sign = 0) \in BOOLEAN
    OBVIOUS
  <2>2. /\ (IF sign # s.bk.last THEN 0 ELSE s.bk.stamp) \in Ages(StampMax)
        /\ (IF sign # s.bk.last /\ sign = 1 THEN None ELSE s.bk.taper)
             \in Ages(TaperGrace)
    BY CallFields, Numbers DEF Ages, None
  <2> HIDE DEF sign
  <2> QED BY <1>1, <2>1, <2>2, CallFields DEF Engage, Book, Books, sign
<1>5. e \in Calls
  BY <1>3, <1>4 DEF Engage, Calls
<1>6. Matched(e.tr, e.bk) /\ Stamped(e.bk)
  <2> HIDE DEF e, sign
  <2>1. CASE sign # s.bk.last /\ sign # 0
    BY <2>1, <1>3, <1>4 DEF Matched, Stamped
  <2>2. CASE sign = 0
    BY <2>2, <1>4 DEF Matched, Stamped
  <2>3. CASE sign = s.bk.last /\ sign # 0
    BY <2>3, <1>3, <1>4 DEF Matched, Stamped, Sound
  <2> QED BY <2>1, <2>2, <2>3
<1> HIDE DEF e
<1> QED BY <1>3, <1>4, <1>5, <1>6, CallFields DEF Keeps, Sound, e

\* What holds of a call r that began as s and was asked for net: sound, and
\* its spell is as old as s's unless the battery recovered.
Follows(s, r, net) ==
    Sound(r) /\ (r.tr.degraded >= s.tr.degraded \/ Recovered(net))

\* _check_non_delivery(): it counts only past the engage grace of the current
\* direction, and forgives only a delivery or an exemption.
LEMMA JudgeSound ==
    ASSUME NEW s, Sound(s), NEW net \in {-2, 2}, s.bk.last = Sign(net),
           NEW nested \in NestedWrites
    PROVE  /\ Follows(s, Judge(s, net, nested), net)
           /\ Judge(s, net, nested).bk.last = s.bk.last
<1> DEFINE why == Side(net)
           age == TaperClock(s, net)
           judged == WithTaper(s, age)
           r == RecordNonDelivery(s.tr, why)
           failed == WithTracker(judged, r)
<1>1. /\ why \in {"charge", "discharge"}
      /\ why = "charge" <=> s.bk.last = 1
      /\ why = "discharge" <=> s.bk.last = -1
  BY DEF Side, Sign
<1>2. age \in Ages(TaperGrace) /\ None \in Ages(TaperGrace)
  BY CallFields, Numbers DEF TaperClock, TaperAge, Ages, None
<1>3. /\ Clear(s.tr) \in Trackers /\ Accounted(Clear(s.tr))
      /\ \A b : Matched(Clear(s.tr), b)
  BY ClearSound, CallFields DEF Matched
<1>4. /\ r \in Trackers /\ Accounted(r) /\ r.reason = why
      /\ r.degraded >= s.tr.degraded
  BY <1>1, CallFields, RecordSound DEF Sound
<1> HIDE DEF why, age, r
<1>5. /\ Sound(judged) /\ judged.tr = s.tr /\ judged.bk.last = s.bk.last
      /\ judged.bk.stamp = s.bk.stamp
      /\ Sound(WithTaper(s, None)) /\ WithTaper(s, None).bk.last = s.bk.last
  BY <1>2, UpdateSound
<1>6. CASE Delivers(net)
  <2>1. /\ Sound(WithTracker(WithTaper(s, None), Clear(s.tr)))
        /\ WithTracker(WithTaper(s, None), Clear(s.tr)).bk.last = s.bk.last
    BY <1>3, <1>5, TrackerSound
  <2> QED BY <2>1, <1>6 DEF Judge, Follows, Recovered, Hard
<1>7. CASE ~Delivers(net) /\ Within(s.bk.stamp, EngageGrace)
  BY <1>7, CallFields DEF Judge, Follows
<1>8. CASE ~Delivers(net) /\ ~Within(s.bk.stamp, EngageGrace) /\ Exempt(s, net)
  <2>1. /\ Sound(WithTracker(judged, Clear(s.tr)))
        /\ WithTracker(judged, Clear(s.tr)).bk.last = s.bk.last
    BY <1>3, <1>5, TrackerSound
  <2>2. Recovered(net)
    BY <1>8 DEF Exempt, Tapering, Full, Recovered
  <2> QED BY <2>1, <2>2, <1>8 DEF Judge, Follows, age
<1>9. CASE ~Delivers(net) /\ ~Within(s.bk.stamp, EngageGrace) /\ ~Exempt(s, net)
  <2>1. s.bk.stamp >= EngageGrace
    <3>1. s.bk.stamp # None
      BY <1>1, CallFields DEF Sound, Stamped, None, Sign
    <3>2. s.bk.stamp \in Int
      BY CallFields, Numbers DEF Ages, None
    <3> QED BY <3>1, <3>2, <1>9, Numbers DEF Within
  <2>2. Matched(r, judged.bk)
    BY <1>1, <1>4, <1>5, <2>1 DEF Matched
  <2>3. Sound(failed) /\ failed.tr = r /\ failed.bk.last = s.bk.last
    BY <1>4, <1>5, <2>2, TrackerSound
  <2> HIDE DEF failed, judged
  <2>4. /\ Keeps(failed, AttemptWake(failed, nested))
        /\ AttemptWake(failed, nested).bk.last = s.bk.last
    BY <2>3, AttemptWakeSound
  <2>5. /\ AttemptWake(failed, nested).tr.degraded \in Int
        /\ r.degraded \in Int /\ s.tr.degraded \in Int
    BY <2>3, <2>4, CallFields DEF Keeps
  <2>6. Follows(s, failed, net)
    BY <2>3, <1>4 DEF Follows
  <2>7. Follows(s, AttemptWake(failed, nested), net)
    BY <2>3, <2>4, <2>5, <1>4 DEF Keeps, Follows
  <2>8. Judge(s, net, nested)
          = IF GraceRound(s.tr) THEN AttemptWake(failed, nested) ELSE failed
    BY <1>9 DEF Judge, failed, judged, age, r, why
  <2> QED BY <2>3, <2>4, <2>6, <2>7, <2>8
<1> QED BY <1>6, <1>7, <1>8, <1>9

\* The write and what its readback shows.
LEMMA WriteSound ==
    ASSUME NEW s, Sound(s), NEW net \in Levels, s.bk.last = Sign(net),
           NEW ack \in BOOLEAN, NEW nested \in NestedWrites
    PROVE  Follows(s, Write(s, net, ack, nested), net)
<1> DEFINE w == Written(s)
<1>1. Sound(w) /\ w.tr = s.tr /\ w.bk.last = s.bk.last
  BY UpdateSound
<1> HIDE DEF w
<1>2. Follows(s, w, net)
  BY <1>1, CallFields DEF Follows
<1>3. Follows(s, CommFailed(w), net)
  BY <1>1, CommFailedSound DEF Follows, Keeps
<1>4. ASSUME Hard(net) PROVE Follows(s, Judge(w, net, nested), net)
  BY <1>1, <1>4, JudgeSound DEF Follows, Hard
<1> QED BY <1>2, <1>3, <1>4 DEF Write, w

\* Set-points that already match.
LEMMA MatchingSound ==
    ASSUME NEW s, Sound(s), NEW net \in Levels, s.bk.last = Sign(net),
           NEW ack \in BOOLEAN, NEW nested \in NestedWrites
    PROVE  Follows(s, Matching(s, net, ack, nested), net)
<1>1. Follows(s, s, net)
  BY CallFields DEF Follows
<1>2. Follows(s, Write(s, net, ack, nested), net)
  BY WriteSound
<1>3. /\ Follows(s, UnmarkHandled(s), net)
      /\ Sound(MarkHandled(s)) /\ MarkHandled(s).tr = s.tr
  BY UpdateSound, CallFields DEF Follows
<1>4. Follows(s, AttemptWake(MarkHandled(s), nested), net)
  BY <1>3, AttemptWakeSound DEF Follows, Keeps
<1>5. ASSUME Hard(net)
      PROVE  /\ Follows(s, Judge(s, net, nested), net)
             /\ Judge(s, net, nested).bk.last = Sign(net)
  BY <1>5, JudgeSound DEF Hard
<1>6. ASSUME Hard(net)
      PROVE  Follows(s, Write(Judge(s, net, nested), net, ack, nested), net)
  <2> DEFINE j == Judge(s, net, nested)
  <2>1. Sound(j) /\ (j.tr.degraded >= s.tr.degraded \/ Recovered(net))
        /\ j.bk.last = Sign(net)
    BY <1>5, <1>6 DEF Follows
  <2> HIDE DEF j
  <2>2. Follows(j, Write(j, net, ack, nested), net)
    BY <2>1, WriteSound
  <2>3. /\ s.tr.degraded \in Int /\ j.tr.degraded \in Int
        /\ Write(j, net, ack, nested).tr.degraded \in Int
    BY <2>1, <2>2, CallFields DEF Follows
  <2>4. Follows(s, Write(j, net, ack, nested), net)
    BY <2>1, <2>2, <2>3 DEF Follows
  <2> QED BY <2>4 DEF j
<1> QED BY <1>1, <1>2, <1>3, <1>4, <1>5, <1>6 DEF Matching
\* _set_battery_power() past its gates.
LEMMA SetPowerSound ==
    ASSUME NEW s, Sound(s), NEW net \in Levels, NEW matches \in BOOLEAN,
           NEW force \in BOOLEAN, NEW ack \in BOOLEAN,
           NEW nested \in NestedWrites
    PROVE  Follows(s, SetPower(s, net, matches, force, ack, nested), net)
<1> DEFINE e == Engage(s, net)
<1>1. Keeps(s, e) /\ e.bk.last = Sign(net)
  BY EngageSound
<1> HIDE DEF e
<1>2. ASSUME NEW r, Follows(e, r, net) PROVE Follows(s, r, net)
  <2>1. /\ s.tr.degraded \in Int /\ e.tr.degraded \in Int
        /\ r.tr.degraded \in Int
    BY <1>1, <1>2, CallFields DEF Keeps, Follows
  <2> QED BY <2>1, <1>1, <1>2 DEF Keeps, Follows
<1>3. Follows(e, Matching(e, net, ack, nested), net)
  BY <1>1, MatchingSound DEF Keeps
<1>4. Follows(e, Write(e, net, ack, nested), net)
  BY <1>1, WriteSound DEF Keeps
<1> QED BY <1>2, <1>3, <1>4 DEF SetPower, e

-----------------------------------------------------------------------------
\* The inductive invariant: the three invariants the runs check plus the fact
\* that a moving battery has an engage stamp.
IInv ==
    TypeOK /\ FailuresMatchDirection /\ ExclusionAccountedFor /\ Stamped(bk)

\* The invariant, read as a statement of one call's tracker, books and command.
LEMMA InvAsCall ==
    IInv <=> /\ Sound(Call)
             /\ want \in Levels /\ manual \in BOOLEAN
             /\ body \in AllBodies /\ soc \in AllSocs
<1>1. /\ Call.tr = tr /\ Call.bk = bk /\ Call.cmd = cmd
      /\ Call \in Calls <=> (tr \in Trackers /\ bk \in Books /\ cmd \in Levels)
  BY DEF Call, Calls
<1> QED BY <1>1 DEF IInv, TypeOK, Sound, Accounted, Matched,
               FailuresMatchDirection, ExclusionAccountedFor, Trackers, Books

\* What one step does to the spell.
SpellStep ==
    \/ tr'.degraded >= tr.degraded
    \/ Recovered(want')
    \/ Full

\* A step that ends as a call r does: the invariant and the spell follow.
LEMMA ApplySound ==
    ASSUME IInv, NEW r, Sound(r), Apply(r), want' \in Levels,
           manual' \in BOOLEAN, body' \in AllBodies, soc' \in AllSocs
    PROVE  IInv' /\ tr'.degraded = r.tr.degraded
<1>1. tr' \in Trackers /\ bk' \in Books /\ cmd' \in Levels
  BY CallFields DEF Apply
<1>2. Accounted(tr') /\ Matched(tr', bk') /\ Stamped(bk')
  BY DEF Sound, Apply
<1> QED BY <1>1, <1>2 DEF IInv, TypeOK, Accounted, Matched, Stamped, Apply,
      FailuresMatchDirection, ExclusionAccountedFor, Trackers, Books

\* The tracker a cycle starts from, alone and after the exclusion check.
LEMMA CycleStart ==
    ASSUME IInv
    PROVE  /\ Sound(WithTracker(Call, Prologue(tr)))
           /\ Sound(WithTracker(Call, Expire(Prologue(tr))))
           /\ Sound(WithTracker(Call, Expire(tr)))
           /\ WithTracker(Call, Prologue(tr)).tr = Prologue(tr)
           /\ WithTracker(Call, Prologue(tr)).bk = bk
           /\ WithTracker(Call, Expire(Prologue(tr))).tr = Expire(Prologue(tr))
           /\ WithTracker(Call, Expire(tr)).tr = Expire(tr)
           /\ WithTracker(Call, Expire(tr)).bk = bk
           /\ Prologue(tr).degraded = tr.degraded \/ Full
           /\ Expire(Prologue(tr)).degraded = tr.degraded \/ Full
           /\ Expire(tr).degraded = tr.degraded
<1>1. Sound(Call) /\ Call.tr = tr /\ Call.bk = bk
  BY InvAsCall DEF Call
<1>2. tr \in Trackers /\ Accounted(tr) /\ Matched(tr, bk)
  BY <1>1, CallFields DEF Sound
<1> DEFINE p == Prologue(tr)
           x == Expire(p)
           y == Expire(tr)
<1>3. /\ p \in Trackers /\ Accounted(p)
      /\ \/ p.fails = 0
         \/ p.fails = tr.fails /\ p.reason = tr.reason /\ p.excluded = tr.excluded
      /\ p.degraded = tr.degraded \/ Full
  BY <1>2, PrologueSound
<1> HIDE DEF p
<1>4. /\ x \in Trackers /\ Accounted(x) /\ (x = p \/ x.fails = 0)
      /\ x.degraded = p.degraded
  BY <1>3, ExpireSound
<1>5. /\ y \in Trackers /\ Accounted(y) /\ (y = tr \/ y.fails = 0)
      /\ y.degraded = tr.degraded
  BY <1>2, ExpireSound
<1> HIDE DEF x, y
<1>6. Matched(p, bk)
  BY <1>2, <1>3 DEF Matched
<1>7. Matched(x, bk) /\ Matched(y, bk)
  BY <1>2, <1>4, <1>5, <1>6 DEF Matched
<1>8. /\ Sound(WithTracker(Call, p)) /\ WithTracker(Call, p).tr = p
      /\ WithTracker(Call, p).bk = bk
  BY <1>1, <1>3, <1>6, TrackerSound
<1>9. /\ Sound(WithTracker(Call, x)) /\ WithTracker(Call, x).tr = x
      /\ Sound(WithTracker(Call, y)) /\ WithTracker(Call, y).tr = y
      /\ WithTracker(Call, y).bk = bk
  BY <1>1, <1>4, <1>5, <1>7, TrackerSound
<1> QED BY <1>3, <1>4, <1>5, <1>8, <1>9 DEF p, x, y

\* Handing the battery over forgets the direction bookkeeping.
LEMMA ResetSound ==
    ASSUME NEW s, Sound(s)
    PROVE  Sound([tr |-> s.tr, bk |-> OwnershipReset(s.bk), cmd |-> s.cmd])
BY CallFields, Numbers DEF OwnershipReset, Book, Sound, Calls, Books, Matched,
                           Stamped, Ages, None

\* Time alone breaks nothing.
LEMMA ClocksSound ==
    ASSUME IInv, Tick
    PROVE  IInv' /\ tr'.degraded >= tr.degraded
<1>1. /\ tr \in Trackers /\ bk \in Books /\ Accounted(tr) /\ Matched(tr, bk)
      /\ Stamped(bk)
  BY DEF IInv, TypeOK, Trackers, Books, Accounted, Matched,
         FailuresMatchDirection, ExclusionAccountedFor
<1>2. /\ tr'.fails = tr.fails /\ tr'.reason = tr.reason
      /\ tr'.excluded = Older(tr.excluded, Cooldown)
      /\ tr'.degraded = Older(tr.degraded, RepairAfter)
      /\ bk'.last = bk.last /\ bk'.stamp = Older(bk.stamp, StampMax)
  BY DEF Tick, Entry, Book
<1>3. /\ tr.excluded \in Ages(Cooldown) /\ tr.degraded \in Ages(RepairAfter)
      /\ bk.stamp \in Ages(StampMax) /\ bk.taper \in Ages(TaperGrace)
  BY <1>1 DEF Trackers, Books
<1>4. /\ Older(tr.excluded, Cooldown) \in Ages(Cooldown)
      /\ Older(tr.degraded, RepairAfter) \in Ages(RepairAfter)
      /\ Older(bk.stamp, StampMax) \in Ages(StampMax)
      /\ Older(bk.taper, TaperGrace) \in Ages(TaperGrace)
  BY <1>3, Numbers DEF Older, Ages, None
<1>5. tr' \in Trackers /\ bk' \in Books
  BY <1>1, <1>4 DEF Tick, Entry, Book, Trackers, Books
<1>6. Accounted(tr')
  BY <1>1, <1>2, <1>3, Numbers DEF Accounted, Older, Ages, None
<1>7. Matched(tr', bk') /\ Stamped(bk')
  BY <1>1, <1>2, <1>3, Numbers DEF Matched, Stamped, Older, Ages, None
<1>8. tr'.degraded >= tr.degraded
  BY <1>2, <1>3, Numbers DEF Older, Ages, None
<1> QED BY <1>5, <1>6, <1>7, <1>8 DEF IInv, TypeOK, Tick, Accounted, Matched,
      FailuresMatchDirection, ExclusionAccountedFor, Trackers, Books

\* Every step keeps the inductive invariant and does to the spell only what
\* SpellStep allows.
LEMMA StepSound ==
    ASSUME IInv, [Next]_vars
    PROVE  IInv' /\ SpellStep
<1>0. /\ Sound(Call) /\ Call.tr = tr /\ Call.bk = bk /\ Call.cmd = cmd
      /\ want \in Levels /\ manual \in BOOLEAN
      /\ body \in AllBodies /\ soc \in AllSocs
      /\ tr.degraded \in Int /\ 0 \in Levels
  <2>1. Sound(Call) /\ Call.tr = tr /\ Call.bk = bk /\ Call.cmd = cmd
    BY InvAsCall DEF Call
  <2> QED BY <2>1, CallFields DEF IInv, TypeOK, Levels
<1>1. CASE QuietCycle
  <2>1. /\ Apply(WithTracker(Call, Prologue(tr)))
        /\ want' \in Levels /\ manual' \in BOOLEAN
        /\ body' \in AllBodies /\ soc' \in AllSocs
    BY <1>0, <1>1, CycleStart DEF QuietCycle, Apply, WithTracker
  <2> QED BY <1>0, <2>1, CycleStart, ApplySound DEF SpellStep
<1>2. ASSUME NEW net \in Levels, NEW matches \in BOOLEAN,
             CommandCycle(net, matches)
      PROVE  IInv' /\ SpellStep
  <2> DEFINE s == WithTracker(Call, Expire(Prologue(tr)))
  <2>1. Sound(s) /\ (s.tr.degraded = tr.degraded \/ Full)
    BY CycleStart
  <2>2. PICK ack \in BOOLEAN, nested \in NestedWrites :
          Apply(SetPower(s, net, matches, FALSE, ack, nested))
    BY <1>2, DeviceAssumption DEF CommandCycle
  <2> HIDE DEF s
  <2>3. Follows(s, SetPower(s, net, matches, FALSE, ack, nested), net)
    BY <2>1, SetPowerSound
  <2>4. /\ want' = net /\ manual' \in BOOLEAN
        /\ body' \in AllBodies /\ soc' \in AllSocs
    BY <1>0, <1>2 DEF CommandCycle
  <2> QED BY <2>1, <2>2, <2>3, <2>4, ApplySound DEF SpellStep, Follows
<1>3. ASSUME NEW net \in Levels, DirectCycle(net)
      PROVE  IInv' /\ SpellStep
  <2> DEFINE s == WithTracker(Call, Prologue(tr))
  <2>1. Sound(s) /\ (s.tr.degraded = tr.degraded \/ Full)
    BY CycleStart
  <2>2. PICK matches \in BOOLEAN, ack \in BOOLEAN, nested \in NestedWrites :
          Apply(SetPower(s, net, matches, FALSE, ack, nested))
    BY <1>3, DeviceAssumption DEF DirectCycle
  <2> HIDE DEF s
  <2>3. Follows(s, SetPower(s, net, matches, FALSE, ack, nested), net)
    BY <2>1, SetPowerSound
  <2>4. /\ want' = net /\ manual' \in BOOLEAN
        /\ body' \in AllBodies /\ soc' \in AllSocs
    BY <1>0, <1>3 DEF DirectCycle
  <2> QED BY <2>1, <2>2, <2>3, <2>4, ApplySound DEF SpellStep, Follows
<1>4. CASE ReadExclusion
  <2>1. /\ Apply(WithTracker(Call, Expire(tr)))
        /\ want' \in Levels /\ manual' \in BOOLEAN
        /\ body' \in AllBodies /\ soc' \in AllSocs
    BY <1>0, <1>4, CycleStart DEF ReadExclusion, Apply, WithTracker
  <2> QED BY <1>0, <2>1, CycleStart, ApplySound DEF SpellStep
<1>5. CASE ManualOn
  <2> DEFINE s == [tr |-> tr, bk |-> OwnershipReset(bk), cmd |-> cmd]
  <2>1. Sound(s) /\ s.tr = tr
    BY <1>0, ResetSound
  <2>2. /\ want' = 0 /\ manual' \in BOOLEAN
        /\ body' \in AllBodies /\ soc' \in AllSocs
    BY <1>0, <1>5 DEF ManualOn
  <2>3. \/ Apply(s)
        \/ \E ack \in BOOLEAN :
              Apply(SetPower(s, 0, FALSE, TRUE, ack, "skipped"))
    BY <1>5, DeviceAssumption DEF ManualOn
  <2> HIDE DEF s
  <2>4. CASE Apply(s)
    BY <1>0, <2>1, <2>2, <2>4, ApplySound DEF SpellStep
  <2>5. ASSUME NEW ack \in BOOLEAN,
               Apply(SetPower(s, 0, FALSE, TRUE, ack, "skipped"))
        PROVE  IInv' /\ SpellStep
    <3>1. Follows(s, SetPower(s, 0, FALSE, TRUE, ack, "skipped"), 0)
      BY <1>0, <2>1, SetPowerSound DEF NestedWrites
    <3> QED BY <1>0, <2>1, <2>2, <2>5, <3>1, ApplySound DEF SpellStep, Follows
  <2> QED BY <2>3, <2>4, <2>5
<1>6. CASE ManualOff
  <2>1. PICK ack \in BOOLEAN :
          LET r == SetPower(Call, 0, FALSE, TRUE, ack, "skipped")
          IN  /\ tr' = r.tr /\ cmd' = r.cmd
              /\ bk' = IF ack THEN OwnershipReset(r.bk) ELSE r.bk
              /\ manual' = ~ack
    BY <1>6, DeviceAssumption DEF ManualOff
  <2> DEFINE r == SetPower(Call, 0, FALSE, TRUE, ack, "skipped")
             q == [tr |-> r.tr, bk |-> OwnershipReset(r.bk), cmd |-> r.cmd]
  <2>2. Follows(Call, r, 0)
    BY <1>0, SetPowerSound DEF NestedWrites
  <2> HIDE DEF r
  <2>3. Sound(r) /\ Sound(q) /\ q.tr = r.tr
        /\ (r.tr.degraded >= tr.degraded \/ Recovered(0))
    BY <1>0, <2>2, ResetSound DEF Follows
  <2>4. Apply(r) \/ Apply(q)
    BY <2>1 DEF Apply, r
  <2>5. /\ want' = 0 /\ manual' \in BOOLEAN
        /\ body' \in AllBodies /\ soc' \in AllSocs
    BY <1>0, <1>6, <2>1 DEF ManualOff
  <2> HIDE DEF q
  <2> QED BY <1>0, <2>3, <2>4, <2>5, ApplySound DEF SpellStep
<1>7. CASE BodyChanges \/ SocChanges \/ UNCHANGED vars
  <2>1. /\ Apply(Call) /\ want' = want /\ manual' = manual
        /\ body' \in AllBodies /\ soc' \in AllSocs
    BY <1>0, <1>7, DeviceAssumption
       DEF BodyChanges, SocChanges, ctrl, vars, Apply
  <2> QED BY <1>0, <2>1, ApplySound DEF SpellStep
<1>8. CASE Tick
  BY <1>8, ClocksSound DEF SpellStep
<1> QED
  BY <1>1, <1>2, <1>3, <1>4, <1>5, <1>6, <1>7, <1>8
     DEF Next, Cycle, Commanded

\* A controller that starts has clean accounts.
LEMMA InitSound == Init => IInv
<1> SUFFICES ASSUME Init PROVE IInv
  OBVIOUS
<1>1. FreshTracker \in Trackers /\ Accounted(FreshTracker)
  BY Numbers DEF FreshTracker, Entry, Trackers, Accounted, Ages, None, Reasons
<1>2. bk \in Books /\ bk.last = 0 /\ 0 \in Levels
  BY Numbers DEF Init, Book, Books, Ages, None, Levels
<1>3. body \in AllBodies /\ soc \in AllSocs /\ manual \in BOOLEAN
  BY DEF Init, AllBodies, AllSocs
<1> QED BY <1>1, <1>2, <1>3 DEF Init, IInv, TypeOK, Trackers, Books, Accounted,
      Stamped, FailuresMatchDirection, ExclusionAccountedFor

\* Delivery's state is always well typed.
THEOREM TypeCorrect == Spec => []TypeOK
<1>1. IInv /\ [Next]_vars => IInv'
  BY StepSound
<1>2. IInv => TypeOK
  BY DEF IInv
<1> QED BY InitSound, <1>1, <1>2, PTL DEF Spec

\* No failure count survives a direction flip, and none is taken inside the
\* engage grace, whatever the thresholds and periods.
THEOREM DirectionCorrect == Spec => []FailuresMatchDirection
<1>1. IInv /\ [Next]_vars => IInv'
  BY StepSound
<1>2. IInv => FailuresMatchDirection
  BY DEF IInv
<1> QED BY InitSound, <1>1, <1>2, PTL DEF Spec

\* A battery in the pool always has failure budget left, and every exclusion
\* has its reason and a spell at least as old.
THEOREM ExclusionCorrect == Spec => []ExclusionAccountedFor
<1>1. IInv /\ [Next]_vars => IInv'
  BY StepSound
<1>2. IInv => ExclusionAccountedFor
  BY DEF IInv
<1> QED BY InitSound, <1>1, <1>2, PTL DEF Spec

\* What non_responsive_tracker.py holds against a battery is justified.
THEOREM AccountsCorrect == Spec => []FailuresAccountedFor
<1>1. TypeOK /\ FailuresMatchDirection /\ ExclusionAccountedFor => FailuresAccountedFor
  BY DEF FailuresAccountedFor
<1> QED BY <1>1, TypeCorrect, DirectionCorrect, ExclusionCorrect, PTL

\* Only a delivery or a BMS exemption ends or shortens the degraded spell.
THEOREM SpellCorrect == Spec => SpellEndsOnlyByRecovery
<1>1. IInv /\ [Next]_vars => IInv'
  BY StepSound
<1>2. IInv /\ [Next]_vars =>
        [ (tr.degraded # None /\ tr'.degraded < tr.degraded)
          => \/ Hard(want') /\ Delivers(want')
             \/ want' = -2 /\ soc = "low"
             \/ want' = 2 /\ soc \in {"tail", "full"}
             \/ Full ]_vars
  <2>1. IInv => tr.degraded \in Int
    BY Numbers DEF IInv, TypeOK, Ages, None
  <2>2. IInv' => tr'.degraded \in Int
    BY Numbers DEF IInv, TypeOK, Ages, None
  <2> QED BY <2>1, <2>2, StepSound DEF SpellStep, Recovered
<1> QED BY InitSound, <1>1, <1>2, PTL DEF Spec, SpellEndsOnlyByRecovery

\* A set of numbers with a member has a least one.
LEMMA NatLeast ==
    ASSUME NEW T, T \subseteq Nat, T # {}
    PROVE  \E m \in T : \A k \in T : m <= k
<1> DEFINE less == OpToRel(<, Nat)
<1>1. IsWellFoundedOn(less, Nat)
  BY NatLessThanWellFounded
<1>2. PICK m \in T : \A k \in T : ~(<<k, m>> \in less)
  <2> HIDE DEF less
  <2> QED BY <1>1, WFMin
<1>3. \A k \in T : ~(k < m)
  BY <1>2 DEF OpToRel
<1> QED BY <1>3

\* What holds of 0 and of a number's successor holds up to n: induction without an operator to carry it.
LEMMA Climbs ==
    ASSUME NEW n \in Nat, NEW T, 0 \in T, \A k \in 0 .. n - 1 : k \in T => k + 1 \in T
    PROVE  \A k \in 0 .. n : k \in T
<1> DEFINE bad == {k \in 0 .. n : k \notin T}
<1> SUFFICES ASSUME bad # {} PROVE FALSE
  OBVIOUS
<1>1. bad \subseteq Nat
  OBVIOUS
<1>2. PICK m \in bad : \A k \in bad : m <= k
  <2> HIDE DEF bad
  <2> QED BY <1>1, NatLeast
<1>3. m # 0 /\ m \in 1 .. n /\ m - 1 \in 0 .. n - 1 /\ (m - 1) + 1 = m
  OBVIOUS
<1>4. m - 1 \in T
  BY <1>2, <1>3
<1> QED BY <1>3, <1>4

(* A step that stays in S can be repeated n times. *)
RunsOf(n, S, base, step) == {g \in [0 .. n -> S] : g[0] = base /\ \A i \in 1 .. n : g[i] = step[<<i, g[i - 1]>>]}
\* A step that can always be taken can be taken n times.
LEMMA Repeats ==
    ASSUME NEW n \in Nat, NEW S, NEW base \in S, NEW step \in [(1 .. n) \X S -> S]
    PROVE  RunsOf(n, S, base, step) # {}
<1> DEFINE Goes(g, k) == g = [i \in 0 .. k |-> IF i = 0 THEN base ELSE step[<<i, g[i - 1]>>]]
           runs(k) == {g \in [0 .. k -> S] : Goes(g, k)}
           T == {k \in 0 .. n : runs(k) # {}}
<1>1. 0 \in T
  <2> DEFINE g == [i \in 0 .. 0 |-> base]
  <2>1. g \in [0 .. 0 -> S] /\ Goes(g, 0)
    OBVIOUS
  <2> HIDE DEF g, Goes
  <2>2. g \in runs(0)
    BY <2>1
  <2> QED BY <2>2
<1>2. ASSUME NEW k \in 0 .. n - 1, k \in T PROVE k + 1 \in T
  <2>1. k \in Nat /\ k + 1 \in 0 .. n /\ k + 1 \in 1 .. n
    OBVIOUS
  <2>2. PICK g \in [0 .. k -> S] : Goes(g, k)
    <3> HIDE DEF Goes
    <3> QED BY <1>2
  <2> DEFINE next == step[<<k + 1, g[k]>>]
  <2>3. next \in S
    <3>1. <<k + 1, g[k]>> \in (1 .. n) \X S
      BY <2>1
    <3> QED BY <3>1
  <2> HIDE DEF next
  <2> DEFINE h == [i \in 0 .. k + 1 |-> IF i = k + 1 THEN next ELSE g[i]]
  <2>4. h \in [0 .. k + 1 -> S]
    BY <2>1, <2>3
  <2>5. ASSUME NEW i \in 0 .. k + 1
        PROVE  h[i] = IF i = 0 THEN base ELSE step[<<i, h[i - 1]>>]
    <3>1. CASE i = k + 1
      <4>1. h[i] = next /\ h[i - 1] = g[k] /\ i # 0
        BY <2>1, <3>1
      <4> QED BY <4>1, <3>1 DEF next
    <3>2. CASE i # k + 1
      <4>1. i \in 0 .. k /\ h[i] = g[i]
        BY <2>1, <3>2
      <4>2. g[i] = IF i = 0 THEN base ELSE step[<<i, g[i - 1]>>]
        BY <2>2, <4>1
      <4>3. i # 0 => h[i - 1] = g[i - 1]
        BY <2>1, <4>1
      <4> HIDE DEF h
      <4> QED BY <4>1, <4>2, <4>3
    <3> QED BY <3>1, <3>2
  <2>6. Goes(h, k + 1)
    BY <2>5
  <2>7. h \in runs(k + 1)
    <3> HIDE DEF h, Goes
    <3> QED BY <2>4, <2>6
  <2> QED BY <2>1, <2>7
<1>3. \A k \in 0 .. n : k \in T
  <2> HIDE DEF T
  <2> QED BY <1>1, <1>2, Climbs
<1>4. PICK g \in [0 .. n -> S] : Goes(g, n)
  <2> HIDE DEF Goes
  <2> QED BY <1>3
<1>5. \A i \in 0 .. n : g[i] = IF i = 0 THEN base ELSE step[<<i, g[i - 1]>>]
  BY <1>4
<1>6. g[0] = base
  <2>1. 0 \in 0 .. n
    OBVIOUS
  <2> QED BY <1>5, <2>1
<1>7. ASSUME NEW i \in 1 .. n PROVE g[i] = step[<<i, g[i - 1]>>]
  <2>1. i \in 0 .. n /\ i # 0
    OBVIOUS
  <2> QED BY <1>5, <2>1
<1>8. g \in RunsOf(n, S, base, step)
  BY <1>6, <1>7 DEF RunsOf
<1> QED BY <1>8

\* The constants, as the lemmas below use them.
LEMMA NumberFacts ==
    /\ Len(ShPhase) \in Nat \ {0} /\ Len(ShLimit) \in Nat
    /\ Packs = 1 .. Len(ShPhase) /\ Phases = 1 .. Len(ShLimit)
    /\ \A u \in Packs : ShPhase[u] \in {0} \cup Phases /\ ShMax[u] \in Nat \ {0} /\ ShWeight[u] \in Nat \ {0}
    /\ \A p \in Phases : ShLimit[p] \in Nat \ {0}
    /\ ShAsks \subseteq Nat /\ ShBases \subseteq Int
    /\ ShAct \in Nat /\ ShJoin \in Nat /\ ShDrop \in Nat /\ ShHold \in Nat /\ ShMaxUpsets \in Nat
<1>1. Len(ShPhase) \in Nat /\ Len(ShLimit) \in Nat /\ Len(ShPhase) # 0
  BY ShAssumption
<1>2. Packs = 1 .. Len(ShPhase) /\ Phases = 1 .. Len(ShLimit)
  BY DEF Packs, Phases
<1>3. ASSUME NEW u \in Packs PROVE ShPhase[u] \in 0 .. Len(ShLimit) /\ ShMax[u] \in Nat \ {0} /\ ShWeight[u] \in Nat \ {0}
  <2>1. u \in 1 .. Len(ShPhase) /\ u \in 1 .. Len(ShMax) /\ u \in 1 .. Len(ShWeight)
    BY <1>2, ShAssumption
  <2>2. ShPhase[u] \in 0 .. Len(ShLimit)
    BY <2>1, ShAssumption, ElementOfSeq
  <2>3. ShMax[u] \in Nat \ {0}
    BY <2>1, ShAssumption, ElementOfSeq
  <2>4. ShWeight[u] \in Nat \ {0}
    BY <2>1, ShAssumption, ElementOfSeq
  <2> QED BY <2>2, <2>3, <2>4
<1>4. \A p \in Phases : ShLimit[p] \in Nat \ {0}
  <2>1. \A p \in 1 .. Len(ShLimit) : ShLimit[p] \in Nat \ {0}
    BY ShAssumption, ElementOfSeq
  <2> QED BY <1>2, <2>1
<1>5. \A x \in 0 .. Len(ShLimit) : x \in {0} \cup Phases
  BY <1>1, <1>2
<1>6. ShAsks \subseteq Nat /\ ShBases \subseteq Int /\ ShAct \in Nat /\ ShJoin \in Nat /\ ShDrop \in Nat /\ ShHold \in Nat /\ ShMaxUpsets \in Nat
  BY ShAssumption
<1> QED BY <1>1, <1>2, <1>3, <1>4, <1>5, <1>6

\* A sum over the batteries is reached one battery after the other.
LEMMA PlusRun ==
    ASSUME NEW f, NEW S, \A u \in Packs : f[u] \in Int
    PROVE  \E g \in [0 .. Len(ShPhase) -> Int] :
              /\ g[0] = 0
              /\ \A n \in Packs : g[n] = g[n - 1] + (IF n \in S THEN f[n] ELSE 0)
              /\ Plus(f, S) = g[Len(ShPhase)]
<1> DEFINE N == Len(ShPhase)
           Is(g) == g = [n \in 0 .. N |-> IF n = 0 THEN 0 ELSE g[n - 1] + IF n \in S THEN f[n] ELSE 0]
           step == [x \in (1 .. N) \X Int |-> x[2] + IF x[1] \in S THEN f[x[1]] ELSE 0]
<1>0. N \in Nat /\ Packs = 1 .. N
  BY NumberFacts
<1>1. step \in [(1 .. N) \X Int -> Int]
  BY <1>0
<1>2. PICK g \in [0 .. N -> Int] : g[0] = 0 /\ \A i \in 1 .. N : g[i] = step[<<i, g[i - 1]>>]
  <2>1. 0 \in Int
    OBVIOUS
  <2> HIDE DEF step, N
  <2>2. RunsOf(N, Int, 0, step) # {}
    BY <1>0, <1>1, <2>1, Repeats
  <2> QED BY <2>2 DEF RunsOf
<1> DEFINE h == CHOOSE h : Is(h)
<1>3. Is(h)
  <2>1. ASSUME NEW n \in 0 .. N PROVE g[n] = IF n = 0 THEN 0 ELSE g[n - 1] + IF n \in S THEN f[n] ELSE 0
    <3>1. n # 0 => n \in 1 .. N /\ n - 1 \in 0 .. N
      BY <1>0
    <3> QED BY <1>2, <3>1
  <2>2. Is(g)
    <3>1. g = [i \in 0 .. N |-> g[i]]
      OBVIOUS
    <3> HIDE DEF N
    <3> QED BY <2>1, <3>1
  <2> HIDE DEF Is
  <2> QED BY <2>2
<1>4. Plus(f, S) = h[N]
  BY DEF Plus
<1>5. \A n \in 0 .. N : h[n] = IF n = 0 THEN 0 ELSE h[n - 1] + IF n \in S THEN f[n] ELSE 0
  <2> HIDE DEF h
  <2> QED BY <1>3
<1> DEFINE T == {n \in 0 .. N : h[n] \in Int}
<1> HIDE DEF h
<1>6. \A n \in 0 .. N : n \in T
  <2>1. 0 \in T
    BY <1>0, <1>5
  <2>2. \A n \in 0 .. N - 1 : n \in T => n + 1 \in T
    <3> SUFFICES ASSUME NEW n \in 0 .. N - 1, h[n] \in Int PROVE h[n + 1] \in Int
      BY <1>0
    <3>1. n + 1 \in 0 .. N /\ n + 1 \in Packs /\ n + 1 # 0 /\ (n + 1) - 1 = n
      BY <1>0
    <3> QED BY <1>5, <3>1
  <2> HIDE DEF T, N
  <2> QED BY <1>0, <2>1, <2>2, Climbs
<1>7. h \in [0 .. N -> Int]
  BY <1>3, <1>6
<1>8. h[0] = 0 /\ \A n \in Packs : h[n] = h[n - 1] + IF n \in S THEN f[n] ELSE 0
  BY <1>0, <1>5
<1> QED BY <1>4, <1>7, <1>8

Part(f, S, n) == IF n \in S THEN f[n] ELSE 0
Summed(f) == \A u \in Packs : f[u] \in Int

\* What two running sums keep between them, step by step, holds of the two sums.
LEMMA PlusTogether ==
    ASSUME NEW f, NEW S, NEW h, NEW R, Summed(f), Summed(h), NEW T, <<0, 0, 0>> \in T,
           \A n \in Packs : \A x \in Int, y \in Int :
              <<n - 1, x, y>> \in T => <<n, x + Part(f, S, n), y + Part(h, R, n)>> \in T
    PROVE  Plus(f, S) \in Int /\ Plus(h, R) \in Int /\ <<Len(ShPhase), Plus(f, S), Plus(h, R)>> \in T
<1> DEFINE N == Len(ShPhase)
<1>0. N \in Nat /\ Packs = 1 .. N
  BY NumberFacts
<1>1. PICK g \in [0 .. N -> Int] : /\ g[0] = 0 /\ Plus(f, S) = g[N]
                                   /\ \A n \in Packs : g[n] = g[n - 1] + Part(f, S, n)
  BY SMTT(30), PlusRun DEF Summed, Part
<1>2. PICK k \in [0 .. N -> Int] : /\ k[0] = 0 /\ Plus(h, R) = k[N]
                                   /\ \A n \in Packs : k[n] = k[n - 1] + Part(h, R, n)
  <2>1. \A u \in Packs : h[u] \in Int
    BY DEF Summed
  <2> HIDE DEF N
  <2> QED BY <2>1, PlusRun DEF Part, N
<1> DEFINE U == {n \in 0 .. N : <<n, g[n], k[n]>> \in T}
<1>3. \A n \in 0 .. N : n \in U
  <2>1. 0 \in U
    <3>1. 0 \in 0 .. N /\ <<0, g[0], k[0]>> \in T
      BY <1>0, <1>1, <1>2
    <3> QED BY <3>1
  <2>2. ASSUME NEW n \in 0 .. N - 1, n \in U PROVE n + 1 \in U
    <3>1. n + 1 \in Packs /\ (n + 1) - 1 = n /\ n + 1 \in 0 .. N /\ g[n] \in Int /\ k[n] \in Int
      BY <1>0
    <3>2. g[n + 1] = g[n] + Part(f, S, n + 1) /\ k[n + 1] = k[n] + Part(h, R, n + 1)
      BY <1>1, <1>2, <3>1
    <3> HIDE DEF N
    <3>3. <<n, g[n], k[n]>> \in T
      BY <2>2
    <3>4. <<n + 1, g[n] + Part(f, S, n + 1), k[n] + Part(h, R, n + 1)>> \in T
      BY <3>1, <3>3
    <3> QED BY <3>1, <3>2, <3>4
  <2> HIDE DEF U, N
  <2> QED BY <1>0, <2>1, <2>2, Climbs
<1>4. N \in 0 .. N /\ g[N] \in Int /\ k[N] \in Int
  BY <1>0
<1> QED BY <1>1, <1>2, <1>3, <1>4

\* A sum of whole numbers is one.
LEMMA PlusInt ==
    ASSUME NEW f, NEW S, Summed(f)
    PROVE  Plus(f, S) \in Int
<1>1. PICK g \in [0 .. Len(ShPhase) -> Int] : Plus(f, S) = g[Len(ShPhase)]
  BY PlusRun DEF Summed
<1> QED BY <1>1, NumberFacts

\* Part by part no more, in all no more.
LEMMA PlusCompare ==
    ASSUME NEW f, NEW S, NEW h, NEW R, Summed(f), Summed(h),
           \A u \in Packs : Part(f, S, u) <= Part(h, R, u)
    PROVE  Plus(f, S) <= Plus(h, R)
<1> DEFINE T == {t \in Int \X Int \X Int : t[2] <= t[3]}
<1>1. \A n \in Packs : Part(f, S, n) \in Int /\ Part(h, R, n) \in Int /\ n \in Int /\ n - 1 \in Int
  BY NumberFacts DEF Summed, Part
<1>2. <<0, 0, 0>> \in T
  OBVIOUS
<1>3. ASSUME NEW n \in Packs, NEW x \in Int, NEW y \in Int, <<n - 1, x, y>> \in T
      PROVE  <<n, x + Part(f, S, n), y + Part(h, R, n)>> \in T
  BY <1>1, <1>3
<1>4. <<Len(ShPhase), Plus(f, S), Plus(h, R)>> \in T
  <2> HIDE DEF T
  <2> QED BY <1>2, <1>3, PlusTogether
<1> QED BY <1>4

\* One part more makes the sum that much more.
LEMMA PlusMore ==
    ASSUME NEW f, NEW S, NEW h, NEW R, Summed(f), Summed(h), NEW u \in Packs, NEW m \in Int,
           \A v \in Packs \ {u} : Part(h, R, v) = Part(f, S, v), Part(h, R, u) = Part(f, S, u) + m
    PROVE  Plus(h, R) = Plus(f, S) + m
<1> DEFINE T == {t \in Int \X Int \X Int : t[3] = t[2] + (IF t[1] < u THEN 0 ELSE m)}
<1>1. \A n \in Packs : Part(f, S, n) \in Int /\ Part(h, R, n) \in Int /\ n \in Int /\ n - 1 \in Int /\ 0 < n /\ n <= Len(ShPhase)
  BY NumberFacts DEF Summed, Part
<1>2. <<0, 0, 0>> \in T
  BY <1>1
<1>3. ASSUME NEW n \in Packs, NEW x \in Int, NEW y \in Int, <<n - 1, x, y>> \in T
      PROVE  <<n, x + Part(f, S, n), y + Part(h, R, n)>> \in T
  <2>1. y = x + IF n - 1 < u THEN 0 ELSE m
    BY <1>3
  <2>2. CASE n = u
    <3>1. y = x /\ Part(h, R, n) = Part(f, S, n) + m
      BY <1>1, <2>1, <2>2
    <3> QED BY <1>1, <2>2, <3>1
  <2>3. CASE n # u
    <3>1. Part(h, R, n) = Part(f, S, n) /\ ((n - 1 < u) <=> (n < u))
      BY <1>1, <2>3
    <3>2. Part(h, R, n) = Part(f, S, n) /\ ((n - 1 < u) <=> (n < u)) /\ Part(f, S, n) \in Int /\ n \in Int
      BY <1>1, <3>1
    <3>3. y + Part(h, R, n) = x + Part(f, S, n) + (IF n < u THEN 0 ELSE m)
      <4> HIDE DEF Part
      <4> QED BY <2>1, <3>2
    <3>4. x + Part(f, S, n) \in Int /\ y + Part(h, R, n) \in Int
      BY <1>1
    <3> QED BY <3>2, <3>3, <3>4
  <2> QED BY <2>2, <2>3
<1>4. <<Len(ShPhase), Plus(f, S), Plus(h, R)>> \in T
  <2> HIDE DEF T
  <2> QED BY <1>2, <1>3, PlusTogether
<1> QED BY <1>1, <1>4, NumberFacts

\* Nothing from anyone is nothing in all.
LEMMA PlusNothing ==
    ASSUME NEW f, NEW S, Summed(f), \A u \in Packs : Part(f, S, u) = 0
    PROVE  Plus(f, S) = 0
<1> DEFINE T == {t \in Int \X Int \X Int : t[2] = 0}
<1>1. <<0, 0, 0>> \in T
  OBVIOUS
<1>2. ASSUME NEW n \in Packs, NEW x \in Int, NEW y \in Int, <<n - 1, x, y>> \in T
      PROVE  <<n, x + Part(f, S, n), y + Part(f, S, n)>> \in T
  BY SMTT(30), <1>2, NumberFacts
<1>3. <<Len(ShPhase), Plus(f, S), Plus(f, S)>> \in T
  <2> HIDE DEF T
  <2> QED BY <1>1, <1>2, PlusTogether
<1> QED BY <1>3

\* A sum of powers is a power.
LEMMA PlusNat ==
    ASSUME NEW f, NEW S, \A u \in Packs : f[u] \in Nat
    PROVE  Plus(f, S) \in Nat
<1>1. Summed(f) /\ (\A u \in Packs : Part(f, {}, u) = 0) /\ \A u \in Packs : Part(f, {}, u) <= Part(f, S, u)
  BY DEF Summed, Part
<1>2. Plus(f, {}) = 0 /\ Plus(f, {}) <= Plus(f, S) /\ Plus(f, S) \in Int
  BY <1>1, PlusInt, PlusNothing, PlusCompare
<1> QED BY <1>2

\* A proportion that holds for every member holds for the sums.
LEMMA PlusScaled ==
    ASSUME NEW f, NEW h, NEW S, NEW a \in Nat, NEW b \in Nat, Summed(f), Summed(h),
           \A u \in Packs : u \in S => a * f[u] <= b * h[u]
    PROVE  a * Plus(f, S) <= b * Plus(h, S)
<1> DEFINE T == {t \in Int \X Int \X Int : a * t[2] <= b * t[3]}
<1>1. \A n \in Packs : Part(f, S, n) \in Int /\ Part(h, S, n) \in Int /\ n \in Int /\ n - 1 \in Int
  BY NumberFacts DEF Summed, Part
<1>2. <<0, 0, 0>> \in T
  OBVIOUS
<1>3. ASSUME NEW n \in Packs, NEW x \in Int, NEW y \in Int, <<n - 1, x, y>> \in T
      PROVE  <<n, x + Part(f, S, n), y + Part(h, S, n)>> \in T
  <2>1. a * x <= b * y
    BY <1>3
  <2>2. a * Part(f, S, n) <= b * Part(h, S, n)
    BY <1>1 DEF Part
  <2>3. \A z \in Int : a * (x + z) = a * x + a * z /\ b * (y + z) = b * y + b * z
    OBVIOUS
  <2>4. a * (x + Part(f, S, n)) <= b * (y + Part(h, S, n))
    <3>1. a * x \in Int /\ b * y \in Int /\ a * Part(f, S, n) \in Int /\ b * Part(h, S, n) \in Int
      BY <1>1
    <3> QED BY <1>1, <2>1, <2>2, <2>3, <3>1
  <2> QED BY <1>1, <2>4
<1>4. <<Len(ShPhase), Plus(f, S), Plus(h, S)>> \in T
  <2> HIDE DEF T
  <2> QED BY <1>2, <1>3, PlusTogether
<1> QED BY <1>4

\* The larger of two numbers.
LEMMA MaxTwo ==
    ASSUME NEW a \in Int, NEW b \in Int
    PROVE  Max({a, b}) \in {a, b} /\ a <= Max({a, b}) /\ b <= Max({a, b})
<1>1. \E x \in {a, b} : \A y \in {a, b} : x >= y
  <2>1. CASE a >= b
    BY <2>1
  <2>2. CASE ~(a >= b)
    BY <2>2
  <2> QED BY <2>1, <2>2
<1> QED BY <1>1 DEF Max

\* What is below zero counts as zero.
LEMMA MaxZero ==
    ASSUME NEW b \in Int
    PROVE  Max({0, b}) \in Nat /\ (b <= 0 => Max({0, b}) = 0) /\ (b >= 0 => Max({0, b}) = b)
<1> DEFINE a == 0
<1>1. a \in Int
  OBVIOUS
<1> HIDE DEF a
<1>2. Max({a, b}) \in {a, b} /\ a <= Max({a, b}) /\ b <= Max({a, b})
  BY <1>1, MaxTwo
<1> QED BY <1>2 DEF a

\* The smaller of two numbers.
LEMMA MinTwo ==
    ASSUME NEW a \in Int, NEW b \in Int
    PROVE  Min({a, b}) \in {a, b} /\ Min({a, b}) <= a /\ Min({a, b}) <= b
<1>1. \E x \in {a, b} : \A y \in {a, b} : x <= y
  <2>1. CASE a <= b
    BY <2>1
  <2>2. CASE ~(a <= b)
    BY <2>2
  <2> QED BY <2>1, <2>2
<1> QED BY <1>1 DEF Min

\* A share rounded down is no more than its proportion, and no more than what was asked for.
LEMMA ShareDown ==
    ASSUME NEW m \in Nat, NEW w \in Nat, NEW r \in Nat, r # 0, m <= r
    PROVE  (m * w) \div r \in Nat /\ r * ((m * w) \div r) <= m * w /\ (m * w) \div r <= w
<1> DEFINE x == m * w  q == x \div r
<1>1. x \in Nat /\ x <= r * w
  OBVIOUS
<1>2. q \in Nat /\ r * q <= x
  <2> HIDE DEF x
  <2> QED BY <1>1
<1>3. q <= w
  <2>1. r * q <= r * w /\ q \in Int
    <3>1. r * q \in Int /\ r * w \in Int /\ x \in Int
      BY <1>1, <1>2
    <3> HIDE DEF x, q
    <3> QED BY <1>1, <1>2, <3>1
  <2> HIDE DEF x, q
  <2> QED BY <2>1
<1> QED BY <1>2, <1>3

Dealing(need, group, most) ==
    {d \in [got : [Packs -> Nat], rest : Nat] :
        /\ \A u \in Packs : d.got[u] <= Part(need, group, u)
        /\ Plus(d.got, group) + d.rest = most}

\* A watt dealt to a battery of the group stays inside its need and inside the total.
LEMMA DealtFits ==
    ASSUME NEW need \in [Packs -> Nat], NEW group \in SUBSET Packs, NEW most \in Nat,
           NEW d \in Dealing(need, group, most), NEW u \in Packs
    PROVE  Dealt(d, u, need, group) \in Dealing(need, group, most)
<1>0. d.got \in [Packs -> Nat] /\ d.rest \in Nat /\ (\A v \in Packs : d.got[v] <= Part(need, group, v)) /\ Plus(d.got, group) + d.rest = most
  BY DEF Dealing
<1>1. CASE ~(u \in group /\ d.rest > 0 /\ d.got[u] < need[u])
  BY <1>1 DEF Dealt
<1>2. CASE u \in group /\ d.rest > 0 /\ d.got[u] < need[u]
  <2> DEFINE got == [d.got EXCEPT ![u] = @ + 1]  rest == d.rest - 1
  <2>1. Dealt(d, u, need, group) = [got |-> got, rest |-> rest]
    BY <1>2 DEF Dealt
  <2>2. got \in [Packs -> Nat] /\ rest \in Nat /\ got[u] = d.got[u] + 1 /\ \A v \in Packs \ {u} : got[v] = d.got[v]
    BY <1>0, <1>2
  <2> HIDE DEF got, rest
  <2>3. \A v \in Packs : got[v] <= Part(need, group, v)
    <3> SUFFICES ASSUME NEW v \in Packs PROVE got[v] <= Part(need, group, v)
      OBVIOUS
    <3>1. CASE v = u
      BY <1>0, <1>2, <2>2, <3>1 DEF Part
    <3>2. CASE v # u
      BY <1>0, <2>2, <3>2
    <3> QED BY <3>1, <3>2
  <2>4. Plus(got, group) = Plus(d.got, group) + 1
    <3>1. Summed(got) /\ Summed(d.got) /\ 1 \in Int
      BY <1>0, <2>2 DEF Summed
    <3>2. (\A v \in Packs \ {u} : Part(got, group, v) = Part(d.got, group, v)) /\ Part(got, group, u) = Part(d.got, group, u) + 1
      BY <1>2, <2>2 DEF Part
    <3> QED BY <3>1, <3>2, PlusMore
  <2>5. Plus(d.got, group) \in Int
    BY <1>0, PlusInt DEF Summed
  <2>6. Plus(got, group) + rest = most
    BY <1>0, <2>4, <2>5 DEF rest
  <2> QED BY <2>1, <2>2, <2>3, <2>6 DEF Dealing
<1> QED BY <1>1, <1>2

\* _cap_group_allocation(): no battery gets more than it asked for, and together they get no more than the total.
LEMMA CapGroupFits ==
    ASSUME NEW total \in Nat, NEW need \in [Packs -> Nat], NEW group \in SUBSET Packs
    PROVE  /\ CapGroup(total, need, group) \in [Packs -> Nat]
           /\ \A u \in Packs : CapGroup(total, need, group)[u] <= Part(need, group, u)
           /\ Plus(CapGroup(total, need, group), group) <= total
<1> DEFINE N == Len(ShPhase)
           M == N * N
           room == Plus(need, group)
           most == Min({total, room})
           floor == [u \in Packs |-> IF u \notin group \/ room = 0 THEN 0 ELSE (most * need[u]) \div room]
           start == [got |-> floor, rest |-> most - Plus(floor, group)]
           S == Dealing(need, group, most)
           Is(g) == g = [k \in 0 .. N * N |-> IF k = 0 THEN start ELSE Dealt(g[k - 1], Turn(k), need, group)]
<1>0. N \in Nat \ {0} /\ Packs = 1 .. N /\ M \in Nat
  BY NumberFacts
<1>1. room \in Nat /\ most \in Nat /\ most <= total /\ most <= room
  <2>1. room \in Nat
    BY PlusNat
  <2> HIDE DEF room
  <2> QED BY <2>1, MinTwo
<1>2. start \in S
  <2>1. ASSUME NEW u \in Packs
        PROVE  floor[u] \in Nat /\ floor[u] <= Part(need, group, u) /\ (u \in group => room * floor[u] <= most * need[u])
    <3>1. CASE u \notin group \/ room = 0
      <4>1. floor[u] = 0
        BY <3>1
      <4>2. room * 0 = 0 /\ most * need[u] \in Nat
        BY <1>1
      <4> HIDE DEF floor, room, most
      <4> QED BY <4>1, <4>2 DEF Part
    <3>2. CASE u \in group /\ room # 0
      <4>1. floor[u] = (most * need[u]) \div room
        BY <3>2
      <4> HIDE DEF floor, room, most
      <4>2. need[u] \in Nat
        OBVIOUS
      <4>3. floor[u] \in Nat /\ room * floor[u] <= most * need[u] /\ floor[u] <= need[u]
        <5>1. room # 0 /\ most \in Nat /\ room \in Nat /\ most <= room
          BY <1>1, <3>2
        <5>2. /\ (most * need[u]) \div room \in Nat
              /\ room * ((most * need[u]) \div room) <= most * need[u]
              /\ (most * need[u]) \div room <= need[u]
          BY <4>2, <5>1, ShareDown
        <5> QED BY <4>1, <5>2
      <4> QED BY <3>2, <4>3 DEF Part
    <3> HIDE DEF floor, room, most
    <3> QED BY <3>1, <3>2
  <2>2. floor \in [Packs -> Nat]
    <3>1. floor = [u \in Packs |-> floor[u]]
      OBVIOUS
    <3> HIDE DEF floor
    <3> QED BY <2>1, <3>1
  <2> HIDE DEF floor, room, most
  <2>3. Summed(floor) /\ Summed(need) /\ Plus(floor, group) \in Nat
    BY <2>2, PlusNat DEF Summed
  <2>4. Plus(floor, group) <= most
    <3>1. CASE room = 0
      <4>1. \A u \in Packs : Part(floor, group, u) <= Part(need, group, u)
        <5> SUFFICES ASSUME NEW u \in Packs PROVE Part(floor, group, u) <= Part(need, group, u)
          OBVIOUS
        <5>1. floor[u] <= Part(need, group, u) /\ need[u] \in Nat
          BY <2>1
        <5> QED BY <5>1 DEF Part
      <4>2. Plus(floor, group) <= room
        BY <2>3, <4>1, PlusCompare DEF room
      <4> QED BY <1>1, <2>3, <3>1, <4>2
    <3>2. CASE room # 0
      <4>1. room * Plus(floor, group) <= most * room
        <5>1. \A u \in Packs : u \in group => room * floor[u] <= most * need[u]
          BY <2>1
        <5> QED BY <1>1, <2>3, <5>1, PlusScaled DEF room
      <4> DEFINE x == Plus(floor, group)
      <4>2. x \in Nat
        BY <2>3
      <4> HIDE DEF x
      <4>3. room * x <= room * most
        BY <1>1, <4>1, <4>2 DEF x
      <4>4. x <= most
        BY <1>1, <3>2, <4>2, <4>3
      <4> QED BY <4>4 DEF x
    <3> QED BY <3>1, <3>2
  <2>5. most - Plus(floor, group) \in Nat /\ Plus(floor, group) + (most - Plus(floor, group)) = most
    BY <1>1, <2>3, <2>4
  <2> QED BY <2>1, <2>2, <2>5 DEF Dealing
<1>3. ASSUME NEW k \in 1 .. M, NEW d \in S PROVE Dealt(d, Turn(k), need, group) \in S
  <2>1. Turn(k) \in Packs
    <3>1. (k - 1) % N \in 0 .. N - 1
      BY <1>0
    <3> HIDE DEF N
    <3> QED BY <1>0, <3>1 DEF Turn, N
  <2> HIDE DEF most
  <2> QED BY <1>1, <2>1, DealtFits
<1> DEFINE step == [x \in (1 .. M) \X S |-> Dealt(x[2], Turn(x[1]), need, group)]
           h == CHOOSE g : Is(g)
<1>4. CapGroup(total, need, group) = h[N * N].got
  BY DEF CapGroup
<1> HIDE DEF S, start
<1>5. step \in [(1 .. M) \X S -> S]
  BY <1>3
<1>6. PICK g \in [0 .. M -> S] : g[0] = start /\ \A i \in 1 .. M : g[i] = step[<<i, g[i - 1]>>]
  <2> HIDE DEF step, M
  <2>1. RunsOf(M, S, start, step) # {}
    BY <1>0, <1>2, <1>5, Repeats
  <2> QED BY <2>1 DEF RunsOf
<1>7. Is(h)
  <2>1. ASSUME NEW i \in 0 .. M PROVE g[i] = IF i = 0 THEN start ELSE Dealt(g[i - 1], Turn(i), need, group)
    <3>1. i # 0 => i \in 1 .. M /\ i - 1 \in 0 .. M
      BY <1>0
    <3> HIDE DEF M
    <3> QED BY <1>6, <3>1
  <2>2. Is(g)
    <3>1. g = [i \in 0 .. M |-> g[i]]
      OBVIOUS
    <3> QED BY <2>1, <3>1
  <2> HIDE DEF Is
  <2> QED BY <2>2
<1>8. \A i \in 0 .. M : h[i] = IF i = 0 THEN start ELSE Dealt(h[i - 1], Turn(i), need, group)
  <2> HIDE DEF h
  <2> QED BY <1>7
<1> HIDE DEF h
<1> DEFINE T == {i \in 0 .. M : h[i] \in S}
<1>9. \A i \in 0 .. M : i \in T
  <2>1. 0 \in T
    <3>1. 0 \in 0 .. M
      BY <1>0
    <3> HIDE DEF M
    <3> QED BY <1>2, <1>8, <3>1
  <2>2. ASSUME NEW i \in 0 .. M - 1, i \in T PROVE i + 1 \in T
    <3>1. i + 1 \in 0 .. M /\ i + 1 \in 1 .. M /\ i + 1 # 0 /\ (i + 1) - 1 = i
      BY <1>0
    <3> HIDE DEF M
    <3> QED BY <1>3, <1>8, <2>2, <3>1
  <2> HIDE DEF T, M
  <2> QED BY <1>0, <2>1, <2>2, Climbs
<1>10. h[N * N] \in S
  <2>1. M \in 0 .. M
    BY <1>0
  <2> HIDE DEF M
  <2>2. h[M] \in S
    BY <1>9, <2>1
  <2> QED BY <2>2 DEF M
<1> DEFINE d == h[N * N]
<1> HIDE DEF d, most
<1>11. d.got \in [Packs -> Nat] /\ d.rest \in Nat /\ (\A u \in Packs : d.got[u] <= Part(need, group, u)) /\ Plus(d.got, group) + d.rest = most
  BY <1>10 DEF S, Dealing, d
<1>12. Plus(d.got, group) \in Nat
  BY <1>11, PlusNat
<1>13. Plus(d.got, group) <= total
  BY <1>1, <1>11, <1>12
<1>14. CapGroup(total, need, group) = d.got
  BY <1>4 DEF d
<1> QED BY <1>11, <1>13, <1>14

Readings == shBase \in [Phases -> ShBases] /\ shHold \in [Phases -> Nat]

\* calculate_phase_budgets(): a budget above nothing and the house together stay inside the fuse.
LEMMA BudgetBounds ==
    ASSUME Readings, NEW p \in Phases, NEW charging
    PROVE  /\ Budget(p, charging) \in Nat
           /\ Budget(p, charging) > 0 =>
                (IF charging THEN shBase[p] ELSE 0 - shBase[p]) + Budget(p, charging) <= ShLimit[p]
<1>1. ShLimit[p] \in Nat /\ shBase[p] \in Int
  BY NumberFacts DEF Readings
<1>2. ASSUME NEW x \in Int
      PROVE  /\ Max({0, Min({ShLimit[p], x})}) \in Nat
             /\ Max({0, Min({ShLimit[p], x})}) > 0 => Max({0, Min({ShLimit[p], x})}) <= x
  <2> DEFINE m == Min({ShLimit[p], x})
  <2>0. ShLimit[p] \in Int /\ x \in Int
    BY <1>1
  <2>1. m \in Int /\ m <= x
    <3>1. m \in {ShLimit[p], x} /\ m <= ShLimit[p] /\ m <= x
      BY <2>0, MinTwo
    <3> QED BY <2>0, <3>1
  <2> HIDE DEF m
  <2>2. Max({0, m}) \in Nat /\ (Max({0, m}) > 0 => Max({0, m}) <= x)
    <3>1. Max({0, m}) \in {0, m} /\ 0 <= Max({0, m}) /\ m <= Max({0, m})
      BY <2>1, MaxTwo
    <3> QED BY <2>1, <3>1
  <2> QED BY <2>2 DEF m
<1>3. CASE charging
  <2> DEFINE b == Max({0, Min({ShLimit[p], ShLimit[p] - shBase[p]})})
  <2>1. Budget(p, charging) = b
    BY <1>3 DEF Budget
  <2>2. ShLimit[p] - shBase[p] \in Int
    BY <1>1
  <2>3. b \in Nat /\ (b > 0 => b <= ShLimit[p] - shBase[p])
    BY <1>2, <2>2
  <2> HIDE DEF b
  <2>4. b > 0 => shBase[p] + b <= ShLimit[p]
    BY <1>1, <2>3
  <2> QED BY <1>3, <2>1, <2>3, <2>4
<1>4. CASE ~charging
  <2> DEFINE b == Max({0, Min({ShLimit[p], ShLimit[p] + shBase[p]})})
  <2>1. Budget(p, charging) = b
    BY <1>4 DEF Budget
  <2>2. ShLimit[p] + shBase[p] \in Int
    BY <1>1
  <2>3. b \in Nat /\ (b > 0 => b <= ShLimit[p] + shBase[p])
    BY <1>2, <2>2
  <2> HIDE DEF b
  <2>4. b > 0 => (0 - shBase[p]) + b <= ShLimit[p]
    BY <1>1, <2>3
  <2> QED BY <1>4, <2>1, <2>3, <2>4
<1> QED BY <1>3, <1>4

\* An allowance is a power.
LEMMA AllowanceNat ==
    ASSUME Readings, NEW p \in Phases, NEW charging
    PROVE  Allowance(p, charging) \in Nat
<1>1. Budget(p, charging) \in Nat
  BY BudgetBounds
<1>2. shHold[p] \in Nat
  BY DEF Readings
<1> QED BY <1>1, <1>2 DEF Allowance, DarkBudget

Handing(charging) ==
    {d \in [got : [Packs -> Nat], rest : Int] :
        /\ \A u \in Packs : d.got[u] <= ShMax[u]
        /\ \A p \in Phases : Plus(d.got, OnPhase(p)) <= Allowance(p, charging)}

\* What one candidate takes over keeps every battery inside its limit and every phase inside its allowance.
LEMMA OfferedFits ==
    ASSUME Readings, NEW charging, NEW d \in Handing(charging), NEW u \in Packs
    PROVE  Offered(d, u, charging) \in Handing(charging)
<1>0. /\ d.got \in [Packs -> Nat] /\ d.rest \in Int /\ \A v \in Packs : d.got[v] <= ShMax[v]
      /\ \A p \in Phases : Plus(d.got, OnPhase(p)) <= Allowance(p, charging)
  BY DEF Handing
<1>1. d.got[u] \in Nat /\ ShMax[u] \in Nat /\ ShPhase[u] \in {0} \cup Phases /\ 0 \notin Phases
  <2>1. ShMax[u] \in Nat /\ ShPhase[u] \in {0} \cup Phases
    BY NumberFacts
  <2>2. 0 \notin Phases
    BY NumberFacts
  <2> QED BY <1>0, <2>1, <2>2
<1>2. \A p \in Phases : Plus(d.got, OnPhase(p)) \in Nat
  BY <1>0, PlusNat
<1> DEFINE room == Room(d.got, u, charging)
           x == ShMax[u] - d.got[u]
           y == Budget(ShPhase[u], charging) - Plus(d.got, OnPhase(ShPhase[u]))
<1>3. /\ room \in Int
      /\ room <= x \/ room = 0
      /\ \A p \in Phases : p = ShPhase[u] => room = 0 \/ Plus(d.got, OnPhase(p)) + room <= Allowance(p, charging)
  <2>1. CASE ShPhase[u] = 0
    <3>1. room = x /\ x \in Int
      BY <1>1, <2>1 DEF Room
    <3> QED BY <1>1, <2>1, <3>1
  <2>2. CASE ShPhase[u] # 0 /\ ShPhase[u] \in shDark
    <3>1. room = 0
      BY <2>2 DEF Room
    <3> QED BY <3>1
  <2>3. CASE ShPhase[u] # 0 /\ ShPhase[u] \notin shDark
    <3>1. room = Min({x, y})
      BY <2>3 DEF Room
    <3>2. ShPhase[u] \in Phases
      BY <1>1, <2>3
    <3>3. Budget(ShPhase[u], charging) \in Nat /\ Allowance(ShPhase[u], charging) = Budget(ShPhase[u], charging)
      BY <2>3, <3>2, BudgetBounds DEF Allowance
    <3>4. Plus(d.got, OnPhase(ShPhase[u])) \in Nat
      BY <1>2, <3>2
    <3>5. x \in Int /\ y \in Int
      BY <1>1, <3>3, <3>4
    <3>6. room \in Int /\ room <= x /\ room <= y
      <4> HIDE DEF x, y, room
      <4> QED BY <3>1, <3>5, MinTwo
    <3> HIDE DEF room
    <3>7. Plus(d.got, OnPhase(ShPhase[u])) + room <= Allowance(ShPhase[u], charging)
      BY <3>3, <3>4, <3>6
    <3> QED BY <3>6, <3>7
  <2> QED BY <2>1, <2>2, <2>3
<1> DEFINE more == Max({0, Min({d.rest, room})})
<1>4. more \in Nat /\ (more # 0 => room # 0 /\ more <= room)
  <2>1. Min({d.rest, room}) \in Int /\ Min({d.rest, room}) <= room
    <3> HIDE DEF room
    <3> QED BY <1>0, <1>3, MinTwo
  <2> DEFINE m == Min({d.rest, room})
  <2> HIDE DEF m, room
  <2>2. Max({0, m}) \in Nat /\ (Max({0, m}) # 0 => Max({0, m}) = m /\ m > 0)
    <3>1. m \in Int
      BY <2>1 DEF m
    <3>2. Max({0, m}) \in {0, m} /\ 0 <= Max({0, m}) /\ m <= Max({0, m})
      BY <3>1, MaxTwo
    <3> QED BY <3>1, <3>2
  <2> QED BY <1>3, <2>1, <2>2 DEF m
<1> DEFINE got == [d.got EXCEPT ![u] = @ + more]  rest == d.rest - more
<1>5. Offered(d, u, charging) = [got |-> got, rest |-> rest]
  BY DEF Offered
<1> HIDE DEF room, more, x
<1>6. got \in [Packs -> Nat] /\ rest \in Int /\ got[u] = d.got[u] + more /\ \A v \in Packs \ {u} : got[v] = d.got[v]
  BY <1>0, <1>1, <1>4
<1> HIDE DEF got, rest
<1>7. \A v \in Packs : got[v] <= ShMax[v]
  <2>1. got[u] <= ShMax[u]
    <3>1. d.got[u] <= ShMax[u]
      BY <1>0
    <3>2. CASE more = 0
      BY <1>1, <1>6, <3>1, <3>2
    <3>3. CASE more # 0
      <4>1. more <= x
        BY <1>3, <1>4, <3>3, <1>1 DEF x
      <4> QED BY <1>1, <1>4, <1>6, <4>1 DEF x
    <3> QED BY <3>2, <3>3
  <2> QED BY <1>0, <1>6, <2>1
<1>8. ASSUME NEW p \in Phases PROVE Plus(got, OnPhase(p)) <= Allowance(p, charging)
  <2>0. Summed(got) /\ Summed(d.got) /\ Plus(d.got, OnPhase(p)) \in Nat /\ Allowance(p, charging) \in Nat
    BY <1>0, <1>2, <1>6, AllowanceNat DEF Summed
  <2>1. CASE ShPhase[u] = p
    <3>1. u \in OnPhase(p)
      BY <2>1 DEF OnPhase
    <3>2. (\A v \in Packs \ {u} : Part(got, OnPhase(p), v) = Part(d.got, OnPhase(p), v))
          /\ Part(got, OnPhase(p), u) = Part(d.got, OnPhase(p), u) + more
      BY <1>6, <3>1 DEF Part
    <3>3. Plus(got, OnPhase(p)) = Plus(d.got, OnPhase(p)) + more
      BY <1>4, <2>0, <3>2, PlusMore
    <3>4. CASE more = 0
      BY <1>0, <2>0, <3>3, <3>4
    <3>5. CASE more # 0
      <4>1. Plus(d.got, OnPhase(p)) + room <= Allowance(p, charging)
        BY <1>3, <1>4, <2>1, <3>5
      <4> QED BY <1>3, <1>4, <2>0, <3>3, <3>5, <4>1
    <3> QED BY <3>4, <3>5
  <2>2. CASE ShPhase[u] # p
    <3>1. u \notin OnPhase(p)
      BY <2>2 DEF OnPhase
    <3>2. \A v \in Packs : Part(got, OnPhase(p), v) = Part(d.got, OnPhase(p), v)
      BY <1>6, <3>1 DEF Part
    <3>3. \A v \in Packs : Part(got, OnPhase(p), v) <= Part(d.got, OnPhase(p), v)
      BY <1>0, <3>2 DEF Part
    <3>4. Plus(got, OnPhase(p)) <= Plus(d.got, OnPhase(p))
      BY <2>0, <3>3, PlusCompare
    <3>5. Plus(got, OnPhase(p)) \in Int /\ Plus(d.got, OnPhase(p)) <= Allowance(p, charging)
      BY <1>0, <2>0, PlusInt
    <3> QED BY <2>0, <3>4, <3>5
  <2> QED BY <2>1, <2>2
<1> QED BY <1>5, <1>6, <1>7, <1>8 DEF Handing

\* A list with one more at its end.
LEMMA Appended ==
    ASSUME NEW K, NEW s \in Seq(K), NEW x \in K
    PROVE  /\ Append(s, x) \in Seq(K) /\ ToSet(Append(s, x)) = ToSet(s) \cup {x}
           /\ IsInjective(s) /\ x \notin ToSet(s) => IsInjective(Append(s, x))
<1> DEFINE a == Append(s, x)
<1>1. /\ a \in Seq(K) /\ Len(a) = Len(s) + 1 /\ Len(s) \in Nat /\ DOMAIN s = 1 .. Len(s) /\ DOMAIN a = 1 .. Len(s) + 1
      /\ a[Len(s) + 1] = x /\ \A i \in 1 .. Len(s) : a[i] = s[i]
  BY AppendProperties, LenProperties
<1> HIDE DEF a
<1>2. ToSet(a) = ToSet(s) \cup {x}
  <2>1. ToSet(s) \subseteq ToSet(a)
    BY <1>1 DEF ToSet
  <2>2. x \in ToSet(a)
    BY <1>1 DEF ToSet
  <2>3. ToSet(a) \subseteq ToSet(s) \cup {x}
    <3> SUFFICES ASSUME NEW i \in 1 .. Len(s) + 1 PROVE a[i] \in ToSet(s) \cup {x}
      BY <1>1 DEF ToSet
    <3>1. CASE i = Len(s) + 1
      BY <1>1, <3>1
    <3>2. CASE i # Len(s) + 1
      <4>1. i \in 1 .. Len(s)
        BY <1>1, <3>2
      <4> QED BY <1>1, <4>1 DEF ToSet
    <3> QED BY <3>1, <3>2
  <2> QED BY <2>1, <2>2, <2>3
<1>3. ASSUME IsInjective(s), x \notin ToSet(s) PROVE IsInjective(a)
  <2>1. \A i \in 1 .. Len(s) : s[i] # x
    BY <1>1, <1>3 DEF ToSet
  <2> SUFFICES ASSUME NEW i \in 1 .. Len(s) + 1, NEW j \in 1 .. Len(s) + 1, a[i] = a[j] PROVE i = j
    BY <1>1 DEF IsInjective
  <2>2. CASE i \in 1 .. Len(s) /\ j \in 1 .. Len(s)
    BY <1>1, <1>3, <2>2 DEF IsInjective
  <2>3. CASE i = Len(s) + 1
    BY <1>1, <2>1, <2>3
  <2>4. CASE j = Len(s) + 1
    BY <1>1, <2>1, <2>4
  <2> QED BY <1>1, <2>2, <2>3, <2>4
<1> QED BY <1>1, <1>2, <1>3 DEF a

(* What a list takes from another stands in the same order there. *)
InOrder(s, list) == \A i, j \in DOMAIN s, x, y \in DOMAIN list : i < j /\ s[i] = list[x] /\ s[j] = list[y] => x < y

\* The members of a list that are in a set, in the list's order.
LEMMA AmongList ==
    ASSUME NEW K, NEW list \in Seq(K), NEW S
    PROVE  /\ Among(list, S) \in Seq(K)
           /\ ToSet(Among(list, S)) = ToSet(list) \cap S
           /\ IsInjective(list) => IsInjective(Among(list, S)) /\ InOrder(Among(list, S), list)
           /\ ToSet(list) \subseteq S => Among(list, S) = list
<1> DEFINE N == Len(list)
           Q == Seq(K)
           Grow(i, q) == IF list[i] \in S THEN Append(q, list[i]) ELSE q
           Is(g) == g = [n \in 0 .. Len(list) |->
                           IF n = 0 THEN <<>> ELSE IF list[n] \in S THEN Append(g[n - 1], list[n]) ELSE g[n - 1]]
           step == [x \in (1 .. N) \X Q |-> Grow(x[1], x[2])]
           h == CHOOSE g : Is(g)
<1>0. N \in Nat /\ DOMAIN list = 1 .. N /\ (\A i \in 1 .. N : list[i] \in K) /\ <<>> \in Q
  BY LenProperties, ElementOfSeq
<1>1. Among(list, S) = h[Len(list)]
  BY DEF Among
<1>2. \A i \in 1 .. N : \A q \in Q : Grow(i, q) \in Q
  BY <1>0, AppendProperties
<1>3. step \in [(1 .. N) \X Q -> Q]
  <2> HIDE DEF Grow
  <2> QED BY <1>2
<1>4. PICK g \in [0 .. N -> Q] : g[0] = <<>> /\ \A i \in 1 .. N : g[i] = step[<<i, g[i - 1]>>]
  <2> HIDE DEF step, N, Q
  <2>1. RunsOf(N, Q, <<>>, step) # {}
    BY <1>0, <1>3, Repeats
  <2> QED BY <2>1 DEF RunsOf
<1>5. Is(h)
  <2>1. ASSUME NEW i \in 0 .. N PROVE g[i] = IF i = 0 THEN <<>> ELSE Grow(i, g[i - 1])
    <3>1. i # 0 => i \in 1 .. N /\ i - 1 \in 0 .. N
      BY <1>0
    <3> HIDE DEF N, Q, Grow
    <3> QED BY <1>4, <3>1
  <2>2. Is(g)
    <3>1. g = [i \in 0 .. N |-> g[i]]
      OBVIOUS
    <3> QED BY <2>1, <3>1
  <2> HIDE DEF Is
  <2> QED BY <2>2
<1>6. \A i \in 0 .. N : h[i] = IF i = 0 THEN <<>> ELSE Grow(i, h[i - 1])
  <2> HIDE DEF h
  <2> QED BY <1>5
<1> HIDE DEF h
<1> DEFINE T == {i \in 0 .. N : /\ h[i] \in Q
                                /\ ToSet(h[i]) = {list[j] : j \in 1 .. i} \cap S
                                /\ IsInjective(list) => IsInjective(h[i]) /\ InOrder(h[i], list)
                                /\ ToSet(list) \subseteq S => Len(h[i]) = i /\ \A j \in 1 .. i : h[i][j] = list[j]}
<1>7. \A i \in 0 .. N : i \in T
  <2>1. 0 \in T
    <3>1. 0 \in 0 .. N /\ h[0] = <<>> /\ 1 .. 0 = {}
      BY <1>0, <1>6
    <3>2. ToSet(<<>>) = {} /\ IsInjective(<<>>) /\ InOrder(<<>>, list) /\ Len(<<>>) = 0
      BY DEF ToSet, IsInjective, InOrder
    <3>3. {list[j] : j \in 1 .. 0} = {}
      BY <3>1
    <3> HIDE DEF N, Q
    <3> QED BY <1>0, <3>1, <3>2, <3>3
  <2>2. ASSUME NEW i \in 0 .. N - 1, i \in T PROVE i + 1 \in T
    <3>1. i + 1 \in 0 .. N /\ i + 1 \in 1 .. N /\ i + 1 # 0 /\ (i + 1) - 1 = i /\ i \in Nat
      BY <1>0
    <3>2. h[i] \in Q /\ ToSet(h[i]) = {list[j] : j \in 1 .. i} \cap S
          /\ (IsInjective(list) => IsInjective(h[i]) /\ InOrder(h[i], list))
          /\ (ToSet(list) \subseteq S => Len(h[i]) = i /\ \A j \in 1 .. i : h[i][j] = list[j])
      BY <2>2
    <3>3. {list[j] : j \in 1 .. i + 1} = {list[j] : j \in 1 .. i} \cup {list[i + 1]}
      <4>1. 1 .. i + 1 = (1 .. i) \cup {i + 1}
        BY <3>1
      <4> QED BY <4>1
    <3>4. h[i + 1] = Grow(i + 1, h[i])
      <4> HIDE DEF Grow, N
      <4> QED BY <1>6, <3>1
    <3>5. CASE list[i + 1] \in S
      <4>1. h[i + 1] = Append(h[i], list[i + 1]) /\ list[i + 1] \in K
        BY <1>0, <3>1, <3>4, <3>5
      <4>2. h[i + 1] \in Q /\ ToSet(h[i + 1]) = ToSet(h[i]) \cup {list[i + 1]}
            /\ (IsInjective(h[i]) /\ list[i + 1] \notin ToSet(h[i]) => IsInjective(h[i + 1]))
        <5>1. h[i] \in Seq(K) /\ list[i + 1] \in K
          BY <3>2, <4>1
        <5> QED BY <4>1, <5>1, Appended
      <4>3. ToSet(h[i + 1]) = {list[j] : j \in 1 .. i + 1} \cap S
        BY <3>2, <3>3, <3>5, <4>2
      <4>4. IsInjective(list) => list[i + 1] \notin ToSet(h[i])
        <5> SUFFICES ASSUME IsInjective(list), NEW j \in 1 .. i, list[j] = list[i + 1] PROVE FALSE
          BY <3>2
        <5>1. j \in DOMAIN list /\ i + 1 \in DOMAIN list /\ j # i + 1
          BY <1>0, <3>1
        <5> QED BY <5>1 DEF IsInjective
      <4>5. /\ Len(h[i]) \in Nat /\ DOMAIN h[i] = 1 .. Len(h[i]) /\ DOMAIN h[i + 1] = 1 .. Len(h[i]) + 1
            /\ Len(h[i + 1]) = Len(h[i]) + 1
            /\ h[i + 1][Len(h[i]) + 1] = list[i + 1] /\ \A j \in 1 .. Len(h[i]) : h[i + 1][j] = h[i][j]
        BY <3>2, <4>1, AppendProperties, LenProperties
      <4>6. IsInjective(list) => InOrder(h[i + 1], list)
        <5> SUFFICES ASSUME IsInjective(list), NEW v \in 1 .. Len(h[i]) + 1, NEW z \in 1 .. Len(h[i]) + 1, v < z,
                            NEW x \in 1 .. N, NEW y \in 1 .. N, h[i + 1][v] = list[x], h[i + 1][z] = list[y]
                     PROVE  x < y
          BY <1>0, <4>5 DEF InOrder
        <5>1. v \in 1 .. Len(h[i]) /\ h[i][v] = list[x]
          BY <4>5
        <5>2. CASE z \in 1 .. Len(h[i])
          <6>1. h[i][z] = list[y] /\ InOrder(h[i], list)
            BY <3>2, <4>5, <5>2
          <6> QED BY <1>0, <4>5, <5>1, <5>2, <6>1 DEF InOrder
        <5>3. CASE z \notin 1 .. Len(h[i])
          <6>1. z = Len(h[i]) + 1
            BY <4>5, <5>3
          <6>2. list[y] = list[i + 1] /\ y \in DOMAIN list /\ i + 1 \in DOMAIN list
            BY <1>0, <3>1, <4>5, <6>1
          <6>3. y = i + 1
            BY <6>2 DEF IsInjective
          <6>4. h[i][v] \in ToSet(h[i])
            BY <4>5, <5>1 DEF ToSet
          <6>5. PICK j \in 1 .. i : list[j] = list[x]
            BY <3>2, <5>1, <6>4
          <6>6. j \in DOMAIN list /\ x \in DOMAIN list
            BY <1>0, <3>1
          <6>7. j = x
            BY <6>5, <6>6 DEF IsInjective
          <6> QED BY <3>1, <6>3, <6>7
        <5> QED BY <5>2, <5>3
      <4>7. ToSet(list) \subseteq S => Len(h[i + 1]) = i + 1 /\ \A j \in 1 .. i + 1 : h[i + 1][j] = list[j]
        <5> SUFFICES ASSUME ToSet(list) \subseteq S PROVE Len(h[i + 1]) = i + 1 /\ \A j \in 1 .. i + 1 : h[i + 1][j] = list[j]
          OBVIOUS
        <5>1. Len(h[i]) = i /\ \A j \in 1 .. i : h[i][j] = list[j]
          BY <3>2
        <5>2. \A j \in 1 .. i + 1 : j \in 1 .. i \/ j = i + 1
          BY <3>1
        <5> QED BY <4>5, <5>1, <5>2
      <4> HIDE DEF N, Q
      <4> QED BY <3>1, <3>2, <4>2, <4>3, <4>4, <4>6, <4>7
    <3>6. CASE list[i + 1] \notin S
      <4>1. h[i + 1] = h[i]
        BY <3>4, <3>6
      <4>2. ToSet(h[i + 1]) = {list[j] : j \in 1 .. i + 1} \cap S
        BY <3>2, <3>3, <3>6, <4>1
      <4>3. ~(ToSet(list) \subseteq S)
        <5>1. list[i + 1] \in ToSet(list)
          BY <1>0, <3>1 DEF ToSet
        <5> QED BY <3>6, <5>1
      <4> HIDE DEF N, Q
      <4> QED BY <3>1, <3>2, <4>1, <4>2, <4>3
    <3> QED BY <3>5, <3>6
  <2> HIDE DEF T, N
  <2> QED BY <1>0, <2>1, <2>2, Climbs
<1>8. N \in T
  <2>1. N \in 0 .. N
    BY <1>0
  <2> HIDE DEF T, N
  <2> QED BY <1>7, <2>1
<1>9. ToSet(list) = {list[j] : j \in 1 .. N}
  BY <1>0 DEF ToSet
<1>10. ToSet(list) \subseteq S => h[N] = list
  <2> SUFFICES ASSUME ToSet(list) \subseteq S PROVE h[N] = list
    OBVIOUS
  <2>1. h[N] \in Seq(K) /\ Len(h[N]) = N /\ \A j \in 1 .. N : h[N][j] = list[j]
    BY <1>8
  <2> QED BY <2>1, SeqEqual
<1> HIDE DEF Grow
<1> QED BY <1>1, <1>8, <1>9, <1>10

\* What stands in a list of members of K is in K.
LEMMA InSet ==
    ASSUME NEW K, NEW s \in Seq(K)
    PROVE  ToSet(s) \subseteq K /\ \A i \in 1 .. Len(s) : s[i] \in ToSet(s)
BY LenProperties, ElementOfSeq DEF ToSet

\* The candidates for the redistribution are batteries.
LEMMA CandidatesList ==
    ASSUME NEW asked \in Seq(Packs), NEW others \in Seq(Packs)
    PROVE  Candidates(asked, others) \in Seq(Packs)
<1>1. Among(others, Packs \ ToSet(asked)) \in Seq(Packs)
  BY AmongList
<1> QED BY <1>1, ConcatProperties DEF Candidates

\* The first pass gives a phase no more than its allowance, and no battery more than it asked for.
LEMMA CappedFits ==
    ASSUME Readings, NEW charging, NEW need \in [Packs -> Nat], NEW asked \in Seq(Packs), NEW p \in Phases
    PROVE  /\ Capped(need, asked, p, charging) \in [Packs -> Nat]
           /\ \A u \in Packs : Capped(need, asked, p, charging)[u] <= Part(need, Group(asked, p), u)
           /\ Plus(Capped(need, asked, p, charging), Group(asked, p)) <= Allowance(p, charging)
<1> DEFINE total == Min({Plus(need, Group(asked, p)), Allowance(p, charging)})
<1>1. Plus(need, Group(asked, p)) \in Nat /\ Allowance(p, charging) \in Nat
  BY PlusNat, AllowanceNat
<1>2. total \in Nat /\ total <= Allowance(p, charging)
  <2>1. \A a, b \in Nat : Min({a, b}) \in Nat /\ Min({a, b}) <= b
    BY MinTwo
  <2> QED BY <1>1, <2>1
<1>3. Group(asked, p) \in SUBSET Packs
  BY DEF Group, OnPhase
<1>4. Capped(need, asked, p, charging) = CapGroup(total, need, Group(asked, p))
  BY DEF Capped
<1> DEFINE c == CapGroup(total, need, Group(asked, p))
<1>5. c \in [Packs -> Nat] /\ (\A u \in Packs : c[u] <= Part(need, Group(asked, p), u)) /\ Plus(c, Group(asked, p)) <= total
  <2> HIDE DEF total
  <2> QED BY <1>2, <1>3, CapGroupFits
<1>6. Plus(c, Group(asked, p)) \in Nat
  <2> HIDE DEF c
  <2> QED BY <1>5, PlusNat
<1>7. Plus(c, Group(asked, p)) <= Allowance(p, charging)
  <2> HIDE DEF c, total
  <2> QED BY <1>1, <1>2, <1>5, <1>6
<1> QED BY <1>4, <1>5, <1>7

(* The offers of LimitAllocation, one after another; at first nobody has more than it is asked for. *)
Asked(d, need, asked) ==
    /\ \A u \in Packs : d.got[u] <= Part(need, ToSet(asked), u)
    /\ d.rest = Plus(need, ToSet(asked)) - Plus(d.got, Packs)
ByOffers(g, need, asked, others, charging) ==
    /\ Asked(g[0], need, asked)
    /\ \A n \in 1 .. Len(Candidates(asked, others)) : g[n] = Offered(g[n - 1], Candidates(asked, others)[n], charging)

\* limit_allocation() as a run of offers, one candidate after the other.
LEMMA AllocationRun ==
    ASSUME Readings, NEW charging, NEW need \in [Packs -> Nat], \A u \in Packs : need[u] <= ShMax[u],
           NEW asked \in Seq(Packs), NEW others \in Seq(Packs)
    PROVE  /\ Len(Candidates(asked, others)) \in Nat
           /\ \E g \in [0 .. Len(Candidates(asked, others)) -> Handing(charging)] :
                 /\ ByOffers(g, need, asked, others, charging)
                 /\ LimitAllocation(need, asked, others, charging) = g[Len(Candidates(asked, others))].got
<1> DEFINE capped == [p \in Phases |-> Capped(need, asked, p, charging)]
           first == [u \in Packs |-> IF u \notin ToSet(asked) THEN 0
                                     ELSE IF ShPhase[u] = 0 THEN need[u] ELSE capped[ShPhase[u]][u]]
           cands == Candidates(asked, others)
           start == [got |-> first, rest |-> Plus(need, ToSet(asked)) - Plus(first, Packs)]
           Is(g) == g = [n \in 0 .. Len(cands) |-> IF n = 0 THEN start ELSE Offered(g[n - 1], cands[n], charging)]
           S == Handing(charging)
           N == Len(cands)
<1>0. N \in Nat /\ \A i \in 1 .. N : cands[i] \in Packs
  <2>1. cands \in Seq(Packs)
    BY CandidatesList
  <2> HIDE DEF cands
  <2> QED BY <2>1, LenProperties, ElementOfSeq
<1>1. start \in S /\ Asked(start, need, asked)
  <2>1. ASSUME NEW u \in Packs PROVE first[u] \in Nat /\ first[u] <= ShMax[u] /\ first[u] <= Part(need, ToSet(asked), u)
    <3>0. need[u] \in Nat /\ ShMax[u] \in Nat /\ need[u] <= ShMax[u] /\ ShPhase[u] \in {0} \cup Phases
      BY NumberFacts
    <3>1. CASE u \notin ToSet(asked)
      BY <3>0, <3>1 DEF Part
    <3>2. CASE u \in ToSet(asked) /\ ShPhase[u] = 0
      BY <3>0, <3>2 DEF Part
    <3>3. CASE u \in ToSet(asked) /\ ShPhase[u] # 0
      <4>1. ShPhase[u] \in Phases
        BY <3>0, <3>3
      <4>2. first[u] = Capped(need, asked, ShPhase[u], charging)[u]
        BY <3>3, <4>1
      <4>3. Capped(need, asked, ShPhase[u], charging) \in [Packs -> Nat]
            /\ Capped(need, asked, ShPhase[u], charging)[u] <= Part(need, Group(asked, ShPhase[u]), u)
        BY <4>1, CappedFits
      <4>4. first[u] \in Nat /\ first[u] <= need[u]
        <5> HIDE DEF first
        <5> QED BY <3>0, <4>2, <4>3 DEF Part
      <4> HIDE DEF first
      <4> QED BY <3>0, <3>3, <4>4 DEF Part
    <3> QED BY <3>1, <3>2, <3>3
  <2>2. first \in [Packs -> Nat]
    <3>1. first = [u \in Packs |-> first[u]]
      OBVIOUS
    <3> HIDE DEF first
    <3> QED BY <2>1, <3>1
  <2>3. ASSUME NEW p \in Phases PROVE Plus(first, OnPhase(p)) <= Allowance(p, charging)
    <3> DEFINE c == Capped(need, asked, p, charging)
    <3>1. c \in [Packs -> Nat] /\ (\A u \in Packs : c[u] <= Part(need, Group(asked, p), u)) /\ Plus(c, Group(asked, p)) <= Allowance(p, charging)
      BY CappedFits
    <3>2. 0 \notin Phases
      BY NumberFacts
    <3>3. ASSUME NEW u \in Packs PROVE Part(first, OnPhase(p), u) <= Part(c, Group(asked, p), u)
      <4>0. c[u] \in Nat
        BY <3>1
      <4>1. CASE u \notin OnPhase(p)
        <5>1. Part(first, OnPhase(p), u) = 0 /\ u \notin Group(asked, p)
          BY <4>1 DEF Part, Group
        <5> QED BY <5>1 DEF Part
      <4>2. CASE u \in OnPhase(p) /\ u \notin ToSet(asked)
        <5>1. Part(first, OnPhase(p), u) = 0 /\ u \notin Group(asked, p)
          BY <4>2 DEF Part, Group
        <5> QED BY <5>1 DEF Part
      <4>3. CASE u \in OnPhase(p) /\ u \in ToSet(asked)
        <5>1. u \in Group(asked, p) /\ ShPhase[u] = p /\ ShPhase[u] # 0
          BY <3>2, <4>3 DEF Group, OnPhase
        <5>2. first[u] = c[u]
          BY <4>3, <5>1
        <5> HIDE DEF first, c
        <5> QED BY <4>0, <4>3, <5>1, <5>2 DEF Part
      <4> QED BY <4>1, <4>2, <4>3
    <3> HIDE DEF first, c
    <3>4. Summed(first) /\ Summed(c) /\ Plus(c, Group(asked, p)) \in Nat /\ Plus(first, OnPhase(p)) \in Nat
      BY <2>2, <3>1, PlusNat DEF Summed
    <3>5. Plus(first, OnPhase(p)) <= Plus(c, Group(asked, p))
      BY <3>3, <3>4, PlusCompare
    <3> QED BY <3>1, <3>4, <3>5, AllowanceNat
  <2>4. Plus(need, ToSet(asked)) - Plus(first, Packs) \in Int
    <3> HIDE DEF first
    <3>1. Plus(need, ToSet(asked)) \in Nat /\ Plus(first, Packs) \in Nat
      BY <2>2, PlusNat
    <3> QED BY <3>1
  <2>5. Asked(start, need, asked)
    BY <2>1 DEF Asked
  <2>6. start \in S
    <3> HIDE DEF first
    <3> QED BY <2>1, <2>2, <2>3, <2>4 DEF Handing
  <2> QED BY <2>5, <2>6
<1>2. ASSUME NEW i \in 1 .. N, NEW d \in S PROVE Offered(d, cands[i], charging) \in S
  <2> HIDE DEF cands
  <2> QED BY <1>0, OfferedFits
<1> DEFINE step == [x \in (1 .. N) \X S |-> Offered(x[2], cands[x[1]], charging)]
           h == CHOOSE g : Is(g)
<1>3. LimitAllocation(need, asked, others, charging) = h[Len(cands)].got
  BY DEF LimitAllocation
<1> HIDE DEF S, start, cands
<1>4. step \in [(1 .. N) \X S -> S]
  BY <1>2
<1>5. PICK g \in [0 .. N -> S] : g[0] = start /\ \A i \in 1 .. N : g[i] = step[<<i, g[i - 1]>>]
  <2> HIDE DEF step, N
  <2>1. RunsOf(N, S, start, step) # {}
    BY <1>0, <1>1, <1>4, Repeats
  <2> QED BY <2>1 DEF RunsOf
<1>6. Is(h)
  <2>1. ASSUME NEW i \in 0 .. N PROVE g[i] = IF i = 0 THEN start ELSE Offered(g[i - 1], cands[i], charging)
    <3>1. i # 0 => i \in 1 .. N /\ i - 1 \in 0 .. N
      BY <1>0
    <3> HIDE DEF N
    <3> QED BY <1>5, <3>1
  <2>2. Is(g)
    <3>1. g = [i \in 0 .. N |-> g[i]]
      OBVIOUS
    <3> QED BY <2>1, <3>1
  <2> HIDE DEF Is
  <2> QED BY <2>2
<1>7. \A i \in 0 .. N : h[i] = IF i = 0 THEN start ELSE Offered(h[i - 1], cands[i], charging)
  <2> HIDE DEF h
  <2> QED BY <1>6
<1>10. h = [i \in 0 .. N |-> h[i]]
  <2>1. \A r : Is(r) => r = [i \in 0 .. N |-> r[i]]
    BY DEF cands
  <2> HIDE DEF h, Is
  <2> QED BY <1>6, <2>1
<1> HIDE DEF h
<1> DEFINE T == {i \in 0 .. N : h[i] \in S}
<1>8. \A i \in 0 .. N : i \in T
  <2>1. 0 \in T
    <3>1. 0 \in 0 .. N
      BY <1>0
    <3> HIDE DEF N
    <3> QED BY <1>1, <1>7, <3>1
  <2>2. ASSUME NEW i \in 0 .. N - 1, i \in T PROVE i + 1 \in T
    <3>1. i + 1 \in 0 .. N /\ i + 1 \in 1 .. N /\ i + 1 # 0 /\ (i + 1) - 1 = i
      BY <1>0
    <3> HIDE DEF N
    <3> QED BY <1>2, <1>7, <2>2, <3>1
  <2> HIDE DEF T, N
  <2> QED BY <1>0, <2>1, <2>2, Climbs
<1>11. h \in [0 .. N -> S]
  BY <1>8, <1>10
<1>12. h[0] = start /\ \A i \in 1 .. N : h[i] = Offered(h[i - 1], cands[i], charging)
  <2>1. 0 \in 0 .. N /\ \A i \in 1 .. N : i \in 0 .. N /\ i # 0
    BY <1>0
  <2> HIDE DEF N
  <2> QED BY <1>7, <2>1
<1>13. ByOffers(h, need, asked, others, charging)
  BY <1>1, <1>12 DEF ByOffers, cands
<1> QED BY <1>0, <1>3, <1>11, <1>13 DEF S, cands

\* limit_allocation(): every battery inside its limit, every phase inside its allowance.
LEMMA AllocationFits ==
    ASSUME Readings, NEW charging, NEW need \in [Packs -> Nat], \A u \in Packs : need[u] <= ShMax[u],
           NEW asked \in Seq(Packs), NEW others \in Seq(Packs)
    PROVE  LET got == LimitAllocation(need, asked, others, charging)
           IN /\ got \in [Packs -> Nat] /\ \A u \in Packs : got[u] <= ShMax[u]
              /\ \A p \in Phases : Plus(got, OnPhase(p)) <= Allowance(p, charging)
<1> DEFINE N == Len(Candidates(asked, others))
<1>1. N \in Nat
  BY AllocationRun
<1>2. PICK g \in [0 .. N -> Handing(charging)] : LimitAllocation(need, asked, others, charging) = g[N].got
  BY AllocationRun
<1> DEFINE d == g[N]
<1>3. d \in Handing(charging)
  <2>1. N \in 0 .. N
    BY <1>1
  <2> HIDE DEF N
  <2> QED BY <2>1
<1> HIDE DEF d
<1> QED BY <1>2, <1>3 DEF Handing, d

\* Rounding to the nearest does not pass a whole bound.
LEMMA HalfEvenFits ==
    ASSUME NEW n \in Nat, NEW d \in Nat \ {0}, NEW m \in Nat, n < m * d
    PROVE  HalfEven(n, d) \in Nat /\ HalfEven(n, d) <= m
<1> DEFINE q == n \div d
<1>1. q \in Nat /\ d * q <= n
  OBVIOUS
<1>2. q < m
  <2>1. d * q < d * m /\ q \in Nat
    <3>1. d * q \in Nat /\ m * d \in Nat /\ d * m = m * d
      BY <1>1
    <3> HIDE DEF q
    <3> QED BY <1>1, <3>1
  <2> HIDE DEF q
  <2> QED BY <2>1
<1>3. HalfEven(n, d) \in {q, q + 1}
  BY DEF HalfEven
<1> HIDE DEF q
<1> QED BY <1>1, <1>2, <1>3

Sharing(chosen) ==
    {s \in [rest : Nat, open : SUBSET Packs, got : [Packs -> Nat]] :
        s.open \subseteq ToSet(chosen) /\ \A u \in Packs : s.got[u] <= ShMax[u]}

Weights(w) == \A u \in Packs : w[u] \in Nat \ {0}

\* One battery's turn in a round: filled and out, or left as it was because its share fits.
LEMMA FullFits ==
    ASSUME NEW chosen \in Seq(Packs), NEW s \in Sharing(chosen), NEW w, Weights(w), NEW u \in Packs,
           NEW cap \in Nat, w[u] <= cap
    PROVE  /\ Filled(s, u, w, cap) \in Sharing(chosen) /\ Filled(s, u, w, cap).open \subseteq s.open
           /\ u \in Filled(s, u, w, cap).open => Filled(s, u, w, cap) = s /\ s.rest * w[u] < ShMax[u] * cap
<1>0. /\ s \in [rest : Nat, open : SUBSET Packs, got : [Packs -> Nat]]
      /\ s.rest \in Nat /\ s.open \subseteq Packs /\ s.got \in [Packs -> Nat]
      /\ s.open \subseteq ToSet(chosen) /\ \A v \in Packs : s.got[v] <= ShMax[v]
  BY DEF Sharing
<1>1. w[u] \in Nat \ {0} /\ ShMax[u] \in Nat \ {0}
  BY NumberFacts DEF Weights
<1>2. CASE s.rest * w[u] >= ShMax[u] * cap
  <2> DEFINE rest == s.rest - ShMax[u]  open == s.open \ {u}  got == [s.got EXCEPT ![u] = ShMax[u]]
  <2>1. Filled(s, u, w, cap) = [rest |-> rest, open |-> open, got |-> got]
    BY <1>2 DEF Filled
  <2>2. rest \in Nat
    <3>1. ShMax[u] * w[u] <= ShMax[u] * cap
      BY <1>1
    <3>2. ShMax[u] * w[u] <= s.rest * w[u]
      <4>1. ShMax[u] * w[u] \in Nat /\ ShMax[u] * cap \in Nat /\ s.rest * w[u] \in Nat
        BY <1>0, <1>1
      <4> QED BY <1>2, <3>1, <4>1
    <3>3. ShMax[u] <= s.rest
      BY <1>0, <1>1, <3>2
    <3> QED BY <1>0, <1>1, <3>3
  <2>3. got \in [Packs -> Nat] /\ \A v \in Packs : got[v] <= ShMax[v]
    BY <1>0, <1>1
  <2>4. open \subseteq Packs /\ open \subseteq ToSet(chosen) /\ open \subseteq s.open /\ u \notin open
    BY <1>0
  <2> HIDE DEF rest, open, got
  <2> QED BY <2>1, <2>2, <2>3, <2>4 DEF Sharing
<1>3. CASE ~(s.rest * w[u] >= ShMax[u] * cap)
  <2>1. Filled(s, u, w, cap) = s
    BY <1>3 DEF Filled
  <2>2. s.rest * w[u] < ShMax[u] * cap
    <3>1. s.rest * w[u] \in Nat /\ ShMax[u] * cap \in Nat
      BY <1>0, <1>1
    <3> QED BY <1>3, <3>1
  <2> QED BY <2>1, <2>2
<1> QED BY <1>2, <1>3

(* The pass over the batteries that Sifted makes, entry by entry. *)
SiftRun(g, s, w, chosen) ==
    /\ g[0] = s
    /\ \A k \in 1 .. Len(chosen) :
          g[k] = IF chosen[k] \in s.open THEN Filled(g[k - 1], chosen[k], w, Plus(w, s.open)) ELSE g[k - 1]

(* Every open battery weighs at most what all of them weigh. *)
LEMMA WeighsIn ==
    ASSUME NEW chosen \in Seq(Packs), NEW s \in Sharing(chosen), NEW w, Weights(w)
    PROVE  /\ Len(chosen) \in Nat /\ DOMAIN chosen = 1 .. Len(chosen) /\ \A i \in 1 .. Len(chosen) : chosen[i] \in Packs
           /\ s.open \subseteq Packs /\ s.open \subseteq ToSet(chosen)
           /\ Plus(w, s.open) \in Nat /\ \A u \in s.open : w[u] <= Plus(w, s.open) /\ w[u] \in Nat
<1> DEFINE cap == Plus(w, s.open)  N == Len(chosen)
<1>0. N \in Nat /\ (\A i \in 1 .. N : chosen[i] \in Packs) /\ DOMAIN chosen = 1 .. N /\ s.open \subseteq Packs /\ s.open \subseteq ToSet(chosen)
  <2>1. s.open \subseteq Packs /\ s.open \subseteq ToSet(chosen)
    BY DEF Sharing
  <2> QED BY <2>1, LenProperties, ElementOfSeq
<1>1. cap \in Nat /\ \A u \in s.open : w[u] <= cap /\ w[u] \in Nat
  <2>1. (\A u \in Packs : w[u] \in Nat) /\ Summed(w)
    BY DEF Weights, Summed
  <2>2. cap \in Nat
    BY <2>1, PlusNat
  <2>3. ASSUME NEW u \in s.open PROVE w[u] <= cap
    <3>1. u \in Packs /\ w[u] \in Int
      BY <1>0, <2>1
    <3>2. /\ \A v \in Packs \ {u} : Part(w, s.open, v) = Part(w, s.open \ {u}, v)
          /\ Part(w, s.open, u) = Part(w, s.open \ {u}, u) + w[u]
      BY <3>1 DEF Part
    <3>3. Plus(w, s.open) = Plus(w, s.open \ {u}) + w[u]
      <4> DEFINE all == s.open  less == s.open \ {u}
      <4> SUFFICES Plus(w, all) = Plus(w, less) + w[u]
        OBVIOUS
      <4>1. (\A v \in Packs \ {u} : Part(w, all, v) = Part(w, less, v)) /\ Part(w, all, u) = Part(w, less, u) + w[u]
        BY <3>2
      <4> HIDE DEF all, less
      <4> QED BY <2>1, <3>1, <4>1, PlusMore
    <3>4. Plus(w, s.open \ {u}) \in Nat
      BY <2>1, PlusNat
    <3> QED BY <2>1, <3>1, <3>3, <3>4
  <2> QED BY <1>0, <2>1, <2>2, <2>3
<1> QED BY <1>0, <1>1

\* A round's sifting as a run, one battery after the other.
LEMMA SiftedRun ==
    ASSUME NEW chosen \in Seq(Packs), NEW s \in Sharing(chosen), NEW w, Weights(w)
    PROVE  \E g \in [0 .. Len(chosen) -> Sharing(chosen)] : SiftRun(g, s, w, chosen) /\ Sifted(s, w, chosen) = g[Len(chosen)]
<1> DEFINE cap == Plus(w, s.open)
           N == Len(chosen)
           S == Sharing(chosen)
           Grow(k, d) == IF chosen[k] \in s.open THEN Filled(d, chosen[k], w, cap) ELSE d
           Is(g) == g = [k \in 0 .. Len(chosen) |->
                          IF k = 0 THEN s
                          ELSE IF chosen[k] \in s.open THEN Filled(g[k - 1], chosen[k], w, cap) ELSE g[k - 1]]
           step == [x \in (1 .. N) \X S |-> Grow(x[1], x[2])]
           h == CHOOSE g : Is(g)
<1>0. N \in Nat /\ \A i \in 1 .. N : chosen[i] \in Packs
  BY WeighsIn
<1>1. cap \in Nat /\ \A u \in s.open : w[u] <= cap
  BY WeighsIn
<1>2. ASSUME NEW k \in 1 .. N, NEW d \in S PROVE Grow(k, d) \in S
  <2>1. CASE chosen[k] \in s.open
    <3>1. Grow(k, d) = Filled(d, chosen[k], w, cap)
      BY <2>1
    <3>2. w[chosen[k]] <= cap /\ chosen[k] \in Packs /\ cap \in Nat
      BY <1>0, <1>1, <2>1
    <3> HIDE DEF Grow, cap
    <3> QED BY <3>1, <3>2, FullFits
  <2>2. CASE chosen[k] \notin s.open
    BY <2>2
  <2> HIDE DEF Grow
  <2> QED BY <2>1, <2>2
<1>3. Sifted(s, w, chosen) = h[Len(chosen)]
  BY DEF Sifted
<1>4. step \in [(1 .. N) \X S -> S]
  <2> HIDE DEF Grow, S, N
  <2> QED BY <1>2
<1>5. PICK g \in [0 .. N -> S] : g[0] = s /\ \A i \in 1 .. N : g[i] = step[<<i, g[i - 1]>>]
  <2> HIDE DEF step, N, S
  <2>1. s \in S
    BY DEF S
  <2>2. RunsOf(N, S, s, step) # {}
    BY <1>0, <1>4, <2>1, Repeats
  <2> QED BY <2>2 DEF RunsOf
<1>6. Is(h)
  <2>1. ASSUME NEW i \in 0 .. N PROVE g[i] = IF i = 0 THEN s ELSE Grow(i, g[i - 1])
    <3>1. i # 0 => i \in 1 .. N /\ i - 1 \in 0 .. N
      BY <1>0
    <3> HIDE DEF N, S, Grow
    <3> QED BY <1>5, <3>1
  <2>2. Is(g)
    <3>1. g = [i \in 0 .. N |-> g[i]]
      OBVIOUS
    <3> QED BY <2>1, <3>1
  <2> HIDE DEF Is
  <2> QED BY <2>2
<1>7. \A i \in 0 .. N : h[i] = IF i = 0 THEN s ELSE Grow(i, h[i - 1])
  <2> HIDE DEF h
  <2> QED BY <1>6
<1>10. h = [i \in 0 .. N |-> h[i]]
  <2>1. \A r : Is(r) => r = [i \in 0 .. N |-> r[i]]
    OBVIOUS
  <2> HIDE DEF h, Is
  <2> QED BY <1>6, <2>1
<1> HIDE DEF h, Grow
<1> DEFINE T == {i \in 0 .. N : h[i] \in S}
<1>8. \A i \in 0 .. N : i \in T
  <2>1. 0 \in T
    <3>1. 0 \in 0 .. N /\ h[0] = s
      BY <1>0, <1>7
    <3> QED BY <3>1
  <2>2. ASSUME NEW i \in 0 .. N - 1, i \in T PROVE i + 1 \in T
    <3>1. i + 1 \in 0 .. N /\ i + 1 \in 1 .. N /\ i + 1 # 0 /\ (i + 1) - 1 = i
      BY <1>0
    <3> HIDE DEF N
    <3> QED BY <1>2, <1>7, <2>2, <3>1
  <2> HIDE DEF T, N
  <2> QED BY <1>0, <2>1, <2>2, Climbs
<1>9. h \in [0 .. N -> S]
  <2>1. h = [i \in 0 .. N |-> h[i]]
    BY <1>10
  <2> QED BY <1>8, <2>1
<1>11. SiftRun(h, s, w, chosen)
  <2>1. 0 \in 0 .. N /\ \A i \in 1 .. N : i \in 0 .. N /\ i # 0
    BY <1>0
  <2>2. h[0] = s /\ \A i \in 1 .. N : h[i] = Grow(i, h[i - 1])
    <3> HIDE DEF N
    <3> QED BY <1>7, <2>1
  <2> QED BY <2>2 DEF SiftRun, Grow
<1> QED BY <1>3, <1>9, <1>11 DEF S

\* A round that fills nobody has found every share within its battery's limit.
LEMMA SiftedFits ==
    ASSUME NEW chosen \in Seq(Packs), NEW s \in Sharing(chosen), NEW w, Weights(w)
    PROVE  /\ Sifted(s, w, chosen) \in Sharing(chosen)
           /\ Sifted(s, w, chosen).open = s.open
                => \A u \in s.open : s.rest * w[u] < ShMax[u] * Plus(w, s.open)
<1> DEFINE cap == Plus(w, s.open)  N == Len(chosen)  S == Sharing(chosen)
<1>0. N \in Nat /\ (\A i \in 1 .. N : chosen[i] \in Packs) /\ DOMAIN chosen = 1 .. N /\ s.open \subseteq Packs /\ s.open \subseteq ToSet(chosen)
  BY WeighsIn
<1>1. cap \in Nat /\ \A u \in s.open : w[u] <= cap
  BY WeighsIn
<1>2. PICK h \in [0 .. N -> S] : SiftRun(h, s, w, chosen) /\ Sifted(s, w, chosen) = h[N]
  BY SiftedRun
<1>3. h[0] = s /\ \A k \in 1 .. N : h[k] = IF chosen[k] \in s.open THEN Filled(h[k - 1], chosen[k], w, cap) ELSE h[k - 1]
  BY <1>2 DEF SiftRun
<1> HIDE DEF cap
<1> DEFINE T == {i \in 0 .. N : /\ h[i] \in S /\ h[i].open \subseteq s.open
                                /\ h[i].open = s.open =>
                                     /\ h[i] = s
                                     /\ \A j \in 1 .. i : chosen[j] \in s.open =>
                                          s.rest * w[chosen[j]] < ShMax[chosen[j]] * cap}
<1>8. \A i \in 0 .. N : i \in T
  <2>1. 0 \in T
    <3>1. 0 \in 0 .. N /\ h[0] = s /\ 1 .. 0 = {}
      BY <1>0, <1>3
    <3> QED BY <3>1
  <2>2. ASSUME NEW i \in 0 .. N - 1, i \in T PROVE i + 1 \in T
    <3>1. i + 1 \in 0 .. N /\ i + 1 \in 1 .. N /\ i + 1 # 0 /\ (i + 1) - 1 = i /\ 1 .. i + 1 = (1 .. i) \cup {i + 1}
      BY <1>0
    <3>2. h[i + 1] = IF chosen[i + 1] \in s.open THEN Filled(h[i], chosen[i + 1], w, cap) ELSE h[i]
      <4> HIDE DEF N
      <4> QED BY <1>3, <3>1
    <3>3. h[i] \in S /\ h[i].open \subseteq s.open
          /\ (h[i].open = s.open =>
                /\ h[i] = s
                /\ \A j \in 1 .. i : chosen[j] \in s.open => s.rest * w[chosen[j]] < ShMax[chosen[j]] * cap)
      BY <2>2
    <3>4. /\ h[i + 1] \in S /\ h[i + 1].open \subseteq h[i].open
          /\ chosen[i + 1] \in s.open /\ chosen[i + 1] \in h[i + 1].open
                  => h[i + 1] = h[i] /\ h[i].rest * w[chosen[i + 1]] < ShMax[chosen[i + 1]] * cap
      <4>1. CASE chosen[i + 1] \in s.open
        <5>1. h[i + 1] = Filled(h[i], chosen[i + 1], w, cap) /\ w[chosen[i + 1]] <= cap /\ chosen[i + 1] \in Packs
          BY <1>0, <1>1, <3>1, <3>2, <4>1
        <5> QED BY <1>1, <3>3, <5>1, FullFits
      <4>2. CASE chosen[i + 1] \notin s.open
        BY <3>2, <3>3, <4>2
      <4> QED BY <4>1, <4>2
    <3>5. ASSUME h[i + 1].open = s.open
          PROVE  /\ h[i + 1] = s
                 /\ \A j \in 1 .. i + 1 : chosen[j] \in s.open => s.rest * w[chosen[j]] < ShMax[chosen[j]] * cap
      <4>1. h[i].open = s.open
        BY <3>3, <3>4, <3>5
      <4>2. h[i] = s /\ \A j \in 1 .. i : chosen[j] \in s.open => s.rest * w[chosen[j]] < ShMax[chosen[j]] * cap
        BY <3>3, <4>1
      <4>3. CASE chosen[i + 1] \in s.open
        <5>1. h[i + 1] = s /\ s.rest * w[chosen[i + 1]] < ShMax[chosen[i + 1]] * cap
          BY <3>4, <3>5, <4>2, <4>3
        <5> QED BY <3>1, <4>2, <5>1
      <4>4. CASE chosen[i + 1] \notin s.open
        <5>1. h[i + 1] = s
          BY <3>2, <4>2, <4>4
        <5> QED BY <3>1, <4>2, <4>4, <5>1
      <4> QED BY <4>3, <4>4
    <3> HIDE DEF S, N
    <3> QED BY <3>1, <3>3, <3>4, <3>5
  <2> HIDE DEF T, N
  <2> QED BY <1>0, <2>1, <2>2, Climbs
<1>9. N \in T
  <2>1. N \in 0 .. N
    BY <1>0
  <2> HIDE DEF T, N
  <2> QED BY <1>8, <2>1
<1>10. ASSUME h[N].open = s.open, NEW u \in s.open PROVE s.rest * w[u] < ShMax[u] * cap
  <2>1. PICK j \in 1 .. N : chosen[j] = u
    BY <1>0 DEF ToSet
  <2> QED BY <1>9, <1>10, <2>1
<1>11. h[N] \in S
  BY <1>9
<1> QED BY <1>2, <1>10, <1>11 DEF cap

\* A round hands out no more than the limits.
LEMMA RoundFits ==
    ASSUME NEW chosen \in Seq(Packs), NEW s \in Sharing(chosen), NEW w, Weights(w)
    PROVE  Round(s, w, chosen) \in Sharing(chosen)
<1>0. /\ s.rest \in Nat /\ s.open \subseteq Packs /\ s.got \in [Packs -> Nat] /\ DOMAIN s = {"rest", "open", "got"}
      /\ s.open \subseteq ToSet(chosen) /\ \A v \in Packs : s.got[v] <= ShMax[v]
      /\ s = [rest |-> s.rest, open |-> s.open, got |-> s.got]
  BY DEF Sharing
<1>1. CASE s.rest = 0 \/ s.open = {}
  BY <1>1 DEF Round
<1>2. CASE ~(s.rest = 0 \/ s.open = {}) /\ Sifted(s, w, chosen).open # s.open
  BY <1>2, SiftedFits DEF Round
<1>3. CASE ~(s.rest = 0 \/ s.open = {}) /\ Sifted(s, w, chosen).open = s.open
  <2> DEFINE cap == Plus(w, s.open)
             got == [u \in Packs |-> IF u \in s.open THEN HalfEven(s.rest * w[u], cap) ELSE s.got[u]]
  <2>1. Round(s, w, chosen) = [rest |-> 0, open |-> s.open, got |-> got]
    BY <1>3 DEF Round
  <2>2. \A u \in s.open : s.rest * w[u] < ShMax[u] * cap
    BY <1>3, SiftedFits
  <2>3. cap \in Nat
    BY PlusNat DEF Weights
  <2>4. ASSUME NEW u \in Packs PROVE got[u] \in Nat /\ got[u] <= ShMax[u]
    <3>1. CASE u \in s.open
      <4>1. w[u] \in Nat /\ ShMax[u] \in Nat /\ s.rest * w[u] \in Nat
        BY <1>0, NumberFacts DEF Weights
      <4>2. s.rest * w[u] < ShMax[u] * cap
        BY <2>2, <3>1
      <4> HIDE DEF cap
      <4>3. cap # 0
        <5>1. ShMax[u] * 0 = 0
          BY <4>1
        <5> QED BY <4>1, <4>2, <5>1
      <4>4. HalfEven(s.rest * w[u], cap) \in Nat /\ HalfEven(s.rest * w[u], cap) <= ShMax[u]
        <5> DEFINE n == s.rest * w[u]
        <5>1. n \in Nat /\ n < ShMax[u] * cap
          BY <4>1, <4>2
        <5> HIDE DEF n
        <5>2. HalfEven(n, cap) \in Nat /\ HalfEven(n, cap) <= ShMax[u]
          BY <2>3, <4>1, <4>3, <5>1, HalfEvenFits
        <5> QED BY <5>2 DEF n
      <4> QED BY <3>1, <4>4
    <3>2. CASE u \notin s.open
      BY <1>0, <3>2
    <3> QED BY <3>1, <3>2
  <2>5. got \in [Packs -> Nat]
    <3>1. got = [u \in Packs |-> got[u]]
      OBVIOUS
    <3> HIDE DEF got
    <3> QED BY <2>4, <3>1
  <2> HIDE DEF got
  <2> QED BY <1>0, <2>1, <2>4, <2>5 DEF Sharing
<1> QED BY <1>1, <1>2, <1>3

(* The rounds of Shares, one after another. *)
ByRounds(g, total, chosen, charging) ==
    /\ g[0] = [rest |-> Min({total, Plus(ShMax, ToSet(chosen))}), open |-> ToSet(chosen), got |-> [u \in Packs |-> 0]]
    /\ \A n \in 1 .. Len(chosen) : g[n] = Round(g[n - 1], IF charging THEN ShWeight ELSE ShMax, chosen)

\* _distribute_power_by_limits() as a run of rounds.
LEMMA SharesRun ==
    ASSUME NEW chosen \in Seq(Packs), NEW total \in Nat, NEW charging
    PROVE  \E g \in [0 .. Len(chosen) -> Sharing(chosen)] :
              ByRounds(g, total, chosen, charging) /\ Shares(total, chosen, charging) = g[Len(chosen)].got
<1> DEFINE w == IF charging THEN ShWeight ELSE ShMax
           N == Len(chosen)
           S == Sharing(chosen)
           all == [rest |-> Min({total, Plus(ShMax, ToSet(chosen))}), open |-> ToSet(chosen), got |-> [u \in Packs |-> 0]]
           Is(g) == g = [n \in 0 .. Len(chosen) |-> IF n = 0 THEN all ELSE Round(g[n - 1], w, chosen)]
           step == [x \in (1 .. N) \X S |-> Round(x[2], w, chosen)]
           h == CHOOSE g : Is(g)
<1>0. N \in Nat
  BY LenProperties
<1>1. Shares(total, chosen, charging) = h[Len(chosen)].got
  BY DEF Shares
<1>2. Weights(w)
  BY NumberFacts DEF Weights
<1>3. all \in S
  <2>1. Plus(ShMax, ToSet(chosen)) \in Nat
    BY NumberFacts, PlusNat
  <2>2. Min({total, Plus(ShMax, ToSet(chosen))}) \in Nat
    <3> DEFINE x == Plus(ShMax, ToSet(chosen))
    <3> HIDE DEF x
    <3>1. x \in Nat
      BY <2>1 DEF x
    <3>2. \A a, b \in Nat : Min({a, b}) \in Nat
      BY MinTwo
    <3> QED BY <3>1, <3>2 DEF x
  <2>3. ToSet(chosen) \in SUBSET Packs
    BY InSet
  <2>4. [u \in Packs |-> 0] \in [Packs -> Nat] /\ \A u \in Packs : [v \in Packs |-> 0][u] <= ShMax[u]
    BY NumberFacts
  <2> QED BY <2>2, <2>3, <2>4 DEF Sharing
<1> HIDE DEF w, S, all
<1>4. \A d \in S : Round(d, w, chosen) \in S
  BY <1>2, RoundFits DEF S
<1>5. step \in [(1 .. N) \X S -> S]
  BY <1>4
<1>6. PICK g \in [0 .. N -> S] : g[0] = all /\ \A i \in 1 .. N : g[i] = step[<<i, g[i - 1]>>]
  <2> HIDE DEF step, N
  <2>1. RunsOf(N, S, all, step) # {}
    BY <1>0, <1>3, <1>5, Repeats
  <2> QED BY <2>1 DEF RunsOf
<1>7. Is(h)
  <2>1. ASSUME NEW i \in 0 .. N PROVE g[i] = IF i = 0 THEN all ELSE Round(g[i - 1], w, chosen)
    <3>1. i # 0 => i \in 1 .. N /\ i - 1 \in 0 .. N
      BY <1>0
    <3> HIDE DEF N
    <3> QED BY <1>6, <3>1
  <2>2. Is(g)
    <3>1. g = [i \in 0 .. N |-> g[i]]
      OBVIOUS
    <3> QED BY <2>1, <3>1
  <2> HIDE DEF Is
  <2> QED BY <2>2
<1>8. \A i \in 0 .. N : h[i] = IF i = 0 THEN all ELSE Round(h[i - 1], w, chosen)
  <2> HIDE DEF h
  <2> QED BY <1>7
<1>10. h = [i \in 0 .. N |-> h[i]]
  <2>1. \A r : Is(r) => r = [i \in 0 .. N |-> r[i]]
    OBVIOUS
  <2> HIDE DEF h, Is
  <2> QED BY <1>7, <2>1
<1> HIDE DEF h
<1> DEFINE T == {i \in 0 .. N : h[i] \in S}
<1>9. \A i \in 0 .. N : i \in T
  <2>1. 0 \in T
    <3>1. 0 \in 0 .. N
      BY <1>0
    <3> HIDE DEF N
    <3> QED BY <1>3, <1>8, <3>1
  <2>2. ASSUME NEW i \in 0 .. N - 1, i \in T PROVE i + 1 \in T
    <3>1. i + 1 \in 0 .. N /\ i + 1 \in 1 .. N /\ i + 1 # 0 /\ (i + 1) - 1 = i
      BY <1>0
    <3> HIDE DEF N
    <3> QED BY <1>4, <1>8, <2>2, <3>1
  <2> HIDE DEF T, N
  <2> QED BY <1>0, <2>1, <2>2, Climbs
<1>11. h \in [0 .. N -> S]
  BY <1>9, <1>10
<1>12. h[0] = all /\ \A i \in 1 .. N : h[i] = Round(h[i - 1], w, chosen)
  <2>1. 0 \in 0 .. N /\ \A i \in 1 .. N : i \in 0 .. N /\ i # 0
    BY <1>0
  <2> HIDE DEF N
  <2> QED BY <1>8, <2>1
<1>13. ByRounds(h, total, chosen, charging)
  BY <1>12 DEF ByRounds, all, w
<1> QED BY <1>1, <1>11, <1>13 DEF S

\* _distribute_power_by_limits(): no battery gets more than its limit.
LEMMA SharesFit ==
    ASSUME NEW chosen \in Seq(Packs), NEW total \in Nat, NEW charging
    PROVE  /\ Shares(total, chosen, charging) \in [Packs -> Nat]
           /\ \A u \in Packs : Shares(total, chosen, charging)[u] <= ShMax[u]
<1>1. PICK g \in [0 .. Len(chosen) -> Sharing(chosen)] : Shares(total, chosen, charging) = g[Len(chosen)].got
  BY SharesRun
<1> DEFINE d == g[Len(chosen)]
<1>2. d \in Sharing(chosen)
  <2>1. Len(chosen) \in 0 .. Len(chosen)
    BY LenProperties
  <2> QED BY <2>1
<1> HIDE DEF d
<1> QED BY <1>1, <1>2 DEF Sharing, d

Lists == {s \in Seq(Packs) : IsInjective(s)}

\* What a list of different batteries is.
LEMMA ListIs ==
    ASSUME NEW s \in Lists
    PROVE  /\ s \in Seq(Packs) /\ Len(s) \in Nat /\ DOMAIN s = 1 .. Len(s) /\ ToSet(s) \subseteq Packs
           /\ \A i \in 1 .. Len(s) : s[i] \in Packs /\ s[i] \in ToSet(s)
           /\ \A i, j \in 1 .. Len(s) : s[i] = s[j] => i = j
<1>1. s \in Seq(Packs) /\ IsInjective(s)
  BY DEF Lists
<1>2. Len(s) \in Nat /\ DOMAIN s = 1 .. Len(s)
  BY <1>1, LenProperties
<1>3. \A i \in 1 .. Len(s) : s[i] \in Packs
  BY <1>1, ElementOfSeq
<1> QED BY <1>1, <1>2, <1>3, InSet DEF IsInjective

\* The empty list is one.
LEMMA EmptyList ==
    <<>> \in Lists /\ ToSet(<<>>) = {}
<1>1. <<>> \in Seq(Packs)
  OBVIOUS
<1> QED BY <1>1 DEF Lists, IsInjective, ToSet

\* The configured order lists every battery.
LEMMA AllInTurn ==
    InTurn \in Lists /\ ToSet(InTurn) = Packs /\ Len(InTurn) = Len(ShPhase) /\ \A u \in Packs : InTurn[u] = u
<1> DEFINE N == Len(ShPhase)
<1>1. N \in Nat /\ Packs = 1 .. N
  BY NumberFacts
<1>2. InTurn = [u \in 1 .. N |-> u]
  BY <1>1 DEF InTurn
<1> HIDE DEF N
<1>3. InTurn \in [1 .. N -> Packs]
  BY <1>1, <1>2
<1>4. InTurn \in Seq(Packs) /\ Len(InTurn) = N
  BY <1>1, <1>3, IsASeq, LenProperties
<1>5. IsInjective(InTurn) /\ ToSet(InTurn) = Packs
  BY <1>1, <1>2 DEF IsInjective, ToSet
<1> QED BY <1>1, <1>2, <1>4, <1>5 DEF Lists, N

\* A part of such a list is one.
LEMMA AmongLists ==
    ASSUME NEW s \in Lists, NEW S
    PROVE  Among(s, S) \in Lists /\ ToSet(Among(s, S)) = ToSet(s) \cap S
BY AmongList DEF Lists

\* Two lists without a common battery make one.
LEMMA Joined ==
    ASSUME NEW s \in Lists, NEW t \in Lists, ToSet(s) \cap ToSet(t) = {}
    PROVE  s \o t \in Lists /\ ToSet(s \o t) = ToSet(s) \cup ToSet(t)
<1> DEFINE c == s \o t  M == Len(s)  N == Len(t)
<1>0. /\ M \in Nat /\ N \in Nat /\ s \in Seq(Packs) /\ t \in Seq(Packs) /\ DOMAIN s = 1 .. M /\ DOMAIN t = 1 .. N
      /\ \A i \in 1 .. M : s[i] \in ToSet(s)
      /\ \A i \in 1 .. N : t[i] \in ToSet(t)
      /\ \A i, j \in 1 .. M : s[i] = s[j] => i = j
      /\ \A i, j \in 1 .. N : t[i] = t[j] => i = j
  BY ListIs
<1>1. /\ c \in Seq(Packs) /\ Len(c) = M + N
      /\ \A i \in 1 .. M + N : c[i] = IF i <= M THEN s[i] ELSE t[i - M]
  BY <1>0, ConcatProperties
<1>2. DOMAIN c = 1 .. M + N
  BY <1>1, LenProperties
<1> HIDE DEF c, M, N
<1>3. (\A i \in 1 .. M : i \in 1 .. M + N /\ c[i] = s[i]) /\ (\A i \in 1 .. N : i + M \in 1 .. M + N /\ c[i + M] = t[i])
  <2>1. \A i \in 1 .. M : i \in 1 .. M + N /\ i <= M
    BY <1>0
  <2>2. \A i \in 1 .. N : i + M \in 1 .. M + N /\ ~(i + M <= M) /\ (i + M) - M = i
    BY <1>0
  <2> QED BY <1>1, <2>1, <2>2
<1>4. \A k \in 1 .. M + N : k \in 1 .. M \/ \E i \in 1 .. N : k = i + M
  <2> SUFFICES ASSUME NEW k \in 1 .. M + N, k \notin 1 .. M PROVE \E i \in 1 .. N : k = i + M
    OBVIOUS
  <2>1. k - M \in 1 .. N /\ k = (k - M) + M
    BY <1>0
  <2> QED BY <2>1
<1>5. ToSet(c) = ToSet(s) \cup ToSet(t)
  <2>1. ToSet(c) = {c[k] : k \in 1 .. M + N} /\ ToSet(s) = {s[k] : k \in 1 .. M} /\ ToSet(t) = {t[k] : k \in 1 .. N}
    BY <1>0, <1>2 DEF ToSet
  <2> QED BY <1>3, <1>4, <2>1
<1>6. IsInjective(c)
  <2> SUFFICES ASSUME NEW i \in 1 .. M + N, NEW j \in 1 .. M + N, c[i] = c[j] PROVE i = j
    BY <1>2 DEF IsInjective
  <2>1. CASE i \in 1 .. M /\ j \in 1 .. M
    BY <1>0, <1>3, <2>1
  <2>2. CASE i \in 1 .. M /\ j \notin 1 .. M
    <3>1. PICK y \in 1 .. N : j = y + M
      BY <1>4, <2>2
    <3>2. c[i] \in ToSet(s) /\ c[j] \in ToSet(t)
      BY <1>0, <1>3, <2>2, <3>1
    <3> QED BY <3>2
  <2>3. CASE i \notin 1 .. M /\ j \in 1 .. M
    <3>1. PICK x \in 1 .. N : i = x + M
      BY <1>4, <2>3
    <3>2. c[j] \in ToSet(s) /\ c[i] \in ToSet(t)
      BY <1>0, <1>3, <2>3, <3>1
    <3> QED BY <3>2
  <2>4. CASE i \notin 1 .. M /\ j \notin 1 .. M
    <3>1. PICK x \in 1 .. N : i = x + M
      BY <1>4, <2>4
    <3>2. PICK y \in 1 .. N : j = y + M
      BY <1>4, <2>4
    <3>3. t[x] = t[y]
      BY <1>3, <3>1, <3>2
    <3> QED BY <1>0, <3>1, <3>2, <3>3
  <2> QED BY <2>1, <2>2, <2>3, <2>4
<1>7. c \in Lists
  BY <1>1, <1>6 DEF Lists
<1> QED BY <1>5, <1>7 DEF c

(* The first n of a list. *)
LEMMA FirstOf ==
    ASSUME NEW s \in Lists, NEW n \in 0 .. Len(s)
    PROVE  /\ SubSeq(s, 1, n) \in Lists /\ Len(SubSeq(s, 1, n)) = n
           /\ \A i \in 1 .. n : SubSeq(s, 1, n)[i] = s[i]
           /\ ToSet(SubSeq(s, 1, n)) = {s[i] : i \in 1 .. n}
<1> DEFINE a == SubSeq(s, 1, n)
<1>0. Len(s) \in Nat /\ n \in Nat /\ n \in Int /\ 1 \in Int /\ 1 .. n \subseteq 1 .. Len(s)
  BY ListIs
<1>1. \A i \in 1 .. n : s[i] \in Packs
  BY <1>0, ListIs
<1>2. a \in Seq(Packs) /\ Len(a) = (IF 1 <= n THEN n - 1 + 1 ELSE 0) /\ \A i \in 1 .. n - 1 + 1 : a[i] = s[1 + i - 1]
  BY <1>0, <1>1, SubSeqProperties
<1> HIDE DEF a
<1>3. Len(a) = n
  BY <1>0, <1>2
<1>4. \A i \in 1 .. n : a[i] = s[i]
  <2>1. \A i \in 1 .. n : i \in 1 .. n - 1 + 1 /\ 1 + i - 1 = i
    BY <1>0
  <2> QED BY <1>2, <2>1
<1>5. DOMAIN a = 1 .. n
  BY <1>2, <1>3, LenProperties
<1>6. ToSet(a) = {s[i] : i \in 1 .. n}
  BY <1>4, <1>5 DEF ToSet
<1>7. IsInjective(a)
  <2>1. \A i, j \in 1 .. Len(s) : s[i] = s[j] => i = j
    BY ListIs
  <2> QED BY <1>0, <1>4, <1>5, <2>1 DEF IsInjective
<1> QED BY <1>2, <1>3, <1>4, <1>6, <1>7 DEF Lists, a

(* The power of the first n of an order. *)
First(order, n) == Plus(ShMax, ToSet(SubSeq(order, 1, n)))

\* The limits of any set of batteries add up.
LEMMA MaxSums == \A S : Plus(ShMax, S) \in Nat
BY NumberFacts, PlusNat

(* The shortest beginning of the order that is enough, or all of it. *)
LEMMA TakeIs ==
    ASSUME NEW power \in Nat, NEW order \in Lists
    PROVE  \E n \in 0 .. Len(order) :
              /\ Take(power, order) = SubSeq(order, 1, n)
              /\ n = Len(order) \/ (n > 0 /\ 100 * power <= ShAct * First(order, n))
              /\ \A m \in 1 .. n - 1 : 100 * power > ShAct * First(order, m)
<1> DEFINE L == Len(order)
           Ends(n) == n = L \/ (n > 0 /\ 100 * power <= ShAct * Plus(ShMax, ToSet(SubSeq(order, 1, n))))
           T == {n \in 0 .. L : Ends(n)}
           Right(n) == Ends(n) /\ \A m \in 1 .. n - 1 : 100 * power > ShAct * Plus(ShMax, ToSet(SubSeq(order, 1, m)))
<1>0. L \in Nat
  BY ListIs
<1>1. T \subseteq Nat /\ L \in T
  BY <1>0
<1>2. PICK n \in T : \A k \in T : n <= k
  <2> HIDE DEF T
  <2> QED BY <1>1, NatLeast
<1>3. Right(n)
  <2>1. Ends(n)
    OBVIOUS
  <2>2. ASSUME NEW m \in 1 .. n - 1 PROVE 100 * power > ShAct * Plus(ShMax, ToSet(SubSeq(order, 1, m)))
    <3>1. m \in 0 .. L /\ m > 0 /\ ~(n <= m)
      BY <1>0
    <3>2. ~Ends(m)
      BY <1>2, <3>1
    <3>3. 100 * power \in Int /\ ShAct * Plus(ShMax, ToSet(SubSeq(order, 1, m))) \in Int
      BY NumberFacts, MaxSums
    <3> QED BY <3>1, <3>2, <3>3
  <2> QED BY <2>1, <2>2
<1> DEFINE c == CHOOSE x \in 0 .. L : Right(x)
<1>4. c \in 0 .. L /\ Right(c)
  <2> HIDE DEF Right, L
  <2> QED BY <1>3
<1>5. Take(power, order) = SubSeq(order, 1, c)
  BY DEF Take
<1> HIDE DEF c
<1> QED BY <1>4, <1>5 DEF First

\* A battery that stays, or the next of the order that comes in: a list of batteries of the order.
LEMMA StaysIs ==
    ASSUME NEW power \in Nat, NEW order \in Lists, NEW s \in Lists, NEW u \in Packs
    PROVE  /\ Stays(s, u, power, order) \in Lists
           /\ ToSet(Stays(s, u, power, order)) \subseteq ToSet(s) \cup ToSet(order)
<1>0. s \in Seq(Packs) /\ IsInjective(s)
  BY DEF Lists
<1>1. CASE u \notin ToSet(s) /\ u \in ToSet(order) /\ 100 * power > ShDrop * Plus(ShMax, ToSet(s))
  <2>1. Stays(s, u, power, order) = Append(s, u)
    BY <1>1 DEF Stays
  <2>2. Append(s, u) \in Seq(Packs) /\ ToSet(Append(s, u)) = ToSet(s) \cup {u} /\ IsInjective(Append(s, u))
    BY <1>0, <1>1, Appended
  <2> QED BY <1>1, <2>1, <2>2 DEF Lists
<1>2. CASE ~(u \notin ToSet(s) /\ u \in ToSet(order) /\ 100 * power > ShDrop * Plus(ShMax, ToSet(s)))
  <2>1. Stays(s, u, power, order) = s
    BY <1>2 DEF Stays
  <2> QED BY <2>1
<1> QED BY <1>1, <1>2

(* The recursion of Steady, entry by entry. *)
StaysRun(g, power, order, used) ==
    /\ g[0] = Take(power, order)
    /\ \A n \in 1 .. Len(used) : g[n] = Stays(g[n - 1], used[n], power, order)
Trimmed(stay, power, used) ==
    IF /\ used # <<>> /\ Len(stay) > 1 /\ stay[Len(stay)] \notin ToSet(used)
       /\ 100 * power <= ShJoin * Plus(ShMax, ToSet(Front(stay)))
    THEN Front(stay) ELSE stay

\* The batteries that stay, found one after the other.
LEMMA SteadyRun ==
    ASSUME NEW power \in Nat, NEW order \in Lists, NEW used \in Lists
    PROVE  \E g \in [0 .. Len(used) -> {q \in Lists : ToSet(q) \subseteq ToSet(order)}] :
              StaysRun(g, power, order, used) /\ Steady(power, order, used) = Trimmed(g[Len(used)], power, used)
<1> DEFINE N == Len(used)
           S == {q \in Lists : ToSet(q) \subseteq ToSet(order)}
           start == Take(power, order)
           Is(g) == g = [n \in 0 .. Len(used) |->
                           IF n = 0 THEN Take(power, order) ELSE Stays(g[n - 1], used[n], power, order)]
           step == [x \in (1 .. N) \X S |-> Stays(x[2], used[x[1]], power, order)]
           h == CHOOSE g : Is(g)
<1>0. N \in Nat /\ \A i \in 1 .. N : used[i] \in Packs
  BY ListIs
<1>1. Steady(power, order, used) = Trimmed(h[Len(used)], power, used)
  BY DEF Steady, Trimmed
<1>2. start \in S
  <2>1. PICK n \in 0 .. Len(order) : Take(power, order) = SubSeq(order, 1, n)
    BY TakeIs
  <2>2. start \in Lists /\ ToSet(start) = {order[i] : i \in 1 .. n}
    BY <2>1, FirstOf
  <2>3. 1 .. n \subseteq 1 .. Len(order)
    BY ListIs
  <2>4. \A i \in 1 .. Len(order) : order[i] \in ToSet(order)
    BY ListIs
  <2> QED BY <2>2, <2>3, <2>4
<1>3. ASSUME NEW i \in 1 .. N, NEW q \in S PROVE Stays(q, used[i], power, order) \in S
  <2>1. q \in Lists /\ ToSet(q) \subseteq ToSet(order) /\ used[i] \in Packs
    BY <1>0
  <2> QED BY <2>1, StaysIs
<1> HIDE DEF S
<1>4. step \in [(1 .. N) \X S -> S]
  BY <1>3
<1>5. PICK g \in [0 .. N -> S] : g[0] = start /\ \A i \in 1 .. N : g[i] = step[<<i, g[i - 1]>>]
  <2> HIDE DEF step, N, start
  <2>1. RunsOf(N, S, start, step) # {}
    BY <1>0, <1>2, <1>4, Repeats
  <2> QED BY <2>1 DEF RunsOf
<1>6. Is(h)
  <2>1. ASSUME NEW i \in 0 .. N PROVE g[i] = IF i = 0 THEN start ELSE Stays(g[i - 1], used[i], power, order)
    <3>1. i # 0 => i \in 1 .. N /\ i - 1 \in 0 .. N
      BY <1>0
    <3> HIDE DEF N, start
    <3> QED BY <1>5, <3>1
  <2>2. Is(g)
    <3>1. g = [i \in 0 .. N |-> g[i]]
      OBVIOUS
    <3> QED BY <2>1, <3>1
  <2> HIDE DEF Is
  <2> QED BY <2>2
<1>7. h = [i \in 0 .. N |-> h[i]] /\ \A i \in 0 .. N : h[i] = IF i = 0 THEN start ELSE Stays(h[i - 1], used[i], power, order)
  <2> HIDE DEF h
  <2> QED BY <1>6
<1> HIDE DEF h, start
<1> DEFINE T == {i \in 0 .. N : h[i] \in S}
<1>8. \A i \in 0 .. N : i \in T
  <2>1. 0 \in T
    <3>1. 0 \in 0 .. N
      BY <1>0
    <3> HIDE DEF N
    <3> QED BY <1>2, <1>7, <3>1
  <2>2. ASSUME NEW i \in 0 .. N - 1, i \in T PROVE i + 1 \in T
    <3>1. i + 1 \in 0 .. N /\ i + 1 \in 1 .. N /\ i + 1 # 0 /\ (i + 1) - 1 = i
      BY <1>0
    <3> HIDE DEF N
    <3> QED BY <1>3, <1>7, <2>2, <3>1
  <2> HIDE DEF T, N
  <2> QED BY <1>0, <2>1, <2>2, Climbs
<1>9. h \in [0 .. N -> S]
  BY <1>7, <1>8
<1>10. StaysRun(h, power, order, used)
  <2>1. 0 \in 0 .. N /\ \A i \in 1 .. N : i \in 0 .. N /\ i # 0
    BY <1>0
  <2>2. h[0] = start /\ \A i \in 1 .. N : h[i] = Stays(h[i - 1], used[i], power, order)
    <3> HIDE DEF N
    <3> QED BY <1>7, <2>1
  <2> QED BY <2>2 DEF StaysRun, start
<1> QED BY <1>1, <1>9, <1>10 DEF S

\* The steady choice is a list of different batteries.
LEMMA SteadyList ==
    ASSUME NEW power \in Nat, NEW order \in Lists, NEW used \in Lists
    PROVE  Steady(power, order, used) \in Lists
<1>1. PICK g \in [0 .. Len(used) -> {q \in Lists : ToSet(q) \subseteq ToSet(order)}] :
         Steady(power, order, used) = Trimmed(g[Len(used)], power, used)
  BY SteadyRun
<1> DEFINE q == g[Len(used)]
<1>2. q \in Lists
  <2>1. Len(used) \in 0 .. Len(used)
    BY ListIs
  <2> QED BY <2>1
<1> HIDE DEF q
<1>3. Len(q) > 1 => Front(q) \in Lists
  <2>1. Len(q) > 1 => Len(q) - 1 \in 0 .. Len(q)
    BY <1>2, ListIs
  <2> QED BY <1>2, <2>1, FirstOf DEF Front
<1> QED BY <1>1, <1>2, <1>3 DEF Trimmed, q

\* A list without members is empty.
LEMMA NothingTo ==
    ASSUME NEW s \in Lists, ToSet(s) = {}
    PROVE  s = <<>>
<1>1. Len(s) \in Nat /\ \A i \in 1 .. Len(s) : s[i] \in ToSet(s)
  BY ListIs
<1>2. Len(s) = 0
  <2> SUFFICES ASSUME Len(s) # 0 PROVE FALSE
    OBVIOUS
  <2>1. 1 \in 1 .. Len(s)
    BY <1>1
  <2> QED BY <1>1, <2>1
<1> QED BY <1>2, ListIs, EmptySeq

\* _select_batteries_for_operation() chooses different batteries.
LEMMA SelectList ==
    ASSUME NEW power \in Nat, NEW order \in Lists, NEW used \in Lists, NEW keep
    PROVE  Select(power, order, used, keep) \in Lists
<1> DEFINE now == Steady(power, order, used)
           more == Among(used, {u \in ToSet(order) \ ToSet(now) : keep[u] > 0})
<1>1. now \in Lists
  BY SteadyList
<1>2. more \in Lists /\ ToSet(more) = ToSet(used) \cap {u \in ToSet(order) \ ToSet(now) : keep[u] > 0}
  BY AmongLists
<1>3. ToSet(now) \cap ToSet(more) = {}
  BY <1>2
<1>4. Select(power, order, used, keep) = now \o more
  BY DEF Select
<1> HIDE DEF now, more
<1> QED BY <1>1, <1>2, <1>3, <1>4, Joined

\* The order has every battery that is available, once.
LEMMA OrderList ==
    ASSUME NEW used \in Lists, NEW avail \in SUBSET Packs
    PROVE  Order(used, avail) \in Lists /\ ToSet(Order(used, avail)) = avail
<1> DEFINE a == Among(used, avail)  b == Among(InTurn, avail \ ToSet(used))
<1>1. a \in Lists /\ ToSet(a) = ToSet(used) \cap avail
  BY AmongLists
<1>2. b \in Lists /\ ToSet(b) = avail \ ToSet(used)
  BY AmongLists, AllInTurn
<1>3. Order(used, avail) = a \o b /\ ToSet(a) \cap ToSet(b) = {}
  BY <1>1, <1>2 DEF Order
<1> HIDE DEF a, b
<1>4. a \o b \in Lists /\ ToSet(a \o b) = ToSet(a) \cup ToSet(b)
  BY <1>1, <1>2, <1>3, Joined
<1> QED BY <1>1, <1>2, <1>3, <1>4

\* The candidates: those asked and then the others, once each.
LEMMA CandidatesLists ==
    ASSUME NEW asked \in Lists, NEW others \in Lists
    PROVE  Candidates(asked, others) \in Lists /\ ToSet(Candidates(asked, others)) = ToSet(asked) \cup ToSet(others)
<1> DEFINE b == Among(others, Packs \ ToSet(asked))
<1>1. b \in Lists /\ ToSet(b) = ToSet(others) \cap (Packs \ ToSet(asked))
  BY AmongLists
<1>2. Candidates(asked, others) = asked \o b /\ ToSet(asked) \cap ToSet(b) = {} /\ ToSet(others) \subseteq Packs
  BY <1>1, ListIs DEF Candidates
<1> HIDE DEF b
<1> QED BY <1>1, <1>2, Joined

HoldFits == \A p \in Phases : shHold[p] > 0 => shHold[p] - shKnown[p] <= ShLimit[p]
ShInv == ShTypeOK /\ shActive \in Lists /\ HoldFits /\ PhaseEnvelope /\ BlindStaysInside

\* What is held back on a blind phase fits its fuse with the last good reading.
LEMMA HeldFits ==
    ASSUME ShInv
    PROVE  /\ Held \in [Phases -> Nat] /\ Seen \in [Phases -> ShBases]
           /\ \A p \in Phases : Held[p] > 0 => Held[p] - Seen[p] <= ShLimit[p]
<1>0. /\ shBase \in [Phases -> ShBases] /\ shHold \in [Phases -> Nat] /\ shKnown \in [Phases -> ShBases]
      /\ shOut \in [Packs -> Int] /\ Readings /\ HoldFits /\ ShBases \subseteq Int
  BY NumberFacts DEF ShInv, ShTypeOK, Readings
<1>1. ASSUME NEW p \in Phases
      PROVE  Held[p] \in Nat /\ Seen[p] \in ShBases /\ (Held[p] > 0 => Held[p] - Seen[p] <= ShLimit[p])
  <2>1. CASE p \in shDark
    <3>1. Held[p] = shHold[p] /\ Seen[p] = shKnown[p]
      BY <2>1 DEF Held, Seen
    <3> QED BY <1>0, <3>1 DEF HoldFits
  <2>2. CASE p \notin shDark
    <3> DEFINE x == Max({0, -Plus(shOut, OnPhase(p))})  b == Budget(p, FALSE)
    <3>1. Held[p] = Min({x, b}) /\ Seen[p] = shBase[p]
      BY <2>2 DEF Held, Seen
    <3>2. x \in Nat
      <4>1. Plus(shOut, OnPhase(p)) \in Int
        BY <1>0, PlusInt DEF Summed
      <4>2. -Plus(shOut, OnPhase(p)) \in Int
        BY <4>1
      <4> DEFINE y == -Plus(shOut, OnPhase(p))
      <4>3. \A z \in Int : Max({0, z}) \in Nat
        <5> SUFFICES ASSUME NEW z \in Int PROVE Max({0, z}) \in Nat
          OBVIOUS
        <5>1. Max({0, z}) \in {0, z} /\ 0 <= Max({0, z})
          BY MaxTwo
        <5> QED BY <5>1
      <4> QED BY <4>2, <4>3
    <3>3. b \in Nat /\ (b > 0 => (0 - shBase[p]) + b <= ShLimit[p])
      <4>1. b \in Nat /\ (b > 0 => (IF FALSE THEN shBase[p] ELSE 0 - shBase[p]) + b <= ShLimit[p])
        BY <1>0, BudgetBounds
      <4> QED BY <4>1
    <3> HIDE DEF x, b
    <3>4. Min({x, b}) \in {x, b} /\ Min({x, b}) <= b
      <4>1. x \in Int /\ b \in Int
        BY <3>2, <3>3
      <4> QED BY <4>1, MinTwo
    <3>5. shBase[p] \in Int /\ ShLimit[p] \in Int /\ shBase[p] \in ShBases
      <4>1. shBase[p] \in ShBases /\ ShLimit[p] \in Nat
        BY <1>0, NumberFacts
      <4>2. \A z \in ShBases : z \in Int
        BY <1>0
      <4>3. shBase[p] \in Int
        BY <4>1, <4>2
      <4> QED BY <4>1, <4>3
    <3>6. Min({x, b}) \in Nat /\ (Min({x, b}) > 0 => Min({x, b}) - shBase[p] <= ShLimit[p])
      BY <3>2, <3>3, <3>4, <3>5
    <3> QED BY <3>1, <3>5, <3>6
  <2> QED BY <2>1, <2>2
<1>2. Held = [p \in Phases |-> Held[p]] /\ Seen = [p \in Phases |-> Seen[p]]
  BY DEF Held, Seen
<1>3. Held \in [Phases -> Nat] /\ Seen \in [Phases -> ShBases]
  BY <1>1, <1>2
<1> QED BY <1>1, <1>3

(* What a set of commands takes from a phase in one direction. *)
Takes(out, p, dir) == Plus([u \in Packs |-> Max({0, dir * out[u]})], OnPhase(p))

\* What a phase's batteries take is a power.
LEMMA TakesNat ==
    ASSUME NEW out \in [Packs -> Int], NEW p, NEW dir \in {1, -1}
    PROVE  Takes(out, p, dir) \in Nat
<1>1. ASSUME NEW u \in Packs PROVE Max({0, dir * out[u]}) \in Nat
  <2>1. dir * out[u] \in Int
    BY SMT
  <2> DEFINE z == dir * out[u]
  <2> HIDE DEF z
  <2>2. Max({0, z}) \in {0, z} /\ 0 <= Max({0, z}) /\ z \in Int
    BY <2>1, MaxTwo DEF z
  <2>3. Max({0, z}) \in Nat
    BY <2>2
  <2> QED BY <2>3 DEF z
<1> DEFINE f == [u \in Packs |-> Max({0, dir * out[u]})]
<1>2. \A u \in Packs : f[u] \in Nat
  BY <1>1
<1> HIDE DEF f
<1>3. Plus(f, OnPhase(p)) \in Nat
  BY <1>2, PlusNat
<1> QED BY <1>3 DEF Takes, f

CommandFits(got) ==
    /\ got \in [Packs -> Int] /\ \A u \in Packs : got[u] \in -ShMax[u] .. ShMax[u]
    /\ \A p \in Phases, dir \in {1, -1} : Takes(got, p, dir) <= Allowance(p, dir = 1)

(* What a new command and the surroundings it leaves alone make of the invariant. *)
LEMMA CommandKeeps ==
    ASSUME ShInv, NEW got, CommandFits(got), SendAll(got), shHold' = Held, shKnown' = Seen,
           UNCHANGED <<shBase, shDark>>
    PROVE  /\ shOut' \in [Packs -> Int] /\ \A u \in Packs : shOut'[u] \in -ShMax[u] .. ShMax[u]
           /\ shLast' \in {"plan", "one", "other"} /\ shLeft' \in 0 .. ShMaxUpsets
           /\ shHold' \in [Phases -> Nat] /\ shKnown' \in [Phases -> ShBases]
           /\ HoldFits' /\ PhaseEnvelope' /\ BlindStaysInside'
<1>0. /\ shOut \in [Packs -> Int] /\ (\A u \in Packs : shOut[u] \in -ShMax[u] .. ShMax[u])
      /\ shLeft \in 0 .. ShMaxUpsets /\ shBase \in [Phases -> ShBases] /\ shHold \in [Phases -> Nat]
      /\ shKnown \in [Phases -> ShBases] /\ shDark \subseteq Phases /\ Readings /\ HoldFits
  BY DEF ShInv, ShTypeOK, Readings
<1>1. shHold' \in [Phases -> Nat] /\ shKnown' \in [Phases -> ShBases] /\ HoldFits'
  BY HeldFits DEF HoldFits
<1>2. CASE shOut' = got /\ shLast' = "plan" /\ UNCHANGED shLeft
  <2>1. \A p \in Phases, dir \in {1, -1} : Drawn(p, dir)' = Takes(got, p, dir)
    BY <1>2 DEF Drawn, Takes
  <2>2. ASSUME NEW p \in Phases \ shDark, NEW dir \in {1, -1} PROVE Inside(p, dir)'
    <3> DEFINE t == Takes(got, p, dir)
    <3>1. t \in Nat /\ t <= Allowance(p, dir = 1)
      BY TakesNat DEF CommandFits
    <3>2. Allowance(p, dir = 1) = Budget(p, dir = 1)
      BY DEF Allowance
    <3>3. /\ Budget(p, dir = 1) \in Nat
          /\ Budget(p, dir = 1) > 0 =>
               (IF dir = 1 THEN shBase[p] ELSE 0 - shBase[p]) + Budget(p, dir = 1) <= ShLimit[p]
      BY <1>0, BudgetBounds
    <3>4. shBase[p] \in Int /\ ShLimit[p] \in Int
      <4>1. shBase[p] \in ShBases /\ ShLimit[p] \in Nat
        BY <1>0, NumberFacts
      <4>2. \A z \in ShBases : z \in Int
        BY NumberFacts
      <4>3. shBase[p] \in Int
        BY <4>1, <4>2
      <4> QED BY <4>1, <4>3
    <3>5. dir * shBase[p] = IF dir = 1 THEN shBase[p] ELSE 0 - shBase[p]
      BY <3>4
    <3> DEFINE x == dir * shBase[p]  b == Budget(p, dir = 1)
    <3>6. x \in Int /\ b \in Nat /\ (b > 0 => x + b <= ShLimit[p]) /\ t <= b
      BY <3>1, <3>2, <3>3, <3>4, <3>5
    <3> HIDE DEF t, x, b
    <3>7. t > 0 => x + t <= ShLimit[p]
      BY <3>1, <3>4, <3>6
    <3>8. Drawn(p, dir)' = t /\ shBase' = shBase
      BY <2>1 DEF t
    <3> QED BY <3>7, <3>8 DEF Inside, x
  <2>3. ASSUME NEW p \in shDark PROVE Drawn(p, 1)' = 0 /\ (shKnown'[p] = shBase'[p] => Inside(p, -1)')
    <3>0. p \in Phases
      BY <1>0
    <3>1. Takes(got, p, 1) \in Nat /\ Takes(got, p, 1) <= Allowance(p, 1 = 1)
          /\ Takes(got, p, -1) \in Nat /\ Takes(got, p, -1) <= Allowance(p, -1 = 1)
      BY <3>0, TakesNat DEF CommandFits
    <3>2. Allowance(p, 1 = 1) = 0 /\ Allowance(p, -1 = 1) = shHold[p]
      BY DEF Allowance, DarkBudget
    <3>3. Drawn(p, 1)' = Takes(got, p, 1) /\ Drawn(p, -1)' = Takes(got, p, -1)
      BY <2>1, <3>0
    <3>4. Takes(got, p, 1) = 0
      BY <3>1, <3>2
    <3>5. shKnown'[p] = shKnown[p]
      BY <3>0 DEF Seen
    <3>6. shHold[p] \in Nat /\ (shHold[p] > 0 => shHold[p] - shKnown[p] <= ShLimit[p])
      BY <1>0, <3>0 DEF HoldFits
    <3>7. shKnown[p] \in Int /\ ShLimit[p] \in Int
      <4>1. shKnown[p] \in ShBases /\ ShLimit[p] \in Nat
        BY <1>0, <3>0, NumberFacts
      <4>2. \A z \in ShBases : z \in Int
        BY NumberFacts
      <4>3. shKnown[p] \in Int
        BY <4>1, <4>2
      <4> QED BY <4>1, <4>3
    <3> DEFINE t == Takes(got, p, -1)
    <3>8. t \in Nat /\ t <= shHold[p]
      BY <3>1, <3>2
    <3> HIDE DEF t
    <3>9. t > 0 => (-1) * shKnown[p] + t <= ShLimit[p]
      BY <3>6, <3>7, <3>8
    <3>10. shKnown'[p] = shBase'[p] => Inside(p, -1)'
      <4>1. Drawn(p, -1)' = t
        BY <3>3 DEF t
      <4>2. Inside(p, -1)' <=> (t > 0 => (-1) * shBase'[p] + t <= ShLimit[p])
        BY <4>1 DEF Inside
      <4>3. shKnown'[p] = shBase'[p] => shBase'[p] = shKnown[p]
        BY <3>5
      <4> QED BY <3>9, <4>2, <4>3
    <3> QED BY <3>3, <3>4, <3>10
  <2>4. PhaseEnvelope'
    <3>1. shLast' # "one" /\ shDark' = shDark
      BY <1>2
    <3> QED BY <2>2, <3>1 DEF PhaseEnvelope
  <2>5. BlindStaysInside'
    BY <2>3 DEF BlindStaysInside
  <2>6. shOut' \in [Packs -> Int] /\ \A u \in Packs : shOut'[u] \in -ShMax[u] .. ShMax[u]
    BY <1>2 DEF CommandFits
  <2> QED BY <1>0, <1>1, <1>2, <2>4, <2>5, <2>6
<1>3. CASE /\ Upset /\ shLast' = "other"
           /\ \E u \in Packs : shOut[u] # got[u] /\ shOut' = [got EXCEPT ![u] = shOut[u]]
  <2>1. PICK u \in Packs : shOut' = [got EXCEPT ![u] = shOut[u]]
    BY <1>3
  <2>2. shOut' \in [Packs -> Int] /\ \A v \in Packs : shOut'[v] \in -ShMax[v] .. ShMax[v]
    <3>1. got \in [Packs -> Int] /\ \A v \in Packs : got[v] \in -ShMax[v] .. ShMax[v]
      BY DEF CommandFits
    <3>2. shOut' \in [Packs -> Int] /\ shOut'[u] = shOut[u] /\ \A v \in Packs \ {u} : shOut'[v] = got[v]
      BY <1>0, <2>1, <3>1
    <3> QED BY <1>0, <3>1, <3>2
  <2>3. shLeft' \in 0 .. ShMaxUpsets
    BY <1>0, <1>3, NumberFacts DEF Upset
  <2>4. PhaseEnvelope' /\ BlindStaysInside'
    BY <1>3 DEF PhaseEnvelope, BlindStaysInside
  <2> QED BY <1>1, <1>3, <2>2, <2>3, <2>4
<1> QED BY <1>2, <1>3 DEF SendAll

(* One direction's commands as signed powers. *)
LEMMA SignedFits ==
    ASSUME ShInv, NEW got \in [Packs -> Nat], \A u \in Packs : got[u] <= ShMax[u], NEW dir \in {1, -1},
           \A p \in Phases : Plus(got, OnPhase(p)) <= Allowance(p, dir = 1)
    PROVE  CommandFits([u \in Packs |-> dir * got[u]])
<1> DEFINE out == [u \in Packs |-> dir * got[u]]
<1>1. ASSUME NEW u \in Packs PROVE out[u] \in Int /\ out[u] \in -ShMax[u] .. ShMax[u]
  <2>1. got[u] \in Nat /\ got[u] <= ShMax[u] /\ ShMax[u] \in Nat
    BY NumberFacts
  <2>2. CASE dir = 1
    BY <2>1, <2>2
  <2>3. CASE dir = -1
    BY <2>1, <2>3
  <2> QED BY <2>2, <2>3
<1>2. out \in [Packs -> Int]
  BY <1>1
<1>3. ASSUME NEW p \in Phases, NEW d \in {1, -1} PROVE Takes(out, p, d) <= Allowance(p, d = 1)
  <2> DEFINE f == [u \in Packs |-> Max({0, d * out[u]})]
  <2>1. Takes(out, p, d) = Plus(f, OnPhase(p))
    BY DEF Takes
  <2>2. ASSUME NEW u \in Packs PROVE f[u] = IF d = dir THEN got[u] ELSE 0
    <3>1. got[u] \in Nat /\ out[u] = dir * got[u]
      OBVIOUS
    <3>2. d * out[u] = IF d = dir THEN got[u] ELSE 0 - got[u]
      BY <3>1
    <3>3. \A z \in Nat : Max({0, z}) = z /\ Max({0, 0 - z}) = 0
      <4> SUFFICES ASSUME NEW z \in Nat PROVE Max({0, z}) = z /\ Max({0, 0 - z}) = 0
        OBVIOUS
      <4> DEFINE y == 0 - z
      <4>1. y \in Int /\ y <= 0
        OBVIOUS
      <4> HIDE DEF y
      <4>2. Max({0, y}) = 0
        BY <4>1, MaxZero
      <4>3. z \in Int /\ z >= 0
        OBVIOUS
      <4>4. Max({0, y}) = 0 /\ Max({0, z}) = z
        BY <4>2, <4>3, MaxZero
      <4> QED BY <4>4 DEF y
    <3>4. f[u] = Max({0, d * out[u]})
      OBVIOUS
    <3> HIDE DEF f, out
    <3> QED BY <3>1, <3>2, <3>3, <3>4
  <2> HIDE DEF f, out
  <2>3. CASE d = dir
    <3>1. \A u \in Packs : Part(f, OnPhase(p), u) <= Part(got, OnPhase(p), u)
      <4> SUFFICES ASSUME NEW u \in Packs PROVE Part(f, OnPhase(p), u) <= Part(got, OnPhase(p), u)
        OBVIOUS
      <4>1. f[u] = got[u] /\ got[u] \in Nat
        BY <2>2, <2>3
      <4> QED BY <4>1 DEF Part
    <3>2. \A u \in Packs : f[u] \in Nat
      BY <2>2, <2>3
    <3>3. Summed(f) /\ Summed(got) /\ Plus(f, OnPhase(p)) \in Nat /\ Plus(got, OnPhase(p)) \in Nat
      BY <3>2, PlusNat DEF Summed
    <3>4. Plus(f, OnPhase(p)) <= Plus(got, OnPhase(p))
      BY <3>1, <3>3, PlusCompare
    <3>5. Allowance(p, dir = 1) \in Nat /\ Plus(got, OnPhase(p)) <= Allowance(p, dir = 1)
      BY AllowanceNat DEF ShInv, ShTypeOK, Readings
    <3> QED BY <2>1, <2>3, <3>3, <3>4, <3>5
  <2>4. CASE d # dir
    <3>1. \A u \in Packs : f[u] = 0
      BY <2>2, <2>4
    <3>2. Summed(f) /\ \A u \in Packs : Part(f, OnPhase(p), u) = 0
      BY <3>1 DEF Summed, Part
    <3>3. Plus(f, OnPhase(p)) = 0
      BY <3>2, PlusNothing
    <3>4. Allowance(p, d = 1) \in Nat
      BY AllowanceNat DEF ShInv, ShTypeOK, Readings
    <3> QED BY <2>1, <3>3, <3>4
  <2> QED BY <2>3, <2>4
<1> HIDE DEF out
<1>4. CommandFits(out)
  BY <1>1, <1>2, <1>3 DEF CommandFits
<1> QED BY <1>4 DEF out

(* Both directions allocated apart, and nothing where both have something. *)
LEMMA BothFit ==
    ASSUME ShInv, NEW in \in [Packs -> Nat], NEW off \in [Packs -> Nat],
           \A u \in Packs : in[u] <= ShMax[u] /\ off[u] <= ShMax[u],
           \A p \in Phases : Plus(in, OnPhase(p)) <= Allowance(p, 1 = 1),
           \A p \in Phases : Plus(off, OnPhase(p)) <= Allowance(p, -1 = 1)
    PROVE  CommandFits([u \in Packs |-> IF in[u] > 0 /\ off[u] > 0 THEN 0 ELSE in[u] - off[u]])
<1> DEFINE out == [u \in Packs |-> IF in[u] > 0 /\ off[u] > 0 THEN 0 ELSE in[u] - off[u]]
<1>0. \A u \in Packs : in[u] \in Nat /\ off[u] \in Nat /\ ShMax[u] \in Nat
  BY NumberFacts
<1>1. ASSUME NEW u \in Packs PROVE out[u] \in Int /\ out[u] \in -ShMax[u] .. ShMax[u]
  BY <1>0
<1>2. out \in [Packs -> Int]
  BY <1>1
<1>3. ASSUME NEW p \in Phases, NEW d \in {1, -1} PROVE Takes(out, p, d) <= Allowance(p, d = 1)
  <2> DEFINE f == [u \in Packs |-> Max({0, d * out[u]})]
             k == IF d = 1 THEN in ELSE off
  <2>1. Takes(out, p, d) = Plus(f, OnPhase(p))
    BY DEF Takes
  <2>2. ASSUME NEW u \in Packs PROVE f[u] \in Nat /\ f[u] <= k[u] /\ k[u] \in Nat
    <3>1. in[u] \in Nat /\ off[u] \in Nat /\ out[u] = IF in[u] > 0 /\ off[u] > 0 THEN 0 ELSE in[u] - off[u]
      BY <1>0
    <3> DEFINE z == d * out[u]
    <3>2. z \in Int /\ z <= k[u] /\ k[u] \in Nat
      <4>1. CASE d = 1
        BY <3>1, <4>1
      <4>2. CASE d = -1
        BY <3>1, <4>2
      <4> QED BY <4>1, <4>2
    <3>3. f[u] = Max({0, z})
      OBVIOUS
    <3> HIDE DEF f, z, k, out
    <3>4. Max({0, z}) \in Nat /\ (z <= 0 => Max({0, z}) = 0) /\ (z >= 0 => Max({0, z}) = z)
      BY <3>2, MaxZero
    <3> QED BY <3>2, <3>3, <3>4
  <2>3. \A q \in Phases : Plus(k, OnPhase(q)) <= Allowance(q, d = 1)
    <3>1. CASE d = 1
      BY <3>1
    <3>2. CASE d = -1
      BY <3>2
    <3> QED BY <3>1, <3>2
  <2> HIDE DEF f, k, out
  <2>4. (\A u \in Packs : f[u] \in Nat /\ k[u] \in Nat) /\ Summed(f) /\ Summed(k)
    BY <2>2 DEF Summed
  <2>5. \A u \in Packs : Part(f, OnPhase(p), u) <= Part(k, OnPhase(p), u)
    <3> SUFFICES ASSUME NEW u \in Packs PROVE Part(f, OnPhase(p), u) <= Part(k, OnPhase(p), u)
      OBVIOUS
    <3> QED BY <2>2 DEF Part
  <2>6. Plus(f, OnPhase(p)) <= Plus(k, OnPhase(p))
    BY <2>4, <2>5, PlusCompare
  <2>7. Plus(f, OnPhase(p)) \in Nat /\ Plus(k, OnPhase(p)) \in Nat /\ Allowance(p, d = 1) \in Nat
    BY <2>4, PlusNat, AllowanceNat DEF ShInv, ShTypeOK, Readings
  <2> QED BY <2>1, <2>3, <2>6, <2>7
<1> HIDE DEF out
<1>4. CommandFits(out)
  BY <1>1, <1>2, <1>3 DEF CommandFits
<1> QED BY <1>4 DEF out

\* A house that starts is inside its fuses.
LEMMA ShStart == ShInit => ShInv
<1> SUFFICES ASSUME ShInit PROVE ShInv
  OBVIOUS
<1>0. /\ shBase \in [Phases -> ShBases] /\ shDark = {} /\ shAway = {} /\ shOut = [u \in Packs |-> 0]
      /\ shHold = [p \in Phases |-> 0] /\ shActive = <<>> /\ shDir = 1 /\ shKeep = [u \in Packs |-> 0]
      /\ shLast = "other" /\ shWho = 1 /\ shAsk = 0 /\ shKnown = [p \in Phases |-> shBase[p]] /\ shLeft = ShMaxUpsets
  BY DEF ShInit
<1>1. \A u \in Packs : ShMax[u] \in Nat
  BY NumberFacts
<1>2. shOut \in [Packs -> Int] /\ \A u \in Packs : shOut[u] \in -ShMax[u] .. ShMax[u]
  BY <1>0, <1>1
<1>3. shHold \in [Phases -> Nat] /\ shKeep \in [Packs -> 0 .. ShHold] /\ shLeft \in 0 .. ShMaxUpsets /\ 1 \in Packs
  BY <1>0, NumberFacts
<1>4. shKnown \in [Phases -> ShBases]
  BY <1>0
<1>5. shActive \in Lists /\ ToSet(shActive) = {}
  BY <1>0, EmptyList
<1>6. IsInjective(shActive)
  BY <1>5 DEF Lists
<1>7. ShTypeOK
  BY <1>0, <1>2, <1>3, <1>4, <1>5, <1>6 DEF ShTypeOK
<1>8. HoldFits /\ PhaseEnvelope /\ BlindStaysInside
  BY <1>0 DEF HoldFits, PhaseEnvelope, BlindStaysInside
<1> QED BY <1>5, <1>7, <1>8 DEF ShInv

\* An automatic cycle keeps the fuses.
LEMMA CycleKeeps == ShInv /\ ShCycle => ShInv'
<1> SUFFICES ASSUME ShInv, ShCycle PROVE ShInv'
  OBVIOUS
<1> DEFINE used(dir) == IF dir = shDir THEN shActive ELSE <<>>
           avail == Packs \ shAway
           order(dir) == Order(used(dir), avail)
           none == [u \in Packs |-> 0]
           keep(dir) == IF dir = shDir THEN shKeep ELSE none
           alone(power) == power = 0 \/ Cardinality(avail) <= 1
           chosen(power, dir) == IF power = 0 THEN <<>> ELSE IF alone(power) THEN order(dir)
                                 ELSE Select(power, order(dir), used(dir), keep(dir))
           given(power, dir) == IF chosen(power, dir) = <<>> THEN none
                                ELSE LimitAllocation(Shares(power, chosen(power, dir), dir = 1), chosen(power, dir), order(dir), dir = 1)
<1>1. PICK power \in ShAsks, dir \in {1, -1} : \E got \in {given(power, dir)} :
         /\ shActive' = Among(Candidates(chosen(power, dir), order(dir)), {u \in Packs : got[u] > 0})
         /\ shDir' = dir /\ shAsk' = power
         /\ shKeep' = IF alone(power) THEN none ELSE HoldUntil(power, order(dir), used(dir), keep(dir), chosen(power, dir))
         /\ SendAll([u \in Packs |-> dir * got[u]])
  BY DEF ShCycle
<1>2. shHold' = Held /\ shKnown' = Seen /\ shWho' = 1 /\ UNCHANGED <<shBase, shDark, shAway>>
  BY DEF ShCycle
<1> DEFINE o == order(dir)  us == used(dir)  kp == keep(dir)  ch == chosen(power, dir)  got == given(power, dir)
<1>3. power \in Nat /\ 1 \in Packs
  BY NumberFacts
<1>4. us \in Lists /\ o \in Lists
  <2>1. us \in Lists
    BY EmptyList DEF ShInv
  <2>2. avail \in SUBSET Packs
    OBVIOUS
  <2> HIDE DEF us, avail
  <2> QED BY <2>1, <2>2, OrderList DEF us
<1>5. kp \in [Packs -> 0 .. ShHold]
  BY NumberFacts DEF ShInv, ShTypeOK
<1>6. ch \in Lists
  <2>1. Select(power, o, us, kp) \in Lists
    <3> HIDE DEF o, us, kp
    <3> QED BY <1>3, <1>4, SelectList
  <2> QED BY <1>4, <2>1, EmptyList
<1>7. /\ shActive' = Among(Candidates(ch, o), {u \in Packs : got[u] > 0})
      /\ shDir' = dir /\ shAsk' = power
      /\ shKeep' = (IF alone(power) THEN none ELSE HoldUntil(power, o, us, kp, ch))
      /\ SendAll([u \in Packs |-> dir * got[u]])
  <2> HIDE DEF alone, none, used, order, chosen, keep, given
  <2> QED BY <1>1
<1>8. got = IF ch = <<>> THEN none ELSE LimitAllocation(Shares(power, ch, dir = 1), ch, o, dir = 1)
  OBVIOUS
<1> HIDE DEF o, us, kp, ch, got, alone
<1>9. Readings
  BY DEF ShInv, ShTypeOK, Readings
<1>10. got \in [Packs -> Nat] /\ (\A u \in Packs : got[u] <= ShMax[u]) /\ \A p \in Phases : Plus(got, OnPhase(p)) <= Allowance(p, dir = 1)
  <2>1. CASE ch = <<>>
    <3>1. got \in [Packs -> Nat] /\ \A u \in Packs : got[u] = 0
      BY <1>8, <2>1
    <3>2. \A u \in Packs : got[u] <= ShMax[u]
      BY <3>1, NumberFacts
    <3>3. ASSUME NEW p \in Phases PROVE Plus(got, OnPhase(p)) <= Allowance(p, dir = 1)
      <4>1. Summed(got) /\ \A u \in Packs : Part(got, OnPhase(p), u) = 0
        BY <3>1 DEF Summed, Part
      <4>2. Plus(got, OnPhase(p)) = 0 /\ Allowance(p, dir = 1) \in Nat
        BY <1>9, <4>1, PlusNothing, AllowanceNat
      <4> QED BY <4>2
    <3> QED BY <3>1, <3>2, <3>3
  <2>2. CASE ch # <<>>
    <3> DEFINE need == Shares(power, ch, dir = 1)
    <3>1. need \in [Packs -> Nat] /\ \A u \in Packs : need[u] <= ShMax[u]
      BY <1>3, <1>6, SharesFit DEF Lists
    <3>2. got = LimitAllocation(need, ch, o, dir = 1)
      BY <1>8, <2>2
    <3>3. ch \in Seq(Packs) /\ o \in Seq(Packs)
      BY <1>4, <1>6 DEF Lists
    <3> HIDE DEF need
    <3> QED BY <1>9, <3>1, <3>2, <3>3, AllocationFits
  <2> QED BY <2>1, <2>2
<1>11. CommandFits([u \in Packs |-> dir * got[u]])
  BY <1>10, SignedFits
<1>12. /\ shOut' \in [Packs -> Int] /\ \A u \in Packs : shOut'[u] \in -ShMax[u] .. ShMax[u]
       /\ shLast' \in {"plan", "one", "other"} /\ shLeft' \in 0 .. ShMaxUpsets
       /\ shHold' \in [Phases -> Nat] /\ shKnown' \in [Phases -> ShBases]
       /\ HoldFits' /\ PhaseEnvelope' /\ BlindStaysInside'
  <2> DEFINE out == [u \in Packs |-> dir * got[u]]
  <2>1. CommandFits(out) /\ SendAll(out)
    BY <1>7, <1>11
  <2> HIDE DEF out
  <2> QED BY <1>2, <2>1, CommandKeeps
<1>13. shActive' \in Lists
  <2>1. Candidates(ch, o) \in Lists
    BY <1>4, <1>6, CandidatesLists
  <2> QED BY <1>7, <2>1, AmongLists
<1>14. shKeep' \in [Packs -> 0 .. ShHold]
  <2>0. ShHold \in Nat
    BY NumberFacts
  <2>1. none \in [Packs -> 0 .. ShHold]
    BY <2>0
  <2>2. HoldUntil(power, o, us, kp, ch) \in [Packs -> 0 .. ShHold]
    <3>1. ASSUME NEW u \in Packs PROVE Max({0, kp[u] - 1}) \in 0 .. ShHold
      <4>1. kp[u] \in 0 .. ShHold
        BY <1>5
      <4> DEFINE z == kp[u] - 1
      <4>2. z \in Int /\ z <= ShHold
        BY <2>0, <4>1
      <4> HIDE DEF z
      <4>3. Max({0, z}) \in 0 .. ShHold
        BY <2>0, <4>2, MaxZero
      <4> QED BY <4>3 DEF z
    <3>2. ShHold \in 0 .. ShHold /\ 0 \in 0 .. ShHold
      BY <2>0
    <3> QED BY <3>1, <3>2 DEF HoldUntil
  <2> HIDE DEF none
  <2> QED BY <1>7, <2>1, <2>2
<1>15. ShTypeOK'
  <2>1. ToSet(shActive') \subseteq Packs /\ IsInjective(shActive')
    BY <1>13, ListIs DEF Lists
  <2>2. shBase \in [Phases -> ShBases] /\ shDark \subseteq Phases /\ shAway \subseteq Packs
    BY DEF ShInv, ShTypeOK
  <2>3. shDir' \in {1, -1} /\ shAsk' \in ShAsks \cup {0} /\ shWho' \in Packs
    BY <1>2, <1>3, <1>7
  <2> QED BY <1>2, <1>12, <1>14, <2>1, <2>2, <2>3 DEF ShTypeOK
<1> QED BY <1>12, <1>13, <1>15 DEF ShInv

\* What runs in one direction is a power of each battery.
LEMMA RunningNat ==
    ASSUME ShInv, NEW dir \in {1, -1}
    PROVE  [u \in Packs |-> Max({0, dir * shOut[u]})] \in [Packs -> Nat]
<1>1. ASSUME NEW u \in Packs PROVE Max({0, dir * shOut[u]}) \in Nat
  <2>1. shOut[u] \in Int
    BY DEF ShInv, ShTypeOK
  <2> DEFINE z == dir * shOut[u]
  <2>2. z \in Int
    BY <2>1
  <2> HIDE DEF z
  <2>3. Max({0, z}) \in Nat
    BY <2>2, MaxZero
  <2> QED BY <2>3 DEF z
<1> QED BY <1>1

\* The safety review keeps them.
LEMMA ReviewKeeps == ShInv /\ ShReview => ShInv'
<1> SUFFICES ASSUME ShInv, ShReview PROVE ShInv'
  OBVIOUS
<1> DEFINE Running(dir) == [u \in Packs |-> Max({0, dir * shOut[u]})]
           Busy(dir) == Among(InTurn, {u \in Packs : shOut[u] * dir > 0})
           Again(dir) == IF Busy(dir) = <<>> THEN [u \in Packs |-> 0]
                         ELSE LimitAllocation(Shares(Plus(Running(dir), Packs), Busy(dir), dir = 1), Busy(dir),
                                              Order(shActive, Packs \ shAway), dir = 1)
           both(in, off) == [u \in Packs |-> IF in[u] > 0 /\ off[u] > 0 THEN 0 ELSE in[u] - off[u]]
<1>1. SendAll(both(Again(1), Again(-1)))
  BY DEF ShReview
<1>2. /\ shAsk' = 0 /\ shHold' = Held /\ shKnown' = Seen
      /\ shWho' = 1 /\ UNCHANGED <<shBase, shDark, shAway, shActive, shDir, shKeep>>
  BY DEF ShReview
<1>3. Readings
  BY DEF ShInv, ShTypeOK, Readings
<1>4. ASSUME NEW dir \in {1, -1}
      PROVE  /\ Again(dir) \in [Packs -> Nat] /\ \A u \in Packs : Again(dir)[u] <= ShMax[u]
             /\ \A p \in Phases : Plus(Again(dir), OnPhase(p)) <= Allowance(p, dir = 1)
  <2>1. CASE Busy(dir) = <<>>
    <3> DEFINE got == [u \in Packs |-> 0]
    <3>1. got \in [Packs -> Nat] /\ \A u \in Packs : got[u] = 0
      OBVIOUS
    <3>2. \A u \in Packs : got[u] <= ShMax[u]
      BY NumberFacts
    <3>3. Again(dir) = got
      BY <2>1
    <3> HIDE DEF got
    <3>4. ASSUME NEW p \in Phases PROVE Plus(got, OnPhase(p)) <= Allowance(p, dir = 1)
      <4>1. Summed(got) /\ \A u \in Packs : Part(got, OnPhase(p), u) = 0
        BY <3>1 DEF Summed, Part
      <4>2. Plus(got, OnPhase(p)) = 0 /\ Allowance(p, dir = 1) \in Nat
        BY <1>3, <4>1, PlusNothing, AllowanceNat
      <4> QED BY <4>2
    <3> HIDE DEF Again
    <3> QED BY <3>1, <3>2, <3>3, <3>4
  <2>2. CASE Busy(dir) # <<>>
    <3> DEFINE b == Busy(dir)  total == Plus(Running(dir), Packs)  need == Shares(total, b, dir = 1)
               o == Order(shActive, Packs \ shAway)
    <3>1. b \in Lists
      BY AllInTurn, AmongLists
    <3>2. total \in Nat
      <4>1. \A u \in Packs : Running(dir)[u] \in Nat
        BY RunningNat
      <4> HIDE DEF Running
      <4> QED BY <4>1, PlusNat
    <3>3. o \in Lists
      <4>1. shActive \in Lists /\ Packs \ shAway \in SUBSET Packs
        BY DEF ShInv
      <4> QED BY <4>1, OrderList
    <3>4. Again(dir) = LimitAllocation(need, b, o, dir = 1)
      BY <2>2
    <3> HIDE DEF b, total, o, Again
    <3>5. need \in [Packs -> Nat] /\ (\A u \in Packs : need[u] <= ShMax[u]) /\ b \in Seq(Packs) /\ o \in Seq(Packs)
      BY <3>1, <3>2, <3>3, SharesFit DEF Lists
    <3> HIDE DEF need
    <3> DEFINE got == LimitAllocation(need, b, o, dir = 1)
    <3>6. /\ got \in [Packs -> Nat] /\ \A u \in Packs : got[u] <= ShMax[u]
          /\ \A p \in Phases : Plus(got, OnPhase(p)) <= Allowance(p, dir = 1)
      BY <1>3, <3>5, AllocationFits
    <3>7. Again(dir) = got
      BY <3>4
    <3> HIDE DEF got
    <3> QED BY <3>6, <3>7
  <2> QED BY <2>1, <2>2
<1> DEFINE in == Again(1)  off == Again(-1)  out == both(in, off)
<1>5. CommandFits(out)
  <2>1. in \in [Packs -> Nat] /\ (\A u \in Packs : in[u] <= ShMax[u]) /\ \A p \in Phases : Plus(in, OnPhase(p)) <= Allowance(p, 1 = 1)
    <3> HIDE DEF Again
    <3> QED BY <1>4
  <2>2. off \in [Packs -> Nat] /\ (\A u \in Packs : off[u] <= ShMax[u]) /\ \A p \in Phases : Plus(off, OnPhase(p)) <= Allowance(p, -1 = 1)
    <3> HIDE DEF Again
    <3> QED BY <1>4
  <2> HIDE DEF in, off
  <2> QED BY <2>1, <2>2, BothFit
<1>6. SendAll(out)
  BY <1>1
<1> HIDE DEF out
<1>7. /\ shOut' \in [Packs -> Int] /\ \A u \in Packs : shOut'[u] \in -ShMax[u] .. ShMax[u]
      /\ shLast' \in {"plan", "one", "other"} /\ shLeft' \in 0 .. ShMaxUpsets
      /\ shHold' \in [Phases -> Nat] /\ shKnown' \in [Phases -> ShBases]
      /\ HoldFits' /\ PhaseEnvelope' /\ BlindStaysInside'
  BY <1>2, <1>5, <1>6, CommandKeeps
<1>8. 1 \in Packs
  BY NumberFacts
<1> HIDE DEF Again, Busy, Running
<1>9. ShTypeOK'
  BY <1>2, <1>7, <1>8 DEF ShInv, ShTypeOK
<1> QED BY <1>2, <1>7, <1>9 DEF ShInv

\* So does a command outside a plan.
LEMMA SingleKeeps == ShInv /\ ShSingle => ShInv'
<1> SUFFICES ASSUME ShInv, ShSingle PROVE ShInv'
  OBVIOUS
<1>0. /\ shOut \in [Packs -> Int] /\ (\A v \in Packs : shOut[v] \in -ShMax[v] .. ShMax[v])
      /\ shLeft \in 0 .. ShMaxUpsets /\ shBase \in [Phases -> ShBases] /\ shDark \subseteq Phases /\ Readings
  BY DEF ShInv, ShTypeOK, Readings
<1> DEFINE own(u, power) == Min({power, ShMax[u]})
           free(u, dir) == Max({0, Allowance(ShPhase[u], dir = 1) - Others(u, dir)})
           given(u, power, dir) == IF ShPhase[u] = 0 THEN own(u, power) ELSE Min({own(u, power), free(u, dir)})
<1>1. PICK u \in Packs, power \in ShAsks, dir \in {1, -1} :
         shOut' = [shOut EXCEPT ![u] = dir * given(u, power, dir)] /\ shWho' = u
  BY DEF ShSingle
<1>2. /\ Upset /\ shHold' = Held /\ shKnown' = Seen /\ shLast' = "one" /\ shAsk' = 0
      /\ UNCHANGED <<shBase, shDark, shAway, shActive, shDir, shKeep>>
  BY DEF ShSingle
<1> DEFINE x == given(u, power, dir)
<1>3. x \in Nat /\ x <= ShMax[u] /\ (ShPhase[u] # 0 => x <= free(u, dir) /\ free(u, dir) \in Nat
         /\ (free(u, dir) > 0 => free(u, dir) = Allowance(ShPhase[u], dir = 1) - Others(u, dir)))
  <2>0. power \in Nat /\ ShMax[u] \in Nat /\ ShPhase[u] \in {0} \cup Phases
    BY NumberFacts
  <2>1. own(u, power) \in Nat /\ own(u, power) <= ShMax[u]
    <3>1. \A a, b \in Nat : Min({a, b}) \in Nat /\ Min({a, b}) <= b
      BY MinTwo
    <3> QED BY <2>0, <3>1
  <2>2. CASE ShPhase[u] = 0
    BY <2>1, <2>2
  <2>3. CASE ShPhase[u] # 0
    <3>1. ShPhase[u] \in Phases
      BY <2>0, <2>3
    <3>2. Allowance(ShPhase[u], dir = 1) \in Nat
      BY <1>0, <3>1, AllowanceNat
    <3>3. Others(u, dir) \in Nat
      <4> DEFINE f == [v \in Packs |-> Max({0, dir * shOut[v]})]  B == OnPhase(ShPhase[u]) \ {u}
      <4>1. \A v \in Packs : f[v] \in Nat
        BY RunningNat
      <4> HIDE DEF f, B
      <4>2. Plus(f, B) \in Nat
        BY <4>1, PlusNat
      <4> QED BY <4>2 DEF f, B, Others
    <3> DEFINE y == Allowance(ShPhase[u], dir = 1) - Others(u, dir)
    <3>4. y \in Int
      BY <3>2, <3>3
    <3>5. free(u, dir) = Max({0, y})
      OBVIOUS
    <3> HIDE DEF y, own, free
    <3>6. free(u, dir) \in Nat /\ (free(u, dir) > 0 => free(u, dir) = y)
      <4>1. Max({0, y}) \in Nat /\ (y <= 0 => Max({0, y}) = 0) /\ (y >= 0 => Max({0, y}) = y)
        BY <3>4, MaxZero
      <4> QED BY <3>4, <3>5, <4>1
    <3>7. x = Min({own(u, power), free(u, dir)})
      BY <2>3
    <3>8. Min({own(u, power), free(u, dir)}) \in Nat /\ Min({own(u, power), free(u, dir)}) <= own(u, power)
          /\ Min({own(u, power), free(u, dir)}) <= free(u, dir)
      <4>1. \A a, b \in Nat : Min({a, b}) \in Nat /\ Min({a, b}) <= a /\ Min({a, b}) <= b
        BY MinTwo
      <4> QED BY <2>1, <3>6, <4>1
    <3> HIDE DEF x
    <3> QED BY <2>0, <2>1, <3>6, <3>7, <3>8 DEF y
  <2> QED BY <2>2, <2>3
<1> HIDE DEF given, own, free
<1>4. x \in Int /\ dir * x \in Int /\ dir * x \in -ShMax[u] .. ShMax[u]
  <2>1. ShMax[u] \in Nat
    BY NumberFacts
  <2> HIDE DEF x
  <2>2. CASE dir = 1
    BY <1>3, <2>1, <2>2
  <2>3. CASE dir = -1
    BY <1>3, <2>1, <2>3
  <2> QED BY <2>2, <2>3
<1>5. shOut' \in [Packs -> Int] /\ shOut'[u] = dir * x /\ \A v \in Packs \ {u} : shOut'[v] = shOut[v]
  <2> DEFINE z == dir * x
  <2>1. shOut' = [shOut EXCEPT ![u] = z] /\ z \in Int
    BY <1>1, <1>4
  <2> HIDE DEF z
  <2>2. shOut' \in [Packs -> Int] /\ shOut'[u] = z /\ \A v \in Packs \ {u} : shOut'[v] = shOut[v]
    BY <1>0, <2>1
  <2> QED BY <2>2 DEF z
<1> HIDE DEF x
<1>6. \A v \in Packs : shOut'[v] \in -ShMax[v] .. ShMax[v]
  BY <1>0, <1>4, <1>5
<1>7. PhaseEnvelope'
  <2> DEFINE Load(q, d) == Plus([v \in Packs |-> Max({0, d * shOut'[v]})], OnPhase(q))
             Fits(q, d) == Load(q, d) > 0 => d * shBase'[q] + Load(q, d) <= ShLimit[q]
  <2> SUFFICES ASSUME shOut'[u] # 0, ShPhase[u] \in Phases \ shDark
               PROVE  Fits(ShPhase[u], IF shOut'[u] > 0 THEN 1 ELSE -1)
    <3>1. PhaseEnvelope' <=>
            /\ shLast' = "plan" => \A q \in Phases \ shDark', d \in {1, -1} : Fits(q, d)
            /\ shLast' = "one" /\ shOut'[shWho'] # 0 /\ ShPhase[shWho'] \in Phases \ shDark'
                 => Fits(ShPhase[shWho'], IF shOut'[shWho'] > 0 THEN 1 ELSE -1)
      BY DEF PhaseEnvelope, Inside, Drawn
    <3> HIDE DEF Fits
    <3> QED BY <1>1, <1>2, <3>1
  <2> DEFINE p == ShPhase[u]
  <2>1. p # 0 /\ p \in Phases /\ p \notin shDark
    BY NumberFacts
  <2>2. x > 0 /\ dir = IF shOut'[u] > 0 THEN 1 ELSE -1
    <3>1. CASE dir = 1
      BY <1>3, <1>5, <3>1
    <3>2. CASE dir = -1
      BY <1>3, <1>5, <3>2
    <3> QED BY <3>1, <3>2
  <2>3. Load(p, dir) = Others(u, dir) + x /\ Others(u, dir) \in Nat
    <3> DEFINE f == [v \in Packs |-> Max({0, dir * shOut[v]})]
               g == [v \in Packs |-> Max({0, dir * shOut'[v]})]
               B == OnPhase(p) \ {u}
    <3>1. Load(p, dir) = Plus(g, OnPhase(p))
      OBVIOUS
    <3>2. Others(u, dir) = Plus(f, B)
      BY DEF Others
    <3>3. \A v \in Packs : f[v] \in Nat
      BY RunningNat
    <3>4. \A v \in Packs \ {u} : g[v] = f[v]
      BY <1>5
    <3>5. g[u] = x
      <4>1. dir * (dir * x) = x
        <5>1. CASE dir = 1
          BY <1>3, <5>1
        <5>2. CASE dir = -1
          BY <1>3, <5>2
        <5> QED BY <5>1, <5>2
      <4>2. g[u] = Max({0, x})
        BY <1>5, <4>1
      <4>3. x \in Int /\ x >= 0
        BY <1>3
      <4>4. Max({0, x}) = x
        BY <4>3, MaxZero
      <4> QED BY <4>2, <4>4
    <3> HIDE DEF f, g
    <3>6. Summed(f) /\ Summed(g) /\ x \in Int
      BY <1>3, <3>3, <3>4, <3>5 DEF Summed
    <3>7. u \in OnPhase(p) /\ u \notin B
      BY DEF OnPhase
    <3>8. (\A v \in Packs \ {u} : Part(g, OnPhase(p), v) = Part(f, B, v)) /\ Part(g, OnPhase(p), u) = Part(f, B, u) + x
      <4>1. \A v \in Packs \ {u} : v \in B <=> v \in OnPhase(p)
        OBVIOUS
      <4> HIDE DEF B
      <4>2. \A v \in Packs \ {u} : Part(g, OnPhase(p), v) = Part(f, B, v)
        BY <3>4, <4>1 DEF Part
      <4>3. Part(g, OnPhase(p), u) = x /\ Part(f, B, u) = 0
        BY <3>5, <3>7 DEF Part
      <4> QED BY <1>3, <4>2, <4>3
    <3> HIDE DEF B
    <3>9. Plus(g, OnPhase(p)) = Plus(f, B) + x
      BY <3>6, <3>8, PlusMore
    <3>10. Plus(f, B) \in Nat
      BY <3>3, PlusNat
    <3> QED BY <3>1, <3>2, <3>9, <3>10
  <2>4. /\ Allowance(p, dir = 1) = Budget(p, dir = 1) /\ Budget(p, dir = 1) \in Nat
        /\ Budget(p, dir = 1) > 0 =>
             (IF dir = 1 THEN shBase[p] ELSE 0 - shBase[p]) + Budget(p, dir = 1) <= ShLimit[p]
    BY <1>0, <2>1, BudgetBounds DEF Allowance
  <2>5. shBase[p] \in Int /\ ShLimit[p] \in Int
    <3>1. shBase[p] \in ShBases /\ ShLimit[p] \in Nat
      BY <1>0, <2>1, NumberFacts
    <3>2. \A z \in ShBases : z \in Int
      BY NumberFacts
    <3>3. shBase[p] \in Int
      BY <3>1, <3>2
    <3> QED BY <3>1, <3>3
  <2>6. dir * shBase[p] = IF dir = 1 THEN shBase[p] ELSE 0 - shBase[p]
    <3>1. CASE dir = 1
      BY <2>5, <3>1
    <3>2. CASE dir = -1
      BY <2>5, <3>2
    <3> QED BY <3>1, <3>2
  <2>7. free(u, dir) \in Nat /\ x <= free(u, dir) /\ (free(u, dir) > 0 => free(u, dir) = Allowance(p, dir = 1) - Others(u, dir))
    BY <1>3, <2>1
  <2> DEFINE t == Load(p, dir)  b == Budget(p, dir = 1)  k == dir * shBase[p]  r == Others(u, dir)  y == free(u, dir)
  <2>8. /\ t = r + x /\ r \in Nat /\ x \in Nat /\ x > 0 /\ b \in Nat /\ k \in Int /\ (b > 0 => k + b <= ShLimit[p])
        /\ y \in Nat /\ x <= y /\ (y > 0 => y = b - r) /\ ShLimit[p] \in Int
    BY <1>3, <2>2, <2>3, <2>4, <2>5, <2>6, <2>7
  <2> HIDE DEF t, b, k, r, y
  <2>9. k + t <= ShLimit[p]
    BY <2>8
  <2>10. Fits(p, dir)
    <3>1. dir * shBase'[p] = k /\ Load(p, dir) = t
      BY <1>2 DEF k, t
    <3> HIDE DEF Load
    <3> QED BY <2>9, <3>1
  <2> HIDE DEF Fits
  <2> QED BY <2>2, <2>10
<1>8. BlindStaysInside'
  BY <1>2 DEF BlindStaysInside
<1>9. shHold' \in [Phases -> Nat] /\ shKnown' \in [Phases -> ShBases] /\ HoldFits'
  BY <1>2, HeldFits DEF HoldFits
<1>10. shLeft' \in 0 .. ShMaxUpsets
  BY <1>0, <1>2, NumberFacts DEF Upset
<1>11. ShTypeOK'
  BY <1>1, <1>2, <1>5, <1>6, <1>9, <1>10 DEF ShInv, ShTypeOK
<1> QED BY <1>2, <1>7, <1>8, <1>9, <1>11 DEF ShInv

\* What the house, the meter and the availability do is not charged to a plan.
LEMMA AroundKeeps == ShInv /\ (ShHouse \/ ShMeter \/ ShAways \/ UNCHANGED shVars) => ShInv'
<1> SUFFICES ASSUME ShInv, ShHouse \/ ShMeter \/ ShAways \/ UNCHANGED shVars PROVE ShInv'
  OBVIOUS
<1>0. 1 \in Packs /\ ShMaxUpsets \in Nat
  BY NumberFacts
<1>1. CASE ShHouse
  <2>1. shBase' \in [Phases -> ShBases]
    BY <1>1 DEF ShHouse, ShInv, ShTypeOK
  <2>2. shLeft' \in 0 .. ShMaxUpsets
    BY <1>0, <1>1 DEF ShHouse, Upset, ShInv, ShTypeOK
  <2>3. shLast' = "other" /\ shWho' = 1 /\ shAsk' = 0 /\ UNCHANGED <<shDark, shAway, shOut, shHold, shActive, shDir, shKeep, shKnown>>
    BY <1>1 DEF ShHouse
  <2>4. ShTypeOK'
    BY <1>0, <2>1, <2>2, <2>3 DEF ShInv, ShTypeOK
  <2> QED BY <2>3, <2>4 DEF ShInv, HoldFits, PhaseEnvelope, BlindStaysInside
<1>2. CASE ShMeter
  <2>1. shDark' \subseteq Phases
    BY <1>2 DEF ShMeter, ShInv, ShTypeOK
  <2>2. shLeft' \in 0 .. ShMaxUpsets
    BY <1>0, <1>2 DEF ShMeter, Upset, ShInv, ShTypeOK
  <2>3. shLast' = "other" /\ shWho' = 1 /\ shAsk' = 0 /\ UNCHANGED <<shBase, shAway, shOut, shHold, shActive, shDir, shKeep, shKnown>>
    BY <1>2 DEF ShMeter
  <2>4. ShTypeOK'
    BY <1>0, <2>1, <2>2, <2>3 DEF ShInv, ShTypeOK
  <2> QED BY <2>3, <2>4 DEF ShInv, HoldFits, PhaseEnvelope, BlindStaysInside
<1>3. CASE ShAways
  <2>1. shAway' \subseteq Packs
    BY <1>3 DEF ShAways, ShInv, ShTypeOK
  <2>2. shLeft' \in 0 .. ShMaxUpsets
    BY <1>0, <1>3 DEF ShAways, Upset, ShInv, ShTypeOK
  <2>3. shLast' = "other" /\ shWho' = 1 /\ shAsk' = 0 /\ UNCHANGED <<shBase, shDark, shOut, shHold, shActive, shDir, shKeep, shKnown>>
    BY <1>3 DEF ShAways
  <2>4. ShTypeOK'
    BY <1>0, <2>1, <2>2, <2>3 DEF ShInv, ShTypeOK
  <2> QED BY <2>3, <2>4 DEF ShInv, HoldFits, PhaseEnvelope, BlindStaysInside
<1>4. CASE UNCHANGED shVars
  BY <1>4 DEF shVars, ShInv, ShTypeOK, HoldFits, PhaseEnvelope, BlindStaysInside, Inside, Drawn
<1> QED BY <1>1, <1>2, <1>3, <1>4



(* A battery of a list is among the first n exactly if its place is at most n; one more place adds it. *)
LEMMA FirstHas ==
    ASSUME NEW s \in Lists, NEW n \in 0 .. Len(s)
    PROVE  /\ \A i \in 1 .. Len(s) : s[i] \in ToSet(SubSeq(s, 1, n)) <=> i <= n
           /\ n < Len(s) => Append(SubSeq(s, 1, n), s[n + 1]) = SubSeq(s, 1, n + 1)
           /\ SubSeq(s, 1, Len(s)) = s
<1>0. Len(s) \in Nat /\ n \in Nat /\ s \in Seq(Packs) /\ \A i, j \in 1 .. Len(s) : s[i] = s[j] => i = j
  BY ListIs
<1> DEFINE a == SubSeq(s, 1, n)
<1>1. a \in Lists /\ Len(a) = n /\ (\A i \in 1 .. n : a[i] = s[i]) /\ ToSet(a) = {s[i] : i \in 1 .. n}
  BY FirstOf
<1> HIDE DEF a
<1>2. \A i \in 1 .. Len(s) : s[i] \in ToSet(a) <=> i <= n
  <2> SUFFICES ASSUME NEW i \in 1 .. Len(s) PROVE s[i] \in ToSet(a) <=> i <= n
    OBVIOUS
  <2>1. ASSUME s[i] \in ToSet(a) PROVE i <= n
    <3>1. PICK j \in 1 .. n : s[i] = s[j]
      BY <1>1, <2>1
    <3>2. j \in 1 .. Len(s) /\ j <= n
      BY <1>0
    <3> QED BY <1>0, <3>1, <3>2
  <2>2. ASSUME i <= n PROVE s[i] \in ToSet(a)
    <3>1. i \in 1 .. n
      BY <1>0, <2>2
    <3> QED BY <1>1, <3>1
  <2> QED BY <2>1, <2>2
<1>3. ASSUME n < Len(s) PROVE Append(a, s[n + 1]) = SubSeq(s, 1, n + 1)
  <2> DEFINE b == SubSeq(s, 1, n + 1)  c == Append(a, s[n + 1])
  <2>1. n + 1 \in 0 .. Len(s) /\ n + 1 \in 1 .. Len(s)
    BY <1>0, <1>3
  <2>2. b \in Lists /\ Len(b) = n + 1 /\ \A i \in 1 .. n + 1 : b[i] = s[i]
    BY <2>1, FirstOf
  <2>3. s[n + 1] \in Packs /\ a \in Seq(Packs) /\ b \in Seq(Packs)
    BY <1>1, <2>1, <2>2, ListIs
  <2>4. c \in Seq(Packs) /\ Len(c) = n + 1 /\ c[n + 1] = s[n + 1] /\ \A i \in 1 .. n : c[i] = a[i]
    BY <1>1, <2>3, AppendProperties
  <2> HIDE DEF b, c
  <2>5. \A i \in 1 .. n + 1 : c[i] = b[i]
    <3> SUFFICES ASSUME NEW i \in 1 .. n + 1 PROVE c[i] = b[i]
      OBVIOUS
    <3>1. CASE i = n + 1
      BY <2>2, <2>4, <3>1
    <3>2. CASE i # n + 1
      <4>1. i \in 1 .. n
        BY <1>0, <3>2
      <4> QED BY <1>1, <2>2, <2>4, <4>1
    <3> QED BY <3>1, <3>2
  <2>6. c = b
    BY <2>2, <2>3, <2>4, <2>5, SeqEqual
  <2> QED BY <2>6 DEF b, c
<1>4. SubSeq(s, 1, Len(s)) = s
  <2> DEFINE b == SubSeq(s, 1, Len(s))
  <2>1. Len(s) \in 0 .. Len(s)
    BY <1>0
  <2>2. b \in Lists /\ Len(b) = Len(s) /\ \A i \in 1 .. Len(s) : b[i] = s[i]
    BY <2>1, FirstOf
  <2> HIDE DEF b
  <2>3. b \in Seq(Packs)
    BY <2>2, ListIs
  <2>4. b = s
    BY <1>0, <2>2, <2>3, SeqEqual
  <2> QED BY <2>4 DEF b
<1> QED BY <1>2, <1>3, <1>4 DEF a

(* In an order the k batteries in use come first, as they were; the others follow by number. *)
InUse(used, avail) == Len(Among(used, avail))
OrderedBy(o, k, used, avail) ==
    /\ \A i \in 1 .. Len(o) : o[i] \in avail /\ (o[i] \in ToSet(used) <=> i <= k)
    /\ \A i \in 1 .. k, j \in 1 .. k : \A x, y \in 1 .. Len(used) : i < j /\ o[i] = used[x] /\ o[j] = used[y] => x < y
    /\ \A i, j \in 1 .. Len(o) : k < i /\ i < j => o[i] < o[j]

\* In the order the batteries in use come first, as they stood, and then the rest.
LEMMA OrderIs ==
    ASSUME NEW used \in Lists, NEW avail \in SUBSET Packs
    PROVE  InUse(used, avail) \in 0 .. Len(Order(used, avail)) /\ OrderedBy(Order(used, avail), InUse(used, avail), used, avail)
<1> DEFINE a == Among(used, avail)  b == Among(InTurn, avail \ ToSet(used))
           o == Order(used, avail)  M == Len(a)  N == Len(b)
<1>0. used \in Seq(Packs) /\ IsInjective(used) /\ InTurn \in Seq(Packs) /\ IsInjective(InTurn) /\ ToSet(InTurn) = Packs
  BY AllInTurn, ListIs DEF Lists
<1>1. a \in Lists /\ ToSet(a) = ToSet(used) \cap avail /\ InOrder(a, used)
  BY <1>0, AmongLists, AmongList
<1>2. b \in Lists /\ ToSet(b) = avail \ ToSet(used) /\ InOrder(b, InTurn)
  <2>1. b \in Lists /\ ToSet(b) = ToSet(InTurn) \cap (avail \ ToSet(used))
    BY AllInTurn, AmongLists
  <2>2. InOrder(b, InTurn)
    BY <1>0, AmongList
  <2> QED BY <1>0, <2>1, <2>2
<1>3. o = a \o b /\ InUse(used, avail) = M
  BY DEF Order, InUse
<1>4. /\ M \in Nat /\ N \in Nat /\ DOMAIN a = 1 .. M /\ DOMAIN b = 1 .. N /\ DOMAIN used = 1 .. Len(used)
      /\ (\A i \in 1 .. M : a[i] \in ToSet(a)) /\ (\A i \in 1 .. N : b[i] \in ToSet(b) /\ b[i] \in Packs)
      /\ a \in Seq(Packs) /\ b \in Seq(Packs)
  BY <1>1, <1>2, ListIs
<1>5. DOMAIN InTurn = Packs /\ \A u \in Packs : InTurn[u] = u
  BY DEF InTurn
<1> HIDE DEF a, b
<1>6. Len(o) = M + N /\ \A i \in 1 .. M + N : o[i] = IF i <= M THEN a[i] ELSE b[i - M]
  BY <1>3, <1>4, ConcatProperties
<1> HIDE DEF o, M, N
<1>7. \A i \in 1 .. M + N : (i <= M => i \in 1 .. M) /\ (~(i <= M) => i - M \in 1 .. N)
  BY <1>4
<1>8. \A i \in 1 .. M + N : o[i] \in avail /\ (o[i] \in ToSet(used) <=> i <= M)
  <2> SUFFICES ASSUME NEW i \in 1 .. M + N PROVE o[i] \in avail /\ (o[i] \in ToSet(used) <=> i <= M)
    OBVIOUS
  <2>1. CASE i <= M
    <3>1. o[i] \in ToSet(a)
      BY <1>4, <1>6, <1>7, <2>1
    <3> QED BY <1>1, <2>1, <3>1
  <2>2. CASE ~(i <= M)
    <3>1. o[i] \in ToSet(b)
      BY <1>4, <1>6, <1>7, <2>2
    <3> QED BY <1>2, <2>2, <3>1
  <2> QED BY <2>1, <2>2
<1>9. ASSUME NEW i \in 1 .. M, NEW j \in 1 .. M, NEW x \in 1 .. Len(used), NEW y \in 1 .. Len(used),
             i < j, o[i] = used[x], o[j] = used[y]
      PROVE  x < y
  <2>1. i \in 1 .. M + N /\ j \in 1 .. M + N /\ i <= M /\ j <= M
    BY <1>4
  <2>2. o[i] = a[i] /\ o[j] = a[j]
    BY <1>6, <2>1
  <2> QED BY <1>1, <1>4, <1>9, <2>2 DEF InOrder
<1>10. ASSUME NEW i \in 1 .. M + N, NEW j \in 1 .. M + N, M < i, i < j PROVE o[i] < o[j]
  <2>1. ~(i <= M) /\ ~(j <= M) /\ i - M < j - M
    BY <1>4, <1>10
  <2>2. o[i] = b[i - M] /\ o[j] = b[j - M] /\ i - M \in 1 .. N /\ j - M \in 1 .. N
    BY <1>6, <1>7, <2>1
  <2> DEFINE u == b[i - M]  v == b[j - M]
  <2>3. u \in Packs /\ v \in Packs
    BY <1>4, <2>2
  <2>4. b[i - M] = InTurn[u] /\ b[j - M] = InTurn[v]
    BY <1>5, <2>3
  <2>5. u < v
    <3> HIDE DEF u, v
    <3> QED BY <1>2, <1>4, <1>5, <2>1, <2>2, <2>3, <2>4 DEF InOrder
  <2> QED BY <2>2, <2>5
<1>11. M \in 0 .. Len(o)
  BY <1>4, <1>6
<1> QED BY <1>3, <1>6, <1>8, <1>9, <1>10, <1>11 DEF OrderedBy, o

(* What _select_batteries_for_operation() settles on: n of the order are enough (or all of it), the ones
   in use that follow stay while the power asks for them, and a last one not in use goes again when the
   power without it is clearly enough. *)
Shortest(power, o, n) ==
    /\ n = Len(o) \/ (n > 0 /\ 100 * power <= ShAct * First(o, n))
    /\ \A j \in 1 .. n - 1 : 100 * power > ShAct * First(o, j)
Kept(power, o, k, n, m) ==
    /\ n <= m /\ (m = n \/ m <= k)
    /\ \A j \in n .. m - 1 : 100 * power > ShDrop * First(o, j)
Steadied(power, o, k, used, m) ==
    IF used # <<>> /\ m > 1 /\ m > k /\ 100 * power <= ShJoin * First(o, m - 1) THEN m - 1 ELSE m
Chosen(power, o, k, used, s, n, m) ==
    /\ n \in 0 .. Len(o) /\ m \in 0 .. Len(o)
    /\ Shortest(power, o, n) /\ Kept(power, o, k, n, m)
    /\ 100 * power <= ShDrop * First(o, m) \/ m >= k
    /\ s = SubSeq(o, 1, Steadied(power, o, k, used, m))

(* One battery of the former choice after another: the prefix grows by the next one in use. *)
Stayed(power, o, k, used, n, i, s, m) ==
    /\ m \in 0 .. Len(o) /\ s = SubSeq(o, 1, m) /\ Kept(power, o, k, n, m)
    /\ \/ 100 * power <= ShDrop * First(o, m)
       \/ \A x \in 1 .. i : used[x] \in ToSet(o) => used[x] \in ToSet(s)

\* One more battery in use looked at: the steady choice goes on as the shape of it says.
LEMMA StayedGrows ==
    ASSUME NEW power \in Nat, NEW used \in Lists, NEW avail \in SUBSET Packs, NEW o \in Lists, ToSet(o) = avail,
           NEW k \in 0 .. Len(o), OrderedBy(o, k, used, avail), NEW n \in 0 .. Len(o), NEW i \in 0 .. Len(used) - 1,
           NEW s, NEW m, Stayed(power, o, k, used, n, i, s, m)
    PROVE  \E m2 : Stayed(power, o, k, used, n, i + 1, Stays(s, used[i + 1], power, o), m2)
<1> DEFINE u == used[i + 1]
           Low(j) == ShDrop * First(o, j)
<1>0. /\ Len(o) \in Nat /\ Len(used) \in Nat /\ i + 1 \in 1 .. Len(used) /\ u \in Packs /\ u \in ToSet(used)
      /\ \A x \in 1 .. i + 1 : x \in 1 .. i \/ x = i + 1
  BY ListIs
<1>1. /\ m \in 0 .. Len(o) /\ s = SubSeq(o, 1, m) /\ Kept(power, o, k, n, m)
      /\ \/ 100 * power <= Low(m)
         \/ \A x \in 1 .. i : used[x] \in ToSet(o) => used[x] \in ToSet(s)
  BY DEF Stayed
<1>2. First(o, m) = Plus(ShMax, ToSet(s)) /\ \A j : First(o, j) \in Nat
  BY <1>1, MaxSums DEF First
<1>3. 100 * power \in Int /\ ShDrop \in Int /\ \A j : Low(j) \in Int
  <2>1. ShDrop \in Int
    BY NumberFacts
  <2> QED BY <1>2, <2>1
<1>4. CASE ~(u \notin ToSet(s) /\ u \in ToSet(o) /\ 100 * power > Low(m))
  <2>1. Stays(s, u, power, o) = s
    BY <1>2, <1>4 DEF Stays
  <2>2. \/ 100 * power <= Low(m)
        \/ \A x \in 1 .. i + 1 : used[x] \in ToSet(o) => used[x] \in ToSet(s)
    <3> HIDE DEF Low
    <3> QED BY <1>0, <1>1, <1>3, <1>4
  <2> QED BY <1>1, <2>1, <2>2 DEF Stayed
<1>5. CASE u \notin ToSet(s) /\ u \in ToSet(o) /\ 100 * power > Low(m)
  <2>1. \A x \in 1 .. i : used[x] \in ToSet(o) => used[x] \in ToSet(s)
    <3> HIDE DEF Low
    <3> QED BY <1>1, <1>3, <1>5
  <2>2. PICK x \in 1 .. Len(o) : o[x] = u
    <3>1. DOMAIN o = 1 .. Len(o)
      BY ListIs
    <3> QED BY <1>5, <3>1 DEF ToSet
  <2>3. x > m /\ x <= k
    <3>1. ~(x <= m)
      BY <1>1, <1>5, <2>2, FirstHas
    <3>2. x <= k
      BY <1>0, <2>2 DEF OrderedBy
    <3> QED BY <1>1, <3>1, <3>2
  <2>4. m + 1 \in 1 .. Len(o) /\ m + 1 <= k /\ m < Len(o)
    BY <1>0, <1>1, <2>2, <2>3
  <2>5. x = m + 1
    <3> SUFFICES ASSUME x # m + 1 PROVE FALSE
      OBVIOUS
    <3>1. o[m + 1] \in ToSet(used)
      BY <2>4 DEF OrderedBy
    <3>2. DOMAIN used = 1 .. Len(used)
      BY ListIs
    <3>3. PICK y \in 1 .. Len(used) : used[y] = o[m + 1]
      BY <3>1, <3>2 DEF ToSet
    <3>4. m + 1 \in 1 .. k /\ x \in 1 .. k /\ m + 1 < x
      BY <1>0, <1>1, <2>2, <2>3, <2>4
    <3>5. y < i + 1
      BY <1>0, <2>2, <3>3, <3>4 DEF OrderedBy
    <3>6. y \in 1 .. i
      BY <1>0, <3>5
    <3>7. o[m + 1] \in ToSet(o)
      BY <2>4, ListIs
    <3>8. o[m + 1] \in ToSet(s)
      BY <2>1, <3>3, <3>6, <3>7
    <3>9. m + 1 <= m
      BY <1>1, <2>4, <3>8, FirstHas
    <3> QED BY <1>1, <3>9
  <2>6. Stays(s, u, power, o) = SubSeq(o, 1, m + 1)
    <3>1. Stays(s, u, power, o) = Append(s, u)
      BY <1>2, <1>5 DEF Stays
    <3>2. Append(SubSeq(o, 1, m), o[m + 1]) = SubSeq(o, 1, m + 1)
      BY <1>1, <2>4, FirstHas
    <3>3. o[m + 1] = u /\ s = SubSeq(o, 1, m)
      BY <1>1, <2>2, <2>5
    <3> QED BY <3>1, <3>2, <3>3
  <2>7. Kept(power, o, k, n, m + 1)
    <3>1. \A j \in n .. (m + 1) - 1 : j \in n .. m - 1 \/ j = m
      BY <1>1
    <3>2. n <= m
      BY <1>1 DEF Kept
    <3>3. \A j \in n .. m - 1 : 100 * power > Low(j)
      BY <1>1 DEF Kept
    <3>4. \A j \in n .. (m + 1) - 1 : 100 * power > Low(j)
      <4> HIDE DEF Low
      <4> QED BY <1>5, <3>1, <3>3
    <3> QED BY <1>1, <2>4, <3>2, <3>4 DEF Kept
  <2>8. \A z \in 1 .. i + 1 : used[z] \in ToSet(o) => used[z] \in ToSet(SubSeq(o, 1, m + 1))
    <3>1. u \in ToSet(SubSeq(o, 1, m + 1))
      <4>1. m + 1 \in 0 .. Len(o)
        BY <2>4
      <4> QED BY <1>1, <2>2, <2>4, <2>5, <4>1, FirstHas
    <3>2. \A z \in ToSet(s) : z \in ToSet(SubSeq(o, 1, m + 1))
      <4>1. m + 1 \in 0 .. Len(o)
        BY <2>4
      <4>2. ToSet(s) = {o[y] : y \in 1 .. m} /\ ToSet(SubSeq(o, 1, m + 1)) = {o[y] : y \in 1 .. m + 1}
        BY <1>1, <4>1, FirstOf
      <4>3. 1 .. m \subseteq 1 .. m + 1
        BY <1>1
      <4> QED BY <4>2, <4>3
    <3> QED BY <1>0, <2>1, <3>1, <3>2
  <2>9. m + 1 \in 0 .. Len(o)
    BY <2>4
  <2> QED BY <2>6, <2>7, <2>8, <2>9 DEF Stayed
<1> QED BY <1>4, <1>5

\* The steady choice in closed form: the first of the order, as many as the power needs and those that stay.
LEMMA SteadyIs ==
    ASSUME NEW power \in Nat, NEW used \in Lists, NEW avail \in SUBSET Packs
    PROVE  \E n, m : Chosen(power, Order(used, avail), InUse(used, avail), used, Steady(power, Order(used, avail), used), n, m)
<1> DEFINE o == Order(used, avail)  k == InUse(used, avail)  N == Len(used)
<1>0. o \in Lists /\ ToSet(o) = avail /\ k \in 0 .. Len(o) /\ OrderedBy(o, k, used, avail) /\ N \in Nat /\ Len(o) \in Nat
  <2>1. o \in Lists /\ ToSet(o) = avail
    BY OrderList
  <2> QED BY <2>1, OrderIs, ListIs
<1> HIDE DEF o, k
<1>1. PICK g \in [0 .. N -> {q \in Lists : ToSet(q) \subseteq ToSet(o)}] :
         StaysRun(g, power, o, used) /\ Steady(power, o, used) = Trimmed(g[N], power, used)
  BY <1>0, SteadyRun
<1>2. PICK n \in 0 .. Len(o) : Take(power, o) = SubSeq(o, 1, n) /\ Shortest(power, o, n)
  BY <1>0, TakeIs DEF Shortest
<1> DEFINE T == {i \in 0 .. N : \E m : Stayed(power, o, k, used, n, i, g[i], m)}
<1>3. \A i \in 0 .. N : i \in T
  <2>1. 0 \in T
    <3>1. g[0] = SubSeq(o, 1, n)
      BY <1>1, <1>2 DEF StaysRun
    <3>2. Kept(power, o, k, n, n)
      BY <1>0 DEF Kept
    <3>3. Stayed(power, o, k, used, n, 0, g[0], n)
      BY <3>1, <3>2 DEF Stayed
    <3> QED BY <1>0, <3>3
  <2>2. ASSUME NEW i \in 0 .. N - 1, i \in T PROVE i + 1 \in T
    <3>1. PICK m : Stayed(power, o, k, used, n, i, g[i], m)
      BY <2>2
    <3>2. i + 1 \in 1 .. N /\ (i + 1) - 1 = i /\ i + 1 \in 0 .. N
      BY <1>0
    <3>3. g[i + 1] = Stays(g[i], used[i + 1], power, o)
      BY <1>1, <3>2 DEF StaysRun
    <3>4. \E m2 : Stayed(power, o, k, used, n, i + 1, Stays(g[i], used[i + 1], power, o), m2)
      BY <1>0, <3>1, StayedGrows
    <3> QED BY <3>2, <3>3, <3>4
  <2> HIDE DEF T, N
  <2> QED BY <1>0, <2>1, <2>2, Climbs
<1>4. PICK m : Stayed(power, o, k, used, n, N, g[N], m)
  <2>1. N \in T
    <3>1. N \in 0 .. N
      BY <1>0
    <3> HIDE DEF T, N
    <3> QED BY <1>3, <3>1
  <2> QED BY <2>1
<1> DEFINE s == g[N]
<1>5. /\ m \in 0 .. Len(o) /\ s = SubSeq(o, 1, m) /\ Kept(power, o, k, n, m)
      /\ \/ 100 * power <= ShDrop * First(o, m)
         \/ \A x \in 1 .. N : used[x] \in ToSet(o) => used[x] \in ToSet(s)
  BY <1>4 DEF Stayed
<1> HIDE DEF s
<1>6. 100 * power <= ShDrop * First(o, m) \/ m >= k
  <2> SUFFICES ASSUME \A x \in 1 .. N : used[x] \in ToSet(o) => used[x] \in ToSet(s), k # 0 PROVE m >= k
    BY <1>0, <1>5
  <2>1. k \in 1 .. Len(o)
    BY <1>0
  <2>2. o[k] \in ToSet(used) /\ o[k] \in ToSet(o)
    BY <1>0, <2>1, ListIs DEF OrderedBy
  <2>3. DOMAIN used = 1 .. N
    BY ListIs
  <2>4. o[k] \in ToSet(s)
    BY <2>2, <2>3 DEF ToSet
  <2>5. k <= m
    BY <1>0, <1>5, <2>1, <2>4, FirstHas
  <2> QED BY <1>5, <2>5
<1>7. Steady(power, o, used) = SubSeq(o, 1, Steadied(power, o, k, used, m))
  <2>1. Len(s) = m /\ s \in Lists /\ m \in Nat
    BY <1>0, <1>5, FirstOf
  <2>2. ASSUME m > 1
        PROVE  Front(s) = SubSeq(o, 1, m - 1) /\ (s[m] \notin ToSet(used) <=> m > k)
    <3>1. m \in 1 .. m /\ m \in 1 .. Len(o) /\ m - 1 \in 0 .. Len(o) /\ m - 1 \in 0 .. m
      BY <1>0, <1>5, <2>2
    <3>2. s[m] = o[m]
      BY <1>0, <1>5, <3>1, FirstOf
    <3>3. o[m] \in ToSet(used) <=> m <= k
      BY <1>0, <3>1 DEF OrderedBy
    <3>4. Front(s) = SubSeq(s, 1, m - 1)
      BY <2>1 DEF Front
    <3>5. SubSeq(s, 1, m - 1) = SubSeq(o, 1, m - 1)
      <4> DEFINE a == SubSeq(s, 1, m - 1)  b == SubSeq(o, 1, m - 1)
      <4>1. a \in Lists /\ Len(a) = m - 1 /\ \A j \in 1 .. m - 1 : a[j] = s[j]
        BY <2>1, <3>1, FirstOf
      <4>2. b \in Lists /\ Len(b) = m - 1 /\ \A j \in 1 .. m - 1 : b[j] = o[j]
        BY <1>0, <3>1, FirstOf
      <4>3. \A j \in 1 .. m - 1 : j \in 1 .. m
        BY <2>1
      <4>4. \A j \in 1 .. m : s[j] = o[j]
        BY <1>0, <1>5, FirstOf
      <4>5. \A j \in 1 .. m - 1 : a[j] = b[j]
        BY <4>1, <4>2, <4>3, <4>4
      <4>6. a \in Seq(Packs) /\ b \in Seq(Packs)
        BY <4>1, <4>2, ListIs
      <4> HIDE DEF a, b
      <4>7. a = b
        BY <4>1, <4>2, <4>5, <4>6, SeqEqual
      <4> QED BY <4>7 DEF a, b
    <3>6. s[m] \notin ToSet(used) <=> ~(m <= k)
      BY <3>2, <3>3
    <3>7. ~(m <= k) <=> m > k
      BY <1>0, <2>1
    <3> QED BY <3>4, <3>5, <3>6, <3>7
  <2>3. Steady(power, o, used) = Trimmed(s, power, used)
    BY <1>1 DEF s
  <2>4. CASE used # <<>> /\ m > 1 /\ m > k /\ 100 * power <= ShJoin * First(o, m - 1)
    <3>1. Trimmed(s, power, used) = Front(s)
      BY <2>1, <2>2, <2>4 DEF Trimmed, First
    <3> QED BY <2>2, <2>3, <2>4, <3>1 DEF Steadied
  <2>5. CASE ~(used # <<>> /\ m > 1 /\ m > k /\ 100 * power <= ShJoin * First(o, m - 1))
    <3>1. Trimmed(s, power, used) = s
      BY <2>1, <2>2, <2>5 DEF Trimmed, First
    <3> QED BY <1>5, <2>3, <2>5, <3>1 DEF Steadied
  <2> QED BY <2>4, <2>5
<1>8. Chosen(power, o, k, used, Steady(power, o, used), n, m)
  BY <1>2, <1>5, <1>6, <1>7 DEF Chosen
<1> QED BY <1>8 DEF o, k

(* Choosing again for the same power, from the batteries chosen, chooses the same ones. *)
LEMMA Settles ==
    ASSUME NEW power \in Nat, NEW used \in Lists, NEW avail \in SUBSET Packs, NEW t,
           t = Steady(power, Order(used, avail), used)
    PROVE  ToSet(Steady(power, Order(t, avail), t)) = ToSet(t)
<1> DEFINE o == Order(used, avail)  k == InUse(used, avail)  o2 == Order(t, avail)
<1>0. /\ o \in Lists /\ ToSet(o) = avail /\ k \in 0 .. Len(o) /\ OrderedBy(o, k, used, avail) /\ Len(o) \in Nat
      /\ DOMAIN o = 1 .. Len(o)
  <2>1. o \in Lists /\ ToSet(o) = avail
    BY OrderList
  <2> QED BY <2>1, OrderIs, ListIs
<1>1. PICK n, m : Chosen(power, o, k, used, t, n, m)
  BY SteadyIs
<1> DEFINE e == Steadied(power, o, k, used, m)
<1> HIDE DEF o, k
<1>2. /\ n \in 0 .. Len(o) /\ m \in 0 .. Len(o) /\ Shortest(power, o, n) /\ Kept(power, o, k, n, m)
      /\ 100 * power <= ShDrop * First(o, m) \/ m >= k
      /\ t = SubSeq(o, 1, e)
  BY <1>1 DEF Chosen
<1>3. e \in 0 .. Len(o) /\ e <= m /\ (e = m \/ (e = m - 1 /\ m > 1 /\ m > k /\ 100 * power <= ShJoin * First(o, m - 1)))
  BY <1>0, <1>2 DEF Steadied
<1> HIDE DEF e
<1>4. t \in Lists /\ Len(t) = e /\ (\A i \in 1 .. e : t[i] = o[i]) /\ ToSet(t) = {o[i] : i \in 1 .. e}
  BY <1>0, <1>2, <1>3, FirstOf
<1>5. InUse(t, avail) = e /\ ToSet(t) \subseteq avail
  <2>1. \A i \in 1 .. e : i \in 1 .. Len(o)
    BY <1>0, <1>3
  <2>2. ToSet(t) \subseteq avail
    BY <1>0, <1>4, <2>1, ListIs
  <2>3. t \in Seq(Packs)
    BY <1>4, ListIs
  <2>4. Among(t, avail) = t
    BY <2>2, <2>3, AmongList
  <2> QED BY <1>4, <2>2, <2>4 DEF InUse
<1>6. /\ o2 \in Lists /\ ToSet(o2) = avail /\ e \in 0 .. Len(o2) /\ OrderedBy(o2, e, t, avail) /\ Len(o2) \in Nat
      /\ DOMAIN o2 = 1 .. Len(o2)
  <2>1. o2 \in Lists /\ ToSet(o2) = avail
    BY <1>4, OrderList
  <2>2. e \in 0 .. Len(o2) /\ OrderedBy(o2, e, t, avail)
    BY <1>4, <1>5, OrderIs
  <2> HIDE DEF o2
  <2> QED BY <2>1, <2>2, ListIs
<1>7. \A i \in 1 .. e : o2[i] = o[i]
  <2> DEFINE b == Among(InTurn, avail \ ToSet(t))
  <2>1. t \in Seq(Packs)
    BY <1>4, ListIs
  <2>2. o2 = t \o b
    <3>1. Among(t, avail) = t
      BY <1>5, <2>1, AmongList
    <3> QED BY <3>1 DEF Order
  <2>3. b \in Seq(Packs) /\ Len(b) \in Nat
    <3>1. b \in Lists
      BY AllInTurn, AmongLists
    <3> HIDE DEF b
    <3> QED BY <3>1, ListIs
  <2> HIDE DEF b, o2
  <2>4. \A i \in 1 .. e + Len(b) : o2[i] = IF i <= e THEN t[i] ELSE b[i - e]
    BY <1>4, <2>1, <2>2, <2>3, ConcatProperties
  <2>5. \A i \in 1 .. e : i \in 1 .. e + Len(b) /\ i <= e
    BY <1>0, <1>3, <2>3
  <2> QED BY <1>4, <2>4, <2>5
<1>8. PICK n2, m2 : Chosen(power, o2, e, t, Steady(power, o2, t), n2, m2)
  BY <1>4, <1>5, SteadyIs
<1> DEFINE e2 == Steadied(power, o2, e, t, m2)
<1>9. /\ n2 \in 0 .. Len(o2) /\ m2 \in 0 .. Len(o2) /\ Shortest(power, o2, n2) /\ Kept(power, o2, e, n2, m2)
      /\ 100 * power <= ShDrop * First(o2, m2) \/ m2 >= e
      /\ Steady(power, o2, t) = SubSeq(o2, 1, e2)
  BY <1>8 DEF Chosen
<1> HIDE DEF e2, o2
<1>10. \A j \in 0 .. e : ToSet(SubSeq(o2, 1, j)) = ToSet(SubSeq(o, 1, j)) /\ First(o2, j) = First(o, j)
  <2> SUFFICES ASSUME NEW j \in 0 .. e PROVE ToSet(SubSeq(o2, 1, j)) = ToSet(SubSeq(o, 1, j))
    BY DEF First
  <2>1. j \in 0 .. Len(o) /\ j \in 0 .. Len(o2) /\ \A i \in 1 .. j : i \in 1 .. e
    BY <1>0, <1>3, <1>6
  <2>2. ToSet(SubSeq(o, 1, j)) = {o[i] : i \in 1 .. j}
    BY <1>0, <2>1, FirstOf
  <2>3. ToSet(SubSeq(o2, 1, j)) = {o2[i] : i \in 1 .. j}
    BY <1>6, <2>1, FirstOf
  <2> QED BY <1>7, <2>1, <2>2, <2>3
<1>11. Len(o2) > e <=> Len(o) > e
  <2>1. \A i \in 1 .. Len(o) : o[i] \in ToSet(t) <=> i <= e
    BY <1>0, <1>2, <1>3, FirstHas
  <2>2. \A i \in 1 .. Len(o2) : o2[i] \in avail /\ (o2[i] \in ToSet(t) <=> i <= e)
    BY <1>6 DEF OrderedBy
  <2>3. ASSUME Len(o2) > e PROVE Len(o) > e
    <3>1. e + 1 \in 1 .. Len(o2) /\ ~(e + 1 <= e)
      BY <1>3, <1>6, <2>3
    <3>2. o2[e + 1] \in avail /\ o2[e + 1] \notin ToSet(t)
      BY <2>2, <3>1
    <3>3. PICK i \in 1 .. Len(o) : o[i] = o2[e + 1]
      BY <1>0, <3>2 DEF ToSet
    <3> QED BY <1>0, <1>3, <2>1, <3>2, <3>3
  <2>4. ASSUME Len(o) > e PROVE Len(o2) > e
    <3>1. e + 1 \in 1 .. Len(o) /\ ~(e + 1 <= e)
      BY <1>0, <1>3, <2>4
    <3>2. o[e + 1] \in avail /\ o[e + 1] \notin ToSet(t)
      BY <1>0, <2>1, <3>1, ListIs
    <3>3. PICK i \in 1 .. Len(o2) : o2[i] = o[e + 1]
      BY <1>6, <3>2 DEF ToSet
    <3> QED BY <1>3, <1>6, <2>2, <3>2, <3>3
  <2> QED BY <2>3, <2>4
<1>12. /\ 100 * power \in Int /\ \A j : First(o, j) \in Nat /\ First(o2, j) \in Nat
       /\ \A j : ShAct * First(o, j) \in Int /\ ShAct * First(o2, j) \in Int
                 /\ ShDrop * First(o, j) \in Int /\ ShDrop * First(o2, j) \in Int
  <2>1. ShAct \in Nat /\ ShJoin \in Nat /\ ShDrop \in Nat
    BY NumberFacts
  <2>2. \A j : First(o, j) \in Nat /\ First(o2, j) \in Nat
    BY MaxSums DEF First
  <2> QED BY <2>1, <2>2
<1>13. e2 = e
  <2> DEFINE P == 100 * power
             High(s, j) == ShAct * First(s, j)
             Low(s, j) == ShDrop * First(s, j)
  <2>0. /\ n2 = Len(o2) \/ (n2 > 0 /\ P <= High(o2, n2))
        /\ \A j \in 1 .. n2 - 1 : P > High(o2, j)
        /\ n = Len(o) \/ (n > 0 /\ P <= High(o, n))
        /\ \A j \in 1 .. n - 1 : P > High(o, j)
        /\ n <= m /\ (m = n \/ m <= k) /\ \A j \in n .. m - 1 : P > Low(o, j)
        /\ n2 <= m2 /\ (m2 = n2 \/ m2 <= e)
        /\ P <= Low(o2, m2) \/ m2 >= e
        /\ P \in Int /\ \A j : High(o, j) \in Int /\ High(o2, j) \in Int /\ Low(o, j) \in Int /\ Low(o2, j) \in Int
    BY <1>2, <1>9, <1>12 DEF Shortest, Kept
  <2>1. \A j \in 0 .. e : High(o2, j) = High(o, j) /\ Low(o2, j) = Low(o, j)
    BY <1>10
  <2> HIDE DEF P, High, Low
  <2>n. /\ n \in Nat /\ m \in Nat /\ e \in Nat /\ n2 \in Nat /\ m2 \in Nat /\ Len(o) \in Nat /\ Len(o2) \in Nat
        /\ n <= Len(o) /\ m <= Len(o) /\ n2 <= Len(o2) /\ m2 <= Len(o2) /\ e <= Len(o) /\ e <= Len(o2) /\ k \in Nat
        /\ n <= m /\ n2 <= m2
    <3>1. n \in 0 .. Len(o) /\ m \in 0 .. Len(o) /\ e \in 0 .. Len(o) /\ k \in 0 .. Len(o) /\ Len(o) \in Nat
      BY <1>0, <1>2, <1>3
    <3>2. n2 \in 0 .. Len(o2) /\ m2 \in 0 .. Len(o2) /\ e \in 0 .. Len(o2) /\ Len(o2) \in Nat
      BY <1>6, <1>9
    <3>3. n <= m /\ n2 <= m2
      BY <2>0
    <3> QED BY <3>1, <3>2, <3>3
  <2>2. CASE e = m
    <3>1. ~(n2 < n)
      <4> SUFFICES ASSUME n2 < n PROVE FALSE
        OBVIOUS
      <4>1. n2 \in 0 .. e /\ n2 # Len(o2)
        BY <2>n, <2>2
      <4>2. n2 \in 1 .. n - 1
        BY <1>2, <1>9, <2>0, <4>1
      <4>3. P <= High(o2, n2) /\ High(o2, n2) = High(o, n2) /\ P > High(o, n2)
        BY <2>0, <2>1, <4>1, <4>2
      <4> QED BY <2>0, <4>3
    <3>2. ~(n2 > n)
      <4> SUFFICES ASSUME n2 > n PROVE FALSE
        OBVIOUS
      <4>1. CASE n = Len(o)
        <5>1. e = n
          BY <2>n, <2>2, <4>1
        <5>2. ~(Len(o2) > e)
          BY <1>0, <1>11, <4>1, <5>1
        <5> QED BY <1>6, <1>9, <5>1, <5>2, <1>3
      <4>2. CASE n > 0 /\ P <= High(o, n)
        <5>1. n \in 1 .. n2 - 1 /\ n \in 0 .. e
          BY <1>2, <1>9, <2>0, <2>2, <4>2
        <5>2. P > High(o2, n) /\ High(o2, n) = High(o, n)
          BY <2>0, <2>1, <5>1
        <5> QED BY <2>0, <4>2, <5>2
      <4> QED BY <2>0, <4>1, <4>2
    <3>3. n2 = n
      BY <1>2, <1>9, <3>1, <3>2
    <3>4. m2 <= e
      BY <1>2, <1>9, <2>0, <2>2, <3>3
    <3>5. ~(m2 < e)
      <4> SUFFICES ASSUME m2 < e PROVE FALSE
        OBVIOUS
      <4>1. m2 \in n .. m - 1 /\ m2 \in 0 .. e
        BY <1>2, <1>3, <1>9, <2>0, <2>2, <3>3
      <4>2. P > Low(o, m2) /\ Low(o, m2) = Low(o2, m2)
        BY <2>0, <2>1, <4>1
      <4>3. P <= Low(o2, m2)
        BY <1>3, <1>9, <2>0
      <4> QED BY <2>0, <4>2, <4>3
    <3>6. m2 = e
      BY <1>3, <1>9, <3>4, <3>5
    <3>7. ~(m2 > e)
      BY <1>3, <3>6
    <3> QED BY <3>6, <3>7 DEF e2, Steadied
  <2>3. CASE e = m - 1 /\ m > 1 /\ m > k /\ 100 * power <= ShJoin * First(o, m - 1)
    <3>1. m = n /\ m = e + 1 /\ e < m /\ k < m /\ m \in 1 .. Len(o) /\ Len(o) > e
      BY <2>n, <2>0, <2>3
    <3>2. Len(o2) > e /\ m \in 1 .. Len(o2)
      BY <1>6, <1>11, <3>1
    <3>3. n2 > e
      <4> SUFFICES ASSUME ~(n2 > e) PROVE FALSE
        OBVIOUS
      <4>1. n2 # Len(o2) /\ n2 \in 0 .. e
        BY <2>n, <3>2
      <4>2. n2 \in 1 .. n - 1
        BY <2>0, <2>n, <3>1, <4>1
      <4>3. P <= High(o2, n2) /\ High(o2, n2) = High(o, n2) /\ P > High(o, n2)
        BY <2>0, <2>1, <4>1, <4>2
      <4> QED BY <2>0, <4>3
    <3>4. \A i \in 1 .. Len(o) : o[i] \in avail /\ (o[i] \in ToSet(t) <=> i <= e)
      BY <1>0, <1>2, <1>3, FirstHas, ListIs
    <3>5. \A i \in 1 .. Len(o2) : o2[i] \in avail /\ (o2[i] \in ToSet(t) <=> i <= e)
      BY <1>6 DEF OrderedBy
    <3>6. \A u \in avail : (\E i \in 1 .. Len(o) : o[i] = u) /\ \E i \in 1 .. Len(o2) : o2[i] = u
      BY <1>0, <1>6 DEF ToSet
    <3>7. o2[m] = o[m]
      <4> SUFFICES ASSUME o2[m] # o[m] PROVE FALSE
        OBVIOUS
      <4>1. o2[m] \in avail /\ o2[m] \notin ToSet(t) /\ o[m] \in avail /\ o[m] \notin ToSet(t)
        BY <1>3, <3>1, <3>2, <3>4, <3>5
      <4>2. PICK j \in 1 .. Len(o) : o[j] = o2[m]
        BY <3>6, <4>1
      <4>3. PICK i \in 1 .. Len(o2) : o2[i] = o[m]
        BY <3>6, <4>1
      <4>4. ~(j <= e) /\ ~(i <= e) /\ j # m /\ i # m
        BY <3>4, <3>5, <4>1, <4>2, <4>3
      <4>5. m < j /\ m < i
        BY <1>0, <1>3, <1>6, <3>1, <4>4
      <4>6. o[m] < o[j]
        BY <1>0, <3>1, <4>5 DEF OrderedBy
      <4>7. o2[m] < o2[i]
        BY <1>6, <3>1, <3>2, <4>5 DEF OrderedBy
      <4>8. o[m] \in Int /\ o2[m] \in Int
        <5>1. avail \subseteq Packs /\ Packs \subseteq Int
          BY NumberFacts DEF Packs
        <5> QED BY <4>1, <5>1
      <4> QED BY <4>2, <4>3, <4>6, <4>7, <4>8
    <3>8. First(o2, m) = First(o, m)
      <4>1. \A i \in 1 .. m : o2[i] = o[i]
        <5>1. \A i \in 1 .. m : i \in 1 .. e \/ i = m
          BY <1>3, <3>1
        <5> QED BY <1>7, <3>7, <5>1
      <4>2. m \in 0 .. Len(o) /\ m \in 0 .. Len(o2)
        BY <1>0, <1>6, <3>1, <3>2
      <4>3. ToSet(SubSeq(o, 1, m)) = {o[i] : i \in 1 .. m}
        BY <1>0, <4>2, FirstOf
      <4>4. ToSet(SubSeq(o2, 1, m)) = {o2[i] : i \in 1 .. m}
        BY <1>6, <4>2, FirstOf
      <4>5. ToSet(SubSeq(o2, 1, m)) = ToSet(SubSeq(o, 1, m))
        BY <4>1, <4>3, <4>4
      <4> QED BY <4>5 DEF First
    <3>9. ~(n2 > m)
      <4> SUFFICES ASSUME n2 > m PROVE FALSE
        OBVIOUS
      <4>1. CASE n = Len(o)
        <5>1. m + 1 \in 1 .. Len(o2)
          BY <1>6, <1>9, <3>2
        <5>2. PICK j \in 1 .. Len(o) : o[j] = o2[m + 1]
          BY <3>5, <3>6, <5>1
        <5>3. j \in 1 .. e \/ j = m
          <6>1. j \in 1 .. m /\ m = e + 1 /\ e \in Nat
            BY <2>n, <3>1, <4>1
          <6> QED BY <6>1
        <5>4. o2[j] = o2[m + 1] /\ j \in 1 .. Len(o2) /\ j <= m
          BY <1>3, <1>6, <1>7, <3>1, <3>2, <3>7, <5>2, <5>3
        <5>5. j = m + 1
          BY <1>6, <5>1, <5>4, ListIs
        <5> QED BY <3>1, <5>4, <5>5
      <4>2. CASE n > 0 /\ P <= High(o, n)
        <5>1. m \in 1 .. n2 - 1
          BY <1>9, <3>1, <3>2
        <5>2. P > High(o2, m) /\ High(o2, m) = High(o, m)
          BY <2>0, <3>8, <5>1 DEF High
        <5> QED BY <2>0, <3>1, <4>2, <5>2
      <4> QED BY <2>0, <4>1, <4>2
    <3>10. n2 = m
      BY <1>3, <1>9, <3>1, <3>2, <3>3, <3>9
    <3>11. m2 = m /\ m2 > 1 /\ m2 > e /\ m2 - 1 = e
      BY <1>3, <1>9, <2>0, <2>3, <3>1, <3>10
    <3>12. t # <<>>
      <4>1. Len(<<>>) = 0
        OBVIOUS
      <4> QED BY <2>n, <1>4, <2>3, <4>1
    <3>13. 100 * power <= ShJoin * First(o2, m2 - 1)
      <4>1. First(o2, e) = First(o, e) /\ m - 1 = e
        BY <1>3, <1>10, <3>1
      <4> QED BY <2>3, <3>11, <4>1
    <3> QED BY <3>11, <3>12, <3>13 DEF e2, Steadied
  <2> QED BY <1>3, <2>2, <2>3
<1>14. e \in 0 .. e
  BY <1>3
<1> QED BY <1>9, <1>10, <1>13, <1>14, <1>2 DEF o2

(* With no hold left the choice is the steady one. *)
LEMMA SelectNone ==
    ASSUME NEW power \in Nat, NEW order \in Lists, NEW used \in Lists
    PROVE  Select(power, order, used, [u \in Packs |-> 0]) = Steady(power, order, used)
<1> DEFINE keep == [u \in Packs |-> 0]
           now == Steady(power, order, used)
           S == {u \in ToSet(order) \ ToSet(now) : keep[u] > 0}
           more == Among(used, S)
<1>1. ToSet(order) \subseteq Packs
  BY ListIs
<1>2. S = {}
  BY <1>1
<1> HIDE DEF S
<1>3. more \in Lists /\ ToSet(more) = {}
  BY <1>2, AmongLists
<1>4. more = <<>>
  <2> HIDE DEF more
  <2> QED BY <1>3, NothingTo
<1>5. now \in Seq(Packs)
  BY SteadyList, ListIs
<1>6. Select(power, order, used, keep) = now \o more
  BY DEF Select, S
<1> HIDE DEF now, more, keep
<1>7. now \o <<>> = now
  BY <1>5, ConcatEmptySeq
<1>8. Select(power, order, used, keep) = now
  BY <1>4, <1>6, <1>7
<1> QED BY <1>8 DEF now, keep

\* The choice repeated is the choice made.
LEMMA ChoiceHolds == shActive \in Lists /\ shAway \subseteq Packs => ChoiceSettles
<1> SUFFICES ASSUME shActive \in Lists, shAway \subseteq Packs, NEW power \in ShAsks \ {0}
    PROVE  LET avail == Packs \ shAway
               none == [u \in Packs |-> 0]
               once == Select(power, Order(shActive, avail), shActive, none)
           IN  ToSet(Select(power, Order(once, avail), once, none)) = ToSet(once)
  BY DEF ChoiceSettles
<1> DEFINE avail == Packs \ shAway
           none == [u \in Packs |-> 0]
           o == Order(shActive, avail)
           once == Select(power, o, shActive, none)
           t == Steady(power, o, shActive)
<1>1. power \in Nat /\ avail \in SUBSET Packs
  BY NumberFacts
<1>2. o \in Lists
  BY <1>1, OrderList
<1>3. once = t
  <2> HIDE DEF o
  <2> QED BY <1>1, <1>2, SelectNone
<1>4. t \in Lists
  <2> HIDE DEF o
  <2> QED BY <1>1, <1>2, SteadyList
<1>5. Order(t, avail) \in Lists
  <2> HIDE DEF t, avail
  <2> QED BY <1>1, <1>4, OrderList
<1>6. Select(power, Order(t, avail), t, none) = Steady(power, Order(t, avail), t)
  <2> HIDE DEF t, avail
  <2> QED BY <1>1, <1>4, <1>5, SelectNone
<1>7. ToSet(Steady(power, Order(t, avail), t)) = ToSet(t)
  <2> HIDE DEF avail
  <2> QED BY <1>1, Settles
<1> QED BY <1>3, <1>6, <1>7

\* A sum, step by step, with the parts that count.
LEMMA PlusSteps ==
    ASSUME NEW f, NEW S, Summed(f)
    PROVE  \E g \in [0 .. Len(ShPhase) -> Int] :
              g[0] = 0 /\ Plus(f, S) = g[Len(ShPhase)] /\ \A n \in Packs : g[n] = g[n - 1] + Part(f, S, n)
<1>1. \A u \in Packs : f[u] \in Int
  BY DEF Summed
<1>2. PICK g \in [0 .. Len(ShPhase) -> Int] :
              /\ g[0] = 0
              /\ \A n \in Packs : g[n] = g[n - 1] + (IF n \in S THEN f[n] ELSE 0)
              /\ Plus(f, S) = g[Len(ShPhase)]
  BY <1>1, PlusRun
<1> QED BY <1>2 DEF Part

(* A sum split battery by battery into two. *)
LEMMA PlusSplit ==
    ASSUME NEW f, NEW S, NEW h, NEW R, NEW g, NEW Q, Summed(f), Summed(h), Summed(g),
           \A u \in Packs : Part(g, Q, u) = Part(f, S, u) + Part(h, R, u)
    PROVE  Plus(g, Q) = Plus(f, S) + Plus(h, R)
<1> DEFINE N == Len(ShPhase)
<1>0. N \in Nat /\ Packs = 1 .. N /\ \A u \in Packs : Part(f, S, u) \in Int /\ Part(h, R, u) \in Int
  BY NumberFacts DEF Summed, Part
<1>2. PICK a \in [0 .. N -> Int] : a[0] = 0 /\ Plus(f, S) = a[N] /\ \A n \in Packs : a[n] = a[n - 1] + Part(f, S, n)
  BY PlusSteps
<1>3. PICK b \in [0 .. N -> Int] : b[0] = 0 /\ Plus(h, R) = b[N] /\ \A n \in Packs : b[n] = b[n - 1] + Part(h, R, n)
  BY PlusSteps
<1>4. PICK c \in [0 .. N -> Int] : c[0] = 0 /\ Plus(g, Q) = c[N] /\ \A n \in Packs : c[n] = c[n - 1] + Part(g, Q, n)
  BY PlusSteps
<1> HIDE DEF N
<1> DEFINE T == {n \in 0 .. N : c[n] = a[n] + b[n]}
<1>5. \A n \in 0 .. N : n \in T
  <2>1. 0 \in T
    BY <1>0, <1>2, <1>3, <1>4
  <2>2. ASSUME NEW n \in 0 .. N - 1, n \in T PROVE n + 1 \in T
    <3>1. n + 1 \in Packs /\ (n + 1) - 1 = n /\ n + 1 \in 0 .. N
      BY <1>0
    <3>2. a[n] \in Int /\ b[n] \in Int /\ c[n] = a[n] + b[n] /\ Part(f, S, n + 1) \in Int /\ Part(h, R, n + 1) \in Int
      BY <1>0, <2>2, <3>1
    <3>3. a[n + 1] = a[n] + Part(f, S, n + 1) /\ b[n + 1] = b[n] + Part(h, R, n + 1)
          /\ c[n + 1] = c[n] + Part(f, S, n + 1) + Part(h, R, n + 1)
      <4>1. a[n + 1] = a[n] + Part(f, S, n + 1)
        BY <1>2, <3>1
      <4>2. b[n + 1] = b[n] + Part(h, R, n + 1)
        BY <1>3, <3>1
      <4>3. c[n + 1] = c[n] + Part(g, Q, n + 1)
        BY <1>4, <3>1
      <4>4. c[n] + Part(g, Q, n + 1) = c[n] + Part(f, S, n + 1) + Part(h, R, n + 1)
        <5>1. Part(g, Q, n + 1) = Part(f, S, n + 1) + Part(h, R, n + 1)
          BY <3>1
        <5> QED BY <3>2, <5>1
      <4> QED BY <4>1, <4>2, <4>3, <4>4
    <3> QED BY <3>1, <3>2, <3>3
  <2> HIDE DEF T
  <2> QED BY <1>0, <2>1, <2>2, Climbs
<1>6. N \in 0 .. N
  BY <1>0
<1> QED BY <1>2, <1>3, <1>4, <1>5, <1>6

(* One battery strictly less makes the sum strictly less. *)
LEMMA PlusStrict ==
    ASSUME NEW f, NEW S, NEW h, NEW R, f \in [Packs -> Int], Summed(h), NEW u \in Packs,
           \A v \in Packs : Part(f, S, v) <= Part(h, R, v), Part(f, S, u) < Part(h, R, u)
    PROVE  Plus(f, S) < Plus(h, R)
<1> DEFINE g == [v \in Packs |-> Part(f, S, v) + (IF v = u THEN 1 ELSE 0)]
           one == [v \in Packs |-> IF v = u THEN 1 ELSE 0]
<1>1. \A v \in Packs : Part(f, S, v) \in Int /\ Part(h, R, v) \in Int
  BY DEF Part, Summed
<1>2. Summed(f) /\ Summed(g)
  BY <1>1 DEF Summed
<1>3. /\ \A v \in Packs \ {u} : Part(g, Packs, v) = Part(f, S, v)
      /\ Part(g, Packs, u) = Part(f, S, u) + 1
  <2>1. \A v \in Packs : Part(g, Packs, v) = g[v]
    BY DEF Part
  <2>2. \A v \in Packs \ {u} : g[v] = Part(f, S, v)
    BY <1>1
  <2>3. g[u] = Part(f, S, u) + 1
    OBVIOUS
  <2> HIDE DEF g
  <2> QED BY <2>1, <2>2, <2>3
<1>4. \A v \in Packs : Part(g, Packs, v) <= Part(h, R, v)
  <2> SUFFICES ASSUME NEW v \in Packs PROVE Part(g, Packs, v) <= Part(h, R, v)
    OBVIOUS
  <2> HIDE DEF g
  <2>1. CASE v = u
    BY <1>1, <1>3, <2>1
  <2>2. CASE v # u
    BY <1>1, <1>3, <2>2
  <2> QED BY <2>1, <2>2
<1> HIDE DEF g
<1>5. Plus(g, Packs) = Plus(f, S) + 1
  BY <1>2, <1>3, PlusMore
<1>6. Plus(g, Packs) <= Plus(h, R)
  BY <1>2, <1>4, PlusCompare
<1>7. Plus(f, S) \in Int /\ Plus(h, R) \in Int
  BY <1>2, PlusInt
<1> QED BY <1>5, <1>6, <1>7

\* A sum of multiples is the multiple of the sum.
LEMMA PlusTimes ==
    ASSUME NEW f, NEW S, Summed(f), NEW a \in Int, NEW h, Summed(h), \A u \in Packs : h[u] = a * f[u]
    PROVE  Plus(h, S) = a * Plus(f, S)
<1> DEFINE T == {t \in Int \X Int \X Int : t[2] = a * t[3]}
<1>1. \A n \in Packs : Part(f, S, n) \in Int /\ Part(h, S, n) \in Int /\ n \in Int /\ n - 1 \in Int /\ Part(h, S, n) = a * Part(f, S, n)
  BY NumberFacts DEF Summed, Part
<1>2. <<0, 0, 0>> \in T
  OBVIOUS
<1>3. ASSUME NEW n \in Packs, NEW x \in Int, NEW y \in Int, <<n - 1, x, y>> \in T
      PROVE  <<n, x + Part(h, S, n), y + Part(f, S, n)>> \in T
  <2>1. x = a * y
    BY <1>3
  <2>2. a * y + a * Part(f, S, n) = a * (y + Part(f, S, n))
    BY <1>1
  <2> QED BY <1>1, <2>1, <2>2
<1>4. <<Len(ShPhase), Plus(h, S), Plus(f, S)>> \in T
  <2> HIDE DEF T
  <2> QED BY <1>2, <1>3, PlusTogether
<1> QED BY <1>4

(* Rounding half to even loses at most half a step. *)
LEMMA HalfEvenClose ==
    ASSUME NEW n \in Nat, NEW d \in Nat \ {0}
    PROVE  HalfEven(n, d) \in Nat /\ 2 * n <= d * (2 * HalfEven(n, d) + 1)
<1> DEFINE q == n \div d  m == n % d
<1>1. q \in Nat /\ m \in Nat /\ m < d /\ n = d * q + m
  OBVIOUS
<1>2. HalfEven(n, d) = IF 2 * m > d \/ (2 * m = d /\ q % 2 = 1) THEN q + 1 ELSE q
  BY DEF HalfEven
<1> HIDE DEF q, m
<1> DEFINE z == d * q
<1>3. z \in Nat /\ n = z + m /\ d * (2 * q + 1) = 2 * z + d /\ d * (2 * (q + 1) + 1) = 2 * z + 3 * d
  BY <1>1
<1> HIDE DEF z
<1>4. CASE HalfEven(n, d) = q + 1
  BY <1>1, <1>3, <1>4
<1>5. CASE HalfEven(n, d) = q /\ ~(2 * m > d)
  BY <1>1, <1>3, <1>5
<1> QED BY <1>1, <1>2, <1>4, <1>5

(* A division under way: the full batteries have their limits, the others nothing yet. *)
Raw(s, C, T) ==
    /\ \A u \in s.open : s.got[u] = 0
    /\ s.rest + Plus(s.got, C) = T
    /\ s.rest + Plus(ShMax, C) = T + Plus(ShMax, s.open)

\* A battery that is filled takes from the rest what it gets.
LEMMA FilledRaw ==
    ASSUME NEW chosen \in Lists, NEW s \in Sharing(chosen), NEW w, Weights(w), NEW u \in s.open,
           NEW cap \in Nat, w[u] <= cap, NEW T \in Int, Raw(s, ToSet(chosen), T)
    PROVE  /\ Raw(Filled(s, u, w, cap), ToSet(chosen), T)
           /\ s.open \ {u} \subseteq Filled(s, u, w, cap).open
           /\ Filled(s, u, w, cap) \in Sharing(chosen) /\ Filled(s, u, w, cap).open \subseteq s.open
<1> DEFINE C == ToSet(chosen)
<1>0. /\ s.rest \in Nat /\ s.open \subseteq Packs /\ s.got \in [Packs -> Nat] /\ s.open \subseteq C
      /\ u \in Packs /\ u \in C /\ chosen \in Seq(Packs) /\ ShMax[u] \in Nat
  BY NumberFacts DEF Sharing, Lists
<1>1. Filled(s, u, w, cap) \in Sharing(chosen) /\ Filled(s, u, w, cap).open \subseteq s.open
  BY <1>0, FullFits
<1>2. /\ \A v \in s.open : s.got[v] = 0
      /\ s.rest + Plus(s.got, C) = T
      /\ s.rest + Plus(ShMax, C) = T + Plus(ShMax, s.open)
  BY DEF Raw
<1>3. CASE s.rest * w[u] >= ShMax[u] * cap
  <2> DEFINE rest == s.rest - ShMax[u]  open == s.open \ {u}  got == [s.got EXCEPT ![u] = ShMax[u]]
  <2>1. Filled(s, u, w, cap) = [rest |-> rest, open |-> open, got |-> got]
    BY <1>3 DEF Filled
  <2>2. got \in [Packs -> Nat] /\ got[u] = ShMax[u] /\ \A v \in Packs \ {u} : got[v] = s.got[v]
    BY <1>0
  <2>3. (\A v \in open : got[v] = 0)
    BY <1>0, <1>2, <2>2
  <2> HIDE DEF got
  <2>4. Plus(got, C) = Plus(s.got, C) + ShMax[u]
    <3>1. Summed(got) /\ Summed(s.got)
      BY <1>0, <2>2 DEF Summed
    <3>2. \A v \in Packs \ {u} : Part(got, C, v) = Part(s.got, C, v)
      BY <2>2 DEF Part
    <3>3. Part(got, C, u) = Part(s.got, C, u) + ShMax[u]
      <4>1. s.got[u] = 0
        BY <1>2
      <4> QED BY <1>0, <2>2, <4>1 DEF Part
    <3> HIDE DEF C
    <3> QED BY <1>0, <3>1, <3>2, <3>3, PlusMore
  <2>5. Plus(ShMax, s.open) = Plus(ShMax, open) + ShMax[u]
    <3>1. Summed(ShMax)
      BY NumberFacts DEF Summed
    <3>2. \A v \in Packs \ {u} : Part(ShMax, s.open, v) = Part(ShMax, open, v)
      BY DEF Part
    <3>3. Part(ShMax, s.open, u) = Part(ShMax, open, u) + ShMax[u]
      BY <1>0 DEF Part
    <3> DEFINE all == s.open
    <3>4. (\A v \in Packs \ {u} : Part(ShMax, all, v) = Part(ShMax, open, v)) /\ Part(ShMax, all, u) = Part(ShMax, open, u) + ShMax[u]
      BY <3>2, <3>3
    <3> HIDE DEF open, all
    <3>5. Plus(ShMax, all) = Plus(ShMax, open) + ShMax[u]
      BY <1>0, <3>1, <3>4, PlusMore
    <3> QED BY <3>5 DEF all
  <2>6. Plus(got, C) \in Int /\ Plus(s.got, C) \in Int /\ Plus(ShMax, s.open) \in Int /\ Plus(ShMax, open) \in Int /\ Plus(ShMax, C) \in Int
    <3>1. Summed(got) /\ Summed(s.got) /\ Summed(ShMax)
      <4>1. Summed(ShMax)
        BY NumberFacts DEF Summed
      <4> QED BY <1>0, <2>2, <4>1 DEF Summed
    <3> HIDE DEF C, open
    <3> QED BY <3>1, PlusInt
  <2>7. rest + Plus(got, C) = T /\ rest + Plus(ShMax, C) = T + Plus(ShMax, open)
    <3> HIDE DEF C, open
    <3>1. \A r \in Int, m \in Int, x \in Int, a \in Int, b \in Int :
             r + x = T /\ r + a = T + (b + m) => (r - m) + (x + m) = T /\ (r - m) + a = T + b
      OBVIOUS
    <3>2. s.rest \in Int /\ ShMax[u] \in Int
      BY <1>0
    <3>3. s.rest + Plus(s.got, C) = T /\ s.rest + Plus(ShMax, C) = T + (Plus(ShMax, open) + ShMax[u])
      BY <1>2, <2>5
    <3> QED BY <2>4, <2>6, <3>1, <3>2, <3>3
  <2> HIDE DEF rest, open, C
  <2> QED BY <1>1, <2>1, <2>3, <2>7 DEF Raw, C, open
<1>4. CASE ~(s.rest * w[u] >= ShMax[u] * cap)
  <2>1. Filled(s, u, w, cap) = s
    BY <1>4 DEF Filled
  <2> QED BY <1>1, <2>1
<1> QED BY <1>3, <1>4

\* So the sifting loses nothing.
LEMMA SiftedRaw ==
    ASSUME NEW chosen \in Lists, NEW s \in Sharing(chosen), NEW w, Weights(w), NEW T \in Int, Raw(s, ToSet(chosen), T)
    PROVE  Raw(Sifted(s, w, chosen), ToSet(chosen), T) /\ Sifted(s, w, chosen).open \subseteq s.open
<1> DEFINE N == Len(chosen)  cap == Plus(w, s.open)  C == ToSet(chosen)
<1>0. chosen \in Seq(Packs) /\ N \in Nat /\ \A i, j \in 1 .. N : chosen[i] = chosen[j] => i = j
  BY ListIs
<1>1. cap \in Nat /\ \A u \in s.open : w[u] <= cap
  BY <1>0, WeighsIn
<1>2. PICK g \in [0 .. N -> Sharing(chosen)] : SiftRun(g, s, w, chosen) /\ Sifted(s, w, chosen) = g[N]
  BY <1>0, SiftedRun
<1>3. g[0] = s /\ \A k \in 1 .. N : g[k] = IF chosen[k] \in s.open THEN Filled(g[k - 1], chosen[k], w, cap) ELSE g[k - 1]
  BY <1>2 DEF SiftRun
<1> HIDE DEF cap, C
<1> DEFINE D == {i \in 0 .. N : /\ Raw(g[i], C, T) /\ g[i].open \subseteq s.open
                                /\ \A j \in i + 1 .. N : chosen[j] \in s.open => chosen[j] \in g[i].open}
<1>4. \A i \in 0 .. N : i \in D
  <2>1. 0 \in D
    <3>1. 0 \in 0 .. N /\ Raw(s, C, T)
      BY <1>0 DEF C
    <3> QED BY <1>3, <3>1
  <2>2. ASSUME NEW i \in 0 .. N - 1, i \in D PROVE i + 1 \in D
    <3>1. i + 1 \in 0 .. N /\ i + 1 \in 1 .. N /\ (i + 1) - 1 = i /\ i \in 0 .. N /\ i + 1 \in i + 1 .. N
          /\ \A j \in (i + 1) + 1 .. N : j \in i + 1 .. N /\ j # i + 1 /\ j \in 1 .. N
      BY <1>0
    <3>2. /\ Raw(g[i], C, T) /\ g[i].open \subseteq s.open /\ g[i] \in Sharing(chosen)
          /\ \A j \in i + 1 .. N : chosen[j] \in s.open => chosen[j] \in g[i].open
      BY <2>2, <3>1
    <3>3. g[i + 1] = IF chosen[i + 1] \in s.open THEN Filled(g[i], chosen[i + 1], w, cap) ELSE g[i]
      <4> HIDE DEF N
      <4> QED BY <1>3, <3>1
    <3>4. CASE chosen[i + 1] \in s.open
      <4>1. chosen[i + 1] \in g[i].open /\ w[chosen[i + 1]] <= cap /\ cap \in Nat
        BY <1>1, <3>1, <3>2, <3>4
      <4>2. /\ Raw(g[i + 1], C, T) /\ g[i].open \ {chosen[i + 1]} \subseteq g[i + 1].open
            /\ g[i + 1].open \subseteq g[i].open
        BY <3>2, <3>3, <3>4, <4>1, FilledRaw DEF C
      <4>3. \A j \in (i + 1) + 1 .. N : chosen[j] \in s.open => chosen[j] \in g[i + 1].open
        <5> SUFFICES ASSUME NEW j \in (i + 1) + 1 .. N, chosen[j] \in s.open PROVE chosen[j] \in g[i + 1].open
          OBVIOUS
        <5>1. chosen[j] # chosen[i + 1]
          BY <1>0, <3>1
        <5>2. chosen[j] \in g[i].open
          BY <3>1, <3>2
        <5> QED BY <4>2, <5>1, <5>2
      <4> QED BY <3>1, <3>2, <4>2, <4>3
    <3>5. CASE chosen[i + 1] \notin s.open
      BY <3>1, <3>2, <3>3, <3>5
    <3> QED BY <3>4, <3>5
  <2> HIDE DEF D, N
  <2> QED BY <1>0, <2>1, <2>2, Climbs
<1>5. N \in D
  <2>1. N \in 0 .. N
    BY <1>0
  <2> HIDE DEF D, N
  <2> QED BY <1>4, <2>1
<1> QED BY <1>2, <1>5 DEF C

(* The rounded shares of the open batteries: together they miss the rest by half a step each at most. *)
Rounded(s, w) == [u \in Packs |-> IF u \in s.open THEN HalfEven(s.rest * w[u], Plus(w, s.open)) ELSE 0]

\* Rounding every share to the nearest costs half a watt per battery at most.
LEMMA RoundedClose ==
    ASSUME NEW chosen \in Seq(Packs), NEW s \in Sharing(chosen), NEW w, Weights(w), s.open # {}
    PROVE  Rounded(s, w) \in [Packs -> Nat] /\ 2 * s.rest <= 2 * Plus(Rounded(s, w), s.open) + Len(ShPhase)
<1> DEFINE cap == Plus(w, s.open)  N == Len(ShPhase)  r == Rounded(s, w)  S == s.open  rest == s.rest
           more == [u \in Packs |-> 2 * r[u] + 1]
<1>0. rest \in Nat /\ S \subseteq Packs /\ \A u \in Packs : w[u] \in Nat \ {0}
  BY DEF Sharing, Weights
<1>1. PICK u0 \in Packs : u0 \in S
  BY <1>0
<1>2. cap \in Nat \ {0}
  <2>1. cap \in Nat /\ w[u0] <= cap
    BY <1>1, WeighsIn
  <2> HIDE DEF cap
  <2> QED BY <1>0, <2>1
<1>3. ASSUME NEW u \in Packs PROVE r[u] \in Nat /\ (u \in S => 2 * rest * w[u] <= cap * more[u])
  <2>1. CASE u \in S
    <3>1. r[u] = HalfEven(rest * w[u], cap)
      BY <2>1 DEF Rounded
    <3> DEFINE n == rest * w[u]
    <3>2. n \in Nat
      BY <1>0
    <3> HIDE DEF cap, n, r, rest
    <3>3. HalfEven(n, cap) \in Nat /\ 2 * n <= cap * (2 * HalfEven(n, cap) + 1)
      BY <1>2, <3>2, HalfEvenClose
    <3>4. r[u] \in Nat /\ 2 * n <= cap * more[u]
      BY <3>1, <3>3 DEF n
    <3>5. 2 * n = 2 * rest * w[u]
      BY <1>0 DEF n
    <3> QED BY <3>4, <3>5
  <2>2. CASE u \notin S
    BY <2>2 DEF Rounded
  <2> QED BY <2>1, <2>2
<1>4. r \in [Packs -> Nat]
  <2>1. r = [u \in Packs |-> r[u]]
    BY DEF Rounded
  <2> HIDE DEF r
  <2> QED BY <1>3, <2>1
<1> HIDE DEF cap, r, rest, S
<1>5. more \in [Packs -> Nat]
  BY <1>4
<1>6. Summed(w) /\ Summed(more) /\ Summed(r)
  BY <1>0, <1>4, <1>5 DEF Summed
<1>7. 2 * rest <= Plus(more, S)
  <2> DEFINE a == 2 * rest
  <2>1. a \in Nat
    BY <1>0
  <2>2. \A u \in Packs : u \in S => a * w[u] <= cap * more[u]
    BY <1>3
  <2> HIDE DEF a, more
  <2>3. a * Plus(w, S) <= cap * Plus(more, S)
    BY <1>2, <1>6, <2>1, <2>2, PlusScaled
  <2>4. Plus(w, S) = cap /\ Plus(more, S) \in Int
    BY <1>6, PlusInt DEF cap, S
  <2>5. cap * a <= cap * Plus(more, S)
    BY <1>2, <2>1, <2>3, <2>4
  <2>6. a <= Plus(more, S)
    <3> DEFINE p == Plus(more, S)
    <3> HIDE DEF p
    <3>1. p \in Int /\ cap * a <= cap * p
      BY <2>4, <2>5 DEF p
    <3>2. a <= p
      <4> SUFFICES ASSUME ~(a <= p) PROVE FALSE
        OBVIOUS
      <4>1. p + 1 <= a
        BY <2>1, <3>1
      <4>2. cap * (p + 1) <= cap * a
        BY <1>2, <2>1, <3>1, <4>1
      <4>3. cap * (p + 1) = cap * p + cap
        BY <1>2, <3>1
      <4>4. cap * p \in Int /\ cap * a \in Int
        BY <1>2, <2>1, <3>1
      <4> QED BY <1>2, <3>1, <4>2, <4>3, <4>4
    <3> QED BY <3>2 DEF p
  <2> QED BY <2>6 DEF a
<1>8. Plus(more, S) <= 2 * Plus(r, S) + N
  <2> DEFINE T == {t \in Int \X Int \X Int : t[2] <= 2 * t[3] + t[1]}
  <2>1. \A n \in Packs : /\ Part(more, S, n) \in Int /\ Part(r, S, n) \in Int /\ n \in Int /\ n - 1 \in Int
                         /\ Part(more, S, n) <= 2 * Part(r, S, n) + 1
    <3> SUFFICES ASSUME NEW n \in Packs
                 PROVE  /\ Part(more, S, n) \in Int /\ Part(r, S, n) \in Int /\ n \in Int /\ n - 1 \in Int
                        /\ Part(more, S, n) <= 2 * Part(r, S, n) + 1
      OBVIOUS
    <3>1. n \in Int /\ n - 1 \in Int
      BY NumberFacts
    <3>2. r[n] \in Nat /\ more[n] = 2 * r[n] + 1
      BY <1>4
    <3>3. CASE n \in S
      <4>1. Part(more, S, n) = more[n] /\ Part(r, S, n) = r[n]
        BY <3>3 DEF Part
      <4> HIDE DEF more
      <4> QED BY <3>1, <3>2, <4>1
    <3>4. CASE n \notin S
      <4>1. Part(more, S, n) = 0 /\ Part(r, S, n) = 0
        BY <3>4 DEF Part
      <4> HIDE DEF more
      <4> QED BY <3>1, <4>1
    <3> QED BY <3>3, <3>4
  <2>2. <<0, 0, 0>> \in T
    OBVIOUS
  <2>3. ASSUME NEW n \in Packs, NEW x \in Int, NEW y \in Int, <<n - 1, x, y>> \in T
        PROVE  <<n, x + Part(more, S, n), y + Part(r, S, n)>> \in T
    <3> DEFINE p == Part(more, S, n)  q == Part(r, S, n)
    <3>1. p \in Int /\ q \in Int /\ n \in Int /\ p <= 2 * q + 1
      BY <2>1
    <3>2. x <= 2 * y + (n - 1)
      BY <2>3
    <3> HIDE DEF p, q
    <3>3. x + p <= 2 * (y + q) + n /\ x + p \in Int /\ y + q \in Int
      BY <3>1, <3>2
    <3>4. <<n, x + p, y + q>> \in Int \X Int \X Int
      BY <3>1, <3>3
    <3>5. <<n, x + p, y + q>> \in T
      BY <3>3, <3>4
    <3> QED BY <3>5 DEF p, q
  <2>4. <<N, Plus(more, S), Plus(r, S)>> \in T
    <3> HIDE DEF T, more
    <3> QED BY <1>6, <2>2, <2>3, PlusTogether
  <2> QED BY <2>4
<1>9. Plus(more, S) \in Int /\ Plus(r, S) \in Int /\ N \in Nat
  <2> HIDE DEF more
  <2> QED BY <1>6, PlusInt, NumberFacts
<1>10. 2 * rest <= 2 * Plus(r, S) + N
  <2> HIDE DEF more
  <2> QED BY <1>0, <1>7, <1>8, <1>9
<1> QED BY <1>4, <1>10 DEF r, rest, S

(* When no share reaches its limit the rest is less than the open limits. *)
LEMMA RestIsLess ==
    ASSUME NEW chosen \in Seq(Packs), NEW s \in Sharing(chosen), NEW w, Weights(w), s.open # {},
           \A u \in s.open : s.rest * w[u] < ShMax[u] * Plus(w, s.open)
    PROVE  s.rest < Plus(ShMax, s.open)
<1> DEFINE cap == Plus(w, s.open)  S == s.open  rest == s.rest
           f == [u \in Packs |-> rest * w[u]]
           h == [u \in Packs |-> cap * ShMax[u]]
<1>0. rest \in Nat /\ S \subseteq Packs /\ \A u \in Packs : w[u] \in Nat \ {0} /\ ShMax[u] \in Nat
  BY NumberFacts DEF Sharing, Weights
<1>1. PICK u0 \in Packs : u0 \in S
  BY <1>0
<1>2. cap \in Nat
  BY WeighsIn
<1>3. \A u \in S : rest * w[u] < ShMax[u] * cap
  OBVIOUS
<1> HIDE DEF cap, S, rest
<1>4. f \in [Packs -> Int] /\ h \in [Packs -> Int]
  BY <1>0, <1>2
<1>5. \A u \in Packs : f[u] = rest * w[u] /\ h[u] = cap * ShMax[u]
  OBVIOUS
<1> HIDE DEF f, h
<1>6. \A u \in S : f[u] < h[u]
  <2> SUFFICES ASSUME NEW u \in S PROVE f[u] < h[u]
    OBVIOUS
  <2>1. ShMax[u] * cap = cap * ShMax[u]
    BY <1>0, <1>2
  <2> QED BY <1>0, <1>3, <1>5, <2>1
<1>7. Summed(f) /\ Summed(h) /\ Summed(w) /\ Summed(ShMax)
  BY <1>0, <1>4 DEF Summed
<1>8. Plus(f, S) < Plus(h, S)
  <2>1. ASSUME NEW v \in Packs PROVE Part(f, S, v) <= Part(h, S, v)
    <3>1. f[v] \in Int /\ h[v] \in Int
      BY <1>4
    <3> QED BY <1>6, <3>1 DEF Part
  <2>2. Part(f, S, u0) < Part(h, S, u0)
    BY <1>1, <1>6 DEF Part
  <2> QED BY <1>1, <1>4, <1>7, <2>1, <2>2, PlusStrict
<1>9. Plus(f, S) = rest * Plus(w, S) /\ Plus(h, S) = cap * Plus(ShMax, S)
  BY <1>0, <1>2, <1>5, <1>7, PlusTimes
<1> DEFINE m == Plus(ShMax, S)
<1>10. Plus(w, S) = cap /\ m \in Nat
  BY <1>0, PlusNat DEF cap, S
<1>11. rest * cap < cap * m
  BY <1>8, <1>9, <1>10
<1> HIDE DEF m
<1>12. rest < m
  <2> SUFFICES ASSUME m <= rest PROVE FALSE
    BY <1>0, <1>10
  <2>1. m * cap <= rest * cap
    BY <1>0, <1>2, <1>10
  <2>2. m * cap = cap * m /\ m * cap \in Nat /\ rest * cap \in Nat
    BY <1>0, <1>2, <1>10
  <2> QED BY <1>11, <2>1, <2>2
<1> QED BY <1>12 DEF m, rest, S

(* A division that ended by rounding: short of the limits, and off by half a step for each battery. *)
Near(s, C, T) == s.rest = 0 /\ T < Plus(ShMax, C) /\ 2 * T <= 2 * Plus(s.got, C) + Len(ShPhase)

\* A round loses nothing, and closes somebody, or it is the last.
LEMMA RoundRaw ==
    ASSUME NEW chosen \in Lists, NEW s \in Sharing(chosen), NEW w, Weights(w), NEW T \in Int, Raw(s, ToSet(chosen), T)
    PROVE  \/ Round(s, w, chosen) = s /\ (s.rest = 0 \/ s.open = {})
           \/ /\ Raw(Round(s, w, chosen), ToSet(chosen), T)
              /\ Round(s, w, chosen).open \subseteq s.open /\ Round(s, w, chosen).open # s.open
           \/ Near(Round(s, w, chosen), ToSet(chosen), T)
<1> DEFINE C == ToSet(chosen)
<1>0. chosen \in Seq(Packs)
  BY ListIs
<1>1. CASE s.rest = 0 \/ s.open = {}
  BY <1>1 DEF Round
<1>2. CASE ~(s.rest = 0 \/ s.open = {}) /\ Sifted(s, w, chosen).open # s.open
  <2>1. Round(s, w, chosen) = Sifted(s, w, chosen)
    BY <1>2 DEF Round
  <2> QED BY <1>2, <2>1, SiftedRaw
<1>3. CASE ~(s.rest = 0 \/ s.open = {}) /\ Sifted(s, w, chosen).open = s.open
  <2> DEFINE r == Rounded(s, w)  S == s.open  old == s.got  rest == s.rest
             got == [u \in Packs |-> IF u \in s.open THEN HalfEven(s.rest * w[u], Plus(w, s.open)) ELSE s.got[u]]
  <2>1. Round(s, w, chosen) = [rest |-> 0, open |-> s.open, got |-> got]
    BY <1>3 DEF Round
  <2>2. \A u \in s.open : s.rest * w[u] < ShMax[u] * Plus(w, s.open)
    BY <1>0, <1>3, SiftedFits
  <2>3. r \in [Packs -> Nat] /\ 2 * rest <= 2 * Plus(r, S) + Len(ShPhase)
    BY <1>0, <1>3, RoundedClose
  <2>4. rest < Plus(ShMax, S)
    BY <1>0, <1>3, <2>2, RestIsLess
  <2>5. rest \in Nat /\ S \subseteq C /\ old \in [Packs -> Nat] /\ (\A u \in S : old[u] = 0)
        /\ rest + Plus(old, C) = T /\ rest + Plus(ShMax, C) = T + Plus(ShMax, S)
    BY DEF Sharing, Raw
  <2>6. \A u \in Packs : (u \in S => got[u] = r[u]) /\ (u \notin S => got[u] = old[u] /\ r[u] = 0)
    BY DEF Rounded
  <2>7. \A u \in Packs : got[u] \in Int
    <3> HIDE DEF got, r, S, old
    <3> QED BY <2>3, <2>5, <2>6
  <2> HIDE DEF r, S, old, rest, got, C
  <2>8. Plus(got, C) = Plus(old, C) + Plus(r, S)
    <3>1. Summed(got) /\ Summed(old) /\ Summed(r)
      BY <2>3, <2>5, <2>7 DEF Summed
    <3>2. ASSUME NEW u \in Packs PROVE Part(got, C, u) = Part(old, C, u) + Part(r, S, u)
      <4>0. got[u] \in Int /\ old[u] \in Int /\ r[u] \in Int
        BY <2>3, <2>5, <2>7
      <4>1. CASE u \in S
        <5>1. Part(got, C, u) = got[u] /\ Part(old, C, u) = old[u] /\ Part(r, S, u) = r[u]
          BY <2>5, <4>1 DEF Part
        <5>2. got[u] = r[u] /\ old[u] = 0
          BY <2>5, <2>6, <4>1
        <5> QED BY <4>0, <5>1, <5>2
      <4>2. CASE u \notin S
        <5>1. Part(r, S, u) = 0 /\ Part(got, C, u) = Part(old, C, u)
          BY <2>6, <4>2 DEF Part
        <5>2. Part(old, C, u) \in Int
          BY <4>0 DEF Part
        <5> QED BY <5>1, <5>2
      <4> QED BY <4>1, <4>2
    <3> QED BY <3>1, <3>2, PlusSplit
  <2>9. Plus(old, C) \in Int /\ Plus(r, S) \in Int /\ Plus(ShMax, C) \in Int /\ Plus(ShMax, S) \in Int /\ Len(ShPhase) \in Int
    <3>1. Summed(old) /\ Summed(r)
      BY <2>3, <2>5 DEF Summed
    <3>2. Plus(ShMax, C) \in Nat /\ Plus(ShMax, S) \in Nat
      BY MaxSums
    <3> QED BY <3>1, <3>2, PlusInt, NumberFacts
  <2>10. T < Plus(ShMax, C) /\ 2 * T <= 2 * Plus(got, C) + Len(ShPhase)
    BY SMTT(30), <2>3, <2>4, <2>5, <2>8, <2>9
  <2>11. Near(Round(s, w, chosen), C, T)
    BY <2>1, <2>10 DEF Near
  <2> QED BY <2>11 DEF C
<1> QED BY <1>1, <1>2, <1>3

\* A list has no more different members than places.
LEMMA Counted ==
    ASSUME NEW chosen \in Lists
    PROVE  /\ IsFiniteSet(ToSet(chosen)) /\ Cardinality(ToSet(chosen)) \in Nat /\ Cardinality(ToSet(chosen)) <= Len(chosen)
           /\ \A S \in SUBSET ToSet(chosen), R \in SUBSET ToSet(chosen) :
                 /\ Cardinality(S) \in Nat /\ (Cardinality(S) = 0 => S = {})
                 /\ (R \subseteq S /\ R # S => Cardinality(R) < Cardinality(S))
<1> DEFINE N == Len(chosen)  C == ToSet(chosen)
<1>0. N \in Nat /\ chosen \in Seq(Packs) /\ DOMAIN chosen = 1 .. N
  BY ListIs
<1>1. chosen \in [1 .. N -> C] /\ \A c \in C : \E i \in 1 .. N : chosen[i] = c
  <2>1. \A i \in 1 .. N : chosen[i] \in C
    BY ListIs
  <2>2. C = {chosen[i] : i \in 1 .. N}
    BY <1>0 DEF ToSet
  <2>3. chosen = [i \in 1 .. N |-> chosen[i]]
    BY <1>0, LenProperties
  <2> HIDE DEF C, N
  <2> QED BY <2>1, <2>2, <2>3
<1>2. chosen \in Surjection(1 .. N, C)
  BY <1>1 DEF Surjection
<1>3. IsFiniteSet(1 .. N) /\ Cardinality(1 .. N) = N
  <2>1. 1 \in Int /\ N \in Int
    BY <1>0
  <2>2. IsFiniteSet(1 .. N) /\ Cardinality(1 .. N) = IF 1 > N THEN 0 ELSE N - 1 + 1
    <3> HIDE DEF N
    <3> QED BY <2>1, FS_Interval
  <2> QED BY <1>0, <2>2
<1> HIDE DEF N, C
<1>4. IsFiniteSet(C) /\ Cardinality(C) <= N
  BY <1>2, <1>3, FS_Surjection
<1>5. Cardinality(C) \in Nat
  BY <1>4, FS_CardinalityType
<1>6. ASSUME NEW S \in SUBSET C PROVE IsFiniteSet(S) /\ Cardinality(S) \in Nat /\ (Cardinality(S) = 0 => S = {})
  <2>1. IsFiniteSet(S)
    BY <1>4, FS_Subset
  <2> QED BY <2>1, FS_CardinalityType, FS_EmptySet
<1>7. ASSUME NEW S \in SUBSET C, NEW R \in SUBSET C, R \subseteq S, R # S PROVE Cardinality(R) < Cardinality(S)
  <2>1. Cardinality(R) <= Cardinality(S) /\ (Cardinality(S) = Cardinality(R) => S = R)
    BY <1>6, <1>7, FS_Subset
  <2> QED BY <1>6, <1>7, <2>1
<1> QED BY <1>4, <1>5, <1>6, <1>7 DEF N, C

(* The request as far as the chosen batteries can take it. *)
Wanted(total, chosen) == Min({total, Plus(ShMax, ToSet(chosen))})

(* The shares add up to it, or, when no limit was reached by it, miss it by the rounding only. *)
LEMMA SharesClose ==
    ASSUME NEW chosen \in Lists, NEW total \in Nat, NEW charging
    PROVE  LET given == Plus(Shares(total, chosen, charging), ToSet(chosen))
           IN \/ given = Wanted(total, chosen)
              \/ Wanted(total, chosen) = total /\ 2 * total <= 2 * given + Len(ShPhase)
<1> DEFINE C == ToSet(chosen)  L == Len(chosen)  T == Wanted(total, chosen)  w == IF charging THEN ShWeight ELSE ShMax
           m == Plus(ShMax, ToSet(chosen))
<1>0. chosen \in Seq(Packs) /\ L \in Nat
  BY ListIs
<1>1. PICK g \in [0 .. L -> Sharing(chosen)] :
         ByRounds(g, total, chosen, charging) /\ Shares(total, chosen, charging) = g[L].got
  BY <1>0, SharesRun
<1>2. Weights(w)
  BY NumberFacts DEF Weights
<1>3. m \in Nat /\ T \in Int /\ T <= m /\ T \in {total, m}
  <2>1. m \in Nat
    BY MaxSums
  <2>2. T = Min({total, m})
    BY DEF Wanted
  <2> HIDE DEF T, m
  <2> QED BY <2>1, <2>2, MinTwo
<1>4. /\ g[0].rest = T /\ g[0].open = C /\ g[0].got = [u \in Packs |-> 0]
      /\ \A n \in 1 .. L : g[n] = Round(g[n - 1], w, chosen)
  BY <1>1 DEF ByRounds, Wanted
<1>5. Raw(g[0], C, T)
  <2> DEFINE z == [u \in Packs |-> 0]
  <2>1. Summed(z) /\ \A u \in Packs : Part(z, C, u) = 0
    BY DEF Summed, Part
  <2>2. C \subseteq Packs /\ \A u \in Packs : z[u] = 0
    BY ListIs
  <2> HIDE DEF z, C, T
  <2>3. Plus(z, C) = 0
    BY <2>1, PlusNothing
  <2>4. g[0].got = z /\ g[0].rest = T /\ g[0].open = C
    BY <1>4 DEF z
  <2>5. T + Plus(z, C) = T
    BY <1>3, <2>3
  <2> QED BY <2>2, <2>4, <2>5 DEF Raw
<1>6. /\ Cardinality(C) <= L
      /\ \A S \in SUBSET C, R \in SUBSET C :
            /\ Cardinality(S) \in Nat /\ (Cardinality(S) = 0 => S = {})
            /\ (R \subseteq S /\ R # S => Cardinality(R) < Cardinality(S))
  BY Counted
<1> DEFINE Going(n) == Raw(g[n], C, T) /\ (g[n].rest = 0 \/ g[n].open = {} \/ Cardinality(g[n].open) + n <= L)
           D == {n \in 0 .. L : Near(g[n], C, T) \/ Going(n)}
<1>7. \A n \in 0 .. L : g[n].open \in SUBSET C /\ g[n] \in Sharing(chosen)
  BY DEF Sharing
<1> HIDE DEF C, L, T, w, m
<1>8. \A n \in 0 .. L : n \in D
  <2>1. 0 \in D
    <3>1. 0 \in 0 .. L
      BY <1>0
    <3>2. g[0].open = C /\ Cardinality(C) \in Nat
      BY <1>4, <1>6
    <3>3. Cardinality(g[0].open) + 0 <= L
      BY <1>0, <1>6, <3>2
    <3> QED BY <1>5, <3>1, <3>3
  <2>2. ASSUME NEW n \in 0 .. L - 1, n \in D PROVE n + 1 \in D
    <3>1. n + 1 \in 0 .. L /\ n + 1 \in 1 .. L /\ (n + 1) - 1 = n /\ n \in 0 .. L /\ n \in Int
      BY <1>0
    <3>2. g[n + 1] = Round(g[n], w, chosen)
      BY <1>4, <3>1
    <3>3. g[n] \in Sharing(chosen) /\ g[n].open \in SUBSET C /\ g[n + 1].open \in SUBSET C
      BY <1>7, <3>1
    <3>4. CASE Near(g[n], C, T)
      <4>1. g[n + 1] = g[n]
        BY <3>2, <3>4 DEF Round, Near
      <4> QED BY <3>1, <3>4, <4>1
    <3>5. CASE Going(n)
      <4>1. \/ g[n + 1] = g[n] /\ (g[n].rest = 0 \/ g[n].open = {})
            \/ Raw(g[n + 1], C, T) /\ g[n + 1].open \subseteq g[n].open /\ g[n + 1].open # g[n].open
            \/ Near(g[n + 1], C, T)
        BY <1>2, <1>3, <3>2, <3>3, <3>5, RoundRaw DEF C
      <4>2. CASE g[n + 1] = g[n] /\ (g[n].rest = 0 \/ g[n].open = {})
        BY <3>1, <3>5, <4>2
      <4>3. CASE /\ Raw(g[n + 1], C, T) /\ g[n + 1].open \subseteq g[n].open /\ g[n + 1].open # g[n].open
                 /\ ~(g[n].rest = 0 \/ g[n].open = {})
        <5>1. Cardinality(g[n].open) + n <= L
          BY <3>5, <4>3
        <5>2. Cardinality(g[n + 1].open) < Cardinality(g[n].open) /\ Cardinality(g[n + 1].open) \in Nat /\ Cardinality(g[n].open) \in Nat
          BY <1>6, <3>3, <4>3
        <5>3. Cardinality(g[n + 1].open) + (n + 1) <= L
          BY <1>0, <3>1, <5>1, <5>2
        <5> QED BY <3>1, <4>3, <5>3
      <4>4. CASE Near(g[n + 1], C, T)
        BY <3>1, <4>4
      <4>5. CASE Raw(g[n + 1], C, T) /\ g[n + 1].open # g[n].open /\ (g[n].rest = 0 \/ g[n].open = {})
        <5>1. g[n + 1] = g[n]
          BY <3>2, <4>5 DEF Round
        <5> QED BY <4>5, <5>1
      <4> QED BY <4>1, <4>2, <4>3, <4>4, <4>5
    <3> QED BY <2>2, <3>4, <3>5
  <2> HIDE DEF D
  <2> QED BY <1>0, <2>1, <2>2, Climbs
<1> DEFINE e == g[L]  given == Plus(e.got, C)
<1>9. (Near(e, C, T) \/ Going(L)) /\ e \in Sharing(chosen) /\ e.open \in SUBSET C
  <2>1. L \in 0 .. L
    BY <1>0
  <2>2. L \in D
    BY <1>8, <2>1
  <2> QED BY <1>7, <2>1, <2>2
<1>10. given \in Int /\ Plus(ShMax, C) = m
  <2>1. e.got \in [Packs -> Nat]
    BY <1>9 DEF Sharing
  <2> HIDE DEF e
  <2>2. Summed(e.got)
    BY <2>1 DEF Summed
  <2> QED BY <2>2, PlusInt DEF m, C
<1>11. given = T \/ (T = total /\ 2 * total <= 2 * given + Len(ShPhase))
  <2>1. CASE Near(e, C, T)
    <3>1. T < m /\ 2 * T <= 2 * given + Len(ShPhase)
      BY <1>10, <2>1 DEF Near
    <3> QED BY <1>3, <3>1
  <2>2. CASE Going(L)
    <3>0. e.rest \in Nat
      BY <1>9 DEF Sharing
    <3>1. e.rest + given = T /\ e.rest + m = T + Plus(ShMax, e.open)
      BY <1>10, <2>2 DEF Raw
    <3>2. e.rest = 0 \/ e.open = {}
      <4>1. Cardinality(e.open) \in Nat /\ (Cardinality(e.open) = 0 => e.open = {})
        BY <1>6, <1>9
      <4>2. Cardinality(e.open) + L <= L => Cardinality(e.open) = 0
        BY <1>0, <4>1
      <4> QED BY <2>2, <4>1, <4>2
    <3>3. e.open = {} => e.rest = 0
      <4> SUFFICES ASSUME e.open = {} PROVE e.rest = 0
        OBVIOUS
      <4>1. Summed(ShMax) /\ \A u \in Packs : Part(ShMax, {}, u) = 0
        BY NumberFacts DEF Summed, Part
      <4>2. Plus(ShMax, {}) = 0
        BY <4>1, PlusNothing
      <4>3. e.rest + m = T + 0
        BY <3>1, <4>2
      <4> HIDE DEF e
      <4> QED BY <1>3, <3>0, <4>3
    <3>4. given = T
      <4> HIDE DEF e, given
      <4> QED BY <1>10, <3>0, <3>1, <3>2, <3>3
    <3> QED BY <3>4
  <2> QED BY <1>9, <2>1, <2>2
<1> QED BY <1>1, <1>11 DEF L, T, C

(* The room of a battery as its own and its phase's part. *)
LEMMA RoomIs ==
    ASSUME Readings, NEW charging, NEW got \in [Packs -> Nat], NEW u \in Packs
    PROVE  LET x == ShMax[u] - got[u]
               y == Budget(ShPhase[u], charging) - Plus(got, OnPhase(ShPhase[u]))
           IN /\ x \in Int /\ Room(got, u, charging) \in Int
              /\ ShPhase[u] = 0 => Room(got, u, charging) = x
              /\ ShPhase[u] # 0 /\ ShPhase[u] \in shDark => Room(got, u, charging) = 0
              /\ ShPhase[u] # 0 /\ ShPhase[u] \notin shDark
                    => y \in Int /\ Room(got, u, charging) \in {x, y} /\ Room(got, u, charging) <= x /\ Room(got, u, charging) <= y
<1> DEFINE x == ShMax[u] - got[u]
           y == Budget(ShPhase[u], charging) - Plus(got, OnPhase(ShPhase[u]))
           room == Room(got, u, charging)
<1>1. ShPhase[u] \in {0} \cup Phases /\ ShMax[u] \in Nat /\ got[u] \in Nat
  BY NumberFacts
<1>2. x \in Int
  BY <1>1
<1>3. ShPhase[u] # 0 => y \in Int
  <2> SUFFICES ASSUME ShPhase[u] # 0 PROVE y \in Int
    OBVIOUS
  <2>1. ShPhase[u] \in Phases
    BY <1>1
  <2>2. Budget(ShPhase[u], charging) \in Nat
    BY <2>1, BudgetBounds
  <2>3. Plus(got, OnPhase(ShPhase[u])) \in Nat
    BY PlusNat
  <2> QED BY <2>2, <2>3
<1>4. room = IF ShPhase[u] = 0 THEN x ELSE IF ShPhase[u] \in shDark THEN 0 ELSE Min({x, y})
  BY DEF Room
<1> HIDE DEF x, y, room
<1>5. ShPhase[u] # 0 => Min({x, y}) \in {x, y} /\ Min({x, y}) <= x /\ Min({x, y}) <= y
  BY <1>2, <1>3, MinTwo
<1>6. room \in Int
  BY <1>2, <1>3, <1>4, <1>5
<1> QED BY <1>2, <1>3, <1>4, <1>5, <1>6 DEF x, y, room

(* Room only goes as commands grow. *)
LEMMA RoomShrinks ==
    ASSUME Readings, NEW charging, NEW got \in [Packs -> Nat], NEW more \in [Packs -> Nat],
           \A v \in Packs : got[v] <= more[v], NEW u \in Packs
    PROVE  Room(more, u, charging) <= Room(got, u, charging)
<1> DEFINE p == ShPhase[u]  b == Budget(p, charging)
           a == Plus(got, OnPhase(p))  c == Plus(more, OnPhase(p))
<1>1. a \in Nat /\ c \in Nat /\ a <= c
  <2>1. Summed(got) /\ Summed(more)
    BY DEF Summed
  <2>2. \A v \in Packs : Part(got, OnPhase(p), v) <= Part(more, OnPhase(p), v)
    BY DEF Part
  <2> HIDE DEF p
  <2> QED BY <2>1, <2>2, PlusNat, PlusCompare
<1>2. got[u] \in Nat /\ more[u] \in Nat /\ ShMax[u] \in Nat /\ got[u] <= more[u]
  BY NumberFacts
<1> DEFINE r == Room(got, u, charging)  q == Room(more, u, charging)  x == ShMax[u] - got[u]  z == ShMax[u] - more[u]
<1>3. /\ r \in Int
      /\ p = 0 => r = x
      /\ p # 0 /\ p \in shDark => r = 0
      /\ p # 0 /\ p \notin shDark => b - a \in Int /\ r \in {x, b - a}
  BY RoomIs
<1>4. /\ q \in Int
      /\ p = 0 => q = z
      /\ p # 0 /\ p \in shDark => q = 0
      /\ p # 0 /\ p \notin shDark => b - c \in Int /\ q <= z /\ q <= b - c
  BY RoomIs
<1>5. p # 0 => b \in Nat
  <2>1. p \in {0} \cup Phases
    BY NumberFacts
  <2>2. p # 0 => p \in Phases
    BY <2>1
  <2> QED BY <2>2, BudgetBounds
<1> HIDE DEF p, b, a, c, r, q
<1> QED BY <1>1, <1>2, <1>3, <1>4, <1>5 DEF r, q

(* A battery that was given its whole room has none left. *)
LEMMA RoomTaken ==
    ASSUME Readings, NEW charging, NEW got \in [Packs -> Nat], NEW more \in [Packs -> Nat], NEW u \in Packs,
           \A v \in Packs \ {u} : more[v] = got[v], more[u] = got[u] + Room(got, u, charging)
    PROVE  Room(more, u, charging) <= 0
<1> DEFINE p == ShPhase[u]  b == Budget(p, charging)
           a == Plus(got, OnPhase(p))  c == Plus(more, OnPhase(p))
           r == Room(got, u, charging)  q == Room(more, u, charging)  x == ShMax[u] - got[u]  z == ShMax[u] - more[u]
<1>1. got[u] \in Nat /\ more[u] \in Nat /\ ShMax[u] \in Nat /\ a \in Nat /\ c \in Nat
  <2>1. got[u] \in Nat /\ more[u] \in Nat /\ ShMax[u] \in Nat
    BY NumberFacts
  <2> QED BY <2>1, PlusNat
<1>2. /\ r \in Int
      /\ p = 0 => r = x
      /\ p # 0 /\ p \in shDark => r = 0
      /\ p # 0 /\ p \notin shDark => b - a \in Int /\ r \in {x, b - a}
  BY RoomIs
<1>3. /\ q \in Int
      /\ p = 0 => q = z
      /\ p # 0 /\ p \in shDark => q = 0
      /\ p # 0 /\ p \notin shDark => b - c \in Int /\ q <= z /\ q <= b - c
  BY RoomIs
<1>4. p # 0 => b \in Nat
  <2>1. p \in {0} \cup Phases
    BY NumberFacts
  <2>2. p # 0 => p \in Phases
    BY <2>1
  <2> QED BY <2>2, BudgetBounds
<1>5. c = a + r
  <2>1. u \in OnPhase(p)
    BY DEF OnPhase
  <2>2. Summed(got) /\ Summed(more)
    BY DEF Summed
  <2> HIDE DEF p, r
  <2>3. \A v \in Packs \ {u} : Part(more, OnPhase(p), v) = Part(got, OnPhase(p), v)
    BY DEF Part
  <2>4. Part(more, OnPhase(p), u) = Part(got, OnPhase(p), u) + r
    BY <2>1 DEF Part, r
  <2> QED BY <1>2, <2>2, <2>3, <2>4, PlusMore
<1>6. more[u] = got[u] + r
  OBVIOUS
<1> HIDE DEF p, b, a, c, r, q
<1>7. q <= 0
  <2>1. CASE p = 0
    BY <1>1, <1>2, <1>3, <1>6, <2>1
  <2>2. CASE p # 0 /\ p \in shDark
    BY <1>3, <2>2
  <2>3. CASE p # 0 /\ p \notin shDark /\ r = x
    BY <1>1, <1>2, <1>3, <1>6, <2>3
  <2>4. CASE p # 0 /\ p \notin shDark /\ r = b - a
    BY <1>1, <1>2, <1>3, <1>4, <1>5, <2>4
  <2> QED BY <1>2, <2>1, <2>2, <2>3, <2>4
<1> QED BY <1>7 DEF q

(* One offer: what is left gets no less than the room allows, and what remains finds the battery without room. *)
LEMMA OfferedLeaves ==
    ASSUME Readings, NEW charging, NEW d \in Handing(charging), NEW u \in Packs, d.rest >= 0
    PROVE  LET e == Offered(d, u, charging)
           IN /\ e.rest >= 0 /\ e.rest \in Int /\ e.got \in [Packs -> Nat]
              /\ e.rest + Plus(e.got, Packs) = d.rest + Plus(d.got, Packs)
              /\ e.rest <= d.rest
              /\ \A v \in Packs : d.got[v] <= e.got[v] /\ (v # u => e.got[v] = d.got[v])
              /\ e.rest > 0 => Room(e.got, u, charging) <= 0
<1> DEFINE room == Room(d.got, u, charging)  rest == d.rest  old == d.got
           more == Max({0, Min({d.rest, room})})
           got == [d.got EXCEPT ![u] = @ + more]
<1>1. rest \in Nat /\ old \in [Packs -> Nat]
  BY DEF Handing
<1>2. room \in Int
  BY <1>1, RoomIs
<1>3. /\ more \in Nat /\ more <= rest
      /\ more < rest => (more = room \/ (more = 0 /\ room <= 0))
  <2> DEFINE m == Min({rest, room})
  <2> HIDE DEF room
  <2>1. m \in {rest, room} /\ m <= rest /\ m <= room
    <3>1. rest \in Int
      BY <1>1
    <3> QED BY <1>2, <3>1, MinTwo DEF m, rest
  <2>2. m \in Int
    BY <1>1, <1>2, <2>1
  <2>3. more = Max({0, m})
    BY DEF rest
  <2> HIDE DEF m, more
  <2>4. Max({0, m}) \in Nat /\ (m <= 0 => Max({0, m}) = 0) /\ (m >= 0 => Max({0, m}) = m)
    BY <2>2, MaxZero
  <2> QED BY <1>1, <1>2, <2>1, <2>2, <2>3, <2>4
<1>4. Offered(d, u, charging) = [got |-> got, rest |-> rest - more]
  BY DEF Offered
<1>5. got \in [Packs -> Nat] /\ got[u] = old[u] + more /\ \A v \in Packs \ {u} : got[v] = old[v]
  <2> HIDE DEF more
  <2> QED BY <1>1, <1>3
<1> HIDE DEF room, rest, old, more, got
<1>6. \A v \in Packs : old[v] <= got[v] /\ old[v] \in Nat /\ got[v] \in Nat
  <2> SUFFICES ASSUME NEW v \in Packs PROVE old[v] <= got[v] /\ old[v] \in Nat /\ got[v] \in Nat
    OBVIOUS
  <2>1. old[v] \in Nat /\ got[v] \in Nat
    BY <1>1, <1>5
  <2>2. CASE v = u
    BY <1>3, <1>5, <2>1, <2>2
  <2>3. CASE v # u
    BY <1>5, <2>1, <2>3
  <2> QED BY <2>2, <2>3, <2>1
<1>7. Plus(got, Packs) = Plus(old, Packs) + more /\ Plus(old, Packs) \in Nat
  <2>1. Summed(got) /\ Summed(old)
    BY <1>6 DEF Summed
  <2>2. (\A v \in Packs \ {u} : Part(got, Packs, v) = Part(old, Packs, v)) /\ Part(got, Packs, u) = Part(old, Packs, u) + more
    BY <1>5 DEF Part
  <2>3. Plus(old, Packs) \in Nat
    BY <1>6, PlusNat
  <2>4. more \in Int
    BY <1>3
  <2> QED BY <2>1, <2>2, <2>3, <2>4, PlusMore
<1>8. ASSUME rest - more > 0 PROVE Room(got, u, charging) <= 0
  <2>1. more < rest
    BY <1>1, <1>3, <1>8
  <2>2. CASE more = room
    <3>1. got[u] = old[u] + Room(old, u, charging)
      BY <1>5, <2>2 DEF room, old
    <3> QED BY <1>1, <1>5, <3>1, RoomTaken
  <2>3. CASE more = 0 /\ room <= 0
    <3>1. Room(got, u, charging) <= Room(old, u, charging)
      BY <1>1, <1>5, <1>6, RoomShrinks
    <3>2. Room(old, u, charging) <= 0 /\ Room(old, u, charging) \in Int
      BY <1>2, <2>3 DEF room, old
    <3>3. Room(got, u, charging) \in Int
      BY <1>5, RoomIs
    <3> QED BY <3>1, <3>2, <3>3
  <2> QED BY <1>3, <2>1, <2>2, <2>3
<1>9. rest - more >= 0 /\ rest - more \in Int /\ rest - more <= rest
      /\ (rest - more) + Plus(got, Packs) = rest + Plus(old, Packs)
  BY <1>1, <1>3, <1>7
<1>10. \A v \in Packs : v # u => got[v] = old[v]
  BY <1>5
<1> QED BY <1>4, <1>5, <1>6, <1>8, <1>9, <1>10 DEF rest, old

(* The allocation hands out no more than was asked for, to candidates only; if it hands out less, no
   candidate has room. *)
LEMMA AllocationFull ==
    ASSUME Readings, NEW charging, NEW need \in [Packs -> Nat], \A u \in Packs : need[u] <= ShMax[u],
           NEW asked \in Lists, NEW others \in Lists
    PROVE  LET got == LimitAllocation(need, asked, others, charging)
           IN /\ Plus(got, Packs) <= Plus(need, ToSet(asked))
              /\ \A u \in Packs \ ToSet(Candidates(asked, others)) : got[u] = 0
              /\ Plus(got, Packs) < Plus(need, ToSet(asked))
                    => \A u \in ToSet(Candidates(asked, others)) : Room(got, u, charging) <= 0
<1> DEFINE cands == Candidates(asked, others)  N == Len(cands)  W == Plus(need, ToSet(asked))
<1>0. asked \in Seq(Packs) /\ others \in Seq(Packs) /\ ToSet(asked) \subseteq ToSet(cands)
      /\ N \in Nat /\ (\A i \in 1 .. N : cands[i] \in Packs /\ cands[i] \in ToSet(cands)) /\ DOMAIN cands = 1 .. N
  <2>1. cands \in Lists /\ ToSet(cands) = ToSet(asked) \cup ToSet(others)
    BY CandidatesLists
  <2> HIDE DEF cands
  <2> QED BY <2>1, ListIs
<1>1. PICK g \in [0 .. N -> Handing(charging)] :
         ByOffers(g, need, asked, others, charging) /\ LimitAllocation(need, asked, others, charging) = g[N].got
  BY <1>0, AllocationRun
<1>2. Asked(g[0], need, asked) /\ \A n \in 1 .. N : g[n] = Offered(g[n - 1], cands[n], charging)
  BY <1>1 DEF ByOffers
<1> HIDE DEF cands, N, W
<1> DEFINE D == {n \in 0 .. N :
                   /\ g[n].rest >= 0 /\ g[n].rest + Plus(g[n].got, Packs) = W
                   /\ \A u \in Packs \ ToSet(cands) : g[n].got[u] = 0
                   /\ g[n].rest > 0 => \A i \in 1 .. n : Room(g[n].got, cands[i], charging) <= 0}
<1>3. \A n \in 0 .. N : g[n] \in Handing(charging) /\ g[n].got \in [Packs -> Nat] /\ g[n].rest \in Int
  BY DEF Handing
<1>4. W \in Nat
  BY PlusNat DEF W
<1>5. \A n \in 0 .. N : n \in D
  <2>1. 0 \in D
    <3>1. 0 \in 0 .. N /\ 1 .. 0 = {}
      BY <1>0
    <3> DEFINE first == g[0].got
    <3>2. first \in [Packs -> Nat] /\ g[0].rest = W - Plus(first, Packs) /\ \A u \in Packs : first[u] <= Part(need, ToSet(asked), u)
      BY <1>2, <1>3, <3>1 DEF Asked, W
    <3> HIDE DEF first
    <3>3. Plus(first, Packs) \in Nat /\ Plus(first, Packs) <= W
      <4>1. Summed(first) /\ Summed(need)
        BY <3>2 DEF Summed
      <4>2. \A u \in Packs : Part(first, Packs, u) <= Part(need, ToSet(asked), u)
        BY <3>2 DEF Part
      <4>3. Plus(first, Packs) <= Plus(need, ToSet(asked))
        BY <4>1, <4>2, PlusCompare
      <4> QED BY <3>2, <4>3, PlusNat DEF W
    <3>4. \A u \in Packs \ ToSet(cands) : first[u] = 0
      <4> SUFFICES ASSUME NEW u \in Packs \ ToSet(cands) PROVE first[u] = 0
        OBVIOUS
      <4>1. first[u] <= 0 /\ first[u] \in Nat
        <5>1. Part(need, ToSet(asked), u) = 0
          BY <1>0 DEF Part
        <5>2. first[u] <= Part(need, ToSet(asked), u) /\ first[u] \in Nat
          BY <3>2
        <5> QED BY <5>1, <5>2
      <4> QED BY <4>1
    <3>5. g[0].rest >= 0 /\ g[0].rest + Plus(first, Packs) = W
      BY <1>4, <3>2, <3>3
    <3> QED BY <3>1, <3>4, <3>5 DEF first
  <2>2. ASSUME NEW n \in 0 .. N - 1, n \in D PROVE n + 1 \in D
    <3>1. n + 1 \in 0 .. N /\ n + 1 \in 1 .. N /\ (n + 1) - 1 = n /\ n \in 0 .. N /\ \A i \in 1 .. n + 1 : i \in 1 .. n \/ i = n + 1
      <4>1. n \in Nat /\ N \in Nat /\ n < N
        BY <1>0
      <4> HIDE DEF N
      <4>2. \A i \in 1 .. n + 1 : i \in 1 .. n \/ i = n + 1
        BY <4>1
      <4> QED BY <4>1, <4>2
    <3> DEFINE u == cands[n + 1]  d == g[n]  e == g[n + 1]
    <3>2. e = Offered(d, u, charging) /\ u \in Packs /\ u \in ToSet(cands)
      BY <1>0, <1>2, <3>1
    <3>3. d \in Handing(charging) /\ d.got \in [Packs -> Nat] /\ d.rest \in Int /\ e.got \in [Packs -> Nat] /\ e.rest \in Int
      BY <1>3, <3>1
    <3>4. /\ d.rest >= 0 /\ d.rest + Plus(d.got, Packs) = W
          /\ \A v \in Packs \ ToSet(cands) : d.got[v] = 0
          /\ d.rest > 0 => \A i \in 1 .. n : Room(d.got, cands[i], charging) <= 0
      BY <2>2
    <3> HIDE DEF u, d, e
    <3>5. /\ e.rest >= 0
          /\ e.rest + Plus(e.got, Packs) = d.rest + Plus(d.got, Packs)
          /\ e.rest <= d.rest
          /\ \A v \in Packs : d.got[v] <= e.got[v] /\ (v # u => e.got[v] = d.got[v])
          /\ e.rest > 0 => Room(e.got, u, charging) <= 0
      BY <3>2, <3>3, <3>4, OfferedLeaves
    <3>6. \A v \in Packs \ ToSet(cands) : e.got[v] = 0
      BY <3>2, <3>4, <3>5
    <3>7. ASSUME e.rest > 0, NEW i \in 1 .. n + 1 PROVE Room(e.got, cands[i], charging) <= 0
      <4>1. CASE i = n + 1
        BY <3>5, <3>7, <4>1 DEF u
      <4>2. CASE i \in 1 .. n
        <5>1. cands[i] \in Packs
          BY <1>0, <3>1, <4>2
        <5>2. d.rest > 0
          BY <3>3, <3>5, <3>7
        <5>3. Room(d.got, cands[i], charging) <= 0
          BY <3>4, <4>2, <5>2
        <5>4. Room(e.got, cands[i], charging) <= Room(d.got, cands[i], charging)
          <6>1. \A v \in Packs : d.got[v] <= e.got[v]
            BY <3>5
          <6> QED BY <3>3, <5>1, <6>1, RoomShrinks
        <5>5. Room(e.got, cands[i], charging) \in Int /\ Room(d.got, cands[i], charging) \in Int
          BY <3>3, <5>1, RoomIs
        <5> QED BY <5>3, <5>4, <5>5
      <4> QED BY <3>1, <4>1, <4>2
    <3>8. e.rest + Plus(e.got, Packs) = W
      BY <3>4, <3>5
    <3> QED BY <3>1, <3>5, <3>6, <3>7, <3>8 DEF e
  <2> HIDE DEF D
  <2> QED BY <1>0, <2>1, <2>2, Climbs
<1> DEFINE got == g[N].got  rest == g[N].rest
<1>6. /\ rest >= 0 /\ rest + Plus(got, Packs) = W /\ rest \in Int /\ got \in [Packs -> Nat]
      /\ \A u \in Packs \ ToSet(cands) : got[u] = 0
      /\ rest > 0 => \A i \in 1 .. N : Room(got, cands[i], charging) <= 0
  <2>1. N \in 0 .. N
    BY <1>0
  <2>2. N \in D
    BY <1>5, <2>1
  <2> QED BY <1>3, <2>1, <2>2
<1> HIDE DEF got, rest
<1>7. Plus(got, Packs) \in Nat
  BY <1>6, PlusNat
<1>8. Plus(got, Packs) <= W /\ (Plus(got, Packs) < W => rest > 0)
  BY <1>4, <1>6, <1>7
<1>9. ASSUME Plus(got, Packs) < W, NEW u \in ToSet(cands) PROVE Room(got, u, charging) <= 0
  <2>1. PICK i \in 1 .. N : cands[i] = u
    BY <1>0 DEF ToSet
  <2> QED BY <1>6, <1>8, <1>9, <2>1
<1> QED BY <1>1, <1>6, <1>8, <1>9 DEF got, cands, W

\* More of the order's batteries have no smaller limits together.
LEMMA FirstGrows ==
    ASSUME NEW o \in Lists, NEW i \in 0 .. Len(o), NEW j \in 0 .. Len(o), i <= j
    PROVE  First(o, i) \in Nat /\ First(o, j) \in Nat /\ First(o, i) <= First(o, j)
<1> DEFINE S == ToSet(SubSeq(o, 1, i))  R == ToSet(SubSeq(o, 1, j))
<1>1. S = {o[x] : x \in 1 .. i} /\ R = {o[x] : x \in 1 .. j}
  BY FirstOf
<1>2. \A x \in 1 .. i : x \in 1 .. j
  BY ListIs
<1>3. S \subseteq R
  BY <1>1, <1>2
<1> HIDE DEF S, R
<1>4. Summed(ShMax) /\ \A u \in Packs : Part(ShMax, S, u) <= Part(ShMax, R, u)
  BY <1>3, NumberFacts DEF Summed, Part
<1>5. Plus(ShMax, S) <= Plus(ShMax, R)
  BY <1>4, PlusCompare
<1> QED BY <1>5, MaxSums DEF First, S, R

(* The choice is empty only without batteries, and a request above its power has all of them. *)
LEMMA SteadyAll ==
    ASSUME NEW power \in Nat, NEW used \in Lists, NEW avail \in SUBSET Packs, NEW t,
           t = Steady(power, Order(used, avail), used)
    PROVE  /\ t \in Lists /\ ToSet(t) \subseteq avail
           /\ avail # {} => ToSet(t) # {}
           /\ power > Plus(ShMax, ToSet(t)) => ToSet(t) = avail
<1> DEFINE o == Order(used, avail)  k == InUse(used, avail)  L == Len(o)
<1>0. o \in Lists /\ ToSet(o) = avail /\ L \in Nat
  <2>1. o \in Lists /\ ToSet(o) = avail
    BY OrderList
  <2> QED BY <2>1, ListIs
<1>1. PICK n, m : Chosen(power, o, k, used, t, n, m)
  BY SteadyIs
<1> DEFINE e == Steadied(power, o, k, used, m)
<1> HIDE DEF o, k, L
<1>2. n \in 0 .. L /\ m \in 0 .. L /\ Shortest(power, o, n) /\ Kept(power, o, k, n, m) /\ t = SubSeq(o, 1, e)
  BY <1>1 DEF Chosen, L
<1>3. /\ n <= m /\ (n = L \/ (n > 0 /\ 100 * power <= ShAct * First(o, n)))
      /\ e = m \/ (e = m - 1 /\ m > 1 /\ 100 * power <= ShJoin * First(o, e))
  BY <1>2 DEF Shortest, Kept, Steadied, L
<1> HIDE DEF e
<1>4. e \in 0 .. L /\ m \in 0 .. L /\ n \in 0 .. L
  BY <1>0, <1>2, <1>3
<1>5. t \in Lists /\ Len(t) = e /\ ToSet(t) = {o[x] : x \in 1 .. e} /\ First(o, e) = Plus(ShMax, ToSet(t))
  BY <1>0, <1>2, <1>4, FirstOf DEF First, L
<1>6. \A x \in 1 .. L : o[x] \in avail
  <2>1. \A x \in 1 .. L : o[x] \in ToSet(o)
    BY <1>0, ListIs DEF L
  <2> QED BY <1>0, <2>1
<1>7. \A x \in 1 .. e : x \in 1 .. L
  BY <1>0, <1>4
<1>8. ToSet(t) \subseteq avail
  BY <1>5, <1>6, <1>7
<1>9. ASSUME avail # {} PROVE ToSet(t) # {}
  <2>1. L # 0
    <3> SUFFICES ASSUME L = 0 PROVE FALSE
      OBVIOUS
    <3>1. DOMAIN o = 1 .. L
      BY <1>0, ListIs DEF L
    <3>2. 1 .. L = {}
      OBVIOUS
    <3>3. ToSet(o) = {}
      BY <3>1, <3>2 DEF ToSet
    <3> QED BY <1>0, <1>9, <3>3
  <2>2. 1 \in 1 .. e
    BY <1>0, <1>3, <1>4, <2>1
  <2> QED BY <1>5, <2>2
<1>10. ASSUME power > Plus(ShMax, ToSet(t)) PROVE ToSet(t) = avail
  <2>1. First(o, e) \in Nat /\ First(o, m) \in Nat /\ First(o, n) \in Nat /\ First(o, n) <= First(o, m)
    BY <1>0, <1>3, <1>4, FirstGrows DEF L
  <2>2. ShAct \in Nat /\ ShJoin \in Nat /\ ShDrop \in Nat /\ ShAct <= ShJoin /\ ShJoin <= 100
    BY ShAssumption
  <2>3. \A a, f \in Nat : a <= 100 => a * f <= 100 * f
    <3> SUFFICES ASSUME NEW a \in Nat, NEW f \in Nat, a <= 100 PROVE a * f <= 100 * f
      OBVIOUS
    <3> QED OBVIOUS
  <2>4. power > First(o, e)
    BY <1>5, <1>10
  <2>5. e = m
    <3> SUFFICES ASSUME e # m PROVE FALSE
      OBVIOUS
    <3>1. 100 * power <= ShJoin * First(o, e)
      BY <1>3
    <3>2. ShJoin * First(o, e) <= 100 * First(o, e) /\ ShJoin * First(o, e) \in Nat
      <4>1. ShJoin \in Nat
        BY <2>2
      <4> QED BY <2>1, <2>2, <2>3, <4>1
    <3> QED BY <2>1, <2>4, <3>1, <3>2
  <2>6. n = L
    <3> SUFFICES ASSUME n # L PROVE FALSE
      OBVIOUS
    <3>1. 100 * power <= ShAct * First(o, n)
      BY <1>3
    <3>2. ShAct * First(o, n) <= 100 * First(o, n) /\ ShAct * First(o, n) \in Nat
      <4>1. ShAct <= 100
        BY <2>2
      <4> QED BY <2>1, <2>2, <2>3, <4>1
    <3>3. First(o, n) <= First(o, e)
      BY <2>1, <2>5
    <3> QED BY <2>1, <2>4, <3>1, <3>2, <3>3
  <2>7. e = L
    BY <1>0, <1>3, <1>4, <2>5, <2>6
  <2>8. t = o
    BY <1>0, <1>2, <2>7, FirstHas DEF L
  <2> QED BY <1>0, <2>8
<1> QED BY <1>5, <1>8, <1>9, <1>10

(* The batteries a cycle chooses for a request, and what it gives them. *)
Picked(power, used, avail, keep) ==
    IF power = 0 THEN <<>>
    ELSE IF power = 0 \/ Cardinality(avail) <= 1 THEN Order(used, avail)
    ELSE Select(power, Order(used, avail), used, keep)
Planned(power, used, avail, keep, charging) ==
    IF Picked(power, used, avail, keep) = <<>> THEN [u \in Packs |-> 0]
    ELSE LimitAllocation(Shares(power, Picked(power, used, avail, keep), charging), Picked(power, used, avail, keep),
                         Order(used, avail), charging)

\* A choice whose limits do not cover the request is everything available.
LEMMA PickedAll ==
    ASSUME NEW power \in Nat, power > 0, NEW used \in Lists, NEW avail \in SUBSET Packs, NEW keep, NEW ch,
           ch = Picked(power, used, avail, keep)
    PROVE  /\ ch \in Lists /\ ToSet(ch) \subseteq avail
           /\ ch = <<>> => avail = {}
           /\ power > Plus(ShMax, ToSet(ch)) => ToSet(ch) = avail
<1> DEFINE o == Order(used, avail)
<1>1. o \in Lists /\ ToSet(o) = avail
  BY OrderList
<1>2. CASE Cardinality(avail) <= 1
  <2>1. ch = o
    BY <1>2 DEF Picked
  <2> QED BY <1>1, <2>1, EmptyList
<1>3. CASE ~(Cardinality(avail) <= 1)
  <2> DEFINE t == Steady(power, o, used)
             S == {u \in ToSet(o) \ ToSet(t) : keep[u] > 0}
             more == Among(used, S)
  <2>1. ch = t \o more
    BY <1>3 DEF Picked, Select
  <2>2. t \in Lists /\ ToSet(t) \subseteq avail /\ (avail # {} => ToSet(t) # {})
        /\ (power > Plus(ShMax, ToSet(t)) => ToSet(t) = avail)
    BY SteadyAll
  <2> HIDE DEF t
  <2>3. more \in Lists /\ ToSet(more) = ToSet(used) \cap S /\ S \subseteq avail
    BY <1>1, AmongLists
  <2>4. ToSet(t) \cap ToSet(more) = {}
    BY <2>3
  <2> HIDE DEF more, S
  <2>5. ch \in Lists /\ ToSet(ch) = ToSet(t) \cup ToSet(more)
    BY <2>1, <2>2, <2>3, <2>4, Joined
  <2>6. ch = <<>> => avail = {}
    BY <2>2, <2>5, EmptyList
  <2>7. ASSUME power > Plus(ShMax, ToSet(ch)) PROVE ToSet(ch) = avail
    <3> DEFINE a == ToSet(t)  b == ToSet(ch)
    <3>1. a \subseteq b
      BY <2>5
    <3> HIDE DEF a, b
    <3>2. Summed(ShMax) /\ \A u \in Packs : Part(ShMax, a, u) <= Part(ShMax, b, u)
      BY <3>1, NumberFacts DEF Summed, Part
    <3>3. Plus(ShMax, a) <= Plus(ShMax, b)
      BY <3>2, PlusCompare
    <3>4. Plus(ShMax, a) \in Nat /\ Plus(ShMax, b) \in Nat
      BY MaxSums
    <3>5. power > Plus(ShMax, ToSet(t))
      BY <2>7, <3>3, <3>4 DEF a, b
    <3> QED BY <2>2, <2>3, <2>5, <3>5
  <2> QED BY <2>2, <2>3, <2>5, <2>6, <2>7
<1> QED BY <1>2, <1>3

(* A plan that falls short by more than the rounding leaves no usable battery with room. *)
LEMMA PlanFull ==
    ASSUME Readings, NEW power \in Nat, NEW used \in Lists, NEW avail \in SUBSET Packs, NEW keep, NEW charging, NEW got,
           got = Planned(power, used, avail, keep, charging), power - Plus(got, Packs) > Len(ShPhase) \div 2
    PROVE  \A u \in avail : Room(got, u, charging) <= 0
<1> DEFINE ch == Picked(power, used, avail, keep)  o == Order(used, avail)
           need == Shares(power, ch, charging)  C == ToSet(ch)  N == Len(ShPhase)
           given == Plus(need, C)  G == Plus(got, Packs)  m == Plus(ShMax, C)
<1>0. N \in Nat /\ N \div 2 \in Nat /\ 2 * (N \div 2) + 1 >= N
  <2>1. N \in Nat
    BY NumberFacts
  <2> HIDE DEF N
  <2> QED BY <2>1
<1>1. CASE power = 0
  <2>1. \A u \in Packs : [v \in Packs |-> 0][u] \in Nat
    OBVIOUS
  <2>2. got = [u \in Packs |-> 0]
    BY <1>1 DEF Planned, Picked
  <2>3. G \in Nat
    BY <2>1, <2>2, PlusNat
  <2> HIDE DEF G, N
  <2>4. power - G > N \div 2
    BY DEF G, N
  <2> QED BY <1>0, <1>1, <2>3, <2>4
<1>2. CASE power > 0 /\ ch = <<>>
  <2>1. avail = {}
    BY <1>2, PickedAll
  <2> QED BY <2>1
<1>3. CASE power > 0 /\ ch # <<>>
  <2>1. ch \in Lists /\ C \subseteq avail /\ (power > m => C = avail)
    BY <1>3, PickedAll
  <2>2. o \in Lists /\ ToSet(o) = avail
    BY OrderList
  <2>3. got = LimitAllocation(need, ch, o, charging)
    BY <1>3 DEF Planned
  <2> HIDE DEF ch, o
  <2>4. need \in [Packs -> Nat] /\ \A u \in Packs : need[u] <= ShMax[u]
    BY <2>1, SharesFit DEF Lists
  <2>5. given = Wanted(power, ch) \/ (Wanted(power, ch) = power /\ 2 * power <= 2 * given + N)
    BY <2>1, SharesClose
  <2>6. m \in Nat /\ Wanted(power, ch) \in {power, m} /\ Wanted(power, ch) <= power
    <3>1. m \in Nat
      BY MaxSums
    <3>2. Wanted(power, ch) = Min({power, m})
      BY DEF Wanted
    <3> HIDE DEF m
    <3>3. Min({power, m}) \in {power, m} /\ Min({power, m}) <= power
      <4>1. power \in Int /\ m \in Int
        BY <3>1
      <4> QED BY <4>1, MinTwo
    <3> QED BY <3>1, <3>2, <3>3
  <2> HIDE DEF need
  <2>7. got \in [Packs -> Nat] /\ \A u \in Packs : got[u] <= ShMax[u]
    <3>1. ch \in Seq(Packs) /\ o \in Seq(Packs)
      BY <2>1, <2>2, ListIs
    <3> DEFINE a == LimitAllocation(need, ch, o, charging)
    <3>2. a \in [Packs -> Nat] /\ (\A u \in Packs : a[u] <= ShMax[u]) /\ \A p \in Phases : Plus(a, OnPhase(p)) <= Allowance(p, charging)
      BY <2>4, <3>1, AllocationFits
    <3> HIDE DEF a
    <3>3. got = a
      BY <2>3 DEF a
    <3> QED BY <3>2, <3>3
  <2>8. /\ G <= given
        /\ \A u \in Packs \ ToSet(Candidates(ch, o)) : got[u] = 0
        /\ G < given => \A u \in ToSet(Candidates(ch, o)) : Room(got, u, charging) <= 0
    BY <2>1, <2>2, <2>3, <2>4, AllocationFull
  <2>9. ToSet(Candidates(ch, o)) = avail
    <3>1. ToSet(Candidates(ch, o)) = ToSet(ch) \cup ToSet(o)
      BY <2>1, <2>2, CandidatesLists
    <3> QED BY <2>1, <2>2, <3>1
  <2>10. given \in Nat /\ G \in Nat
    BY <2>4, <2>7, PlusNat
  <2>11. power - G > N \div 2
    OBVIOUS
  <2> HIDE DEF given, G, N, C, m
  <2>12. CASE G < given
    BY <2>8, <2>9, <2>12
  <2>13. CASE G = given
    <3>1. given = m /\ m < power
      <4>1. ~(2 * power <= 2 * given + N)
        BY <1>0, <2>10, <2>11, <2>13
      <4>2. given # power
        BY <1>0, <2>10, <2>11, <2>13
      <4> QED BY <2>5, <2>6, <4>1, <4>2
    <3>2. C = avail
      BY <2>1, <3>1
    <3>3. ASSUME NEW u \in avail, got[u] # ShMax[u] PROVE FALSE
      <4>1. \A v \in Packs : Part(got, Packs, v) <= Part(ShMax, C, v)
        <5> SUFFICES ASSUME NEW v \in Packs PROVE Part(got, Packs, v) <= Part(ShMax, C, v)
          OBVIOUS
        <5>1. CASE v \in C
          BY <2>7, <5>1 DEF Part
        <5>2. CASE v \notin C
          <6>1. got[v] = 0
            BY <2>8, <2>9, <3>2, <5>2
          <6> QED BY <5>2, <6>1 DEF Part
        <5> QED BY <5>1, <5>2
      <4>2. got[u] < ShMax[u]
        <5>1. got[u] \in Nat /\ ShMax[u] \in Nat /\ got[u] <= ShMax[u]
          BY <2>7, NumberFacts
        <5> QED BY <3>3, <5>1
      <4>3. u \in Packs /\ Part(got, Packs, u) < Part(ShMax, C, u)
        BY <3>2, <4>2 DEF Part
      <4>4. got \in [Packs -> Int] /\ Summed(ShMax)
        BY <2>7, NumberFacts DEF Summed
      <4>5. Plus(got, Packs) < Plus(ShMax, C)
        BY <4>1, <4>3, <4>4, PlusStrict
      <4> QED BY <2>6, <2>10, <2>13, <3>1, <4>5 DEF G, m
    <3>4. ASSUME NEW u \in avail PROVE Room(got, u, charging) <= 0
      <4>1. u \in Packs /\ got[u] \in Nat /\ got[u] = ShMax[u] /\ ShMax[u] - got[u] = 0
        BY <2>7, <3>3
      <4> DEFINE x == ShMax[u] - got[u]
                 y == Budget(ShPhase[u], charging) - Plus(got, OnPhase(ShPhase[u]))
                 r == Room(got, u, charging)
      <4>2. /\ r \in Int
            /\ ShPhase[u] = 0 => r = x
            /\ ShPhase[u] # 0 /\ ShPhase[u] \in shDark => r = 0
            /\ ShPhase[u] # 0 /\ ShPhase[u] \notin shDark => r <= x
        BY <2>7, <4>1, RoomIs
      <4> HIDE DEF r
      <4>3. x = 0
        BY <4>1
      <4> HIDE DEF x
      <4>4. r <= 0
        BY <4>2, <4>3
      <4> QED BY <4>4 DEF r
    <3> QED BY <3>4
  <2> QED BY <2>8, <2>10, <2>12, <2>13
<1> QED BY <1>1, <1>2, <1>3

(* The property as a relation of the values it speaks of, for the state before a step and after it. *)
BudgetAt(base, p, charging) ==
    IF charging THEN Max({0, Min({ShLimit[p], ShLimit[p] - base[p]})})
    ELSE Max({0, Min({ShLimit[p], ShLimit[p] + base[p]})})
RoomAt(base, dark, got, u, charging) ==
    IF ShPhase[u] = 0 THEN ShMax[u] - got[u]
    ELSE IF ShPhase[u] \in dark THEN 0
    ELSE Min({ShMax[u] - got[u], BudgetAt(base, ShPhase[u], charging) - Plus(got, OnPhase(ShPhase[u]))})
Running(out, dir) == [u \in Packs |-> Max({0, dir * out[u]})]
ShortAt(base, dark, away, out, dir, ask) ==
    ask - Plus(Running(out, dir), Packs) > Len(ShPhase) \div 2
        => \A u \in Packs \ away : RoomAt(base, dark, Running(out, dir), u, dir = 1) <= 0

\* The statement about a shortfall, as one about given values, so that a step can be read in it.
LEMMA ShortIs ==
    /\ ShortOnlyWhenFull <=> (shLast = "plan" => ShortAt(shBase, shDark, shAway, shOut, shDir, shAsk))
    /\ ShortOnlyWhenFull' <=> (shLast' = "plan" => ShortAt(shBase', shDark', shAway', shOut', shDir', shAsk'))
    /\ \A got, u, charging : Room(got, u, charging) = RoomAt(shBase, shDark, got, u, charging)
<1>1. ShortOnlyWhenFull <=> (shLast = "plan" => ShortAt(shBase, shDark, shAway, shOut, shDir, shAsk))
  BY DEF ShortOnlyWhenFull, ShortAt, Room, RoomAt, Budget, BudgetAt, Running
<1>2. ShortOnlyWhenFull' <=> (shLast' = "plan" => ShortAt(shBase', shDark', shAway', shOut', shDir', shAsk'))
  BY DEF ShortOnlyWhenFull, ShortAt, Room, RoomAt, Budget, BudgetAt, Running
<1>3. \A got, u, charging : Room(got, u, charging) = RoomAt(shBase, shDark, got, u, charging)
  BY DEF Room, RoomAt, Budget, BudgetAt
<1> QED BY <1>1, <1>2, <1>3

\* A cycle falls short only when nobody has room.
LEMMA CycleFills == ShInv /\ ShCycle => ShortOnlyWhenFull'
<1> SUFFICES ASSUME ShInv, ShCycle, shLast' = "plan" PROVE ShortAt(shBase', shDark', shAway', shOut', shDir', shAsk')
  BY ShortIs
<1> DEFINE avail == Packs \ shAway
           none == [u \in Packs |-> 0]
           used(dir) == IF dir = shDir THEN shActive ELSE <<>>
           keep(dir) == IF dir = shDir THEN shKeep ELSE none
           order(dir) == Order(used(dir), avail)
           alone(power) == power = 0 \/ Cardinality(avail) <= 1
           chosen(power, dir) == IF power = 0 THEN <<>> ELSE IF alone(power) THEN order(dir)
                                 ELSE Select(power, order(dir), used(dir), keep(dir))
           given(power, dir) == IF chosen(power, dir) = <<>> THEN none
                                ELSE LimitAllocation(Shares(power, chosen(power, dir), dir = 1), chosen(power, dir), order(dir), dir = 1)
<1>0. PICK power \in ShAsks, dir \in {1, -1} : \E got \in {given(power, dir)} :
         /\ shActive' = Among(Candidates(chosen(power, dir), order(dir)), {u \in Packs : got[u] > 0})
         /\ shDir' = dir /\ shAsk' = power
         /\ shKeep' = IF alone(power) THEN none ELSE HoldUntil(power, order(dir), used(dir), keep(dir), chosen(power, dir))
         /\ SendAll([u \in Packs |-> dir * got[u]])
  BY DEF ShCycle
<1>1. /\ shDir' = dir /\ shAsk' = power /\ SendAll([u \in Packs |-> dir * given(power, dir)[u]])
      /\ given(power, dir) = Planned(power, used(dir), avail, keep(dir), dir = 1)
  <2>1. given(power, dir) = Planned(power, used(dir), avail, keep(dir), dir = 1)
    BY DEF Planned, Picked
  <2>2. shDir' = dir /\ shAsk' = power /\ SendAll([u \in Packs |-> dir * given(power, dir)[u]])
    <3> HIDE DEF alone, none, used, order, chosen, keep, given
    <3> QED BY <1>0
  <2> QED BY <2>1, <2>2
<1> DEFINE us == used(dir)  kp == keep(dir)  got == Planned(power, us, avail, kp, dir = 1)
<1>2. shDir' = dir /\ shAsk' = power /\ SendAll([u \in Packs |-> dir * got[u]]) /\ power \in Nat
  <2>1. power \in Nat
    BY NumberFacts
  <2> HIDE DEF given
  <2> QED BY <1>1, <2>1
<1>3. us \in Lists /\ avail \in SUBSET Packs /\ Readings
  BY EmptyList DEF ShInv, ShTypeOK, Readings
<1>4. UNCHANGED <<shBase, shDark, shAway>>
  BY DEF ShCycle
<1> HIDE DEF us, kp, used, keep, order, alone, chosen, given
<1>5. got \in [Packs -> Nat]
  <2> DEFINE ch == Picked(power, us, avail, kp)  o == Order(us, avail)
  <2>1. ch \in Lists /\ o \in Lists
    <3>1. CASE power = 0
      BY <1>3, <3>1, EmptyList, OrderList DEF Picked
    <3>2. CASE power # 0
      <4>1. power > 0
        BY <1>2, <3>2
      <4>2. ch \in Lists
        <5>1. ch = Picked(power, us, avail, kp)
          OBVIOUS
        <5> HIDE DEF ch, avail
        <5> QED BY <1>2, <1>3, <4>1, <5>1, PickedAll
      <4>3. o \in Lists
        BY <1>3, OrderList
      <4> QED BY <4>2, <4>3
    <3> QED BY <3>1, <3>2
  <2>2. got = IF ch = <<>> THEN none ELSE LimitAllocation(Shares(power, ch, dir = 1), ch, o, dir = 1)
    BY DEF Planned
  <2> HIDE DEF ch, o, got
  <2>3. CASE ch = <<>>
    BY <2>2, <2>3
  <2>4. CASE ch # <<>>
    <3> DEFINE need == Shares(power, ch, dir = 1)
               a == LimitAllocation(need, ch, o, dir = 1)
    <3>1. ch \in Seq(Packs) /\ o \in Seq(Packs)
      BY <2>1, ListIs
    <3>2. need \in [Packs -> Nat] /\ \A u \in Packs : need[u] <= ShMax[u]
      BY <1>2, <3>1, SharesFit
    <3> HIDE DEF need
    <3>3. a \in [Packs -> Nat] /\ (\A u \in Packs : a[u] <= ShMax[u]) /\ \A p \in Phases : Plus(a, OnPhase(p)) <= Allowance(p, dir = 1)
      BY <1>3, <3>1, <3>2, AllocationFits
    <3>4. got = a
      BY <2>2, <2>4 DEF need
    <3> HIDE DEF a
    <3> QED BY <3>3, <3>4
  <2> QED BY <2>3, <2>4
<1> HIDE DEF got
<1> DEFINE out == [u \in Packs |-> dir * got[u]]
<1>6. shOut' = out
  <2>1. SendAll(out)
    BY <1>2
  <2> HIDE DEF out
  <2> QED BY <2>1 DEF SendAll
<1>7. Running(out, dir) = got
  <2>1. ASSUME NEW u \in Packs PROVE Max({0, dir * out[u]}) = got[u]
    <3>1. got[u] \in Nat /\ dir * out[u] = got[u]
      BY <1>5
    <3>2. Max({0, got[u]}) = got[u]
      BY <3>1, MaxZero
    <3> QED BY <3>1, <3>2
  <2>2. got = [u \in Packs |-> got[u]]
    BY <1>5
  <2> HIDE DEF out
  <2>3. Running(out, dir) = [u \in Packs |-> got[u]]
    BY <2>1 DEF Running
  <2> QED BY <2>2, <2>3
<1>8. ASSUME power - Plus(got, Packs) > Len(ShPhase) \div 2, NEW u \in avail
      PROVE  RoomAt(shBase, shDark, got, u, dir = 1) <= 0
  <2>1. Room(got, u, dir = 1) <= 0
    BY <1>2, <1>3, <1>8, PlanFull DEF got
  <2> QED BY <2>1, ShortIs
<1> HIDE DEF out
<1>9. ShortAt(shBase, shDark, shAway, out, dir, power)
  BY <1>7, <1>8 DEF ShortAt
<1> QED BY <1>2, <1>4, <1>6, <1>9

\* No other step calls itself a plan that fell short.
LEMMA OthersFill == ShInv /\ ShortOnlyWhenFull /\ ShInv' /\ (ShNext \/ UNCHANGED shVars) => ShortOnlyWhenFull'
<1> SUFFICES ASSUME ShInv, ShortOnlyWhenFull, ShInv', ShNext \/ UNCHANGED shVars PROVE ShortOnlyWhenFull'
  OBVIOUS
<1>1. CASE ShCycle
  BY <1>1, CycleFills
<1>2. CASE ShReview
  <2>1. shAsk' = 0
    BY <1>2 DEF ShReview
  <2>2. shOut' \in [Packs -> Int] /\ shDir' \in {1, -1}
    BY DEF ShInv, ShTypeOK
  <2> DEFINE out == shOut'  dir == shDir'  f == Running(out, dir)
  <2>3. ASSUME NEW u \in Packs PROVE f[u] \in Nat
    <3> DEFINE z == dir * out[u]
    <3>1. z \in Int
      BY <2>2
    <3> HIDE DEF z
    <3>2. Max({0, z}) \in Nat
      BY <3>1, MaxZero
    <3> QED BY <3>2 DEF Running, z
  <2>4. Len(ShPhase) \div 2 \in Nat
    <3>1. Len(ShPhase) \in Nat
      BY NumberFacts
    <3> QED BY <3>1
  <2> HIDE DEF f
  <2>5. Plus(f, Packs) \in Nat
    BY <2>3, PlusNat
  <2>6. ~(0 - Plus(f, Packs) > Len(ShPhase) \div 2)
    BY <2>4, <2>5
  <2>7. ShortAt(shBase', shDark', shAway', out, dir, 0)
    BY <2>6 DEF ShortAt, f
  <2> QED BY <2>1, <2>7, ShortIs
<1>3. CASE ShSingle \/ ShHouse \/ ShMeter \/ ShAways
  <2>1. shLast' # "plan"
    BY <1>3 DEF ShSingle, ShHouse, ShMeter, ShAways
  <2> QED BY <2>1, ShortIs
<1>4. CASE UNCHANGED shVars
  <2>1. /\ shBase' = shBase /\ shDark' = shDark /\ shAway' = shAway /\ shOut' = shOut /\ shDir' = shDir
        /\ shAsk' = shAsk /\ shLast' = shLast
    BY <1>4 DEF shVars
  <2> QED BY <2>1, ShortIs
<1> QED BY <1>1, <1>2, <1>3, <1>4 DEF ShNext

(* The commands stay inside the fuses of the phases, seen or blind; a plan that falls short leaves no
   usable battery with room, and the same request keeps its batteries. *)
THEOREM SharesCorrect == ShSpec => []SharesSound
<1>1. ShInit => ShInv /\ ShortOnlyWhenFull
  <2>1. ShInit => ShInv
    BY ShStart
  <2>2. ShInit => ShortOnlyWhenFull
    BY DEF ShInit, ShortOnlyWhenFull
  <2> QED BY <2>1, <2>2
<1>2. ShInv /\ [ShNext]_shVars => ShInv'
  BY CycleKeeps, ReviewKeeps, SingleKeeps, AroundKeeps DEF ShNext
<1>3. ShInv /\ ShortOnlyWhenFull /\ [ShNext]_shVars => ShInv' /\ ShortOnlyWhenFull'
  BY <1>2, OthersFill
<1>4. ShInv /\ ShortOnlyWhenFull => SharesSound
  <2> SUFFICES ASSUME ShInv, ShortOnlyWhenFull PROVE SharesSound
    OBVIOUS
  <2>1. ShTypeOK /\ shActive \in Lists /\ PhaseEnvelope /\ BlindStaysInside
    BY DEF ShInv
  <2>2. shAway \subseteq Packs
    BY <2>1 DEF ShTypeOK
  <2> QED BY <2>1, <2>2, ChoiceHolds DEF SharesSound
<1> QED BY <1>1, <1>3, <1>4, PTL DEF ShSpec
=============================================================================
