---------------------------- MODULE EnergyProofs ----------------------------
(***************************************************************************)
(* What holds of five parts for every value of their constants: the hourly   *)
(* net balance (HourlyBalance), the readings a driver lets through            *)
(* (DriverReads), the charge delay (ChargeDelay), the last stretch of a       *)
(* charge (TopCharge) and the price slots (PriceSlots); and of the run that   *)
(* composes them, that waiting loses nothing (MCEnergy).  For each part an    *)
(* inductive invariant is shown to hold at first and to be kept by every      *)
(* action; the theorems follow from it.                                       *)
(***************************************************************************)
EXTENDS MCEnergy, FiniteSetTheorems, WellFoundedInduction, TLAPS

(* What Min of two numbers is.                                               *)
LEMMA LesserOf ==
    ASSUME NEW a \in Int, NEW b \in Int
    PROVE Min({a, b}) = IF a <= b THEN a ELSE b
<1> DEFINE m == IF a <= b THEN a ELSE b
<1>1. m \in {a, b} /\ \A y \in {a, b} : m <= y OBVIOUS
<1>2. \A x \in {a, b} : (\A y \in {a, b} : x <= y) => x = m OBVIOUS
<1> HIDE DEF m
<1>3. (CHOOSE x \in {a, b} : \A y \in {a, b} : x <= y) = m BY <1>1, <1>2
<1> QED BY <1>3 DEF Min, m

-----------------------------------------------------------------------------
(* Hourly net balance.                                                       *)
(* What is always true of one running sum and of what it ought to be.        *)
HbSamples == {{}} \cup {{[p |-> p, at |-> a]} : p \in Int, a \in Int}
HbSnaps == {{}} \cup {{t} : t \in Int}
HbHours == {{}} \cup {{h} : h \in Int}
HbMgrs == [hour: HbHours, net: Int, sample: HbSamples, snap: HbSnaps,
           offset: -HbCap .. HbCap, save: Int]
HbTruths == [net: Int, from: HbSnaps, sample: HbSamples]
HbShape ==
    /\ hbMode \in {"power", "counter"} /\ hbClock \in 0 .. HbEnd
    /\ hbGrid \in [power: Int, total: Int, read: BOOLEAN]
    /\ {hbOn, hbAsked, hbUp} \subseteq BOOLEAN
    /\ hbMgr \in HbMgrs
    /\ hbStore \in [hour: HbHours, net: Int, offset: -HbCap .. HbCap]
    /\ hbTruth \in HbTruths
    /\ hbSaved \in [hour: HbHours,
                    truth: HbTruths]
    /\ hbApplied \in -HbCap .. HbCap
    /\ hbMode \in HbModes

HbAlike ==
    /\ hbMgr.net = hbTruth.net /\ hbMgr.snap = hbTruth.from /\ hbMgr.sample = hbTruth.sample
    /\ hbStore.hour = hbSaved.hour /\ hbStore.net = hbSaved.truth.net
    /\ hbMode = "power" => hbTruth.from = {}
    /\ hbMode = "counter" => hbTruth.sample = {}

HbInv == HbShape /\ HbAlike /\ OffsetTracksHour /\ OffMeansOff

-----------------------------------------------------------------------------
LEMMA OneOf == \A x : The1({x}) = x
BY DEF The1

LEMMA HbAtoms ==
    /\ {} \in HbHours /\ {} \in HbSamples /\ {} \in HbSnaps
    /\ \A t \in Int : {t} \in HbHours /\ {t} \in HbSnaps
    /\ \A p, a \in Int : {[p |-> p, at |-> a]} \in HbSamples
BY DEF HbHours, HbSamples, HbSnaps

LEMMA HbNumbers ==
    /\ HbTicks \in Nat \ {0} /\ HbEnd \in Nat /\ HbRamp \in Nat \ {0} /\ HbForce \in Nat
    /\ HbMin \in Nat /\ HbCap \in Nat /\ HbHyst \in Nat \ {0} /\ HbDeadband \in Nat
    /\ HbMaxUpsets \in Nat /\ \A p \in HbPowers : p \in Int
    /\ \A m \in HbModes : m \in {"power", "counter"}
    /\ 0 \in -HbCap .. HbCap
BY HbAssumption

LEMMA QuotType == ASSUME NEW n \in Int, NEW d \in Nat \ {0} PROVE Quot(n, d) \in Int
<1>1. CASE n < 0
  <2>1. -n \in Nat BY <1>1
  <2>2. (-n) \div d \in Int BY <2>1
  <2> QED BY <1>1, <2>2 DEF Quot
<1>2. CASE ~(n < 0) BY <1>2 DEF Quot
<1> QED BY <1>1, <1>2

LEMMA ClockType ==
    ASSUME HbShape
    PROVE Hour \in Int /\ Elapsed \in 0 .. HbTicks - 1 /\ HourLeft \in Nat \ {0}
BY HbNumbers DEF HbShape, Hour, Elapsed, HourLeft

(* The needed shift is within the cap. *)
LEMMA ShiftType ==
    ASSUME HbShape, NEW net \in Int
    PROVE NeededShift(net) \in -HbCap .. HbCap
<1>a. HourLeft \in Nat \ {0} /\ Elapsed \in Nat BY ClockType, HbNumbers
<1>1. -net * HbTicks \in Int /\ 2 * HourLeft \in Nat \ {0} BY <1>a, HbNumbers
<1>2. Quot(-net * HbTicks, 2 * HourLeft) \in Int BY <1>1, QuotType
<1> DEFINE w == Quot(-net * HbTicks, 2 * HourLeft)
<1>3. \A v \in Int : Ramped(v) \in Int
  <2> TAKE v \in Int
  <2>1. v * Elapsed \in Int BY <1>a
  <2>2. Quot(v * Elapsed, HbRamp) \in Int BY <2>1, QuotType, HbNumbers
  <2> QED BY <2>2 DEF Ramped
<1>4. Ramped(w) \in Int BY <1>2, <1>3
<1>5. \A v \in Int : Clamped(v) \in -HbCap .. HbCap BY HbNumbers DEF Clamped
<1> QED BY <1>4, <1>5, HbNumbers DEF NeededShift

LEMMA SteadyShiftType ==
    ASSUME NEW w \in -HbCap .. HbCap, NEW last \in -HbCap .. HbCap
    PROVE /\ SteadyShift(w, last) \in -HbCap .. HbCap
          /\ Abs(SteadyShift(w, last) - w) < HbHyst
          /\ HourLeft < HbForce /\ HourLeft \in Int => SteadyShift(w, last) = w
BY HbNumbers DEF SteadyShift, Abs

LEMMA HbStarts == HbInit => HbInv
<1> SUFFICES ASSUME HbInit PROVE HbInv OBVIOUS
<1> USE HbNumbers, HbAtoms DEF HbInit, NewMgr, NoTruth, Written
<1>0. \E p \in Int : hbGrid = [power |-> p, total |-> 0, read |-> TRUE] BY DEF HbInit
<1>1. HbShape
  <2>1. hbMgr \in HbMgrs /\ hbTruth \in HbTruths BY DEF HbMgrs, HbTruths
  <2>2. hbSaved \in [hour: HbHours, truth: HbTruths] BY <2>1
  <2>3. hbGrid \in [power: Int, total: Int, read: BOOLEAN] BY <1>0
  <2> QED BY <2>1, <2>2, <2>3 DEF HbShape
<1>2. HbAlike BY DEF HbAlike
<1>3. OffsetTracksHour /\ OffMeansOff BY DEF OffsetTracksHour, OffMeansOff
<1> QED BY <1>1, <1>2, <1>3 DEF HbInv

(* What the updates of two fields of the manager give.                      *)
LEMMA SumAndSample == \A r \in HbMgrs : \A v1, v2 :
    [r EXCEPT !.net = v1, !.sample = v2]
    = [hour |-> r.hour, net |-> v1, sample |-> v2, snap |-> r.snap, offset |-> r.offset, save |->
      r.save]
<1> TAKE r \in HbMgrs
<1> TAKE v1, v2
<1> DEFINE q1 == [r EXCEPT !.net = v1]
           q2 == [q1 EXCEPT !.sample = v2]
<1>1. q1 = [hour |-> r.hour, net |-> v1, sample |-> r.sample, snap |-> r.snap, offset |-> r.offset,
        save |-> r.save]
  BY DEF HbMgrs
<1> HIDE DEF q1
<1>2. q2 = [hour |-> r.hour, net |-> v1, sample |-> v2, snap |-> r.snap, offset |-> r.offset, save |->
        r.save]
  BY <1>1
<1>3. q2 = [r EXCEPT !.net = v1, !.sample = v2]
  BY Zenon DEF q1, q2
<1> QED BY <1>2, <1>3, Zenon

LEMMA SnapAndSum == \A r \in HbMgrs : \A v1, v2 :
    [r EXCEPT !.snap = v1, !.net = v2]
    = [hour |-> r.hour, net |-> v2, sample |-> r.sample, snap |-> v1, offset |-> r.offset, save |->
      r.save]
<1> TAKE r \in HbMgrs
<1> TAKE v1, v2
<1> DEFINE q1 == [r EXCEPT !.snap = v1]
           q2 == [q1 EXCEPT !.net = v2]
<1>1. q1 = [hour |-> r.hour, net |-> r.net, sample |-> r.sample, snap |-> v1, offset |-> r.offset, save
        |-> r.save]
  BY DEF HbMgrs
<1> HIDE DEF q1
<1>2. q2 = [hour |-> r.hour, net |-> v2, sample |-> r.sample, snap |-> v1, offset |-> r.offset, save
        |-> r.save]
  BY <1>1
<1>3. q2 = [r EXCEPT !.snap = v1, !.net = v2]
  BY Zenon DEF q1, q2
<1> QED BY <1>2, <1>3, Zenon

LEMMA OffsetAndSave == \A r \in HbMgrs : \A v1, v2 :
    [r EXCEPT !.offset = v1, !.save = v2]
    = [hour |-> r.hour, net |-> r.net, sample |-> r.sample, snap |-> r.snap, offset |-> v1, save |->
      v2]
<1> TAKE r \in HbMgrs
<1> TAKE v1, v2
<1> DEFINE q1 == [r EXCEPT !.offset = v1]
           q2 == [q1 EXCEPT !.save = v2]
<1>1. q1 = [hour |-> r.hour, net |-> r.net, sample |-> r.sample, snap |-> r.snap, offset |-> v1, save
        |-> r.save]
  BY DEF HbMgrs
<1> HIDE DEF q1
<1>2. q2 = [hour |-> r.hour, net |-> r.net, sample |-> r.sample, snap |-> r.snap, offset |-> v1, save
        |-> v2]
  BY <1>1
<1>3. q2 = [r EXCEPT !.offset = v1, !.save = v2]
  BY Zenon DEF q1, q2
<1> QED BY <1>2, <1>3, Zenon

LEMMA OffsetAndSample == \A r \in HbMgrs : \A v1, v2 :
    [r EXCEPT !.offset = v1, !.sample = v2]
    = [hour |-> r.hour, net |-> r.net, sample |-> v2, snap |-> r.snap, offset |-> v1, save |->
      r.save]
<1> TAKE r \in HbMgrs
<1> TAKE v1, v2
<1> DEFINE q1 == [r EXCEPT !.offset = v1]
           q2 == [q1 EXCEPT !.sample = v2]
<1>1. q1 = [hour |-> r.hour, net |-> r.net, sample |-> r.sample, snap |-> r.snap, offset |-> v1, save
        |-> r.save]
  BY DEF HbMgrs
<1> HIDE DEF q1
<1>2. q2 = [hour |-> r.hour, net |-> r.net, sample |-> v2, snap |-> r.snap, offset |-> v1, save |->
        r.save]
  BY <1>1
<1>3. q2 = [r EXCEPT !.offset = v1, !.sample = v2]
  BY Zenon DEF q1, q2
<1> QED BY <1>2, <1>3, Zenon

LEMMA HourAndSum == \A r \in HbMgrs : \A v1, v2, v3 :
    [r EXCEPT !.hour = v1, !.net = v2, !.offset = v3]
    = [hour |-> v1, net |-> v2, sample |-> r.sample, snap |-> r.snap, offset |-> v3, save |->
      r.save]
<1> TAKE r \in HbMgrs
<1> TAKE v1, v2, v3
<1> DEFINE q1 == [r EXCEPT !.hour = v1]
           q2 == [q1 EXCEPT !.net = v2]
           q3 == [q2 EXCEPT !.offset = v3]
<1>1. q1 = [hour |-> v1, net |-> r.net, sample |-> r.sample, snap |-> r.snap, offset |-> r.offset, save
        |-> r.save]
  BY DEF HbMgrs
<1> HIDE DEF q1
<1>2. q2 = [hour |-> v1, net |-> v2, sample |-> r.sample, snap |-> r.snap, offset |-> r.offset, save
        |-> r.save]
  BY <1>1
<1> HIDE DEF q2
<1>3. q3 = [hour |-> v1, net |-> v2, sample |-> r.sample, snap |-> r.snap, offset |-> v3, save |->
        r.save]
  BY <1>2
<1>4. q3 = [r EXCEPT !.hour = v1, !.net = v2, !.offset = v3]
  BY Zenon DEF q1, q2, q3
<1> QED BY <1>3, <1>4, Zenon

(* A pass in full: the sum and the sum it ought to be move together. *)
LEMMA TurnAlike ==
    ASSUME HbInv
    PROVE LET r == Turned(hbMgr)
              base == IF hbMgr.hour = {Hour} THEN hbTruth ELSE NoTruth
          IN /\ r \in HbMgrs /\ base \in HbTruths
             /\ r.net = base.net /\ r.snap = base.from /\ r.sample = base.sample
             /\ hbMode = "power" => base.from = {}
             /\ hbMode = "counter" => base.sample = {}
<1>1. Hour \in Int BY ClockType DEF HbInv
<1>2. CASE hbMgr.hour = {Hour} BY <1>2 DEF Turned, HbInv, HbShape, HbAlike
<1>3. CASE hbMgr.hour # {Hour}
  <2>1. Turned(hbMgr) = [hour |-> {Hour}, net |-> 0, sample |-> {}, snap |-> {}, offset |-> 0,
                         save |-> hbMgr.save]
    BY <1>3 DEF Turned, NewMgr
  <2>2. hbMgr.save \in Int BY DEF HbInv, HbShape, HbMgrs
  <2> QED BY <1>1, <1>3, <2>1, <2>2, HbAtoms, HbNumbers DEF HbMgrs, HbTruths, NoTruth
<1> QED BY <1>2, <1>3

LEMMA PassAlike ==
    ASSUME HbInv
    PROVE LET m == Summed(Turned(hbMgr))  t == TruthAfter(hbMgr) IN
          /\ m \in HbMgrs /\ t \in HbTruths
          /\ m.net = t.net /\ m.snap = t.from /\ m.sample = t.sample
          /\ hbMode = "power" => t.from = {}
          /\ hbMode = "counter" => t.sample = {}
<1> DEFINE r == Turned(hbMgr)
           base == IF hbMgr.hour = {Hour} THEN hbTruth ELSE NoTruth
           now == {[p |-> hbGrid.power, at |-> hbClock]}
<1>1. /\ r \in HbMgrs /\ base \in HbTruths
      /\ r.net = base.net /\ r.snap = base.from /\ r.sample = base.sample
      /\ hbMode = "power" => base.from = {}
      /\ hbMode = "counter" => base.sample = {}
  BY TurnAlike
<1>2. hbGrid.total \in Int /\ hbGrid.power \in Int /\ hbClock \in Int /\ now \in HbSamples
  BY HbNumbers, HbAtoms DEF HbInv, HbShape
<1>3. TruthAfter(hbMgr) =
        IF hbMode = "counter"
        THEN LET from == IF base.from = {} THEN {hbGrid.total} ELSE base.from
             IN  [net |-> 2 * (hbGrid.total - The1(from)), from |-> from, sample |-> {}]
        ELSE [net |-> base.net + (IF base.sample = {} THEN 0
                                  ELSE (The1(base.sample).p + hbGrid.power)
                                       * (hbClock - The1(base.sample).at)),
              from |-> {}, sample |-> now]
  BY Zenon DEF TruthAfter, NoTruth
<1>4. /\ r = [hour |-> r.hour, net |-> r.net, sample |-> r.sample, snap |-> r.snap,
              offset |-> r.offset, save |-> r.save]
      /\ r.hour \in HbHours /\ r.net \in Int /\ r.sample \in HbSamples /\ r.snap \in HbSnaps
      /\ r.offset \in -HbCap .. HbCap /\ r.save \in Int
  BY <1>1 DEF HbMgrs
<1> HIDE DEF r, base, now
<1>5. CASE hbMode = "counter" /\ base.from = {}
  <2>1. Summed(r) = [r EXCEPT !.snap = {hbGrid.total}, !.net = 0]
    BY <1>1, <1>5 DEF Summed, ByCounter
  <2>2. Summed(r) = [hour |-> r.hour, net |-> 0, sample |-> r.sample, snap |-> {hbGrid.total},
                     offset |-> r.offset, save |-> r.save]
    BY <2>1, <1>1, SnapAndSum, Zenon
  <2>3. TruthAfter(hbMgr) = [net |-> 2 * (hbGrid.total - hbGrid.total),
                             from |-> {hbGrid.total}, sample |-> {}]
    BY <1>3, <1>5, OneOf
  <2>4. 2 * (hbGrid.total - hbGrid.total) = 0 BY <1>2
  <2>7. {hbGrid.total} \in HbSnaps /\ {} \in HbSamples BY <1>2, HbAtoms
  <2>8. Summed(r) \in HbMgrs BY <2>2, <2>7, <1>4 DEF HbMgrs
  <2>9. TruthAfter(hbMgr) = [net |-> 0, from |-> {hbGrid.total}, sample |-> {}]
    BY <2>3, <2>4, Zenon
  <2>5. Summed(r) \in HbMgrs /\ TruthAfter(hbMgr) \in HbTruths
    BY <2>7, <2>8, <2>9 DEF HbTruths
  <2>6. Summed(r).net = 0 /\ Summed(r).snap = {hbGrid.total} /\ Summed(r).sample = {}
    BY <2>2, <1>1, <1>5
  <2> QED BY <2>3, <2>4, <2>5, <2>6, <1>5 DEF r
<1>6. CASE hbMode = "counter" /\ base.from # {}
  <2>1. PICK z \in Int : base.from = {z} BY <1>1, <1>6 DEF HbTruths, HbSnaps
  <2>2. The1(base.from) = z BY OneOf, <2>1
  <2> DEFINE net == 2 * (hbGrid.total - z)
  <2>3. net \in Int BY <1>2
  <2>4. Summed(r) = [r EXCEPT !.net = net] BY <1>1, <1>6, <2>2 DEF Summed, ByCounter
  <2>5. TruthAfter(hbMgr) = [net |-> net, from |-> base.from, sample |-> {}]
    BY <1>3, <1>6, <2>2
  <2> HIDE DEF net
  <2> QED BY <2>3, <2>4, <2>5, <1>1, <1>4, <1>6, HbAtoms DEF HbMgrs, HbTruths, r
<1>7. CASE hbMode = "power"
  <2>1. PICK more \in Int :
            /\ Summed(r) = [r EXCEPT !.net = r.net + more, !.sample = now]
            /\ TruthAfter(hbMgr) = [net |-> base.net + more, from |-> {}, sample |-> now]
    <3>1. CASE base.sample = {}
      <4>1. Summed(r) = [r EXCEPT !.net = r.net, !.sample = now]
        BY <1>1, <1>7, <3>1 DEF Summed, ByPower, now
      <4>2. r.net = r.net + 0 BY <1>4
      <4>3. TruthAfter(hbMgr) = [net |-> base.net + 0, from |-> {}, sample |-> now]
        BY <1>3, <1>7, <3>1
      <4>4. Summed(r) = [r EXCEPT !.net = r.net + 0, !.sample = now] BY <4>1, <4>2, Zenon
      <4>5. 0 \in Int OBVIOUS
      <4> QED BY <4>3, <4>4, <4>5, Zenon
    <3>2. CASE base.sample # {}
      <4>1. PICK p \in Int, a \in Int : base.sample = {[p |-> p, at |-> a]}
        BY <1>1, <3>2 DEF HbTruths, HbSamples
      <4>2. The1(base.sample) = [p |-> p, at |-> a] BY OneOf, <4>1
      <4> DEFINE more == (p + hbGrid.power) * (hbClock - a)
      <4>3. more \in Int BY <1>2
      <4>6. The1(base.sample).p = p /\ The1(base.sample).at = a BY <4>2
      <4>7. more = (The1(r.sample).p + hbGrid.power) * (hbClock - The1(r.sample).at)
        BY <4>6, <1>1
      <4>4. Summed(r) = [r EXCEPT !.net = r.net + more, !.sample = now]
        <5>1. Summed(r) = ByPower(r) /\ r.sample # {} BY <1>1, <1>7, <3>2 DEF Summed
        <5> QED BY <5>1, <4>7, Zenon DEF ByPower, now
      <4>5. TruthAfter(hbMgr) = [net |-> base.net + more, from |-> {}, sample |-> now]
        <5>1. more = (The1(base.sample).p + hbGrid.power) * (hbClock - The1(base.sample).at)
          BY <4>6
        <5> HIDE DEF more
        <5> QED BY <1>3, <1>7, <3>2, <5>1
      <4> QED BY <4>3, <4>4, <4>5
    <3> QED BY <3>1, <3>2
  <2>2. Summed(r) = [hour |-> r.hour, net |-> r.net + more, sample |-> now, snap |-> r.snap,
                     offset |-> r.offset, save |-> r.save]
    BY <2>1, <1>1, SumAndSample, Zenon
  <2>3. r.net + more \in Int BY <1>4
  <2> QED BY <2>1, <2>2, <2>3, <1>1, <1>2, <1>4, <1>7, HbAtoms DEF HbMgrs, HbTruths, r
<1>8. hbMode \in {"power", "counter"} BY DEF HbInv, HbShape
<1> QED BY <1>5, <1>6, <1>7, <1>8

LEMMA HbPass == HbInv /\ Pass => HbInv'
<1> SUFFICES ASSUME HbInv, Pass PROVE HbInv' OBVIOUS
<1>0. hbGrid.read /\ hbOn BY DEF Pass
<1>1. PICK m \in {Summed(Turned(hbMgr))} :
          LET w == SteadyShift(NeededShift(m.net), m.offset)
              due == hbClock > m.save
              n == [m EXCEPT !.offset = w, !.save = IF due THEN hbClock ELSE @]
          IN  /\ hbMgr' = n
              /\ hbApplied' = w
              /\ hbSaving' = IF due THEN {w} ELSE {}
              /\ hbTruth' = TruthAfter(hbMgr)
              /\ IF due THEN Wrote(n, hbTruth') ELSE UNCHANGED <<hbStore, hbSaved>>
              /\ hbFresh' = TRUE
  BY Zenon DEF Pass
<1>2. UNCHANGED <<hbMode, hbClock, hbGrid, hbOn, hbAsked, hbUp, hbUpsets>> BY DEF Pass
<1>3. /\ m \in HbMgrs
      /\ hbTruth' \in HbTruths
      /\ m.net = hbTruth'.net /\ m.snap = hbTruth'.from /\ m.sample = hbTruth'.sample
      /\ hbMode = "power" => hbTruth'.from = {}
      /\ hbMode = "counter" => hbTruth'.sample = {}
  BY <1>0, <1>1, PassAlike
<1> DEFINE w == SteadyShift(NeededShift(m.net), m.offset)
           due == hbClock > m.save
           n == [m EXCEPT !.offset = w, !.save = IF due THEN hbClock ELSE @]
<1>4. m.net \in Int /\ m.offset \in -HbCap .. HbCap /\ NeededShift(m.net) \in -HbCap .. HbCap
  BY <1>3, ShiftType DEF HbInv, HbMgrs
<1>5. /\ w \in -HbCap .. HbCap
      /\ Abs(w - NeededShift(m.net)) < HbHyst
      /\ HourLeft < HbForce => w = NeededShift(m.net)
  <2>1. HourLeft \in Int BY ClockType DEF HbInv
  <2> QED BY <1>4, <2>1, SteadyShiftType
<1> HIDE DEF w
<1>6. hbClock \in Int BY HbNumbers DEF HbInv, HbShape
<1>7. /\ n \in HbMgrs
      /\ n.net = m.net /\ n.snap = m.snap /\ n.sample = m.sample
  <2> DEFINE save == IF due THEN hbClock ELSE m.save
  <2>1. n = [m EXCEPT !.offset = w, !.save = save] BY Zenon
  <2>2. n = [hour |-> m.hour, net |-> m.net, sample |-> m.sample, snap |-> m.snap, offset |-> w,
             save |-> save]
    BY <2>1, <1>3, OffsetAndSave, ZenonT(40)
  <2>3. save \in Int BY <1>3, <1>6 DEF HbMgrs
  <2> HIDE DEF n, save
  <2> QED BY <2>2, <2>3, <1>3, <1>5 DEF HbMgrs
<1>8. hbMgr' = n /\ hbApplied' = w /\ hbFresh' = TRUE BY <1>1 DEF w
<1>9. \/ hbStore' = Written(n) /\ hbSaved' = [hour |-> n.hour, truth |-> hbTruth']
      \/ hbStore' = hbStore /\ hbSaved' = hbSaved
  BY <1>1 DEF Wrote, w
<1> HIDE DEF n
<1>10. HbShape'
  <2>1. /\ hbMgr' \in HbMgrs
        /\ hbApplied' \in -HbCap .. HbCap
    BY <1>5, <1>7, <1>8
  <2>2. /\ hbStore' \in [hour: HbHours, net: Int, offset: -HbCap .. HbCap]
        /\ hbSaved' \in [hour: HbHours,
                         truth: HbTruths]
    <3>1. n.hour \in HbHours /\ n.net \in Int /\ n.offset \in -HbCap .. HbCap BY <1>7 DEF HbMgrs
    <3>2. /\ Written(n) \in [hour: HbHours, net: Int, offset: -HbCap .. HbCap]
          /\ [hour |-> n.hour, truth |-> hbTruth'] \in [hour: HbHours, truth: HbTruths]
      BY <3>1, <1>3 DEF Written
    <3> QED BY <3>2, <1>9 DEF HbInv, HbShape
  <2> QED BY <2>1, <2>2, <1>2, <1>3 DEF HbInv, HbShape
<1>11. HbAlike' BY <1>2, <1>3, <1>7, <1>8, <1>9 DEF HbInv, HbAlike, Written
<1>12. OffsetTracksHour'
  <2>1. HourLeft' = HourLeft /\ NeededShift(hbTruth.net)' = NeededShift(m.net)
    BY <1>2, <1>3 DEF NeededShift, HourLeft, Elapsed, Ramped
  <2> QED BY <2>1, <1>5, <1>8 DEF OffsetTracksHour
<1>13. OffMeansOff' BY <1>0, <1>2 DEF OffMeansOff
<1> QED BY <1>10, <1>11, <1>12, <1>13 DEF HbInv

(* Every other step leaves the two sums alike; none of them is a complete pass. *)
LEMMA HbOthers ==
    ASSUME HbInv,
           HbTick \/ PassIdle \/ PassBlind \/ SaveDone \/ SwitchOff \/ SwitchOn
           \/ AskedMoves \/ SensorMoves \/ Unload \/ Crash
    PROVE HbInv'
<1> USE HbNumbers DEF HbInv, HbShape, HbAlike, OffMeansOff, OffsetTracksHour, HbUpset
<1>0. {} \in HbHours /\ {} \in HbSamples /\ {} \in HbSnaps BY HbAtoms
<1>1. CASE HbTick
  <2>1. hbClock' \in 0 .. HbEnd
    <3>1. hbClock \in 0 .. HbEnd /\ hbClock < HbEnd /\ hbClock' = hbClock + 1 BY <1>1 DEF HbTick
    <3> QED BY <3>1, HbNumbers
  <2>2. PICK p \in HbPowers : hbGrid' = [hbGrid EXCEPT !.power = p, !.total = @ + hbGrid.power]
    BY <1>1 DEF HbTick
  <2>4. hbGrid \in [power: Int, total: Int, read: BOOLEAN] OBVIOUS
  <2>5. p \in Int /\ hbGrid.total + hbGrid.power \in Int BY <2>4, HbNumbers
  <2>3. hbGrid' \in [power: Int, total: Int, read: BOOLEAN]
    <3> DEFINE g == [hbGrid EXCEPT !.power = p]
    <3>1. g \in [power: Int, total: Int, read: BOOLEAN] BY <2>4, <2>5
    <3>2. hbGrid' = [g EXCEPT !.total = hbGrid.total + hbGrid.power] BY <2>2, Zenon
    <3> HIDE DEF g
    <3> QED BY <3>1, <3>2, <2>5
  <2> QED BY <1>1, <2>1, <2>3 DEF HbTick
<1>a. /\ Cleared = [hour |-> hbMgr.hour, net |-> hbMgr.net, sample |-> {}, snap |-> hbMgr.snap,
                    offset |-> 0, save |-> hbMgr.save]
      /\ Cleared \in HbMgrs
      /\ [hbMgr EXCEPT !.sample = {}] \in HbMgrs /\ [hbTruth EXCEPT !.sample = {}] \in HbTruths
      /\ NewMgr \in HbMgrs /\ NoTruth \in HbTruths
      /\ Written(hbMgr) \in [hour: HbHours, net: Int, offset: -HbCap .. HbCap]
      /\ [hour |-> hbMgr.hour, truth |-> hbTruth] \in [hour: HbHours, truth: HbTruths]
  <2>1. Cleared = [hour |-> hbMgr.hour, net |-> hbMgr.net, sample |-> {}, snap |-> hbMgr.snap,
                   offset |-> 0, save |-> hbMgr.save]
    BY OffsetAndSample, ZenonT(40) DEF Cleared
  <2>2. hbMgr \in HbMgrs /\ hbTruth \in HbTruths OBVIOUS
  <2>3. Cleared \in HbMgrs BY <2>1, <2>2, HbAtoms, HbNumbers DEF HbMgrs
  <2>4. [hbMgr EXCEPT !.sample = {}] \in HbMgrs BY <2>2, HbAtoms DEF HbMgrs
  <2>5. [hbTruth EXCEPT !.sample = {}] \in HbTruths BY <2>2, HbAtoms DEF HbTruths
  <2>6. NewMgr \in HbMgrs /\ NoTruth \in HbTruths
    BY HbAtoms, HbNumbers DEF HbMgrs, HbTruths, NewMgr, NoTruth
  <2>7. Written(hbMgr) \in [hour: HbHours, net: Int, offset: -HbCap .. HbCap]
    BY <2>2 DEF Written, HbMgrs
  <2>8. [hour |-> hbMgr.hour, truth |-> hbTruth] \in [hour: HbHours, truth: HbTruths]
    BY <2>2 DEF HbMgrs
  <2> QED BY <2>1, <2>3, <2>4, <2>5, <2>6, <2>7, <2>8
<1>b. hbTruth \in [net: Int, from: HbSnaps, sample: HbSamples] BY DEF HbTruths
<1>2. CASE PassIdle BY <1>a, <1>b, <1>2, HbNumbers DEF PassIdle
<1>3. CASE PassBlind BY <1>a, <1>b, <1>3, HbNumbers DEF PassBlind, HbMgrs
<1>4. CASE SaveDone BY <1>4 DEF SaveDone
<1>5. CASE SwitchOff BY <1>a, <1>b, <1>5, HbNumbers DEF SwitchOff
<1>6. CASE SwitchOn BY <1>6 DEF SwitchOn
<1>7. CASE AskedMoves BY <1>7 DEF AskedMoves
<1>8. CASE SensorMoves BY <1>8 DEF SensorMoves
<1>9. CASE Unload
  <2>1. /\ hbStore' = Written(hbMgr) /\ hbSaved' = [hour |-> hbMgr.hour, truth |-> hbTruth]
        /\ hbMgr' = NewMgr /\ hbTruth' = NoTruth /\ hbApplied' = 0 /\ hbFresh' = FALSE
        /\ UNCHANGED <<hbMode, hbClock, hbGrid, hbOn, hbAsked>> /\ hbUp' = FALSE
    BY <1>9 DEF Unload, Down, Wrote
  <2>2. HbShape' BY <2>1, <1>a, HbNumbers
  <2>3. HbAlike' BY <2>1 DEF Written, NewMgr, NoTruth
  <2> QED BY <2>1, <2>2, <2>3
<1>10. CASE Crash BY <1>a, <1>10, HbNumbers DEF Crash, Down, NewMgr, NoTruth
<1> QED BY <1>1, <1>2, <1>3, <1>4, <1>5, <1>6, <1>7, <1>8, <1>9, <1>10

LEMMA RestoredIs == \A h, k, o :
    [NewMgr EXCEPT !.hour = h, !.net = k, !.offset = o]
    = [hour |-> h, net |-> k, sample |-> {}, snap |-> {}, offset |-> o, save |-> 0]
<1>1. NewMgr \in HbMgrs BY HbAtoms, HbNumbers DEF HbMgrs, NewMgr
<1> TAKE h, k, o
<1>2. [NewMgr EXCEPT !.hour = h, !.net = k, !.offset = o]
      = [hour |-> h, net |-> k, sample |-> NewMgr.sample, snap |-> NewMgr.snap, offset |-> o,
         save |-> NewMgr.save]
  BY <1>1, HourAndSum, Zenon
<1> QED BY <1>2 DEF NewMgr

(* A restart takes over the sum of this hour and nothing else.               *)
LEMMA HbSetup == HbInv /\ Setup => HbInv'
<1> SUFFICES ASSUME HbInv, Setup PROVE HbInv' OBVIOUS
<1> USE HbNumbers DEF HbInv, HbShape, HbAlike, OffMeansOff, OffsetTracksHour
<1>0. /\ {} \in HbHours /\ {} \in HbSamples /\ {} \in HbSnaps
      /\ \A t \in Int : {t} \in HbHours /\ {t} \in HbSnaps
  BY HbAtoms
<1>1. CASE hbStore.hour # {Hour}
  <2>1. hbMgr' = NewMgr /\ hbTruth' = NoTruth BY <1>1 DEF Setup, RestoredHour, Primed, NewMgr
  <2>2. NewMgr \in HbMgrs /\ NoTruth \in HbTruths
    BY <1>0, HbNumbers DEF HbMgrs, HbTruths, NewMgr, NoTruth
  <2>3. UNCHANGED <<hbMode, hbClock, hbGrid, hbOn, hbAsked, hbStore, hbApplied, hbSaved>>
        /\ hbFresh' = FALSE /\ hbUp' = TRUE
    BY DEF Setup
  <2>4. HbShape' BY <2>1, <2>2, <2>3
  <2>5. HbAlike' BY <2>1, <2>3 DEF NewMgr, NoTruth
  <2> QED BY <2>3, <2>4, <2>5
<1>2. CASE hbStore.hour = {Hour}
  <2> DEFINE m == [NewMgr EXCEPT !.hour = hbStore.hour, !.net = hbStore.net, !.offset = hbStore.offset]
             z == hbGrid.total - Quot(m.net, 2)
  <2>1. m = [hour |-> {Hour}, net |-> hbStore.net, sample |-> {}, snap |-> {},
             offset |-> hbStore.offset, save |-> 0]
    <3>1. m = [hour |-> hbStore.hour, net |-> hbStore.net, sample |-> {}, snap |-> {},
               offset |-> hbStore.offset, save |-> 0]
      BY RestoredIs, Zenon
    <3> QED BY <3>1, <1>2, Zenon
  <2>2. RestoredHour = m /\ hbMgr' = Primed(m) BY <1>2 DEF RestoredHour, Setup
  <2>3. z \in Int
    <3>1. m.net \in Int /\ hbGrid.total \in Int BY <2>1
    <3>2. \A k \in Int : Quot(k, 2) \in Int
      <4> TAKE k \in Int
      <4>1. 2 \in Nat \ {0} OBVIOUS
      <4> QED BY <4>1, QuotType
    <3> HIDE DEF m
    <3>3. Quot(m.net, 2) \in Int BY <3>1, <3>2
    <3> QED BY <3>1, <3>3
  <2>4. hbTruth' = [net |-> m.net, sample |-> {},
                    from |-> IF hbMode = "power" \/ ~hbGrid.read THEN {} ELSE {z}]
    BY <1>2, <2>1 DEF Setup
  <2>5. UNCHANGED <<hbMode, hbClock, hbGrid, hbOn, hbAsked, hbStore, hbApplied, hbSaved>>
        /\ hbFresh' = FALSE /\ hbUp' = TRUE
    BY DEF Setup
  <2>6. hbMgr' = IF hbMode = "counter" /\ hbGrid.read THEN [m EXCEPT !.snap = {z}] ELSE m
    BY <1>2, <2>1, <2>2 DEF Primed
  <2> HIDE DEF m, z
  <2>7. m \in HbMgrs /\ [m EXCEPT !.snap = {z}] \in HbMgrs /\ hbTruth' \in HbTruths
    <3>1. hbStore.net \in Int /\ hbStore.offset \in -HbCap .. HbCap /\ Hour \in Int
      BY ClockType
    <3>2. m \in HbMgrs BY <2>1, <3>1, <1>0 DEF HbMgrs
    <3> QED BY <3>2, <2>1, <2>3, <2>4, <3>1, <1>0 DEF HbMgrs, HbTruths
  <2>8. HbShape' BY <2>5, <2>6, <2>7
  <2>9. HbAlike' BY <1>2, <2>1, <2>4, <2>5, <2>6
  <2> QED BY <2>5, <2>8, <2>9
<1> QED BY <1>1, <1>2

(* The hour's sum is its own energy, for every clock, cap and ramp, either    *)
(* sensor, and however often the entry stops, the sensor fails or the feature  *)
(* is switched: the offset steers by it, exactly at the end of the hour, and   *)
(* is gone when the feature is off (tracking/hourly_balance.py).               *)
THEOREM BalanceCorrect == HbSpec => []HourBalanced
<1>1. HbInv /\ [HbNext]_hbVars => HbInv'
  <2>1. CASE UNCHANGED hbVars
    BY <2>1 DEF HbInv, HbShape, HbAlike, OffMeansOff, OffsetTracksHour, hbVars,
                NeededShift, HourLeft, Elapsed, Ramped
  <2> QED BY <2>1, HbPass, HbOthers, HbSetup DEF HbNext
<1>2. HbInv => HourBalanced
  <2>1. HbInv => hbMgr.net \in Int /\ hbMgr.offset \in -HbCap .. HbCap
    BY DEF HbInv, HbShape, HbMgrs
  <2> QED BY <2>1 DEF HbInv, HbShape, HbAlike, HourBalanced, HbTypeOK, SumSurvivesRestart
<1> QED BY <1>1, <1>2, HbStarts, PTL DEF HbSpec

-----------------------------------------------------------------------------
(* Battery drivers.                                                          *)
(* Marstek: before the probes are used up every slot is polled; afterwards the *)
(* polled slots are the packs, what is held belongs to a pack, and the packs   *)
(* are those the mask named, or had a pack once if no judgement was flat.      *)
DrPackInv ==
    /\ Over(drProbes) => drPolled = drPacks
    /\ ~Over(drProbes) => drPolled = DrSlots
    /\ Over(drProbes) => \A s \in DrSlots : drData[s] # "none" => s \in drPacks
    /\ ~drFlat => drPacks \subseteq drEver
    /\ drIn \subseteq drEver
    /\ drSync => drPacks = drIn /\ Over(drProbes)

(* Anker: while a zero is withheld it has been counted as often as it was read. *)
DrZeroInv ==
    /\ drRun = DrZeros => ~drShown
    /\ drShown /\ drGood => drStreak = drRun

DrInv == DrTypeOK /\ DrPackInv /\ DrZeroInv /\ SilentBusGivesNothing

LEMMA DrNumbers == DrTries \in Nat \ {0} /\ DrZeros \in Nat \ {0} /\ DrStale \in Nat \ {0} /\ DrMaxUpsets \in Nat
BY DrAssumption

LEMMA DrStarts == DrInit => DrInv
<1> SUFFICES ASSUME DrInit PROVE DrInv OBVIOUS
<1> USE DrNumbers DEF DrInit
<1>1. DrTypeOK
  <2>1. drIn \subseteq DrSlots /\ drMask \in BOOLEAN OBVIOUS
  <2>2. drProbes \in [DrSlots -> 0..DrTries] /\ drData \in [DrSlots -> {"none", "zero", "charge"}]
    OBVIOUS
  <2>3. 0 \in 0..DrZeros /\ 0 \in 0..DrStale + 1 /\ DrMaxUpsets \in 0..DrMaxUpsets OBVIOUS
  <2> QED BY <2>1, <2>2, <2>3 DEF DrTypeOK
<1>2. DrPackInv BY DEF DrPackInv, Over
<1>3. DrZeroInv BY DEF DrZeroInv
<1>4. SilentBusGivesNothing BY DEF SilentBusGivesNothing
<1> QED BY <1>1, <1>2, <1>3, <1>4 DEF DrInv

LEMMA Spends ==
    ASSUME DrInv, drLeft > 0, drLeft' = drLeft - 1
    PROVE drLeft' \in 0..DrMaxUpsets
<1>1. drLeft \in 0..DrMaxUpsets BY DEF DrInv, DrTypeOK
<1> QED BY <1>1, DrNumbers

Reads == [DrSlots -> {"none", "zero", "charge"}]

(* A poll that judges by the probe.                                          *)
LEMMA ProbeKeeps ==
    ASSUME DrInv, NEW read \in Reads, ByProbe(read),
           \A s \in DrSlots : read[s] # "none" => s \in drPolled /\ read[s] \in Answers(s),
           UNCHANGED <<drIn, drEver, drLow>>
    PROVE /\ DrPackInv' /\ UNCHANGED drSync /\ drFlat' \in BOOLEAN
          /\ drPacks' \subseteq DrSlots /\ drPolled' \subseteq DrSlots
          /\ drProbes' \in [DrSlots -> 0..DrTries]
          /\ drData' \in [DrSlots -> {"none", "zero", "charge"}]
<1> USE DrNumbers DEF DrInv, DrTypeOK
<1> DEFINE packs == Learnt(read)
           probes == ProbesAfter(read)
           ends == ~Over(drProbes) /\ Over(probes)
<1>1. /\ drPacks' = packs /\ drProbes' = probes
      /\ drPolled' = IF ends THEN drPolled \cap packs ELSE drPolled
      /\ drData' = Purged(read, IF ends THEN DrSlots \ packs ELSE {})
      /\ drFlat' = (drFlat \/ (drLow /\ ~Over(drProbes)))
      /\ UNCHANGED drSync
  BY DEF ByProbe
<1>2. packs \subseteq DrSlots BY DEF Learnt
<1>3. probes \in [DrSlots -> 0..DrTries]
  <2>1. \A s \in DrSlots : drProbes[s] \in 0..DrTries OBVIOUS
  <2>2. \A s \in DrSlots : (IF drProbes[s] = 0 \/ Proven(read[s]) THEN 0 ELSE drProbes[s] - 1) \in 0..DrTries
    BY <2>1
  <2> QED BY <2>2 DEF ProbesAfter
<1>4. /\ drData' \in [DrSlots -> {"none", "zero", "charge"}]
      /\ \A s \in DrSlots : drData'[s] = IF ends /\ s \notin packs THEN "none"
                                         ELSE IF read[s] = "none" THEN drData[s] ELSE read[s]
  <2>1. \A s \in DrSlots : read[s] \in {"none", "zero", "charge"} /\ drData[s] \in {"none", "zero", "charge"}
    BY DEF Reads
  <2> QED BY <1>1, <2>1 DEF Purged
<1>5. Over(drProbes) => packs = drPacks /\ Over(probes)
  <2>1. Over(drProbes) => \A s \in DrSlots : ~(drProbes[s] > 0) BY DEF Over
  <2>2. Over(drProbes) => Over(probes) BY DEF Over, ProbesAfter
  <2> QED BY <2>1, <2>2 DEF Learnt
<1>6. ~drFlat' => packs \subseteq drEver
  <2> SUFFICES ASSUME ~drFlat' PROVE packs \subseteq drEver OBVIOUS
  <2>1. CASE Over(drProbes) BY <1>1, <1>5, <2>1 DEF DrPackInv
  <2>2. CASE ~Over(drProbes)
    <3>1. ~drLow /\ ~drFlat BY <1>1, <2>2
    <3>2. \A s \in DrSlots : Proven(read[s]) => s \in drIn
      BY <3>1 DEF Proven, Answers
    <3> QED BY <3>1, <3>2 DEF Learnt, DrPackInv
  <2> QED BY <2>1, <2>2
<1> HIDE DEF packs, probes
<1>7. DrPackInv'
  <2>1. CASE Over(drProbes) BY <1>1, <1>4, <1>5, <1>6, <2>1 DEF DrPackInv
  <2>2. CASE ~Over(drProbes) BY <1>1, <1>2, <1>4, <1>6, <2>2 DEF DrPackInv
  <2> QED BY <2>1, <2>2
<1> QED BY <1>1, <1>2, <1>3, <1>4, <1>7

(* A poll that judges by the mask.                                           *)
LEMMA MaskKeeps ==
    ASSUME DrInv, NEW read \in Reads, ByMask(read),
           \A s \in DrSlots : read[s] # "none" => s \in drPolled,
           UNCHANGED <<drIn, drEver>>
    PROVE /\ DrPackInv' /\ drSync' \in BOOLEAN /\ UNCHANGED drFlat
          /\ drPacks' \subseteq DrSlots /\ drPolled' \subseteq DrSlots
          /\ drProbes' \in [DrSlots -> 0..DrTries]
          /\ drData' \in [DrSlots -> {"none", "zero", "charge"}]
<1> USE DrNumbers DEF DrInv, DrTypeOK
<1>1. /\ drData' = Purged(read, IF MaskKnown THEN {} ELSE DrSlots \ drIn)
      /\ drPacks' = drIn /\ drProbes' = [s \in DrSlots |-> 0]
      /\ drPolled' = IF MaskKnown THEN drPolled ELSE drIn
      /\ drSync' = TRUE /\ UNCHANGED drFlat
  BY DEF ByMask
<1>2. /\ drData' \in [DrSlots -> {"none", "zero", "charge"}]
      /\ \A s \in DrSlots : drData'[s] = IF ~MaskKnown /\ s \notin drIn THEN "none"
                                         ELSE IF read[s] = "none" THEN drData[s] ELSE read[s]
  <2>1. \A s \in DrSlots : read[s] \in {"none", "zero", "charge"} /\ drData[s] \in {"none", "zero", "charge"}
    BY DEF Reads
  <2> QED BY <1>1, <2>1 DEF Purged
<1>3. Over(drProbes)' BY <1>1 DEF Over
<1>4. CASE MaskKnown BY <1>1, <1>2, <1>3, <1>4 DEF MaskKnown, DrPackInv
<1>5. CASE ~MaskKnown BY <1>1, <1>2, <1>3, <1>5 DEF DrPackInv
<1> QED BY <1>1, <1>2, <1>4, <1>5

LEMMA ReadKeeps ==
    ASSUME DrInv, NEW read \in Reads, NEW masked, MarstekRead(read, masked),
           \A s \in DrSlots : read[s] # "none" => s \in drPolled /\ read[s] \in Answers(s),
           UNCHANGED <<drBrand, drIn, drMask, drLow, drRefused, drEver, anker, esphome>>,
           drLeft' \in 0..DrMaxUpsets
    PROVE DrInv'
<1>1. /\ DrPackInv' /\ drSync' \in BOOLEAN /\ drFlat' \in BOOLEAN
      /\ drPacks' \subseteq DrSlots /\ drPolled' \subseteq DrSlots
      /\ drProbes' \in [DrSlots -> 0..DrTries]
      /\ drData' \in [DrSlots -> {"none", "zero", "charge"}]
  <2>1. CASE ByProbe(read) BY <2>1, ProbeKeeps DEF DrInv, DrTypeOK
  <2>2. CASE ByMask(read) BY <2>2, MaskKeeps DEF DrInv, DrTypeOK
  <2> QED BY <2>1, <2>2 DEF MarstekRead
<1> QED BY <1>1 DEF DrInv, DrTypeOK, DrZeroInv, SilentBusGivesNothing, anker, esphome

LEMMA MarstekKeeps ==
    ASSUME DrInv, MarstekPoll \/ MarstekPollFails \/ MarstekRefuses \/ PacksChange
    PROVE DrInv'
<1>1. CASE MarstekPoll
  <2>1. PICK read \in Reads, masked \in BOOLEAN :
            /\ \A s \in DrSlots : IF s \in drPolled THEN read[s] \in Answers(s) ELSE read[s] = "none"
            /\ MarstekRead(read, masked)
    BY <1>1 DEF MarstekPoll, Reads
  <2>2. drLeft' \in 0..DrMaxUpsets BY <1>1 DEF MarstekPoll, DrInv, DrTypeOK
  <2> QED BY <1>1, <2>1, <2>2, ReadKeeps DEF MarstekPoll
<1>2. CASE MarstekPollFails
  <2>1. PICK silent \in SUBSET drPolled, read \in Reads, masked \in BOOLEAN :
            /\ \A s \in DrSlots : IF s \in drPolled \ silent THEN read[s] \in Answers(s) ELSE read[s] = "none"
            /\ MarstekRead(read, masked)
    BY <1>2 DEF MarstekPollFails, Reads, DrInv, DrTypeOK
  <2>2. drLeft' \in 0..DrMaxUpsets BY <1>2, Spends DEF MarstekPollFails
  <2> QED BY <1>2, <2>1, <2>2, ReadKeeps DEF MarstekPollFails
<1>3. CASE MarstekRefuses
  BY <1>3 DEF MarstekRefuses, DrInv, DrTypeOK, DrPackInv, DrZeroInv, SilentBusGivesNothing, anker, esphome
<1>4. CASE PacksChange
  <2>1. drLeft' \in 0..DrMaxUpsets BY <1>4, Spends DEF PacksChange
  <2>2. UNCHANGED <<drBrand, drMask, drPacks, drProbes, drPolled, drRefused, drData, drFlat, anker, esphome>>
    BY <1>4 DEF PacksChange
  <2>3. /\ drIn' \subseteq DrSlots /\ drLow' \in BOOLEAN /\ drSync' \in BOOLEAN
        /\ drIn' \subseteq drEver' /\ drEver \subseteq drEver'
        /\ drSync' => drIn' = drIn /\ drSync
    <3>1. CASE \E s \in DrSlots : /\ drIn' = (drIn \ {s}) \cup ({s} \ drIn) /\ drEver' = drEver \cup drIn'
                                  /\ drSync' = FALSE /\ UNCHANGED drLow
      BY <3>1 DEF DrInv, DrTypeOK
    <3>2. CASE drLow' = ~drLow /\ UNCHANGED <<drIn, drEver, drSync>>
      BY <3>2 DEF DrInv, DrTypeOK, DrPackInv
    <3> QED BY <1>4, <3>1, <3>2 DEF PacksChange
  <2>4. DrTypeOK' BY <2>1, <2>2, <2>3 DEF DrInv, DrTypeOK, anker, esphome
  <2>5. DrPackInv' BY <2>2, <2>3 DEF DrInv, DrPackInv, Over
  <2>6. DrZeroInv' /\ SilentBusGivesNothing'
    BY <2>2 DEF DrInv, DrZeroInv, SilentBusGivesNothing, anker, esphome
  <2> QED BY <2>4, <2>5, <2>6 DEF DrInv
<1> QED BY <1>1, <1>2, <1>3, <1>4

(* Anker: a read either counts the zero it withholds or shows it.             *)
LEMMA AnkerReadKeeps ==
    ASSUME DrInv, NEW live \in BOOLEAN, AnkerReads(live), drCmd' = drCmd
    PROVE DrZeroInv' /\ drRun' \in 0..DrZeros /\ drStreak' \in 0..DrZeros
          /\ drGood' \in BOOLEAN /\ drShown' \in BOOLEAN
<1> USE DrNumbers DEF DrInv, DrTypeOK, DrZeroInv
<1>1. CASE live BY <1>1 DEF AnkerReads
<1>2. CASE ~live
  <2>1. Min({drRun + 1, DrZeros}) = IF drRun + 1 <= DrZeros THEN drRun + 1 ELSE DrZeros BY LesserOf
  <2>2. Streak(drStreak) = IF drStreak + 1 <= DrZeros THEN drStreak + 1 ELSE DrZeros
    BY LesserOf DEF Streak
  <2>3. /\ drRun' = Min({drRun + 1, DrZeros}) /\ drGood' = drGood
        /\ \/ /\ Latched /\ drStreak' = Streak(drStreak)
              /\ drShown' = IF Streak(drStreak) < DrZeros THEN drShown ELSE FALSE
           \/ ~Latched /\ drStreak' = 0 /\ drShown' = FALSE
    BY <1>2 DEF AnkerReads
  <2>4. drShown \in BOOLEAN OBVIOUS
  <2>5. drRun' \in 0..DrZeros /\ drStreak' \in 0..DrZeros
    <3>1. drRun \in 0..DrZeros /\ drStreak \in 0..DrZeros OBVIOUS
    <3>2. Min({drRun + 1, DrZeros}) \in 0..DrZeros BY <2>1, <3>1
    <3>3. Streak(drStreak) \in 0..DrZeros BY <2>2, <3>1
    <3>4. drStreak' = Streak(drStreak) \/ drStreak' = 0 BY <2>3
    <3> HIDE DEF DrInv, DrTypeOK, DrZeroInv
    <3> QED BY <2>3, <3>2, <3>3, <3>4
  <2>6. drShown' \in BOOLEAN BY <2>3, <2>4
  <2>7. DrZeroInv'
    <3>1. CASE ~Latched BY <2>3, <3>1
    <3>2. CASE Latched
      <4>1. drGood BY <3>2 DEF Latched
      <4>2. drShown' => drShown /\ Streak(drStreak) < DrZeros BY <2>3, <3>2
      <4> QED BY <2>1, <2>2, <2>3, <3>2, <4>1, <4>2
    <3> QED BY <3>1, <3>2
  <2> QED BY <2>3, <2>5, <2>6, <2>7
<1> QED BY <1>1, <1>2

LEMMA AnkerKeeps ==
    ASSUME DrInv, AnkerPoll \/ AnkerGlitch \/ AnkerCommand \/ AnkerTurns \/ AnkerConnect
    PROVE DrInv'
<1>1. CASE AnkerPoll
  <2>1. DrZeroInv' /\ drRun' \in 0..DrZeros /\ drStreak' \in 0..DrZeros
        /\ drGood' \in BOOLEAN /\ drShown' \in BOOLEAN
    BY <1>1, AnkerReadKeeps DEF AnkerPoll, DrInv, DrTypeOK
  <2> QED BY <1>1, <2>1 DEF AnkerPoll, DrInv, DrTypeOK, DrPackInv, SilentBusGivesNothing, marstek, esphome
<1>2. CASE AnkerGlitch
  <2>1. DrZeroInv' /\ drRun' \in 0..DrZeros /\ drStreak' \in 0..DrZeros
        /\ drGood' \in BOOLEAN /\ drShown' \in BOOLEAN
    BY <1>2, AnkerReadKeeps DEF AnkerGlitch, DrInv, DrTypeOK
  <2>2. drLeft' \in 0..DrMaxUpsets BY <1>2, Spends DEF AnkerGlitch
  <2> QED BY <1>2, <2>1, <2>2 DEF AnkerGlitch, DrInv, DrTypeOK, DrPackInv, SilentBusGivesNothing, marstek, esphome
<1>3. CASE AnkerCommand
  BY <1>3 DEF AnkerCommand, DrInv, DrTypeOK, DrPackInv, DrZeroInv, SilentBusGivesNothing, marstek, esphome
<1>4. CASE AnkerTurns
  BY <1>4 DEF AnkerTurns, DrInv, DrTypeOK, DrPackInv, DrZeroInv, SilentBusGivesNothing, marstek, esphome
<1>5. CASE AnkerConnect
  <2>1. drLeft' \in 0..DrMaxUpsets BY <1>5, Spends DEF AnkerConnect
  <2>2. /\ drCmd' = FALSE /\ drGood' = FALSE /\ drStreak' = 0
        /\ UNCHANGED <<drBrand, marstek, drReal, drShown, drRun, esphome>>
    BY <1>5 DEF AnkerConnect
  <2>6. drStreak' \in 0..DrZeros BY <2>2, DrNumbers
  <2>7. drGood' \in BOOLEAN /\ drCmd' \in BOOLEAN BY <2>2
  <2>3. DrTypeOK' BY <2>1, <2>2, <2>6, <2>7 DEF DrInv, DrTypeOK, marstek, esphome
  <2>4. DrPackInv' /\ SilentBusGivesNothing'
    BY <2>2 DEF DrInv, DrPackInv, Over, SilentBusGivesNothing, marstek, esphome
  <2>5. DrZeroInv' BY <2>2 DEF DrInv, DrZeroInv
  <2> QED BY <2>3, <2>4, <2>5 DEF DrInv
<1> QED BY <1>1, <1>2, <1>3, <1>4, <1>5

LEMMA EsphomeKeeps ==
    ASSUME DrInv, EsphomePoll \/ EsphomeTick
    PROVE DrInv'
<1>1. CASE EsphomePoll
  BY <1>1 DEF EsphomePoll, StallAge, DrInv, DrTypeOK, DrPackInv, DrZeroInv, SilentBusGivesNothing, marstek, anker
<1>2. CASE EsphomeTick
  <2>1. /\ Min({drBus + 1, DrStale + 1}) = IF drBus + 1 <= DrStale + 1 THEN drBus + 1 ELSE DrStale + 1
        /\ Min({drEsp + 1, DrStale + 1}) = IF drEsp + 1 <= DrStale + 1 THEN drEsp + 1 ELSE DrStale + 1
    BY LesserOf, DrNumbers DEF DrInv, DrTypeOK
  <2>2. drBus' \in 0..DrStale + 1 /\ drEsp' \in 0..DrStale + 1 /\ drFresh' = FALSE
    BY <1>2, <2>1, DrNumbers DEF EsphomeTick, DrInv, DrTypeOK
  <2> QED BY <1>2, <2>2 DEF EsphomeTick, DrInv, DrTypeOK, DrPackInv, DrZeroInv, SilentBusGivesNothing, marstek, anker
<1> QED BY <1>1, <1>2

(* What a driver lets through is what there is, for any number of pack slots,  *)
(* probes and polls, whatever fails and however often packs, links and         *)
(* commands come and go (drivers/marstek.py, anker.py, esphome.py).            *)
THEOREM ReadsCorrect == DrSpec => []ReadingsTrue
<1>1. DrInv /\ [DrNext]_drVars => DrInv'
  <2>1. CASE UNCHANGED drVars
    BY <2>1 DEF DrInv, DrTypeOK, DrPackInv, DrZeroInv, SilentBusGivesNothing, drVars, marstek, anker, esphome,
                Over
  <2> QED BY <2>1, MarstekKeeps, AnkerKeeps, EsphomeKeeps DEF DrNext
<1>2. DrInv => ReadingsTrue
  BY DEF DrInv, DrPackInv, DrZeroInv, ReadingsTrue, NoPhantomPack, OnlineIsRead, StopIsSeen
<1> QED BY <1>1, <1>2, DrStarts, PTL DEF DrSpec

-----------------------------------------------------------------------------
(* Charge delay.                                                             *)
(* What the manager and the clock hold, sets of their own.                   *)
CdManagers ==
    [enabled: BOOLEAN, unlocked: BOOLEAN, reached: BOOLEAN, start: CdHour \cup {CdNone},
     last: -1..CdLastDay, since: BOOLEAN, cache: Nat \cup {CdNone}, needs: BOOLEAN,
     blocks: SUBSET CdBatteries]
CdClocks == [day: 0..CdLastDay, hour: CdHour, kind: CdDays, judged: BOOLEAN]

(* Nothing on record is of a day to come.                                     *)
CdPast == cd.last <= cdClock.day /\ cdDisk.day <= cdClock.day /\ cdShown.day <= cdClock.day

(* Wherever a release is on record as today's (manager, pending save, store,   *)
(* sensor) it is of today; the manager's is so unless the first cycle of a new *)
(* day is still to come, and no hour passes before a cycle has looked.          *)
CdLatchInv ==
    /\ ~cdUp => cd.last = CdNone /\ ~cd.unlocked /\ ~cdSaving
    /\ cdUp /\ cd.enabled /\ cdClock.judged => cd.last = cdClock.day
    /\ cdUp /\ cd.enabled /\ cd.unlocked
         => cdOn = cdClock.day \/ (cd.last # CdNone /\ cd.last # cdClock.day)
    /\ cdSaving /\ cd.unlocked => cdOn = cdClock.day
    /\ cdDisk.day = cdClock.day /\ cdDisk.unlocked => cdOn \in {CdNone, cdClock.day}
    /\ cdShown.day = cdClock.day /\ cdShown.state = "allowed" => cdOn \in {CdNone, cdClock.day}

CdInv == CdTypeOK /\ CdPast /\ CdLatchInv /\ DelayEndsByDusk /\ FloorLeavesOne

LEMMA CdNumbers ==
    /\ CdHours \in Nat /\ CdDawn \in Nat /\ CdFallback \in 1..(CdHours - 1) /\ CdHours > 1
    /\ CdMargin \in Nat /\ CdNoon \in Nat /\ CdLastDay \in Nat /\ CdMaxUpsets \in Nat /\ CdBatteries # {}
<1>1. CdDawn \in 1..(CdHours - 1) /\ CdFallback \in 1..(CdHours - 1) BY CdAssumption
<1> QED BY CdAssumption, <1>1

LEMMA CdDayTypes ==
    \A d \in CdDays : /\ d.len \in Nat \ {0} /\ d.use \in Nat /\ d.usable \in Nat
                      /\ \A h \in CdHour : d.rest[h] \in Nat
BY CdAssumption

(* A day as one may reckon with it: an hour loses no more than the cushion.      *)
CdReckoned(d) ==
    /\ d.len \in Nat \ {0} /\ d.use \in Nat /\ d.need \in Nat
    /\ \A h \in CdHour : d.rest[h] \in Nat /\ 10 * (Sun(d, h) - d.use) <= 3 * d.need

LEMMA CdReckonings == \A d \in CdDays : CdReckoned(d) BY CdAssumption DEF CdReckoned

(* What the sensor tells is such a day too, and promises no more sun than there is. *)
LEMMA ToldIs ==
    ASSUME NEW x, NEW d \in CdDays
    PROVE LET e == Told(x, d)
          IN /\ CdReckoned(e) /\ e.len = d.len /\ e.use = d.use /\ e.need = d.need
             /\ \A h \in CdHour : e.rest[h] <= d.rest[h]
<1>1. CdReckoned(d) BY CdReckonings
<1>2. CASE x.read = "zero"
  <2> DEFINE e == Told(x, d)
  <2>1. /\ e.rest = [h \in CdHour |-> 0] /\ e.len = d.len /\ e.use = d.use /\ e.need = d.need
    BY <1>2 DEF Told
  <2> HIDE DEF e
  <2>2. \A h \in CdHour : e.rest[h] = 0 BY <2>1
  <2>3. \A h \in CdHour : Sun(e, h) = 0 BY <2>2 DEF Sun
  <2>4. \A h \in CdHour : 10 * (Sun(e, h) - e.use) <= 3 * e.need BY <1>1, <2>1, <2>3 DEF CdReckoned
  <2>5. CdReckoned(e) BY <1>1, <2>1, <2>2, <2>4 DEF CdReckoned
  <2>6. \A h \in CdHour : e.rest[h] <= d.rest[h] BY <1>1, <2>2 DEF CdReckoned
  <2> QED BY <2>1, <2>5, <2>6 DEF e
<1>3. CASE x.read # "zero"
  <2>1. Told(x, d) = d BY <1>3 DEF Told
  <2> QED BY <1>1, <2>1 DEF CdReckoned
<1> QED BY <1>2, <1>3

LEMMA DayOver == \A r \in CdManagers : \A v1, v2, v3, v4 :
    [r EXCEPT !.unlocked = v1, !.reached = v2, !.start = v3, !.since = v4]
    = [enabled |-> r.enabled, unlocked |-> v1, reached |-> v2, start |-> v3, last |-> r.last, since
      |-> v4, cache |-> r.cache, needs |-> r.needs, blocks |-> r.blocks]
<1> TAKE r \in CdManagers
<1> TAKE v1, v2, v3, v4
<1> DEFINE q1 == [r EXCEPT !.unlocked = v1]
           q2 == [q1 EXCEPT !.reached = v2]
           q3 == [q2 EXCEPT !.start = v3]
           q4 == [q3 EXCEPT !.since = v4]
<1>1. q1 = [enabled |-> r.enabled, unlocked |-> v1, reached |-> r.reached, start |-> r.start, last |->
        r.last, since |-> r.since, cache |-> r.cache, needs |-> r.needs, blocks |-> r.blocks]
  BY DEF CdManagers
<1> HIDE DEF q1
<1>2. q2 = [enabled |-> r.enabled, unlocked |-> v1, reached |-> v2, start |-> r.start, last |-> r.last,
        since |-> r.since, cache |-> r.cache, needs |-> r.needs, blocks |-> r.blocks]
  BY <1>1
<1> HIDE DEF q2
<1>3. q3 = [enabled |-> r.enabled, unlocked |-> v1, reached |-> v2, start |-> v3, last |-> r.last,
        since |-> r.since, cache |-> r.cache, needs |-> r.needs, blocks |-> r.blocks]
  BY <1>2
<1> HIDE DEF q3
<1>4. q4 = [enabled |-> r.enabled, unlocked |-> v1, reached |-> v2, start |-> v3, last |-> r.last,
        since |-> v4, cache |-> r.cache, needs |-> r.needs, blocks |-> r.blocks]
  BY <1>3
<1>5. q4 = [r EXCEPT !.unlocked = v1, !.reached = v2, !.start = v3, !.since = v4]
  BY Zenon DEF q1, q2, q3, q4
<1> QED BY <1>4, <1>5, Zenon

LEMMA DayBegun == \A r \in CdManagers : \A v1, v2, v3 :
    [r EXCEPT !.last = v1, !.cache = v2, !.needs = v3]
    = [enabled |-> r.enabled, unlocked |-> r.unlocked, reached |-> r.reached, start |-> r.start,
      last |-> v1, since |-> r.since, cache |-> v2, needs |-> v3, blocks |-> r.blocks]
<1> TAKE r \in CdManagers
<1> TAKE v1, v2, v3
<1> DEFINE q1 == [r EXCEPT !.last = v1]
           q2 == [q1 EXCEPT !.cache = v2]
           q3 == [q2 EXCEPT !.needs = v3]
<1>1. q1 = [enabled |-> r.enabled, unlocked |-> r.unlocked, reached |-> r.reached, start |-> r.start,
        last |-> v1, since |-> r.since, cache |-> r.cache, needs |-> r.needs, blocks |-> r.blocks]
  BY DEF CdManagers
<1> HIDE DEF q1
<1>2. q2 = [enabled |-> r.enabled, unlocked |-> r.unlocked, reached |-> r.reached, start |-> r.start,
        last |-> v1, since |-> r.since, cache |-> v2, needs |-> r.needs, blocks |-> r.blocks]
  BY <1>1
<1> HIDE DEF q2
<1>3. q3 = [enabled |-> r.enabled, unlocked |-> r.unlocked, reached |-> r.reached, start |-> r.start,
        last |-> v1, since |-> r.since, cache |-> v2, needs |-> v3, blocks |-> r.blocks]
  BY <1>2
<1>4. q3 = [r EXCEPT !.last = v1, !.cache = v2, !.needs = v3]
  BY Zenon DEF q1, q2, q3
<1> QED BY <1>3, <1>4, Zenon

LEMMA Looked == \A r \in CdManagers : \A v1, v2, v3, v4 :
    [r EXCEPT !.reached = v1, !.since = v2, !.cache = v3, !.needs = v4]
    = [enabled |-> r.enabled, unlocked |-> r.unlocked, reached |-> v1, start |-> r.start, last |->
      r.last, since |-> v2, cache |-> v3, needs |-> v4, blocks |-> r.blocks]
<1> TAKE r \in CdManagers
<1> TAKE v1, v2, v3, v4
<1> DEFINE q1 == [r EXCEPT !.reached = v1]
           q2 == [q1 EXCEPT !.since = v2]
           q3 == [q2 EXCEPT !.cache = v3]
           q4 == [q3 EXCEPT !.needs = v4]
<1>1. q1 = [enabled |-> r.enabled, unlocked |-> r.unlocked, reached |-> v1, start |-> r.start, last |->
        r.last, since |-> r.since, cache |-> r.cache, needs |-> r.needs, blocks |-> r.blocks]
  BY DEF CdManagers
<1> HIDE DEF q1
<1>2. q2 = [enabled |-> r.enabled, unlocked |-> r.unlocked, reached |-> v1, start |-> r.start, last |->
        r.last, since |-> v2, cache |-> r.cache, needs |-> r.needs, blocks |-> r.blocks]
  BY <1>1
<1> HIDE DEF q2
<1>3. q3 = [enabled |-> r.enabled, unlocked |-> r.unlocked, reached |-> v1, start |-> r.start, last |->
        r.last, since |-> v2, cache |-> v3, needs |-> r.needs, blocks |-> r.blocks]
  BY <1>2
<1> HIDE DEF q3
<1>4. q4 = [enabled |-> r.enabled, unlocked |-> r.unlocked, reached |-> v1, start |-> r.start, last |->
        r.last, since |-> v2, cache |-> v3, needs |-> v4, blocks |-> r.blocks]
  BY <1>3
<1>5. q4 = [r EXCEPT !.reached = v1, !.since = v2, !.cache = v3, !.needs = v4]
  BY Zenon DEF q1, q2, q3, q4
<1> QED BY <1>4, <1>5, Zenon

LEMMA SwitchedOn == \A r \in CdManagers : \A v1, v2, v3, v4 :
    [r EXCEPT !.enabled = v1, !.unlocked = v2, !.reached = v3, !.since = v4]
    = [enabled |-> v1, unlocked |-> v2, reached |-> v3, start |-> r.start, last |-> r.last, since
      |-> v4, cache |-> r.cache, needs |-> r.needs, blocks |-> r.blocks]
<1> TAKE r \in CdManagers
<1> TAKE v1, v2, v3, v4
<1> DEFINE q1 == [r EXCEPT !.enabled = v1]
           q2 == [q1 EXCEPT !.unlocked = v2]
           q3 == [q2 EXCEPT !.reached = v3]
           q4 == [q3 EXCEPT !.since = v4]
<1>1. q1 = [enabled |-> v1, unlocked |-> r.unlocked, reached |-> r.reached, start |-> r.start, last |->
        r.last, since |-> r.since, cache |-> r.cache, needs |-> r.needs, blocks |-> r.blocks]
  BY DEF CdManagers
<1> HIDE DEF q1
<1>2. q2 = [enabled |-> v1, unlocked |-> v2, reached |-> r.reached, start |-> r.start, last |-> r.last,
        since |-> r.since, cache |-> r.cache, needs |-> r.needs, blocks |-> r.blocks]
  BY <1>1
<1> HIDE DEF q2
<1>3. q3 = [enabled |-> v1, unlocked |-> v2, reached |-> v3, start |-> r.start, last |-> r.last, since
        |-> r.since, cache |-> r.cache, needs |-> r.needs, blocks |-> r.blocks]
  BY <1>2
<1> HIDE DEF q3
<1>4. q4 = [enabled |-> v1, unlocked |-> v2, reached |-> v3, start |-> r.start, last |-> r.last, since
        |-> v4, cache |-> r.cache, needs |-> r.needs, blocks |-> r.blocks]
  BY <1>3
<1>5. q4 = [r EXCEPT !.enabled = v1, !.unlocked = v2, !.reached = v3, !.since = v4]
  BY Zenon DEF q1, q2, q3, q4
<1> QED BY <1>4, <1>5, Zenon

LEMMA LatchLoaded == \A r \in CdManagers : \A v1, v2, v3 :
    [r EXCEPT !.unlocked = v1, !.reached = v2, !.start = v3]
    = [enabled |-> r.enabled, unlocked |-> v1, reached |-> v2, start |-> v3, last |-> r.last, since
      |-> r.since, cache |-> r.cache, needs |-> r.needs, blocks |-> r.blocks]
<1> TAKE r \in CdManagers
<1> TAKE v1, v2, v3
<1> DEFINE q1 == [r EXCEPT !.unlocked = v1]
           q2 == [q1 EXCEPT !.reached = v2]
           q3 == [q2 EXCEPT !.start = v3]
<1>1. q1 = [enabled |-> r.enabled, unlocked |-> v1, reached |-> r.reached, start |-> r.start, last |->
        r.last, since |-> r.since, cache |-> r.cache, needs |-> r.needs, blocks |-> r.blocks]
  BY DEF CdManagers
<1> HIDE DEF q1
<1>2. q2 = [enabled |-> r.enabled, unlocked |-> v1, reached |-> v2, start |-> r.start, last |-> r.last,
        since |-> r.since, cache |-> r.cache, needs |-> r.needs, blocks |-> r.blocks]
  BY <1>1
<1> HIDE DEF q2
<1>3. q3 = [enabled |-> r.enabled, unlocked |-> v1, reached |-> v2, start |-> v3, last |-> r.last,
        since |-> r.since, cache |-> r.cache, needs |-> r.needs, blocks |-> r.blocks]
  BY <1>2
<1>4. q3 = [r EXCEPT !.unlocked = v1, !.reached = v2, !.start = v3]
  BY Zenon DEF q1, q2, q3
<1> QED BY <1>3, <1>4, Zenon

LEMMA LatchShown == \A r \in CdManagers : \A v1, v2 :
    [r EXCEPT !.reached = v1, !.unlocked = v2]
    = [enabled |-> r.enabled, unlocked |-> v2, reached |-> v1, start |-> r.start, last |-> r.last,
      since |-> r.since, cache |-> r.cache, needs |-> r.needs, blocks |-> r.blocks]
<1> TAKE r \in CdManagers
<1> TAKE v1, v2
<1> DEFINE q1 == [r EXCEPT !.reached = v1]
           q2 == [q1 EXCEPT !.unlocked = v2]
<1>1. q1 = [enabled |-> r.enabled, unlocked |-> r.unlocked, reached |-> v1, start |-> r.start, last |->
        r.last, since |-> r.since, cache |-> r.cache, needs |-> r.needs, blocks |-> r.blocks]
  BY DEF CdManagers
<1> HIDE DEF q1
<1>2. q2 = [enabled |-> r.enabled, unlocked |-> v2, reached |-> v1, start |-> r.start, last |-> r.last,
        since |-> r.since, cache |-> r.cache, needs |-> r.needs, blocks |-> r.blocks]
  BY <1>1
<1>3. q2 = [r EXCEPT !.reached = v1, !.unlocked = v2]
  BY Zenon DEF q1, q2
<1> QED BY <1>2, <1>3, Zenon

LEMMA HourOn == \A r \in CdClocks : \A v1, v2 :
    [r EXCEPT !.hour = v1, !.judged = v2]
    = [day |-> r.day, hour |-> v1, kind |-> r.kind, judged |-> v2]
<1> TAKE r \in CdClocks
<1> TAKE v1, v2
<1> DEFINE q1 == [r EXCEPT !.hour = v1]
           q2 == [q1 EXCEPT !.judged = v2]
<1>1. q1 = [day |-> r.day, hour |-> v1, kind |-> r.kind, judged |-> r.judged]
  BY DEF CdClocks
<1> HIDE DEF q1
<1>2. q2 = [day |-> r.day, hour |-> v1, kind |-> r.kind, judged |-> v2]
  BY <1>1
<1>3. q2 = [r EXCEPT !.hour = v1, !.judged = v2]
  BY Zenon DEF q1, q2
<1> QED BY <1>2, <1>3, Zenon
(* The least of a set of naturals is one of them.                            *)
LEMMA LeastIsOne ==
    ASSUME NEW S, S \subseteq Nat, S # {}
    PROVE Min(S) \in S /\ \A y \in S : Min(S) <= y
<1> DEFINE R == OpToRel(<, Nat)
<1>1. IsWellFoundedOn(R, Nat) BY NatLessThanWellFounded
<1>2. \A x, y \in Nat : y < x => <<y, x>> \in R BY Zenon DEF OpToRel
<1> HIDE DEF R
<1>3. PICK x \in S : \A y \in S : ~(<<y, x>> \in R) BY <1>1, WFMin
<1>4. \A y \in S : ~(y < x) BY <1>2, <1>3
<1>5. \A y \in S : x <= y BY <1>4
<1> QED BY <1>5 DEF Min

LEMMA EdgeType ==
    ASSUME NEW d, CdReckoned(d), NEW h \in CdHour, NEW end \in Int, NEW tenths
    PROVE EnergyEdge(d, h, end, tenths) \in Int
<1> DEFINE broken == {k \in h..end : k \in CdHour /\ Short(d, k, end, tenths)}
<1>1. broken \subseteq Nat BY CdNumbers DEF CdHour
<1>2. broken # {} => Min(broken) \in Nat BY <1>1, LeastIsOne
<1>3. EnergyEdge(d, h, end, tenths) =
        IF broken = {} THEN end ELSE IF Min(broken) = h THEN h ELSE Min(broken) - 1
  BY DEF EnergyEdge
<1> HIDE DEF broken
<1>4. h \in Int BY CdNumbers DEF CdHour
<1> QED BY <1>2, <1>3, <1>4

(* A hold for the price or the energy ends before dusk.                      *)
LEMMA WeighEndsByDusk ==
    ASSUME NEW d, CdReckoned(d), NEW h \in CdHour, NEW end \in Int, Weigh(d, h, end) = "delayed"
    PROVE h + d.len < end
<1> DEFINE backup == end - d.len - CdMargin
           edge(tenths) == Min({backup, EnergyEdge(d, h, end, tenths)})
           release == PriceHold(d, h, edge(13), d.len)
           cushion == PriceHold(d, h, edge(10), d.len)
<1>1. /\ h \in Nat /\ d.len \in Nat \ {0} /\ CdMargin \in Nat /\ backup \in Int
  BY CdNumbers DEF CdHour, CdReckoned
<1>2. \/ ~Short(d, h, end, 10) /\ cushion > h
      \/ ~(h + d.len + CdMargin >= end)
  <2>1. CASE Short(d, h, end, 13) BY <2>1 DEF Weigh
  <2>2. CASE ~Short(d, h, end, 13) BY <2>2 DEF Weigh
  <2> QED BY <2>1, <2>2
<1>3. CASE ~(h + d.len + CdMargin >= end) BY <1>1, <1>3
<1>4. CASE cushion > h
  <2>1. edge(10) = IF backup <= EnergyEdge(d, h, end, 10) THEN backup ELSE EnergyEdge(d, h, end, 10)
    BY <1>1, EdgeType, LesserOf
  <2>2. EnergyEdge(d, h, end, 10) \in Int BY EdgeType
  <2>3. ~(edge(10) <= h) BY <1>1, <1>4, <2>1, <2>2 DEF PriceHold, CdNone
  <2>4. backup > h BY <1>1, <2>1, <2>2, <2>3
  <2> QED BY <1>1, <2>4
<1> QED BY <1>2, <1>3, <1>4

LEMMA DecisionEndsByDusk ==
    ASSUME NEW c \in CdManagers, NEW x, NEW d \in CdDays, NEW h \in CdHour,
           Decision(c, x, d, h) = "delayed"
    PROVE IF c.start = CdNone THEN h <= CdFallback ELSE h < c.start \/ h < CdNoon - c.start
<1>1. h \in Nat /\ c.start \in CdHour \cup {CdNone} /\ (c.start # CdNone => c.start \in Nat)
  BY CdNumbers DEF CdHour, CdManagers
<1>2. CheapImportAhead(d, h, c.start) \/ Judge(c, x, d, h) = "delayed"
  BY DEF Decision
<1>3. CASE CheapImportAhead(d, h, c.start)
  <2>1. (IF c.start # CdNone THEN c.start ELSE CdFallback) > h BY <1>3 DEF CheapImportAhead
  <2> QED BY <1>1, <2>1, CdNumbers
<1>4. CASE Judge(c, x, d, h) = "delayed"
  <2> DEFINE end == TEnd(c.start, h, x.charging)
  <2>1. c.start # CdNone /\ Weigh(Told(x, d), h, end) = "delayed" BY <1>4 DEF Judge
  <2>2. end = IF h > CdNoon - c.start /\ x.charging THEN h + 1 ELSE CdNoon - c.start BY DEF TEnd
  <2>3. end \in Int BY <1>1, <2>1, <2>2, CdNumbers
  <2> HIDE DEF end
  <2>4. h + d.len < end BY <2>1, <2>3, ToldIs, WeighEndsByDusk
  <2> QED BY <1>1, <2>1, <2>2, <2>4, CdNumbers, CdDayTypes
<1> QED BY <1>2, <1>3, <1>4

(* What a new day does to the manager.                                       *)
LEMMA ResetIs ==
    ASSUME NEW c \in CdManagers, NEW day \in 0..CdLastDay
    PROVE LET r == DailyReset(c, day)
          IN /\ r \in CdManagers /\ r.enabled = c.enabled /\ r.blocks = c.blocks
             /\ c.enabled => r.last = day
             /\ ~c.enabled => r = c
             /\ r.unlocked = (c.unlocked /\ (~c.enabled \/ c.last = day \/ c.last = CdNone))
             /\ r.start \in {c.start, CdNone}
<1> DEFINE k == IF c.last = CdNone THEN c
                ELSE [c EXCEPT !.unlocked = FALSE, !.reached = FALSE, !.start = CdNone, !.since = FALSE]
<1>1. CASE ~c.enabled \/ c.last = day BY <1>1 DEF DailyReset, CdManagers
<1>2. CASE c.enabled /\ c.last # day
  <2>1. DailyReset(c, day) = [k EXCEPT !.last = day, !.cache = CdNone, !.needs = TRUE]
    BY <1>2, Zenon DEF DailyReset
  <2>2. /\ k \in CdManagers /\ k.enabled = c.enabled /\ k.blocks = c.blocks
        /\ k.unlocked = (c.unlocked /\ c.last = CdNone) /\ k.start \in {c.start, CdNone}
    <3>1. CASE c.last = CdNone BY <3>1 DEF CdManagers
    <3>2. CASE c.last # CdNone
      <4>1. k = [c EXCEPT !.unlocked = FALSE, !.reached = FALSE, !.start = CdNone, !.since = FALSE]
        BY <3>2
      <4> HIDE DEF k
      <4>0. [c EXCEPT !.unlocked = FALSE, !.reached = FALSE, !.start = CdNone, !.since = FALSE]
            = [enabled |-> c.enabled, unlocked |-> FALSE, reached |-> FALSE, start |-> CdNone,
               last |-> c.last, since |-> FALSE, cache |-> c.cache, needs |-> c.needs, blocks |-> c.blocks]
        <5>1. \A v2, v3, v4 :
                [c EXCEPT !.unlocked = FALSE, !.reached = v2, !.start = v3, !.since = v4]
                = [enabled |-> c.enabled, unlocked |-> FALSE, reached |-> v2, start |-> v3,
                   last |-> c.last, since |-> v4, cache |-> c.cache, needs |-> c.needs, blocks |-> c.blocks]
          BY DayOver, Zenon
        <5> QED BY <5>1, Zenon
      <4>2. k = [enabled |-> c.enabled, unlocked |-> FALSE, reached |-> FALSE, start |-> CdNone,
                 last |-> c.last, since |-> FALSE, cache |-> c.cache, needs |-> c.needs, blocks |-> c.blocks]
        BY <4>0, <4>1, Zenon
      <4> QED BY <3>2, <4>2 DEF CdManagers
    <3> QED BY <3>1, <3>2
  <2> HIDE DEF k
  <2>3. DailyReset(c, day)
        = [enabled |-> k.enabled, unlocked |-> k.unlocked, reached |-> k.reached, start |-> k.start,
           last |-> day, since |-> k.since, cache |-> CdNone, needs |-> TRUE, blocks |-> k.blocks]
    BY <2>1, <2>2, DayBegun, Zenon
  <2>4. day \in -1..CdLastDay BY CdNumbers
  <2> HIDE DEF DailyReset
  <2> QED BY <1>2, <2>2, <2>3, <2>4 DEF CdManagers
<1> QED BY <1>1, <1>2

LEMMA DetectIs ==
    ASSUME NEW c \in CdManagers, NEW d, NEW h \in CdHour
    PROVE LET r == DetectStart(c, d, h)
          IN /\ r \in CdManagers /\ r.enabled = c.enabled /\ r.blocks = c.blocks
             /\ r.last = c.last /\ r.unlocked = c.unlocked /\ (~c.enabled => r = c)
BY DEF DetectStart, CdManagers

(* What a judgement leaves of the manager, and what it says.                 *)
LEMMA JudgedIs ==
    ASSUME NEW c \in CdManagers, NEW x, NEW d \in CdDays, NEW h \in CdHour
    PROVE LET r == IsChargeDelayed(c, x, d, h)
          IN /\ r.c \in CdManagers /\ r.state \in CdShown
             /\ r.c.enabled = c.enabled /\ r.c.last = c.last /\ r.c.start = c.start /\ r.c.blocks = c.blocks
             /\ c.unlocked => r.c.unlocked
             /\ ~c.enabled => r.c = c /\ r.state = "disabled"
             /\ r.state = "delayed" => Decision(c, x, d, h) = "delayed"
             /\ c.enabled /\ ~x.skip /\ ~r.c.unlocked /\ ~r.c.reached => ~Floor(c, x)
<1> DEFINE r == IsChargeDelayed(c, x, d, h)
           v == Decision(c, x, d, h)
           y1 == x.read \in {"gap", "late"}
           y2 == IF Weighed(x, d, h) THEN Value(x, d, h) ELSE c.cache
           y3 == IF Weighed(x, d, h) THEN NeedsCharge(c, x, d, h) ELSE c.needs
           y4 == ~Holds(v) /\ v \notin Transient
           e == [enabled |-> c.enabled, unlocked |-> c.unlocked, reached |-> TRUE, start |-> c.start,
                 last |-> c.last, since |-> y1, cache |-> y2, needs |-> y3, blocks |-> c.blocks]
<1>1. CASE ~c.enabled BY <1>1 DEF IsChargeDelayed, CdShown
<1>2. CASE c.enabled /\ x.skip BY <1>2 DEF IsChargeDelayed, CdShown
<1>3. CASE c.enabled /\ ~x.skip /\ c.unlocked BY <1>3 DEF IsChargeDelayed, CdShown
<1>4. CASE c.enabled /\ ~x.skip /\ ~c.unlocked /\ ~Floor(c, x)
  <2>1. r.c = [c EXCEPT !.reached = FALSE] /\ r.state = "setpoint" BY <1>4 DEF IsChargeDelayed
  <2> HIDE DEF r
  <2>2. r.c \in CdManagers /\ r.c.unlocked = c.unlocked /\ r.c.enabled = c.enabled
    BY <2>1 DEF CdManagers
  <2>3. r.c.last = c.last /\ r.c.start = c.start /\ r.c.blocks = c.blocks BY <2>1 DEF CdManagers
  <2>4. r.state \in CdShown /\ r.state # "delayed" BY <2>1 DEF CdShown
  <2> QED BY <1>4, <2>2, <2>3, <2>4 DEF r
<1>5. CASE c.enabled /\ ~x.skip /\ ~c.unlocked /\ Floor(c, x)
  <2>1. [c EXCEPT !.reached = TRUE, !.since = y1, !.cache = y2, !.needs = y3] = e
    <3> HIDE DEF r, v, e, y1, y2, y3, y4
    <3>1. \A v2, v3, v4 :
            [c EXCEPT !.reached = TRUE, !.since = v2, !.cache = v3, !.needs = v4]
            = [enabled |-> c.enabled, unlocked |-> c.unlocked, reached |-> TRUE, start |-> c.start,
               last |-> c.last, since |-> v2, cache |-> v3, needs |-> v4, blocks |-> c.blocks]
      BY Looked, Zenon
    <3>2. [c EXCEPT !.reached = TRUE, !.since = y1, !.cache = y2, !.needs = y3]
          = [enabled |-> c.enabled, unlocked |-> c.unlocked, reached |-> TRUE, start |-> c.start,
             last |-> c.last, since |-> y1, cache |-> y2, needs |-> y3, blocks |-> c.blocks]
      <4>1. \A v3, v4 :
              [c EXCEPT !.reached = TRUE, !.since = y1, !.cache = v3, !.needs = v4]
              = [enabled |-> c.enabled, unlocked |-> c.unlocked, reached |-> TRUE, start |-> c.start,
                 last |-> c.last, since |-> y1, cache |-> v3, needs |-> v4, blocks |-> c.blocks]
        BY <3>1, Zenon
      <4> QED BY <4>1, Zenon
    <3> QED BY <3>2, Zenon DEF e
  <2>2. /\ r.c = [e EXCEPT !.unlocked = y4]
        /\ r.state = IF Holds(v) THEN v ELSE "allowed"
    <3> DEFINE q == [c EXCEPT !.reached = TRUE, !.since = y1, !.cache = y2, !.needs = y3]
    <3>1. r = [c |-> [q EXCEPT !.unlocked = y4], state |-> IF Holds(v) THEN v ELSE "allowed"]
      BY <1>5, Zenon DEF IsChargeDelayed
    <3> HIDE DEF r, q, e, v, y4
    <3>2. r.c = [q EXCEPT !.unlocked = y4] /\ r.state = (IF Holds(v) THEN v ELSE "allowed") BY <3>1
    <3>3. q = e BY <2>1, Zenon DEF q
    <3> QED BY <3>2, <3>3
  <2>3. /\ c.enabled \in BOOLEAN /\ c.start \in CdHour \cup {CdNone} /\ c.last \in -1..CdLastDay
        /\ c.cache \in Nat \cup {CdNone} /\ c.needs \in BOOLEAN /\ c.blocks \in SUBSET CdBatteries
    BY DEF CdManagers
  <2>4. Value(x, d, h) \in Nat BY CdDayTypes DEF Value, Remaining, Told
  <2>5. NeedsCharge(c, x, d, h) \in BOOLEAN
    <3>1. CASE c.cache = Value(x, d, h) BY <2>3, <3>1 DEF NeedsCharge
    <3>2. CASE c.cache # Value(x, d, h)
      <4>1. NeedsCharge(c, x, d, h) = (d.usable + Value(x, d, h) < d.use * (CdHours - h))
        BY <3>2 DEF NeedsCharge
      <4> QED BY <4>1
    <3> QED BY <3>1, <3>2
  <2>6. y1 \in BOOLEAN /\ y2 \in Nat \cup {CdNone} /\ y3 \in BOOLEAN /\ y4 \in BOOLEAN
    BY <2>3, <2>4, <2>5
  <2>7. v = "waiting" \/ v = "delayed" \/ ~Holds(v) BY DEF Holds
  <2> HIDE DEF r, v, y1, y2, y3, y4
  <2>8. r.c = [enabled |-> c.enabled, unlocked |-> y4, reached |-> TRUE, start |-> c.start,
               last |-> c.last, since |-> y1, cache |-> y2, needs |-> y3, blocks |-> c.blocks]
    BY <2>2
  <2>9. r.c \in CdManagers BY <2>3, <2>6, <2>8 DEF CdManagers
  <2>10. r.state \in CdShown BY <2>2, <2>7 DEF CdShown
  <2>11. r.state = "delayed" => v = "delayed" BY <2>2, <2>7
  <2> HIDE DEF e
  <2>12. /\ r.c.enabled = c.enabled /\ r.c.last = c.last /\ r.c.start = c.start /\ r.c.blocks = c.blocks
         /\ r.c.reached = TRUE
    BY <2>8
  <2> QED BY <1>5, <2>9, <2>10, <2>11, <2>12 DEF r, v
<1> QED BY <1>1, <1>2, <1>3, <1>4, <1>5

LEMMA CdStarts == CdInit => CdInv
<1> SUFFICES ASSUME CdInit PROVE CdInv OBVIOUS
<1> USE CdNumbers DEF CdInit
<1>1. /\ cdClock.day = 0 /\ cdClock.hour = 0 /\ cdClock.kind \in CdDays /\ cdClock.judged = FALSE
      /\ cdClock \in CdClocks
  <2>1. cdClock \in [day: {0}, hour: {0}, kind: CdDays, judged: {FALSE}] OBVIOUS
  <2>2. PICK k \in CdDays : cdClock = [day |-> 0, hour |-> 0, kind |-> k, judged |-> FALSE] BY <2>1
  <2>3. 0 \in 0..CdLastDay /\ 0 \in CdHour BY DEF CdHour
  <2> HIDE DEF CdInit
  <2> QED BY <2>2, <2>3 DEF CdClocks
<1>2. cd \in CdManagers BY DEF CdFresh, CdManagers, CdNone
<1>3. CdTypeOK
  <2>1. cdDisk \in CdLatch BY DEF CdLatch, CdNone
  <2>2. cdShown \in [day: -1..CdLastDay, state: CdShown] BY DEF CdShown, CdNone
  <2>3. cdUpsets \in 0..CdMaxUpsets /\ cdOn \in -1..CdLastDay BY DEF CdNone
  <2>4. cdUp \in BOOLEAN /\ cdSaving \in BOOLEAN /\ cdCovers \in BOOLEAN OBVIOUS
  <2> HIDE DEF CdInit
  <2> QED BY <1>1, <1>2, <2>1, <2>2, <2>3, <2>4 DEF CdTypeOK, CdManagers, CdClocks
<1>4. CdPast BY <1>1 DEF CdPast, CdFresh, CdNone
<1>5. CdLatchInv BY <1>1 DEF CdLatchInv, CdFresh, CdNone
<1>6. DelayEndsByDusk /\ FloorLeavesOne BY <1>1 DEF DelayEndsByDusk, FloorLeavesOne, CdFresh
<1> QED BY <1>3, <1>4, <1>5, <1>6 DEF CdInv

(* The type invariant, part by part.                                        *)
LEMMA CdTyped ==
    CdTypeOK <=> /\ cd \in CdManagers /\ cdDisk \in CdLatch /\ cdClock \in CdClocks
                 /\ cdShown \in [day: -1..CdLastDay, state: CdShown]
                 /\ cdUp \in BOOLEAN /\ cdSaving \in BOOLEAN /\ cdCovers \in BOOLEAN
                 /\ cdUpsets \in 0..CdMaxUpsets /\ cdOn \in -1..CdLastDay
BY DEF CdTypeOK, CdManagers, CdClocks

LEMMA CdClockIs ==
    ASSUME CdInv
    PROVE /\ cdClock.day \in 0..CdLastDay /\ cdClock.hour \in CdHour /\ cdClock.kind \in CdDays
          /\ cdClock.judged \in BOOLEAN
BY CdTyped DEF CdInv, CdClocks

LEMMA CdCycle ==
    ASSUME CdInv, NEW x, DelayCycle(x)
    PROVE CdInv'
<1> DEFINE d == cdClock.kind
           h == cdClock.hour
           day == cdClock.day
           b == DailyReset(cd, day)
           c == DetectStart(b, d, h)
           r == IsChargeDelayed(c, x, d, h)
           n == [r.c EXCEPT !.blocks = SetpointBlocks(r.c, x)]
<1>1. /\ cdUp /\ cd' = n
      /\ cdShown' = [day |-> day, state |-> r.state]
      /\ cdSaving' = (cdSaving \/ n.last # cd.last \/ n.unlocked # c.unlocked
                               \/ n.reached # c.reached)
      /\ cdClock' = [cdClock EXCEPT !.judged = x.read # "gap" \/ ~Holds(r.state)]
      /\ cdOn' = IF n.unlocked /\ ~c.unlocked THEN day
                 ELSE IF n.unlocked THEN cdOn ELSE CdNone
      /\ cdCovers' \in BOOLEAN
      /\ UNCHANGED <<cdDisk, cdUp, cdUpsets>>
  BY DEF DelayCycle
<1>2. day \in 0..CdLastDay /\ h \in CdHour /\ d \in CdDays BY CdClockIs
<1>3. /\ b \in CdManagers /\ b.enabled = cd.enabled /\ b.blocks = cd.blocks
      /\ cd.enabled => b.last = day
      /\ ~cd.enabled => b = cd
      /\ b.unlocked = (cd.unlocked /\ (~cd.enabled \/ cd.last = day \/ cd.last = CdNone))
  BY <1>2, ResetIs, CdTyped DEF CdInv
<1> HIDE DEF b
<1>4. /\ c \in CdManagers /\ c.enabled = b.enabled /\ c.blocks = b.blocks
      /\ c.last = b.last /\ c.unlocked = b.unlocked /\ (~b.enabled => c = b)
  BY <1>2, <1>3, DetectIs
<1> HIDE DEF c
<1>5. /\ r.c \in CdManagers /\ r.state \in CdShown
      /\ r.c.enabled = c.enabled /\ r.c.last = c.last /\ r.c.start = c.start /\ r.c.blocks = c.blocks
      /\ c.unlocked => r.c.unlocked
      /\ ~c.enabled => r.c = c /\ r.state = "disabled"
      /\ r.state = "delayed" => Decision(c, x, d, h) = "delayed"
      /\ c.enabled /\ ~x.skip /\ ~r.c.unlocked /\ ~r.c.reached => ~Floor(c, x)
  BY <1>2, <1>4, JudgedIs
<1> HIDE DEF r
<1> DEFINE left == SetpointBlocks(r.c, x)
<1>6. left \subseteq CdBatteries /\ left # CdBatteries
  <2>1. r.c.blocks \subseteq CdBatteries /\ r.c.blocks # CdBatteries
    BY <1>3, <1>4, <1>5 DEF CdInv, FloorLeavesOne, CdManagers
  <2>2. CASE ~r.c.enabled BY <2>1, <2>2 DEF SetpointBlocks
  <2>3. CASE r.c.enabled /\ (r.c.unlocked \/ r.c.reached \/ x.skip)
    BY <2>3, CdNumbers DEF SetpointBlocks
  <2>4. CASE r.c.enabled /\ ~r.c.unlocked /\ ~r.c.reached /\ ~x.skip
    <3>1. left = {k \in CdBatteries : x.soc[k] = "top"} BY <2>4 DEF SetpointBlocks
    <3>2. \E k \in CdBatteries : x.soc[k] # "top" BY <1>5, <2>4 DEF Floor
    <3> QED BY <3>1, <3>2
  <2> QED BY <2>2, <2>3, <2>4
<1> HIDE DEF left
<1>7. /\ n \in CdManagers /\ n.blocks = left /\ n.enabled = cd.enabled /\ n.start = c.start
      /\ n.last = c.last /\ n.unlocked = r.c.unlocked /\ n.reached = r.c.reached
  <2>1. n = [r.c EXCEPT !.blocks = left] BY DEF left
  <2> HIDE DEF n
  <2>2. n \in CdManagers BY <1>5, <1>6, <2>1 DEF CdManagers
  <2> QED BY <1>3, <1>4, <1>5, <2>1, <2>2 DEF CdManagers
<1> HIDE DEF n
<1>8. /\ cdClock'.day = day /\ cdClock'.hour = h /\ cdClock'.kind = d /\ cdClock' \in CdClocks
  <2>1. (x.read # "gap" \/ ~Holds(r.state)) \in BOOLEAN OBVIOUS
  <2>2. cdClock \in CdClocks BY CdTyped DEF CdInv
  <2> QED BY <1>1, <2>1, <2>2 DEF CdClocks
<1>9. day \in Int /\ -1 <= day /\ CdNone # day BY <1>2, CdNumbers DEF CdNone
<1>10. CdTypeOK'
  <2>1. cdSaving' \in BOOLEAN BY <1>1, CdTyped DEF CdInv
  <2>2. cdOn' \in -1..CdLastDay BY <1>1, <1>2, CdTyped, CdNumbers DEF CdInv, CdNone
  <2>3. cdShown' \in [day: -1..CdLastDay, state: CdShown]
    <3>1. day \in -1..CdLastDay BY <1>2, CdNumbers
    <3> QED BY <1>1, <1>5, <3>1
  <2> QED BY <1>1, <1>7, <1>8, <2>1, <2>2, <2>3, CdTyped DEF CdInv, CdTypeOK, CdManagers, CdClocks
<1>11. CdPast'
  <2>1. n.last <= day BY <1>2, <1>3, <1>4, <1>7, <1>9 DEF CdInv, CdPast
  <2>2. cdShown'.day = day BY <1>1
  <2> QED BY <1>1, <1>8, <1>9, <2>1, <2>2 DEF CdInv, CdPast
<1>12. CdLatchInv'
  <2>1. cd.enabled => n.last = day BY <1>3, <1>4, <1>7
  <2>2. cd.enabled /\ c.unlocked => cdOn = day
    BY <1>1, <1>3, <1>4 DEF CdInv, CdLatchInv
  <2>3. cd.enabled /\ n.unlocked => cdOn' = day BY <1>1, <2>2
  <2>4. ~cd.enabled => n.unlocked = cd.unlocked /\ n.unlocked = c.unlocked /\ n.last = cd.last /\ n.reached = c.reached
    BY <1>3, <1>4, <1>5, <1>7
  <2>5. ~cd.enabled => cdSaving' = cdSaving /\ (n.unlocked => cdOn' = cdOn)
    <3>1. cdSaving \in BOOLEAN BY CdTyped DEF CdInv
    <3>2. ~cd.enabled => cdSaving' = cdSaving BY <1>1, <2>4, <3>1
    <3> QED BY <1>1, <2>4, <3>2
  <2>6. cdSaving' /\ n.unlocked => cdOn' = day
    BY <2>3, <2>4, <2>5, <1>1 DEF CdInv, CdLatchInv
  <2>7. cdOn' \in {CdNone, day, cdOn} BY <1>1
  <2>8. cdShown'.state = "allowed" => cdOn' \in {CdNone, day}
    <3>1. cdShown'.state = r.state BY <1>1
    <3>2. r.state = "allowed" => cd.enabled BY <1>3, <1>4, <1>5
    <3> QED BY <1>1, <2>3, <3>1, <3>2
  <2> QED BY <1>1, <1>7, <1>8, <2>1, <2>3, <2>6, <2>7, <2>8 DEF CdInv, CdLatchInv
<1>13. DelayEndsByDusk'
  <2>1. cdShown'.state = r.state BY <1>1
  <2>2. r.state = "delayed" => IF c.start = CdNone THEN h <= CdFallback
                               ELSE h < c.start \/ h < CdNoon - c.start
    BY <1>2, <1>4, <1>5, DecisionEndsByDusk
  <2> QED BY <1>1, <1>7, <1>8, <2>1, <2>2 DEF DelayEndsByDusk
<1>14. FloorLeavesOne' BY <1>1, <1>6, <1>7 DEF FloorLeavesOne
<1> QED BY <1>10, <1>11, <1>12, <1>13, <1>14 DEF CdInv

LEMMA CdSaves == CdInv /\ SaveLands => CdInv'
<1> SUFFICES ASSUME CdInv, SaveLands PROVE CdInv' OBVIOUS
<1>1. /\ cdUp /\ cdSaving /\ cdSaving' = FALSE
      /\ cdDisk' = [day |-> cdClock.day, unlocked |-> cd.unlocked, reached |-> cd.reached, start |-> cd.start]
      /\ UNCHANGED <<cd, cdShown, cdClock, cdUp, cdUpsets, cdCovers, cdOn>>
  BY DEF SaveLands, DelayKept
<1>2. cdDisk' \in CdLatch
  <2>1. cd.unlocked \in BOOLEAN /\ cd.reached \in BOOLEAN /\ cd.start \in CdHour \cup {CdNone}
    BY CdTyped DEF CdInv, CdManagers
  <2>2. cdClock.day \in -1..CdLastDay BY CdClockIs, CdNumbers
  <2> QED BY <1>1, <2>1, <2>2 DEF CdLatch
<1>3. CdTypeOK' BY <1>1, <1>2 DEF CdInv, CdTypeOK
<1>4. cdDisk'.day = cdClock.day /\ cdDisk'.unlocked = cd.unlocked BY <1>1
<1>5. CdPast' BY <1>1, <1>4, CdClockIs DEF CdInv, CdPast
<1>6. CdLatchInv' BY <1>1, <1>4 DEF CdInv, CdLatchInv
<1>7. DelayEndsByDusk' /\ FloorLeavesOne' BY <1>1 DEF CdInv, DelayEndsByDusk, FloorLeavesOne
<1> QED BY <1>3, <1>5, <1>6, <1>7 DEF CdInv

LEMMA CdHourPasses == CdInv /\ HourPasses => CdInv'
<1> SUFFICES ASSUME CdInv, HourPasses PROVE CdInv' OBVIOUS
<1>1. /\ cdUp => cdClock.judged /\ ~cdSaving
      /\ UNCHANGED <<cd, cdDisk, cdShown, cdUp, cdSaving, cdUpsets, cdOn>>
      /\ cdCovers' \in {cdCovers, FALSE}
  BY DEF HourPasses
<1>2. /\ cdClock' \in CdClocks /\ cdClock'.judged = FALSE
      /\ cdClock'.day = cdClock.day \/ cdClock'.day = cdClock.day + 1
  <2>1. cdClock \in CdClocks BY CdTyped DEF CdInv
  <2>2. CASE cdClock.hour < CdHours - 1 /\ cdClock' = [cdClock EXCEPT !.hour = @ + 1, !.judged = FALSE]
    <3> DEFINE v == cdClock.hour + 1
    <3>1. v \in CdHour BY <2>2, CdClockIs, CdNumbers DEF CdHour
    <3>2. cdClock' = [cdClock EXCEPT !.hour = v, !.judged = FALSE] BY <2>2, Zenon
    <3> HIDE DEF v
    <3>3. cdClock' = [day |-> cdClock.day, hour |-> v, kind |-> cdClock.kind, judged |-> FALSE]
      BY <2>1, <3>2, HourOn, Zenon
    <3> QED BY <3>1, <3>3, CdClockIs DEF CdClocks
  <2>3. ASSUME cdClock.day < CdLastDay, NEW k \in CdDays,
               cdClock' = [day |-> cdClock.day + 1, hour |-> 0, kind |-> k, judged |-> FALSE]
        PROVE cdClock' \in CdClocks /\ cdClock'.judged = FALSE /\ cdClock'.day = cdClock.day + 1
    <3>1. cdClock.day + 1 \in 0..CdLastDay /\ 0 \in CdHour BY <2>3, CdClockIs, CdNumbers DEF CdHour
    <3> QED BY <2>3, <3>1 DEF CdClocks
  <2> QED BY <2>2, <2>3 DEF HourPasses
<1>3. cdClock.day \in Nat BY CdClockIs
<1>4. CdTypeOK' BY <1>1, <1>2, CdTyped DEF CdInv, CdTypeOK, CdManagers, CdClocks
<1>5. CdPast'
  <2>1. cd.last \in Int /\ cdDisk.day \in Int /\ cdShown.day \in Int
    BY CdTyped DEF CdInv, CdManagers, CdLatch
  <2> QED BY <1>1, <1>2, <1>3, <2>1 DEF CdInv, CdPast
<1>6. CdLatchInv'
  <2>1. cd.last \in Int /\ cdDisk.day \in Int /\ cdShown.day \in Int
    BY CdTyped DEF CdInv, CdManagers, CdLatch
  <2>2. CASE cdClock'.day = cdClock.day BY <1>1, <1>2, <2>2 DEF CdInv, CdLatchInv
  <2>3. CASE cdClock'.day = cdClock.day + 1
    <3>1. cdDisk.day # cdClock'.day /\ cdShown.day # cdClock'.day
      BY <1>3, <2>1, <2>3 DEF CdInv, CdPast
    <3>2. cdUp /\ cd.enabled => cd.last # CdNone /\ cd.last # cdClock'.day
      BY <1>1, <1>3, <2>3 DEF CdInv, CdLatchInv, CdNone
    <3>3. ~cdSaving BY <1>1 DEF CdInv, CdLatchInv
    <3> QED BY <1>1, <1>2, <3>1, <3>2, <3>3 DEF CdInv, CdLatchInv
  <2> QED BY <1>2, <2>2, <2>3
<1>7. DelayEndsByDusk' /\ FloorLeavesOne' BY <1>1, <1>2 DEF CdInv, DelayEndsByDusk, FloorLeavesOne
<1> QED BY <1>4, <1>5, <1>6, <1>7 DEF CdInv

LEMMA CdDisturbs ==
    ASSUME CdInv, CdUpset
    PROVE cdUpsets' \in 0..CdMaxUpsets
<1>1. cdUpsets \in 0..CdMaxUpsets BY CdTyped DEF CdInv
<1> QED BY <1>1, CdNumbers DEF CdUpset

LEMMA CdSwitches == CdInv /\ DelaySwitch => CdInv'
<1> SUFFICES ASSUME CdInv, DelaySwitch PROVE CdInv' OBVIOUS
<1>1. /\ cdUp
      /\ cd' = IF cd.enabled THEN [cd EXCEPT !.enabled = FALSE]
               ELSE [cd EXCEPT !.enabled = TRUE, !.unlocked = FALSE, !.reached = FALSE, !.since = FALSE]
      /\ cdSaving' = (cdSaving \/ ~cd.enabled)
      /\ cdShown' = [day |-> cdClock.day, state |-> IF cd.enabled THEN "disabled" ELSE "idle"]
      /\ cdCovers' = FALSE /\ cdOn' = IF cd.enabled THEN cdOn ELSE CdNone
      /\ cdClock' = [cdClock EXCEPT !.judged = FALSE]
      /\ UNCHANGED <<cdDisk, cdUp>>
  BY DEF DelaySwitch
<1>2. cdUpsets' \in 0..CdMaxUpsets BY CdDisturbs DEF DelaySwitch
<1>3. /\ cd' \in CdManagers /\ cd'.last = cd.last /\ cd'.blocks = cd.blocks
      /\ cd'.enabled = ~cd.enabled
      /\ cd.enabled => cd'.unlocked = cd.unlocked
      /\ ~cd.enabled => ~cd'.unlocked
  <2>1. cd \in CdManagers BY CdTyped DEF CdInv
  <2>2. CASE cd.enabled
    <3>1. cd' = [cd EXCEPT !.enabled = FALSE] BY <1>1, <2>2
    <3> QED BY <2>1, <2>2, <3>1 DEF CdManagers
  <2>3. CASE ~cd.enabled
    <3>1. \A v2, v3, v4 :
            [cd EXCEPT !.enabled = TRUE, !.unlocked = v2, !.reached = v3, !.since = v4]
            = [enabled |-> TRUE, unlocked |-> v2, reached |-> v3, start |-> cd.start,
               last |-> cd.last, since |-> v4, cache |-> cd.cache, needs |-> cd.needs, blocks |-> cd.blocks]
      BY <2>1, SwitchedOn, Zenon
    <3>2. [cd EXCEPT !.enabled = TRUE, !.unlocked = FALSE, !.reached = FALSE, !.since = FALSE]
          = [enabled |-> TRUE, unlocked |-> FALSE, reached |-> FALSE, start |-> cd.start,
             last |-> cd.last, since |-> FALSE, cache |-> cd.cache, needs |-> cd.needs, blocks |-> cd.blocks]
      BY <3>1, Zenon
    <3>3. cd' = [cd EXCEPT !.enabled = TRUE, !.unlocked = FALSE, !.reached = FALSE, !.since = FALSE]
      BY <1>1, <2>3, Zenon
    <3>4. cd' = [enabled |-> TRUE, unlocked |-> FALSE, reached |-> FALSE, start |-> cd.start,
                 last |-> cd.last, since |-> FALSE, cache |-> cd.cache, needs |-> cd.needs, blocks |-> cd.blocks]
      BY <3>2, <3>3, Zenon
    <3> QED BY <2>1, <2>3, <3>4 DEF CdManagers
  <2> QED BY <2>2, <2>3
<1>4. cdClock' \in CdClocks /\ cdClock'.day = cdClock.day /\ cdClock'.judged = FALSE
  <2>1. cdClock \in CdClocks BY CdTyped DEF CdInv
  <2> QED BY <1>1, <2>1 DEF CdClocks
<1>5. cdShown' \in [day: -1..CdLastDay, state: CdShown] /\ cdShown'.day = cdClock.day
      /\ cdShown'.state # "allowed" /\ cdShown'.state # "delayed"
  <2>1. cdClock.day \in -1..CdLastDay BY CdClockIs, CdNumbers
  <2> QED BY <1>1, <2>1 DEF CdShown
<1>6. cdSaving' \in BOOLEAN /\ cdOn' \in -1..CdLastDay
  <2>1. cdSaving \in BOOLEAN /\ cdOn \in -1..CdLastDay BY CdTyped DEF CdInv
  <2> QED BY <1>1, <2>1, CdNumbers DEF CdNone
<1>7. CdTypeOK' BY <1>1, <1>2, <1>3, <1>4, <1>5, <1>6, CdTyped DEF CdInv, CdTypeOK, CdManagers, CdClocks
<1>8. CdPast' BY <1>1, <1>3, <1>4, <1>5, CdClockIs DEF CdInv, CdPast
<1>9. CdLatchInv'
  <2>1. cd.enabled => (cdSaving' => cdSaving) BY <1>1
  <2> QED BY <1>1, <1>3, <1>4, <1>5, <2>1 DEF CdInv, CdLatchInv
<1>10. DelayEndsByDusk' /\ FloorLeavesOne'
  BY <1>1, <1>3, <1>4, <1>5 DEF CdInv, DelayEndsByDusk, FloorLeavesOne
<1> QED BY <1>7, <1>8, <1>9, <1>10 DEF CdInv

LEMMA CdStops == ASSUME CdInv, NEW flushes \in BOOLEAN, DelayStop(flushes) PROVE CdInv'
<1>1. /\ cdUp /\ (flushes => cdClock.judged)
      /\ cdUp' = FALSE /\ cdSaving' = FALSE
      /\ cdDisk' = IF flushes /\ cd.enabled THEN DelayKept(cd, cdClock.day) ELSE cdDisk
      /\ cd' = [CdFresh EXCEPT !.enabled = cd.enabled]
      /\ cdCovers' = FALSE
      /\ UNCHANGED <<cdShown, cdClock, cdOn>>
  BY DEF DelayStop
<1>2. cdUpsets' \in 0..CdMaxUpsets BY CdDisturbs DEF DelayStop
<1>3. cd' \in CdManagers /\ cd'.last = CdNone /\ ~cd'.unlocked /\ cd'.blocks = {}
  <2>1. cd.enabled \in BOOLEAN BY CdTyped DEF CdInv, CdManagers
  <2>2. cd' = [enabled |-> cd.enabled, unlocked |-> FALSE, reached |-> FALSE, start |-> CdNone,
               last |-> CdNone, since |-> FALSE, cache |-> CdNone, needs |-> TRUE, blocks |-> {}]
    BY <1>1 DEF CdFresh
  <2>3. CdNone \in -1..CdLastDay BY CdNumbers DEF CdNone
  <2> QED BY <2>1, <2>2, <2>3 DEF CdManagers
<1>4. /\ cdDisk' \in CdLatch
      /\ cdDisk'.day <= cdClock.day
      /\ cdDisk'.day = cdClock.day /\ cdDisk'.unlocked => cdOn \in {CdNone, cdClock.day}
  <2>1. CASE flushes /\ cd.enabled
    <3>1. cdDisk' = [day |-> cdClock.day, unlocked |-> cd.unlocked, reached |-> cd.reached, start |-> cd.start]
      BY <1>1, <2>1 DEF DelayKept
    <3>2. cd.unlocked \in BOOLEAN /\ cd.reached \in BOOLEAN /\ cd.start \in CdHour \cup {CdNone}
      BY CdTyped DEF CdInv, CdManagers
    <3>3. cdClock.day \in -1..CdLastDay BY CdClockIs, CdNumbers
    <3>4. cd.unlocked => cdOn = cdClock.day BY <1>1, <2>1 DEF CdInv, CdLatchInv
    <3> QED BY <3>1, <3>2, <3>3, <3>4 DEF CdLatch
  <2>2. CASE ~(flushes /\ cd.enabled)
    <3>1. cdDisk' = cdDisk BY <1>1, <2>2
    <3> QED BY <3>1, CdTyped DEF CdInv, CdPast, CdLatchInv
  <2> QED BY <2>1, <2>2
<1>5. CdTypeOK' BY <1>1, <1>2, <1>3, <1>4, CdTyped DEF CdInv, CdTypeOK, CdManagers
<1>6. CdPast' BY <1>1, <1>3, <1>4, CdClockIs DEF CdInv, CdPast, CdNone
<1>7. CdLatchInv' BY <1>1, <1>3, <1>4 DEF CdInv, CdLatchInv
<1>8. DelayEndsByDusk' /\ FloorLeavesOne' BY <1>1, <1>3, CdNumbers DEF DelayEndsByDusk, FloorLeavesOne
<1> QED BY <1>5, <1>6, <1>7, <1>8 DEF CdInv

(* What setting up restores of the latch.                                    *)
LEMMA RestoredLatch ==
    ASSUME CdInv
    PROVE LET r == Restored(Loaded(cd))
          IN /\ r \in CdManagers /\ r.enabled = cd.enabled /\ r.last = cd.last /\ r.blocks = cd.blocks
             /\ r.start \in {cd.start, cdDisk.start}
             /\ r.unlocked => \/ cd.unlocked
                              \/ cdDisk.day = cdClock.day /\ cdDisk.unlocked
                              \/ cdShown.day = cdClock.day /\ cdShown.state = "allowed"
<1> DEFINE k == Loaded(cd)
           r == Restored(k)
<1>1. cd \in CdManagers /\ cdDisk \in CdLatch BY CdTyped DEF CdInv
<1>2. /\ k \in CdManagers /\ k.enabled = cd.enabled /\ k.last = cd.last /\ k.blocks = cd.blocks
      /\ k.start \in {cd.start, cdDisk.start}
      /\ k.unlocked => cd.unlocked \/ (cdDisk.day = cdClock.day /\ cdDisk.unlocked)
  <2>1. CASE cd.enabled /\ cdDisk.day = cdClock.day
    <3> DEFINE v1 == cdDisk.unlocked
               v2 == cdDisk.reached
               v3 == cdDisk.start
    <3>1. k = [cd EXCEPT !.unlocked = v1, !.reached = v2, !.start = v3] BY <2>1, Zenon DEF Loaded
    <3>2. v1 \in BOOLEAN /\ v2 \in BOOLEAN /\ v3 \in CdHour \cup {CdNone} BY <1>1 DEF CdLatch
    <3>3. (v1 => cdDisk.unlocked) /\ v3 = cdDisk.start OBVIOUS
    <3> HIDE DEF v1, v2, v3, k
    <3>4. \A w1, w2, w3 : [cd EXCEPT !.unlocked = w1, !.reached = w2, !.start = w3]
            = [enabled |-> cd.enabled, unlocked |-> w1, reached |-> w2, start |-> w3, last |-> cd.last,
               since |-> cd.since, cache |-> cd.cache, needs |-> cd.needs, blocks |-> cd.blocks]
      BY <1>1, LatchLoaded, Zenon
    <3>5. [cd EXCEPT !.unlocked = v1, !.reached = v2, !.start = v3]
            = [enabled |-> cd.enabled, unlocked |-> v1, reached |-> v2, start |-> v3, last |-> cd.last,
               since |-> cd.since, cache |-> cd.cache, needs |-> cd.needs, blocks |-> cd.blocks]
      BY <3>4, Zenon
    <3>6. k = [enabled |-> cd.enabled, unlocked |-> v1, reached |-> v2, start |-> v3, last |-> cd.last,
               since |-> cd.since, cache |-> cd.cache, needs |-> cd.needs, blocks |-> cd.blocks]
      BY <3>1, <3>5, Zenon
    <3> QED BY <1>1, <2>1, <3>2, <3>3, <3>6 DEF CdManagers
  <2>2. CASE ~(cd.enabled /\ cdDisk.day = cdClock.day) BY <1>1, <2>2 DEF Loaded
  <2> QED BY <2>1, <2>2
<1> HIDE DEF k
<1>3. CASE cdShown.day = cdClock.day
  <2> DEFINE v1 == k.reached \/ cdShown.state \in {"delayed", "waiting", "allowed"}
             v2 == k.unlocked \/ cdShown.state = "allowed"
  <2>1. r = [k EXCEPT !.reached = v1, !.unlocked = v2] BY <1>3, Zenon DEF Restored
  <2>2. v1 \in BOOLEAN /\ v2 \in BOOLEAN OBVIOUS
  <2>3. v2 => k.unlocked \/ cdShown.state = "allowed" OBVIOUS
  <2> HIDE DEF v1, v2, r
  <2>4. r = [enabled |-> k.enabled, unlocked |-> v2, reached |-> v1, start |-> k.start, last |-> k.last,
             since |-> k.since, cache |-> k.cache, needs |-> k.needs, blocks |-> k.blocks]
    BY <1>2, <2>1, LatchShown, Zenon
  <2>5. r \in CdManagers BY <1>2, <2>2, <2>4 DEF CdManagers
  <2>6. r.enabled = k.enabled /\ r.last = k.last /\ r.blocks = k.blocks /\ r.unlocked = v2 /\ r.start = k.start BY <2>4
  <2> QED BY <1>2, <1>3, <2>3, <2>5, <2>6 DEF r, k
<1>4. CASE cdShown.day # cdClock.day
  <2>1. r = k BY <1>4 DEF Restored
  <2> QED BY <1>2, <2>1 DEF k
<1> QED BY <1>3, <1>4

LEMMA CdSetsUp == CdInv /\ DelaySetUp => CdInv'
<1> SUFFICES ASSUME CdInv, DelaySetUp PROVE CdInv' OBVIOUS
<1>1. /\ ~cdUp /\ cdUp' = TRUE
      /\ cd' = Restored(Loaded(cd))
      /\ cdOn' = IF cd'.unlocked THEN (IF cdOn = CdNone THEN cdClock.day ELSE cdOn) ELSE CdNone
      /\ cdClock' = [cdClock EXCEPT !.judged = FALSE]
      /\ UNCHANGED <<cdDisk, cdShown, cdSaving, cdUpsets, cdCovers>>
  BY DEF DelaySetUp
<1>2. cd.last = CdNone /\ ~cd.unlocked /\ ~cdSaving BY <1>1 DEF CdInv, CdLatchInv
<1>3. /\ cd' \in CdManagers /\ cd'.last = CdNone /\ cd'.blocks = cd.blocks
      /\ cd'.unlocked => cdOn \in {CdNone, cdClock.day}
  BY <1>1, <1>2, RestoredLatch DEF CdInv, CdLatchInv
<1>4. cdClock' \in CdClocks /\ cdClock'.day = cdClock.day /\ cdClock'.judged = FALSE
  <2>1. cdClock \in CdClocks BY CdTyped DEF CdInv
  <2> QED BY <1>1, <2>1 DEF CdClocks
<1>5. /\ cdOn' \in {CdNone, cdClock.day} /\ cdOn' \in -1..CdLastDay
      /\ cd'.unlocked => cdOn' = cdClock.day
  BY <1>1, <1>3, CdClockIs, CdNumbers DEF CdNone
<1>6. CdTypeOK' BY <1>1, <1>3, <1>4, <1>5, CdTyped DEF CdInv, CdTypeOK, CdManagers, CdClocks
<1>7. CdPast' BY <1>1, <1>3, <1>4, CdClockIs DEF CdInv, CdPast, CdNone
<1>8. CdLatchInv' BY <1>1, <1>2, <1>3, <1>4, <1>5 DEF CdInv, CdLatchInv
<1>9. DelayEndsByDusk' /\ FloorLeavesOne' BY <1>1, <1>3, <1>4 DEF CdInv, DelayEndsByDusk, FloorLeavesOne
<1> QED BY <1>6, <1>7, <1>8, <1>9 DEF CdInv

LEMMA CdSteps == CdInv /\ [CdNext]_cdVars => CdInv'
<1> SUFFICES ASSUME CdInv, [CdNext]_cdVars PROVE CdInv' OBVIOUS
<1>1. CASE UNCHANGED cdVars
  BY <1>1 DEF cdVars, CdInv, CdTypeOK, CdPast, CdLatchInv, DelayEndsByDusk, FloorLeavesOne
<1>2. CASE \E x \in CdSeen : DelayCycle(x) BY <1>2, CdCycle
<1>3. CASE \E flushes \in BOOLEAN : DelayStop(flushes) BY <1>3, CdStops
<1> QED BY <1>1, <1>2, <1>3, CdSaves, CdHourPasses, CdSwitches, CdSetsUp DEF CdNext

(* A release of the charge delay is of its day, a delay that is on ends by the *)
(* hours it was given, and the setpoint's floor never blocks every battery; for  *)
(* every length of the day, margin and set of batteries and any number of        *)
(* restarts, reloads and late saves (control/charge_delay.py, sensor.py).        *)
THEOREM DelayCorrect == CdSpec => []DelaySound
<1>1. CdInv => DelaySound
  <2>1. CdInv => UnlockEndsWithDay
    BY CdClockIs DEF CdInv, CdLatchInv, UnlockEndsWithDay
  <2> QED BY <2>1 DEF CdInv, DelaySound
<1> QED BY <1>1, CdSteps, CdStarts, PTL DEF CdSpec

(* A hold that is judged leaves time and sun for the next hour: the balance with *)
(* the cushion loses no more than the cushion, and without it the price is only   *)
(* awaited before the edge.                                                       *)
LEMMA WeighLeavesTime ==
    ASSUME NEW d, CdReckoned(d), NEW h \in CdHour, h + 1 \in CdHour, NEW end \in Int, h < end,
           Weigh(d, h, end) = "delayed"
    PROVE ~Short(d, h + 1, end, 10) /\ h + 1 + d.len <= end
<1> DEFINE backup == end - d.len - CdMargin
           broken == {k \in h..end : k \in CdHour /\ Short(d, k, end, 10)}
           balance == EnergyEdge(d, h, end, 10)
           edge(tenths) == Min({backup, EnergyEdge(d, h, end, tenths)})
           cushion == PriceHold(d, h, edge(10), d.len)
<1>1. /\ h \in Nat /\ d.len \in Nat \ {0} /\ CdMargin \in Nat /\ backup \in Int
  BY CdNumbers DEF CdHour, CdReckoned
<1>2. \/ ~Short(d, h, end, 10) /\ cushion > h
      \/ ~Short(d, h, end, 13) /\ ~(h + d.len + CdMargin >= end)
  <2>1. CASE Short(d, h, end, 13) BY <2>1 DEF Weigh
  <2>2. CASE ~Short(d, h, end, 13) BY <2>2 DEF Weigh
  <2> QED BY <2>1, <2>2
<1>3. CASE ~Short(d, h, end, 13) /\ ~(h + d.len + CdMargin >= end)
  <2> DEFINE r == d.rest[h]
             q == d.rest[h + 1]
             p == d.use * (end - h)
             w == d.use * (end - (h + 1))
  <2>1. r \in Int /\ q \in Int /\ d.use \in Int /\ d.need \in Int BY DEF CdReckoned
  <2>2. p = w + d.use
    <3>1. \A u \in Int, e \in Int : u * (e - h) = u * (e - (h + 1)) + u BY <1>1
    <3> QED BY <2>1, <3>1
  <2>3. p \in Int /\ w \in Int BY <1>1, <2>1
  <2>4. NetSolar(d, h, end) = r - p BY DEF NetSolar, Remaining
  <2>5. h + 1 < end BY <1>1, <1>3
  <2>6. NetSolar(d, h + 1, end) = q - w BY <2>5, <1>1 DEF NetSolar, Remaining
  <2>7. 10 * (r - q - d.use) <= 3 * d.need
    <3>1. Sun(d, h) = r - q BY DEF Sun
    <3> HIDE DEF r, q
    <3>2. 10 * (Sun(d, h) - d.use) <= 3 * d.need BY DEF CdReckoned
    <3> QED BY <3>1, <3>2
  <2>8. ~(10 * (r - p) < 13 * d.need)
    <3> HIDE DEF r, p
    <3> QED BY <1>3, <2>4 DEF Short
  <2> HIDE DEF r, q, p, w
  <2>9. ~(10 * (q - w) < 10 * d.need) BY <2>1, <2>2, <2>3, <2>7, <2>8
  <2>10. ~Short(d, h + 1, end, 10) BY <2>6, <2>9 DEF Short
  <2> QED BY <1>1, <1>3, <2>10
<1>4. CASE ~Short(d, h, end, 10) /\ cushion > h
  <2>1. balance \in Int BY EdgeType
  <2> HIDE DEF balance, backup
  <2>2. edge(10) = IF backup <= balance THEN backup ELSE balance
    BY <1>1, <2>1, LesserOf DEF balance
  <2>3. ~(edge(10) <= h) BY <1>1, <1>4, <2>1, <2>2 DEF PriceHold, CdNone
  <2>4. backup > h /\ balance > h BY <1>1, <2>1, <2>2, <2>3
  <2>5. h + 1 + d.len <= end BY <1>1, <2>4 DEF backup
  <2>6. h + 1 \in h..end BY <1>1
  <2>7. h + 1 \notin broken
    <3>1. broken \subseteq Nat BY CdNumbers DEF CdHour
    <3>2. balance = IF broken = {} THEN end ELSE IF Min(broken) = h THEN h ELSE Min(broken) - 1
      BY DEF balance, EnergyEdge
    <3> HIDE DEF broken
    <3> SUFFICES ASSUME h + 1 \in broken PROVE FALSE OBVIOUS
    <3>3. Min(broken) \in Nat /\ Min(broken) <= h + 1 BY <3>1, LeastIsOne
    <3> QED BY <1>1, <2>4, <3>2, <3>3
  <2>8. ~Short(d, h + 1, end, 10) BY <2>6, <2>7
  <2> QED BY <2>5, <2>8
<1> QED BY <1>2, <1>3, <1>4

(* More sun, the same need. *)
LEMMA SunnierHolds ==
    ASSUME NEW d, CdReckoned(d), NEW e, CdReckoned(e), e.use = d.use, e.need = d.need, NEW h \in CdHour,
           e.rest[h] <= d.rest[h], NEW end \in Int, ~Short(e, h, end, 10)
    PROVE ~Short(d, h, end, 10)
<1> DEFINE w == d.use * (IF end > h THEN end - h ELSE 0)
<1>1. h \in Int /\ d.use \in Int /\ d.need \in Int /\ d.rest[h] \in Int /\ e.rest[h] \in Int
  BY CdNumbers DEF CdHour, CdReckoned
<1>2. w \in Int
  <2>1. (IF end > h THEN end - h ELSE 0) \in Int BY <1>1
  <2> QED BY <1>1, <2>1
<1>3. NetSolar(e, h, end) = e.rest[h] - w BY DEF NetSolar, Remaining
<1>4. NetSolar(d, h, end) = d.rest[h] - w BY DEF NetSolar, Remaining
<1> HIDE DEF w
<1>5. ~(10 * (e.rest[h] - w) < 10 * d.need) BY <1>3 DEF Short
<1>6. ~(10 * (d.rest[h] - w) < 10 * d.need) BY <1>1, <1>2, <1>5
<1> QED BY <1>4, <1>6 DEF Short

(* A judged hold after production began. *)
LEMMA HoldLeavesTime ==
    ASSUME NEW c \in CdManagers, NEW x, NEW d \in CdDays, NEW h \in CdHour, h + 1 \in CdHour,
           c.start # CdNone, c.start >= 1, c.start <= h, InTime(c, d, h), x.read # "gap",
           Holds(Decision(c, x, d, h))
    PROVE InTime(c, d, h + 1)
<1> DEFINE end == CdNoon - c.start
           e == Told(x, d)
<1>1. h \in Nat /\ c.start \in Nat /\ end \in Int /\ d.len \in Nat \ {0}
  <2>1. c.start \in CdHour /\ CdHour \subseteq Nat BY CdNumbers DEF CdManagers, CdHour
  <2>2. h \in Nat /\ c.start \in Nat BY <2>1
  <2>3. end \in Int BY <2>2, CdNumbers
  <2>4. d.len \in Nat \ {0} BY CdDayTypes
  <2> QED BY <2>2, <2>3, <2>4
<1>2. h < end BY <1>1 DEF InTime
<1>3. ~Provisional(x, d, h) BY <1>1 DEF Provisional
<1>4. ~CheapImportAhead(d, h, c.start) BY <1>1 DEF CheapImportAhead
<1>5. Judge(c, x, d, h) \in {"waiting", "delayed"}
  BY <1>3, <1>4 DEF Decision, Holds
<1>6. TEnd(c.start, h, x.charging) = end BY <1>1, <1>2 DEF TEnd
<1> HIDE DEF end
<1>7. Weigh(e, h, end) = "delayed"
  <2>1. Weigh(e, h, end) # "waiting" BY DEF Weigh
  <2> HIDE DEF e
  <2>2. Judge(c, x, d, h) # "past_t_end" BY <1>5
  <2>3. Judge(c, x, d, h) = Weigh(e, h, end)
    BY <1>5, <1>6 DEF Judge, e
  <2> QED BY <1>5, <2>1, <2>3
<1>8. /\ CdReckoned(e) /\ e.len = d.len /\ e.use = d.use /\ e.need = d.need
      /\ e.rest[h + 1] <= d.rest[h + 1]
  BY ToldIs
<1> HIDE DEF e
<1>9. ~Short(e, h + 1, end, 10) /\ h + 1 + e.len <= end BY <1>1, <1>2, <1>7, <1>8, WeighLeavesTime
<1>10. ~Short(d, h + 1, end, 10) BY <1>1, <1>8, <1>9, CdReckonings, SunnierHolds
<1> QED BY <1>8, <1>9, <1>10 DEF InTime, end

(* What a cycle says that holds, it has decided, and it releases nothing. *)
LEMMA HeldIs ==
    ASSUME NEW c \in CdManagers, NEW x, NEW d \in CdDays, NEW h \in CdHour,
           Holds(IsChargeDelayed(c, x, d, h).state)
    PROVE Holds(Decision(c, x, d, h))
BY DEF IsChargeDelayed, Holds

(* As long as a hold covers, it is of today and after the start of production, *)
(* the sun still covers the need, and does so in the next hour too once this     *)
(* one is judged.                                                               *)
CdHoldInv ==
    /\ cd.start # CdNone => cd.start >= 1
    /\ cdDisk.start # CdNone => cdDisk.start >= 1
    /\ cdCovers =>
         /\ cdUp /\ cd.enabled /\ ~cd.unlocked /\ cd.last = cdClock.day
         /\ cd.start # CdNone /\ cd.start <= cdClock.hour
         /\ InTime(cd, cdClock.kind, cdClock.hour)
         /\ cdClock.judged /\ cdClock.hour + 1 \in CdHour => InTime(cd, cdClock.kind, cdClock.hour + 1)

(* A hold that was on record keeps its start. *)
LEMMA CycleHolds ==
    ASSUME CdInv, CdHoldInv, NEW x, DelayCycle(x)
    PROVE /\ CdHoldInv'
          /\ cdCovers => cd'.start = cd.start
<1> DEFINE d == cdClock.kind
           h == cdClock.hour
           day == cdClock.day
           b == DailyReset(cd, day)
           c == DetectStart(b, d, h)
           r == IsChargeDelayed(c, x, d, h)
           n == [r.c EXCEPT !.blocks = SetpointBlocks(r.c, x)]
<1>1. /\ cdUp /\ cd' = n
      /\ cdClock' = [cdClock EXCEPT !.judged = x.read # "gap" \/ ~Holds(r.state)]
      /\ cdCovers' => /\ n.start # CdNone /\ n.start <= h /\ n.enabled /\ ~n.unlocked /\ Holds(r.state)
                      /\ cdCovers \/ InTime(n, d, h)
      /\ UNCHANGED <<cdDisk, cdUp>>
  BY DEF DelayCycle
<1>2. day \in 0..CdLastDay /\ h \in CdHour /\ d \in CdDays BY CdClockIs
<1>3. /\ b \in CdManagers /\ b.enabled = cd.enabled /\ b.start \in {cd.start, CdNone}
      /\ cd.enabled => b.last = day
  BY <1>2, ResetIs, CdTyped DEF CdInv
<1>4. /\ b.start # CdNone => b.start >= 1
      /\ cdCovers => b = cd
  <2>1. cdCovers => b = cd BY DEF CdHoldInv, DailyReset
  <2> HIDE DEF b
  <2> QED BY <1>3, <2>1 DEF CdHoldInv
<1> HIDE DEF b
<1>5. /\ c \in CdManagers /\ c.enabled = b.enabled /\ c.last = b.last
      /\ c.start # CdNone => c.start >= 1
      /\ cdCovers => c.start = cd.start
  <2>1. /\ c \in CdManagers /\ c.enabled = b.enabled /\ c.last = b.last
    BY <1>2, <1>3, DetectIs
  <2>2. c = b \/ (b.start = CdNone /\ h >= CdDawn /\ c = [b EXCEPT !.start = h]) BY DEF DetectStart
  <2> HIDE DEF c
  <2>3. CASE c = b BY <1>4, <2>1, <2>3 DEF CdHoldInv
  <2>4. CASE b.start = CdNone /\ h >= CdDawn /\ c = [b EXCEPT !.start = h]
    <3>1. c.start = h BY <1>3, <2>4 DEF CdManagers
    <3>2. CdDawn \in 1..(CdHours - 1) /\ CdHours \in Nat BY CdAssumption
    <3>3. h \in Int /\ h >= 1 BY <1>2, <2>4, <3>2 DEF CdHour
    <3>4. ~cdCovers BY <1>4, <2>4 DEF CdHoldInv
    <3> QED BY <2>1, <3>1, <3>3, <3>4
  <2> QED BY <2>2, <2>3, <2>4
<1> HIDE DEF c
<1>6. /\ r.c \in CdManagers /\ r.c.enabled = c.enabled /\ r.c.last = c.last /\ r.c.start = c.start
  <2>1. c \in CdManagers BY <1>5
  <2>2. /\ r.c \in CdManagers /\ r.state \in CdShown
        /\ r.c.enabled = c.enabled /\ r.c.last = c.last /\ r.c.start = c.start /\ r.c.blocks = c.blocks
        /\ c.unlocked => r.c.unlocked
        /\ ~c.enabled => r.c = c /\ r.state = "disabled"
        /\ r.state = "delayed" => Decision(c, x, d, h) = "delayed"
        /\ c.enabled /\ ~x.skip /\ ~r.c.unlocked /\ ~r.c.reached => ~Floor(c, x)
    BY <1>2, <2>1, JudgedIs
  <2> HIDE DEF r
  <2> QED BY <2>2
<1>7. Holds(r.state) => Holds(Decision(c, x, d, h)) BY <1>2, <1>5, HeldIs
<1> HIDE DEF r
<1> DEFINE left == SetpointBlocks(r.c, x)
<1>8. /\ n.enabled = cd.enabled /\ n.start = c.start /\ n.last = c.last
  <2>1. n = [r.c EXCEPT !.blocks = left] OBVIOUS
  <2> HIDE DEF n, left
  <2> QED BY <1>3, <1>5, <1>6, <2>1 DEF CdManagers
<1> HIDE DEF n
<1>9. /\ cdClock'.day = day /\ cdClock'.hour = h /\ cdClock'.kind = d
      /\ cdClock'.judged = (x.read # "gap" \/ ~Holds(r.state))
  <2>1. cdClock \in CdClocks BY CdTyped DEF CdInv
  <2> QED BY <1>1, <2>1 DEF CdClocks
<1>10. cdCovers => cd'.start = cd.start BY <1>1, <1>5, <1>8
<1>11. ASSUME cdCovers'
       PROVE /\ cd'.enabled /\ ~cd'.unlocked /\ cd'.last = day /\ cd'.start # CdNone /\ cd'.start <= h
             /\ InTime(cd', d, h)
             /\ cdClock'.judged /\ h + 1 \in CdHour => InTime(cd', d, h + 1)
  <2>1. /\ n.start # CdNone /\ n.start <= h /\ n.enabled /\ ~n.unlocked /\ Holds(r.state)
        /\ cdCovers \/ InTime(n, d, h)
    BY <1>1, <1>11
  <2>2. InTime(c, d, h)
    <3>1. CASE cdCovers BY <1>5, <3>1 DEF CdHoldInv, InTime
    <3>2. CASE InTime(n, d, h) BY <1>8, <3>2 DEF InTime
    <3> QED BY <2>1, <3>1, <3>2
  <2>3. InTime(cd', d, h) BY <1>1, <1>8, <2>2 DEF InTime
  <2>4. ASSUME cdClock'.judged, h + 1 \in CdHour PROVE InTime(cd', d, h + 1)
    <3>1. x.read # "gap" BY <1>9, <2>1, <2>4
    <3>2. InTime(c, d, h + 1) BY <1>2, <1>5, <1>7, <1>8, <2>1, <2>2, <2>4, <3>1, HoldLeavesTime
    <3> QED BY <1>1, <1>8, <3>2 DEF InTime
  <2> QED BY <1>1, <1>3, <1>5, <1>8, <2>1, <2>3, <2>4
<1>12. cd'.start # CdNone => cd'.start >= 1 BY <1>1, <1>5, <1>8
<1>13. CdHoldInv' BY <1>1, <1>9, <1>11, <1>12 DEF CdHoldInv
<1> QED BY <1>10, <1>13

LEMMA HourHolds ==
    ASSUME CdInv, CdHoldInv, HourPasses
    PROVE CdHoldInv'
<1>1. /\ cdUp => cdClock.judged
      /\ UNCHANGED <<cd, cdDisk, cdUp>>
  BY DEF HourPasses
<1>2. cdClock \in CdClocks BY CdTyped DEF CdInv
<1>3. CASE cdCovers' = FALSE BY <1>1, <1>3 DEF CdHoldInv
<1>4. CASE cdClock.hour < CdHours - 1 /\ cdClock' = [cdClock EXCEPT !.hour = @ + 1, !.judged = FALSE] /\ cdCovers' = cdCovers
  <2> DEFINE v == cdClock.hour + 1
  <2>1. v \in CdHour BY <1>4, CdClockIs, CdNumbers DEF CdHour
  <2>2. cdClock' = [cdClock EXCEPT !.hour = v, !.judged = FALSE] BY <1>4, Zenon
  <2> HIDE DEF v
  <2>3. cdClock' = [day |-> cdClock.day, hour |-> v, kind |-> cdClock.kind, judged |-> FALSE]
    BY <1>2, <2>2, HourOn, Zenon
  <2>4. cdClock'.day = cdClock.day /\ cdClock'.hour = v /\ cdClock'.kind = cdClock.kind /\ cdClock'.judged = FALSE
    BY <2>3
  <2>5. cdCovers => InTime(cd, cdClock.kind, v) BY <1>1, <2>1 DEF CdHoldInv, v
  <2>6. cdCovers => cd.start <= v
    <3>1. cd \in CdManagers BY CdTyped DEF CdInv
    <3>2. cdCovers => cd.start \in CdHour /\ cd.start <= cdClock.hour BY <3>1 DEF CdManagers, CdHoldInv
    <3>3. cdClock.hour \in Int /\ CdHour \subseteq Int BY CdClockIs, CdNumbers DEF CdHour
    <3>4. ASSUME cdCovers PROVE cd.start <= v
      <4>1. cd.start \in Int /\ cd.start <= cdClock.hour BY <3>2, <3>3, <3>4
      <4> QED BY <3>3, <4>1 DEF v
    <3> QED BY <3>4
  <2>7. cdCovers => cdUp /\ cd.enabled /\ ~cd.unlocked /\ cd.last = cdClock.day /\ cd.start # CdNone BY DEF CdHoldInv
  <2> QED BY <1>1, <1>4, <2>4, <2>5, <2>6, <2>7 DEF CdHoldInv, InTime
<1> QED BY <1>3, <1>4 DEF HourPasses

LEMMA SwitchKeeps ==
    ASSUME NEW c \in CdManagers
    PROVE [c EXCEPT !.enabled = TRUE, !.unlocked = FALSE, !.reached = FALSE, !.since = FALSE].start = c.start
<1>1. \A v2, v3, v4 :
        [c EXCEPT !.enabled = TRUE, !.unlocked = v2, !.reached = v3, !.since = v4]
        = [enabled |-> TRUE, unlocked |-> v2, reached |-> v3, start |-> c.start,
           last |-> c.last, since |-> v4, cache |-> c.cache, needs |-> c.needs, blocks |-> c.blocks]
  BY SwitchedOn, Zenon
<1>2. [c EXCEPT !.enabled = TRUE, !.unlocked = FALSE, !.reached = FALSE, !.since = FALSE]
      = [enabled |-> TRUE, unlocked |-> FALSE, reached |-> FALSE, start |-> c.start,
         last |-> c.last, since |-> FALSE, cache |-> c.cache, needs |-> c.needs, blocks |-> c.blocks]
  BY <1>1, Zenon
<1> QED BY <1>2

LEMMA OthersHold ==
    ASSUME CdInv, CdHoldInv, SaveLands \/ DelaySwitch \/ DelaySetUp \/ (\E flushes \in BOOLEAN : DelayStop(flushes))
    PROVE CdHoldInv' /\ (cdCovers => cd'.start = cd.start \/ ~cd'.unlocked)
<1>0. cd \in CdManagers /\ cdClock \in CdClocks BY CdTyped DEF CdInv
<1>1. CASE SaveLands
  <2>1. cdDisk'.start = cd.start BY <1>1 DEF SaveLands, DelayKept
  <2>2. UNCHANGED <<cd, cdClock, cdUp, cdCovers>> BY <1>1 DEF SaveLands
  <2> QED BY <2>1, <2>2 DEF CdHoldInv, InTime
<1>2. CASE DelaySwitch
  <2>1. /\ cd' = IF cd.enabled THEN [cd EXCEPT !.enabled = FALSE]
               ELSE [cd EXCEPT !.enabled = TRUE, !.unlocked = FALSE, !.reached = FALSE, !.since = FALSE]
        /\ cdCovers' = FALSE /\ cdDisk' = cdDisk
    BY <1>2 DEF DelaySwitch
  <2>2. cd'.start = cd.start
    <3>1. CASE cd.enabled
      <4>1. cd' = [cd EXCEPT !.enabled = FALSE] BY <2>1, <3>1
      <4> QED BY <1>0, <4>1 DEF CdManagers
    <3>2. CASE ~cd.enabled
      <4>1. cd' = [cd EXCEPT !.enabled = TRUE, !.unlocked = FALSE, !.reached = FALSE, !.since = FALSE]
        BY <2>1, <3>2, Zenon
      <4> QED BY <1>0, <4>1, SwitchKeeps
    <3> QED BY <3>1, <3>2
  <2> QED BY <2>1, <2>2 DEF CdHoldInv
<1>3. CASE DelaySetUp
  <2>1. /\ ~cdUp /\ cd' = Restored(Loaded(cd)) /\ UNCHANGED <<cdDisk, cdCovers>> BY <1>3 DEF DelaySetUp
  <2>2. cd'.start \in {cd.start, cdDisk.start} BY <2>1, RestoredLatch
  <2> QED BY <2>1, <2>2 DEF CdHoldInv
<1>4. ASSUME NEW flushes \in BOOLEAN, DelayStop(flushes)
      PROVE CdHoldInv' /\ (cdCovers => cd'.start = cd.start \/ ~cd'.unlocked)
  <2>1. /\ cdDisk' = IF flushes /\ cd.enabled THEN DelayKept(cd, cdClock.day) ELSE cdDisk
        /\ cd' = [CdFresh EXCEPT !.enabled = cd.enabled]
        /\ cdCovers' = FALSE
    BY <1>4 DEF DelayStop
  <2>2. cd'.start = CdNone /\ ~cd'.unlocked BY <2>1 DEF CdFresh
  <2>3. cdDisk'.start \in {cd.start, cdDisk.start} BY <2>1 DEF DelayKept
  <2> QED BY <2>1, <2>2, <2>3 DEF CdHoldInv
<1> QED BY <1>1, <1>2, <1>3, <1>4

(* Holding for a cheaper hour costs nothing but time: a charge that is held from *)
(* when the sun was seen to cover its need is released while the sun still does   *)
(* and the charge still fits; for every day, margin, price and set of batteries   *)
(* whose hours lose no more than the cushion (control/charge_delay.py).           *)
LEMMA HoldCorrect == CdSpec => HoldKeepsTarget
<1>1. CdInit => CdInv /\ CdHoldInv
  <2>1. CdInit => CdHoldInv BY DEF CdInit, CdHoldInv, CdFresh
  <2> QED BY <2>1, CdStarts
<1>2. CdInv /\ CdHoldInv /\ [CdNext]_cdVars => CdHoldInv'
  <2> SUFFICES ASSUME CdInv, CdHoldInv, [CdNext]_cdVars PROVE CdHoldInv' OBVIOUS
  <2>1. CASE UNCHANGED cdVars BY <2>1 DEF cdVars, CdHoldInv, InTime
  <2>2. CASE \E x \in CdSeen : DelayCycle(x) BY <2>2, CycleHolds
  <2> QED BY <2>1, <2>2, HourHolds, OthersHold DEF CdNext
<1>3. CdInv /\ CdHoldInv /\ [CdNext]_cdVars
      => [cdCovers /\ cd'.unlocked /\ ~cd.unlocked => InTime(cd', cdClock.kind, cdClock.hour)]_cdVars
  <2> SUFFICES ASSUME CdInv, CdHoldInv, CdNext, cdCovers, cd'.unlocked, ~cd.unlocked
               PROVE InTime(cd', cdClock.kind, cdClock.hour)
    OBVIOUS
  <2>1. cd'.start = cd.start
    <3>1. CASE \E x \in CdSeen : DelayCycle(x) BY <3>1, CycleHolds
    <3>2. CASE HourPasses BY <3>2 DEF HourPasses
    <3> QED BY <3>1, <3>2, OthersHold DEF CdNext
  <2>2. InTime(cd, cdClock.kind, cdClock.hour) BY DEF CdHoldInv
  <2> QED BY <2>1, <2>2 DEF InTime
<1> QED BY <1>1, <1>2, <1>3, CdSteps, PTL DEF CdSpec, HoldKeepsTarget


-----------------------------------------------------------------------------
(* The last stretch of a charge.                                            *)
(* A battery's entries, as a set of their own.                               *)
TcStates ==
    [cut: 0..TcConfirm, streak: 0..TcConfirm, taper: BOOLEAN,
     over: BOOLEAN, count: 0..TcConfirm, latched: BOOLEAN,
     high: BOOLEAN, run: 0..TcConfirm, pending: BOOLEAN,
     active: BOOLEAN, accepted: 0..TcConfirm, owned: BOOLEAN,
     meas: {"none", "pending", "done"},
     phase: {"none", "wait", "measured"}, wait: 0..TcWait]

(* Single packs: the recalibration's own count has seen every refusal since    *)
(* the last acceptance while it may still charge; it asks for charge only       *)
(* before its latch, or in the retry, which is opened once per latch.            *)
RecalSound(t, seen, tries) ==
    /\ t.count < TcConfirm
    /\ t.active \/ ~t.latched => seen <= t.count
    /\ t.over => t.active \/ ~t.latched
    /\ t.pending => t.latched /\ ~t.active /\ tries = 0
    /\ t.active => t.latched
    /\ ~t.latched => tries = 0
    /\ tries <= 1
(* Coupled packs: a retry that was opened goes on or has come to a cutoff.     *)
CutoffSound(t, tries) ==
    /\ tries >= 1 => t.active \/ t.meas # "none"
    /\ t.pending => ~t.active /\ t.meas = "none"
    /\ tries <= 1
TcInv ==
    /\ tc \in TcStates /\ tcKind \in {"single", "coupled"}
    /\ tcSeen \in 0..TcConfirm /\ tcTries \in 0..2
    /\ tcKind = "single" => RecalSound(tc, tcSeen, tcTries)
    /\ tcKind = "coupled" => CutoffSound(tc, tcTries)
    /\ HoldOrRetry

LEMMA TcNumbers == TcConfirm \in Nat \ {0} /\ TcWait \in Nat
BY TcAssumption

LEMMA AtMostType == \A n \in Nat : AtMost(n) \in 0..TcConfirm /\ (n <= TcConfirm => AtMost(n) = n)
BY TcNumbers DEF AtMost

-----------------------------------------------------------------------------
(* The updates of several entries, by name, and what each of them gives.     *)
Taken(t) == [t EXCEPT !.accepted = 0, !.active = FALSE, !.cut = 0]
Accepts(t) == [t EXCEPT !.accepted = t.accepted + 1]
NotTaken(t) == [t EXCEPT !.accepted = 0]
CutReset(t) == [t EXCEPT !.cut = 0, !.streak = 0]
CutCounts(t) == [t EXCEPT !.streak = 0, !.cut = AtMost(t.cut + 1)]
Streaks(t) == [t EXCEPT !.streak = t.streak + 1]
CutGivenUp(t) == [t EXCEPT !.streak = 0, !.cut = 0]
NotPending(t) == [t EXCEPT !.pending = FALSE]
Waiting(t) == [t EXCEPT !.pending = TRUE]
Asks(t) == [t EXCEPT !.over = TRUE]
AsksNot(t) == [t EXCEPT !.over = FALSE]
Running(t, n) == [t EXCEPT !.run = n]
Ended(t) == [t EXCEPT !.active = FALSE, !.count = 0, !.over = FALSE]
Refused(t) == [t EXCEPT !.count = t.count + 1, !.over = TRUE]
CountsAnew(t) == [t EXCEPT !.count = 0]
Full(t) == [t EXCEPT !.count = 0, !.high = FALSE, !.over = FALSE]
FirstRefused(t, h) == [t EXCEPT !.count = t.count + 1, !.high = h, !.over = TRUE]
Latches(t, h) == [t EXCEPT !.count = 0, !.high = h, !.latched = TRUE, !.pending = h, !.over = FALSE]
Rearmed(t) == [t EXCEPT !.count = 0, !.high = FALSE]
Dropped(t) == [t EXCEPT !.pending = FALSE, !.over = FALSE]
TcOpened(t) == [t EXCEPT !.pending = FALSE, !.active = TRUE, !.count = 0]
Tapers(t, h) == [t EXCEPT !.taper = h]
Unowned(t) == [t EXCEPT !.owned = FALSE, !.meas = "none"]
CutsOff(t) == [t EXCEPT !.owned = FALSE, !.meas = "pending"]
TcOwned(t, h) == [t EXCEPT !.owned = h]
NotOwned(t) == [t EXCEPT !.owned = FALSE]
Measures(t, m) == [t EXCEPT !.meas = m]
Waits(t) == [t EXCEPT !.phase = "wait"]
WaitsOn(t) == [t EXCEPT !.wait = t.wait + 1]
Measured(t, m) == [t EXCEPT !.phase = "measured", !.wait = 0, !.meas = m]
Untapered(t) == [t EXCEPT !.taper = FALSE]
Restarted(t, n) == [t EXCEPT !.phase = "none", !.wait = 0, !.run = n]
Morning(t) == [t EXCEPT !.taper = FALSE, !.phase = "none", !.wait = 0]
HandedOver(t) == [t EXCEPT !.cut = 0, !.meas = "none", !.owned = FALSE]
Blind(t) == [t EXCEPT !.cut = 0, !.taper = FALSE, !.owned = FALSE, !.meas = "none", !.over = FALSE]
Leaves(t, n, k) == [t EXCEPT !.cut = n, !.streak = k]

LEMMA TakenIs == \A t \in TcStates :
    /\ Taken(t)
       = [cut |-> 0, streak |-> t.streak, taper |-> t.taper, over |-> t.over, count |-> t.count,
          latched |-> t.latched, high |-> t.high, run |-> t.run, pending |-> t.pending, active |-> FALSE,
          accepted |-> 0, owned |-> t.owned, meas |-> t.meas, phase |-> t.phase, wait |-> t.wait]
    /\ Taken(t) \in TcStates
<1> TAKE t \in TcStates
<1> DEFINE q1 == [t EXCEPT !.accepted = 0]
           q2 == [q1 EXCEPT !.active = FALSE]
           q3 == [q2 EXCEPT !.cut = 0]
<1>1. Taken(t) = q3 BY Zenon DEF Taken
<1>2. q1 = [t EXCEPT !.accepted = 0]
      /\ q2 = [q1 EXCEPT !.active = FALSE]
      /\ q3 = [q2 EXCEPT !.cut = 0]
  OBVIOUS
<1> HIDE DEF q1, q2, q3
<1>3. Taken(t) = [cut |-> 0, streak |-> t.streak, taper |-> t.taper, over |-> t.over, count |-> t.count,
        latched |-> t.latched, high |-> t.high, run |-> t.run, pending |-> t.pending, active |-> FALSE,
        accepted |-> 0, owned |-> t.owned, meas |-> t.meas, phase |-> t.phase, wait |-> t.wait]
  BY <1>1, <1>2 DEF TcStates
<1> QED BY <1>3, TcNumbers, AtMostType DEF TcStates

LEMMA AcceptsIs == \A t \in TcStates :
    /\ Accepts(t)
       = [cut |-> t.cut, streak |-> t.streak, taper |-> t.taper, over |-> t.over, count |-> t.count,
          latched |-> t.latched, high |-> t.high, run |-> t.run, pending |-> t.pending, active |-> t.active,
          accepted |-> t.accepted + 1, owned |-> t.owned, meas |-> t.meas, phase |-> t.phase, wait |-> t.wait]
    /\ (t.accepted + 1 < TcConfirm => Accepts(t) \in TcStates)
<1> TAKE t \in TcStates
<1>1. Accepts(t) = [t EXCEPT !.accepted = t.accepted + 1] BY Zenon DEF Accepts
<1>2. Accepts(t) = [cut |-> t.cut, streak |-> t.streak, taper |-> t.taper, over |-> t.over, count |-> t.count,
        latched |-> t.latched, high |-> t.high, run |-> t.run, pending |-> t.pending, active |-> t.active,
        accepted |-> t.accepted + 1, owned |-> t.owned, meas |-> t.meas, phase |-> t.phase, wait |-> t.wait]
  BY <1>1 DEF TcStates
<1> QED BY <1>2, TcNumbers, AtMostType DEF TcStates

LEMMA NotTakenIs == \A t \in TcStates :
    /\ NotTaken(t)
       = [cut |-> t.cut, streak |-> t.streak, taper |-> t.taper, over |-> t.over, count |-> t.count,
          latched |-> t.latched, high |-> t.high, run |-> t.run, pending |-> t.pending, active |-> t.active,
          accepted |-> 0, owned |-> t.owned, meas |-> t.meas, phase |-> t.phase, wait |-> t.wait]
    /\ NotTaken(t) \in TcStates
<1> TAKE t \in TcStates
<1>1. NotTaken(t) = [t EXCEPT !.accepted = 0] BY Zenon DEF NotTaken
<1>2. NotTaken(t) = [cut |-> t.cut, streak |-> t.streak, taper |-> t.taper, over |-> t.over, count |-> t.count,
        latched |-> t.latched, high |-> t.high, run |-> t.run, pending |-> t.pending, active |-> t.active,
        accepted |-> 0, owned |-> t.owned, meas |-> t.meas, phase |-> t.phase, wait |-> t.wait]
  BY <1>1 DEF TcStates
<1> QED BY <1>2, TcNumbers, AtMostType DEF TcStates

LEMMA CutResetIs == \A t \in TcStates :
    /\ CutReset(t)
       = [cut |-> 0, streak |-> 0, taper |-> t.taper, over |-> t.over, count |-> t.count,
          latched |-> t.latched, high |-> t.high, run |-> t.run, pending |-> t.pending, active |-> t.active,
          accepted |-> t.accepted, owned |-> t.owned, meas |-> t.meas, phase |-> t.phase, wait |-> t.wait]
    /\ CutReset(t) \in TcStates
<1> TAKE t \in TcStates
<1> DEFINE q1 == [t EXCEPT !.cut = 0]
           q2 == [q1 EXCEPT !.streak = 0]
<1>1. CutReset(t) = q2 BY Zenon DEF CutReset
<1>2. q1 = [t EXCEPT !.cut = 0]
      /\ q2 = [q1 EXCEPT !.streak = 0]
  OBVIOUS
<1> HIDE DEF q1, q2
<1>3. CutReset(t) = [cut |-> 0, streak |-> 0, taper |-> t.taper, over |-> t.over, count |-> t.count,
        latched |-> t.latched, high |-> t.high, run |-> t.run, pending |-> t.pending, active |-> t.active,
        accepted |-> t.accepted, owned |-> t.owned, meas |-> t.meas, phase |-> t.phase, wait |-> t.wait]
  BY <1>1, <1>2 DEF TcStates
<1> QED BY <1>3, TcNumbers, AtMostType DEF TcStates

LEMMA CutCountsIs == \A t \in TcStates :
    /\ CutCounts(t)
       = [cut |-> AtMost(t.cut + 1), streak |-> 0, taper |-> t.taper, over |-> t.over, count |-> t.count,
          latched |-> t.latched, high |-> t.high, run |-> t.run, pending |-> t.pending, active |-> t.active,
          accepted |-> t.accepted, owned |-> t.owned, meas |-> t.meas, phase |-> t.phase, wait |-> t.wait]
    /\ CutCounts(t) \in TcStates
<1> TAKE t \in TcStates
<1> DEFINE q1 == [t EXCEPT !.streak = 0]
           q2 == [q1 EXCEPT !.cut = AtMost(t.cut + 1)]
<1>1. CutCounts(t) = q2 BY Zenon DEF CutCounts
<1>2. q1 = [t EXCEPT !.streak = 0]
      /\ q2 = [q1 EXCEPT !.cut = AtMost(t.cut + 1)]
  OBVIOUS
<1> HIDE DEF q1, q2
<1>3. CutCounts(t) = [cut |-> AtMost(t.cut + 1), streak |-> 0, taper |-> t.taper, over |-> t.over, count |-> t.count,
        latched |-> t.latched, high |-> t.high, run |-> t.run, pending |-> t.pending, active |-> t.active,
        accepted |-> t.accepted, owned |-> t.owned, meas |-> t.meas, phase |-> t.phase, wait |-> t.wait]
  BY <1>1, <1>2 DEF TcStates
<1> QED BY <1>3, TcNumbers, AtMostType DEF TcStates

LEMMA StreaksIs == \A t \in TcStates :
    /\ Streaks(t)
       = [cut |-> t.cut, streak |-> t.streak + 1, taper |-> t.taper, over |-> t.over, count |-> t.count,
          latched |-> t.latched, high |-> t.high, run |-> t.run, pending |-> t.pending, active |-> t.active,
          accepted |-> t.accepted, owned |-> t.owned, meas |-> t.meas, phase |-> t.phase, wait |-> t.wait]
    /\ (t.streak + 1 < TcConfirm => Streaks(t) \in TcStates)
<1> TAKE t \in TcStates
<1>1. Streaks(t) = [t EXCEPT !.streak = t.streak + 1] BY Zenon DEF Streaks
<1>2. Streaks(t) = [cut |-> t.cut, streak |-> t.streak + 1, taper |-> t.taper, over |-> t.over, count |-> t.count,
        latched |-> t.latched, high |-> t.high, run |-> t.run, pending |-> t.pending, active |-> t.active,
        accepted |-> t.accepted, owned |-> t.owned, meas |-> t.meas, phase |-> t.phase, wait |-> t.wait]
  BY <1>1 DEF TcStates
<1> QED BY <1>2, TcNumbers, AtMostType DEF TcStates

LEMMA CutGivenUpIs == \A t \in TcStates :
    /\ CutGivenUp(t)
       = [cut |-> 0, streak |-> 0, taper |-> t.taper, over |-> t.over, count |-> t.count,
          latched |-> t.latched, high |-> t.high, run |-> t.run, pending |-> t.pending, active |-> t.active,
          accepted |-> t.accepted, owned |-> t.owned, meas |-> t.meas, phase |-> t.phase, wait |-> t.wait]
    /\ CutGivenUp(t) \in TcStates
<1> TAKE t \in TcStates
<1> DEFINE q1 == [t EXCEPT !.streak = 0]
           q2 == [q1 EXCEPT !.cut = 0]
<1>1. CutGivenUp(t) = q2 BY Zenon DEF CutGivenUp
<1>2. q1 = [t EXCEPT !.streak = 0]
      /\ q2 = [q1 EXCEPT !.cut = 0]
  OBVIOUS
<1> HIDE DEF q1, q2
<1>3. CutGivenUp(t) = [cut |-> 0, streak |-> 0, taper |-> t.taper, over |-> t.over, count |-> t.count,
        latched |-> t.latched, high |-> t.high, run |-> t.run, pending |-> t.pending, active |-> t.active,
        accepted |-> t.accepted, owned |-> t.owned, meas |-> t.meas, phase |-> t.phase, wait |-> t.wait]
  BY <1>1, <1>2 DEF TcStates
<1> QED BY <1>3, TcNumbers, AtMostType DEF TcStates

LEMMA DropRetryIs == \A t \in TcStates :
    /\ DropRetry(t)
       = [cut |-> t.cut, streak |-> t.streak, taper |-> t.taper, over |-> t.over, count |-> t.count,
          latched |-> t.latched, high |-> t.high, run |-> t.run, pending |-> FALSE, active |-> FALSE,
          accepted |-> 0, owned |-> t.owned, meas |-> t.meas, phase |-> t.phase, wait |-> t.wait]
    /\ DropRetry(t) \in TcStates
<1> TAKE t \in TcStates
<1> DEFINE q1 == [t EXCEPT !.pending = FALSE]
           q2 == [q1 EXCEPT !.active = FALSE]
           q3 == [q2 EXCEPT !.accepted = 0]
<1>1. DropRetry(t) = q3 BY Zenon DEF DropRetry
<1>2. q1 = [t EXCEPT !.pending = FALSE]
      /\ q2 = [q1 EXCEPT !.active = FALSE]
      /\ q3 = [q2 EXCEPT !.accepted = 0]
  OBVIOUS
<1> HIDE DEF q1, q2, q3
<1>3. DropRetry(t) = [cut |-> t.cut, streak |-> t.streak, taper |-> t.taper, over |-> t.over, count |-> t.count,
        latched |-> t.latched, high |-> t.high, run |-> t.run, pending |-> FALSE, active |-> FALSE,
        accepted |-> 0, owned |-> t.owned, meas |-> t.meas, phase |-> t.phase, wait |-> t.wait]
  BY <1>1, <1>2 DEF TcStates
<1> QED BY <1>3, TcNumbers, AtMostType DEF TcStates

LEMMA OpenRetryIs == \A t \in TcStates :
    /\ OpenRetry(t)
       = [cut |-> 0, streak |-> t.streak, taper |-> t.taper, over |-> t.over, count |-> t.count,
          latched |-> t.latched, high |-> t.high, run |-> t.run, pending |-> FALSE, active |-> TRUE,
          accepted |-> t.accepted, owned |-> t.owned, meas |-> t.meas, phase |-> t.phase, wait |-> t.wait]
    /\ OpenRetry(t) \in TcStates
<1> TAKE t \in TcStates
<1> DEFINE q1 == [t EXCEPT !.pending = FALSE]
           q2 == [q1 EXCEPT !.active = TRUE]
           q3 == [q2 EXCEPT !.cut = 0]
<1>1. OpenRetry(t) = q3 BY Zenon DEF OpenRetry
<1>2. q1 = [t EXCEPT !.pending = FALSE]
      /\ q2 = [q1 EXCEPT !.active = TRUE]
      /\ q3 = [q2 EXCEPT !.cut = 0]
  OBVIOUS
<1> HIDE DEF q1, q2, q3
<1>3. OpenRetry(t) = [cut |-> 0, streak |-> t.streak, taper |-> t.taper, over |-> t.over, count |-> t.count,
        latched |-> t.latched, high |-> t.high, run |-> t.run, pending |-> FALSE, active |-> TRUE,
        accepted |-> t.accepted, owned |-> t.owned, meas |-> t.meas, phase |-> t.phase, wait |-> t.wait]
  BY <1>1, <1>2 DEF TcStates
<1> QED BY <1>3, TcNumbers, AtMostType DEF TcStates

LEMMA NotPendingIs == \A t \in TcStates :
    /\ NotPending(t)
       = [cut |-> t.cut, streak |-> t.streak, taper |-> t.taper, over |-> t.over, count |-> t.count,
          latched |-> t.latched, high |-> t.high, run |-> t.run, pending |-> FALSE, active |-> t.active,
          accepted |-> t.accepted, owned |-> t.owned, meas |-> t.meas, phase |-> t.phase, wait |-> t.wait]
    /\ NotPending(t) \in TcStates
<1> TAKE t \in TcStates
<1>1. NotPending(t) = [t EXCEPT !.pending = FALSE] BY Zenon DEF NotPending
<1>2. NotPending(t) = [cut |-> t.cut, streak |-> t.streak, taper |-> t.taper, over |-> t.over, count |-> t.count,
        latched |-> t.latched, high |-> t.high, run |-> t.run, pending |-> FALSE, active |-> t.active,
        accepted |-> t.accepted, owned |-> t.owned, meas |-> t.meas, phase |-> t.phase, wait |-> t.wait]
  BY <1>1 DEF TcStates
<1> QED BY <1>2, TcNumbers, AtMostType DEF TcStates

LEMMA WaitingIs == \A t \in TcStates :
    /\ Waiting(t)
       = [cut |-> t.cut, streak |-> t.streak, taper |-> t.taper, over |-> t.over, count |-> t.count,
          latched |-> t.latched, high |-> t.high, run |-> t.run, pending |-> TRUE, active |-> t.active,
          accepted |-> t.accepted, owned |-> t.owned, meas |-> t.meas, phase |-> t.phase, wait |-> t.wait]
    /\ Waiting(t) \in TcStates
<1> TAKE t \in TcStates
<1>1. Waiting(t) = [t EXCEPT !.pending = TRUE] BY Zenon DEF Waiting
<1>2. Waiting(t) = [cut |-> t.cut, streak |-> t.streak, taper |-> t.taper, over |-> t.over, count |-> t.count,
        latched |-> t.latched, high |-> t.high, run |-> t.run, pending |-> TRUE, active |-> t.active,
        accepted |-> t.accepted, owned |-> t.owned, meas |-> t.meas, phase |-> t.phase, wait |-> t.wait]
  BY <1>1 DEF TcStates
<1> QED BY <1>2, TcNumbers, AtMostType DEF TcStates

LEMMA AsksIs == \A t \in TcStates :
    /\ Asks(t)
       = [cut |-> t.cut, streak |-> t.streak, taper |-> t.taper, over |-> TRUE, count |-> t.count,
          latched |-> t.latched, high |-> t.high, run |-> t.run, pending |-> t.pending, active |-> t.active,
          accepted |-> t.accepted, owned |-> t.owned, meas |-> t.meas, phase |-> t.phase, wait |-> t.wait]
    /\ Asks(t) \in TcStates
<1> TAKE t \in TcStates
<1>1. Asks(t) = [t EXCEPT !.over = TRUE] BY Zenon DEF Asks
<1>2. Asks(t) = [cut |-> t.cut, streak |-> t.streak, taper |-> t.taper, over |-> TRUE, count |-> t.count,
        latched |-> t.latched, high |-> t.high, run |-> t.run, pending |-> t.pending, active |-> t.active,
        accepted |-> t.accepted, owned |-> t.owned, meas |-> t.meas, phase |-> t.phase, wait |-> t.wait]
  BY <1>1 DEF TcStates
<1> QED BY <1>2, TcNumbers, AtMostType DEF TcStates

LEMMA AsksNotIs == \A t \in TcStates :
    /\ AsksNot(t)
       = [cut |-> t.cut, streak |-> t.streak, taper |-> t.taper, over |-> FALSE, count |-> t.count,
          latched |-> t.latched, high |-> t.high, run |-> t.run, pending |-> t.pending, active |-> t.active,
          accepted |-> t.accepted, owned |-> t.owned, meas |-> t.meas, phase |-> t.phase, wait |-> t.wait]
    /\ AsksNot(t) \in TcStates
<1> TAKE t \in TcStates
<1>1. AsksNot(t) = [t EXCEPT !.over = FALSE] BY Zenon DEF AsksNot
<1>2. AsksNot(t) = [cut |-> t.cut, streak |-> t.streak, taper |-> t.taper, over |-> FALSE, count |-> t.count,
        latched |-> t.latched, high |-> t.high, run |-> t.run, pending |-> t.pending, active |-> t.active,
        accepted |-> t.accepted, owned |-> t.owned, meas |-> t.meas, phase |-> t.phase, wait |-> t.wait]
  BY <1>1 DEF TcStates
<1> QED BY <1>2, TcNumbers, AtMostType DEF TcStates

LEMMA RunningIs == \A t \in TcStates, n \in 0..TcConfirm :
    /\ Running(t, n)
       = [cut |-> t.cut, streak |-> t.streak, taper |-> t.taper, over |-> t.over, count |-> t.count,
          latched |-> t.latched, high |-> t.high, run |-> n, pending |-> t.pending, active |-> t.active,
          accepted |-> t.accepted, owned |-> t.owned, meas |-> t.meas, phase |-> t.phase, wait |-> t.wait]
    /\ Running(t, n) \in TcStates
<1> TAKE t \in TcStates, n \in 0..TcConfirm
<1>1. Running(t, n) = [t EXCEPT !.run = n] BY Zenon DEF Running
<1>2. Running(t, n) = [cut |-> t.cut, streak |-> t.streak, taper |-> t.taper, over |-> t.over, count |-> t.count,
        latched |-> t.latched, high |-> t.high, run |-> n, pending |-> t.pending, active |-> t.active,
        accepted |-> t.accepted, owned |-> t.owned, meas |-> t.meas, phase |-> t.phase, wait |-> t.wait]
  BY <1>1 DEF TcStates
<1> QED BY <1>2, TcNumbers, AtMostType DEF TcStates

LEMMA EndedIs == \A t \in TcStates :
    /\ Ended(t)
       = [cut |-> t.cut, streak |-> t.streak, taper |-> t.taper, over |-> FALSE, count |-> 0,
          latched |-> t.latched, high |-> t.high, run |-> t.run, pending |-> t.pending, active |-> FALSE,
          accepted |-> t.accepted, owned |-> t.owned, meas |-> t.meas, phase |-> t.phase, wait |-> t.wait]
    /\ Ended(t) \in TcStates
<1> TAKE t \in TcStates
<1> DEFINE q1 == [t EXCEPT !.active = FALSE]
           q2 == [q1 EXCEPT !.count = 0]
           q3 == [q2 EXCEPT !.over = FALSE]
<1>1. Ended(t) = q3 BY Zenon DEF Ended
<1>2. q1 = [t EXCEPT !.active = FALSE]
      /\ q2 = [q1 EXCEPT !.count = 0]
      /\ q3 = [q2 EXCEPT !.over = FALSE]
  OBVIOUS
<1> HIDE DEF q1, q2, q3
<1>3. Ended(t) = [cut |-> t.cut, streak |-> t.streak, taper |-> t.taper, over |-> FALSE, count |-> 0,
        latched |-> t.latched, high |-> t.high, run |-> t.run, pending |-> t.pending, active |-> FALSE,
        accepted |-> t.accepted, owned |-> t.owned, meas |-> t.meas, phase |-> t.phase, wait |-> t.wait]
  BY <1>1, <1>2 DEF TcStates
<1> QED BY <1>3, TcNumbers, AtMostType DEF TcStates

LEMMA RefusedIs == \A t \in TcStates :
    /\ Refused(t)
       = [cut |-> t.cut, streak |-> t.streak, taper |-> t.taper, over |-> TRUE, count |-> t.count + 1,
          latched |-> t.latched, high |-> t.high, run |-> t.run, pending |-> t.pending, active |-> t.active,
          accepted |-> t.accepted, owned |-> t.owned, meas |-> t.meas, phase |-> t.phase, wait |-> t.wait]
    /\ (t.count + 1 < TcConfirm => Refused(t) \in TcStates)
<1> TAKE t \in TcStates
<1> DEFINE q1 == [t EXCEPT !.count = t.count + 1]
           q2 == [q1 EXCEPT !.over = TRUE]
<1>1. Refused(t) = q2 BY Zenon DEF Refused
<1>2. q1 = [t EXCEPT !.count = t.count + 1]
      /\ q2 = [q1 EXCEPT !.over = TRUE]
  OBVIOUS
<1> HIDE DEF q1, q2
<1>3. Refused(t) = [cut |-> t.cut, streak |-> t.streak, taper |-> t.taper, over |-> TRUE, count |-> t.count + 1,
        latched |-> t.latched, high |-> t.high, run |-> t.run, pending |-> t.pending, active |-> t.active,
        accepted |-> t.accepted, owned |-> t.owned, meas |-> t.meas, phase |-> t.phase, wait |-> t.wait]
  BY <1>1, <1>2 DEF TcStates
<1> QED BY <1>3, TcNumbers, AtMostType DEF TcStates

LEMMA CountsAnewIs == \A t \in TcStates :
    /\ CountsAnew(t)
       = [cut |-> t.cut, streak |-> t.streak, taper |-> t.taper, over |-> t.over, count |-> 0,
          latched |-> t.latched, high |-> t.high, run |-> t.run, pending |-> t.pending, active |-> t.active,
          accepted |-> t.accepted, owned |-> t.owned, meas |-> t.meas, phase |-> t.phase, wait |-> t.wait]
    /\ CountsAnew(t) \in TcStates
<1> TAKE t \in TcStates
<1>1. CountsAnew(t) = [t EXCEPT !.count = 0] BY Zenon DEF CountsAnew
<1>2. CountsAnew(t) = [cut |-> t.cut, streak |-> t.streak, taper |-> t.taper, over |-> t.over, count |-> 0,
        latched |-> t.latched, high |-> t.high, run |-> t.run, pending |-> t.pending, active |-> t.active,
        accepted |-> t.accepted, owned |-> t.owned, meas |-> t.meas, phase |-> t.phase, wait |-> t.wait]
  BY <1>1 DEF TcStates
<1> QED BY <1>2, TcNumbers, AtMostType DEF TcStates

LEMMA FullIs == \A t \in TcStates :
    /\ Full(t)
       = [cut |-> t.cut, streak |-> t.streak, taper |-> t.taper, over |-> FALSE, count |-> 0,
          latched |-> t.latched, high |-> FALSE, run |-> t.run, pending |-> t.pending, active |-> t.active,
          accepted |-> t.accepted, owned |-> t.owned, meas |-> t.meas, phase |-> t.phase, wait |-> t.wait]
    /\ Full(t) \in TcStates
<1> TAKE t \in TcStates
<1> DEFINE q1 == [t EXCEPT !.count = 0]
           q2 == [q1 EXCEPT !.high = FALSE]
           q3 == [q2 EXCEPT !.over = FALSE]
<1>1. Full(t) = q3 BY Zenon DEF Full
<1>2. q1 = [t EXCEPT !.count = 0]
      /\ q2 = [q1 EXCEPT !.high = FALSE]
      /\ q3 = [q2 EXCEPT !.over = FALSE]
  OBVIOUS
<1> HIDE DEF q1, q2, q3
<1>3. Full(t) = [cut |-> t.cut, streak |-> t.streak, taper |-> t.taper, over |-> FALSE, count |-> 0,
        latched |-> t.latched, high |-> FALSE, run |-> t.run, pending |-> t.pending, active |-> t.active,
        accepted |-> t.accepted, owned |-> t.owned, meas |-> t.meas, phase |-> t.phase, wait |-> t.wait]
  BY <1>1, <1>2 DEF TcStates
<1> QED BY <1>3, TcNumbers, AtMostType DEF TcStates

LEMMA FirstRefusedIs == \A t \in TcStates, h \in BOOLEAN :
    /\ FirstRefused(t, h)
       = [cut |-> t.cut, streak |-> t.streak, taper |-> t.taper, over |-> TRUE, count |-> t.count + 1,
          latched |-> t.latched, high |-> h, run |-> t.run, pending |-> t.pending, active |-> t.active,
          accepted |-> t.accepted, owned |-> t.owned, meas |-> t.meas, phase |-> t.phase, wait |-> t.wait]
    /\ (t.count + 1 < TcConfirm => FirstRefused(t, h) \in TcStates)
<1> TAKE t \in TcStates, h \in BOOLEAN
<1> DEFINE q1 == [t EXCEPT !.count = t.count + 1]
           q2 == [q1 EXCEPT !.high = h]
           q3 == [q2 EXCEPT !.over = TRUE]
<1>1. FirstRefused(t, h) = q3 BY Zenon DEF FirstRefused
<1>2. q1 = [t EXCEPT !.count = t.count + 1]
      /\ q2 = [q1 EXCEPT !.high = h]
      /\ q3 = [q2 EXCEPT !.over = TRUE]
  OBVIOUS
<1> HIDE DEF q1, q2, q3
<1>3. FirstRefused(t, h) = [cut |-> t.cut, streak |-> t.streak, taper |-> t.taper, over |-> TRUE, count |-> t.count + 1,
        latched |-> t.latched, high |-> h, run |-> t.run, pending |-> t.pending, active |-> t.active,
        accepted |-> t.accepted, owned |-> t.owned, meas |-> t.meas, phase |-> t.phase, wait |-> t.wait]
  BY <1>1, <1>2 DEF TcStates
<1> QED BY <1>3, TcNumbers, AtMostType DEF TcStates

LEMMA LatchesIs == \A t \in TcStates, h \in BOOLEAN :
    /\ Latches(t, h)
       = [cut |-> t.cut, streak |-> t.streak, taper |-> t.taper, over |-> FALSE, count |-> 0,
          latched |-> TRUE, high |-> h, run |-> t.run, pending |-> h, active |-> t.active,
          accepted |-> t.accepted, owned |-> t.owned, meas |-> t.meas, phase |-> t.phase, wait |-> t.wait]
    /\ Latches(t, h) \in TcStates
<1> TAKE t \in TcStates, h \in BOOLEAN
<1> DEFINE q1 == [t EXCEPT !.count = 0]
           q2 == [q1 EXCEPT !.high = h]
           q3 == [q2 EXCEPT !.latched = TRUE]
           q4 == [q3 EXCEPT !.pending = h]
           q5 == [q4 EXCEPT !.over = FALSE]
<1>1. Latches(t, h) = q5 BY Zenon DEF Latches
<1>2. q1 = [t EXCEPT !.count = 0]
      /\ q2 = [q1 EXCEPT !.high = h]
      /\ q3 = [q2 EXCEPT !.latched = TRUE]
      /\ q4 = [q3 EXCEPT !.pending = h]
      /\ q5 = [q4 EXCEPT !.over = FALSE]
  OBVIOUS
<1> HIDE DEF q1, q2, q3, q4, q5
<1>3. Latches(t, h) = [cut |-> t.cut, streak |-> t.streak, taper |-> t.taper, over |-> FALSE, count |-> 0, latched |-> TRUE,
        high |-> h, run |-> t.run, pending |-> h, active |-> t.active, accepted |-> t.accepted,
        owned |-> t.owned, meas |-> t.meas, phase |-> t.phase, wait |-> t.wait]
  BY <1>1, <1>2 DEF TcStates
<1> QED BY <1>3, TcNumbers, AtMostType DEF TcStates

LEMMA RearmedIs == \A t \in TcStates :
    /\ Rearmed(t)
       = [cut |-> t.cut, streak |-> t.streak, taper |-> t.taper, over |-> t.over, count |-> 0,
          latched |-> t.latched, high |-> FALSE, run |-> t.run, pending |-> t.pending, active |-> t.active,
          accepted |-> t.accepted, owned |-> t.owned, meas |-> t.meas, phase |-> t.phase, wait |-> t.wait]
    /\ Rearmed(t) \in TcStates
<1> TAKE t \in TcStates
<1> DEFINE q1 == [t EXCEPT !.count = 0]
           q2 == [q1 EXCEPT !.high = FALSE]
<1>1. Rearmed(t) = q2 BY Zenon DEF Rearmed
<1>2. q1 = [t EXCEPT !.count = 0]
      /\ q2 = [q1 EXCEPT !.high = FALSE]
  OBVIOUS
<1> HIDE DEF q1, q2
<1>3. Rearmed(t) = [cut |-> t.cut, streak |-> t.streak, taper |-> t.taper, over |-> t.over, count |-> 0,
        latched |-> t.latched, high |-> FALSE, run |-> t.run, pending |-> t.pending, active |-> t.active,
        accepted |-> t.accepted, owned |-> t.owned, meas |-> t.meas, phase |-> t.phase, wait |-> t.wait]
  BY <1>1, <1>2 DEF TcStates
<1> QED BY <1>3, TcNumbers, AtMostType DEF TcStates

LEMMA DroppedIs == \A t \in TcStates :
    /\ Dropped(t)
       = [cut |-> t.cut, streak |-> t.streak, taper |-> t.taper, over |-> FALSE, count |-> t.count,
          latched |-> t.latched, high |-> t.high, run |-> t.run, pending |-> FALSE, active |-> t.active,
          accepted |-> t.accepted, owned |-> t.owned, meas |-> t.meas, phase |-> t.phase, wait |-> t.wait]
    /\ Dropped(t) \in TcStates
<1> TAKE t \in TcStates
<1> DEFINE q1 == [t EXCEPT !.pending = FALSE]
           q2 == [q1 EXCEPT !.over = FALSE]
<1>1. Dropped(t) = q2 BY Zenon DEF Dropped
<1>2. q1 = [t EXCEPT !.pending = FALSE]
      /\ q2 = [q1 EXCEPT !.over = FALSE]
  OBVIOUS
<1> HIDE DEF q1, q2
<1>3. Dropped(t) = [cut |-> t.cut, streak |-> t.streak, taper |-> t.taper, over |-> FALSE, count |-> t.count,
        latched |-> t.latched, high |-> t.high, run |-> t.run, pending |-> FALSE, active |-> t.active,
        accepted |-> t.accepted, owned |-> t.owned, meas |-> t.meas, phase |-> t.phase, wait |-> t.wait]
  BY <1>1, <1>2 DEF TcStates
<1> QED BY <1>3, TcNumbers, AtMostType DEF TcStates

LEMMA OpenedIs == \A t \in TcStates :
    /\ TcOpened(t)
       = [cut |-> t.cut, streak |-> t.streak, taper |-> t.taper, over |-> t.over, count |-> 0,
          latched |-> t.latched, high |-> t.high, run |-> t.run, pending |-> FALSE, active |-> TRUE,
          accepted |-> t.accepted, owned |-> t.owned, meas |-> t.meas, phase |-> t.phase, wait |-> t.wait]
    /\ TcOpened(t) \in TcStates
<1> TAKE t \in TcStates
<1> DEFINE q1 == [t EXCEPT !.pending = FALSE]
           q2 == [q1 EXCEPT !.active = TRUE]
           q3 == [q2 EXCEPT !.count = 0]
<1>1. TcOpened(t) = q3 BY Zenon DEF TcOpened
<1>2. q1 = [t EXCEPT !.pending = FALSE]
      /\ q2 = [q1 EXCEPT !.active = TRUE]
      /\ q3 = [q2 EXCEPT !.count = 0]
  OBVIOUS
<1> HIDE DEF q1, q2, q3
<1>3. TcOpened(t) = [cut |-> t.cut, streak |-> t.streak, taper |-> t.taper, over |-> t.over, count |-> 0,
        latched |-> t.latched, high |-> t.high, run |-> t.run, pending |-> FALSE, active |-> TRUE,
        accepted |-> t.accepted, owned |-> t.owned, meas |-> t.meas, phase |-> t.phase, wait |-> t.wait]
  BY <1>1, <1>2 DEF TcStates
<1> QED BY <1>3, TcNumbers, AtMostType DEF TcStates

LEMMA DropRecalIs == \A t \in TcStates :
    /\ DropRecal(t)
       = [cut |-> t.cut, streak |-> t.streak, taper |-> t.taper, over |-> FALSE, count |-> 0,
          latched |-> FALSE, high |-> FALSE, run |-> 0, pending |-> FALSE, active |-> FALSE,
          accepted |-> t.accepted, owned |-> t.owned, meas |-> t.meas, phase |-> t.phase, wait |-> t.wait]
    /\ DropRecal(t) \in TcStates
<1> TAKE t \in TcStates
<1> DEFINE q1 == [t EXCEPT !.over = FALSE]
           q2 == [q1 EXCEPT !.count = 0]
           q3 == [q2 EXCEPT !.latched = FALSE]
           q4 == [q3 EXCEPT !.pending = FALSE]
           q5 == [q4 EXCEPT !.active = FALSE]
           q6 == [q5 EXCEPT !.high = FALSE]
           q7 == [q6 EXCEPT !.run = 0]
<1>1. DropRecal(t) = q7 BY Zenon DEF DropRecal
<1>2. q1 = [t EXCEPT !.over = FALSE]
      /\ q2 = [q1 EXCEPT !.count = 0]
      /\ q3 = [q2 EXCEPT !.latched = FALSE]
      /\ q4 = [q3 EXCEPT !.pending = FALSE]
      /\ q5 = [q4 EXCEPT !.active = FALSE]
      /\ q6 = [q5 EXCEPT !.high = FALSE]
      /\ q7 = [q6 EXCEPT !.run = 0]
  OBVIOUS
<1> HIDE DEF q1, q2, q3, q4, q5, q6, q7
<1>3. DropRecal(t) = [cut |-> t.cut, streak |-> t.streak, taper |-> t.taper, over |-> FALSE, count |-> 0,
        latched |-> FALSE, high |-> FALSE, run |-> 0, pending |-> FALSE, active |-> FALSE,
        accepted |-> t.accepted, owned |-> t.owned, meas |-> t.meas, phase |-> t.phase, wait |-> t.wait]
  BY <1>1, <1>2 DEF TcStates
<1> QED BY <1>3, TcNumbers, AtMostType DEF TcStates

LEMMA TapersIs == \A t \in TcStates, h \in BOOLEAN :
    /\ Tapers(t, h)
       = [cut |-> t.cut, streak |-> t.streak, taper |-> h, over |-> t.over, count |-> t.count,
          latched |-> t.latched, high |-> t.high, run |-> t.run, pending |-> t.pending, active |-> t.active,
          accepted |-> t.accepted, owned |-> t.owned, meas |-> t.meas, phase |-> t.phase, wait |-> t.wait]
    /\ Tapers(t, h) \in TcStates
<1> TAKE t \in TcStates, h \in BOOLEAN
<1>1. Tapers(t, h) = [t EXCEPT !.taper = h] BY Zenon DEF Tapers
<1>2. Tapers(t, h) = [cut |-> t.cut, streak |-> t.streak, taper |-> h, over |-> t.over, count |-> t.count,
        latched |-> t.latched, high |-> t.high, run |-> t.run, pending |-> t.pending, active |-> t.active,
        accepted |-> t.accepted, owned |-> t.owned, meas |-> t.meas, phase |-> t.phase, wait |-> t.wait]
  BY <1>1 DEF TcStates
<1> QED BY <1>2, TcNumbers, AtMostType DEF TcStates

LEMMA UnownedIs == \A t \in TcStates :
    /\ Unowned(t)
       = [cut |-> t.cut, streak |-> t.streak, taper |-> t.taper, over |-> t.over, count |-> t.count,
          latched |-> t.latched, high |-> t.high, run |-> t.run, pending |-> t.pending, active |-> t.active,
          accepted |-> t.accepted, owned |-> FALSE, meas |-> "none", phase |-> t.phase, wait |-> t.wait]
    /\ Unowned(t) \in TcStates
<1> TAKE t \in TcStates
<1> DEFINE q1 == [t EXCEPT !.owned = FALSE]
           q2 == [q1 EXCEPT !.meas = "none"]
<1>1. Unowned(t) = q2 BY Zenon DEF Unowned
<1>2. q1 = [t EXCEPT !.owned = FALSE]
      /\ q2 = [q1 EXCEPT !.meas = "none"]
  OBVIOUS
<1> HIDE DEF q1, q2
<1>3. Unowned(t) = [cut |-> t.cut, streak |-> t.streak, taper |-> t.taper, over |-> t.over, count |-> t.count,
        latched |-> t.latched, high |-> t.high, run |-> t.run, pending |-> t.pending, active |-> t.active,
        accepted |-> t.accepted, owned |-> FALSE, meas |-> "none", phase |-> t.phase, wait |-> t.wait]
  BY <1>1, <1>2 DEF TcStates
<1> QED BY <1>3, TcNumbers, AtMostType DEF TcStates

LEMMA CutsOffIs == \A t \in TcStates :
    /\ CutsOff(t)
       = [cut |-> t.cut, streak |-> t.streak, taper |-> t.taper, over |-> t.over, count |-> t.count,
          latched |-> t.latched, high |-> t.high, run |-> t.run, pending |-> t.pending, active |-> t.active,
          accepted |-> t.accepted, owned |-> FALSE, meas |-> "pending", phase |-> t.phase, wait |-> t.wait]
    /\ CutsOff(t) \in TcStates
<1> TAKE t \in TcStates
<1> DEFINE q1 == [t EXCEPT !.owned = FALSE]
           q2 == [q1 EXCEPT !.meas = "pending"]
<1>1. CutsOff(t) = q2 BY Zenon DEF CutsOff
<1>2. q1 = [t EXCEPT !.owned = FALSE]
      /\ q2 = [q1 EXCEPT !.meas = "pending"]
  OBVIOUS
<1> HIDE DEF q1, q2
<1>3. CutsOff(t) = [cut |-> t.cut, streak |-> t.streak, taper |-> t.taper, over |-> t.over, count |-> t.count,
        latched |-> t.latched, high |-> t.high, run |-> t.run, pending |-> t.pending, active |-> t.active,
        accepted |-> t.accepted, owned |-> FALSE, meas |-> "pending", phase |-> t.phase, wait |-> t.wait]
  BY <1>1, <1>2 DEF TcStates
<1> QED BY <1>3, TcNumbers, AtMostType DEF TcStates

LEMMA OwnedIs == \A t \in TcStates, h \in BOOLEAN :
    /\ TcOwned(t, h)
       = [cut |-> t.cut, streak |-> t.streak, taper |-> t.taper, over |-> t.over, count |-> t.count,
          latched |-> t.latched, high |-> t.high, run |-> t.run, pending |-> t.pending, active |-> t.active,
          accepted |-> t.accepted, owned |-> h, meas |-> t.meas, phase |-> t.phase, wait |-> t.wait]
    /\ TcOwned(t, h) \in TcStates
<1> TAKE t \in TcStates, h \in BOOLEAN
<1>1. TcOwned(t, h) = [t EXCEPT !.owned = h] BY Zenon DEF TcOwned
<1>2. TcOwned(t, h) = [cut |-> t.cut, streak |-> t.streak, taper |-> t.taper, over |-> t.over, count |-> t.count,
        latched |-> t.latched, high |-> t.high, run |-> t.run, pending |-> t.pending, active |-> t.active,
        accepted |-> t.accepted, owned |-> h, meas |-> t.meas, phase |-> t.phase, wait |-> t.wait]
  BY <1>1 DEF TcStates
<1> QED BY <1>2, TcNumbers, AtMostType DEF TcStates

LEMMA NotOwnedIs == \A t \in TcStates :
    /\ NotOwned(t)
       = [cut |-> t.cut, streak |-> t.streak, taper |-> t.taper, over |-> t.over, count |-> t.count,
          latched |-> t.latched, high |-> t.high, run |-> t.run, pending |-> t.pending, active |-> t.active,
          accepted |-> t.accepted, owned |-> FALSE, meas |-> t.meas, phase |-> t.phase, wait |-> t.wait]
    /\ NotOwned(t) \in TcStates
<1> TAKE t \in TcStates
<1>1. NotOwned(t) = [t EXCEPT !.owned = FALSE] BY Zenon DEF NotOwned
<1>2. NotOwned(t) = [cut |-> t.cut, streak |-> t.streak, taper |-> t.taper, over |-> t.over, count |-> t.count,
        latched |-> t.latched, high |-> t.high, run |-> t.run, pending |-> t.pending, active |-> t.active,
        accepted |-> t.accepted, owned |-> FALSE, meas |-> t.meas, phase |-> t.phase, wait |-> t.wait]
  BY <1>1 DEF TcStates
<1> QED BY <1>2, TcNumbers, AtMostType DEF TcStates

LEMMA MeasuresIs == \A t \in TcStates, m \in {"none", "pending", "done"} :
    /\ Measures(t, m)
       = [cut |-> t.cut, streak |-> t.streak, taper |-> t.taper, over |-> t.over, count |-> t.count,
          latched |-> t.latched, high |-> t.high, run |-> t.run, pending |-> t.pending, active |-> t.active,
          accepted |-> t.accepted, owned |-> t.owned, meas |-> m, phase |-> t.phase, wait |-> t.wait]
    /\ Measures(t, m) \in TcStates
<1> TAKE t \in TcStates, m \in {"none", "pending", "done"}
<1>1. Measures(t, m) = [t EXCEPT !.meas = m] BY Zenon DEF Measures
<1>2. Measures(t, m) = [cut |-> t.cut, streak |-> t.streak, taper |-> t.taper, over |-> t.over, count |-> t.count,
        latched |-> t.latched, high |-> t.high, run |-> t.run, pending |-> t.pending, active |-> t.active,
        accepted |-> t.accepted, owned |-> t.owned, meas |-> m, phase |-> t.phase, wait |-> t.wait]
  BY <1>1 DEF TcStates
<1> QED BY <1>2, TcNumbers, AtMostType DEF TcStates

LEMMA NoPhaseIs == \A t \in TcStates :
    /\ NoPhase(t)
       = [cut |-> t.cut, streak |-> t.streak, taper |-> t.taper, over |-> t.over, count |-> t.count,
          latched |-> t.latched, high |-> t.high, run |-> t.run, pending |-> t.pending, active |-> t.active,
          accepted |-> t.accepted, owned |-> t.owned, meas |-> t.meas, phase |-> "none", wait |-> 0]
    /\ NoPhase(t) \in TcStates
<1> TAKE t \in TcStates
<1> DEFINE q1 == [t EXCEPT !.phase = "none"]
           q2 == [q1 EXCEPT !.wait = 0]
<1>1. NoPhase(t) = q2 BY Zenon DEF NoPhase
<1>2. q1 = [t EXCEPT !.phase = "none"]
      /\ q2 = [q1 EXCEPT !.wait = 0]
  OBVIOUS
<1> HIDE DEF q1, q2
<1>3. NoPhase(t) = [cut |-> t.cut, streak |-> t.streak, taper |-> t.taper, over |-> t.over, count |-> t.count,
        latched |-> t.latched, high |-> t.high, run |-> t.run, pending |-> t.pending, active |-> t.active,
        accepted |-> t.accepted, owned |-> t.owned, meas |-> t.meas, phase |-> "none", wait |-> 0]
  BY <1>1, <1>2 DEF TcStates
<1> QED BY <1>3, TcNumbers, AtMostType DEF TcStates

LEMMA WaitsIs == \A t \in TcStates :
    /\ Waits(t)
       = [cut |-> t.cut, streak |-> t.streak, taper |-> t.taper, over |-> t.over, count |-> t.count,
          latched |-> t.latched, high |-> t.high, run |-> t.run, pending |-> t.pending, active |-> t.active,
          accepted |-> t.accepted, owned |-> t.owned, meas |-> t.meas, phase |-> "wait", wait |-> t.wait]
    /\ Waits(t) \in TcStates
<1> TAKE t \in TcStates
<1>1. Waits(t) = [t EXCEPT !.phase = "wait"] BY Zenon DEF Waits
<1>2. Waits(t) = [cut |-> t.cut, streak |-> t.streak, taper |-> t.taper, over |-> t.over, count |-> t.count,
        latched |-> t.latched, high |-> t.high, run |-> t.run, pending |-> t.pending, active |-> t.active,
        accepted |-> t.accepted, owned |-> t.owned, meas |-> t.meas, phase |-> "wait", wait |-> t.wait]
  BY <1>1 DEF TcStates
<1> QED BY <1>2, TcNumbers, AtMostType DEF TcStates

LEMMA WaitsOnIs == \A t \in TcStates :
    /\ WaitsOn(t)
       = [cut |-> t.cut, streak |-> t.streak, taper |-> t.taper, over |-> t.over, count |-> t.count,
          latched |-> t.latched, high |-> t.high, run |-> t.run, pending |-> t.pending, active |-> t.active,
          accepted |-> t.accepted, owned |-> t.owned, meas |-> t.meas, phase |-> t.phase, wait |-> t.wait + 1]
    /\ (t.wait < TcWait => WaitsOn(t) \in TcStates)
<1> TAKE t \in TcStates
<1>1. WaitsOn(t) = [t EXCEPT !.wait = t.wait + 1] BY Zenon DEF WaitsOn
<1>2. WaitsOn(t) = [cut |-> t.cut, streak |-> t.streak, taper |-> t.taper, over |-> t.over, count |-> t.count,
        latched |-> t.latched, high |-> t.high, run |-> t.run, pending |-> t.pending, active |-> t.active,
        accepted |-> t.accepted, owned |-> t.owned, meas |-> t.meas, phase |-> t.phase, wait |-> t.wait + 1]
  BY <1>1 DEF TcStates
<1> QED BY <1>2, TcNumbers, AtMostType DEF TcStates

LEMMA MeasuredIs == \A t \in TcStates, m \in {"none", "pending", "done"} :
    /\ Measured(t, m)
       = [cut |-> t.cut, streak |-> t.streak, taper |-> t.taper, over |-> t.over, count |-> t.count,
          latched |-> t.latched, high |-> t.high, run |-> t.run, pending |-> t.pending, active |-> t.active,
          accepted |-> t.accepted, owned |-> t.owned, meas |-> m, phase |-> "measured", wait |-> 0]
    /\ Measured(t, m) \in TcStates
<1> TAKE t \in TcStates, m \in {"none", "pending", "done"}
<1> DEFINE q1 == [t EXCEPT !.phase = "measured"]
           q2 == [q1 EXCEPT !.wait = 0]
           q3 == [q2 EXCEPT !.meas = m]
<1>1. Measured(t, m) = q3 BY Zenon DEF Measured
<1>2. q1 = [t EXCEPT !.phase = "measured"]
      /\ q2 = [q1 EXCEPT !.wait = 0]
      /\ q3 = [q2 EXCEPT !.meas = m]
  OBVIOUS
<1> HIDE DEF q1, q2, q3
<1>3. Measured(t, m) = [cut |-> t.cut, streak |-> t.streak, taper |-> t.taper, over |-> t.over, count |-> t.count,
        latched |-> t.latched, high |-> t.high, run |-> t.run, pending |-> t.pending, active |-> t.active,
        accepted |-> t.accepted, owned |-> t.owned, meas |-> m, phase |-> "measured", wait |-> 0]
  BY <1>1, <1>2 DEF TcStates
<1> QED BY <1>3, TcNumbers, AtMostType DEF TcStates

LEMMA UntaperedIs == \A t \in TcStates :
    /\ Untapered(t)
       = [cut |-> t.cut, streak |-> t.streak, taper |-> FALSE, over |-> t.over, count |-> t.count,
          latched |-> t.latched, high |-> t.high, run |-> t.run, pending |-> t.pending, active |-> t.active,
          accepted |-> t.accepted, owned |-> t.owned, meas |-> t.meas, phase |-> t.phase, wait |-> t.wait]
    /\ Untapered(t) \in TcStates
<1> TAKE t \in TcStates
<1>1. Untapered(t) = [t EXCEPT !.taper = FALSE] BY Zenon DEF Untapered
<1>2. Untapered(t) = [cut |-> t.cut, streak |-> t.streak, taper |-> FALSE, over |-> t.over, count |-> t.count,
        latched |-> t.latched, high |-> t.high, run |-> t.run, pending |-> t.pending, active |-> t.active,
        accepted |-> t.accepted, owned |-> t.owned, meas |-> t.meas, phase |-> t.phase, wait |-> t.wait]
  BY <1>1 DEF TcStates
<1> QED BY <1>2, TcNumbers, AtMostType DEF TcStates

LEMMA RestartedIs == \A t \in TcStates, n \in 0..TcConfirm :
    /\ Restarted(t, n)
       = [cut |-> t.cut, streak |-> t.streak, taper |-> t.taper, over |-> t.over, count |-> t.count,
          latched |-> t.latched, high |-> t.high, run |-> n, pending |-> t.pending, active |-> t.active,
          accepted |-> t.accepted, owned |-> t.owned, meas |-> t.meas, phase |-> "none", wait |-> 0]
    /\ Restarted(t, n) \in TcStates
<1> TAKE t \in TcStates, n \in 0..TcConfirm
<1> DEFINE q1 == [t EXCEPT !.phase = "none"]
           q2 == [q1 EXCEPT !.wait = 0]
           q3 == [q2 EXCEPT !.run = n]
<1>1. Restarted(t, n) = q3 BY Zenon DEF Restarted
<1>2. q1 = [t EXCEPT !.phase = "none"]
      /\ q2 = [q1 EXCEPT !.wait = 0]
      /\ q3 = [q2 EXCEPT !.run = n]
  OBVIOUS
<1> HIDE DEF q1, q2, q3
<1>3. Restarted(t, n) = [cut |-> t.cut, streak |-> t.streak, taper |-> t.taper, over |-> t.over, count |-> t.count,
        latched |-> t.latched, high |-> t.high, run |-> n, pending |-> t.pending, active |-> t.active,
        accepted |-> t.accepted, owned |-> t.owned, meas |-> t.meas, phase |-> "none", wait |-> 0]
  BY <1>1, <1>2 DEF TcStates
<1> QED BY <1>3, TcNumbers, AtMostType DEF TcStates

LEMMA MorningIs == \A t \in TcStates :
    /\ Morning(t)
       = [cut |-> t.cut, streak |-> t.streak, taper |-> FALSE, over |-> t.over, count |-> t.count,
          latched |-> t.latched, high |-> t.high, run |-> t.run, pending |-> t.pending, active |-> t.active,
          accepted |-> t.accepted, owned |-> t.owned, meas |-> t.meas, phase |-> "none", wait |-> 0]
    /\ Morning(t) \in TcStates
<1> TAKE t \in TcStates
<1> DEFINE q1 == [t EXCEPT !.taper = FALSE]
           q2 == [q1 EXCEPT !.phase = "none"]
           q3 == [q2 EXCEPT !.wait = 0]
<1>1. Morning(t) = q3 BY Zenon DEF Morning
<1>2. q1 = [t EXCEPT !.taper = FALSE]
      /\ q2 = [q1 EXCEPT !.phase = "none"]
      /\ q3 = [q2 EXCEPT !.wait = 0]
  OBVIOUS
<1> HIDE DEF q1, q2, q3
<1>3. Morning(t) = [cut |-> t.cut, streak |-> t.streak, taper |-> FALSE, over |-> t.over, count |-> t.count,
        latched |-> t.latched, high |-> t.high, run |-> t.run, pending |-> t.pending, active |-> t.active,
        accepted |-> t.accepted, owned |-> t.owned, meas |-> t.meas, phase |-> "none", wait |-> 0]
  BY <1>1, <1>2 DEF TcStates
<1> QED BY <1>3, TcNumbers, AtMostType DEF TcStates

LEMMA HandedOverIs == \A t \in TcStates :
    /\ HandedOver(t)
       = [cut |-> 0, streak |-> t.streak, taper |-> t.taper, over |-> t.over, count |-> t.count,
          latched |-> t.latched, high |-> t.high, run |-> t.run, pending |-> t.pending, active |-> t.active,
          accepted |-> t.accepted, owned |-> FALSE, meas |-> "none", phase |-> t.phase, wait |-> t.wait]
    /\ HandedOver(t) \in TcStates
<1> TAKE t \in TcStates
<1> DEFINE q1 == [t EXCEPT !.cut = 0]
           q2 == [q1 EXCEPT !.meas = "none"]
           q3 == [q2 EXCEPT !.owned = FALSE]
<1>1. HandedOver(t) = q3 BY Zenon DEF HandedOver
<1>2. q1 = [t EXCEPT !.cut = 0]
      /\ q2 = [q1 EXCEPT !.meas = "none"]
      /\ q3 = [q2 EXCEPT !.owned = FALSE]
  OBVIOUS
<1> HIDE DEF q1, q2, q3
<1>3. HandedOver(t) = [cut |-> 0, streak |-> t.streak, taper |-> t.taper, over |-> t.over, count |-> t.count,
        latched |-> t.latched, high |-> t.high, run |-> t.run, pending |-> t.pending, active |-> t.active,
        accepted |-> t.accepted, owned |-> FALSE, meas |-> "none", phase |-> t.phase, wait |-> t.wait]
  BY <1>1, <1>2 DEF TcStates
<1> QED BY <1>3, TcNumbers, AtMostType DEF TcStates

LEMMA BlindIs == \A t \in TcStates :
    /\ Blind(t)
       = [cut |-> 0, streak |-> t.streak, taper |-> FALSE, over |-> FALSE, count |-> t.count,
          latched |-> t.latched, high |-> t.high, run |-> t.run, pending |-> t.pending, active |-> t.active,
          accepted |-> t.accepted, owned |-> FALSE, meas |-> "none", phase |-> t.phase, wait |-> t.wait]
    /\ Blind(t) \in TcStates
<1> TAKE t \in TcStates
<1> DEFINE q1 == [t EXCEPT !.cut = 0]
           q2 == [q1 EXCEPT !.taper = FALSE]
           q3 == [q2 EXCEPT !.owned = FALSE]
           q4 == [q3 EXCEPT !.meas = "none"]
           q5 == [q4 EXCEPT !.over = FALSE]
<1>1. Blind(t) = q5 BY Zenon DEF Blind
<1>2. q1 = [t EXCEPT !.cut = 0]
      /\ q2 = [q1 EXCEPT !.taper = FALSE]
      /\ q3 = [q2 EXCEPT !.owned = FALSE]
      /\ q4 = [q3 EXCEPT !.meas = "none"]
      /\ q5 = [q4 EXCEPT !.over = FALSE]
  OBVIOUS
<1> HIDE DEF q1, q2, q3, q4, q5
<1>3. Blind(t) = [cut |-> 0, streak |-> t.streak, taper |-> FALSE, over |-> FALSE, count |-> t.count,
        latched |-> t.latched, high |-> t.high, run |-> t.run, pending |-> t.pending, active |-> t.active,
        accepted |-> t.accepted, owned |-> FALSE, meas |-> "none", phase |-> t.phase, wait |-> t.wait]
  BY <1>1, <1>2 DEF TcStates
<1> QED BY <1>3, TcNumbers, AtMostType DEF TcStates

LEMMA LeavesIs == \A t \in TcStates, n \in 0..TcConfirm, k \in 0..TcConfirm :
    /\ Leaves(t, n, k)
       = [cut |-> n, streak |-> k, taper |-> t.taper, over |-> t.over, count |-> t.count,
          latched |-> t.latched, high |-> t.high, run |-> t.run, pending |-> t.pending, active |-> t.active,
          accepted |-> t.accepted, owned |-> t.owned, meas |-> t.meas, phase |-> t.phase, wait |-> t.wait]
    /\ Leaves(t, n, k) \in TcStates
<1> TAKE t \in TcStates, n \in 0..TcConfirm, k \in 0..TcConfirm
<1> DEFINE q1 == [t EXCEPT !.cut = n]
           q2 == [q1 EXCEPT !.streak = k]
<1>1. Leaves(t, n, k) = q2 BY Zenon DEF Leaves
<1>2. q1 = [t EXCEPT !.cut = n]
      /\ q2 = [q1 EXCEPT !.streak = k]
  OBVIOUS
<1> HIDE DEF q1, q2
<1>3. Leaves(t, n, k) = [cut |-> n, streak |-> k, taper |-> t.taper, over |-> t.over, count |-> t.count,
        latched |-> t.latched, high |-> t.high, run |-> t.run, pending |-> t.pending, active |-> t.active,
        accepted |-> t.accepted, owned |-> t.owned, meas |-> t.meas, phase |-> t.phase, wait |-> t.wait]
  BY <1>1, <1>2 DEF TcStates
<1> QED BY <1>3, TcNumbers, AtMostType DEF TcStates

-----------------------------------------------------------------------------
SameRecal(t, u) ==
    /\ (u.over <=> t.over) /\ u.count = t.count /\ (u.latched <=> t.latched)
    /\ (u.pending <=> t.pending) /\ (u.active <=> t.active) /\ u.run = t.run
SameHold(t, u) == (u.owned <=> t.owned) /\ u.meas = t.meas /\ u.phase = t.phase /\ u.wait = t.wait

(* The counters of the cutoff and of its acceptance.                         *)
LEMMA TickCutoffIs ==
    ASSUME NEW t \in TcStates, NEW x
    PROVE LET u == TickCutoff(t, x) IN u \in TcStates /\ SameRecal(t, u) /\ SameHold(t, u)
<1> DEFINE u == TickCutoff(t, x)
<1> USE DEF SameRecal, SameHold
<1>1. CASE x.soc < 99 /\ ~InZone(x.v)
  <2>1. u = CutReset(t) BY <1>1, Zenon DEF TickCutoff, CutReset
  <2> QED BY <2>1, CutResetIs
<1>2. CASE ~(x.soc < 99 /\ ~InZone(x.v)) /\ CutSignature(x)
  <2>1. u = CutCounts(t) BY <1>2, Zenon DEF TickCutoff, CutCounts
  <2> QED BY <2>1, CutCountsIs
<1>3. CASE ~(x.soc < 99 /\ ~InZone(x.v)) /\ ~CutSignature(x) /\ ~x.takes
  BY <1>3 DEF TickCutoff
<1>4. CASE ~(x.soc < 99 /\ ~InZone(x.v)) /\ ~CutSignature(x) /\ x.takes
  <2>1. CASE t.streak + 1 < TcConfirm
    <3>1. u = Streaks(t) BY <1>4, <2>1, Zenon DEF TickCutoff, Streaks
    <3> QED BY <2>1, <3>1, StreaksIs
  <2>2. CASE ~(t.streak + 1 < TcConfirm)
    <3>1. u = CutGivenUp(t) BY <1>4, <2>2, Zenon DEF TickCutoff, CutGivenUp
    <3> QED BY <3>1, CutGivenUpIs
  <2> QED BY <2>1, <2>2
<1> QED BY <1>1, <1>2, <1>3, <1>4

LEMMA TickAcceptanceIs ==
    ASSUME NEW t \in TcStates, NEW x
    PROVE LET u == TickAcceptance(t, x)
          IN /\ u \in TcStates /\ SameHold(t, u)
             /\ (u.over <=> t.over) /\ u.count = t.count /\ (u.latched <=> t.latched) /\ (u.pending <=> t.pending)
             /\ u.run = t.run /\ (u.active => t.active)
             /\ tcKind = "single" => u = t
<1> DEFINE u == TickAcceptance(t, x)
<1> USE DEF SameHold
<1>1. CASE ~t.active \/ tcKind = "single" BY <1>1 DEF TickAcceptance
<1>2. CASE t.active /\ tcKind # "single" /\ ~x.takes
  <2>1. u = NotTaken(t) BY <1>2, Zenon DEF TickAcceptance, NotTaken
  <2> QED BY <1>2, <2>1, NotTakenIs
<1>3. CASE t.active /\ tcKind # "single" /\ x.takes
  <2>1. CASE t.accepted + 1 < TcConfirm
    <3>1. u = Accepts(t) BY <1>3, <2>1, Zenon DEF TickAcceptance, Accepts
    <3> QED BY <1>3, <2>1, <3>1, AcceptsIs
  <2>2. CASE ~(t.accepted + 1 < TcConfirm)
    <3>1. u = Taken(t) BY <1>3, <2>2, Zenon DEF TickAcceptance, Taken
    <3> QED BY <1>3, <3>1, TakenIs
  <2> QED BY <2>1, <2>2
<1> QED BY <1>1, <1>2, <1>3

LEMMA TicksIs ==
    ASSUME NEW t \in TcStates, NEW x
    PROVE LET u == TickCutoff(TickAcceptance(t, x), x)
          IN /\ u \in TcStates /\ SameHold(t, u)
             /\ (u.over <=> t.over) /\ u.count = t.count /\ (u.latched <=> t.latched) /\ (u.pending <=> t.pending)
             /\ u.run = t.run /\ (u.active => t.active)
             /\ tcKind = "single" => (u.active <=> t.active)
<1> DEFINE v == TickAcceptance(t, x)
<1>1. /\ v \in TcStates /\ SameHold(t, v)
      /\ (v.over <=> t.over) /\ v.count = t.count /\ (v.latched <=> t.latched) /\ (v.pending <=> t.pending)
      /\ v.run = t.run /\ (v.active => t.active)
      /\ tcKind = "single" => v = t
  BY TickAcceptanceIs
<1> HIDE DEF v
<1>2. TickCutoff(v, x) \in TcStates /\ SameRecal(v, TickCutoff(v, x)) /\ SameHold(v, TickCutoff(v, x))
  BY <1>1, TickCutoffIs
<1> QED BY <1>1, <1>2 DEF SameRecal, SameHold, v

-----------------------------------------------------------------------------
(* Single packs: the recalibration.                                          *)
LEMMA RecalStreakIs ==
    ASSUME NEW t \in TcStates, NEW x
    PROVE LET s == RecalStreak(t, x)
          IN /\ s \in TcStates /\ SameHold(t, s)
             /\ (s.over <=> t.over) /\ s.count = t.count /\ (s.latched <=> t.latched) /\ (s.pending <=> t.pending)
             /\ (s.active <=> t.active) /\ (s.high <=> t.high) /\ s.cut = t.cut
<1> DEFINE s == RecalStreak(t, x)
<1> USE DEF SameHold
<1>1. CASE CutSignature(x)
  <2>1. s = Running(t, 0) BY <1>1, Zenon DEF RecalStreak, Running
  <2>2. 0 \in 0..TcConfirm BY TcNumbers
  <2> QED BY <2>1, <2>2, RunningIs
<1>2. CASE ~CutSignature(x) /\ x.takes
  <2>1. s = Running(t, IF t.run + 1 >= TcConfirm THEN 0 ELSE t.run + 1)
    BY <1>2, Zenon DEF RecalStreak, Running
  <2>2. (IF t.run + 1 >= TcConfirm THEN 0 ELSE t.run + 1) \in 0..TcConfirm BY TcNumbers DEF TcStates
  <2> QED BY <2>1, <2>2, RunningIs
<1>3. CASE ~CutSignature(x) /\ ~x.takes BY <1>3 DEF RecalStreak
<1> QED BY <1>1, <1>2, <1>3

LEMMA RetryStepIs ==
    ASSUME NEW t \in TcStates, NEW x, t.active, t.count < TcConfirm
    PROVE LET u == RetryStep(t, x)
          IN /\ u \in TcStates /\ SameHold(t, u) /\ u.cut = t.cut
             /\ (u.latched <=> t.latched) /\ (u.pending <=> t.pending)
             /\ (u.over <=> u.active) /\ u.count < TcConfirm
             /\ u.active /\ CutSignature(x) => u.count = t.count + 1
             /\ u.active /\ ~CutSignature(x) => u.count = t.count \/ (u.count = 0 /\ Sustained(t, x))
<1> DEFINE u == RetryStep(t, x)
           s == RecalStreak(t, x)
<1> USE DEF SameHold
<1>1. /\ s \in TcStates /\ SameHold(t, s)
      /\ (s.over <=> t.over) /\ s.count = t.count /\ (s.latched <=> t.latched) /\ (s.pending <=> t.pending)
      /\ (s.active <=> t.active) /\ (s.high <=> t.high) /\ s.cut = t.cut
  BY RecalStreakIs
<1>2. CASE x.soc >= 100
  <2>1. u = Ended(t) BY <1>2, Zenon DEF RetryStep, Ended
  <2> QED BY <2>1, EndedIs, TcNumbers
<1>3. CASE ~(x.soc >= 100) /\ CutSignature(x)
  <2>1. CASE t.count + 1 < TcConfirm
    <3>1. [s EXCEPT !.count = @ + 1, !.over = TRUE] = Refused(s) BY Zenon DEF Refused
    <3>2. u = Refused(s) BY <1>3, <2>1, <3>1, Zenon DEF RetryStep
    <3> HIDE DEF s
    <3> QED BY <1>1, <1>3, <2>1, <3>2, RefusedIs
  <2>2. CASE ~(t.count + 1 < TcConfirm)
    <3>1. u = Ended(s) BY <1>3, <2>2, Zenon DEF RetryStep, Ended
    <3> HIDE DEF s
    <3> QED BY <1>1, <3>1, EndedIs, TcNumbers
  <2> QED BY <2>1, <2>2
<1>4. CASE ~(x.soc >= 100) /\ ~CutSignature(x)
  <2> DEFINE r == IF Sustained(t, x) THEN [s EXCEPT !.count = 0] ELSE s
  <2>1. u = Asks(r) BY <1>4, Zenon DEF RetryStep, Override, Asks
  <2>2. /\ r \in TcStates /\ SameHold(t, r) /\ (r.latched <=> t.latched) /\ (r.pending <=> t.pending)
        /\ (r.active <=> t.active) /\ r.cut = t.cut
        /\ r.count = t.count \/ (r.count = 0 /\ Sustained(t, x))
    <3>1. CASE Sustained(t, x)
      <4>1. r = CountsAnew(s) BY <3>1, Zenon DEF CountsAnew
      <4> HIDE DEF r, s
      <4> QED BY <1>1, <3>1, <4>1, CountsAnewIs
    <3>2. CASE ~Sustained(t, x) BY <1>1, <3>2
    <3> QED BY <3>1, <3>2
  <2> HIDE DEF r
  <2>3. u \in TcStates /\ SameHold(r, u) /\ u.cut = r.cut /\ u.over /\ u.count = r.count
        /\ (u.latched <=> r.latched) /\ (u.pending <=> r.pending) /\ (u.active <=> r.active)
    BY <2>1, <2>2, AsksIs
  <2> HIDE DEF u
  <2> QED BY <1>4, <2>2, <2>3, TcNumbers DEF u
<1> QED BY <1>2, <1>3, <1>4

LEMMA FirstStepIs ==
    ASSUME NEW t \in TcStates, NEW x, ~t.active, ~t.pending, t.count < TcConfirm
    PROVE LET u == FirstStep(t, x)
          IN /\ u \in TcStates /\ SameHold(t, u) /\ u.cut = t.cut
             /\ ~u.active /\ (u.over => ~u.latched) /\ u.count < TcConfirm
             /\ ((u.latched <=> t.latched) /\ ~u.pending) \/ (~t.latched /\ u.latched)
             /\ \/ x.soc >= 99 /\ u.count = 0
                \/ u.latched
                \/ CutSignature(x) /\ u.count = t.count + 1
                \/ ~CutSignature(x) /\ (u.count = t.count \/ (u.count = 0 /\ Sustained(t, x)))
<1> DEFINE u == FirstStep(t, x)
           s == RecalStreak(t, x)
           high == t.high \/ x.v = 5
<1> USE DEF SameHold
<1>1. /\ s \in TcStates /\ SameHold(t, s)
      /\ (s.over <=> t.over) /\ s.count = t.count /\ (s.latched <=> t.latched) /\ (s.pending <=> t.pending)
      /\ (s.active <=> t.active) /\ (s.high <=> t.high) /\ s.cut = t.cut
  BY RecalStreakIs
<1>2. CASE x.soc >= 99
  <2>1. u = Full(t) BY <1>2, Zenon DEF FirstStep, Full
  <2>2. u \in TcStates /\ SameHold(t, u) /\ u.cut = t.cut BY <2>1, FullIs
  <2>3. ~u.over /\ u.count = 0 BY <2>1, FullIs
  <2>4. ~u.active /\ ~u.pending BY <2>1, FullIs
  <2>5. u.latched <=> t.latched BY <2>1, FullIs
  <2>6. u.count < TcConfirm BY <2>3, TcNumbers
  <2> QED BY <1>2, <2>2, <2>3, <2>4, <2>5, <2>6, Zenon
<1>3. CASE ~(x.soc >= 99) /\ t.latched
  <2>1. u = AsksNot(t) BY <1>3, Zenon DEF FirstStep, Override, AsksNot
  <2>2. u \in TcStates /\ SameHold(t, u) /\ u.cut = t.cut /\ ~u.over /\ u.count = t.count
        /\ (u.latched <=> t.latched) /\ (u.pending <=> t.pending) /\ (u.active <=> t.active)
    BY <2>1, AsksNotIs
  <2> HIDE DEF u
  <2> QED BY <1>3, <2>2 DEF u
<1>4. CASE ~(x.soc >= 99) /\ ~t.latched /\ CutSignature(x)
  <2>1. high \in BOOLEAN OBVIOUS
  <2>2. CASE t.count + 1 < TcConfirm
    <3>1. [s EXCEPT !.count = @ + 1, !.high = high, !.over = TRUE] = FirstRefused(s, high)
      BY Zenon DEF FirstRefused
    <3>2. u = FirstRefused(s, high) BY <1>4, <2>2, <3>1, Zenon DEF FirstStep
    <3> HIDE DEF s, high
    <3>3. u \in TcStates /\ SameHold(s, u) /\ u.cut = s.cut BY <1>1, <2>1, <2>2, <3>2, FirstRefusedIs
    <3>4. u.over /\ u.count = s.count + 1 BY <1>1, <2>1, <3>2, FirstRefusedIs
    <3>5. (u.active <=> s.active) /\ (u.pending <=> s.pending) BY <1>1, <2>1, <3>2, FirstRefusedIs
    <3>6. u.latched <=> s.latched BY <1>1, <2>1, <3>2, FirstRefusedIs
    <3>7. u.count < TcConfirm /\ u.count = t.count + 1 BY <1>1, <2>2, <3>4
    <3> QED BY <1>1, <1>4, <3>3, <3>4, <3>5, <3>6, <3>7, Zenon
  <2>3. CASE ~(t.count + 1 < TcConfirm)
    <3>1. u = Latches(s, high) BY <1>4, <2>3, Zenon DEF FirstStep, Latches
    <3> HIDE DEF s, high
    <3> QED BY <1>1, <1>4, <2>1, <3>1, LatchesIs, TcNumbers
  <2> QED BY <2>2, <2>3
<1>5. CASE ~(x.soc >= 99) /\ ~t.latched /\ ~CutSignature(x)
  <2> DEFINE r == IF Sustained(t, x) THEN [s EXCEPT !.count = 0, !.high = FALSE] ELSE s
  <2>1. u = Asks(r) BY <1>5, Zenon DEF FirstStep, Override, Asks
  <2>2. /\ r \in TcStates /\ SameHold(t, r) /\ (r.latched <=> t.latched) /\ (r.pending <=> t.pending)
        /\ (r.active <=> t.active) /\ r.cut = t.cut
        /\ r.count = t.count \/ (r.count = 0 /\ Sustained(t, x))
    <3>1. CASE Sustained(t, x)
      <4>1. r = Rearmed(s) BY <3>1, Zenon DEF Rearmed
      <4> HIDE DEF r, s
      <4> QED BY <1>1, <3>1, <4>1, RearmedIs
    <3>2. CASE ~Sustained(t, x) BY <1>1, <3>2
    <3> QED BY <3>1, <3>2
  <2> HIDE DEF r
  <2>3. u \in TcStates /\ SameHold(r, u) /\ u.cut = r.cut /\ u.over /\ u.count = r.count
        /\ (u.latched <=> r.latched) /\ (u.pending <=> r.pending) /\ (u.active <=> r.active)
    BY <2>1, <2>2, AsksIs
  <2>4. u.count < TcConfirm BY <2>2, <2>3, TcNumbers
  <2> QED BY <1>5, <2>2, <2>3, <2>4, Zenon
<1> QED BY <1>2, <1>3, <1>4, <1>5

(* The refusals and retries on record after a cycle that leads from t to u.   *)
SeenAfter(t, u, x, seen) ==
    IF \/ ~InZone(x.v) \/ x.weekly \/ x.soc >= 99 \/ Sustained(t, x)
       \/ u.active /\ ~t.active
    THEN 0 ELSE IF CutSignature(x) THEN AtMost(seen + 1) ELSE seen
TriesAfter(t, u, x, tries) ==
    IF ~InZone(x.v) THEN 0 ELSE IF ~t.active /\ u.active /\ tries < 2 THEN tries + 1 ELSE tries

LEMMA RecalOverrideKeeps ==
    ASSUME NEW t \in TcStates, NEW x, NEW seen \in 0..TcConfirm, NEW tries \in 0..2,
           InZone(x.v), RecalSound(t, seen, tries)
    PROVE LET u == RecalOverride(t, x)
          IN /\ u \in TcStates /\ SameHold(t, u) /\ u.cut = t.cut
             /\ RecalSound(u, SeenAfter(t, u, x, seen), TriesAfter(t, u, x, tries))
<1> DEFINE u == RecalOverride(t, x)
           seen1 == SeenAfter(t, u, x, seen)
           tries1 == TriesAfter(t, u, x, tries)
           Kept == /\ u \in TcStates /\ SameHold(t, u) /\ u.cut = t.cut
                   /\ RecalSound(u, seen1, tries1)
<1>1. /\ t.count < TcConfirm /\ (t.active \/ ~t.latched => seen <= t.count)
      /\ (t.over => t.active \/ ~t.latched)
      /\ (t.pending => t.latched /\ ~t.active /\ tries = 0)
      /\ (t.active => t.latched)
      /\ (~t.latched => tries = 0)
      /\ tries <= 1
  BY DEF RecalSound
<1>2. t.count \in Nat /\ TcConfirm \in Nat /\ TcConfirm > 0 BY TcNumbers DEF TcStates
<1>3. ASSUME t.pending /\ x.soc >= 100 PROVE Kept
  <2>1. u = Dropped(t) BY <1>3, Zenon DEF RecalOverride, Dropped
  <2> HIDE DEF u
  <2>2. u \in TcStates /\ u.count = t.count /\ u.cut = t.cut BY <2>1, DroppedIs
  <2>3. ~u.over /\ ~u.pending /\ SameHold(t, u) BY <2>1, DroppedIs DEF SameHold
  <2>4. (u.active <=> t.active) /\ (u.latched <=> t.latched) BY <2>1, DroppedIs
  <2>5. tries1 = 0 BY <1>1, <1>3, <2>4 DEF TriesAfter
  <2> HIDE DEF tries1, seen1
  <2> QED BY <1>1, <1>2, <1>3, <2>2, <2>3, <2>4, <2>5 DEF RecalSound
<1>4. ASSUME t.pending /\ ~(x.soc >= 100) /\ ~Relaxed(x.v) PROVE Kept
  <2>1. u = AsksNot(t) BY <1>4, Zenon DEF RecalOverride, Override, AsksNot
  <2> HIDE DEF u
  <2>2. u \in TcStates /\ u.count = t.count /\ u.cut = t.cut BY <2>1, AsksNotIs
  <2>3. ~u.over /\ SameHold(t, u) BY <2>1, AsksNotIs DEF SameHold
  <2>4. (u.active <=> t.active) /\ (u.latched <=> t.latched) /\ (u.pending <=> t.pending) BY <2>1, AsksNotIs
  <2>5. tries1 = 0 BY <1>1, <1>4, <2>4 DEF TriesAfter
  <2> HIDE DEF tries1, seen1
  <2> QED BY <1>1, <1>2, <1>4, <2>2, <2>3, <2>4, <2>5 DEF RecalSound
<1>5. ASSUME t.pending /\ ~(x.soc >= 100) /\ Relaxed(x.v) PROVE Kept
  <2> DEFINE o == TcOpened(t)
  <2>1. u = RetryStep(o, x) BY <1>5, Zenon DEF RecalOverride, TcOpened
  <2>2. o \in TcStates /\ o.count = 0 /\ o.cut = t.cut /\ SameHold(t, o) BY OpenedIs DEF SameHold
  <2>3. o.active /\ ~o.pending BY OpenedIs
  <2>4. o.latched <=> t.latched BY OpenedIs
  <2> HIDE DEF o, u
  <2>5. /\ u \in TcStates /\ SameHold(o, u) /\ u.cut = o.cut
        /\ (u.latched <=> o.latched) /\ (u.pending <=> o.pending)
        /\ (u.over <=> u.active) /\ u.count < TcConfirm
    BY <1>2, <2>1, <2>2, <2>3, RetryStepIs
  <2>6. SameHold(t, u) BY <2>2, <2>5 DEF SameHold
  <2>7. tries1 <= 1 BY <1>1, <1>5 DEF TriesAfter
  <2>8. u.active => seen1 = 0 BY <1>1, <1>5 DEF SeenAfter
  <2> HIDE DEF tries1, seen1
  <2> QED BY <1>1, <1>2, <1>5, <2>2, <2>3, <2>4, <2>5, <2>6, <2>7, <2>8 DEF RecalSound, TcStates
<1>6. ASSUME ~t.pending /\ t.active PROVE Kept
  <2>1. u = RetryStep(t, x) BY <1>6, Zenon DEF RecalOverride
  <2> HIDE DEF u
  <2>2. /\ u \in TcStates /\ SameHold(t, u) /\ u.cut = t.cut
        /\ (u.latched <=> t.latched) /\ (u.pending <=> t.pending)
        /\ (u.over <=> u.active) /\ u.count < TcConfirm
        /\ (u.active /\ CutSignature(x) => u.count = t.count + 1)
        /\ (u.active /\ ~CutSignature(x) => u.count = t.count \/ (u.count = 0 /\ Sustained(t, x)))
    BY <1>1, <1>6, <2>1, RetryStepIs
  <2>3. tries1 = tries BY <1>6 DEF TriesAfter
  <2>4. u.active => seen1 <= u.count BY <1>1, <1>2, <1>6, <2>2, AtMostType DEF SeenAfter
  <2> HIDE DEF tries1, seen1
  <2> QED BY <1>1, <1>2, <1>6, <2>2, <2>3, <2>4 DEF RecalSound
<1>7. ASSUME ~t.pending /\ ~t.active PROVE Kept
  <2>1. u = FirstStep(t, x) BY <1>7, Zenon DEF RecalOverride
  <2> HIDE DEF u
  <2>2. /\ u \in TcStates /\ SameHold(t, u) /\ u.cut = t.cut
        /\ ~u.active /\ (u.over => ~u.latched) /\ u.count < TcConfirm
        /\ (((u.latched <=> t.latched) /\ ~u.pending) \/ (~t.latched /\ u.latched))
        /\ \/ x.soc >= 99 /\ u.count = 0
           \/ u.latched
           \/ CutSignature(x) /\ u.count = t.count + 1
           \/ ~CutSignature(x) /\ (u.count = t.count \/ (u.count = 0 /\ Sustained(t, x)))
    BY <1>1, <1>7, <2>1, FirstStepIs
  <2>3. tries1 = tries BY <2>2 DEF TriesAfter
  <2>4. ~u.latched => seen1 <= u.count BY <1>1, <1>2, <1>7, <2>2, AtMostType DEF SeenAfter
  <2> HIDE DEF tries1, seen1
  <2> QED BY <1>1, <1>2, <1>7, <2>2, <2>3, <2>4 DEF RecalSound
<1>8. Kept
  <2> HIDE DEF u, seen1, tries1
  <2> QED BY <1>3, <1>4, <1>5, <1>6, <1>7
<1> QED BY <1>8

LEMMA TaperLatchIs ==
    ASSUME NEW t \in TcStates, NEW x
    PROVE LET u == TaperLatch(t, x)
          IN /\ u \in TcStates /\ SameHold(t, u) /\ SameRecal(t, u) /\ u.cut = t.cut
<1> DEFINE h == InZone(x.v) \/ (t.taper /\ x.v # 0)
           u == TaperLatch(t, x)
<1>1. u = Tapers(t, h) BY Zenon DEF TaperLatch, Tapers
<1>2. h \in BOOLEAN OBVIOUS
<1> HIDE DEF h
<1>3. u \in TcStates BY <1>1, <1>2, TapersIs
<1>4. SameHold(t, u) BY <1>1, <1>2, TapersIs DEF SameHold
<1>5. SameRecal(t, u) /\ u.cut = t.cut BY <1>1, <1>2, TapersIs DEF SameRecal
<1> QED BY <1>3, <1>4, <1>5

LEMMA MeasureAfterCutoffIs ==
    ASSUME NEW t \in TcStates, NEW x
    PROVE LET u == MeasureAfterCutoff(t, x)
          IN u \in TcStates /\ SameRecal(t, u) /\ u.cut = t.cut /\ u.phase = t.phase
<1> DEFINE m == IF t.meas = "done" /\ ~InZone(x.v) THEN "none" ELSE t.meas
           p == IF /\ Confirmed(t) /\ m = "none" /\ ~AtPause(x.v)
                   /\ InZone(x.v) \/ t.taper
                   /\ ~t.pending /\ ~t.active
                THEN "pending" ELSE m
           u == MeasureAfterCutoff(t, x)
<1>1. u = Measures(t, p) BY Zenon DEF MeasureAfterCutoff, Measures
<1>2. m \in {"none", "pending", "done"} BY DEF TcStates
<1> HIDE DEF m
<1>3. p \in {"none", "pending", "done"} BY <1>2
<1> HIDE DEF p
<1>4. u \in TcStates BY <1>1, <1>3, MeasuresIs
<1>5. SameRecal(t, u) BY <1>1, <1>3, MeasuresIs DEF SameRecal
<1>6. u.cut = t.cut /\ u.phase = t.phase BY <1>1, <1>3, MeasuresIs
<1> QED BY <1>4, <1>5, <1>6

LEMMA RefreshSingleKeeps ==
    ASSUME NEW t \in TcStates, NEW x, NEW seen \in 0..TcConfirm, NEW tries \in 0..2,
           RecalSound(t, seen, tries)
    PROVE LET u == RefreshSingle(t, x)
          IN u \in TcStates /\ RecalSound(u, SeenAfter(t, u, x, seen), TriesAfter(t, u, x, tries))
<1> DEFINE z == IF InZone(x.v) THEN t ELSE DropRecal(t)
           l == TaperLatch(z, x)
           m == MeasureAfterCutoff(l, x)
           begun == /\ InZone(x.v)
                    /\ \/ AtPause(x.v) \/ CutSignature(x) \/ m.over \/ m.count > 0
                       \/ m.latched \/ m.pending \/ m.active
           u == RefreshSingle(t, x)
           seen1 == SeenAfter(t, u, x, seen)
           tries1 == TriesAfter(t, u, x, tries)
           Kept == u \in TcStates /\ RecalSound(u, seen1, tries1)
<1>1. u = IF ~x.weekly /\ begun THEN RecalOverride(m, x) ELSE Override(m, FALSE)
  BY Zenon DEF RefreshSingle
<1> HIDE DEF u
<1>2. /\ t.count < TcConfirm /\ (t.active \/ ~t.latched => seen <= t.count)
      /\ (t.over => t.active \/ ~t.latched)
      /\ (t.pending => t.latched /\ ~t.active /\ tries = 0)
      /\ (t.active => t.latched)
      /\ (~t.latched => tries = 0)
      /\ tries <= 1
  BY DEF RecalSound
<1>3. t.count \in Nat /\ TcConfirm \in Nat /\ TcConfirm > 0 BY TcNumbers DEF TcStates
<1>4. z \in TcStates BY DropRecalIs
<1>5. l \in TcStates /\ SameRecal(z, l)
  <2> HIDE DEF z
  <2> QED BY <1>4, TaperLatchIs
<1>6. m \in TcStates /\ SameRecal(z, m)
  <2> HIDE DEF z, l
  <2>1. m \in TcStates /\ SameRecal(l, m) BY <1>5, MeasureAfterCutoffIs
  <2> HIDE DEF m
  <2> QED BY <1>5, <2>1 DEF SameRecal
<1>7. ASSUME ~InZone(x.v) PROVE Kept
  <2>1. z = DropRecal(t) BY <1>7
  <2>2. z.count = 0 /\ ~z.over /\ ~z.latched BY <2>1, DropRecalIs
  <2>3. ~z.pending /\ ~z.active BY <2>1, DropRecalIs
  <2> HIDE DEF z, m
  <2>4. u = AsksNot(m) BY <1>1, <1>7, Zenon DEF Override, AsksNot
  <2>5. u \in TcStates /\ u.count = m.count /\ ~u.over BY <1>6, <2>4, AsksNotIs
  <2>6. (u.active <=> m.active) /\ (u.latched <=> m.latched) /\ (u.pending <=> m.pending)
    BY <1>6, <2>4, AsksNotIs
  <2>7. seen1 = 0 /\ tries1 = 0 BY <1>7 DEF SeenAfter, TriesAfter
  <2> HIDE DEF seen1, tries1
  <2> QED BY <1>3, <1>6, <2>2, <2>3, <2>5, <2>6, <2>7 DEF RecalSound, SameRecal
<1>8. ASSUME InZone(x.v) PROVE Kept
  <2>1. z = t BY <1>8
  <2>2. SameRecal(t, m) BY <1>6, <2>1
  <2> HIDE DEF z, m
  <2>3. CASE x.weekly \/ ~begun
    <3>1. u = AsksNot(m) BY <1>1, <2>3, Zenon DEF Override, AsksNot
    <3>2. u \in TcStates /\ u.count = m.count /\ ~u.over BY <1>6, <3>1, AsksNotIs
    <3>3. (u.active <=> m.active) /\ (u.latched <=> m.latched) /\ (u.pending <=> m.pending)
      BY <1>6, <3>1, AsksNotIs
    <3>4. tries1 = tries BY <1>8, <2>2, <3>3 DEF SameRecal, TriesAfter
    <3>5. seen1 = 0 \/ (~CutSignature(x) /\ seen1 = seen)
      BY <1>8, <2>3 DEF SeenAfter
    <3> HIDE DEF seen1, tries1
    <3> QED BY <1>2, <1>3, <2>2, <3>2, <3>3, <3>4, <3>5 DEF RecalSound, SameRecal
  <2>4. CASE ~x.weekly /\ begun
    <3>1. u = RecalOverride(m, x) BY <1>1, <2>4
    <3>2. RecalSound(m, seen, tries) BY <2>2 DEF RecalSound, SameRecal
    <3>3. u \in TcStates /\ RecalSound(u, SeenAfter(m, u, x, seen), TriesAfter(m, u, x, tries))
      BY <1>6, <1>8, <3>1, <3>2, RecalOverrideKeeps
    <3>4. SeenAfter(m, u, x, seen) = seen1 /\ TriesAfter(m, u, x, tries) = tries1
      BY <2>2 DEF SeenAfter, TriesAfter, SameRecal, Sustained
    <3> HIDE DEF seen1, tries1
    <3> QED BY <3>3, <3>4
  <2> QED BY <2>3, <2>4
<1>9. Kept BY <1>7, <1>8
<1> QED BY <1>9 DEF u

-----------------------------------------------------------------------------
(* Coupled packs: the retry.                                                 *)
LEMMA PrepareRetryIs ==
    ASSUME NEW t \in TcStates, NEW x, t.pending => ~t.active /\ t.meas = "none"
    PROVE LET r == PrepareRetry(t, x)
          IN /\ r \in TcStates /\ r.phase = t.phase /\ r.wait = t.wait
             /\ t.meas # "none" => r.meas = t.meas /\ ~r.active /\ ~r.pending
             /\ r.pending => ~r.active /\ r.meas = "none"
             /\ r.meas = "none" /\ ~r.pending /\ Confirmed(r) => ~r.active
<1> DEFINE r == PrepareRetry(t, x)
           Sound == /\ r \in TcStates /\ r.phase = t.phase /\ r.wait = t.wait
                    /\ (t.meas # "none" => r.meas = t.meas /\ ~r.active /\ ~r.pending)
                    /\ (r.pending => ~r.active /\ r.meas = "none")
                    /\ (r.meas = "none" /\ ~r.pending /\ Confirmed(r) => ~r.active)
           drop == DropRetry(t)
           cuts == Measures(drop, "pending")
           open == OpenRetry(t)
           waits == Waiting(t)
           ends == NotPending(t)
<1>1. drop \in TcStates /\ drop.phase = t.phase /\ drop.wait = t.wait /\ drop.meas = t.meas
  BY DropRetryIs
<1>2. ~drop.active /\ ~drop.pending BY DropRetryIs
<1>3. /\ open \in TcStates /\ open.phase = t.phase /\ open.wait = t.wait /\ open.meas = t.meas
      /\ open.cut = 0
  BY OpenRetryIs
<1>4. ~open.pending BY OpenRetryIs
<1>5. ends \in TcStates /\ ends.phase = t.phase /\ ends.wait = t.wait /\ ends.meas = t.meas
  BY NotPendingIs
<1>6. ~ends.pending /\ (ends.active <=> t.active) BY NotPendingIs
<1>7. waits \in TcStates /\ waits.phase = t.phase /\ waits.wait = t.wait /\ waits.meas = t.meas
  BY WaitingIs
<1>8. waits.active <=> t.active BY WaitingIs
<1>9. cuts \in TcStates /\ cuts.phase = t.phase /\ cuts.wait = t.wait /\ cuts.meas = "pending"
  <2> HIDE DEF drop
  <2> QED BY <1>1, MeasuresIs
<1>10. ~cuts.active /\ ~cuts.pending
  <2> HIDE DEF drop
  <2> QED BY <1>1, <1>2, MeasuresIs
<1>11. ~Confirmed(open) BY <1>3, TcNumbers DEF Confirmed
<1>12. \/ r = drop /\ t.meas # "none"
       \/ t.meas = "none" /\ t.pending /\ r \in {ends, open, t}
       \/ t.meas = "none" /\ ~t.pending /\ t.active /\ (r \in {drop, cuts} \/ (r = t /\ ~Confirmed(t)))
       \/ t.meas = "none" /\ ~t.pending /\ ~t.active /\ r \in {t, open, waits}
  BY Zenon DEF PrepareRetry, NotPending, Waiting, Measures
<1>13. Sound
  <2> HIDE DEF r, drop, cuts, open, waits, ends
  <2>1. CASE r = drop BY <2>1, <1>1, <1>2
  <2>2. CASE r = open /\ t.meas = "none" BY <2>2, <1>3, <1>4, <1>11
  <2>3. CASE r = ends /\ t.meas = "none" /\ ~t.active BY <2>3, <1>5, <1>6
  <2>4. CASE r = waits /\ t.meas = "none" /\ ~t.active BY <2>4, <1>7, <1>8
  <2>5. CASE r = cuts /\ t.meas = "none" BY <2>5, <1>9, <1>10
  <2>6. CASE r = t /\ t.meas = "none" /\ (~t.active \/ ~Confirmed(t)) BY <2>6
  <2> QED BY <1>12, <2>1, <2>2, <2>3, <2>4, <2>5, <2>6, Zenon
<1> QED BY <1>13

LEMMA RefreshCoupledIs ==
    ASSUME NEW t \in TcStates, NEW x, t.pending => ~t.active /\ t.meas = "none"
    PROVE LET u == RefreshCoupled(t, x)
          IN /\ u \in TcStates
             /\ t.meas # "none" => u.meas # "none" /\ ~u.active
             /\ u.pending => u.meas = "none" /\ ~u.active
             /\ u.meas # "none" => ~u.active /\ ~u.owned
<1> DEFINE u == RefreshCoupled(t, x)
           r == PrepareRetry(t, x)
           drop == DropRetry(r)
           has == InZone(x.v) /\ (r.active \/ r.owned \/ AtPause(x.v))
           Sound == /\ u \in TcStates
                    /\ (t.meas # "none" => u.meas # "none" /\ ~u.active)
                    /\ (u.pending => u.meas = "none" /\ ~u.active)
                    /\ (u.meas # "none" => ~u.active /\ ~u.owned)
<1>1. /\ r \in TcStates
      /\ (t.meas # "none" => r.meas = t.meas /\ ~r.active /\ ~r.pending)
      /\ (r.pending => ~r.active /\ r.meas = "none")
      /\ (r.meas = "none" /\ ~r.pending /\ Confirmed(r) => ~r.active)
  BY PrepareRetryIs
<1>2. \/ r.pending /\ u = Unowned(r)
      \/ ~r.pending /\ r.meas # "none" /\ u = NotOwned(drop)
      \/ ~r.pending /\ r.meas = "none" /\ Confirmed(r) /\ u = CutsOff(r)
      \/ ~r.pending /\ r.meas = "none" /\ ~Confirmed(r) /\ u = TcOwned(r, has)
  BY Zenon DEF RefreshCoupled, Unowned, CutsOff, NotOwned, TcOwned
<1>3. drop \in TcStates /\ drop.meas = r.meas /\ ~drop.active /\ ~drop.pending
  <2> HIDE DEF r
  <2>1. drop \in TcStates /\ drop.meas = r.meas BY <1>1, DropRetryIs
  <2>2. ~drop.active /\ ~drop.pending BY <1>1, DropRetryIs
  <2> QED BY <2>1, <2>2
<1>4. has \in BOOLEAN OBVIOUS
<1>5. Sound
  <2> HIDE DEF u, r, drop, has
  <2>1. ASSUME r.pending, u = Unowned(r) PROVE Sound
    <3>1. u \in TcStates /\ u.meas = "none" BY <1>1, <2>1, UnownedIs
    <3>2. u.active <=> r.active BY <1>1, <2>1, UnownedIs
    <3> QED BY <1>1, <2>1, <3>1, <3>2
  <2>2. ASSUME r.meas # "none", u = NotOwned(drop) PROVE Sound
    <3>1. u \in TcStates /\ u.meas = drop.meas BY <1>3, <2>2, NotOwnedIs
    <3>2. ~u.owned BY <1>3, <2>2, NotOwnedIs
    <3>3. (u.active <=> drop.active) /\ (u.pending <=> drop.pending) BY <1>3, <2>2, NotOwnedIs
    <3> QED BY <1>3, <2>2, <3>1, <3>2, <3>3
  <2>3. ASSUME ~r.pending, r.meas = "none", Confirmed(r), u = CutsOff(r) PROVE Sound
    <3>1. u \in TcStates /\ u.meas = "pending" BY <1>1, <2>3, CutsOffIs
    <3>2. ~u.owned BY <1>1, <2>3, CutsOffIs
    <3>3. u.active <=> r.active BY <1>1, <2>3, CutsOffIs
    <3>4. u.pending <=> r.pending BY <1>1, <2>3, CutsOffIs
    <3> QED BY <1>1, <2>3, <3>1, <3>2, <3>3, <3>4
  <2>4. ASSUME ~r.pending, r.meas = "none", u = TcOwned(r, has) PROVE Sound
    <3>1. u \in TcStates /\ u.meas = r.meas BY <1>1, <1>4, <2>4, OwnedIs
    <3>2. u.pending <=> r.pending BY <1>1, <1>4, <2>4, OwnedIs
    <3> QED BY <1>1, <2>4, <3>1, <3>2
  <2> QED BY <1>2, <2>1, <2>2, <2>3, <2>4
<1> QED BY <1>5

-----------------------------------------------------------------------------
(* The measurement.                                                          *)
LEMMA NoPhaseLeaves == \A t \in TcStates :
    NoPhase(t) \in TcStates /\ SameRecal(t, NoPhase(t)) /\ NoPhase(t).phase = "none"
    /\ NoPhase(t).meas = t.meas /\ NoPhase(t).cut = t.cut /\ (NoPhase(t).owned <=> t.owned)
<1> TAKE t \in TcStates
<1> DEFINE u == NoPhase(t)
<1>1. u \in TcStates /\ u.phase = "none" /\ u.meas = t.meas /\ u.cut = t.cut BY NoPhaseIs
<1>2. SameRecal(t, u) BY NoPhaseIs DEF SameRecal
<1>3. u.owned <=> t.owned BY NoPhaseIs
<1> QED BY <1>1, <1>2, <1>3

LEMMA MeasureIs ==
    ASSUME NEW t \in TcStates, NEW x
    PROVE LET u == Measure(t, x)
          IN /\ u \in TcStates /\ SameRecal(t, u) /\ (u.owned <=> t.owned)
             /\ t.meas # "none" <=> u.meas # "none"
             /\ Skipped(t, x) => u.phase = "none"
<1> DEFINE u == Measure(t, x)
           Sound(v) == /\ v \in TcStates /\ SameRecal(t, v) /\ (v.owned <=> t.owned)
                       /\ (t.meas # "none" <=> v.meas # "none")
           p == IF t.phase = "none" THEN [t EXCEPT !.phase = "wait"] ELSE t
           q == IF p.phase = "wait" /\ p.wait >= TcWait
                THEN [p EXCEPT !.phase = "measured", !.wait = 0,
                               !.meas = IF @ = "pending" THEN "done" ELSE @]
                ELSE IF p.phase = "wait" THEN [p EXCEPT !.wait = @ + 1] ELSE p
<1>1. ASSUME NEW v \in TcStates, Sound(v) PROVE Sound(NoPhase(v))
  <2>1. NoPhase(v) \in TcStates /\ SameRecal(v, NoPhase(v)) /\ NoPhase(v).meas = v.meas
        /\ (NoPhase(v).owned <=> v.owned)
    BY NoPhaseLeaves
  <2>2. SameRecal(t, NoPhase(v)) BY <1>1, <2>1 DEF SameRecal
  <2> QED BY <1>1, <2>1, <2>2
<1>2. Sound(t) BY DEF SameRecal
<1>3. Sound(p)
  <2>1. CASE t.phase = "none"
    <3>1. p = Waits(t) BY <2>1, Zenon DEF Waits
    <3> HIDE DEF p
    <3>2. p \in TcStates /\ p.meas = t.meas BY <3>1, WaitsIs
    <3>3. SameRecal(t, p) BY <3>1, WaitsIs DEF SameRecal
    <3>4. p.owned <=> t.owned BY <3>1, WaitsIs
    <3> QED BY <3>2, <3>3, <3>4
  <2>2. CASE t.phase # "none" BY <1>2, <2>2
  <2> QED BY <2>1, <2>2
<1>4. Sound(q)
  <2> HIDE DEF p
  <2>1. p \in TcStates /\ SameRecal(t, p) /\ (p.owned <=> t.owned) /\ (t.meas # "none" <=> p.meas # "none")
    BY <1>3
  <2>2. CASE p.phase = "wait" /\ p.wait >= TcWait
    <3> DEFINE m == IF p.meas = "pending" THEN "done" ELSE p.meas
    <3>1. q = Measured(p, m) BY <2>2, Zenon DEF Measured
    <3>2. m \in {"none", "pending", "done"} /\ (m = "none" <=> p.meas = "none") BY <2>1 DEF TcStates
    <3> HIDE DEF q, m
    <3>3. q \in TcStates /\ q.meas = m BY SMTT(30), <2>1, <3>1, <3>2, MeasuredIs
    <3>4. SameRecal(p, q) BY SMTT(30), <2>1, <3>1, <3>2, MeasuredIs DEF SameRecal
    <3>5. q.owned <=> p.owned BY <2>1, <3>1, <3>2, MeasuredIs
    <3> QED BY <2>1, <3>2, <3>3, <3>4, <3>5 DEF SameRecal
  <2>3. CASE p.phase = "wait" /\ ~(p.wait >= TcWait)
    <3>1. q = WaitsOn(p) BY <2>3, Zenon DEF WaitsOn
    <3>2. p.wait < TcWait BY <2>1, <2>3, TcNumbers DEF TcStates
    <3> HIDE DEF q
    <3>3. q \in TcStates /\ q.meas = p.meas BY <2>1, <3>1, <3>2, WaitsOnIs
    <3>4. SameRecal(p, q) BY <2>1, <3>1, WaitsOnIs DEF SameRecal
    <3>5. q.owned <=> p.owned BY <2>1, <3>1, WaitsOnIs
    <3> QED BY <2>1, <3>3, <3>4, <3>5 DEF SameRecal
  <2>4. CASE p.phase # "wait" BY <1>3, <2>4
  <2> QED BY <2>2, <2>3, <2>4
<1>5. \/ Skipped(t, x) /\ u = NoPhase(t)
      \/ ~Skipped(t, x) /\ u \in {t, q, NoPhase(q)}
  BY Zenon DEF Measure
<1>6. Sound(u) /\ (Skipped(t, x) => u.phase = "none")
  <2> HIDE DEF u, q
  <2>1. CASE Skipped(t, x) /\ u = NoPhase(t) BY <2>1, <1>1, <1>2, NoPhaseLeaves
  <2>2. CASE ~Skipped(t, x) /\ u = t BY <2>2, <1>2
  <2>3. CASE ~Skipped(t, x) /\ u = q BY <2>3, <1>4
  <2>4. CASE ~Skipped(t, x) /\ u = NoPhase(q) BY <2>4, <1>1, <1>4
  <2> QED BY <1>5, <2>1, <2>2, <2>3, <2>4
<1> QED BY <1>6

-----------------------------------------------------------------------------
(* The actions.                                                              *)
LEMMA TopCycleKeeps == ASSUME TcInv, NEW x \in Samples, TopCycle(x) PROVE TcInv'
<1> DEFINE t == TickCutoff(TickAcceptance(tc, x), x)
           b == RefreshBlocks(t, x)
           u == Measure(b, x)
<1>1. /\ tc \in TcStates /\ tcKind \in {"single", "coupled"}
      /\ tcSeen \in 0..TcConfirm /\ tcTries \in 0..2
      /\ (tcKind = "single" => RecalSound(tc, tcSeen, tcTries))
      /\ (tcKind = "coupled" => CutoffSound(tc, tcTries))
  BY DEF TcInv
<1>2. /\ tc' = u /\ tcKind' = tcKind
      /\ tcSeen' = IF \/ ~InZone(x.v) \/ x.weekly \/ x.soc >= 99 \/ (x.takes /\ tc.run + 1 >= TcConfirm)
                      \/ (u.active /\ ~tc.active)
                   THEN 0 ELSE IF CutSignature(x) THEN AtMost(tcSeen + 1) ELSE tcSeen
      /\ tcTries' = IF ~InZone(x.v) \/ (tc.active /\ ~u.active /\ tcKind = "coupled" /\ u.meas = "none")
                    THEN 0
                    ELSE IF ~tc.active /\ u.active /\ tcTries < 2 THEN tcTries + 1 ELSE tcTries
  BY Zenon DEF TopCycle
<1>3. /\ t \in TcStates /\ SameHold(tc, t)
      /\ (t.over <=> tc.over) /\ t.count = tc.count /\ (t.latched <=> tc.latched)
      /\ (t.pending <=> tc.pending) /\ t.run = tc.run /\ (t.active => tc.active)
      /\ (tcKind = "single" => (t.active <=> tc.active))
  BY <1>1, TicksIs
<1>5. tcSeen' \in 0..TcConfirm /\ tcTries' \in 0..2
  <2> HIDE DEF u
  <2> QED BY <1>1, <1>2, TcNumbers, AtMostType
<1>6. CASE tcKind = "single"
  <2>1. b = RefreshSingle(t, x) BY <1>6 DEF RefreshBlocks
  <2>2. RecalSound(t, tcSeen, tcTries) BY <1>1, <1>3, <1>6 DEF RecalSound
  <2> HIDE DEF t
  <2>3. b \in TcStates /\ RecalSound(b, SeenAfter(t, b, x, tcSeen), TriesAfter(t, b, x, tcTries))
    BY <1>1, <1>3, <2>1, <2>2, RefreshSingleKeeps
  <2> HIDE DEF b
  <2>4. /\ u \in TcStates /\ SameRecal(b, u) /\ (b.meas # "none" <=> u.meas # "none")
        /\ (Skipped(b, x) => u.phase = "none")
    BY <2>3, MeasureIs
  <2> HIDE DEF u
  <2>5. SeenAfter(t, b, x, tcSeen) = tcSeen' /\ TriesAfter(t, b, x, tcTries) = tcTries'
    BY <1>2, <1>3, <1>6, <2>4 DEF SeenAfter, TriesAfter, SameRecal, Sustained
  <2>6. RecalSound(u, tcSeen', tcTries') BY <2>3, <2>4, <2>5 DEF RecalSound, SameRecal
  <2>7. u.phase # "none" /\ u.over => u.meas # "none" BY <1>6, <2>4 DEF Skipped, SameRecal
  <2> QED BY <1>1, <1>2, <1>5, <1>6, <2>4, <2>6, <2>7 DEF TcInv, HoldOrRetry
<1>7. CASE tcKind = "coupled"
  <2> DEFINE l == TaperLatch(t, x)
  <2>1. b = RefreshCoupled(l, x) BY <1>7 DEF RefreshBlocks
  <2>2. /\ (tcTries >= 1 => tc.active \/ tc.meas # "none")
        /\ (tc.pending => ~tc.active /\ tc.meas = "none") /\ tcTries <= 1
    BY <1>1, <1>7 DEF CutoffSound
  <2> HIDE DEF t
  <2>3. l \in TcStates /\ SameHold(t, l) /\ SameRecal(t, l) BY <1>3, TaperLatchIs
  <2> HIDE DEF l
  <2>4. l.pending => ~l.active /\ l.meas = "none" BY <1>3, <2>2, <2>3 DEF SameHold, SameRecal
  <2>5. /\ b \in TcStates
        /\ (l.meas # "none" => b.meas # "none" /\ ~b.active)
        /\ (b.pending => b.meas = "none" /\ ~b.active)
        /\ (b.meas # "none" => ~b.active /\ ~b.owned)
    BY <2>1, <2>3, <2>4, RefreshCoupledIs
  <2> HIDE DEF b
  <2>6. /\ u \in TcStates /\ SameRecal(b, u) /\ (u.owned <=> b.owned)
        /\ (b.meas # "none" <=> u.meas # "none")
        /\ (Skipped(b, x) => u.phase = "none")
    BY <2>5, MeasureIs
  <2> HIDE DEF u
  <2>7. tc.meas = l.meas BY <1>3, <2>3 DEF SameHold
  <2>8. u.active <=> b.active BY <2>6 DEF SameRecal
  <2>9. u.pending <=> b.pending BY <2>6 DEF SameRecal
  <2>10. tc.meas # "none" => u.meas # "none" /\ ~u.active BY <2>5, <2>6, <2>7, <2>8
  <2>11. tcTries' <= 1 BY <1>1, <1>2, <2>2, <2>10
  <2>12. tcTries' >= 1 => u.active \/ u.meas # "none" BY <1>1, <1>2, <1>7, <2>2, <2>10
  <2>13. CutoffSound(u, tcTries') BY <2>5, <2>6, <2>8, <2>9, <2>11, <2>12 DEF CutoffSound
  <2>14. u.phase # "none" => ~u.active /\ ~u.owned BY <1>7, <2>5, <2>6, <2>8 DEF Skipped
  <2> QED BY <1>1, <1>2, <1>5, <1>7, <2>6, <2>13, <2>14 DEF TcInv, HoldOrRetry
<1> QED BY <1>1, <1>6, <1>7

LEMMA NewDayKeeps == ASSUME TcInv, TopNewDay PROVE TcInv'
<1>1. /\ tc \in TcStates /\ tcKind \in {"single", "coupled"}
      /\ (tcKind = "coupled" => CutoffSound(tc, tcTries))
  BY DEF TcInv
<1>2. tcSeen' = 0 /\ tcTries' = 0 /\ tcKind' = tcKind BY DEF TopNewDay, Forgotten
<1>3. CASE tcKind = "single"
  <2> DEFINE l == Untapered(tc)
             d == DropRecal(l)
             u == Restarted(d, tc.run)
  <2>1. tc' = u BY <1>3, Zenon DEF TopNewDay, Untapered, Restarted
  <2>2. l \in TcStates BY <1>1, UntaperedIs
  <2> HIDE DEF l
  <2>3. d \in TcStates /\ d.count = 0 /\ ~d.over BY <2>2, DropRecalIs
  <2>4. ~d.latched /\ ~d.pending /\ ~d.active BY <2>2, DropRecalIs
  <2>5. tc.run \in 0..TcConfirm BY <1>1 DEF TcStates
  <2> HIDE DEF d
  <2>6. u \in TcStates /\ u.count = d.count /\ u.phase = "none" BY <2>3, <2>5, RestartedIs
  <2>7. (u.over <=> d.over) /\ (u.latched <=> d.latched) BY <2>3, <2>5, RestartedIs
  <2>8. (u.pending <=> d.pending) /\ (u.active <=> d.active) BY <2>3, <2>5, RestartedIs
  <2> HIDE DEF u
  <2>9. RecalSound(u, 0, 0) BY <2>3, <2>4, <2>6, <2>7, <2>8, TcNumbers DEF RecalSound
  <2> QED BY <1>1, <1>2, <1>3, <2>1, <2>6, <2>9, TcNumbers DEF TcInv, HoldOrRetry
<1>4. CASE tcKind = "coupled"
  <2> DEFINE u == Morning(tc)
  <2>1. tc' = u BY <1>4, Zenon DEF TopNewDay, Morning
  <2>2. u \in TcStates /\ u.phase = "none" /\ u.meas = tc.meas BY <1>1, MorningIs
  <2>3. (u.active <=> tc.active) /\ (u.pending <=> tc.pending) BY <1>1, MorningIs
  <2> HIDE DEF u
  <2>4. CutoffSound(u, 0) BY <1>1, <1>4, <2>2, <2>3 DEF CutoffSound
  <2> QED BY <1>1, <1>2, <1>4, <2>1, <2>2, <2>4, TcNumbers DEF TcInv, HoldOrRetry
<1> QED BY <1>1, <1>3, <1>4

LEMMA HandoverKeeps == ASSUME TcInv, TopHandover PROVE TcInv'
<1> DEFINE t == HandedOver(tc)
<1>1. /\ tc \in TcStates /\ tcKind \in {"single", "coupled"}
      /\ (tcKind = "single" => RecalSound(tc, tcSeen, tcTries)) /\ HoldOrRetry
      /\ tcSeen \in 0..TcConfirm /\ tcTries \in 0..2
  BY DEF TcInv
<1>2. /\ tcSeen' = 0 /\ tcTries' = 0 /\ tcKind' = tcKind
      /\ tc' = IF tcKind = "coupled" THEN DropRetry(t) ELSE t
  BY Zenon DEF TopHandover, Forgotten, HandedOver
<1>3. t \in TcStates /\ t.cut = 0 /\ t.meas = "none" /\ t.phase = tc.phase /\ t.count = tc.count
  BY <1>1, HandedOverIs
<1>4. ~t.owned /\ (t.active <=> tc.active) BY <1>1, HandedOverIs
<1>5. (t.pending <=> tc.pending) /\ (t.over <=> tc.over) BY <1>1, HandedOverIs
<1>6. t.latched <=> tc.latched BY <1>1, HandedOverIs
<1> HIDE DEF t
<1>7. CASE tcKind = "single"
  <2>1. RecalSound(t, 0, 0) BY <1>1, <1>3, <1>4, <1>5, <1>6, <1>7, TcNumbers DEF RecalSound, TcStates
  <2> QED BY <1>1, <1>2, <1>3, <1>7, <2>1, TcNumbers DEF TcInv, HoldOrRetry
<1>8. CASE tcKind = "coupled"
  <2> DEFINE u == DropRetry(t)
  <2>1. u \in TcStates BY <1>3, DropRetryIs
  <2>2. ~u.active /\ ~u.pending BY <1>3, DropRetryIs
  <2>3. u.owned <=> t.owned BY <1>3, DropRetryIs
  <2> HIDE DEF u
  <2>4. CutoffSound(u, 0) BY <2>2 DEF CutoffSound
  <2>5. tc' = u BY <1>2, <1>8 DEF u
  <2> QED BY <1>1, <1>2, <1>4, <1>8, <2>1, <2>2, <2>3, <2>4, <2>5, TcNumbers DEF TcInv, HoldOrRetry
<1> QED BY <1>1, <1>7, <1>8

LEMMA NoDataKeeps == ASSUME TcInv, TopNoData PROVE TcInv'
<1> DEFINE t == Blind(tc)
           d == IF tcKind = "coupled" THEN DropRetry(t) ELSE t
           u == NoPhase(d)
<1>1. /\ tc \in TcStates /\ tcKind \in {"single", "coupled"}
      /\ (tcKind = "single" => RecalSound(tc, tcSeen, tcTries))
      /\ tcSeen \in 0..TcConfirm /\ tcTries \in 0..2
  BY DEF TcInv
<1>2. tcSeen' = 0 /\ tcTries' = 0 /\ tcKind' = tcKind /\ tc' = u
  BY Zenon DEF TopNoData, Forgotten, Blind
<1>3. t \in TcStates /\ t.meas = "none" /\ t.count = tc.count BY <1>1, BlindIs
<1>4. ~t.over /\ (t.active <=> tc.active) BY <1>1, BlindIs
<1>5. (t.pending <=> tc.pending) /\ (t.latched <=> tc.latched) BY <1>1, BlindIs
<1> HIDE DEF t
<1>6. d \in TcStates BY <1>3, DropRetryIs
<1>7. tcKind = "single" => d = t OBVIOUS
<1>8. tcKind = "coupled" => ~d.active /\ ~d.pending BY <1>3, DropRetryIs
<1> HIDE DEF d
<1>9. u \in TcStates /\ SameRecal(d, u) /\ u.phase = "none" BY <1>6, NoPhaseLeaves
<1> HIDE DEF u
<1>10. CASE tcKind = "single"
  <2>1. RecalSound(u, 0, 0)
    BY <1>1, <1>3, <1>4, <1>5, <1>7, <1>9, <1>10, TcNumbers DEF RecalSound, SameRecal, TcStates
  <2> QED BY <1>1, <1>2, <1>9, <1>10, <2>1, TcNumbers DEF TcInv, HoldOrRetry
<1>11. CASE tcKind = "coupled"
  <2>1. CutoffSound(u, 0) BY <1>8, <1>9, <1>11 DEF CutoffSound, SameRecal
  <2> QED BY <1>1, <1>2, <1>9, <1>11, <2>1, TcNumbers DEF TcInv, HoldOrRetry
<1> QED BY <1>1, <1>10, <1>11

LEMMA StartSound ==
    /\ TcStart \in TcStates /\ TcStart.phase = "none" /\ TcStart.count = 0
    /\ ~TcStart.over /\ ~TcStart.latched /\ ~TcStart.pending /\ ~TcStart.active
    /\ RecalSound(TcStart, 0, 0) /\ CutoffSound(TcStart, 0)
<1>1. TcStart \in TcStates BY TcNumbers DEF TcStart, TcStates
<1>2. TcStart.count = 0 /\ ~TcStart.over /\ TcStart.phase = "none" BY DEF TcStart
<1>3. ~TcStart.latched /\ ~TcStart.pending /\ ~TcStart.active BY DEF TcStart
<1> QED BY <1>1, <1>2, <1>3, TcNumbers DEF RecalSound, CutoffSound

LEMMA TaperOffKeeps == ASSUME TcInv, TaperOff PROVE TcInv'
<1> DEFINE u == Leaves(TcStart, tc.cut, tc.streak)
<1>1. tc \in TcStates /\ tcKind \in {"single", "coupled"} BY DEF TcInv
<1>2. tcSeen' = 0 /\ tcTries' = 0 /\ tcKind' = tcKind /\ tc' = u
  BY Zenon DEF TaperOff, Forgotten, Leaves
<1>3. tc.cut \in 0..TcConfirm /\ tc.streak \in 0..TcConfirm BY <1>1 DEF TcStates
<1>4. TcStart \in TcStates BY StartSound
<1>5. u \in TcStates /\ u.count = TcStart.count /\ u.phase = TcStart.phase BY <1>3, <1>4, LeavesIs
<1>6. (u.over <=> TcStart.over) /\ (u.latched <=> TcStart.latched) BY <1>3, <1>4, LeavesIs
<1>7. (u.pending <=> TcStart.pending) /\ (u.active <=> TcStart.active) BY <1>3, <1>4, LeavesIs
<1> HIDE DEF u
<1>8. RecalSound(u, 0, 0) /\ CutoffSound(u, 0)
  <2>1. ~u.over /\ ~u.latched /\ ~u.pending /\ ~u.active BY <1>6, <1>7, StartSound
  <2>2. u.count = 0 BY <1>5, StartSound
  <2> QED BY <2>1, <2>2, TcNumbers DEF RecalSound, CutoffSound
<1> QED BY <1>1, <1>2, <1>5, <1>8, StartSound, TcNumbers DEF TcInv, HoldOrRetry

(* The last stretch of a charge, for every number of confirming cycles and of  *)
(* cycles of rest, on any sequence of samples, day changes, handoffs and lost   *)
(* readings: a refusal is believed, tried once more, and what rests is not      *)
(* pushed (control/max_soc_charge.py).                                          *)
THEOREM TopCorrect == TcSpec => []RetriedOnce
<1>1. TcInit => TcInv BY StartSound, TcNumbers DEF TcInit, TcInv, HoldOrRetry
<1>2. TcInv /\ [TcNext]_tcVars => TcInv'
  <2> SUFFICES ASSUME TcInv, [TcNext]_tcVars PROVE TcInv' OBVIOUS
  <2>1. CASE UNCHANGED tcVars BY <2>1 DEF tcVars, TcInv, HoldOrRetry
  <2> QED BY <2>1, TopCycleKeeps, NewDayKeeps, HandoverKeeps, NoDataKeeps, TaperOffKeeps DEF TcNext
<1>3. TcInv => RetriedOnce
  <2> SUFFICES ASSUME TcInv PROVE RetriedOnce OBVIOUS
  <2>1. TcTypeOK BY DEF TcInv, TcTypeOK, TcStates
  <2>2. RefusalEndsRecal BY TcNumbers DEF TcInv, RefusalEndsRecal, RecalSound, TcStates
  <2>3. OneRetry BY DEF TcInv, OneRetry, RecalSound, CutoffSound
  <2> QED BY <2>1, <2>2, <2>3 DEF RetriedOnce, TcInv
<1> QED BY <1>1, <1>2, <1>3, PTL DEF TcSpec
-----------------------------------------------------------------------------
(* Price slots.                                                              *)
(* Sums over a set of slots.  The library defines them by a recursive choice of elements; what follows *)
(* shows that any element may be taken out of a sum first.                                             *)
LEMMA LowestOf ==
    ASSUME NEW T, T \subseteq Nat, T # {}
    PROVE  \E m \in T : \A k \in T : m <= k
<1> DEFINE less == OpToRel(<, Nat)
<1>1. IsWellFoundedOn(less, Nat)
  BY NatLessThanWellFounded
<1>2. PICK m \in T : \A k \in T : ~(<<k, m>> \in less)
  <2> HIDE DEF less
  <2> QED BY <1>1, WFMin
<1>3. \A k \in T : ~(k < m)
  BY <1>2 DEF OpToRel
<1> QED BY <1>3

Some(s) == CHOOSE x \in s : TRUE
AllBut(s) == s \ {Some(s)}
Walks(g, f, S) == g = [s \in SUBSET S |-> IF s = {} THEN 0 ELSE f[Some(s)] + g[AllBut(s)]]
Summable(f, S) == IsFiniteSet(S) /\ \A x \in S : f[x] \in Int
LEMMA SumIs ==
   ASSUME NEW f, NEW S
   PROVE PsTotal(f, S) = (CHOOSE g : Walks(g, f, S))[S]
BY DEF PsTotal, MapThenSumSet, MapThenFoldSet, Walks, Some, AllBut

LEMMA SomeIn == \A s : s # {} => Some(s) \in s /\ AllBut(s) \subseteq s /\ Some(s) \notin AllBut(s) /\ s = AllBut(s) \cup {Some(s)}
BY DEF Some, AllBut

LEMMA SumRun ==
    ASSUME NEW f, NEW S, Summable(f, S)
    PROVE  \E g \in [SUBSET S -> Int] :
              g[{}] = 0 /\ \A s \in SUBSET S : s # {} => g[s] = f[Some(s)] + g[AllBut(s)]
<1> DEFINE Card(s) == Cardinality(s)
           Good(g, n) == g[{}] = 0 /\ \A s \in SUBSET S : s # {} /\ Card(s) <= n => g[s] = f[Some(s)] + g[AllBut(s)]
           D == {n \in Nat : \E g \in [SUBSET S -> Int] : Good(g, n)}
<1>0. IsFiniteSet(S) /\ Card(S) \in Nat
      /\ \A s \in SUBSET S : IsFiniteSet(s) /\ Card(s) \in Nat /\ (s # {} => Card(s) > 0 /\ Card(AllBut(s)) = Card(s) - 1 /\ AllBut(s) \in SUBSET S /\ f[Some(s)] \in Int) /\ Card(s) <= Card(S)
  <2>1. \A s \in SUBSET S : IsFiniteSet(s) /\ Card(s) \in Nat /\ Card(s) <= Card(S)
    BY FS_Subset, FS_CardinalityType DEF Summable
  <2>2. ASSUME NEW s \in SUBSET S, s # {} PROVE Card(s) > 0 /\ Card(AllBut(s)) = Card(s) - 1 /\ AllBut(s) \in SUBSET S /\ f[Some(s)] \in Int
    <3>1. Some(s) \in s
      BY <2>2, SomeIn
    <3>2. Card(AllBut(s)) = Card(s) - 1
      BY <2>1, <3>1, FS_RemoveElement DEF AllBut
    <3>3. Card(s) # 0
      BY <2>1, <2>2, FS_EmptySet
    <3> QED BY <2>1, <3>1, <3>2, <3>3 DEF Summable, AllBut
  <2> QED BY <2>1, <2>2 DEF Summable
<1> HIDE DEF Card
<1>1. 0 \in D
  <2>1. [s \in SUBSET S |-> 0] \in [SUBSET S -> Int]
    OBVIOUS
  <2>2. Good([s \in SUBSET S |-> 0], 0)
    BY <1>0
  <2> QED BY <2>1, <2>2
<1>2. ASSUME NEW n \in Nat, n \in D PROVE n + 1 \in D
  <2>1. PICK g \in [SUBSET S -> Int] : Good(g, n)
    BY <1>2
  <2> DEFINE h == [s \in SUBSET S |-> IF s = {} THEN 0 ELSE IF Card(s) = n + 1 THEN f[Some(s)] + g[AllBut(s)] ELSE g[s]]
  <2>2. h \in [SUBSET S -> Int]
    BY <1>0
  <2>3. ASSUME NEW s \in SUBSET S, s # {}, Card(s) <= n + 1 PROVE h[s] = f[Some(s)] + h[AllBut(s)]
    <3>1. AllBut(s) \in SUBSET S /\ Card(AllBut(s)) = Card(s) - 1 /\ Card(s) \in Nat
      BY <1>0, <2>3
    <3>2. h[AllBut(s)] = g[AllBut(s)]
      <4>1. Card(AllBut(s)) # n + 1
        BY <2>3, <3>1
      <4>2. h[AllBut(s)] = IF AllBut(s) = {} THEN 0 ELSE g[AllBut(s)]
        BY <3>1, <4>1
      <4>3. g[{}] = 0
        BY <2>1
      <4> HIDE DEF h
      <4> QED BY <4>2, <4>3
    <3>3. CASE Card(s) = n + 1
      BY <2>3, <3>2, <3>3
    <3>4. CASE Card(s) # n + 1
      <4>1. Card(s) <= n
        BY <2>3, <3>1, <3>4
      <4> QED BY <2>1, <2>3, <3>2, <3>4, <4>1
    <3> QED BY <3>3, <3>4
  <2>4. Good(h, n + 1)
    <3>1. h[{}] = 0
      OBVIOUS
    <3> HIDE DEF h
    <3> QED BY <2>3, <3>1
  <2> HIDE DEF Good, h
  <2> QED BY <2>2, <2>4
<1>3. \A n \in Nat : n \in D
  <2> HIDE DEF D
  <2> DEFINE bad == {n \in Nat : n \notin D}
  <2> SUFFICES ASSUME bad # {} PROVE FALSE
    OBVIOUS
  <2>1. bad \subseteq Nat
    OBVIOUS
  <2>2. PICK m \in bad : \A k \in bad : m <= k
    <3> HIDE DEF bad
    <3> QED BY <2>1, LowestOf
  <2>3. m \in Nat /\ m # 0 /\ m - 1 \in Nat /\ (m - 1) + 1 = m
    BY <1>1
  <2>4. m - 1 \in D
    BY <2>2, <2>3
  <2> QED BY <1>2, <2>3, <2>4
<1>4. PICK g \in [SUBSET S -> Int] : Good(g, Card(S))
  <2> HIDE DEF Good
  <2> QED BY <1>0, <1>3
<1> QED BY <1>0, <1>4

(* The walk CHOOSE takes. *)
LEMMA SumWalk ==
    ASSUME NEW f, NEW S, Summable(f, S)
    PROVE  \E g \in [SUBSET S -> Int] :
              /\ g[{}] = 0 /\ \A s \in SUBSET S : s # {} => g[s] = f[Some(s)] + g[AllBut(s)]
              /\ PsTotal(f, S) = g[S]
<1>1. PICK g \in [SUBSET S -> Int] : g[{}] = 0 /\ \A s \in SUBSET S : s # {} => g[s] = f[Some(s)] + g[AllBut(s)]
  BY SumRun
<1>2. Walks(g, f, S)
  <2>1. g = [s \in SUBSET S |-> g[s]]
    OBVIOUS
  <2>2. \A s \in SUBSET S : g[s] = IF s = {} THEN 0 ELSE f[Some(s)] + g[AllBut(s)]
    BY <1>1
  <2> QED BY <2>1, <2>2 DEF Walks
<1> DEFINE h == CHOOSE r : Walks(r, f, S)
<1>3. Walks(h, f, S)
  BY <1>2
<1>4. PsTotal(f, S) = h[S]
  BY SumIs
<1> HIDE DEF h
<1>5. h = [s \in SUBSET S |-> h[s]] /\ h[{}] = 0 /\ \A s \in SUBSET S : s # {} => h[s] = f[Some(s)] + h[AllBut(s)]
  BY <1>3 DEF Walks
<1>6. ASSUME NEW s \in SUBSET S PROVE h[s] = g[s]
  <2> DEFINE bad == {Cardinality(t) : t \in {t \in SUBSET S : h[t] # g[t]}}
  <2> SUFFICES ASSUME h[s] # g[s] PROVE FALSE
    OBVIOUS
  <2>1. \A t \in SUBSET S : IsFiniteSet(t) /\ Cardinality(t) \in Nat
    BY FS_Subset, FS_CardinalityType DEF Summable
  <2>2. bad \subseteq Nat /\ bad # {}
    BY <2>1
  <2>3. PICK m \in bad : \A k \in bad : m <= k
    <3> HIDE DEF bad
    <3> QED BY <2>2, LowestOf
  <2>4. PICK t \in SUBSET S : h[t] # g[t] /\ m = Cardinality(t)
    OBVIOUS
  <2>5. t # {}
    BY <1>1, <1>5, <2>4
  <2>6. AllBut(t) \in SUBSET S /\ Cardinality(AllBut(t)) = Cardinality(t) - 1
    BY <2>1, <2>5, SomeIn, FS_RemoveElement DEF AllBut
  <2>7. h[AllBut(t)] = g[AllBut(t)]
    <3> SUFFICES ASSUME h[AllBut(t)] # g[AllBut(t)] PROVE FALSE
      OBVIOUS
    <3>1. Cardinality(AllBut(t)) \in bad
      BY <2>6
    <3>2. m <= Cardinality(AllBut(t))
      <4> HIDE DEF bad
      <4> QED BY <2>3, <3>1
    <3>3. m = Cardinality(t) /\ Cardinality(t) \in Nat
      BY <2>1, <2>4
    <3> HIDE DEF bad
    <3> QED BY <2>6, <3>2, <3>3
  <2> QED BY <1>1, <1>5, <2>4, <2>5, <2>7
<1>7. h = g
  BY <1>5, <1>6
<1>8. PsTotal(f, S) = g[S]
  BY <1>4, <1>7
<1> QED BY <1>1, <1>8

LEMMA SumInt == ASSUME NEW f, NEW S, Summable(f, S) PROVE PsTotal(f, S) \in Int
<1>1. PICK g \in [SUBSET S -> Int] :
              /\ g[{}] = 0 /\ \A s \in SUBSET S : s # {} => g[s] = f[Some(s)] + g[AllBut(s)]
              /\ PsTotal(f, S) = g[S]
  BY SumWalk
<1> QED BY <1>1

LEMMA SumEmpty == ASSUME NEW f PROVE PsTotal(f, {}) = 0
<1>1. Summable(f, {})
  BY FS_EmptySet DEF Summable
<1> QED BY <1>1, SumWalk

(* The walk of a set contains the sums of its subsets. *)
LEMMA SumPart ==
    ASSUME NEW f, NEW S, Summable(f, S), S # {}
    PROVE  PsTotal(f, S) = f[Some(S)] + PsTotal(f, AllBut(S))
<1>1. PICK g \in [SUBSET S -> Int] :
              /\ g[{}] = 0 /\ \A s \in SUBSET S : s # {} => g[s] = f[Some(s)] + g[AllBut(s)]
              /\ PsTotal(f, S) = g[S]
  BY SumWalk
<1>2. AllBut(S) \subseteq S /\ Summable(f, AllBut(S))
  BY SomeIn, FS_Subset DEF Summable
<1>3. PICK h \in [SUBSET AllBut(S) -> Int] :
              /\ h[{}] = 0 /\ \A s \in SUBSET AllBut(S) : s # {} => h[s] = f[Some(s)] + h[AllBut(s)]
              /\ PsTotal(f, AllBut(S)) = h[AllBut(S)]
  BY <1>2, SumWalk
<1>4. ASSUME NEW s \in SUBSET AllBut(S) PROVE h[s] = g[s]
  <2> DEFINE bad == {Cardinality(t) : t \in {t \in SUBSET AllBut(S) : h[t] # g[t]}}
  <2> SUFFICES ASSUME h[s] # g[s] PROVE FALSE
    OBVIOUS
  <2>1. \A t \in SUBSET AllBut(S) : IsFiniteSet(t) /\ Cardinality(t) \in Nat
    BY <1>2, FS_Subset, FS_CardinalityType DEF Summable
  <2>2. bad \subseteq Nat /\ bad # {}
    BY <2>1
  <2>3. PICK m \in bad : \A k \in bad : m <= k
    <3> HIDE DEF bad
    <3> QED BY <2>2, LowestOf
  <2>4. PICK t \in SUBSET AllBut(S) : h[t] # g[t] /\ m = Cardinality(t)
    OBVIOUS
  <2>5. t # {}
    BY <1>1, <1>3, <2>4
  <2>6. AllBut(t) \in SUBSET AllBut(S) /\ Cardinality(AllBut(t)) = Cardinality(t) - 1
    BY <2>1, <2>5, SomeIn, FS_RemoveElement DEF AllBut
  <2>7. h[AllBut(t)] = g[AllBut(t)]
    <3> SUFFICES ASSUME h[AllBut(t)] # g[AllBut(t)] PROVE FALSE
      OBVIOUS
    <3>1. Cardinality(AllBut(t)) \in bad
      BY <2>6
    <3>2. m <= Cardinality(AllBut(t))
      <4> HIDE DEF bad
      <4> QED BY <2>3, <3>1
    <3>3. m = Cardinality(t) /\ Cardinality(t) \in Nat
      BY <2>1, <2>4
    <3> HIDE DEF bad
    <3> QED BY <2>6, <3>2, <3>3
  <2>8. t \in SUBSET S
    BY <1>2
  <2> QED BY <1>1, <1>3, <2>4, <2>5, <2>7, <2>8
<1> QED BY <1>1, <1>2, <1>3, <1>4

(* A sum may be split at any of its elements. *)
LEMMA SumTake ==
    ASSUME NEW f, NEW S, Summable(f, S), NEW x \in S
    PROVE  PsTotal(f, S) = f[x] + PsTotal(f, S \ {x})
<1> DEFINE bad == {Cardinality(s) : s \in {s \in SUBSET S : \E y \in s : PsTotal(f, s) # f[y] + PsTotal(f, s \ {y})}}
<1> SUFFICES ASSUME PsTotal(f, S) # f[x] + PsTotal(f, S \ {x}) PROVE FALSE
  OBVIOUS
<1>1. \A s \in SUBSET S : IsFiniteSet(s) /\ Cardinality(s) \in Nat /\ Summable(f, s)
  BY FS_Subset, FS_CardinalityType DEF Summable
<1>2. bad \subseteq Nat /\ bad # {}
  BY <1>1
<1>3. PICK m \in bad : \A k \in bad : m <= k
  <2> HIDE DEF bad
  <2> QED BY <1>2, LowestOf
<1>4. PICK s \in SUBSET S : m = Cardinality(s) /\ \E y \in s : PsTotal(f, s) # f[y] + PsTotal(f, s \ {y})
  OBVIOUS
<1>5. PICK y \in s : PsTotal(f, s) # f[y] + PsTotal(f, s \ {y})
  BY <1>4
<1> DEFINE z == Some(s)
<1>6. z \in s /\ PsTotal(f, s) = f[z] + PsTotal(f, s \ {z})
  <2>1. s # {}
    BY <1>5
  <2> QED BY <1>1, <2>1, SomeIn, SumPart DEF AllBut
<1>7. z # y
  BY <1>5, <1>6
<1> HIDE DEF z
<1>8. \A t \in SUBSET S : t \subseteq s /\ t # s => \A v \in t : PsTotal(f, t) = f[v] + PsTotal(f, t \ {v})
  <2> SUFFICES ASSUME NEW t \in SUBSET S, t \subseteq s, t # s, NEW v \in t, PsTotal(f, t) # f[v] + PsTotal(f, t \ {v}) PROVE FALSE
    OBVIOUS
  <2>1. Cardinality(t) < Cardinality(s)
    <3>1. PICK w \in s : w \notin t
      OBVIOUS
    <3>2. t \subseteq s \ {w}
      BY <3>1
    <3>3. IsFiniteSet(s \ {w}) /\ Cardinality(s \ {w}) = Cardinality(s) - 1
      BY <1>1, <3>1, FS_RemoveElement
    <3>4. Cardinality(t) <= Cardinality(s \ {w})
      BY <3>2, <3>3, FS_Subset
    <3> QED BY <1>1, <3>3, <3>4
  <2>2. Cardinality(t) \in bad
    OBVIOUS
  <2> QED BY <1>1, <1>3, <1>4, <2>1, <2>2
<1>9. PsTotal(f, s \ {z}) = f[y] + PsTotal(f, (s \ {z}) \ {y})
  <2>1. s \ {z} \in SUBSET S /\ s \ {z} \subseteq s /\ s \ {z} # s /\ y \in s \ {z}
    BY <1>6, <1>7
  <2> QED BY <1>8, <2>1
<1>10. PsTotal(f, s \ {y}) = f[z] + PsTotal(f, (s \ {y}) \ {z})
  <2>1. s \ {y} \in SUBSET S /\ s \ {y} \subseteq s /\ s \ {y} # s /\ z \in s \ {y}
    BY <1>6, <1>7
  <2> QED BY <1>8, <2>1
<1>11. (s \ {y}) \ {z} = (s \ {z}) \ {y}
  OBVIOUS
<1>12. f[y] \in Int /\ f[z] \in Int /\ PsTotal(f, (s \ {z}) \ {y}) \in Int
  <2>1. (s \ {z}) \ {y} \in SUBSET S
    OBVIOUS
  <2> QED BY <1>1, <1>6, <2>1, SumInt DEF Summable
<1> DEFINE a == PsTotal(f, s)  b == PsTotal(f, s \ {z})  c == PsTotal(f, s \ {y})  d == PsTotal(f, (s \ {z}) \ {y})
<1>13. a = f[z] + b /\ b = f[y] + d /\ c = f[z] + d /\ a # f[y] + c /\ d \in Int
  BY <1>5, <1>6, <1>9, <1>10, <1>11, <1>12
<1> HIDE DEF a, b, c, d
<1> QED BY <1>12, <1>13

(* The first slots of a set: those that start before n. *)
Earlier(S, n) == {k \in S : k < n}

LEMMA FirstSlots ==
    ASSUME NEW S, S \subseteq PsSlots
    PROVE  /\ IsFiniteSet(S) /\ S \subseteq Nat
           /\ \A f : (\A t \in S : f[t] \in Int) =>
                /\ \A n \in Nat : PsTotal(f, Earlier(S, n)) \in Int
                /\ PsTotal(f, Earlier(S, 0)) = 0
                /\ \A n \in Nat : n \in S => PsTotal(f, Earlier(S, n + 1)) = PsTotal(f, Earlier(S, n)) + f[n]
           /\ \A n \in Nat : n \notin S => Earlier(S, n + 1) = Earlier(S, n)
           /\ Earlier(S, PsEnd + 1) = S
<1>1. IsFiniteSet(0 .. PsEnd) /\ PsEnd \in Nat
  BY FS_Interval, PsAssumption
<1>2. S \subseteq 0 .. PsEnd
  BY DEF PsSlots
<1>3. IsFiniteSet(S) /\ S \subseteq Nat /\ \A k \in S : k \in Nat /\ k <= PsEnd
  <2>1. \A k \in S : k \in Nat /\ k <= PsEnd
    BY <1>1, <1>2
  <2>2. IsFiniteSet(S)
    BY <1>1, <1>2, FS_Subset
  <2> QED BY <2>1, <2>2
<1>4. ASSUME NEW f, \A t \in S : f[t] \in Int
      PROVE  /\ \A n \in Nat : PsTotal(f, Earlier(S, n)) \in Int
             /\ PsTotal(f, Earlier(S, 0)) = 0
             /\ \A n \in Nat : n \in S => PsTotal(f, Earlier(S, n + 1)) = PsTotal(f, Earlier(S, n)) + f[n]
  <2>1. \A n \in Nat : Summable(f, Earlier(S, n))
    <3> TAKE n \in Nat
    <3>1. Earlier(S, n) \subseteq S
      BY DEF Earlier
    <3>2. IsFiniteSet(Earlier(S, n))
      BY <1>3, <3>1, FS_Subset
    <3> QED BY <1>4, <3>1, <3>2 DEF Summable
  <2>2. \A n \in Nat : PsTotal(f, Earlier(S, n)) \in Int
    BY <2>1, SumInt
  <2>3. Earlier(S, 0) = {}
    <3>1. \A k \in S : ~(k < 0)
      BY <1>3
    <3> QED BY <3>1 DEF Earlier
  <2>4. PsTotal(f, Earlier(S, 0)) = 0
    BY <2>3, SumEmpty
  <2>5. ASSUME NEW n \in Nat, n \in S
        PROVE  PsTotal(f, Earlier(S, n + 1)) = PsTotal(f, Earlier(S, n)) + f[n]
    <3>1. n \in Earlier(S, n + 1) /\ Earlier(S, n + 1) \ {n} = Earlier(S, n)
      <4>1. \A k \in S : k < n + 1 <=> k < n \/ k = n
        BY <1>3
      <4>2. n < n + 1 /\ ~(n < n)
        OBVIOUS
      <4> QED BY <2>5, <4>1, <4>2 DEF Earlier
    <3>2. Summable(f, Earlier(S, n + 1))
      BY <2>1
    <3>3. PsTotal(f, Earlier(S, n + 1)) = f[n] + PsTotal(f, Earlier(S, n + 1) \ {n})
      BY <3>1, <3>2, SumTake
    <3>4. PsTotal(f, Earlier(S, n)) \in Int /\ f[n] \in Int
      BY <1>4, <2>2, <2>5
    <3>5. PsTotal(f, Earlier(S, n + 1)) = f[n] + PsTotal(f, Earlier(S, n))
      BY <3>1, <3>3
    <3> QED BY <3>4, <3>5
  <2> QED BY <2>2, <2>4, <2>5
<1>5. \A n \in Nat : n \notin S => Earlier(S, n + 1) = Earlier(S, n)
  <2> TAKE n \in Nat
  <2> HAVE n \notin S
  <2>1. \A k \in S : k < n + 1 <=> k < n
    BY <1>3
  <2> QED BY <2>1 DEF Earlier
<1>6. Earlier(S, PsEnd + 1) = S
  <2>1. \A k \in S : k < PsEnd + 1
    BY <1>1, <1>3
  <2> QED BY <2>1 DEF Earlier
<1> QED BY <1>3, <1>4, <1>5, <1>6

(* The quotas q of the slots T, and new ones that give what is missing to the slots L in order, each up to its room. *)
InOrder(T, L, q, room, missing, new) ==
    /\ T \subseteq PsSlots /\ L \subseteq T /\ missing \in Nat
    /\ \A t \in T : q[t] \in 0 .. PsQuota
    /\ \A t \in L : room[t] = PsQuota - q[t]
    /\ \A t \in T : new[t] =
           IF t \in L THEN q[t] + Min({room[t], IF missing > PsTotal(room, Earlier(L, t))
                                              THEN missing - PsTotal(room, Earlier(L, t)) ELSE 0})
           ELSE q[t]

(* What is missing goes as far as the room there is. *)
LEMMA GivenInOrder ==
    ASSUME NEW T, NEW L, NEW q, NEW room, NEW missing, NEW new, InOrder(T, L, q, room, missing, new)
    PROVE  /\ \A t \in T : new[t] \in 0 .. PsQuota
           /\ PsTotal(room, L) \in Int /\ PsTotal(q, T) \in Int /\ PsTotal(new, T) \in Int
           /\ PsTotal(new, T) + (IF missing - PsTotal(room, L) > 0 THEN missing - PsTotal(room, L) ELSE 0)
              = PsTotal(q, T) + missing
<1> DEFINE R(n) == PsTotal(room, Earlier(L, n))
           Q(n) == PsTotal(q, Earlier(T, n))
           N(n) == PsTotal(new, Earlier(T, n))
           Given(n) == N(n) = Q(n) + (IF missing <= R(n) THEN missing ELSE R(n))
<1>0. /\ T \subseteq PsSlots /\ L \subseteq T /\ missing \in Nat
      /\ \A t \in T : q[t] \in 0 .. PsQuota
      /\ \A t \in L : room[t] = PsQuota - q[t]
  BY DEF InOrder
<1>1. L \subseteq PsSlots /\ PsQuota \in Nat /\ L \subseteq Nat /\ T \subseteq Nat
  BY <1>0, PsAssumption, FirstSlots
<1>2. \A t \in L : room[t] \in 0 .. PsQuota /\ room[t] \in Int
  BY <1>0, <1>1
<1>3. /\ \A n \in Nat : R(n) \in Int
      /\ R(0) = 0
      /\ \A n \in Nat : n \in L => R(n + 1) = R(n) + room[n]
      /\ \A n \in Nat : n \notin L => R(n + 1) = R(n)
  BY <1>1, <1>2, FirstSlots
<1> HIDE DEF R
<1>4. \A t \in T : new[t] = IF t \in L
               THEN q[t] + Min({room[t], IF missing > R(t) THEN missing - R(t) ELSE 0})
               ELSE q[t]
  BY DEF InOrder, R
<1>5. \A t \in T : t \in L => new[t] = q[t] + (IF room[t] <= (IF missing > R(t) THEN missing - R(t) ELSE 0)
                                               THEN room[t] ELSE IF missing > R(t) THEN missing - R(t) ELSE 0)
  <2> SUFFICES ASSUME NEW t \in L PROVE new[t] = q[t] + (IF room[t] <= (IF missing > R(t) THEN missing - R(t) ELSE 0)
                                               THEN room[t] ELSE IF missing > R(t) THEN missing - R(t) ELSE 0)
    BY <1>0
  <2> DEFINE rest == IF missing > R(t) THEN missing - R(t) ELSE 0
  <2>1. rest \in Int /\ room[t] \in Int
    BY <1>0, <1>1, <1>2, <1>3
  <2>2. new[t] = q[t] + Min({room[t], rest})
    BY <1>0, <1>4
  <2> HIDE DEF rest
  <2>3. new[t] = q[t] + (IF room[t] <= rest THEN room[t] ELSE rest)
    BY <2>1, <2>2, LesserOf
  <2> QED BY <2>3 DEF rest
<1>6. \A t \in T : new[t] \in 0 .. PsQuota /\ new[t] \in Int /\ q[t] \in Int
  <2> SUFFICES ASSUME NEW t \in T PROVE new[t] \in 0 .. PsQuota
    BY <1>0, <1>1
  <2>1. CASE t \in L
    BY <1>0, <1>1, <1>2, <1>3, <1>5, <2>1
  <2>2. CASE t \notin L
    BY <1>0, <1>4, <2>2
  <2> QED BY <2>1, <2>2
<1>7. /\ \A n \in Nat : Q(n) \in Int
      /\ Q(0) = 0
      /\ \A n \in Nat : n \in T => Q(n + 1) = Q(n) + q[n]
      /\ \A n \in Nat : n \notin T => Q(n + 1) = Q(n)
  BY <1>0, <1>6, FirstSlots
<1> HIDE DEF Q
<1>8. /\ \A n \in Nat : N(n) \in Int
      /\ N(0) = 0
      /\ \A n \in Nat : n \in T => N(n + 1) = N(n) + new[n]
      /\ \A n \in Nat : n \notin T => N(n + 1) = N(n)
  BY <1>0, <1>6, FirstSlots
<1> HIDE DEF N
<1>9. Given(0)
  BY <1>0, <1>3, <1>7, <1>8
<1>10. ASSUME NEW n \in Nat, Given(n) PROVE Given(n + 1)
  <2>1. CASE n \in L
    <3>1. n \in T /\ room[n] \in 0 .. PsQuota /\ R(n + 1) = R(n) + room[n] /\ Q(n + 1) = Q(n) + q[n]
          /\ N(n + 1) = N(n) + new[n]
      BY <1>0, <1>2, <1>3, <1>7, <1>8, <2>1
    <3>2. new[n] = q[n] + (IF room[n] <= (IF missing > R(n) THEN missing - R(n) ELSE 0)
                           THEN room[n] ELSE IF missing > R(n) THEN missing - R(n) ELSE 0)
      BY <1>5, <2>1, <3>1
    <3>3. R(n) \in Int /\ Q(n) \in Int /\ N(n) \in Int /\ q[n] \in Int /\ new[n] \in Int /\ PsQuota \in Nat
      BY <1>1, <1>3, <1>6, <1>7, <1>8, <3>1
    <3> QED BY <1>0, <1>10, <3>1, <3>2, <3>3
  <2>2. CASE n \in T /\ n \notin L
    <3>1. R(n + 1) = R(n) /\ Q(n + 1) = Q(n) + q[n] /\ N(n + 1) = N(n) + q[n]
      BY <1>3, <1>4, <1>7, <1>8, <2>2
    <3>2. R(n) \in Int /\ Q(n) \in Int /\ N(n) \in Int /\ q[n] \in Int
      BY <1>3, <1>6, <1>7, <1>8, <2>2
    <3> QED BY <1>0, <1>10, <3>1, <3>2
  <2>3. CASE n \notin T
    BY <1>0, <1>3, <1>7, <1>8, <1>10, <2>3
  <2> QED BY <2>1, <2>2, <2>3
<1>11. \A n \in Nat : Given(n)
  <2> HIDE DEF Given
  <2> DEFINE bad == {n \in Nat : ~Given(n)}
  <2> SUFFICES ASSUME bad # {} PROVE FALSE
    OBVIOUS
  <2>1. bad \subseteq Nat
    OBVIOUS
  <2>2. PICK m \in bad : \A k \in bad : m <= k
    <3> HIDE DEF bad
    <3> QED BY <2>1, LowestOf
  <2>3. m \in Nat /\ m # 0 /\ m - 1 \in Nat /\ (m - 1) + 1 = m
    BY <1>9
  <2>4. Given(m - 1)
    BY <2>2, <2>3
  <2> QED BY <1>10, <2>3, <2>4
<1>12. PsEnd + 1 \in Nat
  BY PsAssumption
<1>13. R(PsEnd + 1) = PsTotal(room, L) /\ Q(PsEnd + 1) = PsTotal(q, T) /\ N(PsEnd + 1) = PsTotal(new, T)
  BY <1>0, <1>1, FirstSlots DEF R, Q, N
<1>14. Given(PsEnd + 1) /\ R(PsEnd + 1) \in Int /\ Q(PsEnd + 1) \in Int /\ N(PsEnd + 1) \in Int
  BY <1>3, <1>7, <1>8, <1>11, <1>12
<1>15. N(PsEnd + 1) + (IF missing - R(PsEnd + 1) > 0 THEN missing - R(PsEnd + 1) ELSE 0) = Q(PsEnd + 1) + missing
  BY <1>0, <1>14
<1> QED BY <1>6, <1>13, <1>14, <1>15

(* A handler state and its charge flags, with the fields they have, and what replacing some of them gives. *)
AllFields(h) == h = [plan |-> h.plan, date |-> h.date, run |-> h.run, done |-> h.done, pre |-> h.pre,
                     spent |-> h.spent, got |-> h.got, short |-> h.short, filled |-> h.filled]
RunFields(r) == r = [grid |-> r.grid, on |-> r.on, slot |-> r.slot, purpose |-> r.purpose, rt |-> r.rt,
                     asked |-> r.asked]

LEMMA PlanPut == \A h : AllFields(h) => \A v1 :
    [h EXCEPT !.plan = v1]
    = [plan |-> v1, date |-> h.date, run |-> h.run, done |-> h.done, pre |-> h.pre, spent |-> h.spent,
       got |-> h.got, short |-> h.short, filled |-> h.filled]
<1> SUFFICES ASSUME NEW h, AllFields(h), NEW v1
             PROVE  [h EXCEPT !.plan = v1]
                    = [plan |-> v1, date |-> h.date, run |-> h.run, done |-> h.done, pre |-> h.pre,
                       spent |-> h.spent, got |-> h.got, short |-> h.short, filled |-> h.filled]
  OBVIOUS
<1> QED BY DEF AllFields

LEMMA RunPut == \A h : AllFields(h) => \A v1 :
    [h EXCEPT !.run = v1]
    = [plan |-> h.plan, date |-> h.date, run |-> v1, done |-> h.done, pre |-> h.pre, spent |-> h.spent,
       got |-> h.got, short |-> h.short, filled |-> h.filled]
<1> SUFFICES ASSUME NEW h, AllFields(h), NEW v1
             PROVE  [h EXCEPT !.run = v1]
                    = [plan |-> h.plan, date |-> h.date, run |-> v1, done |-> h.done, pre |-> h.pre,
                       spent |-> h.spent, got |-> h.got, short |-> h.short, filled |-> h.filled]
  OBVIOUS
<1> QED BY DEF AllFields

LEMMA DonePut == \A h : AllFields(h) => \A v1 :
    [h EXCEPT !.done = v1]
    = [plan |-> h.plan, date |-> h.date, run |-> h.run, done |-> v1, pre |-> h.pre, spent |-> h.spent,
       got |-> h.got, short |-> h.short, filled |-> h.filled]
<1> SUFFICES ASSUME NEW h, AllFields(h), NEW v1
             PROVE  [h EXCEPT !.done = v1]
                    = [plan |-> h.plan, date |-> h.date, run |-> h.run, done |-> v1, pre |-> h.pre,
                       spent |-> h.spent, got |-> h.got, short |-> h.short, filled |-> h.filled]
  OBVIOUS
<1> QED BY DEF AllFields

LEMMA EndPut == \A h : AllFields(h) => \A v1, v2, v3 :
    [h EXCEPT !.run = v1, !.spent = v2, !.got = v3]
    = [plan |-> h.plan, date |-> h.date, run |-> v1, done |-> h.done, pre |-> h.pre, spent |-> v2,
       got |-> v3, short |-> h.short, filled |-> h.filled]
<1> SUFFICES ASSUME NEW h, AllFields(h), NEW v1, NEW v2, NEW v3
             PROVE  [h EXCEPT !.run = v1, !.spent = v2, !.got = v3]
                    = [plan |-> h.plan, date |-> h.date, run |-> v1, done |-> h.done, pre |-> h.pre,
                       spent |-> v2, got |-> v3, short |-> h.short, filled |-> h.filled]
  OBVIOUS
<1> DEFINE q1 == [h EXCEPT !.run = v1]
           q2 == [q1 EXCEPT !.spent = v2]
           q3 == [q2 EXCEPT !.got = v3]
<1>1. q1 = [plan |-> h.plan, date |-> h.date, run |-> v1, done |-> h.done, pre |-> h.pre,
          spent |-> h.spent, got |-> h.got, short |-> h.short, filled |-> h.filled]
  BY DEF AllFields
<1> HIDE DEF q1
<1>2. q2 = [plan |-> h.plan, date |-> h.date, run |-> v1, done |-> h.done, pre |-> h.pre, spent |-> v2,
          got |-> h.got, short |-> h.short, filled |-> h.filled]
  BY <1>1
<1> HIDE DEF q2
<1>3. q3 = [plan |-> h.plan, date |-> h.date, run |-> v1, done |-> h.done, pre |-> h.pre, spent |-> v2,
          got |-> v3, short |-> h.short, filled |-> h.filled]
  BY <1>2
<1>4. q3 = [h EXCEPT !.run = v1, !.spent = v2, !.got = v3]
  BY Zenon DEF q1, q2, q3
<1> QED BY <1>3, <1>4, Zenon

LEMMA PrePut == \A h : AllFields(h) => \A v1, v2 :
    [h EXCEPT !.pre = v1, !.spent = v2]
    = [plan |-> h.plan, date |-> h.date, run |-> h.run, done |-> h.done, pre |-> v1, spent |-> v2,
       got |-> h.got, short |-> h.short, filled |-> h.filled]
<1> SUFFICES ASSUME NEW h, AllFields(h), NEW v1, NEW v2
             PROVE  [h EXCEPT !.pre = v1, !.spent = v2]
                    = [plan |-> h.plan, date |-> h.date, run |-> h.run, done |-> h.done, pre |-> v1,
                       spent |-> v2, got |-> h.got, short |-> h.short, filled |-> h.filled]
  OBVIOUS
<1> DEFINE q1 == [h EXCEPT !.pre = v1]
           q2 == [q1 EXCEPT !.spent = v2]
<1>1. q1 = [plan |-> h.plan, date |-> h.date, run |-> h.run, done |-> h.done, pre |-> v1,
          spent |-> h.spent, got |-> h.got, short |-> h.short, filled |-> h.filled]
  BY DEF AllFields
<1> HIDE DEF q1
<1>2. q2 = [plan |-> h.plan, date |-> h.date, run |-> h.run, done |-> h.done, pre |-> v1, spent |-> v2,
          got |-> h.got, short |-> h.short, filled |-> h.filled]
  BY <1>1
<1>3. q2 = [h EXCEPT !.pre = v1, !.spent = v2]
  BY Zenon DEF q1, q2
<1> QED BY <1>2, <1>3, Zenon

LEMMA CarryPut == \A h : AllFields(h) => \A v1, v2, v3, v4 :
    [h EXCEPT !.plan = v1, !.short = v2, !.spent = v3, !.got = v4]
    = [plan |-> v1, date |-> h.date, run |-> h.run, done |-> h.done, pre |-> h.pre, spent |-> v3,
       got |-> v4, short |-> v2, filled |-> h.filled]
<1> SUFFICES ASSUME NEW h, AllFields(h), NEW v1, NEW v2, NEW v3, NEW v4
             PROVE  [h EXCEPT !.plan = v1, !.short = v2, !.spent = v3, !.got = v4]
                    = [plan |-> v1, date |-> h.date, run |-> h.run, done |-> h.done, pre |-> h.pre,
                       spent |-> v3, got |-> v4, short |-> v2, filled |-> h.filled]
  OBVIOUS
<1> DEFINE q1 == [h EXCEPT !.plan = v1]
           q2 == [q1 EXCEPT !.short = v2]
           q3 == [q2 EXCEPT !.spent = v3]
           q4 == [q3 EXCEPT !.got = v4]
<1>1. q1 = [plan |-> v1, date |-> h.date, run |-> h.run, done |-> h.done, pre |-> h.pre, spent |-> h.spent,
          got |-> h.got, short |-> h.short, filled |-> h.filled]
  BY DEF AllFields
<1> HIDE DEF q1
<1>2. q2 = [plan |-> v1, date |-> h.date, run |-> h.run, done |-> h.done, pre |-> h.pre, spent |-> h.spent,
          got |-> h.got, short |-> v2, filled |-> h.filled]
  BY <1>1
<1> HIDE DEF q2
<1>3. q3 = [plan |-> v1, date |-> h.date, run |-> h.run, done |-> h.done, pre |-> h.pre, spent |-> v3,
          got |-> h.got, short |-> v2, filled |-> h.filled]
  BY <1>2
<1> HIDE DEF q3
<1>4. q4 = [plan |-> v1, date |-> h.date, run |-> h.run, done |-> h.done, pre |-> h.pre, spent |-> v3,
          got |-> v4, short |-> v2, filled |-> h.filled]
  BY <1>3
<1>5. q4 = [h EXCEPT !.plan = v1, !.short = v2, !.spent = v3, !.got = v4]
  BY Zenon DEF q1, q2, q3, q4
<1> QED BY <1>4, <1>5, Zenon

LEMMA SpentPut == \A h : AllFields(h) => \A v1, v2 :
    [h EXCEPT !.spent = v1, !.got = v2]
    = [plan |-> h.plan, date |-> h.date, run |-> h.run, done |-> h.done, pre |-> h.pre, spent |-> v1,
       got |-> v2, short |-> h.short, filled |-> h.filled]
<1> SUFFICES ASSUME NEW h, AllFields(h), NEW v1, NEW v2
             PROVE  [h EXCEPT !.spent = v1, !.got = v2]
                    = [plan |-> h.plan, date |-> h.date, run |-> h.run, done |-> h.done, pre |-> h.pre,
                       spent |-> v1, got |-> v2, short |-> h.short, filled |-> h.filled]
  OBVIOUS
<1> DEFINE q1 == [h EXCEPT !.spent = v1]
           q2 == [q1 EXCEPT !.got = v2]
<1>1. q1 = [plan |-> h.plan, date |-> h.date, run |-> h.run, done |-> h.done, pre |-> h.pre, spent |-> v1,
          got |-> h.got, short |-> h.short, filled |-> h.filled]
  BY DEF AllFields
<1> HIDE DEF q1
<1>2. q2 = [plan |-> h.plan, date |-> h.date, run |-> h.run, done |-> h.done, pre |-> h.pre, spent |-> v1,
          got |-> v2, short |-> h.short, filled |-> h.filled]
  BY <1>1
<1>3. q2 = [h EXCEPT !.spent = v1, !.got = v2]
  BY Zenon DEF q1, q2
<1> QED BY <1>2, <1>3, Zenon

LEMMA ChargePut == \A h : AllFields(h) => \A v1, v2 :
    [h EXCEPT !.run = v1, !.got = v2]
    = [plan |-> h.plan, date |-> h.date, run |-> v1, done |-> h.done, pre |-> h.pre, spent |-> h.spent,
       got |-> v2, short |-> h.short, filled |-> h.filled]
<1> SUFFICES ASSUME NEW h, AllFields(h), NEW v1, NEW v2
             PROVE  [h EXCEPT !.run = v1, !.got = v2]
                    = [plan |-> h.plan, date |-> h.date, run |-> v1, done |-> h.done, pre |-> h.pre,
                       spent |-> h.spent, got |-> v2, short |-> h.short, filled |-> h.filled]
  OBVIOUS
<1> DEFINE q1 == [h EXCEPT !.run = v1]
           q2 == [q1 EXCEPT !.got = v2]
<1>1. q1 = [plan |-> h.plan, date |-> h.date, run |-> v1, done |-> h.done, pre |-> h.pre,
          spent |-> h.spent, got |-> h.got, short |-> h.short, filled |-> h.filled]
  BY DEF AllFields
<1> HIDE DEF q1
<1>2. q2 = [plan |-> h.plan, date |-> h.date, run |-> v1, done |-> h.done, pre |-> h.pre,
          spent |-> h.spent, got |-> v2, short |-> h.short, filled |-> h.filled]
  BY <1>1
<1>3. q2 = [h EXCEPT !.run = v1, !.got = v2]
  BY Zenon DEF q1, q2
<1> QED BY <1>2, <1>3, Zenon

LEMMA FilledPut == \A h : AllFields(h) => \A v1, v2, v3 :
    [h EXCEPT !.done = v1, !.filled = v2, !.plan = v3]
    = [plan |-> v3, date |-> h.date, run |-> h.run, done |-> v1, pre |-> h.pre, spent |-> h.spent,
       got |-> h.got, short |-> h.short, filled |-> v2]
<1> SUFFICES ASSUME NEW h, AllFields(h), NEW v1, NEW v2, NEW v3
             PROVE  [h EXCEPT !.done = v1, !.filled = v2, !.plan = v3]
                    = [plan |-> v3, date |-> h.date, run |-> h.run, done |-> v1, pre |-> h.pre,
                       spent |-> h.spent, got |-> h.got, short |-> h.short, filled |-> v2]
  OBVIOUS
<1> DEFINE q1 == [h EXCEPT !.done = v1]
           q2 == [q1 EXCEPT !.filled = v2]
           q3 == [q2 EXCEPT !.plan = v3]
<1>1. q1 = [plan |-> h.plan, date |-> h.date, run |-> h.run, done |-> v1, pre |-> h.pre, spent |-> h.spent,
          got |-> h.got, short |-> h.short, filled |-> h.filled]
  BY DEF AllFields
<1> HIDE DEF q1
<1>2. q2 = [plan |-> h.plan, date |-> h.date, run |-> h.run, done |-> v1, pre |-> h.pre, spent |-> h.spent,
          got |-> h.got, short |-> h.short, filled |-> v2]
  BY <1>1
<1> HIDE DEF q2
<1>3. q3 = [plan |-> v3, date |-> h.date, run |-> h.run, done |-> v1, pre |-> h.pre, spent |-> h.spent,
          got |-> h.got, short |-> h.short, filled |-> v2]
  BY <1>2
<1>4. q3 = [h EXCEPT !.done = v1, !.filled = v2, !.plan = v3]
  BY Zenon DEF q1, q2, q3
<1> QED BY <1>3, <1>4, Zenon

LEMMA PurposePut == \A r : RunFields(r) => \A v1 :
    [r EXCEPT !.purpose = v1]
    = [grid |-> r.grid, on |-> r.on, slot |-> r.slot, purpose |-> v1, rt |-> r.rt, asked |-> r.asked]
<1> SUFFICES ASSUME NEW r, RunFields(r), NEW v1
             PROVE  [r EXCEPT !.purpose = v1]
                    = [grid |-> r.grid, on |-> r.on, slot |-> r.slot, purpose |-> v1, rt |-> r.rt,
                       asked |-> r.asked]
  OBVIOUS
<1> QED BY DEF RunFields

LEMMA FlagsPut == \A r : RunFields(r) => \A v1, v2 :
    [r EXCEPT !.grid = v1, !.on = v2]
    = [grid |-> v1, on |-> v2, slot |-> r.slot, purpose |-> r.purpose, rt |-> r.rt, asked |-> r.asked]
<1> SUFFICES ASSUME NEW r, RunFields(r), NEW v1, NEW v2
             PROVE  [r EXCEPT !.grid = v1, !.on = v2]
                    = [grid |-> v1, on |-> v2, slot |-> r.slot, purpose |-> r.purpose, rt |-> r.rt,
                       asked |-> r.asked]
  OBVIOUS
<1> DEFINE q1 == [r EXCEPT !.grid = v1]
           q2 == [q1 EXCEPT !.on = v2]
<1>1. q1 = [grid |-> v1, on |-> r.on, slot |-> r.slot, purpose |-> r.purpose, rt |-> r.rt,
          asked |-> r.asked]
  BY DEF RunFields
<1> HIDE DEF q1
<1>2. q2 = [grid |-> v1, on |-> v2, slot |-> r.slot, purpose |-> r.purpose, rt |-> r.rt,
          asked |-> r.asked]
  BY <1>1
<1>3. q2 = [r EXCEPT !.grid = v1, !.on = v2]
  BY Zenon DEF q1, q2
<1> QED BY <1>2, <1>3, Zenon

LEMMA SlotPut == \A r : RunFields(r) => \A v1, v2 :
    [r EXCEPT !.slot = v1, !.purpose = v2]
    = [grid |-> r.grid, on |-> r.on, slot |-> v1, purpose |-> v2, rt |-> r.rt, asked |-> r.asked]
<1> SUFFICES ASSUME NEW r, RunFields(r), NEW v1, NEW v2
             PROVE  [r EXCEPT !.slot = v1, !.purpose = v2]
                    = [grid |-> r.grid, on |-> r.on, slot |-> v1, purpose |-> v2, rt |-> r.rt,
                       asked |-> r.asked]
  OBVIOUS
<1> DEFINE q1 == [r EXCEPT !.slot = v1]
           q2 == [q1 EXCEPT !.purpose = v2]
<1>1. q1 = [grid |-> r.grid, on |-> r.on, slot |-> v1, purpose |-> r.purpose, rt |-> r.rt,
          asked |-> r.asked]
  BY DEF RunFields
<1> HIDE DEF q1
<1>2. q2 = [grid |-> r.grid, on |-> r.on, slot |-> v1, purpose |-> v2, rt |-> r.rt, asked |-> r.asked]
  BY <1>1
<1>3. q2 = [r EXCEPT !.slot = v1, !.purpose = v2]
  BY Zenon DEF q1, q2
<1> QED BY <1>2, <1>3, Zenon

LEMMA OpenPut == \A r : RunFields(r) => \A v1, v2, v3, v4 :
    [r EXCEPT !.on = v1, !.slot = v2, !.purpose = v3, !.grid = v4]
    = [grid |-> v4, on |-> v1, slot |-> v2, purpose |-> v3, rt |-> r.rt, asked |-> r.asked]
<1> SUFFICES ASSUME NEW r, RunFields(r), NEW v1, NEW v2, NEW v3, NEW v4
             PROVE  [r EXCEPT !.on = v1, !.slot = v2, !.purpose = v3, !.grid = v4]
                    = [grid |-> v4, on |-> v1, slot |-> v2, purpose |-> v3, rt |-> r.rt,
                       asked |-> r.asked]
  OBVIOUS
<1> DEFINE q1 == [r EXCEPT !.on = v1]
           q2 == [q1 EXCEPT !.slot = v2]
           q3 == [q2 EXCEPT !.purpose = v3]
           q4 == [q3 EXCEPT !.grid = v4]
<1>1. q1 = [grid |-> r.grid, on |-> v1, slot |-> r.slot, purpose |-> r.purpose, rt |-> r.rt,
          asked |-> r.asked]
  BY DEF RunFields
<1> HIDE DEF q1
<1>2. q2 = [grid |-> r.grid, on |-> v1, slot |-> v2, purpose |-> r.purpose, rt |-> r.rt,
          asked |-> r.asked]
  BY <1>1
<1> HIDE DEF q2
<1>3. q3 = [grid |-> r.grid, on |-> v1, slot |-> v2, purpose |-> v3, rt |-> r.rt, asked |-> r.asked]
  BY <1>2
<1> HIDE DEF q3
<1>4. q4 = [grid |-> v4, on |-> v1, slot |-> v2, purpose |-> v3, rt |-> r.rt, asked |-> r.asked]
  BY <1>3
<1>5. q4 = [r EXCEPT !.on = v1, !.slot = v2, !.purpose = v3, !.grid = v4]
  BY Zenon DEF q1, q2, q3, q4
<1> QED BY <1>4, <1>5, Zenon

(* A schedule as the handlers keep it. *)
PlanSound(p) ==
    /\ p = [slots |-> p.slots, purpose |-> p.purpose, quota |-> p.quota, deficit |-> p.deficit]
    /\ p.slots \subseteq PsSlots
    /\ p.slots # {} => p.quota \in [p.slots -> 0 .. PsQuota]

LEMMA NoPlanSound == PlanSound(NoPlan) /\ NoPlan.slots = {}
BY DEF PlanSound, NoPlan

LEMMA PruneKeeps ==
    ASSUME NEW p, PlanSound(p)
    PROVE  /\ PlanSound(Prune(p)) /\ Prune(p).slots \subseteq p.slots
           /\ Prune(p).slots = p.slots /\ p.slots # {} => Prune(p).quota = p.quota
<1> DEFINE keep == {s \in p.slots : p.purpose[s] = "deficit" \/ (p.purpose[s] = "combined" /\ p.deficit)}
           kept == [slots |-> keep, purpose |-> [s \in keep |-> "deficit"], quota |-> Only(p.quota, keep),
                    deficit |-> p.deficit]
<1>1. Prune(p) = IF keep = {} THEN NoPlan ELSE kept
  BY DEF Prune
<1>2. keep \subseteq p.slots
  OBVIOUS
<1> HIDE DEF keep
<1>3. CASE keep = {}
  BY <1>1, <1>3, NoPlanSound
<1>4. CASE keep # {}
  <2>1. p.slots # {} /\ p.quota \in [p.slots -> 0 .. PsQuota] /\ p.slots \subseteq PsSlots
    BY <1>2, <1>4 DEF PlanSound
  <2>2. Only(p.quota, keep) \in [keep -> 0 .. PsQuota]
    BY <1>2, <2>1 DEF Only
  <2>3. keep = p.slots => Only(p.quota, keep) = p.quota
    BY <2>1 DEF Only
  <2>4. kept.slots = keep /\ kept.quota = Only(p.quota, keep)
        /\ kept = [slots |-> kept.slots, purpose |-> kept.purpose, quota |-> kept.quota, deficit |-> kept.deficit]
    OBVIOUS
  <2> HIDE DEF kept
  <2>5. PlanSound(kept)
    BY <1>2, <2>1, <2>2, <2>4 DEF PlanSound
  <2> QED BY <1>1, <1>2, <1>4, <2>3, <2>4, <2>5
<1> QED BY <1>3, <1>4

(* What a slot could not charge is in the later quotas or left over. *)
LEMMA CarryOverKeeps ==
    ASSUME NEW p, PlanSound(p), NEW s \in p.slots, NEW missing \in Nat, NEW incoming,
           NEW c, c = CarryOver(p, s, missing, incoming), NEW T, T = p.slots \ {s}
    PROVE  /\ PlanSound(c.plan) /\ c.plan.slots = p.slots /\ c.left \in Nat
           /\ PsTotal(c.plan.quota, T) \in Int /\ PsTotal(p.quota, T) \in Int
           /\ PsTotal(c.plan.quota, T) + c.left = PsTotal(p.quota, T) + missing
<1> DEFINE
           L == {t \in T : t >= psNow \/ t = incoming}
           before(t) == {k \in L : k < t}
           room == [t \in L |-> PsQuota - p.quota[t]]
           used(t) == PsTotal(room, before(t))
           take(t) == Min({room[t], IF missing > used(t) THEN missing - used(t) ELSE 0})
           new == [t \in p.slots |-> IF t \in L THEN p.quota[t] + take(t) ELSE p.quota[t]]
<1>1. c.plan = [p EXCEPT !.quota = new] /\ c.left = IF missing - PsTotal(room, L) > 0 THEN missing - PsTotal(room, L) ELSE 0
  BY Zenon DEF CarryOver
<1>2. T \subseteq PsSlots /\ L \subseteq T /\ p.quota \in [p.slots -> 0 .. PsQuota] /\ p.slots \subseteq PsSlots
  BY DEF PlanSound
<1>3. \A t \in T : p.quota[t] \in 0 .. PsQuota
  BY <1>2
<1>4. \A t \in L : room[t] = PsQuota - p.quota[t]
  OBVIOUS
<1>5. \A t \in T : new[t] = IF t \in L
               THEN p.quota[t] + Min({room[t], IF missing > PsTotal(room, Earlier(L, t))
                                         THEN missing - PsTotal(room, Earlier(L, t)) ELSE 0})
               ELSE p.quota[t]
  <2> HIDE DEF room, L
  <2> QED BY DEF Earlier
<1>6. new = [t \in p.slots |-> new[t]] /\ s \notin L /\ new[s] = p.quota[s]
  OBVIOUS
<1> HIDE DEF L, before, room, used, take, new
<1>7. /\ \A t \in T : new[t] \in 0 .. PsQuota
      /\ PsTotal(room, L) \in Int /\ PsTotal(p.quota, T) \in Int /\ PsTotal(new, T) \in Int
      /\ PsTotal(new, T) + (IF missing - PsTotal(room, L) > 0 THEN missing - PsTotal(room, L) ELSE 0)
         = PsTotal(p.quota, T) + missing
  <2>1. InOrder(T, L, p.quota, room, missing, new)
    BY <1>2, <1>3, <1>4, <1>5, Zenon DEF InOrder
  <2> QED BY <2>1, GivenInOrder
<1>8. new \in [p.slots -> 0 .. PsQuota]
  <2>1. \A t \in p.slots : new[t] \in 0 .. PsQuota
    BY <1>2, <1>6, <1>7
  <2> QED BY <1>6, <2>1
<1>9. [p EXCEPT !.quota = new] = [slots |-> p.slots, purpose |-> p.purpose, quota |-> new, deficit |-> p.deficit]
  BY DEF PlanSound
<1>10. PlanSound(c.plan) /\ c.plan.slots = p.slots /\ c.plan.quota = new
  BY <1>1, <1>2, <1>8, <1>9 DEF PlanSound
<1>11. c.left \in Nat /\ PsTotal(c.plan.quota, T) + c.left = PsTotal(p.quota, T) + missing
  BY <1>1, <1>7, <1>10
<1> QED BY <1>7, <1>10, <1>11

(* The state the handler may be in. *)
PsSound(h) ==
    /\ AllFields(h) /\ RunFields(h.run) /\ PlanSound(h.plan)
    /\ h.short \in Nat /\ h.got \in Nat
    /\ h.filled \subseteq h.done
    /\ h.run.on => h.run.slot \notin h.done
(* Nothing was moved from one slot to another between two states. *)
Same(h, k) ==
    /\ k.date = h.date /\ k.short = h.short /\ k.plan.slots \subseteq h.plan.slots
    /\ k.plan.slots = h.plan.slots /\ h.plan.slots # {} => k.plan.quota = h.plan.quota

LEMMA SameChains == ASSUME NEW h, NEW k, NEW l, Same(h, k), Same(k, l) PROVE Same(h, l)
BY DEF Same
LEMMA SameItself == \A h : Same(h, h)
BY DEF Same

LEMMA IdleFields == RunFields(Idle) /\ Idle.on = FALSE /\ Idle.slot = PsNone
BY DEF RunFields, Idle

LEMMA StopKeeps ==
    ASSUME NEW h, PsSound(h)
    PROVE  PsSound(Stop(h)) /\ Same(h, Stop(h)) /\ Stop(h).run = Idle
<1>1. Stop(h) = [plan |-> h.plan, date |-> h.date, run |-> Idle, done |-> h.done, pre |-> h.pre, spent |-> TRUE,
                 got |-> 0, short |-> h.short, filled |-> h.filled]
  BY EndPut DEF Stop, PsSound
<1> DEFINE k == Stop(h)
<1>2. AllFields(k) /\ k.plan = h.plan /\ k.date = h.date /\ k.run = Idle /\ k.done = h.done /\ k.got = 0
      /\ k.short = h.short /\ k.filled = h.filled
  BY <1>1 DEF AllFields
<1> HIDE DEF k
<1> QED BY <1>2, IdleFields DEF k, PsSound, Same

(* Putting a slot off keeps the rest of the state. *)
LEMMA DoneKeeps ==
    ASSUME NEW h, PsSound(h), NEW s, h.run.on => h.run.slot # s
    PROVE  LET k == [h EXCEPT !.done = @ \cup {s}] IN PsSound(k) /\ Same(h, k) /\ k.run = h.run
<1> DEFINE k == [h EXCEPT !.done = h.done \cup {s}]
<1>1. k = [plan |-> h.plan, date |-> h.date, run |-> h.run, done |-> h.done \cup {s}, pre |-> h.pre, spent |-> h.spent,
           got |-> h.got, short |-> h.short, filled |-> h.filled]
  BY DonePut DEF PsSound
<1>2. AllFields(k) /\ k.plan = h.plan /\ k.date = h.date /\ k.run = h.run /\ k.done = h.done \cup {s} /\ k.got = h.got
      /\ k.short = h.short /\ k.filled = h.filled
  <2> HIDE DEF k
  <2> QED BY <1>1 DEF AllFields
<1> HIDE DEF k
<1>3. PsSound(k) /\ Same(h, k) /\ k.run = h.run
  BY <1>2 DEF PsSound, Same
<1> QED BY <1>3 DEF k

LEMMA RefreshKeeps ==
    ASSUME NEW h, PsSound(h), NEW s, NEW x
    PROVE  LET k == Refresh(h, s, x)
           IN PsSound(k) /\ Same(h, k) /\ k.plan = h.plan /\ k.run = h.run /\ k.done = h.done /\ k.got = h.got
<1> DEFINE v == [t \in DOMAIN h.pre \cup {s} |->
                    IF t = s THEN Joint(x.need, HasNegative(h.plan.purpose[s]) /\ x.pending) ELSE h.pre[t]]
           e == [h EXCEPT !.pre = v, !.spent = FALSE]
           k == Refresh(h, s, x)
<1>1. k = h \/ k = e
  BY DEF Refresh
<1>2. e = [plan |-> h.plan, date |-> h.date, run |-> h.run, done |-> h.done, pre |-> v, spent |-> FALSE,
           got |-> h.got, short |-> h.short, filled |-> h.filled]
  <2> HIDE DEF v
  <2> QED BY PrePut DEF PsSound
<1> HIDE DEF v, e, k
<1>3. /\ AllFields(e) /\ e.plan = h.plan /\ e.date = h.date /\ e.run = h.run /\ e.done = h.done /\ e.got = h.got
      /\ e.short = h.short /\ e.filled = h.filled
  BY <1>2 DEF AllFields
<1>4. PsSound(e) /\ Same(h, e)
  BY <1>3 DEF PsSound, Same
<1>5. PsSound(k) /\ Same(h, k) /\ k.plan = h.plan /\ k.run = h.run /\ k.done = h.done /\ k.got = h.got
  BY <1>1, <1>3, <1>4, SameItself
<1> QED BY <1>5 DEF k

LEMMA PrunedPlan ==
    ASSUME NEW h, PsSound(h)
    PROVE  LET k == [h EXCEPT !.plan = Prune(h.plan)]
           IN PsSound(k) /\ Same(h, k) /\ k.run = h.run /\ k.done = h.done /\ k.got = h.got
<1> DEFINE k == [h EXCEPT !.plan = Prune(h.plan)]
<1>1. k = [plan |-> Prune(h.plan), date |-> h.date, run |-> h.run, done |-> h.done, pre |-> h.pre, spent |-> h.spent,
           got |-> h.got, short |-> h.short, filled |-> h.filled]
  BY PlanPut DEF PsSound
<1> HIDE DEF k
<1>2. AllFields(k) /\ k.plan = Prune(h.plan) /\ k.date = h.date /\ k.run = h.run /\ k.done = h.done /\ k.got = h.got
      /\ k.short = h.short /\ k.filled = h.filled
  BY <1>1 DEF AllFields
<1>3. /\ PlanSound(Prune(h.plan)) /\ Prune(h.plan).slots \subseteq h.plan.slots
      /\ Prune(h.plan).slots = h.plan.slots /\ h.plan.slots # {} => Prune(h.plan).quota = h.plan.quota
  BY PruneKeeps DEF PsSound
<1>4. PsSound(k) /\ Same(h, k) /\ k.run = h.run /\ k.done = h.done /\ k.got = h.got
  BY <1>2, <1>3 DEF PsSound, Same
<1> QED BY <1>4 DEF k

(* From h to k, what the slot under way had not got is carried over. *)
Carried(h, k) ==
    /\ k.date = h.date /\ k.plan.slots \subseteq h.plan.slots
    /\ (h.run.slot \in h.plan.slots /\ k.plan.slots = h.plan.slots)
        => /\ Quotas(k.plan, h.run) \in Int /\ Quotas(h.plan, h.run) \in Int
           /\ Quotas(k.plan, h.run) + k.short = Quotas(h.plan, h.run) + h.short + Missing(h.plan, h.run, h.got)

LEMMA SameQuotas ==
    ASSUME NEW h, NEW k, Same(h, k), NEW r, k.plan.slots = h.plan.slots, h.plan.slots # {}
    PROVE  Quotas(k.plan, r) = Quotas(h.plan, r)
<1>1. k.plan.quota = h.plan.quota
  BY DEF Same
<1> QED BY <1>1, Zenon DEF Quotas

LEMMA CarriedThenSame ==
    ASSUME NEW h, NEW k, NEW l, Carried(h, k), Same(k, l)
    PROVE  Carried(h, l)
<1>1. l.date = h.date /\ l.plan.slots \subseteq h.plan.slots
  BY DEF Carried, Same
<1>2. ASSUME h.run.slot \in h.plan.slots, l.plan.slots = h.plan.slots
      PROVE  /\ Quotas(l.plan, h.run) \in Int /\ Quotas(h.plan, h.run) \in Int
             /\ Quotas(l.plan, h.run) + l.short = Quotas(h.plan, h.run) + h.short + Missing(h.plan, h.run, h.got)
  <2>1. k.plan.slots = h.plan.slots /\ k.plan.slots = l.plan.slots /\ k.plan.slots # {} /\ l.short = k.short
    BY <1>2 DEF Carried, Same
  <2>2. Quotas(l.plan, h.run) = Quotas(k.plan, h.run)
    BY <2>1, SameQuotas
  <2> QED BY <1>2, <2>1, <2>2 DEF Carried
<1> QED BY <1>1, <1>2 DEF Carried

LEMMA SameThenCarried ==
    ASSUME NEW h, NEW k, NEW l, Same(h, k), Carried(k, l), k.run.slot = h.run.slot,
           Missing(k.plan, k.run, k.got) = Missing(h.plan, h.run, h.got) \/ k.plan.slots # h.plan.slots
    PROVE  Carried(h, l)
<1>1. l.date = h.date /\ l.plan.slots \subseteq h.plan.slots
  BY DEF Carried, Same
<1>2. ASSUME h.run.slot \in h.plan.slots, l.plan.slots = h.plan.slots
      PROVE  /\ Quotas(l.plan, h.run) \in Int /\ Quotas(h.plan, h.run) \in Int
             /\ Quotas(l.plan, h.run) + l.short = Quotas(h.plan, h.run) + h.short + Missing(h.plan, h.run, h.got)
  <2>1. k.plan.slots = h.plan.slots /\ h.plan.slots # {} /\ h.short = k.short
    BY <1>2 DEF Carried, Same
  <2>2. Quotas(k.plan, h.run) = Quotas(h.plan, h.run)
    BY <2>1, SameQuotas
  <2>3. Quotas(l.plan, k.run) = Quotas(l.plan, h.run) /\ Quotas(k.plan, k.run) = Quotas(k.plan, h.run)
    BY Zenon DEF Quotas
  <2> QED BY <1>2, <2>1, <2>2, <2>3 DEF Carried
<1> QED BY <1>1, <1>2 DEF Carried

(* Where nothing was missing, leaving the quotas alone carries it over. *)
LEMMA NothingMissing ==
    ASSUME NEW h, NEW k, PsSound(h), Same(h, k), Missing(h.plan, h.run, h.got) = 0
    PROVE  Carried(h, k)
<1>1. ASSUME h.run.slot \in h.plan.slots, k.plan.slots = h.plan.slots
      PROVE  /\ Quotas(k.plan, h.run) \in Int /\ Quotas(h.plan, h.run) \in Int
             /\ Quotas(k.plan, h.run) + k.short = Quotas(h.plan, h.run) + h.short + Missing(h.plan, h.run, h.got)
  <2>1. Quotas(k.plan, h.run) = Quotas(h.plan, h.run) /\ k.short = h.short /\ h.short \in Nat
    BY <1>1, SameQuotas DEF Same, PsSound
  <2>2. Quotas(h.plan, h.run) \in Int
    <3> DEFINE T == h.plan.slots \ {h.run.slot}
    <3>1. T \subseteq PsSlots /\ h.plan.quota \in [h.plan.slots -> 0 .. PsQuota]
      BY <1>1 DEF PsSound, PlanSound
    <3>2. IsFiniteSet(T) /\ \A t \in T : h.plan.quota[t] \in Int
      BY <3>1, FirstSlots, PsAssumption
    <3>3. Summable(h.plan.quota, T)
      BY <3>2 DEF Summable
    <3> HIDE DEF T
    <3>4. PsTotal(h.plan.quota, T) \in Int
      BY <3>3, SumInt
    <3> QED BY <3>4 DEF T, Quotas
  <2> QED BY <2>1, <2>2
<1> QED BY <1>1 DEF Carried, Same

LEMMA MissingNat ==
    ASSUME NEW h, PsSound(h)
    PROVE  Missing(h.plan, h.run, h.got) \in Nat
<1>1. CASE h.run.slot \in h.plan.slots
  <2>1. h.plan.quota[h.run.slot] \in Nat /\ h.got \in Nat
    BY <1>1, PsAssumption DEF PsSound, PlanSound
  <2> QED BY <2>1 DEF Missing
<1>2. CASE h.run.slot \notin h.plan.slots
  BY <1>2 DEF Missing
<1> QED BY <1>1, <1>2

LEMMA CarriedOverKeeps ==
    ASSUME NEW h, PsSound(h), NEW incoming
    PROVE  LET k == CarriedOver(h, incoming)
           IN /\ PsSound(k) /\ Carried(h, k)
              /\ k.plan.slots = h.plan.slots /\ k.run = h.run /\ k.done = h.done
<1> DEFINE c == CarryOver(h.plan, h.run.slot, Missing(h.plan, h.run, h.got), incoming)
           k == CarriedOver(h, incoming)
<1>1. CASE h.run.slot \in h.plan.slots
  <2>1. k = [plan |-> c.plan, date |-> h.date, run |-> h.run, done |-> h.done, pre |-> h.pre, spent |-> TRUE,
             got |-> 0, short |-> h.short + c.left, filled |-> h.filled]
    <3> DEFINE v == h.short + c.left
    <3>1. k = [h EXCEPT !.plan = c.plan, !.short = v, !.spent = TRUE, !.got = 0]
      BY <1>1, Zenon DEF CarriedOver
    <3> HIDE DEF c, k, v
    <3>2. k = [plan |-> c.plan, date |-> h.date, run |-> h.run, done |-> h.done, pre |-> h.pre, spent |-> TRUE,
             got |-> 0, short |-> v, filled |-> h.filled]
      <4> DEFINE u == c.plan
      <4>1. AllFields(h)
        BY DEF PsSound
      <4> HIDE DEF u
      <4>2. ASSUME NEW a, NEW b
            PROVE  [h EXCEPT !.plan = a, !.short = b, !.spent = TRUE, !.got = 0]
                   = [plan |-> a, date |-> h.date, run |-> h.run, done |-> h.done, pre |-> h.pre, spent |-> TRUE,
                      got |-> 0, short |-> b, filled |-> h.filled]
        <5>1. \A t, g : [h EXCEPT !.plan = a, !.short = b, !.spent = t, !.got = g]
                   = [plan |-> a, date |-> h.date, run |-> h.run, done |-> h.done, pre |-> h.pre, spent |-> t,
                      got |-> g, short |-> b, filled |-> h.filled]
          BY <4>1, CarryPut
        <5> QED BY <5>1
      <4> QED BY <3>1, <4>2, Zenon DEF u
    <3> QED BY <3>2 DEF v
  <2>2. LET T == h.plan.slots \ {h.run.slot}
        IN /\ PlanSound(c.plan) /\ c.plan.slots = h.plan.slots /\ c.left \in Nat
           /\ PsTotal(c.plan.quota, T) \in Int /\ PsTotal(h.plan.quota, T) \in Int
           /\ PsTotal(c.plan.quota, T) + c.left = PsTotal(h.plan.quota, T) + Missing(h.plan, h.run, h.got)
    <3>1. PlanSound(h.plan) /\ Missing(h.plan, h.run, h.got) \in Nat
      BY MissingNat DEF PsSound
    <3> DEFINE p == h.plan
               s == h.run.slot
               m == Missing(h.plan, h.run, h.got)
               d == CarryOver(p, s, m, incoming)
    <3>2. PlanSound(p) /\ m \in Nat /\ s \in p.slots
      BY <1>1, <3>1
    <3> HIDE DEF p, s, m
    <3>3. /\ PlanSound(d.plan) /\ d.plan.slots = p.slots /\ d.left \in Nat
          /\ PsTotal(d.plan.quota, p.slots \ {s}) \in Int /\ PsTotal(p.quota, p.slots \ {s}) \in Int
          /\ PsTotal(d.plan.quota, p.slots \ {s}) + d.left = PsTotal(p.quota, p.slots \ {s}) + m
      BY <3>2, CarryOverKeeps
    <3> QED BY <3>3 DEF p, s, m
  <2> HIDE DEF c, k
  <2>3. AllFields(k) /\ k.plan = c.plan /\ k.date = h.date /\ k.run = h.run /\ k.done = h.done /\ k.got = 0
        /\ k.short = h.short + c.left /\ k.filled = h.filled
    BY <2>1 DEF AllFields
  <2>4. h.short \in Nat /\ h.short + c.left \in Nat
    BY <2>2 DEF PsSound
  <2>5. PsSound(k)
    BY <2>2, <2>3, <2>4 DEF PsSound
  <2>6. /\ Quotas(k.plan, h.run) \in Int /\ Quotas(h.plan, h.run) \in Int
        /\ Quotas(k.plan, h.run) + c.left = Quotas(h.plan, h.run) + Missing(h.plan, h.run, h.got)
        /\ k.plan.slots = h.plan.slots
    BY <2>2, <2>3 DEF Quotas
  <2>7. Missing(h.plan, h.run, h.got) \in Nat
    BY MissingNat
  <2>8. Carried(h, k)
    BY <2>2, <2>3, <2>4, <2>6, <2>7 DEF Carried
  <2> QED BY <2>3, <2>5, <2>6, <2>8 DEF k
<1>2. CASE h.run.slot \notin h.plan.slots
  <2>1. k = [plan |-> h.plan, date |-> h.date, run |-> h.run, done |-> h.done, pre |-> h.pre, spent |-> TRUE,
             got |-> 0, short |-> h.short, filled |-> h.filled]
    <3>1. k = [h EXCEPT !.spent = TRUE, !.got = 0]
      BY <1>2, Zenon DEF CarriedOver
    <3> HIDE DEF k
    <3> QED BY <3>1, SpentPut, Zenon DEF PsSound
  <2> HIDE DEF k, c
  <2>2. AllFields(k) /\ k.plan = h.plan /\ k.date = h.date /\ k.run = h.run /\ k.done = h.done /\ k.got = 0
        /\ k.short = h.short /\ k.filled = h.filled
    BY <2>1 DEF AllFields
  <2>3. PsSound(k)
    BY <2>2 DEF PsSound
  <2>4. Carried(h, k)
    BY <1>2, <2>2 DEF Carried
  <2> QED BY <2>2, <2>3, <2>4 DEF k
<1> QED BY <1>1, <1>2

(* A slot is charged by a run of the other flags. *)
LEMMA RunKeeps ==
    ASSUME NEW h, PsSound(h), NEW r, RunFields(r), r.on => r.slot \notin h.done
    PROVE  LET k == [h EXCEPT !.run = r] IN PsSound(k) /\ Same(h, k) /\ k.run = r /\ k.done = h.done
<1> DEFINE k == [h EXCEPT !.run = r]
<1>1. k = [plan |-> h.plan, date |-> h.date, run |-> r, done |-> h.done, pre |-> h.pre, spent |-> h.spent,
           got |-> h.got, short |-> h.short, filled |-> h.filled]
  BY RunPut DEF PsSound
<1> HIDE DEF k
<1>2. AllFields(k) /\ k.plan = h.plan /\ k.date = h.date /\ k.run = r /\ k.done = h.done /\ k.got = h.got
      /\ k.short = h.short /\ k.filled = h.filled
  BY <1>1 DEF AllFields
<1>3. PsSound(k) /\ Same(h, k) /\ k.run = r /\ k.done = h.done
  BY <1>2 DEF PsSound, Same
<1> QED BY <1>3 DEF k

(* So is one by other flags that has got another amount. *)
LEMMA RunGotKeeps ==
    ASSUME NEW h, PsSound(h), NEW r, RunFields(r), r.on => r.slot \notin h.done, NEW g \in Nat,
           NEW k, k = [plan |-> h.plan, date |-> h.date, run |-> r, done |-> h.done, pre |-> h.pre, spent |-> h.spent,
                       got |-> g, short |-> h.short, filled |-> h.filled]
    PROVE  PsSound(k) /\ Same(h, k)
<1>1. AllFields(k) /\ k.plan = h.plan /\ k.date = h.date /\ k.run = r /\ k.done = h.done /\ k.got = g
      /\ k.short = h.short /\ k.filled = h.filled
  BY DEF AllFields
<1> QED BY <1>1 DEF PsSound, Same

LEMMA SlotFields == ASSUME NEW r, RunFields(r), NEW s, NEW u
    PROVE LET k == [r EXCEPT !.slot = s, !.purpose = u] IN RunFields(k) /\ k.slot = s /\ k.on = r.on
<1> DEFINE k == [r EXCEPT !.slot = s, !.purpose = u]
<1>1. k = [grid |-> r.grid, on |-> r.on, slot |-> s, purpose |-> u, rt |-> r.rt, asked |-> r.asked]
  BY SlotPut
<1> HIDE DEF k
<1>2. RunFields(k) /\ k.slot = s /\ k.on = r.on
  BY <1>1 DEF RunFields
<1> QED BY <1>2 DEF k

LEMMA PurposeFields == ASSUME NEW r, RunFields(r), NEW u
    PROVE LET k == [r EXCEPT !.purpose = u] IN RunFields(k) /\ k.slot = r.slot /\ k.on = r.on /\ k.purpose = u
<1> DEFINE k == [r EXCEPT !.purpose = u]
<1>1. k = [grid |-> r.grid, on |-> r.on, slot |-> r.slot, purpose |-> u, rt |-> r.rt, asked |-> r.asked]
  BY PurposePut
<1> HIDE DEF k
<1>2. RunFields(k) /\ k.slot = r.slot /\ k.on = r.on /\ k.purpose = u
  BY <1>1 DEF RunFields
<1> QED BY <1>2 DEF k

(* A hand-over carries what the slot before had not got. *)
LEMMA HandOverKeeps ==
    ASSUME NEW h, PsSound(h), NEW s, h.run.slot # s, NEW x
    PROVE  PsSound(HandOver(h, s, x)) /\ Carried(h, HandOver(h, s, x))
<1> DEFINE c == CarriedOver(h, s)
           d == IF s \in c.done THEN c ELSE Refresh(c, s, x)
           u == IF s \in d.done THEN "none" ELSE Effective(d.plan, s, d.pre, x.pending)
           off == [d EXCEPT !.done = @ \cup {s}]
           r == [d.run EXCEPT !.slot = s, !.purpose = u]
           go == [d EXCEPT !.run = r]
           k == HandOver(h, s, x)
<1>1. k = IF u = "none" THEN Stop(d) ELSE IF u = "deficit" /\ ~Works(d, s, x) THEN Stop(off) ELSE go
  BY Zenon DEF HandOver
<1>2. PsSound(c) /\ Carried(h, c) /\ c.run = h.run /\ c.done = h.done
  BY CarriedOverKeeps
<1> HIDE DEF c
<1>3. PsSound(d) /\ Same(c, d) /\ d.done = c.done /\ d.run = h.run
  <2>1. PsSound(Refresh(c, s, x)) /\ Same(c, Refresh(c, s, x)) /\ Refresh(c, s, x).done = c.done
        /\ Refresh(c, s, x).run = c.run
    BY <1>2, RefreshKeeps
  <2> QED BY <1>2, <2>1, SameItself
<1>4. u # "none" => s \notin d.done
  OBVIOUS
<1> HIDE DEF d, u
<1>5. PsSound(Stop(d)) /\ Same(d, Stop(d))
  BY <1>3, StopKeeps
<1>6. CASE u = "none"
  BY <1>1, <1>2, <1>3, <1>5, <1>6, SameChains, CarriedThenSame
<1>7. ASSUME u # "none", RunFields(d.run) PROVE PsSound(go) /\ Same(d, go)
  <2>1. RunFields(r) /\ r.slot = s /\ r.on = d.run.on
    BY <1>7, SlotFields
  <2> HIDE DEF r
  <2> QED BY <1>3, <1>4, <1>7, <2>1, RunKeeps
<1>8. ASSUME u = "deficit", ~Works(d, s, x) PROVE PsSound(k) /\ Same(d, k)
  <2>1. PsSound(off) /\ Same(d, off) /\ off.run = d.run
    BY <1>3, DoneKeeps
  <2> HIDE DEF off
  <2>2. PsSound(Stop(off)) /\ Same(off, Stop(off))
    BY <2>1, StopKeeps
  <2>3. k = Stop(off)
    BY <1>1, <1>8
  <2> QED BY <2>1, <2>2, <2>3, SameChains
<1>9. RunFields(d.run)
  BY <1>3 DEF PsSound
<1> QED BY <1>1, <1>2, <1>3, <1>6, <1>7, <1>8, <1>9, SameChains, CarriedThenSame

LEMMA OpenedKeeps ==
    ASSUME NEW h, PsSound(h), ~h.run.on, NEW s, NEW x
    PROVE  PsSound(Opened(h, s, x)) /\ Same(h, Opened(h, s, x))
<1> DEFINE d == IF s \in h.done THEN h ELSE Refresh(h, s, x)
           u == IF s \in d.done THEN "none" ELSE Effective(d.plan, s, d.pre, x.pending)
           off == [d EXCEPT !.done = @ \cup {s}]
           r == [d.run EXCEPT !.on = TRUE, !.slot = s, !.purpose = u, !.grid = TRUE]
           go == [d EXCEPT !.run = r, !.got = 0]
           k == Opened(h, s, x)
<1>1. k = IF u = "none" \/ x.blocked THEN d ELSE IF u = "deficit" /\ ~Works(d, s, x) THEN off ELSE go
  BY Zenon DEF Opened
<1>2. PsSound(d) /\ Same(h, d) /\ d.run = h.run
  <2>1. PsSound(Refresh(h, s, x)) /\ Same(h, Refresh(h, s, x)) /\ Refresh(h, s, x).run = h.run
    BY RefreshKeeps
  <2> QED BY <2>1, SameItself
<1>3. u # "none" => s \notin d.done
  OBVIOUS
<1> HIDE DEF d, u
<1>4. PsSound(off) /\ Same(d, off) /\ off.run = d.run
  BY <1>2, DoneKeeps
<1> HIDE DEF off
<1>5. ASSUME u # "none" PROVE PsSound(go) /\ Same(d, go)
  <2>1. RunFields(d.run)
    BY <1>2 DEF PsSound
  <2>2. \A a, b : [d.run EXCEPT !.on = a, !.slot = s, !.purpose = u, !.grid = b]
                   = [grid |-> b, on |-> a, slot |-> s, purpose |-> u, rt |-> d.run.rt, asked |-> d.run.asked]
    BY <2>1, OpenPut
  <2>3. RunFields(r) /\ r.slot = s
    <3>1. r = [grid |-> TRUE, on |-> TRUE, slot |-> s, purpose |-> u, rt |-> d.run.rt, asked |-> d.run.asked]
      BY <2>2
    <3> HIDE DEF r
    <3> QED BY <3>1 DEF RunFields
  <2> HIDE DEF r
  <2>4. go = [plan |-> d.plan, date |-> d.date, run |-> r, done |-> d.done, pre |-> d.pre, spent |-> d.spent,
              got |-> 0, short |-> d.short, filled |-> d.filled]
    BY <1>2, ChargePut DEF PsSound
  <2> HIDE DEF go
  <2>5. PsSound(go) /\ Same(d, go)
    <3>1. (r.on => r.slot \notin d.done) /\ 0 \in Nat
      BY <1>3, <1>5, <2>3
    <3> QED BY <1>2, <2>3, <2>4, <3>1, RunGotKeeps
  <2> QED BY <2>5
<1> QED BY <1>1, <1>2, <1>4, <1>5, SameChains

LEMMA ReachedKeeps ==
    ASSUME NEW h, PsSound(h), NEW s, NEW p, PlanSound(p), p.slots \subseteq h.plan.slots,
           p.slots = h.plan.slots /\ h.plan.slots # {} => p.quota = h.plan.quota
    PROVE  LET k == Stop([h EXCEPT !.done = h.done \cup {s}, !.filled = h.filled \cup {s}, !.plan = p])
           IN PsSound(k) /\ Same(h, k)
<1> DEFINE d == h.done \cup {s}
           f == h.filled \cup {s}
           e == [h EXCEPT !.done = d, !.filled = f, !.plan = p]
           k == Stop(e)
<1>1. f \subseteq d /\ AllFields(h)
  BY DEF PsSound
<1> HIDE DEF d, f
<1>2. e = [plan |-> p, date |-> h.date, run |-> h.run, done |-> d, pre |-> h.pre, spent |-> h.spent,
           got |-> h.got, short |-> h.short, filled |-> f]
  BY <1>1, FilledPut
<1> HIDE DEF e
<1>3. AllFields(e) /\ e.plan = p /\ e.date = h.date /\ e.done = d /\ e.short = h.short /\ e.filled = f
  BY <1>2 DEF AllFields
<1>4. \A t, g : [e EXCEPT !.run = Idle, !.spent = t, !.got = g]
          = [plan |-> e.plan, date |-> e.date, run |-> Idle, done |-> e.done, pre |-> e.pre, spent |-> t,
             got |-> g, short |-> e.short, filled |-> e.filled]
  BY <1>3, EndPut
<1>5. k = [plan |-> e.plan, date |-> e.date, run |-> Idle, done |-> e.done, pre |-> e.pre, spent |-> TRUE,
           got |-> 0, short |-> e.short, filled |-> e.filled]
  BY <1>4 DEF Stop
<1> HIDE DEF k
<1>6. AllFields(k) /\ k.plan = p /\ k.date = h.date /\ k.run = Idle /\ k.done = d /\ k.got = 0
      /\ k.short = h.short /\ k.filled = f
  BY <1>3, <1>5 DEF AllFields
<1>7. PsSound(k) /\ Same(h, k)
  BY <1>1, <1>6, IdleFields DEF PsSound, Same
<1> QED BY <1>7 DEF k, e, d, f

LEMMA ChargedKeeps ==
    ASSUME NEW h, PsSound(h), NEW s, NEW x
    PROVE  PsSound(Charged(h, s, x)) /\ Same(h, Charged(h, s, x))
<1> DEFINE u == Effective(h.plan, s, h.pre, x.pending)
           thin == [h EXCEPT !.plan = Prune(h.plan)]
           end == Stop([h EXCEPT !.done = h.done \cup {s}, !.filled = h.filled \cup {s},
                                 !.plan = IF x.pending THEN h.plan ELSE Prune(h.plan)])
           r == [h.run EXCEPT !.purpose = u]
           g == IF h.got < h.plan.quota[s] THEN h.got + 1 ELSE h.got
           go == [h EXCEPT !.run = r, !.got = g]
           k == Charged(h, s, x)
<1>1. k = IF u = "none" THEN Stop(IF x.pending THEN h ELSE thin) ELSE IF x.reached THEN end ELSE go
  BY DEF Charged
<1>2. PsSound(thin) /\ Same(h, thin)
  <2>1. PsSound(thin) /\ Same(h, thin) /\ thin.run = h.run /\ thin.done = h.done /\ thin.got = h.got
    BY PrunedPlan
  <2> QED BY <2>1
<1> HIDE DEF u, thin
<1>3. PsSound(Stop(thin)) /\ Same(thin, Stop(thin)) /\ PsSound(Stop(h)) /\ Same(h, Stop(h))
  BY <1>2, StopKeeps
<1>4. PsSound(end) /\ Same(h, end)
  <2> DEFINE p == IF x.pending THEN h.plan ELSE Prune(h.plan)
  <2>1. PlanSound(p) /\ p.slots \subseteq h.plan.slots
        /\ (p.slots = h.plan.slots /\ h.plan.slots # {} => p.quota = h.plan.quota)
    <3>1. PlanSound(h.plan)
      BY DEF PsSound
    <3>2. /\ PlanSound(Prune(h.plan)) /\ Prune(h.plan).slots \subseteq h.plan.slots
          /\ Prune(h.plan).slots = h.plan.slots /\ h.plan.slots # {} => Prune(h.plan).quota = h.plan.quota
      BY <3>1, PruneKeeps
    <3> QED BY <3>1, <3>2
  <2> HIDE DEF p
  <2>2. LET l == Stop([h EXCEPT !.done = h.done \cup {s}, !.filled = h.filled \cup {s}, !.plan = p])
        IN PsSound(l) /\ Same(h, l)
    BY <2>1, ReachedKeeps
  <2> QED BY <2>2 DEF p
<1> HIDE DEF end
<1>5. PsSound(go) /\ Same(h, go)
  <2>1. RunFields(h.run) /\ h.got \in Nat /\ (h.run.on => h.run.slot \notin h.done)
    BY DEF PsSound
  <2>2. RunFields(r) /\ r.slot = h.run.slot /\ r.on = h.run.on /\ r.purpose = u
    BY <2>1, PurposeFields
  <2>3. g \in Nat
    BY <2>1
  <2> HIDE DEF r, g
  <2>4. go = [plan |-> h.plan, date |-> h.date, run |-> r, done |-> h.done, pre |-> h.pre, spent |-> h.spent,
              got |-> g, short |-> h.short, filled |-> h.filled]
    BY ChargePut DEF PsSound
  <2> HIDE DEF go
  <2>5. PsSound(go) /\ Same(h, go)
    <3>1. r.on => r.slot \notin h.done
      BY <2>1, <2>2
    <3> QED BY <2>2, <2>3, <2>4, <3>1, RunGotKeeps
  <2> QED BY <2>5
<1> HIDE DEF go, k
<1>6. k \in {Stop(h), Stop(thin), end, go}
  BY <1>1
<1>7. PsSound(k) /\ Same(h, k)
  BY <1>2, <1>3, <1>4, <1>5, <1>6, SameChains
<1> QED BY <1>7 DEF k

LEMMA PrunedKeeps ==
    ASSUME NEW h, PsSound(h), NEW x
    PROVE  LET k == Pruned(h, x)
           IN /\ PsSound(k) /\ Same(h, k)
              /\ \/ /\ k.run.slot = h.run.slot /\ k.run.on = h.run.on
                    /\ Missing(k.plan, k.run, k.got) = Missing(h.plan, h.run, h.got) \/ k.plan.slots # h.plan.slots
                 \/ k.run = Idle /\ Missing(h.plan, h.run, h.got) = 0
<1> DEFINE p == [h EXCEPT !.plan = Prune(h.plan)]
           r == [h.run EXCEPT !.purpose = "deficit"]
           go == [p EXCEPT !.run = r]
           k == Pruned(h, x)
           Quiet(l) == /\ l.run.slot = h.run.slot /\ l.run.on = h.run.on
                       /\ Missing(l.plan, l.run, l.got) = Missing(h.plan, h.run, h.got) \/ l.plan.slots # h.plan.slots
           Closed(l) == l.run = Idle /\ Missing(h.plan, h.run, h.got) = 0
<1>1. \/ k = h
      \/ k = p
      \/ h.run.purpose = "negative" /\ k = Stop(p)
      \/ h.run.purpose = "combined" /\ k = go
  BY Zenon DEF Pruned
<1>2. PsSound(p) /\ Same(h, p) /\ p.run = h.run /\ p.done = h.done /\ p.got = h.got
  BY PrunedPlan
<1> HIDE DEF p
<1>3. \A l : Same(h, l) /\ l.run.slot = h.run.slot /\ (HasDeficit(l.run.purpose) <=> HasDeficit(h.run.purpose)) /\ l.got = h.got
             => Missing(l.plan, l.run, l.got) = Missing(h.plan, h.run, h.got) \/ l.plan.slots # h.plan.slots
  <2> TAKE l
  <2> HAVE Same(h, l) /\ l.run.slot = h.run.slot /\ (HasDeficit(l.run.purpose) <=> HasDeficit(h.run.purpose)) /\ l.got = h.got
  <2>1. CASE l.plan.slots = h.plan.slots /\ h.run.slot \in h.plan.slots
    <3>1. l.plan.quota = h.plan.quota
      BY <2>1 DEF Same
    <3> QED BY <2>1, <3>1 DEF Missing
  <2>2. CASE l.plan.slots = h.plan.slots /\ h.run.slot \notin h.plan.slots
    BY <2>2 DEF Missing
  <2> QED BY <2>1, <2>2
<1>4. PsSound(h) /\ Same(h, h) /\ Quiet(h)
  BY SameItself
<1>5. Quiet(p)
  BY <1>2, <1>3
<1>6. ASSUME h.run.purpose = "negative" PROVE PsSound(Stop(p)) /\ Same(h, Stop(p)) /\ Closed(Stop(p))
  <2>1. PsSound(Stop(p)) /\ Same(p, Stop(p)) /\ Stop(p).run = Idle
    BY <1>2, StopKeeps
  <2>2. Missing(h.plan, h.run, h.got) = 0
    BY <1>6 DEF Missing, HasDeficit
  <2> QED BY <1>2, <2>1, <2>2, SameChains
<1>7. ASSUME h.run.purpose = "combined" PROVE PsSound(go) /\ Same(h, go) /\ Quiet(go)
  <2>1. RunFields(h.run) /\ (h.run.on => h.run.slot \notin h.done)
    BY DEF PsSound
  <2>2. RunFields(r) /\ r.slot = h.run.slot /\ r.on = h.run.on /\ r.purpose = "deficit"
    BY <2>1, PurposeFields
  <2> HIDE DEF r
  <2>3. PsSound(go) /\ Same(p, go) /\ go.run = r /\ go.done = p.done
    BY <1>2, <2>1, <2>2, RunKeeps
  <2>4. go.got = p.got
    BY <1>2, RunPut DEF PsSound
  <2> HIDE DEF go
  <2>5. Same(h, go)
    BY <1>2, <2>3, SameChains
  <2>6. HasDeficit(go.run.purpose) /\ HasDeficit(h.run.purpose)
    BY <1>7, <2>2, <2>3 DEF HasDeficit
  <2>7. Quiet(go)
    BY <1>2, <1>3, <2>2, <2>3, <2>4, <2>5, <2>6
  <2> QED BY <2>3, <2>5, <2>7
<1> HIDE DEF k, go, Quiet, Closed
<1>8. PsSound(k) /\ Same(h, k) /\ (Quiet(k) \/ Closed(k))
  BY <1>1, <1>2, <1>4, <1>5, <1>6, <1>7
<1> QED BY <1>8 DEF k, Quiet, Closed

LEMMA GridPut == \A r : RunFields(r) => \A v1 :
    [r EXCEPT !.grid = v1]
    = [grid |-> v1, on |-> r.on, slot |-> r.slot, purpose |-> r.purpose, rt |-> r.rt, asked |-> r.asked]
<1> SUFFICES ASSUME NEW r, RunFields(r), NEW v1
             PROVE  [r EXCEPT !.grid = v1]
                    = [grid |-> v1, on |-> r.on, slot |-> r.slot, purpose |-> r.purpose, rt |-> r.rt,
                       asked |-> r.asked]
  OBVIOUS
<1> QED BY DEF RunFields

LEMMA RtPut == \A r : RunFields(r) => \A v1, v2 :
    [r EXCEPT !.rt = v1, !.grid = v2]
    = [grid |-> v2, on |-> r.on, slot |-> r.slot, purpose |-> r.purpose, rt |-> v1, asked |-> r.asked]
<1> SUFFICES ASSUME NEW r, RunFields(r), NEW v1, NEW v2
             PROVE  [r EXCEPT !.rt = v1, !.grid = v2]
                    = [grid |-> v2, on |-> r.on, slot |-> r.slot, purpose |-> r.purpose, rt |-> v1,
                       asked |-> r.asked]
  OBVIOUS
<1> DEFINE q1 == [r EXCEPT !.rt = v1]
           q2 == [q1 EXCEPT !.grid = v2]
<1>1. q1 = [grid |-> r.grid, on |-> r.on, slot |-> r.slot, purpose |-> r.purpose, rt |-> v1,
          asked |-> r.asked]
  BY DEF RunFields
<1> HIDE DEF q1
<1>2. q2 = [grid |-> v2, on |-> r.on, slot |-> r.slot, purpose |-> r.purpose, rt |-> v1,
          asked |-> r.asked]
  BY <1>1
<1>3. q2 = [r EXCEPT !.rt = v1, !.grid = v2]
  BY Zenon DEF q1, q2
<1> QED BY <1>2, <1>3, Zenon

LEMMA AskedPut == \A r : RunFields(r) => \A v1, v2 :
    [r EXCEPT !.asked = v1, !.grid = v2]
    = [grid |-> v2, on |-> r.on, slot |-> r.slot, purpose |-> r.purpose, rt |-> r.rt, asked |-> v1]
<1> SUFFICES ASSUME NEW r, RunFields(r), NEW v1, NEW v2
             PROVE  [r EXCEPT !.asked = v1, !.grid = v2]
                    = [grid |-> v2, on |-> r.on, slot |-> r.slot, purpose |-> r.purpose, rt |-> r.rt,
                       asked |-> v1]
  OBVIOUS
<1> DEFINE q1 == [r EXCEPT !.asked = v1]
           q2 == [q1 EXCEPT !.grid = v2]
<1>1. q1 = [grid |-> r.grid, on |-> r.on, slot |-> r.slot, purpose |-> r.purpose, rt |-> r.rt,
          asked |-> v1]
  BY DEF RunFields
<1> HIDE DEF q1
<1>2. q2 = [grid |-> v2, on |-> r.on, slot |-> r.slot, purpose |-> r.purpose, rt |-> r.rt, asked |-> v1]
  BY <1>1
<1>3. q2 = [r EXCEPT !.asked = v1, !.grid = v2]
  BY Zenon DEF q1, q2
<1> QED BY <1>2, <1>3, Zenon

LEMMA QuietPut == \A r : RunFields(r) => \A v1, v2 :
    [r EXCEPT !.on = v1, !.purpose = v2]
    = [grid |-> r.grid, on |-> v1, slot |-> r.slot, purpose |-> v2, rt |-> r.rt, asked |-> r.asked]
<1> SUFFICES ASSUME NEW r, RunFields(r), NEW v1, NEW v2
             PROVE  [r EXCEPT !.on = v1, !.purpose = v2]
                    = [grid |-> r.grid, on |-> v1, slot |-> r.slot, purpose |-> v2, rt |-> r.rt,
                       asked |-> r.asked]
  OBVIOUS
<1> DEFINE q1 == [r EXCEPT !.on = v1]
           q2 == [q1 EXCEPT !.purpose = v2]
<1>1. q1 = [grid |-> r.grid, on |-> v1, slot |-> r.slot, purpose |-> r.purpose, rt |-> r.rt,
          asked |-> r.asked]
  BY DEF RunFields
<1> HIDE DEF q1
<1>2. q2 = [grid |-> r.grid, on |-> v1, slot |-> r.slot, purpose |-> v2, rt |-> r.rt, asked |-> r.asked]
  BY <1>1
<1>3. q2 = [r EXCEPT !.on = v1, !.purpose = v2]
  BY Zenon DEF q1, q2
<1> QED BY <1>2, <1>3, Zenon

LEMMA ResetPut == \A h : AllFields(h) => \A v, w :
    [h EXCEPT !.plan = NoPlan, !.date = PsNone, !.run = v, !.done = {}, !.pre = w, !.filled = {}]
    = [plan |-> NoPlan, date |-> PsNone, run |-> v, done |-> {}, pre |-> w, spent |-> h.spent, got |-> h.got,
       short |-> h.short, filled |-> {}]
<1> SUFFICES ASSUME NEW h, AllFields(h), NEW v, NEW w
             PROVE  [h EXCEPT !.plan = NoPlan, !.date = PsNone, !.run = v, !.done = {}, !.pre = w, !.filled = {}]
                    = [plan |-> NoPlan, date |-> PsNone, run |-> v, done |-> {}, pre |-> w, spent |-> h.spent,
                       got |-> h.got, short |-> h.short, filled |-> {}]
  OBVIOUS
<1> DEFINE q1 == [h EXCEPT !.plan = NoPlan]
           q2 == [q1 EXCEPT !.date = PsNone]
           q3 == [q2 EXCEPT !.run = v]
           q4 == [q3 EXCEPT !.done = {}]
           q5 == [q4 EXCEPT !.pre = w]
           q6 == [q5 EXCEPT !.filled = {}]
<1>1. q1 = [plan |-> NoPlan, date |-> h.date, run |-> h.run, done |-> h.done, pre |-> h.pre, spent |-> h.spent,
          got |-> h.got, short |-> h.short, filled |-> h.filled]
  BY DEF AllFields
<1> HIDE DEF q1
<1>2. q2 = [plan |-> NoPlan, date |-> PsNone, run |-> h.run, done |-> h.done, pre |-> h.pre, spent |-> h.spent,
          got |-> h.got, short |-> h.short, filled |-> h.filled]
  BY <1>1
<1> HIDE DEF q2
<1>3. q3 = [plan |-> NoPlan, date |-> PsNone, run |-> v, done |-> h.done, pre |-> h.pre, spent |-> h.spent,
          got |-> h.got, short |-> h.short, filled |-> h.filled]
  BY <1>2
<1> HIDE DEF q3
<1>4. q4 = [plan |-> NoPlan, date |-> PsNone, run |-> v, done |-> {}, pre |-> h.pre, spent |-> h.spent,
          got |-> h.got, short |-> h.short, filled |-> h.filled]
  BY <1>3
<1> HIDE DEF q4
<1>5. q5 = [plan |-> NoPlan, date |-> PsNone, run |-> v, done |-> {}, pre |-> w, spent |-> h.spent,
          got |-> h.got, short |-> h.short, filled |-> h.filled]
  BY <1>4
<1> HIDE DEF q5
<1>6. q6 = [plan |-> NoPlan, date |-> PsNone, run |-> v, done |-> {}, pre |-> w, spent |-> h.spent,
          got |-> h.got, short |-> h.short, filled |-> {}]
  BY <1>5
<1>7. q6 = [h EXCEPT !.plan = NoPlan, !.date = PsNone, !.run = v, !.done = {}, !.pre = w, !.filled = {}]
  BY Zenon DEF q1, q2, q3, q4, q5, q6
<1> QED BY <1>6, <1>7, Zenon

LEMMA AtEdgeKeeps ==
    ASSUME NEW h, PsSound(h), NEW s, NEW x
    PROVE  LET k == AtEdge(h, s, x)
           IN /\ PsSound(k)
              /\ ~h.run.on => Same(h, k)
              /\ h.run.on /\ s = PsNone => Carried(h, k)
              /\ h.run.on /\ s # PsNone => k = h
<1> DEFINE k == AtEdge(h, s, x)
           c == CarriedOver(h, PsNone)
<1>1. k = IF s # PsNone /\ ~h.run.on THEN Opened(h, s, x) ELSE IF s = PsNone /\ h.run.on THEN Stop(c) ELSE h
  BY Zenon DEF AtEdge
<1>2. PsSound(c) /\ Carried(h, c) /\ c.plan.slots = h.plan.slots /\ c.run = h.run /\ c.done = h.done
  BY CarriedOverKeeps
<1> HIDE DEF c, k
<1>3. PsSound(Stop(c)) /\ Same(c, Stop(c)) /\ Stop(c).run = Idle
  BY <1>2, StopKeeps
<1>4. Carried(h, Stop(c))
  BY <1>2, <1>3, CarriedThenSame
<1>5. ~h.run.on => PsSound(Opened(h, s, x)) /\ Same(h, Opened(h, s, x))
  BY OpenedKeeps
<1>6. PsSound(k) /\ (~h.run.on => Same(h, k)) /\ (h.run.on /\ s = PsNone => Carried(h, k))
      /\ (h.run.on /\ s # PsNone => k = h)
  BY <1>1, <1>3, <1>4, <1>5, SameItself
<1> QED BY <1>6 DEF k

(* What is left of a cycle once finished opportunities are off the schedule. *)
LEMMA RestKeeps ==
    ASSUME NEW h, PsSound(h), NEW s, NEW x
    PROVE  LET e == AtEdge(Moved(h, s, x), s, x)
               k == IF e.run.on THEN Charged(e, s, x) ELSE e
           IN /\ PsSound(k)
              /\ Same(h, k) \/ Carried(h, k)
              /\ ~h.run.on => Same(h, k)
              /\ h.run.on /\ h.run.slot # PsNone /\ h.run.slot # s => Carried(h, k)
<1> DEFINE m == Moved(h, s, x)
           e == AtEdge(m, s, x)
           k == IF e.run.on THEN Charged(e, s, x) ELSE e
<1>1. m = IF s # PsNone /\ h.run.on /\ h.run.slot # PsNone /\ h.run.slot # s THEN HandOver(h, s, x) ELSE h
  BY Zenon DEF Moved
<1>2. h.run.slot # s => PsSound(HandOver(h, s, x)) /\ Carried(h, HandOver(h, s, x))
  BY HandOverKeeps
<1> HIDE DEF m
<1>3. PsSound(m) /\ (m = h \/ (Carried(h, m) /\ s # PsNone))
  BY <1>1, <1>2
<1>4. /\ PsSound(e)
      /\ ~m.run.on => Same(m, e)
      /\ m.run.on /\ s = PsNone => Carried(m, e)
      /\ m.run.on /\ s # PsNone => e = m
  BY <1>3, AtEdgeKeeps
<1> HIDE DEF e
<1>5. PsSound(Charged(e, s, x)) /\ Same(e, Charged(e, s, x))
  BY <1>4, ChargedKeeps
<1>6. PsSound(k) /\ Same(e, k)
  BY <1>4, <1>5, SameItself
<1> HIDE DEF k
<1>7. (~m.run.on \/ s # PsNone) => Same(m, k)
  BY <1>4, <1>6, SameChains
<1>8. m.run.on /\ s = PsNone => Carried(m, k)
  BY <1>4, <1>6, CarriedThenSame
<1>9. Same(m, k) \/ Carried(m, k)
  BY <1>7, <1>8
<1>10. CASE m = h
  <2>1. h.run.on /\ h.run.slot # PsNone /\ h.run.slot # s => Carried(h, k)
    <3> SUFFICES ASSUME h.run.on, h.run.slot # PsNone, h.run.slot # s PROVE Carried(h, k)
      OBVIOUS
    <3>1. CASE s = PsNone
      BY <1>8, <1>10, <3>1
    <3>2. CASE s # PsNone
      <4>1. Carried(h, h)
        BY <1>1, <1>2, <1>10, <3>2
      <4>2. Same(h, k)
        BY <1>7, <1>10, <3>2
      <4> QED BY <4>1, <4>2, CarriedThenSame
    <3> QED BY <3>1, <3>2
  <2>2. ~h.run.on => Same(h, k)
    BY <1>7, <1>10
  <2> QED BY <1>6, <1>9, <1>10, <2>1, <2>2 DEF k, e, m
<1>11. CASE m # h
  <2>1. Carried(h, m) /\ s # PsNone /\ h.run.on
    BY <1>1, <1>3, <1>11
  <2>2. Carried(h, k)
    BY <1>7, <2>1, CarriedThenSame
  <2> QED BY <1>6, <2>1, <2>2 DEF k, e, m
<1> QED BY <1>10, <1>11

(* The day of a slot grows with its start. *)
LEMMA DayGrows ==
    ASSUME NEW a \in Nat, NEW b \in Nat, a <= b
    PROVE  Day(a) \in Nat /\ Day(b) \in Nat /\ Day(a) <= Day(b)
<1>1. PsDay \in Nat /\ PsDay > 0
  BY PsAssumption
<1> DEFINE p == a \div PsDay
           q == b \div PsDay
<1>2. p \in Int /\ q \in Int /\ PsDay * p <= a /\ a < PsDay * (p + 1) /\ PsDay * q <= b /\ b < PsDay * (q + 1)
  BY <1>1
<1> HIDE DEF p, q
<1>3. p >= 0 /\ q >= 0 /\ p <= q
  BY <1>1, <1>2
<1> QED BY <1>2, <1>3 DEF Day, p, q

LEMMA DayEnds ==
    ASSUME NEW a \in Nat, NEW n \in Nat, a >= n * PsDay
    PROVE  Day(a) >= n
<1>1. PsDay \in Nat /\ PsDay > 0
  BY PsAssumption
<1> DEFINE p == a \div PsDay
<1>2. p \in Int /\ PsDay * p <= a /\ a < PsDay * (p + 1)
  BY <1>1
<1> HIDE DEF p
<1>3. n < p + 1
  BY <1>1, <1>2
<1> QED BY <1>2, <1>3 DEF Day, p

(* The schedule is for the day of its last slot. *)
Dated(h) == h.date \in Int /\ (h.date # PsNone => \A s \in h.plan.slots : Day(s) <= h.date)

LEMMA DatedStays == ASSUME NEW h, Dated(h), NEW k, Same(h, k) \/ Carried(h, k) PROVE Dated(k)
BY DEF Dated, Same, Carried

LEMMA PsNewDayKeeps ==
    ASSUME NEW h, PsSound(h), Dated(h), psNow \in Nat
    PROVE  LET k == NewDay(h) IN PsSound(k) /\ Dated(k) /\ (k = h \/ k.plan = NoPlan)
<1> DEFINE keep == {s \in h.plan.slots : s >= Day(psNow) * PsDay}
           k == NewDay(h)
<1>1. CASE h.date = PsNone \/ Day(psNow) <= h.date
  <2>1. k = h
    BY <1>1 DEF NewDay
  <2> HIDE DEF k
  <2> QED BY <2>1 DEF k
<1>2. CASE ~(h.date = PsNone \/ Day(psNow) <= h.date)
  <2>1. keep = {}
    <3> SUFFICES ASSUME NEW s \in keep PROVE FALSE
      OBVIOUS
    <3>1. s \in Nat /\ s >= Day(psNow) * PsDay /\ Day(s) <= h.date /\ h.date \in Int
      BY <1>2 DEF PsSound, PlanSound, PsSlots, Dated
    <3>2. Day(psNow) \in Nat /\ Day(s) \in Nat
      BY <3>1, DayGrows
    <3>3. Day(s) >= Day(psNow)
      BY <3>1, <3>2, DayEnds
    <3> QED BY <1>2, <3>1, <3>2, <3>3
  <2> DEFINE r == [h.run EXCEPT !.on = FALSE, !.purpose = "none"]
             none == <<>>
             put == [h EXCEPT !.plan = NoPlan, !.date = PsNone, !.run = r, !.done = {}, !.pre = none, !.filled = {}]
  <2>2. k = put
    BY <1>2, <2>1 DEF NewDay
  <2> HIDE DEF none
  <2>3. \A a, b : [h.run EXCEPT !.on = a, !.purpose = b]
            = [grid |-> h.run.grid, on |-> a, slot |-> h.run.slot, purpose |-> b, rt |-> h.run.rt, asked |-> h.run.asked]
    BY QuietPut DEF PsSound
  <2>4. r = [grid |-> h.run.grid, on |-> FALSE, slot |-> h.run.slot, purpose |-> "none", rt |-> h.run.rt,
             asked |-> h.run.asked]
    BY <2>3
  <2> HIDE DEF r
  <2>5. RunFields(r) /\ ~r.on
    BY <2>4 DEF RunFields
  <2>6. put = [plan |-> NoPlan, date |-> PsNone, run |-> r, done |-> {}, pre |-> none, spent |-> h.spent,
               got |-> h.got, short |-> h.short, filled |-> {}]
    <3>1. AllFields(h)
      BY DEF PsSound
    <3>2. \A v, w :
             [h EXCEPT !.plan = NoPlan, !.date = PsNone, !.run = v, !.done = {}, !.pre = w, !.filled = {}]
             = [plan |-> NoPlan, date |-> PsNone, run |-> v, done |-> {}, pre |-> w, spent |-> h.spent,
                got |-> h.got, short |-> h.short, filled |-> {}]
      BY <3>1, ResetPut
    <3> QED BY <3>2
  <2> HIDE DEF put, k
  <2>7. AllFields(k) /\ k.plan = NoPlan /\ k.date = PsNone /\ k.run = r /\ k.done = {} /\ k.got = h.got
        /\ k.short = h.short /\ k.filled = {}
    BY <2>2, <2>6 DEF AllFields
  <2>8. PsSound(k) /\ Dated(k)
    BY <2>5, <2>7, NoPlanSound DEF PsSound, Dated, PsNone
  <2> QED BY <2>7, <2>8 DEF k
<1> QED BY <1>1, <1>2

LEMMA RunStays ==
    ASSUME NEW h, PsSound(h), NEW r, RunFields(r), r.on = h.run.on, r.slot = h.run.slot
    PROVE  LET k == [h EXCEPT !.run = r] IN PsSound(k) /\ Same(h, k) /\ k.run = r
<1> DEFINE k == [h EXCEPT !.run = r]
<1>1. r.on => r.slot \notin h.done
  BY DEF PsSound
<1>2. PsSound(k) /\ Same(h, k) /\ k.run = r /\ k.done = h.done
  BY <1>1, RunKeeps
<1> QED BY <1>2

(* No slot is opened or left by such a cycle. *)
SlotStays(h, k) == PsSound(k) /\ Same(h, k) /\ k.run.slot = h.run.slot

LEMMA FlagPut ==
    ASSUME NEW h, PsSound(h), NEW l, SlotStays(h, l), NEW r, RunFields(r), r.on = l.run.on, r.slot = l.run.slot
    PROVE  SlotStays(h, [l EXCEPT !.run = r])
<1> DEFINE k == [l EXCEPT !.run = r]
<1>1. PsSound(k) /\ Same(l, k) /\ k.run = r
  BY RunStays DEF SlotStays
<1> HIDE DEF k
<1>2. SlotStays(h, k)
  BY <1>1, SameChains DEF SlotStays
<1> QED BY <1>2 DEF k

LEMMA GridOff ==
    ASSUME NEW h, PsSound(h), NEW l, SlotStays(h, l)
    PROVE  SlotStays(h, [l EXCEPT !.run = [l.run EXCEPT !.grid = FALSE]])
<1> DEFINE r == [l.run EXCEPT !.grid = FALSE]
<1>1. RunFields(l.run)
  BY DEF SlotStays, PsSound
<1>2. \A a : [l.run EXCEPT !.grid = a]
         = [grid |-> a, on |-> l.run.on, slot |-> l.run.slot, purpose |-> l.run.purpose, rt |-> l.run.rt,
            asked |-> l.run.asked]
  BY <1>1, GridPut
<1>3. r = [grid |-> FALSE, on |-> l.run.on, slot |-> l.run.slot, purpose |-> l.run.purpose, rt |-> l.run.rt,
           asked |-> l.run.asked]
  BY <1>2
<1> HIDE DEF r
<1>4. RunFields(r) /\ r.on = l.run.on /\ r.slot = l.run.slot
  BY <1>3 DEF RunFields
<1>5. SlotStays(h, [l EXCEPT !.run = r])
  BY <1>4, FlagPut
<1> QED BY <1>5 DEF r

LEMMA RealTimeStays == ASSUME NEW h, PsSound(h), NEW x PROVE SlotStays(h, RealTime(h, x))
<1> DEFINE off == [h EXCEPT !.run = [h.run EXCEPT !.rt = FALSE, !.grid = FALSE]]
           on == [h EXCEPT !.run = [h.run EXCEPT !.rt = TRUE, !.grid = TRUE]]
           dear == x.price # "cheap"
           next == IF ~dear /\ ~h.run.rt THEN IF ~x.blocked /\ x.need THEN on ELSE h
                   ELSE IF dear /\ h.run.rt THEN off ELSE h
           last == [next EXCEPT !.run = [next.run EXCEPT !.grid = FALSE]]
           k == RealTime(h, x)
<1>1. k \in {h, off, next, last}
  BY DEF RealTime
<1>2. SlotStays(h, h)
  BY SameItself DEF SlotStays
<1>3. SlotStays(h, off) /\ SlotStays(h, on)
  <2> DEFINE ro == [h.run EXCEPT !.rt = FALSE, !.grid = FALSE]
             rn == [h.run EXCEPT !.rt = TRUE, !.grid = TRUE]
  <2>1. RunFields(h.run)
    BY DEF PsSound
  <2>2. \A a, b : [h.run EXCEPT !.rt = a, !.grid = b]
           = [grid |-> b, on |-> h.run.on, slot |-> h.run.slot, purpose |-> h.run.purpose, rt |-> a, asked |-> h.run.asked]
    BY <2>1, RtPut
  <2>3. ro = [grid |-> FALSE, on |-> h.run.on, slot |-> h.run.slot, purpose |-> h.run.purpose, rt |-> FALSE, asked |-> h.run.asked]
        /\ rn = [grid |-> TRUE, on |-> h.run.on, slot |-> h.run.slot, purpose |-> h.run.purpose, rt |-> TRUE, asked |-> h.run.asked]
    BY <2>2
  <2> HIDE DEF ro, rn
  <2>4. RunFields(ro) /\ ro.on = h.run.on /\ ro.slot = h.run.slot /\ RunFields(rn) /\ rn.on = h.run.on /\ rn.slot = h.run.slot
    BY <2>3 DEF RunFields
  <2>5. SlotStays(h, [h EXCEPT !.run = ro]) /\ SlotStays(h, [h EXCEPT !.run = rn])
    BY <1>2, <2>4, FlagPut
  <2> QED BY <2>5 DEF ro, rn
<1>4. SlotStays(h, next)
  <2> HIDE DEF off, on
  <2> QED BY <1>2, <1>3
<1>5. SlotStays(h, last)
  <2> HIDE DEF next
  <2> QED BY <1>4, GridOff
<1> HIDE DEF off, next, last, k
<1>6. SlotStays(h, k)
  BY <1>1, <1>2, <1>3, <1>4, <1>5
<1> QED BY <1>6 DEF k

LEMMA TimeSlotStays == ASSUME NEW h, PsSound(h), NEW x PROVE SlotStays(h, TimeSlot(h, x))
<1> DEFINE ra == [h.run EXCEPT !.asked = TRUE, !.grid = x.need]
           rf == [h.run EXCEPT !.asked = FALSE, !.grid = FALSE]
           asked == IF ~h.run.asked \/ x.moved THEN [h EXCEPT !.run = ra] ELSE h
           off == [h EXCEPT !.run = rf]
           held == [h EXCEPT !.run = [h.run EXCEPT !.grid = FALSE]]
           done == [asked EXCEPT !.run = [asked.run EXCEPT !.grid = FALSE]]
           k == TimeSlot(h, x)
<1>1. k \in {off, held, done, asked}
  BY DEF TimeSlot
<1>2. SlotStays(h, h)
  BY SameItself DEF SlotStays
<1>3. RunFields(h.run)
  BY DEF PsSound
<1>4. \A a, b : [h.run EXCEPT !.asked = a, !.grid = b]
         = [grid |-> b, on |-> h.run.on, slot |-> h.run.slot, purpose |-> h.run.purpose, rt |-> h.run.rt, asked |-> a]
  BY <1>3, AskedPut
<1>5. ra = [grid |-> x.need, on |-> h.run.on, slot |-> h.run.slot, purpose |-> h.run.purpose, rt |-> h.run.rt, asked |-> TRUE]
      /\ rf = [grid |-> FALSE, on |-> h.run.on, slot |-> h.run.slot, purpose |-> h.run.purpose, rt |-> h.run.rt, asked |-> FALSE]
  BY <1>4
<1> HIDE DEF ra, rf
<1>6. RunFields(ra) /\ ra.on = h.run.on /\ ra.slot = h.run.slot /\ RunFields(rf) /\ rf.on = h.run.on /\ rf.slot = h.run.slot
  BY <1>5 DEF RunFields
<1>7. SlotStays(h, [h EXCEPT !.run = ra]) /\ SlotStays(h, off)
  BY <1>2, <1>6, FlagPut
<1> HIDE DEF off
<1>8. SlotStays(h, asked)
  BY <1>2, <1>7
<1> HIDE DEF asked
<1>9. SlotStays(h, held) /\ SlotStays(h, done)
  BY <1>2, <1>8, GridOff
<1> HIDE DEF held, done, k
<1>10. SlotStays(h, k)
  BY <1>1, <1>7, <1>8, <1>9
<1> QED BY <1>10 DEF k

(* A cycle under dynamic prices: what the slot it leaves had not got is carried over. *)
LEMMA DynamicKeeps ==
    ASSUME NEW h, h = Here, PsSound(h), Dated(h), psNow \in Nat, NEW x, Dynamic(x)
    PROVE  \E k : /\ Becomes(k) /\ PsSound(k) /\ Dated(k)
                  /\ (h.run.on /\ h.run.slot \in h.plan.slots /\ k.run.slot # h.run.slot
                         /\ psNow >= h.run.slot + 2 /\ k.plan.slots = h.plan.slots) => Carried(h, k)
<1> DEFINE d == NewDay(h)
           p == Pruned(d, x)
           now == Current(p.plan, psNow)
           s == IF now = {} THEN PsNone ELSE Min(now)
           off == [p EXCEPT !.run = [p.run EXCEPT !.grid = FALSE, !.on = FALSE]]
           m == Moved(p, s, x)
           e == AtEdge(m, s, x)
           last == IF e.run.on THEN Charged(e, s, x) ELSE e
<1>1. \/ Becomes(off)
      \/ p.plan = NoPlan /\ Becomes(p)
      \/ Becomes(last)
  BY Zenon DEF Dynamic
<1>2. PsSound(d) /\ Dated(d) /\ (d = h \/ d.plan = NoPlan)
  BY PsNewDayKeeps
<1> HIDE DEF d
<1>3. /\ PsSound(p) /\ Same(d, p)
      /\ \/ /\ p.run.slot = d.run.slot /\ p.run.on = d.run.on
            /\ Missing(p.plan, p.run, p.got) = Missing(d.plan, d.run, d.got) \/ p.plan.slots # d.plan.slots
         \/ p.run = Idle /\ Missing(d.plan, d.run, d.got) = 0
  BY <1>2, PrunedKeeps
<1> DEFINE SlotLeft(k) == /\ h.run.on /\ h.run.slot \in h.plan.slots /\ k.run.slot # h.run.slot
                        /\ psNow >= h.run.slot + 2 /\ k.plan.slots = h.plan.slots
           Fine(k) == PsSound(k) /\ Dated(k) /\ (SlotLeft(k) => Carried(h, k))
<1> HIDE DEF p
<1>4. \A k : SlotLeft(k) /\ (Same(p, k) \/ Carried(p, k)) => d = h
  <2> TAKE k
  <2> HAVE SlotLeft(k) /\ (Same(p, k) \/ Carried(p, k))
  <2>1. k.plan.slots \subseteq d.plan.slots /\ k.plan.slots # {}
    BY <1>3 DEF Same, Carried
  <2> QED BY <1>2, <2>1, NoPlanSound
<1>5. ASSUME NEW k, PsSound(k), Same(p, k), SlotLeft(k), p.run = Idle \/ k.run.slot = p.run.slot PROVE Carried(h, k)
  <2>1. d = h
    BY <1>4, <1>5
  <2>2. Missing(h.plan, h.run, h.got) = 0
    BY <1>3, <1>5, <2>1, IdleFields
  <2>3. Same(h, k)
    BY <1>3, <1>5, <2>1, SameChains
  <2> QED BY <2>2, <2>3, NothingMissing
<1>6. Fine(off) /\ Fine(p)
  <2> DEFINE r == [p.run EXCEPT !.grid = FALSE, !.on = FALSE]
  <2>1. RunFields(p.run)
    BY <1>3 DEF PsSound
  <2>2. \A a, b : [p.run EXCEPT !.grid = a, !.on = b]
         = [grid |-> a, on |-> b, slot |-> p.run.slot, purpose |-> p.run.purpose, rt |-> p.run.rt, asked |-> p.run.asked]
    BY <2>1, FlagsPut
  <2>3. r = [grid |-> FALSE, on |-> FALSE, slot |-> p.run.slot, purpose |-> p.run.purpose, rt |-> p.run.rt, asked |-> p.run.asked]
    BY <2>2
  <2> HIDE DEF r
  <2>4. RunFields(r) /\ ~r.on /\ r.slot = p.run.slot
    BY <2>3 DEF RunFields
  <2> DEFINE k == [p EXCEPT !.run = r]
  <2>5. PsSound(k) /\ Same(p, k) /\ k.run = r /\ k.done = p.done
    BY <1>3, <2>4, RunKeeps
  <2> HIDE DEF k, SlotLeft
  <2>6. Same(d, k) /\ Dated(k) /\ Dated(p) /\ Same(p, p)
    BY <1>2, <1>3, <2>5, SameChains, SameItself, DatedStays
  <2>7. Fine(k) /\ Fine(p)
    BY <1>3, <1>5, <2>4, <2>5, <2>6
  <2> QED BY <2>7 DEF k, r
<1>7. Fine(last)
  <2>1. /\ PsSound(last)
        /\ Same(p, last) \/ Carried(p, last)
        /\ ~p.run.on => Same(p, last)
        /\ p.run.on /\ p.run.slot # PsNone /\ p.run.slot # s => Carried(p, last)
    <3> HIDE DEF s
    <3> QED BY <1>3, RestKeeps
  <2> HIDE DEF last, m, e
  <2>2. Dated(last)
    BY <1>2, <1>3, <2>1, DatedStays
  <2>3. ASSUME SlotLeft(last) PROVE Carried(h, last)
    <3>1. d = h
      BY <1>4, <2>1, <2>3
    <3>2. CASE p.run = Idle
      <4>1. Same(p, last)
        BY <2>1, <3>2, IdleFields
      <4> QED BY <1>5, <2>1, <2>3, <3>2, <4>1
    <3>3. CASE /\ p.run.slot = h.run.slot /\ p.run.on = h.run.on
               /\ Missing(p.plan, p.run, p.got) = Missing(h.plan, h.run, h.got) \/ p.plan.slots # h.plan.slots
      <4>1. p.run.slot \in Nat /\ psNow >= p.run.slot + 2 /\ p.run.on
        BY <2>3, <3>3 DEF PsSound, PlanSound, PsSlots
      <4>2. p.run.slot # PsNone /\ p.run.slot \notin now
        BY <4>1 DEF PsNone, Current, InSlot
      <4>3. now = {} \/ s \in now
        <5>1. now \subseteq Nat
          BY <1>3 DEF PsSound, PlanSound, PsSlots, Current
        <5> HIDE DEF now
        <5>2. CASE now # {}
          <6>1. PICK l \in now : \A k \in now : l <= k
            BY <5>1, <5>2, LowestOf
          <6>2. Min(now) \in now
            BY <6>1 DEF Min
          <6> QED BY <5>2, <6>2
        <5> QED BY <5>2
      <4>4. p.run.slot # s
        BY <4>2, <4>3
      <4> HIDE DEF s
      <4>5. Carried(p, last)
        BY <2>1, <4>1, <4>2, <4>4
      <4> QED BY <1>3, <3>1, <3>3, <4>5, SameThenCarried
    <3> QED BY <1>3, <3>1, <3>2, <3>3
  <2> QED BY <2>1, <2>2, <2>3
<1> HIDE DEF off, last, SlotLeft
<1>8. \E k : Becomes(k) /\ Fine(k)
  BY <1>1, <1>6, <1>7
<1> QED BY <1>8 DEF SlotLeft

(* What always holds of the slots: a slot whose target was reached is not the one charged, and a *)
(* schedule is for the day of its last slot.                                                     *)
PsInv ==
    /\ PlanSound(psPlan) /\ RunFields(psRun)
    /\ psDate \in Int /\ (psDate # PsNone => \A s \in psPlan.slots : Day(s) <= psDate)
    /\ psFilled \subseteq psDone
    /\ psRun.on => psRun.slot \notin psDone
    /\ psShort \in Nat /\ psGot \in Nat
    /\ psMode \in PsModes /\ psNow \in Nat /\ psPlans \in Nat

LEMMA InvHere == PsInv => PsSound(Here) /\ Dated(Here)
<1> SUFFICES ASSUME PsInv PROVE PsSound(Here) /\ Dated(Here)
  OBVIOUS
<1> DEFINE h == Here
<1>1. h = [plan |-> psPlan, date |-> psDate, run |-> psRun, done |-> psDone, pre |-> psPre,
           spent |-> psSpent, got |-> psGot, short |-> psShort, filled |-> psFilled]
  BY DEF Here
<1> HIDE DEF h
<1>2. AllFields(h) /\ h.plan = psPlan /\ h.date = psDate /\ h.run = psRun /\ h.done = psDone /\ h.got = psGot
      /\ h.short = psShort /\ h.filled = psFilled
  BY <1>1 DEF AllFields
<1> QED BY <1>2 DEF h, PsSound, Dated, PsInv

LEMMA BecomesInv ==
    ASSUME PsInv, NEW k, PsSound(k), Dated(k), Becomes(k), UNCHANGED <<psMode, psNow, psPlans>>
    PROVE  PsInv'
BY DEF PsInv, PsSound, Dated, Becomes

LEMMA LastSlot ==
    ASSUME NEW S, S \subseteq PsSlots, S # {}
    PROVE  Max(S) \in S /\ Day(Max(S)) \in Int /\ \A s \in S : Day(s) <= Day(Max(S))
<1>1. S \subseteq 0 .. PsEnd /\ PsEnd \in Nat
  BY PsAssumption DEF PsSlots
<1> DEFINE T == {PsEnd - s : s \in S}
<1>2. T \subseteq Nat /\ T # {}
  <2>1. \A s \in S : s \in 0 .. PsEnd
    BY <1>1
  <2>2. \A s \in S : PsEnd - s \in Nat
    BY <1>1, <2>1
  <2> QED BY <2>2
<1>3. PICK l \in T : \A k \in T : l <= k
  <2> HIDE DEF T
  <2> QED BY <1>2, LowestOf
<1>4. PICK m \in S : l = PsEnd - m
  OBVIOUS
<1>5. \A k \in S : m >= k
  <2> TAKE k \in S
  <2>1. PsEnd - k \in T
    OBVIOUS
  <2>2. l <= PsEnd - k
    <3> HIDE DEF T
    <3> QED BY <1>3, <2>1
  <2>3. k \in Int /\ m \in Int
    BY <1>1
  <2> QED BY <1>1, <1>4, <2>2, <2>3
<1>6. Max(S) \in S /\ \A k \in S : Max(S) >= k
  BY <1>5 DEF Max
<1> DEFINE n == Max(S)
<1> HIDE DEF n
<1>7. n \in Nat /\ \A k \in S : k \in Nat /\ k <= n
  <2>1. n \in S /\ \A k \in S : n >= k
    BY <1>6 DEF n
  <2> QED BY <1>1, <2>1
<1>8. Day(n) \in Int /\ \A k \in S : Day(k) <= Day(n)
  BY <1>7, DayGrows
<1> QED BY <1>6, <1>8 DEF n

(* A cycle that leaves a slot after its end, with the schedule's slots as they were. *)
SlotLeft ==
    /\ psRun.on /\ psRun.slot \in psPlan.slots /\ psRun'.slot # psRun.slot
    /\ psNow >= psRun.slot + 2 /\ psPlan'.slots = psPlan.slots /\ psPlans' = psPlans
Found ==
    Quotas(psPlan', psRun) + psShort' = Quotas(psPlan, psRun) + psShort + Missing(psPlan, psRun, psGot)

LEMMA StaysInv ==
    ASSUME PsInv, NEW k, SlotStays(Here, k), Becomes(k), UNCHANGED <<psMode, psNow, psPlans>>
    PROVE  PsInv' /\ psRun'.slot = psRun.slot
<1>1. PsSound(k) /\ Dated(k) /\ k.run.slot = psRun.slot
  <2>1. Here.run = psRun
    BY DEF Here
  <2> QED BY <2>1, InvHere, DatedStays DEF SlotStays
<1>2. psRun' = k.run
  BY DEF Becomes
<1> QED BY <1>1, <1>2, BecomesInv

LEMMA CycleFinds ==
    ASSUME PsInv, PsCycle
    PROVE  PsInv' /\ (SlotLeft => Found)
<1>1. PICK x \in PsSeen : CASE psMode = "dynamic" -> Dynamic(x)
             [] psMode = "realtime" -> Becomes(RealTime(Here, x))
             [] psMode = "time_slot" -> Becomes(TimeSlot(Here, x))
  BY DEF PsCycle
<1>2. UNCHANGED <<psMode, psNow, psPlans>> /\ psMode \in {"dynamic", "realtime", "time_slot"} /\ psNow \in Nat
  BY PsAssumption DEF PsCycle, PsInv
<1>3. PsSound(Here) /\ Dated(Here)
  BY InvHere
<1>4. CASE psMode = "realtime"
  <2>1. Becomes(RealTime(Here, x)) /\ SlotStays(Here, RealTime(Here, x))
    BY <1>1, <1>3, <1>4, RealTimeStays
  <2>2. PsInv' /\ psRun'.slot = psRun.slot
    BY <1>2, <2>1, StaysInv
  <2> QED BY <2>2 DEF SlotLeft
<1>5. CASE psMode = "time_slot"
  <2>1. Becomes(TimeSlot(Here, x)) /\ SlotStays(Here, TimeSlot(Here, x))
    BY <1>1, <1>3, <1>5, TimeSlotStays
  <2>2. PsInv' /\ psRun'.slot = psRun.slot
    BY <1>2, <2>1, StaysInv
  <2> QED BY <2>2 DEF SlotLeft
<1>6. CASE psMode = "dynamic"
  <2>1. Dynamic(x)
    BY <1>1, <1>6
  <2> DEFINE h == Here
  <2>2. /\ h.plan = psPlan /\ h.run = psRun /\ h.got = psGot /\ h.short = psShort /\ h = Here
    BY DEF Here
  <2> HIDE DEF h
  <2>3. PICK k : /\ Becomes(k) /\ PsSound(k) /\ Dated(k)
                 /\ (h.run.on /\ h.run.slot \in h.plan.slots /\ k.run.slot # h.run.slot
                        /\ psNow >= h.run.slot + 2 /\ k.plan.slots = h.plan.slots) => Carried(h, k)
    BY <1>2, <1>3, <2>1, <2>2, DynamicKeeps
  <2>4. PsInv'
    BY <1>2, <2>3, BecomesInv
  <2>5. k.plan = psPlan' /\ k.run = psRun' /\ k.short = psShort'
    BY <2>3 DEF Becomes
  <2>6. ASSUME SlotLeft PROVE Found
    <3>1. Carried(h, k)
      BY <2>2, <2>3, <2>5, <2>6 DEF SlotLeft
    <3>2. h.run.slot \in h.plan.slots /\ k.plan.slots = h.plan.slots
      BY <2>2, <2>5, <2>6 DEF SlotLeft
    <3>3. Quotas(k.plan, h.run) + k.short = Quotas(h.plan, h.run) + h.short + Missing(h.plan, h.run, h.got)
      BY <3>1, <3>2 DEF Carried
    <3> QED BY <2>2, <2>5, <3>3 DEF Found
  <2> QED BY <2>4, <2>6
<1> QED BY <1>2, <1>4, <1>5, <1>6

LEMMA EvaluateKeeps ==
    ASSUME PsInv, PsEvaluate
    PROVE  PsInv' /\ psPlans' # psPlans
<1>1. psPlans' = psPlans + 1 /\ psPlans \in Nat /\ psShort' = 0 /\ psFilled' = {} /\ psGot' = psGot /\ psMode' = psMode
      /\ psNow' = psNow
  BY DEF PsEvaluate, PsInv
<1>2. CASE psPlan' = NoPlan /\ psDate' = Day(psNow) /\ UNCHANGED <<psRun, psDone, psPre, psSpent>>
  <2>1. Day(psNow) \in Int
    BY DayGrows DEF PsInv
  <2> QED BY <1>1, <1>2, <2>1, NoPlanSound DEF PsInv
<1>3. ASSUME NEW S \in (SUBSET {s \in PsSlots : s + 1 >= psNow /\ s < psNow + PsDay}) \ {{}}, NEW q \in 0 .. PsQuota,
             NEW u \in PurposesOf(S),
             psPlan' = PlanOf(S, u, q), psDate' = Day(Max(S)), psDone' = {},
             psRun' = [psRun EXCEPT !.purpose = "none"]
      PROVE  PsInv'
  <2>1. S \subseteq PsSlots /\ S # {}
    OBVIOUS
  <2>2. Day(Max(S)) \in Int /\ \A s \in S : Day(s) <= Day(Max(S))
    BY <2>1, LastSlot
  <2>3. PlanSound(psPlan') /\ psPlan'.slots = S
    BY <1>3, <2>1 DEF PlanOf, PlanSound
  <2>4. RunFields(psRun')
    <3>1. RunFields(psRun)
      BY DEF PsInv
    <3> DEFINE r == [psRun EXCEPT !.purpose = "none"]
    <3>2. RunFields(r) /\ r.slot = psRun.slot /\ r.on = psRun.on /\ r.purpose = "none"
      BY <3>1, PurposeFields
    <3> QED BY <1>3, <3>2
  <2> QED BY <1>1, <1>3, <2>2, <2>3, <2>4 DEF PsInv
<1>4. PsInv'
  BY <1>2, <1>3 DEF PsEvaluate
<1> QED BY <1>1, <1>4

LEMMA EveningKeeps ==
    ASSUME PsInv, PsEvening
    PROVE  PsInv' /\ psPlans' # psPlans
<1>1. /\ psPlans' = psPlans + 1 /\ psPlans \in Nat
      /\ UNCHANGED <<psMode, psNow, psRun, psDone, psGot, psShort, psFilled>>
  BY DEF PsEvening, PsInv
<1> DEFINE kept == {s \in psPlan.slots : psPlan.deficit \/ psPlan.purpose[s] # "deficit"}
<1>2. PICK s \in {s \in PsSlots : s >= psNow /\ s < psNow + PsDay} \ kept :
         /\ psPlan' = [slots |-> kept \cup {s}, deficit |-> TRUE,
                       purpose |-> [t \in kept \cup {s} |-> IF t = s THEN "deficit" ELSE psPlan.purpose[t]],
                       quota |-> [t \in kept \cup {s} |-> IF t = s THEN 0 ELSE psPlan.quota[t]]]
         /\ psDate' = Day(Max(kept \cup {s}))
  BY DEF PsEvening
<1> DEFINE all == kept \cup {s}
           q == [t \in all |-> IF t = s THEN 0 ELSE psPlan.quota[t]]
           u == [t \in all |-> IF t = s THEN "deficit" ELSE psPlan.purpose[t]]
<1>3. all \subseteq PsSlots /\ all # {} /\ kept \subseteq psPlan.slots
  BY <1>2 DEF PsInv, PlanSound
<1>4. q \in [all -> 0 .. PsQuota]
  <2>1. \A t \in all : t # s => psPlan.quota[t] \in 0 .. PsQuota
    BY <1>3 DEF PsInv, PlanSound
  <2>2. 0 \in 0 .. PsQuota
    BY PsAssumption
  <2> HIDE DEF kept
  <2> QED BY <2>1, <2>2
<1>5. psPlan' = [slots |-> all, deficit |-> TRUE, purpose |-> u, quota |-> q] /\ psDate' = Day(Max(all))
  BY <1>2
<1> HIDE DEF all, q, u
<1>6. PlanSound(psPlan') /\ psPlan'.slots = all
  BY <1>3, <1>4, <1>5 DEF PlanSound
<1>7. Day(Max(all)) \in Int /\ \A t \in all : Day(t) <= Day(Max(all))
  BY <1>3, LastSlot
<1> QED BY <1>1, <1>5, <1>6, <1>7 DEF PsInv

LEMMA LookAheadKeeps ==
    ASSUME PsInv, PsLookAhead
    PROVE  PsInv' /\ psRun' = psRun
<1>1. UNCHANGED <<psMode, psNow, psDate, psRun, psDone, psGot, psShort, psPlans, psFilled>>
  BY DEF PsLookAhead
<1>2. psPlan' = Prune(psPlan) \/ psPlan' = psPlan
  BY DEF PsLookAhead
<1>3. PlanSound(Prune(psPlan)) /\ Prune(psPlan).slots \subseteq psPlan.slots
  BY PruneKeeps DEF PsInv
<1>4. PlanSound(psPlan') /\ psPlan'.slots \subseteq psPlan.slots
  BY <1>2, <1>3 DEF PsInv
<1> QED BY <1>1, <1>4 DEF PsInv

LEMMA PsSwitchKeeps ==
    ASSUME PsInv, PsSwitch
    PROVE  PsInv' /\ psPlans' # psPlans
<1>1. psPlans' = psPlans + 1 /\ psPlans \in Nat
      /\ UNCHANGED <<psMode, psNow, psDate, psDone, psGot, psShort, psFilled>>
  BY DEF PsSwitch, PsInv
<1>2. CASE psOverride
  <2>1. UNCHANGED <<psRun, psPlan>>
    BY <1>2 DEF PsSwitch
  <2> QED BY <1>1, <2>1 DEF PsInv
<1>3. CASE ~psOverride
  <2> DEFINE r == [Idle EXCEPT !.asked = psRun.asked]
  <2>1. psRun' = r /\ psPlan' = Prune(psPlan)
    BY <1>3 DEF PsSwitch
  <2>2. RunFields(r) /\ ~r.on
    <3>1. r = [grid |-> FALSE, on |-> FALSE, slot |-> PsNone, purpose |-> "none", rt |-> FALSE, asked |-> psRun.asked]
      <4> DEFINE f == FALSE
      <4>1. Idle = [grid |-> f, on |-> f, slot |-> PsNone, purpose |-> "none", rt |-> f, asked |-> f]
        BY DEF Idle
      <4> HIDE DEF f
      <4>2. \A v : [Idle EXCEPT !.asked = v]
                  = [grid |-> f, on |-> f, slot |-> PsNone, purpose |-> "none", rt |-> f, asked |-> v]
        BY <4>1
      <4> QED BY <4>2 DEF f
    <3> HIDE DEF r
    <3> QED BY <3>1 DEF RunFields
  <2>3. PlanSound(Prune(psPlan)) /\ Prune(psPlan).slots \subseteq psPlan.slots
    BY PruneKeeps DEF PsInv
  <2> HIDE DEF r
  <2> QED BY <1>1, <2>1, <2>2, <2>3 DEF PsInv
<1> QED BY <1>2, <1>3

LEMMA PsStart == ASSUME PsInit PROVE PsInv
<1>1. RunFields(Idle) /\ ~Idle.on
  BY IdleFields
<1> QED BY <1>1, NoPlanSound, PsAssumption DEF PsInit, PsInv, PsNone

LEMMA PsSteps ==
    ASSUME PsInv, [PsNext]_psVars
    PROVE  PsInv' /\ (SlotLeft => Found)
<1>1. CASE PsCycle
  BY <1>1, CycleFinds
<1>2. CASE PsEvaluate
  BY <1>2, EvaluateKeeps DEF SlotLeft
<1>3. CASE PsEvening
  BY <1>3, EveningKeeps DEF SlotLeft
<1>4. CASE PsLookAhead
  BY <1>4, LookAheadKeeps DEF SlotLeft
<1>5. CASE PsSwitch
  BY <1>5, PsSwitchKeeps DEF SlotLeft
<1>6. CASE PsTick
  BY <1>6 DEF PsTick, PsInv, SlotLeft
<1>7. CASE UNCHANGED psVars
  BY <1>7 DEF psVars, PsInv, SlotLeft
<1> QED BY <1>1, <1>2, <1>3, <1>4, <1>5, <1>6, <1>7 DEF PsNext

LEMMA SlotsInv == PsSpec => []PsInv
<1>1. PsInit => PsInv
  BY PsStart
<1>2. PsInv /\ [PsNext]_psVars => PsInv'
  BY PsSteps
<1> QED BY <1>1, <1>2, PTL DEF PsSpec

LEMMA CarryCorrect == PsSpec => CarryLosesNothing
<1>1. PsInv /\ [PsNext]_psVars =>
        [(psRun.on /\ psRun.slot \in psPlan.slots /\ psRun'.slot # psRun.slot
           /\ psNow >= psRun.slot + 2 /\ psPlan'.slots = psPlan.slots /\ psPlans' = psPlans)
          => Quotas(psPlan', psRun) + psShort' = Quotas(psPlan, psRun) + psShort + Missing(psPlan, psRun, psGot)]_psVars
  BY PsSteps DEF SlotLeft, Found
<1> QED BY <1>1, SlotsInv, PTL DEF PsSpec, CarryLosesNothing

(* `handle_dynamic_pricing_predictive_charging()`: a slot whose target was judged reached is never    *)
(* the one charged again before the next schedule or the next day, whatever looks ahead, overrides    *)
(* or hand-overs come between.                                                                        *)
THEOREM DoneCorrect == PsSpec => []DoneStaysDone
<1>1. PsInv => DoneStaysDone
  BY DEF PsInv, DoneStaysDone
<1> QED BY <1>1, SlotsInv, PTL

(* The whole run.                                                            *)
(* Waiting loses nothing, whichever part runs: what a slot did not get is in the later quotas or in  *)
(* the shortfall reported, and no charge is held for a cheaper hour unless the sun still to come     *)
(* reaches the target.                                                                               *)
THEOREM WaitingCorrect == Spec => WaitingLosesNothing
<1>1. Init => PsInit /\ CdInit
  BY DEF Init
<1>2. [Next]_vars => [PsNext]_psVars /\ [CdNext]_cdVars
  BY DEF Next, vars
<1>3. Spec => PsSpec /\ CdSpec
  BY <1>1, <1>2, PTL DEF Spec, PsSpec, CdSpec
<1> QED BY <1>3, CarryCorrect, HoldCorrect, PTL DEF WaitingLosesNothing
=============================================================================
