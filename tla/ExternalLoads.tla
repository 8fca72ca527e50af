---------------------------- MODULE ExternalLoads ----------------------------
(* Loads the battery must not feed: infra/external_loads.py and the blocks the *)
(* control cycle sets from it.  A device with dynamic power control is given   *)
(* room first (the battery's charge yields), is protected for a while after it *)
(* stopped (restart hold), and shares the sun with the others in the order of  *)
(* the list.  A charger without telemetry pauses the battery when it starts.   *)
(*                                                                             *)
(* One cycle of the controller is one unit of time.  A reading is {} while its *)
(* sensor is unknown and {n} otherwise; a power of 0 stands for anything below *)
(* the threshold of 100 W.  The timers hold what is left of them.              *)
EXTENDS Integers, FiniteSets

CONSTANTS
    XlDevices,      \* 1 .. n, in the order of the list
    XlWithActivity, \* devices that also have an activity sensor
    XlCover,        \* devices with cover_home_when_active
    XlPowers, XlSuns, XlHomes,  \* what the sensors may show
    XlStep,         \* DYNAMIC_CONTROL_SOLAR_STEP_W
    XlHold, XlYield, XlReyield, XlProbe,  \* the four periods, in cycles
    XlEvPause,      \* the five-minute pause, in cycles
    XlMaxUpsets     \* bound on the changes of the surroundings

ASSUME XlAssumption ==
    /\ IsFiniteSet(XlDevices) /\ XlDevices = 1 .. Cardinality(XlDevices)
    /\ XlWithActivity \subseteq XlDevices /\ XlCover \subseteq XlDevices
    /\ XlPowers \subseteq Nat /\ XlSuns \subseteq Nat /\ XlHomes \subseteq Nat
    /\ {XlStep, XlHold, XlYield, XlReyield, XlProbe, XlEvPause} \subseteq Nat \ {0}

VARIABLES
    xlSense,   \* what the sensors show: power, active, enabled, sun, home, ev
    xlLatch,   \* the dictionaries _dynamic_*, by device
    xlStatus,  \* dynamic_power_control_status: blocked and held devices
    xlEv,      \* _ev_charging_states, _ev_pause_until and the blocks set
    xlClaim,   \* the sun each device was credited with in the last cycle
    xlSeen,    \* history: lowest margin since the last yield, cycles since it drew, pause served
    xlUpsets

xlVars == <<xlSense, xlLatch, xlStatus, xlEv, xlClaim, xlSeen, xlUpsets>>

Opt(S) == {{}} \cup {{n} : n \in S}
The(o) == CHOOSE n \in o : TRUE
OrElse(o, n) == IF o = {} THEN n ELSE The(o)
Less(n) == IF n > 0 THEN n - 1 ELSE 0
AtLeastZero(n) == IF n > 0 THEN n ELSE 0

-----------------------------------------------------------------------------
(* The latches of one device.                                                *)

NoLatch == [hold |-> 0, yield |-> 0, probe |-> 0, sun |-> {}, power |-> {}, was |-> FALSE]

Ticked(e) == [e EXCEPT !.hold = Less(@), !.yield = Less(@), !.probe = Less(@)]

Drawing(p) == p # {} /\ The(p) > 0

Margin(s, p) == The(s) - The(p)

(* The margin the latch remembers; a missing part reads as the present one. *)
RefMargin(e, s, p) == OrElse(e.sun, The(s)) - OrElse(e.power, The(p))

Referenced(e, s, p) == [e EXCEPT !.sun = s, !.power = IF p = {} THEN @ ELSE p]

Begun(e, s, p) ==
    LET b == [e EXCEPT !.hold = XlHold, !.was = TRUE] IN
    IF e.was THEN b
    ELSE IF s = {} THEN [b EXCEPT !.yield = XlYield, !.probe = XlProbe]
    ELSE Referenced([b EXCEPT !.yield = XlYield, !.probe = XlProbe], s, p)

(* A fall of the margin moves the reference down, a yield in progress moves  *)
(* it along, a rise by the step starts another yield.                        *)
BySun(e, s, p) ==
    IF Margin(s, p) < RefMargin(e, s, p) \/ e.yield > 0 THEN Referenced(e, s, p)
    ELSE IF Margin(s, p) - RefMargin(e, s, p) >= XlStep
         THEN Referenced([e EXCEPT !.yield = XlReyield], s, p)
    ELSE e

(* Without a solar reading the device is probed at intervals. *)
ByTimer(e) ==
    IF e.probe = 0 /\ e.yield = 0
    THEN [e EXCEPT !.yield = XlReyield, !.probe = XlProbe]
    ELSE e

Draws(e, s, p) ==
    LET b == Begun(e, s, p) IN IF s = {} THEN ByTimer(b) ELSE BySun(b, s, p)

(* The margin's rise in the restart hold: an unreadable power leaves the sun. *)
HoldRise(e, s, p) ==
    IF p = {} THEN The(s) - OrElse(e.sun, The(s))
    ELSE Margin(s, p) - RefMargin(e, s, p)

InHold(e, s, p) ==
    LET stopped == [e EXCEPT !.was = FALSE, !.yield = IF e.was THEN XlYield ELSE @]
        b == IF e.was /\ s # {} THEN Referenced(stopped, s, p) ELSE stopped
    IN  IF s = {} THEN b
        ELSE IF HoldRise(b, s, p) < 0 THEN Referenced(b, s, p)
        ELSE IF HoldRise(b, s, p) >= XlStep
             THEN Referenced([b EXCEPT !.yield = IF @ > XlReyield THEN @ ELSE XlReyield], s, p)
        ELSE b

\* Mutant of Phase: an unreadable power sensor switches the device off.
PhaseUnread(d, e) ==
    LET p == xlSense.power[d] IN
    IF d \notin xlSense.enabled \/ p = {} THEN "off"
    ELSE IF Drawing(p) THEN "drawing"
    ELSE IF d \in XlWithActivity /\ xlSense.active[d] THEN "waiting"
    ELSE IF d \notin XlWithActivity /\ e.hold > 0 THEN "hold"
    ELSE "idle"

Phase(d, e) ==
    LET p == xlSense.power[d] IN
    IF d \notin xlSense.enabled THEN "off"
    ELSE IF Drawing(p) THEN "drawing"
    ELSE IF d \in XlWithActivity /\ xlSense.active[d] THEN "waiting"
    ELSE IF d \notin XlWithActivity /\ e.hold > 0 THEN "hold"
    ELSE "idle"

LatchedDevice(d, e) ==
    LET s == xlSense.sun  p == xlSense.power[d] IN
    CASE Phase(d, e) = "drawing" -> Draws(e, s, p)
      [] Phase(d, e) = "waiting" -> [e EXCEPT !.was = FALSE]
      [] Phase(d, e) = "hold"    -> InHold(e, s, p)
      [] Phase(d, e) \in {"off", "idle"} -> NoLatch

(* refresh_dynamic_power_control, and the two blocks the cycle sets from it. *)
RefreshDynamic ==
    LET e == [d \in XlDevices |-> Ticked(xlLatch[d])]
        phase == [d \in XlDevices |-> Phase(d, e[d])]
        latch == [d \in XlDevices |-> LatchedDevice(d, e[d])]
    IN  /\ xlLatch' = latch
        /\ xlStatus' =
             [blocked |-> {d \in XlDevices : \/ phase[d] = "waiting"
                                             \/ phase[d] \in {"drawing", "hold"} /\ latch[d].yield > 0},
              held    |-> {d \in XlDevices : /\ phase[d] \in {"drawing", "waiting", "hold"}
                                             /\ d \notin XlCover}]

-----------------------------------------------------------------------------
(* Sharing the sun.                                                          *)

Watts(o) == OrElse(o, 0)

(* The sums along the list: of its first i devices, and of all of it. *)
SumTo(f) ==
    LET sum[i \in 0 .. Cardinality(XlDevices)] == IF i = 0 THEN 0 ELSE sum[i - 1] + f[i]
    IN  sum
Total(f) == SumTo(f)[Cardinality(XlDevices)]

(* What the enabled devices of the list draw inside the house. *)
PowersOf(s) == [d \in XlDevices |-> IF d \in s.enabled THEN Watts(s.power[d]) ELSE 0]
IncludedPower == Total(PowersOf(xlSense))

(* The sun left after the house's own load; {} without a trustworthy reading. *)
Surplus ==
    IF xlSense.home = {} THEN {}
    ELSE {AtLeastZero(Watts(xlSense.sun) - AtLeastZero(The(xlSense.home) - IncludedPower))}

Taken(left, o) == IF o = {} THEN {} ELSE {AtLeastZero(The(o) - left)}

(* One device's turn: a device that covers the house may use all of the sun, *)
(* any other only the surplus, and both budgets shrink by what it uses.      *)
Shared(d, left) ==
    LET p == Watts(xlSense.power[d])
        avail == IF d \in XlCover THEN left.sun ELSE OrElse(left.surplus, 0)
        offset == IF d \notin xlSense.enabled THEN 0 ELSE IF p < avail THEN p ELSE avail
    IN  [sun |-> AtLeastZero(left.sun - offset), surplus |-> Taken(offset, left.surplus),
         claim |-> [left.claim EXCEPT ![d] = offset]]

(* calculate_adjustment: the devices take their turns in the list's order. *)
AllSun == [sun |-> Watts(xlSense.sun), surplus |-> Surplus, claim |-> [d \in XlDevices |-> 0]]
LeftAfter[i \in 0 .. Cardinality(XlDevices)] ==
    IF i = 0 THEN AllSun ELSE Shared(i, LeftAfter[i - 1])
Claims == LeftAfter[Cardinality(XlDevices)].claim

-----------------------------------------------------------------------------
(* The charger without telemetry.                                            *)

EvRead == IF xlSense.ev = "na" THEN xlEv.was ELSE xlSense.ev = "on"

(* check_ev_charger_state, and the blocks _refresh_ev_blocks sets from it: an *)
(* unreadable sensor leaves what is remembered and sets no block.             *)
EvCheck ==
    LET on == EvRead
        left == IF on /\ ~xlEv.was THEN XlEvPause
                ELSE IF on THEN Less(xlEv.left) ELSE 0
    IN  xlEv' = [was |-> on, left |-> left,
                 pause |-> xlSense.ev # "na" /\ left > 0,
                 charging |-> xlSense.ev = "on" /\ left = 0]

-----------------------------------------------------------------------------
(* History, kept by the model alone.                                         *)

Lowest(d) ==
    LET s == xlSense.sun  p == xlSense.power[d]  low == xlSeen.low[d] IN
    IF d \notin xlSense.enabled \/ ~Drawing(p) THEN {}
    ELSE IF s = {} THEN low
    ELSE IF d \in xlStatus'.blocked THEN {Margin(s, p)}
    ELSE IF low # {} /\ Margin(s, p) < The(low) THEN {Margin(s, p)}
    ELSE low

Since(d) ==
    IF d \notin xlSense.enabled THEN XlHold
    ELSE IF Drawing(xlSense.power[d]) THEN 0
    ELSE IF xlSeen.since[d] < XlHold THEN xlSeen.since[d] + 1 ELSE XlHold

Noted ==
    xlSeen' = [low |-> [d \in XlDevices |-> Lowest(d)],
               since |-> [d \in XlDevices |-> Since(d)],
               rise |-> [d \in XlDevices |->
                           /\ d \in xlSense.enabled /\ Drawing(xlSense.power[d])
                           /\ xlSense.sun # {} /\ xlSeen.low[d] # {}
                           /\ Margin(xlSense.sun, xlSense.power[d]) - The(xlSeen.low[d]) >= XlStep],
               served |-> IF xlSense.ev = "off" THEN 0
                          ELSE IF xlEv'.pause /\ xlSeen.served <= XlEvPause
                               THEN xlSeen.served + 1 ELSE xlSeen.served,
               at |-> xlSense]

-----------------------------------------------------------------------------
XlInit ==
    /\ \E p \in [XlDevices -> {{n} : n \in XlPowers}], s \in Opt(XlSuns), h \in XlHomes, v \in {"on", "off"} :
          xlSense = [power |-> p, active |-> [d \in XlDevices |-> FALSE],
                     enabled |-> XlDevices, sun |-> s, home |-> {h}, ev |-> v]
    /\ xlLatch = [d \in XlDevices |-> NoLatch]
    /\ xlStatus = [blocked |-> {}, held |-> {}]
    /\ xlEv = [was |-> FALSE, left |-> 0, pause |-> FALSE, charging |-> FALSE]
    /\ xlClaim = [d \in XlDevices |-> 0]
    /\ xlSeen = [low |-> [d \in XlDevices |-> {}], since |-> [d \in XlDevices |-> XlHold],
                 rise |-> [d \in XlDevices |-> FALSE], served |-> 0,
                 at |-> [xlSense EXCEPT !.power = [d \in XlDevices |-> {}]]]
    /\ xlUpsets = 0

(* One control cycle, a unit of time after the last. *)
XlCycle ==
    /\ EvCheck
    /\ RefreshDynamic
    /\ xlClaim' = Claims
    /\ Noted
    /\ UNCHANGED <<xlSense, xlUpsets>>

Moves(sense) ==
    /\ xlUpsets < XlMaxUpsets
    /\ xlUpsets' = xlUpsets + 1
    /\ xlSense' = sense
    /\ UNCHANGED <<xlLatch, xlStatus, xlEv, xlClaim, xlSeen>>

PowerMoves(d) == \E p \in Opt(XlPowers) : p # xlSense.power[d] /\ Moves([xlSense EXCEPT !.power[d] = p])
SunMoves == \E s \in Opt(XlSuns) : s # xlSense.sun /\ Moves([xlSense EXCEPT !.sun = s])
HomeMoves == \E h \in Opt(XlHomes) : h # xlSense.home /\ Moves([xlSense EXCEPT !.home = h])
ActivityMoves(d) == d \in XlWithActivity /\ Moves([xlSense EXCEPT !.active[d] = ~@])
EvMoves == \E s \in {"on", "off", "na"} : s # xlSense.ev /\ Moves([xlSense EXCEPT !.ev = s])

(* The user switches a device of the list off or on. *)
DeviceSwitched(d) ==
    Moves([xlSense EXCEPT !.enabled = IF d \in @ THEN @ \ {d} ELSE @ \cup {d}])

XlNext ==
    \/ XlCycle
    \/ SunMoves \/ HomeMoves \/ EvMoves
    \/ \E d \in XlDevices : PowerMoves(d) \/ ActivityMoves(d) \/ DeviceSwitched(d)

(* The controller's timer goes on: a cycle that moves a latch or the status is *)
(* not put off for ever.  Only cycles change them, so this is their fairness.  *)
XlFairness == WF_<<xlLatch, xlStatus>>(RefreshDynamic)
XlSpec == XlInit /\ [][XlNext]_xlVars /\ XlFairness

-----------------------------------------------------------------------------
XlTypeOK ==
    /\ xlLatch \in [XlDevices -> [hold : 0 .. XlHold, yield : Nat, probe : 0 .. XlProbe,
                                  sun : Opt(XlSuns), power : Opt(XlPowers), was : BOOLEAN]]
    /\ xlStatus \in [blocked : SUBSET XlDevices, held : SUBSET XlDevices]
    /\ xlEv \in [was : BOOLEAN, left : 0 .. XlEvPause, pause : BOOLEAN, charging : BOOLEAN]
    /\ xlClaim \in [XlDevices -> Nat]

(* A rise of the margin by the step above the lowest one since the device was *)
(* last given room gives it room again, whatever the readings did in between  *)
(* (external_loads.py:218-239).                                               *)
RiseYields == \A d \in XlDevices : xlSeen.rise[d] => d \in xlStatus.blocked

(* A device that does not cover the house keeps the battery from discharging  *)
(* exactly while it draws, announces itself or stopped less than a hold ago,  *)
(* an unreadable power sensor included (external_loads.py:282-299).           *)
HoldProtects ==
    LET s == xlSeen.at IN
    \A d \in XlDevices \ XlCover :
        d \in xlStatus.held <=>
            /\ d \in s.enabled
            /\ \/ Drawing(s.power[d])
               \/ d \in XlWithActivity /\ s.active[d]
               \/ d \notin XlWithActivity /\ xlSeen.since[d] < XlHold

(* The devices are never credited with more sun than there is, and those that *)
(* leave the house its own never with more than the surplus, in whatever      *)
(* order they stand in the list (external_loads.py:531-541).                  *)
SunSharedOnce ==
    LET s == xlSeen.at
        sun == Watts(s.sun)
        base == IF s.home = {} THEN sun ELSE AtLeastZero(The(s.home) - Total(PowersOf(s)))
        own == [d \in XlDevices |-> IF d \in XlCover THEN 0 ELSE xlClaim[d]]
    IN  Total(xlClaim) <= sun /\ Total(own) <= AtLeastZero(sun - base)

(* A charger's session pauses the battery once: a sensor that drops out and   *)
(* comes back does not start the pause again (external_loads.py:806-829).     *)
PausedOnce == xlSeen.served <= XlEvPause

(* The battery's charge is given back: a device blocks it for ever only while *)
(* its activity sensor announces a load that does not come.                   *)
ChargeReturns ==
    \A d \in XlDevices :
        []<>(d \notin xlStatus.blocked \/ (xlSense.active[d] /\ ~Drawing(xlSense.power[d])))

(* The devices and the battery share the sun as promised: room after a rise,  *)
(* no discharge into a device, the sun given once, one pause for a session.   *)
SunShared ==
    /\ XlTypeOK
    /\ RiseYields
    /\ HoldProtects
    /\ SunSharedOnce
    /\ PausedOnce
=============================================================================
