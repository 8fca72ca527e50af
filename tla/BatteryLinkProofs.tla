------------------------- MODULE BatteryLinkProofs --------------------------
(* Type correctness and the user's RS485 choice, for every ladder and any   *)
(* number of overlapping refreshes; then the way from the meter to the      *)
(* registers: the regulator, the drivers' writes, the Huawei gate and the   *)
(* suite of the three (MCDevices).                                          *)
EXTENDS BatteryLink, MCDevices, TLAPS

\* Whoever is committed to turning RS485 control on is ahead of a turn-off
\* that the user asked for since.
OffIsBehind ==
    \A a \in Agents :
        (at[a] \in {"assert", "enable"} /\ userOff) =>
            at["off"] = "release" /\ a \in ahead["off"]

\* The turn-off call only queues and writes.
OffPlaces == at["off"] \in {"idle", "release"}

IInv == TypeOK /\ OffIsBehind /\ OffPlaces

Turning == {"assert", "enable"}

-----------------------------------------------------------------------------
LEMMA Callees == {"command", "wake", "on", "off", "unload"} \subseteq Agents
BY DEF Agents, AllCallers

\* Moving on to a step that does not turn RS485 control on.
LEMMA GoSound ==
    ASSUME TypeOK, OffIsBehind, OffPlaces, NEW a \in Agents,
           NEW step \in Places \ Turning, Go(a, step),
           a = "off" => step = "idle" /\ ahead["off"] = {}, userOff' = userOff
    PROVE  /\ at' \in [Agents -> Places] /\ ahead' \in [Agents -> SUBSET Agents]
           /\ OffIsBehind' /\ OffPlaces'
<1>1. at' \in [Agents -> Places] /\ ahead' \in [Agents -> SUBSET Agents]
    BY DEF Go, TypeOK, InLine
<1>2. OffPlaces'
    BY Callees DEF Go, OffPlaces, TypeOK
<1>3. OffIsBehind'
    <2>. SUFFICES ASSUME NEW b \in Agents, at'[b] \in Turning, userOff'
         PROVE  at'["off"] = "release" /\ b \in ahead'["off"]
        BY DEF OffIsBehind, Turning
    <2>1. b # a /\ at[b] \in Turning
        BY DEF Go, TypeOK, Turning
    <2>2. at["off"] = "release" /\ b \in ahead["off"]
        BY <2>1 DEF OffIsBehind, Turning
    <2>3. a # "off"
        BY <2>2
    <2>. QED BY <2>1, <2>2, <2>3, Callees DEF Go, TypeOK
<1>. QED BY <1>1, <1>2, <1>3

\* Keeping the lock for a step that does not turn RS485 control on.
LEMMA StaySound ==
    ASSUME TypeOK, OffIsBehind, OffPlaces, NEW a \in Agents,
           NEW step \in Places \ Turning, Stay(a, step), a # "off",
           userOff' = userOff
    PROVE  /\ at' \in [Agents -> Places] /\ ahead' \in [Agents -> SUBSET Agents]
           /\ OffIsBehind' /\ OffPlaces'
BY Callees DEF Stay, TypeOK, OffIsBehind, OffPlaces, Turning

\* Committing to turn RS485 control on, which nobody does once the user
\* turned it off.
LEMMA TurningSound ==
    ASSUME TypeOK, OffPlaces, NEW a \in Agents, a # "off", ~userOff',
           NEW step \in Turning, Go(a, step) \/ Stay(a, step)
    PROVE  /\ at' \in [Agents -> Places] /\ ahead' \in [Agents -> SUBSET Agents]
           /\ OffIsBehind' /\ OffPlaces'
<1>1. at' \in [Agents -> Places] /\ ahead' \in [Agents -> SUBSET Agents]
    BY DEF Go, Stay, TypeOK, InLine, Turning, Places, Locked
<1>2. OffPlaces'
    BY Callees DEF Go, Stay, OffPlaces, TypeOK
<1>. QED BY <1>1, <1>2 DEF OffIsBehind

LEMMA InitIInv == Init => IInv
<1>. SUFFICES ASSUME Init PROVE IInv
    OBVIOUS
<1>1. /\ at \in [Agents -> Places] /\ why \in [Agents -> Reasons]
      /\ ahead \in [Agents -> SUBSET Agents]
    BY DEF Init, Places, Reasons
<1>2. failures \in 0 .. SuspendAt /\ critical \in 0 .. CriticalAt
    BY LadderAssumption DEF Init
<1>3. /\ connected \in BOOLEAN /\ due \in BOOLEAN /\ userOff \in BOOLEAN
      /\ shutting \in BOOLEAN /\ alive \in BOOLEAN /\ rs485 \in BOOLEAN
    BY AgentAssumption DEF Init
<1>4. TypeOK
    BY <1>1, <1>2, <1>3 DEF Init, TypeOK
<1>5. OffIsBehind /\ OffPlaces
    BY Callees DEF Init, OffIsBehind, OffPlaces
<1>. QED BY <1>4, <1>5 DEF IInv

-----------------------------------------------------------------------------
\* The counters stay within their thresholds.
LEMMA Counts ==
    ASSUME TypeOK
    PROVE  /\ Counted \in 0 .. SuspendAt
           /\ \A crit \in {"answered", "failed", "skipped"} :
                 Streak(crit) \in 0 .. CriticalAt
BY LadderAssumption DEF TypeOK, Counted, Streak

\* The end of a poll is a move to "connect" or "idle".
LEMMA EndPollSound ==
    ASSUME IInv, NEW p \in Pollers, EndPoll(p), userOff' = userOff
    PROVE  /\ at' \in [Agents -> Places] /\ ahead' \in [Agents -> SUBSET Agents]
           /\ OffIsBehind' /\ OffPlaces' /\ why' \in [Agents -> Reasons]
<1>1. p \in Agents /\ p # "off"
    BY AgentAssumption DEF Agents, AllCallers
<1>2. "connect" \in Places \ Turning /\ "idle" \in Places \ Turning
    BY DEF Places, Locked, Turning
<1>3. why' \in [Agents -> Reasons]
    BY DEF EndPoll, IInv, TypeOK, Reasons
<1>4. Go(p, "connect") \/ Go(p, "idle")
    BY DEF EndPoll
<1>. QED BY <1>1, <1>2, <1>3, <1>4, GoSound DEF IInv

LEMMA PollSound ==
    ASSUME IInv, NEW p \in Pollers, Poll(p)
    PROVE  IInv'
<1>0. /\ p \in Agents /\ p # "off"
      /\ "connect" \in Places \ Turning /\ "read" \in Places \ Turning
    BY AgentAssumption DEF Agents, AllCallers, Places, Locked, Turning
<1>1. CASE PollStart(p)
    <2>1. Go(p, "connect") \/ Go(p, "read")
        BY <1>1 DEF PollStart
    <2>2. /\ at' \in [Agents -> Places] /\ ahead' \in [Agents -> SUBSET Agents]
          /\ OffIsBehind' /\ OffPlaces'
        BY <1>0, <1>1, <2>1, GoSound DEF IInv, PollStart, flags
    <2>3. why' \in [Agents -> Reasons]
        BY <1>1 DEF PollStart, IInv, TypeOK, Reasons
    <2>. QED BY <1>1, <2>2, <2>3 DEF PollStart, IInv, TypeOK, flags, device
<1>2. CASE PollNothingDue(p)
    BY <1>2, EndPollSound DEF PollNothingDue, IInv, TypeOK, flags, device
<1>3. CASE PollSucceeds(p)
    <2>1. /\ at' \in [Agents -> Places] /\ ahead' \in [Agents -> SUBSET Agents]
          /\ OffIsBehind' /\ OffPlaces' /\ why' \in [Agents -> Reasons]
        BY <1>3, EndPollSound DEF PollSucceeds, flags
    <2>2. critical' \in 0 .. CriticalAt /\ failures' \in 0 .. SuspendAt
        BY <1>3, Counts, LadderAssumption DEF PollSucceeds, IInv
    <2>. QED BY <1>3, <2>1, <2>2 DEF PollSucceeds, IInv, TypeOK, flags, device
<1>4. CASE PollFails(p)
    <2>1. /\ at' \in [Agents -> Places] /\ ahead' \in [Agents -> SUBSET Agents]
          /\ OffIsBehind' /\ OffPlaces' /\ why' \in [Agents -> Reasons]
        <3>1. CASE failures' >= ReconnectAt
            <4>1. Go(p, "connect") /\ userOff' = userOff
                BY <1>4, <3>1 DEF PollFails, flags
            <4>2. why' \in [Agents -> Reasons]
                BY <1>4, <3>1 DEF PollFails, IInv, TypeOK, Reasons
            <4>. QED BY <1>0, <4>1, <4>2, GoSound DEF IInv
        <3>2. CASE ~(failures' >= ReconnectAt)
            BY <1>4, <3>2, EndPollSound DEF PollFails, flags
        <3>. QED BY <3>1, <3>2
    <2>2. critical' \in 0 .. CriticalAt /\ failures' \in 0 .. SuspendAt
        BY <1>4, Counts DEF PollFails, IInv
    <2>. QED BY <1>4, <2>1, <2>2 DEF PollFails, IInv, TypeOK, flags, device
<1>. QED BY <1>1, <1>2, <1>3, <1>4 DEF Poll

\* Whoever reconnects, probes or writes for a wake is not the turn-off call.
LEMMA NotOff ==
    ASSUME IInv, NEW a \in Agents, at[a] \notin {"idle", "release"}
    PROVE  a # "off"
BY DEF IInv, OffPlaces

LEMMA ServeSound ==
    ASSUME IInv, NEW a \in Agents, Serve(a)
    PROVE  IInv'
<1>. DEFINE Moved ==
        /\ at' \in [Agents -> Places] /\ ahead' \in [Agents -> SUBSET Agents]
        /\ OffIsBehind' /\ OffPlaces'
<1>0. {"read", "connect", "probe", "verify", "release", "write", "idle",
       "closing"} \subseteq Places \ Turning
    BY DEF Places, Locked, Turning
<1>1. CASE Connects(a)
    <2>1. a # "off"
        BY <1>1, NotOff DEF Connects
    <2>2. Moved
        BY <1>0, <1>1, <2>1, StaySound DEF Connects, IInv, flags
    <2>. QED BY <1>1, <2>2 DEF Connects, IInv, TypeOK, health, flags
<1>2. CASE ProbeAnswered(a)
    <2>1. a # "off" /\ Resumes(a) \in Places \ Turning
        BY <1>0, <1>2, NotOff DEF ProbeAnswered, Resumes
    <2>2. Moved
        <3>1. CASE Reenables
            <4>1. Stay(a, "enable") /\ ~userOff'
                BY <1>2, <3>1 DEF ProbeAnswered, Reenables, KeepsLock, flags
            <4>. QED BY <2>1, <4>1, TurningSound DEF IInv, Turning
        <3>2. CASE ~Reenables
            <4>1. Go(a, Resumes(a)) /\ userOff' = userOff
                BY <1>2, <3>2 DEF ProbeAnswered, flags
            <4>. HIDE DEF Resumes
            <4>. QED BY <2>1, <4>1, GoSound DEF IInv
        <3>. QED BY <3>1, <3>2
    <2>3. failures' \in 0 .. SuspendAt /\ critical' \in 0 .. CriticalAt
        BY <1>2, LadderAssumption DEF ProbeAnswered
    <2>4. flags' = flags /\ device' = device
        BY <1>2 DEF ProbeAnswered
    <2>5. why' \in [Agents -> Reasons]
        BY <1>2 DEF ProbeAnswered, IInv, TypeOK, Reasons
    <2>6. connected' \in BOOLEAN /\ due' \in BOOLEAN /\ suspended' = "none"
        BY <1>2 DEF ProbeAnswered
    <2>. QED BY <2>2, <2>3, <2>4, <2>5, <2>6 DEF IInv, TypeOK, flags, device
<1>3. CASE EnableControl(a)
    <2>1. a # "off" /\ Resumes(a) \in Places \ Turning
        BY <1>0, <1>3, NotOff DEF EnableControl, Resumes
    <2>2. Moved
        BY <1>3, <2>1, GoSound DEF EnableControl, IInv, flags
    <2>3. rs485' \in BOOLEAN /\ suspended' \in {"none", "waiting", "expired"}
        BY <1>3 DEF EnableControl, IInv, TypeOK
    <2>4. why' \in [Agents -> Reasons]
        BY <1>3 DEF EnableControl, IInv, TypeOK, Reasons
    <2>. QED BY <1>3, <2>2, <2>3, <2>4 DEF EnableControl, IInv, TypeOK, flags
<1>4. CASE ProbeUnanswered(a)
    <2>1. a # "off" /\ Abandons(a) \in Places \ Turning
        BY <1>0, <1>4, NotOff DEF ProbeUnanswered, Abandons
    <2>2. Moved
        BY <1>4, <2>1, GoSound DEF ProbeUnanswered, IInv, flags
    <2>3. /\ failures' \in 0 .. SuspendAt
          /\ suspended' \in {"none", "waiting", "expired"}
        BY <1>4, Counts DEF ProbeUnanswered, IInv, TypeOK
    <2>4. why' \in [Agents -> Reasons]
        BY <1>4 DEF ProbeUnanswered, IInv, TypeOK, Reasons
    <2>. QED BY <1>4, <2>2, <2>3, <2>4 DEF ProbeUnanswered, IInv, TypeOK, flags, device
<1>5. CASE Write(a)
    <2>1. a # "off"
        BY <1>5, NotOff DEF Write
    <2>2. Moved
        BY <1>0, <1>5, <2>1, GoSound DEF Write, IInv, flags
    <2>3. failures' \in 0 .. SuspendAt
        BY <1>5, LadderAssumption DEF Write, IInv, TypeOK
    <2>4. connected' \in BOOLEAN
        BY <1>5, Zenon DEF Write, IInv, TypeOK
    <2>. QED BY <1>5, <2>2, <2>3, <2>4 DEF Write, IInv, TypeOK, flags, device
<1>6. CASE AssertControl(a)
    <2>1. a # "off"
        BY <1>6, NotOff DEF AssertControl
    <2>2. Go(a, "verify") \/ Go(a, "idle")
        BY <1>6 DEF AssertControl
    <2>3. Moved
        BY <1>0, <1>6, <2>1, <2>2, GoSound DEF AssertControl, IInv, flags
    <2>4. failures' \in 0 .. SuspendAt
        <3>1. failures' = 0 \/ failures' = failures
            BY <1>6, Zenon DEF AssertControl
        <3>. QED BY <3>1, LadderAssumption DEF IInv, TypeOK
    <2>5. connected' \in BOOLEAN
        BY <1>6, Zenon DEF AssertControl, IInv, TypeOK
    <2>6. rs485' \in {TRUE, rs485}
        BY <1>6 DEF AssertControl
    <2>7. rs485' \in BOOLEAN
        BY <2>6 DEF IInv, TypeOK
    <2>. QED BY <1>6, <2>3, <2>4, <2>5, <2>7 DEF AssertControl, IInv, TypeOK, flags
<1>7. CASE Verify(a)
    <2>1. a # "off"
        BY <1>7, NotOff DEF Verify
    <2>2. Go(a, "connect") \/ Go(a, "write")
        BY <1>7 DEF Verify
    <2>3. Moved
        BY <1>0, <1>7, <2>1, <2>2, GoSound DEF Verify, IInv, flags
    <2>. QED BY <1>7, <2>3 DEF Verify, IInv, TypeOK, health, flags, device
<1>8. CASE ReleaseControl(a)
    <2>1. (Go(a, "closing") /\ a # "off") \/ Go(a, "idle")
        BY <1>8 DEF ReleaseControl
    <2>2. a = "off" => ahead["off"] = {}
        BY <1>8 DEF ReleaseControl, Holds
    <2>3. Moved
        BY <1>0, <1>8, <2>1, <2>2, GoSound DEF ReleaseControl, IInv, flags
    <2>4. failures' \in 0 .. SuspendAt
        BY <1>8, LadderAssumption DEF ReleaseControl, IInv, TypeOK
    <2>5. connected' \in BOOLEAN /\ rs485' \in BOOLEAN
        BY <1>8, Zenon DEF ReleaseControl, IInv, TypeOK
    <2>. QED BY <1>8, <2>3, <2>4, <2>5 DEF ReleaseControl, IInv, TypeOK, flags
<1>9. CASE Standby(a)
    <2>1. a # "off"
        BY <1>9, NotOff DEF Standby
    <2>2. Go(a, "release") \/ Go(a, "closing")
        BY <1>9 DEF Standby
    <2>3. Moved
        BY <1>0, <1>9, <2>1, <2>2, GoSound DEF Standby, IInv, flags
    <2>. QED BY <1>9, <2>3 DEF Standby, IInv, TypeOK, health, flags, device
<1>. QED BY <1>1, <1>2, <1>3, <1>4, <1>5, <1>6, <1>7, <1>8, <1>9 DEF Serve

-----------------------------------------------------------------------------
\* The steps that start a call.
LEMMA CallSound ==
    ASSUME IInv, Call
    PROVE  IInv'
<1>. DEFINE Moved ==
        /\ at' \in [Agents -> Places] /\ ahead' \in [Agents -> SUBSET Agents]
        /\ OffIsBehind' /\ OffPlaces'
<1>0. /\ {"connect", "write", "release"} \subseteq Places \ Turning
      /\ "assert" \in Turning
    BY DEF Places, Locked, Turning
<1>1. CASE Command
    <2>1. Moved
        BY <1>0, <1>1, Callees, GoSound DEF Command, IInv, flags
    <2>. QED BY <1>1, <2>1 DEF Command, IInv, TypeOK, health, flags, device
<1>2. CASE Wake
    <2>1. ~userOff' /\ userOff' = userOff
        BY <1>2 DEF Wake, flags
    <2>2. Moved
        <3>1. CASE Go("wake", "assert")
            BY <1>0, <2>1, <3>1, Callees, TurningSound DEF IInv
        <3>2. CASE Go("wake", "connect")
            BY <1>0, <2>1, <3>2, Callees, GoSound DEF IInv
        <3>. QED BY <1>2, <3>1, <3>2 DEF Wake
    <2>3. why' \in [Agents -> Reasons]
        BY <1>2 DEF Wake, IInv, TypeOK, Reasons
    <2>. QED BY <1>2, <2>2, <2>3 DEF Wake, IInv, TypeOK, health, flags, device
<1>3. CASE TurnOn
    <2>1. PICK step \in {"assert", "connect"} : Go("on", step)
        BY <1>3 DEF TurnOn
    <2>2. at' \in [Agents -> Places] /\ ahead' \in [Agents -> SUBSET Agents]
        BY <2>1 DEF Go, IInv, TypeOK, InLine, Places, Locked
    <2>3. OffPlaces'
        BY <2>1, Callees DEF Go, IInv, OffPlaces, TypeOK
    <2>4. ~userOff' /\ userOff' \in BOOLEAN
        BY <1>3 DEF TurnOn
    <2>5. why' \in [Agents -> Reasons]
        BY <1>3 DEF TurnOn, IInv, TypeOK, Reasons
    <2>6. OffIsBehind'
        BY <2>4 DEF OffIsBehind
    <2>7. UNCHANGED <<health, shutting, device>>
        BY <1>3 DEF TurnOn
    <2>. QED BY <2>2, <2>3, <2>4, <2>5, <2>6, <2>7
             DEF IInv, TypeOK, health, device
<1>4. CASE TurnOff
    <2>1. Go("off", "release") /\ at["off"] = "idle"
        BY <1>4 DEF TurnOff, Loaded
    <2>2. at' \in [Agents -> Places] /\ ahead' \in [Agents -> SUBSET Agents]
        BY <2>1 DEF Go, IInv, TypeOK, InLine, Places, Locked
    <2>3. /\ at'["off"] = "release" /\ ahead'["off"] = InLine \ {"off"}
          /\ \A a \in Agents : a # "off" => at'[a] = at[a]
        BY <2>1, Callees DEF Go, IInv, TypeOK, Locked
    <2>4. OffIsBehind' /\ OffPlaces'
        BY <2>3 DEF OffIsBehind, OffPlaces, InLine, Locked
    <2>5. userOff' \in BOOLEAN /\ UNCHANGED <<health, shutting, why, device>>
        BY <1>4 DEF TurnOff
    <2>. QED BY <2>2, <2>4, <2>5 DEF IInv, TypeOK, health, device
<1>. QED BY <1>1, <1>2, <1>3, <1>4 DEF Call

\* The teardown; a cancelled wake leaves the line.
LEMMA UnloadSound ==
    ASSUME IInv, Unload
    PROVE  IInv'
<1>0. {"standby", "closing", "gone"} \subseteq Places \ Turning
    BY DEF Places, Locked, Turning
<1>1. CASE BeginShutdown
    <2>1. /\ at' \in [Agents -> Places] /\ ahead' \in [Agents -> SUBSET Agents]
          /\ \A a \in Agents : at'[a] = at[a] \/ at'[a] \in {"idle", "stopped"}
          /\ at'["wake"] = "idle" /\ at'["off"] = at["off"]
          /\ ahead'["off"] = ahead["off"] \ {"wake"}
        BY <1>1, Callees DEF BeginShutdown, IInv, TypeOK, Places
    <2>2. UNCHANGED <<health, userOff, why, alive, link>>
        BY <1>1 DEF BeginShutdown
    <2>3. OffIsBehind' /\ OffPlaces'
        BY <2>1, <2>2, Callees DEF IInv, OffIsBehind, OffPlaces
    <2>4. shutting' \in BOOLEAN
        BY <1>1 DEF BeginShutdown
    <2>5. rs485' \in {rs485, TRUE}
        BY <1>1 DEF BeginShutdown
    <2>6. rs485' \in BOOLEAN
        BY <2>5 DEF IInv, TypeOK
    <2>. QED BY <2>1, <2>2, <2>3, <2>4, <2>6 DEF IInv, TypeOK, health
<1>2. CASE ReleaseHardware
    <2>1. Go("unload", "standby") \/ Stay("unload", "closing")
        BY <1>2 DEF ReleaseHardware
    <2>2. UNCHANGED <<health, flags, why, device>>
        BY <1>2 DEF ReleaseHardware
    <2>3. /\ at' \in [Agents -> Places] /\ ahead' \in [Agents -> SUBSET Agents]
          /\ OffIsBehind' /\ OffPlaces'
        BY <1>0, <2>1, <2>2, Callees, GoSound, StaySound DEF IInv, flags
    <2>. QED BY <2>2, <2>3 DEF IInv, TypeOK, health, flags, device
<1>3. CASE Disconnect
    <2>1. /\ at' \in [Agents -> Places] /\ ahead' \in [Agents -> SUBSET Agents]
          /\ OffIsBehind' /\ OffPlaces'
        BY <1>0, <1>3, Callees, StaySound DEF Disconnect, IInv, flags
    <2>. QED BY <1>3, <2>1 DEF Disconnect, IInv, TypeOK, health, flags
<1>. QED BY <1>1, <1>2, <1>3 DEF Unload

\* Clocks and the battery touch no agent.
LEMMA OutsideSound ==
    ASSUME IInv, GroupDue \/ SuspensionExpires \/ Battery \/ UNCHANGED vars
    PROVE  IInv'
<1>1. UNCHANGED agents /\ UNCHANGED flags
    BY DEF GroupDue, SuspensionExpires, Battery, Dies, Returns, DropsControl, vars
<1>2. UNCHANGED <<failures, connected, critical>>
    BY DEF GroupDue, SuspensionExpires, Battery, Dies, Returns, DropsControl,
           vars, health
<1>3. suspended' \in {"none", "waiting", "expired"} /\ link' \in {"open", "closed"}
    BY DEF GroupDue, SuspensionExpires, Battery, Dies, Returns, DropsControl,
           vars, health, device, IInv, TypeOK
<1>4. due' \in BOOLEAN /\ alive' \in BOOLEAN /\ rs485' \in BOOLEAN
    BY Zenon DEF GroupDue, SuspensionExpires, Battery, Dies, Returns,
           DropsControl, vars, health, device, IInv, TypeOK
<1>. QED BY <1>1, <1>2, <1>3, <1>4
         DEF IInv, TypeOK, OffIsBehind, OffPlaces, agents, flags

\* IInv is inductive.
LEMMA NextIInv == IInv /\ [Next]_vars => IInv'
BY PollSound, ServeSound, CallSound, UnloadSound, OutsideSound DEF Next

LEMMA Inductive == Spec => []IInv
BY InitIInv, NextIInv, PTL DEF Spec

-----------------------------------------------------------------------------
\* The coordinator's counters, flags and lock line keep their types.
THEOREM TypeCorrect == Spec => []TypeOK
BY Inductive, PTL DEF IInv

\* RS485 control comes on only while the user wants it, or before a turn-off
\* that is already queued has written: the lock serves in order, and every
\* path that turns it on looks at the user's choice before it queues or writes.
THEOREM UserOffCorrect == Spec => UserOffWins
<1>1. IInv /\ [Next]_vars =>
        [(~rs485 /\ rs485') => (~userOff \/ at["off"] = "release")]_rs485
    <2>. SUFFICES ASSUME IInv, [Next]_vars, ~rs485, rs485', userOff
         PROVE  at["off"] = "release"
        OBVIOUS
    <2>1. SUFFICES \E a \in Agents : at[a] \in {"assert", "enable"}
        BY DEF IInv, OffIsBehind
    <2>2. CASE \E p \in Pollers : Poll(p)
        BY <2>2 DEF Poll, PollStart, PollNothingDue, PollSucceeds, PollFails,
                    device
    <2>3. CASE \E a \in Agents : Serve(a)
        BY <2>3 DEF Serve, Connects, ProbeAnswered, EnableControl,
                    ProbeUnanswered, Write, AssertControl, Verify,
                    ReleaseControl, Standby, device
    <2>4. CASE Call
        BY <2>4 DEF Call, Command, Wake, TurnOn, TurnOff, device
    <2>5. CASE BeginShutdown
        BY <2>5, Callees DEF BeginShutdown
    <2>6. CASE ReleaseHardware \/ Disconnect
        BY <2>6 DEF ReleaseHardware, Disconnect, device
    <2>7. CASE GroupDue \/ SuspensionExpires \/ Battery \/ UNCHANGED vars
        BY <2>7 DEF GroupDue, SuspensionExpires, Battery, Dies, Returns,
                    DropsControl, vars, device
    <2>. QED BY <2>2, <2>3, <2>4, <2>5, <2>6, <2>7 DEF Next, Unload
<1>. QED BY <1>1, Inductive, PTL DEF Spec, UserOffWins

-----------------------------------------------------------------------------
(* From the meter to the registers: what the extremes of a few numbers are.    *)
LEMMA MinusIs == \A x \in Int : -x = 0 - x
OBVIOUS
LEMMA OneMax == \A n \in Int : Max({n}) = n
BY DEF Max
LEMMA TwoMin == \A m, n \in Int : Min({m, n}) = IF m <= n THEN m ELSE n
<1> TAKE m \in Int, n \in Int
<1> DEFINE x == IF m <= n THEN m ELSE n
<1>1. x \in {m, n} /\ \A y \in {m, n} : x <= y OBVIOUS
<1>2. \A z \in {m, n} : (\A y \in {m, n} : z <= y) => z = x OBVIOUS
<1> HIDE DEF x
<1> QED BY <1>1, <1>2 DEF Min, x
LEMMA TwoMax == \A m, n \in Int : Max({m, n}) = IF m >= n THEN m ELSE n
<1> TAKE m \in Int, n \in Int
<1> DEFINE x == IF m >= n THEN m ELSE n
<1>1. x \in {m, n} /\ \A y \in {m, n} : x >= y OBVIOUS
<1>2. \A z \in {m, n} : (\A y \in {m, n} : z >= y) => z = x OBVIOUS
<1> HIDE DEF x
<1> QED BY <1>1, <1>2 DEF Max, x

-----------------------------------------------------------------------------
(* The regulator: its powers stay within the limit. *)
LEMMA RgNumbers ==
    /\ RgLoads \subseteq Int /\ RgTaper \in 0..RgLimit /\ RgLimit \in Nat \ {0}
    /\ RgContract \in Nat /\ RgPeak \in Nat /\ RgLeast \in Nat /\ RgMaxUpsets \in Nat /\ RgCross \in Nat /\ RgDwell \in Nat
    /\ RgDeadband \in Nat /\ RgHyst \in Nat /\ RgBand \in Nat /\ RgRate \in Nat /\ RgHoldPower \in Nat
    /\ RgShort \in Nat \ {0} /\ RgQuiet \in Nat \ {0} /\ Powers \subseteq Int /\ 0 \in Powers
BY RgAssumption DEF Powers

LEMMA ClampIs == ASSUME NEW n \in Int, NEW most \in 0..RgLimit PROVE Max({-most, Min({most, n})}) \in Powers
<1>1. most \in Int /\ -most \in Int BY RgNumbers
<1> DEFINE x == Min({most, n})
<1>2. x = IF most <= n THEN most ELSE n BY <1>1, TwoMin
<1>3. x \in Int /\ x <= most BY <1>1, <1>2
<1> HIDE DEF x
<1>4. Max({-most, x}) = IF -most >= x THEN -most ELSE x BY <1>1, <1>3, TwoMax
<1>5. Max({-most, x}) \in Powers BY <1>1, <1>3, <1>4, RgNumbers DEF Powers
<1> QED BY <1>5 DEF x

LEMMA ContractIs == ASSUME NEW n \in Powers, rgMeter \in Int, rgPower \in Int PROVE Contract(n) \in Powers
<1>1. n \in Int BY RgNumbers
<1>2. CASE n > 0
  <2> DEFINE y == RgContract - rgMeter + rgPower
             x == Max({0, y})
  <2>1. y \in Int BY RgNumbers
  <2>2. x = IF 0 >= y THEN 0 ELSE y BY <2>1, TwoMax
  <2>3. x \in Int /\ x >= 0 BY <2>1, <2>2
  <2>4. Contract(n) = Min({n, x}) BY <1>2 DEF Contract
  <2> HIDE DEF x, y
  <2>5. Min({n, x}) = IF n <= x THEN n ELSE x BY <1>1, <2>3, TwoMin
  <2> QED BY <1>1, <1>2, <2>3, <2>4, <2>5, RgNumbers DEF Powers
<1>3. CASE ~(n > 0) BY <1>3 DEF Contract
<1> QED BY <1>2, <1>3

LEMMA SgnIs == \A n \in Int : Sgn(n) \in -1..1 /\ Sgn(n) \in Int
BY DEF Sgn
LEMMA RgTargetIs == RgTypeOK => Target \in Int
<1> SUFFICES ASSUME RgTypeOK PROVE Target \in Int OBVIOUS
<1>1. rgMeter \in Int BY DEF RgTypeOK
<1> QED BY <1>1, RgNumbers DEF Target
LEMMA RgGuardsIs == ASSUME RgTypeOK, NEW n \in Int, NEW t \in Int PROVE Guards(n, t) \in Int
<1>1. Demand(t) \in Int BY RgNumbers DEF Demand, House, RgTypeOK
<1>2. Ceiling(n, t) \in Int /\ Ceiling(0, t) \in Int BY <1>1 DEF Ceiling
<1> QED BY <1>2 DEF Guards
LEMMA RgAsksIs == ASSUME RgTypeOK, NEW e \in Int, NEW p \in Ask(e) PROVE p \in Int
<1>1. rgPower \in Int /\ rgReal \in Int BY RgNumbers DEF RgTypeOK
<1>2. Base \in Int BY <1>1 DEF Base
<1>3. \A n \in Int : Straight(n, e) \in Int BY DEF Straight
<1>4. Sgn(e) \in -1..1 BY DEF Sgn
<1>5. CASE p = rgPower BY <1>1, <1>5
<1>6. CASE p = Straight(rgReal - e, e) BY <1>1, <1>3, <1>6
<1>7. CASE \E c \in 1..Min({Mag(e), RgRate}) : p = Straight(Base - Sgn(e) * c, e)
  <2>1. PICK c \in 1..Min({Mag(e), RgRate}) : p = Straight(Base - Sgn(e) * c, e) BY <1>7
  <2>2. Mag(e) \in Int BY DEF Mag
  <2>3. Min({Mag(e), RgRate}) \in Int
    <3>1. Min({Mag(e), RgRate}) = IF Mag(e) <= RgRate THEN Mag(e) ELSE RgRate BY <2>2, RgNumbers, TwoMin
    <3> QED BY <2>2, <3>1, RgNumbers
  <2>4. c \in Int BY <2>3
  <2>5. Base - Sgn(e) * c \in Int BY <1>2, <1>4, <2>4
  <2> QED BY <1>3, <2>1, <2>5
<1> QED BY <1>5, <1>6, <1>7 DEF Ask, Proposals

LEMMA RgStarted == RgInit => RgTypeOK
<1> SUFFICES ASSUME RgInit PROVE RgTypeOK OBVIOUS
<1>1. rgLoad \in RgLoads /\ rgMeter = rgLoad /\ rgReal = 0 /\ rgPower = 0 BY DEF RgInit
<1>2. rgMeter \in Int BY <1>1, RgNumbers
<1>3. /\ rgAge \in 0..RgQuiet /\ rgSign \in -1..1 /\ rgZero \in -1..RgCross /\ rgRelay \in -1..RgDwell
      /\ rgLack \in 0..RgShort /\ rgLeft \in 0..RgMaxUpsets
  BY RgNumbers DEF RgInit
<1> QED BY <1>1, <1>2, <1>3, RgNumbers DEF RgInit, RgTypeOK

(* A cycle leaves the surroundings as they are *)
LEMMA RgDone ==
  ASSUME RgTypeOK, Done, rgPower' \in Powers, rgSign' \in -1..1, rgFirst' \in BOOLEAN, rgZero' \in -1..RgCross,
         rgRelay' \in -1..RgDwell, rgLack' \in 0..RgShort, rgGuard' \in BOOLEAN
  PROVE  RgTypeOK'
BY DEF RgTypeOK, Done, plant

LEMMA RgCycles == RgTypeOK /\ RgCycle => RgTypeOK'
<1> SUFFICES ASSUME RgTypeOK, RgCycle PROVE RgTypeOK' OBVIOUS
<1>1. /\ rgMeter \in Int /\ rgPower \in Powers /\ rgPower \in Int /\ Target \in Int /\ rgSign \in -1..1 /\ rgFirst \in BOOLEAN
      /\ rgZero \in -1..RgCross /\ rgRelay \in -1..RgDwell /\ rgLack \in 0..RgShort /\ rgGuard \in BOOLEAN
  BY RgNumbers, RgTargetIs DEF RgTypeOK
<1>2. Guarded(Target) \in BOOLEAN
  <2>1. CASE rgGuard BY <2>1 DEF Guarded
  <2>2. CASE ~rgGuard BY <2>2 DEF Guarded
  <2> QED BY <2>1, <2>2
<1>3. 0 \in -1..1 /\ 0 \in Powers /\ -1 \in -1..RgCross /\ -1 \in -1..RgDwell /\ 0 \in 0..RgShort BY RgNumbers
<1>4. CASE RgBlocked \/ RgIdles
  <2>1. Done /\ Stopped BY <1>4 DEF RgBlocked, RgIdles
  <2> QED BY <1>1, <1>3, <2>1, RgDone DEF Stopped
<1>5. CASE RgStands BY <1>1, <1>5, RgDone DEF RgStands
<1>6. CASE RgInBand BY <1>1, <1>2, <1>3, <1>6, RgDone DEF RgInBand
<1>7. CASE RgStarts
  <2> DEFINE power == Clamp(-(rgMeter - Target))
             new == IF Sgn(power) \in rgBlock THEN 0 ELSE power
  <2>1. rgPower' = new /\ rgSign' = Sgn(new) /\ rgFirst' = FALSE /\ Done /\ UNCHANGED <<rgZero, rgRelay, rgLack, rgGuard>>
    BY <1>7 DEF RgStarts
  <2>2. power \in Powers
    <3>1. -(rgMeter - Target) \in Int /\ RgLimit \in 0..RgLimit BY <1>1, RgNumbers
    <3> QED BY <3>1, ClampIs DEF Clamp
  <2>3. new \in Powers BY <1>3, <2>2
  <2> HIDE DEF new
  <2>4. rgSign' \in -1..1 BY <2>1, <2>3, SgnIs, RgNumbers
  <2> QED BY <1>1, <2>1, <2>3, <2>4, RgDone
<1>8. CASE RgControls
  <2>1. PICK proposal \in Ask(rgMeter - Target) :
         LET stale == ~rgFresh
             error == rgMeter - Target
             guarded == Guards(proposal, Target)
             zero == ZeroNext(guarded, stale)
             lifted == Lifted(Crossed(guarded), error)
             held == Dwelt(lifted, error, zero, stale)
             restricted == Sgn(held) \in rgBlock
             new == IF restricted THEN 0 ELSE Contract(Clamp(held))
         IN /\ rgZero' = zero /\ rgRelay' = DwellNext(lifted, error, zero, stale)
            /\ rgPower' = new
            /\ rgSign' = IF restricted \/ new = 0 THEN rgSign ELSE Sgn(new)
    BY <1>8 DEF RgControls
  <2> DEFINE stale == ~rgFresh
             error == rgMeter - Target
             guarded == Guards(proposal, Target)
             zero == ZeroNext(guarded, stale)
             lifted == Lifted(Crossed(guarded), error)
             held == Dwelt(lifted, error, zero, stale)
             restricted == Sgn(held) \in rgBlock
             new == IF restricted THEN 0 ELSE Contract(Clamp(held))
  <2>2. /\ rgZero' = zero /\ rgRelay' = DwellNext(lifted, error, zero, stale) /\ rgPower' = new
        /\ rgSign' = IF restricted \/ new = 0 THEN rgSign ELSE Sgn(new)
    BY <2>1
  <2>3. error \in Int /\ proposal \in Int
    <3>1. error \in Int BY <1>1
    <3> QED BY <2>1, <3>1, RgAsksIs
  <2>4. guarded \in Int BY <1>1, <2>3, RgGuardsIs
  <2> HIDE DEF error, guarded, stale
  <2>5. zero \in -1..RgCross BY <1>1, RgNumbers DEF ZeroNext
  <2>6. Crossed(guarded) \in Int BY <2>4 DEF Crossed
  <2>7. lifted \in Int
    <3> DEFINE n == Crossed(guarded)
    <3>1. n \in Int BY <2>6
    <3> HIDE DEF n
    <3>2. Sgn(n) * RgLeast \in Int BY <3>1, SgnIs, RgNumbers
    <3>3. Lifted(n, error) \in Int BY <3>1, <3>2 DEF Lifted
    <3> QED BY <3>3 DEF n
  <2> HIDE DEF zero, lifted
  <2>8. held \in Int
    <3>1. Max({RgLeast, RgHoldPower}) \in Int
      <4>1. Max({RgLeast, RgHoldPower}) = IF RgLeast >= RgHoldPower THEN RgLeast ELSE RgHoldPower BY RgNumbers, TwoMax
      <4> QED BY <4>1, RgNumbers
    <3>2. Sgn(rgPower) * Max({RgLeast, RgHoldPower}) \in Int BY <1>1, <3>1, SgnIs
    <3> QED BY <2>7, <3>2 DEF Dwelt
  <2> HIDE DEF held
  <2>9. Clamp(held) \in Powers
    <3>1. RgLimit \in 0..RgLimit BY RgNumbers
    <3> QED BY <2>8, <3>1, ClampIs DEF Clamp
  <2>10. new \in Powers BY <1>1, <1>3, <2>9, ContractIs
  <2> HIDE DEF new, restricted
  <2>11. rgSign' \in -1..1 BY <1>1, <2>2, <2>10, SgnIs, RgNumbers
  <2>12. rgRelay' \in -1..RgDwell BY <1>1, <2>2, RgNumbers DEF DwellNext
  <2>13. rgLack' \in 0..RgShort
    <3>1. rgLack' = IF rgFresh THEN (IF Lacking /\ ~BackCalculates THEN rgLack + 1 ELSE 0) ELSE rgLack
      BY <1>8 DEF RgControls
    <3>2. Lacking /\ ~BackCalculates => rgLack + 1 \in 0..RgShort BY <1>1, RgNumbers DEF BackCalculates
    <3> QED BY <1>1, <1>3, <3>1, <3>2
  <2>14. Done /\ rgGuard' \in BOOLEAN /\ rgFirst' = rgFirst BY <1>2, <1>8 DEF RgControls
  <2> QED BY <1>1, <2>2, <2>5, <2>10, <2>11, <2>12, <2>13, <2>14, RgDone
<1> QED BY <1>4, <1>5, <1>6, <1>7, <1>8 DEF RgCycle

LEMMA RgPlants == RgTypeOK /\ (RgPlant \/ RgChanges) => RgTypeOK'
<1> SUFFICES ASSUME RgTypeOK, RgPlant \/ RgChanges PROVE RgTypeOK' OBVIOUS
<1>1. rgCap \in 0..RgLimit /\ rgPower \in Int /\ rgLoad \in Int /\ rgAge \in 0..RgQuiet /\ rgLeft \in 0..RgMaxUpsets
      /\ rgMeter \in Int
  BY RgNumbers DEF RgTypeOK
<1>2. rgLeft' \in 0..RgMaxUpsets
  <2>1. rgLeft' = rgLeft \/ (rgLeft > 0 /\ rgLeft' = rgLeft - 1) BY DEF RgPlant, RgChanges
  <2> QED BY <1>1, <2>1, RgNumbers
<1>3. CASE RgPlant
  <2>1. Delivered \in Powers BY <1>1, ClampIs DEF Delivered
  <2>2. Delivered \in Int BY <2>1, RgNumbers
  <2>3. rgAge' \in 0..RgQuiet
    <3>1. rgAge' = 0 \/ rgAge' = Min({RgQuiet, rgAge + 1}) BY <1>3 DEF RgPlant
    <3>2. Min({RgQuiet, rgAge + 1}) = IF RgQuiet <= rgAge + 1 THEN RgQuiet ELSE rgAge + 1 BY <1>1, RgNumbers, TwoMin
    <3> QED BY <1>1, <3>1, <3>2, RgNumbers
  <2>4. rgMeter' \in Int /\ rgFresh' \in BOOLEAN
    <3>1. CASE rgMeter' = rgLoad + Delivered /\ rgFresh' \in {rgMeter' # rgMeter, TRUE}
      <4>1. rgMeter' \in Int BY <1>1, <2>2, <3>1
      <4>2. rgFresh' \in BOOLEAN BY <3>1
      <4> QED BY <4>1, <4>2
    <3>2. CASE rgFresh' = FALSE /\ UNCHANGED rgMeter BY <1>1, <3>2
    <3> QED BY <1>3, <3>1, <3>2 DEF RgPlant
  <2>5. /\ rgReal' = Delivered /\ rgTurn' = "cycle"
        /\ UNCHANGED <<rgLoad, rgCap, rgPower, rgSign, rgFirst, rgZero, rgRelay, rgLack, rgGuard, rgLow, rgBlock>>
    BY <1>3 DEF RgPlant
  <2> QED BY <1>2, <2>1, <2>3, <2>4, <2>5 DEF RgTypeOK
<1>4. CASE RgChanges
  <2>1. UNCHANGED <<rgReal, rgMeter, rgFresh, rgAge, rgPower, rgSign, rgFirst, rgZero, rgRelay, rgLack, rgGuard, rgTurn>>
    BY <1>4 DEF RgChanges
  <2>2. rgLoad' \in RgLoads /\ rgCap' \in {RgLimit, RgTaper} /\ rgLow' \in BOOLEAN /\ rgBlock' \subseteq {1, -1}
    <3>1. rgLow \in BOOLEAN BY DEF RgTypeOK
    <3>2. rgLow' \in BOOLEAN BY <1>4, <3>1 DEF RgChanges
    <3>3. rgLoad' \in RgLoads /\ rgCap' \in {RgLimit, RgTaper} /\ rgBlock' \subseteq {1, -1} BY <1>4 DEF RgChanges, RgTypeOK
    <3> QED BY <3>2, <3>3
  <2> QED BY <1>2, <2>1, <2>2 DEF RgTypeOK
<1> QED BY <1>3, <1>4

LEMMA RgSteps == RgTypeOK /\ [RgNext]_rgVars => RgTypeOK'
<1> SUFFICES ASSUME RgTypeOK, [RgNext]_rgVars PROVE RgTypeOK' OBVIOUS
<1>1. CASE UNCHANGED rgVars BY <1>1 DEF rgVars, RgTypeOK
<1> QED BY <1>1, RgCycles, RgPlants DEF RgNext

-----------------------------------------------------------------------------
(* A regulator's command is never more than was decided. *)
Most == Max({Mag(rgPower), RgLeast, RgHoldPower})
(* Nothing, or in the direction of the standing command and no more than Most *)
Tame(n) ==
    \/ n = 0
    \/ rgPower > 0 /\ n > 0 /\ n <= Most
    \/ rgPower < 0 /\ n < 0 /\ -n <= Most

LEMMA MostIs ==
  ASSUME RgTypeOK
  PROVE  /\ rgPower \in Int /\ Most \in Int
         /\ Mag(rgPower) <= Most /\ RgLeast <= Most /\ RgHoldPower <= Most
<1>1. rgPower \in Int /\ Mag(rgPower) \in Int BY RgNumbers DEF RgTypeOK, Mag
<1>2. ASSUME NEW k \in Int, NEW m \in Int, NEW n \in Int
      PROVE  \E x \in {k, m, n} : \A y \in {k, m, n} : x >= y
  <2>1. CASE k >= m /\ k >= n BY <2>1
  <2>2. CASE m >= k /\ m >= n BY <2>2
  <2>3. CASE n >= k /\ n >= m BY <2>3
  <2> QED BY <2>1, <2>2, <2>3
<1>3. \E x \in {Mag(rgPower), RgLeast, RgHoldPower} : \A y \in {Mag(rgPower), RgLeast, RgHoldPower} : x >= y
  BY <1>1, <1>2, RgNumbers
<1>4. /\ Most \in {Mag(rgPower), RgLeast, RgHoldPower}
      /\ \A y \in {Mag(rgPower), RgLeast, RgHoldPower} : Most >= y
  BY <1>3 DEF Most, Max
<1>5. Most \in Int BY <1>1, <1>4, RgNumbers
<1> QED BY <1>1, <1>4, <1>5, RgNumbers

(* Without a new sample the guards, the hold, the minimum power, the dwell and the limits start from the
   standing command and keep its direction *)
LEMMA GuardsTame == ASSUME RgTypeOK, NEW t \in Int PROVE Tame(Guards(rgPower, t))
<1>1. rgPower \in Int /\ Most \in Int /\ Mag(rgPower) <= Most BY MostIs
<1>2. Demand(t) \in Int /\ RgDeadband \in Int /\ RgDeadband >= 0 BY RgNumbers DEF Demand, House, RgTypeOK
<1>3. Ceiling(0, t) = 0 BY DEF Ceiling
<1>4. CASE rgPower < 0
  <2>1. Ceiling(rgPower, t) = rgPower
        \/ (Demand(t) > 0 /\ -rgPower > Demand(t) + RgDeadband /\ Ceiling(rgPower, t) = -Demand(t))
    BY DEF Ceiling
  <2>2. -rgPower <= Most BY <1>1, <1>4 DEF Mag
  <2> DEFINE d == Demand(t)
             c == Ceiling(rgPower, t)
  <2> HIDE DEF d
  <2>3. c = rgPower \/ (d > 0 /\ -rgPower > d + RgDeadband /\ c = -d) BY <2>1 DEF d
  <2>4. d \in Int BY <1>2 DEF d
  <2> HIDE DEF c
  <2>5. Tame(c) BY <1>1, <1>2, <1>4, <2>2, <2>3, <2>4 DEF Tame
  <2>6. Guards(rgPower, t) = c \/ Guards(rgPower, t) = 0 BY <1>3 DEF Guards, c
  <2>7. Tame(0) BY DEF Tame
  <2> QED BY <2>5, <2>6, <2>7
<1>5. CASE ~(rgPower < 0)
  <2>1. Guards(rgPower, t) = rgPower BY <1>5 DEF Guards, Ceiling
  <2>2. rgPower <= Most BY <1>1, <1>5 DEF Mag
  <2> QED BY <1>1, <1>5, <2>1, <2>2 DEF Tame
<1> QED BY <1>4, <1>5

LEMMA HoldsTame ==
  ASSUME RgTypeOK, NEW n \in Int, Tame(n), NEW e \in Int, NEW z, NEW stale
  PROVE  LET m == Dwelt(Lifted(Crossed(n), e), e, z, stale) IN m \in Int /\ Tame(m)
<1>1. rgPower \in Int /\ Most \in Int /\ RgLeast <= Most /\ RgHoldPower <= Most BY MostIs
<1>2. RgLeast \in Int /\ RgHoldPower \in Int /\ RgLeast >= 0 /\ RgHoldPower >= 1 BY RgAssumption
<1> DEFINE x == Crossed(n)
           l == Lifted(x, e)
           b == Max({RgLeast, RgHoldPower})
<1>3. x \in Int /\ Tame(x)
  <2>1. x = n \/ x = 0 BY DEF Crossed
  <2> QED BY <2>1 DEF Tame
<1> HIDE DEF x
<1>4. l \in Int /\ Tame(l)
  <2>1. l = x \/ l = 0 \/ (x # 0 /\ Mag(x) < RgLeast /\ l = Sgn(x) * RgLeast) BY <1>3, <1>2 DEF Lifted, Mag
  <2>2. CASE l = x \/ l = 0 BY <1>3, <2>2 DEF Tame
  <2>3. CASE x # 0 /\ Mag(x) < RgLeast /\ l = Sgn(x) * RgLeast
    <3>1. CASE x > 0
      <4>1. Sgn(x) = 1 BY <3>1 DEF Sgn
      <4>2. l = RgLeast /\ RgLeast > 0 BY <1>2, <1>3, <2>3, <3>1, <4>1 DEF Mag
      <4> HIDE DEF l
      <4>3. rgPower > 0 BY <1>1, <1>3, <3>1 DEF Tame
      <4> QED BY <1>1, <1>2, <4>2, <4>3 DEF Tame
    <3>2. CASE x < 0
      <4>1. Sgn(x) = -1 BY <1>3, <3>2 DEF Sgn
      <4>2. l = -RgLeast /\ RgLeast > 0 BY <1>2, <1>3, <2>3, <3>2, <4>1 DEF Mag
      <4> HIDE DEF l
      <4>3. rgPower < 0 BY <1>1, <1>3, <3>2 DEF Tame
      <4> QED BY <1>1, <1>2, <4>2, <4>3 DEF Tame
    <3> QED BY <1>3, <2>3, <3>1, <3>2
  <2> QED BY <2>1, <2>2, <2>3
<1> HIDE DEF l
<1>5. b \in Int /\ b >= 1 /\ b <= Most
  <2>1. b = IF RgLeast >= RgHoldPower THEN RgLeast ELSE RgHoldPower BY <1>2, TwoMax
  <2> QED BY <1>1, <1>2, <2>1
<1> DEFINE m == Dwelt(l, e, z, stale)
<1>6. m = l \/ (rgPower # 0 /\ m = Sgn(rgPower) * b) BY DEF Dwelt, Idling
<1> HIDE DEF b, m
<1>7. ASSUME rgPower # 0, m = Sgn(rgPower) * b PROVE m \in Int /\ Tame(m)
  <2>1. CASE rgPower > 0
    <3>1. Sgn(rgPower) = 1 BY <2>1 DEF Sgn
    <3>2. m = b BY <1>5, <1>7, <3>1
    <3> QED BY <1>1, <1>5, <2>1, <3>2 DEF Tame
  <2>2. CASE rgPower < 0
    <3>1. Sgn(rgPower) = -1 BY <1>1, <2>2 DEF Sgn
    <3>2. m = -b BY <1>5, <1>7, <3>1
    <3> QED BY <1>1, <1>5, <2>2, <3>2 DEF Tame
  <2> QED BY <1>1, <1>7, <2>1, <2>2
<1>8. m = l => m \in Int /\ Tame(m) BY <1>4 DEF Tame
<1>9. m \in Int /\ Tame(m) BY <1>6, <1>7, <1>8
<1> QED BY <1>9 DEF m, l, x

(* What the limits make of a command: nothing, or no more in the same direction; and what the contract leaves *)
LEMMA LimitsAre ==
  ASSUME RgTypeOK, NEW n \in Int
  PROVE  LET c == Contract(Clamp(n)) IN
           /\ c \in Int
           /\ c = 0 \/ (n > 0 /\ 0 < c /\ c <= n) \/ (n < 0 /\ c < 0 /\ n <= c)
           /\ c > 0 => c <= RgContract - rgMeter + rgPower
<1>1. rgMeter \in Int /\ rgPower \in Int /\ RgLimit \in Int /\ RgLimit > 0 /\ RgContract \in Int
  BY RgNumbers DEF RgTypeOK
<1> DEFINE k == Clamp(n)
           lo == Min({RgLimit, n})
           y == RgContract - rgMeter + rgPower
           x == Max({0, y})
<1>2. lo = IF RgLimit <= n THEN RgLimit ELSE n BY <1>1, TwoMin
<1> HIDE DEF lo
<1>3. lo \in Int /\ -RgLimit \in Int BY <1>1, <1>2
<1>4. k = IF -RgLimit >= lo THEN -RgLimit ELSE lo BY <1>3, TwoMax DEF Clamp, lo
<1> HIDE DEF k
<1>5. k \in Int /\ (k = 0 \/ (n > 0 /\ 0 < k /\ k <= n) \/ (n < 0 /\ k < 0 /\ n <= k))
  BY <1>1, <1>2, <1>3, <1>4
<1>6. CASE k > 0
  <2>1. y \in Int BY <1>1
  <2> HIDE DEF y
  <2>2. x = IF 0 >= y THEN 0 ELSE y BY <2>1, TwoMax
  <2>3. Contract(k) = Min({k, x}) BY <1>6 DEF Contract, x, y
  <2> HIDE DEF x
  <2>4. x \in Int BY <2>1, <2>2
  <2>5. Min({k, x}) = IF k <= x THEN k ELSE x BY <1>5, <2>4, TwoMin
  <2> DEFINE c == Contract(k)
  <2>6. c = IF k <= x THEN k ELSE x BY <2>3, <2>5
  <2> HIDE DEF c
  <2>7. c \in Int /\ (c = 0 \/ (n > 0 /\ 0 < c /\ c <= n)) /\ (c > 0 => c <= y)
    BY <1>5, <1>6, <2>1, <2>2, <2>4, <2>6
  <2> QED BY <2>7 DEF c, y, k
<1>7. CASE ~(k > 0)
  <2>1. Contract(k) = k BY <1>7 DEF Contract
  <2>2. /\ Contract(k) \in Int /\ ~(Contract(k) > 0)
        /\ Contract(k) = 0 \/ (n > 0 /\ 0 < Contract(k) /\ Contract(k) <= n) \/ (n < 0 /\ Contract(k) < 0 /\ n <= Contract(k))
    BY <1>5, <1>7, <2>1
  <2> QED BY <2>2 DEF k
<1> QED BY <1>6, <1>7

LEMMA TameIs ==
  ASSUME RgTypeOK, rgPower' \in Int, Tame(rgPower')
  PROVE  rgPower' = 0 \/ (Sgn(rgPower') = Sgn(rgPower) /\ Mag(rgPower') <= Most)
<1>1. rgPower \in Int BY MostIs
<1>2. CASE rgPower > 0 /\ rgPower' > 0 /\ rgPower' <= Most BY <1>1, <1>2 DEF Sgn, Mag
<1>3. CASE rgPower < 0 /\ rgPower' < 0 /\ -rgPower' <= Most BY <1>1, <1>3 DEF Sgn, Mag
<1> QED BY <1>2, <1>3 DEF Tame

(* One cycle *)
LEMMA CycleBounded ==
  ASSUME RgTypeOK, RgCycle, ~rgFirst
  PROVE  /\ ~rgFresh => rgPower' = 0 \/ (Sgn(rgPower') = Sgn(rgPower) /\ Mag(rgPower') <= Most)
         /\ rgFresh /\ rgReal = rgPower /\ rgMeter = rgLoad + rgReal
              => \/ rgPower' <= 0 \/ rgLoad + rgPower' <= RgContract
                 \/ rgPower' = rgPower /\ Mag(rgMeter - Target) < RgDeadband
<1>1. /\ rgPower \in Int /\ rgMeter \in Int /\ rgLoad \in Int /\ RgContract \in Int /\ Target \in Int
      /\ Most \in Int /\ Mag(rgPower) <= Most
  BY MostIs, RgTargetIs, RgNumbers DEF RgTypeOK
<1>2. CASE RgBlocked \/ RgIdles BY <1>2 DEF RgBlocked, RgIdles, Stopped
<1>3. CASE RgStands
  <2>1. ~rgFresh /\ rgPower' = rgPower BY <1>3 DEF RgStands, Quiet
  <2> QED BY <1>1, <2>1
<1>4. CASE RgInBand
  <2>1. rgPower' = rgPower /\ Mag(rgMeter - Target) < RgDeadband BY <1>4 DEF RgInBand, InBand
  <2> QED BY <1>1, <2>1
<1>5. CASE RgStarts BY <1>5 DEF RgStarts
<1>6. CASE RgControls
  <2> DEFINE stale == ~rgFresh
             error == rgMeter - Target
             guarded(p) == Guards(p, Target)
             lifted(p) == Lifted(Crossed(guarded(p)), error)
             held(p) == Dwelt(lifted(p), error, ZeroNext(guarded(p), stale), stale)
  <2>1. PICK p \in Ask(error) :
          rgPower' = IF Sgn(held(p)) \in rgBlock THEN 0 ELSE Contract(Clamp(held(p)))
    BY <1>6 DEF RgControls
  <2>2. error \in Int BY <1>1
  <2>3. p \in Int BY <2>1, <2>2, RgAsksIs
  <2>4. guarded(p) \in Int BY <1>1, <2>3, RgGuardsIs
  <2> DEFINE h == held(p)
  <2>5. h \in Int
    <3>1. Crossed(guarded(p)) \in Int BY <2>4 DEF Crossed
    <3> DEFINE x == Crossed(guarded(p))
    <3>2. x \in Int BY <3>1
    <3> HIDE DEF x, error
    <3>3. Sgn(x) * RgLeast \in Int /\ Sgn(x) \in Int BY <3>2, SgnIs, RgNumbers
    <3>4. Lifted(x, error) \in Int BY <2>2, <3>2, <3>3 DEF Lifted
    <3>5. Max({RgLeast, RgHoldPower}) = IF RgLeast >= RgHoldPower THEN RgLeast ELSE RgHoldPower BY RgNumbers, TwoMax
    <3>6. Sgn(rgPower) * Max({RgLeast, RgHoldPower}) \in Int BY <1>1, <3>5, SgnIs, RgNumbers
    <3>7. \A z, s : Dwelt(Lifted(x, error), error, z, s) \in Int BY <3>4, <3>6 DEF Dwelt
    <3> QED BY <3>7 DEF x, error
  <2>6. CASE ~rgFresh
    <3>1. p = rgPower BY <2>1, <2>6 DEF Ask
    <3>2. Tame(guarded(p)) BY <1>1, <3>1, GuardsTame
    <3>3. Tame(h) BY <2>2, <2>4, <3>2, HoldsTame
    <3> DEFINE c == Contract(Clamp(h))
    <3>4. rgPower' = 0 \/ rgPower' = c BY <2>1
    <3> HIDE DEF h
    <3>5. c \in Int /\ (c = 0 \/ (h > 0 /\ 0 < c /\ c <= h) \/ (h < 0 /\ c < 0 /\ h <= c)) BY <2>5, LimitsAre
    <3> HIDE DEF c
    <3>6. rgPower' \in Int /\ Tame(rgPower') BY <1>1, <2>5, <3>3, <3>4, <3>5 DEF Tame
    <3> QED BY <2>6, <3>6, TameIs
  <2>7. CASE rgFresh
    <3> SUFFICES ASSUME rgReal = rgPower, rgMeter = rgLoad + rgReal
                 PROVE  rgPower' <= 0 \/ rgLoad + rgPower' <= RgContract
      BY <2>7
    <3> DEFINE c == Contract(Clamp(h))
    <3>1. rgPower' = 0 \/ rgPower' = c BY <2>1
    <3> HIDE DEF h
    <3>2. c \in Int /\ (c > 0 => c <= RgContract - rgMeter + rgPower) BY <2>5, LimitsAre
    <3> HIDE DEF c
    <3> QED BY <1>1, <3>1, <3>2
  <2> QED BY <2>6, <2>7 DEF RgTypeOK
<1> QED BY <1>2, <1>3, <1>4, <1>5, <1>6 DEF RgCycle

\* A command is never more than was decided: a silent meter does not make it
\* grow beyond the minimum power or the relay hold, and charging keeps the
\* contract (__init__.py, the stale-meter law and the import limit).
THEOREM BoundsCorrect == RgSpec => CommandsBounded
<1> DEFINE Stale == rgTurn = "cycle" /\ ~rgFresh /\ ~rgFirst =>
                      \/ rgPower' = 0
                      \/ /\ Sgn(rgPower') = Sgn(rgPower)
                         /\ Mag(rgPower') <= Max({Mag(rgPower), RgLeast, RgHoldPower})
           Kept == rgTurn = "cycle" /\ rgTurn' = "plant" /\ rgFresh /\ ~rgFirst /\ rgReal = rgPower /\ rgMeter = rgLoad + rgReal
                     => \/ rgPower' <= 0 \/ rgLoad + rgPower' <= RgContract
                        \/ rgPower' = rgPower /\ Mag(rgMeter - Target) < RgDeadband
<1>1. RgInit => RgTypeOK BY RgStarted
<1>2. RgTypeOK /\ [RgNext]_rgVars => RgTypeOK' BY RgSteps
<1>3. RgTypeOK /\ [RgNext]_rgVars => [Stale]_rgVars /\ [Kept]_rgVars
  <2> SUFFICES ASSUME RgTypeOK, RgNext, rgTurn = "cycle", ~rgFirst
               PROVE  (~rgFresh => Stale) /\ (rgFresh => Kept)
    OBVIOUS
  <2>1. RgCycle BY DEF RgNext, RgPlant, RgChanges
  <2> QED BY <2>1, CycleBounded DEF Most
<1>4. RgTypeOK /\ [RgNext]_rgVars => [Stale]_rgVars BY <1>3
<1>5. RgTypeOK /\ [RgNext]_rgVars => [Kept]_rgVars BY <1>3
<1> QED BY <1>1, <1>2, <1>4, <1>5, PTL DEF RgSpec, CommandsBounded, StaleNeverGrows, ContractKept

-----------------------------------------------------------------------------
LEMMA SpanOf ==
  ASSUME NEW m \in Int, NEW n \in Int, NEW f \in {0, m, n}
  PROVE  f \in Min({m, n, 0})..Max({m, n, 0})
<1> DEFINE lo == IF m <= n THEN (IF m <= 0 THEN m ELSE 0) ELSE (IF n <= 0 THEN n ELSE 0)
           hi == IF m >= n THEN (IF m >= 0 THEN m ELSE 0) ELSE (IF n >= 0 THEN n ELSE 0)
<1>1. lo \in {m, n, 0} /\ \A y \in {m, n, 0} : lo <= y OBVIOUS
<1>2. \A z \in {m, n, 0} : (\A y \in {m, n, 0} : z <= y) => z = lo OBVIOUS
<1>3. hi \in {m, n, 0} /\ \A y \in {m, n, 0} : hi >= y OBVIOUS
<1>4. \A z \in {m, n, 0} : (\A y \in {m, n, 0} : z >= y) => z = hi OBVIOUS
<1>5. lo \in Int /\ hi \in Int OBVIOUS
<1> HIDE DEF lo, hi
<1>6. Min({m, n, 0}) = lo BY <1>1, <1>2 DEF Min
<1>7. Max({m, n, 0}) = hi BY <1>3, <1>4 DEF Max
<1> QED BY <1>1, <1>3, <1>5, <1>6, <1>7

(* The writes of the drivers. *)
DvNets == -DvMost..DvMost
DvWants == [top: 0..10, floor: 0..10]
DvDevs == [ctl: BOOLEAN, mode: -1..1, ch: 0..DvMost, dis: 0..DvMost]
DvKinds == {"none", "set", "rest", "window", "rs485"}
Left(kind) ==
    IF kind = "window" THEN {<<"top", "floor">>, <<"floor">>, <<"top">>, <<"window">>, <<>>}
    ELSE IF kind = "rs485" THEN {<<"take">>, <<"free">>, <<>>}
    ELSE IF kind = "none" THEN {<<>>}
    ELSE IF dvBrand \in Registers THEN {<<"dis", "ch", "mode">>, <<"ch", "mode">>, <<"mode">>, <<>>}
    ELSE {<<"take", "power">>, <<"power">>, <<>>}
DvTyped ==
    /\ DvTypeOK
    /\ dvCmd = [kind |-> dvCmd.kind, net |-> dvCmd.net, want |-> dvCmd.want, todo |-> dvCmd.todo, ok |-> dvCmd.ok,
                begun |-> dvCmd.begun]
    /\ dvCmd.net \in DvNets /\ dvCmd.want \in DvWants /\ dvCmd.ok \in BOOLEAN /\ dvCmd.begun \in BOOLEAN
    /\ dvCmd.todo \in Left(dvCmd.kind)
    /\ dvCmd.kind = "none" => dvCmd = NoCmd
    /\ dvCmd.kind = "rs485" => dvBrand \in Registers
    /\ dvKeep \in [at: {"none", "sleep", "power"}, net: DvNets]
(* One of the command, the keepalive and the close writes at a time *)
OneWrites ==
    /\ dvCmd.begun => dvKeep.at # "power" /\ dvShut \notin {"power", "general"}
    /\ dvBrand # "hoymiles" => dvKeep.at = "none" /\ dvShut = "no"
Powering == dvCmd.kind \in {"set", "rest"}
(* The power of a direction the device does not run in is zero *)
Regular(d) == (d.mode # 1 => d.ch = 0) /\ (d.mode # -1 => d.dis = 0)
(* Both powers are of the command or of before it *)
Parts == dvDev.ch \in {0, dvFrom, dvCmd.net} /\ 0 - dvDev.dis \in {0, dvFrom, dvCmd.net}
Flows == Flow(dvDev) \in {0, dvFrom, dvCmd.net}
(* The registers a command without a failure has written *)
Progress ==
    /\ dvCmd.todo \in {<<"ch", "mode">>, <<"mode">>, <<>>} => dvDev.dis \in {0, Max({-dvCmd.net, 0})}
    /\ dvCmd.todo \in {<<"mode">>, <<>>} => dvDev.ch \in {0, Max({dvCmd.net, 0})}
    /\ dvCmd.todo = <<>> => Regular(dvDev)
RegistersKept ==
    /\ dvStale = 0 /\ ~(dvCmd.begun /\ Powering) => Regular(dvDev)
    /\ dvCmd.begun /\ Powering /\ dvCmd.ok => Progress
    /\ dvCmd.begun /\ Powering /\ dvStale <= 1 => ~dvDev.ctl \/ Parts \/ (dvStale = 1 /\ dvCmd.ok /\ Flows)
TakersKept ==
    /\ Regular(dvDev) /\ (~dvDev.ctl => dvDev = Loose)
    /\ dvCmd.begun /\ Powering => Parts
CmdKept ==
    /\ ~dvCmd.ok => dvStale > 0
    /\ ~dvCmd.begun => dvCmd.ok
    /\ Powering /\ ~dvCmd.begun =>
        dvCmd.todo # <<>> /\ (dvBrand \in Registers => dvCmd.todo = <<"dis", "ch", "mode">>)
DevKept == IF dvBrand \in Registers THEN RegistersKept ELSE TakersKept
(* The window: what an undisturbed command has written of it *)
WindowKept ==
    /\ dvCmd.kind = "window" /\ dvCmd.ok =>
        /\ dvCmd.todo \in {<<"floor">>, <<>>} /\ WindowWrites # <<>> => dvWin.top >= dvCmd.want.top
        /\ dvCmd.todo \in {<<"top">>, <<>>} /\ WindowWrites # <<>> => dvWin.floor <= dvCmd.want.floor
    /\ dvTold.kind = "window" /\ dvTold.ok /\ dvCmd = NoCmd /\ WindowWrites # <<>> =>
        dvWin.top >= dvTold.want.top /\ dvWin.floor <= dvTold.want.floor
DvInv == DvTyped /\ OneWrites /\ CmdKept /\ DevKept /\ WindowKept

LEMMA DvNumbers ==
    /\ DvPowers \subseteq Int /\ DvWindows \subseteq DvWants
    /\ DvMost \in Nat /\ DvLess \in Nat /\ DvLeast \in Nat /\ DvMaxUpsets \in Nat /\ DvLess <= DvMost
    /\ DvBrands \subseteq Registers \cup Takers \cup {"zendure"} /\ 0 \in DvNets
BY DvAssumption DEF Registers, Takers, DvWants, DvNets

LEMMA DevsAre ==
    /\ AtRest \in DvDevs /\ Regular(AtRest) /\ AtRest.ctl = TRUE
    /\ Loose \in DvDevs /\ Regular(Loose) /\ Loose.ctl = FALSE /\ Loose.mode = 0 /\ Loose.ch = 0 /\ Loose.dis = 0
<1>1. AtRest = [ctl |-> TRUE, mode |-> 0, ch |-> 0, dis |-> 0] BY DEF AtRest
<1>2. 0 \in 0..DvMost BY DvNumbers
<1>3. AtRest \in DvDevs /\ Regular(AtRest) /\ AtRest.ctl = TRUE /\ AtRest.mode = 0 /\ AtRest.ch = 0 /\ AtRest.dis = 0
  BY <1>1, <1>2 DEF DvDevs, Regular
<1>4. Loose \in DvDevs BY <1>3 DEF Loose, DvDevs
<1>5. Loose.mode = AtRest.mode /\ Loose.ch = AtRest.ch /\ Loose.dis = AtRest.dis BY <1>3 DEF Loose, DvDevs
<1>6. Loose.ctl = FALSE BY <1>3 DEF Loose, DvDevs
<1> QED BY <1>3, <1>4, <1>5, <1>6 DEF Regular

LEMMA DvSpan == DvInv => SequenceStaysBetween /\ WindowContains
<1> SUFFICES ASSUME DvInv PROVE SequenceStaysBetween /\ WindowContains OBVIOUS
<1>1. SequenceStaysBetween
  <2> SUFFICES ASSUME dvCmd.begun, Powering, dvStale <= 1
               PROVE  Flow(dvDev) \in Min({dvFrom, dvCmd.net, 0})..Max({dvFrom, dvCmd.net, 0})
    BY DEF SequenceStaysBetween, Powering
  <2>1. dvFrom \in Int /\ dvCmd.net \in Int /\ dvDev \in DvDevs
    BY DvNumbers DEF DvInv, DvTyped, DvTypeOK, DvNets, DvDevs
  <2>2. Parts => Flows BY MinusIs, <2>1, DvNumbers DEF Parts, Flows, Flow, DvDevs
  <2>3. ~dvDev.ctl => Flows BY <2>1 DEF Flows, Flow
  <2>4. Flows BY <2>2, <2>3 DEF DvInv, DevKept, RegistersKept, TakersKept
  <2> QED BY <2>1, <2>4, SpanOf DEF Flows
<1>2. WindowContains BY DEF DvInv, WindowKept, WindowContains
<1> QED BY <1>1, <1>2

LEMMA DvStarts == DvInit => DvInv
<1> SUFFICES ASSUME DvInit PROVE DvInv OBVIOUS
<1> USE DvNumbers DEF DvInit
<1>1. dvDev \in DvDevs /\ Regular(dvDev) /\ (~dvDev.ctl => dvDev = Loose)
  BY DevsAre
<1>2. NoCmd.net = 0 /\ NoCmd.want \in DvWants /\ NoCmd.todo = <<>> /\ NoCmd.ok = TRUE /\ NoCmd.begun = FALSE /\ NoCmd.kind = "none"
      /\ NoCmd = [kind |-> NoCmd.kind, net |-> NoCmd.net, want |-> NoCmd.want, todo |-> NoCmd.todo, ok |-> NoCmd.ok, begun |-> NoCmd.begun]
  BY DEF NoCmd, DvWants
<1>3. DvTypeOK
  <2>1. dvKeep.at = "none" /\ dvCap = DvMost /\ dvFrom \in -DvMost..DvMost /\ dvStale \in 0..2 /\ dvLeft \in 0..DvMaxUpsets
    OBVIOUS
  <2> QED BY <1>1, <1>2, <2>1 DEF DvTypeOK, DvDevs, DvWants
<1>4. dvKeep \in [at: {"none", "sleep", "power"}, net: DvNets] OBVIOUS
<1>5. DvTyped BY <1>2, <1>3, <1>4 DEF DvTyped, Left
<1>6. OneWrites BY <1>2 DEF OneWrites
<1>7. CmdKept /\ DevKept BY <1>1, <1>2 DEF CmdKept, DevKept, RegistersKept, TakersKept, Powering
<1>8. WindowKept BY <1>2 DEF WindowKept, NoTold
<1> QED BY <1>5, <1>6, <1>7, <1>8 DEF DvInv

LEMMA PlusIs == ASSUME NEW n \in DvNets PROVE
    /\ n \in Int /\ -n \in Int
    /\ Max({n, 0}) = (IF n > 0 THEN n ELSE 0) /\ Max({-n, 0}) = (IF n < 0 THEN -n ELSE 0)
    /\ Max({n, 0}) \in 0..DvMost /\ Max({-n, 0}) \in 0..DvMost
<1>1. n \in Int /\ -n \in Int /\ 0 \in Int BY DvNumbers DEF DvNets
<1>2. Max({n, 0}) = (IF n >= 0 THEN n ELSE 0) /\ Max({-n, 0}) = (IF -n >= 0 THEN -n ELSE 0) BY <1>1, TwoMax
<1> QED BY <1>1, <1>2, DvNumbers DEF DvNets
LEMMA CutIs == ASSUME NEW n \in Int, NEW most \in Nat, most <= DvMost PROVE Cut(n, most) \in DvNets
<1>1. -most \in Int BY DvNumbers
<1>2. Max({n, -most}) = IF n >= -most THEN n ELSE -most BY <1>1, TwoMax
<1> DEFINE x == Max({n, -most})
<1>3. x \in Int /\ x = (IF n >= -most THEN n ELSE -most) BY <1>1, <1>2
<1> HIDE DEF x
<1>4. Min({x, most}) = IF x <= most THEN x ELSE most BY <1>3, TwoMin
<1>5. Cut(n, most) = Min({x, most}) BY DEF Cut, x
<1> QED BY <1>3, <1>4, <1>5, DvNumbers DEF DvNets
LEMMA WireIs == ASSUME NEW n \in Int, DvTypeOK PROVE Wire(n) \in DvNets
<1>1. dvCap \in Nat /\ dvCap <= DvMost BY DvNumbers DEF DvTypeOK
<1>2. Cut(n, IF dvBrand = "hoymiles" THEN dvCap ELSE DvMost) \in DvNets BY <1>1, CutIs, DvNumbers
<1> QED BY <1>2, DvNumbers DEF Wire
LEMMA WithinIs == ASSUME NEW lo \in Int, NEW hi \in Int, NEW n \in Int
    PROVE Within(lo, hi, n) = IF n <= hi THEN (IF n >= lo THEN n ELSE lo) ELSE (IF hi >= lo THEN hi ELSE lo)
<1>1. Min({hi, n}) = IF hi <= n THEN hi ELSE n BY TwoMin
<1>2. Min({hi, n}) \in Int BY <1>1
<1>3. Max({lo, Min({hi, n})}) = IF lo >= Min({hi, n}) THEN lo ELSE Min({hi, n}) BY <1>2, TwoMax
<1> QED BY <1>1, <1>3 DEF Within
(* A window the device is given contains the one asked for. *)
LEMMA WindowIs == ASSUME NEW w \in DvWants
    PROVE Window(w) \in DvWants /\ Window(w).top >= w.top /\ Window(w).floor <= w.floor
<1>1. w.top \in 0..10 /\ w.floor \in 0..10 BY DEF DvWants
<1>2. AnkerWindow(w) \in DvWants /\ AnkerWindow(w).top >= w.top /\ AnkerWindow(w).floor <= w.floor
  <2>1. Within(8, 10, w.top) \in 0..10 /\ Within(8, 10, w.top) >= w.top BY <1>1, WithinIs
  <2>2. Within(0, 2, w.floor) \in 0..10 /\ Within(0, 2, w.floor) <= w.floor BY <1>1, WithinIs
  <2> QED BY <2>1, <2>2 DEF AnkerWindow, DvWants
<1>3. ZendureWindow(w) \in DvWants /\ ZendureWindow(w).top >= w.top /\ ZendureWindow(w).floor <= w.floor
  <2>1. Within(7, 10, w.top) \in 0..10 /\ Within(7, 10, w.top) >= w.top BY <1>1, WithinIs
  <2>2. Within(0, 5, w.floor) \in 0..10 /\ Within(0, 5, w.floor) <= w.floor BY <1>1, WithinIs
  <2> QED BY <2>1, <2>2 DEF ZendureWindow, DvWants
<1>4. w.top >= w.top /\ w.floor <= w.floor BY <1>1
<1> QED BY <1>2, <1>3, <1>4 DEF Window
LEMMA OwnWindowIs == ASSUME NEW v \in DvWants, NEW w \in DvWants, NEW x
    PROVE /\ OwnWindow(v, x, w) \in DvWants
          /\ x = "top" => OwnWindow(v, x, w).top = Window(w).top /\ OwnWindow(v, x, w).floor = v.floor
          /\ x = "floor" => OwnWindow(v, x, w).floor = Window(w).floor /\ OwnWindow(v, x, w).top = v.top
          /\ x = "window" => OwnWindow(v, x, w) = Window(w)
          /\ x \notin {"top", "floor", "window"} => OwnWindow(v, x, w) = v
BY WindowIs DEF OwnWindow, DvWants

(* One write on the device *)
LEMMA DeviceIs ==
  ASSUME NEW d \in DvDevs, NEW n \in DvNets, NEW w
  PROVE  LET e == Device(d, w, n) IN
         /\ e \in DvDevs
         /\ w = "dis" => e = [ctl |-> d.ctl, mode |-> d.mode, ch |-> d.ch, dis |-> Max({-n, 0})]
         /\ w = "ch" => e = [ctl |-> d.ctl, mode |-> d.mode, ch |-> Max({n, 0}), dis |-> d.dis]
         /\ w = "mode" => e = [ctl |-> d.ctl, mode |-> Side(n), ch |-> d.ch, dis |-> d.dis]
         /\ w = "power" => e = IF d.ctl THEN [ctl |-> TRUE, mode |-> Side(n), ch |-> Max({n, 0}), dis |-> Max({-n, 0})] ELSE d
         /\ w = "take" => e = [ctl |-> TRUE, mode |-> d.mode, ch |-> d.ch, dis |-> d.dis]
         /\ w = "free" => e = Loose
         /\ w \notin {"dis", "ch", "mode", "power", "take", "free"} => e = d
<1>1. Max({n, 0}) \in 0..DvMost /\ Max({-n, 0}) \in 0..DvMost BY PlusIs
<1>2. Side(n) \in -1..1 BY DEF Side
<1> DEFINE p == Max({n, 0})
           m == Max({-n, 0})
<1>3. p \in 0..DvMost /\ m \in 0..DvMost BY <1>1
<1> HIDE DEF p, m
<1>4. CASE w = "dis"
  <2>1. Device(d, w, n) = [d EXCEPT !.dis = m] BY <1>4 DEF Device, m
  <2> QED BY <1>3, <1>4, <2>1 DEF DvDevs, m
<1>5. CASE w = "ch"
  <2>1. Device(d, w, n) = [d EXCEPT !.ch = p] BY <1>5 DEF Device, p
  <2> QED BY <1>3, <1>5, <2>1 DEF DvDevs, p
<1>6. CASE w = "mode" BY <1>2, <1>6 DEF Device, DvDevs
<1>7. CASE w = "power"
  <2>1. Device(d, w, n) = IF d.ctl THEN [d EXCEPT !.mode = Side(n), !.ch = p, !.dis = m] ELSE d BY <1>7 DEF Device, p, m
  <2> QED BY <1>2, <1>3, <1>7, <2>1 DEF DvDevs, p, m
<1>8. CASE w = "take" BY <1>8 DEF Device, DvDevs
<1>9. CASE w = "free" BY <1>9, DevsAre DEF Device
<1>10. CASE w \notin {"dis", "ch", "mode", "power", "take", "free"} BY <1>10 DEF Device
<1> QED BY <1>4, <1>5, <1>6, <1>7, <1>8, <1>9, <1>10
LEMMA EnterKept ==
  ASSUME DvInv, NEW kind \in DvKinds \ {"none"}, NEW net \in DvNets, NEW want \in DvWants, NEW todo \in Left(kind),
         Enter(kind, net, want, todo),
         kind = "rs485" => dvBrand \in Registers,
         kind \in {"set", "rest"} => todo # <<>> /\ (dvBrand \in Registers => todo = <<"dis", "ch", "mode">>),
         kind = "window" /\ WindowWrites # <<>> =>
            todo \notin {<<>>, <<"floor">>} /\ (todo = <<"top">> => dvWin.floor <= want.floor)
  PROVE  DvInv'
<1>1. /\ dvCmd' = [kind |-> kind, net |-> net, want |-> want, todo |-> todo, ok |-> TRUE, begun |-> FALSE]
      /\ dvTold' = NoTold
      /\ UNCHANGED <<dvBrand, dvUp, dvDev, dvWin, hoy, dvMissed, dvFrom, dvStale, dvTaken, dvLeft>>
      /\ dvCmd = NoCmd
  BY DEF Enter
<1>2. /\ dvCmd'.kind = kind /\ dvCmd'.net = net /\ dvCmd'.want = want /\ dvCmd'.todo = todo /\ dvCmd'.ok = TRUE
      /\ dvCmd'.begun = FALSE
  BY <1>1
<1> HIDE DEF NoCmd
<1>3. NoTold.kind = "none" /\ NoCmd.kind = "none" /\ NoCmd.begun = FALSE BY DEF NoTold, NoCmd
<1>4. Left(kind)' = Left(kind) BY <1>1 DEF Left
<1>5. (dvCmd.todo \in Left(dvCmd.kind))' BY <1>1, <1>2, <1>4 DEF Left
<1>6. dvCmd' = [kind |-> dvCmd'.kind, net |-> dvCmd'.net, want |-> dvCmd'.want, todo |-> dvCmd'.todo, ok |-> dvCmd'.ok,
                begun |-> dvCmd'.begun]
  BY <1>1, <1>2
<1>7. DvTypeOK' BY <1>1, <1>2 DEF DvInv, DvTyped, DvTypeOK, hoy, DvKinds
<1>8. DvTyped' BY <1>1, <1>2, <1>5, <1>6, <1>7 DEF DvInv, DvTyped, hoy, DvKinds
<1>9. OneWrites' BY <1>1, <1>2 DEF DvInv, OneWrites, hoy
<1>10. CmdKept' BY <1>1, <1>2 DEF CmdKept, Powering
<1>11. ~(dvCmd.begun /\ Powering) BY <1>1, <1>3
<1>12. DevKept'
  <2>1. CASE dvBrand \in Registers
    <3>1. dvStale = 0 => Regular(dvDev) BY <1>11, <2>1 DEF DvInv, DevKept, RegistersKept
    <3> QED BY <1>1, <1>2, <2>1, <3>1 DEF DevKept, RegistersKept, Regular
  <2>2. CASE dvBrand \notin Registers
    <3>1. Regular(dvDev) /\ (~dvDev.ctl => dvDev = Loose) BY <2>2 DEF DvInv, DevKept, TakersKept
    <3> QED BY <1>1, <1>2, <2>2, <3>1 DEF DevKept, TakersKept, Regular
  <2> QED BY <2>1, <2>2
<1>13. WindowWrites' = WindowWrites BY <1>1 DEF WindowWrites
<1>14. WindowKept'
  <2>1. dvTold'.kind # "window" BY <1>1, <1>3
  <2>2. kind = "window" /\ WindowWrites # <<>> => todo \notin {<<"floor">>, <<>>} OBVIOUS
  <2> QED BY <1>1, <1>2, <1>13, <2>1, <2>2 DEF WindowKept
<1> QED BY <1>8, <1>9, <1>10, <1>12, <1>14 DEF DvInv

LEMMA Enters == DvInv /\ (DvApply \/ DvStandby \/ DvConfig \/ DvCutoff \/ DvRs485) => DvInv'
<1> SUFFICES ASSUME DvInv, DvApply \/ DvStandby \/ DvConfig \/ DvCutoff \/ DvRs485 PROVE DvInv' OBVIOUS
<1> USE DvNumbers
<1>0. NoCmd.want \in DvWants BY DEF NoCmd, DvWants
<1>1. dvBrand \in Registers \cup Takers \cup {"zendure"} BY DEF DvInv, DvTyped, DvTypeOK
<1>2. \A kind \in {"set", "rest"} :
        /\ SetWrites(kind) \in Left(kind) \ {<<>>}
        /\ dvBrand \in Registers => SetWrites(kind) = <<"dis", "ch", "mode">>
  <2> TAKE kind \in {"set", "rest"}
  <2>1. CASE dvBrand \in Registers BY <2>1 DEF SetWrites, Left, RegisterWrites, Registers
  <2>2. CASE dvBrand = "zendure" BY <2>2 DEF SetWrites, Left, Registers
  <2>3. CASE dvBrand = "anker" BY <2>3 DEF SetWrites, Left, Registers, AnkerWrites
  <2>4. CASE dvBrand \in {"sessy", "hoymiles"} BY <2>4 DEF SetWrites, Left, Registers
  <2> QED BY <1>1, <2>1, <2>2, <2>3, <2>4 DEF Takers
<1>3. CASE DvApply
  <2>1. PICK net \in DvPowers : Enter("set", Wire(net), NoCmd.want, SetWrites("set")) BY <1>3 DEF DvApply
  <2>2. Wire(net) \in DvNets BY <2>1, WireIs DEF DvInv, DvTyped
  <2> QED BY <1>0, <1>2, <2>1, <2>2, EnterKept DEF DvKinds
<1>4. CASE DvStandby BY <1>0, <1>2, <1>4, EnterKept DEF DvKinds, DvStandby
<1>5. CASE DvConfig
  <2>1. PICK w \in DvWindows : Enter("window", 0, w, WindowWrites) BY <1>5 DEF DvConfig
  <2>2. WindowWrites \in Left("window") /\ WindowWrites \in {<<"top", "floor">>, <<"window">>, <<>>}
    BY DEF WindowWrites, Left
  <2>3. WindowWrites # <<>> => WindowWrites \notin {<<>>, <<"floor">>} /\ WindowWrites # <<"top">> BY <2>2
  <2> HIDE DEF WindowWrites
  <2> QED BY <2>1, <2>2, <2>3, EnterKept DEF DvKinds
<1>6. CASE DvCutoff
  <2>1. PICK w \in DvWindows : Enter("window", 0, [w EXCEPT !.floor = dvWin.floor], <<"top">>) BY <1>6 DEF DvCutoff
  <2>2. dvWin.floor \in 0..10 BY DEF DvInv, DvTyped, DvTypeOK
  <2>3. [w EXCEPT !.floor = dvWin.floor] \in DvWants /\ [w EXCEPT !.floor = dvWin.floor].floor = dvWin.floor
    BY <2>2 DEF DvWants
  <2>4. <<"top">> \in Left("window") /\ <<"top">> \notin {<<>>, <<"floor">>} BY DEF Left
  <2>5. dvWin.floor <= [w EXCEPT !.floor = dvWin.floor].floor BY <2>2, <2>3
  <2> QED BY <2>1, <2>3, <2>4, <2>5, EnterKept DEF DvKinds
<1>7. CASE DvRs485
  <2>1. PICK w \in {"take", "free"} : dvBrand \in Registers /\ Enter("rs485", 0, NoCmd.want, <<w>>) BY <1>7 DEF DvRs485
  <2>2. <<w>> \in Left("rs485") BY DEF Left
  <2> QED BY <1>0, <2>1, <2>2, EnterKept DEF DvKinds
<1> QED BY <1>3, <1>4, <1>5, <1>6, <1>7

LEMMA TailsAre ==
    /\ Head(<<"dis", "ch", "mode">>) = "dis" /\ Tail(<<"dis", "ch", "mode">>) = <<"ch", "mode">>
    /\ Head(<<"ch", "mode">>) = "ch" /\ Tail(<<"ch", "mode">>) = <<"mode">>
    /\ Head(<<"mode">>) = "mode" /\ Tail(<<"mode">>) = <<>>
    /\ Head(<<"take", "power">>) = "take" /\ Tail(<<"take", "power">>) = <<"power">>
    /\ Head(<<"power">>) = "power" /\ Tail(<<"power">>) = <<>>
    /\ Head(<<"top", "floor">>) = "top" /\ Tail(<<"top", "floor">>) = <<"floor">>
    /\ Head(<<"floor">>) = "floor" /\ Tail(<<"floor">>) = <<>>
    /\ Head(<<"top">>) = "top" /\ Tail(<<"top">>) = <<>>
    /\ Head(<<"window">>) = "window" /\ Tail(<<"window">>) = <<>>
    /\ Head(<<"take">>) = "take" /\ Tail(<<"take">>) = <<>>
    /\ Head(<<"free">>) = "free" /\ Tail(<<"free">>) = <<>>
OBVIOUS
LEMMA TuplesDiffer ==
    /\ <<"dis", "ch", "mode">> \notin {<<"ch", "mode">>, <<"mode">>, <<>>}
    /\ <<"ch", "mode">> \notin {<<"mode">>, <<>>} /\ <<"mode">> # <<>>
    /\ <<"top", "floor">> \notin {<<"floor">>, <<"top">>, <<"window">>, <<>>} /\ <<"floor">> \notin {<<"top">>, <<"window">>, <<>>}
    /\ <<"top">> \notin {<<"window">>, <<>>} /\ <<"window">> # <<>>
    /\ <<"take", "power">> \notin {<<"power">>, <<>>} /\ <<"power">> # <<>>
    /\ <<"take">> \notin {<<"free">>, <<>>} /\ <<"free">> # <<>>
OBVIOUS

(* What one write of a command changes *)
LEMMA WriteIs ==
  ASSUME DvInv, NEW out \in Outcomes, DvWrite(out)
  PROVE  LET w == Head(dvCmd.todo) IN
         /\ dvCmd.todo # <<>> /\ (dvCmd.begun \/ Unlocked)
         /\ dvCmd'.kind = dvCmd.kind /\ dvCmd'.net = dvCmd.net /\ dvCmd'.want = dvCmd.want /\ dvCmd'.begun = TRUE
         /\ dvCmd'.ok <=> dvCmd.ok /\ out = "done"
         /\ dvCmd'.todo = Tail(dvCmd.todo) \/ dvCmd'.todo = <<>>
         /\ dvCmd'.ok \/ dvCmd.kind = "window" => dvCmd'.todo = Tail(dvCmd.todo)
         /\ dvCmd' = [kind |-> dvCmd'.kind, net |-> dvCmd'.net, want |-> dvCmd'.want, todo |-> dvCmd'.todo,
                      ok |-> dvCmd'.ok, begun |-> dvCmd'.begun]
         /\ dvDev' = dvDev \/ dvDev' = Device(dvDev, w, dvCmd.net)
         /\ out = "done" /\ dvBrand \in Registers => dvDev' = Device(dvDev, w, dvCmd.net)
         /\ dvWin' = dvWin \/ dvWin' = OwnWindow(dvWin, w, dvCmd.want)
         /\ out = "done" => dvWin' = OwnWindow(dvWin, w, dvCmd.want)
         /\ dvFrom' = IF dvCmd.begun THEN dvFrom ELSE Flow(dvDev)
         /\ IF out = "done" THEN dvStale' = dvStale ELSE dvStale' > dvStale \/ dvStale' = 2
         /\ dvStale' \in 0..2 /\ dvLeft' \in 0..DvMaxUpsets
         /\ UNCHANGED <<dvBrand, dvUp, hoy, dvMissed, dvTaken, dvTold>>
<1> DEFINE w == Head(dvCmd.todo)
           done == out = "done"
<1>1. /\ dvCmd.todo # <<>> /\ (dvCmd.begun \/ Unlocked)
      /\ dvLeft' = IF done \/ ~OnTheWire THEN dvLeft ELSE dvLeft - 1
      /\ ~done => IF OnTheWire THEN dvLeft > 0 /\ ~Spared(w) ELSE out = "lost"
      /\ dvDev' = IF out = "lost" \/ Spared(w) THEN dvDev ELSE Device(dvDev, w, dvCmd.net)
      /\ dvWin' = IF out = "lost" THEN dvWin ELSE OwnWindow(dvWin, w, dvCmd.want)
      /\ dvCmd' = [dvCmd EXCEPT !.begun = TRUE, !.todo = After(w, done), !.ok = AllWritten(@, done)]
      /\ dvFrom' = IF dvCmd.begun THEN dvFrom ELSE Flow(dvDev)
      /\ dvStale' = IF done THEN dvStale ELSE Min({dvStale + 1, 2})
      /\ UNCHANGED <<dvBrand, dvUp, hoy, dvMissed, dvTaken, dvTold>>
  BY DEF DvWrite
<1>2. done \in BOOLEAN OBVIOUS
<1>3. dvCmd = [kind |-> dvCmd.kind, net |-> dvCmd.net, want |-> dvCmd.want, todo |-> dvCmd.todo, ok |-> dvCmd.ok,
                begun |-> dvCmd.begun] /\ dvCmd.ok \in BOOLEAN /\ dvStale \in 0..2 /\ dvLeft \in 0..DvMaxUpsets
  BY DEF DvInv, DvTyped, DvTypeOK
<1> DEFINE t == After(w, done)
           ok == AllWritten(dvCmd.ok, done)
<1>4. ok <=> dvCmd.ok /\ done BY DEF AllWritten
<1>5. (t = Tail(dvCmd.todo) \/ t = <<>>) /\ (done \/ dvCmd.kind = "window" => t = Tail(dvCmd.todo)) BY DEF After
<1>6. ok \in BOOLEAN BY DEF AllWritten
<1>7. dvCmd' = [dvCmd EXCEPT !.begun = TRUE, !.todo = t, !.ok = ok] BY <1>1
<1> HIDE DEF t, ok
<1>8. dvCmd' = [kind |-> dvCmd.kind, net |-> dvCmd.net, want |-> dvCmd.want, todo |-> t, ok |-> ok, begun |-> TRUE]
  BY <1>3, <1>7
<1>9. dvStale' \in 0..2 /\ IF done THEN dvStale' = dvStale ELSE dvStale' > dvStale \/ dvStale' = 2
  <2>1. Min({dvStale + 1, 2}) = IF dvStale + 1 <= 2 THEN dvStale + 1 ELSE 2 BY <1>3, TwoMin
  <2> QED BY <1>1, <1>3, <2>1
<1>10. dvLeft' \in 0..DvMaxUpsets
  <2>1. dvLeft' = dvLeft \/ (dvLeft > 0 /\ dvLeft' = dvLeft - 1) BY <1>1
  <2> QED BY <1>3, <2>1, DvNumbers
<1>11. /\ dvCmd'.kind = dvCmd.kind /\ dvCmd'.net = dvCmd.net /\ dvCmd'.want = dvCmd.want /\ dvCmd'.begun = TRUE
       /\ dvCmd'.todo = t /\ dvCmd'.ok = ok
  BY <1>8
<1>12. out = "done" /\ dvBrand \in Registers => dvDev' = Device(dvDev, w, dvCmd.net)
  BY <1>1 DEF Spared, Registers
<1>13. out = "done" => dvWin' = OwnWindow(dvWin, w, dvCmd.want) BY <1>1
<1>14. (dvDev' = dvDev \/ dvDev' = Device(dvDev, w, dvCmd.net)) /\ (dvWin' = dvWin \/ dvWin' = OwnWindow(dvWin, w, dvCmd.want))
  BY <1>1
<1>15. dvCmd'.ok <=> dvCmd.ok /\ out = "done" BY <1>4, <1>11
<1>16. /\ dvCmd'.todo = Tail(dvCmd.todo) \/ dvCmd'.todo = <<>>
       /\ dvCmd'.ok \/ dvCmd.kind = "window" => dvCmd'.todo = Tail(dvCmd.todo)
  BY <1>5, <1>11, <1>15
<1>17. dvCmd' = [kind |-> dvCmd'.kind, net |-> dvCmd'.net, want |-> dvCmd'.want, todo |-> dvCmd'.todo,
                      ok |-> dvCmd'.ok, begun |-> dvCmd'.begun]
  BY <1>8, <1>11
<1> QED BY <1>1, <1>9, <1>10, <1>11, <1>12, <1>13, <1>14, <1>15, <1>16, <1>17

LEMMA LeftIs ==
  ASSUME DvInv, dvCmd.todo # <<>>
  PROVE  LET w == Head(dvCmd.todo) IN
         /\ Tail(dvCmd.todo) \in Left(dvCmd.kind) /\ <<>> \in Left(dvCmd.kind)
         /\ dvCmd.kind = "window" => w \in {"top", "floor", "window"}
         /\ dvCmd.kind = "rs485" => w \in {"take", "free"}
         /\ Powering /\ dvBrand \in Registers =>
             \/ dvCmd.todo = <<"dis", "ch", "mode">> /\ w = "dis" /\ Tail(dvCmd.todo) = <<"ch", "mode">>
             \/ dvCmd.todo = <<"ch", "mode">> /\ w = "ch" /\ Tail(dvCmd.todo) = <<"mode">>
             \/ dvCmd.todo = <<"mode">> /\ w = "mode" /\ Tail(dvCmd.todo) = <<>>
         /\ Powering /\ dvBrand \notin Registers => w \in {"take", "power"}
         /\ dvCmd.kind # "none"
<1>1. dvCmd.todo \in Left(dvCmd.kind) /\ dvCmd.kind \in DvKinds /\ (dvCmd.kind = "none" => dvCmd = NoCmd)
  BY DEF DvInv, DvTyped, DvTypeOK, DvKinds
<1>2. CASE dvCmd.kind = "window" BY <1>1, <1>2, TailsAre DEF Left, Powering
<1>3. CASE dvCmd.kind = "rs485" BY <1>1, <1>3, TailsAre DEF Left, Powering
<1>4. CASE dvCmd.kind = "none" BY <1>1, <1>4 DEF NoCmd
<1>5. CASE Powering /\ dvBrand \in Registers BY <1>5, <1>1, TailsAre DEF Left, Powering
<1>6. CASE Powering /\ dvBrand \notin Registers BY <1>6, <1>1, TailsAre DEF Left, Powering
<1> QED BY <1>1, <1>2, <1>3, <1>4, <1>5, <1>6 DEF DvKinds, Powering

(* What flowed before the first write, and the powers then, when nothing is amiss *)
LEMMA RegularParts ==
  ASSUME dvDev \in DvDevs, Regular(dvDev), dvDev.ctl \/ dvDev = Loose
  PROVE  dvDev.ch \in {0, Flow(dvDev)} /\ 0 - dvDev.dis \in {0, Flow(dvDev)}
<1>1. CASE dvDev = Loose
  <2>1. dvDev.ch = 0 /\ dvDev.dis = 0 BY <1>1, DevsAre
  <2>2. 0 - dvDev.dis = 0 BY <2>1
  <2> QED BY <2>1, <2>2
<1>2. CASE dvDev.ctl BY MinusIs, <1>2, DvNumbers DEF Regular, Flow, DvDevs
<1> QED BY <1>1, <1>2

LEMMA WriteTyped == ASSUME DvInv, NEW out \in Outcomes, DvWrite(out) PROVE DvTyped' /\ OneWrites' /\ CmdKept'
<1>1. dvCmd'.todo \in Left(dvCmd.kind) BY WriteIs, LeftIs
<1>2. dvCmd'.kind = dvCmd.kind /\ dvBrand' = dvBrand BY WriteIs
<1>3. (dvCmd.todo \in Left(dvCmd.kind))' BY <1>1, <1>2 DEF Left
<1>4. dvDev \in DvDevs /\ dvCmd.net \in DvNets /\ dvWin \in DvWants /\ dvCmd.want \in DvWants
  BY DEF DvInv, DvTyped, DvTypeOK, DvDevs, DvWants
<1>5. dvDev' \in DvDevs BY <1>4, WriteIs, DeviceIs
<1>6. dvWin' \in DvWants BY <1>4, WriteIs, OwnWindowIs
<1>7. dvFrom' \in DvNets
  <2>1. Flow(dvDev) \in DvNets BY <1>4, DvNumbers DEF Flow, DvDevs, DvNets
  <2> QED BY <2>1, WriteIs DEF DvInv, DvTyped, DvTypeOK, DvNets
<1>8. UNCHANGED <<dvBrand, dvUp, hoy, dvMissed, dvTaken, dvTold>> /\ dvStale' \in 0..2 /\ dvLeft' \in 0..DvMaxUpsets
  BY WriteIs
<1>9. DvTypeOK' BY <1>2, <1>5, <1>6, <1>7, <1>8 DEF DvInv, DvTyped, DvTypeOK, DvDevs, DvWants, DvNets, hoy
<1>10. /\ dvCmd'.net = dvCmd.net /\ dvCmd'.want = dvCmd.want /\ dvCmd'.ok \in BOOLEAN /\ dvCmd'.begun = TRUE
  <2>1. dvCmd'.net = dvCmd.net /\ dvCmd'.want = dvCmd.want /\ dvCmd'.begun = TRUE BY WriteIs
  <2>2. dvCmd' = [kind |-> dvCmd.kind, net |-> dvCmd.net, want |-> dvCmd.want, todo |-> After(Head(dvCmd.todo), out = "done"),
                  ok |-> AllWritten(dvCmd.ok, out = "done"), begun |-> TRUE]
    BY DEF DvWrite, DvInv, DvTyped
  <2>3. AllWritten(dvCmd.ok, out = "done") \in BOOLEAN BY DEF AllWritten
  <2> QED BY <2>1, <2>2, <2>3
<1>11. dvCmd' = [kind |-> dvCmd'.kind, net |-> dvCmd'.net, want |-> dvCmd'.want, todo |-> dvCmd'.todo,
                      ok |-> dvCmd'.ok, begun |-> dvCmd'.begun]
  BY WriteIs
<1>12. dvCmd.kind # "none" BY WriteIs, LeftIs
<1>13. DvTyped' BY <1>2, <1>3, <1>4, <1>8, <1>9, <1>10, <1>11, <1>12 DEF DvInv, DvTyped, hoy
<1>14. OneWrites'
  <2>1. dvCmd.begun \/ Unlocked BY WriteIs
  <2>2. dvKeep' = dvKeep /\ dvShut' = dvShut /\ dvBrand' = dvBrand BY <1>8 DEF hoy
  <2>3. dvKeep.at # "power" /\ dvShut \notin {"power", "general"}
    BY <2>1 DEF Unlocked, KeepHolds, ShutHolds, DvInv, OneWrites
  <2> QED BY <2>2, <2>3 DEF OneWrites, DvInv
<1>15. CmdKept'
  <2>1. (dvCmd'.ok <=> dvCmd.ok /\ out = "done") /\ dvStale \in 0..2
       /\ IF out = "done" THEN dvStale' = dvStale ELSE dvStale' > dvStale \/ dvStale' = 2
    BY WriteIs DEF DvInv, DvTyped, DvTypeOK
  <2>2. ~dvCmd'.ok => dvStale' > 0 BY <2>1, <1>8 DEF DvInv, CmdKept
  <2> QED BY <1>10, <2>2 DEF CmdKept, Powering
<1> QED BY <1>13, <1>14, <1>15

LEMMA WriteWindow == ASSUME DvInv, NEW out \in Outcomes, DvWrite(out) PROVE WindowKept'
<1>1. /\ dvCmd.todo # <<>> /\ dvCmd'.kind = dvCmd.kind /\ dvCmd'.want = dvCmd.want /\ dvCmd'.begun = TRUE
      /\ dvCmd'.ok <=> dvCmd.ok /\ out = "done"
      /\ dvCmd'.ok \/ dvCmd.kind = "window" => dvCmd'.todo = Tail(dvCmd.todo)
      /\ out = "done" => dvWin' = OwnWindow(dvWin, Head(dvCmd.todo), dvCmd.want)
      /\ dvBrand' = dvBrand
  BY WriteIs
<1>2. dvCmd' # NoCmd BY <1>1 DEF NoCmd
<1>3. WindowWrites' = WindowWrites BY <1>1 DEF WindowWrites
<1> SUFFICES ASSUME dvCmd.kind = "window", dvCmd.ok, out = "done", WindowWrites # <<>>
             PROVE  /\ dvCmd'.todo \in {<<"floor">>, <<>>} => dvWin'.top >= dvCmd.want.top
                    /\ dvCmd'.todo \in {<<"top">>, <<>>} => dvWin'.floor <= dvCmd.want.floor
  BY <1>1, <1>2, <1>3 DEF WindowKept
<1>4. dvWin \in DvWants /\ dvCmd.want \in DvWants /\ dvCmd.todo \in {<<"top", "floor">>, <<"floor">>, <<"top">>, <<"window">>}
  BY <1>1 DEF DvInv, DvTyped, DvTypeOK, DvWants, Left
<1>5. Window(dvCmd.want).top >= dvCmd.want.top /\ Window(dvCmd.want).floor <= dvCmd.want.floor BY <1>4, WindowIs
<1> HIDE DEF Window, WindowWrites, NoCmd
<1>6. CASE dvCmd.todo = <<"top", "floor">>
  <2>1. Head(dvCmd.todo) = "top" /\ dvCmd'.todo = <<"floor">> BY <1>1, <1>6, TailsAre
  <2> QED BY <1>1, <1>4, <1>5, <2>1, OwnWindowIs, TuplesDiffer
<1>7. CASE dvCmd.todo = <<"floor">>
  <2>1. Head(dvCmd.todo) = "floor" /\ dvCmd'.todo = <<>> BY <1>1, <1>7, TailsAre
  <2>2. dvWin.top >= dvCmd.want.top BY <1>7 DEF DvInv, WindowKept
  <2> QED BY <1>1, <1>4, <1>5, <2>1, <2>2, OwnWindowIs, TuplesDiffer
<1>8. CASE dvCmd.todo = <<"top">>
  <2>1. Head(dvCmd.todo) = "top" /\ dvCmd'.todo = <<>> BY <1>1, <1>8, TailsAre
  <2>2. dvWin.floor <= dvCmd.want.floor BY <1>8 DEF DvInv, WindowKept
  <2> QED BY <1>1, <1>4, <1>5, <2>1, <2>2, OwnWindowIs, TuplesDiffer
<1>9. CASE dvCmd.todo = <<"window">>
  <2>1. Head(dvCmd.todo) = "window" BY <1>9, TailsAre
  <2> QED BY <1>1, <1>4, <1>5, <2>1, OwnWindowIs
<1> QED BY <1>4, <1>6, <1>7, <1>8, <1>9

LEMMA WriteTakers ==
  ASSUME DvInv, NEW out \in Outcomes, DvWrite(out), dvBrand \notin Registers
  PROVE  DevKept'
<1> DEFINE w == Head(dvCmd.todo)
<1>1. /\ dvCmd'.kind = dvCmd.kind /\ dvCmd'.net = dvCmd.net /\ dvBrand' = dvBrand
      /\ dvDev' = dvDev \/ dvDev' = Device(dvDev, w, dvCmd.net)
      /\ dvFrom' = IF dvCmd.begun THEN dvFrom ELSE Flow(dvDev)
      /\ dvCmd.todo # <<>>
  BY WriteIs
<1>2. dvDev \in DvDevs /\ dvCmd.net \in DvNets /\ dvDev.ctl \in BOOLEAN /\ dvCmd.begun \in BOOLEAN
  BY DEF DvInv, DvTyped, DvTypeOK, DvDevs
<1>3. Regular(dvDev) /\ (~dvDev.ctl => dvDev = Loose) /\ (dvCmd.begun /\ Powering => Parts)
  BY DEF DvInv, DevKept, TakersKept
<1>4. /\ dvCmd.kind = "window" => w \in {"top", "floor", "window"}
      /\ Powering => w \in {"take", "power"}
      /\ dvCmd.kind # "none" /\ dvCmd.kind # "rs485" /\ dvCmd.kind \in DvKinds
  BY <1>1, LeftIs DEF DvInv, DvTyped, DvTypeOK, DvKinds
<1> HIDE DEF w
<1>5. CASE dvDev' = dvDev /\ ~Powering
  BY <1>1, <1>3, <1>5 DEF DevKept, TakersKept, Regular, Powering
<1>6. Powering => dvDev.ch \in {0, dvFrom', dvCmd.net} /\ 0 - dvDev.dis \in {0, dvFrom', dvCmd.net}
  <2> SUFFICES ASSUME Powering PROVE dvDev.ch \in {0, dvFrom', dvCmd.net} /\ 0 - dvDev.dis \in {0, dvFrom', dvCmd.net}
    OBVIOUS
  <2>1. CASE dvCmd.begun BY <1>1, <1>3, <2>1 DEF Parts
  <2>2. CASE ~dvCmd.begun BY <1>1, <1>2, <1>3, <2>2, RegularParts
  <2> QED BY <1>2, <2>1, <2>2
<1>7. CASE dvDev' = dvDev /\ Powering
  BY <1>1, <1>3, <1>6, <1>7 DEF DevKept, TakersKept, Regular, Powering, Parts
<1>8. CASE dvDev' = Device(dvDev, w, dvCmd.net) /\ ~Powering
  <2>1. dvCmd.kind = "window" BY <1>4, <1>8 DEF Powering, DvKinds
  <2>2. dvDev' = dvDev BY <1>2, <1>4, <1>8, <2>1, DeviceIs
  <2> QED BY <2>2, <1>5, <1>8
<1>9. CASE dvDev' = Device(dvDev, w, dvCmd.net) /\ Powering
  <2>1. CASE w = "take"
    <3>1. dvDev' = [ctl |-> TRUE, mode |-> dvDev.mode, ch |-> dvDev.ch, dis |-> dvDev.dis] BY ZenonT(40), <1>2, <1>9, <2>1, DeviceIs
    <3>2. dvDev'.ctl = TRUE /\ dvDev'.mode = dvDev.mode /\ dvDev'.ch = dvDev.ch /\ dvDev'.dis = dvDev.dis BY <3>1
    <3>3. Regular(dvDev') BY <1>3, <3>2 DEF Regular
    <3>4. Parts' BY <1>1, <1>6, <1>9, <3>2 DEF Parts
    <3> QED BY <1>1, <3>2, <3>3, <3>4 DEF DevKept, TakersKept, Regular
  <2>2. CASE w = "power" /\ dvDev.ctl
    <3>1. dvDev' = [ctl |-> TRUE, mode |-> Side(dvCmd.net), ch |-> Max({dvCmd.net, 0}), dis |-> Max({-dvCmd.net, 0})]
      BY <1>2, <1>9, <2>2, DeviceIs
    <3>2. dvDev'.ctl = TRUE /\ dvDev'.mode = Side(dvCmd.net) /\ dvDev'.ch = Max({dvCmd.net, 0}) /\ dvDev'.dis = Max({-dvCmd.net, 0})
      BY <3>1
    <3>3. dvCmd.net \in Int /\ dvDev'.ch = (IF dvCmd.net > 0 THEN dvCmd.net ELSE 0) /\ dvDev'.dis = (IF dvCmd.net < 0 THEN -dvCmd.net ELSE 0)
      BY <1>2, <3>2, PlusIs
    <3>4. Regular(dvDev') BY <3>2, <3>3 DEF Regular, Side
    <3>5. dvDev'.ch \in {0, dvCmd.net} /\ 0 - dvDev'.dis \in {0, dvCmd.net}
      <4>1. CASE dvCmd.net < 0
        <5>1. dvDev'.ch = 0 /\ 0 - dvDev'.dis = dvCmd.net BY <3>3, <4>1
        <5> QED BY <5>1
      <4>2. CASE ~(dvCmd.net < 0)
        <5>1. dvDev'.ch = dvCmd.net /\ dvDev'.dis = 0 BY <3>3, <4>2
        <5>2. 0 - dvDev'.dis = 0 BY <5>1
        <5> QED BY <5>1, <5>2
      <4> QED BY <4>1, <4>2
    <3>6. Parts' BY <1>1, <3>5 DEF Parts
    <3> QED BY <1>1, <3>2, <3>4, <3>6 DEF DevKept, TakersKept, Regular
  <2>3. CASE w = "power" /\ ~dvDev.ctl
    <3>1. dvDev' = dvDev BY <1>2, <1>9, <2>3, DeviceIs
    <3> QED BY <3>1, <1>7, <1>9
  <2> QED BY <1>2, <1>4, <1>9, <2>1, <2>2, <2>3
<1> QED BY <1>1, <1>5, <1>7, <1>8, <1>9

LEMMA WriteRegisters ==
  ASSUME DvInv, NEW out \in Outcomes, DvWrite(out), dvBrand \in Registers
  PROVE  DevKept'
<1> DEFINE w == Head(dvCmd.todo)
           P == Max({dvCmd.net, 0})
           M == Max({-dvCmd.net, 0})
<1>1. /\ dvCmd'.kind = dvCmd.kind /\ dvCmd'.net = dvCmd.net /\ dvBrand' = dvBrand /\ dvCmd'.begun = TRUE
      /\ dvCmd'.ok <=> dvCmd.ok /\ out = "done"
      /\ dvCmd'.ok => dvCmd'.todo = Tail(dvCmd.todo)
      /\ dvDev' = dvDev \/ dvDev' = Device(dvDev, w, dvCmd.net)
      /\ out = "done" => dvDev' = Device(dvDev, w, dvCmd.net)
      /\ dvFrom' = IF dvCmd.begun THEN dvFrom ELSE Flow(dvDev)
      /\ IF out = "done" THEN dvStale' = dvStale ELSE dvStale' > dvStale \/ dvStale' = 2
      /\ dvCmd.todo # <<>>
  BY WriteIs
<1>2. dvDev \in DvDevs /\ dvCmd.net \in DvNets /\ dvDev.ctl \in BOOLEAN /\ dvCmd.begun \in BOOLEAN /\ dvCmd.ok \in BOOLEAN
      /\ dvStale \in 0..2
  BY DEF DvInv, DvTyped, DvTypeOK, DvDevs
<1>3. /\ dvStale = 0 /\ ~(dvCmd.begun /\ Powering) => Regular(dvDev)
      /\ dvCmd.begun /\ Powering /\ dvCmd.ok => Progress
      /\ dvCmd.begun /\ Powering /\ dvStale <= 1 => ~dvDev.ctl \/ Parts \/ (dvStale = 1 /\ dvCmd.ok /\ Flows)
      /\ Powering /\ ~dvCmd.begun => dvCmd.todo = <<"dis", "ch", "mode">>
      /\ ~dvCmd.begun => dvCmd.ok
  BY DEF DvInv, DevKept, RegistersKept, CmdKept
<1>7. dvStale' >= dvStale /\ (dvStale' <= 1 => dvStale <= 1) /\ (dvStale = 1 /\ dvStale' <= 1 => out = "done" /\ dvStale' = 1)
  <2>1. dvStale' \in 0..2 /\ IF out = "done" THEN dvStale' = dvStale ELSE dvStale' > dvStale \/ dvStale' = 2 BY WriteIs
  <2> QED BY <1>2, <2>1
<1>4. Powering' <=> Powering BY <1>1 DEF Powering
<1>5. CASE ~Powering
  <2>1. w \in {"top", "floor", "window", "take", "free"} BY <1>1, <1>5, LeftIs DEF DvInv, DvTyped, DvTypeOK, Powering
  <2> HIDE DEF w
  <2>2. ASSUME dvStale' = 0 PROVE Regular(dvDev')
    <3>1. dvStale = 0 BY <1>1, <1>2, <2>2
    <3>2. Regular(dvDev) BY <1>3, <1>5, <3>1
    <3>3. CASE dvDev' = dvDev BY <3>2, <3>3 DEF Regular
    <3>4. CASE dvDev' = Device(dvDev, w, dvCmd.net)
      <4>1. CASE w = "take"
        <5>1. dvDev' = [ctl |-> TRUE, mode |-> dvDev.mode, ch |-> dvDev.ch, dis |-> dvDev.dis]
          BY <1>2, <3>4, <4>1, DeviceIs
        <5> QED BY <3>2, <5>1 DEF Regular
      <4>2. CASE w = "free"
        <5>1. dvDev' = Loose BY <1>2, <3>4, <4>2, DeviceIs
        <5> QED BY <5>1, DevsAre DEF Regular
      <4>3. CASE w \in {"top", "floor", "window"}
        <5>1. dvDev' = dvDev BY <1>2, <3>4, <4>3, DeviceIs
        <5> QED BY <3>3, <5>1
      <4> QED BY <2>1, <4>1, <4>2, <4>3
    <3> QED BY <1>1, <3>3, <3>4
  <2> QED BY <1>1, <1>4, <1>5, <2>2 DEF DevKept, RegistersKept
<1>6. CASE Powering
  <2>1. \/ dvCmd.todo = <<"dis", "ch", "mode">> /\ w = "dis" /\ Tail(dvCmd.todo) = <<"ch", "mode">>
        \/ dvCmd.todo = <<"ch", "mode">> /\ w = "ch" /\ Tail(dvCmd.todo) = <<"mode">>
        \/ dvCmd.todo = <<"mode">> /\ w = "mode" /\ Tail(dvCmd.todo) = <<>>
    BY <1>1, <1>6, LeftIs
  <2>2. /\ dvCmd.net \in Int /\ P = (IF dvCmd.net > 0 THEN dvCmd.net ELSE 0) /\ M = (IF dvCmd.net < 0 THEN -dvCmd.net ELSE 0)
        /\ P \in 0..DvMost /\ M \in 0..DvMost
    BY <1>2, PlusIs
  <2>3. /\ w = "dis" => Device(dvDev, w, dvCmd.net) = [ctl |-> dvDev.ctl, mode |-> dvDev.mode, ch |-> dvDev.ch, dis |-> M]
        /\ w = "ch" => Device(dvDev, w, dvCmd.net) = [ctl |-> dvDev.ctl, mode |-> dvDev.mode, ch |-> P, dis |-> dvDev.dis]
        /\ w = "mode" => Device(dvDev, w, dvCmd.net) = [ctl |-> dvDev.ctl, mode |-> Side(dvCmd.net), ch |-> dvDev.ch, dis |-> dvDev.dis]
    BY <1>2, DeviceIs
  <2> HIDE DEF w, P, M
  <2>4. dvDev.ch \in Int /\ dvDev.dis \in Int BY <1>2, DvNumbers DEF DvDevs
  <2>5. /\ dvDev'.ctl = dvDev.ctl
        /\ dvDev'.ch = dvDev.ch \/ dvDev'.ch = P
        /\ dvDev'.dis = dvDev.dis \/ dvDev'.dis = M
        /\ w = "dis" => dvDev'.mode = dvDev.mode /\ dvDev'.ch = dvDev.ch /\ (out = "done" => dvDev'.dis = M)
        /\ w = "ch" => dvDev'.mode = dvDev.mode /\ dvDev'.dis = dvDev.dis /\ (out = "done" => dvDev'.ch = P)
        /\ w = "mode" => dvDev'.ch = dvDev.ch /\ dvDev'.dis = dvDev.dis /\ (out = "done" => dvDev'.mode = Side(dvCmd.net))
    BY <1>1, <2>1, <2>3
  <2>6. P \in {0, dvCmd.net} /\ 0 - M \in {0, dvCmd.net}
    <3>1. CASE dvCmd.net < 0
      <4>1. P = 0 /\ 0 - M = dvCmd.net BY <2>2, <3>1
      <4> QED BY <4>1
    <3>2. CASE ~(dvCmd.net < 0)
      <4>1. P = dvCmd.net /\ 0 - M = 0 BY <2>2, <3>2
      <4> QED BY <4>1
    <3> QED BY <3>1, <3>2
  <2> DEFINE three == {0, dvFrom', dvCmd.net}
             OldParts == dvDev.ch \in three /\ 0 - dvDev.dis \in three
  <2>7. /\ dvStale = 0 => ~dvDev.ctl \/ OldParts
        /\ dvStale = 1 => ~dvDev.ctl \/ OldParts \/ (dvCmd.ok /\ Flow(dvDev) \in three)
    <3>1. CASE dvCmd.begun
      <4>1. dvFrom' = dvFrom BY <1>1, <3>1
      <4> QED BY <1>3, <1>6, <3>1, <4>1 DEF Parts, Flows
    <3>2. CASE ~dvCmd.begun
      <4>1. dvFrom' = Flow(dvDev) /\ dvCmd.ok BY <1>1, <1>3, <3>2
      <4>2. dvStale = 0 => ~dvDev.ctl \/ OldParts BY <1>2, <1>3, <3>2, <4>1, RegularParts
      <4> QED BY <4>1, <4>2
    <3> QED BY <1>2, <3>1, <3>2
  <2>8. OldParts => Parts' BY <1>1, <2>5, <2>6 DEF Parts
  <2> HIDE DEF OldParts
  <2>9. dvCmd'.ok => Progress'
    <3> SUFFICES ASSUME dvCmd'.ok PROVE Progress' OBVIOUS
    <3>1. dvCmd.ok /\ out = "done" /\ dvCmd'.todo = Tail(dvCmd.todo) BY <1>1
    <3>2. dvCmd.begun => Progress BY <1>3, <1>6, <3>1
    <3>3. Max({dvCmd.net, 0})' = P /\ Max({-dvCmd.net, 0})' = M BY <1>1 DEF P, M
    <3>4. CASE w = "dis"
      <4>1. dvCmd'.todo = <<"ch", "mode">> /\ dvDev'.dis = M BY <2>1, <2>5, <3>1, <3>4
      <4> QED BY <3>3, <4>1, TuplesDiffer DEF Progress
    <3>5. CASE w = "ch"
      <4>1. dvCmd.todo = <<"ch", "mode">> /\ dvCmd'.todo = <<"mode">> /\ dvDev'.ch = P /\ dvDev'.dis = dvDev.dis
        BY <2>1, <2>5, <3>1, <3>5
      <4>2. dvCmd.begun BY <1>2, <1>3, <1>6, <4>1, TuplesDiffer
      <4>3. dvDev.dis \in {0, M} BY <3>2, <4>1, <4>2 DEF Progress, M
      <4> QED BY <3>3, <4>1, <4>3, TuplesDiffer DEF Progress
    <3>6. CASE w = "mode"
      <4>1. dvCmd.todo = <<"mode">> /\ dvCmd'.todo = <<>> /\ dvDev'.ch = dvDev.ch /\ dvDev'.dis = dvDev.dis
            /\ dvDev'.mode = Side(dvCmd.net)
        BY <2>1, <2>5, <3>1, <3>6
      <4>2. dvCmd.begun BY <1>2, <1>3, <1>6, <4>1, TuplesDiffer
      <4>3. dvDev.dis \in {0, M} /\ dvDev.ch \in {0, P} BY <3>2, <4>1, <4>2 DEF Progress, M, P
      <4>4. Regular(dvDev') BY <2>2, <4>1, <4>3 DEF Regular, Side
      <4> QED BY <3>3, <4>1, <4>3, <4>4, TuplesDiffer DEF Progress, Regular
    <3> QED BY <2>1, <3>4, <3>5, <3>6
  <2>10. ASSUME dvStale = 1, dvStale' <= 1, dvCmd.ok, Flow(dvDev) \in three, dvDev.ctl
         PROVE  dvStale' = 1 /\ dvCmd'.ok /\ Flow(dvDev') \in three
    <3>1. out = "done" /\ dvStale' = 1 BY <1>7, <2>10
    <3>2. CASE dvDev'.mode \notin {1, -1} BY <1>1, <3>1, <3>2, <2>10 DEF Flow
    <3>3. -dvDev'.dis = 0 - dvDev'.dis /\ -dvDev.dis = 0 - dvDev.dis
      <4>1. dvDev'.dis \in Int BY <2>2, <2>4, <2>5
      <4> QED BY <2>4, <4>1, MinusIs
    <3>4. CASE dvDev'.mode = 1
      <4>1. Flow(dvDev') = dvDev'.ch BY <2>5, <2>10, <3>4 DEF Flow
      <4>2. CASE w = "dis"
        <5>1. dvDev'.ch = Flow(dvDev) BY <2>5, <2>10, <3>4, <4>2 DEF Flow
        <5> QED BY <1>1, <2>10, <3>1, <4>1, <5>1
      <4>3. CASE w = "ch" BY <1>1, <2>5, <2>6, <2>10, <3>1, <4>1, <4>3
      <4>4. CASE w = "mode"
        <5>1. dvCmd.todo = <<"mode">> /\ dvDev'.ch = dvDev.ch BY <2>1, <2>5, <4>4
        <5>2. dvCmd.begun BY <1>2, <1>3, <1>6, <5>1, TuplesDiffer
        <5>3. dvDev.ch \in {0, P} BY <1>3, <1>6, <2>10, <5>1, <5>2 DEF Progress, P
        <5> QED BY <1>1, <2>6, <2>10, <3>1, <4>1, <5>1, <5>3
      <4> QED BY <2>1, <4>2, <4>3, <4>4
    <3>5. CASE dvDev'.mode = -1
      <4>1. Flow(dvDev') = 0 - dvDev'.dis BY <2>5, <2>10, <3>3, <3>5 DEF Flow
      <4>2. CASE w = "ch"
        <5>1. 0 - dvDev'.dis = Flow(dvDev) BY <2>5, <2>10, <3>3, <3>5, <4>2 DEF Flow
        <5> QED BY <1>1, <2>10, <3>1, <4>1, <5>1
      <4>3. CASE w = "dis" BY <1>1, <2>5, <2>6, <2>10, <3>1, <4>1, <4>3
      <4>4. CASE w = "mode"
        <5>1. dvCmd.todo = <<"mode">> /\ dvDev'.dis = dvDev.dis BY <2>1, <2>5, <4>4
        <5>2. dvCmd.begun BY <1>2, <1>3, <1>6, <5>1, TuplesDiffer
        <5>3. dvDev.dis \in {0, M} BY <1>3, <1>6, <2>10, <5>1, <5>2 DEF Progress, M
        <5>4. 0 - dvDev'.dis \in {0, dvCmd.net} BY <2>6, <5>1, <5>3
        <5> QED BY <1>1, <2>10, <3>1, <4>1, <5>4
      <4> QED BY <2>1, <4>2, <4>3, <4>4
    <3> QED BY <3>2, <3>4, <3>5
  <2>11. dvStale' <= 1 => ~dvDev'.ctl \/ Parts' \/ (dvStale' = 1 /\ dvCmd'.ok /\ Flows')
    <3> SUFFICES ASSUME dvStale' <= 1, dvDev.ctl, ~Parts' PROVE dvStale' = 1 /\ dvCmd'.ok /\ Flows' BY <2>5
    <3>1. dvStale # 0 /\ dvStale <= 1 BY <1>7, <2>5, <2>7, <2>8
    <3>2. dvStale = 1 BY <1>2, <3>1
    <3>3. dvCmd.ok /\ Flow(dvDev) \in three BY <2>7, <2>8, <3>2
    <3>4. dvStale' = 1 /\ dvCmd'.ok /\ Flow(dvDev') \in three BY <2>10, <3>2, <3>3
    <3> QED BY <1>1, <3>4 DEF Flows
  <2> QED BY <1>1, <1>4, <1>6, <2>9, <2>11 DEF DevKept, RegistersKept
<1> QED BY <1>5, <1>6

LEMMA Writes == DvInv /\ (\E out \in Outcomes : DvWrite(out)) => DvInv'
BY WriteTyped, WriteWindow, WriteTakers, WriteRegisters DEF DvInv

(* What happens around a command that is being written *)
LEMMA Around ==
  ASSUME DvInv, UNCHANGED <<dvBrand, dvWin, dvCmd, dvTold, dvFrom>>,
         DvTypeOK', dvKeep' \in [at: {"none", "sleep", "power"}, net: DvNets], OneWrites',
         \/ dvDev' = dvDev /\ dvStale' = dvStale
         \/ dvDev' = Loose /\ dvStale' >= dvStale
         \/ dvBrand = "hoymiles" /\ ~dvCmd.begun /\ dvStale' = dvStale /\ Regular(dvDev') /\ (~dvDev'.ctl => dvDev' = Loose)
  PROVE  DvInv'
<1>1. DvTyped' BY DEF DvInv, DvTyped, Left
<1>2. dvStale \in 0..2 /\ dvStale' \in 0..2 /\ dvStale' >= dvStale BY DEF DvInv, DvTyped, DvTypeOK
<1>3. CmdKept' BY <1>2 DEF DvInv, CmdKept, Powering
<1>4. WindowKept' BY DEF DvInv, WindowKept, WindowWrites
<1>5. DevKept'
  <2>1. CASE dvDev' = dvDev /\ dvStale' = dvStale
    BY <2>1 DEF DvInv, DevKept, RegistersKept, TakersKept, Regular, Parts, Flows, Flow, Progress, Powering
  <2>2. CASE dvDev' = Loose /\ dvStale' >= dvStale
    <3>1. dvDev'.ctl = FALSE /\ dvDev'.ch = 0 /\ dvDev'.dis = 0 /\ Regular(dvDev')
      BY <2>2, DevsAre DEF Regular
    <3>2. 0 - dvDev'.dis = 0 BY <3>1
    <3>3. CASE dvBrand \in Registers
      <4>1. Progress' BY <3>1 DEF Progress, Regular
      <4> QED BY <3>1, <3>3, <4>1 DEF DevKept, RegistersKept
    <3>4. CASE dvBrand \notin Registers
      <4>1. Parts' BY <3>1, <3>2 DEF Parts
      <4> QED BY <2>2, <3>1, <3>4, <4>1 DEF DevKept, TakersKept, Loose, AtRest
    <3> QED BY <3>3, <3>4
  <2>3. CASE dvBrand = "hoymiles" /\ ~dvCmd.begun /\ dvStale' = dvStale /\ Regular(dvDev') /\ (~dvDev'.ctl => dvDev' = Loose)
    <3>1. dvBrand' \notin Registers BY <2>3 DEF Registers
    <3> QED BY <2>3, <3>1 DEF DevKept, TakersKept, Loose, AtRest, Regular
  <2> QED BY <2>1, <2>2, <2>3
<1> QED BY <1>1, <1>3, <1>4, <1>5 DEF DvInv

(* What the keepalive and the close leave in a Hoymiles *)
LEMMA PowerKept ==
  ASSUME dvDev \in DvDevs, Regular(dvDev), ~dvDev.ctl => dvDev = Loose, NEW n \in DvNets, NEW w \in {"take", "power", "free"}
  PROVE  LET e == Device(dvDev, w, n) IN e \in DvDevs /\ Regular(e) /\ (~e.ctl => e = Loose)
<1> DEFINE e == Device(dvDev, w, n)
<1>1. dvDev.ctl \in BOOLEAN /\ e \in DvDevs BY DeviceIs DEF DvDevs
<1>2. CASE w = "take"
  <2>1. e = [dvDev EXCEPT !.ctl = TRUE] BY <1>2 DEF Device
  <2>2. e.ctl = TRUE /\ e.mode = dvDev.mode /\ e.ch = dvDev.ch /\ e.dis = dvDev.dis BY <2>1 DEF DvDevs
  <2> HIDE DEF e
  <2> QED BY <1>1, <2>2 DEF Regular, e
<1>3. CASE w = "power" /\ dvDev.ctl
  <2>1. e = [dvDev EXCEPT !.mode = Side(n), !.ch = Max({n, 0}), !.dis = Max({-n, 0})] BY <1>3 DEF Device
  <2>2. e.ctl = dvDev.ctl /\ e.mode = Side(n) /\ e.ch = Max({n, 0}) /\ e.dis = Max({-n, 0}) BY <2>1 DEF DvDevs
  <2>3. n \in Int /\ Max({n, 0}) = (IF n > 0 THEN n ELSE 0) /\ Max({-n, 0}) = (IF n < 0 THEN -n ELSE 0) BY PlusIs
  <2> HIDE DEF e
  <2>4. Regular(e) BY <2>2, <2>3 DEF Regular, Side
  <2> QED BY <1>1, <1>3, <2>2, <2>4 DEF e
<1>4. CASE w = "power" /\ ~dvDev.ctl
  <2>1. e = dvDev BY <1>4 DEF Device
  <2> HIDE DEF e
  <2> QED BY <2>1 DEF e
<1>5. CASE w = "free"
  <2>1. e = Loose BY <1>5 DEF Device
  <2> HIDE DEF e
  <2> QED BY <2>1, DevsAre DEF e
<1> HIDE DEF e
<1> QED BY <1>1, <1>2, <1>3, <1>4, <1>5 DEF e

LEMMA Keeps == DvInv /\ (KeepSkips \/ KeepTakes \/ KeepSends \/ KeepFails) => DvInv'
<1> SUFFICES ASSUME DvInv, KeepSkips \/ KeepTakes \/ KeepSends \/ KeepFails PROVE DvInv' OBVIOUS
<1>1. dvBrand = "hoymiles" BY DEF DvInv, OneWrites, KeepSkips, KeepTakes, KeepSends, KeepFails
<1>2. UNCHANGED <<dvBrand, dvUp, dvWin, dvCmd, dvTold, dvFrom, dvStale, dvTaken, dvShut, dvCap>>
  BY DEF KeepSkips, KeepTakes, KeepSends, KeepFails, hoy
<1>3. dvDev \in DvDevs /\ dvKeep \in [at: {"none", "sleep", "power"}, net: DvNets] /\ dvLeft \in 0..DvMaxUpsets
      /\ dvNet \in {{}} \cup {{n} : n \in DvNets} /\ dvCap \in Nat /\ dvCap <= DvMost /\ dvMissed \in BOOLEAN
  BY DvNumbers DEF DvInv, DvTyped, DvTypeOK, DvDevs, DvNets
<1>4. Regular(dvDev) /\ (~dvDev.ctl => dvDev = Loose) BY <1>1 DEF DvInv, DevKept, TakersKept, Registers
<1>5. CASE KeepSkips
  <2>1. UNCHANGED <<dvDev, hoy, dvLeft>> /\ dvMissed' = TRUE BY <1>5 DEF KeepSkips
  <2>2. DvTypeOK' BY <1>2, <2>1 DEF DvInv, DvTyped, DvTypeOK, hoy
  <2>3. OneWrites' BY <1>2, <2>1 DEF DvInv, OneWrites, hoy
  <2> QED BY <1>2, <1>3, <2>1, <2>2, <2>3, Around DEF hoy
<1>6. CASE KeepTakes
  <2>1. PICK n \in dvNet : dvNet' = {Cut(n, dvCap)} /\ dvKeep' = [at |-> "power", net |-> Cut(n, dvCap)]
    BY <1>6 DEF KeepTakes
  <2>2. n \in DvNets /\ n \in Int BY <1>3, <2>1, DvNumbers DEF DvNets
  <2>3. Cut(n, dvCap) \in DvNets BY <1>3, <2>2, CutIs
  <2>4. dvDev' = Device(dvDev, "take", 0) /\ dvMissed' = dvMissed /\ dvLeft' = dvLeft /\ ~dvCmd.begun
        /\ dvShut \notin {"power", "general"}
    BY <1>6 DEF KeepTakes, CmdHolds, ShutHolds
  <2>5. dvDev' \in DvDevs /\ Regular(dvDev') /\ (~dvDev'.ctl => dvDev' = Loose)
    BY <1>3, <1>4, <2>4, PowerKept, DvNumbers
  <2>6. dvNet' \in {{}} \cup {{m} : m \in DvNets} BY <2>1, <2>3
  <2>7. dvKeep' \in [at: {"none", "sleep", "power"}, net: DvNets] /\ dvKeep'.at = "power" BY <2>1, <2>3
  <2>8. DvTypeOK' BY <1>2, <1>3, <2>4, <2>5, <2>6, <2>7 DEF DvInv, DvTyped, DvTypeOK, DvDevs, DvNets
  <2>9. OneWrites' BY <1>1, <1>2, <2>4, <2>7 DEF OneWrites
  <2> QED BY <1>1, <1>2, <2>4, <2>5, <2>7, <2>8, <2>9, Around
<1>7. CASE KeepSends
  <2>1. dvDev' = Device(dvDev, "power", dvKeep.net) /\ dvKeep' = [dvKeep EXCEPT !.at = "sleep"] /\ dvMissed' = FALSE
        /\ dvNet' = dvNet /\ dvLeft' = dvLeft /\ dvKeep.at = "power"
    BY <1>7 DEF KeepSends
  <2>2. dvDev' \in DvDevs /\ Regular(dvDev') /\ (~dvDev'.ctl => dvDev' = Loose)
    BY <1>3, <1>4, <2>1, PowerKept
  <2>3. ~dvCmd.begun BY <2>1 DEF DvInv, OneWrites, DvTyped
  <2>4. dvKeep' \in [at: {"none", "sleep", "power"}, net: DvNets] /\ dvKeep'.at = "sleep" BY <1>3, <2>1
  <2>5. DvTypeOK' BY <1>2, <1>3, <2>1, <2>2, <2>4 DEF DvInv, DvTyped, DvTypeOK, DvDevs, DvNets
  <2>6. OneWrites' BY <1>1, <1>2, <2>3, <2>4 DEF OneWrites
  <2> QED BY <1>1, <1>2, <2>2, <2>3, <2>4, <2>5, <2>6, Around
<1>8. CASE KeepFails
  <2>1. dvDev' = dvDev /\ dvKeep' = [dvKeep EXCEPT !.at = "sleep"] /\ dvMissed' = TRUE /\ dvNet' = dvNet
        /\ dvLeft > 0 /\ dvLeft' = dvLeft - 1
    BY <1>8 DEF KeepFails, Retry
  <2>2. dvKeep' \in [at: {"none", "sleep", "power"}, net: DvNets] /\ dvKeep'.at = "sleep" BY <1>3, <2>1
  <2>3. dvLeft' \in 0..DvMaxUpsets BY <1>3, <2>1, DvNumbers
  <2>4. DvTypeOK' BY <1>2, <1>3, <2>1, <2>2, <2>3 DEF DvInv, DvTyped, DvTypeOK, DvDevs, DvNets
  <2>5. OneWrites' BY <1>1, <1>2, <2>2 DEF DvInv, OneWrites
  <2> QED BY <1>2, <2>1, <2>2, <2>4, <2>5, Around
<1> QED BY <1>5, <1>6, <1>7, <1>8

LEMMA DvReports == DvInv /\ DvReport => DvInv'
<1> SUFFICES ASSUME DvInv, DvReport PROVE DvInv' OBVIOUS
<1>1. /\ dvCmd # NoCmd /\ dvCmd.todo = <<>>
      /\ dvTold' = [kind |-> dvCmd.kind, ok |-> dvCmd.ok, net |-> dvCmd.net, want |-> dvCmd.want]
      /\ dvCmd' = NoCmd /\ dvFrom' = 0 /\ dvTaken' = FALSE
      /\ dvStale' = IF dvCmd.ok /\ dvCmd.kind = "set" THEN 0 ELSE dvStale
      /\ UNCHANGED <<dvBrand, dvUp, dvDev, dvWin, dvShut, dvCap, dvLeft>>
  BY DEF DvReport
<1>2. \/ dvBrand = "hoymiles" /\ dvNet' = {dvCmd.net} /\ dvKeep' = KeepAlive /\ dvMissed' = FALSE
      \/ UNCHANGED <<dvNet, dvKeep, dvMissed>>
  BY DEF DvReport
<1>3. dvKeep \in [at: {"none", "sleep", "power"}, net: DvNets] /\ dvCmd.net \in DvNets
  BY DEF DvInv, DvTyped
<1>4. KeepAlive \in [at: {"none", "sleep", "power"}, net: DvNets] BY <1>3 DEF KeepAlive
<1>5. dvKeep' \in [at: {"none", "sleep", "power"}, net: DvNets] BY <1>2, <1>3, <1>4
<1>6. dvCmd'.net = 0 /\ dvCmd'.want \in DvWants /\ dvCmd'.todo = <<>> /\ dvCmd'.ok = TRUE /\ dvCmd'.begun = FALSE
      /\ dvCmd'.kind = "none"
      /\ dvCmd' = [kind |-> dvCmd'.kind, net |-> dvCmd'.net, want |-> dvCmd'.want, todo |-> dvCmd'.todo,
                   ok |-> dvCmd'.ok, begun |-> dvCmd'.begun]
  BY <1>1 DEF NoCmd, DvWants
<1>7. dvNet' \in {{}} \cup {{n} : n \in DvNets} BY <1>2, <1>3 DEF DvInv, DvTyped, DvTypeOK, DvNets
<1>8. dvStale \in 0..2 /\ dvStale' \in 0..2 /\ dvFrom' \in -DvMost..DvMost
  BY <1>1, DvNumbers DEF DvInv, DvTyped, DvTypeOK
<1>9. DvTypeOK' BY <1>1, <1>2, <1>5, <1>6, <1>7, <1>8 DEF DvInv, DvTyped, DvTypeOK, DvNets
<1>10. (dvCmd.todo \in Left(dvCmd.kind))' BY <1>6 DEF Left
<1>11. DvTyped' BY <1>1, <1>5, <1>6, <1>9, <1>10, DvNumbers DEF DvTyped, NoCmd
<1>12. OneWrites'
  <2>1. dvBrand # "hoymiles" => dvKeep' = dvKeep BY <1>2
  <2> QED BY <1>1, <1>6, <2>1 DEF DvInv, OneWrites
<1>13. CmdKept' BY <1>6 DEF CmdKept, Powering
<1>14. WindowKept'
  <2>1. dvTold'.kind = dvCmd.kind /\ dvTold'.ok = dvCmd.ok /\ dvTold'.want = dvCmd.want BY <1>1
  <2>2. WindowWrites' = WindowWrites BY <1>1 DEF WindowWrites
  <2>3. dvCmd.kind = "window" /\ dvCmd.ok /\ WindowWrites # <<>> =>
          dvWin.top >= dvCmd.want.top /\ dvWin.floor <= dvCmd.want.floor
    BY <1>1 DEF DvInv, WindowKept
  <2> QED BY <1>1, <1>6, <2>1, <2>2, <2>3 DEF WindowKept
<1>15. DevKept'
  <2>1. ~(dvCmd'.begun /\ Powering') BY <1>6
  <2>2. CASE dvBrand \in Registers
    <3>1. /\ dvStale = 0 /\ ~(dvCmd.begun /\ Powering) => Regular(dvDev)
          /\ dvCmd.begun /\ Powering /\ dvCmd.ok => Progress
          /\ Powering => dvCmd.begun
          /\ ~dvCmd.ok => dvStale > 0
      BY <1>1, <2>2 DEF DvInv, DevKept, RegistersKept, CmdKept
    <3>2. dvCmd.begun /\ Powering /\ dvCmd.ok => Regular(dvDev) BY <1>1, <3>1 DEF Progress
    <3>3. dvStale' = 0 => Regular(dvDev)
      <4>1. CASE dvCmd.ok /\ dvCmd.kind = "set" BY <3>1, <3>2, <4>1 DEF Powering
      <4>2. CASE ~(dvCmd.ok /\ dvCmd.kind = "set") BY <1>1, <1>8, <3>1, <3>2, <4>2
      <4> QED BY <4>1, <4>2
    <3> QED BY <1>1, <2>1, <2>2, <3>3 DEF DevKept, RegistersKept, Regular
  <2>3. CASE dvBrand \notin Registers
    <3>1. Regular(dvDev) /\ (~dvDev.ctl => dvDev = Loose) BY <2>3 DEF DvInv, DevKept, TakersKept
    <3> QED BY <1>1, <2>1, <2>3, <3>1 DEF DevKept, TakersKept, Regular, Loose, AtRest
  <2> QED BY <2>2, <2>3
<1> QED BY <1>11, <1>12, <1>13, <1>14, <1>15 DEF DvInv

LEMMA DvElse == DvInv /\ (DvCaps \/ DvLapse \/ DvConnect \/ DvApp) => DvInv'
<1> SUFFICES ASSUME DvInv, DvCaps \/ DvLapse \/ DvConnect \/ DvApp PROVE DvInv' OBVIOUS
<1>1. UNCHANGED <<dvBrand, dvWin, dvCmd, dvKeep, dvShut, dvTold, dvFrom, dvMissed>>
  BY DEF DvCaps, DvLapse, DvConnect, DvApp, hoy
<1>2. OneWrites' BY <1>1 DEF DvInv, OneWrites
<1>3. dvKeep' \in [at: {"none", "sleep", "power"}, net: DvNets] BY <1>1 DEF DvInv, DvTyped
<1>4. dvDev \in DvDevs /\ dvLeft \in 0..DvMaxUpsets /\ dvStale \in 0..2
      /\ dvNet \in {{}} \cup {{n} : n \in DvNets} /\ dvCap \in Nat /\ dvCap <= DvMost
  BY DvNumbers DEF DvInv, DvTyped, DvTypeOK, DvDevs, DvNets
<1>5. CASE DvCaps
  <2>1. PICK cap \in {DvMost, DvLess} : dvCap' = cap /\ dvNet' = {Cut(n, cap) : n \in dvNet}
    BY <1>5 DEF DvCaps
  <2>2. UNCHANGED <<dvUp, dvDev, dvStale, dvTaken, dvLeft>> BY <1>5 DEF DvCaps
  <2>3. cap \in Nat /\ cap <= DvMost BY DvNumbers
  <2>4. dvNet' \in {{}} \cup {{n} : n \in DvNets}
    <3>1. CASE dvNet = {} BY <2>1, <3>1
    <3>2. CASE dvNet # {}
      <4>1. PICK n \in DvNets : dvNet = {n} BY <1>4, <3>2
      <4>2. n \in Int BY DvNumbers DEF DvNets
      <4>3. Cut(n, cap) \in DvNets BY <2>3, <4>2, CutIs
      <4>4. dvNet' = {Cut(n, cap)} BY <2>1, <4>1
      <4> QED BY <4>3, <4>4
    <3> QED BY <3>1, <3>2
  <2>5. DvTypeOK' BY <1>1, <2>1, <2>2, <2>4 DEF DvInv, DvTyped, DvTypeOK, DvNets
  <2> QED BY <1>1, <1>2, <1>3, <2>2, <2>5, Around
<1>6. CASE DvLapse
  <2>1. dvDev' = Loose /\ UNCHANGED <<dvUp, dvNet, dvCap, dvStale, dvTaken, dvLeft>> BY <1>6 DEF DvLapse, hoy
  <2>2. dvDev' \in DvDevs /\ dvStale' >= dvStale BY <1>4, <2>1, DevsAre
  <2>3. DvTypeOK' BY <1>1, <2>1, <2>2 DEF DvInv, DvTyped, DvTypeOK, DvDevs
  <2> QED BY <1>1, <1>2, <1>3, <2>1, <2>2, <2>3, Around
<1>7. CASE DvConnect
  <2>1. dvUp' = TRUE /\ UNCHANGED <<dvDev, dvNet, dvCap, dvStale, dvTaken, dvLeft>> BY <1>7 DEF DvConnect, hoy
  <2>2. DvTypeOK' BY <1>1, <2>1 DEF DvInv, DvTyped, DvTypeOK
  <2> QED BY <1>1, <1>2, <1>3, <2>1, <2>2, Around
<1>8. CASE DvApp
  <2>1. /\ dvDev' = Loose /\ dvTaken' \in BOOLEAN /\ dvStale' = Min({dvStale + 1, 2})
        /\ dvLeft > 0 /\ dvLeft' = dvLeft - 1 /\ UNCHANGED <<dvUp, dvNet, dvCap>>
    BY <1>8 DEF DvApp, hoy
  <2>2. Min({dvStale + 1, 2}) = IF dvStale + 1 <= 2 THEN dvStale + 1 ELSE 2 BY <1>4, TwoMin
  <2>3. dvStale' \in 0..2 /\ dvStale' >= dvStale BY <1>4, <2>1, <2>2
  <2>4. dvLeft' \in 0..DvMaxUpsets BY <1>4, <2>1, DvNumbers
  <2>5. DvTypeOK' BY <1>1, <2>1, <2>3, <2>4, DevsAre DEF DvInv, DvTyped, DvTypeOK, DvDevs
  <2> QED BY <1>1, <1>2, <1>3, <2>1, <2>3, <2>5, Around
<1> QED BY <1>5, <1>6, <1>7, <1>8

LEMMA DvShuts == DvInv /\ (DvClose \/ DvShutStep \/ DvShutFails) => DvInv'
<1> SUFFICES ASSUME DvInv, DvClose \/ DvShutStep \/ DvShutFails PROVE DvInv' OBVIOUS
<1>1. UNCHANGED <<dvBrand, dvWin, dvCmd, dvTold, dvFrom, dvMissed, dvCap, dvStale, dvTaken>>
  BY DEF DvClose, DvShutStep, DvShutFails
<1>2. dvDev \in DvDevs /\ dvLeft \in 0..DvMaxUpsets /\ dvKeep \in [at: {"none", "sleep", "power"}, net: DvNets]
  BY DEF DvInv, DvTyped, DvTypeOK, DvDevs
<1>3. CASE DvClose
  <2>1. /\ dvShut = "no" /\ dvLeft > 0 /\ dvLeft' = dvLeft - 1 /\ dvDev' = dvDev /\ dvNet' = dvNet
        /\ \/ dvBrand = "hoymiles" /\ dvKeep' = [dvKeep EXCEPT !.at = "none"] /\ dvShut' = "mode" /\ dvUp' = dvUp
           \/ dvUp' = FALSE /\ dvKeep' = dvKeep /\ dvShut' = dvShut
    BY <1>3 DEF DvClose
  <2>2. dvKeep' \in [at: {"none", "sleep", "power"}, net: DvNets] /\ (dvKeep' = dvKeep \/ dvKeep'.at = "none")
    BY <1>2, <2>1
  <2>3. dvLeft' \in 0..DvMaxUpsets BY <1>2, <2>1, DvNumbers
  <2>4. DvTypeOK' BY <1>1, <2>1, <2>2, <2>3 DEF DvInv, DvTyped, DvTypeOK
  <2>5. OneWrites' BY <1>1, <2>1, <2>2 DEF DvInv, OneWrites
  <2> QED BY <1>1, <2>1, <2>2, <2>4, <2>5, Around
<1>4. CASE DvShutStep
  <2>1. dvBrand = "hoymiles" /\ dvKeep' = dvKeep /\ dvLeft' = dvLeft
    BY <1>4 DEF DvInv, OneWrites, DvShutStep
  <2>2. Regular(dvDev) /\ (~dvDev.ctl => dvDev = Loose) BY <2>1 DEF DvInv, DevKept, TakersKept, Registers
  <2>3. /\ \/ dvShut = "mode" /\ dvDev' = Device(dvDev, "take", 0) /\ dvShut' = "power" /\ UNCHANGED <<dvUp, dvNet>>
              /\ ~dvCmd.begun /\ dvKeep.at # "power"
           \/ dvShut = "power" /\ dvDev' = Device(dvDev, "power", 0) /\ dvShut' = "general" /\ UNCHANGED <<dvUp, dvNet>>
           \/ dvShut = "general" /\ dvDev' = Device(dvDev, "free", 0) /\ dvUp' = FALSE /\ dvNet' = {} /\ dvShut' = "no"
    BY <1>4 DEF DvShutStep, Closed, CmdHolds, KeepHolds, DvInv, DvTyped, DvTypeOK
  <2>4. ~dvCmd.begun BY <2>3 DEF DvInv, OneWrites, DvTyped
  <2>5. dvDev' \in DvDevs /\ Regular(dvDev') /\ (~dvDev'.ctl => dvDev' = Loose)
    BY <1>2, <2>2, <2>3, PowerKept, DvNumbers
  <2>6. DvTypeOK' BY <1>1, <2>1, <2>3, <2>5 DEF DvInv, DvTyped, DvTypeOK, DvDevs
  <2>7. OneWrites' BY <1>1, <2>1, <2>4 DEF OneWrites
  <2> QED BY <1>1, <1>2, <2>1, <2>4, <2>5, <2>6, <2>7, Around
<1>5. CASE DvShutFails
  <2>1. /\ dvDev' = dvDev /\ dvKeep' = dvKeep /\ dvUp' = FALSE /\ dvNet' = {} /\ dvShut' = "no"
        /\ dvLeft > 0 /\ dvLeft' = dvLeft - 1
    BY <1>5 DEF DvShutFails, Closed
  <2>2. dvLeft' \in 0..DvMaxUpsets BY <1>2, <2>1, DvNumbers
  <2>3. DvTypeOK' BY <1>1, <2>1, <2>2 DEF DvInv, DvTyped, DvTypeOK
  <2>4. OneWrites' BY <1>1, <2>1 DEF DvInv, OneWrites
  <2> QED BY <1>1, <1>2, <2>1, <2>3, <2>4, Around
<1> QED BY <1>3, <1>4, <1>5

LEMMA DvSteps == DvInv /\ [DvNext]_dvVars => DvInv'
<1> SUFFICES ASSUME DvInv, [DvNext]_dvVars PROVE DvInv' OBVIOUS
<1>1. CASE UNCHANGED dvVars
  <2>1. UNCHANGED <<dvBrand, dvUp, dvDev, dvWin, dvCmd, dvKeep, dvShut, dvNet, dvCap, dvMissed, dvFrom, dvStale, dvTaken, dvTold, dvLeft>>
    BY <1>1 DEF dvVars
  <2>2. DvTypeOK' BY <2>1 DEF DvInv, DvTyped, DvTypeOK
  <2>3. OneWrites' BY <2>1 DEF DvInv, OneWrites
  <2> QED BY <2>1, <2>2, <2>3, Around DEF DvInv, DvTyped
<1> QED BY <1>1, Enters, Writes, DvReports, Keeps, DvElse, DvShuts DEF DvNext

(* While a command is written, register by register, the battery never does more     *)
(* than what it did before or what it is told, although one write failed and the      *)
(* app, the keepalive and the close come between; and a window reported as written     *)
(* contains the one asked for (drivers/*.py, apply_setpoint(), apply_config()).          *)
THEOREM WritesCorrect == DvSpec => [](DvTypeOK /\ SequenceStaysBetween /\ WindowContains)
<1>1. DvInv => DvTypeOK /\ SequenceStaysBetween /\ WindowContains BY DvSpan DEF DvInv, DvTyped
<1> QED BY <1>1, DvStarts, DvSteps, PTL DEF DvSpec

(* A command without a failure, left alone by the app, has written what it is for *)
Exact == dvDev.ch = Max({dvCmd.net, 0}) /\ dvDev.dis = Max({-dvCmd.net, 0}) /\ dvDev.mode = Side(dvCmd.net)
DvWhole ==
    /\ dvCmd.kind = "none" => ~dvTaken
    /\ dvBrand = "zendure" => dvDev.ctl
    /\ dvCmd.kind = "set" /\ ~dvCmd.begun /\ dvBrand \in Takers => dvCmd.todo = <<"take", "power">>
    /\ dvCmd.kind = "set" /\ dvCmd.begun /\ dvCmd.ok /\ ~dvTaken =>
        /\ dvCmd.todo = <<>> => Exact
        /\ dvBrand \in Registers /\ dvCmd.todo \in {<<"ch", "mode">>, <<"mode">>} => dvDev.dis = Max({-dvCmd.net, 0})
        /\ dvBrand \in Registers /\ dvCmd.todo = <<"mode">> => dvDev.ch = Max({dvCmd.net, 0})
        /\ dvBrand \in Takers => dvDev.ctl

LEMMA WholeStarts == DvInit => DvWhole
BY DEF DvInit, DvWhole, NoCmd, AtRest, Takers

LEMMA WholeEnters ==
  DvInv /\ DvWhole /\ (DvApply \/ DvStandby \/ DvConfig \/ DvCutoff \/ DvRs485) => DvWhole'
<1> SUFFICES ASSUME DvInv, DvWhole, DvApply \/ DvStandby \/ DvConfig \/ DvCutoff \/ DvRs485 PROVE DvWhole' OBVIOUS
<1>1. ASSUME NEW kind, NEW net, NEW want, NEW todo, Enter(kind, net, want, todo), kind # "none",
             kind = "set" /\ dvBrand \in Takers => todo = <<"take", "power">>
      PROVE  DvWhole'
  <2>1. /\ dvCmd' = [kind |-> kind, net |-> net, want |-> want, todo |-> todo, ok |-> TRUE, begun |-> FALSE]
        /\ UNCHANGED <<dvBrand, dvDev, dvTaken>>
    BY <1>1 DEF Enter
  <2>2. dvCmd'.kind = kind /\ dvCmd'.begun = FALSE /\ dvCmd'.todo = todo BY <2>1
  <2> QED BY <1>1, <2>1, <2>2 DEF DvWhole
<1>2. dvBrand \in Takers => SetWrites("set") = <<"take", "power">>
  <2>1. CASE dvBrand = "anker" BY <2>1 DEF SetWrites, AnkerWrites, Registers
  <2>2. CASE dvBrand \in {"sessy", "hoymiles"} BY <2>2 DEF SetWrites, Registers
  <2> QED BY <2>1, <2>2 DEF Takers
<1>3. CASE DvApply BY <1>1, <1>2, <1>3 DEF DvApply
<1>4. CASE DvStandby BY <1>1, <1>4 DEF DvStandby
<1>5. CASE DvConfig BY <1>1, <1>5 DEF DvConfig
<1>6. CASE DvCutoff BY <1>1, <1>6 DEF DvCutoff
<1>7. CASE DvRs485 BY <1>1, <1>7 DEF DvRs485
<1> QED BY <1>3, <1>4, <1>5, <1>6, <1>7

LEMMA WholeWrites == ASSUME DvInv, DvWhole, NEW out \in Outcomes, DvWrite(out) PROVE DvWhole'
<1> DEFINE w == Head(dvCmd.todo)
           P == Max({dvCmd.net, 0})
           M == Max({-dvCmd.net, 0})
<1>1. /\ dvCmd'.kind = dvCmd.kind /\ dvCmd'.net = dvCmd.net /\ dvBrand' = dvBrand /\ dvCmd'.begun = TRUE /\ dvTaken' = dvTaken
      /\ dvCmd'.ok <=> dvCmd.ok /\ out = "done"
      /\ dvCmd'.ok => dvCmd'.todo = Tail(dvCmd.todo)
      /\ dvDev' = dvDev \/ dvDev' = Device(dvDev, w, dvCmd.net)
      /\ dvCmd.todo # <<>>
  BY WriteIs
<1>2. dvDev \in DvDevs /\ dvCmd.net \in DvNets /\ dvCmd.begun \in BOOLEAN /\ dvDev.ctl \in BOOLEAN
  BY DEF DvInv, DvTyped, DvTypeOK, DvDevs
<1>3. dvDev' = Device(dvDev, w, dvCmd.net) \/ (w = "take" /\ dvDev.ctl /\ dvDev' = dvDev) \/ out # "done"
  BY DEF DvWrite, Spared
<1>4. dvCmd.kind = "none" => ~dvTaken BY DEF DvWhole
<1>5. dvBrand = "zendure" => dvDev'.ctl
  <2> SUFFICES ASSUME dvBrand = "zendure" PROVE dvDev'.ctl OBVIOUS
  <2>1. dvDev.ctl /\ dvBrand \notin Registers BY DEF DvWhole, Registers
  <2>2. dvCmd.kind # "rs485" /\ dvCmd.kind \in DvKinds BY <2>1 DEF DvInv, DvTyped, DvTypeOK, DvKinds
  <2>3. w \in {"top", "floor", "window", "take", "power"} BY <1>1, <2>1, <2>2, LeftIs DEF Powering, DvKinds
  <2> HIDE DEF w
  <2>4. CASE w \in {"top", "floor", "window"} BY <1>1, <1>2, <2>1, <2>4, DeviceIs
  <2>5. CASE w = "take"
    <3>1. Device(dvDev, w, dvCmd.net) = [ctl |-> TRUE, mode |-> dvDev.mode, ch |-> dvDev.ch, dis |-> dvDev.dis]
      BY <1>2, <2>5, DeviceIs
    <3> QED BY <1>1, <2>1, <3>1
  <2>6. CASE w = "power"
    <3>1. Device(dvDev, w, dvCmd.net) = [ctl |-> TRUE, mode |-> Side(dvCmd.net), ch |-> P, dis |-> M]
      BY <1>2, <2>1, <2>6, DeviceIs
    <3> QED BY <1>1, <2>1, <3>1
  <2> QED BY <2>3, <2>4, <2>5, <2>6
<1>6. ASSUME dvCmd.kind = "set", dvCmd'.ok, ~dvTaken
      PROVE  /\ dvCmd'.todo = <<>> => dvDev'.ch = P /\ dvDev'.dis = M /\ dvDev'.mode = Side(dvCmd.net)
             /\ dvBrand \in Registers /\ dvCmd'.todo \in {<<"ch", "mode">>, <<"mode">>} => dvDev'.dis = M
             /\ dvBrand \in Registers /\ dvCmd'.todo = <<"mode">> => dvDev'.ch = P
             /\ dvBrand \in Takers => dvDev'.ctl
  <2>1. dvCmd.ok /\ out = "done" /\ dvCmd'.todo = Tail(dvCmd.todo) /\ Powering BY <1>1, <1>6 DEF Powering
  <2>2. CASE dvBrand \in Registers
    <3>0. dvBrand \notin Takers BY <2>2 DEF Registers, Takers
    <3>1. dvDev' = Device(dvDev, w, dvCmd.net) BY <2>1, <2>2, WriteIs
    <3>2. \/ dvCmd.todo = <<"dis", "ch", "mode">> /\ w = "dis" /\ Tail(dvCmd.todo) = <<"ch", "mode">>
          \/ dvCmd.todo = <<"ch", "mode">> /\ w = "ch" /\ Tail(dvCmd.todo) = <<"mode">>
          \/ dvCmd.todo = <<"mode">> /\ w = "mode" /\ Tail(dvCmd.todo) = <<>>
      BY <1>1, <2>1, <2>2, LeftIs
    <3>3. /\ w = "dis" => Device(dvDev, w, dvCmd.net) = [ctl |-> dvDev.ctl, mode |-> dvDev.mode, ch |-> dvDev.ch, dis |-> M]
          /\ w = "ch" => Device(dvDev, w, dvCmd.net) = [ctl |-> dvDev.ctl, mode |-> dvDev.mode, ch |-> P, dis |-> dvDev.dis]
          /\ w = "mode" => Device(dvDev, w, dvCmd.net) = [ctl |-> dvDev.ctl, mode |-> Side(dvCmd.net), ch |-> dvDev.ch, dis |-> dvDev.dis]
      BY <1>2, DeviceIs
    <3>4. ~dvCmd.begun => dvCmd.todo = <<"dis", "ch", "mode">> BY <2>1, <2>2 DEF DvInv, CmdKept
    <3> HIDE DEF w
    <3>5. CASE w = "dis"
      <4>1. dvCmd'.todo = <<"ch", "mode">> BY <2>1, <3>2, <3>5
      <4>2. Device(dvDev, w, dvCmd.net) = [ctl |-> dvDev.ctl, mode |-> dvDev.mode, ch |-> dvDev.ch, dis |-> M]
        BY <3>3, <3>5
      <4>3. dvDev'.dis = M
        <5> HIDE DEF M
        <5> QED BY <3>1, <4>2
      <4> QED BY <3>0, <4>1, <4>3, TuplesDiffer
    <3>6. CASE w = "ch"
      <4>0. Device(dvDev, w, dvCmd.net) = [ctl |-> dvDev.ctl, mode |-> dvDev.mode, ch |-> P, dis |-> dvDev.dis]
        BY <3>3, <3>6
      <4>4. dvDev'.ch = P /\ dvDev'.dis = dvDev.dis
        <5> HIDE DEF P
        <5> QED BY <3>1, <4>0
      <4>1. dvCmd.todo = <<"ch", "mode">> /\ dvCmd'.todo = <<"mode">> /\ dvDev'.ch = P /\ dvDev'.dis = dvDev.dis
        BY <2>1, <3>2, <3>6, <4>4
      <4>2. dvCmd.begun BY <1>2, <3>4, <4>1, TuplesDiffer
      <4>3. dvDev.dis = M BY <1>6, <2>1, <2>2, <4>1, <4>2 DEF DvWhole
      <4> QED BY <3>0, <4>1, <4>3, TuplesDiffer
    <3>7. CASE w = "mode"
      <4>1. dvCmd.todo = <<"mode">> /\ dvCmd'.todo = <<>> /\ dvDev'.ch = dvDev.ch /\ dvDev'.dis = dvDev.dis
            /\ dvDev'.mode = Side(dvCmd.net)
        BY <2>1, <3>1, <3>2, <3>3, <3>7
      <4>2. dvCmd.begun BY <1>2, <3>4, <4>1, TuplesDiffer
      <4>3. dvDev.dis = M /\ dvDev.ch = P BY <1>6, <2>1, <2>2, <4>1, <4>2 DEF DvWhole
      <4> QED BY <3>0, <4>1, <4>3, TuplesDiffer
    <3> QED BY <3>2, <3>5, <3>6, <3>7
  <2>3. CASE dvBrand \notin Registers
    <3>1. dvCmd.todo \in {<<"take", "power">>, <<"power">>} BY <1>1, <1>6, <2>3 DEF DvInv, DvTyped, Left
    <3>2. CASE dvCmd.todo = <<"take", "power">>
      <4>1. w = "take" /\ dvCmd'.todo = <<"power">> BY <2>1, <3>2, TailsAre
      <4> HIDE DEF w
      <4>2. Device(dvDev, w, dvCmd.net) = [ctl |-> TRUE, mode |-> dvDev.mode, ch |-> dvDev.ch, dis |-> dvDev.dis]
        BY <1>2, <4>1, DeviceIs
      <4>3. dvDev'.ctl BY <1>3, <2>1, <4>2
      <4> QED BY <2>3, <4>1, <4>3, TuplesDiffer
    <3>3. CASE dvCmd.todo = <<"power">>
      <4>1. w = "power" BY <3>3, TailsAre
      <4>2. dvDev.ctl
        <5>1. dvBrand \in Takers \cup {"zendure"} BY <2>3, DvNumbers DEF DvInv, DvTyped, DvTypeOK
        <5>2. CASE dvBrand = "zendure" BY <5>2 DEF DvWhole
        <5>3. CASE dvBrand \in Takers
          <6>1. dvCmd.begun BY <1>2, <1>6, <3>3, <5>3, TuplesDiffer DEF DvWhole
          <6> QED BY <1>6, <2>1, <5>3, <6>1 DEF DvWhole
        <5> QED BY <5>1, <5>2, <5>3
      <4> HIDE DEF w
      <4>3. Device(dvDev, w, dvCmd.net) = [ctl |-> TRUE, mode |-> Side(dvCmd.net), ch |-> P, dis |-> M]
        BY <1>2, <4>1, <4>2, DeviceIs
      <4>4. dvDev' = Device(dvDev, w, dvCmd.net) BY <1>3, <2>1, <4>1
      <4>5. dvDev'.ctl /\ dvDev'.ch = P /\ dvDev'.dis = M /\ dvDev'.mode = Side(dvCmd.net) BY <4>3, <4>4
      <4> QED BY <2>3, <4>5
    <3> QED BY <3>1, <3>2, <3>3
  <2> QED BY <2>2, <2>3
<1>7. Max({dvCmd.net, 0})' = P /\ Max({-dvCmd.net, 0})' = M /\ Side(dvCmd.net)' = Side(dvCmd.net) BY <1>1 DEF Side
<1> HIDE DEF w, P, M
<1>8. Exact' <=> dvDev'.ch = P /\ dvDev'.dis = M /\ dvDev'.mode = Side(dvCmd.net) BY <1>7 DEF Exact
<1> QED BY <1>1, <1>4, <1>5, <1>6, <1>7, <1>8 DEF DvWhole

LEMMA WholeRest ==
  DvInv /\ DvWhole /\ (\/ DvReport \/ KeepSkips \/ KeepTakes \/ KeepSends \/ KeepFails \/ DvCaps \/ DvLapse
                       \/ DvClose \/ DvShutStep \/ DvShutFails \/ DvConnect \/ DvApp \/ UNCHANGED dvVars) => DvWhole'
<1> SUFFICES ASSUME DvInv, DvWhole,
                    \/ DvReport \/ KeepSkips \/ KeepTakes \/ KeepSends \/ KeepFails \/ DvCaps \/ DvLapse
                    \/ DvClose \/ DvShutStep \/ DvShutFails \/ DvConnect \/ DvApp \/ UNCHANGED dvVars
             PROVE  DvWhole'
  OBVIOUS
<1>1. CASE DvReport
  <2>1. dvCmd' = NoCmd /\ dvTaken' = FALSE /\ dvDev' = dvDev /\ dvBrand' = dvBrand BY <1>1 DEF DvReport
  <2> QED BY <2>1 DEF DvWhole, NoCmd
<1>2. ASSUME UNCHANGED <<dvBrand, dvCmd, dvDev, dvTaken>> PROVE DvWhole' BY <1>2 DEF DvWhole, Exact, Side
<1>3. CASE KeepSkips \/ KeepFails \/ DvCaps \/ DvClose \/ DvShutFails \/ DvConnect \/ UNCHANGED dvVars
  BY <1>2, <1>3 DEF KeepSkips, KeepFails, DvCaps, DvClose, DvShutFails, DvConnect, dvVars, hoy
<1>4. ASSUME UNCHANGED <<dvBrand, dvCmd, dvTaken>>, dvBrand = "hoymiles", ~dvCmd.begun PROVE DvWhole'
  BY <1>4 DEF DvWhole
<1>5. CASE KeepTakes \/ KeepSends \/ DvLapse \/ DvShutStep
  <2>1. dvBrand = "hoymiles" /\ ~dvCmd.begun
    BY <1>5 DEF DvInv, DvTyped, DvTypeOK, OneWrites, KeepTakes, KeepSends, DvLapse, DvShutStep, CmdHolds
  <2>2. UNCHANGED <<dvBrand, dvCmd, dvTaken>> BY <1>5 DEF KeepTakes, KeepSends, DvLapse, DvShutStep
  <2> QED BY <1>4, <2>1, <2>2
<1>6. CASE DvApp
  <2>1. UNCHANGED <<dvBrand, dvCmd>> /\ dvBrand # "zendure" /\ (dvTaken' <=> dvCmd # NoCmd) BY <1>6 DEF DvApp
  <2>2. dvCmd.kind = "none" <=> dvCmd = NoCmd BY DEF DvInv, DvTyped, NoCmd
  <2>3. dvCmd.kind = "set" => dvTaken' BY <2>1, <2>2
  <2> QED BY <2>1, <2>2, <2>3 DEF DvWhole
<1> QED BY <1>1, <1>3, <1>5, <1>6

LEMMA WholeSteps == DvInv /\ DvWhole /\ [DvNext]_dvVars => DvWhole'
BY WholeEnters, WholeWrites, WholeRest DEF DvNext

LEMMA WholeReport ==
  DvInv /\ DvWhole /\ [DvNext]_dvVars =>
    (dvTold'.ok /\ dvTold' # dvTold /\ ~dvTaken /\ dvTold'.kind = "set" =>
       Flow([dvDev EXCEPT !.ctl = @ \/ dvBrand \notin Takers]) = dvTold'.net)
<1> SUFFICES ASSUME DvInv, DvWhole, [DvNext]_dvVars, dvTold'.ok, dvTold' # dvTold, ~dvTaken, dvTold'.kind = "set"
             PROVE  Flow([dvDev EXCEPT !.ctl = @ \/ dvBrand \notin Takers]) = dvTold'.net
  OBVIOUS
<1>1. DvReport
  <2>1. NoTold.kind = "none" BY DEF NoTold
  <2>2. ASSUME NEW kind, NEW net, NEW want, NEW todo, Enter(kind, net, want, todo) PROVE FALSE
    BY <2>1, <2>2 DEF Enter
  <2>3. ~(DvApply \/ DvStandby \/ DvConfig \/ DvCutoff \/ DvRs485)
    BY <2>2 DEF DvApply, DvStandby, DvConfig, DvCutoff, DvRs485
  <2>4. ASSUME NEW out \in Outcomes, DvWrite(out) PROVE FALSE BY <2>4 DEF DvWrite
  <2>5. ~(\/ KeepSkips \/ KeepTakes \/ KeepSends \/ KeepFails \/ DvCaps \/ DvLapse
          \/ DvClose \/ DvShutStep \/ DvShutFails \/ DvConnect \/ DvApp \/ UNCHANGED dvVars)
    BY DEF KeepSkips, KeepTakes, KeepSends, KeepFails, DvCaps, DvLapse, DvClose, DvShutStep, DvShutFails, DvConnect, DvApp, dvVars
  <2> QED BY <2>3, <2>4, <2>5 DEF DvNext
<1>2. /\ dvCmd.todo = <<>>
      /\ dvTold' = [kind |-> dvCmd.kind, ok |-> dvCmd.ok, net |-> dvCmd.net, want |-> dvCmd.want]
  BY <1>1 DEF DvReport
<1>3. dvCmd.kind = "set" /\ dvCmd.ok /\ dvTold'.net = dvCmd.net BY <1>2
<1>4. dvCmd.begun BY <1>2, <1>3 DEF DvInv, DvTyped, CmdKept, Powering
<1>5. Exact /\ (dvBrand \in Takers => dvDev.ctl) BY <1>2, <1>3, <1>4 DEF DvWhole
<1>6. dvDev \in DvDevs /\ dvCmd.net \in DvNets BY DEF DvInv, DvTyped, DvTypeOK, DvDevs
<1> DEFINE c == dvDev.ctl \/ dvBrand \notin Takers
           d == [dvDev EXCEPT !.ctl = c]
<1>7. c BY <1>5
<1>8. d.ctl = c /\ d.mode = dvDev.mode /\ d.ch = dvDev.ch /\ d.dis = dvDev.dis
  <2> HIDE DEF c
  <2> QED BY <1>6 DEF DvDevs
<1>9. dvCmd.net \in Int /\ dvDev.ch = (IF dvCmd.net > 0 THEN dvCmd.net ELSE 0) /\ dvDev.dis = (IF dvCmd.net < 0 THEN -dvCmd.net ELSE 0)
  BY <1>5, <1>6, PlusIs DEF Exact
<1> HIDE DEF c, d
<1>10. Flow(d) = dvCmd.net BY <1>5, <1>7, <1>8, <1>9 DEF Flow, Exact, Side
<1> QED BY <1>3, <1>10 DEF d, c

\* A driver that reports success has written the whole command, in whatever
\* order its registers go and whichever call before failed (drivers/*.py,
\* apply_setpoint()).
THEOREM SuccessCorrect == DvSpec => SuccessIsWhole
<1>1. DvInit => DvInv /\ DvWhole BY DvStarts, WholeStarts
<1>2. DvInv /\ DvWhole /\ [DvNext]_dvVars => (DvInv /\ DvWhole)' BY DvSteps, WholeSteps
<1>3. DvInv /\ DvWhole /\ [DvNext]_dvVars =>
        [dvTold'.ok /\ dvTold' # dvTold /\ ~dvTaken /\ dvTold'.kind = "set" =>
          Flow([dvDev EXCEPT !.ctl = @ \/ dvBrand \notin Takers]) = dvTold'.net]_dvVars
  BY WholeReport
<1> QED BY <1>1, <1>2, <1>3, PTL DEF DvSpec, SuccessIsWhole

-----------------------------------------------------------------------------
(* The Huawei gate. *)
HwDevs == [mode: -1..1, ch: Nat, dis: Nat, left: 0..HwDuration, calm: 0..HwSettle]
HwTyped == HwTypeOK /\ hwDev \in HwDevs /\ (hwDev.mode = 1 => hwDev.ch \in HwAsks)
(* A command that is not torn has been in force since it was written, and is renewed before it runs out *)
InForce ==
    hwLast # {} /\ ~hwTorn =>
        /\ Forced(hwDev) = Standing
        /\ hwDev.mode # 0 => /\ hwDev.left + hwSince = HwDuration
                             /\ hwTurn = "tick" => hwSince < HwRefresh
HwInv == HwTyped /\ InForce

LEMMA HwNumbers ==
    /\ HwSuns \subseteq Nat /\ HwAsks \subseteq Int
    /\ HwThreshold \in Nat /\ HwHyst \in Nat /\ HwDeadband \in Nat /\ HwSettle \in Nat \ {0} /\ HwGap \in Nat \ {0}
    /\ HwProbe \in Nat \ {0} /\ HwWindow \in Nat \ {0} /\ HwRefresh \in Nat /\ HwDuration \in Nat /\ HwMaxUpsets \in Nat
    /\ HwRefresh > HwGap /\ HwDuration > HwRefresh
BY HwAssumption

LEMMA HwStarts == HwInit => HwInv
<1> SUFFICES ASSUME HwInit PROVE HwInv OBVIOUS
<1> USE HwNumbers DEF HwInit
<1>1. hwDev \in HwDevs BY DEF HwDevs
<1>2. HwTypeOK
  <2>1. hwSince \in 0..HwRefresh /\ hwAge \in 0..HwProbe /\ hwUntil \in -1..HwWindow /\ hwLeft \in 0..HwMaxUpsets
    OBVIOUS
  <2>2. hwDev.mode \in -1..1 /\ {hwDev.ch, hwDev.dis} \subseteq Nat /\ hwDev.left \in 0..HwDuration /\ hwDev.calm \in 0..HwSettle
    BY <1>1 DEF HwDevs
  <2> QED BY <2>1, <2>2 DEF HwTypeOK
<1> QED BY <1>1, <1>2 DEF HwInv, HwTyped, InForce

(* What the four writes, or the first k of them, leave in the inverter. *)
LEMMA WritesAre ==
  ASSUME hwDev \in HwDevs, NEW n \in Int, NEW k \in 0..Four
  PROVE  LET d == AfterWrites(n, k) IN
         /\ d \in HwDevs
         /\ hwDev.mode = 1 /\ hwDev.ch \in HwAsks /\ n \in HwAsks \cup {0} => (d.mode = 1 => d.ch \in HwAsks)
         /\ n \in HwAsks \cup {0} => (k = Four => (d.mode = 1 => d.ch \in HwAsks))
         /\ hwDev.mode # 1 /\ k # Four => d.mode # 1
         /\ k = Four => Forced(d) = n /\ (d.mode # 0 => d.left = HwDuration)
<1> USE HwNumbers DEF HwDevs, Four
<1>1. CASE n = 0
  <2> DEFINE d == [hwDev EXCEPT !.mode = IF k > 0 THEN 0 ELSE @, !.calm = IF k > 0 /\ hwDev.mode # 0 THEN 0 ELSE @,
                       !.dis = IF k > 1 THEN 0 ELSE @]
  <2>1. AfterWrites(n, k) = d BY <1>1 DEF AfterWrites
  <2>2. d \in HwDevs
    <3>1. /\ (IF k > 0 THEN 0 ELSE hwDev.mode) \in -1..1
          /\ (IF k > 0 /\ hwDev.mode # 0 THEN 0 ELSE hwDev.calm) \in 0..HwSettle
          /\ (IF k > 1 THEN 0 ELSE hwDev.dis) \in Nat
      OBVIOUS
    <3> QED BY <3>1
  <2>3. d.mode = (IF k > 0 THEN 0 ELSE hwDev.mode) /\ d.ch = hwDev.ch OBVIOUS
  <2> HIDE DEF d
  <2> QED BY <1>1, <2>1, <2>2, <2>3 DEF Forced
<1>2. CASE n # 0
  <2> DEFINE d == [hwDev EXCEPT !.ch = IF k > 0 /\ n > 0 THEN n ELSE @, !.dis = IF k > 0 /\ n < 0 THEN -n ELSE @,
                       !.mode = IF k = Four THEN Way(n) ELSE @, !.left = IF k = Four THEN HwDuration ELSE @]
  <2>1. AfterWrites(n, k) = d BY <1>2 DEF AfterWrites
  <2>2. Way(n) \in -1..1 /\ (Way(n) = 1 <=> n > 0) /\ (Way(n) = -1 <=> n < 0) BY <1>2 DEF Way
  <2>3. d \in HwDevs
    <3>1. /\ (IF k > 0 /\ n > 0 THEN n ELSE hwDev.ch) \in Nat
          /\ (IF k > 0 /\ n < 0 THEN -n ELSE hwDev.dis) \in Nat
          /\ (IF k = Four THEN Way(n) ELSE hwDev.mode) \in -1..1
          /\ (IF k = Four THEN HwDuration ELSE hwDev.left) \in 0..HwDuration
      BY <2>2
    <3> QED BY <3>1
  <2>4. /\ d.mode = (IF k = Four THEN Way(n) ELSE hwDev.mode)
        /\ d.ch = (IF k > 0 /\ n > 0 THEN n ELSE hwDev.ch)
        /\ d.dis = (IF k > 0 /\ n < 0 THEN -n ELSE hwDev.dis)
        /\ d.left = (IF k = Four THEN HwDuration ELSE hwDev.left)
    OBVIOUS
  <2> HIDE DEF d
  <2> QED BY <1>2, <2>1, <2>2, <2>3, <2>4 DEF Forced
<1> QED BY <1>1, <1>2

LEMMA StandingIs == HwTypeOK => Standing \in HwAsks \cup {0} /\ Standing \in Int
<1> SUFFICES ASSUME HwTypeOK PROVE Standing \in HwAsks \cup {0} /\ Standing \in Int OBVIOUS
<1>1. CASE hwLast = {} BY <1>1 DEF Standing
<1>2. CASE hwLast # {}
  <2>1. PICK n \in HwAsks \cup {0} : hwLast = {n} BY <1>2 DEF HwTypeOK
  <2>2. n \in Int BY HwNumbers
  <2> QED BY <1>2, <2>1, <2>2, OneMax DEF Standing
<1> QED BY <1>1, <1>2

LEMMA HarvestIs == HwTyped => Harvests \subseteq HwSuns \cup HwAsks \cup {0}
<1> SUFFICES ASSUME HwTyped PROVE Harvests \subseteq HwSuns \cup HwAsks \cup {0} OBVIOUS
<1>1. hwSun \in HwSuns /\ hwSun \in Int /\ hwDev.ch \in Int BY HwNumbers DEF HwTyped, HwTypeOK, HwDevs
<1>2. CASE hwDev.mode = 1
  <2>1. Min({hwSun, hwDev.ch}) \in {hwSun, hwDev.ch} BY <1>1, TwoMin
  <2> QED BY <1>1, <1>2, <2>1 DEF Harvests, HwTyped
<1>3. CASE hwDev.mode # 1 BY <1>1, <1>3 DEF Harvests
<1> QED BY <1>2, <1>3

(* What a poll does to the gate *)
HwGateTyped ==
    /\ hwStrings \in BOOLEAN /\ hwLit \in BOOLEAN /\ hwAge \in 0..HwProbe /\ hwUntil \in -1..HwWindow
    /\ hwSeen \in {{}} \cup {{n} : n \in HwSuns \cup HwAsks \cup {0}}
LEMMA GateSaysTyped == ASSUME NEW lit \in BOOLEAN, GateSays(lit)
  PROVE hwLit' \in BOOLEAN /\ hwAge' \in 0..HwProbe /\ hwUntil' \in -1..HwWindow
<1>1. hwAge' \in 0..HwProbe /\ hwUntil' \in -1..HwWindow
  <2>1. hwAge' = 0 /\ hwUntil' = -1 BY DEF GateSays
  <2>2. 0 \in 0..HwProbe /\ -1 \in -1..HwWindow BY HwNumbers
  <2> QED BY <2>1, <2>2
<1>2. hwLit' \in BOOLEAN BY DEF GateSays
<1> QED BY <1>1, <1>2
LEMMA ZeroSeen == {0} \in {{}} \cup {{n} : n \in HwSuns \cup HwAsks \cup {0}}
OBVIOUS
LEMMA GateNightTyped == GateNight => HwGateTyped'
<1> SUFFICES ASSUME GateNight PROVE HwGateTyped' OBVIOUS
<1>1. GateSays(FALSE) /\ hwSeen' = {0} /\ hwStrings' \in BOOLEAN BY DEF GateNight
<1>2. FALSE \in BOOLEAN OBVIOUS
<1>3. hwLit' \in BOOLEAN /\ hwAge' \in 0..HwProbe /\ hwUntil' \in -1..HwWindow BY <1>1, <1>2, GateSaysTyped
<1> QED BY <1>1, <1>3, ZeroSeen DEF HwGateTyped
LEMMA GateReadsTyped ==
  ASSUME HwGateTyped, NEW h \in HwSuns \cup HwAsks \cup {0}, GateReads(h)
  PROVE  HwGateTyped'
<1> USE HwNumbers DEF HwGateTyped
<1>1. hwStrings' \in BOOLEAN BY DEF GateReads
<1>2. hwSeen' \in {{}} \cup {{n} : n \in HwSuns \cup HwAsks \cup {0}} BY DEF GateReads
<1>3. hwLit' \in BOOLEAN /\ hwAge' \in 0..HwProbe /\ hwUntil' \in -1..HwWindow
  <2>1. CASE h > Threshold 
    <3>1. TRUE \in BOOLEAN /\ GateSays(TRUE) BY <2>1 DEF GateReads
    <3> QED BY <3>1, GateSaysTyped
  <2>2. CASE ~(h > Threshold) /\ Believable(h)
    <3>1. FALSE \in BOOLEAN /\ GateSays(FALSE) BY <2>2 DEF GateReads
    <3> QED BY <3>1, GateSaysTyped
  <2>3. CASE ~(h > Threshold) /\ ~Believable(h)
    <3>1. CASE hwUntil >= 0 BY <2>3, <3>1 DEF GateReads
    <3>2. CASE ~(hwUntil >= 0)
      <4>1. (IF hwAge >= HwProbe THEN HwWindow ELSE -1) \in -1..HwWindow OBVIOUS
      <4> QED BY <2>3, <3>2, <4>1 DEF GateReads
    <3> QED BY <3>1, <3>2
  <2> QED BY <2>1, <2>2, <2>3
<1> QED BY <1>1, <1>2, <1>3

LEMMA HwPolls == HwInv /\ (HwPoll \/ HwPollFails) => HwInv'
<1> SUFFICES ASSUME HwInv, HwPoll \/ HwPollFails PROVE HwInv' OBVIOUS
<1>1. HwGateTyped BY DEF HwInv, HwTyped, HwTypeOK, HwGateTyped
<1>2. HwGateTyped'
  <2>1. CASE HwPoll
    <3>1. CASE hwSun = 0 BY <2>1, <3>1, GateNightTyped DEF HwPoll
    <3>2. CASE hwSun # 0
      <4>1. PICK h \in Harvests : GateReads(h) BY <2>1, <3>2 DEF HwPoll
      <4> QED BY <1>1, <4>1, HarvestIs, GateReadsTyped DEF HwInv
    <3> QED BY <3>1, <3>2
  <2>2. CASE HwPollFails
    <3>1. hwStrings' \in BOOLEAN
      <4>1. hwStrings' = hwStrings \/ hwStrings' = (hwSun > 0) BY <2>2 DEF HwPollFails
      <4>2. CASE hwStrings' = hwStrings BY <1>1, <4>2 DEF HwGateTyped
      <4>3. CASE hwStrings' = (hwSun > 0) BY <4>3
      <4> QED BY <4>1, <4>2, <4>3
    <3>2. CASE hwStrings' BY <2>2, <3>1, <3>2, <1>1 DEF HwPollFails, HwGateTyped
    <3>3. CASE ~hwStrings' 
      <4>1. FALSE \in BOOLEAN /\ GateSays(FALSE) /\ hwSeen' = {0} BY <2>2, <3>3 DEF HwPollFails
      <4>2. hwLit' \in BOOLEAN /\ hwAge' \in 0..HwProbe /\ hwUntil' \in -1..HwWindow BY <4>1, GateSaysTyped
      <4> QED BY <3>1, <4>1, <4>2, ZeroSeen DEF HwGateTyped
    <3> QED BY <3>2, <3>3
  <2> QED BY <2>1, <2>2
<1>3. hwLeft' \in 0..HwMaxUpsets
  <2>1. hwLeft' = hwLeft \/ (hwLeft > 0 /\ hwLeft' = hwLeft - 1) BY DEF HwPoll, HwPollFails
  <2>2. hwLeft \in 0..HwMaxUpsets BY DEF HwInv, HwTyped, HwTypeOK
  <2> QED BY <2>1, <2>2, HwNumbers
<1>4. /\ UNCHANGED <<hwSun, hwAsk, hwPath, hwDev, hwLast, hwSince, hwTorn>>
      /\ hwTurn' = "apply"
  BY DEF HwPoll, HwPollFails
<1>5. HwTyped' BY <1>2, <1>3, <1>4 DEF HwInv, HwTyped, HwTypeOK, HwGateTyped
<1>6. InForce' BY <1>4 DEF HwInv, InForce, Forced, Standing
<1> QED BY <1>5, <1>6 DEF HwInv

LEMMA AppliedIs == HwTypeOK => Applied \in HwAsks \cup {0} /\ Applied \in Int
BY HwNumbers DEF HwTypeOK, Applied

LEMMA HwApplies == HwInv /\ HwApply => HwInv'
<1> SUFFICES ASSUME HwInv, HwApply PROVE HwInv' OBVIOUS
<1>1. Applied \in HwAsks \cup {0} /\ Applied \in Int BY AppliedIs DEF HwInv, HwTyped
<1>2. UNCHANGED <<hwSun, hwAsk, hwPath, gate, hwLeft>> /\ hwTurn' = "tick" BY DEF HwApply
<1>3. CASE ShouldWrite(Applied)
  <2>1. hwDev' = AfterWrites(Applied, Four) /\ hwLast' = {Applied} /\ hwSince' = 0 /\ hwTorn' = FALSE
    BY <1>3 DEF HwApply
  <2>2. Four \in 0..Four BY DEF Four
  <2>3. /\ hwDev' \in HwDevs /\ (hwDev'.mode = 1 => hwDev'.ch \in HwAsks)
        /\ Forced(hwDev') = Applied /\ (hwDev'.mode # 0 => hwDev'.left = HwDuration)
    BY <1>1, <2>1, <2>2, WritesAre DEF HwInv, HwTyped
  <2>4. Standing' = Applied BY <1>1, <2>1, OneMax DEF Standing
  <2>5. hwSince' \in 0..HwRefresh BY <2>1, HwNumbers
  <2>6. hwLast' \in {{}} \cup {{n} : n \in HwAsks \cup {0}} BY <1>1, <2>1
  <2>7. HwTyped' BY <1>2, <2>1, <2>3, <2>5, <2>6 DEF HwInv, HwTyped, HwTypeOK, gate, HwDevs
  <2>8. InForce' BY <2>1, <2>3, <2>4, HwNumbers DEF InForce
  <2> QED BY <2>7, <2>8 DEF HwInv
<1>4. CASE ~ShouldWrite(Applied)
  <2>1. UNCHANGED <<hwDev, hwLast, hwSince, hwTorn>> BY <1>4 DEF HwApply
  <2>2. hwLast # {} /\ hwSince < HwRefresh BY <1>4, HwNumbers DEF ShouldWrite, HwInv, HwTyped, HwTypeOK
  <2>3. HwTyped' BY <1>2, <2>1 DEF HwInv, HwTyped, HwTypeOK, gate
  <2>4. InForce' BY <2>1, <2>2 DEF HwInv, InForce, Forced, Standing
  <2> QED BY <2>3, <2>4 DEF HwInv
<1> QED BY <1>3, <1>4

LEMMA HwStops == HwInv /\ (HwApplyFails \/ HwStandby) => HwInv'
<1> SUFFICES ASSUME HwInv, HwApplyFails \/ HwStandby PROVE HwInv' OBVIOUS
<1>1. Applied \in HwAsks \cup {0} /\ Applied \in Int BY AppliedIs DEF HwInv, HwTyped
<1>2. UNCHANGED <<hwSun, hwAsk, hwPath, gate>> /\ hwTurn' = "tick" BY DEF HwApplyFails, HwStandby
<1>3. hwLeft' \in 0..HwMaxUpsets
  <2>1. hwLeft > 0 /\ hwLeft' = hwLeft - 1 BY DEF HwApplyFails, HwStandby
  <2>2. hwLeft \in 0..HwMaxUpsets BY DEF HwInv, HwTyped, HwTypeOK
  <2> QED BY <2>1, <2>2, HwNumbers
<1>4. hwDev' \in HwDevs /\ (hwDev'.mode = 1 => hwDev'.ch \in HwAsks)
  <2>1. CASE HwApplyFails
    <3>1. PICK k \in 0..Four - 1 : hwDev' = AfterWrites(Applied, k)
      BY <2>1 DEF HwApplyFails, Four
    <3>2. k \in 0..Four /\ k # Four BY DEF Four
    <3> QED BY <1>1, <3>1, <3>2, WritesAre DEF HwInv, HwTyped
  <2>2. CASE HwStandby
    <3>1. Four \in 0..Four /\ 0 \in Int BY DEF Four
    <3>2. hwDev' = AfterWrites(0, Four) BY <2>2 DEF HwStandby
    <3> QED BY <3>1, <3>2, WritesAre DEF HwInv, HwTyped
  <2> QED BY <2>1, <2>2
<1>5. hwSince' \in 0..HwRefresh BY HwNumbers DEF HwApplyFails, HwStandby, HwInv, HwTyped, HwTypeOK
<1>6. hwLast' \in {{}} \cup {{n} : n \in HwAsks \cup {0}} /\ hwTorn' \in BOOLEAN
  BY DEF HwApplyFails, HwStandby, HwInv, HwTyped, HwTypeOK
<1>7. HwTyped' BY <1>2, <1>3, <1>4, <1>5, <1>6 DEF HwInv, HwTyped, HwTypeOK, gate, HwDevs
<1>8. InForce' BY DEF HwApplyFails, HwStandby, InForce
<1> QED BY <1>7, <1>8 DEF HwInv

LEMMA AgedIs ==
  ASSUME hwDev \in HwDevs
  PROVE  /\ Aged(hwDev) \in HwDevs
         /\ Aged(hwDev).ch = hwDev.ch /\ Aged(hwDev).dis = hwDev.dis
         /\ Aged(hwDev).mode = (IF hwDev.left <= 1 THEN 0 ELSE hwDev.mode)
         /\ hwDev.left >= 1 => Aged(hwDev).left = hwDev.left - 1
<1> USE HwNumbers
<1>1. hwDev.left \in 0..HwDuration /\ hwDev.calm \in 0..HwSettle /\ hwDev.mode \in -1..1 BY DEF HwDevs
<1> DEFINE l == Max({hwDev.left - 1, 0})
           c == IF hwDev.mode = 0 THEN Min({hwDev.calm + 1, HwSettle}) ELSE 0
           m == IF hwDev.left <= 1 THEN 0 ELSE hwDev.mode
<1>2. l \in 0..HwDuration /\ (hwDev.left >= 1 => l = hwDev.left - 1)
  <2>1. l = IF hwDev.left - 1 >= 0 THEN hwDev.left - 1 ELSE 0 BY <1>1, TwoMax
  <2> QED BY <1>1, <2>1
<1>3. c \in 0..HwSettle
  <2>1. Min({hwDev.calm + 1, HwSettle}) = IF hwDev.calm + 1 <= HwSettle THEN hwDev.calm + 1 ELSE HwSettle BY <1>1, TwoMin
  <2> QED BY <1>1, <2>1
<1>4. m \in -1..1 BY <1>1
<1> HIDE DEF l, c, m
<1>5. Aged(hwDev) = [hwDev EXCEPT !.left = l, !.mode = m, !.calm = c] BY DEF Aged, l, c, m
<1>6. Aged(hwDev) \in HwDevs BY <1>2, <1>3, <1>4, <1>5 DEF HwDevs
<1>7. Aged(hwDev).ch = hwDev.ch /\ Aged(hwDev).dis = hwDev.dis /\ Aged(hwDev).mode = m /\ Aged(hwDev).left = l
  BY <1>5 DEF HwDevs
<1> QED BY <1>2, <1>6, <1>7 DEF m

LEMMA HwTicks == HwInv /\ HwTick => HwInv'
<1> SUFFICES ASSUME HwInv, HwTick PROVE HwInv' OBVIOUS
<1> USE HwNumbers
<1>1. PICK sun \in HwSuns, ask \in HwAsks :
        /\ <<sun, ask>> # <<hwSun, hwAsk>> => hwLeft > 0
        /\ hwSun' = sun /\ hwAsk' = ask /\ hwLeft' = IF <<sun, ask>> = <<hwSun, hwAsk>> THEN hwLeft ELSE hwLeft - 1
  BY DEF HwTick
<1>2. /\ hwTurn = "tick" /\ hwTurn' = "poll" /\ hwDev' = Aged(hwDev)
      /\ hwSince' = Min({hwSince + 1, HwRefresh}) /\ hwAge' = Min({hwAge + 1, HwProbe})
      /\ hwUntil' = IF hwUntil > 0 THEN hwUntil - 1 ELSE hwUntil
      /\ UNCHANGED <<hwPath, hwLast, hwStrings, hwLit, hwSeen, hwTorn>>
  BY DEF HwTick
<1>3. /\ hwSince \in 0..HwRefresh /\ hwAge \in 0..HwProbe /\ hwUntil \in -1..HwWindow /\ hwLeft \in 0..HwMaxUpsets
      /\ hwDev \in HwDevs
  BY DEF HwInv, HwTyped, HwTypeOK
<1>4. hwSince' = (IF hwSince + 1 <= HwRefresh THEN hwSince + 1 ELSE HwRefresh) /\ hwSince' \in 0..HwRefresh
  <2>1. Min({hwSince + 1, HwRefresh}) = IF hwSince + 1 <= HwRefresh THEN hwSince + 1 ELSE HwRefresh BY <1>3, TwoMin
  <2> QED BY <1>2, <1>3, <2>1
<1>5. hwAge' \in 0..HwProbe
  <2>1. Min({hwAge + 1, HwProbe}) = IF hwAge + 1 <= HwProbe THEN hwAge + 1 ELSE HwProbe BY <1>3, TwoMin
  <2> QED BY <1>2, <1>3, <2>1
<1>6. hwUntil' \in -1..HwWindow /\ hwLeft' \in 0..HwMaxUpsets BY <1>1, <1>2, <1>3
<1>7. HwTyped'
  <2>1. hwDev' \in HwDevs /\ (hwDev'.mode = 1 => hwDev'.ch \in HwAsks)
    BY <1>2, <1>3, AgedIs DEF HwInv, HwTyped
  <2> QED BY <1>1, <1>2, <1>4, <1>5, <1>6, <2>1 DEF HwInv, HwTyped, HwTypeOK, HwDevs
<1>8. InForce'
  <2> SUFFICES ASSUME hwLast # {}, ~hwTorn
               PROVE  Forced(hwDev') = Standing /\ (hwDev'.mode # 0 => hwDev'.left + hwSince' = HwDuration)
    BY <1>2 DEF InForce, Standing
  <2>1. CASE hwDev.mode = 0
    <3>1. hwDev'.mode = 0 BY <1>2, <1>3, <2>1, AgedIs
    <3> QED BY <2>1, <3>1 DEF HwInv, InForce, Forced
  <2>2. CASE hwDev.mode # 0
    <3>1. hwDev.left + hwSince = HwDuration /\ hwSince < HwRefresh BY <1>2, <2>2 DEF HwInv, InForce
    <3>2. hwDev.left \in Nat /\ hwDev.left > 1 BY <1>3, <3>1 DEF HwDevs
    <3>3. hwDev'.mode = hwDev.mode /\ hwDev'.left = hwDev.left - 1 /\ hwDev'.ch = hwDev.ch /\ hwDev'.dis = hwDev.dis
      BY <1>2, <1>3, <3>2, AgedIs
    <3>4. Forced(hwDev') = Forced(hwDev) BY <3>3 DEF Forced
    <3> QED BY <1>3, <1>4, <3>1, <3>2, <3>3, <3>4 DEF HwInv, InForce
  <2> QED BY <2>1, <2>2
<1> QED BY <1>7, <1>8 DEF HwInv

LEMMA HwSteps == HwInv /\ [HwNext]_hwVars => HwInv'
<1> SUFFICES ASSUME HwInv, [HwNext]_hwVars PROVE HwInv' OBVIOUS
<1>1. CASE UNCHANGED hwVars
  BY <1>1 DEF hwVars, HwInv, HwTyped, HwTypeOK, InForce, Forced, Standing
<1> QED BY <1>1, HwPolls, HwApplies, HwStops, HwTicks DEF HwNext

(* What the Huawei driver holds to be in force is in force, unless a write failed half-way: *)
(* a command is renewed before its duration runs out (drivers/huawei.py, _should_write()).    *)
THEOREM CommandCorrect == HwSpec => [](HwTypeOK /\ CommandStands)
<1>1. HwInv => HwTypeOK /\ CommandStands BY DEF HwInv, HwTyped, InForce, CommandStands
<1> QED BY <1>1, HwStarts, HwSteps, PTL DEF HwSpec

-----------------------------------------------------------------------------
(* The suite: its parts share no variable, and the ones out of focus stand still. *)
DevicesAll == RgTypeOK /\ DvInv /\ HwInv

(* Devices obey: nothing beyond old and new while a command is written, no window     *)
(* narrower than asked, and what the Huawei driver holds to be in force is; with the    *)
(* regulator's powers inside their limit (drivers/*.py, __init__.py).                     *)
THEOREM DevicesCorrect == DevicesSpec => []DeviceObeys
<1>1. DevicesInit => DevicesAll BY RgStarted, DvStarts, HwStarts DEF DevicesInit, DevicesAll
<1>2. DevicesAll /\ [DevicesNext]_devicesVars => DevicesAll'
  <2> SUFFICES ASSUME DevicesAll, [DevicesNext]_devicesVars PROVE DevicesAll' OBVIOUS
  <2>1. [RgNext]_rgVars /\ [DvNext]_dvVars /\ [HwNext]_hwVars
    <3>1. CASE UNCHANGED devicesVars BY <3>1 DEF devicesVars
    <3>2. CASE DevicesNext BY <3>2 DEF DevicesNext
    <3> QED BY <3>1, <3>2
  <2> QED BY <2>1, RgSteps, DvSteps, HwSteps DEF DevicesAll
<1>3. DevicesAll => DeviceObeys
  BY DvSpan DEF DevicesAll, DeviceObeys, DevicesTypeOK, DvInv, DvTyped, HwInv, HwTyped, InForce, CommandStands
<1> QED BY <1>1, <1>2, <1>3, PTL DEF DevicesSpec

=============================================================================
