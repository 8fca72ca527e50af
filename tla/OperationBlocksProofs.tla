------------------------ MODULE OperationBlocksProofs -----------------------
(***************************************************************************)
(* OperationBlocks for every fleet: its types, the switch that holds, and   *)
(* the lists that cover every order.                                       *)
(***************************************************************************)
EXTENDS OperationBlocks, TLAPS

-----------------------------------------------------------------------------
(* Type correctness *)

LEMMA GatedType ==
  ASSUME NEW b \in Batteries, NEW p \in Orders
  PROVE  Gated(b, p) \in Orders
BY DEF Gated, Orders

LEMMA InitType == Init => TypeOK
<1> SUFFICES ASSUME Init PROVE TypeOK
  OBVIOUS
<1>1. /\ setpoint \in [Batteries -> Orders] /\ known \in [Batteries -> Orders]
      /\ listed \in [Batteries -> Orders] /\ walk \in [Batteries -> Orders]
      /\ prev \in Orders /\ goal \in Orders
  BY DEF Init, Orders
<1>2. /\ at \in [Tasks -> Batteries \union {None}] /\ net \in [Tasks -> Orders]
      /\ tries \in [Tasks -> 0..1] /\ ahead \in [Tasks -> SUBSET Tasks]
  BY DEF Init, Orders
<1>3. crashes \in 0..MaxCrashes
  BY SetsAssumption DEF Init
<1>4. first \in BOOLEAN /\ changed \in BOOLEAN
  BY DEF Init
<1> QED BY <1>1, <1>2, <1>3, <1>4 DEF Init, TypeOK

\* The variables of the writes keep their types when a write is queued or
\* given back.
WritesType ==
    /\ at \in [Tasks -> Batteries \union {None}] /\ net \in [Tasks -> Orders]
    /\ tries \in [Tasks -> 0..1] /\ ahead \in [Tasks -> SUBSET Tasks]

LEMMA JoinsType ==
  ASSUME TypeOK, NEW t \in Tasks, NEW b \in Batteries, NEW p \in Orders,
         Joins(t, b, p)
  PROVE  WritesType'
BY GatedType DEF TypeOK, Joins, WritesType

LEMMA LeavesType ==
  ASSUME TypeOK, NEW t \in Tasks, Leaves(t)
  PROVE  WritesType'
BY DEF TypeOK, Leaves, WritesType

LEMMA ReturnsType ==
  ASSUME TypeOK, NEW t \in Tasks, NEW b \in Batteries, Returns(t, b)
  PROVE  /\ listed' \in [Batteries -> Orders] /\ walk' \in [Batteries -> Orders]
         /\ todo' \subseteq Batteries /\ changed' \in BOOLEAN
<1>1. "idle" \in Orders
  BY DEF Orders
<1>2. Unlisted(b) \in [Batteries -> Orders]
  BY <1>1 DEF Unlisted, TypeOK
<1> QED BY <1>1, <1>2 DEF Returns, TypeOK

LEMMA StepType == TypeOK /\ [Next]_vars => TypeOK'
<1> SUFFICES ASSUME TypeOK, [Next]_vars PROVE TypeOK'
  OBVIOUS
<1>0. "idle" \in Orders /\ Directions \subseteq Orders
      /\ [b \in Batteries |-> "idle"] \in [Batteries -> Orders]
  BY DEF Orders
<1>u. \A b \in Batteries : Unlisted(b) \in [Batteries -> Orders]
  BY <1>0 DEF Unlisted, TypeOK
<1>1. CASE UNCHANGED vars
  BY <1>1 DEF TypeOK, vars, world, registry, belief, cycle, writes
<1>2. CASE Refresh
  BY <1>2 DEF Refresh, TypeOK, world, belief, writes
<1>3. CASE StopAll
  BY <1>3, <1>0 DEF StopAll, TypeOK, world, registry, belief, writes
<1>4. CASE StopBegin
  BY <1>4 DEF StopBegin, Walks, TypeOK, world, registry, belief, writes
<1>5. CASE StopEnd
  BY <1>5 DEF StopEnd, TypeOK, world, registry, belief, writes
<1>6. CASE NoReading \/ Hold
  BY <1>6 DEF NoReading, Hold, TypeOK, world, registry, belief, writes
<1>7. CASE Disengage
  <2>1. prev' \in Orders
    BY <1>7, <1>0 DEF Disengage, TypeOK
  <2> QED BY <1>7, <1>0, <2>1 DEF Disengage, TypeOK, world, registry, writes
<1>8. CASE Exhausted
  BY <1>8, <1>0 DEF Exhausted, TypeOK, world, registry, belief, writes
<1>9. CASE Finish
  <2>1. prev' \in Orders /\ listed' \in [Batteries -> Orders]
    BY <1>9, <1>0 DEF Finish, TypeOK
  <2> QED BY <1>9, <2>1 DEF Finish, TypeOK, world, registry, writes
<1>10. ASSUME NEW d \in Directions, Engage(d) PROVE TypeOK'
  <2>1. prev' \in Orders /\ goal' \in Orders
    BY <1>10, <1>0 DEF Engage, TypeOK
  <2>2. PICK selected \in SUBSET {b \in Batteries : ~Blocked(b, d)} :
          /\ share' \in SUBSET selected /\ todo' = Addressed(selected)
          /\ listed' = [b \in Batteries |-> IF b \in selected THEN d ELSE "idle"]
    BY <1>10 DEF Engage
  <2>3. share' \subseteq Batteries /\ todo' \subseteq Batteries
        /\ listed' \in [Batteries -> Orders]
    BY <2>2, <1>0 DEF Addressed
  <2> QED BY <1>10, <2>1, <2>3 DEF Engage, TypeOK, world, registry, writes
<1>11. ASSUME NEW d \in Directions, FirstExhausted(d) PROVE TypeOK'
  BY <1>11, <1>0 DEF FirstExhausted, TypeOK, world, registry, writes
<1>12. ASSUME NEW b \in Batteries, StopNext(b) PROVE TypeOK'
  <2>1. walk' \in [Batteries -> Orders] /\ listed' \in [Batteries -> Orders]
    BY <1>12, <1>0, <1>u DEF StopNext, TypeOK
  <2>2. WritesType'
    <3>1. CASE UNCHANGED writes
      BY <3>1 DEF TypeOK, WritesType, writes
    <3>2. CASE Joins(Cycle, b, "idle")
      BY <3>2, JoinsType, <1>0 DEF Tasks
    <3> QED BY <1>12, <3>1, <3>2 DEF StopNext
  <2> QED BY <1>12, <2>1, <2>2 DEF StopNext, TypeOK, world, registry, WritesType
<1>13. ASSUME NEW b \in Batteries, Dispatch(b) PROVE TypeOK'
  <2>1. Wanted(b) \in Orders
    BY <1>0 DEF Wanted, TypeOK
  <2>2. WritesType' /\ todo' \subseteq Batteries
    <3>1. CASE UNCHANGED writes
      BY <3>1, <1>13 DEF TypeOK, WritesType, writes, Dispatch
    <3>2. CASE Joins(Cycle, b, Wanted(b))
      BY <3>2, <1>13, <2>1, JoinsType DEF Tasks, Dispatch, TypeOK
    <3> QED BY <1>13, <3>1, <3>2 DEF Dispatch
  <2> QED BY <1>13, <2>2 DEF Dispatch, TypeOK, world, registry, belief, WritesType
<1>14. ASSUME NEW t \in Tasks, Lands(t) PROVE TypeOK'
  <2>1. PICK b \in Batteries :
          /\ setpoint' = [setpoint EXCEPT ![b] = net[t]]
          /\ known' = [known EXCEPT ![b] = net[t]]
          /\ Leaves(t) /\ Returns(t, b)
          /\ UNCHANGED <<world, registry, prev, first, pc, goal, share, stopped>>
    BY <1>14 DEF Lands
  <2>2. setpoint' \in [Batteries -> Orders] /\ known' \in [Batteries -> Orders]
    BY <2>1 DEF TypeOK
  <2>3. WritesType'
    BY <2>1, LeavesType
  <2>4. /\ listed' \in [Batteries -> Orders] /\ walk' \in [Batteries -> Orders]
        /\ todo' \subseteq Batteries /\ changed' \in BOOLEAN
    BY <2>1, ReturnsType
  <2> QED BY <2>1, <2>2, <2>3, <2>4 DEF TypeOK, world, registry, WritesType
<1>15. ASSUME NEW t \in Tasks, Fails(t) PROVE TypeOK'
  <2>1. PICK b \in Batteries :
          /\ setpoint' \in {setpoint, [setpoint EXCEPT ![b] = net[t]]}
          /\ \/ /\ ~GivesUp(t) /\ tries' = [tries EXCEPT ![t] = tries[t] + 1]
                /\ ahead' = [u \in Tasks |->
                               IF u = t THEN {v \in Tasks \ {t} : at[v] = b}
                               ELSE ahead[u] \ {t}]
                /\ UNCHANGED <<at, net, listed, walk, todo, changed>>
             \/ GivesUp(t) /\ Leaves(t) /\ Returns(t, b)
          /\ UNCHANGED <<known, world, registry, prev, first, pc, goal, share,
                         stopped>>
    BY <1>15 DEF Fails
  <2>2. setpoint' \in [Batteries -> Orders]
    BY <2>1 DEF TypeOK
  <2>3. /\ WritesType'
        /\ listed' \in [Batteries -> Orders] /\ walk' \in [Batteries -> Orders]
        /\ todo' \subseteq Batteries /\ changed' \in BOOLEAN
    <3>1. CASE ~GivesUp(t)
      <4>1. tries' \in [Tasks -> 0..1]
        BY <2>1, <3>1 DEF GivesUp, TypeOK
      <4>2. ahead' \in [Tasks -> SUBSET Tasks]
        BY <2>1, <3>1 DEF TypeOK
      <4> QED BY <2>1, <3>1, <4>1, <4>2 DEF TypeOK, WritesType
    <3>2. CASE GivesUp(t)
      BY <2>1, <3>2, LeavesType, ReturnsType
    <3> QED BY <3>1, <3>2
  <2> QED BY <2>1, <2>2, <2>3 DEF TypeOK, world, registry, WritesType
<1>16. ASSUME NEW b \in Batteries, Poll(b) PROVE TypeOK'
  BY <1>16 DEF Poll, TypeOK, world, registry, belief, cycle, writes
<1>17. ASSUME NEW b \in Batteries, LinkTurns(b) PROVE TypeOK'
  BY <1>17 DEF LinkTurns, TypeOK, registry, belief, cycle, writes
<1>18. ASSUME NEW b \in Batteries, NEW d \in Directions, TurnOn(b, d)
       PROVE  TypeOK'
  BY <1>18 DEF TurnOn, TypeOK, world, belief, cycle, writes
<1>19. ASSUME NEW b \in Batteries, NEW d \in Directions, NEW t \in Calls,
              TurnOff(t, b, d)
       PROVE  TypeOK'
  <2>1. WritesType' /\ listed' \in [Batteries -> Orders]
    <3>1. CASE UNCHANGED writes
      BY <3>1, <1>19, <1>u DEF TypeOK, WritesType, writes, TurnOff, Joins
    <3>2. CASE Joins(t, b, "idle") /\ UNCHANGED listed
      BY <3>2, <1>0, JoinsType DEF Tasks, TypeOK
    <3> QED BY <1>19, <3>1, <3>2 DEF TurnOff
  <2>2. stopped' \subseteq byUser' /\ byUser' \subseteq UserMay
    BY <1>19 DEF TurnOff, TypeOK
  <2> QED BY <1>19, <2>1, <2>2 DEF TurnOff, TypeOK, world, cycle, WritesType
<1>20. CASE Crash
  <2>1. crashes' \in 0..MaxCrashes
    BY <1>20, SetsAssumption DEF Crash, TypeOK
  <2> QED BY <1>20, <1>0, <2>1 DEF Crash, TypeOK
<1> QED BY <1>1, <1>2, <1>3, <1>4, <1>5, <1>6, <1>7, <1>8, <1>9, <1>10, <1>11,
          <1>12, <1>13, <1>14, <1>15, <1>16, <1>17, <1>18, <1>19, <1>20
       DEF Next, Control

\* Every variable of the blocks keeps its type, for every fleet, any number of
\* switch calls in progress, and whatever fails.
THEOREM TypeCorrect == Spec => []TypeOK
BY InitType, StepType, PTL DEF Spec

-----------------------------------------------------------------------------
(* A turn-off holds *)

\* What is off and stopped answers and is not being written, and a battery that
\* is still in the direction has a write in its line.
Off(b, d) ==
    /\ b \in up
    /\ \A t \in Tasks : at[t] = b => net[t] # d
    /\ (\A t \in Tasks : at[t] # b) => setpoint[b] # d

AllOff == \A b \in Batteries, d \in Directions :
              <<b, d>> \in stopped => Off(b, d)

LEMMA InitOff == Init => AllOff
BY DEF Init, AllOff

\* A write that is queued is not of a direction that is off.
LEMMA JoinsOff ==
  ASSUME TypeOK, AllOff, NEW t \in Tasks, NEW c \in Batteries, NEW p \in Orders,
         at[t] = None, Joins(t, c, p), UNCHANGED <<setpoint, up>>,
         stopped' \subseteq stopped
  PROVE  AllOff'
<1> SUFFICES ASSUME NEW b \in Batteries, NEW d \in Directions,
                    <<b, d>> \in stopped'
             PROVE  Off(b, d)'
  BY DEF AllOff
<1>1. <<b, d>> \in byUser /\ Off(b, d)
  BY DEF AllOff, TypeOK
<1>2. Gated(b, p) # d
  BY <1>1 DEF Gated, Blocked, Directions
<1>3. \A u \in Tasks : at'[u] = b => net'[u] # d
  BY <1>1, <1>2, SetsAssumption DEF Joins, Off, TypeOK
<1>4. (\A u \in Tasks : at'[u] # b) => \A u \in Tasks : at[u] # b
  BY SetsAssumption DEF Joins, TypeOK
<1> QED BY <1>1, <1>3, <1>4 DEF Off

\* Nothing of Off changes.
LEMMA KeepsOff ==
  ASSUME TypeOK, AllOff, UNCHANGED <<setpoint, up, writes>>, stopped' \subseteq stopped
  PROVE  AllOff'
BY DEF AllOff, Off, writes

LEMMA StepOff ==
  ASSUME TypeOK, AllOff, [Next]_vars
  PROVE  AllOff'
<1>0. "idle" \in Orders
  BY DEF Orders
<1>1. CASE UNCHANGED vars
  BY <1>1, KeepsOff DEF vars, world
<1>2. CASE \/ Refresh \/ StopAll \/ StopBegin \/ StopEnd \/ NoReading
           \/ Hold \/ Disengage \/ Exhausted \/ Finish
           \/ \E d \in Directions : Engage(d) \/ FirstExhausted(d)
  <2>1. UNCHANGED <<setpoint, up, writes, stopped>>
    BY <1>2 DEF world, Refresh, StopAll, StopBegin, StopEnd, NoReading, Hold,
       Disengage, Exhausted, Finish, Engage, FirstExhausted
  <2> QED BY <2>1, KeepsOff
<1>3. ASSUME NEW b \in Batteries, StopNext(b) PROVE AllOff'
  <2>1. CASE UNCHANGED writes
    BY <1>3, <2>1, KeepsOff DEF StopNext, world
  <2>2. CASE Joins(Cycle, b, "idle")
    BY <1>3, <2>2, <1>0, JoinsOff DEF StopNext, Tasks, world
  <2> QED BY <1>3, <2>1, <2>2 DEF StopNext
<1>4. ASSUME NEW b \in Batteries, Dispatch(b) PROVE AllOff'
  <2>0. Wanted(b) \in Orders
    BY <1>0 DEF Wanted, TypeOK
  <2>1. CASE UNCHANGED writes
    BY <1>4, <2>1, KeepsOff DEF Dispatch, world
  <2>2. CASE Joins(Cycle, b, Wanted(b))
    BY <1>4, <2>0, <2>2, JoinsOff DEF Dispatch, Tasks, world
  <2> QED BY <1>4, <2>1, <2>2 DEF Dispatch
<1>5. ASSUME NEW t \in Tasks, Lands(t) PROVE AllOff'
  <2>1. PICK c \in Batteries :
          /\ at[t] = c /\ setpoint' = [setpoint EXCEPT ![c] = net[t]]
          /\ Leaves(t) /\ UNCHANGED <<up, stopped>>
    BY <1>5 DEF Lands, world
  <2> SUFFICES ASSUME NEW b \in Batteries, NEW d \in Directions,
                      <<b, d>> \in stopped'
               PROVE  Off(b, d)'
    BY DEF AllOff
  <2>2. Off(b, d)
    BY <2>1 DEF AllOff
  <2>3. \A u \in Tasks : at'[u] = b => at[u] = b /\ net'[u] = net[u]
    BY <2>1, SetsAssumption DEF Leaves, TypeOK
  <2>4. CASE b = c
    BY <2>1, <2>2, <2>3, <2>4 DEF Off, TypeOK
  <2>5. CASE b # c
    <3>1. \A u \in Tasks : at'[u] # b => at[u] # b
      BY <2>1, <2>5 DEF Leaves, TypeOK
    <3> QED BY <2>1, <2>2, <2>3, <2>5, <3>1 DEF Off, TypeOK
  <2> QED BY <2>4, <2>5
<1>6. ASSUME NEW t \in Tasks, Fails(t) PROVE AllOff'
  <2>1. PICK c \in Batteries :
          /\ at[t] = c /\ c \notin up
          /\ setpoint' \in {setpoint, [setpoint EXCEPT ![c] = net[t]]}
          /\ UNCHANGED <<at, net>> \/ Leaves(t)
          /\ UNCHANGED <<up, stopped>>
    BY <1>6 DEF Fails, world
  <2> SUFFICES ASSUME NEW b \in Batteries, NEW d \in Directions,
                      <<b, d>> \in stopped'
               PROVE  Off(b, d)'
    BY DEF AllOff
  <2>2. Off(b, d) /\ b # c
    BY <2>1 DEF AllOff, Off
  <2>3. setpoint'[b] = setpoint[b]
    BY <2>1, <2>2 DEF TypeOK
  <2>4. \A u \in Tasks : at'[u] = b => at[u] = b /\ net'[u] = net[u]
    BY <2>1, SetsAssumption DEF Leaves, TypeOK
  <2>5. \A u \in Tasks : at'[u] # b => at[u] # b
    BY <2>1, <2>2 DEF Leaves, TypeOK
  <2> QED BY <2>1, <2>2, <2>3, <2>4, <2>5 DEF Off
<1>7. ASSUME NEW b \in Batteries, Poll(b) PROVE AllOff'
  BY <1>7, KeepsOff DEF Poll, world
<1>8. ASSUME NEW c \in Batteries, LinkTurns(c) PROVE AllOff'
  <2>1. \A b \in Batteries : b # c /\ b \in up => b \in up'
    BY <1>8 DEF LinkTurns
  <2> QED BY <1>8, <2>1 DEF LinkTurns, AllOff, Off, writes
<1>9. ASSUME NEW b \in Batteries, NEW d \in Directions, TurnOn(b, d)
      PROVE  AllOff'
  BY <1>9, KeepsOff DEF TurnOn, world
<1>10. ASSUME NEW c \in Batteries, NEW e \in Directions, NEW t \in Calls,
              TurnOff(t, c, e)
       PROVE  AllOff'
  <2>1. CASE stopped' = stopped
    <3>1. CASE UNCHANGED writes
      BY <1>10, <2>1, <3>1, KeepsOff DEF TurnOff, world
    <3>2. CASE Joins(t, c, "idle")
      BY <1>10, <2>1, <3>2, <1>0, JoinsOff DEF TurnOff, Tasks, world
    <3> QED BY <1>10, <3>1, <3>2 DEF TurnOff
  <2>2. CASE stopped' # stopped
    <3>1. /\ stopped' = stopped \union {<<c, e>>}
          /\ c \in up /\ known[c] = setpoint[c] /\ up' = up
          /\ \A u \in Tasks : ~(at[u] = c /\ net[u] = e)
      BY <1>10, <2>2 DEF TurnOff, Clear, world
    <3>2. \A u \in Tasks : at'[u] = c => net'[u] # e
      BY <1>10, <2>2, <3>1, SetsAssumption
      DEF TurnOff, Joins, Gated, Blocked, writes, Directions, TypeOK, Tasks
    <3>3. (\A u \in Tasks : at'[u] # c) => setpoint'[c] # e
      <4>1. CASE Skips(c, "idle") /\ UNCHANGED writes
        <5>1. known[c] = "idle"
          BY <3>1, <4>1, SetsAssumption DEF Skips, Gated
        <5> QED BY <3>1, <5>1, <1>10 DEF TurnOff, Directions
      <4>2. CASE Joins(t, c, "idle")
        BY <4>2 DEF Joins, TypeOK, Tasks
      <4> QED BY <1>10, <2>2, <4>1, <4>2 DEF TurnOff
    <3>4. ASSUME NEW b \in Batteries, NEW d \in Directions, <<b, d>> \in stopped
          PROVE  Off(b, d)'
      <4>1. <<b, d>> \in byUser /\ Off(b, d)
        BY <3>4 DEF AllOff, TypeOK
      <4>2. CASE UNCHANGED writes
        BY <3>1, <4>1, <4>2, <1>10 DEF Off, writes, TurnOff
      <4>3. CASE Joins(t, c, "idle")
        <5>1. \A u \in Tasks : at'[u] = b => net'[u] # d
          BY <4>1, <4>3 DEF Joins, Off, TypeOK, Gated, Directions
        <5>2. (\A u \in Tasks : at'[u] # b) => \A u \in Tasks : at[u] # b
          BY <4>3, <1>10, SetsAssumption DEF Joins, TypeOK, TurnOff
        <5> QED BY <3>1, <4>1, <5>1, <5>2, <1>10 DEF Off, TurnOff
      <4> QED BY <1>10, <4>2, <4>3 DEF TurnOff
    <3>5. Off(c, e)'
      BY <3>1, <3>2, <3>3 DEF Off
    <3> QED BY <3>1, <3>4, <3>5 DEF AllOff
  <2> QED BY <2>1, <2>2
<1>11. CASE Crash
  BY <1>11 DEF Crash, AllOff
<1> QED BY <1>1, <1>2, <1>3, <1>4, <1>5, <1>6, <1>7, <1>8, <1>9, <1>10, <1>11
        DEF Next, Control

\* A battery that its allow switch stopped on up-to-date data stays out of the
\* direction while the switch is off and the battery answers, for every fleet,
\* any number of calls in progress and whatever fails elsewhere: whatever a
\* cycle had allocated, the check at the write drops it.
THEOREM TurnOffCorrect == Spec => []TurnOffHolds
<1>1. Init => TypeOK /\ AllOff
  BY InitType, InitOff
<1>2. TypeOK /\ AllOff /\ [Next]_vars => (TypeOK /\ AllOff)'
  BY StepType, StepOff
<1>3. AllOff => TurnOffHolds
  BY DEF AllOff, Off, TurnOffHolds
<1> QED BY <1>1, <1>2, <1>3, PTL DEF Spec

-----------------------------------------------------------------------------
(* Every order is on the lists *)

\* Every battery answers and the host has not restarted.
Steady == up = Batteries /\ crashes = 0 /\ known = setpoint

LEMMA InitSteady == Init => Steady
BY DEF Init, Steady

LEMMA StepSteady ==
  ASSUME Unsteady = {}, MaxCrashes = 0, TypeOK, Steady, [Next]_vars
  PROVE  Steady'
<1>1. CASE UNCHANGED vars
  BY <1>1 DEF Steady, vars, world
<1>2. CASE Control
  BY <1>2 DEF Control, Steady, Refresh, StopAll, StopBegin, StopEnd, NoReading,
     Hold, Disengage, Exhausted, Finish, Engage, FirstExhausted, StopNext, Dispatch,
     world
<1>3. ASSUME NEW t \in Tasks, Lands(t) \/ Fails(t) PROVE Steady'
  BY <1>3 DEF Steady, Lands, Fails, world
<1>4. ASSUME NEW b \in Batteries, Poll(b) \/ LinkTurns(b) PROVE Steady'
  BY <1>4 DEF Steady, Poll, LinkTurns, world, TypeOK
<1>5. ASSUME NEW b \in Batteries, NEW d \in Directions,
             TurnOn(b, d) \/ \E t \in Calls : TurnOff(t, b, d)
      PROVE  Steady'
  BY <1>5 DEF Steady, TurnOn, TurnOff, world
<1>6. ~Crash
  BY DEF Crash, Steady
<1> QED BY <1>1, <1>2, <1>3, <1>4, <1>5, <1>6 DEF Next

\* What the cycle is writing, what it has dispatched, and that it has
\* commanded nothing before its first execution.
Writing ==
    \A b \in Batteries : at[Cycle] = b =>
        \/ pc = "stop" /\ net[Cycle] = "idle"
        \/ pc = "dispatch" /\ b \in todo /\ net[Cycle] \in {"idle", Wanted(b)}

Dispatched ==
    pc = "dispatch" =>
        /\ goal = "idle" => share = {}
        /\ \A b \in share : listed[b] = goal
        /\ goal = "idle" => \A b \in Batteries \ todo : setpoint[b] = "idle"

Fresh == first => /\ \A b \in Batteries : setpoint[b] = "idle"
                  /\ prev = "idle" /\ (pc = "dispatch" => goal = "idle")

Covered == OrdersTracked /\ Writing /\ Dispatched /\ Fresh

LEMMA InitCovered == Init => Covered
<1> SUFFICES ASSUME Init PROVE Covered
  OBVIOUS
<1>1. Writing
  BY SetsAssumption DEF Init, Writing, Tasks
<1> QED BY <1>1 DEF Init, Covered, OrdersTracked, Dispatched, Fresh

LEMMA StepCovered ==
  ASSUME Calls = {}, Unsteady = {}, MaxCrashes = 0,
         TypeOK, Steady, Covered, [Next]_vars
  PROVE  Covered'
<1>0. /\ Tasks = {Cycle} /\ "idle" \notin Directions /\ "idle" \notin global
      /\ \A b \in Batteries : Blocked(b, "idle") = FALSE
      /\ None \notin Batteries
  BY SetsAssumption DEF Tasks, Directions, TypeOK, Blocked
<1>g. \A b \in Batteries, p \in Orders : Gated(b, p) \in {"idle", p}
  BY DEF Gated
<1>1. CASE UNCHANGED vars
  BY <1>1 DEF Covered, OrdersTracked, Writing, Dispatched, Fresh, Wanted,
     vars, belief, cycle, writes
<1>a. ASSUME pc' # "dispatch", pc # "dispatch", at[Cycle] = None \/ pc' = pc,
             UNCHANGED <<setpoint, listed, at, net, prev>>, first' => first
      PROVE  Covered'
  BY <1>a, <1>0 DEF Covered, OrdersTracked, Writing, Dispatched, Fresh
<1>w. ASSUME pc \notin {"stop", "dispatch"} PROVE at[Cycle] = None
  BY <1>w, <1>0 DEF Covered, Writing, TypeOK
<1>2. CASE Refresh \/ StopBegin \/ StopEnd \/ NoReading \/ Hold
  BY <1>2, <1>a, <1>w DEF Refresh, StopBegin, StopEnd, NoReading, Hold, belief, writes
<1>3. CASE StopAll
  <2>1. ~first /\ at[Cycle] = None
    BY <1>3, <1>0, <1>w DEF StopAll, Covered, Fresh
  <2> QED BY <1>3, <2>1, <1>0
          DEF StopAll, Covered, OrdersTracked, Writing, Dispatched, Fresh,
              belief, writes
<1>4. CASE Disengage \/ Exhausted
  <2>1. at[Cycle] = None /\ UNCHANGED <<setpoint, at, net>>
    BY <1>4, <1>w DEF Disengage, Exhausted, writes
  <2>2. /\ pc' = "dispatch" /\ goal' = "idle" /\ share' = {}
        /\ todo' = Batteries
    BY <1>4 DEF Disengage, Exhausted
  <2>3. first' => first /\ prev' = prev
    BY <1>4 DEF Disengage, Exhausted, belief
  <2> QED BY <2>1, <2>2, <2>3, <1>0
          DEF Covered, OrdersTracked, Writing, Dispatched, Fresh
<1>5. ASSUME NEW d \in Directions, Engage(d) PROVE Covered'
  <2>1. at[Cycle] = None /\ UNCHANGED <<setpoint, at, net>>
    BY <1>5, <1>w DEF Engage, writes
  <2>2. PICK selected \in SUBSET {b \in Batteries : ~Blocked(b, d)} :
          /\ share' \in SUBSET selected /\ todo' = Addressed(selected)
          /\ listed' = [b \in Batteries |-> IF b \in selected THEN d ELSE "idle"]
    BY <1>5 DEF Engage
  <2>3. pc' = "dispatch" /\ goal' = d /\ todo' = Batteries /\ ~first'
    BY <1>5, <2>2 DEF Engage, Addressed
  <2>4. \A b \in share' : listed'[b] = goal'
    BY <2>2, <2>3
  <2> QED BY <2>1, <2>3, <2>4, <1>0
          DEF Covered, OrdersTracked, Writing, Dispatched, Fresh
<1>6. ASSUME NEW d \in Directions, FirstExhausted(d) PROVE Covered'
  <2>1. at[Cycle] = None /\ \A b \in Batteries : setpoint[b] = "idle"
    BY <1>6, <1>w DEF FirstExhausted, Covered, Fresh
  <2> QED BY <1>6, <2>1, <1>0
          DEF FirstExhausted, Covered, OrdersTracked, Writing, Dispatched,
              Fresh, writes
<1>7. CASE Finish
  <2>1. at[Cycle] = None
    BY <1>7, <1>0 DEF Finish, Covered, Writing, TypeOK
  <2>2. first => prev' = "idle"
    BY <1>7 DEF Finish, Covered, Fresh, Dispatched
  <2>3. OrdersTracked'
    <3>1. CASE goal = "idle"
      BY <1>7, <3>1 DEF Finish, Covered, Dispatched, OrdersTracked
    <3>2. CASE goal # "idle"
      BY <1>7, <3>2 DEF Finish, Covered, OrdersTracked
    <3> QED BY <3>1, <3>2
  <2> QED BY <1>7, <2>1, <2>2, <2>3, <1>0
          DEF Finish, Covered, Writing, Dispatched, Fresh, writes
<1>8. ASSUME NEW c \in Batteries, StopNext(c) PROVE Covered'
  <2>1. UNCHANGED <<setpoint, known, pc, prev, first, goal, share, todo>>
        /\ pc = "stop"
    BY <1>8 DEF StopNext
  <2>2. OrdersTracked'
    <3>1. CASE UNCHANGED listed
      BY <2>1, <3>1 DEF Covered, OrdersTracked
    <3>2. CASE Skips(c, "idle") /\ listed' = Unlisted(c)
      <4>1. setpoint[c] = "idle"
        BY <3>2, <1>0 DEF Skips, Steady, Gated
      <4> QED BY <2>1, <3>2, <4>1 DEF Covered, OrdersTracked, Unlisted, TypeOK
    <3> QED BY <1>8, <3>1, <3>2 DEF StopNext
  <2>3. Writing'
    <3>1. CASE UNCHANGED writes
      BY <1>8, <3>1, <1>0 DEF StopNext, Writing, writes
    <3>2. CASE Joins(Cycle, c, "idle")
      <4>1. net'[Cycle] = "idle"
        BY <3>2, <1>0 DEF Joins, Gated, TypeOK
      <4> QED BY <2>1, <4>1 DEF Writing
    <3> QED BY <1>8, <3>1, <3>2 DEF StopNext
  <2> QED BY <2>1, <2>2, <2>3 DEF Covered, Dispatched, Fresh
<1>9. ASSUME NEW c \in Batteries, Dispatch(c) PROVE Covered'
  <2>1. /\ UNCHANGED <<setpoint, known, pc, prev, first, listed, goal, share>>
        /\ pc = "dispatch" /\ at[Cycle] = None /\ c \in todo
    BY <1>9 DEF Dispatch, belief
  <2>2. CASE Skips(c, Wanted(c)) /\ todo' = todo \ {c} /\ UNCHANGED writes
    <3>1. setpoint[c] \in {"idle", Wanted(c)}
      BY <2>2, <1>0 DEF Skips, Steady, Gated
    <3>2. OrdersTracked'
      BY <2>1, <2>2, <3>1 DEF Covered, OrdersTracked, Dispatched, Wanted
    <3>3. Dispatched'
      BY <2>1, <2>2, <3>1 DEF Covered, Dispatched, Wanted
    <3> QED BY <2>1, <2>2, <3>2, <3>3, <1>0 DEF Covered, Writing, Fresh, writes
  <2>3. CASE Joins(Cycle, c, Wanted(c)) /\ UNCHANGED todo
    <3>1. net'[Cycle] \in {"idle", Wanted(c)} /\ at'[Cycle] = c
      BY <2>3, <1>0 DEF Joins, Gated, TypeOK
    <3>2. Writing'
      BY <2>1, <2>3, <3>1 DEF Writing, Wanted
    <3> QED BY <2>1, <2>3, <3>2
            DEF Covered, OrdersTracked, Dispatched, Fresh
  <2> QED BY <1>9, <2>2, <2>3 DEF Dispatch
<1>10. ASSUME Lands(Cycle) PROVE Covered'
  <2>1. PICK c \in Batteries :
          /\ at[Cycle] = c /\ setpoint' = [setpoint EXCEPT ![c] = net[Cycle]]
          /\ Leaves(Cycle) /\ Returns(Cycle, c)
          /\ UNCHANGED <<prev, first, pc, goal, share>>
    BY <1>10 DEF Lands
  <2>2. Writing'
    BY <2>1, <1>0 DEF Leaves, Writing, TypeOK
  <2>3. CASE pc = "stop"
    <3>1. /\ net[Cycle] = "idle" /\ listed' = Unlisted(c) /\ UNCHANGED todo
      BY <2>1, <2>3 DEF Covered, Writing, Returns
    <3> QED BY <2>1, <2>2, <2>3, <3>1
            DEF Covered, OrdersTracked, Dispatched, Fresh, Unlisted, TypeOK
  <2>4. CASE pc = "dispatch"
    <3>1. /\ net[Cycle] \in {"idle", Wanted(c)} /\ UNCHANGED listed
          /\ todo' = todo \ {c}
      BY <2>1, <2>4 DEF Covered, Writing, Returns
    <3>2. OrdersTracked'
      BY <2>1, <2>4, <3>1 DEF Covered, OrdersTracked, Dispatched, Wanted, TypeOK
    <3>3. Dispatched'
      BY <2>1, <2>4, <3>1 DEF Covered, Dispatched, Wanted, TypeOK
    <3>4. Fresh'
      BY <2>1, <2>4, <3>1 DEF Covered, Fresh, Dispatched, Wanted, TypeOK
    <3> QED BY <2>2, <3>2, <3>3, <3>4 DEF Covered
  <2> QED BY <2>1, <2>3, <2>4 DEF Covered, Writing
<1>11. ~Fails(Cycle) /\ ~Crash /\ \A b \in Batteries : ~LinkTurns(b)
  BY DEF Fails, Steady, Crash, LinkTurns
<1>12. ASSUME NEW b \in Batteries, Poll(b) PROVE Covered'
  BY <1>12 DEF Poll, Covered, OrdersTracked, Writing, Dispatched, Fresh, Wanted,
     belief, cycle, writes
<1>13. ASSUME NEW b \in Batteries, NEW d \in Directions, TurnOn(b, d)
       PROVE  Covered'
  BY <1>13 DEF TurnOn, Covered, OrdersTracked, Writing, Dispatched, Fresh,
     Wanted, belief, cycle, writes
<1> QED BY <1>0, <1>1, <1>2, <1>3, <1>4, <1>5, <1>6, <1>7, <1>8, <1>9, <1>10,
          <1>11, <1>12, <1>13
       DEF Next, Control

\* Every order a battery executes is within the reach of the enforcement, for
\* every fleet and every set of blocks, as long as writes get through, no
\* switch call crosses them and the host does not restart; the run blocks_race
\* shows what a crossing call does.
THEOREM TrackedCorrect ==
  ASSUME Calls = {}, Unsteady = {}, MaxCrashes = 0
  PROVE  Spec => []OrdersTracked
<1>1. Init => TypeOK /\ Steady /\ Covered
  BY InitType, InitSteady, InitCovered
<1>2. TypeOK /\ Steady /\ Covered /\ [Next]_vars => (TypeOK /\ Steady /\ Covered)'
  BY StepType, StepSteady, StepCovered
<1>3. Covered => OrdersTracked
  BY DEF Covered
<1> QED BY <1>1, <1>2, <1>3, PTL DEF Spec

=============================================================================
