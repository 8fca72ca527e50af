--------------------------- MODULE OperationBlocks --------------------------
(***************************************************************************)
(* How a blocked direction is kept from the batteries: the blocker         *)
(* registry, the control cycle that enforces it on the batteries it        *)
(* believes active and dispatches the others, the check at the power       *)
(* write, the skipped write, the coordinator lock, and the allow switches  *)
(* that act beside the cycle (ChargeDischargeController of __init__.py,    *)
(* PowerDistribution, MarstekVenusDataUpdateCoordinator.apply_power and    *)
(* the battery switches of switch.py).                                     *)
(*                                                                         *)
(* A power is its direction: how much is shared out is left open.  The     *)
(* cycle and each switch call are tasks that lose control only while a     *)
(* write is in the line of its battery's lock.                             *)
(***************************************************************************)
EXTENDS Integers, FiniteSets

CONSTANTS
    Batteries,
    Calls,      \* switch calls that may be in progress together
    UserMay,    \* <<battery, direction>> pairs the user may disable
    SlotMay,    \* pairs the time slots and other features may block
    GlobalMay,  \* directions a feature may block for every battery
    Unsteady,   \* the batteries that may stop answering
    MeterMayFail, \* whether the grid sensor may be without a value
    MaxCrashes  \* bound: how often the host restarts without an unload

Directions == {"charge", "discharge"}
Orders == Directions \union {"idle"}
Cycle == "cycle"
Tasks == {Cycle} \union Calls
None == "none"

ASSUME SetsAssumption ==
    /\ IsFiniteSet(Batteries) /\ None \notin Batteries /\ Cycle \notin Calls
    /\ UserMay \subseteq Batteries \X Directions
    /\ SlotMay \subseteq Batteries \X Directions
    /\ GlobalMay \subseteq Directions
    /\ Unsteady \subseteq Batteries /\ MaxCrashes \in Nat
    /\ MeterMayFail \in BOOLEAN

VARIABLES
    setpoint,  \* what each battery executes
    known,     \* what coordinator.data says it executes
    up,        \* the batteries that answer
    crashes,   \* restarts so far
    byUser,    \* the user's blocks: allow_charge and allow_discharge off
    bySlot,    \* the other blocks of single batteries
    global,    \* the global blocks
    listed,    \* _active_charge_batteries and _active_discharge_batteries
    prev,      \* the sign of previous_power
    first,     \* first_execution
    pc,        \* where the cycle is
    walk,      \* the lists as _stop_blocked_active_batteries() took them
    goal,      \* the direction being dispatched
    share,     \* the batteries that get a share of it
    todo,      \* the batteries not yet written
    changed,   \* blocked_active_changed: this cycle's enforcement stopped some
    at,        \* the battery whose write each task waits for
    net,       \* the power it writes
    tries,     \* failed attempts of that write
    ahead,     \* the tasks ahead of it in the lock's line
    stopped    \* history: the pairs a turn-off found listed, with up-to-date
               \* data and no write of that direction in the line, and that are
               \* still off; forgotten when the battery or the host goes down

registry == <<byUser, bySlot, global>>
cycle == <<pc, walk, goal, share, todo, changed>>
writes == <<at, net, tries, ahead>>
belief == <<listed, prev, first>>
world == <<up, crashes>>
vars == <<setpoint, known, world, registry, belief, cycle, writes, stopped>>

TypeOK ==
    /\ setpoint \in [Batteries -> Orders] /\ known \in [Batteries -> Orders]
    /\ up \subseteq Batteries /\ crashes \in 0..MaxCrashes
    /\ byUser \subseteq UserMay /\ bySlot \subseteq SlotMay
    /\ global \subseteq GlobalMay
    /\ listed \in [Batteries -> Orders] /\ prev \in Orders
    /\ first \in BOOLEAN
    /\ pc \in {"rest", "enforce", "stop", "sample", "dispatch"}
    /\ walk \in [Batteries -> Orders]
    /\ goal \in Orders /\ share \subseteq Batteries /\ todo \subseteq Batteries
    /\ changed \in BOOLEAN
    /\ at \in [Tasks -> Batteries \union {None}] /\ net \in [Tasks -> Orders]
    /\ tries \in [Tasks -> 0..1] /\ ahead \in [Tasks -> SUBSET Tasks]
    /\ stopped \subseteq byUser

-----------------------------------------------------------------------------
(* The registry *)

Blocked(b, d) ==
    d \in global \/ <<b, d>> \in byUser \union bySlot

-----------------------------------------------------------------------------
(* _set_battery_power() and apply_power() *)

\* Mutant of Gated: the blockers are not checked again at the write.
Ungated(b, p) == p

\* The blockers in force when the write is issued decide what is written.
Gated(b, p) == IF Blocked(b, p) THEN "idle" ELSE p

\* Mutant of Skips: the controller's own list is taken for the battery's state.
SkipsBelieved(b, p) == listed[b] = Gated(b, p) \/ b \notin up

\* Nothing is written: the battery is already known to be there (a move is
\* written again when it is not delivered), or it is known to be unreachable.
Skips(b, p) == known[b] = Gated(b, p) \/ b \notin up

\* The write joins the line of the battery's lock.
Joins(t, b, p) ==
    /\ known[b] # Gated(b, p) \/ Gated(b, p) # "idle"
    /\ at' = [at EXCEPT ![t] = b]
    /\ net' = [net EXCEPT ![t] = Gated(b, p)]
    /\ tries' = [tries EXCEPT ![t] = 0]
    /\ ahead' = [ahead EXCEPT ![t] = {u \in Tasks : at[u] = b}]

Leaves(t) ==
    /\ at' = [at EXCEPT ![t] = None]
    /\ ahead' = [u \in Tasks |-> ahead[u] \ {t}]
    /\ UNCHANGED <<net, tries>>

GivesUp(t) == tries[t] = 1

Unlisted(b) == [listed EXCEPT ![b] = "idle"]

\* What the task does when its write returns, whatever the result.
Returns(t, b) ==
    \/ /\ t = Cycle /\ pc = "stop"
       /\ listed' = Unlisted(b) /\ walk' = [walk EXCEPT ![b] = "idle"]
       /\ changed' = TRUE /\ UNCHANGED todo
    \/ /\ t = Cycle /\ pc = "dispatch"
       /\ todo' = todo \ {b} /\ UNCHANGED <<listed, walk, changed>>
    \/ /\ t # Cycle
       /\ listed' = Unlisted(b) /\ UNCHANGED <<walk, todo, changed>>

\* The driver has written and the coordinator has merged the echo.
Lands(t) ==
    \E b \in Batteries :
        /\ at[t] = b /\ ahead[t] = {} /\ b \in up
        /\ setpoint' = [setpoint EXCEPT ![b] = net[t]]
        /\ known' = [known EXCEPT ![b] = net[t]]
        /\ Leaves(t) /\ Returns(t, b)
        /\ UNCHANGED <<world, registry, prev, first, pc, goal, share, stopped>>

\* The write fails, or its answer is lost; the second time it is given up.
Fails(t) ==
    \E b \in Batteries :
        /\ at[t] = b /\ ahead[t] = {} /\ b \notin up
        /\ setpoint' \in {setpoint, [setpoint EXCEPT ![b] = net[t]]}
        /\ \/ /\ ~GivesUp(t) /\ tries' = [tries EXCEPT ![t] = tries[t] + 1]
              /\ ahead' = [u \in Tasks |->
                             IF u = t THEN {v \in Tasks \ {t} : at[v] = b}
                             ELSE ahead[u] \ {t}]
              /\ UNCHANGED <<at, net, listed, walk, todo, changed>>
           \/ GivesUp(t) /\ Leaves(t) /\ Returns(t, b)
        /\ UNCHANGED <<known, world, registry, prev, first, pc, goal, share,
                       stopped>>

\* A poll, under the same lock.
Poll(b) ==
    /\ b \in up /\ \A t \in Tasks : at[t] # b
    /\ known' = [known EXCEPT ![b] = setpoint[b]]
    /\ UNCHANGED <<setpoint, world, registry, belief, cycle, writes, stopped>>

-----------------------------------------------------------------------------
(* The control cycle *)

\* _refresh_operation_blockers()
Refresh ==
    /\ pc = "rest" /\ pc' = "enforce"
    /\ bySlot' \in SUBSET SlotMay /\ global' \in SUBSET GlobalMay
    /\ UNCHANGED <<setpoint, known, world, byUser, belief, walk, goal, share, todo,
                   changed, writes, stopped>>

\* _stop_all_batteries_for_block()
StopAll ==
    /\ pc = "enforce" /\ prev \in global
    /\ pc' = "dispatch" /\ goal' = "idle" /\ share' = {} /\ todo' = Batteries
    /\ UNCHANGED <<setpoint, known, world, registry, belief, walk, changed,
                   writes, stopped>>

\* Mutant of Walks: only the charge list is walked.
WalksCharge == [b \in Batteries |->
                  IF listed[b] = "charge" THEN "charge" ELSE "idle"]

Walks == listed

\* _stop_blocked_active_batteries()
StopBegin ==
    /\ pc = "enforce" /\ prev \notin global
    /\ pc' = "stop" /\ walk' = Walks /\ changed' = FALSE
    /\ UNCHANGED <<setpoint, known, world, registry, belief, goal, share, todo,
                   writes, stopped>>

StopNext(b) ==
    /\ pc = "stop" /\ at[Cycle] = None /\ walk[b] # "idle"
    /\ UNCHANGED <<setpoint, known, world, registry, prev, first, pc, goal, share,
                   todo, stopped>>
    /\ \/ /\ ~Blocked(b, walk[b])
          /\ walk' = [walk EXCEPT ![b] = "idle"]
          /\ UNCHANGED <<listed, changed, writes>>
       \/ /\ Blocked(b, walk[b]) /\ Skips(b, "idle")
          /\ walk' = [walk EXCEPT ![b] = "idle"]
          /\ listed' = Unlisted(b) /\ changed' = TRUE /\ UNCHANGED writes
       \/ /\ Blocked(b, walk[b]) /\ Joins(Cycle, b, "idle")
          /\ UNCHANGED <<listed, walk, changed>>

StopEnd ==
    /\ pc = "stop" /\ at[Cycle] = None /\ \A b \in Batteries : walk[b] = "idle"
    /\ pc' = "sample"
    /\ UNCHANGED <<setpoint, known, world, registry, belief, walk, goal, share, todo,
                   changed, writes, stopped>>

\* Without a grid reading the cycle ends with the orders as they are.
NoReading ==
    /\ MeterMayFail /\ pc = "sample" /\ pc' = "rest"
    /\ UNCHANGED <<setpoint, known, world, registry, belief, walk, goal, share, todo,
                   changed, writes, stopped>>

\* No new sample, or within the deadband: the same, but not in the first
\* execution nor after the enforcement has stopped a battery.
Hold ==
    /\ pc = "sample" /\ pc' = "rest" /\ ~first /\ ~changed
    /\ UNCHANGED <<setpoint, known, world, registry, belief, walk, goal, share, todo,
                   changed, writes, stopped>>

\* Mutant of Addressed: the batteries that were not selected are left alone.
AddressedSelected(selected) == selected

Addressed(selected) == Batteries

\* The regulator wants power in direction d.  Available batteries are not
\* blocked, load sharing selects some of them and the phase limits leave a
\* share to some of those.  The redistribution after a load-sharing hold is
\* the same with the direction of the last cycle.
Engage(d) ==
    /\ pc = "sample" /\ pc' = "dispatch" /\ d \notin global
    /\ \E selected \in SUBSET {b \in Batteries : ~Blocked(b, d)} :
        /\ selected # {}
        /\ share' \in SUBSET selected /\ todo' = Addressed(selected)
        /\ listed' = [b \in Batteries |-> IF b \in selected THEN d ELSE "idle"]
    /\ goal' = d
    /\ prev' = IF first THEN d ELSE prev
    /\ first' = FALSE
    /\ UNCHANGED <<setpoint, known, world, registry, walk, changed, writes,
                   stopped>>

\* Zero is wanted, or the direction is blocked: everything is set to zero.
Disengage ==
    /\ pc = "sample" /\ pc' = "dispatch"
    /\ goal' = "idle" /\ share' = {} /\ todo' = Batteries
    /\ listed' = [b \in Batteries |-> "idle"]
    /\ prev' = IF first THEN "idle" ELSE prev
    /\ first' = FALSE
    /\ UNCHANGED <<setpoint, known, world, registry, walk, changed, writes,
                   stopped>>

\* No battery is available, or capacity protection keeps what is left:
\* everything is set to zero, and then forgotten.
Exhausted ==
    /\ pc = "sample" /\ pc' = "dispatch"
    /\ goal' = "idle" /\ share' = {} /\ todo' = Batteries
    /\ UNCHANGED <<setpoint, known, world, registry, belief, walk, changed,
                   writes, stopped>>

\* The first execution finds no battery available: nothing is written.
FirstExhausted(d) ==
    /\ pc = "sample" /\ pc' = "rest" /\ first /\ d \notin global
    /\ first' = FALSE /\ prev' = d
    /\ listed' = [b \in Batteries |-> "idle"]
    /\ UNCHANGED <<setpoint, known, world, registry, walk, goal, share, todo, changed,
                   writes, stopped>>

Wanted(b) == IF b \in share THEN goal ELSE "idle"

\* The shares are written first.
Dispatch(b) ==
    /\ pc = "dispatch" /\ at[Cycle] = None
    /\ b \in todo /\ (b \in share \/ share \intersect todo = {})
    /\ \/ Skips(b, Wanted(b)) /\ todo' = todo \ {b} /\ UNCHANGED writes
       \/ Joins(Cycle, b, Wanted(b)) /\ UNCHANGED todo
    /\ UNCHANGED <<setpoint, known, world, registry, belief, pc, walk, goal, share,
                   changed, stopped>>

Finish ==
    /\ pc = "dispatch" /\ todo = {} /\ pc' = "rest"
    /\ prev' = IF share = {} THEN "idle" ELSE goal
    /\ listed' = IF goal = "idle" THEN [b \in Batteries |-> "idle"] ELSE listed
    /\ UNCHANGED <<setpoint, known, world, registry, first, walk, goal, share, todo,
                   changed, writes, stopped>>

-----------------------------------------------------------------------------
(* The allow switches and the host *)

Clear(b, d) ==
    /\ b \in up /\ known[b] = setpoint[b]
    /\ \A u \in Tasks : ~(at[u] = b /\ net[u] = d)

\* async_turn_off() of a battery's charge or discharge switch.
TurnOff(t, b, d) ==
    /\ at[t] = None /\ <<b, d>> \in UserMay \ byUser
    /\ byUser' = byUser \union {<<b, d>>}
    /\ IF listed[b] = d
       THEN /\ stopped' = IF Clear(b, d) THEN stopped \union {<<b, d>>}
                          ELSE stopped
            /\ \/ Skips(b, "idle") /\ listed' = Unlisted(b) /\ UNCHANGED writes
               \/ Joins(t, b, "idle") /\ UNCHANGED listed
       ELSE UNCHANGED <<stopped, listed, writes>>
    /\ UNCHANGED <<setpoint, known, world, bySlot, global, prev, first, cycle>>

\* async_turn_on()
TurnOn(b, d) ==
    /\ <<b, d>> \in byUser
    /\ byUser' = byUser \ {<<b, d>>} /\ stopped' = stopped \ {<<b, d>>}
    /\ UNCHANGED <<setpoint, known, world, bySlot, global, belief, cycle, writes>>

\* The host stops without an unload and starts again: the switches are
\* restored, the first refresh reads the batteries, and nothing is written.
Crash ==
    /\ crashes < MaxCrashes /\ crashes' = crashes + 1
    /\ known' = setpoint /\ bySlot' = {} /\ global' = {}
    /\ listed' = [b \in Batteries |-> "idle"] /\ prev' = "idle" /\ first' = TRUE
    /\ pc' = "rest" /\ walk' = [b \in Batteries |-> "idle"]
    /\ goal' = "idle" /\ share' = {} /\ todo' = {} /\ changed' = FALSE
    /\ at' = [t \in Tasks |-> None] /\ ahead' = [t \in Tasks |-> {}]
    /\ stopped' = {}
    /\ UNCHANGED <<setpoint, up, byUser, net, tries>>

\* A battery stops answering, or answers again.
LinkTurns(b) ==
    /\ b \in Unsteady
    /\ up' = IF b \in up THEN up \ {b} ELSE up \union {b}
    /\ stopped' = {p \in stopped : p[1] # b}
    /\ UNCHANGED <<setpoint, known, crashes, registry, belief, cycle, writes>>

Init ==
    /\ setpoint = [b \in Batteries |-> "idle"] /\ known = setpoint
    /\ up = Batteries /\ crashes = 0
    /\ byUser = {} /\ bySlot = {} /\ global = {}
    /\ listed = [b \in Batteries |-> "idle"] /\ prev = "idle" /\ first = TRUE
    /\ pc = "rest" /\ walk = [b \in Batteries |-> "idle"]
    /\ goal = "idle" /\ share = {} /\ todo = {} /\ changed = FALSE
    /\ at = [t \in Tasks |-> None] /\ net = [t \in Tasks |-> "idle"]
    /\ tries = [t \in Tasks |-> 0] /\ ahead = [t \in Tasks |-> {}]
    /\ stopped = {}

Control ==
    \/ Refresh \/ StopAll \/ StopBegin \/ StopEnd \/ NoReading \/ Hold
    \/ Disengage \/ Exhausted \/ Finish
    \/ \E d \in Directions : Engage(d) \/ FirstExhausted(d)
    \/ \E b \in Batteries : StopNext(b) \/ Dispatch(b)

Next ==
    \/ Control
    \/ \E t \in Tasks : Lands(t) \/ Fails(t)
    \/ \E b \in Batteries : Poll(b) \/ LinkTurns(b)
    \/ \E b \in Batteries, d \in Directions :
         TurnOn(b, d) \/ \E t \in Calls : TurnOff(t, b, d)
    \/ Crash

\* Cycles keep coming (ControlScheduler), every driver call ends, and polls get
\* their turn of the lock.
Fairness ==
    /\ WF_vars(Control)
    /\ \A t \in Tasks : WF_vars(Lands(t) \/ Fails(t))
    /\ \A b \in Batteries : SF_vars(Poll(b))

Spec == Init /\ [][Next]_vars
FairSpec == Spec /\ Fairness

-----------------------------------------------------------------------------
(* Properties *)

\* Whatever a battery executes is on the list that the next cycle's
\* enforcement walks, or about to be written by the running one: no order is
\* beyond the reach of a block.
OrdersTracked ==
    \A b \in Batteries :
        setpoint[b] # "idle" =>
            listed[b] = setpoint[b] \/ (pc = "dispatch" /\ b \in todo)

\* A battery that its allow switch stopped, on up-to-date data and with no
\* write of that direction in flight, does not execute that direction again
\* while the switch is off and the battery answers, although a cycle may have
\* given it a share before.
TurnOffHolds ==
    \A b \in Batteries, d \in Directions :
        <<b, d>> \in stopped /\ (\A t \in Tasks : at[t] # b)
            => setpoint[b] # d

\* A blocked direction is not kept alive: once the batteries answer, the block
\* is lifted or the battery leaves the direction, even if the meter stays
\* within the deadband for ever (comment before the enforcement in
\* _run_control_cycle()).
BlockStops ==
    <>[](up = Batteries) =>
        \A b \in Batteries, d \in Directions :
            Blocked(b, d) ~> (setpoint[b] # d \/ ~Blocked(b, d))

\* Lost stops, restarts and switch calls that cross a write are made up for: a
\* regulator that keeps dispatching ends every blocked order, although it
\* believes some of them have ended already.
DispatchRecovers == []<>(pc = "dispatch") => BlockStops

=============================================================================
