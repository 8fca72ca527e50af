-------------------------- MODULE ControlScheduler --------------------------
(***************************************************************************)
(* How control cycles are started, serialised and stopped: the 2 s safety  *)
(* timer, the meter's publications, the no-PD debounce and the rate limit, *)
(* the controller's asyncio lock, the individual manual-mode handoff that  *)
(* waits on the same lock, and the unload of the config entry              *)
(* (ChargeDischargeController and async_unload_entry of __init__.py).      *)
(*                                                                         *)
(* A task is a coroutine of the event loop; a step of it runs to the next  *)
(* await.  One battery stands for the pool: hw is the last command the     *)
(* hardware took.  Cycles are those that reach the meter read; modes that  *)
(* return before it use no meter value.                                    *)
(***************************************************************************)
EXTENDS Naturals, Sequences

CONSTANTS
    Tasks,        \* slots for the entry's background tasks
    MaxPublished, \* meter publications in a behaviour
    Laws,         \* "delayed": no-PD mode with a command delay; "prompt": PD
    RateLimited   \* a minimum interval between event-driven cycles

ASSUME TasksAssumption ==
    "hand" \notin Tasks /\ "mode" \notin Tasks /\ "nobody" \notin Tasks
ASSUME ModeAssumption ==
    Laws \subseteq {"delayed", "prompt"} /\ RateLimited \in BOOLEAN /\ MaxPublished \in Nat

VARIABLES
    published,  \* publications of the meter so far
    sampled,    \* the one the last cycle computed from
    task,       \* where each background task is
    holder,     \* who holds _control_lock
    queue,      \* its waiters; a cancelled one may still be listed
    armed,      \* _no_pd_debounce_unsub is set
    recent,     \* the last cycle started less than the interval ago
    phase,      \* how far the entry's unload has got
    hand,       \* the manual-mode handoff, run by a service call
    enabling,   \* the direction of that handoff
    owned,      \* battery_manual_mode_enabled
    hw,         \* what the hardware was last told
    law,        \* the law in force
    mode        \* the law a call of the no-PD switch waits to set

nopd == <<law, mode>>

vars == <<published, sampled, task, holder, queue, armed, recent, phase,
          hand, enabling, owned, hw, nopd>>

New == {"event", "timed"}  \* not begun yet: triggered by a publication, or not
Places == {"none", "queued", "running", "sampled", "writing"} \union New
InCycle == {"running", "sampled", "writing"}
Phases == {"loaded", "stopping", "stopped", "teardown", "down"}

unloading == phase # "loaded"

\* A waiter the lock may still be handed to.
Live(x) ==
    \/ x = "hand" /\ hand = "queued"
    \/ x = "mode" /\ mode \in Laws
    \/ x \in Tasks /\ task[x] = "queued"
Waiting == \E i \in DOMAIN queue : Live(queue[i])

-----------------------------------------------------------------------------
(* Triggers *)

\* _create_entry_background_task(): a tracked task, none once unloading.
Spawn(k) ==
    IF unloading THEN UNCHANGED task
    ELSE \E t \in Tasks :
            /\ task[t] = "none"
            /\ task' = [task EXCEPT ![t] = k]

\* The meter publishes; its listener is removed when the unload begins.
Publish ==
    /\ published < MaxPublished
    /\ published' = published + 1
    /\ Spawn("event")
    /\ UNCHANGED <<sampled, holder, queue, armed, recent, phase, hand,
                   enabling, owned, hw, nopd>>

TimerFires ==
    /\ ~unloading
    /\ Spawn("timed")
    /\ UNCHANGED <<published, sampled, holder, queue, armed, recent, phase,
                   hand, enabling, owned, hw, nopd>>

\* _fire_no_pd_debounced_run()
FireDebounce ==
    /\ armed
    /\ armed' = FALSE
    /\ Spawn("timed")
    /\ UNCHANGED <<published, sampled, holder, queue, recent, phase, hand,
                   enabling, owned, hw, nopd>>

IntervalElapses ==
    /\ recent
    /\ recent' = FALSE
    /\ UNCHANGED <<published, sampled, task, holder, queue, armed, phase,
                   hand, enabling, owned, hw, nopd>>

-----------------------------------------------------------------------------
(* async_update_charge_discharge() and _run_no_pd_debounced_cycle() *)

Defers(t) == task[t] = "event" /\ law = "delayed"
Throttled(t) == task[t] = "event" /\ law # "delayed" /\ RateLimited /\ recent

\* The trigger goes no further: deferred, throttled, or a cycle is running.
TriggerDropped(t) ==
    /\ task[t] \in New /\ ~unloading
    /\ Defers(t) \/ Throttled(t) \/ holder # "nobody"
    /\ task' = [task EXCEPT ![t] = "none"]
    /\ armed' = (armed \/ Defers(t))
    /\ UNCHANGED <<published, sampled, holder, queue, recent, phase,
                   hand, enabling, owned, hw, nopd>>

\* Mutated: the trigger overtakes whoever already waits for the lock.
OvertakesWaiters(t) == TRUE

\* asyncio.Lock: the fast path is taken only when nobody waits.
FastPath(t) == ~Waiting

\* The lock is not held: take it, or queue behind its waiters.
TriggerRuns(t) ==
    /\ task[t] \in New /\ ~unloading
    /\ ~Defers(t) /\ ~Throttled(t) /\ holder = "nobody"
    /\ IF FastPath(t)
       THEN /\ task' = [task EXCEPT ![t] = "running"]
            /\ holder' = t /\ recent' = TRUE
            /\ UNCHANGED queue
       ELSE /\ task' = [task EXCEPT ![t] = "queued"]
            /\ queue' = Append(queue, t)
            /\ UNCHANGED <<holder, recent>>
    /\ UNCHANGED <<published, sampled, armed, phase, hand, enabling,
                   owned, hw, nopd>>

\* hass.states holds the meter's last publication.
Latest == published

\* _run_control_cycle(): the meter is read after the prologue's awaits,
Sample(t) ==
    /\ task[t] = "running" /\ ~unloading
    /\ task' = [task EXCEPT ![t] = "sampled"]
    /\ sampled' = Latest
    /\ UNCHANGED <<published, holder, queue, armed, recent, phase, hand,
                   enabling, owned, hw, nopd>>

\* Mutated: an allocation made before the handoff is still written.
NotGated == FALSE

\* The ownership gate of _set_battery_power().
Gated == owned

\* each battery passes the gate or is left alone,
Gate(t) ==
    /\ task[t] = "sampled" /\ ~unloading
    /\ task' = [task EXCEPT ![t] = IF Gated THEN "none" ELSE "writing"]
    /\ holder' = IF Gated THEN "nobody" ELSE holder
    /\ UNCHANGED <<published, sampled, queue, armed, recent, phase, hand,
                   enabling, owned, hw, nopd>>

\* and the write is awaited; then the lock is released.
WriteCommand(t) ==
    /\ task[t] = "writing" /\ ~unloading
    /\ task' = [task EXCEPT ![t] = "none"]
    /\ hw' = "auto"
    /\ holder' = "nobody"
    /\ UNCHANGED <<published, sampled, queue, armed, recent, phase, hand,
                   enabling, owned, nopd>>

\* The lock is free and its first waiter is next; a cancelled one is skipped.
Grant ==
    /\ holder = "nobody" /\ queue # <<>> /\ Head(queue) # "mode"
    /\ queue' = Tail(queue)
    /\ LET x == Head(queue)
       IN  IF ~Live(x)
           THEN UNCHANGED <<task, recent, holder, hand, owned>>
           ELSE /\ holder' = x
                /\ IF x = "hand"
                   THEN /\ hand' = "held" /\ owned' = TRUE
                        /\ UNCHANGED <<task, recent>>
                   ELSE /\ task' = [task EXCEPT ![x] = "running"]
                        /\ recent' = TRUE
                        /\ UNCHANGED <<hand, owned>>
    /\ UNCHANGED <<published, sampled, armed, phase, enabling, hw, nopd>>

-----------------------------------------------------------------------------
(* _set_battery_manual_mode(): run by the switch's service call, which the *)
(* entry does not track.                                                   *)

\* Mutated: the handoff does not wait for the cycle in flight.
LockIgnored == TRUE

LockFree == holder = "nobody" /\ ~Waiting

\* NoPdModeSwitch waits on the same lock; under it, without an await, it
\* cancels the pending debounce and sets the mode.  Bound: one call.
ModeRequest ==
    /\ mode = "none" /\ phase \in {"loaded", "stopping", "stopped"}
    /\ \E value \in Laws :
        IF LockFree
        THEN law' = value /\ armed' = FALSE /\ mode' = "done" /\ UNCHANGED queue
        ELSE /\ mode' = value /\ queue' = Append(queue, "mode")
             /\ UNCHANGED <<law, armed>>
    /\ UNCHANGED <<published, sampled, task, holder, recent, phase, hand,
                   enabling, owned, hw>>

ModeSet ==
    /\ holder = "nobody" /\ queue # <<>> /\ Head(queue) = "mode"
    /\ Live("mode") /\ queue' = Tail(queue)
    /\ law' = mode /\ mode' = "done" /\ armed' = FALSE
    /\ UNCHANGED <<published, sampled, task, holder, recent, phase, hand,
                   enabling, owned, hw>>

\* Ownership is asserted before the first await under the lock, by a disable too.
HandRequest ==
    /\ hand = "none" /\ phase \in {"loaded", "stopping", "stopped"}
    /\ enabling' \in BOOLEAN
    /\ IF LockFree
       THEN /\ holder' = "hand" /\ hand' = "held" /\ owned' = TRUE
            /\ UNCHANGED queue
       ELSE /\ hand' = "queued" /\ queue' = Append(queue, "hand")
            /\ UNCHANGED <<holder, owned>>
    /\ UNCHANGED <<published, sampled, task, armed, recent, phase, hw,
                   nopd>>

\* The forced zero-power write is acknowledged; a refresh is awaited next.
HandIdles ==
    /\ hand = "held"
    /\ hand' = "idled"
    /\ hw' = "idle"
    /\ UNCHANGED <<published, sampled, task, holder, queue, armed,
                   recent, phase, enabling, owned, nopd>>

\* A disable gives the battery back and asks for a cycle.
HandReturns ==
    /\ hand = "idled"
    /\ hand' = "none" /\ holder' = "nobody"
    /\ owned' = enabling /\ enabling' = FALSE
    /\ IF enabling THEN UNCHANGED task ELSE Spawn("event")
    /\ UNCHANGED <<published, sampled, queue, armed, recent, phase, hw,
                   nopd>>

FreesLock(h) == "nobody"

\* The idle write fails: the battery stays manual and the call raises.
HandFails ==
    /\ hand = "held"
    /\ hand' = "none" /\ holder' = FreesLock(holder)
    /\ enabling' = FALSE
    /\ UNCHANGED <<published, sampled, task, queue, armed, recent, phase,
                   owned, hw, nopd>>

-----------------------------------------------------------------------------
(* async_unload_entry() *)

DebounceCancelled == FALSE

\* _unloading, the unsubscribes and the cancellation of every tracked task
\* happen before the first await.
BeginUnload ==
    /\ phase = "loaded"
    /\ phase' = "stopping"
    /\ armed' = DebounceCancelled
    /\ UNCHANGED <<published, sampled, task, holder, queue, recent, hand,
                   enabling, owned, hw, nopd>>

Cancels(t) == task[t] # "none"

\* A cancelled task ends at its await; a write it was in may have got through.
TaskCancelled(t) ==
    /\ phase = "stopping" /\ Cancels(t)
    /\ task' = [task EXCEPT ![t] = "none"]
    /\ holder' = IF holder = t THEN "nobody" ELSE holder
    /\ hw' \in IF task[t] = "writing" THEN {hw, "auto"} ELSE {hw}
    /\ UNCHANGED <<published, sampled, queue, armed, recent, phase, hand,
                   enabling, owned, nopd>>

Gathered == \A t \in Tasks : task[t] = "none"

TasksGathered ==
    /\ phase = "stopping" /\ Gathered
    /\ phase' = "stopped"
    /\ UNCHANGED <<published, sampled, task, holder, queue, armed,
                   recent, hand, enabling, owned, hw, nopd>>

\* Shutdown flags, the 0.3 s pause, and the platforms are removed.
PlatformsUnloaded ==
    /\ phase = "stopped"
    /\ phase' = "teardown"
    /\ UNCHANGED <<published, sampled, task, holder, queue, armed,
                   recent, hand, enabling, owned, hw, nopd>>

\* Standby, RS485 control off, disconnect; skipped for a battery that was not
\* connected.
HardwareReleased ==
    /\ phase = "teardown"
    /\ phase' = "down"
    /\ hw' \in {"off", hw}
    /\ UNCHANGED <<published, sampled, task, holder, queue, armed,
                   recent, hand, enabling, owned, nopd>>

-----------------------------------------------------------------------------
Init ==
    /\ published = 0 /\ sampled = 0
    /\ task = [t \in Tasks |-> "none"]
    /\ holder = "nobody" /\ queue = <<>>
    /\ armed = FALSE /\ recent = FALSE
    /\ phase = "loaded"
    /\ hand = "none" /\ enabling = FALSE /\ owned = FALSE
    /\ hw = "idle"
    /\ law \in Laws /\ mode = "none"

TaskStep(t) ==
    \/ TriggerDropped(t) \/ TriggerRuns(t)
    \/ Sample(t) \/ Gate(t) \/ WriteCommand(t)
    \/ TaskCancelled(t)

Unload ==
    BeginUnload \/ TasksGathered \/ PlatformsUnloaded \/ HardwareReleased

Next ==
    \/ Publish \/ TimerFires \/ FireDebounce \/ IntervalElapses
    \/ \E t \in Tasks : TaskStep(t)
    \/ Grant
    \/ HandRequest \/ HandIdles \/ HandReturns \/ HandFails
    \/ ModeRequest \/ ModeSet
    \/ Unload

Spec == Init /\ [][Next]_vars

\* The event loop runs every ready task, timers fire, awaited I/O ends.
\* Nobody has to publish, call a service or unload.
FairSpec ==
    /\ Spec
    /\ WF_vars(TimerFires) /\ WF_vars(FireDebounce) /\ WF_vars(IntervalElapses)
    /\ \A t \in Tasks : WF_vars(TaskStep(t))
    /\ WF_vars(Grant) /\ WF_vars(ModeSet)
    /\ WF_vars(HandIdles \/ HandFails) /\ WF_vars(HandReturns)
    /\ WF_vars(TasksGathered) /\ WF_vars(PlatformsUnloaded)
    /\ WF_vars(HardwareReleased)

-----------------------------------------------------------------------------
(* Properties *)

TypeOK ==
    /\ published \in Nat /\ sampled \in Nat
    /\ task \in [Tasks -> Places]
    /\ holder \in Tasks \union {"nobody", "hand"}
    /\ queue \in Seq(Tasks \union {"hand", "mode"})
    /\ armed \in BOOLEAN /\ recent \in BOOLEAN
    /\ phase \in Phases
    /\ hand \in {"none", "queued", "held", "idled"}
    /\ enabling \in BOOLEAN /\ owned \in BOOLEAN
    /\ hw \in {"idle", "auto", "off"}
    /\ law \in Laws /\ mode \in Laws \union {"none", "done"}

\* Whoever is between the acquire and the release of _control_lock is its
\* holder: no two cycles, and no cycle and a handoff, ever write at once.
CyclesExclusive ==
    /\ \A t \in Tasks : task[t] \in InCycle => holder = t
    /\ hand \in {"held", "idled"} => holder = "hand"

\* No debounce is pending from the moment the unload begins, and once it has
\* gathered its tasks none exists: nothing starts a cycle during the teardown.
QuietAfterStop ==
    /\ unloading => ~armed
    /\ phase \in {"stopped", "teardown", "down"} =>
          \A t \in Tasks : task[t] = "none"

\* A battery that individual manual mode owns is never given an automatic
\* command, not even by a cycle that allocated it power before the handoff.
OwnedIsLeftAlone ==
    [][ (owned /\ owned' /\ hw' = "auto") => hw = "auto" ]_hw

\* Every publication is computed from: dropped, throttled and deferred triggers
\* are made up for by a later cycle, unless the entry is unloaded or a user
\* keeps calling the manual-mode switch for ever.
PublicationsActedOn ==
    <>[](hand = "none") => <>[](sampled = published \/ unloading)

\* The handoff gets the lock although cycles keep coming every two seconds.
HandoffNotStarved == (hand = "queued") ~> (hand # "queued")

\* An unload that was begun ends.
UnloadEnds == (phase = "stopping") ~> (phase = "down")

\* _control_lock and the unload do their work: one writer at a time, and no
\* writer left once async_unload_entry() has gathered its tasks.
WritersApart ==
    /\ TypeOK
    /\ CyclesExclusive
    /\ QuietAfterStop

\* Nobody waits for ever: a publication for its cycle, the handoff for the
\* lock, the unload for the tasks it cancelled.
NobodyStarves ==
    /\ PublicationsActedOn
    /\ HandoffNotStarved
    /\ UnloadEnds
=============================================================================
