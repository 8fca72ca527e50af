----------------------- MODULE ControlSchedulerProofs -----------------------
(* The lock discipline and the unload of ControlScheduler, for any number   *)
(* of background tasks and publications and in every mode.                  *)
EXTENDS ControlScheduler, TLAPS

\* Needed besides CyclesExclusive for OwnedIsLeftAlone: a cycle past the
\* ownership gate keeps the handoff out until its write is done.
WriterUnowned == \A t \in Tasks : task[t] = "writing" => ~owned

IInv == TypeOK /\ CyclesExclusive /\ QuietAfterStop /\ WriterUnowned

-----------------------------------------------------------------------------
\* Nothing runs, nothing is held.
LEMMA InitIInv == Init => IInv
<1>. SUFFICES ASSUME Init PROVE IInv
    OBVIOUS
<1>1. task \in [Tasks -> Places]
    BY DEF Init, Places
<1>2. TypeOK
    <2>1. queue \in Seq(Tasks \union {"hand", "mode"}) /\ published \in Nat /\ sampled \in Nat
        BY DEF Init
    <2>2. armed \in BOOLEAN /\ recent \in BOOLEAN /\ enabling \in BOOLEAN
          /\ owned \in BOOLEAN
        BY DEF Init
    <2>. QED BY <1>1, <2>1, <2>2 DEF Init, TypeOK, Phases
<1>3. CyclesExclusive /\ QuietAfterStop /\ WriterUnowned
    BY DEF Init, CyclesExclusive, QuietAfterStop, WriterUnowned, InCycle,
           unloading
<1>. QED BY <1>2, <1>3 DEF IInv

\* A new background task only lands in a free slot, and in none while
\* unloading.
LEMMA SpawnSound ==
    ASSUME TypeOK, NEW k \in New, Spawn(k)
    PROVE  /\ task' \in [Tasks -> Places]
           /\ \A t \in Tasks : task'[t] = task[t] \/ task'[t] \in New
           /\ unloading => task' = task
BY DEF Spawn, TypeOK, Places

\* The steps that only start tasks or let time pass.
LEMMA TriggersSound ==
    ASSUME IInv, Publish \/ TimerFires \/ FireDebounce \/ IntervalElapses
    PROVE  IInv'
<1>. USE DEF IInv, TypeOK, CyclesExclusive, QuietAfterStop, WriterUnowned,
             InCycle, New, unloading, nopd
<1>1. CASE Publish
    <2>1. Spawn("event") /\ published' \in Nat
        BY <1>1, ModeAssumption DEF Publish
    <2>. QED BY <1>1, <2>1, SpawnSound DEF Publish
<1>2. CASE TimerFires
    BY <1>2, SpawnSound DEF TimerFires
<1>3. CASE FireDebounce
    BY <1>3, SpawnSound DEF FireDebounce
<1>4. CASE IntervalElapses
    BY <1>4 DEF IntervalElapses
<1>. QED BY <1>1, <1>2, <1>3, <1>4

\* The steps of one task.
LEMMA TaskSound ==
    ASSUME IInv, NEW t \in Tasks, TaskStep(t)
    PROVE  IInv'
<1>. USE TasksAssumption
     DEF IInv, TypeOK, CyclesExclusive, QuietAfterStop, WriterUnowned,
         InCycle, Places, New, unloading, nopd
<1>1. CASE TriggerDropped(t)
    BY <1>1 DEF TriggerDropped, Defers
<1>2. CASE TriggerRuns(t)
    <2>1. CASE FastPath(t)
        BY <1>2, <2>1 DEF TriggerRuns, Phases
    <2>2. CASE ~FastPath(t)
        BY <1>2, <2>2 DEF TriggerRuns, Phases
    <2>. QED BY <2>1, <2>2
<1>3. CASE Sample(t)
    BY <1>3 DEF Sample, Latest, Phases
<1>4. CASE Gate(t)
    BY <1>4 DEF Gate, Gated, Phases
<1>5. CASE WriteCommand(t)
    BY <1>5 DEF WriteCommand, Phases
<1>6. CASE TaskCancelled(t)
    BY <1>6 DEF TaskCancelled, Cancels, Phases
<1>. QED BY <1>1, <1>2, <1>3, <1>4, <1>5, <1>6 DEF TaskStep

\* Handing over the free lock: nobody was in a cycle.
LEMMA GrantSound ==
    ASSUME IInv, Grant
    PROVE  IInv'
<1>. USE TasksAssumption
     DEF IInv, TypeOK, CyclesExclusive, QuietAfterStop, WriterUnowned,
         InCycle, Places, New, unloading, nopd
<1>1. PICK x \in Tasks \union {"hand", "mode"} :
        x = Head(queue) /\ x # "mode"
    <2>1. Head(queue) \in Tasks \union {"hand", "mode"} /\ Head(queue) # "mode"
        BY DEF Grant
    <2>. QED BY <2>1
<1>2. queue' \in Seq(Tasks \union {"hand", "mode"})
    BY DEF Grant
<1>3. /\ holder = "nobody"
      /\ UNCHANGED <<published, sampled, armed, phase, enabling, hw, law, mode>>
    BY DEF Grant
<1>4. CASE ~Live(x)
    <2>1. UNCHANGED <<task, holder, recent, hand, owned>>
        BY <1>1, <1>4 DEF Grant
    <2>. QED BY <1>2, <1>3, <2>1
<1>5. CASE Live(x) /\ x = "hand"
    <2>1. /\ holder' = "hand" /\ hand' = "held" /\ owned' = TRUE
          /\ UNCHANGED <<task, recent>>
        BY <1>1, <1>5 DEF Grant
    <2>. QED BY <1>2, <1>3, <2>1
<1>6. CASE Live(x) /\ x # "hand"
    <2>1. x \in Tasks /\ task[x] = "queued"
        BY <1>1, <1>6 DEF Live
    <2>2. /\ task' = [task EXCEPT ![x] = "running"] /\ holder' = x
          /\ recent' = TRUE
          /\ UNCHANGED <<hand, owned>>
        BY <1>1, <1>6 DEF Grant
    <2>. QED BY <1>2, <1>3, <2>1, <2>2
<1>. QED BY <1>4, <1>5, <1>6

\* The handoff.
LEMMA HandSound ==
    ASSUME IInv, HandRequest \/ HandIdles \/ HandReturns \/ HandFails
    PROVE  IInv'
<1>. USE TasksAssumption
     DEF IInv, TypeOK, CyclesExclusive, QuietAfterStop, WriterUnowned,
         InCycle, New, unloading, nopd
<1>1. CASE HandRequest
    <2>1. CASE LockFree
        BY <1>1, <2>1 DEF HandRequest, LockFree
    <2>2. CASE ~LockFree
        BY <1>1, <2>2 DEF HandRequest
    <2>. QED BY <2>1, <2>2
<1>2. CASE HandIdles
    BY <1>2 DEF HandIdles
<1>3. CASE HandReturns
    <2>1. CASE enabling
        BY <1>3, <2>1 DEF HandReturns
    <2>2. CASE ~enabling
        BY <1>3, <2>2, SpawnSound DEF HandReturns
    <2>. QED BY <2>1, <2>2
<1>4. CASE HandFails
    BY <1>4 DEF HandFails, FreesLock
<1>. QED BY <1>1, <1>2, <1>3, <1>4

\* The no-PD switch touches neither tasks nor ownership.
LEMMA ModeSound ==
    ASSUME IInv, ModeRequest \/ ModeSet
    PROVE  IInv'
<1>. USE DEF IInv, TypeOK, CyclesExclusive, QuietAfterStop, WriterUnowned,
             InCycle, unloading
<1>1. CASE ModeRequest
    <2>1. PICK value \in Laws :
            IF LockFree
            THEN law' = value /\ armed' = FALSE /\ mode' = "done" /\ UNCHANGED queue
            ELSE /\ mode' = value /\ queue' = Append(queue, "mode")
                 /\ UNCHANGED <<law, armed>>
        BY <1>1 DEF ModeRequest
    <2>2. queue' \in Seq(Tasks \union {"hand", "mode"})
        BY <2>1
    <2>3. law' \in Laws /\ mode' \in Laws \union {"none", "done"}
        BY <2>1
    <2>4. armed' \in BOOLEAN /\ (unloading => ~armed')
        BY <2>1
    <2>. QED BY <1>1, <2>2, <2>3, <2>4 DEF ModeRequest
<1>2. CASE ModeSet
    <2>1. mode \in Laws /\ queue' \in Seq(Tasks \union {"hand", "mode"})
        BY <1>2, TasksAssumption DEF ModeSet, Live
    <2>. QED BY <1>2, <2>1 DEF ModeSet
<1>. QED BY <1>1, <1>2

\* The unload: tasks are gathered before the teardown starts.
LEMMA UnloadSound ==
    ASSUME IInv, Unload
    PROVE  IInv'
<1>. USE DEF IInv, TypeOK, CyclesExclusive, QuietAfterStop, WriterUnowned,
             InCycle, Phases, unloading, nopd
<1>1. CASE BeginUnload
    BY <1>1 DEF BeginUnload, DebounceCancelled
<1>2. CASE TasksGathered
    BY <1>2 DEF TasksGathered, Gathered
<1>3. CASE PlatformsUnloaded
    BY <1>3 DEF PlatformsUnloaded
<1>4. CASE HardwareReleased
    BY <1>4 DEF HardwareReleased
<1>. QED BY <1>1, <1>2, <1>3, <1>4 DEF Unload

LEMMA StutterSound ==
    ASSUME IInv, UNCHANGED vars
    PROVE  IInv'
BY DEF IInv, TypeOK, CyclesExclusive, QuietAfterStop, WriterUnowned, vars,
       unloading, nopd

\* IInv is inductive.
LEMMA NextIInv == IInv /\ [Next]_vars => IInv'
BY TriggersSound, TaskSound, GrantSound, HandSound, ModeSound, UnloadSound, StutterSound
   DEF Next

\* IInv holds in every reachable state.
LEMMA Inductive == Spec => []IInv
BY InitIInv, NextIInv, PTL DEF Spec

-----------------------------------------------------------------------------
\* Every variable of the scheduler keeps its type.
THEOREM TypeCorrect == Spec => []TypeOK
BY Inductive, PTL DEF IInv

\* _control_lock keeps cycles and handoffs apart, whatever triggers, cancels
\* or queues them.
THEOREM LockCorrect == Spec => []CyclesExclusive
BY Inductive, PTL DEF IInv

\* async_stop_background_tasks() leaves no task and no pending debounce.
THEOREM StopCorrect == Spec => []QuietAfterStop
BY Inductive, PTL DEF IInv

\* One writer at a time, and none once the unload has gathered its tasks.
THEOREM WritersCorrect == Spec => []WritersApart
<1>1. TypeOK /\ CyclesExclusive /\ QuietAfterStop => WritersApart
  BY DEF WritersApart
<1>. QED BY <1>1, TypeCorrect, LockCorrect, StopCorrect, PTL

\* No automatic command reaches a battery that manual mode owns.
THEOREM OwnershipCorrect == Spec => OwnedIsLeftAlone
<1>1. IInv /\ [Next]_vars =>
        [(owned /\ owned' /\ hw' = "auto") => hw = "auto"]_hw
    <2>. SUFFICES ASSUME IInv, [Next]_vars, owned, hw' = "auto", hw # "auto"
         PROVE  FALSE
        OBVIOUS
    <2>1. CASE \E t \in Tasks : TaskStep(t)
        BY <2>1 DEF TaskStep, TriggerDropped, TriggerRuns, Sample, Gate,
                    WriteCommand, TaskCancelled, IInv, WriterUnowned
    <2>2. CASE Publish \/ TimerFires \/ FireDebounce \/ IntervalElapses \/ Grant
        BY <2>2 DEF Publish, TimerFires, FireDebounce, IntervalElapses, Grant
    <2>3. CASE \/ HandRequest \/ HandIdles \/ HandReturns \/ HandFails
               \/ ModeRequest \/ ModeSet
        BY <2>3 DEF HandRequest, HandIdles, HandReturns, HandFails, ModeRequest,
                    ModeSet
    <2>4. CASE Unload
        BY <2>4 DEF Unload, BeginUnload, TasksGathered, PlatformsUnloaded,
                    HardwareReleased
    <2>5. CASE UNCHANGED vars
        BY <2>5 DEF vars
    <2>. QED BY <2>1, <2>2, <2>3, <2>4, <2>5 DEF Next
<1>. QED BY <1>1, Inductive, PTL DEF Spec, OwnedIsLeftAlone
=============================================================================
