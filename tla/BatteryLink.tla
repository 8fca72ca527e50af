---------------------------- MODULE BatteryLink -----------------------------
(***************************************************************************)
(* The connection to one battery: the coordinator's polls and its failure  *)
(* ladder (reconnect, then suspend), the coordinator lock shared by polls, *)
(* commands, the wake nudge, the RS485 switch and the teardown             *)
(* (MarstekVenusDataUpdateCoordinator of infra/coordinator.py).            *)
(*                                                                         *)
(* An agent is a coroutine that works on the battery under the lock; its   *)
(* steps are those between awaits.  The read groups of one poll are read   *)
(* in one lock section.  A counter stops at the highest threshold it is    *)
(* compared with.                                                          *)
(***************************************************************************)
EXTENDS Naturals

CONSTANTS
    Pollers,      \* refreshes of the coordinator that may overlap
    ReconnectAt,  \* _max_failures_before_reconnect
    SuspendAt,    \* _max_failures_before_suspend
    CriticalAt,   \* _CRITICAL_GROUP_FAILURES_BEFORE_RECONNECT
    HasControl,   \* capabilities.has_rs485_control
    Callers       \* which of the other agents take part

AllCallers == {"command", "wake", "on", "off", "unload"}
Agents == Pollers \union AllCallers

ASSUME LadderAssumption ==
    /\ ReconnectAt \in Nat /\ SuspendAt \in Nat /\ CriticalAt \in Nat
    /\ 0 < ReconnectAt /\ ReconnectAt <= SuspendAt /\ 0 < CriticalAt
ASSUME AgentAssumption ==
    /\ Pollers \intersect AllCallers = {} /\ Callers \subseteq AllCallers
    /\ HasControl \in BOOLEAN

VARIABLES
    failures,   \* _consecutive_failures
    connected,  \* _is_connected
    suspended,  \* _suspension_reset_time: none, in the future, or past
    critical,   \* _critical_group_failures of the control feedback group
    due,        \* some read group's interval has elapsed
    userOff,    \* rs485_user_disabled
    shutting,   \* _is_shutting_down
    at,         \* where each agent is
    why,        \* what a refresh reconnects for
    ahead,      \* the agents that have or get the lock before it
    alive,      \* the battery answers
    link,       \* the client's socket
    rs485       \* the battery's RS485 control mode

health == <<failures, connected, suspended, critical, due>>
flags == <<userOff, shutting>>
agents == <<at, why, ahead>>
device == <<alive, link, rs485>>
vars == <<health, flags, agents, device>>

Locked == {"read", "connect", "probe", "enable", "assert", "verify", "release",
           "write", "standby"}
Places == Locked \union {"idle", "stopped", "closing", "gone"}
Reasons == {"none", "resume", "aggregate", "stale"}

Answers == alive /\ link = "open"

-----------------------------------------------------------------------------
(* The coordinator lock: asyncio.Lock serves its waiters in order *)

InLine == {b \in Agents : at[b] \in Locked}
Holds(a) == at[a] \in Locked /\ ahead[a] = {}

\* a gives the lock up if it has it, and joins the end of the line when its
\* next step needs the lock.
Go(a, step) ==
    /\ at' = [at EXCEPT ![a] = step]
    /\ ahead' = [b \in Agents |->
                   IF b # a THEN ahead[b] \ {a}
                   ELSE IF step \in Locked THEN InLine \ {a} ELSE {}]

\* a keeps the lock.
Stay(a, step) == at' = [at EXCEPT ![a] = step] /\ UNCHANGED ahead

-----------------------------------------------------------------------------
(* _async_update_data_impl() *)

Counted == IF failures < SuspendAt THEN failures + 1 ELSE failures

Skips == shutting \/ suspended = "waiting"

\* A poll returns at once while shutting down or suspended; when the window is
\* over it reconnects first.
PollStart(p) ==
    /\ at[p] = "idle" /\ ~Skips
    /\ suspended' = "none"
    /\ IF suspended = "expired"
       THEN Go(p, "connect") /\ why' = [why EXCEPT ![p] = "resume"]
       ELSE Go(p, "read") /\ UNCHANGED why
    /\ UNCHANGED <<failures, connected, critical, due, flags, device>>

\* The critical group was answered, failed or was not due.
Streak(crit) ==
    CASE crit = "answered" -> 0
      [] crit = "failed" ->
            IF critical < CriticalAt THEN critical + 1 ELSE critical
      [] crit = "skipped" -> critical

\* A stale critical group is reconnected for, unless the ladder does it.
EndPoll(p) ==
    IF critical' >= CriticalAt
    THEN Go(p, "connect") /\ why' = [why EXCEPT ![p] = "stale"]
    ELSE Go(p, "idle") /\ UNCHANGED why

PollNothingDue(p) ==
    /\ Holds(p) /\ at[p] = "read" /\ ~due
    /\ critical' = critical /\ EndPoll(p)
    /\ UNCHANGED <<failures, connected, suspended, due, flags, device>>

\* One group that answers makes the connection healthy.
PollSucceeds(p) ==
    /\ Holds(p) /\ at[p] = "read" /\ due /\ Answers
    /\ failures' = 0 /\ connected' = TRUE
    /\ \E crit \in {"answered", "failed", "skipped"} : critical' = Streak(crit)
    /\ due' \in BOOLEAN
    /\ EndPoll(p)
    /\ UNCHANGED <<suspended, flags, device>>

\* Every group that was tried failed: the ladder.
PollFails(p) ==
    /\ Holds(p) /\ at[p] = "read" /\ due /\ ~Answers
    /\ failures' = Counted /\ connected' = FALSE
    /\ \E crit \in {"failed", "skipped"} : critical' = Streak(crit)
    /\ IF failures' >= ReconnectAt
       THEN Go(p, "connect") /\ why' = [why EXCEPT ![p] = "aggregate"]
       ELSE EndPoll(p)
    /\ UNCHANGED <<suspended, due, flags, device>>

\* Intervals elapse; the two minutes of a suspension do.
GroupDue ==
    /\ ~due /\ due' = TRUE
    /\ UNCHANGED <<failures, connected, suspended, critical, flags, agents,
                   device>>
SuspensionExpires ==
    /\ suspended = "waiting" /\ suspended' = "expired"
    /\ UNCHANGED <<failures, connected, critical, due, flags, agents, device>>

-----------------------------------------------------------------------------
(* async_reconnect_fresh() *)

\* A fresh socket; a dead battery's may still be accepted.
Connects(a) ==
    /\ Holds(a) /\ at[a] = "connect"
    /\ link' \in IF alive THEN {"open"} ELSE {"open", "closed"}
    /\ Stay(a, "probe")
    /\ UNCHANGED <<health, flags, why, alive, rs485>>

\* Mutated: an accepted socket is taken for a live battery.
TrustsConnect == link = "open"

\* One telemetry read tells a live link from a zombie one.
Proven == Answers

\* Mutated: the user's choice is not consulted.
AlwaysReenables == HasControl

Reenables == HasControl /\ ~userOff

\* Where the caller goes on: a resumed poll reads, a wake forces standby.
Resumes(a) == IF why[a] = "resume" THEN "read"
              ELSE IF a = "wake" THEN "write" ELSE "idle"
Abandons(a) == IF a = "wake" THEN "write" ELSE "idle"

\* The driver is called directly, under the same lock.
KeepsLock(a) == Stay(a, "enable")

ProbeAnswered(a) ==
    /\ Holds(a) /\ at[a] = "probe" /\ Proven
    /\ failures' = 0 /\ connected' = TRUE /\ suspended' = "none"
    /\ critical' = 0 /\ due' = TRUE
    /\ IF Reenables
       THEN KeepsLock(a) /\ UNCHANGED why
       ELSE Go(a, Resumes(a)) /\ why' = [why EXCEPT ![a] = "none"]
    /\ UNCHANGED <<flags, device>>

\* The RS485 write is awaited; its failure is not the reconnection's.
EnableControl(a) ==
    /\ Holds(a) /\ at[a] = "enable"
    /\ rs485' = (rs485 \/ Answers)
    /\ suspended' = IF why[a] = "aggregate" /\ failures >= SuspendAt
                    THEN "waiting" ELSE suspended
    /\ Go(a, Resumes(a)) /\ why' = [why EXCEPT ![a] = "none"]
    /\ UNCHANGED <<failures, connected, critical, due, flags, alive, link>>

\* A resumed poll counts one more failure and is suspended again; the ladder
\* suspends once it has counted enough.
ProbeUnanswered(a) ==
    /\ Holds(a) /\ at[a] = "probe" /\ ~Proven
    /\ connected' = FALSE
    /\ failures' = IF why[a] = "resume" THEN Counted ELSE failures
    /\ suspended' = IF \/ why[a] = "resume"
                       \/ why[a] = "aggregate" /\ failures >= SuspendAt
                    THEN "waiting" ELSE suspended
    /\ Go(a, Abandons(a)) /\ why' = [why EXCEPT ![a] = "none"]
    /\ UNCHANGED <<critical, due, flags, device>>

-----------------------------------------------------------------------------
(* Commands, the wake nudge and the RS485 switch *)

\* Entities are there until the platforms are unloaded.
Loaded(a) == a \in Callers /\ at[a] = "idle" /\ at["unload"] \in {"idle", "stopped"}

Command ==
    /\ Loaded("command") /\ Go("command", "write")
    /\ UNCHANGED <<health, flags, why, device>>

\* A write that the battery takes confirms the connection.
Write(a) ==
    /\ Holds(a) /\ at[a] = "write"
    /\ \/ Answers /\ failures' = 0 /\ connected' = TRUE
       \/ UNCHANGED <<failures, connected>>
    /\ Go(a, "idle")
    /\ UNCHANGED <<suspended, critical, due, flags, why, device>>

\* _attempt_wake(): a battery in standby is reconnected straight away.
Wake ==
    /\ "wake" \in Callers /\ at["wake"] = "idle"
    /\ ~shutting /\ HasControl /\ ~userOff
    /\ Go("wake", "assert") \/ Go("wake", "connect")
    /\ UNCHANGED <<health, flags, why, device>>

TurnOn ==
    /\ Loaded("on") /\ HasControl
    /\ userOff' = FALSE
    /\ Go("on", "assert") \/ Go("on", "connect")
    /\ UNCHANGED <<health, shutting, why, device>>

\* The preference is set before the first await.
TurnOff ==
    /\ Loaded("off") /\ HasControl
    /\ userOff' = TRUE
    /\ Go("off", "release")
    /\ UNCHANGED <<health, shutting, why, device>>

\* set_rs485_control(True): acknowledged, applied or ignored.
AssertControl(a) ==
    /\ Holds(a) /\ at[a] = "assert"
    /\ \/ Answers /\ failures' = 0 /\ connected' = TRUE /\ rs485' \in {TRUE, rs485}
       \/ UNCHANGED <<failures, connected, rs485>>
    /\ Go(a, IF a = "wake" THEN "verify" ELSE "idle")
    /\ UNCHANGED <<suspended, critical, due, flags, why, alive, link>>

\* The wake reads the mode back and reconnects when it is still off.
Verify(a) ==
    /\ Holds(a) /\ at[a] = "verify"
    /\ Go(a, IF Answers /\ ~rs485 THEN "connect" ELSE "write")
    /\ UNCHANGED <<health, flags, why, device>>

\* set_rs485_control(False), by the switch or the teardown.
ReleaseControl(a) ==
    /\ Holds(a) /\ at[a] = "release"
    /\ \/ Answers /\ failures' = 0 /\ connected' = TRUE /\ rs485' = FALSE
       \/ UNCHANGED <<failures, connected, rs485>>
    /\ Go(a, IF a = "unload" THEN "closing" ELSE "idle")
    /\ UNCHANGED <<suspended, critical, due, flags, why, alive, link>>

-----------------------------------------------------------------------------
(* async_unload_entry() *)

\* The control tasks were cancelled, a wake among them wherever it was; then
\* the coordinators are told.
BeginShutdown ==
    /\ "unload" \in Callers /\ at["unload"] = "idle"
    /\ shutting' = TRUE
    /\ at' = [at EXCEPT !["unload"] = "stopped", !["wake"] = "idle"]
    /\ ahead' = [b \in Agents |-> IF b = "wake" THEN {} ELSE ahead[b] \ {"wake"}]
    /\ rs485' \in IF Holds("wake") /\ at["wake"] \in {"assert", "enable"} /\ Answers
                  THEN {rs485, TRUE} ELSE {rs485}
    /\ UNCHANGED <<health, userOff, why, alive, link>>

\* A battery that is not connected, or feeds a backup load, gets no writes.
ReleaseHardware ==
    /\ at["unload"] = "stopped"
    /\ \/ connected /\ Go("unload", "standby")
       \/ Stay("unload", "closing")
    /\ UNCHANGED <<health, flags, why, device>>

Standby(a) ==
    /\ Holds(a) /\ at[a] = "standby"
    /\ Go(a, IF HasControl THEN "release" ELSE "closing")
    /\ UNCHANGED <<health, flags, why, device>>

\* disconnect() does not take the lock.
Disconnect ==
    /\ at["unload"] = "closing"
    /\ link' = "closed"
    /\ Stay("unload", "gone")
    /\ UNCHANGED <<health, flags, why, alive, rs485>>

-----------------------------------------------------------------------------
(* The battery *)

Dies ==
    /\ alive /\ alive' = FALSE
    /\ UNCHANGED <<health, flags, agents, link, rs485>>
Returns ==
    /\ ~alive /\ alive' = TRUE
    /\ link' \in {link, "closed"}
    /\ UNCHANGED <<health, flags, agents, rs485>>
DropsControl ==
    /\ rs485 /\ rs485' = FALSE
    /\ UNCHANGED <<health, flags, agents, alive, link>>

-----------------------------------------------------------------------------
Init ==
    /\ failures = 0 /\ connected \in BOOLEAN /\ suspended = "none"
    /\ critical = 0 /\ due = TRUE
    /\ userOff = FALSE /\ shutting = FALSE
    /\ at = [a \in Agents |-> "idle"] /\ why = [a \in Agents |-> "none"]
    /\ ahead = [a \in Agents |-> {}]
    /\ alive = connected
    /\ link = (IF connected THEN "open" ELSE "closed")
    /\ rs485 = (connected /\ HasControl)

Poll(p) ==
    PollStart(p) \/ PollNothingDue(p) \/ PollSucceeds(p) \/ PollFails(p)

\* What the holder of the lock does next.
Serve(a) ==
    \/ Connects(a) \/ ProbeAnswered(a) \/ EnableControl(a) \/ ProbeUnanswered(a)
    \/ Write(a) \/ AssertControl(a) \/ Verify(a) \/ ReleaseControl(a)
    \/ Standby(a)

Call == Command \/ Wake \/ TurnOn \/ TurnOff

Unload == BeginShutdown \/ ReleaseHardware \/ Disconnect

Battery == Dies \/ Returns \/ DropsControl

Next ==
    \/ \E p \in Pollers : Poll(p)
    \/ GroupDue \/ SuspensionExpires
    \/ \E a \in Agents : Serve(a)
    \/ Call \/ Unload \/ Battery

Spec == Init /\ [][Next]_vars

\* Polls are scheduled, clocks run, and I/O under the lock ends in an answer or
\* a timeout.  Nobody has to call, unload or repair the battery.
FairSpec ==
    /\ Spec
    /\ \A p \in Pollers : WF_vars(Poll(p))
    /\ WF_vars(GroupDue) /\ WF_vars(SuspensionExpires)
    /\ \A a \in Agents : WF_vars(Serve(a))
    /\ WF_vars(ReleaseHardware) /\ WF_vars(Disconnect)

-----------------------------------------------------------------------------
(* Properties *)

TypeOK ==
    /\ failures \in 0 .. SuspendAt /\ connected \in BOOLEAN
    /\ suspended \in {"none", "waiting", "expired"}
    /\ critical \in 0 .. CriticalAt /\ due \in BOOLEAN
    /\ userOff \in BOOLEAN /\ shutting \in BOOLEAN
    /\ at \in [Agents -> Places] /\ why \in [Agents -> Reasons]
    /\ ahead \in [Agents -> SUBSET Agents]
    /\ alive \in BOOLEAN /\ link \in {"open", "closed"} /\ rs485 \in BOOLEAN

\* RS485 control that the user turned off is not turned on again by a
\* reconnection, a wake or an older turn-on, whatever was in flight: it can
\* only come on while the turn-off itself has still to write.
UserOffWins ==
    [][ (~rs485 /\ rs485') => (~userOff \/ at["off"] = "release") ]_rs485

\* A battery that answers again becomes available and is polled again, from
\* every place in the ladder.
RecoveredIsAvailable ==
    <>[]alive => <>[]((connected /\ suspended = "none") \/ shutting)

\* A battery that stays silent becomes unavailable, and the back-off engages
\* although its socket may be accepted each time.
SilentIsSuspended ==
    <>[](~alive) =>
        /\ <>[](~connected \/ shutting)
        /\ []<>(suspended = "waiting" \/ shutting)

\* The teardown of the battery gets the lock, whatever poll, reconnection,
\* wake or switch call was in progress, and ends.
TeardownEnds == (at["unload"] = "stopped") ~> (at["unload"] = "gone")

\* The failure ladder settles on what the battery does: available when it
\* answers, suspended when it stays silent, let go when it is torn down.
LinkSettles ==
    /\ RecoveredIsAvailable
    /\ SilentIsSuspended
    /\ TeardownEnds
=============================================================================
