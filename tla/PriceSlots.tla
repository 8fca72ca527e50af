----------------------------- MODULE PriceSlots -----------------------------
(***************************************************************************)
(* When grid charging is on (pricing/engine.py): the handlers of the three  *)
(* modes.  Dynamic pricing follows a schedule of selected price slots, each  *)
(* with a purpose and a quota; it opens a slot, hands over to the next, ends  *)
(* it, moves what was not charged to later slots, and drops the schedule on a  *)
(* new day.  Real-time pricing compares the price, the time-slot mode asks     *)
(* once per window.  What an evaluation selects is left open; how the charge   *)
(* is regulated is GridCharge.  A slot covers two ticks of the clock.          *)
(***************************************************************************)
EXTENDS Integers, FiniteSets, FiniteSetsExt

CONSTANTS
    PsModes,      \* the modes explored
    PsDay,        \* ticks of a day
    PsEnd,        \* bound: the last tick
    PsNegative,   \* the slots with a negative price
    PsWindow,     \* ticks of the configured charging window (time-slot mode)
    PsQuota,      \* the energy a slot can take
    PsMaxPlans    \* bound: evaluations

ASSUME PsAssumption ==
    /\ PsModes \subseteq {"dynamic", "realtime", "time_slot"} /\ PsModes # {}
    /\ PsDay \in Nat \ {0} /\ PsEnd \in Nat /\ PsQuota \in Nat \ {0} /\ PsMaxPlans \in Nat
    /\ PsWindow \subseteq 0..PsEnd /\ PsNegative \subseteq 0..PsEnd

PsNone == -1
PsSlots == {t \in 0..PsEnd : t % 2 = 0}
Purposes == {"deficit", "negative", "combined"}
NoPlan == [slots |-> {}, purpose |-> <<>>, quota |-> <<>>, deficit |-> FALSE]

VARIABLES
    psMode, psNow,
    psPlan,     \* the schedule: its slots, their purposes and quotas, charging for a deficit needed
    psDate,     \* the day the schedule is for
    psRun,      \* the flags of the charge under way
    psDone,     \* the slots whose target was reached
    psPre,      \* the purposes found by the look ahead of a slot
    psSpent,    \* the last decision was already charged
    psGot,      \* what the slot under way has charged
    psShort,    \* what no slot before the deadline could take over
    psOverride, \* the user paused the feature
    psCycled,   \* a cycle ran at this tick
    psPlans,    \* evaluations so far
    psFilled    \* history: slots whose target was judged reached, under this schedule and day

psVars == <<psMode, psNow, psPlan, psDate, psRun, psDone, psPre, psSpent, psGot, psShort,
            psOverride, psCycled, psPlans, psFilled>>

Idle == [grid |-> FALSE, on |-> FALSE, slot |-> PsNone, purpose |-> "none", rt |-> FALSE, asked |-> FALSE]

PsTypeOK ==
    /\ psMode \in PsModes /\ psNow \in 0..PsEnd
    /\ psPlan.slots \subseteq PsSlots
    /\ psPlan.slots = {} \/ (/\ psPlan.purpose \in [psPlan.slots -> Purposes]
                             /\ psPlan.quota \in [psPlan.slots -> 0..PsQuota])
    /\ psPlan.deficit \in BOOLEAN
    /\ psDate \in -1..PsEnd
    /\ psRun \in [grid: BOOLEAN, on: BOOLEAN, slot: PsSlots \cup {PsNone},
                  purpose: Purposes \cup {"none"}, rt: BOOLEAN, asked: BOOLEAN]
    /\ psDone \subseteq PsSlots /\ psFilled \subseteq PsSlots
    /\ DOMAIN psPre \subseteq PsSlots /\ \A s \in DOMAIN psPre : psPre[s] \in Purposes \cup {"none"}
    /\ {psSpent, psOverride, psCycled} \subseteq BOOLEAN
    /\ psGot \in 0..PsQuota /\ psShort \in Nat /\ psPlans \in 0..PsMaxPlans

---------------------------------------------------------------------------
Day(t) == t \div PsDay
InSlot(s, t) == t \in {s, s + 1}
Current(p, t) == {s \in p.slots : InSlot(s, t)}
Only(f, S) == [s \in S |-> f[s]]

(* _effective_slot_purpose() *)
HasDeficit(u) == u \in {"deficit", "combined"}
HasNegative(u) == u \in {"negative", "combined"}
Joint(deficit, negative) ==
    IF deficit /\ negative THEN "combined" ELSE IF negative THEN "negative"
    ELSE IF deficit THEN "deficit" ELSE "none"
Effective(p, s, pre, pending) ==
    LET u == IF s \in DOMAIN pre THEN pre[s] ELSE p.purpose[s]
    IN Joint(HasDeficit(u) /\ p.deficit, HasNegative(u) /\ s \in PsNegative /\ pending)

(* _prune_completed_opportunities() *)
Prune(p) ==
    LET keep == {s \in p.slots : p.purpose[s] = "deficit" \/ (p.purpose[s] = "combined" /\ p.deficit)}
    IN IF keep = {} THEN NoPlan
       ELSE [slots |-> keep, purpose |-> [s \in keep |-> "deficit"], quota |-> Only(p.quota, keep),
             deficit |-> p.deficit]

\* Mutant of CarryOver: a later slot is given its whole capacity on top of its own quota.
CarryOverFull(p, s, missing, incoming) ==
    LET later == {t \in p.slots \ {s} : t >= psNow \/ t = incoming}
    IN IF later = {} THEN [plan |-> p, left |-> missing]
       ELSE LET t == Min(later)
            IN [plan |-> [p EXCEPT !.quota[t] = Min({PsQuota, missing})], left |-> 0]
PsTotal(f, S) == MapThenSumSet(LAMBDA s : f[s], S)
(* _carry_over_slot_shortfall(): later slots in order, each up to its capacity *)
CarryOver(p, s, missing, incoming) ==
    LET later == {t \in p.slots \ {s} : t >= psNow \/ t = incoming}
        before(t) == {k \in later : k < t}
        room == [t \in later |-> PsQuota - p.quota[t]]
        used(t) == PsTotal(room, before(t))
        take(t) == Min({room[t], IF missing > used(t) THEN missing - used(t) ELSE 0})
    IN [plan |-> [p EXCEPT !.quota = [t \in p.slots |-> IF t \in later THEN @[t] + take(t) ELSE @[t]]],
        left |-> LET rest == missing - PsTotal(room, later) IN IF rest > 0 THEN rest ELSE 0]
Missing(p, r, got) ==
    IF r.slot \in p.slots /\ HasDeficit(r.purpose) /\ p.quota[r.slot] > got THEN p.quota[r.slot] - got ELSE 0

---------------------------------------------------------------------------
(* The handler's state as it goes through a cycle. *)
Here == [plan |-> psPlan, date |-> psDate, run |-> psRun, done |-> psDone, pre |-> psPre,
         spent |-> psSpent, got |-> psGot, short |-> psShort, filled |-> psFilled]
Becomes(h) ==
    /\ psPlan' = h.plan /\ psDate' = h.date /\ psRun' = h.run /\ psDone' = h.done
    /\ psPre' = h.pre /\ psSpent' = h.spent /\ psGot' = h.got /\ psShort' = h.short
    /\ psFilled' = h.filled

(* The daily reset: slots that start after midnight stay. *)
NewDay(h) ==
    LET keep == {s \in h.plan.slots : s >= Day(psNow) * PsDay}
    IN IF h.date = PsNone \/ Day(psNow) <= h.date THEN h
       ELSE [h EXCEPT !.plan = IF keep = {} THEN NoPlan
                               ELSE [h.plan EXCEPT !.slots = keep, !.purpose = Only(@, keep), !.quota = Only(@, keep)],
                      !.date = PsNone, !.run = [h.run EXCEPT !.on = FALSE, !.purpose = "none"],
                      !.done = {}, !.pre = <<>>, !.filled = {}]

(* _stop_dynamic_price_slot() and the carry-over before a hand-over *)
CarriedOver(h, incoming) ==
    LET c == CarryOver(h.plan, h.run.slot, Missing(h.plan, h.run, h.got), incoming)
    IN IF h.run.slot \in h.plan.slots
       THEN [h EXCEPT !.plan = c.plan, !.short = h.short + c.left, !.spent = TRUE, !.got = 0]
       ELSE [h EXCEPT !.spent = TRUE, !.got = 0]
Stop(h) == [h EXCEPT !.run = Idle, !.spent = TRUE, !.got = 0]

(* _refresh_spent_decision(): a decision already charged is taken again for this slot *)
Refresh(h, s, x) ==
    IF h.plan.deficit /\ HasDeficit(h.plan.purpose[s]) /\ h.spent /\ h.plan.quota[s] = 0
    THEN [h EXCEPT !.pre = [t \in DOMAIN h.pre \cup {s} |->
                               IF t = s THEN Joint(x.need, HasNegative(h.plan.purpose[s]) /\ x.pending) ELSE h.pre[t]],
                   !.spent = FALSE]
    ELSE h
Works(h, s, x) == IF h.plan.quota[s] > 0 THEN TRUE ELSE x.work

(* _hand_over_dynamic_price_slot() *)
HandOver(h0, s, x) ==
    LET c == CarriedOver(h0, s)
        h == IF s \in c.done THEN c ELSE Refresh(c, s, x)
        u == IF s \in h.done THEN "none" ELSE Effective(h.plan, s, h.pre, x.pending)
    IN IF u = "none" THEN Stop(h)
       ELSE IF u = "deficit" /\ ~Works(h, s, x) THEN Stop([h EXCEPT !.done = @ \cup {s}])
       ELSE [h EXCEPT !.run = [h.run EXCEPT !.slot = s, !.purpose = u]]

(* A slot opens unless it is done, needless or blocked. *)
Opened(h0, s, x) ==
    LET h == IF s \in h0.done THEN h0 ELSE Refresh(h0, s, x)
        u == IF s \in h.done THEN "none" ELSE Effective(h.plan, s, h.pre, x.pending)
    IN IF u = "none" \/ x.blocked THEN h
       ELSE IF u = "deficit" /\ ~Works(h, s, x) THEN [h EXCEPT !.done = @ \cup {s}]
       ELSE [h EXCEPT !.run = [h.run EXCEPT !.on = TRUE, !.slot = s, !.purpose = u, !.grid = TRUE], !.got = 0]

(* An open slot: its purpose may be gone, the charge goes on, its target may be reached. *)
Charged(h, s, x) ==
    LET u == Effective(h.plan, s, h.pre, x.pending)
    IN IF u = "none" THEN Stop(IF x.pending THEN h ELSE [h EXCEPT !.plan = Prune(@)])
       ELSE IF x.reached
            THEN Stop([h EXCEPT !.done = @ \cup {s}, !.filled = @ \cup {s}, !.plan = IF x.pending THEN @ ELSE Prune(@)])
            ELSE [h EXCEPT !.run = [h.run EXCEPT !.purpose = u],
                           !.got = IF h.got < h.plan.quota[s] THEN h.got + 1 ELSE h.got]

(* handle_dynamic_pricing_predictive_charging() *)
Pruned(h, x) ==
    IF x.pending \/ ~(\E s \in h.plan.slots : HasNegative(h.plan.purpose[s])) THEN h
    ELSE LET p == [h EXCEPT !.plan = Prune(h.plan)]
         IN IF ~h.run.on THEN p
            ELSE IF h.run.purpose = "negative" THEN Stop(p)
            ELSE IF h.run.purpose = "combined" THEN [p EXCEPT !.run = [h.run EXCEPT !.purpose = "deficit"]]
            ELSE p
Moved(h, s, x) ==
    IF s # PsNone /\ h.run.on /\ h.run.slot # PsNone /\ h.run.slot # s THEN HandOver(h, s, x) ELSE h
AtEdge(h, s, x) ==
    IF s # PsNone /\ ~h.run.on THEN Opened(h, s, x)
    ELSE IF s = PsNone /\ h.run.on THEN Stop(CarriedOver(h, PsNone)) ELSE h
Dynamic(x) ==
    \E d \in {NewDay(Here)} : \E h \in {Pruned(d, x)} :
        LET now == Current(h.plan, psNow)
            s == IF now = {} THEN PsNone ELSE Min(now)
        IN IF psOverride THEN Becomes([h EXCEPT !.run = [h.run EXCEPT !.grid = FALSE, !.on = FALSE]])
           ELSE IF h.plan = NoPlan THEN Becomes(h)
           ELSE \E m \in {Moved(h, s, x)} : \E e \in {AtEdge(m, s, x)} :
                    Becomes(IF e.run.on THEN Charged(e, s, x) ELSE e)

(* handle_realtime_price_predictive_charging() *)
RealTime(h, x) ==
    LET off == [h EXCEPT !.run = [h.run EXCEPT !.rt = FALSE, !.grid = FALSE]]
        on == [h EXCEPT !.run = [h.run EXCEPT !.rt = TRUE, !.grid = TRUE]]
        dear == x.price # "cheap"
        next == IF ~dear /\ ~h.run.rt THEN IF ~x.blocked /\ x.need THEN on ELSE h
                ELSE IF dear /\ h.run.rt THEN off ELSE h
    IN IF x.price = "none" THEN IF h.run.rt THEN off ELSE h
       ELSE IF psOverride THEN off
       ELSE IF next.run.grid /\ x.blocked THEN off
       ELSE IF next.run.grid /\ x.reached THEN [next EXCEPT !.run = [next.run EXCEPT !.grid = FALSE]]
       ELSE next

(* handle_time_slot_predictive_charging(): asked on entry and when the situation moved *)
TimeSlot(h, x) ==
    LET asked == IF ~h.run.asked \/ x.moved
                 THEN [h EXCEPT !.run = [h.run EXCEPT !.asked = TRUE, !.grid = x.need]] ELSE h
    IN IF psNow \notin PsWindow THEN [h EXCEPT !.run = [h.run EXCEPT !.asked = FALSE, !.grid = FALSE]]
       ELSE IF psOverride THEN [h EXCEPT !.run = [h.run EXCEPT !.grid = FALSE]]
       ELSE IF asked.run.grid /\ x.reached THEN [asked EXCEPT !.run = [asked.run EXCEPT !.grid = FALSE]]
       ELSE asked

---------------------------------------------------------------------------
(* What a cycle finds: an ordinary one, or one thing out of the ordinary. *)
Plain == [pending |-> TRUE, need |-> TRUE, work |-> TRUE, blocked |-> FALSE, reached |-> FALSE,
          moved |-> FALSE, price |-> "cheap"]
PsSeen ==
    {Plain, [Plain EXCEPT !.pending = FALSE], [Plain EXCEPT !.need = FALSE, !.work = FALSE],
     [Plain EXCEPT !.blocked = TRUE], [Plain EXCEPT !.reached = TRUE],
     [Plain EXCEPT !.reached = TRUE, !.pending = FALSE],
     [Plain EXCEPT !.moved = TRUE, !.need = FALSE], [Plain EXCEPT !.price = "dear"], [Plain EXCEPT !.price = "none"]}

PsCycle ==
    /\ \E x \in PsSeen :
        /\ CASE psMode = "dynamic" -> Dynamic(x)
             [] psMode = "realtime" -> Becomes(RealTime(Here, x))
             [] psMode = "time_slot" -> Becomes(TimeSlot(Here, x))
    /\ psCycled' = TRUE
    /\ UNCHANGED <<psMode, psNow, psOverride, psPlans>>

(* _evaluate_dynamic_pricing(): nothing selected, or a new schedule of slots still to come *)
PlanOf(S, u, q) == [slots |-> S, purpose |-> [s \in S |-> u[s]], quota |-> [s \in S |-> q],
                    deficit |-> \E s \in S : HasDeficit(u[s])]
PurposesOf(S) == {u \in [S -> Purposes] : \A s \in S : HasNegative(u[s]) => s \in PsNegative}
PsEvaluate ==
    /\ psMode = "dynamic" /\ psPlans < PsMaxPlans /\ psPlans' = psPlans + 1
    /\ \/ psPlan' = NoPlan /\ psDate' = Day(psNow) /\ UNCHANGED <<psRun, psDone, psPre, psSpent>>
       \/ \E S \in (SUBSET {s \in PsSlots : s + 1 >= psNow /\ s < psNow + PsDay}) \ {{}}, q \in 0..PsQuota :
            \E u \in PurposesOf(S) :
                /\ psPlan' = PlanOf(S, u, q)
                /\ psDate' = Day(Max(S))
                /\ psDone' = {} /\ psPre' = <<>> /\ psSpent' = FALSE
                /\ psRun' = [psRun EXCEPT !.purpose = "none"]
    /\ psShort' = 0 /\ psFilled' = {}
    /\ UNCHANGED <<psMode, psNow, psGot, psOverride, psCycled>>

(* _evaluate_evening_recharge(): slots added to the schedule *)
PsEvening ==
    /\ psMode = "dynamic" /\ psPlans < PsMaxPlans /\ psPlans' = psPlans + 1
    /\ LET kept == {s \in psPlan.slots : psPlan.deficit \/ psPlan.purpose[s] # "deficit"}
       IN \E s \in {s \in PsSlots : s >= psNow /\ s < psNow + PsDay} \ kept :
            LET all == kept \cup {s}
            IN /\ psPlan' = [slots |-> all, deficit |-> TRUE,
                             purpose |-> [t \in all |-> IF t = s THEN "deficit" ELSE psPlan.purpose[t]],
                             quota |-> [t \in all |-> IF t = s THEN 0 ELSE psPlan.quota[t]]]
               /\ psDate' = Day(Max(all))
    /\ psPre' = <<>> /\ psSpent' = FALSE
    /\ UNCHANGED <<psMode, psNow, psRun, psDone, psGot, psShort, psOverride, psCycled, psFilled>>

(* _check_dp_pre_slot_reevaluation(): the next slot is judged ahead of its start *)
PsLookAhead ==
    /\ psMode = "dynamic" /\ ~psRun.on
    /\ LET next == {s \in psPlan.slots : s > psNow}
       IN /\ next # {} /\ Min(next) = psNow + 1 /\ Min(next) \notin DOMAIN psPre
          /\ \E need, pending \in BOOLEAN :
                LET s == Min(next)
                    deficit == HasDeficit(psPlan.purpose[s]) /\ psPlan.deficit
                    u == Joint(deficit /\ need, HasNegative(psPlan.purpose[s]) /\ pending)
                IN /\ psPre' = [t \in DOMAIN psPre \cup {s} |-> IF t = s THEN u ELSE psPre[t]]
                   /\ psSpent' = (psSpent /\ ~deficit)
                   /\ psPlan' = IF HasNegative(psPlan.purpose[s]) /\ ~pending THEN Prune(psPlan) ELSE psPlan
    /\ UNCHANGED <<psMode, psNow, psDate, psRun, psDone, psGot, psShort, psOverride, psCycled, psPlans, psFilled>>

(* _clear_predictive_runtime(): the switch turned off; and on again *)
PsSwitch ==
    /\ psPlans < PsMaxPlans /\ psPlans' = psPlans + 1
    /\ psOverride' = ~psOverride
    /\ IF psOverride THEN UNCHANGED <<psRun, psPlan, psPre>>
       ELSE psRun' = [Idle EXCEPT !.asked = psRun.asked] /\ psPlan' = Prune(psPlan) /\ psPre' = <<>>
    /\ UNCHANGED <<psMode, psNow, psDate, psDone, psSpent, psGot, psShort, psCycled, psFilled>>

PsTick ==
    /\ psCycled /\ psNow < PsEnd
    /\ psNow' = psNow + 1 /\ psCycled' = FALSE
    /\ UNCHANGED <<psMode, psPlan, psDate, psRun, psDone, psPre, psSpent, psGot, psShort, psOverride, psPlans, psFilled>>

PsInit ==
    /\ psMode \in PsModes /\ psNow = 0 /\ psPlan = NoPlan /\ psDate = PsNone /\ psRun = Idle
    /\ psDone = {} /\ psPre = <<>> /\ psSpent = FALSE /\ psGot = 0 /\ psShort = 0
    /\ psOverride = FALSE /\ psCycled = FALSE /\ psPlans = 0 /\ psFilled = {}

PsNext == PsCycle \/ PsEvaluate \/ PsEvening \/ PsLookAhead \/ PsSwitch \/ PsTick
PsSpec == PsInit /\ [][PsNext]_psVars

---------------------------------------------------------------------------
(* A slot whose target was reached is not opened again by the SOC falling back, a purpose           *)
(* returning or a hand-over: only a new schedule or a new day may (pricing/engine.py:5650). *)
DoneStaysDone == ~(psRun.on /\ psRun.slot \in psFilled)

(* Whatever a slot could not charge is found again, in later quotas or in the shortfall that is    *)
(* reported, and no quota exceeds what its slot can take (pricing/engine.py:5268). *)
Quotas(p, r) == PsTotal(p.quota, p.slots \ {r.slot})
CarryLosesNothing ==
    [][(psRun.on /\ psRun.slot \in psPlan.slots /\ psRun'.slot # psRun.slot
         /\ psNow >= psRun.slot + 2 /\ psPlan'.slots = psPlan.slots /\ psPlans' = psPlans)
        => Quotas(psPlan', psRun) + psShort' = Quotas(psPlan, psRun) + psShort + Missing(psPlan, psRun, psGot)]_psVars

(* Grid charging is on only while a slot, a cheap price or a window owns it; otherwise the cycle    *)
(* returns before the ordinary regulator runs (__init__.py:9084). *)
Owned(r) ==
    CASE psMode = "dynamic" -> r.on
      [] psMode = "realtime" -> r.rt
      [] psMode = "time_slot" -> psNow \in PsWindow
ChargeHasAnOwner == (psCycled /\ psRun.grid) => Owned(psRun)
=============================================================================
