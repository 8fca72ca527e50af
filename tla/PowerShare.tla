----------------------------- MODULE PowerShare -----------------------------
(***************************************************************************)
(* How one power request becomes commands to batteries (control/power_          *)
(* distribution.py, control/phase_power_limit.py): the batteries are chosen with   *)
(* hysteresis and a hold, the request is shared, each phase's share is cut to what   *)
(* its fuse has left and the rest offered to the other phases.  Meters come and go,    *)
(* writes fail.  One unit of power is the   *)
(* rounding step; currents are counted in it.                                            *)
(***************************************************************************)
EXTENDS Integers, Sequences, SequencesExt, FiniteSetsExt

CONSTANTS
    ShPhase,   \* each battery's phase, 0 when it has none; batteries are 1..Len
    ShMax,     \* each battery's power limit
    ShWeight,  \* each battery's room: the weight of its share when charging
    ShLimit,   \* each phase's fuse rating
    ShAct,     \* percent of the chosen batteries' power above which one more is taken
    ShJoin,    \* the same for one that is not in use: with the hysteresis, at most the cap
    ShDrop,    \* the same for one in use to be kept: less the hysteresis, at least the floor
    ShHold,    \* control cycles a battery of a split is kept
    ShBases,   \* what the house may draw on a phase
    ShAsks,    \* what the regulator may ask for
    ShMaxUpsets \* bound: changes of the house, meters lost, failed writes, batteries away,
                \* commands outside a plan

ASSUME ShAssumption ==
    /\ ShPhase \in Seq(0..Len(ShLimit)) /\ ShPhase # <<>> /\ ShLimit \in Seq(Nat \ {0})
    /\ ShMax \in Seq(Nat \ {0}) /\ ShWeight \in Seq(Nat \ {0}) /\ Len(ShMax) = Len(ShPhase) /\ Len(ShWeight) = Len(ShPhase)
    /\ {ShAct, ShJoin, ShDrop, ShHold, ShMaxUpsets} \subseteq Nat /\ ShDrop <= ShAct /\ ShAct <= ShJoin /\ ShJoin <= 100
    /\ ShAsks \subseteq Nat /\ ShBases \subseteq Int

VARIABLES
    shBase,   \* what the house draws on each phase
    shDark,   \* phases whose current sensor gives nothing
    shAway,   \* batteries that may not be used
    shOut,    \* each battery's command, charging positive; delivered by the next cycle
    shHold,   \* each phase's discharge under its last good reading
    shActive, \* the batteries in use, in order
    shDir,    \* charging (1) or discharging (-1)
    shKeep,   \* cycles each battery is kept
    shLast,   \* what was done last: a whole plan, one command, or something that spoils the comparison
    shWho,    \* the battery of that one command
    shAsk,    \* the power the last plan was made for
    shKnown,  \* what the house drew on each phase at its last good reading
    shLeft    \* the bound's budget

shVars == <<shBase, shDark, shAway, shOut, shHold, shActive, shDir, shKeep, shLast, shWho, shAsk, shKnown, shLeft>>

Packs == 1..Len(ShPhase)
Phases == 1..Len(ShLimit)
OnPhase(p) == {u \in Packs : ShPhase[u] = p}
Plus(f, S) == LET upTo[n \in 0..Len(ShPhase)] == IF n = 0 THEN 0 ELSE upTo[n - 1] + IF n \in S THEN f[n] ELSE 0
              IN upTo[Len(ShPhase)]
(* The batteries of a list that are in S, in its order; and all of them *)
Among(list, S) ==
    LET pick[n \in 0..Len(list)] ==
            IF n = 0 THEN <<>> ELSE IF list[n] \in S THEN Append(pick[n - 1], list[n]) ELSE pick[n - 1]
    IN pick[Len(list)]
InTurn == [u \in Packs |-> u]

ShTypeOK ==
    /\ shBase \in [Phases -> ShBases] /\ shDark \subseteq Phases /\ shAway \subseteq Packs
    /\ shOut \in [Packs -> Int] /\ \A u \in Packs : shOut[u] \in -ShMax[u]..ShMax[u]
    /\ shHold \in [Phases -> Nat] /\ ToSet(shActive) \subseteq Packs /\ IsInjective(shActive)
    /\ shDir \in {1, -1} /\ shKeep \in [Packs -> 0..ShHold]
    /\ shLast \in {"plan", "one", "other"} /\ shWho \in Packs /\ shAsk \in ShAsks \cup {0} /\ shKnown \in [Phases -> ShBases] /\ shLeft \in 0..ShMaxUpsets

---------------------------------------------------------------------------
(* calculate_phase_budgets(): the house is the reading less what the batteries take, so the budgets
   do not depend on what they do now; a battery group stays inside the rating on its own too *)
Budget(p, charging) ==
    IF charging THEN Max({0, Min({ShLimit[p], ShLimit[p] - shBase[p]})})
    ELSE Max({0, Min({ShLimit[p], ShLimit[p] + shBase[p]})})
(* phase_snapshot() of every phase: a good reading renews the discharge to hold without one *)
Held == [p \in Phases |-> IF p \in shDark THEN shHold[p]
                          ELSE Min({Max({0, -Plus(shOut, OnPhase(p))}), Budget(p, FALSE)})]
Seen == [p \in Phases |-> IF p \in shDark THEN shKnown[p] ELSE shBase[p]]
(* _degraded_budget(): without a reading no charging, and the discharge that was measured *)
DarkBudget(p, charging) == IF charging THEN 0 ELSE shHold[p]
Allowance(p, charging) == IF p \in shDark THEN DarkBudget(p, charging) ELSE Budget(p, charging)

(* _cap_group_allocation(): shares rounded down, what is left handed out one step each in turn *)
Turn(k) == ((k - 1) % Len(ShPhase)) + 1
Dealt(d, u, need, group) ==
    IF u \in group /\ d.rest > 0 /\ d.got[u] < need[u]
    THEN [got |-> [d.got EXCEPT ![u] = @ + 1], rest |-> d.rest - 1] ELSE d
CapGroup(total, need, group) ==
    LET room == Plus(need, group)
        most == Min({total, room})
        floor == [u \in Packs |-> IF u \notin group \/ room = 0 THEN 0 ELSE (most * need[u]) \div room]
        deal[k \in 0..Len(ShPhase) * Len(ShPhase)] ==
            IF k = 0 THEN [got |-> floor, rest |-> most - Plus(floor, group)]
            ELSE Dealt(deal[k - 1], Turn(k), need, group)
    IN deal[Len(ShPhase) * Len(ShPhase)].got

\* Mutant of Room: the phase is not asked, only the battery.
RoomOfBattery(got, u, charging) == IF ShPhase[u] \in shDark THEN 0 ELSE ShMax[u] - got[u]
(* limit_allocation(): each phase's group capped, then the rest offered to any battery and phase
   with room, the requested ones first *)
Room(got, u, charging) ==
    IF ShPhase[u] = 0 THEN ShMax[u] - got[u]
    ELSE IF ShPhase[u] \in shDark THEN 0
    ELSE Min({ShMax[u] - got[u], Budget(ShPhase[u], charging) - Plus(got, OnPhase(ShPhase[u]))})
Candidates(asked, others) == asked \o Among(others, Packs \ ToSet(asked))
Group(asked, p) == ToSet(asked) \cap OnPhase(p)
Capped(need, asked, p, charging) ==
    CapGroup(Min({Plus(need, Group(asked, p)), Allowance(p, charging)}), need, Group(asked, p))
Offered(d, u, charging) ==
    LET more == Max({0, Min({d.rest, Room(d.got, u, charging)})})
    IN [got |-> [d.got EXCEPT ![u] = @ + more], rest |-> d.rest - more]
LimitAllocation(need, asked, others, charging) ==
    LET capped == [p \in Phases |-> Capped(need, asked, p, charging)]
        first == [u \in Packs |-> IF u \notin ToSet(asked) THEN 0
                                  ELSE IF ShPhase[u] = 0 THEN need[u] ELSE capped[ShPhase[u]][u]]
        cands == Candidates(asked, others)
        offer[n \in 0..Len(cands)] ==
            IF n = 0 THEN [got |-> first, rest |-> Plus(need, ToSet(asked)) - Plus(first, Packs)]
            ELSE Offered(offer[n - 1], cands[n], charging)
    IN offer[Len(cands)].got

(* _distribute_power_by_limits(): in proportion to the weights; a battery whose share reaches its
   limit gets the limit and leaves the division; shares rounded half to even *)
HalfEven(n, d) ==
    LET q == n \div d  r == 2 * (n % d)
    IN IF r > d \/ (r = d /\ q % 2 = 1) THEN q + 1 ELSE q
Filled(s, u, w, cap) ==
    IF s.rest * w[u] >= ShMax[u] * cap
    THEN [rest |-> s.rest - ShMax[u], open |-> s.open \ {u}, got |-> [s.got EXCEPT ![u] = ShMax[u]]]
    ELSE s
Sifted(s, w, chosen) ==
    LET cap == Plus(w, s.open)
        sift[k \in 0..Len(chosen)] ==
            IF k = 0 THEN s
            ELSE IF chosen[k] \in s.open THEN Filled(sift[k - 1], chosen[k], w, cap) ELSE sift[k - 1]
    IN sift[Len(chosen)]
Round(s, w, chosen) ==
    IF s.rest = 0 \/ s.open = {} THEN s
    ELSE IF Sifted(s, w, chosen).open # s.open THEN Sifted(s, w, chosen)
    ELSE [rest |-> 0, open |-> s.open,
          got |-> [u \in Packs |-> IF u \in s.open THEN HalfEven(s.rest * w[u], Plus(w, s.open)) ELSE s.got[u]]]
Shares(total, chosen, charging) ==
    LET w == IF charging THEN ShWeight ELSE ShMax
        all == [rest |-> Min({total, Plus(ShMax, ToSet(chosen))}), open |-> ToSet(chosen), got |-> [u \in Packs |-> 0]]
        round[n \in 0..Len(chosen)] == IF n = 0 THEN all ELSE Round(round[n - 1], w, chosen)
    IN round[Len(chosen)].got

(* _select_batteries_for_operation(): in order until the threshold is met; one in use is dropped
   and one not in use taken only past the hysteresis; one kept by its hold stays *)
Take(power, order) ==
    LET n == CHOOSE n \in 0..Len(order) :
               /\ n = Len(order) \/ (n > 0 /\ 100 * power <= ShAct * Plus(ShMax, ToSet(SubSeq(order, 1, n))))
               /\ \A m \in 1..(n - 1) : 100 * power > ShAct * Plus(ShMax, ToSet(SubSeq(order, 1, m)))
    IN SubSeq(order, 1, n)
Stays(s, u, power, order) ==
    IF u \notin ToSet(s) /\ u \in ToSet(order) /\ 100 * power > ShDrop * Plus(ShMax, ToSet(s))
    THEN Append(s, u) ELSE s
Steady(power, order, used) ==
    LET stays[n \in 0..Len(used)] ==
            IF n = 0 THEN Take(power, order) ELSE Stays(stays[n - 1], used[n], power, order)
        stay == stays[Len(used)]
    IN IF /\ used # <<>> /\ Len(stay) > 1 /\ stay[Len(stay)] \notin ToSet(used)
          /\ 100 * power <= ShJoin * Plus(ShMax, ToSet(Front(stay)))
       THEN Front(stay) ELSE stay
Select(power, order, used, keep) ==
    LET now == Steady(power, order, used)
    IN now \o Among(used, {u \in ToSet(order) \ ToSet(now) : keep[u] > 0})
(* hold_until: renewed for the batteries of a split, running down for the others *)
HoldUntil(power, order, used, keep, chosen) ==
    LET now == Steady(power, order, used)
    IN [u \in Packs |-> IF Len(now) > 1 /\ u \in ToSet(now) THEN ShHold
                        ELSE IF u \in ToSet(chosen) THEN Max({0, keep[u] - 1}) ELSE 0]

(* charge_order() / the primary battery and discharge_order_key(): batteries in use come first *)
Order(used, avail) == Among(used, avail) \o Among(InTurn, avail \ ToSet(used))

---------------------------------------------------------------------------
Upset == shLeft > 0 /\ shLeft' = shLeft - 1
(* The commands of a plan go out one after another; one write may fail, its battery goes on as before *)
SendAll(got) ==
    \/ shOut' = got /\ shLast' = "plan" /\ UNCHANGED shLeft
    \/ /\ Upset /\ shLast' = "other"
       /\ \E u \in Packs : shOut[u] # got[u] /\ shOut' = [got EXCEPT ![u] = shOut[u]]
(* An automatic cycle: choose, share, limit, command *)
ShCycle ==
    /\ \E power \in ShAsks, dir \in {1, -1} :
         LET charging == dir = 1
             used == IF dir = shDir THEN shActive ELSE <<>>
             avail == Packs \ shAway
             order == Order(used, avail)
             none == [u \in Packs |-> 0]
             keep == IF dir = shDir THEN shKeep ELSE none
             alone == power = 0 \/ Cardinality(avail) <= 1
             chosen == IF power = 0 THEN <<>> ELSE IF alone THEN order ELSE Select(power, order, used, keep)
         IN \E got \in {IF chosen = <<>> THEN none
                        ELSE LimitAllocation(Shares(power, chosen, charging), chosen, order, charging)} :
            /\ shActive' = Among(Candidates(chosen, order), {u \in Packs : got[u] > 0})
            /\ shDir' = dir /\ shAsk' = power
            /\ shKeep' = IF alone THEN none ELSE HoldUntil(power, order, used, keep, chosen)
            /\ SendAll([u \in Packs |-> dir * got[u]])
    /\ shHold' = Held /\ shKnown' = Seen
    /\ shWho' = 1 /\ UNCHANGED <<shBase, shDark, shAway>>
(* _apply_phase_safety_review(): with a sensor lost, what runs now is allocated anew, both ways *)
ShReview ==
    /\ shDark # {}
    /\ LET Running(dir) == [u \in Packs |-> Max({0, dir * shOut[u]})]
           Busy(dir) == Among(InTurn, {u \in Packs : shOut[u] * dir > 0})
           Again(dir) == IF Busy(dir) = <<>> THEN [u \in Packs |-> 0]
                         ELSE LimitAllocation(Shares(Plus(Running(dir), Packs), Busy(dir), dir = 1), Busy(dir),
                                              Order(shActive, Packs \ shAway), dir = 1)
       IN \E in \in {Again(1)}, out \in {Again(-1)} :
            SendAll([u \in Packs |-> IF in[u] > 0 /\ out[u] > 0 THEN 0 ELSE in[u] - out[u]])
    /\ shAsk' = 0 /\ shHold' = Held /\ shKnown' = Seen
    /\ shWho' = 1 /\ UNCHANGED <<shBase, shDark, shAway, shActive, shDir, shKeep>>
(* limit_single_command(): a command outside a plan gets what the others of its phase leave *)
Others(u, dir) == Plus([v \in Packs |-> Max({0, dir * shOut[v]})], OnPhase(ShPhase[u]) \ {u})
ShSingle ==
    /\ Upset
    /\ \E u \in Packs \ shAway, power \in ShAsks \ {0}, dir \in {1, -1} :
         LET own == Min({power, ShMax[u]})
             free == Max({0, Allowance(ShPhase[u], dir = 1) - Others(u, dir)})
         IN /\ shOut' = [shOut EXCEPT ![u] = dir * (IF ShPhase[u] = 0 THEN own ELSE Min({own, free}))]
            /\ shWho' = u
    /\ shHold' = Held /\ shKnown' = Seen /\ shLast' = "one" /\ shAsk' = 0
    /\ UNCHANGED <<shBase, shDark, shAway, shActive, shDir, shKeep>>

(* The surroundings *)
ShHouse ==
    /\ Upset /\ \E p \in Phases : \E x \in ShBases \ {shBase[p]} : shBase' = [shBase EXCEPT ![p] = x]
    /\ shLast' = "other" /\ shWho' = 1 /\ shAsk' = 0 /\ UNCHANGED <<shDark, shAway, shOut, shHold, shActive, shDir, shKeep, shKnown>>
ShMeter ==
    /\ Upset /\ \E p \in Phases : shDark' = (shDark \cup {p}) \ (shDark \cap {p})
    /\ shLast' = "other" /\ shWho' = 1 /\ shAsk' = 0 /\ UNCHANGED <<shBase, shAway, shOut, shHold, shActive, shDir, shKeep, shKnown>>
ShAways ==
    /\ Upset /\ \E u \in Packs : shAway' = (shAway \cup {u}) \ (shAway \cap {u})
    /\ shLast' = "other" /\ shWho' = 1 /\ shAsk' = 0 /\ UNCHANGED <<shBase, shDark, shOut, shHold, shActive, shDir, shKeep, shKnown>>

ShInit ==
    /\ shBase \in [Phases -> ShBases] /\ shDark = {} /\ shAway = {} /\ shOut = [u \in Packs |-> 0]
    /\ shHold = [p \in Phases |-> 0] /\ shActive = <<>> /\ shDir = 1 /\ shKeep = [u \in Packs |-> 0]
    /\ shLast = "other" /\ shWho = 1 /\ shAsk = 0 /\ shKnown = [p \in Phases |-> shBase[p]] /\ shLeft = ShMaxUpsets
ShNext == ShCycle \/ ShReview \/ ShSingle \/ ShHouse \/ ShMeter \/ ShAways
ShSpec == ShInit /\ [][ShNext]_shVars

---------------------------------------------------------------------------
Drawn(p, dir) == Plus([u \in Packs |-> Max({0, dir * shOut[u]})], OnPhase(p))
Inside(p, dir) == Drawn(p, dir) > 0 => dir * shBase[p] + Drawn(p, dir) <= ShLimit[p]

(* A plan carried out leaves no fuse over its rating because of the batteries, and a single command
   adds nothing beyond it: what one phase must give up does not overload the other *)
PhaseEnvelope ==
    /\ shLast = "plan" => \A p \in Phases \ shDark, dir \in {1, -1} : Inside(p, dir)
    /\ shLast = "one" /\ shOut[shWho] # 0 /\ ShPhase[shWho] \in Phases \ shDark
         => Inside(ShPhase[shWho], IF shOut[shWho] > 0 THEN 1 ELSE -1)

(* With its sensor lost a phase charges nothing, and as long as the house draws what it drew at the
   last good reading the discharge that goes on keeps the fuse inside its rating *)
BlindStaysInside ==
    shLast = "plan" =>
      \A p \in shDark : Drawn(p, 1) = 0 /\ (shKnown[p] = shBase[p] => Inside(p, -1))

(* A plan that falls short of the request by more than the rounding leaves no usable battery with
   room: what a full phase gives up goes to the others, also to batteries not chosen *)
ShortOnlyWhenFull ==
    shLast = "plan" =>
      LET got == [u \in Packs |-> Max({0, shDir * shOut[u]})] IN
      shAsk - Plus(got, Packs) > Len(ShPhase) \div 2 => \A u \in Packs \ shAway : Room(got, u, shDir = 1) <= 0

(* A request that stays the same keeps the batteries it chose, from the first plan on: the choice does
   not flap *)
ChoiceSettles ==
    shActive # <<>> \/ shLast # "other" =>
      \A power \in ShAsks \ {0} :
        LET avail == Packs \ shAway
            none == [u \in Packs |-> 0]
            once == Select(power, Order(shActive, avail), shActive, none)
        IN ToSet(Select(power, Order(once, avail), once, none)) = ToSet(once)

(* The shares stay inside the fuses, seen or blind, waste no battery that has room, and do not flap
   (control/phase_power_limit.py, control/power_distribution.py) *)
SharesSound ==
    /\ ShTypeOK
    /\ PhaseEnvelope
    /\ BlindStaysInside
    /\ ShortOnlyWhenFull
    /\ ChoiceSettles
=============================================================================
