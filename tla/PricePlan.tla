----------------------------- MODULE PricePlan -----------------------------
(***************************************************************************)
(* The two planners of the pricing engine, one step per iteration of their   *)
(* loops.  The chronological one (pricing/chronological.py) finds by when the  *)
(* batteries run empty and assigns the missing energy to the cheapest slots     *)
(* before that; the block one (pricing/calculations.py) takes whole contiguous   *)
(* hours out of quarter-hour prices.  Intervals and slots are units of the same   *)
(* grid; energy is in whole units, tolerances are zero, charging is lossless.     *)
(***************************************************************************)
EXTENDS Integers, Sequences, FiniteSets, FiniteSetsExt

CONSTANTS
    PpN,         \* intervals of the horizon, one price slot each
    PpNets,      \* what an interval may need (consumption less sun)
    PpPrices,    \* the prices
    PpCapacity,  \* the usable capacity above the floor
    PpInitial,   \* the usable energy at the start
    PpRequired,  \* the energy asked for in total
    PpPower,     \* what a slot can charge
    PpBlock,     \* quarter-hour slots of an hour
    PpHours      \* the hours asked of the block planner, in slots

ASSUME PpAssumption ==
    /\ PpN \in Nat \ {0} /\ PpNets \subseteq Int /\ PpPrices \subseteq Nat
    /\ {PpCapacity, PpPower, PpBlock} \subseteq Nat \ {0}
    /\ PpInitial \subseteq 0..PpCapacity /\ PpRequired \subseteq Nat /\ PpHours \subseteq Nat

Grid == 1..PpN

VARIABLES
    ppIn,    \* the request
    ppAt,    \* the stage and the next interval or deadline
    ppScan,  \* the scan for deadlines: sums of the segment, what was emitted, its last deadline
    ppDue,   \* the deadlines: by which interval, how much in its segment
    ppAlloc, \* energy assigned to each slot
    ppShort, \* what a deadline could not be given
    ppTaken  \* the slots of the block planner, in order of choice

ppVars == <<ppIn, ppAt, ppScan, ppDue, ppAlloc, ppShort, ppTaken>>

PpTypeOK ==
    /\ ppIn \in [net: [Grid -> PpNets], price: [Grid -> PpPrices], initial: PpInitial,
                 required: PpRequired, hours: PpHours, gap: Grid \cup {0}]
    /\ ppAt \in [stage: {"scan", "meet", "spread", "planned", "blocks", "picked"}, next: 1..(PpN + 1)]
    /\ ppAlloc \in [Grid -> 0..PpPower] /\ ppShort \in Nat
    /\ \A i \in 1..Len(ppDue) : ppDue[i].by \in Grid /\ ppDue[i].need \in Nat
    /\ \A i \in 1..Len(ppTaken) : ppTaken[i] \in Grid

---------------------------------------------------------------------------
Least(a, b) == IF a < b THEN a ELSE b
Most(a, b) == IF a > b THEN a ELSE b
Total(f) == MapThenSumSet(LAMBDA i : f[i], DOMAIN f)

(* build_energy_deadlines(): one interval of the scan *)
NoScan == [sum |-> 0, most |-> 0, emitted |-> 0, initial |-> 0, last |-> 0]
Raised(due, k, need) == IF k > 0 /\ need > due[k].need THEN [due EXCEPT ![k].need = need] ELSE due
PpScan ==
    /\ ppAt.stage = "scan" /\ ppAt.next <= PpN
    /\ LET i == ppAt.next
           sum == ppScan.sum + ppIn.net[i]
           most == Most(ppScan.most, Most(0, sum - ppScan.initial))
       IN IF ppScan.initial - sum + most >= PpCapacity
          THEN /\ ppDue' = Raised(ppDue, ppScan.last, most)
               /\ ppScan' = [NoScan EXCEPT !.initial = PpCapacity]
          ELSE IF most <= ppScan.emitted
          THEN ppScan' = [ppScan EXCEPT !.sum = sum, !.most = most] /\ UNCHANGED ppDue
          ELSE /\ ppDue' = Append(ppDue, [by |-> i, need |-> most])
               /\ ppScan' = [ppScan EXCEPT !.sum = sum, !.most = most, !.emitted = most, !.last = Len(ppDue) + 1]
    /\ ppAt' = [ppAt EXCEPT !.next = @ + 1]
    /\ UNCHANGED <<ppIn, ppAlloc, ppShort, ppTaken>>
PpScanned ==
    /\ ppAt.stage = "scan" /\ ppAt.next > PpN
    /\ ppDue' = Raised(ppDue, ppScan.last, ppScan.most)
    /\ ppScan' = NoScan
    /\ ppAt' = [stage |-> "meet", next |-> 1]
    /\ UNCHANGED <<ppIn, ppAlloc, ppShort, ppTaken>>

(* simulate_allocations(): the energy after every interval, as a recursive function *)
Energy(alloc) ==
    LET after[i \in 0..PpN] ==
            IF i = 0 THEN ppIn.initial
            ELSE Least(PpCapacity, after[i - 1] + alloc[i] - ppIn.net[i])
    IN after

(* allocate_price_slots(): instants at which the sun alone fills the batteries *)
FullAt ==
    LET after[i \in 0..PpN] ==
            IF i = 0 THEN ppIn.initial ELSE Most(0, Least(PpCapacity, after[i - 1] - ppIn.net[i]))
    IN {i \in Grid : after[i] = PpCapacity}
SegmentStart(by) == LET full == {i \in FullAt : i < by} IN IF full = {} THEN 0 ELSE Max(full)
\* Mutant of Segment: energy from before the batteries were full counts.
SegmentWhole(by) == 1..by
Segment(by) == {i \in Grid : i > SegmentStart(by) /\ i <= by}

Required == Least(ppIn.required, PpCapacity - ppIn.initial)
Needed ==
    LET starts == {SegmentStart(ppDue[k].by) : k \in 1..Len(ppDue)}
        need(s) == Max({ppDue[k].need : k \in {k \in 1..Len(ppDue) : SegmentStart(ppDue[k].by) = s}})
    IN MapThenSumSet(need, starts)
DeadlineRequired == Least(Required, Needed)

(* The cheapest slots first; of equals the one already used, then the earlier. *)
Before(i, j) ==
    \/ ppIn.price[i] < ppIn.price[j]
    \/ ppIn.price[i] = ppIn.price[j] /\ ppAlloc[i] > 0 /\ ppAlloc[j] = 0
    \/ ppIn.price[i] = ppIn.price[j] /\ (ppAlloc[i] > 0) = (ppAlloc[j] > 0) /\ i < j
FreeSpace(i) == PpPower - ppAlloc[i]
Fill(S, amount) ==
    LET earlier(i) == MapThenSumSet(FreeSpace, {j \in S : Before(j, i)})
    IN [i \in Grid |-> IF i \in S THEN ppAlloc[i] + Most(0, Least(FreeSpace(i), amount - earlier(i))) ELSE ppAlloc[i]]
Unfilled(S, amount) == Most(0, amount - MapThenSumSet(FreeSpace, S))

(* What a deadline's segment still needs. *)
Wanted(d) ==
    LET earlier == MapThenSumSet(LAMBDA i : ppAlloc[i], 1..SegmentStart(d.by))
        already == MapThenSumSet(LAMBDA i : ppAlloc[i], Segment(d.by))
    IN Most(0, Least(d.need, Most(0, Required - earlier)) - already)
PpMeet ==
    /\ ppAt.stage = "meet" /\ ppAt.next <= Len(ppDue)
    /\ LET d == ppDue[ppAt.next]
       IN /\ ppAlloc' = Fill(Segment(d.by), Wanted(d))
          /\ ppShort' = Most(ppShort, Unfilled(Segment(d.by), Wanted(d)))
    /\ ppAt' = [ppAt EXCEPT !.next = @ + 1]
    /\ UNCHANGED <<ppIn, ppScan, ppDue, ppTaken>>
(* The rest of the energy may come from any slot. *)
PpSpread ==
    /\ ppAt.stage = "meet" /\ ppAt.next > Len(ppDue)
    /\ ppAlloc' = Fill(Grid, Required - DeadlineRequired)
    /\ ppAt' = [stage |-> "planned", next |-> 1]
    /\ UNCHANGED <<ppIn, ppScan, ppDue, ppShort, ppTaken>>

---------------------------------------------------------------------------
(* select_cheapest_blocks(): the cheapest window of consecutive slots among the free ones; the      *)
(* prices have a hole after the slot gap. *)
Available == Grid \ {ppTaken[k] : k \in 1..Len(ppTaken)}
Windows(size) ==
    {i \in Grid : i + size - 1 <= PpN /\ i..(i + size - 1) \subseteq Available
                  /\ ~(ppIn.gap \in i..(i + size - 2))}
Cost(i, size) == MapThenSumSet(LAMBDA k : ppIn.price[k], i..(i + size - 1))
CheapestWindow(size) ==
    Min({i \in Windows(size) : \A j \in Windows(size) : Cost(i, size) <= Cost(j, size)})
Consecutive(i, size) == [k \in 1..size |-> i + k - 1]
(* No window is free: the cheapest single slots *)
Singles(size) ==
    LET n == Least(size, Cardinality(Available))
        rank(i) == Cardinality({j \in Available : ppIn.price[j] < ppIn.price[i]
                                                  \/ (ppIn.price[j] = ppIn.price[i] /\ j < i)}) + 1
    IN [k \in 1..n |-> CHOOSE i \in Available : rank(i) = k]
Whole == ppIn.hours \div PpBlock
Rest == ppIn.hours % PpBlock
Size(k) == IF k <= Whole THEN PpBlock ELSE Rest
PpPick ==
    /\ ppAt.stage = "blocks" /\ ppAt.next <= Whole + 1
    /\ LET size == Size(ppAt.next)
           pick == IF size = 0 \/ Available = {} THEN <<>>
                   ELSE IF Windows(size) # {} THEN Consecutive(CheapestWindow(size), size)
                   ELSE Singles(size)
       IN ppTaken' = ppTaken \o pick
    /\ ppAt' = IF ppAt.next = Whole + 1 THEN [stage |-> "picked", next |-> 1] ELSE [ppAt EXCEPT !.next = @ + 1]
    /\ UNCHANGED <<ppIn, ppScan, ppDue, ppAlloc, ppShort>>

Request(net, price, e, r, h, g) ==
    [net |-> net, price |-> price, initial |-> e, required |-> r, hours |-> h, gap |-> g]
PpInit ==
    /\ \/ /\ \E net \in [Grid -> PpNets], price \in [Grid -> PpPrices], e \in PpInitial, r \in PpRequired :
                ppIn = Request(net, price, e, r, Min(PpHours), 0)
          /\ ppAt = [stage |-> "scan", next |-> 1]
       \/ /\ \E price \in [Grid -> PpPrices], h \in PpHours, g \in Grid \cup {0} :
                ppIn = Request([i \in Grid |-> Min(PpNets)], price, Min(PpInitial), Min(PpRequired), h, g)
          /\ ppAt = [stage |-> "blocks", next |-> 1]
    /\ ppScan = [NoScan EXCEPT !.initial = ppIn.initial]
    /\ ppDue = <<>> /\ ppAlloc = [i \in Grid |-> 0] /\ ppShort = 0 /\ ppTaken = <<>>

PpNext == PpScan \/ PpScanned \/ PpMeet \/ PpSpread \/ PpPick
PpSpec == PpInit /\ [][PpNext]_ppVars

---------------------------------------------------------------------------
(* A plan that reports no shortfall carries the house to the end of the horizon: with the energy    *)
(* it assigns the batteries never run empty, even where the sun fills them on the way                 *)
(* (pricing/chronological.py:282).  The request, within the headroom, covers what is missing, and      *)
(* no grid energy is lost by filling up where the sun alone would not have. *)
Spills(i) == Energy(ppAlloc)[i - 1] + ppAlloc[i] - ppIn.net[i] > PpCapacity
PlanHoldsOut ==
    (ppAt.stage = "planned" /\ ppShort = 0 /\ Required >= Needed /\ \A i \in Grid : Spills(i) => i \in FullAt)
        => \A i \in Grid : Energy(ppAlloc)[i] >= 0

(* The plan never assigns more than the headroom or more than was asked. *)
PlanFitsRequest == ppAt.stage = "planned" => Total(ppAlloc) <= Required

(* The blocks cover the hours asked for as far as the prices reach, no slot counted twice           *)
(* (pricing/calculations.py:495). *)
BlocksCover ==
    ppAt.stage = "picked" =>
        /\ Len(ppTaken) = Least(PpN, ppIn.hours)
        /\ \A j, k \in 1..Len(ppTaken) : ppTaken[j] = ppTaken[k] => j = k
=============================================================================
