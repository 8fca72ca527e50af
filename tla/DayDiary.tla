------------------------------ MODULE DayDiary ------------------------------
(* The day's diary: tracking/daily_timeline.py, and the controller's       *)
(* refresh of it.  Cells are quarter-hours of the wall clock; a cell is closed *)
(* when its last occurrence is over, and then it is history.                   *)
(* A refresh comes from the control cycle or from the options listener; each   *)
(* reads the clock, waits, and refreshes for the time it read.                 *)
(*                                                                             *)
(* Time is a position in the physical order of the quarter-hours: when summer  *)
(* time ends some cells come twice in their day, when it begins some not at    *)
(* all.  What a cell holds is a count of energy, the actions seen in it (log)  *)
(* and the actions planned for it.                                             *)
EXTENDS Integers, Sequences, FiniteSetsExt

CONSTANTS
    DdOrder,     \* the cells in their physical order
    DdDayAt,     \* the day each of them belongs to
    DdActs,      \* actions a cell may show
    DdPlans,     \* projections of a cell, sets of actions
    DdMaxUse,    \* bound on the energy of a cell
    DdMaxUpsets  \* bound on kills, unloads, failed writes and options saved

ddTimes == DOMAIN DdOrder
ddCells == {DdOrder[t] : t \in ddTimes}
ddDays == {DdDayAt[t] : t \in ddTimes}
(* When each cell of each day occurs *)
ddOccurs == [d \in ddDays |->
                [c \in ddCells |-> {t \in ddTimes : DdDayAt[t] = d /\ DdOrder[t] = c}]]

(* Days follow each other; within one the wall clock goes up, and what it falls *)
(* behind comes again.                                                          *)
ASSUME DdAssumption ==
    /\ DdOrder \in Seq(Nat \ {0}) /\ DdOrder # <<>>
    /\ DdDayAt \in [DOMAIN DdOrder -> Nat]
    /\ \A s, t \in DOMAIN DdOrder : s < t =>
          /\ DdDayAt[s] <= DdDayAt[t]
          /\ DdDayAt[s] = DdDayAt[t] /\ DdOrder[t] < DdOrder[s]
               => \E u \in DOMAIN DdOrder : u > t /\ DdDayAt[u] = DdDayAt[t] /\ DdOrder[u] = DdOrder[s]
    /\ DdPlans \subseteq (SUBSET DdActs) \ {{}}
    /\ DdMaxUse \in Nat /\ DdMaxUpsets \in Nat

VARIABLES
    ddNow,   \* the clock
    ddTrue,  \* what the profiles have captured in each cell of the present day
    ddBook,  \* the manager's arrays
    ddCall,  \* the time each refresh under way has read, 0 if none
    ddSave,  \* the manager's save state, and the payload of the write under way
    ddDisk,  \* the Store
    ddPhase, \* "down", "starting", "up" or "flushing"
    ddConf,  \* the mode the entry has now: real-time (TRUE) or planned
    ddLost,  \* history: cells whose last samples went with the process
    ddUpsets

ddVars == <<ddNow, ddTrue, ddBook, ddCall, ddSave, ddDisk, ddPhase, ddConf, ddLost, ddUpsets>>

-----------------------------------------------------------------------------
(* The arrays.                                                               *)

Blank == [c \in ddCells |-> {}]
Unused == [c \in ddCells |-> 0]
NewDay(d) == [day |-> d, closed |-> {}, use |-> Unused, log |-> Blank, plan |-> Blank, last |-> 0]

(* The present cell *)
Cur(b) == IF b.last = 0 THEN Min(ddCells) ELSE DdOrder[b.last]

(* _ensure_current_day *)
OnDay(b, t) == IF b.day = DdDayAt[t] THEN b ELSE NewDay(DdDayAt[t])

Ended(d, c, t) == ddOccurs[d][c] # {} /\ \A s \in ddOccurs[d][c] : s < t

(* _advance_clock: a late reading does not move it *)
Advance(b, t) ==
    IF t < b.last THEN b
    ELSE [b EXCEPT !.last = t,
                   !.closed = @ \cup {c \in ddCells : Ended(b.day, c, t)}]

(* The profiles' capture of their own present day; nothing before a first sample *)
Captured(u) == \E c \in ddCells : u[c] > 0

(* _merge_actual_series, up to the cell of the reading *)
Merged(b, t, u) ==
    [b EXCEPT !.use = [c \in ddCells |->
        IF Captured(u) /\ c <= DdOrder[t] /\ c \notin b.closed THEN u[c] ELSE @[c]]]

\* Mutant of Measured: the clock closes what has ended before it is filled in.
MeasuredLate(b, t, u) == Merged(Advance(OnDay(b, t), t), t, u)
(* refresh_actual_partial *)
Measured(b, t, u) == Advance(Merged(OnDay(b, t), t, u), t)

(* In real-time mode the present cell's plan is what was seen in it *)
Mirrored(b, c) == [b EXCEPT !.plan[c] = b.log[c]]

(* record_runtime_decision: one decision, into the open cell of its time *)
TakesNote(f, t) == DdOrder[t] = Cur(f) /\ DdOrder[t] \notin f.closed
Noticed(b, t, a, realtime) ==
    LET f == Advance(b, t)
        c == DdOrder[t]
        g == [f EXCEPT !.log[c] = @ \cup {a}]
    IN  IF ~TakesNote(f, t) THEN f ELSE IF realtime THEN Mirrored(g, c) ELSE g

\* Mutant of Replanned: the projection is written over the whole day.
ReplannedWhole(b, t, p, realtime) ==
    LET f == Advance(b, t) IN
    IF realtime THEN Mirrored([f EXCEPT !.plan = Blank], Cur(f))
    ELSE [f EXCEPT !.plan = [c \in ddCells |-> p]]
(* rebuild_future_projection: the open cells from the present one on *)
Replanned(b, t, p, realtime) ==
    LET f == Advance(b, t)
        cleared == [f EXCEPT !.plan = [c \in ddCells |->
                       IF c < Cur(f) \/ c \in f.closed THEN @[c] ELSE IF realtime THEN {} ELSE p]]
    IN  IF realtime THEN Mirrored(cleared, Cur(f)) ELSE cleared

-----------------------------------------------------------------------------
(* Saving: one write at a time, debounced or at once, with one follow-up.    *)

Quiet == [dirty |-> FALSE, moved |-> FALSE, handle |-> FALSE, task |-> "none", payload |-> <<>>,
          again |-> FALSE, hooked |-> FALSE, due |-> FALSE, failed |-> FALSE]

(* request_save *)
RequestSave(v, immediate) ==
    LET r == [v EXCEPT !.dirty = TRUE, !.moved = TRUE, !.failed = FALSE,
                       !.handle = IF immediate THEN FALSE ELSE @]
    IN  IF r.task # "none" THEN [r EXCEPT !.again = TRUE, !.hooked = TRUE]
        ELSE IF immediate THEN [r EXCEPT !.task = "queued"]
        ELSE [r EXCEPT !.handle = TRUE]

(* _store_payload *)
Stored == <<[ddBook EXCEPT !.last = 0], ddConf>>

(* async_save starts: it takes the payload and the revision it stands for *)
SaveStarts ==
    /\ ddSave.task = "queued"
    /\ ddSave' = [ddSave EXCEPT !.task = "writing", !.payload = Stored, !.moved = FALSE]
    /\ UNCHANGED <<ddNow, ddTrue, ddBook, ddCall, ddDisk, ddPhase, ddConf, ddLost, ddUpsets>>

Finished(v) == [v EXCEPT !.task = "none", !.payload = <<>>, !.due = v.hooked,
                         !.hooked = FALSE, !.moved = FALSE]

Written(v) == [Finished(v) EXCEPT !.dirty = v.moved, !.again = @ \/ v.moved]

SaveEnds ==
    /\ ddSave.task = "writing"
    /\ ddDisk' = ddSave.payload
    /\ ddSave' = Written(ddSave)
    /\ UNCHANGED <<ddNow, ddTrue, ddBook, ddCall, ddPhase, ddConf, ddLost, ddUpsets>>

Upset == ddUpsets < DdMaxUpsets /\ ddUpsets' = ddUpsets + 1

SaveFails ==
    /\ ddSave.task = "writing" /\ Upset
    /\ ddSave' = [Finished(ddSave) EXCEPT !.failed = ~ddSave.moved]
    /\ UNCHANGED <<ddNow, ddTrue, ddBook, ddCall, ddDisk, ddPhase, ddConf, ddLost>>

(* _reschedule_after_save, the finished task's callback *)
FollowUp ==
    /\ ddSave.due
    /\ ddSave' = LET v == [ddSave EXCEPT !.due = FALSE] IN
                 IF v.again /\ v.dirty /\ v.task = "none"
                 THEN [v EXCEPT !.again = FALSE, !.task = "queued"] ELSE v
    /\ UNCHANGED <<ddNow, ddTrue, ddBook, ddCall, ddDisk, ddPhase, ddConf, ddLost, ddUpsets>>

DebounceEnds ==
    /\ ddSave.handle
    /\ ddSave' = [ddSave EXCEPT !.handle = FALSE, !.task = IF @ = "none" THEN "queued" ELSE @]
    /\ UNCHANGED <<ddNow, ddTrue, ddBook, ddCall, ddDisk, ddPhase, ddConf, ddLost, ddUpsets>>


-----------------------------------------------------------------------------
(* A refresh reads the clock ... *)
Reads(who) ==
    /\ ddPhase = "up" /\ ddCall[who] = 0
    /\ ddCall' = [ddCall EXCEPT ![who] = ddNow]
(* The cycle samples the house between its awaits *)
Sampled == [ddTrue EXCEPT ![DdOrder[ddNow]] = IF @ < DdMaxUse THEN @ + 1 ELSE @]
CycleReads ==
    /\ Reads("cycle")
    /\ ddTrue' \in {ddTrue, Sampled}
    /\ UNCHANGED <<ddNow, ddBook, ddSave, ddDisk, ddPhase, ddConf, ddLost, ddUpsets>>
OptionsSaved ==
    /\ Reads("forced") /\ Upset
    /\ ddConf' \in BOOLEAN
    /\ UNCHANGED <<ddNow, ddTrue, ddBook, ddSave, ddDisk, ddPhase, ddLost>>

(* ... and _refresh_daily_operation_timeline runs: measure, record, and a       *)
(* projection p when it is due.  A change asks for a save; a recorded decision   *)
(* is always one, it counts the time it was seen.                                *)
Refresh(b, v, t, u, p, due) ==
    \E a \in DdActs, m \in {Measured(b, t, u)} :
    \E n \in {Noticed(m, t, a, ddConf)} : \E r \in {IF due THEN Replanned(n, t, p, ddConf) ELSE n} :
         LET v1 == IF m = b THEN v ELSE RequestSave(v, m.day # b.day \/ m.closed # b.closed)
             v2 == IF TakesNote(m, t) THEN RequestSave(v1, FALSE) ELSE v1
         IN  /\ ddBook' = r
             /\ ddSave' = IF r = n THEN v2 ELSE RequestSave(v2, TRUE)

(* The cycle's projection is due now and then.                                    *)
CycleRefreshes ==
    /\ ddCall["cycle"] # 0
    /\ ddTrue' = Sampled
    /\ \/ Refresh(ddBook, ddSave, ddCall["cycle"], ddTrue', {}, FALSE)
       \/ \E p \in DdPlans : Refresh(ddBook, ddSave, ddCall["cycle"], ddTrue', p, TRUE)
    /\ ddCall' = [ddCall EXCEPT !["cycle"] = 0]
    /\ UNCHANGED <<ddNow, ddDisk, ddPhase, ddConf, ddLost, ddUpsets>>

ListenerRefreshes ==
    /\ ddCall["forced"] # 0 /\ ddPhase # "starting"
    /\ \E p \in DdPlans : Refresh(ddBook, ddSave, ddCall["forced"], ddTrue, p, TRUE)
    /\ ddCall' = [ddCall EXCEPT !["forced"] = 0]
    /\ UNCHANGED <<ddNow, ddTrue, ddDisk, ddPhase, ddConf, ddLost, ddUpsets>>

TimePasses ==
    /\ ddNow + 1 \in ddTimes
    /\ \A w \in DOMAIN ddCall : ddCall[w] \in {0, ddNow}   \* a refresh is late by one cell at most
    /\ ddNow' = ddNow + 1
    /\ IF DdDayAt[ddNow'] = DdDayAt[ddNow] THEN UNCHANGED <<ddTrue, ddLost>>
       ELSE ddTrue' = Unused /\ ddLost' = {}
    /\ UNCHANGED <<ddBook, ddCall, ddSave, ddDisk, ddPhase, ddConf, ddUpsets>>

-----------------------------------------------------------------------------
(* async_unload_entry has waited for the cycle; async_save_all then flushes. *)
FlushBegins ==
    /\ ddPhase = "up" /\ ddCall["cycle"] = 0 /\ Upset
    /\ ddPhase' = "flushing"
    /\ ddSave' = [ddSave EXCEPT !.handle = FALSE]
    /\ UNCHANGED <<ddNow, ddTrue, ddBook, ddCall, ddDisk, ddConf, ddLost>>
FlushSteps ==
    /\ ddPhase = "flushing" /\ ddSave.task = "none" /\ ~ddSave.due /\ ddSave.dirty
    /\ ddSave' = [ddSave EXCEPT !.task = "queued"]
    /\ UNCHANGED <<ddNow, ddTrue, ddBook, ddCall, ddDisk, ddPhase, ddConf, ddLost, ddUpsets>>

(* The process, or the entry, is gone; what the next one can restore is on disk *)
Gone ==
    /\ ddPhase' = "down" /\ ddBook' = NewDay(DdDayAt[ddNow]) /\ ddSave' = Quiet
    /\ ddCall' = [w \in DOMAIN ddCall |-> 0]
    /\ ddLost' = {c \in ddCells : \/ ddDisk = <<>> \/ ddDisk[1].day # DdDayAt[ddNow]
                                  \/ ddDisk[1].use[c] # ddTrue[c]}
    /\ UNCHANGED <<ddNow, ddTrue, ddDisk, ddConf>>
FlushEnds ==
    /\ ddPhase = "flushing" /\ ddSave.task = "none" /\ ~ddSave.due /\ ~ddSave.dirty
    /\ Gone /\ UNCHANGED ddUpsets
Killed == ddPhase \in {"up", "flushing"} /\ Upset /\ Gone

(* async_load: another day's book is discarded, another configuration's plan too; *)
(* the set-up's own refresh follows, for the time read before                     *)
Restored ==
    IF ddDisk = <<>> THEN NewDay(DdDayAt[ddNow])
    ELSE LET b == ddDisk[1] IN
         IF b.day # DdDayAt[ddNow] THEN NewDay(DdDayAt[ddNow])
         ELSE Advance([b EXCEPT !.last = 0, !.plan = IF ddDisk[2] = ddConf THEN @ ELSE Blank], ddNow)
Starts ==
    /\ ddPhase = "down"
    /\ ddPhase' = "starting" /\ ddCall' = [ddCall EXCEPT !["forced"] = ddNow]
    /\ UNCHANGED <<ddNow, ddTrue, ddBook, ddSave, ddDisk, ddConf, ddLost, ddUpsets>>
Loads ==
    /\ ddPhase = "starting"
    /\ ddPhase' = "up"
    /\ LET cleared == ddDisk # <<>> /\ ddDisk[1].day = DdDayAt[ddNow] /\ ddDisk[2] # ddConf
           v == IF cleared THEN RequestSave(Quiet, FALSE) ELSE Quiet
       IN  \E p \in DdPlans : Refresh(Restored, v, ddCall["forced"], ddTrue, p, TRUE)
    /\ ddCall' = [ddCall EXCEPT !["forced"] = 0]
    /\ UNCHANGED <<ddNow, ddTrue, ddDisk, ddConf, ddLost, ddUpsets>>

DdInit ==
    /\ ddNow = 1
    /\ ddTrue = Unused
    /\ ddBook = NewDay(DdDayAt[1]) /\ ddSave = Quiet /\ ddDisk = <<>>
    /\ ddCall = [w \in {"cycle", "forced"} |-> 0]
    /\ ddPhase = "down"
    /\ ddConf = FALSE
    /\ ddLost = {} /\ ddUpsets = 0

DdNext ==
    \/ TimePasses \/ CycleReads \/ OptionsSaved
    \/ CycleRefreshes \/ ListenerRefreshes
    \/ SaveStarts \/ SaveEnds \/ SaveFails \/ FollowUp \/ DebounceEnds
    \/ FlushBegins \/ FlushSteps \/ FlushEnds \/ Killed \/ Starts \/ Loads

DdSpec == DdInit /\ [][DdNext]_ddVars

-----------------------------------------------------------------------------
DdTypeOK ==
    /\ ddNow \in ddTimes /\ ddPhase \in {"up", "flushing", "down", "starting"}
    /\ ddBook.closed \subseteq ddCells
    /\ ddSave.task \in {"none", "queued", "writing"}
    /\ ddCall \in [{"cycle", "forced"} -> {0} \cup ddTimes]

(* History holds what was measured: a cell of the present day that is closed  *)
(* has every sample the profiles took in it, however late the refreshes were  *)
(* and in whatever order the two of them ran (refresh_actual_partial), except *)
(* for what went with a process.                                              *)
ClosedIsWhole ==
    ddPhase = "up" /\ ddBook.day = DdDayAt[ddNow] =>
        \A c \in ddBook.closed \ ddLost : ddBook.use[c] = ddTrue[c]

(* A cell is not history while an occurrence of it is still to come: the      *)
(* repeated hour stays open in its first pass (_interval_end_timestamps).     *)
ClosedIsOver == \A c \in ddBook.closed : \A t \in ddOccurs[ddBook.day][c] : t < ddNow

(* "Once a quarter-hour has elapsed its cell is closed and later refreshes    *)
(* may not rewrite it": neither its energy, nor what was seen, nor what was   *)
(* planned, as long as the day and the process last.                          *)
HistoryStays ==
    [][(/\ ddPhase \in {"up", "flushing"}
        /\ ddPhase' # "down"
        /\ ddBook'.day = ddBook.day)
       => (/\ ddBook.closed \subseteq ddBook'.closed
           /\ \A c \in ddBook.closed, f \in {"use", "log", "plan"} :
                  ddBook'[f][c] = ddBook[f][c])]_ddVars

(* An unload leaves nothing behind: when async_save_all() returns, the Store  *)
(* holds the day, the energy, the actions and the plan of the book as it is,  *)
(* although the listener may have refreshed it during the writes.  (What is    *)
(* closed the next load works out again.)                                      *)
FlushIsWhole ==
    [][ddPhase = "flushing" /\ ddPhase' = "down" /\ ddUpsets' = ddUpsets
       => \A f \in {"day", "use", "log", "plan"} : ddDisk[1][f] = ddBook[f]]_ddVars

(* A change is not left unwritten: a book ahead of the Store has a write that  *)
(* runs, waits for its debounce or follows the one under way, unless the write *)
(* of it failed (request_save, _reschedule_after_save).                        *)
WriteFollows ==
    ddSave.dirty /\ ~ddSave.failed /\ ddPhase = "up"
    => ddSave.handle \/ ddSave.task # "none" \/ (ddSave.due /\ ddSave.again)

(* What the diary calls history is over and is what was measured, and on its   *)
(* way to the Store.                                                          *)
HistoryIsTrue ==
    /\ DdTypeOK
    /\ ClosedIsWhole
    /\ ClosedIsOver
    /\ WriteFollows

(* History is kept: not rewritten while the process lives, and whole in the   *)
(* Store after an unload.                                                     *)
HistoryIsKept ==
    /\ HistoryStays
    /\ FlushIsWhole
=============================================================================
