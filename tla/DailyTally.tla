----------------------------- MODULE DailyTally -----------------------------
(***************************************************************************)
(* The household's daily energy and its history (tracking/consumption_tracker.py) *)
(* and the recorder backfill that fills the days that were missed                  *)
(* (tracking/backfill.py): samples add to today's sum, the first cycle of a day      *)
(* resets it, five minutes before midnight it becomes the day's record, a start      *)
(* fills the gaps by a background job that awaits the recorder day by day.  Entry     *)
(* reloads, crashes, days excluded by the user and midnight fall between any two.      *)
(* Energy is abstracted to the days it was used on.                                     *)
(***************************************************************************)
EXTENDS Integers, Sequences, FiniteSets, SequencesExt

CONSTANTS
    DtDays,     \* bound: the days of the model
    DtWindow,   \* days of history kept (7 in the code)
    DtMaxUpsets \* bound: reloads, crashes and exclusions

ASSUME DtAssumption == {DtDays, DtWindow} \subseteq Nat \ {0} /\ DtMaxUpsets \in Nat

VARIABLES
    dtToday,  \* the calendar
    dtUp,     \* the entry runs
    dtAcc,    \* the household accumulator: its date, the days its energy is from
    dtHist,   \* the history of daily records, in the code's list order
    dtVac,    \* days excluded: vacation or by the service
    dtDisk,   \* the stores: accumulator, history, excluded days
    dtJob,    \* the backfill job: where it is, its token, the day it asks for, what it read at its start
    dtGen,    \* the generation of backfill tokens
    dtLeft    \* the bound's budget

dtVars == <<dtToday, dtUp, dtAcc, dtHist, dtVac, dtDisk, dtJob, dtGen, dtLeft>>

DaySet == 1..DtDays
Kinds == {"measured", "derived", "default"}
NoAcc == [date |-> 0, from |-> {}]
NoJob == [at |-> "none", token |-> 0, days |-> {}, todo |-> {}, real |-> {}, day |-> 0]

DtTypeOK ==
    /\ dtToday \in DaySet /\ dtUp \in BOOLEAN /\ dtVac \subseteq DaySet /\ dtGen \in Nat
    /\ dtAcc \in [date: DaySet \cup {0}, from: SUBSET DaySet]
    /\ \A i \in 1..Len(dtHist) : dtHist[i] \in [day: (1 - DtWindow)..DtDays, kind: Kinds]
    /\ dtDisk.acc \in [date: DaySet \cup {0}, from: SUBSET DaySet] /\ dtDisk.vac \subseteq DaySet
    /\ dtJob.at \in {"none", "queued", "day", "query"} /\ dtLeft \in 0..DtMaxUpsets

---------------------------------------------------------------------------
DaysIn(hist) == {hist[i].day : i \in 1..Len(hist)}
(* How many records a stable sort by day puts before the one at i *)
Earlier(hist, i) ==
    Cardinality({j \in DOMAIN hist : hist[j].day < hist[i].day \/ (hist[j].day = hist[i].day /\ j < i)})
Sorted(hist) == [p \in DOMAIN hist |-> hist[CHOOSE i \in DOMAIN hist : Earlier(hist, i) = p - 1]]
Latest(hist) == LET s == Sorted(hist) IN SubSeq(s, IF Len(s) > DtWindow THEN Len(s) - DtWindow + 1 ELSE 1, Len(s))
(* _recent_history_days() *)
Recent(today) == (today - DtWindow)..(today - 1)

(* handle_accumulator_daily_reset(): the first cycle of a day *)
Reset(acc, today) == IF acc.date # today THEN [date |-> today, from |-> {}] ELSE acc
(* accumulate_household_consumption(): one control cycle adds a sample; on an excluded day not while
   the vacation switch is on *)
DtCycle ==
    /\ dtUp
    /\ \E sample \in IF dtToday \in dtVac THEN {{}, {dtToday}} ELSE {{dtToday}} :
        LET acc == Reset(dtAcc, dtToday) IN dtAcc' = [acc EXCEPT !.from = @ \cup sample]
    /\ UNCHANGED <<dtToday, dtUp, dtHist, dtVac, dtDisk, dtJob, dtGen, dtLeft>>
(* maybe_save_accumulators(): the background save *)
DtSave ==
    /\ dtUp
    /\ dtDisk' = [dtDisk EXCEPT !.acc = dtAcc]
    /\ UNCHANGED <<dtToday, dtUp, dtAcc, dtHist, dtVac, dtJob, dtGen, dtLeft>>
DtMidnight ==
    /\ dtToday < DtDays
    /\ dtToday' = dtToday + 1
    /\ UNCHANGED <<dtUp, dtAcc, dtHist, dtVac, dtDisk, dtJob, dtGen, dtLeft>>

\* Mutant of Put: today's record is appended though there is one.
PutTwice(hist, day, kind) == Latest(Append(hist, [day |-> day, kind |-> kind]))
(* capture_daily_consumption(), at 23:55: an excluded day is taken out, a tiny sum is not a record,
   today's record is set or appended; saved at once *)
Put(hist, day, kind) ==
    IF day \in DaysIn(hist)
    THEN [i \in 1..Len(hist) |-> IF hist[i].day = day THEN [hist[i] EXCEPT !.kind = kind] ELSE hist[i]]
    ELSE Latest(Append(hist, [day |-> day, kind |-> kind]))
Without(hist, days) ==
    LET left == {i \in DOMAIN hist : hist[i].day \notin days}
    IN [p \in 1..Cardinality(left) |-> hist[CHOOSE i \in left : Cardinality({j \in left : j < i}) = p - 1]]
Kept(hist) == dtHist' = hist /\ dtDisk' = [dtDisk EXCEPT !.hist = hist]
DtCapture ==
    /\ dtUp
    /\ \/ dtToday \in dtVac /\ Kept(Without(dtHist, {dtToday}))
       \/ dtToday \notin dtVac /\ dtAcc.from # {} /\ Kept(Put(dtHist, dtToday, "measured"))
    /\ UNCHANGED <<dtToday, dtUp, dtAcc, dtVac, dtJob, dtGen, dtLeft>>

(* async_exclude_dates() and async_set_vacation_mode(): the days leave the history, both are saved *)
DtExclude ==
    /\ dtUp /\ dtLeft > 0
    /\ \E d \in DaySet \ dtVac :
        /\ d <= dtToday
        /\ dtVac' = dtVac \cup {d}
        /\ dtHist' = Without(dtHist, {d})
        /\ dtDisk' = [dtDisk EXCEPT !.hist = Without(dtHist, {d}), !.vac = dtVac \cup {d}]
    /\ dtLeft' = dtLeft - 1
    /\ UNCHANGED <<dtToday, dtUp, dtAcc, dtJob, dtGen>>

---------------------------------------------------------------------------
(* load_accumulators() takes today's sum only; load_consumption_history() drops excluded days;
   initialize_history_with_defaults() fills an empty history *)
LoadedAcc(acc, today) == IF acc.date = today THEN acc ELSE NoAcc
Defaults(today) == [i \in 1..DtWindow |-> [day |-> today - i, kind |-> "default"]]
(* async_setup_entry(): the stores are read, a history without records gets the defaults and is
   saved, then startup_backfill_consumption() submits the job *)
DtStart ==
    /\ ~dtUp
    /\ dtUp' = TRUE
    /\ dtAcc' = LoadedAcc(dtDisk.acc, dtToday)
    /\ dtVac' = dtDisk.vac
    /\ LET loaded == Without(dtDisk.hist, dtDisk.vac)
           hist == IF loaded = <<>> THEN Defaults(dtToday) ELSE loaded
       IN /\ dtHist' = hist
          /\ dtDisk' = IF loaded = <<>> THEN [dtDisk EXCEPT !.hist = hist] ELSE dtDisk
    /\ dtJob' = [NoJob EXCEPT !.at = "queued", !.token = dtGen]
    /\ UNCHANGED <<dtToday, dtGen, dtLeft>>

(* _async_backfill_legacy_history(): the days to fill and the days already measured are read once *)
JobValid == dtUp /\ dtJob.token = dtGen
JobStarts ==
    /\ dtJob.at = "queued" /\ JobValid
    /\ dtJob' = [dtJob EXCEPT !.at = "day", !.days = Recent(dtToday) \ dtVac, !.todo = Recent(dtToday) \ dtVac,
                              !.real = {r.day : r \in {s \in ToSet(dtHist) : s.kind # "default"}}]
    /\ UNCHANGED <<dtToday, dtUp, dtAcc, dtHist, dtVac, dtDisk, dtGen, dtLeft>>
(* The next day, newest first; one that has a record, or is excluded by now, is skipped, else the
   recorder is asked *)
NextDay == CHOOSE d \in dtJob.todo : \A e \in dtJob.todo : e <= d
NeedsDay(d) == d \notin dtJob.real /\ d \notin dtVac
JobAsks ==
    /\ dtJob.at = "day" /\ JobValid /\ dtJob.todo # {}
    /\ dtJob' = IF NeedsDay(NextDay)
                THEN [dtJob EXCEPT !.at = "query", !.day = NextDay, !.todo = @ \ {NextDay}]
                ELSE [dtJob EXCEPT !.todo = @ \ {NextDay}]
    /\ UNCHANGED <<dtToday, dtUp, dtAcc, dtHist, dtVac, dtDisk, dtGen, dtLeft>>
(* The answer: nothing usable, or the day's energy, which replaces or adds the day's record; sorted *)
JobAnswered ==
    /\ dtJob.at = "query" /\ JobValid
    /\ \/ \E hist \in {Put(dtHist, dtJob.day, "derived")} : Kept(Latest(hist))
       \/ UNCHANGED <<dtHist, dtDisk>>
    /\ dtJob' = [dtJob EXCEPT !.at = "day", !.day = 0]
    /\ UNCHANGED <<dtToday, dtUp, dtAcc, dtVac, dtGen, dtLeft>>
(* After the last day the gaps that are left get an average *)
JobEnds ==
    /\ dtJob.at = "day" /\ JobValid /\ dtJob.todo = {}
    /\ \E hist \in {dtHist \o SetToSeq([day: dtJob.days \ DaysIn(dtHist), kind: {"default"}])} : Kept(Latest(hist))
    /\ dtJob' = NoJob
    /\ UNCHANGED <<dtToday, dtUp, dtAcc, dtVac, dtGen, dtLeft>>

(* async_cancel() and async_save_all(): the generation moves on, the job ends before the entry is
   down, what is in memory is saved *)
DtStop ==
    /\ dtUp /\ dtLeft > 0
    /\ dtUp' = FALSE /\ dtGen' = dtGen + 1 /\ dtJob' = NoJob
    /\ dtDisk' = [acc |-> dtAcc, hist |-> dtHist, vac |-> dtVac]
    /\ dtAcc' = NoAcc /\ dtHist' = <<>> /\ dtVac' = {}
    /\ dtLeft' = dtLeft - 1
    /\ UNCHANGED dtToday
DtCrash ==
    /\ dtUp /\ dtLeft > 0
    /\ dtUp' = FALSE /\ dtGen' = dtGen + 1 /\ dtJob' = NoJob
    /\ dtAcc' = NoAcc /\ dtHist' = <<>> /\ dtVac' = {}
    /\ dtLeft' = dtLeft - 1
    /\ UNCHANGED <<dtToday, dtDisk>>

DtInit ==
    /\ dtToday = 1 /\ dtUp = FALSE /\ dtAcc = NoAcc /\ dtHist = <<>> /\ dtVac = {}
    /\ dtDisk = [acc |-> NoAcc, hist |-> <<>>, vac |-> {}] /\ dtJob = NoJob /\ dtGen = 1 /\ dtLeft = DtMaxUpsets
DtNext ==
    \/ DtCycle \/ DtSave \/ DtMidnight \/ DtCapture \/ DtExclude \/ DtStart
    \/ JobStarts \/ JobAsks \/ JobAnswered \/ JobEnds \/ DtStop \/ DtCrash

(* The control cycle keeps running its background work once the entry is up; a recorder query ends *)
DtFairness ==
    /\ WF_dtVars(JobStarts) /\ WF_dtVars(JobAsks)
    /\ WF_dtVars(JobAnswered) /\ WF_dtVars(JobEnds)
DtSpec == DtInit /\ [][DtNext]_dtVars /\ DtFairness

---------------------------------------------------------------------------
(* A day has one record: the capture at 23:55, the backfill and the gap filler may all write it, in
   any order and around midnight and restarts *)
OneRecordADay == \A i, j \in 1..Len(dtHist) : dtHist[i].day = dtHist[j].day => i = j

(* The sum that will become a day's record holds only that day's energy, whatever was saved or
   loaded around midnight *)
OnlyItsDay == dtAcc.from \subseteq {dtAcc.date}

(* A measured day is not replaced by a derived or default value while it is in the history *)
MeasuredKept ==
    [][\A d \in DaySet :
        (\E i \in 1..Len(dtHist) : dtHist[i] = [day |-> d, kind |-> "measured"]) /\ d \in DaysIn(dtHist')
        => \E i \in 1..Len(dtHist') : dtHist'[i] = [day |-> d, kind |-> "measured"]]_dtVars

(* A job that began before an entry was stopped ends: either it completes or its entry is gone *)
JobFinishes == (dtJob.at # "none") ~> (dtJob.at = "none")

(* A day's record is its own: one for each day, of that day's energy only *)
TallySound ==
    /\ DtTypeOK
    /\ OneRecordADay
    /\ OnlyItsDay
=============================================================================
