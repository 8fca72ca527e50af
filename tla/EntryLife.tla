----------------------------- MODULE EntryLife ------------------------------
(***************************************************************************)
(* The life of a configuration entry (__init__.py): async_setup_entry() opens    *)
(* battery after battery, loads the stores, starts the timers; async_unload_entry() *)
(* stops them, stops each battery, closes the links and saves.  A step between two  *)
(* awaits is an action: batteries come and go, writes fail, Home Assistant may be     *)
(* killed anywhere.  The records of the trackers are a count.                          *)
(***************************************************************************)
EXTENDS Integers, FiniteSets

CONSTANTS
    ElUnits,    \* the number of batteries, set up in order
    ElSerial,   \* the ones with RS485 control
    ElBackup,   \* the ones whose backup output may feed a load
    ElMaxRecs,  \* bound: records made
    ElMaxUpsets \* bound: batteries lost, failures, kills

ASSUME ElAssumption ==
    /\ ElUnits \in Nat \ {0} /\ ElSerial \subseteq 1..ElUnits /\ ElBackup \subseteq 1..ElUnits
    /\ {ElMaxRecs, ElMaxUpsets} \subseteq Nat

VARIABLES
    elStage,  \* where the entry is
    elAt,     \* the next battery of the loop
    elUnit,   \* each battery: reachable, link open, under remote control, power, feeding its backup port
    elAbsent, \* batteries the set-up gave up on: reload_entry_when_reachable
    elReady,  \* batteries this set-up carried through
    elWanted, \* a reload is scheduled
    elTasks,  \* timers and background tasks run
    elMem,    \* records in memory
    elDisk,   \* records stored
    elMade,   \* records ever made (the bound)
    elSpared, \* batteries the last unload left alone: unreachable, feeding a load, or failing
    elLeaked, \* a set-up was given up after it had opened other batteries
    elLeft    \* the bound's budget

elVars == <<elStage, elAt, elUnit, elAbsent, elReady, elWanted, elTasks, elMem, elDisk, elMade, elSpared, elLeaked, elLeft>>

Batteries == 1..ElUnits
Stages == {"down", "opening", "loading", "starting", "forwarding", "running", "quiet", "releasing", "closing", "saving", "ending"}

ElTypeOK ==
    /\ elStage \in Stages /\ elAt \in 1..(ElUnits + 1) /\ elAbsent \subseteq Batteries
    /\ elUnit \in [Batteries -> [near: BOOLEAN, link: BOOLEAN, remote: BOOLEAN, power: BOOLEAN, feeds: BOOLEAN]]
    /\ elReady \subseteq Batteries /\ elWanted \in BOOLEAN /\ elTasks \in BOOLEAN /\ elLeaked \in BOOLEAN /\ elSpared \subseteq Batteries
    /\ {elMem, elDisk, elMade} \subseteq 0..ElMaxRecs /\ elLeft \in 0..ElMaxUpsets

---------------------------------------------------------------------------
Unit(i) == elUnit[i]
Failing(cost) == elLeft >= cost /\ elLeft' = elLeft - cost

(* async_setup_entry(): the loop over the batteries *)
SetupBegins ==
    /\ elStage = "down"
    /\ elStage' = "opening" /\ elAt' = 1 /\ elAbsent' = {} /\ elSpared' = {} /\ elReady' = {} /\ elWanted' = FALSE
    /\ UNCHANGED <<elUnit, elTasks, elMem, elDisk, elMade, elLeaked, elLeft>>
(* Connected: remote control is taken, the configuration written, the first poll made *)
Configured(i, u) == [u EXCEPT !.link = TRUE, !.remote = i \in ElSerial]
SetupConnects ==
    /\ elStage = "opening" /\ elAt <= ElUnits /\ Unit(elAt).near
    /\ elUnit' = [elUnit EXCEPT ![elAt] = Configured(elAt, @)]
    /\ elAt' = elAt + 1 /\ elReady' = elReady \cup {elAt}
    /\ UNCHANGED <<elStage, elAbsent, elWanted, elTasks, elMem, elDisk, elMade, elSpared, elLeaked, elLeft>>
\* Mutant of GivenUp: the battery that was given up is not remembered.
GivenUpUnmarked == UNCHANGED elAbsent
(* Four attempts failed: the battery is kept without data, a poll that succeeds reloads the entry *)
GivenUp == elAbsent' = elAbsent \cup {elAt}
SetupGivesUp ==
    /\ elStage = "opening" /\ elAt <= ElUnits /\ ~Unit(elAt).near
    /\ GivenUp /\ elAt' = elAt + 1
    /\ elUnit' = [elUnit EXCEPT ![elAt] = [@ EXCEPT !.link = FALSE]]
    /\ UNCHANGED <<elStage, elReady, elWanted, elTasks, elMem, elDisk, elMade, elSpared, elLeaked, elLeft>>
(* A write after the connect fails: this battery's link is closed, ConfigEntryNotReady; the links
   opened before stay open *)
SetupFails ==
    /\ elStage = "opening" /\ elAt <= ElUnits /\ Unit(elAt).near /\ Failing(1)
    /\ elUnit' = [elUnit EXCEPT ![elAt] = [@ EXCEPT !.link = FALSE]]
    /\ elStage' = "down" /\ elAt' = 1
    /\ elLeaked' = TRUE
    /\ UNCHANGED <<elAbsent, elReady, elWanted, elTasks, elMem, elDisk, elMade, elSpared>>
SetupOpened ==
    /\ elStage = "opening" /\ elAt > ElUnits
    /\ elStage' = "loading" /\ elAt' = 1
    /\ UNCHANGED <<elUnit, elAbsent, elReady, elWanted, elTasks, elMem, elDisk, elMade, elSpared, elLeaked, elLeft>>
(* The stores are loaded; then the control timer and the listeners are installed, which may command
   and record at once; then the platforms are forwarded and the background tasks started *)
SetupLoads ==
    /\ elStage = "loading"
    /\ elStage' = "starting" /\ elMem' = elDisk
    /\ UNCHANGED <<elReady, elWanted, elAt, elUnit, elAbsent, elTasks, elDisk, elMade, elSpared, elLeaked, elLeft>>
SetupStarts ==
    /\ elStage = "starting"
    /\ elStage' = "forwarding" /\ elTasks' = TRUE
    /\ UNCHANGED <<elReady, elWanted, elAt, elUnit, elAbsent, elMem, elDisk, elMade, elSpared, elLeaked, elLeft>>
SetupForwards ==
    /\ elStage = "forwarding"
    /\ elStage' = "running"
    /\ UNCHANGED <<elReady, elWanted, elAt, elUnit, elAbsent, elTasks, elMem, elDisk, elMade, elSpared, elLeaked, elLeft>>

(* While it runs: control cycles command power, trackers record and save *)
ElCommand ==
    /\ elStage \in {"forwarding", "running"}
    /\ \E i \in Batteries : Unit(i).near /\ Unit(i).link /\ ~Unit(i).power
                            /\ elUnit' = [elUnit EXCEPT ![i] = [@ EXCEPT !.power = TRUE]]
    /\ UNCHANGED <<elStage, elAt, elAbsent, elReady, elWanted, elTasks, elMem, elDisk, elMade, elSpared, elLeaked, elLeft>>
ElRecord ==
    /\ elTasks /\ elMade < ElMaxRecs
    /\ elMem' = elMem + 1 /\ elMade' = elMade + 1
    /\ UNCHANGED <<elStage, elAt, elUnit, elAbsent, elReady, elWanted, elTasks, elDisk, elSpared, elLeaked, elLeft>>
ElSave ==
    /\ elTasks /\ elDisk # elMem
    /\ elDisk' = elMem
    /\ UNCHANGED <<elStage, elAt, elUnit, elAbsent, elReady, elWanted, elTasks, elMem, elMade, elSpared, elLeaked, elLeft>>
(* The surroundings: a battery drops out or comes back, its backup port is loaded *)
ElLost ==
    /\ Failing(1)
    /\ \E i \in Batteries : Unit(i).near /\ elUnit' = [elUnit EXCEPT ![i] = [@ EXCEPT !.near = FALSE, !.link = FALSE]]
    /\ UNCHANGED <<elStage, elAt, elAbsent, elReady, elWanted, elTasks, elMem, elDisk, elMade, elSpared, elLeaked>>
ElBack ==
    /\ \E i \in Batteries : ~Unit(i).near /\ elUnit' = [elUnit EXCEPT ![i] = [@ EXCEPT !.near = TRUE]]
    /\ UNCHANGED <<elStage, elAt, elAbsent, elReady, elWanted, elTasks, elMem, elDisk, elMade, elSpared, elLeaked, elLeft>>
(* A poll reconnects; for a battery the set-up gave up on it schedules one reload of the entry *)
ElPoll ==
    /\ elStage = "running"
    /\ \E i \in Batteries :
         /\ Unit(i).near /\ ~Unit(i).link
         /\ elUnit' = [elUnit EXCEPT ![i] = [@ EXCEPT !.link = TRUE]]
         /\ elAbsent' = elAbsent \ {i} /\ elWanted' = (elWanted \/ i \in elAbsent)
    /\ UNCHANGED <<elStage, elAt, elReady, elTasks, elMem, elDisk, elMade, elSpared, elLeaked, elLeft>>
ElFeeds ==
    /\ Failing(1)
    /\ \E i \in ElBackup : ~Unit(i).feeds /\ elUnit' = [elUnit EXCEPT ![i] = [@ EXCEPT !.feeds = TRUE]]
    /\ UNCHANGED <<elStage, elAt, elAbsent, elReady, elWanted, elTasks, elMem, elDisk, elMade, elSpared, elLeaked>>

---------------------------------------------------------------------------
\* Mutant of Quieted: the timers and tasks run on.
QuietedLate == UNCHANGED elTasks
(* async_unload_entry(): the reload scheduled above, or asked for by the user or an options save;
   timers and tasks are stopped and awaited, coordinators refuse new work *)
Quieted == elTasks' = FALSE
UnloadBegins ==
    /\ elStage = "running"
    /\ elStage' = "quiet" /\ Quieted
    /\ UNCHANGED <<elReady, elWanted, elAt, elUnit, elAbsent, elMem, elDisk, elMade, elSpared, elLeaked>>
ElReload == elWanted /\ UnloadBegins /\ UNCHANGED elLeft
ElStop == Failing(1) /\ UnloadBegins
(* The platforms are unloaded, then each battery is released in turn *)
UnloadPlatforms ==
    /\ elStage = "quiet"
    /\ elStage' = "releasing" /\ elAt' = 1
    /\ UNCHANGED <<elUnit, elAbsent, elReady, elWanted, elTasks, elMem, elDisk, elMade, elSpared, elLeaked, elLeft>>
(* One battery: left alone when its link is down or its backup port feeds a load; else stopped and
   its remote control given back; a failure goes on to the next *)
Spares(i) == ~Unit(i).link \/ Unit(i).feeds
\* Mutant of Released: the battery stops but stays under remote control.
ReleasedKeepsRemote(u) == [u EXCEPT !.power = FALSE]
Released(u) == [u EXCEPT !.power = FALSE, !.remote = FALSE]
UnloadReleases ==
    /\ elStage = "releasing" /\ elAt <= ElUnits
    /\ IF Spares(elAt) THEN elSpared' = elSpared \cup {elAt} /\ UNCHANGED elUnit
       ELSE elUnit' = [elUnit EXCEPT ![elAt] = Released(@)] /\ UNCHANGED elSpared
    /\ elAt' = elAt + 1
    /\ UNCHANGED <<elStage, elAbsent, elReady, elWanted, elTasks, elMem, elDisk, elMade, elLeaked, elLeft>>
UnloadReleaseFails ==
    /\ elStage = "releasing" /\ elAt <= ElUnits /\ ~Spares(elAt) /\ Failing(1)
    /\ elSpared' = elSpared \cup {elAt} /\ elAt' = elAt + 1
    /\ UNCHANGED <<elStage, elUnit, elAbsent, elReady, elWanted, elTasks, elMem, elDisk, elMade, elLeaked>>
UnloadReleased ==
    /\ elStage = "releasing" /\ elAt > ElUnits
    /\ elStage' = "closing" /\ elAt' = 1
    /\ UNCHANGED <<elUnit, elAbsent, elReady, elWanted, elTasks, elMem, elDisk, elMade, elSpared, elLeaked, elLeft>>
(* All links are closed, then the trackers save, then the entry is gone *)
UnloadCloses ==
    /\ elStage = "closing"
    /\ elUnit' = [i \in Batteries |-> [Unit(i) EXCEPT !.link = FALSE]]
    /\ elStage' = "saving"
    /\ UNCHANGED <<elAt, elAbsent, elReady, elWanted, elTasks, elMem, elDisk, elMade, elSpared, elLeaked, elLeft>>
UnloadSaves ==
    /\ elStage = "saving"
    /\ elDisk' = elMem /\ elStage' = "ending"
    /\ UNCHANGED <<elAt, elUnit, elAbsent, elReady, elWanted, elTasks, elMem, elMade, elSpared, elLeaked, elLeft>>
UnloadEnds ==
    /\ elStage = "ending"
    /\ elStage' = "down" /\ elAbsent' = {} /\ elTasks' = FALSE /\ elLeaked' = FALSE /\ elReady' = {} /\ elWanted' = FALSE
    /\ UNCHANGED <<elAt, elUnit, elMem, elDisk, elMade, elSpared, elLeft>>

(* Home Assistant is killed: links are cut, batteries keep their orders *)
ElKilled ==
    /\ elStage # "down" /\ Failing(1)
    /\ elStage' = "down" /\ elAt' = 1 /\ elAbsent' = {} /\ elTasks' = FALSE /\ elMem' = elDisk
    /\ elUnit' = [i \in Batteries |-> [Unit(i) EXCEPT !.link = FALSE]]
    /\ elSpared' = Batteries /\ elLeaked' = FALSE /\ elReady' = {} /\ elWanted' = FALSE
    /\ UNCHANGED <<elDisk, elMade>>

ElInit ==
    /\ elStage = "down" /\ elAt = 1 /\ elAbsent = {} /\ elTasks = FALSE /\ elMem = 0 /\ elDisk = 0 /\ elMade = 0
    /\ elUnit = [i \in Batteries |-> [near |-> TRUE, link |-> FALSE, remote |-> FALSE, power |-> FALSE, feeds |-> FALSE]]
    /\ elSpared = Batteries /\ elLeaked = FALSE /\ elReady = {} /\ elWanted = FALSE /\ elLeft = ElMaxUpsets
SetupSteps == SetupBegins \/ SetupConnects \/ SetupGivesUp \/ SetupOpened \/ SetupLoads \/ SetupStarts \/ SetupForwards
UnloadSteps == UnloadPlatforms \/ UnloadReleases \/ UnloadReleased \/ UnloadCloses \/ UnloadSaves \/ UnloadEnds
ElNext ==
    \/ SetupSteps \/ SetupFails \/ ElCommand \/ ElRecord \/ ElSave \/ ElLost \/ ElBack \/ ElPoll \/ ElFeeds
    \/ ElReload \/ ElStop \/ UnloadSteps \/ UnloadReleaseFails \/ ElKilled

(* Home Assistant retries a failed set-up, carries set-up and unload through, polls, and reloads when
   asked; batteries need not come back *)
ElFairness ==
    /\ WF_elVars(SetupSteps) /\ WF_elVars(UnloadSteps)
    /\ WF_elVars(ElPoll) /\ WF_elVars(ElReload)
ElSpec == ElInit /\ [][ElNext]_elVars /\ ElFairness

---------------------------------------------------------------------------
(* A battery that could be reached is left at rest and free when the entry is down: no power of
   ours running on, no remote control kept, whatever the others did *)
LeftAtRest ==
    elStage = "down" /\ ~elLeaked => \A i \in Batteries \ elSpared : ~Unit(i).power /\ ~Unit(i).remote /\ ~Unit(i).link

(* The entry goes down in an orderly state (async_unload_entry) *)
DownIsAtRest == ElTypeOK /\ LeftAtRest

(* A battery the set-up gave up on is set up once it answers, unless it is lost again: it is never
   left polled but unconfigured *)
AbsentJoins == \A i \in Batteries :
    (elStage = "running" /\ Unit(i).near /\ i \notin elReady) ~> (i \in elReady \/ ~Unit(i).near)

(* The records survive a reload, whole: the entry implements the durable service *)
Store == INSTANCE Durable WITH on <- elStage \in Stages \ {"down", "opening", "loading"}, mem <- elMem, disk <- elDisk
RecordsDurable == Store!DurableSpec
=============================================================================
