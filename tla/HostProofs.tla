----------------------------- MODULE HostProofs -----------------------------
(***************************************************************************)
(* What holds between the integration and Home Assistant for every number of *)
(* batteries, entities, entries, records, days, versions and upsets: the move *)
(* to the new domain (DomainMove), the life of the entry (EntryLife, which     *)
(* implements Durable), bringing an older installation up to date              *)
(* (EntryUpgrade), the dialogs that write the entry (ConfigFlow) and the days' *)
(* records (DailyTally).  For each an inductive invariant is shown to hold at  *)
(* first and to be kept by every action; the theorems follow from it.          *)
(***************************************************************************)
EXTENDS DomainMove, EntryLife, EntryUpgrade, ConfigFlow, DailyTally, FiniteSetTheorems, SequenceTheorems, TLAPS

-----------------------------------------------------------------------------
(* DomainMove.  An entry is live when it drives the batteries or will after a restart. *)
Drives(e) == dmEntry[e] \in {"on", "off"}
(* The legacy counters are safe with an entry: on disk, and in memory while it runs *)
Keeps(e) == dmFiles[e] = "kept" /\ dmMem[e] # "reset" /\ (dmEntry[e] = "on" => dmMem[e] = "kept")
Moving == {"added", "pointed", "removed", "copied"}

(* At most one entry is live; while a mirror is being made it is the legacy entry, then none *)
OneLive ==
    /\ \A e, f \in Entries : Drives(e) /\ Drives(f) => e = f
    /\ dmStep \in {"unloaded", "added", "pointed"} => Drives(0)
    /\ dmStep \in {"removed", "copied"} => \A e \in Entries : ~Drives(e)
(* Entries are made in turn; the one being made has no file before the copy, and is not live *)
Unmade ==
    /\ \A e \in Entries : e > dmNew => dmEntry[e] = "none" /\ dmFiles[e] = "none" /\ e \notin dmMoved
    /\ dmStep = "unloaded" => dmNew < DmMaxNew
    /\ dmStep \in Moving => dmNew > 0 /\ dmNew \notin dmMoved /\ ~Drives(dmNew)
    /\ dmStep = "restoring" => dmNew > 0 /\ dmNew \notin dmMoved
    /\ dmStep \in {"added", "pointed", "removed"} => dmFiles[dmNew] = "none"
    /\ dmStep = "copied" => dmFiles[dmNew] = "kept"
(* The legacy counters are never lost on the way *)
Carry == Keeps(0) /\ \A e \in dmMoved : Keeps(e)
(* The legacy entry owns nothing any more when it is removed *)
Repointed == dmStep = "pointed" => \A x \in DmEntities : dmOwner[x] # 0
DmInv == DmTypeOK /\ OneLive /\ Unmade /\ Carry /\ Repointed /\ EntitiesKept

LEMMA DmInitInv == DmInit => DmInv
<1> SUFFICES ASSUME DmInit PROVE DmInv
  OBVIOUS
<1> USE DmAssumption DEF DmInit, Entries
<1>1. DmTypeOK
  <2>1. /\ dmEntry \in [Entries -> {"none", "disabled", "off", "on"}]
        /\ dmFiles \in [Entries -> {"none", "kept", "reset"}]
        /\ dmMem \in [Entries -> {"none", "kept", "reset"}]
    OBVIOUS
  <2>2. dmOwner \in [DmEntities -> Entries \cup {-1}] /\ dmShown \subseteq DmEntities
    OBVIOUS
  <2>3. dmNew \in Entries /\ dmCopy \in Entries /\ dmMoved \subseteq Entries /\ dmLeft \in 0..DmMaxKills
    OBVIOUS
  <2> QED BY <2>1, <2>2, <2>3 DEF DmTypeOK
<1>2. OneLive BY DEF OneLive, Drives
<1>3. Unmade BY DEF Unmade, Moving
<1>4. Carry /\ Repointed BY DEF Carry, Keeps, Repointed
<1>5. EntitiesKept BY DEF EntitiesKept
<1> QED BY <1>1, <1>2, <1>3, <1>4, <1>5 DEF DmInv

LEMMA DmStepType == DmTypeOK /\ Unmade /\ [DmNext]_dmVars => DmTypeOK'
<1> SUFFICES ASSUME DmTypeOK, Unmade, [DmNext]_dmVars PROVE DmTypeOK'
  OBVIOUS
<1> USE DmAssumption DEF DmTypeOK, Entries, Loaded1
<1>1. CASE MoveUnloads BY <1>1 DEF MoveUnloads
<1>2. CASE MoveAdds BY <1>2 DEF MoveAdds, Mirrored, Unmade
<1>3. CASE MovePoints BY <1>3 DEF MovePoints, Pointed
<1>4. CASE MoveRemoves BY <1>4 DEF MoveRemoves
<1>5. CASE MoveCopies BY <1>5 DEF MoveCopies, Carried
<1>6. CASE MoveEnables BY <1>6 DEF MoveEnables
<1>7. CASE \E e \in Entries : DmSave(e) BY <1>7 DEF DmSave
<1>8. CASE DmRestart BY <1>8 DEF DmRestart
<1>9. CASE DmDelete BY <1>9 DEF DmDelete
<1>10. CASE RestoreAdds BY <1>10 DEF RestoreAdds
<1>11. CASE RestoreCopies BY <1>11 DEF RestoreCopies, Carried
<1>12. CASE UNCHANGED dmVars BY <1>12 DEF dmVars
<1> QED BY <1>1, <1>2, <1>3, <1>4, <1>5, <1>6, <1>7, <1>8, <1>9, <1>10, <1>11, <1>12 DEF DmNext

LEMMA DmStepLive == DmInv /\ [DmNext]_dmVars => OneLive'
<1> SUFFICES ASSUME DmInv, [DmNext]_dmVars PROVE OneLive'
  OBVIOUS
<1> USE DmAssumption DEF DmInv, DmTypeOK, Entries, OneLive, Drives
<1>1. CASE MoveUnloads BY <1>1 DEF MoveUnloads
<1>2. CASE MoveAdds BY <1>2 DEF MoveAdds, Mirrored, Unmade
<1>3. CASE MovePoints BY <1>3 DEF MovePoints
<1>4. CASE MoveRemoves BY <1>4 DEF MoveRemoves
<1>5. CASE MoveCopies BY <1>5 DEF MoveCopies
<1>6. CASE MoveEnables BY <1>6 DEF MoveEnables
<1>7. CASE \E e \in Entries : DmSave(e) BY <1>7 DEF DmSave
<1>8. CASE DmRestart BY <1>8 DEF DmRestart
<1>9. CASE DmDelete BY <1>9 DEF DmDelete
<1>10. CASE RestoreAdds BY <1>10 DEF RestoreAdds
<1>11. CASE RestoreCopies BY <1>11 DEF RestoreCopies
<1>12. CASE UNCHANGED dmVars BY <1>12 DEF dmVars
<1> QED BY <1>1, <1>2, <1>3, <1>4, <1>5, <1>6, <1>7, <1>8, <1>9, <1>10, <1>11, <1>12 DEF DmNext

LEMMA DmStepFresh == DmInv /\ [DmNext]_dmVars => Unmade'
<1> SUFFICES ASSUME DmInv, [DmNext]_dmVars PROVE Unmade'
  OBVIOUS
<1> USE DmAssumption DEF DmInv, DmTypeOK, Entries, Unmade, Moving, Drives
<1>1. CASE MoveUnloads BY <1>1 DEF MoveUnloads
<1>2. CASE MoveAdds BY <1>2 DEF MoveAdds, Mirrored
<1>3. CASE MovePoints BY <1>3 DEF MovePoints
<1>4. CASE MoveRemoves BY <1>4 DEF MoveRemoves
<1>5. CASE MoveCopies BY <1>5 DEF MoveCopies, Carried, Carry, Keeps
<1>6. CASE MoveEnables BY <1>6 DEF MoveEnables
<1>7. CASE \E e \in Entries : DmSave(e) BY <1>7 DEF DmSave, OneLive
<1>8. CASE DmRestart BY <1>8 DEF DmRestart
<1>9. CASE DmDelete BY <1>9 DEF DmDelete
<1>10. CASE RestoreAdds BY <1>10 DEF RestoreAdds
<1>11. CASE RestoreCopies BY <1>11 DEF RestoreCopies, Carried
<1>12. CASE UNCHANGED dmVars BY <1>12 DEF dmVars
<1> QED BY <1>1, <1>2, <1>3, <1>4, <1>5, <1>6, <1>7, <1>8, <1>9, <1>10, <1>11, <1>12 DEF DmNext

LEMMA DmStepCarry == DmInv /\ [DmNext]_dmVars => Carry'
<1> SUFFICES ASSUME DmInv, [DmNext]_dmVars PROVE Carry'
  OBVIOUS
<1> USE DmAssumption DEF DmInv, DmTypeOK, Entries, Carry, Keeps
<1>1. CASE MoveUnloads BY <1>1 DEF MoveUnloads
<1>2. CASE MoveAdds BY <1>2 DEF MoveAdds, Mirrored, Unmade
<1>3. CASE MovePoints BY <1>3 DEF MovePoints
<1>4. CASE MoveRemoves BY <1>4 DEF MoveRemoves
<1>5. CASE MoveCopies BY <1>5 DEF MoveCopies, Carried, Unmade, Moving
<1>6. CASE MoveEnables BY <1>6 DEF MoveEnables, Loaded1, Unmade, Moving
<1>7. CASE \E e \in Entries : DmSave(e) BY <1>7 DEF DmSave
<1>8. CASE DmRestart BY <1>8 DEF DmRestart, Loaded1
<1>9. CASE DmDelete BY <1>9 DEF DmDelete
<1>10. CASE RestoreAdds BY <1>10 DEF RestoreAdds, Loaded1, Unmade
<1>11. CASE RestoreCopies BY <1>11 DEF RestoreCopies, Carried, Unmade
<1>12. CASE UNCHANGED dmVars BY <1>12 DEF dmVars
<1> QED BY <1>1, <1>2, <1>3, <1>4, <1>5, <1>6, <1>7, <1>8, <1>9, <1>10, <1>11, <1>12 DEF DmNext

LEMMA DmStepEntities == DmInv /\ [DmNext]_dmVars => (Repointed /\ EntitiesKept)'
<1> SUFFICES ASSUME DmInv, [DmNext]_dmVars PROVE (Repointed /\ EntitiesKept)'
  OBVIOUS
<1> USE DmAssumption DEF DmInv, DmTypeOK, Entries, Repointed, EntitiesKept
<1>1. CASE MoveUnloads BY <1>1 DEF MoveUnloads
<1>2. CASE MoveAdds BY <1>2 DEF MoveAdds
<1>3. CASE MovePoints BY <1>3 DEF MovePoints, Pointed, Unmade, Moving
<1>4. CASE MoveRemoves BY <1>4 DEF MoveRemoves
<1>5. CASE MoveCopies BY <1>5 DEF MoveCopies
<1>6. CASE MoveEnables BY <1>6 DEF MoveEnables
<1>7. CASE \E e \in Entries : DmSave(e) BY <1>7 DEF DmSave
<1>8. CASE DmRestart BY <1>8 DEF DmRestart
<1>9. CASE DmDelete BY <1>9 DEF DmDelete
<1>10. CASE RestoreAdds BY <1>10 DEF RestoreAdds
<1>11. CASE RestoreCopies BY <1>11 DEF RestoreCopies
<1>12. CASE UNCHANGED dmVars BY <1>12 DEF dmVars
<1> QED BY <1>1, <1>2, <1>3, <1>4, <1>5, <1>6, <1>7, <1>8, <1>9, <1>10, <1>11, <1>12 DEF DmNext

LEMMA DmOneController == DmInv => OneController
<1> SUFFICES ASSUME DmInv PROVE OneController
  OBVIOUS
<1> DEFINE on == {e \in Entries : dmEntry[e] = "on"}
<1>1. \A e, f \in on : e = f
  BY DEF DmInv, OneLive, Drives
<1>2. CASE on = {}
  BY <1>2, FS_EmptySet DEF OneController
<1>3. CASE on # {}
  <2>1. PICK e \in on : on = {e}
    BY <1>1, <1>3
  <2>2. Cardinality({e}) = 1
    BY FS_Singleton
  <2> QED BY <2>1, <2>2 DEF OneController
<1> QED BY <1>2, <1>3

(* The migration and the restore, cut off between any two of their steps and begun again any number *)
(* of times: one controller drives the batteries, only the user's deletion unregisters an entity,   *)
(* and an entry that was moved goes on with the legacy counters (domain_migration.py).               *)
THEOREM MoveCorrect == DmSpec => []MoveSound
<1>1. DmInv /\ [DmNext]_dmVars => DmInv'
  BY DmStepType, DmStepLive, DmStepFresh, DmStepCarry, DmStepEntities DEF DmInv
<1>2. DmInv => MoveSound
  BY DmOneController DEF MoveSound, DmInv, StoresFollow, Carry, Keeps
<1> QED BY DmInitInv, <1>1, <1>2, PTL DEF DmSpec

-----------------------------------------------------------------------------
(* EntryLife.  Nothing records or commands outside the stages that have the timers. *)
Busy == elTasks => elStage \in {"forwarding", "running"}
(* Without an unsaved record the entry is down, opening, loading or about to end *)
Stored1 == elStage \in {"down", "opening", "loading", "ending"} => elMem = elDisk
Counted == elMem <= elMade /\ elDisk <= elMade
(* The unload passes battery after battery: those behind it are at rest or were left alone, and with *)
(* the links closed nothing of ours is left                                                         *)
AtRest(i) == ~Unit(i).power /\ ~Unit(i).remote
Passed ==
    /\ elStage = "releasing" => \A i \in Batteries \ elSpared : i < elAt => AtRest(i)
    /\ elStage \in {"closing", "saving", "ending"} => \A i \in Batteries \ elSpared : AtRest(i)
    /\ elStage \in {"saving", "ending"} => \A i \in Batteries : ~Unit(i).link
ElInv == ElTypeOK /\ Busy /\ Stored1 /\ Counted /\ Passed /\ LeftAtRest

LEMMA ElStepRecords ==
  ASSUME ElTypeOK, Busy, Stored1, Counted, [ElNext]_elVars
  PROVE  Busy' /\ Stored1' /\ Counted'
<1> USE ElAssumption DEF ElTypeOK, Busy, Stored1, Counted, Stages
<1>1. CASE SetupBegins BY <1>1 DEF SetupBegins
<1>2. CASE SetupConnects BY <1>2 DEF SetupConnects, Configured
<1>3. CASE SetupGivesUp BY <1>3 DEF SetupGivesUp, GivenUp
<1>4. CASE SetupOpened BY <1>4 DEF SetupOpened
<1>5. CASE SetupLoads BY <1>5 DEF SetupLoads
<1>6. CASE SetupStarts BY <1>6 DEF SetupStarts
<1>7. CASE SetupForwards BY <1>7 DEF SetupForwards
<1>8. CASE SetupFails BY <1>8 DEF SetupFails, Failing
<1>9. CASE ElCommand BY <1>9 DEF ElCommand
<1>10. CASE ElRecord BY <1>10 DEF ElRecord
<1>11. CASE ElSave BY <1>11 DEF ElSave
<1>12. CASE ElLost BY <1>12 DEF ElLost, Failing
<1>13. CASE ElBack BY <1>13 DEF ElBack
<1>14. CASE ElPoll BY <1>14 DEF ElPoll
<1>15. CASE ElFeeds BY <1>15 DEF ElFeeds, Failing
<1>16. CASE ElReload BY <1>16 DEF ElReload, UnloadBegins, Quieted
<1>17. CASE ElStop BY <1>17 DEF ElStop, UnloadBegins, Quieted, Failing
<1>18. CASE UnloadPlatforms BY <1>18 DEF UnloadPlatforms
<1>19. CASE UnloadReleases BY <1>19 DEF UnloadReleases, Released, Spares
<1>20. CASE UnloadReleased BY <1>20 DEF UnloadReleased
<1>21. CASE UnloadCloses BY <1>21 DEF UnloadCloses
<1>22. CASE UnloadSaves BY <1>22 DEF UnloadSaves
<1>23. CASE UnloadEnds BY <1>23 DEF UnloadEnds
<1>24. CASE UnloadReleaseFails BY <1>24 DEF UnloadReleaseFails, Failing, Spares
<1>25. CASE ElKilled BY <1>25 DEF ElKilled, Failing
<1>26. CASE UNCHANGED elVars BY <1>26 DEF elVars
<1> QED
  BY <1>1, <1>2, <1>3, <1>4, <1>5, <1>6, <1>7, <1>8, <1>9, <1>10, <1>11, <1>12, <1>13,
     <1>14, <1>15, <1>16, <1>17, <1>18, <1>19, <1>20, <1>21, <1>22, <1>23, <1>24, <1>25, <1>26
  DEF ElNext, SetupSteps, UnloadSteps
UnitRec == [near: BOOLEAN, link: BOOLEAN, remote: BOOLEAN, power: BOOLEAN, feeds: BOOLEAN]
Units == [Batteries -> UnitRec]

(* What the steps do to one battery leaves it a battery *)
LEMMA UnitKept ==
  ASSUME NEW u \in UnitRec, NEW i
  PROVE  /\ Configured(i, u) \in UnitRec
         /\ Released(u) \in UnitRec
         /\ [u EXCEPT !.link = FALSE] \in UnitRec
         /\ [u EXCEPT !.link = TRUE] \in UnitRec
         /\ [u EXCEPT !.power = TRUE] \in UnitRec
         /\ [u EXCEPT !.near = FALSE, !.link = FALSE] \in UnitRec
         /\ [u EXCEPT !.near = TRUE] \in UnitRec
         /\ [u EXCEPT !.feeds = TRUE] \in UnitRec
<1>1. Configured(i, u) \in UnitRec
  <2>1. ASSUME NEW b \in BOOLEAN PROVE [u EXCEPT !.link = TRUE, !.remote = b] \in UnitRec
    BY DEF UnitRec
  <2>2. (i \in ElSerial) \in BOOLEAN
    OBVIOUS
  <2> QED BY <2>1, <2>2, Zenon DEF Configured
<1>2. Released(u) \in UnitRec
  BY DEF UnitRec, Released
<1>3. /\ [u EXCEPT !.link = FALSE] \in UnitRec
      /\ [u EXCEPT !.link = TRUE] \in UnitRec
      /\ [u EXCEPT !.power = TRUE] \in UnitRec
  BY DEF UnitRec
<1>4. /\ [u EXCEPT !.near = FALSE, !.link = FALSE] \in UnitRec
      /\ [u EXCEPT !.near = TRUE] \in UnitRec
      /\ [u EXCEPT !.feeds = TRUE] \in UnitRec
  BY DEF UnitRec
<1> QED BY <1>1, <1>2, <1>3, <1>4

LEMMA ElStepUnits ==
  ASSUME elUnit \in Units, elAt \in Nat \ {0}, [ElNext]_elVars
  PROVE  elUnit' \in Units
<1> USE ElAssumption, UnitKept DEF Batteries, Unit, Units
<1>1. CASE SetupBegins BY <1>1 DEF SetupBegins
<1>2. CASE SetupConnects BY <1>2 DEF SetupConnects
<1>3. CASE SetupGivesUp BY <1>3 DEF SetupGivesUp, GivenUp
<1>4. CASE SetupOpened BY <1>4 DEF SetupOpened
<1>5. CASE SetupLoads BY <1>5 DEF SetupLoads
<1>6. CASE SetupStarts BY <1>6 DEF SetupStarts
<1>7. CASE SetupForwards BY <1>7 DEF SetupForwards
<1>8. CASE SetupFails BY <1>8 DEF SetupFails, Failing
<1>9. CASE ElCommand BY <1>9 DEF ElCommand
<1>10. CASE ElRecord BY <1>10 DEF ElRecord
<1>11. CASE ElSave BY <1>11 DEF ElSave
<1>12. CASE ElLost BY <1>12 DEF ElLost, Failing
<1>13. CASE ElBack BY ZenonT(40), <1>13 DEF ElBack
<1>14. CASE ElPoll BY <1>14 DEF ElPoll
<1>15. CASE ElFeeds BY ZenonT(40), <1>15 DEF ElFeeds, Failing
<1>16. CASE ElReload BY <1>16 DEF ElReload, UnloadBegins, Quieted
<1>17. CASE ElStop BY <1>17 DEF ElStop, UnloadBegins, Quieted, Failing
<1>18. CASE UnloadPlatforms BY <1>18 DEF UnloadPlatforms
<1>19. CASE UnloadReleases BY <1>19 DEF UnloadReleases
<1>20. CASE UnloadReleased BY <1>20 DEF UnloadReleased
<1>21. CASE UnloadCloses BY <1>21 DEF UnloadCloses
<1>22. CASE UnloadSaves BY <1>22 DEF UnloadSaves
<1>23. CASE UnloadEnds BY <1>23 DEF UnloadEnds
<1>24. CASE UnloadReleaseFails BY <1>24 DEF UnloadReleaseFails, Failing, Spares
<1>25. CASE ElKilled BY <1>25 DEF ElKilled, Failing
<1>26. CASE UNCHANGED elVars BY <1>26 DEF elVars
<1> QED
  BY <1>1, <1>2, <1>3, <1>4, <1>5, <1>6, <1>7, <1>8, <1>9, <1>10, <1>11, <1>12, <1>13,
     <1>14, <1>15, <1>16, <1>17, <1>18, <1>19, <1>20, <1>21, <1>22, <1>23, <1>24, <1>25, <1>26
  DEF ElNext, SetupSteps, UnloadSteps

LEMMA ElStepFlags ==
  ASSUME elWanted \in BOOLEAN, elTasks \in BOOLEAN, elLeaked \in BOOLEAN, [ElNext]_elVars
  PROVE  elWanted' \in BOOLEAN /\ elTasks' \in BOOLEAN /\ elLeaked' \in BOOLEAN
<1>1. CASE SetupBegins BY <1>1 DEF SetupBegins
<1>2. CASE SetupConnects BY <1>2 DEF SetupConnects, Configured
<1>3. CASE SetupGivesUp BY <1>3 DEF SetupGivesUp, GivenUp
<1>4. CASE SetupOpened BY <1>4 DEF SetupOpened
<1>5. CASE SetupLoads BY <1>5 DEF SetupLoads
<1>6. CASE SetupStarts BY <1>6 DEF SetupStarts
<1>7. CASE SetupForwards BY <1>7 DEF SetupForwards
<1>8. CASE SetupFails BY <1>8 DEF SetupFails, Failing
<1>9. CASE ElCommand BY <1>9 DEF ElCommand
<1>10. CASE ElRecord BY <1>10 DEF ElRecord
<1>11. CASE ElSave BY <1>11 DEF ElSave
<1>12. CASE ElLost BY <1>12 DEF ElLost, Failing
<1>13. CASE ElBack BY <1>13 DEF ElBack
<1>14. CASE ElPoll BY <1>14 DEF ElPoll
<1>15. CASE ElFeeds BY <1>15 DEF ElFeeds, Failing
<1>16. CASE ElReload BY <1>16 DEF ElReload, UnloadBegins, Quieted
<1>17. CASE ElStop BY <1>17 DEF ElStop, UnloadBegins, Quieted, Failing
<1>18. CASE UnloadPlatforms BY <1>18 DEF UnloadPlatforms
<1>19. CASE UnloadReleases BY <1>19 DEF UnloadReleases, Released, Spares
<1>20. CASE UnloadReleased BY <1>20 DEF UnloadReleased
<1>21. CASE UnloadCloses BY <1>21 DEF UnloadCloses
<1>22. CASE UnloadSaves BY <1>22 DEF UnloadSaves
<1>23. CASE UnloadEnds BY <1>23 DEF UnloadEnds
<1>24. CASE UnloadReleaseFails BY <1>24 DEF UnloadReleaseFails, Failing, Spares
<1>25. CASE ElKilled BY <1>25 DEF ElKilled, Failing
<1>26. CASE UNCHANGED elVars BY <1>26 DEF elVars
<1> QED
  BY <1>1, <1>2, <1>3, <1>4, <1>5, <1>6, <1>7, <1>8, <1>9, <1>10, <1>11, <1>12, <1>13,
     <1>14, <1>15, <1>16, <1>17, <1>18, <1>19, <1>20, <1>21, <1>22, <1>23, <1>24, <1>25, <1>26
  DEF ElNext, SetupSteps, UnloadSteps

LEMMA ElStepType ==
  ASSUME ElTypeOK, Counted, [ElNext]_elVars
  PROVE  ElTypeOK'
<1> USE ElAssumption DEF Stages
<1> DEFINE Rest ==
             /\ elStage \in Stages /\ elAt \in 1..(ElUnits + 1) /\ elAbsent \subseteq Batteries
             /\ elReady \subseteq Batteries /\ elSpared \subseteq Batteries
             /\ {elMem, elDisk, elMade} \subseteq 0..ElMaxRecs /\ elLeft \in 0..ElMaxUpsets
<1>0. SUFFICES ASSUME Rest, Counted, [ElNext]_elVars PROVE Rest'
  BY ElStepUnits, ElStepFlags DEF ElTypeOK, Units, UnitRec
<1> USE <1>0 DEF Batteries, Counted
<1>1. CASE SetupBegins BY <1>1 DEF SetupBegins
<1>2. CASE SetupConnects BY <1>2 DEF SetupConnects, Configured
<1>3. CASE SetupGivesUp BY <1>3 DEF SetupGivesUp, GivenUp
<1>4. CASE SetupOpened BY <1>4 DEF SetupOpened
<1>5. CASE SetupLoads BY <1>5 DEF SetupLoads
<1>6. CASE SetupStarts BY <1>6 DEF SetupStarts
<1>7. CASE SetupForwards BY <1>7 DEF SetupForwards
<1>8. CASE SetupFails BY <1>8 DEF SetupFails, Failing
<1>9. CASE ElCommand BY <1>9 DEF ElCommand
<1>10. CASE ElRecord BY <1>10 DEF ElRecord
<1>11. CASE ElSave BY <1>11 DEF ElSave
<1>12. CASE ElLost BY <1>12 DEF ElLost, Failing
<1>13. CASE ElBack BY <1>13 DEF ElBack
<1>14. CASE ElPoll BY <1>14 DEF ElPoll
<1>15. CASE ElFeeds BY <1>15 DEF ElFeeds, Failing
<1>16. CASE ElReload BY <1>16 DEF ElReload, UnloadBegins, Quieted
<1>17. CASE ElStop BY <1>17 DEF ElStop, UnloadBegins, Quieted, Failing
<1>18. CASE UnloadPlatforms BY <1>18 DEF UnloadPlatforms
<1>19. CASE UnloadReleases BY <1>19 DEF UnloadReleases, Released, Spares
<1>20. CASE UnloadReleased BY <1>20 DEF UnloadReleased
<1>21. CASE UnloadCloses BY <1>21 DEF UnloadCloses
<1>22. CASE UnloadSaves BY <1>22 DEF UnloadSaves
<1>23. CASE UnloadEnds BY <1>23 DEF UnloadEnds
<1>24. CASE UnloadReleaseFails BY <1>24 DEF UnloadReleaseFails, Failing, Spares
<1>25. CASE ElKilled BY <1>25 DEF ElKilled, Failing
<1>26. CASE UNCHANGED elVars BY <1>26 DEF elVars
<1> QED
  BY <1>1, <1>2, <1>3, <1>4, <1>5, <1>6, <1>7, <1>8, <1>9, <1>10, <1>11, <1>12, <1>13,
     <1>14, <1>15, <1>16, <1>17, <1>18, <1>19, <1>20, <1>21, <1>22, <1>23, <1>24, <1>25, <1>26
  DEF ElNext, SetupSteps, UnloadSteps

LEMMA ElStepPassed ==
  ASSUME ElTypeOK, Busy, Passed, LeftAtRest, [ElNext]_elVars
  PROVE  Passed' /\ LeftAtRest'
<1> USE ElAssumption DEF ElTypeOK, Busy, Passed, LeftAtRest, AtRest, Stages, Batteries, Unit
<1>1. CASE SetupBegins BY <1>1 DEF SetupBegins
<1>2. CASE SetupConnects BY <1>2 DEF SetupConnects, Configured
<1>3. CASE SetupGivesUp BY <1>3 DEF SetupGivesUp, GivenUp
<1>4. CASE SetupOpened BY <1>4 DEF SetupOpened
<1>5. CASE SetupLoads BY <1>5 DEF SetupLoads
<1>6. CASE SetupStarts BY <1>6 DEF SetupStarts
<1>7. CASE SetupForwards BY <1>7 DEF SetupForwards
<1>8. CASE SetupFails BY <1>8 DEF SetupFails, Failing
<1>9. CASE ElCommand BY <1>9 DEF ElCommand
<1>10. CASE ElRecord BY <1>10 DEF ElRecord
<1>11. CASE ElSave BY <1>11 DEF ElSave
<1>12. CASE ElLost BY <1>12 DEF ElLost, Failing
<1>13. CASE ElBack BY <1>13 DEF ElBack
<1>14. CASE ElPoll BY <1>14 DEF ElPoll
<1>15. CASE ElFeeds BY <1>15 DEF ElFeeds, Failing
<1>16. CASE ElReload BY <1>16 DEF ElReload, UnloadBegins, Quieted
<1>17. CASE ElStop BY <1>17 DEF ElStop, UnloadBegins, Quieted, Failing
<1>18. CASE UnloadPlatforms BY <1>18 DEF UnloadPlatforms
<1>19. CASE UnloadReleases
  <2>1. elStage = "releasing" /\ elStage' = "releasing" /\ elAt' = elAt + 1 /\ elAt \in Batteries
    BY <1>19 DEF UnloadReleases
  <2>2. CASE Spares(elAt)
    BY <1>19, <2>1, <2>2 DEF UnloadReleases
  <2>3. CASE ~Spares(elAt)
    <3>1. elUnit' = [elUnit EXCEPT ![elAt] = Released(elUnit[elAt])] /\ elSpared' = elSpared
      BY <1>19, <2>3 DEF UnloadReleases
    <3>2. ~Released(elUnit[elAt]).power /\ ~Released(elUnit[elAt]).remote
      BY <2>1 DEF Released
    <3> QED BY <2>1, <3>1, <3>2
  <2> QED BY <2>2, <2>3
<1>20. CASE UnloadReleased BY <1>20 DEF UnloadReleased
<1>21. CASE UnloadCloses BY <1>21 DEF UnloadCloses
<1>22. CASE UnloadSaves BY <1>22 DEF UnloadSaves
<1>23. CASE UnloadEnds BY <1>23 DEF UnloadEnds
<1>24. CASE UnloadReleaseFails BY <1>24 DEF UnloadReleaseFails, Failing, Spares
<1>25. CASE ElKilled BY <1>25 DEF ElKilled, Failing
<1>26. CASE UNCHANGED elVars BY <1>26 DEF elVars
<1> QED
  BY <1>1, <1>2, <1>3, <1>4, <1>5, <1>6, <1>7, <1>8, <1>9, <1>10, <1>11, <1>12, <1>13,
     <1>14, <1>15, <1>16, <1>17, <1>18, <1>19, <1>20, <1>21, <1>22, <1>23, <1>24, <1>25, <1>26
  DEF ElNext, SetupSteps, UnloadSteps

LEMMA ElInductive == ElSpec => []ElInv
<1>1. ElInit => ElInv
  <2> SUFFICES ASSUME ElInit PROVE ElInv
    OBVIOUS
  <2> USE ElAssumption DEF ElInit, Batteries
  <2>1. elUnit \in [Batteries -> [near: BOOLEAN, link: BOOLEAN, remote: BOOLEAN, power: BOOLEAN, feeds: BOOLEAN]]
    OBVIOUS
  <2>2. elWanted \in BOOLEAN /\ elTasks \in BOOLEAN /\ elLeaked \in BOOLEAN
    OBVIOUS
  <2>3. ElTypeOK
    BY <2>1, <2>2 DEF ElTypeOK, Stages
  <2>4. Busy /\ Stored1 /\ Counted /\ Passed /\ LeftAtRest
    BY DEF Busy, Stored1, Counted, Passed, LeftAtRest
  <2> QED BY <2>3, <2>4 DEF ElInv
<1>2. ElInv /\ [ElNext]_elVars => ElInv'
  BY ElStepType, ElStepRecords, ElStepPassed DEF ElInv
<1> QED BY <1>1, <1>2, PTL DEF ElSpec

(* However many batteries there are, and whichever of them fail, vanish or feed a load while the     *)
(* entry is unloaded, every other one is left without power, remote control or link of ours          *)
(* (async_unload_entry).                                                                             *)
THEOREM RestCorrect == ElSpec => []DownIsAtRest
<1>1. ElInv => DownIsAtRest
  BY DEF ElInv, DownIsAtRest
<1> QED BY <1>1, ElInductive, PTL

LEMMA ElStepDurable ==
  ASSUME ElInv, [ElNext]_elVars
  PROVE  [Store!Start \/ Store!Record \/ Store!Save \/ Store!StopStored \/ Store!Lose]_
             <<elStage \in Stages \ {"down", "opening", "loading"}, elMem, elDisk>>
<1> USE DEF ElInv, ElTypeOK, Busy, Stored1, Stages, Store!Start, Store!Record, Store!Save, Store!StopStored, Store!Lose
<1>1. CASE SetupBegins BY <1>1 DEF SetupBegins
<1>2. CASE SetupConnects BY <1>2 DEF SetupConnects, Configured
<1>3. CASE SetupGivesUp BY <1>3 DEF SetupGivesUp, GivenUp
<1>4. CASE SetupOpened BY <1>4 DEF SetupOpened
<1>5. CASE SetupLoads BY <1>5 DEF SetupLoads
<1>6. CASE SetupStarts BY <1>6 DEF SetupStarts
<1>7. CASE SetupForwards BY <1>7 DEF SetupForwards
<1>8. CASE SetupFails BY <1>8 DEF SetupFails, Failing
<1>9. CASE ElCommand BY <1>9 DEF ElCommand
<1>10. CASE ElRecord BY <1>10 DEF ElRecord
<1>11. CASE ElSave BY <1>11 DEF ElSave
<1>12. CASE ElLost BY <1>12 DEF ElLost, Failing
<1>13. CASE ElBack BY <1>13 DEF ElBack
<1>14. CASE ElPoll BY <1>14 DEF ElPoll
<1>15. CASE ElFeeds BY <1>15 DEF ElFeeds, Failing
<1>16. CASE ElReload BY <1>16 DEF ElReload, UnloadBegins, Quieted
<1>17. CASE ElStop BY <1>17 DEF ElStop, UnloadBegins, Quieted, Failing
<1>18. CASE UnloadPlatforms BY <1>18 DEF UnloadPlatforms
<1>19. CASE UnloadReleases BY <1>19 DEF UnloadReleases, Released, Spares
<1>20. CASE UnloadReleased BY <1>20 DEF UnloadReleased
<1>21. CASE UnloadCloses BY <1>21 DEF UnloadCloses
<1>22. CASE UnloadSaves BY <1>22 DEF UnloadSaves
<1>23. CASE UnloadEnds BY <1>23 DEF UnloadEnds
<1>24. CASE UnloadReleaseFails BY <1>24 DEF UnloadReleaseFails, Failing, Spares
<1>25. CASE ElKilled BY <1>25 DEF ElKilled, Failing
<1>26. CASE UNCHANGED elVars BY <1>26 DEF elVars
<1> QED
  BY <1>1, <1>2, <1>3, <1>4, <1>5, <1>6, <1>7, <1>8, <1>9, <1>10, <1>11, <1>12, <1>13,
     <1>14, <1>15, <1>16, <1>17, <1>18, <1>19, <1>20, <1>21, <1>22, <1>23, <1>24, <1>25, <1>26
  DEF ElNext, SetupSteps, UnloadSteps

(* The entry implements the durable record service: across set-up, unload, failures and kills a start *)
(* continues from what is stored, an orderly stop leaves nothing unsaved, and only a kill loses records *)
(* (the stores of async_setup_entry and async_unload_entry).                                          *)
THEOREM RecordsCorrect == ElSpec => RecordsDurable
<1>1. ElInit => Store!DurableInit
  BY DEF ElInit, Store!DurableInit, Stages
<1>2. ElInv /\ [ElNext]_elVars =>
        [Store!Start \/ Store!Record \/ Store!Save \/ Store!StopStored \/ Store!Lose]_
             <<elStage \in Stages \ {"down", "opening", "loading"}, elMem, elDisk>>
  BY ElStepDurable
<1> QED BY <1>1, <1>2, ElInductive, PTL DEF ElSpec, RecordsDurable, Store!DurableSpec

-----------------------------------------------------------------------------
(* EntryUpgrade.  What an entity of a registry is made of.                      *)
EuNames == {"host", "host_port", "b", "cell", "c", "double", "single", "stable", "own", "former", "k",
            "k_2", "merged", "dp", "rt", "x", "knob", "n", "new"}
EuEntities == [uid: EuNames, eid: EuNames, bound: BOOLEAN, off: {"no", "user", "integration"}]

(* What the user had in a family is still to be seen in an entity. *)
Faithful(f, e, was) ==
    /\ e.eid \in {w.eid : w \in was} \cup (IF f = "home" THEN {"single"} ELSE {})
    /\ f = "system" => e.eid = "k" /\ e.bound
    /\ f = "control" /\ (\E w \in was : w.uid = euMode) => e.eid = euMode
    /\ (\E w \in was : w.off = "user") => e.off = "user"
(* The one entity of a family after the upgrade *)
Arrived(f, e, was) ==
    /\ e \in EuEntities /\ e.off # "integration"
    /\ e.uid = Wanted16[f]
    /\ was # {} => Faithful(f, e, was)
(* A family the upgrade has been through: gone, not there yet, or that one entity *)
FamilyDone(f, es, was) ==
    IF f = "removed" THEN es = {}
    ELSE \/ f = "control" /\ was = {} /\ es = {}
         \/ \E e \in es : es = {e} /\ Arrived(f, e, was)
AllDone(reg) == \A f \in Families : FamilyDone(f, reg[f], euWas[f])
(* A registry on its way: each family as it was, or done *)
UnderWay(reg) ==
    /\ DOMAIN reg = Families
    /\ \A f \in Families : reg[f] = euWas[f] \/ FamilyDone(f, reg[f], euWas[f])
EuKept ==
    /\ UnderWay(euReg) /\ UnderWay(euDisk.reg)
    /\ euMode \in {"dp", "rt", "slot"}
    /\ euDisk = [ver |-> euDisk.ver, reg |-> euDisk.reg]
    /\ euDisk.ver \in EuVersions \cup {Newest}
    /\ euVer # Newest => euWas \in Registries(euVer)
    /\ euDisk.ver # Newest => euWas \in Registries(euDisk.ver)
    /\ euDisk.ver = Newest => euVer = Newest /\ AllDone(euDisk.reg)
    /\ euPhase # "start" => euVer = Newest
    /\ euVer = Newest => AllDone(euReg)
    /\ euPhase = "up" => \A f \in Families \ {"removed"} : euReg[f] # {}
(* The takeover of an interrupted run *)
TakenOver ==
    /\ RecordOutlivesRun /\ RaisedStaysManual
    /\ euStep = "taken" => euManual
    /\ euStep = "restored" => ~euRaised
EuInv == EuTypeOK /\ EuKept /\ TakenOver

-----------------------------------------------------------------------------
LEMMA EuNumbers == EuVersions \subseteq 1..15 /\ EuMaxUpsets \in Nat /\ Newest = 16 /\ Newest \notin EuVersions
BY EuAssumption DEF Newest

LEMMA FirstOfIs == \A S : S # {} => FirstOf(S) \in S
BY Zenon DEF FirstOf


(* Each step touches its own family. *)
LEMMA UpgradedIs ==
    ASSUME NEW r, DOMAIN r = Families, NEW v
    PROVE /\ DOMAIN Upgraded(r, v) = Families
          /\ Upgraded(r, v)["battery"] = IF v < 2 THEN Ported(r["battery"]) ELSE r["battery"]
          /\ Upgraded(r, v)["cell"] = IF v < 5 THEN Enabled(r["cell"]) ELSE r["cell"]
          /\ Upgraded(r, v)["home"] = IF v < 7 THEN HomeFixed(r["home"]) ELSE r["home"]
          /\ Upgraded(r, v)["system"] = IF v < 9 THEN Rekeyed(r["system"]) ELSE r["system"]
          /\ Upgraded(r, v)["control"] = IF v < 13 THEN Merged(r["control"]) ELSE r["control"]
          /\ Upgraded(r, v)["removed"] = IF v < 16 THEN Dropped(r["removed"]) ELSE r["removed"]
<1>1. DOMAIN Upgraded(r, v) = Families BY DEF Upgraded
<1>2. Upgraded(r, v)["battery"] = IF v < 2 THEN Ported(r["battery"]) ELSE r["battery"]
  BY DEF Upgraded, Families
<1>3. Upgraded(r, v)["cell"] = IF v < 5 THEN Enabled(r["cell"]) ELSE r["cell"]
  BY DEF Upgraded, Families
<1>4. Upgraded(r, v)["home"] = IF v < 7 THEN HomeFixed(r["home"]) ELSE r["home"]
  BY DEF Upgraded, Families
<1>5. Upgraded(r, v)["system"] = IF v < 9 THEN Rekeyed(r["system"]) ELSE r["system"]
  BY DEF Upgraded, Families
<1>6. Upgraded(r, v)["control"] = IF v < 13 THEN Merged(r["control"]) ELSE r["control"]
  BY DEF Upgraded, Families
<1>7. Upgraded(r, v)["removed"] = IF v < 16 THEN Dropped(r["removed"]) ELSE r["removed"]
  BY DEF Upgraded, Families
<1> QED BY <1>1, <1>2, <1>3, <1>4, <1>5, <1>6, <1>7

LEMMA BatteryDone ==
    ASSUME NEW v \in 1..15, euWas \in Registries(v), NEW es,
           es = euWas["battery"] \/ FamilyDone("battery", es, euWas["battery"])
    PROVE FamilyDone("battery", IF v < 2 THEN Ported(es) ELSE es, euWas["battery"])
<1> DEFINE a == Live("host", "b")
           b == Live("host_port", "b")
<1>1. euWas["battery"] = {IF v < 2 THEN a ELSE b} BY DEF Registries
<1>2. a \in EuEntities /\ b \in EuEntities /\ a.uid = "host" /\ b.uid = "host_port"
      /\ a.eid = "b" /\ b.eid = "b" /\ a.off = "no" /\ b.off = "no"
  BY DEF Live, Ent, EuEntities, EuNames
<1> HIDE DEF a, b
<1>3. [a EXCEPT !.uid = "host_port"] \in EuEntities /\ [a EXCEPT !.uid = "host_port"].uid = "host_port"
      /\ [a EXCEPT !.uid = "host_port"].eid = "b" /\ [a EXCEPT !.uid = "host_port"].off = "no"
  BY <1>2 DEF EuEntities, EuNames
<1>4. CASE FamilyDone("battery", es, euWas["battery"])
  <2>1. PICK e \in es : es = {e} /\ Arrived("battery", e, euWas["battery"]) BY <1>4 DEF FamilyDone
  <2>2. e.uid = "host_port" /\ e \in EuEntities BY <2>1 DEF Arrived, Wanted16
  <2>3. [e EXCEPT !.uid = IF e.uid = "host" THEN "host_port" ELSE e.uid] = e BY <2>2 DEF EuEntities
  <2>4. Ported(es) = {e} BY <2>1, <2>3 DEF Ported
  <2> QED BY <1>4, <2>1, <2>4
<1>5. CASE es = euWas["battery"] /\ v >= 2
  <2>1. es = {b} BY <1>1, <1>5
  <2>2. Arrived("battery", b, {b}) BY <1>2 DEF Arrived, Faithful, Wanted16
  <2> QED BY <1>1, <1>5, <2>1, <2>2 DEF FamilyDone
<1>6. CASE es = euWas["battery"] /\ v < 2
  <2> DEFINE c == [a EXCEPT !.uid = "host_port"]
  <2>1. es = {a} BY <1>1, <1>6
  <2>2. Ported(es) = {c} BY <1>2, <2>1 DEF Ported
  <2> HIDE DEF c
  <2>3. Arrived("battery", c, {a}) BY <1>2, <1>3 DEF Arrived, Faithful, Wanted16, c
  <2> QED BY <1>1, <1>6, <2>1, <2>2, <2>3 DEF FamilyDone
<1> QED BY <1>4, <1>5, <1>6

LEMMA CellDone ==
    ASSUME NEW v \in 1..15, euWas \in Registries(v), NEW es,
           es = euWas["cell"] \/ FamilyDone("cell", es, euWas["cell"])
    PROVE FamilyDone("cell", IF v < 5 THEN Enabled(es) ELSE es, euWas["cell"])
<1>1. PICK o \in {"no", "user", "integration"} :
         euWas["cell"] = {Ent("cell", "c", TRUE, o)} /\ (v >= 5 => o # "integration")
  <2>1. CASE v < 5
    <3>1. \E o \in {"integration", "user"} : euWas["cell"] = {Ent("cell", "c", TRUE, o)}
      BY <2>1 DEF Registries
    <3>2. ~(v >= 5) BY <2>1
    <3> QED BY <3>1, <3>2, Zenon
  <2>2. CASE v >= 5
    <3>1. \E o \in {"no", "user"} : euWas["cell"] = {Ent("cell", "c", TRUE, o)}
      <4>1. ~(v < 5) BY <2>2
      <4>2. euWas.cell \in {{Ent("cell", "c", TRUE, o)} : o \in {"no", "user"}}
        BY <4>1, Zenon DEF Registries
      <4> QED BY <4>2, Zenon
    <3>2. "no" # "integration" /\ "user" # "integration" OBVIOUS
    <3> QED BY <3>1, <3>2, Zenon
  <2>3. v < 5 \/ v >= 5 OBVIOUS
  <2> QED BY <2>1, <2>2, <2>3, Zenon
<1> DEFINE a == Ent("cell", "c", TRUE, o)
           c == [a EXCEPT !.off = "no"]
<1>2. a \in EuEntities /\ a.uid = "cell" /\ a.eid = "c" /\ a.off = o BY <1>1 DEF Ent, EuEntities, EuNames
<1> HIDE DEF a
<1>3. c \in EuEntities /\ c.uid = "cell" /\ c.eid = "c" /\ c.off = "no" BY <1>2 DEF EuEntities
<1>4. CASE FamilyDone("cell", es, euWas["cell"])
  <2>1. PICK e \in es : es = {e} /\ Arrived("cell", e, euWas["cell"]) BY <1>4 DEF FamilyDone
  <2>2. e.off # "integration" /\ e \in EuEntities BY <2>1 DEF Arrived
  <2>3. [e EXCEPT !.off = IF e.off = "integration" THEN "no" ELSE e.off] = e BY <2>2 DEF EuEntities
  <2>4. Enabled(es) = {e} BY <2>1, <2>3 DEF Enabled
  <2> QED BY <1>4, <2>1, <2>4
<1>5. CASE es = euWas["cell"] /\ o # "integration"
  <2>1. es = {a} BY <1>1, <1>5 DEF a
  <2>2. Arrived("cell", a, {a}) BY <1>2, <1>5 DEF Arrived, Faithful, Wanted16
  <2>3. [a EXCEPT !.off = IF a.off = "integration" THEN "no" ELSE a.off] = a BY <1>2, <1>5 DEF EuEntities
  <2>4. Enabled(es) = {a} BY <2>1, <2>3 DEF Enabled
  <2> QED BY <1>5, <2>1, <2>2, <2>4 DEF FamilyDone
<1>6. CASE es = euWas["cell"] /\ o = "integration"
  <2>1. es = {a} /\ v < 5 BY <1>1, <1>6 DEF a
  <2>2. Enabled(es) = {c} BY <1>2, <1>6, <2>1 DEF Enabled
  <2> HIDE DEF c
  <2>3. Arrived("cell", c, {a}) BY <1>2, <1>3, <1>6 DEF Arrived, Faithful, Wanted16
  <2> QED BY <1>6, <2>1, <2>2, <2>3 DEF FamilyDone
<1> QED BY <1>4, <1>5, <1>6

LEMMA RemovedDone ==
    ASSUME NEW v \in 1..15, euWas \in Registries(v), NEW es,
           es = euWas["removed"] \/ FamilyDone("removed", es, euWas["removed"])
    PROVE FamilyDone("removed", Dropped(es), euWas["removed"])
<1>1. euWas["removed"] = {Live("knob", "n")} BY DEF Registries
<1>2. Live("knob", "n").uid = "knob" BY DEF Live, Ent
<1>3. Dropped(es) = {} BY <1>1, <1>2 DEF Dropped, FamilyDone
<1> QED BY <1>3 DEF FamilyDone

LEMMA HomeDone ==
    ASSUME NEW v \in 1..15, euWas \in Registries(v), NEW es,
           es = euWas["home"] \/ FamilyDone("home", es, euWas["home"])
    PROVE FamilyDone("home", IF v < 7 THEN HomeFixed(es) ELSE es, euWas["home"])
<1>1. CASE v >= 7
  <2> DEFINE a == Live("single", "single")
  <2>1. ~(v < 7) BY <1>1
  <2>2. euWas.home = {a} BY <2>1, Zenon DEF Registries
  <2>3. a \in EuEntities /\ a.uid = "single" /\ a.eid = "single" /\ a.off = "no"
    BY DEF Live, Ent, EuEntities, EuNames
  <2> HIDE DEF a
  <2>4. Arrived("home", a, {a}) BY <2>3 DEF Arrived, Faithful, Wanted16
  <2> QED BY <2>1, <2>2, <2>4 DEF FamilyDone
<1>2. CASE v < 7
  <2>1. PICK w \in EuEntities : euWas["home"] = {w} /\ w.off = "no"
    <3>1. euWas.home \in {{Live("double", "double")}, {Live("double", "single")}}
      BY <1>2 DEF Registries
    <3>2. /\ Live("double", "double") \in EuEntities /\ Live("double", "double").off = "no"
          /\ Live("double", "single") \in EuEntities /\ Live("double", "single").off = "no"
      BY DEF Live, Ent, EuEntities, EuNames
    <3> QED BY <3>1, <3>2
  <2>2. PICK e \in EuEntities : /\ es = {e} /\ e.off # "integration"
                                /\ e.eid \in {w.eid, "single"}
    BY <2>1 DEF FamilyDone, Arrived, Faithful
  <2> DEFINE free == \A x \in es : x.eid # "single"
             g == [e EXCEPT !.uid = "single", !.eid = IF @ = "double" /\ free THEN "single" ELSE @]
  <2>3. HomeFixed(es) = {g} BY <2>2 DEF HomeFixed
  <2>4. g \in EuEntities /\ g.uid = "single" /\ g.eid \in {e.eid, "single"} /\ g.off = e.off
    BY ZenonT(40) DEF EuEntities, EuNames
  <2> HIDE DEF g
  <2>5. Arrived("home", g, {w})
    BY <2>1, <2>2, <2>4 DEF Arrived, Faithful, Wanted16
  <2> QED BY <1>2, <2>1, <2>3, <2>5 DEF FamilyDone
<1> QED BY <1>1, <1>2

(* The entities of the system, and the one that takes the stable id. *)
LEMMA SystemDone ==
    ASSUME NEW v \in 1..15, euWas \in Registries(v), NEW es,
           es = euWas["system"] \/ FamilyDone("system", es, euWas["system"])
    PROVE FamilyDone("system", IF v < 9 THEN Rekeyed(es) ELSE es, euWas["system"])
<1> DEFINE s == Live("stable", "k")
           o == Live("own", "k")
           p == Live("former", "k")
           q == Ent("former", "k", FALSE, "no")
           t == Live("own", "k_2")
<1>1. /\ s.uid = "stable" /\ s.eid = "k" /\ s.off = "no" /\ o.uid = "own" /\ o.eid = "k" /\ o.off = "no"
      /\ p.uid = "former" /\ p.eid = "k" /\ p.off = "no" /\ q.uid = "former" /\ q.eid = "k" /\ q.off = "no"
      /\ t.uid = "own" /\ t.eid = "k_2" /\ t.off = "no"
  BY DEF Live, Ent
<1>2. s.bound /\ o.bound /\ p.bound /\ ~q.bound /\ t.bound BY DEF Live, Ent
<1>3. s \in EuEntities /\ o \in EuEntities /\ p \in EuEntities /\ q \in EuEntities /\ t \in EuEntities
  BY DEF Live, Ent, EuEntities, EuNames
<1>4. /\ v < 9 => euWas["system"] \in {{o}, {p}, {q, t}}
      /\ v >= 9 => euWas["system"] = {s}
  <2>1. CASE v < 9
    <3>1. ~(v >= 9) BY <2>1
    <3>2. euWas.system \in {{o}, {p}, {q, t}} BY <3>1, Zenon DEF Registries
    <3> QED BY <3>1, <3>2
  <2>2. CASE v >= 9
    <3>1. euWas.system \in {{s}} BY <2>2, Zenon DEF Registries
    <3>2. euWas.system = {s} BY <3>1, Zenon
    <3>3. ~(v < 9) BY <2>2
    <3> QED BY <3>2, <3>3, Zenon
  <2>3. v < 9 \/ v >= 9 OBVIOUS
  <2> QED BY <2>1, <2>2, <2>3, Zenon
<1> HIDE DEF s, o, p, q, t
<1>5. CASE FamilyDone("system", es, euWas["system"])
  <2>1. PICK e \in es : es = {e} /\ Arrived("system", e, euWas["system"]) BY <1>5 DEF FamilyDone
  <2>2. e.uid = "stable" BY <2>1 DEF Arrived, Wanted16
  <2>3. {x \in es : x.uid \in {"own", "former"}} = {} BY <2>1, <2>2
  <2>4. Rekeyed(es) = es BY <2>3, Zenon DEF Rekeyed
  <2> QED BY <1>5, <2>4
<1>6. CASE es = euWas["system"] /\ v >= 9
  <2>1. es = {s} BY <1>4, <1>6
  <2>2. Arrived("system", s, {s}) BY <1>1, <1>2, <1>3 DEF Arrived, Faithful, Wanted16
  <2> QED BY <1>6, <2>1, <2>2 DEF FamilyDone
<1>7. ASSUME NEW k \in EuEntities, NEW was,
             was # {}, \A x \in was : x.off = "no" /\ x.uid \in {"own", "former"},
             k \in was, k.bound, Keeper(was) = k, \E x \in was : x.eid = "k",
             was \ {k} = {} => k.eid = "k",
             was \ {k} # {} => \A x \in was \ {k} : x.eid = "k"
      PROVE FamilyDone("system", Rekeyed(was), was)
  <2> DEFINE g == [k EXCEPT !.uid = "stable", !.eid = "k"]
  <2>1. g \in EuEntities /\ g.uid = "stable" /\ g.eid = "k" /\ g.off = k.off
    BY DEF EuEntities, EuNames
  <2>2. g.bound <=> k.bound BY DEF EuEntities
  <2>3. {x \in was : x.uid \in {"own", "former"}} = was /\ {x \in was : x.uid = "stable"} = {}
    BY <1>7
  <2>4. Rekeyed(was)
          = {} \cup {[k EXCEPT !.uid = "stable",
                               !.eid = IF was \ {k} = {} THEN @ ELSE FirstOf(was \ {k}).eid]}
    BY <1>7, <2>3 DEF Rekeyed
  <2>5. (IF was \ {k} = {} THEN k.eid ELSE FirstOf(was \ {k}).eid) = "k" BY <1>7, FirstOfIs
  <2>6. Rekeyed(was) = {g} BY <2>4, <2>5
  <2> HIDE DEF g
  <2>7. Arrived("system", g, was)
    <3>1. g.off = "no" /\ g.bound BY <1>7, <2>1, <2>2
    <3>2. g.eid \in {x.eid : x \in was} BY <1>7, <2>1
    <3>3. ~ \E x \in was : x.off = "user" BY <1>7
    <3>4. Faithful("system", g, was) BY <2>1, <3>1, <3>2, <3>3 DEF Faithful
    <3> QED BY <2>1, <3>1, <3>4 DEF Arrived, Wanted16
  <2> QED BY <2>6, <2>7 DEF FamilyDone
<1>8. CASE es = euWas["system"] /\ v < 9
  <2>1. CASE es = {o}
    <3>1. Keeper(es) = o
      <4>1. {x \in es : x.bound} \cap {x \in es : x.uid = "own"} = {o} BY <1>1, <1>2, <2>1
      <4>2. FirstOf({o}) = o BY FirstOfIs
      <4>3. {o} # {} OBVIOUS
      <4> QED BY <4>1, <4>2, <4>3, Zenon DEF Keeper
    <3> QED BY <1>1, <1>2, <1>3, <1>7, <1>8, <2>1, <3>1
  <2>2. CASE es = {p}
    <3>1. Keeper(es) = p
      <4>1. {x \in es : x.bound} = {p} /\ {p} \cap {x \in es : x.uid = "own"} = {} BY <1>1, <1>2, <2>2
      <4>2. FirstOf({p}) = p BY FirstOfIs
      <4>3. {p} # {} OBVIOUS
      <4> QED BY <4>1, <4>2, <4>3, Zenon DEF Keeper
    <3> QED BY <1>1, <1>2, <1>3, <1>7, <1>8, <2>2, <3>1
  <2>3. CASE es = {q, t}
    <3>1. Keeper(es) = t
      <4>1. {x \in es : x.bound} \cap {x \in es : x.uid = "own"} = {t} BY <1>1, <1>2, <2>3
      <4>2. FirstOf({t}) = t BY FirstOfIs
      <4>3. {t} # {} OBVIOUS
      <4> QED BY <4>1, <4>2, <4>3, Zenon DEF Keeper
    <3>2. es \ {t} = {q} BY <1>1, <2>3
    <3> QED BY <1>1, <1>2, <1>3, <1>7, <1>8, <2>3, <3>1, <3>2
  <2> QED BY <1>4, <1>8, <2>1, <2>2, <2>3
<1> QED BY <1>5, <1>6, <1>8

(* The switch of the active mode is kept, if there was one. *)
LEMMA ControlDone ==
    ASSUME NEW v \in 1..15, euWas \in Registries(v), euMode \in {"dp", "rt", "slot"}, NEW es,
           es = euWas["control"] \/ FamilyDone("control", es, euWas["control"])
    PROVE FamilyDone("control", IF v < 13 THEN Merged(es) ELSE es, euWas["control"])
<1> DEFINE m == Live("merged", "x")
           d == Live("dp", "dp")
           r == Live("rt", "rt")
<1>1. /\ m.uid = "merged" /\ m.eid = "x" /\ m.off = "no" /\ d.uid = "dp" /\ d.eid = "dp" /\ d.off = "no"
      /\ r.uid = "rt" /\ r.eid = "rt" /\ r.off = "no"
  BY DEF Live, Ent
<1>2. m \in EuEntities /\ d \in EuEntities /\ r \in EuEntities BY DEF Live, Ent, EuEntities, EuNames
<1>3. /\ v < 13 => euWas["control"] \in {{}, {d}, {d, r}}
      /\ v >= 13 => euWas["control"] = {m}
  <2>1. CASE v < 13
    <3>1. ~(v >= 13) BY <2>1
    <3>2. euWas.control \in {{}, {d}, {d, r}} BY <3>1, Zenon DEF Registries
    <3> QED BY <3>1, <3>2
  <2>2. CASE v >= 13
    <3>1. euWas.control \in {{m}} BY <2>2, Zenon DEF Registries
    <3>2. euWas.control = {m} BY <3>1, Zenon
    <3>3. ~(v < 13) BY <2>2
    <3> QED BY <3>2, <3>3, Zenon
  <2>3. v < 13 \/ v >= 13 OBVIOUS
  <2> QED BY <2>1, <2>2, <2>3, Zenon
<1> HIDE DEF m, d, r
<1>4. CASE FamilyDone("control", es, euWas["control"])
  <2>1. \A x \in es : x.uid = "merged" BY <1>4 DEF FamilyDone, Arrived, Wanted16
  <2>2. {x \in es : x.uid \in {"dp", "rt"}} = {} BY <2>1
  <2>3. Merged(es) = es BY <2>2, Zenon DEF Merged
  <2> QED BY <1>4, <2>3
<1>5. CASE es = euWas["control"] /\ v >= 13
  <2>1. es = {m} BY <1>3, <1>5
  <2>2. Arrived("control", m, {m})
    <3>1. euMode # "merged" OBVIOUS
    <3> QED BY <1>1, <1>2, <3>1 DEF Arrived, Faithful, Wanted16
  <2> QED BY <1>5, <2>1, <2>2 DEF FamilyDone
<1>6. CASE es = euWas["control"] /\ v < 13
  <2>1. CASE es = {}
    <3>1. {x \in es : x.uid \in {"dp", "rt"}} = {} BY <2>1
    <3>2. Merged(es) = es BY <3>1, Zenon DEF Merged
    <3> QED BY <1>6, <2>1, <3>2 DEF FamilyDone
  <2>2. CASE es # {}
    <3>1. es # {} /\ \A x \in es : x \in {d, r} BY <1>3, <1>6, <2>2
    <3>2. {x \in es : x.uid \in {"dp", "rt"}} = es /\ {x \in es : x.uid = "merged"} = {}
      BY <1>1, <3>1
    <3> DEFINE right == {x \in es : x.uid = euMode}
               keep == FirstOf(IF right # {} THEN right ELSE es)
               g == [keep EXCEPT !.uid = "merged"]
    <3>3. keep \in es /\ (right # {} => keep.uid = euMode) BY <3>1, FirstOfIs
    <3>4. Merged(es) = {} \cup {[keep EXCEPT !.uid = IF {} = {} THEN "merged" ELSE @]}
      BY <3>1, <3>2 DEF Merged
    <3>5. Merged(es) = {g} BY <3>4
    <3>6. (\E w \in es : w.uid = euMode) => keep.uid = euMode BY <3>3
    <3> HIDE DEF keep
    <3>7. keep \in EuEntities /\ keep.eid = keep.uid /\ keep.off = "no" BY <1>1, <1>2, <3>1, <3>3
    <3>8. g \in EuEntities /\ g.uid = "merged" /\ g.eid = keep.eid /\ g.off = keep.off
      BY <3>7 DEF EuEntities, EuNames
    <3> HIDE DEF g
    <3>9. ~ \E w \in es : w.off = "user" BY <1>1, <3>1
    <3>10. g.eid \in {w.eid : w \in es} BY <3>3, <3>8
    <3>11. Faithful("control", g, es) BY <3>6, <3>7, <3>8, <3>9, <3>10 DEF Faithful
    <3>12. Arrived("control", g, es) BY <3>7, <3>8, <3>11 DEF Arrived, Wanted16
    <3> QED BY <1>6, <3>5, <3>12 DEF FamilyDone
  <2> QED BY <2>1, <2>2
<1> QED BY <1>4, <1>5, <1>6

(* The whole upgrade, from any point it was cut off at. *)
LEMMA UpgradeDone ==
    ASSUME EuKept, EuTypeOK, RunMigration
    PROVE DOMAIN euReg' = Families /\ \A f \in Families : FamilyDone(f, euReg'[f], euWas[f])
<1>1. /\ UnderWay(euReg) /\ euMode \in {"dp", "rt", "slot"} /\ euReg' = Upgraded(euReg, euVer) /\ euVer \in 1..15 \cup {16}
      /\ euVer # 16 => euVer \in 1..15 /\ euWas \in Registries(euVer)
  BY EuNumbers DEF EuKept, EuTypeOK, RunMigration
<1>2. DOMAIN euReg = Families /\ \A f \in Families : euReg[f] = euWas[f] \/ FamilyDone(f, euReg[f], euWas[f])
  BY <1>1 DEF UnderWay
<1>3. DOMAIN euReg' = Families BY <1>1, <1>2, UpgradedIs
<1>4. CASE euVer = 16
  <2>1. AllDone(euReg) BY <1>4, EuNumbers DEF EuKept
  <2>2. \A f \in Families : euReg'[f] = euReg[f]
    <3>1. /\ euReg'["battery"] = euReg["battery"] /\ euReg'["cell"] = euReg["cell"]
          /\ euReg'["home"] = euReg["home"] /\ euReg'["system"] = euReg["system"]
          /\ euReg'["control"] = euReg["control"] /\ euReg'["removed"] = euReg["removed"]
      BY <1>1, <1>2, <1>4, UpgradedIs
    <3> QED BY <3>1 DEF Families
  <2> QED BY <1>3, <2>1, <2>2 DEF AllDone
<1>5. CASE euVer # 16
  <2> DEFINE v == euVer
  <2>1. v \in 1..15 /\ euWas \in Registries(v) BY <1>1, <1>5
  <2>2. FamilyDone("battery", euReg'["battery"], euWas["battery"])
    BY <1>1, <1>2, <2>1, UpgradedIs, BatteryDone DEF Families
  <2>3. FamilyDone("cell", euReg'["cell"], euWas["cell"])
    BY <1>1, <1>2, <2>1, UpgradedIs, CellDone DEF Families
  <2>4. FamilyDone("home", euReg'["home"], euWas["home"])
    BY <1>1, <1>2, <2>1, UpgradedIs, HomeDone DEF Families
  <2>5. FamilyDone("system", euReg'["system"], euWas["system"])
    BY <1>1, <1>2, <2>1, UpgradedIs, SystemDone DEF Families
  <2>6. FamilyDone("control", euReg'["control"], euWas["control"])
    BY <1>1, <1>2, <2>1, UpgradedIs, ControlDone DEF Families
  <2>7. FamilyDone("removed", euReg'["removed"], euWas["removed"])
    <3>1. v < 16 BY <2>1
    <3> QED BY <1>1, <1>2, <2>1, <3>1, UpgradedIs, RemovedDone DEF Families
  <2> QED BY <1>3, <2>2, <2>3, <2>4, <2>5, <2>6, <2>7 DEF Families
<1> QED BY <1>4, <1>5

LEMMA EuInitInv == EuInit => EuInv
<1> SUFFICES ASSUME EuInit PROVE EuInv OBVIOUS
<1>1. euVer \in 1..15 /\ euVer # 16 /\ euVer # Newest /\ euVer \in EuVersions BY EuNumbers DEF EuInit
<1>2. EuTypeOK
  <2>1. euManual \in BOOLEAN /\ euTook \in BOOLEAN BY DEF EuInit
  <2>2. euRaised \in BOOLEAN BY Zenon DEF EuInit
  <2> QED BY <1>1, <2>1, <2>2 DEF EuTypeOK, EuInit
<1>3. DOMAIN euReg = Families BY DEF EuInit, Registries, Families
<1>4. EuKept
  <2>1. euDisk.ver = euVer /\ euDisk.reg = euReg /\ euWas = euReg /\ euReg \in Registries(euVer)
        /\ euDisk = [ver |-> euVer, reg |-> euReg] /\ euPhase = "start" /\ euMode \in {"dp", "rt", "slot"}
    BY DEF EuInit
  <2>2. UnderWay(euReg) BY <1>3, <2>1 DEF UnderWay
  <2> QED BY <1>1, <2>1, <2>2 DEF EuKept
<1>5. TakenOver
  <2>1. euRaised => euRec = "running" BY Zenon DEF EuInit
  <2>2. ~euBegun /\ euStep = "idle" BY DEF EuInit
  <2> QED BY <2>1, <2>2 DEF TakenOver, RecordOutlivesRun, RaisedStaysManual
<1> QED BY <1>2, <1>4, <1>5 DEF EuInv

LEMMA EuStepType == EuInv /\ [EuNext]_euVars => EuTypeOK'
<1> SUFFICES ASSUME EuInv, [EuNext]_euVars PROVE EuTypeOK' OBVIOUS
<1>1. euVer' \in EuVersions \cup {Newest} /\ euPhase' \in {"start", "migrated", "up"}
  BY DEF EuInv, EuTypeOK, EuKept, EuNext, euVars, others, handoff, RunMigration, HandoffNotNeeded, HandoffDeferred,
         Acquire, RestoreCutoff, Release, HandoffFails, Platforms, SaveRegistry, SaveEntry, Restart
<1>2. euRec' \in {"none", "stale", "running"} /\ euStep' \in {"idle", "taken", "restored", "over"}
  BY DEF EuInv, EuTypeOK, EuNext, euVars, others, handoff, RunMigration, HandoffNotNeeded, HandoffDeferred,
         Acquire, RestoreCutoff, Release, HandoffFails, Platforms, SaveRegistry, SaveEntry, Restart
<1>3. euManual' \in BOOLEAN /\ euRaised' \in BOOLEAN /\ euTook' \in BOOLEAN
  BY Zenon DEF EuInv, EuTypeOK, EuNext, euVars, others, handoff, RunMigration, HandoffNotNeeded, HandoffDeferred,
         Acquire, RestoreCutoff, Release, HandoffFails, Platforms, SaveRegistry, SaveEntry, Restart
<1> QED BY <1>1, <1>2, <1>3 DEF EuTypeOK

LEMMA EuStepTaken == EuInv /\ [EuNext]_euVars => TakenOver'
<1> SUFFICES ASSUME EuInv, [EuNext]_euVars PROVE TakenOver' OBVIOUS
<1>1. (euRaised => euRec = "running") /\ (euBegun /\ euRaised => euManual)
      /\ (euStep = "taken" => euManual) /\ (euStep = "restored" => ~euRaised)
  BY DEF EuInv, TakenOver, RecordOutlivesRun, RaisedStaysManual
<1> USE <1>1 DEF others, handoff, TakenOver, RecordOutlivesRun, RaisedStaysManual
<1>2. CASE RunMigration BY <1>2 DEF RunMigration
<1>3. CASE HandoffNotNeeded BY <1>3 DEF HandoffNotNeeded
<1>4. CASE HandoffDeferred BY <1>4 DEF HandoffDeferred
<1>5. CASE Acquire BY <1>5 DEF Acquire
<1>6. CASE RestoreCutoff BY <1>6 DEF RestoreCutoff
<1>7. CASE Release BY <1>7 DEF Release
<1>8. CASE HandoffFails BY <1>8 DEF HandoffFails
<1>9. CASE Platforms BY <1>9 DEF Platforms
<1>10. CASE SaveRegistry BY <1>10 DEF SaveRegistry
<1>11. CASE SaveEntry BY <1>11 DEF SaveEntry
<1>12. CASE Restart BY <1>12 DEF Restart
<1>13. CASE UNCHANGED euVars BY <1>13 DEF euVars
<1> QED BY <1>2, <1>3, <1>4, <1>5, <1>6, <1>7, <1>8, <1>9, <1>10, <1>11, <1>12, <1>13 DEF EuNext

(* What the platforms add is where nothing was before. *)
LEMMA PlatformsDone ==
    ASSUME EuKept, Platforms
    PROVE /\ DOMAIN euReg' = Families
          /\ \A f \in Families : FamilyDone(f, euReg'[f], euWas[f]) /\ (f # "removed" => euReg'[f] # {})
<1>1. AllDone(euReg) BY DEF EuKept, Platforms
<1>2. euReg' = [f \in Families |->
                   IF f = "removed" \/ \E e \in euReg[f] : e.uid = Wanted16[f] THEN euReg[f]
                   ELSE euReg[f] \cup {Live(Wanted16[f], "new")}]
  BY DEF Platforms
<1>3. ASSUME NEW f \in Families
      PROVE FamilyDone(f, euReg'[f], euWas[f]) /\ (f # "removed" => euReg'[f] # {})
  <2>1. FamilyDone(f, euReg[f], euWas[f]) BY <1>1 DEF AllDone
  <2>2. CASE f = "removed" \/ \E e \in euReg[f] : e.uid = Wanted16[f]
    <3>1. euReg'[f] = euReg[f] BY <1>2, <2>2
    <3> QED BY <2>1, <2>2, <3>1
  <2>3. CASE ~(f = "removed" \/ \E e \in euReg[f] : e.uid = Wanted16[f])
    <3>1. f = "control" /\ euWas[f] = {} /\ euReg[f] = {} BY <2>1, <2>3 DEF FamilyDone, Arrived
    <3> DEFINE n == Live("merged", "new")
    <3>2. euReg'[f] = {n} BY <1>2, <2>3, <3>1 DEF Wanted16
    <3>3. n \in EuEntities /\ n.uid = "merged" /\ n.off = "no" BY DEF Live, Ent, EuEntities, EuNames
    <3> HIDE DEF n
    <3>4. Arrived("control", n, {}) BY <3>3 DEF Arrived, Wanted16
    <3> QED BY <3>1, <3>2, <3>4 DEF FamilyDone
  <2> QED BY <2>2, <2>3
<1> QED BY <1>2, <1>3

LEMMA EuStepKept == EuInv /\ [EuNext]_euVars => EuKept'
<1> SUFFICES ASSUME EuInv, [EuNext]_euVars PROVE EuKept' OBVIOUS
<1>1. EuKept /\ EuTypeOK BY DEF EuInv
<1>2. CASE RunMigration
  <2>1. DOMAIN euReg' = Families /\ \A f \in Families : FamilyDone(f, euReg'[f], euWas[f])
    BY <1>1, <1>2, UpgradeDone
  <2>2. euVer' = Newest /\ euDisk' = euDisk /\ euWas' = euWas /\ euMode' = euMode /\ euPhase' = "migrated"
    BY <1>2 DEF RunMigration
  <2>3. \A f, es, was : FamilyDone(f, es, was)' <=> FamilyDone(f, es, was)
    BY <2>2 DEF FamilyDone, Arrived, Faithful
  <2> QED BY <1>1, <2>1, <2>2, <2>3 DEF EuKept, UnderWay, AllDone
<1>3. CASE Platforms
  <2>1. DOMAIN euReg' = Families
        /\ \A f \in Families : FamilyDone(f, euReg'[f], euWas[f]) /\ (f # "removed" => euReg'[f] # {})
    BY <1>1, <1>3, PlatformsDone
  <2>2. euVer' = euVer /\ euDisk' = euDisk /\ euWas' = euWas /\ euMode' = euMode /\ euPhase' = "up"
        /\ euPhase = "migrated"
    BY <1>3 DEF Platforms
  <2> QED BY <1>1, <2>1, <2>2 DEF EuKept, UnderWay, AllDone, FamilyDone, Arrived, Faithful
<1>4. CASE SaveRegistry
  <2> DEFINE d == [euDisk EXCEPT !.reg = euReg]
  <2>1. d = [ver |-> euDisk.ver, reg |-> euReg] BY <1>1 DEF EuKept
  <2> HIDE DEF d
  <2>2. euDisk' = [ver |-> euDisk.ver, reg |-> euReg] /\ euReg' = euReg /\ euVer' = euVer /\ euWas' = euWas
        /\ euMode' = euMode /\ euPhase' = euPhase
    BY <1>4, <2>1, Zenon DEF SaveRegistry, d
  <2> QED BY <1>1, <2>2 DEF EuKept, UnderWay, AllDone, FamilyDone, Arrived, Faithful
<1>5. CASE SaveEntry
  <2> DEFINE d == [euDisk EXCEPT !.ver = euVer]
  <2>1. d = [ver |-> euVer, reg |-> euDisk.reg] BY <1>1 DEF EuKept
  <2> HIDE DEF d
  <2>2. euDisk' = [ver |-> euVer, reg |-> euDisk.reg] /\ euReg' = euReg /\ euVer' = euVer /\ euWas' = euWas
        /\ euMode' = euMode /\ euPhase' = euPhase /\ euDisk.reg = euReg
    BY <1>5, <2>1, Zenon DEF SaveEntry, d
  <2>3. euVer \in EuVersions \cup {Newest} BY <1>1 DEF EuTypeOK
  <2> QED BY <1>1, <2>2, <2>3 DEF EuKept, UnderWay, AllDone, FamilyDone, Arrived, Faithful
<1>6. CASE Restart
  <2>1. euVer' = euDisk.ver /\ euReg' = euDisk.reg /\ euDisk' = euDisk /\ euWas' = euWas /\ euMode' = euMode
        /\ euPhase' = "start"
    BY <1>6 DEF Restart
  <2> QED BY <1>1, <2>1 DEF EuKept, UnderWay, AllDone, FamilyDone, Arrived, Faithful
<1>7. CASE \/ HandoffNotNeeded \/ HandoffDeferred \/ Acquire \/ RestoreCutoff \/ Release \/ HandoffFails
           \/ UNCHANGED euVars
  <2>1. UNCHANGED <<others, euPhase>>
    BY <1>7 DEF euVars, others, HandoffNotNeeded, HandoffDeferred, Acquire, RestoreCutoff, Release, HandoffFails
  <2> QED BY <1>1, <2>1 DEF others, EuKept, UnderWay, AllDone, FamilyDone, Arrived, Faithful
<1> QED BY <1>2, <1>3, <1>4, <1>5, <1>6, <1>7 DEF EuNext

LEMMA UpIsWhole == EuInv => EntitiesSurvive
<1> SUFFICES ASSUME EuInv, euPhase = "up" PROVE EntitiesSurvive
  BY DEF EntitiesSurvive
<1>1. AllDone(euReg) /\ \A f \in Families \ {"removed"} : euReg[f] # {}
  BY DEF EuInv, EuKept
<1>2. euReg["removed"] = {} BY <1>1 DEF AllDone, FamilyDone, Families
<1>3. ASSUME NEW f \in Families \ {"removed"}
      PROVE /\ \E e \in euReg[f] : euReg[f] = {e} /\ e.uid = Wanted16[f]
            /\ euWas[f] # {} => \A e \in euReg[f] : Faithful(f, e, euWas[f])
  <2>1. PICK e \in euReg[f] : euReg[f] = {e} /\ Arrived(f, e, euWas[f])
    BY <1>1, <1>3 DEF AllDone, FamilyDone
  <2> QED BY <2>1 DEF Arrived
<1> QED BY <1>2, <1>3, Zenon DEF EntitiesSurvive, Faithful

(* However often and wherever the upgrade is cut off, every entity ends up once, *)
(* under the id its platform asks for, with its history and the user's choices, *)
(* and an interrupted weekly charge stays remembered and out of automatic         *)
(* control until its cutoff is restored; from every version                      *)
(* (__init__.py, async_migrate_entry, _async_migrate_legacy_active_balance).     *)
THEOREM UpgradeCorrect == EuSpec => []UpgradeSound
<1>1. EuInv /\ [EuNext]_euVars => EuInv'
  BY EuStepType, EuStepKept, EuStepTaken DEF EuInv
<1>2. EuInv => UpgradeSound BY UpIsWhole DEF EuInv, TakenOver, UpgradeSound
<1> QED BY EuInitInv, <1>1, <1>2, PTL DEF EuSpec

-----------------------------------------------------------------------------
(* ConfigFlow.  The dialogs, the leases and what they leave stored. *)
CfBats == [unit: CfUnits, host: CfHosts]
CfEntries == [bats: Seq(CfBats), slots: Seq(Slots), devs: 0..CfMaxDevs, mode: Modes]
CfIds == [CfHosts -> CfUnits \cup {Nobody, Blank}]
FlowFields == {"kind", "step", "n", "got", "brand", "cur", "slots", "pend", "devs", "copy", "at"}
LeaseFields == {"at", "unit", "host", "bats", "index"}
Predictive == {"predictive", "mode", "slotcfg", "dynamiccfg", "realtimecfg"}

(* A dialog, whatever it is about *)
FlowTyped(f) ==
    /\ DOMAIN f = FlowFields
    /\ f.kind \in {"none", "setup", "options", "reconfigure"} /\ f.step \in Steps
    /\ f.got \in Seq(CfBats) /\ f.slots \in Seq(Slots)
    /\ f.devs \in 0..CfMaxDevs /\ (f.step \notin Predictive => f.devs < CfMaxDevs)
    /\ f.step \in {"limits", "testing"} => f.cur \in CfUnits
    /\ f.step = "details" => f.pend \in Slots
LeaseTyped(l) ==
    /\ DOMAIN l = LeaseFields /\ l.at \in {"none", "told", "probing"}
    /\ l.bats \in Seq(CfBats)
    /\ l.at # "none" => l.unit \in CfUnits /\ l.host \in CfHosts
    /\ l.at = "probing" => \E i \in 1..Len(l.bats) : l.bats[i].unit = l.unit
CfTyped ==
    /\ cfMake \in CfMakes /\ cfNet \in [CfUnits -> CfHosts] /\ cfEntry \in CfEntries /\ cfIds \in CfIds
    /\ cfKnown \in [CfUnits -> CfHosts \cup {0}] /\ cfOpen \in [1..Len(cfEntry.bats) -> BOOLEAN]
    /\ cfTorn \in BOOLEAN /\ FlowTyped(cfFlow) /\ LeaseTyped(cfLease)
    /\ \A u, v \in CfUnits : u # v => cfNet[u] # cfNet[v]

(* No two slots contradict each other, those being entered included *)
SlotsAgree(slots) == \A i, j \in 1..Len(slots) : i # j => ~SlotsOverlap(slots[i], slots[j])
FlowAgrees(f) ==
    /\ SlotsAgree(f.slots)
    /\ f.step = "details" => \A i \in 1..Len(f.slots) : ~SlotsOverlap(f.pend, f.slots[i])

Distinct(bats) == \A i, j \in 1..Len(bats) : i # j => bats[i].unit # bats[j].unit
(* The address whose ids carry the i-th battery: a reconfigure migrates ahead of what is stored *)
IdsAt(f, bats, i) == IF f.kind = "reconfigure" /\ i <= Len(f.got) THEN f.got[i].host ELSE bats[i].host
Placed(f, bats, ids) == \A i \in 1..Len(bats) : ids[IdsAt(f, bats, i)] = bats[i].unit
Addressed(bats, known) == \A i \in 1..Len(bats) : bats[i].host = known[bats[i].unit]
(* What a dialog in hand has to do with the batteries stored *)
FlowSound(f, bats, net) ==
    /\ f.kind = "setup" => bats = <<>> /\ \A i \in 1..Len(f.got) : f.got[i].host = net[f.got[i].unit]
    /\ f.kind \in {"options", "reconfigure"} => bats # <<>>
    /\ Distinct(f.got)
    /\ f.step \in {"limits", "testing"} => \A i \in 1..Len(f.got) : f.got[i].unit # f.cur
    /\ f.kind = "options" /\ f.step = "assign" => f.got = bats
    /\ f.kind = "options" /\ f.step = "remove" => Len(bats) >= 2
    /\ f.kind = "reconfigure" => /\ Len(f.got) < Len(bats)
                                 /\ \A i \in 1..Len(f.got) : f.got[i].unit = bats[i].unit
(* A lease that probes has the list as it is stored, its battery at another address *)
LeaseSound(l, bats) ==
    l.at = "probing" => /\ l.bats = bats
                        /\ \A i \in 1..Len(bats) : bats[i].unit = l.unit => bats[i].host # l.host
EntrySound(bats, ids, known, l) ==
    /\ Distinct(bats) /\ Addressed(bats, known) /\ LeaseSound(l, bats)
    /\ bats = <<>> => l.at # "probing" /\ ids = [h \in CfHosts |-> Nobody]
CfSound ==
    /\ EntrySound(cfEntry.bats, cfIds, cfKnown, cfLease)
    /\ Placed(cfFlow, cfEntry.bats, cfIds)
    /\ FlowSound(cfFlow, cfEntry.bats, cfNet)

CfInv ==
    /\ CfTyped
    /\ SlotsAgree(cfEntry.slots) /\ FlowAgrees(cfFlow)
    /\ ~cfTorn => CfSound

-----------------------------------------------------------------------------
LEMMA CfNumbers ==
    /\ CfTimes \subseteq Nat /\ CfMaxDevs \in Nat \ {0} /\ Nobody \notin CfUnits /\ Blank \notin CfUnits
    /\ Nobody # Blank
BY CfAssumption DEF Nobody, Blank

LEMMA CfStarts == CfInit => CfInv
<1> SUFFICES ASSUME CfInit PROVE CfInv OBVIOUS
<1> DEFINE Apart(f) == \A u, v \in CfUnits : u # v => f[u] # f[v]
<1>1. cfNet \in [CfUnits -> CfHosts] /\ Apart(cfNet)
  <2>1. \E f \in [CfUnits -> CfHosts] : Apart(f) BY CfAssumption
  <2>2. cfNet = CHOOSE f \in [CfUnits -> CfHosts] : Apart(f) BY DEF CfInit
  <2> HIDE DEF Apart
  <2> QED BY <2>1, <2>2
<1>2. cfFlow = NoFlow /\ cfLease = NoLease /\ cfTorn = FALSE /\ cfOpen = <<>> BY DEF CfInit
<1>3. FlowTyped(cfFlow) BY <1>2, CfNumbers DEF FlowTyped, NoFlow, FlowFields, Steps, Predictive
<1>4. LeaseTyped(cfLease) BY <1>2 DEF LeaseTyped, NoLease, LeaseFields
<1>5. cfEntry \in CfEntries /\ cfEntry.bats = <<>> /\ cfEntry.slots = <<>>
  BY CfNumbers DEF CfInit, CfEntries, Modes
<1>6. cfIds \in CfIds /\ cfIds = [h \in CfHosts |-> Nobody] BY DEF CfInit, CfIds
<1>7. cfKnown \in [CfUnits -> CfHosts \cup {0}] /\ cfMake \in CfMakes BY DEF CfInit
<1>8. cfOpen \in [1..Len(cfEntry.bats) -> BOOLEAN] BY <1>2, <1>5
<1>9. CfTyped BY <1>1, <1>2, <1>3, <1>4, <1>5, <1>6, <1>7, <1>8 DEF CfTyped
<1>10. SlotsAgree(cfEntry.slots) /\ FlowAgrees(cfFlow)
  BY <1>2, <1>5 DEF SlotsAgree, FlowAgrees, NoFlow
<1>11. CfSound
  <2>1. EntrySound(cfEntry.bats, cfIds, cfKnown, cfLease)
    BY <1>2, <1>5, <1>6 DEF EntrySound, Distinct, Addressed, LeaseSound, NoLease
  <2>2. Placed(cfFlow, cfEntry.bats, cfIds) BY <1>5 DEF Placed
  <2>3. FlowSound(cfFlow, cfEntry.bats, cfNet) BY <1>2 DEF FlowSound, NoFlow, Distinct
  <2> QED BY <2>1, <2>2, <2>3 DEF CfSound
<1> QED BY <1>9, <1>10, <1>11 DEF CfInv

-----------------------------------------------------------------------------
(* A form that is filled in changes nothing but the dialog, and a link it closes for a test *)
LEMMA DialogKeeps ==
  ASSUME CfInv, NEW f, cfFlow' = f, FlowTyped(f), FlowAgrees(f), cfOpen' \in [1..Len(cfEntry.bats) -> BOOLEAN],
         UNCHANGED <<cfMake, cfNet, cfEntry, cfIds, cfLease, cfKnown, cfTorn>>,
         ~cfTorn => Placed(f, cfEntry.bats, cfIds) /\ FlowSound(f, cfEntry.bats, cfNet)
  PROVE  CfInv'
<1>2. CfTyped' BY DEF CfInv, CfTyped
<1>3. SlotsAgree(cfEntry'.slots) /\ FlowAgrees(cfFlow') BY DEF CfInv
<1>4. ASSUME ~cfTorn' PROVE CfSound' BY <1>4 DEF CfInv, CfSound
<1> QED BY <1>2, <1>3, <1>4 DEF CfInv

LEMMA FormKeeps ==
  ASSUME CfInv, NEW f, Form(f), FlowTyped(f), FlowAgrees(f),
         ~cfTorn => Placed(f, cfEntry.bats, cfIds) /\ FlowSound(f, cfEntry.bats, cfNet)
  PROVE  CfInv'
<1>1. cfFlow' = f /\ cfOpen' = cfOpen /\ UNCHANGED <<cfMake, cfNet, cfEntry, cfIds, cfLease, cfKnown, cfTorn>> BY DEF Form
<1>2. cfOpen' \in [1..Len(cfEntry.bats) -> BOOLEAN] BY <1>1 DEF CfInv, CfTyped
<1> QED BY <1>1, <1>2, DialogKeeps

(* Most forms leave the batteries and slots in hand alone *)
Plain == Steps \ {"limits", "testing", "details", "assign", "remove"}
LEMMA PlainForm ==
  ASSUME CfInv, NEW f, Form(f), DOMAIN f = FlowFields, f.step \in Plain,
         f.kind = cfFlow.kind, f.got = cfFlow.got, f.slots = cfFlow.slots \/ f.slots = <<>>,
         f.devs \in 0..CfMaxDevs, f.step \notin Predictive => f.devs < CfMaxDevs
  PROVE  CfInv'
<1>1. FlowTyped(cfFlow) /\ FlowAgrees(cfFlow) /\ CfTyped BY DEF CfInv, CfTyped
<1>2. FlowTyped(f)
  <2>1. f.step \in Steps /\ f.step \notin {"limits", "testing", "details", "assign", "remove"} BY DEF Plain
  <2>2. f.slots \in Seq(Slots)
    <3>1. cfFlow.slots \in Seq(Slots) /\ <<>> \in Seq(Slots) BY <1>1 DEF FlowTyped
    <3> HIDE DEF Slots
    <3> QED BY <3>1
  <2> HIDE DEF Plain
  <2> QED BY <1>1, <2>1, <2>2 DEF FlowTyped
<1>3. FlowAgrees(f) BY <1>1 DEF FlowAgrees, Plain, SlotsAgree
<1>4. ~cfTorn => Placed(f, cfEntry.bats, cfIds) BY DEF CfInv, CfSound, Placed, IdsAt
<1>5. ~cfTorn => FlowSound(f, cfEntry.bats, cfNet) BY DEF CfInv, CfSound, FlowSound, Plain
<1> QED BY <1>2, <1>3, <1>4, <1>5, FormKeeps

(* A dialog ends with an entry stored *)
LEMMA RegistryIs ==
  ASSUME NEW ids \in CfIds, NEW bats \in Seq(CfBats)
  PROVE  /\ Registry(ids, bats) \in CfIds
         /\ \A h \in CfHosts : ids[h] # Nobody \/ h \notin HostsOf(bats) => Registry(ids, bats)[h] = ids[h]
<1> DEFINE at(h) == (CHOOSE b \in ToSet(bats) : b.host = h).unit
<1>1. ASSUME NEW h \in HostsOf(bats) PROVE at(h) \in CfUnits
  <2>1. PICK i \in 1..Len(bats) : bats[i].host = h BY DEF HostsOf
  <2>2. bats[i] \in ToSet(bats) BY DEF ToSet
  <2>3. (CHOOSE b \in ToSet(bats) : b.host = h) \in ToSet(bats) BY <2>1, <2>2
  <2>4. ToSet(bats) \subseteq CfBats BY DEF ToSet
  <2> QED BY <2>3, <2>4 DEF CfBats
<1> HIDE DEF at
<1>2. Registry(ids, bats) = [h \in CfHosts |-> IF ids[h] # Nobody \/ h \notin HostsOf(bats) THEN ids[h]
                              ELSE IF at(h) \in Range(ids) THEN Blank ELSE at(h)]
  BY DEF Registry, at
<1> QED BY <1>1, <1>2 DEF CfIds

LEMMA SavedKeeps ==
  ASSUME CfInv, NEW entry \in CfEntries, NEW ids \in CfIds, NEW known \in [CfUnits -> CfHosts \cup {0}],
         NEW torn \in BOOLEAN, Saved(entry, ids, known, torn), SlotsAgree(entry.slots),
         ~cfTorn /\ ~torn => /\ Distinct(entry.bats) /\ Addressed(entry.bats, known)
                             /\ \A i \in 1..Len(entry.bats) :
                                  Registry(ids, entry.bats)[entry.bats[i].host] = entry.bats[i].unit
                             /\ entry.bats = <<>> => cfEntry.bats = <<>> /\ ids = cfIds
  PROVE  CfInv'
<1>1. /\ cfEntry' = entry /\ cfIds' = Registry(ids, entry.bats) /\ cfFlow' = NoFlow /\ cfKnown' = known
      /\ cfOpen' = [i \in 1..Len(entry.bats) |-> TRUE]
      /\ cfTorn' = (cfTorn \/ torn \/ (cfLease.at = "probing" /\ entry.bats # cfEntry.bats))
      /\ cfLease' = [cfLease EXCEPT !.index = 0] /\ UNCHANGED <<cfMake, cfNet, cfLeft>>
  BY DEF Saved, Stored
<1>2. entry.bats \in Seq(CfBats) BY DEF CfEntries
<1>3. FlowTyped(NoFlow) /\ FlowAgrees(NoFlow)
  BY CfNumbers DEF FlowTyped, NoFlow, FlowFields, Steps, Predictive, FlowAgrees, SlotsAgree
<1>4. /\ DOMAIN cfLease' = DOMAIN cfLease /\ cfLease'.at = cfLease.at /\ cfLease'.unit = cfLease.unit
      /\ cfLease'.host = cfLease.host /\ cfLease'.bats = cfLease.bats
  BY <1>1 DEF CfInv, CfTyped, LeaseTyped, LeaseFields
<1>5. LeaseTyped(cfLease') BY <1>4 DEF CfInv, CfTyped, LeaseTyped
<1>6. CfTyped' BY <1>1, <1>2, <1>3, <1>5, RegistryIs DEF CfInv, CfTyped
<1>7. SlotsAgree(cfEntry'.slots) /\ FlowAgrees(cfFlow') BY <1>1, <1>3
<1>8. ASSUME ~cfTorn' PROVE CfSound'
  <2>1. ~cfTorn /\ ~torn /\ (cfLease.at = "probing" => entry.bats = cfEntry.bats) BY <1>1, <1>8
  <2>2. CfSound BY <2>1 DEF CfInv
  <2>3. Distinct(entry.bats) /\ Addressed(entry.bats, known) BY <2>1
  <2>4. LeaseSound(cfLease', entry.bats) BY <1>4, <2>1, <2>2 DEF CfSound, EntrySound, LeaseSound
  <2>5. ASSUME entry.bats = <<>> PROVE cfLease'.at # "probing" /\ cfIds' = [h \in CfHosts |-> Nobody]
    <3>1. cfEntry.bats = <<>> /\ ids = cfIds BY <2>1, <2>5
    <3>2. cfLease.at # "probing" /\ ids = [h \in CfHosts |-> Nobody] BY <2>2, <3>1 DEF CfSound, EntrySound
    <3>3. HostsOf(entry.bats) = {} BY <2>5 DEF HostsOf
    <3>4. Registry(ids, entry.bats) = ids BY <1>2, <3>3, RegistryIs DEF CfIds
    <3> QED BY <1>1, <1>4, <3>2, <3>4
  <2>6. EntrySound(entry.bats, cfIds', known, cfLease') BY <2>3, <2>4, <2>5 DEF EntrySound
  <2>7. Placed(NoFlow, entry.bats, cfIds')
    <3>1. NoFlow.kind = "none" BY DEF NoFlow
    <3> QED BY <1>1, <2>1, <3>1 DEF Placed, IdsAt
  <2>8. FlowSound(NoFlow, entry.bats, cfNet) BY DEF FlowSound, NoFlow, Distinct
  <2> QED BY <1>1, <2>6, <2>7, <2>8 DEF CfSound
<1> QED BY <1>6, <1>7, <1>8 DEF CfInv

(* Answers laid over the entry leave its batteries and their ids as they are *)
LEMMA SaveOptionsKeeps ==
  ASSUME CfInv, NEW entry \in CfEntries, SaveOptions(entry), SlotsAgree(entry.slots),
         entry.bats = cfEntry.bats, cfFlow.kind # "reconfigure"
  PROVE  CfInv'
<1>1. Saved(entry, cfIds, cfKnown, FALSE) BY DEF SaveOptions
<1>2. cfIds \in CfIds /\ cfKnown \in [CfUnits -> CfHosts \cup {0}] /\ cfEntry \in CfEntries BY DEF CfInv, CfTyped
<1>3. entry.bats \in Seq(CfBats) BY DEF CfEntries
<1>4. ASSUME ~cfTorn
      PROVE  /\ Distinct(entry.bats) /\ Addressed(entry.bats, cfKnown)
             /\ \A i \in 1..Len(entry.bats) :
                  Registry(cfIds, entry.bats)[entry.bats[i].host] = entry.bats[i].unit
  <2>1. CfSound BY <1>4 DEF CfInv
  <2>2. ASSUME NEW i \in 1..Len(entry.bats)
        PROVE  Registry(cfIds, entry.bats)[entry.bats[i].host] = entry.bats[i].unit
    <3>1. cfIds[entry.bats[i].host] = entry.bats[i].unit BY <2>1 DEF CfSound, Placed, IdsAt
    <3>2. entry.bats[i] \in CfBats BY <1>3
    <3>3. entry.bats[i].unit \in CfUnits /\ entry.bats[i].host \in CfHosts BY <3>2 DEF CfBats
    <3> QED BY <1>2, <1>3, <3>1, <3>3, RegistryIs, CfNumbers
  <2> QED BY <2>1, <2>2 DEF CfSound, EntrySound
<1> QED BY <1>1, <1>2, <1>4, SavedKeeps

-----------------------------------------------------------------------------
(* The forms, group by group *)
LEMMA FlowIs ==
  CfInv => /\ FlowTyped(cfFlow) /\ FlowAgrees(cfFlow) /\ DOMAIN cfFlow = FlowFields /\ cfEntry \in CfEntries
           /\ cfFlow.devs \in 0..CfMaxDevs /\ (cfFlow.step \notin Predictive => cfFlow.devs < CfMaxDevs)
BY DEF CfInv, CfTyped, FlowTyped

LEMMA GoPlain ==
  ASSUME CfInv, NEW step \in Plain, Form(Go(step)), step \in Predictive \/ cfFlow.step \notin Predictive
  PROVE  CfInv'
<1>1. /\ DOMAIN Go(step) = FlowFields /\ Go(step).step = step /\ Go(step).kind = cfFlow.kind
      /\ Go(step).got = cfFlow.got /\ Go(step).slots = cfFlow.slots /\ Go(step).devs = cfFlow.devs
  BY FlowIs DEF Go, FlowFields
<1> QED BY <1>1, FlowIs, PlainForm

LEMMA SetupForms ==
  CfInv /\ (SetupUser \/ SetupPhases \/ SetupAskSlots \/ SetupMoreSlots \/ SetupAskDevices \/ SetupMoreDevices \/ SetupMode
            \/ OptionsMode \/ ReconfigureHuaweiScan) => CfInv'
<1> SUFFICES ASSUME CfInv, SetupUser \/ SetupPhases \/ SetupAskSlots \/ SetupMoreSlots \/ SetupAskDevices
                           \/ SetupMoreDevices \/ SetupMode \/ OptionsMode \/ ReconfigureHuaweiScan
             PROVE CfInv'
  OBVIOUS
<1>1. PICK step : /\ Form(Go(step)) /\ step \in {"phases", "count", "slot", "devices", "device", "predictive",
                                                 "slotcfg", "dynamiccfg", "realtimecfg", "confirmslave"}
                  /\ step \in Predictive \/ cfFlow.step \notin Predictive
  BY DEF SetupUser, SetupPhases, SetupAskSlots, SetupMoreSlots, SetupAskDevices, SetupMoreDevices, SetupMode,
         OptionsMode, ReconfigureHuaweiScan, AskMode, SettingsOf, At, Predictive
<1>2. step \in Plain BY <1>1 DEF Plain, Steps
<1> QED BY <1>1, <1>2, GoPlain

LEMMA AskForms ==
  ASSUME CfInv, NEW kind, AskCount(kind) \/ AskBrand(kind) PROVE CfInv'
<1>1. cfFlow.step \notin Predictive BY DEF AskCount, AskBrand, At, Predictive
<1>2. CASE AskCount(kind)
  <2>1. PICK n : Form([Go("brand") EXCEPT !.n = n]) BY <1>2 DEF AskCount
  <2> DEFINE f == [Go("brand") EXCEPT !.n = n]
  <2>2. /\ DOMAIN f = FlowFields /\ f.step = "brand" /\ f.kind = cfFlow.kind
        /\ f.got = cfFlow.got /\ f.slots = cfFlow.slots /\ f.devs = cfFlow.devs
    BY FlowIs DEF Go, FlowFields
  <2>3. "brand" \in Plain BY DEF Plain, Steps
  <2> HIDE DEF f
  <2> QED BY <1>1, <2>1, <2>2, <2>3, FlowIs, PlainForm DEF f
<1>3. CASE AskBrand(kind)
  <2>1. PICK u : Form([Go("connect") EXCEPT !.brand = cfMake[u], !.cur = Nobody]) BY <1>3 DEF AskBrand
  <2> DEFINE f == [Go("connect") EXCEPT !.brand = cfMake[u], !.cur = Nobody]
  <2>2. /\ DOMAIN f = FlowFields /\ f.step = "connect" /\ f.kind = cfFlow.kind
        /\ f.got = cfFlow.got /\ f.slots = cfFlow.slots /\ f.devs = cfFlow.devs
    BY FlowIs DEF Go, FlowFields
  <2>3. "connect" \in Plain BY DEF Plain, Steps
  <2>4. Form(f) BY <2>1
  <2> HIDE DEF f
  <2> QED BY <1>1, <2>2, <2>3, <2>4, FlowIs, PlainForm
<1> QED BY <1>2, <1>3

(* A battery answers at a connection step *)
LEMMA Connected ==
  ASSUME CfInv, NEW u \in CfUnits, Fresh(u), Form([Go("limits") EXCEPT !.cur = u]),
         cfFlow.kind \in {"setup", "options"}, cfFlow.step \notin Predictive
  PROVE  CfInv'
<1> DEFINE f == [Go("limits") EXCEPT !.cur = u]
<1>1. /\ DOMAIN f = FlowFields /\ f.step = "limits" /\ f.kind = cfFlow.kind /\ f.cur = u
      /\ f.got = cfFlow.got /\ f.slots = cfFlow.slots /\ f.devs = cfFlow.devs
  BY FlowIs DEF Go, FlowFields
<1>2. Form(f) OBVIOUS
<1> HIDE DEF f
<1>3. FlowTyped(f) BY <1>1, FlowIs DEF FlowTyped, Steps
<1>4. FlowAgrees(f) BY <1>1, FlowIs DEF FlowAgrees
<1>5. ASSUME ~cfTorn PROVE Placed(f, cfEntry.bats, cfIds) /\ FlowSound(f, cfEntry.bats, cfNet)
  BY <1>1, <1>5 DEF CfInv, CfSound, Placed, IdsAt, FlowSound, Fresh
<1> QED BY <1>2, <1>3, <1>4, <1>5, FormKeeps

LEMMA Connections ==
  ASSUME CfInv, NEW kind \in {"setup", "options"}, NEW brand,
         Connects(kind, brand) \/ HuaweiSearch(kind) \/ HuaweiSlave(kind)
  PROVE  CfInv'
<1>1. cfFlow.step \notin Predictive /\ cfFlow.kind = kind
  BY DEF Connects, HuaweiSearch, HuaweiSlave, At, Predictive
<1>2. CASE HuaweiSearch(kind) /\ \E u \in CfUnits : Form([Go("slave") EXCEPT !.cur = Nobody])
  <2> DEFINE f == [Go("slave") EXCEPT !.cur = Nobody]
  <2>1. Form(f) BY <1>2
  <2>2. /\ DOMAIN f = FlowFields /\ f.step = "slave" /\ f.kind = cfFlow.kind
        /\ f.got = cfFlow.got /\ f.slots = cfFlow.slots /\ f.devs = cfFlow.devs
    BY FlowIs DEF Go, FlowFields
  <2>3. "slave" \in Plain BY DEF Plain, Steps
  <2> HIDE DEF f
  <2> QED BY <1>1, <2>1, <2>2, <2>3, FlowIs, PlainForm
<1>3. CASE \E u \in CfUnits : Fresh(u) /\ Form([Go("limits") EXCEPT !.cur = u])
  BY <1>1, <1>3, Connected
<1>4. \/ \E u \in CfUnits : Form([Go("slave") EXCEPT !.cur = Nobody])
      \/ \E u \in CfUnits : Fresh(u) /\ Form([Go("limits") EXCEPT !.cur = u])
  <2>1. CASE Connects(kind, brand) BY <2>1 DEF Connects
  <2>2. CASE HuaweiSlave(kind) BY <2>2 DEF HuaweiSlave
  <2>3. CASE HuaweiSearch(kind)
    <3>1. PICK u \in CfUnits, step \in {"limits", "slave"} :
            Fresh(u) /\ Form([Go(step) EXCEPT !.cur = IF step = "slave" THEN Nobody ELSE u])
      BY <2>3 DEF HuaweiSearch
    <3>2. CASE step = "slave" BY <3>1, <3>2
    <3>3. CASE step = "limits" BY <3>1, <3>3
    <3> QED BY <3>1, <3>2, <3>3
  <2> QED BY <2>1, <2>2, <2>3
<1>5. Form([Go("slave") EXCEPT !.cur = Nobody]) => HuaweiSearch(kind) \/ CfInv'
  <2> DEFINE f == [Go("slave") EXCEPT !.cur = Nobody]
  <2>2. /\ DOMAIN f = FlowFields /\ f.step = "slave" /\ f.kind = cfFlow.kind
        /\ f.got = cfFlow.got /\ f.slots = cfFlow.slots /\ f.devs = cfFlow.devs
    BY FlowIs DEF Go, FlowFields
  <2>3. "slave" \in Plain BY DEF Plain, Steps
  <2> HIDE DEF f
  <2>4. Form(f) => CfInv' BY <1>1, <2>2, <2>3, FlowIs, PlainForm
  <2> QED BY <2>4 DEF f
<1> QED BY <1>2, <1>3, <1>4, <1>5

(* The options' own test closes a link and opens it again *)
LEMMA OptionsTests == CfInv /\ (OptionsTest \/ OptionsTested) => CfInv'
<1> SUFFICES ASSUME CfInv, OptionsTest \/ OptionsTested PROVE CfInv' OBVIOUS
<1>0. DOMAIN cfOpen = 1..Len(cfEntry.bats) /\ \A i \in DOMAIN cfOpen : cfOpen[i] \in BOOLEAN BY DEF CfInv, CfTyped
<1>1. CASE OptionsTest
  <2>1. cfFlow.kind = "options" /\ cfFlow.step \notin Predictive BY <1>1 DEF OptionsTest, At, Predictive
  <2> DEFINE First(u) == LET rs == Running(cfNet[u])
                         IN IF rs = {} THEN 0 ELSE CHOOSE j \in rs : \A k \in rs : j <= k
  <2>10. PICK u \in CfUnits : /\ Fresh(u) /\ cfFlow' = [Go("testing") EXCEPT !.cur = u, !.at = First(u)]
                              /\ cfOpen' = [j \in DOMAIN cfOpen |-> cfOpen[j] /\ j # First(u)]
    BY <1>1 DEF OptionsTest
  <2> DEFINE i == First(u)
  <2>2. /\ Fresh(u) /\ cfFlow' = [Go("testing") EXCEPT !.cur = u, !.at = i]
        /\ cfOpen' = [j \in DOMAIN cfOpen |-> cfOpen[j] /\ j # i]
    BY <2>10
  <2> HIDE DEF First, i
  <2> DEFINE f == [Go("testing") EXCEPT !.cur = u, !.at = i]
  <2>3. /\ DOMAIN f = FlowFields /\ f.step = "testing" /\ f.kind = cfFlow.kind /\ f.cur = u
        /\ f.got = cfFlow.got /\ f.slots = cfFlow.slots /\ f.devs = cfFlow.devs
    BY FlowIs DEF Go, FlowFields
  <2>4. cfFlow' = f BY <2>2
  <2> HIDE DEF f
  <2>5. FlowTyped(f) BY <2>1, <2>3, FlowIs DEF FlowTyped, Steps
  <2>6. FlowAgrees(f) BY <2>3, FlowIs DEF FlowAgrees
  <2>7. ASSUME ~cfTorn PROVE Placed(f, cfEntry.bats, cfIds) /\ FlowSound(f, cfEntry.bats, cfNet)
    BY <2>1, <2>2, <2>3, <2>7 DEF CfInv, CfSound, Placed, IdsAt, FlowSound, Fresh
  <2>8. cfOpen' \in [1..Len(cfEntry.bats) -> BOOLEAN] BY <1>0, <2>2
  <2>9. UNCHANGED <<cfMake, cfNet, cfEntry, cfIds, cfLease, cfKnown, cfTorn>> BY <1>1 DEF OptionsTest
  <2> QED BY <2>4, <2>5, <2>6, <2>7, <2>8, <2>9, DialogKeeps
<1>2. CASE OptionsTested
  <2>1. cfFlow.kind = "options" /\ cfFlow.step = "testing" BY <1>2 DEF OptionsTested, At
  <2>2. PICK step \in {"limits", "connect"} : cfFlow' = [Go(step) EXCEPT !.at = 0]
    BY <1>2 DEF OptionsTested
  <2> DEFINE f == [Go(step) EXCEPT !.at = 0]
  <2>3. /\ DOMAIN f = FlowFields /\ f.step = step /\ f.kind = cfFlow.kind /\ f.cur = cfFlow.cur
        /\ f.got = cfFlow.got /\ f.slots = cfFlow.slots /\ f.devs = cfFlow.devs
    BY FlowIs DEF Go, FlowFields
  <2>4. cfFlow' = f BY <2>2
  <2> HIDE DEF f
  <2>5. FlowTyped(f) BY <2>1, <2>3, FlowIs DEF FlowTyped, Steps, Predictive
  <2>6. FlowAgrees(f) BY <2>3, FlowIs DEF FlowAgrees
  <2>7. ASSUME ~cfTorn PROVE Placed(f, cfEntry.bats, cfIds) /\ FlowSound(f, cfEntry.bats, cfNet)
    BY <2>1, <2>2, <2>3, <2>7 DEF CfInv, CfSound, Placed, IdsAt, FlowSound
  <2>8. cfOpen' \in [1..Len(cfEntry.bats) -> BOOLEAN]
    BY <1>0, <1>2 DEF OptionsTested
  <2>9. UNCHANGED <<cfMake, cfNet, cfEntry, cfIds, cfLease, cfKnown, cfTorn>> BY <1>2 DEF OptionsTested
  <2> QED BY <2>4, <2>5, <2>6, <2>7, <2>8, <2>9, DialogKeeps
<1> QED BY <1>1, <1>2

-----------------------------------------------------------------------------
(* A battery is added to those in hand *)
LEMMA Added ==
  ASSUME CfInv, cfFlow.step = "limits", cfFlow.kind \in {"setup", "options"}
  PROVE  /\ WithBattery \in Seq(CfBats) /\ Len(WithBattery) = Len(cfFlow.got) + 1
         /\ ~cfTorn => Distinct(WithBattery)
         /\ ~cfTorn /\ cfFlow.kind = "setup" =>
              \A i \in 1..Len(WithBattery) : WithBattery[i].host = cfNet[WithBattery[i].unit]
<1> DEFINE b == [unit |-> cfFlow.cur, host |-> cfNet[cfFlow.cur]]
<1>1. b \in CfBats /\ cfFlow.got \in Seq(CfBats) BY DEF CfInv, CfTyped, FlowTyped, CfBats
<1>2. b.unit = cfFlow.cur /\ b.host = cfNet[cfFlow.cur] OBVIOUS
<1>3. WithBattery = Append(cfFlow.got, b) BY DEF WithBattery
<1> HIDE DEF b
<1>4. /\ WithBattery \in Seq(CfBats) /\ Len(WithBattery) = Len(cfFlow.got) + 1
      /\ \A i \in 1..Len(cfFlow.got) : WithBattery[i] = cfFlow.got[i]
      /\ WithBattery[Len(cfFlow.got) + 1] = b /\ Len(cfFlow.got) \in Nat
  BY <1>1, <1>3
<1>5. \A i \in 1..Len(WithBattery) : i \in 1..Len(cfFlow.got) \/ i = Len(cfFlow.got) + 1 BY <1>4
<1>6. ASSUME ~cfTorn PROVE FlowSound(cfFlow, cfEntry.bats, cfNet) BY <1>6 DEF CfInv, CfSound
<1>7. ASSUME ~cfTorn PROVE Distinct(WithBattery)
  <2>1. \A i \in 1..Len(cfFlow.got) : cfFlow.got[i].unit # b.unit BY <1>2, <1>6, <1>7 DEF FlowSound
  <2>2. Distinct(cfFlow.got) BY <1>6, <1>7 DEF FlowSound
  <2> QED BY <1>4, <1>5, <2>1, <2>2 DEF Distinct
<1>8. ASSUME ~cfTorn, cfFlow.kind = "setup"
      PROVE  \A i \in 1..Len(WithBattery) : WithBattery[i].host = cfNet[WithBattery[i].unit]
  <2>1. \A i \in 1..Len(cfFlow.got) : cfFlow.got[i].host = cfNet[cfFlow.got[i].unit] BY <1>6, <1>8 DEF FlowSound
  <2> QED BY <1>2, <1>4, <1>5, <2>1
<1> QED BY <1>4, <1>7, <1>8

LEMMA AddedForm ==
  ASSUME CfInv, NEW step \in {"slots", "brand"}, cfFlow.step = "limits", cfFlow.kind \in {"setup", "options"},
         Form([Go(step) EXCEPT !.got = WithBattery, !.cur = Nobody])
  PROVE  CfInv'
<1> DEFINE f == [Go(step) EXCEPT !.got = WithBattery, !.cur = Nobody]
<1>1. /\ DOMAIN f = FlowFields /\ f.step = step /\ f.kind = cfFlow.kind
      /\ f.got = WithBattery /\ f.slots = cfFlow.slots /\ f.devs = cfFlow.devs
  BY FlowIs DEF Go, FlowFields
<1>2. Form(f) OBVIOUS
<1> HIDE DEF f
<1>3. FlowTyped(f) BY <1>1, FlowIs, Added DEF FlowTyped, Steps, Predictive
<1>4. FlowAgrees(f) BY <1>1, FlowIs DEF FlowAgrees
<1>5. ASSUME ~cfTorn PROVE Placed(f, cfEntry.bats, cfIds) /\ FlowSound(f, cfEntry.bats, cfNet)
  <2>1. Placed(f, cfEntry.bats, cfIds) BY <1>1, <1>5 DEF CfInv, CfSound, Placed, IdsAt
  <2>2. FlowSound(f, cfEntry.bats, cfNet) BY <1>1, <1>5, Added DEF CfInv, CfSound, FlowSound
  <2> QED BY <2>1, <2>2
<1> QED BY <1>2, <1>3, <1>4, <1>5, FormKeeps

(* Where each battery was stored last *)
LEMMA KnownFromIs ==
  ASSUME NEW bats \in Seq(CfBats), cfKnown \in [CfUnits -> CfHosts \cup {0}]
  PROVE  /\ KnownFrom(bats) \in [CfUnits -> CfHosts \cup {0}]
         /\ Distinct(bats) => Addressed(bats, KnownFrom(bats))
<1> DEFINE of(u) == CHOOSE b \in ToSet(bats) : b.unit = u
<1>1. ASSUME NEW i \in 1..Len(bats)
      PROVE /\ bats[i] \in CfBats /\ bats[i] \in ToSet(bats)
            /\ of(bats[i].unit) \in ToSet(bats) /\ of(bats[i].unit).unit = bats[i].unit
  <2>1. bats[i] \in CfBats /\ bats[i] \in ToSet(bats) BY DEF ToSet
  <2>2. \E b \in ToSet(bats) : b.unit = bats[i].unit BY <2>1
  <2> QED BY <2>1, <2>2
<1>2. ToSet(bats) \subseteq CfBats BY DEF ToSet
<1> HIDE DEF of
<1>3. KnownFrom(bats) = [u \in CfUnits |-> IF \E i \in 1..Len(bats) : bats[i].unit = u THEN of(u).host ELSE cfKnown[u]]
  BY DEF KnownFrom, of
<1>4. ASSUME NEW u \in CfUnits, \E i \in 1..Len(bats) : bats[i].unit = u PROVE of(u).host \in CfHosts
  BY <1>1, <1>2, <1>4 DEF CfBats
<1>5. ASSUME Distinct(bats), NEW i \in 1..Len(bats) PROVE bats[i].host = KnownFrom(bats)[bats[i].unit]
  <2>1. PICK j \in 1..Len(bats) : of(bats[i].unit) = bats[j] BY <1>1 DEF ToSet
  <2>2. j = i BY <1>1, <1>5, <2>1 DEF Distinct
  <2>3. bats[i].unit \in CfUnits BY <1>1 DEF CfBats
  <2> QED BY <1>3, <2>1, <2>2, <2>3
<1> QED BY <1>3, <1>4, <1>5 DEF Addressed

LEMMA LimitSteps == CfInv /\ (SetupLimits \/ OptionsLimits) => CfInv'
<1> SUFFICES ASSUME CfInv, SetupLimits \/ OptionsLimits PROVE CfInv' OBVIOUS
<1>1. CASE SetupLimits
  <2>1. cfFlow.step = "limits" /\ cfFlow.kind \in {"setup", "options"} BY <1>1 DEF SetupLimits, At
  <2> QED BY <1>1, <2>1, AddedForm DEF SetupLimits
<1>2. CASE OptionsLimits
  <2>1. cfFlow.step = "limits" /\ cfFlow.kind = "options" BY <1>2 DEF OptionsLimits, At
  <2>2. CASE Len(WithBattery) < cfFlow.n BY <1>2, <2>1, <2>2, AddedForm DEF OptionsLimits
  <2>3. CASE ~(Len(WithBattery) < cfFlow.n)
    <3> DEFINE entry == [cfEntry EXCEPT !.bats = WithBattery]
               torn == \E i \in 1..Len(WithBattery) :
                         Registry(cfIds, WithBattery)[WithBattery[i].host] # WithBattery[i].unit
    <3>1. Saved(entry, cfIds, KnownFrom(WithBattery), torn) BY <1>2, <2>3 DEF OptionsLimits
    <3>2. entry \in CfEntries /\ entry.bats = WithBattery /\ entry.slots = cfEntry.slots
      BY <2>1, Added, FlowIs DEF CfEntries
    <3>3. torn \in BOOLEAN OBVIOUS
    <3>4. ~torn => \A i \in 1..Len(WithBattery) : Registry(cfIds, WithBattery)[WithBattery[i].host] = WithBattery[i].unit
      OBVIOUS
    <3>5. cfIds \in CfIds /\ KnownFrom(WithBattery) \in [CfUnits -> CfHosts \cup {0}]
      BY <2>1, Added, KnownFromIs DEF CfInv, CfTyped
    <3>6. ~cfTorn => Distinct(WithBattery) /\ Addressed(WithBattery, KnownFrom(WithBattery))
      BY <2>1, Added, KnownFromIs DEF CfInv, CfTyped
    <3>7. SlotsAgree(entry.slots) BY <3>2 DEF CfInv
    <3>8. WithBattery # <<>> BY <2>1, Added
    <3> HIDE DEF entry, torn
    <3> QED BY <3>1, <3>2, <3>3, <3>4, <3>5, <3>6, <3>7, <3>8, SavedKeeps
  <2> QED BY <2>2, <2>3
<1> QED BY <1>1, <1>2

(* The set-up ends: the first entry, on a registry that knows none of its batteries *)
LEMMA Finishes == ASSUME CfInv, NEW mode \in Modes, cfFlow.kind = "setup", Finish(mode) PROVE CfInv'
<1> DEFINE entry == SetupEntry(mode)
<1>1. entry.bats = cfFlow.got /\ entry.slots = cfFlow.slots /\ entry \in CfEntries
  BY FlowIs DEF SetupEntry, CfEntries, FlowTyped
<1>2. Saved(entry, cfIds, KnownFrom(cfFlow.got), FALSE) BY DEF Finish
<1> HIDE DEF entry
<1>3. cfFlow.got \in Seq(CfBats) /\ cfIds \in CfIds /\ cfKnown \in [CfUnits -> CfHosts \cup {0}]
      /\ cfNet \in [CfUnits -> CfHosts] /\ \A u, v \in CfUnits : u # v => cfNet[u] # cfNet[v]
  BY DEF CfInv, CfTyped, FlowTyped
<1>4. KnownFrom(cfFlow.got) \in [CfUnits -> CfHosts \cup {0}] BY <1>3, KnownFromIs
<1>5. SlotsAgree(entry.slots) BY <1>1, FlowIs DEF FlowAgrees
<1>6. ASSUME ~cfTorn
      PROVE  /\ Distinct(entry.bats) /\ Addressed(entry.bats, KnownFrom(cfFlow.got))
             /\ \A i \in 1..Len(entry.bats) : Registry(cfIds, entry.bats)[entry.bats[i].host] = entry.bats[i].unit
             /\ cfEntry.bats = <<>>
  <2>1. CfSound BY <1>6 DEF CfInv
  <2>2. /\ cfEntry.bats = <<>> /\ Distinct(cfFlow.got) /\ cfIds = [h \in CfHosts |-> Nobody]
        /\ \A i \in 1..Len(cfFlow.got) : cfFlow.got[i].host = cfNet[cfFlow.got[i].unit]
    BY <2>1 DEF CfSound, FlowSound, EntrySound
  <2>3. ASSUME NEW i \in 1..Len(cfFlow.got)
        PROVE  Registry(cfIds, cfFlow.got)[cfFlow.got[i].host] = cfFlow.got[i].unit
    <3> DEFINE h == cfFlow.got[i].host
               b == CHOOSE b \in ToSet(cfFlow.got) : b.host = h
    <3>1. cfFlow.got[i] \in CfBats /\ cfFlow.got[i] \in ToSet(cfFlow.got) BY <1>3 DEF ToSet
    <3>2. h \in CfHosts /\ cfFlow.got[i].unit \in CfUnits /\ h \in HostsOf(cfFlow.got) BY <3>1 DEF CfBats, HostsOf
    <3>3. b \in ToSet(cfFlow.got) /\ b.host = h BY <3>1
    <3>4. PICK j \in 1..Len(cfFlow.got) : b = cfFlow.got[j] BY <3>3 DEF ToSet
    <3>5. cfFlow.got[j].unit \in CfUnits
      <4>1. cfFlow.got[j] \in CfBats BY <1>3
      <4> QED BY <4>1 DEF CfBats
    <3>6. b.unit = cfFlow.got[i].unit BY <1>3, <2>2, <3>2, <3>3, <3>4, <3>5
    <3>7. cfIds[h] = Nobody /\ cfFlow.got[i].unit \notin Range(cfIds) BY <2>2, <3>2, CfNumbers DEF Range
    <3>8. Registry(cfIds, cfFlow.got)[h] = IF b.unit \in Range(cfIds) THEN Blank ELSE b.unit
      BY <3>2, <3>7 DEF Registry
    <3> QED BY <3>6, <3>7, <3>8
  <2> QED BY <1>1, <1>3, <2>2, <2>3, KnownFromIs
<1> QED BY <1>1, <1>2, <1>3, <1>4, <1>5, <1>6, SavedKeeps

(* Slots *)
LEMMA OverlapMeets == ASSUME NEW a \in Slots, NEW b \in Slots PROVE SlotsOverlap(a, b) <=> SlotsOverlap(b, a)
BY DEF SlotsOverlap, ScopesMeet, TimesOverlap

LEMMA SlotKeeps ==
  ASSUME CfInv, NEW s \in Slots, \A i \in 1..Len(cfFlow.slots) : ~SlotsOverlap(s, cfFlow.slots[i]), SlotKept(s),
         cfFlow.kind \in {"setup", "options"}, cfFlow.step \notin Predictive
  PROVE  CfInv'
<1> DEFINE slots == Append(cfFlow.slots, s)
<1>1. cfFlow.slots \in Seq(Slots) /\ SlotsAgree(cfFlow.slots) BY FlowIs DEF FlowTyped, FlowAgrees
<1>2. /\ slots \in Seq(Slots) /\ Len(slots) = Len(cfFlow.slots) + 1 /\ Len(cfFlow.slots) \in Nat
      /\ \A i \in 1..Len(cfFlow.slots) : slots[i] = cfFlow.slots[i]
      /\ slots[Len(cfFlow.slots) + 1] = s
  <2> HIDE DEF Slots
  <2> QED BY <1>1
<1>3. \A i \in 1..Len(slots) : i \in 1..Len(cfFlow.slots) \/ i = Len(cfFlow.slots) + 1 BY <1>2
<1>4. SlotKept(s) = IF Len(slots) < CfMaxSlots THEN Form([Go("more") EXCEPT !.slots = slots, !.pend = NoSlot])
                    ELSE IF cfFlow.kind = "setup" THEN Form([Go("devices") EXCEPT !.slots = slots, !.pend = NoSlot])
                    ELSE SaveOptions([cfEntry EXCEPT !.slots = slots])
  BY DEF SlotKept
<1> HIDE DEF slots
<1>5. SlotsAgree(slots)
  <2> SUFFICES ASSUME NEW i \in 1..Len(slots), NEW j \in 1..Len(slots), i # j PROVE ~SlotsOverlap(slots[i], slots[j])
    BY DEF SlotsAgree
  <2>1. \A k \in 1..Len(cfFlow.slots) : cfFlow.slots[k] \in Slots BY <1>1
  <2>2. CASE i \in 1..Len(cfFlow.slots) /\ j \in 1..Len(cfFlow.slots) BY <1>1, <1>2, <2>2 DEF SlotsAgree
  <2>3. CASE i = Len(cfFlow.slots) + 1 /\ j \in 1..Len(cfFlow.slots) BY <1>2, <2>3
  <2>4. CASE j = Len(cfFlow.slots) + 1 /\ i \in 1..Len(cfFlow.slots) BY <1>2, <2>1, <2>4, OverlapMeets
  <2> QED BY <1>3, <2>2, <2>3, <2>4
<1>6. ASSUME NEW step \in {"more", "devices"}, Form([Go(step) EXCEPT !.slots = slots, !.pend = NoSlot]) PROVE CfInv'
  <2> DEFINE f == [Go(step) EXCEPT !.slots = slots, !.pend = NoSlot]
  <2>1. /\ DOMAIN f = FlowFields /\ f.step = step /\ f.kind = cfFlow.kind
        /\ f.got = cfFlow.got /\ f.slots = slots /\ f.devs = cfFlow.devs
    BY FlowIs DEF Go, FlowFields
  <2>2. Form(f) BY <1>6
  <2> HIDE DEF f
  <2>3. FlowTyped(f)
    <3> HIDE DEF Slots
    <3> QED BY <1>2, <2>1, FlowIs DEF FlowTyped, Steps, Predictive
  <2>4. FlowAgrees(f) BY <1>5, <2>1 DEF FlowAgrees
  <2>5. ASSUME ~cfTorn PROVE Placed(f, cfEntry.bats, cfIds) /\ FlowSound(f, cfEntry.bats, cfNet)
    BY <2>1, <2>5 DEF CfInv, CfSound, Placed, IdsAt, FlowSound
  <2> QED BY <2>2, <2>3, <2>4, <2>5, FormKeeps
<1>7. ASSUME SaveOptions([cfEntry EXCEPT !.slots = slots]), cfFlow.kind = "options" PROVE CfInv'
  <2> DEFINE entry == [cfEntry EXCEPT !.slots = slots]
  <2>1. entry \in CfEntries /\ entry.bats = cfEntry.bats /\ entry.slots = slots
    <3> HIDE DEF Slots
    <3> QED BY <1>2, FlowIs DEF CfEntries
  <2>2. SaveOptions(entry) BY <1>7
  <2> HIDE DEF entry
  <2> QED BY <1>5, <1>7, <2>1, <2>2, SaveOptionsKeeps
<1> QED BY <1>4, <1>6, <1>7

LEMMA SlotSteps ==
  ASSUME CfInv, NEW kind \in {"setup", "options"}, NEW count, AddSlot(kind, count) \/ SlotDetails(kind) PROVE CfInv'
<1>1. cfFlow.kind = kind /\ cfFlow.step \notin Predictive BY DEF AddSlot, SlotDetails, At, Predictive
<1>2. CASE SlotDetails(kind)
  <2>1. cfFlow.step = "details" /\ SlotKept(cfFlow.pend) BY <1>2 DEF SlotDetails, At
  <2>2. cfFlow.pend \in Slots BY <2>1, FlowIs DEF FlowTyped
  <2>3. \A i \in 1..Len(cfFlow.slots) : ~SlotsOverlap(cfFlow.pend, cfFlow.slots[i]) BY <2>1, FlowIs DEF FlowAgrees
  <2> QED BY <1>1, <2>1, <2>2, <2>3, SlotKeeps
<1>3. CASE AddSlot(kind, count)
  <2>1. PICK s \in Slots : /\ \A i \in 1..Len(cfFlow.slots) : ~SlotsOverlap(s, cfFlow.slots[i])
                           /\ SlotKept(s) \/ Form([Go("details") EXCEPT !.pend = s])
    BY <1>3 DEF AddSlot
  <2>2. CASE SlotKept(s) BY <1>1, <2>1, <2>2, SlotKeeps
  <2>3. CASE Form([Go("details") EXCEPT !.pend = s])
    <3> DEFINE f == [Go("details") EXCEPT !.pend = s]
    <3>1. /\ DOMAIN f = FlowFields /\ f.step = "details" /\ f.kind = cfFlow.kind /\ f.pend = s
          /\ f.got = cfFlow.got /\ f.slots = cfFlow.slots /\ f.devs = cfFlow.devs
      BY FlowIs DEF Go, FlowFields
    <3>2. Form(f) BY <2>3
    <3> HIDE DEF f
    <3>3. FlowTyped(f) BY <1>1, <3>1, FlowIs DEF FlowTyped, Steps
    <3>4. FlowAgrees(f) BY <2>1, <3>1, FlowIs DEF FlowAgrees
    <3>5. ASSUME ~cfTorn PROVE Placed(f, cfEntry.bats, cfIds) /\ FlowSound(f, cfEntry.bats, cfNet)
      BY <1>1, <3>1, <3>5 DEF CfInv, CfSound, Placed, IdsAt, FlowSound
    <3> QED BY <3>2, <3>3, <3>4, <3>5, FormKeeps
  <2> QED BY <2>1, <2>2, <2>3
<1> QED BY <1>2, <1>3

(* A page saved by itself *)
LEMMA PageSaved ==
  ASSUME CfInv, NEW entry, SaveOptions(entry), cfFlow.kind = "options",
         \/ entry = cfEntry
         \/ entry = [cfEntry EXCEPT !.slots = <<>>]
         \/ entry = [cfEntry EXCEPT !.slots = cfFlow.slots]
         \/ \E n \in 0..CfMaxDevs : entry = [cfEntry EXCEPT !.devs = n]
         \/ \E m \in Modes : entry = [cfEntry EXCEPT !.mode = m]
  PROVE  CfInv'
<1>1. /\ cfEntry \in CfEntries /\ cfFlow.slots \in Seq(Slots) /\ SlotsAgree(cfFlow.slots) /\ SlotsAgree(cfEntry.slots)
      /\ <<>> \in Seq(Slots) /\ SlotsAgree(<<>>)
  BY FlowIs DEF CfInv, CfTyped, FlowTyped, FlowAgrees, SlotsAgree
<1>2. entry \in CfEntries /\ entry.bats = cfEntry.bats /\ SlotsAgree(entry.slots)
  <2> HIDE DEF Slots, Modes
  <2> QED BY <1>1 DEF CfEntries
<1> QED BY <1>2, SaveOptionsKeeps

LEMMA OptionsPages ==
  CfInv /\ (OptionsSlots \/ OptionsMoreSlots \/ OptionsDevices \/ OptionsDevice \/ OptionsMoreDevices
            \/ OptionsPredictive \/ OptionsSlotMode \/ OptionsDynamic \/ OptionsRealtime \/ OptionsSensors) => CfInv'
<1> SUFFICES ASSUME CfInv, OptionsSlots \/ OptionsMoreSlots \/ OptionsDevices \/ OptionsDevice \/ OptionsMoreDevices
            \/ OptionsPredictive \/ OptionsSlotMode \/ OptionsDynamic \/ OptionsRealtime \/ OptionsSensors
             PROVE  CfInv'
  OBVIOUS
<1>0. cfFlow.kind = "options"
  BY DEF OptionsSlots, OptionsMoreSlots, OptionsDevices, OptionsDevice, OptionsMoreDevices,
         OptionsPredictive, OptionsSlotMode, OptionsDynamic, OptionsRealtime, OptionsSensors, At
<1>1. CASE OptionsSlots
  <2>1. cfFlow.step = "slots" BY <1>1 DEF OptionsSlots, At
  <2>2. CASE SaveOptions([cfEntry EXCEPT !.slots = <<>>]) BY <1>0, <2>2, PageSaved
  <2>3. CASE Form([Go("slot") EXCEPT !.slots = <<>>])
    <3> DEFINE f == [Go("slot") EXCEPT !.slots = <<>>]
    <3>1. /\ DOMAIN f = FlowFields /\ f.step = "slot" /\ f.kind = cfFlow.kind
          /\ f.got = cfFlow.got /\ f.slots = <<>> /\ f.devs = cfFlow.devs
      BY FlowIs DEF Go, FlowFields
    <3>2. Form(f) BY <2>3
    <3>3. "slot" \in Plain BY DEF Plain, Steps
    <3>4. cfFlow.step \notin Predictive BY <2>1 DEF Predictive
    <3> HIDE DEF f
    <3> QED BY <3>1, <3>2, <3>3, <3>4, FlowIs, PlainForm
  <2> QED BY <1>1, <2>2, <2>3 DEF OptionsSlots
<1>2. CASE OptionsMoreSlots
  <2>1. cfFlow.step \notin Predictive /\ "slot" \in Plain BY <1>2 DEF OptionsMoreSlots, At, Predictive, Plain, Steps
  <2>2. CASE SaveOptions([cfEntry EXCEPT !.slots = cfFlow.slots]) BY <1>0, <2>2, PageSaved
  <2>3. CASE Form(Go("slot")) BY <2>1, <2>3, GoPlain
  <2> QED BY <1>2, <2>2, <2>3 DEF OptionsMoreSlots
<1>3. CASE OptionsDevices \/ OptionsDevice \/ OptionsMoreDevices
  <2>1. cfFlow.step \notin Predictive /\ {"device", "moredev"} \subseteq Plain
    BY <1>3 DEF OptionsDevices, OptionsDevice, OptionsMoreDevices, At, Predictive, Plain, Steps
  <2>2. cfFlow.devs \in 0..CfMaxDevs /\ cfFlow.devs < CfMaxDevs /\ CfMaxDevs \in Nat \ {0} BY <2>1, FlowIs, CfNumbers
  <2>3. ASSUME NEW n \in 0..CfMaxDevs, SaveOptions([cfEntry EXCEPT !.devs = n]) PROVE CfInv' BY <1>0, <2>3, PageSaved
  <2>4. ASSUME NEW n \in 0..CfMaxDevs, n < CfMaxDevs, NEW step \in {"device", "moredev"},
               Form([Go(step) EXCEPT !.devs = n])
        PROVE CfInv'
    <3> DEFINE f == [Go(step) EXCEPT !.devs = n]
    <3>1. /\ DOMAIN f = FlowFields /\ f.step = step /\ f.kind = cfFlow.kind
          /\ f.got = cfFlow.got /\ f.slots = cfFlow.slots /\ f.devs = n
      BY FlowIs DEF Go, FlowFields
    <3>2. Form(f) BY <2>4
    <3> HIDE DEF f
    <3> QED BY <2>1, <2>4, <3>1, <3>2, PlainForm
  <2>5. CASE OptionsDevices
    <3>1. 0 \in 0..CfMaxDevs /\ 0 < CfMaxDevs BY <2>2
    <3>2. Form([Go("device") EXCEPT !.devs = 0]) => CfInv' BY <2>4, <3>1
    <3>3. SaveOptions([cfEntry EXCEPT !.devs = 0]) => CfInv' BY <2>3, <3>1
    <3> QED BY <2>5, <3>2, <3>3 DEF OptionsDevices
  <2>6. CASE OptionsDevice
    <3>1. Go("moredev").devs = cfFlow.devs BY FlowIs DEF Go, FlowFields
    <3>2. [Go("moredev") EXCEPT !.devs = @ + 1] = [Go("moredev") EXCEPT !.devs = cfFlow.devs + 1] BY <3>1
    <3>3. cfFlow.devs + 1 \in 0..CfMaxDevs BY <2>2
    <3> QED BY <2>2, <2>3, <2>4, <2>6, <3>2, <3>3 DEF OptionsDevice
  <2>7. CASE OptionsMoreDevices
    <3>1. Form(Go("device")) => CfInv' BY <2>1, GoPlain
    <3> QED BY <2>2, <2>3, <2>7, <3>1 DEF OptionsMoreDevices
  <2> QED BY <1>3, <2>5, <2>6, <2>7
<1>4. CASE OptionsPredictive \/ OptionsSlotMode \/ OptionsDynamic \/ OptionsRealtime
  <2>1. Form(Go("mode")) => CfInv' BY GoPlain DEF Plain, Steps, Predictive
  <2>2. ASSUME NEW m \in Modes, SaveOptions([cfEntry EXCEPT !.mode = m]) PROVE CfInv' BY <1>0, <2>2, PageSaved
  <2> QED BY <1>4, <2>1, <2>2 DEF OptionsPredictive, OptionsSlotMode, OptionsDynamic, OptionsRealtime, Modes
<1>5. CASE OptionsSensors
  <2>1. cfFlow.step \notin Predictive BY <1>5 DEF OptionsSensors, At, Predictive
  <2>2. Form(Go("phases")) => CfInv' BY <2>1, GoPlain DEF Plain, Steps
  <2>3. SaveOptions(cfEntry) => CfInv' BY <1>0, PageSaved
  <2> QED BY <1>5, <2>2, <2>3 DEF OptionsSensors
<1> QED BY <1>1, <1>2, <1>3, <1>4, <1>5

(* The rest of the set-up *)
LEMMA SetupRest ==
  CfInv /\ (SetupDevice \/ SetupPredictive \/ SetupSlotMode \/ SetupDynamic \/ SetupRealtime) => CfInv'
<1> SUFFICES ASSUME CfInv, SetupDevice \/ SetupPredictive \/ SetupSlotMode \/ SetupDynamic \/ SetupRealtime PROVE CfInv'
  OBVIOUS
<1>0. cfFlow.kind = "setup"
  BY DEF SetupDevice, SetupPredictive, SetupSlotMode, SetupDynamic, SetupRealtime, At
<1>1. CASE SetupDevice
  <2> DEFINE step == IF cfFlow.devs + 1 < CfMaxDevs THEN "moredev" ELSE "predictive"
             f == [Go(step) EXCEPT !.devs = @ + 1]
  <2>1. cfFlow.step \notin Predictive BY <1>1 DEF SetupDevice, At, Predictive
  <2>2. cfFlow.devs + 1 \in 0..CfMaxDevs /\ (step \notin Predictive => cfFlow.devs + 1 < CfMaxDevs)
    BY <2>1, FlowIs, CfNumbers DEF Predictive
  <2>3. step \in Plain BY DEF Plain, Steps
  <2>4. Form(f) BY <1>1 DEF SetupDevice
  <2> HIDE DEF step
  <2>5. /\ DOMAIN f = FlowFields /\ f.step = step /\ f.kind = cfFlow.kind
        /\ f.got = cfFlow.got /\ f.slots = cfFlow.slots /\ f.devs = cfFlow.devs + 1
    BY FlowIs DEF Go, FlowFields
  <2> HIDE DEF f
  <2> QED BY <2>2, <2>3, <2>4, <2>5, PlainForm
<1>2. CASE SetupPredictive \/ SetupSlotMode \/ SetupDynamic \/ SetupRealtime
  <2>1. Form(Go("mode")) => CfInv' BY GoPlain DEF Plain, Steps, Predictive
  <2> QED BY <1>0, <1>2, <2>1, Finishes DEF SetupPredictive, SetupSlotMode, SetupDynamic, SetupRealtime, Modes
<1> QED BY <1>1, <1>2

-----------------------------------------------------------------------------
(* The menu, the phases, removal *)
LEMMA Menus == CfInv /\ OptionsMenu => CfInv'
<1> SUFFICES ASSUME CfInv, OptionsMenu PROVE CfInv' OBVIOUS
<1>0. cfFlow.kind = "options" /\ cfFlow.step \notin Predictive BY DEF OptionsMenu, At, Predictive
<1>1. PICK step \in {"user", "slots", "devices", "predictive", "count", "remove"} :
        (step = "remove" => Len(cfEntry.bats) >= 2) /\ Form([Go(step) EXCEPT !.copy = cfEntry.bats])
  BY DEF OptionsMenu
<1> DEFINE f == [Go(step) EXCEPT !.copy = cfEntry.bats]
<1>2. /\ DOMAIN f = FlowFields /\ f.step = step /\ f.kind = cfFlow.kind
      /\ f.got = cfFlow.got /\ f.slots = cfFlow.slots /\ f.devs = cfFlow.devs
  BY FlowIs DEF Go, FlowFields
<1>3. Form(f) BY <1>1
<1> HIDE DEF f
<1>4. FlowTyped(f) BY <1>0, <1>2, FlowIs DEF FlowTyped, Steps
<1>5. FlowAgrees(f) BY <1>2, FlowIs DEF FlowAgrees
<1>6. ASSUME ~cfTorn PROVE Placed(f, cfEntry.bats, cfIds) /\ FlowSound(f, cfEntry.bats, cfNet)
  BY <1>0, <1>1, <1>2, <1>6 DEF CfInv, CfSound, Placed, IdsAt, FlowSound
<1> QED BY <1>3, <1>4, <1>5, <1>6, FormKeeps

LEMMA Phases == CfInv /\ (OptionsPhases \/ OptionsAssign) => CfInv'
<1> SUFFICES ASSUME CfInv, OptionsPhases \/ OptionsAssign PROVE CfInv' OBVIOUS
<1>0. cfFlow.kind = "options" /\ cfFlow.step \notin Predictive /\ cfFlow.step \in {"phases", "assign"}
  BY DEF OptionsPhases, OptionsAssign, At, Predictive
<1>1. CASE OptionsPhases
  <2> DEFINE f == [Go("assign") EXCEPT !.got = cfEntry.bats, !.at = 1]
  <2>2. /\ DOMAIN f = FlowFields /\ f.step = "assign" /\ f.kind = cfFlow.kind
        /\ f.got = cfEntry.bats /\ f.slots = cfFlow.slots /\ f.devs = cfFlow.devs
    BY FlowIs DEF Go, FlowFields
  <2>3. Form(f) BY <1>1 DEF OptionsPhases
  <2> HIDE DEF f
  <2>4. FlowTyped(f) BY <1>0, <2>2, FlowIs DEF FlowTyped, Steps, CfEntries
  <2>5. FlowAgrees(f) BY <2>2, FlowIs DEF FlowAgrees
  <2>6. ASSUME ~cfTorn PROVE Placed(f, cfEntry.bats, cfIds) /\ FlowSound(f, cfEntry.bats, cfNet)
    BY <1>0, <2>2, <2>6 DEF CfInv, CfSound, Placed, IdsAt, FlowSound, EntrySound
  <2> QED BY <2>3, <2>4, <2>5, <2>6, FormKeeps
<1>2. CASE OptionsAssign
  <2>0. cfFlow.step = "assign" BY <1>2 DEF OptionsAssign, At
  <2>1. CASE Form([cfFlow EXCEPT !.at = @ + 1])
    <3> DEFINE f == [cfFlow EXCEPT !.at = @ + 1]
    <3>2. /\ DOMAIN f = FlowFields /\ f.step = "assign" /\ f.kind = cfFlow.kind
          /\ f.got = cfFlow.got /\ f.slots = cfFlow.slots /\ f.devs = cfFlow.devs
      BY <2>0, FlowIs DEF FlowFields
    <3>3. Form(f) BY <2>1
    <3> HIDE DEF f
    <3>4. FlowTyped(f) BY <1>0, <3>2, FlowIs DEF FlowTyped, Steps
    <3>5. FlowAgrees(f) BY <3>2, FlowIs DEF FlowAgrees
    <3>6. ASSUME ~cfTorn PROVE Placed(f, cfEntry.bats, cfIds) /\ FlowSound(f, cfEntry.bats, cfNet)
      BY <1>0, <2>0, <3>2, <3>6 DEF CfInv, CfSound, Placed, IdsAt, FlowSound
    <3> QED BY <3>3, <3>4, <3>5, <3>6, FormKeeps
  <2>2. CASE SaveOptions([cfEntry EXCEPT !.bats = cfFlow.got])
    <3> DEFINE entry == [cfEntry EXCEPT !.bats = cfFlow.got]
    <3>1. entry \in CfEntries /\ entry.bats = cfFlow.got /\ entry.slots = cfEntry.slots
      BY FlowIs DEF CfEntries, FlowTyped
    <3>2. Saved(entry, cfIds, cfKnown, FALSE) BY <2>2 DEF SaveOptions
    <3> HIDE DEF entry
    <3>3. cfIds \in CfIds /\ cfKnown \in [CfUnits -> CfHosts \cup {0}] /\ SlotsAgree(entry.slots)
      BY <3>1 DEF CfInv, CfTyped
    <3>4. ASSUME ~cfTorn
          PROVE  /\ Distinct(entry.bats) /\ Addressed(entry.bats, cfKnown) /\ entry.bats = cfEntry.bats
                 /\ \A i \in 1..Len(entry.bats) :
                      Registry(cfIds, entry.bats)[entry.bats[i].host] = entry.bats[i].unit
      <4>1. CfSound BY <3>4 DEF CfInv
      <4>2. entry.bats = cfEntry.bats BY <1>0, <2>0, <3>1, <4>1 DEF CfSound, FlowSound
      <4>3. ASSUME NEW i \in 1..Len(entry.bats)
            PROVE  Registry(cfIds, entry.bats)[entry.bats[i].host] = entry.bats[i].unit
        <5>1. cfIds[entry.bats[i].host] = entry.bats[i].unit BY <1>0, <4>1, <4>2 DEF CfSound, Placed, IdsAt
        <5>2. entry.bats \in Seq(CfBats) BY <3>1, FlowIs DEF FlowTyped
        <5>3. entry.bats[i] \in CfBats BY <5>2
        <5>4. entry.bats[i].unit \in CfUnits /\ entry.bats[i].host \in CfHosts BY <5>3 DEF CfBats
        <5> QED BY <3>3, <5>1, <5>2, <5>4, RegistryIs, CfNumbers
      <4> QED BY <4>1, <4>2, <4>3 DEF CfSound, EntrySound
    <3> QED BY <3>1, <3>2, <3>3, <3>4, SavedKeeps
  <2> QED BY <1>2, <2>1, <2>2 DEF OptionsAssign
<1> QED BY <1>1, <1>2

LEMMA ElementOut ==
  ASSUME NEW bats \in Seq(CfBats), NEW n \in 1..Len(bats)
  PROVE  /\ RemoveAt(bats, n) \in Seq(CfBats) /\ Len(RemoveAt(bats, n)) = Len(bats) - 1
         /\ \A i \in 1..(Len(bats) - 1) : RemoveAt(bats, n)[i] = bats[IF i < n THEN i ELSE i + 1]
<1>1. /\ SubSeq(bats, 1, n - 1) \in Seq(CfBats) /\ Len(SubSeq(bats, 1, n - 1)) = n - 1
      /\ \A i \in 1..(n - 1) : SubSeq(bats, 1, n - 1)[i] = bats[i]
  BY SubSeqProperties
<1>2. /\ SubSeq(bats, n + 1, Len(bats)) \in Seq(CfBats) /\ Len(SubSeq(bats, n + 1, Len(bats))) = Len(bats) - n
      /\ \A i \in 1..(Len(bats) - n) : SubSeq(bats, n + 1, Len(bats))[i] = bats[n + i]
  BY SubSeqProperties
<1> DEFINE a == SubSeq(bats, 1, n - 1)
           b == SubSeq(bats, n + 1, Len(bats))
<1>3. RemoveAt(bats, n) = a \o b BY DEF RemoveAt
<1> HIDE DEF a, b
<1>4. a \in Seq(CfBats) /\ b \in Seq(CfBats) /\ Len(a) = n - 1 /\ Len(b) = Len(bats) - n BY <1>1, <1>2 DEF a, b
<1>5. /\ a \o b \in Seq(CfBats) /\ Len(a \o b) = Len(a) + Len(b)
      /\ \A i \in 1..(Len(a) + Len(b)) : (a \o b)[i] = IF i <= Len(a) THEN a[i] ELSE b[i - Len(a)]
  BY <1>4, ConcatProperties
<1>6. ASSUME NEW i \in 1..(Len(bats) - 1) PROVE (a \o b)[i] = bats[IF i < n THEN i ELSE i + 1]
  <2>1. Len(a) + Len(b) = Len(bats) - 1 BY <1>4
  <2>2. CASE i < n BY <1>1, <1>4, <1>5, <2>1, <2>2 DEF a
  <2>3. CASE ~(i < n)
    <3>1. (a \o b)[i] = b[i - (n - 1)] BY <1>4, <1>5, <2>1, <2>3
    <3>2. i - (n - 1) \in 1..(Len(bats) - n) BY <2>3
    <3>3. b[i - (n - 1)] = bats[n + (i - (n - 1))] BY <1>2, <3>2 DEF b
    <3>4. n + (i - (n - 1)) = i + 1 OBVIOUS
    <3> QED BY <2>3, <3>1, <3>3, <3>4
  <2> QED BY <2>2, <2>3
<1> QED BY <1>3, <1>4, <1>5, <1>6

LEMMA Removes == CfInv /\ OptionsRemove => CfInv'
<1> SUFFICES ASSUME CfInv, OptionsRemove PROVE CfInv' OBVIOUS
<1>0. cfFlow.kind = "options" /\ cfFlow.step = "remove" BY DEF OptionsRemove, At
<1>1. PICK n \in 1..Len(cfEntry.bats) :
        Saved([cfEntry EXCEPT !.bats = RemoveAt(@, n)], [cfIds EXCEPT ![cfEntry.bats[n].host] = Nobody], cfKnown, FALSE)
  BY DEF OptionsRemove
<1> DEFINE bats == cfEntry.bats
           rest == RemoveAt(bats, n)
           entry == [cfEntry EXCEPT !.bats = rest]
           ids == [cfIds EXCEPT ![bats[n].host] = Nobody]
           From(i) == IF i < n THEN i ELSE i + 1
<1>2. bats \in Seq(CfBats) /\ Len(bats) \in Nat /\ n \in 1..Len(bats) BY FlowIs DEF CfEntries
<1>3. rest \in Seq(CfBats) /\ Len(rest) = Len(bats) - 1 /\ \A i \in 1..(Len(bats) - 1) : rest[i] = bats[From(i)]
  BY <1>2, ElementOut
<1> HIDE DEF rest
<1>4. entry \in CfEntries /\ entry.bats = rest /\ entry.slots = cfEntry.slots BY <1>3, FlowIs DEF CfEntries
<1>5. Saved(entry, ids, cfKnown, FALSE) BY <1>1 DEF rest
<1>6. cfIds \in CfIds /\ cfKnown \in [CfUnits -> CfHosts \cup {0}] /\ SlotsAgree(entry.slots)
  BY <1>4 DEF CfInv, CfTyped
<1>7. ids \in CfIds BY <1>6 DEF CfIds
<1>8. \A i \in 1..Len(rest) : From(i) \in 1..Len(bats) /\ From(i) # n BY <1>2, <1>3
<1>9. \A i, j \in 1..Len(rest) : i # j => From(i) # From(j) BY <1>2, <1>3
<1> HIDE DEF entry, From
<1>10. ASSUME ~cfTorn
       PROVE  /\ Distinct(rest) /\ Addressed(rest, cfKnown)
              /\ \A i \in 1..Len(rest) : Registry(ids, rest)[rest[i].host] = rest[i].unit
              /\ rest # <<>>
  <2>1. CfSound BY <1>10 DEF CfInv
  <2>2. Len(bats) >= 2 /\ Distinct(bats) /\ Addressed(bats, cfKnown) /\ \A i \in 1..Len(bats) : cfIds[bats[i].host] = bats[i].unit
    BY <1>0, <2>1 DEF CfSound, FlowSound, EntrySound, Placed, IdsAt
  <2>3. rest # <<>> BY <1>2, <1>3, <2>2
  <2> HIDE DEF bats
  <2>4. Distinct(rest) BY <1>2, <1>3, <1>8, <1>9, <2>2 DEF Distinct
  <2>5. Addressed(rest, cfKnown) BY <1>2, <1>3, <1>8, <2>2 DEF Addressed
  <2>6. ASSUME NEW i \in 1..Len(rest) PROVE Registry(ids, rest)[rest[i].host] = rest[i].unit
    <3>1. rest[i] = bats[From(i)] /\ From(i) \in 1..Len(bats) /\ From(i) # n BY <1>3, <1>8
    <3>2. bats[From(i)].host # bats[n].host BY <1>2, <2>2, <3>1 DEF Distinct
    <3>3. rest[i] \in CfBats BY <1>3
    <3>4. rest[i].unit \in CfUnits /\ rest[i].host \in CfHosts BY <3>3 DEF CfBats
    <3>5. ids[rest[i].host] = rest[i].unit BY <1>6, <2>2, <3>1, <3>2, <3>4 DEF CfIds
    <3> QED BY <1>3, <1>7, <3>4, <3>5, RegistryIs, CfNumbers
  <2> QED BY <2>3, <2>4, <2>5, <2>6
<1> HIDE DEF ids
<1> QED BY <1>4, <1>5, <1>6, <1>7, <1>10, SavedKeeps

-----------------------------------------------------------------------------
(* The reconfigure flow: a battery's ids go to the address it is found at *)
LEMMA MigrateIs ==
  ASSUME NEW ids \in CfIds, NEW old \in CfHosts, NEW new \in CfHosts, old # new
  PROVE  /\ Migrate(ids, old, new) \in CfIds /\ Migrate(ids, old, new)[new] = ids[old]
         /\ \A h \in CfHosts : h # old /\ h # new => Migrate(ids, old, new)[h] = ids[h]
BY DEF Migrate, CfIds

LEMMA Reconfigures ==
  ASSUME CfInv, NEW brand, NEW step \in {"confirm", "confirmslave"}, Reconfigured(brand, step) PROVE CfInv'
<1>0. cfFlow.kind = "reconfigure" /\ cfFlow.step = step BY DEF Reconfigured, At
<1> DEFINE bats == cfEntry.bats
           n == Len(cfFlow.got) + 1
           b == bats[n]
           new == cfNet[b.unit]
           ids == IF b.host = new THEN cfIds ELSE Migrate(cfIds, b.host, new)
           moved == [b EXCEPT !.host = new]
           got == Append(cfFlow.got, moved)
<1>1. /\ n <= Len(bats) /\ CanMigrate(cfIds, b.host, new)
      /\ IF n < Len(bats)
         THEN /\ cfIds' = ids /\ cfFlow' = [Go("confirm") EXCEPT !.got = got]
              /\ UNCHANGED <<cfMake, cfNet, cfEntry, cfOpen, cfLease, cfKnown, cfTorn, cfLeft>>
         ELSE Saved([cfEntry EXCEPT !.bats = got], ids, KnownFrom(got), FALSE)
  BY DEF Reconfigured
<1>2. bats \in Seq(CfBats) /\ Len(bats) \in Nat /\ cfFlow.got \in Seq(CfBats) /\ Len(cfFlow.got) \in Nat
  BY FlowIs DEF CfEntries, FlowTyped
<1>3. n \in 1..Len(bats) BY <1>1, <1>2
<1>4. b \in CfBats BY <1>2, <1>3
<1>5. cfIds \in CfIds /\ cfNet \in [CfUnits -> CfHosts] /\ cfKnown \in [CfUnits -> CfHosts \cup {0}] BY DEF CfInv, CfTyped
<1>6. b.unit \in CfUnits /\ b.host \in CfHosts /\ new \in CfHosts BY <1>4, <1>5 DEF CfBats
<1>7. moved \in CfBats /\ moved.unit = b.unit /\ moved.host = new BY <1>4, <1>6 DEF CfBats
<1> HIDE DEF moved
<1>8. /\ got \in Seq(CfBats) /\ Len(got) = n
      /\ \A i \in 1..Len(cfFlow.got) : got[i] = cfFlow.got[i]
      /\ got[n] = moved
      /\ \A i \in 1..n : i \in 1..Len(cfFlow.got) \/ i = n
  BY <1>2, <1>7
<1>9. ids \in CfIds BY <1>5, <1>6, MigrateIs
<1> HIDE DEF got
(* Where the ids are after this battery, and that no other battery's have changed *)
<1>10. ASSUME ~cfTorn
       PROVE  /\ Distinct(got) /\ \A i \in 1..n : got[i].unit = bats[i].unit
              /\ \A i \in 1..n : ids[got[i].host] = bats[i].unit
              /\ \A i \in 1..Len(bats) : i > n => ids[bats[i].host] = bats[i].unit
  <2>1. CfSound BY <1>10 DEF CfInv
  <2>2. Distinct(bats) /\ \A i \in 1..Len(cfFlow.got) : cfFlow.got[i].unit = bats[i].unit
    BY <1>0, <2>1 DEF CfSound, EntrySound, FlowSound
  <2>3. \A i \in 1..n : got[i].unit = bats[i].unit BY <1>7, <1>8, <2>2
  <2>4. Distinct(got)
    <3>1. Len(got) = n /\ n <= Len(bats) /\ \A i \in 1..n : i \in 1..Len(bats) BY <1>2, <1>3, <1>8
    <3> HIDE DEF n, bats
    <3> QED BY <2>2, <2>3, <3>1 DEF Distinct
  <2> DEFINE place(i) == IF i <= Len(cfFlow.got) THEN cfFlow.got[i].host ELSE bats[i].host
  <2>5. ASSUME NEW i \in 1..Len(bats)
        PROVE  cfIds[place(i)] = bats[i].unit /\ place(i) \in CfHosts /\ bats[i].unit \in CfUnits
    <3>1. cfIds[place(i)] = bats[i].unit BY <1>0, <2>1 DEF CfSound, Placed, IdsAt
    <3>2. bats[i] \in CfBats BY <1>2
    <3>3. CASE i <= Len(cfFlow.got)
      <4>1. cfFlow.got[i] \in CfBats BY <1>2, <3>3
      <4> QED BY <3>1, <3>2, <3>3, <4>1 DEF CfBats
    <3>4. CASE ~(i <= Len(cfFlow.got)) BY <3>1, <3>2, <3>4 DEF CfBats
    <3> QED BY <3>3, <3>4
  <2>6. place(n) = b.host /\ \A i \in 1..Len(cfFlow.got) : place(i) = got[i].host /\ i \in 1..Len(bats) BY <1>2, <1>3, <1>8
  <2>7. \A i \in 1..Len(bats) : i > n => place(i) = bats[i].host BY <1>2
  <2> HIDE DEF place, bats
  <2>8. ASSUME NEW i \in 1..Len(bats), i # n PROVE ids[place(i)] = bats[i].unit
    <3>1. place(i) # b.host BY <1>3, <1>4, <2>2, <2>5, <2>6, <2>8 DEF Distinct
    <3>2. CASE b.host = new BY <2>5, <3>2
    <3>3. CASE b.host # new
      <4>1. cfIds[new] = Nobody BY <1>1, <3>3 DEF CanMigrate
      <4>2. place(i) # new BY <2>5, <4>1, CfNumbers
      <4>3. ids = Migrate(cfIds, b.host, new) BY <3>3
      <4>4. place(i) \in CfHosts /\ cfIds[place(i)] = bats[i].unit BY <2>5
      <4> HIDE DEF b, new, ids
      <4>5. Migrate(cfIds, b.host, new)[place(i)] = cfIds[place(i)] BY <1>5, <1>6, <3>1, <3>3, <4>2, <4>4, MigrateIs
      <4> QED BY <4>3, <4>4, <4>5
    <3> QED BY <3>2, <3>3
  <2>9. ids[new] = b.unit
    <3>1. cfIds[b.host] = b.unit BY <1>3, <2>5, <2>6
    <3> QED BY <1>5, <1>6, <3>1, MigrateIs
  <2>10. ASSUME NEW i \in 1..n PROVE ids[got[i].host] = bats[i].unit
    <3>1. CASE i = n BY <1>7, <1>8, <2>9, <3>1
    <3>2. CASE i \in 1..Len(cfFlow.got)
      <4>1. place(i) = got[i].host /\ i \in 1..Len(bats) /\ i # n BY <1>2, <2>6, <3>2
      <4> QED BY <2>8, <4>1
    <3> QED BY <1>8, <3>1, <3>2
  <2>11. ASSUME NEW i \in 1..Len(bats), i > n PROVE ids[bats[i].host] = bats[i].unit
    BY <2>7, <2>8, <2>11
  <2> QED BY <2>3, <2>4, <2>10, <2>11
<1> HIDE DEF ids
<1>11. CASE n < Len(bats)
  <2> DEFINE f == [Go("confirm") EXCEPT !.got = got]
  <2>1. /\ DOMAIN f = FlowFields /\ f.step = "confirm" /\ f.kind = cfFlow.kind
        /\ f.got = got /\ f.slots = cfFlow.slots /\ f.devs = cfFlow.devs
    BY FlowIs DEF Go, FlowFields
  <2>2. /\ cfIds' = ids /\ cfFlow' = f
        /\ UNCHANGED <<cfMake, cfNet, cfEntry, cfOpen, cfLease, cfKnown, cfTorn>>
    BY <1>1, <1>11
  <2> HIDE DEF f, n, bats
  <2>3. FlowTyped(f) BY <1>0, <1>8, <2>1, FlowIs DEF FlowTyped, Steps, Predictive
  <2>4. FlowAgrees(f) BY <2>1, FlowIs DEF FlowAgrees
  <2>5. CfTyped' BY <1>9, <2>2, <2>3 DEF CfInv, CfTyped
  <2>6. ASSUME ~cfTorn' PROVE CfSound'
    <3>1. ~cfTorn /\ CfSound BY <2>2, <2>6 DEF CfInv
    <3>2. FlowSound(f, bats, cfNet)
      BY <1>0, <1>8, <1>10, <1>11, <2>1, <3>1 DEF CfSound, FlowSound, bats
    <3>3. Placed(f, bats, ids)
      <4> SUFFICES ASSUME NEW i \in 1..Len(bats) PROVE ids[IdsAt(f, bats, i)] = bats[i].unit BY DEF Placed
      <4>1. CASE i <= n
        <5>1. IdsAt(f, bats, i) = got[i].host BY <1>0, <1>8, <2>1, <4>1 DEF IdsAt
        <5>2. i \in 1..n BY <1>3, <4>1
        <5> QED BY <1>10, <3>1, <5>1, <5>2
      <4>2. CASE ~(i <= n)
        <5>1. IdsAt(f, bats, i) = bats[i].host BY <1>0, <1>8, <2>1, <4>2 DEF IdsAt
        <5>2. i > n BY <1>3, <4>2
        <5> QED BY <1>10, <3>1, <5>1, <5>2
      <4> QED BY <4>1, <4>2
    <3>4. bats # <<>> BY <1>2, <1>3
    <3>5. EntrySound(bats, ids, cfKnown, cfLease) BY <3>1, <3>4 DEF CfSound, EntrySound, bats
    <3> QED BY <2>2, <3>2, <3>3, <3>5 DEF CfSound, bats
  <2> QED BY <2>2, <2>4, <2>5, <2>6 DEF CfInv
<1>12. CASE ~(n < Len(bats))
  <2> DEFINE entry == [cfEntry EXCEPT !.bats = got]
  <2>1. Saved(entry, ids, KnownFrom(got), FALSE) BY <1>1, <1>12
  <2>2. entry \in CfEntries /\ entry.bats = got /\ entry.slots = cfEntry.slots BY <1>8, FlowIs DEF CfEntries
  <2> HIDE DEF entry, n, bats
  <2>3. Len(got) = Len(bats) BY <1>2, <1>3, <1>8, <1>12
  <2>4. KnownFrom(got) \in [CfUnits -> CfHosts \cup {0}] BY <1>5, <1>8, KnownFromIs
  <2>5. SlotsAgree(entry.slots) BY <2>2 DEF CfInv
  <2>6. got # <<>> BY <1>2, <1>3, <1>8
  <2>7. ASSUME ~cfTorn
        PROVE  /\ Distinct(got) /\ Addressed(got, KnownFrom(got))
               /\ \A i \in 1..Len(got) : Registry(ids, got)[got[i].host] = got[i].unit
    <3>1. Distinct(got) /\ Addressed(got, KnownFrom(got)) BY <1>5, <1>8, <1>10, <2>7, KnownFromIs
    <3>2. ASSUME NEW i \in 1..Len(got) PROVE Registry(ids, got)[got[i].host] = got[i].unit
      <4>1. ids[got[i].host] = got[i].unit BY <1>8, <1>10, <2>7
      <4>2. got[i] \in CfBats BY <1>8
      <4>3. got[i].unit \in CfUnits /\ got[i].host \in CfHosts BY <4>2 DEF CfBats
      <4> QED BY <1>8, <1>9, <4>1, <4>3, RegistryIs, CfNumbers
    <3> QED BY <3>1, <3>2
  <2> QED BY <1>9, <2>1, <2>2, <2>4, <2>5, <2>6, <2>7, SavedKeeps
<1> QED BY <1>11, <1>12

-----------------------------------------------------------------------------
(* Dialogs that open and close, addresses that change, leases *)
LEMMA Opens == CfInv /\ CfOpen => CfInv'
<1> SUFFICES ASSUME CfInv, CfOpen PROVE CfInv' OBVIOUS
<1>1. PICK kind \in {"setup", "options", "reconfigure"}, step \in {"user", "menu", "confirm"} :
        /\ cfFlow' = [NoFlow EXCEPT !.kind = kind, !.step = step]
        /\ kind = "setup" <=> cfEntry.bats = <<>>
        /\ UNCHANGED <<cfMake, cfNet, cfEntry, cfIds, cfOpen, cfLease, cfKnown, cfTorn>>
  <2>1. CASE cfEntry.bats = <<>> BY <2>1 DEF CfOpen, Form
  <2>2. CASE cfEntry.bats # <<>>
    <3>1. PICK k \in {"options", "reconfigure"} :
            cfFlow' = [NoFlow EXCEPT !.kind = k, !.step = IF k = "options" THEN "menu" ELSE "confirm"]
      BY <2>2 DEF CfOpen
    <3>2. UNCHANGED <<cfMake, cfNet, cfEntry, cfIds, cfOpen, cfLease, cfKnown, cfTorn>> BY <2>2 DEF CfOpen
    <3>3. CASE k = "options" BY <2>2, <3>1, <3>2, <3>3
    <3>4. CASE k = "reconfigure" BY <2>2, <3>1, <3>2, <3>4
    <3> QED BY <3>3, <3>4
  <2> QED BY <2>1, <2>2
<1> DEFINE f == [NoFlow EXCEPT !.kind = kind, !.step = step]
<1>2. /\ DOMAIN f = FlowFields /\ f.step = step /\ f.kind = kind /\ f.got = <<>> /\ f.slots = <<>> /\ f.devs = 0
  BY DEF NoFlow, FlowFields
<1>3. cfFlow' = f BY <1>1
<1> HIDE DEF f
<1>4. FlowTyped(f) BY <1>2, CfNumbers DEF FlowTyped, Steps
<1>5. FlowAgrees(f) BY <1>2 DEF FlowAgrees, SlotsAgree
<1>6. ASSUME ~cfTorn PROVE Placed(f, cfEntry.bats, cfIds) /\ FlowSound(f, cfEntry.bats, cfNet)
  <2>0. CfSound /\ cfEntry.bats \in Seq(CfBats) BY <1>6, FlowIs DEF CfInv, CfEntries
  <2>1. cfFlow.kind = "none" BY DEF CfOpen
  <2>2. Placed(f, cfEntry.bats, cfIds) BY <1>2, <2>0, <2>1 DEF CfSound, Placed, IdsAt
  <2>3. FlowSound(f, cfEntry.bats, cfNet)
    <3>1. cfEntry.bats # <<>> => Len(cfEntry.bats) > 0 BY <2>0
    <3> QED BY <1>1, <1>2, <3>1 DEF FlowSound, Distinct
  <2> QED BY <2>2, <2>3
<1>7. cfOpen' \in [1..Len(cfEntry.bats) -> BOOLEAN] BY <1>1 DEF CfInv, CfTyped
<1> QED BY <1>1, <1>3, <1>4, <1>5, <1>6, <1>7, DialogKeeps

LEMMA Closes == CfInv /\ CfClose => CfInv'
<1> SUFFICES ASSUME CfInv, CfClose PROVE CfInv' OBVIOUS
<1>1. /\ cfFlow' = NoFlow /\ cfTorn' = (cfTorn \/ (cfFlow.kind = "reconfigure" /\ cfFlow.got # <<>>))
      /\ UNCHANGED <<cfMake, cfNet, cfEntry, cfIds, cfOpen, cfLease, cfKnown>>
  BY DEF CfClose
<1>2. FlowTyped(NoFlow) /\ FlowAgrees(NoFlow)
  BY CfNumbers DEF FlowTyped, NoFlow, FlowFields, Steps, Predictive, FlowAgrees, SlotsAgree
<1>3. CfTyped' BY <1>1, <1>2 DEF CfInv, CfTyped
<1>4. ASSUME ~cfTorn' PROVE CfSound'
  <2>1. CfSound /\ (cfFlow.kind = "reconfigure" => cfFlow.got = <<>>) BY <1>1, <1>4 DEF CfInv
  <2>2. Placed(NoFlow, cfEntry.bats, cfIds)
    BY <2>1 DEF CfSound, Placed, IdsAt, NoFlow
  <2>3. FlowSound(NoFlow, cfEntry.bats, cfNet) BY DEF FlowSound, NoFlow, Distinct
  <2> QED BY <1>1, <2>1, <2>2, <2>3 DEF CfSound
<1> QED BY <1>1, <1>2, <1>3, <1>4 DEF CfInv

LEMMA LeaseIs == CfInv => LeaseTyped(cfLease) /\ DOMAIN cfLease = LeaseFields /\ cfNet \in [CfUnits -> CfHosts]
BY DEF CfInv, CfTyped, LeaseTyped

(* What becomes of a lease, short of storing its address *)
LEMMA LeaseKeeps ==
  ASSUME CfInv, LeaseTyped(cfLease'), cfNet' \in [CfUnits -> CfHosts], \A u, v \in CfUnits : u # v => cfNet'[u] # cfNet'[v],
         cfOpen' \in [1..Len(cfEntry.bats) -> BOOLEAN], UNCHANGED <<cfMake, cfEntry, cfIds, cfFlow, cfKnown, cfTorn>>,
         cfNet' = cfNet \/ cfEntry.bats # <<>>,
         ~cfTorn => LeaseSound(cfLease', cfEntry.bats) /\ (cfEntry.bats = <<>> => cfLease'.at # "probing")
  PROVE  CfInv'
<1>1. CfTyped' BY DEF CfInv, CfTyped
<1>2. ASSUME ~cfTorn' PROVE CfSound'
  <2>1. CfSound BY <1>2 DEF CfInv
  <2>2. FlowSound(cfFlow, cfEntry.bats, cfNet') BY <2>1 DEF CfSound, FlowSound
  <2> QED BY <1>2, <2>1, <2>2 DEF CfSound, EntrySound
<1> QED BY <1>1, <1>2 DEF CfInv

LEMMA LeaseSteps == CfInv /\ (CfMove \/ LeaseRefused \/ LeaseProbes \/ LeaseSilent) => CfInv'
<1> SUFFICES ASSUME CfInv, CfMove \/ LeaseRefused \/ LeaseProbes \/ LeaseSilent PROVE CfInv' OBVIOUS
<1>0. /\ cfNet \in [CfUnits -> CfHosts] /\ (\A u, v \in CfUnits : u # v => cfNet[u] # cfNet[v])
      /\ cfOpen \in [1..Len(cfEntry.bats) -> BOOLEAN] /\ LeaseTyped(cfLease) /\ DOMAIN cfLease = LeaseFields
  BY DEF CfInv, CfTyped, LeaseTyped
<1>1. LeaseTyped(NoLease) /\ NoLease.at = "none" /\ DOMAIN NoLease = LeaseFields
  BY DEF LeaseTyped, NoLease, LeaseFields
<1>2. CASE CfMove
  <2>1. PICK u \in CfUnits, h \in CfHosts :
          /\ h \notin {cfNet[v] : v \in CfUnits} /\ cfNet' = [cfNet EXCEPT ![u] = h]
          /\ cfLease' = [NoLease EXCEPT !.at = "told", !.unit = u, !.host = h]
    BY <1>2 DEF CfMove
  <2>2. cfLease'.at = "told" /\ LeaseTyped(cfLease') BY <2>1 DEF LeaseTyped, NoLease, LeaseFields
  <2>3. cfNet' \in [CfUnits -> CfHosts] /\ \A v, w \in CfUnits : v # w => cfNet'[v] # cfNet'[w] BY <1>0, <2>1
  <2>4. cfEntry.bats # <<>> /\ UNCHANGED <<cfMake, cfEntry, cfIds, cfOpen, cfFlow, cfKnown, cfTorn>>
    BY <1>2 DEF CfMove
  <2>5. LeaseSound(cfLease', cfEntry.bats) BY <2>2 DEF LeaseSound
  <2> QED BY <1>0, <2>2, <2>3, <2>4, <2>5, LeaseKeeps
<1>3. CASE LeaseRefused
  <2>1. cfLease' = NoLease /\ UNCHANGED <<cfMake, cfNet, cfEntry, cfIds, cfOpen, cfFlow, cfKnown, cfTorn>>
    BY <1>3 DEF LeaseRefused
  <2>2. LeaseSound(cfLease', cfEntry.bats) BY <1>1, <2>1 DEF LeaseSound
  <2> QED BY <1>0, <1>1, <2>1, <2>2, LeaseKeeps
<1>4. CASE LeaseSilent
  <2>1. /\ cfLease' = NoLease /\ UNCHANGED <<cfMake, cfNet, cfEntry, cfIds, cfFlow, cfKnown, cfTorn>>
        /\ cfOpen' = [i \in DOMAIN cfOpen |-> cfOpen[i] \/ i = cfLease.index]
    BY <1>4 DEF LeaseSilent
  <2>2. LeaseSound(cfLease', cfEntry.bats) BY <1>1, <2>1 DEF LeaseSound
  <2>3. cfOpen' \in [1..Len(cfEntry.bats) -> BOOLEAN] BY <1>0, <2>1
  <2> QED BY <1>0, <1>1, <2>1, <2>2, <2>3, LeaseKeeps
<1>5. CASE LeaseProbes
  <2>1. PICK n \in Matches :
          /\ Verdict(n, FALSE) /\ cfLease' = [cfLease EXCEPT !.at = "probing", !.bats = cfEntry.bats, !.index = n]
          /\ cfOpen' = [cfOpen EXCEPT ![n] = FALSE]
    BY <1>5 DEF LeaseProbes
  <2>2. cfLease.at = "told" /\ UNCHANGED <<cfMake, cfNet, cfEntry, cfIds, cfFlow, cfKnown, cfTorn>> BY <1>5 DEF LeaseProbes
  <2>3. n \in 1..Len(cfEntry.bats) /\ cfEntry.bats[n].unit = cfLease.unit /\ cfEntry.bats[n].host # cfLease.host
    BY <2>1 DEF Matches, Verdict
  <2>4. /\ DOMAIN cfLease' = LeaseFields /\ cfLease'.at = "probing" /\ cfLease'.bats = cfEntry.bats
        /\ cfLease'.unit = cfLease.unit /\ cfLease'.host = cfLease.host
    BY <1>0, <2>1 DEF LeaseFields
  <2>5. LeaseTyped(cfLease') BY <1>0, <2>2, <2>3, <2>4, FlowIs DEF LeaseTyped, CfEntries
  <2>6. ASSUME ~cfTorn PROVE LeaseSound(cfLease', cfEntry.bats) /\ cfEntry.bats # <<>>
    <3>1. Distinct(cfEntry.bats) BY <2>6 DEF CfInv, CfSound, EntrySound
    <3>2. \A i \in 1..Len(cfEntry.bats) : cfEntry.bats[i].unit = cfLease.unit => i = n BY <2>3, <3>1 DEF Distinct
    <3> QED BY <2>3, <2>4, <3>2 DEF LeaseSound
  <2>7. cfOpen' \in [1..Len(cfEntry.bats) -> BOOLEAN] BY <1>0, <2>1
  <2> QED BY <1>0, <2>2, <2>5, <2>6, <2>7, LeaseKeeps
<1> QED BY <1>2, <1>3, <1>4, <1>5

(* A lease stores the new address: of the list it read before its probe, which is still the stored one
   unless the entry is torn *)
LEMMA LeaseMoved == CfInv /\ LeaseMoves => CfInv'
<1> SUFFICES ASSUME CfInv, LeaseMoves PROVE CfInv' OBVIOUS
<1> DEFINE old == cfLease.bats
           n == CHOOSE j \in 1..Len(old) : old[j].unit = cfLease.unit
           was == old[n].host
           new == cfLease.host
           bats == [old EXCEPT ![n].host = new]
           entry == [cfEntry EXCEPT !.bats = bats]
           ids == Migrate(cfIds, was, new)
<1>1. /\ cfLease.at = "probing" /\ CanMigrate(cfIds, was, new) /\ Stored(entry, ids)
      /\ cfKnown' = [cfKnown EXCEPT ![cfLease.unit] = new] /\ cfTorn' = (cfTorn \/ HoldsList)
      /\ cfLease' = NoLease /\ cfFlow' = [cfFlow EXCEPT !.at = IF cfFlow.step = "testing" THEN 0 ELSE @]
      /\ UNCHANGED <<cfMake, cfNet>>
  BY DEF LeaseMoves
<1>2. /\ old \in Seq(CfBats) /\ cfLease.unit \in CfUnits /\ new \in CfHosts /\ Len(old) \in Nat
      /\ \E i \in 1..Len(old) : old[i].unit = cfLease.unit
  BY <1>1, LeaseIs DEF LeaseTyped
<1>3. n \in 1..Len(old) /\ old[n].unit = cfLease.unit BY <1>2
<1> HIDE DEF n, old, new
<1>4. old[n] \in CfBats BY <1>2, <1>3
<1>5. was \in CfHosts BY <1>4 DEF CfBats
<1>6. /\ [old[n] EXCEPT !.host = new] \in CfBats /\ [old[n] EXCEPT !.host = new].host = new
      /\ [old[n] EXCEPT !.host = new].unit = cfLease.unit
  BY <1>2, <1>3, <1>4 DEF CfBats
<1> DEFINE moved == [old[n] EXCEPT !.host = new]
<1>7. bats = [old EXCEPT ![n] = moved] OBVIOUS
<1> HIDE DEF moved
<1>8. /\ bats \in Seq(CfBats) /\ Len(bats) = Len(old) /\ bats[n] = moved
      /\ \A i \in 1..Len(old) : i # n => bats[i] = old[i]
  BY <1>2, <1>3, <1>6, <1>7 DEF moved
<1> HIDE DEF bats
<1>9. entry \in CfEntries /\ entry.bats = bats /\ entry.slots = cfEntry.slots BY <1>8, FlowIs DEF CfEntries
<1> HIDE DEF entry
<1>10. cfIds \in CfIds /\ cfKnown \in [CfUnits -> CfHosts \cup {0}] BY DEF CfInv, CfTyped
<1>11. ids \in CfIds BY <1>2, <1>5, <1>10 DEF Migrate, CfIds
<1>12. /\ cfEntry' = entry /\ cfIds' = Registry(ids, bats) /\ cfOpen' = [i \in 1..Len(bats) |-> TRUE]
  BY <1>1, <1>9 DEF Stored
<1>13. /\ DOMAIN cfFlow' = DOMAIN cfFlow /\ cfFlow'.kind = cfFlow.kind /\ cfFlow'.step = cfFlow.step
       /\ cfFlow'.got = cfFlow.got /\ cfFlow'.slots = cfFlow.slots /\ cfFlow'.devs = cfFlow.devs
       /\ cfFlow'.cur = cfFlow.cur /\ cfFlow'.pend = cfFlow.pend
  BY <1>1, FlowIs DEF FlowFields
<1>14. FlowTyped(cfFlow') /\ FlowAgrees(cfFlow') BY <1>13, FlowIs DEF FlowTyped, FlowAgrees
<1>15. LeaseTyped(NoLease) /\ NoLease.at = "none" BY DEF LeaseTyped, NoLease, LeaseFields
<1>16. CfTyped'
  <2>1. cfIds' \in CfIds BY <1>8, <1>11, <1>12, RegistryIs
  <2>2. cfKnown' \in [CfUnits -> CfHosts \cup {0}] BY <1>1, <1>2, <1>10
  <2>3. cfTorn' \in BOOLEAN /\ LeaseTyped(cfLease') /\ cfOpen' \in [1..Len(cfEntry'.bats) -> BOOLEAN] /\ cfEntry' \in CfEntries
    BY <1>1, <1>9, <1>12, <1>15 DEF CfInv, CfTyped
  <2>4. cfMake' \in CfMakes /\ cfNet' = cfNet BY <1>1 DEF CfInv, CfTyped
  <2> QED BY <1>14, <2>1, <2>2, <2>3, <2>4 DEF CfInv, CfTyped
<1>17. ASSUME ~cfTorn' PROVE CfSound'
  <2>1. CfSound /\ cfFlow.got = <<>> /\ cfFlow.step # "testing" BY <1>1, <1>17 DEF CfInv, HoldsList
  <2>2. old = cfEntry.bats /\ was # new BY <1>1, <1>3, <2>1 DEF CfSound, EntrySound, LeaseSound, old, new
  <2>3. Distinct(old) /\ Addressed(old, cfKnown) BY <2>1, <2>2 DEF CfSound, EntrySound
  <2>4. ASSUME NEW i \in 1..Len(old)
        PROVE  cfIds[old[i].host] = old[i].unit /\ old[i].host \in CfHosts /\ old[i].unit \in CfUnits
    <3>1. cfIds[old[i].host] = old[i].unit
      <4>1. FlowTyped(cfFlow) BY FlowIs
      <4>2. ~(cfFlow.kind = "reconfigure" /\ i <= Len(cfFlow.got)) BY <2>1
      <4> QED BY <2>1, <2>2, <4>2 DEF CfSound, Placed, IdsAt
    <3>2. old[i] \in CfBats BY <1>2
    <3> QED BY <3>1, <3>2 DEF CfBats
  <2>5. \A i \in 1..Len(bats) : bats[i].unit = old[i].unit BY <1>3, <1>6, <1>8 DEF moved
  <2>6. bats[n].host = new BY <1>6, <1>8 DEF moved
  <2>7. Distinct(bats) BY <1>8, <2>3, <2>5 DEF Distinct
  <2>8. Addressed(bats, cfKnown')
    <3> SUFFICES ASSUME NEW i \in 1..Len(bats) PROVE bats[i].host = cfKnown'[bats[i].unit] BY DEF Addressed
    <3>1. CASE i = n BY <1>1, <1>2, <1>3, <1>10, <2>5, <2>6, <3>1
    <3>2. CASE i # n
      <4>1. bats[i] = old[i] /\ i \in 1..Len(old) /\ old[i].unit # cfLease.unit BY <1>3, <1>8, <2>3, <3>2 DEF Distinct
      <4> QED BY <1>1, <1>10, <2>3, <2>4, <4>1 DEF Addressed
    <3> QED BY <3>1, <3>2
  <2>9. ASSUME NEW i \in 1..Len(bats) PROVE cfIds'[bats[i].host] = bats[i].unit
    <3>1. ids[bats[i].host] = bats[i].unit
      <4>1. CASE i = n
        <5>1. ids[new] = cfIds[was] BY <1>2, <1>5, <1>10, <2>2, MigrateIs
        <5> QED BY <1>3, <2>4, <2>5, <2>6, <4>1, <5>1
      <4>2. CASE i # n
        <5>1. bats[i] = old[i] /\ i \in 1..Len(old) BY <1>8, <4>2
        <5>2. old[i].host # was BY <1>3, <2>3, <2>4, <4>2, <5>1 DEF Distinct
        <5>3. old[i].host # new BY <1>1, <2>2, <2>4, <5>1, CfNumbers DEF CanMigrate
        <5>4. old[i].host \in CfHosts /\ cfIds[old[i].host] = old[i].unit BY <2>4, <5>1
        <5>5. Migrate(cfIds, was, new)[old[i].host] = cfIds[old[i].host]
          <6> HIDE DEF was
          <6> QED BY <1>2, <1>5, <1>10, <2>2, <5>2, <5>3, <5>4, MigrateIs
        <5> QED BY <5>1, <5>4, <5>5
      <4> QED BY <4>1, <4>2
    <3>2. bats[i] \in CfBats BY <1>8
    <3>3. bats[i].unit \in CfUnits /\ bats[i].host \in CfHosts BY <3>2 DEF CfBats
    <3> QED BY <1>8, <1>11, <1>12, <3>1, <3>3, RegistryIs, CfNumbers
  <2>10. bats # <<>> BY <1>2, <1>3, <1>8
  <2>11. EntrySound(bats, cfIds', cfKnown', cfLease')
    BY <1>1, <1>15, <2>7, <2>8, <2>10 DEF EntrySound, LeaseSound
  <2>12. Placed(cfFlow', bats, cfIds')
    <3>1. \A i \in 1..Len(bats) : IdsAt(cfFlow', bats, i) = bats[i].host BY <1>13, <2>1 DEF IdsAt
    <3> QED BY <2>9, <3>1 DEF Placed
  <2>13. FlowSound(cfFlow', bats, cfNet)
    <3>1. Len(bats) = Len(cfEntry.bats) /\ cfEntry.bats # <<>> BY <1>8, <2>2, <1>2, <1>3
    <3>2. cfFlow.kind # "setup" /\ ~(cfFlow.kind = "options" /\ cfFlow.step = "assign")
      BY <2>1, <3>1 DEF CfSound, FlowSound
    <3> QED BY <1>13, <2>1, <2>5, <2>10, <3>1, <3>2 DEF CfSound, FlowSound
  <2> QED BY <1>1, <1>9, <1>12, <2>11, <2>12, <2>13 DEF CfSound
<1>18. SlotsAgree(cfEntry'.slots) BY <1>9, <1>12 DEF CfInv
<1> QED BY <1>14, <1>16, <1>17, <1>18 DEF CfInv

-----------------------------------------------------------------------------
LEMMA CfSteps == CfInv /\ [CfNext]_cfVars => CfInv'
<1> SUFFICES ASSUME CfInv, [CfNext]_cfVars PROVE CfInv' OBVIOUS
<1>1. CASE UNCHANGED cfVars BY <1>1 DEF cfVars, CfInv, CfTyped, CfSound
<1>2. CASE SetupStep
  BY <1>2, SetupForms, AskForms, Connections, LimitSteps, SlotSteps, SetupRest
  DEF SetupStep, SetupCount, SetupBrand, SetupMarstek, SetupZendure, SetupEsphome, SetupSessy, SetupHuawei,
      SetupHuaweiSlave, SetupHoymiles, SetupAnker, SetupAddSlot, SetupSlotDetails
<1>3. CASE OptionsStep
  BY <1>3, SetupForms, AskForms, Connections, OptionsTests, LimitSteps, SlotSteps, OptionsPages, Menus, Phases, Removes
  DEF OptionsStep, OptionsCount, OptionsBrand, OptionsZendure, OptionsSessy, OptionsEsphome, OptionsHuawei,
      OptionsHuaweiSlave, OptionsHoymiles, OptionsAnker, OptionsAddSlot, OptionsSlotDetails
<1>4. CASE ReconfigureStep
  BY <1>4, SetupForms, Reconfigures
  DEF ReconfigureStep, ReconfigureMarstek, ReconfigureZendure, ReconfigureSessy, ReconfigureEsphome, ReconfigureAnker,
      ReconfigureHoymiles, ReconfigureHuawei, ReconfigureHuaweiSlave
<1> QED BY <1>1, <1>2, <1>3, <1>4, Opens, Closes, LeaseSteps, LeaseMoved DEF CfNext

(* What dialogs, leases and reconfigurations leave stored is consistent, however many run into each   *)
(* other: each battery under its last address, the ids of that address its own, unless a dialog had   *)
(* the list in hand, and the slots never contradict each other (config_flow.py, mac_tracking.py).     *)
THEOREM EntryCorrect == CfSpec => []EntryConsistent
<1>1. CfInv => EntryConsistent
  <2> SUFFICES ASSUME CfInv PROVE EntryConsistent OBVIOUS
  <2>1. /\ cfEntry.bats \in Seq(CfBats) /\ cfEntry.slots \in Seq(Slots) /\ cfEntry.devs \in 0..CfMaxDevs /\ cfEntry.mode \in Modes
    BY FlowIs DEF CfEntries
  <2>2. CfTypeOK
    <3>1. \A i \in 1..Len(cfEntry.bats) : cfEntry.bats[i] \in [unit: CfUnits, host: CfHosts]
      <4>1. \A i \in 1..Len(cfEntry.bats) : cfEntry.bats[i] \in CfBats BY <2>1
      <4> QED BY <4>1 DEF CfBats
    <3>2. \A i \in 1..Len(cfEntry.slots) : cfEntry.slots[i] \in Slots
      <4> HIDE DEF Slots
      <4> QED BY <2>1
    <3>3. cfIds \in [CfHosts -> CfUnits \cup {Nobody, "blank"}] BY DEF CfInv, CfTyped, CfIds, Blank
    <3> QED BY <2>1, <3>1, <3>2, <3>3 DEF CfInv, CfTyped, CfTypeOK, FlowTyped, LeaseTyped
  <2>3. AddressKept BY DEF CfInv, CfSound, EntrySound, Addressed, AddressKept
  <2>4. HistoryFollows
    <3>1. ASSUME ~cfTorn, ~(cfFlow.kind = "reconfigure" /\ cfFlow.got # <<>>), NEW i \in 1..Len(cfEntry.bats)
          PROVE  cfIds[cfEntry.bats[i].host] = cfEntry.bats[i].unit
      <4>1. Placed(cfFlow, cfEntry.bats, cfIds) BY <3>1 DEF CfInv, CfSound
      <4>2. ~(cfFlow.kind = "reconfigure" /\ i <= Len(cfFlow.got)) BY <3>1
      <4> QED BY <4>1, <4>2 DEF Placed, IdsAt
    <3> QED BY <3>1 DEF HistoryFollows
  <2>5. SlotsDisjoint BY DEF CfInv, SlotsAgree, SlotsOverlap, SlotsDisjoint
  <2> QED BY <2>2, <2>3, <2>4, <2>5 DEF EntryConsistent
<1> QED BY <1>1, CfStarts, CfSteps, PTL DEF CfSpec

-----------------------------------------------------------------------------
(* DailyTally.  What a history is made of: records, each day at most once. *)
DtDay == (1 - DtWindow)..DtDays
DtRec == [day: DtDay, kind: Kinds]
Recs(h) == {h[i] : i \in 1..Len(h)}
Once(h) == \A i, j \in 1..Len(h) : h[i].day = h[j].day => i = j
Book(h) == h \in Seq(DtRec) /\ Once(h)
(* The places of w hold records of h, each place of h used once at most *)
Drawn(w, h) ==
    \E at \in [1..Len(w) -> 1..Len(h)] :
        /\ \A p, q \in 1..Len(w) : at[p] = at[q] => p = q
        /\ \A p \in 1..Len(w) : w[p] = h[at[p]]

(* The records at the places S, in the order R *)
Ranked(h, S, R) == [p \in 1..Cardinality(S) |-> h[CHOOSE i \in S : Cardinality({j \in S : <<j, i>> \in R}) = p - 1]]
AllRanks(S, R) == \A p \in 1..Cardinality(S) : \E i \in S : Cardinality({j \in S : <<j, i>> \in R}) = p - 1

\* In a strict order of a finite set every rank is taken: what a sort by CHOOSE rests on.
LEMMA RanksTaken ==
    ASSUME NEW S, IsFiniteSet(S), NEW R,
           \A i, j \in S : i # j => <<i, j>> \in R \/ <<j, i>> \in R,
           \A i \in S : <<i, i>> \notin R,
           \A i, j, k \in S : <<i, j>> \in R /\ <<j, k>> \in R => <<i, k>> \in R
    PROVE  AllRanks(S, R)
<1> DEFINE n == Cardinality(S)
           below(i) == {j \in S : <<j, i>> \in R}
           rank == [i \in S |-> Cardinality(below(i)) + 1]
<1>1. n \in Nat
  BY FS_CardinalityType
<1>2. ASSUME NEW i \in S PROVE IsFiniteSet(below(i)) /\ Cardinality(below(i)) \in Int /\ Cardinality(below(i)) \in 0 .. n - 1
  <2>1. IsFiniteSet(S \ {i}) /\ Cardinality(S \ {i}) = n - 1
    BY FS_RemoveElement
  <2>2. below(i) \in SUBSET (S \ {i})
    OBVIOUS
  <2> HIDE DEF below
  <2>3. IsFiniteSet(below(i)) /\ Cardinality(below(i)) <= Cardinality(S \ {i})
    BY <2>1, <2>2, FS_Subset
  <2>4. Cardinality(below(i)) \in Nat
    BY <2>3, FS_CardinalityType
  <2> QED BY <1>1, <2>1, <2>3, <2>4
<1>3. ASSUME NEW i \in S, NEW j \in S, <<i, j>> \in R PROVE Cardinality(below(i)) # Cardinality(below(j))
  <2>1. below(i) \in SUBSET below(j) /\ i \in below(j) /\ i \notin below(i)
    BY <1>3
  <2>2. IsFiniteSet(below(j))
    BY <1>2
  <2> HIDE DEF below
  <2> QED BY <2>1, <2>2, FS_Subset
<1>4. rank \in [S -> 1..n]
  <2> HIDE DEF below, n
  <2>1. ASSUME NEW i \in S PROVE Cardinality(below(i)) + 1 \in 1..n
    BY <1>1, <1>2
  <2> QED BY <2>1
<1>5. \A i, j \in S : rank[i] = rank[j] => i = j
  <2> SUFFICES ASSUME NEW i \in S, NEW j \in S, rank[i] = rank[j], i # j PROVE FALSE
    OBVIOUS
  <2>0. Cardinality(below(i)) \in Int /\ Cardinality(below(j)) \in Int
    BY <1>2
  <2> HIDE DEF below
  <2>1. Cardinality(below(i)) = Cardinality(below(j))
    BY <2>0
  <2>2. <<i, j>> \in R \/ <<j, i>> \in R
    OBVIOUS
  <2> QED BY <1>3, <2>1, <2>2
<1>6. rank \in Injection(S, 1..n)
  <2> HIDE DEF rank
  <2> QED BY <1>4, <1>5 DEF Injection, IsInjective
<1>7. IsFiniteSet(1..n) /\ Cardinality(1..n) = n
  BY <1>1, FS_Interval
<1>8. rank \in Surjection(S, 1..n)
  <2> HIDE DEF rank
  <2> QED BY <1>6, <1>7, FS_Injection
<1>9. \A p \in 1..n : \E i \in S : rank[i] = p
  <2> HIDE DEF rank
  <2> QED BY <1>8 DEF Surjection
<1> SUFFICES ASSUME NEW p \in 1..n PROVE \E i \in S : Cardinality(below(i)) = p - 1
  BY DEF AllRanks
<1>10. PICK i \in S : rank[i] = p
  <2> HIDE DEF rank
  <2> QED BY <1>9
<1>11. Cardinality(below(i)) + 1 = p /\ Cardinality(below(i)) \in Int
  <2> HIDE DEF below, n
  <2>1. rank[i] = Cardinality(below(i)) + 1
    OBVIOUS
  <2> QED BY <1>2, <1>10, <2>1
<1> HIDE DEF below
<1> QED BY <1>1, <1>11

\* The list that gives each rank its record uses each place once.
LEMMA RankedDrawn ==
    ASSUME NEW h \in Seq(DtRec), NEW S \in SUBSET (1..Len(h)), NEW R,
           AllRanks(S, R)
    PROVE  /\ Ranked(h, S, R) \in Seq(DtRec)
           /\ Len(Ranked(h, S, R)) = Cardinality(S)
           /\ Drawn(Ranked(h, S, R), h)
<1> DEFINE w == Ranked(h, S, R)
<1> DEFINE n == Cardinality(S)
           rank(i) == Cardinality({j \in S : <<j, i>> \in R})
           at == [p \in 1..n |-> CHOOSE i \in S : rank(i) = p - 1]
<1>0. Len(h) \in Nat
  OBVIOUS
<1>1. n \in Nat
  <2>1. IsFiniteSet(1..Len(h))
    BY <1>0, FS_Interval
  <2>2. IsFiniteSet(S)
    BY <2>1, FS_Subset
  <2> QED BY <2>2, FS_CardinalityType
<1>2. ASSUME NEW p \in 1..n PROVE at[p] \in S /\ rank(at[p]) = p - 1
  <2>1. \E i \in S : rank(i) = p - 1
    BY DEF AllRanks
  <2>2. at[p] = CHOOSE i \in S : rank(i) = p - 1
    OBVIOUS
  <2> HIDE DEF at, rank
  <2> QED BY <2>1, <2>2
<1>3. w = [p \in 1..n |-> h[at[p]]]
  BY DEF Ranked
<1> HIDE DEF n, at, rank, w
<1>4. \A p \in 1..n : at[p] \in 1..Len(h) /\ w[p] = h[at[p]] /\ h[at[p]] \in DtRec
  <2> SUFFICES ASSUME NEW p \in 1..n PROVE at[p] \in 1..Len(h) /\ w[p] = h[at[p]] /\ h[at[p]] \in DtRec
    OBVIOUS
  <2>1. at[p] \in 1..Len(h)
    BY <1>2
  <2>2. h[at[p]] \in DtRec
    BY <2>1
  <2> QED BY <1>3, <2>1, <2>2
<1>5. w \in [1..n -> DtRec]
  BY <1>3, <1>4
<1>6. w \in Seq(DtRec) /\ Len(w) = n
  <2>1. w \in Seq(DtRec)
    BY <1>1, <1>5, SeqDef
  <2>2. DOMAIN w = 1..n /\ Len(w) \in Nat /\ DOMAIN w = 1..Len(w)
    BY <1>5, <2>1, LenProperties
  <2>3. n = Len(w)
    BY <1>1, <2>2, FS_Interval
  <2> QED BY <2>1, <2>3
<1>7. \A p, q \in 1..n : at[p] = at[q] => p = q
  <2> SUFFICES ASSUME NEW p \in 1..n, NEW q \in 1..n, at[p] = at[q] PROVE p = q
    OBVIOUS
  <2>1. p - 1 = q - 1
    BY <1>2
  <2> QED BY <1>1, <2>1
<1>8. Drawn(w, h)
  <2> DEFINE to == [p \in 1..n |-> at[p]]
  <2>1. to \in [1..Len(w) -> 1..Len(h)]
    BY <1>4, <1>6
  <2>2. \A p \in 1..Len(w) : to[p] = at[p]
    BY <1>6
  <2> HIDE DEF to
  <2>3. \A p, q \in 1..Len(w) : to[p] = to[q] => p = q
    BY <1>6, <1>7, <2>2
  <2>4. \A p \in 1..Len(w) : w[p] = h[to[p]]
    BY <1>4, <1>6, <2>2
  <2> QED BY <2>1, <2>3, <2>4 DEF Drawn
<1> QED BY <1>6, <1>8 DEF n, w

\* A sorted history is the history in another order.
LEMMA SortedDrawn ==
    ASSUME NEW h \in Seq(DtRec)
    PROVE  Sorted(h) \in Seq(DtRec) /\ Len(Sorted(h)) = Len(h) /\ Drawn(Sorted(h), h)
<1> DEFINE S == 1..Len(h)
           R == {x \in S \X S : h[x[1]].day < h[x[2]].day \/ (h[x[1]].day = h[x[2]].day /\ x[1] < x[2])}
<1>0. Len(h) \in Nat /\ DOMAIN h = S
  OBVIOUS
<1>1. IsFiniteSet(S) /\ Cardinality(S) = Len(h)
  BY <1>0, FS_Interval
<1>2. \A i \in S : h[i].day \in Int
  <2> SUFFICES ASSUME NEW i \in S PROVE h[i].day \in Int
    OBVIOUS
  <2>1. h[i] \in DtRec
    OBVIOUS
  <2>2. h[i].day \in DtDay
    BY <2>1 DEF DtRec
  <2> QED BY <2>2, DtAssumption DEF DtDay
<1>3. \A i, j \in S : i # j => <<i, j>> \in R \/ <<j, i>> \in R
  BY <1>0, <1>2
<1>4. \A i \in S : <<i, i>> \notin R
  BY <1>0, <1>2
<1>5. \A i, j, k \in S : <<i, j>> \in R /\ <<j, k>> \in R => <<i, k>> \in R
  BY <1>0, <1>2
<1>6. \A i \in S : {j \in S : h[j].day < h[i].day \/ (h[j].day = h[i].day /\ j < i)} = {j \in S : <<j, i>> \in R}
  OBVIOUS
<1>7. \A i \in S : Earlier(h, i) = Cardinality({j \in S : <<j, i>> \in R})
  BY <1>0, <1>6 DEF Earlier
<1> HIDE DEF R
<1>8. AllRanks(S, R)
  <2> HIDE DEF S
  <2> QED BY <1>1, <1>3, <1>4, <1>5, RanksTaken
<1>9. Sorted(h) = Ranked(h, S, R)
  <2>1. \A p \in S : (CHOOSE i \in S : Earlier(h, i) = p - 1) = CHOOSE i \in S : Cardinality({j \in S : <<j, i>> \in R}) = p - 1
    <3> HIDE DEF S
    <3> QED BY <1>7
  <2>2. Sorted(h) = [p \in S |-> h[CHOOSE i \in S : Earlier(h, i) = p - 1]]
    BY <1>0 DEF Sorted
  <2>3. 1..Cardinality(S) = S
    BY <1>1
  <2> QED BY <2>1, <2>2, <2>3 DEF Ranked
<1>10. Ranked(h, S, R) \in Seq(DtRec) /\ Len(Ranked(h, S, R)) = Cardinality(S) /\ Drawn(Ranked(h, S, R), h)
  <2>1. S \in SUBSET (1..Len(h))
    OBVIOUS
  <2> HIDE DEF S
  <2> QED BY <1>8, <2>1, RankedDrawn
<1> QED BY <1>1, <1>9, <1>10

\* Taking days out leaves the other records, in their order.
LEMMA WithoutDrawn ==
    ASSUME NEW h \in Seq(DtRec), NEW days
    PROVE  Without(h, days) \in Seq(DtRec) /\ Drawn(Without(h, days), h)
<1> DEFINE S == {i \in 1..Len(h) : h[i].day \notin days}
           R == {x \in S \X S : x[1] < x[2]}
<1>0. Len(h) \in Nat /\ DOMAIN h = 1..Len(h)
  OBVIOUS
<1>1. S \in SUBSET (1..Len(h)) /\ IsFiniteSet(S)
  <2>1. IsFiniteSet(1..Len(h))
    BY <1>0, FS_Interval
  <2>2. S \in SUBSET (1..Len(h))
    OBVIOUS
  <2> HIDE DEF S
  <2> QED BY <2>1, <2>2, FS_Subset
<1> DEFINE v == [p \in 1..Cardinality(S) |-> h[CHOOSE i \in S : Cardinality({j \in S : j < i}) = p - 1]]
<1>2. Without(h, days) = v
  BY <1>0 DEF Without
<1> HIDE DEF S
<1>3. \A i \in S : i \in Int
  BY <1>0, <1>1
<1>4. \A i, j \in S : i # j => <<i, j>> \in R \/ <<j, i>> \in R
  BY <1>3
<1>5. \A i \in S : <<i, i>> \notin R
  BY <1>3
<1>6. \A i, j, k \in S : <<i, j>> \in R /\ <<j, k>> \in R => <<i, k>> \in R
  BY <1>3
<1>7. \A i \in S : {j \in S : j < i} = {j \in S : <<j, i>> \in R}
  OBVIOUS
<1> HIDE DEF R
<1>8. v = Ranked(h, S, R)
  <2> DEFINE E(i) == Cardinality({j \in S : j < i})
             F(i) == Cardinality({j \in S : <<j, i>> \in R})
  <2>1. \A i \in S : E(i) = F(i)
    BY <1>7
  <2>2. v = [p \in 1..Cardinality(S) |-> h[CHOOSE i \in S : E(i) = p - 1]]
    OBVIOUS
  <2>3. Ranked(h, S, R) = [p \in 1..Cardinality(S) |-> h[CHOOSE i \in S : F(i) = p - 1]]
    BY DEF Ranked
  <2> HIDE DEF E, F, v
  <2>4. \A p \in 1..Cardinality(S) : (CHOOSE i \in S : E(i) = p - 1) = CHOOSE i \in S : F(i) = p - 1
    BY <2>1
  <2> QED BY <2>2, <2>3, <2>4
<1>9. AllRanks(S, R)
  BY <1>1, <1>4, <1>5, <1>6, RanksTaken
<1> HIDE DEF v
<1>10. Ranked(h, S, R) \in Seq(DtRec) /\ Drawn(Ranked(h, S, R), h)
  BY <1>1, <1>9, RankedDrawn
<1> QED BY <1>2, <1>8, <1>10

\* What is drawn from what is drawn is drawn.
LEMMA DrawnOfDrawn ==
    ASSUME NEW u, NEW w, NEW h, Drawn(u, w), Drawn(w, h) PROVE Drawn(u, h)
<1>1. PICK f \in [1..Len(u) -> 1..Len(w)] : /\ \A p, q \in 1..Len(u) : f[p] = f[q] => p = q
                                            /\ \A p \in 1..Len(u) : u[p] = w[f[p]]
  BY DEF Drawn
<1>2. PICK g \in [1..Len(w) -> 1..Len(h)] : /\ \A p, q \in 1..Len(w) : g[p] = g[q] => p = q
                                            /\ \A p \in 1..Len(w) : w[p] = h[g[p]]
  BY DEF Drawn
<1> DEFINE fg == [p \in 1..Len(u) |-> g[f[p]]]
<1>3. fg \in [1..Len(u) -> 1..Len(h)]
  OBVIOUS
<1>4. \A p \in 1..Len(u) : fg[p] = g[f[p]] /\ f[p] \in 1..Len(w)
  OBVIOUS
<1> HIDE DEF fg
<1>5. \A p, q \in 1..Len(u) : fg[p] = fg[q] => p = q
  BY <1>1, <1>2, <1>4
<1>6. \A p \in 1..Len(u) : u[p] = h[fg[p]]
  BY <1>1, <1>2, <1>4
<1> QED BY <1>3, <1>5, <1>6 DEF Drawn

\* A stretch of a list is drawn from it.
LEMMA SubSeqDrawn ==
    ASSUME NEW h \in Seq(DtRec), NEW m \in 1..(Len(h) + 1)
    PROVE  SubSeq(h, m, Len(h)) \in Seq(DtRec) /\ Drawn(SubSeq(h, m, Len(h)), h)
<1> DEFINE w == SubSeq(h, m, Len(h))
<1>0. Len(h) \in Nat
  OBVIOUS
<1>1. w \in Seq(DtRec) /\ Len(w) = Len(h) - m + 1 /\ \A i \in 1..(Len(h) - m + 1) : w[i] = h[m + i - 1]
  <2>1. w \in Seq(DtRec)
    BY <1>0
  <2>2. Len(w) = IF m <= Len(h) THEN Len(h) - m + 1 ELSE 0
    BY <1>0
  <2>3. \A i \in 1..(Len(h) - m + 1) : w[i] = h[m + i - 1]
    BY <1>0
  <2> HIDE DEF w
  <2> QED BY <1>0, <2>1, <2>2, <2>3
<1> HIDE DEF w
<1> DEFINE at == [p \in 1..Len(w) |-> m + p - 1]
<1>2. at \in [1..Len(w) -> 1..Len(h)]
  BY <1>0, <1>1
<1>3. \A p \in 1..Len(w) : at[p] = m + p - 1 /\ p \in Int
  BY <1>0, <1>1
<1> HIDE DEF at
<1>4. \A p, q \in 1..Len(w) : at[p] = at[q] => p = q
  BY <1>3
<1>5. \A p \in 1..Len(w) : w[p] = h[at[p]]
  BY <1>1, <1>3
<1>6. Drawn(w, h)
  BY <1>2, <1>4, <1>5 DEF Drawn
<1> QED BY <1>1, <1>6 DEF w

\* The last DtWindow days are drawn from the history.
LEMMA LatestDrawn ==
    ASSUME NEW h \in Seq(DtRec) PROVE Latest(h) \in Seq(DtRec) /\ Drawn(Latest(h), h)
<1> DEFINE s == Sorted(h)
           m == IF Len(s) > DtWindow THEN Len(s) - DtWindow + 1 ELSE 1
<1>1. s \in Seq(DtRec) /\ Len(s) = Len(h) /\ Drawn(s, h)
  BY SortedDrawn
<1>2. Latest(h) = SubSeq(s, m, Len(s))
  BY DEF Latest
<1> HIDE DEF s
<1>3. Len(s) \in Nat
  BY <1>1
<1>4. m \in 1..(Len(s) + 1)
  BY <1>3, DtAssumption
<1> HIDE DEF m
<1>5. SubSeq(s, m, Len(s)) \in Seq(DtRec) /\ Drawn(SubSeq(s, m, Len(s)), s)
  BY <1>1, <1>4, SubSeqDrawn
<1> DEFINE l == Latest(h)
<1>6. l \in Seq(DtRec) /\ Drawn(l, s)
  BY <1>2, <1>5
<1> HIDE DEF l
<1>7. Drawn(l, h)
  BY <1>1, <1>6, DrawnOfDrawn
<1> QED BY <1>6, <1>7 DEF l

\* Drawing repeats no day and brings in no record.
LEMMA DrawnKeeps ==
    ASSUME NEW w, NEW h, Drawn(w, h)
    PROVE  Recs(w) \subseteq Recs(h) /\ (Once(h) => Once(w))
<1>1. PICK at \in [1..Len(w) -> 1..Len(h)] : /\ \A p, q \in 1..Len(w) : at[p] = at[q] => p = q
                                             /\ \A p \in 1..Len(w) : w[p] = h[at[p]]
  BY DEF Drawn
<1>2. Recs(w) \subseteq Recs(h)
  BY <1>1 DEF Recs
<1>3. ASSUME Once(h) PROVE Once(w)
  <2> SUFFICES ASSUME NEW p \in 1..Len(w), NEW q \in 1..Len(w), w[p].day = w[q].day PROVE p = q
    BY DEF Once
  <2>1. at[p] \in 1..Len(h) /\ at[q] \in 1..Len(h) /\ h[at[p]].day = h[at[q]].day
    BY <1>1
  <2>2. at[p] = at[q]
    BY <1>3, <2>1 DEF Once
  <2> QED BY <1>1, <2>2
<1> QED BY <1>2, <1>3

\* A history's days are its records' days.
LEMMA DaysOfRecs ==
    ASSUME NEW h PROVE DaysIn(h) = {r.day : r \in Recs(h)}
BY DEF DaysIn, Recs

\* Writing a day's record gives a history with one record a day again: the others stay, the day's is the new one.
LEMMA PutBook ==
    ASSUME NEW h, Book(h), NEW day \in DtDay, NEW kind \in Kinds
    PROVE  /\ Put(h, day, kind) \in Seq(DtRec) /\ Once(Put(h, day, kind))
           /\ Recs(Put(h, day, kind)) \subseteq Recs(h) \cup {[day |-> day, kind |-> kind]}
           /\ \A r \in Recs(Put(h, day, kind)) : r.day = day => r.kind = kind
<1> DEFINE new == [day |-> day, kind |-> kind]
           n == Len(h)
<1>0. n \in Nat /\ h \in Seq(DtRec) /\ DOMAIN h = 1..n /\ \A i \in 1..n : h[i] \in DtRec
  BY DEF Book
<1>a. new \in DtRec /\ new.day = day /\ new.kind = kind
  BY DEF DtRec
<1>b. \A i \in 1..n : h[i] \in [day: DtDay, kind: Kinds]
  BY <1>0 DEF DtRec
<1>1. CASE day \in DaysIn(h)
  <2> DEFINE w == [i \in 1..n |-> IF h[i].day = day THEN [h[i] EXCEPT !.kind = kind] ELSE h[i]]
  <2>1. Put(h, day, kind) = w
    BY <1>1 DEF Put
  <2>2. \A i \in 1..n : w[i] = IF h[i].day = day THEN new ELSE h[i]
    <3> SUFFICES ASSUME NEW i \in 1..n, h[i].day = day PROVE [h[i] EXCEPT !.kind = kind] = new
      OBVIOUS
    <3> QED BY <1>b
  <2>3. w = [i \in 1..n |-> w[i]]
    OBVIOUS
  <2> HIDE DEF w, new
  <2>4. \A i \in 1..n : w[i] \in DtRec /\ w[i].day = h[i].day
    BY <1>0, <1>a, <2>2
  <2>5. w \in [1..n -> DtRec]
    BY <2>3, <2>4
  <2>6. w \in Seq(DtRec) /\ Len(w) = n
    <3>1. w \in Seq(DtRec)
      BY <1>0, <2>5, SeqDef
    <3>2. DOMAIN w = 1..n /\ Len(w) \in Nat /\ DOMAIN w = 1..Len(w)
      BY <2>5, <3>1, LenProperties
    <3>3. n = Len(w)
      BY <1>0, <3>2, FS_Interval
    <3> QED BY <3>1, <3>3
  <2>7. Once(w)
    BY <2>4, <2>6 DEF Once, Book
  <2>8. Recs(w) \subseteq Recs(h) \cup {new}
    BY <2>2, <2>6 DEF Recs
  <2>9. \A r \in Recs(w) : r.day = day => r.kind = kind
    BY <1>a, <2>2, <2>6 DEF Recs
  <2> DEFINE u == Put(h, day, kind)
  <2>10. u = w
    BY <2>1
  <2> HIDE DEF u
  <2>11. u \in Seq(DtRec) /\ Once(u) /\ Recs(u) \subseteq Recs(h) \cup {new} /\ \A r \in Recs(u) : r.day = day => r.kind = kind
    BY <2>6, <2>7, <2>8, <2>9, <2>10
  <2> QED BY <2>11 DEF u, new
<1>2. CASE day \notin DaysIn(h)
  <2> DEFINE v == Append(h, new)
             w == Latest(v)
  <2>1. Put(h, day, kind) = w
    BY <1>2 DEF Put
  <2> HIDE DEF new
  <2>2. v \in Seq(DtRec) /\ Len(v) = n + 1 /\ v[n + 1] = new /\ \A i \in 1..n : v[i] = h[i]
    BY <1>0, <1>a
  <2> HIDE DEF v
  <2>3. \A i \in 1..n : h[i].day # day
    BY <1>2 DEF DaysIn
  <2>4. \A i \in 1..(n + 1) : i = n + 1 \/ i \in 1..n
    BY <1>0
  <2>5. Once(v)
    <3> SUFFICES ASSUME NEW i \in 1..(n + 1), NEW j \in 1..(n + 1), v[i].day = v[j].day PROVE i = j
      BY <2>2 DEF Once
    <3>1. CASE i \in 1..n /\ j \in 1..n
      BY <2>2, <3>1 DEF Book, Once
    <3>2. CASE i = n + 1 /\ j \in 1..n
      BY <1>a, <2>2, <2>3, <3>2
    <3>3. CASE i \in 1..n /\ j = n + 1
      BY <1>a, <2>2, <2>3, <3>3
    <3> QED BY <2>4, <3>1, <3>2, <3>3
  <2>6. Recs(v) \subseteq Recs(h) \cup {new}
    BY <2>2, <2>4 DEF Recs
  <2>7. w \in Seq(DtRec) /\ Drawn(w, v)
    BY <2>2, LatestDrawn
  <2>8. Once(w) /\ Recs(w) \subseteq Recs(v)
    BY <2>5, <2>7, DrawnKeeps
  <2> HIDE DEF w
  <2>9. \A r \in Recs(w) : r.day = day => r.kind = kind
    <3>1. \A r \in Recs(h) : r.day # day
      BY <2>3 DEF Recs
    <3> QED BY <1>a, <2>6, <2>8, <3>1
  <2> DEFINE u == Put(h, day, kind)
  <2>10. u = w
    BY <2>1
  <2> HIDE DEF u
  <2>11. u \in Seq(DtRec) /\ Once(u) /\ Recs(u) \subseteq Recs(h) \cup {new} /\ \A r \in Recs(u) : r.day = day => r.kind = kind
    BY <2>6, <2>7, <2>8, <2>9, <2>10
  <2> QED BY <2>11 DEF u, new
<1> QED BY <1>1, <1>2

\* The gap filler: records of days that have none are put behind the others.
LEMMA GapsBook ==
    ASSUME NEW h, Book(h), NEW gaps \in SUBSET DtDay, gaps \cap DaysIn(h) = {}
    PROVE  LET w == h \o SetToSeq([day: gaps, kind: {"default"}])
           IN  /\ w \in Seq(DtRec) /\ Once(w)
               /\ Recs(w) \subseteq Recs(h) \cup [day: gaps, kind: {"default"}]
<1> DEFINE G == [day: gaps, kind: {"default"}]
           s == SetToSeq(G)
           n == Len(h)
           m == Cardinality(G)
<1>0. n \in Nat /\ h \in Seq(DtRec) /\ \A i \in 1..n : h[i] \in DtRec
  BY DEF Book
<1>1. IsFiniteSet(G)
  <2>1. IsFiniteSet(DtDay)
    BY DtAssumption, FS_Interval DEF DtDay
  <2>2. IsFiniteSet(gaps)
    BY <2>1, FS_Subset
  <2> DEFINE f == [d \in gaps |-> [day |-> d, kind |-> "default"]]
  <2>3. f \in [gaps -> G]
    OBVIOUS
  <2>4. \A g \in G : \E d \in gaps : f[d] = g
    <3> SUFFICES ASSUME NEW g \in G PROVE f[g.day] = g
      OBVIOUS
    <3>1. g.kind = "default" /\ g.day \in gaps /\ g = [day |-> g.day, kind |-> g.kind]
      OBVIOUS
    <3> QED BY <3>1
  <2> HIDE DEF f, G
  <2>5. f \in Surjection(gaps, G)
    BY <2>3, <2>4 DEF Surjection
  <2> QED BY <2>2, <2>5, FS_Surjection
<1>2. m \in Nat /\ \E f \in [1..m -> G] : IsInjective(f)
  <2> HIDE DEF G
  <2>1. m \in Nat /\ ExistsBijection(1..m, G)
    BY <1>1, FS_CardinalityType
  <2>2. PICK f \in Bijection(1..m, G) : TRUE
    BY <2>1 DEF ExistsBijection
  <2>3. f \in [1..m -> G] /\ IsInjective(f)
    BY <2>2 DEF Bijection, Injection
  <2> QED BY <2>1, <2>3
<1>3. s \in [1..m -> G] /\ IsInjective(s)
  <2> HIDE DEF G
  <2> QED BY <1>2 DEF SetToSeq
<1>4. G \subseteq DtRec /\ \A g \in G : g.day \in gaps
  BY DEF DtRec, Kinds
<1>5. \A g, k \in G : g.day = k.day => g = k
  <2> SUFFICES ASSUME NEW g \in G, NEW k \in G, g.day = k.day PROVE g = k
    OBVIOUS
  <2>1. g = [day |-> g.day, kind |-> g.kind] /\ k = [day |-> k.day, kind |-> k.kind] /\ g.kind = "default" /\ k.kind = "default"
    OBVIOUS
  <2> QED BY <2>1
<1> HIDE DEF G, s, m
<1>6. s \in Seq(DtRec) /\ Len(s) = m
  <2>0. s \in [1..m -> DtRec]
    BY <1>3, <1>4
  <2>1. s \in Seq(DtRec)
    BY <1>2, <2>0, SeqDef
  <2>2. DOMAIN s = 1..m /\ Len(s) \in Nat /\ DOMAIN s = 1..Len(s)
    BY <1>3, <2>1, LenProperties
  <2>3. m = Len(s)
    BY <1>2, <2>2, FS_Interval
  <2> QED BY <2>1, <2>3
<1> DEFINE w == h \o s
<1>7. w \in Seq(DtRec) /\ Len(w) = n + m /\ (\A i \in 1..n : w[i] = h[i]) /\ \A i \in 1..m : w[n + i] = s[i]
  BY <1>0, <1>2, <1>6
<1> HIDE DEF w
<1>8. ASSUME NEW i \in 1..(n + m) PROVE i \in 1..n \/ (i - n \in 1..m /\ n + (i - n) = i)
  BY <1>0, <1>2
<1>9. \A i \in 1..n : h[i].day \notin gaps
  BY DEF DaysIn
<1>10. \A i \in 1..m : s[i] \in G /\ s[i].day \in gaps
  BY <1>3, <1>4
<1>11. Once(w)
  <2> SUFFICES ASSUME NEW i \in 1..(n + m), NEW j \in 1..(n + m), w[i].day = w[j].day PROVE i = j
    BY <1>7 DEF Once
  <2>1. CASE i \in 1..n /\ j \in 1..n
    BY <1>7, <2>1 DEF Book, Once
  <2>2. CASE i \in 1..n /\ j - n \in 1..m /\ n + (j - n) = j
    <3>1. w[i] = h[i] /\ w[j] = s[j - n]
      BY <1>7, <2>2
    <3> QED BY <1>9, <1>10, <2>2, <3>1
  <2>3. CASE i - n \in 1..m /\ n + (i - n) = i /\ j \in 1..n
    <3>1. w[j] = h[j] /\ w[i] = s[i - n]
      BY <1>7, <2>3
    <3> QED BY <1>9, <1>10, <2>3, <3>1
  <2>4. CASE i - n \in 1..m /\ n + (i - n) = i /\ j - n \in 1..m /\ n + (j - n) = j
    <3>1. w[i] = s[i - n] /\ w[j] = s[j - n]
      BY <1>7, <2>4
    <3>2. s[i - n] = s[j - n]
      BY <1>5, <1>10, <2>4, <3>1
    <3>3. i - n = j - n
      BY <1>3, <2>4, <3>2 DEF IsInjective
    <3> QED BY <2>4, <3>3
  <2> QED BY <1>8, <2>1, <2>2, <2>3, <2>4
<1>12. Recs(w) \subseteq Recs(h) \cup G
  <2> SUFFICES ASSUME NEW i \in 1..(n + m) PROVE w[i] \in Recs(h) \cup G
    BY <1>7 DEF Recs
  <2>1. CASE i \in 1..n
    BY <1>7, <2>1 DEF Recs
  <2>2. CASE i - n \in 1..m /\ n + (i - n) = i
    BY <1>7, <1>10, <2>2
  <2> QED BY <1>8, <2>1, <2>2
<1> QED BY <1>7, <1>11, <1>12 DEF w, s, G

DtAcc == [date: DaySet \cup {0}, from: SUBSET DaySet]
DtDisk == [acc: DtAcc, hist: Seq(DtRec), vac: SUBSET DaySet]
DtJob == [at: {"none", "queued", "day", "query"}, token: Nat, days: SUBSET DtDay, todo: SUBSET DtDay, real: SUBSET Int,
          day: DtDay \cup {0}]
DtTypes ==
    /\ dtToday \in DaySet /\ dtUp \in BOOLEAN /\ dtVac \subseteq DaySet /\ dtGen \in Nat /\ dtLeft \in 0..DtMaxUpsets
    /\ dtAcc \in DtAcc /\ dtDisk \in DtDisk /\ dtJob \in DtJob
(* One record a day, in memory and on disk *)
BothOnce == Book(dtHist) /\ Book(dtDisk.hist)
(* A sum holds its own day's energy, in memory and on disk *)
OwnDay(acc) == acc.from \subseteq {acc.date}
BothOwn == OwnDay(dtAcc) /\ OwnDay(dtDisk.acc)
(* The backfill job asks for days that are over, and knows those of them that were measured *)
Asking == dtJob.at \in {"day", "query"}
JobKnows ==
    Asking =>
        /\ dtJob.todo \subseteq dtJob.days /\ \A d \in dtJob.days : d < dtToday
        /\ dtJob.at = "query" => dtJob.day \in dtJob.days \ dtJob.real
        /\ \A r \in Recs(dtHist) : r.kind = "measured" /\ r.day \in dtJob.days => r.day \in dtJob.real
DownEmpty == ~dtUp => dtHist = <<>>
DtInv == DtTypes /\ BothOnce /\ BothOwn /\ JobKnows /\ DownEmpty

\* The empty history is one.
LEMMA EmptyBook == Book(<<>>) /\ Recs(<<>>) = {}
BY DEF Book, Once, Recs

\* The invariant says of the tally what the property does.
LEMMA DtInvSound == DtInv => TallySound
<1> SUFFICES ASSUME DtInv PROVE TallySound
  OBVIOUS
<1>1. \A i \in 1..Len(dtHist) : dtHist[i] \in DtRec
  BY DEF DtInv, BothOnce, Book
<1>2. DtTypeOK
  BY <1>1 DEF DtInv, DtTypes, DtTypeOK, DtAcc, DtDisk, DtJob, DtRec, DtDay
<1>3. OneRecordADay
  BY DEF OneRecordADay, DtInv, BothOnce, Book, Once
<1>4. OnlyItsDay
  BY DEF OnlyItsDay, DtInv, BothOwn, OwnDay
<1> QED BY <1>2, <1>3, <1>4 DEF TallySound

\* A house before its first set-up.
LEMMA DtInitInv == DtInit => DtInv
<1> SUFFICES ASSUME DtInit PROVE DtInv
  OBVIOUS
<1> USE DEF DtInit
<1>1. NoAcc \in DtAcc /\ OwnDay(NoAcc)
  BY DEF NoAcc, DtAcc, OwnDay
<1>2. NoJob \in DtJob
  BY DEF NoJob, DtJob
<1>3. <<>> \in Seq(DtRec)
  BY EmptySeq
<1>4. dtDisk \in DtDisk
  BY <1>1, <1>3 DEF DtDisk
<1>5. DtTypes
  <2>1. DtDays \in Nat \ {0} /\ DtMaxUpsets \in Nat
    BY DtAssumption
  <2>2. dtToday \in DaySet /\ dtLeft \in 0..DtMaxUpsets /\ dtGen \in Nat
    BY <2>1 DEF DaySet
  <2>3. dtUp \in BOOLEAN /\ dtVac \subseteq DaySet /\ dtAcc \in DtAcc /\ dtJob \in DtJob
    BY <1>1, <1>2
  <2> QED BY <1>4, <2>2, <2>3 DEF DtTypes
<1>6. BothOnce
  BY EmptyBook DEF BothOnce
<1>7. BothOwn
  BY <1>1 DEF BothOwn
<1>8. JobKnows /\ DownEmpty
  BY DEF JobKnows, Asking, NoJob, DownEmpty
<1> QED BY <1>5, <1>6, <1>7, <1>8 DEF DtInv

(* A measured record stays while its day is in the history *)
StaysMeasured ==
    \A d \in DaySet : [day |-> d, kind |-> "measured"] \in Recs(dtHist) /\ d \in DaysIn(dtHist')
                      => [day |-> d, kind |-> "measured"] \in Recs(dtHist')
\* A history with some records less keeps the measured ones it has a record for.
LEMMA FewerStay ==
    ASSUME BothOnce, Recs(dtHist') \subseteq Recs(dtHist) PROVE StaysMeasured
<1> SUFFICES ASSUME NEW d \in DaySet, [day |-> d, kind |-> "measured"] \in Recs(dtHist), d \in DaysIn(dtHist')
             PROVE  [day |-> d, kind |-> "measured"] \in Recs(dtHist')
  BY DEF StaysMeasured
<1>1. PICK r \in Recs(dtHist') : r.day = d
  BY DEF DaysIn, Recs
<1>a. r \in Recs(dtHist)
  BY <1>1
<1>2. r = [day |-> d, kind |-> "measured"]
  BY <1>1, <1>a DEF Recs, BothOnce, Book, Once
<1> QED BY <1>1, <1>2

\* One that also has a new record keeps them if that one is measured, or is of a day without a measured record.
LEMMA NewStays ==
    ASSUME BothOnce, NEW New, Recs(dtHist') \subseteq Recs(dtHist) \cup New,
           \A r \in New : r = [day |-> r.day, kind |-> "measured"] \/ [day |-> r.day, kind |-> "measured"] \notin Recs(dtHist)
    PROVE  StaysMeasured
<1> SUFFICES ASSUME NEW d \in DaySet, [day |-> d, kind |-> "measured"] \in Recs(dtHist), d \in DaysIn(dtHist')
             PROVE  [day |-> d, kind |-> "measured"] \in Recs(dtHist')
  BY DEF StaysMeasured
<1>1. PICK r \in Recs(dtHist') : r.day = d
  BY DEF DaysIn, Recs
<1>2. CASE r \in Recs(dtHist)
  <2>1. r = [day |-> d, kind |-> "measured"]
    BY <1>1, <1>2 DEF Recs, BothOnce, Book, Once
  <2> QED BY <1>1, <2>1
<1>3. CASE r \in New
  BY <1>1, <1>3
<1> QED BY <1>1, <1>2, <1>3

(* What the steps of a running entry share: the state before, and the parts of the invariant a step may leave alone *)
DtKept == DtInv' /\ StaysMeasured

\* Samples, the day's reset and its save.
LEMMA CycleKept == DtInv /\ DtCycle => DtKept
<1> SUFFICES ASSUME DtInv, DtCycle PROVE DtKept
  OBVIOUS
<1> USE DEF DtInv
<1>0. UNCHANGED <<dtToday, dtUp, dtHist, dtVac, dtDisk, dtJob, dtGen, dtLeft>>
  BY DEF DtCycle
<1> DEFINE acc == Reset(dtAcc, dtToday)
<1>1. acc \in DtAcc /\ OwnDay(acc) /\ acc.date = dtToday
  <2>1. CASE dtAcc.date # dtToday
    BY <2>1 DEF Reset, DtAcc, DtTypes, OwnDay
  <2>2. CASE dtAcc.date = dtToday
    BY <2>2 DEF Reset, DtTypes, BothOwn
  <2> QED BY <2>1, <2>2
<1>2. PICK sample \in SUBSET {dtToday} : dtAcc' = [acc EXCEPT !.from = @ \cup sample]
  BY DEF DtCycle
<1> HIDE DEF acc
<1>3. acc \in [date: DaySet \cup {0}, from: SUBSET DaySet]
  BY <1>1 DEF DtAcc
<1>4. dtAcc' = [date |-> acc.date, from |-> acc.from \cup sample]
  BY <1>2, <1>3
<1>5. acc.from \cup sample \in SUBSET DaySet /\ acc.date \in DaySet \cup {0} /\ acc.from \cup sample \subseteq {acc.date}
  BY <1>1, <1>3 DEF DtTypes, OwnDay
<1>6. dtAcc' \in DtAcc /\ OwnDay(dtAcc')
  BY <1>4, <1>5 DEF DtAcc, OwnDay
<1>7. DtTypes' /\ BothOnce' /\ BothOwn' /\ JobKnows' /\ DownEmpty'
  BY <1>0, <1>6 DEF DtTypes, BothOnce, BothOwn, JobKnows, Asking, DownEmpty
<1>8. StaysMeasured
  BY <1>0, FewerStay
<1> QED BY <1>7, <1>8 DEF DtKept

\* The background save.
LEMMA SaveKept == DtInv /\ DtSave => DtKept
<1> SUFFICES ASSUME DtInv, DtSave PROVE DtKept
  OBVIOUS
<1> USE DEF DtInv
<1>0. UNCHANGED <<dtToday, dtUp, dtAcc, dtHist, dtVac, dtJob, dtGen, dtLeft>>
  BY DEF DtSave
<1>1. dtDisk' = [acc |-> dtAcc, hist |-> dtDisk.hist, vac |-> dtDisk.vac]
  <2>1. dtDisk \in [acc: DtAcc, hist: Seq(DtRec), vac: SUBSET DaySet]
    BY DEF DtTypes, DtDisk
  <2> QED BY <2>1 DEF DtSave
<1>2. dtDisk' \in DtDisk /\ dtDisk'.hist = dtDisk.hist /\ dtDisk'.acc = dtAcc
  BY <1>1 DEF DtTypes, DtDisk
<1>3. DtTypes' /\ BothOnce' /\ BothOwn' /\ JobKnows' /\ DownEmpty'
  BY <1>0, <1>2 DEF DtTypes, BothOnce, BothOwn, JobKnows, Asking, DownEmpty
<1>4. StaysMeasured
  BY <1>0, FewerStay
<1> QED BY <1>3, <1>4 DEF DtKept

\* Midnight: the days the job asks for stay over.
LEMMA MidnightKept == DtInv /\ DtMidnight => DtKept
<1> SUFFICES ASSUME DtInv, DtMidnight PROVE DtKept
  OBVIOUS
<1> USE DEF DtInv
<1>0. UNCHANGED <<dtUp, dtAcc, dtHist, dtVac, dtDisk, dtJob, dtGen, dtLeft>> /\ dtToday < DtDays /\ dtToday' = dtToday + 1
  BY DEF DtMidnight
<1>1. dtToday' \in DaySet /\ dtToday < dtToday' /\ dtToday \in Int /\ dtToday' \in Int
  BY <1>0, DtAssumption DEF DtTypes, DaySet
<1>2. DtTypes' /\ BothOnce' /\ BothOwn' /\ DownEmpty'
  BY <1>0, <1>1 DEF DtTypes, BothOnce, BothOwn, DownEmpty
<1>3. JobKnows'
  <2>1. dtJob.days \subseteq Int
    BY DtAssumption DEF DtTypes, DtJob, DtDay
  <2>2. ASSUME \A d \in dtJob.days : d < dtToday PROVE \A d \in dtJob.days : d < dtToday'
    BY <1>1, <2>1, <2>2
  <2> QED BY <1>0, <2>2 DEF JobKnows, Asking
<1>4. StaysMeasured
  BY <1>0, FewerStay
<1> QED BY <1>2, <1>3, <1>4 DEF DtKept


\* A history that is set and saved: the stores keep their shape, the saved history is the new one.
LEMMA KeptSaved ==
    ASSUME DtInv, NEW h, Kept(h), Book(h)
    PROVE  dtHist' = h /\ dtDisk' \in DtDisk /\ dtDisk'.hist = h /\ dtDisk'.acc = dtDisk.acc
<1>1. dtDisk \in [acc: DtAcc, hist: Seq(DtRec), vac: SUBSET DaySet] /\ h \in Seq(DtRec)
  BY DEF DtInv, DtTypes, DtDisk, Book
<1>2. dtHist' = h /\ dtDisk' = [acc |-> dtDisk.acc, hist |-> h, vac |-> dtDisk.vac]
  BY <1>1 DEF Kept
<1> QED BY <1>1, <1>2 DEF DtDisk

\* A history drawn from this one is a history.
LEMMA DrawnBook ==
    ASSUME NEW w \in Seq(DtRec), NEW h, Drawn(w, h), Book(h) PROVE Book(w) /\ Recs(w) \subseteq Recs(h)
BY DrawnKeeps DEF Book

\* The capture at 23:55 writes today, which no job asks for.
LEMMA CaptureKept == DtInv /\ DtCapture => DtKept
<1> SUFFICES ASSUME DtInv, DtCapture PROVE DtKept
  OBVIOUS
<1> USE DEF DtInv
<1>0. UNCHANGED <<dtToday, dtUp, dtAcc, dtVac, dtJob, dtGen, dtLeft>> /\ dtUp
  BY DEF DtCapture
<1>d. dtToday \in DtDay
  BY DtAssumption DEF DtTypes, DaySet, DtDay
<1> DEFINE new == [day |-> dtToday, kind |-> "measured"]
<1>1. PICK h : Kept(h) /\ Book(h) /\ Recs(h) \subseteq Recs(dtHist) \cup {new}
  <2>1. CASE Kept(Without(dtHist, {dtToday}))
    <3> DEFINE w == Without(dtHist, {dtToday})
    <3>1. dtHist \in Seq(DtRec) /\ Book(dtHist)
      BY DEF BothOnce, Book
    <3>2. w \in Seq(DtRec) /\ Drawn(w, dtHist)
      BY <3>1, WithoutDrawn
    <3> HIDE DEF w
    <3>3. Book(w) /\ Recs(w) \subseteq Recs(dtHist)
      BY <3>1, <3>2, DrawnBook
    <3> QED BY <2>1, <3>3 DEF w
  <2>2. CASE Kept(Put(dtHist, dtToday, "measured"))
    <3> DEFINE w == Put(dtHist, dtToday, "measured")
    <3>1. Book(dtHist) /\ "measured" \in Kinds
      BY DEF BothOnce, Kinds
    <3>2. w \in Seq(DtRec) /\ Once(w) /\ Recs(w) \subseteq Recs(dtHist) \cup {new}
      BY <1>d, <3>1, PutBook
    <3> HIDE DEF w, new
    <3>3. Book(w)
      BY <3>2 DEF Book
    <3> QED BY <2>2, <3>2, <3>3 DEF w
  <2> QED BY <2>1, <2>2 DEF DtCapture
<1>2. dtHist' = h /\ dtDisk' \in DtDisk /\ dtDisk'.hist = h /\ dtDisk'.acc = dtDisk.acc
  BY <1>1, KeptSaved
<1>3. DtTypes' /\ BothOnce' /\ BothOwn' /\ DownEmpty'
  BY <1>0, <1>1, <1>2 DEF DtTypes, BothOnce, BothOwn, DownEmpty
<1>4. JobKnows'
  <2> SUFFICES ASSUME Asking
               PROVE \A r \in Recs(h) : r.kind = "measured" /\ r.day \in dtJob.days => r.day \in dtJob.real
    BY <1>0, <1>2 DEF JobKnows, Asking
  <2>1. dtToday \notin dtJob.days
    BY DtAssumption DEF JobKnows, DtTypes, DaySet
  <2> QED BY <1>1, <2>1 DEF JobKnows
<1>5. StaysMeasured
  <2>1. Recs(dtHist') \subseteq Recs(dtHist) \cup {new}
    BY <1>1, <1>2
  <2>2. \A r \in {new} : r = [day |-> r.day, kind |-> "measured"] \/ [day |-> r.day, kind |-> "measured"] \notin Recs(dtHist)
    OBVIOUS
  <2> HIDE DEF new
  <2> QED BY <2>1, <2>2, NewStays
<1> QED BY <1>3, <1>4, <1>5 DEF DtKept

\* Excluded days leave the history.
LEMMA ExcludeKept == DtInv /\ DtExclude => DtKept
<1> SUFFICES ASSUME DtInv, DtExclude PROVE DtKept
  OBVIOUS
<1> USE DEF DtInv
<1>0. UNCHANGED <<dtToday, dtUp, dtAcc, dtJob, dtGen>> /\ dtUp /\ dtLeft > 0 /\ dtLeft' = dtLeft - 1
  BY DEF DtExclude
<1>1. PICK d \in DaySet \ dtVac :
        /\ dtVac' = dtVac \cup {d}
        /\ dtHist' = Without(dtHist, {d})
        /\ dtDisk' = [dtDisk EXCEPT !.hist = Without(dtHist, {d}), !.vac = dtVac \cup {d}]
  BY DEF DtExclude
<1> DEFINE w == Without(dtHist, {d})
<1>2. dtHist' = w /\ dtDisk' = [dtDisk EXCEPT !.hist = w, !.vac = dtVac \cup {d}]
  BY <1>1
<1>3. dtHist \in Seq(DtRec) /\ Book(dtHist)
  BY DEF BothOnce, Book
<1>4. w \in Seq(DtRec) /\ Drawn(w, dtHist)
  BY <1>3, WithoutDrawn
<1> HIDE DEF w
<1>5. Book(w) /\ Recs(w) \subseteq Recs(dtHist)
  BY <1>3, <1>4, DrawnBook
<1>6. dtDisk' = [acc |-> dtDisk.acc, hist |-> w, vac |-> dtVac \cup {d}]
  <2>1. dtDisk \in [acc: DtAcc, hist: Seq(DtRec), vac: SUBSET DaySet]
    BY DEF DtTypes, DtDisk
  <2> QED BY <1>2, <2>1
<1>7. dtVac' \subseteq DaySet
  BY <1>1 DEF DtTypes
<1>8. dtDisk' \in DtDisk /\ dtDisk'.hist = w /\ dtDisk'.acc = dtDisk.acc
  <2>1. dtDisk.acc \in DtAcc /\ dtVac \cup {d} \in SUBSET DaySet
    BY <1>1 DEF DtTypes, DtDisk
  <2> QED BY <1>4, <1>6, <2>1 DEF DtDisk
<1>9. dtLeft' \in 0..DtMaxUpsets
  BY <1>0, DtAssumption DEF DtTypes
<1>10. DtTypes' /\ BothOnce' /\ BothOwn' /\ DownEmpty'
  BY <1>0, <1>2, <1>5, <1>7, <1>8, <1>9 DEF DtTypes, BothOnce, BothOwn, DownEmpty
<1>11. JobKnows'
  BY <1>0, <1>2, <1>5 DEF JobKnows, Asking
<1>12. StaysMeasured
  BY <1>2, <1>5, FewerStay
<1> QED BY <1>10, <1>11, <1>12 DEF DtKept

\* The seven days before a start: one placeholder each.
LEMMA DefaultsBook ==
    ASSUME NEW today \in DaySet PROVE Book(Defaults(today)) /\ \A r \in Recs(Defaults(today)) : r.kind = "default"
<1> DEFINE h == Defaults(today)
<1>0. today \in Int /\ today >= 1 /\ today <= DtDays /\ DtWindow \in Nat /\ DtDays \in Int
  BY DtAssumption DEF DaySet
<1>1. \A i \in 1..DtWindow : h[i] = [day |-> today - i, kind |-> "default"]
  BY DEF Defaults
<1>2. h = [i \in 1..DtWindow |-> h[i]]
  BY DEF Defaults
<1> HIDE DEF h
<1>3. \A i \in 1..DtWindow : today - i \in DtDay
  BY <1>0 DEF DtDay
<1>4. \A i \in 1..DtWindow : h[i] \in DtRec
  <2>1. \A e \in DtDay : [day |-> e, kind |-> "default"] \in DtRec
    BY DEF DtRec, Kinds
  <2> QED BY <1>1, <1>3, <2>1
<1>5. h \in [1..DtWindow -> DtRec]
  BY <1>2, <1>4
<1>6. h \in Seq(DtRec) /\ Len(h) = DtWindow
  <2>1. h \in Seq(DtRec)
    BY <1>0, <1>5, SeqDef
  <2>2. DOMAIN h = 1..DtWindow /\ Len(h) \in Nat /\ DOMAIN h = 1..Len(h)
    BY <1>5, <2>1, LenProperties
  <2>3. DtWindow = Len(h)
    BY <1>0, <2>2, FS_Interval
  <2> QED BY <2>1, <2>3
<1>7. \A i \in 1..DtWindow : h[i].day = today - i /\ h[i].kind = "default"
  <2> SUFFICES ASSUME NEW i \in 1..DtWindow PROVE h[i].day = today - i /\ h[i].kind = "default"
    OBVIOUS
  <2> DEFINE e == today - i
  <2>1. h[i] = [day |-> e, kind |-> "default"]
    BY <1>1
  <2> HIDE DEF e
  <2>2. h[i].day = e /\ h[i].kind = "default"
    BY <2>1
  <2> QED BY <2>2 DEF e
<1>8. Once(h)
  <2> SUFFICES ASSUME NEW i \in 1..DtWindow, NEW j \in 1..DtWindow, h[i].day = h[j].day PROVE i = j
    BY <1>6 DEF Once
  <2>1. today - i = today - j
    BY <1>7
  <2> QED BY <1>0, <2>1
<1>9. \A r \in Recs(h) : r.kind = "default"
  BY <1>6, <1>7 DEF Recs
<1> QED BY <1>6, <1>8, <1>9 DEF h, Book

\* A start reads the stores; the measured records come back from disk.
LEMMA StartKept == DtInv /\ DtStart => DtKept
<1> SUFFICES ASSUME DtInv, DtStart PROVE DtKept
  OBVIOUS
<1> USE DEF DtInv
<1>0. UNCHANGED <<dtToday, dtGen, dtLeft>> /\ ~dtUp /\ dtUp' = TRUE /\ dtVac' = dtDisk.vac
  BY DEF DtStart
<1>a. dtDisk \in [acc: DtAcc, hist: Seq(DtRec), vac: SUBSET DaySet]
  BY DEF DtTypes, DtDisk
<1>b. dtDisk.acc \in DtAcc /\ dtDisk.hist \in Seq(DtRec) /\ dtDisk.vac \in SUBSET DaySet /\ Book(dtDisk.hist)
  BY <1>a DEF BothOnce
<1> DEFINE loaded == Without(dtDisk.hist, dtDisk.vac)
           h == IF loaded = <<>> THEN Defaults(dtToday) ELSE loaded
<1>1. Book(loaded)
  <2>1. loaded \in Seq(DtRec) /\ Drawn(loaded, dtDisk.hist)
    BY <1>b, WithoutDrawn
  <2> HIDE DEF loaded
  <2> QED BY <1>b, <2>1, DrawnBook
<1>2. Book(h)
  <2> HIDE DEF loaded
  <2> QED BY <1>1, DefaultsBook DEF DtTypes
<1>3. dtHist' = h /\ dtDisk' = IF loaded = <<>> THEN [dtDisk EXCEPT !.hist = h] ELSE dtDisk
  BY DEF DtStart
<1> HIDE DEF loaded, h
<1>4. dtDisk' \in DtDisk /\ Book(dtDisk'.hist) /\ dtDisk'.acc = dtDisk.acc
  <2>1. CASE loaded = <<>>
    <3>1. dtDisk' = [acc |-> dtDisk.acc, hist |-> h, vac |-> dtDisk.vac]
      BY <1>a, <1>3, <2>1
    <3> QED BY <1>b, <1>2, <3>1 DEF DtDisk, Book
  <2>2. CASE loaded # <<>>
    BY <1>3, <2>2 DEF DtTypes, BothOnce
  <2> QED BY <2>1, <2>2
<1>5. dtAcc' \in DtAcc /\ OwnDay(dtAcc')
  <2>1. NoAcc \in DtAcc /\ OwnDay(NoAcc)
    BY DEF NoAcc, DtAcc, OwnDay
  <2>2. dtAcc' = LoadedAcc(dtDisk.acc, dtToday)
    BY DEF DtStart
  <2> QED BY <1>b, <2>1, <2>2 DEF LoadedAcc, BothOwn
<1>6. dtJob' \in DtJob /\ dtJob'.at = "queued"
  <2>1. dtJob' = [at |-> "queued", token |-> dtGen, days |-> {}, todo |-> {}, real |-> {}, day |-> 0]
    BY DEF DtStart, NoJob
  <2> QED BY <2>1 DEF DtJob, DtTypes
<1>7. DtTypes'
  BY <1>0, <1>b, <1>4, <1>5, <1>6 DEF DtTypes
<1>8. BothOnce' /\ BothOwn' /\ DownEmpty'
  BY <1>0, <1>2, <1>3, <1>4, <1>5 DEF BothOnce, BothOwn, DownEmpty
<1>9. JobKnows'
  BY <1>6 DEF JobKnows, Asking
<1>10. StaysMeasured
  <2>1. Recs(dtHist) = {}
    BY <1>0, EmptyBook DEF DownEmpty
  <2> QED BY <2>1 DEF StaysMeasured
<1> QED BY <1>7, <1>8, <1>9, <1>10 DEF DtKept

\* The job's start reads the days to ask for and the measured ones, once.
LEMMA JobStartsKept == DtInv /\ JobStarts => DtKept
<1> SUFFICES ASSUME DtInv, JobStarts PROVE DtKept
  OBVIOUS
<1> USE DEF DtInv
<1>0. UNCHANGED <<dtToday, dtUp, dtAcc, dtHist, dtVac, dtDisk, dtGen, dtLeft>> /\ dtJob.at = "queued"
  BY DEF JobStarts
<1> DEFINE days == Recent(dtToday) \ dtVac
           real == {r.day : r \in {s \in ToSet(dtHist) : s.kind # "default"}}
<1>a. dtJob \in [at: {"none", "queued", "day", "query"}, token: Nat, days: SUBSET DtDay, todo: SUBSET DtDay, real: SUBSET Int,
          day: DtDay \cup {0}]
  BY DEF DtTypes, DtJob
<1>b. DtWindow \in Nat /\ DtDays \in Nat /\ dtToday \in Int /\ dtToday >= 1 /\ dtToday <= DtDays
  BY DtAssumption DEF DtTypes, DaySet
<1>1. dtJob' = [at |-> "day", token |-> dtJob.token, days |-> days, todo |-> days, real |-> real, day |-> dtJob.day]
  <2>1. dtJob' = [dtJob EXCEPT !.at = "day", !.days = days, !.todo = days, !.real = real]
    BY DEF JobStarts
  <2> HIDE DEF days, real
  <2> QED BY <1>a, <2>1
<1>2. days \subseteq DtDay /\ \A d \in days : d < dtToday
  BY <1>b DEF Recent, DtDay
<1>3. dtHist \in Seq(DtRec) /\ ToSet(dtHist) = Recs(dtHist)
  <2>1. dtHist \in Seq(DtRec)
    BY DEF BothOnce, Book
  <2>2. DOMAIN dtHist = 1..Len(dtHist)
    BY <2>1
  <2> QED BY <2>1, <2>2 DEF ToSet, Recs
<1>4. real \in SUBSET Int
  <2>1. \A r \in Recs(dtHist) : r \in DtRec
    BY <1>3 DEF Recs
  <2>2. \A r \in DtRec : r.day \in Int
    BY DtAssumption DEF DtRec, DtDay
  <2> QED BY <1>3, <2>1, <2>2
<1>5. \A r \in Recs(dtHist) : r.kind = "measured" => r.day \in real
  BY <1>3
<1> HIDE DEF days, real
<1>6. dtJob' \in DtJob
  BY <1>1, <1>2, <1>4, <1>a DEF DtJob
<1>7. dtJob'.at = "day" /\ dtJob'.days = days /\ dtJob'.todo = days /\ dtJob'.real = real
  BY <1>1
<1>8. DtTypes' /\ BothOnce' /\ BothOwn' /\ DownEmpty'
  BY <1>0, <1>6 DEF DtTypes, BothOnce, BothOwn, DownEmpty
<1>9. JobKnows'
  BY <1>0, <1>2, <1>5, <1>7 DEF JobKnows
<1>10. StaysMeasured
  BY <1>0, FewerStay
<1> QED BY <1>8, <1>9, <1>10 DEF DtKept

\* A set of days that is not empty has a last one.
LEMMA LastDay ==
    ASSUME NEW T \in SUBSET DtDay, T # {} PROVE \E d \in T : \A e \in T : e <= d
<1> DEFINE R == {x \in T \X T : x[1] > x[2]}
<1>1. IsFiniteSet(T)
  <2>1. IsFiniteSet(DtDay)
    BY DtAssumption, FS_Interval DEF DtDay
  <2> QED BY <2>1, FS_Subset
<1>2. \A d \in T : d \in Int
  BY DtAssumption DEF DtDay
<1>3. \A i, j \in T : i # j => <<i, j>> \in R \/ <<j, i>> \in R
  BY <1>2
<1>4. \A i \in T : <<i, i>> \notin R
  BY <1>2
<1>5. \A i, j, k \in T : <<i, j>> \in R /\ <<j, k>> \in R => <<i, k>> \in R
  BY <1>2
<1>6. Cardinality(T) \in Nat /\ Cardinality(T) # 0
  BY <1>1, FS_CardinalityType, FS_EmptySet
<1> HIDE DEF R
<1>7. AllRanks(T, R)
  BY <1>1, <1>3, <1>4, <1>5, RanksTaken
<1>8. PICK d \in T : Cardinality({j \in T : <<j, d>> \in R}) = 0
  <2>1. 1 \in 1..Cardinality(T) /\ 1 - 1 = 0
    BY <1>6
  <2> QED BY <1>7, <2>1 DEF AllRanks
<1> DEFINE above == {j \in T : <<j, d>> \in R}
<1>9. above = {}
  <2>1. above \in SUBSET T
    OBVIOUS
  <2> HIDE DEF above
  <2>2. IsFiniteSet(above)
    BY <1>1, <2>1, FS_Subset
  <2>3. Cardinality(above) = 0
    BY <1>8 DEF above
  <2> QED BY <2>2, <2>3, FS_EmptySet
<1>10. \A e \in T : e <= d
  <2> SUFFICES ASSUME NEW e \in T, e > d PROVE FALSE
    BY <1>2
  <2>1. <<e, d>> \in R
    BY DEF R
  <2>2. e \in above
    BY <2>1
  <2> HIDE DEF above
  <2> QED BY <1>9, <2>2
<1> QED BY <1>10

\* The day asked for is one of the job's, without a measured record.
LEMMA JobAsksKept == DtInv /\ JobAsks => DtKept
<1> SUFFICES ASSUME DtInv, JobAsks PROVE DtKept
  OBVIOUS
<1> USE DEF DtInv
<1>0. UNCHANGED <<dtToday, dtUp, dtAcc, dtHist, dtVac, dtDisk, dtGen, dtLeft>> /\ dtJob.at = "day" /\ dtJob.todo # {}
  BY DEF JobAsks
<1>a. dtJob \in [at: {"none", "queued", "day", "query"}, token: Nat, days: SUBSET DtDay, todo: SUBSET DtDay, real: SUBSET Int,
          day: DtDay \cup {0}]
  BY DEF DtTypes, DtJob
<1> DEFINE next == NextDay
           rest == dtJob.todo \ {next}
<1>1. next \in dtJob.todo
  <2>1. \E d \in dtJob.todo : \A e \in dtJob.todo : e <= d
    BY <1>0, <1>a, LastDay
  <2> QED BY <2>1 DEF NextDay
<1>2. rest \in SUBSET DtDay /\ rest \subseteq dtJob.todo /\ next \in DtDay
  BY <1>1, <1>a
<1>3. \/ /\ next \notin dtJob.real
         /\ dtJob' = [dtJob EXCEPT !.at = "query", !.day = next, !.todo = rest]
      \/ dtJob' = [dtJob EXCEPT !.todo = rest]
  BY DEF JobAsks, NeedsDay
<1> HIDE DEF next, rest
<1>4. \/ /\ next \notin dtJob.real
         /\ dtJob' = [at |-> "query", token |-> dtJob.token, days |-> dtJob.days, todo |-> rest, real |-> dtJob.real, day |-> next]
      \/ dtJob' = [at |-> "day", token |-> dtJob.token, days |-> dtJob.days, todo |-> rest, real |-> dtJob.real, day |-> dtJob.day]
  BY <1>0, <1>3, <1>a
<1>5. dtJob' \in DtJob
  BY <1>2, <1>4, <1>a DEF DtJob
<1>6. dtJob'.days = dtJob.days /\ dtJob'.todo = rest /\ dtJob'.real = dtJob.real
      /\ (dtJob'.at = "query" => dtJob'.day = next /\ next \notin dtJob.real)
  BY <1>4
<1>7. DtTypes' /\ BothOnce' /\ BothOwn' /\ DownEmpty'
  BY <1>0, <1>5 DEF DtTypes, BothOnce, BothOwn, DownEmpty
<1>8. JobKnows'
  BY <1>0, <1>1, <1>2, <1>6 DEF JobKnows, Asking
<1>9. StaysMeasured
  BY <1>0, FewerStay
<1> QED BY <1>7, <1>8, <1>9 DEF DtKept

\* The recorder's answer is written to a day that had no measured record: none came since, the day was over.
LEMMA JobAnsweredKept == DtInv /\ JobAnswered => DtKept
<1> SUFFICES ASSUME DtInv, JobAnswered PROVE DtKept
  OBVIOUS
<1> USE DEF DtInv
<1>0. UNCHANGED <<dtToday, dtUp, dtAcc, dtVac, dtGen, dtLeft>> /\ dtJob.at = "query" /\ dtUp
  BY DEF JobAnswered, JobValid
<1>a. dtJob \in [at: {"none", "queued", "day", "query"}, token: Nat, days: SUBSET DtDay, todo: SUBSET DtDay, real: SUBSET Int,
          day: DtDay \cup {0}]
  BY DEF DtTypes, DtJob
<1>1. dtJob' = [at |-> "day", token |-> dtJob.token, days |-> dtJob.days, todo |-> dtJob.todo, real |-> dtJob.real, day |-> 0]
  BY <1>a DEF JobAnswered
<1>2. dtJob' \in DtJob /\ dtJob'.at = "day" /\ dtJob'.days = dtJob.days /\ dtJob'.todo = dtJob.todo /\ dtJob'.real = dtJob.real
  BY <1>1, <1>a DEF DtJob
<1> DEFINE day == dtJob.day
           new == [day |-> day, kind |-> "derived"]
<1>3. day \in dtJob.days /\ day \notin dtJob.real /\ day \in DtDay
  BY <1>0, <1>a DEF JobKnows, Asking
<1>4. \A r \in Recs(dtHist) : r.day = day => r.kind # "measured"
  BY <1>0, <1>3 DEF JobKnows, Asking
<1>5. CASE UNCHANGED <<dtHist, dtDisk>>
  <2>1. DtTypes' /\ BothOnce' /\ BothOwn' /\ DownEmpty'
    BY <1>0, <1>2, <1>5 DEF DtTypes, BothOnce, BothOwn, DownEmpty
  <2>2. JobKnows'
    BY <1>0, <1>2, <1>5 DEF JobKnows, Asking
  <2>3. StaysMeasured
    BY <1>5, FewerStay
  <2> QED BY <2>1, <2>2, <2>3 DEF DtKept
<1>6. CASE \E hist \in {Put(dtHist, dtJob.day, "derived")} : Kept(Latest(hist))
  <2> DEFINE put == Put(dtHist, day, "derived")
             h == Latest(put)
  <2>1. Kept(h)
    BY <1>6
  <2>2. Book(dtHist) /\ "derived" \in Kinds
    BY DEF BothOnce, Kinds
  <2> HIDE DEF day
  <2>3. put \in Seq(DtRec) /\ Once(put) /\ Recs(put) \subseteq Recs(dtHist) \cup {new}
    BY <1>3, <2>2, PutBook
  <2> HIDE DEF put, new
  <2>4. h \in Seq(DtRec) /\ Drawn(h, put) /\ Book(put)
    BY <2>3, LatestDrawn DEF Book
  <2> HIDE DEF h
  <2>5. Book(h) /\ Recs(h) \subseteq Recs(dtHist) \cup {new}
    BY <2>3, <2>4, DrawnBook
  <2>6. dtHist' = h /\ dtDisk' \in DtDisk /\ dtDisk'.hist = h /\ dtDisk'.acc = dtDisk.acc
    BY <2>1, <2>5, KeptSaved
  <2>7. DtTypes' /\ BothOnce' /\ BothOwn' /\ DownEmpty'
    BY <1>0, <1>2, <2>5, <2>6 DEF DtTypes, BothOnce, BothOwn, DownEmpty
  <2>8. JobKnows'
    <3>1. new.kind # "measured"
      BY DEF new
    <3> QED BY <1>0, <1>2, <2>5, <2>6, <3>1 DEF JobKnows, Asking
  <2>9. StaysMeasured
    <3>1. \A r \in {new} : r.day = day
      BY DEF new
    <3>2. [day |-> day, kind |-> "measured"] \notin Recs(dtHist)
      BY <1>4
    <3>3. \A r \in {new} : r = [day |-> r.day, kind |-> "measured"] \/ [day |-> r.day, kind |-> "measured"] \notin Recs(dtHist)
      BY <3>1, <3>2
    <3>4. Recs(dtHist') \subseteq Recs(dtHist) \cup {new}
      BY <2>5, <2>6
    <3> QED BY <3>3, <3>4, NewStays
  <2> QED BY <2>7, <2>8, <2>9 DEF DtKept
<1> QED BY <1>5, <1>6 DEF JobAnswered

\* The gap filler writes days without a record only.
LEMMA JobEndsKept == DtInv /\ JobEnds => DtKept
<1> SUFFICES ASSUME DtInv, JobEnds PROVE DtKept
  OBVIOUS
<1> USE DEF DtInv
<1>0. UNCHANGED <<dtToday, dtUp, dtAcc, dtVac, dtGen, dtLeft>> /\ dtUp /\ dtJob' = NoJob
  BY DEF JobEnds, JobValid
<1>a. dtJob.days \in SUBSET DtDay
  BY DEF DtTypes, DtJob
<1> DEFINE gaps == dtJob.days \ DaysIn(dtHist)
           New == [day: gaps, kind: {"default"}]
           w == dtHist \o SetToSeq(New)
           h == Latest(w)
<1>1. Kept(h)
  BY DEF JobEnds
<1>2. Book(dtHist) /\ gaps \in SUBSET DtDay /\ gaps \cap DaysIn(dtHist) = {}
  BY <1>a DEF BothOnce
<1> HIDE DEF gaps
<1>3. w \in Seq(DtRec) /\ Once(w) /\ Recs(w) \subseteq Recs(dtHist) \cup New
  BY <1>2, GapsBook
<1> HIDE DEF w
<1>4. h \in Seq(DtRec) /\ Drawn(h, w) /\ Book(w)
  BY <1>3, LatestDrawn DEF Book
<1> HIDE DEF h
<1>5. Book(h) /\ Recs(h) \subseteq Recs(dtHist) \cup New
  BY <1>3, <1>4, DrawnBook
<1>6. dtHist' = h /\ dtDisk' \in DtDisk /\ dtDisk'.hist = h /\ dtDisk'.acc = dtDisk.acc
  BY <1>1, <1>5, KeptSaved
<1>7. dtJob' \in DtJob /\ dtJob'.at = "none"
  BY <1>0 DEF NoJob, DtJob
<1>8. DtTypes' /\ BothOnce' /\ BothOwn' /\ DownEmpty'
  BY <1>0, <1>5, <1>6, <1>7 DEF DtTypes, BothOnce, BothOwn, DownEmpty
<1>9. JobKnows'
  BY <1>7 DEF JobKnows, Asking
<1>10. StaysMeasured
  <2>1. \A r \in New : r.day \notin DaysIn(dtHist)
    BY DEF gaps
  <2>2. \A d : [day |-> d, kind |-> "measured"] \in Recs(dtHist) => d \in DaysIn(dtHist)
    BY DaysOfRecs
  <2>3. \A r \in New : r = [day |-> r.day, kind |-> "measured"] \/ [day |-> r.day, kind |-> "measured"] \notin Recs(dtHist)
    BY <2>1, <2>2
  <2>4. Recs(dtHist') \subseteq Recs(dtHist) \cup New
    BY <1>5, <1>6
  <2> HIDE DEF New
  <2> QED BY <2>3, <2>4, NewStays
<1> QED BY <1>8, <1>9, <1>10 DEF DtKept

\* What ends the entry's run: memory is emptied, the job and its token are void.
LEMMA EndedKept ==
    ASSUME DtInv, dtUp, dtLeft > 0, dtUp' = FALSE, dtGen' = dtGen + 1, dtJob' = NoJob, dtAcc' = NoAcc, dtHist' = <<>>,
           dtVac' = {}, dtLeft' = dtLeft - 1, dtToday' = dtToday, dtDisk' \in DtDisk, Book(dtDisk'.hist), OwnDay(dtDisk'.acc)
    PROVE  DtKept
<1>1. NoAcc \in DtAcc /\ OwnDay(NoAcc) /\ NoJob \in DtJob
  BY DEF NoAcc, DtAcc, OwnDay, NoJob, DtJob
<1>2. dtLeft' \in 0..DtMaxUpsets /\ dtGen' \in Nat
  BY DtAssumption DEF DtInv, DtTypes
<1>3. DtTypes' /\ BothOnce' /\ BothOwn' /\ DownEmpty'
  BY <1>1, <1>2, EmptyBook DEF DtInv, DtTypes, BothOnce, BothOwn, DownEmpty
<1>4. JobKnows'
  BY DEF JobKnows, Asking, NoJob
<1>5. StaysMeasured
  BY EmptyBook DEF StaysMeasured, DaysIn, Recs
<1> QED BY <1>3, <1>4, <1>5 DEF DtKept, DtInv

\* An unload saves what is in memory.
LEMMA StopKept == DtInv /\ DtStop => DtKept
<1> SUFFICES ASSUME DtInv, DtStop PROVE DtKept
  OBVIOUS
<1>1. dtDisk' = [acc |-> dtAcc, hist |-> dtHist, vac |-> dtVac]
  BY DEF DtStop
<1>2. dtDisk' \in DtDisk /\ dtDisk'.hist = dtHist /\ dtDisk'.acc = dtAcc
  BY <1>1 DEF DtInv, DtTypes, DtDisk, BothOnce, Book
<1> QED BY <1>2, EndedKept DEF DtStop, DtInv, BothOnce, BothOwn

\* A kill leaves the stores as they were.
LEMMA CrashKept == DtInv /\ DtCrash => DtKept
<1> SUFFICES ASSUME DtInv, DtCrash PROVE DtKept
  OBVIOUS
<1>1. dtDisk' = dtDisk
  BY DEF DtCrash
<1> QED BY <1>1, EndedKept DEF DtCrash, DtInv, DtTypes, BothOnce, BothOwn

\* Every step keeps the invariant and the measured records.
LEMMA DtStepKept == DtInv /\ [DtNext]_dtVars => DtKept
<1> SUFFICES ASSUME DtInv, [DtNext]_dtVars PROVE DtKept
  OBVIOUS
<1>1. CASE UNCHANGED dtVars
  <2>1. DtInv'
    BY <1>1 DEF dtVars, DtInv, DtTypes, BothOnce, BothOwn, JobKnows, Asking, DownEmpty
  <2>2. StaysMeasured
    BY <1>1, FewerStay DEF dtVars, DtInv
  <2> QED BY <2>1, <2>2 DEF DtKept
<1> QED BY <1>1, CycleKept, SaveKept, MidnightKept, CaptureKept, ExcludeKept, StartKept, JobStartsKept, JobAsksKept,
           JobAnsweredKept, JobEndsKept, StopKept, CrashKept DEF DtNext

\* The invariant holds in every state of the tally.
LEMMA DtInductive == DtSpec => []DtInv
<1>1. DtInv /\ [DtNext]_dtVars => DtInv'
  BY DtStepKept DEF DtKept
<1> QED BY <1>1, DtInitInv, PTL DEF DtSpec

(* The daily records are sound: one a day, and the sum that becomes one holds that day's energy only,
   whatever order the capture at 23:55, the backfill's answers, the gap filler, exclusions, midnight,
   reloads and crashes come in (consumption_tracker.py) *)
THEOREM TallyCorrect == DtSpec => []TallySound
<1> QED BY DtInductive, DtInvSound, PTL

(* No derived or placeholder value replaces a measured day while the history has that day: the
   backfill reads once which days were measured, and asks only for days that were over by then *)
THEOREM MeasuredCorrect == DtSpec => MeasuredKept
<1>1. StaysMeasured <=> \A d \in DaySet :
        (\E i \in 1..Len(dtHist) : dtHist[i] = [day |-> d, kind |-> "measured"]) /\ d \in DaysIn(dtHist')
        => \E i \in 1..Len(dtHist') : dtHist'[i] = [day |-> d, kind |-> "measured"]
  BY DEF StaysMeasured, Recs
<1>2. DtInv /\ [DtNext]_dtVars => StaysMeasured
  BY DtStepKept DEF DtKept
<1> QED BY <1>1, <1>2, DtInductive, PTL DEF DtSpec, MeasuredKept
=============================================================================
