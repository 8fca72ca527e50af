----------------------------- MODULE ChargingProofs --------------------------
(***************************************************************************)
(* What holds of the weekly full charge (FullCharge) for every set of        *)
(* batteries, every ceiling and any number of restarts, failures, handoffs   *)
(* and option changes; of the demand protection of grid charging             *)
(* (GridCharge) for every limit, house load and battery power, and any       *)
(* number of blocks, slot edges and lost samples; and of the diary of the    *)
(* day (DayDiary) for every order of its cells that DdAssumption admits, and *)
(* any number of writes that fail, restarts and kills; and of the sharing of *)
(* the sun (ExternalLoads) for every list of devices and every reading.      *)
(***************************************************************************)
EXTENDS FullCharge, GridCharge, DayDiary, ExternalLoads,
        FiniteSetTheorems, WellFoundedInduction, TLAPS

-----------------------------------------------------------------------------
WkSavedType == [WkBatteries -> {0} \cup WkCeilings]
WkFlagsType == [enabled: BOOLEAN, day: 0..WkWeek-1, complete: BOOLEAN,
                written: BOOLEAN, pending: BOOLEAN, last: 0..WkWeek]
WkStoreType == [have: BOOLEAN, fresh: BOOLEAN, complete: BOOLEAN,
                written: BOOLEAN, pending: BOOLEAN, saved: WkSavedType]

(* What is kept, in memory or in the store, is the user's ceiling; a register holds that or 100 % *)
KeptIsOriginal ==
    /\ \A b \in WkBatteries : wkSaved[b] \in {0, wkCfg[b]} /\ wkStore.saved[b] \in {0, wkCfg[b]}
    /\ \A b \in WkBatteries : wkReg[b] \in {wkCfg[b], WkTop}
(* Only the batteries that may be handed over ever are *)
OthersAuto == \A b \in WkBatteries \ WkHandsOver : wkOwner[b] = "auto"
(* The walk of a restore: with no failure so far, what it has passed is put back *)
WalkedBack ==
    wkAt \in {"restore", "finish"} /\ wkOk =>
        \A b \in WkBatteries \ WkHandsOver : b \in wkTodo \/ wkReg[b] = wkCfg[b]
(* After a stop that saved, the store knows what the devices that own their ceiling hold *)
StoreRemembers ==
    wkAt = "down" /\ wkClean =>
        \A b \in WkDeviceOwned \ WkHandsOver :
            WkRaised(b) => wk.enabled /\ wkStore.have /\ wkStore.saved[b] # 0
WkInv == WkTypeOK /\ KeptIsOriginal /\ OthersAuto /\ WalkedBack /\ StoreRemembers /\ RaisedIsRemembered

LEMMA LookedType == ASSUME WkTypeOK PROVE Looked \in WkFlagsType
<1> USE WkAssumption DEF WkTypeOK, WkFlagsType
<1>1. CASE RolledOver BY <1>1 DEF Looked, Flags, RolledOver, Unfinished
<1>2. CASE ~RolledOver BY <1>2 DEF Looked
<1> QED BY <1>1, <1>2

LEMMA WkStepOwners == OthersAuto /\ [WkNext]_wkVars => OthersAuto'
<1> SUFFICES ASSUME OthersAuto, [WkNext]_wkVars PROVE OthersAuto'
  OBVIOUS
<1> USE DEF OthersAuto, wkWorld, wkHistory, wkMemory, wkFaced
<1>1. CASE WkStart BY <1>1 DEF WkStart
<1>2. CASE RestoreEnds BY <1>2 DEF RestoreEnds
<1>3. CASE NoRun BY <1>3 DEF NoRun
<1>4. CASE RunGoesOn BY <1>4 DEF RunGoesOn
<1>5. CASE RaiseEnds BY <1>5 DEF RaiseEnds
<1>6. CASE FinishEnds BY <1>6 DEF FinishEnds
<1>7. CASE \E full \in BOOLEAN : JudgeRun(full) BY <1>7 DEF JudgeRun
<1>8. CASE \E b \in WkBatteries : RestoreOne(b) BY <1>8 DEF RestoreOne
<1>9. CASE \E b \in WkBatteries, ok \in BOOLEAN : RaiseOne(b, ok) BY <1>9 DEF RaiseOne
<1>10. CASE HeldByDelay BY <1>10 DEF HeldByDelay
<1>11. CASE SaveRuns BY <1>11 DEF SaveRuns
<1>12. CASE WkSetUp BY <1>12 DEF WkSetUp
<1>13. CASE WkUnload BY <1>13 DEF WkUnload, GoesDown
<1>14. CASE WkCrash BY <1>14 DEF WkCrash, GoesDown
<1>15. CASE WkMidnight BY <1>15 DEF WkMidnight
<1>16. CASE \E b \in WkBatteries : RestoreFails(b) BY <1>16 DEF RestoreFails
<1>17. CASE \E b \in WkBatteries, o \in {"auto", "manual", "backup"} : ChangeOwner(b, o) BY <1>17 DEF ChangeOwner
<1>18. CASE \E e \in BOOLEAN, d \in 0..1 : Reconfigure(e, d) BY <1>18 DEF Reconfigure
<1>19. CASE UNCHANGED wkVars BY <1>19 DEF wkVars
<1> QED BY <1>1, <1>2, <1>3, <1>4, <1>5, <1>6, <1>7, <1>8, <1>9, <1>10, <1>11, <1>12, <1>13, <1>14, <1>15, <1>16, <1>17, <1>18, <1>19 DEF WkNext, WkCycle

LEMMA WkStepKept == WkTypeOK /\ KeptIsOriginal /\ [WkNext]_wkVars => KeptIsOriginal'
<1> SUFFICES ASSUME WkTypeOK, KeptIsOriginal, [WkNext]_wkVars PROVE KeptIsOriginal'
  OBVIOUS
<1> USE WkAssumption DEF WkTypeOK, KeptIsOriginal, Unsaved, Original, WkKeep, Forget, SaveState, WkReload, wkWorld, wkHistory, wkMemory, wkFaced
<1>1. CASE WkStart BY <1>1 DEF WkStart
<1>2. CASE RestoreEnds BY <1>2 DEF RestoreEnds
<1>3. CASE NoRun BY <1>3 DEF NoRun
<1>4. CASE RunGoesOn BY <1>4 DEF RunGoesOn
<1>5. CASE RaiseEnds BY <1>5 DEF RaiseEnds
<1>6. CASE FinishEnds BY <1>6 DEF FinishEnds
<1>7. CASE \E full \in BOOLEAN : JudgeRun(full) BY <1>7 DEF JudgeRun
<1>8. CASE \E b \in WkBatteries : RestoreOne(b) BY <1>8 DEF RestoreOne
<1>9. CASE \E b \in WkBatteries, ok \in BOOLEAN : RaiseOne(b, ok) BY <1>9 DEF RaiseOne
<1>10. CASE HeldByDelay BY <1>10 DEF HeldByDelay
<1>11. CASE SaveRuns BY <1>11 DEF SaveRuns
<1>12. CASE WkSetUp BY <1>12 DEF WkSetUp
<1>13. CASE WkUnload BY <1>13 DEF WkUnload, GoesDown
<1>14. CASE WkCrash BY <1>14 DEF WkCrash, GoesDown
<1>15. CASE WkMidnight BY <1>15 DEF WkMidnight
<1>16. CASE \E b \in WkBatteries : RestoreFails(b) BY <1>16 DEF RestoreFails
<1>17. CASE \E b \in WkBatteries, o \in {"auto", "manual", "backup"} : ChangeOwner(b, o) BY <1>17 DEF ChangeOwner
<1>18. CASE \E e \in BOOLEAN, d \in 0..1 : Reconfigure(e, d) BY <1>18 DEF Reconfigure
<1>19. CASE UNCHANGED wkVars BY <1>19 DEF wkVars
<1> QED BY <1>1, <1>2, <1>3, <1>4, <1>5, <1>6, <1>7, <1>8, <1>9, <1>10, <1>11, <1>12, <1>13, <1>14, <1>15, <1>16, <1>17, <1>18, <1>19 DEF WkNext, WkCycle

LEMMA WkStepWalk == WkInv /\ [WkNext]_wkVars => WalkedBack'
<1> SUFFICES ASSUME WkInv, [WkNext]_wkVars PROVE WalkedBack'
  OBVIOUS
<1> USE WkAssumption DEF WkInv, WkTypeOK, WalkedBack, KeptIsOriginal, OthersAuto, PutsBack, Original, GoTo, StartWalk, wkWorld, wkHistory, wkMemory, wkFaced
<1>1. CASE WkStart BY <1>1 DEF WkStart
<1>2. CASE RestoreEnds BY <1>2 DEF RestoreEnds
<1>3. CASE NoRun BY <1>3 DEF NoRun
<1>4. CASE RunGoesOn BY <1>4 DEF RunGoesOn
<1>5. CASE RaiseEnds BY <1>5 DEF RaiseEnds
<1>6. CASE FinishEnds BY <1>6 DEF FinishEnds
<1>7. CASE \E full \in BOOLEAN : JudgeRun(full) BY <1>7 DEF JudgeRun
<1>8. CASE \E b \in WkBatteries : RestoreOne(b) BY <1>8 DEF RestoreOne
<1>9. CASE \E b \in WkBatteries, ok \in BOOLEAN : RaiseOne(b, ok) BY <1>9 DEF RaiseOne
<1>10. CASE HeldByDelay BY <1>10 DEF HeldByDelay
<1>11. CASE SaveRuns BY <1>11 DEF SaveRuns
<1>12. CASE WkSetUp BY <1>12 DEF WkSetUp
<1>13. CASE WkUnload BY <1>13 DEF WkUnload, GoesDown
<1>14. CASE WkCrash BY <1>14 DEF WkCrash, GoesDown
<1>15. CASE WkMidnight BY <1>15 DEF WkMidnight
<1>16. CASE \E b \in WkBatteries : RestoreFails(b) BY <1>16 DEF RestoreFails
<1>17. CASE \E b \in WkBatteries, o \in {"auto", "manual", "backup"} : ChangeOwner(b, o) BY <1>17 DEF ChangeOwner
<1>18. CASE \E e \in BOOLEAN, d \in 0..1 : Reconfigure(e, d) BY <1>18 DEF Reconfigure
<1>19. CASE UNCHANGED wkVars BY <1>19 DEF wkVars
<1> QED BY <1>1, <1>2, <1>3, <1>4, <1>5, <1>6, <1>7, <1>8, <1>9, <1>10, <1>11, <1>12, <1>13, <1>14, <1>15, <1>16, <1>17, <1>18, <1>19 DEF WkNext, WkCycle

LEMMA WkStepStore == WkInv /\ [WkNext]_wkVars => StoreRemembers'
<1> SUFFICES ASSUME WkInv, [WkNext]_wkVars PROVE StoreRemembers'
  OBVIOUS
<1> USE WkAssumption DEF WkInv, WkTypeOK, StoreRemembers, WkRaised, GoTo, StartWalk, wkWorld, wkHistory, wkMemory, wkFaced
<1>1. CASE WkStart BY <1>1 DEF WkStart
<1>2. CASE RestoreEnds BY <1>2 DEF RestoreEnds
<1>3. CASE NoRun BY <1>3 DEF NoRun
<1>4. CASE RunGoesOn BY <1>4 DEF RunGoesOn
<1>5. CASE RaiseEnds BY <1>5 DEF RaiseEnds
<1>6. CASE FinishEnds BY <1>6 DEF FinishEnds
<1>7. CASE \E full \in BOOLEAN : JudgeRun(full) BY <1>7 DEF JudgeRun
<1>8. CASE \E b \in WkBatteries : RestoreOne(b) BY <1>8 DEF RestoreOne
<1>9. CASE \E b \in WkBatteries, ok \in BOOLEAN : RaiseOne(b, ok) BY <1>9 DEF RaiseOne
<1>10. CASE HeldByDelay BY <1>10 DEF HeldByDelay
<1>11. CASE SaveRuns BY <1>11 DEF SaveRuns
<1>12. CASE WkSetUp BY <1>12 DEF WkSetUp
<1>13. CASE WkUnload BY <1>13 DEF WkUnload, GoesDown, SaveState, WkFresh, Flags, RaisedIsRemembered, Recoverable
<1>14. CASE WkCrash BY <1>14 DEF WkCrash, GoesDown
<1>15. CASE WkMidnight BY <1>15 DEF WkMidnight
<1>16. CASE \E b \in WkBatteries : RestoreFails(b) BY <1>16 DEF RestoreFails
<1>17. CASE \E b \in WkBatteries, o \in {"auto", "manual", "backup"} : ChangeOwner(b, o) BY <1>17 DEF ChangeOwner
<1>18. CASE \E e \in BOOLEAN, d \in 0..1 : Reconfigure(e, d) BY <1>18 DEF Reconfigure
<1>19. CASE UNCHANGED wkVars BY <1>19 DEF wkVars
<1> QED BY <1>1, <1>2, <1>3, <1>4, <1>5, <1>6, <1>7, <1>8, <1>9, <1>10, <1>11, <1>12, <1>13, <1>14, <1>15, <1>16, <1>17, <1>18, <1>19 DEF WkNext, WkCycle

LEMMA WkStepRemembers == WkInv /\ [WkNext]_wkVars => RaisedIsRemembered'
<1> SUFFICES ASSUME WkInv, [WkNext]_wkVars PROVE RaisedIsRemembered'
  OBVIOUS
<1> USE WkAssumption DEF WkInv, WkTypeOK, RaisedIsRemembered, WkRaised, Recoverable, GoTo, StartWalk, wkWorld, wkHistory, wkMemory, wkFaced
<1>1. CASE WkStart BY <1>1 DEF WkStart
<1>2. CASE RestoreEnds BY <1>2 DEF RestoreEnds, Forget, WalkedBack
<1>3. CASE NoRun BY <1>3 DEF NoRun
<1>4. CASE RunGoesOn BY <1>4 DEF RunGoesOn
<1>5. CASE RaiseEnds BY <1>5 DEF RaiseEnds
<1>6. CASE FinishEnds BY <1>6 DEF FinishEnds, Forget, WalkedBack
<1>7. CASE \E full \in BOOLEAN : JudgeRun(full) BY <1>7 DEF JudgeRun
<1>8. CASE \E b \in WkBatteries : RestoreOne(b) BY <1>8 DEF RestoreOne, Original, KeptIsOriginal
<1>9. CASE \E b \in WkBatteries, ok \in BOOLEAN : RaiseOne(b, ok) BY <1>9 DEF RaiseOne, WkKeep
<1>10. CASE HeldByDelay BY <1>10 DEF HeldByDelay
<1>11. CASE SaveRuns BY <1>11 DEF SaveRuns
<1>12. CASE WkSetUp BY <1>12 DEF WkSetUp, WkReload, StoreRemembers
<1>13. CASE WkUnload BY <1>13 DEF WkUnload, GoesDown
<1>14. CASE WkCrash BY <1>14 DEF WkCrash, GoesDown
<1>15. CASE WkMidnight BY <1>15 DEF WkMidnight
<1>16. CASE \E b \in WkBatteries : RestoreFails(b) BY <1>16 DEF RestoreFails
<1>17. CASE \E b \in WkBatteries, o \in {"auto", "manual", "backup"} : ChangeOwner(b, o) BY <1>17 DEF ChangeOwner
<1>18. CASE \E e \in BOOLEAN, d \in 0..1 : Reconfigure(e, d) BY <1>18 DEF Reconfigure
<1>19. CASE UNCHANGED wkVars BY <1>19 DEF wkVars
<1> QED BY <1>1, <1>2, <1>3, <1>4, <1>5, <1>6, <1>7, <1>8, <1>9, <1>10, <1>11, <1>12, <1>13, <1>14, <1>15, <1>16, <1>17, <1>18, <1>19 DEF WkNext, WkCycle

LEMMA WkInitInv == WkInit => WkInv
<1> SUFFICES ASSUME WkInit PROVE WkInv
  OBVIOUS
<1> USE WkAssumption DEF WkInit, Unsaved
<1>1. WkTypeOK
  <2>1. wk \in WkFlagsType BY DEF Flags, NoWeekday, WkFlagsType
  <2>2. wkSaved \in WkSavedType /\ wkStore \in WkStoreType BY DEF WkSavedType, WkStoreType
  <2>3. wkCfg \in [WkBatteries -> WkCeilings] /\ wkReg \in [WkBatteries -> WkCeilings \cup {WkTop}]
    OBVIOUS
  <2>4. wkOwner \in [WkBatteries -> {"auto", "manual", "backup"}]
    OBVIOUS
  <2>5. wkDay \in 0..WkWeek-1 /\ wkUpsets \in 0..WkMaxUpsets
    OBVIOUS
  <2> QED BY <2>1, <2>2, <2>3, <2>4, <2>5 DEF WkTypeOK, WkFlagsType, WkSavedType, WkStoreType
<1>2. KeptIsOriginal BY DEF KeptIsOriginal
<1>3. OthersAuto /\ WalkedBack /\ StoreRemembers BY DEF OthersAuto, WalkedBack, StoreRemembers
<1>4. RaisedIsRemembered BY DEF RaisedIsRemembered, WkRaised
<1> QED BY <1>1, <1>2, <1>3, <1>4 DEF WkInv

LEMMA WkStepFlags ==
    ASSUME WkTypeOK, [WkNext]_wkVars PROVE wk' \in WkFlagsType
<1> USE WkAssumption DEF WkTypeOK, WkFlagsType, Flags, NoWeekday, Unfinished, wkWorld, wkHistory, wkMemory, wkFaced
<1>1. CASE WkStart BY LookedType, <1>1 DEF WkStart
<1>2. CASE RestoreEnds
  <2>1. wk' = wk \/ wk' = [wk EXCEPT !.pending = FALSE] BY <1>2 DEF RestoreEnds
  <2> QED BY ZenonT(40), <2>1
<1>3. CASE NoRun BY LookedType, <1>3 DEF NoRun
<1>4. CASE RunGoesOn BY LookedType, <1>4 DEF RunGoesOn
<1>5. CASE RaiseEnds BY <1>5 DEF RaiseEnds
<1>6. CASE FinishEnds BY <1>6 DEF FinishEnds
<1>7. CASE \E full \in BOOLEAN : JudgeRun(full)
  <2>1. wk' = wk \/ wk' = [wk EXCEPT !.complete = TRUE] BY <1>7 DEF JudgeRun
  <2> QED BY ZenonT(40), <2>1
<1>8. CASE \E b \in WkBatteries : RestoreOne(b) BY <1>8 DEF RestoreOne
<1>9. CASE \E b \in WkBatteries, ok \in BOOLEAN : RaiseOne(b, ok) BY <1>9 DEF RaiseOne
<1>10. CASE HeldByDelay BY LookedType, <1>10 DEF HeldByDelay
<1>11. CASE SaveRuns BY <1>11 DEF SaveRuns
<1>12. CASE WkSetUp
  <2>1. \/ wk' = wk
        \/ wk' = Flags(TRUE, wk.day, wkStore.complete, wkStore.written, wkStore.pending, NoWeekday)
        \/ wk' = Flags(TRUE, wk.day, wkStore.complete, FALSE, TRUE, NoWeekday)
    BY <1>12 DEF WkSetUp, WkReload
  <2>2. Flags(TRUE, wk.day, wkStore.complete, wkStore.written, wkStore.pending, NoWeekday) \in WkFlagsType
    OBVIOUS
  <2>3. Flags(TRUE, wk.day, wkStore.complete, FALSE, TRUE, NoWeekday) \in WkFlagsType
    OBVIOUS
  <2> QED BY <2>1, <2>2, <2>3
<1>13. CASE WkUnload BY <1>13 DEF WkUnload, GoesDown, WkFresh
<1>14. CASE WkCrash BY <1>14 DEF WkCrash, GoesDown, WkFresh
<1>15. CASE WkMidnight BY <1>15 DEF WkMidnight
<1>16. CASE \E b \in WkBatteries : RestoreFails(b) BY <1>16 DEF RestoreFails
<1>17. CASE \E b \in WkBatteries, o \in {"auto", "manual", "backup"} : ChangeOwner(b, o) BY <1>17 DEF ChangeOwner
<1>18. CASE \E e \in BOOLEAN, d \in 0..1 : Reconfigure(e, d) BY <1>18 DEF Reconfigure
<1>19. CASE UNCHANGED wkVars BY <1>19 DEF wkVars
<1> QED BY <1>1, <1>2, <1>3, <1>4, <1>5, <1>6, <1>7, <1>8, <1>9, <1>10, <1>11, <1>12, <1>13, <1>14, <1>15, <1>16, <1>17, <1>18, <1>19 DEF WkNext, WkCycle

LEMMA WkStepSaved ==
    ASSUME WkTypeOK, [WkNext]_wkVars PROVE wkSaved' \in WkSavedType
<1> USE WkAssumption DEF WkTypeOK, WkSavedType, Unsaved, Forget, WkKeep, wkWorld, wkHistory, wkMemory, wkFaced
<1>1. CASE WkStart BY <1>1 DEF WkStart
<1>2. CASE RestoreEnds BY <1>2 DEF RestoreEnds
<1>3. CASE NoRun BY <1>3 DEF NoRun
<1>4. CASE RunGoesOn BY <1>4 DEF RunGoesOn
<1>5. CASE RaiseEnds BY <1>5 DEF RaiseEnds
<1>6. CASE FinishEnds BY <1>6 DEF FinishEnds
<1>7. CASE \E full \in BOOLEAN : JudgeRun(full) BY <1>7 DEF JudgeRun
<1>8. CASE \E b \in WkBatteries : RestoreOne(b) BY <1>8 DEF RestoreOne
<1>9. CASE \E b \in WkBatteries, ok \in BOOLEAN : RaiseOne(b, ok) BY <1>9 DEF RaiseOne
<1>10. CASE HeldByDelay BY <1>10 DEF HeldByDelay
<1>11. CASE SaveRuns BY <1>11 DEF SaveRuns
<1>12. CASE WkSetUp BY <1>12 DEF WkSetUp, WkReload
<1>13. CASE WkUnload BY <1>13 DEF WkUnload, GoesDown, WkFresh
<1>14. CASE WkCrash BY <1>14 DEF WkCrash, GoesDown, WkFresh
<1>15. CASE WkMidnight BY <1>15 DEF WkMidnight
<1>16. CASE \E b \in WkBatteries : RestoreFails(b) BY <1>16 DEF RestoreFails
<1>17. CASE \E b \in WkBatteries, o \in {"auto", "manual", "backup"} : ChangeOwner(b, o) BY <1>17 DEF ChangeOwner
<1>18. CASE \E e \in BOOLEAN, d \in 0..1 : Reconfigure(e, d) BY <1>18 DEF Reconfigure
<1>19. CASE UNCHANGED wkVars BY <1>19 DEF wkVars
<1> QED BY <1>1, <1>2, <1>3, <1>4, <1>5, <1>6, <1>7, <1>8, <1>9, <1>10, <1>11, <1>12, <1>13, <1>14, <1>15, <1>16, <1>17, <1>18, <1>19 DEF WkNext, WkCycle

LEMMA WkStepStoreType ==
    ASSUME WkTypeOK, wk' \in WkFlagsType, wkSaved' \in WkSavedType, [WkNext]_wkVars PROVE wkStore' \in WkStoreType
<1> USE WkAssumption DEF WkTypeOK, WkFlagsType, WkSavedType, WkStoreType, SaveState, wkWorld, wkHistory, wkMemory, wkFaced
<1>1. CASE WkStart BY <1>1 DEF WkStart
<1>2. CASE RestoreEnds BY <1>2 DEF RestoreEnds
<1>3. CASE NoRun BY <1>3 DEF NoRun
<1>4. CASE RunGoesOn BY <1>4 DEF RunGoesOn
<1>5. CASE RaiseEnds BY <1>5 DEF RaiseEnds
<1>6. CASE FinishEnds BY <1>6 DEF FinishEnds
<1>7. CASE \E full \in BOOLEAN : JudgeRun(full) BY <1>7 DEF JudgeRun
<1>8. CASE \E b \in WkBatteries : RestoreOne(b) BY <1>8 DEF RestoreOne
<1>9. CASE \E b \in WkBatteries, ok \in BOOLEAN : RaiseOne(b, ok) BY <1>9 DEF RaiseOne
<1>10. CASE HeldByDelay BY <1>10 DEF HeldByDelay
<1>11. CASE SaveRuns BY <1>11 DEF SaveRuns
<1>12. CASE WkSetUp BY <1>12 DEF WkSetUp, WkReload
<1>13. CASE WkUnload BY <1>13 DEF WkUnload, GoesDown, WkFresh
<1>14. CASE WkCrash BY <1>14 DEF WkCrash, GoesDown, WkFresh
<1>15. CASE WkMidnight BY <1>15 DEF WkMidnight
<1>16. CASE \E b \in WkBatteries : RestoreFails(b) BY <1>16 DEF RestoreFails
<1>17. CASE \E b \in WkBatteries, o \in {"auto", "manual", "backup"} : ChangeOwner(b, o) BY <1>17 DEF ChangeOwner
<1>18. CASE \E e \in BOOLEAN, d \in 0..1 : Reconfigure(e, d) BY <1>18 DEF Reconfigure
<1>19. CASE UNCHANGED wkVars BY <1>19 DEF wkVars
<1> QED BY <1>1, <1>2, <1>3, <1>4, <1>5, <1>6, <1>7, <1>8, <1>9, <1>10, <1>11, <1>12, <1>13, <1>14, <1>15, <1>16, <1>17, <1>18, <1>19 DEF WkNext, WkCycle

LEMMA WkStepWorld ==
    ASSUME WkTypeOK, KeptIsOriginal, [WkNext]_wkVars PROVE /\ wkCfg' \in [WkBatteries -> WkCeilings] /\ wkReg' \in [WkBatteries -> WkCeilings \cup {WkTop}]
           /\ wkOwner' \in [WkBatteries -> {"auto", "manual", "backup"}]
           /\ wkApplied' \subseteq WkBatteries /\ wkTodo' \subseteq WkBatteries
<1> USE WkAssumption DEF WkTypeOK, Original, Forget, GoTo, StartWalk, wkWorld, wkHistory, wkMemory, wkFaced
<1>1. CASE WkStart BY <1>1 DEF WkStart
<1>2. CASE RestoreEnds BY <1>2 DEF RestoreEnds
<1>3. CASE NoRun BY <1>3 DEF NoRun
<1>4. CASE RunGoesOn BY <1>4 DEF RunGoesOn
<1>5. CASE RaiseEnds BY <1>5 DEF RaiseEnds
<1>6. CASE FinishEnds BY <1>6 DEF FinishEnds
<1>7. CASE \E full \in BOOLEAN : JudgeRun(full) BY <1>7 DEF JudgeRun
<1>8. CASE \E b \in WkBatteries : RestoreOne(b) BY <1>8 DEF RestoreOne
<1>9. CASE \E b \in WkBatteries, ok \in BOOLEAN : RaiseOne(b, ok) BY <1>9 DEF RaiseOne
<1>10. CASE HeldByDelay BY <1>10 DEF HeldByDelay
<1>11. CASE SaveRuns BY <1>11 DEF SaveRuns
<1>12. CASE WkSetUp BY <1>12 DEF WkSetUp, WkReload
<1>13. CASE WkUnload BY <1>13 DEF WkUnload, GoesDown, WkFresh
<1>14. CASE WkCrash BY <1>14 DEF WkCrash, GoesDown, WkFresh
<1>15. CASE WkMidnight BY <1>15 DEF WkMidnight
<1>16. CASE \E b \in WkBatteries : RestoreFails(b) BY <1>16 DEF RestoreFails
<1>17. CASE \E b \in WkBatteries, o \in {"auto", "manual", "backup"} : ChangeOwner(b, o) BY <1>17 DEF ChangeOwner
<1>18. CASE \E e \in BOOLEAN, d \in 0..1 : Reconfigure(e, d) BY <1>18 DEF Reconfigure
<1>19. CASE UNCHANGED wkVars BY <1>19 DEF wkVars
<1> QED BY <1>1, <1>2, <1>3, <1>4, <1>5, <1>6, <1>7, <1>8, <1>9, <1>10, <1>11, <1>12, <1>13, <1>14, <1>15, <1>16, <1>17, <1>18, <1>19 DEF WkNext, WkCycle

LEMMA WkStepCounts ==
    ASSUME WkTypeOK, [WkNext]_wkVars PROVE /\ wkDay' \in 0..WkWeek-1 /\ wkUpsets' \in 0..WkMaxUpsets
           /\ wkAt' \in {"idle", "restore", "check", "raise", "judge", "finish", "down"}
<1> USE WkAssumption DEF WkTypeOK, WkUpset, GoTo, StartWalk, wkWorld, wkHistory, wkMemory, wkFaced
<1>1. CASE WkStart BY <1>1 DEF WkStart
<1>2. CASE RestoreEnds BY <1>2 DEF RestoreEnds
<1>3. CASE NoRun BY <1>3 DEF NoRun
<1>4. CASE RunGoesOn BY <1>4 DEF RunGoesOn
<1>5. CASE RaiseEnds BY <1>5 DEF RaiseEnds
<1>6. CASE FinishEnds BY <1>6 DEF FinishEnds
<1>7. CASE \E full \in BOOLEAN : JudgeRun(full) BY <1>7 DEF JudgeRun
<1>8. CASE \E b \in WkBatteries : RestoreOne(b) BY <1>8 DEF RestoreOne
<1>9. CASE \E b \in WkBatteries, ok \in BOOLEAN : RaiseOne(b, ok) BY <1>9 DEF RaiseOne
<1>10. CASE HeldByDelay BY <1>10 DEF HeldByDelay
<1>11. CASE SaveRuns BY <1>11 DEF SaveRuns
<1>12. CASE WkSetUp BY <1>12 DEF WkSetUp
<1>13. CASE WkUnload BY <1>13 DEF WkUnload, GoesDown
<1>14. CASE WkCrash BY <1>14 DEF WkCrash, GoesDown
<1>15. CASE WkMidnight BY <1>15 DEF WkMidnight
<1>16. CASE \E b \in WkBatteries : RestoreFails(b) BY <1>16 DEF RestoreFails
<1>17. CASE \E b \in WkBatteries, o \in {"auto", "manual", "backup"} : ChangeOwner(b, o) BY <1>17 DEF ChangeOwner
<1>18. CASE \E e \in BOOLEAN, d \in 0..1 : Reconfigure(e, d) BY <1>18 DEF Reconfigure
<1>19. CASE UNCHANGED wkVars BY <1>19 DEF wkVars
<1> QED BY <1>1, <1>2, <1>3, <1>4, <1>5, <1>6, <1>7, <1>8, <1>9, <1>10, <1>11, <1>12, <1>13, <1>14, <1>15, <1>16, <1>17, <1>18, <1>19 DEF WkNext, WkCycle

LEMMA WkStepBooleans ==
    ASSUME WkTypeOK, [WkNext]_wkVars PROVE wkSaving' \in BOOLEAN /\ wkOk' \in BOOLEAN /\ wkClean' \in BOOLEAN /\ wkDone' \in BOOLEAN
<1> USE DEF WkTypeOK, WkUpset, GoTo, StartWalk, RolledOver, wkWorld, wkHistory, wkMemory, wkFaced
<1>1. CASE WkStart BY <1>1 DEF WkStart
<1>2. CASE RestoreEnds BY <1>2 DEF RestoreEnds
<1>3. CASE NoRun BY <1>3 DEF NoRun
<1>4. CASE RunGoesOn BY <1>4 DEF RunGoesOn
<1>5. CASE RaiseEnds BY <1>5 DEF RaiseEnds
<1>6. CASE FinishEnds BY <1>6 DEF FinishEnds
<1>7. CASE \E full \in BOOLEAN : JudgeRun(full) BY <1>7 DEF JudgeRun
<1>8. CASE \E b \in WkBatteries : RestoreOne(b) BY <1>8 DEF RestoreOne
<1>9. CASE \E b \in WkBatteries, ok \in BOOLEAN : RaiseOne(b, ok) BY <1>9 DEF RaiseOne
<1>10. CASE HeldByDelay BY <1>10 DEF HeldByDelay
<1>11. CASE SaveRuns BY <1>11 DEF SaveRuns
<1>12. CASE WkSetUp BY <1>12 DEF WkSetUp
<1>13. CASE WkUnload BY <1>13 DEF WkUnload, GoesDown
<1>14. CASE WkCrash BY <1>14 DEF WkCrash, GoesDown
<1>15. CASE WkMidnight BY <1>15 DEF WkMidnight
<1>16. CASE \E b \in WkBatteries : RestoreFails(b) BY <1>16 DEF RestoreFails
<1>17. CASE \E b \in WkBatteries, o \in {"auto", "manual", "backup"} : ChangeOwner(b, o) BY <1>17 DEF ChangeOwner
<1>18. CASE \E e \in BOOLEAN, d \in 0..1 : Reconfigure(e, d) BY <1>18 DEF Reconfigure
<1>19. CASE UNCHANGED wkVars BY <1>19 DEF wkVars
<1> QED BY <1>1, <1>2, <1>3, <1>4, <1>5, <1>6, <1>7, <1>8, <1>9, <1>10, <1>11, <1>12, <1>13, <1>14, <1>15, <1>16, <1>17, <1>18, <1>19 DEF WkNext, WkCycle

LEMMA WkStepType == WkInv /\ [WkNext]_wkVars => WkTypeOK'
<1> SUFFICES ASSUME WkInv, [WkNext]_wkVars PROVE WkTypeOK'
  OBVIOUS
<1>1. WkTypeOK /\ KeptIsOriginal BY DEF WkInv
<1>2. wk' \in WkFlagsType BY <1>1, WkStepFlags
<1>3. wkSaved' \in WkSavedType BY <1>1, WkStepSaved
<1>4. wkStore' \in WkStoreType BY <1>1, <1>2, <1>3, WkStepStoreType
<1> QED BY <1>1, <1>2, <1>3, <1>4, WkStepWorld, WkStepCounts, WkStepBooleans
    DEF WkTypeOK, WkFlagsType, WkSavedType, WkStoreType

LEMMA WkStepInv == WkInv /\ [WkNext]_wkVars => WkInv'
BY WkStepType, WkStepKept, WkStepOwners, WkStepWalk, WkStepStore, WkStepRemembers DEF WkInv

(* The controller never loses track of a cutoff it raised: while it runs, the *)
(* ceiling of every raised register is in its memory, unless a stop without a *)
(* save hit a battery that owns its ceiling or the user took the battery over *)
(* (weekly_full_charge.py, _battery_saved_max_soc).                           *)
THEOREM CutoffsCorrect == WkSpec => []CutoffsRemembered
<1>1. WkInv => CutoffsRemembered BY DEF WkInv, CutoffsRemembered
<1> QED BY WkInitInv, WkStepInv, <1>1, PTL DEF WkSpec

-----------------------------------------------------------------------------
(* A run that is over for today leaves the loop, and both the flags and the store say so *)
DoneIsKept ==
    wkDone =>
        /\ wkAt \in {"idle", "restore", "check", "down"}
        /\ wk.enabled
        /\ wkAt # "down" => wk.complete \/ wk.day # wkDay
        /\ wk.day # wkDay \/ (wkStore.have /\ wkStore.fresh /\ wkStore.complete)

LEMMA WkStepDone ==
    ASSUME WkTypeOK, DoneIsKept, [WkNext]_wkVars PROVE DoneIsKept'
<1> USE WkAssumption DEF WkTypeOK, DoneIsKept, Looked, RolledOver, Flags, GoTo, StartWalk, wkWorld, wkHistory, wkMemory, wkFaced
<1>1. CASE WkStart BY <1>1 DEF WkStart
<1>2. CASE RestoreEnds BY <1>2 DEF RestoreEnds, SaveState
<1>3. CASE NoRun BY <1>3 DEF NoRun
<1>4. CASE RunGoesOn BY <1>4 DEF RunGoesOn, IsActive
<1>5. CASE RaiseEnds BY <1>5 DEF RaiseEnds
<1>6. CASE FinishEnds BY <1>6 DEF FinishEnds, SaveState
<1>7. CASE \E full \in BOOLEAN : JudgeRun(full) BY <1>7 DEF JudgeRun
<1>8. CASE \E b \in WkBatteries : RestoreOne(b) BY <1>8 DEF RestoreOne
<1>9. CASE \E b \in WkBatteries, ok \in BOOLEAN : RaiseOne(b, ok) BY <1>9 DEF RaiseOne
<1>10. CASE HeldByDelay BY <1>10 DEF HeldByDelay
<1>11. CASE SaveRuns BY <1>11 DEF SaveRuns, SaveState
<1>12. CASE WkSetUp BY <1>12 DEF WkSetUp, WkReload
<1>13. CASE WkUnload BY <1>13 DEF WkUnload, GoesDown, WkFresh, SaveState
<1>14. CASE WkCrash BY <1>14 DEF WkCrash, GoesDown, WkFresh
<1>15. CASE WkMidnight BY <1>15 DEF WkMidnight
<1>16. CASE \E b \in WkBatteries : RestoreFails(b) BY <1>16 DEF RestoreFails
<1>17. CASE \E b \in WkBatteries, o \in {"auto", "manual", "backup"} : ChangeOwner(b, o) BY <1>17 DEF ChangeOwner
<1>18. CASE \E e \in BOOLEAN, d \in 0..1 : Reconfigure(e, d) BY <1>18 DEF Reconfigure
<1>19. CASE UNCHANGED wkVars BY <1>19 DEF wkVars
<1> QED BY <1>1, <1>2, <1>3, <1>4, <1>5, <1>6, <1>7, <1>8, <1>9, <1>10, <1>11, <1>12, <1>13, <1>14, <1>15, <1>16, <1>17, <1>18, <1>19 DEF WkNext, WkCycle

LEMMA WkStepOnce ==
    ASSUME WkInv, DoneIsKept, [WkNext]_wkVars PROVE wkDone => \A b \in WkBatteries : wkReg'[b] = WkTop => wkReg[b] = WkTop
<1> USE WkAssumption DEF WkInv, WkTypeOK, KeptIsOriginal, DoneIsKept, Original, wkWorld, wkHistory, wkMemory, wkFaced
<1>1. CASE WkStart BY <1>1 DEF WkStart
<1>2. CASE RestoreEnds BY <1>2 DEF RestoreEnds
<1>3. CASE NoRun BY <1>3 DEF NoRun
<1>4. CASE RunGoesOn BY <1>4 DEF RunGoesOn
<1>5. CASE RaiseEnds BY <1>5 DEF RaiseEnds
<1>6. CASE FinishEnds BY <1>6 DEF FinishEnds
<1>7. CASE \E full \in BOOLEAN : JudgeRun(full) BY <1>7 DEF JudgeRun
<1>8. CASE \E b \in WkBatteries : RestoreOne(b) BY <1>8 DEF RestoreOne
<1>9. CASE \E b \in WkBatteries, ok \in BOOLEAN : RaiseOne(b, ok) BY <1>9 DEF RaiseOne
<1>10. CASE HeldByDelay BY <1>10 DEF HeldByDelay
<1>11. CASE SaveRuns BY <1>11 DEF SaveRuns
<1>12. CASE WkSetUp BY <1>12 DEF WkSetUp
<1>13. CASE WkUnload BY <1>13 DEF WkUnload, GoesDown
<1>14. CASE WkCrash BY <1>14 DEF WkCrash, GoesDown
<1>15. CASE WkMidnight BY <1>15 DEF WkMidnight
<1>16. CASE \E b \in WkBatteries : RestoreFails(b) BY <1>16 DEF RestoreFails
<1>17. CASE \E b \in WkBatteries, o \in {"auto", "manual", "backup"} : ChangeOwner(b, o) BY <1>17 DEF ChangeOwner
<1>18. CASE \E e \in BOOLEAN, d \in 0..1 : Reconfigure(e, d) BY <1>18 DEF Reconfigure
<1>19. CASE UNCHANGED wkVars BY <1>19 DEF wkVars
<1> QED BY <1>1, <1>2, <1>3, <1>4, <1>5, <1>6, <1>7, <1>8, <1>9, <1>10, <1>11, <1>12, <1>13, <1>14, <1>15, <1>16, <1>17, <1>18, <1>19 DEF WkNext, WkCycle

(* The weekly charge runs once on its day: after a completed and saved run no *)
(* register is raised again before midnight or a change of options, whatever  *)
(* restarts, failures and handoffs come in between (load_state).              *)
THEOREM RunOnceCorrect == WkSpec => OneRunADay
<1>1. WkInit => DoneIsKept BY DEF WkInit, DoneIsKept
<1>2. WkInv /\ DoneIsKept /\ [WkNext]_wkVars => (WkInv /\ DoneIsKept)'
  BY WkStepInv, WkStepDone DEF WkInv
<1>3. WkInv /\ DoneIsKept /\ [WkNext]_wkVars
      => [wkDone => \A b \in WkBatteries : wkReg'[b] = WkTop => wkReg[b] = WkTop]_wkVars
  BY WkStepOnce
<1> QED BY WkInitInv, <1>1, <1>2, <1>3, PTL DEF WkSpec, OneRunADay

-----------------------------------------------------------------------------
(* The demand protection of grid charging.                                    *)
(* What the run of a charge holds, as a set of its own.                       *)
GcRuns == [active: BOOLEAN, initialized: BOOLEAN, suspended: BOOLEAN, state: GcState,
           fresh: 0..GcFreshNeeded, recovery: 0..2, hard: 0..GcConfirmations,
           resume: -1..GcMaxCharge, prev: 0..GcMaxCharge]
(* ... and while a handler counts a hard overload too many. *)
GcWide == [active: BOOLEAN, initialized: BOOLEAN, suspended: BOOLEAN, state: GcState,
           fresh: 0..GcFreshNeeded, recovery: 0..2, hard: 0..(GcConfirmations + 1),
           resume: -1..GcMaxCharge, prev: 0..GcMaxCharge]
GcMeters == [value: Int, load: GcLoads, fresh: BOOLEAN, last: Int]
GcIdles == GcSettling \cup {"holding_idle"}

(* Only a charge that is on is suspended, and it is then in no other state.     *)
SuspendedIs ==
    /\ gcRun.suspended <=> gcRun.state # "charging"
    /\ ~gcRun.active => ~gcRun.suspended
(* While it settles or holds idle nothing is commanded; once the window has      *)
(* passed nothing flows, and what the meter says after the first publication    *)
(* that counted is what the house draws.                                       *)
IdleIs ==
    gcRun.state \in GcIdles =>
        /\ gcCmd = 0
        /\ gcElapsed => gcActual = 0
        /\ gcRun.fresh >= 1 \/ gcRun.state = "holding_idle"
             => gcElapsed /\ (gcMeter.fresh => gcMeter.value = gcMeter.load)
        /\ gcRun.state = "holding_idle" => gcRead \in {0, GcUnknown}
GcInv == GcTypeOK /\ SuspendedIs /\ IdleIs

LEMMA GcNumbers ==
    /\ GcCeiling \in Nat /\ GcMargin \in Nat /\ GcResume \in Nat /\ GcMaxUpsets \in Nat
    /\ GcMaxCharge \in Nat \ {0} /\ GcFloor \in Nat \ {0} /\ GcMaxDischarge \in Nat \ {0}
    /\ GcFloor <= GcMaxCharge /\ GcLoads \subseteq Nat
    /\ GcFreshNeeded = 2 /\ GcConfirmations = 3
    /\ GcState = {"charging", "holding_idle", "settling_after_charge", "settling_after_discharge",
                  "peak_shaving", "emergency_discharge"}
BY GcAssumption DEF GcFreshNeeded, GcConfirmations, GcState, GcSettling, GcProtects

LEMMA ClipType == \A x \in Int, lo \in Int, hi \in Int : lo <= hi => Clip(x, lo, hi) \in lo..hi
BY DEF Clip

LEMMA WideRuns == \A r : r \in GcRuns <=> r \in GcWide /\ r.hard <= GcConfirmations
BY GcNumbers DEF GcRuns, GcWide

-----------------------------------------------------------------------------
(* The updates of several entries, by name, and what each of them gives.      *)

SettlesOn(r, n) == [r EXCEPT !.fresh = n]
SuspendedRun(r) == [r EXCEPT !.suspended = TRUE, !.state = "settling_after_charge", !.fresh = 0, !.recovery = 0, !.hard = 0, !.resume = -1, !.active = TRUE, !.initialized = FALSE, !.prev = 0]
LeavesIt(r) == [r EXCEPT !.state = "settling_after_discharge", !.fresh = 0]
Protects(r) == [r EXCEPT !.state = "peak_shaving", !.fresh = 0]
HoldsIdle(r) == [r EXCEPT !.state = "holding_idle", !.fresh = 0]
IdleFor(r, n) == [r EXCEPT !.state = "holding_idle", !.fresh = 0, !.recovery = n]
ResumesAt(r, n) == [r EXCEPT !.resume = n, !.initialized = FALSE]
Charges(r, n, k) == [r EXCEPT !.initialized = TRUE, !.resume = -1, !.hard = n, !.prev = k]
Charged(r, n) == [r EXCEPT !.prev = n]
Completed(r) == [r EXCEPT !.active = FALSE, !.initialized = FALSE, !.prev = 0]
Opened(r) == [r EXCEPT !.active = TRUE, !.initialized = FALSE]

LEMMA ResetDemandIs == \A r \in GcRuns :
    /\ ResetDemand(r)
       = [active |-> r.active, initialized |-> r.initialized, suspended |-> FALSE, state |-> "charging",
          fresh |-> 0, recovery |-> 0, hard |-> 0, resume |-> -1, prev |-> r.prev]
    /\ ResetDemand(r) \in GcRuns
<1> TAKE r \in GcRuns
<1> DEFINE q1 == [r EXCEPT !.suspended = FALSE]
           q2 == [q1 EXCEPT !.state = "charging"]
           q3 == [q2 EXCEPT !.fresh = 0]
           q4 == [q3 EXCEPT !.recovery = 0]
           q5 == [q4 EXCEPT !.hard = 0]
           q6 == [q5 EXCEPT !.resume = -1]
<1>1. ResetDemand(r) = q6 BY Zenon DEF ResetDemand
<1>2. q1 = [r EXCEPT !.suspended = FALSE]
      /\ q2 = [q1 EXCEPT !.state = "charging"]
      /\ q3 = [q2 EXCEPT !.fresh = 0]
      /\ q4 = [q3 EXCEPT !.recovery = 0]
      /\ q5 = [q4 EXCEPT !.hard = 0]
      /\ q6 = [q5 EXCEPT !.resume = -1]
  OBVIOUS
<1> HIDE DEF q1, q2, q3, q4, q5, q6
<1>3. ResetDemand(r) = [active |-> r.active, initialized |-> r.initialized, suspended |-> FALSE, state |-> "charging",
        fresh |-> 0, recovery |-> 0, hard |-> 0, resume |-> -1, prev |-> r.prev]
  BY <1>1, <1>2 DEF GcRuns
<1> QED BY <1>3, GcNumbers DEF GcRuns

LEMMA SettlesOnIs == \A r \in GcRuns, n \in 0..GcFreshNeeded :
    /\ SettlesOn(r, n)
       = [active |-> r.active, initialized |-> r.initialized, suspended |-> r.suspended, state |-> r.state,
          fresh |-> n, recovery |-> r.recovery, hard |-> r.hard, resume |-> r.resume, prev |-> r.prev]
    /\ SettlesOn(r, n) \in GcRuns
<1> TAKE r \in GcRuns, n \in 0..GcFreshNeeded
<1>1. SettlesOn(r, n) = [r EXCEPT !.fresh = n] BY Zenon DEF SettlesOn
<1>2. SettlesOn(r, n) = [active |-> r.active, initialized |-> r.initialized, suspended |-> r.suspended, state |-> r.state,
        fresh |-> n, recovery |-> r.recovery, hard |-> r.hard, resume |-> r.resume, prev |-> r.prev]
  BY <1>1 DEF GcRuns
<1> QED BY <1>2, GcNumbers DEF GcRuns

LEMMA SuspendedRunIs == \A r \in GcWide :
    /\ SuspendedRun(r)
       = [active |-> TRUE, initialized |-> FALSE, suspended |-> TRUE, state |-> "settling_after_charge",
          fresh |-> 0, recovery |-> 0, hard |-> 0, resume |-> -1, prev |-> 0]
    /\ SuspendedRun(r) \in GcWide
<1> TAKE r \in GcWide
<1> DEFINE q1 == [r EXCEPT !.suspended = TRUE]
           q2 == [q1 EXCEPT !.state = "settling_after_charge"]
           q3 == [q2 EXCEPT !.fresh = 0]
           q4 == [q3 EXCEPT !.recovery = 0]
           q5 == [q4 EXCEPT !.hard = 0]
           q6 == [q5 EXCEPT !.resume = -1]
           q7 == [q6 EXCEPT !.active = TRUE]
           q8 == [q7 EXCEPT !.initialized = FALSE]
           q9 == [q8 EXCEPT !.prev = 0]
<1>1. SuspendedRun(r) = q9 BY Zenon DEF SuspendedRun
<1>2. q1 = [r EXCEPT !.suspended = TRUE]
      /\ q2 = [q1 EXCEPT !.state = "settling_after_charge"]
      /\ q3 = [q2 EXCEPT !.fresh = 0]
      /\ q4 = [q3 EXCEPT !.recovery = 0]
      /\ q5 = [q4 EXCEPT !.hard = 0]
      /\ q6 = [q5 EXCEPT !.resume = -1]
      /\ q7 = [q6 EXCEPT !.active = TRUE]
      /\ q8 = [q7 EXCEPT !.initialized = FALSE]
      /\ q9 = [q8 EXCEPT !.prev = 0]
  OBVIOUS
<1> HIDE DEF q1, q2, q3, q4, q5, q6, q7, q8, q9
<1>3. SuspendedRun(r) = [active |-> TRUE, initialized |-> FALSE, suspended |-> TRUE, state |-> "settling_after_charge",
        fresh |-> 0, recovery |-> 0, hard |-> 0, resume |-> -1, prev |-> 0]
  BY <1>1, <1>2 DEF GcWide
<1> QED BY <1>3, GcNumbers DEF GcWide

LEMMA LeavesItIs == \A r \in GcRuns :
    /\ LeavesIt(r)
       = [active |-> r.active, initialized |-> r.initialized, suspended |-> r.suspended,
          state |-> "settling_after_discharge", fresh |-> 0, recovery |-> r.recovery, hard |-> r.hard,
          resume |-> r.resume, prev |-> r.prev]
    /\ LeavesIt(r) \in GcRuns
<1> TAKE r \in GcRuns
<1> DEFINE q1 == [r EXCEPT !.state = "settling_after_discharge"]
           q2 == [q1 EXCEPT !.fresh = 0]
<1>1. LeavesIt(r) = q2 BY Zenon DEF LeavesIt
<1>2. q1 = [r EXCEPT !.state = "settling_after_discharge"]
      /\ q2 = [q1 EXCEPT !.fresh = 0]
  OBVIOUS
<1> HIDE DEF q1, q2
<1>3. LeavesIt(r) = [active |-> r.active, initialized |-> r.initialized, suspended |-> r.suspended,
        state |-> "settling_after_discharge", fresh |-> 0, recovery |-> r.recovery, hard |-> r.hard,
        resume |-> r.resume, prev |-> r.prev]
  BY <1>1, <1>2 DEF GcRuns
<1> QED BY <1>3, GcNumbers DEF GcRuns

LEMMA ProtectsIs == \A r \in GcRuns :
    /\ Protects(r)
       = [active |-> r.active, initialized |-> r.initialized, suspended |-> r.suspended,
          state |-> "peak_shaving", fresh |-> 0, recovery |-> r.recovery, hard |-> r.hard,
          resume |-> r.resume, prev |-> r.prev]
    /\ Protects(r) \in GcRuns
<1> TAKE r \in GcRuns
<1> DEFINE q1 == [r EXCEPT !.state = "peak_shaving"]
           q2 == [q1 EXCEPT !.fresh = 0]
<1>1. Protects(r) = q2 BY Zenon DEF Protects
<1>2. q1 = [r EXCEPT !.state = "peak_shaving"]
      /\ q2 = [q1 EXCEPT !.fresh = 0]
  OBVIOUS
<1> HIDE DEF q1, q2
<1>3. Protects(r) = [active |-> r.active, initialized |-> r.initialized, suspended |-> r.suspended,
        state |-> "peak_shaving", fresh |-> 0, recovery |-> r.recovery, hard |-> r.hard, resume |-> r.resume,
        prev |-> r.prev]
  BY <1>1, <1>2 DEF GcRuns
<1> QED BY <1>3, GcNumbers DEF GcRuns

LEMMA HoldsIdleIs == \A r \in GcRuns :
    /\ HoldsIdle(r)
       = [active |-> r.active, initialized |-> r.initialized, suspended |-> r.suspended,
          state |-> "holding_idle", fresh |-> 0, recovery |-> r.recovery, hard |-> r.hard,
          resume |-> r.resume, prev |-> r.prev]
    /\ HoldsIdle(r) \in GcRuns
<1> TAKE r \in GcRuns
<1> DEFINE q1 == [r EXCEPT !.state = "holding_idle"]
           q2 == [q1 EXCEPT !.fresh = 0]
<1>1. HoldsIdle(r) = q2 BY Zenon DEF HoldsIdle
<1>2. q1 = [r EXCEPT !.state = "holding_idle"]
      /\ q2 = [q1 EXCEPT !.fresh = 0]
  OBVIOUS
<1> HIDE DEF q1, q2
<1>3. HoldsIdle(r) = [active |-> r.active, initialized |-> r.initialized, suspended |-> r.suspended,
        state |-> "holding_idle", fresh |-> 0, recovery |-> r.recovery, hard |-> r.hard, resume |-> r.resume,
        prev |-> r.prev]
  BY <1>1, <1>2 DEF GcRuns
<1> QED BY <1>3, GcNumbers DEF GcRuns

LEMMA IdleForIs == \A r \in GcRuns, n \in 0..2 :
    /\ IdleFor(r, n)
       = [active |-> r.active, initialized |-> r.initialized, suspended |-> r.suspended,
          state |-> "holding_idle", fresh |-> 0, recovery |-> n, hard |-> r.hard, resume |-> r.resume,
          prev |-> r.prev]
    /\ IdleFor(r, n) \in GcRuns
<1> TAKE r \in GcRuns, n \in 0..2
<1> DEFINE q1 == [r EXCEPT !.state = "holding_idle"]
           q2 == [q1 EXCEPT !.fresh = 0]
           q3 == [q2 EXCEPT !.recovery = n]
<1>1. IdleFor(r, n) = q3 BY Zenon DEF IdleFor
<1>2. q1 = [r EXCEPT !.state = "holding_idle"]
      /\ q2 = [q1 EXCEPT !.fresh = 0]
      /\ q3 = [q2 EXCEPT !.recovery = n]
  OBVIOUS
<1> HIDE DEF q1, q2, q3
<1>3. IdleFor(r, n) = [active |-> r.active, initialized |-> r.initialized, suspended |-> r.suspended,
        state |-> "holding_idle", fresh |-> 0, recovery |-> n, hard |-> r.hard, resume |-> r.resume,
        prev |-> r.prev]
  BY <1>1, <1>2 DEF GcRuns
<1> QED BY <1>3, GcNumbers DEF GcRuns

LEMMA ResumesAtIs == \A r \in GcRuns, n \in 0..GcMaxCharge :
    /\ ResumesAt(r, n)
       = [active |-> r.active, initialized |-> FALSE, suspended |-> r.suspended, state |-> r.state,
          fresh |-> r.fresh, recovery |-> r.recovery, hard |-> r.hard, resume |-> n, prev |-> r.prev]
    /\ ResumesAt(r, n) \in GcRuns
<1> TAKE r \in GcRuns, n \in 0..GcMaxCharge
<1> DEFINE q1 == [r EXCEPT !.resume = n]
           q2 == [q1 EXCEPT !.initialized = FALSE]
<1>1. ResumesAt(r, n) = q2 BY Zenon DEF ResumesAt
<1>2. q1 = [r EXCEPT !.resume = n]
      /\ q2 = [q1 EXCEPT !.initialized = FALSE]
  OBVIOUS
<1> HIDE DEF q1, q2
<1>3. ResumesAt(r, n) = [active |-> r.active, initialized |-> FALSE, suspended |-> r.suspended, state |-> r.state,
        fresh |-> r.fresh, recovery |-> r.recovery, hard |-> r.hard, resume |-> n, prev |-> r.prev]
  BY <1>1, <1>2 DEF GcRuns
<1> QED BY <1>3, GcNumbers DEF GcRuns

LEMMA ChargesIs == \A r \in GcWide, n \in 0..(GcConfirmations + 1), k \in 0..GcMaxCharge :
    /\ Charges(r, n, k)
       = [active |-> r.active, initialized |-> TRUE, suspended |-> r.suspended, state |-> r.state,
          fresh |-> r.fresh, recovery |-> r.recovery, hard |-> n, resume |-> -1, prev |-> k]
    /\ Charges(r, n, k) \in GcWide
<1> TAKE r \in GcWide, n \in 0..(GcConfirmations + 1), k \in 0..GcMaxCharge
<1> DEFINE q1 == [r EXCEPT !.initialized = TRUE]
           q2 == [q1 EXCEPT !.resume = -1]
           q3 == [q2 EXCEPT !.hard = n]
           q4 == [q3 EXCEPT !.prev = k]
<1>1. Charges(r, n, k) = q4 BY Zenon DEF Charges
<1>2. q1 = [r EXCEPT !.initialized = TRUE]
      /\ q2 = [q1 EXCEPT !.resume = -1]
      /\ q3 = [q2 EXCEPT !.hard = n]
      /\ q4 = [q3 EXCEPT !.prev = k]
  OBVIOUS
<1> HIDE DEF q1, q2, q3, q4
<1>3. Charges(r, n, k) = [active |-> r.active, initialized |-> TRUE, suspended |-> r.suspended, state |-> r.state,
        fresh |-> r.fresh, recovery |-> r.recovery, hard |-> n, resume |-> -1, prev |-> k]
  BY <1>1, <1>2 DEF GcWide
<1> QED BY <1>3, GcNumbers DEF GcWide

LEMMA ChargedIs == \A r \in GcRuns, n \in 0..GcMaxCharge :
    /\ Charged(r, n)
       = [active |-> r.active, initialized |-> r.initialized, suspended |-> r.suspended, state |-> r.state,
          fresh |-> r.fresh, recovery |-> r.recovery, hard |-> r.hard, resume |-> r.resume, prev |-> n]
    /\ Charged(r, n) \in GcRuns
<1> TAKE r \in GcRuns, n \in 0..GcMaxCharge
<1>1. Charged(r, n) = [r EXCEPT !.prev = n] BY Zenon DEF Charged
<1>2. Charged(r, n) = [active |-> r.active, initialized |-> r.initialized, suspended |-> r.suspended, state |-> r.state,
        fresh |-> r.fresh, recovery |-> r.recovery, hard |-> r.hard, resume |-> r.resume, prev |-> n]
  BY <1>1 DEF GcRuns
<1> QED BY <1>2, GcNumbers DEF GcRuns

LEMMA CompletedIs == \A r \in GcRuns :
    /\ Completed(r)
       = [active |-> FALSE, initialized |-> FALSE, suspended |-> r.suspended, state |-> r.state,
          fresh |-> r.fresh, recovery |-> r.recovery, hard |-> r.hard, resume |-> r.resume, prev |-> 0]
    /\ Completed(r) \in GcRuns
<1> TAKE r \in GcRuns
<1> DEFINE q1 == [r EXCEPT !.active = FALSE]
           q2 == [q1 EXCEPT !.initialized = FALSE]
           q3 == [q2 EXCEPT !.prev = 0]
<1>1. Completed(r) = q3 BY Zenon DEF Completed
<1>2. q1 = [r EXCEPT !.active = FALSE]
      /\ q2 = [q1 EXCEPT !.initialized = FALSE]
      /\ q3 = [q2 EXCEPT !.prev = 0]
  OBVIOUS
<1> HIDE DEF q1, q2, q3
<1>3. Completed(r) = [active |-> FALSE, initialized |-> FALSE, suspended |-> r.suspended, state |-> r.state,
        fresh |-> r.fresh, recovery |-> r.recovery, hard |-> r.hard, resume |-> r.resume, prev |-> 0]
  BY <1>1, <1>2 DEF GcRuns
<1> QED BY <1>3, GcNumbers DEF GcRuns

LEMMA OpenedIs == \A r \in GcRuns :
    /\ Opened(r)
       = [active |-> TRUE, initialized |-> FALSE, suspended |-> r.suspended, state |-> r.state,
          fresh |-> r.fresh, recovery |-> r.recovery, hard |-> r.hard, resume |-> r.resume, prev |-> r.prev]
    /\ Opened(r) \in GcRuns
<1> TAKE r \in GcRuns
<1> DEFINE q1 == [r EXCEPT !.active = TRUE]
           q2 == [q1 EXCEPT !.initialized = FALSE]
<1>1. Opened(r) = q2 BY Zenon DEF Opened
<1>2. q1 = [r EXCEPT !.active = TRUE]
      /\ q2 = [q1 EXCEPT !.initialized = FALSE]
  OBVIOUS
<1> HIDE DEF q1, q2
<1>3. Opened(r) = [active |-> TRUE, initialized |-> FALSE, suspended |-> r.suspended, state |-> r.state,
        fresh |-> r.fresh, recovery |-> r.recovery, hard |-> r.hard, resume |-> r.resume, prev |-> r.prev]
  BY <1>1, <1>2 DEF GcRuns
<1> QED BY <1>3, GcNumbers DEF GcRuns

-----------------------------------------------------------------------------
(* A cycle or the watchdog: the sample is taken over, the rest waits.          *)
Handling ==
    /\ GcInv /\ gcRun.active /\ GcSample
    /\ gcActual' = gcActual /\ gcRead' = gcRead
(* What it leaves, and what a first protective discharge is.                   *)
Handled ==
    /\ gcRun' \in GcRuns /\ gcCmd' \in GcPower /\ gcElapsed' \in BOOLEAN
    /\ SuspendedIs' /\ IdleIs'
    /\ gcRun.state \in GcIdles /\ gcRun'.state \in GcProtects
         => -gcCmd' <= gcMeter.load - GcCeiling

LEMMA HandlingGives ==
    ASSUME Handling
    PROVE /\ gcRun \in GcRuns /\ gcMeter \in GcMeters /\ gcCmd \in GcPower /\ gcElapsed \in BOOLEAN
          /\ SuspendedIs /\ IdleIs /\ ~gcMeter'.fresh
<1>1. gcMeter \in GcMeters /\ gcElapsed \in BOOLEAN BY DEF Handling, GcInv, GcTypeOK, GcMeters
<1>2. gcMeter' = [gcMeter EXCEPT !.fresh = FALSE, !.last = gcMeter.value] BY DEF Handling, GcSample
<1>3. ~gcMeter'.fresh
  <2> DEFINE q1 == [gcMeter EXCEPT !.fresh = FALSE]
             q2 == [q1 EXCEPT !.last = gcMeter.value]
  <2>1. gcMeter' = q2 BY <1>2, Zenon
  <2>2. q1 = [gcMeter EXCEPT !.fresh = FALSE] /\ q2 = [q1 EXCEPT !.last = gcMeter.value] OBVIOUS
  <2> HIDE DEF q1, q2
  <2> QED BY <1>1, <2>1, <2>2 DEF GcMeters
<1> QED BY <1>1, <1>3 DEF Handling, GcInv, GcTypeOK, GcRuns

(* The outcomes by the state they lead to.                                    *)
LEMMA ToSettling ==
    ASSUME Handling, gcRun' \in GcRuns, gcRun'.state \in GcSettling, gcRun'.fresh = 0,
           gcRun'.suspended, gcRun'.active, gcCmd' = 0, ~gcElapsed', gcElapsed' \in BOOLEAN
    PROVE Handled
<1>1. 0 \in GcPower BY GcNumbers DEF GcPower
<1>2. gcRun'.state \notin GcProtects /\ gcRun'.state # "charging" /\ gcRun'.state # "holding_idle"
  BY DEF GcSettling, GcProtects
<1> QED BY <1>1, <1>2 DEF Handled, SuspendedIs, IdleIs

LEMMA ToCharging ==
    ASSUME Handling, gcRun' \in GcRuns, gcRun'.state = "charging", ~gcRun'.suspended,
           gcCmd' \in GcPower, gcElapsed' \in BOOLEAN
    PROVE Handled
<1>1. gcRun'.state \notin GcProtects /\ gcRun'.state \notin GcIdles BY DEF GcIdles, GcSettling, GcProtects
<1> QED BY <1>1 DEF Handled, SuspendedIs, IdleIs

LEMMA ToIdle ==
    ASSUME Handling, gcRun' \in GcRuns, gcRun'.state = "holding_idle", gcRun.state \in GcIdles,
           gcRun'.suspended, gcRun'.active, gcCmd' = gcCmd, gcElapsed' = gcElapsed, gcElapsed,
           gcRead \in {0, GcUnknown}
    PROVE Handled
<1>1. gcRun'.state \notin GcProtects BY DEF GcProtects
<1> QED BY <1>1, HandlingGives DEF Handled, SuspendedIs, IdleIs, Handling

LEMMA Staying ==
    ASSUME Handling, gcRun' = gcRun, gcCmd' = gcCmd, gcElapsed' = gcElapsed
    PROVE Handled
<1>1. ~(gcRun.state \in GcIdles /\ gcRun.state \in GcProtects) BY DEF GcIdles, GcSettling, GcProtects
<1> QED BY <1>1, HandlingGives DEF Handled, SuspendedIs, IdleIs, Handling

-----------------------------------------------------------------------------
LEMMA LeaveKeeps == ASSUME Handling, gcRun.suspended, Leave(gcRun) PROVE Handled
<1> DEFINE u == LeavesIt(gcRun)
<1>1. gcRun' = u /\ gcCmd' = 0 /\ gcElapsed' = FALSE BY Zenon DEF Leave, Outcome, LeavesIt
<1>2. gcRun \in GcRuns /\ gcRun.active BY HandlingGives DEF Handling
<1>3. u \in GcRuns /\ u.state = "settling_after_discharge" /\ u.fresh = 0 BY <1>2, LeavesItIs, GcNumbers
<1>4. (u.suspended <=> gcRun.suspended) /\ (u.active <=> gcRun.active) BY <1>2, LeavesItIs
<1> HIDE DEF u
<1> QED BY <1>1, <1>2, <1>3, <1>4, ToSettling DEF GcSettling

LEMMA SuspendKeeps ==
    ASSUME Handling, NEW r \in GcWide, ~r.suspended, Suspend(r)
    PROVE Handled
<1> DEFINE u == SuspendedRun(r)
<1>1. gcRun' = u /\ gcCmd' = 0 /\ gcElapsed' = (gcElapsed /\ ~(~r.suspended))
  BY Zenon DEF Suspend, Outcome, SuspendedRun
<1>2. u \in GcWide /\ u.state = "settling_after_charge" /\ u.fresh = 0 /\ u.hard = 0
  BY SuspendedRunIs, GcNumbers
<1>3. u.suspended /\ u.active BY SuspendedRunIs
<1>4. gcElapsed' = FALSE BY <1>1
<1> HIDE DEF u
<1>5. u \in GcRuns BY <1>2, WideRuns, GcNumbers
<1> QED BY <1>1, <1>2, <1>3, <1>4, <1>5, ToSettling DEF GcSettling

LEMMA ProtectKeeps ==
    ASSUME Handling, gcRun.suspended, Protect(gcRun), BaseLoad > GcCeiling, gcMeter.fresh,
           gcRun.state \in GcSettling => Settled(gcRun)
    PROVE Handled
<1> DEFINE u == Protects(gcRun)
           w == Clip(BaseLoad - GcCeiling, 0, GcMaxDischarge)
<1>1. gcRun' = u /\ gcCmd' = -w /\ gcElapsed' = (gcElapsed /\ ~FALSE)
  BY Zenon DEF Protect, Outcome, Protects
<1>2. gcRun \in GcRuns /\ gcMeter \in GcMeters /\ gcElapsed \in BOOLEAN /\ IdleIs /\ SuspendedIs
      /\ gcRun.active /\ gcRead \in GcPower \cup {GcUnknown}
  BY HandlingGives DEF Handling, GcInv, GcTypeOK
<1>3. u \in GcRuns /\ u.state = "peak_shaving" BY <1>2, ProtectsIs, GcNumbers
<1>4. (u.suspended <=> gcRun.suspended) /\ (u.active <=> gcRun.active) BY <1>2, ProtectsIs
<1>5. BaseLoad \in Int BY <1>2, GcNumbers DEF BaseLoad, GcMeters, GcPower, GcUnknown
<1>6. w \in 0..GcMaxDischarge /\ w <= BaseLoad - GcCeiling BY <1>5, GcNumbers DEF Clip
<1>7. gcRun.state \in GcIdles => BaseLoad = gcMeter.load
  <2> SUFFICES ASSUME gcRun.state \in GcIdles PROVE BaseLoad = gcMeter.load OBVIOUS
  <2>1. gcRead \in {0, GcUnknown} /\ (gcRun.fresh >= 1 \/ gcRun.state = "holding_idle")
    BY <1>2, GcNumbers DEF IdleIs, GcIdles, Settled, GcRuns
  <2>2. gcMeter.value = gcMeter.load BY <1>2, <2>1 DEF IdleIs
  <2> QED BY <1>2, <2>1, <2>2, GcNumbers DEF BaseLoad, GcMeters
<1>8. u.state \notin GcIdles /\ u.state # "charging" BY <1>3 DEF GcIdles, GcSettling
<1>9. -w \in GcPower BY <1>6, GcNumbers DEF GcPower
<1>10. gcMeter.load \in Int
  <2>1. gcMeter.load \in GcLoads BY <1>2 DEF GcMeters
  <2>2. GcLoads \subseteq Nat BY GcAssumption
  <2>3. gcMeter.load \in Nat BY <2>1, <2>2, Zenon
  <2> QED BY <2>3
<1> HIDE DEF u, w
<1>11. -(-w) = w BY <1>6, GcNumbers
<1>12. -gcCmd' = w BY <1>1, <1>11
<1>13. gcRun.state \in GcIdles => -gcCmd' <= gcMeter.load - GcCeiling BY <1>6, <1>7, <1>12
<1> QED BY <1>1, <1>2, <1>3, <1>4, <1>8, <1>9, <1>13 DEF Handled, SuspendedIs, IdleIs

LEMMA SettlingKeeps ==
    ASSUME Handling, gcRun.state \in GcSettling, Outcome(Settling(gcRun), gcCmd, FALSE)
    PROVE Handled
<1> DEFINE n == IF gcRead \notin {0, GcUnknown} THEN 0
                ELSE IF gcElapsed /\ gcMeter.fresh /\ gcRun.fresh < GcFreshNeeded
                     THEN gcRun.fresh + 1 ELSE gcRun.fresh
           u == SettlesOn(gcRun, n)
<1>1. gcRun' = u /\ gcCmd' = gcCmd /\ gcElapsed' = (gcElapsed /\ ~FALSE)
  BY Zenon DEF Outcome, Settling, SettlesOn
<1>2. gcRun \in GcRuns /\ gcElapsed \in BOOLEAN /\ IdleIs /\ SuspendedIs /\ gcRun.active /\ gcCmd \in GcPower
  BY HandlingGives DEF Handling
<1>3. n \in 0..GcFreshNeeded BY <1>2, GcNumbers DEF GcRuns
<1>4. n >= 1 => gcElapsed BY <1>2, GcNumbers DEF IdleIs, GcIdles, GcRuns
<1> HIDE DEF n
<1>5. u \in GcRuns /\ u.state = gcRun.state /\ u.fresh = n BY <1>2, <1>3, SettlesOnIs
<1>6. (u.suspended <=> gcRun.suspended) /\ (u.active <=> gcRun.active) BY <1>2, <1>3, SettlesOnIs
<1> HIDE DEF u
<1>7. gcRun.state \in GcIdles /\ gcRun.state \notin GcProtects /\ gcRun.state # "holding_idle"
  BY DEF GcIdles, GcSettling, GcProtects
<1>8. ~gcMeter'.fresh /\ gcActual' = gcActual BY HandlingGives DEF Handling
<1> QED BY <1>1, <1>2, <1>4, <1>5, <1>6, <1>7, <1>8 DEF Handled, SuspendedIs, IdleIs

LEMMA HoldIdleKeeps ==
    ASSUME Handling, gcRun.suspended, gcRun.state \in GcSettling, Settled(gcRun),
           Outcome(HoldsIdle(gcRun), gcCmd, FALSE)
    PROVE Handled
<1> DEFINE u == HoldsIdle(gcRun)
<1>1. gcRun' = u /\ gcCmd' = gcCmd /\ gcElapsed' = (gcElapsed /\ ~FALSE) BY Zenon DEF Outcome
<1>2. gcRun \in GcRuns /\ gcElapsed \in BOOLEAN /\ gcRun.active BY HandlingGives DEF Handling
<1>3. u \in GcRuns /\ u.state = "holding_idle" BY <1>2, HoldsIdleIs, GcNumbers
<1>4. (u.suspended <=> gcRun.suspended) /\ (u.active <=> gcRun.active) BY <1>2, HoldsIdleIs
<1> HIDE DEF u
<1>5. gcElapsed /\ gcRead \in {0, GcUnknown} BY DEF Settled
<1> QED BY <1>1, <1>2, <1>3, <1>4, <1>5, ToIdle DEF GcIdles

LEMMA RecoverKeeps ==
    ASSUME Handling, gcRun.suspended, gcRun.state \in GcIdles, Recover(gcRun),
           gcRun.state \in GcSettling => Settled(gcRun)
    PROVE Handled
<1> DEFINE n == IF gcMeter.value > GcCeiling - GcResume THEN 0
                ELSE IF gcRun.recovery < 2 THEN gcRun.recovery + 1 ELSE 2
           idle == IdleFor(gcRun, n)
           k == Clip(GcCeiling - BaseLoad, 0, GcMaxCharge)
           d == ResetDemand(idle)
           u == ResumesAt(d, k)
<1>1. /\ gcCmd' = gcCmd /\ gcElapsed' = (gcElapsed /\ ~FALSE)
      /\ gcRun' = idle \/ gcRun' = u
  BY Zenon DEF Recover, Outcome, IdleFor, ResumesAt
<1>2. gcRun \in GcRuns /\ gcMeter \in GcMeters /\ gcElapsed \in BOOLEAN /\ IdleIs /\ gcRun.active
      /\ gcRead \in GcPower \cup {GcUnknown} /\ gcCmd \in GcPower
  BY HandlingGives DEF Handling, GcInv, GcTypeOK
<1>3. n \in 0..2 BY <1>2 DEF GcRuns
<1> HIDE DEF n
<1>4. idle \in GcRuns /\ idle.state = "holding_idle" BY <1>2, <1>3, IdleForIs, GcNumbers
<1>5. (idle.suspended <=> gcRun.suspended) /\ (idle.active <=> gcRun.active) BY <1>2, <1>3, IdleForIs
<1> HIDE DEF idle
<1>6. CASE gcRun' = idle
  <2>1. gcElapsed /\ gcRead \in {0, GcUnknown}
    BY <1>2, <1>4 DEF IdleIs, GcIdles, Settled
  <2> QED BY <1>1, <1>2, <1>4, <1>5, <1>6, <2>1, ToIdle
<1>7. CASE gcRun' = u
  <2>1. d \in GcRuns /\ d.state = "charging" BY <1>4, ResetDemandIs, GcNumbers
  <2>2. ~d.suspended BY <1>4, ResetDemandIs
  <2> HIDE DEF d
  <2>3. BaseLoad \in Int BY <1>2, GcNumbers DEF BaseLoad, GcMeters, GcPower, GcUnknown
  <2>4. k \in 0..GcMaxCharge BY <2>3, GcNumbers DEF Clip
  <2> HIDE DEF k
  <2>5. u \in GcRuns /\ u.state = d.state BY <2>1, <2>4, ResumesAtIs, GcNumbers
  <2>6. u.suspended <=> d.suspended BY <2>1, <2>4, ResumesAtIs
  <2> HIDE DEF u
  <2> QED BY <1>1, <1>2, <1>7, <2>1, <2>2, <2>5, <2>6, ToCharging
<1> QED BY <1>1, <1>6, <1>7

LEMMA ProtectionKeeps ==
    ASSUME Handling, gcRun.suspended, NEW within \in BOOLEAN, Protection(gcRun, within)
    PROVE Handled
<1>1. gcRun \in GcRuns /\ SuspendedIs /\ gcElapsed \in BOOLEAN BY HandlingGives
<1>2. \/ gcRun.state \in GcProtects /\ Leave(gcRun)
      \/ Outcome(gcRun, gcCmd, FALSE)
      \/ gcRun.state \in GcSettling /\ Outcome(Settling(gcRun), gcCmd, FALSE)
      \/ gcRun.state \in GcSettling /\ Settled(gcRun) /\ Outcome(HoldsIdle(gcRun), gcCmd, FALSE)
      \/ /\ gcRun.state \in GcSettling => Settled(gcRun)
         /\ gcMeter.fresh /\ BaseLoad > GcCeiling /\ Protect(gcRun)
      \/ (gcRun.state \in GcSettling => Settled(gcRun)) /\ gcRun.state \notin GcProtects /\ Recover(gcRun)
  BY Zenon DEF Protection, HoldsIdle
<1>3. CASE Outcome(gcRun, gcCmd, FALSE)
  <2>1. gcRun' = gcRun /\ gcCmd' = gcCmd /\ gcElapsed' = gcElapsed BY <1>1, <1>3 DEF Outcome
  <2> QED BY <2>1, Staying
<1>4. gcRun.state \in GcIdles \/ gcRun.state \in GcProtects
  BY <1>1, GcNumbers DEF GcRuns, SuspendedIs, GcIdles, GcSettling, GcProtects
<1> QED BY <1>2, <1>3, <1>4, LeaveKeeps, SettlingKeeps, HoldIdleKeeps, ProtectKeeps, RecoverKeeps

LEMMA CompleteKeeps == ASSUME Handling, ~gcRun.suspended, Complete(gcRun) PROVE Handled
<1> DEFINE u == Completed(gcRun)
<1>1. gcRun' = u /\ gcCmd' = gcCmd /\ gcElapsed' = (gcElapsed /\ ~FALSE)
  BY Zenon DEF Complete, Outcome, Completed
<1>2. gcRun \in GcRuns /\ gcCmd \in GcPower /\ gcElapsed \in BOOLEAN /\ SuspendedIs BY HandlingGives
<1>3. u \in GcRuns /\ u.state = gcRun.state BY <1>2, CompletedIs, GcNumbers
<1>4. u.suspended <=> gcRun.suspended BY <1>2, CompletedIs
<1> HIDE DEF u
<1> QED BY <1>1, <1>2, <1>3, <1>4, ToCharging DEF SuspendedIs

LEMMA ChargeKeeps ==
    ASSUME Handling, ~gcRun.suspended, NEW within \in BOOLEAN, Charge(gcRun, within)
    PROVE Handled
<1> DEFINE before == IF gcRun.initialized THEN gcRun.prev ELSE First(gcRun)
           hard == HardCount(gcRun, within)
           power == Clip(Law(before), GcFloor, GcMaxCharge)
           next == Charges(gcRun, hard, before)
           u == Charged(next, power)
<1>1. /\ gcRun \in GcRuns /\ gcMeter \in GcMeters /\ gcCmd \in GcPower /\ gcElapsed \in BOOLEAN
      /\ SuspendedIs /\ gcRun.active
  BY HandlingGives DEF Handling
<1>2. before \in 0..GcMaxCharge
  <2>1. First(gcRun) \in 0..GcMaxCharge BY <1>1, GcNumbers DEF First, Clip, GcRuns
  <2> QED BY <1>1, <2>1 DEF GcRuns
<1>3. gcMeter.value \in Int BY <1>1 DEF GcMeters
<1>4. power \in GcFloor..GcMaxCharge
  <2> DEFINE x == Law(before)
  <2>1. x \in Int
    <3> HIDE DEF before
    <3> QED BY <1>2, <1>3, GcNumbers DEF Law
  <2> HIDE DEF x
  <2>2. Clip(x, GcFloor, GcMaxCharge) \in GcFloor..GcMaxCharge BY <2>1, GcNumbers, ClipType
  <2> QED BY <2>2 DEF x
<1>5. hard \in 0..(GcConfirmations + 1) BY <1>1, GcNumbers DEF HardCount, GcRuns
<1>6. \/ Suspend(next)
      \/ hard < GcConfirmations /\ (Outcome(next, gcCmd, FALSE) \/ Outcome(u, power, FALSE))
  <2>1. hard >= GcConfirmations \/ hard < GcConfirmations
    <3> HIDE DEF hard
    <3> QED BY <1>5, GcNumbers
  <2> QED BY <2>1, Zenon DEF Charge, Charges, Charged
<1>7. gcRun \in GcWide /\ gcRun.state = "charging" BY <1>1, WideRuns DEF SuspendedIs
<1> HIDE DEF before, hard, power
<1>8. next \in GcWide /\ next.state = gcRun.state /\ next.hard = hard BY <1>2, <1>5, <1>7, ChargesIs
<1>9. next.suspended <=> gcRun.suspended BY <1>2, <1>5, <1>7, ChargesIs
<1> HIDE DEF next
<1>10. CASE Suspend(next) BY <1>8, <1>9, <1>10, SuspendKeeps
<1>11. CASE hard < GcConfirmations /\ (Outcome(next, gcCmd, FALSE) \/ Outcome(u, power, FALSE))
  <2>1. next \in GcRuns BY <1>8, <1>11, WideRuns, GcNumbers, <1>5
  <2>2. power \in 0..GcMaxCharge /\ power \in GcPower BY <1>4, GcNumbers DEF GcPower
  <2>3. u \in GcRuns /\ u.state = next.state BY <2>1, <2>2, ChargedIs
  <2>4. u.suspended <=> next.suspended BY <2>1, <2>2, ChargedIs
  <2> HIDE DEF u
  <2>5. gcElapsed' = gcElapsed /\ gcRun' \in {next, u} /\ gcCmd' \in {gcCmd, power}
    BY <1>1, <1>11 DEF Outcome
  <2> QED BY <1>1, <1>7, <1>8, <1>9, <2>1, <2>2, <2>3, <2>4, <2>5, ToCharging
<1> QED BY <1>6, <1>10, <1>11

LEMMA HandleKeeps == ASSUME Handling, NEW within \in BOOLEAN, Handle(within) PROVE Handled
<1>1. gcRun \in GcRuns BY HandlingGives
<1>2. gcRun \in GcWide BY <1>1, WideRuns
<1>3. \/ gcRun.suspended /\ Protection(gcRun, within)
      \/ ~gcRun.suspended /\ (Suspend(gcRun) \/ Complete(gcRun) \/ Charge(gcRun, within))
  BY Zenon DEF Handle
<1> QED BY <1>2, <1>3, ProtectionKeeps, SuspendKeeps, CompleteKeeps, ChargeKeeps

-----------------------------------------------------------------------------
(* The other actions.                                                         *)
LEMMA RegulatesKeeps == ASSUME GcInv, GcRegulates PROVE GcInv'
<1>1. /\ gcRun \in GcRuns /\ gcMeter \in GcMeters /\ gcCmd \in GcPower /\ SuspendedIs
      /\ gcRun.state = "charging" /\ GcTypeOK
  BY DEF GcInv, GcTypeOK, GcRuns, GcMeters, SuspendedIs, GcRegulates
<1>2. gcCmd' \in GcPower
  <2>1. gcCmd - gcMeter.value \in Int BY <1>1, GcNumbers DEF GcMeters, GcPower
  <2> DEFINE y == gcCmd - gcMeter.value
  <2>2. gcCmd' = Clip(y, -GcMaxDischarge, GcMaxCharge) BY DEF GcRegulates
  <2> HIDE DEF y
  <2>3. -GcMaxDischarge \in Int /\ -GcMaxDischarge <= GcMaxCharge BY GcNumbers
  <2>4. y \in Int BY <2>1 DEF y
  <2>5. gcCmd' \in -GcMaxDischarge..GcMaxCharge BY <2>2, <2>3, <2>4, GcNumbers, ClipType
  <2> QED BY <2>5 DEF GcPower
<1>3. gcMeter' \in GcMeters BY <1>1 DEF GcMeters, GcRegulates, GcSample
<1>4. GcTypeOK'
  BY <1>1, <1>2, <1>3 DEF GcTypeOK, GcRuns, GcMeters, GcRegulates
<1>5. gcRun'.state \notin GcIdles BY <1>1 DEF GcRegulates, GcIdles, GcSettling
<1> QED BY <1>1, <1>4, <1>5 DEF GcInv, SuspendedIs, IdleIs, GcRegulates

LEMMA OpensKeeps == ASSUME GcInv, GcOpens PROVE GcInv' /\ ~gcRun'.suspended
<1> DEFINE u == Opened(gcRun)
<1>1. gcRun' = u BY Zenon DEF GcOpens, Opened
<1>2. gcRun \in GcRuns /\ SuspendedIs /\ gcRun.state = "charging" /\ GcTypeOK
  BY DEF GcInv, GcTypeOK, GcRuns, SuspendedIs, GcOpens
<1>3. u \in GcRuns /\ u.state = gcRun.state BY <1>2, OpenedIs
<1>4. u.suspended <=> gcRun.suspended BY <1>2, OpenedIs
<1> HIDE DEF u
<1>5. gcRun'.state \notin GcIdles BY <1>1, <1>2, <1>3 DEF GcIdles, GcSettling
<1>6. gcUpsets' \in 0..GcMaxUpsets BY <1>2, GcNumbers DEF GcOpens, GcUpset, GcTypeOK
<1>7. GcTypeOK' BY <1>1, <1>2, <1>3, <1>6 DEF GcTypeOK, GcRuns, GcOpens
<1> QED BY <1>1, <1>2, <1>3, <1>4, <1>5, <1>7 DEF GcInv, SuspendedIs, IdleIs

LEMMA ClosesKeeps == ASSUME GcInv, GcCloses PROVE GcInv' /\ ~gcRun'.suspended
<1> DEFINE d == ResetDemand(gcRun)
           u == Completed(d)
<1>1. gcRun' = u /\ gcCmd' \in {0, gcCmd} /\ gcElapsed' \in {gcElapsed /\ ~FALSE}
  BY Zenon DEF GcCloses, Outcome, Completed
<1>2. gcRun \in GcRuns /\ gcCmd \in GcPower /\ GcTypeOK BY DEF GcInv, GcTypeOK, GcRuns
<1>3. d \in GcRuns /\ d.state = "charging" BY <1>2, ResetDemandIs, GcNumbers
<1>4. ~d.suspended BY <1>2, ResetDemandIs
<1> HIDE DEF d
<1>5. u \in GcRuns /\ u.state = "charging" BY <1>3, CompletedIs, GcNumbers
<1>6. ~u.suspended BY <1>3, <1>4, CompletedIs
<1> HIDE DEF u
<1>7. gcRun'.state \notin GcIdles BY <1>1, <1>5 DEF GcIdles, GcSettling
<1>8. gcCmd' \in GcPower BY <1>1, <1>2, GcNumbers DEF GcPower
<1>9. gcElapsed' \in BOOLEAN /\ gcUpsets' \in 0..GcMaxUpsets
  BY <1>1, <1>2, GcNumbers DEF GcCloses, GcUpset, GcTypeOK
<1>10. GcTypeOK' BY <1>1, <1>2, <1>5, <1>8, <1>9 DEF GcTypeOK, GcRuns, GcCloses
<1> QED BY <1>1, <1>5, <1>6, <1>7, <1>10 DEF GcInv, SuspendedIs, IdleIs

LEMMA WorldKeeps ==
    ASSUME GcInv, GcActs \/ GcPolls \/ GcLosesTelemetry \/ GcWindowPasses \/ GcPublishes \/ GcChanges
    PROVE GcInv'
<1>1. GcTypeOK /\ SuspendedIs /\ IdleIs BY DEF GcInv
<1>2. gcRun' = gcRun /\ gcCmd' = gcCmd
  BY DEF GcActs, GcPolls, GcLosesTelemetry, GcWindowPasses, GcPublishes, GcChanges
<1>3. SuspendedIs' BY <1>1, <1>2 DEF SuspendedIs
<1>4. CASE GcActs
  <2>1. GcTypeOK' BY <1>1, <1>4 DEF GcTypeOK, GcActs
  <2> QED BY <1>1, <1>2, <1>3, <1>4, <2>1 DEF GcInv, GcActs, IdleIs
<1>5. CASE GcPolls
  <2>1. GcTypeOK' BY <1>1, <1>5 DEF GcTypeOK, GcPolls
  <2> QED BY <1>1, <1>2, <1>3, <1>5, <2>1 DEF GcInv, GcPolls, IdleIs
<1>6. CASE GcLosesTelemetry
  <2>1. GcTypeOK' BY <1>1, <1>6, GcNumbers DEF GcTypeOK, GcLosesTelemetry, GcUpset
  <2> QED BY <1>1, <1>2, <1>3, <1>6, <2>1 DEF GcInv, GcLosesTelemetry, IdleIs
<1>7. CASE GcWindowPasses
  <2>1. GcTypeOK' BY <1>1, <1>7 DEF GcTypeOK, GcWindowPasses
  <2> QED BY <1>1, <1>2, <1>3, <1>7, <2>1 DEF GcInv, GcWindowPasses, IdleIs
<1>8. CASE GcPublishes
  <2>1. gcMeter \in GcMeters /\ gcHouse \in GcLoads /\ gcActual \in GcPower BY <1>1 DEF GcTypeOK, GcMeters
  <2>2. GcLoads \subseteq Nat /\ GcPower \subseteq Int BY GcNumbers DEF GcPower
  <2>3. gcHouse + gcActual \in Int
    <3>1. gcHouse \in Int /\ gcActual \in Int BY <2>1, <2>2
    <3> QED BY <3>1
  <2> DEFINE v == gcHouse + gcActual
             q1 == [gcMeter EXCEPT !.value = v]
             q2 == [q1 EXCEPT !.load = gcHouse]
             q3 == [q2 EXCEPT !.fresh = TRUE]
  <2>4. gcMeter' = q3 BY <1>8, Zenon DEF GcPublishes
  <2>5. q1 = [gcMeter EXCEPT !.value = v] /\ q2 = [q1 EXCEPT !.load = gcHouse]
        /\ q3 = [q2 EXCEPT !.fresh = TRUE]
    OBVIOUS
  <2>6. v \in Int BY <2>3
  <2>7. gcActual = 0 => v = gcHouse
    <3>1. gcHouse \in Int BY <2>1, <2>2
    <3> QED BY <3>1
  <2> HIDE DEF v, q1, q2, q3
  <2>8. gcMeter' \in GcMeters /\ gcMeter'.value = v /\ gcMeter'.load = gcHouse
    BY <2>1, <2>4, <2>5, <2>6 DEF GcMeters
  <2>9. gcElapsed' = gcElapsed /\ gcActual' = gcActual /\ gcRead' = gcRead BY <1>8 DEF GcPublishes
  <2>10. IdleIs' BY <1>1, <1>2, <2>7, <2>8, <2>9 DEF IdleIs
  <2>11. GcTypeOK' BY <1>1, <1>8, <2>8 DEF GcTypeOK, GcPublishes, GcMeters
  <2> QED BY <1>3, <2>10, <2>11 DEF GcInv
<1>9. CASE GcChanges
  <2>1. gcHouse' \in GcLoads BY <1>1, <1>9 DEF GcTypeOK, GcChanges
  <2>2. gcBlocked' \in BOOLEAN /\ gcWants' \in BOOLEAN BY <1>1, <1>9, Zenon DEF GcTypeOK, GcChanges
  <2>3. gcUpsets' \in 0..GcMaxUpsets BY <1>1, <1>9, GcNumbers DEF GcTypeOK, GcChanges, GcUpset
  <2>4. GcTypeOK' BY <1>1, <1>9, <2>1, <2>2, <2>3 DEF GcTypeOK, GcChanges
  <2> QED BY <1>1, <1>2, <1>3, <1>9, <2>4 DEF GcInv, GcChanges, IdleIs
<1> QED BY <1>4, <1>5, <1>6, <1>7, <1>8, <1>9

LEMMA CycleKeeps ==
    ASSUME GcInv, GcCycle \/ GcWatchdog
    PROVE GcInv' /\ Handled
<1>1. gcMeter \in GcMeters /\ GcTypeOK BY DEF GcInv, GcTypeOK, GcMeters
<1>2. /\ Handling /\ \E within \in BOOLEAN : Handle(within)
      /\ gcHouse' = gcHouse /\ gcBlocked' = gcBlocked /\ gcWants' = gcWants
      /\ gcUpsets' \in 0..GcMaxUpsets
  <2>0. gcUpsets' = gcUpsets \/ (gcUpsets < GcMaxUpsets /\ gcUpsets' = gcUpsets + 1)
    BY Zenon DEF GcCycle, GcWatchdog, GcUpset
  <2>1. gcUpsets' \in 0..GcMaxUpsets BY <1>1, <2>0, GcNumbers DEF GcTypeOK
  <2>2. \E within \in BOOLEAN : Handle(within) BY Zenon DEF GcCycle, GcWatchdog
  <2> QED BY <2>1, <2>2 DEF Handling, GcCycle, GcWatchdog
<1>3. Handled BY <1>2, HandleKeeps
<1>4. gcMeter' \in GcMeters BY <1>1, <1>2 DEF GcMeters, Handling, GcSample
<1>5. GcTypeOK' BY <1>1, <1>2, <1>3, <1>4 DEF GcTypeOK, GcRuns, GcMeters, Handled, Handling
<1> QED BY <1>3, <1>5 DEF GcInv, Handled

(* The charge's own draw is never answered as demand, for every limit, load,    *)
(* power and number of blocks, slot edges and lost samples: the first           *)
(* protective discharge is what the house alone drew beyond the limit           *)
(* (__init__.py, _handle_predictive_demand_protection).                         *)
THEOREM ProtectionCorrect == GcSpec => ProtectionSound
<1>1. GcInit => GcInv
  <2> SUFFICES ASSUME GcInit PROVE GcInv OBVIOUS
  <2>1. gcRun.state = "charging" /\ ~gcRun.suspended BY DEF GcInit
  <2>2. gcRun.state \notin GcIdles BY <2>1 DEF GcIdles, GcSettling
  <2>3. gcMeter \in GcMeters
    <3>1. gcHouse \in GcLoads /\ gcHouse \in Int BY GcNumbers DEF GcInit
    <3> QED BY <3>1 DEF GcInit, GcMeters
  <2>4. gcRun \in GcRuns BY GcNumbers DEF GcInit, GcRuns
  <2>5. 0 \in GcPower /\ 0 \in 0..GcMaxUpsets BY GcNumbers DEF GcPower
  <2>6. {gcElapsed, gcBlocked, gcWants} \subseteq BOOLEAN BY DEF GcInit
  <2>7. GcTypeOK BY <2>3, <2>4, <2>5, <2>6 DEF GcInit, GcTypeOK, GcRuns, GcMeters
  <2> QED BY <2>1, <2>2, <2>7 DEF GcInv, SuspendedIs, IdleIs
<1>2. GcInv /\ [GcNext]_gcVars => GcInv'
  <2> SUFFICES ASSUME GcInv, [GcNext]_gcVars PROVE GcInv' OBVIOUS
  <2>1. CASE UNCHANGED gcVars
    BY <2>1 DEF gcVars, GcInv, GcTypeOK, SuspendedIs, IdleIs, BaseLoad
  <2> QED BY <2>1, CycleKeeps, RegulatesKeeps, OpensKeeps, ClosesKeeps, WorldKeeps DEF GcNext
<1>3. GcInv => GcTypeOK BY DEF GcInv
<1>4. GcInv /\ [GcNext]_gcVars
        => [gcRun.state \in GcSettling \cup {"holding_idle"} /\ gcRun'.state \in GcProtects
              => -gcCmd' <= gcMeter.load - GcCeiling]_gcVars
  <2> SUFFICES ASSUME GcInv, GcNext, gcRun.state \in GcIdles, gcRun'.state \in GcProtects
               PROVE -gcCmd' <= gcMeter.load - GcCeiling
    BY DEF GcIdles
  <2>1. CASE GcCycle \/ GcWatchdog BY <2>1, CycleKeeps DEF Handled
  <2>2. CASE ~(GcCycle \/ GcWatchdog)
    <3>1. gcRun.state \notin GcProtects BY DEF GcIdles, GcSettling, GcProtects
    <3>2. gcRun' # gcRun BY <3>1
    <3>3. GcOpens \/ GcCloses
      BY <2>2, <3>2 DEF GcNext, GcRegulates, GcActs, GcPolls, GcLosesTelemetry, GcWindowPasses, GcPublishes, GcChanges
    <3>4. GcInv' /\ ~gcRun'.suspended BY <3>3, OpensKeeps, ClosesKeeps
    <3> QED BY <3>4 DEF GcInv, SuspendedIs, GcProtects
  <2> QED BY <2>1, <2>2
<1> QED BY <1>1, <1>2, <1>3, <1>4, PTL DEF GcSpec, ProtectionSound, ProtectionFitsHouse

-----------------------------------------------------------------------------
(* The diary of the day *)
ddTasks == {"none", "queued", "writing"}
Marks == SUBSET DdActs
Books == [day: ddDays, closed: SUBSET ddCells, use: [ddCells -> Nat], log: [ddCells -> Marks],
          plan: [ddCells -> Marks], last: {0} \cup ddTimes]
Payloads == {<<>>} \cup (Books \X BOOLEAN)
Saves == [dirty: BOOLEAN, moved: BOOLEAN, handle: BOOLEAN, task: ddTasks, payload: Payloads,
          again: BOOLEAN, hooked: BOOLEAN, due: BOOLEAN, failed: BOOLEAN]

(* What a book has closed was over for good at some time not later than t *)
OverBy(b, t) == \A c \in b.closed : Ended(b.day, c, t)
(* The book in memory: closed up to its last reading, which was of its day *)
BookIs(b) ==
    /\ b \in Books /\ DdDayAt[1] <= b.day /\ b.day <= DdDayAt[ddNow]
    /\ b.last <= ddNow
    /\ b.last # 0 => DdDayAt[b.last] = b.day
    /\ OverBy(b, b.last)
(* A payload, written or being written *)
PayloadIs(d) ==
    d # <<>> => d[1].day <= DdDayAt[ddNow] /\ d[1].last = 0 /\ OverBy(d[1], ddNow)
(* A payload that says what the book says *)
Same(d, b) ==
    /\ d # <<>>
    /\ d[1].day = b.day /\ d[1].use = b.use /\ d[1].log = b.log /\ d[1].plan = b.plan

Living == ddPhase \in {"up", "flushing"}
DdTyped ==
    /\ ddNow \in ddTimes /\ ddTrue \in [ddCells -> Nat] /\ ddSave \in Saves /\ ddDisk \in Payloads
    /\ ddCall \in [{"cycle", "forced"} -> {0} \cup ddTimes] /\ ddConf \in BOOLEAN
    /\ ddPhase \in {"up", "flushing", "down", "starting"} /\ ddUpsets \in Nat
    /\ BookIs(ddBook) /\ PayloadIs(ddDisk) /\ PayloadIs(ddSave.payload)
    /\ \A w \in {"cycle", "forced"} : ddCall[w] <= ddNow
    /\ ddPhase = "starting" => ddCall["forced"] # 0
    /\ ddPhase = "down" => ddCall["forced"] = 0
    /\ ~Living => ddCall["cycle"] = 0
(* Nothing measured is missing from a closed cell, and nothing is in an open one *)
(* that was not measured; on disk is all but what is known to be lost            *)
UseIs ==
    /\ Living /\ ddBook.day = DdDayAt[ddNow] =>
         \A c \in ddCells \ ddLost :
            ddBook.use[c] <= ddTrue[c] /\ (c \in ddBook.closed => ddBook.use[c] = ddTrue[c])
    /\ ~Living /\ ddDisk # <<>> =>
         (ddDisk[1].day = DdDayAt[ddNow] =>
            \A c \in ddCells \ ddLost : ddDisk[1].use[c] = ddTrue[c])
(* A change is in the Store, in the write under way, or a write is to follow *)
SaveIs ==
    /\ Living =>
         /\ ~ddSave.dirty => Same(ddDisk, ddBook)
         /\ ddSave.task = "writing" => ddSave.payload # <<>>
         /\ ddSave.task = "writing" /\ ~ddSave.moved => Same(ddSave.payload, ddBook)
         /\ ddSave.task = "writing" /\ ddSave.moved => ddSave.again /\ ddSave.hooked
    /\ ~Living => ddSave = Quiet
    /\ WriteFollows
DdInv == DdTyped /\ UseIs /\ SaveIs
-----------------------------------------------------------------------------
(* Times, cells and days.                                                     *)
LEMMA DdNumbers ==
    /\ ddTimes \subseteq Nat \ {0} /\ 1 \in ddTimes
    /\ ddCells \subseteq Nat \ {0} /\ ddDays \subseteq Nat
    /\ \A t \in ddTimes : DdOrder[t] \in ddCells /\ DdDayAt[t] \in ddDays
    /\ \A s, t \in ddTimes : s <= t => DdDayAt[s] <= DdDayAt[t]
    /\ \A t \in ddTimes : t > 1 => t - 1 \in ddTimes
<1>1. Len(DdOrder) \in Nat \ {0} /\ ddTimes = 1..Len(DdOrder)
      /\ DdOrder \in [1..Len(DdOrder) -> Nat \ {0}]
  BY DdAssumption DEF ddTimes
<1>2. DdDayAt \in [ddTimes -> Nat] BY DdAssumption DEF ddTimes
<1>3. \A s, t \in ddTimes : s <= t => DdDayAt[s] <= DdDayAt[t]
  <2> SUFFICES ASSUME NEW s \in ddTimes, NEW t \in ddTimes, s <= t PROVE DdDayAt[s] <= DdDayAt[t] OBVIOUS
  <2>1. CASE s = t BY <1>2, <2>1
  <2>2. CASE s < t BY <2>2, DdAssumption DEF ddTimes
  <2> QED BY <1>1, <2>1, <2>2
<1> QED BY <1>1, <1>2, <1>3 DEF ddCells, ddDays

LEMMA ReadingsAre == \A x : x \in {0} \cup ddTimes => x \in Nat
<1> SUFFICES ASSUME NEW x, x \in {0} \cup ddTimes PROVE x \in Nat OBVIOUS
<1>1. CASE x = 0 BY <1>1
<1>2. CASE x \in ddTimes BY <1>2, DdNumbers
<1> QED BY <1>1, <1>2

LEMMA EndedIs ==
    \A d \in ddDays, c \in ddCells : \A t :
        Ended(d, c, t) <=> /\ \E s \in ddTimes : DdDayAt[s] = d /\ DdOrder[s] = c
                           /\ \A s \in ddTimes : DdDayAt[s] = d /\ DdOrder[s] = c => s < t
<1> TAKE d \in ddDays, c \in ddCells
<1> TAKE t
<1>1. ddOccurs[d][c] = {s \in ddTimes : DdDayAt[s] = d /\ DdOrder[s] = c} BY DEF ddOccurs
<1> QED BY <1>1 DEF Ended

LEMMA EndedLater ==
    \A d \in ddDays, c \in ddCells, s \in Nat, t \in Nat : Ended(d, c, s) /\ s <= t => Ended(d, c, t)
BY EndedIs, DdNumbers

(* What has ended lies below the present cell of the wall clock. *)
LEMMA EndedBelow ==
    \A t \in ddTimes, c \in ddCells : Ended(DdDayAt[t], c, t) => c < DdOrder[t]
<1> SUFFICES ASSUME NEW t \in ddTimes, NEW c \in ddCells, Ended(DdDayAt[t], c, t), ~(c < DdOrder[t])
             PROVE FALSE
  OBVIOUS
<1>0. DdDayAt[t] \in ddDays /\ DdOrder[t] \in Nat /\ c \in Nat BY DdNumbers
<1>1. PICK s \in ddTimes : DdDayAt[s] = DdDayAt[t] /\ DdOrder[s] = c BY <1>0, EndedIs
<1>2. \A r \in ddTimes : DdDayAt[r] = DdDayAt[t] /\ DdOrder[r] = c => r < t BY <1>0, EndedIs
<1>3. c # DdOrder[t] BY <1>2, DdNumbers
<1>4. DdOrder[t] < DdOrder[s] /\ s < t BY <1>0, <1>1, <1>2, <1>3
<1>5. \E r \in ddTimes : r > t /\ DdDayAt[r] = DdDayAt[t] /\ DdOrder[r] = DdOrder[s]
  BY <1>1, <1>4, DdAssumption DEF ddTimes
<1> QED BY <1>1, <1>2, <1>5, DdNumbers

-----------------------------------------------------------------------------
(* The arrays, one operation at a time.                                       *)
LEMMA NewDayIs == \A d \in ddDays :
    /\ NewDay(d) \in Books /\ NewDay(d).day = d /\ NewDay(d).closed = {} /\ NewDay(d).last = 0
    /\ \A c \in ddCells : NewDay(d).use[c] = 0
BY DEF NewDay, Books, Unused, Blank, Marks

LEMMA AdvanceIs == \A b \in Books, t \in ddTimes :
    /\ Advance(b, t) \in Books
    /\ Advance(b, t).day = b.day /\ Advance(b, t).use = b.use /\ Advance(b, t).log = b.log
    /\ Advance(b, t).plan = b.plan
    /\ t < b.last => Advance(b, t) = b
    /\ t >= b.last =>
         /\ Advance(b, t).last = t
         /\ Advance(b, t).closed = b.closed \cup {c \in ddCells : Ended(b.day, c, t)}
<1> TAKE b \in Books, t \in ddTimes
<1>1. b.last \in Nat /\ t \in Nat
  <2>1. b.last \in {0} \cup ddTimes BY DEF Books
  <2>2. t \in Nat BY DdNumbers
  <2> QED BY <2>1, <2>2, ReadingsAre
<1>2. CASE t < b.last BY <1>1, <1>2 DEF Advance
<1>3. CASE ~(t < b.last)
  <2> DEFINE k == b.closed \cup {c \in ddCells : Ended(b.day, c, t)}
             q1 == [b EXCEPT !.last = t]
             q2 == [q1 EXCEPT !.closed = k]
  <2>1. Advance(b, t) = [b EXCEPT !.last = t, !.closed = @ \cup {c \in ddCells : Ended(b.day, c, t)}]
    BY <1>3 DEF Advance
  <2>2. Advance(b, t) = q2 BY <2>1, <1>1 DEF Books
  <2>3. k \subseteq ddCells BY DEF Books
  <2>4. q1 = [b EXCEPT !.last = t] /\ q2 = [q1 EXCEPT !.closed = k] OBVIOUS
  <2> HIDE DEF k, q1, q2
  <2>5. q2 = [day |-> b.day, closed |-> k, use |-> b.use, log |-> b.log, plan |-> b.plan, last |-> t]
    BY <2>4 DEF Books
  <2> QED BY <1>1, <1>3, <2>2, <2>3, <2>5 DEF Books, k
<1> QED BY <1>2, <1>3

LEMMA MergedIs == \A b \in Books, t \in ddTimes, u \in [ddCells -> Nat] :
    /\ Merged(b, t, u) \in Books
    /\ Merged(b, t, u).day = b.day /\ Merged(b, t, u).closed = b.closed /\ Merged(b, t, u).log = b.log
    /\ Merged(b, t, u).plan = b.plan /\ Merged(b, t, u).last = b.last
    /\ \A c \in ddCells : Merged(b, t, u).use[c]
         = IF Captured(u) /\ c <= DdOrder[t] /\ c \notin b.closed THEN u[c] ELSE b.use[c]
<1> TAKE b \in Books, t \in ddTimes, u \in [ddCells -> Nat]
<1> DEFINE w == [c \in ddCells |->
                   IF Captured(u) /\ c <= DdOrder[t] /\ c \notin b.closed THEN u[c] ELSE b.use[c]]
<1>1. Merged(b, t, u) = [b EXCEPT !.use = w] BY DEF Merged
<1>2. w \in [ddCells -> Nat] BY DEF Books
<1>3. \A c \in ddCells : w[c] = IF Captured(u) /\ c <= DdOrder[t] /\ c \notin b.closed THEN u[c] ELSE b.use[c]
  OBVIOUS
<1> HIDE DEF w
<1>4. Merged(b, t, u) = [day |-> b.day, closed |-> b.closed, use |-> w, log |-> b.log, plan |-> b.plan, last |-> b.last]
  BY <1>1 DEF Books
<1> QED BY <1>2, <1>3, <1>4 DEF Books

LEMMA MirroredIs == \A b \in Books, c \in ddCells :
    /\ Mirrored(b, c) \in Books
    /\ Mirrored(b, c).day = b.day /\ Mirrored(b, c).closed = b.closed /\ Mirrored(b, c).use = b.use
    /\ Mirrored(b, c).log = b.log /\ Mirrored(b, c).last = b.last
    /\ \A k \in ddCells \ {c} : Mirrored(b, c).plan[k] = b.plan[k]
<1> TAKE b \in Books, c \in ddCells
<1> DEFINE w == [b.plan EXCEPT ![c] = b.log[c]]
<1>1. Mirrored(b, c) = [b EXCEPT !.plan = w] BY Zenon DEF Mirrored
<1>2. w \in [ddCells -> Marks] /\ \A k \in ddCells \ {c} : w[k] = b.plan[k] BY DEF Books
<1> HIDE DEF w
<1>3. Mirrored(b, c) = [day |-> b.day, closed |-> b.closed, use |-> b.use, log |-> b.log, plan |-> w, last |-> b.last]
  BY <1>1 DEF Books
<1> QED BY <1>2, <1>3 DEF Books

LEMMA NotedIs == \A b \in Books, c \in ddCells, a \in DdActs :
    LET g == [b EXCEPT !.log[c] = @ \cup {a}] IN
    /\ g \in Books
    /\ g.day = b.day /\ g.closed = b.closed /\ g.use = b.use /\ g.plan = b.plan /\ g.last = b.last
    /\ \A k \in ddCells \ {c} : g.log[k] = b.log[k]
<1> TAKE b \in Books, c \in ddCells, a \in DdActs
<1> DEFINE w == [b.log EXCEPT ![c] = b.log[c] \cup {a}]
           g == [b EXCEPT !.log[c] = @ \cup {a}]
<1>1. g = [b EXCEPT !.log = w] BY DEF Books
<1>2. w \in [ddCells -> Marks] /\ \A k \in ddCells \ {c} : w[k] = b.log[k] BY DEF Books, Marks
<1> HIDE DEF w
<1>3. g = [day |-> b.day, closed |-> b.closed, use |-> b.use, log |-> w, plan |-> b.plan, last |-> b.last]
  BY <1>1 DEF Books
<1> QED BY <1>2, <1>3 DEF Books

(* A projection, before the present cell is mirrored *)
Cleared(f, p, realtime) ==
    [f EXCEPT !.plan = [c \in ddCells |->
        IF c < Cur(f) \/ c \in f.closed THEN @[c] ELSE IF realtime THEN {} ELSE p]]
LEMMA ClearedIs == \A b \in Books, p \in Marks, r \in BOOLEAN :
    /\ Cleared(b, p, r) \in Books
    /\ Cleared(b, p, r).day = b.day /\ Cleared(b, p, r).closed = b.closed /\ Cleared(b, p, r).use = b.use
    /\ Cleared(b, p, r).log = b.log /\ Cleared(b, p, r).last = b.last
    /\ \A k \in b.closed : Cleared(b, p, r).plan[k] = b.plan[k]
<1> TAKE b \in Books, p \in Marks, r \in BOOLEAN
<1> DEFINE w == [c \in ddCells |->
                   IF c < Cur(b) \/ c \in b.closed THEN b.plan[c] ELSE IF r THEN {} ELSE p]
<1>1. Cleared(b, p, r) = [b EXCEPT !.plan = w] BY DEF Cleared
<1>2. w \in [ddCells -> Marks] BY DEF Books, Marks
<1>3. \A k \in b.closed : w[k] = b.plan[k] BY DEF Books
<1> HIDE DEF w
<1>4. Cleared(b, p, r) = [day |-> b.day, closed |-> b.closed, use |-> b.use, log |-> b.log, plan |-> w, last |-> b.last]
  BY <1>1 DEF Books
<1> QED BY <1>2, <1>3, <1>4 DEF Books

-----------------------------------------------------------------------------
(* A refresh, one part at a time.                                             *)
LEMMA TimesAre == \A b \in Books : b.last \in Nat /\ b.day \in ddDays /\ b.day \in Nat /\ b.closed \subseteq ddCells
<1> TAKE b \in Books
<1>1. b.last \in {0} \cup ddTimes /\ b.day \in ddDays /\ b.closed \subseteq ddCells BY DEF Books
<1>2. ddTimes \subseteq Nat /\ ddDays \subseteq Nat BY DdNumbers
<1>3. b.last \in Nat BY <1>1, ReadingsAre
<1>4. b.day \in Nat BY <1>1, <1>2
<1> QED BY <1>1, <1>3, <1>4

(* Nothing measured is missing from a closed cell *)
Whole(b, u) ==
    b.day = DdDayAt[ddNow] =>
        \A c \in ddCells \ ddLost : b.use[c] <= u[c] /\ (c \in b.closed => b.use[c] = u[c])

LEMMA AdvanceKeeps ==
    ASSUME NEW b, BookIs(b), NEW t \in ddTimes, t <= ddNow, b.day = DdDayAt[t], ddNow \in ddTimes
    PROVE LET m == Advance(b, t) IN
          /\ BookIs(m) /\ m.last # 0 /\ t <= m.last /\ Advance(m, t) = m
<1>1. b \in Books /\ t \in Nat /\ t # 0 /\ ddNow \in Nat BY DdNumbers DEF BookIs
<1>2. b.last \in Nat /\ b.day \in ddDays /\ b.closed \subseteq ddCells BY <1>1, TimesAre
<1>3. CASE t < b.last
  <2>1. Advance(b, t) = b BY <1>1, <1>3, AdvanceIs
  <2> QED BY <1>1, <1>2, <1>3, <2>1
<1>4. CASE ~(t < b.last)
  <2> DEFINE m == Advance(b, t)
  <2>1. /\ m \in Books /\ m.day = b.day /\ m.last = t
        /\ m.closed = b.closed \cup {c \in ddCells : Ended(b.day, c, t)}
    BY <1>1, <1>2, <1>4, AdvanceIs
  <2> HIDE DEF m
  <2>2. ASSUME NEW c \in m.closed PROVE Ended(m.day, c, m.last)
    <3>1. CASE c \in b.closed
      <4>1. Ended(b.day, c, b.last) BY <3>1 DEF BookIs, OverBy
      <4>2. b.last <= t BY <1>1, <1>2, <1>4
      <4> QED BY <1>1, <1>2, <2>1, <3>1, <4>1, <4>2, EndedLater
    <3>2. CASE c \notin b.closed BY <2>1, <2>2, <3>2
    <3> QED BY <3>1, <3>2
  <2>3. BookIs(m) BY <2>1, <2>2 DEF BookIs, OverBy
  <2>4. Advance(m, t) = m
    <3> DEFINE n == Advance(m, t)
    <3>1. n \in Books /\ n.day = m.day /\ n.use = m.use /\ n.log = m.log /\ n.plan = m.plan
          /\ n.last = t /\ n.closed = m.closed \cup {c \in ddCells : Ended(m.day, c, t)}
      BY <1>1, <2>1, AdvanceIs
    <3> HIDE DEF n
    <3>2. n.closed = m.closed BY <2>1, <3>1
    <3>3. \A x \in Books : x = [day |-> x.day, closed |-> x.closed, use |-> x.use, log |-> x.log,
                                plan |-> x.plan, last |-> x.last]
      BY DEF Books
    <3>4. n = m BY <2>1, <3>1, <3>2, <3>3
    <3> QED BY <3>4 DEF n
  <2> QED BY <1>1, <2>1, <2>3, <2>4 DEF m
<1> QED BY <1>3, <1>4

LEMMA MeasuredKeeps ==
    ASSUME NEW b, BookIs(b), NEW t \in ddTimes, t <= ddNow, NEW u \in [ddCells -> Nat], ddNow \in ddTimes
    PROVE LET m == Measured(b, t, u) IN
          /\ BookIs(m) /\ m.day = DdDayAt[t] /\ m.last # 0 /\ t <= m.last /\ Advance(m, t) = m
          /\ b.day = DdDayAt[t] =>
               /\ b.closed \subseteq m.closed /\ m.log = b.log /\ m.plan = b.plan
               /\ \A c \in b.closed : m.use[c] = b.use[c]
          /\ Whole(b, u) => Whole(m, u)
<1> DEFINE o == OnDay(b, t)
           g == Merged(o, t, u)
           m == Advance(g, t)
<1>1. b \in Books /\ t \in Nat /\ ddNow \in Nat /\ DdDayAt[t] \in ddDays /\ DdDayAt[t] <= DdDayAt[ddNow]
      /\ DdDayAt[1] <= DdDayAt[t] /\ DdOrder[t] \in Nat /\ ddCells \subseteq Nat
  <2>1. b \in Books BY DEF BookIs
  <2>2. t \in Nat /\ ddNow \in Nat /\ 1 <= t BY DdNumbers
  <2>3. DdDayAt[t] <= DdDayAt[ddNow] /\ DdDayAt[1] <= DdDayAt[t] BY <2>2, DdNumbers
  <2>4. DdDayAt[t] \in ddDays /\ DdOrder[t] \in Nat /\ ddCells \subseteq Nat BY DdNumbers
  <2> QED BY <2>1, <2>2, <2>3, <2>4
<1>2. /\ BookIs(o) /\ o.day = DdDayAt[t]
      /\ b.day = DdDayAt[t] => o = b
      /\ Whole(b, u) => Whole(o, u)
  <2>1. CASE b.day = DdDayAt[t] BY <2>1 DEF OnDay
  <2>2. CASE b.day # DdDayAt[t]
    <3>1. o = NewDay(DdDayAt[t]) BY <2>2 DEF OnDay
    <3>2. o \in Books /\ o.day = DdDayAt[t] /\ o.closed = {} /\ o.last = 0 /\ \A c \in ddCells : o.use[c] = 0
      BY <1>1, <3>1, NewDayIs
    <3> HIDE DEF o
    <3>3. BookIs(o) BY <1>1, <3>2 DEF BookIs, OverBy
    <3>4. Whole(o, u) BY <3>2 DEF Whole
    <3> QED BY <2>2, <3>2, <3>3, <3>4
  <2> QED BY <2>1, <2>2
<1> HIDE DEF o
<1>3. o \in Books BY <1>2 DEF BookIs
<1>4. /\ g \in Books /\ g.day = o.day /\ g.closed = o.closed /\ g.log = o.log /\ g.plan = o.plan /\ g.last = o.last
      /\ \A c \in ddCells : g.use[c]
           = IF Captured(u) /\ c <= DdOrder[t] /\ c \notin o.closed THEN u[c] ELSE o.use[c]
  BY <1>3, MergedIs
<1> HIDE DEF g
<1>5. BookIs(g) BY <1>2, <1>4 DEF BookIs, OverBy
<1>6. g.day = DdDayAt[t] BY <1>2, <1>4
<1>7. BookIs(m) /\ m.last # 0 /\ t <= m.last /\ Advance(m, t) = m
  BY <1>5, <1>6, AdvanceKeeps
<1>8. /\ m.day = g.day /\ m.use = g.use /\ m.log = g.log /\ m.plan = g.plan
      /\ m.closed = g.closed \/ m.closed = g.closed \cup {c \in ddCells : Ended(g.day, c, t)}
  <2>1. g.last \in Nat BY <1>4, TimesAre
  <2>2. t < g.last \/ t >= g.last BY <1>1, <2>1
  <2> QED BY <1>4, <2>2, AdvanceIs
<1> HIDE DEF m
<1>9. ASSUME b.day = DdDayAt[t]
      PROVE /\ b.closed \subseteq m.closed /\ m.log = b.log /\ m.plan = b.plan
            /\ \A c \in b.closed : m.use[c] = b.use[c]
  <2>1. o = b /\ b.closed \subseteq ddCells BY <1>1, <1>2, <1>9, TimesAre
  <2> QED BY <1>4, <1>8, <2>1
<1>10. ASSUME Whole(b, u) PROVE Whole(m, u)
  <2> SUFFICES ASSUME m.day = DdDayAt[ddNow], NEW c \in ddCells \ ddLost
               PROVE m.use[c] <= u[c] /\ (c \in m.closed => m.use[c] = u[c])
    BY DEF Whole
  <2>1. o.use[c] <= u[c] /\ (c \in o.closed => o.use[c] = u[c])
    <3>1. Whole(o, u) BY <1>2, <1>10
    <3>2. o.day = DdDayAt[ddNow] BY <1>4, <1>8
    <3> QED BY <3>1, <3>2 DEF Whole
  <2>2. u[c] \in Nat /\ o.use[c] \in Nat /\ c \in Nat BY <1>1, <1>3 DEF Books
  <2>3. m.use[c] = IF Captured(u) /\ c <= DdOrder[t] /\ c \notin o.closed THEN u[c] ELSE o.use[c]
    BY <1>4, <1>8
  <2>4. m.use[c] <= u[c] BY <2>1, <2>2, <2>3
  <2>5. ASSUME c \in m.closed PROVE m.use[c] = u[c]
    <3>1. CASE c \in o.closed BY <2>1, <2>3, <3>1
    <3>2. CASE c \notin o.closed
      <4>1. Ended(DdDayAt[t], c, t) BY <1>4, <1>6, <1>8, <2>5, <3>2
      <4>2. c < DdOrder[t] BY <4>1, EndedBelow
      <4>3. c <= DdOrder[t] BY <1>1, <2>2, <4>2
      <4>4. CASE Captured(u) BY <2>3, <3>2, <4>3, <4>4
      <4>5. CASE ~Captured(u)
        <5>1. ~(u[c] > 0) BY <4>5 DEF Captured
        <5>2. m.use[c] = o.use[c] BY <2>3, <4>5
        <5> QED BY <2>1, <2>2, <5>1, <5>2
      <4> QED BY <4>4, <4>5
    <3> QED BY <3>1, <3>2
  <2> QED BY <2>4, <2>5
<1>11. Measured(b, t, u) = m BY DEF Measured, m, g, o
<1> QED BY <1>2, <1>4, <1>7, <1>8, <1>9, <1>10, <1>11

-----------------------------------------------------------------------------
LEMMA BookSame ==
    ASSUME NEW m, BookIs(m), NEW n \in Books, n.day = m.day, n.closed = m.closed, n.last = m.last
    PROVE BookIs(n)
BY DEF BookIs, OverBy

LEMMA AdvanceSame ==
    ASSUME NEW m \in Books, NEW n \in Books, n.day = m.day, n.closed = m.closed, n.last = m.last,
           NEW t \in ddTimes, t <= m.last, Advance(m, t) = m
    PROVE Advance(n, t) = n
<1>1. t \in Nat /\ m.last \in Nat BY DdNumbers, TimesAre
<1>2. CASE t < m.last BY <1>1, <1>2, AdvanceIs
<1>3. CASE t = m.last
  <2>1. m.closed = m.closed \cup {c \in ddCells : Ended(m.day, c, t)} BY <1>1, <1>3, AdvanceIs
  <2> DEFINE k == Advance(n, t)
  <2>2. k \in Books /\ k.day = n.day /\ k.use = n.use /\ k.log = n.log /\ k.plan = n.plan
        /\ k.last = t /\ k.closed = n.closed \cup {c \in ddCells : Ended(n.day, c, t)}
    BY <1>1, <1>3, AdvanceIs
  <2> HIDE DEF k
  <2>3. k.closed = n.closed /\ k.last = n.last BY <1>3, <2>1, <2>2
  <2>4. \A x \in Books : x = [day |-> x.day, closed |-> x.closed, use |-> x.use, log |-> x.log,
                              plan |-> x.plan, last |-> x.last]
    BY DEF Books
  <2>5. k = n BY <2>2, <2>3, <2>4
  <2> QED BY <2>5 DEF k
<1> QED BY <1>1, <1>2, <1>3

(* The present cell is never history. *)
LEMMA CurIsOpen ==
    ASSUME NEW m, BookIs(m), m.last # 0
    PROVE Cur(m) \in ddCells /\ Cur(m) \notin m.closed
<1>1. m \in Books /\ m.last \in ddTimes /\ DdDayAt[m.last] = m.day
  <2>1. m \in Books BY DEF BookIs
  <2>2. m.last \in {0} \cup ddTimes BY <2>1 DEF Books
  <2> QED BY <2>1, <2>2 DEF BookIs
<1>2. Cur(m) = DdOrder[m.last] BY DEF Cur
<1>3. Cur(m) \in ddCells /\ Cur(m) \in Nat BY <1>1, <1>2, DdNumbers
<1>4. ASSUME Cur(m) \in m.closed PROVE FALSE
  <2>1. Ended(m.day, Cur(m), m.last) BY <1>4 DEF BookIs, OverBy
  <2>2. Cur(m) < DdOrder[m.last] BY <1>1, <1>3, <2>1, EndedBelow
  <2> QED BY <1>2, <1>3, <2>2
<1> QED BY <1>3, <1>4

(* A later part of a refresh leaves history alone. *)
After(m, n) ==
    /\ BookIs(n) /\ n.day = m.day /\ n.closed = m.closed /\ n.use = m.use /\ n.last = m.last
    /\ \A k \in m.closed : n.log[k] = m.log[k] /\ n.plan[k] = m.plan[k]

NotedAt(f, t, a, realtime) ==
    LET g == [f EXCEPT !.log[DdOrder[t]] = @ \cup {a}]
    IN  IF ~TakesNote(f, t) THEN f ELSE IF realtime THEN Mirrored(g, DdOrder[t]) ELSE g
LEMMA NoticedKeeps ==
    ASSUME NEW m, BookIs(m), NEW t \in ddTimes, m.last # 0, t <= m.last, Advance(m, t) = m,
           NEW a \in DdActs, NEW r \in BOOLEAN
    PROVE LET n == Noticed(m, t, a, r) IN
          /\ After(m, n) /\ Advance(n, t) = n
          /\ ~TakesNote(m, t) => n = m
<1> DEFINE n == Noticed(m, t, a, r)
           c == DdOrder[t]
           g == [m EXCEPT !.log[c] = @ \cup {a}]
<1>1. Noticed(m, t, a, r) = NotedAt(Advance(m, t), t, a, r) BY DEF Noticed, NotedAt
<1>2. n = NotedAt(m, t, a, r) BY <1>1
<1>3. m \in Books /\ c \in ddCells BY DdNumbers DEF BookIs
<1>4. m.closed \subseteq ddCells BY <1>3, TimesAre
<1>5. CASE ~TakesNote(m, t)
  <2>1. n = m BY <1>2, <1>5 DEF NotedAt
  <2> QED BY <2>1 DEF After
<1>6. CASE TakesNote(m, t)
  <2>1. c \notin m.closed BY <1>6 DEF TakesNote
  <2>2. g \in Books /\ g.day = m.day /\ g.closed = m.closed /\ g.use = m.use /\ g.plan = m.plan
        /\ g.last = m.last /\ \A k \in ddCells \ {c} : g.log[k] = m.log[k]
    BY <1>3, NotedIs
  <2>3. n = g \/ n = Mirrored(g, c) BY <1>2, <1>6 DEF NotedAt
  <2> HIDE DEF n, g, c
  <2>4. n \in Books /\ n.day = m.day /\ n.closed = m.closed /\ n.use = m.use /\ n.last = m.last
        /\ \A k \in ddCells \ {c} : n.log[k] = m.log[k] /\ n.plan[k] = m.plan[k]
    BY <1>3, <2>2, <2>3, MirroredIs
  <2>5. BookIs(n) BY <2>4, BookSame
  <2>6. After(m, n) BY <1>4, <2>1, <2>4, <2>5 DEF After
  <2>7. Advance(n, t) = n BY <1>3, <2>4, AdvanceSame
  <2> QED BY <1>6, <2>6, <2>7 DEF n
<1> QED BY <1>5, <1>6

Projected(f, p, realtime) ==
    IF realtime THEN Mirrored(Cleared(f, p, realtime), Cur(f)) ELSE Cleared(f, p, realtime)
LEMMA ReplannedKeeps ==
    ASSUME NEW m, BookIs(m), NEW t \in ddTimes, m.last # 0, t <= m.last, Advance(m, t) = m,
           NEW p \in Marks, NEW r \in BOOLEAN
    PROVE After(m, Replanned(m, t, p, r))
<1> DEFINE n == Replanned(m, t, p, r)
           g == Cleared(m, p, r)
<1>1. Replanned(m, t, p, r) = Projected(Advance(m, t), p, r) BY DEF Replanned, Projected, Cleared
<1>2. n = Projected(m, p, r) BY <1>1
<1>3. m \in Books BY DEF BookIs
<1>4. m.closed \subseteq ddCells BY <1>3, TimesAre
<1>5. Cur(m) \in ddCells /\ Cur(m) \notin m.closed BY CurIsOpen
<1>6. g \in Books /\ g.day = m.day /\ g.closed = m.closed /\ g.use = m.use /\ g.log = m.log
      /\ g.last = m.last /\ \A k \in m.closed : g.plan[k] = m.plan[k]
  BY <1>3, ClearedIs
<1>7. n = g \/ n = Mirrored(g, Cur(m)) BY <1>2 DEF Projected
<1> HIDE DEF n, g
<1>8. n \in Books /\ n.day = m.day /\ n.closed = m.closed /\ n.use = m.use /\ n.log = m.log /\ n.last = m.last
      /\ \A k \in m.closed : n.plan[k] = m.plan[k]
  BY <1>4, <1>5, <1>6, <1>7, MirroredIs
<1>9. BookIs(n) BY <1>8, BookSame
<1> QED BY <1>8, <1>9 DEF After, n

-----------------------------------------------------------------------------
(* What one or more calls of request_save leave. *)
Asked(v, w) ==
    /\ w \in Saves /\ w.dirty /\ w.moved /\ ~w.failed
    /\ w.payload = v.payload /\ (w.due <=> v.due)
    /\ w.task = v.task \/ (v.task = "none" /\ w.task = "queued")
    /\ w.task # "none" \/ w.handle
    /\ v.task # "none" => w.again /\ w.hooked

LEMMA StillSaves == \A v \in Saves :
    /\ [v EXCEPT !.again = TRUE] \in Saves /\ [v EXCEPT !.hooked = TRUE] \in Saves
    /\ [v EXCEPT !.task = "queued"] \in Saves /\ [v EXCEPT !.handle = TRUE] \in Saves
<1> TAKE v \in Saves
<1>1. [v EXCEPT !.again = TRUE] \in Saves BY DEF Saves
<1>2. [v EXCEPT !.hooked = TRUE] \in Saves BY DEF Saves
<1>3. [v EXCEPT !.task = "queued"] \in Saves BY DEF Saves, ddTasks
<1>4. [v EXCEPT !.handle = TRUE] \in Saves BY DEF Saves
<1> QED BY <1>1, <1>2, <1>3, <1>4

LEMMA RequestAsks == ASSUME NEW v \in Saves, NEW i \in BOOLEAN PROVE Asked(v, RequestSave(v, i))
<1> DEFINE h == IF i THEN FALSE ELSE v.handle
           q1 == [v EXCEPT !.dirty = TRUE]
           q2 == [q1 EXCEPT !.moved = TRUE]
           q3 == [q2 EXCEPT !.failed = FALSE]
           q4 == [q3 EXCEPT !.handle = h]
           q5 == [q4 EXCEPT !.again = TRUE]
           q6 == [q5 EXCEPT !.hooked = TRUE]
           q7 == [q4 EXCEPT !.task = "queued"]
           q8 == [q4 EXCEPT !.handle = TRUE]
<1>1. RequestSave(v, i) = IF q4.task # "none" THEN q6 ELSE IF i THEN q7 ELSE q8
  BY DEF RequestSave, Saves
<1>2. q1 = [v EXCEPT !.dirty = TRUE] /\ q2 = [q1 EXCEPT !.moved = TRUE]
      /\ q3 = [q2 EXCEPT !.failed = FALSE] /\ q4 = [q3 EXCEPT !.handle = h]
      /\ q5 = [q4 EXCEPT !.again = TRUE] /\ q6 = [q5 EXCEPT !.hooked = TRUE]
      /\ q7 = [q4 EXCEPT !.task = "queued"] /\ q8 = [q4 EXCEPT !.handle = TRUE]
  OBVIOUS
<1>3. h \in BOOLEAN BY DEF Saves
<1> HIDE DEF h, q1, q2, q3, q4, q5, q6, q7, q8
<1>4. /\ q4 \in Saves /\ q4.dirty /\ q4.moved /\ ~q4.failed /\ q4.payload = v.payload /\ (q4.due <=> v.due)
      /\ q4.task = v.task
  BY <1>2, <1>3 DEF Saves
<1>5. Asked(v, q6) \/ q4.task = "none"
  <2>1. q6 \in Saves BY <1>2, <1>4, StillSaves
  <2>2. q6.payload = v.payload /\ q6.task = v.task BY <1>2, <1>4 DEF Saves
  <2>3. q6.dirty /\ q6.moved BY <1>2, <1>4 DEF Saves
  <2>4. ~q6.failed /\ (q6.due <=> v.due) BY <1>2, <1>4 DEF Saves
  <2>5. q6.again /\ q6.hooked BY <1>2, <1>4 DEF Saves
  <2> QED BY <1>4, <2>1, <2>2, <2>3, <2>4, <2>5 DEF Asked
<1>6. q4.task = "none" => Asked(v, q7)
  <2>1. q7 \in Saves BY <1>2, <1>4, StillSaves
  <2>2. q7.payload = v.payload /\ q7.task = "queued" BY <1>2, <1>4 DEF Saves
  <2>3. q7.dirty /\ q7.moved BY <1>2, <1>4 DEF Saves
  <2>4. ~q7.failed /\ (q7.due <=> v.due) BY <1>2, <1>4 DEF Saves
  <2> QED BY <1>4, <2>1, <2>2, <2>3, <2>4 DEF Asked
<1>7. q4.task = "none" => Asked(v, q8)
  <2>1. q8 \in Saves BY <1>2, <1>4, StillSaves
  <2>2. q8.payload = v.payload /\ q8.task = v.task BY <1>2, <1>4 DEF Saves
  <2>3. q8.dirty /\ q8.moved BY <1>2, <1>4 DEF Saves
  <2>4. ~q8.failed /\ (q8.due <=> v.due) BY <1>2, <1>4 DEF Saves
  <2>5. q8.handle BY <1>2, <1>4 DEF Saves
  <2> QED BY <1>4, <2>1, <2>2, <2>3, <2>4, <2>5 DEF Asked
<1> QED BY <1>1, <1>5, <1>6, <1>7

LEMMA AskedAgain ==
    ASSUME NEW v \in Saves, NEW w, w = v \/ Asked(v, w), NEW i \in BOOLEAN
    PROVE Asked(v, RequestSave(w, i))
<1>1. w \in Saves BY DEF Asked
<1>2. Asked(w, RequestSave(w, i)) BY <1>1, RequestAsks
<1>3. CASE w = v BY <1>2, <1>3
<1>4. CASE Asked(v, w)
  <2> DEFINE x == RequestSave(w, i)
  <2>1. Asked(w, x) BY <1>2
  <2> HIDE DEF x
  <2>2. Asked(v, x) BY <1>4, <2>1 DEF Asked
  <2> QED BY <2>2 DEF x
<1> QED BY <1>3, <1>4

(* A refresh as a whole: it keeps the book and its history, and leaves it as it *)
(* was or asks for a save.                                                      *)
LEMMA RefreshKeeps ==
    ASSUME NEW b, BookIs(b), NEW v \in Saves, NEW t \in ddTimes, t <= ddNow, NEW u \in [ddCells -> Nat],
           ddNow \in ddTimes, ddConf \in BOOLEAN, NEW p \in Marks, NEW due \in BOOLEAN,
           Refresh(b, v, t, u, p, due)
    PROVE /\ BookIs(ddBook') /\ ddBook'.last # 0
          /\ b.day = ddBook'.day =>
               /\ b.closed \subseteq ddBook'.closed
               /\ \A c \in b.closed : /\ ddBook'.use[c] = b.use[c] /\ ddBook'.log[c] = b.log[c]
                                      /\ ddBook'.plan[c] = b.plan[c]
          /\ Whole(b, u) => Whole(ddBook', u)
          /\ (ddBook' = b /\ ddSave' = v) \/ Asked(v, ddSave')
<1> DEFINE m == Measured(b, t, u)
<1>1. PICK a \in DdActs : \E n \in {Noticed(m, t, a, ddConf)} :
         \E r \in {IF due THEN Replanned(n, t, p, ddConf) ELSE n} :
            LET v1 == IF m = b THEN v ELSE RequestSave(v, m.day # b.day \/ m.closed # b.closed)
                v2 == IF TakesNote(m, t) THEN RequestSave(v1, FALSE) ELSE v1
            IN  /\ ddBook' = r
                /\ ddSave' = IF r = n THEN v2 ELSE RequestSave(v2, TRUE)
  BY ZenonT(40) DEF Refresh
<1> DEFINE n == Noticed(m, t, a, ddConf)
           r == IF due THEN Replanned(n, t, p, ddConf) ELSE n
           i1 == m.day # b.day \/ m.closed # b.closed
           v1 == IF m = b THEN v ELSE RequestSave(v, i1)
           v2 == IF TakesNote(m, t) THEN RequestSave(v1, FALSE) ELSE v1
<1>2. ddBook' = r /\ ddSave' = IF r = n THEN v2 ELSE RequestSave(v2, TRUE)
  BY <1>1, Zenon
<1>3. /\ BookIs(m) /\ m.day = DdDayAt[t] /\ m.last # 0 /\ t <= m.last /\ Advance(m, t) = m
      /\ b.day = DdDayAt[t] =>
           /\ b.closed \subseteq m.closed /\ m.log = b.log /\ m.plan = b.plan
           /\ \A c \in b.closed : m.use[c] = b.use[c]
      /\ Whole(b, u) => Whole(m, u)
  BY MeasuredKeeps
<1> HIDE DEF m
<1>4. After(m, n) /\ Advance(n, t) = n /\ (~TakesNote(m, t) => n = m)
  BY <1>3, NoticedKeeps
<1> HIDE DEF n
<1>5. After(n, r)
  <2>1. BookIs(n) /\ n.last # 0 /\ t <= n.last BY <1>3, <1>4 DEF After
  <2>2. After(n, Replanned(n, t, p, ddConf)) BY <1>4, <2>1, ReplannedKeeps
  <2>3. After(n, n) BY <2>1 DEF After
  <2> QED BY <2>2, <2>3
<1> HIDE DEF r
<1>6. v1 = v \/ Asked(v, v1)
  <2>1. i1 \in BOOLEAN OBVIOUS
  <2> HIDE DEF i1
  <2>2. Asked(v, RequestSave(v, i1)) BY <2>1, RequestAsks
  <2> QED BY <2>2
<1>7. m # b => Asked(v, v1)
  <2>1. i1 \in BOOLEAN OBVIOUS
  <2> HIDE DEF i1
  <2>2. Asked(v, RequestSave(v, i1)) BY <2>1, RequestAsks
  <2> QED BY <2>2
<1>8. m = b => v1 = v OBVIOUS
<1> HIDE DEF v1
<1>9. v2 = v1 \/ Asked(v, v2) BY <1>6, AskedAgain
<1>10. TakesNote(m, t) => Asked(v, v2) BY <1>6, AskedAgain
<1>11. ~TakesNote(m, t) => v2 = v1 OBVIOUS
<1> HIDE DEF v2
<1>12. v2 = v \/ Asked(v, v2) BY <1>6, <1>9
<1>13. Asked(v, RequestSave(v2, TRUE)) BY <1>12, AskedAgain
<1>14. (ddBook' = b /\ ddSave' = v) \/ Asked(v, ddSave')
  BY <1>2, <1>4, <1>7, <1>8, <1>9, <1>10, <1>11, <1>13
<1>15. BookIs(ddBook') /\ ddBook'.last # 0 /\ ddBook'.day = m.day /\ ddBook'.use = m.use
       /\ ddBook'.closed = m.closed
       /\ \A k \in m.closed : ddBook'.log[k] = m.log[k] /\ ddBook'.plan[k] = m.plan[k]
  BY <1>2, <1>3, <1>4, <1>5 DEF After
<1>16. Whole(b, u) => Whole(ddBook', u) BY <1>3, <1>15 DEF Whole
<1>17. b.day = ddBook'.day =>
         /\ b.closed \subseteq ddBook'.closed
         /\ \A c \in b.closed : /\ ddBook'.use[c] = b.use[c] /\ ddBook'.log[c] = b.log[c]
                                /\ ddBook'.plan[c] = b.plan[c]
  BY <1>3, <1>15
<1> QED BY <1>14, <1>15, <1>16, <1>17

-----------------------------------------------------------------------------
(* The steps of the saving: what each leaves in the save state.               *)
LEMMA StoredIs ==
    ASSUME BookIs(ddBook), ddConf \in BOOLEAN, ddNow \in ddTimes
    PROVE Stored \in Payloads /\ PayloadIs(Stored) /\ Same(Stored, ddBook)
<1> DEFINE k == [ddBook EXCEPT !.last = 0]
<1>1. ddBook \in Books BY DEF BookIs
<1>2. k \in Books /\ k.day = ddBook.day /\ k.closed = ddBook.closed /\ k.use = ddBook.use
      /\ k.log = ddBook.log /\ k.plan = ddBook.plan /\ k.last = 0
  BY <1>1 DEF Books
<1>3. Stored = <<k, ddConf>> BY DEF Stored
<1> HIDE DEF k
<1>4. Stored[1] = k /\ Stored # <<>> BY <1>3
<1>5. Stored \in Payloads BY <1>2, <1>3 DEF Payloads
<1>6. ASSUME NEW c \in k.closed PROVE Ended(k.day, c, ddNow)
  <2>1. Ended(ddBook.day, c, ddBook.last) BY <1>2, <1>6 DEF BookIs, OverBy
  <2>2. ddBook.last \in Nat /\ ddBook.day \in ddDays /\ c \in ddCells /\ ddNow \in Nat
    BY <1>1, <1>2, <1>6, TimesAre, DdNumbers
  <2>3. ddBook.last <= ddNow BY DEF BookIs
  <2> QED BY <1>2, <2>1, <2>2, <2>3, EndedLater
<1>7. PayloadIs(Stored) BY <1>2, <1>4, <1>6 DEF PayloadIs, OverBy, BookIs
<1>8. Same(Stored, ddBook) BY <1>2, <1>4 DEF Same
<1> QED BY <1>5, <1>7, <1>8

LEMMA QuietIs == Quiet \in Saves /\ Quiet.task = "none" /\ Quiet.payload = <<>> /\ ~Quiet.dirty
                 /\ ~Quiet.due /\ ~Quiet.moved
<1>1. Quiet \in Saves BY DEF Quiet, Saves, ddTasks, Payloads
<1>2. Quiet.task = "none" /\ Quiet.payload = <<>> BY DEF Quiet
<1>3. ~Quiet.dirty /\ ~Quiet.due /\ ~Quiet.moved BY DEF Quiet
<1> QED BY <1>1, <1>2, <1>3

(* [v EXCEPT ...] of each step, by name *)
Started(v, d) == [v EXCEPT !.task = "writing", !.payload = d, !.moved = FALSE]
LEMMA StartedIs == ASSUME NEW v \in Saves, NEW d \in Payloads
    PROVE LET w == Started(v, d) IN
          /\ w \in Saves /\ w.task = "writing" /\ w.payload = d /\ ~w.moved
          /\ (w.dirty <=> v.dirty) /\ (w.due <=> v.due) /\ (w.failed <=> v.failed)
<1> DEFINE q1 == [v EXCEPT !.task = "writing"]
           q2 == [q1 EXCEPT !.payload = d]
           q3 == [q2 EXCEPT !.moved = FALSE]
<1>1. Started(v, d) = q3 BY Zenon DEF Started
<1>2. q1 \in Saves /\ q1.task = "writing" /\ (q1.dirty <=> v.dirty) /\ (q1.due <=> v.due)
      /\ (q1.failed <=> v.failed)
  BY DEF Saves, ddTasks
<1> HIDE DEF q1
<1>3. q2 \in Saves /\ q2.task = "writing" /\ q2.payload = d /\ (q2.dirty <=> v.dirty) /\ (q2.due <=> v.due)
      /\ (q2.failed <=> v.failed)
  BY <1>2 DEF Saves
<1> HIDE DEF q2
<1>4. q3 \in Saves /\ q3.task = "writing" /\ q3.payload = d /\ ~q3.moved
      /\ (q3.dirty <=> v.dirty) /\ (q3.due <=> v.due) /\ (q3.failed <=> v.failed)
  BY <1>3 DEF Saves
<1> QED BY <1>1, <1>4

LEMMA FinishedIs == ASSUME NEW v \in Saves
    PROVE LET w == Finished(v) IN
          /\ w \in Saves /\ w.task = "none" /\ w.payload = <<>>
          /\ (w.dirty <=> v.dirty) /\ (w.due <=> v.hooked) /\ (w.again <=> v.again)
          /\ (w.handle <=> v.handle) /\ (w.failed <=> v.failed)
<1> DEFINE h == v.hooked
           q1 == [v EXCEPT !.task = "none"]
           q2 == [q1 EXCEPT !.payload = <<>>]
           q3 == [q2 EXCEPT !.due = h]
           q4 == [q3 EXCEPT !.hooked = FALSE]
           q5 == [q4 EXCEPT !.moved = FALSE]
<1>1. Finished(v) = q5 BY Zenon DEF Finished
<1>2. h \in BOOLEAN /\ (h <=> v.hooked) BY DEF Saves
<1> HIDE DEF h
<1>3. q1 \in Saves /\ q1.task = "none" /\ (q1.dirty <=> v.dirty) /\ (q1.again <=> v.again)
      /\ (q1.handle <=> v.handle) /\ (q1.failed <=> v.failed)
  BY DEF Saves, ddTasks
<1> HIDE DEF q1
<1>4. q2 \in Saves /\ q2.task = "none" /\ q2.payload = <<>> /\ (q2.dirty <=> v.dirty) /\ (q2.again <=> v.again)
      /\ (q2.handle <=> v.handle) /\ (q2.failed <=> v.failed)
  <2>1. <<>> \in Payloads BY DEF Payloads
  <2> QED BY <1>3, <2>1 DEF Saves
<1> HIDE DEF q2
<1>5. q3 \in Saves /\ q3.task = "none" /\ q3.payload = <<>> /\ (q3.due <=> h) /\ (q3.dirty <=> v.dirty)
      /\ (q3.again <=> v.again) /\ (q3.handle <=> v.handle) /\ (q3.failed <=> v.failed)
  BY <1>2, <1>4 DEF Saves
<1> HIDE DEF q3
<1>6. q4 \in Saves /\ q4.task = "none" /\ q4.payload = <<>> /\ (q4.due <=> h) /\ (q4.dirty <=> v.dirty)
      /\ (q4.again <=> v.again) /\ (q4.handle <=> v.handle) /\ (q4.failed <=> v.failed)
  BY <1>5 DEF Saves
<1> HIDE DEF q4
<1>7. q5 \in Saves /\ q5.task = "none" /\ q5.payload = <<>> /\ (q5.due <=> h) /\ (q5.dirty <=> v.dirty)
      /\ (q5.again <=> v.again) /\ (q5.handle <=> v.handle) /\ (q5.failed <=> v.failed)
  BY <1>6 DEF Saves
<1> QED BY <1>1, <1>2, <1>7

LEMMA WrittenIs == ASSUME NEW v \in Saves
    PROVE LET w == Written(v) IN
          /\ w \in Saves /\ w.task = "none" /\ w.payload = <<>>
          /\ (w.dirty <=> v.moved) /\ (w.due <=> v.hooked) /\ (w.again <=> v.again \/ v.moved)
<1> DEFINE f == Finished(v)
           h == v.moved
           k == f.again \/ v.moved
           q1 == [f EXCEPT !.dirty = h]
           q2 == [q1 EXCEPT !.again = q1.again \/ v.moved]
<1>1. Written(v) = q2 BY DEF Written
<1>2. f \in Saves /\ f.task = "none" /\ f.payload = <<>> /\ (f.due <=> v.hooked) /\ (f.again <=> v.again)
  BY FinishedIs
<1>3. h \in BOOLEAN /\ (h <=> v.moved) BY DEF Saves
<1> HIDE DEF f, h
<1>4. q1 \in Saves /\ q1.task = "none" /\ q1.payload = <<>> /\ (q1.due <=> v.hooked) /\ (q1.again <=> v.again)
      /\ (q1.dirty <=> h)
  BY <1>2, <1>3 DEF Saves
<1> HIDE DEF q1
<1>5. q2 \in Saves /\ q2.task = "none" /\ q2.payload = <<>> /\ (q2.due <=> v.hooked)
      /\ (q2.again <=> v.again \/ v.moved) /\ (q2.dirty <=> h)
  BY <1>4 DEF Saves
<1> QED BY <1>1, <1>3, <1>5

-----------------------------------------------------------------------------
(* The steps of the saving keep the invariant.                                *)
Saving == SaveStarts \/ SaveEnds \/ SaveFails \/ FollowUp \/ DebounceEnds \/ FlushBegins \/ FlushSteps

(* What a step of the saving must show of the state it leaves *)
Kept(w) ==
    /\ w \in Saves /\ PayloadIs(w.payload)
    /\ ~w.dirty => Same(ddDisk', ddBook)
    /\ w.task = "writing" => w.payload # <<>>
    /\ w.task = "writing" /\ ~w.moved => Same(w.payload, ddBook)
    /\ w.task = "writing" /\ w.moved => w.again /\ w.hooked
    /\ w.dirty /\ ~w.failed /\ ddPhase' = "up"
         => w.handle \/ w.task # "none" \/ (w.due /\ w.again)

LEMMA SavingKept ==
    ASSUME DdInv, Living, Living', Kept(ddSave'), UNCHANGED <<ddNow, ddTrue, ddBook, ddCall, ddConf, ddLost>>,
           ddDisk' \in Payloads, PayloadIs(ddDisk'), ddUpsets' \in Nat
    PROVE DdInv'
<1>1. DdTyped /\ UseIs /\ SaveIs BY DEF DdInv
<1>2. ddPhase' \in {"up", "flushing"} BY DEF Living
<1>3. BookIs(ddBook)' BY <1>1 DEF DdTyped, BookIs, OverBy
<1>4. PayloadIs(ddDisk)' /\ PayloadIs(ddSave.payload)' BY DEF Kept, PayloadIs, OverBy
<1>5. DdTyped'
  BY <1>1, <1>2, <1>3, <1>4 DEF DdTyped, Living, Kept
<1>6. UseIs' BY <1>1 DEF UseIs
<1>7. SaveIs' BY <1>2 DEF SaveIs, Kept, WriteFollows, Same
<1> QED BY <1>5, <1>6, <1>7 DEF DdInv

LEMMA SavingLives == ASSUME DdInv, Saving PROVE Living /\ Living'
<1>1. ~Living => ddSave = Quiet BY DEF DdInv, SaveIs
<1>2. ddSave.task # "none" \/ ddSave.due \/ ddSave.handle \/ Living
  BY DEF Saving, SaveStarts, SaveEnds, SaveFails, FollowUp, DebounceEnds, FlushBegins, FlushSteps, Living
<1>3. ~Quiet.handle BY DEF Quiet
<1>4. Living BY <1>1, <1>2, <1>3, QuietIs
<1>5. ddPhase' = ddPhase \/ ddPhase' = "flushing"
  BY DEF Saving, SaveStarts, SaveEnds, SaveFails, FollowUp, DebounceEnds, FlushBegins, FlushSteps
<1> QED BY <1>4, <1>5 DEF Living

LEMMA SavingKeeps == ASSUME DdInv, Saving PROVE DdInv'
<1> DEFINE v == ddSave
<1>1. /\ v \in Saves /\ PayloadIs(v.payload) /\ PayloadIs(ddDisk) /\ ddDisk \in Payloads /\ ddUpsets \in Nat
      /\ BookIs(ddBook) /\ ddConf \in BOOLEAN /\ ddNow \in ddTimes
  BY DEF DdInv, DdTyped
<1>2. Living /\ Living' BY SavingLives
<1>3. /\ ~v.dirty => Same(ddDisk, ddBook)
      /\ v.task = "writing" => v.payload # <<>>
      /\ v.task = "writing" /\ ~v.moved => Same(v.payload, ddBook)
      /\ v.task = "writing" /\ v.moved => v.again /\ v.hooked
      /\ v.dirty /\ ~v.failed /\ ddPhase = "up" => v.handle \/ v.task # "none" \/ (v.due /\ v.again)
  BY <1>2 DEF DdInv, SaveIs, WriteFollows
<1>4. v.task \in {"none", "queued", "writing"} /\ v.payload \in Payloads BY <1>1 DEF Saves, ddTasks
<1> HIDE DEF v
<1>5. CASE SaveStarts
  <2> DEFINE w == Started(v, Stored)
  <2>1. ddSave' = w /\ UNCHANGED <<ddNow, ddTrue, ddBook, ddCall, ddDisk, ddPhase, ddConf, ddLost, ddUpsets>>
    BY <1>5, Zenon DEF SaveStarts, Started, v
  <2>2. Stored \in Payloads /\ PayloadIs(Stored) /\ Same(Stored, ddBook) BY <1>1, StoredIs
  <2>3. w \in Saves /\ w.task = "writing" /\ w.payload = Stored /\ ~w.moved
        /\ (w.dirty <=> v.dirty)
    BY <1>1, <2>2, StartedIs
  <2> HIDE DEF w
  <2>4. Stored # <<>> BY <2>2 DEF Same
  <2>5. Kept(w) BY <1>3, <2>1, <2>2, <2>3, <2>4 DEF Kept
  <2> QED BY <1>1, <1>2, <2>1, <2>5, SavingKept
<1>6. CASE SaveEnds
  <2> DEFINE w == Written(v)
  <2>1. ddSave' = w /\ ddDisk' = v.payload /\ v.task = "writing"
        /\ UNCHANGED <<ddNow, ddTrue, ddBook, ddCall, ddPhase, ddConf, ddLost, ddUpsets>>
    BY <1>6 DEF SaveEnds, v
  <2>2. w \in Saves /\ w.task = "none" /\ w.payload = <<>>
        /\ (w.dirty <=> v.moved) /\ (w.due <=> v.hooked) /\ (w.again <=> v.again \/ v.moved)
    BY <1>1, WrittenIs
  <2> HIDE DEF w
  <2>3. Kept(w) BY <1>3, <2>1, <2>2 DEF Kept, PayloadIs
  <2> QED BY <1>1, <1>2, <1>4, <2>1, <2>3, SavingKept
<1>7. CASE SaveFails
  <2> DEFINE f == Finished(v)
             h == ~v.moved
             w == [f EXCEPT !.failed = h]
  <2>1. ddSave' = w /\ v.task = "writing" /\ ddUpsets' \in Nat
        /\ UNCHANGED <<ddNow, ddTrue, ddBook, ddCall, ddDisk, ddPhase, ddConf, ddLost>>
    BY <1>1, <1>7 DEF SaveFails, Upset, v
  <2>2. f \in Saves /\ f.task = "none" /\ f.payload = <<>>
        /\ (f.dirty <=> v.dirty) /\ (f.due <=> v.hooked) /\ (f.again <=> v.again)
    BY <1>1, FinishedIs
  <2>3. h \in BOOLEAN /\ (h <=> ~v.moved) OBVIOUS
  <2> HIDE DEF f, h
  <2>4. w \in Saves /\ w.task = "none" /\ w.payload = <<>> /\ (w.dirty <=> v.dirty) /\ (w.due <=> v.hooked)
        /\ (w.again <=> v.again) /\ (w.failed <=> h)
    BY <2>2, <2>3 DEF Saves
  <2> HIDE DEF w
  <2>5. Kept(w) BY <1>3, <2>1, <2>3, <2>4 DEF Kept, PayloadIs
  <2> QED BY <1>1, <1>2, <2>1, <2>5, SavingKept
<1>8. CASE FollowUp
  <2> DEFINE q == [v EXCEPT !.due = FALSE]
             q1 == [q EXCEPT !.again = FALSE]
             q2 == [q1 EXCEPT !.task = "queued"]
  <2>1. /\ ddSave' = (IF q.again /\ q.dirty /\ q.task = "none" THEN q2 ELSE q)
        /\ UNCHANGED <<ddNow, ddTrue, ddBook, ddCall, ddDisk, ddPhase, ddConf, ddLost, ddUpsets>>
    BY <1>8, Zenon DEF FollowUp, v
  <2>2. q \in Saves /\ q.task = v.task /\ q.payload = v.payload /\ ~q.due /\ (q.dirty <=> v.dirty)
        /\ (q.again <=> v.again) /\ (q.hooked <=> v.hooked) /\ (q.moved <=> v.moved) /\ (q.handle <=> v.handle)
        /\ (q.failed <=> v.failed)
    BY <1>1 DEF Saves
  <2> HIDE DEF q
  <2>3. q1 \in Saves /\ q1.payload = v.payload /\ (q1.dirty <=> v.dirty) BY <2>2 DEF Saves
  <2> HIDE DEF q1
  <2>4. q2 \in Saves /\ q2.payload = v.payload /\ (q2.dirty <=> v.dirty) /\ q2.task = "queued"
    BY <2>3 DEF Saves, ddTasks
  <2> HIDE DEF q2
  <2>5. Kept(q2) BY <1>1, <1>3, <2>1, <2>4 DEF Kept
  <2>6. ~(q.again /\ q.dirty /\ q.task = "none") => Kept(q)
    BY <1>1, <1>3, <2>1, <2>2 DEF Kept
  <2>7. Kept(ddSave') BY <2>1, <2>5, <2>6
  <2> QED BY <1>1, <1>2, <2>1, <2>7, SavingKept
<1>9. CASE DebounceEnds
  <2> DEFINE q == [v EXCEPT !.handle = FALSE]
             w == [q EXCEPT !.task = IF q.task = "none" THEN "queued" ELSE q.task]
  <2>1. /\ ddSave' = w
        /\ UNCHANGED <<ddNow, ddTrue, ddBook, ddCall, ddDisk, ddPhase, ddConf, ddLost, ddUpsets>>
    BY <1>9, Zenon DEF DebounceEnds, v
  <2>2. q \in Saves /\ q.task = v.task /\ q.payload = v.payload /\ (q.due <=> v.due) /\ (q.dirty <=> v.dirty)
        /\ (q.again <=> v.again) /\ (q.hooked <=> v.hooked) /\ (q.moved <=> v.moved)
    BY <1>1 DEF Saves
  <2> HIDE DEF q
  <2>3. w \in Saves /\ w.task = (IF v.task = "none" THEN "queued" ELSE v.task) /\ w.payload = v.payload
        /\ (w.dirty <=> v.dirty) /\ (w.again <=> v.again) /\ (w.hooked <=> v.hooked) /\ (w.moved <=> v.moved)
    BY <2>2 DEF Saves, ddTasks
  <2> HIDE DEF w
  <2>4. Kept(w) BY <1>1, <1>3, <1>4, <2>1, <2>3 DEF Kept
  <2> QED BY <1>1, <1>2, <2>1, <2>4, SavingKept
<1>10. CASE FlushBegins
  <2> DEFINE q == [v EXCEPT !.handle = FALSE]
  <2>1. /\ ddSave' = q /\ ddPhase' = "flushing" /\ ddUpsets' \in Nat
        /\ UNCHANGED <<ddNow, ddTrue, ddBook, ddCall, ddDisk, ddConf, ddLost>>
    BY <1>1, <1>10 DEF FlushBegins, Upset, v
  <2>2. q \in Saves /\ q.task = v.task /\ q.payload = v.payload /\ (q.dirty <=> v.dirty)
        /\ (q.again <=> v.again) /\ (q.hooked <=> v.hooked) /\ (q.moved <=> v.moved)
    BY <1>1 DEF Saves
  <2> HIDE DEF q
  <2>3. Kept(q) BY <1>1, <1>3, <2>1, <2>2 DEF Kept
  <2> QED BY <1>1, <1>2, <2>1, <2>3, SavingKept
<1>11. CASE FlushSteps
  <2> DEFINE q == [v EXCEPT !.task = "queued"]
  <2>1. /\ ddSave' = q /\ v.task = "none"
        /\ UNCHANGED <<ddNow, ddTrue, ddBook, ddCall, ddDisk, ddPhase, ddConf, ddLost, ddUpsets>>
    BY <1>11 DEF FlushSteps, v
  <2>2. q \in Saves /\ q.task = "queued" /\ q.payload = v.payload /\ (q.dirty <=> v.dirty)
    BY <1>1 DEF Saves, ddTasks
  <2> HIDE DEF q
  <2>3. Kept(q) BY <1>1, <1>3, <2>1, <2>2 DEF Kept
  <2> QED BY <1>1, <1>2, <2>1, <2>3, SavingKept
<1> QED BY <1>5, <1>6, <1>7, <1>8, <1>9, <1>10, <1>11 DEF Saving

-----------------------------------------------------------------------------
(* Time, the refreshes, and the life of the process.                          *)
LEMMA SampledKeeps ==
    ASSUME ddNow \in ddTimes, ddTrue \in [ddCells -> Nat]
    PROVE /\ Sampled \in [ddCells -> Nat]
          /\ BookIs(ddBook) /\ Whole(ddBook, ddTrue) => Whole(ddBook, Sampled)
<1> DEFINE k == DdOrder[ddNow]
<1>1. k \in ddCells /\ ddNow \in Nat /\ DdDayAt[ddNow] \in ddDays BY DdNumbers
<1>2. DdMaxUse \in Nat BY DdAssumption
<1>3. /\ Sampled \in [ddCells -> Nat]
      /\ \A c \in ddCells \ {k} : Sampled[c] = ddTrue[c]
      /\ Sampled[k] >= ddTrue[k]
  BY <1>1, <1>2 DEF Sampled
<1>4. ASSUME BookIs(ddBook), Whole(ddBook, ddTrue) PROVE Whole(ddBook, Sampled)
  <2> SUFFICES ASSUME ddBook.day = DdDayAt[ddNow], NEW c \in ddCells \ ddLost
               PROVE ddBook.use[c] <= Sampled[c] /\ (c \in ddBook.closed => ddBook.use[c] = Sampled[c])
    BY DEF Whole
  <2>1. ddBook.use[c] <= ddTrue[c] /\ (c \in ddBook.closed => ddBook.use[c] = ddTrue[c])
    BY <1>4 DEF Whole
  <2>2. CASE c # k BY <1>3, <2>1, <2>2
  <2>3. CASE c = k
    <3>1. c \notin ddBook.closed
      <4> SUFFICES ASSUME c \in ddBook.closed PROVE FALSE OBVIOUS
      <4>1. Ended(DdDayAt[ddNow], c, ddBook.last) BY <1>4 DEF BookIs, OverBy
      <4>2. ddNow < ddBook.last BY <1>1, <2>3, <4>1, EndedIs
      <4>3. ddBook.last <= ddNow /\ ddBook \in Books BY <1>4 DEF BookIs
      <4>4. ddBook.last \in Nat BY <4>3, TimesAre
      <4> QED BY <1>1, <4>2, <4>3, <4>4
    <3>2. ddBook.use[c] \in Nat /\ ddTrue[c] \in Nat /\ Sampled[c] \in Nat
      <4>1. ddBook \in Books BY <1>4 DEF BookIs
      <4> QED BY <1>3, <4>1 DEF Books
    <3> QED BY <1>3, <2>1, <2>3, <3>1, <3>2
  <2> QED BY <2>2, <2>3
<1> QED BY <1>3, <1>4

LEMMA TimeKeeps == ASSUME DdInv, TimePasses PROVE DdInv'
<1>1. DdTyped /\ UseIs /\ SaveIs BY DEF DdInv
<1>2. /\ ddNow' = ddNow + 1 /\ ddNow' \in ddTimes /\ ddNow \in ddTimes /\ ddNow \in Nat /\ ddNow' \in Nat
      /\ UNCHANGED <<ddBook, ddCall, ddSave, ddDisk, ddPhase, ddConf, ddUpsets>>
  BY <1>1, DdNumbers DEF TimePasses, DdTyped
<1>3. ddNow <= ddNow' BY <1>2
<1>4. DdDayAt[ddNow] <= DdDayAt[ddNow'] /\ DdDayAt[ddNow] \in Nat /\ DdDayAt[ddNow'] \in Nat
  <2>1. DdDayAt[ddNow] \in ddDays /\ DdDayAt[ddNow'] \in ddDays BY <1>2, DdNumbers
  <2> QED BY <1>2, <1>3, <2>1, DdNumbers
<1>5. ddBook \in Books BY <1>1 DEF DdTyped, BookIs
<1>6. ddBook.last \in Nat /\ ddBook.day \in Nat BY <1>5, TimesAre
<1>7. BookIs(ddBook)'
  <2>1. ddBook.day <= DdDayAt[ddNow'] /\ ddBook.last <= ddNow'
    BY <1>1, <1>2, <1>3, <1>4, <1>6 DEF DdTyped, BookIs
  <2> QED BY <1>1, <1>2, <2>1 DEF DdTyped, BookIs, OverBy
<1>8. ASSUME NEW d \in Payloads, PayloadIs(d), d # <<>>
      PROVE /\ d[1].day \in Nat /\ d[1].day <= DdDayAt[ddNow] /\ d[1].day <= DdDayAt[ddNow'] /\ d[1].last = 0
            /\ OverBy(d[1], ddNow')
  <2>1. d[1] \in Books BY <1>8 DEF Payloads
  <2>2. d[1].day \in ddDays /\ d[1].day \in Nat /\ d[1].closed \subseteq ddCells BY <2>1, TimesAre
  <2>3. d[1].day <= DdDayAt[ddNow] /\ d[1].last = 0 /\ OverBy(d[1], ddNow) BY <1>8 DEF PayloadIs
  <2>4. OverBy(d[1], ddNow') BY <1>2, <1>3, <2>2, <2>3, EndedLater DEF OverBy
  <2> QED BY <1>4, <2>2, <2>3, <2>4
<1>9. PayloadIs(ddDisk)' /\ PayloadIs(ddSave.payload)'
  <2>1. ddDisk \in Payloads /\ PayloadIs(ddDisk) BY <1>1 DEF DdTyped
  <2>2. ddSave.payload \in Payloads /\ PayloadIs(ddSave.payload) BY <1>1 DEF DdTyped, Saves
  <2>3. PayloadIs(ddDisk)' BY <1>2, <1>8, <2>1 DEF PayloadIs, OverBy
  <2>4. PayloadIs(ddSave.payload)' BY <1>2, <1>8, <2>2 DEF PayloadIs, OverBy
  <2> QED BY <2>3, <2>4
<1>10. ddTrue' \in [ddCells -> Nat]
  BY <1>1 DEF TimePasses, DdTyped, Unused
<1>11. \A w \in {"cycle", "forced"} : ddCall'[w] <= ddNow'
  <2> SUFFICES ASSUME NEW w \in {"cycle", "forced"} PROVE ddCall'[w] <= ddNow' OBVIOUS
  <2>1. ddCall[w] \in {0} \cup ddTimes /\ ddCall[w] <= ddNow BY <1>1 DEF DdTyped
  <2>2. ddCall[w] \in Nat BY <2>1, ReadingsAre
  <2> QED BY <1>2, <1>3, <2>1, <2>2
<1>12. DdTyped'
  BY <1>1, <1>2, <1>7, <1>9, <1>10, <1>11 DEF DdTyped, Living
<1>13. UseIs'
  <2>1. CASE DdDayAt[ddNow'] = DdDayAt[ddNow]
    <3>1. ddTrue' = ddTrue /\ ddLost' = ddLost BY <2>1 DEF TimePasses
    <3> QED BY <1>1, <1>2, <2>1, <3>1 DEF UseIs, Living
  <2>2. CASE DdDayAt[ddNow'] # DdDayAt[ddNow]
    <3>1. ddBook.day # DdDayAt[ddNow']
      <4>1. ddBook.day <= DdDayAt[ddNow] BY <1>1 DEF DdTyped, BookIs
      <4> QED BY <1>4, <1>6, <2>2, <4>1
    <3>2. ddDisk # <<>> => ddDisk[1].day # DdDayAt[ddNow']
      <4>1. ddDisk \in Payloads /\ PayloadIs(ddDisk) BY <1>1 DEF DdTyped
      <4> QED BY <1>4, <1>8, <2>2, <4>1
    <3> QED BY <1>2, <3>1, <3>2 DEF UseIs
  <2> QED BY <2>1, <2>2
<1>14. SaveIs' BY <1>1, <1>2 DEF SaveIs, WriteFollows, Same, Living, Quiet
<1> QED BY <1>12, <1>13, <1>14 DEF DdInv

LEMMA ReadKeeps == ASSUME DdInv, CycleReads \/ OptionsSaved PROVE DdInv'
<1>1. DdTyped /\ UseIs /\ SaveIs BY DEF DdInv
<1>2. /\ UNCHANGED <<ddNow, ddBook, ddSave, ddDisk, ddPhase, ddLost>> /\ ddPhase = "up"
      /\ ddTrue' \in {ddTrue, Sampled}
  BY DEF CycleReads, OptionsSaved, Reads
<1>3. PICK who \in {"cycle", "forced"} : ddCall' = [ddCall EXCEPT ![who] = ddNow]
  BY DEF CycleReads, OptionsSaved, Reads
<1>4. ddConf' \in BOOLEAN BY <1>1 DEF CycleReads, OptionsSaved, DdTyped
<1>5. ddUpsets' \in Nat BY <1>1 DEF CycleReads, OptionsSaved, DdTyped, Upset
<1>6. ddNow \in ddTimes /\ ddTrue \in [ddCells -> Nat] /\ BookIs(ddBook) /\ ddNow \in Nat
  BY <1>1, DdNumbers DEF DdTyped
<1>7. Sampled \in [ddCells -> Nat] /\ (Whole(ddBook, ddTrue) => Whole(ddBook, Sampled)) BY <1>6, SampledKeeps
<1>8. ddTrue' \in [ddCells -> Nat] BY <1>2, <1>6, <1>7
<1>9. /\ ddCall' \in [{"cycle", "forced"} -> {0} \cup ddTimes]
      /\ \A w \in {"cycle", "forced"} : ddCall'[w] <= ddNow
  BY <1>1, <1>3, <1>6 DEF DdTyped
<1>10. BookIs(ddBook)' /\ PayloadIs(ddDisk)' /\ PayloadIs(ddSave.payload)'
  BY <1>1, <1>2 DEF DdTyped, BookIs, PayloadIs, OverBy
<1>11. DdTyped' BY <1>1, <1>2, <1>4, <1>5, <1>8, <1>9, <1>10 DEF DdTyped, Living
<1>12. UseIs'
  <2>1. Whole(ddBook, ddTrue) BY <1>1, <1>2 DEF UseIs, Whole, Living
  <2>2. Whole(ddBook, ddTrue') BY <1>2, <1>7, <2>1
  <2> QED BY <1>2, <2>2 DEF UseIs, Whole, Living
<1>13. SaveIs' BY <1>1, <1>2 DEF SaveIs, WriteFollows, Same, Living, Quiet
<1> QED BY <1>11, <1>12, <1>13 DEF DdInv

(* A refresh of a living process *)
LEMMA RefreshedKeeps ==
    ASSUME DdInv, Living, NEW who \in {"cycle", "forced"}, ddCall[who] # 0,
           ddCall' = [ddCall EXCEPT ![who] = 0],
           ddTrue' \in {ddTrue, Sampled}, NEW p \in Marks, NEW due \in BOOLEAN,
           Refresh(ddBook, ddSave, ddCall[who], ddTrue', p, due),
           UNCHANGED <<ddNow, ddDisk, ddPhase, ddConf, ddLost, ddUpsets>>
    PROVE /\ DdInv'
          /\ ddBook'.day = ddBook.day =>
               /\ ddBook.closed \subseteq ddBook'.closed
               /\ \A c \in ddBook.closed : /\ ddBook'.use[c] = ddBook.use[c] /\ ddBook'.log[c] = ddBook.log[c]
                                           /\ ddBook'.plan[c] = ddBook.plan[c]
<1>1. DdTyped /\ UseIs /\ SaveIs BY DEF DdInv
<1>2. ddNow \in ddTimes /\ ddTrue \in [ddCells -> Nat] /\ BookIs(ddBook) /\ ddSave \in Saves /\ ddConf \in BOOLEAN
  BY <1>1 DEF DdTyped
<1>3. ddCall[who] \in ddTimes /\ ddCall[who] <= ddNow BY <1>1 DEF DdTyped
<1>4. Sampled \in [ddCells -> Nat] /\ (Whole(ddBook, ddTrue) => Whole(ddBook, Sampled)) BY <1>2, SampledKeeps
<1>5. Whole(ddBook, ddTrue') /\ ddTrue' \in [ddCells -> Nat]
  <2>1. Whole(ddBook, ddTrue) BY <1>1 DEF UseIs, Whole
  <2> QED BY <1>2, <1>4, <2>1
<1> DEFINE t == ddCall[who]
<1>6. /\ BookIs(ddBook') /\ ddBook'.last # 0
      /\ ddBook.day = ddBook'.day =>
           /\ ddBook.closed \subseteq ddBook'.closed
           /\ \A c \in ddBook.closed : /\ ddBook'.use[c] = ddBook.use[c] /\ ddBook'.log[c] = ddBook.log[c]
                                       /\ ddBook'.plan[c] = ddBook.plan[c]
      /\ Whole(ddBook, ddTrue') => Whole(ddBook', ddTrue')
      /\ (ddBook' = ddBook /\ ddSave' = ddSave) \/ Asked(ddSave, ddSave')
  BY <1>2, <1>3, <1>5, RefreshKeeps
<1>7. Whole(ddBook', ddTrue') BY <1>5, <1>6
<1>8. /\ ddCall' \in [{"cycle", "forced"} -> {0} \cup ddTimes]
      /\ \A w \in {"cycle", "forced"} : ddCall'[w] <= ddNow
  <2>1. ddNow \in Nat /\ 0 <= ddNow BY <1>2, DdNumbers
  <2> QED BY <1>1, <2>1 DEF DdTyped
<1>9. BookIs(ddBook)' BY <1>6 DEF BookIs, OverBy
<1>10. /\ ddSave' \in Saves /\ ddSave'.payload = ddSave.payload
  BY <1>2, <1>6 DEF Asked
<1>11. PayloadIs(ddDisk)' /\ PayloadIs(ddSave.payload)'
  BY <1>1, <1>10 DEF DdTyped, PayloadIs, OverBy
<1>12. DdTyped' BY <1>1, <1>5, <1>8, <1>9, <1>10, <1>11 DEF DdTyped, Living
<1>13. UseIs' BY <1>7 DEF UseIs, Whole, Living
<1>14. SaveIs'
  <2>1. CASE ddBook' = ddBook /\ ddSave' = ddSave
    BY <1>1, <2>1 DEF SaveIs, WriteFollows, Same, Living
  <2>2. CASE Asked(ddSave, ddSave')
    <3>1. ddSave.task = "writing" => ddSave.payload # <<>> BY <1>1 DEF SaveIs
    <3> QED BY <2>2, <3>1 DEF SaveIs, WriteFollows, Asked, Living
  <2> QED BY <1>6, <2>1, <2>2
<1> QED BY <1>6, <1>12, <1>13, <1>14 DEF DdInv

LEMMA RefreshesKeep ==
    ASSUME DdInv, CycleRefreshes \/ ListenerRefreshes
    PROVE /\ DdInv'
          /\ ddBook'.day = ddBook.day =>
               /\ ddBook.closed \subseteq ddBook'.closed
               /\ \A c \in ddBook.closed : /\ ddBook'.use[c] = ddBook.use[c] /\ ddBook'.log[c] = ddBook.log[c]
                                           /\ ddBook'.plan[c] = ddBook.plan[c]
<1>1. \A p \in DdPlans : p \in Marks BY DdAssumption DEF Marks
<1>2. {} \in Marks BY DEF Marks
<1>3. DdTyped BY DEF DdInv
<1>4. CASE CycleRefreshes
  <2>1. Living BY <1>3, <1>4 DEF CycleRefreshes, DdTyped
  <2>2. \E p \in Marks, due \in BOOLEAN : Refresh(ddBook, ddSave, ddCall["cycle"], ddTrue', p, due)
    <3>1. CASE Refresh(ddBook, ddSave, ddCall["cycle"], ddTrue', {}, FALSE) BY <1>2, <3>1, Zenon
    <3>2. CASE \E p \in DdPlans : Refresh(ddBook, ddSave, ddCall["cycle"], ddTrue', p, TRUE)
      BY <1>1, <3>2, Zenon
    <3> QED BY <1>4, <3>1, <3>2, Zenon DEF CycleRefreshes
  <2>3. /\ ddCall["cycle"] # 0 /\ ddCall' = [ddCall EXCEPT !["cycle"] = 0] /\ ddTrue' = Sampled
        /\ UNCHANGED <<ddNow, ddDisk, ddPhase, ddConf, ddLost, ddUpsets>>
    BY <1>4 DEF CycleRefreshes
  <2> QED BY <2>1, <2>2, <2>3, RefreshedKeeps
<1>5. CASE ListenerRefreshes
  <2>1. Living BY <1>3, <1>5 DEF ListenerRefreshes, DdTyped, Living
  <2>2. \E p \in Marks, due \in BOOLEAN : Refresh(ddBook, ddSave, ddCall["forced"], ddTrue, p, due)
    BY <1>1, <1>5, Zenon DEF ListenerRefreshes
  <2>3. /\ ddCall["forced"] # 0 /\ ddCall' = [ddCall EXCEPT !["forced"] = 0] /\ ddTrue' = ddTrue
        /\ UNCHANGED <<ddNow, ddDisk, ddPhase, ddConf, ddLost, ddUpsets>>
    BY <1>5 DEF ListenerRefreshes
  <2> QED BY <2>1, <2>2, <2>3, RefreshedKeeps
<1> QED BY <1>4, <1>5

LEMMA GoneKeeps == ASSUME DdInv, FlushEnds \/ Killed PROVE DdInv'
<1>1. DdTyped BY DEF DdInv
<1>2. Gone /\ ddUpsets' \in Nat BY <1>1 DEF FlushEnds, Killed, Upset, DdTyped
<1>3. /\ ddPhase' = "down" /\ ddBook' = NewDay(DdDayAt[ddNow]) /\ ddSave' = Quiet
      /\ ddCall' = [w \in DOMAIN ddCall |-> 0] /\ UNCHANGED <<ddNow, ddTrue, ddDisk, ddConf>>
  BY <1>2 DEF Gone
<1>4. ddNow \in ddTimes /\ ddNow \in Nat /\ DdDayAt[ddNow] \in ddDays /\ DdDayAt[ddNow] \in Nat
      /\ DdDayAt[1] <= DdDayAt[ddNow]
  <2>1. ddNow \in ddTimes /\ 1 \in ddTimes BY <1>1, DdNumbers DEF DdTyped
  <2>2. ddNow \in Nat /\ 1 <= ddNow BY <2>1, DdNumbers
  <2>3. DdDayAt[ddNow] \in ddDays /\ DdDayAt[ddNow] \in Nat BY <2>1, DdNumbers
  <2> QED BY <2>1, <2>2, <2>3, DdNumbers
<1>5. BookIs(ddBook)' BY <1>3, <1>4, NewDayIs DEF BookIs, OverBy
<1>6. ddSave' \in Saves /\ ddSave'.payload = <<>> BY <1>3, QuietIs
<1>7. ddCall' \in [{"cycle", "forced"} -> {0} \cup ddTimes] /\ \A w \in {"cycle", "forced"} : ddCall'[w] = 0
  BY <1>1, <1>3 DEF DdTyped
<1>8. PayloadIs(ddDisk)' /\ PayloadIs(ddSave.payload)' BY <1>1, <1>3, <1>6 DEF DdTyped, PayloadIs, OverBy
<1>9. DdTyped' BY <1>1, <1>2, <1>3, <1>4, <1>5, <1>6, <1>7, <1>8 DEF DdTyped, Living
<1>10. UseIs'
  <2>1. ddLost' = {c \in ddCells : \/ ddDisk = <<>> \/ ddDisk[1].day # DdDayAt[ddNow]
                                  \/ ddDisk[1].use[c] # ddTrue[c]}
    BY <1>2 DEF Gone
  <2> QED BY <1>3, <2>1 DEF UseIs, Living
<1>11. SaveIs' BY <1>3, QuietIs DEF SaveIs, WriteFollows, Living
<1> QED BY <1>9, <1>10, <1>11 DEF DdInv

LEMMA StartKeeps == ASSUME DdInv, Starts PROVE DdInv'
<1>1. DdTyped /\ UseIs /\ SaveIs BY DEF DdInv
<1>2. /\ ddPhase = "down" /\ ddPhase' = "starting" /\ ddCall' = [ddCall EXCEPT !["forced"] = ddNow]
      /\ UNCHANGED <<ddNow, ddTrue, ddBook, ddSave, ddDisk, ddConf, ddLost, ddUpsets>>
  BY DEF Starts
<1>3. ddNow \in ddTimes /\ ddNow \in Nat /\ ddNow # 0 BY <1>1, DdNumbers DEF DdTyped
<1>4. /\ ddCall' \in [{"cycle", "forced"} -> {0} \cup ddTimes]
      /\ ddCall'["forced"] = ddNow /\ ddCall'["cycle"] = ddCall["cycle"]
  BY <1>1, <1>2, <1>3 DEF DdTyped
<1>5. \A w \in {"cycle", "forced"} : ddCall'[w] <= ddNow BY <1>1, <1>3, <1>4 DEF DdTyped
<1>6. BookIs(ddBook)' /\ PayloadIs(ddDisk)' /\ PayloadIs(ddSave.payload)'
  BY <1>1, <1>2 DEF DdTyped, BookIs, PayloadIs, OverBy
<1>7. DdTyped' BY <1>1, <1>2, <1>3, <1>4, <1>5, <1>6 DEF DdTyped, Living
<1>8. UseIs' BY <1>1, <1>2 DEF UseIs, Living
<1>9. SaveIs' BY <1>1, <1>2 DEF SaveIs, WriteFollows, Living, Quiet
<1> QED BY <1>7, <1>8, <1>9 DEF DdInv

(* What async_load makes of the Store, and what the set-up's refresh makes of that *)
Reloaded(b, plan) == [b EXCEPT !.last = 0, !.plan = plan]
LEMMA LoadKeeps == ASSUME DdInv, Loads PROVE DdInv'
<1>1. DdTyped /\ UseIs /\ SaveIs BY DEF DdInv
<1> DEFINE today == DdDayAt[ddNow]
           d == ddDisk[1]
           cleared == ddDisk # <<>> /\ d.day = today /\ ddDisk[2] # ddConf
           v == IF cleared THEN RequestSave(Quiet, FALSE) ELSE Quiet
           t == ddCall["forced"]
<1>2. /\ ddPhase = "starting" /\ ddPhase' = "up" /\ ddCall' = [ddCall EXCEPT !["forced"] = 0]
      /\ UNCHANGED <<ddNow, ddTrue, ddDisk, ddConf, ddLost, ddUpsets>>
  BY DEF Loads
<1>3. PICK p \in DdPlans : Refresh(Restored, v, t, ddTrue, p, TRUE) BY Zenon DEF Loads
<1>4. p \in Marks BY DdAssumption DEF Marks
<1>5. ddNow \in ddTimes /\ ddNow \in Nat /\ ddNow # 0 /\ today \in ddDays /\ today \in Nat
      /\ DdDayAt[1] <= today /\ ddTrue \in [ddCells -> Nat] /\ ddConf \in BOOLEAN
      /\ t \in ddTimes /\ t <= ddNow
  <2>1. ddNow \in ddTimes /\ 1 \in ddTimes BY <1>1, DdNumbers DEF DdTyped
  <2>2. ddNow \in Nat /\ 1 <= ddNow BY <2>1, DdNumbers
  <2>3. today \in ddDays /\ today \in Nat BY <2>1, DdNumbers
  <2>4. ddTrue \in [ddCells -> Nat] /\ ddConf \in BOOLEAN /\ t \in ddTimes /\ t <= ddNow
    BY <1>1, <1>2 DEF DdTyped
  <2> QED BY <2>1, <2>2, <2>3, <2>4, DdNumbers
<1>6. v = Quiet \/ Asked(Quiet, v)
  <2>1. Asked(Quiet, RequestSave(Quiet, FALSE)) BY QuietIs, RequestAsks
  <2> QED BY <2>1
<1>7. cleared => Asked(Quiet, v)
  <2>1. Asked(Quiet, RequestSave(Quiet, FALSE)) BY QuietIs, RequestAsks
  <2> QED BY <2>1
<1>8. /\ BookIs(Restored) /\ Whole(Restored, ddTrue)
      /\ Restored.last # 0 /\ ~cleared => Same(ddDisk, Restored)
  <2>1. CASE ddDisk = <<>> \/ d.day # today
    <3>1. Restored = NewDay(today) BY <2>1 DEF Restored
    <3>2. /\ Restored \in Books /\ Restored.day = today /\ Restored.closed = {} /\ Restored.last = 0
          /\ \A c \in ddCells : Restored.use[c] = 0
      BY <1>5, <3>1, NewDayIs
    <3>3. BookIs(Restored) BY <1>5, <3>2 DEF BookIs, OverBy
    <3>4. Whole(Restored, ddTrue) BY <1>5, <3>2 DEF Whole
    <3> QED BY <3>2, <3>3, <3>4
  <2>2. CASE ~(ddDisk = <<>> \/ d.day # today)
    <3> DEFINE k == IF ddDisk[2] = ddConf THEN d.plan ELSE Blank
               q1 == [d EXCEPT !.last = 0]
               q2 == [q1 EXCEPT !.plan = k]
               m == Advance(q2, ddNow)
    <3>1. d \in Books /\ PayloadIs(ddDisk) /\ UseIs
      BY <1>1, <2>2 DEF DdTyped, Payloads
    <3>2. Restored = m
      <4>1. Restored = Advance([d EXCEPT !.last = 0, !.plan = IF ddDisk[2] = ddConf THEN @ ELSE Blank], ddNow)
        BY <2>2 DEF Restored
      <4>2. [d EXCEPT !.last = 0, !.plan = IF ddDisk[2] = ddConf THEN @ ELSE Blank] = q2
        BY <3>1 DEF Books
      <4> QED BY <4>1, <4>2
    <3>3. k \in [ddCells -> Marks] BY <3>1 DEF Books, Blank, Marks
    <3>4. ~cleared => k = d.plan BY <2>2
    <3> HIDE DEF k
    <3>5. q1 \in Books /\ q1.day = d.day /\ q1.closed = d.closed /\ q1.use = d.use /\ q1.log = d.log /\ q1.last = 0
      BY <3>1 DEF Books
    <3> HIDE DEF q1
    <3>6. q2 \in Books /\ q2.day = d.day /\ q2.closed = d.closed /\ q2.use = d.use /\ q2.log = d.log
          /\ q2.last = 0 /\ q2.plan = k
      BY <3>3, <3>5 DEF Books
    <3> HIDE DEF q2
    <3>7. /\ m \in Books /\ m.day = today /\ m.use = d.use /\ m.log = d.log /\ m.plan = k /\ m.last = ddNow
          /\ m.closed = d.closed \cup {c \in ddCells : Ended(d.day, c, ddNow)}
      <4>1. ddNow >= q2.last BY <1>5, <3>6
      <4> QED BY <1>5, <2>2, <3>6, <4>1, AdvanceIs
    <3> HIDE DEF m
    <3>8. BookIs(m)
      <4>1. \A c \in d.closed : Ended(d.day, c, ddNow) BY <2>2, <3>1 DEF PayloadIs, OverBy
      <4>2. OverBy(m, m.last) BY <2>2, <3>7, <4>1 DEF OverBy
      <4> QED BY <1>5, <3>7, <4>2 DEF BookIs
    <3>9. Whole(m, ddTrue)
      <4>1. \A c \in ddCells \ ddLost : d.use[c] = ddTrue[c] BY <1>2, <2>2, <3>1 DEF UseIs, Living
      <4>2. \A c \in ddCells \ ddLost : m.use[c] = ddTrue[c] /\ ddTrue[c] \in Nat BY <1>5, <3>7, <4>1
      <4> QED BY <4>2 DEF Whole
    <3>10. ~cleared => Same(ddDisk, m) BY <2>2, <3>4, <3>7 DEF Same
    <3> QED BY <3>2, <3>8, <3>9, <3>10
  <2> QED BY <2>1, <2>2
<1>9. v \in Saves BY <1>6, QuietIs DEF Asked
<1>10. v.task \in {"none", "queued"} /\ v.payload = <<>> BY <1>6, QuietIs DEF Asked
<1>11. ~cleared => v = Quiet OBVIOUS
<1>12. v # Quiet => v.dirty /\ (v.task # "none" \/ v.handle) BY <1>6 DEF Asked
<1> HIDE DEF cleared, v
<1>13. /\ BookIs(ddBook') /\ ddBook'.last # 0
       /\ Whole(Restored, ddTrue) => Whole(ddBook', ddTrue)
       /\ (ddBook' = Restored /\ ddSave' = v) \/ Asked(v, ddSave')
  <2> DEFINE due == TRUE
  <2>1. due \in BOOLEAN OBVIOUS
  <2>2. Refresh(Restored, v, t, ddTrue, p, due) BY <1>3
  <2> HIDE DEF due
  <2> QED BY <1>4, <1>5, <1>8, <1>9, <2>1, <2>2, RefreshKeeps
<1>14. ddSave' \in Saves /\ ddSave'.payload = <<>> /\ ddSave'.task \in {"none", "queued"}
  BY <1>9, <1>10, <1>13 DEF Asked
<1>15. /\ ddCall' \in [{"cycle", "forced"} -> {0} \cup ddTimes]
       /\ \A w \in {"cycle", "forced"} : ddCall'[w] <= ddNow
  <2>1. 0 <= ddNow BY <1>5
  <2> QED BY <1>1, <1>2, <2>1 DEF DdTyped
<1>16. BookIs(ddBook)' BY <1>2, <1>13 DEF BookIs, OverBy
<1>17. PayloadIs(ddDisk)' /\ PayloadIs(ddSave.payload)'
  BY <1>1, <1>2, <1>14 DEF DdTyped, PayloadIs, OverBy
<1>18. DdTyped' BY <1>1, <1>2, <1>5, <1>14, <1>15, <1>16, <1>17 DEF DdTyped, Living
<1>19. UseIs' BY <1>2, <1>8, <1>13 DEF UseIs, Whole, Living
<1>20. SaveIs'
  <2>1. CASE ddBook' = Restored /\ ddSave' = v
    <3>1. v = Quiet => Same(ddDisk, Restored)
      <4>1. Restored.last # 0 BY <1>13, <2>1
      <4>2. cleared => v # Quiet BY <1>7, QuietIs DEF Asked
      <4> QED BY <1>8, <4>1, <4>2
    <3> QED BY <1>2, <1>10, <1>12, <2>1, <3>1, QuietIs DEF SaveIs, WriteFollows, Same, Living
  <2>2. CASE Asked(v, ddSave')
    BY <1>2, <1>14, <2>2 DEF SaveIs, WriteFollows, Asked, Living
  <2> QED BY <1>13, <2>1, <2>2
<1> QED BY <1>18, <1>19, <1>20 DEF DdInv

LEMMA DdInitInv == DdInit => DdInv
<1> SUFFICES ASSUME DdInit PROVE DdInv OBVIOUS
<1>1. 1 \in ddTimes /\ DdDayAt[1] \in ddDays /\ DdDayAt[1] \in Nat BY DdNumbers
<1>2. ddNow = 1 /\ ddTrue = Unused /\ ddBook = NewDay(DdDayAt[1]) /\ ddSave = Quiet /\ ddDisk = <<>>
      /\ ddCall = [w \in {"cycle", "forced"} |-> 0] /\ ddPhase = "down" /\ ddConf \in BOOLEAN /\ ddUpsets = 0
  BY DEF DdInit
<1>3. BookIs(ddBook) BY <1>1, <1>2, NewDayIs DEF BookIs, OverBy
<1>4. ddTrue \in [ddCells -> Nat] BY <1>2 DEF Unused
<1>5. ddDisk \in Payloads /\ PayloadIs(ddDisk) /\ PayloadIs(ddSave.payload) BY <1>2, QuietIs DEF Payloads, PayloadIs
<1>6. DdTyped BY <1>1, <1>2, <1>3, <1>4, <1>5, QuietIs DEF DdTyped, Living
<1>7. UseIs BY <1>2 DEF UseIs, Living
<1>8. SaveIs BY <1>2, QuietIs DEF SaveIs, WriteFollows, Living
<1> QED BY <1>6, <1>7, <1>8 DEF DdInv

LEMMA DdStepInv == DdInv /\ [DdNext]_ddVars => DdInv'
<1> SUFFICES ASSUME DdInv, [DdNext]_ddVars PROVE DdInv' OBVIOUS
<1>1. CASE UNCHANGED ddVars
  BY <1>1 DEF ddVars, DdInv, DdTyped, UseIs, SaveIs, WriteFollows, BookIs, PayloadIs, OverBy, Same, Living, Quiet
<1> QED BY <1>1, TimeKeeps, ReadKeeps, RefreshesKeep, SavingKeeps, GoneKeeps, StartKeeps, LoadKeeps
        DEF DdNext, Saving

(* What the diary calls history is over, holds every sample the profiles took   *)
(* in it but those a killed process took with it, and is written or about to    *)
(* be; for every order of the quarter-hours, clock changes included, and any    *)
(* number of late refreshes, failed writes and kills                             *)
(* (tracking/daily_timeline.py, refresh_actual_partial, request_save).           *)
THEOREM HistoryCorrect == DdSpec => []HistoryIsTrue
<1>1. DdInv => HistoryIsTrue
  <2> SUFFICES ASSUME DdInv PROVE HistoryIsTrue OBVIOUS
  <2>1. DdTyped /\ UseIs /\ SaveIs BY DEF DdInv
  <2>2. ddBook \in Books /\ BookIs(ddBook) /\ ddSave \in Saves /\ ddNow \in ddTimes BY <2>1 DEF DdTyped, BookIs
  <2>3. ddBook.closed \subseteq ddCells /\ ddBook.last \in Nat /\ ddBook.day \in ddDays /\ ddNow \in Nat
    BY <2>2, TimesAre, DdNumbers
  <2>4. DdTypeOK BY <2>1, <2>2, <2>3 DEF DdTypeOK, DdTyped, Saves, ddTasks
  <2>5. ClosedIsWhole BY <2>1, <2>3 DEF ClosedIsWhole, UseIs, Living
  <2>6. ClosedIsOver
    <3> SUFFICES ASSUME NEW c \in ddBook.closed, NEW t \in ddOccurs[ddBook.day][c] PROVE t < ddNow
      BY DEF ClosedIsOver
    <3>1. Ended(ddBook.day, c, ddBook.last) /\ ddBook.last <= ddNow BY <2>2 DEF BookIs, OverBy
    <3>2. t < ddBook.last BY <3>1 DEF Ended
    <3>3. t \in ddTimes /\ t \in Nat
      <4>1. ddOccurs[ddBook.day][c] \subseteq ddTimes BY <2>3 DEF ddOccurs
      <4> QED BY <4>1, DdNumbers
    <3> QED BY <2>3, <3>1, <3>2, <3>3
  <2>7. WriteFollows BY <2>1 DEF SaveIs
  <2> QED BY <2>4, <2>5, <2>6, <2>7 DEF HistoryIsTrue
<1> QED BY DdInitInv, DdStepInv, <1>1, PTL DEF DdSpec

(* A closed cell is not rewritten while its day and the process last, whatever   *)
(* order the cycle's and the listener's refreshes run in, and when an unload has *)
(* flushed the Store holds the book as it is (tracking/daily_timeline.py,         *)
(* rebuild_future_projection, async_save_all).                                   *)
THEOREM HistoryKept == DdSpec => HistoryIsKept
<1>1. DdInv /\ [DdNext]_ddVars
        => [(/\ ddPhase \in {"up", "flushing"}
             /\ ddPhase' # "down"
             /\ ddBook'.day = ddBook.day)
            => (/\ ddBook.closed \subseteq ddBook'.closed
                /\ \A c \in ddBook.closed, f \in {"use", "log", "plan"} :
                       ddBook'[f][c] = ddBook[f][c])]_ddVars
  <2> SUFFICES ASSUME DdInv, DdNext, ddPhase \in {"up", "flushing"}, ddPhase' # "down", ddBook'.day = ddBook.day
               PROVE /\ ddBook.closed \subseteq ddBook'.closed
                     /\ \A c \in ddBook.closed, f \in {"use", "log", "plan"} : ddBook'[f][c] = ddBook[f][c]
    OBVIOUS
  <2>1. CASE CycleRefreshes \/ ListenerRefreshes BY <2>1, RefreshesKeep
  <2>2. CASE ddBook' = ddBook BY <2>2
  <2>3. CycleRefreshes \/ ListenerRefreshes \/ ddBook' = ddBook
    BY DEF DdNext, TimePasses, CycleReads, OptionsSaved, SaveStarts, SaveEnds, SaveFails, FollowUp, DebounceEnds,
           FlushBegins, FlushSteps, FlushEnds, Killed, Gone, Starts, Loads
  <2> QED BY <2>1, <2>2, <2>3
<1>2. DdInv /\ [DdNext]_ddVars
        => [ddPhase = "flushing" /\ ddPhase' = "down" /\ ddUpsets' = ddUpsets
            => \A f \in {"day", "use", "log", "plan"} : ddDisk[1][f] = ddBook[f]]_ddVars
  <2> SUFFICES ASSUME DdInv, DdNext, ddPhase = "flushing", ddPhase' = "down", ddUpsets' = ddUpsets
               PROVE \A f \in {"day", "use", "log", "plan"} : ddDisk[1][f] = ddBook[f]
    OBVIOUS
  <2>1. ddUpsets \in Nat BY DEF DdInv, DdTyped
  <2>2. FlushEnds
    BY <2>1 DEF DdNext, TimePasses, CycleReads, OptionsSaved, SaveStarts, SaveEnds, SaveFails, FollowUp, DebounceEnds,
           FlushBegins, FlushSteps, Killed, Upset, Starts, Loads, CycleRefreshes, ListenerRefreshes
  <2>3. Same(ddDisk, ddBook) BY <2>2 DEF FlushEnds, DdInv, SaveIs, Living
  <2> QED BY <2>3 DEF Same
<1> QED BY DdInitInv, DdStepInv, <1>1, <1>2, PTL DEF DdSpec, HistoryIsKept, HistoryStays, FlushIsWhole

-----------------------------------------------------------------------------
(* ExternalLoads: the sun shared along the list.                             *)
(*                                                                           *)
(* Induction over the list without an operator as a parameter: what holds of *)
(* a number is a set of numbers, and a set that 0 is in and that goes on as  *)
(* far as n holds all up to n (Climbs).  From it: the recursive functions of *)
(* the model exist (RunningSum, LeftAfterStep) and what is claimed and left  *)
(* along the list adds up to what there was (GivenOnce).                     *)

LEMMA NatLeast ==
    ASSUME NEW T, T \subseteq Nat, T # {}
    PROVE  \E m \in T : \A k \in T : m <= k
<1> DEFINE less == OpToRel(<, Nat)
<1>1. IsWellFoundedOn(less, Nat)
  BY NatLessThanWellFounded
<1>2. PICK m \in T : \A k \in T : ~(<<k, m>> \in less)
  <2> HIDE DEF less
  <2> QED BY <1>1, WFMin
<1>3. \A k \in T : ~(k < m)
  BY <1>2 DEF OpToRel
<1> QED BY <1>3

LEMMA Climbs ==
    ASSUME NEW n \in Nat, NEW T, 0 \in T, \A k \in 0 .. n - 1 : k \in T => k + 1 \in T
    PROVE  \A k \in 0 .. n : k \in T
<1> DEFINE bad == {k \in 0 .. n : k \notin T}
<1> SUFFICES ASSUME bad # {} PROVE FALSE
  OBVIOUS
<1>1. bad \subseteq Nat
  OBVIOUS
<1>2. PICK m \in bad : \A k \in bad : m <= k
  <2> HIDE DEF bad
  <2> QED BY <1>1, NatLeast
<1>3. m # 0 /\ m \in 1 .. n /\ m - 1 \in 0 .. n - 1 /\ (m - 1) + 1 = m
  OBVIOUS
<1>4. m - 1 \in T
  BY <1>2, <1>3
<1> QED BY <1>3, <1>4

ListLen == Cardinality(XlDevices)

LEMMA ListLenIsNat == ListLen \in Nat /\ XlDevices = 1 .. ListLen
BY XlAssumption, FS_CardinalityType DEF ListLen

LEMMA RunningSum ==
    ASSUME NEW f \in [XlDevices -> Nat]
    PROVE  SumTo(f) = [i \in 0 .. ListLen |-> IF i = 0 THEN 0 ELSE SumTo(f)[i - 1] + f[i]]
<1> DEFINE sums(k) == {g \in [0 .. k -> Nat] : g = [i \in 0 .. k |-> IF i = 0 THEN 0 ELSE g[i - 1] + f[i]]}
<1> DEFINE T == {k \in 0 .. ListLen : sums(k) # {}}
<1>1. 0 \in T
  <2> DEFINE g == [i \in 0 .. 0 |-> 0]
  <2>1. g \in [0 .. 0 -> Nat]
    OBVIOUS
  <2>2. g = [i \in 0 .. 0 |-> IF i = 0 THEN 0 ELSE g[i - 1] + f[i]]
    OBVIOUS
  <2>3. g \in sums(0)
    BY <2>1, <2>2
  <2> QED BY <2>3, ListLenIsNat
<1>2. ASSUME NEW k \in 0 .. ListLen - 1, k \in T PROVE k + 1 \in T
  <2>1. k \in Nat /\ k + 1 \in 0 .. ListLen /\ k + 1 \in XlDevices /\ f[k + 1] \in Nat
    BY ListLenIsNat
  <2>2. PICK g \in [0 .. k -> Nat] : g = [i \in 0 .. k |-> IF i = 0 THEN 0 ELSE g[i - 1] + f[i]]
    BY <1>2
  <2> DEFINE h == [i \in 0 .. k + 1 |-> IF i = k + 1 THEN g[k] + f[k + 1] ELSE g[i]]
  <2>3. h \in [0 .. k + 1 -> Nat]
    BY <2>1
  <2>4. ASSUME NEW i \in 0 .. k + 1
        PROVE  h[i] = IF i = 0 THEN 0 ELSE h[i - 1] + f[i]
    <3>1. CASE i = k + 1
      BY <2>1, <3>1
    <3>2. CASE i # k + 1
      <4>1. i \in 0 .. k /\ h[i] = g[i]
        BY <2>1, <3>2
      <4>2. g[i] = IF i = 0 THEN 0 ELSE g[i - 1] + f[i]
        BY <2>2, <4>1
      <4>3. i # 0 => h[i - 1] = g[i - 1]
        BY <2>1, <4>1
      <4> QED BY <4>1, <4>2, <4>3
    <3> QED BY <3>1, <3>2
  <2>5. h = [i \in 0 .. k + 1 |-> IF i = 0 THEN 0 ELSE h[i - 1] + f[i]]
    BY <2>4
  <2>6. h \in sums(k + 1)
    <3> HIDE DEF h
    <3> QED BY <2>3, <2>5
  <2> QED BY <2>1, <2>6
<1>3. \A k \in 0 .. ListLen : k \in T
  <2> HIDE DEF T
  <2> QED BY <1>1, <1>2, Climbs, ListLenIsNat
<1>4. PICK g : g = [i \in 0 .. ListLen |-> IF i = 0 THEN 0 ELSE g[i - 1] + f[i]]
  BY <1>3, ListLenIsNat
<1>5. SumTo(f) = CHOOSE s : s = [i \in 0 .. ListLen |-> IF i = 0 THEN 0 ELSE s[i - 1] + f[i]]
  BY DEF SumTo, ListLen
<1> QED BY <1>4, <1>5

LEMMA SumToStep ==
    ASSUME NEW f \in [XlDevices -> Nat]
    PROVE  /\ SumTo(f)[0] = 0
           /\ \A i \in XlDevices : SumTo(f)[i] = SumTo(f)[i - 1] + f[i]
           /\ SumTo(f) \in [0 .. ListLen -> Nat]
<1> DEFINE g == SumTo(f)
<1>1. g = [i \in 0 .. ListLen |-> IF i = 0 THEN 0 ELSE g[i - 1] + f[i]]
  BY RunningSum
<1> HIDE DEF g
<1>2. g[0] = 0
  BY <1>1, ListLenIsNat
<1>3. ASSUME NEW i \in XlDevices PROVE g[i] = g[i - 1] + f[i]
  BY <1>1, ListLenIsNat
<1> DEFINE T == {k \in 0 .. ListLen : g[k] \in Nat}
<1>4. 0 \in T
  BY <1>2, ListLenIsNat
<1>5. ASSUME NEW k \in 0 .. ListLen - 1, k \in T PROVE k + 1 \in T
  <2>1. k + 1 \in XlDevices /\ f[k + 1] \in Nat /\ (k + 1) - 1 = k /\ k + 1 \in 0 .. ListLen
    BY ListLenIsNat
  <2>2. g[k + 1] = g[k] + f[k + 1]
    BY <1>3, <2>1
  <2> QED BY <1>5, <2>1, <2>2
<1>6. \A k \in 0 .. ListLen : k \in T
  <2> HIDE DEF T
  <2> QED BY <1>4, <1>5, Climbs, ListLenIsNat
<1>7. g \in [0 .. ListLen -> Nat]
  BY <1>1, <1>6
<1> QED BY <1>2, <1>3, <1>7 DEF g

(* What the sensors may show, the budgets and claims along the list. *)
XlSenses ==
    [power : [XlDevices -> Opt(XlPowers)], active : [XlDevices -> BOOLEAN], enabled : SUBSET XlDevices,
     sun : Opt(XlSuns), home : Opt(XlHomes), ev : {"on", "off", "na"}]
XlLefts == [sun : Nat, surplus : Opt(Nat), claim : [XlDevices -> Nat]]

LEMMA TheOnly == ASSUME NEW n PROVE The({n}) = n
BY DEF The

LEMMA OptParts ==
    ASSUME NEW S, NEW o \in Opt(S)
    PROVE  o = {} \/ (The(o) \in S /\ o = {The(o)})
<1>1. CASE o = {}
  BY <1>1
<1>2. CASE o \in {{n} : n \in S}
  <2>1. PICK n \in S : o = {n}
    BY <1>2
  <2> QED BY <2>1, TheOnly
<1> QED BY <1>1, <1>2 DEF Opt

LEMMA WattsNat == ASSUME NEW o \in Opt(Nat) PROVE Watts(o) \in Nat
BY OptParts DEF Watts, OrElse

LEMMA OptIn == ASSUME NEW S, NEW n \in S PROVE {n} \in Opt(S) /\ {} \in Opt(S)
BY DEF Opt

LEMMA OptWiden == ASSUME NEW S, S \subseteq Nat, NEW o \in Opt(S) PROVE o \in Opt(Nat)
<1>1. CASE o = {}
  BY <1>1 DEF Opt
<1>2. CASE o # {}
  <2>1. The(o) \in Nat /\ o = {The(o)}
    BY <1>2, OptParts
  <2> QED BY <2>1, OptIn
<1> QED BY <1>1, <1>2

LEMMA SharedTyped ==
    ASSUME NEW d \in XlDevices, NEW left \in XlLefts, xlSense \in XlSenses
    PROVE  Shared(d, left) \in XlLefts
<1> DEFINE p == Watts(xlSense.power[d])
           avail == IF d \in XlCover THEN left.sun ELSE OrElse(left.surplus, 0)
           offset == IF d \notin xlSense.enabled THEN 0 ELSE IF p < avail THEN p ELSE avail
<1>1. p \in Nat
  <2>1. xlSense.power[d] \in Opt(XlPowers)
    BY DEF XlSenses
  <2> QED BY <2>1, OptWiden, WattsNat, XlAssumption
<1>2. left.sun \in Nat /\ left.surplus \in Opt(Nat) /\ left.claim \in [XlDevices -> Nat]
  BY DEF XlLefts
<1>3. avail \in Nat
  BY <1>2, OptParts DEF OrElse
<1> HIDE DEF p, avail
<1>4. offset \in Nat
  BY <1>1, <1>3
<1>5. AtLeastZero(left.sun - offset) \in Nat
  <2> HIDE DEF offset
  <2> QED BY <1>2, <1>4 DEF AtLeastZero
<1>6. Taken(offset, left.surplus) \in Opt(Nat)
  <2> HIDE DEF offset
  <2>1. CASE left.surplus = {}
    BY <2>1 DEF Taken, Opt
  <2>2. CASE left.surplus # {}
    <3>1. The(left.surplus) \in Nat
      BY <1>2, <2>2, OptParts
    <3>2. AtLeastZero(The(left.surplus) - offset) \in Nat
      BY <3>1, <1>4 DEF AtLeastZero
    <3> QED BY <3>2, <2>2, OptIn DEF Taken
  <2> QED BY <2>1, <2>2
<1>7. [left.claim EXCEPT ![d] = offset] \in [XlDevices -> Nat]
  <2> HIDE DEF offset
  <2> QED BY <1>2, <1>4
<1>8. Shared(d, left) = [sun |-> AtLeastZero(left.sun - offset), surplus |-> Taken(offset, left.surplus),
                         claim |-> [left.claim EXCEPT ![d] = offset]]
  BY DEF Shared, p, avail
<1> HIDE DEF offset
<1> QED BY <1>5, <1>6, <1>7, <1>8 DEF XlLefts

LEMMA PowersTyped == ASSUME xlSense \in XlSenses PROVE PowersOf(xlSense) \in [XlDevices -> Nat]
<1> SUFFICES ASSUME NEW d \in XlDevices PROVE Watts(xlSense.power[d]) \in Nat
  BY DEF PowersOf
<1>1. xlSense.power[d] \in Opt(XlPowers)
  BY DEF XlSenses
<1> QED BY <1>1, OptWiden, WattsNat, XlAssumption

LEMMA TotalNat == ASSUME NEW f \in [XlDevices -> Nat] PROVE Total(f) \in Nat
<1>1. SumTo(f) \in [0 .. ListLen -> Nat]
  BY SumToStep
<1> QED BY <1>1, ListLenIsNat DEF Total, ListLen

LEMMA WholeTyped ==
    ASSUME xlSense \in XlSenses
    PROVE  /\ AllSun \in XlLefts
           /\ OrElse(Surplus, 0) <= Watts(xlSense.sun)
<1>1. Watts(xlSense.sun) \in Nat
  <2>1. xlSense.sun \in Opt(XlSuns)
    BY DEF XlSenses
  <2> QED BY <2>1, OptWiden, WattsNat, XlAssumption
<1>2. IncludedPower \in Nat
  BY PowersTyped, TotalNat DEF IncludedPower
<1>3. Surplus \in Opt(Nat) /\ OrElse(Surplus, 0) <= Watts(xlSense.sun)
  <2>1. CASE xlSense.home = {}
    BY <1>1, <2>1 DEF Surplus, Opt, OrElse
  <2>2. CASE xlSense.home # {}
    <3>1. xlSense.home \in Opt(XlHomes)
      BY DEF XlSenses
    <3>2. The(xlSense.home) \in Nat
      BY <3>1, <2>2, OptParts, XlAssumption
    <3> DEFINE base == AtLeastZero(The(xlSense.home) - IncludedPower)
               over == AtLeastZero(Watts(xlSense.sun) - base)
    <3>3. base \in Nat
      BY <3>2, <1>2 DEF AtLeastZero
    <3> HIDE DEF base
    <3>4. over \in Nat /\ over <= Watts(xlSense.sun)
      BY <3>3, <1>1 DEF AtLeastZero
    <3>5. Surplus = {over}
      BY <2>2 DEF Surplus, base
    <3> HIDE DEF over
    <3> QED BY <3>4, <3>5, OptIn, TheOnly DEF OrElse
  <2> QED BY <2>1, <2>2
<1>4. [d \in XlDevices |-> 0] \in [XlDevices -> Nat]
  OBVIOUS
<1>5. AllSun \in XlLefts
  BY <1>1, <1>3, <1>4 DEF AllSun, XlLefts
<1> QED BY <1>3, <1>5

LEMMA LeftAfterStep ==
    ASSUME xlSense \in XlSenses
    PROVE  /\ LeftAfter[0] = AllSun
           /\ \A i \in XlDevices : LeftAfter[i] = Shared(i, LeftAfter[i - 1])
<1> DEFINE Goes(g, k) == g = [i \in 0 .. k |-> IF i = 0 THEN AllSun ELSE Shared(i, g[i - 1])]
<1> DEFINE runs(k) == {g \in [0 .. k -> XlLefts] : Goes(g, k)}
<1> DEFINE T == {k \in 0 .. ListLen : runs(k) # {}}
<1>1. 0 \in T
  <2> DEFINE g == [i \in 0 .. 0 |-> AllSun]
  <2>1. g \in [0 .. 0 -> XlLefts]
    BY WholeTyped
  <2>2. Goes(g, 0)
    OBVIOUS
  <2> HIDE DEF g, Goes
  <2>3. g \in runs(0)
    BY <2>1, <2>2
  <2> QED BY <2>3, ListLenIsNat
<1>2. ASSUME NEW k \in 0 .. ListLen - 1, k \in T PROVE k + 1 \in T
  <2>1. k \in Nat /\ k + 1 \in 0 .. ListLen /\ k + 1 \in XlDevices
    BY ListLenIsNat
  <2>2. PICK g \in [0 .. k -> XlLefts] : Goes(g, k)
    <3> HIDE DEF Goes
    <3> QED BY <1>2
  <2> DEFINE next == Shared(k + 1, g[k])
  <2>3. g[k] \in XlLefts /\ next \in XlLefts
    BY <2>1, SharedTyped
  <2> HIDE DEF next
  <2> DEFINE h == [i \in 0 .. k + 1 |-> IF i = k + 1 THEN next ELSE g[i]]
  <2>4. h \in [0 .. k + 1 -> XlLefts]
    BY <2>1, <2>3
  <2>5. ASSUME NEW i \in 0 .. k + 1
        PROVE  h[i] = IF i = 0 THEN AllSun ELSE Shared(i, h[i - 1])
    <3>1. CASE i = k + 1
      <4>1. h[i] = next /\ h[i - 1] = g[k] /\ i # 0
        BY <2>1, <3>1
      <4> QED BY <4>1, <3>1 DEF next
    <3>2. CASE i # k + 1
      <4>1. i \in 0 .. k /\ h[i] = g[i]
        BY <2>1, <3>2
      <4>2. g[i] = IF i = 0 THEN AllSun ELSE Shared(i, g[i - 1])
        BY <2>2, <4>1
      <4>3. i # 0 => h[i - 1] = g[i - 1]
        BY <2>1, <4>1
      <4> HIDE DEF h
      <4> QED BY <4>1, <4>2, <4>3
    <3> QED BY <3>1, <3>2
  <2>6. Goes(h, k + 1)
    BY <2>5
  <2>7. h \in runs(k + 1)
    <3> HIDE DEF h, Goes
    <3> QED BY <2>4, <2>6
  <2> QED BY <2>1, <2>7
<1>3. \A k \in 0 .. ListLen : k \in T
  <2> HIDE DEF T
  <2> QED BY <1>1, <1>2, Climbs, ListLenIsNat
<1>4. PICK g : Goes(g, ListLen)
  <2> HIDE DEF Goes
  <2> QED BY <1>3, ListLenIsNat
<1>5. LeftAfter = CHOOSE s : Goes(s, ListLen)
  BY DEF LeftAfter, ListLen
<1>6. Goes(LeftAfter, ListLen)
  <2> HIDE DEF Goes
  <2> QED BY <1>4, <1>5
<1> QED BY <1>6, ListLenIsNat

(* What one turn does: the device's claim and what is left of the two budgets. *)
LEMMA OneTurn ==
    ASSUME NEW d \in XlDevices, NEW left \in XlLefts, xlSense \in XlSenses,
           OrElse(left.surplus, 0) <= left.sun
    PROVE  LET after == Shared(d, left) IN
           \E took \in Nat :
               /\ after.claim = [left.claim EXCEPT ![d] = took]
               /\ took + after.sun = left.sun
               /\ OrElse(after.surplus, 0) <= after.sun
               /\ (IF d \in XlCover THEN 0 ELSE took) + OrElse(after.surplus, 0) <= OrElse(left.surplus, 0)
<1> DEFINE p == Watts(xlSense.power[d])
           room == OrElse(left.surplus, 0)
           avail == IF d \in XlCover THEN left.sun ELSE room
           took == IF d \notin xlSense.enabled THEN 0 ELSE IF p < avail THEN p ELSE avail
           after == Shared(d, left)
<1>1. p \in Nat
  <2>1. xlSense.power[d] \in Opt(XlPowers)
    BY DEF XlSenses
  <2> QED BY <2>1, OptWiden, WattsNat, XlAssumption
<1>2. left.sun \in Nat /\ left.surplus \in Opt(Nat)
  BY DEF XlLefts
<1>3. room \in Nat
  BY <1>2, OptParts DEF OrElse
<1>4. room <= left.sun
  OBVIOUS
<1>5. /\ after.claim = [left.claim EXCEPT ![d] = took]
      /\ after.sun = AtLeastZero(left.sun - took)
      /\ after.surplus = Taken(took, left.surplus)
  BY DEF Shared
<1> HIDE DEF p, after
<1>6. took \in Nat /\ took <= left.sun /\ (d \notin XlCover => took <= room)
  <2> HIDE DEF room
  <2> QED BY <1>1, <1>2, <1>3, <1>4
<1> HIDE DEF took
<1>7. after.sun = left.sun - took
  BY <1>2, <1>5, <1>6 DEF AtLeastZero
<1>8. OrElse(after.surplus, 0) = AtLeastZero(room - took)
  <2>1. CASE left.surplus = {}
    BY <2>1, <1>5, <1>6 DEF Taken, OrElse, AtLeastZero
  <2>2. CASE left.surplus # {}
    <3>1. after.surplus = {AtLeastZero(room - took)}
      BY <2>2, <1>5 DEF Taken, OrElse
    <3> HIDE DEF room
    <3> QED BY <3>1, TheOnly DEF OrElse
  <2> QED BY <2>1, <2>2
<1> HIDE DEF room
<1>9. /\ took + after.sun = left.sun
      /\ AtLeastZero(room - took) <= after.sun
      /\ (IF d \in XlCover THEN 0 ELSE took) + AtLeastZero(room - took) <= room
  BY <1>2, <1>3, <1>4, <1>6, <1>7 DEF AtLeastZero
<1>10. OrElse(left.surplus, 0) = room
  BY DEF room
<1> QED BY <1>5, <1>6, <1>8, <1>9, <1>10 DEF after

(* The sun is given once: along the list, what was credited and what is left *)
(* add up to what there was.                                                  *)
LEMMA GivenOnce ==
    ASSUME xlSense \in XlSenses
    PROVE  /\ Claims \in [XlDevices -> Nat]
           /\ Total(Claims) <= Watts(xlSense.sun)
           /\ Total([d \in XlDevices |-> IF d \in XlCover THEN 0 ELSE Claims[d]]) <= OrElse(Surplus, 0)
<1> DEFINE L == LeftAfter
           took == [d \in XlDevices |-> L[d].claim[d]]
           own == [d \in XlDevices |-> IF d \in XlCover THEN 0 ELSE took[d]]
           kept(k) == OrElse(L[k].surplus, 0)
<1>1. L[0] = AllSun /\ \A i \in XlDevices : L[i] = Shared(i, L[i - 1])
  BY LeftAfterStep
<1> HIDE DEF L
<1>2. \A k \in 0 .. ListLen : L[k] \in XlLefts /\ kept(k) <= L[k].sun
  <2> DEFINE T == {k \in 0 .. ListLen : L[k] \in XlLefts /\ kept(k) <= L[k].sun}
  <2>1. 0 \in T
    BY <1>1, WholeTyped, ListLenIsNat DEF AllSun
  <2>2. ASSUME NEW k \in 0 .. ListLen - 1, k \in T PROVE k + 1 \in T
    <3>1. k + 1 \in XlDevices /\ k + 1 \in 0 .. ListLen /\ (k + 1) - 1 = k
      BY ListLenIsNat
    <3>2. L[k + 1] = Shared(k + 1, L[k])
      BY <1>1, <3>1
    <3>3. L[k + 1] \in XlLefts
      BY <2>2, <3>1, <3>2, SharedTyped
    <3>4. kept(k + 1) <= L[k + 1].sun
      BY <2>2, <3>1, <3>2, OneTurn
    <3> QED BY <3>1, <3>3, <3>4
  <2>3. \A k \in 0 .. ListLen : k \in T
    <3> HIDE DEF T
    <3> QED BY <2>1, <2>2, Climbs, ListLenIsNat
  <2> QED BY <2>3
<1>3. took \in [XlDevices -> Nat] /\ own \in [XlDevices -> Nat]
  <2> SUFFICES ASSUME NEW d \in XlDevices PROVE L[d].claim[d] \in Nat
    OBVIOUS
  <2>1. d \in 0 .. ListLen
    BY ListLenIsNat
  <2> QED BY <2>1, <1>2 DEF XlLefts
<1>4. ASSUME NEW k \in 0 .. ListLen - 1
      PROVE  /\ k + 1 \in XlDevices /\ k \in 0 .. ListLen /\ k + 1 \in 0 .. ListLen
             /\ L[k + 1].claim = [L[k].claim EXCEPT ![k + 1] = took[k + 1]]
             /\ took[k + 1] + L[k + 1].sun = L[k].sun
             /\ own[k + 1] + kept(k + 1) <= kept(k)
  <2>1. k + 1 \in XlDevices /\ k \in 0 .. ListLen /\ k + 1 \in 0 .. ListLen /\ (k + 1) - 1 = k
    BY ListLenIsNat
  <2>2. L[k + 1] = Shared(k + 1, L[k])
    BY <1>1, <2>1
  <2>3. L[k] \in XlLefts /\ kept(k) <= L[k].sun
    BY <1>2, <2>1
  <2> DEFINE after == Shared(k + 1, L[k])
  <2>4. PICK n \in Nat : /\ after.claim = [L[k].claim EXCEPT ![k + 1] = n]
                          /\ n + after.sun = L[k].sun
                          /\ (IF k + 1 \in XlCover THEN 0 ELSE n) + OrElse(after.surplus, 0) <= kept(k)
    BY <2>1, <2>3, OneTurn
  <2> HIDE DEF after
  <2>5. L[k + 1] = after
    BY <2>2 DEF after
  <2>6. L[k].claim \in [XlDevices -> Nat]
    BY <2>3 DEF XlLefts
  <2>7. took[k + 1] = n
    BY <2>1, <2>4, <2>5, <2>6
  <2>8. own[k + 1] = IF k + 1 \in XlCover THEN 0 ELSE n
    BY <2>1, <2>7
  <2> HIDE DEF took, own
  <2> QED BY <2>1, <2>4, <2>5, <2>7, <2>8
<1>5. Claims = took
  <2> DEFINE upto(k) == [d \in XlDevices |-> IF d <= k THEN took[d] ELSE 0]
             T == {k \in 0 .. ListLen : L[k].claim = upto(k)}
  <2> HIDE DEF took
  <2>1. 0 \in T
    <3>1. L[0].claim = [d \in XlDevices |-> 0]
      BY <1>1 DEF AllSun
    <3>2. \A d \in XlDevices : ~(d <= 0)
      BY ListLenIsNat
    <3> QED BY <3>1, <3>2, ListLenIsNat
  <2>2. ASSUME NEW k \in 0 .. ListLen - 1, k \in T PROVE k + 1 \in T
    <3>1. L[k + 1].claim = [upto(k) EXCEPT ![k + 1] = took[k + 1]] /\ k + 1 \in 0 .. ListLen
      BY <2>2, <1>4
    <3>2. ASSUME NEW d \in XlDevices
          PROVE  [upto(k) EXCEPT ![k + 1] = took[k + 1]][d] = upto(k + 1)[d]
      <4>1. CASE d = k + 1
        BY <4>1, ListLenIsNat
      <4>2. CASE d # k + 1
        <5>1. d <= k + 1 <=> d <= k
          BY <4>2, ListLenIsNat
        <5> QED BY <4>2, <5>1
      <4> QED BY <4>1, <4>2
    <3> QED BY <3>1, <3>2
  <2>3. \A k \in 0 .. ListLen : k \in T
    <3> HIDE DEF T
    <3> QED BY <2>1, <2>2, Climbs, ListLenIsNat
  <2>4. L[ListLen].claim = upto(ListLen)
    BY <2>3, ListLenIsNat
  <2>5. upto(ListLen) = took
    BY <1>3, ListLenIsNat
  <2> QED BY <2>4, <2>5 DEF Claims, ListLen, L
<1>6. /\ \A i \in XlDevices : /\ SumTo(took)[i] = SumTo(took)[i - 1] + took[i]
                              /\ SumTo(own)[i] = SumTo(own)[i - 1] + own[i]
      /\ SumTo(took)[0] = 0 /\ SumTo(own)[0] = 0
      /\ SumTo(took) \in [0 .. ListLen -> Nat] /\ SumTo(own) \in [0 .. ListLen -> Nat]
  <2> HIDE DEF took, own
  <2> QED BY <1>3, SumToStep
<1>7. kept(0) = OrElse(Surplus, 0) /\ L[0].sun = Watts(xlSense.sun)
  BY <1>1 DEF AllSun
<1>8. \A k \in 0 .. ListLen : kept(k) \in Nat /\ L[k].sun \in Nat
  <2> SUFFICES ASSUME NEW k \in 0 .. ListLen PROVE kept(k) \in Nat /\ L[k].sun \in Nat
    OBVIOUS
  <2>1. L[k].sun \in Nat /\ L[k].surplus \in Opt(Nat)
    BY <1>2 DEF XlLefts
  <2> QED BY <2>1, OptParts DEF OrElse
<1> DEFINE s == SumTo(took)  o == SumTo(own)
<1> HIDE DEF s, o, took, own, kept
<1>9. \A k \in 0 .. ListLen : s[k] + L[k].sun = L[0].sun /\ o[k] + kept(k) <= kept(0)
  <2> DEFINE T == {k \in 0 .. ListLen : s[k] + L[k].sun = L[0].sun /\ o[k] + kept(k) <= kept(0)}
  <2>1. 0 \in T
    BY <1>6, <1>8, ListLenIsNat DEF s, o
  <2>2. ASSUME NEW k \in 0 .. ListLen - 1, k \in T PROVE k + 1 \in T
    <3>1. k + 1 \in XlDevices /\ k \in 0 .. ListLen /\ k + 1 \in 0 .. ListLen /\ (k + 1) - 1 = k
      BY ListLenIsNat
    <3>2. s[k + 1] = s[k] + took[k + 1] /\ o[k + 1] = o[k] + own[k + 1]
      BY <1>6, <3>1 DEF s, o
    <3>3. s[k] \in Nat /\ o[k] \in Nat /\ took[k + 1] \in Nat /\ own[k + 1] \in Nat
      BY <1>6, <1>3, <3>1 DEF s, o
    <3>4. took[k + 1] + L[k + 1].sun = L[k].sun /\ own[k + 1] + kept(k + 1) <= kept(k)
      BY <1>4 DEF kept
    <3>5. L[k].sun \in Nat /\ L[k + 1].sun \in Nat /\ kept(k) \in Nat /\ kept(k + 1) \in Nat
          /\ kept(0) \in Nat /\ L[0].sun \in Nat
      BY <1>8, <3>1, ListLenIsNat DEF kept
    <3>6. s[k] + L[k].sun = L[0].sun /\ o[k] + kept(k) <= kept(0)
      BY <2>2
    <3>7. s[k + 1] + L[k + 1].sun = L[0].sun /\ o[k + 1] + kept(k + 1) <= kept(0)
      BY <3>2, <3>3, <3>4, <3>5, <3>6
    <3> QED BY <3>1, <3>7
  <2>3. \A k \in 0 .. ListLen : k \in T
    <3> HIDE DEF T
    <3> QED BY <2>1, <2>2, Climbs, ListLenIsNat
  <2> QED BY <2>3
<1>10. Total(took) = s[ListLen] /\ Total(own) = o[ListLen] /\ ListLen \in 0 .. ListLen
  BY ListLenIsNat DEF Total, ListLen, s, o
<1>11. s[ListLen] \in Nat /\ o[ListLen] \in Nat
  BY <1>6, <1>10 DEF s, o
<1>12. s[ListLen] <= L[0].sun /\ o[ListLen] <= kept(0)
  BY <1>8, <1>9, <1>10, <1>11, ListLenIsNat
<1>13. own = [d \in XlDevices |-> IF d \in XlCover THEN 0 ELSE Claims[d]]
  BY <1>5 DEF own
<1> QED BY <1>3, <1>5, <1>7, <1>10, <1>12, <1>13 DEF kept

(* A latch, and the margin its reference stands for. *)
XlLatches ==
    [hold : 0 .. XlHold, yield : Nat, probe : 0 .. XlProbe,
     sun : Opt(XlSuns), power : Opt(XlPowers), was : BOOLEAN]
RefOf(e) == The(e.sun) - The(e.power)

LEMMA PeriodsPositive ==
    /\ XlStep \in Nat /\ XlHold \in Nat /\ XlYield \in Nat /\ XlReyield \in Nat /\ XlProbe \in Nat /\ XlEvPause \in Nat
    /\ XlStep > 0 /\ XlHold > 0 /\ XlYield > 0 /\ XlReyield > 0 /\ XlProbe > 0 /\ XlEvPause > 0
BY XlAssumption

LEMMA NoLatchTyped == NoLatch \in XlLatches
BY PeriodsPositive DEF NoLatch, XlLatches, Opt

LEMMA TickedTyped ==
    ASSUME NEW e \in XlLatches
    PROVE  /\ Ticked(e) \in XlLatches
           /\ Ticked(e).hold = Less(e.hold)
           /\ Ticked(e).sun = e.sun /\ Ticked(e).power = e.power
<1>1. Less(e.hold) \in 0 .. XlHold /\ Less(e.yield) \in Nat /\ Less(e.probe) \in 0 .. XlProbe
  BY PeriodsPositive DEF XlLatches, Less
<1> QED BY <1>1 DEF Ticked, XlLatches

LEMMA ReferencedTyped ==
    ASSUME NEW e \in XlLatches, NEW s \in Opt(XlSuns), NEW p \in Opt(XlPowers)
    PROVE  LET r == Referenced(e, s, p) IN
           /\ r \in XlLatches
           /\ r.hold = e.hold /\ r.yield = e.yield /\ r.sun = s
           /\ r.power = IF p = {} THEN e.power ELSE p
BY DEF Referenced, XlLatches

LEMMA HeldTyped ==
    ASSUME NEW e \in XlLatches
    PROVE  LET b == [e EXCEPT !.hold = XlHold, !.was = TRUE] IN
           b \in XlLatches /\ b.hold = XlHold /\ b.sun = e.sun /\ b.power = e.power /\ b.yield = e.yield
<1>1. XlHold \in 0 .. XlHold
  BY PeriodsPositive
<1> QED BY <1>1 DEF XlLatches

LEMMA ProbedTyped ==
    ASSUME NEW e \in XlLatches, NEW y \in Nat
    PROVE  LET b == [e EXCEPT !.yield = y, !.probe = XlProbe] IN
           b \in XlLatches /\ b.hold = e.hold /\ b.sun = e.sun /\ b.power = e.power /\ b.yield = y
<1>1. XlProbe \in 0 .. XlProbe
  BY PeriodsPositive
<1> QED BY <1>1 DEF XlLatches

LEMMA YieldedTyped ==
    ASSUME NEW e \in XlLatches, NEW y \in Nat
    PROVE  LET b == [e EXCEPT !.yield = y] IN
           b \in XlLatches /\ b.hold = e.hold /\ b.sun = e.sun /\ b.power = e.power /\ b.yield = y
BY DEF XlLatches

LEMMA DrawsDoes ==
    ASSUME NEW e \in XlLatches, NEW s \in Opt(XlSuns), NEW p \in Opt(XlPowers), Drawing(p)
    PROVE  LET a == Draws(e, s, p) IN
           /\ a \in XlLatches
           /\ a.hold = XlHold
           /\ s = {} => a.sun = e.sun /\ a.power = e.power
           /\ s # {} /\ a.yield > 0 => a.sun = s /\ a.power = p
           /\ s # {} /\ a.yield = 0 /\ e.sun # {} /\ e.power # {} =>
                 /\ a.sun # {} /\ a.power # {}
                 /\ RefOf(a) <= RefOf(e) /\ RefOf(a) <= Margin(s, p)
                 /\ Margin(s, p) - RefOf(e) < XlStep
<1> DEFINE b == Begun(e, s, p)
           a == Draws(e, s, p)
<1> USE PeriodsPositive
<1>1. p # {}
  BY DEF Drawing
<1>2. /\ b \in XlLatches /\ b.hold = XlHold
      /\ s = {} => b.sun = e.sun /\ b.power = e.power
      /\ b.yield = 0 => e.was
      /\ e.was => b.sun = e.sun /\ b.power = e.power
  <2> DEFINE b0 == [e EXCEPT !.hold = XlHold, !.was = TRUE]
             b1 == [b0 EXCEPT !.yield = XlYield, !.probe = XlProbe]
  <2>1. b0 \in XlLatches /\ b0.hold = XlHold /\ b0.sun = e.sun /\ b0.power = e.power
    BY HeldTyped
  <2>2. b1 \in XlLatches /\ b1.hold = XlHold /\ b1.sun = e.sun /\ b1.power = e.power /\ b1.yield = XlYield
    <3> HIDE DEF b0
    <3> QED BY <2>1, ProbedTyped, PeriodsPositive
  <2>3. b = IF e.was THEN b0 ELSE IF s = {} THEN b1 ELSE Referenced(b1, s, p)
    BY DEF Begun
  <2>4. e.was \in BOOLEAN
    BY DEF XlLatches
  <2> HIDE DEF b0, b1, b
  <2>5. CASE e.was
    BY <2>1, <2>3, <2>5
  <2>6. CASE ~e.was /\ s = {}
    BY <2>2, <2>3, <2>6
  <2>7. CASE ~e.was /\ s # {}
    BY <2>2, <2>3, <2>7, ReferencedTyped
  <2> QED BY <2>4, <2>5, <2>6, <2>7
<1>3. a = IF s = {} THEN ByTimer(b) ELSE BySun(b, s, p)
  BY DEF Draws
<1> HIDE DEF a, b
<1>4. CASE s = {}
  <2>1. ByTimer(b) \in XlLatches /\ ByTimer(b).hold = b.hold /\ ByTimer(b).sun = b.sun /\ ByTimer(b).power = b.power
    <3>1. b \in XlLatches
      BY <1>2
    <3> DEFINE c == [b EXCEPT !.yield = XlReyield, !.probe = XlProbe]
    <3>2. c \in XlLatches /\ c.hold = b.hold /\ c.sun = b.sun /\ c.power = b.power
      BY <3>1, ProbedTyped, PeriodsPositive
    <3>3. ByTimer(b) = IF b.probe = 0 /\ b.yield = 0 THEN c ELSE b
      BY DEF ByTimer
    <3> HIDE DEF c
    <3> QED BY <3>1, <3>2, <3>3
  <2> QED BY <2>1, <1>2, <1>3, <1>4 DEF a
<1>5. CASE s # {}
  <2> DEFINE r == Referenced(b, s, p)
             y == Referenced([b EXCEPT !.yield = XlReyield], s, p)
  <2>1. r \in XlLatches /\ r.hold = b.hold /\ r.sun = s /\ r.power = p /\ r.yield = b.yield
    BY <1>1, <1>2, ReferencedTyped
  <2>2. y \in XlLatches /\ y.hold = b.hold /\ y.sun = s /\ y.power = p /\ y.yield = XlReyield
    <3> DEFINE c == [b EXCEPT !.yield = XlReyield]
    <3>1. c \in XlLatches /\ c.hold = b.hold /\ c.yield = XlReyield
      BY <1>2, YieldedTyped, PeriodsPositive
    <3> HIDE DEF c
    <3>2. y = Referenced(c, s, p)
      BY DEF c
    <3> HIDE DEF y
    <3> QED BY <3>1, <3>2, <1>1, ReferencedTyped
  <2> HIDE DEF r, y
  <2>3. a = IF Margin(s, p) < RefMargin(b, s, p) \/ b.yield > 0 THEN r
            ELSE IF Margin(s, p) - RefMargin(b, s, p) >= XlStep THEN y ELSE b
    BY <1>3, <1>5 DEF BySun, r, y
  <2>4. Margin(s, p) \in Int /\ s = {The(s)} /\ p = {The(p)}
    <3>1. The(s) \in XlSuns /\ The(p) \in XlPowers /\ s = {The(s)} /\ p = {The(p)}
      BY <1>1, <1>5, OptParts
    <3>2. The(s) \in Nat /\ The(p) \in Nat
      BY <3>1, XlAssumption
    <3> QED BY <3>1, <3>2 DEF Margin
  <2>5. b.yield \in Nat
    BY <1>2 DEF XlLatches
  <2>6. CASE b.yield > 0
    BY <1>2, <1>5, <2>1, <2>3, <2>5, <2>6 DEF a
  <2>7. CASE b.yield = 0
    <3>1. e.was /\ b.sun = e.sun /\ b.power = e.power
      BY <1>2, <2>7
    <3>2. e.sun # {} /\ e.power # {} => RefMargin(b, s, p) = RefOf(e) /\ RefOf(e) \in Int
      <4> SUFFICES ASSUME e.sun # {}, e.power # {} PROVE RefMargin(b, s, p) = RefOf(e) /\ RefOf(e) \in Int
        OBVIOUS
      <4>1. The(e.sun) \in Nat /\ The(e.power) \in Nat
        <5>1. e.sun \in Opt(XlSuns) /\ e.power \in Opt(XlPowers)
          BY DEF XlLatches
        <5> QED BY <5>1, OptParts, XlAssumption
      <4> QED BY <4>1, <3>1 DEF RefMargin, OrElse, RefOf
    <3>3. CASE a = r
      <4>1. RefOf(a) = Margin(s, p)
        BY <2>1, <3>3 DEF RefOf, Margin
      <4>2. a.yield = 0
        BY <2>1, <2>7, <3>3
      <4>3. e.sun # {} /\ e.power # {} /\ a = r => Margin(s, p) < RefOf(e) \/ a = y \/ a = b
        BY <2>3, <2>7, <3>2
      <4>4. CASE a = y
        BY <4>2, <4>4, <2>2
      <4>5. CASE a = b
        <5>1. a.sun = s /\ a.power = p /\ e.sun = s /\ e.power = p
          BY <4>5, <3>1, <3>3, <2>1
        <5>2. RefOf(e) = Margin(s, p)
          BY <5>1 DEF RefOf, Margin
        <5> QED BY <5>1, <5>2, <4>1, <4>2, <3>3, <2>1, <2>4, <1>2, <1>5, <1>1 DEF a
      <4>6. CASE a # b /\ a # y
        BY <4>1, <4>2, <4>3, <4>6, <3>2, <3>3, <2>1, <2>4, <1>1, <1>2, <1>5 DEF a
      <4> QED BY <4>4, <4>5, <4>6
    <3>4. CASE a = y
      BY <3>4, <2>2, <1>2, <1>5 DEF a
    <3>5. CASE a = b /\ a # r /\ a # y
      <4>1. ~(Margin(s, p) < RefMargin(b, s, p)) /\ ~(Margin(s, p) - RefMargin(b, s, p) >= XlStep)
        BY <2>3, <3>5
      <4>2. RefOf(a) = RefOf(e)
        BY <3>1, <3>5 DEF RefOf
      <4> QED BY <4>1, <4>2, <3>1, <3>2, <3>5, <2>4, <2>7, <1>2, <1>5 DEF a
    <3> QED BY <2>3, <3>3, <3>4, <3>5
  <2> QED BY <2>5, <2>6, <2>7
<1> QED BY <1>4, <1>5

LEMMA InHoldDoes ==
    ASSUME NEW e \in XlLatches, NEW s \in Opt(XlSuns), NEW p \in Opt(XlPowers)
    PROVE  InHold(e, s, p) \in XlLatches /\ InHold(e, s, p).hold = e.hold
<1> DEFINE stopped == [e EXCEPT !.was = FALSE, !.yield = IF e.was THEN XlYield ELSE @]
           b == IF e.was /\ s # {} THEN Referenced(stopped, s, p) ELSE stopped
           longer == IF b.yield > XlReyield THEN b.yield ELSE XlReyield
           y == [b EXCEPT !.yield = longer]
<1>1. stopped \in XlLatches /\ stopped.hold = e.hold
  <2>1. (IF e.was THEN XlYield ELSE e.yield) \in Nat
    BY PeriodsPositive DEF XlLatches
  <2> QED BY <2>1 DEF XlLatches
<1> HIDE DEF stopped
<1>2. b \in XlLatches /\ b.hold = e.hold
  BY <1>1, ReferencedTyped
<1>3. Referenced(b, s, p) \in XlLatches /\ Referenced(b, s, p).hold = e.hold
  <2> HIDE DEF b
  <2> QED BY <1>2, ReferencedTyped
<1>4. y \in XlLatches /\ y.hold = e.hold
  <2> HIDE DEF b
  <2>1. longer \in Nat
    BY <1>2, PeriodsPositive DEF XlLatches
  <2> HIDE DEF longer
  <2> QED BY <1>2, <2>1, YieldedTyped
<1>5. Referenced(y, s, p) \in XlLatches /\ Referenced(y, s, p).hold = e.hold
  <2> HIDE DEF y
  <2> QED BY <1>4, ReferencedTyped
<1>6. InHold(e, s, p) = IF s = {} THEN b
                        ELSE IF HoldRise(b, s, p) < 0 THEN Referenced(b, s, p)
                        ELSE IF HoldRise(b, s, p) >= XlStep THEN Referenced(y, s, p) ELSE b
  BY DEF InHold, stopped
<1> HIDE DEF b, y
<1> QED BY <1>2, <1>3, <1>5, <1>6

-----------------------------------------------------------------------------
(* The reference a latch holds is never above the lowest margin seen. *)
RefBelowLow ==
    \A d \in XlDevices : xlSeen.low[d] # {} =>
        /\ xlLatch[d].sun # {} /\ xlLatch[d].power # {}
        /\ RefOf(xlLatch[d]) <= The(xlSeen.low[d])

(* What is left of a restart hold is what its device has not yet been idle. *)
HoldCounts ==
    \A d \in XlDevices \ XlWithActivity : xlLatch[d].hold + xlSeen.since[d] = XlHold

(* The cycles a session has paused and those its pause has left. *)
PauseCounts ==
    IF xlEv.was THEN xlSeen.served + xlEv.left <= XlEvPause + 1 ELSE xlSeen.served = 0

XlInv ==
    /\ SunShared
    /\ xlSense \in XlSenses
    /\ xlSeen.low \in [XlDevices -> Opt(Int)]
    /\ xlSeen.since \in [XlDevices -> 0 .. XlHold]
    /\ xlSeen.served \in Nat
    /\ RefBelowLow
    /\ HoldCounts
    /\ PauseCounts

(* The latches, the status and the notes of a cycle, device by device. *)
LEMMA DeviceCycle ==
    ASSUME XlInv, NEW d \in XlDevices, RefreshDynamic, Noted
    PROVE  /\ xlLatch'[d] \in XlLatches
           /\ Lowest(d) \in Opt(Int) /\ Since(d) \in 0 .. XlHold
           /\ xlSeen'.rise[d] => d \in xlStatus'.blocked
           /\ xlSeen'.low[d] # {} => /\ xlLatch'[d].sun # {} /\ xlLatch'[d].power # {}
                                     /\ RefOf(xlLatch'[d]) <= The(xlSeen'.low[d])
           /\ d \notin XlWithActivity => xlLatch'[d].hold + xlSeen'.since[d] = XlHold
           /\ d \notin XlCover =>
                 (d \in xlStatus'.held <=>
                    /\ d \in xlSense.enabled
                    /\ \/ Drawing(xlSense.power[d])
                       \/ d \in XlWithActivity /\ xlSense.active[d]
                       \/ d \notin XlWithActivity /\ xlSeen'.since[d] < XlHold)
<1> DEFINE old == xlLatch[d]
           e == Ticked(old)
           s == xlSense.sun
           p == xlSense.power[d]
           low == xlSeen.low[d]
           new == LatchedDevice(d, e)
<1>1. old \in XlLatches
  BY DEF XlInv, SunShared, XlTypeOK, XlLatches
<1>2. e \in XlLatches /\ e.hold = Less(old.hold) /\ e.sun = old.sun /\ e.power = old.power
  <2> HIDE DEF old
  <2> QED BY <1>1, TickedTyped
<1>3. s \in Opt(XlSuns) /\ p \in Opt(XlPowers) /\ low \in Opt(Int) /\ xlSeen.since[d] \in 0 .. XlHold
  BY DEF XlInv, XlSenses
<1>4. low # {} => /\ old.sun # {} /\ old.power # {} /\ RefOf(old) <= The(low)
  BY DEF XlInv, RefBelowLow
<1>5. d \notin XlWithActivity => old.hold + xlSeen.since[d] = XlHold
  BY DEF XlInv, HoldCounts
<1>6. xlLatch'[d] = new
  BY DEF RefreshDynamic
<1>7. /\ d \in xlStatus'.blocked <=> \/ Phase(d, e) = "waiting"
                                     \/ Phase(d, e) \in {"drawing", "hold"} /\ new.yield > 0
      /\ d \in xlStatus'.held <=> Phase(d, e) \in {"drawing", "waiting", "hold"} /\ d \notin XlCover
  <2>1. d \in xlStatus'.blocked <=>
          d \in {c \in XlDevices :
                  \/ Phase(c, Ticked(xlLatch[c])) = "waiting"
                  \/ /\ Phase(c, Ticked(xlLatch[c])) \in {"drawing", "hold"}
                     /\ LatchedDevice(c, Ticked(xlLatch[c])).yield > 0}
    BY DEF RefreshDynamic
  <2>2. d \in xlStatus'.held <=>
          d \in {c \in XlDevices : /\ Phase(c, Ticked(xlLatch[c])) \in {"drawing", "waiting", "hold"}
                                  /\ c \notin XlCover}
    BY DEF RefreshDynamic
  <2> QED BY <2>1, <2>2
<1>8. /\ xlSeen'.low[d] = Lowest(d) /\ xlSeen'.since[d] = Since(d)
      /\ xlSeen'.rise[d] <=> /\ d \in xlSense.enabled /\ Drawing(p) /\ s # {} /\ low # {}
                             /\ Margin(s, p) - The(low) >= XlStep
  BY DEF Noted
<1>9. Phase(d, e) \in {"off", "drawing", "waiting", "hold", "idle"}
  BY DEF Phase
<1>10. Since(d) = IF d \notin xlSense.enabled THEN XlHold
                  ELSE IF Drawing(p) THEN 0
                  ELSE IF xlSeen.since[d] < XlHold THEN xlSeen.since[d] + 1 ELSE XlHold
  BY DEF Since
<1>11. Since(d) \in 0 .. XlHold
  BY <1>3, <1>10, PeriodsPositive
<1> HIDE DEF old, e, s, p, low, new
<1>12. RefOf(e) = RefOf(old)
  BY <1>2 DEF RefOf
<1>13. old.hold \in 0 .. XlHold
  BY <1>1 DEF XlLatches
<1>14. CASE Phase(d, e) = "drawing"
  <2>1. d \in xlSense.enabled /\ Drawing(p)
    BY <1>14 DEF Phase, p
  <2>2. new = Draws(e, s, p)
    BY <1>14 DEF LatchedDevice, new, s, p
  <2>3. /\ new \in XlLatches /\ new.hold = XlHold
        /\ s = {} => new.sun = e.sun /\ new.power = e.power
        /\ s # {} /\ new.yield > 0 => new.sun = s /\ new.power = p
        /\ s # {} /\ new.yield = 0 /\ e.sun # {} /\ e.power # {} =>
              /\ new.sun # {} /\ new.power # {}
              /\ RefOf(new) <= RefOf(e) /\ RefOf(new) <= Margin(s, p)
              /\ Margin(s, p) - RefOf(e) < XlStep
    BY <1>2, <1>3, <2>1, <2>2, DrawsDoes
  <2>4. new.yield \in Nat
    BY <2>3 DEF XlLatches
  <2>5. Since(d) = 0
    BY <1>10, <2>1
  <2>6. d \in xlStatus'.blocked <=> new.yield > 0
    BY <1>7, <1>14
  <2>7. Lowest(d) = IF s = {} THEN low
                    ELSE IF new.yield > 0 THEN {Margin(s, p)}
                    ELSE IF low # {} /\ Margin(s, p) < The(low) THEN {Margin(s, p)} ELSE low
    BY <2>1, <2>6 DEF Lowest, s, p, low
  <2>8. s # {} => Margin(s, p) \in Int
    <3> SUFFICES ASSUME s # {} PROVE Margin(s, p) \in Int
      OBVIOUS
    <3>1. The(s) \in XlSuns /\ The(p) \in XlPowers
      BY <1>3, <2>1, OptParts DEF Drawing
    <3>2. The(s) \in Nat /\ The(p) \in Nat
      BY <3>1, XlAssumption
    <3> QED BY <3>2 DEF Margin
  <2>9. Lowest(d) \in Opt(Int)
    BY <2>7, <2>8, <1>3, OptIn
  <2>10. p # {}
    BY <2>1 DEF Drawing
  <2>11. low # {} => The(low) \in Int /\ RefOf(e) \in Int
    <3> SUFFICES ASSUME low # {} PROVE The(low) \in Int /\ RefOf(e) \in Int
      OBVIOUS
    <3>1. The(low) \in Int
      BY <1>3, OptParts
    <3>2. e.sun # {} /\ e.power # {} /\ e.sun \in Opt(XlSuns) /\ e.power \in Opt(XlPowers)
      BY <1>2, <1>4 DEF XlLatches
    <3>3. The(e.sun) \in XlSuns /\ The(e.power) \in XlPowers
      BY <3>2, OptParts
    <3>4. The(e.sun) \in Nat /\ The(e.power) \in Nat
      BY <3>3, XlAssumption
    <3> QED BY <3>1, <3>4 DEF RefOf
  <2>12. xlSeen'.rise[d] => d \in xlStatus'.blocked
    <3> SUFFICES ASSUME s # {}, low # {}, Margin(s, p) - The(low) >= XlStep PROVE new.yield > 0
      BY <1>8, <2>6
    <3>1. e.sun # {} /\ e.power # {} /\ RefOf(e) <= The(low)
      BY <1>2, <1>4, <1>12
    <3>2. CASE new.yield = 0
      <4>1. Margin(s, p) - RefOf(e) < XlStep
        BY <2>3, <3>1, <3>2
      <4> QED BY <4>1, <3>1, <2>8, <2>11, PeriodsPositive
    <3> QED BY <2>4, <3>2
  <2>13. Lowest(d) # {} => /\ new.sun # {} /\ new.power # {} /\ RefOf(new) <= The(Lowest(d))
    <3>1. CASE s = {}
      <4>1. Lowest(d) = low /\ new.sun = e.sun /\ new.power = e.power /\ RefOf(new) = RefOf(e)
        BY <2>3, <2>7, <3>1 DEF RefOf
      <4> QED BY <4>1, <1>2, <1>4, <1>12
    <3>2. CASE s # {} /\ new.yield > 0
      <4>1. Lowest(d) = {Margin(s, p)} /\ new.sun = s /\ new.power = p
        BY <2>3, <2>7, <3>2
      <4>2. The(Lowest(d)) = Margin(s, p)
        BY <4>1, TheOnly
      <4>3. RefOf(new) = Margin(s, p)
        BY <4>1 DEF RefOf, Margin
      <4> QED BY <4>1, <4>2, <4>3, <2>8, <2>10, <3>2
    <3>3. CASE s # {} /\ new.yield = 0
      <4> SUFFICES ASSUME low # {}
                   PROVE  new.sun # {} /\ new.power # {} /\ RefOf(new) <= The(Lowest(d))
        BY <2>7, <3>3
      <4>1. /\ new.sun # {} /\ new.power # {}
            /\ RefOf(new) <= RefOf(e) /\ RefOf(new) <= Margin(s, p)
        BY <2>3, <3>3, <1>2, <1>4
      <4>2. RefOf(new) \in Int
        <5>1. new.sun \in Opt(XlSuns) /\ new.power \in Opt(XlPowers)
          BY <2>3 DEF XlLatches
        <5>2. The(new.sun) \in XlSuns /\ The(new.power) \in XlPowers
          BY <4>1, <5>1, OptParts
        <5>3. The(new.sun) \in Nat /\ The(new.power) \in Nat
          BY <5>2, XlAssumption
        <5> QED BY <5>3 DEF RefOf
      <4>3. RefOf(new) <= The(low)
        BY <4>1, <4>2, <1>4, <1>12, <2>11
      <4>4. Lowest(d) = IF Margin(s, p) < The(low) THEN {Margin(s, p)} ELSE low
        BY <2>7, <3>3
      <4> QED BY <4>1, <4>3, <4>4, TheOnly
    <3> QED BY <2>4, <3>1, <3>2, <3>3
  <2>14. XlHold > 0 /\ XlHold \in Nat
    BY PeriodsPositive
  <2> QED BY <1>6, <1>7, <1>8, <1>11, <1>14, <2>1, <2>3, <2>5, <2>9, <2>12, <2>13, <2>14 DEF p
<1>15. CASE Phase(d, e) # "drawing"
  <2>1. ~(d \in xlSense.enabled /\ Drawing(p))
    BY <1>15 DEF Phase, p
  <2>2. Lowest(d) = {}
    BY <2>1 DEF Lowest, p
  <2>3. Lowest(d) \in Opt(Int)
    BY <2>2 DEF Opt
  <2>4. ~xlSeen'.rise[d]
    BY <1>8, <2>1
  <2>5. new \in XlLatches /\ (d \notin XlWithActivity => new.hold + Since(d) = XlHold)
        /\ (d \notin XlCover =>
               (d \in xlStatus'.held <=>
                    /\ d \in xlSense.enabled
                    /\ \/ Drawing(p)
                       \/ d \in XlWithActivity /\ xlSense.active[d]
                       \/ d \notin XlWithActivity /\ Since(d) < XlHold))
    <3>1. CASE Phase(d, e) = "waiting"
      <4>1. new = [e EXCEPT !.was = FALSE]
        BY <3>1 DEF LatchedDevice, new
      <4>2. new \in XlLatches
        BY <4>1, <1>2 DEF XlLatches
      <4>3. d \in xlSense.enabled /\ d \in XlWithActivity /\ xlSense.active[d]
        BY <3>1 DEF Phase
      <4> QED BY <4>2, <4>3, <3>1, <1>7
    <3>2. CASE Phase(d, e) = "hold"
      <4>1. new = InHold(e, s, p)
        BY <3>2 DEF LatchedDevice, new, s, p
      <4>2. new \in XlLatches /\ new.hold = e.hold
        BY <4>1, <1>2, <1>3, InHoldDoes
      <4>3. d \in xlSense.enabled /\ d \notin XlWithActivity /\ e.hold > 0 /\ ~Drawing(p)
        BY <3>2 DEF Phase, p
      <4>4. e.hold = old.hold - 1 /\ xlSeen.since[d] < XlHold /\ Since(d) = xlSeen.since[d] + 1
        BY <4>3, <1>2, <1>3, <1>5, <1>10, <1>13, PeriodsPositive DEF Less
      <4>5. new.hold + Since(d) = XlHold /\ Since(d) < XlHold
        BY <4>2, <4>3, <4>4, <1>3, <1>5, <1>13, PeriodsPositive
      <4> QED BY <4>2, <4>3, <4>5, <3>2, <1>7
    <3>3. CASE Phase(d, e) \in {"off", "idle"}
      <4>1. new = NoLatch
        BY <3>3 DEF LatchedDevice, new
      <4>2. new \in XlLatches /\ new.hold = 0
        BY <4>1, NoLatchTyped DEF NoLatch
      <4>3. d \notin xlStatus'.held
        BY <3>3, <1>7
      <4>4. CASE d \notin xlSense.enabled
        <5>1. Since(d) = XlHold
          BY <1>10, <4>4
        <5> QED BY <5>1, <4>2, <4>3, <4>4, PeriodsPositive
      <4>5. CASE d \in xlSense.enabled
        <5>1. ~Drawing(p) /\ ~(d \in XlWithActivity /\ xlSense.active[d])
          BY <3>3, <4>5 DEF Phase, p
        <5>2. CASE d \in XlWithActivity
          BY <5>1, <5>2, <4>2, <4>3
        <5>3. CASE d \notin XlWithActivity
          <6>1. ~(e.hold > 0)
            BY <3>3, <4>5, <5>1, <5>3 DEF Phase, p
          <6>2. old.hold \in {0, 1}
            BY <6>1, <1>2, <1>13, PeriodsPositive DEF Less
          <6>3. Since(d) = XlHold
            BY <6>2, <5>1, <5>3, <4>5, <1>3, <1>5, <1>10, PeriodsPositive
          <6> QED BY <6>3, <4>2, <4>3, <5>1, <5>3, PeriodsPositive
        <5> QED BY <5>2, <5>3
      <4> QED BY <4>4, <4>5
    <3> QED BY <1>9, <1>15, <3>1, <3>2, <3>3
  <2> QED BY <1>6, <1>8, <1>11, <2>2, <2>3, <2>4, <2>5 DEF p
<1> QED BY <1>14, <1>15

LEMMA XlInitInv == XlInit => XlInv
<1> SUFFICES ASSUME XlInit PROVE XlInv
  OBVIOUS
<1>1. PICK p \in [XlDevices -> {{n} : n \in XlPowers}], s \in Opt(XlSuns), h \in XlHomes, v \in {"on", "off"} :
          xlSense = [power |-> p, active |-> [d \in XlDevices |-> FALSE],
                     enabled |-> XlDevices, sun |-> s, home |-> {h}, ev |-> v]
  BY DEF XlInit
<1>2. /\ xlLatch = [d \in XlDevices |-> NoLatch]
      /\ xlStatus = [blocked |-> {}, held |-> {}]
      /\ xlEv = [was |-> FALSE, left |-> 0, pause |-> FALSE, charging |-> FALSE]
      /\ xlClaim = [d \in XlDevices |-> 0]
      /\ xlSeen = [low |-> [d \in XlDevices |-> {}], since |-> [d \in XlDevices |-> XlHold],
                   rise |-> [d \in XlDevices |-> FALSE], served |-> 0,
                   at |-> [xlSense EXCEPT !.power = [d \in XlDevices |-> {}]]]
  BY DEF XlInit
<1>3. xlSense \in XlSenses
  <2>1. p \in [XlDevices -> Opt(XlPowers)] /\ {h} \in Opt(XlHomes)
    BY DEF Opt
  <2> QED BY <1>1, <2>1 DEF XlSenses
<1>4. XlTypeOK
  <2>1. xlLatch \in [XlDevices -> XlLatches]
    BY <1>2, NoLatchTyped
  <2>2. xlEv \in [was : BOOLEAN, left : 0 .. XlEvPause, pause : BOOLEAN, charging : BOOLEAN]
    BY <1>2, PeriodsPositive
  <2>3. xlClaim \in [XlDevices -> Nat] /\ xlStatus \in [blocked : SUBSET XlDevices, held : SUBSET XlDevices]
    BY <1>2
  <2> QED BY <2>1, <2>2, <2>3 DEF XlTypeOK, XlLatches
<1>5. xlSeen.low \in [XlDevices -> Opt(Int)] /\ xlSeen.since \in [XlDevices -> 0 .. XlHold] /\ xlSeen.served = 0
  <2>1. {} \in Opt(Int) /\ XlHold \in 0 .. XlHold
    BY PeriodsPositive DEF Opt
  <2> QED BY <1>2, <2>1
<1>6. RiseYields /\ RefBelowLow /\ PauseCounts /\ PausedOnce
  BY <1>2, PeriodsPositive DEF RiseYields, RefBelowLow, PauseCounts, PausedOnce
<1>7. HoldCounts
  <2>1. \A d \in XlDevices : xlLatch[d].hold = 0 /\ xlSeen.since[d] = XlHold
    BY <1>2 DEF NoLatch
  <2> QED BY <2>1, PeriodsPositive DEF HoldCounts
<1>8. HoldProtects
  <2> SUFFICES ASSUME NEW d \in XlDevices
               PROVE  /\ d \notin xlStatus.held /\ ~Drawing(xlSeen.at.power[d])
                      /\ ~xlSeen.at.active[d] /\ ~(xlSeen.since[d] < XlHold)
    BY DEF HoldProtects
  <2>1. xlSeen.at.power[d] = {} /\ xlSeen.at.active[d] = FALSE
    BY <1>1, <1>2
  <2> QED BY <1>2, <2>1, PeriodsPositive DEF Drawing
<1>9. SunSharedOnce
  <2> DEFINE at == xlSeen.at
             sun == Watts(at.sun)
             base == IF at.home = {} THEN sun ELSE AtLeastZero(The(at.home) - Total(PowersOf(at)))
             own == [d \in XlDevices |-> IF d \in XlCover THEN 0 ELSE xlClaim[d]]
             zero == [d \in XlDevices |-> 0]
  <2>1. own = zero /\ xlClaim = zero
    BY <1>2
  <2>2. Total(zero) = 0
    <3>1. zero \in [XlDevices -> Nat] /\ \A i \in XlDevices : zero[i] = 0
      OBVIOUS
    <3> HIDE DEF zero
    <3> DEFINE g == SumTo(zero)
               T == {k \in 0 .. ListLen : g[k] = 0}
    <3>2. g[0] = 0 /\ (\A i \in XlDevices : g[i] = g[i - 1] + zero[i])
      BY <3>1, SumToStep
    <3> HIDE DEF g
    <3>3. 0 \in T
      BY <3>2, ListLenIsNat
    <3>4. ASSUME NEW k \in 0 .. ListLen - 1, k \in T PROVE k + 1 \in T
      <4>1. k + 1 \in XlDevices /\ (k + 1) - 1 = k /\ k + 1 \in 0 .. ListLen
        BY ListLenIsNat
      <4> QED BY <3>1, <3>2, <3>4, <4>1
    <3>5. \A k \in 0 .. ListLen : k \in T
      <4> HIDE DEF T
      <4> QED BY <3>3, <3>4, Climbs, ListLenIsNat
    <3>6. g[ListLen] = 0
      BY <3>5, ListLenIsNat
    <3> QED BY <3>6 DEF Total, ListLen, g
  <2>3. sun \in Nat
    <3>1. at.sun = xlSense.sun /\ xlSense.sun \in Opt(XlSuns)
      BY <1>1, <1>2
    <3> QED BY <3>1, OptWiden, WattsNat, XlAssumption
  <2>4. 0 <= AtLeastZero(sun - base)
    <3>1. base \in Int
      <4>1. CASE at.home = {}
        BY <2>3, <4>1
      <4>2. CASE at.home # {}
        <5>1. at.home = {h}
          BY <1>1, <1>2
        <5>2. PowersOf(at) = zero
          <6>1. \A d \in XlDevices : at.power[d] = {}
            BY <1>1, <1>2
          <6> HIDE DEF at
          <6> QED BY <6>1 DEF PowersOf, Watts, OrElse
        <5>3. The(at.home) = h /\ h \in Nat
          BY <5>1, TheOnly, XlAssumption
        <5> HIDE DEF at, zero
        <5>4. AtLeastZero(The(at.home) - Total(PowersOf(at))) \in Int
          BY <5>2, <5>3, <2>2 DEF AtLeastZero
        <5> QED BY <4>2, <5>4
      <4> QED BY <4>1, <4>2
    <3> HIDE DEF sun, base
    <3> QED BY <2>3, <3>1 DEF AtLeastZero
  <2> HIDE DEF zero
  <2>5. Total(xlClaim) <= sun /\ Total(own) <= AtLeastZero(sun - base)
    <3> HIDE DEF sun, base, own
    <3> QED BY <2>1, <2>2, <2>3, <2>4
  <2> HIDE DEF sun, base, own
  <2> QED BY <2>5 DEF SunSharedOnce, sun, base, own, at
<1> QED BY <1>3, <1>4, <1>5, <1>6, <1>7, <1>8, <1>9 DEF XlInv, SunShared

LEMMA PauseCycle ==
    ASSUME XlInv, EvCheck, Noted
    PROVE  /\ xlEv' \in [was : BOOLEAN, left : 0 .. XlEvPause, pause : BOOLEAN, charging : BOOLEAN]
           /\ xlSeen'.served \in Nat /\ xlSeen'.served <= XlEvPause
           /\ IF xlEv'.was THEN xlSeen'.served + xlEv'.left <= XlEvPause + 1 ELSE xlSeen'.served = 0
<1> DEFINE on == EvRead
           left == IF on /\ ~xlEv.was THEN XlEvPause ELSE IF on THEN Less(xlEv.left) ELSE 0
           pause == xlSense.ev # "na" /\ left > 0
<1>1. xlEv.was \in BOOLEAN /\ xlEv.left \in 0 .. XlEvPause
  BY DEF XlInv, SunShared, XlTypeOK
<1>2. xlSeen.served \in Nat /\ xlSeen.served <= XlEvPause
  BY DEF XlInv, SunShared, PausedOnce
<1>3. IF xlEv.was THEN xlSeen.served + xlEv.left <= XlEvPause + 1 ELSE xlSeen.served = 0
  BY DEF XlInv, PauseCounts
<1>4. on \in BOOLEAN /\ (xlSense.ev = "off" => ~on) /\ (xlSense.ev = "na" => (on <=> xlEv.was))
      /\ (xlSense.ev = "on" => on) /\ xlSense.ev \in {"on", "off", "na"}
  BY <1>1 DEF EvRead, XlInv, XlSenses
<1> HIDE DEF on
<1>5. left \in 0 .. XlEvPause
  BY <1>1, <1>4, PeriodsPositive DEF Less
<1>6. xlEv' = [was |-> on, left |-> left, pause |-> pause, charging |-> xlSense.ev = "on" /\ left = 0]
  BY DEF EvCheck, on
<1>7. xlEv'.was = on /\ xlEv'.left = left /\ (xlEv'.pause <=> pause)
  BY <1>6
<1>8. xlSeen'.served = IF xlSense.ev = "off" THEN 0
                       ELSE IF pause /\ xlSeen.served <= XlEvPause THEN xlSeen.served + 1 ELSE xlSeen.served
  BY <1>7 DEF Noted
<1>9. xlEv' \in [was : BOOLEAN, left : 0 .. XlEvPause, pause : BOOLEAN, charging : BOOLEAN]
  BY <1>4, <1>5, <1>6
<1>10. CASE ~on
  <2>1. xlSeen'.served = 0
    <3>1. left = 0
      BY <1>10
    <3>2. ~pause
      BY <3>1
    <3>3. xlSense.ev = "off" \/ ~xlEv.was
      BY <1>4, <1>10
    <3> HIDE DEF left, pause
    <3> QED BY <3>2, <3>3, <1>3, <1>8
  <2> QED BY <2>1, <1>7, <1>9, <1>10, PeriodsPositive
<1>11. CASE on
  <2>1. xlSense.ev # "off"
    BY <1>4, <1>11
  <2>2. CASE ~xlEv.was
    <3>1. left = XlEvPause /\ xlSeen.served = 0
      BY <1>3, <1>11, <2>2
    <3>2. xlSeen'.served \in {0, 1}
      BY <1>8, <2>1, <3>1
    <3> QED BY <3>1, <3>2, <1>7, <1>9, PeriodsPositive
  <2>3. CASE xlEv.was
    <3>1. left = Less(xlEv.left) /\ xlSeen.served + xlEv.left <= XlEvPause + 1
      BY <1>3, <1>11, <2>3
    <3>2. CASE pause
      <4>1. left = xlEv.left - 1 /\ left > 0
        BY <3>1, <3>2, <1>1, PeriodsPositive DEF Less
      <4>2. xlSeen'.served = xlSeen.served + 1
        BY <1>8, <1>2, <2>1, <3>2
      <4> HIDE DEF left
      <4> QED BY <4>1, <4>2, <3>1, <1>1, <1>2, <1>5, <1>7, <1>9, <1>11, PeriodsPositive
    <3>3. CASE ~pause
      <4>1. left <= xlEv.left
        BY <3>1, <1>1, PeriodsPositive DEF Less
      <4>2. xlSeen'.served = xlSeen.served
        BY <1>8, <2>1, <3>3
      <4> HIDE DEF left
      <4> QED BY <4>1, <4>2, <3>1, <1>1, <1>2, <1>5, <1>7, <1>9, <1>11, PeriodsPositive
    <3> QED BY <3>2, <3>3
  <2> QED BY <1>1, <2>2, <2>3
<1> QED BY <1>4, <1>10, <1>11

LEMMA XlCycleInv == XlInv /\ XlCycle => XlInv'
<1> SUFFICES ASSUME XlInv, XlCycle PROVE XlInv'
  OBVIOUS
<1>1. EvCheck /\ RefreshDynamic /\ Noted /\ xlClaim' = Claims /\ xlSense' = xlSense
  BY DEF XlCycle
<1>2. xlSense \in XlSenses
  BY DEF XlInv
<1>3. ASSUME NEW d \in XlDevices
      PROVE  /\ xlLatch'[d] \in XlLatches
             /\ Lowest(d) \in Opt(Int) /\ Since(d) \in 0 .. XlHold
             /\ xlSeen'.rise[d] => d \in xlStatus'.blocked
             /\ xlSeen'.low[d] # {} => /\ xlLatch'[d].sun # {} /\ xlLatch'[d].power # {}
                                       /\ RefOf(xlLatch'[d]) <= The(xlSeen'.low[d])
             /\ d \notin XlWithActivity => xlLatch'[d].hold + xlSeen'.since[d] = XlHold
             /\ d \notin XlCover =>
                   (d \in xlStatus'.held <=>
                      /\ d \in xlSense.enabled
                      /\ \/ Drawing(xlSense.power[d])
                         \/ d \in XlWithActivity /\ xlSense.active[d]
                         \/ d \notin XlWithActivity /\ xlSeen'.since[d] < XlHold)
  BY <1>1, DeviceCycle
<1>4. /\ xlEv' \in [was : BOOLEAN, left : 0 .. XlEvPause, pause : BOOLEAN, charging : BOOLEAN]
      /\ xlSeen'.served \in Nat /\ xlSeen'.served <= XlEvPause
      /\ IF xlEv'.was THEN xlSeen'.served + xlEv'.left <= XlEvPause + 1 ELSE xlSeen'.served = 0
  BY <1>1, PauseCycle
<1>5. /\ xlSeen'.low = [d \in XlDevices |-> Lowest(d)]
      /\ xlSeen'.since = [d \in XlDevices |-> Since(d)]
      /\ xlSeen'.at = xlSense
  BY <1>1 DEF Noted
<1>6. xlSeen'.low \in [XlDevices -> Opt(Int)] /\ xlSeen'.since \in [XlDevices -> 0 .. XlHold]
  BY <1>3, <1>5
<1>7. xlLatch' \in [XlDevices -> XlLatches]
  <2>1. xlLatch' = [d \in XlDevices |-> LatchedDevice(d, Ticked(xlLatch[d]))]
    BY <1>1 DEF RefreshDynamic
  <2> QED BY <2>1, <1>3
<1>8. xlStatus' \in [blocked : SUBSET XlDevices, held : SUBSET XlDevices]
  BY <1>1 DEF RefreshDynamic
<1>9. Claims \in [XlDevices -> Nat] /\ Total(Claims) <= Watts(xlSense.sun)
      /\ Total([d \in XlDevices |-> IF d \in XlCover THEN 0 ELSE Claims[d]]) <= OrElse(Surplus, 0)
  BY <1>2, GivenOnce
<1>10. XlTypeOK'
  BY <1>1, <1>4, <1>7, <1>8, <1>9 DEF XlTypeOK, XlLatches
<1>11. RiseYields' /\ RefBelowLow' /\ HoldCounts'
  BY <1>3 DEF RiseYields, RefBelowLow, HoldCounts, RefOf
<1>12. HoldProtects'
  BY <1>3, <1>5 DEF HoldProtects
<1>13. SunSharedOnce'
  <2> DEFINE sun == Watts(xlSense.sun)
             base == IF xlSense.home = {} THEN sun ELSE AtLeastZero(The(xlSense.home) - Total(PowersOf(xlSense)))
             own == [d \in XlDevices |-> IF d \in XlCover THEN 0 ELSE Claims[d]]
  <2>1. sun \in Nat
    <3>1. xlSense.sun \in Opt(XlSuns)
      BY <1>2 DEF XlSenses
    <3> QED BY <3>1, OptWiden, WattsNat, XlAssumption
  <2>2. OrElse(Surplus, 0) = AtLeastZero(sun - base)
    <3>1. CASE xlSense.home = {}
      <4>1. base = sun /\ Surplus = {}
        BY <3>1 DEF Surplus
      <4> HIDE DEF base, sun
      <4> QED BY <4>1, <2>1 DEF OrElse, AtLeastZero
    <3>2. CASE xlSense.home # {}
      <4>1. Surplus = {AtLeastZero(sun - base)}
        BY <3>2 DEF Surplus, IncludedPower
      <4> HIDE DEF base, sun
      <4> QED BY <4>1, TheOnly DEF OrElse
    <3> QED BY <3>1, <3>2
  <2>3. Total(Claims) <= sun /\ Total(own) <= AtLeastZero(sun - base)
    <3> HIDE DEF base
    <3> QED BY <1>9, <2>2
  <2>4. xlSeen'.at = xlSense /\ xlClaim' = Claims
    BY <1>1, <1>5
  <2>5. SunSharedOnce' <=> Total(Claims) <= sun /\ Total(own) <= AtLeastZero(sun - base)
    BY <2>4 DEF SunSharedOnce, PowersOf, Total, SumTo
  <2> QED BY <2>3, <2>5
<1>14. PausedOnce' /\ PauseCounts'
  BY <1>4 DEF PausedOnce, PauseCounts
<1> QED BY <1>1, <1>2, <1>4, <1>6, <1>10, <1>11, <1>12, <1>13, <1>14 DEF XlInv, SunShared, XlSenses

(* Nothing but a cycle reads the sensors. *)
LEMMA XlMovesInv ==
    ASSUME XlInv, NEW sense \in XlSenses, Moves(sense)
    PROVE  XlInv'
BY DEF XlInv, Moves, SunShared, XlTypeOK, RiseYields, HoldProtects, SunSharedOnce, PausedOnce,
       RefBelowLow, HoldCounts, PauseCounts, XlSenses

LEMMA XlNextInv == XlInv /\ [XlNext]_xlVars => XlInv'
<1> SUFFICES ASSUME XlInv, [XlNext]_xlVars PROVE XlInv'
  OBVIOUS
<1>1. xlSense \in XlSenses
  BY DEF XlInv
<1>2. CASE XlCycle
  BY <1>2, XlCycleInv
<1>3. CASE SunMoves
  <2>1. PICK s \in Opt(XlSuns) : Moves([xlSense EXCEPT !.sun = s])
    BY <1>3 DEF SunMoves
  <2>2. [xlSense EXCEPT !.sun = s] \in XlSenses
    BY <1>1 DEF XlSenses
  <2> QED BY <2>1, <2>2, XlMovesInv
<1>4. CASE HomeMoves
  <2>1. PICK h \in Opt(XlHomes) : Moves([xlSense EXCEPT !.home = h])
    BY <1>4 DEF HomeMoves
  <2>2. [xlSense EXCEPT !.home = h] \in XlSenses
    BY <1>1 DEF XlSenses
  <2> QED BY <2>1, <2>2, XlMovesInv
<1>5. CASE EvMoves
  <2>1. PICK v \in {"on", "off", "na"} : Moves([xlSense EXCEPT !.ev = v])
    BY <1>5 DEF EvMoves
  <2>2. [xlSense EXCEPT !.ev = v] \in XlSenses
    BY <1>1 DEF XlSenses
  <2> QED BY <2>1, <2>2, XlMovesInv
<1>6. ASSUME NEW d \in XlDevices, PowerMoves(d) PROVE XlInv'
  <2>1. PICK p \in Opt(XlPowers) : Moves([xlSense EXCEPT !.power[d] = p])
    BY <1>6 DEF PowerMoves
  <2>2. [xlSense EXCEPT !.power[d] = p] \in XlSenses
    BY <1>1 DEF XlSenses
  <2> QED BY <2>1, <2>2, XlMovesInv
<1>7. ASSUME NEW d \in XlDevices, ActivityMoves(d) PROVE XlInv'
  <2>1. Moves([xlSense EXCEPT !.active[d] = ~@])
    BY <1>7 DEF ActivityMoves
  <2>2. [xlSense EXCEPT !.active[d] = ~@] \in XlSenses
    BY <1>1 DEF XlSenses
  <2> QED BY <2>1, <2>2, XlMovesInv
<1>8. ASSUME NEW d \in XlDevices, DeviceSwitched(d) PROVE XlInv'
  <2>1. Moves([xlSense EXCEPT !.enabled = IF d \in @ THEN @ \ {d} ELSE @ \cup {d}])
    BY <1>8 DEF DeviceSwitched
  <2>2. [xlSense EXCEPT !.enabled = IF d \in @ THEN @ \ {d} ELSE @ \cup {d}] \in XlSenses
    BY <1>1 DEF XlSenses
  <2> QED BY <2>1, <2>2, XlMovesInv
<1>9. CASE UNCHANGED xlVars
  BY <1>9 DEF XlInv, xlVars, SunShared, XlTypeOK, RiseYields, HoldProtects, SunSharedOnce, PausedOnce,
              RefBelowLow, HoldCounts, PauseCounts, XlSenses
<1> QED BY <1>2, <1>3, <1>4, <1>5, <1>6, <1>7, <1>8, <1>9 DEF XlNext

(* The devices and the battery share the sun as promised, for any list, any     *)
(* periods and any readings: a rise of the margin gives a device room, no       *)
(* discharge goes into a device that does not cover the house, the sun is given *)
(* once, and a charger's session pauses the battery once                        *)
(* (external_loads.py:155-378, 434-548, 793-848).                               *)
THEOREM SharingCorrect == XlSpec => []SunShared
<1>1. XlInv => SunShared
  BY DEF XlInv
<1> QED BY <1>1, XlInitInv, XlNextInv, PTL DEF XlSpec

=============================================================================
