----------------------------- MODULE DomainMove -----------------------------
(***************************************************************************)
(* The move of an entry to the new domain (domain_migration.py) and the restore  *)
(* of a deleted one from the side copy (config_backup.py).  Each await is a step,  *)
(* Home Assistant may be killed between two of them and the dialog opened again.     *)
(* Entry 0 is the legacy one, the others are made in turn.  Counters are "kept" or     *)
(* "reset".                                                                              *)
(***************************************************************************)
EXTENDS Integers, FiniteSets

CONSTANTS
    DmEntities, \* the registered entities
    DmMaxNew,   \* bound: entries made
    DmMaxKills  \* bound: restarts and deletions

ASSUME DmAssumption == DmMaxNew \in Nat \ {0} /\ DmMaxKills \in Nat

VARIABLES
    dmEntry, \* each entry: none, disabled, off (enabled, not loaded) or on
    dmStep,  \* where the migration or the restore is
    dmNew,   \* the entry it makes
    dmOwner, \* each entity's entry; -1: no longer registered
    dmShown, \* entities that have a state
    dmFiles, \* each entry's store files
    dmMem,   \* each loaded entry's counters
    dmCopy,  \* the entry the side copy describes
    dmMoved, \* entries the migration finished
    dmGone,  \* the user deleted the integration
    dmLeft   \* the bound's budget

dmVars == <<dmEntry, dmStep, dmNew, dmOwner, dmShown, dmFiles, dmMem, dmCopy, dmMoved, dmGone, dmLeft>>

Entries == 0..DmMaxNew

DmTypeOK ==
    /\ dmEntry \in [Entries -> {"none", "disabled", "off", "on"}] /\ dmNew \in Entries
    /\ dmStep \in {"idle", "unloaded", "added", "pointed", "removed", "copied", "restoring"}
    /\ dmOwner \in [DmEntities -> Entries \cup {-1}] /\ dmShown \subseteq DmEntities
    /\ dmFiles \in [Entries -> {"none", "kept", "reset"}] /\ dmMem \in [Entries -> {"none", "kept", "reset"}]
    /\ dmCopy \in Entries /\ dmMoved \subseteq Entries
    /\ dmGone \in BOOLEAN /\ dmLeft \in 0..DmMaxKills

---------------------------------------------------------------------------
(* An entry that loads reads its files and starts from zero without them; the side copy is written *)
Loaded1(e) == IF dmFiles[e] = "kept" THEN "kept" ELSE "reset"

(* Step 1: the legacy entry is unloaded; its entities keep a placeholder state *)
MoveUnloads ==
    /\ dmStep = "idle" /\ dmEntry[0] \in {"on", "off"} /\ dmNew < DmMaxNew
    /\ dmStep' = "unloaded"
    /\ dmEntry' = [dmEntry EXCEPT ![0] = "off"]
    /\ dmFiles' = IF dmEntry[0] = "on" THEN [dmFiles EXCEPT ![0] = dmMem[0]] ELSE dmFiles
    /\ dmMem' = [dmMem EXCEPT ![0] = "none"]
    /\ UNCHANGED <<dmNew, dmOwner, dmShown, dmCopy, dmMoved, dmGone, dmLeft>>
(* Step 2: its mirror is added, disabled *)
Mirrored == "disabled"
MoveAdds ==
    /\ dmStep = "unloaded"
    /\ dmStep' = "added" /\ dmNew' = dmNew + 1
    /\ dmEntry' = [dmEntry EXCEPT ![dmNew + 1] = Mirrored]
    /\ UNCHANGED <<dmOwner, dmShown, dmFiles, dmMem, dmCopy, dmMoved, dmGone, dmLeft>>
\* Mutant of Pointed: an entity whose state is shown is not moved.
PointedAsShown(owner, shown) == [x \in DmEntities |-> IF owner[x] = 0 /\ x \notin shown THEN dmNew ELSE owner[x]]
(* Step 3: the registry entries are re-pointed; Home Assistant moves only an entity without a state,
   so the placeholder is dropped first *)
Pointed(owner, shown) == [x \in DmEntities |-> IF owner[x] = 0 THEN dmNew ELSE owner[x]]
MovePoints ==
    /\ dmStep = "added"
    /\ dmStep' = "pointed"
    /\ dmOwner' = Pointed(dmOwner, dmShown)
    /\ dmShown' = {x \in dmShown : dmOwner[x] # 0}
    /\ UNCHANGED <<dmEntry, dmNew, dmFiles, dmMem, dmCopy, dmMoved, dmGone, dmLeft>>
(* Step 4: the legacy entry is removed, and with it the entities it still owns *)
MoveRemoves ==
    /\ dmStep = "pointed"
    /\ dmStep' = "removed"
    /\ dmEntry' = [dmEntry EXCEPT ![0] = "none"]
    /\ dmOwner' = [x \in DmEntities |-> IF dmOwner[x] = 0 THEN -1 ELSE dmOwner[x]]
    /\ UNCHANGED <<dmNew, dmShown, dmFiles, dmMem, dmCopy, dmMoved, dmGone, dmLeft>>
(* Step 4b: its files are copied to the new entry's names, never over a file that is there *)
Carried(files, from, to) == IF files[to] = "none" THEN [files EXCEPT ![to] = files[from]] ELSE files
MoveCopies ==
    /\ dmStep = "removed"
    /\ dmStep' = "copied"
    /\ dmFiles' = Carried(dmFiles, 0, dmNew)
    /\ UNCHANGED <<dmEntry, dmNew, dmOwner, dmShown, dmMem, dmCopy, dmMoved, dmGone, dmLeft>>
(* Step 5: the new entry is enabled and loads; its set-up writes the side copy *)
MoveEnables ==
    /\ dmStep = "copied"
    /\ dmStep' = "idle"
    /\ dmEntry' = [dmEntry EXCEPT ![dmNew] = "on"] /\ dmMem' = [dmMem EXCEPT ![dmNew] = Loaded1(dmNew)]
    /\ dmShown' = dmShown \cup {x \in DmEntities : dmOwner[x] = dmNew}
    /\ dmMoved' = dmMoved \cup {dmNew} /\ dmCopy' = dmNew
    /\ UNCHANGED <<dmNew, dmOwner, dmFiles, dmGone, dmLeft>>

(* An entry saves its counters *)
DmSave(e) ==
    /\ dmEntry[e] = "on" /\ dmFiles' = [dmFiles EXCEPT ![e] = dmMem[e]]
    /\ UNCHANGED <<dmEntry, dmStep, dmNew, dmOwner, dmShown, dmMem, dmCopy, dmMoved, dmGone, dmLeft>>
(* Home Assistant is killed and starts again: enabled entries load, the dialog is forgotten *)
DmRestart ==
    /\ dmLeft > 0 /\ dmLeft' = dmLeft - 1
    /\ dmStep' = "idle"
    /\ dmEntry' = [e \in Entries |-> IF dmEntry[e] = "off" THEN "on" ELSE dmEntry[e]]
    /\ dmMem' = [e \in Entries |-> IF dmEntry'[e] = "on" THEN Loaded1(e) ELSE "none"]
    /\ dmShown' = {x \in DmEntities : dmOwner[x] # -1}
    /\ UNCHANGED <<dmNew, dmOwner, dmFiles, dmCopy, dmMoved, dmGone>>
(* The user deletes the integration: entries and entities go, store files stay *)
DmDelete ==
    /\ dmStep = "idle" /\ dmLeft > 0 /\ dmLeft' = dmLeft - 1 /\ \E e \in Entries : dmEntry[e] = "on"
    /\ dmFiles' = [e \in Entries |-> IF dmEntry[e] = "on" THEN dmMem[e] ELSE dmFiles[e]]
    /\ dmEntry' = [e \in Entries |-> "none"] /\ dmMem' = [e \in Entries |-> "none"]
    /\ dmOwner' = [x \in DmEntities |-> -1] /\ dmShown' = {} /\ dmGone' = TRUE
    /\ UNCHANGED <<dmStep, dmNew, dmCopy, dmMoved>>
(* async_restore_config_backup(): with nothing left the entry is added enabled, so it loads at once *)
RestoreAdds ==
    /\ dmStep = "idle" /\ \A e \in Entries : dmEntry[e] = "none"
    /\ dmNew < DmMaxNew
    /\ dmStep' = "restoring" /\ dmNew' = dmNew + 1
    /\ dmEntry' = [dmEntry EXCEPT ![dmNew + 1] = "on"]
    /\ dmMem' = [dmMem EXCEPT ![dmNew + 1] = Loaded1(dmNew + 1)]
    /\ dmOwner' = [x \in DmEntities |-> dmNew + 1] /\ dmShown' = DmEntities
    /\ UNCHANGED <<dmFiles, dmCopy, dmMoved, dmGone, dmLeft>>
(* then the files of the deleted entry are copied to its names *)
RestoreCopies ==
    /\ dmStep = "restoring"
    /\ dmStep' = "idle"
    /\ dmFiles' = Carried(dmFiles, dmCopy, dmNew)
    /\ dmCopy' = dmNew
    /\ UNCHANGED <<dmEntry, dmNew, dmOwner, dmShown, dmMem, dmMoved, dmGone, dmLeft>>

DmInit ==
    /\ dmEntry = [e \in Entries |-> IF e = 0 THEN "on" ELSE "none"] /\ dmStep = "idle" /\ dmNew = 0
    /\ dmOwner = [x \in DmEntities |-> 0] /\ dmShown \in SUBSET DmEntities
    /\ dmFiles = [e \in Entries |-> IF e = 0 THEN "kept" ELSE "none"]
    /\ dmMem = [e \in Entries |-> IF e = 0 THEN "kept" ELSE "none"]
    /\ dmCopy = 0 /\ dmMoved = {} /\ dmGone = FALSE /\ dmLeft = DmMaxKills
DmNext ==
    \/ MoveUnloads \/ MoveAdds \/ MovePoints \/ MoveRemoves \/ MoveCopies \/ MoveEnables
    \/ (\E e \in Entries : DmSave(e)) \/ DmRestart \/ DmDelete \/ RestoreAdds \/ RestoreCopies
DmSpec == DmInit /\ [][DmNext]_dmVars

---------------------------------------------------------------------------
(* However often the migration is cut short and run again, two entries never drive the same
   batteries: the legacy one and a mirror of it, or two mirrors *)
OneController == Cardinality({e \in Entries : dmEntry[e] = "on"}) <= 1

(* Only the user's own deletion unregisters an entity: history stays attached across the move *)
EntitiesKept == dmGone \/ \A x \in DmEntities : dmOwner[x] # -1

(* An entry the migration brought up goes on with the counters of the legacy one, also after
   restarts *)
StoresFollow == \A e \in dmMoved : dmMem[e] # "reset"

(* The move loses nothing and doubles nothing, wherever it is cut off: one controller, every entity
   registered, the counters carried on *)
MoveSound ==
    /\ DmTypeOK
    /\ OneController
    /\ EntitiesKept
    /\ StoresFollow
=============================================================================
