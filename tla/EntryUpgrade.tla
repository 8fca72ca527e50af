---------------------------- MODULE EntryUpgrade -----------------------------
(* Bringing an older installation up to date (__init__.py): async_migrate_entry *)
(* rewrites entity registry and entry data from version 1 to 16, and            *)
(* _async_migrate_legacy_active_balance takes a battery over from the balance   *)
(* runner of an earlier release, which may have left its charge cutoff raised.  *)
(*                                                                              *)
(* The migration itself suspends nowhere, but Home Assistant writes registry    *)
(* and entries to disk later, each in its own time; after a kill the old        *)
(* version of the entry may meet a registry that is new already.  Entities are  *)
(* modelled by what the steps look at: unique id, entity id, whether the device *)
(* is known, who disabled it.                                                   *)
EXTENDS Integers, FiniteSets

CONSTANTS
    EuVersions,  \* versions an installation may come from
    EuMaxUpsets  \* bound on kills and failed writes

ASSUME EuAssumption == EuVersions \subseteq 1 .. 15 /\ EuMaxUpsets \in Nat

VARIABLES
    euVer, euReg,  \* version of the entry and the registry: family -> entities
    euDisk,        \* both as they are on disk
    euWas,         \* history: the registry before the upgrade
    euMode,        \* predictive_charging_mode
    euPhase,       \* "start", "migrated", "up"
    euRec,         \* the legacy record in the entry: "none", "stale", "running"
    euManual,      \* battery_manual_mode_enabled, in the entry
    euRaised,      \* the battery's cutoff is still the runner's 100 %
    euStep,        \* the handoff: "idle", "taken", "restored", "released", "over"
    euTook,        \* acquired_manual
    euBegun,       \* history: a handoff was begun
    euUpsets

euVars == <<euVer, euReg, euDisk, euWas, euMode, euPhase, euRec, euManual, euRaised, euStep,
            euTook, euBegun, euUpsets>>

Newest == 16
Families == {"battery", "cell", "home", "system", "control", "removed"}

Ent(uid, eid, bound, off) == [uid |-> uid, eid |-> eid, bound |-> bound, off |-> off]
Live(uid, eid) == Ent(uid, eid, TRUE, "no")

(* The registries an installation of this version can have. *)
Registries(v) ==
    [battery : {{Live(IF v < 2 THEN "host" ELSE "host_port", "b")}},
     cell : {{Ent("cell", "c", TRUE, o)} : o \in IF v < 5 THEN {"integration", "user"} ELSE {"no", "user"}},
     home : IF v < 7 THEN {{Live("double", "double")}, {Live("double", "single")}}
            ELSE {{Live("single", "single")}},
     system : IF v >= 9 THEN {{Live("stable", "k")}}
              ELSE {{Live("own", "k")}, {Live("former", "k")},
                    {Ent("former", "k", FALSE, "no"), Live("own", "k_2")}},
     control : IF v >= 13 THEN {{Live("merged", "x")}}
               ELSE {{}, {Live("dp", "dp")}, {Live("dp", "dp"), Live("rt", "rt")}},
     removed : {{Live("knob", "n")}}]

-----------------------------------------------------------------------------

(* v2: the port goes into the unique ids that do not have it. *)
Ported(es) == {[e EXCEPT !.uid = IF @ = "host" THEN "host_port" ELSE @] : e \in es}

(* v5: sensors the integration had disabled; the user's own choice stays. *)
Enabled(es) == {[e EXCEPT !.off = IF @ = "integration" THEN "no" ELSE @] : e \in es}

(* v7: one "system" less, in the unique id and, if it is free, the entity id. *)
HomeFixed(es) ==
    LET free == \A e \in es : e.eid # "single"
    IN  {[e EXCEPT !.uid = "single", !.eid = IF @ = "double" /\ free THEN "single" ELSE @] : e \in es}

FirstOf(S) == CHOOSE e \in S : TRUE

(* v9: which of the candidates of a key is kept. *)
Keeper(cands) ==
    LET bound == {e \in cands : e.bound}
        own == {e \in cands : e.uid = "own"}
    IN  FirstOf(IF bound \cap own # {} THEN bound \cap own
                ELSE IF bound # {} THEN bound
                ELSE IF own # {} THEN own ELSE cands)

(* v9: unique ids off the entry id.  The orphans go first, so that the keeper   *)
(* can have the entity id without suffix.                                       *)
Rekeyed(es) ==
    LET cands == {e \in es : e.uid \in {"own", "former"}}
        keep == Keeper(cands)
        orphans == cands \ {keep}
        stable == {e \in es : e.uid = "stable"}
    IN  IF cands = {} THEN es
        ELSE stable \cup {[keep EXCEPT !.uid = IF stable = {} THEN "stable" ELSE @,
                                       !.eid = IF orphans = {} THEN @ ELSE FirstOf(orphans).eid]}

(* v13: the switch of the active mode is kept, a stale one of the other goes. *)
Merged(es) ==
    LET cands == {e \in es : e.uid \in {"dp", "rt"}}
        right == {e \in cands : e.uid = euMode}
        keep == FirstOf(IF right # {} THEN right ELSE cands)
        there == {e \in es : e.uid = "merged"}
    IN  IF cands = {} THEN es
        ELSE there \cup {[keep EXCEPT !.uid = IF there = {} THEN "merged" ELSE @]}

(* v14, v15, v16: entities whose settings no longer exist. *)
Dropped(es) == {e \in es : e.uid # "knob"}

(* async_migrate_entry: the steps above the entry's version. *)
Upgraded(r, v) ==
    [r EXCEPT !["battery"] = IF v < 2 THEN Ported(@) ELSE @,
              !["cell"] = IF v < 5 THEN Enabled(@) ELSE @,
              !["home"] = IF v < 7 THEN HomeFixed(@) ELSE @,
              !["system"] = IF v < 9 THEN Rekeyed(@) ELSE @,
              !["control"] = IF v < 13 THEN Merged(@) ELSE @,
              !["removed"] = IF v < 16 THEN Dropped(@) ELSE @]

Wanted16 == [battery |-> "host_port", cell |-> "cell", home |-> "single", system |-> "stable",
             control |-> "merged"]

-----------------------------------------------------------------------------
EuInit ==
    /\ euVer \in EuVersions
    /\ euReg \in Registries(euVer)
    /\ euDisk = [ver |-> euVer, reg |-> euReg] /\ euWas = euReg
    /\ euMode \in {"dp", "rt", "slot"}
    /\ euPhase = "start"
    /\ euRec \in {"none", "stale", "running"}
    /\ euRaised = (euRec = "running")
    /\ euManual \in BOOLEAN
    /\ euStep = "idle" /\ euTook = FALSE /\ euBegun = FALSE
    /\ euUpsets = 0

RunMigration ==
    /\ euPhase = "start"
    /\ euReg' = Upgraded(euReg, euVer)
    /\ euVer' = Newest
    /\ euPhase' = "migrated"
    /\ UNCHANGED <<euDisk, euWas, euMode, euRec, euManual, euRaised, euStep, euTook, euBegun, euUpsets>>

handoff == <<euRec, euManual, euRaised, euStep, euTook, euBegun>>
others == <<euVer, euReg, euDisk, euWas, euMode>>

EuUpset == euUpsets < EuMaxUpsets /\ euUpsets' = euUpsets + 1

(* Nothing left behind, or a record that no longer means anything. *)
HandoffNotNeeded ==
    /\ euPhase = "migrated" /\ euStep = "idle" /\ euRec # "running"
    /\ euRec' = "none" /\ euStep' = "over"
    /\ UNCHANGED <<euManual, euRaised, euTook, euBegun, euPhase, euUpsets, others>>

(* An interrupted run on a battery that does not answer waits for a later setup. *)
HandoffDeferred ==
    /\ euPhase = "migrated" /\ euStep = "idle" /\ euRec = "running" /\ EuUpset
    /\ euStep' = "over"
    /\ UNCHANGED <<euRec, euManual, euRaised, euTook, euBegun, euPhase, others>>

(* _set_battery_manual_mode: the flag is in the entry before the write is sent. *)
Acquire ==
    /\ euPhase = "migrated" /\ euStep = "idle" /\ euRec = "running"
    /\ euTook' = ~euManual
    /\ euManual' = TRUE /\ euBegun' = TRUE
    /\ euStep' = "taken"
    /\ UNCHANGED <<euRec, euRaised, euPhase, euUpsets, others>>

(* The idle write was acknowledged; now the cutoff the runner had raised. *)
RestoreCutoff ==
    /\ euPhase = "migrated" /\ euStep = "taken"
    /\ euRaised' = FALSE
    /\ euStep' = "restored"
    /\ UNCHANGED <<euRec, euManual, euTook, euBegun, euPhase, euUpsets, others>>

(* Ownership goes back if it was taken here; then the record may go. *)
Release ==
    /\ euPhase = "migrated" /\ euStep = "restored"
    /\ euManual' = IF euTook THEN FALSE ELSE euManual
    /\ euRec' = "none" /\ euStep' = "over"
    /\ UNCHANGED <<euRaised, euTook, euBegun, euPhase, euUpsets, others>>

\* Mutant of HandoffFails: the record goes although the cutoff may still be raised.
HandoffGivesUp ==
    /\ EuUpset /\ euPhase = "migrated" /\ euStep \in {"taken", "restored"}
    /\ euManual' = TRUE /\ euStep' = "over" /\ euRec' = "none"
    /\ UNCHANGED <<euRaised, euTook, euBegun, euPhase, others>>
(* The idle write, the cutoff or the release failed: manual mode and record stay. *)
HandoffFails ==
    /\ EuUpset /\ euPhase = "migrated" /\ euStep \in {"taken", "restored"}
    /\ euManual' = TRUE /\ euStep' = "over"
    /\ UNCHANGED <<euRec, euRaised, euTook, euBegun, euPhase, others>>

(* The platforms register what they need and is not there. *)
Platforms ==
    /\ euPhase = "migrated" /\ euStep = "over"
    /\ euReg' = [f \in Families |->
                   IF f = "removed" \/ \E e \in euReg[f] : e.uid = Wanted16[f] THEN euReg[f]
                   ELSE euReg[f] \cup {Live(Wanted16[f], "new")}]
    /\ euPhase' = "up"
    /\ UNCHANGED <<euVer, euDisk, euWas, euMode, handoff, euUpsets>>

SaveRegistry ==
    /\ euDisk.reg # euReg
    /\ euDisk' = [euDisk EXCEPT !.reg = euReg]
    /\ UNCHANGED <<euVer, euReg, euWas, euMode, euPhase, handoff, euUpsets>>

(* Written after the registry: see the known limits. *)
SaveEntry ==
    /\ euDisk.ver # euVer /\ euDisk.reg = euReg
    /\ euDisk' = [euDisk EXCEPT !.ver = euVer]
    /\ UNCHANGED <<euVer, euReg, euWas, euMode, euPhase, handoff, euUpsets>>

(* A kill, or a restart the user asks for: setup begins again from the disk. *)
Restart ==
    /\ EuUpset /\ euPhase # "start"
    /\ euVer' = euDisk.ver /\ euReg' = euDisk.reg
    /\ euPhase' = "start" /\ euStep' = "idle" /\ euTook' = FALSE
    /\ UNCHANGED <<euDisk, euWas, euMode, euRec, euManual, euRaised, euBegun>>

EuNext ==
    \/ RunMigration \/ HandoffNotNeeded \/ HandoffDeferred \/ Acquire \/ RestoreCutoff \/ Release
    \/ HandoffFails \/ Platforms \/ SaveRegistry \/ SaveEntry \/ Restart
EuSpec == EuInit /\ [][EuNext]_euVars

-----------------------------------------------------------------------------
EuTypeOK ==
    /\ euVer \in EuVersions \cup {Newest} /\ euPhase \in {"start", "migrated", "up"}
    /\ euRec \in {"none", "stale", "running"} /\ euStep \in {"idle", "taken", "restored", "over"}
    /\ euManual \in BOOLEAN /\ euRaised \in BOOLEAN /\ euTook \in BOOLEAN

(* However often the upgrade was cut short and repeated, every entity ends up  *)
(* once, under the id its platform asks for, with an entity id (and so the     *)
(* history) it had before; the switch kept is the one of the active mode, and  *)
(* what the user disabled stays disabled (__init__.py:9966-10007).             *)
EntitiesSurvive ==
    euPhase = "up" =>
        /\ euReg["removed"] = {}
        /\ \A f \in Families \ {"removed"} :
             /\ \E e \in euReg[f] : euReg[f] = {e} /\ e.uid = Wanted16[f]
             /\ euWas[f] # {} => \A e \in euReg[f] :
                  /\ e.eid \in {w.eid : w \in euWas[f]} \cup (IF f = "home" THEN {"single"} ELSE {})
                  /\ f = "system" => e.eid = "k" /\ e.bound
                  /\ f = "control" /\ (\E w \in euWas[f] : w.uid = euMode) => e.eid = euMode
                  /\ (\E w \in euWas[f] : w.off = "user") => e.off = "user"

(* The record of an interrupted run goes only once the cutoff is restored      *)
(* (__init__.py:10491-10493).                                                  *)
RecordOutlivesRun == euRaised => euRec = "running"

(* From the moment a handoff is begun the battery is kept from automatic       *)
(* control, over failures and restarts, until its cutoff is restored           *)
(* (__init__.py:2555-2557, 10613-10614).                                       *)
RaisedStaysManual == euBegun /\ euRaised => euManual

(* An upgrade repeated from any point leaves the entities the user had, and an *)
(* interrupted weekly charge remembered and out of automatic control           *)
(* (__init__.py:9966-10007, 10480-10620).                                      *)
UpgradeSound ==
    /\ EuTypeOK
    /\ EntitiesSurvive
    /\ RecordOutlivesRun
    /\ RaisedStaysManual
=============================================================================
