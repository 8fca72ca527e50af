---------------------------- MODULE DriverReads -----------------------------
(***************************************************************************)
(* What the drivers (drivers/*.py) let through of what they read.  Marstek reads   *)
(* blocks, falls back to single registers where the firmware refuses a block, and    *)
(* learns which pack slots exist; Anker withholds a zero that may be a glitch;         *)
(* ESPHome returns nothing once the battery's bus has gone silent behind the bridge.    *)
(* The coordinator keeps what it was last given for a key that is missing.  Slots come   *)
(* and go, reads fail, the driver reconnects.                                              *)
(***************************************************************************)
EXTENDS Integers, FiniteSets, FiniteSetsExt

CONSTANTS
    DrBrands,   \* brands checked
    DrSlots,    \* pack slots a Marstek may have
    DrTries,    \* _PACK_PROBE_CYCLES
    DrZeros,    \* _ZERO_POWER_GLITCH_POLLS
    DrStale,    \* stale_after_s, in ticks
    DrMaxUpsets \* bound: failed reads, glitches, packs plugged and unplugged, reconnects

ASSUME DrAssumption == {DrTries, DrZeros, DrStale} \subseteq Nat \ {0} /\ DrMaxUpsets \in Nat /\ IsFiniteSet(DrSlots)

VARIABLES
    drBrand,
    drIn,     \* Marstek: the slots that hold a pack
    drMask,   \* Marstek: the firmware has the online mask
    drLow,    \* Marstek: the battery as a whole is nearly empty
    drPacks,  \* Marstek: _packs
    drProbes, \* Marstek: _pack_probes_left, 0 for a slot that is not in it
    drPolled, \* Marstek: the slots in the read groups
    drRefused,\* Marstek: the block of the slots was refused by the firmware
    drData,   \* Marstek: what the coordinator holds of each slot
    drEver,   \* history: slots that ever held a pack
    drFlat,   \* history: a probe was judged while the battery was nearly empty
    drSync,   \* history: the mask was read since the packs last changed
    drReal, drCmd, drGood, drStreak, drShown, \* Anker: delivered, commanded, last good reading, zero streak, shown
    drRun,    \* history: zeros read in a row
    drBus, drEsp, drFresh, \* ESPHome: age of the newest battery value and of the bridge's own, the last poll gave data
    drLeft

marstek == <<drIn, drMask, drLow, drPacks, drProbes, drPolled, drRefused, drData, drEver, drFlat, drSync>>
anker == <<drReal, drCmd, drGood, drStreak, drShown, drRun>>
esphome == <<drBus, drEsp, drFresh>>
drVars == <<drBrand, marstek, anker, esphome, drLeft>>

DrTypeOK ==
    /\ drBrand \in DrBrands /\ drIn \subseteq DrSlots /\ drPacks \subseteq DrSlots /\ drPolled \subseteq DrSlots
    /\ drProbes \in [DrSlots -> 0..DrTries] /\ drData \in [DrSlots -> {"none", "zero", "charge"}]
    /\ {drMask, drLow, drRefused, drFlat, drSync, drCmd, drGood, drFresh, drReal, drShown} \subseteq BOOLEAN
    /\ drStreak \in 0..DrZeros /\ drRun \in 0..DrZeros /\ drBus \in 0..DrStale + 1 /\ drEsp \in 0..DrStale + 1
    /\ drLeft \in 0..DrMaxUpsets

---------------------------------------------------------------------------
(* a register read: a pack's charge, a flat zero or no answer from an empty slot *)
Answers(slot) == IF slot \in drIn THEN {IF drLow THEN "zero" ELSE "charge"} ELSE {"zero", "none"}
(* _learn_pack(): a zero proves a pack only while the whole battery is nearly empty *)
Proven(raw) == raw = "charge" \/ (raw = "zero" /\ drLow)
Learnt(read) == drPacks \cup {s \in DrSlots : drProbes[s] > 0 /\ Proven(read[s])}
ProbesAfter(read) ==
    [s \in DrSlots |-> IF drProbes[s] = 0 \/ Proven(read[s]) THEN 0 ELSE drProbes[s] - 1]
Over(probes) == \A s \in DrSlots : probes[s] = 0
(* the coordinator's data after a snapshot: a missing key keeps its value, a written-off slot is overwritten *)
Purged(read, gone) ==
    [s \in DrSlots |-> IF s \in gone THEN "none" ELSE IF read[s] = "none" THEN drData[s] ELSE read[s]]
ByProbe(read) ==
    LET packs == Learnt(read)
        probes == ProbesAfter(read)
        ends == ~Over(drProbes) /\ Over(probes)
    IN /\ drPacks' = packs /\ drProbes' = probes
       /\ drPolled' = IF ends THEN drPolled \cap packs ELSE drPolled
       /\ drData' = Purged(read, IF ends THEN DrSlots \ packs ELSE {})
       /\ drFlat' = (drFlat \/ (drLow /\ ~Over(drProbes)))
       /\ UNCHANGED drSync
(* _apply_pack_mask(): the BMS says which slots are online *)
MaskKnown == drIn = drPacks /\ Over(drProbes)
ByMask(read) ==
    /\ drData' = Purged(read, IF MaskKnown THEN {} ELSE DrSlots \ drIn)
    /\ drPacks' = drIn /\ drProbes' = [s \in DrSlots |-> 0]
    /\ drPolled' = IF MaskKnown THEN drPolled ELSE drIn
    /\ drSync' = TRUE
    /\ UNCHANGED drFlat
(* read_telemetry(): the block of all polled slots, or, once it was refused, one register after the other; a mask of
   zero counts as none *)
MarstekRead(read, masked) == IF masked /\ drMask /\ drIn # {} THEN ByMask(read) ELSE ByProbe(read)
MarstekPoll ==
    /\ drBrand = "marstek"
    /\ \E read \in [DrSlots -> {"none", "zero", "charge"}], masked \in BOOLEAN :
        /\ \A s \in DrSlots : IF s \in drPolled THEN read[s] \in Answers(s) ELSE read[s] = "none"
        /\ masked = drMask
        /\ MarstekRead(read, masked)
    /\ UNCHANGED <<drBrand, drIn, drMask, drLow, drRefused, drEver, anker, esphome, drLeft>>
(* a block or registers that do not answer: every slot of a block, any of the single ones *)
MarstekPollFails ==
    /\ drBrand = "marstek" /\ drLeft > 0 /\ drLeft' = drLeft - 1
    /\ \E silent \in IF drRefused THEN (SUBSET drPolled) \ {{}} ELSE {drPolled} :
        \E read \in [DrSlots -> {"none", "zero", "charge"}], masked \in {FALSE, drMask} :
            /\ \A s \in DrSlots : IF s \in drPolled \ silent THEN read[s] \in Answers(s) ELSE read[s] = "none"
            /\ MarstekRead(read, masked)
    /\ UNCHANGED <<drBrand, drIn, drMask, drLow, drRefused, drEver, anker, esphome>>
MarstekRefuses ==
    /\ drBrand = "marstek" /\ ~drRefused
    /\ drRefused' = TRUE
    /\ UNCHANGED <<drBrand, drIn, drMask, drLow, drPacks, drProbes, drPolled, drData, drEver, drFlat, drSync, anker,
                   esphome, drLeft>>
(* packs are plugged and unplugged, the battery is charged and emptied *)
PacksChange ==
    /\ drBrand = "marstek" /\ drLeft > 0 /\ drLeft' = drLeft - 1
    /\ \/ \E s \in DrSlots : /\ drIn' = (drIn \ {s}) \cup ({s} \ drIn) /\ drEver' = drEver \cup drIn'
                             /\ drSync' = FALSE /\ UNCHANGED drLow
       \/ drLow' = ~drLow /\ UNCHANGED <<drIn, drEver, drSync>>
    /\ UNCHANGED <<drBrand, drMask, drPacks, drProbes, drPolled, drRefused, drData, drFlat, anker, esphome>>

---------------------------------------------------------------------------
(* Anker, read_telemetry(): a zero under a standing command is withheld until it has been read often enough *)
Latched == drCmd /\ drGood
\* Mutant of Streak: the streak that is long enough starts over.
StreakForgets(n) == IF n + 1 < DrZeros THEN n + 1 ELSE 0
Streak(n) == Min({n + 1, DrZeros})
AnkerReads(live) ==
    /\ drRun' = IF live THEN 0 ELSE Min({drRun + 1, DrZeros})
    /\ IF live THEN drStreak' = 0 /\ drGood' = TRUE /\ drShown' = TRUE
       ELSE /\ UNCHANGED drGood
            /\ IF Latched
               THEN LET n == Streak(drStreak)
                    IN drStreak' = n /\ drShown' = IF n < DrZeros THEN drShown ELSE FALSE
               ELSE drStreak' = 0 /\ drShown' = FALSE
AnkerPoll ==
    /\ drBrand = "anker"
    /\ AnkerReads(drReal)
    /\ UNCHANGED <<drBrand, marstek, drReal, drCmd, esphome, drLeft>>
AnkerGlitch ==
    /\ drBrand = "anker" /\ drReal /\ drLeft > 0 /\ drLeft' = drLeft - 1
    /\ AnkerReads(FALSE)
    /\ UNCHANGED <<drBrand, marstek, drReal, drCmd, esphome>>
(* apply_setpoint() and standby() latch the command; the battery follows, stops or starts *)
AnkerCommand ==
    /\ drBrand = "anker" /\ drCmd' = ~drCmd
    /\ UNCHANGED <<drBrand, marstek, drReal, drGood, drStreak, drShown, drRun, esphome, drLeft>>
AnkerTurns ==
    /\ drBrand = "anker" /\ drReal' = ~drReal
    /\ UNCHANGED <<drBrand, marstek, drCmd, drGood, drStreak, drShown, drRun, esphome, drLeft>>
(* connect(): a new link starts without a command *)
AnkerConnect ==
    /\ drBrand = "anker" /\ drLeft > 0 /\ drLeft' = drLeft - 1
    /\ drCmd' = FALSE /\ drGood' = FALSE /\ drStreak' = 0
    /\ UNCHANGED <<drBrand, marstek, drReal, drShown, drRun, esphome>>

---------------------------------------------------------------------------
(* ESPHome, _bus_stall_age_s(): the newest value that came over the battery's bus, not the bridge's own *)
StallAge == drBus
EsphomePoll ==
    /\ drBrand = "esphome" /\ drFresh' = (StallAge <= DrStale)
    /\ UNCHANGED <<drBrand, marstek, anker, drBus, drEsp, drLeft>>
EsphomeTick ==
    /\ drBrand = "esphome" /\ drFresh' = FALSE
    /\ drBus' \in {0, Min({drBus + 1, DrStale + 1})} /\ drEsp' \in {0, Min({drEsp + 1, DrStale + 1})}
    /\ UNCHANGED <<drBrand, marstek, anker, drLeft>>

DrInit ==
    /\ drBrand \in DrBrands
    /\ drIn \in IF drBrand = "marstek" THEN SUBSET DrSlots ELSE {{}}
    /\ drMask \in IF drBrand = "marstek" THEN BOOLEAN ELSE {FALSE}
    /\ drLow = FALSE /\ drPacks = {} /\ drProbes = [s \in DrSlots |-> DrTries] /\ drPolled = DrSlots
    /\ drRefused = FALSE /\ drData = [s \in DrSlots |-> "none"] /\ drEver = drIn /\ drFlat = FALSE /\ drSync = FALSE
    /\ drReal = FALSE /\ drCmd = FALSE /\ drGood = FALSE /\ drStreak = 0 /\ drShown = FALSE /\ drRun = 0
    /\ drBus = 0 /\ drEsp = 0 /\ drFresh = FALSE /\ drLeft = DrMaxUpsets
DrNext ==
    \/ MarstekPoll \/ MarstekPollFails \/ MarstekRefuses \/ PacksChange
    \/ AnkerPoll \/ AnkerGlitch \/ AnkerCommand \/ AnkerTurns \/ AnkerConnect
    \/ EsphomePoll \/ EsphomeTick
DrSpec == DrInit /\ [][DrNext]_drVars

---------------------------------------------------------------------------
(* No slot without a pack keeps a flat zero that would make the emptiest pack look empty for good: the probe purges
   what it read while it was probing, unless it judged a battery that really was nearly empty; the mask purges what a
   pack left behind. *)
NoPhantomPack ==
    drBrand = "marstek" =>
        /\ Over(drProbes) /\ ~drFlat => \A s \in DrSlots \ drEver : drData[s] = "none"
        /\ drSync /\ drIn # {} => \A s \in DrSlots : drData[s] # "none" => s \in drIn

(* A pack the BMS reports is read, whatever the probe concluded and however often packs came and went. *)
OnlineIsRead == drBrand = "marstek" /\ drSync => drIn \subseteq drPolled

(* A battery that really stopped is shown to have stopped once the zero was read often enough, across commands and
   reconnects in between. *)
StopIsSeen == drBrand = "anker" /\ drRun = DrZeros => ~drShown

(* A bus that has been silent for too long gives no data, although the bridge goes on reporting its own values. *)
SilentBusGivesNothing == drBrand = "esphome" /\ drFresh => drBus <= DrStale

(* What a driver shows is what there is: no pack that is not there, each that is, a stop once it lasts, and nothing
   from a bus that fell silent. *)
ReadingsTrue ==
    /\ DrTypeOK
    /\ NoPhantomPack
    /\ OnlineIsRead
    /\ StopIsSeen
    /\ SilentBusGivesNothing
=============================================================================
