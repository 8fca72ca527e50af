SPECIFICATION FairSpec
CONSTANTS
  FailThreshold = 2
  Cooldown = 1
  RepairAfter = 2
  EngageGrace = 1
  RampGrace = 1
  TaperGrace = 1
  ReadbackEvery = 2
  HotPath = TRUE
  HasRs485 = TRUE
  Bodies = {"follows", "stalled", "runaway", "blind", "gone"}
  Socs = {"mid", "full"}
  Acks = {TRUE, FALSE}
INVARIANT FailuresAccountedFor
PROPERTIES SpellEndsOnlyByRecovery FaultSurfaces
