SPECIFICATION FairSpec
CONSTANTS
  Rails = {"upi", "card", ""}
  PeakWindows <- ConfigPeaks
  LeadHours <- Lead
  PdnCutoff = 1430
  UpiDeadline = 1260
  AttemptCap = 4
  None = None
  ContactBudget = 2
  CooldownHours = 24
  Nows <- EveryTick
  Targets = {1, 2, 3}
  Margins = {10, 15}
  MaxDelay = 16
INVARIANTS TypeOK NeverGivesUp GuardAgrees SlotNearlyFirst LoopIsCompliantSlot
PROPERTY SearchEnds
CHECK_DEADLOCK FALSE
