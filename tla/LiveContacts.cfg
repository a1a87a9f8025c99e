SPECIFICATION Spec
CONSTANTS
  Rails = {"upi", "card", "emandate", ""}
  PeakWindows <- ConfigPeaks
  LeadHours <- Lead
  PdnCutoff = 1430
  UpiDeadline = 1260
  AttemptCap = 4
  None = None
  ContactBudget = 2
  CooldownHours = 24
  Rules <- AuthoredRules
  SourceSpace <- NoSpace
  SourceAliases <- NoSpace
  StepSpace <- Steps
  HighThreshold = 85
  ModerateThreshold = 60
  FallbackConfidence = 0
  Misclassification <- Costs
  ContactCost <- PerContact
  Absent = Absent
  BankHolidays = {}
  InfraHighOffset = 1
  InfraModerateOffset = 2
  LiquidityMinOffset = 2
  FundingDays <- Funding
  MaxWaitDays = 6
  MaxContacts = 1
  MARKERS = {}
  families <- NoFamilies
  Payments = {p1, p2, p3}
  Snapshots <- Unread
  OpenedOn = 2
  TickHours = 24
  LastDay = 6
INVARIANT ContactBudgetHolds
CHECK_DEADLOCK FALSE
