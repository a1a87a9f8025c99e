SPECIFICATION Spec
CONSTANTS
  Rails = {"upi", "card", "emandate", ""}
  PeakWindows <- ConfigPeaks
  LeadHours <- Lead
  PdnCutoff = 1430
  UpiDeadline = 1260
  AttemptCap = 4
  None = None
  ContactBudget = 2
  CooldownHours = 24
  Rules <- AuthoredRules
  SourceSpace <- NoSpace
  SourceAliases <- NoSpace
  StepSpace <- Steps
  HighThreshold = 85
  ModerateThreshold = 60
  FallbackConfidence = 0
  Misclassification <- Costs
  ContactCost <- PerContact
  Absent = Absent
  BankHolidays = {}
  InfraHighOffset = 1
  InfraModerateOffset = 2
  LiquidityMinOffset = 2
  FundingDays <- Funding
  MaxWaitDays = 6
  MaxContacts = 1
  Cases = {c1}
  SimulatedRails = {"upi", "card", "emandate"}
  EMISSIONS <- AuthoredEmissions
  StartDays = {2, 20}
  HorizonDays = 10
  PendingHours = {25, 60}
  AnyDelays <- Hours
  AnyDays = 5
  Amount = 1
INVARIANTS TypeOK ExecutionsInTurn ContactsSpaced ClosedIsFinal NeverRefused SpendsOnlyOnReading BooksBalance
PROPERTY WaitsForFunding
CHECK_DEADLOCK FALSE
