SPECIFICATION Spec
CONSTANTS
  Rails = {"upi", ""}
  PeakWindows <- ConfigPeaks
  LeadHours <- Lead
  PdnCutoff = 1430
  UpiDeadline = 1260
  AttemptCap = 4
  None = None
  ContactBudget = 2
  CooldownHours = 24
  PaymentCount = 2
  Times = {1, 2}
  MaxEvents = 2
  MaxActions = 7
  MaxRefusals = 1
INVARIANTS TypeOK NoObligationAfterSettlement AdmittedWithinRules OnceAndAudited TraceIsComplete OutcomeLineFits ResolveFindsTheDecided
CHECK_DEADLOCK FALSE
