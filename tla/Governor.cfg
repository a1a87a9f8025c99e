SPECIFICATION Spec
CONSTANTS
  Issuers = {b1}
  Methods = {upi}
  Window = 2
  BaseCeiling = 3
  StrainedCeiling = 2
  DegradedCeiling = 1
  MinObservations = 2
  StrainedShare = 40
  DegradedShare = 60
  NoNotice = NoNotice
  MaxLate = 1
  MaxReports = 3
INVARIANTS TypeOK CountsEveryAdmission EvidenceIsRecent
PROPERTIES CeilingHonoured DegradationAgesOut
