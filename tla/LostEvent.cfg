SPECIFICATION FairSpec
CONSTANTS
  e1 = e1  e2 = e2  e3 = e3  p1 = p1  p2 = p2  o1 = o1  w1 = w1  w2 = w2  v1 = v1  v2 = v2
  Events = {e1}
  Payments = {p1}
  Workers = {w1}
  Orders = {o1}
  Versions = {v1}
  Decidable = {"SCHEDULE_AT"}
  NoPayment = NoPayment
  NoOrder = NoOrder
  NoEvent = NoEvent
  EventKind <- Accepted
  EventPayment <- OnePayment
  EventTime <- AllAtOne
  PaymentOrder <- OneOrder
  PolicyVersion <- OneVersion
  BatchSize = 2
  MaxAttempts = 2
  AttemptCap = 2
PROPERTY StoredIsQueued
