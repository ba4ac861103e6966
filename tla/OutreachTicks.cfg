SPECIFICATION Spec
CONSTANTS
  email1 = email1  email2 = email2  ann = ann  bob = bob
  NoSeq = NoSeq
  NoProspect = NoProspect
  Sequence <- Rows2
  Prospect = {ann}
  ProspectOf <- ProspectOf2
  UserOwned <- UserOwned2
  Touch <- Touch2
  CreatedAt <- CreatedAt2
  Tick = {t1}
  Manual = {m1}
  Request = {}
  TouchLimit = 6
  BatchLimit = 2
  ManualLimit = 2
  UserStatus = {}
  EventStatus = {}
  MaxSched = 1
  MaxMishap = 1
  MaxAsk = 1
INVARIANTS OncePerScheduling SentWasDelivered
PROPERTIES TickHonoursSuppression KeepsLedger
