SPECIFICATION Spec
CONSTANTS
  email1 = email1  email2 = email2  ann = ann  bob = bob
  NoSeq = NoSeq
  NoProspect = NoProspect
  Sequence <- Rows2
  Prospect = {ann}
  ProspectOf <- ProspectOf2
  UserOwned <- UserOwned2
  Touch <- Touch2
  CreatedAt <- CreatedAt2
  Tick = {}
  Manual = {}
  Request = {r1}
  TouchLimit = 6
  BatchLimit = 2
  ManualLimit = 2
  UserStatus = {"QaPassed", "Scheduled"}
  EventStatus = {"Sent", "Replied", "Bounced", "Failed"}
  MaxSched = 1
  MaxMishap = 2
  MaxAsk = 2
INVARIANTS TypeOK SentWasDelivered
