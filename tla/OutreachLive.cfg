SPECIFICATION FairSpec
CONSTANTS
  email1 = email1  email2 = email2  ann = ann  bob = bob
  NoSeq = NoSeq
  NoProspect = NoProspect
  Sequence <- Rows2
  Prospect = {ann}
  ProspectOf <- ProspectOf2
  UserOwned <- Rows2
  Touch <- Touch2
  CreatedAt <- CreatedAt2
  Tick = {t1}
  Manual = {}
  Request = {}
  TouchLimit = 6
  BatchLimit = 2
  ManualLimit = 2
  UserStatus = {"QaPassed"}
  EventStatus = {"Replied"}
  MaxSched = 2
  MaxMishap = 1
  MaxAsk = 1
PROPERTY EligiblePickedUp
INVARIANTS OncePerScheduling UserExposure
