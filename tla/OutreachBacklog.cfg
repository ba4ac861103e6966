SPECIFICATION FairSpec
CONSTANTS
  email1 = email1  email2 = email2  ann = ann  bob = bob
  NoSeq = NoSeq
  NoProspect = NoProspect
  Sequence <- Rows2
  Prospect = {ann, bob}
  ProspectOf <- ProspectOfTwo
  UserOwned <- UserOwned2
  Touch <- Touch2
  CreatedAt <- CreatedAtTwo
  Tick = {t1}
  Manual = {}
  Request = {}
  TouchLimit = 6
  BatchLimit = 1
  ManualLimit = 2
  UserStatus = {}
  EventStatus = {"Replied"}
  MaxSched = 1
  MaxMishap = 0
  MaxAsk = 1
PROPERTY EligiblePickedUp
