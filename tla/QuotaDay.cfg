SPECIFICATION FairSpec
CONSTANTS
  Sessions = {s1, s2}
  Hours = 2
  DailyQuota = 2
  BounceMin = 1
  BounceDen = 2
  BounceHours = 1
  SpamMin = 1
  SpamDen = 1
  SpamHours = 2
  MaxMail = 4
  MaxEvent = 1
INVARIANTS TypeOK NeverOvercounts ThrottleHasEnd CapHoldsAlone OvershootBounded
PROPERTIES DeniedOnlyWhenSpent QuotaReturns
