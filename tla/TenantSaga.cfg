SPECIFICATION FairSpec
CONSTANTS
  Slug = {acme}
  NoSlug = NoSlug
  Request = {r1, r2, r3}
  Deploy = {d1, d2}
  MaxCrash = 2
INVARIANTS TypeOK FinishedKeepsSchema DeletedLeavesNoSchema AbandonedOnlyByMishap
PROPERTIES KeepsLife SagaEnds
CHECK_DEADLOCK FALSE
