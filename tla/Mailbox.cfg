SPECIFICATION ScopedSpec
CONSTANTS
  MessageIds = {m1, m2, m3}
  Providers = {p1, p2}
  None = None
  Deliveries = {d1, d2}
  Reviewers = {v1}
  Runs = {n1, n2}
  MaxUnreviewedQuarantine = 1
  RetentionDays = 1
  PurgeBatchSize = 1
  MaxDay = 2
  MaxRows = 3
SYMMETRY Symmetry
INVARIANTS
  OneRowPerMessageId
  QuarantineOvershootBounded
  AcceptedMailIsKept
  ReleaseIsFaithful
PROPERTIES
  ImplementsCustody
  ReviewedStaysReviewed
  OnlyExpiredMailIsPurged
