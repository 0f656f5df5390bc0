SPECIFICATION FairSpec
CONSTANTS
  MessageIds = {m1}
  Providers = {p1}
  None = None
  Deliveries = {d1}
  Reviewers = {v1}
  Runs = {n1}
  MaxUnreviewedQuarantine = 2
  RetentionDays = 1
  PurgeBatchSize = 1
  MaxDay = 2
  MaxRows = 2
PROPERTIES
  ExpiredMailIsPurged
  RunsAreRecorded
