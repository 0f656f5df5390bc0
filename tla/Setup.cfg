SPECIFICATION FairSpec
CONSTANTS
  Emails = {ana, ben}
  Ids = {u1, u2, u3}
  NoId = NoId
  Attempts = {a1, a2}
  SetupClaimTTL = 1
INVARIANTS OneAttemptWorks OwnerCanSignIn
PROPERTIES CompleteIsForever SetupGetsThrough
