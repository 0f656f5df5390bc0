SPECIFICATION PromptSpec
CONSTANTS
  Emails = {ana, ben}
  Ids = {u1, u2, u3}
  NoId = NoId
  Attempts = {a1}
  SetupClaimTTL = 1
SYMMETRY Symmetry
PROPERTY OnlyOrphansAreDeleted
