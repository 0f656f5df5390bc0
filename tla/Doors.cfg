SPECIFICATION DoorsSpec
CONSTANTS
  Users = {ana, ben}
  Founder = ana
  Providers = {p1}
  Requests = {s1, s2}
  NoUser = NoUser
  NoProvider = NoProvider
  Tokens = {t1, t2, t3}
  Guards = {r1}
  Posts = {q1, q2}
  NoToken = NoToken
  NoGuard = NoGuard
  SignatureWindow = 1
  ReplayWindow = 2
  MaxReplayTokens = 2
  LastTime = 3
  Vocabulary <- MCVocabulary
  Wrappings <- MCWrappings
  Lines <- MCLines
  MaxMultipartDepth = 1
  MaxTextBodyChars = 20
  WindowRunes = 14
  MaxParts = 2
  MaxWords = 4
  MaxLines = 2
SYMMETRY Symmetry
INVARIANTS
  AccessFollowsMembership GuardIsBounded
  OnlyShownWordsAreMined CodeIsTheFirstPlausible
PROPERTIES RequestsNeverAdmit ImplementsHousehold RepeatIsTakenOnlyLate FirstWordStands
