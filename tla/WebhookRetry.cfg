SPECIFICATION HookSpec
CONSTANTS
  Tokens = {t1}
  Guards = {r1}
  Posts = {q1}
  NoToken = NoToken
  NoGuard = NoGuard
  SignatureWindow = 1
  ReplayWindow = 2
  MaxReplayTokens = 2
  LastTime = 2
INVARIANT FailureIsNotAReplay
