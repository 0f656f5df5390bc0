SPECIFICATION LifeSpec
CONSTANTS
  Processes = {c1}
  NoHolder = NoHolder
  Migrations = 1
  StopGrace = 1
  DrainTimeout = 2
  KillGrace = 4
CHECK_DEADLOCK FALSE
INVARIANT ExitsOnItsOwnTerms
