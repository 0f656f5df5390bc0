SPECIFICATION PartsSpec
CONSTANTS
  Replicas = {r1, r2}
  Requests = {q1, q2}
  NoReplica = NoReplica
  WindowSeconds = 2
  Limit = 1
  MinTtl = 3
  Skew = 1
  MaxDelay = 1
  MaxTime = 4
  MaxHits = 2
  ann = ann
  bob = bob
  net = net
  sub = sub
  Targets = {t1}
  Addresses = {ann, bob}
  NoAddress = NoAddress
  Domains = {net, sub}
  LiesUnder <- MCLiesUnder
  Width <- MCWidth
  RuleIds = {i1, i2}
  Parcels = {p1}
  Shelves = {s1, s2}
  Labels = {k1}
  NoLabel = NoLabel
  Queue = Queue
  Mails = {m1, m2, m3}
  Nowhere = Nowhere
  Moments = {1, 2}
  PageLimit = 1
  Processes = {c1, c2}
  NoHolder = NoHolder
  Migrations = 2
  StopGrace = 1
  DrainTimeout = 1
  KillGrace = 2
  DialTimeout = 1
  SendTimeout = 3
  MaxWait = 5
  Users = {fo, us}
  Founder = fo
  Nobody = Nobody
  Sessions = {t1}
  NoCookie = NoCookie
  Slugs = {h1, h2}
  Visits = {v1}
  Hosts = {a1}
  Proxy = Proxy
  Hops = 2
  ProxiesFold = TRUE
  DevMode = FALSE
INVARIANTS
  LimitHolds
  StandingRuleWins VisibleSenderIsVouchedFor
  PagedOnceButForTies OnlyReadableMailIsShown
  ServesTheWholeSchema CleanExitCutsNothingShort
  NothingInClear AnswersInTime
  EntryWasEarned ForeignPagesChangeNothing ChargedToTheCaller
  OnlyTheHomelessFound
PROPERTIES RefusedOnlyWhenSpent
