SPECIFICATION UpgradeSpec
CONSTANTS
  Users = {ana, ben}
  Founder = ana
  Providers = {p1}
  Requests = {s1, s2}
  NoUser = NoUser
  NoProvider = NoProvider
INVARIANT AnOwnerRemains
