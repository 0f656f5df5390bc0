SPECIFICATION Spec
CONSTANTS
  ana = ana
  ben = ben
  ben2 = ben2
  Users <- MCUsers
  Founder = ana
  AddressOf <- MCAddressOf
  Addresses = {"ben@"}
  InvitedAs = {"member"}
  Managed <- MCManaged
  Providers = {p1}
  Invites = {i1, i2}
  Accepts = {a1, a2}
  Errands = {s1}
  NoUser = NoUser
  NoInvite = NoInvite
SYMMETRY Symmetry
INVARIANTS ScopesAreLive NamesAreAccounts AdmissionIsOnRecord ReplacedLinkIsDead
PROPERTY ImplementsHousehold
