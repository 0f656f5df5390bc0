------------------------------- MODULE Members -------------------------------
(***************************************************************************)
(* Who belongs to a household, in what role, and which providers' mail     *)
(* each member may read: the owner's routes over members, the member's own *)
(* way out, and the provider routes whose deletion cascades into access.   *)
(*                                                                         *)
(* The guards of a route read the caller's role ONCE, when the request     *)
(* arrives; the handler then checks and writes in statements of its own    *)
(* with no transaction around them. A request is a slot with a program     *)
(* counter, one step a statement.                                          *)
(***************************************************************************)
EXTENDS Naturals, FiniteSets

CONSTANTS
  Users,      \* people with an account
  Founder,    \* the one who created the household
  Providers,  \* providers the household may ever have
  Requests,   \* membership requests that can be in flight at once
  NoUser,     \* no user
  NoProvider  \* no provider

ASSUME FounderAssumption == Founder \in Users
ASSUME NothingAssumption == NoUser \notin Users /\ NoProvider \notin Providers
ASSUME UsersAssumption == IsFiniteSet(Users)

VARIABLES
  role,       \* household_memberships: each user's role, "none" without a row
  access,     \* household_member_provider_access, as (user, provider) pairs
  providers,  \* how far each provider is in its life; an id is not reused
  request     \* what each request has read so far

vars == <<role, access, providers, request>>

Roles == {"owner", "member"}
Kinds == {"leave", "remove", "role", "grant", "revoke"}

NoRequest == [pc |-> "idle", kind |-> "leave", actor |-> NoUser,
              target |-> NoUser, role |-> "member", provider |-> NoProvider]

\* role is what the request carries: for leaving, the caller's own as the
\* guard read it; for a change of role, the new one.
RequestState ==
  {NoRequest} \cup
  [pc: {"entered", "count", "write"}, kind: Kinds, actor: Users,
   target: Users, role: Roles, provider: Providers \cup {NoProvider}]

Owners == {u \in Users : role[u] = "owner"}
IsMember(u) == role[u] # "none"
Live == {p \in Providers : providers[p] = "live"}

\* Created with its owner, who may read everything anyway, and nothing else.
Init ==
  /\ role = [u \in Users |-> IF u = Founder THEN "owner" ELSE "none"]
  /\ access = {}
  /\ providers = [p \in Providers |-> "unborn"]
  /\ request = [s \in Requests |-> NoRequest]

-----------------------------------------------------------------------------
(* The guards: RequireHousehold for leaving, RequireOwner for the rest. An  *)
(* owner's own removal and own role are refused before anything is read.   *)

EndRequest(s) == request' = [request EXCEPT ![s] = NoRequest]

Begin(s, kind, actor, target, r, provider) ==
  /\ request[s].pc = "idle"
  /\ request' = [request EXCEPT ![s] =
       [pc |-> "entered", kind |-> kind, actor |-> actor, target |-> target,
        role |-> r, provider |-> provider]]
  /\ UNCHANGED <<role, access, providers>>

BeginLeave(s) ==
  \E u \in Users : /\ IsMember(u)
                   /\ Begin(s, "leave", u, u, role[u], NoProvider)

BeginRemove(s) ==
  \E o \in Owners : \E u \in Users \ {o} :
    Begin(s, "remove", o, u, "member", NoProvider)

BeginRole(s) ==
  \E o \in Owners, r \in Roles : \E u \in Users \ {o} :
    Begin(s, "role", o, u, r, NoProvider)

BeginAccess(s) ==
  \E o \in Owners, u \in Users, p \in Providers, kind \in {"grant", "revoke"} :
    Begin(s, kind, o, u, "member", p)

-----------------------------------------------------------------------------
(* The checks.                                                             *)

Advance(s, pc) == request' = [request EXCEPT ![s].pc = pc]

\* LeaveHousehold: the count is for a caller who CAME IN as an owner.
CheckLeave(s) ==
  /\ request[s].pc = "entered"
  /\ request[s].kind = "leave"
  /\ Advance(s, IF request[s].role = "owner" THEN "count" ELSE "write")
  /\ UNCHANGED <<role, access, providers>>

\* RemoveMember, UpdateMemberRole: 404 for a target that is not a member; only
\* a removal of an owner goes on to count.
CheckTarget(s) ==
  LET q == request[s] IN
  /\ q.pc = "entered"
  /\ q.kind \in {"remove", "role"}
  /\ IF ~IsMember(q.target) THEN EndRequest(s)
     ELSE Advance(s, IF q.kind = "remove" /\ role[q.target] = "owner"
                     THEN "count" ELSE "write")
  /\ UNCHANGED <<role, access, providers>>

\* providerAndMember: both must exist; the write looks both up again.
CheckAccess(s) ==
  LET q == request[s] IN
  /\ q.pc = "entered"
  /\ q.kind \in {"grant", "revoke"}
  /\ IF q.provider \in Live /\ IsMember(q.target)
     THEN Advance(s, "write") ELSE EndRequest(s)
  /\ UNCHANGED <<role, access, providers>>

\* CountOwners: 409 when there is one left, or none.
CountOwners(s) ==
  /\ request[s].pc = "count"
  /\ IF Cardinality(Owners) <= 1 THEN EndRequest(s) ELSE Advance(s, "write")
  /\ UNCHANGED <<role, access, providers>>

-----------------------------------------------------------------------------
(* The writes.                                                             *)

\* DeleteMembership; the access rows cascade.
RemoveMember(s) ==
  LET u == request[s].target IN
  /\ request[s].pc = "write"
  /\ request[s].kind \in {"leave", "remove"}
  /\ role' = [role EXCEPT ![u] = "none"]
  /\ access' = {a \in access : a[1] # u}
  /\ EndRequest(s)
  /\ UNCHANGED providers

\* Bug: an upsert, which admits whoever has left since the check.
SetMemberRoleUpsert(s) ==
  /\ request[s].pc = "write"
  /\ request[s].kind = "role"
  /\ role' = [role EXCEPT ![request[s].target] = request[s].role]
  /\ EndRequest(s)
  /\ UNCHANGED <<access, providers>>

\* SetMembershipRole: an UPDATE, of no row when the target has left since.
\* Nothing counts the owners.
SetMemberRole(s) ==
  LET q == request[s] IN
  /\ q.pc = "write"
  /\ q.kind = "role"
  /\ role' = [role EXCEPT ![q.target] = IF @ = "none" THEN @ ELSE q.role]
  /\ EndRequest(s)
  /\ UNCHANGED <<access, providers>>

\* Bug: INSERT ... VALUES of the ids that the check found.
GrantProviderAccessBlind(s) ==
  /\ request[s].pc = "write"
  /\ request[s].kind = "grant"
  /\ access' = access \cup {<<request[s].target, request[s].provider>>}
  /\ EndRequest(s)
  /\ UNCHANGED <<role, providers>>

\* GrantProviderAccess: INSERT ... SELECT over the membership and the provider
\* as they are NOW.
GrantProviderAccess(s) ==
  LET q == request[s] IN
  /\ q.pc = "write"
  /\ q.kind = "grant"
  /\ access' = access \cup
       {a \in {<<q.target, q.provider>>} : IsMember(a[1]) /\ a[2] \in Live}
  /\ EndRequest(s)
  /\ UNCHANGED <<role, providers>>

\* Bug: the DELETE forgets whose row it is after.
RevokeProviderAccessWide(s) ==
  LET q == request[s] IN
  /\ q.pc = "write"
  /\ q.kind = "revoke"
  /\ access' = {a \in access : a[2] # q.provider}
  /\ EndRequest(s)
  /\ UNCHANGED <<role, providers>>

RevokeProviderAccess(s) ==
  LET q == request[s] IN
  /\ q.pc = "write"
  /\ q.kind = "revoke"
  /\ access' = access \ {<<q.target, q.provider>>}
  /\ EndRequest(s)
  /\ UNCHANGED <<role, providers>>

\* A statement fails: 500, and what was checked is forgotten.
FailRequest(s) ==
  /\ request[s].pc # "idle"
  /\ EndRequest(s)
  /\ UNCHANGED <<role, access, providers>>

-----------------------------------------------------------------------------
(* What else writes these tables.                                          *)

CreateProvider(p) ==
  /\ providers[p] = "unborn"
  /\ providers' = [providers EXCEPT ![p] = "live"]
  /\ UNCHANGED <<role, access, request>>

\* The grants of a provider cascade with it.
DeleteProvider(p) ==
  /\ providers[p] = "live"
  /\ providers' = [providers EXCEPT ![p] = "deleted"]
  /\ access' = {a \in access : a[2] # p}
  /\ UNCHANGED <<role, request>>

\* AcceptInvitation's transaction, of an invitation that says role r and
\* scope: the membership is upserted and the scope copied onto it. An
\* invitation's scope cascades with its providers.
AcceptInvitation(u, r, scope) ==
  /\ role' = [role EXCEPT ![u] = r]
  /\ access' = access \cup ({u} \X scope)
  /\ UNCHANGED <<providers, request>>

RequestStep(s) ==
  \/ BeginLeave(s) \/ BeginRemove(s) \/ BeginRole(s) \/ BeginAccess(s)
  \/ CheckLeave(s) \/ CheckTarget(s) \/ CheckAccess(s) \/ CountOwners(s)
  \/ RemoveMember(s) \/ SetMemberRole(s)
  \/ GrantProviderAccess(s) \/ RevokeProviderAccess(s) \/ FailRequest(s)

ProviderStep == \E p \in Providers : CreateProvider(p) \/ DeleteProvider(p)

Accepting ==
  \E u \in Users, r \in Roles, scope \in SUBSET Live :
    AcceptInvitation(u, r, scope)

Next == (\E s \in Requests : RequestStep(s)) \/ ProviderStep \/ Accepting

Spec == Init /\ [][Next]_vars

\* Accepting as the last-owner rules take it, and as the comments on it put it:
\* whoever is an owner already stays one. (An invitation that says otherwise
\* is Accepting's own hazard.)
Upgrading ==
  \E u \in Users, r \in Roles, scope \in SUBSET Live :
    /\ u \in Owners => r = "owner"
    /\ AcceptInvitation(u, r, scope)

UpgradeNext ==
  (\E s \in Requests : RequestStep(s)) \/ ProviderStep \/ Upgrading

UpgradeSpec == Init /\ [][UpgradeNext]_vars

-----------------------------------------------------------------------------
(* What the household promises.                                            *)

TypeOK ==
  /\ role \in [Users -> Roles \cup {"none"}]
  /\ access \subseteq Users \X Providers
  /\ providers \in [Providers -> {"unborn", "live", "deleted"}]
  /\ request \in [Requests -> RequestState]

\* Access hangs off a membership and a provider that both exist, although a
\* grant writes well after it checked and removals, departures and provider
\* deletions come in between. So whoever comes back starts with nothing.
AccessFollowsMembership ==
  \A a \in access : IsMember(a[1]) /\ a[2] \in Live

\* Statement by statement, however the requests fall across each other, the
\* tables only ever change as Household says.
Home == INSTANCE Household WITH
          Users <- Users, Founder <- Founder, Providers <- Providers,
          role <- role, access <- access, providers <- providers

ImplementsHousehold == Home!Spec

\* No request over the members admits anybody: a change of role that lost the
\* race with a removal does not bring the member back.
RequestsNeverAdmit ==
  [][(\E s \in Requests : RequestStep(s)) =>
       \A u \in Users : IsMember(u)' => IsMember(u)]_vars

\* memberships.sql, of CountHouseholdOwners: "a household must keep at least
\* one owner, so leaving and member removal both count first". It holds while
\* the requests come one at a time.
AnOwnerRemains == Owners # {}

=============================================================================
