------------------------------ MODULE Household ------------------------------
(***************************************************************************)
(* What the membership tables promise, in one statement at a time: who is  *)
(* in the household, as what, and which providers' mail they may read.     *)
(* Members, the owner's routes, and Invitations, the way in, are both      *)
(* shown to do nothing else to these tables.                               *)
(***************************************************************************)
CONSTANTS
  Users,      \* accounts
  Founder,    \* the one that created the household
  Providers   \* providers the household may ever have

VARIABLES
  role,       \* household_memberships: each user's role, "none" without a row
  access,     \* household_member_provider_access, as (user, provider) pairs
  providers   \* how far each provider is in its life; an id is not reused

household == <<role, access, providers>>

Roles == {"owner", "member"}
IsMember(u) == role[u] # "none"
Live == {p \in Providers : providers[p] = "live"}

Init ==
  /\ role = [u \in Users |-> IF u = Founder THEN "owner" ELSE "none"]
  /\ access = {}
  /\ providers = [p \in Providers |-> "unborn"]

\* UpsertMembership with CopyInvitationProviderAccess: the only way in, and
\* the way for a member to another role. A provider that is gone fails the
\* foreign key of its access row, and the transaction with it.
Admit(u, r, scope) ==
  /\ scope \subseteq Live
  /\ role' = [role EXCEPT ![u] = r]
  /\ access' = access \cup ({u} \X scope)
  /\ UNCHANGED providers

\* DeleteMembership, or the account deleted under it.
Dismiss(u) ==
  /\ role' = [role EXCEPT ![u] = "none"]
  /\ access' = {a \in access : a[1] # u}
  /\ UNCHANGED providers

SetRole(u, r) ==
  /\ IsMember(u)
  /\ role' = [role EXCEPT ![u] = r]
  /\ UNCHANGED <<access, providers>>

Grant(u, p) ==
  /\ IsMember(u)
  /\ p \in Live
  /\ access' = access \cup {<<u, p>>}
  /\ UNCHANGED <<role, providers>>

Revoke(u, p) ==
  /\ access' = access \ {<<u, p>>}
  /\ UNCHANGED <<role, providers>>

CreateProvider(p) ==
  /\ providers[p] = "unborn"
  /\ providers' = [providers EXCEPT ![p] = "live"]
  /\ UNCHANGED <<role, access>>

DeleteProvider(p) ==
  /\ providers[p] = "live"
  /\ providers' = [providers EXCEPT ![p] = "deleted"]
  /\ access' = {a \in access : a[2] # p}
  /\ UNCHANGED role

\* What the owner's routes, and leaving, come down to.
Manage(u) ==
  \/ Dismiss(u)
  \/ \E r \in Roles : SetRole(u, r)
  \/ \E p \in Providers : Grant(u, p) \/ Revoke(u, p)

Next ==
  \/ \E u \in Users, r \in Roles, scope \in SUBSET Providers : Admit(u, r, scope)
  \/ \E u \in Users : Manage(u)
  \/ \E p \in Providers : CreateProvider(p) \/ DeleteProvider(p)

Spec == Init /\ [][Next]_household

-----------------------------------------------------------------------------

TypeOK ==
  /\ role \in [Users -> Roles \cup {"none"}]
  /\ access \subseteq Users \X Providers
  /\ providers \in [Providers -> {"unborn", "live", "deleted"}]

\* Access hangs off a membership and a provider that both exist.
AccessFollowsMembership ==
  \A a \in access : IsMember(a[1]) /\ a[2] \in Live

=============================================================================
