----------------------------- MODULE Invitations -----------------------------
(***************************************************************************)
(* The way into a household: an owner issues a link, resends it or cancels *)
(* it; whoever holds it accepts as the account that is signed in, or gets  *)
(* an account made for the invited address; the clock and two sweeps       *)
(* expire it.                                                              *)
(*                                                                         *)
(* An accept is one transaction behind several statements that read, and   *)
(* an account made for one that fails is deleted again. Requests are slots *)
(* with a program counter, one step a statement; the membership tables are *)
(* Household's, and the owner's routes over them are here as the           *)
(* statements they end in.                                                 *)
(*                                                                         *)
(* Only a failed accept deletes an account. That such an account became    *)
(* an owner and issued invitations of its own, which would go with it, is  *)
(* left out.                                                               *)
(***************************************************************************)
EXTENDS Naturals

CONSTANTS
  Users,      \* account ids; one is never used twice
  Founder,    \* the account that created the household
  AddressOf,  \* the address an account id is, or would be, made for
  Addresses,  \* addresses that get invited
  InvitedAs,  \* roles they get invited in
  Managed,    \* accounts whose membership the owner's routes touch
  Providers,  \* providers the household may ever have
  Invites,    \* invitations that may ever be issued
  Accepts,    \* accepts that can be in flight at once
  Errands,    \* owners' requests over invitations in flight at once
  NoUser,     \* no account
  NoInvite    \* no invitation

ASSUME FounderAssumption == Founder \in Users
ASSUME NothingAssumption == NoUser \notin Users /\ NoInvite \notin Invites
ASSUME ManagedAssumption == Managed \subseteq Users
ASSUME RolesAssumption == InvitedAs \subseteq {"owner", "member"}

VARIABLES
  role, access, providers,  \* Household's
  account,     \* users: how far each account is in its life
  invitation,  \* household_invitations with their provider scope
  accept,      \* what each accept has read so far
  errand       \* what each owner's request has read so far

Home == INSTANCE Household WITH
          Users <- Users, Founder <- Founder, Providers <- Providers,
          role <- role, access <- access, providers <- providers

vars == <<role, access, providers, account, invitation, accept, errand>>

Statuses == {"unborn", "pending", "overdue", "accepted", "cancelled", "expired"}

\* A row that says pending is "overdue" once the clock has passed its
\* expires_at; nothing reads that column of the others.
Invitation ==
  [status: Statuses, email: Addresses, role: InvitedAs, scope: SUBSET Providers,
   acceptedBy: Users \cup {NoUser}, replaces: Invites \cup {NoInvite}]

Unborn == [status |-> "unborn"]

NoAccept == [pc |-> "idle", invite |-> NoInvite, user |-> NoUser]

AcceptState ==
  {NoAccept} \cup
  [pc: {"find", "create"}, invite: Invites, user: {NoUser}] \cup
  [pc: {"join", "enrol", "undo"}, invite: Invites, user: Users]

NoErrand == [pc |-> "idle"]

\* Requests that name an invitation, and those that have one to write.
ErrandState ==
  {NoErrand} \cup
  [pc: {"refresh", "read", "cancel"}, invite: Invites] \cup
  [pc: {"replace"}, invite: Invites, email: Addresses, role: InvitedAs,
   scope: SUBSET Providers] \cup
  [pc: {"insert"}, invite: Invites \cup {NoInvite}, email: Addresses,
   role: InvitedAs, scope: SUBSET Providers]

Rows == {i \in Invites : invitation[i].status # "unborn"}
IsPending(i) == invitation[i].status \in {"pending", "overdue"}

HasAccount(u) == account[u] = "live"
Taken(address) == \E u \in Users : HasAccount(u) /\ AddressOf[u] = address

Init ==
  /\ Home!Init
  /\ account = [u \in Users |-> IF u = Founder THEN "live" ELSE "unborn"]
  /\ invitation = [i \in Invites |-> Unborn]
  /\ accept = [a \in Accepts |-> NoAccept]
  /\ errand = [s \in Errands |-> NoErrand]

-----------------------------------------------------------------------------
(* The owner's requests. RequireOwner reads the role once, at the start.   *)

SetErrand(s, e) == errand' = [errand EXCEPT ![s] = e]

BeginErrand(s, e) ==
  /\ errand[s].pc = "idle"
  /\ \E u \in Users : role[u] = "owner"
  /\ SetErrand(s, e)
  /\ UNCHANGED <<role, access, providers, account, invitation, accept>>

\* CreateInvitation and CreateMember. ProvidersBelong has found the providers.
BeginInvite(s) ==
  \E address \in Addresses, r \in InvitedAs, scope \in SUBSET Home!Live :
    BeginErrand(s, [pc |-> "insert", invite |-> NoInvite,
                    email |-> address, role |-> r, scope |-> scope])

BeginResend(s) ==
  \E i \in Rows : BeginErrand(s, [pc |-> "refresh", invite |-> i])

BeginCancel(s) ==
  \E i \in Rows : BeginErrand(s, [pc |-> "cancel", invite |-> i])

\* RefreshExpiredInvitations, one UPDATE.
Expire ==
  invitation' = [i \in Invites |->
    IF invitation[i].status = "overdue"
    THEN [invitation[i] EXCEPT !.status = "expired"] ELSE invitation[i]]

RefreshForResend(s) ==
  /\ errand[s].pc = "refresh"
  /\ Expire
  /\ SetErrand(s, [errand[s] EXCEPT !.pc = "read"])
  /\ UNCHANGED <<role, access, providers, account, accept>>

\* 404 unless it is pending; who, as what and for which providers is copied.
ReadPending(s) ==
  LET e == errand[s]
      row == invitation[e.invite] IN
  /\ e.pc = "read"
  /\ SetErrand(s, IF ~IsPending(e.invite) THEN NoErrand
                  ELSE [pc |-> "replace", invite |-> e.invite,
                        email |-> row.email, role |-> row.role,
                        scope |-> row.scope])
  /\ UNCHANGED <<role, access, providers, account, invitation, accept>>

\* CancelInvitation's UPDATE asks nothing of the status it overwrites.
Cancel(i) == invitation' = [invitation EXCEPT ![i].status = "cancelled"]

\* Bug: the new link goes out and the old one is left as it was.
CancelReplacedSkipped(s) ==
  /\ errand[s].pc = "replace"
  /\ SetErrand(s, [errand[s] EXCEPT !.pc = "insert"])
  /\ UNCHANGED <<role, access, providers, account, invitation, accept>>

CancelReplaced(s) ==
  /\ errand[s].pc = "replace"
  /\ Cancel(errand[s].invite)
  /\ SetErrand(s, [errand[s] EXCEPT !.pc = "insert"])
  /\ UNCHANGED <<role, access, providers, account, accept>>

\* The transaction of CreateInvitation: a provider that is gone fails its
\* foreign key and the whole of it. The mail that follows may fail, which is
\* reported and changes nothing.
InsertInvitation(s) ==
  LET e == errand[s] IN
  /\ e.pc = "insert"
  /\ e.scope \subseteq Home!Live
  /\ \E i \in Invites :
       /\ invitation[i].status = "unborn"
       /\ invitation' = [invitation EXCEPT ![i] =
            [status |-> "pending", email |-> e.email, role |-> e.role,
             scope |-> e.scope, acceptedBy |-> NoUser, replaces |-> e.invite]]
  /\ SetErrand(s, NoErrand)
  /\ UNCHANGED <<role, access, providers, account, accept>>

\* The handler has looked the row up; the statement looks it up again.
CancelInvitation(s) ==
  /\ errand[s].pc = "cancel"
  /\ Cancel(errand[s].invite)
  /\ SetErrand(s, NoErrand)
  /\ UNCHANGED <<role, access, providers, account, accept>>

\* A statement fails, or the process dies: 500, and the rest is not done.
FailErrand(s) ==
  /\ errand[s].pc # "idle"
  /\ SetErrand(s, NoErrand)
  /\ UNCHANGED <<role, access, providers, account, invitation, accept>>

-----------------------------------------------------------------------------
(* Accepting.                                                              *)

SetAccept(a, x) == accept' = [accept EXCEPT ![a] = x]

\* pendingInvitation: the row says pending and the clock agrees.
Usable(i) == invitation[i].status = "pending"

\* acceptAsViewer: 403 for an address that is not the invited one.
OpenAsViewer(a) ==
  \E u \in Users, i \in Invites :
    /\ accept[a].pc = "idle"
    /\ Usable(i)
    /\ HasAccount(u)
    /\ AddressOf[u] = invitation[i].email
    /\ SetAccept(a, [pc |-> "join", invite |-> i, user |-> u])
    /\ UNCHANGED <<role, access, providers, account, invitation, errand>>

OpenAnonymously(a) ==
  \E i \in Invites :
    /\ accept[a].pc = "idle"
    /\ Usable(i)
    /\ SetAccept(a, [pc |-> "find", invite |-> i, user |-> NoUser])
    /\ UNCHANGED <<role, access, providers, account, invitation, errand>>

\* 409 ACCOUNT_EXISTS when the address has one.
FindUserByEmail(a) ==
  /\ accept[a].pc = "find"
  /\ SetAccept(a, IF Taken(invitation[accept[a].invite].email) THEN NoAccept
                  ELSE [accept[a] EXCEPT !.pc = "create"])
  /\ UNCHANGED <<role, access, providers, account, invitation, errand>>

\* users_email_unique refuses an address that got an account since.
CreateUser(a) ==
  /\ accept[a].pc = "create"
  /\ ~Taken(invitation[accept[a].invite].email)
  /\ \E u \in Users :
       /\ account[u] = "unborn"
       /\ AddressOf[u] = invitation[accept[a].invite].email
       /\ account' = [account EXCEPT ![u] = "live"]
       /\ SetAccept(a, [accept[a] EXCEPT !.pc = "enrol", !.user = u])
  /\ UNCHANGED <<role, access, providers, invitation, errand>>

\* What the reply decides: a failed accept takes back the account it made.
AfterAccept(a, reply) ==
  SetAccept(a, IF reply = "failed" /\ accept[a].pc = "enrol"
               THEN [accept[a] EXCEPT !.pc = "undo"] ELSE NoAccept)

\* Bug: MarkInvitationAccepted looks for a row that is still pending.
CommitAcceptPendingOnly(a) ==
  LET i == accept[a].invite
      u == accept[a].user IN
  /\ accept[a].pc \in {"join", "enrol"}
  /\ HasAccount(u)
  /\ Home!Admit(u, invitation[i].role, invitation[i].scope)
  /\ invitation' = [invitation EXCEPT ![i] =
       IF IsPending(i)
       THEN [@ EXCEPT !.status = "accepted", !.acceptedBy = u] ELSE @]
  /\ \E reply \in {"ok", "failed"} : AfterAccept(a, reply)
  /\ UNCHANGED <<account, errand>>

\* Bug: no foreign key from the membership to the account.
CommitAcceptForAnyone(a) ==
  LET i == accept[a].invite
      u == accept[a].user IN
  /\ accept[a].pc \in {"join", "enrol"}
  /\ Home!Admit(u, invitation[i].role, invitation[i].scope)
  /\ invitation' = [invitation EXCEPT ![i].status = "accepted",
                                      ![i].acceptedBy = u]
  /\ \E reply \in {"ok", "failed"} : AfterAccept(a, reply)
  /\ UNCHANGED <<account, errand>>

\* AcceptInvitation commits: membership, invitation and scope together, and
\* whatever became of the invitation since it was read. The reply may be lost.
CommitAccept(a) ==
  LET i == accept[a].invite
      u == accept[a].user IN
  /\ accept[a].pc \in {"join", "enrol"}
  /\ HasAccount(u)
  /\ Home!Admit(u, invitation[i].role, invitation[i].scope)
  /\ invitation' = [invitation EXCEPT ![i].status = "accepted",
                                      ![i].acceptedBy = u]
  /\ \E reply \in {"ok", "failed"} : AfterAccept(a, reply)
  /\ UNCHANGED <<account, errand>>

\* It rolls back, for one because the account is gone.
RollbackAccept(a) ==
  /\ accept[a].pc \in {"join", "enrol"}
  /\ AfterAccept(a, "failed")
  /\ UNCHANGED <<role, access, providers, account, invitation, errand>>

\* Bug: the access rows do not cascade with the membership.
DeleteUserLeaky(a) ==
  LET u == accept[a].user IN
  /\ accept[a].pc = "undo"
  /\ account' = [account EXCEPT ![u] = "deleted"]
  /\ role' = [role EXCEPT ![u] = "none"]
  /\ invitation' = [i \in Invites |->
       IF i \in Rows /\ invitation[i].acceptedBy = u
       THEN [invitation[i] EXCEPT !.acceptedBy = NoUser] ELSE invitation[i]]
  /\ SetAccept(a, NoAccept)
  /\ UNCHANGED <<access, providers, errand>>

\* The compensation. Membership and access cascade; what the account accepted
\* stays accepted, by nobody.
DeleteUser(a) ==
  LET u == accept[a].user IN
  /\ accept[a].pc = "undo"
  /\ account' = [account EXCEPT ![u] = "deleted"]
  /\ Home!Dismiss(u)
  /\ invitation' = [i \in Invites |->
       IF i \in Rows /\ invitation[i].acceptedBy = u
       THEN [invitation[i] EXCEPT !.acceptedBy = NoUser] ELSE invitation[i]]
  /\ SetAccept(a, NoAccept)
  /\ UNCHANGED errand

\* The statement at hand fails, or the process dies: nothing more is done.
AbandonAccept(a) ==
  /\ accept[a].pc # "idle"
  /\ SetAccept(a, NoAccept)
  /\ UNCHANGED <<role, access, providers, account, invitation, errand>>

-----------------------------------------------------------------------------
(* Everything else.                                                        *)

\* The deadline of a pending invitation passes.
Lapse(i) ==
  /\ invitation[i].status = "pending"
  /\ invitation' = [invitation EXCEPT ![i].status = "overdue"]
  /\ UNCHANGED <<role, access, providers, account, accept, errand>>

\* The nightly run, and an owner who lists the invitations.
Sweep ==
  /\ \E i \in Invites : invitation[i].status = "overdue"
  /\ Expire
  /\ UNCHANGED <<role, access, providers, account, accept, errand>>

\* An owner's route over the members ends in its statement, or a member leaves.
ManageMember ==
  /\ \E u \in Managed : HasAccount(u) /\ Home!Manage(u)
  /\ UNCHANGED <<account, invitation, accept, errand>>

CreateProvider(p) ==
  /\ Home!CreateProvider(p)
  /\ UNCHANGED <<account, invitation, accept, errand>>

\* Bug: an invitation's scope does not cascade with its providers.
DeleteProviderKeepingScope(p) ==
  /\ Home!DeleteProvider(p)
  /\ UNCHANGED <<account, invitation, accept, errand>>

\* Grants cascade with their provider, and so do the scopes of invitations.
DeleteProvider(p) ==
  /\ Home!DeleteProvider(p)
  /\ invitation' = [i \in Invites |->
       IF i \in Rows THEN [invitation[i] EXCEPT !.scope = @ \ {p}]
       ELSE invitation[i]]
  /\ UNCHANGED <<account, accept, errand>>

ErrandStep(s) ==
  \/ BeginInvite(s) \/ BeginResend(s) \/ BeginCancel(s)
  \/ RefreshForResend(s) \/ ReadPending(s) \/ CancelReplaced(s)
  \/ InsertInvitation(s) \/ CancelInvitation(s) \/ FailErrand(s)

AcceptStep(a) ==
  \/ OpenAsViewer(a) \/ OpenAnonymously(a)
  \/ FindUserByEmail(a) \/ CreateUser(a)
  \/ CommitAccept(a) \/ RollbackAccept(a)
  \/ DeleteUser(a) \/ AbandonAccept(a)

Next ==
  \/ \E s \in Errands : ErrandStep(s)
  \/ \E a \in Accepts : AcceptStep(a)
  \/ \E i \in Invites : Lapse(i)
  \/ \E p \in Providers : CreateProvider(p) \/ DeleteProvider(p)
  \/ Sweep \/ ManageMember

Spec == Init /\ [][Next]_vars

-----------------------------------------------------------------------------
(* What an invitation promises.                                            *)

TypeOK ==
  /\ Home!TypeOK
  /\ account \in [Users -> {"unborn", "live", "deleted"}]
  /\ invitation \in [Invites -> Invitation \cup {Unborn}]
  /\ accept \in [Accepts -> AcceptState]
  /\ errand \in [Errands -> ErrandState]

\* Accepts, compensations and cascades do to the membership tables what the
\* household allows, at every step; so access follows membership here too.
ImplementsHousehold == Home!Spec

\* No link carries a provider that is gone, which would fail the accept for as
\* long as the link lives: providers are deleted while links are out, and
\* between an owner's choice, or a resend's copy, and the insert.
ScopesAreLive == \A i \in Rows : invitation[i].scope \subseteq Home!Live

\* Whoever is a member, or is named as having accepted an invitation, has an
\* account, although accounts are deleted again by failed accepts while other
\* accepts run in their name.
NamesAreAccounts ==
  /\ \A u \in Users : Home!IsMember(u) => HasAccount(u)
  /\ \A i \in Rows : invitation[i].acceptedBy # NoUser =>
                        HasAccount(invitation[i].acceptedBy)

\* Everybody who got in is on record: an invitation to their address names
\* them, however a cancellation, an expiry or a resend falls across the accept.
AdmissionIsOnRecord ==
  \A u \in Users \ {Founder} : Home!IsMember(u) =>
    \E i \in Rows : /\ invitation[i].email = AddressOf[u]
                    /\ invitation[i].acceptedBy = u

\* invite.go: of a link and its replacement, the first has stopped working
\* before the second is written, so they are never both usable.
ReplacedLinkIsDead ==
  \A i \in Rows : invitation[i].replaces # NoInvite =>
    ~Usable(invitation[i].replaces)

=============================================================================
