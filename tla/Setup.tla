-------------------------------- MODULE Setup --------------------------------
(***************************************************************************)
(* First-run setup: who owns this installation? One row says how far it    *)
(* got; an attempt claims the row, repairs what an interrupted attempt     *)
(* left, creates the owner's account and household, and closes the row     *)
(* behind itself, in statements of their own with compensation instead of  *)
(* a transaction around them.                                              *)
(*                                                                         *)
(* An attempt is a slot with a program counter, one step a statement. Time *)
(* is kept as ages, each counted no further than the code can tell apart.  *)
(* A slug that is taken is one of the ways a statement fails here.         *)
(***************************************************************************)
EXTENDS Naturals, FiniteSets

CONSTANTS
  Emails,        \* addresses that may have an account
  Ids,           \* account ids; fresh UUIDs in the code, reused here once free
  NoId,          \* no account
  Attempts,      \* setup requests that can be in flight at once
  SetupClaimTTL  \* api.setupClaimTTL, 10 minutes

ASSUME NoIdAssumption == NoId \notin Ids
ASSUME TTLAssumption == SetupClaimTTL \in Nat

VARIABLES
  status,      \* app_installation.status
  owner,       \* app_installation.owner_user_id; not a foreign key
  age,         \* time since app_installation.updated_at
  sinceRun,    \* time since the last retention run
  ownerEmail,  \* OWNER_EMAIL in the environment of the running server
  account,     \* users by address: the account's id and its strongest role
  attempt,     \* what each setup request has read so far
  lost         \* history: the reply to a completion was lost

vars == <<status, owner, age, sinceRun, ownerEmail, account, attempt,
          lost>>

NoAccount == [id |-> NoId, role |-> "none"]
Account == {NoAccount} \cup [id: Ids, role: {"none", "member", "owner"}]

\* Before its claim an attempt holds nothing; after it, it works.
WithUser == {"list", "finish", "orphan", "household", "complete", "undo"}
WithoutUser == {"find", "create", "release"}
NoAttempt == [pc |-> "idle", user |-> NoId]
AttemptState ==
  [pc: {"idle", "checked"} \cup WithoutUser, user: {NoId}]
    \cup [pc: WithUser, user: Ids]

Working == {s \in Attempts : attempt[s].pc \in WithUser \cup WithoutUser}

\* Time runs on past the last moment that any comparison here looks at.
Later(time) == IF time > SetupClaimTTL THEN time ELSE time + 1

Init ==
  /\ status = "pending"
  /\ owner = NoId
  /\ age = 0
  /\ sinceRun = 0
  /\ ownerEmail \in Emails
  /\ account = [e \in Emails |-> NoAccount]
  /\ attempt = [s \in Attempts |-> NoAttempt]
  /\ lost = FALSE

-----------------------------------------------------------------------------
(* How an attempt moves on.                                                *)

EndAttempt(s) == attempt' = [attempt EXCEPT ![s] = NoAttempt]
GoOn(s, pc, user) ==
  attempt' = [attempt EXCEPT ![s] = [pc |-> pc, user |-> user]]

\* A failed statement: creating the account and everything after it is rolled
\* back; the claim and the recovery give up where they are, claim and all; the
\* rollback itself carries on past a delete that fails.
GiveUp(s) ==
  \/ /\ attempt[s].pc \in {"household", "complete"}
     /\ GoOn(s, "undo", attempt[s].user)
  \/ /\ attempt[s].pc \in {"create", "undo"}
     /\ GoOn(s, "release", NoId)
  \/ /\ attempt[s].pc \notin {"household", "complete", "create", "undo"}
     /\ EndAttempt(s)

DeleteUser(id) ==
  account' = [e \in Emails |->
                IF account[e].id = id THEN NoAccount ELSE account[e]]

\* CompleteInstallationSetup has no condition on the row it writes.
CompleteInstallation(id) ==
  /\ status' = "complete"
  /\ owner' = id
  /\ age' = 0

-----------------------------------------------------------------------------
(* The claim.                                                              *)

\* GetInstallation says setup is open, and the body, the secret and the
\* address are right.
Enter(s) ==
  /\ attempt[s].pc = "idle"
  /\ status # "complete"
  /\ GoOn(s, "checked", NoId)
  /\ UNCHANGED <<status, owner, age, sinceRun, ownerEmail, account, lost>>

\* Bugs: no way past a claim that was left behind; a claim that never blocks.
PendingOnly == status = "pending"
NotComplete == status # "complete"

Claimable ==
  \/ status = "pending"
  \/ status = "in_progress" /\ age > SetupClaimTTL

\* BeginInstallationSetup: one UPDATE, and 409 when it matches no row.
Begin(s) ==
  /\ attempt[s].pc = "checked"
  /\ IF Claimable
     THEN /\ status' = "in_progress"
          /\ age' = 0
          /\ GoOn(s, "find", NoId)
     ELSE EndAttempt(s) /\ UNCHANGED <<status, age>>
  /\ UNCHANGED <<owner, sinceRun, ownerEmail, account, lost>>

-----------------------------------------------------------------------------
(* recoverExistingOwner.                                                   *)

FindUserByEmail(s) ==
  LET existing == account[ownerEmail].id
  IN /\ attempt[s].pc = "find"
     /\ GoOn(s, IF existing = NoId THEN "create" ELSE "list", existing)
     /\ UNCHANGED <<status, owner, age, sinceRun, ownerEmail, account, lost>>

Owns(id) == \E e \in Emails : account[e] = [id |-> id, role |-> "owner"]

\* Bug: any household will do.
ListHouseholdsAnyRole(s) ==
  /\ attempt[s].pc = "list"
  /\ GoOn(s, IF \E e \in Emails : /\ account[e].id = attempt[s].user
                                  /\ account[e].role # "none"
             THEN "finish" ELSE "orphan", attempt[s].user)
  /\ UNCHANGED <<status, owner, age, sinceRun, ownerEmail, account, lost>>

\* Only a household that the account OWNS is looked for.
ListHouseholds(s) ==
  /\ attempt[s].pc = "list"
  /\ GoOn(s, IF Owns(attempt[s].user) THEN "finish" ELSE "orphan",
          attempt[s].user)
  /\ UNCHANGED <<status, owner, age, sinceRun, ownerEmail, account, lost>>

\* The bookkeeping an earlier attempt lost.
Finish(s) ==
  /\ attempt[s].pc = "finish"
  /\ CompleteInstallation(attempt[s].user)
  /\ EndAttempt(s)
  /\ UNCHANGED <<sinceRun, ownerEmail, account, lost>>

DeleteOrphan(s) ==
  /\ attempt[s].pc = "orphan"
  /\ DeleteUser(attempt[s].user)
  /\ GoOn(s, "create", NoId)
  /\ UNCHANGED <<status, owner, age, sinceRun, ownerEmail, lost>>

-----------------------------------------------------------------------------
(* The owner's account and household.                                      *)

Used == {owner} \cup {account[e].id : e \in Emails}
                \cup {attempt[s].user : s \in Attempts}

\* The address is free; another way in is refused by its unique index.
CreateUser(s) ==
  /\ attempt[s].pc = "create"
  /\ account[ownerEmail] = NoAccount
  /\ \E id \in Ids \ Used :
       /\ account' = [account EXCEPT ![ownerEmail] = [id |-> id, role |-> "none"]]
       /\ GoOn(s, "household", id)
  /\ UNCHANGED <<status, owner, age, sinceRun, ownerEmail, lost>>

\* The household and its owner's membership, in one transaction.
CreateHousehold(s) ==
  /\ attempt[s].pc = "household"
  /\ \E e \in Emails :
       /\ account[e].id = attempt[s].user
       /\ account' = [account EXCEPT ![e] =
                        [id |-> attempt[s].user, role |-> "owner"]]
  /\ GoOn(s, "complete", attempt[s].user)
  /\ UNCHANGED <<status, owner, age, sinceRun, ownerEmail, lost>>

Complete(s) ==
  /\ attempt[s].pc = "complete"
  /\ CompleteInstallation(attempt[s].user)
  /\ EndAttempt(s)
  /\ UNCHANGED <<sinceRun, ownerEmail, account, lost>>

-----------------------------------------------------------------------------
(* Failure.                                                                *)

\* A statement fails and changes nothing.
FailStatement(s) ==
  /\ attempt[s].pc # "idle"
  /\ GiveUp(s)
  /\ UNCHANGED <<status, owner, age, sinceRun, ownerEmail, account, lost>>

\* The completion was written but its reply is lost: the attempt rolls back.
\* Every other lost reply leaves what some failure after it leaves too.
LoseCompletion(s) ==
  /\ attempt[s].pc = "complete"
  /\ CompleteInstallation(attempt[s].user)
  /\ lost' = TRUE
  /\ GiveUp(s)
  /\ UNCHANGED <<sinceRun, ownerEmail, account>>

\* The process stops, or the handler panics.
Crash(s) ==
  /\ attempt[s].pc # "idle"
  /\ EndAttempt(s)
  /\ UNCHANGED <<status, owner, age, sinceRun, ownerEmail, account, lost>>

\* rollbackSetup removes the account this attempt created ...
Undo(s) ==
  /\ attempt[s].pc = "undo"
  /\ DeleteUser(attempt[s].user)
  /\ GoOn(s, "release", NoId)
  /\ UNCHANGED <<status, owner, age, sinceRun, ownerEmail, lost>>

\* Bug: a reset that looks at the owner only.
ReleaseAny(s) ==
  /\ attempt[s].pc = "release"
  /\ status' = "pending"
  /\ age' = 0
  /\ EndAttempt(s)
  /\ UNCHANGED <<owner, sinceRun, ownerEmail, account, lost>>

\* ... and ResetInstallationSetup releases whatever claim is there, if nobody
\* has completed it meanwhile.
Release(s) ==
  /\ attempt[s].pc = "release"
  /\ IF status = "in_progress" /\ owner = NoId
     THEN status' = "pending" /\ age' = 0
     ELSE UNCHANGED <<status, age>>
  /\ EndAttempt(s)
  /\ UNCHANGED <<owner, sinceRun, ownerEmail, account, lost>>

-----------------------------------------------------------------------------
(* What else happens to an installation.                                   *)

Tick ==
  /\ age' = Later(age)
  /\ sinceRun' = Later(sinceRun)
  /\ <<age, sinceRun>>' # <<age, sinceRun>>
  /\ UNCHANGED <<status, owner, ownerEmail, account, attempt, lost>>

\* The nightly retention run stamps the same row, and refreshes its age. Two
\* runs are further apart than a claim lives.
RecordRetentionRun ==
  /\ sinceRun > SetupClaimTTL
  /\ age' = 0
  /\ sinceRun' = 0
  /\ UNCHANGED <<status, owner, ownerEmail, account, attempt, lost>>

\* Somebody new accepts an invitation to an owner's household.
Join(e) ==
  /\ account[e] = NoAccount
  /\ \E f \in Emails : account[f].role = "owner"
  /\ \E id \in Ids \ Used :
       account' = [account EXCEPT ![e] = [id |-> id, role |-> "member"]]
  /\ UNCHANGED <<status, owner, age, sinceRun, ownerEmail, attempt, lost>>

\* The runbook's way back in: the row is reopened by hand, OWNER_EMAIL set to
\* the address of the account that is wanted, and the server restarted.
Reopen(e) ==
  /\ status # "pending"
  /\ status' = "pending"
  /\ owner' = NoId
  /\ ownerEmail' = e
  /\ attempt' = [s \in Attempts |-> NoAttempt]
  /\ lost' = FALSE
  /\ UNCHANGED <<age, sinceRun, account>>

AttemptStep(s) ==
  \/ Enter(s) \/ Begin(s) \/ FindUserByEmail(s) \/ ListHouseholds(s)
  \/ Finish(s) \/ DeleteOrphan(s) \/ CreateUser(s) \/ CreateHousehold(s)
  \/ Complete(s) \/ FailStatement(s) \/ LoseCompletion(s) \/ Crash(s)
  \/ Undo(s) \/ Release(s)

Around ==
  \/ RecordRetentionRun
  \/ \E e \in Emails : Join(e) \/ Reopen(e)

Next == (\E s \in Attempts : AttemptStep(s)) \/ Tick \/ Around

Spec == Init /\ [][Next]_vars

\* What setupClaimTTL is chosen for: no attempt is still at work when its claim
\* grows older than the TTL ("far longer than the flow takes").
PromptTick == Tick /\ (Working # {} => age < SetupClaimTTL)

PromptNext == (\E s \in Attempts : AttemptStep(s)) \/ PromptTick \/ Around

\* An operator keeps trying, sometimes when a claim has run out and sometimes
\* without the nightly run in between; a statement that keeps being tried
\* succeeds some time.
Fairness ==
  /\ WF_vars(PromptTick)
  /\ \A s \in Attempts : WF_vars(AttemptStep(s))
  /\ SF_vars(\E s \in Attempts : Enter(s) /\ Claimable)
  /\ SF_vars(\E s \in Attempts : Begin(s) /\ Claimable)
  /\ SF_vars(\E s \in Attempts : FindUserByEmail(s))
  /\ SF_vars(\E s \in Attempts : ListHouseholds(s))
  /\ SF_vars(\E s \in Attempts : Finish(s))
  /\ SF_vars(\E s \in Attempts : DeleteOrphan(s))
  /\ SF_vars(\E s \in Attempts : CreateUser(s))
  /\ SF_vars(\E s \in Attempts : CreateHousehold(s))
  /\ SF_vars(\E s \in Attempts : Complete(s))

PromptSpec == Init /\ [][PromptNext]_vars
FairSpec == PromptSpec /\ Fairness

-----------------------------------------------------------------------------
(* What setup promises.                                                    *)

TypeOK ==
  /\ status \in {"pending", "in_progress", "complete"}
  /\ owner \in Ids \cup {NoId}
  /\ age \in 0..(SetupClaimTTL + 1)
  /\ sinceRun \in 0..(SetupClaimTTL + 1)
  /\ ownerEmail \in Emails
  /\ account \in [Emails -> Account]
  /\ attempt \in [Attempts -> AttemptState]
  /\ lost \in BOOLEAN

\* The claim is a mutual exclusion (setup.go: "a single-claim state machine
\* that two concurrent requests cannot both win"): through crashes, claims
\* taken over and rollbacks there is one attempt at work at most.
OneAttemptWorks == \A s, t \in Working : s = t

\* A locked installation can be entered: the owner it names has an account and
\* owns a household, whatever failed on the way there. The one way around it is
\* a completion whose reply is lost, which is rolled back although it stands.
OwnerCanSignIn == status = "complete" /\ ~lost => Owns(owner)

\* Nothing reopens a completed installation but the operator: no late rollback
\* and no late claim of an attempt that was overtaken (installation.sql: "never
\* dragged back to 'pending', which would re-open first-run setup").
CompleteIsForever ==
  [][status = "complete" =>
       status' = "complete" \/ \E e \in Emails : Reopen(e)]_vars

\* An attempt that died with the claim does not wedge the installation, nor
\* does whatever it left behind: setup gets through again and again, also after
\* a reopening (setup.go: setupClaimTTL, recoverExistingOwner).
SetupGetsThrough == []<>(status = "complete")

\* setup.go, of the account that a retry removes: "An orphan from a failed
\* attempt: an account with no household at all."
OnlyOrphansAreDeleted ==
  [][\A s \in Attempts :
       DeleteOrphan(s) =>
         \A e \in Emails :
           account[e].id = attempt[s].user => account[e].role # "member"]_vars

=============================================================================
