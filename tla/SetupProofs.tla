----------------------------- MODULE SetupProofs -----------------------------
(* Setup, for any number of addresses, accounts and attempts, any TTL.       *)
EXTENDS Setup, TLAPS

-----------------------------------------------------------------------------
(* Types.                                                                  *)

LEMMA InitType == Init => TypeOK
<1> SUFFICES ASSUME Init PROVE TypeOK
  OBVIOUS
<1>1. 0 \in 0..(SetupClaimTTL + 1)
  BY TTLAssumption
<1>2. NoAccount \in Account /\ NoAttempt \in AttemptState
  BY DEF Account, AttemptState, NoAttempt
<1> QED
  BY <1>1, <1>2 DEF Init, TypeOK

LEMMA EndType ==
  ASSUME TypeOK, NEW s \in Attempts, EndAttempt(s)
  PROVE  /\ attempt' \in [Attempts -> AttemptState]
         /\ attempt'[s] = NoAttempt
         /\ \A t \in Attempts : t # s => attempt'[t] = attempt[t]
<1>1. NoAttempt \in AttemptState
  BY DEF NoAttempt, AttemptState
<1> QED
  BY <1>1 DEF EndAttempt, TypeOK

LEMMA GoOnWithout ==
  ASSUME TypeOK, NEW s \in Attempts, NEW pc \in {"checked"} \cup WithoutUser,
         GoOn(s, pc, NoId)
  PROVE  /\ attempt' \in [Attempts -> AttemptState]
         /\ attempt'[s] = [pc |-> pc, user |-> NoId]
         /\ \A t \in Attempts : t # s => attempt'[t] = attempt[t]
<1>1. [pc |-> pc, user |-> NoId] \in AttemptState
  BY DEF AttemptState
<1> QED
  BY <1>1 DEF GoOn, TypeOK

LEMMA GoOnWith ==
  ASSUME TypeOK, NEW s \in Attempts, NEW pc \in WithUser, NEW user \in Ids,
         GoOn(s, pc, user)
  PROVE  /\ attempt' \in [Attempts -> AttemptState]
         /\ attempt'[s] = [pc |-> pc, user |-> user]
         /\ \A t \in Attempts : t # s => attempt'[t] = attempt[t]
<1>1. [pc |-> pc, user |-> user] \in AttemptState
  BY DEF AttemptState
<1> QED
  BY <1>1 DEF GoOn, TypeOK

\* Which program counters know an account.
LEMMA UserType ==
  ASSUME TypeOK, NEW s \in Attempts
  PROVE  /\ attempt[s].pc \in WithUser => attempt[s].user \in Ids
         /\ attempt[s].pc \in {"idle", "checked"} \cup WithoutUser
              => attempt[s].user = NoId
         /\ attempt[s].pc \in {"idle", "checked"} \cup WithoutUser \cup WithUser
  BY DEF TypeOK, AttemptState, WithUser, WithoutUser

\* A failed attempt rolls back, or is over.
LEMMA GiveUpType ==
  ASSUME TypeOK, NEW s \in Attempts, GiveUp(s)
  PROVE  /\ attempt' \in [Attempts -> AttemptState]
         /\ attempt'[s].pc \in {"idle", "undo", "release"}
         /\ attempt[s].pc = "checked" => attempt'[s].pc = "idle"
         /\ \A t \in Attempts : t # s => attempt'[t] = attempt[t]
<1>1. CASE attempt[s].pc \in {"household", "complete"}
  <2>1. GoOn(s, "undo", attempt[s].user)
    BY <1>1 DEF GiveUp
  <2>2. attempt[s].user \in Ids
    BY <1>1, UserType DEF WithUser
  <2>3. /\ attempt' \in [Attempts -> AttemptState]
        /\ attempt'[s] = [pc |-> "undo", user |-> attempt[s].user]
        /\ \A t \in Attempts : t # s => attempt'[t] = attempt[t]
    BY <2>1, <2>2, GoOnWith DEF WithUser
  <2> QED
    BY <1>1, <2>3
<1>2. CASE attempt[s].pc \in {"create", "undo"}
  <2>1. GoOn(s, "release", NoId)
    BY <1>2 DEF GiveUp
  <2> QED
    BY <1>2, <2>1, GoOnWithout DEF WithoutUser
<1>3. CASE attempt[s].pc \notin {"household", "complete", "create", "undo"}
  <2>1. EndAttempt(s)
    BY <1>3 DEF GiveUp
  <2> QED
    BY <2>1, EndType DEF NoAttempt
<1> QED
  BY <1>1, <1>2, <1>3

LEMMA AccountType ==
  ASSUME TypeOK, NEW e \in Emails
  PROVE  /\ account[e] \in Account
         /\ account[e].id \in Ids \cup {NoId}
         /\ account[e].role \in {"none", "member", "owner"}
         /\ account[e].id = NoId => account[e] = NoAccount
         /\ account[e] = [id |-> account[e].id, role |-> account[e].role]
  BY NoIdAssumption DEF TypeOK, Account, NoAccount

LEMMA DeleteType ==
  ASSUME TypeOK, NEW id, DeleteUser(id)
  PROVE  account' \in [Emails -> Account]
  BY DEF TypeOK, DeleteUser, Account

LEMMA LaterType ==
  ASSUME NEW time \in 0..(SetupClaimTTL + 1)
  PROVE  Later(time) \in 0..(SetupClaimTTL + 1)
  BY TTLAssumption DEF Later

LEMMA AttemptStepType ==
  ASSUME TypeOK, NEW s \in Attempts, AttemptStep(s)
  PROVE  TypeOK'
<1> USE TTLAssumption DEF WithUser, WithoutUser
<1>1. CASE Enter(s)
  BY <1>1, GoOnWithout DEF Enter, TypeOK
<1>2. CASE Begin(s)
  <2>1. attempt' \in [Attempts -> AttemptState]
    BY <1>2, GoOnWithout, EndType DEF Begin
  <2> QED
    BY <1>2, <2>1 DEF Begin, TypeOK
<1>3. CASE FindUserByEmail(s)
  <2>1. ownerEmail \in Emails
    BY DEF TypeOK
  <2>2. account[ownerEmail].id \in Ids \cup {NoId}
    BY <2>1, AccountType
  <2>3. CASE account[ownerEmail].id = NoId
    BY <1>3, <2>3, GoOnWithout DEF FindUserByEmail, TypeOK
  <2>4. CASE account[ownerEmail].id \in Ids
    <3>1. GoOn(s, "list", account[ownerEmail].id)
      BY <1>3, <2>4, NoIdAssumption DEF FindUserByEmail
    <3>2. attempt' \in [Attempts -> AttemptState]
      BY <2>4, <3>1, GoOnWith
    <3> QED
      BY <1>3, <3>2 DEF FindUserByEmail, TypeOK
  <2> QED
    BY <2>2, <2>3, <2>4
<1>4. CASE ListHouseholds(s)
  <2>1. attempt[s].user \in Ids
    BY <1>4, UserType DEF ListHouseholds
  <2>2. attempt' \in [Attempts -> AttemptState]
    BY <1>4, <2>1, GoOnWith DEF ListHouseholds
  <2> QED
    BY <1>4, <2>2 DEF ListHouseholds, TypeOK
<1>5. CASE Finish(s) \/ Complete(s)
  <2>1. attempt[s].user \in Ids
    BY <1>5, UserType DEF Finish, Complete
  <2>2. attempt' \in [Attempts -> AttemptState]
    BY <1>5, EndType DEF Finish, Complete
  <2> QED
    BY <1>5, <2>1, <2>2 DEF Finish, Complete, CompleteInstallation, TypeOK
<1>6. CASE DeleteOrphan(s)
  BY <1>6, GoOnWithout, DeleteType DEF DeleteOrphan, TypeOK
<1>7. CASE CreateUser(s)
  <2>1. PICK id \in Ids :
          /\ account' = [account EXCEPT ![ownerEmail] = [id |-> id, role |-> "none"]]
          /\ GoOn(s, "household", id)
    BY <1>7 DEF CreateUser
  <2>2. attempt' \in [Attempts -> AttemptState]
    BY <2>1, GoOnWith
  <2>3. [id |-> id, role |-> "none"] \in Account
    BY DEF Account
  <2>4. account' \in [Emails -> Account]
    BY <2>1, <2>3 DEF TypeOK
  <2> QED
    BY <1>7, <2>2, <2>4 DEF CreateUser, TypeOK
<1>8. CASE CreateHousehold(s)
  <2>1. attempt[s].user \in Ids
    BY <1>8, UserType DEF CreateHousehold
  <2>2. PICK e \in Emails :
          /\ account[e].id = attempt[s].user
          /\ account' = [account EXCEPT ![e] =
                           [id |-> attempt[s].user, role |-> "owner"]]
    BY <1>8 DEF CreateHousehold
  <2>3. [id |-> attempt[s].user, role |-> "owner"] \in Account
    BY <2>1 DEF Account
  <2>4. account' \in [Emails -> Account]
    BY <2>2, <2>3 DEF TypeOK
  <2>5. attempt' \in [Attempts -> AttemptState]
    BY <1>8, <2>1, GoOnWith DEF CreateHousehold
  <2> QED
    BY <1>8, <2>4, <2>5 DEF CreateHousehold, TypeOK
<1>9. CASE FailStatement(s)
  BY <1>9, GiveUpType DEF FailStatement, TypeOK
<1>10. CASE LoseCompletion(s)
  <2>1. attempt[s].user \in Ids
    BY <1>10, UserType DEF LoseCompletion
  <2>2. attempt' \in [Attempts -> AttemptState]
    BY <1>10, GiveUpType DEF LoseCompletion
  <2> QED
    BY <1>10, <2>1, <2>2 DEF LoseCompletion, CompleteInstallation, TypeOK
<1>11. CASE Crash(s)
  BY <1>11, EndType DEF Crash, TypeOK
<1>12. CASE Undo(s)
  BY <1>12, GoOnWithout, DeleteType DEF Undo, TypeOK
<1>13. CASE Release(s)
  BY <1>13, EndType DEF Release, TypeOK
<1> QED
  BY <1>1, <1>2, <1>3, <1>4, <1>5, <1>6, <1>7, <1>8, <1>9, <1>10, <1>11,
     <1>12, <1>13 DEF AttemptStep

LEMMA NextType == TypeOK /\ [Next]_vars => TypeOK'
<1> SUFFICES ASSUME TypeOK, [Next]_vars PROVE TypeOK'
  OBVIOUS
<1>1. ASSUME NEW s \in Attempts, AttemptStep(s) PROVE TypeOK'
  BY <1>1, AttemptStepType
<1>2. CASE Tick
  BY <1>2, LaterType DEF Tick, TypeOK
<1>3. CASE RecordRetentionRun
  BY <1>3, TTLAssumption DEF RecordRetentionRun, TypeOK
<1>4. ASSUME NEW e \in Emails, Join(e) PROVE TypeOK'
  BY <1>4 DEF Join, TypeOK, Account
<1>5. ASSUME NEW e \in Emails, Reopen(e) PROVE TypeOK'
  BY <1>5 DEF Reopen, TypeOK, AttemptState, NoAttempt
<1>6. CASE UNCHANGED vars
  BY <1>6 DEF vars, TypeOK
<1> QED
  BY <1>1, <1>2, <1>3, <1>4, <1>5, <1>6 DEF Next, Around

\* Every reachable state of an installation is well typed: an attempt that
\* works on an account knows which, and every other holds nothing.
THEOREM TypeCorrect == Spec => []TypeOK
  BY InitType, NextType, PTL DEF Spec

-----------------------------------------------------------------------------
(* The lock.                                                               *)

LEMMA LockStep ==
  ASSUME [Next]_vars, status = "complete"
  PROVE  status' = "complete" \/ \E e \in Emails : Reopen(e)
<1>1. ASSUME NEW s \in Attempts, AttemptStep(s) PROVE status' = "complete"
  BY <1>1
  DEF AttemptStep, Enter, Begin, Claimable, FindUserByEmail, ListHouseholds,
      Finish, DeleteOrphan, CreateUser, CreateHousehold, Complete,
      CompleteInstallation, FailStatement, LoseCompletion, Crash, Undo, Release
<1>2. CASE Tick \/ RecordRetentionRun \/ UNCHANGED vars
  BY <1>2 DEF Tick, RecordRetentionRun, vars
<1>3. ASSUME NEW e \in Emails, Join(e) PROVE status' = "complete"
  BY <1>3 DEF Join
<1> QED
  BY <1>1, <1>2, <1>3 DEF Next, Around

\* No attempt unlocks a completed installation, not even one that outlived its
\* claim by any length of time: no bound on how long an attempt takes is needed.
THEOREM LockHolds == Spec => CompleteIsForever
  BY LockStep, PTL DEF Spec, CompleteIsForever

-----------------------------------------------------------------------------
(* The claim, while attempts are prompt.                                   *)

\* Whoever works holds the claim, and the claim is not yet old enough to be
\* taken over; or it is rolling back a completion that stands.
ClaimHeld ==
  Working # {} => \/ status = "in_progress" /\ age <= SetupClaimTTL
                  \/ status = "complete" /\ lost

\* What an attempt is about to name as the owner is one.
OwnerFound ==
  \A s \in Attempts :
    attempt[s].pc \in {"finish", "complete"} => Owns(attempt[s].user)

IInv == TypeOK /\ OneAttemptWorks /\ ClaimHeld /\ OwnerFound /\ OwnerCanSignIn

\* An attempt that does not work, or works alone, leaves at most itself working.
LEMMA OthersIdle ==
  ASSUME IInv, NEW s \in Attempts,
         \A t \in Attempts : t # s => attempt'[t] = attempt[t],
         s \in Working \/ s \notin Working'
  PROVE  /\ OneAttemptWorks'
         /\ Working' # {} => Working # {}
         /\ s \in Working => \A t \in Attempts : t # s => t \notin Working'
  BY DEF IInv, OneAttemptWorks, Working

\* Nothing is found, nobody is named: what a step that touches neither the
\* accounts nor the row has to leave alone.
LEMMA QuietStep ==
  ASSUME IInv, TypeOK', NEW s \in Attempts,
         \A t \in Attempts : t # s => attempt'[t] = attempt[t],
         s \in Working \/ s \notin Working',
         (attempt[s].pc \in {"finish", "complete"} => Owns(attempt[s].user))',
         UNCHANGED <<status, owner, age, account, lost>>
  PROVE  IInv'
<1>1. OneAttemptWorks' /\ (Working' # {} => Working # {})
  BY OthersIdle
<1>2. ASSUME NEW id PROVE Owns(id)' = Owns(id)
  BY DEF Owns
<1>3. ClaimHeld'
  BY <1>1 DEF IInv, ClaimHeld
<1>4. ASSUME NEW t \in Attempts, t # s PROVE attempt'[t] = attempt[t]
  BY <1>4
<1>5. OwnerFound'
  <2> SUFFICES ASSUME NEW t \in Attempts,
                      attempt'[t].pc \in {"finish", "complete"}
               PROVE  Owns(attempt[t].user)'
    BY DEF OwnerFound
  <2>1. CASE t = s
    BY <2>1
  <2>2. CASE t # s
    <3>1. Owns(attempt[t].user) /\ attempt'[t] = attempt[t]
      BY <2>2, <1>4 DEF IInv, OwnerFound
    <3> QED
      BY <3>1 DEF Owns
  <2> QED
    BY <2>1, <2>2
<1>6. OwnerCanSignIn'
  BY <1>2 DEF IInv, OwnerCanSignIn, Owns
<1> QED
  BY <1>1, <1>3, <1>5, <1>6 DEF IInv

\* The steps that may touch the row or the accounts: the one that takes them
\* works, so nobody else is looking and there is no owner on record yet.
LEMMA AloneStep ==
  ASSUME IInv, NEW s \in Working,
         \A t \in Attempts : t # s => attempt'[t] = attempt[t]
  PROVE  /\ \/ status = "in_progress" /\ age <= SetupClaimTTL
            \/ status = "complete" /\ lost
         /\ OneAttemptWorks'
         /\ \A t \in Attempts : t # s =>
              attempt'[t].pc \notin {"finish", "complete"}
  BY DEF IInv, OneAttemptWorks, Working, ClaimHeld, WithUser, WithoutUser

LEMMA AttemptStepInv ==
  ASSUME IInv, NEW s \in Attempts, AttemptStep(s)
  PROVE  IInv'
<1> USE DEF WithUser, WithoutUser
<1>0. TypeOK /\ TypeOK'
  BY AttemptStepType DEF IInv
<1>1. CASE Enter(s)
  <2>1. /\ attempt'[s] = [pc |-> "checked", user |-> NoId]
        /\ \A t \in Attempts : t # s => attempt'[t] = attempt[t]
    BY <1>0, <1>1, GoOnWithout DEF Enter
  <2>2. s \notin Working'
    BY <2>1 DEF Working
  <2> QED
    BY <1>0, <1>1, <2>1, <2>2, QuietStep DEF Enter
<1>14. CASE FindUserByEmail(s)
  <2>1. /\ attempt'[s].pc \in {"create", "list"}
        /\ \A t \in Attempts : t # s => attempt'[t] = attempt[t]
    BY <1>0, <1>14 DEF FindUserByEmail, GoOn, TypeOK
  <2>2. s \in Working
    BY <1>14 DEF FindUserByEmail, Working
  <2> QED
    BY <1>0, <1>14, <2>1, <2>2, QuietStep DEF FindUserByEmail
<1>2. CASE Begin(s)
  <2>1. CASE Claimable
    <3>1. Working = {}
      BY <2>1, <1>0, TTLAssumption
      DEF IInv, ClaimHeld, Claimable, TypeOK
    <3>2. /\ attempt'[s] = [pc |-> "find", user |-> NoId]
          /\ \A t \in Attempts : t # s => attempt'[t] = attempt[t]
          /\ status' = "in_progress"
          /\ age' = 0
      BY <1>0, <1>2, <2>1, GoOnWithout DEF Begin
    <3>3. OneAttemptWorks'
      BY <3>1, <3>2 DEF OneAttemptWorks, Working
    <3>4. ClaimHeld'
      BY <3>2, TTLAssumption DEF ClaimHeld
    <3>5. OwnerFound'
      BY <3>1, <3>2 DEF OwnerFound, Working
    <3>6. OwnerCanSignIn'
      BY <3>2 DEF OwnerCanSignIn
    <3> QED
      BY <1>0, <3>3, <3>4, <3>5, <3>6 DEF IInv
  <2>2. CASE ~Claimable
    <3>1. /\ attempt'[s] = NoAttempt
          /\ \A t \in Attempts : t # s => attempt'[t] = attempt[t]
      BY <1>0, <1>2, <2>2, EndType DEF Begin
    <3>2. s \notin Working'
      BY <3>1 DEF Working, NoAttempt
    <3> QED
      BY <1>0, <1>2, <2>2, <3>1, <3>2, QuietStep DEF Begin, NoAttempt
  <2> QED
    BY <2>1, <2>2
<1>3. CASE ListHouseholds(s)
  <2>1. attempt[s].user \in Ids /\ s \in Working
    BY <1>0, <1>3, UserType DEF ListHouseholds, Working
  <2>2. /\ attempt'[s] = [pc |-> IF Owns(attempt[s].user)
                                 THEN "finish" ELSE "orphan",
                          user |-> attempt[s].user]
        /\ \A t \in Attempts : t # s => attempt'[t] = attempt[t]
    BY <1>0, <1>3, <2>1, GoOnWith DEF ListHouseholds
  <2>3. (attempt[s].pc \in {"finish", "complete"} => Owns(attempt[s].user))'
    BY <1>3, <2>2 DEF ListHouseholds, Owns
  <2> QED
    BY <1>0, <1>3, <2>1, <2>2, <2>3, QuietStep DEF ListHouseholds
<1>4. CASE Finish(s) \/ Complete(s)
  <2>1. /\ attempt'[s] = NoAttempt
        /\ \A t \in Attempts : t # s => attempt'[t] = attempt[t]
    BY <1>0, <1>4, EndType DEF Finish, Complete
  <2>2. s \in Working
    BY <1>4 DEF Finish, Complete, Working
  <2>3. Owns(attempt[s].user)
    BY <1>4 DEF Finish, Complete, IInv, OwnerFound
  <2>4. OneAttemptWorks' /\ Working' = {}
    BY <2>1, <2>2, AloneStep DEF IInv, OneAttemptWorks, Working, NoAttempt
  <2>5. OwnerCanSignIn'
    BY <1>4, <2>3 DEF Finish, Complete, CompleteInstallation, OwnerCanSignIn, Owns
  <2>6. OwnerFound'
    BY <2>4 DEF OwnerFound, Working
  <2> QED
    BY <1>0, <2>4, <2>5, <2>6 DEF IInv, ClaimHeld
<1>5. CASE DeleteOrphan(s) \/ Undo(s)
  <2>1. /\ attempt'[s].pc \in {"create", "release"}
        /\ \A t \in Attempts : t # s => attempt'[t] = attempt[t]
    BY <1>0, <1>5, GoOnWithout DEF DeleteOrphan, Undo
  <2>2. s \in Working
    BY <1>5 DEF DeleteOrphan, Undo, Working
  <2> QED
    BY <1>0, <1>5, <2>1, <2>2, AloneStep
    DEF IInv, ClaimHeld, OwnerFound, OwnerCanSignIn, DeleteOrphan, Undo
<1>6. CASE CreateUser(s)
  <2>1. /\ attempt'[s].pc = "household"
        /\ \A t \in Attempts : t # s => attempt'[t] = attempt[t]
    <3>1. PICK id \in Ids : GoOn(s, "household", id)
      BY <1>6 DEF CreateUser
    <3>2. /\ attempt'[s] = [pc |-> "household", user |-> id]
          /\ \A t \in Attempts : t # s => attempt'[t] = attempt[t]
      BY <1>0, <3>1, GoOnWith
    <3> QED
      BY <3>2
  <2>2. s \in Working
    BY <1>6 DEF CreateUser, Working
  <2> QED
    BY <1>0, <1>6, <2>1, <2>2, AloneStep
    DEF IInv, ClaimHeld, OwnerFound, OwnerCanSignIn, CreateUser
<1>7. CASE CreateHousehold(s)
  <2>1. s \in Working /\ attempt[s].user \in Ids
    BY <1>0, <1>7, UserType DEF CreateHousehold, Working
  <2>2. /\ attempt'[s] = [pc |-> "complete", user |-> attempt[s].user]
        /\ \A t \in Attempts : t # s => attempt'[t] = attempt[t]
    BY <1>0, <1>7, <2>1, GoOnWith DEF CreateHousehold
  <2>3. PICK e \in Emails :
          /\ account[e].id = attempt[s].user
          /\ account' = [account EXCEPT ![e] =
                           [id |-> attempt[s].user, role |-> "owner"]]
    BY <1>7 DEF CreateHousehold
  <2>5. account'[e] = [id |-> attempt[s].user, role |-> "owner"]
    BY <1>0, <2>3 DEF TypeOK
  <2>6. Owns(attempt[s].user)'
    BY <2>2, <2>5 DEF Owns
  <2>7. OwnerFound'
    BY <2>1, <2>2, <2>6, AloneStep DEF OwnerFound
  <2> QED
    BY <1>0, <1>7, <2>1, <2>2, <2>7, AloneStep
    DEF IInv, ClaimHeld, OwnerCanSignIn, CreateHousehold
<1>8. CASE FailStatement(s)
  <2>1. /\ attempt'[s].pc \in {"idle", "undo", "release"}
        /\ attempt[s].pc = "checked" => attempt'[s].pc = "idle"
        /\ \A t \in Attempts : t # s => attempt'[t] = attempt[t]
    BY <1>0, <1>8, GiveUpType DEF FailStatement
  <2>2. s \in Working \/ s \notin Working'
    BY <1>0, <1>8, <2>1, UserType DEF FailStatement, Working
  <2> QED
    BY <1>0, <1>8, <2>1, <2>2, QuietStep DEF FailStatement
<1>9. CASE LoseCompletion(s)
  <2>1. attempt[s].user \in Ids /\ GoOn(s, "undo", attempt[s].user)
    BY <1>0, <1>9, UserType DEF LoseCompletion, GiveUp
  <2>2. /\ attempt'[s] = [pc |-> "undo", user |-> attempt[s].user]
        /\ \A t \in Attempts : t # s => attempt'[t] = attempt[t]
    BY <1>0, <2>1, GoOnWith
  <2>3. s \in Working
    BY <1>9 DEF LoseCompletion, Working
  <2>4. OneAttemptWorks' /\ OwnerFound'
    BY <2>2, <2>3, AloneStep DEF OwnerFound
  <2> QED
    BY <1>0, <1>9, <2>4
    DEF IInv, ClaimHeld, OwnerCanSignIn, LoseCompletion, CompleteInstallation
<1>10. CASE Crash(s)
  <2>1. /\ attempt'[s] = NoAttempt
        /\ \A t \in Attempts : t # s => attempt'[t] = attempt[t]
    BY <1>0, <1>10, EndType DEF Crash
  <2>2. s \notin Working'
    BY <2>1 DEF Working, NoAttempt
  <2> QED
    BY <1>0, <1>10, <2>1, <2>2, QuietStep DEF Crash, NoAttempt
<1>11. CASE Release(s)
  <2>1. /\ attempt'[s] = NoAttempt
        /\ \A t \in Attempts : t # s => attempt'[t] = attempt[t]
    BY <1>0, <1>11, EndType DEF Release
  <2>2. s \in Working
    BY <1>11 DEF Release, Working
  <2>3. OneAttemptWorks' /\ Working' = {}
    BY <2>1, <2>2, AloneStep DEF IInv, OneAttemptWorks, Working, NoAttempt
  <2>4. OwnerFound'
    BY <2>3 DEF OwnerFound, Working
  <2>5. OwnerCanSignIn'
    BY <1>11 DEF IInv, OwnerCanSignIn, Release, Owns
  <2> QED
    BY <1>0, <2>3, <2>4, <2>5 DEF IInv, ClaimHeld
<1> QED
  BY <1>1, <1>2, <1>3, <1>4, <1>5, <1>6, <1>7, <1>8, <1>9, <1>10, <1>11, <1>14
  DEF AttemptStep

LEMMA AroundInv ==
  ASSUME IInv, PromptTick \/ Around
  PROVE  IInv'
<1>0. TypeOK'
  BY NextType DEF IInv, PromptTick, Next
<1>1. CASE PromptTick
  <2>1. Working # {} => age' <= SetupClaimTTL \/ status = "complete"
    BY <1>1, TTLAssumption DEF IInv, TypeOK, PromptTick, Tick, Later, ClaimHeld
  <2> QED
    BY <1>0, <1>1, <2>1
    DEF IInv, PromptTick, Tick, OneAttemptWorks, Working, ClaimHeld, OwnerFound,
        OwnerCanSignIn, Owns
<1>2. CASE RecordRetentionRun
  BY <1>0, <1>2, TTLAssumption
  DEF IInv, RecordRetentionRun, OneAttemptWorks, Working, ClaimHeld, OwnerFound,
      OwnerCanSignIn, Owns
<1>3. ASSUME NEW e \in Emails, Join(e) PROVE IInv'
  <2>1. ASSUME NEW id, Owns(id) PROVE Owns(id)'
    <3>1. PICK f \in Emails : account[f] = [id |-> id, role |-> "owner"]
      BY <2>1 DEF Owns
    <3>2. f # e
      BY <1>3, <3>1 DEF Join, NoAccount
    <3>3. account'[f] = account[f]
      BY <1>3, <3>2 DEF Join, IInv, TypeOK
    <3> QED
      BY <3>1, <3>3 DEF Owns
  <2>2. OwnerFound'
    <3> SUFFICES ASSUME NEW t \in Attempts,
                        attempt'[t].pc \in {"finish", "complete"}
                 PROVE  Owns(attempt[t].user)'
      BY DEF OwnerFound
    <3>1. Owns(attempt[t].user) /\ attempt' = attempt
      BY <1>3 DEF IInv, OwnerFound, Join
    <3>2. Owns(attempt[t].user)
      BY <3>1
    <3> QED
      BY <3>1, <2>1 DEF Owns
  <2>3. OwnerCanSignIn'
    <3>1. CASE status = "complete" /\ ~lost
      <4>1. Owns(owner)
        BY <3>1 DEF IInv, OwnerCanSignIn
      <4> QED
        BY <1>3, <4>1, <2>1 DEF OwnerCanSignIn, Join, Owns
    <3> QED
      BY <1>3, <3>1 DEF Join, OwnerCanSignIn
  <2> QED
    BY <1>0, <1>3, <2>2, <2>3 DEF IInv, Join, OneAttemptWorks, Working, ClaimHeld
<1>4. ASSUME NEW e \in Emails, Reopen(e) PROVE IInv'
  <2>1. Working' = {}
    BY <1>4 DEF Reopen, Working, NoAttempt, WithUser, WithoutUser
  <2> QED
    BY <1>0, <1>4, <2>1
    DEF IInv, Reopen, OneAttemptWorks, ClaimHeld, OwnerFound, OwnerCanSignIn,
        NoAttempt
<1> QED
  BY <1>1, <1>2, <1>3, <1>4 DEF Around

LEMMA PromptInv == PromptSpec => []IInv
<1>1. Init => IInv
  <2> SUFFICES ASSUME Init PROVE IInv
    OBVIOUS
  <2>1. Working = {}
    BY DEF Init, Working, NoAttempt, WithUser, WithoutUser
  <2> QED
    BY <2>1, InitType
    DEF Init, IInv, OneAttemptWorks, ClaimHeld, OwnerFound, OwnerCanSignIn,
        NoAttempt
<1>2. IInv /\ [PromptNext]_vars => IInv'
  <2> SUFFICES ASSUME IInv, [PromptNext]_vars PROVE IInv'
    OBVIOUS
  <2>1. CASE UNCHANGED vars
    BY <2>1
    DEF vars, IInv, TypeOK, OneAttemptWorks, Working, ClaimHeld, OwnerFound,
        OwnerCanSignIn, Owns
  <2> QED
    BY <2>1, AttemptStepInv, AroundInv DEF PromptNext
<1> QED
  BY <1>1, <1>2, PTL DEF PromptSpec

\* As long as no attempt outlives its claim, at most one is ever at work,
\* however many were started, crashed, failed or were taken over from.
THEOREM ClaimIsExclusive == PromptSpec => []OneAttemptWorks
<1>1. IInv => OneAttemptWorks
  BY DEF IInv
<1> QED
  BY <1>1, PromptInv, PTL

\* Under the same condition the owner of a locked installation exists, although
\* owner_user_id is no foreign key and rollbacks delete accounts.
THEOREM OwnerStands == PromptSpec => []OwnerCanSignIn
<1>1. IInv => OwnerCanSignIn
  BY DEF IInv
<1> QED
  BY <1>1, PromptInv, PTL

=============================================================================
