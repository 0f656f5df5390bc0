-------------------------- MODULE InvitationsProofs --------------------------
(* Invitations, for any number of accounts, invitations and requests. The     *)
(* inductive invariant: slots name rows that exist, an accept past its check  *)
(* is for the invited address, and no two accounts share one.                 *)
EXTENDS Invitations, TLAPS

-----------------------------------------------------------------------------
(* The inductive invariant.                                                *)

\* users_email_unique.
OneAccountPerAddress ==
  \A u, v \in Users :
    HasAccount(u) /\ HasAccount(v) /\ AddressOf[u] = AddressOf[v] => u = v

AcceptsAreAddressed ==
  \A a \in Accepts : accept[a].pc # "idle" =>
    /\ accept[a].invite \in Rows
    /\ accept[a].pc \in {"join", "enrol", "undo"} =>
         AddressOf[accept[a].user] = invitation[accept[a].invite].email

ErrandsNameRows ==
  \A s \in Errands :
    /\ errand[s].pc \in {"refresh", "read", "replace", "cancel"} =>
         errand[s].invite \in Rows
    /\ errand[s].pc = "insert" /\ errand[s].invite # NoInvite =>
         errand[s].invite \in Rows /\ ~IsPending(errand[s].invite)

ReplacedAreSettled ==
  \A i \in Rows : invitation[i].replaces # NoInvite =>
    invitation[i].replaces \in Rows /\ ~IsPending(invitation[i].replaces)

IInv ==
  /\ TypeOK
  /\ OneAccountPerAddress
  /\ AcceptsAreAddressed
  /\ ErrandsNameRows
  /\ ReplacedAreSettled
  /\ ScopesAreLive
  /\ NamesAreAccounts
  /\ AdmissionIsOnRecord

-----------------------------------------------------------------------------
(* What the slots and the rows hold.                                       *)

LEMMA RowFacts ==
  ASSUME TypeOK, NEW i \in Rows
  PROVE  invitation[i] \in Invitation
  BY DEF TypeOK, Rows, Unborn

LEMMA AcceptFacts ==
  ASSUME TypeOK, NEW a \in Accepts, accept[a].pc # "idle"
  PROVE  /\ accept[a].invite \in Invites
         /\ accept[a].pc \in {"find", "create"} =>
              accept[a] \in [pc: {"find", "create"}, invite: Invites, user: {NoUser}]
         /\ accept[a].pc \notin {"find", "create"} =>
              accept[a] \in [pc: {"join", "enrol", "undo"}, invite: Invites, user: Users]
  BY DEF TypeOK, AcceptState, NoAccept

LEMMA ErrandFacts ==
  ASSUME TypeOK, NEW s \in Errands, errand[s].pc # "idle"
  PROVE  /\ errand[s].pc \in {"refresh", "read", "cancel"} =>
              errand[s] \in [pc: {"refresh", "read", "cancel"}, invite: Invites]
         /\ errand[s].pc = "replace" =>
              errand[s] \in [pc: {"replace"}, invite: Invites, email: Addresses,
                             role: InvitedAs, scope: SUBSET Providers]
         /\ errand[s].pc = "insert" =>
              errand[s] \in [pc: {"insert"}, invite: Invites \cup {NoInvite},
                             email: Addresses, role: InvitedAs,
                             scope: SUBSET Providers]
  BY DEF TypeOK, ErrandState, NoErrand

\* A slot takes the value it is given and the others keep theirs.
LEMMA SetAcceptFacts ==
  ASSUME TypeOK, NEW a \in Accepts, NEW x \in AcceptState, SetAccept(a, x)
  PROVE  /\ accept' \in [Accepts -> AcceptState]
         /\ accept'[a] = x
         /\ \A b \in Accepts \ {a} : accept'[b] = accept[b]
  BY DEF SetAccept, TypeOK

LEMMA SetErrandFacts ==
  ASSUME TypeOK, NEW s \in Errands, NEW e \in ErrandState, SetErrand(s, e)
  PROVE  /\ errand' \in [Errands -> ErrandState]
         /\ errand'[s] = e
         /\ \A x \in Errands \ {s} : errand'[x] = errand[x]
  BY DEF SetErrand, TypeOK

\* Nothing happens to the rows but that some of them settle.
OnlySettles ==
  /\ invitation' \in [Invites -> Invitation \cup {Unborn}]
  /\ Rows' = Rows
  /\ \A i \in Rows :
       /\ invitation'[i].email = invitation[i].email
       /\ invitation'[i].scope = invitation[i].scope
       /\ invitation'[i].acceptedBy = invitation[i].acceptedBy
       /\ invitation'[i].replaces = invitation[i].replaces
       /\ ~IsPending(i) => ~IsPending(i)'

LEMMA SettingStatus ==
  ASSUME TypeOK, NEW i \in Rows, NEW st \in Statuses \ {"unborn"},
         IsPending(i) \/ st \notin {"pending", "overdue"},
         invitation' = [invitation EXCEPT ![i].status = st]
  PROVE  OnlySettles /\ invitation'[i].status = st
<1>1. invitation[i] \in Invitation
  BY RowFacts
<1>2. /\ i \in Invites
      /\ invitation \in [Invites -> Invitation \cup {Unborn}]
  BY DEF Rows, TypeOK
<1>3. invitation' = [invitation EXCEPT ![i] = [invitation[i] EXCEPT !.status = st]]
  OBVIOUS
<1>4. [invitation[i] EXCEPT !.status = st] \in Invitation
  BY <1>1 DEF Invitation
<1>5. invitation' \in [Invites -> Invitation \cup {Unborn}]
  BY <1>2, <1>3, <1>4
<1>6. /\ invitation'[i] = [invitation[i] EXCEPT !.status = st]
      /\ \A x \in Invites \ {i} : invitation'[x] = invitation[x]
  BY <1>2, <1>3
<1>7. /\ invitation'[i].status = st
      /\ invitation'[i].email = invitation[i].email
      /\ invitation'[i].scope = invitation[i].scope
      /\ invitation'[i].acceptedBy = invitation[i].acceptedBy
      /\ invitation'[i].replaces = invitation[i].replaces
  BY <1>1, <1>6 DEF Invitation
<1>8. Rows' = Rows
  BY <1>6, <1>7 DEF Rows
<1> QED
  BY <1>5, <1>6, <1>7, <1>8 DEF OnlySettles, IsPending, Rows

LEMMA Expires == TypeOK /\ Expire => OnlySettles
<1> SUFFICES ASSUME TypeOK, Expire PROVE OnlySettles
  OBVIOUS
<1>1. \A i \in Invites : invitation[i].status = "overdue" =>
        invitation[i] \in Invitation
  BY RowFacts DEF Rows
<1>2. \A i \in Invites : invitation'[i] =
        IF invitation[i].status = "overdue"
        THEN [invitation[i] EXCEPT !.status = "expired"] ELSE invitation[i]
  BY DEF Expire
<1>3. \A i \in Invites : invitation[i].status = "overdue" =>
        /\ invitation'[i] \in Invitation
        /\ invitation'[i].status = "expired"
        /\ invitation'[i].email = invitation[i].email
        /\ invitation'[i].scope = invitation[i].scope
        /\ invitation'[i].acceptedBy = invitation[i].acceptedBy
        /\ invitation'[i].replaces = invitation[i].replaces
  BY <1>1, <1>2 DEF Invitation, Statuses
<1>4. \A i \in Invites : invitation[i].status # "overdue" =>
        invitation'[i] = invitation[i]
  BY <1>2
<1>5. invitation' \in [Invites -> Invitation \cup {Unborn}]
  BY <1>3, <1>4 DEF Expire, TypeOK
<1>6. Rows' = Rows
  BY <1>3, <1>4 DEF Rows
<1> QED
  BY <1>3, <1>4, <1>5, <1>6 DEF OnlySettles, IsPending, Rows

LEMMA Unchanged == TypeOK /\ UNCHANGED invitation => OnlySettles
  BY DEF OnlySettles, TypeOK, Rows, IsPending

\* What every step does to the rows: none goes, none is addressed anew, and
\* none becomes pending again.
Keeps ==
  /\ invitation' \in [Invites -> Invitation \cup {Unborn}]
  /\ Rows \subseteq Rows'
  /\ \A i \in Rows :
       /\ invitation'[i].email = invitation[i].email
       /\ invitation'[i].replaces = invitation[i].replaces
       /\ ~IsPending(i) => ~IsPending(i)'

LEMMA SettlingKeeps == OnlySettles => Keeps
  BY DEF OnlySettles, Keeps

\* The write of MarkInvitationAccepted.
LEMMA Marking ==
  ASSUME TypeOK, NEW i \in Rows, NEW u \in Users,
         invitation' = [invitation EXCEPT ![i].status = "accepted",
                                          ![i].acceptedBy = u]
  PROVE  /\ Keeps
         /\ Rows' = Rows
         /\ invitation'[i].acceptedBy = u
         /\ invitation'[i].scope = invitation[i].scope
         /\ \A x \in Invites \ {i} : invitation'[x] = invitation[x]
<1> DEFINE row == [invitation[i] EXCEPT !.status = "accepted", !.acceptedBy = u]
<1>1. invitation[i] \in Invitation
  BY RowFacts
<1>2. i \in Invites /\ invitation \in [Invites -> Invitation \cup {Unborn}]
  BY DEF Rows, TypeOK
<1>3. invitation' = [invitation EXCEPT ![i] = row]
  BY <1>2
<1>4. /\ row \in Invitation
      /\ row.status = "accepted"
      /\ row.email = invitation[i].email
      /\ row.scope = invitation[i].scope
      /\ row.acceptedBy = u
      /\ row.replaces = invitation[i].replaces
  BY <1>1 DEF Invitation, Statuses
<1> HIDE DEF row
<1>5. invitation'[i] = row /\ \A x \in Invites \ {i} : invitation'[x] = invitation[x]
  BY <1>2, <1>3
<1>6. invitation' \in [Invites -> Invitation \cup {Unborn}]
  BY <1>2, <1>3, <1>4
<1>7. Rows' = Rows
  BY <1>4, <1>5 DEF Rows
<1> QED
  BY <1>4, <1>5, <1>6, <1>7 DEF Keeps, IsPending, Rows

\* accepted_by_user_id is set to NULL.
LEMMA Forgetting ==
  ASSUME TypeOK, NEW u \in Users,
         invitation' = [i \in Invites |->
           IF i \in Rows /\ invitation[i].acceptedBy = u
           THEN [invitation[i] EXCEPT !.acceptedBy = NoUser] ELSE invitation[i]]
  PROVE  /\ Keeps
         /\ Rows' = Rows
         /\ \A i \in Rows :
              /\ invitation'[i].scope = invitation[i].scope
              /\ invitation'[i].acceptedBy =
                   IF invitation[i].acceptedBy = u THEN NoUser
                   ELSE invitation[i].acceptedBy
<1>1. \A i \in Rows : invitation[i] \in Invitation /\ i \in Invites
  BY RowFacts DEF Rows
<1>2. \A i \in Rows :
        /\ invitation'[i] \in Invitation
        /\ invitation'[i].status = invitation[i].status
        /\ invitation'[i].email = invitation[i].email
        /\ invitation'[i].scope = invitation[i].scope
        /\ invitation'[i].replaces = invitation[i].replaces
        /\ invitation'[i].acceptedBy =
             IF invitation[i].acceptedBy = u THEN NoUser
             ELSE invitation[i].acceptedBy
  BY <1>1 DEF Invitation
<1>3. \A i \in Invites \ Rows : invitation'[i] = invitation[i]
  OBVIOUS
<1>4. invitation' \in [Invites -> Invitation \cup {Unborn}]
  BY <1>2, <1>3 DEF TypeOK
<1>5. Rows' = Rows
  BY <1>2, <1>3 DEF Rows
<1> QED
  BY <1>2, <1>3, <1>4, <1>5 DEF Keeps, IsPending

\* The scope of the invitations loses a provider.
LEMMA Unscoping ==
  ASSUME TypeOK, NEW p \in Providers,
         invitation' = [i \in Invites |->
           IF i \in Rows THEN [invitation[i] EXCEPT !.scope = @ \ {p}]
           ELSE invitation[i]]
  PROVE  /\ Keeps
         /\ Rows' = Rows
         /\ \A i \in Rows :
              /\ invitation'[i].scope = invitation[i].scope \ {p}
              /\ invitation'[i].acceptedBy = invitation[i].acceptedBy
<1>1. \A i \in Rows : invitation[i] \in Invitation /\ i \in Invites
  BY RowFacts DEF Rows
<1>2. \A i \in Rows :
        /\ invitation'[i] \in Invitation
        /\ invitation'[i].status = invitation[i].status
        /\ invitation'[i].email = invitation[i].email
        /\ invitation'[i].scope = invitation[i].scope \ {p}
        /\ invitation'[i].replaces = invitation[i].replaces
        /\ invitation'[i].acceptedBy = invitation[i].acceptedBy
  BY <1>1 DEF Invitation
<1>3. \A i \in Invites \ Rows : invitation'[i] = invitation[i]
  OBVIOUS
<1>4. invitation' \in [Invites -> Invitation \cup {Unborn}]
  BY <1>2, <1>3 DEF TypeOK
<1>5. Rows' = Rows
  BY <1>2, <1>3 DEF Rows
<1> QED
  BY <1>2, <1>3, <1>4, <1>5 DEF Keeps, IsPending

\* A row is born, pending and for nobody yet.
LEMMA Issuing ==
  ASSUME TypeOK, NEW s \in Errands, InsertInvitation(s)
  PROVE  /\ Keeps
         /\ \E i \in Invites \ Rows :
              /\ Rows' = Rows \cup {i}
              /\ invitation'[i].scope \subseteq Home!Live
              /\ invitation'[i].acceptedBy = NoUser
              /\ invitation'[i].replaces = errand[s].invite
              /\ \A x \in Rows : invitation'[x] = invitation[x]
<1> DEFINE e == errand[s]
<1> DEFINE row == [status |-> "pending", email |-> e.email, role |-> e.role,
                   scope |-> e.scope, acceptedBy |-> NoUser,
                   replaces |-> e.invite]
<1>1. e \in [pc: {"insert"}, invite: Invites \cup {NoInvite}, email: Addresses,
             role: InvitedAs, scope: SUBSET Providers]
  BY ErrandFacts DEF InsertInvitation
<1>2. row \in Invitation
  BY <1>1 DEF Invitation, Statuses
<1>3. row.status = "pending" /\ row.scope = e.scope /\ row.replaces = e.invite
      /\ row.acceptedBy = NoUser
  OBVIOUS
<1>4. PICK i \in Invites : /\ invitation[i].status = "unborn"
                           /\ invitation' = [invitation EXCEPT ![i] = row]
  BY DEF InsertInvitation
<1>5. e.scope \subseteq Home!Live
  BY DEF InsertInvitation
<1> HIDE DEF row
<1>6. invitation \in [Invites -> Invitation \cup {Unborn}]
  BY DEF TypeOK
<1>7. invitation' \in [Invites -> Invitation \cup {Unborn}]
  BY <1>2, <1>4, <1>6
<1>8. invitation'[i] = row /\ \A x \in Invites \ {i} : invitation'[x] = invitation[x]
  BY <1>4, <1>6
<1>9. Rows' = Rows \cup {i} /\ i \notin Rows
  BY <1>3, <1>4, <1>8 DEF Rows
<1>10. \A x \in Rows : invitation'[x] = invitation[x]
  BY <1>8, <1>9 DEF Rows
<1>11. Keeps
  BY <1>7, <1>9, <1>10 DEF Keeps, IsPending
<1> QED
  BY <1>3, <1>5, <1>8, <1>9, <1>10, <1>11

-----------------------------------------------------------------------------
(* The slots.                                                              *)

LEMMA ErrandsKept ==
  ASSUME TypeOK, ErrandsNameRows, Keeps, UNCHANGED errand
  PROVE  ErrandsNameRows'
  BY DEF ErrandsNameRows, Keeps

LEMMA ErrandMoves ==
  ASSUME TypeOK, ErrandsNameRows, Keeps,
         NEW s \in Errands, NEW e \in ErrandState, SetErrand(s, e),
         e.pc \in {"refresh", "read", "replace", "cancel"} => e.invite \in Rows',
         e.pc = "insert" /\ e.invite # NoInvite =>
           /\ e.invite \in Rows'
           /\ invitation'[e.invite].status \notin {"pending", "overdue"}
  PROVE  errand' \in [Errands -> ErrandState] /\ ErrandsNameRows'
<1>1. /\ errand' \in [Errands -> ErrandState]
      /\ errand'[s] = e
      /\ \A x \in Errands \ {s} : errand'[x] = errand[x]
  BY SetErrandFacts
<1> QED
  BY <1>1 DEF ErrandsNameRows, Keeps, IsPending

LEMMA AcceptsKept ==
  ASSUME TypeOK, AcceptsAreAddressed, Keeps, UNCHANGED accept
  PROVE  AcceptsAreAddressed'
  BY DEF AcceptsAreAddressed, Keeps

LEMMA AcceptMoves ==
  ASSUME TypeOK, AcceptsAreAddressed, Keeps,
         NEW a \in Accepts, NEW x \in AcceptState, SetAccept(a, x),
         x.pc # "idle" => x.invite \in Rows,
         x.pc \in {"join", "enrol", "undo"} =>
           AddressOf[x.user] = invitation[x.invite].email
  PROVE  accept' \in [Accepts -> AcceptState] /\ AcceptsAreAddressed'
<1>1. /\ accept' \in [Accepts -> AcceptState]
      /\ accept'[a] = x
      /\ \A b \in Accepts \ {a} : accept'[b] = accept[b]
  BY SetAcceptFacts
<1> QED
  BY <1>1 DEF AcceptsAreAddressed, Keeps

\* The steps of an owner's request short of the insert.
QuietErrand(s) ==
  \/ BeginInvite(s) \/ BeginResend(s) \/ BeginCancel(s)
  \/ RefreshForResend(s) \/ ReadPending(s) \/ CancelReplaced(s)
  \/ CancelInvitation(s) \/ FailErrand(s)

LEMMA NoErrandType == NoErrand \in ErrandState
  BY DEF ErrandState

LEMMA QuietErrands ==
  ASSUME TypeOK, ErrandsNameRows, NEW s \in Errands, QuietErrand(s)
  PROVE  /\ OnlySettles
         /\ errand' \in [Errands -> ErrandState]
         /\ ErrandsNameRows'
         /\ UNCHANGED <<role, access, providers, account, accept>>
<1> DEFINE e == errand[s]
<1>1. CASE BeginInvite(s)
  <2>1. PICK address \in Addresses, r \in InvitedAs, scope \in SUBSET Home!Live :
          BeginErrand(s, [pc |-> "insert", invite |-> NoInvite,
                          email |-> address, role |-> r, scope |-> scope])
    BY <1>1 DEF BeginInvite
  <2>2. [pc |-> "insert", invite |-> NoInvite, email |-> address, role |-> r,
         scope |-> scope] \in ErrandState
    BY DEF ErrandState, Home!Live
  <2>3. OnlySettles
    BY <2>1, Unchanged DEF BeginErrand
  <2> QED
    BY <2>1, <2>2, <2>3, SettlingKeeps, ErrandMoves DEF BeginErrand
<1>2. CASE BeginResend(s) \/ BeginCancel(s)
  <2>1. PICK i \in Rows, pc \in {"refresh", "cancel"} :
          BeginErrand(s, [pc |-> pc, invite |-> i])
    BY <1>2 DEF BeginResend, BeginCancel
  <2>2. [pc |-> pc, invite |-> i] \in ErrandState
    BY DEF ErrandState, Rows
  <2>3. OnlySettles
    BY <2>1, Unchanged DEF BeginErrand
  <2>4. i \in Rows'
    BY <2>3 DEF OnlySettles
  <2> QED
    BY <2>1, <2>2, <2>3, <2>4, SettlingKeeps, ErrandMoves DEF BeginErrand
<1>3. CASE RefreshForResend(s)
  <2>1. e \in [pc: {"refresh", "read", "cancel"}, invite: Invites] /\ e.invite \in Rows
    BY <1>3, ErrandFacts DEF RefreshForResend, ErrandsNameRows
  <2>2. OnlySettles
    BY <1>3, Expires DEF RefreshForResend
  <2>3. /\ [e EXCEPT !.pc = "read"] \in ErrandState
        /\ [e EXCEPT !.pc = "read"].pc = "read"
        /\ [e EXCEPT !.pc = "read"].invite \in Rows'
    BY <2>1, <2>2 DEF ErrandState, OnlySettles
  <2> QED
    BY <1>3, <2>2, <2>3, SettlingKeeps, ErrandMoves DEF RefreshForResend
<1>4. CASE ReadPending(s)
  <2>1. OnlySettles
    BY <1>4, Unchanged DEF ReadPending
  <2>2. CASE ~IsPending(e.invite)
    <3>1. SetErrand(s, NoErrand)
      BY <1>4, <2>2 DEF ReadPending
    <3> QED
      BY <1>4, <2>1, <3>1, NoErrandType, SettlingKeeps, ErrandMoves
      DEF ReadPending, NoErrand
  <2>3. CASE IsPending(e.invite)
    <3> DEFINE n == [pc |-> "replace", invite |-> e.invite,
                     email |-> invitation[e.invite].email,
                     role |-> invitation[e.invite].role,
                     scope |-> invitation[e.invite].scope]
    <3>1. SetErrand(s, n)
      BY <1>4, <2>3 DEF ReadPending
    <3>2. e.invite \in Rows
      BY <1>4 DEF ReadPending, ErrandsNameRows
    <3>3. invitation[e.invite] \in Invitation /\ e.invite \in Invites
      BY <3>2, RowFacts DEF Rows
    <3>4. n \in ErrandState /\ n.pc = "replace" /\ n.invite = e.invite
      BY <3>3 DEF ErrandState, Invitation
    <3> HIDE DEF n
    <3>5. n.invite \in Rows'
      BY <2>1, <3>2, <3>4 DEF OnlySettles
    <3> QED
      BY <1>4, <2>1, <3>1, <3>4, <3>5, SettlingKeeps, ErrandMoves DEF ReadPending
  <2> QED
    BY <2>2, <2>3
<1>5. CASE CancelReplaced(s)
  <2>1. /\ e \in [pc: {"replace"}, invite: Invites, email: Addresses,
                  role: InvitedAs, scope: SUBSET Providers]
        /\ e.invite \in Rows
    BY <1>5, ErrandFacts DEF CancelReplaced, ErrandsNameRows
  <2>2. OnlySettles /\ invitation'[e.invite].status = "cancelled"
    BY <1>5, <2>1, SettingStatus DEF CancelReplaced, Cancel, Statuses
  <2>3. /\ [e EXCEPT !.pc = "insert"] \in ErrandState
        /\ [e EXCEPT !.pc = "insert"].pc = "insert"
        /\ [e EXCEPT !.pc = "insert"].invite = e.invite
    BY <2>1 DEF ErrandState
  <2>4. e.invite \in Rows'
    BY <2>1, <2>2 DEF OnlySettles
  <2>5. SetErrand(s, [e EXCEPT !.pc = "insert"])
    BY <1>5 DEF CancelReplaced
  <2> QED
    BY <1>5, <2>2, <2>3, <2>4, <2>5, SettlingKeeps, ErrandMoves
    DEF CancelReplaced
<1>6. CASE CancelInvitation(s)
  <2>1. e.invite \in Rows
    BY <1>6 DEF CancelInvitation, ErrandsNameRows
  <2>2. OnlySettles
    <3>1. "cancelled" \in Statuses \ {"unborn"}
      BY DEF Statuses
    <3>2. invitation' = [invitation EXCEPT ![e.invite].status = "cancelled"]
      BY <1>6 DEF CancelInvitation, Cancel
    <3> HIDE DEF e
    <3> QED
      BY <2>1, <3>1, <3>2, SettingStatus
  <2> QED
    BY <1>6, <2>2, NoErrandType, SettlingKeeps, ErrandMoves
    DEF CancelInvitation, NoErrand
<1>7. CASE FailErrand(s)
  <2>1. OnlySettles
    BY <1>7, Unchanged DEF FailErrand
  <2> QED
    BY <1>7, <2>1, NoErrandType, SettlingKeeps, ErrandMoves DEF FailErrand, NoErrand
<1> QED
  BY <1>1, <1>2, <1>3, <1>4, <1>5, <1>6, <1>7 DEF QuietErrand

\* The steps of an accept that change nothing but its slot.
QuietAccept(a) ==
  \/ OpenAsViewer(a) \/ OpenAnonymously(a) \/ FindUserByEmail(a)
  \/ RollbackAccept(a) \/ AbandonAccept(a)

LEMMA NoAcceptType == NoAccept \in AcceptState
  BY DEF AcceptState

\* An accept past its check that goes on as another is still addressed.
LEMMA AfterAccepts ==
  ASSUME TypeOK, AcceptsAreAddressed, Keeps, NEW a \in Accepts, NEW reply,
         accept[a].pc \in {"join", "enrol"}, AfterAccept(a, reply)
  PROVE  accept' \in [Accepts -> AcceptState] /\ AcceptsAreAddressed'
<1> DEFINE x == [accept[a] EXCEPT !.pc = "undo"]
<1>1. accept[a] \in [pc: {"join", "enrol", "undo"}, invite: Invites, user: Users]
  BY AcceptFacts
<1>2. /\ x \in AcceptState
      /\ x.invite = accept[a].invite
      /\ x.user = accept[a].user
  BY <1>1 DEF AcceptState
<1>3. /\ accept[a].invite \in Rows
      /\ AddressOf[accept[a].user] = invitation[accept[a].invite].email
  BY DEF AcceptsAreAddressed
<1>4. SetAccept(a, x) \/ SetAccept(a, NoAccept)
  BY DEF AfterAccept
<1> HIDE DEF x
<1>5. CASE SetAccept(a, x)
  BY <1>2, <1>3, <1>5, AcceptMoves
<1>6. CASE SetAccept(a, NoAccept)
  BY <1>6, NoAcceptType, AcceptMoves DEF NoAccept
<1> QED
  BY <1>4, <1>5, <1>6

LEMMA QuietAccepts ==
  ASSUME TypeOK, AcceptsAreAddressed, NEW a \in Accepts, QuietAccept(a)
  PROVE  /\ OnlySettles
         /\ accept' \in [Accepts -> AcceptState]
         /\ AcceptsAreAddressed'
         /\ UNCHANGED <<role, access, providers, account, errand>>
<1>1. UNCHANGED <<role, access, providers, account, invitation, errand>>
  BY DEF QuietAccept, OpenAsViewer, OpenAnonymously, FindUserByEmail,
         RollbackAccept, AbandonAccept
<1>2. OnlySettles /\ Keeps
  BY <1>1, Unchanged, SettlingKeeps
<1>3. CASE OpenAsViewer(a)
  <2>1. PICK u \in Users, i \in Invites :
          /\ Usable(i)
          /\ AddressOf[u] = invitation[i].email
          /\ SetAccept(a, [pc |-> "join", invite |-> i, user |-> u])
    BY <1>3 DEF OpenAsViewer
  <2>2. [pc |-> "join", invite |-> i, user |-> u] \in AcceptState /\ i \in Rows
    BY <2>1 DEF AcceptState, Usable, Rows
  <2> QED
    BY <1>1, <1>2, <2>1, <2>2, AcceptMoves
<1>4. CASE OpenAnonymously(a)
  <2>1. PICK i \in Invites :
          /\ Usable(i)
          /\ SetAccept(a, [pc |-> "find", invite |-> i, user |-> NoUser])
    BY <1>4 DEF OpenAnonymously
  <2>2. [pc |-> "find", invite |-> i, user |-> NoUser] \in AcceptState /\ i \in Rows
    BY <2>1 DEF AcceptState, Usable, Rows
  <2> QED
    BY <1>1, <1>2, <2>1, <2>2, AcceptMoves
<1>5. CASE FindUserByEmail(a)
  <2> DEFINE x == [accept[a] EXCEPT !.pc = "create"]
  <2>1. accept[a] \in [pc: {"find", "create"}, invite: Invites, user: {NoUser}]
    BY <1>5, AcceptFacts DEF FindUserByEmail
  <2>2. x \in AcceptState /\ x.pc = "create" /\ x.invite = accept[a].invite
    BY <2>1 DEF AcceptState
  <2>3. accept[a].invite \in Rows
    BY <1>5 DEF FindUserByEmail, AcceptsAreAddressed
  <2>4. SetAccept(a, x) \/ SetAccept(a, NoAccept)
    BY <1>5 DEF FindUserByEmail
  <2> HIDE DEF x
  <2>5. CASE SetAccept(a, x)
    BY <1>1, <1>2, <2>2, <2>3, <2>5, AcceptMoves
  <2>6. CASE SetAccept(a, NoAccept)
    BY <1>1, <1>2, <2>6, NoAcceptType, AcceptMoves DEF NoAccept
  <2> QED
    BY <2>4, <2>5, <2>6
<1>6. CASE RollbackAccept(a)
  BY <1>1, <1>2, <1>6, AfterAccepts DEF RollbackAccept
<1>7. CASE AbandonAccept(a)
  BY <1>1, <1>2, <1>7, NoAcceptType, AcceptMoves DEF AbandonAccept, NoAccept
<1> QED
  BY <1>3, <1>4, <1>5, <1>6, <1>7 DEF QuietAccept

-----------------------------------------------------------------------------
(* The membership tables.                                                  *)

LEMMA HouseholdTypes ==
  /\ Home!TypeOK /\ [Home!Next]_(Home!household) => Home!TypeOK'
  /\ Home!Init => Home!TypeOK
<1>1. Home!Init => Home!TypeOK
  BY DEF Home!Init, Home!TypeOK, Home!Roles
<1>2. ASSUME Home!TypeOK, [Home!Next]_(Home!household) PROVE Home!TypeOK'
  <2> USE <1>2 DEF Home!TypeOK
  <2>1. CASE \E u \in Users, r \in Home!Roles, scope \in SUBSET Providers :
               Home!Admit(u, r, scope)
    BY <2>1 DEF Home!Admit
  <2>2. CASE \E u \in Users : Home!Manage(u)
    BY <2>2 DEF Home!Manage, Home!Dismiss, Home!SetRole, Home!Grant, Home!Revoke,
                Home!Live
  <2>3. CASE \E p \in Providers : Home!CreateProvider(p) \/ Home!DeleteProvider(p)
    BY <2>3 DEF Home!CreateProvider, Home!DeleteProvider
  <2>4. CASE UNCHANGED Home!household
    BY <2>4 DEF Home!household
  <2> QED
    BY <1>2, <2>1, <2>2, <2>3, <2>4 DEF Home!Next
<1> QED
  BY <1>1, <1>2

\* Every step is one of Household's, or leaves the tables alone.
LEMMA HouseholdStep ==
  ASSUME TypeOK, ErrandsNameRows, AcceptsAreAddressed, [Next]_vars
  PROVE  [Home!Next]_(Home!household)
<1>1. ASSUME NEW s \in Errands, ErrandStep(s) PROVE UNCHANGED Home!household
  BY <1>1, QuietErrands
  DEF ErrandStep, QuietErrand, InsertInvitation, Home!household
<1>2. ASSUME NEW a \in Accepts, AcceptStep(a) PROVE [Home!Next]_(Home!household)
  <2>1. CASE CommitAccept(a)
    <3> DEFINE i == accept[a].invite
               u == accept[a].user
    <3>1. u \in Users /\ i \in Rows
      BY <2>1, AcceptFacts DEF CommitAccept, AcceptsAreAddressed
    <3>2. invitation[i] \in Invitation
      BY <3>1, RowFacts
    <3>3. invitation[i].role \in Home!Roles /\ invitation[i].scope \subseteq Providers
      BY <3>2, RolesAssumption DEF Invitation, Home!Roles
    <3>4. Home!Admit(u, invitation[i].role, invitation[i].scope)
      BY <2>1 DEF CommitAccept
    <3> HIDE DEF i, u
    <3> QED
      BY <3>1, <3>3, <3>4 DEF Home!Next
  <2>2. CASE DeleteUser(a)
    <3>1. accept[a].user \in Users
      BY <2>2, AcceptFacts DEF DeleteUser
    <3> QED
      BY <2>2, <3>1 DEF DeleteUser, Home!Next, Home!Manage
  <2>3. CASE CreateUser(a) \/ QuietAccept(a)
    BY <2>3, QuietAccepts DEF CreateUser, Home!household
  <2> QED
    BY <1>2, <2>1, <2>2, <2>3 DEF AcceptStep, QuietAccept
<1>3. CASE \E i \in Invites : Lapse(i)
  BY <1>3 DEF Lapse, Home!household
<1>4. CASE Sweep \/ UNCHANGED vars
  BY <1>4 DEF Sweep, vars, Home!household
<1>5. CASE ManageMember
  BY <1>5, ManagedAssumption DEF ManageMember, Home!Next
<1>6. ASSUME NEW p \in Providers, CreateProvider(p) \/ DeleteProvider(p)
      PROVE  [Home!Next]_(Home!household)
  BY <1>6 DEF CreateProvider, DeleteProvider, Home!Next
<1> QED
  BY <1>1, <1>2, <1>3, <1>4, <1>5, <1>6 DEF Next

-----------------------------------------------------------------------------
(* The invariant is inductive.                                             *)

LEMMA InitInv == Init => IInv
<1> SUFFICES ASSUME Init PROVE IInv
  OBVIOUS
<1>1. Rows = {}
  BY DEF Init, Rows, Unborn
<1>2. TypeOK
  BY HouseholdTypes DEF Init, TypeOK, AcceptState, ErrandState
<1>3. OneAccountPerAddress
  BY DEF Init, OneAccountPerAddress, HasAccount
<1>4. AcceptsAreAddressed /\ ErrandsNameRows
  BY DEF Init, AcceptsAreAddressed, ErrandsNameRows, NoAccept, NoErrand
<1>5. NamesAreAccounts
  BY <1>1 DEF Init, Home!Init, NamesAreAccounts, Home!IsMember, HasAccount
<1>6. AdmissionIsOnRecord
  BY DEF Init, Home!Init, AdmissionIsOnRecord, Home!IsMember
<1> QED
  BY <1>1, <1>2, <1>3, <1>4, <1>5, <1>6
  DEF IInv, ReplacedAreSettled, ScopesAreLive

\* What a step does to the rows and the slots keeps the resent links settled.
LEMMA ReplacedStaySettled ==
  ASSUME ReplacedAreSettled, Keeps, Rows' = Rows
  PROVE  ReplacedAreSettled'
  BY DEF ReplacedAreSettled, Keeps, IsPending

\* A step that only reads, moves slots or settles rows.
LEMMA QuietStep ==
  ASSUME IInv, OnlySettles, UNCHANGED <<role, access, providers, account>>,
         accept' \in [Accepts -> AcceptState], AcceptsAreAddressed',
         errand' \in [Errands -> ErrandState], ErrandsNameRows'
  PROVE  IInv'
<1>1. TypeOK'
  BY DEF IInv, TypeOK, Home!TypeOK, OnlySettles
<1>2. OneAccountPerAddress'
  BY DEF IInv, OneAccountPerAddress, HasAccount
<1>3. ReplacedAreSettled'
  BY SettlingKeeps, ReplacedStaySettled DEF IInv, OnlySettles
<1>4. ScopesAreLive'
  BY DEF IInv, ScopesAreLive, OnlySettles, Home!Live
<1>5. NamesAreAccounts'
  BY DEF IInv, NamesAreAccounts, OnlySettles, Home!IsMember, HasAccount
<1>6. AdmissionIsOnRecord'
  BY DEF IInv, AdmissionIsOnRecord, OnlySettles, Home!IsMember
<1> QED
  BY <1>1, <1>2, <1>3, <1>4, <1>5, <1>6 DEF IInv

LEMMA InsertStep ==
  ASSUME IInv, NEW s \in Errands, InsertInvitation(s)
  PROVE  IInv'
<1>1. TypeOK
  BY DEF IInv
<1>2. Keeps
  BY <1>1, Issuing
<1>3. PICK i \in Invites \ Rows :
        /\ Rows' = Rows \cup {i}
        /\ invitation'[i].scope \subseteq Home!Live
        /\ invitation'[i].acceptedBy = NoUser
        /\ invitation'[i].replaces = errand[s].invite
        /\ \A x \in Rows : invitation'[x] = invitation[x]
  BY <1>1, Issuing
<1>4. /\ UNCHANGED <<role, access, providers, account, accept>>
      /\ SetErrand(s, NoErrand)
      /\ errand[s].pc = "insert"
  BY DEF InsertInvitation
<1>5. errand' \in [Errands -> ErrandState] /\ ErrandsNameRows'
  BY <1>1, <1>2, <1>4, NoErrandType, ErrandMoves DEF NoErrand, IInv
<1>6. TypeOK'
  BY <1>2, <1>4, <1>5 DEF IInv, TypeOK, Home!TypeOK, Keeps
<1>7. AcceptsAreAddressed'
  BY <1>2, <1>4, AcceptsKept DEF IInv
<1>8. OneAccountPerAddress'
  BY <1>4 DEF IInv, OneAccountPerAddress, HasAccount
<1>9. ReplacedAreSettled'
  <2>1. errand[s].invite # NoInvite =>
          errand[s].invite \in Rows /\ ~IsPending(errand[s].invite)
    BY <1>4 DEF IInv, ErrandsNameRows
  <2> QED
    BY <1>2, <1>3, <2>1 DEF IInv, ReplacedAreSettled, Keeps, IsPending
<1>10. ScopesAreLive'
  BY <1>3, <1>4 DEF IInv, ScopesAreLive, Home!Live
<1>11. NamesAreAccounts'
  BY <1>3, <1>4 DEF IInv, NamesAreAccounts, Home!IsMember, HasAccount
<1>12. AdmissionIsOnRecord'
  BY <1>3, <1>4 DEF IInv, AdmissionIsOnRecord, Home!IsMember
<1> QED
  BY <1>5, <1>6, <1>7, <1>8, <1>9, <1>10, <1>11, <1>12 DEF IInv

LEMMA CreateStep ==
  ASSUME IInv, NEW a \in Accepts, CreateUser(a)
  PROVE  IInv'
<1>1. TypeOK /\ accept[a].pc = "create"
  BY DEF IInv, CreateUser
<1>2. PICK u \in Users :
        /\ account[u] = "unborn"
        /\ AddressOf[u] = invitation[accept[a].invite].email
        /\ account' = [account EXCEPT ![u] = "live"]
        /\ SetAccept(a, [accept[a] EXCEPT !.pc = "enrol", !.user = u])
  BY DEF CreateUser
<1>3. UNCHANGED <<role, access, providers, invitation, errand>>
  BY DEF CreateUser
<1>4. Keeps /\ Rows' = Rows
  BY <1>1, <1>3, Unchanged, SettlingKeeps DEF OnlySettles
<1> DEFINE x == [accept[a] EXCEPT !.pc = "enrol", !.user = u]
<1>5. accept[a] \in [pc: {"find", "create"}, invite: Invites, user: {NoUser}]
  BY <1>1, AcceptFacts
<1>6. /\ x \in AcceptState
      /\ x.invite = accept[a].invite
      /\ x.user = u
  BY <1>5 DEF AcceptState
<1>7. accept[a].invite \in Rows
  BY <1>1 DEF IInv, AcceptsAreAddressed
<1> HIDE DEF x
<1>8. accept' \in [Accepts -> AcceptState] /\ AcceptsAreAddressed'
  <2>1. SetAccept(a, x)
    BY <1>2 DEF x
  <2> QED
    BY <1>1, <1>2, <1>4, <1>6, <1>7, <2>1, AcceptMoves DEF IInv
<1>9. account' \in [Users -> {"unborn", "live", "deleted"}]
  BY <1>1, <1>2 DEF TypeOK
<1>10. TypeOK'
  BY <1>3, <1>8, <1>9 DEF IInv, TypeOK, Home!TypeOK
<1>11. \A v \in Users : HasAccount(v)' <=> HasAccount(v) \/ v = u
  BY <1>1, <1>2 DEF HasAccount, TypeOK
<1>12. OneAccountPerAddress'
  <2>1. \A v \in Users : HasAccount(v) => AddressOf[v] # AddressOf[u]
    BY <1>2 DEF CreateUser, Taken
  <2> QED
    BY <1>11, <2>1 DEF IInv, OneAccountPerAddress
<1>13. ErrandsNameRows'
  BY <1>1, <1>3, <1>4, ErrandsKept DEF IInv
<1>14. ReplacedAreSettled'
  BY <1>4, ReplacedStaySettled DEF IInv
<1>15. ScopesAreLive' /\ AdmissionIsOnRecord'
  BY <1>3 DEF IInv, ScopesAreLive, AdmissionIsOnRecord, Rows, Home!Live,
              Home!IsMember
<1>16. NamesAreAccounts'
  <2>1. \A i \in Rows : invitation[i].acceptedBy # NoUser =>
                           invitation[i].acceptedBy \in Users
    BY <1>1, RowFacts DEF Invitation
  <2> QED
    BY <1>3, <1>4, <1>11, <2>1 DEF IInv, NamesAreAccounts, Home!IsMember
<1> QED
  BY <1>8, <1>10, <1>12, <1>13, <1>14, <1>15, <1>16 DEF IInv

LEMMA CommitStep ==
  ASSUME IInv, NEW a \in Accepts, CommitAccept(a), Home!TypeOK'
  PROVE  IInv'
<1> DEFINE i == accept[a].invite
           u == accept[a].user
<1>1. TypeOK /\ accept[a].pc \in {"join", "enrol"}
  BY DEF IInv, CommitAccept
<1>2. /\ i \in Rows
      /\ u \in Users
      /\ AddressOf[u] = invitation[i].email
      /\ HasAccount(u)
  BY <1>1, AcceptFacts DEF IInv, AcceptsAreAddressed, CommitAccept
<1>3. invitation' = [invitation EXCEPT ![i].status = "accepted",
                                       ![i].acceptedBy = u]
  BY DEF CommitAccept
<1>4. /\ UNCHANGED <<account, errand, providers>>
      /\ role' = [role EXCEPT ![u] = invitation[i].role]
  BY DEF CommitAccept, Home!Admit
<1>5. PICK reply \in {"ok", "failed"} : AfterAccept(a, reply)
  BY DEF CommitAccept
<1> HIDE DEF i, u
<1>6. /\ Keeps
      /\ Rows' = Rows
      /\ invitation'[i].acceptedBy = u
      /\ invitation'[i].scope = invitation[i].scope
      /\ \A x \in Invites \ {i} : invitation'[x] = invitation[x]
  BY <1>1, <1>2, <1>3, Marking
<1>7. accept' \in [Accepts -> AcceptState] /\ AcceptsAreAddressed'
  BY <1>1, <1>5, <1>6, AfterAccepts DEF IInv
<1>8. TypeOK'
  BY <1>1, <1>4, <1>6, <1>7 DEF TypeOK, Keeps
<1>9. OneAccountPerAddress' /\ ErrandsNameRows' /\ ReplacedAreSettled'
  BY <1>1, <1>4, <1>6, ErrandsKept, ReplacedStaySettled
  DEF IInv, OneAccountPerAddress, HasAccount
<1>10. ScopesAreLive'
  BY <1>4, <1>6 DEF IInv, ScopesAreLive, Home!Live, Rows
<1>11. \A v \in Users \ {u} : Home!IsMember(v)' => Home!IsMember(v)
  BY <1>1, <1>2, <1>4 DEF TypeOK, Home!TypeOK, Home!IsMember
<1>12. NamesAreAccounts'
  BY <1>2, <1>4, <1>6, <1>11 DEF IInv, NamesAreAccounts, HasAccount, Rows
<1>13. AdmissionIsOnRecord'
  <2> SUFFICES ASSUME NEW v \in Users \ {Founder}, Home!IsMember(v)'
               PROVE  \E j \in Rows : /\ invitation'[j].email = AddressOf[v]
                                      /\ invitation'[j].acceptedBy = v
    BY <1>6 DEF AdmissionIsOnRecord
  <2>1. CASE v = u
    BY <1>2, <1>6, <2>1 DEF Keeps
  <2>2. CASE v # u
    <3>1. Home!IsMember(v) /\ HasAccount(v)
      BY <1>11, <2>2 DEF IInv, NamesAreAccounts
    <3>2. PICK j \in Rows : /\ invitation[j].email = AddressOf[v]
                            /\ invitation[j].acceptedBy = v
      BY <3>1 DEF IInv, AdmissionIsOnRecord
    <3>3. j # i
      BY <1>2, <2>2, <3>1, <3>2 DEF IInv, OneAccountPerAddress
    <3> QED
      BY <1>6, <3>2, <3>3 DEF Rows
  <2> QED
    BY <2>1, <2>2
<1> QED
  BY <1>7, <1>8, <1>9, <1>10, <1>12, <1>13 DEF IInv

LEMMA DeleteStep ==
  ASSUME IInv, NEW a \in Accepts, DeleteUser(a), Home!TypeOK'
  PROVE  IInv'
<1> DEFINE u == accept[a].user
<1>1. TypeOK /\ accept[a].pc = "undo"
  BY DEF IInv, DeleteUser
<1>2. u \in Users
  BY <1>1, AcceptFacts
<1>3. invitation' = [i \in Invites |->
        IF i \in Rows /\ invitation[i].acceptedBy = u
        THEN [invitation[i] EXCEPT !.acceptedBy = NoUser] ELSE invitation[i]]
  BY DEF DeleteUser
<1>4. /\ UNCHANGED <<errand, providers>>
      /\ account' = [account EXCEPT ![u] = "deleted"]
      /\ role' = [role EXCEPT ![u] = "none"]
      /\ SetAccept(a, NoAccept)
  BY DEF DeleteUser, Home!Dismiss
<1> HIDE DEF u
<1>5. /\ Keeps
      /\ Rows' = Rows
      /\ \A i \in Rows :
           /\ invitation'[i].scope = invitation[i].scope
           /\ invitation'[i].acceptedBy =
                IF invitation[i].acceptedBy = u THEN NoUser
                ELSE invitation[i].acceptedBy
  BY <1>1, <1>2, <1>3, Forgetting
<1>6. accept' \in [Accepts -> AcceptState] /\ AcceptsAreAddressed'
  BY <1>1, <1>4, <1>5, NoAcceptType, AcceptMoves DEF IInv, NoAccept
<1>7. account' \in [Users -> {"unborn", "live", "deleted"}]
  BY <1>1, <1>4 DEF TypeOK
<1>8. TypeOK'
  BY <1>1, <1>4, <1>5, <1>6, <1>7 DEF TypeOK, Keeps
<1>9. \A v \in Users : /\ HasAccount(v)' <=> HasAccount(v) /\ v # u
                       /\ Home!IsMember(v)' <=> Home!IsMember(v) /\ v # u
  BY <1>1, <1>2, <1>4 DEF TypeOK, Home!TypeOK, HasAccount, Home!IsMember
<1>10. OneAccountPerAddress' /\ ErrandsNameRows' /\ ReplacedAreSettled'
  BY <1>1, <1>4, <1>5, <1>9, ErrandsKept, ReplacedStaySettled
  DEF IInv, OneAccountPerAddress
<1>11. ScopesAreLive'
  BY <1>4, <1>5 DEF IInv, ScopesAreLive, Home!Live
<1>12. NamesAreAccounts'
  <2>1. \A i \in Rows : invitation[i].acceptedBy # NoUser =>
                           invitation[i].acceptedBy \in Users
    BY <1>1, RowFacts DEF Invitation
  <2> QED
    BY <1>5, <1>9, <2>1 DEF IInv, NamesAreAccounts
<1>13. AdmissionIsOnRecord'
  BY <1>5, <1>9 DEF IInv, AdmissionIsOnRecord, Keeps
<1> QED
  BY <1>6, <1>8, <1>10, <1>11, <1>12, <1>13 DEF IInv

\* The owner's routes and the providers.
LEMMA OtherStep ==
  ASSUME IInv, Home!TypeOK',
         ManageMember \/ \E p \in Providers : CreateProvider(p) \/ DeleteProvider(p)
  PROVE  IInv'
<1>1. TypeOK /\ UNCHANGED <<account, accept, errand>>
  BY DEF IInv, ManageMember, CreateProvider, DeleteProvider
<1>2. \A v \in Users : Home!IsMember(v)' => Home!IsMember(v)
  <2>1. CASE ManageMember
    BY <1>1, <2>1 DEF ManageMember, Home!Manage, Home!Dismiss, Home!SetRole,
       Home!Grant, Home!Revoke, Home!IsMember, TypeOK, Home!TypeOK
  <2>2. CASE UNCHANGED role
    BY <2>2 DEF Home!IsMember
  <2> QED
    BY <2>1, <2>2 DEF CreateProvider, DeleteProvider, Home!CreateProvider,
                      Home!DeleteProvider
<1>3. CASE UNCHANGED invitation /\ Home!Live \subseteq Home!Live'
  <2>1. OnlySettles /\ Keeps /\ Rows' = Rows
    BY <1>1, <1>3, Unchanged, SettlingKeeps DEF OnlySettles
  <2>2. TypeOK'
    BY <1>1, <1>3 DEF TypeOK
  <2>3. /\ OneAccountPerAddress'
        /\ AcceptsAreAddressed'
        /\ ErrandsNameRows'
        /\ ReplacedAreSettled'
    BY <1>1, <2>1, AcceptsKept, ErrandsKept, ReplacedStaySettled
    DEF IInv, OneAccountPerAddress, HasAccount
  <2>4. ScopesAreLive' /\ NamesAreAccounts' /\ AdmissionIsOnRecord'
    BY <1>1, <1>2, <1>3, <2>1
    DEF IInv, ScopesAreLive, NamesAreAccounts, AdmissionIsOnRecord, HasAccount
  <2> QED
    BY <2>2, <2>3, <2>4 DEF IInv
<1>4. ASSUME NEW p \in Providers, DeleteProvider(p) PROVE IInv'
  <2>1. /\ Keeps
        /\ Rows' = Rows
        /\ \A i \in Rows :
             /\ invitation'[i].scope = invitation[i].scope \ {p}
             /\ invitation'[i].acceptedBy = invitation[i].acceptedBy
    BY <1>1, <1>4, Unscoping DEF DeleteProvider
  <2>2. Home!Live \ {p} \subseteq Home!Live'
    BY <1>4 DEF DeleteProvider, Home!DeleteProvider, Home!Live
  <2>3. TypeOK'
    BY <1>1, <2>1 DEF TypeOK, Keeps
  <2>4. /\ OneAccountPerAddress'
        /\ AcceptsAreAddressed'
        /\ ErrandsNameRows'
        /\ ReplacedAreSettled'
    BY <1>1, <2>1, AcceptsKept, ErrandsKept, ReplacedStaySettled
    DEF IInv, OneAccountPerAddress, HasAccount
  <2>5. ScopesAreLive'
    BY <2>1, <2>2 DEF IInv, ScopesAreLive
  <2>6. NamesAreAccounts' /\ AdmissionIsOnRecord'
    BY <1>1, <1>2, <2>1
    DEF IInv, NamesAreAccounts, AdmissionIsOnRecord, HasAccount, Keeps
  <2> QED
    BY <2>3, <2>4, <2>5, <2>6 DEF IInv
<1>5. ManageMember \/ (\E p \in Providers : CreateProvider(p)) =>
        UNCHANGED invitation /\ Home!Live \subseteq Home!Live'
  BY <1>1 DEF ManageMember, CreateProvider, Home!CreateProvider, Home!Manage,
     Home!Dismiss, Home!SetRole, Home!Grant, Home!Revoke, Home!Live, TypeOK,
     Home!TypeOK
<1> QED
  BY <1>3, <1>4, <1>5

LEMMA NextInv == IInv /\ [Next]_vars => IInv'
<1> SUFFICES ASSUME IInv, [Next]_vars PROVE IInv'
  OBVIOUS
<1>1. TypeOK /\ ErrandsNameRows /\ AcceptsAreAddressed
  BY DEF IInv
<1>2. Home!TypeOK'
  BY <1>1, HouseholdStep, HouseholdTypes DEF TypeOK
<1>3. ASSUME NEW s \in Errands, ErrandStep(s) PROVE IInv'
  <2>1. CASE QuietErrand(s)
    <3>1. /\ OnlySettles
          /\ errand' \in [Errands -> ErrandState]
          /\ ErrandsNameRows'
          /\ UNCHANGED <<role, access, providers, account, accept>>
      BY <1>1, <2>1, QuietErrands
    <3>2. accept' \in [Accepts -> AcceptState] /\ AcceptsAreAddressed'
      BY <1>1, <3>1, SettlingKeeps, AcceptsKept DEF TypeOK
    <3> QED
      BY <3>1, <3>2, QuietStep
  <2>2. CASE InsertInvitation(s)
    BY <2>2, InsertStep
  <2> QED
    BY <1>3, <2>1, <2>2 DEF ErrandStep, QuietErrand
<1>4. ASSUME NEW a \in Accepts, AcceptStep(a) PROVE IInv'
  <2>1. CASE QuietAccept(a)
    <3>1. /\ OnlySettles
          /\ accept' \in [Accepts -> AcceptState]
          /\ AcceptsAreAddressed'
          /\ UNCHANGED <<role, access, providers, account, errand>>
      BY <1>1, <2>1, QuietAccepts
    <3>2. errand' \in [Errands -> ErrandState] /\ ErrandsNameRows'
      BY <1>1, <3>1, SettlingKeeps, ErrandsKept DEF TypeOK
    <3> QED
      BY <3>1, <3>2, QuietStep
  <2>2. CASE CreateUser(a)
    BY <2>2, CreateStep
  <2>3. CASE CommitAccept(a)
    BY <1>2, <2>3, CommitStep
  <2>4. CASE DeleteUser(a)
    BY <1>2, <2>4, DeleteStep
  <2> QED
    BY <1>4, <2>1, <2>2, <2>3, <2>4 DEF AcceptStep, QuietAccept
<1>5. CASE (\E i \in Invites : Lapse(i)) \/ Sweep \/ UNCHANGED vars
  <2>1. UNCHANGED <<role, access, providers, account, accept, errand>>
    BY <1>5 DEF Lapse, Sweep, vars
  <2>2. OnlySettles
    <3>1. ASSUME NEW i \in Invites, Lapse(i) PROVE OnlySettles
      BY <1>1, <3>1, SettingStatus DEF Lapse, Rows, IsPending, Statuses
    <3> QED
      BY <1>1, <1>5, <3>1, Expires, Unchanged DEF Sweep, vars
  <2>3. /\ accept' \in [Accepts -> AcceptState] /\ AcceptsAreAddressed'
        /\ errand' \in [Errands -> ErrandState] /\ ErrandsNameRows'
    BY <1>1, <2>1, <2>2, SettlingKeeps, AcceptsKept, ErrandsKept DEF TypeOK
  <2> QED
    BY <2>1, <2>2, <2>3, QuietStep
<1>6. CASE ManageMember \/ \E p \in Providers : CreateProvider(p) \/ DeleteProvider(p)
  BY <1>2, <1>6, OtherStep
<1> QED
  BY <1>3, <1>4, <1>5, <1>6 DEF Next

-----------------------------------------------------------------------------
(* The theorems.                                                           *)

LEMMA Invariance == Spec => []IInv
  BY InitInv, NextInv, PTL DEF Spec

\* Every reachable state is well typed.
THEOREM TypeCorrect == Spec => []TypeOK
<1>1. IInv => TypeOK
  BY DEF IInv
<1> QED
  BY <1>1, Invariance, PTL

\* Invitations do to the membership tables what Household allows and nothing
\* else: accepts admit, compensations dismiss, the rest leaves them alone.
THEOREM Implements == Spec => ImplementsHousehold
<1>1. Init => Home!Init
  BY DEF Init
<1>2. IInv /\ [Next]_vars => [Home!Next]_(Home!household)
  BY HouseholdStep DEF IInv
<1> QED
  BY <1>1, <1>2, Invariance, PTL DEF Spec, ImplementsHousehold, Home!Spec

\* What Household's steps never leave behind.
LEMMA HouseholdAccess ==
  Home!TypeOK /\ Home!AccessFollowsMembership /\ [Home!Next]_(Home!household)
    => Home!AccessFollowsMembership'
<1> SUFFICES ASSUME Home!TypeOK, Home!AccessFollowsMembership,
                    [Home!Next]_(Home!household)
             PROVE  Home!AccessFollowsMembership'
  OBVIOUS
<1> USE DEF Home!TypeOK, Home!AccessFollowsMembership, Home!IsMember, Home!Live
<1>1. CASE \E u \in Users, r \in Home!Roles, scope \in SUBSET Providers :
             Home!Admit(u, r, scope)
  <2>1. PICK u \in Users, r \in Home!Roles, scope \in SUBSET Providers :
          Home!Admit(u, r, scope)
    BY <1>1
  <2>2. access' = access \cup ({u} \X scope)
    BY <2>1 DEF Home!Admit
  <2>3. \A a \in access' : a \in access \/ (a[1] = u /\ a[2] \in scope)
    BY <2>2
  <2>4. r # "none"
    BY DEF Home!Roles
  <2>5. \A a \in access' : a[1] \in Users
    BY <2>3
  <2> QED
    BY <2>1, <2>3, <2>4, <2>5 DEF Home!Admit
<1>2. CASE \E u \in Users : Home!Manage(u)
  BY <1>2 DEF Home!Manage, Home!Dismiss, Home!SetRole, Home!Grant, Home!Revoke,
              Home!Roles
<1>3. CASE \E p \in Providers : Home!CreateProvider(p) \/ Home!DeleteProvider(p)
  BY <1>3 DEF Home!CreateProvider, Home!DeleteProvider
<1>4. CASE UNCHANGED Home!household
  BY <1>4 DEF Home!household
<1> QED
  BY <1>1, <1>2, <1>3, <1>4 DEF Home!Next

\* Access hangs off a membership and a provider that both exist, also while
\* accepts run, fail and take their accounts back: they implement Household.
THEOREM AccessFollows == Spec => []Home!AccessFollowsMembership
<1>1. Init => Home!AccessFollowsMembership
  BY DEF Init, Home!Init, Home!AccessFollowsMembership
<1>2. IInv /\ [Next]_vars => Home!TypeOK /\ [Home!Next]_(Home!household)
  BY HouseholdStep DEF IInv, TypeOK
<1> QED
  BY <1>1, <1>2, HouseholdAccess, Invariance, PTL DEF Spec

\* Whatever is deleted, withdrawn or accepted at the same time, a link in
\* anybody's hands carries only providers that exist.
THEOREM LinksStayLive == Spec => []ScopesAreLive
<1>1. IInv => ScopesAreLive
  BY DEF IInv
<1> QED
  BY <1>1, Invariance, PTL

\* However many accepts fail, race and compensate for the same address, every
\* member and every name on an accepted invitation is an account.
THEOREM NamesStand == Spec => []NamesAreAccounts
<1>1. IInv => NamesAreAccounts
  BY DEF IInv
<1> QED
  BY <1>1, Invariance, PTL

\* Nobody but the founder is in the household without an invitation to their
\* address that says so. It rests on users_email_unique: a second accept of
\* the same link can only be by the same account, or by nobody else who is in.
THEOREM AdmissionRecorded == Spec => []AdmissionIsOnRecord
<1>1. IInv => AdmissionIsOnRecord
  BY DEF IInv
<1> QED
  BY <1>1, Invariance, PTL

\* A link that was resent never works again beside its replacement.
THEOREM ReplacedNeverUsable == Spec => []ReplacedLinkIsDead
<1>1. IInv => ReplacedLinkIsDead
  BY DEF IInv, ReplacedAreSettled, ReplacedLinkIsDead, Usable, IsPending
<1> QED
  BY <1>1, Invariance, PTL

=============================================================================
