---------------------------- MODULE MembersProofs ----------------------------
(* Members, for any number of users, providers and requests in flight. *)
EXTENDS Members, FiniteSetTheorems, TLAPS

-----------------------------------------------------------------------------
(* Types.                                                                  *)

LEMMA InitType == Init => TypeOK
  BY DEF Init, TypeOK, Roles, RequestState

\* What a request that has begun holds.
LEMMA RequestFacts ==
  ASSUME TypeOK, NEW s \in Requests, request[s].pc # "idle"
  PROVE  request[s] \in
           [pc: {"entered", "count", "write"}, kind: Kinds, actor: Users,
            target: Users, role: Roles, provider: Providers \cup {NoProvider}]
  BY DEF TypeOK, RequestState, NoRequest

\* Only the program counter of a request moves while it is checked.
LEMMA AdvanceType ==
  ASSUME TypeOK, NEW s \in Requests, request[s].pc # "idle",
         NEW pc \in {"count", "write"}, Advance(s, pc)
  PROVE  /\ request' \in [Requests -> RequestState]
         /\ request'[s] = [request[s] EXCEPT !.pc = pc]
         /\ \A x \in Requests : x # s => request'[x] = request[x]
<1>1. [request[s] EXCEPT !.pc = pc] \in
        [pc: {"entered", "count", "write"}, kind: Kinds, actor: Users,
         target: Users, role: Roles, provider: Providers \cup {NoProvider}]
  BY RequestFacts
<1> QED
  BY <1>1 DEF Advance, TypeOK, RequestState

LEMMA EndType ==
  ASSUME TypeOK, NEW s \in Requests, EndRequest(s)
  PROVE  /\ request' \in [Requests -> RequestState]
         /\ request'[s] = NoRequest
         /\ \A x \in Requests : x # s => request'[x] = request[x]
  BY DEF EndRequest, TypeOK, RequestState

LEMMA BeginType ==
  ASSUME TypeOK, NEW s \in Requests,
         NEW kind \in Kinds, NEW actor \in Users, NEW target \in Users,
         NEW r \in Roles, NEW p \in Providers \cup {NoProvider},
         Begin(s, kind, actor, target, r, p)
  PROVE  /\ TypeOK'
         /\ request'[s] = [pc |-> "entered", kind |-> kind, actor |-> actor,
                           target |-> target, role |-> r, provider |-> p]
         /\ \A x \in Requests : x # s => request'[x] = request[x]
<1>1. [pc |-> "entered", kind |-> kind, actor |-> actor, target |-> target,
       role |-> r, provider |-> p] \in RequestState
  BY DEF RequestState
<1> QED
  BY <1>1 DEF Begin, TypeOK

\* A request that begins, and what it may be.
LEMMA Begins ==
  ASSUME TypeOK, NEW s \in Requests,
         BeginLeave(s) \/ BeginRemove(s) \/ BeginRole(s) \/ BeginAccess(s)
  PROVE  /\ TypeOK'
         /\ UNCHANGED <<role, access, providers>>
         /\ \A x \in Requests : x # s => request'[x] = request[x]
         /\ request'[s].pc = "entered"
         /\ request'[s].kind \in {"remove", "role"} =>
              /\ request'[s].actor \in Owners
              /\ request'[s].target # request'[s].actor
         /\ request'[s].kind = "leave" => request'[s].role = role[request'[s].target]
<1>1. CASE BeginLeave(s)
  <2>1. PICK u \in Users : IsMember(u) /\ Begin(s, "leave", u, u, role[u], NoProvider)
    BY <1>1 DEF BeginLeave
  <2>2. role[u] \in Roles /\ "leave" \in Kinds
    BY <2>1 DEF TypeOK, IsMember, Kinds
  <2>3. /\ TypeOK'
        /\ request'[s] = [pc |-> "entered", kind |-> "leave", actor |-> u,
                          target |-> u, role |-> role[u],
                          provider |-> NoProvider]
        /\ \A x \in Requests : x # s => request'[x] = request[x]
    BY <2>1, <2>2, BeginType
  <2> QED
    BY <2>1, <2>3 DEF Begin
<1>2. CASE BeginRemove(s)
  <2>1. PICK o \in Owners : \E u \in Users \ {o} :
          Begin(s, "remove", o, u, "member", NoProvider)
    BY <1>2 DEF BeginRemove
  <2>2. PICK u \in Users \ {o} : Begin(s, "remove", o, u, "member", NoProvider)
    BY <2>1
  <2>3. o \in Users /\ "remove" \in Kinds /\ "member" \in Roles
    BY DEF Owners, Kinds, Roles
  <2>4. /\ TypeOK'
        /\ request'[s] = [pc |-> "entered", kind |-> "remove", actor |-> o,
                          target |-> u, role |-> "member",
                          provider |-> NoProvider]
        /\ \A x \in Requests : x # s => request'[x] = request[x]
    BY <2>2, <2>3, BeginType
  <2> QED
    BY <2>2, <2>4 DEF Begin
<1>3. CASE BeginRole(s)
  <2>1. PICK o \in Owners, r \in Roles : \E u \in Users \ {o} :
          Begin(s, "role", o, u, r, NoProvider)
    BY <1>3 DEF BeginRole
  <2>2. PICK u \in Users \ {o} : Begin(s, "role", o, u, r, NoProvider)
    BY <2>1
  <2>3. o \in Users /\ "role" \in Kinds
    BY DEF Owners, Kinds
  <2>4. /\ TypeOK'
        /\ request'[s] = [pc |-> "entered", kind |-> "role", actor |-> o,
                          target |-> u, role |-> r, provider |-> NoProvider]
        /\ \A x \in Requests : x # s => request'[x] = request[x]
    BY <2>2, <2>3, BeginType
  <2> QED
    BY <2>2, <2>4 DEF Begin
<1>4. CASE BeginAccess(s)
  <2>1. PICK o \in Owners, u \in Users, p \in Providers,
             kind \in {"grant", "revoke"} : Begin(s, kind, o, u, "member", p)
    BY <1>4 DEF BeginAccess
  <2>2. o \in Users /\ kind \in Kinds /\ "member" \in Roles
    BY DEF Owners, Kinds, Roles
  <2>3. /\ TypeOK'
        /\ request'[s] = [pc |-> "entered", kind |-> kind, actor |-> o,
                          target |-> u, role |-> "member", provider |-> p]
        /\ \A x \in Requests : x # s => request'[x] = request[x]
    BY <2>1, <2>2, BeginType
  <2> QED
    BY <2>1, <2>3 DEF Begin
<1> QED
  BY <1>1, <1>2, <1>3, <1>4

Begun(s) == BeginLeave(s) \/ BeginRemove(s) \/ BeginRole(s) \/ BeginAccess(s)

Checked(s) ==
  CheckLeave(s) \/ CheckTarget(s) \/ CheckAccess(s) \/ CountOwners(s)

\* A check either ends the request or moves it on.
LEMMA Checks ==
  ASSUME TypeOK, NEW s \in Requests, Checked(s)
  PROVE  /\ request[s].pc # "idle"
         /\ EndRequest(s) \/ Advance(s, "count") \/ Advance(s, "write")
         /\ UNCHANGED <<role, access, providers>>
  BY DEF Checked, CheckLeave, CheckTarget, CheckAccess, CountOwners

LEMMA NextType == TypeOK /\ [Next]_vars => TypeOK'
<1> SUFFICES ASSUME TypeOK, [Next]_vars PROVE TypeOK'
  OBVIOUS
<1>1. ASSUME NEW s \in Requests, RequestStep(s) PROVE TypeOK'
  <2>1. CASE Begun(s)
    BY <2>1, Begins DEF Begun
  <2>2. CASE Checked(s)
    BY <2>2, Checks, EndType, AdvanceType DEF TypeOK
  <2>3. CASE RemoveMember(s)
    BY <2>3, EndType DEF RemoveMember, TypeOK
  <2>4. CASE SetMemberRole(s)
    <3>1. request[s].target \in Users /\ request[s].role \in Roles
      BY <2>4, RequestFacts DEF SetMemberRole
    <3> QED
      BY <2>4, <3>1, EndType DEF SetMemberRole, TypeOK
  <2>5. CASE GrantProviderAccess(s)
    <3>1. request[s].target \in Users
      BY <2>5, RequestFacts DEF GrantProviderAccess
    <3>2. access' \subseteq Users \X Providers
      BY <2>5, <3>1 DEF GrantProviderAccess, TypeOK, Live
    <3> QED
      BY <2>5, <3>2, EndType DEF GrantProviderAccess, TypeOK
  <2>6. CASE RevokeProviderAccess(s)
    BY <2>6, EndType DEF RevokeProviderAccess, TypeOK
  <2>7. CASE FailRequest(s)
    BY <2>7, EndType DEF FailRequest, TypeOK
  <2> QED
    BY <1>1, <2>1, <2>2, <2>3, <2>4, <2>5, <2>6, <2>7
    DEF RequestStep, Begun, Checked
<1>2. CASE ProviderStep
  BY <1>2 DEF ProviderStep, CreateProvider, DeleteProvider, TypeOK
<1>3. CASE Accepting
  BY <1>3 DEF Accepting, AcceptInvitation, TypeOK, Live
<1>4. CASE UNCHANGED vars
  BY <1>4 DEF vars, TypeOK
<1> QED
  BY <1>1, <1>2, <1>3, <1>4 DEF Next

\* Every reachable state is well typed.
THEOREM TypeCorrect == Spec => []TypeOK
  BY InitType, NextType, PTL DEF Spec

-----------------------------------------------------------------------------
(* Access.                                                                 *)

LEMMA NextAccess ==
  TypeOK /\ AccessFollowsMembership /\ [Next]_vars => AccessFollowsMembership'
<1> SUFFICES ASSUME TypeOK, AccessFollowsMembership, [Next]_vars
             PROVE  AccessFollowsMembership'
  OBVIOUS
<1> USE DEF AccessFollowsMembership
<1>1. ASSUME NEW s \in Requests, RequestStep(s)
      PROVE  AccessFollowsMembership'
  <2>1. CASE UNCHANGED <<role, access, providers>>
    BY <2>1 DEF IsMember, Live
  <2>2. CASE RemoveMember(s)
    BY <2>2 DEF RemoveMember, IsMember, Live, TypeOK
  <2>3. CASE SetMemberRole(s)
    <3>1. request[s].target \in Users /\ request[s].role \in Roles
      BY <2>3, RequestFacts DEF SetMemberRole
    <3>2. \A u \in Users : role[u] # "none" => role'[u] # "none"
      BY <2>3, <3>1 DEF SetMemberRole, TypeOK, Roles
    <3> QED
      BY <2>3, <3>2 DEF SetMemberRole, IsMember, Live, TypeOK
  <2>4. CASE GrantProviderAccess(s)
    BY <2>4 DEF GrantProviderAccess, IsMember, Live
  <2>5. CASE RevokeProviderAccess(s)
    BY <2>5 DEF RevokeProviderAccess, IsMember, Live
  <2> QED
    BY <1>1, <2>1, <2>2, <2>3, <2>4, <2>5, Begins, Checks
    DEF RequestStep, Checked, FailRequest
<1>2. CASE ProviderStep
  BY <1>2 DEF ProviderStep, CreateProvider, DeleteProvider, IsMember, Live,
              TypeOK
<1>3. CASE Accepting
  <2>1. PICK u \in Users, r \in Roles, scope \in SUBSET Live :
          AcceptInvitation(u, r, scope)
    BY <1>3 DEF Accepting
  <2>2. \A a \in access' :
          \/ a \in access
          \/ a[1] = u /\ a[2] \in scope
    BY <2>1 DEF AcceptInvitation
  <2>3. Live' = Live
    BY <2>1 DEF AcceptInvitation, Live
  <2>4. role' = [role EXCEPT ![u] = r] /\ r # "none"
    BY <2>1 DEF AcceptInvitation, Roles
  <2>5. \A a \in access' : a[1] \in Users
    BY <2>2 DEF TypeOK
  <2> QED
    BY <2>2, <2>3, <2>4, <2>5 DEF IsMember, TypeOK
<1>4. CASE UNCHANGED vars
  BY <1>4 DEF vars, IsMember, Live
<1> QED
  BY <1>1, <1>2, <1>3, <1>4 DEF Next

\* No interleaving of grants, departures, removals, accepts and provider
\* deletions leaves access behind a membership or a provider that is gone.
THEOREM AccessFollows == Spec => []AccessFollowsMembership
<1>1. Init => AccessFollowsMembership
  BY DEF Init, AccessFollowsMembership
<1> QED
  BY <1>1, NextAccess, TypeCorrect, PTL DEF Spec

\* Whatever a request had read, it never makes a member of anybody.
THEOREM NeverAdmit == Spec => RequestsNeverAdmit
<1>1. TypeOK /\ [Next]_vars =>
        [(\E s \in Requests : RequestStep(s)) =>
           \A u \in Users : IsMember(u)' => IsMember(u)]_vars
  <2> SUFFICES ASSUME TypeOK, NEW s \in Requests, RequestStep(s),
                      NEW u \in Users, role'[u] # "none"
               PROVE  role[u] # "none"
    BY DEF IsMember
  <2>1. CASE role' = role
    BY <2>1
  <2>2. CASE RemoveMember(s)
    BY <2>2 DEF RemoveMember, TypeOK
  <2>3. CASE SetMemberRole(s)
    BY <2>3 DEF SetMemberRole, TypeOK
  <2> QED
    BY <2>1, <2>2, <2>3, Begins, Checks
    DEF RequestStep, Checked, FailRequest, GrantProviderAccess,
        RevokeProviderAccess
<1> QED
  BY <1>1, TypeCorrect, PTL DEF Spec, RequestsNeverAdmit

\* The routes over the members, each a few statements that others may come
\* between, do to the tables only what Household does in one.
THEOREM Implements == Spec => ImplementsHousehold
<1>1. Init => Home!Init
  BY DEF Init, Home!Init
<1>2. TypeOK /\ [Next]_vars => [Home!Next]_(Home!household)
  <2> SUFFICES ASSUME TypeOK, [Next]_vars PROVE [Home!Next]_(Home!household)
    OBVIOUS
  <2> USE DEF Home!Next, Home!Manage, Home!Roles, Roles
  <2>1. CASE UNCHANGED <<role, access, providers>>
    BY <2>1 DEF Home!household
  <2>2. ASSUME NEW s \in Requests, RemoveMember(s) PROVE Home!Next
    <3>1. request[s].target \in Users
      BY <2>2, RequestFacts DEF RemoveMember
    <3> QED
      BY <2>2, <3>1 DEF RemoveMember, Home!Dismiss
  <2>3. ASSUME NEW s \in Requests, SetMemberRole(s)
        PROVE  [Home!Next]_(Home!household)
    <3>1. request[s].target \in Users /\ request[s].role \in Roles
      BY <2>3, RequestFacts DEF SetMemberRole
    <3>2. CASE IsMember(request[s].target)
      BY <2>3, <3>1, <3>2
      DEF SetMemberRole, IsMember, Home!IsMember, Home!SetRole
    <3>3. CASE ~IsMember(request[s].target)
      <4>1. UNCHANGED <<role, access, providers>>
        BY <2>3, <3>1, <3>3 DEF SetMemberRole, IsMember, TypeOK
      <4> QED
        BY <4>1 DEF Home!household
    <3> QED
      BY <3>2, <3>3
  <2>4. ASSUME NEW s \in Requests, GrantProviderAccess(s)
        PROVE  [Home!Next]_(Home!household)
    <3> DEFINE u == request[s].target
               p == request[s].provider
    <3>1. u \in Users
      BY <2>4, RequestFacts DEF GrantProviderAccess
    <3>2. CASE IsMember(u) /\ p \in Live
      <4>1. access' = access \cup {<<u, p>>} /\ UNCHANGED <<role, providers>>
        BY <2>4, <3>2 DEF GrantProviderAccess
      <4>2. p \in Providers /\ Home!IsMember(u) /\ p \in Home!Live
        BY <3>2 DEF IsMember, Live, Home!IsMember, Home!Live
      <4> QED
        BY <3>1, <4>1, <4>2 DEF Home!Grant
    <3>3. CASE ~(IsMember(u) /\ p \in Live)
      <4>1. UNCHANGED <<role, access, providers>>
        BY <2>4, <3>3 DEF GrantProviderAccess
      <4> QED
        BY <4>1 DEF Home!household
    <3> QED
      BY <3>2, <3>3
  <2>5. ASSUME NEW s \in Requests, RevokeProviderAccess(s)
        PROVE  [Home!Next]_(Home!household)
    <3>1. /\ request[s].target \in Users
          /\ request[s].provider \in Providers \cup {NoProvider}
      BY <2>5, RequestFacts DEF RevokeProviderAccess
    <3>2. CASE request[s].provider \in Providers
      BY <2>5, <3>1, <3>2 DEF RevokeProviderAccess, Home!Revoke
    <3>3. CASE request[s].provider = NoProvider
      <4>1. UNCHANGED <<role, access, providers>>
        BY <2>5, <3>3, NothingAssumption DEF RevokeProviderAccess, TypeOK
      <4> QED
        BY <4>1 DEF Home!household
    <3> QED
      BY <3>1, <3>2, <3>3
  <2>6. CASE ProviderStep
    BY <2>6 DEF ProviderStep, CreateProvider, DeleteProvider,
                Home!CreateProvider, Home!DeleteProvider
  <2>7. CASE Accepting
    BY <2>7 DEF Accepting, AcceptInvitation, Home!Admit, Live, Home!Live
  <2> QED
    BY <2>1, <2>2, <2>3, <2>4, <2>5, <2>6, <2>7, Begins, Checks
    DEF Next, RequestStep, Checked, FailRequest, vars
<1> QED
  BY <1>1, <1>2, TypeCorrect, PTL DEF Spec, ImplementsHousehold, Home!Spec

-----------------------------------------------------------------------------
(* The last owner, when the requests come one at a time.                   *)

\* Somebody else owns the household once the checks of a request that may
\* cost it an owner are behind it.
AnotherOwner(s) ==
  LET q == request[s] IN
  q.pc # "idle" /\ q.kind \in {"leave", "remove", "role"} =>
    \/ q.kind = "leave" /\ q.role = "owner" /\ q.pc # "write"
    \/ \E o \in Owners : o # q.target

LEMMA TwoOwners ==
  ASSUME TypeOK, ~(Cardinality(Owners) <= 1), NEW u
  PROVE  \E o \in Owners : o # u
<1>1. SUFFICES ASSUME Owners \subseteq {u} PROVE FALSE
  OBVIOUS
<1>2. IsFiniteSet({u}) /\ Cardinality({u}) = 1
  BY FS_Singleton
<1>3. Cardinality(Owners) <= 1
  BY <1>1, <1>2, FS_Subset
<1> QED
  BY <1>3

LEMMA SoloStep ==
  ASSUME NEW s, Requests = {s}, TypeOK, AnOwnerRemains, AnotherOwner(s),
         [UpgradeNext]_vars
  PROVE  AnOwnerRemains' /\ AnotherOwner(s)'
<1> USE DEF AnOwnerRemains
<1>1. CASE RequestStep(s)
  <2>1. CASE Begun(s)
    <3>1. Owners' = Owners
      BY <2>1, Begins DEF Begun, Owners
    <3>2. request'[s].kind = "leave" /\ request'[s].role # "owner" =>
            request'[s].target \notin Owners
      BY <2>1, Begins DEF Begun, Owners
    <3> QED
      BY <2>1, <3>1, <3>2, Begins DEF Begun, AnotherOwner
  <2>2. CASE Checked(s)
    <3>1. Owners' = Owners
      BY <2>2, Checks DEF Owners
    <3>2. CASE EndRequest(s)
      BY <3>1, <3>2, EndType DEF AnotherOwner, NoRequest
    <3>3. CASE Advance(s, "count")
      <4>1. request'[s] = [request[s] EXCEPT !.pc = "count"]
        BY <2>2, <3>3, Checks, AdvanceType
      <4>2. request[s] \in
              [pc: {"entered", "count", "write"}, kind: Kinds, actor: Users,
               target: Users, role: Roles,
               provider: Providers \cup {NoProvider}]
        BY <2>2, Checks, RequestFacts
      <4>3. CASE CheckLeave(s)
        BY <4>1, <4>2, <4>3, <3>1, <3>3 DEF CheckLeave, Advance, AnotherOwner
      <4>4. CASE ~CheckLeave(s)
        <5>1. ~CountOwners(s) /\ ~CheckAccess(s)
          BY <4>1, <4>2
          DEF CountOwners, CheckAccess, Advance, EndRequest, NoRequest, TypeOK
        <5>2. request[s].kind # "leave" /\ request[s].pc = "entered"
          BY <2>2, <4>4, <5>1 DEF Checked, CheckTarget
        <5> QED
          BY <4>1, <4>2, <5>2, <3>1 DEF AnotherOwner
      <4> QED
        BY <4>3, <4>4
    <3>4. CASE Advance(s, "write")
      <4>1. request'[s] = [request[s] EXCEPT !.pc = "write"]
        BY <2>2, <3>4, Checks, AdvanceType
      <4>2. request[s] \in
              [pc: {"entered", "count", "write"}, kind: Kinds, actor: Users,
               target: Users, role: Roles,
               provider: Providers \cup {NoProvider}]
        BY <2>2, Checks, RequestFacts
      <4>3. CASE CountOwners(s)
        <5>1. ~(Cardinality(Owners) <= 1)
          BY <4>1, <4>2, <4>3 DEF CountOwners, EndRequest, NoRequest, TypeOK
        <5> QED
          BY <3>1, <4>1, <4>2, <5>1, TwoOwners DEF AnotherOwner
      <4>4. CASE CheckLeave(s)
        <5>1. request[s].role # "owner"
          BY <4>1, <4>2, <4>4 DEF CheckLeave, Advance, TypeOK
        <5> QED
          BY <3>1, <4>1, <4>2, <4>4, <5>1 DEF CheckLeave, AnotherOwner
      <4>5. CASE CheckTarget(s) \/ CheckAccess(s)
        BY <3>1, <4>1, <4>2, <4>5 DEF CheckTarget, CheckAccess, AnotherOwner
      <4> QED
        BY <2>2, <4>3, <4>4, <4>5 DEF Checked
    <3> QED
      BY <2>2, <3>1, <3>2, <3>3, <3>4, Checks
  <2>3. CASE RemoveMember(s) \/ SetMemberRole(s)
    <3>1. /\ request[s].pc = "write"
          /\ request[s].kind \in {"leave", "remove", "role"}
      BY <2>3 DEF RemoveMember, SetMemberRole
    <3>2. PICK o \in Owners : o # request[s].target
      BY <3>1 DEF AnotherOwner
    <3>3. o \in Owners'
      BY <2>3, <3>2 DEF RemoveMember, SetMemberRole, Owners, TypeOK
    <3>4. request'[s] = NoRequest
      BY <2>3, EndType DEF RemoveMember, SetMemberRole
    <3> QED
      BY <3>3, <3>4 DEF AnotherOwner, NoRequest
  <2>4. CASE GrantProviderAccess(s) \/ RevokeProviderAccess(s) \/ FailRequest(s)
    <3>1. Owners' = Owners
      BY <2>4
      DEF GrantProviderAccess, RevokeProviderAccess, FailRequest, Owners
    <3>2. request'[s] = NoRequest
      BY <2>4, EndType DEF GrantProviderAccess, RevokeProviderAccess, FailRequest
    <3> QED
      BY <3>1, <3>2 DEF AnotherOwner, NoRequest
  <2> QED
    BY <1>1, <2>1, <2>2, <2>3, <2>4 DEF RequestStep, Begun, Checked
<1>2. CASE ProviderStep \/ UNCHANGED vars
  <2>1. UNCHANGED <<role, request>>
    BY <1>2 DEF ProviderStep, CreateProvider, DeleteProvider, vars
  <2> QED
    BY <2>1 DEF Owners, AnotherOwner
<1>3. CASE Upgrading
  <2>1. Owners \subseteq Owners' /\ request' = request
    BY <1>3 DEF Upgrading, AcceptInvitation, Owners, TypeOK
  <2> QED
    BY <2>1 DEF AnotherOwner
<1> QED
  BY <1>1, <1>2, <1>3 DEF UpgradeNext

\* As long as requests over the members come one at a time, and invitations
\* only ever upgrade, a household never runs out of owners: the count in
\* LeaveHousehold, and nothing but the self checks in the other two, sees to it.
THEOREM SoloKeepsAnOwner ==
  ASSUME NEW s, Requests = {s}
  PROVE  UpgradeSpec => []AnOwnerRemains
<1>1. Init => TypeOK /\ AnOwnerRemains /\ AnotherOwner(s)
  <2> SUFFICES ASSUME Init PROVE AnOwnerRemains /\ AnotherOwner(s)
    BY InitType
  <2>1. Founder \in Owners
    BY FounderAssumption DEF Init, Owners
  <2>2. request[s] = NoRequest
    BY DEF Init
  <2> QED
    BY <2>1, <2>2 DEF AnOwnerRemains, AnotherOwner, NoRequest
<1>2. [UpgradeNext]_vars => [Next]_vars
  BY DEF UpgradeNext, Next, Upgrading, Accepting
<1>3. TypeOK /\ AnOwnerRemains /\ AnotherOwner(s) /\ [UpgradeNext]_vars
        => (TypeOK /\ AnOwnerRemains /\ AnotherOwner(s))'
  BY <1>2, NextType, SoloStep
<1> QED
  BY <1>1, <1>3, PTL DEF UpgradeSpec

=============================================================================
