---------------------------- MODULE ServerProofs ----------------------------
(* Gate, for any number of users, sessions, households, hosts and requests   *)
(* in flight, any number of trusted proxies, in development or not;          *)
(* Lifecycle, for any number of containers, migrations and deadlines; and    *)
(* RateLimit, for any rule, any number of replicas and requests, and any     *)
(* skew and waiting that leave a window's time to spare.                     *)
EXTENDS Gate, Lifecycle, RateLimit, TLAPS

-----------------------------------------------------------------------------
(* The guards that read no state.                                          *)

\* Whatever the browser, a page of another origin sends a header that says so.
LEMMA ForeignIsRefused ==
  ASSUME NEW page \in Pages \ Ours, NEW browser \in Browser
  PROVE  ~SameSite(page, browser)
<1>1. page # "nopage" /\ ~OriginAllowed(page) /\ FetchSite(page) # "same-origin"
  BY DEF Pages, Ours, OriginAllowed, FetchSite
<1>2. browser # {} /\ browser \subseteq {"Sec-Fetch-Site", "Origin", "Referer"}
  BY DEF Browser
<1> QED
  BY <1>1, <1>2 DEF SameSite, Sends

\* Only what the trusted proxies appended counts, and the first of them saw
\* the caller, however long a chain the caller made up.
LEMMA ForgingIsFruitless ==
  ASSUME ProxiesFold, NEW S, NEW forged \in Seq(S), NEW host
  PROVE  ClientIP(FirstLine(Forwarded(forged, host)), Socket(host)) = host
<1>1. CASE Hops = 0
  BY <1>1 DEF ClientIP, Socket
<1>2. CASE Hops # 0
  <2> DEFINE seen == Append(forged, host)
             rest == [i \in 1..(Hops - 1) |-> Proxy]
             T == S \cup {host, Proxy}
  <2>1. Hops \in Nat \ {0} /\ Hops - 1 \in Nat
    BY <1>2, HopsAssumption
  <2>2. /\ seen \in Seq(T)
        /\ Len(seen) = Len(forged) + 1
        /\ seen[Len(forged) + 1] = host
    OBVIOUS
  <2>3. rest \in Seq(T) /\ Len(rest) = Hops - 1
    BY <2>1
  <2> HIDE DEF seen, rest, T
  <2>4. Len(forged) \in Nat
    OBVIOUS
  <2>5. /\ Len(seen \o rest) = Len(forged) + Hops
        /\ (seen \o rest)[Len(forged) + 1] = host
        /\ seen \o rest # <<>>
    BY <2>1, <2>2, <2>3, <2>4
  <2>6. FirstLine(Forwarded(forged, host)) = seen \o rest
    BY <1>2 DEF Forwarded, FirstLine, seen, rest
  <2>7. CASE Len(forged) = 0
    BY <1>2, <2>1, <2>5, <2>6, <2>7 DEF ClientIP
  <2>8. CASE Len(forged) > 0
    BY <1>2, <2>1, <2>4, <2>5, <2>6, <2>8 DEF ClientIP
  <2> QED
    BY <2>4, <2>7, <2>8
<1> QED
  BY <1>1, <1>2

\* A line of its own from a proxy changes whose bucket it is, never that it is
\* somebody's.
LEMMA ForgingIsSomebody ==
  ASSUME NEW host, NEW x
  PROVE  /\ ClientIP(FirstLine(Forwarded(<<>>, host)), Socket(host)) = host
         /\ ~ProxiesFold =>
              ClientIP(FirstLine(Forwarded(<<x>>, host)), Socket(host)) \in {x, host}
<1> DEFINE rest == [i \in 1..(Hops - 1) |-> Proxy]
           lines == [i \in 1..(Hops - 1) |-> <<rest[i]>>]
<1>1. CASE Hops = 0
  BY <1>1 DEF ClientIP, Socket
<1>2. CASE Hops # 0 /\ ProxiesFold
  <2>1. <<>> \in Seq({host})
    OBVIOUS
  <2> QED
    BY <1>2, <2>1, ForgingIsFruitless
<1>3. CASE Hops # 0 /\ ~ProxiesFold
  <2>1. Hops \in Nat \ {0} /\ Hops - 1 \in Nat
    BY <1>3, HopsAssumption
  <2>2. lines \in Seq({<<rest[i]>> : i \in 1..(Hops - 1)})
    BY <2>1
  <2> HIDE DEF lines
  <2>3. /\ FirstLine(<<>> \o <<<<host>>>> \o lines) = <<host>>
        /\ FirstLine(<<<<x>>>> \o <<<<host>>>> \o lines) = <<x>>
    BY <2>2 DEF FirstLine
  <2>4. /\ Forwarded(<<>>, host) = <<>> \o <<<<host>>>> \o lines
        /\ Forwarded(<<x>>, host) = <<<<x>>>> \o <<<<host>>>> \o lines
    BY <1>3 DEF Forwarded, lines, rest
  <2>5. ASSUME NEW y
        PROVE  ClientIP(<<y>>, Socket(host)) = y
    <3>1. /\ Len(<<y>>) = 1 /\ <<y>> # <<>> /\ <<y>>[1] = y
          /\ ~(1 > Hops)
      BY <2>1
    <3> QED
      BY <1>3, <3>1 DEF ClientIP
  <2>6. /\ FirstLine(Forwarded(<<>>, host)) = <<host>>
        /\ FirstLine(Forwarded(<<x>>, host)) = <<x>>
    BY <2>3, <2>4
  <2> QED
    BY <2>5, <2>6
<1> QED
  BY <1>1, <1>2, <1>3

LEMMA BucketIsTheHost ==
  ASSUME NEW host \in Hosts
  PROVE  /\ Buckets(host) \subseteq Hosts \cup {Proxy}
         /\ ProxiesFold => Buckets(host) \subseteq {host}
<1>1. ASSUME NEW forged \in {<<>>} \cup {<<x>> : x \in Hosts \cup {Proxy}}
      PROVE  LET client == ClientIP(FirstLine(Forwarded(forged, host)), Socket(host))
             IN client \in Hosts \cup {Proxy} /\ (ProxiesFold => client = host)
  <2>1. CASE forged = <<>>
    BY <2>1, ForgingIsSomebody
  <2>2. CASE forged \in {<<x>> : x \in Hosts \cup {Proxy}}
    <3>1. PICK x \in Hosts \cup {Proxy} : forged = <<x>>
      BY <2>2
    <3>2. <<x>> \in Seq({x})
      OBVIOUS
    <3>3. CASE ProxiesFold
      BY <3>1, <3>2, <3>3, ForgingIsFruitless
    <3> QED
      BY <3>1, <3>3, ForgingIsSomebody
  <2> QED
    BY <2>1, <2>2
<1> QED
  BY <1>1 DEF Buckets

-----------------------------------------------------------------------------
(* What is known of a request, and that it is never forgotten.             *)

SessionsOK(sessions) ==
  sessions \in [Sessions -> [owner: Users \cup {Nobody}, live: BOOLEAN]]
RolesOK(roles) == roles \in [Slugs -> [Users -> Roles] \cup {Unborn}]

\* A cookie in a request is that of a session that was minted.
Minted(q, sessions) ==
  q.cookie # NoCookie => sessions[q.cookie].owner \in Users

\* The history of a request has what is true now.
Stamped(q, sessions, roles) ==
  q.cookie # NoCookie =>
    LET s == sessions[q.cookie] IN
    /\ s.live => q.wasLive
    /\ q.slug # Nobody => RoleIn(roles, q.slug, s.owner) \in q.held
    /\ Homeless(roles, s.owner) => q.wasHomeless

\* b is a, later, the layers having done nothing to it.
Grown(a, b) ==
  /\ b.pc = a.pc /\ b.op = a.op /\ b.page = a.page /\ b.host = a.host
  /\ b.cookie = a.cookie /\ b.slug = a.slug /\ b.client = a.client
  /\ b.caller = a.caller /\ b.role = a.role
  /\ a.wasLive => b.wasLive
  /\ a.held \subseteq b.held
  /\ a.wasHomeless => b.wasHomeless

\* What each layer has established, and the later ones lean on.
Vetted(q, sessions) ==
  /\ q.pc # "idle" =>
       /\ q.page \in Ours \/ Safe(q.op)
       /\ ProxiesFold => q.client = q.host
       /\ q.slug \in Named(q.op)
  /\ q.caller # Nobody =>
       /\ q.cookie # NoCookie
       /\ q.wasLive
       /\ q.caller = sessions[q.cookie].owner
  /\ q.pc = "tenancy" => Tier(q.op) \in {"household", "owner"}
  /\ q.pc \notin {"idle", "arrived"} /\ Tier(q.op) \notin {"public", "viewer"} =>
       q.caller # Nobody
  /\ /\ q.pc \notin {"idle", "arrived", "tenancy"}
     /\ Tier(q.op) \in {"household", "owner"}
     => /\ q.role \in q.held /\ q.role # "none"
        /\ Tier(q.op) = "owner" => q.role = "owner"
  /\ q.pc \in {"allowed", "unclaimed", "founded"} =>
       /\ q.op = "CreateHousehold"
       /\ q.caller = Founder \/ q.wasHomeless

GateInv ==
  /\ GateTypeOK
  /\ \A v \in Visits :
       /\ Minted(visit[v], session)
       /\ Stamped(visit[v], session, role)
       /\ Vetted(visit[v], session)

\* The parts of a request's type.
LEMMA VisitFacts ==
  ASSUME NEW q \in VisitState
  PROVE  /\ q.op \in Operations /\ q.page \in Pages
         /\ q.slug \in Slugs \cup {Nobody} /\ q.cookie \in Sessions \cup {NoCookie}
         /\ q.caller \in Users \cup {Nobody} /\ q.role \in Roles
         /\ q.held \in SUBSET Roles
         /\ q.wasLive \in BOOLEAN /\ q.wasHomeless \in BOOLEAN
  BY DEF VisitState

LEMMA RoleInType ==
  ASSUME NEW roles, RolesOK(roles), NEW h \in Slugs, NEW u \in Users
  PROVE  RoleIn(roles, h, u) \in Roles
  BY DEF RolesOK, RoleIn, Roles

LEMMA WitnessFacts ==
  ASSUME NEW visits \in [Visits -> VisitState],
         NEW sessions, SessionsOK(sessions),
         NEW roles, RolesOK(roles),
         \A v \in Visits : Minted(visits[v], sessions)
  PROVE  /\ Witness(visits, sessions, roles) \in [Visits -> VisitState]
         /\ \A v \in Visits :
              LET q == Witness(visits, sessions, roles)[v] IN
              /\ Grown(visits[v], q)
              /\ Minted(q, sessions)
              /\ Stamped(q, sessions, roles)
<1> DEFINE W == Witness(visits, sessions, roles)
<1>1. ASSUME NEW v \in Visits
      PROVE  /\ W[v] \in VisitState
             /\ Grown(visits[v], W[v])
             /\ Minted(W[v], sessions)
             /\ Stamped(W[v], sessions, roles)
  <2> DEFINE q == visits[v]
             s == sessions[q.cookie]
  <2>1. q \in VisitState
    OBVIOUS
  <2>2. CASE q.cookie = NoCookie
    <3>1. W[v] = q
      BY <2>2 DEF Witness
    <3> QED
      BY <2>1, <2>2, <3>1 DEF Grown, Minted, Stamped
  <2>3. CASE q.cookie # NoCookie
    <3> DEFINE held == IF q.slug = Nobody THEN q.held
                       ELSE q.held \cup {RoleIn(roles, q.slug, s.owner)}
    <3>1. q.cookie \in Sessions /\ s.owner \in Users /\ s.live \in BOOLEAN
      BY <2>1, <2>3, VisitFacts DEF SessionsOK, Minted
    <3>2. held \in SUBSET Roles /\ q.held \subseteq held
      BY <2>1, <3>1, VisitFacts, RoleInType
    <3>3. W[v] = [q EXCEPT !.wasLive = q.wasLive \/ s.live,
                           !.held = held,
                           !.wasHomeless = q.wasHomeless \/ Homeless(roles, s.owner)]
      BY <2>3 DEF Witness
    <3>4. (q.wasHomeless \/ Homeless(roles, s.owner)) \in BOOLEAN
      BY <2>1, VisitFacts DEF Homeless
    <3> HIDE DEF held
    <3>5. /\ W[v] \in VisitState
          /\ Grown(q, W[v])
          /\ W[v].held = held
          /\ s.live => W[v].wasLive
          /\ Homeless(roles, s.owner) => W[v].wasHomeless
      BY <2>1, <3>1, <3>2, <3>3, <3>4 DEF VisitState, Grown
    <3> QED
      BY <3>1, <3>5 DEF Grown, Minted, Stamped, held
  <2> QED
    BY <2>2, <2>3
<1>2. W = [v \in Visits |-> W[v]]
  BY DEF Witness
<1> QED
  BY <1>1, <1>2

\* What was vetted stays so while owners of sessions do not change.
LEMMA VettedGrown ==
  ASSUME NEW a, NEW b, Grown(a, b), NEW before, NEW after,
         Vetted(a, before),
         a.caller # Nobody => after[a.cookie].owner = before[a.cookie].owner
  PROVE  Vetted(b, after)
  BY DEF Grown, Vetted

LEMMA GrownSelf == ASSUME NEW a PROVE Grown(a, a)
  BY DEF Grown

-----------------------------------------------------------------------------
(* Every step.                                                             *)

LEMMA GateInit_Inv == GateInit => GateInv
<1> SUFFICES ASSUME GateInit PROVE GateInv
  OBVIOUS
<1>1. NoVisit \in VisitState
  BY DEF NoVisit, VisitState, Operations, Pages, Roles
<1>2. GateTypeOK
  BY <1>1 DEF GateInit, GateTypeOK
<1>3. ASSUME NEW v \in Visits
      PROVE  Minted(visit[v], session) /\ Stamped(visit[v], session, role)
             /\ Vetted(visit[v], session)
  BY DEF GateInit, NoVisit, Minted, Stamped, Vetted
<1> QED
  BY <1>2, <1>3 DEF GateInv

\* A request ends.
LEMMA RestFacts ==
  ASSUME NEW sessions, NEW roles
  PROVE  /\ NoVisit \in VisitState
         /\ Minted(NoVisit, sessions)
         /\ Stamped(NoVisit, sessions, roles)
         /\ Vetted(NoVisit, sessions)
  BY DEF NoVisit, VisitState, Operations, Pages, Roles, Minted, Stamped, Vetted

\* One request moves on, everything else stands.
LEMMA OneMoves ==
  ASSUME GateInv, NEW v \in Visits, NEW q \in VisitState,
         visit' = [visit EXCEPT ![v] = q], UNCHANGED <<session, role>>,
         Minted(q, session), Stamped(q, session, role), Vetted(q, session)
  PROVE  GateInv'
<1>1. GateTypeOK'
  BY DEF GateInv, GateTypeOK
<1>2. ASSUME NEW x \in Visits
      PROVE  visit'[x] = IF x = v THEN q ELSE visit[x]
  BY DEF GateInv, GateTypeOK
<1>3. ASSUME NEW x \in Visits
      PROVE  /\ Minted(visit[x], session)'
             /\ Stamped(visit[x], session, role)'
             /\ Vetted(visit[x], session)'
  BY <1>2 DEF GateInv, Minted, Stamped, Vetted
<1> QED
  BY <1>1, <1>3 DEF GateInv

\* Sessions and roles change, and the requests in flight take note.
LEMMA AllWitness ==
  ASSUME GateInv, NEW visits \in [Visits -> VisitState],
         SessionsOK(session'), RolesOK(role'),
         visit' = Witness(visits, session', role'),
         \A x \in Visits : Minted(visits[x], session') /\ Vetted(visits[x], session')
  PROVE  GateInv'
<1>1. /\ visit' \in [Visits -> VisitState]
      /\ \A x \in Visits : /\ Grown(visits[x], visit'[x])
                           /\ Minted(visit'[x], session')
                           /\ Stamped(visit'[x], session', role')
  BY WitnessFacts
<1>2. GateTypeOK'
  BY <1>1 DEF GateTypeOK, SessionsOK, RolesOK
<1>3. ASSUME NEW x \in Visits PROVE Vetted(visit'[x], session')
  BY <1>1, VettedGrown
<1> QED
  BY <1>1, <1>2, <1>3 DEF GateInv

\* Only sessions change: rows are revoked, or one is minted.
LEMMA OnlySessions ==
  ASSUME GateInv, SessionsOK(session'), UNCHANGED <<role, visit>>,
         \A s \in Sessions : session[s].owner \in Users =>
           /\ session'[s].owner = session[s].owner
           /\ session'[s].live => session[s].live
  PROVE  GateInv'
<1>1. GateTypeOK'
  BY DEF GateInv, GateTypeOK, SessionsOK
<1>2. ASSUME NEW x \in Visits
      PROVE  /\ Minted(visit'[x], session')
             /\ Stamped(visit'[x], session', role')
             /\ Vetted(visit'[x], session')
  <2> DEFINE q == visit[x]
  <2>1. q \in VisitState /\ visit'[x] = q /\ role' = role
    BY DEF GateInv, GateTypeOK
  <2>2. Minted(q, session) /\ Stamped(q, session, role) /\ Vetted(q, session)
    BY DEF GateInv
  <2>3. CASE q.cookie = NoCookie
    BY <2>1, <2>2, <2>3 DEF Minted, Stamped, Vetted
  <2>4. CASE q.cookie # NoCookie
    <3>1. q.cookie \in Sessions /\ session[q.cookie].owner \in Users
      BY <2>1, <2>2, <2>4, VisitFacts DEF Minted
    <3>2. /\ session'[q.cookie].owner = session[q.cookie].owner
          /\ session'[q.cookie].live => session[q.cookie].live
      BY <3>1
    <3>3. Minted(q, session') /\ Stamped(q, session', role)
      BY <2>2, <3>1, <3>2 DEF Minted, Stamped
    <3>4. Vetted(q, session')
      BY <2>2, <3>2, VettedGrown, GrownSelf
    <3> QED
      BY <2>1, <3>3, <3>4
  <2> QED
    BY <2>3, <2>4
<1> QED
  BY <1>1, <1>2 DEF GateInv

\* The guard admits a page of another origin only to read.
LEMMA AdmissibleFacts ==
  ASSUME NEW op, NEW page \in Admissible(op)
  PROVE  page \in Pages /\ (page \in Ours \/ Safe(op))
  BY ForeignIsRefused DEF Admissible

LEMMA Step_ComeIn ==
  ASSUME GateInv, NEW v \in Visits, ComeIn(v)
  PROVE  GateInv'
<1>1. PICK op \in Operations, host \in Hosts, cookie \in Cookies :
      \E page \in Admissible(op), client \in Buckets(host), slug \in Named(op) :
        visit' = Witness(
          [visit EXCEPT ![v] =
             [NoVisit EXCEPT
                !.pc = IF Tier(op) = "public" THEN "limit" ELSE "arrived",
                !.op = op, !.page = page, !.host = host, !.cookie = cookie,
                !.slug = slug, !.client = client]],
          session, role)
  BY DEF ComeIn
<1>2. PICK page \in Admissible(op), client \in Buckets(host), slug \in Named(op) :
        visit' = Witness(
          [visit EXCEPT ![v] =
             [NoVisit EXCEPT
                !.pc = IF Tier(op) = "public" THEN "limit" ELSE "arrived",
                !.op = op, !.page = page, !.host = host, !.cookie = cookie,
                !.slug = slug, !.client = client]],
          session, role)
  BY <1>1
<1> DEFINE pc == IF Tier(op) = "public" THEN "limit" ELSE "arrived"
           q == [NoVisit EXCEPT !.pc = pc, !.op = op, !.page = page, !.host = host,
                                !.cookie = cookie, !.slug = slug, !.client = client]
           visits == [visit EXCEPT ![v] = q]
<1>3. /\ page \in Pages /\ (page \in Ours \/ Safe(op))
      /\ client \in Hosts \cup {Proxy} /\ (ProxiesFold => client = host)
  BY AdmissibleFacts, BucketIsTheHost
<1>4. slug \in Slugs \cup {Nobody}
  BY DEF Named
<1>5. /\ cookie \in Sessions \cup {NoCookie}
      /\ cookie # NoCookie => session[cookie].owner \in Users
  BY NoCookieIsNoSession DEF Cookies, GateInv, GateTypeOK
<1>6. pc \in {"limit", "arrived"} /\ (pc = "limit" => Tier(op) = "public")
  OBVIOUS
<1> HIDE DEF pc
<1>7. /\ q.pc = pc /\ q.op = op /\ q.page = page /\ q.host = host
      /\ q.cookie = cookie /\ q.slug = slug /\ q.client = client
      /\ q.caller = Nobody
  BY DEF NoVisit
<1>8. q \in VisitState
  BY <1>3, <1>4, <1>5, <1>6 DEF VisitState, NoVisit, Roles
<1> HIDE DEF q
<1>9. Minted(q, session) /\ Vetted(q, session)
  BY <1>3, <1>5, <1>6, <1>7 DEF Minted, Vetted
<1>10. visits \in [Visits -> VisitState]
  BY <1>8 DEF GateInv, GateTypeOK
<1>11. ASSUME NEW x \in Visits
       PROVE  Minted(visits[x], session) /\ Vetted(visits[x], session)
  <2>1. visits[x] = IF x = v THEN q ELSE visit[x]
    BY DEF GateInv, GateTypeOK
  <2> QED
    BY <1>9, <2>1 DEF GateInv
<1>12. /\ session' = session /\ role' = role
       /\ visit' = Witness(visits, session, role)
  BY <1>1, <1>2 DEF ComeIn, q, pc
<1>13. SessionsOK(session') /\ RolesOK(role')
  BY <1>12 DEF GateInv, GateTypeOK, SessionsOK, RolesOK
<1> HIDE DEF visits
<1> QED
  BY <1>10, <1>11, <1>12, <1>13, AllWitness

\* A request that goes on past a check which left no trace.
LEMMA Step_Pass ==
  ASSUME GateInv, NEW v \in Visits, NEW pc, Pass(v, pc),
         \/ visit[v].pc = "limit" /\ pc = "handler"
         \/ /\ pc \in {"allowed", "unclaimed"}
            /\ visit[v].pc \in {"handler", "allowed"}
            /\ visit[v].op = "CreateHousehold"
            /\ visit[v].caller = Founder \/ visit[v].wasHomeless
  PROVE  GateInv'
<1> DEFINE q == [visit[v] EXCEPT !.pc = pc]
<1>1. visit[v] \in VisitState
  BY DEF GateInv, GateTypeOK
<1>2. q \in VisitState
  BY <1>1 DEF VisitState
<1>3. Minted(q, session) /\ Stamped(q, session, role)
  BY <1>1 DEF GateInv, Minted, Stamped, VisitState
<1>4. Vetted(q, session)
  BY <1>1 DEF GateInv, Vetted, VisitState
<1>5. visit' = [visit EXCEPT ![v] = q] /\ UNCHANGED <<session, role>>
  BY DEF Pass
<1> HIDE DEF q
<1> QED
  BY <1>2, <1>3, <1>4, <1>5, OneMoves

LEMMA Step_Respond ==
  ASSUME GateInv, NEW v \in Visits, Respond(v)
  PROVE  GateInv'
  BY RestFacts, OneMoves DEF Respond, Refuse

LEMMA Step_Session ==
  ASSUME GateInv, NEW v \in Visits, Session(v)
  PROVE  GateInv'
<1> DEFINE caller == IF visit[v].cookie = NoCookie THEN Nobody
                     ELSE SessionFromRequest(v)
           pc == IF Tier(visit[v].op) \in {"household", "owner"}
                 THEN "tenancy" ELSE "limit"
           q == [visit[v] EXCEPT !.caller = caller, !.pc = pc]
<1>1. /\ visit[v] \in VisitState
      /\ Minted(visit[v], session) /\ Stamped(visit[v], session, role)
      /\ Vetted(visit[v], session)
  BY DEF GateInv, GateTypeOK
<1>2. /\ caller \in Users \cup {Nobody}
      /\ caller # Nobody => /\ visit[v].cookie # NoCookie
                            /\ visit[v].wasLive
                            /\ caller = session[visit[v].cookie].owner
  BY <1>1 DEF SessionFromRequest, Minted, Stamped
<1>3. /\ visit[v].pc = "arrived"
      /\ Tier(visit[v].op) = "viewer" \/ caller # Nobody
      /\ visit' = [visit EXCEPT ![v].caller = caller, ![v].pc = pc]
      /\ UNCHANGED <<session, role>>
  BY DEF Session
<1>4. /\ pc \in {"tenancy", "limit"}
      /\ pc = "tenancy" <=> Tier(visit[v].op) \in {"household", "owner"}
  OBVIOUS
<1> HIDE DEF caller, pc
<1>5. q \in VisitState
  BY <1>1, <1>2, <1>4 DEF VisitState
<1>6. Minted(q, session) /\ Stamped(q, session, role)
  BY <1>1 DEF Minted, Stamped, VisitState
<1>7. /\ q.pc = pc /\ q.caller = caller
      /\ q.op = visit[v].op /\ q.page = visit[v].page /\ q.slug = visit[v].slug
      /\ q.client = visit[v].client /\ q.host = visit[v].host
      /\ q.cookie = visit[v].cookie /\ q.wasLive = visit[v].wasLive
  BY <1>1 DEF VisitState
<1>8. visit' = [visit EXCEPT ![v] = q]
  BY <1>1, <1>3 DEF GateInv, GateTypeOK, VisitState
<1> HIDE DEF q
<1>9. Vetted(q, session)
  BY <1>1, <1>2, <1>3, <1>4, <1>7 DEF Vetted
<1> QED
  BY <1>3, <1>5, <1>6, <1>8, <1>9, OneMoves

LEMMA Step_RequireHousehold ==
  ASSUME GateInv, NEW v \in Visits, RequireHousehold(v)
  PROVE  GateInv'
<1> DEFINE r == RoleIn(role, visit[v].slug, visit[v].caller)
           q == [visit[v] EXCEPT !.pc = "limit", !.role = r]
<1>1. /\ visit[v] \in VisitState
      /\ Minted(visit[v], session) /\ Stamped(visit[v], session, role)
      /\ Vetted(visit[v], session)
  BY DEF GateInv, GateTypeOK
<1>2. /\ visit[v].pc = "tenancy" /\ r # "none"
      /\ Tier(visit[v].op) = "owner" => r = "owner"
      /\ visit' = [visit EXCEPT ![v].pc = "limit", ![v].role = r]
      /\ UNCHANGED <<session, role>>
  BY DEF RequireHousehold
<1>3. Tier(visit[v].op) \in {"household", "owner"} /\ visit[v].caller # Nobody
  BY <1>1, <1>2 DEF Vetted
<1>4. visit[v].slug \in Slugs /\ visit[v].slug # Nobody
  BY <1>1, <1>2, <1>3, NobodyIsNoUser DEF Vetted, Named
<1>5. r \in visit[v].held /\ r \in Roles
  BY <1>1, <1>3, <1>4, VisitFacts DEF Vetted, Stamped
<1> HIDE DEF r
<1>6. q \in VisitState
  BY <1>1, <1>5 DEF VisitState
<1>7. Minted(q, session) /\ Stamped(q, session, role)
  BY <1>1 DEF Minted, Stamped, VisitState
<1>8. Vetted(q, session)
  BY <1>1, <1>2, <1>3, <1>5 DEF Vetted, VisitState
<1>9. visit' = [visit EXCEPT ![v] = q]
  BY <1>1, <1>2 DEF GateInv, GateTypeOK, VisitState
<1> HIDE DEF q
<1> QED
  BY <1>2, <1>6, <1>7, <1>8, <1>9, OneMoves

LEMMA Step_CheckCreation ==
  ASSUME GateInv, NEW v \in Visits, CheckCreation(v)
  PROVE  GateInv'
<1>1. /\ visit[v] \in VisitState
      /\ Stamped(visit[v], session, role) /\ Vetted(visit[v], session)
  BY DEF GateInv, GateTypeOK
<1>2. /\ visit[v].pc = "handler" /\ visit[v].op = "CreateHousehold"
      /\ MayCreate(visit[v].caller) /\ Pass(v, "allowed")
  BY DEF CheckCreation
<1>3. visit[v].caller # Nobody
  BY <1>1, <1>2 DEF Vetted, Tier
<1>4. visit[v].caller = Founder \/ visit[v].wasHomeless
  BY <1>1, <1>2, <1>3 DEF Vetted, Stamped, MayCreate
<1> QED
  BY <1>2, <1>4, Step_Pass

LEMMA Step_LookUpSlug ==
  ASSUME GateInv, NEW v \in Visits, LookUpSlug(v)
  PROVE  GateInv'
<1>1. Vetted(visit[v], session)
  BY DEF GateInv
<1>2. visit[v].pc = "allowed" /\ Pass(v, "unclaimed")
  BY DEF LookUpSlug
<1>3. /\ visit[v].op = "CreateHousehold"
      /\ visit[v].caller = Founder \/ visit[v].wasHomeless
  BY <1>1, <1>2 DEF Vetted
<1> QED
  BY <1>2, <1>3, Step_Pass

LEMMA Step_CreateHousehold ==
  ASSUME GateInv, NEW v \in Visits, CreateHousehold(v)
  PROVE  GateInv'
<1> DEFINE q == [visit[v] EXCEPT !.pc = "founded"]
           visits == [visit EXCEPT ![v] = q]
           born == [u \in Users |-> IF u = visit[v].caller THEN "owner" ELSE "none"]
<1>1. /\ visit[v] \in VisitState
      /\ Minted(visit[v], session) /\ Vetted(visit[v], session)
  BY DEF GateInv, GateTypeOK
<1>2. /\ visit[v].pc = "unclaimed"
      /\ session' = session
      /\ role' = [role EXCEPT ![visit[v].slug] = born]
      /\ visit' = Witness([visit EXCEPT ![v].pc = "founded"], session, role')
  BY DEF CreateHousehold
<1>3. q \in VisitState /\ visits \in [Visits -> VisitState]
  BY <1>1 DEF VisitState, GateInv, GateTypeOK
<1>4. visits = [visit EXCEPT ![v].pc = "founded"]
  BY <1>1 DEF GateInv, GateTypeOK
<1>5. Minted(q, session) /\ Vetted(q, session)
  BY <1>1, <1>2 DEF Minted, Vetted, VisitState
<1> HIDE DEF q
<1>6. ASSUME NEW x \in Visits
      PROVE  Minted(visits[x], session) /\ Vetted(visits[x], session)
  <2>1. visits[x] = IF x = v THEN q ELSE visit[x]
    BY DEF GateInv, GateTypeOK
  <2> QED
    BY <1>5, <2>1 DEF GateInv
<1>7. born \in [Users -> Roles]
  BY DEF Roles
<1> HIDE DEF visits, born
<1>8. SessionsOK(session') /\ RolesOK(role')
  BY <1>2, <1>7 DEF GateInv, GateTypeOK, SessionsOK, RolesOK
<1> QED
  BY <1>2, <1>3, <1>4, <1>6, <1>8, AllWitness

LEMMA Step_RevokeOtherSessions ==
  ASSUME GateInv, NEW v \in Visits, RevokeOtherSessions(v)
  PROVE  GateInv'
<1> DEFINE visits == [visit EXCEPT ![v] = NoVisit]
<1>1. /\ session' = [s \in Sessions |->
             IF session[s].owner = visit[v].caller /\ s # visit[v].cookie
             THEN [session[s] EXCEPT !.live = FALSE] ELSE session[s]]
      /\ role' = role
      /\ visit' = Witness(visits, session', role)
  BY DEF RevokeOtherSessions
<1>2. SessionsOK(session') /\ RolesOK(role')
  BY <1>1 DEF GateInv, GateTypeOK, SessionsOK, RolesOK
<1>3. visits \in [Visits -> VisitState]
  BY RestFacts DEF GateInv, GateTypeOK
<1>4. \A s \in Sessions : session'[s].owner = session[s].owner
  BY <1>1 DEF GateInv, GateTypeOK
<1>5. ASSUME NEW x \in Visits
      PROVE  Minted(visits[x], session') /\ Vetted(visits[x], session')
  <2>1. CASE x = v
    <3>1. visits[x] = NoVisit
      BY <2>1 DEF GateInv, GateTypeOK
    <3> QED
      BY <3>1, RestFacts
  <2>2. CASE x # v
    <3>1. /\ visits[x] = visit[x] /\ visit[x] \in VisitState
          /\ Minted(visit[x], session) /\ Vetted(visit[x], session)
      BY <2>2 DEF GateInv, GateTypeOK
    <3>2. Minted(visit[x], session')
      BY <1>4, <3>1, VisitFacts DEF Minted
    <3>3. visit[x].caller # Nobody => visit[x].cookie \in Sessions
      BY <3>1, VisitFacts DEF Vetted
    <3>4. Vetted(visit[x], session')
      BY <1>4, <3>1, <3>3, VettedGrown, GrownSelf
    <3> QED
      BY <3>1, <3>2, <3>4
  <2> QED
    BY <2>1, <2>2
<1> HIDE DEF visits
<1> QED
  BY <1>1, <1>2, <1>3, <1>5, AllWitness

LEMMA Step_SignIn ==
  ASSUME GateInv, NEW s \in Sessions, NEW u \in Users, SignIn(s, u)
  PROVE  GateInv'
<1>1. PICK live \in BOOLEAN :
        session' = [session EXCEPT ![s] = [owner |-> u, live |-> live]]
  BY DEF SignIn
<1>2. SessionsOK(session')
  BY <1>1 DEF GateInv, GateTypeOK, SessionsOK
<1>3. ASSUME NEW x \in Sessions, session[x].owner \in Users
      PROVE  session'[x] = session[x]
  BY <1>1, <1>3, NobodyIsNoUser DEF SignIn, GateInv, GateTypeOK
<1> QED
  BY <1>2, <1>3, OnlySessions DEF SignIn

LEMMA Step_Revoke ==
  ASSUME GateInv,
         \/ \E s \in Sessions : RevokeSession(s)
         \/ \E u \in Users : RevokeAllSessions(u)
  PROVE  GateInv'
<1>1. /\ SessionsOK(session')
      /\ \A x \in Sessions : /\ session'[x].owner = session[x].owner
                             /\ session'[x].live => session[x].live
  <2>1. session \in [Sessions -> [owner: Users \cup {Nobody}, live: BOOLEAN]]
    BY DEF GateInv, GateTypeOK
  <2>2. CASE \E s \in Sessions : RevokeSession(s)
    <3>1. PICK s \in Sessions : RevokeSession(s)
      BY <2>2
    <3>2. session[s].live /\ session' = [session EXCEPT ![s].live = FALSE]
      BY <3>1 DEF RevokeSession
    <3> QED
      BY <2>1, <3>2 DEF SessionsOK
  <2>3. CASE \E u \in Users : RevokeAllSessions(u)
    <3>1. PICK u \in Users : RevokeAllSessions(u)
      BY <2>3
    <3>2. session' = [s \in Sessions |->
            IF session[s].owner = u THEN [session[s] EXCEPT !.live = FALSE]
            ELSE session[s]]
      BY <3>1 DEF RevokeAllSessions
    <3> QED
      BY <2>1, <3>2 DEF SessionsOK
  <2> QED
    BY <2>2, <2>3
<1>2. UNCHANGED <<role, visit>>
  BY DEF RevokeSession, RevokeAllSessions
<1> QED
  BY <1>1, <1>2, OnlySessions

LEMMA Step_SetRole ==
  ASSUME GateInv, NEW h \in Slugs, NEW u \in Users, NEW r \in Roles,
         SetRole(h, u, r)
  PROVE  GateInv'
<1>1. /\ Born(h) /\ role' = [role EXCEPT ![h][u] = r]
      /\ session' = session
      /\ visit' = Witness(visit, session, role')
  BY DEF SetRole
<1>2. role[h] \in [Users -> Roles]
  BY <1>1 DEF Born, GateInv, GateTypeOK
<1>3. SessionsOK(session') /\ RolesOK(role')
  BY <1>1, <1>2 DEF GateInv, GateTypeOK, SessionsOK, RolesOK
<1> QED
  BY <1>1, <1>3, AllWitness DEF GateInv, GateTypeOK

LEMMA GateInvStep ==
  ASSUME GateInv, [GateNext]_gateVars
  PROVE  GateInv'
<1>1. CASE \E s \in Sessions : RevokeSession(s) \/ \E u \in Users : SignIn(s, u)
  BY <1>1, Step_Revoke, Step_SignIn
<1>2. CASE \E u \in Users : RevokeAllSessions(u)
  BY <1>2, Step_Revoke
<1>3. CASE \E h \in Slugs, u \in Users, r \in Roles : SetRole(h, u, r)
  BY <1>3, Step_SetRole
<1>4. ASSUME NEW v \in Visits, Layers(v) PROVE GateInv'
  <2>1. CASE Charge(v)
    BY <2>1, Step_Pass DEF Charge
  <2> QED
    BY <1>4, <2>1, Step_ComeIn, Step_Session, Step_RequireHousehold, Step_Respond
    DEF Layers
<1>5. ASSUME NEW v \in Visits, Handlers(v) PROVE GateInv'
  BY <1>5, Step_RevokeOtherSessions, Step_CheckCreation, Step_LookUpSlug,
     Step_CreateHousehold DEF Handlers
<1>6. CASE UNCHANGED gateVars
  BY <1>6 DEF gateVars, GateInv, GateTypeOK, Minted, Stamped, Vetted
<1> QED
  BY <1>1, <1>2, <1>3, <1>4, <1>5, <1>6 DEF GateNext, Meanwhile

-----------------------------------------------------------------------------
(* What the way in promises.                                               *)

\* Sessions, memberships and requests in flight keep their shapes, and what
\* the layers establish about a request holds until it ends: the invariant
\* that the theorems below lean on.
THEOREM GateInvariant == GateSpec => []GateInv
<1>1. GateInit => GateInv
  BY GateInit_Inv
<1>2. GateInv /\ [GateNext]_gateVars => GateInv'
  BY GateInvStep
<1>3. GateInv => GateTypeOK
  BY DEF GateInv
<1> QED
  BY <1>1, <1>2, <1>3, PTL DEF GateSpec

\* No handler runs, and no bucket is charged, for a user whose session was
\* not there at some moment of the request, or in a household where that user
\* had no role, or not the one it takes: middleware.go and authz.go, whatever
\* is revoked between their statements.
THEOREM EntryIsEarned == GateSpec => []EntryWasEarned
<1>1. ASSUME GateInv, NEW v \in Visits, Admitted(v)
      PROVE  /\ visit[v].caller # Nobody =>
                   /\ visit[v].wasLive
                   /\ visit[v].caller = session[visit[v].cookie].owner
             /\ Tier(visit[v].op) \notin {"public", "viewer"} =>
                   visit[v].caller # Nobody
             /\ Tier(visit[v].op) = "household" => visit[v].held # {"none"}
             /\ Tier(visit[v].op) = "owner" => "owner" \in visit[v].held
  <2>1. Vetted(visit[v], session)
    BY <1>1 DEF GateInv
  <2>2. visit[v].pc \notin {"idle", "arrived", "tenancy"}
    BY <1>1 DEF Admitted
  <2> QED
    BY <2>1, <2>2 DEF Vetted
<1>2. GateInv => EntryWasEarned
  BY <1>1 DEF EntryWasEarned
<1> QED
  BY <1>2, GateInvariant, PTL

\* Whatever headers a browser sends, a page of another origin gets past
\* SameSite only to read.
THEOREM ForeignPagesOnlyRead == GateSpec => []ForeignPagesChangeNothing
<1>1. GateInv => ForeignPagesChangeNothing
  BY DEF GateInv, Vetted, ForeignPagesChangeNothing
<1> QED
  BY <1>1, GateInvariant, PTL

\* However many proxies are trusted and whatever the caller forged, ClientIP
\* is the address the outermost of them saw, if they write into one line.
THEOREM ChargedToWhoAsked == GateSpec => []ChargedToTheCaller
<1>1. GateInv => ChargedToTheCaller
  BY DEF GateInv, Vetted, ChargedToTheCaller, Admitted
<1> QED
  BY <1>1, GateInvariant, PTL

\* A household is created only by the founder, or by somebody who had none at
\* some moment of that request.
THEOREM FoundersWereHomeless == GateSpec => []OnlyTheHomelessFound
<1>1. GateInv => OnlyTheHomelessFound
  BY DEF GateInv, Vetted, OnlyTheHomelessFound
<1> QED
  BY <1>1, GateInvariant, PTL

-----------------------------------------------------------------------------
(* Processes: what is known of each at every stage of its life.            *)

Up == {"building", "serving", "stopping", "draining", "closing"}

\* No work before a process has come up nor after its end; what was begun is
\* done by the time the pool is closed, unless a wait was given up.
Orderly(s) ==
  /\ s.spent <= s.since
  /\ s.pc \in {"down", "locking", "migrating", "building"} =>
       \A w \in Work : s.work[w] = "none"
  /\ s.pc = "running" => s.mode = "cron" /\ s.work["request"] = "none"
  /\ s.pc = "draining" => s.late \/ s.work["job"] = "none"
  /\ s.pc = "closing" =>
       s.failed \/ s.late \/ \A w \in Work : s.work[w] = "none"
  /\ s.pc = "exited" => s.failed \/ s.late \/ ~s.cut

LifeInv ==
  /\ LifeTypeOK
  /\ \A p \in Processes :
       /\ Orderly(process[p])
       /\ process[p].pc = "migrating" => lock = p
       /\ process[p].mode = "default" /\ process[p].pc \in Up =>
            schema = Migrations

LEMMA Zero == KillGrace \in Nat /\ 0 \in 0..KillGrace
  BY GraceAssumption

LEMMA FreshFacts ==
  ASSUME NEW mode \in Modes,
         NEW pc \in {"down", "locking", "building", "exited", "killed"}
  PROVE  /\ Fresh(mode, pc) \in ProcessState
         /\ Orderly(Fresh(mode, pc))
         /\ Fresh(mode, pc).pc = pc /\ Fresh(mode, pc).mode = mode
<1>1. Fresh(mode, pc) \in ProcessState
  BY GraceAssumption DEF Fresh, ProcessState, AtWork
<1>2. \A w \in Work : Fresh(mode, pc).work[w] = "none"
  BY DEF Fresh
<1> QED
  BY <1>1, <1>2 DEF Fresh, Orderly, Work

LEMMA DownFacts ==
  Down \in ProcessState /\ Orderly(Down) /\ Down.pc = "down"
  BY FreshFacts DEF Down, Modes

LEMMA ProcessFacts ==
  ASSUME LifeInv, NEW p \in Processes
  PROVE  LET s == process[p] IN
         /\ s \in ProcessState /\ Orderly(s)
         /\ s.mode \in Modes /\ s.work \in [Work -> AtWork]
         /\ s.since \in 0..KillGrace /\ s.spent \in 0..KillGrace
         /\ s.failed \in BOOLEAN /\ s.late \in BOOLEAN /\ s.cut \in BOOLEAN
  BY DEF LifeInv, LifeTypeOK, ProcessState

LEMMA LifeInitInv == LifeInit => LifeInv
  BY DownFacts, MigrationsAssumption DEF LifeInit, LifeInv, LifeTypeOK, Up

\* One process moves on: it takes the lock if that is free, gives up only its
\* own, and migrations are never undone.
LEMMA LifeMoves ==
  ASSUME LifeInv, NEW p \in Processes, NEW s \in ProcessState, Orderly(s),
         process' = [process EXCEPT ![p] = s],
         \/ lock' = lock
         \/ lock = NoHolder /\ lock' = p
         \/ lock = p /\ lock' = NoHolder,
         schema' = schema,
         s.pc = "migrating" => lock' = p,
         s.mode = "default" /\ s.pc \in Up => schema = Migrations
  PROVE  LifeInv'
<1>1. LifeTypeOK'
  BY DEF LifeInv, LifeTypeOK
<1>2. ASSUME NEW q \in Processes
      PROVE  /\ Orderly(process'[q])
             /\ process'[q].pc = "migrating" => lock' = q
             /\ process'[q].mode = "default" /\ process'[q].pc \in Up =>
                  schema' = Migrations
  <2>1. process'[q] = IF q = p THEN s ELSE process[q]
    BY DEF LifeInv, LifeTypeOK
  <2> QED
    BY <2>1, NoHolderAssumption DEF LifeInv
<1> QED
  BY <1>1, <1>2 DEF LifeInv

\* A process that is no longer there holds no lock and has nothing to serve.
LEMMA LifeEnds ==
  ASSUME LifeInv, NEW p \in Processes, NEW s \in ProcessState, Orderly(s),
         s.pc \in {"down", "exited", "killed"}, Set(p, s),
         UNCHANGED lock \/ Unlock(p), schema' = schema
  PROVE  LifeInv'
<1>1. \/ lock' = lock
      \/ lock = p /\ lock' = NoHolder
  BY DEF Unlock
<1>2. s.pc # "migrating" /\ s.pc \notin Up
  BY DEF Up
<1> QED
  BY <1>1, <1>2, LifeMoves DEF Set

\* An exit: nothing is cut short if nothing was under way.
LEMMA LifeExits ==
  ASSUME LifeInv, NEW p \in Processes, NEW failed \in BOOLEAN, Exit(p, failed),
         \/ failed
         \/ process[p].late
         \/ \A w \in Work : process[p].work[w] = "none",
         UNCHANGED lock \/ Unlock(p), schema' = schema
  PROVE  LifeInv'
<1> DEFINE cut == \E w \in Work : process[p].work[w] # "none"
           s == [Fresh("default", "exited") EXCEPT
                   !.failed = failed, !.late = process[p].late, !.cut = cut]
<1>1. process[p].late \in BOOLEAN /\ cut \in BOOLEAN
  BY ProcessFacts
<1>2. failed \/ process[p].late \/ ~cut
  OBVIOUS
<1>3. Set(p, s)
  BY DEF Exit
<1> HIDE DEF cut
<1>4. s \in ProcessState /\ s.pc = "exited"
  <2>1. Fresh("default", "exited") \in ProcessState
    BY FreshFacts DEF Modes
  <2> QED
    BY <1>1, <2>1 DEF Fresh, ProcessState
<1>5. Orderly(s)
  BY <1>1, <1>2, GraceAssumption DEF Fresh, Orderly
<1> HIDE DEF s
<1> QED
  BY <1>3, <1>4, <1>5, LifeEnds

\* A process enters its next phase.
LEMMA LifeGoes ==
  ASSUME LifeInv, NEW p \in Processes,
         NEW pc \in {"migrating", "building", "serving"}, Goto(p, pc),
         process[p].pc \in {"locking", "migrating", "building"},
         \/ lock' = lock
         \/ lock = NoHolder /\ lock' = p
         \/ lock = p /\ lock' = NoHolder,
         schema' = schema,
         pc = "migrating" => lock' = p,
         pc # "migrating" /\ process[p].mode = "default" => schema = Migrations
  PROVE  LifeInv'
<1> DEFINE s == [process[p] EXCEPT !.pc = pc, !.spent = 0]
<1>1. process[p] \in ProcessState
  BY ProcessFacts
<1>2. s \in ProcessState
  BY <1>1, Zero DEF ProcessState
<1>3. /\ s.pc = pc /\ s.mode = process[p].mode /\ s.work = process[p].work
      /\ s.spent = 0 /\ s.since = process[p].since
  BY <1>1 DEF ProcessState
<1>4. Set(p, s)
  BY <1>1 DEF Goto, Set, LifeInv, LifeTypeOK, ProcessState
<1> HIDE DEF s
<1>5. Orderly(s)
  BY <1>3, ProcessFacts DEF Orderly
<1> QED
  BY <1>2, <1>3, <1>4, <1>5, LifeMoves DEF Set, Up

\* Work is begun only by a process that is up; any other may only go on with
\* what it has, or be done with it.
LEMMA LifeWorks ==
  ASSUME LifeInv, NEW p \in Processes, NEW w \in Work, NEW to \in AtWork,
         SetWork(p, w, to),
         \/ to = "none"
         \/ process[p].work[w] # "none"
         \/ process[p].pc \in {"serving", "stopping"}
  PROVE  LifeInv'
<1> DEFINE now == [process[p].work EXCEPT ![w] = to]
           s == [process[p] EXCEPT !.work = now]
<1>1. process[p] \in ProcessState /\ process[p].work \in [Work -> AtWork]
  BY ProcessFacts
<1>2. now \in [Work -> AtWork] /\ \A x \in Work : now[x] = IF x = w THEN to ELSE process[p].work[x]
  BY <1>1
<1>3. Set(p, s)
  BY <1>1 DEF SetWork, Set, LifeInv, LifeTypeOK, ProcessState
<1> HIDE DEF now
<1>4. /\ s \in ProcessState
      /\ s.pc = process[p].pc /\ s.mode = process[p].mode /\ s.work = now
      /\ s.spent = process[p].spent /\ s.since = process[p].since
      /\ s.failed = process[p].failed /\ s.late = process[p].late
      /\ s.cut = process[p].cut
  BY <1>1, <1>2 DEF ProcessState
<1> HIDE DEF s
<1>5. Orderly(s)
  <2>1. Orderly(process[p])
    BY ProcessFacts
  <2>2. \A x \in Work :
          process[p].work[x] = "none" /\ s.pc \notin {"serving", "stopping"} =>
            now[x] = "none"
    BY <1>2, <1>4
  <2>3. "job" \in Work /\ "request" \in Work
    BY DEF Work
  <2> QED
    BY <1>4, <2>1, <2>2, <2>3 DEF Orderly
<1>6. UNCHANGED <<lock, schema>>
  BY DEF SetWork
<1>7. /\ s.pc = "migrating" => lock = p
      /\ s.mode = "default" /\ s.pc \in Up => schema = Migrations
  BY <1>4 DEF LifeInv
<1> QED
  BY <1>3, <1>4, <1>5, <1>6, <1>7, LifeMoves DEF Set

LEMMA Step_Boot ==
  ASSUME LifeInv, NEW p \in Processes, Boot(p)
  PROVE  LifeInv'
<1>1. PICK mode \in Modes :
        Set(p, Fresh(mode, IF mode \in Migrates THEN "locking" ELSE "building"))
  BY DEF Boot
<1>2. mode = "default" => mode \in Migrates
  BY DEF Migrates
<1>3. UNCHANGED <<lock, schema>>
  BY DEF Boot
<1>4. CASE mode \in Migrates
  <2>1. Set(p, Fresh(mode, "locking"))
    BY <1>1, <1>4
  <2> QED
    BY <1>3, <2>1, FreshFacts, LifeMoves DEF Set, Up
<1>5. CASE mode \notin Migrates
  <2>1. Set(p, Fresh(mode, "building"))
    BY <1>1, <1>5
  <2>2. /\ Fresh(mode, "building") \in ProcessState
        /\ Orderly(Fresh(mode, "building"))
        /\ Fresh(mode, "building").pc # "migrating"
        /\ Fresh(mode, "building").mode # "default"
    BY <1>2, <1>5, FreshFacts
  <2> QED
    BY <1>3, <2>1, <2>2, LifeMoves DEF Set
<1> QED
  BY <1>4, <1>5

LEMMA Step_Migrate ==
  ASSUME LifeInv, NEW p \in Processes,
         TakeLock(p) \/ MigrateOne(p) \/ EndMigration(p) \/ FailMigration(p)
  PROVE  LifeInv'
<1>1. CASE TakeLock(p)
  BY <1>1, LifeGoes DEF TakeLock
<1>2. CASE MigrateOne(p)
  <2>1. schema \in 0..Migrations /\ schema < Migrations /\ schema' = schema + 1
    BY <1>2 DEF MigrateOne, LifeInv, LifeTypeOK
  <2>2. UNCHANGED <<process, lock>>
    BY <1>2 DEF MigrateOne
  <2>3. schema' \in 0..Migrations
    BY <2>1, MigrationsAssumption
  <2>4. ASSUME NEW q \in Processes
        PROVE  ~(process[q].mode = "default" /\ process[q].pc \in Up)
    BY <2>1, MigrationsAssumption DEF LifeInv
  <2> QED
    BY <2>2, <2>3, <2>4 DEF LifeInv, LifeTypeOK
<1>3. CASE EndMigration(p)
  <2>1. /\ process[p].pc = "migrating" /\ schema = Migrations /\ schema' = schema
        /\ lock = p /\ lock' = NoHolder
    BY <1>3 DEF EndMigration, Unlock, LifeInv
  <2>2. \A w \in Work : process[p].work[w] = "none"
    BY <2>1, ProcessFacts DEF Orderly
  <2>3. CASE Exit(p, FALSE)
    BY <2>1, <2>2, <2>3, LifeExits DEF Unlock
  <2>4. CASE Goto(p, "building")
    BY <2>1, <2>4, LifeGoes
  <2> QED
    BY <1>3, <2>3, <2>4 DEF EndMigration
<1>4. CASE FailMigration(p)
  BY <1>4, LifeExits DEF FailMigration
<1> QED
  BY <1>1, <1>2, <1>3, <1>4

LEMMA Step_Build ==
  ASSUME LifeInv, NEW p \in Processes, Build(p) \/ FailBuild(p)
  PROVE  LifeInv'
<1>1. process[p].pc = "building" /\ UNCHANGED <<lock, schema>>
  BY DEF Build, FailBuild
<1>2. process[p].mode = "default" => schema = Migrations
  BY <1>1 DEF LifeInv, Up
<1>3. CASE Exit(p, TRUE)
  BY <1>1, <1>3, LifeExits
<1>4. CASE Goto(p, "serving")
  BY <1>1, <1>2, <1>4, LifeGoes
<1>5. CASE /\ process[p].mode = "cron"
           /\ Set(p, [process[p] EXCEPT !.pc = "running", !.work["job"] = "free"])
  <2> DEFINE now == [process[p].work EXCEPT !["job"] = "free"]
             s == [process[p] EXCEPT !.pc = "running", !.work = now]
  <2>1. process[p] \in ProcessState /\ process[p].work \in [Work -> AtWork]
    BY ProcessFacts
  <2>2. now \in [Work -> AtWork] /\ now["request"] = process[p].work["request"]
    BY <2>1 DEF Work, AtWork
  <2>3. Set(p, s)
    BY <1>5, <2>1 DEF ProcessState
  <2> HIDE DEF now
  <2>4. /\ s \in ProcessState /\ s.pc = "running" /\ s.work = now
        /\ s.mode = "cron"
        /\ s.spent = process[p].spent /\ s.since = process[p].since
    BY <1>5, <2>1, <2>2 DEF ProcessState
  <2> HIDE DEF s
  <2>5. Orderly(s)
    BY <1>1, <2>2, <2>4, ProcessFacts DEF Orderly, Work
  <2> QED
    BY <1>1, <2>3, <2>4, <2>5, LifeMoves DEF Set, Up
<1> QED
  BY <1>3, <1>4, <1>5 DEF Build, FailBuild

LEMMA Step_Working ==
  ASSUME LifeInv, NEW p \in Processes, Working(p)
  PROVE  LifeInv'
<1>1. "job" \in Work /\ "request" \in Work
      /\ {"none", "free", "holding", "wedged"} \subseteq AtWork
  BY DEF Work, AtWork
<1>2. CASE StartJob(p)
  BY <1>1, <1>2, LifeWorks DEF StartJob
<1>3. CASE StartRequest(p)
  BY <1>1, <1>3, LifeWorks DEF StartRequest
<1>4. ASSUME NEW w \in Work,
             Query(p, w) \/ GiveBack(p, w) \/ Wedge(p, w) \/ EndWork(p, w)
      PROVE  LifeInv'
  BY <1>1, <1>4, LifeWorks DEF Query, GiveBack, Wedge, EndWork
<1> QED
  BY <1>2, <1>3, <1>4 DEF Working

\* A process that is up goes through its shutdown.
LEMMA LifeStops ==
  ASSUME LifeInv, NEW p \in Processes, NEW s \in ProcessState, Set(p, s), Orderly(s),
         s.mode = process[p].mode,
         s.pc # "migrating" \/ s.pc = process[p].pc,
         s.pc \in Up => process[p].pc \in Up \/ s.mode # "default",
         UNCHANGED <<lock, schema>>
  PROVE  LifeInv'
<1>1. /\ s.pc = "migrating" => lock = p
      /\ s.mode = "default" /\ s.pc \in Up => schema = Migrations
  BY DEF LifeInv
<1> QED
  BY <1>1, LifeMoves DEF Set

LEMMA Step_EndCron ==
  ASSUME LifeInv, NEW p \in Processes, EndCron(p)
  PROVE  LifeInv'
<1>1. PICK failed \in BOOLEAN :
        Set(p, [process[p] EXCEPT !.pc = "closing", !.failed = failed])
  BY DEF EndCron
<1> DEFINE s == [process[p] EXCEPT !.pc = "closing", !.failed = failed]
<1>2. process[p] \in ProcessState /\ Orderly(process[p])
  BY ProcessFacts
<1>3. process[p].mode = "cron" /\ \A w \in Work : process[p].work[w] = "none"
  BY <1>2 DEF EndCron, Orderly, Work
<1>4. /\ s \in ProcessState /\ s.pc = "closing" /\ s.mode = "cron"
      /\ s.work = process[p].work
      /\ s.spent = process[p].spent /\ s.since = process[p].since
  BY <1>2, <1>3 DEF ProcessState
<1>5. Set(p, s) /\ UNCHANGED <<lock, schema>>
  BY <1>1 DEF EndCron
<1> HIDE DEF s
<1>6. Orderly(s)
  BY <1>2, <1>3, <1>4 DEF Orderly
<1> QED
  BY <1>3, <1>4, <1>5, <1>6, LifeStops

LEMMA Step_Signal ==
  ASSUME LifeInv, NEW p \in Processes, Signal(p)
  PROVE  LifeInv'
<1>1. CASE Set(p, Down) /\ Unlock(p) /\ schema' = schema
  BY <1>1, DownFacts, LifeEnds
<1>2. ASSUME NEW told \in {"up", "booting"},
             process' = [process EXCEPT ![p].told = told],
             UNCHANGED <<lock, schema>>
      PROVE  LifeInv'
  <2> DEFINE s == [process[p] EXCEPT !.told = told]
  <2>1. process[p] \in ProcessState /\ Orderly(process[p])
    BY ProcessFacts
  <2>2. /\ s \in ProcessState /\ s.pc = process[p].pc /\ s.mode = process[p].mode
        /\ s.work = process[p].work /\ s.failed = process[p].failed
        /\ s.late = process[p].late /\ s.cut = process[p].cut
        /\ s.spent = process[p].spent /\ s.since = process[p].since
    BY <2>1 DEF ProcessState
  <2>3. Set(p, s)
    BY <1>2, <2>1 DEF Set, LifeInv, LifeTypeOK, ProcessState
  <2> HIDE DEF s
  <2>4. Orderly(s)
    BY <2>1, <2>2 DEF Orderly
  <2> QED
    BY <1>2, <2>2, <2>3, <2>4, LifeStops
<1>3. \/ Set(p, Down) /\ Unlock(p) /\ schema' = schema
      \/ /\ \/ process' = [process EXCEPT ![p].told = "up"]
            \/ process' = [process EXCEPT ![p].told = "booting"]
         /\ UNCHANGED <<lock, schema>>
  BY DEF Signal
<1> QED
  BY <1>1, <1>2, <1>3

LEMMA Step_StopScheduler ==
  ASSUME LifeInv, NEW p \in Processes, StopScheduler(p)
  PROVE  LifeInv'
<1>1. PICK failed \in BOOLEAN :
        Set(p, [process[p] EXCEPT !.pc = "stopping", !.spent = 0, !.failed = failed])
  BY DEF StopScheduler
<1> DEFINE s == [process[p] EXCEPT !.pc = "stopping", !.spent = 0, !.failed = failed]
<1>2. process[p] \in ProcessState
  BY ProcessFacts
<1>3. /\ s \in ProcessState /\ s.pc = "stopping" /\ s.mode = process[p].mode
      /\ s.spent = 0 /\ s.since \in 0..KillGrace
  BY <1>2, Zero DEF ProcessState
<1>4. Set(p, s) /\ UNCHANGED <<lock, schema>> /\ process[p].pc = "serving"
  BY <1>1 DEF StopScheduler
<1> HIDE DEF s
<1>5. Orderly(s)
  BY <1>3 DEF Orderly
<1> QED
  BY <1>3, <1>4, <1>5, LifeStops DEF Up

\* The stop function waits for the job, Shutdown for the requests, and a wait
\* that was given up is remembered.
LEMMA Step_WaitOver ==
  ASSUME LifeInv, NEW p \in Processes, SchedulerStopped(p) \/ Drained(p)
  PROVE  LifeInv'
<1>1. ASSUME NEW w \in Work, NEW pc \in {"draining", "closing"}, Leave(p, w, pc),
             \/ process[p].pc = "stopping" /\ w = "job" /\
                  (pc = "closing" => process[p].failed)
             \/ process[p].pc = "draining" /\ w = "request" /\ pc = "closing",
             UNCHANGED <<lock, schema>>
      PROVE  LifeInv'
  <2> DEFINE late == process[p].late \/ process[p].work[w] # "none"
             s == [process[p] EXCEPT !.pc = pc, !.spent = 0, !.late = late]
  <2>1. process[p] \in ProcessState /\ Orderly(process[p]) /\ late \in BOOLEAN
    BY ProcessFacts
  <2>2. Set(p, s)
    BY <1>1 DEF Leave
  <2>3. late \/ process[p].work[w] = "none"
    OBVIOUS
  <2>4. process[p].late => late
    OBVIOUS
  <2> HIDE DEF late
  <2>5. /\ s \in ProcessState /\ s.pc = pc /\ s.mode = process[p].mode
        /\ s.work = process[p].work /\ s.late = late /\ s.failed = process[p].failed
        /\ s.spent = 0 /\ s.since \in 0..KillGrace
    BY <2>1, Zero DEF ProcessState
  <2> HIDE DEF s
  <2>6. Orderly(s)
    BY <1>1, <2>1, <2>3, <2>4, <2>5 DEF Orderly, Work
  <2>7. s.pc # "migrating" /\ process[p].pc \in Up
    BY <1>1, <2>5 DEF Up
  <2> QED
    BY <1>1, <2>2, <2>5, <2>6, <2>7, LifeStops
<1>2. CASE SchedulerStopped(p)
  BY <1>1, <1>2 DEF SchedulerStopped, Work
<1>3. CASE Drained(p)
  BY <1>1, <1>3 DEF Drained, Work
<1> QED
  BY <1>2, <1>3

LEMMA Step_PassTime ==
  ASSUME LifeInv, NEW p \in Processes, PassTime(p)
  PROVE  LifeInv'
<1> DEFINE s == [process[p] EXCEPT !.since = process[p].since + 1,
                                   !.spent = process[p].spent + 1]
<1>1. /\ process[p] \in ProcessState /\ Orderly(process[p])
      /\ process[p].since \in 0..KillGrace /\ process[p].spent \in 0..KillGrace
  BY ProcessFacts
<1>2. process[p].since < KillGrace /\ process[p].spent <= process[p].since
  BY <1>1 DEF PassTime, Orderly
<1>3. /\ process[p].since + 1 \in 0..KillGrace
      /\ process[p].spent + 1 \in 0..KillGrace
      /\ process[p].spent + 1 <= process[p].since + 1
  BY <1>1, <1>2, Zero
<1>4. /\ s \in ProcessState /\ s.pc = process[p].pc /\ s.mode = process[p].mode
      /\ s.work = process[p].work /\ s.failed = process[p].failed
      /\ s.late = process[p].late /\ s.cut = process[p].cut
      /\ s.spent <= s.since
  BY <1>1, <1>3 DEF ProcessState
<1>5. Set(p, s) /\ UNCHANGED <<lock, schema>>
  BY <1>1 DEF PassTime, Set, LifeInv, LifeTypeOK, ProcessState
<1> HIDE DEF s
<1>6. Orderly(s)
  BY <1>1, <1>4 DEF Orderly
<1> QED
  BY <1>4, <1>5, <1>6, LifeStops

LEMMA Step_Gone ==
  ASSUME LifeInv, NEW p \in Processes, Kill(p) \/ Crash(p)
  PROVE  LifeInv'
<1>1. CASE Crash(p)
  BY <1>1, DownFacts, LifeEnds DEF Crash
<1>2. CASE Kill(p)
  <2> DEFINE s == [Fresh("default", "killed") EXCEPT !.failed = process[p].failed]
  <2>1. process[p].failed \in BOOLEAN
    BY ProcessFacts
  <2>2. Fresh("default", "killed") \in ProcessState
    BY FreshFacts DEF Modes
  <2>3. s \in ProcessState /\ s.pc = "killed" /\ s.spent = 0 /\ s.since = 0
    BY <2>1, <2>2 DEF Fresh, ProcessState
  <2>4. Set(p, s) /\ Unlock(p) /\ schema' = schema
    BY <1>2 DEF Kill
  <2> HIDE DEF s
  <2>5. Orderly(s)
    BY <2>3 DEF Orderly
  <2> QED
    BY <2>3, <2>4, <2>5, LifeEnds
<1> QED
  BY <1>1, <1>2

LEMMA Step_ClosePool ==
  ASSUME LifeInv, NEW p \in Processes, ClosePool(p)
  PROVE  LifeInv'
<1>1. /\ process[p].failed \in BOOLEAN /\ Orderly(process[p])
      /\ process[p].pc = "closing" /\ Exit(p, process[p].failed)
      /\ UNCHANGED <<lock, schema>>
  BY ProcessFacts DEF ClosePool
<1>2. \/ process[p].failed \/ process[p].late
      \/ \A w \in Work : process[p].work[w] = "none"
  BY <1>1 DEF Orderly
<1> QED
  BY <1>1, <1>2, LifeExits

LEMMA LifeInvStep ==
  ASSUME LifeInv, [LifeNext]_lifeVars
  PROVE  LifeInv'
<1>1. ASSUME NEW p \in Processes, Booting(p) PROVE LifeInv'
  BY <1>1, Step_Boot, Step_Migrate, Step_Build DEF Booting
<1>2. ASSUME NEW p \in Processes, Stopping(p) PROVE LifeInv'
  BY <1>2, Step_EndCron, Step_Signal, Step_StopScheduler, Step_WaitOver,
     Step_ClosePool, Step_PassTime, Step_Gone DEF Stopping
<1>3. CASE UNCHANGED lifeVars
  BY <1>3 DEF lifeVars, LifeInv, LifeTypeOK
<1> QED
  BY <1>1, <1>2, <1>3, Step_Working DEF LifeNext

\* Whatever a process does while it boots, serves and stops, its lock, its
\* work and its history fit the stage it is at: the invariant the theorems
\* below lean on.
THEOREM LifeInvariant == LifeSpec => []LifeInv
<1>1. LifeInit => LifeInv
  BY LifeInitInv
<1>2. LifeInv /\ [LifeNext]_lifeVars => LifeInv'
  BY LifeInvStep
<1> QED
  BY <1>1, <1>2, PTL DEF LifeSpec

\* However many containers boot, crash and are replaced at once, migrations
\* run one process at a time, and none of the default mode comes up before the
\* schema is whole: migrate.go's lock is held by the session that migrates.
THEOREM WholeSchemaServed == LifeSpec => []ServesTheWholeSchema
<1>1. LifeInv => ServesTheWholeSchema
  BY DEF LifeInv, ServesTheWholeSchema, Up
<1> QED
  BY <1>1, LifeInvariant, PTL

\* serveUntilSignal: an exit code of 0 with no wait given up means that every
\* job and every request had ended, those included that began as the process
\* was stopping.
THEOREM CleanExitsAreClean == LifeSpec => []CleanExitCutsNothingShort
<1>1. LifeInv => CleanExitCutsNothingShort
  BY DEF LifeInv, Orderly, CleanExitCutsNothingShort
<1> QED
  BY <1>1, LifeInvariant, PTL

-----------------------------------------------------------------------------
(* Windows.                                                                *)

WindowStart(w) == w * WindowSeconds

\* A window holds the readings from its start to the start of the next.
LEMMA WindowFacts ==
  ASSUME NEW now \in Nat
  PROVE  /\ WindowOf(now) \in Nat
         /\ WindowStart(WindowOf(now)) \in Nat
         /\ WindowStart(WindowOf(now)) <= now
         /\ now < WindowStart(WindowOf(now)) + WindowSeconds
  BY RuleAssumption DEF WindowOf, WindowStart

LEMMA TtlFacts == Ttl \in Nat /\ Ttl >= 2 * WindowSeconds
  BY RuleAssumption, MinTtlAssumption DEF Ttl

LEMMA WindowsFacts ==
  /\ \A now \in Instants : now \in Nat /\ WindowOf(now) \in Windows
  /\ \A w \in Windows : w \in Nat /\ WindowStart(w) \in Nat
<1>1. Instants \subseteq Nat
  BY DEF Instants
<1>2. \A now \in Instants : WindowOf(now) \in Windows
  BY DEF Windows
<1>3. ASSUME NEW w \in Windows PROVE w \in Nat /\ WindowStart(w) \in Nat
  <2>1. PICK now \in Instants : w = WindowOf(now)
    BY DEF Windows
  <2> QED
    BY <1>1, <2>1, WindowFacts
<1> QED
  BY <1>1, <1>2, <1>3

-----------------------------------------------------------------------------
(* Types.                                                                  *)

LEMMA RateInitType == Init => TypeOK
  BY TimeAssumption DEF Init, TypeOK, RequestState, NoRow, NoRequest

LEMMA ReadingType ==
  ASSUME TypeOK, NEW r \in Replicas
  PROVE  Reading(r) \in Instants /\ Reading(r) \in Nat /\ ahead[r] \in 0..Skew
  BY TimeAssumption DEF TypeOK, Reading, Instants

\* What a request that has read the clock holds.
LEMMA KeyedFacts ==
  ASSUME TypeOK, NEW s \in Requests, request[s].pc = "keyed"
  PROVE  /\ request[s] \in [pc: {"keyed"}, replica: Replicas, now: Instants,
                            since: Nat]
         /\ request[s].replica \in Replicas
         /\ request[s].now \in Instants
         /\ request[s].since \in Nat
         /\ WindowOf(request[s].now) \in Windows
  BY WindowsFacts DEF TypeOK, RequestState, NoRequest

LEMMA RequestEnds ==
  ASSUME TypeOK, NEW s \in Requests, EndRequest(s)
  PROVE  /\ request' \in [Requests -> RequestState]
         /\ request'[s] = NoRequest
         /\ \A t \in Requests : t # s => request'[t] = request[t]
  BY DEF EndRequest, TypeOK, RequestState

\* The increment, of one row.
LEMMA HitType ==
  ASSUME TypeOK, NEW key \in Windows, NEW reading \in Nat, Hit(key, reading)
  PROVE  /\ bucket' \in [Windows -> [count: Nat, expires: Nat]]
         /\ bucket'[key].count = bucket[key].count + 1
         /\ bucket[key] = NoRow => bucket'[key].expires = reading + Ttl
         /\ bucket[key] # NoRow => bucket'[key].expires = bucket[key].expires
         /\ \A w \in Windows : w # key => bucket'[w] = bucket[w]
<1> DEFINE row == [count |-> bucket[key].count + 1,
                   expires |-> IF bucket[key] = NoRow THEN reading + Ttl
                               ELSE bucket[key].expires]
<1>1. bucket[key] \in [count: Nat, expires: Nat]
  BY DEF TypeOK
<1>2. row \in [count: Nat, expires: Nat]
  BY <1>1, TtlFacts
<1>3. bucket' = [bucket EXCEPT ![key] = row]
  BY DEF Hit
<1>4. /\ row.count = bucket[key].count + 1
      /\ bucket[key] = NoRow => row.expires = reading + Ttl
      /\ bucket[key] # NoRow => row.expires = bucket[key].expires
  OBVIOUS
<1> HIDE DEF row
<1> QED
  BY <1>2, <1>3, <1>4 DEF TypeOK

LEMMA CountType ==
  ASSUME NEW history \in [Windows -> Nat], NEW now \in Instants
  PROVE  /\ Count(history, now) \in [Windows -> Nat]
         /\ Count(history, now)[WindowOf(now)] = history[WindowOf(now)] + 1
         /\ \A w \in Windows : w # WindowOf(now) =>
              Count(history, now)[w] = history[w]
  BY WindowsFacts DEF Count

LEMMA RateStepType ==
  ASSUME TypeOK, NEW s \in Requests, RequestStep(s)
  PROVE  TypeOK'
<1>1. CASE Arrive(s)
  <2>1. PICK r \in Replicas :
          request' = [request EXCEPT ![s] =
            [pc |-> "keyed", replica |-> r, now |-> Reading(r), since |-> clock]]
    BY <1>1 DEF Arrive
  <2>2. clock \in Nat
    BY DEF TypeOK
  <2>3. [pc |-> "keyed", replica |-> r, now |-> Reading(r), since |-> clock]
          \in RequestState
    BY <2>2, ReadingType DEF RequestState
  <2> QED
    BY <1>1, <2>1, <2>3 DEF Arrive, TypeOK
<1>2. CASE Consume(s) \/ LoseReply(s)
  <2> DEFINE q == request[s]
  <2>1. /\ q.pc = "keyed"
        /\ Hit(Key(q.now), Reading(q.replica))
        /\ counted' = Count(counted, q.now)
        /\ admitted' \in {admitted, Count(admitted, q.now)}
        /\ EndRequest(s)
        /\ UNCHANGED <<clock, ahead>>
    BY <1>2 DEF Consume, LoseReply
  <2>2. q.now \in Instants /\ Key(q.now) \in Windows /\ Reading(q.replica) \in Nat
    BY <2>1, KeyedFacts, ReadingType DEF Key
  <2>3. bucket' \in [Windows -> [count: Nat, expires: Nat]]
    BY <2>1, <2>2, HitType
  <2>4. counted' \in [Windows -> Nat] /\ admitted' \in [Windows -> Nat]
    BY <2>1, <2>2, CountType DEF TypeOK
  <2>5. request' \in [Requests -> RequestState]
    BY <2>1, RequestEnds
  <2> QED
    BY <2>1, <2>3, <2>4, <2>5 DEF TypeOK
<1>3. CASE FailHit(s)
  BY <1>3, RequestEnds DEF FailHit, TypeOK
<1> QED
  BY <1>1, <1>2, <1>3 DEF RequestStep

LEMMA RateNextType == TypeOK /\ [Next]_vars => TypeOK'
<1> SUFFICES ASSUME TypeOK, [Next]_vars PROVE TypeOK'
  OBVIOUS
<1>1. ASSUME NEW s \in Requests, RequestStep(s) PROVE TypeOK'
  BY <1>1, RateStepType
<1>2. CASE Sweep
  BY <1>2 DEF Sweep, TypeOK, NoRow
<1>3. CASE Tick
  BY <1>3, TimeAssumption DEF Tick, TypeOK
<1>4. CASE UNCHANGED vars
  BY <1>4 DEF vars, TypeOK
<1> QED
  BY <1>1, <1>2, <1>3, <1>4 DEF Next

\* Every reachable state of the counters and requests is well typed.
THEOREM CountersWellTyped == Spec => []TypeOK
  BY RateInitType, RateNextType, PTL DEF Spec

-----------------------------------------------------------------------------
(* The invariant behind the limit.                                         *)

\* A request knows when it came in, and has not waited any longer than it may.
Prompt ==
  \A s \in Requests :
    request[s].pc = "keyed" =>
      /\ request[s].now = request[s].since + ahead[request[s].replica]
      /\ request[s].since <= clock
      /\ clock <= request[s].since + MaxDelay

\* What a counter says: it lives two windows from the start of its own, it has
\* counted no fewer than were let through, and no more than were counted. One
\* that let somebody through and is gone was swept, and then its window is long
\* over, so that no request of that window can still be waiting.
Counters ==
  \A w \in Windows :
    /\ bucket[w] # NoRow => /\ bucket[w].expires >= WindowStart(w) + Ttl
                            /\ admitted[w] <= bucket[w].count
    /\ bucket[w] = NoRow /\ admitted[w] > 0 => clock + Skew > WindowStart(w) + Ttl
    /\ bucket[w].count <= counted[w]

RateInv == TypeOK /\ Prompt /\ Counters /\ LimitHolds

\* The increment of a request that waited no longer than it may.
LEMMA HitKeeps ==
  ASSUME RateInv, NEW s \in Requests, request[s].pc = "keyed",
         Hit(Key(request[s].now), Reading(request[s].replica)),
         counted' = Count(counted, request[s].now),
         \/ admitted' = admitted
         \/ /\ admitted' = Count(admitted, request[s].now)
            /\ Within(bucket[Key(request[s].now)].count + 1),
         UNCHANGED clock
  PROVE  Counters' /\ LimitHolds'
<1> DEFINE q == request[s]
           key == Key(q.now)
<1>0. TypeOK /\ Prompt /\ Counters /\ LimitHolds
  BY DEF RateInv
<1>1. /\ q.now \in Instants /\ q.now \in Nat
      /\ q.replica \in Replicas
      /\ q.since \in Nat
      /\ key \in Windows /\ key = WindowOf(q.now)
  BY <1>0, KeyedFacts, WindowsFacts DEF Key
<1>2. /\ Reading(q.replica) \in Nat
      /\ ahead[q.replica] \in 0..Skew
      /\ clock \in Nat
  BY <1>0, <1>1, ReadingType DEF TypeOK
<1>3. /\ WindowStart(key) \in Nat
      /\ WindowStart(key) <= q.now
      /\ q.now < WindowStart(key) + WindowSeconds
  BY <1>1, WindowFacts
<1>4. /\ q.now = q.since + ahead[q.replica]
      /\ q.since <= clock
      /\ clock <= q.since + MaxDelay
  BY <1>0 DEF Prompt
<1>5. WindowStart(key) <= Reading(q.replica)
  BY <1>1, <1>2, <1>3, <1>4 DEF Reading
<1>6. clock + Skew <= WindowStart(key) + Ttl
  BY <1>1, <1>2, <1>3, <1>4, RuleAssumption, TimeAssumption,
     GenerousAssumption, TtlFacts
<1>7. /\ bucket'[key].count = bucket[key].count + 1
      /\ bucket[key] = NoRow => bucket'[key].expires = Reading(q.replica) + Ttl
      /\ bucket[key] # NoRow => bucket'[key].expires = bucket[key].expires
      /\ \A w \in Windows : w # key => bucket'[w] = bucket[w]
  BY <1>0, <1>1, <1>2, HitType
<1>8. /\ counted'[key] = counted[key] + 1
      /\ \A w \in Windows : w # key => /\ counted'[w] = counted[w]
                                       /\ admitted'[w] = admitted[w]
      /\ \/ admitted'[key] = admitted[key]
         \/ /\ admitted'[key] = admitted[key] + 1
            /\ bucket[key].count + 1 <= Limit
  BY <1>0, <1>1, CountType DEF TypeOK, Within
<1>9. /\ bucket[key].count \in Nat /\ bucket[key].expires \in Nat
      /\ admitted[key] \in Nat /\ counted[key] \in Nat
  BY <1>0, <1>1 DEF TypeOK
<1> HIDE DEF q, key
<1>10. /\ bucket[key] # NoRow => /\ bucket[key].expires >= WindowStart(key) + Ttl
                                 /\ admitted[key] <= bucket[key].count
       /\ bucket[key] = NoRow /\ admitted[key] > 0
            => clock + Skew > WindowStart(key) + Ttl
       /\ bucket[key].count <= counted[key]
  BY <1>0, <1>1 DEF Counters
<1>11. admitted[key] <= bucket[key].count
  <2>1. CASE bucket[key] = NoRow
    <3>1. admitted[key] = 0
      BY <1>2, <1>3, <1>6, <1>9, <1>10, <2>1, TimeAssumption, TtlFacts
    <3> QED
      BY <1>9, <3>1
  <2> QED
    BY <1>10, <2>1
<1>12. /\ bucket'[key].expires >= WindowStart(key) + Ttl
       /\ admitted'[key] <= bucket'[key].count
       /\ bucket'[key].count <= counted'[key]
       /\ bucket'[key] # NoRow
  <2>1. bucket'[key].expires >= WindowStart(key) + Ttl
    BY <1>2, <1>3, <1>5, <1>7, <1>10, TtlFacts
  <2>2. admitted'[key] <= bucket'[key].count
    BY <1>7, <1>8, <1>9, <1>11
  <2>3. bucket'[key].count <= counted'[key]
    BY <1>7, <1>8, <1>9, <1>10
  <2>4. bucket'[key] # NoRow
    BY <1>7, <1>9 DEF NoRow
  <2> QED
    BY <2>1, <2>2, <2>3, <2>4
<1>13. Counters'
  <2> SUFFICES ASSUME NEW w \in Windows
               PROVE  /\ bucket'[w] # NoRow =>
                           /\ bucket'[w].expires >= WindowStart(w) + Ttl
                           /\ admitted'[w] <= bucket'[w].count
                      /\ bucket'[w] = NoRow /\ admitted'[w] > 0
                           => clock + Skew > WindowStart(w) + Ttl
                      /\ bucket'[w].count <= counted'[w]
    BY DEF Counters, NoRow, WindowStart, Ttl
  <2>1. CASE w = key
    BY <1>12, <2>1
  <2>2. CASE w # key
    BY <1>0, <1>7, <1>8, <2>2 DEF Counters
  <2> QED
    BY <2>1, <2>2
<1>14. LimitHolds'
  <2> SUFFICES ASSUME NEW w \in Windows PROVE admitted'[w] <= Limit
    BY DEF LimitHolds
  <2>1. CASE w = key
    BY <1>0, <1>1, <1>8, <1>9, <1>11, <2>1, RuleAssumption DEF LimitHolds
  <2>2. CASE w # key
    BY <1>0, <1>8, <2>2 DEF LimitHolds
  <2> QED
    BY <2>1, <2>2
<1> QED
  BY <1>13, <1>14

LEMMA RateStepInv ==
  ASSUME RateInv, NEW s \in Requests, RequestStep(s)
  PROVE  RateInv'
<1>0. TypeOK /\ TypeOK'
  BY RateStepType DEF RateInv
<1>1. CASE Arrive(s)
  <2>1. PICK r \in Replicas :
          request' = [request EXCEPT ![s] =
            [pc |-> "keyed", replica |-> r, now |-> Reading(r), since |-> clock]]
    BY <1>1 DEF Arrive
  <2>2. /\ request'[s].now = clock + ahead[r]
        /\ request'[s].since = clock
        /\ request'[s].replica = r
        /\ \A t \in Requests : t # s => request'[t] = request[t]
    BY <1>0, <2>1 DEF TypeOK, Reading
  <2>3. clock \in Nat /\ MaxDelay \in Nat
    BY <1>0, TimeAssumption DEF TypeOK
  <2>4. Prompt'
    <3> SUFFICES ASSUME NEW t \in Requests, request'[t].pc = "keyed"
                 PROVE  /\ request'[t].now
                             = request'[t].since + ahead[request'[t].replica]
                        /\ request'[t].since <= clock
                        /\ clock <= request'[t].since + MaxDelay
      BY <1>1 DEF Prompt, Arrive
    <3>1. CASE t = s
      BY <2>2, <2>3, <3>1
    <3>2. CASE t # s
      BY <2>2, <3>2 DEF RateInv, Prompt
    <3> QED
      BY <3>1, <3>2
  <2> QED
    BY <1>0, <1>1, <2>4 DEF RateInv, Arrive, Counters, LimitHolds
<1>2. CASE Consume(s) \/ LoseReply(s)
  <2>1. /\ request[s].pc = "keyed"
        /\ Hit(Key(request[s].now), Reading(request[s].replica))
        /\ counted' = Count(counted, request[s].now)
        /\ \/ admitted' = admitted
           \/ /\ admitted' = Count(admitted, request[s].now)
              /\ Within(bucket[Key(request[s].now)].count + 1)
        /\ EndRequest(s)
        /\ UNCHANGED <<clock, ahead>>
    BY <1>2 DEF Consume, LoseReply
  <2>2. Counters' /\ LimitHolds'
    BY <2>1, HitKeeps
  <2>3. Prompt'
    BY <1>0, <2>1, RequestEnds DEF RateInv, Prompt, NoRequest
  <2> QED
    BY <1>0, <2>2, <2>3 DEF RateInv
<1>3. CASE FailHit(s)
  BY <1>0, <1>3, RequestEnds
  DEF FailHit, RateInv, Prompt, NoRequest, Counters, LimitHolds
<1> QED
  BY <1>1, <1>2, <1>3 DEF RequestStep

\* A sweep takes a counter only when its life is over by some clock.
LEMMA SweepInv ==
  ASSUME RateInv, Sweep
  PROVE  RateInv'
<1>0. TypeOK /\ TypeOK'
  BY RateNextType DEF RateInv, Next
<1>1. PICK r \in Replicas : \E now \in 0..Reading(r) :
        bucket' = [w \in Windows |->
                     IF bucket[w].expires < now THEN NoRow ELSE bucket[w]]
  BY DEF Sweep
<1>2. PICK now \in 0..Reading(r) :
        bucket' = [w \in Windows |->
                     IF bucket[w].expires < now THEN NoRow ELSE bucket[w]]
  BY <1>1
<1>3. now \in Nat /\ now <= clock + Skew /\ clock \in Nat
  BY <1>0, <1>2, ReadingType, TimeAssumption DEF Reading, TypeOK
<1>4. Counters'
  <2> SUFFICES ASSUME NEW w \in Windows
               PROVE  /\ bucket'[w] # NoRow =>
                           /\ bucket'[w].expires >= WindowStart(w) + Ttl
                           /\ admitted[w] <= bucket'[w].count
                      /\ bucket'[w] = NoRow /\ admitted[w] > 0
                           => clock + Skew > WindowStart(w) + Ttl
                      /\ bucket'[w].count <= counted[w]
    BY DEF Counters, NoRow, WindowStart, Ttl, Sweep
  <2>1. /\ bucket[w] # NoRow => /\ bucket[w].expires >= WindowStart(w) + Ttl
                                /\ admitted[w] <= bucket[w].count
        /\ bucket[w] = NoRow /\ admitted[w] > 0 => clock + Skew > WindowStart(w) + Ttl
        /\ bucket[w].count <= counted[w]
    BY DEF RateInv, Counters
  <2>2. /\ bucket[w].expires \in Nat /\ counted[w] \in Nat
        /\ WindowStart(w) \in Nat /\ Ttl \in Nat
    BY <1>0, WindowsFacts, TtlFacts DEF TypeOK
  <2>3. CASE bucket[w].expires < now
    <3>1. bucket'[w] = NoRow /\ NoRow.count = 0
      BY <1>2, <2>3 DEF NoRow
    <3>2. CASE bucket[w] = NoRow
      BY <2>1, <2>2, <3>1, <3>2
    <3>3. CASE bucket[w] # NoRow
      <4>1. clock + Skew > WindowStart(w) + Ttl
        BY <1>3, <2>1, <2>2, <2>3, <3>3, TimeAssumption
      <4> QED
        BY <2>2, <3>1, <4>1
    <3> QED
      BY <3>2, <3>3
  <2>4. CASE ~(bucket[w].expires < now)
    BY <1>2, <2>1, <2>4
  <2> QED
    BY <2>3, <2>4
<1> QED
  BY <1>0, <1>4 DEF RateInv, Sweep, Prompt, LimitHolds

LEMMA TickInv ==
  ASSUME RateInv, Tick
  PROVE  RateInv'
<1>0. TypeOK /\ TypeOK'
  BY RateNextType DEF RateInv, Next
<1>1. clock \in Nat /\ clock' = clock + 1
  BY <1>0 DEF Tick, TypeOK
<1>2. Prompt'
  <2> SUFFICES ASSUME NEW s \in Requests, request[s].pc = "keyed"
               PROVE  /\ request[s].now
                           = request[s].since + ahead[request[s].replica]
                      /\ request[s].since <= clock'
                      /\ clock' <= request[s].since + MaxDelay
    BY DEF Prompt, Tick
  <2>1. request[s].since \in Nat
    BY <1>0, KeyedFacts
  <2>2. /\ request[s].now = request[s].since + ahead[request[s].replica]
        /\ request[s].since <= clock
        /\ clock < request[s].since + MaxDelay
    BY DEF RateInv, Prompt, Tick
  <2> QED
    BY <1>1, <2>1, <2>2, TimeAssumption
<1>3. Counters'
  <2> SUFFICES ASSUME NEW w \in Windows, bucket[w] = NoRow, admitted[w] > 0
               PROVE  clock' + Skew > WindowStart(w) + Ttl
    BY DEF RateInv, Counters, Tick, WindowStart, Ttl
  <2>1. clock + Skew > WindowStart(w) + Ttl
    BY DEF RateInv, Counters
  <2>2. WindowStart(w) \in Nat /\ Ttl \in Nat
    BY WindowsFacts, TtlFacts
  <2> QED
    BY <1>1, <2>1, <2>2, TimeAssumption
<1> QED
  BY <1>0, <1>2, <1>3 DEF RateInv, Tick, LimitHolds

LEMMA RateInvariant == Spec => []RateInv
<1>1. Init => RateInv
  <2> SUFFICES ASSUME Init PROVE Prompt /\ Counters /\ LimitHolds
    BY RateInitType DEF RateInv
  <2>1. Prompt
    BY DEF Init, Prompt, NoRequest
  <2>2. Counters
    BY DEF Init, Counters, NoRow
  <2>3. LimitHolds
    BY RuleAssumption DEF Init, LimitHolds
  <2> QED
    BY <2>1, <2>2, <2>3
<1>2. RateInv /\ [Next]_vars => RateInv'
  <2> SUFFICES ASSUME RateInv, [Next]_vars PROVE RateInv'
    OBVIOUS
  <2>1. CASE UNCHANGED vars
    BY <2>1 DEF vars, RateInv, TypeOK, Prompt, Counters, LimitHolds
  <2> QED
    BY <2>1, RateStepInv, SweepInv, TickInv DEF Next
<1> QED
  BY <1>1, <1>2, PTL DEF Spec

\* Of the requests of one window at most Limit are let through, for any rule
\* and any number of replicas, as long as clock skew and waiting add up to no
\* more than a window: that is what the counter's second window of life is for.
THEOREM LimitIsKept == Spec => []LimitHolds
<1>1. RateInv => LimitHolds
  BY DEF RateInv
<1> QED
  BY <1>1, RateInvariant, PTL

\* A request is refused only after as many as the rule allows were counted in
\* its own window: no counter is carried over from an earlier one.
THEOREM RefusalIsEarned == Spec => RefusedOnlyWhenSpent
<1>1. ASSUME RateInv, NEW s \in Requests, Refused(s)
      PROVE  counted[WindowOf(request[s].now)] >= Limit
  <2> DEFINE w == WindowOf(request[s].now)
  <2>1. request[s].pc = "keyed" /\ ~Within(bucket[w].count + 1)
    BY <1>1 DEF Refused, Consume, Key
  <2>2. w \in Windows
    BY <1>1, <2>1, KeyedFacts DEF RateInv
  <2>3. bucket[w].count <= counted[w]
    BY <1>1, <2>2 DEF RateInv, Counters
  <2>4. bucket[w].count \in Nat /\ counted[w] \in Nat
    BY <1>1, <2>2 DEF RateInv, TypeOK
  <2> HIDE DEF w
  <2>5. counted[w] >= Limit
    BY <2>1, <2>3, <2>4, RuleAssumption DEF Within
  <2> QED
    BY <2>5 DEF w
<1>2. RateInv /\ [Next]_vars =>
        [\A s \in Requests :
           Refused(s) => counted[WindowOf(request[s].now)] >= Limit]_vars
  BY <1>1
<1> QED
  BY <1>2, RateInvariant, PTL DEF Spec, RefusedOnlyWhenSpent

=============================================================================
