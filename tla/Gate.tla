--------------------------------- MODULE Gate ---------------------------------
(***************************************************************************)
(* The way in: the layers a request passes before its handler runs, each a *)
(* statement of its own, while sessions are minted and revoked and roles   *)
(* change under it; and the creation of a household, the one handler whose *)
(* own permission check is neither a layer nor a constraint.               *)
(*                                                                         *)
(* Outermost first: the same-site guard, spec validation, the session, the *)
(* tenancy guards of the operation's tier, the rate limit, the handler.    *)
(***************************************************************************)
EXTENDS Naturals, Sequences

CONSTANTS
  Users,
  Founder,   \* installation.owner_user_id
  Nobody,    \* an anonymous caller, the owner of a session not yet minted
  Sessions,  \* session rows, each with the token of one cookie
  NoCookie,
  Slugs,     \* names a household may have
  Visits,    \* requests in flight
  Hosts,     \* client addresses
  Proxy,     \* the address of a reverse proxy
  Hops,      \* TRUSTED_PROXY_HOPS, as many as there are proxies in front
  ProxiesFold, \* a proxy adds what it saw to the X-Forwarded-For line there is
  DevMode    \* ENVIRONMENT=development

ASSUME NobodyIsNoUser == Founder \in Users /\ Nobody \notin Users \cup Slugs
ASSUME NoCookieIsNoSession == NoCookie \notin Sessions
ASSUME HopsAssumption ==
  Hops \in Nat /\ ProxiesFold \in BOOLEAN /\ DevMode \in BOOLEAN

VARIABLES
  session,  \* who owns each session row, and whether it is still there
  role,     \* household_memberships of the households there are
  visit     \* each request in flight

gateVars == <<session, role, visit>>

-----------------------------------------------------------------------------
(* Where a request comes from.                                             *)

\* The page that sends it, or no page at all: curl, a test, a server. "dev" is
\* http on a local port, "opaque" a sandboxed frame, whose Origin is "null".
Pages == {"app", "dev", "sibling", "elsewhere", "opaque", "nopage"}
Ours == {"app", "nopage"} \cup (IF DevMode THEN {"dev"} ELSE {})

\* The headers that a browser of some age and referrer policy sends.
Browser == (SUBSET {"Sec-Fetch-Site", "Origin", "Referer"}) \ {{}}

Sends(page, browser, header) == page # "nopage" /\ header \in browser

FetchSite(page) ==
  CASE page = "app" -> "same-origin"
    [] page = "sibling" -> "same-site"
    [] OTHER -> "cross-site"

OriginAllowed(page) == page = "app" \/ (page = "dev" /\ DevMode)

\* Bug: a request without an Origin header is not asked for its Referer.
SameSiteByOrigin(page, browser) ==
  /\ Sends(page, browser, "Sec-Fetch-Site") /\ FetchSite(page) # "same-origin"
       => Sends(page, browser, "Origin") /\ OriginAllowed(page)
  /\ Sends(page, browser, "Origin") => OriginAllowed(page)

\* Without any of the three headers the request is not a browser's. An opaque
\* page has no Referer that could be parsed, but the header is there.
SameSite(page, browser) ==
  /\ Sends(page, browser, "Sec-Fetch-Site") /\ FetchSite(page) # "same-origin"
       => Sends(page, browser, "Origin") /\ OriginAllowed(page)
  /\ Sends(page, browser, "Origin") => OriginAllowed(page)
  /\ Sends(page, browser, "Referer") /\ ~Sends(page, browser, "Origin")
       => OriginAllowed(page)

\* The X-Forwarded-For lines as they arrive: whatever the client wrote, and
\* what each proxy in front saw, the outermost the client itself. A proxy that
\* does not fold it into the line there is writes a line of its own.
Forwarded(forged, host) ==
  LET theirs == IF forged = <<>> THEN <<>> ELSE <<forged>>
      rest == [i \in 1..(Hops - 1) |-> Proxy]
  IN IF Hops = 0 THEN theirs
     ELSE IF ProxiesFold THEN <<Append(forged, host) \o rest>>
     ELSE theirs \o <<<<host>>>> \o [i \in 1..(Hops - 1) |-> <<rest[i]>>]
Socket(host) == IF Hops = 0 THEN host ELSE Proxy

\* Header.Get: the first line there is, and no other.
FirstLine(lines) == IF lines = <<>> THEN <<>> ELSE lines[1]

\* Bug: the hops are counted from the left.
ClientIPFromTheLeft(chain, socket) ==
  IF Hops = 0 \/ chain = <<>> THEN socket
  ELSE chain[IF Hops > Len(chain) THEN Len(chain) ELSE Hops]

\* Hops back from the right; a chain that is too short has only a first entry.
ClientIP(chain, socket) ==
  IF Hops = 0 \/ chain = <<>> THEN socket
  ELSE chain[IF Len(chain) > Hops THEN Len(chain) - Hops + 1 ELSE 1]

-----------------------------------------------------------------------------
(* The operations, by what they require of the caller.                     *)

Operations ==
  {"CompleteSetup", "AcceptInvitation", "RevokeOtherSessions",
   "CreateHousehold", "LeaveHousehold", "RemoveMember", "ListMembers"}

Tier(op) ==
  CASE op = "CompleteSetup" -> "public"
    [] op = "AcceptInvitation" -> "viewer"
    [] op \in {"RevokeOtherSessions", "CreateHousehold"} -> "session"
    [] op = "LeaveHousehold" -> "household"
    [] op \in {"RemoveMember", "ListMembers"} -> "owner"

\* The household in the path, or in the body of a creation.
Named(op) ==
  IF op = "CreateHousehold" \/ Tier(op) \in {"household", "owner"}
  THEN Slugs ELSE {Nobody}

Safe(op) == op = "ListMembers"

Roles == {"owner", "member", "none"}
Unborn == [u \in {} |-> "none"]
Born(h) == role[h] # Unborn

\* host, browser and page are the truth of the request; caller, role and client
\* what the layers made of it. The rest is history: whether the session of its
\* cookie was there at some moment of the request, the roles which the owner of
\* that session then had in the household it names, and whether there was a
\* moment at which that user had no household.
NoVisit ==
  [pc |-> "idle", op |-> "ListMembers", page |-> "nopage", host |-> Nobody,
   cookie |-> NoCookie, slug |-> Nobody, client |-> Nobody, caller |-> Nobody,
   role |-> "none", wasLive |-> FALSE, held |-> {}, wasHomeless |-> FALSE]

VisitState ==
  [pc: {"idle", "arrived", "tenancy", "limit", "handler", "allowed", "unclaimed",
        "founded"},
   op: Operations, page: Pages, host: Hosts \cup {Nobody},
   cookie: Sessions \cup {NoCookie}, slug: Slugs \cup {Nobody},
   client: Hosts \cup {Proxy, Nobody}, caller: Users \cup {Nobody}, role: Roles,
   wasLive: BOOLEAN, held: SUBSET Roles, wasHomeless: BOOLEAN]

GateInit ==
  /\ session = [s \in Sessions |-> [owner |-> Nobody, live |-> FALSE]]
  /\ role = [h \in Slugs |-> Unborn]
  /\ visit = [v \in Visits |-> NoVisit]

RoleIn(roles, h, u) == IF roles[h] = Unborn THEN "none" ELSE roles[h][u]
Homeless(roles, u) == \A h \in Slugs : RoleIn(roles, h, u) = "none"

\* What is true of each request's session and household now.
Witness(visits, sessions, roles) ==
  [v \in Visits |->
     IF visits[v].cookie = NoCookie THEN visits[v]
     ELSE LET s == sessions[visits[v].cookie]
              h == visits[v].slug
          IN [visits[v] EXCEPT
                !.wasLive = @ \/ s.live,
                !.held = IF h = Nobody THEN @ ELSE @ \cup {RoleIn(roles, h, s.owner)},
                !.wasHomeless = @ \/ Homeless(roles, s.owner)]]

-----------------------------------------------------------------------------
(* The layers.                                                             *)

Pass(v, pc) ==
  visit' = [visit EXCEPT ![v].pc = pc] /\ UNCHANGED <<session, role>>
Refuse(v) ==
  visit' = [visit EXCEPT ![v] = NoVisit] /\ UNCHANGED <<session, role>>

\* SameSite and the spec decide without a statement: a request that they turn
\* away does not come in.
Admissible(op) ==
  {page \in Pages : Safe(op) \/ \E browser \in Browser : SameSite(page, browser)}

\* What Session makes of the client's address.
Buckets(host) ==
  {ClientIP(FirstLine(Forwarded(forged, host)), Socket(host)) :
     forged \in {<<>>} \cup {<<x>> : x \in Hosts \cup {Proxy}}}

\* A cookie is one that was set once.
Cookies == {s \in Sessions : session[s].owner # Nobody} \cup {NoCookie}

ComeIn(v) ==
  /\ visit[v].pc = "idle"
  /\ \E op \in Operations, host \in Hosts, cookie \in Cookies :
     \E page \in Admissible(op), client \in Buckets(host), slug \in Named(op) :
       visit' = Witness(
         [visit EXCEPT ![v] =
            [NoVisit EXCEPT
               !.pc = IF Tier(op) = "public" THEN "limit" ELSE "arrived",
               !.op = op, !.page = page, !.host = host, !.cookie = cookie,
               !.slug = slug, !.client = client]],
         session, role)
  /\ UNCHANGED <<session, role>>

\* SessionFromRequest: one statement; every flavour of signed out is Nobody.
SessionFromRequest(v) ==
  IF session[visit[v].cookie].live THEN session[visit[v].cookie].owner ELSE Nobody

\* Session and RequireSession. AcceptInvitation only wants to know.
Session(v) ==
  LET caller == IF visit[v].cookie = NoCookie THEN Nobody ELSE SessionFromRequest(v)
  IN /\ visit[v].pc = "arrived"
     /\ Tier(visit[v].op) = "viewer" \/ caller # Nobody
     /\ visit' = [visit EXCEPT ![v].caller = caller,
          ![v].pc = IF Tier(visit[v].op) \in {"household", "owner"}
                    THEN "tenancy" ELSE "limit"]
     /\ UNCHANGED <<session, role>>

\* Bug: membership of a household says what one may do in the next.
RequireAnyHousehold(v) ==
  /\ visit[v].pc = "tenancy"
  /\ \E h \in Slugs :
       LET r == RoleIn(role, h, visit[v].caller) IN
       /\ r # "none"
       /\ Tier(visit[v].op) = "owner" => r = "owner"
       /\ visit' = [visit EXCEPT ![v].pc = "limit", ![v].role = r]
  /\ UNCHANGED <<session, role>>

\* RequireHousehold and, on the role it has read, RequireOwner.
RequireHousehold(v) ==
  LET r == RoleIn(role, visit[v].slug, visit[v].caller)
  IN /\ visit[v].pc = "tenancy"
     /\ r # "none"
     /\ Tier(visit[v].op) = "owner" => r = "owner"
     /\ visit' = [visit EXCEPT ![v].pc = "limit", ![v].role = r]
     /\ UNCHANGED <<session, role>>

\* RateLimit, inside the tiers: who is turned away there is not charged.
Charge(v) == visit[v].pc = "limit" /\ Pass(v, "handler")

\* A layer refuses, or its statement fails: 400, 401, 403, 429 or 500, never
\* the next layer. Or the handler has answered.
Respond(v) == visit[v].pc # "idle" /\ Refuse(v)

-----------------------------------------------------------------------------
(* Handlers.                                                               *)

\* "Sign out everywhere else": the rows of the caller as Session saw them.
RevokeOtherSessions(v) ==
  LET now == [s \in Sessions |->
                IF session[s].owner = visit[v].caller /\ s # visit[v].cookie
                THEN [session[s] EXCEPT !.live = FALSE] ELSE session[s]]
  IN /\ visit[v].pc = "handler"
     /\ visit[v].op = "RevokeOtherSessions"
     /\ session' = now
     /\ visit' = Witness([visit EXCEPT ![v] = NoVisit], now, role)
     /\ UNCHANGED role

\* Bug: only the households one owns count.
MayCreateUnlessOwner(u) ==
  u = Founder \/ \A h \in Slugs : RoleIn(role, h, u) # "owner"

\* mayCreateHousehold.
MayCreate(u) == u = Founder \/ Homeless(role, u)

CheckCreation(v) ==
  /\ visit[v].pc = "handler"
  /\ visit[v].op = "CreateHousehold"
  /\ MayCreate(visit[v].caller)
  /\ Pass(v, "allowed")

LookUpSlug(v) ==
  /\ visit[v].pc = "allowed"
  /\ ~Born(visit[v].slug)
  /\ Pass(v, "unclaimed")

\* One transaction; the unique index on the slug has the last word.
CreateHousehold(v) ==
  LET now == [role EXCEPT ![visit[v].slug] =
                [u \in Users |-> IF u = visit[v].caller THEN "owner" ELSE "none"]]
  IN /\ visit[v].pc = "unclaimed"
     /\ ~Born(visit[v].slug)
     /\ role' = now
     /\ visit' = Witness([visit EXCEPT ![v].pc = "founded"], session, now)
     /\ UNCHANGED session

-----------------------------------------------------------------------------
(* What other requests do meanwhile.                                       *)

\* SignIn, after setup or an accept, and Limen's own. A session whose cookie
\* could not be set is revoked.
SignIn(s, u) ==
  /\ session[s].owner = Nobody
  /\ \E live \in BOOLEAN :
       session' = [session EXCEPT ![s] = [owner |-> u, live |-> live]]
  /\ UNCHANGED <<role, visit>>

\* RevokeSession; or the session expires, or its owner signs out.
RevokeSession(s) ==
  /\ session[s].live
  /\ session' = [session EXCEPT ![s].live = FALSE]
  /\ UNCHANGED <<role, visit>>

\* onPasswordResetSuccess.
RevokeAllSessions(u) ==
  /\ \E s \in Sessions : session[s] = [owner |-> u, live |-> TRUE]
  /\ session' = [s \in Sessions |->
       IF session[s].owner = u THEN [session[s] EXCEPT !.live = FALSE]
       ELSE session[s]]
  /\ UNCHANGED <<role, visit>>

\* An invitation accepted, a role changed, a member removed or gone.
SetRole(h, u, r) ==
  LET now == [role EXCEPT ![h][u] = r]
  IN /\ Born(h)
     /\ role[h][u] # r
     /\ role' = now
     /\ visit' = Witness(visit, session, now)
     /\ UNCHANGED session

Layers(v) ==
  ComeIn(v) \/ Session(v) \/ RequireHousehold(v) \/ Charge(v) \/ Respond(v)

Handlers(v) ==
  \/ RevokeOtherSessions(v) \/ CheckCreation(v) \/ LookUpSlug(v)
  \/ CreateHousehold(v)

Meanwhile ==
  \/ \E s \in Sessions : RevokeSession(s) \/ \E u \in Users : SignIn(s, u)
  \/ \E u \in Users : RevokeAllSessions(u)
  \/ \E h \in Slugs, u \in Users, r \in Roles : SetRole(h, u, r)

GateNext == Meanwhile \/ \E v \in Visits : Layers(v) \/ Handlers(v)

GateSpec == GateInit /\ [][GateNext]_gateVars

-----------------------------------------------------------------------------
(* What the way in promises.                                               *)

GateTypeOK ==
  /\ session \in [Sessions -> [owner: Users \cup {Nobody}, live: BOOLEAN]]
  /\ role \in [Slugs -> [Users -> Roles] \cup {Unborn}]
  /\ visit \in [Visits -> VisitState]

Admitted(v) ==
  visit[v].pc \in {"limit", "handler", "allowed", "unclaimed", "founded"}

\* Revocations and role changes come between the layers. A handler runs, and
\* the limiter is charged, as a user only if the cookie's session was there at
\* some moment of this very request, and in a household only if that user then
\* belonged to it, with the role that the operation asks for.
EntryWasEarned ==
  \A v \in Visits : Admitted(v) =>
    /\ visit[v].caller # Nobody =>
         visit[v].wasLive /\ visit[v].caller = session[visit[v].cookie].owner
    /\ Tier(visit[v].op) \notin {"public", "viewer"} => visit[v].caller # Nobody
    /\ Tier(visit[v].op) = "household" => visit[v].held # {"none"}
    /\ Tier(visit[v].op) = "owner" => "owner" \in visit[v].held

\* "A request carrying either header with a foreign value is rejected": nothing
\* that a page of another origin makes a browser do, whichever of the three
\* headers that browser sends, gets past the guard except to read.
ForeignPagesChangeNothing ==
  \A v \in Visits :
    visit[v].pc # "idle" /\ visit[v].page \notin Ours => Safe(visit[v].op)

\* The limiter's bucket is that of the host which asked, whatever the caller
\* wrote into X-Forwarded-For ("Anything a client prepends sits further left and
\* is ignored", ip.go), behind proxies that all write into one line. Behind one
\* that adds a line of its own it would not be: only the first line is read.
ChargedToTheCaller ==
  ProxiesFold =>
    \A v \in Visits : Admitted(v) => visit[v].client = visit[v].host

\* "the installation owner, or a person who belongs to no household at all":
\* the check is two statements before the insert and nothing holds it, so a
\* household may be a second one, but only to somebody who had none at some
\* moment of that request.
OnlyTheHomelessFound ==
  \A v \in Visits :
    visit[v].pc = "founded" => visit[v].caller = Founder \/ visit[v].wasHomeless

=============================================================================
