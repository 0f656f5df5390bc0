# Mi casa su casa: a TLA+ model of the server

Mi casa su casa is a self-hosted mailbox for a household's one-time codes and
notifications. Mailgun posts incoming mail to a webhook; sender rules file it
under a provider or put it in a quarantine for an owner to review; members read
what they have been granted; a nightly job deletes mail that is past its
retention. The server is one Go binary (`src/apps/server`) over Postgres, run in
any number of replicas.

This directory holds TLA+ models of that server's stateful core, the TLC
configurations that check them on small instances, and TLAPS proofs of their
main properties for every value of the constants.

- [Inventory](#inventory): the parts of the system and what makes each correct
- [Modules](#modules): what is modelled and how it corresponds to the code
- [Runs](#runs): what TLC checks, within which bounds
- [Fairness](#fairness)
- [Proofs](#proofs)
- [Disagreements found](#disagreements-found)
- [What is not modelled](#what-is-not-modelled)
- [What could come next](#what-could-come-next)

`tlc -workers 2 -config X.cfg M` runs a configuration, `tlapm M.tla` checks the
proofs of a module. Paths below are relative to `src/apps/server/internal` unless
they start with `docs` or `cmd`.

## Inventory

All state of the server is in Postgres, except what is in memory: the replay
guard of each process, the stage of its life that it is at, and what a request
or a job under way has read so far. A client keeps the cursor of its paging.
Almost every handler runs several SQL statements without a transaction around
them; exceptions are the accept of an invitation, the release of a quarantined
message, and the creation of a household or of an invitation. Between two
statements of a handler any other handler, of this process or another replica,
may run, the process may stop, and a committed statement's reply may be lost.
That is where the hard behaviour is, and it is what the models are made of.

| Part | State | Operations | What makes it correct | Module |
| --- | --- | --- | --- | --- |
| Inbound webhook guards (`api/inbound.go`, `mail/mailgun.go`) | replay map of each process | verify the window, check and remember a token, restart | a token is taken again only at or past the last moment of its signature (it should not be at all); the map is bounded; a failure of ours should stay retryable | Webhook |
| Mail parsing and code extraction (`mail`, `domain/extract.go`) | none | headers to verdicts, parts to text, text to code | the first verdict stands; no attachment is mined, as far as the walk sees that it is one; a code is the first plausible token (and should be a whole one) | Parse |
| Classification and sender rules (`classify`, `repo/providers.go`, `domain/verdict.go`, `api/admin_providers.go`) | `sender_rules`, `providers` | match the sender against the rules; create, repoint, delete rules | a rule that stood throughout never loses to a weaker one; a visible sender is vouched for by DKIM or DMARC | SenderRules |
| Ingest and quarantine (`api/inbound.go`, `repo/messages.go`) | `messages`, `quarantine_messages` | classify, count the queue, insert | a 200 is kept; one row per Message-ID; the cap holds up to requests in flight; no row without its provider | Mailbox |
| Review of the queue (`api/inbox.go`) | the same tables | change status, dismiss, release | a release is the same mail with the same deadline; what was reviewed stays so | Mailbox |
| Listings (`api/inbox.go`, `repo/repo.go`) | the client's cursor | check access, find the provider, read a page | no row twice, none skipped; only mail that the reader may read | Inbox |
| Retention (`jobs/retention.go`, `cron/cron.go`) | the same tables, `app_installation` | purge in batches, record the run | nothing goes early, nothing stays for ever, the recorded date catches up | Mailbox |
| Members and access (`api/admin_members.go`, `api/households.go`) | `household_memberships`, `household_member_provider_access` | leave, remove, change role, grant, revoke | an owner remains; access only for members and for providers that exist; no request over members admits anyone | Household, Members |
| First-run setup (`api/setup.go`) | the one row of `app_installation`, the owner's account and household | claim, recover, create, complete, roll back, take over | one attempt works at a time; a locked installation has its owner; setup gets through | Setup |
| Rate limiter (`ratelimit`, `repo/ratelimit.go`) | `rate_limit` | count, decide, sweep | never more than the rule per window, and never refused before that | RateLimit |
| Invitations (`invite`, `repo/invitations.go`, `api/invitations_public.go`) | `household_invitations` and their scope | create, resend, cancel, expire, accept | a replaced link is dead before its successor exists; an accept is all or nothing and on record; nothing is left in the name of an account that was taken back | Household, Invitations |
| The way in (`api/middleware`, `api/routes.go`, `security/ip.go`, `auth/session.go`) | `sessions`, what a request carries from layer to layer | same-site guard, session, tenancy tiers, rate limit; sign in, revoke | no handler without entitlement at some moment of the request; no change from a foreign page; the right bucket | Gate |
| Creation of a household (`api/households.go`) | `households` | policy, slug, transaction | only the founder or the homeless found | Gate |
| Outgoing mail (`mail/smtp.go`) | the socket | dial, upgrade, authenticate, hand over | nothing in clear where TLS is required; an answer in time | Outgoing |
| Modes, migrations, scheduler, shutdown (`cmd/mi-casa/main.go`, `db/migrate.go`, `cron/cron.go`) | the advisory lock, the schema, the process | boot, migrate, serve, stop, drain, close | migrations one at a time and all before serving; a clean exit cuts nothing short | Lifecycle |
| Accounts and two-step verification, slugs, audit, configuration, readiness, validation, the web application, generated code | see [below](#what-is-not-modelled) | | | in parts, or not |

How the parts interact. The webhook's guards let a post through to ingest, which
asks classification and writes the mailbox tables. The review routes and the
retention job write the same tables. Deleting a provider cascades into messages
and into access. Accepting an invitation writes memberships and access; setup
creates the first of them. The retention job also expires invitations, sweeps
the rate limiter's counters and stamps the row that the setup claim lives in.
Every route but the webhook lies behind the gate's layers; the process around
them decides when a job or a request may start and when it is cut.

The hard behaviours, one by one with their lines, are the `hazards` of
`PROJECT.json`. The kinds that matter most here:

- a check and the write it guards are two statements: the quarantine cap, the
  last-owner rule, a grant, the resolution of a provider before an insert;
- an action is remembered before it is done: the replay token;
- compensation instead of a transaction: setup's rollback, which may run after
  another attempt has finished, and the account that a failed accept deletes;
- concurrent purges that address row versions, against updates of these rows;
- repeated delivery of the same mail, against reviews, purges and rule changes;
- checks in one statement and reads in the next, by a key that may change hands:
  sessions, roles, providers and the pages of a listing;
- rules read in up to four statements while they are edited;
- shutdown: three waits in a row, two of them with a deadline, under a killer with
  one of its own;
- clocks: a request that reads the time, waits, and uses it later, in another
  window or past the moment another request with a later reading came by.

## Modules

Every action is ONE statement, or one `InTx` transaction, of a handler. A
handler of several statements is a slot (`delivery`, `review`, `request`,
`attempt`, `run`) with a program counter and the values it has read. The number
of slots is how many can be in flight at once. A slot that ends is reset, so
that it carries nothing from one request into the next.

`X` is a component, `MCX` its instance for TLC, `XProofs` its theorems (those of
SenderRules, Inbox and Outgoing are in MailProofs, those of RateLimit, Gate and
Lifecycle in ServerProofs). MCDoors and MCParts are instances of several components side by
side, see [Runs](#runs). A definition whose comment starts with "Bug:" is an altered
form of the one after it, as a plausible mistake would give it; no specification
uses it. `PROJECT.json` pairs each property with one
that breaks it.

### Mailbox

One household's mail. `messages` and `quarantine` are the rows of the two
tables; a row is its id, its Message-ID, its provider and its deadline. Payload
and extracted code are left out: nothing branches on them after classification.

| Action | Code |
| --- | --- |
| `ClassifyDelivery` | `store`'s `Classify`: any provider of the household or none, since the rules may change between two deliveries |
| `CountQuarantine`, `InsertQuarantine`, `SwallowQuarantined` | the cap's count and the insert, a second statement, with `ON CONFLICT DO NOTHING` |
| `InsertMessage`, `SwallowMessage`, `FailDelivery` | the insert under a provider; its foreign key may fail |
| `ResolveReview`, `ReadReview`, `Dismiss`, `Release`, `FailReview` | `ReviewQuarantineMessage` and `ReviewQuarantine`: resolve the provider, read the row, then one UPDATE or one transaction |
| `UpdateMessageStatus` | an UPDATE of a message: it gives the row a new version |
| `StartRun`, `SelectMessages`, `DeleteMessages`, `SelectQuarantine`, `DeleteQuarantine`, `RecordRun`, `FailRun` | `Retention` with its batches. A purge is split into its subselect and its delete: it addresses rows by `ctid`, so a row that is updated between the two drops out (`Outdate`) |
| `DeleteProvider`, `NextDay` | a cascade; time |

The history variable `owed` holds until when a 200 promised each message; it is
read by the property only. A provider that its owner deletes takes its promises
along.

### Custody

What Mailbox comes to for a household, with no ids, slots, batches or statements:
mail in the `inbox` and mail `held` for a decision, each with the deadline it came
with. `File`, `Hold` and `Redeliver` are what a 200 may mean; `Decide` marks a held
mail and copies it in one step; `PurgeInbox` and `PurgeHeld` take what has
expired, `DropProvider` what the owner gave up. `ImplementsCustody` (the instance
`Mail` of Mailbox) maps each row to what is left of it without its id; reads, failed
statements, snapshots of a purge and records of a run are stutters. Two things it
shows that one would not promise unseen: of two decisions on one mail both may be
carried out, and a mail is held if there is `Room`, which is the cap and as many
more as there are other deliveries in flight.

### Webhook

The signature window and the replay guard of every replica. Mailgun dates a post
by its own clock (`Sign`) and repeats it at will. A request takes the
clock's reading first (`Open`), and its body may take any time to come: the
server sets no read timeout for bodies. `TurnAway`, `RefuseReplay` and `TakeIn` are
what can become of it then; the last is one critical section: look
up, prune, evict if the map is full, remember. Which tokens go is any choice
that the sort allows when expiries tie. `Finish` is a 200 or a 406, `Fail` a
500, `Restart` forgets the map and the requests of a process. Only posts that
Mailgun signed are modelled: the HMAC is taken to be sound.

`memory` is history: until when a guard that lost nothing to a restart or to its
cap should know each token. The comments promise that a token outlives its
signature. It does not quite (see [below](#disagreements-found)), and
`RepeatIsTakenOnlyLate` says how far the code keeps that promise: a known token is taken again only at the
last acceptable moment of its signature or after it, from a post that read the
clock at that very moment, or earlier and had a slow body.

### Members

Roles, access and providers of one household. A guard reads the caller's role
once, when the request comes in (`BeginLeave`, `BeginRemove`, `BeginRole`,
`BeginAccess`); the handler's checks (`CheckLeave`, `CheckTarget`,
`CheckAccess`, `CountOwners`) and its write (`RemoveMember`, `SetMemberRole`,
`GrantProviderAccess`, `RevokeProviderAccess`) are steps of their own. The grant
is an `INSERT ... SELECT` over what exists when it runs, not over what was
checked. `AcceptInvitation` is the whole transaction; which invitation it
accepts is arbitrary (`Accepting`). `Upgrading` is the same without invitations
that would demote an owner, as the comment on the upsert takes for granted.

### Household

The abstract specification of `household_memberships`,
`household_member_provider_access` and `providers`: who may become a member, lose
that, gain or lose access, one statement (or the accept's transaction) a step,
with foreign keys and cascades. `Members` and `Invitations` each hold these
variables, and each is shown to implement `Household` (`ImplementsHousehold`):
none of their many statements, checked early and written late, does to these
tables anything else. `Household` asks nothing about who may call what; that is
the two modules' business.

### Invitations

`household_invitations` with each row's provider scope, the accounts, and two
kinds of slots. An *errand* is an owner's request: `BeginInvite` (both
`CreateInvitation` and `CreateMember`), `BeginResend` with `RefreshForResend`,
`ReadPending`, `CancelReplaced` and `InsertInvitation`, and `BeginCancel` with
`CancelInvitation`. An *accept* opens a link (`OpenAsViewer`, `OpenAnonymously`),
looks for the account and creates it (`FindUserByEmail`, `CreateUser`), runs the
transaction (`CommitAccept`, `RollbackAccept`) and, if that answered with an
error, deletes the account it made (`DeleteUser`), which is also what follows a
commit whose reply was lost. `FailErrand` and `AbandonAccept` are a statement
that fails or a process that stops.

A row whose deadline has passed while it still says `pending` has the status
`overdue`; `Lapse` is that moment, `Expire` the sweep that settles it. The
statements that overwrite a status without looking at it are modelled as such:
an accept that was in flight commits on a link that was cancelled meanwhile, and
a cancellation overwrites `accepted`. `ManageMember` is what the routes of
Members come down to, so that removals and demotions fall between the steps of
an accept. `replaces` is history: which row a resend took the place of.

Accounts are deleted by failed accepts only. In between somebody may sign in to
such an account and accept another link as it (`OpenAsViewer` allows it); that
they then issue invitations as an owner before the deletion comes is left out,
and with it the cascade from `invited_by_user_id`.

### Setup

The row of `app_installation`, the accounts by address (with the strongest role
of each), and the attempts. The claim (`Enter`, `Begin`), the recovery of an
earlier attempt's owner (`FindUserByEmail`, `ListHouseholds`, `Finish`,
`DeleteOrphan`), the creation (`CreateUser`, `CreateHousehold`, `Complete`), and
the rollback (`Undo`, `Release`) are one step a statement. Any statement may
fail (`FailStatement`), the process may stop (`Crash`). A lost reply is modelled
where it matters (`LoseCompletion`): any other lost reply leaves what a failure
of the next statement leaves. Around it: the nightly run stamps the same row
and so renews its age (`RecordRetentionRun`), people join (`Join`), and the
operator reopens the installation as `docs/runbook.md` says (`Reopen`).

Ages stand for time stamps, capped where no comparison can tell them apart.
Account ids are taken from those not in use, so a finite set is enough.
`owner_user_id` is not a foreign key, and in the model it may name nobody.

`Spec` lets an attempt take any time. `PromptSpec` adds what the claim's TTL is
chosen for ("far longer than the flow takes"): no attempt is still at work when
its claim has grown older than the TTL. `lost` is history, for the one property
that a lost completion breaks.

### RateLimit

One client under one rule; the rows of other clients are never read. A request
reads its replica's clock (`Arrive`), which fixes its key, and counts later,
when its statement gets a connection (`Consume`; `LoseReply` when the answer is
lost, `FailHit` when it fails). The expiry is written by the first hit from the
clock's reading THEN. `Sweep` is the nightly run's, with the instant it started
at, which may be long ago. Replica clocks differ by up to `Skew` and a request
waits up to `MaxDelay`; together they fit in a window (`GenerousAssumption`),
which is what "the row's expiry is kept generous" needs. Without that
assumption TLC finds a window that admits more than the rule. `admitted` and
`counted` are history.

### SenderRules

The rules that an owner edits (`CreateSenderRule`, `UpdateSenderRule`,
`DeleteSenderRule`, `DeleteTarget` with its cascade), and any number of
classifications, each of which reads them in up to four statements:
`TryExact` for every candidate, then `TryDomain` for every candidate, then
`Judge`. Candidates are the visible From address and the envelope sender; an
address is known by the set of domains its host lies under (`LiesUnder`), a domain
by the length of its name (`Width`), which is what the SQL orders by. The routes'
lookups before a write refuse what the foreign key and the unique index would
refuse a moment later, so a write is one step. `stood` is history: the rules that
nobody touched since the first statement.

### Inbox

A reader pages through a provider's inbox, or an owner through the review queue.
Each page is a request of up to four steps: the guard reads the role (`Enter`),
`CheckAccess`, `FindProvider` and `ReadPage` are a statement each, all by the
provider's KEY. Only the cursor goes from page to page, and it is an instant:
rows that tie are in any order (ids are random). Meanwhile mail comes in with a
`received_at` in the past (`EnterList`), is released, dismissed or purged
(`Move`), providers are renamed, created and deleted (`SetLabel`, `DeleteShelf`),
and the reader's role and grants change (`SetReader`). History is `stood`, the rows
that were listed on the first page and not touched since; `shown`; `could`, the
providers that the reader could read at some moment of the request; and `rekeyed`.

### Gate

What a request passes before its handler: `ComeIn` (the same-site guard decides
without a statement, on any mixture of `Sec-Fetch-Site`, `Origin` and `Referer`
that a browser may send; `ClientIP` counts back from the right of a header whose
left end the client writes, in the first `X-Forwarded-For` line that arrives), `Session`, `RequireHousehold` with `RequireOwner`, and
`Charge`. Between these steps sessions are minted and revoked and roles change.
Seven operations stand for all: one of each tier, one that only reads, the two
handlers that are modelled (`RevokeOtherSessions`, `CreateHousehold` with its
policy, its lookup and its transaction). `Charge` counts nothing: that is
RateLimit. The truth of a request (`page`, `host`, `cookie`) and what the layers make
of it (`caller`, `role`, `client`) are separate fields; `wasLive`, `held` and
`wasHomeless` are history. In the tiers, the session comes before the rate limit;
the comment at `api/api.go:157` lists the two the other way round, `rateLimitChain`
being inside `authChain`.

### Lifecycle

Processes from boot to exit in all five dispatch modes: the advisory lock and one
migration a step, the dependencies, jobs and requests that take and give back
connections of the pool (`Query`, `GiveBack`) or hold one for ever (`Wedge`), a
signal, the scheduler's stop with its grace, the drain with its deadline, the
deferred close of the pool without one, and an orchestrator that kills. Time
passes only where a process has to wait. `Crash` may happen at any moment.

### Outgoing

One mail over one connection, with a relay that offers what it likes, refuses at
any step (`FailSend`), or says nothing (`Wait`). `clear` is what has gone over the
wire unencrypted, `accepted` whether the relay took the message.

### Parse

What a mail is taken to say. The headers are a
machine of lines added upstream; `Authentication` is what `parseAuthentication`
makes of them with Mailgun's own headers. The body is a machine that composes a
mail, part by part and word by word, then takes its text (`TextBody`: which
parts are walked, `StripHTML`, the cut at `MaxTextBodyChars`), and then runs
`ExtractVerificationCode` a piece at a time (`NextKeyword`, `ScanPiece`, `Fallback`).

A text is a sequence of words, runs of letters and digits, each with what
stands before it: that is what the regular expressions tell apart. A word has
its characters, where two letters stand for all upper-case and all lower-case
ones; a cut (`Cut`) falls between any two characters, and what is left of a word
is judged as the word that it then is: `201955` cut after four is a year. Pieces
end where `splitTokenRun` splits (`Splits`): at every separator but one between two
digits, so `123 456 7K3PQX` is one piece of three words, no pair, and the code in
it is the last word. Behind a symbol the whole run of words is passed over,
so of "#12 is 4321" nothing is tried. A part has the depth of its leaf in multiparts,
whether one of these is marked as an attachment (which `walkEntity` does not ask),
and its own disposition, which may not parse.

The properties say what is found without the machine's loop.

## Runs

| Run | Question | Instance |
| --- | --- | --- |
| `mailbox` | Is mail neither lost nor doubled, are deadlines kept, is the cap overshot only by those in flight, and is every step one of Custody's? | two scopes, see below; 700,000 states |
| `mailbox_liveness` | Does expired mail go and the recorded date catch up, although runs fail? | one Message-ID, one delivery, one reviewer, one run, two days, fairness |
| `doors` | Members: does access follow membership, is nobody admitted, is every step one of Household's? Webhook: is the guard bounded, how late is a known token taken again? Parse: does the first verdict stand, is only what is on display mined, is a code the first plausible token? | two users, one provider, two requests; three tokens, one guard of cap 2, two posts, windows 1 and 2, clock to 3; texts of four words; 650,000 states |
| `invitations` | With two accepts and an owner's request: are scopes live, names accounts, admissions on record, replaced links dead, and is every step one of Household's? | two account ids for one invited address, two invitations, one provider |
| `setup` | One attempt at a time, a locked installation with its owner, unlocked by the operator only, and does setup get through? | two addresses, three ids, two attempts, TTL 1, fairness |
| `parts` | Rate limiter, rules and classifier, listings, processes, outgoing mail, gate: fourteen properties | see below; 1,250,000 states |
| `webhook_retry`, `members_race`, `setup_reopened`, `inbox_ties`, `process_killed`, `code_cut` | Counterexamples, see [Disagreements found](#disagreements-found) | the smallest instance that shows each |

**Side by side.** `doors` and `parts` check several components in one run. These
components share no variable and no action of one reads what another writes, so
an interleaving of two shows nothing that the two alone do not. MCDoors and MCParts
therefore let a component move only while all others are in their initial states
(of Outgoing and RateLimit, which have several, in one of them): the reachable
states are those of each component alone, with the others at rest, and no
property can tell the difference. MCParts starts Outgoing from every
`SMTP_URL` and RateLimit from every distribution of clocks.

**The scopes of `mailbox`.** All of Mailbox at once is more states than a run can
take. The initial state chooses: in `intake` no retention run starts and the clock
stands still, and everything else happens with three Message-IDs, two providers
and two deliveries; in `retention` two runs overlap, and at most one
delivery is in flight, over two messages and, after a first deletion, one
provider. The proofs have no scopes.

Deadlock is checked in every run but `process_killed`, where killed containers are
not replaced before the counterexample is found.

Why these bounds are enough to be of interest, and what they bound:

- *Slots.* Two requests in flight show every race between two handlers; three
  would only repeat one of them. Slots are reused, so a behaviour holds many
  requests.
- *Mailbox.* Three Message-IDs and two deliveries overshoot a cap of one by one.
  `MaxRows` (3) bounds inserts, `MaxDay` (2) the clock; a retention of one day makes
  a row expire on the second day, and with batches of one every purge of two rows
  takes a full batch, another, and a short one.
- *Webhook.* With windows of one and two instants, both the exact boundary of
  the verification and of the replay map are reached; three tokens over a cap of
  two make the guard evict. `LastTime` bounds the clock. A second replica changes
  nothing about the first one's guard and is left to the proofs.
- *Members.* Two users suffice for access, where users do not interact.
- *Invitations.* Two account ids for one address let an account that was taken
  back be made again while the first one's accept still runs. Two invitations are
  a link and its replacement, or two links to one person. One errand runs beside
  two accepts; two errands at once are left to the proofs. `InvitedAs` is the
  member role (no property tells the roles apart) and `Managed` leaves the
  founder an owner, since with no owner no further errand begins.
- *Setup.* Two attempts make every take-over and every late rollback; two
  addresses are those before and after a reopening. `SetupClaimTTL` is 1, so an
  age is fresh, equal to, or past it.
- *RateLimit.* Windows of two instants, `MaxTime` 4, so two windows and a half; limit
  one and `MaxHits` two let one be refused; two replicas with skew and delay 1 make
  expiries fall before, on and after the sweep's instant.
- *SenderRules.* Addresses at a domain and at one below it, so a domain rule can
  be more specific than another and an exact one than both; two rules, one
  provider, one classification at a time (classifications do not interact).
- *Inbox.* Two providers and one key, so that the key can change hands; three mails
  at two instants with pages of one: a tie within a page boundary, a row between two
  pages, and a row that comes in late, below and above the cursor.
- *Lifecycle.* Two containers contend for the lock over two migrations. Grace and
  drain of one unit and a kill after two let each wait be given up, in time and
  too late. `process_killed` has the code's proportions: 10, 20 and 40 seconds.
- *Outgoing.* A dial of one unit, a conversation of three and `MaxWait` five, one more
  than both together, so that a missing deadline shows.
- *Gate.* The founder and one user; one session row and one visit with two
  households: any layer against any change. Two proxies, so that hops counted from
  either end differ, that fold what they saw into one line (`ProxiesFold`). More visits and development mode are left to the proofs.
- *Parse.* Nine words (a keyword, a short one, a mixed one that begins and ends in
  a digit, a year, the halves of a grouped code and the same code whole, one behind a
  symbol, a hidden one) with everything that may stand before a word, in texts of
  four; six wrappings that are walked, too deep, or attachments in each of the ways there
  are. `MCWithinBounds` has all texts in one part on display, and five of the words,
  three at a time, in two parts of any wrapping. Windows of 14 and texts of 20
  characters, so that both cuts fall inside words; up to two lines out of all 27.
  Parse alone, with texts of five words, passes too (11,000,000 states).

The proofs below carry every safety property to all other values.

## Fairness

- *Mailbox.* The scheduler keeps starting a run (weak fairness on `StartRun`).
  A statement may fail any number of times, but not every time it is tried
  (strong fairness on each statement of a run). A purge whose snapshot holds
  something does not lose all of it to a status change every time (strong
  fairness on a delete with victims). Nothing is assumed of the webhook, of
  reviewers, or of owners.
- *Setup.* Time passes, and an attempt that can move does. Each statement
  succeeds some time if it is tried again and again. The operator tries again
  and again, and some of these tries find the claim free or stale: with the
  nightly run at least a TTL apart from the next, such moments keep coming.
- The other modules claim safety only: nothing in them has to happen.

## Proofs

All theorems follow one pattern: an inductive invariant, a type invariant with the named
conjuncts of the table, holds initially, is kept by every action (one lemma
an action, or a group that disturbs the same parts), and implies the property. The
proofs assume only the named `ASSUME`s of the components and no bound: `MaxDay`,
`MaxRows`, `MaxTime`, `MaxHits`, `MaxParts`, `MaxWords`, `MaxLines` and `MaxWait` are
arbitrary naturals there (the last
one larger than the two timeouts together).

| Module | Theorems | The argument |
| --- | --- | --- |
| MailboxProofs | `TypeCorrect`, `OneRow`, `NoOrphan`, `ReleaseFaithful`, `OnlyExpiredPurged`, `StaysReviewed`, `OvershootBounded`, `Implements`, `AcceptedKept` | `UniqueIds` (no row id is used twice, so a release's `origin` names one row); `VictimsExpired` (what a purge has selected is expired for as long as it is a victim: rows that change drop out); `RoomInQueue` (unreviewed rows and the deliveries that counted but did not insert yet are together at most the cap and all deliveries but one). The refinement uses all of these, and `ArrivedBefore` (nothing arrives in the future): one lemma an actor. `AcceptedKept` is Custody's invariant `PromiseHeld` (each promise is backed by a mail at least as durable), proved of Custody's steps and carried over |
| WebhookProofs | `TypeCorrect`, `Bounded`, `RepeatsTakenLate` | `MemoryHeld`: what a guard remembered and did not lose is in its map until it expires, it expires no earlier than the signature does, and every reading of the clock in flight is in the past: a repeat that is taken has its reading at that expiry, or another post with a later reading has pruned the token |
| MembersProofs | `TypeCorrect`, `AccessFollows`, `NeverAdmit`, `SoloKeepsAnOwner`, `Implements` | access is disturbed by two writes and two cascades only; for the solo case, `AnotherOwner` relates what the one request has read to the owners there are; the refinement goes action by action, each check a stutter and each write a step of Household |
| InvitationsProofs | `TypeCorrect`, `Implements`, `AccessFollows`, `LinksStayLive`, `NamesStand`, `AdmissionRecorded`, `ReplacedNeverUsable` | the statements on an invitation fall into four kinds (settle, mark accepted, forget an account, drop a provider), and one lemma says what each keeps; no two accounts share an address (`users_email_unique`), and the account in an accept's hands is of the invited one; what a resend is about to write replaces a row that is settled for good. `AccessFollows` is proved of Household's steps and carried over by the refinement |
| SetupProofs | `TypeCorrect`, `LockHolds`, `ClaimIsExclusive`, `OwnerStands` | `ClaimHeld`: whoever works holds the row `in_progress` with an age that nobody can take over yet, or is rolling back a completion that stands; `OwnerFound`: whom an attempt is about to name as the owner owns a household |
| MailProofs, SenderRules | `RulesInvariant`, `StandingRulesWin`, `VisibleSenderVouched` | `RulesInv`: no rule that stood throughout covers a candidate that its pass has left behind (`Passed`), and none such beats the match that was taken. That one of several domains is the longest needs a bound on their length (`maxHostnameLength`) and well-foundedness, not that rules are finitely many |
| MailProofs, Inbox | `InboxInvariant`, `PagesLoseOnlyTies`, `OnlyReadableShown` | `Parted`: whatever was shown lies at or above the cursor, and a row that stood and was not shown lies strictly below it or ties with one that was; `Rightful`: a request that has passed its check holds the provider with the asked-for key among those its reader could read, unless the key changed hands. A page has an earliest row since mails are finitely many (`PagingAssumption`) |
| MailProofs, Outgoing | `OutInvariant`, `NothingSentInClear`, `AnsweredInTime` | `Proper`: past the upgrade the connection is encrypted or the policy does not ask for it, and every stage after the dial has a deadline within the two timeouts |
| ServerProofs, RateLimit | `CountersWellTyped`, `LimitIsKept`, `RefusalIsEarned` | `Prompt`: a request that waits has waited no longer than it may; `Counters`: a row counts at least what was admitted and expires a life after its window's start, and once it was swept, no request of its window is waiting any more |
| ServerProofs, Gate | `GateInvariant`, `EntryIsEarned`, `ForeignPagesOnlyRead`, `ChargedToWhoAsked`, `FoundersWereHomeless` | `Vetted`, what each layer has established about a request, and that history only grows (`Grown`), so that no revocation or change of role undoes it; that a session row never changes its owner; and two lemmas on the guards that read no state: `ForgingIsFruitless` (hops counted from the right are never reached by what was forged, where proxies fold into one line) and `ForeignIsRefused` |
| ServerProofs, Lifecycle | `LifeInvariant`, `WholeSchemaServed`, `CleanExitsAreClean` | `LifeInv`: who migrates holds the lock, and who came up in the default mode has the whole schema, which never shrinks; `Orderly`: when a wait of the shutdown is over, what it waited for is done or the process is marked late |
| ParseProofs | `FirstVerdictsStand`, `ParseTypes`, `ShownWordsMined`, `FirstPlausibleFound` | of the headers: appending a line leaves the first line that asserts a mechanism where it is; of the body: `Mined`, every word of the text, of the window and of the code is a word that is shown, or what a cut left of one; of the search: `PassedOver` and `Scanning`, no keyword left behind offers anything, and the window that is left is the end of the keyword's own, with nothing plausible before it |

`SoloKeepsAnOwner` is stated for a singleton set of requests and `UpgradeSpec`;
`members_race` shows that it does not hold for two. `ClaimIsExclusive` and
`OwnerStands` are about `PromptSpec`; `LockHolds` needs no promptness.

Only model-checked: the liveness properties (`ExpiredMailIsPurged`,
`RunsAreRecorded`, `SetupGetsThrough`), which rest on fairness.

*Functions over the words of a mail.* `Joined` (concatenation of lists) and `Cut`
(the running length of a text) are defined by recursion over an index. The library's
induction theorem takes an operator, which the provers cannot instantiate; `UpTo`
says the same of a set: a set of naturals that holds 0, and the successor of each
of its members below n, holds all of 0 to n. With it `JoinedFunction` and
`EndFunction` show that the recursive functions exist, and `JoinedFacts`, `CutFacts`,
`CollectedFacts` and `StripHTMLFacts` what they return for every input: words of
the lists and no others, whole or the beginning of one, all of a list if it is not empty. The
first of something (`LeastExists`) rests on well-foundedness. `PieceYields` and
`PiecePassed` then compare one step of `ScanPiece`, which skips runs and cuts
pieces, with `Begins`, which looks at a window as a whole.

The refinements: `ImplementsHousehold` of Members and of Invitations is an
`INSTANCE Household WITH` their tables, checked in `doors` and `invitations`;
`ImplementsCustody` of Mailbox is an `INSTANCE Custody WITH` its rows, checked in
`mailbox`. All three are proved for every value of the constants.

## Disagreements found

Each is a run that ends in a counterexample and an entry under `findings`.

- **A failed ingest is refused as a replay** (`webhook_retry`). The response
  table answers 500 so that Mailgun retries; the token was remembered before the
  message was stored, so the retry of the same post is refused with 401.
- **Two owners can leave a household without one** (`members_race`). Counting
  owners and removing one are two statements, and the change of a role does not
  count at all.
- **Recovery deletes a member's account** (`setup_reopened`). It takes any
  account that OWNS no household for an orphan, while the comment and the
  runbook say "no household at all".
- **A page boundary between two mails of one instant loses one** (`inbox_ties`).
  The listing orders by instant and id, "so a cursor cannot skip or repeat a row";
  the cursor carries the instant only.
- **A wedged job keeps the process until it is killed** (`process_killed`). Every
  wait of the shutdown has a deadline "so we exit on our own terms", but for the
  close of the pool, which waits for the connection that the job never returns.
- **A code across the edge of the window is cut** (`code_cut`). The window after a
  keyword ends at a character, and what is left of a number there is tried like
  any other, where the comment promises "no code rather than a confident wrong one".

More are visible in the models without a run of their own. In each the code does one
thing, a comment says another, and the property is stated of what the code does.

- **A token can be taken twice while its signature is good.** `mail/mailgun.go:45-49`
  says that `ReplayWindow` is longer than `SignatureWindow` so that "the token has to
  outlive the last moment its signature is still acceptable", and lines 129-131 that a
  request "cannot be sent twice inside the window where its signature is still
  valid". One window is exactly twice the other and both comparisons are strict
  (`mailgun.go:111` and `167`), so at the very last moment of a token that is dated a whole
  window ahead the signature verifies and the token no longer counts as seen:
  `Sign` (2) at 1, `Open`, `TakeIn` (until 3), then at 3 `Open`, `TakeIn`, with windows of 1
  and 2. Nor does the token live long enough for a repeat that read the clock in
  time (`api/inbound.go:148`) and whose body took until another post had pruned the map.
  `RepeatIsTakenOnlyLate` says that these two cases are all there is.
- **The fallback also follows keywords.** `domain/extract.go:18` falls back "without a
  keyword", lines 194-195 "when no keyword was found", and so does the migration
  reference (`docs/superpowers/plans/2026-09-04-go-migration-reference.md:258`). The code
  (`extract.go:76`) falls back whenever no keyword's window has a token: of "201955 is
  your code" the number before the only keyword is stored. `CodeIsTheFirstPlausible`
  says what the code does.
- **A part can be an attachment that the walk does not see.** `mail/parse.go:146-148`: "Parts
  marked as attachments are skipped", and "must not be mined". A leaf of an attached
  multipart is walked before that disposition is read (line 159), and one whose
  `Content-Disposition` does not parse is taken for inline (line 180).
  `OnlyShownWordsAreMined` excuses both by name.

Two further ones are about setup: a completion of
setup whose reply is lost is rolled back although it stands, and the installation
stays locked with an owner that is gone (`LoseCompletion`; `OwnerCanSignIn`
excuses it by name); and the claim is an exclusion only while attempts are
shorter than its TTL.

The last is a matter of what "stops working" means. `invite.go` says of a resend
that "the old token stops working". No accept can start with it
(`ReplacedLinkIsDead`), but one that had read the invitation before still
commits, on a row that says cancelled, and makes it accepted: the UPDATE asks for
no status. Likewise a cancellation that arrives after an accept turns its record
to cancelled, with the member in the household; the name stays on it
(`AdmissionIsOnRecord`).

## What is not modelled

- *Characters*: character sets and header decoding, the regular expressions
  themselves, the sanitising of HTML for display, the synthetic Message-ID of a mail
  that has none, which strings are slugs or host names. Parse has words.
- *Accounts, passwords, two-step verification and the routes of the auth library*:
  its state machine is not in this repository. Gate has the session rows.
- *Deleting an account that issued invitations*: only a failed accept of an owner's
  invitation could, long after somebody else signed in to the account it made.
- *How proxies write `X-Forwarded-For`*: `ClientIP` is given the first line that
  arrives and no other (`middleware.go:165`). `ChargedToTheCaller` supposes that every
  proxy folds what it saw into the line there is (`ProxiesFold`); behind one that writes a
  line of its own, the first is the client's. `README.md:271` counts proxies and says
  nothing of how they write.
- *The two statements of a release*: one step, being one transaction. A purge of
  the row between them leaves what a purge after both does.
- *What a failure at the QUIT means*: `mail/smtp.go:215` reports it as a failure of a mail
  that the relay has taken. Outgoing has that step, and the source claims nothing else.
- *The secrets of a link*: tokens, their digests and passwords; a link is its row.
- *What outgoing mail says*: templates and headers; Outgoing has one message.
- *The audit trail*: append-only, read by nobody in the server; its failures are
  logged and dropped.
- *Readiness*: compares the recorded retention date with a threshold.
- *Configuration*: read once and validated; a process that fails there has done
  nothing.
- *Validation of bodies, recovery of panics, logging, the shape of answers.*
- *Routes that only read one row or a whole table*: summaries, the lists of members,
  invitations and rules. The two that page are in Inbox.
- *Further households*: a household's tables are independent of any other's; Gate
  has several, for the guards between them.
- *Leftover households*: the household a rolled-back setup attempt leaves
  behind, which keeps its slug; in Setup a taken slug is a failing statement.
- *The web application and generated code*: the one enforces nothing that the
  server does not; of the other, the SQL that was generated from is what the modules
  translate.

## What could come next

1. **Invitations and Members composed**, in place of Members' arbitrary `Accepting`:
   an accept that demotes the last owner, and what a status guard on the two
   unguarded UPDATEs would buy.
2. **An abstract specification** of an exactly-once setup, refined by Setup under
   `PromptSpec`.
3. **The repaired designs**: Members with the count and the write in one transaction, a
   cursor of instant and id, a pool that closes with a deadline, and a replay guard
   that forgets a token whose ingest failed and remembers the others for longer than twice
   the signature's window, each shown to have the property whose
   counterexample is above.
