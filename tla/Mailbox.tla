------------------------------- MODULE Mailbox -------------------------------
(***************************************************************************)
(* One household's mail: the webhook that files or quarantines what a      *)
(* sender rule attributed, the owner's review of the quarantine, and the   *)
(* nightly retention sweep, all over the same two Postgres tables.         *)
(*                                                                         *)
(* Every action below is ONE statement (or one InTx transaction) of a      *)
(* handler. A handler that runs several statements is a slot with a        *)
(* program counter, so other handlers interleave between its statements    *)
(* exactly as they do under READ COMMITTED. What classification decides    *)
(* about a message is an arbitrary input here, since the sender rules it   *)
(* reads may change between any two deliveries.                            *)
(***************************************************************************)
EXTENDS Naturals, FiniteSets

CONSTANTS
  MessageIds,               \* Message-ID values of the mail that may arrive
  Providers,                \* providers of the household
  None,                     \* no message; no provider (quarantine, dismissal)
  Deliveries,               \* webhook requests that can be in flight at once
  Reviewers,                \* review requests that can be in flight at once
  Runs,                     \* retention runs that can overlap (one a replica)
  MaxUnreviewedQuarantine,  \* mail.MaxUnreviewedQuarantine, 200 in the code
  RetentionDays,            \* repo.RetentionDays, 30 in the code
  PurgeBatchSize,           \* repo.PurgeBatchSize, 500 in the code
  MaxDay,                   \* bound: the last day the model's clock reaches
  MaxRows                   \* bound: rows inserted over a behaviour

ASSUME NoneAssumption == None \notin Providers \cup MessageIds
ASSUME LimitAssumption ==
  /\ MaxUnreviewedQuarantine \in Nat \ {0}
  /\ RetentionDays \in Nat \ {0}
  /\ PurgeBatchSize \in Nat \ {0}
ASSUME BoundAssumption == MaxDay \in Nat /\ MaxRows \in Nat
ASSUME SlotAssumption == IsFiniteSet(Deliveries)

VARIABLES
  day,         \* the server clock, in days
  providers,   \* the providers that exist
  messages,    \* rows of "messages"
  quarantine,  \* rows of "quarantine_messages"
  nextRow,     \* the next row id (a fresh UUID in the code)
  delivery,    \* what each webhook request has read so far
  review,      \* what each review request has read so far
  run,         \* where each retention run is
  recorded,    \* app_installation.last_retention_run_at, 0 while it is null
  owed         \* history: until when a 200 to Mailgun promised each message

vars == <<day, providers, messages, quarantine, nextRow, delivery, review,
          run, recorded, owed>>

-----------------------------------------------------------------------------
(* The rows. origin is the quarantine row a released message was copied    *)
(* from, 0 for one a rule filed; the code has it only in the reason text.  *)

Message == [id: Nat, mid: MessageIds, provider: Providers, deleteAfter: Nat,
            origin: Nat]

Quarantined == [id: Nat, mid: MessageIds, deleteAfter: Nat,
                reviewed: BOOLEAN]

Idle == "idle"

NoDelivery == [pc |-> Idle, mid |-> None, provider |-> None, received |-> 0]
NoReview == [pc |-> Idle, row |-> 0, provider |-> None]
NoRun == [pc |-> Idle, now |-> 0, victims |-> {}]

DeliveryState ==
  {NoDelivery} \cup
  [pc: {"matched"}, mid: MessageIds, provider: Providers, received: Nat]
    \cup
  [pc: {"unmatched", "counted"}, mid: MessageIds, provider: {None},
   received: Nat]
ReviewState ==
  {NoReview} \cup
  [pc: {"resolved", "read"}, row: Nat, provider: Providers \cup {None}]
RunState ==
  [pc: {Idle, "messages", "purgingMessages", "quarantine",
        "purgingQuarantine", "record"},
   now: Nat, victims: SUBSET Nat]

DeleteAfter(receivedAt) == receivedAt + RetentionDays

Unreviewed == {q \in quarantine : ~q.reviewed}

HasMessage(m) == \E r \in messages : r.mid = m
HasQuarantined(m) == \E q \in quarantine : q.mid = m

Init ==
  /\ day = 1
  /\ providers = Providers
  /\ messages = {}
  /\ quarantine = {}
  /\ nextRow = 1
  /\ delivery = [d \in Deliveries |-> NoDelivery]
  /\ review = [v \in Reviewers |-> NoReview]
  /\ run = [n \in Runs |-> NoRun]
  /\ recorded = 0
  /\ owed = [m \in MessageIds |-> 0]

-----------------------------------------------------------------------------
(* The webhook, from the point where its guards let the request through.   *)

EndDelivery(d) == delivery' = [delivery EXCEPT ![d] = NoDelivery]

\* A 200 promises the message until the row that holds it may be purged.
Promise(m, until) ==
  owed' = [owed EXCEPT ![m] = IF until > owed[m] THEN until ELSE owed[m]]

\* store: Classify reads the household and its rules.
ClassifyDelivery(d) ==
  /\ delivery[d].pc = Idle
  /\ \E m \in MessageIds, p \in providers \cup {None} :
       delivery' = [delivery EXCEPT ![d] =
         [pc |-> IF p = None THEN "unmatched" ELSE "matched",
          mid |-> m, provider |-> p, received |-> day]]
  /\ UNCHANGED <<day, providers, messages, quarantine, nextRow, review, run,
                 recorded, owed>>

\* Bug: the unique index on (household, Message-ID) is gone.
InsertMessageTwice(d) ==
  /\ delivery[d].pc = "matched"
  /\ delivery[d].provider \in providers
  /\ nextRow <= MaxRows
  /\ messages' = messages \cup
       {[id |-> nextRow, mid |-> delivery[d].mid,
         provider |-> delivery[d].provider,
         deleteAfter |-> DeleteAfter(delivery[d].received), origin |-> 0]}
  /\ nextRow' = nextRow + 1
  /\ Promise(delivery[d].mid, DeleteAfter(delivery[d].received))
  /\ EndDelivery(d)
  /\ UNCHANGED <<day, providers, quarantine, review, run, recorded>>

\* InsertMessage of a Message-ID the table does not hold. The foreign key
\* refuses a provider deleted since it was matched (FailDelivery then).
InsertMessage(d) ==
  LET m == delivery[d].mid
      until == DeleteAfter(delivery[d].received)
  IN /\ delivery[d].pc = "matched"
     /\ delivery[d].provider \in providers
     /\ ~HasMessage(m)
     /\ nextRow <= MaxRows
     /\ messages' = messages \cup
          {[id |-> nextRow, mid |-> m, provider |-> delivery[d].provider,
            deleteAfter |-> until, origin |-> 0]}
     /\ nextRow' = nextRow + 1
     /\ Promise(m, until)
     /\ EndDelivery(d)
     /\ UNCHANGED <<day, providers, quarantine, review, run, recorded>>

\* Bug: ON CONFLICT DO UPDATE, which gives the row another deadline.
SwallowMessageRenewed(d) ==
  LET m == delivery[d].mid
      until == DeleteAfter(delivery[d].received)
  IN /\ delivery[d].pc = "matched"
     /\ HasMessage(m)
     /\ messages' = {IF r.mid = m THEN [r EXCEPT !.deleteAfter = until] ELSE r :
                       r \in messages}
     /\ Promise(m, until)
     /\ EndDelivery(d)
     /\ UNCHANGED <<day, providers, quarantine, nextRow, review, run, recorded>>

\* InsertMessage of a redelivery: ON CONFLICT DO NOTHING, answered 200.
SwallowMessage(d) ==
  /\ delivery[d].pc = "matched"
  /\ \E r \in messages : /\ r.mid = delivery[d].mid
                         /\ Promise(r.mid, r.deleteAfter)
  /\ EndDelivery(d)
  /\ UNCHANGED <<day, providers, messages, quarantine, nextRow, review, run,
                 recorded>>

\* Bug: > for >=.
CountQuarantineOffByOne(d) ==
  /\ delivery[d].pc = "unmatched"
  /\ IF Cardinality(Unreviewed) > MaxUnreviewedQuarantine
     THEN EndDelivery(d)
     ELSE delivery' = [delivery EXCEPT ![d].pc = "counted"]
  /\ UNCHANGED <<day, providers, messages, quarantine, nextRow, review, run,
                 recorded, owed>>

\* CountUnreviewedQuarantine, and the permanent 406 when the queue is full.
CountQuarantine(d) ==
  /\ delivery[d].pc = "unmatched"
  /\ IF Cardinality(Unreviewed) >= MaxUnreviewedQuarantine
     THEN EndDelivery(d)
     ELSE delivery' = [delivery EXCEPT ![d].pc = "counted"]
  /\ UNCHANGED <<day, providers, messages, quarantine, nextRow, review, run,
                 recorded, owed>>

\* InsertQuarantine of a Message-ID the table does not hold.
InsertQuarantine(d) ==
  LET m == delivery[d].mid
      until == DeleteAfter(delivery[d].received)
  IN /\ delivery[d].pc = "counted"
     /\ ~HasQuarantined(m)
     /\ nextRow <= MaxRows
     /\ quarantine' = quarantine \cup
          {[id |-> nextRow, mid |-> m, deleteAfter |-> until,
            reviewed |-> FALSE]}
     /\ nextRow' = nextRow + 1
     /\ Promise(m, until)
     /\ EndDelivery(d)
     /\ UNCHANGED <<day, providers, messages, review, run, recorded>>

\* Bug: ON CONFLICT DO UPDATE, which puts the row back in the queue.
SwallowQuarantinedUpsert(d) ==
  /\ delivery[d].pc = "counted"
  /\ HasQuarantined(delivery[d].mid)
  /\ quarantine' = {[q EXCEPT !.reviewed = q.reviewed /\ q.mid # delivery[d].mid] :
                      q \in quarantine}
  /\ EndDelivery(d)
  /\ UNCHANGED <<day, providers, messages, nextRow, review, run, recorded,
                 owed>>

\* InsertQuarantine of a redelivery: ON CONFLICT DO NOTHING, answered 200,
\* whether or not the row it collides with was reviewed already.
SwallowQuarantined(d) ==
  /\ delivery[d].pc = "counted"
  /\ \E q \in quarantine : /\ q.mid = delivery[d].mid
                           /\ Promise(q.mid, q.deleteAfter)
  /\ EndDelivery(d)
  /\ UNCHANGED <<day, providers, messages, quarantine, nextRow, review, run,
                 recorded>>

\* A statement fails (the database is away, the foreign key refuses): 500.
FailDelivery(d) ==
  /\ delivery[d].pc # Idle
  /\ EndDelivery(d)
  /\ UNCHANGED <<day, providers, messages, quarantine, nextRow, review, run,
                 recorded, owed>>

-----------------------------------------------------------------------------
(* The owner's review of one quarantined row.                              *)

EndReview(v) == review' = [review EXCEPT ![v] = NoReview]

\* The request names a row the needs-review queue listed; for a release the
\* provider's key is resolved first (404 when it names nothing).
ResolveReview(v) ==
  /\ review[v].pc = Idle
  /\ \E q \in Unreviewed, p \in providers \cup {None} :
       review' = [review EXCEPT ![v] =
                    [pc |-> "resolved", row |-> q.id, provider |-> p]]
  /\ UNCHANGED <<day, providers, messages, quarantine, nextRow, delivery, run,
                 recorded, owed>>

\* GetQuarantineMessage: 404 for a row that is gone or reviewed already.
ReadReview(v) ==
  /\ review[v].pc = "resolved"
  /\ IF \E q \in Unreviewed : q.id = review[v].row
     THEN review' = [review EXCEPT ![v].pc = "read"]
     ELSE EndReview(v)
  /\ UNCHANGED <<day, providers, messages, quarantine, nextRow, delivery, run,
                 recorded, owed>>

\* A purge in flight addresses row VERSIONS (ctid): a row updated after the
\* purge took its snapshot is no longer among the rows it deletes.
Outdate(row) ==
  run' = [n \in Runs |-> [run[n] EXCEPT !.victims = run[n].victims \ {row}]]

\* MarkQuarantineReviewed is addressed by id alone.
MarkReviewed(row) ==
  /\ quarantine' = {[q EXCEPT !.reviewed = q.reviewed \/ q.id = row] :
                      q \in quarantine}
  /\ Outdate(row)

\* The dismissal.
Dismiss(v) ==
  /\ review[v].pc = "read"
  /\ review[v].provider = None
  /\ MarkReviewed(review[v].row)
  /\ EndReview(v)
  /\ UNCHANGED <<day, providers, messages, nextRow, delivery, recorded, owed>>

\* Bug: the released copy gets a retention window of its own.
ReleasedAfresh(v) ==
  {[id |-> nextRow, mid |-> q.mid, provider |-> review[v].provider,
    deleteAfter |-> DeleteAfter(day), origin |-> q.id] :
     q \in {x \in quarantine : x.id = review[v].row /\ ~HasMessage(x.mid)}}

\* InsertReleasedMessage: the quarantined row as it is NOW, copied under the
\* provider with its deadline, unless the Message-ID is stored already.
Released(v) ==
  {[id |-> nextRow, mid |-> q.mid, provider |-> review[v].provider,
    deleteAfter |-> q.deleteAfter, origin |-> q.id] :
     q \in {x \in quarantine : x.id = review[v].row /\ ~HasMessage(x.mid)}}

\* The release: copy and mark, two statements of one transaction, are one step.
\* Nobody sees the copy before the commit, the marking asks for no status, and
\* the loss of the row to a purge in between (the marking then finds nothing,
\* and the copy stands) is what a purge right after the release leaves. A
\* provider deleted since it was resolved aborts it (FailReview).
Release(v) ==
  /\ review[v].pc = "read"
  /\ review[v].provider \in providers
  /\ nextRow <= MaxRows
  /\ messages' = messages \cup Released(v)
  /\ nextRow' = nextRow + 1
  /\ MarkReviewed(review[v].row)
  /\ EndReview(v)
  /\ UNCHANGED <<day, providers, delivery, recorded, owed>>

\* A statement fails or the transaction rolls back: 500, nothing written.
FailReview(v) ==
  /\ review[v].pc # Idle
  /\ EndReview(v)
  /\ UNCHANGED <<day, providers, messages, quarantine, nextRow, delivery, run,
                 recorded, owed>>

\* A member marks a stored message new, used or expired: nothing here reads
\* the status, but the update makes a new version of the row.
UpdateMessageStatus ==
  /\ \E r \in messages : Outdate(r.id)
  /\ UNCHANGED <<day, providers, messages, quarantine, nextRow, delivery,
                 review, recorded, owed>>

-----------------------------------------------------------------------------
(* The retention job.                                                      *)

\* Bugs: a sweep that runs a day ahead, and < for <= in the purge's WHERE.
ExpiredTomorrow(rows, now) == {r \in rows : r.deleteAfter <= now + 1}
ExpiredStrict(rows, now) == {r \in rows : r.deleteAfter < now}

Expired(rows, now) == {r \in rows : r.deleteAfter <= now}

\* One LIMITed subselect: a full batch of the expired rows, or all of them.
Batches(rows, now) ==
  LET ids == {r.id : r \in Expired(rows, now)}
  IN {S \in SUBSET ids : \/ Cardinality(S) = PurgeBatchSize
                         \/ S = ids /\ Cardinality(ids) < PurgeBatchSize}

Remaining(rows, victims) == {r \in rows : r.id \notin victims}
Affected(rows, victims) == Cardinality({r \in rows : r.id \in victims})

\* Bug: the run's instant is rounded up to the next midnight.
StartRunAhead(n) ==
  /\ run[n].pc = Idle
  /\ run' = [run EXCEPT ![n] = [pc |-> "messages", now |-> day + 1,
                                victims |-> {}]]
  /\ UNCHANGED <<day, providers, messages, quarantine, nextRow, delivery,
                 review, recorded, owed>>

\* The scheduler (or the worker, or an operator) starts a run.
StartRun(n) ==
  /\ run[n].pc = Idle
  /\ run' = [run EXCEPT ![n] = [pc |-> "messages", now |-> day,
                                victims |-> {}]]
  /\ UNCHANGED <<day, providers, messages, quarantine, nextRow, delivery,
                 review, recorded, owed>>

\* One purge statement takes its snapshot (a concurrent run's victims are
\* still in it) ...
SelectBatch(n, from, table, to) ==
  /\ run[n].pc = from
  /\ \E S \in Batches(table, run[n].now) :
       run' = [run EXCEPT ![n].victims = S, ![n].pc = to]
  /\ UNCHANGED <<day, providers, messages, quarantine, nextRow, delivery,
                 review, recorded, owed>>

SelectMessages(n) ==
  SelectBatch(n, "messages", messages, "purgingMessages")
SelectQuarantine(n) ==
  SelectBatch(n, "quarantine", quarantine, "purgingQuarantine")

\* ... and deletes what is left of it once it holds the row locks. A batch
\* that comes back short ends the loop over the table.
DeleteMessages(n) ==
  LET victims == run[n].victims
      full == Affected(messages, victims) = PurgeBatchSize
  IN /\ run[n].pc = "purgingMessages"
     /\ messages' = Remaining(messages, victims)
     /\ run' = [run EXCEPT ![n].victims = {},
                  ![n].pc = IF full THEN "messages" ELSE "quarantine"]
     /\ UNCHANGED <<day, providers, quarantine, nextRow, delivery, review,
                    recorded, owed>>

DeleteQuarantine(n) ==
  LET victims == run[n].victims
      full == Affected(quarantine, victims) = PurgeBatchSize
  IN /\ run[n].pc = "purgingQuarantine"
     /\ quarantine' = Remaining(quarantine, victims)
     /\ run' = [run EXCEPT ![n].victims = {},
                  ![n].pc = IF full THEN "quarantine" ELSE "record"]
     /\ UNCHANGED <<day, providers, messages, nextRow, delivery, review,
                    recorded, owed>>

\* Bug: INSERT ... ON CONFLICT DO NOTHING for the date of the last run.
RecordRunOnce(n) ==
  /\ run[n].pc = "record"
  /\ recorded' = IF recorded = 0 THEN run[n].now ELSE recorded
  /\ run' = [run EXCEPT ![n] = NoRun]
  /\ UNCHANGED <<day, providers, messages, quarantine, nextRow, delivery,
                 review, owed>>

\* RecordRetentionRun, after both tables only. (The same job expires the
\* invitations before it and sweeps the rate counters after it.)
RecordRun(n) ==
  /\ run[n].pc = "record"
  /\ recorded' = run[n].now
  /\ run' = [run EXCEPT ![n] = NoRun]
  /\ UNCHANGED <<day, providers, messages, quarantine, nextRow, delivery,
                 review, owed>>

\* A statement fails or the process stops: the run is not recorded.
FailRun(n) ==
  /\ run[n].pc # Idle
  /\ run' = [run EXCEPT ![n] = NoRun]
  /\ UNCHANGED <<day, providers, messages, quarantine, nextRow, delivery,
                 review, recorded, owed>>

-----------------------------------------------------------------------------
(* The owner's configuration, and time.                                    *)

\* DeleteProvider: its messages cascade, and with them what was promised.
DeleteProvider(p) ==
  LET gone == {r \in messages : r.provider = p}
  IN /\ p \in providers
     /\ providers' = providers \ {p}
     /\ messages' = messages \ gone
     /\ owed' = [m \in MessageIds |->
                   IF \E r \in gone : r.mid = m THEN 0 ELSE owed[m]]
     /\ UNCHANGED <<day, quarantine, nextRow, delivery, review, run, recorded>>

NextDay ==
  /\ day < MaxDay
  /\ day' = day + 1
  /\ UNCHANGED <<providers, messages, quarantine, nextRow, delivery, review,
                 run, recorded, owed>>

DeliveryStep(d) ==
  \/ ClassifyDelivery(d) \/ InsertMessage(d) \/ SwallowMessage(d)
  \/ CountQuarantine(d) \/ InsertQuarantine(d) \/ SwallowQuarantined(d)
  \/ FailDelivery(d)

ReviewStep(v) ==
  ResolveReview(v) \/ ReadReview(v) \/ Dismiss(v) \/ Release(v) \/ FailReview(v)

PurgeStep(n) ==
  \/ StartRun(n) \/ SelectMessages(n) \/ DeleteMessages(n)
  \/ SelectQuarantine(n) \/ DeleteQuarantine(n) \/ RecordRun(n)

Next ==
  \/ \E d \in Deliveries : DeliveryStep(d)
  \/ \E v \in Reviewers : ReviewStep(v)
  \/ UpdateMessageStatus
  \/ \E n \in Runs : PurgeStep(n) \/ FailRun(n)
  \/ \E p \in Providers : DeleteProvider(p)
  \/ NextDay

Spec == Init /\ [][Next]_vars

\* The scheduler keeps starting runs, and a statement that keeps being tried
\* eventually succeeds; a run may fail any number of times before that. The
\* third line of the purge: a status change does not slip in between the
\* snapshot and the delete of every purge there will ever be.
Fairness ==
  /\ WF_vars(NextDay)
  /\ \A n \in Runs :
       /\ WF_vars(StartRun(n))
       /\ SF_vars(SelectMessages(n))
       /\ SF_vars(DeleteMessages(n))
       /\ SF_vars(DeleteMessages(n) /\ run[n].victims # {})
       /\ SF_vars(SelectQuarantine(n))
       /\ SF_vars(DeleteQuarantine(n))
       /\ SF_vars(RecordRun(n))

FairSpec == Spec /\ Fairness

-----------------------------------------------------------------------------
(* What the mailbox promises.                                              *)

TypeOK ==
  /\ day \in Nat
  /\ providers \subseteq Providers
  /\ messages \subseteq Message
  /\ quarantine \subseteq Quarantined
  /\ nextRow \in Nat
  /\ delivery \in [Deliveries -> DeliveryState]
  /\ review \in [Reviewers -> ReviewState]
  /\ run \in [Runs -> RunState]
  /\ recorded \in Nat
  /\ owed \in [MessageIds -> Nat]

\* A redelivery is swallowed: however deliveries, releases and purges
\* interleave, a household never holds two inbox rows, nor two quarantine
\* rows, of one Message-ID (messages.sql: InsertMessage, InsertReleasedMessage).
OneRowPerMessageId ==
  /\ \A r, s \in messages : r.mid = s.mid => r = s
  /\ \A q, s \in quarantine : q.mid = s.mid => q = s

\* A 200 to Mailgun is kept: until its deadline the message is in the inbox
\* or in the queue, unless the owner deleted the provider holding it
\* (inbound.go: "200  stored or quarantined - the message is ours now").
AcceptedMailIsKept ==
  \A m \in MessageIds :
    owed[m] > day => HasMessage(m) \/ HasQuarantined(m)

\* A released message and its quarantine row are one decision: while both
\* exist the row is reviewed, it is the same mail, and releasing it did not
\* extend its retention (ReviewQuarantine's single transaction).
ReleaseIsFaithful ==
  \A r \in messages, q \in quarantine :
    r.origin = q.id => /\ q.reviewed
                       /\ r.mid = q.mid
                       /\ r.deleteAfter = q.deleteAfter

\* Every inbox row belongs to a provider that exists, however a deletion
\* races a delivery or a release that resolved the provider before it.
NoOrphanMessage == \A r \in messages : r.provider \in providers

\* The count-then-insert of the ingest guard lets the queue overshoot its cap
\* by the webhook requests in flight, and by no more.
QuarantineOvershootBounded ==
  Cardinality(Unreviewed) <=
    MaxUnreviewedQuarantine + Cardinality(Deliveries) - 1

\* A row that an owner has dealt with never comes back to the queue while it
\* is retained, whatever is redelivered.
ReviewedStaysReviewed ==
  [][\A q \in quarantine, x \in quarantine' :
       q.mid = x.mid /\ q.reviewed => x.reviewed]_vars

\* The retention sweep takes nothing early: a row that a purge removes has
\* reached its deadline.
OnlyExpiredMailIsPurged ==
  [][\A n \in Runs :
       DeleteMessages(n) \/ DeleteQuarantine(n) =>
         \A r \in (messages \ messages') \cup (quarantine \ quarantine') :
           r.deleteAfter <= day]_vars

\* Mail past its deadline does not stay, whether it was filed, quarantined or
\* released late, and however many runs fail on the way.
ExpiredMailIsPurged ==
  \A i \in 1..MaxRows :
    (\E r \in messages \cup quarantine : r.id = i /\ r.deleteAfter <= day)
      ~> ~\E r \in messages \cup quarantine : r.id = i

\* The date the readiness probe reads catches up with the clock, although any
\* run may fail between the two tables or before it is recorded (retention.go:
\* "recording the run comes LAST").
RunsAreRecorded == <>[](recorded = MaxDay)

\* What Custody sees of a row.
FiledMail ==
  {[mid |-> r.mid, provider |-> r.provider, until |-> r.deleteAfter] :
     r \in messages}
HeldMail ==
  {[mid |-> q.mid, until |-> q.deleteAfter, reviewed |-> q.reviewed] :
     q \in quarantine}

\* However the statements of webhook requests, reviews and purges fall across
\* each other, the household sees one step of Custody at a time: mail taken
\* once, deadlines that nothing moves, decisions taken whole, and no loss but
\* to the deadline and the owner (ON CONFLICT DO NOTHING in messages.sql; "in one
\* transaction" in messages.go, of a release).
Mail == INSTANCE Custody WITH
          Room <- MaxUnreviewedQuarantine + Cardinality(Deliveries) - 1,
          inbox <- FiledMail, held <- HeldMail

ImplementsCustody == Mail!Spec

=============================================================================
