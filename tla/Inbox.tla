-------------------------------- MODULE Inbox --------------------------------
(***************************************************************************)
(* Somebody pages through a provider's inbox, or an owner through the      *)
(* needs-review queue, while mail arrives, is released and is purged, the  *)
(* owner edits providers, and the reader's own access changes.             *)
(*                                                                         *)
(* Each page is a request of its own: the guard reads the role, the access *)
(* check, the provider lookup and the listing are a statement each, all    *)
(* three by provider KEY. Between pages only the cursor is carried, by the *)
(* client: the received_at of the last row shown.                          *)
(***************************************************************************)
EXTENDS Naturals, FiniteSets

CONSTANTS
  Shelves,    \* providers the household may ever have
  Labels,     \* provider keys
  NoLabel,    \* no provider key: the provider does not exist
  Queue,      \* the needs-review queue: a list no provider owns
  Mails,      \* rows that may ever be listed
  Nowhere,    \* not listed: yet to come, or gone
  Moments,   \* values of received_at
  PageLimit   \* rows a page, 1..200 in the code

ASSUME PlaceAssumption ==
  /\ Queue \notin Shelves \cup Labels
  /\ Nowhere \notin Shelves \cup {Queue}
  /\ NoLabel \notin Labels \cup {Queue}
ASSUME PagingAssumption ==
  /\ Moments \subseteq Nat \ {0}
  /\ PageLimit \in Nat \ {0}
  /\ IsFiniteSet(Mails)

VARIABLES
  label,    \* each provider's key
  reader,   \* the reader's role and grants
  place,    \* the list each mail is in
  arrived,  \* its received_at, 0 before it came
  walk      \* the pages asked for so far, and the request in flight

inboxVars == <<label, reader, place, arrived, walk>>

ReaderRoles == {"owner", "member", "none"}

OnShelf(s) == label[s] # NoLabel
Holder(k) == {s \in Shelves : label[s] = k}

\* The rows a listing of k is about: the messages of whichever provider has
\* that key, or the queue.
Listed(k) ==
  {m \in Mails : IF k = Queue THEN place[m] = Queue ELSE place[m] \in Holder(k)}

\* What is history: stood, the rows listed since the first page and untouched;
\* shown, the rows of every page so far; repeated, whether one came twice; could, the providers the reader could
\* read at some moment of this request; rekeyed, whether the asked-for key
\* changed hands in it; foreign, whether a page showed the mail of a provider
\* that was not in could, and no key had changed hands.
NoWalk ==
  [pc |-> "idle", want |-> Queue, role |-> "none", cursor |-> 0, stood |-> {},
   shown |-> {}, repeated |-> FALSE, could |-> {}, rekeyed |-> FALSE,
   foreign |-> FALSE]

WalkState ==
  [pc: {"idle", "entered", "allowed", "found", "between", "over"},
   want: Labels \cup {Queue}, role: ReaderRoles, cursor: Moments \cup {0},
   stood: SUBSET Mails, shown: SUBSET Mails, repeated: BOOLEAN,
   could: SUBSET Shelves, rekeyed: BOOLEAN, foreign: BOOLEAN]

InboxInit ==
  /\ label = [s \in Shelves |-> NoLabel]
  /\ reader = [role |-> "member", granted |-> {}]
  /\ place = [m \in Mails |-> Nowhere]
  /\ arrived = [m \in Mails |-> 0]
  /\ walk = NoWalk

-----------------------------------------------------------------------------
(* One page.                                                               *)

Readable(r) == IF r.role = "owner" THEN Shelves ELSE r.granted

\* RequireHousehold, and RequireOwner for the queue: the role is read once.
Enter(want) ==
  /\ reader.role # "none"
  /\ want = Queue => reader.role = "owner"
  /\ walk' = [walk EXCEPT !.pc = IF want = Queue THEN "found" ELSE "entered",
                          !.want = want, !.role = reader.role,
                          !.could = Readable(reader), !.rekeyed = FALSE]
  /\ UNCHANGED <<label, reader, place, arrived>>

FirstPage ==
  /\ walk.pc = "idle"
  /\ \E want \in Labels \cup {Queue} : Enter(want)

NextPage == walk.pc = "between" /\ Enter(walk.want)

\* Bug: any member of the household may read any provider of it.
MayReadAnything == walk.role \in {"owner", "member"}

\* mayReadProvider: an owner as the guard saw it, or a grant as it is now. The
\* grant is joined to the provider by key.
MayReadProvider ==
  \/ walk.role = "owner"
  \/ \E s \in reader.granted : label[s] = walk.want

\* 403 before 404, so a member learns nothing of providers not granted.
CheckAccess ==
  /\ walk.pc = "entered"
  /\ walk' = IF MayReadProvider THEN [walk EXCEPT !.pc = "allowed"] ELSE NoWalk
  /\ UNCHANGED <<label, reader, place, arrived>>

FindProvider ==
  /\ walk.pc = "allowed"
  /\ walk' = IF Holder(walk.want) # {} THEN [walk EXCEPT !.pc = "found"]
             ELSE NoWalk
  /\ UNCHANGED <<label, reader, place, arrived>>

OlderThanCursor(m) == walk.cursor = 0 \/ arrived[m] < walk.cursor

\* The newest PageLimit of them, or all. Ids are random UUIDs, so which of two
\* rows received at once comes first is anybody's guess.
Newest(rows) ==
  {page \in SUBSET rows :
     /\ Cardinality(page) =
          IF Cardinality(rows) > PageLimit THEN PageLimit ELSE Cardinality(rows)
     /\ \A m \in page, n \in rows \ page : arrived[m] >= arrived[n]}

\* Bug: the cursor is that of the row fetched only to see whether it is there.
CursorOfNext(page, rows) ==
  CHOOSE t \in {arrived[m] : m \in rows \ page} :
    \A n \in rows \ page : t >= arrived[n]

\* toPage: the received_at of the page's last row.
CursorOf(page, rows) ==
  CHOOSE t \in {arrived[m] : m \in page} : \A n \in page : t <= arrived[n]

Foreign(page) ==
  /\ walk.want # Queue
  /\ ~walk.rekeyed
  /\ \E m \in page : place[m] \notin walk.could

\* ListMessagesForProvider, ListQuarantine.
ReadPage ==
  LET rows == {m \in Listed(walk.want) : OlderThanCursor(m)}
  IN /\ walk.pc = "found"
     /\ \E page \in Newest(rows) :
          walk' = [walk EXCEPT
            !.pc = IF page = rows THEN "over" ELSE "between",
            !.cursor = IF page = rows THEN @ ELSE CursorOf(page, rows),
            !.stood = IF walk.cursor = 0 THEN Listed(walk.want) ELSE @,
            !.shown = @ \cup page,
            !.repeated = @ \/ page \cap walk.shown # {},
            !.could = {},
            !.rekeyed = FALSE,
            !.foreign = @ \/ Foreign(page)]
     /\ UNCHANGED <<label, reader, place, arrived>>

\* A request fails, or the reader has seen enough.
Abandon ==
  /\ walk.pc # "idle"
  /\ walk' = NoWalk
  /\ UNCHANGED <<label, reader, place, arrived>>

-----------------------------------------------------------------------------
(* What else happens meanwhile.                                            *)

InRequest == walk.pc \in {"entered", "allowed", "found"}

\* The rows of a walk that are not where they were any more.
Disturb(ms) == walk' = [walk EXCEPT !.stood = @ \ ms]

\* store: a row is inserted some time after the received_at it carries, so it
\* may come in anywhere among the rows that are there.
EnterList(m, t) ==
  /\ place[m] = Nowhere
  /\ arrived[m] = 0
  /\ \E where \in {Queue} \cup {s \in Shelves : OnShelf(s)} :
       place' = [place EXCEPT ![m] = where]
  /\ arrived' = [arrived EXCEPT ![m] = t]
  /\ UNCHANGED <<label, reader, walk>>

\* ReviewQuarantine: a release copies the row to a provider with the received_at
\* it had, a dismissal only takes it off the queue; the retention sweep.
Move(m) ==
  /\ place[m] # Nowhere
  /\ \E where \in {Nowhere} \cup {s \in Shelves : place[m] = Queue /\ OnShelf(s)} :
       place' = [place EXCEPT ![m] = where]
  /\ Disturb({m})
  /\ UNCHANGED <<label, reader, arrived>>

\* CreateProvider, UpdateProvider: no two providers have the same key, so one
\* must give a key up before another can take it.
SetLabel(s, k) ==
  /\ label[s] # k
  /\ Holder(k) = {}
  /\ label' = [label EXCEPT ![s] = k]
  /\ walk' = [walk EXCEPT
       !.stood = IF label[s] = walk.want
                 THEN {m \in @ : place[m] # s} ELSE @,
       !.rekeyed = @ \/ (InRequest /\ walk.want \in {k, label[s]})]
  /\ UNCHANGED <<reader, place, arrived>>

\* DeleteProvider: its messages and its grants cascade with it. Whatever is
\* created in its place later starts with neither.
DeleteShelf(s) ==
  /\ OnShelf(s)
  /\ label' = [label EXCEPT ![s] = NoLabel]
  /\ reader' = [reader EXCEPT !.granted = @ \ {s}]
  /\ place' = [m \in Mails |-> IF place[m] = s THEN Nowhere ELSE place[m]]
  /\ walk' = [walk EXCEPT !.stood = {m \in @ : place[m] # s},
                          !.rekeyed = @ \/ (InRequest /\ walk.want = label[s])]
  /\ UNCHANGED arrived

\* The members' routes: a role, a departure (the grants cascade), a grant.
SetReader(r) ==
  /\ r # reader
  /\ \A s \in r.granted : OnShelf(s)
  /\ r.role = "none" => r.granted = {}
  /\ reader' = r
  /\ walk' = [walk EXCEPT !.could = IF InRequest THEN @ \cup Readable(r) ELSE @]
  /\ UNCHANGED <<label, place, arrived>>

Page == FirstPage \/ NextPage \/ CheckAccess \/ FindProvider \/ ReadPage

Elsewhere ==
  \/ \E m \in Mails : Move(m) \/ \E t \in Moments : EnterList(m, t)
  \/ \E s \in Shelves : DeleteShelf(s) \/ \E k \in Labels : SetLabel(s, k)
  \/ \E r \in [role: ReaderRoles, granted: SUBSET Shelves] : SetReader(r)

InboxNext == Page \/ Abandon \/ Elsewhere

InboxSpec == InboxInit /\ [][InboxNext]_inboxVars

-----------------------------------------------------------------------------
(* What paging promises.                                                   *)

InboxTypeOK ==
  /\ label \in [Shelves -> Labels \cup {NoLabel}]
  /\ reader \in [role: ReaderRoles, granted: SUBSET Shelves]
  /\ place \in [Mails -> Shelves \cup {Queue, Nowhere}]
  /\ arrived \in [Mails -> Moments \cup {0}]
  /\ walk \in WalkState

\* No row is on two pages of a walk, and a walk that came to its end has shown
\* every row that was in the list all along, except one received at the very
\* instant at which a page was cut: though mail is inserted late, released into
\* the list and purged from it, and providers swap keys between pages.
PagedOnceButForTies ==
  /\ ~walk.repeated
  /\ walk.pc = "over" =>
       \A m \in walk.stood \ walk.shown :
         \E n \in walk.shown : arrived[n] = arrived[m]

\* messages.sql on the listing: "The id tiebreaker keeps the order total when
\* two messages share a received_at, so a cursor cannot skip or repeat a row."
NothingSkipped ==
  walk.pc = "over" /\ walk.want # Queue => walk.stood \subseteq walk.shown

\* Three statements look the provider up by its key. Unless the key changes
\* hands among them, a page shows the mail of a provider that the reader could
\* read at some moment of the request, whatever is granted, revoked or demoted.
OnlyReadableMailIsShown == ~walk.foreign

=============================================================================
