---------------------------- MODULE MailboxProofs ----------------------------
(* Mailbox, for any number of messages, providers, requests and runs. *)
EXTENDS Mailbox, FiniteSetTheorems, TLAPS

-----------------------------------------------------------------------------
(* The inductive invariant.                                                *)

\* A row id is used once, over both tables, and is below the next one.
UniqueIds ==
  /\ nextRow >= 1
  /\ \A r \in messages : 1 <= r.id /\ r.id < nextRow /\ r.origin < nextRow
  /\ \A q \in quarantine : 1 <= q.id /\ q.id < nextRow
  /\ \A r, s \in messages : r.id = s.id => r = s
  /\ \A q, s \in quarantine : q.id = s.id => q = s
  /\ \A r \in messages, q \in quarantine : r.id # q.id

\* A run works for an instant that has passed, and the rows it selected
\* have expired by then (or are gone: an id is not used again).
VictimsExpired ==
  \A n \in Runs :
    /\ run[n].now <= day
    /\ \A i \in run[n].victims :
         /\ i < nextRow
         /\ \A r \in messages : r.id = i => r.deleteAfter <= run[n].now
         /\ \A q \in quarantine : q.id = i => q.deleteAfter <= run[n].now

\* The webhook requests that found room in the queue and have not used it.
Counted == {d \in Deliveries : delivery[d].pc = "counted"}

\* Room is handed out against the rows stored, never against the others'.
RoomInQueue ==
  /\ IsFiniteSet(quarantine)
  /\ Cardinality(Unreviewed) + Cardinality(Counted) <=
       MaxUnreviewedQuarantine + Cardinality(Deliveries) - 1

Inv == TypeOK /\ UniqueIds /\ OneRowPerMessageId

-----------------------------------------------------------------------------
(* Types.                                                                  *)

LEMMA InitType == Init => TypeOK
  BY NoneAssumption
  DEF Init, TypeOK, DeliveryState, ReviewState, RunState, NoDelivery, NoReview,
      NoRun, Idle

\* What a request that has read something holds.
LEMMA DeliveryFacts ==
  ASSUME TypeOK, NEW d \in Deliveries, delivery[d].pc # Idle
  PROVE  /\ delivery[d].mid \in MessageIds
         /\ delivery[d].received \in Nat
         /\ DeleteAfter(delivery[d].received) \in Nat
         /\ delivery[d].pc = "matched" => delivery[d].provider \in Providers
         /\ delivery[d].pc = "unmatched" =>
              [delivery[d] EXCEPT !.pc = "counted"] \in DeliveryState
  BY LimitAssumption
  DEF TypeOK, DeliveryState, NoDelivery, DeleteAfter

LEMMA DeliveryType ==
  ASSUME TypeOK, NEW d \in Deliveries, DeliveryStep(d)
  PROVE  TypeOK'
<1> USE DEF TypeOK, EndDelivery, Promise
<1>0. NoDelivery \in DeliveryState
  BY DEF DeliveryState
<1>1. CASE ClassifyDelivery(d)
  BY <1>1, NoneAssumption DEF ClassifyDelivery, DeliveryState
<1>2. CASE InsertMessage(d)
  <2> DEFINE until == DeleteAfter(delivery[d].received)
  <2>1. /\ delivery[d].mid \in MessageIds
        /\ delivery[d].provider \in Providers
        /\ until \in Nat
    BY <1>2, DeliveryFacts DEF InsertMessage, Idle
  <2> HIDE DEF until
  <2>2. [id |-> nextRow, mid |-> delivery[d].mid,
         provider |-> delivery[d].provider, deleteAfter |-> until,
         origin |-> 0] \in Message
    BY <2>1 DEF Message
  <2>3. messages' \subseteq Message
    BY <1>2, <2>2 DEF InsertMessage, until
  <2> QED
    BY <1>0, <1>2, <2>1, <2>3 DEF InsertMessage, until
<1>3. CASE SwallowMessage(d)
  BY <1>0, <1>3 DEF SwallowMessage, Message
<1>4. CASE CountQuarantine(d)
  BY <1>0, <1>4, DeliveryFacts DEF CountQuarantine, Idle
<1>5. CASE InsertQuarantine(d)
  <2> DEFINE until == DeleteAfter(delivery[d].received)
  <2>1. /\ delivery[d].mid \in MessageIds
        /\ until \in Nat
    BY <1>5, DeliveryFacts DEF InsertQuarantine, Idle
  <2> HIDE DEF until
  <2>2. [id |-> nextRow, mid |-> delivery[d].mid, deleteAfter |-> until,
         reviewed |-> FALSE] \in Quarantined
    BY <2>1 DEF Quarantined
  <2>3. quarantine' \subseteq Quarantined
    BY <1>5, <2>2 DEF InsertQuarantine, until
  <2> QED
    BY <1>0, <1>5, <2>1, <2>3 DEF InsertQuarantine, until
<1>6. CASE SwallowQuarantined(d)
  BY <1>0, <1>6 DEF SwallowQuarantined, Quarantined
<1>7. CASE FailDelivery(d)
  BY <1>0, <1>7 DEF FailDelivery
<1> QED
  BY <1>1, <1>2, <1>3, <1>4, <1>5, <1>6, <1>7 DEF DeliveryStep

LEMMA ReviewFacts ==
  ASSUME TypeOK, NEW v \in Reviewers, review[v].pc # Idle
  PROVE  /\ review[v].row \in Nat
         /\ review[v].provider \in Providers \cup {None}
         /\ [review[v] EXCEPT !.pc = "read"] \in ReviewState
  BY DEF TypeOK, ReviewState, NoReview

\* Updating a row only takes it from the runs that selected it.
LEMMA OutdatedType ==
  ASSUME TypeOK, NEW row, Outdate(row)
  PROVE  /\ run' \in [Runs -> RunState]
         /\ \A n \in Runs : /\ run'[n].now = run[n].now
                            /\ run'[n].victims \subseteq run[n].victims
<1>1. \A n \in Runs :
        /\ [run[n] EXCEPT !.victims = run[n].victims \ {row}] \in RunState
        /\ run'[n] = [run[n] EXCEPT !.victims = run[n].victims \ {row}]
  BY DEF TypeOK, RunState, Outdate
<1> QED
  BY <1>1 DEF Outdate, TypeOK, RunState

\* Marking reviewed keeps everything else of every row.
LEMMA MarkedRows ==
  ASSUME TypeOK, NEW row, MarkReviewed(row)
  PROVE  /\ quarantine' \subseteq Quarantined
         /\ \A x \in quarantine' : \E q \in quarantine :
              /\ x.id = q.id /\ x.mid = q.mid
              /\ x.deleteAfter = q.deleteAfter
              /\ x.reviewed = (q.reviewed \/ q.id = row)
         /\ \A q \in quarantine : \E x \in quarantine' :
              /\ x.id = q.id /\ x.mid = q.mid
              /\ x.deleteAfter = q.deleteAfter
              /\ x.reviewed = (q.reviewed \/ q.id = row)
<1> DEFINE Mark(q) == [q EXCEPT !.reviewed = q.reviewed \/ q.id = row]
<1>1. \A q \in quarantine :
        /\ Mark(q) \in Quarantined
        /\ Mark(q).id = q.id /\ Mark(q).mid = q.mid
        /\ Mark(q).deleteAfter = q.deleteAfter
        /\ Mark(q).reviewed = (q.reviewed \/ q.id = row)
  BY DEF TypeOK, Quarantined
<1>2. quarantine' = {Mark(q) : q \in quarantine}
  BY DEF MarkReviewed
<1> HIDE DEF Mark
<1> QED
  BY <1>1, <1>2

\* The rows a release adds.
LEMMA ReleasedRows ==
  ASSUME TypeOK, NEW v \in Reviewers, review[v].provider \in Providers
  PROVE  /\ Released(v) \subseteq Message
         /\ \A r \in Released(v) : \E q \in quarantine :
              /\ q.id = review[v].row /\ ~HasMessage(q.mid)
              /\ r.id = nextRow /\ r.mid = q.mid
              /\ r.provider = review[v].provider
              /\ r.deleteAfter = q.deleteAfter /\ r.origin = q.id
  BY DEF TypeOK, Released, Message, Quarantined

LEMMA ReviewType ==
  ASSUME TypeOK, NEW v \in Reviewers, ReviewStep(v)
  PROVE  TypeOK'
<1> USE DEF TypeOK, EndReview
<1>0. NoReview \in ReviewState
  BY DEF ReviewState
<1>1. CASE ResolveReview(v)
  BY <1>1 DEF ResolveReview, ReviewState, Unreviewed, Quarantined
<1>2. CASE ReadReview(v)
  BY <1>0, <1>2, ReviewFacts DEF ReadReview, Idle
<1>3. CASE Dismiss(v)
  <2>1. quarantine' \subseteq Quarantined /\ run' \in [Runs -> RunState]
    BY <1>3, MarkedRows, OutdatedType DEF Dismiss, MarkReviewed
  <2> QED
    BY <1>0, <1>3, <2>1 DEF Dismiss
<1>4. CASE Release(v)
  <2>1. quarantine' \subseteq Quarantined /\ run' \in [Runs -> RunState]
    BY <1>4, MarkedRows, OutdatedType DEF Release, MarkReviewed
  <2>2. messages' \subseteq Message
    BY <1>4, ReleasedRows DEF Release
  <2> QED
    BY <1>0, <1>4, <2>1, <2>2 DEF Release
<1>5. CASE FailReview(v)
  BY <1>0, <1>5 DEF FailReview
<1> QED
  BY <1>1, <1>2, <1>3, <1>4, <1>5 DEF ReviewStep

LEMMA RunType ==
  ASSUME TypeOK, NEW n \in Runs, PurgeStep(n) \/ FailRun(n)
  PROVE  TypeOK'
<1> USE DEF TypeOK, RunState, NoRun, Idle, Remaining
<1>1. CASE StartRun(n)
  BY <1>1 DEF StartRun
<1>2. CASE SelectMessages(n)
  BY <1>2 DEF SelectMessages, SelectBatch, Batches, Expired, Message
<1>3. CASE DeleteMessages(n)
  BY <1>3 DEF DeleteMessages
<1>4. CASE SelectQuarantine(n)
  BY <1>4 DEF SelectQuarantine, SelectBatch, Batches, Expired, Quarantined
<1>5. CASE DeleteQuarantine(n)
  BY <1>5 DEF DeleteQuarantine
<1>6. CASE RecordRun(n)
  BY <1>6 DEF RecordRun
<1>7. CASE FailRun(n)
  BY <1>7 DEF FailRun
<1> QED
  BY <1>1, <1>2, <1>3, <1>4, <1>5, <1>6, <1>7 DEF PurgeStep

LEMMA OwnerType ==
  ASSUME TypeOK, NEW p \in Providers, DeleteProvider(p)
  PROVE  TypeOK'
  BY DEF TypeOK, DeleteProvider

LEMMA StatusType == TypeOK /\ UpdateMessageStatus => TypeOK'
  BY OutdatedType DEF TypeOK, UpdateMessageStatus

LEMMA ClockType == TypeOK /\ NextDay => TypeOK'
  BY DEF TypeOK, NextDay

LEMMA NextType == TypeOK /\ [Next]_vars => TypeOK'
<1> SUFFICES ASSUME TypeOK, [Next]_vars PROVE TypeOK'
  OBVIOUS
<1>1. CASE Next
  BY <1>1, DeliveryType, ReviewType, RunType, OwnerType, StatusType,
      ClockType
  DEF Next
<1>2. CASE UNCHANGED vars
  BY <1>2 DEF vars, TypeOK
<1> QED
  BY <1>1, <1>2

\* Every behaviour keeps the types of the state.
THEOREM TypeCorrect == Spec => []TypeOK
  BY InitType, NextType, PTL DEF Spec

-----------------------------------------------------------------------------
(* What any step may do to the two tables.                                 *)

\* x is the row q was, possibly reviewed since.
SameRow(x, q) ==
  /\ x.id = q.id /\ x.mid = q.mid /\ x.deleteAfter = q.deleteAfter
  /\ q.reviewed => x.reviewed

Kept(x) == \E q \in quarantine : SameRow(x, q)

\* A message that was copied from a quarantine row, which is now reviewed.
CopyOf(r, q) ==
  /\ r.origin = q.id /\ r.mid = q.mid /\ r.deleteAfter = q.deleteAfter
  /\ \A x \in quarantine' : x.id = q.id => x.reviewed

NewMessage(r) ==
  /\ r.id = nextRow /\ nextRow' = nextRow + 1
  /\ ~HasMessage(r.mid)
  /\ r.provider \in providers'
  /\ \A x \in quarantine' : Kept(x)
  /\ r.origin = 0 \/ \E q \in quarantine : CopyOf(r, q)

NewQuarantined(x) ==
  /\ x.id = nextRow /\ nextRow' = nextRow + 1
  /\ ~HasQuarantined(x.mid)
  /\ messages' \subseteq messages

TablesStep ==
  /\ nextRow' \in {nextRow, nextRow + 1}
  /\ \A r \in messages' : r \in messages \/ NewMessage(r)
  /\ \A r, s \in messages' : r \in messages \/ s \in messages \/ r = s
  /\ \A x \in quarantine' : Kept(x) \/ NewQuarantined(x)
  /\ \A x, y \in quarantine' : x.id = y.id => x = y

\* A step that only takes rows away, or none.
LEMMA RemovalTables ==
  ASSUME Inv, messages' \subseteq messages, quarantine' \subseteq quarantine,
         nextRow' = nextRow
  PROVE  TablesStep
  BY DEF Inv, TypeOK, UniqueIds, TablesStep, Kept, SameRow

LEMMA DeliveryTables ==
  ASSUME Inv, NEW d \in Deliveries, DeliveryStep(d)
  PROVE  TablesStep
<1>1. CASE InsertMessage(d)
  <2> DEFINE r == [id |-> nextRow, mid |-> delivery[d].mid,
                   provider |-> delivery[d].provider,
                   deleteAfter |-> DeleteAfter(delivery[d].received),
                   origin |-> 0]
  <2>1. /\ messages' = messages \cup {r}
        /\ quarantine' = quarantine /\ nextRow' = nextRow + 1
        /\ providers' = providers /\ delivery[d].provider \in providers
        /\ ~HasMessage(delivery[d].mid)
    BY <1>1 DEF InsertMessage
  <2>2. r.id = nextRow /\ r.mid = delivery[d].mid /\ r.origin = 0
          /\ r.provider = delivery[d].provider
    OBVIOUS
  <2> HIDE DEF r
  <2>3. \A x \in quarantine' : Kept(x)
    BY <2>1 DEF Kept, SameRow
  <2>4. NewMessage(r)
    BY <2>1, <2>2, <2>3 DEF NewMessage
  <2> QED
    BY <2>1, <2>3, <2>4 DEF TablesStep, Inv, UniqueIds
<1>2. CASE InsertQuarantine(d)
  <2> DEFINE x == [id |-> nextRow, mid |-> delivery[d].mid,
                   deleteAfter |-> DeleteAfter(delivery[d].received),
                   reviewed |-> FALSE]
  <2>1. /\ quarantine' = quarantine \cup {x}
        /\ messages' = messages /\ nextRow' = nextRow + 1
        /\ ~HasQuarantined(delivery[d].mid)
    BY <1>2 DEF InsertQuarantine
  <2>2. x.id = nextRow /\ x.mid = delivery[d].mid
    OBVIOUS
  <2> HIDE DEF x
  <2>3. NewQuarantined(x)
    BY <2>1, <2>2 DEF NewQuarantined
  <2>4. \A q \in quarantine : Kept(q) /\ q.id # nextRow
    BY DEF Kept, SameRow, Inv, TypeOK, UniqueIds, Quarantined
  <2> QED
    BY <2>1, <2>2, <2>3, <2>4 DEF TablesStep, Inv, UniqueIds
<1>3. CASE UNCHANGED <<messages, quarantine, nextRow>>
  BY <1>3, RemovalTables
<1> QED
  BY <1>1, <1>2, <1>3
  DEF DeliveryStep, ClassifyDelivery, SwallowMessage, CountQuarantine,
      SwallowQuarantined, FailDelivery

LEMMA MarkedTables ==
  ASSUME Inv, NEW row, MarkReviewed(row)
  PROVE  /\ \A x \in quarantine' : Kept(x) /\ (x.id = row => x.reviewed)
         /\ \A x, y \in quarantine' : x.id = y.id => x = y
<1> DEFINE Mark(q) == [q EXCEPT !.reviewed = q.reviewed \/ q.id = row]
<1>1. \A q \in quarantine :
        /\ Mark(q).id = q.id /\ Mark(q).mid = q.mid
        /\ Mark(q).deleteAfter = q.deleteAfter
        /\ Mark(q).reviewed = (q.reviewed \/ q.id = row)
  BY DEF Inv, TypeOK, Quarantined
<1>2. quarantine' = {Mark(q) : q \in quarantine}
  BY DEF MarkReviewed
<1> HIDE DEF Mark
<1>3. \A x \in quarantine' : Kept(x) /\ (x.id = row => x.reviewed)
  <2> SUFFICES ASSUME NEW q \in quarantine
               PROVE  Kept(Mark(q)) /\ (Mark(q).id = row => Mark(q).reviewed)
    BY <1>2
  <2>1. q.reviewed \/ q.id = row => Mark(q).reviewed
    BY <1>1
  <2> QED
    BY <1>1, <2>1 DEF Kept, SameRow
<1>4. \A x, y \in quarantine' : x.id = y.id => x = y
  BY <1>1, <1>2 DEF Inv, UniqueIds
<1> QED
  BY <1>3, <1>4

LEMMA ReviewTables ==
  ASSUME Inv, NEW v \in Reviewers, ReviewStep(v)
  PROVE  TablesStep
<1>1. CASE Dismiss(v)
  BY <1>1, MarkedTables DEF Dismiss, TablesStep
<1>2. CASE Release(v)
  <2>1. /\ messages' = messages \cup Released(v)
        /\ nextRow' = nextRow + 1 /\ providers' = providers
        /\ review[v].provider \in providers
        /\ MarkReviewed(review[v].row)
    BY <1>2 DEF Release
  <2>2. /\ \A x \in quarantine' :
             Kept(x) /\ (x.id = review[v].row => x.reviewed)
        /\ \A x, y \in quarantine' : x.id = y.id => x = y
    BY <2>1, MarkedTables
  <2>3. \A r \in Released(v) : \E q \in quarantine :
          /\ q.id = review[v].row /\ ~HasMessage(q.mid)
          /\ r.id = nextRow /\ r.mid = q.mid
          /\ r.provider = review[v].provider
          /\ r.deleteAfter = q.deleteAfter /\ r.origin = q.id
    BY <2>1, ReleasedRows DEF Inv, TypeOK
  <2>4. \A r \in Released(v) : NewMessage(r)
    BY <2>1, <2>2, <2>3 DEF NewMessage, CopyOf
  <2>5. \A r, s \in Released(v) : r = s
    BY DEF Released, Inv, UniqueIds
  <2> QED
    BY <2>1, <2>2, <2>4, <2>5 DEF TablesStep
<1>3. CASE UNCHANGED <<messages, quarantine, nextRow>>
  BY <1>3, RemovalTables
<1> QED
  BY <1>1, <1>2, <1>3
  DEF ReviewStep, ResolveReview, ReadReview, FailReview

LEMMA RunTables ==
  ASSUME Inv, NEW n \in Runs, PurgeStep(n) \/ FailRun(n)
  PROVE  TablesStep
<1> USE RemovalTables
<1>1. CASE DeleteMessages(n)
  BY <1>1 DEF DeleteMessages, Remaining
<1>2. CASE DeleteQuarantine(n)
  BY <1>2 DEF DeleteQuarantine, Remaining
<1>3. CASE UNCHANGED <<messages, quarantine, nextRow>>
  BY <1>3
<1> QED
  BY <1>1, <1>2, <1>3
  DEF PurgeStep, StartRun, SelectMessages, SelectQuarantine, SelectBatch,
      RecordRun, FailRun

LEMMA NextTables ==
  ASSUME Inv, [Next]_vars
  PROVE  TablesStep
<1>1. ASSUME NEW p \in Providers, DeleteProvider(p) PROVE TablesStep
  BY <1>1, RemovalTables DEF DeleteProvider
<1>2. CASE NextDay \/ UpdateMessageStatus
  BY <1>2, RemovalTables DEF NextDay, UpdateMessageStatus
<1>3. CASE UNCHANGED vars
  BY <1>3, RemovalTables DEF vars
<1> QED
  BY <1>1, <1>2, <1>3, DeliveryTables, ReviewTables, RunTables DEF Next

-----------------------------------------------------------------------------
(* One row per Message-ID.                                                 *)

LEMMA InitInv == Init => Inv
  BY InitType DEF Init, Inv, UniqueIds, OneRowPerMessageId

LEMMA NextInv == Inv /\ [Next]_vars => Inv'
<1> SUFFICES ASSUME Inv, [Next]_vars PROVE Inv'
  OBVIOUS
<1>1. TypeOK'
  BY NextType DEF Inv
<1>2. TablesStep
  BY NextTables
<1>3. UniqueIds'
  <2> USE DEF UniqueIds
  <2>0. nextRow \in Nat /\ UniqueIds /\ TypeOK
    BY DEF Inv, TypeOK
  <2>1. (nextRow >= 1)'
    BY <1>2, <2>0 DEF TablesStep
  <2>2. \A r \in messages' : 1 <= r.id /\ r.id < nextRow' /\ r.origin < nextRow'
    <3> SUFFICES ASSUME NEW r \in messages'
                 PROVE  1 <= r.id /\ r.id < nextRow' /\ r.origin < nextRow'
      OBVIOUS
    <3>1. r.id \in Nat /\ r.origin \in Nat
      BY <1>1 DEF TypeOK, Message
    <3>2. CASE r \in messages
      BY <1>2, <2>0, <3>1, <3>2 DEF TablesStep
    <3>3. CASE NewMessage(r)
      BY <2>0, <3>1, <3>3 DEF NewMessage, CopyOf
    <3> QED
      BY <1>2, <3>2, <3>3 DEF TablesStep
  <2>3. \A x \in quarantine' : 1 <= x.id /\ x.id < nextRow'
    <3> SUFFICES ASSUME NEW x \in quarantine'
                 PROVE  1 <= x.id /\ x.id < nextRow'
      OBVIOUS
    <3>1. x.id \in Nat
      BY <1>1 DEF TypeOK, Quarantined
    <3>2. CASE Kept(x)
      BY <1>2, <2>0, <3>1, <3>2 DEF TablesStep, Kept, SameRow
    <3>3. CASE NewQuarantined(x)
      BY <2>0, <3>3 DEF NewQuarantined
    <3> QED
      BY <1>2, <3>2, <3>3 DEF TablesStep
  <2>4. \A r, s \in messages' : r.id = s.id => r = s
    <3>1. \A r \in messages, s \in messages' : s \notin messages => r.id # s.id
      BY <1>2, <2>0 DEF TablesStep, NewMessage, TypeOK, Message
    <3> QED
      BY <1>2, <2>0, <3>1 DEF TablesStep
  <2>5. \A x, y \in quarantine' : x.id = y.id => x = y
    BY <1>2 DEF TablesStep
  <2>6. \A r \in messages', x \in quarantine' : r.id # x.id
    <3> SUFFICES ASSUME NEW r \in messages', NEW x \in quarantine'
                 PROVE  r.id # x.id
      OBVIOUS
    <3>1. CASE r \in messages /\ Kept(x)
      BY <2>0, <3>1 DEF Kept, SameRow
    <3>2. CASE r \in messages /\ NewQuarantined(x)
      BY <2>0, <3>2 DEF NewQuarantined, TypeOK, Message
    <3>3. CASE NewMessage(r)
      BY <2>0, <3>3 DEF NewMessage, Kept, SameRow, TypeOK, Quarantined
    <3> QED
      BY <1>2, <3>1, <3>2, <3>3 DEF TablesStep, NewQuarantined
  <2> QED
    BY <2>1, <2>2, <2>3, <2>4, <2>5, <2>6
<1>4. OneRowPerMessageId'
  <2>1. \A r, s \in messages' : r.mid = s.mid => r = s
    BY <1>2 DEF Inv, OneRowPerMessageId, TablesStep, NewMessage, HasMessage
  <2>2. \A x, y \in quarantine' : x.mid = y.mid => x = y
    <3> SUFFICES ASSUME NEW x \in quarantine', NEW y \in quarantine',
                        x.mid = y.mid
                 PROVE  x.id = y.id
      BY <1>2 DEF TablesStep
    <3>1. CASE Kept(x) /\ Kept(y)
      BY <3>1 DEF Kept, SameRow, Inv, OneRowPerMessageId
    <3>2. CASE NewQuarantined(x) /\ NewQuarantined(y)
      BY <3>2 DEF NewQuarantined
    <3>3. ~(Kept(x) /\ NewQuarantined(y)) /\ ~(Kept(y) /\ NewQuarantined(x))
      BY DEF Kept, SameRow, NewQuarantined, HasQuarantined
    <3> QED
      BY <1>2, <3>1, <3>2, <3>3 DEF TablesStep
  <2> QED
    BY <2>1, <2>2 DEF OneRowPerMessageId
<1> QED
  BY <1>1, <1>3, <1>4 DEF Inv

\* A household never holds two inbox rows, nor two quarantine rows, of one
\* Message-ID, however deliveries, reviews and purges interleave.
THEOREM OneRow == Spec => []OneRowPerMessageId
<1>1. Inv => OneRowPerMessageId
  BY DEF Inv
<1> QED
  BY <1>1, InitInv, NextInv, PTL DEF Spec

-----------------------------------------------------------------------------
(* Foreign keys and releases.                                              *)

\* An inbox row's provider exists: the insert and the release are refused
\* when it was deleted in between, and the deletion cascades.
THEOREM NoOrphan == Spec => []NoOrphanMessage
<1>1. Init => NoOrphanMessage
  BY DEF Init, NoOrphanMessage
<1>2. Inv /\ NoOrphanMessage /\ [Next]_vars => NoOrphanMessage'
  <2> SUFFICES ASSUME Inv, NoOrphanMessage, [Next]_vars
               PROVE  NoOrphanMessage'
    OBVIOUS
  <2>1. ASSUME NEW p \in Providers, DeleteProvider(p) PROVE NoOrphanMessage'
    BY <2>1 DEF DeleteProvider, NoOrphanMessage
  <2>2. CASE UNCHANGED providers
    BY <2>2, NextTables DEF TablesStep, NewMessage, NoOrphanMessage
  <2>3. ASSUME NEW d \in Deliveries, DeliveryStep(d) PROVE UNCHANGED providers
    BY <2>3
    DEF DeliveryStep, ClassifyDelivery, InsertMessage, SwallowMessage,
        CountQuarantine, InsertQuarantine, SwallowQuarantined, FailDelivery
  <2>4. ASSUME NEW v \in Reviewers, ReviewStep(v) PROVE UNCHANGED providers
    BY <2>4
    DEF ReviewStep, ResolveReview, ReadReview, Dismiss, Release, FailReview
  <2>5. ASSUME NEW n \in Runs, PurgeStep(n) \/ FailRun(n)
        PROVE  UNCHANGED providers
    BY <2>5
    DEF PurgeStep, StartRun, SelectMessages, SelectQuarantine, SelectBatch,
        DeleteMessages, DeleteQuarantine, RecordRun, FailRun
  <2>6. CASE NextDay \/ UpdateMessageStatus \/ UNCHANGED vars
    BY <2>2, <2>6 DEF NextDay, UpdateMessageStatus, vars
  <2> QED
    BY <2>1, <2>2, <2>3, <2>4, <2>5, <2>6 DEF Next
<1> QED
  BY <1>1, <1>2, InitInv, NextInv, PTL DEF Spec

\* A released message and its quarantine row are one decision, taken in one
\* transaction, and the release does not extend the mail's retention.
THEOREM ReleaseFaithful == Spec => []ReleaseIsFaithful
<1>1. Init => ReleaseIsFaithful
  BY DEF Init, ReleaseIsFaithful
<1>2. Inv /\ ReleaseIsFaithful /\ [Next]_vars => ReleaseIsFaithful'
  <2> SUFFICES ASSUME Inv, ReleaseIsFaithful, [Next]_vars,
                      NEW r \in messages', NEW x \in quarantine',
                      r.origin = x.id
               PROVE  /\ x.reviewed
                      /\ r.mid = x.mid
                      /\ r.deleteAfter = x.deleteAfter
    BY DEF ReleaseIsFaithful
  <2>1. TablesStep
    BY NextTables
  <2>2. CASE r \in messages /\ Kept(x)
    BY <2>2 DEF Kept, SameRow, ReleaseIsFaithful
  <2>3. ~(r \in messages /\ NewQuarantined(x))
    BY DEF NewQuarantined, Inv, UniqueIds, TypeOK, Message
  <2>4. CASE NewMessage(r)
    <3>1. PICK q \in quarantine : SameRow(x, q)
      BY <2>4 DEF NewMessage, Kept
    <3>2. r.origin # 0
      BY <3>1 DEF SameRow, Inv, UniqueIds, TypeOK, Quarantined
    <3>3. PICK p \in quarantine : CopyOf(r, p)
      BY <2>4, <3>2 DEF NewMessage
    <3>4. p = q
      BY <3>1, <3>3 DEF CopyOf, SameRow, Inv, UniqueIds
    <3> QED
      BY <3>1, <3>3, <3>4 DEF CopyOf, SameRow
  <2> QED
    BY <2>1, <2>2, <2>3, <2>4 DEF TablesStep, NewMessage
<1> QED
  BY <1>1, <1>2, InitInv, NextInv, PTL DEF Spec

-----------------------------------------------------------------------------
(* Retention.                                                              *)

LEMMA InitVictims == Init => VictimsExpired
  BY DEF Init, VictimsExpired, NoRun

\* Rows keep their deadline, and a new row has an id no run has selected.
LEMMA VictimsStayExpired ==
  ASSUME Inv, VictimsExpired, TablesStep, NEW n \in Runs,
         NEW i \in run[n].victims
  PROVE  /\ i < nextRow'
         /\ \A r \in messages' : r.id = i => r.deleteAfter <= run[n].now
         /\ \A q \in quarantine' : q.id = i => q.deleteAfter <= run[n].now
<1>1. i \in Nat /\ i < nextRow /\ nextRow \in Nat
  BY DEF Inv, TypeOK, RunState, VictimsExpired
<1>2. i < nextRow'
  BY <1>1 DEF TablesStep
<1>3. \A r \in messages' : r.id = i => r.deleteAfter <= run[n].now
  BY <1>1 DEF TablesStep, NewMessage, VictimsExpired
<1>4. \A q \in quarantine' : q.id = i => q.deleteAfter <= run[n].now
  BY <1>1 DEF TablesStep, NewQuarantined, Kept, SameRow, VictimsExpired
<1> QED
  BY <1>2, <1>3, <1>4

LEMMA NextVictims == Inv /\ VictimsExpired /\ [Next]_vars => VictimsExpired'
<1> SUFFICES ASSUME Inv, VictimsExpired, [Next]_vars, NEW n \in Runs
             PROVE  /\ run'[n].now <= day'
                    /\ \A i \in run'[n].victims :
                         /\ i < nextRow'
                         /\ \A r \in messages' :
                              r.id = i => r.deleteAfter <= run'[n].now
                         /\ \A q \in quarantine' :
                              q.id = i => q.deleteAfter <= run'[n].now
  BY DEF VictimsExpired
<1>1. TablesStep
  BY NextTables
<1>2. /\ day \in Nat /\ day' \in {day, day + 1} /\ run[n].now <= day
      /\ run[n].now \in Nat
  <2>1. day' \in {day, day + 1}
    BY DEF Next, NextDay, vars, DeleteProvider, UpdateMessageStatus,
           DeliveryStep, ReviewStep, PurgeStep, ClassifyDelivery, InsertMessage, SwallowMessage,
           CountQuarantine, InsertQuarantine, SwallowQuarantined,
           FailDelivery, ResolveReview, ReadReview, Dismiss, Release,
           FailReview, StartRun, SelectMessages, SelectQuarantine,
           SelectBatch, DeleteMessages, DeleteQuarantine, RecordRun, FailRun
  <2> QED
    BY <2>1 DEF Inv, TypeOK, RunState, VictimsExpired
<1>3. CASE run'[n].now = run[n].now /\ run'[n].victims \subseteq run[n].victims
  BY <1>1, <1>2, <1>3, VictimsStayExpired
<1>4. CASE run'[n].victims = {} /\ run'[n].now <= day
  <2>1. run'[n].now \in Nat
    BY NextType DEF Inv, TypeOK, RunState
  <2> QED
    BY <1>2, <1>4, <2>1
<1>5. CASE /\ UNCHANGED <<messages, quarantine, nextRow>>
           /\ run'[n].now = run[n].now
           /\ \/ \E S \in Batches(messages, run[n].now) : run'[n].victims = S
              \/ \E S \in Batches(quarantine, run[n].now) : run'[n].victims = S
  <2>1. CASE \E S \in Batches(messages, run[n].now) : run'[n].victims = S
    <3>1. \A i \in run'[n].victims : \E r \in messages :
            r.id = i /\ r.deleteAfter <= run[n].now
      BY <2>1 DEF Batches, Expired
    <3> QED
      BY <1>2, <1>5, <3>1 DEF Inv, UniqueIds
  <2>2. CASE \E S \in Batches(quarantine, run[n].now) : run'[n].victims = S
    <3>1. \A i \in run'[n].victims : \E q \in quarantine :
            q.id = i /\ q.deleteAfter <= run[n].now
      BY <2>2 DEF Batches, Expired
    <3> QED
      BY <1>2, <1>5, <3>1 DEF Inv, UniqueIds
  <2> QED
    BY <1>5, <2>1, <2>2
<1>6. ASSUME NEW o \in Runs, PurgeStep(o) \/ FailRun(o)
      PROVE  \/ /\ run'[n].now = run[n].now
                /\ run'[n].victims \subseteq run[n].victims
             \/ run'[n].victims = {} /\ run'[n].now <= day
             \/ /\ UNCHANGED <<messages, quarantine, nextRow>>
                /\ run'[n].now = run[n].now
                /\ \/ \E S \in Batches(messages, run[n].now) :
                        run'[n].victims = S
                   \/ \E S \in Batches(quarantine, run[n].now) :
                        run'[n].victims = S
  <2> USE <1>2 DEF Inv, TypeOK, RunState
  <2>1. CASE n # o
    BY <1>6, <2>1
    DEF PurgeStep, StartRun, SelectMessages, SelectQuarantine, SelectBatch,
        DeleteMessages, DeleteQuarantine, RecordRun, FailRun
  <2>2. CASE n = o /\ StartRun(o)
    BY <2>2 DEF StartRun
  <2>3. CASE n = o /\ SelectMessages(o)
    BY <2>3 DEF SelectMessages, SelectBatch
  <2>4. CASE n = o /\ SelectQuarantine(o)
    BY <2>4 DEF SelectQuarantine, SelectBatch
  <2>5. CASE n = o /\ DeleteMessages(o)
    BY <2>5 DEF DeleteMessages
  <2>6. CASE n = o /\ DeleteQuarantine(o)
    BY <2>6 DEF DeleteQuarantine
  <2>7. CASE n = o /\ (RecordRun(o) \/ FailRun(o))
    BY <2>7 DEF RecordRun, FailRun, NoRun
  <2> QED
    BY <1>6, <2>1, <2>2, <2>3, <2>4, <2>5, <2>6, <2>7 DEF PurgeStep
<1>7. (\A o \in Runs : ~(PurgeStep(o) \/ FailRun(o))) =>
        UNCHANGED run \/ \E row : Outdate(row)
  BY DEF Next, NextDay, vars, DeleteProvider, UpdateMessageStatus,
         DeliveryStep, ReviewStep, MarkReviewed, ClassifyDelivery, InsertMessage, SwallowMessage, CountQuarantine,
         InsertQuarantine, SwallowQuarantined, FailDelivery, ResolveReview,
         ReadReview, Dismiss, Release, FailReview
<1>8. ASSUME NEW row, Outdate(row)
      PROVE  run'[n].now = run[n].now /\ run'[n].victims \subseteq run[n].victims
  BY <1>8, OutdatedType DEF Inv
<1> QED
  BY <1>3, <1>4, <1>5, <1>6, <1>7, <1>8

\* The sweep takes nothing early, however runs overlap and rows come and go
\* between the snapshot and the delete.
THEOREM OnlyExpiredPurged == Spec => OnlyExpiredMailIsPurged
<1>1. ASSUME Inv, VictimsExpired, NEW n \in Runs,
             DeleteMessages(n) \/ DeleteQuarantine(n)
      PROVE  \A r \in (messages \ messages') \cup (quarantine \ quarantine') :
               r.deleteAfter <= day
  <2>1. /\ \A r \in messages \ messages' : r.id \in run[n].victims
        /\ \A q \in quarantine \ quarantine' : q.id \in run[n].victims
    BY <1>1 DEF DeleteMessages, DeleteQuarantine, Remaining
  <2>2. /\ \A r \in messages \ messages' : r.deleteAfter <= run[n].now
        /\ \A q \in quarantine \ quarantine' : q.deleteAfter <= run[n].now
    BY <1>1, <2>1 DEF VictimsExpired
  <2>3. run[n].now \in Nat /\ day \in Nat /\ run[n].now <= day
    BY <1>1 DEF Inv, TypeOK, RunState, VictimsExpired
  <2> QED
    BY <1>1, <2>2, <2>3 DEF Inv, TypeOK, Message, Quarantined
<1>2. Inv /\ VictimsExpired /\ [Next]_vars =>
        [\A n \in Runs :
           DeleteMessages(n) \/ DeleteQuarantine(n) =>
             \A r \in (messages \ messages') \cup (quarantine \ quarantine') :
               r.deleteAfter <= day]_vars
  BY <1>1
<1> QED
  BY <1>2, InitInv, NextInv, InitVictims, NextVictims, PTL
  DEF Spec, OnlyExpiredMailIsPurged

\* A row that was dealt with is not put back in the queue by a redelivery.
THEOREM StaysReviewed == Spec => ReviewedStaysReviewed
<1>1. Inv /\ [Next]_vars =>
        [\A q \in quarantine, x \in quarantine' :
           q.mid = x.mid /\ q.reviewed => x.reviewed]_vars
  <2> SUFFICES ASSUME Inv, [Next]_vars,
                      NEW q \in quarantine, NEW x \in quarantine',
                      q.mid = x.mid, q.reviewed
               PROVE  x.reviewed
    OBVIOUS
  <2>1. CASE Kept(x)
    BY <2>1 DEF Kept, SameRow, Inv, OneRowPerMessageId
  <2>2. ~NewQuarantined(x)
    BY DEF NewQuarantined, HasQuarantined
  <2> QED
    BY <2>1, <2>2, NextTables DEF TablesStep
<1> QED
  BY <1>1, InitInv, NextInv, PTL DEF Spec, ReviewedStaysReviewed

-----------------------------------------------------------------------------
(* The bounded queue.                                                      *)

LEMMA CountedFinite ==
  /\ IsFiniteSet(Counted)
  /\ Cardinality(Counted) \in Nat /\ Cardinality(Deliveries) \in Nat
  /\ Cardinality(Counted) <= Cardinality(Deliveries)
  BY SlotAssumption, FS_Subset, FS_CardinalityType DEF Counted

LEMMA UnreviewedFinite ==
  ASSUME IsFiniteSet(quarantine)
  PROVE  IsFiniteSet(Unreviewed) /\ Cardinality(Unreviewed) \in Nat
  BY FS_Subset, FS_CardinalityType DEF Unreviewed

\* A step after which the queue and the requests with room are no larger.
LEMMA ShrinkRoom ==
  ASSUME RoomInQueue, IsFiniteSet(quarantine'), Unreviewed' \subseteq Unreviewed,
         Counted' \subseteq Counted
  PROVE  RoomInQueue'
<1>1. /\ IsFiniteSet(Unreviewed) /\ Cardinality(Unreviewed) \in Nat
      /\ IsFiniteSet(Counted) /\ Cardinality(Counted) \in Nat
  BY UnreviewedFinite, CountedFinite DEF RoomInQueue
<1>2. /\ Cardinality(Unreviewed') <= Cardinality(Unreviewed)
      /\ Cardinality(Unreviewed') \in Nat
      /\ Cardinality(Counted') <= Cardinality(Counted)
      /\ Cardinality(Counted') \in Nat
  BY <1>1, FS_Subset, FS_CardinalityType
<1>3. Cardinality(Deliveries) \in Nat
  BY CountedFinite
<1> QED
  BY <1>1, <1>2, <1>3, LimitAssumption DEF RoomInQueue

LEMMA MarkedRoom ==
  ASSUME TypeOK, IsFiniteSet(quarantine), NEW row, MarkReviewed(row)
  PROVE  IsFiniteSet(quarantine') /\ Unreviewed' \subseteq Unreviewed
<1> DEFINE f == [q \in quarantine |->
                   [q EXCEPT !.reviewed = q.reviewed \/ q.id = row]]
<1>1. quarantine' = {f[q] : q \in quarantine}
  BY DEF MarkReviewed
<1>2. f \in Surjection(quarantine, quarantine')
  BY <1>1 DEF Surjection
<1>3. IsFiniteSet(quarantine')
  BY <1>2, FS_Surjection
<1>4. \A q \in quarantine : ~f[q].reviewed => ~q.reviewed /\ f[q] = q
  <2> SUFFICES ASSUME NEW q \in quarantine, ~f[q].reviewed
               PROVE  ~q.reviewed /\ f[q] = q
    OBVIOUS
  <2>1. q \in Quarantined
    BY DEF TypeOK
  <2>2. ~(q.reviewed \/ q.id = row)
    BY <2>1 DEF Quarantined
  <2>3. q.reviewed = FALSE /\ (q.reviewed \/ q.id = row) = FALSE
    BY <2>1, <2>2 DEF Quarantined
  <2>4. f[q] = [q EXCEPT !.reviewed = FALSE]
    BY <2>3
  <2>5. [q EXCEPT !.reviewed = FALSE] = q
    BY <2>1, <2>3 DEF Quarantined
  <2> QED
    BY <2>2, <2>4, <2>5
<1> HIDE DEF f
<1>5. \A x \in quarantine' : ~x.reviewed => x \in quarantine
  BY <1>1, <1>4
<1> QED
  BY <1>3, <1>5 DEF Unreviewed

LEMMA DeliveryRoom ==
  ASSUME TypeOK, RoomInQueue, NEW d \in Deliveries, DeliveryStep(d)
  PROVE  RoomInQueue'
<1>0. NoDelivery.pc # "counted"
  BY DEF NoDelivery, Idle
<1>1. CASE InsertQuarantine(d)
  <2> DEFINE x == [id |-> nextRow, mid |-> delivery[d].mid,
                   deleteAfter |-> DeleteAfter(delivery[d].received),
                   reviewed |-> FALSE]
  <2>1. quarantine' = quarantine \cup {x} /\ d \in Counted
    BY <1>1 DEF InsertQuarantine, Counted
  <2>2. Counted' = Counted \ {d}
    BY <1>0, <1>1 DEF InsertQuarantine, EndDelivery, Counted, TypeOK
  <2>3. Unreviewed' \subseteq Unreviewed \cup {x}
    BY <2>1 DEF Unreviewed
  <2> HIDE DEF x
  <2>4. /\ IsFiniteSet(Unreviewed \cup {x})
        /\ Cardinality(Unreviewed \cup {x}) <= Cardinality(Unreviewed) + 1
        /\ Cardinality(Unreviewed) \in Nat
    <3>1. IsFiniteSet(Unreviewed) /\ Cardinality(Unreviewed) \in Nat
      BY UnreviewedFinite DEF RoomInQueue
    <3>2. /\ IsFiniteSet(Unreviewed \cup {x})
          /\ Cardinality(Unreviewed \cup {x}) =
               IF x \in Unreviewed THEN Cardinality(Unreviewed)
               ELSE Cardinality(Unreviewed) + 1
      BY <3>1, FS_AddElement, Zenon
    <3> QED
      BY <3>1, <3>2
  <2>5. /\ Cardinality(Unreviewed') <= Cardinality(Unreviewed) + 1
        /\ Cardinality(Unreviewed') \in Nat
    BY <2>3, <2>4, FS_Subset, FS_CardinalityType
  <2>6. Cardinality(Counted') = Cardinality(Counted) - 1
    BY <2>1, <2>2, CountedFinite, FS_RemoveElement
  <2>7. IsFiniteSet(quarantine')
    BY <2>1, FS_AddElement DEF RoomInQueue
  <2> QED
    BY <2>4, <2>5, <2>6, <2>7, CountedFinite, LimitAssumption DEF RoomInQueue
<1>2. CASE CountQuarantine(d)
  <2>1. CASE Cardinality(Unreviewed) >= MaxUnreviewedQuarantine
    <3>1. Unreviewed' = Unreviewed /\ quarantine' = quarantine
      BY <1>2 DEF CountQuarantine, Unreviewed
    <3>2. Counted' \subseteq Counted
      BY <1>0, <1>2, <2>1 DEF CountQuarantine, EndDelivery, Counted, TypeOK
    <3> QED
      BY <3>1, <3>2, ShrinkRoom DEF RoomInQueue
  <2>2. CASE ~(Cardinality(Unreviewed) >= MaxUnreviewedQuarantine)
    <3>1. Unreviewed' = Unreviewed /\ quarantine' = quarantine
      BY <1>2 DEF CountQuarantine, Unreviewed
    <3>2. Counted' \subseteq Deliveries
      BY DEF Counted
    <3>3. Cardinality(Counted') \in Nat
            /\ Cardinality(Counted') <= Cardinality(Deliveries)
      BY <3>2, SlotAssumption, FS_Subset, FS_CardinalityType
    <3> QED
      BY <2>2, <3>1, <3>3, UnreviewedFinite, CountedFinite, LimitAssumption
      DEF RoomInQueue
  <2> QED
    BY <2>1, <2>2
<1>3. CASE ClassifyDelivery(d)
  <2>1. Unreviewed' = Unreviewed /\ quarantine' = quarantine
    BY <1>3 DEF ClassifyDelivery, Unreviewed
  <2>2. Counted' \subseteq Counted
    BY <1>3 DEF ClassifyDelivery, Counted, TypeOK
  <2> QED
    BY <2>1, <2>2, ShrinkRoom DEF RoomInQueue
<1>4. CASE UNCHANGED quarantine /\ EndDelivery(d)
  <2>1. Unreviewed' = Unreviewed /\ quarantine' = quarantine
    BY <1>4 DEF Unreviewed
  <2>2. Counted' \subseteq Counted
    BY <1>0, <1>4 DEF EndDelivery, Counted, TypeOK
  <2> QED
    BY <2>1, <2>2, ShrinkRoom DEF RoomInQueue
<1> QED
  BY <1>1, <1>2, <1>3, <1>4
  DEF DeliveryStep, InsertMessage, SwallowMessage, SwallowQuarantined,
      FailDelivery

LEMMA NextRoom == Inv /\ RoomInQueue /\ [Next]_vars => RoomInQueue'
<1> SUFFICES ASSUME TypeOK, RoomInQueue, [Next]_vars PROVE RoomInQueue'
  BY DEF Inv
<1>1. ASSUME NEW v \in Reviewers, ReviewStep(v) PROVE RoomInQueue'
  <2>1. Counted' = Counted
    BY <1>1 DEF ReviewStep, ResolveReview, ReadReview, Dismiss, Release,
                FailReview, Counted
  <2>2. CASE Dismiss(v) \/ Release(v)
    BY <2>1, <2>2, MarkedRoom, ShrinkRoom DEF Dismiss, Release, RoomInQueue
  <2>3. CASE UNCHANGED quarantine
    BY <2>1, <2>3, ShrinkRoom DEF RoomInQueue, Unreviewed
  <2> QED
    BY <1>1, <2>2, <2>3 DEF ReviewStep, ResolveReview, ReadReview, FailReview
<1>2. CASE quarantine' \subseteq quarantine /\ UNCHANGED delivery
  BY <1>2, ShrinkRoom, FS_Subset DEF RoomInQueue, Unreviewed, Counted
<1>3. ASSUME NEW n \in Runs, PurgeStep(n) \/ FailRun(n)
      PROVE  quarantine' \subseteq quarantine /\ UNCHANGED delivery
  <2>1. CASE DeleteQuarantine(n)
    BY <2>1 DEF DeleteQuarantine, Remaining
  <2> QED
    BY <1>3, <2>1
    DEF PurgeStep, StartRun, SelectMessages, SelectQuarantine, SelectBatch,
        DeleteMessages, RecordRun, FailRun
<1> QED
  BY <1>1, <1>2, <1>3, DeliveryRoom 
  DEF Next, DeleteProvider, UpdateMessageStatus, NextDay, vars

LEMMA InitRoom == Init => RoomInQueue
<1> SUFFICES ASSUME Init PROVE RoomInQueue
  OBVIOUS
<1>1. quarantine = {} /\ Unreviewed = {}
  BY DEF Init, Unreviewed
<1>2. Counted = {}
  BY DEF Init, Counted, NoDelivery, Idle
<1> QED
  BY <1>1, <1>2, FS_EmptySet, CountedFinite, LimitAssumption DEF RoomInQueue

\* The ingest guard's count-then-insert lets the queue exceed its cap by the
\* webhook requests in flight (less the one that counted), and by no more.
THEOREM OvershootBounded == Spec => []QuarantineOvershootBounded
<1>1. Init => RoomInQueue
  BY InitRoom
<1>2. RoomInQueue => QuarantineOvershootBounded
  BY UnreviewedFinite, CountedFinite, LimitAssumption
  DEF RoomInQueue, QuarantineOvershootBounded
<1> QED
  BY <1>1, <1>2, InitInv, NextInv, NextRoom, PTL DEF Spec

-----------------------------------------------------------------------------
(* Custody.                                                                *)

Filing(r) == [mid |-> r.mid, provider |-> r.provider, until |-> r.deleteAfter]
Holding(q) == [mid |-> q.mid, until |-> q.deleteAfter, reviewed |-> q.reviewed]

\* Nothing arrives in the future.
ArrivedBefore ==
  \A d \in Deliveries : delivery[d].pc # Idle => delivery[d].received <= day

LEMMA FilingFacts ==
  ASSUME Inv
  PROVE  /\ FiledMail = {Filing(r) : r \in messages}
         /\ \A r \in messages : /\ Filing(r).mid = r.mid
                                /\ Filing(r).provider = r.provider
                                /\ Filing(r).until = r.deleteAfter
         /\ \A r, s \in messages : Filing(r) = Filing(s) => r = s
         /\ \A m : Mail!Has(FiledMail, m) <=> HasMessage(m)
<1>1. FiledMail = {Filing(r) : r \in messages}
  BY DEF FiledMail, Filing
<1>2. \A r \in messages : /\ Filing(r).mid = r.mid
                          /\ Filing(r).provider = r.provider
                          /\ Filing(r).until = r.deleteAfter
  BY DEF Filing
<1>3. \A r, s \in messages : Filing(r) = Filing(s) => r = s
  BY <1>2 DEF Inv, OneRowPerMessageId
<1>4. \A m : Mail!Has(FiledMail, m) <=> HasMessage(m)
  BY <1>1, <1>2 DEF Mail!Has, HasMessage
<1> QED
  BY <1>1, <1>2, <1>3, <1>4

LEMMA HoldingFacts ==
  ASSUME Inv
  PROVE  /\ HeldMail = {Holding(q) : q \in quarantine}
         /\ \A q \in quarantine : /\ Holding(q).mid = q.mid
                                  /\ Holding(q).until = q.deleteAfter
                                  /\ Holding(q).reviewed = q.reviewed
         /\ \A q, s \in quarantine : Holding(q) = Holding(s) => q = s
         /\ \A m : Mail!Has(HeldMail, m) <=> HasQuarantined(m)
<1>1. HeldMail = {Holding(q) : q \in quarantine}
  BY DEF HeldMail, Holding
<1>2. \A q \in quarantine : /\ Holding(q).mid = q.mid
                            /\ Holding(q).until = q.deleteAfter
                            /\ Holding(q).reviewed = q.reviewed
  BY DEF Holding
<1>3. \A q, s \in quarantine : Holding(q) = Holding(s) => q = s
  BY <1>2 DEF Inv, OneRowPerMessageId
<1>4. \A m : Mail!Has(HeldMail, m) <=> HasQuarantined(m)
  BY <1>1, <1>2 DEF Mail!Has, HasQuarantined
<1> QED
  BY <1>1, <1>2, <1>3, <1>4

\* Custody counts as everybody does.
LEMMA CardinalityIsCardinality ==
  ASSUME NEW S
  PROVE  Mail!Cardinality(S) = Cardinality(S)
  BY Zenon DEF Mail!Cardinality, Cardinality

\* A request that counted and found room leaves room for its own mail.
LEMMA RoomLeft ==
  ASSUME Inv, RoomInQueue, NEW d \in Counted
  PROVE  Cardinality(Mail!Waiting) <
           MaxUnreviewedQuarantine + Cardinality(Deliveries) - 1
<1> DEFINE f == [q \in Unreviewed |-> Holding(q)]
<1>1. IsFiniteSet(Unreviewed) /\ Cardinality(Unreviewed) \in Nat
  BY UnreviewedFinite DEF RoomInQueue
<1>2. f \in Surjection(Unreviewed, Mail!Waiting)
  <2>1. Mail!Waiting = {Holding(q) : q \in Unreviewed}
    BY HoldingFacts DEF Mail!Waiting, Unreviewed
  <2> QED
    BY <2>1 DEF Surjection
<1>3. /\ IsFiniteSet(Mail!Waiting)
      /\ Cardinality(Mail!Waiting) <= Cardinality(Unreviewed)
  BY <1>1, <1>2, FS_Surjection
<1>4. Cardinality(Mail!Waiting) \in Nat
  BY <1>3, FS_CardinalityType
<1>5. Cardinality(Counted) \in Nat /\ Cardinality(Counted) > 0
  BY CountedFinite, FS_EmptySet
<1> QED
  BY <1>1, <1>3, <1>4, <1>5, CountedFinite, LimitAssumption DEF RoomInQueue

\* What a delivery does is one step of Custody or none.
LEMMA DeliveryCustody ==
  ASSUME Inv, RoomInQueue, ArrivedBefore, NEW d \in Deliveries, DeliveryStep(d)
  PROVE  [Mail!Next]_(Mail!custody)
<1> DEFINE m == delivery[d].mid
           until == DeleteAfter(delivery[d].received)
<1>1. ASSUME delivery[d].pc # Idle
      PROVE  m \in MessageIds /\ until \in Mail!Deadlines
  <2>1. m \in MessageIds /\ delivery[d].received \in Nat
    BY <1>1, DeliveryFacts DEF Inv
  <2>2. delivery[d].received <= day /\ day \in Nat
    BY <1>1 DEF ArrivedBefore, Inv, TypeOK
  <2> QED
    BY <2>1, <2>2, LimitAssumption DEF DeleteAfter, Mail!Deadlines
<1>2. CASE InsertMessage(d)
  <2> DEFINE r == [id |-> nextRow, mid |-> m,
                   provider |-> delivery[d].provider,
                   deleteAfter |-> until, origin |-> 0]
  <2>1. /\ messages' = messages \cup {r}
        /\ ~HasMessage(m) /\ delivery[d].provider \in providers
        /\ Promise(m, until) /\ UNCHANGED <<day, providers, quarantine>>
        /\ delivery[d].pc # Idle
    BY <1>2 DEF InsertMessage, Idle
  <2>2. Filing(r) = [mid |-> m, provider |-> delivery[d].provider,
                     until |-> until]
    BY DEF Filing
  <2> HIDE DEF r
  <2>3. FiledMail' = {Filing(x) : x \in messages'} /\ HeldMail' = HeldMail
    BY <2>1 DEF FiledMail, HeldMail, Filing
  <2>4. FiledMail' = FiledMail \cup {Filing(r)}
    BY <2>1, <2>3, FilingFacts
  <2>5. ~Mail!Has(FiledMail, m)
    BY <2>1, FilingFacts
  <2> HIDE DEF m, until
  <2>6. Mail!File(m, delivery[d].provider, until)
    BY <2>1, <2>2, <2>3, <2>4, <2>5 DEF Mail!File, Mail!Promise, Promise
  <2>7. delivery[d].provider \in Providers
    BY <2>1 DEF Inv, TypeOK
  <2> QED
    BY <1>1, <2>1, <2>6, <2>7 DEF Mail!Next, Mail!Take
<1>3. CASE InsertQuarantine(d)
  <2> DEFINE q == [id |-> nextRow, mid |-> m, deleteAfter |-> until,
                   reviewed |-> FALSE]
  <2>1. /\ quarantine' = quarantine \cup {q}
        /\ ~HasQuarantined(m)
        /\ Promise(m, until) /\ UNCHANGED <<day, providers, messages>>
        /\ delivery[d].pc # Idle /\ d \in Counted
    BY <1>3 DEF InsertQuarantine, Idle, Counted
  <2>2. Holding(q) = [mid |-> m, until |-> until, reviewed |-> FALSE]
    BY DEF Holding
  <2> HIDE DEF q
  <2>3. HeldMail' = {Holding(x) : x \in quarantine'} /\ FiledMail' = FiledMail
    BY <2>1 DEF FiledMail, HeldMail, Holding
  <2>4. HeldMail' = HeldMail \cup {Holding(q)}
    BY <2>1, <2>3, HoldingFacts
  <2>5. ~Mail!Has(HeldMail, m)
    BY <2>1, HoldingFacts
  <2>6. Cardinality(Mail!Waiting) <
          MaxUnreviewedQuarantine + Cardinality(Deliveries) - 1
    BY <2>1, RoomLeft
  <2> HIDE DEF m, until
  <2>7. Mail!Hold(m, until)
    BY <2>1, <2>2, <2>3, <2>4, <2>5, <2>6, CardinalityIsCardinality
    DEF Mail!Hold, Mail!Promise, Promise
  <2> QED
    BY <1>1, <2>1, <2>7 DEF Mail!Next, Mail!Take
<1>4. CASE SwallowMessage(d)
  <2>1. PICK r \in messages : r.mid = m /\ Promise(r.mid, r.deleteAfter)
    BY <1>4 DEF SwallowMessage
  <2>2. /\ UNCHANGED <<day, providers, messages, quarantine>>
        /\ FiledMail' = FiledMail /\ HeldMail' = HeldMail
    BY <1>4 DEF SwallowMessage, FiledMail, HeldMail
  <2>3. Filing(r) \in FiledMail
    BY FilingFacts
  <2>4. Mail!Redeliver(Filing(r))
    BY <2>1, <2>2, <2>3, FilingFacts DEF Mail!Redeliver, Mail!Promise, Promise
  <2> QED
    BY <2>3, <2>4 DEF Mail!Next
<1>5. CASE SwallowQuarantined(d)
  <2>1. PICK q \in quarantine : q.mid = m /\ Promise(q.mid, q.deleteAfter)
    BY <1>5 DEF SwallowQuarantined
  <2>2. /\ UNCHANGED <<day, providers, messages, quarantine>>
        /\ FiledMail' = FiledMail /\ HeldMail' = HeldMail
    BY <1>5 DEF SwallowQuarantined, FiledMail, HeldMail
  <2>3. Holding(q) \in HeldMail
    BY HoldingFacts
  <2>4. Mail!Redeliver(Holding(q))
    BY <2>1, <2>2, <2>3, HoldingFacts DEF Mail!Redeliver, Mail!Promise, Promise
  <2> QED
    BY <2>3, <2>4 DEF Mail!Next
<1>6. CASE UNCHANGED <<day, providers, messages, quarantine, owed>>
  BY <1>6 DEF Mail!custody, FiledMail, HeldMail
<1> QED
  BY <1>2, <1>3, <1>4, <1>5, <1>6
  DEF DeliveryStep, ClassifyDelivery, CountQuarantine, FailDelivery

\* Marking a row is a decision on the mail it holds, if it is still there.
LEMMA MarkedCustody ==
  ASSUME Inv, NEW row, MarkReviewed(row)
  PROVE  \/ /\ HeldMail' = HeldMail
            /\ ~\E q \in quarantine : q.id = row
         \/ \E q \in quarantine :
              /\ q.id = row
              /\ HeldMail' = (HeldMail \ {Holding(q)})
                               \cup {[Holding(q) EXCEPT !.reviewed = TRUE]}
<1> DEFINE Mark(q) == [q EXCEPT !.reviewed = q.reviewed \/ q.id = row]
<1>1. HeldMail' = {Holding(x) : x \in quarantine'}
  BY DEF HeldMail, Holding
<1>2. quarantine' = {Mark(q) : q \in quarantine}
  BY DEF MarkReviewed
<1>3. HeldMail' = {Holding(Mark(q)) : q \in quarantine}
  BY <1>1, <1>2
<1>4. \A q \in quarantine :
        Holding(Mark(q)) = IF q.id = row
                           THEN [Holding(q) EXCEPT !.reviewed = TRUE]
                           ELSE Holding(q)
  <2> SUFFICES ASSUME NEW q \in quarantine
               PROVE  Holding(Mark(q)) =
                        IF q.id = row
                        THEN [Holding(q) EXCEPT !.reviewed = TRUE]
                        ELSE Holding(q)
    OBVIOUS
  <2>1. q \in Quarantined
    BY DEF Inv, TypeOK
  <2>2. /\ Mark(q).mid = q.mid /\ Mark(q).deleteAfter = q.deleteAfter
        /\ Mark(q).reviewed = (q.reviewed \/ q.id = row)
        /\ q.reviewed \in BOOLEAN
    BY <2>1 DEF Quarantined
  <2>3. q.id = row => Mark(q).reviewed = TRUE
    BY <2>2
  <2>4. q.id # row => Mark(q).reviewed = q.reviewed
    BY <2>2
  <2> HIDE DEF Mark
  <2> QED
    BY <2>2, <2>3, <2>4 DEF Holding
<1> HIDE DEF Mark
<1>5. CASE ~\E q \in quarantine : q.id = row
  BY <1>3, <1>4, <1>5, HoldingFacts
<1>6. CASE \E q \in quarantine : q.id = row
  <2>1. PICK q \in quarantine : q.id = row
    BY <1>6
  <2>2. \A x \in quarantine : x.id = row <=> x = q
    BY <2>1 DEF Inv, UniqueIds
  <2>3. \A x \in quarantine : x # q => Holding(x) # Holding(q)
    BY <2>1, HoldingFacts
  <2>4. HeldMail = {Holding(x) : x \in quarantine}
    BY HoldingFacts
  <2> DEFINE decided == [Holding(q) EXCEPT !.reviewed = TRUE]
  <2>5. \A x \in quarantine :
          Holding(Mark(x)) = IF x = q THEN decided ELSE Holding(x)
    BY <1>4, <2>1, <2>2
  <2> HIDE DEF decided
  <2>6. HeldMail' = (HeldMail \ {Holding(q)}) \cup {decided}
    BY <1>3, <2>1, <2>3, <2>4, <2>5
  <2> QED
    BY <2>1, <2>6 DEF decided
<1> QED
  BY <1>5, <1>6

LEMMA ReviewCustody ==
  ASSUME Inv, NEW v \in Reviewers, ReviewStep(v)
  PROVE  [Mail!Next]_(Mail!custody)
<1> DEFINE row == review[v].row
<1>1. CASE UNCHANGED <<messages, quarantine>>
  <2>1. UNCHANGED <<day, providers, owed>>
    BY DEF ReviewStep, ResolveReview, ReadReview, Dismiss, Release, FailReview
  <2> QED
    BY <1>1, <2>1 DEF Mail!custody, FiledMail, HeldMail
<1>2. CASE Dismiss(v)
  <2>1. MarkReviewed(row) /\ UNCHANGED <<day, providers, messages, owed>>
    BY <1>2 DEF Dismiss
  <2>2. FiledMail' = FiledMail
    BY <2>1 DEF FiledMail
  <2> HIDE DEF row
  <2>3. CASE HeldMail' = HeldMail
    BY <2>1, <2>2, <2>3 DEF Mail!custody
  <2>4. CASE HeldMail' # HeldMail
    <3>1. PICK q \in quarantine :
            HeldMail' = (HeldMail \ {Holding(q)})
                          \cup {[Holding(q) EXCEPT !.reviewed = TRUE]}
      BY <2>1, <2>4, MarkedCustody
    <3>2. Holding(q) \in HeldMail
      BY HoldingFacts
    <3>3. Mail!Decide(Holding(q))
      BY <2>1, <2>2, <3>1, <3>2 DEF Mail!Decide
    <3> QED
      BY <3>2, <3>3 DEF Mail!Next
  <2> QED
    BY <2>3, <2>4
<1>3. CASE Release(v)
  <2>1. /\ MarkReviewed(row) /\ messages' = messages \cup Released(v)
        /\ review[v].provider \in providers
        /\ UNCHANGED <<day, providers, owed>>
    BY <1>3 DEF Release
  <2>2. \A r \in Released(v) : \E q \in quarantine :
          /\ q.id = row /\ ~HasMessage(q.mid)
          /\ Filing(r) = Mail!Copy(Holding(q), review[v].provider)
    <3> SUFFICES ASSUME NEW r \in Released(v)
                 PROVE  \E q \in quarantine :
                          /\ q.id = row /\ ~HasMessage(q.mid)
                          /\ Filing(r) = Mail!Copy(Holding(q), review[v].provider)
      OBVIOUS
    <3>1. PICK q \in quarantine :
            /\ q.id = row /\ ~HasMessage(q.mid)
            /\ r.mid = q.mid /\ r.provider = review[v].provider
            /\ r.deleteAfter = q.deleteAfter
      BY <2>1, ReleasedRows DEF Inv, TypeOK
    <3>2. Filing(r) = Mail!Copy(Holding(q), review[v].provider)
      BY <3>1, HoldingFacts DEF Filing, Mail!Copy
    <3> QED
      BY <3>1, <3>2
  <2>3. FiledMail' = FiledMail \cup {Filing(r) : r \in Released(v)}
    <3>1. FiledMail' = {Filing(r) : r \in messages'}
      BY DEF FiledMail, Filing
    <3> QED
      BY <2>1, <3>1, FilingFacts
  <2> HIDE DEF row
  <2>4. CASE ~\E q \in quarantine : q.id = row
    <3>1. HeldMail' = HeldMail
      BY <2>1, <2>4, MarkedCustody
    <3>2. FiledMail' = FiledMail
      BY <2>2, <2>3, <2>4
    <3> QED
      BY <2>1, <3>1, <3>2 DEF Mail!custody
  <2>5. CASE \E q \in quarantine : q.id = row
    <3>1. PICK q \in quarantine :
            /\ q.id = row
            /\ HeldMail' = (HeldMail \ {Holding(q)})
                             \cup {[Holding(q) EXCEPT !.reviewed = TRUE]}
      BY <2>1, <2>5, MarkedCustody
    <3>2. \A x \in quarantine : x.id = row => x = q
      BY <3>1 DEF Inv, UniqueIds
    <3>3. Holding(q) \in HeldMail
      BY HoldingFacts
    <3>4. \/ FiledMail' = FiledMail
          \/ /\ ~Mail!Has(FiledMail, Holding(q).mid)
             /\ FiledMail' = FiledMail
                  \cup {Mail!Copy(Holding(q), review[v].provider)}
      <4>1. CASE Released(v) = {}
        BY <2>3, <4>1
      <4>2. CASE Released(v) # {}
        <5>1. \A r \in Released(v) :
                /\ ~HasMessage(q.mid)
                /\ Filing(r) = Mail!Copy(Holding(q), review[v].provider)
          BY <2>2, <3>2
        <5>2. ~Mail!Has(FiledMail, Holding(q).mid)
          BY <4>2, <5>1, FilingFacts, HoldingFacts
        <5> QED
          BY <2>3, <4>2, <5>1, <5>2
      <4> QED
        BY <4>1, <4>2
    <3>5. Mail!Decide(Holding(q))
      BY <2>1, <3>1, <3>3, <3>4 DEF Mail!Decide
    <3> QED
      BY <3>3, <3>5 DEF Mail!Next
  <2> QED
    BY <2>4, <2>5
<1> QED
  BY <1>1, <1>2, <1>3 DEF ReviewStep, ResolveReview, ReadReview, FailReview

\* A batch that a run deletes has expired, row for row.
LEMMA RunCustody ==
  ASSUME Inv, VictimsExpired, NEW n \in Runs, PurgeStep(n) \/ FailRun(n)
  PROVE  [Mail!Next]_(Mail!custody)
<1> DEFINE victims == run[n].victims
<1>1. UNCHANGED <<day, providers, owed>>
  BY DEF PurgeStep, StartRun, SelectMessages, SelectQuarantine, SelectBatch,
         DeleteMessages, DeleteQuarantine, RecordRun, FailRun
<1>2. /\ \A r \in messages : r.id \in victims => r.deleteAfter <= day
      /\ \A q \in quarantine : q.id \in victims => q.deleteAfter <= day
  <2>1. run[n].now \in Nat /\ day \in Nat /\ run[n].now <= day
    BY DEF Inv, TypeOK, RunState, VictimsExpired
  <2>2. /\ \A r \in messages : r.deleteAfter \in Nat
        /\ \A q \in quarantine : q.deleteAfter \in Nat
    BY DEF Inv, TypeOK, Message, Quarantined
  <2>3. /\ \A r \in messages : r.id \in victims => r.deleteAfter <= run[n].now
        /\ \A q \in quarantine : q.id \in victims => q.deleteAfter <= run[n].now
    BY DEF VictimsExpired
  <2> QED
    BY <2>1, <2>2, <2>3
<1> HIDE DEF victims
<1>3. CASE DeleteMessages(n)
  <2> DEFINE gone == {Filing(r) : r \in {r \in messages : r.id \in victims}}
  <2>1. /\ messages' = {r \in messages : r.id \notin victims}
        /\ quarantine' = quarantine
    BY <1>3 DEF DeleteMessages, Remaining, victims
  <2>2. FiledMail' = {Filing(r) : r \in messages'} /\ HeldMail' = HeldMail
    BY <2>1 DEF FiledMail, HeldMail, Filing
  <2>3. FiledMail' = FiledMail \ gone
    BY <2>1, <2>2, FilingFacts
  <2>4. gone \subseteq Mail!Expired(FiledMail)
    BY <1>2, FilingFacts DEF Mail!Expired
  <2> HIDE DEF gone
  <2>5. Mail!PurgeInbox(gone)
    BY <1>1, <2>2, <2>3, <2>4 DEF Mail!PurgeInbox
  <2> QED
    BY <2>4, <2>5 DEF Mail!Next
<1>4. CASE DeleteQuarantine(n)
  <2> DEFINE gone == {Holding(q) : q \in {q \in quarantine : q.id \in victims}}
  <2>1. /\ quarantine' = {q \in quarantine : q.id \notin victims}
        /\ messages' = messages
    BY <1>4 DEF DeleteQuarantine, Remaining, victims
  <2>2. HeldMail' = {Holding(q) : q \in quarantine'} /\ FiledMail' = FiledMail
    BY <2>1 DEF FiledMail, HeldMail, Holding
  <2>3. HeldMail' = HeldMail \ gone
    BY <2>1, <2>2, HoldingFacts
  <2>4. gone \subseteq Mail!Expired(HeldMail)
    BY <1>2, HoldingFacts DEF Mail!Expired
  <2> HIDE DEF gone
  <2>5. Mail!PurgeHeld(gone)
    BY <1>1, <2>2, <2>3, <2>4 DEF Mail!PurgeHeld
  <2> QED
    BY <2>4, <2>5 DEF Mail!Next
<1>5. CASE UNCHANGED <<messages, quarantine>>
  BY <1>1, <1>5 DEF Mail!custody, FiledMail, HeldMail
<1> QED
  BY <1>3, <1>4, <1>5
  DEF PurgeStep, StartRun, SelectMessages, SelectQuarantine, SelectBatch,
      RecordRun, FailRun

LEMMA OwnerCustody ==
  ASSUME Inv, NEW p \in Providers, DeleteProvider(p)
  PROVE  Mail!Next
<1> DEFINE rows == {r \in messages : r.provider = p}
           gone == {e \in FiledMail : e.provider = p}
<1>1. /\ p \in providers /\ providers' = providers \ {p}
      /\ messages' = messages \ rows
      /\ owed' = [m \in MessageIds |->
                    IF \E r \in rows : r.mid = m THEN 0 ELSE owed[m]]
      /\ UNCHANGED <<day, quarantine>>
  BY DEF DeleteProvider
<1>2. gone = {Filing(r) : r \in rows}
  BY FilingFacts
<1>3. FiledMail' = {Filing(r) : r \in messages'} /\ HeldMail' = HeldMail
  BY <1>1 DEF FiledMail, HeldMail, Filing
<1>4. FiledMail' = FiledMail \ gone
  BY <1>1, <1>3, FilingFacts
<1>5. \A m : Mail!Has(gone, m) <=> \E r \in rows : r.mid = m
  BY <1>2, FilingFacts DEF Mail!Has
<1>6. owed' = [m \in MessageIds |-> IF Mail!Has(gone, m) THEN 0 ELSE owed[m]]
  BY <1>1, <1>5
<1>7. Mail!DropProvider(p)
  BY <1>1, <1>3, <1>4, <1>6 DEF Mail!DropProvider
<1> QED
  BY <1>7 DEF Mail!Next

LEMMA NextArrived ==
  Inv /\ ArrivedBefore /\ [Next]_vars => ArrivedBefore'
<1> SUFFICES ASSUME Inv, ArrivedBefore, [Next]_vars,
                    NEW d \in Deliveries, delivery'[d].pc # Idle
             PROVE  delivery'[d].received <= day'
  BY DEF ArrivedBefore
<1>1. /\ day \in Nat
      /\ delivery \in [Deliveries -> DeliveryState]
      /\ \/ day' = day
         \/ day' = day + 1 /\ delivery' = delivery
  BY DEF Inv, TypeOK, Next, NextDay, vars, DeleteProvider, UpdateMessageStatus,
         DeliveryStep, ReviewStep, PurgeStep, ClassifyDelivery, InsertMessage,
         SwallowMessage, CountQuarantine, InsertQuarantine, SwallowQuarantined,
         FailDelivery, ResolveReview, ReadReview, Dismiss, Release,
         FailReview, StartRun, SelectMessages, SelectQuarantine,
         SelectBatch, DeleteMessages, DeleteQuarantine, RecordRun, FailRun
<1>2. CASE delivery'[d].received = day /\ day' = day
  BY <1>1, <1>2
<1>3. CASE delivery[d].pc # Idle /\ delivery'[d].received = delivery[d].received
  <2>1. delivery[d].received <= day /\ delivery[d].received \in Nat
    BY <1>3, DeliveryFacts DEF ArrivedBefore, Inv
  <2> QED
    BY <1>1, <1>3, <2>1
<1>4. ASSUME NEW o \in Deliveries, DeliveryStep(o)
      PROVE  \/ delivery'[d].received = day /\ day' = day
             \/ /\ delivery[d].pc # Idle
                /\ delivery'[d].received = delivery[d].received
  <2>1. NoDelivery.pc = Idle
    BY DEF NoDelivery
  <2>2. CASE d # o
    BY <1>1, <1>4, <2>2
    DEF DeliveryStep, ClassifyDelivery, InsertMessage, SwallowMessage,
        CountQuarantine, InsertQuarantine, SwallowQuarantined, FailDelivery,
        EndDelivery
  <2>3. CASE d = o /\ ClassifyDelivery(o)
    BY <1>1, <2>3 DEF ClassifyDelivery
  <2>4. CASE d = o /\ CountQuarantine(o)
    <3>1. delivery[d].pc = "unmatched"
      BY <2>4 DEF CountQuarantine
    <3>2. delivery'[d] = [delivery[d] EXCEPT !.pc = "counted"]
      BY <1>1, <2>1, <2>4 DEF CountQuarantine, EndDelivery
    <3>3. delivery'[d].received = delivery[d].received
      BY <1>1, <3>1, <3>2 DEF DeliveryState, NoDelivery, Idle
    <3> QED
      BY <3>1, <3>3 DEF Idle
  <2>5. CASE d = o /\ EndDelivery(o)
    BY <1>1, <2>1, <2>5 DEF EndDelivery
  <2> QED
    BY <1>4, <2>2, <2>3, <2>4, <2>5
    DEF DeliveryStep, InsertMessage, SwallowMessage, InsertQuarantine,
        SwallowQuarantined, FailDelivery
<1>5. (\A o \in Deliveries : ~DeliveryStep(o)) => delivery' = delivery
  BY DEF Next, NextDay, vars, DeleteProvider, UpdateMessageStatus,
         ReviewStep, PurgeStep, ResolveReview, ReadReview, Dismiss, Release,
         FailReview, StartRun, SelectMessages, SelectQuarantine,
         SelectBatch, DeleteMessages, DeleteQuarantine, RecordRun, FailRun
<1> QED
  BY <1>2, <1>3, <1>4, <1>5

\* Whatever interleaves, the household sees one step of Custody at a time.
THEOREM Implements == Spec => ImplementsCustody
<1>1. Init => Mail!Init
  BY DEF Init, Mail!Init, FiledMail, HeldMail
<1>2. Inv /\ VictimsExpired /\ RoomInQueue /\ ArrivedBefore /\ [Next]_vars =>
        [Mail!Next]_(Mail!custody)
  <2> SUFFICES ASSUME Inv, VictimsExpired, RoomInQueue, ArrivedBefore,
                      [Next]_vars
               PROVE  [Mail!Next]_(Mail!custody)
    OBVIOUS
  <2>1. CASE UpdateMessageStatus \/ UNCHANGED vars
    BY <2>1 DEF UpdateMessageStatus, vars, Mail!custody, FiledMail, HeldMail
  <2>2. CASE NextDay
    BY <2>2 DEF NextDay, Mail!Next, Mail!NextDay, FiledMail, HeldMail
  <2> QED
    BY <2>1, <2>2, DeliveryCustody, ReviewCustody, RunCustody, OwnerCustody
    DEF Next
<1>3. Init => RoomInQueue
  BY InitRoom
<1>4. Init => ArrivedBefore
  BY DEF Init, ArrivedBefore, NoDelivery
<1> QED
  BY <1>1, <1>2, <1>3, <1>4, InitInv, NextInv, InitVictims, NextVictims,
     NextRoom, NextArrived, PTL
  DEF Spec, ImplementsCustody, Mail!Spec

-----------------------------------------------------------------------------
(* What was answered 200: an invariant of Custody, and so of Mailbox.      *)

LEMMA CustodyInit == Mail!Init => Mail!TypeOK /\ Mail!PromiseHeld
  BY DEF Mail!Init, Mail!TypeOK, Mail!PromiseHeld

LEMMA CustodyType ==
  ASSUME Mail!TypeOK, [Mail!Next]_(Mail!custody)
  PROVE  Mail!TypeOK'
<1> USE DEF Mail!TypeOK
<1>1. ASSUME NEW m \in MessageIds, Mail!Take(m) PROVE Mail!TypeOK'
  <2>1. PICK until \in Mail!Deadlines :
          Mail!Hold(m, until) \/ \E p \in Providers : Mail!File(m, p, until)
    BY <1>1 DEF Mail!Take
  <2>2. until \in Nat
    BY <2>1, LimitAssumption DEF Mail!Deadlines
  <2>3. Mail!Promise(m, until) => owed' \in [MessageIds -> Nat]
    BY <2>2 DEF Mail!Promise
  <2>4. CASE Mail!Hold(m, until)
    <3>1. [mid |-> m, until |-> until, reviewed |-> FALSE]
            \in [mid: MessageIds, until: Nat, reviewed: BOOLEAN]
      BY <2>2
    <3> QED
      BY <2>3, <2>4, <3>1 DEF Mail!Hold
  <2>5. ASSUME NEW p \in Providers, Mail!File(m, p, until) PROVE Mail!TypeOK'
    <3>1. [mid |-> m, provider |-> p, until |-> until]
            \in [mid: MessageIds, provider: Providers, until: Nat]
      BY <2>2
    <3> QED
      BY <2>3, <2>5, <3>1 DEF Mail!File
  <2> QED
    BY <2>1, <2>4, <2>5
<1>2. ASSUME NEW e \in FiledMail \cup HeldMail, Mail!Redeliver(e)
      PROVE  Mail!TypeOK'
  BY <1>2 DEF Mail!Redeliver, Mail!Promise
<1>3. ASSUME NEW e \in HeldMail, Mail!Decide(e) PROVE Mail!TypeOK'
  <2>1. [e EXCEPT !.reviewed = TRUE]
          \in [mid: MessageIds, until: Nat, reviewed: BOOLEAN]
    OBVIOUS
  <2>2. \A p \in providers :
          Mail!Copy(e, p) \in [mid: MessageIds, provider: Providers, until: Nat]
    BY DEF Mail!Copy
  <2> QED
    BY <1>3, <2>1, <2>2 DEF Mail!Decide
<1>4. ASSUME NEW gone, Mail!PurgeInbox(gone) \/ Mail!PurgeHeld(gone)
      PROVE  Mail!TypeOK'
  BY <1>4 DEF Mail!PurgeInbox, Mail!PurgeHeld
<1>5. ASSUME NEW p \in Providers, Mail!DropProvider(p) PROVE Mail!TypeOK'
  BY <1>5 DEF Mail!DropProvider
<1>6. CASE Mail!NextDay
  BY <1>6 DEF Mail!NextDay
<1>7. CASE UNCHANGED Mail!custody
  BY <1>7 DEF Mail!custody
<1> QED
  BY <1>1, <1>2, <1>3, <1>4, <1>5, <1>6, <1>7 DEF Mail!Next

\* Only the deadline, or the owner, takes away what a promise rests on.
LEMMA CustodyKeeps ==
  ASSUME Mail!TypeOK, Mail!PromiseHeld, [Mail!Next]_(Mail!custody)
  PROVE  Mail!PromiseHeld'
<1> SUFFICES ASSUME NEW m \in MessageIds, owed'[m] > day'
             PROVE  \E e \in FiledMail' \cup HeldMail' :
                      e.mid = m /\ e.until >= owed'[m]
  BY DEF Mail!PromiseHeld
<1>1. /\ day \in Nat /\ owed \in [MessageIds -> Nat]
      /\ \A e \in FiledMail \cup HeldMail : e.until \in Nat
  BY DEF Mail!TypeOK
<1>2. owed[m] > day =>
        \E e \in FiledMail \cup HeldMail : e.mid = m /\ e.until >= owed[m]
  BY DEF Mail!PromiseHeld
<1>3. CASE /\ owed' = owed /\ day' = day
           /\ \A e \in FiledMail \cup HeldMail :
                e.mid = m /\ e.until > day =>
                  \E x \in FiledMail' \cup HeldMail' :
                    x.mid = m /\ x.until = e.until
  BY <1>1, <1>2, <1>3
<1>4. ASSUME NEW n \in MessageIds, NEW until \in Nat, Mail!Promise(n, until),
             day' = day,
             FiledMail \cup HeldMail \subseteq FiledMail' \cup HeldMail',
             \E e \in FiledMail' \cup HeldMail' : e.mid = n /\ e.until = until
      PROVE  \E e \in FiledMail' \cup HeldMail' :
               e.mid = m /\ e.until >= owed'[m]
  <2>1. \/ owed'[m] = owed[m]
        \/ m = n /\ owed'[m] = until
    <3>1. owed' = [owed EXCEPT ![n] = IF until > owed[n] THEN until ELSE owed[n]]
      BY <1>4 DEF Mail!Promise
    <3>2. m # n => owed'[m] = owed[m]
      BY <1>1, <3>1
    <3>3. m = n => owed'[m] = until \/ owed'[m] = owed[m]
      BY <1>1, <3>1
    <3> QED
      BY <3>2, <3>3
  <2> QED
    BY <1>1, <1>2, <1>4, <2>1
<1>5. ASSUME NEW n \in MessageIds, Mail!Take(n)
      PROVE  \E e \in FiledMail' \cup HeldMail' :
               e.mid = m /\ e.until >= owed'[m]
  <2>1. PICK until \in Mail!Deadlines :
          Mail!Hold(n, until) \/ \E p \in Providers : Mail!File(n, p, until)
    BY <1>5 DEF Mail!Take
  <2>2. until \in Nat
    BY <1>1, <2>1, LimitAssumption DEF Mail!Deadlines
  <2>3. /\ Mail!Promise(n, until) /\ day' = day
        /\ FiledMail \cup HeldMail \subseteq FiledMail' \cup HeldMail'
        /\ \E e \in FiledMail' \cup HeldMail' : e.mid = n /\ e.until = until
    <3>1. CASE Mail!Hold(n, until)
      <4> DEFINE e == [mid |-> n, until |-> until, reviewed |-> FALSE]
      <4>1. e.mid = n /\ e.until = until
        OBVIOUS
      <4>2. /\ Mail!Promise(n, until) /\ day' = day /\ FiledMail' = FiledMail
            /\ HeldMail' = HeldMail \cup {e}
        BY <3>1 DEF Mail!Hold
      <4> HIDE DEF e
      <4> QED
        BY <4>1, <4>2
    <3>2. ASSUME NEW p \in Providers, Mail!File(n, p, until)
          PROVE  /\ Mail!Promise(n, until) /\ day' = day
                 /\ FiledMail \cup HeldMail \subseteq FiledMail' \cup HeldMail'
                 /\ \E e \in FiledMail' \cup HeldMail' :
                      e.mid = n /\ e.until = until
      <4> DEFINE e == [mid |-> n, provider |-> p, until |-> until]
      <4>1. e.mid = n /\ e.until = until
        OBVIOUS
      <4>2. /\ Mail!Promise(n, until) /\ day' = day /\ HeldMail' = HeldMail
            /\ FiledMail' = FiledMail \cup {e}
        BY <3>2 DEF Mail!File
      <4> HIDE DEF e
      <4> QED
        BY <4>1, <4>2
    <3> QED
      BY <2>1, <3>1, <3>2
  <2> QED
    BY <1>4, <2>2, <2>3
<1>6. ASSUME NEW e \in FiledMail \cup HeldMail, Mail!Redeliver(e)
      PROVE  \E x \in FiledMail' \cup HeldMail' :
               x.mid = m /\ x.until >= owed'[m]
  <2>1. e.mid \in MessageIds /\ e.until \in Nat
    BY DEF Mail!TypeOK
  <2> QED
    BY <1>4, <1>6, <2>1 DEF Mail!Redeliver
<1>7. ASSUME NEW e \in HeldMail, Mail!Decide(e)
      PROVE  \E x \in FiledMail' \cup HeldMail' :
               x.mid = m /\ x.until >= owed'[m]
  <2> DEFINE decided == [e EXCEPT !.reviewed = TRUE]
  <2>1. decided.mid = e.mid /\ decided.until = e.until
    BY DEF Mail!TypeOK
  <2>2. /\ owed' = owed /\ day' = day /\ FiledMail \subseteq FiledMail'
        /\ HeldMail' = (HeldMail \ {e}) \cup {decided}
    BY <1>7 DEF Mail!Decide
  <2> HIDE DEF decided
  <2> QED
    BY <1>3, <2>1, <2>2
<1>8. ASSUME NEW gone, Mail!PurgeInbox(gone) \/ Mail!PurgeHeld(gone)
      PROVE  \E x \in FiledMail' \cup HeldMail' :
               x.mid = m /\ x.until >= owed'[m]
  BY <1>1, <1>3, <1>8 DEF Mail!PurgeInbox, Mail!PurgeHeld, Mail!Expired
<1>9. ASSUME NEW p \in Providers, Mail!DropProvider(p)
      PROVE  \E x \in FiledMail' \cup HeldMail' :
               x.mid = m /\ x.until >= owed'[m]
  <2> DEFINE gone == {e \in FiledMail : e.provider = p}
  <2>1. /\ FiledMail' = FiledMail \ gone /\ HeldMail' = HeldMail /\ day' = day
        /\ owed'[m] = IF Mail!Has(gone, m) THEN 0 ELSE owed[m]
    BY <1>9 DEF Mail!DropProvider
  <2> HIDE DEF gone
  <2>2. owed'[m] = owed[m] /\ ~\E e \in gone : e.mid = m
    BY <1>1, <2>1 DEF Mail!Has
  <2> QED
    BY <1>2, <2>1, <2>2
<1>10. CASE Mail!NextDay
  BY <1>1, <1>2, <1>10 DEF Mail!NextDay
<1>11. CASE UNCHANGED Mail!custody
  BY <1>3, <1>11 DEF Mail!custody
<1> QED
  BY <1>5, <1>6, <1>7, <1>8, <1>9, <1>10, <1>11 DEF Mail!Next

\* A message answered 200 stays, in the inbox or in the queue, until the
\* deadline of the row that was promised, unless its provider is deleted.
THEOREM AcceptedKept == Spec => []AcceptedMailIsKept
<1>1. ImplementsCustody => [](Mail!TypeOK /\ Mail!PromiseHeld)
  <2>1. Mail!TypeOK /\ Mail!PromiseHeld /\ [Mail!Next]_(Mail!custody)
          => (Mail!TypeOK /\ Mail!PromiseHeld)'
    BY CustodyType, CustodyKeeps
  <2> QED
    BY <2>1, CustodyInit, PTL DEF ImplementsCustody, Mail!Spec
<1>2. Inv /\ Mail!PromiseHeld => AcceptedMailIsKept
  <2> SUFFICES ASSUME Inv, Mail!PromiseHeld, NEW m \in MessageIds,
                      owed[m] > day
               PROVE  HasMessage(m) \/ HasQuarantined(m)
    BY DEF AcceptedMailIsKept
  <2>1. \E e \in FiledMail \cup HeldMail : e.mid = m
    BY DEF Mail!PromiseHeld
  <2> QED
    BY <2>1, FilingFacts, HoldingFacts DEF Mail!Has
<1> QED
  BY <1>1, <1>2, Implements, InitInv, NextInv, PTL DEF Spec

=============================================================================
