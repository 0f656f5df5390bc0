------------------------------- MODULE Custody -------------------------------
(***************************************************************************)
(* What a household may rely on about its mail, in one step at a time:     *)
(* nothing is taken twice, what was answered 200 is kept until a deadline  *)
(* that nothing moves, a decision on a held mail is taken at once with all *)
(* that follows from it, and only deadlines and the owner take mail away.  *)
(* Mailbox, with its statements, slots, batches and row versions, is shown *)
(* to do nothing else.                                                     *)
(***************************************************************************)
EXTENDS Naturals, FiniteSets

CONSTANTS
  MessageIds,     \* Message-ID values of the mail that may arrive
  Providers,      \* providers of the household
  RetentionDays,  \* how long a mail is kept
  Room            \* mails that may wait for a decision

VARIABLES
  day,        \* the calendar
  providers,  \* the providers that exist
  inbox,      \* mail under a provider: its Message-ID, whose it is, until when
  held,       \* mail without one: its Message-ID, until when, whether decided on
  owed        \* until when a 200 promised each mail

custody == <<day, providers, inbox, held, owed>>

Init ==
  /\ day = 1
  /\ providers = Providers
  /\ inbox = {}
  /\ held = {}
  /\ owed = [m \in MessageIds |-> 0]

Waiting == {e \in held : ~e.reviewed}
Has(place, m) == \E e \in place : e.mid = m

\* A mail is kept for RetentionDays from its arrival, which may be some days
\* back by the time it is stored.
Deadlines == RetentionDays..(day + RetentionDays)

Promise(m, until) ==
  owed' = [owed EXCEPT ![m] = IF until > owed[m] THEN until ELSE owed[m]]

\* A mail that a rule attributed is filed and answered 200.
File(m, p, until) ==
  /\ p \in providers
  /\ Promise(m, until)
  /\ ~Has(inbox, m)
  /\ inbox' = inbox \cup {[mid |-> m, provider |-> p, until |-> until]}
  /\ UNCHANGED <<day, providers, held>>

\* Any other mail is held for a decision, if there is room, and answered 200.
Hold(m, until) ==
  /\ Promise(m, until)
  /\ ~Has(held, m)
  /\ Cardinality(Waiting) < Room
  /\ held' = held \cup {[mid |-> m, until |-> until, reviewed |-> FALSE]}
  /\ UNCHANGED <<day, providers, inbox>>

\* A redelivery is answered 200 for what is there.
Redeliver(e) ==
  /\ e \in inbox \cup held
  /\ Promise(e.mid, e.until)
  /\ UNCHANGED <<day, providers, inbox, held>>

\* A decision: dismissed, or released to a provider, which is one step with the
\* copy; the deadline stays what it was. Two decisions on one mail may both be
\* carried out.
Copy(e, p) == [mid |-> e.mid, provider |-> p, until |-> e.until]

Decide(e) ==
  /\ e \in held
  /\ held' = (held \ {e}) \cup {[e EXCEPT !.reviewed = TRUE]}
  /\ \/ UNCHANGED inbox
     \/ /\ ~Has(inbox, e.mid)
        /\ \E p \in providers : inbox' = inbox \cup {Copy(e, p)}
  /\ UNCHANGED <<day, providers, owed>>

Expired(place) == {e \in place : e.until <= day}

PurgeInbox(gone) ==
  /\ gone \subseteq Expired(inbox)
  /\ inbox' = inbox \ gone
  /\ UNCHANGED <<day, providers, held, owed>>

PurgeHeld(gone) ==
  /\ gone \subseteq Expired(held)
  /\ held' = held \ gone
  /\ UNCHANGED <<day, providers, inbox, owed>>

\* The owner deletes a provider, its mail, and what was promised of it.
DropProvider(p) ==
  LET gone == {e \in inbox : e.provider = p}
  IN /\ p \in providers
     /\ providers' = providers \ {p}
     /\ inbox' = inbox \ gone
     /\ owed' = [m \in MessageIds |-> IF Has(gone, m) THEN 0 ELSE owed[m]]
     /\ UNCHANGED <<day, held>>

NextDay ==
  /\ day' = day + 1
  /\ UNCHANGED <<providers, inbox, held, owed>>

Take(m) ==
  \E until \in Deadlines :
    Hold(m, until) \/ \E p \in Providers : File(m, p, until)

Next ==
  \/ \E e \in inbox \cup held : Redeliver(e)
  \/ \E m \in MessageIds : Take(m)
  \/ \E e \in held : Decide(e)
  \/ \E gone \in SUBSET Expired(inbox) : PurgeInbox(gone)
  \/ \E gone \in SUBSET Expired(held) : PurgeHeld(gone)
  \/ \E p \in Providers : DropProvider(p)
  \/ NextDay

Spec == Init /\ [][Next]_custody

-----------------------------------------------------------------------------
(* What this comes to.                                                     *)

TypeOK ==
  /\ day \in Nat
  /\ providers \subseteq Providers
  /\ inbox \subseteq [mid: MessageIds, provider: Providers, until: Nat]
  /\ held \subseteq [mid: MessageIds, until: Nat, reviewed: BOOLEAN]
  /\ owed \in [MessageIds -> Nat]

\* A mail that was answered 200 is in one of the two places, for no shorter
\* than was promised.
PromiseHeld ==
  \A m \in MessageIds : owed[m] > day =>
    \E e \in inbox \cup held : e.mid = m /\ e.until >= owed[m]

=============================================================================
