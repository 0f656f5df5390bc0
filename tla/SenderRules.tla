----------------------------- MODULE SenderRules -----------------------------
(***************************************************************************)
(* Which provider a mail belongs to: the owner's sender rules, edited at   *)
(* any moment, and the classifier that reads them one statement at a time. *)
(*                                                                         *)
(* Every exact-address rule is tried before any domain rule, and within a  *)
(* pass the visible From address before the envelope sender. A match must  *)
(* then be vouched for by the mechanism that covers the matched address.   *)
(* The routes' lookups before a write refuse what the foreign key and the  *)
(* unique index would refuse a moment later, so a write is one step here.  *)
(***************************************************************************)
EXTENDS Integers, FiniteSets, Sequences

CONSTANTS
  Targets,    \* providers a rule may point at
  Addresses,  \* sender addresses, trimmed and lower-cased
  NoAddress,  \* no From header; an envelope sender that is empty
  Domains,    \* host names a rule may name
  LiesUnder,     \* the domains each address's host is, or lies under
  Width,      \* the length of each domain's name
  RuleIds,    \* rows of sender_rules
  Parcels     \* mails that can be classified at once

ASSUME AddressAssumption == NoAddress \notin Addresses

\* As long as the name of a host may be.
maxHostnameLength == 253

ASSUME DomainAssumption ==
  /\ LiesUnder \in [Addresses -> SUBSET Domains]
  /\ Width \in [Domains -> 1..maxHostnameLength]

\* Two suffixes of one host that are as long as each other are the same.
ASSUME SuffixAssumption ==
  \A a \in Addresses : \A d, e \in LiesUnder[a] : Width[d] = Width[e] => d = e

VARIABLES
  targets,  \* the providers that exist
  rules,    \* sender_rules by id, Unwritten for a row that is not there
  parcel    \* what each classification has read so far

rulesVars == <<targets, rules, parcel>>

Rule ==
  [kind: {"exact"}, value: Addresses, target: Targets]
    \cup [kind: {"domain"}, value: Domains, target: Targets]

Unwritten == [kind |-> "none"]

Written == {i \in RuleIds : rules[i] # Unwritten}

Covers(rule, address) ==
  \/ rule.kind = "exact" /\ rule.value = address
  \/ rule.kind = "domain" /\ rule.value \in LiesUnder[address]

-----------------------------------------------------------------------------
(* The mail. A candidate is an address and where it was read.              *)

Candidate == [address: Addresses, source: {"header", "envelope"}]

\* Bug: an address seen twice keeps its LAST source.
CandidatesLast(from, envelope) ==
  (IF from \in {NoAddress, envelope} THEN <<>>
   ELSE <<[address |-> from, source |-> "header"]>>)
    \o (IF envelope = NoAddress THEN <<>>
        ELSE <<[address |-> envelope, source |-> "envelope"]>>)

\* senderCandidates and normalizeCandidates: an address seen twice keeps its
\* FIRST source, so mail from one's own envelope sender is judged by its header.
Candidates(from, envelope) ==
  (IF from = NoAddress THEN <<>>
   ELSE <<[address |-> from, source |-> "header"]>>)
    \o (IF envelope \in {NoAddress, from} THEN <<>>
        ELSE <<[address |-> envelope, source |-> "envelope"]>>)

\* What Authentication-Results said, if the mail has one at all. Only a pass
\* matters of dkim and spf.
Unstamped == [stamped |-> FALSE, dmarc |-> "none", dkim |-> "none", spf |-> "none"]
Verdicts ==
  {Unstamped}
    \cup [stamped: {TRUE}, dmarc: {"pass", "fail", "none"},
          dkim: {"pass", "none"}, spf: {"pass", "none"}]

Trusted(auth, source) ==
  \/ ~auth.stamped
  \/ /\ auth.dmarc # "fail"
     /\ IF source = "header" THEN "pass" \in {auth.dkim, auth.dmarc}
        ELSE auth.spf = "pass"

\* stood is history: the rules nobody has touched since the first statement.
NoMatch == [rank |-> 0, kind |-> "none", width |-> 0]
Match == [rank: Nat, kind: {"exact", "domain"}, width: Nat]
NoParcel ==
  [pc |-> "idle", from |-> NoAddress, envelope |-> NoAddress, next |-> 1,
   match |-> NoMatch, auth |-> Unstamped, stood |-> {}]
ParcelState ==
  [pc: {"idle", "exact", "domain", "matched", "unmatched", "filed"},
   from: Addresses \cup {NoAddress}, envelope: Addresses \cup {NoAddress},
   next: 1..3, match: Match \cup {NoMatch}, auth: Verdicts,
   stood: SUBSET RuleIds]

Tried(p) == Candidates(parcel[p].from, parcel[p].envelope)

RulesInit ==
  /\ targets = Targets
  /\ rules = [i \in RuleIds |-> Unwritten]
  /\ parcel = [p \in Parcels |-> NoParcel]

-----------------------------------------------------------------------------
(* The owner's rules and providers.                                        *)

Touch(ids) ==
  parcel' = [p \in Parcels |->
               [parcel[p] EXCEPT !.stood = parcel[p].stood \ ids]]

\* The unique index: one address, one domain, one rule.
Unique(i, rule) ==
  \A j \in Written \ {i} :
    <<rules[j].kind, rules[j].value>> # <<rule.kind, rule.value>>

Write(i, rule) ==
  /\ rule.target \in targets
  /\ Unique(i, rule)
  /\ rules' = [rules EXCEPT ![i] = rule]
  /\ Touch({i})
  /\ UNCHANGED targets

CreateSenderRule(i) == i \notin Written /\ \E rule \in Rule : Write(i, rule)

\* Repointed, or made to match something else: the same row.
UpdateSenderRule(i) == i \in Written /\ \E rule \in Rule : Write(i, rule)

DeleteSenderRule(i) ==
  /\ i \in Written
  /\ rules' = [rules EXCEPT ![i] = Unwritten]
  /\ Touch({i})
  /\ UNCHANGED targets

\* The rules of a provider cascade with it.
DeleteTarget(t) ==
  LET gone == {i \in Written : rules[i].target = t}
  IN /\ t \in targets
     /\ targets' = targets \ {t}
     /\ rules' = [i \in RuleIds |-> IF i \in gone THEN Unwritten ELSE rules[i]]
     /\ Touch(gone)

-----------------------------------------------------------------------------
(* The classifier, one statement a step.                                   *)

EndParcel(p) == parcel' = [parcel EXCEPT ![p] = NoParcel]

Step(p, pc, next, match) ==
  parcel' = [parcel EXCEPT ![p].pc = pc, ![p].next = next, ![p].match = match]

\* The household is found; mail that names none goes no further than this.
Receive(p) ==
  /\ parcel[p].pc = "idle"
  /\ \E from, envelope \in Addresses \cup {NoAddress} :
       parcel' = [parcel EXCEPT ![p] =
         [NoParcel EXCEPT !.pc = "exact", !.from = from,
                          !.envelope = envelope, !.stood = Written]]
  /\ UNCHANGED <<targets, rules>>

Exact(a) == {i \in Written : rules[i].kind = "exact" /\ Covers(rules[i], a)}
Under(a) == {i \in Written : rules[i].kind = "domain" /\ Covers(rules[i], a)}

\* ORDER BY length DESC LIMIT 1.
MostSpecific(ids) ==
  CHOOSE w \in {Width[rules[i].value] : i \in ids} :
    \A j \in ids : w >= Width[rules[j].value]

\* Bug: each candidate is tried against both kinds before the next one.
TryExactThenDomain(p) ==
  LET c == parcel[p].next IN
  /\ parcel[p].pc = "exact"
  /\ IF c > Len(Tried(p)) THEN Step(p, "domain", 1, NoMatch)
     ELSE LET a == Tried(p)[c].address IN
          IF Exact(a) # {}
          THEN Step(p, "matched", c, [rank |-> c, kind |-> "exact", width |-> 0])
          ELSE IF Under(a) # {}
          THEN Step(p, "matched", c, [rank |-> c, kind |-> "domain",
                                      width |-> MostSpecific(Under(a))])
          ELSE Step(p, "exact", c + 1, NoMatch)
  /\ UNCHANGED <<targets, rules>>

\* FindExactSenderRule for the next candidate; after the last, the other pass.
TryExact(p) ==
  LET c == parcel[p].next IN
  /\ parcel[p].pc = "exact"
  /\ IF c > Len(Tried(p)) THEN Step(p, "domain", 1, NoMatch)
     ELSE IF Exact(Tried(p)[c].address) # {}
     THEN Step(p, "matched", c, [rank |-> c, kind |-> "exact", width |-> 0])
     ELSE Step(p, "exact", c + 1, NoMatch)
  /\ UNCHANGED <<targets, rules>>

\* FindDomainSenderRule for the next candidate.
TryDomain(p) ==
  LET c == parcel[p].next IN
  /\ parcel[p].pc = "domain"
  /\ IF c > Len(Tried(p)) THEN Step(p, "unmatched", 1, NoMatch)
     ELSE LET ids == Under(Tried(p)[c].address) IN
          IF ids # {}
          THEN Step(p, "matched", c, [rank |-> c, kind |-> "domain",
                                      width |-> MostSpecific(ids)])
          ELSE Step(p, "domain", c + 1, NoMatch)
  /\ UNCHANGED <<targets, rules>>

\* Verdict on the matched address: filed, or to the review queue like mail
\* that matched nothing. A failed verdict does not try the next candidate.
Judge(p) ==
  /\ parcel[p].pc = "matched"
  /\ \E auth \in Verdicts :
       IF Trusted(auth, Tried(p)[parcel[p].match.rank].source)
       THEN parcel' = [parcel EXCEPT ![p].pc = "filed", ![p].auth = auth]
       ELSE EndParcel(p)
  /\ UNCHANGED <<targets, rules>>

\* The classification is acted on, or a statement of it failed.
Dispose(p) ==
  /\ parcel[p].pc # "idle"
  /\ EndParcel(p)
  /\ UNCHANGED <<targets, rules>>

Classify(p) ==
  Receive(p) \/ TryExact(p) \/ TryDomain(p) \/ Judge(p) \/ Dispose(p)

RulesNext ==
  \/ \E i \in RuleIds :
       CreateSenderRule(i) \/ UpdateSenderRule(i) \/ DeleteSenderRule(i)
  \/ \E t \in Targets : DeleteTarget(t)
  \/ \E p \in Parcels : Classify(p)

RulesSpec == RulesInit /\ [][RulesNext]_rulesVars

-----------------------------------------------------------------------------
(* What classification promises.                                           *)

RulesTypeOK ==
  /\ targets \subseteq Targets
  /\ rules \in [RuleIds -> Rule \cup {Unwritten}]
  /\ parcel \in [Parcels -> ParcelState]

\* Candidate c under this rule comes before the match that was taken.
Beats(rule, c, match) ==
  IF rule.kind = "exact" THEN match.kind # "exact" \/ c < match.rank
  ELSE /\ match.kind # "exact"
       /\ \/ match.kind = "none" \/ c < match.rank
          \/ c = match.rank /\ Width[rule.value] > match.width

\* "a household that has pinned one address of a domain to its own provider
\* keeps that pin": whatever is edited between the statements, a rule that stood
\* all along never loses to a weaker one, and covers no mail left unmatched.
StandingRuleWins ==
  \A p \in Parcels : parcel[p].pc \in {"matched", "unmatched", "filed"} =>
    \A i \in parcel[p].stood : \A c \in 1..Len(Tried(p)) :
      Covers(rules[i], Tried(p)[c].address) =>
        ~Beats(rules[i], c, parcel[p].match)

\* "SPF authenticates the envelope sender and says nothing about the From
\* header": mail is filed on the strength of the address a person sees only if
\* DKIM or DMARC vouches for it, though it be the envelope sender as well.
VisibleSenderIsVouchedFor ==
  \A p \in Parcels :
    LET q == parcel[p] IN
    /\ q.pc = "filed"
    /\ q.auth.stamped
    => /\ q.auth.dmarc # "fail"
       /\ IF Tried(p)[q.match.rank].address = q.from
          THEN "pass" \in {q.auth.dkim, q.auth.dmarc}
          ELSE q.auth.spf = "pass"

=============================================================================
