----------------------------- MODULE MailProofs -----------------------------
(* SenderRules, Inbox and Outgoing: for any number of providers, rules,      *)
(* addresses and mails and any nesting of domains, for pages of any length,  *)
(* and for any deadlines that are long enough.                               *)
EXTENDS SenderRules, Inbox, Outgoing, FiniteSetTheorems, WellFoundedInduction,
        TLAPS

-----------------------------------------------------------------------------
(* The most specific domain.                                               *)

\* Widths are bounded, so some of them is the greatest.
LEMMA WidestExists ==
  ASSUME NEW S \in SUBSET (1..maxHostnameLength), S # {}
  PROVE  \E w \in S : \A x \in S : w >= x
<1> DEFINE T == {maxHostnameLength - w : w \in S}
<1>1. T \subseteq Nat /\ T # {}
  <2>1. \A w \in S : maxHostnameLength - w \in Nat
    BY DEF maxHostnameLength
  <2> QED
    BY <2>1
<1> HIDE DEF T
<1>2. PICK t \in T : \A u \in T : <<u, t>> \notin OpToRel(<, Nat)
  BY <1>1, WFMin, NatLessThanWellFounded, Zenon
<1>3. \A u \in T : ~(u < t)
  BY <1>1, <1>2 DEF OpToRel
<1>4. PICK w \in S : t = maxHostnameLength - w
  BY DEF T
<1>5. ASSUME NEW x \in S PROVE w >= x
  <2>1. maxHostnameLength - x \in T
    BY DEF T
  <2> QED
    BY <1>3, <1>4, <2>1 DEF maxHostnameLength
<1> QED
  BY <1>5

LEMMA WidthType == \A d \in Domains : Width[d] \in Nat
<1>1. Width \in [Domains -> Nat]
  BY DomainAssumption DEF maxHostnameLength
<1> QED
  BY <1>1

LEMMA MostSpecificFacts ==
  ASSUME rules \in [RuleIds -> Rule \cup {Unwritten}],
         NEW a \in Addresses, Under(a) # {}
  PROVE  /\ MostSpecific(Under(a)) \in Nat
         /\ \A i \in Under(a) : MostSpecific(Under(a)) >= Width[rules[i].value]
<1> DEFINE S == {Width[rules[i].value] : i \in Under(a)}
<1>1. ASSUME NEW i \in Under(a)
      PROVE  Width[rules[i].value] \in 1..maxHostnameLength
  <2>1. rules[i].value \in LiesUnder[a]
    BY DEF Under, Covers
  <2> QED
    BY <2>1, DomainAssumption
<1>2. S \in SUBSET (1..maxHostnameLength) /\ S # {}
  BY <1>1
<1>3. \E w \in S : \A x \in S : w >= x
  BY <1>2, WidestExists
<1>4. \E w \in S : \A j \in Under(a) : w >= Width[rules[j].value]
  BY <1>3
<1>5. /\ MostSpecific(Under(a)) \in S
      /\ \A j \in Under(a) : MostSpecific(Under(a)) >= Width[rules[j].value]
  BY <1>4 DEF MostSpecific
<1> QED
  BY <1>2, <1>5 DEF maxHostnameLength

-----------------------------------------------------------------------------
(* Candidates.                                                             *)

\* One candidate for each address, and the one that is the visible From, if
\* any, is judged as a header.
LEMMA CandidatesFacts ==
  ASSUME NEW from \in Addresses \cup {NoAddress},
         NEW envelope \in Addresses \cup {NoAddress}
  PROVE  LET K == Candidates(from, envelope) IN
         /\ Len(K) \in 0..2
         /\ \A c \in 1..Len(K) :
              /\ K[c].address \in Addresses
              /\ K[c].source \in {"header", "envelope"}
              /\ K[c].address = from <=> K[c].source = "header"
<1> DEFINE h == [address |-> from, source |-> "header"]
           e == [address |-> envelope, source |-> "envelope"]
           K == Candidates(from, envelope)
<1>1. CASE from = NoAddress /\ envelope = NoAddress
  <2>1. K = <<>>
    BY <1>1 DEF Candidates
  <2> QED
    BY <2>1
<1>2. CASE from # NoAddress /\ envelope \in {NoAddress, from}
  <2>1. K = <<h>>
    BY <1>2 DEF Candidates
  <2> QED
    BY <1>2, <2>1
<1>3. CASE from = NoAddress /\ envelope # NoAddress
  <2>1. K = <<e>>
    BY <1>3 DEF Candidates
  <2> QED
    BY <1>3, <2>1, AddressAssumption
<1>4. CASE from # NoAddress /\ envelope \notin {NoAddress, from}
  <2>1. K = <<h>> \o <<e>>
    BY <1>4 DEF Candidates
  <2>2. Len(K) = 2 /\ K[1] = h /\ K[2] = e
    <3> HIDE DEF h, e, K
    <3> QED
      BY <2>1
  <2> QED
    BY <1>4, <2>2
<1> QED
  BY <1>1, <1>2, <1>3, <1>4

-----------------------------------------------------------------------------
(* What a classification has learnt.                                       *)

\* No rule that stood all along covers candidate c, in this pass or that.
Passed(q, rs, kind, c) ==
  \A i \in q.stood :
    rs[i].kind = kind => ~Covers(rs[i], Candidates(q.from, q.envelope)[c].address)

Learnt(q, rs) ==
  LET K == Candidates(q.from, q.envelope) IN
  /\ \A i \in q.stood : rs[i] # Unwritten
  /\ q.pc = "exact" => \A c \in 1..Len(K) : c < q.next => Passed(q, rs, "exact", c)
  /\ q.pc = "domain" =>
       \A c \in 1..Len(K) : /\ Passed(q, rs, "exact", c)
                            /\ c < q.next => Passed(q, rs, "domain", c)
  /\ q.pc \in {"matched", "unmatched", "filed"} =>
       \A i \in q.stood : \A c \in 1..Len(K) :
         Covers(rs[i], K[c].address) => ~Beats(rs[i], c, q.match)
  /\ q.pc \in {"matched", "filed"} => q.match.rank \in 1..Len(K)
  /\ q.pc = "filed" => Trusted(q.auth, K[q.match.rank].source)

RulesInv == RulesTypeOK /\ \A p \in Parcels : Learnt(parcel[p], rules)

LEMMA ParcelFacts ==
  ASSUME RulesTypeOK, NEW p \in Parcels
  PROVE  LET q == parcel[p]
             K == Candidates(q.from, q.envelope)
         IN /\ q \in ParcelState
            /\ Tried(p) = K
            /\ Len(K) \in 0..2
            /\ \A c \in 1..Len(K) : K[c].address \in Addresses
<1>1. parcel[p] \in ParcelState
  BY DEF RulesTypeOK
<1>2. /\ parcel[p].from \in Addresses \cup {NoAddress}
      /\ parcel[p].envelope \in Addresses \cup {NoAddress}
  BY <1>1 DEF ParcelState
<1> QED
  BY <1>1, <1>2, CandidatesFacts DEF Tried

LEMMA RestFacts ==
  NoParcel \in ParcelState /\ \A rs : Learnt(NoParcel, rs)
  BY DEF NoParcel, ParcelState, Learnt, Verdicts

LEMMA InitRulesInv == RulesInit => RulesInv
  BY RestFacts DEF RulesInit, RulesInv, RulesTypeOK

\* One classification moves on, the tables stand.
LEMMA OneMoves ==
  ASSUME RulesInv, NEW p \in Parcels, NEW q \in ParcelState, Learnt(q, rules),
         parcel' = [parcel EXCEPT ![p] = q], UNCHANGED <<targets, rules>>
  PROVE  RulesInv'
<1>1. RulesTypeOK'
  BY DEF RulesInv, RulesTypeOK
<1>2. ASSUME NEW x \in Parcels PROVE Learnt(parcel'[x], rules')
  <2>1. parcel'[x] = IF x = p THEN q ELSE parcel[x]
    BY DEF RulesInv, RulesTypeOK
  <2> QED
    BY <2>1 DEF RulesInv
<1> QED
  BY <1>1, <1>2 DEF RulesInv

\* Rules are written, and what was written has stood for nobody.
LEMMA OnlyRules ==
  ASSUME RulesInv, NEW ids, Touch(ids),
         targets' \subseteq Targets,
         rules' \in [RuleIds -> Rule \cup {Unwritten}],
         \A i \in RuleIds \ ids : rules'[i] = rules[i]
  PROVE  RulesInv'
<1>1. ASSUME NEW x \in Parcels
      PROVE  parcel'[x] \in ParcelState /\ Learnt(parcel'[x], rules')
  <2> DEFINE q == parcel[x]
             r == parcel'[x]
             K == Candidates(q.from, q.envelope)
  <2>1. q \in ParcelState /\ Learnt(q, rules)
    BY DEF RulesInv, RulesTypeOK
  <2>2. r = [q EXCEPT !.stood = q.stood \ ids]
    BY DEF Touch
  <2>3. r \in ParcelState
    BY <2>1, <2>2 DEF ParcelState
  <2>4. /\ r.pc = q.pc /\ r.from = q.from /\ r.envelope = q.envelope
        /\ r.next = q.next /\ r.match = q.match /\ r.auth = q.auth
        /\ r.stood = q.stood \ ids
    BY <2>1, <2>2 DEF ParcelState
  <2>5. \A i \in r.stood : i \in q.stood /\ rules'[i] = rules[i]
    BY <2>1, <2>4 DEF ParcelState
  <2> HIDE DEF q, r
  <2>6. \A kind, c : Passed(q, rules, kind, c) => Passed(r, rules', kind, c)
    BY <2>4, <2>5 DEF Passed
  <2>7. Candidates(r.from, r.envelope) = K
    BY <2>4
  <2> HIDE DEF K
  <2>8. Learnt(r, rules')
    BY <2>1, <2>4, <2>5, <2>6, <2>7 DEF Learnt, K
  <2> QED
    BY <2>3, <2>8 DEF r
<1>2. parcel' \in [Parcels -> ParcelState]
  BY <1>1 DEF Touch
<1> QED
  BY <1>1, <1>2 DEF RulesInv, RulesTypeOK

-----------------------------------------------------------------------------
(* Every step.                                                             *)

LEMMA Step_Write ==
  ASSUME RulesInv, NEW i \in RuleIds, NEW rule \in Rule, Write(i, rule)
  PROVE  RulesInv'
<1>1. /\ rules' \in [RuleIds -> Rule \cup {Unwritten}]
      /\ \A j \in RuleIds \ {i} : rules'[j] = rules[j]
  BY DEF Write, RulesInv, RulesTypeOK
<1>2. Touch({i}) /\ targets' \subseteq Targets
  BY DEF Write, RulesInv, RulesTypeOK
<1> QED
  BY <1>1, <1>2, OnlyRules

LEMMA Step_DeleteSenderRule ==
  ASSUME RulesInv, NEW i \in RuleIds, DeleteSenderRule(i)
  PROVE  RulesInv'
<1>1. /\ rules' \in [RuleIds -> Rule \cup {Unwritten}]
      /\ \A j \in RuleIds \ {i} : rules'[j] = rules[j]
  BY DEF DeleteSenderRule, RulesInv, RulesTypeOK
<1>2. Touch({i}) /\ targets' \subseteq Targets
  BY DEF DeleteSenderRule, RulesInv, RulesTypeOK
<1> QED
  BY <1>1, <1>2, OnlyRules

LEMMA Step_DeleteTarget ==
  ASSUME RulesInv, NEW t \in Targets, DeleteTarget(t)
  PROVE  RulesInv'
<1> DEFINE gone == {i \in Written : rules[i].target = t}
<1>1. /\ Touch(gone) /\ targets' = targets \ {t}
      /\ rules' = [i \in RuleIds |-> IF i \in gone THEN Unwritten ELSE rules[i]]
  BY DEF DeleteTarget
<1> HIDE DEF gone
<1>2. /\ rules' \in [RuleIds -> Rule \cup {Unwritten}]
      /\ \A j \in RuleIds \ gone : rules'[j] = rules[j]
      /\ targets' \subseteq Targets
  BY <1>1 DEF RulesInv, RulesTypeOK
<1> QED
  BY <1>1, <1>2, OnlyRules

LEMMA Step_Receive ==
  ASSUME RulesInv, NEW p \in Parcels, Receive(p)
  PROVE  RulesInv'
<1>1. PICK from \in Addresses \cup {NoAddress}, envelope \in Addresses \cup {NoAddress} :
        parcel' = [parcel EXCEPT ![p] =
          [NoParcel EXCEPT !.pc = "exact", !.from = from,
                           !.envelope = envelope, !.stood = Written]]
  BY DEF Receive
<1> DEFINE q == [NoParcel EXCEPT !.pc = "exact", !.from = from,
                                 !.envelope = envelope, !.stood = Written]
<1>2. /\ q.pc = "exact" /\ q.next = 1 /\ q.stood = Written
      /\ q \in ParcelState
  BY RestFacts DEF NoParcel, ParcelState, Written
<1> HIDE DEF q
<1>3. Learnt(q, rules)
  BY <1>2 DEF Learnt, Written
<1>4. UNCHANGED <<targets, rules>>
  BY DEF Receive
<1> QED
  BY <1>1, <1>2, <1>3, <1>4, OneMoves DEF q

\* One statement of the lookup.
LEMMA StepFacts ==
  ASSUME RulesTypeOK, NEW p \in Parcels, NEW pc, NEW next, NEW match,
         pc \in {"exact", "domain", "matched", "unmatched", "filed"},
         next \in 1..3, match \in Match \cup {NoMatch},
         Step(p, pc, next, match)
  PROVE  \E q \in ParcelState :
           /\ parcel' = [parcel EXCEPT ![p] = q]
           /\ q.pc = pc /\ q.next = next /\ q.match = match
           /\ q.from = parcel[p].from /\ q.envelope = parcel[p].envelope
           /\ q.stood = parcel[p].stood /\ q.auth = parcel[p].auth
<1> DEFINE q == [parcel[p] EXCEPT !.pc = pc, !.next = next, !.match = match]
<1>1. parcel[p] \in ParcelState
  BY DEF RulesTypeOK
<1>2. /\ q \in ParcelState
      /\ q.pc = pc /\ q.next = next /\ q.match = match
      /\ q.from = parcel[p].from /\ q.envelope = parcel[p].envelope
      /\ q.stood = parcel[p].stood /\ q.auth = parcel[p].auth
  BY <1>1 DEF ParcelState
<1>3. parcel' = [parcel EXCEPT ![p] = q]
  BY <1>1 DEF Step, RulesTypeOK, ParcelState
<1> QED
  BY <1>2, <1>3

\* A rule that has stood is there to be found.
LEMMA StandingIsFound ==
  ASSUME RulesInv, NEW p \in Parcels, NEW i \in parcel[p].stood, NEW a,
         Covers(rules[i], a)
  PROVE  /\ rules[i].kind = "exact" => i \in Exact(a)
         /\ rules[i].kind = "domain" => i \in Under(a)
         /\ rules[i].kind \in {"exact", "domain"}
<1>1. i \in Written
  BY DEF RulesInv, RulesTypeOK, ParcelState, Learnt, Written
<1> QED
  BY <1>1 DEF Exact, Under, Covers

LEMMA Step_TryExact ==
  ASSUME RulesInv, NEW p \in Parcels, TryExact(p)
  PROVE  RulesInv'
<1> DEFINE c == parcel[p].next
           K == Candidates(parcel[p].from, parcel[p].envelope)
<1>1. /\ parcel[p].pc = "exact" /\ UNCHANGED <<targets, rules>>
      /\ c \in 1..3
      /\ RulesTypeOK /\ Learnt(parcel[p], rules)
      /\ Tried(p) = K /\ Len(K) \in 0..2
      /\ \A d \in 1..Len(K) : K[d].address \in Addresses
  BY ParcelFacts DEF TryExact, RulesInv, ParcelState
<1>2. \A d \in 1..Len(K) : d < c => Passed(parcel[p], rules, "exact", d)
  BY <1>1 DEF Learnt
<1> HIDE DEF c, K
<1>3. CASE c > Len(K)
  <2>1. Step(p, "domain", 1, NoMatch)
    BY <1>1, <1>3 DEF TryExact, c
  <2>2. PICK q \in ParcelState :
          /\ parcel' = [parcel EXCEPT ![p] = q]
          /\ q.pc = "domain" /\ q.next = 1
          /\ q.from = parcel[p].from /\ q.envelope = parcel[p].envelope
          /\ q.stood = parcel[p].stood
    BY <1>1, <2>1, StepFacts
  <2>3. ASSUME NEW d \in 1..Len(K)
        PROVE  Passed(q, rules, "exact", d) /\ ~(d < q.next)
    BY <1>1, <1>2, <1>3, <2>2 DEF Passed
  <2>4. Learnt(q, rules)
    BY <1>1, <2>2, <2>3 DEF Learnt, K
  <2> QED
    BY <1>1, <2>2, <2>4, OneMoves
<1>4. CASE c <= Len(K) /\ Exact(K[c].address) # {}
  <2> DEFINE m == [rank |-> c, kind |-> "exact", width |-> 0]
  <2>1. Step(p, "matched", c, m)
    BY <1>1, <1>4 DEF TryExact, c
  <2>2. m \in Match \cup {NoMatch}
    BY <1>1 DEF Match
  <2>3. PICK q \in ParcelState :
          /\ parcel' = [parcel EXCEPT ![p] = q]
          /\ q.pc = "matched" /\ q.match = m
          /\ q.from = parcel[p].from /\ q.envelope = parcel[p].envelope
          /\ q.stood = parcel[p].stood
    BY <1>1, <2>1, <2>2, StepFacts
  <2>4. ASSUME NEW i \in q.stood, NEW d \in 1..Len(K), Covers(rules[i], K[d].address)
        PROVE  ~Beats(rules[i], d, m)
    BY <1>2, <2>3, <2>4, StandingIsFound DEF Passed, Beats, K
  <2>5. Learnt(q, rules)
    BY <1>1, <1>4, <2>3, <2>4 DEF Learnt, K
  <2> QED
    BY <1>1, <2>3, <2>5, OneMoves
<1>5. CASE c <= Len(K) /\ Exact(K[c].address) = {}
  <2>1. Step(p, "exact", c + 1, NoMatch)
    BY <1>1, <1>5 DEF TryExact, c
  <2>2. PICK q \in ParcelState :
          /\ parcel' = [parcel EXCEPT ![p] = q]
          /\ q.pc = "exact" /\ q.next = c + 1
          /\ q.from = parcel[p].from /\ q.envelope = parcel[p].envelope
          /\ q.stood = parcel[p].stood
    BY <1>1, <1>5, <2>1, StepFacts
  <2>3. ASSUME NEW d \in 1..Len(K), d < q.next
        PROVE  Passed(q, rules, "exact", d)
    <3>1. CASE d < c
      BY <1>2, <2>2, <3>1 DEF Passed
    <3>2. CASE d = c
      BY <1>5, <2>2, <3>2, StandingIsFound DEF Passed, K
    <3> QED
      BY <1>1, <2>2, <2>3, <3>1, <3>2
  <2>4. Learnt(q, rules)
    BY <1>1, <2>2, <2>3 DEF Learnt, K
  <2> QED
    BY <1>1, <2>2, <2>4, OneMoves
<1> QED
  BY <1>1, <1>3, <1>4, <1>5

LEMMA Step_TryDomain ==
  ASSUME RulesInv, NEW p \in Parcels, TryDomain(p)
  PROVE  RulesInv'
<1> DEFINE c == parcel[p].next
           K == Candidates(parcel[p].from, parcel[p].envelope)
<1>1. /\ parcel[p].pc = "domain" /\ UNCHANGED <<targets, rules>>
      /\ c \in 1..3
      /\ RulesTypeOK /\ Learnt(parcel[p], rules)
      /\ Tried(p) = K /\ Len(K) \in 0..2
      /\ \A d \in 1..Len(K) : K[d].address \in Addresses
  BY ParcelFacts DEF TryDomain, RulesInv, ParcelState
<1>2. \A d \in 1..Len(K) : /\ Passed(parcel[p], rules, "exact", d)
                           /\ d < c => Passed(parcel[p], rules, "domain", d)
  BY <1>1 DEF Learnt
<1> HIDE DEF c, K
<1>3. CASE c > Len(K)
  <2>1. Step(p, "unmatched", 1, NoMatch)
    BY <1>1, <1>3 DEF TryDomain, c
  <2>2. PICK q \in ParcelState :
          /\ parcel' = [parcel EXCEPT ![p] = q]
          /\ q.pc = "unmatched" /\ q.match = NoMatch
          /\ q.from = parcel[p].from /\ q.envelope = parcel[p].envelope
          /\ q.stood = parcel[p].stood
    BY <1>1, <2>1, StepFacts
  <2>3. ASSUME NEW i \in q.stood, NEW d \in 1..Len(K)
        PROVE  ~Covers(rules[i], K[d].address)
    BY <1>1, <1>2, <1>3, <2>2, StandingIsFound DEF Passed, K
  <2>4. Learnt(q, rules)
    BY <1>1, <2>2, <2>3 DEF Learnt, K
  <2> QED
    BY <1>1, <2>2, <2>4, OneMoves
<1>4. CASE c <= Len(K) /\ Under(K[c].address) # {}
  <2> DEFINE w == MostSpecific(Under(K[c].address))
             m == [rank |-> c, kind |-> "domain", width |-> w]
  <2>1. Step(p, "matched", c, m)
    BY <1>1, <1>4 DEF TryDomain, c
  <2>2. /\ w \in Nat
        /\ \A i \in Under(K[c].address) : w >= Width[rules[i].value]
    BY <1>1, <1>4, MostSpecificFacts DEF RulesTypeOK
  <2> HIDE DEF w
  <2>3. m \in Match \cup {NoMatch}
    BY <1>1, <2>2 DEF Match
  <2>4. PICK q \in ParcelState :
          /\ parcel' = [parcel EXCEPT ![p] = q]
          /\ q.pc = "matched" /\ q.match = m
          /\ q.from = parcel[p].from /\ q.envelope = parcel[p].envelope
          /\ q.stood = parcel[p].stood
    BY <1>1, <2>1, <2>3, StepFacts
  <2>5. ASSUME NEW i \in q.stood, NEW d \in 1..Len(K), Covers(rules[i], K[d].address)
        PROVE  ~Beats(rules[i], d, m)
    <3>1. rules[i].kind = "domain" /\ i \in Under(K[d].address)
      BY <1>2, <2>4, <2>5, StandingIsFound DEF Passed, K
    <3>2. ~(d < c)
      BY <1>2, <2>4, <2>5, <3>1 DEF Passed, K
    <3>3. Width[rules[i].value] \in Nat
      <4>1. rules[i].value \in LiesUnder[K[d].address]
        BY <3>1 DEF Under, Covers
      <4>2. rules[i].value \in Domains
        BY <1>1, <4>1, DomainAssumption
      <4> QED
        BY <4>2, WidthType
    <3>4. d = c => ~(Width[rules[i].value] > w)
      BY <2>2, <3>1, <3>3
    <3> QED
      BY <3>1, <3>2, <3>4 DEF Beats
  <2>6. Learnt(q, rules)
    BY <1>1, <1>4, <2>4, <2>5 DEF Learnt, K
  <2> QED
    BY <1>1, <2>4, <2>6, OneMoves
<1>5. CASE c <= Len(K) /\ Under(K[c].address) = {}
  <2>1. Step(p, "domain", c + 1, NoMatch)
    BY <1>1, <1>5 DEF TryDomain, c
  <2>2. PICK q \in ParcelState :
          /\ parcel' = [parcel EXCEPT ![p] = q]
          /\ q.pc = "domain" /\ q.next = c + 1
          /\ q.from = parcel[p].from /\ q.envelope = parcel[p].envelope
          /\ q.stood = parcel[p].stood
    BY <1>1, <1>5, <2>1, StepFacts
  <2>3. ASSUME NEW d \in 1..Len(K)
        PROVE  /\ Passed(q, rules, "exact", d)
               /\ d < q.next => Passed(q, rules, "domain", d)
    <3>1. CASE d < c
      BY <1>2, <2>2, <3>1 DEF Passed
    <3>2. CASE d = c
      BY <1>2, <1>5, <2>2, <3>2, StandingIsFound DEF Passed, K
    <3>3. CASE d > c
      BY <1>1, <1>2, <2>2, <3>3 DEF Passed
    <3> QED
      BY <1>1, <3>1, <3>2, <3>3
  <2>4. Learnt(q, rules)
    BY <1>1, <2>2, <2>3 DEF Learnt, K
  <2> QED
    BY <1>1, <2>2, <2>4, OneMoves
<1> QED
  BY <1>1, <1>3, <1>4, <1>5

LEMMA Step_Judge ==
  ASSUME RulesInv, NEW p \in Parcels, Judge(p)
  PROVE  RulesInv'
<1>1. /\ parcel[p].pc = "matched" /\ UNCHANGED <<targets, rules>>
      /\ parcel[p] \in ParcelState /\ Learnt(parcel[p], rules)
      /\ Tried(p) = Candidates(parcel[p].from, parcel[p].envelope)
  BY DEF Judge, RulesInv, RulesTypeOK, Tried
<1>2. CASE EndParcel(p)
  BY <1>1, <1>2, RestFacts, OneMoves DEF EndParcel
<1>3. ASSUME NEW auth \in Verdicts,
             Trusted(auth, Tried(p)[parcel[p].match.rank].source),
             parcel' = [parcel EXCEPT ![p].pc = "filed", ![p].auth = auth]
      PROVE  RulesInv'
  <2> DEFINE q == [parcel[p] EXCEPT !.pc = "filed", !.auth = auth]
  <2>1. /\ q \in ParcelState
        /\ q.pc = "filed" /\ q.auth = auth /\ q.match = parcel[p].match
        /\ q.from = parcel[p].from /\ q.envelope = parcel[p].envelope
        /\ q.stood = parcel[p].stood
    BY <1>1 DEF ParcelState
  <2>2. parcel' = [parcel EXCEPT ![p] = q]
    BY <1>1, <1>3 DEF RulesInv, RulesTypeOK, ParcelState
  <2> HIDE DEF q
  <2>3. Learnt(q, rules)
    BY <1>1, <1>3, <2>1 DEF Learnt
  <2> QED
    BY <1>1, <2>1, <2>2, <2>3, OneMoves
<1> QED
  BY <1>2, <1>3 DEF Judge

LEMMA RulesInvStep ==
  ASSUME RulesInv, [RulesNext]_rulesVars
  PROVE  RulesInv'
<1>1. CASE \E i \in RuleIds :
             CreateSenderRule(i) \/ UpdateSenderRule(i) \/ DeleteSenderRule(i)
  BY <1>1, Step_Write, Step_DeleteSenderRule DEF CreateSenderRule, UpdateSenderRule
<1>2. CASE \E t \in Targets : DeleteTarget(t)
  BY <1>2, Step_DeleteTarget
<1>3. ASSUME NEW p \in Parcels, Classify(p) PROVE RulesInv'
  <2>1. CASE Dispose(p)
    BY <2>1, RestFacts, OneMoves DEF Dispose, EndParcel
  <2> QED
    BY <1>3, <2>1, Step_Receive, Step_TryExact, Step_TryDomain, Step_Judge
    DEF Classify
<1>4. CASE UNCHANGED rulesVars
  BY <1>4 DEF rulesVars, RulesInv, RulesTypeOK
<1> QED
  BY <1>1, <1>2, <1>3, <1>4 DEF RulesNext

-----------------------------------------------------------------------------
(* What classification promises.                                           *)

\* Rules and classifications keep their shapes, and what a classification has
\* ruled out stays ruled out: the invariant the theorems below lean on.
THEOREM RulesInvariant == RulesSpec => []RulesInv
<1>1. RulesInit => RulesInv
  BY InitRulesInv
<1>2. RulesInv /\ [RulesNext]_rulesVars => RulesInv'
  BY RulesInvStep
<1> QED
  BY <1>1, <1>2, PTL DEF RulesSpec

\* FindProviderMatch reads the rules in several statements while the owner
\* edits them; a rule that nobody touched in between never loses to a weaker
\* one, and never covers a mail that is left unmatched.
THEOREM StandingRulesWin == RulesSpec => []StandingRuleWins
<1>1. RulesInv => StandingRuleWins
  BY ParcelFacts DEF RulesInv, Learnt, StandingRuleWins
<1> QED
  BY <1>1, RulesInvariant, PTL

\* Verdict and normalizeCandidates: mail is filed on its visible From only
\* when DKIM or DMARC vouches for it, even if the envelope sender is the same.
THEOREM VisibleSenderVouched == RulesSpec => []VisibleSenderIsVouchedFor
<1>1. ASSUME RulesInv, NEW p \in Parcels, parcel[p].pc = "filed", parcel[p].auth.stamped
      PROVE  /\ parcel[p].auth.dmarc # "fail"
             /\ IF Tried(p)[parcel[p].match.rank].address = parcel[p].from
                THEN "pass" \in {parcel[p].auth.dkim, parcel[p].auth.dmarc}
                ELSE parcel[p].auth.spf = "pass"
  <2> DEFINE q == parcel[p]
             K == Candidates(q.from, q.envelope)
  <2>1. /\ q \in ParcelState /\ Tried(p) = K
        /\ q.match.rank \in 1..Len(K)
        /\ Trusted(q.auth, K[q.match.rank].source)
    BY <1>1, ParcelFacts DEF RulesInv, Learnt
  <2>2. K[q.match.rank].address = q.from <=> K[q.match.rank].source = "header"
    <3>1. q.from \in Addresses \cup {NoAddress} /\ q.envelope \in Addresses \cup {NoAddress}
      BY <2>1 DEF ParcelState
    <3> QED
      BY <2>1, <3>1, CandidatesFacts
  <2> QED
    BY <1>1, <2>1, <2>2 DEF Trusted
<1>2. RulesInv => VisibleSenderIsVouchedFor
  BY <1>1 DEF VisibleSenderIsVouchedFor
<1> QED
  BY <1>2, RulesInvariant, PTL

-----------------------------------------------------------------------------
(* The inbox.                                                              *)

\* No two providers have one key.
KeysDiffer ==
  \A s, t \in Shelves : label[s] = label[t] /\ label[s] # NoLabel => s = t

\* A row in a list, or on a page, has come at some moment.
HasCome ==
  \A m \in Mails : place[m] # Nowhere \/ m \in walk.shown => arrived[m] # 0

\* What the request in flight may read, and what it has found.
Rightful ==
  /\ InRequest => Readable(reader) \subseteq walk.could
  /\ InRequest /\ walk.role = "owner" => Shelves \subseteq walk.could
  /\ walk.pc \in {"allowed", "found"} /\ walk.want # Queue /\ ~walk.rekeyed =>
       Holder(walk.want) \subseteq walk.could
  /\ ~walk.foreign

Tied(m) == \E n \in walk.shown : arrived[n] = arrived[m]

\* Behind the cursor is what was shown, before it what is still to come.
Parted ==
  /\ ~walk.repeated
  /\ walk.stood \subseteq Listed(walk.want)
  /\ walk.pc = "idle" => walk.cursor = 0
  /\ walk.pc # "over" =>
       /\ walk.cursor = 0 => walk.shown = {} /\ walk.stood = {}
       /\ walk.cursor # 0 => \A m \in walk.shown : arrived[m] >= walk.cursor
       /\ \A m \in walk.stood \ walk.shown : arrived[m] < walk.cursor \/ Tied(m)
  /\ walk.pc = "over" => \A m \in walk.stood \ walk.shown : Tied(m)

InboxInv == InboxTypeOK /\ KeysDiffer /\ HasCome /\ Rightful /\ Parted

LEMMA WalkFacts ==
  ASSUME InboxTypeOK
  PROVE  /\ walk \in WalkState
         /\ walk.want \in Labels \cup {Queue} /\ walk.role \in ReaderRoles
         /\ walk.cursor \in Moments \cup {0} /\ walk.cursor \in Nat
         /\ walk.stood \in SUBSET Mails /\ walk.shown \in SUBSET Mails
         /\ walk.repeated \in BOOLEAN /\ walk.could \in SUBSET Shelves
         /\ walk.rekeyed \in BOOLEAN /\ walk.foreign \in BOOLEAN
         /\ \A m \in Mails : arrived[m] \in Nat
<1>1. Moments \cup {0} \subseteq Nat
  BY PagingAssumption
<1>2. \A m \in Mails : arrived[m] \in Nat
  BY <1>1 DEF InboxTypeOK
<1>3. walk \in WalkState
  BY DEF InboxTypeOK
<1> QED
  BY <1>1, <1>2, <1>3 DEF WalkState

LEMMA NoWalkFacts ==
  /\ NoWalk \in WalkState
  /\ NoWalk.pc = "idle" /\ NoWalk.cursor = 0 /\ NoWalk.stood = {}
  /\ NoWalk.shown = {} /\ ~NoWalk.repeated /\ ~NoWalk.foreign
  BY DEF NoWalk, WalkState, ReaderRoles

LEMMA InboxInitInv == InboxInit => InboxInv
<1> SUFFICES ASSUME InboxInit PROVE InboxInv
  OBVIOUS
<1>1. InboxTypeOK
  BY NoWalkFacts DEF InboxInit, InboxTypeOK, ReaderRoles
<1>2. KeysDiffer /\ HasCome
  BY NoWalkFacts DEF InboxInit, KeysDiffer, HasCome
<1>3. Rightful /\ Parted
  BY NoWalkFacts DEF InboxInit, Rightful, Parted, InRequest
<1> QED
  BY <1>1, <1>2, <1>3 DEF InboxInv

\* The walk is given up: nothing is remembered of it.
LEMMA InboxGivesUp ==
  ASSUME InboxInv, walk' = NoWalk, UNCHANGED <<label, reader, place, arrived>>
  PROVE  InboxInv'
<1>1. InboxTypeOK'
  BY NoWalkFacts DEF InboxInv, InboxTypeOK
<1>2. KeysDiffer' /\ HasCome'
  BY NoWalkFacts DEF InboxInv, KeysDiffer, HasCome
<1>3. Rightful' /\ Parted'
  BY NoWalkFacts DEF Rightful, Parted, InRequest
<1> QED
  BY <1>1, <1>2, <1>3 DEF InboxInv

-----------------------------------------------------------------------------
(* The pages.                                                              *)

LEMMA InboxEnters ==
  ASSUME InboxInv, walk' \in WalkState,
         walk'.pc = "entered" \/ (walk'.pc = "found" /\ walk'.want = Queue),
         walk.pc = "idle" \/ (walk.pc = "between" /\ walk'.want = walk.want),
         walk'.role = reader.role, walk'.could = Readable(reader),
         walk'.cursor = walk.cursor, walk'.stood = walk.stood,
         walk'.shown = walk.shown, walk'.repeated = walk.repeated,
         walk'.foreign = walk.foreign,
         UNCHANGED <<label, reader, place, arrived>>
  PROVE  InboxInv'
<1>1. InboxTypeOK' /\ KeysDiffer' /\ HasCome'
  BY DEF InboxInv, InboxTypeOK, KeysDiffer, HasCome
<1>2. Rightful'
  BY DEF InboxInv, Rightful, InRequest, Readable
<1>3. Parted'
  BY DEF InboxInv, Parted, Listed, Holder, Tied
<1> QED
  BY <1>1, <1>2, <1>3 DEF InboxInv

LEMMA EnterFacts ==
  ASSUME InboxInv, NEW want \in Labels \cup {Queue}, Enter(want)
  PROVE  /\ walk' \in WalkState /\ walk'.want = want
         /\ walk'.pc = "entered" \/ (walk'.pc = "found" /\ walk'.want = Queue)
         /\ walk'.role = reader.role /\ walk'.could = Readable(reader)
         /\ walk'.cursor = walk.cursor /\ walk'.stood = walk.stood
         /\ walk'.shown = walk.shown /\ walk'.repeated = walk.repeated
         /\ walk'.foreign = walk.foreign
         /\ UNCHANGED <<label, reader, place, arrived>>
<1> DEFINE pc == IF want = Queue THEN "found" ELSE "entered"
<1>1. /\ walk' = [walk EXCEPT !.pc = pc, !.want = want, !.role = reader.role,
                              !.could = Readable(reader), !.rekeyed = FALSE]
      /\ UNCHANGED <<label, reader, place, arrived>>
  BY DEF Enter
<1>2. pc = "entered" \/ (pc = "found" /\ want = Queue)
  OBVIOUS
<1> HIDE DEF pc
<1>3. reader.role \in ReaderRoles /\ Readable(reader) \in SUBSET Shelves
  BY DEF InboxInv, InboxTypeOK, Readable
<1>4. walk \in WalkState
  BY DEF InboxInv, InboxTypeOK
<1> QED
  BY <1>1, <1>2, <1>3, <1>4 DEF WalkState

LEMMA Step_FirstPage ==
  ASSUME InboxInv, FirstPage
  PROVE  InboxInv'
<1>1. walk.pc = "idle" /\ \E want \in Labels \cup {Queue} : Enter(want)
  BY DEF FirstPage
<1>2. PICK want \in Labels \cup {Queue} : Enter(want)
  BY <1>1, Zenon
<1> QED
  BY <1>1, <1>2, EnterFacts, InboxEnters

LEMMA Step_NextPage ==
  ASSUME InboxInv, NextPage
  PROVE  InboxInv'
<1>1. walk.pc = "between" /\ Enter(walk.want) /\ walk.want \in Labels \cup {Queue}
  BY WalkFacts DEF NextPage, InboxInv
<1> QED
  BY <1>1, EnterFacts, InboxEnters

\* The request goes on from one statement to the next.
LEMMA InboxGoesOn ==
  ASSUME InboxInv, NEW pc \in {"allowed", "found"}, InRequest,
         walk' = [walk EXCEPT !.pc = pc],
         walk.want # Queue /\ ~walk.rekeyed => Holder(walk.want) \subseteq walk.could,
         UNCHANGED <<label, reader, place, arrived>>
  PROVE  InboxInv'
<1>1. walk \in WalkState
  BY DEF InboxInv, InboxTypeOK
<1>2. /\ walk' \in WalkState
      /\ walk'.pc = pc /\ walk'.want = walk.want /\ walk'.role = walk.role
      /\ walk'.could = walk.could /\ walk'.rekeyed = walk.rekeyed
      /\ walk'.cursor = walk.cursor /\ walk'.stood = walk.stood
      /\ walk'.shown = walk.shown /\ walk'.repeated = walk.repeated
      /\ walk'.foreign = walk.foreign
  BY <1>1 DEF WalkState
<1>3. InboxTypeOK' /\ KeysDiffer' /\ HasCome'
  BY <1>2 DEF InboxInv, InboxTypeOK, KeysDiffer, HasCome
<1>4. Rightful'
  BY <1>2 DEF InboxInv, Rightful, InRequest, Readable, Holder
<1>5. Parted'
  BY <1>2 DEF InboxInv, Parted, InRequest, Listed, Holder, Tied
<1> QED
  BY <1>3, <1>4, <1>5 DEF InboxInv

LEMMA Step_CheckAccess ==
  ASSUME InboxInv, CheckAccess
  PROVE  InboxInv'
<1>1. CASE MayReadProvider
  <2>1. InRequest /\ walk' = [walk EXCEPT !.pc = "allowed"]
    BY <1>1 DEF CheckAccess, InRequest
  <2>2. Readable(reader) \subseteq walk.could
    BY <2>1 DEF InboxInv, Rightful
  <2>3. walk.want # Queue => Holder(walk.want) \subseteq walk.could
    <3>1. CASE walk.role = "owner"
      BY <2>1, <3>1 DEF InboxInv, Rightful, Holder
    <3>2. CASE walk.role # "owner"
      <4>1. PICK s \in reader.granted : label[s] = walk.want
        BY <1>1, <3>2 DEF MayReadProvider
      <4>2. s \in Shelves /\ s \in Readable(reader)
        BY <4>1 DEF InboxInv, InboxTypeOK, Readable
      <4>3. walk.want # Queue => walk.want # NoLabel
        BY WalkFacts, PlaceAssumption DEF InboxInv
      <4> QED
        BY <2>2, <4>1, <4>2, <4>3 DEF InboxInv, KeysDiffer, Holder
    <3> QED
      BY <3>1, <3>2
  <2> QED
    BY <2>1, <2>3, InboxGoesOn DEF CheckAccess
<1>2. CASE ~MayReadProvider
  BY <1>2, InboxGivesUp DEF CheckAccess
<1> QED
  BY <1>1, <1>2

LEMMA Step_FindProvider ==
  ASSUME InboxInv, FindProvider
  PROVE  InboxInv'
<1>1. CASE Holder(walk.want) # {}
  BY <1>1, InboxGoesOn DEF FindProvider, InRequest, InboxInv, Rightful
<1>2. CASE Holder(walk.want) = {}
  BY <1>2, InboxGivesUp DEF FindProvider
<1> QED
  BY <1>1, <1>2

LEMMA EarliestExists ==
  ASSUME NEW S, S \subseteq Nat, S # {}
  PROVE  \E t \in S : \A u \in S : t <= u
<1>1. PICK t \in S : \A u \in S : <<u, t>> \notin OpToRel(<, Nat)
  BY WFMin, NatLessThanWellFounded, Zenon
<1>2. \A u \in S : ~(u < t)
  BY <1>1 DEF OpToRel
<1> QED
  BY <1>2

\* Whoever is in a list has come, at a moment.
LEMMA ListedFacts ==
  ASSUME InboxInv, NEW m \in Listed(walk.want)
  PROVE  /\ m \in Mails /\ arrived[m] \in Moments
         /\ arrived[m] \in Nat /\ arrived[m] # 0
<1>1. m \in Mails /\ place[m] # Nowhere
  BY PlaceAssumption DEF Listed, Holder
<1>2. arrived[m] # 0
  BY <1>1 DEF InboxInv, HasCome
<1> QED
  BY <1>1, <1>2, WalkFacts DEF InboxInv, InboxTypeOK

\* A page that is not the last has a row on it, and its cursor is that of the
\* earliest.
LEMMA PageFacts ==
  ASSUME InboxInv, NEW rows \in SUBSET Listed(walk.want), NEW page \in Newest(rows),
         page # rows
  PROVE  /\ CursorOf(page, rows) \in Moments
         /\ CursorOf(page, rows) \in Nat /\ CursorOf(page, rows) # 0
         /\ \E m \in page : arrived[m] = CursorOf(page, rows)
         /\ \A m \in page : CursorOf(page, rows) <= arrived[m]
<1>1. /\ page \subseteq rows
      /\ Cardinality(page) =
           IF Cardinality(rows) > PageLimit THEN PageLimit ELSE Cardinality(rows)
  BY DEF Newest
<1>2. \A m \in rows : m \in Mails /\ arrived[m] \in Moments /\ arrived[m] \in Nat
                      /\ arrived[m] # 0
  BY ListedFacts
<1>3. IsFiniteSet(rows) /\ IsFiniteSet(page)
  <2>1. rows \subseteq Mails
    BY <1>2
  <2> QED
    BY <1>1, <2>1, PagingAssumption, FS_Subset
<1>4. page # {}
  <2>1. SUFFICES ASSUME page = {} PROVE FALSE
    OBVIOUS
  <2>2. Cardinality(page) = 0
    BY <1>3, <2>1, FS_EmptySet
  <2>3. Cardinality(rows) \in Nat /\ Cardinality(rows) # 0
    BY <1>3, <2>1, FS_EmptySet, FS_CardinalityType
  <2> QED
    BY <1>1, <2>2, <2>3, PagingAssumption
<1> DEFINE S == {arrived[m] : m \in page}
<1>5. S \subseteq Nat /\ S # {} /\ S \subseteq Moments
  BY <1>1, <1>2, <1>4
<1>6. \E t \in S : \A u \in S : t <= u
  BY <1>5, EarliestExists
<1>7. \E t \in S : \A n \in page : t <= arrived[n]
  BY <1>6
<1>8. CursorOf(page, rows) \in S /\ \A n \in page : CursorOf(page, rows) <= arrived[n]
  BY <1>7 DEF CursorOf
<1> QED
  BY <1>1, <1>2, <1>5, <1>8

LEMMA Step_ReadPage ==
  ASSUME InboxInv, ReadPage
  PROVE  InboxInv'
<1> DEFINE rows == {m \in Listed(walk.want) : OlderThanCursor(m)}
<1>1. PICK page \in Newest(rows) :
        walk' = [walk EXCEPT
          !.pc = IF page = rows THEN "over" ELSE "between",
          !.cursor = IF page = rows THEN walk.cursor ELSE CursorOf(page, rows),
          !.stood = IF walk.cursor = 0 THEN Listed(walk.want) ELSE walk.stood,
          !.shown = walk.shown \cup page,
          !.repeated = walk.repeated \/ page \cap walk.shown # {},
          !.could = {},
          !.rekeyed = FALSE,
          !.foreign = walk.foreign \/ Foreign(page)]
  BY DEF ReadPage
<1> DEFINE pc == IF page = rows THEN "over" ELSE "between"
           cursor == IF page = rows THEN walk.cursor ELSE CursorOf(page, rows)
           stood == IF walk.cursor = 0 THEN Listed(walk.want) ELSE walk.stood
           repeated == walk.repeated \/ page \cap walk.shown # {}
           foreign == walk.foreign \/ Foreign(page)
<1>2. walk.pc = "found" /\ UNCHANGED <<label, reader, place, arrived>>
  BY DEF ReadPage
<1>3. page \subseteq rows /\ rows \subseteq Listed(walk.want)
  BY DEF Newest
<1>4. \A m \in Listed(walk.want) : /\ m \in Mails /\ arrived[m] \in Moments
                                   /\ arrived[m] \in Nat /\ arrived[m] # 0
  BY ListedFacts
<1>5. /\ walk \in WalkState /\ walk.cursor \in Nat
      /\ walk.cursor \in Moments \cup {0}
      /\ walk.stood \in SUBSET Mails /\ walk.shown \in SUBSET Mails
      /\ \A m \in Mails : arrived[m] \in Nat
  BY WalkFacts DEF InboxInv
<1>6. ~repeated
  <2>1. ASSUME NEW m \in page, m \in walk.shown PROVE FALSE
    <3>1. m \in Mails /\ arrived[m] \in Nat /\ OlderThanCursor(m)
      BY <1>3, <1>4, <2>1
    <3>2. CASE walk.cursor = 0
      BY <1>2, <2>1, <3>2 DEF InboxInv, Parted
    <3>3. CASE walk.cursor # 0
      <4>1. arrived[m] >= walk.cursor
        BY <1>2, <2>1, <3>3 DEF InboxInv, Parted
      <4> QED
        BY <1>5, <3>1, <3>3, <4>1 DEF OlderThanCursor
    <3> QED
      BY <3>2, <3>3
  <2> QED
    BY <2>1 DEF InboxInv, Parted
<1>7. ~foreign
  <2>1. ~walk.foreign
    BY DEF InboxInv, Rightful
  <2>2. ASSUME Foreign(page) PROVE FALSE
    <3>1. PICK m \in page : place[m] \notin walk.could
      BY <2>2 DEF Foreign
    <3>2. walk.want # Queue /\ Holder(walk.want) \subseteq walk.could
      BY <1>2, <2>2 DEF Foreign, InboxInv, Rightful
    <3>3. place[m] \in Holder(walk.want)
      BY <1>3, <3>1, <3>2 DEF Listed
    <3> QED
      BY <3>1, <3>2, <3>3
  <2> QED
    BY <2>1, <2>2
<1>8. page # rows =>
        /\ CursorOf(page, rows) \in Moments
        /\ CursorOf(page, rows) \in Nat /\ CursorOf(page, rows) # 0
        /\ \E m \in page : arrived[m] = CursorOf(page, rows)
        /\ \A m \in page : CursorOf(page, rows) <= arrived[m]
  BY <1>3, PageFacts
<1>9. /\ pc \in {"over", "between"}
      /\ pc = "over" => page = rows
      /\ pc = "between" => page # rows /\ cursor = CursorOf(page, rows)
      /\ cursor \in Moments \cup {0}
      /\ stood \in SUBSET Mails
      /\ walk.shown \cup page \in SUBSET Mails
      /\ repeated \in BOOLEAN /\ foreign \in BOOLEAN
  BY <1>3, <1>4, <1>5, <1>6, <1>7, <1>8
<1>10. stood \subseteq Listed(walk.want)
  BY DEF InboxInv, Parted
\* Whoever stood and is on no page yet ties with one that is, or is among the
\* rows this page is cut from.
<1>11. ASSUME NEW m \in stood, m \notin walk.shown
       PROVE  Tied(m) \/ m \in rows
  <2>1. CASE walk.cursor = 0
    BY <2>1 DEF OlderThanCursor
  <2>2. CASE walk.cursor # 0
    <3>1. arrived[m] < walk.cursor \/ Tied(m)
      BY <1>2, <1>11, <2>2 DEF InboxInv, Parted
    <3> QED
      BY <1>10, <3>1 DEF OlderThanCursor
  <2> QED
    BY <2>1, <2>2
<1> HIDE DEF rows, pc, cursor, stood, repeated, foreign
<1>12. walk' = [walk EXCEPT !.pc = pc, !.cursor = cursor, !.stood = stood,
                            !.shown = walk.shown \cup page, !.repeated = repeated,
                            !.could = {}, !.rekeyed = FALSE, !.foreign = foreign]
  BY <1>1 DEF rows, pc, cursor, stood, repeated, foreign
<1>13. /\ walk' \in WalkState
       /\ walk'.pc = pc /\ walk'.want = walk.want /\ walk'.cursor = cursor
       /\ walk'.stood = stood /\ walk'.shown = walk.shown \cup page
       /\ walk'.repeated = repeated /\ walk'.foreign = foreign
  BY <1>5, <1>9, <1>12 DEF WalkState
<1>14. InboxTypeOK' /\ KeysDiffer'
  BY <1>2, <1>13 DEF InboxInv, InboxTypeOK, KeysDiffer
<1>15. HasCome'
  BY <1>2, <1>3, <1>4, <1>13 DEF InboxInv, HasCome
<1>16. Rightful'
  BY <1>7, <1>9, <1>13 DEF Rightful, InRequest
<1>17. ASSUME NEW m \in stood, m \notin walk.shown \cup page
       PROVE  \/ \E n \in walk.shown \cup page : arrived[n] = arrived[m]
              \/ pc = "between" /\ arrived[m] < cursor
  <2>1. CASE Tied(m)
    BY <2>1 DEF Tied
  <2>2. CASE m \in rows
    <3>1. page # rows
      BY <1>17, <2>2
    <3>2. pc = "between" /\ cursor = CursorOf(page, rows)
      BY <1>9, <3>1
    <3>3. PICK n \in page : arrived[n] = cursor
      BY <1>8, <3>1, <3>2
    <3>4. arrived[n] >= arrived[m]
      BY <1>17, <2>2 DEF Newest
    <3>5. arrived[m] \in Nat /\ arrived[n] \in Nat
      BY <1>3, <1>4, <2>2
    <3> QED
      BY <3>2, <3>3, <3>4, <3>5
  <2> QED
    BY <1>11, <1>17, <2>1, <2>2
<1>18. ASSUME pc = "between", NEW m \in walk.shown \cup page
       PROVE  arrived[m] >= cursor
  <2>1. page # rows /\ cursor = CursorOf(page, rows) /\ cursor \in Nat
    BY <1>8, <1>9, <1>18
  <2>2. CASE m \in page
    BY <1>3, <1>4, <1>8, <2>1, <2>2
  <2>3. CASE m \in walk.shown
    <3>1. walk.cursor # 0 /\ arrived[m] >= walk.cursor
      BY <1>2, <2>3 DEF InboxInv, Parted
    <3>2. PICK n \in page : arrived[n] = cursor
      BY <1>8, <2>1
    <3>3. arrived[n] < walk.cursor
      BY <1>3, <3>1, <3>2 DEF rows, OlderThanCursor
    <3>4. arrived[m] \in Nat
      BY <1>5, <2>3
    <3> QED
      BY <1>5, <2>1, <3>1, <3>2, <3>3, <3>4
  <2> QED
    BY <1>18, <2>2, <2>3
<1>19. pc = "between" => cursor # 0
  BY <1>8, <1>9
<1>20. stood \subseteq Listed(walk.want)'
  BY <1>2, <1>10, <1>13 DEF Listed, Holder
<1>21. Parted'
  BY <1>2, <1>6, <1>9, <1>13, <1>17, <1>18, <1>19, <1>20 DEF Parted, Tied
<1> QED
  BY <1>14, <1>15, <1>16, <1>21 DEF InboxInv

-----------------------------------------------------------------------------
(* What else happens to the inbox meanwhile.                               *)

LEMMA Step_EnterList ==
  ASSUME InboxInv, NEW m \in Mails, NEW t \in Moments, EnterList(m, t)
  PROVE  InboxInv'
<1>1. PICK where \in {Queue} \cup {s \in Shelves : OnShelf(s)} :
        place' = [place EXCEPT ![m] = where]
  BY DEF EnterList
<1>2. /\ place[m] = Nowhere /\ arrived[m] = 0
      /\ arrived' = [arrived EXCEPT ![m] = t] /\ UNCHANGED <<label, reader, walk>>
      /\ t # 0
  BY PagingAssumption DEF EnterList
<1>3. /\ \A n \in Mails \ {m} : place'[n] = place[n] /\ arrived'[n] = arrived[n]
      /\ arrived'[m] = t
  BY <1>1, <1>2 DEF InboxInv, InboxTypeOK
<1>4. m \notin walk.stood /\ m \notin walk.shown
  <2>1. m \notin Listed(walk.want)
    BY <1>2, PlaceAssumption DEF Listed, Holder
  <2> QED
    BY <1>2, <2>1 DEF InboxInv, Parted, HasCome
<1>5. walk.stood \in SUBSET Mails /\ walk.shown \in SUBSET Mails
  BY WalkFacts DEF InboxInv
<1>6. InboxTypeOK' /\ KeysDiffer'
  BY <1>1, <1>2 DEF InboxInv, InboxTypeOK, KeysDiffer
<1>7. HasCome'
  BY <1>2, <1>3 DEF InboxInv, HasCome
<1>8. Rightful'
  BY <1>2 DEF InboxInv, Rightful, InRequest, Holder, Readable
<1>9. walk.stood \subseteq Listed(walk.want)'
  BY <1>2, <1>3, <1>4, <1>5 DEF InboxInv, Parted, Listed, Holder
<1>10. Parted'
  BY <1>2, <1>3, <1>4, <1>5, <1>9 DEF InboxInv, Parted, Tied
<1> QED
  BY <1>6, <1>7, <1>8, <1>10 DEF InboxInv

\* The walk goes on while some rows no longer count as having stood.
LEMMA PartedDisturbed ==
  ASSUME InboxInv, UNCHANGED arrived,
         walk'.pc = walk.pc, walk'.cursor = walk.cursor, walk'.shown = walk.shown,
         walk'.repeated = walk.repeated,
         walk'.stood \subseteq walk.stood,
         walk'.stood \subseteq Listed(walk.want)', walk'.want = walk.want
  PROVE  Parted'
  BY DEF InboxInv, Parted, Tied

LEMMA Step_Move ==
  ASSUME InboxInv, NEW m \in Mails, Move(m)
  PROVE  InboxInv'
<1>1. PICK where \in {Nowhere} \cup {s \in Shelves : place[m] = Queue /\ OnShelf(s)} :
        place' = [place EXCEPT ![m] = where]
  BY DEF Move
<1>2. /\ place[m] # Nowhere /\ UNCHANGED <<label, reader, arrived>>
      /\ walk' = [walk EXCEPT !.stood = walk.stood \ {m}]
  BY DEF Move, Disturb
<1>3. \A n \in Mails \ {m} : place'[n] = place[n]
  BY <1>1 DEF InboxInv, InboxTypeOK
<1>4. walk \in WalkState /\ walk.stood \in SUBSET Mails
  BY WalkFacts DEF InboxInv
<1>5. /\ walk' \in WalkState /\ walk'.stood = walk.stood \ {m}
      /\ walk'.pc = walk.pc /\ walk'.want = walk.want /\ walk'.role = walk.role
      /\ walk'.could = walk.could /\ walk'.rekeyed = walk.rekeyed
      /\ walk'.cursor = walk.cursor /\ walk'.shown = walk.shown
      /\ walk'.repeated = walk.repeated /\ walk'.foreign = walk.foreign
  BY <1>2, <1>4 DEF WalkState
<1>6. InboxTypeOK' /\ KeysDiffer'
  BY <1>1, <1>2, <1>5 DEF InboxInv, InboxTypeOK, KeysDiffer
<1>7. HasCome'
  BY <1>2, <1>3, <1>5 DEF InboxInv, HasCome
<1>8. Rightful'
  BY <1>2, <1>5 DEF InboxInv, Rightful, InRequest, Holder, Readable
<1>9. walk'.stood \subseteq Listed(walk.want)'
  BY <1>2, <1>3, <1>4, <1>5 DEF InboxInv, Parted, Listed, Holder
<1>10. Parted'
  BY <1>2, <1>5, <1>9, PartedDisturbed
<1> QED
  BY <1>6, <1>7, <1>8, <1>10 DEF InboxInv

LEMMA Step_SetLabel ==
  ASSUME InboxInv, NEW s \in Shelves, NEW k \in Labels, SetLabel(s, k)
  PROVE  InboxInv'
<1> DEFINE stood == IF label[s] = walk.want
                    THEN {m \in walk.stood : place[m] # s} ELSE walk.stood
           rekeyed == walk.rekeyed \/ (InRequest /\ walk.want \in {k, label[s]})
<1>1. /\ label[s] # k /\ Holder(k) = {}
      /\ label' = [label EXCEPT ![s] = k]
      /\ walk' = [walk EXCEPT !.stood = stood, !.rekeyed = rekeyed]
      /\ UNCHANGED <<reader, place, arrived>>
  BY DEF SetLabel
<1>2. /\ label'[s] = k
      /\ \A t \in Shelves \ {s} : label'[t] = label[t] /\ label[t] # k
  BY <1>1 DEF InboxInv, InboxTypeOK, Holder
<1>3. walk \in WalkState /\ walk.stood \in SUBSET Mails /\ walk.rekeyed \in BOOLEAN
  BY WalkFacts DEF InboxInv
<1>4. /\ stood \subseteq walk.stood
      /\ rekeyed \in BOOLEAN /\ (walk.rekeyed => rekeyed)
      /\ InRequest /\ walk.want \in {k, label[s]} => rekeyed
      /\ label[s] = walk.want => \A m \in stood : place[m] # s
  BY <1>3 DEF InRequest
<1> HIDE DEF stood, rekeyed
<1>5. /\ walk' \in WalkState /\ walk'.stood = stood /\ walk'.rekeyed = rekeyed
      /\ walk'.pc = walk.pc /\ walk'.want = walk.want /\ walk'.role = walk.role
      /\ walk'.could = walk.could
      /\ walk'.cursor = walk.cursor /\ walk'.shown = walk.shown
      /\ walk'.repeated = walk.repeated /\ walk'.foreign = walk.foreign
  BY <1>1, <1>3, <1>4 DEF WalkState
<1>6. InboxTypeOK' /\ HasCome'
  BY <1>1, <1>5 DEF InboxInv, InboxTypeOK, HasCome
<1>7. KeysDiffer'
  BY <1>2 DEF InboxInv, KeysDiffer
<1>8. walk.pc \in {"allowed", "found"} /\ ~rekeyed => Holder(walk.want)' = Holder(walk.want)
  BY <1>2, <1>4, <1>5 DEF Holder, InRequest
<1>9. Rightful'
  BY <1>1, <1>4, <1>5, <1>8 DEF InboxInv, Rightful, InRequest, Readable, Holder
<1>10. stood \subseteq Listed(walk.want)'
  <2>1. ASSUME NEW m \in stood PROVE m \in Listed(walk.want)'
    <3>1. m \in Mails /\ m \in Listed(walk.want)
      BY <1>3, <1>4 DEF InboxInv, Parted
    <3>2. CASE walk.want = Queue
      BY <1>1, <1>5, <3>1, <3>2 DEF Listed
    <3>3. CASE walk.want # Queue
      <4>1. place[m] \in Shelves /\ label[place[m]] = walk.want
        BY <3>1, <3>3 DEF Listed, Holder
      <4>2. place[m] # s
        BY <1>4, <4>1
      <4> QED
        BY <1>1, <1>2, <1>5, <3>1, <3>3, <4>1, <4>2 DEF Listed, Holder
    <3> QED
      BY <3>2, <3>3
  <2> QED
    BY <2>1
<1>11. Parted'
  BY <1>1, <1>4, <1>5, <1>10, PartedDisturbed
<1> QED
  BY <1>6, <1>7, <1>9, <1>11 DEF InboxInv

LEMMA Step_DeleteShelf ==
  ASSUME InboxInv, NEW s \in Shelves, DeleteShelf(s)
  PROVE  InboxInv'
<1> DEFINE stood == {m \in walk.stood : place[m] # s}
           rekeyed == walk.rekeyed \/ (InRequest /\ walk.want = label[s])
<1>1. /\ label' = [label EXCEPT ![s] = NoLabel]
      /\ reader' = [reader EXCEPT !.granted = reader.granted \ {s}]
      /\ place' = [m \in Mails |-> IF place[m] = s THEN Nowhere ELSE place[m]]
      /\ walk' = [walk EXCEPT !.stood = stood, !.rekeyed = rekeyed]
      /\ UNCHANGED arrived
  BY DEF DeleteShelf
<1>2. label'[s] = NoLabel /\ \A t \in Shelves \ {s} : label'[t] = label[t]
  BY <1>1 DEF InboxInv, InboxTypeOK
<1>3. /\ walk \in WalkState /\ walk.stood \in SUBSET Mails /\ walk.rekeyed \in BOOLEAN
      /\ walk.want \in Labels \cup {Queue}
  BY WalkFacts DEF InboxInv
<1>4. rekeyed \in BOOLEAN /\ (walk.rekeyed => rekeyed)
  BY <1>3 DEF InRequest
<1> HIDE DEF rekeyed
<1>5. /\ walk' \in WalkState /\ walk'.stood = stood /\ walk'.rekeyed = rekeyed
      /\ walk'.pc = walk.pc /\ walk'.want = walk.want /\ walk'.role = walk.role
      /\ walk'.could = walk.could
      /\ walk'.cursor = walk.cursor /\ walk'.shown = walk.shown
      /\ walk'.repeated = walk.repeated /\ walk'.foreign = walk.foreign
  BY <1>1, <1>3, <1>4 DEF WalkState
<1>6. /\ reader'.role = reader.role /\ reader'.granted \subseteq reader.granted
      /\ reader' \in [role: ReaderRoles, granted: SUBSET Shelves]
  BY <1>1 DEF InboxInv, InboxTypeOK
<1>7. InboxTypeOK'
  BY <1>1, <1>5, <1>6 DEF InboxInv, InboxTypeOK
<1>8. KeysDiffer' /\ HasCome'
  BY <1>1, <1>2, <1>5 DEF InboxInv, KeysDiffer, HasCome
<1>9. Holder(walk.want)' \subseteq Holder(walk.want)
  BY <1>2, <1>3, <1>5, PlaceAssumption DEF Holder
<1>10. Readable(reader)' \subseteq Readable(reader)
  BY <1>6 DEF Readable
<1>11. Rightful'
  BY <1>4, <1>5, <1>9, <1>10 DEF InboxInv, Rightful, InRequest
<1>12. stood \subseteq Listed(walk.want)'
  BY <1>1, <1>2, <1>3, <1>5 DEF InboxInv, Parted, Listed, Holder
<1>13. Parted'
  BY <1>1, <1>5, <1>12, PartedDisturbed
<1> QED
  BY <1>7, <1>8, <1>11, <1>13 DEF InboxInv

LEMMA Step_SetReader ==
  ASSUME InboxInv, NEW r \in [role: ReaderRoles, granted: SUBSET Shelves],
         SetReader(r)
  PROVE  InboxInv'
<1> DEFINE could == IF InRequest THEN walk.could \cup Readable(r) ELSE walk.could
<1>1. /\ reader' = r /\ walk' = [walk EXCEPT !.could = could]
      /\ UNCHANGED <<label, place, arrived>>
  BY DEF SetReader
<1>2. walk \in WalkState /\ walk.could \in SUBSET Shelves
  BY WalkFacts DEF InboxInv
<1>3. /\ could \in SUBSET Shelves /\ walk.could \subseteq could
      /\ InRequest => Readable(r) \subseteq could
  BY <1>2 DEF Readable
<1> HIDE DEF could
<1>4. /\ walk' \in WalkState /\ walk'.could = could
      /\ walk'.stood = walk.stood /\ walk'.rekeyed = walk.rekeyed
      /\ walk'.pc = walk.pc /\ walk'.want = walk.want /\ walk'.role = walk.role
      /\ walk'.cursor = walk.cursor /\ walk'.shown = walk.shown
      /\ walk'.repeated = walk.repeated /\ walk'.foreign = walk.foreign
  BY <1>1, <1>2, <1>3 DEF WalkState
<1>5. InboxTypeOK' /\ KeysDiffer' /\ HasCome'
  BY <1>1, <1>4 DEF InboxInv, InboxTypeOK, KeysDiffer, HasCome
<1>6. Readable(reader)' = Readable(r) /\ Holder(walk.want)' = Holder(walk.want)
  BY <1>1, <1>4 DEF Readable, Holder
<1>7. Rightful'
  BY <1>3, <1>4, <1>6 DEF InboxInv, Rightful, InRequest
<1>8. walk'.stood \subseteq Listed(walk.want)'
  BY <1>1, <1>4 DEF InboxInv, Parted, Listed, Holder
<1>9. Parted'
  BY <1>1, <1>4, <1>8, PartedDisturbed
<1> QED
  BY <1>5, <1>7, <1>9 DEF InboxInv

LEMMA InboxInvStep ==
  ASSUME InboxInv, [InboxNext]_inboxVars
  PROVE  InboxInv'
<1>1. CASE FirstPage \/ NextPage
  BY <1>1, Step_FirstPage, Step_NextPage
<1>2. CASE Abandon
  BY <1>2, InboxGivesUp DEF Abandon
<1>3. CASE Elsewhere
  BY <1>3, Step_Move, Step_EnterList, Step_DeleteShelf, Step_SetLabel,
     Step_SetReader DEF Elsewhere
<1>4. CASE UNCHANGED inboxVars
  BY <1>4 DEF inboxVars, InboxInv, InboxTypeOK, KeysDiffer, HasCome, Rightful,
     Parted, Tied, InRequest, Readable, Holder, Listed
<1> QED
  BY <1>1, <1>2, <1>3, <1>4, Step_CheckAccess, Step_FindProvider, Step_ReadPage
  DEF InboxNext, Page

\* Keys are unique, what a request has found it may read, and a cursor parts
\* the rows shown from those still to come: the invariant the theorems below
\* lean on.
THEOREM InboxInvariant == InboxSpec => []InboxInv
<1>1. InboxInit => InboxInv
  BY InboxInitInv
<1>2. InboxInv /\ [InboxNext]_inboxVars => InboxInv'
  BY InboxInvStep
<1> QED
  BY <1>1, <1>2, PTL DEF InboxSpec

\* However many providers, mails and pages, and whatever is inserted late,
\* moved, purged or renamed between them, a walk shows no row twice and skips
\* none that stood all along, but on a tie: toPage's cursor loses nothing else.
THEOREM PagesLoseOnlyTies == InboxSpec => []PagedOnceButForTies
<1>1. InboxInv => PagedOnceButForTies
  BY DEF InboxInv, Parted, Tied, PagedOnceButForTies
<1> QED
  BY <1>1, InboxInvariant, PTL

\* mayReadProvider and the listing are statements apart: still no page shows
\* the mail of a provider that its reader could read at no moment of the
\* request, unless keys changed hands meanwhile.
THEOREM OnlyReadableShown == InboxSpec => []OnlyReadableMailIsShown
<1>1. InboxInv => OnlyReadableMailIsShown
  BY DEF InboxInv, Rightful, OnlyReadableMailIsShown
<1> QED
  BY <1>1, InboxInvariant, PTL

-----------------------------------------------------------------------------
(* One outgoing mail.                                                      *)

\* In the time that is left, over the connection that the policy asks for.
Proper(s) ==
  /\ s.waited <= DialTimeout + SendTimeout
  /\ s.pc = "dial" => s.waited <= DialTimeout
  /\ s.pc \in Talking =>
       /\ s.waited <= s.deadline /\ s.deadline # 0
       /\ s.deadline <= DialTimeout + SendTimeout
  /\ s.pc \in {"greeting", "upgrade"} /\ smtpURL.implicitTLS => s.tls
  /\ s.pc \in {"authenticate", "envelope", "body", "finish", "quit"} =>
       s.tls \/ smtpURL.host # "remote" \/ smtpURL.startTLSDisabled
  /\ s.pc \in {"quit", "sent"} => s.accepted
  /\ "message" \in s.clear =>
       smtpURL.host # "remote" \/ smtpURL.startTLSDisabled
  /\ "credentials" \in s.clear => smtpURL.host = "localhost"

OutInv == OutTypeOK /\ Proper(sending)

LEMMA TimeFacts ==
  /\ DialTimeout \in Nat /\ DialTimeout > 0
  /\ SendTimeout \in Nat /\ SendTimeout > 0
  /\ MaxWait \in Nat /\ DialTimeout + SendTimeout < MaxWait
  BY TimeoutAssumption

LEMMA NotSendingFacts ==
  /\ NotSending \in SendState
  /\ [NotSending EXCEPT !.pc = "dial"] \in SendState
  /\ Proper(NotSending)
  /\ Proper([NotSending EXCEPT !.pc = "dial"])
<1>1. 0 \in 0..MaxWait /\ 0 \in 0..(MaxWait + SendTimeout)
  BY TimeFacts
<1>2. /\ NotSending \in SendState
      /\ [NotSending EXCEPT !.pc = "dial"] \in SendState
  BY <1>1 DEF NotSending, SendState
<1>3. ASSUME NEW pc \in {"idle", "dial"}
      PROVE  Proper([NotSending EXCEPT !.pc = pc])
  BY TimeFacts DEF NotSending, Proper, Talking
<1>4. [NotSending EXCEPT !.pc = "idle"] = NotSending
  BY DEF NotSending
<1> QED
  BY <1>2, <1>3, <1>4

LEMMA OutInitInv == OutInit => OutInv
  BY NotSendingFacts DEF OutInit, OutInv, OutTypeOK

LEMMA SendingFacts ==
  ASSUME OutInv
  PROVE  /\ sending \in SendState /\ Proper(sending)
         /\ sending.waited \in Nat /\ sending.deadline \in Nat
         /\ sending.waited \in 0..MaxWait
         /\ sending.deadline \in 0..(MaxWait + SendTimeout)
         /\ sending.clear \in SUBSET Secrets
  BY TimeFacts DEF OutInv, OutTypeOK, SendState

LEMMA OutBecomes ==
  ASSUME OutInv, NEW s \in SendState, Proper(s), Becomes(s)
  PROVE  OutInv'
  BY DEF OutInv, OutTypeOK, Becomes, Proper

\* To the next step of the conversation, or to its end.
LEMMA OutGoesOn ==
  ASSUME OutInv, NEW pc \in {"authenticate", "envelope", "body", "quit", "sent", "failed"},
         GoOn(pc),
         pc \in {"authenticate", "envelope", "body", "quit"} =>
           /\ sending.pc \in Talking
           /\ sending.tls \/ smtpURL.host # "remote" \/ smtpURL.startTLSDisabled,
         pc \in {"quit", "sent"} => sending.accepted
  PROVE  OutInv'
<1> DEFINE s == [sending EXCEPT !.pc = pc]
<1>1. s \in SendState
  BY SendingFacts DEF SendState, Talking
<1>2. /\ s.pc = pc /\ s.waited = sending.waited /\ s.deadline = sending.deadline
      /\ s.tls = sending.tls /\ s.clear = sending.clear
      /\ s.accepted = sending.accepted
  BY SendingFacts DEF SendState
<1>3. Becomes(s)
  BY DEF GoOn
<1> HIDE DEF s
<1>4. Proper(s)
  BY <1>2, SendingFacts DEF Proper, Talking
<1> QED
  BY <1>1, <1>3, <1>4, OutBecomes

LEMMA Step_Connect ==
  ASSUME OutInv, Connect
  PROVE  OutInv'
<1> DEFINE pc == IF smtpURL.implicitTLS THEN "handshake" ELSE "greeting"
           s == [sending EXCEPT !.pc = pc, !.deadline = sending.waited + SendTimeout]
<1>1. pc \in {"handshake", "greeting"} /\ (pc = "greeting" => ~smtpURL.implicitTLS)
  OBVIOUS
<1>2. /\ sending.waited <= DialTimeout /\ sending.waited \in Nat
      /\ sending.waited + SendTimeout \in 0..(MaxWait + SendTimeout)
  BY SendingFacts, TimeFacts DEF Connect, Proper
<1>3. Becomes(s)
  BY DEF Connect
<1> HIDE DEF pc
<1>4. s \in SendState
  BY <1>1, <1>2, SendingFacts DEF SendState, Talking
<1>5. /\ s.pc = pc /\ s.waited = sending.waited
      /\ s.deadline = sending.waited + SendTimeout
      /\ s.tls = sending.tls /\ s.clear = sending.clear
  BY SendingFacts DEF SendState
<1> HIDE DEF s
<1>6. Proper(s)
  BY <1>1, <1>2, <1>5, SendingFacts, TimeFacts DEF Proper
<1> QED
  BY <1>3, <1>4, <1>6, OutBecomes

LEMMA Step_Handshake ==
  ASSUME OutInv, Handshake
  PROVE  OutInv'
<1> DEFINE s == [sending EXCEPT !.pc = "greeting", !.tls = TRUE]
<1>1. s \in SendState
  BY SendingFacts DEF SendState, Talking
<1>2. /\ s.pc = "greeting" /\ s.tls /\ s.waited = sending.waited
      /\ s.deadline = sending.deadline /\ s.clear = sending.clear
  BY SendingFacts DEF SendState
<1>3. Becomes(s) /\ sending.pc \in Talking
  BY DEF Handshake, Talking
<1> HIDE DEF s
<1>4. Proper(s)
  BY <1>2, <1>3, SendingFacts DEF Proper
<1> QED
  BY <1>1, <1>3, <1>4, OutBecomes

LEMMA Step_Greet ==
  ASSUME OutInv, Greet
  PROVE  OutInv'
<1>1. PICK offers \in SUBSET {"STARTTLS", "AUTH"} :
        Becomes([sending EXCEPT !.pc = "upgrade", !.offers = offers])
  BY DEF Greet
<1> DEFINE s == [sending EXCEPT !.pc = "upgrade", !.offers = offers]
<1>2. s \in SendState
  BY SendingFacts DEF SendState, Talking
<1>3. /\ s.pc = "upgrade" /\ s.tls = sending.tls /\ s.waited = sending.waited
      /\ s.deadline = sending.deadline /\ s.clear = sending.clear
  BY SendingFacts DEF SendState
<1>4. Becomes(s) /\ sending.pc = "greeting" /\ sending.pc \in Talking
  BY <1>1 DEF Greet, Talking
<1> HIDE DEF s
<1>5. Proper(s)
  BY <1>3, <1>4, SendingFacts DEF Proper
<1> QED
  BY <1>2, <1>4, <1>5, OutBecomes

LEMMA Step_Upgrade ==
  ASSUME OutInv, Upgrade
  PROVE  OutInv'
<1>1. /\ sending.pc = "upgrade" /\ sending.pc \in Talking
      /\ smtpURL.implicitTLS => sending.tls
      /\ smtpURL.implicitTLS \in BOOLEAN
      /\ smtpURL.host \in {"localhost", "loopback", "remote"}
  BY SendingFacts DEF Upgrade, Talking, Proper, OutInv, OutTypeOK, SMTPURL
<1>2. CASE smtpURL.implicitTLS \/ smtpURL.startTLSDisabled
  BY <1>1, <1>2, OutGoesOn DEF Upgrade
<1>3. CASE ~(smtpURL.implicitTLS \/ smtpURL.startTLSDisabled)
           /\ "STARTTLS" \notin sending.offers
  <2>1. CASE RequireSTARTTLS
    BY <1>3, <2>1, OutGoesOn DEF Upgrade
  <2>2. CASE ~RequireSTARTTLS
    BY <1>1, <1>3, <2>2, OutGoesOn DEF Upgrade, RequireSTARTTLS
  <2> QED
    BY <2>1, <2>2
<1>4. CASE ~(smtpURL.implicitTLS \/ smtpURL.startTLSDisabled)
           /\ "STARTTLS" \in sending.offers
  <2>1. PICK offers \in SUBSET {"AUTH"} :
          Becomes([sending EXCEPT !.pc = "authenticate", !.tls = TRUE,
                                  !.offers = offers])
    BY <1>4 DEF Upgrade
  <2> DEFINE s == [sending EXCEPT !.pc = "authenticate", !.tls = TRUE,
                                  !.offers = offers]
  <2>2. s \in SendState
    BY SendingFacts DEF SendState, Talking
  <2>3. /\ s.pc = "authenticate" /\ s.tls /\ s.waited = sending.waited
        /\ s.deadline = sending.deadline /\ s.clear = sending.clear
    BY SendingFacts DEF SendState
  <2>4. Becomes(s)
    BY <2>1
  <2> HIDE DEF s
  <2>5. Proper(s)
    BY <1>1, <2>3, SendingFacts DEF Proper
  <2> QED
    BY <2>2, <2>4, <2>5, OutBecomes
<1> QED
  BY <1>2, <1>3, <1>4

\* What is written goes in the clear only where the policy allows it.
LEMMA OutExposes ==
  ASSUME OutInv, NEW pc \in {"envelope", "finish"}, NEW what \in Secrets,
         sending.pc \in {"authenticate", "body"},
         what = "credentials" => PlainAuthWilling,
         Becomes([sending EXCEPT !.pc = pc, !.clear = Expose(what)])
  PROVE  OutInv'
<1> DEFINE s == [sending EXCEPT !.pc = pc, !.clear = Expose(what)]
<1>1. /\ sending.pc \in Talking
      /\ sending.tls \/ smtpURL.host # "remote" \/ smtpURL.startTLSDisabled
  BY SendingFacts DEF Proper, Talking
<1>2. Expose(what) \in SUBSET Secrets
  BY SendingFacts DEF Expose
<1>3. s \in SendState
  BY <1>2, SendingFacts DEF SendState, Talking
<1>4. /\ s.pc = pc /\ s.tls = sending.tls /\ s.waited = sending.waited
      /\ s.deadline = sending.deadline /\ s.clear = Expose(what)
  BY SendingFacts DEF SendState
<1>5. /\ "message" \in Expose(what) =>
           smtpURL.host # "remote" \/ smtpURL.startTLSDisabled
      /\ "credentials" \in Expose(what) => smtpURL.host = "localhost"
  BY <1>1, SendingFacts DEF Expose, Proper, PlainAuthWilling
<1>6. Becomes(s)
  OBVIOUS
<1> HIDE DEF s
<1>7. Proper(s)
  BY <1>1, <1>4, <1>5, SendingFacts DEF Proper
<1> QED
  BY <1>3, <1>6, <1>7, OutBecomes

LEMMA Step_Accept ==
  ASSUME OutInv, Accept
  PROVE  OutInv'
<1> DEFINE s == [sending EXCEPT !.accepted = TRUE]
<1>1. s \in SendState
  BY SendingFacts DEF SendState
<1>2. /\ s.pc = sending.pc /\ s.tls = sending.tls /\ s.waited = sending.waited
      /\ s.deadline = sending.deadline /\ s.clear = sending.clear /\ s.accepted
  BY SendingFacts DEF SendState
<1>3. Becomes(s)
  BY DEF Accept
<1> HIDE DEF s
<1>4. Proper(s)
  BY <1>2, SendingFacts DEF Proper
<1> QED
  BY <1>1, <1>3, <1>4, OutBecomes

LEMMA Step_Wait ==
  ASSUME OutInv, Wait
  PROVE  OutInv'
<1> DEFINE s == [sending EXCEPT !.waited = sending.waited + 1]
<1>1. sending.pc \in {"dial"} \cup Talking /\ ~OutOfTime /\ Becomes(s)
      /\ sending.waited < MaxWait
  BY DEF Wait
<1>2. sending.waited + 1 \in 0..MaxWait
  BY <1>1, SendingFacts, TimeFacts
<1>3. s \in SendState
  BY <1>2, SendingFacts DEF SendState
<1>4. /\ s.pc = sending.pc /\ s.tls = sending.tls /\ s.waited = sending.waited + 1
      /\ s.deadline = sending.deadline /\ s.clear = sending.clear
      /\ s.accepted = sending.accepted
  BY SendingFacts DEF SendState
<1>5. /\ s.waited <= DialTimeout + SendTimeout
      /\ s.pc = "dial" => s.waited <= DialTimeout
      /\ s.pc \in Talking => s.waited <= s.deadline
  BY <1>1, <1>4, SendingFacts, TimeFacts DEF OutOfTime, Proper
<1> HIDE DEF s
<1>6. Proper(s)
  BY <1>4, <1>5, SendingFacts DEF Proper
<1> QED
  BY <1>1, <1>3, <1>6, OutBecomes

LEMMA OutInvStep ==
  ASSUME OutInv, [OutNext]_outVars
  PROVE  OutInv'
<1>1. CASE Send
  BY <1>1, NotSendingFacts, OutBecomes DEF Send
<1>2. CASE Authenticate
  <2>1. /\ sending.pc = "authenticate" /\ sending.pc \in Talking
        /\ sending.tls \/ smtpURL.host # "remote" \/ smtpURL.startTLSDisabled
    BY <1>2, SendingFacts DEF Authenticate, Talking, Proper
  <2>2. CASE GoOn("envelope") \/ GoOn("failed")
    BY <2>1, <2>2, OutGoesOn
  <2>3. CASE PlainAuthWilling /\ Becomes([sending EXCEPT !.pc = "envelope",
                                          !.clear = Expose("credentials")])
    BY <2>1, <2>3, OutExposes DEF Secrets
  <2> QED
    BY <1>2, <2>2, <2>3 DEF Authenticate
<1>3. CASE Envelope
  <2>1. /\ sending.pc \in Talking
        /\ sending.tls \/ smtpURL.host # "remote" \/ smtpURL.startTLSDisabled
    BY <1>3, SendingFacts DEF Envelope, Talking, Proper
  <2> QED
    BY <1>3, <2>1, OutGoesOn DEF Envelope
<1>4. CASE WriteBody
  BY <1>4, OutExposes DEF WriteBody, Secrets
<1>5. CASE FinishBody
  <2>1. /\ sending.pc \in Talking
        /\ sending.tls \/ smtpURL.host # "remote" \/ smtpURL.startTLSDisabled
    BY <1>5, SendingFacts DEF FinishBody, Talking, Proper
  <2> QED
    BY <1>5, <2>1, OutGoesOn DEF FinishBody
<1>6. CASE Quit
  BY <1>6, SendingFacts, OutGoesOn DEF Quit, Proper
<1>7. CASE FailSend
  BY <1>7, OutGoesOn DEF FailSend
<1>8. CASE UNCHANGED outVars
  BY <1>8 DEF outVars, OutInv, OutTypeOK, Proper
<1> QED
  BY <1>1, <1>2, <1>3, <1>4, <1>5, <1>6, <1>7, <1>8, Step_Connect,
     Step_Handshake, Step_Greet, Step_Upgrade, Step_Accept, Step_Wait
  DEF OutNext, Converse

\* A conversation with the relay is in time, and over the connection that the
\* policy asks for: the invariant the theorems below lean on.
THEOREM OutInvariant == OutSpec => []OutInv
<1>1. OutInit => OutInv
  BY OutInitInv
<1>2. OutInv /\ [OutNext]_outVars => OutInv'
  BY OutInvStep
<1> QED
  BY <1>1, <1>2, PTL DEF OutSpec

\* smtp.go's upgrade and net/smtp's PlainAuth together: no offer of the relay,
\* before or after the upgrade, brings the message or the credentials out in
\* the clear.
THEOREM NothingSentInClear == OutSpec => []NothingInClear
<1>1. OutInv => NothingInClear
  BY DEF OutInv, Proper, NothingInClear
<1> QED
  BY <1>1, OutInvariant, PTL

\* The dial timeout and the deadline set in dial bound the whole conversation,
\* however long the two are, and an answer of "sent" is the truth.
THEOREM AnsweredInTime == OutSpec => []AnswersInTime
<1>1. OutInv => AnswersInTime
  BY DEF OutInv, Proper, AnswersInTime
<1> QED
  BY <1>1, OutInvariant, PTL

=============================================================================
