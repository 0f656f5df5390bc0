------------------------------ MODULE MCMailbox ------------------------------
(***************************************************************************)
(* Instances of Mailbox for TLC. All of it at once is too many states, so  *)
(* the safety run explores two scopes, chosen by the initial state: the    *)
(* intake, with everything but retention, and retention, with two runs but *)
(* one delivery at a time, one provider and two messages.                  *)
(***************************************************************************)
EXTENDS Mailbox, TLC

VARIABLE scope

Seen ==
  {m \in MessageIds :
     \/ owed[m] # 0
     \/ \E d \in Deliveries : delivery[d].mid = m
     \/ \E r \in messages \cup quarantine : r.mid = m}

IntakeScope == day = 1 /\ \A n \in Runs : run[n] = NoRun

RetentionScope ==
  /\ Cardinality(providers) < 2
  /\ Cardinality(Seen) <= 2
  /\ Cardinality({d \in Deliveries : delivery[d] # NoDelivery}) <= 1
  /\ nextRow <= 3

ScopedInit == Init /\ scope \in {"intake", "retention"}

ScopedNext ==
  /\ Next
  /\ UNCHANGED scope
  /\ scope = "intake" => IntakeScope'
  /\ scope = "retention" => RetentionScope'

ScopedSpec == ScopedInit /\ [][ScopedNext]_<<vars, scope>>

\* Slots, messages and providers are interchangeable.
Symmetry == Permutations(MessageIds) \cup Permutations(Providers)
            \cup Permutations(Deliveries) \cup Permutations(Reviewers)
            \cup Permutations(Runs)
=============================================================================
