---------------------------- MODULE WebhookProofs ----------------------------
(* Webhook, for any number of tokens, replicas and requests in flight.      *)
EXTENDS Webhook, FiniteSetTheorems, TLAPS

-----------------------------------------------------------------------------
(* Types.                                                                  *)

\* What a request that is past its first step holds.
LEMMA RequestFacts ==
  ASSUME HookTypeOK, NEW s \in Posts, post[s].pc # "idle"
  PROVE  /\ post[s].token \in Tokens
         /\ post[s].replica \in Guards
         /\ post[s].now \in Nat
         /\ [post[s] EXCEPT !.pc = "ingesting"] \in PostState
<1>1. post[s] \in [pc: {"reading", "ingesting"}, token: Tokens,
                       replica: Guards, now: Nat]
  BY DEF HookTypeOK, PostState, NoPost
<1>2. [post[s] EXCEPT !.pc = "ingesting"] \in
        [pc: {"reading", "ingesting"}, token: Tokens, replica: Guards,
         now: Nat]
  BY <1>1
<1> QED
  BY <1>1, <1>2 DEF PostState

LEMMA InitType == HookInit => HookTypeOK
  BY DEF HookInit, HookTypeOK, PostState, Outcomes

LEMMA AcceptType ==
  ASSUME HookTypeOK, NEW s \in Posts, TakeIn(s)
  PROVE  HookTypeOK'
<1> DEFINE q == post[s]
           pruned == Pruned(seen[q.replica], q.now)
           until == Expiry(q.now)
<1>1. /\ q.token \in Tokens /\ q.replica \in Guards /\ q.now \in Nat
      /\ [post[s] EXCEPT !.pc = "ingesting"] \in PostState
  BY RequestFacts DEF TakeIn
<1>2. until \in Nat
  BY <1>1, WindowAssumption DEF Expiry
<1>3. pruned \in [Tokens -> Nat]
  BY <1>1 DEF Pruned, HookTypeOK
<1>4. PICK K \in Kept(pruned) :
        /\ seen' = [seen EXCEPT ![q.replica] = [t \in Tokens |->
             IF t = q.token THEN until ELSE IF t \in K THEN pruned[t] ELSE 0]]
        /\ memory' = [memory EXCEPT ![q.replica] = [t \in Tokens |->
             IF t = q.token THEN until
             ELSE IF t \in Held(pruned) \ K THEN 0
             ELSE memory[q.replica][t]]]
  BY DEF TakeIn
<1> HIDE DEF pruned, until
<1>5. seen' \in [Guards -> [Tokens -> Nat]]
  BY <1>1, <1>2, <1>3, <1>4 DEF HookTypeOK
<1>6. memory' \in [Guards -> [Tokens -> Nat]]
  BY <1>1, <1>2, <1>4 DEF HookTypeOK
<1>7. post' \in [Posts -> PostState]
  BY <1>1 DEF TakeIn, HookTypeOK
<1> QED
  BY <1>5, <1>6, <1>7 DEF TakeIn, HookTypeOK

LEMMA NextType == HookTypeOK /\ [HookNext]_hookVars => HookTypeOK'
<1> SUFFICES ASSUME HookTypeOK, [HookNext]_hookVars PROVE HookTypeOK'
  OBVIOUS
<1>0. NoPost \in PostState
  BY DEF PostState
<1>1. ASSUME NEW t \in Tokens, Sign(t) PROVE HookTypeOK'
  BY <1>1 DEF Sign, HookTypeOK
<1>2. ASSUME NEW s \in Posts, Open(s) PROVE HookTypeOK'
  BY <1>2 DEF Open, HookTypeOK, PostState
<1>3. ASSUME NEW s \in Posts, TurnAway(s) PROVE HookTypeOK'
  BY <1>0, <1>3 DEF TurnAway, EndPost, HookTypeOK
<1>4. ASSUME NEW s \in Posts, RefuseReplay(s) PROVE HookTypeOK'
  BY <1>0, <1>4, RequestFacts DEF RefuseReplay, EndPost, HookTypeOK, Outcomes
<1>5. ASSUME NEW s \in Posts, TakeIn(s) PROVE HookTypeOK'
  BY <1>5, AcceptType
<1>6. ASSUME NEW s \in Posts, Finish(s) PROVE HookTypeOK'
  BY <1>0, <1>6, RequestFacts DEF Finish, EndPost, HookTypeOK, Outcomes
<1>7. ASSUME NEW s \in Posts, Fail(s) PROVE HookTypeOK'
  BY <1>0, <1>7, RequestFacts DEF Fail, EndPost, HookTypeOK, Outcomes
<1>8. ASSUME NEW r \in Guards, Restart(r) PROVE HookTypeOK'
  BY <1>0, <1>8 DEF Restart, HookTypeOK
<1>9. CASE HookTick
  BY <1>9, LastTimeAssumption DEF HookTick, HookTypeOK
<1>10. CASE UNCHANGED hookVars
  BY <1>10 DEF hookVars, HookTypeOK
<1> QED
  BY <1>1, <1>2, <1>3, <1>4, <1>5, <1>6, <1>7, <1>8, <1>9, <1>10 DEF HookNext

\* Every reachable state is well typed.
THEOREM TypeCorrect == HookSpec => []HookTypeOK
  BY InitType, NextType, PTL DEF HookSpec

-----------------------------------------------------------------------------
(* The cap.                                                                *)

\* An insert makes room for itself, whether or not it has to evict.
LEMMA KeptLeavesRoom ==
  ASSUME NEW map \in [Tokens -> Nat], NEW K \in Kept(map)
  PROVE  /\ K \subseteq Held(map)
         /\ IsFiniteSet(K)
         /\ Cardinality(K) + 1 <= MaxReplayTokens
<1>1. IsFiniteSet(Held(map)) /\ Cardinality(Held(map)) \in Nat
  BY TokensAssumption, FS_Subset, FS_CardinalityType DEF Held
<1>2. MaxReplayTokens \div 2 <= MaxReplayTokens - 1
  BY CapAssumption
<1>3. CASE Cardinality(Held(map)) >= MaxReplayTokens
  <2>1. K \in Survivors(map)
    BY <1>3 DEF Kept
  <2>2. K \subseteq Held(map) /\ Cardinality(K) = MaxReplayTokens \div 2
    BY <2>1 DEF Survivors
  <2> QED
    BY <1>1, <1>2, <2>2, FS_Subset, CapAssumption
<1>4. CASE ~(Cardinality(Held(map)) >= MaxReplayTokens)
  <2>1. K = Held(map)
    BY <1>4 DEF Kept
  <2> QED
    BY <1>1, <1>4, <2>1, CapAssumption
<1> QED
  BY <1>3, <1>4

LEMMA AcceptBounded ==
  ASSUME HookTypeOK, GuardIsBounded, NEW s \in Posts, TakeIn(s)
  PROVE  GuardIsBounded'
<1> DEFINE q == post[s]
           pruned == Pruned(seen[q.replica], q.now)
           until == Expiry(q.now)
<1>1. q.token \in Tokens /\ q.replica \in Guards /\ q.now \in Nat
  BY RequestFacts DEF TakeIn
<1>2. pruned \in [Tokens -> Nat]
  BY <1>1 DEF Pruned, HookTypeOK
<1>3. PICK K \in Kept(pruned) :
        seen' = [seen EXCEPT ![q.replica] = [t \in Tokens |->
          IF t = q.token THEN until ELSE IF t \in K THEN pruned[t] ELSE 0]]
  BY DEF TakeIn
<1> HIDE DEF pruned, until
<1>4. IsFiniteSet(K) /\ Cardinality(K) + 1 <= MaxReplayTokens
      /\ Cardinality(K) \in Nat
  BY <1>2, KeptLeavesRoom, FS_CardinalityType
<1>5. SUFFICES ASSUME NEW r \in Guards
               PROVE  Cardinality(Held(seen'[r])) <= MaxReplayTokens
  BY DEF GuardIsBounded
<1>6. CASE r = q.replica
  <2>1. Held(seen'[r]) \subseteq K \cup {q.token}
    BY <1>1, <1>3, <1>6 DEF Held, HookTypeOK
  <2>2. IsFiniteSet(K \cup {q.token})
    BY <1>4, FS_AddElement
  <2>3. Cardinality(K \cup {q.token}) <= Cardinality(K) + 1
    <3>1. Cardinality(K \cup {q.token}) =
            IF q.token \in K THEN Cardinality(K) ELSE Cardinality(K) + 1
      BY <1>4, FS_AddElement
    <3> QED
      BY <1>4, <3>1
  <2>4. Cardinality(Held(seen'[r])) <= Cardinality(K \cup {q.token})
    BY <2>1, <2>2, FS_Subset
  <2>5. /\ Cardinality(Held(seen'[r])) \in Nat
        /\ Cardinality(K \cup {q.token}) \in Nat
    BY <2>1, <2>2, FS_Subset, FS_CardinalityType
  <2> QED
    BY <1>4, <2>3, <2>4, <2>5, CapAssumption
<1>7. CASE r # q.replica
  BY <1>1, <1>3, <1>7 DEF HookTypeOK, GuardIsBounded
<1> QED
  BY <1>6, <1>7

\* No sequence of posts, however their clock readings are ordered, and no
\* restart makes a guard hold more tokens than its cap.
THEOREM Bounded == HookSpec => []GuardIsBounded
<1>1. HookInit => GuardIsBounded
  <2> SUFFICES ASSUME HookInit, NEW r \in Guards
               PROVE  Cardinality(Held(seen[r])) <= MaxReplayTokens
    BY DEF GuardIsBounded
  <2>1. Held(seen[r]) = {}
    BY DEF HookInit, Held
  <2> QED
    BY <2>1, FS_EmptySet, CapAssumption
<1>2. HookTypeOK /\ GuardIsBounded /\ [HookNext]_hookVars => GuardIsBounded'
  <2> SUFFICES ASSUME HookTypeOK, GuardIsBounded, [HookNext]_hookVars
               PROVE  GuardIsBounded'
    OBVIOUS
  <2>1. CASE seen' = seen
    BY <2>1 DEF GuardIsBounded, Held
  <2>2. ASSUME NEW s \in Posts, TakeIn(s) PROVE GuardIsBounded'
    BY <2>2, AcceptBounded
  <2>3. ASSUME NEW r \in Guards, Restart(r) PROVE GuardIsBounded'
    <3> SUFFICES ASSUME NEW p \in Guards
                 PROVE  Cardinality(Held(seen'[p])) <= MaxReplayTokens
      BY DEF GuardIsBounded
    <3>1. CASE p = r
      <4>1. Held(seen'[p]) = {}
        BY <2>3, <3>1 DEF Restart, Held, HookTypeOK
      <4> QED
        BY <4>1, FS_EmptySet, CapAssumption
    <3>2. CASE p # r
      BY <2>3, <3>2 DEF Restart, HookTypeOK, GuardIsBounded
    <3> QED
      BY <3>1, <3>2
  <2> QED
    BY <2>1, <2>2, <2>3
    DEF HookNext, hookVars, Sign, Open, TurnAway, RefuseReplay, Finish, Fail, HookTick
<1> QED
  BY <1>1, <1>2, TypeCorrect, PTL DEF HookSpec

-----------------------------------------------------------------------------
(* The window.                                                             *)

\* A guard holds what it remembers until that expires; what it remembers was
\* signed, and expires no earlier than the signature; and every clock reading
\* in flight is in the past.
MemoryHeld ==
  /\ \A s \in Posts :
       /\ post[s].now <= time
       /\ post[s].pc # "idle" => signed[post[s].token] # 0
  /\ \A r \in Guards, t \in Tokens :
       /\ memory[r][t] > time => seen[r][t] = memory[r][t]
       /\ memory[r][t] # 0 =>
            /\ signed[t] # 0
            /\ memory[r][t] >= signed[t] + SignatureWindow

LEMMA InitMemory == HookInit => MemoryHeld
  BY DEF HookInit, MemoryHeld, NoPost

\* Requests come and go without touching a guard.
LEMMA RequestMemory ==
  ASSUME HookTypeOK, MemoryHeld, NEW s \in Posts,
         UNCHANGED <<time, signed, seen, memory>>,
         \/ post' = [post EXCEPT ![s] = NoPost]
         \/ Open(s)
  PROVE  MemoryHeld'
<1>1. ASSUME NEW p \in Posts
      PROVE  /\ post'[p].now <= time
             /\ post'[p].pc # "idle" => signed[post'[p].token] # 0
  <2>1. CASE p # s
    BY <2>1 DEF MemoryHeld, Open, HookTypeOK
  <2>2. CASE p = s /\ post' = [post EXCEPT ![s] = NoPost]
    BY <2>2 DEF NoPost, HookTypeOK
  <2>3. CASE p = s /\ Open(s)
    BY <2>3 DEF Open, HookTypeOK
  <2> QED
    BY <2>1, <2>2, <2>3
<1> QED
  BY <1>1 DEF MemoryHeld

LEMMA AcceptMemory ==
  ASSUME HookTypeOK, MemoryHeld, NEW s \in Posts, TakeIn(s)
  PROVE  MemoryHeld'
<1> DEFINE q == post[s]
           pruned == Pruned(seen[q.replica], q.now)
           until == Expiry(q.now)
<1>1. /\ q.token \in Tokens /\ q.replica \in Guards /\ q.now \in Nat
      /\ q.now <= time /\ signed[q.token] # 0
  BY RequestFacts DEF TakeIn, MemoryHeld
<1>2. until >= signed[q.token] + SignatureWindow /\ until \in Nat
  BY <1>1, WindowAssumption DEF TakeIn, Verified, Expiry, HookTypeOK
<1>3. PICK K \in Kept(pruned) :
        /\ seen' = [seen EXCEPT ![q.replica] = [t \in Tokens |->
             IF t = q.token THEN until ELSE IF t \in K THEN pruned[t] ELSE 0]]
        /\ memory' = [memory EXCEPT ![q.replica] = [t \in Tokens |->
             IF t = q.token THEN until
             ELSE IF t \in Held(pruned) \ K THEN 0
             ELSE memory[q.replica][t]]]
  BY DEF TakeIn
<1>4. \A t \in Tokens : memory[q.replica][t] > time =>
        /\ pruned[t] = memory[q.replica][t]
        /\ t \in Held(pruned)
  BY <1>1 DEF Pruned, Held, MemoryHeld, HookTypeOK
<1> HIDE DEF pruned, until
<1>5. UNCHANGED <<time, signed>>
  BY DEF TakeIn
<1>6. ASSUME NEW r \in Guards, NEW t \in Tokens
      PROVE  /\ memory'[r][t] > time => seen'[r][t] = memory'[r][t]
             /\ memory'[r][t] # 0 =>
                  /\ signed[t] # 0
                  /\ memory'[r][t] >= signed[t] + SignatureWindow
  <2>1. CASE r # q.replica
    BY <1>1, <1>3, <2>1 DEF MemoryHeld, HookTypeOK
  <2>2. CASE r = q.replica /\ t = q.token
    BY <1>1, <1>2, <1>3, <2>2 DEF HookTypeOK
  <2>3. CASE r = q.replica /\ t # q.token /\ t \in Held(pruned) \ K
    <3>1. memory'[r][t] = 0
      BY <1>1, <1>3, <2>3 DEF HookTypeOK
    <3> QED
      BY <3>1 DEF HookTypeOK
  <2>4. CASE r = q.replica /\ t # q.token /\ t \notin Held(pruned) \ K
    <3>1. /\ memory'[r][t] = memory[r][t]
          /\ seen'[r][t] = IF t \in K THEN pruned[t] ELSE 0
      BY <1>1, <1>3, <2>4 DEF HookTypeOK
    <3> QED
      BY <1>4, <2>4, <3>1 DEF MemoryHeld
  <2> QED
    BY <2>1, <2>2, <2>3, <2>4
<1>7. ASSUME NEW p \in Posts
      PROVE  /\ post'[p].now <= time
             /\ post'[p].pc # "idle" => signed[post'[p].token] # 0
  <2>1. post' = [post EXCEPT ![s].pc = "ingesting"]
    BY DEF TakeIn
  <2>2. post'[p].now = post[p].now /\ post'[p].token = post[p].token
    BY <2>1 DEF HookTypeOK
  <2>3. CASE p = s
    BY <1>1, <2>2, <2>3
  <2>4. CASE p # s
    <3>1. post'[p] = post[p]
      BY <2>1, <2>4 DEF HookTypeOK
    <3> QED
      BY <3>1 DEF MemoryHeld
  <2> QED
    BY <2>3, <2>4
<1> QED
  BY <1>5, <1>6, <1>7 DEF MemoryHeld

LEMMA NextMemory == HookTypeOK /\ MemoryHeld /\ [HookNext]_hookVars => MemoryHeld'
<1> SUFFICES ASSUME HookTypeOK, MemoryHeld, [HookNext]_hookVars PROVE MemoryHeld'
  OBVIOUS
<1>1. ASSUME NEW t \in Tokens, Sign(t) PROVE MemoryHeld'
  <2>1. \A u \in Tokens : signed[u] # 0 => signed'[u] = signed[u]
    BY <1>1 DEF Sign, HookTypeOK
  <2>2. \A s \in Posts : post[s].pc # "idle" => post[s].token \in Tokens
    BY RequestFacts
  <2> QED
    BY <1>1, <2>1, <2>2 DEF Sign, MemoryHeld
<1>2. ASSUME NEW s \in Posts, Open(s) PROVE MemoryHeld'
  BY <1>2, RequestMemory DEF Open
<1>3. ASSUME NEW s \in Posts,
             TurnAway(s) \/ RefuseReplay(s) \/ Finish(s) \/ Fail(s)
      PROVE  MemoryHeld'
  BY <1>3, RequestMemory DEF TurnAway, RefuseReplay, Finish, Fail, EndPost
<1>4. ASSUME NEW s \in Posts, TakeIn(s) PROVE MemoryHeld'
  BY <1>4, AcceptMemory
<1>5. ASSUME NEW r \in Guards, Restart(r) PROVE MemoryHeld'
  <2>1. \A p \in Guards, t \in Tokens :
          \/ memory'[p][t] = 0
          \/ memory'[p][t] = memory[p][t] /\ seen'[p][t] = seen[p][t]
    BY <1>5 DEF Restart, HookTypeOK
  <2>2. \A s \in Posts : post'[s] \in {NoPost, post[s]}
    BY <1>5 DEF Restart
  <2>3. UNCHANGED <<time, signed>>
    BY <1>5 DEF Restart
  <2>4. ~(0 > time)
    BY DEF HookTypeOK
  <2> QED
    BY <2>1, <2>2, <2>3, <2>4 DEF MemoryHeld, NoPost, HookTypeOK
<1>6. CASE HookTick
  <2>1. time' = time + 1 /\ UNCHANGED <<signed, seen, post, memory>>
    BY <1>6 DEF HookTick
  <2>2. /\ time \in Nat
        /\ \A s \in Posts : post[s].now \in Nat
        /\ \A r \in Guards, t \in Tokens : memory[r][t] \in Nat
    BY DEF HookTypeOK, PostState, NoPost
  <2> QED
    BY <2>1, <2>2 DEF MemoryHeld
<1>7. CASE UNCHANGED hookVars
  BY <1>7 DEF hookVars, MemoryHeld
<1> QED
  BY <1>1, <1>2, <1>3, <1>4, <1>5, <1>6, <1>7 DEF HookNext

\* A guard that has not lost a token takes it again only at the last moment that
\* its signature is acceptable, or later from a body that took that long, for all
\* windows with ReplayWindow >= 2 * SignatureWindow, as the constants have it.
THEOREM RepeatsTakenLate == HookSpec => RepeatIsTakenOnlyLate
<1>1. HookTypeOK /\ MemoryHeld /\ [HookNext]_hookVars
        => [\A s \in Posts :
              LET q == post[s]
                  last == signed[q.token] + SignatureWindow
              IN TakeIn(s) /\ memory[q.replica][q.token] # 0
                   => time >= last /\ (q.now = last \/ q.now < time)]_hookVars
  <2> SUFFICES ASSUME HookTypeOK, MemoryHeld, NEW s \in Posts, TakeIn(s),
                      memory[post[s].replica][post[s].token] # 0
               PROVE  LET last == signed[post[s].token] + SignatureWindow
                      IN time >= last /\ (post[s].now = last \/ post[s].now < time)
    OBVIOUS
  <2> DEFINE r == post[s].replica
             t == post[s].token
             now == post[s].now
  <2>1. /\ t \in Tokens /\ r \in Guards
        /\ now \in Nat /\ now <= time
    BY RequestFacts DEF TakeIn, MemoryHeld
  <2>2. seen[r][t] <= now /\ now <= signed[t] + SignatureWindow
    BY DEF TakeIn, Verified
  <2>3. /\ memory[r][t] >= signed[t] + SignatureWindow
        /\ memory[r][t] > time => seen[r][t] = memory[r][t]
    BY <2>1 DEF MemoryHeld
  <2>4. /\ memory[r][t] \in Nat /\ signed[t] \in Nat /\ time \in Nat
        /\ SignatureWindow \in Nat
    BY <2>1, WindowAssumption DEF HookTypeOK
  <2>5. memory[r][t] <= time
    BY <2>1, <2>2, <2>3, <2>4
  <2> QED
    BY <2>1, <2>2, <2>3, <2>4, <2>5
<1>2. HookSpec => [](HookTypeOK /\ MemoryHeld)
  BY InitType, InitMemory, NextType, NextMemory, PTL DEF HookSpec
<1> QED
  BY <1>1, <1>2, PTL DEF HookSpec, RepeatIsTakenOnlyLate

=============================================================================
