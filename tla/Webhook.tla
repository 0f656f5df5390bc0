------------------------------- MODULE Webhook -------------------------------
(***************************************************************************)
(* The guards in front of the inbound webhook: the timestamp window and    *)
(* the in-memory replay guard of every replica, against a caller that      *)
(* may repeat a signed post for hours.                                     *)
(*                                                                         *)
(* A request reads the clock FIRST and the body after it, and a body may   *)
(* take any time to arrive, so requests reach the guard in another order   *)
(* than the one their clock readings have. What the message is worth       *)
(* (module Mailbox) is one of three endings here: taken, refused for good, *)
(* or a failure of ours.                                                   *)
(***************************************************************************)
EXTENDS Naturals, FiniteSets

CONSTANTS
  Tokens,           \* tokens Mailgun may sign a post with
  Guards,           \* server processes, each with a guard of its own
  Posts,            \* posts that can be in flight at once
  NoToken,          \* no token
  NoGuard,          \* no process
  SignatureWindow,  \* mail.SignatureWindow, 5 minutes
  ReplayWindow,     \* mail.ReplayWindow, 10 minutes
  MaxReplayTokens,  \* mail.maxReplayTokens, 100000
  LastTime          \* bound: the last instant the model's clock reaches

ASSUME WindowAssumption ==
  /\ SignatureWindow \in Nat
  /\ ReplayWindow \in Nat \ {0}
  /\ ReplayWindow >= 2 * SignatureWindow
ASSUME CapAssumption == MaxReplayTokens \in Nat \ {0}
ASSUME TokensAssumption == IsFiniteSet(Tokens)
ASSUME NullAssumption == NoToken \notin Tokens /\ NoGuard \notin Guards
ASSUME LastTimeAssumption == LastTime \in Nat

VARIABLES
  time,     \* server time; the replicas agree on it
  signed,   \* the timestamp each token was signed with, 0 before that
  seen,     \* each guard's map: when a token stops counting as seen, or 0
  post,     \* what each request has read so far
  outcome,  \* history: what ingest last made of each token; "final" stays
  memory    \* history: the expiry a guard last gave a token, 0 once the
            \* guard lost it to a restart or to its cap

hookVars == <<time, signed, seen, post, outcome, memory>>

NoPost == [pc |-> "idle", token |-> NoToken, replica |-> NoGuard,
              now |-> 0]

PostState ==
  {NoPost} \cup
  [pc: {"reading", "ingesting"}, token: Tokens, replica: Guards, now: Nat]

\* "spurned" is a post that failed and whose repeat was refused as a replay.
Outcomes == {"none", "failed", "spurned", "final"}

HookInit ==
  /\ time = 1
  /\ signed = [t \in Tokens |-> 0]
  /\ seen = [r \in Guards |-> [t \in Tokens |-> 0]]
  /\ post = [s \in Posts |-> NoPost]
  /\ outcome = [t \in Tokens |-> "none"]
  /\ memory = [r \in Guards |-> [t \in Tokens |-> 0]]

-----------------------------------------------------------------------------
(* Mailgun.                                                                *)

\* Mailgun dates a post by its own clock, which is not the server's.
Sign(t) ==
  /\ signed[t] = 0
  /\ \E timestamp \in 1..LastTime :
       signed' = [signed EXCEPT ![t] = timestamp]
  /\ UNCHANGED <<time, seen, post, outcome, memory>>

\* serveInbound reads the clock and starts on the body. Mailgun repeats a post
\* as it is until it has seen a 200 or a 406, which may be lost on its way back,
\* so a repeat can follow any answer, or overlap the post it repeats.
Open(s) ==
  /\ post[s].pc = "idle"
  /\ \E t \in {t \in Tokens : signed[t] # 0}, r \in Guards :
       post' = [post EXCEPT ![s] =
         [pc |-> "reading", token |-> t, replica |-> r, now |-> time]]
  /\ UNCHANGED <<time, signed, seen, outcome, memory>>

-----------------------------------------------------------------------------
(* The guard.                                                              *)

EndPost(s) == post' = [post EXCEPT ![s] = NoPost]

\* VerifyMailgunSignature, of a post that Mailgun did sign.
Verified(timestamp, now) ==
  /\ now <= timestamp + SignatureWindow
  /\ timestamp <= now + SignatureWindow

\* The tokens a map holds, and the ones an insert at now finds expired.
Held(map) == {t \in Tokens : map[t] # 0}

Pruned(map, now) == [t \in Tokens |-> IF map[t] > now THEN map[t] ELSE 0]

\* evictOldest drops the entries nearest their expiry (in any order among
\* equals) until half of the cap is left.
Survivors(map) ==
  {K \in SUBSET Held(map) :
     /\ Cardinality(K) = MaxReplayTokens \div 2
     /\ \A kept \in K, dropped \in Held(map) \ K : map[dropped] <= map[kept]}

\* Bug: > for >=.
KeptOverfull(map) ==
  IF Cardinality(Held(map)) > MaxReplayTokens THEN Survivors(map)
                                              ELSE {Held(map)}

Kept(map) ==
  IF Cardinality(Held(map)) >= MaxReplayTokens THEN Survivors(map)
                                               ELSE {Held(map)}

\* Bug: the window of the signature for the window of the guard.
ExpiryShort(now) == now + SignatureWindow

Expiry(now) == now + ReplayWindow

\* A body that is too large, unreadable or never finished, or a timestamp out
\* of the window: answered before the guard sees the token.
TurnAway(s) ==
  /\ post[s].pc = "reading"
  /\ EndPost(s)
  /\ UNCHANGED <<time, signed, seen, outcome, memory>>

\* Seen reports a token that still counts.
RefuseReplay(s) ==
  LET q == post[s] IN
  /\ q.pc = "reading"
  /\ Verified(signed[q.token], q.now)
  /\ seen[q.replica][q.token] > q.now
  /\ outcome' = [outcome EXCEPT ![q.token] =
                   IF @ = "failed" THEN "spurned" ELSE @]
  /\ EndPost(s)
  /\ UNCHANGED <<time, signed, seen, memory>>

\* Seen remembers any other, pruning and, at the cap, evicting first.
TakeIn(s) ==
  LET q == post[s]
      pruned == Pruned(seen[q.replica], q.now)
      until == Expiry(q.now)
  IN /\ q.pc = "reading"
     /\ Verified(signed[q.token], q.now)
     /\ seen[q.replica][q.token] <= q.now
     /\ \E K \in Kept(pruned) :
          /\ seen' = [seen EXCEPT ![q.replica] = [t \in Tokens |->
               IF t = q.token THEN until ELSE IF t \in K THEN pruned[t] ELSE 0]]
          /\ memory' = [memory EXCEPT ![q.replica] = [t \in Tokens |->
               IF t = q.token THEN until
               ELSE IF t \in Held(pruned) \ K THEN 0
               ELSE memory[q.replica][t]]]
     /\ post' = [post EXCEPT ![s].pc = "ingesting"]
     /\ UNCHANGED <<time, signed, outcome>>

-----------------------------------------------------------------------------
(* What ingest makes of it, and the process it runs in.                    *)

\* 200, stored or quarantined or swallowed as a redelivery; or 406, a message
\* that no retry would make better.
Finish(s) ==
  /\ post[s].pc = "ingesting"
  /\ outcome' = [outcome EXCEPT ![post[s].token] = "final"]
  /\ EndPost(s)
  /\ UNCHANGED <<time, signed, seen, memory>>

\* 500: the database failed, or the handler panicked.
Fail(s) ==
  /\ post[s].pc = "ingesting"
  /\ outcome' = [outcome EXCEPT ![post[s].token] =
                   IF @ = "final" THEN @ ELSE "failed"]
  /\ EndPost(s)
  /\ UNCHANGED <<time, signed, seen, memory>>

\* A process stops with the requests it is serving, and forgets its tokens.
Restart(r) ==
  /\ seen' = [seen EXCEPT ![r] = [t \in Tokens |-> 0]]
  /\ memory' = [memory EXCEPT ![r] = [t \in Tokens |-> 0]]
  /\ post' = [s \in Posts |->
                   IF post[s].replica = r THEN NoPost ELSE post[s]]
  /\ UNCHANGED <<time, signed, outcome>>

HookTick ==
  /\ time < LastTime
  /\ time' = time + 1
  /\ UNCHANGED <<signed, seen, post, outcome, memory>>

HookNext ==
  \/ \E t \in Tokens : Sign(t)
  \/ \E s \in Posts :
       \/ Open(s) \/ TurnAway(s) \/ RefuseReplay(s) \/ TakeIn(s)
       \/ Finish(s) \/ Fail(s)
  \/ \E r \in Guards : Restart(r)
  \/ HookTick

HookSpec == HookInit /\ [][HookNext]_hookVars

-----------------------------------------------------------------------------
(* What the guard promises.                                                *)

HookTypeOK ==
  /\ time \in Nat
  /\ signed \in [Tokens -> Nat]
  /\ seen \in [Guards -> [Tokens -> Nat]]
  /\ post \in [Posts -> PostState]
  /\ outcome \in [Tokens -> Outcomes]
  /\ memory \in [Guards -> [Tokens -> Nat]]

\* A process that has been up for months cannot grow the map past its cap,
\* whatever order clock readings reach it in (mailgun.go: maxReplayTokens).
GuardIsBounded ==
  \A r \in Guards : Cardinality(Held(seen[r])) <= MaxReplayTokens

\* "[A] captured request cannot be sent twice inside the window where its
\* signature is still valid", for "the token has to outlive the last moment its
\* signature is still acceptable" (mailgun.go). It can, in two ways, and this is
\* how late: the guard takes a token again that it has lost neither to a restart
\* nor to its cap only at or past that last moment, and only from a post that
\* came in at the moment itself, where the memory of a token dated a whole
\* window ahead has just ended and the signature is still good; or from one that
\* came in before, and whose body took until another post pruned the token.
RepeatIsTakenOnlyLate ==
  [][\A s \in Posts :
       LET q == post[s]
           last == signed[q.token] + SignatureWindow
       IN TakeIn(s) /\ memory[q.replica][q.token] # 0
            => time >= last /\ (q.now = last \/ q.now < time)]_hookVars

\* What the response table says of a 500, that it "should not cost a
\* verification code": a post that we failed is not then refused as a replay
\* of itself. The code refuses it, because the token is remembered before the
\* message is stored and never given back.
FailureIsNotAReplay == \A t \in Tokens : outcome[t] # "spurned"

=============================================================================
