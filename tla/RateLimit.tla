------------------------------ MODULE RateLimit ------------------------------
(***************************************************************************)
(* The app's fixed-window brake on one client under one rule. The window   *)
(* is part of a counter's key, one statement increments it, and nothing    *)
(* reads its expiry but the nightly sweep; the counters of other clients   *)
(* and rules are other rows, which no statement here reads.                *)
(*                                                                         *)
(* A replica reads its own clock to find the key, and its clock again when *)
(* the statement runs: in between the request may wait for a connection,   *)
(* the window may end, and the sweep may pass.                             *)
(***************************************************************************)
EXTENDS Integers

CONSTANTS
  Replicas,       \* server processes, each with a clock of its own
  Requests,       \* requests of the client that can be in flight at once
  NoReplica,      \* no replica
  WindowSeconds,  \* Rule.WindowSeconds
  Limit,          \* Rule.Max
  MinTtl,         \* the floor under a counter's life, a minute
  Skew,           \* bound: how far apart two clocks may be
  MaxDelay,       \* bound: how long a request may wait for its statement
  MaxTime,        \* bound: the last instant the model's clock reaches
  MaxHits         \* bound: statements that count a request, by window

ASSUME RuleAssumption == WindowSeconds \in Nat \ {0} /\ Limit \in Nat
ASSUME MinTtlAssumption == MinTtl \in Nat
ASSUME TimeAssumption == MaxTime \in Nat /\ MaxDelay \in Nat /\ Skew \in Nat
ASSUME HitsAssumption == MaxHits \in Nat
ASSUME NoReplicaAssumption == NoReplica \notin Replicas

\* "so clock skew between replicas cannot resurrect a bucket that should already
\* have expired": skew and waiting together have a window's time to spare.
ASSUME GenerousAssumption == MaxDelay + Skew <= WindowSeconds

VARIABLES
  clock,     \* the time of the slowest clock
  ahead,     \* how far each replica's clock is ahead of it
  bucket,    \* the client's rows of rate_limit, by window number
  request,   \* what each request has read so far
  admitted,  \* history: requests let through, by the window they came in
  counted    \* history: statements that counted one, by the same window

vars == <<clock, ahead, bucket, request, admitted, counted>>

Instants == 0..(MaxTime + Skew)
Reading(r) == clock + ahead[r]

\* The window a reading of the clock falls in.
WindowOf(now) == now \div WindowSeconds
Windows == {WindowOf(now) : now \in Instants}

NoRow == [count |-> 0, expires |-> 0]
NoRequest == [pc |-> "idle", replica |-> NoReplica, now |-> 0, since |-> 0]
RequestState ==
  {NoRequest} \cup
  [pc: {"keyed"}, replica: Replicas, now: Instants, since: Nat]

Init ==
  /\ clock = 0
  /\ ahead \in [Replicas -> 0..Skew]
  /\ bucket = [w \in Windows |-> NoRow]
  /\ request = [s \in Requests |-> NoRequest]
  /\ admitted = [w \in Windows |-> 0]
  /\ counted = [w \in Windows |-> 0]

-----------------------------------------------------------------------------

EndRequest(s) == request' = [request EXCEPT ![s] = NoRequest]

\* The middleware reads the clock.
Arrive(s) ==
  /\ request[s].pc = "idle"
  /\ \E r \in Replicas :
       request' = [request EXCEPT ![s] =
         [pc |-> "keyed", replica |-> r, now |-> Reading(r), since |-> clock]]
  /\ UNCHANGED <<clock, ahead, bucket, admitted, counted>>

\* Bug: one counter for all time, reset only when the sweep takes it.
KeyForever(now) == 0

Key(now) == WindowOf(now)

\* Bug: a counter lives no longer than its window.
TtlOfOneWindow == WindowSeconds

Ttl == IF 2 * WindowSeconds < MinTtl THEN MinTtl ELSE 2 * WindowSeconds

\* HitRateLimit: insert with an expiry, or increment and leave the expiry.
Hit(key, reading) ==
  bucket' = [bucket EXCEPT ![key] =
    [count |-> bucket[key].count + 1,
     expires |-> IF bucket[key] = NoRow THEN reading + Ttl
                 ELSE bucket[key].expires]]

Count(history, now) ==
  [history EXCEPT ![WindowOf(now)] = history[WindowOf(now)] + 1]

\* Bug: >= for >, the other way round: one more than the rule says.
WithinOneMore(count) == count <= Limit + 1

Within(count) == count <= Limit

\* Consume: the count that the statement returns decides; 429 otherwise.
Consume(s) ==
  LET q == request[s] IN
  /\ q.pc = "keyed"
  /\ counted[WindowOf(q.now)] < MaxHits
  /\ Hit(Key(q.now), Reading(q.replica))
  /\ counted' = Count(counted, q.now)
  /\ admitted' = IF Within(bucket[Key(q.now)].count + 1)
                 THEN Count(admitted, q.now) ELSE admitted
  /\ EndRequest(s)
  /\ UNCHANGED <<clock, ahead>>

Refused(s) == Consume(s) /\ ~Within(bucket[Key(request[s].now)].count + 1)

\* The statement ran but its answer is lost: counted, and closed with a 500.
LoseReply(s) ==
  LET q == request[s] IN
  /\ q.pc = "keyed"
  /\ counted[WindowOf(q.now)] < MaxHits
  /\ Hit(Key(q.now), Reading(q.replica))
  /\ counted' = Count(counted, q.now)
  /\ EndRequest(s)
  /\ UNCHANGED <<clock, ahead, admitted>>

\* The statement fails, the client hangs up, or the process stops.
FailHit(s) ==
  /\ request[s].pc = "keyed"
  /\ EndRequest(s)
  /\ UNCHANGED <<clock, ahead, bucket, admitted, counted>>

\* The retention run sweeps with the instant it started at, now or long ago.
Sweep ==
  /\ \E r \in Replicas : \E now \in 0..Reading(r) :
       bucket' = [w \in Windows |->
                    IF bucket[w].expires < now THEN NoRow ELSE bucket[w]]
  /\ UNCHANGED <<clock, ahead, request, admitted, counted>>

\* No request waits any longer than MaxDelay.
Tick ==
  /\ clock < MaxTime
  /\ \A s \in Requests :
       request[s].pc = "keyed" => clock < request[s].since + MaxDelay
  /\ clock' = clock + 1
  /\ UNCHANGED <<ahead, bucket, request, admitted, counted>>

RequestStep(s) == Arrive(s) \/ Consume(s) \/ LoseReply(s) \/ FailHit(s)

Next == (\E s \in Requests : RequestStep(s)) \/ Sweep \/ Tick

Spec == Init /\ [][Next]_vars

-----------------------------------------------------------------------------
(* What the brake promises.                                                *)

TypeOK ==
  /\ clock \in 0..MaxTime
  /\ ahead \in [Replicas -> 0..Skew]
  /\ bucket \in [Windows -> [count: Nat, expires: Nat]]
  /\ request \in [Requests -> RequestState]
  /\ admitted \in [Windows -> Nat]
  /\ counted \in [Windows -> Nat]

\* "the limit holds even when several replicas serve the same caller at once":
\* of the requests that came in one window no more than Limit are let through,
\* however late their statements run and whatever the sweep takes meanwhile.
LimitHolds == \A w \in Windows : admitted[w] <= Limit

\* "five attempts per fifteen minutes", and not "five attempts, then wait for a
\* cron job": a request is refused only when as many as the rule allows were
\* counted before it in its own window.
RefusedOnlyWhenSpent ==
  [][\A s \in Requests :
       Refused(s) => counted[WindowOf(request[s].now)] >= Limit]_vars

=============================================================================
