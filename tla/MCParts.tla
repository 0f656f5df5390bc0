------------------------------- MODULE MCParts -------------------------------
(***************************************************************************)
(* Parts that share no state, side by side. None of them reads what        *)
(* another writes, so an interleaving of two says nothing that the two     *)
(* alone do not: each part is explored in full while the others are at     *)
(* rest, in their initial states.                                          *)
(***************************************************************************)
EXTENDS RateLimit, SenderRules, Inbox, Lifecycle, Outgoing, Gate, TLC

CONSTANTS ann, bob, net, sub  \* ann@sub.net and bob@net

MCLiesUnder == (ann :> {net, sub}) @@ (bob :> {net})
MCWidth == (net :> 1) @@ (sub :> 2)

RateLimitRests == Init /\ ahead = [r \in Replicas |-> 0]
OutgoingRests ==
  OutInit /\ smtpURL = [implicitTLS |-> FALSE, startTLSDisabled |-> FALSE,
                        host |-> "remote", credentials |-> TRUE]

PartsInit ==
  /\ Init /\ RulesInit /\ InboxInit /\ LifeInit /\ OutInit /\ GateInit
  /\ RateLimitRests \/ OutgoingRests

PartsNext ==
  \/ /\ RulesInit /\ InboxInit /\ LifeInit /\ OutgoingRests
     /\ GateInit
     /\ Next
     /\ UNCHANGED <<rulesVars, inboxVars, lifeVars, outVars, gateVars>>
  \/ /\ RateLimitRests /\ InboxInit /\ LifeInit /\ OutgoingRests
     /\ GateInit
     /\ RulesNext
     /\ UNCHANGED <<vars, inboxVars, lifeVars, outVars, gateVars>>
  \/ /\ RateLimitRests /\ RulesInit /\ LifeInit /\ OutgoingRests
     /\ GateInit
     /\ InboxNext
     /\ UNCHANGED <<vars, rulesVars, lifeVars, outVars, gateVars>>
  \/ /\ RateLimitRests /\ RulesInit /\ InboxInit /\ OutgoingRests
     /\ GateInit
     /\ LifeNext
     /\ UNCHANGED <<vars, rulesVars, inboxVars, outVars, gateVars>>
  \/ /\ RateLimitRests /\ RulesInit /\ InboxInit /\ LifeInit
     /\ GateInit
     /\ OutNext
     /\ UNCHANGED <<vars, rulesVars, inboxVars, lifeVars, gateVars>>
  \/ /\ RateLimitRests /\ RulesInit /\ InboxInit /\ LifeInit
     /\ OutgoingRests
     /\ GateNext
     /\ UNCHANGED <<vars, rulesVars, inboxVars, lifeVars, outVars>>

PartsSpec ==
  PartsInit /\ [][PartsNext]_<<vars, rulesVars, inboxVars, lifeVars, outVars,
                              gateVars>>

=============================================================================
