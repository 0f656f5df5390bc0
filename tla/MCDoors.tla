------------------------------- MODULE MCDoors -------------------------------
(***************************************************************************)
(* The ways into a household, for people and for mail: its members, the    *)
(* guards of the webhook, and what a mail that has passed them is taken to *)
(* say. They share no state, so each is explored in full while the others  *)
(* are in their initial states. The founder is one of the users;           *)
(* providers, tokens and the slots of the webhook are interchangeable.     *)
(***************************************************************************)
EXTENDS Members, Webhook, MCParse, TLC

DoorsInit == Init /\ HookInit /\ ParseInit

\* The headers and the body of a mail are apart as well.
DoorsNext ==
  \/ HookInit /\ ParseInit /\ Next /\ UNCHANGED <<hookVars, parseVars>>
  \/ Init /\ ParseInit /\ HookNext /\ UNCHANGED <<vars, parseVars>>
  \/ /\ Init /\ HookInit
     /\ \/ TextInit /\ HeaderNext /\ UNCHANGED textVars
        \/ HeaderInit /\ TextNext /\ MCWithinBounds' /\ UNCHANGED headerVars
     /\ UNCHANGED <<vars, hookVars>>

DoorsSpec == DoorsInit /\ [][DoorsNext]_<<vars, hookVars, parseVars>>

Symmetry ==
  Permutations(Providers) \cup Permutations(Tokens) \cup Permutations(Posts)

=============================================================================
