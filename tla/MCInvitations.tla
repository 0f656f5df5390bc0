---------------------------- MODULE MCInvitations ----------------------------
(* Invitations for TLC: the founder's account, and two account ids for the   *)
(* one invited address, so that an account taken back can be made again.     *)
EXTENDS Invitations, TLC

CONSTANTS ana, ben, ben2

MCUsers == {ana, ben, ben2}
MCManaged == {ben, ben2}
MCAddressOf == [u \in MCUsers |-> IF u = ana THEN "ana@" ELSE "ben@"]

Symmetry ==
  Permutations({ben, ben2}) \cup Permutations(Invites) \cup Permutations(Accepts)

=============================================================================
