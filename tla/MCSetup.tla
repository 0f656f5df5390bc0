------------------------------- MODULE MCSetup -------------------------------
(* Setup for TLC: attempts and account ids are interchangeable; the safety   *)
(* runs may use that.                                                        *)
EXTENDS Setup, TLC

Symmetry == Permutations(Attempts) \cup Permutations(Ids)

=============================================================================
