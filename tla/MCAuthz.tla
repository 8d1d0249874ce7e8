------------------------------- MODULE MCAuthz -------------------------------
(* Authz for TLC.  Its checks are alike, and its actions.                  *)
EXTENDS Authz, TLC

Symmetry == Permutations(Checks) \cup Permutations(Actions)

=============================================================================
