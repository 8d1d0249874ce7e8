------------------------------ MODULE MCNaming ------------------------------
(***************************************************************************)
(* Instances of Naming for TLC: three creates.  In MCNaming.cfg numbers    *)
(* are binary, so that a width of two is full after the third document.    *)
(***************************************************************************)
EXTENDS Naming, TLC

Symmetry == Permutations(Creates)

=============================================================================
