----------------------------- MODULE MCFamilies -----------------------------
(* Families for TLC.  Its parents and children are alike, and the writers  *)
(* served here, and those served elsewhere.                                *)
EXTENDS Families, TLC

Symmetry ==
    UNION {Permutations(S) : S \in {Parents, Children, Here, Writers \ Here}}

=============================================================================
