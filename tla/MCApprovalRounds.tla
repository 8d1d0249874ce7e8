-------------------------- MODULE MCApprovalRounds --------------------------
(***************************************************************************)
(* Instances of ApprovalRounds for TLC: a workflow of two levels; none may *)
(* apply, or both.                                                         *)
(***************************************************************************)
EXTENDS ApprovalRounds, TLC

MCEffective == {{}, {1, 2}}

Symmetry == Permutations(Calls)

\* Two states that differ only in what a call that is over had in its variables behave
\* alike: of those only the levels of the last round are looked at again.
Over(c) == pc[c] \in {"done", "refused", "crashed"}
Live(f, none) == [c \in Calls |-> IF Over(c) THEN none ELSE f[c]]

View ==
    <<doc, slots, by, round, byHand, calm, Live(pc, "done"), Live(role, Admin), Live(todo, {}),
      Live(target, NoSlot), Live(verdict, "draft"),
      [c \in Calls |-> IF Over(c) /\ c # round THEN {} ELSE eff[c]]>>

=============================================================================
