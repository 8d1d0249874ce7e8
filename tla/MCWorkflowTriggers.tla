------------------------- MODULE MCWorkflowTriggers -------------------------
(***************************************************************************)
(* Instances of WorkflowTriggers for TLC: a document that is put under     *)
(* review, sent back or finished.  Putting it under review, which it may   *)
(* go through more than once, triggers a plugin.                           *)
(***************************************************************************)
EXTENDS WorkflowTriggers

MCStates == {"open", "review", "closed"}
MCTransitions == {<<"open", "review">>, <<"review", "open">>, <<"review", "closed">>}
MCKeys == {<<"open", "review">>}
MCStatusMap == [open |-> "none", review |-> "pending_review", closed |-> "approved"]

\* The part of VALID_TRANSITIONS between the statuses the map names.
MCStatusMoves == {<<"draft", "pending_review">>, <<"pending_review", "approved">>}

=============================================================================
