------------------------------ MODULE Approval ------------------------------
(***************************************************************************)
(* What multi-level approval promises of one document: a review asks the   *)
(* levels that apply to it one after the other, in order, each answered by *)
(* its own role or the administrator; the last approval decides it, and so *)
(* does the first rejection.  A plain PUT of doc_status is none of this:   *)
(* it moves the document and leaves the levels as they are.                *)
(***************************************************************************)
EXTENDS Naturals

CONSTANTS
    Levels,      \* the workflow's levels, 1, 2, ...
    Effective,   \* the sets of levels that the amounts of a document select
    Puts         \* the doc_status transitions a plain PUT may do

Admin == 0

VARIABLES
    status,   \* the document's doc_status
    open,     \* the levels that its review still waits for
    signed    \* the approvals of its last round: pairs of a level and a role

review == <<status, open, signed>>

Init ==
    /\ status = "draft"
    /\ open = {}
    /\ signed = {}

\* a draft that levels apply to goes under review, and forgets what it was asked before
Submit(L) ==
    /\ status = "draft"
    /\ L # {}
    /\ status' = "pending_review"
    /\ open' = L
    /\ signed' = {}

\* one that no level applies to needs no review
SubmitPlain ==
    /\ status = "draft"
    /\ {} \in Effective
    /\ status' = "submitted"
    /\ UNCHANGED <<open, signed>>

\* the lowest open level, by its role; the last one decides
Approve(l, u) ==
    /\ status = "pending_review"
    /\ l \in open /\ \A k \in open : l <= k
    /\ u \in {Admin, l}
    /\ open' = open \ {l}
    /\ signed' = signed \cup {<<l, u>>}
    /\ status' = IF open = {l} THEN "approved" ELSE status

Reject ==
    /\ status = "pending_review"
    /\ open' = {}
    /\ status' = "rejected"
    /\ UNCHANGED signed

\* past the levels, which stay open
Put(to) ==
    /\ <<status, to>> \in Puts
    /\ status' = to
    /\ UNCHANGED <<open, signed>>

Next ==
    \/ \E L \in Effective : Submit(L)
    \/ SubmitPlain
    \/ \E l \in Levels, u \in Levels \cup {Admin} : Approve(l, u)
    \/ Reject
    \/ \E p \in Puts : Put(p[2])

Spec == Init /\ [][Next]_review

=============================================================================
