--------------------------- MODULE ApprovalRounds ---------------------------
(***************************************************************************)
(* One document of a collection with an approval workflow                  *)
(* (WorkflowService): submit opens a slot per effective level in           *)
(* _approvals, approve marks the lowest pending slot and flips doc_status  *)
(* when none is left, reject closes the pending slots.  Each of these is a *)
(* row of separate statements; between two of them any other call may run, *)
(* and the isolate may die.                                                *)
(***************************************************************************)
EXTENDS Naturals

CONSTANTS
    Calls,       \* calls of submit, approve and reject
    Levels,      \* the workflow's levels, 1, 2, ...
    Effective,   \* the sets of levels that the amounts of a document select
    NoSlot

DocStatuses == {"draft", "submitted", "pending_review", "approved", "rejected", "cancelled"}

\* VALID_TRANSITIONS, restricted to the statuses above
DocTable ==
    {<<"draft", "submitted">>, <<"draft", "pending_review">>, <<"draft", "cancelled">>,
     <<"submitted", "approved">>, <<"submitted", "cancelled">>,
     <<"pending_review", "approved">>, <<"pending_review", "rejected">>,
     <<"pending_review", "cancelled">>, <<"approved", "cancelled">>,
     <<"rejected", "draft">>, <<"rejected", "cancelled">>, <<"cancelled", "draft">>}

\* the roles: one for each level, and the administrator
Admin == 0
Roles == Levels \cup {Admin}

\* a slot is known by the submit that inserted it and its level
SlotIds == Calls \X Levels

ASSUME ApprovalAssumption ==
    /\ Levels \subseteq Nat \ {0}
    /\ Effective \subseteq SUBSET Levels
    /\ NoSlot \notin SlotIds \cup Calls

VARIABLES
    doc,      \* doc_status of the document
    slots,    \* status of each row of _approvals
    by,       \* the role of the user in approved_by
    round,    \* the submit that opened the last round of slots
    byHand,   \* doc_status was last moved by a PUT, not by one of the calls
    pc,       \* where each call is
    role,     \* the role of its user
    eff,      \* the levels a submit opens
    todo,     \* those it has not inserted yet
    target,   \* the slot an approve has read
    verdict,  \* the doc_status it is going to set
    calm      \* no call overlapped another or was cut short so far

callVars == <<role, eff, todo, target, verdict>>
vars == <<doc, slots, by, round, byHand, pc, callVars, calm>>

Pending == {s \in SlotIds : slots[s] = "pending"}

\* The rows of the last round read as one review.  A submit counts when it has cleared the
\* slots before its own, an approval when its slot is marked and a rejection when the
\* slots are closed, before doc_status follows.
Landing == {c \in Calls : pc[c] \in {"insert", "set"}}

Status ==
    IF Landing # {} THEN verdict[CHOOSE c \in Landing : TRUE]
    ELSE IF Pending = {} /\ (\E c \in Calls : pc[c] = "count") THEN "approved"
    ELSE doc

OpenLevels == {s[2] : s \in Pending} \cup UNION {todo[c] : c \in {b \in Calls : pc[b] = "insert"}}

Signatures ==
    IF round = NoSlot THEN {}
    ELSE {<<l, by[<<round, l>>]>> : l \in {k \in eff[round] : slots[<<round, k>>] = "approved"}}

Review == INSTANCE Approval
          WITH Puts <- DocTable, status <- Status, open <- OpenLevels, signed <- Signatures

States == {"idle", "clear", "insert", "next", "mark", "count", "close", "set", "done",
           "refused", "crashed"}

TypeOK ==
    /\ doc \in DocStatuses
    /\ slots \in [SlotIds -> {"none", "pending", "approved", "rejected"}]
    /\ by \in [SlotIds -> Roles]
    /\ round \in Calls \cup {NoSlot}
    /\ pc \in [Calls -> States]
    /\ role \in [Calls -> Roles]
    /\ eff \in [Calls -> SUBSET Levels]
    /\ todo \in [Calls -> SUBSET Levels]
    /\ target \in [Calls -> SlotIds \cup {NoSlot}]
    /\ verdict \in [Calls -> DocStatuses]
    /\ byHand \in BOOLEAN
    /\ calm \in BOOLEAN

Init ==
    /\ doc = "draft"
    /\ slots = [s \in SlotIds |-> "none"]
    /\ by = [s \in SlotIds |-> Admin]
    /\ round = NoSlot
    /\ byHand = FALSE
    /\ pc = [c \in Calls |-> "idle"]
    /\ role = [c \in Calls |-> Admin]
    /\ eff = [c \in Calls |-> {}]
    /\ todo = [c \in Calls |-> {}]
    /\ target = [c \in Calls |-> NoSlot]
    /\ verdict = [c \in Calls |-> "draft"]
    /\ calm = TRUE

UnderWay == {c \in Calls : pc[c] \notin {"idle", "done", "refused", "crashed"}}

Goto(c, from, to) ==
    /\ pc[c] = from
    /\ pc' = [pc EXCEPT ![c] = to]

Close(S, status) == slots' = [s \in SlotIds |-> IF s \in S THEN status ELSE slots[s]]

-----------------------------------------------------------------------------

\* submit reads the draft and the levels that apply to it
Submit(c) ==
    /\ calm' = (calm /\ UnderWay = {})
    /\ doc = "draft"
    /\ \E L \in Effective :
         /\ Goto(c, "idle", IF L = {} THEN "set" ELSE "clear")
         /\ eff' = [eff EXCEPT ![c] = L]
         /\ todo' = [todo EXCEPT ![c] = L]
         /\ verdict' = [verdict EXCEPT ![c] = IF L = {} THEN "submitted" ELSE "pending_review"]
    /\ UNCHANGED <<doc, slots, by, round, byHand, role, target>>

\* DELETE the pending slots of an earlier round
Clear(c) ==
    /\ Goto(c, "clear", "insert")
    /\ Close(Pending, "none")
    /\ round' = c
    /\ UNCHANGED <<doc, by, byHand, callVars, calm>>

\* INSERT the slot of the next level
InsertSlot(c) ==
    /\ \E l \in todo[c] :
         /\ \A k \in todo[c] : l <= k
         /\ Close({<<c, l>>}, "pending")
         /\ todo' = [todo EXCEPT ![c] = @ \ {l}]
         /\ Goto(c, "insert", IF todo[c] = {l} THEN "set" ELSE "insert")
    /\ UNCHANGED <<doc, by, round, byHand, role, eff, target, verdict, calm>>

\* mutant: the doc_status is not looked at
ApproveAnyway(c) ==
    /\ calm' = (calm /\ UnderWay = {})
    /\ Goto(c, "idle", "next")
    /\ \E u \in Roles : role' = [role EXCEPT ![c] = u]
    /\ UNCHANGED <<doc, slots, by, round, byHand, eff, todo, target, verdict>>

\* approve reads the document
Approve(c) ==
    /\ calm' = (calm /\ UnderWay = {})
    /\ doc = "pending_review"
    /\ Goto(c, "idle", "next")
    /\ \E u \in Roles : role' = [role EXCEPT ![c] = u]
    /\ UNCHANGED <<doc, slots, by, round, byHand, eff, todo, target, verdict>>

\* mutants: any pending level is approved; the role is not compared
NextSlotOfRole(c) ==
    /\ \E s \in Pending :
         /\ role[c] \in {Admin, s[2]}
         /\ Goto(c, "next", "mark")
         /\ target' = [target EXCEPT ![c] = s]
    /\ UNCHANGED <<doc, slots, by, round, byHand, role, eff, todo, verdict, calm>>

NextSlotOfAnyone(c) ==
    /\ \E s \in Pending :
         /\ \A t \in Pending : s[2] <= t[2]
         /\ Goto(c, "next", "mark")
         /\ target' = [target EXCEPT ![c] = s]
    /\ UNCHANGED <<doc, slots, by, round, byHand, role, eff, todo, verdict, calm>>

\* its lowest pending slot must be the caller's to approve
NextSlot(c) ==
    /\ \/ /\ Pending = {}
          /\ Goto(c, "next", "refused")
          /\ UNCHANGED target
       \/ \E s \in Pending :
            /\ \A t \in Pending : s[2] <= t[2]
            /\ Goto(c, "next", IF role[c] \in {Admin, s[2]} THEN "mark" ELSE "refused")
            /\ target' = [target EXCEPT ![c] = s]
    /\ UNCHANGED <<doc, slots, by, round, byHand, role, eff, todo, verdict, calm>>

\* UPDATE the slot by its id; no row is no error
Mark(c) ==
    /\ Goto(c, "mark", "count")
    /\ IF slots[target[c]] = "none"
       THEN UNCHANGED <<slots, by>>
       ELSE Close({target[c]}, "approved") /\ by' = [by EXCEPT ![target[c]] = role[c]]
    /\ UNCHANGED <<doc, round, byHand, callVars, calm>>

\* mutant: an approval is always the last
CountOne(c) ==
    /\ Goto(c, "count", "set")
    /\ verdict' = [verdict EXCEPT ![c] = "approved"]
    /\ UNCHANGED <<doc, slots, by, round, byHand, role, eff, todo, target, calm>>

\* mutant: the slot that was just approved is counted too
CountStale(c) ==
    /\ Goto(c, "count", "set")
    /\ verdict' = [verdict EXCEPT ![c] = "pending_review"]
    /\ UNCHANGED <<doc, slots, by, round, byHand, role, eff, todo, target, calm>>

\* SELECT COUNT(*) of the pending slots
Count(c) ==
    /\ Goto(c, "count", "set")
    /\ verdict' = [verdict EXCEPT ![c] = IF Pending = {} THEN "approved" ELSE "pending_review"]
    /\ UNCHANGED <<doc, slots, by, round, byHand, role, eff, todo, target, calm>>

\* reject reads the document
Reject(c) ==
    /\ calm' = (calm /\ UnderWay = {})
    /\ doc = "pending_review"
    /\ Goto(c, "idle", "close")
    /\ verdict' = [verdict EXCEPT ![c] = "rejected"]
    /\ UNCHANGED <<doc, slots, by, round, byHand, role, eff, todo, target>>

CloseAll(c) ==
    /\ Goto(c, "close", "set")
    /\ Close(Pending, "rejected")
    /\ UNCHANGED <<doc, by, round, byHand, callVars, calm>>

\* _setStatus: UPDATE by id
SetStatus(c) ==
    /\ Goto(c, "set", "done")
    /\ doc' = verdict[c]
    /\ byHand' = FALSE
    /\ UNCHANGED <<slots, by, round, callVars, calm>>

Crash(c) ==
    /\ calm' = FALSE
    /\ c \in UnderWay
    /\ pc' = [pc EXCEPT ![c] = "crashed"]
    /\ UNCHANGED <<doc, slots, by, round, byHand, callVars>>

\* updateItem takes doc_status along any transition and does not know of the slots: a PUT
\* of one record to submitted goes to submit instead, but bulk writes, the action route
\* and PUTs to any other status come here.  Its check and its UPDATE are one step: when
\* something runs between them, calm is over anyway.
Put ==
    /\ calm' = (calm /\ UnderWay = {})
    /\ \E to \in DocStatuses : <<doc, to>> \in DocTable /\ doc' = to
    /\ byHand' = TRUE
    /\ UNCHANGED <<slots, by, round, pc, callVars>>

Next ==
    \/ \E c \in Calls :
         \/ Submit(c) \/ Clear(c) \/ InsertSlot(c)
         \/ Approve(c) \/ NextSlot(c) \/ Mark(c) \/ Count(c)
         \/ Reject(c) \/ CloseAll(c)
         \/ SetStatus(c) \/ Crash(c)
    \/ Put

Spec == Init /\ [][Next]_vars

-----------------------------------------------------------------------------
(* Properties.                                                             *)

\* The workflow approves a document only when every level of its round has been approved
\* ("The last approval flips the doc to approved", workflow.service.ts:12-15).  A PUT to
\* approved asks no level, whatever slots there are (collection-mutation.service.ts:506-530).
ApprovedByAllLevels ==
    doc = "approved" /\ ~byHand =>
      round # NoSlot /\ \A l \in eff[round] : slots[<<round, l>>] = "approved"

\* The rule above as far as the code keeps it: as long as calls do not overlap, an
\* approval counts every level of the last round and none of an earlier one, though
\* PUTs cancel, reopen, approve or put under review the document at any time between.
CalmlyApproved == calm => ApprovedByAllLevels

\* A document that submit or approve left under review can be decided: some slot is
\* pending, or a call is on its way to set the doc_status, as long as calls do not overlap
\* and none dies.  A PUT to pending_review opens no slots, and no approve gets past
\* "no pending approval level" then (workflow.service.ts:128): only a reject, or a PUT.
NeverStuck ==
    calm /\ doc = "pending_review" /\ ~byHand => Pending # {} \/ UnderWay # {}

\* Every approved slot was approved by its level's role or the administrator,
\* whatever ran between the check and the UPDATE (:130-145).
RoleRespected == \A s \in SlotIds : slots[s] = "approved" => by[s] \in {Admin, s[2]}

\* A level is approved only after the levels below it: no lower slot of the
\* same round is pending (:118-127).
LevelsInOrder ==
    \A c \in Calls : \A k, l \in Levels :
      k < l /\ slots[<<c, l>>] = "approved" => slots[<<c, k>>] # "pending"

\* The separate statements of submit, approve and reject, and the PUTs between them, come
\* to one review of the document, in which every call is one step that Approval allows,
\* as long as calls do not overlap (workflow.service.ts:12-15): each level is asked in
\* order and answered by its role, once; the last approval or the first rejection
\* decides; a PUT moves the document past them and leaves them open, and the next submit
\* with a level forgets them.
ApprovalSpec == Review!Init /\ [][calm' => Review!Next]_<<Status, OpenLevels, Signatures>>

=============================================================================
