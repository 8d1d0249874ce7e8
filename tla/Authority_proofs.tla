-------------------------- MODULE Authority_proofs --------------------------
(***************************************************************************)
(* What the approval workflow and the permission checks keep, for any      *)
(* number of calls.  ApprovalRounds: the types; that a slot is only        *)
(* approved by its own role and levels are approved in order, however      *)
(* calls overlap and crash; and, as long as they do not, that the document *)
(* moves legally, by whole rounds, and is never stuck, so that it goes     *)
(* through the reviews of Approval.  Authz: how old an answer of           *)
(* checkBusiness may be, by an invariant on every entry cached and every   *)
(* check in progress.                                                      *)
(***************************************************************************)
EXTENDS ApprovalRounds, Authz, TLAPS

\* The types hold at first,
LEMMA InitType == Init => TypeOK
<1>1. Init => byHand \in BOOLEAN /\ calm \in BOOLEAN
  BY DEF Init
<1>. QED  BY <1>1 DEF Init, TypeOK, DocStatuses, States, Roles, Admin

\* Closing slots leaves every slot a status.
LEMMA CloseType ==
    ASSUME TypeOK, NEW S, NEW status \in {"none", "pending", "approved", "rejected"},
           Close(S, status)
    PROVE  /\ slots' \in [SlotIds -> {"none", "pending", "approved", "rejected"}]
           /\ \A s \in SlotIds : slots'[s] = IF s \in S THEN status ELSE slots[s]
BY DEF Close, TypeOK

\* and every step keeps them.
LEMMA NextType == TypeOK /\ [Next]_vars => TypeOK'
<1>. SUFFICES ASSUME TypeOK, [Next]_vars PROVE TypeOK'
  OBVIOUS
<1>. USE DEF TypeOK
<1>1. ASSUME NEW c \in Calls, Submit(c) PROVE TypeOK'
  <2>1. PICK L \in Effective :
          /\ Goto(c, "idle", IF L = {} THEN "set" ELSE "clear")
          /\ eff' = [eff EXCEPT ![c] = L]
          /\ todo' = [todo EXCEPT ![c] = L]
          /\ verdict' = [verdict EXCEPT ![c] = IF L = {} THEN "submitted" ELSE "pending_review"]
    BY <1>1 DEF Submit
  <2>2. L \in SUBSET Levels
    BY ApprovalAssumption
  <2>3. pc' \in [Calls -> States]
    BY <2>1 DEF Goto, States
  <2>4. verdict' \in [Calls -> DocStatuses]
    BY <2>1 DEF DocStatuses
  <2>5. eff' \in [Calls -> SUBSET Levels] /\ todo' \in [Calls -> SUBSET Levels]
    BY <2>1, <2>2
  <2>. QED  BY <1>1, <2>3, <2>4, <2>5 DEF Submit
<1>2. ASSUME NEW c \in Calls, Clear(c) PROVE TypeOK'
  <2>1. pc' \in [Calls -> States]
    BY <1>2 DEF Clear, Goto, States
  <2>. QED  BY <1>2, <2>1, CloseType DEF Clear, callVars
<1>3. ASSUME NEW c \in Calls, InsertSlot(c) PROVE TypeOK'
  <2>1. PICK l \in todo[c] :
          /\ Close({<<c, l>>}, "pending")
          /\ todo' = [todo EXCEPT ![c] = @ \ {l}]
          /\ Goto(c, "insert", IF todo[c] = {l} THEN "set" ELSE "insert")
    BY <1>3 DEF InsertSlot
  <2>2. pc' \in [Calls -> States]
    BY <2>1 DEF Goto, States
  <2>3. todo' \in [Calls -> SUBSET Levels]
    BY <2>1
  <2>. QED  BY <1>3, <2>1, <2>2, <2>3, CloseType DEF InsertSlot
<1>4. ASSUME NEW c \in Calls, Approve(c) PROVE TypeOK'
  BY <1>4 DEF Approve, Goto, States
<1>5. ASSUME NEW c \in Calls, NextSlot(c) PROVE TypeOK'
  <2>1. pc' \in [Calls -> States]
    BY <1>5 DEF NextSlot, Goto, States
  <2>2. target' \in [Calls -> SlotIds \cup {NoSlot}]
    BY <1>5 DEF NextSlot, Pending
  <2>. QED  BY <1>5, <2>1, <2>2 DEF NextSlot
<1>6. ASSUME NEW c \in Calls, Mark(c) PROVE TypeOK'
  <2>1. pc' \in [Calls -> States]
    BY <1>6 DEF Mark, Goto, States
  <2>2. slots' \in [SlotIds -> {"none", "pending", "approved", "rejected"}]
    BY <1>6, CloseType DEF Mark
  <2>3. by' \in [SlotIds -> Roles]
    BY <1>6 DEF Mark
  <2>. QED  BY <1>6, <2>1, <2>2, <2>3 DEF Mark, callVars
<1>7. ASSUME NEW c \in Calls, Count(c) PROVE TypeOK'
  BY <1>7 DEF Count, Goto, States, DocStatuses
<1>8. ASSUME NEW c \in Calls, Reject(c) PROVE TypeOK'
  BY <1>8 DEF Reject, Goto, States, DocStatuses
<1>9. ASSUME NEW c \in Calls, CloseAll(c) PROVE TypeOK'
  <2>1. pc' \in [Calls -> States]
    BY <1>9 DEF CloseAll, Goto, States
  <2>. QED  BY <1>9, <2>1, CloseType DEF CloseAll, callVars
<1>10. ASSUME NEW c \in Calls, SetStatus(c) PROVE TypeOK'
  <2>1. pc' \in [Calls -> States]
    BY <1>10 DEF SetStatus, Goto, States
  <2>. QED  BY <1>10, <2>1 DEF SetStatus, callVars
<1>11. ASSUME NEW c \in Calls, Crash(c) PROVE TypeOK'
  BY <1>11 DEF Crash, States, callVars
<1>12. ASSUME Put PROVE TypeOK'
  BY <1>12 DEF Put, callVars
<1>13. CASE UNCHANGED vars
  BY <1>13 DEF vars, callVars
<1>. QED
  BY <1>1, <1>2, <1>3, <1>4, <1>5, <1>6, <1>7, <1>8, <1>9, <1>10, <1>11, <1>12, <1>13
     DEF Next

\* The document, its slots and the calls keep their types.
THEOREM TypeCorrect == Spec => []TypeOK
  BY InitType, NextType, PTL DEF Spec

-----------------------------------------------------------------------------

\* an approve that is going to mark a slot has passed the role check for it
TargetIsChecked ==
    \A c \in Calls : pc[c] = "mark" =>
      target[c] \in SlotIds /\ role[c] \in {Admin, target[c][2]}

\* the slots of a submit are inserted in the order of their levels
InsertedInOrder ==
    \A s \in SlotIds :
      slots[s] # "none" \/ (\E c \in Calls : pc[c] = "mark" /\ target[c] = s) =>
        pc[s[1]] \notin {"idle", "clear"} /\ \A k \in todo[s[1]] : s[2] < k

\* below a slot that is going to be marked nothing of its round is pending
BelowTargetDecided ==
    \A c \in Calls, k \in Levels :
      pc[c] = "mark" /\ k < target[c][2] => slots[<<target[c][1], k>>] # "pending"

ApprovalInv ==
    /\ TypeOK
    /\ TargetIsChecked
    /\ InsertedInOrder
    /\ BelowTargetDecided
    /\ RoleRespected
    /\ LevelsInOrder

Rest == TargetIsChecked /\ InsertedInOrder /\ BelowTargetDecided /\ RoleRespected /\ LevelsInOrder

\* The order of levels holds before the first call,
LEMMA InitApproval == Init => ApprovalInv
<1>. SUFFICES ASSUME Init PROVE ApprovalInv
  OBVIOUS
<1>. QED
  BY InitType DEF Init, ApprovalInv, TargetIsChecked, InsertedInOrder, BelowTargetDecided,
     RoleRespected, LevelsInOrder, SlotIds

\* A step that makes no slot pending or approved, moves no call to its mark,
\* and starts no submit.
LEMMA QuietApproval ==
    ASSUME ApprovalInv, UNCHANGED <<by, todo>>,
           \A s \in SlotIds : slots'[s] = slots[s] \/ slots'[s] \in {"none", "rejected"},
           \A s \in SlotIds : slots[s] = "none" => slots'[s] = "none",
           \A c \in Calls : pc'[c] = "mark" =>
              pc[c] = "mark" /\ target'[c] = target[c] /\ role'[c] = role[c],
           \A c \in Calls : pc'[c] \in {"idle", "clear"} => pc[c] \in {"idle", "clear"}
    PROVE  Rest'
<1>1. TargetIsChecked'
  BY DEF ApprovalInv, TargetIsChecked
<1>2. InsertedInOrder'
  BY DEF ApprovalInv, InsertedInOrder, SlotIds
<1>3. BelowTargetDecided'
  <2>. SUFFICES ASSUME NEW c \in Calls, NEW k \in Levels, pc'[c] = "mark", k < target'[c][2]
                PROVE  slots'[<<target'[c][1], k>>] # "pending"
    BY DEF BelowTargetDecided
  <2>1. target'[c] = target[c] /\ target[c] \in SlotIds
    BY DEF ApprovalInv, TargetIsChecked
  <2>2. <<target[c][1], k>> \in SlotIds
    BY <2>1 DEF SlotIds
  <2>3. slots[<<target[c][1], k>>] # "pending"
    BY <2>1 DEF ApprovalInv, BelowTargetDecided
  <2>. QED  BY <2>1, <2>2, <2>3
<1>4. RoleRespected'
  BY DEF ApprovalInv, RoleRespected
<1>5. LevelsInOrder'
  <2>1. \A c \in Calls, k \in Levels : <<c, k>> \in SlotIds
    BY DEF SlotIds
  <2>. QED  BY <2>1 DEF ApprovalInv, LevelsInOrder
<1>. QED  BY <1>1, <1>2, <1>3, <1>4, <1>5 DEF Rest

\* and every step of a call keeps it.
LEMMA ApprovalStep == ApprovalInv /\ [Next]_vars => ApprovalInv'
<1>. SUFFICES ASSUME ApprovalInv, [Next]_vars PROVE ApprovalInv'
  OBVIOUS
<1>0. TypeOK /\ TypeOK'
  BY NextType DEF ApprovalInv
<1>1. ASSUME NEW c \in Calls, Submit(c) PROVE Rest'
  <2>1. PICK L \in Effective :
          /\ Goto(c, "idle", IF L = {} THEN "set" ELSE "clear")
          /\ todo' = [todo EXCEPT ![c] = L]
    BY <1>1 DEF Submit
  <2>2. UNCHANGED <<slots, by, role, target>> /\ pc[c] = "idle"
    BY <1>1, <2>1 DEF Submit, Goto
  <2>3. \A d \in Calls : pc'[d] = "mark" => pc[d] = "mark"
    BY <1>0, <2>1 DEF Goto, TypeOK
  <2>4. TargetIsChecked'
    BY <2>2, <2>3 DEF ApprovalInv, TargetIsChecked
  <2>5. InsertedInOrder'
    <3>. SUFFICES ASSUME NEW s \in SlotIds,
                         slots[s] # "none" \/ (\E d \in Calls : pc[d] = "mark" /\ target[d] = s)
                  PROVE  pc'[s[1]] \notin {"idle", "clear"} /\ \A k \in todo'[s[1]] : s[2] < k
      BY <2>2, <2>3 DEF InsertedInOrder
    <3>1. s[1] \in Calls /\ pc[s[1]] \notin {"idle", "clear"} /\ \A k \in todo[s[1]] : s[2] < k
      BY DEF ApprovalInv, InsertedInOrder, SlotIds
    <3>2. s[1] # c
      BY <2>2, <3>1
    <3>. QED  BY <1>0, <2>1, <3>1, <3>2 DEF Goto, TypeOK
  <2>6. BelowTargetDecided'
    BY <2>2, <2>3 DEF ApprovalInv, BelowTargetDecided
  <2>7. RoleRespected' /\ LevelsInOrder'
    BY <2>2 DEF ApprovalInv, RoleRespected, LevelsInOrder
  <2>. QED  BY <2>4, <2>5, <2>6, <2>7 DEF Rest
<1>2. ASSUME NEW c \in Calls, Clear(c) PROVE Rest'
  <2>1. \A s \in SlotIds : slots'[s] = IF s \in Pending THEN "none" ELSE slots[s]
    BY <1>0, <1>2, CloseType DEF Clear
  <2>2. /\ \A s \in SlotIds : slots'[s] = slots[s] \/ slots'[s] \in {"none", "rejected"}
        /\ \A s \in SlotIds : slots[s] = "none" => slots'[s] = "none"
    BY <2>1
  <2>. QED  BY <1>0, <1>2, <2>2, QuietApproval DEF Clear, Goto, TypeOK, callVars
<1>3. ASSUME NEW c \in Calls, InsertSlot(c) PROVE Rest'
  <2>1. PICK l \in todo[c] :
          /\ \A k \in todo[c] : l <= k
          /\ Close({<<c, l>>}, "pending")
          /\ todo' = [todo EXCEPT ![c] = @ \ {l}]
          /\ Goto(c, "insert", IF todo[c] = {l} THEN "set" ELSE "insert")
    BY <1>3 DEF InsertSlot
  <2>2. l \in Levels /\ l \in Nat /\ todo[c] \subseteq Nat /\ <<c, l>> \in SlotIds
    BY <1>0, ApprovalAssumption DEF TypeOK, SlotIds
  <2>3. \A s \in SlotIds : slots'[s] = IF s = <<c, l>> THEN "pending" ELSE slots[s]
    BY <1>0, <2>1, CloseType
  <2>4. UNCHANGED <<by, role, target>>
    BY <1>3 DEF InsertSlot
  <2>5. /\ \A d \in Calls : pc'[d] = "mark" => pc[d] = "mark"
        /\ pc[c] = "insert" /\ pc'[c] \in {"set", "insert"}
        /\ \A d \in Calls \ {c} : pc'[d] = pc[d] /\ todo'[d] = todo[d]
        /\ todo'[c] = todo[c] \ {l}
    BY <1>0, <2>1 DEF Goto, TypeOK
  \* no slot of this submit at or above l is there or is about to be marked
  <2>6. \A m \in Levels : l <= m =>
          slots[<<c, m>>] = "none" /\ \A d \in Calls : pc[d] = "mark" => target[d] # <<c, m>>
    <3>. SUFFICES ASSUME NEW m \in Levels, l <= m,
                         \/ slots[<<c, m>>] # "none"
                         \/ \E d \in Calls : pc[d] = "mark" /\ target[d] = <<c, m>>
                  PROVE  FALSE
      OBVIOUS
    <3>1. <<c, m>> \in SlotIds /\ <<c, m>>[1] = c /\ <<c, m>>[2] = m /\ m \in Nat
      BY ApprovalAssumption DEF SlotIds
    <3>2. m < l
      BY <2>1, <3>1 DEF ApprovalInv, InsertedInOrder
    <3>. QED  BY <2>2, <3>1, <3>2
  <2>7. TargetIsChecked'
    BY <2>4, <2>5 DEF ApprovalInv, TargetIsChecked
  <2>8. InsertedInOrder'
    <3>. SUFFICES ASSUME NEW s \in SlotIds,
                         slots'[s] # "none" \/ (\E d \in Calls : pc[d] = "mark" /\ target[d] = s)
                  PROVE  pc'[s[1]] \notin {"idle", "clear"} /\ \A k \in todo'[s[1]] : s[2] < k
      BY <2>4, <2>5 DEF InsertedInOrder
    <3>1. s[1] \in Calls
      BY DEF SlotIds
    <3>2. CASE s = <<c, l>>
      <4>1. s[1] = c /\ s[2] = l
        BY <3>2
      <4>2. \A k \in todo[c] \ {l} : l < k
        BY <2>1, <2>2
      <4>. QED  BY <2>5, <4>1, <4>2
    <3>3. CASE s # <<c, l>>
      <4>1. pc[s[1]] \notin {"idle", "clear"} /\ \A k \in todo[s[1]] : s[2] < k
        BY <2>3, <3>3 DEF ApprovalInv, InsertedInOrder
      <4>. QED  BY <2>5, <3>1, <4>1
    <3>. QED  BY <3>2, <3>3
  <2>9. BelowTargetDecided'
    <3>. SUFFICES ASSUME NEW d \in Calls, NEW k \in Levels, pc[d] = "mark", k < target[d][2]
                  PROVE  slots'[<<target[d][1], k>>] # "pending"
      BY <2>4, <2>5 DEF BelowTargetDecided
    <3>1. target[d] \in SlotIds /\ slots[<<target[d][1], k>>] # "pending"
      BY DEF ApprovalInv, TargetIsChecked, BelowTargetDecided
    <3>2. <<target[d][1], k>> \in SlotIds /\ target[d][2] \in Levels
          /\ target[d] = <<target[d][1], target[d][2]>> /\ target[d][2] \in Nat /\ k \in Nat
      <4>1. PICK a \in Calls, m \in Levels : target[d] = <<a, m>>
        BY <3>1 DEF SlotIds
      <4>2. target[d][1] = a /\ target[d][2] = m
        BY <4>1
      <4>. QED  BY <4>1, <4>2, ApprovalAssumption DEF SlotIds
    <3>3. ASSUME <<target[d][1], k>> = <<c, l>> PROVE FALSE
      <4>1. target[d][1] = c /\ k = l /\ l <= target[d][2]
        BY <2>2, <3>2, <3>3
      <4>. QED  BY <2>6, <3>2, <4>1
    <3>. QED  BY <2>3, <3>1, <3>2, <3>3
  <2>10. RoleRespected'
    BY <2>3, <2>4 DEF ApprovalInv, RoleRespected
  <2>11. LevelsInOrder'
    <3>. SUFFICES ASSUME NEW d \in Calls, NEW k \in Levels, NEW m \in Levels, k < m,
                         slots'[<<d, m>>] = "approved"
                  PROVE  slots'[<<d, k>>] # "pending"
      BY DEF LevelsInOrder
    <3>1. <<d, k>> \in SlotIds /\ <<d, m>> \in SlotIds /\ k \in Nat /\ m \in Nat
      BY ApprovalAssumption DEF SlotIds
    <3>2. slots[<<d, m>>] = "approved" /\ slots[<<d, k>>] # "pending"
      BY <2>3, <3>1 DEF ApprovalInv, LevelsInOrder
    <3>3. ASSUME <<d, k>> = <<c, l>> PROVE FALSE
      <4>1. d = c /\ k = l
        BY <3>3
      <4>. QED  BY <2>6, <3>1, <3>2, <4>1
    <3>. QED  BY <2>3, <3>1, <3>2, <3>3
  <2>. QED  BY <2>7, <2>8, <2>9, <2>10, <2>11 DEF Rest
<1>4. ASSUME NEW c \in Calls, Approve(c) PROVE Rest'
  BY <1>0, <1>4, QuietApproval DEF Approve, Goto, TypeOK
<1>5. ASSUME NEW c \in Calls, NextSlot(c) PROVE Rest'
  <2>1. CASE pc'[c] # "mark"
    BY <1>0, <1>5, <2>1, QuietApproval DEF NextSlot, Goto, TypeOK
  <2>2. CASE pc'[c] = "mark"
    <3>1. PICK s \in Pending :
            /\ \A t \in Pending : s[2] <= t[2]
            /\ Goto(c, "next", IF role[c] \in {Admin, s[2]} THEN "mark" ELSE "refused")
            /\ target' = [target EXCEPT ![c] = s]
      BY <1>0, <1>5, <2>2 DEF NextSlot, Goto, TypeOK
    <3>2. s \in SlotIds /\ slots[s] = "pending" /\ role[c] \in {Admin, s[2]} /\ target'[c] = s
      BY <1>0, <2>2, <3>1 DEF Pending, Goto, TypeOK
    <3>3. UNCHANGED <<slots, by, role, todo>> /\ pc[c] = "next"
      BY <1>5, <3>1 DEF NextSlot, Goto
    <3>4. \A d \in Calls \ {c} : pc'[d] = pc[d] /\ target'[d] = target[d]
      BY <1>0, <3>1 DEF Goto, TypeOK
    <3>5. TargetIsChecked'
      BY <3>2, <3>3, <3>4 DEF ApprovalInv, TargetIsChecked
    <3>6. InsertedInOrder'
      <4>. SUFFICES ASSUME NEW t \in SlotIds,
                           slots[t] # "none" \/ (\E d \in Calls : pc'[d] = "mark" /\ target'[d] = t)
                    PROVE  pc'[t[1]] \notin {"idle", "clear"} /\ \A k \in todo[t[1]] : t[2] < k
        BY <3>3 DEF InsertedInOrder
      <4>1. slots[t] # "none" \/ (\E d \in Calls : pc[d] = "mark" /\ target[d] = t)
        BY <3>2, <3>4
      <4>2. t[1] \in Calls /\ pc[t[1]] \notin {"idle", "clear"} /\ \A k \in todo[t[1]] : t[2] < k
        BY <4>1 DEF ApprovalInv, InsertedInOrder, SlotIds
      <4>. QED  BY <2>2, <3>4, <4>2
    <3>7. BelowTargetDecided'
      <4>1. ASSUME NEW k \in Levels, k < s[2] PROVE slots[<<s[1], k>>] # "pending"
        <5>1. <<s[1], k>> \in SlotIds /\ <<s[1], k>>[2] = k /\ k \in Nat /\ s[2] \in Nat
          BY <3>2, ApprovalAssumption DEF SlotIds
        <5>. QED  BY <3>1, <4>1, <5>1 DEF Pending
      <4>. QED  BY <3>2, <3>3, <3>4, <4>1 DEF ApprovalInv, BelowTargetDecided
    <3>8. RoleRespected' /\ LevelsInOrder'
      BY <3>3 DEF ApprovalInv, RoleRespected, LevelsInOrder
    <3>. QED  BY <3>5, <3>6, <3>7, <3>8 DEF Rest
  <2>. QED  BY <2>1, <2>2
<1>6. ASSUME NEW c \in Calls, Mark(c) PROVE Rest'
  <2>. DEFINE t == target[c]
  <2>0. pc[c] = "mark" /\ t \in SlotIds /\ role[c] \in {Admin, t[2]}
    BY <1>6 DEF Mark, Goto, ApprovalInv, TargetIsChecked
  <2>1. CASE slots[t] = "none"
    BY <1>0, <1>6, <2>1, QuietApproval DEF Mark, Goto, TypeOK, callVars
  <2>2. CASE slots[t] # "none"
    <3>1. /\ \A s \in SlotIds : slots'[s] = IF s = t THEN "approved" ELSE slots[s]
          /\ by' = [by EXCEPT ![t] = role[c]]
      BY <1>0, <1>6, <2>2, CloseType DEF Mark
    <3>2. UNCHANGED <<role, todo, target>>
      BY <1>6 DEF Mark, callVars
    <3>3. /\ \A d \in Calls : pc'[d] = "mark" => pc[d] = "mark"
          /\ \A d \in Calls : pc[d] \notin {"idle", "clear"} => pc'[d] \notin {"idle", "clear"}
      BY <1>0, <1>6 DEF Mark, Goto, TypeOK
    <3>4. TargetIsChecked'
      BY <3>2, <3>3 DEF ApprovalInv, TargetIsChecked
    <3>5. InsertedInOrder'
      <4>1. \A s \in SlotIds : s[1] \in Calls /\ (slots'[s] # "none" => slots[s] # "none")
        BY <2>2, <3>1 DEF SlotIds
      <4>. QED  BY <3>2, <3>3, <4>1 DEF ApprovalInv, InsertedInOrder
    <3>6. BelowTargetDecided'
      <4>. SUFFICES ASSUME NEW d \in Calls, NEW k \in Levels, pc[d] = "mark", k < target[d][2]
                    PROVE  slots'[<<target[d][1], k>>] # "pending"
        BY <3>2, <3>3 DEF BelowTargetDecided
      <4>1. <<target[d][1], k>> \in SlotIds /\ slots[<<target[d][1], k>>] # "pending"
        BY DEF ApprovalInv, TargetIsChecked, BelowTargetDecided, SlotIds
      <4>. QED  BY <3>1, <4>1
    <3>7. RoleRespected'
      BY <1>0, <2>0, <3>1 DEF ApprovalInv, RoleRespected, TypeOK
    <3>8. LevelsInOrder'
      <4>. SUFFICES ASSUME NEW d \in Calls, NEW k \in Levels, NEW m \in Levels, k < m,
                           slots'[<<d, m>>] = "approved"
                    PROVE  slots'[<<d, k>>] # "pending"
        BY DEF LevelsInOrder
      <4>1. <<d, k>> \in SlotIds /\ <<d, m>> \in SlotIds
        BY DEF SlotIds
      <4>2. slots[<<d, k>>] # "pending"
        <5>1. CASE <<d, m>> = t
          <6>1. t[1] = d /\ t[2] = m
            BY <5>1
          <6>. QED  BY <2>0, <6>1 DEF ApprovalInv, BelowTargetDecided
        <5>2. CASE <<d, m>> # t
          BY <3>1, <4>1, <5>2 DEF ApprovalInv, LevelsInOrder
        <5>. QED  BY <5>1, <5>2
      <4>. QED  BY <3>1, <4>1, <4>2
    <3>. QED  BY <3>4, <3>5, <3>6, <3>7, <3>8 DEF Rest
  <2>. QED  BY <2>1, <2>2
<1>7. ASSUME NEW c \in Calls, Count(c) PROVE Rest'
  BY <1>0, <1>7, QuietApproval DEF Count, Goto, TypeOK
<1>8. ASSUME NEW c \in Calls, Reject(c) PROVE Rest'
  BY <1>0, <1>8, QuietApproval DEF Reject, Goto, TypeOK
<1>9. ASSUME NEW c \in Calls, CloseAll(c) PROVE Rest'
  <2>1. \A s \in SlotIds : slots'[s] = IF s \in Pending THEN "rejected" ELSE slots[s]
    BY <1>0, <1>9, CloseType DEF CloseAll
  <2>2. /\ \A s \in SlotIds : slots'[s] = slots[s] \/ slots'[s] \in {"none", "rejected"}
        /\ \A s \in SlotIds : slots[s] = "none" => slots'[s] = "none"
    BY <2>1 DEF Pending
  <2>. QED  BY <1>0, <1>9, <2>2, QuietApproval DEF CloseAll, Goto, TypeOK, callVars
<1>10. ASSUME NEW c \in Calls, SetStatus(c) PROVE Rest'
  BY <1>0, <1>10, QuietApproval DEF SetStatus, Goto, TypeOK, callVars
<1>11. ASSUME NEW c \in Calls, Crash(c) PROVE Rest'
  BY <1>0, <1>11, QuietApproval DEF Crash, TypeOK, callVars
<1>12. ASSUME Put PROVE Rest'
  BY <1>0, <1>12, QuietApproval DEF Put, callVars
<1>13. ASSUME UNCHANGED vars PROVE Rest'
  BY <1>0, <1>13, QuietApproval DEF vars, callVars
<1>14. Rest'
  BY <1>1, <1>2, <1>3, <1>4, <1>5, <1>6, <1>7, <1>8, <1>9, <1>10, <1>11, <1>12, <1>13
     DEF Next
<1>. QED  BY <1>0, <1>14 DEF ApprovalInv, Rest

\* Whatever runs between the role check and the UPDATE, a slot is only
\* approved by the role of its level or the administrator.
THEOREM RolesAreRespected == Spec => []RoleRespected
<1>1. ApprovalInv => RoleRespected
  BY DEF ApprovalInv
<1>. QED  BY <1>1, InitApproval, ApprovalStep, PTL DEF Spec

\* However submits, approvals, rejections and crashes interleave, no level of a
\* round is approved while a lower one of the same round is pending.
THEOREM LevelsAreInOrder == Spec => []LevelsInOrder
<1>1. ApprovalInv => LevelsInOrder
  BY DEF ApprovalInv
<1>. QED  BY <1>1, InitApproval, ApprovalStep, PTL DEF Spec

-----------------------------------------------------------------------------
(* While calls do not overlap: what the call under way has seen of the     *)
(* document and the slots is still so when it sets the doc_status.         *)

Over == {"idle", "done", "refused", "crashed"}

\* What a call under way knows of the document.
KnowsDoc(c) ==
    /\ pc[c] \in {"clear", "insert"} => doc = "draft" /\ verdict[c] = "pending_review"
    /\ pc[c] \in {"next", "mark", "count", "close"} => doc = "pending_review"
    /\ pc[c] = "close" => verdict[c] = "rejected"
    /\ pc[c] = "set" =>
         \/ doc = "draft" /\ verdict[c] \in {"submitted", "pending_review"}
         \/ doc = "pending_review" /\ verdict[c] \in {"approved", "pending_review", "rejected"}

DocInv ==
    calm => /\ \A b, c \in UnderWay : b = c
            /\ \A c \in UnderWay : KnowsDoc(c)

\* A step of one call, or of a user if c is none, after which only that call may be
\* under way.
LEMMA DocStepOf ==
    ASSUME TypeOK, DocInv, NEW c \in Calls,
           \A b \in Calls \ {c} : pc'[b] = pc[b],
           calm' => calm /\ (c \in UnderWay \/ UnderWay = {}),
           calm' /\ pc'[c] \notin Over => KnowsDoc(c)'
    PROVE  DocInv'
<1>1. calm' => \A b \in Calls \ {c} : b \notin UnderWay
  BY DEF DocInv
<1>2. calm' => \A b \in UnderWay' : b = c
  BY <1>1 DEF UnderWay
<1>. QED  BY <1>2 DEF DocInv, UnderWay, Over

\* A call knows the document throughout, unless calls overlap.
LEMMA DocStep == TypeOK /\ DocInv /\ [Next]_vars => DocInv'
<1>. SUFFICES ASSUME TypeOK, DocInv, [Next]_vars PROVE DocInv'
  OBVIOUS
<1>0. \A c \in UnderWay : calm => KnowsDoc(c)
  BY DEF DocInv
<1>1. ASSUME NEW c \in Calls, Submit(c) \/ Approve(c) \/ Reject(c) PROVE DocInv'
  <2>1. calm' => calm /\ UnderWay = {}
    BY <1>1 DEF Submit, Approve, Reject, TypeOK
  <2>2. \A b \in Calls \ {c} : pc'[b] = pc[b]
    BY <1>1 DEF Submit, Approve, Reject, Goto, TypeOK
  <2>3. KnowsDoc(c)'
    BY <1>1 DEF Submit, Approve, Reject, Goto, TypeOK, KnowsDoc
  <2>. QED  BY <2>1, <2>2, <2>3, DocStepOf
<1>2. ASSUME NEW c \in Calls, Clear(c) \/ InsertSlot(c) \/ NextSlot(c) \/ Mark(c) \/ Count(c) \/ CloseAll(c)
      PROVE  DocInv'
  <2>1. calm' = calm /\ doc' = doc
    BY <1>2 DEF Clear, InsertSlot, NextSlot, Mark, Count, CloseAll
  <2>2. c \in UnderWay /\ \A b \in Calls \ {c} : pc'[b] = pc[b]
    BY <1>2 DEF Clear, InsertSlot, NextSlot, Mark, Count, CloseAll, Goto, TypeOK, UnderWay
  <2>3. calm /\ pc'[c] \notin Over => KnowsDoc(c)'
    BY <1>0, <1>2, <2>1, <2>2 DEF Clear, InsertSlot, NextSlot, Mark, Count, CloseAll, Goto, TypeOK,
       callVars, KnowsDoc, Over
  <2>. QED  BY <2>1, <2>2, <2>3, DocStepOf
<1>3. ASSUME NEW c \in Calls, SetStatus(c) PROVE DocInv'
  <2>1. /\ calm' = calm /\ c \in UnderWay /\ pc'[c] = "done"
        /\ \A b \in Calls \ {c} : pc'[b] = pc[b]
    BY <1>3 DEF SetStatus, Goto, TypeOK, UnderWay
  <2>. QED  BY <2>1, DocStepOf DEF Over
<1>4. ASSUME NEW c \in Calls, Crash(c) PROVE DocInv'
  BY <1>4 DEF Crash, DocInv
<1>5. CASE Put
  <2>1. calm' => calm /\ UnderWay = {}
    BY <1>5 DEF Put, TypeOK
  <2>2. UnderWay' = UnderWay
    BY <1>5 DEF Put, UnderWay
  <2>. QED  BY <2>1, <2>2 DEF DocInv
<1>6. CASE UNCHANGED vars
  BY <1>6 DEF vars, callVars, DocInv, UnderWay, KnowsDoc
<1>. QED  BY <1>1, <1>2, <1>3, <1>4, <1>5, <1>6 DEF Next

\* It holds throughout.
LEMMA DocInvAlways == Spec => []DocInv
<1>1. Init => DocInv
  BY DEF Init, DocInv, UnderWay
<1>. QED  BY <1>1, DocStep, TypeCorrect, PTL DEF Spec

\* doc_status moves along the transition table (field-utils.ts:431-439): what was
\* rejected or cancelled is never approved without going through a draft, as long
\* as calls do not overlap.
DocMovesLegally == [][calm' /\ doc' # doc => <<doc, doc'>> \in DocTable]_vars

\* While calls do not overlap, doc_status moves along the transition table,
\* whatever users do with it between the calls (field-utils.ts:431-439).
THEOREM DocStatusMovesLegally == Spec => DocMovesLegally
<1>1. TypeOK /\ DocInv /\ [Next]_vars =>
        [calm' /\ doc' # doc => <<doc, doc'>> \in DocTable]_vars
  <2>. SUFFICES ASSUME TypeOK, DocInv, Next, calm', doc' # doc
                PROVE  <<doc, doc'>> \in DocTable
    OBVIOUS
  <2>1. CASE \E c \in Calls : SetStatus(c)
    <3>1. PICK c \in Calls : SetStatus(c)
      BY <2>1
    <3>2. c \in UnderWay /\ pc[c] = "set" /\ calm /\ doc' = verdict[c]
      BY <3>1 DEF SetStatus, Goto, UnderWay
    <3>3. \/ doc = "draft" /\ verdict[c] \in {"submitted", "pending_review"}
          \/ doc = "pending_review" /\ verdict[c] \in {"approved", "pending_review", "rejected"}
      BY <3>2 DEF DocInv, KnowsDoc
    <3>. QED  BY <3>2, <3>3 DEF DocTable
  <2>2. CASE Put
    BY <2>2 DEF Put
  <2>3. ASSUME NEW c \in Calls,
               \/ Submit(c) \/ Clear(c) \/ InsertSlot(c) \/ Approve(c) \/ NextSlot(c) \/ Mark(c)
               \/ Count(c) \/ Reject(c) \/ CloseAll(c) \/ Crash(c)
        PROVE  doc' = doc
    BY <2>3 DEF Submit, Clear, InsertSlot, Approve, NextSlot, Mark, Count, Reject, CloseAll, Crash
  <2>. QED  BY <2>1, <2>2, <2>3 DEF Next
<1>. QED  BY <1>1, DocInvAlways, TypeCorrect, PTL DEF Spec, DocMovesLegally

\* The levels of the last round, which its submit has opened.
RoundLevels(statuses) ==
    round # NoSlot /\ \A l \in eff[round] : slots[<<round, l>>] \in statuses

\* A call that has not come to its slots has none.
Fresh ==
    \A c \in Calls : pc[c] \in {"idle", "clear"} =>
      round # c /\ \A l \in Levels : slots[<<c, l>>] = "none"

\* The pending slots are of the last round, and when it is open the others are approved.
OfRound ==
    /\ \A s \in Pending : s[1] = round /\ s[2] \in eff[round]
    /\ Pending # {} /\ (\A c \in Calls : pc[c] # "insert") => RoundLevels({"pending", "approved"})

\* Document and slots when no call has them half changed and no PUT came between.
Settled ==
    /\ doc = "pending_review" /\ ~byHand => Pending # {}
    /\ doc = "approved" /\ ~byHand => RoundLevels({"approved"})

\* What a call under way knows of the slots.
KnowsSlots(c) ==
    /\ pc[c] = "clear" => eff[c] # {} /\ eff[c] \in Effective /\ todo[c] = eff[c]
    /\ pc[c] = "insert" =>
         /\ round = c /\ todo[c] \subseteq eff[c]
         /\ \A l \in eff[c] : slots[<<c, l>>] = IF l \in todo[c] THEN "none" ELSE "pending"
    /\ pc[c] = "next" => Settled
    /\ pc[c] = "mark" =>
         /\ target[c] \in Pending
         /\ \A t \in Pending : target[c][2] <= t[2]
         /\ role[c] \in {Admin, target[c][2]}
    /\ pc[c] = "count" => RoundLevels({"pending", "approved"})
    /\ pc[c] = "set" /\ verdict[c] = "pending_review" => Pending # {}
    /\ pc[c] = "set" /\ verdict[c] = "approved" => RoundLevels({"approved"})

RoundInv ==
    /\ Fresh
    /\ calm => OfRound
    /\ calm /\ UnderWay = {} => Settled
    /\ calm => \A c \in UnderWay : KnowsSlots(c)

\* A call that has not come to its slots gets none from another.
LEMMA FreshStep == TypeOK /\ Fresh /\ [Next]_vars => Fresh'
<1>. SUFFICES ASSUME TypeOK, Fresh, [Next]_vars PROVE Fresh'
  OBVIOUS
<1>0. \A b \in Calls, l \in Levels : <<b, l>> \in SlotIds
  BY DEF SlotIds
<1>1. ASSUME NEW c \in Calls,
             \/ Submit(c) \/ Approve(c) \/ NextSlot(c) \/ Count(c) \/ Reject(c)
             \/ SetStatus(c) \/ Crash(c)
      PROVE  Fresh'
  <2>1. UNCHANGED <<slots, round>> /\ \A b \in Calls : pc'[b] \in {"idle", "clear"} => pc[b] \in {"idle", "clear"}
    BY <1>1 DEF Submit, Approve, NextSlot, Count, Reject, SetStatus, Crash, Goto, TypeOK
  <2>. QED  BY <2>1 DEF Fresh
<1>2. ASSUME NEW c \in Calls, Clear(c) \/ InsertSlot(c) \/ Mark(c) \/ CloseAll(c) PROVE Fresh'
  <2>1. /\ \A b \in Calls \ {c} : pc'[b] = pc[b]
        /\ pc'[c] \notin {"idle", "clear"} /\ round' \in {c, round}
    BY <1>2 DEF Clear, InsertSlot, Mark, CloseAll, Goto, TypeOK
  <2>2. \A b \in Calls \ {c}, l \in Levels : slots[<<b, l>>] = "none" => slots'[<<b, l>>] = "none"
    <3>1. CASE Clear(c)
      BY <1>0, <3>1 DEF Clear, Close
    <3>2. CASE InsertSlot(c)
      <4>1. PICK k \in todo[c] : Close({<<c, k>>}, "pending")
        BY <3>2 DEF InsertSlot
      <4>. QED  BY <1>0, <4>1 DEF Close
    <3>3. CASE Mark(c)
      BY <1>0, <3>3 DEF Mark, Close
    <3>4. CASE CloseAll(c)
      BY <1>0, <3>4 DEF CloseAll, Close, Pending
    <3>. QED  BY <1>2, <3>1, <3>2, <3>3, <3>4
  <2>3. ASSUME NEW b \in Calls, pc'[b] \in {"idle", "clear"}
        PROVE  round' # b /\ \A l \in Levels : slots'[<<b, l>>] = "none"
    <3>1. b # c /\ pc[b] \in {"idle", "clear"}
      BY <2>1, <2>3
    <3>2. round # b /\ \A l \in Levels : slots[<<b, l>>] = "none"
      BY <3>1 DEF Fresh
    <3>. QED  BY <2>1, <2>2, <3>1, <3>2
  <2>. QED  BY <2>3 DEF Fresh
<1>3. CASE Put
  BY <1>3 DEF Put, Fresh
<1>4. CASE UNCHANGED vars
  BY <1>4 DEF vars, Fresh
<1>. QED  BY <1>1, <1>2, <1>3, <1>4 DEF Next

\* One call that runs alone.
Alone(c) == calm /\ UnderWay \subseteq {c}

\* A step that leaves calls apart is one of the only call under way,
LEMMA StepAlone ==
    ASSUME TypeOK, DocInv, NEW c \in Calls, calm',
           \/ Submit(c) \/ Clear(c) \/ InsertSlot(c) \/ Approve(c) \/ NextSlot(c) \/ Mark(c)
           \/ Count(c) \/ Reject(c) \/ CloseAll(c) \/ SetStatus(c)
    PROVE  /\ Alone(c) /\ UnderWay' \subseteq {c}
           /\ \A b \in Calls \ {c} : pc'[b] = pc[b] /\ pc[b] \in Over
           /\ pc[c] \in Over => UnderWay = {}
           /\ pc[c] \notin Over => KnowsDoc(c)
<1>1. \A b \in Calls \ {c} : pc'[b] = pc[b]
  BY DEF Submit, Clear, InsertSlot, Approve, NextSlot, Mark, Count, Reject, CloseAll, SetStatus, Goto, TypeOK
<1>2. calm /\ (UnderWay = {} \/ c \in UnderWay)
  <2>1. CASE Submit(c) \/ Approve(c) \/ Reject(c)
    BY <2>1 DEF Submit, Approve, Reject, TypeOK
  <2>2. CASE Clear(c) \/ InsertSlot(c) \/ NextSlot(c) \/ Mark(c) \/ Count(c) \/ CloseAll(c) \/ SetStatus(c)
    BY <2>2 DEF Clear, InsertSlot, NextSlot, Mark, Count, CloseAll, SetStatus, Goto, TypeOK, UnderWay
  <2>. QED  BY <2>1, <2>2
<1>3. UnderWay \subseteq {c}
  BY <1>2 DEF DocInv
<1>4. \A b \in Calls \ {c} : pc[b] \in Over
  BY <1>3 DEF UnderWay, Over
<1>5. UnderWay' \subseteq {c}
  BY <1>1, <1>4 DEF UnderWay, Over
<1>6. c \in UnderWay <=> pc[c] \notin Over
  BY DEF UnderWay, Over
<1>. QED  BY <1>1, <1>2, <1>3, <1>4, <1>5, <1>6 DEF Alone, DocInv

\* after which only it can know something of the slots.
LEMMA RoundStepOf ==
    ASSUME TypeOK, DocInv, RoundInv, [Next]_vars, NEW c \in Calls,
           \/ Submit(c) \/ Clear(c) \/ InsertSlot(c) \/ Approve(c) \/ NextSlot(c) \/ Mark(c)
           \/ Count(c) \/ Reject(c) \/ CloseAll(c) \/ SetStatus(c),
           calm' => OfRound',
           calm' /\ pc'[c] \in Over => Settled',
           calm' /\ pc'[c] \notin Over => KnowsSlots(c)'
    PROVE  RoundInv'
<1>1. Fresh'
  BY FreshStep DEF RoundInv
<1>2. calm' => UnderWay' \subseteq {c}
  BY StepAlone
<1>3. c \in UnderWay' <=> pc'[c] \notin Over
  BY DEF UnderWay, Over
<1>. QED  BY <1>1, <1>2, <1>3 DEF RoundInv

\* A submit.
LEMMA SubmitRound ==
    ASSUME TypeOK, DocInv, RoundInv, [Next]_vars, NEW c \in Calls,
           Submit(c) \/ Clear(c) \/ InsertSlot(c)
    PROVE  RoundInv'
<1>0. NoSlot \notin Calls /\ \A b \in Calls, l \in Levels : <<b, l>> \in SlotIds /\ <<b, l>>[1] = b /\ <<b, l>>[2] = l
  BY ApprovalAssumption DEF SlotIds
<1>1. calm' => /\ calm /\ \A b \in Calls \ {c} : pc'[b] = pc[b] /\ pc[b] \in Over
               /\ pc[c] \in Over => UnderWay = {}
               /\ pc[c] \notin Over => KnowsDoc(c) /\ KnowsSlots(c)
  <2>1. pc[c] \notin Over => c \in UnderWay
    BY DEF UnderWay, Over
  <2>. QED  BY <2>1, StepAlone DEF RoundInv, Alone
<1>2. calm' => OfRound
  BY <1>1 DEF RoundInv
<1>3. CASE Submit(c)
  <2>1. PICK L \in Effective :
          /\ Goto(c, "idle", IF L = {} THEN "set" ELSE "clear")
          /\ eff' = [eff EXCEPT ![c] = L]
          /\ todo' = [todo EXCEPT ![c] = L]
          /\ verdict' = [verdict EXCEPT ![c] = IF L = {} THEN "submitted" ELSE "pending_review"]
    BY <1>3 DEF Submit
  <2>2. UNCHANGED <<doc, slots, round, byHand>>
    BY <1>3 DEF Submit
  <2>3. /\ pc[c] = "idle" /\ pc'[c] = (IF L = {} THEN "set" ELSE "clear")
        /\ eff'[c] = L /\ todo'[c] = L /\ \A b \in Calls \ {c} : eff'[b] = eff[b]
        /\ verdict'[c] = (IF L = {} THEN "submitted" ELSE "pending_review")
    BY <2>1 DEF Goto, TypeOK
  <2>4. KnowsSlots(c)' /\ pc'[c] \notin Over
    BY <2>3 DEF KnowsSlots, Over
  <2>5. round # c /\ Pending' = Pending
    BY <2>2, <2>3 DEF RoundInv, Fresh, Pending
  <2>6. calm' => OfRound'
    <3>1. SUFFICES ASSUME calm' PROVE OfRound'
      OBVIOUS
    <3>2. OfRound /\ \A b \in Calls : pc[b] # "insert"
      BY <1>1, <1>2, <2>3, <3>1 DEF Over
    <3>3. \A s \in Pending' : s[1] = round' /\ s[2] \in eff'[round']
      <4>1. SUFFICES ASSUME NEW s \in Pending PROVE s[1] = round /\ s[2] \in eff'[round]
        BY <2>2, <2>5
      <4>2. s[1] = round /\ s[2] \in eff[round] /\ round \in Calls
        BY <3>2, <4>1 DEF OfRound, Pending, SlotIds
      <4>. QED  BY <2>3, <2>5, <4>2
    <3>4. Pending' # {} => RoundLevels({"pending", "approved"})'
      <4>1. SUFFICES ASSUME Pending # {} PROVE RoundLevels({"pending", "approved"})'
        BY <2>5
      <4>2. RoundLevels({"pending", "approved"})
        BY <3>2, <4>1 DEF OfRound
      <4>3. round \in Calls \ {c}
        BY <2>5, <4>2 DEF RoundLevels, TypeOK
      <4>. QED  BY <2>2, <2>3, <4>2, <4>3 DEF RoundLevels
    <3>. QED  BY <3>3, <3>4 DEF OfRound
  <2>. QED  BY <1>3, <2>4, <2>6, RoundStepOf
<1>4. CASE Clear(c)
  <2>1. /\ pc[c] = "clear" /\ pc'[c] = "insert" /\ round' = c
        /\ UNCHANGED <<eff, todo, target, verdict>>
    BY <1>4 DEF Clear, Goto, TypeOK, callVars
  <2>2. pc[c] \notin Over /\ pc'[c] \notin Over
    BY <2>1 DEF Over
  <2>3. Pending' = {}
    BY <1>4 DEF Clear, Close, Pending
  <2>4. \A l \in Levels : slots'[<<c, l>>] = "none"
    <3>1. \A l \in Levels : slots[<<c, l>>] = "none"
      BY <2>1 DEF RoundInv, Fresh
    <3>. QED  BY <1>0, <1>4, <3>1 DEF Clear, Close
  <2>5. calm' => KnowsSlots(c)'
    <3>1. SUFFICES ASSUME calm' PROVE KnowsSlots(c)'
      OBVIOUS
    <3>2. todo'[c] = eff'[c] /\ eff'[c] \subseteq Levels
      BY <1>1, <2>1, <2>2, <3>1 DEF KnowsSlots, TypeOK
    <3>. QED  BY <2>1, <2>4, <3>2 DEF KnowsSlots
  <2>6. calm' => OfRound'
    BY <2>3 DEF OfRound
  <2>. QED  BY <1>4, <2>2, <2>5, <2>6, RoundStepOf
<1>5. CASE InsertSlot(c)
  <2>1. PICK k \in todo[c] :
          /\ Close({<<c, k>>}, "pending")
          /\ todo' = [todo EXCEPT ![c] = todo[c] \ {k}]
          /\ Goto(c, "insert", IF todo[c] = {k} THEN "set" ELSE "insert")
    BY <1>5 DEF InsertSlot
  <2>2. /\ pc[c] = "insert" /\ pc'[c] = (IF todo[c] = {k} THEN "set" ELSE "insert")
        /\ UNCHANGED <<doc, round, byHand, eff, verdict>>
    BY <1>5, <2>1 DEF InsertSlot, Goto, TypeOK
  <2>3. pc[c] \notin Over /\ pc'[c] \notin Over
    BY <2>2 DEF Over
  <2>4. k \in Levels /\ eff[c] \subseteq Levels /\ todo'[c] = todo[c] \ {k}
    BY <2>1 DEF TypeOK
  <2>5. \A s \in SlotIds : slots'[s] = IF s = <<c, k>> THEN "pending" ELSE slots[s]
    BY <2>1 DEF Close
  <2>6. calm' => /\ round = c /\ todo[c] \subseteq eff[c] /\ verdict[c] = "pending_review" /\ OfRound
                 /\ \A l \in eff[c] : slots[<<c, l>>] = IF l \in todo[c] THEN "none" ELSE "pending"
    BY <1>1, <1>2, <2>2, <2>3 DEF KnowsDoc, KnowsSlots
  <2>7. calm' => \A l \in eff[c] : slots'[<<c, l>>] = IF l \in todo'[c] THEN "none" ELSE "pending"
    BY <1>0, <2>4, <2>5, <2>6
  <2>8. <<c, k>> \in Pending' /\ \A s \in Pending' : s \in Pending \/ s = <<c, k>>
    BY <1>0, <2>4, <2>5 DEF Pending
  <2>9. pc'[c] = "set" => todo'[c] = {}
    BY <2>2, <2>4
  <2>10. calm' => KnowsSlots(c)'
    BY <2>2, <2>4, <2>6, <2>7, <2>8 DEF KnowsSlots
  <2>11. calm' => OfRound'
    <3>1. SUFFICES ASSUME calm' PROVE OfRound'
      OBVIOUS
    <3>2. \A s \in Pending' : s[1] = round' /\ s[2] \in eff'[round']
      BY <1>0, <2>1, <2>2, <2>4, <2>6, <2>8, <3>1 DEF OfRound
    <3>3. (\A b \in Calls : pc'[b] # "insert") => RoundLevels({"pending", "approved"})'
      BY <1>0, <2>2, <2>6, <2>7, <2>9, <3>1 DEF RoundLevels
    <3>. QED  BY <3>2, <3>3 DEF OfRound
  <2>. QED  BY <1>5, <2>3, <2>10, <2>11, RoundStepOf
<1>. QED  BY <1>3, <1>4, <1>5

\* An approve, or a reject.
LEMMA DecideRound ==
    ASSUME TypeOK, DocInv, RoundInv, [Next]_vars, NEW c \in Calls,
           \/ Approve(c) \/ NextSlot(c) \/ Mark(c) \/ Count(c)
           \/ Reject(c) \/ CloseAll(c)
    PROVE  RoundInv'
<1>0. NoSlot \notin Calls /\ \A b \in Calls, l \in Levels : <<b, l>> \in SlotIds
  BY ApprovalAssumption DEF SlotIds
<1>1. /\ UNCHANGED <<doc, round, byHand, eff>>
      /\ pc[c] # "insert" /\ pc'[c] # "insert"
  BY DEF Approve, NextSlot, Mark, Count, Reject, CloseAll, Goto, TypeOK, callVars
<1>2. calm' => /\ calm /\ OfRound /\ \A b \in Calls \ {c} : pc'[b] = pc[b] /\ pc[b] # "insert"
               /\ pc[c] \in Over => Settled
               /\ pc[c] \notin Over => KnowsDoc(c) /\ KnowsSlots(c)
  <2>1. pc[c] \notin Over => c \in UnderWay
    BY DEF UnderWay, Over
  <2>. QED  BY <2>1, StepAlone DEF RoundInv, Alone, Over
<1>3. eff[round] \subseteq Levels \/ round = NoSlot
  BY DEF TypeOK
<1>4. \A l \in Levels : round # NoSlot => <<round, l>> \in SlotIds
  BY <1>0 DEF TypeOK
<1>6. slots' = slots => /\ RoundLevels({"pending", "approved"})' = RoundLevels({"pending", "approved"})
                        /\ RoundLevels({"approved"})' = RoundLevels({"approved"})
                        /\ Pending' = Pending /\ Settled' = Settled
  BY <1>1 DEF RoundLevels, Pending, Settled
<1>7. Pending' \subseteq Pending
  BY DEF Approve, NextSlot, Mark, Count, Reject, CloseAll, Close, Pending
<1>8. calm' => OfRound'
  <2>1. SUFFICES ASSUME calm' PROVE OfRound'
    OBVIOUS
  <2>2. \A s \in Pending' : s[1] = round' /\ s[2] \in eff'[round']
    BY <1>1, <1>2, <1>7, <2>1 DEF OfRound
  <2>3. Pending' # {} => RoundLevels({"pending", "approved"})'
    <3>1. SUFFICES ASSUME Pending' # {} PROVE RoundLevels({"pending", "approved"})'
      OBVIOUS
    <3>2. RoundLevels({"pending", "approved"})
      BY <1>1, <1>2, <1>7, <2>1, <3>1 DEF OfRound
    <3>3. CASE slots' = slots
      BY <1>6, <3>2, <3>3
    <3>4. CASE Mark(c)
      <4>1. \A s \in SlotIds : slots'[s] = slots[s] \/ slots'[s] = "approved"
        BY <3>4 DEF Mark, Close
      <4>. QED  BY <1>1, <1>3, <1>4, <3>2, <4>1 DEF RoundLevels
    <3>5. CASE CloseAll(c)
      <4>1. Pending' = {}
        BY <3>5 DEF CloseAll, Close, Pending
      <4>. QED  BY <3>1, <4>1
    <3>. QED  BY <3>3, <3>4, <3>5 DEF Approve, NextSlot, Count, Reject
  <2>. QED  BY <2>2, <2>3 DEF OfRound
<1>9. ASSUME calm' /\ pc'[c] \in Over => Settled',
             calm' /\ pc'[c] \notin Over => KnowsSlots(c)'
      PROVE  RoundInv'
  BY <1>8, <1>9, RoundStepOf
<1>10. CASE Approve(c) \/ Reject(c)
  <2>1. pc[c] = "idle" /\ pc'[c] \in {"next", "close"} /\ slots' = slots
    BY <1>10 DEF Approve, Reject, Goto, TypeOK
  <2>2. calm' => Settled'
    BY <1>2, <1>6, <2>1 DEF Over
  <2>. QED  BY <1>9, <2>1, <2>2 DEF KnowsSlots, Over
<1>11. CASE NextSlot(c)
  <2>1. /\ pc[c] = "next" /\ pc'[c] \in {"mark", "refused"} /\ slots' = slots
        /\ pc'[c] = "mark" => /\ target'[c] \in Pending
                              /\ \A t \in Pending : target'[c][2] <= t[2]
                              /\ role'[c] \in {Admin, target'[c][2]}
    BY <1>11 DEF NextSlot, Goto, TypeOK
  <2>2. calm' => Settled'
    BY <1>2, <1>6, <2>1 DEF KnowsSlots, Over
  <2>. QED  BY <1>6, <1>9, <2>1, <2>2 DEF KnowsSlots, Over
<1>12. CASE Mark(c)
  <2>1. pc[c] = "mark" /\ pc'[c] = "count"
    BY <1>12 DEF Mark, Goto, TypeOK
  <2>2. \A s \in SlotIds : slots'[s] = slots[s] \/ slots'[s] = "approved"
    BY <1>12 DEF Mark, Close
  <2>3. calm' => RoundLevels({"pending", "approved"})
    <3>1. calm' => Pending # {}
      BY <1>2, <2>1 DEF KnowsSlots, Over
    <3>. QED  BY <1>1, <1>2, <3>1 DEF OfRound
  <2>4. calm' => RoundLevels({"pending", "approved"})'
    BY <1>1, <1>3, <1>4, <2>2, <2>3 DEF RoundLevels
  <2>. QED  BY <1>9, <2>1, <2>4 DEF KnowsSlots, Over
<1>13. CASE Count(c)
  <2>1. /\ pc[c] = "count" /\ pc'[c] = "set" /\ slots' = slots
        /\ verdict'[c] = IF Pending = {} THEN "approved" ELSE "pending_review"
    BY <1>13 DEF Count, Goto, TypeOK
  <2>2. calm' => RoundLevels({"pending", "approved"})
    BY <1>2, <2>1 DEF KnowsSlots, Over
  <2>3. calm' /\ Pending = {} => RoundLevels({"approved"})
    BY <1>3, <1>4, <2>2 DEF RoundLevels, Pending
  <2>. QED  BY <1>6, <1>9, <2>1, <2>3 DEF KnowsSlots, Over
<1>14. CASE CloseAll(c)
  <2>1. pc[c] = "close" /\ pc'[c] = "set" /\ verdict' = verdict
    BY <1>14 DEF CloseAll, Goto, TypeOK, callVars
  <2>2. calm' => verdict'[c] = "rejected"
    BY <1>2, <2>1 DEF KnowsDoc, Over
  <2>. QED  BY <1>9, <2>1, <2>2 DEF KnowsSlots, Over
<1>. QED  BY <1>10, <1>11, <1>12, <1>13, <1>14

\* A call sets the doc_status.
LEMMA SetRound ==
    ASSUME TypeOK, DocInv, RoundInv, [Next]_vars, NEW c \in Calls, SetStatus(c)
    PROVE  RoundInv'
<1>1. /\ pc[c] = "set" /\ pc'[c] = "done" /\ doc' = verdict[c]
      /\ UNCHANGED <<slots, round, eff, verdict>>
  BY DEF SetStatus, Goto, TypeOK, callVars
<1>2. pc[c] \notin Over /\ pc'[c] \in Over /\ c \in UnderWay
  BY <1>1 DEF UnderWay, Over
<1>3. calm' => /\ OfRound /\ KnowsSlots(c)
               /\ \A b \in Calls : pc[b] # "insert"
  <2>1. calm' => calm /\ \A b \in Calls \ {c} : pc[b] \in Over
    BY StepAlone DEF Alone
  <2>. QED  BY <1>1, <1>2, <2>1 DEF RoundInv, Over
<1>4. Pending' = Pending /\ \A S : RoundLevels(S)' = RoundLevels(S)
  BY <1>1 DEF Pending, RoundLevels
<1>5. calm' => OfRound'
  BY <1>1, <1>3, <1>4 DEF OfRound
<1>6. calm' => Settled'
  BY <1>1, <1>3, <1>4 DEF KnowsSlots, Settled
<1>. QED  BY <1>2, <1>5, <1>6, RoundStepOf

\* Every step keeps it.
LEMMA RoundStep == TypeOK /\ DocInv /\ RoundInv /\ [Next]_vars => RoundInv'
<1>. SUFFICES ASSUME TypeOK, DocInv, RoundInv, [Next]_vars PROVE RoundInv'
  OBVIOUS
<1>0. Fresh'
  BY FreshStep DEF RoundInv
<1>1. ASSUME NEW c \in Calls, Crash(c) PROVE RoundInv'
  BY <1>0, <1>1 DEF Crash, RoundInv
<1>2. CASE Put
  <2>1. /\ calm' => calm /\ UnderWay = {}
        /\ UNCHANGED <<slots, round, pc, eff>> /\ byHand'
    BY <1>2 DEF Put, callVars, TypeOK
  <2>2. UnderWay' = UnderWay /\ OfRound' = OfRound
    BY <2>1 DEF UnderWay, OfRound, RoundLevels, Pending
  <2>3. Settled'
    BY <2>1 DEF Settled
  <2>. QED  BY <1>0, <2>1, <2>2, <2>3 DEF RoundInv
<1>3. CASE UNCHANGED vars
  <2>1. UNCHANGED <<doc, slots, round, byHand, pc, role, eff, todo, target, verdict, calm>>
    BY <1>3 DEF vars, callVars
  <2>2. UnderWay' = UnderWay /\ Settled' = Settled /\ OfRound' = OfRound
    BY <2>1 DEF UnderWay, Settled, OfRound, RoundLevels, Pending
  <2>3. \A c \in Calls : KnowsSlots(c)' = KnowsSlots(c)
    BY <2>1, <2>2 DEF KnowsSlots, RoundLevels, Pending
  <2>. QED  BY <1>0, <2>1, <2>2, <2>3 DEF RoundInv, UnderWay
<1>. QED  BY <1>1, <1>2, <1>3, SubmitRound, DecideRound, SetRound DEF Next

\* It holds throughout,
LEMMA RoundInvAlways == Spec => []RoundInv
<1>1. Init => RoundInv
  BY ApprovalAssumption DEF Init, RoundInv, UnderWay, Settled, Fresh, OfRound, Pending, SlotIds
<1>. QED  BY <1>1, RoundStep, DocInvAlways, TypeCorrect, PTL DEF Spec

\* and comes to the two properties.
LEMMA CalmRounds == TypeOK /\ DocInv /\ RoundInv => CalmlyApproved /\ NeverStuck
<1>. SUFFICES ASSUME TypeOK, DocInv, RoundInv, calm PROVE CalmlyApproved /\ NeverStuck
  BY DEF CalmlyApproved, NeverStuck
<1>1. doc = "approved" => UnderWay = {}
  BY DEF DocInv, KnowsDoc, UnderWay, TypeOK, States
<1>. QED  BY <1>1 DEF RoundInv, Settled, RoundLevels, CalmlyApproved, ApprovedByAllLevels, NeverStuck

\* Outside overlapping calls a document that the workflow approves is approved by every
\* level of its last round, for any levels and any number of rounds, wherever PUTs move it
\* between the calls (workflow.service.ts:12-15): each approve counts the slots of the
\* last round and none of an earlier one.
THEOREM CalmRoundsAreWhole == Spec => []CalmlyApproved
BY RoundInvAlways, DocInvAlways, TypeCorrect, CalmRounds, PTL

\* Outside overlapping calls a document that submit or approve left under review can be
\* decided: it has a pending slot, or a call is on its way to set the doc_status.
THEOREM RoundsCanBeDecided == Spec => []NeverStuck
BY RoundInvAlways, DocInvAlways, TypeCorrect, CalmRounds, PTL

-----------------------------------------------------------------------------
(* The calls implement one review of the document, Approval, as long as    *)
(* they do not overlap.                                                    *)

\* What the review reads when only c is under way, or none is.
StatusOf(c) ==
    IF pc[c] \in {"insert", "set"} THEN verdict[c]
    ELSE IF Pending = {} /\ pc[c] = "count" THEN "approved"
    ELSE doc

PendingLevels == {s[2] : s \in Pending}

OpenOf(c) == PendingLevels \cup (IF pc[c] = "insert" THEN todo[c] ELSE {})

ReadsRest == UnderWay = {} => Status = doc /\ OpenLevels = PendingLevels

ReadsCall ==
    \A c \in Calls : UnderWay \subseteq {c} => Status = StatusOf(c) /\ OpenLevels = OpenOf(c)

LEMMA ReviewReading == ReadsRest /\ ReadsCall
<1>0. \A b \in Calls : pc[b] \in {"insert", "set", "count"} => b \in UnderWay
  BY DEF UnderWay
<1>1. ASSUME UnderWay = {} PROVE Status = doc /\ OpenLevels = PendingLevels
  <2>1. Landing = {} /\ {b \in Calls : pc[b] = "insert"} = {} /\ \A b \in Calls : pc[b] # "count"
    BY <1>0, <1>1 DEF Landing
  <2>2. UNION {todo[b] : b \in {}} = {}
    OBVIOUS
  <2>. QED  BY <2>1, <2>2 DEF Status, OpenLevels, PendingLevels
<1>2. ASSUME NEW c \in Calls, UnderWay \subseteq {c} PROVE Status = StatusOf(c)
  <2>1. Landing = IF pc[c] \in {"insert", "set"} THEN {c} ELSE {}
    BY <1>0, <1>2 DEF Landing
  <2>2. (\E b \in Calls : pc[b] = "count") <=> pc[c] = "count"
    BY <1>0, <1>2
  <2>3. (CHOOSE b \in {c} : TRUE) = c
    OBVIOUS
  <2>. QED  BY <2>1, <2>2, <2>3 DEF Status, StatusOf
<1>3. ASSUME NEW c \in Calls, UnderWay \subseteq {c} PROVE OpenLevels = OpenOf(c)
  <2>1. {b \in Calls : pc[b] = "insert"} = IF pc[c] = "insert" THEN {c} ELSE {}
    BY <1>0, <1>3
  <2>2. UNION {todo[b] : b \in {}} = {} /\ UNION {todo[b] : b \in {c}} = todo[c]
    OBVIOUS
  <2>. QED  BY <2>1, <2>2 DEF OpenLevels, OpenOf, PendingLevels
<1>. QED  BY <1>1, <1>2, <1>3 DEF ReadsRest, ReadsCall

\* So is a step of c to be read, when calls do not overlap.
LEMMA StepReading ==
    ASSUME TypeOK, DocInv, RoundInv, NEW c \in Calls, calm',
           \/ Submit(c) \/ Clear(c) \/ InsertSlot(c) \/ Approve(c) \/ NextSlot(c) \/ Mark(c)
           \/ Count(c) \/ Reject(c) \/ CloseAll(c) \/ SetStatus(c)
    PROVE  /\ Status = StatusOf(c) /\ OpenLevels = OpenOf(c)
           /\ Status' = StatusOf(c)' /\ OpenLevels' = OpenOf(c)'
           /\ OfRound
           /\ pc[c] \notin Over => KnowsDoc(c) /\ KnowsSlots(c)
<1>1. ReadsCall'
  BY ReviewReading, PTL
<1>2. pc[c] \notin Over => c \in UnderWay
  BY DEF UnderWay, Over
<1>. QED  BY <1>1, <1>2, ReviewReading, StepAlone DEF ReadsCall, Alone, RoundInv

\* The signatures are the same when no approved slot of the last round comes or goes.
LEMMA SameSignatures ==
    ASSUME TypeOK, UNCHANGED <<by, round>>,
           round # NoSlot =>
             /\ eff'[round] = eff[round]
             /\ \A l \in eff[round] : slots'[<<round, l>>] = "approved" <=> slots[<<round, l>>] = "approved"
    PROVE  Signatures' = Signatures
<1>1. CASE round = NoSlot
  BY <1>1 DEF Signatures
<1>2. CASE round # NoSlot
  <2>1. {k \in eff'[round] : slots'[<<round, k>>] = "approved"} = {k \in eff[round] : slots[<<round, k>>] = "approved"}
    BY <1>2
  <2>. QED  BY <1>2, <2>1 DEF Signatures
<1>. QED  BY <1>1, <1>2

\* A submit submits the document when it has read it and no level applies, and when it has
\* cleared the slots if one does.
LEMMA SubmitSubmits ==
    ASSUME TypeOK, DocInv, RoundInv, NEW c \in Calls, calm', Submit(c)
    PROVE  Review!SubmitPlain \/ UNCHANGED <<Status, OpenLevels, Signatures>>
<1>1. PICK L \in Effective :
        /\ Goto(c, "idle", IF L = {} THEN "set" ELSE "clear")
        /\ eff' = [eff EXCEPT ![c] = L]
        /\ verdict' = [verdict EXCEPT ![c] = IF L = {} THEN "submitted" ELSE "pending_review"]
  BY DEF Submit
<1>2. /\ pc[c] = "idle" /\ pc'[c] = (IF L = {} THEN "set" ELSE "clear")
      /\ \A b \in Calls \ {c} : eff'[b] = eff[b]
      /\ verdict'[c] = (IF L = {} THEN "submitted" ELSE "pending_review")
      /\ doc = "draft" /\ UNCHANGED <<doc, slots, by, round>>
  BY <1>1 DEF Submit, Goto, TypeOK
<1>3. Status = "draft" /\ Status' = IF L = {} THEN "submitted" ELSE "draft"
  BY <1>2, StepReading DEF StatusOf
<1>4. OpenLevels' = OpenLevels
  BY <1>2, StepReading DEF OpenOf, PendingLevels, Pending
<1>5. round # c /\ Signatures' = Signatures
  <2>1. round # c
    BY <1>2 DEF RoundInv, Fresh
  <2>. QED  BY <1>2, <2>1, SameSignatures DEF TypeOK
<1>. QED  BY <1>3, <1>4, <1>5 DEF Review!SubmitPlain

LEMMA ClearSubmits ==
    ASSUME TypeOK, DocInv, RoundInv, NEW c \in Calls, calm', Clear(c)
    PROVE  \E L \in Effective : Review!Submit(L)
<1>0. \A l \in Levels : <<c, l>> \in SlotIds
  BY DEF SlotIds
<1>1. /\ pc[c] = "clear" /\ pc'[c] = "insert" /\ round' = c
      /\ UNCHANGED <<doc, by, eff, todo, verdict>>
  BY DEF Clear, Goto, TypeOK, callVars
<1>2. /\ doc = "draft" /\ verdict[c] = "pending_review"
      /\ eff[c] # {} /\ eff[c] \in Effective /\ todo[c] = eff[c]
  BY <1>1, StepReading DEF KnowsDoc, KnowsSlots, Over
<1>3. Status = "draft" /\ Status' = "pending_review"
  BY <1>1, <1>2, StepReading DEF StatusOf
<1>4. Pending' = {} /\ \A l \in Levels : slots'[<<c, l>>] = "none"
  <2>1. \A l \in Levels : slots[<<c, l>>] = "none"
    BY <1>1 DEF RoundInv, Fresh
  <2>. QED  BY <1>0, <2>1 DEF Clear, Close, Pending
<1>5. OpenLevels' = eff[c]
  BY <1>1, <1>2, <1>4, StepReading DEF OpenOf, PendingLevels
<1>6. Signatures' = {}
  <2>1. c # NoSlot /\ eff[c] \subseteq Levels
    BY ApprovalAssumption DEF TypeOK
  <2>2. {k \in eff'[c] : slots'[<<c, k>>] = "approved"} = {}
    BY <1>1, <1>4, <2>1
  <2>. QED  BY <1>1, <2>1, <2>2 DEF Signatures
<1>. QED  BY <1>2, <1>3, <1>5, <1>6 DEF Review!Submit

\* An approve that marks its slot approves the lowest open level.
LEMMA MarkApproves ==
    ASSUME TypeOK, DocInv, RoundInv, NEW c \in Calls, calm', Mark(c)
    PROVE  \E l \in Levels, u \in Levels \cup {Admin} : Review!Approve(l, u)
<1>1. /\ pc[c] = "mark" /\ pc'[c] = "count" /\ UNCHANGED <<doc, round, eff>>
  BY DEF Mark, Goto, TypeOK, callVars
<1>2. /\ doc = "pending_review" /\ OfRound
      /\ target[c] \in Pending /\ role[c] \in {Admin, target[c][2]}
      /\ \A t \in Pending : target[c][2] <= t[2]
  BY <1>1, StepReading DEF KnowsDoc, KnowsSlots, Over
<1>. DEFINE l == target[c][2]
            u == role[c]
<1>3. \A s \in Pending : s \in SlotIds /\ s = <<round, s[2]>> /\ s[2] \in eff[round] /\ s[2] \in Levels
  BY <1>2 DEF OfRound, Pending, SlotIds
<1>4. /\ target[c] \in SlotIds /\ target[c] = <<round, l>> /\ l \in eff[round] /\ l \in Levels
      /\ round \in Calls /\ round # NoSlot /\ eff[round] \subseteq Levels
  <2>1. target[c] \in SlotIds /\ target[c] = <<round, l>> /\ l \in eff[round] /\ l \in Levels
    BY <1>2, <1>3
  <2>2. round \in Calls
    BY <1>2, <2>1 DEF OfRound, SlotIds
  <2>. QED  BY <2>1, <2>2, ApprovalAssumption DEF TypeOK
<1>5. /\ \A s \in SlotIds : slots'[s] = IF s = target[c] THEN "approved" ELSE slots[s]
      /\ by' = [by EXCEPT ![target[c]] = u]
      /\ slots[target[c]] = "pending"
  BY <1>2 DEF Mark, Close, Pending
<1>6. Pending' = Pending \ {target[c]}
  BY <1>5 DEF Pending
<1>7. OpenLevels = PendingLevels /\ OpenLevels' = PendingLevels'
  BY <1>1, StepReading DEF OpenOf
<1>8. OpenLevels' = OpenLevels \ {l} /\ l \in OpenLevels
  BY <1>2, <1>3, <1>4, <1>6, <1>7 DEF PendingLevels
<1>9. \A k \in OpenLevels : l <= k
  BY <1>2, <1>7 DEF PendingLevels
<1>10. Status = "pending_review" /\ Status' = IF OpenLevels = {l} THEN "approved" ELSE "pending_review"
  <2>1. Pending' = {} <=> OpenLevels = {l}
    BY <1>7, <1>8 DEF PendingLevels
  <2>. QED  BY <1>1, <1>2, <2>1, StepReading DEF StatusOf
<1>11. Signatures' = Signatures \cup {<<l, u>>}
  <2>. DEFINE A == {k \in eff[round] : slots[<<round, k>>] = "approved"}
  <2>1. \A k \in eff[round] : /\ <<round, k>> \in SlotIds /\ (<<round, k>> = target[c] <=> k = l)
                              /\ slots'[<<round, k>>] = IF k = l THEN "approved" ELSE slots[<<round, k>>]
    BY <1>4, <1>5 DEF SlotIds
  <2>2. {k \in eff'[round] : slots'[<<round, k>>] = "approved"} = A \cup {l}
    BY <1>1, <1>4, <2>1
  <2>3. l \notin A
    BY <1>4, <1>5
  <2>4. \A k \in A : by'[<<round, k>>] = by[<<round, k>>]
    BY <1>5, <2>1, <2>3 DEF TypeOK
  <2>5. by'[<<round, l>>] = u
    BY <1>4, <1>5 DEF TypeOK
  <2>6. Signatures = {<<k, by[<<round, k>>]>> : k \in A}
        /\ Signatures' = {<<k, by'[<<round, k>>]>> : k \in A \cup {l}}
    BY <1>1, <1>4, <2>2 DEF Signatures
  <2>. HIDE DEF A, l, u
  <2>7. ASSUME NEW s \in Signatures' PROVE s \in Signatures \cup {<<l, u>>}
    BY <2>4, <2>5, <2>6, <2>7, Zenon
  <2>8. ASSUME NEW s \in Signatures \cup {<<l, u>>} PROVE s \in Signatures'
    <3>1. CASE s = <<l, u>>
      BY <2>5, <2>6, <3>1, Zenon
    <3>2. CASE s \in Signatures
      BY <2>4, <2>6, <3>2, Zenon
    <3>. QED  BY <2>8, <3>1, <3>2
  <2>. QED  BY <2>7, <2>8
<1>12. u \in {Admin, l} /\ u \in Levels \cup {Admin}
  BY <1>2, <1>4
<1>. QED  BY <1>4, <1>8, <1>9, <1>10, <1>11, <1>12 DEF Review!Approve, Review!Admin, Admin

\* A reject that closes the pending slots rejects.
LEMMA CloseRejects ==
    ASSUME TypeOK, DocInv, RoundInv, NEW c \in Calls, calm', CloseAll(c)
    PROVE  Review!Reject
<1>1. /\ pc[c] = "close" /\ pc'[c] = "set" /\ UNCHANGED <<doc, round, eff, by, verdict>>
  BY DEF CloseAll, Goto, TypeOK, callVars
<1>2. doc = "pending_review" /\ verdict[c] = "rejected"
  BY <1>1, StepReading DEF KnowsDoc, Over
<1>3. Status = "pending_review" /\ Status' = "rejected"
  BY <1>1, <1>2, StepReading DEF StatusOf
<1>4. \A s \in SlotIds : slots'[s] = IF slots[s] = "pending" THEN "rejected" ELSE slots[s]
  BY DEF CloseAll, Close, Pending
<1>5. Pending' = {}
  BY <1>4 DEF Pending
<1>6. OpenLevels' = {}
  BY <1>1, <1>5, StepReading DEF OpenOf, PendingLevels
<1>7. Signatures' = Signatures
  <2>1. round # NoSlot => \A l \in eff[round] : <<round, l>> \in SlotIds
    BY DEF TypeOK, SlotIds
  <2>. QED  BY <1>1, <1>4, <2>1, SameSignatures
<1>. QED  BY <1>3, <1>6, <1>7 DEF Review!Reject

\* The steps around these change nothing of the review.
LEMMA OthersAreQuiet ==
    ASSUME TypeOK, DocInv, RoundInv, NEW c \in Calls, calm',
           \/ InsertSlot(c) \/ Approve(c) \/ NextSlot(c) \/ Count(c) \/ Reject(c) \/ SetStatus(c)
    PROVE  UNCHANGED <<Status, OpenLevels, Signatures>>
<1>1. CASE InsertSlot(c)
  <2>1. PICK k \in todo[c] :
          /\ Close({<<c, k>>}, "pending")
          /\ todo' = [todo EXCEPT ![c] = todo[c] \ {k}]
          /\ Goto(c, "insert", IF todo[c] = {k} THEN "set" ELSE "insert")
    BY <1>1 DEF InsertSlot
  <2>2. /\ pc[c] = "insert" /\ pc'[c] = (IF todo[c] = {k} THEN "set" ELSE "insert")
        /\ UNCHANGED <<by, round, eff, verdict>> /\ todo'[c] = todo[c] \ {k}
    BY <1>1, <2>1 DEF InsertSlot, Goto, TypeOK
  <2>3. round = c /\ k \in eff[c] /\ slots[<<c, k>>] = "none"
    BY <1>1, <2>1, <2>2, StepReading DEF KnowsSlots, Over
  <2>4. k \in Levels /\ <<c, k>> \in SlotIds /\ \A l \in eff[c] : <<c, l>> \in SlotIds
    BY <2>1 DEF TypeOK, SlotIds
  <2>5. \A s \in SlotIds : slots'[s] = IF s = <<c, k>> THEN "pending" ELSE slots[s]
    BY <2>1 DEF Close
  <2>6. Status' = Status
    BY <1>1, <2>2, StepReading DEF StatusOf
  <2>7. OpenLevels' = OpenLevels
    <3>1. Pending' = Pending \cup {<<c, k>>}
      BY <2>4, <2>5 DEF Pending
    <3>2. PendingLevels' = PendingLevels \cup {k}
      <4>1. <<c, k>>[2] = k
        OBVIOUS
      <4>2. PendingLevels' = {s[2] : s \in Pending \cup {<<c, k>>}}
        BY <3>1 DEF PendingLevels
      <4>. QED  BY <4>1, <4>2, Zenon DEF PendingLevels
    <3>3. OpenLevels = PendingLevels \cup todo[c] /\ OpenLevels' = PendingLevels' \cup todo'[c]
      BY <1>1, <2>2, StepReading DEF OpenOf
    <3>. QED  BY <2>1, <2>2, <3>2, <3>3
  <2>8. Signatures' = Signatures
    BY <2>2, <2>3, <2>4, <2>5, SameSignatures
  <2>. QED  BY <2>6, <2>7, <2>8
<1>2. CASE Approve(c) \/ NextSlot(c) \/ Count(c) \/ Reject(c) \/ SetStatus(c)
  <2>1. UNCHANGED <<slots, by, round, eff>> /\ pc[c] # "insert" /\ pc'[c] # "insert"
    BY <1>2 DEF Approve, NextSlot, Count, Reject, SetStatus, Goto, TypeOK, callVars
  <2>2. Pending' = Pending
    BY <2>1 DEF Pending
  <2>3. OpenLevels' = OpenLevels
    BY <1>2, <2>1, <2>2, StepReading DEF OpenOf, PendingLevels
  <2>4. Signatures' = Signatures
    BY <2>1 DEF Signatures
  <2>5. Status' = Status
    <3>1. CASE Approve(c) \/ NextSlot(c) \/ Reject(c)
      <4>1. pc[c] \notin {"insert", "set", "count"} /\ pc'[c] \notin {"insert", "set", "count"} /\ doc' = doc
        BY <3>1 DEF Approve, NextSlot, Reject, Goto, TypeOK
      <4>. QED  BY <3>1, <4>1, StepReading DEF StatusOf
    <3>2. CASE Count(c)
      <4>1. /\ pc[c] = "count" /\ pc'[c] = "set"
            /\ verdict'[c] = IF Pending = {} THEN "approved" ELSE "pending_review"
        BY <3>2 DEF Count, Goto, TypeOK
      <4>2. doc = "pending_review"
        BY <3>2, <4>1, StepReading DEF KnowsDoc, Over
      <4>. QED  BY <3>2, <4>1, <4>2, StepReading DEF StatusOf
    <3>3. CASE SetStatus(c)
      <4>1. pc[c] = "set" /\ pc'[c] = "done" /\ doc' = verdict[c]
        BY <3>3 DEF SetStatus, Goto, TypeOK
      <4>. QED  BY <3>3, <4>1, StepReading DEF StatusOf
    <3>. QED  BY <1>2, <3>1, <3>2, <3>3
  <2>. QED  BY <2>3, <2>4, <2>5
<1>. QED  BY <1>1, <1>2

\* A plain PUT moves the document and leaves its levels as they are.
LEMMA PutFollows ==
    ASSUME TypeOK, calm', Put
    PROVE  \E p \in DocTable : Review!Put(p[2])
<1>1. /\ UnderWay = {} /\ UnderWay' = {} /\ <<doc, doc'>> \in DocTable
      /\ UNCHANGED <<slots, by, round, eff>>
  BY DEF Put, callVars, TypeOK, UnderWay
<1>2. ReadsRest'
  BY ReviewReading, PTL
<1>3. Status = doc /\ Status' = doc' /\ OpenLevels' = OpenLevels
  BY <1>1, <1>2, ReviewReading DEF ReadsRest, PendingLevels, Pending
<1>4. Signatures' = Signatures
  BY <1>1 DEF Signatures
<1>5. Review!Put(<<doc, doc'>>[2])
  BY <1>1, <1>3, <1>4 DEF Review!Put
<1>. QED  BY <1>1, <1>5

\* Every step of the calls and PUTs is a step of the review or leaves it alone.
LEMMA ReviewNext ==
    ASSUME TypeOK, DocInv, RoundInv, Next, calm'
    PROVE  Review!Next \/ UNCHANGED <<Status, OpenLevels, Signatures>>
<1>1. ASSUME NEW c \in Calls, Submit(c) PROVE Review!Next \/ UNCHANGED <<Status, OpenLevels, Signatures>>
  BY <1>1, SubmitSubmits DEF Review!Next
<1>2. ASSUME NEW c \in Calls, Clear(c) PROVE Review!Next
  BY <1>2, ClearSubmits DEF Review!Next
<1>3. ASSUME NEW c \in Calls, Mark(c) PROVE Review!Next
  BY <1>3, MarkApproves DEF Review!Next, Review!Admin, Admin
<1>4. ASSUME NEW c \in Calls, CloseAll(c) PROVE Review!Next
  BY <1>4, CloseRejects DEF Review!Next
<1>5. ASSUME NEW c \in Calls,
             \/ InsertSlot(c) \/ Approve(c) \/ NextSlot(c) \/ Count(c) \/ Reject(c) \/ SetStatus(c)
      PROVE  UNCHANGED <<Status, OpenLevels, Signatures>>
  BY <1>5, OthersAreQuiet
<1>6. ASSUME NEW c \in Calls, Crash(c) PROVE FALSE
  BY <1>6 DEF Crash
<1>7. CASE Put
  BY <1>7, PutFollows DEF Review!Next
<1>. QED  BY <1>1, <1>2, <1>3, <1>4, <1>5, <1>6, <1>7 DEF Next

\* The statements of submit, approve and reject, whatever round they belong to, and the PUTs
\* between them, wherever they move the document, are one review of it, for any levels and
\* any number of calls, as long as calls do not overlap (workflow.service.ts:12-15).
THEOREM ReviewsAreImplemented == Spec => ApprovalSpec
<1>1. Init => Review!Init
  <2>1. SUFFICES ASSUME Init PROVE Review!Init
    OBVIOUS
  <2>2. UnderWay = {} /\ Pending = {} /\ doc = "draft" /\ round = NoSlot
    BY <2>1 DEF Init, UnderWay, Pending
  <2>. QED  BY <2>2, ReviewReading DEF ReadsRest, Review!Init, PendingLevels, Signatures
<1>2. TypeOK /\ DocInv /\ RoundInv /\ [Next]_vars =>
        [calm' => Review!Next]_<<Status, OpenLevels, Signatures>>
  <2>1. UNCHANGED vars => UNCHANGED <<Status, OpenLevels, Signatures>>
    BY DEF vars, callVars, Status, OpenLevels, Signatures, Landing, Pending
  <2>. QED  BY <2>1, ReviewNext
<1>. QED  BY <1>1, <1>2, RoundInvAlways, DocInvAlways, TypeCorrect, PTL DEF Spec, ApprovalSpec

-----------------------------------------------------------------------------
(* Authz.                                                                  *)

\* Whether the role is granted anything is a truth.
LEMMA GrantsType == \A P : Grants(P) \in BOOLEAN
  BY DEF Grants

\* The stamp is a time,
LEMMA NewestType ==
  ASSUME NEW P \in SUBSET Row, NEW o \in Time
  PROVE  Newest(P, o) \in Time
<1>1. CASE \E r \in P : r.updated > o
  <2>1. (CHOOSE r \in P : TRUE) \in P
    BY <1>1
  <2> QED BY <1>1, <2>1 DEF Newest, Row
<1> QED BY <1>1 DEF Newest

\* and a time a number.
LEMMA TimeNat == Time \subseteq Nat /\ 0 \in Time
  BY AuthzAssumption DEF Time

\* A check that waits is a check,
LEMMA WaitingType == Waiting \in CheckType /\ Waiting.at = "idle"
  BY TimeNat DEF Waiting, CheckType

\* and a call of setPermission that rests a call.
LEMMA RestingType == Resting \in AdminType /\ [Resting EXCEPT !.at = "drop"] \in AdminType
  BY TimeNat DEF Resting, AdminType

\* An entry made now is an entry.
LEMMA EntryType ==
  ASSUME now \in Time, NEW b \in BOOLEAN
  PROVE  /\ Entry(b) \in Cached(BOOLEAN)
         /\ \A e \in Entry(b) : e.val = b /\ e.at = now
  BY DEF Entry, Cached

\* A check whose expected answers change stays a check.
LEMMA MayType ==
  ASSUME NEW r \in CheckType, NEW S \in SUBSET BOOLEAN
  PROVE  LET q == [r EXCEPT !.may = S]
         IN  /\ q \in CheckType
             /\ q.at = r.at /\ q.of = r.of /\ q.v = r.v /\ q.val = r.val /\ q.may = S
  BY DEF CheckType

\* A check that has to read the row is a check.
LEMMA FillType ==
  ASSUME NEW a \in Actions, NEW v \in Time, NEW b \in BOOLEAN, NEW may \in SUBSET BOOLEAN
  PROVE  LET q == [at |-> "fill", of |-> a, v |-> v, val |-> b, may |-> may]
         IN  /\ q \in CheckType
             /\ q.at = "fill" /\ q.of = a /\ q.v = v /\ q.val = b /\ q.may = may
  BY DEF CheckType

\* What entries hold, of whichever cache.
LEMMA EntriesType ==
  ASSUME AuthzTypeOK
  PROVE  /\ \A v \in Time : \A e \in rows[v] : e.val \in BOOLEAN /\ e.at \in Nat
         /\ \A a \in Actions, v \in Time : \A e \in answers[a][v] : e.val \in BOOLEAN /\ e.at \in Nat
         /\ \A s \in stamp : s.val \in Nat /\ s.val \in Time /\ s.at \in Nat
<1>1. /\ rows \in [Time -> Cached(BOOLEAN)]
      /\ answers \in [Actions -> [Time -> Cached(BOOLEAN)]]
      /\ stamp \in Cached(Time)
  BY DEF AuthzTypeOK
<1>2. \A E \in Cached(BOOLEAN) : \A e \in E : e.val \in BOOLEAN /\ e.at \in Nat
  BY TimeNat DEF Cached
<1>3. \A E \in Cached(Time) : \A e \in E : e.val \in Nat /\ e.val \in Time /\ e.at \in Nat
  BY TimeNat DEF Cached
<1>4. \A v \in Time : \A e \in rows[v] : e.val \in BOOLEAN /\ e.at \in Nat
  BY <1>1, <1>2
<1>5. \A a \in Actions, v \in Time : \A e \in answers[a][v] : e.val \in BOOLEAN /\ e.at \in Nat
  BY <1>1, <1>2
<1> QED BY <1>1, <1>3, <1>4, <1>5

\* The entries and checks hold what was true when they were made.
AgeInv ==
    /\ heldAt[Grants(perm)] = now
    /\ \A b \in BOOLEAN : heldAt[b] <= now
    /\ \A v \in Time : \A e \in rows[v] :
         e.at <= now /\ now <= e.at + Ttl /\ e.at <= heldAt[e.val]
    /\ \A a \in Actions, v \in Time : \A e \in answers[a][v] :
         e.at <= now /\ now <= e.at + Ttl /\ e.at <= heldAt[e.val] + Ttl
    /\ \A c \in Checks : check[c].at = "fill" => heldAt[check[c].val] = now
    /\ AnswersAgeOut

\* Nothing is cached or on its way that this isolate's last write has retired.
OwnInv ==
    /\ Grants(perm) \in own
    /\ \A v \in Time : \A e \in rows[v] : e.val \in own
    /\ \A a \in Actions, v \in Time : \A e \in answers[a][v] : e.val \in own
    /\ \A c \in Checks : check[c].at = "fill" => check[c].val \in own
    /\ OwnWriteIsSeen

\* b may be answered under the stamp v.
Kept(b, v) ==
    \/ \E e \in rows[v] : e.val = b
    \/ \E a \in Actions : \E e \in answers[a][v] : e.val = b
    \/ \E c \in Checks : check[c].at = "fill" /\ check[c].v = v /\ check[c].val = b

\* Under the greatest stamp nothing is kept but what was true since it was set,
\* and a check in progress may answer what is kept under its own.
StampInv ==
    /\ Grants(perm) \in held
    /\ Newest(perm, others) <= top
    /\ ~lowered => Newest(perm, others) = top
    /\ raisedAt <= now
    /\ \A b \in BOOLEAN, v \in Time : Kept(b, v) => v <= top
    /\ \A b \in BOOLEAN : ~lowered /\ Kept(b, top) => b \in held
    /\ \A s \in stamp : /\ s.at <= now /\ now <= s.at + StampTtl /\ s.val <= top
                        /\ ~lowered /\ raisedAt < s.at => s.val = top
    /\ \A c \in Checks :
         /\ check[c].at # "idle" => Grants(perm) \in check[c].may /\ check[c].v <= top
         /\ check[c].at = "stamp" =>
              /\ ~lowered /\ raisedAt < now => check[c].v = top
              /\ \A b \in BOOLEAN : Kept(b, check[c].v) => b \in check[c].may
         /\ check[c].at = "fill" => check[c].val \in check[c].may
    /\ RaisedStampRetires

OfOK == \A c \in Checks : check[c].at # "idle" => check[c].of \in Actions

AuthzInv == AuthzTypeOK /\ OfOK /\ AgeInv /\ OwnInv /\ StampInv

\* It holds before the first check.
LEMMA AuthzInitInv == AuthzInit => AuthzInv
<1> SUFFICES ASSUME AuthzInit PROVE AuthzInv
  OBVIOUS
<1> USE AuthzAssumption, TimeNat, GrantsType
<1>1. AuthzTypeOK
  <2>1. perm \in SUBSET Row
    BY DEF AuthzInit, Row
  <2>2. check \in [Checks -> CheckType] /\ admin \in [Admins -> AdminType]
    BY WaitingType, RestingType DEF AuthzInit
  <2>3. rows \in [Time -> Cached(BOOLEAN)] /\ answers \in [Actions -> [Time -> Cached(BOOLEAN)]]
    BY DEF AuthzInit, Nothing, Cached
  <2>4. held \subseteq BOOLEAN /\ own \subseteq BOOLEAN
    BY DEF AuthzInit
  <2>5. now \in Time /\ others \in Time /\ top \in Time /\ raisedAt \in Time /\ writes \in 0..MaxWrites
    BY DEF AuthzInit
  <2>6. stamp \in Cached(Time) /\ answer \subseteq AnswerType
    BY DEF AuthzInit, Cached
  <2>7. heldAt \in [BOOLEAN -> Time]
    BY DEF AuthzInit
  <2>8. lowered \in BOOLEAN
    BY DEF AuthzInit
  <2>9. provisioner \in [Provisioners -> {"idle", "insert", "heal", "drop"}]
    BY DEF AuthzInit
  <2> QED BY <2>1, <2>2, <2>3, <2>4, <2>5, <2>6, <2>7, <2>8, <2>9 DEF AuthzTypeOK
<1>2. \A c \in Checks : check[c].at = "idle"
  BY WaitingType DEF AuthzInit
<1>3. \A v \in Time : rows[v] = {} /\ \A a \in Actions : answers[a][v] = {}
  BY DEF AuthzInit, Nothing
<1>4. AgeInv
  BY <1>2, <1>3 DEF AuthzInit, AgeInv, AnswersAgeOut
<1>5. OwnInv
  BY <1>2, <1>3 DEF AuthzInit, OwnInv, OwnWriteIsSeen
<1>6. Newest(perm, others) = 0
  <2>1. \A r \in perm : r.updated = 0
    BY DEF AuthzInit
  <2> QED BY <2>1 DEF AuthzInit, Newest
<1>7. \A b \in BOOLEAN, v \in Time : ~Kept(b, v)
  BY <1>2, <1>3 DEF Kept
<1>8. StampInv
  BY <1>2, <1>6, <1>7 DEF AuthzInit, StampInv, RaisedStampRetires
<1> QED BY <1>1, <1>2, <1>4, <1>5, <1>8 DEF AuthzInv, OfOK

\* A write leaves the checks in progress as they are, but for what they may answer.
LEMMA WriteChecks ==
  ASSUME AuthzTypeOK, NEW P \in SUBSET Row, NEW o \in Time, Write(P, o)
  PROVE  /\ check' \in [Checks -> CheckType]
         /\ \A c \in Checks :
              /\ check'[c].at = check[c].at /\ check'[c].of = check[c].of
              /\ check'[c].v = check[c].v /\ check'[c].val = check[c].val
              /\ check[c].at # "idle" => Grants(P) \in check'[c].may
              /\ check[c].may \subseteq check'[c].may
<1> DEFINE truth == {Grants(P)}
           lowers == Newest(P, o) < Newest(perm, others)
           may(c) == IF lowers THEN BOOLEAN ELSE check[c].may \cup truth
<1>1. check' = [c \in Checks |-> IF check[c].at = "idle" THEN check[c]
                                 ELSE [check[c] EXCEPT !.may = may(c)]]
  BY DEF Write
<1>2. ASSUME NEW c \in Checks
      PROVE  may(c) \in SUBSET BOOLEAN /\ Grants(P) \in may(c) /\ check[c].may \subseteq may(c)
             /\ check[c] \in CheckType
  <2>1. check[c] \in CheckType /\ Grants(P) \in BOOLEAN
    BY GrantsType DEF AuthzTypeOK
  <2>2. check[c].may \subseteq BOOLEAN
    BY <2>1 DEF CheckType
  <2> HIDE DEF lowers
  <2> QED BY <2>1, <2>2
<1> HIDE DEF may
<1>3. ASSUME NEW c \in Checks
      PROVE  /\ check'[c] \in CheckType
             /\ check'[c].at = check[c].at /\ check'[c].of = check[c].of
             /\ check'[c].v = check[c].v /\ check'[c].val = check[c].val
             /\ check[c].at # "idle" => Grants(P) \in check'[c].may
             /\ check[c].may \subseteq check'[c].may
  <2>1. CASE check[c].at = "idle"
    BY <1>1, <1>2, <2>1
  <2>2. CASE check[c].at # "idle"
    <3>1. check'[c] = [check[c] EXCEPT !.may = may(c)]
      BY <1>1, <2>2
    <3> QED BY <1>2, <3>1, MayType
  <2> QED BY <2>1, <2>2
<1>4. check' \in [Checks -> CheckType]
  BY <1>1, <1>3
<1> QED BY <1>3, <1>4

\* A write keeps the types of what it writes.
LEMMA WriteType ==
  ASSUME AuthzTypeOK, NEW P \in SUBSET Row, NEW o \in Time, Write(P, o)
  PROVE  /\ perm' = P /\ others' = o /\ answer' = {}
         /\ heldAt' \in [BOOLEAN -> Time]
         /\ top' \in Time /\ raisedAt' \in Time /\ lowered' \in BOOLEAN
         /\ held' \subseteq BOOLEAN /\ own' \subseteq BOOLEAN
<1>1. Newest(P, o) \in Time /\ Grants(P) \in BOOLEAN /\ Grants(perm) \in BOOLEAN
  BY NewestType, GrantsType
<1>2. /\ perm' = P /\ others' = o /\ answer' = {}
      /\ heldAt' = [heldAt EXCEPT ![Grants(perm)] = now, ![Grants(P)] = now]
  BY DEF Write
<1>3. heldAt' \in [BOOLEAN -> Time]
  BY <1>1, <1>2 DEF AuthzTypeOK
<1>4. top' \in Time /\ raisedAt' \in Time
  BY <1>1 DEF Write, AuthzTypeOK
<1>5. held' \subseteq BOOLEAN /\ own' \subseteq BOOLEAN
  BY <1>1 DEF Write, AuthzTypeOK
<1>6. lowered' \in BOOLEAN
  BY DEF Write
<1> QED BY <1>2, <1>3, <1>4, <1>5, <1>6

\* Whoever writes, with the caches as they are but perhaps for the stamp.
LEMMA WriteInv ==
  ASSUME AuthzInv, NEW P \in SUBSET Row, NEW o \in Time, Write(P, o),
         UNCHANGED <<now, rows, answers>>, stamp' \in {stamp, {}}
  PROVE  AgeInv' /\ OwnInv' /\ StampInv' /\ OfOK'
<1> USE AuthzAssumption, TimeNat
<1>0. /\ AuthzTypeOK /\ OfOK /\ AgeInv /\ OwnInv /\ StampInv
      /\ check \in [Checks -> CheckType]
  BY DEF AuthzInv, AuthzTypeOK
<1>1. /\ check' \in [Checks -> CheckType]
      /\ \A c \in Checks :
              /\ check'[c].at = check[c].at /\ check'[c].of = check[c].of
              /\ check'[c].v = check[c].v /\ check'[c].val = check[c].val
              /\ check[c].at # "idle" => Grants(P) \in check'[c].may
              /\ check[c].may \subseteq check'[c].may
  BY <1>0, WriteChecks
<1>2. perm' = P /\ others' = o /\ answer' = {}
  BY <1>0, WriteType
<1>3. Newest(P, o) \in Time /\ Newest(perm, others) \in Time
  BY <1>0, NewestType DEF AuthzTypeOK
<1>4. Grants(P) \in BOOLEAN /\ Grants(perm) \in BOOLEAN
  BY GrantsType
<1>5. \A c \in Checks : check[c].val \in BOOLEAN /\ check[c].v \in Time
  BY <1>0 DEF CheckType
<1>6. (\A v \in Time : \A e \in rows[v] : e.val \in BOOLEAN /\ e.at \in Time)
      /\ (\A a \in Actions, v \in Time : \A e \in answers[a][v] : e.val \in BOOLEAN /\ e.at \in Time)
  BY <1>0 DEF AuthzTypeOK, Cached
<1>7. /\ heldAt' = [heldAt EXCEPT ![Grants(perm)] = now, ![Grants(P)] = now]
      /\ now \in Nat /\ heldAt \in [BOOLEAN -> Nat]
  BY <1>0 DEF Write, AuthzTypeOK
<1>8. heldAt'[Grants(P)] = now /\ \A b \in BOOLEAN : heldAt[b] <= heldAt'[b] /\ heldAt'[b] <= now
  BY <1>0, <1>4, <1>7 DEF AgeInv
<1>9. AgeInv'
  <2>1. \A c \in Checks : check'[c].at = "fill" => heldAt'[check'[c].val] = now
    <3> SUFFICES ASSUME NEW c \in Checks, check'[c].at = "fill" PROVE heldAt'[check'[c].val] = now
      OBVIOUS
    <3>1. heldAt[check[c].val] = now /\ check[c].val \in BOOLEAN /\ check'[c].val = check[c].val
      BY <1>0, <1>1, <1>5 DEF AgeInv
    <3>2. \A b \in BOOLEAN : heldAt[b] = now => heldAt'[b] = now
      <4>1. heldAt' \in [BOOLEAN -> Time]
        BY <1>0, WriteType
      <4>2. \A b \in BOOLEAN : heldAt'[b] \in Nat
        BY <4>1
      <4>3. \A b \in BOOLEAN : heldAt[b] \in Nat
        BY <1>7
      <4>4. \A i, j \in Nat : i = now /\ i <= j /\ j <= now => j = now
        BY <1>7
      <4> QED BY <1>8, <4>2, <4>3, <4>4
    <3> QED BY <3>1, <3>2
  <2>2. \A v \in Time : \A e \in rows[v] : e.at <= now /\ now <= e.at + Ttl /\ e.at <= heldAt'[e.val]
    BY <1>0, <1>6, <1>7, <1>8 DEF AgeInv
  <2>3. \A a \in Actions, v \in Time : \A e \in answers[a][v] :
          e.at <= now /\ now <= e.at + Ttl /\ e.at <= heldAt'[e.val] + Ttl
    <3>1. heldAt' \in [BOOLEAN -> Time]
      BY <1>0, WriteType
    <3>2. \A b \in BOOLEAN : heldAt'[b] \in Nat /\ heldAt[b] \in Nat
      BY <1>7, <3>1
    <3> SUFFICES ASSUME NEW a \in Actions, NEW v \in Time, NEW e \in answers[a][v]
                 PROVE  e.at <= now /\ now <= e.at + Ttl /\ e.at <= heldAt'[e.val] + Ttl
      OBVIOUS
    <3>3. e.at <= now /\ now <= e.at + Ttl /\ e.at <= heldAt[e.val] + Ttl
      BY <1>0 DEF AgeInv
    <3>4. e.val \in BOOLEAN /\ e.at \in Nat /\ heldAt[e.val] <= heldAt'[e.val]
      BY <1>6, <1>8
    <3>5. heldAt'[e.val] \in Nat /\ heldAt[e.val] \in Nat
      BY <3>2, <3>4
    <3> QED BY <1>7, <3>3, <3>4, <3>5
  <2>4. AnswersAgeOut'
    BY <1>2 DEF AnswersAgeOut
  <2> QED BY <1>2, <1>8, <2>1, <2>2, <2>3, <2>4 DEF AgeInv
<1>10. OwnInv'
  <2>1. own' = own \cup {Grants(P)}
    BY DEF Write
  <2> QED BY <1>0, <1>1, <1>2, <2>1 DEF OwnInv, OwnWriteIsSeen
<1>11. \A b, v : Kept(b, v)' <=> Kept(b, v)
  BY <1>1 DEF Kept
<1>12. StampInv'
  <2> DEFINE N == Newest(P, o)
             raises == N > top
             lowers == N < Newest(perm, others)
  <2>1. /\ top' = IF raises THEN N ELSE top
        /\ raisedAt' = IF raises THEN now ELSE raisedAt
        /\ held' = IF raises THEN {Grants(P)} ELSE held \cup {Grants(P)}
    BY DEF Write
  <2>2. lowered' <=> (~raises /\ (lowered \/ lowers))
    BY DEF Write
  <2>3. /\ top \in Nat /\ now \in Nat /\ raisedAt \in Nat /\ N \in Nat /\ Newest(perm, others) \in Nat
        /\ \A s \in stamp : s.val \in Nat /\ s.at \in Nat
        /\ top' \in Time
    BY <1>0, <1>3, WriteType DEF AuthzTypeOK, Cached
  <2>4. Newest(perm, others)' = N
    BY <1>2
  <2> HIDE DEF N
  <2>5. Newest(perm, others)' <= top' /\ (~lowered' => Newest(perm, others)' = top') /\ top <= top'
        /\ raisedAt' <= now
    BY <1>0, <2>1, <2>2, <2>3, <2>4 DEF StampInv
  <2>6. Grants(perm)' \in held'
    BY <1>2, <2>1
  <2>7. \A b \in BOOLEAN, v \in Time : Kept(b, v)' => v <= top'
    BY <1>0, <1>11, <2>3, <2>5 DEF StampInv
  <2>8. \A b \in BOOLEAN : ~lowered' /\ Kept(b, top') => b \in held'
    <3>1. raises => \A b \in BOOLEAN : ~Kept(b, top')
      BY <1>0, <2>1, <2>3 DEF StampInv
    <3>2. ~raises /\ ~lowered' => \A b \in BOOLEAN : Kept(b, top') => b \in held'
      BY <1>0, <2>1, <2>2 DEF StampInv
    <3> QED BY <3>1, <3>2
  <2>9. \A s \in stamp' : /\ s.at <= now /\ now <= s.at + StampTtl /\ s.val <= top'
                          /\ ~lowered' /\ raisedAt' < s.at => s.val = top'
    BY <1>0, <2>1, <2>2, <2>3, <2>5 DEF StampInv
  <2>10. \A c \in Checks :
         /\ check'[c].at # "idle" => Grants(P) \in check'[c].may /\ check'[c].v <= top'
         /\ check'[c].at = "stamp" =>
              /\ ~lowered' /\ raisedAt' < now => check'[c].v = top'
              /\ \A b \in BOOLEAN : Kept(b, check[c].v)' => b \in check'[c].may
         /\ check'[c].at = "fill" => check'[c].val \in check'[c].may
    <3> SUFFICES ASSUME NEW c \in Checks
                 PROVE  /\ check'[c].at # "idle" => Grants(P) \in check'[c].may /\ check'[c].v <= top'
                        /\ check'[c].at = "stamp" =>
                             /\ ~lowered' /\ raisedAt' < now => check'[c].v = top'
                             /\ \A b \in BOOLEAN : Kept(b, check[c].v)' => b \in check'[c].may
                        /\ check'[c].at = "fill" => check'[c].val \in check'[c].may
      OBVIOUS
    <3>1. check'[c].at # "idle" => Grants(P) \in check'[c].may /\ check'[c].v <= top'
      <4>1. check[c].at # "idle" => check[c].v <= top
        BY <1>0 DEF StampInv
      <4>2. check[c].v \in Nat /\ top' \in Nat /\ top \in Nat
        BY <1>5, <2>3
      <4> QED BY <1>1, <2>5, <4>1, <4>2
    <3>2. check'[c].at = "stamp" => (~lowered' /\ raisedAt' < now => check'[c].v = top')
      <4>1. check[c].at = "stamp" /\ ~lowered /\ raisedAt < now => check[c].v = top
        BY <1>0 DEF StampInv
      <4>2. ~lowered' /\ raisedAt' < now => ~lowered /\ raisedAt < now /\ top' = top
        BY <2>1, <2>2, <2>3
      <4> QED BY <1>1, <4>1, <4>2
    <3>3. check'[c].at = "stamp" => \A b \in BOOLEAN : Kept(b, check[c].v)' => b \in check'[c].may
      BY <1>0, <1>1, <1>11 DEF StampInv
    <3>4. check'[c].at = "fill" => check'[c].val \in check'[c].may
      BY <1>0, <1>1 DEF StampInv
    <3> QED BY <3>1, <3>2, <3>3, <3>4
  <2>11. RaisedStampRetires'
    BY <1>2 DEF RaisedStampRetires
  <2>12. \A b \in BOOLEAN : ~lowered' /\ Kept(b, top)' => b \in held'
    <3>1. \A b : Kept(b, top)' <=> Kept(b, top')
      BY <1>1 DEF Kept
    <3> QED BY <2>8, <3>1
  <2> QED BY <1>2, <2>5, <2>6, <2>7, <2>12, <2>9, <2>10, <2>11 DEF StampInv
<1>13. OfOK'
  BY <1>0, <1>1 DEF OfOK
<1> QED BY <1>9, <1>10, <1>12, <1>13

\* A step that neither writes nor checks.
LEMMA QuietInv ==
  ASSUME AuthzInv, UNCHANGED <<now, database, stamp, rows, answers, check, history>>, answer' = {}
  PROVE  AgeInv' /\ OwnInv' /\ StampInv' /\ OfOK'
<1>0. OfOK /\ AgeInv /\ OwnInv /\ StampInv
  BY DEF AuthzInv
<1>1. /\ now' = now /\ perm' = perm /\ others' = others /\ stamp' = stamp /\ rows' = rows
      /\ answers' = answers /\ check' = check /\ heldAt' = heldAt /\ top' = top
      /\ raisedAt' = raisedAt /\ lowered' = lowered /\ held' = held /\ own' = own
  BY DEF database, history
<1>2. AgeInv'
  BY <1>0, <1>1 DEF AgeInv, AnswersAgeOut
<1>3. OwnInv'
  BY <1>0, <1>1 DEF OwnInv, OwnWriteIsSeen
<1>4. StampInv'
  BY <1>0, <1>1 DEF StampInv, Kept, RaisedStampRetires
<1> QED BY <1>0, <1>1, <1>2, <1>3, <1>4 DEF OfOK

\* As time passes entries are dropped before they are too old.
LEMMA TickInv == ASSUME AuthzInv, Tick PROVE AuthzInv'
<1> USE AuthzAssumption, TimeNat
<1>0. /\ AuthzTypeOK /\ OfOK /\ AgeInv /\ OwnInv /\ StampInv
  BY DEF AuthzInv
<1>1. /\ now' = now + 1 /\ now + 1 \in Time /\ now \in Nat
      /\ perm' = perm /\ others' = others /\ check' = check /\ admin' = admin
      /\ provisioner' = provisioner /\ top' = top /\ raisedAt' = raisedAt /\ lowered' = lowered
      /\ held' = held /\ own' = own /\ writes' = writes /\ answer' = {}
      /\ \A c \in Checks : check[c].at = "idle"
      /\ heldAt' = [heldAt EXCEPT ![Grants(perm)] = now + 1]
  BY <1>0 DEF Tick, AuthzTypeOK, database, calls, Time
<1>2. /\ \A e \in stamp' : e \in stamp /\ now' - e.at <= StampTtl
      /\ \A v \in Time : \A e \in rows'[v] : e \in rows[v] /\ now' - e.at <= Ttl
      /\ \A a \in Actions, v \in Time :
           \A e \in answers'[a][v] : e \in answers[a][v] /\ now' - e.at <= Ttl
      /\ rows' \in [Time -> Cached(BOOLEAN)]
      /\ answers' \in [Actions -> [Time -> Cached(BOOLEAN)]]
  <2>1. /\ stamp' = Young(stamp, StampTtl, now')
        /\ rows' = [v \in Time |-> Young(rows[v], Ttl, now')]
        /\ answers' = [a \in Actions |-> [v \in Time |-> Young(answers[a][v], Ttl, now')]]
    BY <1>1 DEF Tick
  <2>2. \A E, ttl : \A e \in Young(E, ttl, now') : e \in E /\ now' - e.at <= ttl
    BY DEF Young
  <2>3. \A E, ttl : E \in Cached(BOOLEAN) => Young(E, ttl, now') \in Cached(BOOLEAN)
    BY DEF Young, Cached
  <2>4. /\ \A v \in Time : rows[v] \in Cached(BOOLEAN)
        /\ \A a \in Actions : answers[a] \in [Time -> Cached(BOOLEAN)]
    BY <1>0 DEF AuthzTypeOK
  <2>10. /\ rows' = [v \in Time |-> Young(rows[v], Ttl, now')]
         /\ answers' = [a \in Actions |-> [v \in Time |-> Young(answers[a][v], Ttl, now')]]
    BY <2>1
  <2>11. \A v \in Time : rows'[v] = Young(rows[v], Ttl, now')
    BY <2>10
  <2>12. \A a \in Actions, v \in Time : answers'[a][v] = Young(answers[a][v], Ttl, now')
    BY <2>10
  <2>5. rows' \in [Time -> Cached(BOOLEAN)]
    BY <2>3, <2>4, <2>10
  <2>6. answers' \in [Actions -> [Time -> Cached(BOOLEAN)]]
    <3>1. ASSUME NEW a \in Actions
          PROVE  [v \in Time |-> Young(answers[a][v], Ttl, now')] \in [Time -> Cached(BOOLEAN)]
      BY <2>3, <2>4
    <3> QED BY <2>10, <3>1
  <2>7. \A v \in Time : \A e \in rows'[v] : e \in rows[v] /\ now' - e.at <= Ttl
    BY <2>2, <2>11
  <2>8. \A a \in Actions, v \in Time :
          \A e \in answers'[a][v] : e \in answers[a][v] /\ now' - e.at <= Ttl
    BY <2>2, <2>12
  <2>9. \A e \in stamp' : e \in stamp /\ now' - e.at <= StampTtl
    BY <2>1, <2>2
  <2> QED BY <2>5, <2>6, <2>7, <2>8, <2>9
<1>3. Grants(perm) \in BOOLEAN
  BY GrantsType
<1>4. heldAt' \in [BOOLEAN -> Time] /\ heldAt'[Grants(perm)] = now + 1
      /\ \A b \in BOOLEAN : heldAt[b] <= heldAt'[b] /\ heldAt'[b] <= now + 1
  <2>1. heldAt \in [BOOLEAN -> Time] /\ \A b \in BOOLEAN : heldAt[b] <= now /\ heldAt[b] \in Nat
    BY <1>0 DEF AuthzTypeOK, AgeInv
  <2>2. heldAt' \in [BOOLEAN -> Time] /\ heldAt'[Grants(perm)] = now + 1
        /\ \A b \in BOOLEAN : b # Grants(perm) => heldAt'[b] = heldAt[b]
    BY <1>1, <1>3, <2>1
  <2>3. ASSUME NEW b \in BOOLEAN PROVE heldAt[b] <= heldAt'[b] /\ heldAt'[b] <= now + 1
    <3>1. CASE b = Grants(perm)
      BY <1>1, <2>1, <2>2, <3>1
    <3>2. CASE b # Grants(perm)
      BY <1>1, <2>1, <2>2, <3>2
    <3> QED BY <3>1, <3>2
  <2> QED BY <2>2, <2>3
<1>5. AuthzTypeOK'
  <2>1. stamp' \in Cached(Time)
    BY <1>0, <1>2 DEF AuthzTypeOK, Cached
  <2> QED BY <1>0, <1>1, <1>2, <1>4, <2>1 DEF AuthzTypeOK
<1>6. (\A v \in Time : \A e \in rows[v] : e.val \in BOOLEAN /\ e.at \in Nat)
      /\ (\A a \in Actions, v \in Time : \A e \in answers[a][v] : e.val \in BOOLEAN /\ e.at \in Nat)
      /\ (\A s \in stamp : s.val \in Nat /\ s.at \in Nat)
      /\ (\A b \in BOOLEAN : heldAt[b] \in Nat /\ heldAt'[b] \in Nat)
  <2>6. heldAt \in [BOOLEAN -> Time]
    BY <1>0 DEF AuthzTypeOK
  <2>7. heldAt' \in [BOOLEAN -> Time]
    BY <1>4
  <2>8. \A b \in BOOLEAN : heldAt[b] \in Time
    BY <2>6
  <2>9. \A b \in BOOLEAN : heldAt'[b] \in Time
    BY <2>7
  <2>4. \A b \in BOOLEAN : heldAt[b] \in Nat
    BY <2>8
  <2>5. \A b \in BOOLEAN : heldAt'[b] \in Nat
    BY <2>9
  <2> QED BY <1>0, EntriesType, <2>4, <2>5
<1>7. AgeInv'
  <2>1. ASSUME NEW v \in Time, NEW e \in rows'[v]
        PROVE  e.at <= now + 1 /\ now + 1 <= e.at + Ttl /\ e.at <= heldAt'[e.val]
    <3>1. e \in rows[v] /\ now' - e.at <= Ttl
      BY <1>2
    <3>2. e.at <= now /\ e.at <= heldAt[e.val]
      BY <1>0, <3>1 DEF AgeInv
    <3>3. e.val \in BOOLEAN /\ e.at \in Nat
      BY <1>6, <3>1
    <3>4. heldAt[e.val] \in Nat /\ heldAt'[e.val] \in Nat /\ heldAt[e.val] <= heldAt'[e.val]
      BY <1>4, <1>6, <3>3
    <3> QED BY <1>1, <3>1, <3>2, <3>3, <3>4
  <2>2. ASSUME NEW a \in Actions, NEW v \in Time, NEW e \in answers'[a][v]
        PROVE  e.at <= now + 1 /\ now + 1 <= e.at + Ttl /\ e.at <= heldAt'[e.val] + Ttl
    <3>1. e \in answers[a][v] /\ now' - e.at <= Ttl
      BY <1>2
    <3>2. e.at <= now /\ e.at <= heldAt[e.val] + Ttl
      BY <1>0, <3>1 DEF AgeInv
    <3>3. e.val \in BOOLEAN /\ e.at \in Nat
      BY <1>6, <3>1
    <3>4. heldAt[e.val] \in Nat /\ heldAt'[e.val] \in Nat /\ heldAt[e.val] <= heldAt'[e.val]
      BY <1>4, <1>6, <3>3
    <3> QED BY <1>1, <3>1, <3>2, <3>3, <3>4
  <2>3. AnswersAgeOut'
    BY <1>1 DEF AnswersAgeOut
  <2>4. \A c \in Checks : check'[c].at # "fill"
    BY <1>1
  <2> QED BY <1>1, <1>4, <2>1, <2>2, <2>3, <2>4 DEF AgeInv
<1>8. OwnInv'
  BY <1>0, <1>1, <1>2 DEF OwnInv, OwnWriteIsSeen
<1>9. \A b \in BOOLEAN, v \in Time : Kept(b, v)' => Kept(b, v)
  BY <1>1, <1>2 DEF Kept
<1>10. StampInv'
  <2>1. \A s \in stamp' : /\ s.at <= now' /\ now' <= s.at + StampTtl /\ s.val <= top'
                          /\ ~lowered' /\ raisedAt' < s.at => s.val = top'
    BY <1>0, <1>1, <1>2, <1>6 DEF StampInv
  <2>2. top \in Time /\ raisedAt \in Nat
    BY <1>0 DEF AuthzTypeOK
  <2>3. raisedAt' <= now'
    BY <1>0, <1>1, <2>2 DEF StampInv
  <2>4. \A b \in BOOLEAN, v \in Time : Kept(b, v)' => v <= top'
    BY <1>0, <1>1, <1>9 DEF StampInv
  <2>5. \A b \in BOOLEAN : ~lowered' /\ Kept(b, top)' => b \in held'
    BY <1>0, <1>1, <1>9, <2>2 DEF StampInv
  <2>6. RaisedStampRetires'
    BY <1>1 DEF RaisedStampRetires
  <2>7. \A c \in Checks : check'[c].at = "idle"
    BY <1>1
  <2>8. Grants(perm)' \in held' /\ Newest(perm, others)' <= top'
        /\ (~lowered' => Newest(perm, others)' = top')
    BY <1>0, <1>1 DEF StampInv
  <2> QED BY <2>1, <2>3, <2>4, <2>5, <2>6, <2>7, <2>8 DEF StampInv
<1>11. OfOK'
  BY <1>1 DEF OfOK
<1> QED BY <1>5, <1>7, <1>8, <1>10, <1>11 DEF AuthzInv

\* Whoever drops the entries of the role.
LEMMA DropInv ==
  ASSUME AuthzInv, UNCHANGED <<now, database, check, heldAt, top, raisedAt, lowered, held>>,
         answer' = {}, stamp' \in {stamp, {}},
         \/ invalidateBusinessCache /\ OwnFromNow
         \/ UNCHANGED <<rows, answers, own>>
  PROVE  /\ AgeInv' /\ OwnInv' /\ StampInv' /\ OfOK'
         /\ rows' \in [Time -> Cached(BOOLEAN)]
         /\ answers' \in [Actions -> [Time -> Cached(BOOLEAN)]]
         /\ own' \subseteq BOOLEAN
<1>0. /\ AuthzTypeOK /\ OfOK /\ AgeInv /\ OwnInv /\ StampInv
  BY DEF AuthzInv
<1>1. /\ now' = now /\ perm' = perm /\ others' = others /\ check' = check /\ top' = top
      /\ raisedAt' = raisedAt /\ lowered' = lowered /\ held' = held /\ heldAt' = heldAt
  BY DEF database
<1>2. /\ \A v \in Time : rows'[v] \subseteq rows[v]
      /\ \A a \in Actions, v \in Time : answers'[a][v] \subseteq answers[a][v]
      /\ rows' \in [Time -> Cached(BOOLEAN)]
      /\ answers' \in [Actions -> [Time -> Cached(BOOLEAN)]]
  BY <1>0 DEF AuthzTypeOK, Cached, invalidateBusinessCache, Nothing
<1>3. Grants(perm) \in BOOLEAN
  BY GrantsType
<1>4. own' \subseteq BOOLEAN
  BY <1>0, <1>3 DEF AuthzTypeOK, OwnFromNow
<1>5. AgeInv'
  BY <1>0, <1>1, <1>2 DEF AgeInv, AnswersAgeOut
<1>6. OwnInv'
  <2>1. CASE UNCHANGED <<rows, answers, own>>
    BY <1>0, <1>1, <2>1 DEF OwnInv, OwnWriteIsSeen
  <2>2. CASE invalidateBusinessCache /\ OwnFromNow
    <3>1. (\A v \in Time : rows'[v] = {}) /\ (\A a \in Actions, v \in Time : answers'[a][v] = {})
      BY <2>2 DEF invalidateBusinessCache, Nothing
    <3>2. Grants(perm) \in own'
      BY <1>3, <2>2 DEF OwnFromNow
    <3>3. \A c \in Checks : check[c].at = "fill" => check[c].val \in own'
      <4> SUFFICES ASSUME NEW c \in Checks, check[c].at = "fill" PROVE check[c].val \in own'
        OBVIOUS
      <4>1. own' = BOOLEAN
        BY <2>2 DEF OwnFromNow
      <4>2. check[c].val \in BOOLEAN
        BY <1>0 DEF AuthzTypeOK, CheckType
      <4> QED BY <4>1, <4>2
    <3> QED BY <1>1, <3>1, <3>2, <3>3 DEF OwnInv, OwnWriteIsSeen
  <2> QED BY <2>1, <2>2
<1>7. \A b \in BOOLEAN, v \in Time : Kept(b, v)' => Kept(b, v)
  BY <1>1, <1>2 DEF Kept
<1>8. StampInv'
  <2>1. \A s \in stamp' : /\ s.at <= now' /\ now' <= s.at + StampTtl /\ s.val <= top'
                          /\ ~lowered' /\ raisedAt' < s.at => s.val = top'
    BY <1>0, <1>1 DEF StampInv
  <2>2. top \in Time /\ \A c \in Checks : check[c].v \in Time
    BY <1>0 DEF AuthzTypeOK, CheckType
  <2>4. \A b \in BOOLEAN, v \in Time : Kept(b, v)' => v <= top'
    BY <1>0, <1>1, <1>7 DEF StampInv
  <2>5. \A b \in BOOLEAN : ~lowered' /\ Kept(b, top)' => b \in held'
    BY <1>0, <1>1, <1>7, <2>2 DEF StampInv
  <2>6. RaisedStampRetires'
    BY DEF RaisedStampRetires
  <2>7. \A c \in Checks :
         /\ check'[c].at # "idle" => Grants(perm) \in check'[c].may /\ check'[c].v <= top'
         /\ check'[c].at = "stamp" =>
              /\ ~lowered' /\ raisedAt' < now' => check'[c].v = top'
              /\ \A b \in BOOLEAN : Kept(b, check[c].v)' => b \in check'[c].may
         /\ check'[c].at = "fill" => check'[c].val \in check'[c].may
    BY <1>0, <1>1, <1>7, <2>2 DEF StampInv
  <2>8. Grants(perm)' \in held' /\ Newest(perm, others)' <= top'
        /\ (~lowered' => Newest(perm, others)' = top') /\ raisedAt' <= now'
    BY <1>0, <1>1 DEF StampInv
  <2> QED BY <1>1, <2>1, <2>4, <2>5, <2>6, <2>7, <2>8 DEF StampInv
<1>9. OfOK'
  BY <1>0, <1>1 DEF OfOK
<1> QED BY <1>2, <1>4, <1>5, <1>6, <1>8, <1>9

\* A step of a check that keeps under a stamp what was kept there already, or what
\* is true now.
LEMMA CheckStampInv ==
  ASSUME AuthzInv, NEW c \in Checks, UNCHANGED <<now, database, history>>,
         \A d \in Checks : d # c => check'[d] = check[d],
         \A b \in BOOLEAN, v \in Time : Kept(b, v)' => Kept(b, v) \/ (b = Grants(perm) /\ v <= top),
         \A s \in stamp' : /\ s.at <= now /\ now <= s.at + StampTtl /\ s.val <= top
                           /\ ~lowered /\ raisedAt < s.at => s.val = top,
         check'[c].at # "idle" => Grants(perm) \in check'[c].may /\ check'[c].v <= top,
         check'[c].at = "stamp" =>
              /\ ~lowered /\ raisedAt < now => check'[c].v = top
              /\ \A b \in BOOLEAN : Kept(b, check[c].v)' => b \in check'[c].may,
         check'[c].at = "fill" => check'[c].val \in check'[c].may,
         \A x \in answer' : x.val \in x.may
  PROVE  StampInv'
<1>0. StampInv /\ AuthzTypeOK
  BY DEF AuthzInv
<1>1. /\ now' = now /\ perm' = perm /\ others' = others /\ top' = top
      /\ raisedAt' = raisedAt /\ lowered' = lowered /\ held' = held
  BY DEF database, history
<1>2. top \in Time /\ \A d \in Checks : check[d].v \in Time
  BY <1>0 DEF AuthzTypeOK, CheckType
<1>3. /\ Grants(perm)' \in held' /\ Newest(perm, others)' <= top'
      /\ (~lowered' => Newest(perm, others)' = top') /\ raisedAt' <= now'
  BY <1>0, <1>1 DEF StampInv
<1>4. \A b \in BOOLEAN, v \in Time : Kept(b, v)' => v <= top'
  BY <1>0, <1>1 DEF StampInv
<1>5. \A b \in BOOLEAN : ~lowered' /\ Kept(b, top)' => b \in held'
  <2> SUFFICES ASSUME NEW b \in BOOLEAN, ~lowered, Kept(b, top)' PROVE b \in held
    BY <1>1
  <2>1. Kept(b, top) \/ b = Grants(perm)
    <3>1. PICK v \in Time : v = top
      BY <1>2
    <3>2. Kept(b, v)'
      BY <1>1, <3>1 DEF Kept
    <3> QED BY <3>1, <3>2
  <2> QED BY <1>0, <2>1 DEF StampInv
<1>6. ASSUME NEW d \in Checks
      PROVE  /\ check'[d].at # "idle" => Grants(perm) \in check'[d].may /\ check'[d].v <= top
             /\ check'[d].at = "stamp" =>
                  /\ ~lowered /\ raisedAt < now => check'[d].v = top
                  /\ \A b \in BOOLEAN : Kept(b, check[d].v)' => b \in check'[d].may
             /\ check'[d].at = "fill" => check'[d].val \in check'[d].may
  <2>1. CASE d = c
    BY <2>1
  <2>2. CASE d # c
    <3>1. check'[d] = check[d]
      BY <2>2
    <3>2. check[d].at = "stamp" =>
             \A b \in BOOLEAN : Kept(b, check[d].v)' => b \in check[d].may
      <4> SUFFICES ASSUME check[d].at = "stamp", NEW b \in BOOLEAN, Kept(b, check[d].v)'
                   PROVE  b \in check[d].may
        OBVIOUS
      <4>1. Kept(b, check[d].v) \/ b = Grants(perm)
        <5>1. \A v \in Time : v = check[d].v => (Kept(b, v) \/ b = Grants(perm))
          <6> SUFFICES ASSUME NEW v \in Time, v = check[d].v PROVE Kept(b, v) \/ b = Grants(perm)
            OBVIOUS
          <6>1. Kept(b, v)'
            BY <3>1 DEF Kept
          <6> QED BY <6>1
        <5> QED BY <1>2, <5>1
      <4> QED BY <1>0, <4>1 DEF StampInv
    <3> QED BY <1>0, <3>1, <3>2 DEF StampInv
  <2> QED BY <2>1, <2>2
<1>7. RaisedStampRetires'
  BY DEF RaisedStampRetires
<1> QED BY <1>1, <1>3, <1>4, <1>5, <1>6, <1>7 DEF StampInv

\* An answer of what was last true at most n ticks ago.
LEMMA AnswerEffect ==
  ASSUME AuthzInv, NEW c \in Checks, NEW b \in BOOLEAN, NEW may \in SUBSET BOOLEAN,
         Answer(c, b, may), now <= heldAt[b] + 2 * Ttl, b \in may, b \in own
  PROVE  /\ answer' \subseteq AnswerType
         /\ \A x \in answer' : x.age <= 2 * Ttl /\ x.val \in x.may /\ x.val \in x.own
         /\ check' \in [Checks -> CheckType] /\ check'[c].at = "idle"
         /\ \A d \in Checks : d # c => check'[d] = check[d]
<1> DEFINE x == [val |-> b, age |-> now - heldAt[b], may |-> may, own |-> own]
<1>1. /\ now \in Time /\ heldAt \in [BOOLEAN -> Time] /\ own \subseteq BOOLEAN
      /\ check \in [Checks -> CheckType] /\ heldAt[b] <= now
  BY DEF AuthzInv, AuthzTypeOK, AgeInv
<1>2. heldAt[b] \in Time
  BY <1>1
<1>3. now - heldAt[b] \in Time /\ now - heldAt[b] <= 2 * Ttl
  BY <1>1, <1>2, AuthzAssumption DEF Time
<1>4. x \in AnswerType /\ x.age <= 2 * Ttl /\ x.val \in x.may /\ x.val \in x.own
  BY <1>1, <1>3 DEF AnswerType
<1>5. answer' = {x}
  BY DEF Answer
<1> HIDE DEF x
<1>6. check' = [check EXCEPT ![c] = Waiting]
  BY DEF Answer
<1>7. /\ check' \in [Checks -> CheckType] /\ check'[c].at = "idle"
      /\ \A d \in Checks : d # c => check'[d] = check[d]
  BY <1>1, <1>6, WaitingType
<1> QED BY <1>4, <1>5, <1>7

\* The rest of a check, with a stamp under which it may answer what is kept.
LEMMA ResolveInv ==
  ASSUME AuthzInv, NEW c \in Checks, NEW a \in Actions, NEW v \in Time,
         NEW may \in SUBSET BOOLEAN, Resolve(c, a, v, may),
         UNCHANGED <<now, database, history>>,
         \A s \in stamp' : /\ s.at <= now /\ now <= s.at + StampTtl /\ s.val <= top
                           /\ ~lowered /\ raisedAt < s.at => s.val = top,
         Grants(perm) \in may, v <= top, \A b \in BOOLEAN : Kept(b, v) => b \in may
  PROVE  /\ AgeInv' /\ OwnInv' /\ StampInv' /\ OfOK'
         /\ rows' \in [Time -> Cached(BOOLEAN)]
         /\ answers' \in [Actions -> [Time -> Cached(BOOLEAN)]]
         /\ check' \in [Checks -> CheckType]
         /\ answer' \subseteq AnswerType
<1> USE AuthzAssumption, TimeNat
<1>0. /\ AuthzTypeOK /\ OfOK /\ AgeInv /\ OwnInv /\ StampInv
      /\ check \in [Checks -> CheckType]
      /\ rows \in [Time -> Cached(BOOLEAN)]
      /\ answers \in [Actions -> [Time -> Cached(BOOLEAN)]]
      /\ now \in Time /\ heldAt \in [BOOLEAN -> Time]
  BY DEF AuthzInv, AuthzTypeOK
<1>1. /\ now' = now /\ perm' = perm /\ others' = others /\ heldAt' = heldAt /\ own' = own
  BY DEF database, history
<1>2. Grants(perm) \in BOOLEAN
  BY GrantsType
<1>3. \/ /\ \E e \in answers[a][v] : Answer(c, e.val, may)
         /\ UNCHANGED <<rows, answers>>
      \/ \E e \in rows[v] :
           /\ answers' = [answers EXCEPT ![a][v] = Entry(e.val)]
           /\ rows' = [rows EXCEPT ![v] = RowUsed(e)]
           /\ Answer(c, e.val, may)
      \/ /\ check' = [check EXCEPT ![c] =
                [at |-> "fill", of |-> a, v |-> v, val |-> Grants(perm), may |-> may]]
         /\ answer' = {}
         /\ UNCHANGED <<rows, answers>>
  BY DEF Resolve, withAuthzVersion
\* What the three have in common.
<1>common. ASSUME /\ check' \in [Checks -> CheckType] /\ answer' \subseteq AnswerType
                  /\ rows' \in [Time -> Cached(BOOLEAN)]
                  /\ answers' \in [Actions -> [Time -> Cached(BOOLEAN)]],
                  \A d \in Checks : d # c => check'[d] = check[d],
                  check'[c].at \in {"idle", "fill"},
                  check'[c].at = "fill" =>
                    /\ check'[c].val = Grants(perm) /\ check'[c].of = a
                    /\ check'[c].v = v /\ check'[c].may = may,
                  \A u \in Time : rows'[u] \subseteq rows[u],
                  \A d \in Actions, u \in Time : \A e \in answers'[d][u] :
                    \/ e \in answers[d][u]
                    \/ /\ e.at = now /\ \E f \in rows[u] : f.val = e.val,
                  \A x \in answer' : x.age <= 2 * Ttl /\ x.val \in x.may /\ x.val \in x.own
           PROVE  AgeInv' /\ OwnInv' /\ StampInv' /\ OfOK'
  <2>1. AgeInv'
    <3>1. ASSUME NEW d \in Actions, NEW u \in Time, NEW e \in answers'[d][u]
          PROVE  e.at <= now /\ now <= e.at + Ttl /\ e.at <= heldAt[e.val] + Ttl
      <4>1. CASE e \in answers[d][u]
        BY <1>0, <4>1 DEF AgeInv
      <4>2. CASE e.at = now /\ \E f \in rows[u] : f.val = e.val
        <5>1. PICK f \in rows[u] : f.val = e.val
          BY <4>2
        <5>2. now <= f.at + Ttl /\ f.at <= heldAt[f.val]
          BY <1>0, <5>1 DEF AgeInv
        <5>3. f.at \in Nat /\ f.val \in BOOLEAN
          BY <1>0, EntriesType
        <5>4. heldAt[f.val] \in Nat /\ now \in Nat
          BY <1>0, <5>3
        <5>5. now <= heldAt[f.val] + Ttl /\ now <= now + Ttl /\ now <= now
          BY <5>2, <5>3, <5>4
        <5> QED BY <4>2, <5>1, <5>5
      <4> QED BY <1>common, <4>1, <4>2
    <3>2. \A u \in Time : \A e \in rows'[u] : e.at <= now /\ now <= e.at + Ttl /\ e.at <= heldAt[e.val]
      BY <1>0, <1>common DEF AgeInv
    <3>3. \A d \in Checks : check'[d].at = "fill" => heldAt[check'[d].val] = now
      BY <1>0, <1>common DEF AgeInv
    <3>4. heldAt[Grants(perm)] = now /\ \A b \in BOOLEAN : heldAt[b] <= now
      BY <1>0 DEF AgeInv
    <3>5. AnswersAgeOut'
      BY <1>common DEF AnswersAgeOut
    <3> QED BY <1>1, <3>1, <3>2, <3>3, <3>4, <3>5 DEF AgeInv
  <2>2. OwnInv'
    <3>1. ASSUME NEW d \in Actions, NEW u \in Time, NEW e \in answers'[d][u] PROVE e.val \in own
      <4>1. CASE e \in answers[d][u]
        BY <1>0, <4>1 DEF OwnInv
      <4>2. CASE \E f \in rows[u] : f.val = e.val
        BY <1>0, <4>2 DEF OwnInv
      <4> QED BY <1>common, <4>1, <4>2
    <3>2. \A u \in Time : \A e \in rows'[u] : e.val \in own
      BY <1>0, <1>common DEF OwnInv
    <3>3. \A d \in Checks : check'[d].at = "fill" => check'[d].val \in own
      BY <1>0, <1>common DEF OwnInv
    <3>4. OwnWriteIsSeen'
      BY <1>common DEF OwnWriteIsSeen
    <3> QED BY <1>0, <1>1, <3>1, <3>2, <3>3, <3>4 DEF OwnInv
  <2>3. ASSUME NEW b \in BOOLEAN, NEW u \in Time, Kept(b, u)'
        PROVE  Kept(b, u) \/ (b = Grants(perm) /\ u <= top)
    <3>1. CASE \E e \in rows'[u] : e.val = b
      BY <1>common, <3>1 DEF Kept
    <3>2. CASE \E d \in Actions : \E e \in answers'[d][u] : e.val = b
      BY <1>common, <3>2 DEF Kept
    <3>3. CASE \E d \in Checks : check'[d].at = "fill" /\ check'[d].v = u /\ check'[d].val = b
      BY <1>common, <3>3 DEF Kept
    <3> QED BY <2>3, <3>1, <3>2, <3>3 DEF Kept
  <2>4. StampInv'
    <3>1. check'[c].at # "stamp"
      BY <1>common
    <3>2. check'[c].at # "idle" => Grants(perm) \in check'[c].may /\ check'[c].v <= top
      BY <1>common
    <3>3. check'[c].at = "fill" => check'[c].val \in check'[c].may
      BY <1>common
    <3>4. \A x \in answer' : x.val \in x.may
      BY <1>common
    <3>5. \A b \in BOOLEAN, u \in Time :
            Kept(b, u)' => Kept(b, u) \/ (b = Grants(perm) /\ u <= top)
      BY <2>3
    <3>6. \A d \in Checks : d # c => check'[d] = check[d]
      BY <1>common
    <3> QED BY <3>1, <3>2, <3>3, <3>4, <3>5, <3>6, CheckStampInv
  <2>5. OfOK'
    <3>1. check'[c].at # "idle" => check'[c].of \in Actions
      BY <1>common
    <3>2. \A d \in Checks : d # c /\ check'[d].at # "idle" => check'[d].of \in Actions
      BY <1>0, <1>common DEF OfOK
    <3> QED BY <3>1, <3>2 DEF OfOK
  <2> QED BY <2>1, <2>2, <2>4, <2>5
<1>4. CASE (\E e \in answers[a][v] : Answer(c, e.val, may)) /\ UNCHANGED <<rows, answers>>
  <2>1. PICK e \in answers[a][v] : Answer(c, e.val, may)
    BY <1>4
  <2>2. e.val \in BOOLEAN /\ e.at \in Nat
    BY <1>0, EntriesType
  <2>3. now <= e.at + Ttl /\ e.at <= heldAt[e.val] + Ttl /\ e.val \in own
    BY <1>0 DEF AgeInv, OwnInv
  <2>4. heldAt[e.val] \in Nat /\ now \in Nat
    BY <1>0, <2>2
  <2>5. now <= heldAt[e.val] + 2 * Ttl
    BY <2>2, <2>3, <2>4
  <2>6. e.val \in may
    BY <2>2 DEF Kept
  <2>7. /\ answer' \subseteq AnswerType
        /\ \A x \in answer' : x.age <= 2 * Ttl /\ x.val \in x.may /\ x.val \in x.own
        /\ check' \in [Checks -> CheckType] /\ check'[c].at = "idle"
        /\ \A d \in Checks : d # c => check'[d] = check[d]
    BY <2>1, <2>2, <2>3, <2>5, <2>6, AnswerEffect
  <2>8. rows' = rows /\ answers' = answers
    BY <1>4
  <2> QED BY <1>0, <1>common, <2>7, <2>8
<1>5. CASE \E e \in rows[v] :
             /\ answers' = [answers EXCEPT ![a][v] = Entry(e.val)]
             /\ rows' = [rows EXCEPT ![v] = RowUsed(e)]
             /\ Answer(c, e.val, may)
  <2>1. PICK e \in rows[v] :
             /\ answers' = [answers EXCEPT ![a][v] = Entry(e.val)]
             /\ rows' = [rows EXCEPT ![v] = RowUsed(e)]
             /\ Answer(c, e.val, may)
    BY <1>5
  <2>2. e.val \in BOOLEAN /\ e.at \in Nat
    BY <1>0, EntriesType
  <2>3. now <= e.at + Ttl /\ e.at <= heldAt[e.val] /\ e.val \in own
    BY <1>0 DEF AgeInv, OwnInv
  <2>4. heldAt[e.val] \in Nat /\ now \in Nat
    BY <1>0, <2>2
  <2>5. now <= heldAt[e.val] + 2 * Ttl
    BY <2>2, <2>3, <2>4
  <2>6. e.val \in may
    BY <2>2 DEF Kept
  <2>7. /\ answer' \subseteq AnswerType
        /\ \A x \in answer' : x.age <= 2 * Ttl /\ x.val \in x.may /\ x.val \in x.own
        /\ check' \in [Checks -> CheckType] /\ check'[c].at = "idle"
        /\ \A d \in Checks : d # c => check'[d] = check[d]
    BY <2>1, <2>2, <2>3, <2>5, <2>6, AnswerEffect
  <2>8. Entry(e.val) \in Cached(BOOLEAN) /\ \A f \in Entry(e.val) : f.val = e.val /\ f.at = now
    BY <1>0, <2>2, EntryType
  <2>9. /\ rows' \in [Time -> Cached(BOOLEAN)]
        /\ \A u \in Time : rows'[u] \subseteq rows[u]
    <3>1. {e} \subseteq rows[v] /\ rows[v] \in Cached(BOOLEAN)
      BY <1>0
    <3>2. {e} \in Cached(BOOLEAN)
      BY <3>1 DEF Cached
    <3> QED BY <1>0, <2>1, <3>1, <3>2 DEF RowUsed
  <2>10. /\ answers' \in [Actions -> [Time -> Cached(BOOLEAN)]]
         /\ \A d \in Actions, u \in Time :
              answers'[d][u] = answers[d][u] \/ (u = v /\ answers'[d][u] = Entry(e.val))
    BY <1>0, <2>1, <2>8
  <2>11. \A d \in Actions, u \in Time : \A f \in answers'[d][u] :
            f \in answers[d][u] \/ (f.at = now /\ \E g \in rows[u] : g.val = f.val)
    BY <2>8, <2>10
  <2> QED BY <1>common, <2>7, <2>9, <2>10, <2>11
<1>6. CASE /\ check' = [check EXCEPT ![c] =
                [at |-> "fill", of |-> a, v |-> v, val |-> Grants(perm), may |-> may]]
           /\ answer' = {}
           /\ UNCHANGED <<rows, answers>>
  <2> DEFINE q == [at |-> "fill", of |-> a, v |-> v, val |-> Grants(perm), may |-> may]
  <2>1. /\ q \in CheckType /\ q.at = "fill" /\ q.of = a /\ q.v = v /\ q.val = Grants(perm)
        /\ q.may = may
    <3> DEFINE b == Grants(perm)
    <3>1. b \in BOOLEAN /\ q = [at |-> "fill", of |-> a, v |-> v, val |-> b, may |-> may]
      BY <1>2
    <3> HIDE DEF b, q
    <3>2. /\ q \in CheckType /\ q.at = "fill" /\ q.of = a /\ q.v = v /\ q.val = b
          /\ q.may = may
      BY <3>1, FillType
    <3> QED BY <3>2 DEF b
  <2>2. check' = [check EXCEPT ![c] = q]
    BY <1>6
  <2> HIDE DEF q
  <2>3. /\ check' \in [Checks -> CheckType] /\ check'[c] = q
        /\ \A d \in Checks : d # c => check'[d] = check[d]
    BY <1>0, <2>1, <2>2
  <2>4. rows' = rows /\ answers' = answers /\ answer' = {}
    BY <1>6
  <2> QED BY <1>0, <1>common, <2>1, <2>3, <2>4
<1> QED BY <1>3, <1>4, <1>5, <1>6


\* The row has come from the database.
LEMMA FillInv ==
  ASSUME AuthzInv, NEW c \in Checks, Fill(c)
  PROVE  /\ AgeInv' /\ OwnInv' /\ StampInv' /\ OfOK'
         /\ rows' \in [Time -> Cached(BOOLEAN)]
         /\ answers' \in [Actions -> [Time -> Cached(BOOLEAN)]]
         /\ check' \in [Checks -> CheckType]
         /\ answer' \subseteq AnswerType
<1> USE AuthzAssumption, TimeNat
<1>0. /\ AuthzTypeOK /\ OfOK /\ AgeInv /\ OwnInv /\ StampInv
      /\ check \in [Checks -> CheckType]
      /\ rows \in [Time -> Cached(BOOLEAN)]
      /\ answers \in [Actions -> [Time -> Cached(BOOLEAN)]]
      /\ now \in Time /\ heldAt \in [BOOLEAN -> Time]
  BY DEF AuthzInv, AuthzTypeOK
<1>1. /\ now' = now /\ perm' = perm /\ others' = others /\ heldAt' = heldAt /\ own' = own
      /\ stamp' = stamp /\ UNCHANGED <<now, database, history>>
  BY DEF Fill, database, history
<1> DEFINE b == check[c].val
           k == check[c].v
           a == check[c].of
<1>2. /\ check[c].at = "fill"
      /\ rows' = [rows EXCEPT ![k] = Entry(b)]
      /\ answers' = [answers EXCEPT ![a][k] = Entry(b)]
      /\ Answer(c, b, check[c].may)
  BY DEF Fill, withAuthzVersion
<1>3. b \in BOOLEAN /\ k \in Time /\ a \in Actions /\ check[c].may \in SUBSET BOOLEAN
  BY <1>0, <1>2 DEF CheckType, OfOK
<1>4. heldAt[b] = now /\ b \in own /\ b \in check[c].may
  BY <1>0, <1>2 DEF AgeInv, OwnInv, StampInv
<1>5. Kept(b, k)
  BY <1>2 DEF Kept
<1> HIDE DEF a, b, k
<1>6. now <= heldAt[b] + 2 * Ttl /\ now \in Nat
  <2>1. now \in Nat /\ Ttl \in Nat
    BY <1>0, TimeNat, AuthzAssumption
  <2>2. now <= now + 2 * Ttl
    BY <2>1
  <2> QED BY <1>4, <2>1, <2>2
<1>7. /\ answer' \subseteq AnswerType
      /\ \A x \in answer' : x.age <= 2 * Ttl /\ x.val \in x.may /\ x.val \in x.own
      /\ check' \in [Checks -> CheckType] /\ check'[c].at = "idle"
      /\ \A d \in Checks : d # c => check'[d] = check[d]
  BY <1>2, <1>3, <1>4, <1>6, AnswerEffect
<1>8. Entry(b) \in Cached(BOOLEAN) /\ \A e \in Entry(b) : e.val = b /\ e.at = now
  BY <1>0, <1>3, EntryType
<1>9. /\ rows' \in [Time -> Cached(BOOLEAN)]
      /\ \A u \in Time : rows'[u] = rows[u] \/ (u = k /\ rows'[u] = Entry(b))
  BY <1>0, <1>2, <1>3, <1>8
<1>10. /\ answers' \in [Actions -> [Time -> Cached(BOOLEAN)]]
       /\ \A d \in Actions, u \in Time :
            answers'[d][u] = answers[d][u] \/ (u = k /\ answers'[d][u] = Entry(b))
  BY <1>0, <1>2, <1>3, <1>8
<1>11. \A u \in Time : \A e \in rows'[u] : e \in rows[u] \/ (u = k /\ e.val = b /\ e.at = now)
  BY <1>8, <1>9
<1>12. \A d \in Actions, u \in Time : \A e \in answers'[d][u] :
         e \in answers[d][u] \/ (u = k /\ e.val = b /\ e.at = now)
  BY <1>8, <1>10
<1>13. AgeInv'
  <2>1. ASSUME NEW u \in Time, NEW e \in rows'[u]
        PROVE  e.at <= now /\ now <= e.at + Ttl /\ e.at <= heldAt[e.val]
    <3>1. CASE e \in rows[u]
      BY <1>0, <3>1 DEF AgeInv
    <3>2. CASE e.val = b /\ e.at = now
      BY <1>4, <1>6, <3>2
    <3> QED BY <1>11, <3>1, <3>2
  <2>2. ASSUME NEW d \in Actions, NEW u \in Time, NEW e \in answers'[d][u]
        PROVE  e.at <= now /\ now <= e.at + Ttl /\ e.at <= heldAt[e.val] + Ttl
    <3>1. CASE e \in answers[d][u]
      BY <1>0, <3>1 DEF AgeInv
    <3>2. CASE e.val = b /\ e.at = now
      BY <1>4, <1>6, <3>2
    <3> QED BY <1>12, <3>1, <3>2
  <2>3. \A d \in Checks : check'[d].at = "fill" => heldAt[check'[d].val] = now
    BY <1>0, <1>7 DEF AgeInv
  <2>4. heldAt[Grants(perm)] = now /\ \A f \in BOOLEAN : heldAt[f] <= now
    BY <1>0 DEF AgeInv
  <2>5. AnswersAgeOut'
    BY <1>7 DEF AnswersAgeOut
  <2> QED BY <1>1, <2>1, <2>2, <2>3, <2>4, <2>5 DEF AgeInv
<1>14. OwnInv'
  <2>1. ASSUME NEW u \in Time, NEW e \in rows'[u] PROVE e.val \in own
    <3>1. CASE e \in rows[u]
      BY <1>0, <3>1 DEF OwnInv
    <3> QED BY <1>4, <1>11, <3>1
  <2>2. ASSUME NEW d \in Actions, NEW u \in Time, NEW e \in answers'[d][u] PROVE e.val \in own
    <3>1. CASE e \in answers[d][u]
      BY <1>0, <3>1 DEF OwnInv
    <3> QED BY <1>4, <1>12, <3>1
  <2>3. \A d \in Checks : check'[d].at = "fill" => check'[d].val \in own
    BY <1>0, <1>7 DEF OwnInv
  <2>4. OwnWriteIsSeen'
    BY <1>7 DEF OwnWriteIsSeen
  <2> QED BY <1>0, <1>1, <2>1, <2>2, <2>3, <2>4 DEF OwnInv
<1>15. StampInv'
  <2>1. ASSUME NEW f \in BOOLEAN, NEW u \in Time, Kept(f, u)'
        PROVE  Kept(f, u)
    <3>1. CASE \E e \in rows'[u] : e.val = f
      <4>1. PICK e \in rows'[u] : e.val = f
        BY <3>1
      <4>2. CASE e \in rows[u]
        BY <4>1, <4>2 DEF Kept
      <4> QED BY <1>5, <1>11, <4>1, <4>2
    <3>2. CASE \E d \in Actions : \E e \in answers'[d][u] : e.val = f
      <4>0. PICK d \in Actions : \E e \in answers'[d][u] : e.val = f
        BY <3>2
      <4>1. PICK e \in answers'[d][u] : e.val = f
        BY <4>0
      <4>2. CASE e \in answers[d][u]
        BY <4>1, <4>2 DEF Kept
      <4> QED BY <1>5, <1>12, <4>1, <4>2
    <3>3. CASE \E d \in Checks : check'[d].at = "fill" /\ check'[d].v = u /\ check'[d].val = f
      BY <1>7, <3>3 DEF Kept
    <3> QED BY <2>1, <3>1, <3>2, <3>3 DEF Kept
  <2>2. \A s \in stamp' : /\ s.at <= now /\ now <= s.at + StampTtl /\ s.val <= top
                          /\ ~lowered /\ raisedAt < s.at => s.val = top
    BY <1>0, <1>1 DEF StampInv
  <2>3. check'[c].at = "idle" /\ \A d \in Checks : d # c => check'[d] = check[d]
    BY <1>7
  <2>4. \A x \in answer' : x.val \in x.may
    BY <1>7
  <2>5. \A f \in BOOLEAN, u \in Time :
            Kept(f, u)' => Kept(f, u) \/ (f = Grants(perm) /\ u <= top)
    BY <2>1
  <2> QED BY <1>1, <2>2, <2>3, <2>4, <2>5, CheckStampInv
<1>16. OfOK'
  BY <1>0, <1>7 DEF OfOK
<1> QED BY <1>7, <1>9, <1>10, <1>13, <1>14, <1>15, <1>16

\* What a check that starts now may answer contains what is true now.
LEMMA ExpectedType ==
  ASSUME AuthzInv
  PROVE  /\ Expected \in SUBSET BOOLEAN /\ Grants(perm) \in Expected
         /\ Expected = BOOLEAN \/ (Expected = held /\ ~lowered /\ raisedAt + StampTtl < now)
<1>1. held \subseteq BOOLEAN /\ now \in Nat /\ raisedAt \in Nat /\ Grants(perm) \in held
  BY TimeNat DEF AuthzInv, AuthzTypeOK, StampInv
<1>2. Grants(perm) \in BOOLEAN
  BY GrantsType
<1> QED BY <1>1, <1>2, AuthzAssumption DEF Expected

\* A check with the cached stamp, or one that has to ask for it.
LEMMA CheckBusinessInv ==
  ASSUME AuthzInv, NEW c \in Checks, checkBusiness(c)
  PROVE  /\ AgeInv' /\ OwnInv' /\ StampInv' /\ OfOK'
         /\ rows' \in [Time -> Cached(BOOLEAN)]
         /\ answers' \in [Actions -> [Time -> Cached(BOOLEAN)]]
         /\ check' \in [Checks -> CheckType]
         /\ answer' \subseteq AnswerType
<1> USE AuthzAssumption, TimeNat
<1>0. /\ AuthzTypeOK /\ OfOK /\ AgeInv /\ OwnInv /\ StampInv
      /\ check \in [Checks -> CheckType]
      /\ rows \in [Time -> Cached(BOOLEAN)]
      /\ answers \in [Actions -> [Time -> Cached(BOOLEAN)]]
      /\ now \in Nat /\ raisedAt \in Nat
  BY DEF AuthzInv, AuthzTypeOK
<1>1. /\ now' = now /\ perm' = perm /\ others' = others /\ heldAt' = heldAt /\ own' = own
      /\ stamp' = stamp /\ UNCHANGED <<now, database, history>>
  BY DEF checkBusiness, database, history
<1>2. /\ Expected \in SUBSET BOOLEAN /\ Grants(perm) \in Expected
      /\ Expected = BOOLEAN \/ (Expected = held /\ ~lowered /\ raisedAt + StampTtl < now)
  BY ExpectedType
<1>3. \A s \in stamp' : /\ s.at <= now /\ now <= s.at + StampTtl /\ s.val <= top
                        /\ ~lowered /\ raisedAt < s.at => s.val = top
  BY <1>0, <1>1 DEF StampInv
<1>4. PICK a \in Actions :
        \/ \E s \in stamp : Resolve(c, a, s.val, Expected)
        \/ /\ check' = [check EXCEPT ![c] =
                  [at |-> "stamp", of |-> a, v |-> Newest(perm, others), val |-> FALSE,
                   may |-> Expected]]
           /\ answer' = {}
           /\ UNCHANGED <<rows, answers>>
  BY DEF checkBusiness
<1>5. ASSUME NEW s \in stamp, Resolve(c, a, s.val, Expected)
      PROVE  /\ AgeInv' /\ OwnInv' /\ StampInv' /\ OfOK'
             /\ rows' \in [Time -> Cached(BOOLEAN)]
             /\ answers' \in [Actions -> [Time -> Cached(BOOLEAN)]]
             /\ check' \in [Checks -> CheckType]
             /\ answer' \subseteq AnswerType
  <2>1. s.val \in Time /\ s.at \in Nat
    BY <1>0, EntriesType
  <2>2. s.val <= top /\ now <= s.at + StampTtl /\ (~lowered /\ raisedAt < s.at => s.val = top)
    BY <1>0 DEF StampInv
  <2>3. ASSUME NEW b \in BOOLEAN, Kept(b, s.val) PROVE b \in Expected
    <3>1. CASE Expected = BOOLEAN
      BY <3>1
    <3>2. CASE Expected = held /\ ~lowered /\ raisedAt + StampTtl < now
      <4>1. raisedAt < s.at
        BY <1>0, <2>1, <2>2, <3>2
      <4>2. s.val = top
        BY <2>2, <3>2, <4>1
      <4>3. Kept(b, top)
        BY <2>3, <4>2
      <4> QED BY <1>0, <3>2, <4>3 DEF StampInv
    <3> QED BY <1>2, <3>1, <3>2
  <2> QED BY <1>1, <1>2, <1>3, <1>5, <2>1, <2>2, <2>3, ResolveInv
<1>6. CASE /\ check' = [check EXCEPT ![c] =
                  [at |-> "stamp", of |-> a, v |-> Newest(perm, others), val |-> FALSE,
                   may |-> Expected]]
           /\ answer' = {}
           /\ UNCHANGED <<rows, answers>>
  <2> DEFINE n == Newest(perm, others)
             m == Expected
             q == [at |-> "stamp", of |-> a, v |-> n, val |-> FALSE, may |-> m]
  <2>1. n \in Time
    BY <1>0, NewestType DEF AuthzTypeOK
  <2>2. n <= top /\ (~lowered => n = top)
    BY <1>0 DEF StampInv
  <2>3. m \in SUBSET BOOLEAN /\ Grants(perm) \in m
    BY <1>2
  <2>4. ASSUME NEW b \in BOOLEAN, Kept(b, n) PROVE b \in m
    <3>1. CASE Expected = BOOLEAN
      BY <3>1
    <3>2. CASE Expected = held /\ ~lowered
      <4>1. Kept(b, top)
        BY <2>2, <2>4, <3>2
      <4> QED BY <1>0, <3>2, <4>1 DEF StampInv
    <3> QED BY <1>2, <3>1, <3>2
  <2>5. check' = [check EXCEPT ![c] = q]
    BY <1>6
  <2>6. rows' = rows /\ answers' = answers /\ answer' = {}
    BY <1>6
  <2> HIDE DEF n, m
  <2>7. q \in CheckType /\ q.at = "stamp" /\ q.of = a /\ q.v = n /\ q.may = m
    BY <2>1, <2>3 DEF CheckType
  <2> HIDE DEF q
  <2>8. /\ check' \in [Checks -> CheckType] /\ check'[c] = q
        /\ \A d \in Checks : d # c => check'[d] = check[d]
    BY <1>0, <2>5, <2>7
  <2>9. AgeInv'
    <3>1. \A d \in Checks : check'[d].at = "fill" => heldAt[check'[d].val] = now
      BY <1>0, <2>7, <2>8 DEF AgeInv
    <3> QED BY <1>0, <1>1, <2>6, <3>1 DEF AgeInv, AnswersAgeOut
  <2>10. OwnInv'
    <3>1. \A d \in Checks : check'[d].at = "fill" => check'[d].val \in own
      BY <1>0, <2>7, <2>8 DEF OwnInv
    <3> QED BY <1>0, <1>1, <2>6, <3>1 DEF OwnInv, OwnWriteIsSeen
  <2>11. ASSUME NEW b \in BOOLEAN, NEW u \in Time, Kept(b, u)' PROVE Kept(b, u)
    BY <2>6, <2>7, <2>8, <2>11 DEF Kept
  <2>12. StampInv'
    <3>1. \A b \in BOOLEAN, u \in Time :
            Kept(b, u)' => Kept(b, u) \/ (b = Grants(perm) /\ u <= top)
      BY <2>11
    <3>2. ASSUME NEW b \in BOOLEAN, Kept(b, check[c].v)' PROVE b \in m
      <4>1. Kept(b, n)
        BY <2>6, <2>7, <2>8, <3>2 DEF Kept
      <4> QED BY <2>4, <4>1
    <3>3. check'[c].at # "idle" => Grants(perm) \in check'[c].may /\ check'[c].v <= top
      BY <2>2, <2>3, <2>7, <2>8
    <3>4. check'[c].at = "stamp" =>
              /\ ~lowered /\ raisedAt < now => check'[c].v = top
              /\ \A b \in BOOLEAN : Kept(b, check[c].v)' => b \in check'[c].may
      BY <2>2, <2>7, <2>8, <3>2
    <3>5. check'[c].at # "fill" /\ \A x \in answer' : x.val \in x.may
      BY <2>6, <2>7, <2>8
    <3> QED BY <1>1, <1>3, <2>8, <3>1, <3>3, <3>4, <3>5, CheckStampInv
  <2>13. OfOK'
    <3>1. \A d \in Checks : d # c /\ check'[d].at # "idle" => check'[d].of \in Actions
      BY <1>0, <2>8 DEF OfOK
    <3> QED BY <2>7, <2>8, <3>1 DEF OfOK
  <2> QED BY <1>0, <2>6, <2>8, <2>9, <2>10, <2>12, <2>13
<1> QED BY <1>4, <1>5, <1>6

\* The stamp has come from the database, and the check goes on with it.
LEMMA AuthzVersionInv ==
  ASSUME AuthzInv, NEW c \in Checks, authzVersion(c)
  PROVE  /\ AgeInv' /\ OwnInv' /\ StampInv' /\ OfOK'
         /\ rows' \in [Time -> Cached(BOOLEAN)]
         /\ answers' \in [Actions -> [Time -> Cached(BOOLEAN)]]
         /\ check' \in [Checks -> CheckType]
         /\ answer' \subseteq AnswerType
         /\ stamp' \in Cached(Time)
<1> USE AuthzAssumption, TimeNat
<1>0. /\ AuthzTypeOK /\ OfOK /\ StampInv /\ check[c] \in CheckType /\ now \in Time
  BY DEF AuthzInv, AuthzTypeOK
<1>1. /\ check[c].at = "stamp" /\ stamp' = Entry(check[c].v)
      /\ Resolve(c, check[c].of, check[c].v, check[c].may)
      /\ UNCHANGED <<now, database, history>>
  BY DEF authzVersion
<1>2. check[c].v \in Time /\ check[c].of \in Actions /\ check[c].may \in SUBSET BOOLEAN
  BY <1>0, <1>1 DEF CheckType, OfOK
<1>3. /\ Grants(perm) \in check[c].may /\ check[c].v <= top
      /\ ~lowered /\ raisedAt < now => check[c].v = top
      /\ \A b \in BOOLEAN : Kept(b, check[c].v) => b \in check[c].may
  BY <1>0, <1>1 DEF StampInv
<1>4. \A s \in stamp' : s.at = now /\ s.val = check[c].v
  BY <1>1 DEF Entry
<1>5. stamp' \in Cached(Time)
  BY <1>0, <1>1, <1>2 DEF Entry, Cached
<1>6. \A s \in stamp' : /\ s.at <= now /\ now <= s.at + StampTtl /\ s.val <= top
                        /\ ~lowered /\ raisedAt < s.at => s.val = top
  <2>1. /\ now \in Nat /\ check[c].v <= top
        /\ ~lowered /\ raisedAt < now => check[c].v = top
    BY <1>0, <1>3
  <2> QED BY <1>4, <2>1
<1> QED BY <1>1, <1>2, <1>3, <1>5, <1>6, ResolveInv

\* What the calls of setPermission make of their own state.
LEMMA AdminMoves ==
  ASSUME AuthzTypeOK, NEW a \in Admins,
         LookUp(a) \/ Delete(a) \/ Create(a) \/ Commit(a) \/ Conflict(a) \/ LookUpAgain(a)
         \/ DropAfterSet(a) \/ Die(a)
  PROVE  admin' \in [Admins -> AdminType]
<1> USE AuthzAssumption
<1>1. now \in Time /\ admin \in [Admins -> AdminType] /\ admin[a] \in AdminType
  BY DEF AuthzTypeOK
<1>2. CASE LookUp(a)
  BY <1>1, <1>2 DEF LookUp, AdminType
<1>3. CASE Delete(a)
  BY <1>1, <1>3 DEF Delete, AdminType
<1>4. CASE Create(a)
  BY <1>1, <1>4 DEF Create, AdminType
<1>5. CASE Commit(a)
  <2>1. admin' = [admin EXCEPT ![a] = [Resting EXCEPT !.at = "drop"]]
    BY <1>5 DEF Commit
  <2> QED BY <1>1, <2>1, RestingType
<1>6. CASE Conflict(a)
  <2>1. [admin[a] EXCEPT !.at = "again", !.retried = TRUE] \in AdminType
    BY <1>1 DEF AdminType
  <2>2. admin' = [admin EXCEPT ![a] = Resting]
        \/ admin' = [admin EXCEPT ![a] = [admin[a] EXCEPT !.at = "again", !.retried = TRUE]]
    BY <1>1, <1>6 DEF Conflict
  <2> QED BY <1>1, <2>1, <2>2, RestingType
<1>7. CASE LookUpAgain(a)
  BY <1>1, <1>7 DEF LookUpAgain, AdminType
<1>8. CASE DropAfterSet(a)
  <2>1. admin' = [admin EXCEPT ![a] = Resting]
    BY <1>8 DEF DropAfterSet
  <2> QED BY <1>1, <2>1, RestingType
<1>9. CASE Die(a)
  <2>1. admin' = [admin EXCEPT ![a] = Resting]
    BY <1>9 DEF Die
  <2> QED BY <1>1, <2>1, RestingType
<1> QED BY <1>2, <1>3, <1>4, <1>5, <1>6, <1>7, <1>8, <1>9

\* A step that writes keeps the invariant, whatever its own call makes of its state.
LEMMA WriterStep ==
  ASSUME AuthzInv, NEW P \in SUBSET Row, NEW o \in Time, Write(P, o),
         UNCHANGED <<now, rows, answers>>, stamp' \in {stamp, {}},
         admin' \in [Admins -> AdminType],
         provisioner' \in [Provisioners -> {"idle", "insert", "heal", "drop"}],
         writes' \in 0..MaxWrites
  PROVE  AuthzInv'
<1>0. AuthzTypeOK
  BY DEF AuthzInv
<1>1. AgeInv' /\ OwnInv' /\ StampInv' /\ OfOK'
  BY WriteInv
<1>2. check' \in [Checks -> CheckType]
  BY <1>0, WriteChecks
<1>3. /\ perm' = P /\ others' = o /\ answer' = {}
      /\ heldAt' \in [BOOLEAN -> Time]
      /\ top' \in Time /\ raisedAt' \in Time /\ lowered' \in BOOLEAN
      /\ held' \subseteq BOOLEAN /\ own' \subseteq BOOLEAN
  BY <1>0, WriteType
<1>4. stamp' \in Cached(Time) /\ perm' \in SUBSET Row /\ others' \in Time
  BY <1>0, <1>3 DEF AuthzTypeOK, Cached
<1>5. /\ now' \in Time /\ rows' \in [Time -> Cached(BOOLEAN)]
      /\ answers' \in [Actions -> [Time -> Cached(BOOLEAN)]]
  BY <1>0 DEF AuthzTypeOK
<1>6. answer' \subseteq AnswerType
  BY <1>3
<1>7. AuthzTypeOK'
  BY <1>2, <1>3, <1>4, <1>5, <1>6 DEF AuthzTypeOK
<1> QED BY <1>1, <1>7 DEF AuthzInv

\* So does one that neither writes nor checks.
LEMMA QuietStep ==
  ASSUME AuthzInv, UNCHANGED <<now, database, caches, check, history>>, answer' = {},
         admin' \in [Admins -> AdminType],
         provisioner' \in [Provisioners -> {"idle", "insert", "heal", "drop"}],
         writes' \in 0..MaxWrites
  PROVE  AuthzInv'
<1>0. AuthzTypeOK
  BY DEF AuthzInv
<1>1. /\ UNCHANGED <<now, database, stamp, rows, answers, check, history>>
      /\ UNCHANGED <<perm, others, heldAt, top, raisedAt, lowered, held, own>>
  BY DEF database, caches, history
<1>2. AgeInv' /\ OwnInv' /\ StampInv' /\ OfOK'
  BY <1>1, QuietInv
<1>3. answer' \subseteq AnswerType
  OBVIOUS
<1>4. AuthzTypeOK'
  BY <1>0, <1>1, <1>3 DEF AuthzTypeOK
<1> QED BY <1>2, <1>4 DEF AuthzInv

\* One that drops entries.
LEMMA DropStep ==
  ASSUME AuthzInv, UNCHANGED <<now, database, check, heldAt, top, raisedAt, lowered, held, writes>>,
         answer' = {}, stamp' \in {stamp, {}},
         \/ invalidateBusinessCache /\ OwnFromNow
         \/ UNCHANGED <<rows, answers, own>>,
         admin' \in [Admins -> AdminType],
         provisioner' \in [Provisioners -> {"idle", "insert", "heal", "drop"}]
  PROVE  AuthzInv'
<1>0. AuthzTypeOK
  BY DEF AuthzInv
<1>1. UNCHANGED <<now, database, check, heldAt, top, raisedAt, lowered, held>>
  OBVIOUS
<1>2. /\ AgeInv' /\ OwnInv' /\ StampInv' /\ OfOK'
      /\ rows' \in [Time -> Cached(BOOLEAN)]
      /\ answers' \in [Actions -> [Time -> Cached(BOOLEAN)]]
      /\ own' \subseteq BOOLEAN
  BY <1>1, DropInv
<1>3. stamp' \in Cached(Time) /\ answer' \subseteq AnswerType
  BY <1>0 DEF AuthzTypeOK, Cached
<1>4. UNCHANGED <<now, perm, others, check, heldAt, top, raisedAt, lowered, held, writes>>
  BY DEF database
<1>5. AuthzTypeOK'
  BY <1>0, <1>2, <1>3, <1>4 DEF AuthzTypeOK
<1> QED BY <1>2, <1>5 DEF AuthzInv

\* One of a check.
LEMMA CheckStep ==
  ASSUME AuthzInv, NEW c \in Checks, checkBusiness(c) \/ authzVersion(c) \/ Fill(c)
  PROVE  AuthzInv'
<1>0. AuthzTypeOK
  BY DEF AuthzInv
<1>1. UNCHANGED <<now, perm, others, admin, provisioner, heldAt, top, raisedAt, lowered, held,
                  own, writes>>
  BY DEF checkBusiness, authzVersion, Fill, database, history
<1>2. /\ AgeInv' /\ OwnInv' /\ StampInv' /\ OfOK'
      /\ rows' \in [Time -> Cached(BOOLEAN)]
      /\ answers' \in [Actions -> [Time -> Cached(BOOLEAN)]]
      /\ check' \in [Checks -> CheckType]
      /\ answer' \subseteq AnswerType
  BY CheckBusinessInv, AuthzVersionInv, FillInv
<1>3. stamp' \in Cached(Time)
  <2>1. stamp' = stamp \/ authzVersion(c)
    BY DEF checkBusiness, Fill
  <2> QED BY <1>0, <2>1, AuthzVersionInv DEF AuthzTypeOK
<1>4. AuthzTypeOK'
  BY <1>0, <1>1, <1>2, <1>3 DEF AuthzTypeOK
<1> QED BY <1>2, <1>4 DEF AuthzInv

\* The rows that the calls write.
LEMMA RowsWritten ==
  ASSUME AuthzTypeOK
  PROVE  /\ {} \in SUBSET Row
         /\ \A g \in BOOLEAN, t \in Time : {[granted |-> g, updated |-> t]} \in SUBSET Row
         /\ {[r EXCEPT !.granted = TRUE] : r \in perm} \in SUBSET Row
<1>1. perm \in SUBSET Row
  BY DEF AuthzTypeOK
<1>2. \A r \in Row : [r EXCEPT !.granted = TRUE] \in Row
  BY DEF Row
<1> QED BY <1>1, <1>2 DEF Row

\* Every step keeps the invariant, whatever the order of the calls.
LEMMA AuthzInvStep == AuthzInv /\ [AuthzNext]_authzVars => AuthzInv'
<1> SUFFICES ASSUME AuthzInv, [AuthzNext]_authzVars PROVE AuthzInv'
  OBVIOUS
<1> USE AuthzAssumption, TimeNat
<1>0. /\ AuthzTypeOK
      /\ now \in Time /\ others \in Time /\ perm \in SUBSET Row
      /\ admin \in [Admins -> AdminType]
      /\ provisioner \in [Provisioners -> {"idle", "insert", "heal", "drop"}]
      /\ writes \in 0..MaxWrites
  BY DEF AuthzInv, AuthzTypeOK
<1>1. Begin => writes' \in 0..MaxWrites
  BY <1>0 DEF Begin
<1>2. CASE Tick
  BY <1>2, TickInv
<1>3. CASE \E c \in Checks : checkBusiness(c) \/ authzVersion(c) \/ Fill(c)
  BY <1>3, CheckStep
<1>4. ASSUME NEW a \in Admins, LookUp(a) \/ Create(a) \/ Conflict(a) \/ LookUpAgain(a) \/ Die(a)
      PROVE  AuthzInv'
  <2>1. admin' \in [Admins -> AdminType]
    BY <1>0, <1>4, AdminMoves
  <2>2. /\ UNCHANGED <<now, database, caches, check, history, provisioner>> /\ answer' = {}
        /\ Begin \/ writes' = writes
    BY <1>4 DEF LookUp, Create, Conflict, LookUpAgain, Die
  <2> QED BY <1>0, <1>1, <2>1, <2>2, QuietStep
<1>5. ASSUME NEW a \in Admins, Delete(a) \/ Commit(a)
      PROVE  AuthzInv'
  <2>1. admin' \in [Admins -> AdminType]
    BY <1>0, <1>5, AdminMoves
  <2>2. UNCHANGED <<now, stamp, rows, answers, provisioner, writes>>
    BY <1>5 DEF Delete, Commit, caches
  <2>3. \E P \in SUBSET Row : Write(P, others)
    <3>1. admin[a].time \in Time
      BY <1>0 DEF AdminType
    <3> QED BY <1>0, <1>5, <3>1, RowsWritten DEF Delete, Commit
  <2> QED BY <1>0, <2>1, <2>2, <2>3, WriterStep
<1>6. ASSUME NEW a \in Admins, DropAfterSet(a)
      PROVE  AuthzInv'
  <2>1. admin' \in [Admins -> AdminType]
    BY <1>0, <1>6, AdminMoves
  <2>2. /\ UNCHANGED <<now, database, check, heldAt, top, raisedAt, lowered, held, writes, provisioner>>
        /\ answer' = {}
        /\ stamp' \in {stamp, {}}
        /\ (invalidateBusinessCache /\ OwnFromNow) \/ UNCHANGED <<rows, answers, own>>
    BY <1>6 DEF DropAfterSet, caches
  <2> QED BY <1>0, <2>1, <2>2, DropStep
<1>7. ASSUME NEW p \in Provisioners, Provision(p)
      PROVE  AuthzInv'
  <2>1. /\ UNCHANGED <<now, database, caches, check, history, admin>> /\ answer' = {} /\ Begin
        /\ provisioner' \in [Provisioners -> {"idle", "insert", "heal", "drop"}]
    BY <1>0, <1>7 DEF Provision
  <2> QED BY <1>0, <1>1, <2>1, QuietStep
<1>8. ASSUME NEW p \in Provisioners, InsertRow(p) \/ HealRow(p)
      PROVE  AuthzInv'
  <2>1. /\ UNCHANGED <<now, caches, stamp, rows, answers, admin, writes>>
        /\ provisioner' \in [Provisioners -> {"idle", "insert", "heal", "drop"}]
    BY <1>0, <1>8 DEF InsertRow, HealRow, caches
  <2>2. CASE \E P \in SUBSET Row : Write(P, others)
    BY <1>0, <2>1, <2>2, WriterStep
  <2>3. CASE UNCHANGED <<database, check, history>> /\ answer' = {}
    BY <1>0, <2>1, <2>3, QuietStep
  <2>4. 0 \in Time /\ TRUE \in BOOLEAN
    OBVIOUS
  <2> QED BY <1>0, <1>8, <2>2, <2>3, <2>4, RowsWritten DEF InsertRow, HealRow
<1>9. ASSUME NEW p \in Provisioners, DropAfterProvision(p)
      PROVE  AuthzInv'
  <2>1. /\ UNCHANGED <<now, database, check, heldAt, top, raisedAt, lowered, held, writes, admin>>
        /\ answer' = {}
        /\ stamp' \in {stamp, {}}
        /\ (invalidateBusinessCache /\ OwnFromNow) \/ UNCHANGED <<rows, answers, own>>
        /\ provisioner' \in [Provisioners -> {"idle", "insert", "heal", "drop"}]
    BY <1>0, <1>9 DEF DropAfterProvision
  <2> QED BY <1>0, <2>1, DropStep
<1>10. CASE WriteOther
  <2>1. /\ Write(perm, now) /\ Begin /\ stamp' \in {stamp, {}}
        /\ UNCHANGED <<now, rows, answers, admin, provisioner>>
    BY <1>10 DEF WriteOther
  <2> QED BY <1>0, <1>1, <2>1, WriterStep
<1>11. CASE UNCHANGED authzVars
  <2>1. UNCHANGED <<now, perm, others, stamp, rows, answers, check, admin, provisioner, answer,
                    heldAt, top, raisedAt, lowered, held, own, writes>>
    BY <1>11 DEF authzVars, database, caches, calls, history
  <2>2. AuthzTypeOK'
    BY <1>0, <2>1 DEF AuthzTypeOK
  <2>3. AgeInv'
    BY <2>1 DEF AuthzInv, AgeInv, AnswersAgeOut
  <2>4. OwnInv'
    BY <2>1 DEF AuthzInv, OwnInv, OwnWriteIsSeen
  <2>5. StampInv'
    BY <2>1 DEF AuthzInv, StampInv, Kept, RaisedStampRetires
  <2> QED BY <2>1, <2>2, <2>3, <2>4, <2>5 DEF AuthzInv, OfOK
<1> QED BY <1>2, <1>3, <1>4, <1>5, <1>6, <1>7, <1>8, <1>9, <1>10, <1>11 DEF AuthzNext

\* It holds throughout.
LEMMA AuthzInvariant == AuthzSpec => []AuthzInv
<1> QED BY AuthzInitInv, AuthzInvStep, PTL DEF AuthzSpec

\* Rows, stamps, entries and calls keep their types.
THEOREM AuthzTypeInvariant == AuthzSpec => []AuthzTypeOK
<1>1. AuthzInv => AuthzTypeOK
  BY DEF AuthzInv
<1> QED BY <1>1, AuthzInvariant, PTL

\* No answer was last true longer ago than twice the life of an entry, whatever the
\* stamp does: an entry made from another stays as old as checkBusiness found it.
THEOREM AnswersAgeOutInvariant == AuthzSpec => []AnswersAgeOut
<1>1. AuthzInv => AnswersAgeOut
  BY DEF AuthzInv, AgeInv
<1> QED BY <1>1, AuthzInvariant, PTL

\* Once a raised stamp is in use everywhere, checkBusiness answers what was true at the
\* raise or since: nothing is kept under the greatest stamp that is older.
THEOREM RaisedStampRetiresInvariant == AuthzSpec => []RaisedStampRetires
<1>1. AuthzInv => RaisedStampRetires
  BY DEF AuthzInv, StampInv
<1> QED BY <1>1, AuthzInvariant, PTL

\* After invalidateBusinessCache an isolate answers what was true at its own write or
\* since, also if the stamp has not moved.
THEOREM OwnWriteIsSeenInvariant == AuthzSpec => []OwnWriteIsSeen
<1>1. AuthzInv => OwnWriteIsSeen
  BY DEF AuthzInv, OwnInv
<1> QED BY <1>1, AuthzInvariant, PTL

=============================================================================
