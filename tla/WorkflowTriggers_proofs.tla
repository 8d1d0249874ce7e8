----------------------- MODULE WorkflowTriggers_proofs -----------------------
(***************************************************************************)
(* Proofs about WorkflowTriggers and the Outbox it works with, for every   *)
(* definition of a workflow, every number of requests and of flushes, and  *)
(* every bound.                                                            *)
(***************************************************************************)
EXTENDS WorkflowTriggers, FiniteSetTheorems, TLAPS

-----------------------------------------------------------------------------
(* Types.                                                                  *)

LEMMA OutboxStart == OutboxInit => OutboxTypeOK
<1> USE OutboxAssumption DEF Ids, Stored
<1> SUFFICES ASSUME OutboxInit PROVE OutboxTypeOK
  OBVIOUS
<1>1. rows \in [Ids -> [key : Keys \cup {NoKey}, status : Stored \cup {"none", "gone"}, attempts : Nat]]
  BY DEF OutboxInit, Row
<1>2. flush \in [Flushers -> [todo : SUBSET [id : Ids, attempts : Nat],
                              at : {"idle", "execute", "succeeded", "unrecorded", "failed"}]]
  BY DEF OutboxInit, Idle
<1>3. made \in 0..MaxRows /\ mishaps \in 0..MaxMishaps
  BY DEF OutboxInit
<1>4. torn \in BOOLEAN
  BY Zenon DEF OutboxInit
<1>5. fired \in [Ids -> 0..2] /\ dlq \subseteq Ids
  BY DEF OutboxInit
<1> QED
  BY <1>1, <1>2, <1>3, <1>4, <1>5, Zenon DEF OutboxTypeOK

\* A producer stores a row or none.
LEMMA EnqueueTypes ==
  ASSUME OutboxTypeOK, NEW k \in Keys \cup {NoKey},
         Enqueue(k) \/ UNCHANGED <<rows, made>>,
         UNCHANGED <<dlq, flush, fired, torn, mishaps>>
  PROVE  OutboxTypeOK'
<1> USE OutboxAssumption DEF Ids, Stored
<1>1. CASE rows' = rows /\ made' = made
  BY <1>1 DEF OutboxTypeOK
<1>2. CASE /\ made < MaxRows
           /\ made' = made + 1
           /\ rows' = [rows EXCEPT ![made + 1] = Row(k, "pending", 0)]
  <2>1. rows' \in [Ids -> [key : Keys \cup {NoKey}, status : Stored \cup {"none", "gone"}, attempts : Nat]]
    BY <1>2 DEF OutboxTypeOK, Row
  <2> QED
    BY <1>2, <2>1 DEF OutboxTypeOK
<1> QED
  BY <1>1, <1>2 DEF Enqueue

\* The steps of the outbox keep its types.
LEMMA OutboxTypes ==
  ASSUME OutboxTypeOK,
         Post \/ PruneDone \/ (\E f \in Flushers : FlushStep(f))
  PROVE  OutboxTypeOK'
<1> USE OutboxAssumption DEF Ids, Stored
<1>1. CASE Post
  BY <1>1, EnqueueTypes DEF Post
<1>2. CASE PruneDone
  BY <1>2 DEF PruneDone, OutboxTypeOK, Row
<1>3. ASSUME NEW f \in Flushers, FlushStep(f) PROVE OutboxTypeOK'
  <2>1. CASE SelectDue(f)
    <3>1. Due \subseteq Ids
      BY DEF Due, Pending
    <3>2. {[id |-> i, attempts |-> rows[i].attempts] : i \in Due}
            \in SUBSET [id : Ids, attempts : Nat]
      BY <3>1 DEF OutboxTypeOK
    <3> QED
      BY <2>1, <3>2 DEF SelectDue, OutboxTypeOK
  <2>2. CASE Execute(f)
    <3>1. PICK e \in flush[f].todo :
            \/ At(f, "succeeded") /\ fired' = [fired EXCEPT ![e.id] = IF @ < 2 THEN @ + 1 ELSE 2]
            \/ At(f, "failed") /\ UNCHANGED fired
      BY <2>2 DEF Execute
    <3>2. e.id \in Ids /\ fired[e.id] \in 0..2
      BY DEF OutboxTypeOK
    <3>3. fired' \in [Ids -> 0..2]
      <4>1. PICK n \in 0..2 : fired' = [fired EXCEPT ![e.id] = n]
        BY <3>1, <3>2 DEF OutboxTypeOK
      <4> QED
        BY <3>2, <4>1 DEF OutboxTypeOK
    <3>4. PICK st \in {"succeeded", "failed"} : At(f, st)
      BY <3>1
    <3>5. flush' \in [Flushers -> [todo : SUBSET [id : Ids, attempts : Nat],
                                  at : {"idle", "execute", "succeeded", "unrecorded", "failed"}]]
      BY <3>4 DEF OutboxTypeOK, At
    <3> QED
      BY <2>2, <3>3, <3>5 DEF Execute, OutboxTypeOK
  <2>3. CASE MarkDone(f)
    BY <2>3 DEF MarkDone, OutboxTypeOK, Written, Row, Advance
  <2>4. CASE MarkDoneErrs(f)
    BY <2>4 DEF MarkDoneErrs, OutboxTypeOK, At, Mishap
  <2>5. CASE MarkFailed(f)
    <3>1. PICK e \in flush[f].todo :
            /\ IsHead(f, e)
            /\ IF e.attempts + 1 < MaxAttempts
               THEN rows' = Written(e.id, "failed", e.attempts + 1) /\ UNCHANGED dlq
               ELSE rows' = Written(e.id, "gone", e.attempts + 1) /\ dlq' = dlq \cup {e.id}
            /\ Advance(f, e)
      BY <2>5 DEF MarkFailed
    <3>2. e.id \in Ids /\ e.attempts \in Nat
      BY DEF OutboxTypeOK
    <3>3. PICK n \in Nat, st \in {"failed", "gone"} : rows' = Written(e.id, st, n)
      BY <3>1, <3>2
    <3>4. rows' \in [Ids -> [key : Keys \cup {NoKey}, status : Stored \cup {"none", "gone"},
                             attempts : Nat]]
      BY <3>2, <3>3 DEF OutboxTypeOK, Written, Row
    <3>5. dlq' \subseteq Ids
      BY <3>1, <3>2 DEF OutboxTypeOK
    <3>6. flush' \in [Flushers -> [todo : SUBSET [id : Ids, attempts : Nat],
                                  at : {"idle", "execute", "succeeded", "unrecorded", "failed"}]]
      BY <3>1 DEF OutboxTypeOK, Advance
    <3> QED
      BY <2>5, <3>4, <3>5, <3>6 DEF MarkFailed, OutboxTypeOK
  <2>6. CASE FlushDies(f)
    BY <2>6 DEF FlushDies, OutboxTypeOK, Idle, Mishap
  <2> QED
    BY <1>3, <2>1, <2>2, <2>3, <2>4, <2>5, <2>6 DEF FlushStep
<1> QED
  BY <1>1, <1>2, <1>3

\* The steps of a request keep everybody's types.
LEMMA RequestTypes ==
  ASSUME TypeOK, NEW r \in Requests, RequestStep(r)
  PROVE  TypeOK'
<1> USE WorkflowAssumption DEF Steps
<1> DEFINE ReqOK(q) == /\ q \in [Requests -> [move : Transitions \cup {<<>>}, at : Steps]]
                       /\ \A p \in Requests : q[p].at # "idle" => q[p].move \in Transitions
           Rest == /\ state \in States \cup {NoState}
                   /\ trail \in Seq(Transitions)
                   /\ field \in States \cup {NoState}
                   /\ doc \in DocStatuses
                   /\ moved \in Seq(Transitions)
                   /\ lost \subseteq Transitions
<1>1. ReqOK(req) /\ Rest /\ OutboxTypeOK /\ calls \in 0..MaxMoves /\ logged \in BOOLEAN /\ neat \in BOOLEAN
  BY DEF TypeOK
<1>2. ASSUME NEW step \in Steps, req[r].at # "idle", Goto(r, step) PROVE ReqOK(req')
  BY <1>1, <1>2 DEF Goto
<1>3. req[r].at # "idle" => From(r) \in States /\ To(r) \in States
  BY <1>1 DEF From, To
<1>4. ASSUME UNCHANGED outboxVars PROVE OutboxTypeOK'
  BY <1>1, <1>4 DEF outboxVars, OutboxTypeOK
<1>5. ASSUME Mishap, UNCHANGED <<rows, dlq, made, flush, fired, torn>> PROVE OutboxTypeOK'
  BY <1>1, <1>5, OutboxAssumption DEF Mishap, OutboxTypeOK
<1>6. CASE Begin(r)
  <2>1. PICK t \in Transitions : req' = [req EXCEPT ![r] = [move |-> t, at |-> "checked"]]
    BY <1>6 DEF Begin
  <2>2. ReqOK(req')
    BY <1>1, <2>1
  <2>3. calls' \in 0..MaxMoves
    BY <1>1, <1>6 DEF Begin
  <2>4. neat' \in BOOLEAN
    BY <1>6, Zenon DEF Begin
  <2> HIDE DEF ReqOK
  <2> QED
    BY <1>1, <1>4, <1>6, <2>2, <2>3, <2>4 DEF Begin, TypeOK, ReqOK
<1>7. CASE Refuse(r) \/ Conflict(r)
  <2>1. ReqOK(req')
    BY <1>2, <1>7 DEF Refuse, Conflict
  <2> QED
    BY <1>1, <1>4, <1>7, <2>1 DEF Refuse, Conflict, TypeOK
<1>8. CASE Commit(r)
  <2>1. ReqOK(req')
    BY <1>2, <1>8 DEF Commit
  <2>2. state' \in States /\ moved' \in Seq(Transitions)
    BY <1>1, <1>3, <1>8 DEF Commit
  <2> QED
    BY <1>1, <1>4, <1>8, <2>1, <2>2 DEF Commit, TypeOK
<1>9. CASE LogHistory(r)
  <2>1. ReqOK(req')
    BY <1>2, <1>9 DEF LogHistory
  <2>2. trail' \in Seq(Transitions)
    BY <1>1, <1>9 DEF LogHistory
  <2> QED
    BY <1>1, <1>4, <1>9, <2>1, <2>2 DEF LogHistory, TypeOK
<1>10. CASE SyncStatus(r)
  <2>1. ReqOK(req')
    BY <1>2, <1>10 DEF SyncStatus
  <2>2. doc' \in DocStatuses
    BY <1>1, <1>3, <1>10 DEF SyncStatus, Mapped
  <2> QED
    BY <1>1, <1>4, <1>10, <2>1, <2>2 DEF SyncStatus, TypeOK
<1>11. CASE SyncField(r)
  <2>1. ReqOK(req')
    BY <1>2, <1>11 DEF SyncField
  <2> QED
    BY <1>1, <1>3, <1>4, <1>11, <2>1 DEF SyncField, TypeOK
<1>12. CASE SyncErrs(r)
  <2>1. ReqOK(req')
    BY <1>2, <1>12 DEF SyncErrs
  <2> QED
    BY <1>1, <1>5, <1>12, <2>1 DEF SyncErrs, TypeOK
<1>13. CASE Trigger(r)
  <2>1. ReqOK(req')
    BY <1>2, <1>13 DEF Trigger
  <2>2. OutboxTypeOK'
    BY <1>1, <1>13, EnqueueTypes DEF Trigger
  <2> QED
    BY <1>1, <1>13, <2>1, <2>2 DEF Trigger, TypeOK
<1>14. CASE Die(r)
  <2>1. ReqOK(req')
    BY <1>2, <1>14 DEF Die
  <2>2. logged' \in BOOLEAN /\ neat' \in BOOLEAN /\ lost' \subseteq Transitions
    BY <1>1, <1>14 DEF Die
  <2> QED
    BY <1>1, <1>5, <1>14, <2>1, <2>2 DEF Die, TypeOK
<1> QED
  BY <1>6, <1>7, <1>8, <1>9, <1>10, <1>11, <1>12, <1>13, <1>14 DEF RequestStep

\* Type correctness: state, mirrors and history hold declared states and
\* transitions, whatever requests and flushes do (TypeOK).
THEOREM TypeCorrect == Spec => []TypeOK
<1>1. Init => TypeOK
  <2> SUFFICES ASSUME Init PROVE TypeOK
    OBVIOUS
  <2>1. logged \in BOOLEAN /\ neat \in BOOLEAN /\ lost \subseteq Transitions
    BY Zenon DEF Init
  <2>2. trail \in Seq(Transitions) /\ moved \in Seq(Transitions)
    BY DEF Init
  <2>3. req \in [Requests -> [move : Transitions \cup {<<>>}, at : Steps]]
    BY DEF Init, Steps
  <2>4. \A r \in Requests : req[r].at # "idle" => req[r].move \in Transitions
    BY DEF Init
  <2>5. calls \in 0..MaxMoves
    BY WorkflowAssumption DEF Init
  <2> QED
    BY <2>1, <2>2, <2>3, <2>4, <2>5, OutboxStart DEF Init, TypeOK, DocStatuses
<1>2. TypeOK /\ [Next]_vars => TypeOK'
  <2> SUFFICES ASSUME TypeOK, [Next]_vars PROVE TypeOK'
    OBVIOUS
  <2>1. CASE /\ Post \/ PruneDone \/ \E f \in Flushers : FlushStep(f)
             /\ UNCHANGED flowVars
    BY <2>1, OutboxTypes DEF TypeOK, flowVars
  <2>2. CASE \E r \in Requests : RequestStep(r)
    BY <2>2, RequestTypes
  <2>3. CASE UNCHANGED vars
    BY <2>3 DEF vars, outboxVars, TypeOK, OutboxTypeOK
  <2> QED
    BY <2>1, <2>2, <2>3, Zenon DEF Next
<1> QED
  BY <1>1, <1>2, PTL DEF Spec

-----------------------------------------------------------------------------
(* The document's moves.                                                   *)

\* While nothing has been committed every request decided on the initial state.
PathInv ==
    /\ MovesFormAPath
    /\ state = NoState <=> moved = <<>>
    /\ state = NoState => \A r \in Requests : req[r].at = "checked" => From(r) = Initial

LEMMA PathStep ==
  ASSUME TypeOK, PathInv, [Next]_vars
  PROVE  PathInv'
<1> USE WorkflowAssumption DEF PathInv, MovesFormAPath, Current
<1>1. CASE UNCHANGED flowVars
  BY <1>1 DEF flowVars, From
<1>2. ASSUME NEW r \in Requests, RequestStep(r) PROVE PathInv'
  <2> USE DEF From, Goto, TypeOK
  <2>1. CASE Begin(r)
    BY <1>2, <2>1 DEF Begin
  <2>2. CASE Commit(r)
    <3>1. req[r].move \in States \X States
      BY <2>2 DEF Commit
    <3>2. From(r) = Current
      BY <1>2, <2>2 DEF Commit
    <3>3. state' = To(r) /\ To(r) \in States /\ moved' = Append(moved, req[r].move)
      BY <2>2, <3>1 DEF Commit, To
    <3>4. Len(moved') = Len(moved) + 1 /\ moved'[Len(moved) + 1] = req[r].move
      BY <3>3
    <3>5. \A i \in 1..Len(moved) : moved'[i] = moved[i]
      BY <3>3
    <3>6. Current' = moved'[Len(moved')][2] /\ moved' # <<>> /\ state' # NoState
      BY <3>3, <3>4 DEF To
    <3>7. ASSUME NEW i \in 1..Len(moved') PROVE moved'[i][1] = IF i = 1 THEN Initial ELSE moved'[i - 1][2]
      <4> HIDE WorkflowAssumption
      <4>1. CASE i \in 1..Len(moved)
        <5>1. i = 1 \/ i - 1 \in 1..Len(moved)
          BY <4>1
        <5>2. moved[i][1] = IF i = 1 THEN Initial ELSE moved[i - 1][2]
          BY <4>1
        <5> QED
          BY <3>5, <4>1, <5>1, <5>2
      <4>2. CASE i = Len(moved) + 1
        BY <3>2, <3>4, <3>5, <4>2
      <4> QED
        BY <3>4, <4>1, <4>2
    <3> QED
      BY <3>6, <3>7
  <2>3. CASE ~Begin(r) /\ ~Commit(r)
    <3>1. UNCHANGED <<state, moved>>
      BY <1>2, <2>3 DEF RequestStep, Refuse, Conflict, LogHistory, SyncStatus, SyncField, SyncErrs, Trigger, Die
    <3>2. \E step \in Steps \ {"checked"} : Goto(r, step)
      BY <1>2, <2>3 DEF RequestStep, Refuse, Conflict, LogHistory, SyncStatus, SyncField, SyncErrs, Trigger, Die, Steps
    <3>3. \A q \in Requests : req'[q].at = "checked" => req'[q] = req[q]
      BY <3>2
    <3> QED
      BY <3>1, <3>3
  <2> QED
    BY <2>1, <2>2, <2>3
<1> QED
  BY <1>1, <1>2 DEF Next, vars, flowVars

\* However requests overlap, the committed transitions are declared ones and
\* form a path from the initial state to the current one (MovesFormAPath).
THEOREM MovesAreAPath == Spec => []MovesFormAPath
<1>1. Init => PathInv
  BY WorkflowAssumption DEF Init, PathInv, MovesFormAPath, Current
<1>2. PathInv => MovesFormAPath
  BY DEF PathInv
<1> QED
  BY <1>1, <1>2, PathStep, TypeCorrect, PTL DEF Spec
-----------------------------------------------------------------------------
(* The mirrors of the state.                                               *)

\* Along tells, for each state, the doc_statuses a document may have in it: from each
\* of them the document can follow every transition of the workflow.
Follows(Along) ==
    /\ "draft" \in Along[Initial]
    /\ \A t \in Transitions : \A d \in Along[t[1]] :
         LET s == StatusMap[t[2]]
         IN  IF Mapped(t[2]) THEN (<<d, s>> \in StatusMoves \/ d = s) /\ s \in Along[t[2]]
             ELSE d \in Along[t[2]]

\* The status machine never refuses what the definition maps a transition to.
MapIsFollowed == \E Along \in [States -> SUBSET DocStatuses] : Follows(Along)

StatusFollows(s) == Mapped(s) => doc = StatusMap[s]

\* What the mirrors are when no request is past its commit.
Settled(Along) ==
    /\ field = state
    /\ doc \in Along[Current]
    /\ state # NoState => StatusFollows(state)

\* Where the only request is, and what it has not mirrored yet.
MirrorInv(Along) ==
    neat =>
      /\ \A q, r \in Requests : req[q].at # "idle" /\ req[r].at # "idle" => q = r
      /\ (\A r \in Requests : req[r].at \in {"idle", "checked"}) => Settled(Along)
      /\ \A r \in Requests :
           /\ req[r].at = "checked" => From(r) = Current
           /\ req[r].at \in {"log", "status"} => state = To(r) /\ doc \in Along[From(r)]
           /\ req[r].at = "field" => state = To(r) /\ doc \in Along[state] /\ StatusFollows(state)
           /\ req[r].at = "trigger" => Settled(Along)

\* A step of the only request settles what it says.
LEMMA MirrorStep ==
  ASSUME NEW Along \in [States -> SUBSET DocStatuses], Follows(Along),
         TypeOK, MirrorInv(Along), [Next]_vars
  PROVE  MirrorInv(Along)'
<1> USE WorkflowAssumption
<1>0. /\ req \in [Requests -> [move : Transitions \cup {<<>>}, at : Steps]]
      /\ \A r \in Requests : req[r].at # "idle" => req[r].move \in Transitions
      /\ state \in States \cup {NoState}
  BY DEF TypeOK
<1>1. CASE UNCHANGED flowVars
  BY <1>1 DEF flowVars, MirrorInv, Settled, StatusFollows, Current, From, To
<1>2. ASSUME NEW r \in Requests, RequestStep(r) PROVE MirrorInv(Along)'
  <2> SUFFICES ASSUME neat' PROVE MirrorInv(Along)'
    BY DEF MirrorInv
  <2>0. neat
    BY <1>2 DEF RequestStep, Begin, Refuse, Commit, Conflict, LogHistory, SyncStatus, SyncField,
                SyncErrs, Trigger, Die
  <2>1. ASSUME NEW step \in Steps, Goto(r, step), req[r].at # "idle"
        PROVE  /\ req'[r].at = step
               /\ step # "idle" => From(r)' = From(r) /\ To(r)' = To(r)
               /\ \A q \in Requests : q # r => req[q].at = "idle" /\ req'[q].at = "idle"
    <3>1. \A q \in Requests : q # r => req[q].at = "idle"
      BY <2>0, <2>1 DEF MirrorInv
    <3> QED BY <1>0, <2>1, <3>1 DEF Goto, From, To
  <2>2. req[r].at # "idle" =>
          /\ req[r].move \in Transitions /\ req[r].move = <<From(r), To(r)>>
          /\ From(r) \in States /\ To(r) \in States /\ To(r) # NoState
    BY <1>0 DEF From, To
  <2>3. CASE Begin(r)
    <3>1. \A q \in Requests : req[q].at = "idle"
      BY <2>3 DEF Begin
    <3>2. PICK to \in States : req' = [req EXCEPT ![r] = [move |-> <<Current, to>>, at |-> "checked"]]
      BY <2>3 DEF Begin
    <3>3. /\ req'[r].at = "checked" /\ req'[r].move = <<Current, to>>
          /\ \A q \in Requests : q # r => req'[q].at = "idle"
      BY <1>0, <3>1, <3>2
    <3>4. Settled(Along) /\ Settled(Along)' /\ Current' = Current
      BY <2>0, <2>3, <3>1 DEF MirrorInv, Begin, Settled, StatusFollows, Current
    <3>5. From(r)' = Current'
      BY <3>3, <3>4 DEF From
    <3> QED BY <3>3, <3>4, <3>5 DEF MirrorInv
  <2>4. CASE Refuse(r) \/ Conflict(r)
    <3>1. req[r].at = "checked" /\ Goto(r, "idle") /\ UNCHANGED <<state, field, doc>>
      BY <2>4 DEF Refuse, Conflict
    <3>2. req'[r].at = "idle" /\ \A q \in Requests : q # r => req[q].at = "idle" /\ req'[q].at = "idle"
      BY <2>1, <3>1 DEF Steps
    <3>3. Settled(Along)
      BY <2>0, <3>1, <3>2 DEF MirrorInv
    <3>4. Settled(Along)'
      BY <3>1, <3>3 DEF Settled, StatusFollows, Current
    <3> QED BY <3>2, <3>4 DEF MirrorInv
  <2>5. CASE Commit(r)
    <3>1. req[r].at = "checked" /\ Goto(r, "log") /\ state' = To(r) /\ UNCHANGED doc
      BY <2>5 DEF Commit
    <3>2. /\ req'[r].at = "log" /\ From(r)' = From(r) /\ To(r)' = To(r)
          /\ \A q \in Requests : q # r => req[q].at = "idle" /\ req'[q].at = "idle"
      BY <2>1, <3>1 DEF Steps
    <3>3. Settled(Along) /\ From(r) = Current
      BY <2>0, <3>1, <3>2 DEF MirrorInv
    <3>4. doc' \in Along[From(r)']
      BY <3>1, <3>2, <3>3 DEF Settled
    <3> QED BY <3>1, <3>2, <3>4 DEF MirrorInv
  <2>6. CASE LogHistory(r)
    <3>1. req[r].at = "log" /\ Goto(r, "status") /\ UNCHANGED <<state, doc>>
      BY <2>6 DEF LogHistory
    <3>2. /\ req'[r].at = "status" /\ From(r)' = From(r) /\ To(r)' = To(r)
          /\ \A q \in Requests : q # r => req[q].at = "idle" /\ req'[q].at = "idle"
      BY <2>1, <3>1 DEF Steps
    <3> QED BY <2>0, <3>1, <3>2 DEF MirrorInv
  <2>7. CASE SyncStatus(r)
    <3>1. /\ req[r].at = "status" /\ Goto(r, "field") /\ UNCHANGED state
          /\ doc' = IF Mapped(To(r)) /\ <<doc, StatusMap[To(r)]>> \in StatusMoves
                    THEN StatusMap[To(r)] ELSE doc
      BY <2>7 DEF SyncStatus
    <3>2. /\ req'[r].at = "field" /\ To(r)' = To(r)
          /\ \A q \in Requests : q # r => req[q].at = "idle" /\ req'[q].at = "idle"
      BY <2>1, <3>1 DEF Steps
    <3>3. state = To(r) /\ doc \in Along[From(r)]
      BY <2>0, <3>1 DEF MirrorInv
    <3>4. /\ Mapped(To(r)) =>
               /\ <<doc, StatusMap[To(r)]>> \in StatusMoves \/ doc = StatusMap[To(r)]
               /\ StatusMap[To(r)] \in Along[To(r)]
          /\ ~Mapped(To(r)) => doc \in Along[To(r)]
      BY <2>2, <3>1, <3>3 DEF Follows, From, To
    <3>5. doc' \in Along[To(r)] /\ (Mapped(To(r)) => doc' = StatusMap[To(r)])
      BY <3>1, <3>4
    <3>6. doc' \in Along[state'] /\ StatusFollows(state)'
      BY <3>1, <3>3, <3>5 DEF StatusFollows, Mapped
    <3> QED BY <3>1, <3>2, <3>3, <3>6 DEF MirrorInv
  <2>8. CASE SyncField(r)
    <3>1. req[r].at = "field" /\ Goto(r, "trigger") /\ UNCHANGED <<state, doc>> /\ field' = To(r)
      BY <2>8 DEF SyncField
    <3>2. /\ req'[r].at = "trigger"
          /\ \A q \in Requests : q # r => req[q].at = "idle" /\ req'[q].at = "idle"
      BY <2>1, <3>1 DEF Steps
    <3>3. state = To(r) /\ doc \in Along[state] /\ StatusFollows(state)
      BY <2>0, <3>1 DEF MirrorInv
    <3>4. Settled(Along)'
      BY <2>2, <3>1, <3>3 DEF Settled, StatusFollows, Current
    <3> QED BY <3>2, <3>4 DEF MirrorInv
  <2>9. CASE Trigger(r)
    <3>1. req[r].at = "trigger" /\ Goto(r, "idle") /\ UNCHANGED <<state, doc, field>>
      BY <2>9 DEF Trigger
    <3>2. req'[r].at = "idle" /\ \A q \in Requests : q # r => req[q].at = "idle" /\ req'[q].at = "idle"
      BY <2>1, <3>1 DEF Steps
    <3>3. Settled(Along)
      BY <2>0, <3>1 DEF MirrorInv
    <3>4. Settled(Along)'
      BY <3>1, <3>3 DEF Settled, StatusFollows, Current
    <3> QED BY <3>2, <3>4 DEF MirrorInv
  <2>10. ~SyncErrs(r) /\ ~Die(r)
    BY DEF SyncErrs, Die
  <2> QED
    BY <1>2, <2>3, <2>4, <2>5, <2>6, <2>7, <2>8, <2>9, <2>10 DEF RequestStep
<1> QED
  BY <1>1, <1>2 DEF Next, vars, flowVars

\* Until requests overlap, die or fail to sync, at rest the state_field is the state
\* and the doc_status what it maps to (engine.ts:205-229), for every definition whose
\* map the status machine follows.
THEOREM MirrorsAgree == MapIsFollowed => (Spec => []MirrorsFollow)
<1>1. ASSUME NEW Along \in [States -> SUBSET DocStatuses], Follows(Along)
      PROVE  Spec => []MirrorsFollow
  <2>1. Init => MirrorInv(Along)
    BY <1>1 DEF Init, MirrorInv, Settled, Current, Follows
  <2>2. MirrorInv(Along) => MirrorsFollow
    BY DEF MirrorInv, Settled, StatusFollows, MirrorsFollow
  <2>3. TypeOK /\ MirrorInv(Along) /\ [Next]_vars => MirrorInv(Along)'
    BY <1>1, MirrorStep
  <2> QED
    BY <2>1, <2>2, <2>3, TypeCorrect, PTL DEF Spec
<1> QED
  BY <1>1 DEF MapIsFollowed

-----------------------------------------------------------------------------
(* The effects of the outbox.                                              *)

Recorded(f) == flush[f].at \in {"succeeded", "unrecorded"}

\* Rows not inserted yet have had no effect, and rows without an attempt are the
\* only ones in the queue; as long as nothing is torn, one flush works at a time,
\* and the effect of a row that is still pending, or of one still to be executed,
\* has not landed, but for the one that is just being recorded.
FiredInv ==
    /\ \A i \in Ids : i > made => rows[i].status = "none" /\ fired[i] = 0
    /\ \A i \in Ids : rows[i].status = "pending" => rows[i].attempts = 0
    /\ \A f \in Flushers : \A e \in flush[f].todo : e.attempts = 0 /\ e.id <= made
    /\ \A f \in Flushers : flush[f].at = "idle" <=> flush[f].todo = {}
    /\ ~torn =>
         /\ \A f, g \in Flushers : flush[f].at # "idle" /\ flush[g].at # "idle" => f = g
         /\ \A i \in Ids : fired[i] <= 1
         /\ \A i \in Ids : rows[i].status = "pending" /\ fired[i] > 0 =>
              \E f \in Flushers : Recorded(f) /\ \E e \in flush[f].todo : e.id = i /\ IsHead(f, e)
         /\ \A f \in Flushers : \A e \in flush[f].todo :
              (Recorded(f) /\ IsHead(f, e)) \/ fired[e.id] = 0

LEMMA FiredStart == Init => FiredInv
BY DEF Init, OutboxInit, FiredInv, Row, Idle, Recorded, IsHead

\* A new row is pending without an attempt, and has had no effect.
LEMMA EnqueueFires ==
  ASSUME OutboxTypeOK, FiredInv, NEW k \in Keys \cup {NoKey},
         Enqueue(k) \/ UNCHANGED <<rows, made>>,
         UNCHANGED <<dlq, flush, fired, torn>>
  PROVE  FiredInv'
<1> USE OutboxAssumption DEF Ids
<1>1. CASE UNCHANGED <<rows, made>>
  BY <1>1 DEF FiredInv, Recorded, IsHead
<1>2. CASE /\ made < MaxRows
           /\ made' = made + 1
           /\ rows' = [rows EXCEPT ![made + 1] = Row(k, "pending", 0)]
  <2>1. made \in Nat /\ made + 1 \in Ids
    BY <1>2 DEF OutboxTypeOK
  <2>2. \A i \in Ids : rows'[i] = IF i = made + 1 THEN Row(k, "pending", 0) ELSE rows[i]
    BY <1>2 DEF OutboxTypeOK
  <2>3. fired[made + 1] = 0
    BY <2>1 DEF FiredInv
  <2> QED
    BY <1>2, <2>1, <2>2, <2>3 DEF FiredInv, Recorded, IsHead, Row, OutboxTypeOK
<1> QED
  BY <1>1, <1>2 DEF Enqueue

LEMMA PruneFires ==
  ASSUME OutboxTypeOK, FiredInv, PruneDone
  PROVE  FiredInv'
<1>1. PICK i \in Ids : rows[i].status = "done" /\ rows' = [rows EXCEPT ![i] = Row(@.key, "gone", @.attempts)]
  BY DEF PruneDone
<1>2. \A j \in Ids : rows'[j].status = (IF j = i THEN "gone" ELSE rows[j].status) /\ rows'[j].attempts = rows[j].attempts
  BY <1>1 DEF OutboxTypeOK, Row
<1>3. UNCHANGED <<made, flush, fired, torn>>
  BY DEF PruneDone
<1> QED
  BY <1>1, <1>2, <1>3 DEF FiredInv, Recorded, IsHead

\* Two entries of a flush with the same id are the same entry.
LEMMA OneEntry ==
  ASSUME OutboxTypeOK, FiredInv, NEW f \in Flushers,
         NEW d \in flush[f].todo, NEW e \in flush[f].todo, d.id = e.id
  PROVE  d = e
<1>1. d \in [id : Ids, attempts : Nat] /\ e \in [id : Ids, attempts : Nat]
  BY DEF OutboxTypeOK
<1>2. d.attempts = e.attempts
  BY DEF FiredInv
<1> QED
  BY <1>1, <1>2

\* The row at the head of a flush leaves the queue.
LEMMA HeadLeaves ==
  ASSUME OutboxTypeOK, FiredInv, NEW f \in Flushers, NEW e \in flush[f].todo,
         IsHead(f, e), Recorded(f) \/ flush[f].at = "failed",
         NEW st \in {"done", "failed", "gone"}, NEW n \in Nat,
         rows' = Written(e.id, st, n), Advance(f, e), UNCHANGED <<made, fired, torn>>
  PROVE  FiredInv'
<1> USE DEF Stored
<1>1. e.id \in Ids
  BY DEF OutboxTypeOK
<1>2. \A i \in Ids : rows'[i].status = "pending" =>
        i # e.id /\ rows[i].status = "pending" /\ rows'[i].attempts = rows[i].attempts
  BY <1>1 DEF OutboxTypeOK, Written, Row
<1>3. \A i \in Ids : i > made => rows'[i].status = "none" /\ fired'[i] = 0
  BY <1>1 DEF OutboxTypeOK, FiredInv, Written, Row
<1>4. flush'[f].todo = flush[f].todo \ {e} /\ flush'[f].at = IF flush'[f].todo = {} THEN "idle" ELSE "execute"
  BY DEF OutboxTypeOK, Advance
<1>5. \A g \in Flushers : g # f => flush'[g] = flush[g]
  BY DEF OutboxTypeOK, Advance
<1>6. \A g \in Flushers : \A d \in flush'[g].todo : d \in flush[g].todo
  BY <1>4, <1>5
<1>7. flush[f].at # "idle"
  BY DEF Recorded
<1>8. ASSUME ~torn
      PROVE  /\ \A i \in Ids : rows'[i].status = "pending" => fired[i] = 0
             /\ \A g \in Flushers : \A d \in flush'[g].todo : fired[d.id] = 0
             /\ \A g \in Flushers : flush'[g].at # "idle" => g = f
  <2>1. \A g \in Flushers : flush[g].at # "idle" => g = f
    BY <1>7, <1>8 DEF FiredInv
  <2>2. \A g \in Flushers : g # f => flush[g].todo = {} /\ flush'[g] = flush[g]
    BY <1>5, <2>1 DEF FiredInv
  <2>3. ASSUME NEW i \in Ids, rows'[i].status = "pending" PROVE fired[i] = 0
    <3>1. i # e.id /\ rows[i].status = "pending"
      BY <1>2, <2>3
    <3>2. ASSUME fired[i] > 0 PROVE FALSE
      <4>1. PICK g \in Flushers : Recorded(g) /\ \E d \in flush[g].todo : d.id = i /\ IsHead(g, d)
        BY <1>8, <3>1, <3>2 DEF FiredInv
      <4>2. g = f
        BY <2>1, <4>1 DEF Recorded
      <4>3. PICK d \in flush[f].todo : d.id = i /\ IsHead(f, d)
        BY <4>1, <4>2
      <4>4. d.id <= e.id /\ e.id <= d.id /\ d.id \in Nat /\ e.id \in Nat
        BY <4>3 DEF IsHead, OutboxTypeOK, Ids
      <4> QED
        BY <3>1, <4>3, <4>4
    <3> QED
      BY <3>2 DEF OutboxTypeOK
  <2>4. ASSUME NEW d \in flush'[f].todo PROVE fired[d.id] = 0
    <3>1. d \in flush[f].todo /\ d # e
      BY <1>4, <2>4
    <3>2. d.id # e.id
      BY <3>1, OneEntry
    <3>3. ~IsHead(f, d)
      <4> SUFFICES ASSUME IsHead(f, d) PROVE FALSE
        OBVIOUS
      <4>1. d.id <= e.id /\ e.id <= d.id /\ d.id \in Nat /\ e.id \in Nat
        BY <3>1 DEF IsHead, OutboxTypeOK, Ids
      <4> QED
        BY <3>2, <4>1
    <3> QED
      BY <1>8, <3>1, <3>3 DEF FiredInv
  <2> QED
    BY <2>1, <2>2, <2>3, <2>4
<1>9. \A g \in Flushers : flush'[g].at = "idle" <=> flush'[g].todo = {}
  BY <1>4, <1>5 DEF FiredInv
<1>10. \A g \in Flushers : \A d \in flush'[g].todo : d.attempts = 0 /\ d.id <= made'
  BY <1>6 DEF FiredInv
<1>11. \A i \in Ids : rows'[i].status = "pending" => rows'[i].attempts = 0
  BY <1>2 DEF FiredInv
<1>12. ~torn => \A i \in Ids : fired[i] <= 1
  BY DEF FiredInv
<1> QED
  BY <1>3, <1>8, <1>9, <1>10, <1>11, <1>12 DEF FiredInv

\* Every step of a flush keeps the invariant.
LEMMA FlushFires ==
  ASSUME OutboxTypeOK, FiredInv, NEW f \in Flushers, FlushStep(f)
  PROVE  FiredInv'
<1> USE DEF Ids
<1>1. CASE SelectDue(f)
  <2>1. Due \subseteq {i \in Ids : rows[i].status = "pending"}
    BY DEF Due, Pending
  <2>2. /\ flush'[f].todo = {[id |-> i, attempts |-> rows[i].attempts] : i \in Due}
        /\ flush'[f].at = "execute"
        /\ \A g \in Flushers : g # f => flush'[g] = flush[g]
    BY <1>1 DEF SelectDue, OutboxTypeOK
  <2>3. UNCHANGED <<rows, made, fired>>
    BY <1>1 DEF SelectDue
  <2>4. \A e \in flush'[f].todo :
          e.id \in Ids /\ e.id <= made /\ rows[e.id].status = "pending" /\ e.attempts = 0
    <3> SUFFICES ASSUME NEW i \in Due
                 PROVE  i \in Ids /\ i <= made /\ rows[i].status = "pending" /\ rows[i].attempts = 0
      BY <2>2
    <3> QED
      BY <2>1 DEF FiredInv, OutboxTypeOK
  <2>5. flush'[f].todo # {}
    BY <1>1, <2>2 DEF SelectDue
  <2>6. ASSUME ~torn'
        PROVE  /\ ~torn
               /\ \A g \in Flushers : flush[g].at = "idle" /\ flush[g].todo = {}
               /\ \A i \in Ids : rows[i].status = "pending" => fired[i] = 0
    <3>1. ~torn /\ \A g \in Flushers : flush[g].at = "idle"
      BY <1>1, <2>6 DEF SelectDue
    <3> QED
      BY <3>1 DEF FiredInv, Recorded, OutboxTypeOK
  <2>7. ~torn' =>
          /\ \A g, h \in Flushers : flush'[g].at # "idle" /\ flush'[h].at # "idle" => g = h
          /\ \A i \in Ids : fired'[i] <= 1
          /\ \A i \in Ids : ~(rows'[i].status = "pending" /\ fired'[i] > 0)
          /\ \A g \in Flushers : \A e \in flush'[g].todo : fired'[e.id] = 0
    BY <2>2, <2>3, <2>4, <2>6 DEF FiredInv, OutboxTypeOK
  <2>8. \A g \in Flushers : \A e \in flush'[g].todo : e.attempts = 0 /\ e.id <= made'
    BY <2>2, <2>3, <2>4 DEF FiredInv
  <2>9. \A g \in Flushers : flush'[g].at = "idle" <=> flush'[g].todo = {}
    BY <2>2, <2>5 DEF FiredInv
  <2> QED
    BY <2>3, <2>7, <2>8, <2>9 DEF FiredInv
<1>2. CASE Execute(f)
  <2>1. PICK e \in flush[f].todo :
          /\ IsHead(f, e)
          /\ \/ At(f, "succeeded") /\ fired' = [fired EXCEPT ![e.id] = IF @ < 2 THEN @ + 1 ELSE 2]
             \/ At(f, "failed") /\ UNCHANGED fired
    BY <1>2 DEF Execute
  <2>2. e.id \in Ids /\ e.id <= made /\ flush[f].at = "execute"
    BY <1>2 DEF Execute, OutboxTypeOK, FiredInv
  <2>3. UNCHANGED <<rows, made, torn>>
    BY <1>2 DEF Execute
  <2>4. /\ flush'[f].todo = flush[f].todo
        /\ flush'[f].at \in {"succeeded", "failed"}
        /\ \A g \in Flushers : g # f => flush'[g] = flush[g]
    BY <2>1 DEF At, OutboxTypeOK
  <2>5. \A g \in Flushers : \A d \in flush[g].todo : IsHead(g, d)' <=> IsHead(g, d)
    BY <2>4 DEF IsHead
  <2>6. \A i \in Ids : i # e.id => fired'[i] = fired[i]
    BY <2>1, <2>2 DEF OutboxTypeOK
  <2>7. \A i \in Ids : i > made' => rows'[i].status = "none" /\ fired'[i] = 0
    BY <2>2, <2>3, <2>6 DEF FiredInv, OutboxTypeOK
  <2>8. ASSUME ~torn
        PROVE  /\ fired[e.id] = 0
               /\ \A g \in Flushers : ~Recorded(g)
               /\ \A i \in Ids : rows[i].status = "pending" => fired[i] = 0
    <3>1. \A g \in Flushers : ~Recorded(g)
      BY <2>2, <2>8 DEF Recorded, FiredInv
    <3> QED
      BY <2>8, <3>1 DEF FiredInv, OutboxTypeOK
  <2>9. ASSUME ~torn', At(f, "succeeded"), fired' = [fired EXCEPT ![e.id] = IF @ < 2 THEN @ + 1 ELSE 2]
        PROVE  /\ \A i \in Ids : fired'[i] <= 1
               /\ \A i \in Ids : rows'[i].status = "pending" /\ fired'[i] > 0 =>
                    \E g \in Flushers : Recorded(g)' /\ \E d \in flush'[g].todo : d.id = i /\ IsHead(g, d)'
               /\ \A g \in Flushers : \A d \in flush'[g].todo :
                    (Recorded(g)' /\ IsHead(g, d)') \/ fired'[d.id] = 0
    <3>1. ~torn
      BY <2>3, <2>9
    <3>2. fired'[e.id] = 1
      BY <2>2, <2>8, <2>9, <3>1 DEF OutboxTypeOK
    <3>3. Recorded(f)' /\ IsHead(f, e)' /\ e \in flush'[f].todo
      BY <2>1, <2>4, <2>5, <2>9 DEF Recorded, At, OutboxTypeOK
    <3>4. \A i \in Ids : fired'[i] <= 1
      BY <2>6, <3>1, <3>2 DEF FiredInv
    <3>5. \A i \in Ids : rows'[i].status = "pending" /\ fired'[i] > 0 => i = e.id
      BY <2>3, <2>6, <2>8, <3>1 DEF OutboxTypeOK
    <3>6. ASSUME NEW g \in Flushers, NEW d \in flush'[g].todo, d # e \/ g # f PROVE fired'[d.id] = 0
      <4>1. g = f
        BY <2>2, <2>4, <3>1 DEF FiredInv
      <4>2. d \in flush[f].todo /\ d.id # e.id /\ d.id \in Ids
        BY <2>4, <3>6, <4>1, OneEntry DEF OutboxTypeOK
      <4>3. fired[d.id] = 0
        BY <2>8, <3>1, <4>2 DEF FiredInv
      <4> QED
        BY <2>6, <4>2, <4>3
    <3> QED
      BY <3>3, <3>4, <3>5, <3>6
  <2>10. ASSUME ~torn', UNCHANGED fired
        PROVE  /\ \A i \in Ids : fired'[i] <= 1
               /\ \A i \in Ids : ~(rows'[i].status = "pending" /\ fired'[i] > 0)
               /\ \A g \in Flushers : \A d \in flush'[g].todo : fired'[d.id] = 0
    <3>1. ~torn
      BY <2>3, <2>10
    <3>2. \A g \in Flushers : flush'[g].todo = flush[g].todo
      BY <2>4
    <3> QED
      BY <2>3, <2>8, <2>10, <3>1, <3>2 DEF FiredInv, OutboxTypeOK
  <2>11. ~torn' => \A g, h \in Flushers : flush'[g].at # "idle" /\ flush'[h].at # "idle" => g = h
    BY <2>2, <2>3, <2>4 DEF FiredInv
  <2>12. \A g \in Flushers : flush'[g].todo = flush[g].todo /\ (flush'[g].at = "idle" <=> flush'[g].todo = {})
    BY <2>1, <2>4 DEF FiredInv
  <2> QED
    BY <2>1, <2>3, <2>7, <2>9, <2>10, <2>11, <2>12 DEF FiredInv
<1>3. CASE MarkDone(f)
  <2>1. PICK e \in flush[f].todo : IsHead(f, e) /\ rows' = Written(e.id, "done", rows[e.id].attempts) /\ Advance(f, e)
    BY <1>3 DEF MarkDone
  <2>2. rows[e.id].attempts \in Nat /\ Recorded(f) /\ UNCHANGED <<made, fired, torn>>
    BY <1>3 DEF MarkDone, Recorded, OutboxTypeOK
  <2> QED
    BY <2>1, <2>2, HeadLeaves
<1>4. CASE MarkDoneErrs(f)
  <2>1. flush' = [flush EXCEPT ![f] = [todo |-> @.todo, at |-> "unrecorded"]] /\ UNCHANGED <<rows, made, fired, torn>>
    BY <1>4 DEF MarkDoneErrs, At
  <2>2. \A g \in Flushers : /\ flush'[g].todo = flush[g].todo
                            /\ Recorded(g)' <=> Recorded(g)
                            /\ flush'[g].at = "idle" <=> flush[g].at = "idle"
    BY <1>4, <2>1 DEF MarkDoneErrs, Recorded, OutboxTypeOK
  <2>3. \A g \in Flushers : \A d \in flush[g].todo : IsHead(g, d)' <=> IsHead(g, d)
    BY <2>2 DEF IsHead
  <2> QED
    BY <2>1, <2>2, <2>3 DEF FiredInv
<1>5. CASE MarkFailed(f)
  <2>1. PICK e \in flush[f].todo :
          /\ IsHead(f, e)
          /\ IF e.attempts + 1 < MaxAttempts
             THEN rows' = Written(e.id, "failed", e.attempts + 1) /\ UNCHANGED dlq
             ELSE rows' = Written(e.id, "gone", e.attempts + 1) /\ dlq' = dlq \cup {e.id}
          /\ Advance(f, e)
    BY <1>5 DEF MarkFailed
  <2>2. e.attempts + 1 \in Nat
    BY DEF OutboxTypeOK
  <2>3. PICK st \in {"done", "failed", "gone"} : rows' = Written(e.id, st, e.attempts + 1)
    BY <2>1
  <2>4. (Recorded(f) \/ flush[f].at = "failed") /\ UNCHANGED <<made, fired, torn>>
    BY <1>5 DEF MarkFailed, Recorded
  <2> QED
    BY <2>1, <2>2, <2>3, <2>4, HeadLeaves
<1>6. CASE FlushDies(f)
  <2>1. /\ flush'[f].todo = {} /\ flush'[f].at = "idle"
        /\ \A g \in Flushers : g # f => flush'[g] = flush[g]
        /\ UNCHANGED <<rows, made, fired>>
    BY <1>6 DEF FlushDies, Idle, OutboxTypeOK
  <2>2. ASSUME ~torn'
        PROVE  /\ ~torn
               /\ \A g \in Flushers : ~Recorded(g)
               /\ \A g \in Flushers : g # f => flush[g].at = "idle"
    <3>1. ~torn /\ ~Recorded(f) /\ flush[f].at # "idle"
      BY <1>6, <2>2 DEF FlushDies, Recorded
    <3>2. \A g \in Flushers : g # f => flush[g].at = "idle"
      BY <3>1 DEF FiredInv
    <3> QED
      BY <3>1, <3>2 DEF Recorded
  <2>3. \A g \in Flushers : \A d \in flush'[g].todo : g # f /\ d \in flush[g].todo
    BY <2>1
  <2>4. ~torn' =>
          /\ \A g, h \in Flushers : flush'[g].at # "idle" /\ flush'[h].at # "idle" => g = h
          /\ \A i \in Ids : fired'[i] <= 1
          /\ \A i \in Ids : ~(rows'[i].status = "pending" /\ fired'[i] > 0)
          /\ \A g \in Flushers : \A d \in flush'[g].todo : fired'[d.id] = 0
    BY <2>1, <2>2, <2>3 DEF FiredInv
  <2>5. \A g \in Flushers : flush'[g].at = "idle" <=> flush'[g].todo = {}
    BY <2>1 DEF FiredInv
  <2> QED
    BY <2>1, <2>3, <2>4, <2>5 DEF FiredInv
<1> QED
  BY <1>1, <1>2, <1>3, <1>4, <1>5, <1>6 DEF FlushStep

LEMMA FiredStep ==
  ASSUME TypeOK, FiredInv, [Next]_vars
  PROVE  FiredInv'
<1>1. OutboxTypeOK
  BY DEF TypeOK
<1>2. CASE Post
  BY <1>1, <1>2, EnqueueFires DEF Post
<1>3. CASE PruneDone
  BY <1>1, <1>3, PruneFires
<1>4. CASE \E f \in Flushers : FlushStep(f)
  BY <1>1, <1>4, FlushFires
<1>5. ASSUME NEW r \in Requests, RequestStep(r) PROVE FiredInv'
  <2>1. CASE Trigger(r)
    <3>1. /\ Enqueue(req[r].move) \/ UNCHANGED <<rows, made>>
          /\ req[r].move \in Keys \/ UNCHANGED <<rows, made>>
          /\ UNCHANGED <<dlq, flush, fired, torn>>
      BY <2>1 DEF Trigger
    <3>2. CASE req[r].move \in Keys
      BY <1>1, <3>1, <3>2, EnqueueFires
    <3>3. CASE UNCHANGED <<rows, made>>
      BY <3>1, <3>3 DEF FiredInv, Recorded, IsHead
    <3> QED
      BY <3>1, <3>2, <3>3
  <2>2. CASE ~Trigger(r)
    <3>1. UNCHANGED <<rows, made, flush, fired, torn>>
      BY <1>5, <2>2 DEF RequestStep, Begin, Refuse, Commit, Conflict, LogHistory, SyncStatus, SyncField,
         SyncErrs, Die, outboxVars
    <3> QED
      BY <3>1 DEF FiredInv, Recorded, IsHead
  <2> QED
    BY <2>1, <2>2
<1>6. CASE UNCHANGED vars
  BY <1>6 DEF vars, outboxVars, FiredInv, Recorded, IsHead
<1> QED
  BY <1>2, <1>3, <1>4, <1>5, <1>6 DEF Next

\* Until flushes overlap or a success goes unrecorded, the effect of a row lands
\* at most once, whatever fails or dies (EachRowFiresOnce).
THEOREM EffectsLandOnce == Spec => [](~torn => EachRowFiresOnce)
<1>1. FiredInv => (~torn => EachRowFiresOnce)
  BY DEF FiredInv, EachRowFiresOnce
<1> QED
  BY <1>1, FiredStart, FiredStep, TypeCorrect, PTL DEF Spec

\* The code's rows never reach their last attempt: a failed row is not selected
\* again, so that with more than one attempt to make (OUTBOX_MAX_ATTEMPTS is 5)
\* nothing is ever put into _outbox_dlq, and retryDlq finds nothing to retry.
THEOREM NothingIsDeadLettered == Spec => [](MaxAttempts > 1 => dlq = {})
<1> DEFINE Empty == MaxAttempts > 1 => dlq = {}
<1>1. Init => Empty
  BY DEF Init, OutboxInit
<1>2. TypeOK /\ FiredInv /\ Empty /\ [Next]_vars => Empty'
  <2> SUFFICES ASSUME TypeOK, FiredInv, Empty, [Next]_vars, MaxAttempts > 1, dlq' # {} PROVE FALSE
    OBVIOUS
  <2>1. PICK f \in Flushers : MarkFailed(f)
    BY DEF Next, Post, PruneDone, FlushStep, SelectDue, Execute, MarkDone, MarkDoneErrs, FlushDies, RequestStep,
       Begin, Refuse, Commit, Conflict, LogHistory, SyncStatus, SyncField, SyncErrs, Trigger, Die, vars, outboxVars
  <2>2. PICK e \in flush[f].todo : ~(e.attempts + 1 < MaxAttempts)
    BY <2>1 DEF MarkFailed
  <2>3. e.attempts = 0
    BY <2>2 DEF FiredInv
  <2> QED
    BY <2>2, <2>3, OutboxAssumption
<1> QED
  BY <1>1, <1>2, FiredStart, FiredStep, TypeCorrect, PTL DEF Spec

-----------------------------------------------------------------------------
(* The history and the effects, counted against the moves.                 *)

\* A set that changes in one element.
LEMMA OneElement ==
  ASSUME NEW A, NEW B, NEW x, IsFiniteSet(A), B \ {x} = A \ {x}
  PROVE  /\ IsFiniteSet(B)
         /\ Cardinality(A) \in Nat
         /\ Cardinality(B) = Cardinality(A) + (IF x \in B THEN 1 ELSE 0) - (IF x \in A THEN 1 ELSE 0)
<1> DEFINE C == A \ {x}
<1>1. /\ IsFiniteSet(C)
      /\ Cardinality(C) = IF x \in A THEN Cardinality(A) - 1 ELSE Cardinality(A)
  BY FS_RemoveElement
<1>2. /\ IsFiniteSet(C \cup {x})
      /\ Cardinality(C \cup {x}) = Cardinality(C) + 1
  BY <1>1, FS_AddElement
<1>3. B = IF x \in B THEN C \cup {x} ELSE C
  OBVIOUS
<1>4. Cardinality(A) \in Nat /\ Cardinality(C) \in Nat
  BY <1>1, FS_CardinalityType
<1> HIDE DEF C
<1> QED
  BY <1>1, <1>2, <1>3, <1>4

LEMMA CountAppend ==
  ASSUME NEW S, NEW seq \in Seq(S), NEW x \in S, NEW t
  PROVE  /\ Count(seq, t) \in Nat
         /\ Count(Append(seq, x), t) = Count(seq, t) + (IF x = t THEN 1 ELSE 0)
<1> DEFINE n == Len(seq) + 1
           A == {i \in 1..Len(seq) : seq[i] = t}
           B == {i \in 1..Len(Append(seq, x)) : Append(seq, x)[i] = t}
<1>1. IsFiniteSet(A)
  BY FS_Interval, FS_Subset, 1 \in Int, Len(seq) \in Int, A \in SUBSET (1..Len(seq))
<1>2. /\ Len(Append(seq, x)) = n
      /\ Append(seq, x)[n] = x
      /\ \A i \in 1..Len(seq) : Append(seq, x)[i] = seq[i]
  OBVIOUS
<1>3. n \notin A /\ (n \in B <=> x = t) /\ B \ {n} = A \ {n}
  BY <1>2
<1> HIDE DEF n, A, B
<1>4. Cardinality(A) \in Nat /\ Cardinality(B) = Cardinality(A) + (IF x = t THEN 1 ELSE 0)
  BY <1>1, <1>3, OneElement
<1> QED
  BY <1>4 DEF Count, A, B

LEMMA CountType == ASSUME NEW S, NEW seq \in Seq(S), NEW t PROVE Count(seq, t) \in Nat
<1>1. {i \in 1..Len(seq) : seq[i] = t} \in SUBSET (1..Len(seq))
  OBVIOUS
<1> QED
  BY <1>1, FS_Interval, FS_Subset, FS_CardinalityType, 1 \in Int, Len(seq) \in Int DEF Count

\* The requests that make transition t and are at one of these steps.
InFlight(t, steps) == {r \in Requests : req[r].move = t /\ req[r].at \in steps}

Committed == {"log", "status", "field", "trigger"}

RowsOf(t) == {i \in Ids : rows[i].key = t}

Logging(t) == Cardinality(InFlight(t, {"log"}))
Going(t) == Cardinality(InFlight(t, Committed))
Kept(t) == Cardinality(RowsOf(t))

\* Until a request dies before it has written its history, every move is in the
\* history or its request is about to write it.  And each row of a transition was
\* stored by a request that had committed it, which then was over.
Recounts == \A t \in Transitions : Count(trail, t) + Logging(t) = Count(moved, t)

Covers == \A t \in Keys : Kept(t) + Going(t) <= Count(moved, t)

CountInv ==
    /\ \A i \in Ids : i > made => rows[i].key = NoKey
    /\ logged => Recounts
    /\ Covers

LEMMA Finite ==
  ASSUME NEW t, NEW steps
  PROVE  /\ IsFiniteSet(InFlight(t, steps)) /\ Cardinality(InFlight(t, steps)) \in Nat
         /\ IsFiniteSet(RowsOf(t)) /\ Cardinality(RowsOf(t)) \in Nat
<1>1. InFlight(t, steps) \in SUBSET Requests /\ RowsOf(t) \in SUBSET Ids
  BY DEF InFlight, RowsOf
<1>2. IsFiniteSet(Requests) /\ IsFiniteSet(Ids)
  BY WorkflowAssumption, OutboxAssumption, FS_Interval DEF Ids
<1> QED
  BY <1>1, <1>2, FS_Subset, FS_CardinalityType

LEMMA KeptType == ASSUME NEW t PROVE Kept(t) \in Nat /\ Kept(t)' \in Nat
<1>1. RowsOf(t) \in SUBSET Ids /\ RowsOf(t)' \in SUBSET Ids
  BY DEF RowsOf
<1>2. IsFiniteSet(Ids)
  BY OutboxAssumption, FS_Interval DEF Ids
<1> QED
  BY <1>1, <1>2, FS_Subset, FS_CardinalityType DEF Kept

\* One request moves on: it enters or leaves a set of requests in flight.
LEMMA InFlightStep ==
  ASSUME TypeOK, NEW r \in Requests, \A q \in Requests : q # r => req'[q] = req[q], NEW t, NEW steps
  PROVE  /\ Cardinality(InFlight(t, steps)) \in Nat
         /\ Cardinality(InFlight(t, steps))' =
              Cardinality(InFlight(t, steps))
                + (IF req'[r].move = t /\ req'[r].at \in steps THEN 1 ELSE 0)
                - (IF req[r].move = t /\ req[r].at \in steps THEN 1 ELSE 0)
<1> DEFINE A == InFlight(t, steps)
           B == {q \in Requests : req'[q].move = t /\ req'[q].at \in steps}
<1>1. /\ r \in A <=> req[r].move = t /\ req[r].at \in steps
      /\ r \in B <=> req'[r].move = t /\ req'[r].at \in steps
      /\ B \ {r} = A \ {r}
  BY DEF InFlight
<1>2. IsFiniteSet(A)
  BY Finite
<1>3. InFlight(t, steps)' = B
  BY DEF InFlight
<1> HIDE DEF A, B
<1>4. Cardinality(A) \in Nat
      /\ Cardinality(B) = Cardinality(A) + (IF r \in B THEN 1 ELSE 0) - (IF r \in A THEN 1 ELSE 0)
  BY <1>1, <1>2, OneElement
<1> QED
  BY <1>1, <1>3, <1>4 DEF A

\* Storing a row: no more than one of transition k, which was nobody's before.
LEMMA EnqueueCounts ==
  ASSUME OutboxTypeOK, \A i \in Ids : i > made => rows[i].key = NoKey, NEW k \in Keys \cup {NoKey}, Enqueue(k)
  PROVE  /\ \A i \in Ids : i > made' => rows'[i].key = NoKey
         /\ \A t \in Keys : Kept(t)' <= Kept(t) + (IF t = k THEN 1 ELSE 0)
<1> USE OutboxAssumption DEF Ids
<1>1. CASE UNCHANGED <<rows, made>>
  <2>1. \A t : Kept(t)' = Kept(t)
    BY <1>1 DEF Kept, RowsOf
  <2>2. \A t : Kept(t) \in Nat
    BY KeptType
  <2> QED
    BY <1>1, <2>1, <2>2
<1>2. CASE /\ made < MaxRows
           /\ made' = made + 1
           /\ rows' = [rows EXCEPT ![made + 1] = Row(k, "pending", 0)]
  <2>1. made \in Nat /\ made + 1 \in Ids
    BY <1>2 DEF OutboxTypeOK
  <2>2. \A i \in Ids : rows'[i].key = IF i = made + 1 THEN k ELSE rows[i].key
    BY <1>2, <2>1 DEF OutboxTypeOK, Row
  <2>3. ASSUME NEW t \in Keys
        PROVE  Kept(t)' <= Kept(t) + (IF t = k THEN 1 ELSE 0)
    <3> DEFINE A == RowsOf(t)
               B == {i \in Ids : rows'[i].key = t}
    <3>1. made + 1 \notin A /\ (made + 1 \in B <=> t = k) /\ B \ {made + 1} = A \ {made + 1}
      BY <2>1, <2>2 DEF RowsOf
    <3>2. IsFiniteSet(A)
      BY Finite
    <3>3. RowsOf(t)' = B
      BY DEF RowsOf
    <3> HIDE DEF A, B
    <3>4. Cardinality(A) \in Nat /\ Cardinality(B) = Cardinality(A) + (IF t = k THEN 1 ELSE 0)
      BY <3>1, <3>2, OneElement
    <3> QED
      BY <3>3, <3>4 DEF A, Kept
  <2>4. \A i \in Ids : i > made' => rows'[i].key = NoKey
    BY <1>2, <2>1, <2>2
  <2> QED
    BY <2>3, <2>4
<1> QED
  BY <1>1, <1>2 DEF Enqueue

\* The other steps of the outbox leave the rows' keys alone.
LEMMA KeysKept ==
  ASSUME OutboxTypeOK, PruneDone \/ \E f \in Flushers : FlushStep(f)
  PROVE  made' = made /\ \A i \in Ids : rows'[i].key = rows[i].key
<1>1. CASE PruneDone
  BY <1>1 DEF PruneDone, OutboxTypeOK, Row
<1>2. ASSUME NEW f \in Flushers, FlushStep(f)
      PROVE  made' = made /\ \A i \in Ids : rows'[i].key = rows[i].key
  <2>1. \A j \in Ids : \A st, n : rows' = Written(j, st, n) => \A i \in Ids : rows'[i].key = rows[i].key
    BY DEF OutboxTypeOK, Written, Row
  <2>2. \A e \in flush[f].todo : e.id \in Ids
    BY DEF OutboxTypeOK
  <2>3. CASE MarkDone(f) \/ MarkFailed(f)
    <3>1. made' = made /\ \E e \in flush[f].todo : \E st, n : rows' = Written(e.id, st, n)
      BY <2>3 DEF MarkDone, MarkFailed
    <3> QED
      BY <2>1, <2>2, <3>1
  <2>4. CASE ~MarkDone(f) /\ ~MarkFailed(f)
    BY <1>2, <2>4 DEF FlushStep, SelectDue, Execute, MarkDoneErrs, FlushDies
  <2> QED
    BY <2>3, <2>4
<1> QED
  BY <1>1, <1>2

LEMMA CountStart == Init => CountInv
<1> SUFFICES ASSUME Init PROVE CountInv
  OBVIOUS
<1> USE DEF Init, OutboxInit
<1>1. \A i \in Ids : rows[i].key = NoKey
  BY DEF Row
<1>2. \A t : Count(<<>>, t) = 0
  BY FS_EmptySet DEF Count
<1>3. \A t : \A steps \in SUBSET Committed : Cardinality(InFlight(t, steps)) = 0
  <2>1. \A t : \A steps \in SUBSET Committed : InFlight(t, steps) = {}
    BY DEF InFlight, Committed
  <2> QED
    BY <2>1, FS_EmptySet
<1>4. \A t \in Keys : Cardinality(RowsOf(t)) = 0
  <2>1. \A t \in Keys : RowsOf(t) = {}
    BY <1>1, OutboxAssumption DEF RowsOf
  <2> QED
    BY <2>1, FS_EmptySet
<1>5. {"log"} \in SUBSET Committed /\ Committed \in SUBSET Committed
  BY DEF Committed
<1>6. Keys \subseteq Transitions
  BY WorkflowAssumption
<1>7. Recounts
  BY <1>2, <1>3, <1>5 DEF Recounts, Logging
<1>8. Covers
  BY <1>2, <1>3, <1>4, <1>5, <1>6 DEF Covers, Going, Kept
<1> QED
  BY <1>1, <1>7, <1>8 DEF CountInv

\* A request's step, counted: t is the transition of a request r.
LEMMA RequestCounts ==
  ASSUME TypeOK, CountInv, NEW r \in Requests, RequestStep(r)
  PROVE  CountInv'
<1> DEFINE m == req[r].move
           One(t) == IF m = t THEN 1 ELSE 0
<1> USE DEF Committed
<1>1. \A q \in Requests : q # r => req'[q] = req[q]
  BY DEF RequestStep, Begin, Refuse, Commit, Conflict, LogHistory, SyncStatus, SyncField, SyncErrs, Trigger, Die,
     Goto, TypeOK
<1>2. \A t : /\ Logging(t) \in Nat
             /\ Logging(t)' = Logging(t) + (IF req'[r].move = t /\ req'[r].at \in {"log"} THEN 1 ELSE 0)
                                         - (IF m = t /\ req[r].at \in {"log"} THEN 1 ELSE 0)
  BY <1>1, InFlightStep DEF Logging
<1>3. \A t : /\ Going(t) \in Nat
             /\ Going(t)' = Going(t) + (IF req'[r].move = t /\ req'[r].at \in Committed THEN 1 ELSE 0)
                                     - (IF m = t /\ req[r].at \in Committed THEN 1 ELSE 0)
  BY <1>1, InFlightStep DEF Going
<1>4. /\ \A t : Count(trail, t) \in Nat /\ Count(moved, t) \in Nat
      /\ \A t : m \in Transitions => /\ Count(Append(trail, m), t) = Count(trail, t) + One(t)
                                     /\ Count(Append(moved, m), t) = Count(moved, t) + One(t)
  <2>1. \A seq \in Seq(Transitions) : \A x \in Transitions : \A t :
          Count(seq, t) \in Nat /\ Count(Append(seq, x), t) = Count(seq, t) + (IF x = t THEN 1 ELSE 0)
    BY CountAppend
  <2>2. \A seq \in Seq(Transitions) : \A t : Count(seq, t) \in Nat
    BY CountType
  <2> QED
    BY <2>1, <2>2 DEF TypeOK
<1>5. /\ \A t : Kept(t) \in Nat /\ Kept(t)' \in Nat
      /\ UNCHANGED rows => \A t : Kept(t)' = Kept(t)
      /\ Keys \subseteq Transitions
  BY KeptType, WorkflowAssumption DEF Kept, RowsOf
<1>6. ASSUME UNCHANGED <<trail, moved, rows, made>>, logged' => logged,
             ~(req'[r].at \in Committed),
             logged' => req[r].at # "log"
      PROVE  CountInv'
  <2>1. logged' => Recounts'
    BY <1>2, <1>4, <1>6 DEF Recounts, CountInv
  <2>2. Covers'
    BY <1>3, <1>4, <1>5, <1>6 DEF Covers, CountInv
  <2> QED
    BY <1>6, <2>1, <2>2 DEF CountInv
<1>7. CASE Begin(r) \/ Refuse(r) \/ Conflict(r)
  <2>1. req'[r].at \in {"checked", "idle"} /\ req[r].at # "log"
    <3>1. CASE Begin(r)
      BY <3>1 DEF Begin, TypeOK
    <3>2. CASE Refuse(r) \/ Conflict(r)
      BY <3>2 DEF Refuse, Conflict, Goto, TypeOK
    <3> QED
      BY <1>7, <3>1, <3>2
  <2>2. UNCHANGED <<trail, moved, rows, made, logged>>
    BY <1>7 DEF Begin, Refuse, Conflict, outboxVars
  <2> QED
    BY <1>6, <2>1, <2>2
<1>8. CASE Die(r)
  <2>1. req'[r].at = "idle" /\ UNCHANGED <<trail, moved, rows, made>>
    BY <1>8 DEF Die, Goto, TypeOK
  <2>2. (logged' => logged) /\ (logged' => req[r].at # "log")
    BY <1>8, Zenon DEF Die
  <2> QED
    BY <1>6, <2>1, <2>2
<1>9. CASE Commit(r)
  <2>1. /\ req[r].at = "checked" /\ m \in Transitions /\ moved' = Append(moved, m)
        /\ req'[r].at = "log" /\ req'[r].move = m
        /\ UNCHANGED <<trail, rows, made, logged>>
    BY <1>9 DEF Commit, outboxVars, Goto, TypeOK
  <2>2. \A t : Count(moved, t)' = Count(moved, t) + One(t)
    BY <1>4, <2>1
  <2>3. \A t : Logging(t)' = Logging(t) + One(t) /\ Going(t)' = Going(t) + One(t)
    BY <1>2, <1>3, <2>1
  <2>4. logged' => Recounts'
    BY <1>2, <1>4, <2>1, <2>2, <2>3 DEF Recounts, CountInv
  <2>5. Covers'
    BY <1>3, <1>4, <1>5, <2>1, <2>2, <2>3 DEF Covers, CountInv
  <2> QED
    BY <2>1, <2>4, <2>5 DEF CountInv
<1>10. CASE LogHistory(r)
  <2>1. /\ req[r].at = "log" /\ m \in Transitions /\ trail' = Append(trail, m)
        /\ req'[r].at = "status" /\ req'[r].move = m
        /\ UNCHANGED <<moved, rows, made, logged>>
    BY <1>10 DEF LogHistory, outboxVars, Goto, TypeOK
  <2>2. \A t : Count(trail, t)' = Count(trail, t) + One(t)
    BY <1>4, <2>1
  <2>3. \A t : Logging(t)' = Logging(t) - One(t) /\ Going(t)' = Going(t)
    BY <1>2, <1>3, <2>1
  <2>4. logged' => Recounts'
    BY <1>2, <1>4, <2>1, <2>2, <2>3 DEF Recounts, CountInv
  <2>5. Covers'
    BY <1>3, <1>4, <1>5, <2>1, <2>3 DEF Covers, CountInv
  <2> QED
    BY <2>1, <2>4, <2>5 DEF CountInv
<1>11. CASE SyncStatus(r) \/ SyncField(r) \/ SyncErrs(r)
  <2>1. /\ req[r].at \in {"status", "field"} /\ req'[r].at \in {"field", "trigger"}
        /\ req'[r].move = m
        /\ UNCHANGED <<trail, moved, rows, made, logged>>
    BY <1>11 DEF SyncStatus, SyncField, SyncErrs, outboxVars, Goto, TypeOK
  <2>2. \A t : Logging(t)' = Logging(t) /\ Going(t)' = Going(t)
    BY <1>2, <1>3, <2>1
  <2>3. logged' => Recounts'
    BY <1>2, <1>4, <2>1, <2>2 DEF Recounts, CountInv
  <2>4. Covers'
    BY <1>3, <1>4, <1>5, <2>1, <2>2 DEF Covers, CountInv
  <2> QED
    BY <2>1, <2>3, <2>4 DEF CountInv
<1>12. CASE Trigger(r)
  <2>1. /\ req[r].at = "trigger" /\ req'[r].at = "idle"
        /\ UNCHANGED <<trail, moved, logged>>
    BY <1>12 DEF Trigger, Goto, TypeOK
  <2>2. IF m \in Keys THEN Enqueue(m) ELSE UNCHANGED <<rows, made>>
    BY <1>12 DEF Trigger
  <2>3. \A t : Logging(t)' = Logging(t) /\ Going(t)' = Going(t) - One(t)
    BY <1>2, <1>3, <2>1
  <2>4. /\ \A i \in Ids : i > made' => rows'[i].key = NoKey
        /\ \A t \in Keys : Kept(t)' <= Kept(t) + One(t)
    <3>1. CASE m \in Keys
      BY <2>2, <3>1, EnqueueCounts DEF CountInv, TypeOK
    <3>2. CASE m \notin Keys
      BY <1>5, <2>2, <3>2 DEF CountInv
    <3> QED
      BY <3>1, <3>2
  <2>5. logged' => Recounts'
    BY <1>2, <1>4, <2>1, <2>3 DEF Recounts, CountInv
  <2>6. Covers'
    BY <1>3, <1>4, <1>5, <2>1, <2>3, <2>4 DEF Covers, CountInv
  <2> QED
    BY <2>4, <2>5, <2>6 DEF CountInv
<1> QED
  BY <1>7, <1>8, <1>9, <1>10, <1>11, <1>12 DEF RequestStep

LEMMA CountStep == TypeOK /\ CountInv /\ [Next]_vars => CountInv'
<1> SUFFICES ASSUME TypeOK, CountInv, [Next]_vars PROVE CountInv'
  OBVIOUS
<1>1. ASSUME UNCHANGED <<trail, moved, logged, req>>,
             \A i \in Ids : i > made' => rows'[i].key = NoKey,
             \A t \in Keys : Kept(t)' <= Kept(t)
      PROVE  CountInv'
  <2>1. \A t : Logging(t)' = Logging(t) /\ Going(t)' = Going(t)
    BY <1>1 DEF Logging, Going, InFlight
  <2>2. \A t : Going(t) \in Nat /\ Kept(t) \in Nat /\ Kept(t)' \in Nat
    BY Finite, KeptType DEF Going
  <2>3. \A t : Count(moved, t) \in Nat
    BY CountType DEF TypeOK
  <2>4. (logged' => Recounts') /\ Covers'
    BY <1>1, <2>1, <2>2, <2>3 DEF CountInv, Recounts, Covers
  <2> QED
    BY <1>1, <2>4 DEF CountInv
<1>2. CASE Post /\ UNCHANGED flowVars
  <2>1. Enqueue(NoKey) /\ NoKey \notin Keys
    BY <1>2, OutboxAssumption DEF Post
  <2>2. /\ \A i \in Ids : i > made' => rows'[i].key = NoKey
        /\ \A t \in Keys : Kept(t)' <= Kept(t) + (IF t = NoKey THEN 1 ELSE 0)
    BY <2>1, EnqueueCounts DEF CountInv, TypeOK
  <2>3. \A t \in Keys : Kept(t)' <= Kept(t)
    BY <2>1, <2>2, KeptType
  <2> QED
    BY <1>1, <1>2, <2>2, <2>3 DEF flowVars
<1>3. CASE (PruneDone \/ \E f \in Flushers : FlushStep(f)) /\ UNCHANGED flowVars
  <2>1. made' = made /\ \A i \in Ids : rows'[i].key = rows[i].key
    BY <1>3, KeysKept DEF TypeOK
  <2>2. \A t : Kept(t)' = Kept(t)
    BY <2>1 DEF Kept, RowsOf
  <2>3. \A t \in Keys : Kept(t)' <= Kept(t)
    BY <2>2, KeptType
  <2> QED
    BY <1>1, <1>3, <2>1, <2>3 DEF CountInv, flowVars
<1>4. CASE UNCHANGED vars
  <2>1. \A t : Logging(t)' = Logging(t) /\ Going(t)' = Going(t) /\ Kept(t)' = Kept(t)
    BY <1>4 DEF vars, outboxVars, Logging, Going, InFlight, Kept, RowsOf
  <2> QED
    BY <1>4, <2>1 DEF vars, outboxVars, CountInv, Recounts, Covers
<1> QED
  BY <1>2, <1>3, <1>4, RequestCounts DEF Next

\* While no request has died between its commit and its history, the history and
\* the moves have each transition the same number of times (EveryMoveIsRecorded).
THEOREM HistoryIsComplete == Spec => []EveryMoveIsRecorded
<1>1. TypeOK /\ CountInv => EveryMoveIsRecorded
  <2> SUFFICES ASSUME TypeOK, CountInv, logged, \A r \in Requests : req[r].at # "log", NEW t \in Transitions
               PROVE  Count(trail, t) = Count(moved, t)
    BY DEF EveryMoveIsRecorded
  <2>1. Logging(t) = 0
    <3>1. InFlight(t, {"log"}) = {}
      BY DEF InFlight
    <3> QED
      BY <3>1, FS_EmptySet DEF Logging
  <2> QED
    BY <2>1, CountType DEF CountInv, Recounts, TypeOK
<1> QED
  BY <1>1, CountStart, CountStep, TypeCorrect, PTL DEF Spec

\* The effect of a transition lands no more often than the transition was
\* committed, until flushes overlap or a success goes unrecorded
\* (EffectsFollowMoves).
THEOREM EffectsNeverExceedMoves == Spec => []EffectsFollowMoves
<1>1. TypeOK /\ CountInv => \A t \in Keys : Cardinality({i \in Ids : rows[i].key = t /\ fired[i] > 0}) <= Count(moved, t)
  <2> SUFFICES ASSUME TypeOK, CountInv, NEW t \in Keys
               PROVE  Cardinality({i \in Ids : rows[i].key = t /\ fired[i] > 0}) <= Count(moved, t)
    OBVIOUS
  <2> DEFINE F == {i \in Ids : rows[i].key = t /\ fired[i] > 0}
  <2>1. F \in SUBSET RowsOf(t)
    BY DEF RowsOf
  <2>2. IsFiniteSet(RowsOf(t))
    BY Finite
  <2> HIDE DEF F
  <2>3. Cardinality(F) \in Nat /\ Cardinality(F) <= Kept(t)
    BY <2>1, <2>2, FS_Subset, FS_CardinalityType DEF Kept
  <2>4. Kept(t) + Going(t) <= Count(moved, t)
    BY DEF CountInv, Covers
  <2>5. Kept(t) \in Nat /\ Going(t) \in Nat /\ Count(moved, t) \in Nat
    BY Finite, KeptType, CountType DEF Going, TypeOK
  <2>6. Cardinality(F) <= Count(moved, t)
    BY <2>3, <2>4, <2>5
  <2> QED
    BY <2>6 DEF F
<1>2. (~torn => EachRowFiresOnce)
        /\ (\A t \in Keys : Cardinality({i \in Ids : rows[i].key = t /\ fired[i] > 0}) <= Count(moved, t))
      => EffectsFollowMoves
  BY DEF EffectsFollowMoves
<1> QED
  BY <1>1, <1>2, CountStart, CountStep, EffectsLandOnce, TypeCorrect, PTL DEF Spec

-----------------------------------------------------------------------------
(* The other bound: no effect is left out.                                 *)

Queued(t) == \E i \in Ids : rows[i].key = t
OnItsWay(t) == \E r \in Requests : req[r].move = t /\ req[r].at \in Committed

\* A transition that was committed is on its way to its row, or has one, or had its
\* request die.
QueuedInv ==
    /\ \A i \in Ids : i > made => rows[i].key = NoKey
    /\ \A t \in Keys \ lost : Count(moved, t) > 0 => Queued(t) \/ OnItsWay(t)

\* Storing a row takes the key of no other one away.
LEMMA EnqueueQueues ==
  ASSUME OutboxTypeOK, \A i \in Ids : i > made => rows[i].key = NoKey, NEW k \in Keys \cup {NoKey}, Enqueue(k)
  PROVE  /\ \A i \in Ids : i > made' => rows'[i].key = NoKey
         /\ \A t \in Keys : Queued(t) => Queued(t)'
         /\ k \in Keys => Queued(k)'
<1> USE OutboxAssumption DEF Ids
<1>1. CASE k # NoKey /\ Duplicated(k)
  BY <1>1 DEF Enqueue, Duplicated, Queued
<1>2. CASE ~(k # NoKey /\ Duplicated(k))
  <2>1. made \in Nat /\ made < MaxRows /\ made' = made + 1 /\ made + 1 \in Ids
    BY <1>2 DEF Enqueue, OutboxTypeOK
  <2>2. \A i \in Ids : rows'[i].key = IF i = made + 1 THEN k ELSE rows[i].key
    BY <1>2, <2>1 DEF Enqueue, OutboxTypeOK, Row
  <2>3. rows[made + 1].key = NoKey
    BY <2>1
  <2> QED
    BY <2>1, <2>2, <2>3 DEF Queued
<1> QED
  BY <1>1, <1>2

\* A request passes every step to its row, or dies.
LEMMA RequestQueues ==
  ASSUME TypeOK, QueuedInv, NEW r \in Requests, RequestStep(r)
  PROVE  QueuedInv'
<1> DEFINE m == req[r].move
<1> USE DEF Committed
<1>1. \A q \in Requests : q # r => req'[q] = req[q]
  BY DEF RequestStep, Begin, Refuse, Commit, Conflict, LogHistory, SyncStatus, SyncField, SyncErrs, Trigger, Die,
     Goto, TypeOK
<1>2. \A t : OnItsWay(t) => OnItsWay(t)' \/ (t = m /\ req[r].at \in Committed)
  BY <1>1 DEF OnItsWay
<1>3. ASSUME UNCHANGED <<rows, made, moved, lost>>,
             req[r].at \in Committed => req'[r].at \in Committed /\ req'[r].move = m
      PROVE  QueuedInv'
  BY <1>2, <1>3 DEF QueuedInv, Queued, OnItsWay
<1>4. CASE Begin(r)
  BY <1>3, <1>4 DEF Begin, outboxVars
<1>5. CASE Refuse(r) \/ Conflict(r)
  BY <1>3, <1>5 DEF Refuse, Conflict, outboxVars
<1>6. CASE LogHistory(r) \/ SyncStatus(r) \/ SyncField(r) \/ SyncErrs(r)
  <2>1. req'[r].at \in Committed /\ req'[r].move = m
    BY <1>6 DEF LogHistory, SyncStatus, SyncField, SyncErrs, Goto, TypeOK
  <2> QED
    BY <1>3, <1>6, <2>1 DEF LogHistory, SyncStatus, SyncField, SyncErrs, outboxVars
<1>7. CASE Commit(r)
  <2>1. /\ req[r].at = "checked" /\ m \in Transitions /\ moved' = Append(moved, m)
        /\ req'[r].at = "log" /\ req'[r].move = m
        /\ UNCHANGED <<rows, made, lost>>
    BY <1>7 DEF Commit, outboxVars, Goto, TypeOK
  <2>2. \A t : t = m => OnItsWay(t)'
    BY <2>1 DEF OnItsWay
  <2>3. \A t : t # m => Count(moved', t) = Count(moved, t)
    BY <2>1, CountAppend DEF TypeOK
  <2>4. \A t : OnItsWay(t) => OnItsWay(t)'
    BY <1>2, <2>2
  <2> QED
    BY <2>1, <2>2, <2>3, <2>4 DEF QueuedInv, Queued, Count
<1>8. CASE Trigger(r)
  <2>1. /\ UNCHANGED <<moved, lost>>
        /\ IF m \in Keys THEN Enqueue(m) ELSE UNCHANGED <<rows, made>>
    BY <1>8 DEF Trigger
  <2>2. CASE m \in Keys
    <3>1. /\ \A i \in Ids : i > made' => rows'[i].key = NoKey
          /\ \A t \in Keys : Queued(t) => Queued(t)'
          /\ \A t \in Keys : t = m => Queued(t)'
      <4>1. PICK k \in Keys : k = m
        BY <2>2
      <4> QED
        BY <2>1, <4>1, EnqueueQueues DEF QueuedInv, TypeOK
    <3> QED
      BY <1>2, <2>1, <3>1 DEF QueuedInv
  <2>3. CASE m \notin Keys
    BY <1>2, <2>1, <2>3 DEF QueuedInv, Queued
  <2> QED
    BY <2>2, <2>3
<1>9. CASE Die(r)
  <2>1. lost' = lost \cup {m} /\ UNCHANGED <<rows, made, moved>>
    BY <1>9 DEF Die
  <2> QED
    BY <1>2, <2>1 DEF QueuedInv, Queued
<1> QED
  BY <1>4, <1>5, <1>6, <1>7, <1>8, <1>9 DEF RequestStep

LEMMA QueuedStep == TypeOK /\ QueuedInv /\ [Next]_vars => QueuedInv'
<1> SUFFICES ASSUME TypeOK, QueuedInv, [Next]_vars PROVE QueuedInv'
  OBVIOUS
<1>1. ASSUME UNCHANGED <<moved, lost, req>>,
             \A i \in Ids : i > made' => rows'[i].key = NoKey,
             \A t \in Keys : Queued(t) => Queued(t)'
      PROVE  QueuedInv'
  BY <1>1 DEF QueuedInv, OnItsWay
<1>2. CASE Post /\ UNCHANGED flowVars
  <2>1. /\ \A i \in Ids : i > made' => rows'[i].key = NoKey
        /\ \A t \in Keys : Queued(t) => Queued(t)'
    BY <1>2, EnqueueQueues DEF Post, QueuedInv, TypeOK
  <2> QED
    BY <1>1, <1>2, <2>1 DEF flowVars
<1>3. CASE (PruneDone \/ \E f \in Flushers : FlushStep(f)) /\ UNCHANGED flowVars
  <2>1. made' = made /\ \A i \in Ids : rows'[i].key = rows[i].key
    BY <1>3, KeysKept DEF TypeOK
  <2> QED
    BY <1>1, <1>3, <2>1 DEF QueuedInv, Queued, flowVars
<1>4. CASE UNCHANGED vars
  BY <1>4 DEF vars, outboxVars, QueuedInv, Queued, OnItsWay
<1> QED
  BY <1>2, <1>3, <1>4, RequestQueues DEF Next

\* Whatever overlaps, errs or is refused, each transition with a plugin that was committed
\* has a row of the outbox, or had one, or its request is about to store it, or one of its
\* requests has died after the commit (EffectsAreQueued).
THEOREM EffectsReachTheOutbox == Spec => []EffectsAreQueued
<1>1. Init => QueuedInv
  <2> SUFFICES ASSUME Init PROVE QueuedInv
    OBVIOUS
  <2>1. \A i \in Ids : rows[i].key = NoKey
    BY DEF Init, OutboxInit, Row
  <2>2. \A t : Count(moved, t) = 0
    BY FS_EmptySet DEF Init, Count
  <2> QED
    BY <2>1, <2>2 DEF QueuedInv
<1>2. QueuedInv => EffectsAreQueued
  BY DEF QueuedInv, Queued, OnItsWay, Committed, EffectsAreQueued
<1> QED
  BY <1>1, <1>2, QueuedStep, TypeCorrect, PTL DEF Spec

-----------------------------------------------------------------------------
(* What the turn of each row rests on (EveryRowIsTried).                   *)

\* Nobody gets in line before a row that waits, or gets in line again; and a flush that is
\* through with a row, and has not died, has taken it out of the line.
KeepsOrder ==
    \A i \in Ids : rows[i].status = "pending" =>
      \A j \in Ids : j < i /\ rows'[j].status = "pending" => rows[j].status = "pending"
QueuesOnce ==
    \A i \in Ids : rows[i].status \notin {"none", "pending"} => rows'[i].status # "pending"
TakesOut ==
    \A f \in Flushers : \A e \in flush[f].todo :
      e \notin flush'[f].todo /\ mishaps' = mishaps => rows'[e.id].status # "pending"

LineShortens == [][KeepsOrder /\ QueuesOnce /\ TakesOut]_vars

\* A new row is the last in line.
LEMMA EnqueueIsLast ==
  ASSUME OutboxTypeOK, FiredInv, NEW k \in Keys \cup {NoKey}, Enqueue(k)
  PROVE  \A i \in Ids : rows'[i].status = rows[i].status \/ (i > made /\ rows[i].status = "none")
<1> USE OutboxAssumption DEF Ids
<1>1. CASE UNCHANGED <<rows, made>>
  BY <1>1
<1>2. CASE /\ made < MaxRows
           /\ rows' = [rows EXCEPT ![made + 1] = Row(k, "pending", 0)]
  <2>1. made \in Nat /\ made + 1 \in Ids /\ rows[made + 1].status = "none"
    BY <1>2 DEF OutboxTypeOK, FiredInv
  <2> QED
    BY <1>2, <2>1 DEF OutboxTypeOK
<1> QED
  BY <1>1, <1>2 DEF Enqueue

\* No step of a flush, and no pruning, puts a row in line.
LEMMA NoneIsQueuedAgain ==
  ASSUME OutboxTypeOK, PruneDone \/ \E f \in Flushers : FlushStep(f)
  PROVE  \A i \in Ids : rows'[i] = rows[i] \/ rows'[i].status # "pending"
<1>1. CASE PruneDone
  BY <1>1 DEF PruneDone, OutboxTypeOK, Row
<1>2. ASSUME NEW f \in Flushers, FlushStep(f)
      PROVE  \A i \in Ids : rows'[i] = rows[i] \/ rows'[i].status # "pending"
  <2>1. CASE MarkDone(f) \/ MarkFailed(f)
    <3>1. PICK e \in flush[f].todo, st \in {"done", "failed", "gone"} : \E n : rows' = Written(e.id, st, n)
      BY <2>1 DEF MarkDone, MarkFailed
    <3> QED
      BY <3>1 DEF Written, Row, OutboxTypeOK
  <2>2. CASE ~MarkDone(f) /\ ~MarkFailed(f)
    BY <1>2, <2>2 DEF FlushStep, SelectDue, Execute, MarkDoneErrs, FlushDies
  <2> QED
    BY <2>1, <2>2
<1> QED
  BY <1>1, <1>2

\* What a flush leaves behind is out of the line.
LEMMA ThroughIsOut ==
  ASSUME OutboxTypeOK, FiredInv, NEW g \in Flushers, FlushStep(g), mishaps' = mishaps,
         NEW f \in Flushers, NEW d \in flush[f].todo, d \notin flush'[f].todo
  PROVE  rows'[d.id].status # "pending"
<1>1. d.id \in Ids /\ mishaps \in Nat
  BY OutboxAssumption DEF OutboxTypeOK
<1>2. ~MarkDoneErrs(g) /\ ~FlushDies(g)
  BY <1>1 DEF MarkDoneErrs, FlushDies, Mishap
<1>3. ~SelectDue(g)
  BY DEF SelectDue, FiredInv, OutboxTypeOK
<1>4. ~Execute(g)
  BY DEF Execute, At, OutboxTypeOK
<1>5. PICK e \in flush[g].todo, st \in {"done", "failed", "gone"} :
         (\E n : rows' = Written(e.id, st, n)) /\ Advance(g, e)
  BY <1>2, <1>3, <1>4 DEF FlushStep, MarkDone, MarkFailed
<1>6. f = g /\ d = e
  BY <1>5 DEF Advance, OutboxTypeOK
<1> QED
  BY <1>1, <1>5, <1>6 DEF Written, Row, Stored, OutboxTypeOK

\* The line before a pending row only gets shorter, and each row a flush goes through
\* shortens it (service.ts:86-136): with flushes that go on, its turn comes.
THEOREM LineOnlyShortens == Spec => LineShortens
<1> USE DEF KeepsOrder, QueuesOnce, TakesOut
<1>1. ASSUME OutboxTypeOK, FiredInv, NEW k \in Keys \cup {NoKey}, Enqueue(k) PROVE KeepsOrder /\ QueuesOnce
  <2>1. \A i \in Ids : rows[i].status = "pending" => i <= made
    BY <1>1 DEF FiredInv, OutboxTypeOK, Ids
  <2>2. \A i \in Ids : rows'[i].status = rows[i].status \/ (i > made /\ rows[i].status = "none")
    BY <1>1, EnqueueIsLast
  <2>3. made \in Nat /\ Ids \subseteq Nat
    BY <1>1, OutboxAssumption DEF OutboxTypeOK, Ids
  <2>4. KeepsOrder
    <3> SUFFICES ASSUME NEW i \in Ids, rows[i].status = "pending",
                        NEW j \in Ids, j < i, rows'[j].status = "pending"
                 PROVE  rows[j].status = "pending"
      OBVIOUS
    <3>1. i \in Nat /\ j \in Nat /\ i <= made
      BY <2>1, <2>3
    <3>2. ~(j > made)
      BY <2>3, <3>1
    <3> QED
      BY <2>2, <3>2
  <2>5. QueuesOnce
    BY <2>2
  <2> QED
    BY <2>4, <2>5
<1>2. ASSUME TypeOK, FiredInv, Next PROVE KeepsOrder /\ QueuesOnce /\ TakesOut
  <2>1. OutboxTypeOK
    BY <1>2 DEF TypeOK
  <2>2. CASE UNCHANGED <<rows, flush>>
    BY <2>2
  <2>3. CASE Post
    <3>1. KeepsOrder /\ QueuesOnce
      BY <1>1, <1>2, <2>1, <2>3 DEF Post
    <3>2. flush' = flush
      BY <2>3 DEF Post
    <3> QED
      BY <3>1, <3>2
  <2>4. CASE PruneDone
    <3>1. KeepsOrder /\ QueuesOnce
      BY <2>1, <2>4, NoneIsQueuedAgain
    <3>2. flush' = flush
      BY <2>4 DEF PruneDone
    <3> QED
      BY <3>1, <3>2
  <2>5. ASSUME NEW f \in Flushers, FlushStep(f) PROVE KeepsOrder /\ QueuesOnce /\ TakesOut
    <3>1. KeepsOrder /\ QueuesOnce
      BY <2>1, <2>5, NoneIsQueuedAgain
    <3>2. TakesOut
      BY <1>2, <2>1, <2>5, ThroughIsOut
    <3> QED
      BY <3>1, <3>2
  <2>6. ASSUME NEW r \in Requests, Trigger(r) PROVE KeepsOrder /\ QueuesOnce /\ TakesOut
    <3>1. flush' = flush
      BY <2>6 DEF Trigger
    <3>2. CASE req[r].move \in Keys
      <4>1. KeepsOrder /\ QueuesOnce
        BY <1>1, <1>2, <2>1, <2>6, <3>2 DEF Trigger
      <4> QED
        BY <3>1, <4>1
    <3>3. CASE req[r].move \notin Keys
      BY <2>6, <3>1, <3>3 DEF Trigger
    <3> QED
      BY <3>2, <3>3
  <2>7. ASSUME NEW r \in Requests, RequestStep(r), ~Trigger(r) PROVE UNCHANGED <<rows, flush>>
    BY <2>7 DEF RequestStep, Begin, Refuse, Commit, Conflict, LogHistory, SyncStatus, SyncField, SyncErrs,
       Die, outboxVars
  <2> QED
    BY <1>2, <2>2, <2>3, <2>4, <2>5, <2>6, <2>7 DEF Next
<1>3. TypeOK /\ FiredInv /\ [Next]_vars => [KeepsOrder /\ QueuesOnce /\ TakesOut]_vars
  BY <1>2
<1>4. Spec => [][KeepsOrder /\ QueuesOnce /\ TakesOut]_vars
  BY <1>3, FiredStart, FiredStep, TypeCorrect, PTL DEF Spec
<1> QED
  BY <1>4 DEF LineShortens

=============================================================================
