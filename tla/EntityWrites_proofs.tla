------------------------ MODULE EntityWrites_proofs ------------------------
(***************************************************************************)
(* What holds of the writes of a record for any set of requests, fields,   *)
(* patches and tables: the types; that a PUT changes only what it names;   *)
(* that If-Match sees every write committed before the request was read;   *)
(* and that requests that do not overlap implement EntityStore.            *)
(***************************************************************************)
EXTENDS EntityWrites, TLAPS

USE DEF Store!Fields, Fields

LEMMA PatchedType ==
    ASSUME NEW s \in [Fields -> Values], NEW p \in Patches
    PROVE  Store!Patched(s, p) \in [Fields -> Values]
<1>1. \A f \in DOMAIN p.set : p.set[f] \in Values
  BY WritesAssumption DEF Store!EntityAssumption
<1>. QED  BY <1>1 DEF Store!Patched

LEMMA FormulaType ==
    ASSUME NEW s \in [Fields -> Values]
    PROVE  Store!Formula(s) \in [Columns -> Values]
BY DEF Store!Formula

\* What an UPDATE leaves in the row is a row (updateItem, :638-657).
LEMMA UpdatedType ==
    ASSUME TypeOK, NEW r \in Requests, req[r].op = "put"
    PROVE  Updated(r) \in Rows
<1>. DEFINE p == req[r].patch
            merged == Store!Patched(base[r].set, p)
<1>1. p \in Patches /\ base[r] \in Rows /\ row \in Rows /\ stamp[r] \in Nat
  BY DEF TypeOK, Asks
<1>2. merged \in [Fields -> Values]
  BY <1>1, PatchedType DEF Rows
<1>3. Store!Formula(merged) \in [Columns -> Values]
  BY <1>2, FormulaType
<1>4. p.stage \in Stages \cup {None} /\ p.doc \in DocStatuses \cup {None}
  BY <1>1, WritesAssumption DEF Store!EntityAssumption
<1>5. /\ row.set \in [Fields -> Values]
      /\ row.stage \in Stages
      /\ row.doc \in DocStatuses
      /\ row.ver \in Nat
      /\ base[r].stage \in Stages
  BY <1>1 DEF Rows
<1>6. [f \in Fields |-> IF f \in Delta(r) \cup Metas THEN merged[f] ELSE row.set[f]]
         \in [Fields -> Values]
  BY <1>2, <1>5
<1>7. row.ver + 1 \in Nat
  BY <1>5
<1>8. Updated(r) =
        [row EXCEPT
          !.set   = [f \in Fields |-> IF f \in Delta(r) \cup Metas THEN merged[f] ELSE @[f]],
          !.total = Store!Formula(merged),
          !.stage = IF p.stage \in {None, base[r].stage} THEN @ ELSE p.stage,
          !.doc   = IF p.doc = None THEN @ ELSE p.doc,
          !.stamp = stamp[r],
          !.ver   = @ + 1]
  BY DEF Updated
<1>. HIDE DEF p, merged
<1>9. (IF p.stage \in {None, base[r].stage} THEN row.stage ELSE p.stage) \in Stages
  BY <1>4, <1>5
<1>10. (IF p.doc = None THEN row.doc ELSE p.doc) \in DocStatuses
  BY <1>4, <1>5
<1>. QED  BY <1>1, <1>3, <1>6, <1>7, <1>8, <1>9, <1>10 DEF Rows

LEMMA RecordType == \A r \in Rows : RecordOf(r) \in Store!Records
  BY DEF RecordOf, Rows, Store!Records

LEMMA FollowType ==
    TypeOK /\ row' \in Rows /\ (Follow \/ UNCHANGED record) => record' \in Store!Records
  BY RecordType DEF Follow, TypeOK

LEMMA InitType == Init => TypeOK
<1>. SUFFICES ASSUME Init PROVE TypeOK
  OBVIOUS
<1>1. row \in Rows
  BY DEF Init, Rows
<1>2. NoAsk \in Asks
  BY DEF NoAsk, Asks, Ops
<1>. QED  BY <1>1, <1>2, RecordType DEF Init, TypeOK

LEMMA NextType == TypeOK /\ [Next]_vars => TypeOK'
<1>. SUFFICES ASSUME TypeOK, [Next]_vars PROVE TypeOK'
  OBVIOUS
<1>. USE DEF TypeOK
<1>0. row.ver + 1 \in Nat /\ clock + 1 \in Nat /\ \A r \in Requests : stamp[r] \in Nat
  BY DEF Rows
<1>1. ASSUME NEW r \in Requests, Load(r) PROVE TypeOK'
  <2>1. row.stamp \in Nat /\ row.ver \in Nat
    BY DEF Rows
  <2>. QED  BY <1>1, <2>1 DEF Load, Goto
<1>2. ASSUME NEW r \in Requests, Check(r) PROVE TypeOK'
  BY <1>2 DEF Check, Goto, Overlaps
<1>3. ASSUME NEW r \in Requests, Stamp(r) PROVE TypeOK'
  <2>1. clock' \in Nat
    BY <1>3 DEF Stamp
  <2>. QED  BY <1>3, <2>1 DEF Stamp, Goto
<1>4. ASSUME NEW r \in Requests, Put(r) PROVE TypeOK'
  <2>1. row' \in Rows
    BY <1>4, UpdatedType DEF Put
  <2>2. pc' \in [Requests -> {"idle", "loaded", "checked", "stamped", "done", "refused"}]
    BY <1>4 DEF Put, Goto
  <2>. QED  BY <1>4, <2>1, <2>2, FollowType DEF Put
<1>5. ASSUME NEW r \in Requests, SoftDelete(r) PROVE TypeOK'
  <2>1. row' \in Rows
    BY <1>0, <1>5 DEF SoftDelete, SetDeleted, Rows
  <2>. QED  BY <1>5, <2>1, FollowType DEF SoftDelete, SetDeleted, Goto
<1>6. ASSUME NEW r \in Requests, Restore(r) PROVE TypeOK'
  <2>1. row' \in Rows
    BY <1>0, <1>6 DEF Restore, SetDeleted, Rows
  <2>. QED  BY <1>6, <2>1, FollowType DEF Restore, SetDeleted, Goto
<1>7. ASSUME NEW r \in Requests, HardDelete(r) PROVE TypeOK'
  <2>1. row' \in Rows
    BY <1>0, <1>7 DEF HardDelete, Rows
  <2>. QED  BY <1>7, <2>1, FollowType DEF HardDelete, Goto
<1>8. ASSUME NEW r \in Requests, Abort(r) PROVE TypeOK'
  BY <1>8 DEF Abort
<1>9. ASSUME Post PROVE TypeOK'
  <2>1. row' \in Rows
    BY <1>0, <1>9 DEF Post, Rows
  <2>. QED  BY <1>9, <2>1, FollowType DEF Post, Overlaps
<1>10. CASE UNCHANGED vars
  BY <1>10 DEF vars
<1>. QED  BY <1>1, <1>2, <1>3, <1>4, <1>5, <1>6, <1>7, <1>8, <1>9, <1>10 DEF Next, Write

\* The row, the requests and their snapshots keep their types under every
\* interleaving.
THEOREM TypeCorrect == Spec => []TypeOK
  BY InitType, NextType, PTL DEF Spec

\* Whatever interleaves, a PUT changes only the columns it names (:641-657).
THEOREM ColumnsSurvive == Spec => UnnamedColumnsSurvive
<1>1. ASSUME TypeOK, NEW r \in Requests, Put(r), NEW f \in Columns, row'.set[f] # row.set[f]
      PROVE  f \in DOMAIN req[r].patch.set
  <2>1. row' = Updated(r) /\ row \in Rows
    BY <1>1 DEF Put, TypeOK
  <2>2. f \in Fields /\ f \notin Metas
    BY <1>1, WritesAssumption DEF Store!EntityAssumption
  <2>. DEFINE merged == Store!Patched(base[r].set, req[r].patch)
  <2>3. row'.set = [g \in Fields |-> IF g \in Delta(r) \cup Metas THEN merged[g] ELSE row.set[g]]
    BY <2>1 DEF Updated, Rows
  <2>. HIDE DEF merged
  <2>4. f \in Delta(r)
    BY <1>1, <2>2, <2>3
  <2>. QED  BY <2>4 DEF Delta
<1>2. TypeOK => [\A r \in Requests : Put(r) =>
                   \A f \in Columns : row'.set[f] # row.set[f] => f \in DOMAIN req[r].patch.set]_vars
  BY <1>1
<1>. QED  BY <1>2, TypeCorrect, PTL DEF UnnamedColumnsSurvive, Spec

-----------------------------------------------------------------------------
(* If-Match: updated_at serves as the version of the record as long as no  *)
(* two writes take it in the same millisecond.                             *)

\* no stamp is ahead of the clock
StampsBounded ==
    /\ row.stamp <= clock
    /\ \A r \in Requests : loaded[r].stamp <= clock /\ stamp[r] <= clock

\* a stamp that is going to be written is nobody else's
PendingStampsFresh ==
    \A w \in Requests : pc[w] = "stamped" =>
      /\ stamp[w] # row.stamp
      /\ \A r \in Requests : loaded[r].stamp # stamp[w]
      /\ \A r \in Requests : pc[r] = "stamped" /\ stamp[r] = stamp[w] => r = w

\* a client whose stamp is the row's has loaded the row as it is
StampNamesVersion ==
    \A r \in Requests :
      row.ex # "gone" /\ loaded[r].stamp = row.stamp => loaded[r].ver = row.ver

StampInv ==
    TypeOK /\ StampsBounded /\ PendingStampsFresh /\ StampNamesVersion /\ StaleLoadIsRefused

LEMMA InitStamps == Init => StampInv
<1>. SUFFICES ASSUME Init PROVE StampInv
  OBVIOUS
<1>1. row.stamp = 0 /\ row.ver = 0
  BY DEF Init
<1>. QED
  BY <1>1, InitType DEF Init, StampInv, StampsBounded, PendingStampsFresh,
     StampNamesVersion, StaleLoadIsRefused

\* A write that replaces the stamp by that of a stamped request.
LEMMA WriteStamps ==
    ASSUME StampInv, NEW w \in Requests, pc[w] = "stamped", Goto(w, "stamped", "done"),
           row'.stamp = stamp[w], UNCHANGED <<clock, req, loaded, base, stamp>>
    PROVE  (StampsBounded /\ PendingStampsFresh /\ StampNamesVersion /\ StaleLoadIsRefused)'
<1>. USE DEF StampInv, TypeOK
<1>1. \A r \in Requests : pc'[r] = "stamped" => pc[r] = "stamped" /\ r # w
  BY DEF Goto
<1>2. \A r \in Requests : pc'[r] \in {"checked", "stamped"} => pc[r] \in {"checked", "stamped"}
  BY DEF Goto
<1>3. StampsBounded'
  BY DEF StampsBounded
<1>4. PendingStampsFresh'
  BY <1>1 DEF PendingStampsFresh
<1>5. StampNamesVersion'
  BY DEF PendingStampsFresh, StampNamesVersion
<1>6. StaleLoadIsRefused'
  BY <1>2 DEF StaleLoadIsRefused
<1>. QED  BY <1>3, <1>4, <1>5, <1>6

\* A step that leaves the row alone and moves no request to its write.
LEMMA QuietStamps ==
    ASSUME StampInv, UNCHANGED <<row, clock, loaded, base, stamp, req>>,
           \A r \in Requests : /\ pc'[r] = "stamped" => pc[r] = "stamped"
                               /\ pc'[r] = "checked" => pc[r] = "checked"
    PROVE  (StampsBounded /\ PendingStampsFresh /\ StampNamesVersion /\ StaleLoadIsRefused)'
BY DEF StampInv, StampsBounded, PendingStampsFresh, StampNamesVersion, StaleLoadIsRefused

LEMMA StampStep == DistinctStamps /\ StampInv /\ [Next]_vars => StampInv'
<1>. SUFFICES ASSUME DistinctStamps, StampInv, [Next]_vars PROVE StampInv'
  OBVIOUS
<1>. DEFINE Rest == StampsBounded /\ PendingStampsFresh /\ StampNamesVersion /\ StaleLoadIsRefused
<1>0. TypeOK /\ TypeOK'
  BY NextType DEF StampInv
<1>1. ASSUME NEW r \in Requests, Load(r) PROVE Rest'
  <2>. USE <1>0, <1>1 DEF Load, Goto, StampInv, TypeOK, Rows
  <2>1. StampsBounded'
    BY DEF StampsBounded
  <2>2. PendingStampsFresh'
    BY DEF PendingStampsFresh
  <2>3. StampNamesVersion'
    BY DEF StampNamesVersion
  <2>4. StaleLoadIsRefused'
    BY DEF StaleLoadIsRefused
  <2>. QED  BY <2>1, <2>2, <2>3, <2>4
<1>2. ASSUME NEW r \in Requests, Check(r) PROVE Rest'
  <2>. USE <1>0, <1>2 DEF Check, Goto, StampInv, TypeOK, Rows
  <2>1. StampsBounded'
    BY DEF StampsBounded
  <2>2. PendingStampsFresh'
    BY DEF PendingStampsFresh
  <2>3. StampNamesVersion'
    BY DEF StampNamesVersion
  <2>4. ASSUME pc'[r] = "checked", req[r].ifMatch PROVE row.ver = loaded[r].ver
    <3>1. Accepts(r)
      BY <2>4
    <3>2. req[r].op = "put"
      BY <2>4 DEF Asks
    <3>3. row.ex # "gone" /\ row.stamp = loaded[r].stamp
      BY <2>4, <3>1, <3>2 DEF Accepts, IfMatchHolds, Store!Legal, Store!Open
    <3>. QED  BY <3>3 DEF StampNamesVersion
  <2>5. StaleLoadIsRefused'
    BY <2>4 DEF StaleLoadIsRefused
  <2>. QED  BY <2>1, <2>2, <2>3, <2>5
<1>3. ASSUME NEW r \in Requests, Stamp(r) PROVE Rest'
  <2>. USE <1>0, <1>3 DEF Stamp, Goto, StampInv, TypeOK, Rows
  <2>0. clock' = clock + 1 /\ stamp' = [stamp EXCEPT ![r] = clock + 1]
    OBVIOUS
  <2>1. StampsBounded'
    BY <2>0 DEF StampsBounded
  <2>2. PendingStampsFresh'
    BY <2>0 DEF PendingStampsFresh, StampsBounded
  <2>3. StampNamesVersion'
    BY DEF StampNamesVersion
  <2>4. StaleLoadIsRefused'
    BY DEF StaleLoadIsRefused
  <2>. QED  BY <2>1, <2>2, <2>3, <2>4
<1>4. ASSUME NEW r \in Requests, Put(r) PROVE Rest'
  <2>1. CASE row.ex = "gone"
    BY <1>0, <1>4, <2>1, QuietStamps DEF Put, Goto, TypeOK
  <2>2. CASE row.ex # "gone"
    <3>1. row'.stamp = stamp[r]
      BY <1>0, <1>4, <2>2 DEF Put, Updated, TypeOK, Rows
    <3>. QED  BY <1>4, <2>2, <3>1, WriteStamps DEF Put, Goto
  <2>. QED  BY <2>1, <2>2
<1>5. ASSUME NEW r \in Requests, NEW op \in Ops, NEW ex \in {"trashed", "live"},
             SetDeleted(r, op, ex)
      PROVE  Rest'
  <2>1. CASE row.ex = "gone"
    BY <1>0, <1>5, <2>1, QuietStamps DEF SetDeleted, Goto, TypeOK
  <2>2. CASE row.ex # "gone"
    <3>1. row'.stamp = stamp[r]
      BY <1>0, <1>5, <2>2 DEF SetDeleted, TypeOK, Rows
    <3>. QED  BY <1>5, <2>2, <3>1, WriteStamps DEF SetDeleted, Goto
  <2>. QED  BY <2>1, <2>2
<1>6. ASSUME NEW r \in Requests, HardDelete(r) PROVE Rest'
  <2>. USE <1>0, <1>6 DEF HardDelete, Goto, StampInv, TypeOK, Rows
  <2>0. row'.ex = "gone" /\ row'.stamp = row.stamp
    OBVIOUS
  <2>1. StampsBounded'
    BY <2>0 DEF StampsBounded
  <2>2. PendingStampsFresh'
    BY <2>0 DEF PendingStampsFresh
  <2>3. StampNamesVersion'
    BY <2>0 DEF StampNamesVersion
  <2>4. StaleLoadIsRefused'
    BY DEF StaleLoadIsRefused
  <2>. QED  BY <2>1, <2>2, <2>3, <2>4
<1>7. ASSUME NEW r \in Requests, Abort(r) PROVE Rest'
  BY <1>0, <1>7, QuietStamps DEF Abort, TypeOK
<1>8. ASSUME Post PROVE Rest'
  <2>. USE <1>0, <1>8 DEF Post, StampInv, TypeOK, Rows
  <2>0. row'.stamp = clock + 1
    OBVIOUS
  <2>1. StampsBounded'
    BY <2>0 DEF StampsBounded
  <2>2. PendingStampsFresh'
    BY <2>0 DEF PendingStampsFresh, StampsBounded
  <2>3. StampNamesVersion'
    BY <2>0 DEF StampNamesVersion, StampsBounded
  <2>4. StaleLoadIsRefused'
    BY DEF StaleLoadIsRefused
  <2>. QED  BY <2>1, <2>2, <2>3, <2>4
<1>9. ASSUME UNCHANGED vars PROVE Rest'
  BY <1>9, QuietStamps DEF vars
<1>10. Rest'
  BY <1>1, <1>2, <1>3, <1>4, <1>5, <1>6, <1>7, <1>8, <1>9
     DEF Next, Write, SoftDelete, Restore, Ops
<1>. QED  BY <1>0, <1>10 DEF StampInv

\* With distinct stamps, a PUT with If-Match goes past its checks only if
\* nothing was written since its client loaded the record, for any number of
\* overlapping requests.
THEOREM IfMatchSeesEveryWrite == DistinctStamps /\ Spec => []StaleLoadIsRefused
<1>1. StampInv => StaleLoadIsRefused
  BY DEF StampInv
<1>2. ASSUME DistinctStamps PROVE Spec => []StaleLoadIsRefused
  <2>1. StampInv /\ [Next]_vars => StampInv'
    BY <1>2, StampStep
  <2>. QED  BY <1>1, <2>1, InitStamps, PTL DEF Spec
<1>. QED  BY <1>2

-----------------------------------------------------------------------------
(* Requests that do not overlap implement EntityStore.                     *)

\* the row's formula is current
Computed == row.ex # "gone" => row.total = Store!Formula(row.set)

\* what the checks found is still true of the row, and one request writes
SnapshotIsCurrent ==
    \A r \in Requests : r \in UnderWay =>
      /\ base[r] = row
      /\ Accepts(r)
      /\ \A q \in UnderWay : q = r

Current == SnapshotIsCurrent /\ Computed /\ record = RecordOf(row)

SerialInv == TypeOK /\ (calm => Current)

LEMMA InitSerial == Init => SerialInv /\ Store!Init
<1>. SUFFICES ASSUME Init PROVE SerialInv /\ Store!Init
  OBVIOUS
<1>1. TypeOK
  BY InitType
<1>2. row.ex = "live" /\ row.total = Store!Formula(row.set)
  BY DEF Init
<1>3. SnapshotIsCurrent
  BY DEF Init, SnapshotIsCurrent, UnderWay
<1>4. record = RecordOf(row)
  BY DEF Init
<1>5. Store!Init
  BY <1>1, <1>2, <1>4 DEF Store!Init, Store!Initial, RecordOf, TypeOK
<1>. QED  BY <1>1, <1>2, <1>3, <1>4, <1>5 DEF SerialInv, Current, Computed

\* With a current snapshot an UPDATE is the atomic Put of EntityStore.
LEMMA UpdatedIsPut ==
    ASSUME TypeOK, NEW r \in Requests, req[r].op = "put", base[r] = row,
           Store!Legal(row, req[r].patch), row' = Updated(r),
           record = RecordOf(row), record' = RecordOf(row')
    PROVE  Store!Next /\ Computed'
<1>. DEFINE p == req[r].patch
            merged == Store!Patched(row.set, p)
<1>1. p \in Patches
  BY DEF TypeOK, Asks
<1>2. row \in Rows /\ row.set \in [Fields -> Values]
  BY DEF TypeOK, Rows
<1>3. merged = [f \in Fields |-> IF f \in DOMAIN p.set THEN p.set[f] ELSE row.set[f]]
  BY DEF Store!Patched
<1>4. [f \in Fields |-> IF f \in Delta(r) \cup Metas THEN merged[f] ELSE row.set[f]] = merged
  <2>1. \A f \in Fields :
          (IF f \in Delta(r) \cup Metas THEN merged[f] ELSE row.set[f]) = merged[f]
    <3>. SUFFICES ASSUME NEW f \in Fields, f \notin Delta(r) PROVE row.set[f] = merged[f]
      OBVIOUS
    <3>1. f \in DOMAIN p.set => p.set[f] = row.set[f]
      BY DEF Delta
    <3>. QED  BY <1>3, <3>1
  <2>. QED  BY <1>3, <2>1
<1>5. /\ row'.ex = row.ex
      /\ row'.set = [f \in Fields |-> IF f \in Delta(r) \cup Metas THEN merged[f] ELSE row.set[f]]
      /\ row'.total = Store!Formula(merged)
      /\ row'.stage = IF p.stage \in {None, row.stage} THEN row.stage ELSE p.stage
      /\ row'.doc = IF p.doc = None THEN row.doc ELSE p.doc
  BY <1>2 DEF Updated, Rows
<1>6. row'.set = merged /\ row'.stage = (IF p.stage = None THEN row.stage ELSE p.stage)
  BY <1>4, <1>5
<1>7. Store!Legal(record, p)
  BY DEF Store!Legal, Store!Open, RecordOf
<1>8. Store!Put(p)
  BY <1>5, <1>6, <1>7 DEF Store!Put, RecordOf
<1>9. Computed'
  BY <1>5, <1>6 DEF Computed
<1>. QED  BY <1>1, <1>8, <1>9 DEF Store!Next

\* A step of a calm behaviour.
LEMMA CalmStep ==
    TypeOK /\ calm /\ calm' /\ Current /\ [Next]_vars => Current' /\ [Store!Next]_record
<1>. SUFFICES ASSUME TypeOK, calm, calm', Current, [Next]_vars
              PROVE  Current' /\ [Store!Next]_record
  OBVIOUS
<1>0. TypeOK
  OBVIOUS
<1>. DEFINE Goal == Current' /\ [Store!Next]_record
<1>a. ASSUME row' = row, UNCHANGED record
      PROVE  Computed' /\ (record = RecordOf(row))' /\ [Store!Next]_record
  BY <1>a DEF Current, Computed, RecordOf
\* a request that leaves, or never entered, is no part of the claim
<1>b. ASSUME NEW r \in Requests, r \in UnderWay, NEW from \in {"checked", "stamped"},
             NEW to \in {"done", "refused"}, Goto(r, from, to)
      PROVE  SnapshotIsCurrent'
  <2>1. UnderWay' = {}
    BY <1>0, <1>b DEF Current, SnapshotIsCurrent, UnderWay, Goto, TypeOK
  <2>. QED  BY <2>1 DEF SnapshotIsCurrent
<1>c. ASSUME row' = row, UnderWay' \subseteq UnderWay, UNCHANGED base,
             \A q \in UnderWay : req'[q] = req[q] /\ loaded'[q] = loaded[q]
      PROVE  SnapshotIsCurrent'
  BY <1>c DEF Current, SnapshotIsCurrent, Accepts, IfMatchHolds, UnderWay
<1>1. ASSUME NEW r \in Requests, Load(r) PROVE Goal
  <2>1. r \notin UnderWay /\ UnderWay' \subseteq UnderWay
    BY <1>0, <1>1 DEF Load, Goto, UnderWay, TypeOK
  <2>2. \A q \in UnderWay : req'[q] = req[q] /\ loaded'[q] = loaded[q]
    BY <1>0, <1>1, <2>1 DEF Load, UnderWay, TypeOK
  <2>. QED  BY <1>1, <1>a, <1>c, <2>1, <2>2 DEF Load, Current
<1>2. ASSUME NEW r \in Requests, Check(r) PROVE Goal
  <2>1. UnderWay = {} /\ row' = row /\ base'[r] = row
    BY <1>0, <1>2 DEF Check, Overlaps, TypeOK
  <2>2. UnderWay' \subseteq {r} /\ (r \in UnderWay' => Accepts(r))
    BY <1>0, <1>2, <2>1 DEF Check, Goto, UnderWay, TypeOK
  <2>3. Accepts(r) => Accepts(r)'
    BY <1>2 DEF Check, Accepts, IfMatchHolds
  <2>4. SnapshotIsCurrent'
    BY <2>1, <2>2, <2>3 DEF SnapshotIsCurrent
  <2>. QED  BY <1>2, <1>a, <2>1, <2>4 DEF Check, Current
<1>3. ASSUME NEW r \in Requests, Stamp(r) PROVE Goal
  <2>1. UnderWay' = UnderWay
    BY <1>0, <1>3 DEF Stamp, Goto, UnderWay, TypeOK
  <2>. QED  BY <1>3, <1>a, <1>c, <2>1 DEF Stamp, Current
<1>4. ASSUME NEW r \in Requests, Put(r) PROVE Goal
  <2>1. r \in UnderWay /\ req[r].op = "put"
    BY <1>4 DEF Put, Goto, UnderWay
  <2>2. base[r] = row /\ Store!Legal(row, req[r].patch)
    BY <2>1 DEF Current, SnapshotIsCurrent, Accepts
  <2>3. row.ex # "gone"
    BY <2>2 DEF Store!Legal, Store!Open
  <2>4. record = RecordOf(row) /\ record' = RecordOf(row')
    BY <1>4 DEF Put, Follow, Current
  <2>5. Store!Next /\ Computed'
    BY <1>0, <1>4, <2>1, <2>2, <2>3, <2>4, UpdatedIsPut DEF Put
  <2>. QED  BY <1>4, <1>b, <2>1, <2>3, <2>4, <2>5 DEF Put, Current
<1>5. ASSUME NEW r \in Requests, SoftDelete(r) PROVE Goal
  <2>1. r \in UnderWay /\ req[r].op = "trash"
    BY <1>5 DEF SoftDelete, SetDeleted, Goto, UnderWay
  <2>2. Store!Open(row)
    BY <2>1 DEF Current, SnapshotIsCurrent, Accepts
  <2>3. row.ex \in {"live", "trashed"} /\ Store!Open(record) /\ record.ex = row.ex
    BY <1>0, <2>2 DEF Store!Open, TypeOK, Rows, RecordOf, Current
  <2>4. /\ row'.ex = "trashed" /\ row'.set = row.set /\ row'.total = row.total
        /\ row'.stage = row.stage /\ row'.doc = row.doc
    BY <1>0, <1>5, <2>3 DEF SoftDelete, SetDeleted, TypeOK, Rows
  <2>7. record = RecordOf(row) /\ record' = RecordOf(row')
    BY <1>5 DEF SoftDelete, SetDeleted, Follow, Current
  <2>5. Store!SetEx({"live", "trashed"}, "trashed")
    BY <2>3, <2>4, <2>7 DEF Store!SetEx, RecordOf
  <2>6. Computed'
    BY <2>3, <2>4 DEF Current, Computed
  <2>. QED  BY <1>5, <1>b, <2>1, <2>5, <2>6, <2>7 DEF Store!Next, SoftDelete, SetDeleted, Current
<1>6. ASSUME NEW r \in Requests, Restore(r) PROVE Goal
  <2>1. r \in UnderWay /\ req[r].op = "restore"
    BY <1>6 DEF Restore, SetDeleted, Goto, UnderWay
  <2>2. Store!Open(row) /\ row.ex = "trashed"
    BY <2>1 DEF Current, SnapshotIsCurrent, Accepts
  <2>3. Store!Open(record) /\ record.ex = "trashed"
    BY <2>2 DEF Store!Open, RecordOf, Current
  <2>4. /\ row'.ex = "live" /\ row'.set = row.set /\ row'.total = row.total
        /\ row'.stage = row.stage /\ row'.doc = row.doc
    BY <1>0, <1>6, <2>2 DEF Restore, SetDeleted, TypeOK, Rows
  <2>7. record = RecordOf(row) /\ record' = RecordOf(row')
    BY <1>6 DEF Restore, SetDeleted, Follow, Current
  <2>5. Store!SetEx({"trashed"}, "live")
    BY <2>3, <2>4, <2>7 DEF Store!SetEx, RecordOf
  <2>6. Computed'
    BY <2>2, <2>4 DEF Current, Computed
  <2>. QED  BY <1>6, <1>b, <2>1, <2>5, <2>6, <2>7 DEF Store!Next, Restore, SetDeleted, Current
<1>7. ASSUME NEW r \in Requests, HardDelete(r) PROVE Goal
  <2>1. r \in UnderWay /\ req[r].op = "purge"
    BY <1>7 DEF HardDelete, Goto, UnderWay
  <2>2. Store!Open(row)
    BY <2>1 DEF Current, SnapshotIsCurrent, Accepts
  <2>3. row.ex \in {"live", "trashed"} /\ Store!Open(record) /\ record.ex = row.ex
    BY <1>0, <2>2 DEF Store!Open, TypeOK, Rows, RecordOf, Current
  <2>4. /\ row'.ex = "gone" /\ row'.set = row.set /\ row'.total = row.total
        /\ row'.stage = row.stage /\ row'.doc = row.doc
    BY <1>0, <1>7 DEF HardDelete, TypeOK, Rows
  <2>7. record = RecordOf(row) /\ record' = RecordOf(row')
    BY <1>7 DEF HardDelete, Follow, Current
  <2>5. Store!SetEx({"live", "trashed"}, "gone")
    BY <2>3, <2>4, <2>7 DEF Store!SetEx, RecordOf
  <2>6. Computed'
    BY <2>4 DEF Computed
  <2>. QED  BY <1>7, <1>b, <2>1, <2>5, <2>6, <2>7 DEF Store!Next, HardDelete, Current
<1>8. ASSUME NEW r \in Requests, Abort(r) PROVE Goal
  <2>1. UnderWay' \subseteq UnderWay
    BY <1>0, <1>8 DEF Abort, UnderWay, TypeOK
  <2>. QED  BY <1>8, <1>a, <1>c, <2>1 DEF Abort, Current
<1>9. ASSUME Post PROVE Goal
  <2>1. UnderWay = {} /\ UnderWay' = {}
    BY <1>9 DEF Post, Overlaps, UnderWay
  <2>2. /\ row'.ex = row.ex /\ row'.set = row.set /\ row'.total = row.total
        /\ row'.stage = row.stage /\ row'.doc = "confirmed"
    BY <1>0, <1>9 DEF Post, TypeOK, Rows
  <2>3. record = RecordOf(row) /\ record' = RecordOf(row')
    BY <1>9 DEF Post, Follow, Current
  <2>4. Store!Post
    BY <1>9, <2>2, <2>3 DEF Post, Store!Post, RecordOf
  <2>5. Computed'
    BY <2>2 DEF Current, Computed
  <2>. QED  BY <2>1, <2>3, <2>4, <2>5 DEF Store!Next, SnapshotIsCurrent, Current
<1>10. ASSUME UNCHANGED vars PROVE Goal
  <2>1. UnderWay' = UnderWay
    BY <1>10 DEF vars, UnderWay
  <2>. QED  BY <1>10, <1>a, <1>c, <2>1 DEF vars, Current
<1>. QED
  BY <1>1, <1>2, <1>3, <1>4, <1>5, <1>6, <1>7, <1>8, <1>9, <1>10 DEF Next, Write

LEMMA SerialStep == SerialInv /\ [Next]_vars => SerialInv' /\ [Store!Next]_record
<1>. SUFFICES ASSUME SerialInv, [Next]_vars PROVE SerialInv' /\ [Store!Next]_record
  OBVIOUS
<1>1. TypeOK /\ TypeOK'
  BY NextType DEF SerialInv
<1>2. calm' => calm
  BY <1>1 DEF Next, vars, Write, Load, Check, Stamp, Put, SoftDelete, Restore, SetDeleted,
     HardDelete, Abort, Post, Overlaps
<1>3. CASE calm'
  BY <1>1, <1>2, <1>3, CalmStep DEF SerialInv
<1>4. CASE ~calm'
  <2>1. UNCHANGED record
    BY <1>4 DEF Next, vars, Write, Load, Check, Stamp, Put, SoftDelete, Restore, SetDeleted,
       HardDelete, Abort, Post, Follow
  <2>. QED  BY <1>1, <1>4, <2>1 DEF SerialInv
<1>. QED  BY <1>3, <1>4

\* As long as requests do not overlap between check and write they change the record
\* as EntityStore says (collection-mutation.service.ts:473-756).
THEOREM WritesImplementStore == Spec => StoreSpec
  BY InitSerial, SerialStep, PTL DEF Spec, StoreSpec, Store!Spec

\* ... and its stored formula follows its columns (:564-573).
THEOREM FormulaIsCurrent == Spec => []FormulaFollowsRow
<1>1. SerialInv => FormulaFollowsRow
  BY DEF SerialInv, Current, Computed, FormulaFollowsRow
<1>. QED  BY <1>1, InitSerial, SerialStep, PTL DEF Spec

\* As long as requests do not overlap, the stage moves along the status machine only
\* (:605-626).
THEOREM StageIsLegal == Spec => StageMovesLegally
<1>1. ASSUME SerialInv, SerialInv', calm', calm, [Store!Next]_record, row'.stage # row.stage
      PROVE  <<row.stage, row'.stage>> \in StageTable
  <2>1. record.stage = row.stage /\ record'.stage = row'.stage
    BY <1>1 DEF SerialInv, Current, RecordOf
  <2>2. record \in Store!Records /\ Store!Next
    BY <1>1, <2>1 DEF SerialInv, TypeOK
  <2>3. PICK p \in Patches : Store!Put(p)
    <3>1. ASSUME NEW from, NEW to, Store!SetEx(from, to) PROVE FALSE
      BY <1>1, <2>1, <2>2, <3>1 DEF Store!SetEx, Store!Records
    <3>2. ASSUME Store!Post PROVE FALSE
      BY <1>1, <2>1, <2>2, <3>2 DEF Store!Post, Store!Records
    <3>. QED  BY <2>2, <3>1, <3>2 DEF Store!Next
  <2>4. p.stage \notin {None, record.stage} /\ record'.stage = p.stage
    BY <1>1, <2>1, <2>3 DEF Store!Put
  <2>. QED  BY <2>1, <2>3, <2>4 DEF Store!Put, Store!Legal
<1>2. [Next]_vars /\ TypeOK /\ calm' => calm
  BY DEF Next, vars, Write, Load, Check, Stamp, Put, SoftDelete, Restore, SetDeleted,
     HardDelete, Abort, Post, Overlaps, TypeOK
<1>3. SerialInv /\ SerialInv' /\ [Next]_vars /\ [Store!Next]_record
        => [calm' /\ row'.stage # row.stage => <<row.stage, row'.stage>> \in StageTable]_vars
  BY <1>1, <1>2 DEF SerialInv
<1>. QED  BY <1>3, InitSerial, SerialStep, PTL DEF Spec, StageMovesLegally

\* ... and no request writes a frozen record (:180-197), where posting a draft is not
\* a write of a frozen record.
THEOREM FrozenIsKept == "draft" \notin Frozen => (Spec => FrozenIsImmutable)
<1>1. ASSUME "draft" \notin Frozen, SerialInv, calm, calm', row.doc \in Frozen, Next
      PROVE  row' = row
  <2>1. ASSUME NEW r \in Requests, r \in UnderWay PROVE FALSE
    <3>1. base[r] = row /\ Accepts(r)
      BY <1>1, <2>1 DEF SerialInv, Current, SnapshotIsCurrent
    <3>. QED  BY <1>1, <3>1 DEF Accepts, Store!Legal, Store!Open
  <2>2. ASSUME NEW r \in Requests, Write(r) PROVE r \in UnderWay
    BY <2>2 DEF Write, Put, SoftDelete, Restore, SetDeleted, HardDelete, Goto, UnderWay
  <2>3. ~Post
    BY <1>1 DEF Post
  <2>. QED  BY <1>1, <2>1, <2>2, <2>3 DEF Next, Load, Check, Stamp, Abort
<1>2. [Next]_vars /\ TypeOK /\ calm' => calm
  BY DEF Next, vars, Write, Load, Check, Stamp, Put, SoftDelete, Restore, SetDeleted,
     HardDelete, Abort, Post, Overlaps, TypeOK
<1>3. ASSUME "draft" \notin Frozen
      PROVE  SerialInv /\ [Next]_vars => [calm' /\ row.doc \in Frozen => row' = row]_vars
  BY <1>1, <1>2, <1>3 DEF SerialInv, vars
<1>4. ASSUME "draft" \notin Frozen PROVE Spec => FrozenIsImmutable
  BY <1>3, <1>4, InitSerial, SerialStep, PTL DEF Spec, FrozenIsImmutable
<1>. QED  BY <1>4

=============================================================================
