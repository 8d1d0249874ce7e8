------------------------- MODULE Idempotency_proofs -------------------------
(***************************************************************************)
(* What Idempotency promises, for any number of calls and keys and any     *)
(* lease: while no claim of a key became stale and its row was not pruned, *)
(* a call that owns the key is the only one, the row says processing, and  *)
(* once the operation landed nobody is in a position to run it again; and  *)
(* a claim that nobody holds only ages, until it is taken over or pruned.  *)
(***************************************************************************)
EXTENDS Idempotency, TLAPS

USE IdempotencyAssumption

\* an UPDATE of a row by a well-typed one
LEMMA SetTyped ==
    ASSUME TypeOK, NEW k \in Keys, NEW new \in Row, Set(k, new)
    PROVE  row' \in [Keys -> Row]
  BY DEF Set, TypeOK

LEMMA NoRowTyped == NoRow \in Row
  BY DEF NoRow, Row

\* what Record, Take and Undo make of a row
LEMMA RowTyped ==
    ASSUME NEW r \in Row, NEW of \in Calls \cup {None}
    PROVE  /\ [r EXCEPT !.updated = 0] \in Row
           /\ [r EXCEPT !.st = "processing", !.updated = 0] \in Row
           /\ [r EXCEPT !.st = "failed", !.updated = 0] \in Row
           /\ [r EXCEPT !.st = "done", !.of = of, !.updated = 0] \in Row
<1>. 0 \in 0..Keep
  OBVIOUS
<1>. QED  BY DEF Row

\* what Record writes: the response, if there is one
LEMMA RecordWrites ==
    ASSUME NEW c \in Calls, Record(c)
    PROVE  \E of \in {c, None} :
             Set(key[c], [row[key[c]] EXCEPT !.st = "done", !.of = of, !.updated = 0])
  BY DEF Record

\* recording touches no other row
LEMMA RecordElsewhere ==
    ASSUME TypeOK, NEW c \in Calls, Record(c), NEW k \in Keys, key[c] # k
    PROVE  row'[k] = row[k]
  BY RecordWrites DEF Set, TypeOK

LEMMA StepType ==
    ASSUME TypeOK, NEW c \in Calls,
           Step(c) \/ RecordErrs(c) \/ Crash(c) \/ Again(c)
    PROVE  TypeOK'
<1>0. key[c] \in Keys /\ row[key[c]] \in Row /\ NoRow \in Row
  BY NoRowTyped DEF TypeOK
<1>1. CASE Claim(c)
  <2>1. row' \in [Keys -> Row]
    <3>1. [NoRow EXCEPT !.st = "processing"] \in Row
      BY <1>0 DEF Row
    <3>2. [row[key[c]] EXCEPT !.updated = 0] \in Row
      BY <1>0 DEF Row
    <3>. QED  BY <1>1, <3>1, <3>2 DEF Claim, TypeOK
  <2>. QED  BY <1>1, <2>1 DEF Claim, Goto, TypeOK
<1>2. CASE Look(c)
  <2>1. row[key[c]].of \in Calls \cup {None}
    BY <1>0 DEF Row
  <2>. QED  BY <1>2, <2>1 DEF Look, Goto, TypeOK, Answers
<1>3. CASE Take(c)
  <2>1. [row[key[c]] EXCEPT !.st = "processing", !.updated = 0] \in Row
    BY <1>0, RowTyped
  <2>2. row' \in {row, [row EXCEPT ![key[c]] = [row[key[c]] EXCEPT !.st = "processing", !.updated = 0]]}
    BY <1>3 DEF Take, TypeOK, Row
  <2>3. row' \in [Keys -> Row]
    BY <1>0, <2>1, <2>2 DEF TypeOK
  <2>. QED  BY <1>3, <2>3 DEF Take, Goto, TypeOK, Answers
<1>4. CASE Perform(c)
  BY <1>4 DEF Perform, Goto, TypeOK
<1>5. CASE Record(c)
  <2>1. \A of \in {c} \cup Void : [row[key[c]] EXCEPT !.st = "done", !.of = of, !.updated = 0] \in Row
    BY <1>0, RowTyped
  <2>2. PICK of \in {c} \cup Void :
           /\ Set(key[c], [row[key[c]] EXCEPT !.st = "done", !.of = of, !.updated = 0])
           /\ got' = [got EXCEPT ![c] = of]
    BY <1>5 DEF Record
  <2>3. row' \in [Keys -> Row]
    BY <1>0, <2>1, <2>2, SetTyped
  <2>. QED  BY <1>5, <2>2, <2>3 DEF Record, Goto, TypeOK, Answers
<1>6. CASE Undo(c)
  <2>1. [row[key[c]] EXCEPT !.st = "failed", !.updated = 0] \in Row
    BY <1>0, RowTyped
  <2>2. row' \in [Keys -> Row]
    <3>1. PICK new \in Row : Set(key[c], new)
      BY <1>0, <1>6, <2>1 DEF Undo
    <3>. QED  BY <1>0, <3>1, SetTyped
  <2>. QED  BY <1>6, <2>2 DEF Undo, Goto, TypeOK, Answers
<1>7. CASE RecordErrs(c) \/ Crash(c) \/ Again(c)
  BY <1>7 DEF RecordErrs, Crash, Again, Goto, TypeOK, Answers
<1>. QED  BY <1>1, <1>2, <1>3, <1>4, <1>5, <1>6, <1>7 DEF Step

LEMMA NextType == TypeOK /\ [Next]_vars => TypeOK'
<1>. SUFFICES ASSUME TypeOK, [Next]_vars PROVE TypeOK'
  OBVIOUS
<1>1. ASSUME NEW k \in Keys, Prune(k) PROVE TypeOK'
  BY <1>1, NoRowTyped DEF Prune, TypeOK
<1>2. CASE Tick
  <2>1. ASSUME NEW k \in Keys
        PROVE  [row[k] EXCEPT !.created = Older(@, Ttl), !.updated = Older(@, Keep)] \in Row
    <3>1. row[k] \in Row
      BY DEF TypeOK
    <3>2. Older(row[k].created, Ttl) \in 0..Ttl /\ Older(row[k].updated, Keep) \in 0..Keep
      BY <3>1 DEF Row, Older
    <3>. QED  BY <3>1, <3>2 DEF Row
  <2>. QED  BY <1>2, <2>1, NoRowTyped DEF Tick, TypeOK
<1>3. CASE UNCHANGED vars
  BY <1>3 DEF vars, TypeOK
<1>. QED  BY <1>1, <1>2, <1>3, StepType DEF Next

\* Every reachable state is well typed (service.ts:46, the columns of the row).
THEOREM TypeCorrect == Spec => []TypeOK
<1>1. Init => TypeOK
  BY NoRowTyped DEF Init, TypeOK
<1>. QED  BY <1>1, NextType, PTL DEF Spec

-----------------------------------------------------------------------------
(* Values.                                                                 *)

\* whatever is cached or returned has landed
Landed ==
    /\ \A k \in Keys : row[k].of # None => row[k].of \in landed[k]
    /\ \A c \in Calls : pc[c] = "record" => c \in landed[key[c]]
    /\ ValuesLanded

LEMMA LandedStep == TypeOK /\ Landed /\ [Next]_vars => Landed'
<1>. SUFFICES ASSUME TypeOK, Landed, [Next]_vars PROVE Landed'
  OBVIOUS
<1>1. ASSUME NEW c \in Calls, Claim(c) \/ Look(c) \/ Take(c) PROVE Landed'
  <2>1. \A k \in Keys : row'[k].of = row[k].of \/ row'[k].of = None
    <3>1. row[key[c]] \in Row /\ key[c] \in Keys
      BY DEF TypeOK
    <3>2. \A k \in Keys : k # key[c] => row'[k] = row[k]
      BY <1>1 DEF Claim, Look, Take, TypeOK
    <3>3. CASE Claim(c)
      BY <3>1, <3>2, <3>3 DEF Claim, TypeOK, Row, NoRow
    <3>4. CASE Look(c)
      BY <3>4 DEF Look
    <3>5. CASE Take(c)
      BY <3>1, <3>2, <3>5 DEF Take, TypeOK, Row
    <3>. QED  BY <1>1, <3>3, <3>4, <3>5
  <2>2. landed' = landed /\ key' = key /\ \A d \in Calls : pc'[d] = "record" => pc[d] = "record"
    BY <1>1 DEF Claim, Look, Take, Goto, TypeOK
  <2>3. \A d \in Calls : pc'[d] = "value" /\ got'[d] # None =>
          (pc[d] = "value" /\ got'[d] = got[d]) \/ got'[d] = row[key[d]].of
    BY <1>1 DEF Claim, Look, Take, Goto, TypeOK
  <2>. QED  BY <2>1, <2>2, <2>3 DEF Landed, ValuesLanded, TypeOK
<1>2. ASSUME NEW c \in Calls, Perform(c) PROVE Landed'
  BY <1>2 DEF Perform, Goto, Landed, ValuesLanded, TypeOK
<1>3. ASSUME NEW c \in Calls, Record(c) PROVE Landed'
  <2>1. c \in landed[key[c]]
    BY <1>3 DEF Record, Goto, Landed
  <2>2. \A k \in Keys : row'[k].of = row[k].of \/ row'[k].of = None \/ (k = key[c] /\ row'[k].of = c)
    BY <1>3 DEF Record, Set, TypeOK, Row
  <2>3. \A d \in Calls : pc'[d] = "value" /\ got'[d] # None =>
          (pc[d] = "value" /\ got'[d] = got[d]) \/ (d = c /\ got'[d] = c)
    BY <1>3 DEF Record, Goto, TypeOK
  <2>4. landed' = landed /\ key' = key /\ \A d \in Calls : pc'[d] = "record" => pc[d] = "record"
    BY <1>3 DEF Record, Goto, TypeOK
  <2>. QED  BY <2>1, <2>2, <2>3, <2>4 DEF Landed, ValuesLanded
<1>4. ASSUME NEW c \in Calls, Undo(c) PROVE Landed'
  <2>1. \A k \in Keys : row'[k].of = row[k].of \/ row'[k].of = None
    <3>1. row[key[c]] \in Row /\ key[c] \in Keys
      BY DEF TypeOK
    <3>2. [row[key[c]] EXCEPT !.st = "failed", !.updated = 0].of = row[key[c]].of /\ NoRow.of = None
      BY <3>1 DEF Row, NoRow
    <3>3. PICK new : Set(key[c], new) /\ new.of \in {row[key[c]].of, None}
      BY <1>4, <3>2 DEF Undo
    <3>. QED  BY <3>1, <3>3 DEF Set, TypeOK
  <2>. QED  BY <1>4, <2>1 DEF Undo, Goto, Landed, ValuesLanded, TypeOK
<1>5. ASSUME NEW c \in Calls, RecordErrs(c) \/ Crash(c) \/ Again(c) PROVE Landed'
  BY <1>5 DEF RecordErrs, Crash, Again, Goto, Landed, ValuesLanded, TypeOK
<1>6. ASSUME NEW k \in Keys, Prune(k) PROVE Landed'
  BY <1>6 DEF Prune, NoRow, Landed, ValuesLanded, TypeOK
<1>7. CASE Tick
  <2>1. \A k \in Keys : row'[k].of = row[k].of \/ row'[k].of = None
    <3>1. ASSUME NEW k \in Keys, NEW a, NEW b
          PROVE  [row[k] EXCEPT !.created = a, !.updated = b].of = row[k].of /\ NoRow.of = None
      BY DEF TypeOK, Row, NoRow
    <3>. QED  BY <1>7, <3>1 DEF Tick
  <2>. QED  BY <1>7, <2>1 DEF Tick, Landed, ValuesLanded
<1>8. CASE UNCHANGED vars
  BY <1>8 DEF vars, Landed, ValuesLanded
<1>. QED  BY <1>1, <1>2, <1>3, <1>4, <1>5, <1>6, <1>7, <1>8 DEF Next, Step

\* No call returns a value that no operation produced: neither a takeover nor a
\* late owner, a failed call or pruning can make one up (service.ts:84-110).
THEOREM ValuesHaveLanded == Spec => []ValuesLanded
<1>1. Init => Landed
  BY DEF Init, NoRow, Landed, ValuesLanded
<1>2. Landed => ValuesLanded
  BY DEF Landed
<1>. QED  BY <1>1, <1>2, LandedStep, TypeCorrect, PTL DEF Spec

-----------------------------------------------------------------------------
(* Ownership.                                                              *)

\* an owner is alone, and the row says so
Owned(k) ==
    ~late[k] => /\ \A c, d \in Owners(k) : c = d
                /\ Owners(k) # {} => row[k].st = "processing"

\* once the operation landed, the row cannot be claimed, and its owner has nothing
\* left to do but to record it
Settled(k) ==
    ~late[k] /\ ~amiss[k] /\ landed[k] # {} =>
      /\ row[k].st \in {"processing", "done"}
      /\ \A c \in Owners(k) : pc[c] = "record"

Exclusion == \A k \in Keys : Owned(k) /\ Settled(k)

\* a step that leaves key k alone
LEMMA Elsewhere ==
    ASSUME NEW k \in Keys, Owned(k) /\ Settled(k), row'[k].st = row[k].st,
           landed'[k] = landed[k], late[k] => late'[k], amiss[k] => amiss'[k],
           key' = key, \A c \in Calls : key[c] = k => pc'[c] = pc[c]
    PROVE  Owned(k)' /\ Settled(k)'
  BY DEF Owned, Settled, Owners

\* a call that was no owner stays none
LEMMA NoOwner ==
    ASSUME NEW k \in Keys, Owned(k) /\ Settled(k), row'[k].st = row[k].st,
           landed' = landed, late' = late, amiss' = amiss, key' = key,
           \A c \in Calls : pc'[c] = pc[c] \/ pc'[c] \notin {"run", "record", "undo"}
    PROVE  Owned(k)' /\ Settled(k)'
  BY DEF Owned, Settled, Owners

LEMMA ExclusionStep == TypeOK /\ Exclusion /\ [Next]_vars => Exclusion'
<1>. SUFFICES ASSUME TypeOK, Exclusion, [Next]_vars, NEW k \in Keys
              PROVE  Owned(k)' /\ Settled(k)'
  BY DEF Exclusion
<1>0. Owned(k) /\ Settled(k)
  BY DEF Exclusion
<1>. DEFINE Goal == Owned(k)' /\ Settled(k)'
<1>1. ASSUME NEW c \in Calls, Step(c) \/ RecordErrs(c) \/ Crash(c) \/ Again(c), key[c] # k
      PROVE  Goal
  <2>1. \A d \in Calls : key[d] = k => pc'[d] = pc[d]
    BY <1>1 DEF Step, Claim, Look, Take, Perform, Record, Undo, RecordErrs, Crash, Again, Goto, TypeOK
  <2>2. row'[k].st = row[k].st
    <3>1. CASE Record(c)
      BY <1>1, <3>1, RecordElsewhere
    <3>2. CASE ~Record(c)
      BY <1>1, <3>2 DEF Step, Claim, Look, Take, Perform, Undo, RecordErrs, Crash, Again, Set, TypeOK
    <3>. QED  BY <3>1, <3>2
  <2>3. key' = key /\ landed'[k] = landed[k] /\ (late[k] => late'[k]) /\ (amiss[k] => amiss'[k])
    BY <1>1 DEF Step, Claim, Look, Take, Perform, Record, Undo, RecordErrs, Crash, Again, TypeOK
  <2>. QED  BY <1>0, <2>1, <2>2, <2>3, Elsewhere
<1>2. ASSUME NEW c \in Calls, Claim(c), key[c] = k PROVE Goal
  <2>1. CASE row[k].st = "absent"
    <3>1. Owners(k) = {} \/ late[k]
      BY <1>0, <2>1 DEF Owned
    <3>2. pc' = [pc EXCEPT ![c] = "run"] /\ row'[k].st = "processing" /\ late' = late
      BY <1>2, <2>1 DEF Claim, Goto, TypeOK, NoRow, Stale
    <3>3. landed' = landed /\ amiss' = amiss /\ key' = key
      BY <1>2 DEF Claim
    <3>4. late[k] \/ amiss[k] \/ landed[k] = {}
      BY <1>0, <2>1 DEF Settled
    <3>. QED  BY <1>2, <3>1, <3>2, <3>3, <3>4 DEF Owned, Settled, Owners, TypeOK
  <2>2. CASE Stale(k)
    <3>1. late'[k]
      BY <1>2, <2>2 DEF Claim, Stale, TypeOK
    <3>. QED  BY <3>1 DEF Owned, Settled
  <2>3. CASE row[k].st # "absent" /\ ~Stale(k)
    BY <1>0, <1>2, <2>3, NoOwner DEF Claim, Goto, TypeOK
  <2>. QED  BY <2>1, <2>2, <2>3
<1>3. ASSUME NEW c \in Calls, Look(c), key[c] = k PROVE Goal
  BY <1>0, <1>3, NoOwner DEF Look, Goto, TypeOK
<1>4. ASSUME NEW c \in Calls, Take(c), key[c] = k PROVE Goal
  <2>1. CASE row[k].st = "failed"
    <3>1. Owners(k) = {} \/ late[k]
      BY <1>0, <2>1 DEF Owned
    <3>2. pc' = [pc EXCEPT ![c] = "run"] /\ row'[k].st = "processing"
      BY <1>4, <2>1 DEF Take, Goto, TypeOK, Row
    <3>3. landed' = landed /\ amiss' = amiss /\ key' = key /\ late' = late
      BY <1>4 DEF Take
    <3>4. late[k] \/ amiss[k] \/ landed[k] = {}
      BY <1>0, <2>1 DEF Settled
    <3>. QED  BY <1>4, <3>1, <3>2, <3>3, <3>4 DEF Owned, Settled, Owners, TypeOK
  <2>2. CASE row[k].st # "failed"
    BY <1>0, <1>4, <2>2, NoOwner DEF Take, Goto, TypeOK
  <2>. QED  BY <2>1, <2>2
<1>5. ASSUME NEW c \in Calls, Perform(c), key[c] = k PROVE Goal
  <2>1. c \in Owners(k) /\ pc[c] = "run"
    BY <1>5 DEF Perform, Goto, Owners
  <2>2. Owners(k)' = Owners(k)
    BY <1>5 DEF Perform, Goto, Owners, TypeOK
  <2>3. late[k] \/ amiss[k] \/ landed[k] = {}
    BY <1>0, <2>1 DEF Settled
  <2>4. \A d \in Owners(k) : d = c \/ late[k]
    BY <1>0, <2>1 DEF Owned
  <2>5. pc'[c] = "record" \/ landed' = landed
    BY <1>5 DEF Perform, Goto, TypeOK
  <2>6. row' = row /\ late' = late /\ amiss' = amiss /\ key' = key
    BY <1>5 DEF Perform
  <2>. QED  BY <1>0, <2>1, <2>2, <2>3, <2>4, <2>5, <2>6 DEF Owned, Settled
<1>6. ASSUME NEW c \in Calls, Record(c) \/ Undo(c), key[c] = k PROVE Goal
  <2>1. c \in Owners(k) /\ Owners(k)' = Owners(k) \ {c}
    BY <1>6 DEF Record, Undo, Goto, Owners, TypeOK
  <2>2. late[k] \/ Owners(k)' = {}
    BY <1>0, <2>1 DEF Owned
  <2>3. late' = late /\ amiss' = amiss /\ landed' = landed
    BY <1>6 DEF Record, Undo
  <2>4. CASE Record(c)
    <3>1. row'[k].st \in {"absent", "done"} /\ (row'[k].st = "absent" => row[k].st = "absent")
      <4>1. PICK of \in {c, None} :
               Set(k, [row[k] EXCEPT !.st = "done", !.of = of, !.updated = 0])
        BY <1>6, <2>4, RecordWrites
      <4>. QED  BY <4>1 DEF Set, TypeOK, Row
    <3>. QED  BY <1>0, <2>1, <2>2, <2>3, <3>1 DEF Owned, Settled
  <2>5. CASE Undo(c)
    <3>1. late[k] \/ amiss[k] \/ landed[k] = {}
      BY <1>0, <2>1, <2>5 DEF Settled, Undo, Goto
    <3>. QED  BY <2>2, <2>3, <3>1 DEF Owned, Settled
  <2>. QED  BY <1>6, <2>4, <2>5
<1>7. ASSUME NEW c \in Calls, RecordErrs(c), key[c] = k PROVE Goal
  <2>1. Owners(k)' = Owners(k) /\ row' = row /\ late' = late /\ amiss'[k]
    BY <1>7 DEF RecordErrs, Goto, Owners, TypeOK
  <2>. QED  BY <1>0, <2>1 DEF Owned, Settled
<1>8. ASSUME NEW c \in Calls, Crash(c) \/ Again(c), key[c] = k PROVE Goal
  BY <1>0, <1>8, NoOwner DEF Crash, Again, TypeOK
<1>9. ASSUME NEW j \in Keys, Prune(j) PROVE Goal
  <2>1. CASE j = k
    BY <1>9, <2>1 DEF Prune, Owned, Settled, TypeOK
  <2>2. CASE j # k
    BY <1>0, <1>9, <2>2, Elsewhere DEF Prune, TypeOK
  <2>. QED  BY <2>1, <2>2
<1>10. CASE Tick
  <2>1. row'[k].st = row[k].st
    <3>1. ASSUME NEW a, NEW b
          PROVE  [row[k] EXCEPT !.created = a, !.updated = b].st = row[k].st
      BY DEF TypeOK, Row
    <3>. QED  BY <1>10, <3>1 DEF Tick, NoRow
  <2>. QED  BY <1>0, <1>10, <2>1, NoOwner DEF Tick
<1>11. CASE UNCHANGED vars
  BY <1>0, <1>11, NoOwner DEF vars
<1>. QED  BY <1>1, <1>2, <1>3, <1>4, <1>5, <1>6, <1>7, <1>8, <1>9, <1>10, <1>11 DEF Next, Step

LEMMA ExclusionInvariant == Spec => []Exclusion
<1>1. Init => Exclusion
  BY DEF Init, Exclusion, Owned, Settled, Owners
<1>. QED  BY <1>1, ExclusionStep, TypeCorrect, PTL DEF Spec

\* Two calls never both run the operation of a key, whatever crashes or fails, while
\* no claim of it became stale and its row was not pruned (service.ts:11-13).
THEOREM OwnersExclude == Spec => []OneAtATime
<1>1. Exclusion => OneAtATime
  BY DEF Exclusion, Owned, OneAtATime
<1>. QED  BY <1>1, ExclusionInvariant, PTL

\* Under the same condition, and if successes could be recorded, the operation of a
\* key lands once, for any number of retries and failures before (service.ts:5).
THEOREM OperationLandsOnce == Spec => LandsOnce
<1>1. Exclusion => [\A k \in Keys : \A c \in Owners(k) :
          ~late[k] /\ ~amiss[k] /\ pc[c] = "run" /\ pc'[c] = "record" => landed[k] = {}]_vars
  BY DEF Exclusion, Settled
<1>. QED  BY <1>1, ExclusionInvariant, PTL DEF LandsOnce

-----------------------------------------------------------------------------
(* A claim that nobody holds any more.                                     *)

\* the ways out of it: taken over when stale, or pruned; till then it ages
OnlyAges ==
    \A k \in Keys : Abandoned(k) =>
        \/ /\ Abandoned(k)'
           /\ row'[k].created >= row[k].created
           /\ row'[k].updated >= row[k].updated
        \/ Stale(k) /\ Owners(k)' # {} /\ row'[k] = [row[k] EXCEPT !.updated = 0]
        \/ row[k].updated = Keep /\ row'[k] = NoRow

LEMMA AgesStep == TypeOK /\ [Next]_vars => OnlyAges
<1>. SUFFICES ASSUME TypeOK, [Next]_vars, NEW k \in Keys, Abandoned(k)
              PROVE  \/ /\ Abandoned(k)'
                        /\ row'[k].created >= row[k].created
                        /\ row'[k].updated >= row[k].updated
                     \/ Stale(k) /\ Owners(k)' # {} /\ row'[k] = [row[k] EXCEPT !.updated = 0]
                     \/ row[k].updated = Keep /\ row'[k] = NoRow
  BY DEF OnlyAges
<1>1. row[k].st = "processing" /\ row[k].created \in 0..Ttl /\ row[k].updated \in 0..Keep
  BY DEF Abandoned, TypeOK, Row
<1>2. \A c \in Calls : key[c] = k => pc[c] \notin {"run", "record", "undo"}
  BY DEF Abandoned, Owners
<1>3. ASSUME row'[k] = row[k], key' = key,
             \A c \in Calls : key[c] = k => pc'[c] \notin {"run", "record", "undo"}
      PROVE  /\ Abandoned(k)'
             /\ row'[k].created >= row[k].created
             /\ row'[k].updated >= row[k].updated
  BY <1>1, <1>3 DEF Abandoned, Owners
<1>4. ASSUME NEW c \in Calls, Step(c) \/ RecordErrs(c) \/ Crash(c) \/ Again(c), key[c] # k
      PROVE  /\ row'[k] = row[k] /\ key' = key
             /\ \A d \in Calls : key[d] = k => pc'[d] \notin {"run", "record", "undo"}
  <2>1. row'[k] = row[k] /\ key' = key
    <3>1. CASE Record(c)
      BY <1>4, <3>1, RecordElsewhere DEF Record
    <3>2. CASE ~Record(c)
      BY <1>4, <3>2 DEF Step, Claim, Look, Take, Perform, Undo, Set, RecordErrs, Crash, Again, TypeOK
    <3>. QED  BY <3>1, <3>2
  <2>2. \A d \in Calls : d # c => pc'[d] = pc[d]
    BY <1>4 DEF Step, Claim, Look, Take, Perform, Record, Undo, RecordErrs, Crash, Again, Goto,
                TypeOK
  <2>. QED  BY <1>2, <1>4, <2>1, <2>2
<1>5. ASSUME NEW c \in Calls, Step(c) \/ RecordErrs(c) \/ Crash(c) \/ Again(c), key[c] = k
      PROVE  \/ /\ row'[k] = row[k] /\ key' = key
                /\ \A d \in Calls : key[d] = k => pc'[d] \notin {"run", "record", "undo"}
             \/ Stale(k) /\ Owners(k)' # {} /\ row'[k] = [row[k] EXCEPT !.updated = 0]
  <2>1. pc[c] \notin {"run", "record", "undo"}
    BY <1>2, <1>5
  <2>2. CASE Claim(c)
    <3>1. CASE Stale(k)
      <4>1. pc'[c] = "run" /\ key' = key /\ row'[k] = [row[k] EXCEPT !.updated = 0]
        BY <1>1, <1>5, <2>2, <3>1 DEF Claim, Goto, TypeOK
      <4>2. Owners(k)' # {}
        BY <1>5, <4>1 DEF Owners
      <4>. QED  BY <3>1, <4>1, <4>2
    <3>2. CASE ~Stale(k)
      BY <1>1, <1>2, <1>5, <2>2, <3>2 DEF Claim, Goto, TypeOK
    <3>. QED  BY <3>1, <3>2
  <2>3. CASE Look(c)
    BY <1>2, <2>3 DEF Look, Goto, TypeOK
  <2>4. CASE Take(c)
    BY <1>1, <1>2, <1>5, <2>4 DEF Take, Goto, TypeOK
  <2>5. CASE Crash(c) \/ Again(c)
    BY <1>2, <2>5 DEF Crash, Again, TypeOK
  <2>. QED  BY <1>5, <2>1, <2>2, <2>3, <2>4, <2>5
            DEF Step, Perform, Record, Undo, RecordErrs, Goto
<1>6. ASSUME NEW l \in Keys, Prune(l)
      PROVE  \/ /\ row'[k] = row[k] /\ key' = key
                /\ \A d \in Calls : key[d] = k => pc'[d] \notin {"run", "record", "undo"}
             \/ row[k].updated = Keep /\ row'[k] = NoRow
  BY <1>2, <1>6 DEF Prune, TypeOK
<1>7. CASE Tick
  <2>1. /\ row'[k].st = "processing"
        /\ row'[k].created = Older(row[k].created, Ttl)
        /\ row'[k].updated = Older(row[k].updated, Keep)
    <3>1. row[k] \in Row
      BY DEF TypeOK
    <3>. QED  BY <1>1, <1>7, <3>1 DEF Tick, Row
  <2>2. row'[k].created >= row[k].created /\ row'[k].updated >= row[k].updated
    BY <1>1, <2>1 DEF Older
  <2>3. Owners(k)' = Owners(k)
    BY <1>7 DEF Tick, Owners
  <2>. QED  BY <2>1, <2>2, <2>3 DEF Abandoned
<1>8. CASE UNCHANGED vars
  BY <1>2, <1>3, <1>8 DEF vars
<1>. QED  BY <1>3, <1>4, <1>5, <1>6, <1>7, <1>8 DEF Next

\* A claim whose caller is gone (service.ts:7) leaves that state only by a takeover
\* once it is stale, or by the prune; till then its ages only grow towards both.
\* What this leaves of ClaimsAreResolved is that ticks and retries keep coming.
THEOREM AbandonedOnlyAges == Spec => [][OnlyAges]_vars
<1>. QED  BY TypeCorrect, AgesStep, PTL DEF Spec

=============================================================================
