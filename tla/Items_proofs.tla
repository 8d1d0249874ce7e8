---------------------------- MODULE Items_proofs ----------------------------
(***************************************************************************)
(* What ItemMutationService keeps, for any number of requests.  First the  *)
(* document numbers of Naming: no two documents are numbered alike under   *)
(* one series, but for those let through after an error of the claim's     *)
(* statements; the numbers have no gap; and a refusal has its cause.  Then *)
(* the families: stored formulas, cached reads and child rows of parents,  *)
(* each by an invariant that says which request, or which accident, still  *)
(* owes the parent what it lacks.                                          *)
(***************************************************************************)
EXTENDS Naming, Families, FiniteSetTheorems, TLAPS

\* A padded number is a text.
LEMMA NumberType == \A n \in Nat, w \in Widths : Number(n, w) \in Text
<1>. SUFFICES ASSUME NEW n \in Nat, NEW w \in Widths PROVE Number(n, w) \in Text
  OBVIOUS
<1>. DEFINE Powers == {k \in 1..MaxDigits : Radix ^ k <= n}
<1>1. IsFiniteSet(1..MaxDigits)
  BY NamingAssumption, FS_Interval
<1>2. IsFiniteSet(Powers)
  BY <1>1, FS_Subset
<1>3. Cardinality(Powers) \in Nat
  BY <1>2, FS_CardinalityType
<1>4. Digits(n) = 1 + Cardinality(Powers)
  BY DEF Digits
<1>5. Digits(n) \in Nat
  BY <1>3, <1>4
<1>. QED  BY <1>5, NamingAssumption DEF Number, Text

\* A number found in the table has a successor, and an empty table a first one.
LEMMA CandidatesType ==
    ASSUME TypeOK, NEW c \in Creates
    PROVE  Candidates(c) \subseteq Text
<1>1. \A t \in Last : t.n + 1 \in Nat
  BY DEF TypeOK, Last, Present, Text
<1>2. width[c] \in Widths
  BY DEF TypeOK
<1>3. Number(1, width[c]) \in Text
  BY <1>2, NumberType
<1>4. \A t \in Last : Number(t.n + 1, width[c]) \in Text
  BY <1>1, <1>2, NumberType
<1>. QED  BY <1>3, <1>4 DEF Candidates

\* The types hold at first,
LEMMA InitType == Init => TypeOK
<1>. SUFFICES ASSUME Init PROVE TypeOK
  OBVIOUS
<1>1. \A n \in 1..Start : Number(n, First) \in Text
  BY NumberType, NamingAssumption
<1>2. docs \subseteq [by : Creates \cup 1..Start, num : Text, live : BOOLEAN]
  <2>1. \A n \in 1..Start : [by |-> n, num |-> Number(n, First), live |-> TRUE]
           \in [by : Creates \cup 1..Start, num : Text, live : BOOLEAN]
    BY <1>1
  <2>. QED  BY <2>1 DEF Init
<1>3. claims \subseteq Widths \X Text
  BY <1>1, NamingAssumption DEF Init
<1>4. 0 \in 0..(MaxRetries - 1) /\ [n |-> 0, len |-> 0] \in Text
  BY NamingAssumption DEF Text
<1>. QED  BY <1>2, <1>3, <1>4, NamingAssumption DEF Init, TypeOK

\* A conflict either counts, or is the last one and refuses the create.
LEMMA ConflictType ==
    ASSUME TypeOK, NEW c \in Creates, Conflict(c)
    PROVE  /\ tries' \in [Creates -> 0..(MaxRetries - 1)]
           /\ pc' \in [Creates -> {"idle", "read", "claim", "insert", "done", "refused", "failed"}]
           /\ UNCHANGED <<series, docs, width, num, alone, erred>>
<1>1. tries[c] # MaxRetries - 1 => tries[c] + 1 \in 0..(MaxRetries - 1)
  BY NamingAssumption DEF TypeOK
<1>. QED  BY <1>1 DEF Conflict, Goto, TypeOK

\* and every step keeps them.
LEMMA NextType == TypeOK /\ [Next]_vars => TypeOK'
<1>. SUFFICES ASSUME TypeOK, [Next]_vars PROVE TypeOK'
  OBVIOUS
<1>0. \A c \in Creates : Key(c) \in Widths \X Text
  BY DEF Key, TypeOK
<1>1. ASSUME NEW c \in Creates, Begin(c) PROVE TypeOK'
  BY <1>1 DEF Begin, Goto, TypeOK
<1>2. ASSUME NEW c \in Creates, Read(c) PROVE TypeOK'
  <2>1. PICK t \in Text : num' = [num EXCEPT ![c] = t]
    BY <1>2, CandidatesType DEF Read
  <2>. QED  BY <1>2, <2>1 DEF Read, Goto, TypeOK
<1>3. ASSUME NEW c \in Creates, Claim(c) PROVE TypeOK'
  <2>1. CASE Conflict(c) /\ UNCHANGED claims
    BY <2>1, ConflictType DEF TypeOK
  <2>2. CASE /\ claims' = claims \cup {Key(c)}
             /\ Goto(c, "claim", "insert")
             /\ UNCHANGED <<series, docs, width, tries, num, alone, erred>>
    BY <1>0, <2>2 DEF Goto, TypeOK
  <2>. QED  BY <1>3, <2>1, <2>2 DEF Claim
<1>4. ASSUME NEW c \in Creates, ClaimErrs(c) PROVE TypeOK'
  BY <1>4 DEF ClaimErrs, Goto, TypeOK
<1>5. ASSUME NEW c \in Creates, ClaimReplyLost(c) PROVE TypeOK'
  BY <1>0, <1>5, ConflictType DEF ClaimReplyLost, TypeOK
<1>6. ASSUME NEW c \in Creates, Insert(c) PROVE TypeOK'
  <2>1. [by |-> c, num |-> num[c], live |-> TRUE]
           \in [by : Creates \cup 1..Start, num : Text, live : BOOLEAN]
    BY DEF TypeOK
  <2>. QED  BY <1>6, <2>1 DEF Insert, Goto, TypeOK
<1>7. ASSUME NEW c \in Creates, Fail(c) PROVE TypeOK'
  BY <1>7 DEF Fail, TypeOK
<1>8. ASSUME Purge PROVE TypeOK'
  <2>1. PICK d \in docs : docs' = (docs \ {d}) \cup {[d EXCEPT !.live = FALSE]}
    BY <1>8 DEF Purge
  <2>2. [d EXCEPT !.live = FALSE] \in [by : Creates \cup 1..Start, num : Text, live : BOOLEAN]
    BY DEF TypeOK
  <2>. QED  BY <1>8, <2>1, <2>2 DEF Purge, TypeOK
<1>9. ASSUME SetSeries PROVE TypeOK'
  BY <1>9 DEF SetSeries, TypeOK
<1>10. CASE UNCHANGED vars
  BY <1>10 DEF vars, TypeOK
<1>. QED
  BY <1>1, <1>2, <1>3, <1>4, <1>5, <1>6, <1>7, <1>8, <1>9, <1>10 DEF Next

\* The tables and the creates keep their types under every interleaving and mishap.
THEOREM TypeCorrect == Spec => []TypeOK
  BY InitType, NextType, PTL DEF Spec

-----------------------------------------------------------------------------
(* A number is claimed before it is used, and a claim is never made twice  *)
(* nor taken back.                                                         *)

DocKey(d) == <<SeriesOf(d), d.num>>

\* the document of a create is inserted by its last step
DocsAreDone == \A d \in docs : d.by \in Creates => pc[d.by] = "done"

\* what is inserted, or about to be, is claimed
UsedIsClaimed ==
    /\ \A d \in docs : d.by \notin erred => DocKey(d) \in claims
    /\ \A c \in Creates \ erred : pc[c] = "insert" => Key(c) \in claims

\* and claimed for one create only
ClaimedOnce ==
    /\ \A c \in Creates \ erred :
         pc[c] = "insert" => \A d \in docs : d.by \notin erred => DocKey(d) # Key(c)
    /\ \A b, c \in Creates \ erred : pc[b] = "insert" /\ pc[c] = "insert" /\ Key(b) = Key(c) => b = c

NamingInv == TypeOK /\ DocsAreDone /\ UsedIsClaimed /\ ClaimedOnce /\ UniqueInSeries

\* The numbering holds before the first create,
LEMMA InitNaming == Init => NamingInv
<1>. SUFFICES ASSUME Init PROVE NamingInv
  OBVIOUS
<1>1. \A d \in docs : d.by \in 1..Start /\ d.num = Number(d.by, First)
  BY DEF Init
<1>2. \A d \in docs : SeriesOf(d) = First
  BY <1>1, NamingAssumption DEF SeriesOf
<1>3. DocsAreDone
  BY <1>1, NamingAssumption DEF DocsAreDone
<1>4. UsedIsClaimed
  BY <1>1, <1>2 DEF UsedIsClaimed, DocKey, Init
<1>5. ClaimedOnce
  BY DEF Init, ClaimedOnce
<1>6. UniqueInSeries
  <2>1. \A n, k \in 1..Start : Number(n, First) = Number(k, First) => n = k
    BY DEF Number
  <2>2. ASSUME NEW d \in docs, NEW e \in docs, d.num = e.num PROVE d.by = e.by
    BY <1>1, <2>1, <2>2
  <2>. QED  BY <2>2 DEF UniqueInSeries
<1>. QED  BY <1>3, <1>4, <1>5, <1>6, InitType DEF NamingInv

Rest == DocsAreDone /\ UsedIsClaimed /\ ClaimedOnce /\ UniqueInSeries

\* A step that inserts nothing, claims nothing for anyone, and moves the
\* series of no create that has claimed.
LEMMA QuietNaming ==
    ASSUME NamingInv, docs' = docs, claims \subseteq claims', erred \subseteq erred',
           \A c \in Creates : pc[c] = "done" => pc'[c] = "done" /\ width'[c] = width[c],
           \A c \in Creates \ erred' : pc'[c] = "insert" =>
              pc[c] = "insert" /\ width'[c] = width[c] /\ num'[c] = num[c]
    PROVE  Rest'
<1>1. \A d \in docs : SeriesOf(d)' = SeriesOf(d)
  BY DEF NamingInv, DocsAreDone, SeriesOf
<1>2. \A d \in docs : DocKey(d)' = DocKey(d)
  BY <1>1 DEF DocKey
<1>3. \A c \in Creates \ erred' : pc'[c] = "insert" => Key(c)' = Key(c)
  BY DEF Key
<1>4. DocsAreDone'
  BY DEF NamingInv, DocsAreDone
<1>5. UsedIsClaimed'
  BY <1>2, <1>3 DEF NamingInv, UsedIsClaimed
<1>6. ClaimedOnce'
  BY <1>2, <1>3 DEF NamingInv, ClaimedOnce
<1>7. UniqueInSeries'
  BY <1>1 DEF NamingInv, UniqueInSeries
<1>. QED  BY <1>4, <1>5, <1>6, <1>7 DEF Rest

\* and every step of a create keeps it.
LEMMA NamingStep == NamingInv /\ [Next]_vars => NamingInv'
<1>. SUFFICES ASSUME NamingInv, [Next]_vars PROVE NamingInv'
  OBVIOUS
<1>0. TypeOK /\ TypeOK'
  BY NextType DEF NamingInv
<1>1. ASSUME NEW c \in Creates, Begin(c) PROVE Rest'
  BY <1>0, <1>1, QuietNaming DEF Begin, Goto, TypeOK
<1>2. ASSUME NEW c \in Creates, Read(c) PROVE Rest'
  <2>1. PICK t \in Candidates(c) : num' = [num EXCEPT ![c] = t]
    BY <1>2 DEF Read
  <2>. QED  BY <1>0, <1>2, <2>1, QuietNaming DEF Read, Goto, TypeOK
<1>3. ASSUME NEW c \in Creates, Claim(c) PROVE Rest'
  <2>1. CASE Conflict(c) /\ UNCHANGED claims
    BY <1>0, <2>1, QuietNaming DEF Conflict, Goto, TypeOK
  <2>2. CASE /\ Key(c) \notin claims
             /\ claims' = claims \cup {Key(c)}
             /\ Goto(c, "claim", "insert")
             /\ UNCHANGED <<series, docs, width, tries, num, alone, erred>>
    <3>1. \A b \in Creates : Key(b)' = Key(b)
      BY <2>2 DEF Key
    <3>2. \A d \in docs : DocKey(d)' = DocKey(d)
      BY <2>2 DEF DocKey, SeriesOf
    <3>3. \A b \in Creates : pc'[b] = "insert" => b = c \/ pc[b] = "insert"
      BY <1>0, <2>2 DEF Goto, TypeOK
    <3>4. DocsAreDone'
      BY <1>0, <2>2 DEF NamingInv, DocsAreDone, Goto, TypeOK
    <3>5. UsedIsClaimed'
      BY <2>2, <3>1, <3>2, <3>3 DEF NamingInv, UsedIsClaimed
    <3>6. ClaimedOnce'
      <4>1. \A d \in docs : d.by \notin erred => DocKey(d) # Key(c)
        BY <2>2 DEF NamingInv, UsedIsClaimed
      <4>2. \A b \in Creates \ erred : pc[b] = "insert" => Key(b) # Key(c)
        BY <2>2 DEF NamingInv, UsedIsClaimed
      <4>. QED  BY <2>2, <3>1, <3>2, <3>3, <4>1, <4>2 DEF NamingInv, ClaimedOnce
    <3>7. UniqueInSeries'
      BY <2>2 DEF NamingInv, UniqueInSeries, SeriesOf
    <3>. QED  BY <3>4, <3>5, <3>6, <3>7 DEF Rest
  <2>. QED  BY <1>3, <2>1, <2>2 DEF Claim
<1>4. ASSUME NEW c \in Creates, Insert(c) PROVE Rest'
  <2>. DEFINE new == [by |-> c, num |-> num[c], live |-> TRUE]
  <2>1. docs' = docs \cup {new} /\ pc[c] = "insert" /\ UNCHANGED <<width, num, claims, erred>>
    BY <1>4 DEF Insert, Goto
  <2>2. SeriesOf(new) = width[c] /\ DocKey(new) = Key(c) /\ new.by = c
    BY DEF SeriesOf, DocKey, Key
  <2>3. c \notin erred => \A d \in docs : d.by \notin erred => DocKey(d) # DocKey(new)
    BY <2>1, <2>2 DEF NamingInv, ClaimedOnce
  <2>4. \A d : SeriesOf(d)' = SeriesOf(d) /\ DocKey(d)' = DocKey(d)
    BY <2>1 DEF SeriesOf, DocKey
  <2>5. \A b \in Creates : Key(b)' = Key(b)
    BY <2>1 DEF Key
  <2>6. \A b \in Creates : pc'[b] = "insert" => pc[b] = "insert" /\ b # c
    BY <1>0, <1>4 DEF Insert, Goto, TypeOK
  <2>7. DocsAreDone'
    BY <1>0, <1>4, <2>1 DEF NamingInv, DocsAreDone, Insert, Goto, TypeOK
  <2>. HIDE DEF new
  <2>8. UsedIsClaimed'
    BY <2>1, <2>2, <2>4, <2>5, <2>6 DEF NamingInv, UsedIsClaimed
  <2>9. ClaimedOnce'
    BY <2>1, <2>2, <2>4, <2>5, <2>6 DEF NamingInv, ClaimedOnce
  <2>10. UniqueInSeries'
    BY <2>1, <2>2, <2>3, <2>4 DEF NamingInv, UniqueInSeries, DocKey
  <2>. QED  BY <2>7, <2>8, <2>9, <2>10 DEF Rest
<1>5. ASSUME NEW c \in Creates, Fail(c) PROVE Rest'
  BY <1>0, <1>5, QuietNaming DEF Fail, UnderWay, TypeOK
<1>6. ASSUME Purge PROVE Rest'
  <2>1. PICK d \in docs : docs' = (docs \ {d}) \cup {[d EXCEPT !.live = FALSE]}
    BY <1>6 DEF Purge
  <2>2. \A e \in docs' : \E f \in docs : e.by = f.by /\ e.num = f.num
    BY <1>0, <2>1 DEF TypeOK
  <2>3. UNCHANGED <<claims, pc, width, num, erred>>
    BY <1>6 DEF Purge
  <2>4. \A c \in Creates : Key(c)' = Key(c)
    BY <2>3 DEF Key
  <2>5. \A e : SeriesOf(e)' = SeriesOf(e) /\ DocKey(e)' = DocKey(e)
    BY <2>3 DEF SeriesOf, DocKey
  <2>6. \A e, f : e.by = f.by /\ e.num = f.num => SeriesOf(e) = SeriesOf(f) /\ DocKey(e) = DocKey(f)
    BY DEF SeriesOf, DocKey
  <2>7. DocsAreDone'
    BY <2>2, <2>3 DEF NamingInv, DocsAreDone
  <2>8. UsedIsClaimed'
    BY <2>2, <2>3, <2>4, <2>5, <2>6 DEF NamingInv, UsedIsClaimed
  <2>9. ClaimedOnce'
    BY <2>2, <2>3, <2>4, <2>5, <2>6 DEF NamingInv, ClaimedOnce
  <2>10. UniqueInSeries'
    <3>. SUFFICES ASSUME NEW d1 \in docs', NEW d2 \in docs', d1.num = d2.num,
                         SeriesOf(d1) = SeriesOf(d2), d1.by \notin erred, d2.by \notin erred
                  PROVE  d1.by = d2.by
      BY <2>3, <2>5 DEF UniqueInSeries
    <3>1. PICK f1 \in docs, f2 \in docs : /\ d1.by = f1.by /\ d1.num = f1.num
                                          /\ d2.by = f2.by /\ d2.num = f2.num
      BY <2>2
    <3>2. SeriesOf(f1) = SeriesOf(f2)
      BY <2>6, <3>1
    <3>. QED  BY <3>1, <3>2 DEF NamingInv, UniqueInSeries
  <2>. QED  BY <2>7, <2>8, <2>9, <2>10 DEF Rest
<1>7. ASSUME SetSeries PROVE Rest'
  BY <1>7, QuietNaming DEF SetSeries
<1>8. ASSUME UNCHANGED vars PROVE Rest'
  BY <1>8, QuietNaming DEF vars
<1>9. ASSUME NEW c \in Creates, ClaimErrs(c) PROVE Rest'
  BY <1>0, <1>9, QuietNaming DEF ClaimErrs, Goto, TypeOK
<1>10. ASSUME NEW c \in Creates, ClaimReplyLost(c) PROVE Rest'
  BY <1>0, <1>10, QuietNaming DEF ClaimReplyLost, Conflict, Goto, TypeOK
<1>11. Rest'
  BY <1>1, <1>2, <1>3, <1>4, <1>5, <1>6, <1>7, <1>8, <1>9, <1>10 DEF Next
<1>. QED  BY <1>0, <1>11 DEF NamingInv, Rest

\* No two documents, purged ones included, have the same number under the same
\* series, however creates interleave and fail, and whatever happens to the
\* series, unless the number of one was let through after an error.
THEOREM NumbersAreUniqueInSeries == Spec => []UniqueInSeries
<1>1. NamingInv => UniqueInSeries
  BY DEF NamingInv
<1>. QED  BY <1>1, InitNaming, NamingStep, PTL DEF Spec

-----------------------------------------------------------------------------
(* A number that is claimed, or about to be, is the first or follows one   *)
(* that was there, and a document once inserted keeps its number.          *)

Numbers == {d.num.n : d \in docs}

Follows(n) == n = 1 \/ \E m \in Numbers : n = m + 1

GapsInv ==
    /\ \E k \in Nat : Numbers = 1..k
    /\ \A c \in Creates : pc[c] \in {"claim", "insert"} => Follows(num[c].n)

\* The next number follows the last one in the order of texts, whichever that is.
LEMMA CandidateFollows ==
    ASSUME TypeOK, NEW c \in Creates, NEW t \in Candidates(c)
    PROVE  Follows(t.n)
<1>1. \A n, w : Number(n, w).n = n
  BY DEF Number
<1>2. \A s \in Last : s.n \in Numbers
  BY DEF Last, Present, Numbers
<1>. QED  BY <1>1, <1>2 DEF Candidates, Follows

\* A purge keeps the numbers of all documents.
LEMMA PurgedNumbers ==
    ASSUME TypeOK, NEW d \in docs, docs' = (docs \ {d}) \cup {[d EXCEPT !.live = FALSE]}
    PROVE  Numbers' = Numbers
<1>. DEFINE e == [d EXCEPT !.live = FALSE]
<1>1. e.num = d.num
  BY DEF TypeOK
<1>. HIDE DEF e
<1>2. docs' = (docs \ {d}) \cup {e}
  BY DEF e
<1>3. Numbers' \subseteq Numbers
  BY <1>1, <1>2 DEF Numbers
<1>4. Numbers \subseteq Numbers'
  BY <1>1, <1>2 DEF Numbers
<1>. QED  BY <1>3, <1>4

\* A step that inserts nothing, with the numbers of creates read or as they were.
LEMMA QuietGaps ==
    ASSUME GapsInv, Numbers' = Numbers,
           \A c \in Creates : pc'[c] \in {"claim", "insert"} =>
              \/ pc[c] \in {"claim", "insert"} /\ num'[c] = num[c]
              \/ Follows(num'[c].n)
    PROVE  GapsInv'
  BY DEF GapsInv, Follows

\* Whatever happens, the numbers stay without a gap.
LEMMA GapsStep == TypeOK /\ GapsInv /\ [Next]_vars => GapsInv'
<1>. SUFFICES ASSUME TypeOK, GapsInv, [Next]_vars PROVE GapsInv'
  OBVIOUS
<1>0. docs' = docs => Numbers' = Numbers
  BY DEF Numbers
<1>1. ASSUME NEW c \in Creates, Begin(c) \/ Fail(c) PROVE GapsInv'
  BY <1>0, <1>1, QuietGaps DEF Begin, Fail, Goto, TypeOK
<1>2. ASSUME NEW c \in Creates, Read(c) PROVE GapsInv'
  <2>1. PICK t \in Candidates(c) : num' = [num EXCEPT ![c] = t]
    BY <1>2 DEF Read
  <2>2. Follows(t.n)
    BY CandidateFollows
  <2>. QED  BY <1>0, <1>2, <2>1, <2>2, QuietGaps DEF Read, Goto, TypeOK
<1>3. ASSUME NEW c \in Creates, pc[c] = "claim", Claim(c) \/ ClaimErrs(c) \/ ClaimReplyLost(c)
      PROVE  GapsInv'
  BY <1>0, <1>3, QuietGaps DEF Claim, ClaimErrs, ClaimReplyLost, Conflict, Goto, TypeOK
<1>4. ASSUME NEW c \in Creates, Insert(c) PROVE GapsInv'
  <2>1. /\ pc[c] = "insert" /\ num' = num
        /\ docs' = docs \cup {[by |-> c, num |-> num[c], live |-> TRUE]}
        /\ \A b \in Creates : pc'[b] \in {"claim", "insert"} => pc[b] \in {"claim", "insert"}
    BY <1>4 DEF Insert, Goto, TypeOK
  <2>2. Numbers' = Numbers \cup {num[c].n}
    <3>. DEFINE new == [by |-> c, num |-> num[c], live |-> TRUE]
    <3>1. docs' = docs \cup {new} /\ new.num.n = num[c].n
      BY <2>1
    <3>. HIDE DEF new
    <3>. QED  BY <3>1 DEF Numbers
  <2>3. PICK k \in Nat : Numbers = 1..k
    BY DEF GapsInv
  <2>4. num[c].n = 1 \/ \E m \in 1..k : num[c].n = m + 1
    BY <2>1, <2>3 DEF GapsInv, Follows
  <2>5. Numbers' = 1..k \/ Numbers' = 1..(k + 1)
    BY <2>2, <2>3, <2>4
  <2>6. \A n : Follows(n) => Follows(n)'
    BY <2>2 DEF Follows
  <2>7. \A b \in Creates : pc'[b] \in {"claim", "insert"} => Follows(num[b].n)'
    BY <2>1, <2>6 DEF GapsInv
  <2>. QED  BY <2>1, <2>3, <2>5, <2>7 DEF GapsInv
<1>5. CASE Purge
  <2>1. PICK d \in docs : docs' = (docs \ {d}) \cup {[d EXCEPT !.live = FALSE]}
    BY <1>5 DEF Purge
  <2>3. Numbers' = Numbers
    BY <2>1, PurgedNumbers
  <2>. QED  BY <1>5, <2>3, QuietGaps DEF Purge
<1>6. CASE SetSeries
  BY <1>0, <1>6, QuietGaps DEF SetSeries
<1>7. CASE UNCHANGED vars
  BY <1>0, <1>7, QuietGaps DEF vars
<1>8. \A c \in Creates : ClaimErrs(c) \/ ClaimReplyLost(c) => pc[c] = "claim"
  BY DEF ClaimErrs, ClaimReplyLost, Goto
<1>. QED  BY <1>1, <1>2, <1>3, <1>4, <1>5, <1>6, <1>7, <1>8 DEF Next

\* The documents are numbered 1, 2, 3, ... at every moment, for any number of
\* creates, widths, failures and purges: a create that finds its number taken reads
\* again and never skips one (naming.service.ts:132-141).
THEOREM NumbersHaveNoGaps == Spec => []NoGaps
<1>1. Init => GapsInv
  <2>. SUFFICES ASSUME Init PROVE GapsInv
    OBVIOUS
  <2>1. \A n, w : Number(n, w).n = n
    BY DEF Number
  <2>2. Numbers = 1..Start
    <3>. DEFINE doc(n) == [by |-> n, num |-> Number(n, First), live |-> TRUE]
    <3>1. docs = {doc(n) : n \in 1..Start} /\ \A n \in 1..Start : doc(n).num.n = n
      BY <2>1 DEF Init
    <3>. HIDE DEF doc
    <3>. QED  BY <3>1 DEF Numbers
  <2>. QED  BY <2>2, NamingAssumption DEF Init, GapsInv
<1>2. GapsInv => NoGaps
  <2>. SUFFICES ASSUME NEW k \in Nat, Numbers = 1..k PROVE NoGaps
    BY DEF GapsInv
  <2>1. Cardinality(1..k) = k
    BY FS_Interval
  <2>. QED  BY <2>1 DEF NoGaps, Numbers
<1>. QED  BY <1>1, <1>2, GapsStep, TypeCorrect, PTL DEF Spec

-----------------------------------------------------------------------------
(* A create that is on its own has read the last number, and nobody takes  *)
(* the next one from it.                                                   *)

OneLength == \A d, e \in docs : d.num.len = e.num.len

AloneInv ==
    \A c \in Creates : c \in UnderWay /\ alone[c] =>
      /\ UnderWay = {c}
      /\ pc[c] = "claim" /\ OneLength => num[c] \notin Present

\* The number read follows the greatest one, if all have one length.
LEMMA NextIsNew ==
    ASSUME TypeOK, NEW c \in Creates, NEW t \in Candidates(c), OneLength
    PROVE  t \notin Present
<1>. SUFFICES ASSUME t \in Present PROVE FALSE
  OBVIOUS
<1>1. PICK s \in Last : t = Number(s.n + 1, width[c])
  BY DEF Candidates
<1>2. s \in Present /\ s.n \in Nat /\ t.n = s.n + 1 /\ s # t
  BY <1>1 DEF Last, Present, TypeOK, Text, Number
<1>3. TextBefore(t, s)
  BY <1>1, <1>2 DEF Last
<1>4. t.len = s.len
  BY <1>2 DEF OneLength, Present
<1>. QED  BY <1>2, <1>3, <1>4 DEF TextBefore

\* No document becomes another length, and none comes back from a purge.
LEMMA PurgeOnly ==
    ASSUME TypeOK, NEW d \in docs, docs' = (docs \ {d}) \cup {[d EXCEPT !.live = FALSE]}
    PROVE  Present' \subseteq Present /\ (OneLength' => OneLength)
<1>. DEFINE e == [d EXCEPT !.live = FALSE]
<1>1. e.num = d.num /\ ~e.live
  BY DEF TypeOK
<1>. HIDE DEF e
<1>2. docs' = (docs \ {d}) \cup {e}
  BY DEF e
<1>3. Present' \subseteq Present
  BY <1>1, <1>2 DEF Present
<1>4. OneLength' => OneLength
  BY <1>1, <1>2 DEF OneLength
<1>. QED  BY <1>3, <1>4

\* Every step keeps it, whatever other creates do.
LEMMA AloneStep == TypeOK /\ AloneInv /\ [Next]_vars => AloneInv'
<1>. SUFFICES ASSUME TypeOK, AloneInv, [Next]_vars PROVE AloneInv'
  OBVIOUS
<1>0. /\ docs' = docs => Present' = Present /\ OneLength' = OneLength
      /\ pc \in [Creates -> {"idle", "read", "claim", "insert", "done", "refused", "failed"}]
      /\ num \in [Creates -> Text] /\ alone \in [Creates -> BOOLEAN]
  BY DEF Present, OneLength, TypeOK
<1>1. ASSUME NEW c \in Creates, Begin(c) PROVE AloneInv'
  <2>1. UnderWay' = UnderWay \cup {c} /\ c \notin UnderWay /\ pc'[c] = "read"
    BY <1>0, <1>1 DEF Begin, Goto, UnderWay
  <2>2. \A d \in Creates : alone'[d] /\ d # c => d \notin UnderWay
    BY <1>0, <1>1 DEF Begin
  <2>3. alone'[c] => UnderWay = {}
    BY <1>0, <1>1 DEF Begin
  <2>. QED  BY <2>1, <2>2, <2>3 DEF AloneInv
<1>2. ASSUME NEW c \in Creates, Read(c) PROVE AloneInv'
  <2>1. PICK t \in Candidates(c) : num' = [num EXCEPT ![c] = t]
    BY <1>2 DEF Read
  <2>2. UnderWay' = UnderWay /\ c \in UnderWay /\ UNCHANGED <<docs, alone>>
    BY <1>0, <1>2 DEF Read, Goto, UnderWay
  <2>3. OneLength => t \notin Present
    BY NextIsNew
  <2>4. \A d \in Creates : d \in UnderWay /\ alone[d] => UnderWay = {d}
    BY DEF AloneInv
  <2>5. num'[c] = t
    BY <1>0, <2>1
  <2>. QED  BY <1>0, <2>2, <2>3, <2>4, <2>5 DEF AloneInv
<1>3. ASSUME NEW c \in Creates, Conflict(c), UNCHANGED docs PROVE AloneInv'
  <2>1. pc'[c] \in {"read", "refused"} /\ \A d \in Creates : d # c => pc'[d] = pc[d]
    BY <1>0, <1>3 DEF Conflict, Goto
  <2>2. UnderWay' \subseteq UnderWay /\ UNCHANGED <<num, alone>>
    BY <1>0, <1>3, <2>1 DEF Conflict, Goto, UnderWay
  <2>. QED  BY <1>0, <1>3, <2>1, <2>2 DEF AloneInv
<1>4. ASSUME NEW c \in Creates, Goto(c, "claim", "insert"), UNCHANGED <<docs, num, alone>>
      PROVE  AloneInv'
  <2>1. UnderWay' = UnderWay /\ \A d \in Creates : pc'[d] = "claim" => pc[d] = "claim"
    BY <1>0, <1>4 DEF Goto, UnderWay
  <2>. QED  BY <1>0, <1>4, <2>1 DEF AloneInv
<1>5. ASSUME NEW c \in Creates, Insert(c) PROVE AloneInv'
  <2>1. /\ UnderWay' \subseteq UnderWay /\ c \in UnderWay /\ c \notin UnderWay'
        /\ alone' = alone
    BY <1>0, <1>5 DEF Insert, Goto, UnderWay
  <2>2. \A d \in Creates : d \in UnderWay' => ~alone'[d]
    BY <2>1 DEF AloneInv
  <2>. QED  BY <2>2 DEF AloneInv
<1>6. ASSUME NEW c \in Creates, Fail(c) PROVE AloneInv'
  <2>1. UnderWay' \subseteq UnderWay /\ UNCHANGED <<docs, num, alone>>
    BY <1>0, <1>6 DEF Fail, UnderWay
  <2>2. \A d \in Creates : pc'[d] = "claim" => pc[d] = "claim"
    BY <1>0, <1>6 DEF Fail
  <2>. QED  BY <1>0, <2>1, <2>2 DEF AloneInv
<1>7. CASE Purge
  <2>1. PICK d \in docs : docs' = (docs \ {d}) \cup {[d EXCEPT !.live = FALSE]}
    BY <1>7 DEF Purge
  <2>2. Present' \subseteq Present /\ (OneLength' => OneLength)
    BY <2>1, PurgeOnly
  <2>3. UnderWay' = UnderWay /\ UNCHANGED <<pc, num, alone>>
    BY <1>7 DEF Purge, UnderWay
  <2>. QED  BY <2>2, <2>3 DEF AloneInv
<1>8. CASE SetSeries \/ UNCHANGED vars
  <2>1. UNCHANGED <<docs, pc, num, alone>>
    BY <1>8 DEF SetSeries, vars
  <2>2. UnderWay' = UnderWay
    BY <2>1 DEF UnderWay
  <2>. QED  BY <1>0, <2>1, <2>2 DEF AloneInv
<1>9. ASSUME NEW c \in Creates, Claim(c) \/ ClaimErrs(c) \/ ClaimReplyLost(c) PROVE AloneInv'
  <2>1. \/ Conflict(c) /\ UNCHANGED docs
        \/ Goto(c, "claim", "insert") /\ UNCHANGED <<docs, num, alone>>
    BY <1>9 DEF Claim, ClaimErrs, ClaimReplyLost, Conflict
  <2>. QED  BY <2>1, <1>3, <1>4
<1>. QED  BY <1>1, <1>2, <1>5, <1>6, <1>7, <1>8, <1>9 DEF Next

\* A create is refused a number only because another one was under way with it, a claim
\* without a document is in its place, or numbers of several lengths are mixed up, for
\* any creates, widths, failures and purges (naming.service.ts:132-141).
THEOREM RefusalsHaveACause == Spec => RefusedForCause
<1>1. Init => AloneInv
  BY DEF Init, AloneInv, UnderWay
<1>2. TypeOK /\ AloneInv /\ [Next]_vars =>
        [\A c \in Creates : pc[c] = "claim" /\ pc'[c] = "refused" => ~alone[c] \/ Obstructed']_vars
  <2>. SUFFICES ASSUME TypeOK, AloneInv, Next,
                       NEW c \in Creates, pc[c] = "claim", pc'[c] = "refused", alone[c]
                PROVE  Obstructed'
    OBVIOUS
  <2>0. pc \in [Creates -> {"idle", "read", "claim", "insert", "done", "refused", "failed"}]
    BY DEF TypeOK
  <2>1. pc'[c] # pc[c]
    OBVIOUS
  <2>2. PICK b \in Creates :
          \/ Begin(b) \/ Read(b) \/ (pc[b] = "claim" /\ Claim(b))
          \/ ClaimErrs(b) \/ ClaimReplyLost(b) \/ Insert(b) \/ Fail(b)
    BY <2>1 DEF Next, Purge, SetSeries
  <2>3. Conflict(c) /\ ((Key(c) \in claims /\ UNCHANGED claims) \/ claims' = claims \cup {Key(c)})
    BY <2>0, <2>2 DEF Begin, Read, Claim, ClaimErrs, ClaimReplyLost, Insert, Fail, Conflict, Goto
  <2>4. Key(c) \in claims' /\ docs' = docs
    BY <2>3 DEF Conflict
  <2>5. num[c] \notin Present \/ ~OneLength
    BY DEF AloneInv, UnderWay
  <2>6. CASE num[c] \notin Present
    <3>1. Key(c)[2] = num[c] /\ Present' = Present
      BY <2>4 DEF Key, Present
    <3>. QED  BY <2>4, <2>6, <3>1 DEF Obstructed
  <2>7. CASE ~OneLength
    BY <2>4, <2>7 DEF OneLength, Obstructed
  <2>. QED  BY <2>5, <2>6, <2>7
<1>. QED  BY <1>1, <1>2, AloneStep, TypeCorrect, PTL DEF Spec, RefusedForCause

-----------------------------------------------------------------------------
(* Families.                                                               *)

\* A request becomes another.
Turns(w, r) ==
    /\ r \in ReqType
    /\ req' \in [Writers -> ReqType]
    /\ req'[w] = r
    /\ \A v \in Writers : v # w => req'[v] = req[v]

\* An assignment to one request is a turn of it.
LEMMA Turn ==
  ASSUME FamilyTypeOK, NEW w \in Writers, NEW r \in ReqType, req' = [req EXCEPT ![w] = r]
  PROVE  Turns(w, r)
  BY DEF FamilyTypeOK, ReqType, Turns

Ops == ChildOps \cup {"new", "edit", "save", None}

\* No request is a request.
LEMMA IdleType ==
  /\ Idle \in ReqType
  /\ Idle.op = None /\ Idle.at = "idle" /\ Idle.child = None /\ Idle.parent = None
  BY FamiliesAssumption DEF Idle, ReqType, Steps, Counted

\* A request that proceeds stays one.
LEMMA AtType ==
  ASSUME NEW r \in ReqType, NEW a \in Steps
  PROVE  LET q == [r EXCEPT !.at = a]
         IN  /\ q \in ReqType
             /\ q.at = a /\ q.op = r.op /\ q.child = r.child /\ q.parent = r.parent
             /\ q.sum = r.sum /\ q.seen = r.seen /\ q.left = r.left
  BY DEF ReqType

\* So does one that has found its parent,
LEMMA LookedUpType ==
  ASSUME NEW r \in ReqType, NEW p \in Parents
  PROVE  LET q == [r EXCEPT !.at = "sum", !.parent = p]
         IN  /\ q \in ReqType
             /\ q.at = "sum" /\ q.op = r.op /\ q.parent = p
  BY DEF ReqType, Steps

\* and one that has read the lines of its parent.
LEMMA SummedType ==
  ASSUME NEW r \in ReqType, NEW S \in Counted
  PROVE  LET q == [r EXCEPT !.at = "store", !.sum = S, !.seen = S]
         IN  /\ q \in ReqType
             /\ q.at = "store" /\ q.op = r.op /\ q.parent = r.parent
             /\ q.sum = S /\ q.seen = S
  BY DEF ReqType, Steps

\* A child row replaced.
LEMMA RowChange ==
  ASSUME FamilyTypeOK, NEW c \in Children, NEW x \in RowType, row' = [row EXCEPT ![c] = x]
  PROVE  /\ row' \in [Children -> RowType]
         /\ row'[c] = x
         /\ \A d \in Children : d # c => row'[d] = row[d]
  BY DEF FamilyTypeOK, RowType

\* What a request holds, by where it is.
RequestOK(r) ==
    /\ r.at = "idle" => r.op = None
    /\ r.at \in {"write", "locate"} => r.child \in Children
    /\ r.at \notin {"idle", "write", "locate"} => r.parent \in Parents
    /\ r.at = "write" =>
         \/ r.op = "restore" /\ r.parent = None
         \/ r.op = "hardDelete" /\ r.parent \in Parents
    /\ r.at = "locate" => r.op \in ChildOps
    /\ r.at \in {"store", "put"} => r.sum = r.seen
    /\ r.at \in {"insert", "lines"} => r.op = "new"
    /\ r.at = "insert" => r.left = NumLines
    /\ r.at = "lines" => r.left # 0
    /\ r.at = "put" => r.op \in {"edit", "save"}
    /\ r.at = "replace" => r.op = "save"

RowOK(x) == x.st \in {"live", "trash"} => x.parent \in Parents /\ x.amount \in Amounts

FamilyShape ==
    /\ \A w \in Writers : RequestOK(req[w])
    /\ \A c \in Children : RowOK(row[c])
    /\ \A r \in Readers : reader[r].at = "fill" => reader[r].parent \in Parents

FamilyInv == FamilyTypeOK /\ FamilyShape

\* The lines of a parent are children with amounts, and Fetch reads them all.
LEMMA LinesType ==
  ASSUME FamilyInv, NEW p
  PROVE  LinesOf(p) \in Counted /\ Fetch(p) = LinesOf(p)
  BY DEF FamilyInv, FamilyShape, RowOK, LinesOf, Live, Fetch, Counted

\* It holds before the first request.
LEMMA FamilyInitInv == FamilyInit => FamilyInv
<1> SUFFICES ASSUME FamilyInit PROVE FamilyInv
  OBVIOUS
<1> USE FamiliesAssumption
<1>1. req \in [Writers -> ReqType] /\ \A w \in Writers : req[w] = Idle
  BY IdleType DEF FamilyInit
<1>2. FamilyTypeOK
  BY <1>1 DEF FamilyInit, FamilyTypeOK, RowType, ReaderType, Resting, Counted
<1>3. FamilyShape
  BY <1>1, IdleType DEF FamilyInit, FamilyShape, RequestOK, RowOK, Resting
<1> QED BY <1>2, <1>3 DEF FamilyInv

\* What a request looks like.
Is(r, op, at, child, parent) == r.op = op /\ r.at = at /\ r.child = child /\ r.parent = parent

\* What the parts of a handler do to the request: a further step,
LEMMA ProceedEffect ==
  ASSUME FamilyTypeOK, NEW w \in Writers, NEW a \in Steps, Proceed(w, a)
  PROVE  \E r \in ReqType :
           /\ Turns(w, r)
           /\ Is(r, req[w].op, a, req[w].child, req[w].parent)
           /\ r.sum = req[w].sum /\ r.seen = req[w].seen /\ r.left = req[w].left
<1> DEFINE r == [req[w] EXCEPT !.at = a]
<1>1. req[w] \in ReqType
  BY DEF FamilyTypeOK, ReqType
<1>2. r \in ReqType /\ Is(r, req[w].op, a, req[w].child, req[w].parent)
      /\ r.sum = req[w].sum /\ r.seen = req[w].seen /\ r.left = req[w].left
  BY <1>1, AtType DEF Is
<1>3. req' = [req EXCEPT ![w] = r]
  BY DEF Proceed
<1> HIDE DEF r
<1>4. Turns(w, r)
  BY <1>2, <1>3, Turn
<1> QED BY <1>2, <1>4

\* the end,
LEMMA FinishEffect ==
  ASSUME FamilyTypeOK, NEW w \in Writers, Finish(w)
  PROVE  \E r \in ReqType : Turns(w, r) /\ Is(r, None, "idle", None, None)
<1>1. Is(Idle, None, "idle", None, None)
  BY IdleType DEF Is
<1> QED BY <1>1, IdleType, Turn DEF Finish

\* a child's write with its parent yet to be found,
LEMMA WrittenEffect ==
  ASSUME FamilyTypeOK, NEW w \in Writers, NEW op \in ChildOps, NEW c \in Children, Written(w, op, c)
  PROVE  \E r \in ReqType : Turns(w, r) /\ Is(r, op, "locate", c, None)
<1> DEFINE r == [Idle EXCEPT !.op = op, !.at = "locate", !.child = c]
<1>1. r \in ReqType /\ Is(r, op, "locate", c, None)
  BY IdleType DEF ReqType, ChildOps, Steps, Is
<1>2. req' = [req EXCEPT ![w] = r]
  BY DEF Written
<1> HIDE DEF r
<1> QED BY <1>1, <1>2, Turn

\* the parent found,
LEMMA LookedUpEffect ==
  ASSUME FamilyTypeOK, NEW w \in Writers, NEW p \in Parents, LookedUp(w, p)
  PROVE  \E r \in ReqType :
           Turns(w, r) /\ r.at = "sum" /\ r.parent = p /\ r.op = req[w].op
<1> DEFINE r == [req[w] EXCEPT !.at = "sum", !.parent = p]
<1>1. req[w] \in ReqType
  BY DEF FamilyTypeOK, ReqType
<1>2. r \in ReqType /\ r.at = "sum" /\ r.parent = p /\ r.op = req[w].op
  BY <1>1, LookedUpType
<1>3. req' = [req EXCEPT ![w] = r]
  BY DEF LookedUp
<1> HIDE DEF r
<1> QED BY <1>2, <1>3, Turn

\* its lines read.
LEMMA SumEffect ==
  ASSUME FamilyInv, NEW w \in Writers, Sum(w)
  PROVE  \E r \in ReqType :
           /\ Turns(w, r)
           /\ r.at = "store" /\ r.op = req[w].op /\ r.parent = req[w].parent
           /\ r.sum = r.seen
<1> DEFINE S == LinesOf(req[w].parent)
           r == [req[w] EXCEPT !.at = "store", !.sum = S, !.seen = S]
<1>1. S \in Counted /\ Fetch(req[w].parent) = S
  BY LinesType
<1>2. req[w] \in ReqType /\ FamilyTypeOK
  BY DEF FamilyInv, FamilyTypeOK, ReqType
<1>3. req' = [req EXCEPT ![w] = r]
  BY <1>1 DEF Sum
<1> HIDE DEF S
<1>4. r \in ReqType /\ r.at = "store" /\ r.op = req[w].op /\ r.parent = req[w].parent /\ r.sum = r.seen
  BY <1>1, <1>2, SummedType
<1> HIDE DEF r
<1> QED BY <1>2, <1>3, <1>4, Turn

\* A restore and a hard delete read the row first,
LEMMA LoadEffect ==
  ASSUME FamilyInv, NEW w \in Writers, Load(w)
  PROVE  \E c \in Children, r \in ReqType :
           /\ Turns(w, r)
           /\ r.at = "write" /\ r.child = c
           /\ \/ r.op = "restore" /\ r.parent = None
              \/ r.op = "hardDelete" /\ r.parent \in Parents
<1>1. PICK c \in Children, op \in {"restore", "hardDelete"} :
        /\ InTable(c)
        /\ req' = [req EXCEPT ![w] =
                [Idle EXCEPT !.op = op, !.at = "write", !.child = c,
                             !.parent = IF op = "hardDelete" THEN row[c].parent ELSE None]]
  BY DEF Load
<1> DEFINE r == [Idle EXCEPT !.op = op, !.at = "write", !.child = c,
                             !.parent = IF op = "hardDelete" THEN row[c].parent ELSE None]
<1>2. row[c].parent \in Parents
  BY <1>1 DEF FamilyInv, FamilyShape, RowOK, InTable
<1>3. /\ r \in ReqType /\ r.at = "write" /\ r.child = c
      /\ \/ r.op = "restore" /\ r.parent = None
         \/ r.op = "hardDelete" /\ r.parent \in Parents
  <2> DEFINE q == IF op = "hardDelete" THEN row[c].parent ELSE None
  <2>3. r = [Idle EXCEPT !.op = op, !.at = "write", !.child = c, !.parent = q]
    OBVIOUS
  <2> HIDE DEF r
  <2>1. q \in Parents \cup {None} /\ op \in Ops
    BY <1>2 DEF Ops, ChildOps
  <2> HIDE DEF q
  <2>2. r \in ReqType /\ r.op = op /\ r.at = "write" /\ r.child = c /\ r.parent = q
    BY <2>1, <2>3, IdleType DEF ReqType, Ops, Steps
  <2> QED BY <2>2, <1>2 DEF q
<1>4. req' = [req EXCEPT ![w] = r]
  BY <1>1
<1> HIDE DEF r
<1> QED BY <1>3, <1>4, Turn DEF FamilyInv

\* an update of a parent its lines,
LEMMA LoadParentEffect ==
  ASSUME FamilyInv, NEW w \in Writers, LoadParent(w)
  PROVE  \E p \in exists, r \in ReqType :
           /\ Turns(w, r)
           /\ r.at = "put" /\ r.op \in {"edit", "save"} /\ r.parent = p /\ r.sum = r.seen
<1>1. PICK p \in exists, op \in {"edit", "save"} :
        req' = [req EXCEPT ![w] = [Idle EXCEPT !.op = op, !.at = "put", !.parent = p,
                                               !.sum = Fetch(p), !.seen = LinesOf(p)]]
  BY DEF LoadParent
<1> DEFINE S == LinesOf(p)
           r == [Idle EXCEPT !.op = op, !.at = "put", !.parent = p, !.sum = S, !.seen = S]
<1>2. S \in Counted /\ Fetch(p) = S
  BY LinesType
<1>3. req' = [req EXCEPT ![w] = r]
  BY <1>1, <1>2
<1>4. p \in Parents
  BY DEF FamilyInv, FamilyTypeOK
<1> HIDE DEF S
<1>5. r \in ReqType /\ r.at = "put" /\ r.op \in {"edit", "save"} /\ r.parent = p /\ r.sum = r.seen
  BY <1>2, <1>4, IdleType DEF ReqType, Steps
<1> HIDE DEF r
<1> QED BY <1>3, <1>5, Turn DEF FamilyInv

\* and a create whether the record is there.
LEMMA LookupEffect ==
  ASSUME FamilyInv, NEW w \in Writers, Lookup(w)
  PROVE  \E p \in Parents :
           \/ /\ p \in exists
              /\ created' = created \cup {p}
              /\ UNCHANGED req
           \/ /\ p \notin exists
              /\ UNCHANGED created
              /\ \E r \in ReqType :
                   Turns(w, r) /\ Is(r, "new", "insert", None, p) /\ r.left = NumLines
<1>1. PICK p \in Parents :
         \/ /\ p \in exists
            /\ created' = created \cup {p}
            /\ UNCHANGED req
         \/ /\ p \notin exists
            /\ req' = [req EXCEPT ![w] =
                   [Idle EXCEPT !.op = "new", !.at = "insert", !.parent = p, !.left = NumLines]]
            /\ UNCHANGED created
  BY DEF Lookup
<1> DEFINE r == [Idle EXCEPT !.op = "new", !.at = "insert", !.parent = p, !.left = NumLines]
<1>2. r \in ReqType /\ Is(r, "new", "insert", None, p) /\ r.left = NumLines
  <2>1. NumLines \in 0..NumLines
    BY FamiliesAssumption
  <2> QED BY <2>1, IdleType DEF ReqType, Steps, Is
<1>3. req' = [req EXCEPT ![w] = r] => Turns(w, r)
  BY <1>2, Turn DEF FamilyInv
<1> QED BY <1>1, <1>2, <1>3

\* A create inserts its child rows one by one.
LEMMA LinesEffect ==
  ASSUME FamilyInv, NEW w \in Writers, createChildren(w)
  PROVE  /\ req[w].at = "lines" /\ req[w].parent \in Parents /\ req[w].op = "new"
         /\ req[w].left \in 1..NumLines
         /\ \E r \in ReqType :
              /\ Turns(w, r)
              /\ r.op = "new" /\ r.parent = req[w].parent
              /\ r.left = req[w].left - 1
              /\ r.at = IF r.left = 0 THEN "sum" ELSE "lines"
         /\ \E c \in Children, a \in Amounts :
              row[c].st = "none" /\ row' = [row EXCEPT ![c] = NewRow(req[w].parent, a)]
         /\ lines' = [lines EXCEPT ![req[w].parent] = @ + 1]
<1> DEFINE left == req[w].left - 1
           at == IF left = 0 THEN "sum" ELSE "lines"
           r == [req[w] EXCEPT !.left = left, !.at = at]
<1>1. req[w] \in ReqType /\ FamilyTypeOK
  BY DEF FamilyInv, FamilyTypeOK, ReqType
<1>2. req[w].at = "lines" /\ req[w].parent \in Parents /\ req[w].op = "new" /\ req[w].left # 0
  BY DEF createChildren, FamilyInv, FamilyShape, RequestOK
<1>3. req[w].left \in 1..NumLines /\ left \in 0..NumLines /\ at \in Steps
  BY <1>1, <1>2, FamiliesAssumption DEF ReqType, Steps
<1>4. req' = [req EXCEPT ![w] = r]
  BY DEF createChildren
<1> HIDE DEF left, at
<1>5. r \in ReqType /\ r.op = "new" /\ r.parent = req[w].parent /\ r.left = left /\ r.at = at
  BY <1>1, <1>2, <1>3 DEF ReqType
<1> HIDE DEF r
<1>6. Turns(w, r)
  BY <1>1, <1>4, <1>5, Turn
<1>7. r.left = req[w].left - 1 /\ r.at = IF r.left = 0 THEN "sum" ELSE "lines"
  BY <1>5 DEF left, at
<1> QED BY <1>2, <1>3, <1>5, <1>6, <1>7 DEF createChildren

\* As one request turns to another that is in shape, all are in shape,
LEMMA RequestTurn ==
  ASSUME FamilyInv, NEW w \in Writers, NEW r, Turns(w, r), RequestOK(r)
  PROVE  req' \in [Writers -> ReqType] /\ \A v \in Writers : RequestOK(req'[v])
  BY DEF FamilyInv, FamilyShape, Turns

\* and likewise with rows.
LEMMA RowTurn ==
  ASSUME FamilyInv, NEW c \in Children, NEW x \in RowType, RowOK(x), row' = [row EXCEPT ![c] = x]
  PROVE  /\ row' \in [Children -> RowType]
         /\ row'[c] = x
         /\ \A d \in Children : d # c => row'[d] = row[d]
         /\ \A d \in Children : RowOK(row'[d])
<1>1. /\ row' \in [Children -> RowType]
      /\ row'[c] = x
      /\ \A d \in Children : d # c => row'[d] = row[d]
  BY RowChange DEF FamilyInv
<1> QED BY <1>1 DEF FamilyInv, FamilyShape

\* A row that is inserted is in shape.
LEMMA NewRowOK ==
  ASSUME NEW p \in Parents, NEW a \in Amounts
  PROVE  NewRow(p, a) \in RowType /\ RowOK(NewRow(p, a))
  BY DEF NewRow, RowType, RowOK

\* What each write does to the child rows.
LEMMA CreateChildEffect ==
  ASSUME FamilyInv, NEW w \in Writers, createChild(w)
  PROVE  \E c \in Children, p \in exists, a \in Amounts, r \in ReqType :
           /\ row[c].st = "none" /\ row' = [row EXCEPT ![c] = NewRow(p, a)]
           /\ Turns(w, r) /\ Is(r, "create", "locate", c, None)
<1>1. PICK c \in Children, p \in exists, a \in Amounts :
        /\ row[c].st = "none" /\ row' = [row EXCEPT ![c] = NewRow(p, a)]
        /\ Written(w, "create", c)
  BY DEF createChild
<1>2. "create" \in ChildOps
  BY DEF ChildOps
<1>3. PICK r \in ReqType : Turns(w, r) /\ Is(r, "create", "locate", c, None)
  BY <1>1, <1>2, WrittenEffect DEF FamilyInv
<1> QED BY <1>1, <1>3

\* What the writes of a child do to its row and request: the update,
LEMMA UpdateChildEffect ==
  ASSUME FamilyInv, NEW w \in Writers, updateChild(w)
  PROVE  \E c \in Children, p \in exists, x \in RowType, r \in ReqType :
           /\ RowOK(x) /\ row[c].parent \in Parents /\ InTable(c)
           /\ row' = [row EXCEPT ![c] = x] /\ x.st = row[c].st /\ x.parent = p
           /\ behind' = behind \cup ({row[c].parent} \ {p})
           /\ Turns(w, r) /\ Is(r, "update", "locate", c, None)
<1>1. PICK c \in Children, p \in exists, a \in Amounts :
        /\ InTable(c)
        /\ row' = [row EXCEPT ![c] = [row[c] EXCEPT !.parent = p, !.amount = a]]
        /\ behind' = behind \cup ({row[c].parent} \ {p})
        /\ Written(w, "update", c)
  BY DEF updateChild
<1>2. "update" \in ChildOps
  BY DEF ChildOps
<1>3. PICK r \in ReqType : Turns(w, r) /\ Is(r, "update", "locate", c, None)
  BY <1>1, <1>2, WrittenEffect DEF FamilyInv
<1> DEFINE x == [row[c] EXCEPT !.parent = p, !.amount = a]
<1>4. row[c] \in RowType /\ p \in Parents
  BY DEF FamilyInv, FamilyTypeOK
<1>5. x \in RowType /\ x.st = row[c].st /\ x.parent = p /\ x.amount = a
  BY <1>4 DEF RowType
<1>6. row[c].parent \in Parents
  BY <1>1 DEF FamilyInv, FamilyShape, RowOK, InTable
<1>7. row' = [row EXCEPT ![c] = x]
  BY <1>1
<1> HIDE DEF x
<1>8. RowOK(x)
  BY <1>4, <1>5 DEF RowOK
<1> QED BY <1>1, <1>3, <1>5, <1>6, <1>7, <1>8

\* the soft delete,
LEMMA SoftDeleteChildEffect ==
  ASSUME FamilyInv, NEW w \in Writers, softDeleteChild(w)
  PROVE  \E c \in Children, x \in RowType, r \in ReqType :
           /\ RowOK(x) /\ row[c].parent \in Parents /\ InTable(c)
           /\ row' = [row EXCEPT ![c] = x]
           /\ x.st = "trash" /\ x.parent = row[c].parent
           /\ Turns(w, r) /\ Is(r, "softDelete", "locate", c, None)
<1>1. PICK c \in Children :
        /\ InTable(c)
        /\ row' = [row EXCEPT ![c] = [row[c] EXCEPT !.st = "trash"]]
        /\ Written(w, "softDelete", c)
  BY DEF softDeleteChild
<1>2. "softDelete" \in ChildOps
  BY DEF ChildOps
<1>3. PICK r \in ReqType : Turns(w, r) /\ Is(r, "softDelete", "locate", c, None)
  BY <1>1, <1>2, WrittenEffect DEF FamilyInv
<1> DEFINE x == [row[c] EXCEPT !.st = "trash"]
<1>4. row[c] \in RowType
  BY DEF FamilyInv, FamilyTypeOK
<1>5. x \in RowType /\ x.st = "trash" /\ x.parent = row[c].parent /\ x.amount = row[c].amount
  BY <1>4 DEF RowType
<1>6. row[c].parent \in Parents /\ row[c].amount \in Amounts
  BY <1>1 DEF FamilyInv, FamilyShape, RowOK, InTable
<1>7. row' = [row EXCEPT ![c] = x]
  BY <1>1
<1> HIDE DEF x
<1>8. RowOK(x)
  BY <1>5, <1>6 DEF RowOK
<1> QED BY <1>1, <1>3, <1>5, <1>6, <1>7, <1>8

\* the restore,
LEMMA RestoreChildEffect ==
  ASSUME FamilyInv, NEW w \in Writers, restoreChild(w)
  PROVE  /\ Is(req[w], "restore", "write", req[w].child, None)
         /\ \E c \in Children, x \in RowType, r \in ReqType :
           /\ c = req[w].child
           /\ RowOK(x) /\ row' = [row EXCEPT ![c] = x]
           /\ x.st = (IF InTable(c) THEN "live" ELSE row[c].st) /\ x.parent = row[c].parent
           /\ Turns(w, r) /\ Is(r, "restore", "locate", c, None)
<1> DEFINE c == req[w].child
           s == IF InTable(c) THEN "live" ELSE row[c].st
           x == [row[c] EXCEPT !.st = s]
<1>1. req[w].op = "restore" /\ req[w].at = "write" /\ row' = [row EXCEPT ![c] = x]
  BY DEF restoreChild, Writing
<1>2. c \in Children /\ FamilyTypeOK
  BY <1>1 DEF FamilyInv, FamilyShape, RequestOK
<1>3. req[w].parent = None
  BY <1>1 DEF FamilyInv, FamilyShape, RequestOK
<1>4. PICK r \in ReqType : Turns(w, r) /\ Is(r, "restore", "locate", c, None)
  BY <1>1, <1>2, <1>3, ProceedEffect DEF restoreChild, Steps
<1>5. row[c] \in RowType /\ RowOK(row[c])
  BY <1>2 DEF FamilyInv, FamilyTypeOK, FamilyShape
<1>6. s \in {"none", "live", "trash", "gone"} /\ (s \in {"live", "trash"} => InTable(c))
  BY <1>5 DEF RowType, InTable
<1> HIDE DEF s
<1>7. x \in RowType /\ x.st = s /\ x.parent = row[c].parent /\ x.amount = row[c].amount
  BY <1>5, <1>6 DEF RowType
<1> HIDE DEF x
<1>8. RowOK(x)
  BY <1>5, <1>6, <1>7 DEF RowOK, InTable
<1>9. x.st = (IF InTable(c) THEN "live" ELSE row[c].st)
  BY <1>7 DEF s
<1> QED BY <1>1, <1>2, <1>3, <1>4, <1>7, <1>8, <1>9 DEF Is

\* the hard delete,
LEMMA HardDeleteChildEffect ==
  ASSUME FamilyInv, NEW w \in Writers, hardDeleteChild(w)
  PROVE  /\ req[w].at = "write" /\ req[w].op = "hardDelete" /\ req[w].parent \in Parents
         /\ \E c \in Children, x \in RowType, r \in ReqType :
           /\ c = req[w].child
           /\ RowOK(x) /\ row' = [row EXCEPT ![c] = x] /\ x.st = "gone"
           /\ behind' = behind \cup (IF InTable(c) THEN {row[c].parent} \ {req[w].parent} ELSE {})
           /\ InTable(c) => row[c].parent \in Parents
           /\ Turns(w, r) /\ Is(r, "hardDelete", "locate", c, req[w].parent)
<1> DEFINE c == req[w].child
           x == [row[c] EXCEPT !.st = "gone"]
<1>1. /\ req[w].op = "hardDelete" /\ req[w].at = "write" /\ row' = [row EXCEPT ![c] = x]
      /\ behind' = behind \cup (IF InTable(c) THEN {row[c].parent} \ {req[w].parent} ELSE {})
  BY DEF hardDeleteChild, Writing
<1>2. c \in Children /\ FamilyTypeOK /\ req[w].parent \in Parents
  BY <1>1 DEF FamilyInv, FamilyShape, RequestOK
<1>3. InTable(c) => row[c].parent \in Parents
  BY <1>2 DEF FamilyInv, FamilyShape, RowOK, InTable
<1>4. PICK r \in ReqType : Turns(w, r) /\ Is(r, "hardDelete", "locate", c, req[w].parent)
  BY <1>1, <1>2, ProceedEffect DEF hardDeleteChild, Steps
<1>5. row[c] \in RowType
  BY <1>2 DEF FamilyTypeOK
<1>7. x \in RowType /\ x.st = "gone"
  BY <1>5 DEF RowType
<1> HIDE DEF x
<1>8. RowOK(x)
  BY <1>7 DEF RowOK
<1> QED BY <1>1, <1>2, <1>3, <1>4, <1>7, <1>8

\* and the batch that replaces the rows of a parent.
LEMMA ReplaceChildrenEffect ==
  ASSUME FamilyInv, NEW w \in Writers, replaceChildren(w)
  PROVE  /\ req[w].at = "replace" /\ req[w].op = "save" /\ req[w].parent \in Parents
         /\ row' \in [Children -> RowType]
         /\ \A c \in Children :
              /\ RowOK(row'[c])
              /\ \/ row'[c] = row[c]
                 \/ row[c].parent = req[w].parent /\ row'[c].st = "gone"
                 \/ row[c].st = "none" /\ row'[c].parent = req[w].parent
         /\ \E r \in ReqType : Turns(w, r) /\ Is(r, "save", "sum", req[w].child, req[w].parent)
<1> DEFINE p == req[w].parent
           emptied == [c \in Children |->
               IF InTable(c) /\ row[c].parent = p THEN [row[c] EXCEPT !.st = "gone"] ELSE row[c]]
<1>1. req[w].at = "replace" /\ req[w].op = "save" /\ p \in Parents /\ FamilyTypeOK
  BY DEF replaceChildren, FamilyInv, FamilyShape, RequestOK
<1>2. \E r \in ReqType : Turns(w, r) /\ Is(r, "save", "sum", req[w].child, p)
  BY <1>1, ProceedEffect DEF replaceChildren, Steps
<1>3. \/ row' = emptied
      \/ \E c \in Children, a \in Amounts :
           row[c].st = "none" /\ row' = [emptied EXCEPT ![c] = NewRow(p, a)]
  BY DEF replaceChildren
<1>4. ASSUME NEW c \in Children
      PROVE  /\ emptied[c] \in RowType /\ RowOK(emptied[c])
             /\ emptied[c] = row[c] \/ (row[c].parent = p /\ emptied[c].st = "gone")
             /\ row[c].st = "none" => emptied[c] = row[c]
  <2>1. row[c] \in RowType /\ RowOK(row[c])
    BY DEF FamilyInv, FamilyTypeOK, FamilyShape
  <2>2. [row[c] EXCEPT !.st = "gone"] \in RowType /\ [row[c] EXCEPT !.st = "gone"].st = "gone"
    BY <2>1 DEF RowType
  <2> QED BY <2>1, <2>2 DEF RowOK, InTable
<1>5. emptied \in [Children -> RowType]
  BY <1>4
<1> HIDE DEF emptied
<1>6. CASE row' = emptied
  BY <1>1, <1>2, <1>4, <1>5, <1>6
<1>7. CASE \E c \in Children, a \in Amounts :
             row[c].st = "none" /\ row' = [emptied EXCEPT ![c] = NewRow(p, a)]
  <2>1. PICK c \in Children, a \in Amounts :
          row[c].st = "none" /\ row' = [emptied EXCEPT ![c] = NewRow(p, a)]
    BY <1>7
  <2>2. NewRow(p, a) \in RowType /\ RowOK(NewRow(p, a)) /\ NewRow(p, a).parent = p
    BY <1>1, NewRowOK DEF NewRow
  <2>3. row' \in [Children -> RowType] /\ row'[c] = NewRow(p, a)
        /\ \A d \in Children : d # c => row'[d] = emptied[d]
    BY <1>5, <2>1, <2>2
  <2> QED BY <1>1, <1>2, <1>4, <2>1, <2>2, <2>3
<1> QED BY <1>3, <1>6, <1>7

\* The parent of a written row is the one of the snapshot, else of the row as it is.
LEMMA LocateEffect ==
  ASSUME FamilyInv, NEW w \in Writers, Locate(w)
  PROVE  /\ req[w].at = "locate" /\ req[w].op \in ChildOps
         /\ \E r \in ReqType :
              /\ Turns(w, r) /\ RequestOK(r)
              /\ IF Recomputes(w) = {} THEN Is(r, None, "idle", None, None)
                 ELSE r.at = "sum" /\ r.op = req[w].op /\ Recomputes(w) = {r.parent}
<1> DEFINE c == req[w].child
<1>1. /\ req[w].at = "locate" /\ req[w].op \in ChildOps /\ c \in Children /\ FamilyTypeOK
      /\ req[w] \in ReqType
  BY DEF Locate, FamilyInv, FamilyShape, RequestOK, FamilyTypeOK
<1>2. \A r : Is(r, None, "idle", None, None) => RequestOK(r)
  BY DEF Is, RequestOK
<1>3. \A r : r.at = "sum" /\ r.parent \in Parents => RequestOK(r)
  BY DEF RequestOK
<1>4. CASE req[w].parent # None
  <2>1. Recomputes(w) = {req[w].parent} /\ req[w].parent \in Parents
    BY <1>1, <1>4 DEF Recomputes, ReqType
  <2>2. PICK r \in ReqType : Turns(w, r) /\ Is(r, req[w].op, "sum", c, req[w].parent)
    BY <1>1, <1>4, ProceedEffect DEF Locate, Steps
  <2> QED BY <1>1, <1>3, <2>1, <2>2 DEF Is
<1>5. CASE req[w].parent = None /\ InTable(c)
  <2>1. Recomputes(w) = {row[c].parent} /\ row[c].parent \in Parents
    BY <1>1, <1>5 DEF Recomputes, FamilyInv, FamilyShape, RowOK, InTable
  <2>2. PICK r \in ReqType :
          Turns(w, r) /\ r.at = "sum" /\ r.parent = row[c].parent /\ r.op = req[w].op
    BY <1>1, <1>5, <2>1, LookedUpEffect DEF Locate
  <2> QED BY <1>1, <1>3, <2>1, <2>2
<1>6. CASE req[w].parent = None /\ ~InTable(c)
  <2>1. Recomputes(w) = {}
    BY <1>1, <1>6 DEF Recomputes
  <2>2. PICK r \in ReqType : Turns(w, r) /\ Is(r, None, "idle", None, None)
    BY <1>1, <1>6, FinishEffect DEF Locate
  <2> QED BY <1>1, <1>2, <2>1, <2>2
<1> QED BY <1>4, <1>5, <1>6

\* Requests set totals of parents and drop reads of parents only.
LEMMA ParentsOnly ==
  ASSUME FamilyInv, NEW w \in Writers
  PROVE  Recomputes(w) \subseteq Parents /\ Drops(w) \subseteq Parents
<1>1. RequestOK(req[w])
  BY DEF FamilyInv, FamilyShape
<1>2. req[w].at = "locate" => Recomputes(w) \subseteq Parents
  BY <1>1 DEF Recomputes, RequestOK, FamilyInv, FamilyShape, FamilyTypeOK, ReqType, RowOK, InTable
<1>3. req[w].at # "locate" => Recomputes(w) \subseteq Parents
  BY <1>1 DEF Recomputes, RequestOK
<1>4. Drops(w) \subseteq Parents
  BY <1>1, FamiliesAssumption DEF Drops, RequestOK, ChildOps
<1> QED BY <1>2, <1>3, <1>4

\* The rest of the state keeps its type.
RestOK ==
    /\ exists \subseteq Parents
    /\ total \in [Parents -> Counted]
    /\ cache \in [Parents -> SUBSET Counted]
    /\ reader \in [Readers -> ReaderType]
    /\ \A r \in Readers : reader[r].at = "fill" => reader[r].parent \in Parents
    /\ lines \in [Parents -> Nat]
    /\ created \subseteq Parents
    /\ broken \subseteq Parents
    /\ behind \subseteq Parents
    /\ stale \subseteq Parents
    /\ started \in 0..MaxRequests
    /\ mishaps \in 0..MaxMishaps

\* The invariant after a step from its parts.
LEMMA FamilyInvParts ==
  ASSUME row' \in [Children -> RowType], req' \in [Writers -> ReqType], RestOK',
         \A v \in Writers : RequestOK(req'[v]), \A c \in Children : RowOK(row'[c])
  PROVE  FamilyInv'
  BY DEF FamilyInv, FamilyTypeOK, FamilyShape, RestOK, RequestOK, RowOK

\* Every step keeps the types and shapes, whatever the order of the requests.
LEMMA FamilyInvStep == FamilyInv /\ [FamilyNext]_familyVars => FamilyInv'
<1> SUFFICES ASSUME FamilyInv, [FamilyNext]_familyVars PROVE FamilyInv'
  OBVIOUS
<1> USE FamiliesAssumption
<1>0. /\ RestOK /\ FamilyTypeOK
      /\ row \in [Children -> RowType] /\ req \in [Writers -> ReqType]
      /\ \A v \in Writers : RequestOK(req[v])
      /\ \A c \in Children : RowOK(row[c])
  BY DEF FamilyInv, FamilyTypeOK, FamilyShape, RestOK
<1> DEFINE RowsOK == row' \in [Children -> RowType] /\ \A c \in Children : RowOK(row'[c])
           RequestsOK == req' \in [Writers -> ReqType] /\ \A v \in Writers : RequestOK(req'[v])
<1>same. row' = row => RowsOK
  BY <1>0
<1>keep. req' = req => RequestsOK
  BY <1>0
<1>turn. \A w \in Writers : \A r : Turns(w, r) /\ RequestOK(r) => RequestsOK
  BY RequestTurn
<1>one. \A c \in Children, x \in RowType : RowOK(x) /\ row' = [row EXCEPT ![c] = x] => RowsOK
  BY RowTurn
<1>at. \A r, op, c, p : /\ Is(r, op, "idle", c, p) /\ op = None => RequestOK(r)
                        /\ Is(r, op, "locate", c, p) /\ op \in ChildOps /\ c \in Children => RequestOK(r)
  BY DEF Is, RequestOK
<1>to. \A r : r.at \in {"sum", "drop"} /\ r.parent \in Parents => RequestOK(r)
  BY DEF RequestOK
<1>ops. {"create", "update", "softDelete", "restore", "hardDelete"} \subseteq ChildOps
  BY DEF ChildOps
<1> HIDE DEF RowsOK, RequestsOK
<1>done. SUFFICES RowsOK /\ RequestsOK /\ RestOK'
  BY FamilyInvParts DEF RowsOK, RequestsOK
<1>1. ASSUME NEW w \in Writers, createChild(w) PROVE RowsOK /\ RequestsOK /\ RestOK'
  <2>1. PICK c \in Children, p \in exists, a \in Amounts, r \in ReqType :
          /\ row' = [row EXCEPT ![c] = NewRow(p, a)]
          /\ Turns(w, r) /\ Is(r, "create", "locate", c, None)
    BY <1>1, CreateChildEffect
  <2>2. RowsOK
    BY <2>1, <1>0, <1>one, NewRowOK DEF RestOK
  <2>3. RequestsOK
    BY <2>1, <1>turn, <1>at, <1>ops
  <2>4. RestOK'
    BY <1>0, <1>1 DEF RestOK, createChild, Arrive, history
  <2> QED BY <2>2, <2>3, <2>4
<1>2. ASSUME NEW w \in Writers, updateChild(w) PROVE RowsOK /\ RequestsOK /\ RestOK'
  <2>1. PICK c \in Children, p \in exists, x \in RowType, r \in ReqType :
          /\ RowOK(x) /\ row[c].parent \in Parents
          /\ row' = [row EXCEPT ![c] = x]
          /\ behind' = behind \cup ({row[c].parent} \ {p})
          /\ Turns(w, r) /\ Is(r, "update", "locate", c, None)
    BY <1>2, UpdateChildEffect
  <2>2. RowsOK
    BY <2>1, <1>one
  <2>3. RequestsOK
    BY <2>1, <1>turn, <1>at, <1>ops
  <2>4. behind' \subseteq Parents
    BY <2>1, <1>0 DEF RestOK
  <2>5. RestOK'
    BY <1>0, <1>2, <2>4 DEF RestOK, updateChild, Arrive
  <2> QED BY <2>2, <2>3, <2>5
<1>3. ASSUME NEW w \in Writers, softDeleteChild(w) PROVE RowsOK /\ RequestsOK /\ RestOK'
  <2>1. PICK c \in Children, x \in RowType, r \in ReqType :
          /\ RowOK(x) /\ row' = [row EXCEPT ![c] = x]
          /\ Turns(w, r) /\ Is(r, "softDelete", "locate", c, None)
    BY <1>3, SoftDeleteChildEffect
  <2>2. RowsOK
    BY <2>1, <1>one
  <2>3. RequestsOK
    BY <2>1, <1>turn, <1>at, <1>ops
  <2>4. RestOK'
    BY <1>0, <1>3 DEF RestOK, softDeleteChild, Arrive, history
  <2> QED BY <2>2, <2>3, <2>4
<1>4. ASSUME NEW w \in Writers, Load(w) PROVE RowsOK /\ RequestsOK /\ RestOK'
  <2>1. PICK c \in Children, r \in ReqType :
           /\ Turns(w, r)
           /\ r.at = "write" /\ r.child = c
           /\ \/ r.op = "restore" /\ r.parent = None
              \/ r.op = "hardDelete" /\ r.parent \in Parents
    BY <1>4, LoadEffect
  <2>2. RequestOK(r)
    BY <2>1 DEF RequestOK
  <2>3. RequestsOK
    BY <2>1, <2>2, <1>turn
  <2>4. RestOK' /\ row' = row
    BY <1>0, <1>4 DEF RestOK, Load, Arrive, history, families
  <2> QED BY <2>3, <2>4, <1>same
<1>5. ASSUME NEW w \in Writers, restoreChild(w) PROVE RowsOK /\ RequestsOK /\ RestOK'
  <2>1. PICK c \in Children, x \in RowType, r \in ReqType :
          /\ RowOK(x) /\ row' = [row EXCEPT ![c] = x]
          /\ Turns(w, r) /\ Is(r, "restore", "locate", c, None)
    BY <1>5, RestoreChildEffect
  <2>2. RowsOK
    BY <2>1, <1>one
  <2>3. RequestsOK
    BY <2>1, <1>turn, <1>at, <1>ops
  <2>4. RestOK'
    BY <1>0, <1>5 DEF RestOK, restoreChild, history
  <2> QED BY <2>2, <2>3, <2>4
<1>6. ASSUME NEW w \in Writers, hardDeleteChild(w) PROVE RowsOK /\ RequestsOK /\ RestOK'
  <2>1. PICK c \in Children, x \in RowType, r \in ReqType :
           /\ RowOK(x) /\ row' = [row EXCEPT ![c] = x]
           /\ behind' = behind \cup (IF InTable(c) THEN {row[c].parent} \ {req[w].parent} ELSE {})
           /\ InTable(c) => row[c].parent \in Parents
           /\ Turns(w, r) /\ Is(r, "hardDelete", "locate", c, req[w].parent)
    BY <1>6, HardDeleteChildEffect
  <2>2. RowsOK
    BY <2>1, <1>one
  <2>3. RequestsOK
    BY <2>1, <1>turn, <1>at, <1>ops
  <2>4. behind' \subseteq Parents
    BY <2>1, <1>0 DEF RestOK
  <2>5. RestOK'
    BY <1>0, <1>6, <2>4 DEF RestOK, hardDeleteChild
  <2> QED BY <2>2, <2>3, <2>5
<1>7. ASSUME NEW w \in Writers, Locate(w) PROVE RowsOK /\ RequestsOK /\ RestOK'
  <2>1. RequestsOK
    BY <1>7, LocateEffect, <1>turn
  <2>2. RestOK' /\ row' = row
    BY <1>0, <1>7 DEF RestOK, Locate, history, families
  <2> QED BY <2>1, <2>2, <1>same
<1>8. ASSUME NEW w \in Writers, Lookup(w) PROVE RowsOK /\ RequestsOK /\ RestOK'
  <2>1. PICK p \in Parents :
           \/ /\ p \in exists
              /\ created' = created \cup {p}
              /\ UNCHANGED req
           \/ /\ p \notin exists
              /\ UNCHANGED created
              /\ \E r \in ReqType :
                   Turns(w, r) /\ Is(r, "new", "insert", None, p) /\ r.left = NumLines
    BY <1>8, LookupEffect
  <2>2. \A r : Is(r, "new", "insert", None, p) /\ r.left = NumLines => RequestOK(r)
    BY DEF Is, RequestOK
  <2>3. RequestsOK
    BY <2>1, <2>2, <1>turn, <1>keep
  <2>4. created' \subseteq Parents
    BY <2>1, <1>0 DEF RestOK
  <2>5. RestOK' /\ row' = row
    BY <1>0, <1>8, <2>4 DEF RestOK, Lookup, Arrive, families
  <2> QED BY <2>3, <2>5, <1>same
<1>9. ASSUME NEW w \in Writers, insertParent(w) PROVE RowsOK /\ RequestsOK /\ RestOK'
  <2>1. req[w].at = "insert" /\ req[w].parent \in Parents /\ req[w].op = "new" /\ req[w].left = NumLines
    BY <1>0, <1>9 DEF insertParent, RequestOK
  <2>2. CASE req[w].parent \in exists
    BY <1>0, <1>9, <2>2, FinishEffect, <1>turn, <1>at, <1>same
       DEF insertParent, RestOK, history
  <2>3. CASE req[w].parent \notin exists
    <3>1. PICK r \in ReqType :
            /\ Turns(w, r) /\ Is(r, req[w].op, "lines", req[w].child, req[w].parent)
            /\ r.left = req[w].left
      BY <1>0, <1>9, <2>3, ProceedEffect DEF insertParent, Steps
    <3>2. RequestOK(r)
      BY <2>1, <3>1 DEF RequestOK, Is
    <3>3. RestOK' /\ row' = row
      BY <1>0, <1>9, <2>1, <2>3 DEF insertParent, RestOK, history
    <3> QED BY <3>1, <3>2, <3>3, <1>turn, <1>same
  <2> QED BY <2>2, <2>3
<1>10. ASSUME NEW w \in Writers, createChildren(w) PROVE RowsOK /\ RequestsOK /\ RestOK'
  <2>1. /\ req[w].parent \in Parents
        /\ req[w].left \in 1..NumLines
    BY <1>10, LinesEffect
  <2>2. PICK r \in ReqType :
          /\ Turns(w, r)
          /\ r.op = "new" /\ r.parent = req[w].parent
          /\ r.left = req[w].left - 1
          /\ r.at = IF r.left = 0 THEN "sum" ELSE "lines"
    BY <1>10, LinesEffect
  <2>3. PICK c \in Children, a \in Amounts : row' = [row EXCEPT ![c] = NewRow(req[w].parent, a)]
    BY <1>10, LinesEffect
  <2>4. RequestOK(r)
    BY <2>1, <2>2 DEF RequestOK
  <2>5. RowsOK
    BY <2>1, <2>3, <1>one, NewRowOK
  <2>6. RestOK'
    BY <1>0, <1>10, <2>1 DEF createChildren, RestOK
  <2> QED BY <2>2, <2>4, <2>5, <2>6, <1>turn
<1>11. ASSUME NEW w \in Writers, LoadParent(w) PROVE RowsOK /\ RequestsOK /\ RestOK'
  <2>1. PICK p \in exists, r \in ReqType :
           /\ Turns(w, r)
           /\ r.at = "put" /\ r.op \in {"edit", "save"} /\ r.parent = p /\ r.sum = r.seen
    BY <1>11, LoadParentEffect
  <2>2. RequestOK(r)
    BY <1>0, <2>1 DEF RequestOK, RestOK
  <2>3. RestOK' /\ row' = row
    BY <1>0, <1>11 DEF RestOK, LoadParent, Arrive, history, families
  <2> QED BY <2>1, <2>2, <2>3, <1>turn, <1>same
<1>store. ASSUME NEW w \in Writers, NEW p \in Parents, req[w] \in ReqType, StoreTotal(w, p)
          PROVE  /\ total' \in [Parents -> Counted]
                 /\ behind' \subseteq Parents /\ stale' \subseteq Parents
  BY <1>0, <1>store DEF StoreTotal, RestOK, ReqType
<1>12. ASSUME NEW w \in Writers, updateParent(w) PROVE RowsOK /\ RequestsOK /\ RestOK'
  <2>1. req[w].at = "put" /\ req[w].parent \in Parents /\ req[w].op \in {"edit", "save"} /\ req[w] \in ReqType
    BY <1>0, <1>12 DEF updateParent, RequestOK
  <2> DEFINE a == IF req[w].op = "save" THEN "replace" ELSE "drop"
  <2>2. PICK r \in ReqType : Turns(w, r) /\ Is(r, req[w].op, a, req[w].child, req[w].parent)
    BY <1>0, <1>12, ProceedEffect DEF updateParent, Steps
  <2>3. RequestOK(r)
    BY <2>1, <2>2 DEF Is, RequestOK
  <2>4. RestOK' /\ row' = row
    BY <1>0, <1>12, <2>1, <1>store DEF updateParent, RestOK
  <2> QED BY <2>2, <2>3, <2>4, <1>turn, <1>same
<1>13. ASSUME NEW w \in Writers, replaceChildren(w) PROVE RowsOK /\ RequestsOK /\ RestOK'
  <2>1. RowsOK /\ req[w].parent \in Parents
    BY <1>13, ReplaceChildrenEffect DEF RowsOK
  <2>2. RequestsOK
    BY <2>1, <1>13, ReplaceChildrenEffect, <1>turn, <1>to DEF Is
  <2>3. RestOK'
    BY <1>0, <1>13 DEF replaceChildren, RestOK, history
  <2> QED BY <2>1, <2>2, <2>3
<1>14. ASSUME NEW w \in Writers, Sum(w) PROVE RowsOK /\ RequestsOK /\ RestOK'
  <2>1. PICK r \in ReqType :
           /\ Turns(w, r)
           /\ r.at = "store" /\ r.op = req[w].op /\ r.parent = req[w].parent
           /\ r.sum = r.seen
    BY <1>14, SumEffect
  <2>2. RequestOK(r)
    BY <1>0, <1>14, <2>1 DEF RequestOK, Sum
  <2>3. RestOK' /\ row' = row
    BY <1>0, <1>14 DEF RestOK, Sum, history, families
  <2> QED BY <2>1, <2>2, <2>3, <1>turn, <1>same
<1>15. ASSUME NEW w \in Writers, Store(w) PROVE RowsOK /\ RequestsOK /\ RestOK'
  <2>1. req[w].parent \in Parents /\ req[w] \in ReqType
    BY <1>0, <1>15 DEF Store, RequestOK
  <2>2. PICK r \in ReqType : Turns(w, r) /\ Is(r, req[w].op, "drop", req[w].child, req[w].parent)
    BY <1>0, <1>15, ProceedEffect DEF Store, Steps
  <2>3. RequestOK(r)
    BY <2>1, <2>2, <1>to DEF Is
  <2>4. RestOK' /\ row' = row
    BY <1>0, <1>15, <2>1, <1>store DEF Store, RestOK
  <2> QED BY <2>2, <2>3, <2>4, <1>turn, <1>same
<1>16. ASSUME NEW w \in Writers, Drop(w) PROVE RowsOK /\ RequestsOK /\ RestOK'
  <2>1. RequestsOK
    BY <1>0, <1>16, FinishEffect, <1>turn, <1>at DEF Drop
  <2>2. req[w].parent \in Parents
    BY <1>0, <1>16 DEF Drop, RequestOK
  <2>3. cache' \in [Parents -> SUBSET Counted]
    BY <1>0, <1>16, <2>2 DEF Drop, RestOK
  <2>4. RestOK' /\ row' = row
    BY <1>0, <1>16, <2>2, <2>3 DEF Drop, RestOK, families
  <2> QED BY <2>1, <2>4, <1>same
<1>17. ASSUME NEW w \in Writers, Abort(w) PROVE RowsOK /\ RequestsOK /\ RestOK'
  <2>1. RequestsOK
    BY <1>0, <1>17, FinishEffect, <1>turn, <1>at DEF Abort
  <2>2. req[w].op = "new" /\ req[w].at # "insert" => req[w].parent \in Parents
    BY <1>0, <1>17 DEF RequestOK, ChildOps
  <2>3. broken' \subseteq Parents /\ behind' \subseteq Parents /\ stale' \subseteq Parents
    BY <1>0, <1>17, <2>2, ParentsOnly DEF Abort, RestOK
  <2>4. RestOK' /\ row' = row
    BY <1>0, <1>17, <2>3 DEF Abort, RestOK, families
  <2> QED BY <2>1, <2>4, <1>same
<1>18. ASSUME NEW r \in Readers, readCached(r) PROVE RowsOK /\ RequestsOK /\ RestOK'
  <2>1. PICK p \in exists : reader' = [reader EXCEPT ![r] = [at |-> "fill", parent |-> p, got |-> total[p]]]
    BY <1>18 DEF readCached
  <2>2. [at |-> "fill", parent |-> p, got |-> total[p]] \in ReaderType
    BY <1>0 DEF RestOK, ReaderType
  <2>3. reader' \in [Readers -> ReaderType]
        /\ \A q \in Readers : reader'[q].at = "fill" => reader'[q].parent \in Parents
    BY <1>0, <2>1, <2>2 DEF RestOK
  <2>4. RestOK' /\ row' = row /\ req' = req
    BY <1>0, <1>18, <2>3 DEF readCached, RestOK, families, history
  <2> QED BY <2>4, <1>same, <1>keep
<1>19. ASSUME NEW r \in Readers, storeCached(r) PROVE RowsOK /\ RequestsOK /\ RestOK'
  <2>1. reader[r] \in ReaderType /\ Resting \in ReaderType
    BY <1>0 DEF RestOK, ReaderType, Resting, Counted
  <2>2. reader[r].got \in Counted
    BY <2>1 DEF ReaderType
  <2>3. cache' \in [Parents -> SUBSET Counted]
    BY <1>0, <1>19, <2>2 DEF storeCached, RestOK
  <2>4. stale' \subseteq Parents
    BY <1>0, <1>19 DEF storeCached, RestOK
  <2>5. reader' \in [Readers -> ReaderType]
        /\ \A q \in Readers : reader'[q].at = "fill" => reader'[q].parent \in Parents
    BY <1>0, <1>19, <2>1 DEF storeCached, RestOK, Resting
  <2>6. RestOK' /\ row' = row /\ req' = req
    BY <1>0, <1>19, <2>3, <2>4, <2>5 DEF storeCached, RestOK, families, history
  <2> QED BY <2>6, <1>same, <1>keep
<1>20. ASSUME NEW p \in Parents, Expire(p) PROVE RowsOK /\ RequestsOK /\ RestOK'
  <2>1. cache' \in [Parents -> SUBSET Counted] /\ stale' \subseteq Parents
    BY <1>0, <1>20 DEF Expire, RestOK
  <2>2. RestOK' /\ row' = row /\ req' = req
    BY <1>0, <1>20, <2>1 DEF Expire, RestOK, families, history
  <2> QED BY <2>2, <1>same, <1>keep
<1>21. CASE UNCHANGED familyVars
  BY <1>0, <1>21, <1>same, <1>keep DEF familyVars, families, history, RestOK
<1> QED
  BY <1>1, <1>2, <1>3, <1>4, <1>5, <1>6, <1>7, <1>8, <1>9, <1>10, <1>11, <1>12, <1>13, <1>14,
     <1>15, <1>16, <1>17, <1>18, <1>19, <1>20, <1>21 DEF FamilyNext, ChildWrite, ParentWrite

\* The total of p is set right by a request, or by nobody.
Covered(p) == p \in behind \/ \E w \in Writers : p \in Recomputes(w)

\* A parent keeps its lines as a row changes that is not live under it.
LEMMA SameLines ==
  ASSUME NEW c \in Children, NEW x, NEW p, row \in [Children -> RowType],
         row' = [row EXCEPT ![c] = x],
         ~(row[c].st = "live" /\ row[c].parent = p),
         ~(x.st = "live" /\ x.parent = p)
  PROVE  LinesOf(p)' = LinesOf(p)
<1>1. row'[c] = x /\ \A d \in Children : d # c => row'[d] = row[d]
  OBVIOUS
<1>2. Live(p)' = Live(p) /\ c \notin Live(p)
  BY <1>1 DEF Live
<1>3. \A d \in Live(p) : row'[d] = row[d]
  BY <1>1, <1>2 DEF Live
<1> QED BY <1>2, <1>3 DEF LinesOf

\* As a row changes, a request is still about to set the totals it was about to set, if
\* its row keeps its parent,
LEMMA OthersRecompute ==
  ASSUME NEW c \in Children, NEW x, NEW v \in Writers, NEW p \in Recomputes(v),
         row \in [Children -> RowType], row' = [row EXCEPT ![c] = x], req'[v] = req[v],
         req[v].at = "locate" => req[v].child \in Children,
         InTable(c) /\ row[c].parent = p => x.st \in {"live", "trash"} /\ x.parent = p
  PROVE  p \in Recomputes(v)'
<1>1. row'[c] = x /\ \A d \in Children : d # c => row'[d] = row[d]
  OBVIOUS
<1>2. CASE req[v].at = "locate" /\ req[v].parent = None
  <2>1. InTable(req[v].child) /\ row[req[v].child].parent = p /\ req[v].child \in Children
    BY <1>2 DEF Recomputes
  <2>2. row'[req[v].child].st \in {"live", "trash"} /\ row'[req[v].child].parent = p
    BY <1>1, <2>1 DEF InTable
  <2> QED BY <1>2, <2>2 DEF Recomputes, InTable
<1>3. CASE ~(req[v].at = "locate" /\ req[v].parent = None)
  BY <1>3 DEF Recomputes
<1> QED BY <1>2, <1>3

\* A child is written: its parent is covered by whoever wrote it.
LEMMA ChildWriteCovers ==
  ASSUME FamilyInv, NEW w \in Writers, NEW c \in Children, NEW x, NEW r, NEW p,
         row' = [row EXCEPT ![c] = x],
         Turns(w, r), r.at = "locate", r.child = c,
         req[w].at \in {"idle", "write"},
         behind \subseteq behind',
         InTable(c) /\ row[c].parent = p =>
             \/ x.st \in {"live", "trash"} /\ x.parent = p /\ r.parent = None
             \/ p \in behind'
             \/ r.parent = p /\ p # None,
         x.st = "live" /\ x.parent = p => r.parent = None,
         Covered(p) \/ LinesOf(p)' # LinesOf(p)
  PROVE  Covered(p)'
<1>1. row'[c] = x /\ row \in [Children -> RowType] /\ req'[w] = r
  BY DEF FamilyInv, FamilyTypeOK, Turns
<1>2. Recomputes(w) = {}
  BY DEF Recomputes
<1>3. CASE p \in behind'
  BY <1>3 DEF Covered
<1>4. CASE p \in Recomputes(w)'
  BY <1>4 DEF Covered
<1>5. CASE p \notin behind' /\ p \notin Recomputes(w)'
  <2>1. r.parent = p /\ p # None => FALSE
    BY <1>1, <1>5 DEF Recomputes
  <2>2. x.st \in {"live", "trash"} /\ x.parent = p /\ r.parent = None => FALSE
    BY <1>1, <1>5 DEF Recomputes, InTable
  <2>3. ~(InTable(c) /\ row[c].parent = p) /\ ~(x.st = "live" /\ x.parent = p)
    BY <1>5, <2>1, <2>2
  <2>4. LinesOf(p)' = LinesOf(p)
    BY <1>1, <2>3, SameLines DEF InTable
  <2>5. PICK v \in Writers : p \in Recomputes(v)
    BY <1>5, <2>4 DEF Covered
  <2>6. v # w /\ req'[v] = req[v] /\ (req[v].at = "locate" => req[v].child \in Children)
    BY <1>2, <2>5 DEF Turns, FamilyInv, FamilyShape, RequestOK
  <2>7. p \in Recomputes(v)'
    BY <1>1, <2>3, <2>5, <2>6, OthersRecompute
  <2> QED BY <2>7 DEF Covered
<1> QED BY <1>3, <1>4, <1>5

\* A request moves on while the child rows stay as they are.
LEMMA MoveCovers ==
  ASSUME NEW w \in Writers, NEW r, NEW p, row' = row, Turns(w, r),
         p \in behind => p \in behind',
         p \in Recomputes(w) => p \in behind' \/ p \in Recomputes(w)',
         Covered(p)
  PROVE  Covered(p)'
<1>1. \A v \in Writers : v # w => Recomputes(v)' = Recomputes(v)
  BY DEF Turns, Recomputes, InTable
<1> QED BY <1>1 DEF Covered

\* and a step that leaves rows and requests alone uncovers no parent.
LEMMA StillCovers ==
  ASSUME row' = row, req' = req, NEW p
  PROVE  /\ LinesOf(p)' = LinesOf(p)
         /\ (p \in behind => p \in behind') /\ Covered(p) => Covered(p)'
  BY DEF Covered, LinesOf, Live, Recomputes, InTable

\* Every step keeps the totals: lines it changes are those of a parent that a request
\* is about to sum up again, or that is known to be left behind.
LEMMA TotalsStep == FamilyInv /\ TotalsAddUp /\ [FamilyNext]_familyVars => TotalsAddUp'
<1> SUFFICES ASSUME FamilyInv, TotalsAddUp, [FamilyNext]_familyVars PROVE TotalsAddUp'
  OBVIOUS
<1>0. /\ FamilyTypeOK /\ row \in [Children -> RowType] /\ exists \subseteq Parents
      /\ \A v \in Writers : RequestOK(req[v]) /\ req[v] \in ReqType
      /\ \A p \in exists : total[p] = LinesOf(p) \/ Covered(p)
  BY DEF FamilyInv, FamilyTypeOK, FamilyShape, TotalsAddUp, Covered
<1>goal. SUFFICES ASSUME NEW p \in exists' PROVE total'[p] = LinesOf(p)' \/ Covered(p)'
  BY DEF TotalsAddUp, Covered
<1>lines. row' = row => LinesOf(p)' = LinesOf(p)
  BY DEF LinesOf, Live
\* A write to a child that leaves the totals and the parents alone.
<1>child. ASSUME exists' = exists, total' = total,
                 Covered(p) \/ LinesOf(p)' # LinesOf(p) => Covered(p)'
          PROVE  total'[p] = LinesOf(p)' \/ Covered(p)'
  BY <1>0, <1>child
<1>moved. ASSUME exists' = exists, total' = total, row' = row, Covered(p) => Covered(p)'
          PROVE  total'[p] = LinesOf(p)' \/ Covered(p)'
  BY <1>0, <1>moved, <1>lines
<1>1. ASSUME NEW w \in Writers, createChild(w) PROVE total'[p] = LinesOf(p)' \/ Covered(p)'
  <2>1. PICK c \in Children, q \in exists, a \in Amounts, r \in ReqType :
          /\ row[c].st = "none" /\ row' = [row EXCEPT ![c] = NewRow(q, a)]
          /\ Turns(w, r) /\ Is(r, "create", "locate", c, None)
    BY <1>1, CreateChildEffect
  <2>2. /\ req[w].at = "idle" /\ behind' = behind /\ exists' = exists /\ total' = total
        /\ ~InTable(c)
    BY <1>1, <2>1 DEF createChild, Arrive, history, InTable
  <2>3. Covered(p) \/ LinesOf(p)' # LinesOf(p) => Covered(p)'
    BY <2>1, <2>2, ChildWriteCovers DEF Is
  <2> QED BY <2>2, <2>3, <1>child
<1>2. ASSUME NEW w \in Writers, updateChild(w) PROVE total'[p] = LinesOf(p)' \/ Covered(p)'
  <2>1. PICK c \in Children, q \in exists, x \in RowType, r \in ReqType :
           /\ InTable(c)
           /\ row' = [row EXCEPT ![c] = x] /\ x.st = row[c].st /\ x.parent = q
           /\ behind' = behind \cup ({row[c].parent} \ {q})
           /\ Turns(w, r) /\ Is(r, "update", "locate", c, None)
    BY <1>2, UpdateChildEffect
  <2>2. req[w].at = "idle" /\ behind \subseteq behind' /\ exists' = exists /\ total' = total
    BY <1>2, <2>1 DEF updateChild, Arrive
  <2>3. InTable(c) /\ row[c].parent = p =>
             \/ x.st \in {"live", "trash"} /\ x.parent = p /\ r.parent = None
             \/ p \in behind'
    BY <2>1 DEF InTable, Is
  <2>4. Covered(p) \/ LinesOf(p)' # LinesOf(p) => Covered(p)'
    BY <2>1, <2>2, <2>3, ChildWriteCovers DEF Is
  <2> QED BY <2>2, <2>4, <1>child
<1>3. ASSUME NEW w \in Writers, softDeleteChild(w) PROVE total'[p] = LinesOf(p)' \/ Covered(p)'
  <2>1. PICK c \in Children, x \in RowType, r \in ReqType :
           /\ row' = [row EXCEPT ![c] = x]
           /\ x.st = "trash" /\ x.parent = row[c].parent
           /\ Turns(w, r) /\ Is(r, "softDelete", "locate", c, None)
    BY <1>3, SoftDeleteChildEffect
  <2>2. req[w].at = "idle" /\ behind' = behind /\ exists' = exists /\ total' = total
    BY <1>3 DEF softDeleteChild, Arrive, history
  <2>3. Covered(p) \/ LinesOf(p)' # LinesOf(p) => Covered(p)'
    BY <2>1, <2>2, ChildWriteCovers DEF Is
  <2> QED BY <2>2, <2>3, <1>child
<1>4. ASSUME NEW w \in Writers, Load(w) PROVE total'[p] = LinesOf(p)' \/ Covered(p)'
  <2>1. PICK r \in ReqType : Turns(w, r)
    BY <1>4, LoadEffect
  <2>2. /\ req[w].at = "idle" /\ behind' = behind /\ exists' = exists /\ total' = total
        /\ row' = row
    BY <1>4 DEF Load, Arrive, history, families
  <2>3. Recomputes(w) = {}
    BY <2>2 DEF Recomputes
  <2> QED BY <2>1, <2>2, <2>3, MoveCovers, <1>moved
<1>5. ASSUME NEW w \in Writers, restoreChild(w) PROVE total'[p] = LinesOf(p)' \/ Covered(p)'
  <2>1. PICK c \in Children, x \in RowType, r \in ReqType :
           /\ row' = [row EXCEPT ![c] = x]
           /\ x.st = (IF InTable(c) THEN "live" ELSE row[c].st) /\ x.parent = row[c].parent
           /\ Turns(w, r) /\ Is(r, "restore", "locate", c, None)
    BY <1>5, RestoreChildEffect
  <2>2. req[w].at = "write" /\ behind' = behind /\ exists' = exists /\ total' = total
    BY <1>5 DEF restoreChild, Writing, history
  <2>3. Covered(p) \/ LinesOf(p)' # LinesOf(p) => Covered(p)'
    BY <2>1, <2>2, ChildWriteCovers DEF Is
  <2> QED BY <2>2, <2>3, <1>child
<1>6. ASSUME NEW w \in Writers, hardDeleteChild(w) PROVE total'[p] = LinesOf(p)' \/ Covered(p)'
  <2>1. PICK c \in Children, x \in RowType, r \in ReqType :
           /\ row' = [row EXCEPT ![c] = x] /\ x.st = "gone"
           /\ behind' = behind \cup (IF InTable(c) THEN {row[c].parent} \ {req[w].parent} ELSE {})
           /\ InTable(c) => row[c].parent \in Parents
           /\ Turns(w, r) /\ Is(r, "hardDelete", "locate", c, req[w].parent)
    BY <1>6, HardDeleteChildEffect
  <2>2. /\ req[w].at = "write" /\ behind \subseteq behind' /\ exists' = exists /\ total' = total
        /\ None \notin Parents
    BY <1>6, <2>1, FamiliesAssumption DEF hardDeleteChild, Writing
  <2>3. InTable(c) /\ row[c].parent = p => p \in behind' \/ (r.parent = p /\ p # None)
    BY <2>1, <2>2 DEF Is
  <2>4. Covered(p) \/ LinesOf(p)' # LinesOf(p) => Covered(p)'
    BY <2>1, <2>2, <2>3, ChildWriteCovers DEF Is
  <2> QED BY <2>2, <2>4, <1>child
<1>7. ASSUME NEW w \in Writers, Locate(w) PROVE total'[p] = LinesOf(p)' \/ Covered(p)'
  <2>1. PICK r \in ReqType :
              /\ Turns(w, r)
              /\ Recomputes(w) # {} => r.at = "sum" /\ Recomputes(w) = {r.parent}
    BY <1>7, LocateEffect
  <2>2. behind' = behind /\ exists' = exists /\ total' = total /\ row' = row
    BY <1>7 DEF Locate, history, families
  <2>3. Recomputes(w) \subseteq Recomputes(w)'
    BY <2>1 DEF Recomputes, Turns
  <2> QED BY <2>1, <2>2, <2>3, MoveCovers, <1>moved
<1>8. ASSUME NEW w \in Writers, Lookup(w) PROVE total'[p] = LinesOf(p)' \/ Covered(p)'
  <2>1. req' = req \/ \E r \in ReqType : Turns(w, r)
    BY <1>8, LookupEffect
  <2>2. /\ req[w].at = "idle" /\ behind' = behind /\ exists' = exists /\ total' = total
        /\ row' = row
    BY <1>8 DEF Lookup, Arrive, families
  <2>3. Recomputes(w) = {}
    BY <2>2 DEF Recomputes
  <2> QED BY <2>1, <2>2, <2>3, MoveCovers, StillCovers, <1>moved
<1>9. ASSUME NEW w \in Writers, insertParent(w) PROVE total'[p] = LinesOf(p)' \/ Covered(p)'
  <2>1. req[w].at = "insert" /\ behind' = behind /\ total' = total /\ row' = row
    BY <1>9 DEF insertParent, history
  <2>2. Recomputes(w) = {}
    BY <2>1 DEF Recomputes
  <2>3. CASE req[w].parent \in exists
    <3>1. (\E r \in ReqType : Turns(w, r)) /\ exists' = exists
      BY <1>0, <1>9, <2>3, FinishEffect DEF insertParent
    <3> QED BY <2>1, <2>2, <3>1, MoveCovers, <1>moved
  <2>4. CASE req[w].parent \notin exists
    <3>1. exists' = exists \cup {req[w].parent}
      BY <1>9, <2>4 DEF insertParent
    <3>2. PICK r \in ReqType : Turns(w, r) /\ Is(r, req[w].op, "lines", req[w].child, req[w].parent)
      BY <1>0, <1>9, <2>4, ProceedEffect DEF insertParent, Steps
    <3>3. CASE p = req[w].parent
      BY <3>2, <3>3 DEF Covered, Recomputes, Turns, Is
    <3>4. CASE p \in exists
      <4>1. Covered(p) => Covered(p)'
        BY <2>1, <2>2, <3>2, MoveCovers
      <4> QED BY <1>0, <1>lines, <2>1, <3>4, <4>1
    <3> QED BY <3>1, <3>3, <3>4
  <2> QED BY <2>3, <2>4
<1>10. ASSUME NEW w \in Writers, createChildren(w) PROVE total'[p] = LinesOf(p)' \/ Covered(p)'
  <2>1. req[w].at = "lines" /\ behind' = behind /\ exists' = exists /\ total' = total
    BY <1>10 DEF createChildren
  <2>2. PICK r \in ReqType :
          /\ Turns(w, r) /\ r.parent = req[w].parent
          /\ r.at \in {"sum", "lines"}
    BY <1>10, LinesEffect
  <2>3. PICK c \in Children, a \in Amounts :
          row[c].st = "none" /\ row' = [row EXCEPT ![c] = NewRow(req[w].parent, a)]
    BY <1>10, LinesEffect
  <2>4. Recomputes(w)' = {req[w].parent} /\ Recomputes(w) = {req[w].parent}
    BY <2>1, <2>2 DEF Recomputes, Turns
  <2>5. CASE p = req[w].parent
    BY <2>4, <2>5 DEF Covered
  <2>6. CASE p # req[w].parent
    <3>1. LinesOf(p)' = LinesOf(p)
      BY <1>0, <2>3, <2>6, SameLines DEF NewRow
    <3>2. ASSUME NEW v \in Writers, p \in Recomputes(v) PROVE p \in Recomputes(v)'
      <4>1. v # w /\ req'[v] = req[v] /\ (req[v].at = "locate" => req[v].child \in Children)
        BY <1>0, <2>2, <2>4, <2>6, <3>2 DEF Turns, RequestOK
      <4> QED BY <1>0, <2>3, <3>2, <4>1, OthersRecompute DEF InTable
    <3>3. Covered(p) => Covered(p)'
      BY <2>1, <3>2 DEF Covered
    <3> QED BY <2>1, <3>1, <3>3, <1>child
  <2> QED BY <2>5, <2>6
<1>11. ASSUME NEW w \in Writers, LoadParent(w) PROVE total'[p] = LinesOf(p)' \/ Covered(p)'
  <2>1. PICK r \in ReqType : Turns(w, r)
    BY <1>11, LoadParentEffect
  <2>2. /\ req[w].at = "idle" /\ behind' = behind /\ exists' = exists /\ total' = total
        /\ row' = row
    BY <1>11 DEF LoadParent, Arrive, history, families
  <2>3. Recomputes(w) = {}
    BY <2>2 DEF Recomputes
  <2> QED BY <2>1, <2>2, <2>3, MoveCovers, <1>moved
\* What is stored was right, or the parent is behind.
<1>stored. ASSUME NEW w \in Writers, NEW r, Turns(w, r), req[w].at \in {"store", "put"},
                  StoreTotal(w, req[w].parent), row' = row, exists' = exists
           PROVE  total'[p] = LinesOf(p)' \/ Covered(p)'
  <2>1. req[w].sum = req[w].seen /\ req[w].parent \in Parents /\ total \in [Parents -> Counted]
    BY <1>0, <1>stored DEF RequestOK, FamilyTypeOK
  <2>2. CASE p = req[w].parent
    BY <1>lines, <1>stored, <2>1, <2>2 DEF StoreTotal, Covered
  <2>3. CASE p # req[w].parent
    <3>1. total'[p] = total[p] /\ (p \in behind => p \in behind')
      BY <1>stored, <2>1, <2>3 DEF StoreTotal
    <3>2. p \notin Recomputes(w)
      BY <1>stored, <2>3 DEF Recomputes
    <3>3. Covered(p) => Covered(p)'
      BY <1>stored, <3>1, <3>2, MoveCovers
    <3> QED BY <1>0, <1>lines, <1>stored, <3>1, <3>3
  <2> QED BY <2>2, <2>3
<1>12. ASSUME NEW w \in Writers, updateParent(w) PROVE total'[p] = LinesOf(p)' \/ Covered(p)'
  <2>1. PICK r \in ReqType : Turns(w, r)
    BY <1>0, <1>12, ProceedEffect DEF updateParent, Steps
  <2> QED BY <1>12, <2>1, <1>stored DEF updateParent
<1>13. ASSUME NEW w \in Writers, replaceChildren(w) PROVE total'[p] = LinesOf(p)' \/ Covered(p)'
  <2>1. behind' = behind /\ exists' = exists /\ total' = total /\ req[w].at = "replace"
    BY <1>13 DEF replaceChildren, history
  <2>2. PICK r \in ReqType : Turns(w, r) /\ Is(r, "save", "sum", req[w].child, req[w].parent)
    BY <1>13, ReplaceChildrenEffect
  <2>3. \A c \in Children :
           \/ row'[c] = row[c]
           \/ row[c].parent = req[w].parent /\ row'[c].st = "gone"
           \/ row[c].st = "none" /\ row'[c].parent = req[w].parent
    BY <1>13, ReplaceChildrenEffect
  <2>4. CASE p = req[w].parent
    BY <2>2, <2>4 DEF Covered, Recomputes, Turns, Is
  <2>5. CASE p # req[w].parent
    <3>1. LinesOf(p)' = LinesOf(p)
      <4>1. Live(p)' = Live(p) /\ \A c \in Live(p) : row'[c] = row[c]
        BY <2>3, <2>5 DEF Live
      <4> QED BY <4>1 DEF LinesOf
    <3>2. ASSUME NEW v \in Writers, p \in Recomputes(v) PROVE p \in Recomputes(v)'
      <4>1. v # w
        BY <2>1, <3>2 DEF Recomputes
      <4>2. req'[v] = req[v] /\ (req[v].at = "locate" => req[v].child \in Children)
        BY <1>0, <2>2, <4>1 DEF Turns, RequestOK
      <4>3. CASE req[v].at = "locate" /\ req[v].parent = None
        BY <2>3, <2>5, <3>2, <4>2, <4>3 DEF Recomputes, InTable
      <4>4. CASE ~(req[v].at = "locate" /\ req[v].parent = None)
        BY <3>2, <4>2, <4>4 DEF Recomputes
      <4> QED BY <4>3, <4>4
    <3>3. Covered(p) => Covered(p)'
      BY <2>1, <3>2 DEF Covered
    <3> QED BY <2>1, <3>1, <3>3, <1>child
  <2> QED BY <2>4, <2>5
<1>14. ASSUME NEW w \in Writers, Sum(w) PROVE total'[p] = LinesOf(p)' \/ Covered(p)'
  <2>1. PICK r \in ReqType : Turns(w, r) /\ r.at = "store" /\ r.parent = req[w].parent
    BY <1>14, SumEffect
  <2>2. /\ req[w].at = "sum" /\ behind' = behind /\ exists' = exists /\ total' = total
        /\ row' = row
    BY <1>14 DEF Sum, history, families
  <2>3. Recomputes(w) \subseteq Recomputes(w)'
    BY <2>1, <2>2 DEF Recomputes, Turns
  <2> QED BY <2>1, <2>2, <2>3, MoveCovers, <1>moved
<1>15. ASSUME NEW w \in Writers, Store(w) PROVE total'[p] = LinesOf(p)' \/ Covered(p)'
  <2>1. PICK r \in ReqType : Turns(w, r)
    BY <1>0, <1>15, ProceedEffect DEF Store, Steps
  <2> QED BY <1>15, <2>1, <1>stored DEF Store
<1>16. ASSUME NEW w \in Writers, Drop(w) PROVE total'[p] = LinesOf(p)' \/ Covered(p)'
  <2>1. PICK r \in ReqType : Turns(w, r)
    BY <1>0, <1>16, FinishEffect DEF Drop
  <2>2. /\ req[w].at = "drop" /\ behind' = behind /\ exists' = exists /\ total' = total
        /\ row' = row
    BY <1>16 DEF Drop, families
  <2>3. Recomputes(w) = {}
    BY <2>2 DEF Recomputes
  <2> QED BY <2>1, <2>2, <2>3, MoveCovers, <1>moved
<1>17. ASSUME NEW w \in Writers, Abort(w) PROVE total'[p] = LinesOf(p)' \/ Covered(p)'
  <2>1. PICK r \in ReqType : Turns(w, r)
    BY <1>0, <1>17, FinishEffect DEF Abort
  <2>2. /\ behind' = behind \cup Recomputes(w) /\ exists' = exists /\ total' = total
        /\ row' = row
    BY <1>17 DEF Abort, families
  <2> QED BY <2>1, <2>2, MoveCovers, <1>moved
<1>18. ASSUME row' = row, req' = req, behind' = behind, exists' = exists, total' = total
       PROVE  total'[p] = LinesOf(p)' \/ Covered(p)'
  BY <1>18, StillCovers, <1>moved
<1>19. ASSUME NEW r \in Readers, readCached(r) \/ storeCached(r)
       PROVE  total'[p] = LinesOf(p)' \/ Covered(p)'
  BY <1>18, <1>19 DEF readCached, storeCached, families, history
<1>20. ASSUME NEW q \in Parents, Expire(q) PROVE total'[p] = LinesOf(p)' \/ Covered(p)'
  BY <1>18, <1>20 DEF Expire, families, history
<1>21. CASE UNCHANGED familyVars
  BY <1>18, <1>21 DEF familyVars, families, history
<1> QED
  BY <1>1, <1>2, <1>3, <1>4, <1>5, <1>6, <1>7, <1>8, <1>9, <1>10, <1>11, <1>12, <1>13, <1>14,
     <1>15, <1>16, <1>17, <1>19, <1>20, <1>21 DEF FamilyNext, ChildWrite, ParentWrite

\* A cached read of p is dropped by a request, or by nobody.
Dropped(p) == p \in stale \/ \E w \in Writers : p \in Drops(w)

\* As one request turns, a cached read is still to be dropped, if that request hands on its own,
LEMMA MoveDrops ==
  ASSUME NEW w \in Writers, NEW r, NEW p, Turns(w, r),
         p \in stale => p \in stale' \/ cache'[p] = {},
         p \in Drops(w) => p \in stale' \/ p \in Drops(w)' \/ cache'[p] = {},
         Dropped(p)
  PROVE  Dropped(p)' \/ cache'[p] = {}
<1>1. \A v \in Writers : v # w => Drops(v)' = Drops(v)
  BY DEF Turns, Drops
<1> QED BY <1>1 DEF Dropped

\* and it is if no request turns.
LEMMA StillDrops ==
  ASSUME req' = req, NEW p, p \in stale => p \in stale', Dropped(p)
  PROVE  Dropped(p)'
  BY DEF Dropped, Drops

\* A parent that is not there yet has no cached read.
CachedInv == \A p \in Parents : cache[p] \subseteq {total[p]} \/ Dropped(p)

\* Every step keeps the cached reads: a total it changes is of a parent whose cached
\* read a request is about to drop, or that is known to be stale.
LEMMA CachedStep == FamilyInv /\ CachedInv /\ [FamilyNext]_familyVars => CachedInv'
<1> SUFFICES ASSUME FamilyInv, CachedInv, [FamilyNext]_familyVars
             PROVE  CachedInv'
  OBVIOUS
<1>0. /\ FamilyTypeOK /\ stale \subseteq Parents
      /\ total \in [Parents -> Counted] /\ cache \in [Parents -> SUBSET Counted]
      /\ \A v \in Writers : RequestOK(req[v]) /\ req[v] \in ReqType
      /\ \A r \in Readers : reader[r].at = "fill" => reader[r].parent \in Parents
      /\ \A p \in Parents : cache[p] \subseteq {total[p]} \/ Dropped(p)
  BY DEF FamilyInv, FamilyTypeOK, FamilyShape, CachedInv
<1>goal. SUFFICES ASSUME NEW p \in Parents PROVE cache'[p] \subseteq {total'[p]} \/ Dropped(p)'
  BY DEF CachedInv
<1>none. \A w \in Writers :
           \/ req[w].at \in {"idle", "insert", "put"}
           \/ req[w].at # "drop" /\ req[w].op \in ChildOps
           => Drops(w) = {}
  BY <1>0, FamiliesAssumption DEF Drops, RequestOK, ChildOps
<1>moved. ASSUME NEW w \in Writers, NEW r, Turns(w, r), Drops(w) \subseteq Drops(w)',
                 total' = total, cache' = cache, stale' = stale
          PROVE  cache'[p] \subseteq {total'[p]} \/ Dropped(p)'
  BY <1>0, <1>moved, MoveDrops
<1>same. ASSUME req' = req, total' = total, cache' = cache, stale' = stale
         PROVE  cache'[p] \subseteq {total'[p]} \/ Dropped(p)'
  BY <1>0, <1>same, StillDrops
<1>1. ASSUME NEW w \in Writers, createChild(w) \/ updateChild(w) \/ softDeleteChild(w)
      PROVE  cache'[p] \subseteq {total'[p]} \/ Dropped(p)'
  <2>1. PICK r \in ReqType : Turns(w, r)
    BY <1>1, CreateChildEffect, UpdateChildEffect, SoftDeleteChildEffect
  <2>2. /\ req[w].at = "idle" /\ total' = total /\ cache' = cache
        /\ stale' = stale
    BY <1>1 DEF createChild, updateChild, softDeleteChild, Arrive, history
  <2> QED BY <2>1, <2>2, <1>none, <1>moved
<1>4. ASSUME NEW w \in Writers, Load(w) PROVE cache'[p] \subseteq {total'[p]} \/ Dropped(p)'
  <2>1. PICK r \in ReqType : Turns(w, r)
    BY <1>4, LoadEffect
  <2>2. /\ req[w].at = "idle" /\ total' = total /\ cache' = cache
        /\ stale' = stale
    BY <1>4 DEF Load, Arrive, history, families
  <2> QED BY <2>1, <2>2, <1>none, <1>moved
<1>5. ASSUME NEW w \in Writers, restoreChild(w) \/ hardDeleteChild(w)
      PROVE  cache'[p] \subseteq {total'[p]} \/ Dropped(p)'
  <2>1. PICK r \in ReqType : Turns(w, r)
    BY <1>5, RestoreChildEffect, HardDeleteChildEffect
  <2>2. /\ req[w].at = "write" /\ req[w].op \in ChildOps
        /\ total' = total /\ cache' = cache /\ stale' = stale
    BY <1>5 DEF restoreChild, hardDeleteChild, Writing, history, ChildOps
  <2> QED BY <2>1, <2>2, <1>none, <1>moved
<1>7. ASSUME NEW w \in Writers, Locate(w) PROVE cache'[p] \subseteq {total'[p]} \/ Dropped(p)'
  <2>1. req[w].at = "locate" /\ req[w].op \in ChildOps /\ \E r \in ReqType : Turns(w, r)
    BY <1>7, LocateEffect
  <2>2. total' = total /\ cache' = cache /\ stale' = stale
    BY <1>7 DEF Locate, history, families
  <2> QED BY <2>1, <2>2, <1>none, <1>moved
<1>8. ASSUME NEW w \in Writers, Lookup(w) PROVE cache'[p] \subseteq {total'[p]} \/ Dropped(p)'
  <2>1. req' = req \/ \E r \in ReqType : Turns(w, r)
    BY <1>8, LookupEffect
  <2>2. /\ req[w].at = "idle" /\ total' = total /\ cache' = cache
        /\ stale' = stale
    BY <1>8 DEF Lookup, Arrive, families
  <2> QED BY <2>1, <2>2, <1>none, <1>moved, <1>same
<1>9. ASSUME NEW w \in Writers, insertParent(w) PROVE cache'[p] \subseteq {total'[p]} \/ Dropped(p)'
  <2>1. req[w].at = "insert" /\ total' = total /\ cache' = cache /\ stale' = stale
    BY <1>9 DEF insertParent, history
  <2>2. \E r \in ReqType : Turns(w, r)
    BY <1>0, <1>9, FinishEffect, ProceedEffect DEF insertParent, Steps
  <2> QED BY <2>1, <2>2, <1>none, <1>moved
<1>10. ASSUME NEW w \in Writers, createChildren(w) PROVE cache'[p] \subseteq {total'[p]} \/ Dropped(p)'
  <2>1. PICK r \in ReqType :
          Turns(w, r) /\ r.parent = req[w].parent /\ r.at \in {"sum", "lines"} /\ r.op = "new"
    BY <1>10, LinesEffect
  <2>2. total' = total /\ cache' = cache /\ stale' = stale
    BY <1>10 DEF createChildren
  <2>3. Drops(w) \subseteq Drops(w)'
    BY <2>1 DEF Drops, Turns
  <2> QED BY <2>1, <2>2, <2>3, <1>moved
<1>11. ASSUME NEW w \in Writers, LoadParent(w) PROVE cache'[p] \subseteq {total'[p]} \/ Dropped(p)'
  <2>1. PICK r \in ReqType : Turns(w, r)
    BY <1>11, LoadParentEffect
  <2>2. /\ req[w].at = "idle" /\ total' = total /\ cache' = cache
        /\ stale' = stale
    BY <1>11 DEF LoadParent, Arrive, history, families
  <2> QED BY <2>1, <2>2, <1>none, <1>moved
\* Whoever stores a total here goes on to drop the cached reads of it; who stores one
\* elsewhere leaves them stale.
<1>stored. ASSUME NEW w \in Writers, NEW r, Turns(w, r),
                  r.parent = req[w].parent, req[w].parent \in Parents,
                  r.at = "drop" \/ (r.op = "save" /\ r.at = "replace"),
                  StoreTotal(w, req[w].parent), cache' = cache
           PROVE  cache'[p] \subseteq {total'[p]} \/ Dropped(p)'
  <2>1. /\ Drops(w)' = IF w \in Here THEN {req[w].parent} ELSE {}
        /\ Drops(w) \subseteq Drops(w)'
    BY <1>stored DEF Drops, Turns
  <2>2. p \in stale => p \in stale'
    BY <1>stored DEF StoreTotal
  <2>3. CASE p = req[w].parent /\ w \in Here
    BY <2>1, <2>3 DEF Dropped
  <2>4. CASE p = req[w].parent /\ w \notin Here /\ cache[p] # {} /\ req[w].sum # total[p]
    BY <1>stored, <2>4 DEF StoreTotal, Dropped
  <2>5. CASE cache[p] = {}
    BY <1>stored, <2>5
  <2>6. CASE (p = req[w].parent /\ req[w].sum = total[p]) \/ p # req[w].parent
    <3>1. total'[p] = total[p]
      BY <1>0, <1>stored, <2>6 DEF StoreTotal
    <3> QED BY <1>0, <1>stored, <2>1, <2>2, <3>1, MoveDrops
  <2> QED BY <2>3, <2>4, <2>5, <2>6
<1>12. ASSUME NEW w \in Writers, updateParent(w) PROVE cache'[p] \subseteq {total'[p]} \/ Dropped(p)'
  <2>1. req[w].at = "put" /\ req[w].parent \in Parents
    BY <1>0, <1>12 DEF updateParent, RequestOK
  <2> DEFINE a == IF req[w].op = "save" THEN "replace" ELSE "drop"
  <2>2. PICK r \in ReqType : Turns(w, r) /\ Is(r, req[w].op, a, req[w].child, req[w].parent)
    BY <1>0, <1>12, ProceedEffect DEF updateParent, Steps
  <2>3. r.at = "drop" \/ (r.op = "save" /\ r.at = "replace")
    BY <2>2 DEF Is
  <2> QED BY <1>12, <2>1, <2>2, <2>3, <1>stored DEF updateParent, Is
<1>13. ASSUME NEW w \in Writers, replaceChildren(w) PROVE cache'[p] \subseteq {total'[p]} \/ Dropped(p)'
  <2>1. total' = total /\ cache' = cache /\ stale' = stale
    BY <1>13 DEF replaceChildren, history
  <2>2. PICK r \in ReqType : Turns(w, r) /\ Is(r, "save", "sum", req[w].child, req[w].parent)
    BY <1>13, ReplaceChildrenEffect
  <2>3. Drops(w) \subseteq Drops(w)'
    BY <2>2 DEF Drops, Turns, Is
  <2> QED BY <2>1, <2>2, <2>3, <1>moved
<1>14. ASSUME NEW w \in Writers, Sum(w) PROVE cache'[p] \subseteq {total'[p]} \/ Dropped(p)'
  <2>1. PICK r \in ReqType :
          Turns(w, r) /\ r.at = "store" /\ r.parent = req[w].parent /\ r.op = req[w].op
    BY <1>14, SumEffect
  <2>2. /\ req[w].at = "sum" /\ total' = total /\ cache' = cache
        /\ stale' = stale
    BY <1>14 DEF Sum, history, families
  <2>3. Drops(w) \subseteq Drops(w)'
    BY <2>1, <2>2 DEF Drops, Turns
  <2> QED BY <2>1, <2>2, <2>3, <1>moved
<1>15. ASSUME NEW w \in Writers, Store(w) PROVE cache'[p] \subseteq {total'[p]} \/ Dropped(p)'
  <2>1. req[w].parent \in Parents
    BY <1>0, <1>15 DEF Store, RequestOK
  <2>2. PICK r \in ReqType : Turns(w, r) /\ Is(r, req[w].op, "drop", req[w].child, req[w].parent)
    BY <1>0, <1>15, ProceedEffect DEF Store, Steps
  <2> QED BY <1>15, <2>1, <2>2, <1>stored DEF Store, Is
<1>16. ASSUME NEW w \in Writers, Drop(w) PROVE cache'[p] \subseteq {total'[p]} \/ Dropped(p)'
  <2>1. PICK r \in ReqType : Turns(w, r)
    BY <1>0, <1>16, FinishEffect DEF Drop
  <2>2. req[w].at = "drop" /\ req[w].parent \in Parents /\ total' = total
    BY <1>0, <1>16 DEF Drop, families, RequestOK
  <2>3. CASE w \notin Here
    <3>1. Drops(w) = {} /\ cache' = cache /\ stale' = stale
      BY <1>16, <2>3 DEF Drop, Drops
    <3> QED BY <2>1, <2>2, <3>1, <1>moved
  <2>4. CASE w \in Here
    <3>1. /\ cache' = [cache EXCEPT ![req[w].parent] = {}]
          /\ stale' = stale \ {req[w].parent}
      BY <1>16, <2>4 DEF Drop
    <3>2. Drops(w) = {req[w].parent}
      BY <2>2, <2>4 DEF Drops
    <3>3. CASE p = req[w].parent
      BY <1>0, <2>2, <3>1, <3>3
    <3>4. CASE p # req[w].parent
      <4>1. cache'[p] = cache[p] /\ (p \in stale => p \in stale')
        BY <1>0, <2>2, <3>1, <3>4
      <4>2. Dropped(p) => Dropped(p)' \/ cache'[p] = {}
        BY <2>1, <3>2, <3>4, <4>1, MoveDrops
      <4> QED BY <1>0, <2>2, <4>1, <4>2
    <3> QED BY <3>3, <3>4
  <2> QED BY <2>3, <2>4
<1>17. ASSUME NEW w \in Writers, Abort(w) PROVE cache'[p] \subseteq {total'[p]} \/ Dropped(p)'
  <2>1. PICK r \in ReqType : Turns(w, r)
    BY <1>0, <1>17, FinishEffect DEF Abort
  <2>2. /\ stale' = stale \cup Drops(w)
        /\ total' = total /\ cache' = cache
    BY <1>17 DEF Abort, families
  <2> QED BY <1>0, <2>1, <2>2, MoveDrops
<1>18. ASSUME NEW r \in Readers, readCached(r) PROVE cache'[p] \subseteq {total'[p]} \/ Dropped(p)'
  BY <1>18, <1>same DEF readCached, families
<1>19. ASSUME NEW r \in Readers, storeCached(r) PROVE cache'[p] \subseteq {total'[p]} \/ Dropped(p)'
  <2> DEFINE q == reader[r].parent
  <2>1. /\ req' = req /\ total' = total /\ q \in Parents
        /\ cache' = [cache EXCEPT ![q] = {reader[r].got}]
        /\ stale' = IF reader[r].got = total[q] THEN stale \ {q} ELSE stale \cup {q}
    BY <1>0, <1>19 DEF storeCached, families
  <2> HIDE DEF q
  <2>2. CASE p = q
    BY <1>0, <2>1, <2>2 DEF Dropped
  <2>3. CASE p # q
    <3>1. cache'[p] = cache[p] /\ (p \in stale => p \in stale')
      BY <1>0, <2>1, <2>3
    <3> QED BY <1>0, <2>1, <3>1, StillDrops
  <2> QED BY <2>2, <2>3
<1>20. ASSUME NEW q \in Parents, Expire(q) PROVE cache'[p] \subseteq {total'[p]} \/ Dropped(p)'
  <2>1. /\ req' = req /\ total' = total
        /\ cache' = [cache EXCEPT ![q] = {}] /\ stale' = stale \ {q}
    BY <1>20 DEF Expire, families
  <2>2. CASE p = q
    BY <1>0, <2>1, <2>2
  <2>3. CASE p # q
    <3>1. cache'[p] = cache[p] /\ (p \in stale => p \in stale')
      BY <1>0, <2>1, <2>3
    <3> QED BY <1>0, <2>1, <3>1, StillDrops
  <2> QED BY <2>2, <2>3
<1>21. CASE UNCHANGED familyVars
  BY <1>21, <1>same DEF familyVars, families
<1> QED
  BY <1>1, <1>4, <1>5, <1>7, <1>8, <1>9, <1>10, <1>11, <1>12, <1>13, <1>14,
     <1>15, <1>16, <1>17, <1>18, <1>19, <1>20, <1>21 DEF FamilyNext, ChildWrite, ParentWrite

\* Of the parents that are there, each has its rows, or a create at them, or was
\* broken off; and no two creates are at the rows of one parent.
WholeInv ==
    /\ created \subseteq exists
    /\ \A p \in Parents : /\ lines[p] <= NumLines
                          /\ p \notin exists => lines[p] = 0
    /\ \A w \in Writers :
         /\ req[w].at = "lines" => /\ req[w].parent \in exists
                                   /\ lines[req[w].parent] + req[w].left = NumLines
         /\ req[w].op = "new" /\ req[w].at \in {"sum", "store", "drop"} => req[w].parent \in exists
    /\ \A v, w \in Writers :
         req[v].at = "lines" /\ req[w].at = "lines" /\ req[v].parent = req[w].parent => v = w
    /\ \A p \in exists :
         \/ p \in broken \/ lines[p] = NumLines
         \/ \E w \in Writers : req[w].at = "lines" /\ req[w].parent = p

\* It holds before the first request.
LEMMA WholeInitInv == FamilyInit => WholeInv
<1> SUFFICES ASSUME FamilyInit PROVE WholeInv
  OBVIOUS
<1>1. \A w \in Writers : req[w].at = "idle"
  BY IdleType DEF FamilyInit
<1> QED BY <1>1, FamiliesAssumption DEF FamilyInit, WholeInv

\* A request moves that was not at the rows and does not come to them.
LEMMA MoveWhole ==
  ASSUME FamilyInv, WholeInv, NEW w \in Writers, NEW r, Turns(w, r),
         req[w].at # "lines" \/ req[w].parent \in broken', r.at # "lines",
         r.op = "new" /\ r.at \in {"sum", "store", "drop"} => r.parent \in exists,
         exists' = exists, lines' = lines, created' \subseteq exists, broken \subseteq broken'
  PROVE  WholeInv'
<1>1. \A v \in Writers : v # w => req'[v] = req[v]
  BY DEF Turns
<1>2. req'[w] = r
  BY DEF Turns
<1>3. /\ created' \subseteq exists'
      /\ \A p \in Parents : lines'[p] <= NumLines /\ (p \notin exists' => lines'[p] = 0)
  BY DEF WholeInv
<1>4. \A v \in Writers :
         /\ req'[v].at = "lines" => /\ req'[v].parent \in exists'
                                    /\ lines'[req'[v].parent] + req'[v].left = NumLines
         /\ req'[v].op = "new" /\ req'[v].at \in {"sum", "store", "drop"} => req'[v].parent \in exists'
  BY <1>1, <1>2 DEF WholeInv
<1>5. \A v, u \in Writers :
         req'[v].at = "lines" /\ req'[u].at = "lines" /\ req'[v].parent = req'[u].parent => v = u
  BY <1>1, <1>2 DEF WholeInv
<1>6. \A p \in exists' :
         \/ p \in broken' \/ lines'[p] = NumLines
         \/ \E v \in Writers : req'[v].at = "lines" /\ req'[v].parent = p
  BY <1>1, <1>2 DEF WholeInv
<1> QED BY <1>3, <1>4, <1>5, <1>6 DEF WholeInv

\* Every step keeps the account of the inserted child rows: they are what is not left
\* of the one create that has inserted the parent.
LEMMA WholeStep == FamilyInv /\ WholeInv /\ [FamilyNext]_familyVars => WholeInv'
<1> SUFFICES ASSUME FamilyInv, WholeInv, [FamilyNext]_familyVars PROVE WholeInv'
  OBVIOUS
<1>0. /\ FamilyTypeOK /\ exists \subseteq Parents /\ lines \in [Parents -> Nat]
      /\ \A v \in Writers : RequestOK(req[v]) /\ req[v] \in ReqType
      /\ created \subseteq exists
      /\ NumLines \in Nat
  BY FamiliesAssumption DEF FamilyInv, FamilyTypeOK, FamilyShape, WholeInv
<1>same. ASSUME req' = req, exists' = exists, lines' = lines, created' \subseteq exists,
                broken' = broken
         PROVE  WholeInv'
  BY <1>same DEF WholeInv
<1>1. ASSUME NEW w \in Writers, createChild(w) \/ updateChild(w) \/ softDeleteChild(w)
      PROVE  WholeInv'
  <2>1. PICK r \in ReqType : Turns(w, r) /\ r.at = "locate"
    BY <1>1, CreateChildEffect, UpdateChildEffect, SoftDeleteChildEffect DEF Is
  <2>2. /\ req[w].at = "idle" /\ exists' = exists /\ lines' = lines /\ created' = created
        /\ broken' = broken
    BY <1>1 DEF createChild, updateChild, softDeleteChild, Arrive, history
  <2> QED BY <1>0, <2>1, <2>2, MoveWhole
<1>4. ASSUME NEW w \in Writers, Load(w) PROVE WholeInv'
  <2>1. PICK r \in ReqType : Turns(w, r) /\ r.at = "write"
    BY <1>4, LoadEffect
  <2>2. /\ req[w].at = "idle" /\ exists' = exists /\ lines' = lines /\ created' = created
        /\ broken' = broken
    BY <1>4 DEF Load, Arrive, history, families
  <2> QED BY <1>0, <2>1, <2>2, MoveWhole
<1>5. ASSUME NEW w \in Writers, restoreChild(w) \/ hardDeleteChild(w) PROVE WholeInv'
  <2>1. PICK r \in ReqType : Turns(w, r) /\ r.at = "locate"
    BY <1>5, RestoreChildEffect, HardDeleteChildEffect DEF Is
  <2>2. /\ req[w].at = "write" /\ exists' = exists /\ lines' = lines /\ created' = created
        /\ broken' = broken
    BY <1>5 DEF restoreChild, hardDeleteChild, Writing, history
  <2> QED BY <1>0, <2>1, <2>2, MoveWhole
<1>7. ASSUME NEW w \in Writers, Locate(w) PROVE WholeInv'
  <2>1. PICK r \in ReqType : Turns(w, r) /\ (Is(r, None, "idle", None, None) \/ (r.at = "sum" /\ r.op \in ChildOps))
    BY <1>7, LocateEffect
  <2>2. /\ req[w].at = "locate" /\ exists' = exists /\ lines' = lines /\ created' = created
        /\ broken' = broken
    BY <1>7 DEF Locate, history, families
  <2>3. "new" \notin ChildOps
    BY DEF ChildOps
  <2> QED BY <1>0, <2>1, <2>2, <2>3, MoveWhole DEF Is
<1>8. ASSUME NEW w \in Writers, Lookup(w) PROVE WholeInv'
  <2>1. /\ req[w].at = "idle" /\ exists' = exists /\ lines' = lines /\ broken' = broken
    BY <1>8 DEF Lookup, Arrive, families
  <2>2. CASE req' = req
    BY <1>0, <1>8, <1>same, <2>1, <2>2 DEF Lookup
  <2>3. CASE created' = created /\ \E r \in ReqType : Turns(w, r) /\ r.at = "insert"
    BY <1>0, <2>1, <2>3, MoveWhole
  <2> QED BY <1>8, <2>2, <2>3, LookupEffect DEF Is
<1>9. ASSUME NEW w \in Writers, insertParent(w) PROVE WholeInv'
  <2> DEFINE p == req[w].parent
  <2>1. /\ req[w].at = "insert" /\ lines' = lines /\ created' = created /\ broken' = broken
        /\ p \in Parents /\ req[w].left = NumLines
    BY <1>0, <1>9 DEF insertParent, history, RequestOK
  <2>2. CASE p \in exists
    <3>1. PICK r \in ReqType : Turns(w, r) /\ r.at = "idle"
      BY <1>0, <1>9, <2>2, FinishEffect DEF insertParent, Is
    <3> QED BY <1>0, <1>9, <2>1, <2>2, <3>1, MoveWhole DEF insertParent
  <2>3. CASE p \notin exists
    <3>1. PICK r \in ReqType :
            Turns(w, r) /\ Is(r, req[w].op, "lines", req[w].child, p) /\ r.left = req[w].left
      BY <1>0, <1>9, <2>3, ProceedEffect DEF insertParent, Steps
    <3>2. exists' = exists \cup {p}
      BY <1>9, <2>3 DEF insertParent
    <3>3. lines[p] = 0
      BY <2>1, <2>3 DEF WholeInv
    <3>4. \A v \in Writers : v # w => req'[v] = req[v]
      BY <3>1 DEF Turns
    <3>5. req'[w].at = "lines" /\ req'[w].parent = p /\ req'[w].left = NumLines
      BY <2>1, <3>1 DEF Turns, Is
    <3> HIDE DEF p
    <3>6. /\ created' \subseteq exists'
          /\ \A q \in Parents : lines'[q] <= NumLines /\ (q \notin exists' => lines'[q] = 0)
      BY <2>1, <3>2 DEF WholeInv
    <3>7. \A v \in Writers :
         /\ req'[v].at = "lines" => /\ req'[v].parent \in exists'
                                    /\ lines'[req'[v].parent] + req'[v].left = NumLines
         /\ req'[v].op = "new" /\ req'[v].at \in {"sum", "store", "drop"} => req'[v].parent \in exists'
      BY <1>0, <2>1, <3>2, <3>3, <3>4, <3>5 DEF WholeInv
    <3>8. \A v, u \in Writers :
         req'[v].at = "lines" /\ req'[u].at = "lines" /\ req'[v].parent = req'[u].parent => v = u
      BY <2>3, <3>4, <3>5 DEF WholeInv
    <3>9. \A q \in exists' :
         \/ q \in broken' \/ lines'[q] = NumLines
         \/ \E v \in Writers : req'[v].at = "lines" /\ req'[v].parent = q
      <4> SUFFICES ASSUME NEW q \in exists'
                   PROVE  \/ q \in broken' \/ lines'[q] = NumLines
                          \/ \E v \in Writers : req'[v].at = "lines" /\ req'[v].parent = q
        OBVIOUS
      <4>1. CASE q = p
        BY <3>5, <4>1
      <4>2. CASE q \in exists
        BY <2>1, <3>4, <4>2 DEF WholeInv
      <4> QED BY <3>2, <4>1, <4>2
    <3> QED BY <3>6, <3>7, <3>8, <3>9 DEF WholeInv
  <2> QED BY <2>2, <2>3
<1>10. ASSUME NEW w \in Writers, createChildren(w) PROVE WholeInv'
  <2> DEFINE p == req[w].parent
  <2>1. /\ req[w].at = "lines" /\ p \in Parents /\ req[w].left \in 1..NumLines
        /\ lines' = [lines EXCEPT ![p] = @ + 1]
    BY <1>10, LinesEffect
  <2>2. PICK r \in ReqType :
              /\ Turns(w, r)
              /\ r.op = "new" /\ r.parent = p
              /\ r.left = req[w].left - 1
              /\ r.at = IF r.left = 0 THEN "sum" ELSE "lines"
    BY <1>10, LinesEffect
  <2>3. exists' = exists /\ created' = created /\ broken' = broken
    BY <1>10 DEF createChildren
  <2>4. p \in exists /\ lines[p] + req[w].left = NumLines
    BY <2>1 DEF WholeInv
  <2>5. /\ \A v \in Writers : v # w => req'[v] = req[v]
        /\ req'[w] = r
    BY <2>2 DEF Turns
  <2> HIDE DEF p
  <2>6. lines'[p] = lines[p] + 1 /\ lines[p] \in Nat /\ \A q \in Parents : q # p => lines'[q] = lines[q]
    BY <1>0, <2>1
  <2>10. \A v \in Writers : v # w /\ req[v].at = "lines" => req[v].parent # p /\ req[v].parent \in Parents
    BY <1>0, <2>1 DEF WholeInv, p
  <2>7. /\ created' \subseteq exists'
        /\ \A q \in Parents : lines'[q] <= NumLines /\ (q \notin exists' => lines'[q] = 0)
    <3>1. lines'[p] <= NumLines
      BY <1>0, <2>1, <2>4, <2>6
    <3> QED BY <2>3, <2>4, <2>6, <3>1 DEF WholeInv
  <2>8. \A v \in Writers :
         /\ req'[v].at = "lines" => /\ req'[v].parent \in exists'
                                    /\ lines'[req'[v].parent] + req'[v].left = NumLines
         /\ req'[v].op = "new" /\ req'[v].at \in {"sum", "store", "drop"} => req'[v].parent \in exists'
    <3>1. lines'[r.parent] + r.left = NumLines
      BY <1>0, <2>1, <2>2, <2>4, <2>6
    <3>2. ASSUME NEW v \in Writers, v # w
          PROVE  /\ req'[v].at = "lines" => /\ req'[v].parent \in exists'
                                            /\ lines'[req'[v].parent] + req'[v].left = NumLines
                 /\ req'[v].op = "new" /\ req'[v].at \in {"sum", "store", "drop"} => req'[v].parent \in exists'
      BY <2>3, <2>5, <2>6, <2>10, <3>2 DEF WholeInv
    <3> QED BY <2>2, <2>3, <2>4, <2>5, <3>1, <3>2
  <2>9. \A v, u \in Writers :
         req'[v].at = "lines" /\ req'[u].at = "lines" /\ req'[v].parent = req'[u].parent => v = u
    BY <2>2, <2>5, <2>10 DEF WholeInv
  <2>11. \A q \in exists' :
         \/ q \in broken' \/ lines'[q] = NumLines
         \/ \E v \in Writers : req'[v].at = "lines" /\ req'[v].parent = q
    <3> SUFFICES ASSUME NEW q \in exists'
                 PROVE  \/ q \in broken' \/ lines'[q] = NumLines
                        \/ \E v \in Writers : req'[v].at = "lines" /\ req'[v].parent = q
      OBVIOUS
    <3>1. CASE q = p
      BY <1>0, <2>1, <2>2, <2>4, <2>5, <2>6, <3>1
    <3>2. CASE q # p
      <4>1. \/ q \in broken \/ lines[q] = NumLines
            \/ \E v \in Writers : req[v].at = "lines" /\ req[v].parent = q
        BY <2>3 DEF WholeInv
      <4>2. lines'[q] = lines[q]
        BY <1>0, <2>3, <2>6, <3>2
      <4> QED BY <2>3, <2>5, <3>2, <4>1, <4>2 DEF p
    <3> QED BY <3>1, <3>2
  <2> QED BY <2>7, <2>8, <2>9, <2>11 DEF WholeInv
<1>11. ASSUME NEW w \in Writers, LoadParent(w) PROVE WholeInv'
  <2>1. PICK r \in ReqType : Turns(w, r) /\ r.at = "put"
    BY <1>11, LoadParentEffect
  <2>2. /\ req[w].at = "idle" /\ exists' = exists /\ lines' = lines /\ created' = created
        /\ broken' = broken
    BY <1>11 DEF LoadParent, Arrive, history, families
  <2> QED BY <1>0, <2>1, <2>2, MoveWhole
<1>12. ASSUME NEW w \in Writers, updateParent(w) PROVE WholeInv'
  <2>1. req[w].at = "put" /\ req[w].op \in {"edit", "save"}
    BY <1>0, <1>12 DEF updateParent, RequestOK
  <2> DEFINE a == IF req[w].op = "save" THEN "replace" ELSE "drop"
  <2>2. PICK r \in ReqType : Turns(w, r) /\ r.op = req[w].op /\ r.at = a
    BY <1>0, <1>12, ProceedEffect DEF updateParent, Steps, Is
  <2>3. exists' = exists /\ lines' = lines /\ created' = created /\ broken' = broken
    BY <1>12 DEF updateParent
  <2> QED BY <1>0, <2>1, <2>2, <2>3, MoveWhole
<1>13. ASSUME NEW w \in Writers, replaceChildren(w) PROVE WholeInv'
  <2>1. exists' = exists /\ lines' = lines /\ created' = created /\ broken' = broken /\ req[w].at = "replace"
    BY <1>13 DEF replaceChildren, history
  <2>2. PICK r \in ReqType : Turns(w, r) /\ Is(r, "save", "sum", req[w].child, req[w].parent)
    BY <1>13, ReplaceChildrenEffect
  <2> QED BY <1>0, <2>1, <2>2, MoveWhole DEF Is
<1>14. ASSUME NEW w \in Writers, Sum(w) PROVE WholeInv'
  <2>1. PICK r \in ReqType :
          Turns(w, r) /\ r.at = "store" /\ r.parent = req[w].parent /\ r.op = req[w].op
    BY <1>14, SumEffect
  <2>2. /\ req[w].at = "sum" /\ exists' = exists /\ lines' = lines /\ created' = created
        /\ broken' = broken
    BY <1>14 DEF Sum, history, families
  <2>3. req[w].op = "new" => req[w].parent \in exists
    BY <2>2 DEF WholeInv
  <2> QED BY <1>0, <2>1, <2>2, <2>3, MoveWhole
<1>15. ASSUME NEW w \in Writers, Store(w) PROVE WholeInv'
  <2>1. PICK r \in ReqType : Turns(w, r) /\ Is(r, req[w].op, "drop", req[w].child, req[w].parent)
    BY <1>0, <1>15, ProceedEffect DEF Store, Steps
  <2>2. /\ req[w].at = "store" /\ exists' = exists /\ lines' = lines /\ created' = created
        /\ broken' = broken
    BY <1>15 DEF Store
  <2>3. req[w].op = "new" => req[w].parent \in exists
    BY <2>2 DEF WholeInv
  <2> QED BY <1>0, <2>1, <2>2, <2>3, MoveWhole DEF Is
<1>16. ASSUME NEW w \in Writers, Drop(w) PROVE WholeInv'
  <2>1. PICK r \in ReqType : Turns(w, r) /\ r.at = "idle"
    BY <1>0, <1>16, FinishEffect DEF Drop, Is
  <2>2. req[w].at = "drop" /\ exists' = exists /\ lines' = lines /\ broken' = broken
    BY <1>16 DEF Drop, families
  <2>3. created' \subseteq exists
    BY <1>0, <1>16, <2>2 DEF Drop, WholeInv
  <2> QED BY <2>1, <2>2, <2>3, MoveWhole
<1>17. ASSUME NEW w \in Writers, Abort(w) PROVE WholeInv'
  <2>1. PICK r \in ReqType : Turns(w, r) /\ r.at = "idle"
    BY <1>0, <1>17, FinishEffect DEF Abort, Is
  <2>2. exists' = exists /\ lines' = lines /\ created' = created
    BY <1>17 DEF Abort, families
  <2>3. broken \subseteq broken' /\ (req[w].at = "lines" => req[w].parent \in broken')
    BY <1>0, <1>17 DEF Abort, RequestOK
  <2> QED BY <1>0, <2>1, <2>2, <2>3, MoveWhole
<1>18. ASSUME NEW r \in Readers, readCached(r) \/ storeCached(r) PROVE WholeInv'
  BY <1>0, <1>18, <1>same DEF readCached, storeCached, families, history
<1>20. ASSUME NEW q \in Parents, Expire(q) PROVE WholeInv'
  BY <1>0, <1>20, <1>same DEF Expire, families, history
<1>21. CASE UNCHANGED familyVars
  BY <1>0, <1>21, <1>same DEF familyVars, families, history
<1> QED
  BY <1>1, <1>4, <1>5, <1>7, <1>8, <1>9, <1>10, <1>11, <1>12, <1>13, <1>14,
     <1>15, <1>16, <1>17, <1>18, <1>20, <1>21 DEF FamilyNext, ChildWrite, ParentWrite

\* A create that was not broken off and has ended has inserted all its child rows.
LEMMA WholeImplies == FamilyInv /\ WholeInv => CreatesAreWhole
<1> SUFFICES ASSUME FamilyInv, WholeInv PROVE CreatesAreWhole
  OBVIOUS
<1>1. \A w \in Writers : req[w].at = "lines" => req[w].op = "new"
  BY DEF FamilyInv, FamilyShape, RequestOK
<1> QED BY <1>1 DEF WholeInv, CreatesAreWhole

\* The types and shapes hold throughout.
LEMMA FamilyInvAlways == FamilySpec => []FamilyInv
  BY FamilyInitInv, FamilyInvStep, PTL DEF FamilySpec

\* Rows, totals, cached reads and requests keep their types.
THEOREM FamilyTypeInvariant == FamilySpec => []FamilyTypeOK
<1>1. FamilyInv => FamilyTypeOK
  BY DEF FamilyInv
<1> QED BY <1>1, FamilyInvAlways, PTL

\* The stored formula of a parent agrees with its live children, for any number of
\* parents, children and overlapping requests: recalcAffectedParents sums up what is
\* there when it stores, or the parent is left behind.
THEOREM TotalsAddUpInvariant == FamilySpec => []TotalsAddUp
<1>1. FamilyInit => TotalsAddUp
  BY DEF FamilyInit, TotalsAddUp, LinesOf, Live
<1> QED BY <1>1, FamilyInvAlways, TotalsStep, PTL DEF FamilySpec

\* A read cached in an isolate shows the stored formula as it is, or a request of that
\* isolate is about to drop it, or it is known to be stale: invalidateCollectionReads comes
\* after every write of a total, and reaches the isolate that serves the write.
THEOREM CachedReadIsCurrentInvariant == FamilySpec => []CachedReadIsCurrent
<1>1. FamilyInit => CachedInv
  BY DEF FamilyInit, CachedInv
<1>2. FamilyInv /\ CachedInv => CachedReadIsCurrent
  BY DEF FamilyInv, FamilyTypeOK, FamilyShape, CachedInv, CachedReadIsCurrent, Dropped
<1> QED BY <1>1, <1>2, FamilyInvAlways, CachedStep, PTL DEF FamilySpec

\* However often and in whatever overlap a create is sent, its child rows are inserted
\* once, and all of them if it was answered and not broken off.
THEOREM CreatesAreWholeInvariant == FamilySpec => []CreatesAreWhole
  BY FamilyInvAlways, WholeInitInv, WholeStep, WholeImplies, PTL DEF FamilySpec

=============================================================================
