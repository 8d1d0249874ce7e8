------------------------------- MODULE Naming -------------------------------
(***************************************************************************)
(* Document numbers of one collection (NamingService.getNextNumber) as     *)
(* createItem uses them: read the highest display_number, claim the next   *)
(* one with INSERT OR IGNORE into _naming_series, and only then insert the *)
(* document.  A number is its text: the value and the length it is padded  *)
(* to.  The collection's documents share one prefix.                       *)
(***************************************************************************)
EXTENDS Naturals, FiniteSets

CONSTANTS
    Creates,     \* calls of createItem
    Radix,       \* 10 in the code
    Widths,      \* the widths the series may be given: the number of its #s
    First,       \* its width at the start
    Start,       \* the documents there are at the start are 1..Start
    MaxRetries,  \* 3 in the code
    MaxDigits,   \* bound: no number of the model has more digits
    Mishaps      \* which of "fail", "purge" and "dberror" may happen

ASSUME NamingAssumption ==
    /\ Creates \cap (1..Start) = {}
    /\ Radix \in Nat \ {0, 1}
    /\ Widths \subseteq Nat \ {0}
    /\ First \in Widths
    /\ Start \in Nat
    /\ MaxRetries \in Nat \ {0}
    /\ MaxDigits \in Nat
    /\ Mishaps \subseteq {"fail", "purge", "dberror"}

VARIABLES
    series,   \* the width of the collection's naming_series
    docs,     \* the documents ever inserted; live is FALSE once one is purged
    claims,   \* the rows of _naming_series: series and number
    pc,       \* where each create is
    width,    \* the series it read with the collection
    tries,    \* its conflicts so far
    num,      \* the number it is going to claim, or has claimed
    alone,    \* no other create was under way since it started
    erred     \* the creates whose number counts as claimed after an error

vars == <<series, docs, claims, pc, width, tries, num, alone, erred>>

Text == [n : Nat, len : Nat]

Digits(n) == 1 + Cardinality({k \in 1..MaxDigits : Radix ^ k <= n})

\* padStart pads and never cuts
Number(n, w) == [n |-> n, len |-> IF Digits(n) > w THEN Digits(n) ELSE w]

\* the order of ORDER BY display_number: of the texts, not of the values
TextBefore(a, b) ==
    IF a.len = b.len THEN a.n < b.n
    ELSE LET len == IF a.len > b.len THEN a.len ELSE b.len
             x == a.n * Radix ^ (len - a.len)
             y == b.n * Radix ^ (len - b.len)
         IN x < y \/ (x = y /\ a.len < b.len)

Present == {d.num : d \in {e \in docs : e.live}}

\* the rows ORDER BY ... DESC LIMIT 1 may return
Last == {t \in Present : \A s \in Present : s = t \/ TextBefore(s, t)}

\* mutant: a retry skips the numbers it found taken
CandidatesSkipping(c) ==
    IF Present = {} THEN {Number(1 + tries[c], width[c])}
    ELSE {Number(t.n + 1 + tries[c], width[c]) : t \in Last}

\* mutant: the counter is not incremented past the last number
CandidatesLast(c) ==
    IF Present = {} THEN {Number(1, width[c])} ELSE {Number(t.n, width[c]) : t \in Last}

\* the number after the last one present
Candidates(c) ==
    IF Present = {} THEN {Number(1, width[c])} ELSE {Number(t.n + 1, width[c]) : t \in Last}

UnderWay == {c \in Creates : pc[c] \in {"read", "claim", "insert"}}

TypeOK ==
    /\ series \in Widths
    /\ docs \subseteq [by : Creates \cup 1..Start, num : Text, live : BOOLEAN]
    /\ claims \subseteq Widths \X Text
    /\ pc \in [Creates -> {"idle", "read", "claim", "insert", "done", "refused", "failed"}]
    /\ width \in [Creates -> Widths]
    /\ tries \in [Creates -> 0..(MaxRetries - 1)]
    /\ num \in [Creates -> Text]
    /\ alone \in [Creates -> BOOLEAN]
    /\ erred \subseteq Creates

Init ==
    /\ series = First
    /\ docs = {[by |-> n, num |-> Number(n, First), live |-> TRUE] : n \in 1..Start}
    /\ claims = {<<First, Number(n, First)>> : n \in 1..Start}
    /\ pc = [c \in Creates |-> "idle"]
    /\ width = [c \in Creates |-> First]
    /\ tries = [c \in Creates |-> 0]
    /\ num = [c \in Creates |-> [n |-> 0, len |-> 0]]
    /\ alone = [c \in Creates |-> TRUE]
    /\ erred = {}

Goto(c, from, to) ==
    /\ pc[c] = from
    /\ pc' = [pc EXCEPT ![c] = to]

-----------------------------------------------------------------------------

\* createItem reads the collection and runs its checks
Begin(c) ==
    /\ Goto(c, "idle", "read")
    /\ width' = [width EXCEPT ![c] = series]
    /\ alone' = [d \in Creates |->
                   IF d = c THEN UnderWay = {}
                   ELSE alone[d] /\ d \notin UnderWay]
    /\ UNCHANGED <<series, docs, claims, tries, num, erred>>

\* SELECT the last display_number of the prefix, trashed documents included
Read(c) ==
    /\ Goto(c, "read", "claim")
    /\ \E t \in Candidates(c) : num' = [num EXCEPT ![c] = t]
    /\ UNCHANGED <<series, docs, claims, width, tries, alone, erred>>

\* INSERT OR IGNORE changed nothing: read again, at most MaxRetries times
Conflict(c) ==
    /\ IF tries[c] = MaxRetries - 1
       THEN Goto(c, "claim", "refused") /\ UNCHANGED tries
       ELSE Goto(c, "claim", "read") /\ tries' = [tries EXCEPT ![c] = @ + 1]
    /\ UNCHANGED <<series, docs, width, num, alone, erred>>

Key(c) == <<width[c], num[c]>>

\* mutant: the result of INSERT OR IGNORE is not looked at
ClaimUnchecked(c) ==
    /\ claims' = claims \cup {Key(c)}
    /\ Goto(c, "claim", "insert")
    /\ UNCHANGED <<series, docs, width, tries, num, alone, erred>>

\* _insertClaim: UNIQUE(table_name, series, number)
Claim(c) ==
    \/ /\ Key(c) \in claims
       /\ Conflict(c)
       /\ UNCHANGED claims
    \/ /\ Key(c) \notin claims
       /\ claims' = claims \cup {Key(c)}
       /\ Goto(c, "claim", "insert")
       /\ UNCHANGED <<series, docs, width, tries, num, alone, erred>>

\* The statement throws and so does CREATE TABLE or the second statement:
\* the number counts as claimed.
ClaimErrs(c) ==
    /\ "dberror" \in Mishaps
    /\ Goto(c, "claim", "insert")
    /\ erred' = erred \cup {c}
    /\ UNCHANGED <<series, docs, claims, width, tries, num, alone>>

\* The statement was committed and its reply lost: the second one finds the
\* create's own claim.
ClaimReplyLost(c) ==
    /\ "dberror" \in Mishaps
    /\ pc[c] = "claim"
    /\ Conflict(c)
    /\ claims' = claims \cup {Key(c)}

Insert(c) ==
    /\ Goto(c, "insert", "done")
    /\ docs' = docs \cup {[by |-> c, num |-> num[c], live |-> TRUE]}
    /\ UNCHANGED <<series, claims, width, tries, num, alone, erred>>

\* The insert violates a constraint, the collection is a singleton, or the
\* isolate dies: nothing takes the claim back.
Fail(c) ==
    /\ "fail" \in Mishaps
    /\ c \in UnderWay
    /\ pc' = [pc EXCEPT ![c] = "failed"]
    /\ UNCHANGED <<series, docs, claims, width, tries, num, alone, erred>>

\* hardDeleteItem
Purge ==
    /\ "purge" \in Mishaps
    /\ \E d \in docs :
         /\ d.live
         /\ docs' = (docs \ {d}) \cup {[d EXCEPT !.live = FALSE]}
    /\ UNCHANGED <<series, claims, pc, width, tries, num, alone, erred>>

\* the collection is given another series of the same prefix
SetSeries ==
    /\ \E w \in Widths \ {series} : series' = w
    /\ UNCHANGED <<docs, claims, pc, width, tries, num, alone, erred>>

Next ==
    \/ \E c \in Creates :
         \/ Begin(c) \/ Read(c)
         \/ pc[c] = "claim" /\ Claim(c)
         \/ ClaimErrs(c) \/ ClaimReplyLost(c)
         \/ Insert(c) \/ Fail(c)
    \/ Purge
    \/ SetSeries

Spec == Init /\ [][Next]_vars

-----------------------------------------------------------------------------
(* Properties.                                                             *)

\* the series under which a document was numbered
SeriesOf(d) == IF d.by \in Creates THEN width[d.by] ELSE First

\* Two documents numbered under the same series never have the same number, not
\* even after one was purged, whatever fails or happens to the series in between
\* ("to prevent duplicate numbers", naming.service.ts:17-18), unless the number
\* of one was let through after an error of the claim's own statements (:181).
UniqueInSeries ==
    \A d, e \in {f \in docs : f.by \notin erred} :
      d.num = e.num /\ SeriesOf(d) = SeriesOf(e) => d.by = e.by

\* The documents are numbered 1, 2, 3, ... at every moment, whatever the
\* order in which concurrent creates claim and insert, fail, err and are purged.
NoGaps ==
    LET numbers == {d.num.n : d \in docs}
    IN  numbers = 1..Cardinality(numbers)

\* what can be in the way of a create that is on its own: a claim without a
\* document, or numbers of several lengths, which the text order mixes up (the
\* create may have read its last number before a purge)
Obstructed ==
    \/ \E k \in claims : k[2] \notin Present
    \/ \E d, e \in docs : d.num.len # e.num.len

\* Concurrency costs a create its number (naming.service.ts:132-141), and so do
\* these two obstacles; nothing else does.
RefusedForCause ==
    [][ \A c \in Creates : pc[c] = "claim" /\ pc'[c] = "refused" => ~alone[c] \/ Obstructed' ]_vars

=============================================================================
