------------------------------ MODULE Families ------------------------------
(***************************************************************************)
(* Records and their child rows in ItemMutationService: a parent keeps a   *)
(* stored formula over its live children, such as SUM(lines.amount).  The  *)
(* handlers of a child write recompute it in recalcAffectedParents, those  *)
(* of the parent itself (createItem, updateItem, with child rows in the    *)
(* payload or not) by computeStoredFormulas.  getItem of                   *)
(* ItemQueryService answers for a parent from the response cache, a Map of *)
(* one isolate: here is one of them, with the reads it serves.  A write is *)
(* served by this isolate or by another, whose drop does not reach here.   *)
(*                                                                         *)
(* The stored value is represented by what it was computed over: the live  *)
(* children with their amounts.  Each database statement is a step.        *)
(***************************************************************************)
EXTENDS Naturals, FiniteSets

CONSTANTS
    Parents,
    Children,
    Amounts,
    Writers,        \* write requests that may overlap
    Here,           \* those of them that this isolate serves
    Readers,        \* getItem requests that may overlap
    NumLines,       \* child rows in the payload of a create
    None,           \* no child, no parent, no operation
    MaxRequests,    \* bound: writes and reads past a miss
    MaxMishaps      \* bound: requests that are broken off

ASSUME FamiliesAssumption ==
    /\ Here \subseteq Writers
    /\ None \notin Parents \cup Children
    /\ None \notin {"create", "update", "softDelete", "restore", "hardDelete", "new", "edit", "save"}
    /\ NumLines \in Nat \ {0}
    /\ MaxRequests \in Nat
    /\ MaxMishaps \in Nat

VARIABLES
    row,        \* the child rows
    exists,     \* the parents in the database
    total,      \* the stored formula of each parent
    cache,      \* the read of each parent cached here: a set of one total or none
    req,        \* the write requests
    reader,     \* the reads past a miss
    lines,      \* history: child rows inserted by creates of each parent
    created,    \* history: parents whose create was answered with success
    broken,     \* history: parents of which a create was broken off
    behind,     \* history: parents whose total nobody will set right
    stale,      \* history: parents whose cached read no request will drop
    started,
    mishaps

families == <<row, exists, total>>
history == <<lines, created, broken, behind>>
familyVars == <<families, cache, req, reader, history, stale, started, mishaps>>

Counted == SUBSET (Children \X Amounts)

ChildOps == {"create", "update", "softDelete", "restore", "hardDelete"}
Steps == {"idle", "write", "locate", "sum", "store", "drop", "insert", "lines", "put", "replace"}

Idle == [op |-> None, at |-> "idle", child |-> None, parent |-> None,
         sum |-> {}, seen |-> {}, left |-> 0]
Resting == [at |-> "idle", parent |-> None, got |-> {}]

RowType == [st : {"none", "live", "trash", "gone"}, parent : Parents \cup {None},
            amount : Amounts \cup {None}]
ReqType == [op : ChildOps \cup {"new", "edit", "save", None}, at : Steps,
            child : Children \cup {None}, parent : Parents \cup {None},
            sum : Counted, seen : Counted, left : 0..NumLines]
ReaderType == [at : {"idle", "fill"}, parent : Parents \cup {None}, got : Counted]

FamilyTypeOK ==
    /\ row \in [Children -> RowType]
    /\ exists \subseteq Parents
    /\ total \in [Parents -> Counted]
    /\ cache \in [Parents -> SUBSET Counted]
    /\ req \in [Writers -> ReqType]
    /\ reader \in [Readers -> ReaderType]
    /\ lines \in [Parents -> Nat]
    /\ created \subseteq Parents
    /\ broken \subseteq Parents
    /\ behind \subseteq Parents
    /\ stale \subseteq Parents
    /\ started \in 0..MaxRequests
    /\ mishaps \in 0..MaxMishaps

\* The parents that are there have lost the child rows they were created with.
FamilyInit ==
    /\ row = [c \in Children |-> [st |-> "none", parent |-> None, amount |-> None]]
    /\ exists \in SUBSET Parents
    /\ total = [p \in Parents |-> {}]
    /\ cache = [p \in Parents |-> {}]
    /\ req = [w \in Writers |-> Idle]
    /\ reader = [r \in Readers |-> Resting]
    /\ lines = [p \in Parents |-> IF p \in exists THEN NumLines ELSE 0]
    /\ created = {}
    /\ broken = {}
    /\ behind = {}
    /\ stale = {}
    /\ started = 0
    /\ mishaps = 0

Live(p) == {c \in Children : row[c].st = "live" /\ row[c].parent = p}
LinesOf(p) == {<<c, row[c].amount>> : c \in Live(p)}

NewRow(p, a) == [st |-> "live", parent |-> p, amount |-> a]

Arrive(w) == req[w].at = "idle" /\ started < MaxRequests /\ started' = started + 1
Proceed(w, step) == req' = [req EXCEPT ![w] = [req[w] EXCEPT !.at = step]]
Finish(w) == req' = [req EXCEPT ![w] = Idle]

-----------------------------------------------------------------------------
(* Writes to a child through its own collection.                           *)

InTable(c) == row[c].st \in {"live", "trash"}

\* The write of a child is done; its parent is looked for next.
Written(w, op, c) ==
    req' = [req EXCEPT ![w] = [Idle EXCEPT !.op = op, !.at = "locate", !.child = c]]

createChild(w) ==
    /\ Arrive(w)
    /\ \E c \in Children, p \in exists, a \in Amounts :
         /\ row[c].st = "none"
         /\ row' = [row EXCEPT ![c] = NewRow(p, a)]
         /\ Written(w, "create", c)
    /\ UNCHANGED <<exists, total, cache, reader, history, stale, mishaps>>

\* The payload may name the amount, the parent, or both.  The parent that is
\* left is not recomputed.  The row as it was read before decides nothing more
\* than the UPDATE does, here and in softDeleteChild: no row, no change.
updateChild(w) ==
    /\ Arrive(w)
    /\ \E c \in Children, p \in exists, a \in Amounts :
         /\ InTable(c)
         /\ row' = [row EXCEPT ![c] = [row[c] EXCEPT !.parent = p, !.amount = a]]
         /\ behind' = behind \cup ({row[c].parent} \ {p})
         /\ Written(w, "update", c)
    /\ UNCHANGED <<exists, total, cache, reader, lines, created, broken, stale, mishaps>>

softDeleteChild(w) ==
    /\ Arrive(w)
    /\ \E c \in Children :
         /\ InTable(c)
         /\ row' = [row EXCEPT ![c] = [row[c] EXCEPT !.st = "trash"]]
         /\ Written(w, "softDelete", c)
    /\ UNCHANGED <<exists, total, cache, reader, history, stale, mishaps>>

\* A restore is refused unless the row was in the trash when it was read; a hard
\* delete keeps the parent it read.
Load(w) ==
    /\ Arrive(w)
    /\ \E c \in Children, op \in {"restore", "hardDelete"} :
         /\ InTable(c)
         /\ op = "restore" => row[c].st = "trash"
         /\ req' = [req EXCEPT ![w] =
                [Idle EXCEPT !.op = op, !.at = "write", !.child = c,
                             !.parent = IF op = "hardDelete" THEN row[c].parent ELSE None]]
    /\ UNCHANGED <<families, cache, reader, history, stale, mishaps>>

Writing(w, op) == req[w].at = "write" /\ req[w].op = op

restoreChild(w) ==
    /\ Writing(w, "restore")
    /\ LET c == req[w].child
       IN  row' = [row EXCEPT ![c] = [row[c] EXCEPT !.st = IF InTable(c) THEN "live" ELSE row[c].st]]
    /\ Proceed(w, "locate")
    /\ UNCHANGED <<exists, total, cache, reader, history, stale, started, mishaps>>

\* Its recalculation uses the parent of the row as it was read; a parent the row
\* was moved to since is not recomputed.
hardDeleteChild(w) ==
    /\ Writing(w, "hardDelete")
    /\ LET c == req[w].child
       IN  /\ row' = [row EXCEPT ![c] = [row[c] EXCEPT !.st = "gone"]]
           /\ behind' = behind \cup (IF InTable(c) THEN {row[c].parent} \ {req[w].parent} ELSE {})
    /\ Proceed(w, "locate")
    /\ UNCHANGED <<exists, total, cache, reader, lines, created, broken, stale, started, mishaps>>

-----------------------------------------------------------------------------
(* recalcAffectedParents, and the pass computeStoredFormulas makes once    *)
(* the child rows of a parent's own payload are written.                   *)

LookedUp(w, p) == req' = [req EXCEPT ![w] = [req[w] EXCEPT !.at = "sum", !.parent = p]]

\* mutant: the parent of a hard-deleted row is looked for in the table
LocateInTable(w) ==
    /\ req[w].at = "locate"
    /\ LET c == req[w].child
       IN  IF InTable(c) THEN LookedUp(w, row[c].parent)
           ELSE Finish(w)
    /\ UNCHANGED <<families, cache, reader, history, stale, started, mishaps>>

\* The parent is in the snapshot, else in the row as it is now.
Locate(w) ==
    /\ req[w].at = "locate"
    /\ LET c == req[w].child
       IN  IF req[w].parent # None THEN Proceed(w, "sum")
           ELSE IF InTable(c) THEN LookedUp(w, row[c].parent)
           ELSE Finish(w)
    /\ UNCHANGED <<families, cache, reader, history, stale, started, mishaps>>

\* The SELECT of the children, those in the trash left out.
Fetch(p) == LinesOf(p)

Sum(w) ==
    /\ req[w].at = "sum"
    /\ LET p == req[w].parent
       IN  req' = [req EXCEPT ![w] =
               [req[w] EXCEPT !.at = "store", !.sum = Fetch(p), !.seen = LinesOf(p)]]
    /\ UNCHANGED <<families, cache, reader, history, stale, started, mishaps>>

\* An UPDATE of p's total computed when its lines were as w has seen them.  Made by
\* another isolate it leaves the read cached here to its TTL.
StoreTotal(w, p) ==
    /\ total' = [total EXCEPT ![p] = req[w].sum]
    /\ behind' = IF req[w].seen = LinesOf(p) THEN behind \ {p} ELSE behind \cup {p}
    /\ stale' = IF w \notin Here /\ cache[p] # {} /\ req[w].sum # total[p] THEN stale \cup {p}
                ELSE stale

Store(w) ==
    /\ req[w].at = "store"
    /\ StoreTotal(w, req[w].parent)
    /\ Proceed(w, "drop")
    /\ UNCHANGED <<row, exists, cache, reader, lines, created, broken, started, mishaps>>

\* mutant: only the reads of the child's own collection are dropped
DropOwn(w) ==
    /\ req[w].at = "drop"
    /\ IF req[w].op \in ChildOps \/ w \notin Here THEN UNCHANGED <<cache, stale>>
       ELSE /\ cache' = [cache EXCEPT ![req[w].parent] = {}]
            /\ stale' = stale \ {req[w].parent}
    /\ created' = IF req[w].op = "new" THEN created \cup {req[w].parent} ELSE created
    /\ Finish(w)
    /\ UNCHANGED <<families, reader, lines, broken, behind, started, mishaps>>

\* invalidateCollectionReads of the parent's collection, in the isolate that serves
\* the request, and the answer.
Drop(w) ==
    /\ req[w].at = "drop"
    /\ IF w \in Here
       THEN /\ cache' = [cache EXCEPT ![req[w].parent] = {}]
            /\ stale' = stale \ {req[w].parent}
       ELSE UNCHANGED <<cache, stale>>
    /\ created' = IF req[w].op = "new" THEN created \cup {req[w].parent} ELSE created
    /\ Finish(w)
    /\ UNCHANGED <<families, reader, lines, broken, behind, started, mishaps>>

-----------------------------------------------------------------------------
(* Writes to a parent.  A create has an id chosen by the client and the    *)
(* same child rows whenever it is sent.                                    *)

\* mutant: a replay goes on to the child rows
LookupAndGoOn(w) ==
    /\ Arrive(w)
    /\ \E p \in Parents :
         req' = [req EXCEPT ![w] =
             [Idle EXCEPT !.op = "new", !.parent = p, !.left = NumLines,
                          !.at = IF p \in exists THEN "lines" ELSE "insert"]]
    /\ UNCHANGED <<families, cache, reader, history, stale, mishaps>>

\* A record of that id is the answer, as it is.
Lookup(w) ==
    /\ Arrive(w)
    /\ \E p \in Parents :
         \/ /\ p \in exists
            /\ created' = created \cup {p}
            /\ UNCHANGED req
         \/ /\ p \notin exists
            /\ req' = [req EXCEPT ![w] =
                   [Idle EXCEPT !.op = "new", !.at = "insert", !.parent = p, !.left = NumLines]]
            /\ UNCHANGED created
    /\ UNCHANGED <<families, cache, reader, lines, broken, behind, stale, mishaps>>

\* A second INSERT of the id fails.
insertParent(w) ==
    /\ req[w].at = "insert"
    /\ LET p == req[w].parent
       IN  IF p \in exists THEN Finish(w) /\ UNCHANGED exists
           ELSE exists' = exists \cup {p} /\ Proceed(w, "lines")
    /\ UNCHANGED <<row, total, cache, reader, history, stale, started, mishaps>>

\* One INSERT for each row.
createChildren(w) ==
    /\ req[w].at = "lines"
    /\ \E c \in Children, a \in Amounts :
         /\ row[c].st = "none"
         /\ row' = [row EXCEPT ![c] = NewRow(req[w].parent, a)]
    /\ lines' = [lines EXCEPT ![req[w].parent] = @ + 1]
    /\ LET left == req[w].left - 1
       IN  req' = [req EXCEPT ![w] =
               [req[w] EXCEPT !.left = left, !.at = IF left = 0 THEN "sum" ELSE "lines"]]
    /\ UNCHANGED <<exists, total, cache, reader, created, broken, behind, stale, started, mishaps>>

\* A PUT computes the stored formulas before it writes; "save" has child rows.
LoadParent(w) ==
    /\ Arrive(w)
    /\ \E p \in exists, op \in {"edit", "save"} :
         req' = [req EXCEPT ![w] = [Idle EXCEPT !.op = op, !.at = "put", !.parent = p,
                                                !.sum = Fetch(p), !.seen = LinesOf(p)]]
    /\ UNCHANGED <<families, cache, reader, history, stale, mishaps>>

updateParent(w) ==
    /\ req[w].at = "put"
    /\ StoreTotal(w, req[w].parent)
    /\ Proceed(w, IF req[w].op = "save" THEN "replace" ELSE "drop")
    /\ UNCHANGED <<row, exists, cache, reader, lines, created, broken, started, mishaps>>

\* In one batch: the DELETE of the parent's rows, in the trash or not, and the
\* INSERTs of the payload's, of which one is enough.
replaceChildren(w) ==
    /\ req[w].at = "replace"
    /\ LET p == req[w].parent
           emptied == [c \in Children |->
               IF InTable(c) /\ row[c].parent = p THEN [row[c] EXCEPT !.st = "gone"] ELSE row[c]]
       IN  \/ row' = emptied
           \/ \E c \in Children, a \in Amounts :
                row[c].st = "none" /\ row' = [emptied EXCEPT ![c] = NewRow(p, a)]
    /\ Proceed(w, "sum")
    /\ UNCHANGED <<exists, total, cache, reader, history, stale, started, mishaps>>

-----------------------------------------------------------------------------
\* The parents whose lines a request has changed and whose total it is about to
\* set.
Recomputes(w) ==
    CASE req[w].at = "locate" ->
           IF req[w].parent # None THEN {req[w].parent}
           ELSE IF InTable(req[w].child) THEN {row[req[w].child].parent} ELSE {}
      [] req[w].at \in {"lines", "sum", "store"} -> {req[w].parent}
      [] OTHER -> {}

\* The parents whose reads cached here a request is about to drop.
Drops(w) ==
    IF /\ w \in Here
       /\ req[w].at = "drop" \/ (req[w].op \in {"new", "save"} /\ req[w].at \notin {"insert", "put"})
    THEN {req[w].parent} ELSE {}

\* A statement fails, and the handler throws.  Between a recalculation and its
\* drop there is none.
Abort(w) ==
    /\ req[w].at # "idle"
    /\ ~(req[w].at = "drop" /\ req[w].op \in ChildOps)
    /\ mishaps < MaxMishaps
    /\ mishaps' = mishaps + 1
    /\ behind' = behind \cup Recomputes(w)
    /\ stale' = stale \cup Drops(w)
    /\ broken' = IF req[w].op = "new" /\ req[w].at # "insert" THEN broken \cup {req[w].parent}
                 ELSE broken
    /\ Finish(w)
    /\ UNCHANGED <<families, cache, reader, lines, created, started>>

-----------------------------------------------------------------------------
(* getItem of a parent.  A hit returns what is cached and changes nothing. *)

readCached(r) ==
    /\ reader[r].at = "idle"
    /\ started < MaxRequests
    /\ started' = started + 1
    /\ \E p \in exists :
         /\ cache[p] = {}
         /\ reader' = [reader EXCEPT ![r] = [at |-> "fill", parent |-> p, got |-> total[p]]]
    /\ UNCHANGED <<families, cache, req, history, stale, mishaps>>

\* After further awaits: the value may be an old one by now.
storeCached(r) ==
    /\ reader[r].at = "fill"
    /\ LET p == reader[r].parent
       IN  /\ cache' = [cache EXCEPT ![p] = {reader[r].got}]
           /\ stale' = IF reader[r].got = total[p] THEN stale \ {p} ELSE stale \cup {p}
    /\ reader' = [reader EXCEPT ![r] = Resting]
    /\ UNCHANGED <<families, req, history, started, mishaps>>

\* The TTL of the entry has passed.
Expire(p) ==
    /\ cache[p] # {}
    /\ cache' = [cache EXCEPT ![p] = {}]
    /\ stale' = stale \ {p}
    /\ UNCHANGED <<families, req, reader, history, started, mishaps>>

-----------------------------------------------------------------------------
ChildWrite(w) ==
    \/ createChild(w) \/ Load(w)
    \/ updateChild(w) \/ softDeleteChild(w) \/ restoreChild(w) \/ hardDeleteChild(w)
    \/ Locate(w)

ParentWrite(w) ==
    \/ Lookup(w) \/ insertParent(w) \/ createChildren(w)
    \/ LoadParent(w) \/ updateParent(w) \/ replaceChildren(w)

FamilyNext ==
    \/ \E w \in Writers : ChildWrite(w)
    \/ \E w \in Writers : ParentWrite(w)
    \/ \E w \in Writers : Sum(w)
    \/ \E w \in Writers : Store(w)
    \/ \E w \in Writers : Drop(w)
    \/ \E w \in Writers : Abort(w)
    \/ \E r \in Readers : readCached(r)
    \/ \E r \in Readers : storeCached(r)
    \/ \E p \in Parents : Expire(p)

FamilySpec == FamilyInit /\ [][FamilyNext]_familyVars

-----------------------------------------------------------------------------
(* Properties.                                                             *)

\* Whatever is done to children, by their own collection or by their parent's
\* payload, the stored formula of a parent agrees with its live children once the
\* requests have ended, unless a sum was stored after the lines had changed again,
\* a request was broken off, or a child left the parent.
TotalsAddUp ==
    \A p \in exists :
        total[p] = LinesOf(p) \/ p \in behind \/ \E w \in Writers : p \in Recomputes(w)

\* A read of a parent cached in an isolate shows its stored formula as it is, unless a
\* request of that isolate is about to drop it, it was filled in by a read that was
\* overtaken, the request that should have dropped it failed, or another isolate has
\* changed the formula since, which lasts until the TTL or the next write here.
CachedReadIsCurrent ==
    \A p \in exists :
        cache[p] \subseteq {total[p]} \/ p \in stale \/ \E w \in Writers : p \in Drops(w)

\* A create that is sent again never adds its child rows a second time, and an
\* answer means that they are all there, unless an attempt is still at it or was
\* broken off.
CreatesAreWhole ==
    \A p \in Parents :
        /\ lines[p] <= NumLines
        /\ p \in created /\ p \notin broken
              => \/ lines[p] = NumLines
                 \/ \E w \in Writers : req[w].op = "new" /\ req[w].at = "lines" /\ req[w].parent = p

\* utils/pool.ts:10-12, docs/backend-plugins/computed-fields.md:50-56: a child that
\* is created directly is counted in its parent's stored formula.
CreatedChildIsCounted ==
    (\A w \in Writers : req[w].at = "idle") /\ mishaps = 0
        => \A p \in exists : \A c \in Live(p) : \E a \in Amounts : <<c, a>> \in total[p]

=============================================================================
