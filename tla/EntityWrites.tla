---------------------------- MODULE EntityWrites ----------------------------
(***************************************************************************)
(* One record of a collection and the requests that write it through       *)
(* ItemMutationService: updateItem, softDeleteItem, restoreItem and        *)
(* hardDeleteItem.  Each of them reads the row once, checks everything     *)
(* against that snapshot (existing), then awaits hooks, rules and formulas *)
(* and writes with an UPDATE or DELETE whose WHERE names the id only.      *)
(*                                                                         *)
(* A request is: Load (the client gets the record it is going to edit),    *)
(* Check (the SELECT and the checks on it), Stamp (updated_at is taken),   *)
(* and a write.  Between two steps of one request any other may act; calm  *)
(* and record remember what EntityStore allows until that first happens.   *)
(***************************************************************************)
EXTENDS Naturals

CONSTANTS
    Requests,
    Columns, Metas, Values, Stages, StageTable, DocStatuses, DocTable,
    Frozen, Patches, None,  \* as in EntityStore
    DistinctStamps   \* TRUE: no two writes take updated_at in the same millisecond

VARIABLES
    row,     \* the row, with its updated_at (stamp) and a count of its writes (ver)
    clock,   \* the last millisecond in which some write took its updated_at
    req,     \* what each request asks for
    pc,      \* where it is
    loaded,  \* stamp and ver of the record its client had loaded
    base,    \* the snapshot its checks ran on
    stamp,   \* the updated_at it is going to write
    calm,    \* no request was checked, or document posted, during another so far
    record   \* the record as EntityStore has it, as long as that is so

vars == <<row, clock, req, pc, loaded, base, stamp, calm, record>>

Store == INSTANCE EntityStore

RecordOf(r) == [ex |-> r.ex, set |-> r.set, total |-> r.total, stage |-> r.stage, doc |-> r.doc]

ASSUME WritesAssumption ==
    /\ Store!EntityAssumption
    /\ DistinctStamps \in BOOLEAN

Fields == Store!Fields

Ops == {"put", "trash", "restore", "purge"}
Asks == {ask \in [op : Ops, patch : Patches \cup {None}, ifMatch : BOOLEAN] :
            /\ ask.op = "put" <=> ask.patch # None
            /\ ask.ifMatch => ask.op = "put"}
NoAsk == [op |-> "trash", patch |-> None, ifMatch |-> FALSE]

Rows == [ex : {"live", "trashed", "gone"}, set : [Fields -> Values],
         total : [Columns -> Values], stage : Stages, doc : DocStatuses,
         stamp : Nat, ver : Nat]

TypeOK ==
    /\ row \in Rows
    /\ clock \in Nat
    /\ req \in [Requests -> Asks]
    /\ pc \in [Requests -> {"idle", "loaded", "checked", "stamped", "done", "refused"}]
    /\ loaded \in [Requests -> [stamp : Nat, ver : Nat]]
    /\ base \in [Requests -> Rows]
    /\ stamp \in [Requests -> Nat]
    /\ calm \in BOOLEAN
    /\ record \in Store!Records

Init ==
    /\ row \in {r \in [ex : {"live"}, set : [Fields -> Values], total : [Columns -> Values],
                       stage : Stages, doc : DocStatuses, stamp : {0}, ver : {0}] :
                  r.total = Store!Formula(r.set) /\ r.doc = "draft"}
    /\ clock = 0
    /\ req = [r \in Requests |-> NoAsk]
    /\ pc = [r \in Requests |-> "idle"]
    /\ loaded = [r \in Requests |-> [stamp |-> 0, ver |-> 0]]
    /\ base = [r \in Requests |-> row]
    /\ stamp = [r \in Requests |-> 0]
    /\ calm = TRUE
    /\ record = RecordOf(row)

Goto(r, from, to) ==
    /\ pc[r] = from
    /\ pc' = [pc EXCEPT ![r] = to]

-----------------------------------------------------------------------------

\* the client gets the record and decides what to ask for
Load(r) ==
    /\ Goto(r, "idle", "loaded")
    /\ row.ex # "gone"
    /\ loaded' = [loaded EXCEPT ![r] = [stamp |-> row.stamp, ver |-> row.ver]]
    /\ \E ask \in Asks : req' = [req EXCEPT ![r] = ask]
    /\ UNCHANGED <<row, clock, base, stamp, calm, record>>

\* mutant: the If-Match header is not compared
IfMatchIgnored(r) == TRUE

IfMatchHolds(r) == req[r].ifMatch => row.stamp = loaded[r].stamp

\* what the service demands of the snapshot: assertNotFrozen, If-Match,
\* isValidTransition, the status machine, "Item is not trashed"
Accepts(r) ==
    CASE req[r].op = "put"     -> IfMatchHolds(r) /\ Store!Legal(row, req[r].patch)
      [] req[r].op = "restore" -> Store!Open(row) /\ row.ex = "trashed"
      [] OTHER                 -> Store!Open(row)

UnderWay == {r \in Requests : pc[r] \in {"checked", "stamped"}}

Overlaps == calm' = (calm /\ UnderWay = {})

\* calm' is known where this stands
Follow == record' = IF calm' THEN RecordOf(row') ELSE record

Check(r) ==
    /\ Overlaps
    /\ Goto(r, "loaded", IF Accepts(r) THEN "checked" ELSE "refused")
    /\ base' = [base EXCEPT ![r] = row]
    /\ UNCHANGED <<row, clock, req, loaded, stamp, record>>

\* new Date().toISOString(), one await before the statement runs
Stamp(r) ==
    /\ req[r].op # "purge"
    /\ Goto(r, "checked", "stamped")
    /\ clock' \in IF DistinctStamps THEN {clock + 1} ELSE {clock, clock + 1}
    /\ stamp' = [stamp EXCEPT ![r] = clock']
    /\ UNCHANGED <<row, req, loaded, base, calm, record>>

\* the fields of the patch that differ from the snapshot: decision tables
\* return the delta of the merged document
Delta(r) == {f \in DOMAIN req[r].patch.set : req[r].patch.set[f] # base[r].set[f]}

\* mutant: _meta starts empty
UpdatedMetaLost(r) ==
    LET p == req[r].patch
        merged == Store!Patched([f \in Fields |-> IF f \in Metas THEN 0 ELSE base[r].set[f]], p)
    IN [row EXCEPT !.set = merged, !.total = Store!Formula(merged),
                   !.doc = IF p.doc = None THEN @ ELSE p.doc,
                   !.stage = IF p.stage = None THEN @ ELSE p.stage,
                   !.stamp = stamp[r], !.ver = @ + 1]

\* an UPDATE writes the delta, the formulas of the merged snapshot and the
\* whole _meta of the merged snapshot; the other columns are not named
Updated(r) ==
    LET p == req[r].patch
        merged == Store!Patched(base[r].set, p)
    IN [row EXCEPT
          !.set   = [f \in Fields |-> IF f \in Delta(r) \cup Metas THEN merged[f] ELSE @[f]],
          !.total = Store!Formula(merged),
          !.stage = IF p.stage \in {None, base[r].stage} THEN @ ELSE p.stage,
          !.doc   = IF p.doc = None THEN @ ELSE p.doc,
          !.stamp = stamp[r],
          !.ver   = @ + 1]

Put(r) ==
    /\ req[r].op = "put"
    /\ Goto(r, "stamped", IF row.ex = "gone" THEN "refused" ELSE "done")
    /\ row' = IF row.ex = "gone" THEN row ELSE Updated(r)
    /\ UNCHANGED <<clock, req, loaded, base, stamp, calm>>
    /\ Follow

\* UPDATE ... SET deleted_at, updated_at; no row is no error
SetDeleted(r, op, ex) ==
    /\ req[r].op = op
    /\ Goto(r, "stamped", "done")
    /\ row' = IF row.ex = "gone" THEN row
              ELSE [row EXCEPT !.ex = ex, !.stamp = stamp[r], !.ver = @ + 1]
    /\ UNCHANGED <<clock, req, loaded, base, stamp, calm>>
    /\ Follow

SoftDelete(r) == SetDeleted(r, "trash", "trashed")
Restore(r) == SetDeleted(r, "restore", "live")

HardDelete(r) ==
    /\ req[r].op = "purge"
    /\ Goto(r, "checked", "done")
    /\ row' = [row EXCEPT !.ex = "gone", !.ver = @ + 1]
    /\ UNCHANGED <<clock, req, loaded, base, stamp, calm>>
    /\ Follow

\* a hook, a rule or a constraint aborts the request, or its isolate dies
Abort(r) ==
    /\ pc[r] \in {"loaded", "checked", "stamped"}
    /\ pc' = [pc EXCEPT ![r] = "refused"]
    /\ UNCHANGED <<row, clock, req, loaded, base, stamp, calm, record>>

\* a domain service posts the document with a statement of its own
Post ==
    /\ Overlaps
    /\ row.ex # "gone"
    /\ row.doc = "draft" /\ "confirmed" \in DocStatuses
    /\ row' = [row EXCEPT !.doc = "confirmed", !.stamp = clock + 1, !.ver = @ + 1]
    /\ clock' = clock + 1
    /\ Follow
    /\ UNCHANGED <<req, pc, loaded, base, stamp>>

Write(r) == Put(r) \/ SoftDelete(r) \/ Restore(r) \/ HardDelete(r)

Next ==
    \/ \E r \in Requests : Load(r) \/ Check(r) \/ Stamp(r) \/ Write(r) \/ Abort(r)
    \/ Post

Spec == Init /\ [][Next]_vars

-----------------------------------------------------------------------------
(* Properties.                                                             *)

\* A PUT with If-Match goes past its checks only if nothing was written since
\* its client loaded the record: every write committed before the request was
\* read is seen (collection-mutation.service.ts:486-493).
StaleLoadIsRefused ==
    \A r \in Requests :
      pc[r] \in {"checked", "stamped"} /\ req[r].ifMatch => base[r].ver = loaded[r].ver

\* A PUT with If-Match never writes over a record that moved on since it was
\* loaded ("never silently clobber another user's edit", :486-488).
NoClobber ==
    [][\A r \in Requests : req[r].ifMatch /\ Put(r) /\ row' # row
                             => row.ver = loaded[r].ver]_vars

\* However requests interleave, a PUT never changes a column it does not name:
\* the statement sets columns, not the whole row (:641-657).
UnnamedColumnsSurvive ==
    [][\A r \in Requests : Put(r) =>
         \A f \in Columns : row'.set[f] # row.set[f] => f \in DOMAIN req[r].patch.set]_vars

\* Requests that do not overlap change the record as EntityStore says: each is legal
\* for the record as it stands and is one change, its formula included.
StoreSpec == Store!Spec

(* What that means for the row itself; the proofs derive it.               *)

\* The stored formula is the formula of the row's own columns (:564-573), as long
\* as requests did not overlap.
FormulaFollowsRow == calm /\ row.ex # "gone" => row.total = Store!Formula(row.set)

\* The stage moves only along the status machine ("approve-after-cancel is the
\* race this closes", :605-626), as long as requests did not overlap.
StageMovesLegally ==
    [][calm' /\ row'.stage # row.stage => <<row.stage, row'.stage>> \in StageTable]_vars

\* A record in a frozen doc_status is not written by the entity API (:180-197), as
\* long as requests did not overlap.
FrozenIsImmutable ==
    [][calm' /\ row.doc \in Frozen => row' = row]_vars

=============================================================================
