---------------------------- MODULE EntityStore ----------------------------
(***************************************************************************)
(* What the entity API promises of one record: each request it accepts is  *)
(* one atomic change, legal for the record as it is at that moment.        *)
(*                                                                         *)
(* A record has fields (columns and the virtual fields parked in _meta), a *)
(* stored formula over its columns, kept here as the values it was         *)
(* computed from, a stage governed by the collection's status machine and  *)
(* a doc_status.                                                           *)
(***************************************************************************)
EXTENDS Naturals

CONSTANTS
    Columns,        \* fields stored in columns of their own
    Metas,          \* virtual fields, stored together in the _meta blob
    Values,         \* values of a field
    Stages,         \* values of the status machine's field
    StageTable,     \* its transitions: a set of pairs
    DocStatuses,    \* values of doc_status
    DocTable,       \* its transitions: a set of pairs
    Frozen,         \* doc_status values under policies.writes.freeze_when
    Patches,        \* what a PUT may ask for
    None            \* a patch that leaves stage or doc_status alone

Fields == Columns \cup Metas

\* what an instance must be given
EntityAssumption ==
    /\ Columns \cap Metas = {}
    /\ None \notin Stages \cup DocStatuses
    /\ StageTable \subseteq Stages \X Stages
    /\ DocTable \subseteq DocStatuses \X DocStatuses
    /\ Frozen \subseteq DocStatuses
    /\ \A p \in Patches :
         /\ p = [set |-> p.set, stage |-> p.stage, doc |-> p.doc]
         /\ DOMAIN p.set \subseteq Fields
         /\ \A f \in DOMAIN p.set : p.set[f] \in Values
         /\ p.stage \in Stages \cup {None}
         /\ p.doc \in DocStatuses \cup {None}
         /\ DOMAIN p.set # {} \/ p.stage # None \/ p.doc # None

VARIABLE record

\* the formula's inputs, taken from the fields s
Formula(s) == [f \in Columns |-> s[f]]

Records == [ex : {"live", "trashed", "gone"}, set : [Fields -> Values],
            total : [Columns -> Values], stage : Stages, doc : DocStatuses]

Patched(s, p) == [f \in Fields |-> IF f \in DOMAIN p.set THEN p.set[f] ELSE s[f]]

Initial(rec) ==
    /\ rec \in Records
    /\ rec.ex = "live"
    /\ rec.total = Formula(rec.set)

Open(rec) == rec.ex # "gone" /\ rec.doc \notin Frozen

\* the patch p is legal for the record rec
Legal(rec, p) ==
    /\ Open(rec)
    /\ p.doc # None => <<rec.doc, p.doc>> \in DocTable
    /\ p.stage \notin {None, rec.stage} => <<rec.stage, p.stage>> \in StageTable

Init == Initial(record)

Put(p) ==
    /\ Legal(record, p)
    /\ record' = [ex    |-> record.ex,
                  set   |-> Patched(record.set, p),
                  total |-> Formula(Patched(record.set, p)),
                  stage |-> IF p.stage = None THEN record.stage ELSE p.stage,
                  doc   |-> IF p.doc = None THEN record.doc ELSE p.doc]

SetEx(from, to) ==
    /\ Open(record)
    /\ record.ex \in from
    /\ record' = [record EXCEPT !.ex = to]

\* a domain service posts the document, without the entity API
Post ==
    /\ record.ex # "gone"
    /\ record.doc = "draft"
    /\ record' = [record EXCEPT !.doc = "confirmed"]

Next ==
    \/ \E p \in Patches : Put(p)
    \/ SetEx({"live", "trashed"}, "trashed")
    \/ SetEx({"trashed"}, "live")
    \/ SetEx({"live", "trashed"}, "gone")
    \/ Post

Spec == Init /\ [][Next]_record

=============================================================================
