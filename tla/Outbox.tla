------------------------------- MODULE Outbox -------------------------------
(***************************************************************************)
(* apps/api/src/plugins/outbox: the table _outbox of side effects, its     *)
(* producers (enqueue), the flushes that execute its rows and the pruning  *)
(* of finished ones.  A flush belongs to one firing of the cron trigger;   *)
(* nothing keeps two of them apart.                                        *)
(*                                                                         *)
(* Rows are numbered in the order of created_at.  A row has status "none"  *)
(* before it is inserted and "gone" once it is deleted, so that what it    *)
(* was stays known.  No producer of the repository delays a row and only   *)
(* rows without an attempt are selected, so every pending row is due and   *)
(* next_attempt_at decides nothing.                                        *)
(***************************************************************************)
EXTENDS Integers, FiniteSets

CONSTANTS
    Keys,           \* dedupe keys
    NoKey,          \* dedupe_key NULL
    Flushers,       \* firings of the cron trigger that may overlap
    Limit,          \* rows a flush takes at most (50)
    MaxAttempts,    \* OUTBOX_MAX_ATTEMPTS (5)
    MaxRows,        \* bound: rows inserted in all
    MaxMishaps      \* bound: crashes and failed statements

ASSUME OutboxAssumption ==
    /\ NoKey \notin Keys
    /\ Limit \in Nat \ {0}
    /\ MaxAttempts \in Nat \ {0}
    /\ MaxRows \in Nat
    /\ MaxMishaps \in Nat

VARIABLES
    rows,       \* _outbox
    dlq,        \* ids in _outbox_dlq
    made,       \* rows inserted so far
    flush,      \* each flush: the rows it has selected and where it is
    fired,      \* history: times a row's effect succeeded (2 for more)
    torn,       \* history: flushes have overlapped, or one died with a success unrecorded
    mishaps     \* crashes and failed statements so far

outboxVars == <<rows, dlq, made, flush, fired, torn, mishaps>>

Ids == 1..MaxRows
Stored == {"pending", "done", "failed"}
Row(k, st, n) == [key |-> k, status |-> st, attempts |-> n]
Idle == [todo |-> {}, at |-> "idle"]

OutboxTypeOK ==
    /\ rows \in [Ids -> [key : Keys \cup {NoKey}, status : Stored \cup {"none", "gone"},
                         attempts : Nat]]
    /\ dlq \subseteq Ids
    /\ made \in 0..MaxRows
    /\ flush \in [Flushers -> [todo : SUBSET [id : Ids, attempts : Nat],
                               at : {"idle", "execute", "succeeded", "unrecorded", "failed"}]]
    /\ fired \in [Ids -> 0..2]
    /\ torn \in BOOLEAN
    /\ mishaps \in 0..MaxMishaps

OutboxInit ==
    /\ rows = [i \in Ids |-> Row(NoKey, "none", 0)]
    /\ dlq = {}
    /\ made = 0
    /\ flush = [f \in Flushers |-> Idle]
    /\ fired = [i \in Ids |-> 0]
    /\ torn = FALSE
    /\ mishaps = 0

Mishap == mishaps < MaxMishaps /\ mishaps' = mishaps + 1

-----------------------------------------------------------------------------
(* Producers.                                                              *)

Duplicated(k) == \E i \in Ids : rows[i].key = k /\ rows[i].status \in Stored

\* INSERT OR IGNORE: the key of a stored row, whatever its status, is taken.
Enqueue(k) ==
    IF k # NoKey /\ Duplicated(k)
    THEN UNCHANGED <<rows, made>>
    ELSE /\ made < MaxRows
         /\ made' = made + 1
         /\ rows' = [rows EXCEPT ![made + 1] = Row(k, "pending", 0)]

\* POST /api/outbox and the domain services, without a key.
Post ==
    /\ Enqueue(NoKey)
    /\ UNCHANGED <<dlq, flush, fired, torn, mishaps>>

-----------------------------------------------------------------------------
(* flushDue.                                                               *)

Pending == {i \in Ids : rows[i].status = "pending"}

\* mutant: the status is not in the WHERE clause
DueAnyStatus ==
    LET due == {i \in Ids : rows[i].status \in Stored}
    IN  {i \in due : Cardinality({j \in due : j < i}) < Limit}

\* mutant: the limit counts the rows before the status is looked at
DueLimitFirst == {i \in Pending : Cardinality({j \in Ids : rows[j].status \in Stored /\ j < i}) < Limit}

\* The oldest Limit pending rows.
Due == {i \in Pending : Cardinality({j \in Pending : j < i}) < Limit}

SelectDue(f) ==
    /\ flush[f].at = "idle"
    /\ Due # {}
    /\ flush' = [flush EXCEPT ![f] =
                   [todo |-> {[id |-> i, attempts |-> rows[i].attempts] : i \in Due},
                    at |-> "execute"]]
    /\ torn' = (torn \/ \E g \in Flushers : flush[g].at # "idle")
    /\ UNCHANGED <<rows, dlq, made, fired, mishaps>>

\* The row a flush is at: the oldest of those it has not finished.
IsHead(f, e) == e \in flush[f].todo /\ \A d \in flush[f].todo : e.id <= d.id

At(f, step) == flush' = [flush EXCEPT ![f] = [todo |-> @.todo, at |-> step]]

Advance(f, e) ==
    LET rest == flush[f].todo \ {e}
    IN  flush' = [flush EXCEPT ![f] =
                    [todo |-> rest, at |-> IF rest = {} THEN "idle" ELSE "execute"]]

\* The effect, a plugin, a hook or a webhook: it lands, or throws.
Execute(f) ==
    /\ flush[f].at = "execute"
    /\ \E e \in flush[f].todo :
         /\ IsHead(f, e)
         /\ \/ /\ At(f, "succeeded")
               /\ fired' = [fired EXCEPT ![e.id] = IF @ < 2 THEN @ + 1 ELSE 2]
            \/ At(f, "failed") /\ UNCHANGED fired
    /\ UNCHANGED <<rows, dlq, made, torn, mishaps>>

\* An UPDATE or DELETE by id only: of a row that is still there.
Written(i, st, n) ==
    IF rows[i].status \in Stored
    THEN [rows EXCEPT ![i] = Row(@.key, st, n)] ELSE rows

MarkDone(f) ==
    /\ flush[f].at = "succeeded"
    /\ \E e \in flush[f].todo :
         /\ IsHead(f, e)
         /\ rows' = Written(e.id, "done", rows[e.id].attempts)
         /\ Advance(f, e)
    /\ UNCHANGED <<dlq, made, fired, torn, mishaps>>

\* markDone is inside the try: when it throws the row is handled as a failure.
MarkDoneErrs(f) ==
    /\ flush[f].at = "succeeded"
    /\ At(f, "unrecorded")
    /\ Mishap
    /\ UNCHANGED <<rows, dlq, made, fired, torn>>

\* The catch: the attempt is counted, and the last one moves the row to the
\* dead letters.
MarkFailed(f) ==
    /\ flush[f].at \in {"failed", "unrecorded"}
    /\ \E e \in flush[f].todo :
         /\ IsHead(f, e)
         /\ IF e.attempts + 1 < MaxAttempts
            THEN rows' = Written(e.id, "failed", e.attempts + 1) /\ UNCHANGED dlq
            ELSE rows' = Written(e.id, "gone", e.attempts + 1) /\ dlq' = dlq \cup {e.id}
         /\ Advance(f, e)
    /\ UNCHANGED <<made, fired, torn, mishaps>>

\* The isolate dies, or a statement of the catch throws out of flushDue.
FlushDies(f) ==
    /\ flush[f].at # "idle"
    /\ flush' = [flush EXCEPT ![f] = Idle]
    /\ torn' = (torn \/ flush[f].at \in {"succeeded", "unrecorded"})
    /\ Mishap
    /\ UNCHANGED <<rows, dlq, made, fired>>

\* pruneDone, a day or more after the row was done: no flush has it any more.
PruneDone ==
    /\ \E i \in Ids :
         /\ rows[i].status = "done"
         /\ \A f \in Flushers : \A e \in flush[f].todo : e.id # i
         /\ rows' = [rows EXCEPT ![i] = Row(@.key, "gone", @.attempts)]
    /\ UNCHANGED <<dlq, made, flush, fired, torn, mishaps>>

FlushStep(f) ==
    SelectDue(f) \/ Execute(f) \/ MarkDone(f) \/ MarkDoneErrs(f) \/ MarkFailed(f) \/ FlushDies(f)

\* The steps of a flush that nothing disturbs.
FlushGoesOn(f) == SelectDue(f) \/ Execute(f) \/ MarkDone(f) \/ MarkFailed(f)

=============================================================================
