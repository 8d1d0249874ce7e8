-------------------------- MODULE WorkflowTriggers --------------------------
(***************************************************************************)
(* apps/api/src/plugins/workflow: the transitions of one document under    *)
(* one workflow definition, requested concurrently, and the side effects   *)
(* of those transitions, which go through the outbox (module Outbox).      *)
(*                                                                         *)
(* A transition is the pair of its states.  Keys, the dedupe keys of the   *)
(* outbox, are the transitions that trigger a plugin, one plugin each.     *)
(***************************************************************************)
EXTENDS Outbox, Sequences

CONSTANTS
    States, Initial,    \* of the definition
    Transitions,        \* pairs <<from, to>> of states
    NoState,            \* no row in _workflow_states
    StatusMap,          \* doc_status_map: a doc_status or NoStatus for each state
    NoStatus,
    StatusMoves,        \* isValidTransition, pairs of doc_status
    Requests,           \* requests of POST /:id/transition that may overlap
    MaxMoves            \* bound: requests in all

DocStatuses == {"draft", "submitted", "confirmed", "pending_review", "approved", "rejected", "cancelled"}

ASSUME WorkflowAssumption ==
    /\ Initial \in States
    /\ NoState \notin States
    /\ Transitions \subseteq States \X States
    /\ Keys \subseteq Transitions
    /\ StatusMap \in [States -> DocStatuses \cup {NoStatus}]
    /\ IsFiniteSet(Requests)
    /\ MaxMoves \in Nat

VARIABLES
    state,      \* the document's row of _workflow_states
    trail,      \* its rows of _workflow_history, in the order of insertion
    field,      \* the column state_field of the document
    doc,        \* its doc_status
    req,        \* each request: the transition it makes and where it is
    calls,      \* requests so far
    moved,      \* history: the transitions that were committed, in order
    logged,     \* history: no request has died between its commit and its row of history
    lost,       \* history: the transitions of which a request died after its commit
    neat        \* history: no requests have overlapped, died, or failed to sync

vars == <<outboxVars, state, trail, field, doc, req, calls, moved, logged, lost, neat>>

flowVars == <<state, trail, field, doc, req, calls, moved, logged, lost, neat>>

Steps == {"idle", "checked", "log", "status", "field", "trigger"}

TypeOK ==
    /\ OutboxTypeOK
    /\ state \in States \cup {NoState}
    /\ trail \in Seq(Transitions)
    /\ field \in States \cup {NoState}
    /\ doc \in DocStatuses
    /\ req \in [Requests -> [move : Transitions \cup {<<>>}, at : Steps]]
    /\ \A r \in Requests : req[r].at # "idle" => req[r].move \in Transitions
    /\ calls \in 0..MaxMoves
    /\ moved \in Seq(Transitions)
    /\ logged \in BOOLEAN
    /\ lost \subseteq Transitions
    /\ neat \in BOOLEAN

Init ==
    /\ OutboxInit
    /\ state = NoState
    /\ trail = <<>>
    /\ field = NoState
    /\ doc = "draft"
    /\ req = [r \in Requests |-> [move |-> <<>>, at |-> "idle"]]
    /\ calls = 0
    /\ moved = <<>>
    /\ logged = TRUE
    /\ lost = {}
    /\ neat = TRUE

-----------------------------------------------------------------------------
(* WorkflowEngine.transition, one action for each statement.               *)

\* The side table wins, else the initial state.
Current == IF state = NoState THEN Initial ELSE state

From(r) == req[r].move[1]
To(r) == req[r].move[2]

Goto(r, step) ==
    req' = [req EXCEPT ![r] = [move |-> IF step = "idle" THEN <<>> ELSE @.move, at |-> step]]

\* getState, and the transition is declared and leads to another state.
Begin(r) ==
    /\ req[r].at = "idle"
    /\ calls < MaxMoves
    /\ calls' = calls + 1
    /\ \E to \in States :
         /\ to # Current /\ <<Current, to>> \in Transitions
         /\ req' = [req EXCEPT ![r] = [move |-> <<Current, to>>, at |-> "checked"]]
    /\ neat' = (neat /\ \A q \in Requests : req[q].at = "idle")
    /\ UNCHANGED <<outboxVars, state, trail, field, doc, moved, logged, lost>>

\* The guard, the roles, the row filter or a hook says no.
Refuse(r) ==
    /\ req[r].at = "checked"
    /\ Goto(r, "idle")
    /\ UNCHANGED <<outboxVars, state, trail, field, doc, calls, moved, logged, lost, neat>>

\* mutant: the UPDATE does not name the state it moves from
CommitBlind(r) ==
    /\ req[r].at = "checked"
    /\ state' = To(r)
    /\ moved' = Append(moved, req[r].move)
    /\ Goto(r, "log")
    /\ UNCHANGED <<outboxVars, trail, field, doc, calls, logged, lost, neat>>

\* transitionState: INSERT, or UPDATE where the state is still the one read.
Commit(r) ==
    /\ req[r].at = "checked"
    /\ state \in {NoState, From(r)}
    /\ state' = To(r)
    /\ moved' = Append(moved, req[r].move)
    /\ Goto(r, "log")
    /\ UNCHANGED <<outboxVars, trail, field, doc, calls, logged, lost, neat>>

\* mutant: the result of transitionState is ignored
ConflictIgnored(r) ==
    /\ req[r].at = "checked"
    /\ state \notin {NoState, From(r)}
    /\ Goto(r, "log")
    /\ UNCHANGED <<outboxVars, state, trail, field, doc, calls, moved, logged, lost, neat>>

\* It changed nothing: 409.
Conflict(r) ==
    /\ req[r].at = "checked"
    /\ state \notin {NoState, From(r)}
    /\ Goto(r, "idle")
    /\ UNCHANGED <<outboxVars, state, trail, field, doc, calls, moved, logged, lost, neat>>

LogHistory(r) ==
    /\ req[r].at = "log"
    /\ trail' = Append(trail, req[r].move)
    /\ Goto(r, "status")
    /\ UNCHANGED <<outboxVars, state, field, doc, calls, moved, logged, lost, neat>>

Mapped(s) == StatusMap[s] # NoStatus

\* updateItem with the mapped doc_status; a move its own machine refuses is a
\* warning.  (What can happen inside updateItem is module EntityWrites.)
SyncStatus(r) ==
    /\ req[r].at = "status"
    /\ doc' = IF Mapped(To(r)) /\ <<doc, StatusMap[To(r)]>> \in StatusMoves
              THEN StatusMap[To(r)] ELSE doc
    /\ Goto(r, "field")
    /\ UNCHANGED <<outboxVars, state, trail, field, calls, moved, logged, lost, neat>>

\* mutant: the state the transition left is mirrored
SyncFieldLate(r) ==
    /\ req[r].at = "field"
    /\ field' = From(r)
    /\ Goto(r, "trigger")
    /\ UNCHANGED <<outboxVars, state, trail, doc, calls, moved, logged, lost, neat>>

\* updateItem with the state_field.
SyncField(r) ==
    /\ req[r].at = "field"
    /\ field' = To(r)
    /\ Goto(r, "trigger")
    /\ UNCHANGED <<outboxVars, state, trail, doc, calls, moved, logged, lost, neat>>

\* mutant: an update that throws ends the request
SyncErrsFatal(r) ==
    /\ req[r].at \in {"status", "field"}
    /\ Goto(r, "idle")
    /\ neat' = FALSE
    /\ Mishap
    /\ UNCHANGED <<rows, dlq, made, flush, fired, torn, state, trail, field, doc, calls, moved, logged, lost>>

\* Either update throws: a warning, and the next step.
SyncErrs(r) ==
    /\ req[r].at \in {"status", "field"}
    /\ Goto(r, IF req[r].at = "status" THEN "field" ELSE "trigger")
    /\ neat' = FALSE
    /\ Mishap
    /\ UNCHANGED <<rows, dlq, made, flush, fired, torn, state, trail, field, doc, calls, moved, logged, lost>>

\* enqueueTriggerPlugins.
Trigger(r) ==
    /\ req[r].at = "trigger"
    /\ IF req[r].move \in Keys THEN Enqueue(req[r].move) ELSE UNCHANGED <<rows, made>>
    /\ Goto(r, "idle")
    /\ UNCHANGED <<dlq, flush, fired, torn, mishaps, state, trail, field, doc, calls, moved, logged, lost, neat>>

\* The isolate dies; or logHistory throws, or enqueue does, which is only logged.
Die(r) ==
    /\ req[r].at \notin {"idle", "checked"}
    /\ Goto(r, "idle")
    /\ logged' = (logged /\ req[r].at # "log")
    /\ lost' = lost \cup {req[r].move}
    /\ neat' = FALSE
    /\ Mishap
    /\ UNCHANGED <<rows, dlq, made, flush, fired, torn, state, trail, field, doc, calls, moved>>

-----------------------------------------------------------------------------

RequestStep(r) ==
    \/ Begin(r) \/ Refuse(r) \/ Commit(r) \/ Conflict(r) \/ LogHistory(r)
    \/ SyncStatus(r) \/ SyncField(r) \/ SyncErrs(r) \/ Trigger(r) \/ Die(r)

Next ==
    \/ Post /\ UNCHANGED flowVars
    \/ PruneDone /\ UNCHANGED flowVars
    \/ \E f \in Flushers : FlushStep(f) /\ UNCHANGED flowVars
    \/ \E r \in Requests : RequestStep(r)

Spec == Init /\ [][Next]_vars

\* The cron trigger comes round, and a flush goes on as long as it lives.
FairSpec == Spec /\ \A f \in Flushers : WF_vars(FlushGoesOn(f) /\ UNCHANGED flowVars)

-----------------------------------------------------------------------------
(* Properties.                                                             *)

\* The document only ever moves along declared transitions, each from the state
\* the one before it led to, however many requests decided on an earlier state
\* ("two requests can never double-move a document", workflows-marketplace.md:75-76;
\* engine.ts:181-187).
MovesFormAPath ==
    /\ \A i \in 1..Len(moved) : moved[i][1] = IF i = 1 THEN Initial ELSE moved[i - 1][2]
    /\ Current = IF moved = <<>> THEN Initial ELSE moved[Len(moved)][2]

Count(seq, t) == Cardinality({i \in 1..Len(seq) : seq[i] = t})

\* Every move is in the history once, and nothing else is, when no request is
\* between its commit and its row of history, as long as none died there
\* ("Every move is recorded", workflows-marketplace.md:77).
EveryMoveIsRecorded ==
    logged /\ (\A r \in Requests : req[r].at # "log") =>
      \A t \in Transitions : Count(trail, t) = Count(moved, t)

\* At rest the mirrors agree with the workflow's state, as long as requests did
\* not overlap, die or fail to sync: the state_field with the state, the doc_status
\* with what it maps to (engine.ts:205-229).
MirrorsFollow ==
    neat /\ (\A r \in Requests : req[r].at = "idle") =>
      /\ field = state
      /\ state # NoState /\ Mapped(state) => doc = StatusMap[state]

EachRowFiresOnce == \A i \in Ids : fired[i] <= 1

\* However often a transition is retried, lost to a rival or made again, its
\* effect lands no more often than it was committed, and once for each row of the
\* outbox, until flushes overlap or a success is not recorded ("a retried
\* transition can never fire the same side-effect twice", engine.ts:234-235).
EffectsFollowMoves ==
    ~torn =>
      /\ EachRowFiresOnce
      /\ \A t \in Keys : Cardinality({i \in Ids : rows[i].key = t /\ fired[i] > 0}) <= Count(moved, t)

\* Every transition that was committed has its effect queued, now or on an earlier
\* passage, or its request is on the way there, whether its mirrors could be synced or
\* not and whichever other rows are stored, unless one of its requests died after the
\* commit (the comment, engine.ts:227-228, would have it "durable" for these too).
EffectsAreQueued ==
    \A t \in Keys \ lost :
      Count(moved, t) > 0 =>
        \/ \E i \in Ids : rows[i].key = t
        \/ \E r \in Requests : req[r].move = t /\ req[r].at \in {"log", "status", "field", "trigger"}

\* No row waits for ever, also behind older rows that fail each time.
EveryRowIsTried ==
    \A i \in Ids : rows[i].status = "pending" ~> rows[i].status # "pending"

\* A failed row with attempts left is tried again ("A scheduled flush retries them
\* with exponential backoff", outbox/service.ts:5-7).
FailuresAreRetried ==
    \A i \in Ids :
      rows[i].status = "failed" /\ rows[i].attempts < MaxAttempts ~> rows[i].status # "failed"

=============================================================================
