# A verification of headless-erp

TLA+ models of the parts of headless-erp that keep shared state: what each part keeps, how
requests, queues, alarms, flushes and crashes interleave over it, which properties make it
correct, and which of them are proved. Modules are checked with TLC and proved with TLAPS.

The API is a Cloudflare Worker. Requests run concurrently in isolates that may be stopped
between any two awaits; they share a D1 (SQLite) database in which a statement, or a batch, is
atomic and nothing larger is. Durable Objects process one event at a time but let other events in
at every await on something outside their storage. A cron trigger starts work of its own. Nearly
every component is therefore a sequence "read, decide, await, write", and what can go wrong is
what happens between the read and the write. The models have one action for each such stretch
that nothing else can interleave with.

## 1. Inventory

| Component | State | Operations | Talks to | Hard behaviour | What makes it correct |
|---|---|---|---|---|---|
| Entity writes (`ItemMutationService`, `routes/entities.ts`) | a row per record: columns, `_meta`, stored formulas, stage, `doc_status`, `updated_at`, `deleted_at` | create, PUT (with `If-Match`), delete to trash, restore, purge, post a document | naming, formulas, status machines, hooks, caches | every check runs on a row read many awaits before the UPDATE, which names only the id | no lost update, formulas follow the columns, status moves along its table, posted documents are frozen |
| Document numbers (`NamingService`) | `_naming_series` claims, `display_number` of the documents | next number, claim | entity create | read, claim, insert are three steps; claims are never released; order of texts | numbers unique and without gap under one series, no refusal without a cause |
| Task scheduler (`packages/scheduler`) | a row per task, one Durable Object alarm each | schedule, cancel, retry, runNow, alarm, reconcile (cron), prune | handlers, outbox-like consumers | runs overlap at awaits, alarm and row are two writes, evictions, lost arm requests | alarm is the next run, one-shot tasks succeed once, due tasks run, cancelled tasks stay so |
| Idempotency keys (`packages/idempotency`, middleware) | `_idempotency_keys` | run, pruneExpired | every POST/PUT/DELETE with a key | SELECT-then-UPDATE takeovers, stale claims, crashes, failed UPDATE of a success | the operation lands once, only what landed is replayed, a crash does not block the key |
| Offline queue (`packages/sdk`) | stored queue, token | write, enqueue, flush, self-heal on 401 | idempotency middleware | lost answers, late requests, overlapping flushes, closed tabs, token rotation | a queued write is not lost and not applied twice |
| Approval workflow (`WorkflowApprovalService`) | `_approvals` slots, `doc_status` | submit, approve, reject | entity PUTs of `doc_status` | slots one by one, check and UPDATE apart, count and `_setStatus` apart | every level, in order, by its role |
| Workflow engine (`plugins/workflow`) | `_workflow_states`, `_workflow_history`, mirrors in the document | transition, bulk transition, define, remove | entity writes, outbox | guard on an old state, five statements after the commit | moves form a path, each recorded, mirrors follow |
| Outbox (`plugins/outbox`) | `_outbox`, `_outbox_dlq` | enqueue, flushDue (cron), pruneDone, retryDlq | workflow engine, marketplace plugins, webhooks | rows selected without a claim, overlapping flushes, failing effects | an effect lands once, no row is forgotten |
| Locks (`packages/locks`) | a row per lock in its Durable Object | acquire, release, renew, withLock | any caller, HTTP | renewal races the end of the lease, late and lost messages | mutual exclusion, a dead holder's lock becomes free |
| Event bus (`packages/events`, `queue()`) | `_event_subscribers`, `_event_deliveries` claims, the queue's messages | publish, subscribe, unsubscribe, consume, prune | Queues, scheduler handlers, webhooks | claim before delivery, redelivered batches, overlapping invocations, errors that end a batch | a delivery in one hand, each subscriber gets each event once per claim, every message leaves |
| Child tables, replayed creates | child rows of a document | create, replace, replay | entity create | children inserted after the parent, one by one | a replayed create is complete and adds nothing twice |
| References, cascades, parent formulas | foreign keys, stored formulas of parents | delete, recalculate | entity writes | check and delete apart, read-compute-write | no dangling reference, formulas follow children |
| Quotas and rate limits | a counter per window | consume | middleware | denied consumption counts, clock skew, fail-open | no more than the limit passes |
| Read caches, authorization version | cached reads, answers and rows per isolate, newest `updated_at` as their stamp | read, fill, invalidate, set a permission, provision | every read | a fill that started before an invalidation, a stamp that falls back, lives that add up | a stale answer has a bound and a cause |
| Webhooks | queue messages, list cache | enqueue, deliver | Queues, HTTP | attempts inside deliveries, swallowed sends | at least one delivery |
| Level approvals plugin, authentication and roles, queries, schema and modules, expressions, flags, GDPR, jobs, media, Studio, CLI | see `PROJECT.json` | | | reads, single statements, pure functions, administration, user interface | |

`PROJECT.json` lists every component with its sources and status, every hazard with its line, and
the map from definitions to lines.

## 2. Modules

| Module | What it is |
|---|---|
| `EntityStore` | abstract record: one atomic change per request |
| `EntityWrites`, `MCEntityWrites`, `EntityWrites_proofs` | concurrent requests on one record; implements `EntityStore` |
| `Naming`, `MCNaming` | concurrent creates under one numbering series |
| `Scheduler`, `Scheduler_proofs` | one task: row, alarm, runs, calls, watchdog |
| `Idempotency`, `Idempotency_proofs` | calls with idempotency keys |
| `OfflineWrites`, `MCOfflineWrites`, `OfflineWrites_proofs` | SDK clients composed with `Idempotency` |
| `Approval` | abstract approval: a review answered level by level |
| `ApprovalRounds`, `MCApprovalRounds` | one document's approval rounds; implements `Approval` |
| `Outbox` | outbox rows, producers and flushes |
| `WorkflowTriggers`, `MCWorkflowTriggers`, `WorkflowTriggers_proofs` | one document's workflow composed with `Outbox` |
| `Locks` | one lock |
| `EventBus` | events of one topic, subscribers, overlapping consumers and the queue |
| `Leases_proofs` | the proofs about `Locks` and `EventBus`, in which a lease ends under its holder |
| `Families`, `MCFamilies` | parents with child rows, their stored formulas and cached reads |
| `Authz`, `MCAuthz` | one permission, its writers and the caches of one isolate |
| `Items_proofs` | the proofs about `Naming` and `Families`, both of `ItemMutationService` |
| `Authority_proofs` | the proofs about `ApprovalRounds`, with its refinement of `Approval`, and `Authz`, which say who may do what |

Each model has variables for the state of the code, a program counter per process, and a few
history variables that nothing reads but the properties: `calm`, `single`, `prompt`, `alone`,
`late`, `amiss`, `erred`, `torn`, `neat`, `logged`, `byHand`, and sets (`exposed`, `overwritten`, `aborted`,
`broken`, `behind`, `stale`, `lost`) of what the condition was lost for. They state the condition under which a
property is claimed (for example `calm`: no two requests overlapped so far), and become FALSE, or
TRUE, once and for all at the step that ends the condition; `byHand` follows the last move of
`doc_status`, and `exposed` is emptied when its flush ends. Operators marked `mutant:` are
plausible errors of the definition that follows; each property is shown to fail under one.

**Entity writes.** `Load` is the client's read that yields its `If-Match`; `Check` reads the row and
does every check of `updateItem`/`deleteItem`/... on that snapshot; `Stamp` takes `updated_at`; `Put`,
`SoftDelete`, `Restore`, `HardDelete` are the writes, by id only, of what was computed from the snapshot; `Abort` is any other
error; `Post` is a document posted by another path. `EntityStore` has the same operations in one
step each. `_meta` (virtual fields) is written whole, columns one by one, as in the code. Relations,
hooks, events and caches are left out.

**Naming.** `Read` is the newest number by `ORDER BY display_number`, that is by text, so `Number`
is a value with the length of its padded text; `Claim` the `INSERT OR IGNORE`; `ClaimErrs` and
`ClaimReplyLost` the error path with its last attempt; `Insert`, `Fail` the document's; `Purge`
removes the highest; `SetSeries` changes the width.

**Scheduler.** Time is relative: every deadline is what remains until it, in ticks. Actions are the awaits of `runTask` (`Read`, `Handle`, `Write`, `Arm`),
the calls, the watchdog's `Reconcile` and arms, `Crash` and lost requests.

**Idempotency** and **OfflineWrites.** The statements of `run`; the second module has the client in
front: requests sent, lost, answered, queued, flushed. Its server actions are those of `Idempotency`
(INSTANCE), with keys a pair of write and token; the middleware's operation always returns a response, so
its `Void` is empty. `Flush` takes a snapshot, `Replayed` and `Unanswered` end the replay of an item and, at
the last one, store what the flush kept over whatever the queue is by then; any number of flushes run at
once. `exposed[f]` has the writes queued while `f` was under way, `overwritten` those of them that `f` stored
over: the one way a queued write is lost. An answer is one of a set each time it is looked at, so in the run
`4xx` and `503` stand for 429 (handled like the one or the other) and for 500.

**ApprovalRounds.** Slots are named by the submit that inserted them and their level; the amounts of a
document are the set of levels they select. `Approval` has the review a reader of `workflow.service.ts`
has in mind: the levels still open, the approvals of the last round, the status, and one step for a submit, an
approve, a reject and a PUT. The code takes several. Under the mapping (`OpenLevels`, `Status`,
`Signatures`) the step of an approve is the UPDATE of its slot (`Mark`), the last one's included although the
document follows with `_setStatus`; that of a reject is the UPDATE that closes all pending slots (`CloseAll`);
that of a submit is `Clear`, which makes its levels the open ones, or the first read when no level applies;
everything else stutters. `ApprovalSpec` claims it of every step as long as no two calls have overlapped and
none has died (`calm`), since the code does not keep the promise after that.

`Put` is `updateItem` with a `doc_status`: it takes every transition of `VALID_TRANSITIONS`, looks at no slot
and leaves the pending ones pending. `routes/entities.ts:233-238` sends a PUT of one record to `submitted` to
`submit` instead, on a collection with a workflow; PUTs to any other status, bulk writes and the action route
reach `updateItem`. Its check and its UPDATE are one step: anything between them ends `calm`. So a PUT may put
a document under review without a slot, approve one past its levels, or cancel and reopen one under review.
`byHand` says that the status is such a PUT's; the properties are about the moves of `submit`, `approve`
and `reject`, and the refinement has the PUTs as steps of `Approval`.

**WorkflowTriggers** and **Outbox.** One action per statement of `transition` (`Begin`, `Refuse`,
`Commit`, `Conflict`, `LogHistory`, `SyncStatus`, `SyncField`, `SyncErrs`, `Trigger`, `Die`) and of
`flushDue` (`SelectDue`, `Execute`, `MarkDone`, `MarkDoneErrs`, `MarkFailed`, `FlushDies`). A
transition triggers at most one plugin, and the dedupe key is the transition. No time: no producer
delays a row and only rows without an attempt are selected, so a pending row is due. `POST
/api/outbox` is modelled without a dedupe key of its own.

**EventBus.** `publish`, `subscribe`, `unsubscribe` are the interface. An invocation of `queue()` is a
process: `Select` is the SELECT of the subscribers, `Claim` the `INSERT OR IGNORE`, `DeliverTaken` and
`DeliverThrows` the await of `deliver`, `Record` the UPDATE, `Release` the DELETE of the catch block
with the rethrown error, `Return` the end of `queue()`, which returns whatever happened.
`StatementFails` is any of these statements that throws, `Kill` the end of the isolate. `Receive` and
`LeaseEnds` are the queue: a message is leased for a time and comes again when the lease ends first,
also under an invocation that still works on it. What an event's subscribers have got is history
(`due`, `received`): a subscriber that answers with an error may have taken the event or not.

**Families.** The response cache is a Map of one isolate (`cache-layer.ts:272-283`). `cache` is that of one
isolate, with the reads it serves; `Here` are the writers it serves too. `Drop` reaches the Map only for a
writer in `Here`; when a write of another isolate is stored, the cached read of its parent joins `stale`, since
nothing but its TTL ends it. A stored formula is represented by the set of live children and amounts it was computed
over, so that a wrong sum is a wrong set. The handlers of a child (`createChild`, `updateChild`,
`softDeleteChild`, `restoreChild`, `hardDeleteChild`) go on to `Locate` (the parent, from the snapshot or the row), `Sum`,
`Store` and `Drop` (the cached reads), which are `recalcAffectedParents`; the parent's own are `Lookup`, `insertParent`, `createChildren`,
`LoadParent`, `updateParent`, `replaceChildren` and then the same `Sum` and `Store`. `readCached` and
`storeCached` are the miss of `getItem` and its late fill. A formula over an o2m and one over a
table field behave alike here.

**Authz.** `checkBusiness`, `authzVersion` (the stamp has come) and `Fill` (the row has) are the awaits of a
permission check; `LookUp`, `Delete`, `Create`, `Commit`, `Conflict`, `LookUpAgain`, `DropAfterSet` those of
`setPermission`; `Provision`, `InsertRow`, `HealRow`, `DropAfterProvision` those of the provisioner. A write may be this
isolate's or another's, which the last step of each decides: only this one's caches are there. A
text is represented by the point in time it names, the SQL default `CURRENT_TIMESTAMP` by the least
one, since its text sorts before every ISO text of the day.

**Locks.** `DoAcquire`, `DoRelease`, `DoRenew` are the Durable Object's requests; the caller polls until
its deadline, runs, and renews from a timer.

## 3. Runs

Distinct states are those of the run; "bound" names what makes it finite and why it suffices.

| Run | Shows | Bounds | States |
|---|---|---|---|
| `entity` | `StaleLoadIsRefused` with overlap; `StoreSpec` (the formula, the stage and the freeze included) without | 2 requests, 2 columns, 1 virtual field, values 0/1: every overlap of a request with each kind of write | 1.03 M |
| `naming` | `UniqueInSeries`, `NoGaps`, `RefusedForCause` | 3 creates, radix 2, so width 2 is full after the third number; one abandoned claim needs one create, its victim a second, a rival a third | 1.88 M |
| `scheduler` | `AlarmIsNextRun`, `OneShotRunsOnce`, `OverIsOver`, `DueTaskRuns` | one alarm, one manual run, one API call at a time, budget 2, delays up to 1 tick; a crash is taken only within the budget | 325 k |
| `idempotency` | `OneAtATime`, `ValuesLanded`, `LandsOnce`, `ClaimsAreResolved` | 3 calls (owner, taker-over, rival), 1 key (keys do not interact), lease 1, retention 2 | 252 k |
| `offline` | `NothingVanishes`, `NeverAppliedTwice`, `ReplayedIsAccounted` | 2 writes (one guarded), 2 tokens, 3 requests, 2 overlapping flushes that may be cut off: both may end over a snapshot of one write, or of one and of two, the second queued meanwhile; over two snapshots of two only one ends, and any number is proved; all within the lease of a key | 1.63 M |
| `approvals` | `CalmlyApproved`, `NeverStuck`, `ApprovalSpec` until calls overlap; `RoleRespected`, `LevelsInOrder` always | 4 calls: two rounds of submit and decision; 2 levels, of which none or both apply; PUTs along every transition at any time; `VIEW` hides what a call that is over had in its variables | 415 k |
| `workflow` | `MovesFormAPath`, `EveryMoveIsRecorded`, `MirrorsFollow`, `EffectsFollowMoves`, `EffectsAreQueued`, `EveryRowIsTried` | 2 requests at a time, 3 in all: round the cycle and a rival; 2 rows, flush of 1, so one row waits; 1 mishap; a request that would store a third row waits | 267 k |
| `locks` | `MutualExclusion`, `LiveLeaseIsKept`, `LeaseOfTheGoneRunsOut` | 2 callers with renewer, 1 over HTTP, lease 3 ticks, renewal every tick | 76 k |
| `events` | `OneDeliverer`, `TakenOnce`, `NothingMissedInSilence`, `EveryMessageLeaves` | 1 event, 2 subscriptions, 2 invocations, 1 retry, 2 mishaps: overlap, redelivery, a claim left behind and its consequence; events do not interact but in one batch, and batches of 2 (918 k states) and 2 x 2 x 1 were checked by hand | 72 k |
| `events_retried` | violation of `FailedDeliveryIsRetried` | as `events` | |
| `families` | `TotalsAddUp`, `CachedReadIsCurrent`, `CreatesAreWhole` | 2 parents, so a child can move; 2 children, 3 writers, of which the cache's isolate serves 2, 1 reader, 3 requests: a replay beside its first request and a third | 3.21 M |
| `authz` | `AnswersAgeOut`, `RaisedStampRetires`, `OwnWriteIsSeen` | 2 actions that share a row, 2 checks, 1 administrator, 1 provisioner, lives of 0 and 1 ticks, 3 ticks, 2 writes; with 1 check, lives 1 and 2 and 5 ticks (1.47 M states) it passes by hand | 1.92 M |

The type invariant (`TypeOK`, `BusTypeOK`, `FamilyTypeOK`, `AuthzTypeOK`) is proved for every module that keeps
state of the code, so no run spends time on it. Deadlock is not checked where a process that has ended
its call stops, as it does in the code.

**Fairness.** `Scheduler`: time passes and an armed alarm fires (Durable Object alarms are
at-least-once), an await that nothing kills returns, the cron trigger comes round; strong fairness
of the alarm's read and of the watchdog's arm says that not every firing is evicted and not every
request is lost. `Idempotency`: time passes, an operation that is not killed settles, a caller
without a result comes back. `Locks`: messages that are not lost arrive, timers run, bodies settle.
`WorkflowTriggers`: the undisturbed steps of a flush, that is, the cron trigger comes round every
ten minutes; crashes are bounded by `MaxMishaps`, requests get no fairness. `EventBus`: an invocation that is not
killed goes on with its work, the queue hands ready messages to some idle invocation, and the lease of a message
that no invocation holds ends; that the lease of one at work ends has no fairness. The other modules have safety only.

### Violation

- `events_retried`: a delivery that throws deletes its claim and rethrows, and `queue()` catches the
  error, logs it and returns, so the batch is acknowledged: the retries with backoff and the dead
  letters that `packages/events/src/service.ts` and `docs/backend-plugins/events.md` describe do not
  happen, and what follows in the batch is acknowledged unseen.

### Configurations to run by hand

Six configurations state what a document or comment says and the code does not do. They are kept
beside the modules; each ends with a counterexample (`tlc -config X.cfg M`).

| Configuration | Property | What the code does |
|---|---|---|
| `MCEntityWrites_clobber.cfg` | `NoClobber` | `If-Match` is compared with the row read at the start, the UPDATE (`collection-mutation.service.ts:653`) does not repeat the comparison: two PUTs with the same version both succeed |
| `Scheduler_cancel.cfg` | `CancelIsKept` | a recurring task cancelled while its handler runs is set back to pending by the run's UPDATE (`packages/scheduler/src/service.ts:382`) |
| `MCApprovalRounds_levels.cfg` | `ApprovedByAllLevels` | an approve that overlaps a reject or a second submit approves a document whose levels were not all approved (`workflow.service.ts:137`) |
| `MCWorkflowTriggers_retried.cfg` | `FailuresAreRetried` | a row that failed once has status `failed` and `flushDue` selects `pending` only (`outbox/service.ts:98`): no backoff, no retries, no dead letters |
| `MCFamilies_pooled.cfg` | `CreatedChildIsCounted` | two children created at once, as the bulk import does (`routes/entities.ts:120-132`), may leave one out of their parent's sum: the older sum is stored last. `utils/pool.ts:10-12` and `docs/backend-plugins/computed-fields.md:50-56` say that it counts every child |
| `MCAuthz_second.cfg` | `StaleForASecond` | a row inserted or healed by the provisioner does not raise the stamp, so other isolates keep their old answers for their whole life, not for the second that `authz-version.ts:13-18` names |

### Limits met without a run of their own

- Entity: with overlapping requests the formula, the stage and the freeze can all be violated, and
  two writes in one millisecond defeat `If-Match`; the properties say so by their conditions.
- Naming: a claim whose create failed, or whose document was purged as the highest, is never
  released, and every later create of the series is refused, for good. `RefusedForCause` counts it
  among the causes. Past the width, or after the width changed, the order of texts finds the wrong
  last number. After an error of the claim's statements a number may be used that was not claimed.
- Idempotency: a takeover leaves `created_at`, so that a third caller takes over at once; a success
  whose UPDATE throws is treated as a failure; a `done` row without a value is a conflict until
  it is pruned.
- Offline: a 409 while the key is in progress counts as replayed, also when the request that claimed
  it died before its handler ran; a write queued during a flush is overwritten when that flush stores; another token is
  another key; items after a failing one are still sent.
- Approvals: a call that dies between slot and status, or an overlap, may leave a document under
  review with nothing pending. A PUT of `doc_status` moves the document past the workflow, without any
  overlap: put under review it has no slot, and only a reject or another PUT gets it out; approved it
  has asked no level; cancelled it keeps its pending slots until the next submit that opens some.
- Workflow: a crash between commit and enqueue loses the side effect, although `engine.ts:234-235`
  says it cannot; a second passage through a transition fires nothing while the row of the first is
  stored, and for ever if that one failed, since only `done` rows are pruned.
- Events: an invocation that dies between claim and delivery leaves the claim, and every redelivery
  skips that subscriber; a batch broken off by one error loses the rest of its messages.
- Families: a child that a PUT moves to another parent leaves the sum of the first as it was, also
  without any concurrency (a comment at `collection-mutation.service.ts:685-690` leaves the repair to
  plugins); a replayed create answers with success while, or after, its first attempt has not
  inserted all child rows; a PUT of the parent that computed its formula before a child was written
  stores it after. A read cached in one isolate outlives a write that another one serves, until its TTL.
- Authz: deleting the newest row lowers the stamp to a value under which old answers are cached; a
  row that is cached already is cached in a new answer, so two lives add up; a check in progress
  stores what it read before the write.
- Locks: with a `ttlMs` of 1000 or less the renewer's interval is no shorter than the lease.

## 4. Proofs

TLAPS checks every theorem for all values of the constants, from the named assumptions of the
modules (`NamingAssumption`, ...), which say only what kind of value each constant is. The type
invariant is `TypeCorrect` in each `*_proofs` module (`BusTypeCorrect`, `FamilyTypeInvariant` and
`AuthzTypeInvariant` for the second module where there are two), and:

| Theorem | Says | Inductive invariant |
|---|---|---|
| `EntityWrites!ColumnsSurvive` | a PUT changes only the columns it names | none needed: an action property |
| `IfMatchSeesEveryWrite` | `[]StaleLoadIsRefused`, if stamps are distinct | `StampInv`: stamps are bounded by the clock, pending ones fresh, and equal stamps mean equal versions |
| `WritesImplementStore` | without overlap the requests refine `EntityStore` | `SerialInv`: until an overlap, the snapshot of a checked request is the row and the record follows |
| `FormulaIsCurrent`, `StageIsLegal`, `FrozenIsKept` | the record's own rules (`FormulaFollowsRow`, `StageMovesLegally`, `FrozenIsImmutable`), which no run checks beside `StoreSpec`: they follow from it | `SerialInv` |
| `NumbersAreUniqueInSeries` | `[]UniqueInSeries` | `NamingInv`: a used number is claimed and a claim has one holder, but for those let through after an error |
| `NumbersHaveNoGaps` | `[]NoGaps` | `GapsInv`: a number about to be inserted is the first, or follows one that is there and stays |
| `RefusalsHaveACause` | `RefusedForCause` | `AloneInv`: the number a lone create has read is no document's, unless numbers of several lengths are mixed |
| `OneShotSucceedsOnce` | `OneShotRunsOnce` | `Single`: one run at a time, a run is owed a success, and once answered the task is over |
| `AlarmIsKept` | `[]AlarmIsNextRun` | `AlarmInv`: the one process under way knows the alarm the task needs, or leaves one that is right |
| `OverStaysOver` | `OverIsOver` | `AlarmInv`: a run under way without overlap has the row it read before it, so it does not write over a task that is over |
| `OwnersExclude`, `OperationLandsOnce` | `[]OneAtATime`, `LandsOnce` | `Exclusion`: the owner is the only one and the row says processing; once landed nobody is about to run |
| `ValuesHaveLanded` | `[]ValuesLanded` | `Landed` |
| `ServerImplementsIdempotency` | `OfflineWrites!Spec` implements `Idempotency!Spec` | step by step: a client's step stutters |
| `WritesLandOnce` | `NeverAppliedTwice` | `Belongs` (whose requests hold which key) with the theorems of `Idempotency` |
| `QueuedStaysQueued` | `[]NothingVanishes` | `Kept`: a queued write that is not `overwritten` is in the stored queue, and in what each flush under way will store unless it was queued during that flush |
| `ReplaysAreAccounted` | `[]ReplayedIsAccounted` | `ReplayInv`: a request that got past its claim, or was turned away by one, leaves a trace at its key (`TakenUp`: landed, processing, or an answered error), and what a flush waits for is a request of its item (`Told`) |
| `RolesAreRespected`, `LevelsAreInOrder` | `[]RoleRespected`, `[]LevelsInOrder` | `ApprovalInv`: the target of an approve was checked, slots are inserted in order, below a target all is decided |
| `DocStatusMovesLegally` | `DocMovesLegally` | `DocInv`: the call under way knows the document's status |
| `CalmRoundsAreWhole`, `RoundsCanBeDecided` | `[]CalmlyApproved`, `[]NeverStuck` | `RoundInv`: without overlap every pending slot is of the last round, and what a call has inserted, decided and still to set is what its round lacks |
| `ReviewsAreImplemented` | `ApprovalSpec` | `DocInv` and `RoundInv`: without overlap the call under way knows the document's status, its levels and its slot, and each step reads as one of `Approval` or as none |
| `MovesAreAPath` | `[]MovesFormAPath` | `PathInv`: also that while nothing is committed every checked request decided on the initial state |
| `MirrorsAgree` | `[]MirrorsFollow`, if `MapIsFollowed` | `MirrorInv`: where the only request is, and what it has not mirrored yet |
| `EffectsLandOnce`, `NothingIsDeadLettered` | an outbox row's effect lands at most once; the dead letters stay empty | `FiredInv`: one flush works, what it has selected and not reached has not fired, rows with an attempt are not pending |
| `HistoryIsComplete`, `EffectsNeverExceedMoves` | `[]EveryMoveIsRecorded`, `[]EffectsFollowMoves` | `CountInv`: a move is in the history or its request is about to write it; rows of a transition and requests past its commit are together no more than its moves |
| `EffectsReachTheOutbox` | `[]EffectsAreQueued` | `QueuedInv`: a committed transition of which no request died has a row, or had one, or a request past its commit; ids not given out have no key |
| `OneDelivererAlways` | `[]OneDeliverer` | `BusInv`: what an invocation has in hand fits where it is and is of its batch; with it `OneDeliverer` is inductive over the kinds of steps of one delivery (`EveryDeliveryStep`) |
| `TakenOnceAlways` | `[]TakenOnce` | `TakenInv`: before a delivery nothing was received under its claim, and a claim is missing after a success only for a message that is over and in no batch (pruned) |
| `NothingMissedAlways` | `[]NothingMissedInSilence` | `MissedInv`: for a message of a batch not broken off, each due subscriber is still ahead of the invocation or claimed, and a claim stands for a delivery made or in hand |
| `MutualExclusionHolds` | `[]MutualExclusion`, if `Timely` | `LeaseInv`: until something is late, who runs has a lease that outlasts its next renewal |
| `LiveLeasesAreKept` | `LiveLeaseIsKept` | types only: an action property |
| `TotalsAddUpInvariant` | `[]TotalsAddUp` | with `FamilyInv` (requests and rows have the shape their step needs) inductive as it stands: it names the requests that still owe a parent its sum, and the parents nobody owes it |
| `CachedReadIsCurrentInvariant` | `[]CachedReadIsCurrent` | `CachedInv`: the same over all parents, with the requests of this isolate that still owe a drop and the parents in `stale` |
| `CreatesAreWholeInvariant` | `[]CreatesAreWhole` | `WholeInv`: one create is at the rows of a parent at most, and what it has inserted and what is left make `NumLines` |
| `AnswersAgeOutInvariant` | `[]AnswersAgeOut` | `AgeInv`: a cached row is no older than what it says was true, a cached answer by one more life |
| `RaisedStampRetiresInvariant` | `[]RaisedStampRetires` | `StampInv`: under the greatest stamp nothing is kept that was not true since it was set, and a check may answer whatever is kept under its own stamp |
| `OwnWriteIsSeenInvariant` | `[]OwnWriteIsSeen` | `OwnInv`: every entry and every row on its way is true since the isolate's own write |

The steps of the event bus have an effect lemma each (`ReceiveEffect`, `SelectEffect`, `ClaimEffect`, ...), and
`EveryDeliveryStep` sorts every step by what it does to one delivery; the invariants are proved from
these, so that no proof expands an action twice.

`CountInv`, `NamingInv` and the others are stronger than the properties because the properties
speak of states at rest, or of what has happened, and a step needs to know what every process in
between holds.

**Liveness.** Fairness and ENABLED are beyond the prover, so the liveness properties themselves stay with
TLC. Of four of them the argument is proved without fairness, as an action property for every value of
the constants: a step brings what is waited for nearer, or leaves it where it is, and none takes it further
away. What remains for TLC is that the steps that bring it nearer keep coming.

| Liveness property | Theorem | Says |
|---|---|---|
| `ClaimsAreResolved` | `AbandonedOnlyAges` | a claim that nobody holds ends by a takeover once it is stale, or by the prune, and by nothing else; till then both its ages only grow |
| `LeaseOfTheGoneRunsOut` | `TheGoneOnlyLose` | a call that is over never gets the row or a renewal again, and without a renewal under way its lease only runs down (with `NoStrayRenewer`: a renewer's timer runs only beside its body) |
| `EveryRowIsTried` | `LineOnlyShortens` | no row is put before a pending one, none becomes pending again, and a row that a flush goes through leaves the line |
| `EveryMessageLeaves` | `MessagesMoveBoundedly` | every move of a message lowers a natural number (`Ahead`), so it goes out and back a bounded number of times |
| | `InvocationsFinish` | each step of an invocation leaves it fewer messages, or fewer subscribers of one, or less of one delivery (`Nearer`, a lexicographic order of finite sets), and it begins anew only with a message of the queue |

`DueTaskRuns` has no such argument: manual runs, reschedules and lost arms do take the task further from its
run, as often as they come, and only the strong fairness of the alarm and the watchdog outlasts them.

One condition of a theorem is about the data and holds in its run. `MapIsFollowed` says that the status machine
refuses none of the statuses the definition maps its transitions to (in the run: open with draft or
pending_review, review with pending_review, closed with approved); where it does refuse one, the code
logs a warning and the doc_status stays behind the state.

## 5. Not modelled

Reads other than the two caches above; authentication and row filters (a refusal, or the role a call
carries); expression evaluation (an uninterpreted computation); schema changes, definitions of
workflows, administration; user interface and tools, which are most of the repository's lines. Quotas and
the rate limiter (one upsert, one counter in one object), webhooks (attempts inside a delivery; the
consumer ignores the result of its last retry) and cron expressions (a calendar computation) are
next in the plan. In modelled components: bulk operations (loops of single ones), `retryDlq` and
`pruneDlq` (proved to have no row), the offline read cache and the cross-account guard of the queue, the
check for referencing rows before a delete and cascading deletes, m2m and m2o links of a formula,
cached lists and the tags of embedded relations, poison messages and kinds of actions of the event
bus, a second read of the stamp within one permission check.

## 6. Plan

Done in this order: entity writes and their refinement, numbers, scheduler, idempotency and the
offline queue, approvals, locks, workflow with outbox, event bus, families of records with their
cached reads, permissions and their stamp, with the proofs of all; the abstract review of approvals, and
the arguments behind the liveness properties. Every safety property of a passing run is a theorem. Next:

1. Proofs: an abstract task, in which an alarm is a deadline, with `Scheduler` as its implementation.
2. Restrictive references and cascading deletes over `Families`.
3. `Quota` and the rate limiter; cron expressions as a function against a reference definition.
4. Definitions of workflows that change or vanish under running transitions.

New components share runs with those they compose with, as `WorkflowTriggers` does with `Outbox`.
