---------------------------- MODULE Idempotency ----------------------------
(***************************************************************************)
(* IdempotencyService.run of packages/idempotency: calls that carry a key  *)
(* and share its row in _idempotency_keys.  A call claims the row, looks   *)
(* at what it could not claim, runs the operation and records how it went; *)
(* each is a statement of its own and any other call may act in between.   *)
(* The operation either lands or fails without effect.  A call that got no *)
(* result may be made again.                                               *)
(***************************************************************************)
EXTENDS Naturals, FiniteSets

CONSTANTS
    Calls,
    Keys,
    Ttl,     \* ttlMs, in ticks
    Keep,    \* the age of updated_at from which a row is pruned, in ticks
    Modes,   \* the values of recordFailures that callers pass
    None,    \* no call
    Void     \* {None} if an operation may return nothing, {} if it never does

ASSUME IdempotencyAssumption ==
    /\ None \notin Calls
    /\ Ttl \in Nat \ {0}
    /\ Keep \in Nat \ {0}
    /\ Modes \subseteq BOOLEAN
    /\ Void \subseteq {None}

VARIABLES
    row,     \* the row of each key; of, the call whose response is cached
    pc,      \* where each call is
    key,     \* its key
    keeps,   \* the recordFailures of each key's callers: one place in the code
    got,     \* the call whose value it returned
    landed,  \* the calls whose operation landed, for each key
    late,    \* a stale claim was taken over, or the row pruned, for each key
    amiss    \* a success could not be recorded, for each key

vars == <<row, pc, key, keeps, got, landed, late, amiss>>

\* created and updated are the ages of created_at and updated_at
Row == [st : {"absent", "processing", "done", "failed"}, of : Calls \cup {None},
        created : 0..Ttl, updated : 0..Keep]

NoRow == [st |-> "absent", of |-> None, created |-> 0, updated |-> 0]

Answers == {"value", "conflict", "error", "dead"}

TypeOK ==
    /\ row \in [Keys -> Row]
    /\ pc \in [Calls -> {"new", "look", "take", "run", "record", "undo"} \cup Answers]
    /\ key \in [Calls -> Keys]
    /\ keeps \in [Keys -> BOOLEAN]
    /\ got \in [Calls -> Calls \cup {None}]
    /\ landed \in [Keys -> SUBSET Calls]
    /\ late \in [Keys -> BOOLEAN]
    /\ amiss \in [Keys -> BOOLEAN]

Init ==
    /\ row = [k \in Keys |-> NoRow]
    /\ pc = [c \in Calls |-> "new"]
    /\ key \in [Calls -> Keys]
    /\ keeps \in [Keys -> Modes]
    /\ got = [c \in Calls |-> None]
    /\ landed = [k \in Keys |-> {}]
    /\ late = [k \in Keys |-> FALSE]
    /\ amiss = [k \in Keys |-> FALSE]

Goto(c, from, to) ==
    /\ pc[c] = from
    /\ pc' = [pc EXCEPT ![c] = to]

\* the calls that run the operation of key k, or are recording how it went
Owners(k) == {c \in Calls : key[c] = k /\ pc[c] \in {"run", "record", "undo"}}

Stale(k) == row[k].st = "processing" /\ row[k].created = Ttl

\* UPDATE ... WHERE key = ?; no row is no error
Set(k, new) == row' = IF row[k].st = "absent" THEN row ELSE [row EXCEPT ![k] = new]

-----------------------------------------------------------------------------

\* mutants: any claim is taken over at once; a stale one is respected for ever
ClaimAtOnce(c) ==
    LET k == key[c] IN
      /\ IF row[k].st \in {"absent", "processing"}
         THEN /\ Goto(c, "new", "run")
              /\ row' = [row EXCEPT ![k] = [NoRow EXCEPT !.st = "processing"]]
         ELSE /\ Goto(c, "new", "look")
              /\ UNCHANGED row
      /\ UNCHANGED <<key, keeps, got, landed, late, amiss>>

ClaimFreshOnly(c) ==
    LET k == key[c] IN
      /\ IF row[k].st = "absent"
         THEN /\ Goto(c, "new", "run")
              /\ row' = [row EXCEPT ![k] = [NoRow EXCEPT !.st = "processing"]]
         ELSE /\ Goto(c, "new", "look")
              /\ UNCHANGED row
      /\ UNCHANGED <<key, keeps, got, landed, late, amiss>>

\* INSERT ... ON CONFLICT(key) DO UPDATE SET updated_at WHERE it is a stale claim
Claim(c) ==
    LET k == key[c] IN
      /\ \/ /\ row[k].st = "absent"
            /\ Goto(c, "new", "run")
            /\ row' = [row EXCEPT ![k] = [NoRow EXCEPT !.st = "processing"]]
            /\ UNCHANGED late
         \/ /\ Stale(k)
            /\ Goto(c, "new", "run")
            /\ row' = [row EXCEPT ![k].updated = 0]
            /\ late' = [late EXCEPT ![k] = TRUE]
         \/ /\ row[k].st # "absent" /\ ~Stale(k)
            /\ Goto(c, "new", "look")
            /\ UNCHANGED <<row, late>>
      /\ UNCHANGED <<key, keeps, got, landed, amiss>>

\* SELECT the row that could not be claimed
Look(c) ==
    LET seen == row[key[c]] IN
      /\ \/ /\ seen.st = "done" /\ seen.of # None
            /\ Goto(c, "look", "value")
            /\ got' = [got EXCEPT ![c] = seen.of]
         \/ /\ seen.st = "failed"
            /\ Goto(c, "look", "take")
            /\ UNCHANGED got
         \/ /\ seen.st \in {"absent", "processing"} \/ (seen.st = "done" /\ seen.of = None)
            /\ Goto(c, "look", "conflict")
            /\ UNCHANGED got
      /\ UNCHANGED <<row, key, keeps, landed, late, amiss>>

\* mutant: the status is not compared again
TakeAnything(c) ==
    /\ Goto(c, "take", "run")
    /\ Set(key[c], [row[key[c]] EXCEPT !.st = "processing", !.updated = 0])
    /\ UNCHANGED <<key, keeps, got, landed, late, amiss>>

\* UPDATE ... WHERE status = 'failed'
Take(c) ==
    LET k == key[c] IN
      /\ \/ /\ row[k].st = "failed"
            /\ Goto(c, "take", "run")
            /\ row' = [row EXCEPT ![k].st = "processing", ![k].updated = 0]
         \/ /\ row[k].st # "failed"
            /\ Goto(c, "take", "conflict")
            /\ UNCHANGED row
      /\ UNCHANGED <<key, keeps, got, landed, late, amiss>>

\* fn() settles: it landed, or it threw
Perform(c) ==
    /\ \/ /\ Goto(c, "run", "record")
          /\ landed' = [landed EXCEPT ![key[c]] = @ \cup {c}]
       \/ /\ Goto(c, "run", "undo")
          /\ UNCHANGED landed
    /\ UNCHANGED <<row, key, keeps, got, late, amiss>>

\* the response is cached, or null when fn() returned undefined
Record(c) ==
    /\ Goto(c, "record", "value")
    /\ \E of \in {c} \cup Void :
         /\ Set(key[c], [row[key[c]] EXCEPT !.st = "done", !.of = of, !.updated = 0])
         /\ got' = [got EXCEPT ![c] = of]
    /\ UNCHANGED <<key, keeps, landed, late, amiss>>

\* that statement throws inside the try: the call goes on as failed
RecordErrs(c) ==
    /\ Goto(c, "record", "undo")
    /\ amiss' = [amiss EXCEPT ![key[c]] = TRUE]
    /\ UNCHANGED <<row, key, keeps, got, landed, late>>

\* mutants: the error is cached as the response; a failure has a status of its own
UndoCached(c) ==
    /\ Goto(c, "undo", "error")
    /\ Set(key[c], [row[key[c]] EXCEPT !.st = "done", !.of = c, !.updated = 0])
    /\ UNCHANGED <<key, keeps, got, landed, late, amiss>>

\* the failure is recorded, or the key freed
Undo(c) ==
    /\ Goto(c, "undo", "error")
    /\ Set(key[c], IF keeps[key[c]] THEN [row[key[c]] EXCEPT !.st = "failed", !.updated = 0]
                   ELSE NoRow)
    /\ UNCHANGED <<key, keeps, got, landed, late, amiss>>

\* the isolate dies, or a statement throws outside the try
Crash(c) ==
    /\ pc[c] \in {"look", "take", "run", "record", "undo"}
    /\ pc' = [pc EXCEPT ![c] = "dead"]
    /\ UNCHANGED <<row, key, keeps, got, landed, late, amiss>>

\* the caller that got no result tries again
Again(c) ==
    /\ pc[c] \in {"conflict", "error", "dead"}
    /\ pc' = [pc EXCEPT ![c] = "new"]
    /\ UNCHANGED <<row, key, keeps, got, landed, late, amiss>>

Prune(k) ==
    /\ row[k].st # "absent" /\ row[k].updated = Keep
    /\ row' = [row EXCEPT ![k] = NoRow]
    /\ late' = [late EXCEPT ![k] = TRUE]
    /\ UNCHANGED <<pc, key, keeps, got, landed, amiss>>

Older(age, limit) == IF age < limit THEN age + 1 ELSE age

Tick ==
    /\ row' = [k \in Keys |->
                 IF row[k].st = "absent" THEN NoRow
                 ELSE [row[k] EXCEPT !.created = Older(@, Ttl), !.updated = Older(@, Keep)]]
    /\ UNCHANGED <<pc, key, keeps, got, landed, late, amiss>>

Step(c) ==
    Claim(c) \/ Look(c) \/ Take(c) \/ Perform(c) \/ Record(c) \/ Undo(c)

Next ==
    \/ \E c \in Calls : Step(c) \/ RecordErrs(c) \/ Crash(c) \/ Again(c)
    \/ \E k \in Keys : Prune(k)
    \/ Tick

Spec == Init /\ [][Next]_vars

\* time passes, operations settle and callers without a result come back
Fairness == WF_vars(Tick) /\ \A c \in Calls : WF_vars(Step(c)) /\ WF_vars(Again(c))

FairSpec == Spec /\ Fairness

-----------------------------------------------------------------------------
(* Properties.                                                             *)

\* Two calls with one key never both run the operation (service.ts:11-13), as
\* long as no claim became stale and the row was not pruned.
OneAtATime == \A k \in Keys : ~late[k] => \A c, d \in Owners(k) : c = d

\* A key lands its operation once (service.ts:5), whatever failed, crashed or was
\* retried meanwhile, as long as a success could be recorded as well.
LandsOnce ==
    [][\A k \in Keys : \A c \in Owners(k) :
         ~late[k] /\ ~amiss[k] /\ pc[c] = "run" /\ pc'[c] = "record" => landed[k] = {}]_vars

\* What a call returns, fresh or replayed, is what an operation that landed
\* returned, even after takeovers and pruning (service.ts:84-86).
ValuesLanded ==
    \A c \in Calls : pc[c] = "value" /\ got[c] # None => got[c] \in landed[key[c]]

\* The claim of a call that crashed is taken over: it does not block the key
\* ("A stale 'processing' claim (crashed caller) is taken over", service.ts:7).
Abandoned(k) == row[k].st = "processing" /\ Owners(k) = {}
ClaimsAreResolved == \A k \in Keys : Abandoned(k) ~> ~Abandoned(k)

=============================================================================
