------------------------------ MODULE EventBus ------------------------------
(***************************************************************************)
(* packages/events/src/service.ts with its caller, the worker's queue()    *)
(* handler in apps/api/src/index.ts: events published to a Cloudflare      *)
(* queue, the subscribers of their topic, and the invocations of the       *)
(* consumer that fan a batch of messages out to the subscribers, each      *)
(* delivery claimed first in the table _event_deliveries.                  *)
(*                                                                         *)
(* All events are of one topic.  The queue is external and modelled from   *)
(* how the code relies on it: a message is delivered to an invocation      *)
(* under a lease, an invocation that returns acknowledges its batch, and   *)
(* a lease that ends first puts the message back, MaxRetries times.        *)
(***************************************************************************)
EXTENDS Integers, FiniteSets

CONSTANTS
    Events,         \* envelopes, by id
    Subs,           \* subscriptions, by id
    Consumers,      \* invocations of the queue() handler that may overlap
    None,           \* no event, no subscription
    MaxBatch,       \* messages of one batch
    MaxRetries,     \* max_retries of the queue (5)
    MaxMishaps      \* bound: crashes and failed database statements

ASSUME EventBusAssumption ==
    /\ None \notin Events \cup Subs
    /\ MaxBatch \in Nat \ {0}
    /\ MaxRetries \in Nat
    /\ MaxMishaps \in Nat

VARIABLES
    message,        \* each event's message in the queue
    tries,          \* times each message was handed to a consumer
    subscribed,     \* _event_subscribers: "new", "on" or "gone"
    claims,         \* _event_deliveries: the claimed pairs and their status
    consumer,       \* each invocation: its batch and where it is
    due,            \* history: the subscriptions an event was published to that are still there
    received,       \* history: times a subscriber took an event under one claim
    aborted,        \* history: events of batches that were not gone through
    mishaps         \* crashes and failed statements so far

busVars == <<message, tries, subscribed, claims, consumer, due, received, aborted, mishaps>>

Pairs == Events \X Subs
Steps == {"idle", "next", "claim", "deliver", "record", "release", "end"}
Idle == [at |-> "idle", batch |-> {}, todo |-> {}, event |-> None, rest |-> {}, sub |-> None]

\* A delivery as the queue knows it: a message and its try.
Handed(e) == <<e, tries[e]>>
Leases == Events \X (0..MaxRetries + 1)

BusTypeOK ==
    /\ message \in [Events -> {"unsent", "ready", "leased", "acked", "dead"}]
    /\ tries \in [Events -> 0..MaxRetries + 1]
    /\ subscribed \in [Subs -> {"new", "on", "gone"}]
    /\ claims \in [Pairs -> {"none", "pending", "done"}]
    /\ consumer \in [Consumers -> [at : Steps, batch : SUBSET Leases, todo : SUBSET Events,
                                   event : Events \cup {None}, rest : SUBSET Subs,
                                   sub : Subs \cup {None}]]
    /\ due \in [Events -> SUBSET Subs]
    /\ received \in [Pairs -> Nat]
    /\ aborted \subseteq Events
    /\ mishaps \in 0..MaxMishaps

BusInit ==
    /\ message = [e \in Events |-> "unsent"]
    /\ tries = [e \in Events |-> 0]
    /\ subscribed = [s \in Subs |-> "new"]
    /\ claims = [p \in Pairs |-> "none"]
    /\ consumer = [c \in Consumers |-> Idle]
    /\ due = [e \in Events |-> {}]
    /\ received = [p \in Pairs |-> 0]
    /\ aborted = {}
    /\ mishaps = 0

Mishap == mishaps < MaxMishaps /\ mishaps' = mishaps + 1
On == {s \in Subs : subscribed[s] = "on"}

-----------------------------------------------------------------------------
(* The interface: publish, subscribe, unsubscribe.                         *)

publish(e) ==
    /\ message[e] = "unsent"
    /\ message' = [message EXCEPT ![e] = "ready"]
    /\ due' = [due EXCEPT ![e] = On]
    /\ UNCHANGED <<tries, subscribed, claims, consumer, received, aborted, mishaps>>

subscribe(s) ==
    /\ subscribed[s] = "new"
    /\ subscribed' = [subscribed EXCEPT ![s] = "on"]
    /\ UNCHANGED <<message, tries, claims, consumer, due, received, aborted, mishaps>>

\* The row is deleted; an id is never used again.
unsubscribe(s) ==
    /\ subscribed[s] = "on"
    /\ subscribed' = [subscribed EXCEPT ![s] = "gone"]
    /\ due' = [e \in Events |-> due[e] \ {s}]
    /\ UNCHANGED <<message, tries, claims, consumer, received, aborted, mishaps>>

-----------------------------------------------------------------------------
(* The queue.                                                              *)

EventsOf(batch) == {l[1] : l \in batch}

Receive(c) ==
    /\ consumer[c].at = "idle"
    /\ \E B \in SUBSET {e \in Events : message[e] = "ready"} :
         /\ B # {}
         /\ Cardinality(B) <= MaxBatch
         /\ message' = [e \in Events |-> IF e \in B THEN "leased" ELSE message[e]]
         /\ tries' = [e \in Events |-> IF e \in B THEN tries[e] + 1 ELSE tries[e]]
         /\ consumer' = [consumer EXCEPT ![c] =
                [Idle EXCEPT !.at = "next", !.todo = B,
                             !.batch = {<<e, tries[e] + 1>> : e \in B}]]
    /\ UNCHANGED <<subscribed, claims, due, received, aborted, mishaps>>

\* The lease ends before its batch is acknowledged: the message is delivered
\* once more, or goes to the dead letter queue.
LeaseEnds(e) ==
    /\ message[e] = "leased"
    /\ message' = [message EXCEPT ![e] = IF tries[e] <= MaxRetries THEN "ready" ELSE "dead"]
    /\ UNCHANGED <<tries, subscribed, claims, consumer, due, received, aborted, mishaps>>

Held(e) == \E c \in Consumers : Handed(e) \in consumer[c].batch

Expire(e) == ~Held(e) /\ LeaseEnds(e)

-----------------------------------------------------------------------------
(* consumeEventBatch.  The order of a batch, and of the subscribers the    *)
(* SELECT returns, is not fixed.                                           *)

StepTo(c, step) == consumer' = [consumer EXCEPT ![c] = [consumer[c] EXCEPT !.at = step]]

\* Between two messages, and at the end of the last one.
Between(c) ==
    [Idle EXCEPT !.at = IF consumer[c].todo = {} THEN "end" ELSE "next",
                 !.batch = consumer[c].batch, !.todo = consumer[c].todo]

\* An error leaves the loops; queue() logs it and returns.
Throw(c) ==
    /\ consumer' = [consumer EXCEPT ![c] = [Idle EXCEPT !.at = "end", !.batch = consumer[c].batch]]
    /\ aborted' = aborted \cup EventsOf(consumer[c].batch)

\* mutant: the message stays in the batch
SelectAgain(c) ==
    /\ consumer[c].at = "next"
    /\ \E e \in consumer[c].todo :
         consumer' = [consumer EXCEPT ![c] =
             [@ EXCEPT !.at = IF On = {} THEN "next" ELSE "claim", !.event = e, !.rest = On]]
    /\ UNCHANGED <<message, tries, subscribed, claims, due, received, aborted, mishaps>>

\* The subscriptions of the next message.
Select(c) ==
    /\ consumer[c].at = "next"
    /\ \E e \in consumer[c].todo :
         LET next == [consumer[c] EXCEPT !.todo = @ \ {e}]
         IN  consumer' = [consumer EXCEPT ![c] =
                 IF On # {} THEN [next EXCEPT !.at = "claim", !.event = e, !.rest = On]
                 ELSE [next EXCEPT !.at = IF next.todo = {} THEN "end" ELSE "next"]]
    /\ UNCHANGED <<message, tries, subscribed, claims, due, received, aborted, mishaps>>

\* The loop over the subscribers goes on with those that are left.
Onward(c, rest) ==
    consumer' = [consumer EXCEPT ![c] =
        IF rest = {} THEN Between(c)
        ELSE [consumer[c] EXCEPT !.at = "claim", !.rest = rest, !.sub = None]]

\* mutant: INSERT OR REPLACE
ClaimReplaces(c) ==
    /\ consumer[c].at = "claim"
    /\ \E s \in consumer[c].rest :
         /\ claims' = [claims EXCEPT ![<<consumer[c].event, s>>] = "pending"]
         /\ consumer' = [consumer EXCEPT ![c].at = "deliver", ![c].rest = @ \ {s}, ![c].sub = s]
    /\ UNCHANGED <<message, tries, subscribed, due, received, aborted, mishaps>>

\* mutant: a delivery that is skipped ends the loop over the subscribers
ClaimBreaks(c) ==
    /\ consumer[c].at = "claim"
    /\ \E s \in consumer[c].rest :
         LET p == <<consumer[c].event, s>>
         IN  IF claims[p] = "none"
             THEN /\ claims' = [claims EXCEPT ![p] = "pending"]
                  /\ consumer' = [consumer EXCEPT ![c].at = "deliver", ![c].rest = @ \ {s},
                                                  ![c].sub = s]
             ELSE Onward(c, {}) /\ UNCHANGED claims
    /\ UNCHANGED <<message, tries, subscribed, due, received, aborted, mishaps>>

\* INSERT OR IGNORE: the row that is there, whatever its status, is kept and
\* the delivery skipped.
Claim(c) ==
    /\ consumer[c].at = "claim"
    /\ \E s \in consumer[c].rest :
         LET p == <<consumer[c].event, s>>
             rest == consumer[c].rest \ {s}
         IN  IF claims[p] = "none"
             THEN /\ claims' = [claims EXCEPT ![p] = "pending"]
                  /\ consumer' = [consumer EXCEPT ![c] =
                         [consumer[c] EXCEPT !.at = "deliver", !.rest = rest, !.sub = s]]
             ELSE Onward(c, rest) /\ UNCHANGED claims
    /\ UNCHANGED <<message, tries, subscribed, due, received, aborted, mishaps>>

Delivery(c) == <<consumer[c].event, consumer[c].sub>>

\* The webhook answers in time, or the handler returns.
DeliverTaken(c) ==
    /\ consumer[c].at = "deliver"
    /\ received' = [received EXCEPT ![Delivery(c)] = @ + 1]
    /\ StepTo(c, "record")
    /\ UNCHANGED <<message, tries, subscribed, claims, due, aborted, mishaps>>

\* It throws: the subscriber refused the event, or took it and answered with an
\* error or too late.
DeliverThrows(c) ==
    /\ consumer[c].at = "deliver"
    /\ \E n \in {0, 1} : received' = [received EXCEPT ![Delivery(c)] = @ + n]
    /\ StepTo(c, "release")
    /\ UNCHANGED <<message, tries, subscribed, claims, due, aborted, mishaps>>

\* mutant: the row is deleted after a success as well
RecordDeletes(c) ==
    /\ consumer[c].at = "record"
    /\ claims' = [claims EXCEPT ![Delivery(c)] = "none"]
    /\ Onward(c, consumer[c].rest)
    /\ UNCHANGED <<message, tries, subscribed, due, received, aborted, mishaps>>

\* UPDATE ... SET status = 'done'.
Record(c) ==
    /\ consumer[c].at = "record"
    /\ claims' = [claims EXCEPT ![Delivery(c)] = IF @ = "none" THEN "none" ELSE "done"]
    /\ Onward(c, consumer[c].rest)
    /\ UNCHANGED <<message, tries, subscribed, due, received, aborted, mishaps>>

\* The DELETE of the catch block, and the error thrown on.
Release(c) ==
    /\ consumer[c].at = "release"
    /\ claims' = [claims EXCEPT ![Delivery(c)] = "none"]
    /\ received' = [received EXCEPT ![Delivery(c)] = 0]
    /\ Throw(c)
    /\ UNCHANGED <<message, tries, subscribed, due, mishaps>>

\* A statement fails: inside the try block the claim is released, outside of it,
\* or in the catch block, the error leaves the loops.
StatementFails(c) ==
    /\ Mishap
    /\ \/ /\ consumer[c].at = "record"
          /\ StepTo(c, "release")
          /\ UNCHANGED aborted
       \/ /\ consumer[c].at \in {"next", "claim", "release"}
          /\ Throw(c)
    /\ UNCHANGED <<message, tries, subscribed, claims, due, received>>

\* queue() returns, whatever happened: the leases that still run are acknowledged.
Return(c) ==
    /\ consumer[c].at = "end"
    /\ message' = [e \in Events |->
           IF message[e] = "leased" /\ Handed(e) \in consumer[c].batch THEN "acked" ELSE message[e]]
    /\ consumer' = [consumer EXCEPT ![c] = Idle]
    /\ UNCHANGED <<tries, subscribed, claims, due, received, aborted, mishaps>>

\* The invocation is killed, before or after a statement.
Kill(c) ==
    /\ consumer[c].at # "idle"
    /\ Mishap
    /\ aborted' = aborted \cup EventsOf(consumer[c].batch)
    /\ consumer' = [consumer EXCEPT ![c] = Idle]
    /\ UNCHANGED <<message, tries, subscribed, claims, due, received>>

\* Nightly, the claims of seven days ago: by then no message of theirs is in the
\* queue and no invocation has it.
pruneEventDeliveries(e) ==
    /\ message[e] \in {"acked", "dead"}
    /\ \A c \in Consumers : e \notin EventsOf(consumer[c].batch)
    /\ \E s \in Subs : claims[<<e, s>>] # "none"
    /\ claims' = [p \in Pairs |-> IF p[1] = e THEN "none" ELSE claims[p]]
    /\ UNCHANGED <<message, tries, subscribed, consumer, due, received, aborted, mishaps>>

-----------------------------------------------------------------------------
Work(c) ==
    \/ Select(c) \/ Claim(c)
    \/ DeliverTaken(c) \/ DeliverThrows(c)
    \/ Record(c) \/ Release(c)
    \/ Return(c)

BusNext ==
    \/ \E e \in Events : publish(e)
    \/ \E s \in Subs : subscribe(s)
    \/ \E s \in Subs : unsubscribe(s)
    \/ \E c \in Consumers : Receive(c)
    \/ \E e \in Events : LeaseEnds(e)
    \/ \E c \in Consumers : Work(c)
    \/ \E c \in Consumers : StatementFails(c)
    \/ \E c \in Consumers : Kill(c)
    \/ \E e \in Events : pruneEventDeliveries(e)

BusSpec == BusInit /\ [][BusNext]_busVars

BusFairness ==
    /\ \A c \in Consumers : WF_busVars(Work(c))
    /\ WF_busVars(\E c \in Consumers : Receive(c))
    /\ \A e \in Events : WF_busVars(Expire(e))

FairBusSpec == BusSpec /\ BusFairness

-----------------------------------------------------------------------------
(* Properties.                                                             *)

Delivering(c, p) ==
    consumer[c].at \in {"deliver", "record", "release"} /\ Delivery(c) = p

\* However invocations overlap and leases end, a delivery is in the hands of one
\* invocation at most, and its claim is in the table meanwhile.
OneDeliverer ==
    \A p \in Pairs : \A c \in Consumers :
        Delivering(c, p) => /\ claims[p] = "pending"
                            /\ \A d \in Consumers : Delivering(d, p) => d = c

\* A subscriber takes an event a second time only after the claim of the first
\* was given back: after an attempt that threw, never because a message came
\* again.
TakenOnce == \A p \in Pairs : received[p] <= 1

\* A message that is acknowledged has been taken by every subscription it was
\* published to that is still there, unless somebody is delivering it, or some
\* batch with it was broken off by an error or a crash.
NothingMissedInSilence ==
    \A e \in Events : \A s \in due[e] :
        message[e] = "acked" /\ e \notin aborted
            => received[<<e, s>>] > 0 \/ \E c \in Consumers : Delivering(c, <<e, s>>)

\* Every message leaves the queue, acknowledged or dead-lettered, whatever throws,
\* dies or runs out of its lease on the way.
EveryMessageLeaves ==
    \A e \in Events : message[e] = "ready" ~> message[e] \in {"acked", "dead"}

\* service.ts:11-13 and :179-186, docs/backend-plugins/events.md:23-25: a failed
\* delivery is tried again until the message is dead-lettered.  No crash and no
\* failed statement is needed to break it.
FailedDeliveryIsRetried ==
    \A e \in Events : \A s \in due[e] :
        message[e] = "acked" /\ mishaps = 0
            => received[<<e, s>>] > 0 \/ \E c \in Consumers : Delivering(c, <<e, s>>)

=============================================================================
