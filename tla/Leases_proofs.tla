---------------------------- MODULE Leases_proofs ----------------------------
(***************************************************************************)
(* The two components that work under a lease.                             *)
(*                                                                         *)
(* Locks: mutual exclusion of withLock, for any set of calls, lease and    *)
(* deadline, as long as grants and renewals have arrived on time, if the   *)
(* renewer's interval is below the lease.                                  *)
(*                                                                         *)
(* EventBus: one deliverer of each delivery, one taking under a claim and  *)
(* nothing missed in silence, for any events, subscriptions, invocations   *)
(* and retries of the queue.  The steps are grouped by what they do to the *)
(* deliveries in hand (DeliveryStep); the invariants are proved from that. *)
(*                                                                         *)
(* For both, why what should end does: a call that is over only loses what *)
(* it holds, and a message has a bounded number of moves ahead of it.      *)
(***************************************************************************)
EXTENDS Locks, EventBus, TLAPS


\* What mutual exclusion needs of ttlMs.
Timely == RenewEvery < TTL

\* A granted call has the whole lease before it: no tick passes before it runs.
GrantedHasLease == \A c \in Calls : pc[c] = "granted" => row = Lease(c)

\* A running withLock owns a live lease that outlasts its renewer's timer.
HolderHasLease ==
    \A c \in Calls :
      Holding(c) =>
        /\ row.owner = c
        /\ row.left > 0
        /\ timer[c] < Off
        /\ ~renewing[c] => timer[c] < row.left

LeaseInv == TypeOK /\ (prompt => GrantedHasLease /\ HolderHasLease)

\* The renewer's interval is a positive number of ticks.
LEMMA RenewEveryType == RenewEvery \in Nat /\ Off \in Nat /\ RenewEvery < Off
  BY LocksAssumption, TTL \div 2 \in Nat DEF RenewEvery, Off

\* The initial state has its type.
LEMMA InitType == Init => TypeOK
  BY LocksAssumption, RenewEveryType DEF Init, TypeOK, NoRow, States

\* Every step keeps the type.
LEMMA TypeStep == TypeOK /\ [Next]_vars => TypeOK'
<1> SUFFICES ASSUME TypeOK, [Next]_vars PROVE TypeOK'
  OBVIOUS
<1> USE LocksAssumption, RenewEveryType DEF TypeOK
<1>0. \A c \in Calls : Lease(c) \in [owner : Calls \cup {NoOwner}, left : 0..TTL]
  BY DEF Lease
<1>1. NoRow \in [owner : Calls \cup {NoOwner}, left : 0..TTL]
  BY DEF NoRow
<1>2. ASSUME NEW c \in Calls, NEW from, NEW to \in States, Goto(c, from, to)
      PROVE  pc' \in [Calls -> States]
  BY <1>2 DEF Goto
<1>3. CASE Tick
  BY <1>3 DEF Tick, Less
<1>4. ASSUME NEW c \in Calls, DoAcquire(c) PROVE TypeOK'
  <2>1. (IF Grants(c) THEN "granted" ELSE "refused") \in States
    BY DEF States
  <2> QED BY <1>4, <1>0, <1>2, <2>1 DEF DoAcquire
<1>5. ASSUME NEW c \in Calls, DoRelease(c) PROVE TypeOK'
  BY <1>5, <1>1, <1>2 DEF DoRelease, States
<1>6. ASSUME NEW c \in Calls, DoRenew(c) PROVE TypeOK'
  BY <1>6, <1>0 DEF DoRenew
<1>7. ASSUME NEW c \in Calls, Ask(c) PROVE TypeOK'
  BY <1>7 DEF Ask, States
<1>8. ASSUME NEW c \in Calls, Enter(c) PROVE TypeOK'
  BY <1>8, <1>2 DEF Enter, States
<1>9. ASSUME NEW c \in Calls, Refused(c) PROVE TypeOK'
  <2>1. (IF patience[c] = 0 THEN "timedOut" ELSE "waiting") \in States
    BY DEF States
  <2> QED BY <1>9, <1>2, <2>1 DEF Refused
<1>10. ASSUME NEW c \in Calls, FireRenewer(c) PROVE TypeOK'
  BY <1>10 DEF FireRenewer
<1>11. ASSUME NEW c \in Calls, Finish(c) PROVE TypeOK'
  BY <1>11, <1>2 DEF Finish, States
<1>12. ASSUME NEW c \in Calls, Fault(c) PROVE TypeOK'
  <2>1. CASE LoseAcquire(c)
    BY <2>1 DEF LoseAcquire, States
  <2>2. CASE LoseRelease(c)
    BY <2>2, <1>2 DEF LoseRelease, States
  <2>3. CASE LoseRenew(c)
    BY <2>3 DEF LoseRenew
  <2>4. CASE Crash(c)
    BY <2>4 DEF Crash, States
  <2> QED BY <1>12, <2>1, <2>2, <2>3, <2>4 DEF Fault
<1>13. CASE UNCHANGED vars
  BY <1>13 DEF vars
<1> QED BY <1>3, <1>4, <1>5, <1>6, <1>7, <1>8, <1>9, <1>10, <1>11, <1>12, <1>13
        DEF Next, ObjectStep, CallerStep

\* The state has its type, whatever the timing (do.ts:17, service.ts:45-50).
THEOREM TypeCorrect == Spec => []TypeOK
  BY InitType, TypeStep, PTL DEF Spec

\* What was late stays late.
LEMMA PromptIsOver == ASSUME [Next]_vars, prompt' PROVE prompt
  BY DEF vars, Next, Tick, ObjectStep, DoAcquire, DoRelease, DoRenew, CallerStep, Ask, Enter,
         Refused, FireRenewer, Finish, Fault, LoseAcquire, LoseRelease, LoseRenew, Crash

\* Every step that leaves everything prompt keeps the leases.
LEMMA LeaseStep ==
  ASSUME Timely, TypeOK, GrantedHasLease, HolderHasLease, TypeOK', prompt', [Next]_vars
  PROVE  GrantedHasLease' /\ HolderHasLease'
<1> USE LocksAssumption, RenewEveryType
<1> USE DEF GrantedHasLease, HolderHasLease, Holding, TypeOK, Timely
<1> DEFINE Goal == GrantedHasLease' /\ HolderHasLease'
<1>1. ASSUME Tick PROVE Goal
  <2>1. \A c \in Calls : pc[c] # "granted" /\ ~renewing[c] /\ timer[c] # 0
    BY <1>1 DEF Tick, Urgent
  <2>2. ASSUME NEW c \in Calls, Holding(c)' PROVE HolderHasLease!(c)'
    BY <1>1, <2>1, <2>2 DEF Tick, Less
  <2> QED BY <1>1, <2>1, <2>2 DEF Tick
<1>2. ASSUME NEW c \in Calls, DoAcquire(c) PROVE Goal
  <2>1. ASSUME NEW d \in Calls, pc[d] = "granted" \/ Holding(d) PROVE ~Grants(c) \/ d = c
    BY <2>1 DEF Grants, NoRow, Lease, Expired
  <2>2. CASE Grants(c)
    <3>1. row' = Lease(c) /\ pc' = [pc EXCEPT ![c] = "granted"] /\ UNCHANGED <<timer, renewing>>
      BY <1>2, <2>2 DEF DoAcquire, Goto
    <3>2. \A d \in Calls : (pc[d] # "granted" /\ ~Holding(d)) \/ d = c
      BY <2>1, <2>2
    <3> QED BY <3>1, <3>2
  <2>3. CASE ~Grants(c)
    <3>1. row' = row /\ pc' = [pc EXCEPT ![c] = "refused"] /\ UNCHANGED <<timer, renewing>>
      BY <1>2, <2>3 DEF DoAcquire, Goto
    <3> QED BY <3>1 DEF Lease
  <2> QED BY <2>2, <2>3
<1>3. ASSUME NEW c \in Calls, DoRelease(c) PROVE Goal
  BY <1>3 DEF DoRelease, Goto, Lease
<1>4. ASSUME NEW c \in Calls, DoRenew(c) PROVE Goal
  <2>1. CASE row.owner = c
    <3>1. row' = Lease(c) /\ renewing' = [renewing EXCEPT ![c] = FALSE] /\ UNCHANGED <<pc, timer>>
      BY <1>4, <2>1 DEF DoRenew
    <3>2. \A d \in Calls : timer[d] < Off => timer[d] < TTL
      BY DEF Off
    <3>3. \A d \in Calls : pc[d] = "granted" \/ Holding(d) => d = c
      BY <2>1 DEF Lease
    <3> QED BY <3>1, <3>2, <3>3 DEF Lease
  <2>2. CASE row.owner # c
    BY <1>4, <2>2 DEF DoRenew, Lease
  <2> QED BY <2>1, <2>2
<1>5. ASSUME NEW c \in Calls, CallerStep(c) PROVE Goal
  <2>1. CASE Ask(c)
    BY <2>1 DEF Ask, Lease
  <2>2. CASE Enter(c)
    BY <2>2 DEF Enter, Goto, Lease
  <2>3. CASE Refused(c)
    BY <2>3 DEF Refused, Goto, Lease
  <2>4. CASE FireRenewer(c)
    BY <2>4 DEF FireRenewer, Lease
  <2>5. CASE Finish(c)
    BY <2>5 DEF Finish, Goto, Lease
  <2> QED BY <1>5, <2>1, <2>2, <2>3, <2>4, <2>5 DEF CallerStep
<1>6. ASSUME NEW c \in Calls, Fault(c) PROVE Goal
  BY <1>6 DEF Fault, LoseAcquire, LoseRelease, LoseRenew, Crash, Goto
<1>7. ASSUME UNCHANGED vars PROVE Goal
  BY <1>7 DEF vars, Lease
<1> QED BY <1>2, <1>1, <1>3, <1>4, <1>5, <1>6, <1>7 DEF Next, ObjectStep

\* Every step keeps the lease invariant.
LEMMA LeaseInvStep == ASSUME Timely, LeaseInv, TypeOK', [Next]_vars PROVE LeaseInv'
  BY LeaseStep, PromptIsOver DEF LeaseInv

\* With timely renewals no two withLock bodies run at once (service.ts:38-44).
THEOREM MutualExclusionHolds == Timely => (Spec => []MutualExclusion)
<1>1. Init => LeaseInv
  BY InitType DEF Init, LeaseInv, GrantedHasLease, HolderHasLease, Holding
<1>2. ASSUME Timely PROVE LeaseInv /\ TypeOK' /\ [Next]_vars => LeaseInv'
  BY <1>2, LeaseInvStep
<1>3. LeaseInv => MutualExclusion
  BY DEF LeaseInv, HolderHasLease, MutualExclusion, Holding
<1>4. Timely \in BOOLEAN
  BY DEF Timely
<1>5. ASSUME Timely PROVE Spec => []MutualExclusion
  <2>1. LeaseInv /\ TypeOK' /\ [Next]_vars => LeaseInv'
    BY <1>2, <1>5
  <2> QED BY <1>1, <2>1, <1>3, TypeCorrect, PTL DEF Spec
<1> QED BY <1>5

\* A lease that has not run out ends only by the release of its own owner, for any
\* calls: the DO writes an owner over another only if that one's time is up
\* (do.ts:84-111).
THEOREM LiveLeasesAreKept == Spec => LiveLeaseIsKept
<1>1. TypeOK /\ [Next]_vars =>
        [row # NoRow /\ ~Expired /\ row'.owner # row.owner
           => pc[row.owner] = "releasing" /\ row' = NoRow]_vars
  <2> SUFFICES ASSUME TypeOK, Next, row # NoRow, ~Expired, row'.owner # row.owner
               PROVE  pc[row.owner] = "releasing" /\ row' = NoRow
    OBVIOUS
  <2>1. ~Tick
    BY DEF Tick, TypeOK
  <2>2. PICK c \in Calls : ObjectStep(c) \/ CallerStep(c) \/ Fault(c)
    BY <2>1 DEF Next
  <2>3. ~(CallerStep(c) \/ Fault(c))
    BY DEF CallerStep, Fault, Ask, Enter, Refused, FireRenewer, Finish, LoseAcquire, LoseRelease,
           LoseRenew, Crash
  <2>4. ~DoAcquire(c) /\ ~DoRenew(c)
    BY DEF DoAcquire, DoRenew, Grants, Lease
  <2>5. DoRelease(c)
    BY <2>2, <2>3, <2>4 DEF ObjectStep
  <2> QED BY <2>5 DEF DoRelease, Goto
<1> QED BY <1>1, TypeCorrect, PTL DEF Spec, LiveLeaseIsKept

\* A call that is over and what is left of it: a renewal under way, a lease.
Gone(c) == pc[c] \in {"done", "failed", "crashed"}

\* No step gives a call that is over anything back: not the row, not a renewal, and once
\* no renewal is under way not a tick of its lease either.
GoneOnlyLoses ==
    [][ \A c \in Calls : Gone(c) =>
          /\ pc'[c] = pc[c]
          /\ renewing'[c] => renewing[c]
          /\ row.owner # c => row'.owner # c
          /\ row.owner = c /\ ~renewing[c] =>
               row' = row \/ row'.owner # c \/ row'.left < row.left ]_vars

\* a renewer runs only beside its fn
NoStrayRenewer == \A c \in Calls : pc[c] # "running" => timer[c] = Off

LEMMA StrayStep == TypeOK /\ NoStrayRenewer /\ [Next]_vars => NoStrayRenewer'
<1> SUFFICES ASSUME TypeOK, NoStrayRenewer, [Next]_vars PROVE NoStrayRenewer'
  OBVIOUS
<1> USE LocksAssumption, RenewEveryType DEF NoStrayRenewer, TypeOK
<1>1. CASE Tick
  BY <1>1 DEF Tick
<1>2. ASSUME NEW c \in Calls, ObjectStep(c) PROVE NoStrayRenewer'
  BY <1>2 DEF ObjectStep, DoAcquire, DoRelease, DoRenew, Goto
<1>3. ASSUME NEW c \in Calls, Ask(c) \/ Enter(c) \/ Refused(c) \/ Finish(c) PROVE NoStrayRenewer'
  BY <1>3 DEF Ask, Enter, Refused, Finish, Goto
<1>4. ASSUME NEW c \in Calls, FireRenewer(c) PROVE NoStrayRenewer'
  BY <1>4 DEF FireRenewer, Off
<1>5. ASSUME NEW c \in Calls, Fault(c) PROVE NoStrayRenewer'
  BY <1>5 DEF Fault, LoseAcquire, LoseRelease, LoseRenew, Crash, Goto
<1>6. CASE UNCHANGED vars
  BY <1>6 DEF vars
<1> QED BY <1>1, <1>2, <1>3, <1>4, <1>5, <1>6 DEF Next, CallerStep

LEMMA GoneStep ==
  ASSUME TypeOK, NoStrayRenewer, Next, NEW c \in Calls, Gone(c)
  PROVE  /\ pc'[c] = pc[c]
         /\ renewing'[c] => renewing[c]
         /\ row.owner # c => row'.owner # c
         /\ row.owner = c /\ ~renewing[c] =>
              row' = row \/ row'.owner # c \/ row'.left < row.left
<1> USE LocksAssumption, RenewEveryType DEF NoStrayRenewer, TypeOK, Gone
<1> DEFINE Goal == /\ pc'[c] = pc[c]
                   /\ renewing'[c] => renewing[c]
                   /\ row.owner # c => row'.owner # c
                   /\ row.owner = c /\ ~renewing[c] =>
                        row' = row \/ row'.owner # c \/ row'.left < row.left
<1>1. CASE Tick
  BY <1>1 DEF Tick, Less
<1>2. ASSUME NEW d \in Calls, DoAcquire(d) PROVE Goal
  <2>1. c # d /\ pc' = [pc EXCEPT ![d] = IF Grants(d) THEN "granted" ELSE "refused"]
        /\ UNCHANGED renewing
    BY <1>2 DEF DoAcquire, Goto
  <2>2. row' = row \/ row'.owner = d
    BY <1>2 DEF DoAcquire, Lease
  <2> QED BY <2>1, <2>2
<1>3. ASSUME NEW d \in Calls, DoRelease(d) PROVE Goal
  BY <1>3 DEF DoRelease, Goto, NoRow
<1>4. ASSUME NEW d \in Calls, DoRenew(d) PROVE Goal
  <2>1. UNCHANGED pc /\ renewing[d] /\ renewing' = [renewing EXCEPT ![d] = FALSE]
    BY <1>4 DEF DoRenew
  <2>2. row' = row \/ (row.owner = d /\ row'.owner = d)
    BY <1>4 DEF DoRenew, Lease
  <2>3. renewing'[c] => renewing[c]
    BY <2>1
  <2> QED BY <2>1, <2>2, <2>3
<1>5. ASSUME NEW d \in Calls, FireRenewer(d) PROVE Goal
  <2>1. d # c
    BY <1>5 DEF FireRenewer, Off
  <2> QED BY <1>5, <2>1 DEF FireRenewer
<1>6. ASSUME NEW d \in Calls, Ask(d) \/ Enter(d) \/ Refused(d) \/ Finish(d) PROVE Goal
  BY <1>6 DEF Ask, Enter, Refused, Finish, Goto
<1>7. ASSUME NEW d \in Calls, Fault(d) PROVE Goal
  BY <1>7 DEF Fault, LoseAcquire, LoseRelease, LoseRenew, Crash, Goto
<1> HIDE DEF Goal
<1>8. Goal
  BY <1>1, <1>2, <1>3, <1>4, <1>5, <1>6, <1>7 DEF Next, ObjectStep, CallerStep, Goal
<1> QED BY <1>8 DEF Goal

\* The lease of a call that is over cannot be kept alive: with time passing it runs out
\* (service.ts:98-104, do.ts:89-112).
THEOREM TheGoneOnlyLose == Spec => GoneOnlyLoses
<1>1. Init => NoStrayRenewer
  BY DEF Init, NoStrayRenewer
<1>2. TypeOK /\ NoStrayRenewer /\ [Next]_vars =>
        [\A c \in Calls : Gone(c) =>
           /\ pc'[c] = pc[c]
           /\ renewing'[c] => renewing[c]
           /\ row.owner # c => row'.owner # c
           /\ row.owner = c /\ ~renewing[c] =>
                row' = row \/ row'.owner # c \/ row'.left < row.left]_vars
  BY GoneStep
<1> QED BY <1>1, <1>2, StrayStep, TypeCorrect, PTL DEF Spec, GoneOnlyLoses

-----------------------------------------------------------------------------
(* The event bus: what an invocation has in hand.                          *)


ConsumerType == [at : Steps, batch : SUBSET Leases, todo : SUBSET Events,
                 event : Events \cup {None}, rest : SUBSET Subs, sub : Subs \cup {None}]

\* The record of an idle invocation.
LEMMA IdleType == Idle \in ConsumerType /\ Idle.at = "idle" /\ Idle.todo = {} /\ Idle.batch = {}
  BY DEF ConsumerType, Idle, Steps

Takes(c, a, B, T) ==
    /\ consumer' \in [Consumers -> ConsumerType]
    /\ consumer'[c].at = a
    /\ consumer'[c].batch = B
    /\ consumer'[c].todo = T
    /\ \A d \in Consumers : d # c => consumer'[d] = consumer[d]

\* Setting one invocation leaves the others.
LEMMA SetOne ==
  ASSUME consumer \in [Consumers -> ConsumerType], NEW c \in Consumers, NEW r \in ConsumerType,
         consumer' = [consumer EXCEPT ![c] = r]
  PROVE  /\ consumer' \in [Consumers -> ConsumerType]
         /\ consumer'[c] = r
         /\ \A d \in Consumers : d # c => consumer'[d] = consumer[d]
  OBVIOUS

\* The types of what an invocation has in hand.
LEMMA Fields ==
  ASSUME NEW r \in ConsumerType
  PROVE  /\ r.at \in Steps
         /\ r.batch \in SUBSET Leases
         /\ r.todo \in SUBSET Events
         /\ r.event \in Events \cup {None}
         /\ r.rest \in SUBSET Subs
         /\ r.sub \in Subs \cup {None}
  BY DEF ConsumerType

\* What an invocation has in hand fits where it is, and is of its batch.
InHand ==
    \A c \in Consumers :
        /\ consumer[c].todo \subseteq EventsOf(consumer[c].batch)
        /\ consumer[c].at \in {"idle", "end"} => consumer[c].todo = {}
        /\ consumer[c].at \in {"claim", "deliver", "record", "release"}
              => /\ consumer[c].event \in Events
                 /\ consumer[c].event \in EventsOf(consumer[c].batch)
        /\ consumer[c].at \in {"deliver", "record", "release"} => consumer[c].sub \in Subs
        /\ \A e \in EventsOf(consumer[c].batch) : e \in Events /\ message[e] # "unsent"

TriesLeft == \A e \in Events : message[e] \in {"unsent", "ready"} => tries[e] <= MaxRetries

BusInv == BusTypeOK /\ TriesLeft /\ InHand

\* A received batch is all ahead of the invocation.
LEMMA ReceiveEffect ==
  ASSUME BusTypeOK, TriesLeft, NEW c \in Consumers, Receive(c)
  PROVE  \E B \in SUBSET Events :
            /\ \A e \in B : message[e] = "ready"
            /\ message' = [e \in Events |-> IF e \in B THEN "leased" ELSE message[e]]
            /\ tries' = [e \in Events |-> IF e \in B THEN tries[e] + 1 ELSE tries[e]]
            /\ Takes(c, "next", {<<e, tries[e] + 1>> : e \in B}, B)
            /\ consumer[c].at = "idle"
<1>t. consumer \in [Consumers -> ConsumerType]
  BY DEF BusTypeOK, ConsumerType
<1>1. PICK B \in SUBSET {e \in Events : message[e] = "ready"} :
           /\ message' = [e \in Events |-> IF e \in B THEN "leased" ELSE message[e]]
           /\ tries' = [e \in Events |-> IF e \in B THEN tries[e] + 1 ELSE tries[e]]
           /\ consumer' = [consumer EXCEPT ![c] =
                [Idle EXCEPT !.at = "next", !.todo = B,
                             !.batch = {<<e, tries[e] + 1>> : e \in B}]]
  BY DEF Receive
<1> DEFINE L == {<<e, tries[e] + 1>> : e \in B}
<1>l. L \in SUBSET Leases
  BY EventBusAssumption DEF TriesLeft, BusTypeOK, Leases
<1>2. Takes(c, "next", L, B)
  <2> DEFINE q == [Idle EXCEPT !.at = "next", !.todo = B, !.batch = L]
  <2> HIDE DEF L
  <2>1. q \in ConsumerType /\ q.at = "next" /\ q.todo = B /\ q.batch = L
    BY <1>l DEF ConsumerType, Idle, Steps
  <2>2. consumer' = [consumer EXCEPT ![c] = q]
    BY <1>1 DEF L
  <2> HIDE DEF q
  <2> QED BY <2>1, <2>2, <1>t, SetOne DEF Takes
<1>3. consumer[c].at = "idle"
  BY DEF Receive
<1> QED BY <1>1, <1>2, <1>3

\* Select takes one message from those ahead, with the subscriptions that are on.
LEMMA SelectEffect ==
  ASSUME BusTypeOK, NEW c \in Consumers, Select(c)
  PROVE  \E e \in consumer[c].todo :
           LET T == consumer[c].todo \ {e}
           IN  \/ /\ On # {}
                  /\ Takes(c, "claim", consumer[c].batch, T)
                  /\ consumer'[c].event = e
                  /\ consumer'[c].rest = On
               \/ /\ On = {}
                  /\ Takes(c, IF T = {} THEN "end" ELSE "next", consumer[c].batch, T)
<1>t. consumer \in [Consumers -> ConsumerType]
  BY DEF BusTypeOK, ConsumerType
<1> DEFINE r == consumer[c]
<1>r. r \in ConsumerType /\ r.todo \in SUBSET Events
  BY <1>t, Fields
<1>1. PICK e \in r.todo :
         LET next == [r EXCEPT !.todo = @ \ {e}]
         IN  consumer' = [consumer EXCEPT ![c] =
                 IF On # {} THEN [next EXCEPT !.at = "claim", !.event = e, !.rest = On]
                 ELSE [next EXCEPT !.at = IF next.todo = {} THEN "end" ELSE "next"]]
  BY DEF Select
<1> DEFINE T == r.todo \ {e}
           a == IF T = {} THEN "end" ELSE "next"
           n == [r EXCEPT !.todo = T]
           q1 == [n EXCEPT !.at = "claim", !.event = e, !.rest = On]
           q2 == [n EXCEPT !.at = a]
<1>2. T \in SUBSET Events /\ e \in Events /\ On \in SUBSET Subs
  BY <1>r DEF On
<1>3. n.todo = T
  BY <1>r, <1>2 DEF ConsumerType
<1>4. consumer' = [consumer EXCEPT ![c] = IF On # {} THEN q1 ELSE q2]
  BY <1>1, <1>3
<1>5. "claim" \in Steps /\ a \in Steps
  BY DEF Steps
<1> HIDE DEF r, T
<1>6. q1 \in ConsumerType /\ q1.at = "claim" /\ q1.batch = r.batch /\ q1.todo = T
      /\ q1.event = e /\ q1.rest = On
  BY <1>2, <1>5, <1>r DEF ConsumerType
<1> HIDE DEF a
<1>7. q2 \in ConsumerType /\ q2.at = a /\ q2.batch = r.batch /\ q2.todo = T
  BY <1>2, <1>5, <1>r DEF ConsumerType
<1> HIDE DEF q1, q2
<1>8. CASE On # {}
  <2>1. consumer' = [consumer EXCEPT ![c] = q1]
    BY <1>4, <1>8
  <2>2. Takes(c, "claim", r.batch, T) /\ consumer'[c].event = e /\ consumer'[c].rest = On
    BY <2>1, <1>6, <1>t, SetOne DEF Takes
  <2> QED BY <2>2, <1>8, <1>1 DEF r, T
<1>9. CASE On = {}
  <2>1. consumer' = [consumer EXCEPT ![c] = q2]
    BY <1>4, <1>9
  <2>2. Takes(c, a, r.batch, T)
    BY <2>1, <1>7, <1>t, SetOne DEF Takes
  <2> QED BY <2>2, <1>9, <1>1 DEF r, T, a
<1> QED BY <1>8, <1>9

\* Onward goes to the next subscription, the next message or the end.
LEMMA OnwardEffect ==
  ASSUME BusTypeOK, NEW c \in Consumers, NEW R \in SUBSET Subs, Onward(c, R)
  PROVE  \/ /\ R = {}
            /\ Takes(c, IF consumer[c].todo = {} THEN "end" ELSE "next",
                     consumer[c].batch, consumer[c].todo)
         \/ /\ R # {}
            /\ Takes(c, "claim", consumer[c].batch, consumer[c].todo)
            /\ consumer'[c].event = consumer[c].event
            /\ consumer'[c].rest = R
<1>t. consumer \in [Consumers -> ConsumerType]
  BY DEF BusTypeOK, ConsumerType
<1> DEFINE r == consumer[c]
           a == IF r.todo = {} THEN "end" ELSE "next"
<1>r. r \in ConsumerType /\ r.todo \in SUBSET Events /\ r.batch \in SUBSET Leases
  BY <1>t, Fields
<1>5. "claim" \in Steps /\ a \in Steps /\ None \in Subs \cup {None}
  BY DEF Steps
<1> DEFINE q1 == [Idle EXCEPT !.at = a, !.batch = r.batch, !.todo = r.todo]
           q2 == [r EXCEPT !.at = "claim", !.rest = R, !.sub = None]
<1>4. consumer' = [consumer EXCEPT ![c] = IF R = {} THEN q1 ELSE q2]
  BY DEF Onward, Between
<1> HIDE DEF r, a
<1>6. q1 \in ConsumerType /\ q1.at = a /\ q1.batch = r.batch /\ q1.todo = r.todo
  BY <1>5, <1>r DEF ConsumerType, Idle
<1>7. q2 \in ConsumerType /\ q2.at = "claim" /\ q2.batch = r.batch /\ q2.todo = r.todo
      /\ q2.event = r.event /\ q2.rest = R
  BY <1>5, <1>r DEF ConsumerType
<1> HIDE DEF q1, q2
<1>8. CASE R = {}
  <2>1. consumer' = [consumer EXCEPT ![c] = q1]
    BY <1>4, <1>8
  <2>2. Takes(c, a, r.batch, r.todo)
    BY <2>1, <1>6, <1>t, SetOne DEF Takes
  <2> QED BY <2>2, <1>8 DEF r, a
<1>9. CASE R # {}
  <2>1. consumer' = [consumer EXCEPT ![c] = q2]
    BY <1>4, <1>9
  <2>2. Takes(c, "claim", r.batch, r.todo) /\ consumer'[c].event = r.event /\ consumer'[c].rest = R
    BY <2>1, <1>7, <1>t, SetOne DEF Takes
  <2> QED BY <2>2, <1>9 DEF r
<1> QED BY <1>8, <1>9

\* Claim inserts the row and takes the delivery in hand, or skips it.
LEMMA ClaimEffect ==
  ASSUME BusTypeOK, NEW c \in Consumers, Claim(c)
  PROVE  \E s \in consumer[c].rest :
           LET p == <<consumer[c].event, s>>
           IN  \/ /\ claims[p] = "none"
                  /\ claims' = [claims EXCEPT ![p] = "pending"]
                  /\ Takes(c, "deliver", consumer[c].batch, consumer[c].todo)
                  /\ consumer'[c].event = consumer[c].event
                  /\ consumer'[c].rest = consumer[c].rest \ {s}
                  /\ consumer'[c].sub = s
               \/ /\ claims[p] # "none"
                  /\ UNCHANGED claims
                  /\ Onward(c, consumer[c].rest \ {s})
<1>t. consumer \in [Consumers -> ConsumerType]
  BY DEF BusTypeOK, ConsumerType
<1> DEFINE r == consumer[c]
<1>r. r \in ConsumerType /\ r.rest \in SUBSET Subs
  BY <1>t, Fields
<1>1. PICK s \in r.rest :
         LET p == <<r.event, s>>
             rest == r.rest \ {s}
         IN  IF claims[p] = "none"
             THEN /\ claims' = [claims EXCEPT ![p] = "pending"]
                  /\ consumer' = [consumer EXCEPT ![c] =
                         [r EXCEPT !.at = "deliver", !.rest = rest, !.sub = s]]
             ELSE Onward(c, rest) /\ UNCHANGED claims
  BY DEF Claim
<1> DEFINE R == r.rest \ {s}
           q == [r EXCEPT !.at = "deliver", !.rest = R, !.sub = s]
<1>2. "deliver" \in Steps /\ R \in SUBSET Subs /\ s \in Subs \cup {None}
  BY <1>r DEF Steps
<1>3. CASE claims[<<r.event, s>>] = "none"
  <2>1. consumer' = [consumer EXCEPT ![c] = q] /\ claims' = [claims EXCEPT ![<<r.event, s>>] = "pending"]
    BY <1>1, <1>3
  <2> HIDE DEF r, R
  <2>2. q \in ConsumerType /\ q.at = "deliver" /\ q.batch = r.batch /\ q.todo = r.todo
        /\ q.event = r.event /\ q.rest = R /\ q.sub = s
    BY <1>2, <1>r DEF ConsumerType
  <2> HIDE DEF q
  <2>3. Takes(c, "deliver", r.batch, r.todo) /\ consumer'[c].event = r.event
        /\ consumer'[c].rest = R /\ consumer'[c].sub = s
    BY <2>1, <2>2, <1>t, SetOne DEF Takes
  <2> QED BY <2>1, <2>3, <1>3, <1>1 DEF r, R
<1>4. CASE claims[<<r.event, s>>] # "none"
  BY <1>1, <1>4
<1> QED BY <1>3, <1>4

\* StepTo moves an invocation within its delivery.
LEMMA StepToEffect ==
  ASSUME BusTypeOK, NEW c \in Consumers, NEW a \in Steps, StepTo(c, a)
  PROVE  /\ Takes(c, a, consumer[c].batch, consumer[c].todo)
         /\ consumer'[c].event = consumer[c].event
         /\ consumer'[c].rest = consumer[c].rest
         /\ consumer'[c].sub = consumer[c].sub
<1>t. consumer \in [Consumers -> ConsumerType]
  BY DEF BusTypeOK, ConsumerType
<1> DEFINE r == consumer[c]
           q == [r EXCEPT !.at = a]
<1>1. consumer' = [consumer EXCEPT ![c] = q]
  BY DEF StepTo
<1>2. r \in ConsumerType
  BY <1>t
<1> HIDE DEF r
<1>3. q \in ConsumerType /\ q.at = a /\ q.batch = r.batch /\ q.todo = r.todo
      /\ q.event = r.event /\ q.rest = r.rest /\ q.sub = r.sub
  BY <1>2 DEF ConsumerType
<1> HIDE DEF q
<1>4. Takes(c, a, r.batch, r.todo) /\ consumer'[c].event = r.event
      /\ consumer'[c].rest = r.rest /\ consumer'[c].sub = r.sub
  BY <1>1, <1>3, <1>t, SetOne DEF Takes
<1> QED BY <1>4 DEF r

\* Throw ends the batch and marks its messages.
LEMMA ThrowEffect ==
  ASSUME BusTypeOK, NEW c \in Consumers, Throw(c)
  PROVE  /\ Takes(c, "end", consumer[c].batch, {})
         /\ aborted' = aborted \cup EventsOf(consumer[c].batch)
<1>t. consumer \in [Consumers -> ConsumerType]
  BY DEF BusTypeOK, ConsumerType
<1> DEFINE B == consumer[c].batch
           q == [Idle EXCEPT !.at = "end", !.batch = B]
<1>1. consumer' = [consumer EXCEPT ![c] = q]
  BY DEF Throw
<1>2. B \in SUBSET Leases
  BY <1>t, Fields
<1> HIDE DEF B
<1>3. q \in ConsumerType /\ q.at = "end" /\ q.batch = B /\ q.todo = {}
  BY <1>2 DEF ConsumerType, Idle, Steps
<1> HIDE DEF q
<1>4. Takes(c, "end", B, {})
  BY <1>1, <1>3, <1>t, SetOne DEF Takes
<1> QED BY <1>4 DEF B, Throw

\* An invocation that returns or dies has nothing in hand.
LEMMA IdleEffect ==
  ASSUME BusTypeOK, NEW c \in Consumers, consumer' = [consumer EXCEPT ![c] = Idle]
  PROVE  Takes(c, "idle", {}, {})
<1>t. consumer \in [Consumers -> ConsumerType]
  BY DEF BusTypeOK, ConsumerType
<1> QED BY <1>t, IdleType, SetOne DEF Takes

\* The initial state of the bus satisfies BusInv.
LEMMA BusInitInv == BusInit => BusInv
<1> SUFFICES ASSUME BusInit PROVE BusInv
  OBVIOUS
<1>1. consumer \in [Consumers -> ConsumerType]
  BY IdleType DEF BusInit
<1>2. BusTypeOK
  BY <1>1, EventBusAssumption DEF BusInit, BusTypeOK, ConsumerType
<1>3. InHand
  BY IdleType DEF BusInit, InHand, EventsOf
<1>4. TriesLeft
  BY EventBusAssumption DEF BusInit, TriesLeft
<1> QED BY <1>2, <1>3, <1>4 DEF BusInv

\* What the state of an invocation that works on a delivery is.
LEMMA InHandFacts ==
  ASSUME BusInv, NEW c \in Consumers
  PROVE  /\ consumer \in [Consumers -> ConsumerType]
         /\ consumer[c].at \in Steps
         /\ consumer[c].rest \in SUBSET Subs
         /\ consumer[c].batch \in SUBSET Leases
         /\ consumer[c].todo \in SUBSET Events
         /\ EventsOf(consumer[c].batch) \subseteq Events
         /\ consumer[c].at \in {"claim", "deliver", "record", "release"}
              => consumer[c].event \in EventsOf(consumer[c].batch)
         /\ consumer[c].at \in {"deliver", "record", "release"} => Delivery(c) \in Pairs
<1>1. consumer \in [Consumers -> ConsumerType]
  BY DEF BusInv, BusTypeOK, ConsumerType
<1>2. consumer[c] \in ConsumerType
  BY <1>1
<1>3. EventsOf(consumer[c].batch) \subseteq Events
  BY DEF BusInv, InHand
<1>4. consumer[c].at \in {"deliver", "record", "release"} => Delivery(c) \in Pairs
  BY DEF BusInv, InHand, Delivery, Pairs
<1>5. consumer[c].at \in {"claim", "deliver", "record", "release"}
              => consumer[c].event \in EventsOf(consumer[c].batch)
  BY DEF BusInv, InHand
<1> QED BY <1>1, <1>2, <1>3, <1>4, <1>5, Fields

\* A step that sets one invocation to what its batch allows, and leaves the queue.
LEMMA InHandStep ==
  ASSUME BusInv, NEW c \in Consumers, NEW a, NEW T, NEW B,
         Takes(c, a, B, T),
         B \in {{}, consumer[c].batch}, T \subseteq EventsOf(B),
         a \in {"idle", "end"} => T = {},
         a \in {"claim", "deliver", "record", "release"}
            => consumer'[c].event \in EventsOf(B),
         a \in {"deliver", "record", "release"} => consumer'[c].sub \in Subs,
         \A e \in Events : message[e] # "unsent" => message'[e] # "unsent"
  PROVE  InHand'
<1>1. EventsOf(B) \subseteq EventsOf(consumer[c].batch)
  BY DEF EventsOf
<1>2. \A e \in EventsOf(consumer[c].batch) : e \in Events /\ message[e] # "unsent"
  BY DEF BusInv, InHand
<1> SUFFICES ASSUME NEW d \in Consumers
             PROVE  /\ consumer'[d].todo \subseteq EventsOf(consumer'[d].batch)
                    /\ consumer'[d].at \in {"idle", "end"} => consumer'[d].todo = {}
                    /\ consumer'[d].at \in {"claim", "deliver", "record", "release"}
                          => /\ consumer'[d].event \in Events
                             /\ consumer'[d].event \in EventsOf(consumer'[d].batch)
                    /\ consumer'[d].at \in {"deliver", "record", "release"} => consumer'[d].sub \in Subs
                    /\ \A e \in EventsOf(consumer'[d].batch) : e \in Events /\ message'[e] # "unsent"
  BY DEF InHand, EventsOf
<1>3. CASE d = c
  BY <1>1, <1>2, <1>3 DEF Takes
<1>4. CASE d # c
  <2>1. consumer'[d] = consumer[d]
    BY <1>4 DEF Takes
  <2> QED BY <2>1 DEF BusInv, InHand
<1> QED BY <1>3, <1>4

\* A step of one invocation that leaves the messages as they are.
LEMMA OwnStep ==
  ASSUME BusInv, NEW c \in Consumers, NEW a, NEW T, NEW B,
         Takes(c, a, B, T),
         B \in {{}, consumer[c].batch}, T \subseteq EventsOf(B),
         a \in {"idle", "end"} => T = {},
         a \in {"claim", "deliver", "record", "release"}
            => consumer'[c].event \in EventsOf(B),
         a \in {"deliver", "record", "release"} => consumer'[c].sub \in Subs,
         UNCHANGED <<message, tries, subscribed, due>>,
         claims' \in [Pairs -> {"none", "pending", "done"}], received' \in [Pairs -> Nat],
         aborted' \subseteq Events, mishaps' \in 0..MaxMishaps
  PROVE  BusInv'
<1>1. InHand'
  BY InHandStep
<1>2. TriesLeft'
  BY DEF BusInv, TriesLeft
<1>3. BusTypeOK'
  BY DEF BusInv, BusTypeOK, Takes, ConsumerType
<1> QED BY <1>1, <1>2, <1>3 DEF BusInv

\* A step that leaves the invocations as they are.
LEMMA QueueStep ==
  ASSUME BusInv, UNCHANGED consumer, BusTypeOK', TriesLeft',
         \A e \in Events : message[e] # "unsent" => message'[e] # "unsent"
  PROVE  BusInv'
<1>1. InHand'
  BY DEF BusInv, InHand, EventsOf
<1> QED BY <1>1 DEF BusInv

\* BusTypeOK, with the type of an invocation named.
LEMMA BusTyped ==
  ASSUME BusInv
  PROVE  /\ message \in [Events -> {"unsent", "ready", "leased", "acked", "dead"}]
         /\ tries \in [Events -> 0..MaxRetries + 1]
         /\ subscribed \in [Subs -> {"new", "on", "gone"}]
         /\ claims \in [Pairs -> {"none", "pending", "done"}]
         /\ consumer \in [Consumers -> ConsumerType]
         /\ due \in [Events -> SUBSET Subs]
         /\ received \in [Pairs -> Nat]
         /\ aborted \subseteq Events
         /\ mishaps \in 0..MaxMishaps
  BY DEF BusInv, BusTypeOK, ConsumerType

\* Every step of the bus preserves BusInv.
LEMMA BusInvStep == BusInv /\ [BusNext]_busVars => BusInv'
<1> SUFFICES ASSUME BusInv, [BusNext]_busVars PROVE BusInv'
  OBVIOUS
<1> USE EventBusAssumption
<1>t. /\ message \in [Events -> {"unsent", "ready", "leased", "acked", "dead"}]
      /\ tries \in [Events -> 0..MaxRetries + 1]
      /\ subscribed \in [Subs -> {"new", "on", "gone"}]
      /\ claims \in [Pairs -> {"none", "pending", "done"}]
      /\ consumer \in [Consumers -> ConsumerType]
      /\ due \in [Events -> SUBSET Subs]
      /\ received \in [Pairs -> Nat]
      /\ aborted \subseteq Events
      /\ mishaps \in 0..MaxMishaps
  BY BusTyped
<1>k. BusTypeOK /\ TriesLeft /\ InHand
  BY DEF BusInv
<1>1. ASSUME NEW e \in Events, publish(e) PROVE BusInv'
  <2>1. BusTypeOK'
    BY <1>t, <1>1 DEF publish, BusTypeOK, ConsumerType, On
  <2>2. TriesLeft'
    BY <1>t, <1>k, <1>1 DEF publish, TriesLeft
  <2> QED BY <2>1, <2>2, <1>t, <1>1, QueueStep DEF publish
<1>2. ASSUME NEW s \in Subs, subscribe(s) PROVE BusInv'
  <2>1. BusTypeOK' /\ TriesLeft'
    BY <1>t, <1>k, <1>2 DEF subscribe, BusTypeOK, ConsumerType, TriesLeft
  <2> QED BY <2>1, <1>2, QueueStep DEF subscribe
<1>3. ASSUME NEW s \in Subs, unsubscribe(s) PROVE BusInv'
  <2>1. BusTypeOK' /\ TriesLeft'
    BY <1>t, <1>k, <1>3 DEF unsubscribe, BusTypeOK, ConsumerType, TriesLeft
  <2> QED BY <2>1, <1>3, QueueStep DEF unsubscribe
<1>4. ASSUME NEW e \in Events, LeaseEnds(e) PROVE BusInv'
  <2>1. BusTypeOK' /\ TriesLeft'
    BY <1>t, <1>k, <1>4 DEF LeaseEnds, BusTypeOK, ConsumerType, TriesLeft
  <2> QED BY <2>1, <1>t, <1>4, QueueStep DEF LeaseEnds
<1>5. ASSUME NEW e \in Events, pruneEventDeliveries(e) PROVE BusInv'
  <2>1. BusTypeOK' /\ TriesLeft'
    BY <1>t, <1>k, <1>5 DEF pruneEventDeliveries, BusTypeOK, ConsumerType, Pairs, TriesLeft
  <2> QED BY <2>1, <1>5, QueueStep DEF pruneEventDeliveries
<1>6. ASSUME NEW c \in Consumers, Receive(c) PROVE BusInv'
  <2>1. PICK B \in SUBSET Events :
            /\ \A e \in B : message[e] = "ready"
            /\ message' = [e \in Events |-> IF e \in B THEN "leased" ELSE message[e]]
            /\ tries' = [e \in Events |-> IF e \in B THEN tries[e] + 1 ELSE tries[e]]
            /\ Takes(c, "next", {<<e, tries[e] + 1>> : e \in B}, B)
    BY <1>k, <1>6, ReceiveEffect
  <2>2. UNCHANGED <<subscribed, claims, due, received, aborted, mishaps>>
    BY <1>6 DEF Receive
  <2>3. tries' \in [Events -> 0..MaxRetries + 1]
    BY <2>1, <1>t, <1>k DEF TriesLeft
  <2>4. BusTypeOK'
    BY <2>1, <2>2, <2>3, <1>t DEF BusTypeOK, Takes, ConsumerType
  <2>5. TriesLeft'
    BY <2>1, <1>t, <1>k DEF TriesLeft
  <2>6. InHand'
    <3> DEFINE L == {<<e, tries[e] + 1>> : e \in B}
    <3>1. EventsOf(L) = B
      <4>1. ASSUME NEW e \in B PROVE e \in EventsOf(L)
        <5>1. <<e, tries[e] + 1>> \in L
          OBVIOUS
        <5>2. <<e, tries[e] + 1>>[1] = e
          OBVIOUS
        <5> HIDE DEF L
        <5> QED BY <5>1, <5>2 DEF EventsOf
      <4>2. ASSUME NEW f \in EventsOf(L) PROVE f \in B
        <5>1. PICK l \in L : f = l[1]
          BY <4>2 DEF EventsOf
        <5>2. PICK e \in B : l = <<e, tries[e] + 1>>
          BY <5>1
        <5> QED BY <5>1, <5>2
      <4> HIDE DEF L
      <4> QED BY <4>1, <4>2
    <3>2. \A e \in Events : message[e] # "unsent" => message'[e] # "unsent"
      BY <2>1, <1>t
    <3>3. \A e \in B : message'[e] # "unsent"
      BY <2>1, <1>t
    <3> HIDE DEF L
    <3>4. Takes(c, "next", L, B)
      BY <2>1 DEF L
    <3> SUFFICES ASSUME NEW d \in Consumers
                 PROVE  /\ consumer'[d].todo \subseteq EventsOf(consumer'[d].batch)
                        /\ consumer'[d].at \in {"idle", "end"} => consumer'[d].todo = {}
                        /\ consumer'[d].at \in {"claim", "deliver", "record", "release"}
                              => /\ consumer'[d].event \in Events
                                 /\ consumer'[d].event \in EventsOf(consumer'[d].batch)
                        /\ consumer'[d].at \in {"deliver", "record", "release"} => consumer'[d].sub \in Subs
                        /\ \A e \in EventsOf(consumer'[d].batch) : e \in Events /\ message'[e] # "unsent"
      BY DEF InHand, EventsOf
    <3>5. CASE d = c
      BY <3>1, <3>3, <3>4, <3>5 DEF Takes
    <3>6. CASE d # c
      <4>1. consumer'[d] = consumer[d]
        BY <3>4, <3>6 DEF Takes
      <4> QED BY <4>1, <3>2, <1>k DEF InHand
    <3> QED BY <3>5, <3>6
  <2> QED BY <2>4, <2>5, <2>6 DEF BusInv
<1>7. ASSUME NEW c \in Consumers, Select(c) PROVE BusInv'
  <2>1. UNCHANGED <<message, tries, subscribed, claims, due, received, aborted, mishaps>>
    BY <1>7 DEF Select
  <2>2. PICK e \in consumer[c].todo :
           LET T == consumer[c].todo \ {e}
           IN  \/ /\ On # {}
                  /\ Takes(c, "claim", consumer[c].batch, T)
                  /\ consumer'[c].event = e
                  /\ consumer'[c].rest = On
               \/ /\ On = {}
                  /\ Takes(c, IF T = {} THEN "end" ELSE "next", consumer[c].batch, T)
    BY <1>k, <1>7, SelectEffect
  <2>3. consumer[c].todo \subseteq EventsOf(consumer[c].batch)
    BY <1>k DEF InHand
  <2> DEFINE T == consumer[c].todo \ {e}
  <2>4. T \subseteq EventsOf(consumer[c].batch) /\ e \in EventsOf(consumer[c].batch)
    BY <2>3
  <2>5. CASE On # {}
    <3>1. Takes(c, "claim", consumer[c].batch, T) /\ consumer'[c].event = e
      BY <2>2, <2>5
    <3> HIDE DEF T
    <3> QED BY <3>1, <2>1, <2>4, <1>t, OwnStep
  <2>6. CASE On = {}
    <3>1. Takes(c, IF T = {} THEN "end" ELSE "next", consumer[c].batch, T)
      BY <2>2, <2>6
    <3> HIDE DEF T
    <3>2. CASE T = {}
      <4>1. Takes(c, "end", consumer[c].batch, T)
        BY <3>1, <3>2
      <4> QED BY <4>1, <3>2, <2>1, <2>4, <1>t, OwnStep
    <3>3. CASE T # {}
      <4>1. Takes(c, "next", consumer[c].batch, T)
        BY <3>1, <3>3
      <4> QED BY <4>1, <2>1, <2>4, <1>t, OwnStep
    <3> QED BY <3>2, <3>3
  <2> QED BY <2>5, <2>6
<1>on. ASSUME NEW c \in Consumers, consumer[c].at \in {"claim", "record"},
              NEW R \in SUBSET Subs, Onward(c, R),
              UNCHANGED <<message, tries, subscribed, due, received, aborted, mishaps>>,
              claims' \in [Pairs -> {"none", "pending", "done"}]
       PROVE  BusInv'
  <2>1. consumer[c].event \in EventsOf(consumer[c].batch)
        /\ consumer[c].todo \subseteq EventsOf(consumer[c].batch)
    BY <1>k, <1>on DEF InHand
  <2>2. CASE R = {}
    <3>1. Takes(c, IF consumer[c].todo = {} THEN "end" ELSE "next", consumer[c].batch, consumer[c].todo)
      BY <1>k, <1>on, <2>2, OnwardEffect
    <3>2. CASE consumer[c].todo = {}
      <4>1. Takes(c, "end", consumer[c].batch, consumer[c].todo)
        BY <3>1, <3>2
      <4> QED BY <4>1, <3>2, <2>1, <1>on, <1>t, OwnStep
    <3>3. CASE consumer[c].todo # {}
      <4>1. Takes(c, "next", consumer[c].batch, consumer[c].todo)
        BY <3>1, <3>3
      <4> QED BY <4>1, <2>1, <1>on, <1>t, OwnStep
    <3> QED BY <3>2, <3>3
  <2>3. CASE R # {}
    <3>1. Takes(c, "claim", consumer[c].batch, consumer[c].todo)
          /\ consumer'[c].event = consumer[c].event
      BY <1>k, <1>on, <2>3, OnwardEffect
    <3> QED BY <3>1, <2>1, <1>on, <1>t, OwnStep
  <2> QED BY <2>2, <2>3
<1>th. ASSUME NEW c \in Consumers, Throw(c),
              UNCHANGED <<message, tries, subscribed, due>>,
              claims' \in [Pairs -> {"none", "pending", "done"}],
              received' \in [Pairs -> Nat], mishaps' \in 0..MaxMishaps
       PROVE  BusInv'
  <2>1. Takes(c, "end", consumer[c].batch, {}) /\ aborted' = aborted \cup EventsOf(consumer[c].batch)
    BY <1>k, <1>th, ThrowEffect
  <2>2. aborted' \subseteq Events
    <3>1. EventsOf(consumer[c].batch) \subseteq Events
      BY InHandFacts
    <3> QED BY <3>1, <2>1, <1>t
  <2> QED BY <2>1, <2>2, <1>th, OwnStep
<1>st. ASSUME NEW c \in Consumers, NEW a \in {"record", "release"}, StepTo(c, a),
              consumer[c].at \in {"deliver", "record"},
              UNCHANGED <<message, tries, subscribed, due, claims, aborted>>,
              received' \in [Pairs -> Nat], mishaps' \in 0..MaxMishaps
       PROVE  BusInv'
  <2>1. /\ Takes(c, a, consumer[c].batch, consumer[c].todo)
        /\ consumer'[c].event = consumer[c].event
        /\ consumer'[c].sub = consumer[c].sub
    BY <1>k, <1>st, StepToEffect DEF Steps
  <2>2. /\ consumer[c].event \in EventsOf(consumer[c].batch)
        /\ consumer[c].todo \subseteq EventsOf(consumer[c].batch)
        /\ consumer[c].sub \in Subs
    BY <1>k, <1>st DEF InHand
  <2> QED BY <2>1, <2>2, <1>st, <1>t, OwnStep
<1>8. ASSUME NEW c \in Consumers, Claim(c) PROVE BusInv'
  <2>1. UNCHANGED <<message, tries, subscribed, due, received, aborted, mishaps>>
        /\ consumer[c].at = "claim"
    BY <1>8 DEF Claim
  <2>2. PICK s \in consumer[c].rest :
           LET p == <<consumer[c].event, s>>
           IN  \/ /\ claims[p] = "none"
                  /\ claims' = [claims EXCEPT ![p] = "pending"]
                  /\ Takes(c, "deliver", consumer[c].batch, consumer[c].todo)
                  /\ consumer'[c].event = consumer[c].event
                  /\ consumer'[c].rest = consumer[c].rest \ {s}
                  /\ consumer'[c].sub = s
               \/ /\ claims[p] # "none"
                  /\ UNCHANGED claims
                  /\ Onward(c, consumer[c].rest \ {s})
    BY <1>k, <1>8, ClaimEffect
  <2>3. s \in Subs /\ consumer[c].rest \ {s} \in SUBSET Subs
    BY InHandFacts
  <2>4. /\ consumer[c].event \in EventsOf(consumer[c].batch)
        /\ consumer[c].todo \subseteq EventsOf(consumer[c].batch)
    BY <1>k, <2>1 DEF InHand
  <2>5. CASE claims[<<consumer[c].event, s>>] = "none"
    <3>1. claims' \in [Pairs -> {"none", "pending", "done"}]
      BY <2>2, <2>5, <1>t
    <3>2. /\ Takes(c, "deliver", consumer[c].batch, consumer[c].todo)
          /\ consumer'[c].event = consumer[c].event
          /\ consumer'[c].sub = s
      BY <2>2, <2>5
    <3> QED BY <3>1, <3>2, <2>1, <2>3, <2>4, <1>t, OwnStep
  <2>6. CASE claims[<<consumer[c].event, s>>] # "none"
    <3>1. UNCHANGED claims /\ Onward(c, consumer[c].rest \ {s})
      BY <2>2, <2>6
    <3> QED BY <3>1, <2>1, <2>3, <1>t, <1>on
  <2> QED BY <2>5, <2>6
<1>9. ASSUME NEW c \in Consumers, DeliverTaken(c) PROVE BusInv'
  <2>1. received' \in [Pairs -> Nat]
    <3>1. Delivery(c) \in Pairs
      BY <1>9, InHandFacts DEF DeliverTaken
    <3>2. received[Delivery(c)] \in Nat
      BY <3>1, <1>t
    <3> QED BY <3>1, <3>2, <1>9, <1>t DEF DeliverTaken
  <2> QED BY <2>1, <1>9, <1>st, <1>t DEF DeliverTaken
<1>10. ASSUME NEW c \in Consumers, DeliverThrows(c) PROVE BusInv'
  <2>1. received' \in [Pairs -> Nat]
    <3>1. Delivery(c) \in Pairs
      BY <1>10, InHandFacts DEF DeliverThrows
    <3>2. received[Delivery(c)] \in Nat
      BY <3>1, <1>t
    <3> QED BY <3>1, <3>2, <1>10, <1>t DEF DeliverThrows
  <2> QED BY <2>1, <1>10, <1>st, <1>t DEF DeliverThrows
<1>11. ASSUME NEW c \in Consumers, Record(c) PROVE BusInv'
  <2>1. claims' \in [Pairs -> {"none", "pending", "done"}]
    BY <1>11, <1>t DEF Record
  <2>2. consumer[c].rest \in SUBSET Subs
    BY InHandFacts
  <2> QED BY <2>1, <2>2, <1>11, <1>on DEF Record
<1>12. ASSUME NEW c \in Consumers, Release(c) PROVE BusInv'
  <2>1. claims' \in [Pairs -> {"none", "pending", "done"}] /\ received' \in [Pairs -> Nat]
    BY <1>12, <1>t DEF Release
  <2> QED BY <2>1, <1>12, <1>th, <1>t DEF Release
<1>13. ASSUME NEW c \in Consumers, StatementFails(c) PROVE BusInv'
  <2>1. mishaps' \in 0..MaxMishaps /\ UNCHANGED <<message, tries, subscribed, claims, due, received>>
    BY <1>13, <1>t DEF StatementFails, Mishap
  <2>2. \/ consumer[c].at = "record" /\ StepTo(c, "release") /\ UNCHANGED aborted
        \/ Throw(c)
    BY <1>13 DEF StatementFails
  <2> QED BY <2>1, <2>2, <1>st, <1>th, <1>t
<1>14. ASSUME NEW c \in Consumers, Kill(c) PROVE BusInv'
  <2>1. mishaps' \in 0..MaxMishaps /\ UNCHANGED <<message, tries, subscribed, claims, due, received>>
    BY <1>14, <1>t DEF Kill, Mishap
  <2>2. aborted' \subseteq Events
    <3>1. EventsOf(consumer[c].batch) \subseteq Events
      BY InHandFacts
    <3> QED BY <3>1, <1>14, <1>t DEF Kill
  <2>3. Takes(c, "idle", {}, {})
    <3>1. consumer' = [consumer EXCEPT ![c] = Idle]
      BY <1>14 DEF Kill
    <3> QED BY <3>1, <1>k, IdleEffect
  <2> QED BY <2>1, <2>2, <2>3, <1>t, OwnStep
<1>15. ASSUME NEW c \in Consumers, Return(c) PROVE BusInv'
  <2>1. message' \in [Events -> {"unsent", "ready", "leased", "acked", "dead"}]
        /\ \A e \in Events : message'[e] \in {"unsent", "ready"} => message'[e] = message[e]
        /\ \A f \in Events : message[f] # "unsent" => message'[f] # "unsent"
    BY <1>15, <1>t DEF Return
  <2>2. UNCHANGED <<tries, subscribed, claims, due, received, aborted, mishaps>>
    BY <1>15 DEF Return
  <2>3. Takes(c, "idle", {}, {})
    <3>1. consumer' = [consumer EXCEPT ![c] = Idle]
      BY <1>15 DEF Return
    <3> QED BY <3>1, <1>k, IdleEffect
  <2>4. InHand'
    BY <2>1, <2>3, InHandStep
  <2>5. TriesLeft'
    BY <2>1, <2>2, <1>k DEF TriesLeft
  <2>6. BusTypeOK'
    BY <2>1, <2>2, <2>3, <1>t DEF BusTypeOK, Takes, ConsumerType
  <2> QED BY <2>4, <2>5, <2>6 DEF BusInv
<1>16. CASE UNCHANGED busVars
  BY <1>k, <1>16 DEF busVars, BusInv, BusTypeOK, TriesLeft, InHand, EventsOf
<1> QED
  BY <1>1, <1>2, <1>3, <1>4, <1>5, <1>6, <1>7, <1>8, <1>9, <1>10, <1>11, <1>12, <1>13, <1>14,
     <1>15, <1>16 DEF BusNext, Work

\* Each variable of the bus keeps its type.
THEOREM BusTypeCorrect == BusSpec => []BusTypeOK
<1>1. BusInv => BusTypeOK
  BY DEF BusInv
<1> QED BY <1>1, BusInitInv, BusInvStep, PTL DEF BusSpec

-----------------------------------------------------------------------------
(* What a step does to the deliveries in hand.                             *)

\* p is in the hands of c, and not yet made; or made, and not yet recorded.
About(c, p) == consumer[c].at = "deliver" /\ Delivery(c) = p
Having(c, p) == consumer[c].at = "record" /\ Delivery(c) = p

Keeps(c) ==
    \A p \in Pairs : /\ Delivering(c, p)' <=> Delivering(c, p)
                     /\ About(c, p)' => About(c, p)
                     /\ Having(c, p)' => Having(c, p)

OthersKeep(c) == \A d \in Consumers : d # c => Keeps(d)
Stops(c) == \A p \in Pairs : ~Delivering(c, p)' /\ ~About(c, p)' /\ ~Having(c, p)'

Quiet == (\A d \in Consumers : Keeps(d)) /\ UNCHANGED <<claims, received>>

Begins(c, p) ==
    /\ OthersKeep(c)
    /\ \A q \in Pairs : ~Delivering(c, q)
    /\ p[1] \in EventsOf(consumer[c].batch)
    /\ claims[p] = "none"
    /\ claims' = [claims EXCEPT ![p] = "pending"]
    /\ UNCHANGED received
    /\ \A q \in Pairs : /\ Delivering(c, q)' => q = p
                        /\ About(c, q)' => q = p
                        /\ ~Having(c, q)'
    /\ Delivering(c, p)'

Makes(c, p) ==
    /\ OthersKeep(c)
    /\ About(c, p)
    /\ UNCHANGED claims
    /\ \A q \in Pairs : /\ Delivering(c, q)' <=> q = p
                        /\ ~About(c, q)'
                        /\ Having(c, q)' => q = p
    /\ \/ received' = [received EXCEPT ![p] = @ + 1]
       \/ UNCHANGED received /\ \A q \in Pairs : ~Having(c, q)'

Ends(c, p) ==
    /\ OthersKeep(c)
    /\ Having(c, p)
    /\ claims' = [claims EXCEPT ![p] = IF @ = "none" THEN "none" ELSE "done"]
    /\ UNCHANGED received
    /\ Stops(c)

GivesBack(c, p) ==
    /\ OthersKeep(c)
    /\ Delivering(c, p)
    /\ claims' = [claims EXCEPT ![p] = "none"]
    /\ received' = [received EXCEPT ![p] = 0]
    /\ EventsOf(consumer[c].batch) \subseteq aborted'
    /\ Stops(c)

Quits(c) ==
    /\ OthersKeep(c)
    /\ UNCHANGED <<claims, received>>
    /\ EventsOf(consumer[c].batch) \subseteq aborted'
    /\ Stops(c)

Prunes(e) ==
    /\ \A d \in Consumers : Keeps(d) /\ e \notin EventsOf(consumer[d].batch)
    /\ message[e] \in {"acked", "dead"}
    /\ claims' = [p \in Pairs |-> IF p[1] = e THEN "none" ELSE claims[p]]
    /\ UNCHANGED received

\* A step of one invocation leaves the deliveries of the others.
LEMMA TakesOthers ==
  ASSUME NEW c \in Consumers, NEW a, NEW B, NEW T, Takes(c, a, B, T)
  PROVE  OthersKeep(c)
<1> SUFFICES ASSUME NEW d \in Consumers, d # c, NEW p \in Pairs
             PROVE /\ Delivering(d, p)' <=> Delivering(d, p)
                   /\ About(d, p)' => About(d, p)
                   /\ Having(d, p)' => Having(d, p)
  BY DEF OthersKeep, Keeps
<1>1. consumer'[d] = consumer[d]
  BY DEF Takes
<1> QED BY <1>1 DEF Delivering, About, Having, Delivery

\* Outside of deliver, record and release there is no delivery in hand.
LEMMA TakesStops ==
  ASSUME NEW c \in Consumers, NEW a \in {"idle", "next", "claim", "end"}, NEW B, NEW T,
         Takes(c, a, B, T)
  PROVE  Stops(c) /\ OthersKeep(c)
<1>1. consumer'[c].at = a
  BY DEF Takes
<1>2. Stops(c)
  BY <1>1 DEF Stops, Delivering, About, Having
<1> QED BY <1>2, TakesOthers

\* A step that leaves the invocations leaves their deliveries.
LEMMA SameKeeps ==
  ASSUME UNCHANGED consumer
  PROVE  \A d \in Consumers : Keeps(d)
  BY DEF Keeps, Delivering, About, Having, Delivery

\* An invocation with no delivery in its hands keeps it so.
LEMMA StopsIsQuiet ==
  ASSUME NEW c \in Consumers, consumer[c].at \notin {"deliver", "record", "release"},
         Stops(c), OthersKeep(c), UNCHANGED <<claims, received>>
  PROVE  Quiet
<1>1. \A p \in Pairs : ~Delivering(c, p)
  BY DEF Delivering
<1>2. Keeps(c)
  BY <1>1 DEF Keeps, Stops
<1> QED BY <1>2 DEF Quiet, OthersKeep

\* Onward puts the delivery down.
LEMMA OnwardStops ==
  ASSUME BusInv, NEW c \in Consumers, NEW R \in SUBSET Subs, Onward(c, R)
  PROVE  Stops(c) /\ OthersKeep(c)
<1>1. BusTypeOK
  BY DEF BusInv
<1>2. PICK a \in {"end", "next", "claim"} : Takes(c, a, consumer[c].batch, consumer[c].todo)
  BY <1>1, OnwardEffect
<1> QED BY <1>2, TakesStops

\* Throw puts the delivery down and marks the messages of the batch.
LEMMA ThrowStops ==
  ASSUME BusInv, NEW c \in Consumers, Throw(c)
  PROVE  Stops(c) /\ OthersKeep(c) /\ EventsOf(consumer[c].batch) \subseteq aborted'
<1>1. BusTypeOK
  BY DEF BusInv
<1>2. Takes(c, "end", consumer[c].batch, {})
      /\ aborted' = aborted \cup EventsOf(consumer[c].batch)
  BY <1>1, ThrowEffect
<1> QED BY <1>2, TakesStops

\* Every step is one of these.
DeliveryStep ==
    \/ Quiet
    \/ \E c \in Consumers, p \in Pairs : Begins(c, p)
    \/ \E c \in Consumers, p \in Pairs : Makes(c, p)
    \/ \E c \in Consumers, p \in Pairs : Ends(c, p)
    \/ \E c \in Consumers, p \in Pairs : GivesBack(c, p)
    \/ \E c \in Consumers : Quits(c)
    \/ \E e \in Events : Prunes(e)

\* A claim begins a delivery that no row was there for.
LEMMA ClaimDelivers ==
  ASSUME BusInv, NEW c \in Consumers, Claim(c)
  PROVE  Quiet \/ \E p \in Pairs : Begins(c, p)
<1>1. BusTypeOK /\ InHand
  BY DEF BusInv
<1>2. consumer[c].at = "claim" /\ UNCHANGED received
  BY DEF Claim
<1>3. PICK s \in consumer[c].rest :
           LET p == <<consumer[c].event, s>>
           IN  \/ /\ claims[p] = "none"
                  /\ claims' = [claims EXCEPT ![p] = "pending"]
                  /\ Takes(c, "deliver", consumer[c].batch, consumer[c].todo)
                  /\ consumer'[c].event = consumer[c].event
                  /\ consumer'[c].rest = consumer[c].rest \ {s}
                  /\ consumer'[c].sub = s
               \/ /\ claims[p] # "none"
                  /\ UNCHANGED claims
                  /\ Onward(c, consumer[c].rest \ {s})
  BY <1>1, ClaimEffect
<1>4. /\ s \in Subs /\ consumer[c].rest \ {s} \in SUBSET Subs
      /\ consumer[c].event \in EventsOf(consumer[c].batch)
      /\ consumer[c].event \in Events
  BY <1>1, <1>2, InHandFacts DEF InHand
<1>5. PICK p \in Pairs : p = <<consumer[c].event, s>> /\ p[1] = consumer[c].event
  <2>1. <<consumer[c].event, s>> \in Pairs
    BY <1>4 DEF Pairs
  <2>2. <<consumer[c].event, s>>[1] = consumer[c].event
    OBVIOUS
  <2> QED BY <2>1, <2>2
<1>6. CASE claims[p] = "none"
  <2>1. /\ claims' = [claims EXCEPT ![p] = "pending"]
        /\ Takes(c, "deliver", consumer[c].batch, consumer[c].todo)
        /\ consumer'[c].event = consumer[c].event
        /\ consumer'[c].sub = s
    BY <1>3, <1>5, <1>6
  <2>2. consumer'[c].at = "deliver"
    BY <2>1 DEF Takes
  <2>3. Delivery(c)' = p
    BY <1>5, <2>1 DEF Delivery
  <2>4. \A q \in Pairs : /\ Delivering(c, q)' => q = p
                         /\ About(c, q)' => q = p
                         /\ ~Having(c, q)'
    BY <2>2, <2>3 DEF Delivering, About, Having
  <2>5. Delivering(c, p)'
    BY <2>2, <2>3 DEF Delivering
  <2>6. OthersKeep(c)
    BY <2>1, TakesOthers
  <2>7. p[1] \in EventsOf(consumer[c].batch)
    BY <1>4, <1>5
  <2>9. \A q \in Pairs : ~Delivering(c, q)
    BY <1>2 DEF Delivering
  <2>8. Begins(c, p)
    BY <1>2, <1>6, <2>1, <2>4, <2>5, <2>6, <2>7, <2>9 DEF Begins
  <2> QED BY <2>8, <1>5
<1>7. CASE claims[p] # "none"
  <2>1. UNCHANGED claims /\ Onward(c, consumer[c].rest \ {s})
    BY <1>3, <1>5, <1>7
  <2>2. Stops(c) /\ OthersKeep(c)
    BY <2>1, <1>4, OnwardStops
  <2> QED BY <2>1, <2>2, <1>2, StopsIsQuiet
<1> QED BY <1>6, <1>7

\* An attempt is made of the delivery in hand.
LEMMA DeliverMakes ==
  ASSUME BusInv, NEW c \in Consumers, DeliverTaken(c) \/ DeliverThrows(c)
  PROVE  \E p \in Pairs : Makes(c, p)
<1>0. BusTypeOK
  BY DEF BusInv
<1>1. consumer[c].at = "deliver" /\ UNCHANGED claims
  BY DEF DeliverTaken, DeliverThrows
<1>2. PICK p \in Pairs : p = Delivery(c)
  BY <1>1, InHandFacts
<1>3. PICK a \in {"record", "release"} :
        /\ StepTo(c, a)
        /\ \/ received' = [received EXCEPT ![p] = @ + 1]
           \/ a = "release" /\ received' = [received EXCEPT ![p] = @ + 0]
  BY <1>2 DEF DeliverTaken, DeliverThrows
<1>4. /\ Takes(c, a, consumer[c].batch, consumer[c].todo)
      /\ consumer'[c].event = consumer[c].event
      /\ consumer'[c].sub = consumer[c].sub
  BY <1>0, <1>3, StepToEffect DEF Steps
<1>5. consumer'[c].at = a /\ Delivery(c)' = p
  BY <1>2, <1>4 DEF Takes, Delivery
<1>6. received' = [received EXCEPT ![p] = @ + 0] => UNCHANGED received
  <2>1. received \in [Pairs -> Nat]
    BY BusTyped
  <2>2. received[p] + 0 = received[p]
    BY <2>1, <1>2
  <2> QED BY <2>1, <2>2
<1>7. OthersKeep(c)
  BY <1>4, TakesOthers
<1>8. About(c, p)
  BY <1>1, <1>2 DEF About
<1>9. \A q \in Pairs : /\ Delivering(c, q)' <=> q = p
                       /\ ~About(c, q)'
                       /\ Having(c, q)' => q = p
                       /\ a = "release" => ~Having(c, q)'
  BY <1>3, <1>5 DEF Delivering, About, Having
<1>10. Makes(c, p)
  BY <1>1, <1>3, <1>6, <1>7, <1>8, <1>9 DEF Makes
<1> QED BY <1>2, <1>10

\* The steps of the bus fall in the seven cases.
LEMMA EveryDeliveryStep ==
  ASSUME BusInv, [BusNext]_busVars
  PROVE  DeliveryStep
<1>k. BusTypeOK /\ TriesLeft
  BY DEF BusInv
<1>1. ASSUME UNCHANGED <<consumer, claims, received>> PROVE DeliveryStep
  BY <1>1, SameKeeps DEF DeliveryStep, Quiet
<1>2. ASSUME NEW e \in Events, publish(e) \/ LeaseEnds(e) PROVE DeliveryStep
  BY <1>1, <1>2 DEF publish, LeaseEnds
<1>3. ASSUME NEW s \in Subs, subscribe(s) \/ unsubscribe(s) PROVE DeliveryStep
  BY <1>1, <1>3 DEF subscribe, unsubscribe
<1>4. ASSUME NEW e \in Events, pruneEventDeliveries(e) PROVE DeliveryStep
  BY <1>4, SameKeeps DEF pruneEventDeliveries, Prunes, DeliveryStep
<1>5. ASSUME NEW c \in Consumers, Receive(c) PROVE DeliveryStep
  <2>1. PICK B \in SUBSET Events :
            /\ Takes(c, "next", {<<e, tries[e] + 1>> : e \in B}, B)
            /\ consumer[c].at = "idle"
    BY <1>k, <1>5, ReceiveEffect
  <2>2. Stops(c) /\ OthersKeep(c)
    BY <2>1, TakesStops
  <2>3. UNCHANGED <<claims, received>>
    BY <1>5 DEF Receive
  <2> QED BY <2>1, <2>2, <2>3, StopsIsQuiet DEF DeliveryStep
<1>6. ASSUME NEW c \in Consumers, Select(c) PROVE DeliveryStep
  <2>1. PICK a \in {"claim", "end", "next"}, T \in SUBSET Events : Takes(c, a, consumer[c].batch, T)
    <3>1. PICK e \in consumer[c].todo :
             \/ Takes(c, "claim", consumer[c].batch, consumer[c].todo \ {e})
             \/ Takes(c, IF consumer[c].todo \ {e} = {} THEN "end" ELSE "next",
                      consumer[c].batch, consumer[c].todo \ {e})
      BY <1>k, <1>6, SelectEffect
    <3>2. consumer[c].todo \ {e} \in SUBSET Events
      BY InHandFacts
    <3> QED BY <3>1, <3>2
  <2>2. Stops(c) /\ OthersKeep(c)
    BY <2>1, TakesStops
  <2>3. UNCHANGED <<claims, received>> /\ consumer[c].at = "next"
    BY <1>6 DEF Select
  <2> QED BY <2>2, <2>3, StopsIsQuiet DEF DeliveryStep
<1>7. ASSUME NEW c \in Consumers, Claim(c) PROVE DeliveryStep
  BY <1>7, ClaimDelivers DEF DeliveryStep
<1>8. ASSUME NEW c \in Consumers, DeliverTaken(c) \/ DeliverThrows(c) PROVE DeliveryStep
  BY <1>8, DeliverMakes DEF DeliveryStep
<1>9. ASSUME NEW c \in Consumers, Record(c) PROVE DeliveryStep
  <2>1. /\ consumer[c].at = "record"
        /\ claims' = [claims EXCEPT ![Delivery(c)] = IF @ = "none" THEN "none" ELSE "done"]
        /\ Onward(c, consumer[c].rest)
        /\ UNCHANGED received
    BY <1>9 DEF Record
  <2>2. Delivery(c) \in Pairs /\ consumer[c].rest \in SUBSET Subs
    BY <2>1, InHandFacts
  <2>3. Stops(c) /\ OthersKeep(c)
    BY <2>1, <2>2, OnwardStops
  <2>4. PICK p \in Pairs : p = Delivery(c)
    BY <2>2
  <2>5. Ends(c, p)
    BY <2>1, <2>3, <2>4 DEF Ends, Having
  <2> QED BY <2>5 DEF DeliveryStep
<1>10. ASSUME NEW c \in Consumers, Release(c) PROVE DeliveryStep
  <2>1. /\ consumer[c].at = "release"
        /\ claims' = [claims EXCEPT ![Delivery(c)] = "none"]
        /\ received' = [received EXCEPT ![Delivery(c)] = 0]
        /\ Throw(c)
    BY <1>10 DEF Release
  <2>2. Delivery(c) \in Pairs
    BY <2>1, InHandFacts
  <2>3. Stops(c) /\ OthersKeep(c) /\ EventsOf(consumer[c].batch) \subseteq aborted'
    BY <2>1, ThrowStops
  <2>4. PICK p \in Pairs : p = Delivery(c)
    BY <2>2
  <2>5. GivesBack(c, p)
    BY <2>1, <2>3, <2>4 DEF GivesBack, Delivering
  <2> QED BY <2>5 DEF DeliveryStep
<1>11. ASSUME NEW c \in Consumers, StatementFails(c) PROVE DeliveryStep
  <2>1. UNCHANGED <<claims, received>>
    BY <1>11 DEF StatementFails
  <2>2. CASE consumer[c].at = "record" /\ StepTo(c, "release")
    <3>1. /\ Takes(c, "release", consumer[c].batch, consumer[c].todo)
          /\ consumer'[c].event = consumer[c].event
          /\ consumer'[c].sub = consumer[c].sub
      BY <2>2, <1>k, StepToEffect DEF Steps
    <3>2. consumer'[c].at = "release" /\ Delivery(c)' = Delivery(c)
      BY <3>1 DEF Takes, Delivery
    <3>3. Keeps(c)
      BY <3>2, <2>2 DEF Keeps, Delivering, About, Having
    <3>4. OthersKeep(c)
      BY <3>1, TakesOthers
    <3>5. Quiet
      BY <2>1, <3>3, <3>4 DEF Quiet, OthersKeep
    <3> QED BY <3>5 DEF DeliveryStep
  <2>3. CASE Throw(c)
    <3>1. Quits(c)
      BY <2>1, <2>3, ThrowStops DEF Quits
    <3> QED BY <3>1 DEF DeliveryStep
  <2> QED BY <1>11, <2>2, <2>3 DEF StatementFails
<1>12. ASSUME NEW c \in Consumers, Kill(c) PROVE DeliveryStep
  <2>1. /\ UNCHANGED <<claims, received>>
        /\ aborted' = aborted \cup EventsOf(consumer[c].batch)
        /\ consumer' = [consumer EXCEPT ![c] = Idle]
    BY <1>12 DEF Kill
  <2>2. Takes(c, "idle", {}, {})
    BY <2>1, <1>k, IdleEffect
  <2>3. Stops(c) /\ OthersKeep(c)
    BY <2>2, TakesStops
  <2>4. Quits(c)
    BY <2>1, <2>3 DEF Quits
  <2> QED BY <2>4 DEF DeliveryStep
<1>13. ASSUME NEW c \in Consumers, Return(c) PROVE DeliveryStep
  <2>1. /\ UNCHANGED <<claims, received>>
        /\ consumer[c].at = "end"
        /\ consumer' = [consumer EXCEPT ![c] = Idle]
    BY <1>13 DEF Return
  <2>2. Takes(c, "idle", {}, {})
    BY <2>1, <1>k, IdleEffect
  <2>3. Stops(c) /\ OthersKeep(c)
    BY <2>2, TakesStops
  <2> QED BY <2>1, <2>3, StopsIsQuiet DEF DeliveryStep
<1>14. CASE UNCHANGED busVars
  BY <1>1, <1>14 DEF busVars
<1> QED
  BY <1>2, <1>3, <1>4, <1>5, <1>6, <1>7, <1>8, <1>9, <1>10, <1>11, <1>12, <1>13, <1>14
     DEF BusNext, Work

-----------------------------------------------------------------------------
(* One deliverer, one taking.                                              *)

\* Every step preserves OneDeliverer: a claim is inserted only where there is none,
\* and it is deleted only by the invocation that has the delivery, or when no batch
\* has the message.
LEMMA OneDelivererStep ==
  ASSUME BusInv, OneDeliverer, [BusNext]_busVars
  PROVE  OneDeliverer'
<1>t. claims \in [Pairs -> {"none", "pending", "done"}]
  BY BusTyped
<1> SUFFICES ASSUME NEW p \in Pairs, NEW c \in Consumers, Delivering(c, p)'
             PROVE  /\ claims'[p] = "pending"
                    /\ \A d \in Consumers : Delivering(d, p)' => d = c
  BY DEF OneDeliverer
<1>0. \A q \in Pairs : \A b \in Consumers :
        Delivering(b, q) => claims[q] = "pending" /\ \A d \in Consumers : Delivering(d, q) => d = b
  BY DEF OneDeliverer
<1>s. DeliveryStep
  BY EveryDeliveryStep
<1>1. CASE Quiet
  BY <1>0, <1>1 DEF Quiet, Keeps
<1>2. ASSUME NEW b \in Consumers, NEW q \in Pairs, Begins(b, q)
      PROVE  claims'[p] = "pending" /\ \A d \in Consumers : Delivering(d, p)' => d = c
  <2>1. \A d \in Consumers : ~Delivering(d, q)
    BY <1>0, <1>2 DEF Begins
  <2>2. \A d \in Consumers : d # b => (Delivering(d, p)' <=> Delivering(d, p))
    BY <1>2 DEF Begins, OthersKeep, Keeps
  <2>3. Delivering(b, p)' => p = q
    BY <1>2 DEF Begins
  <2>4. claims' = [claims EXCEPT ![q] = "pending"]
    BY <1>2 DEF Begins
  <2>5. CASE p = q
    BY <2>1, <2>2, <2>4, <2>5, <1>t
  <2>6. CASE p # q
    BY <2>2, <2>3, <2>4, <2>6, <1>t, <1>0
  <2> QED BY <2>5, <2>6
<1>3. ASSUME NEW b \in Consumers, NEW q \in Pairs, Makes(b, q)
      PROVE  claims'[p] = "pending" /\ \A d \in Consumers : Delivering(d, p)' => d = c
  <2>1. Delivering(b, q)
    BY <1>3 DEF Makes, About, Delivering
  <2>2. \A d \in Consumers : d # b => (Delivering(d, p)' <=> Delivering(d, p))
    BY <1>3 DEF Makes, OthersKeep, Keeps
  <2>3. (Delivering(b, p)' => p = q) /\ claims' = claims
    BY <1>3 DEF Makes
  <2> QED BY <2>1, <2>2, <2>3, <1>0
<1>4. ASSUME NEW b \in Consumers, NEW q \in Pairs, Delivering(b, q), OthersKeep(b), Stops(b),
             \A r \in Pairs : r # q => claims'[r] = claims[r]
      PROVE  claims'[p] = "pending" /\ \A d \in Consumers : Delivering(d, p)' => d = c
  <2>1. \A d \in Consumers : d # b => (Delivering(d, p)' <=> Delivering(d, p))
    BY <1>4 DEF OthersKeep, Keeps
  <2>2. ~Delivering(b, p)'
    BY <1>4 DEF Stops
  <2> QED BY <2>1, <2>2, <1>4, <1>0
<1>5. ASSUME NEW b \in Consumers, NEW q \in Pairs, Ends(b, q)
      PROVE  claims'[p] = "pending" /\ \A d \in Consumers : Delivering(d, p)' => d = c
  <2>1. Delivering(b, q) /\ OthersKeep(b) /\ Stops(b)
    BY <1>5 DEF Ends, Having, Delivering
  <2>2. \A r \in Pairs : r # q => claims'[r] = claims[r]
    BY <1>5, <1>t DEF Ends
  <2> QED BY <2>1, <2>2, <1>4
<1>6. ASSUME NEW b \in Consumers, NEW q \in Pairs, GivesBack(b, q)
      PROVE  claims'[p] = "pending" /\ \A d \in Consumers : Delivering(d, p)' => d = c
  <2>1. Delivering(b, q) /\ OthersKeep(b) /\ Stops(b)
    BY <1>6 DEF GivesBack
  <2>2. \A r \in Pairs : r # q => claims'[r] = claims[r]
    BY <1>6, <1>t DEF GivesBack
  <2> QED BY <2>1, <2>2, <1>4
<1>7. ASSUME NEW b \in Consumers, Quits(b)
      PROVE  claims'[p] = "pending" /\ \A d \in Consumers : Delivering(d, p)' => d = c
  <2>1. \A d \in Consumers : d # b => (Delivering(d, p)' <=> Delivering(d, p))
    BY <1>7 DEF Quits, OthersKeep, Keeps
  <2>2. ~Delivering(b, p)' /\ claims' = claims
    BY <1>7 DEF Quits, Stops
  <2> QED BY <2>1, <2>2, <1>0
<1>8. ASSUME NEW e \in Events, Prunes(e)
      PROVE  claims'[p] = "pending" /\ \A d \in Consumers : Delivering(d, p)' => d = c
  <2>1. \A d \in Consumers : Delivering(d, p)' <=> Delivering(d, p)
    BY <1>8 DEF Prunes, Keeps
  <2>2. Delivering(c, p)
    BY <2>1
  <2>3. p[1] = consumer[c].event
    BY <2>2 DEF Delivering, Delivery
  <2>4. consumer[c].event \in EventsOf(consumer[c].batch)
    BY <2>2, InHandFacts DEF Delivering
  <2>5. p[1] # e
    BY <2>3, <2>4, <1>8 DEF Prunes
  <2>6. claims'[p] = claims[p]
    BY <2>5, <1>8, <1>t DEF Prunes
  <2> QED BY <2>1, <2>2, <2>6, <1>0
<1> QED BY <1>s, <1>1, <1>2, <1>3, <1>5, <1>6, <1>7, <1>8 DEF DeliveryStep

\* Initially nobody delivers.
LEMMA BusInitOne == BusInit => OneDeliverer
  BY IdleType DEF BusInit, OneDeliverer, Delivering

\* A delivery is in the hands of one invocation at most, with its claim in the
\* table: INSERT OR IGNORE on the event and the subscription.
THEOREM OneDelivererAlways == BusSpec => []OneDeliverer
<1>1. BusInit => BusInv /\ OneDeliverer
  BY BusInitInv, BusInitOne
<1>2. BusInv /\ OneDeliverer /\ [BusNext]_busVars => (BusInv /\ OneDeliverer)'
  BY BusInvStep, OneDelivererStep
<1> QED BY <1>1, <1>2, PTL DEF BusSpec

\* The message has left the queue for good: nobody has it in a batch either.
Over(e) ==
    /\ message[e] \in {"acked", "dead"}
    /\ \A c \in Consumers : e \notin EventsOf(consumer[c].batch)

\* A batch grows only by messages that were ready.
LEMMA OverStays ==
  ASSUME BusInv, [BusNext]_busVars, NEW e \in Events, Over(e)
  PROVE  Over(e)'
<1>k. BusTypeOK /\ TriesLeft /\ message \in [Events -> {"unsent", "ready", "leased", "acked", "dead"}]
  BY BusTyped DEF BusInv
<1>0. /\ message[e] \in {"acked", "dead"}
      /\ \A c \in Consumers : e \notin EventsOf(consumer[c].batch)
  BY DEF Over
<1>q. ASSUME UNCHANGED consumer, message'[e] = message[e] PROVE Over(e)'
  BY <1>0, <1>q DEF Over, EventsOf
<1>b. ASSUME NEW c \in Consumers, NEW a, NEW T, NEW B, Takes(c, a, B, T), e \notin EventsOf(B),
             message'[e] = message[e]
      PROVE  Over(e)'
  <2> SUFFICES ASSUME NEW d \in Consumers PROVE e \notin EventsOf(consumer'[d].batch)
    BY <1>0, <1>b DEF Over, EventsOf
  <2>1. CASE d = c
    BY <2>1, <1>b DEF Takes
  <2>2. CASE d # c
    BY <2>2, <1>b, <1>0 DEF Takes
  <2> QED BY <2>1, <2>2
<1>e. e \notin EventsOf({})
  BY DEF EventsOf
<1>1. ASSUME NEW f \in Events, publish(f) \/ LeaseEnds(f) \/ pruneEventDeliveries(f) PROVE Over(e)'
  <2>1. UNCHANGED consumer /\ message'[e] = message[e]
    BY <1>1, <1>0, <1>k DEF publish, LeaseEnds, pruneEventDeliveries
  <2> QED BY <2>1, <1>q
<1>2. ASSUME NEW s \in Subs, subscribe(s) \/ unsubscribe(s) PROVE Over(e)'
  BY <1>2, <1>q DEF subscribe, unsubscribe
<1>3. ASSUME NEW c \in Consumers, Receive(c) PROVE Over(e)'
  <2>1. PICK B \in SUBSET Events :
            /\ \A f \in B : message[f] = "ready"
            /\ message' = [f \in Events |-> IF f \in B THEN "leased" ELSE message[f]]
            /\ Takes(c, "next", {<<f, tries[f] + 1>> : f \in B}, B)
    BY <1>k, <1>3, ReceiveEffect
  <2>2. e \notin B
    BY <2>1, <1>0
  <2>3. e \notin EventsOf({<<f, tries[f] + 1>> : f \in B})
    <3>1. ASSUME NEW f \in EventsOf({<<f, tries[f] + 1>> : f \in B}) PROVE f \in B
      BY <3>1 DEF EventsOf
    <3> QED BY <3>1, <2>2
  <2>4. message'[e] = message[e]
    BY <2>1, <2>2
  <2> QED BY <2>1, <2>3, <2>4, <1>b
<1>4. ASSUME NEW c \in Consumers, Select(c) PROVE Over(e)'
  <2>1. PICK g \in consumer[c].todo :
             \/ Takes(c, "claim", consumer[c].batch, consumer[c].todo \ {g})
             \/ Takes(c, IF consumer[c].todo \ {g} = {} THEN "end" ELSE "next",
                      consumer[c].batch, consumer[c].todo \ {g})
    BY <1>k, <1>4, SelectEffect
  <2> QED BY <2>1, <1>0, <1>4, <1>b DEF Select
<1>on. ASSUME NEW c \in Consumers, NEW R \in SUBSET Subs, Onward(c, R), UNCHANGED message PROVE Over(e)'
  <2>1. PICK a \in {"claim", "end", "next"} : Takes(c, a, consumer[c].batch, consumer[c].todo)
    BY <1>k, <1>on, OnwardEffect
  <2> QED BY <2>1, <1>0, <1>on, <1>b
<1>st. ASSUME NEW c \in Consumers, NEW a \in Steps, StepTo(c, a), UNCHANGED message PROVE Over(e)'
  <2>1. Takes(c, a, consumer[c].batch, consumer[c].todo)
    BY <1>k, <1>st, StepToEffect
  <2> QED BY <2>1, <1>0, <1>st, <1>b
<1>th. ASSUME NEW c \in Consumers, Throw(c), UNCHANGED message PROVE Over(e)'
  <2>1. Takes(c, "end", consumer[c].batch, {})
    BY <1>k, <1>th, ThrowEffect
  <2> QED BY <2>1, <1>0, <1>th, <1>b
<1>5. ASSUME NEW c \in Consumers, Claim(c) PROVE Over(e)'
  <2>1. PICK s \in consumer[c].rest :
           \/ Takes(c, "deliver", consumer[c].batch, consumer[c].todo)
           \/ Onward(c, consumer[c].rest \ {s})
    BY <1>k, <1>5, ClaimEffect
  <2>2. consumer[c].rest \ {s} \in SUBSET Subs
    BY InHandFacts
  <2>3. UNCHANGED message
    BY <1>5 DEF Claim
  <2> QED BY <2>1, <2>2, <2>3, <1>0, <1>b, <1>on
<1>6. ASSUME NEW c \in Consumers, DeliverTaken(c) \/ DeliverThrows(c) PROVE Over(e)'
  BY <1>6, <1>st DEF DeliverTaken, DeliverThrows, Steps
<1>7. ASSUME NEW c \in Consumers, Record(c) PROVE Over(e)'
  <2>1. consumer[c].rest \in SUBSET Subs
    BY InHandFacts
  <2> QED BY <2>1, <1>7, <1>on DEF Record
<1>8. ASSUME NEW c \in Consumers, Release(c) PROVE Over(e)'
  BY <1>8, <1>th DEF Release
<1>9. ASSUME NEW c \in Consumers, StatementFails(c) PROVE Over(e)'
  BY <1>9, <1>th, <1>st DEF StatementFails, Steps
<1>10. ASSUME NEW c \in Consumers, Kill(c) PROVE Over(e)'
  <2>1. consumer' = [consumer EXCEPT ![c] = Idle] /\ UNCHANGED message
    BY <1>10 DEF Kill
  <2>2. Takes(c, "idle", {}, {})
    BY <2>1, <1>k, IdleEffect
  <2> QED BY <2>1, <2>2, <1>e, <1>b
<1>11. ASSUME NEW c \in Consumers, Return(c) PROVE Over(e)'
  <2>1. consumer' = [consumer EXCEPT ![c] = Idle] /\ message'[e] = message[e]
    BY <1>0, <1>11 DEF Return
  <2>2. Takes(c, "idle", {}, {})
    BY <2>1, <1>k, IdleEffect
  <2> QED BY <2>1, <2>2, <1>e, <1>b
<1>12. CASE UNCHANGED busVars
  BY <1>12, <1>q DEF busVars
<1> QED
  BY <1>1, <1>2, <1>3, <1>4, <1>5, <1>6, <1>7, <1>8, <1>9, <1>10, <1>11, <1>12 DEF BusNext, Work

\* What TakenOnce rests on: before an invocation makes a delivery nothing of it
\* was received under its claim, and a claim is missing after a success only
\* when the night's pruning took it, of a message that never comes again.
NotYetTaken ==
    \A p \in Pairs : \A c \in Consumers : About(c, p) => received[p] = 0

NoClaimNoTaking ==
    \A p \in Pairs : claims[p] = "none" /\ received[p] # 0 => Over(p[1])

TakenInv == OneDeliverer /\ TakenOnce /\ NotYetTaken /\ NoClaimNoTaking

\* Initially nothing was taken.
LEMMA BusInitTaken == BusInit => TakenInv
<1> SUFFICES ASSUME BusInit PROVE TakenInv
  OBVIOUS
<1>1. \A c \in Consumers : \A p \in Pairs : ~About(c, p)
  BY IdleType DEF BusInit, About
<1>2. \A p \in Pairs : received[p] = 0
  BY DEF BusInit
<1> QED BY <1>1, <1>2, BusInitOne DEF TakenInv, TakenOnce, NotYetTaken, NoClaimNoTaking

\* Every step preserves TakenInv.
LEMMA TakenStep ==
  ASSUME BusInv, TakenInv, [BusNext]_busVars
  PROVE  TakenInv'
<1>t. claims \in [Pairs -> {"none", "pending", "done"}] /\ received \in [Pairs -> Nat]
  BY BusTyped
<1>1. OneDeliverer'
  BY OneDelivererStep DEF TakenInv
<1>o. \A q \in Pairs : \A b \in Consumers :
        Delivering(b, q) => claims[q] = "pending" /\ \A d \in Consumers : Delivering(d, q) => d = b
  BY DEF TakenInv, OneDeliverer
<1>v. \A q \in Pairs : Over(q[1]) => Over(q[1])'
  <2>1. \A q \in Pairs : q[1] \in Events
    BY DEF Pairs
  <2> QED BY <2>1, OverStays
<1>a. \A d \in Consumers, q \in Pairs : About(d, q) => Delivering(d, q)
  BY DEF About, Delivering
<1> SUFFICES ASSUME NEW p \in Pairs
             PROVE  /\ received'[p] <= 1
                    /\ \A c \in Consumers : About(c, p)' => received'[p] = 0
                    /\ claims'[p] = "none" /\ received'[p] # 0 => Over(p[1])'
  BY <1>1 DEF TakenInv, TakenOnce, NotYetTaken, NoClaimNoTaking
<1> DEFINE Goal == /\ received'[p] <= 1
                   /\ \A c \in Consumers : About(c, p)' => received'[p] = 0
                   /\ claims'[p] = "none" /\ received'[p] # 0 => Over(p[1])'
<1>p. /\ received[p] <= 1
      /\ \A c \in Consumers : About(c, p) => received[p] = 0
      /\ claims[p] = "none" /\ received[p] # 0 => Over(p[1])
  BY DEF TakenInv, TakenOnce, NotYetTaken, NoClaimNoTaking
<1>s. DeliveryStep
  BY EveryDeliveryStep
<1>2. CASE Quiet
  <2>1. \A d \in Consumers : About(d, p)' => About(d, p)
    BY <1>2 DEF Quiet, Keeps
  <2> QED BY <2>1, <1>2, <1>p, <1>v DEF Quiet
<1>3. ASSUME NEW b \in Consumers, NEW q \in Pairs, Begins(b, q) PROVE Goal
  <2>1. \A d \in Consumers : d # b => (About(d, p)' => About(d, p))
    BY <1>3 DEF Begins, OthersKeep, Keeps
  <2>2. About(b, p)' => p = q
    BY <1>3 DEF Begins
  <2>3. /\ claims[q] = "none"
        /\ claims' = [claims EXCEPT ![q] = "pending"]
        /\ received' = received
        /\ q[1] \in EventsOf(consumer[b].batch)
    BY <1>3 DEF Begins
  <2>4. CASE p = q
    <3>1. ~Over(p[1])
      BY <2>3, <2>4 DEF Over
    <3>2. received[p] = 0
      BY <3>1, <2>3, <2>4, <1>p
    <3> QED BY <3>2, <2>3, <1>t
  <2>5. CASE p # q
    <3>1. claims'[p] = claims[p]
      BY <2>3, <2>5, <1>t
    <3> QED BY <3>1, <2>1, <2>2, <2>3, <2>5, <1>p, <1>v
  <2> QED BY <2>4, <2>5
<1>4. ASSUME NEW b \in Consumers, NEW q \in Pairs, Makes(b, q) PROVE Goal
  <2>1. \A d \in Consumers : d # b => (About(d, p)' => About(d, p))
    BY <1>4 DEF Makes, OthersKeep, Keeps
  <2>2. ~About(b, p)' /\ claims' = claims /\ About(b, q)
    BY <1>4 DEF Makes
  <2>3. \/ received' = [received EXCEPT ![q] = @ + 1]
        \/ received' = received
    BY <1>4 DEF Makes
  <2>4. CASE p = q
    <3>1. received[p] = 0 /\ claims[p] = "pending"
      BY <2>2, <2>4, <1>p, <1>o, <1>a
    <3>2. received'[p] \in {0, 1}
      BY <3>1, <2>3, <2>4, <1>t
    <3>3. \A d \in Consumers : ~About(d, p)'
      <4>1. \A d \in Consumers : About(d, p) => d = b
        BY <2>2, <2>4, <1>o, <1>a
      <4> QED BY <4>1, <2>1, <2>2
    <3> QED BY <3>1, <3>2, <3>3, <2>2
  <2>5. CASE p # q
    <3>1. received'[p] = received[p]
      BY <2>3, <2>5, <1>t
    <3> QED BY <3>1, <2>1, <2>2, <1>p, <1>v
  <2> QED BY <2>4, <2>5
<1>5. ASSUME NEW b \in Consumers, NEW q \in Pairs, Ends(b, q) PROVE Goal
  <2>1. \A d \in Consumers : About(d, p)' => About(d, p)
    BY <1>5 DEF Ends, OthersKeep, Keeps, Stops
  <2>2. claims' = [claims EXCEPT ![q] = IF @ = "none" THEN "none" ELSE "done"] /\ received' = received
    BY <1>5 DEF Ends
  <2>3. claims'[p] = "none" => claims[p] = "none"
    BY <2>2, <1>t
  <2> QED BY <2>1, <2>2, <2>3, <1>p, <1>v
<1>6. ASSUME NEW b \in Consumers, NEW q \in Pairs, GivesBack(b, q) PROVE Goal
  <2>1. \A d \in Consumers : About(d, p)' => About(d, p)
    BY <1>6 DEF GivesBack, OthersKeep, Keeps, Stops
  <2>2. claims' = [claims EXCEPT ![q] = "none"] /\ received' = [received EXCEPT ![q] = 0]
    BY <1>6 DEF GivesBack
  <2>3. CASE p = q
    <3>1. received'[p] = 0
      BY <2>2, <2>3, <1>t
    <3> QED BY <3>1
  <2>4. CASE p # q
    <3>1. claims'[p] = claims[p] /\ received'[p] = received[p]
      BY <2>2, <2>4, <1>t
    <3> QED BY <3>1, <2>1, <1>p, <1>v
  <2> QED BY <2>3, <2>4
<1>7. ASSUME NEW b \in Consumers, Quits(b) PROVE Goal
  <2>1. \A d \in Consumers : About(d, p)' => About(d, p)
    BY <1>7 DEF Quits, OthersKeep, Keeps, Stops
  <2> QED BY <2>1, <1>7, <1>p, <1>v DEF Quits
<1>8. ASSUME NEW e \in Events, Prunes(e) PROVE Goal
  <2>1. \A d \in Consumers : About(d, p)' => About(d, p)
    BY <1>8 DEF Prunes, Keeps
  <2>2. /\ claims' = [r \in Pairs |-> IF r[1] = e THEN "none" ELSE claims[r]]
        /\ received' = received
        /\ message[e] \in {"acked", "dead"}
        /\ \A d \in Consumers : e \notin EventsOf(consumer[d].batch)
    BY <1>8 DEF Prunes
  <2>3. CASE p[1] = e
    <3>1. Over(p[1])
      BY <2>2, <2>3 DEF Over
    <3> QED BY <3>1, <2>1, <2>2, <1>p, <1>v
  <2>4. CASE p[1] # e
    <3>1. claims'[p] = claims[p]
      BY <2>2, <2>4
    <3> QED BY <3>1, <2>1, <2>2, <1>p, <1>v
  <2> QED BY <2>3, <2>4
<1> QED BY <1>s, <1>2, <1>3, <1>4, <1>5, <1>6, <1>7, <1>8 DEF DeliveryStep

\* A subscriber takes an event once under a claim, however often its message is
\* delivered and whatever overlaps: a second taking follows an attempt that threw.
THEOREM TakenOnceAlways == BusSpec => []TakenOnce
<1>1. BusInit => BusInv /\ TakenInv
  BY BusInitInv, BusInitTaken
<1>2. BusInv /\ TakenInv /\ [BusNext]_busVars => (BusInv /\ TakenInv)'
  BY BusInvStep, TakenStep
<1>3. TakenInv => TakenOnce
  BY DEF TakenInv
<1> QED BY <1>1, <1>2, <1>3, PTL DEF BusSpec

-----------------------------------------------------------------------------
(* Nothing is missed in silence.                                           *)

Served(p) == received[p] > 0 \/ \E c \in Consumers : Delivering(c, p)

\* A claim that is kept stands for a delivery, unless its batch was broken off.
ClaimsAreServed == \A p \in Pairs : claims[p] # "none" => Served(p) \/ p[1] \in aborted
RecordedIsTaken == \A c \in Consumers : \A p \in Pairs : Having(c, p) => received[p] > 0

\* The subscriptions of a message in a batch that are still ahead, or claimed.
Covered(c, e, s) ==
    \/ e \in consumer[c].todo
    \/ /\ consumer[c].at \in {"claim", "deliver", "record", "release"}
       /\ consumer[c].event = e
       /\ s \in consumer[c].rest
    \/ claims[<<e, s>>] # "none"

GoneThrough ==
    \A c \in Consumers : \A e \in EventsOf(consumer[c].batch) :
        e \notin aborted => \A s \in due[e] : Covered(c, e, s)

DueIsOn == \A e \in Events : due[e] \subseteq On

MissedInv ==
    /\ OneDeliverer
    /\ ClaimsAreServed
    /\ RecordedIsTaken
    /\ GoneThrough
    /\ DueIsOn
    /\ NothingMissedInSilence

\* Initially nothing is acknowledged.
LEMMA BusInitMissed == BusInit => MissedInv
<1> SUFFICES ASSUME BusInit PROVE MissedInv
  OBVIOUS
<1>1. \A c \in Consumers : consumer[c].at = "idle" /\ consumer[c].batch = {}
  BY IdleType DEF BusInit
<1>2. ClaimsAreServed
  BY DEF BusInit, ClaimsAreServed
<1>3. RecordedIsTaken
  BY <1>1 DEF RecordedIsTaken, Having
<1>4. GoneThrough
  BY <1>1 DEF GoneThrough, EventsOf
<1>5. DueIsOn /\ NothingMissedInSilence
  BY DEF BusInit, DueIsOn, NothingMissedInSilence
<1> QED BY <1>2, <1>3, <1>4, <1>5, BusInitOne DEF MissedInv

\* A message of a broken batch stays marked.
LEMMA AbortedGrows ==
  ASSUME BusInv, [BusNext]_busVars
  PROVE  aborted \subseteq aborted'
  BY DEF BusNext, Work, busVars, publish, subscribe, unsubscribe, Receive, LeaseEnds, Select, Claim,
         DeliverTaken, DeliverThrows, Record, Release, StatementFails, Return, Kill,
         pruneEventDeliveries, Throw

\* After its publication a message is due to fewer subscriptions only.
LEMMA DueShrinks ==
  ASSUME BusInv, [BusNext]_busVars, NEW e \in Events, message[e] # "unsent"
  PROVE  due'[e] \subseteq due[e]
<1>t. due \in [Events -> SUBSET Subs]
  BY BusTyped
<1>1. ASSUME NEW f \in Events, publish(f) PROVE due'[e] \subseteq due[e]
  BY <1>1, <1>t DEF publish
<1>2. ASSUME NEW s \in Subs, unsubscribe(s) PROVE due'[e] \subseteq due[e]
  BY <1>2, <1>t DEF unsubscribe
<1>3. CASE UNCHANGED due
  BY <1>3
<1>4. \/ \E f \in Events : publish(f)
      \/ \E s \in Subs : unsubscribe(s)
      \/ UNCHANGED due
  BY DEF BusNext, Work, busVars, subscribe, Receive, LeaseEnds, Select, Claim,
         DeliverTaken, DeliverThrows, Record, Release, StatementFails, Return, Kill,
         pruneEventDeliveries
<1> QED BY <1>1, <1>2, <1>3, <1>4

\* A message is due only to subscriptions that are on.
LEMMA DueIsOnStep ==
  ASSUME BusInv, DueIsOn, [BusNext]_busVars
  PROVE  DueIsOn'
<1>t. due \in [Events -> SUBSET Subs] /\ subscribed \in [Subs -> {"new", "on", "gone"}]
  BY BusTyped
<1>1. ASSUME NEW f \in Events, publish(f) PROVE DueIsOn'
  BY <1>1, <1>t DEF publish, DueIsOn, On
<1>2. ASSUME NEW s \in Subs, subscribe(s) PROVE DueIsOn'
  BY <1>2, <1>t DEF subscribe, DueIsOn, On
<1>3. ASSUME NEW s \in Subs, unsubscribe(s) PROVE DueIsOn'
  BY <1>3, <1>t DEF unsubscribe, DueIsOn, On
<1>4. CASE UNCHANGED <<due, subscribed>>
  BY <1>4 DEF DueIsOn, On
<1>5. \/ \E f \in Events : publish(f)
      \/ \E s \in Subs : subscribe(s) \/ unsubscribe(s)
      \/ UNCHANGED <<due, subscribed>>
  BY DEF BusNext, Work, busVars, Receive, LeaseEnds, Select, Claim,
         DeliverTaken, DeliverThrows, Record, Release, StatementFails, Return, Kill,
         pruneEventDeliveries
<1> QED BY <1>1, <1>2, <1>3, <1>4, <1>5

\* The delivery an invocation has in its hands is of its batch.
LEMMA DeliveringIsInBatch ==
  ASSUME BusInv, NEW c \in Consumers, NEW p \in Pairs, Delivering(c, p)
  PROVE  p[1] \in EventsOf(consumer[c].batch)
<1>1. p[1] = consumer[c].event
  BY DEF Delivering, Delivery
<1> QED BY <1>1, InHandFacts DEF Delivering

\* What was taken or is in hand stays so, while no batch with it is broken off.
LEMMA ServedStays ==
  ASSUME BusInv, OneDeliverer, RecordedIsTaken, DeliveryStep,
         NEW p \in Pairs, Served(p), p[1] \notin aborted'
  PROVE  Served(p)'
<1>t. received \in [Pairs -> Nat]
  BY BusTyped
<1> SUFFICES received'[p] > 0 \/ \E c \in Consumers : Delivering(c, p)'
  BY DEF Served
<1>0. received[p] > 0 \/ \E c \in Consumers : Delivering(c, p)
  BY DEF Served
<1> DEFINE Goal == received'[p] > 0 \/ \E c \in Consumers : Delivering(c, p)'
<1>1. CASE Quiet
  BY <1>0, <1>1 DEF Quiet, Keeps
<1>2. ASSUME NEW b \in Consumers, NEW q \in Pairs, Begins(b, q) PROVE Goal
  <2>1. \A d \in Consumers : Delivering(d, p) => Delivering(d, p)'
    BY <1>2 DEF Begins, OthersKeep, Keeps
  <2> QED BY <2>1, <1>0, <1>2 DEF Begins
<1>3. ASSUME NEW b \in Consumers, NEW q \in Pairs, Makes(b, q) PROVE Goal
  <2>1. \A d \in Consumers : Delivering(d, p) => Delivering(d, p)'
    <3>1. Delivering(b, p) => p = q
      BY <1>3 DEF Makes, About, Delivering
    <3> QED BY <3>1, <1>3 DEF Makes, OthersKeep, Keeps
  <2>2. received[p] > 0 => received'[p] > 0
    <3>1. CASE received' = received
      BY <3>1
    <3>2. CASE received' = [received EXCEPT ![q] = @ + 1]
      <4>1. CASE p = q
        BY <3>2, <4>1, <1>t
      <4>2. CASE p # q
        BY <3>2, <4>2, <1>t
      <4> QED BY <4>1, <4>2
    <3> QED BY <3>1, <3>2, <1>3 DEF Makes
  <2> QED BY <2>1, <2>2, <1>0
<1>4. ASSUME NEW b \in Consumers, NEW q \in Pairs, Ends(b, q) PROVE Goal
  <2>1. received[q] > 0 /\ received' = received
    BY <1>4 DEF Ends, RecordedIsTaken
  <2>2. Delivering(b, p) => p = q
    BY <1>4 DEF Ends, Having, Delivering
  <2>3. \A d \in Consumers : d # b => (Delivering(d, p) => Delivering(d, p)')
    BY <1>4 DEF Ends, OthersKeep, Keeps
  <2> QED BY <2>1, <2>2, <2>3, <1>0
<1>5. ASSUME NEW b \in Consumers, NEW q \in Pairs, GivesBack(b, q) PROVE Goal
  <2>1. q[1] \in aborted'
    BY <1>5, DeliveringIsInBatch DEF GivesBack
  <2>2. p # q
    BY <2>1
  <2>3. received'[p] = received[p]
    BY <2>2, <1>5, <1>t DEF GivesBack
  <2>4. Delivering(b, p) => p = q
    BY <1>5 DEF GivesBack, Delivering
  <2>5. \A d \in Consumers : d # b => (Delivering(d, p) => Delivering(d, p)')
    BY <1>5 DEF GivesBack, OthersKeep, Keeps
  <2> QED BY <2>2, <2>3, <2>4, <2>5, <1>0
<1>6. ASSUME NEW b \in Consumers, Quits(b) PROVE Goal
  <2>1. ~Delivering(b, p)
    BY <1>6, DeliveringIsInBatch DEF Quits
  <2>2. \A d \in Consumers : d # b => (Delivering(d, p) => Delivering(d, p)')
    BY <1>6 DEF Quits, OthersKeep, Keeps
  <2> QED BY <2>1, <2>2, <1>0, <1>6 DEF Quits
<1>7. ASSUME NEW e \in Events, Prunes(e) PROVE Goal
  <2>1. \A d \in Consumers : Delivering(d, p) => Delivering(d, p)'
    BY <1>7 DEF Prunes, Keeps
  <2> QED BY <2>1, <1>0, <1>7 DEF Prunes
<1> QED BY <1>1, <1>2, <1>3, <1>4, <1>5, <1>6, <1>7 DEF DeliveryStep

\* Every step preserves ClaimsAreServed.
LEMMA ClaimsAreServedStep ==
  ASSUME BusInv, OneDeliverer, RecordedIsTaken, ClaimsAreServed, DeliveryStep,
         aborted \subseteq aborted'
  PROVE  ClaimsAreServed'
<1>t. claims \in [Pairs -> {"none", "pending", "done"}]
  BY BusTyped
<1> SUFFICES ASSUME NEW p \in Pairs, claims'[p] # "none", p[1] \notin aborted'
             PROVE  Served(p)'
  BY DEF ClaimsAreServed
<1>1. CASE claims[p] # "none"
  <2>1. Served(p)
    BY <1>1 DEF ClaimsAreServed
  <2> QED BY <2>1, ServedStays
<1>2. CASE claims[p] = "none"
  <2>1. ASSUME NEW b \in Consumers, NEW q \in Pairs, Begins(b, q) PROVE Served(p)'
    <3>1. p = q
      BY <2>1, <1>2, <1>t DEF Begins
    <3>2. Delivering(b, p)'
      BY <3>1, <2>1 DEF Begins
    <3> QED BY <3>2 DEF Served
  <2>2. CASE Quiet
    BY <2>2, <1>2 DEF Quiet
  <2>3. ASSUME NEW b \in Consumers, NEW q \in Pairs,
               Makes(b, q) \/ Ends(b, q) \/ GivesBack(b, q)
        PROVE  FALSE
    BY <2>3, <1>2, <1>t DEF Makes, Ends, GivesBack
  <2>4. ASSUME NEW b \in Consumers, Quits(b) PROVE FALSE
    BY <2>4, <1>2 DEF Quits
  <2>5. ASSUME NEW e \in Events, Prunes(e) PROVE FALSE
    BY <2>5, <1>2 DEF Prunes
  <2> QED BY <2>1, <2>2, <2>3, <2>4, <2>5 DEF DeliveryStep
<1> QED BY <1>1, <1>2

\* Every step preserves RecordedIsTaken.
LEMMA RecordedIsTakenStep ==
  ASSUME BusInv, OneDeliverer, RecordedIsTaken, DeliveryStep
  PROVE  RecordedIsTaken'
<1>t. received \in [Pairs -> Nat]
  BY BusTyped
<1>o. \A d \in Consumers, b \in Consumers, q \in Pairs :
        Having(d, q) /\ Delivering(b, q) => d = b
  BY DEF OneDeliverer, Having, Delivering
<1> SUFFICES ASSUME NEW c \in Consumers, NEW p \in Pairs, Having(c, p)'
             PROVE  received'[p] > 0
  BY DEF RecordedIsTaken
<1>0. Having(c, p) => received[p] > 0
  BY DEF RecordedIsTaken
<1>1. CASE Quiet
  BY <1>0, <1>1 DEF Quiet, Keeps
<1>2. ASSUME NEW b \in Consumers, NEW q \in Pairs, Begins(b, q) PROVE received'[p] > 0
  <2>1. c # b
    BY <1>2 DEF Begins
  <2> QED BY <2>1, <1>0, <1>2 DEF Begins, OthersKeep, Keeps
<1>3. ASSUME NEW b \in Consumers, NEW q \in Pairs, Makes(b, q) PROVE received'[p] > 0
  <2>1. \/ received' = [received EXCEPT ![q] = @ + 1]
        \/ received' = received /\ \A r \in Pairs : ~Having(b, r)'
    BY <1>3 DEF Makes
  <2>2. CASE c = b
    <3>1. p = q
      BY <1>3, <2>2 DEF Makes
    <3>2. received' = [received EXCEPT ![q] = @ + 1]
      BY <2>1, <2>2
    <3> QED BY <3>1, <3>2, <1>t
  <2>3. CASE c # b
    <3>1. received[p] > 0
      BY <2>3, <1>0, <1>3 DEF Makes, OthersKeep, Keeps
    <3>2. CASE p = q
      BY <3>1, <3>2, <2>1, <1>t
    <3>3. CASE p # q
      BY <3>1, <3>3, <2>1, <1>t
    <3> QED BY <3>2, <3>3
  <2> QED BY <2>2, <2>3
<1>4. ASSUME NEW b \in Consumers, NEW q \in Pairs, Ends(b, q) PROVE received'[p] > 0
  BY <1>4, <1>0 DEF Ends, Stops, OthersKeep, Keeps
<1>5. ASSUME NEW b \in Consumers, NEW q \in Pairs, GivesBack(b, q) PROVE received'[p] > 0
  <2>1. c # b
    BY <1>5 DEF GivesBack, Stops
  <2>2. Having(c, p)
    BY <2>1, <1>5 DEF GivesBack, OthersKeep, Keeps
  <2>3. p # q
    BY <2>1, <2>2, <1>o, <1>5 DEF GivesBack
  <2>4. received'[p] = received[p]
    BY <2>3, <1>5, <1>t DEF GivesBack
  <2> QED BY <2>2, <2>4, <1>0
<1>6. ASSUME NEW b \in Consumers, Quits(b) PROVE received'[p] > 0
  BY <1>6, <1>0 DEF Quits, Stops, OthersKeep, Keeps
<1>7. ASSUME NEW e \in Events, Prunes(e) PROVE received'[p] > 0
  BY <1>7, <1>0 DEF Prunes, Keeps
<1> QED BY <1>1, <1>2, <1>3, <1>4, <1>5, <1>6, <1>7 DEF DeliveryStep

\* While its message is in a batch that goes on, a claim stays.
LEMMA ClaimsStay ==
  ASSUME BusInv, DeliveryStep, NEW d \in Consumers, NEW p \in Pairs, claims[p] # "none",
         p[1] \notin aborted', p[1] \in EventsOf(consumer[d].batch)
  PROVE  claims'[p] # "none"
<1>t. claims \in [Pairs -> {"none", "pending", "done"}]
  BY BusTyped
<1>1. CASE Quiet
  BY <1>1 DEF Quiet
<1>2. ASSUME NEW b \in Consumers, NEW q \in Pairs, Begins(b, q) \/ Makes(b, q) \/ Ends(b, q)
      PROVE  claims'[p] # "none"
  <2>1. CASE p = q
    BY <1>2, <2>1, <1>t DEF Begins, Makes, Ends
  <2>2. CASE p # q
    BY <1>2, <2>2, <1>t DEF Begins, Makes, Ends
  <2> QED BY <2>1, <2>2
<1>3. ASSUME NEW b \in Consumers, NEW q \in Pairs, GivesBack(b, q) PROVE claims'[p] # "none"
  <2>1. q[1] \in aborted'
    BY <1>3, DeliveringIsInBatch DEF GivesBack
  <2>2. p # q
    BY <2>1
  <2> QED BY <2>2, <1>3, <1>t DEF GivesBack
<1>4. ASSUME NEW b \in Consumers, Quits(b) PROVE claims'[p] # "none"
  BY <1>4 DEF Quits
<1>5. ASSUME NEW e \in Events, Prunes(e) PROVE claims'[p] # "none"
  BY <1>5 DEF Prunes
<1> QED BY <1>1, <1>2, <1>3, <1>4, <1>5 DEF DeliveryStep

\* What is due of a message in a batch was due before, and covered.
LEMMA StillDue ==
  ASSUME BusInv, GoneThrough, DueIsOn, DeliveryStep, [BusNext]_busVars,
         NEW d \in Consumers, NEW e \in EventsOf(consumer[d].batch), e \notin aborted',
         NEW s \in due'[e]
  PROVE  /\ e \in Events
         /\ s \in Subs
         /\ s \in On
         /\ Covered(d, e, s)
         /\ claims[<<e, s>>] # "none" => claims'[<<e, s>>] # "none"
<1>1. e \in Events /\ message[e] # "unsent"
  BY DEF BusInv, InHand
<1>2. s \in due[e]
  BY <1>1, DueShrinks
<1>3. s \in Subs
  BY <1>1, <1>2, BusTyped
<1>4. s \in On
  BY <1>1, <1>2 DEF DueIsOn
<1>5. e \notin aborted
  BY AbortedGrows
<1>6. Covered(d, e, s)
  BY <1>2, <1>5 DEF GoneThrough
<1>7. PICK p \in Pairs : p = <<e, s>> /\ p[1] = e
  <2>1. <<e, s>> \in Pairs /\ <<e, s>>[1] = e
    BY <1>1, <1>3 DEF Pairs
  <2> QED BY <2>1
<1>8. claims[p] # "none" => claims'[p] # "none"
  BY <1>7, ClaimsStay
<1> QED BY <1>1, <1>3, <1>4, <1>6, <1>7, <1>8

\* Every step preserves GoneThrough.
LEMMA GoneThroughStep ==
  ASSUME BusInv, GoneThrough, DueIsOn, DeliveryStep, [BusNext]_busVars
  PROVE  GoneThrough'
<1>k. BusTypeOK /\ TriesLeft /\ InHand
  BY DEF BusInv
<1>t. claims \in [Pairs -> {"none", "pending", "done"}]
  BY BusTyped
\* The invocations that do nothing.
<1>s. ASSUME NEW d \in Consumers, consumer'[d] = consumer[d],
             NEW e \in EventsOf(consumer'[d].batch), e \notin aborted', NEW s \in due'[e]
      PROVE  Covered(d, e, s)'
  <2>1. e \in EventsOf(consumer[d].batch)
    BY <1>s
  <2>2. Covered(d, e, s) /\ (claims[<<e, s>>] # "none" => claims'[<<e, s>>] # "none")
    BY <2>1, <1>s, StillDue
  <2> QED BY <2>2, <1>s DEF Covered
<1>u. ASSUME UNCHANGED consumer PROVE GoneThrough'
  BY <1>s, <1>u DEF GoneThrough, EventsOf
\* The one that acts.
<1>w. ASSUME NEW c \in Consumers, NEW a, NEW B, NEW T, Takes(c, a, B, T),
             \A e \in EventsOf(B) : e \notin aborted' => \A s \in due'[e] : Covered(c, e, s)'
      PROVE  GoneThrough'
  <2> SUFFICES ASSUME NEW d \in Consumers, NEW e \in EventsOf(consumer'[d].batch),
                      e \notin aborted', NEW s \in due'[e]
               PROVE  Covered(d, e, s)'
    BY DEF GoneThrough, EventsOf
  <2>1. CASE d = c
    BY <2>1, <1>w DEF Takes
  <2>2. CASE d # c
    <3>1. consumer'[d] = consumer[d]
      BY <2>2, <1>w DEF Takes
    <3> QED BY <3>1, <1>s
  <2> QED BY <2>1, <2>2
<1>i. ASSUME NEW c \in Consumers, consumer' = [consumer EXCEPT ![c] = Idle] PROVE GoneThrough'
  <2>1. Takes(c, "idle", {}, {})
    BY <1>i, <1>k, IdleEffect
  <2>2. EventsOf({}) = {}
    BY DEF EventsOf
  <2> QED BY <2>1, <2>2, <1>w
<1>th. ASSUME NEW c \in Consumers, Throw(c) PROVE GoneThrough'
  <2>1. /\ Takes(c, "end", consumer[c].batch, {})
        /\ aborted' = aborted \cup EventsOf(consumer[c].batch)
    BY <1>k, <1>th, ThrowEffect
  <2> QED BY <2>1, <1>w
<1>st. ASSUME NEW c \in Consumers, NEW a \in {"record", "release"}, StepTo(c, a),
              consumer[c].at \in {"deliver", "record"}
       PROVE  GoneThrough'
  <2>1. /\ Takes(c, a, consumer[c].batch, consumer[c].todo)
        /\ consumer'[c].event = consumer[c].event
        /\ consumer'[c].rest = consumer[c].rest
    BY <1>k, <1>st, StepToEffect DEF Steps
  <2>2. consumer'[c].at = a /\ consumer'[c].todo = consumer[c].todo
    BY <2>1 DEF Takes
  <2>3. ASSUME NEW e \in EventsOf(consumer[c].batch), e \notin aborted', NEW s \in due'[e]
        PROVE  Covered(c, e, s)'
    BY <2>1, <2>2, <2>3, StillDue DEF Covered
  <2> QED BY <2>1, <2>3, <1>w
<1>on. ASSUME NEW c \in Consumers, consumer[c].at \in {"claim", "record"},
              NEW R \in SUBSET Subs, Onward(c, R),
              \A s \in consumer[c].rest \ R : claims'[<<consumer[c].event, s>>] # "none"
       PROVE  GoneThrough'
  <2>1. CASE R = {}
    <3>1. PICK a \in {"end", "next"} : Takes(c, a, consumer[c].batch, consumer[c].todo)
      BY <1>k, <1>on, <2>1, OnwardEffect
    <3>2. ASSUME NEW e \in EventsOf(consumer[c].batch), e \notin aborted', NEW s \in due'[e]
          PROVE  Covered(c, e, s)'
      <4>1. Covered(c, e, s) /\ (claims[<<e, s>>] # "none" => claims'[<<e, s>>] # "none")
        BY <3>2, StillDue
      <4>2. consumer'[c].todo = consumer[c].todo
        BY <3>1 DEF Takes
      <4> QED BY <4>1, <4>2, <1>on, <2>1 DEF Covered
    <3> QED BY <3>1, <3>2, <1>w
  <2>2. CASE R # {}
    <3>1. /\ Takes(c, "claim", consumer[c].batch, consumer[c].todo)
          /\ consumer'[c].event = consumer[c].event
          /\ consumer'[c].rest = R
      BY <1>k, <1>on, <2>2, OnwardEffect
    <3>2. ASSUME NEW e \in EventsOf(consumer[c].batch), e \notin aborted', NEW s \in due'[e]
          PROVE  Covered(c, e, s)'
      <4>1. Covered(c, e, s) /\ (claims[<<e, s>>] # "none" => claims'[<<e, s>>] # "none")
        BY <3>2, StillDue
      <4>2. consumer'[c].todo = consumer[c].todo /\ consumer'[c].at = "claim"
        BY <3>1 DEF Takes
      <4> QED BY <4>1, <4>2, <3>1, <1>on DEF Covered
    <3> QED BY <3>1, <3>2, <1>w
  <2> QED BY <2>1, <2>2
<1>1. ASSUME NEW e \in Events, publish(e) \/ LeaseEnds(e) \/ pruneEventDeliveries(e)
      PROVE  GoneThrough'
  BY <1>1, <1>u DEF publish, LeaseEnds, pruneEventDeliveries
<1>2. ASSUME NEW s \in Subs, subscribe(s) \/ unsubscribe(s) PROVE GoneThrough'
  BY <1>2, <1>u DEF subscribe, unsubscribe
<1>3. ASSUME NEW c \in Consumers, Receive(c) PROVE GoneThrough'
  <2>1. PICK B \in SUBSET Events :
            Takes(c, "next", {<<e, tries[e] + 1>> : e \in B}, B)
    BY <1>k, <1>3, ReceiveEffect
  <2>2. ASSUME NEW f \in EventsOf({<<e, tries[e] + 1>> : e \in B}) PROVE f \in B
    BY <2>2 DEF EventsOf
  <2>3. consumer'[c].todo = B
    BY <2>1 DEF Takes
  <2> QED BY <2>1, <2>2, <2>3, <1>w DEF Covered
<1>4. ASSUME NEW c \in Consumers, Select(c) PROVE GoneThrough'
  <2>0. consumer[c].at = "next"
    BY <1>4 DEF Select
  <2>1. PICK g \in consumer[c].todo :
           LET T == consumer[c].todo \ {g}
           IN  \/ /\ On # {}
                  /\ Takes(c, "claim", consumer[c].batch, T)
                  /\ consumer'[c].event = g
                  /\ consumer'[c].rest = On
               \/ /\ On = {}
                  /\ Takes(c, IF T = {} THEN "end" ELSE "next", consumer[c].batch, T)
    BY <1>k, <1>4, SelectEffect
  <2> DEFINE T == consumer[c].todo \ {g}
  <2>2. ASSUME NEW e \in EventsOf(consumer[c].batch), e \notin aborted', NEW s \in due'[e],
               consumer'[c].todo = T,
               e = g => consumer'[c].at = "claim" /\ consumer'[c].event = g /\ s \in consumer'[c].rest
        PROVE  Covered(c, e, s)'
    <3>1. Covered(c, e, s) /\ (claims[<<e, s>>] # "none" => claims'[<<e, s>>] # "none")
      BY <2>2, StillDue
    <3> QED BY <3>1, <2>0, <2>2 DEF Covered
  <2>3. CASE On # {}
    <3>1. /\ Takes(c, "claim", consumer[c].batch, T)
          /\ consumer'[c].event = g
          /\ consumer'[c].rest = On
      BY <2>1, <2>3
    <3>2. consumer'[c].todo = T /\ consumer'[c].at = "claim"
      BY <3>1 DEF Takes
    <3>3. ASSUME NEW e \in EventsOf(consumer[c].batch), e \notin aborted', NEW s \in due'[e]
          PROVE  Covered(c, e, s)'
      <4>1. s \in On
        BY <3>3, StillDue
      <4> QED BY <4>1, <3>1, <3>2, <3>3, <2>2
    <3> HIDE DEF T
    <3> QED BY <3>1, <3>3, <1>w
  <2>4. CASE On = {}
    <3>1. PICK a \in {"end", "next"} : Takes(c, a, consumer[c].batch, T)
      BY <2>1, <2>4
    <3>2. consumer'[c].todo = T
      BY <3>1 DEF Takes
    <3>3. ASSUME NEW e \in EventsOf(consumer[c].batch), e \notin aborted', NEW s \in due'[e]
          PROVE  Covered(c, e, s)'
      <4>1. s \in On
        BY <3>3, StillDue
      <4> QED BY <4>1, <2>4
    <3> HIDE DEF T
    <3> QED BY <3>1, <3>3, <1>w
  <2> QED BY <2>3, <2>4
<1>5. ASSUME NEW c \in Consumers, Claim(c) PROVE GoneThrough'
  <2>0. consumer[c].at = "claim" /\ consumer[c].event \in Events
    BY <1>5, <1>k DEF Claim, InHand
  <2>1. PICK x \in consumer[c].rest :
           LET p == <<consumer[c].event, x>>
           IN  \/ /\ claims[p] = "none"
                  /\ claims' = [claims EXCEPT ![p] = "pending"]
                  /\ Takes(c, "deliver", consumer[c].batch, consumer[c].todo)
                  /\ consumer'[c].event = consumer[c].event
                  /\ consumer'[c].rest = consumer[c].rest \ {x}
                  /\ consumer'[c].sub = x
               \/ /\ claims[p] # "none"
                  /\ UNCHANGED claims
                  /\ Onward(c, consumer[c].rest \ {x})
    BY <1>k, <1>5, ClaimEffect
  <2>2. x \in Subs /\ consumer[c].rest \ {x} \in SUBSET Subs
    BY InHandFacts
  <2>3. <<consumer[c].event, x>> \in Pairs
    BY <2>0, <2>2 DEF Pairs
  <2>4. CASE claims[<<consumer[c].event, x>>] = "none"
    <3>1. /\ claims' = [claims EXCEPT ![<<consumer[c].event, x>>] = "pending"]
          /\ Takes(c, "deliver", consumer[c].batch, consumer[c].todo)
          /\ consumer'[c].event = consumer[c].event
          /\ consumer'[c].rest = consumer[c].rest \ {x}
      BY <2>1, <2>4
    <3>2. claims'[<<consumer[c].event, x>>] # "none"
      BY <3>1, <2>3, <1>t
    <3>3. consumer'[c].todo = consumer[c].todo /\ consumer'[c].at = "deliver"
      BY <3>1 DEF Takes
    <3>4. ASSUME NEW e \in EventsOf(consumer[c].batch), e \notin aborted', NEW s \in due'[e]
          PROVE  Covered(c, e, s)'
      <4>1. Covered(c, e, s) /\ (claims[<<e, s>>] # "none" => claims'[<<e, s>>] # "none")
        BY <3>4, StillDue
      <4>2. /\ consumer'[c].event = consumer[c].event
            /\ consumer'[c].rest = consumer[c].rest \ {x}
        BY <3>1
      <4> QED BY <4>1, <4>2, <3>2, <3>3 DEF Covered
    <3> QED BY <3>1, <3>4, <1>w
  <2>5. CASE claims[<<consumer[c].event, x>>] # "none"
    <3>1. UNCHANGED claims /\ Onward(c, consumer[c].rest \ {x})
      BY <2>1, <2>5
    <3> QED BY <3>1, <2>0, <2>2, <2>5, <1>on
  <2> QED BY <2>4, <2>5
<1>6. ASSUME NEW c \in Consumers, DeliverTaken(c) \/ DeliverThrows(c) PROVE GoneThrough'
  BY <1>6, <1>st DEF DeliverTaken, DeliverThrows
<1>7. ASSUME NEW c \in Consumers, Record(c) PROVE GoneThrough'
  <2>1. consumer[c].rest \in SUBSET Subs
    BY InHandFacts
  <2> QED BY <2>1, <1>7, <1>on DEF Record
<1>8. ASSUME NEW c \in Consumers, Release(c) PROVE GoneThrough'
  BY <1>8, <1>th DEF Release
<1>9. ASSUME NEW c \in Consumers, StatementFails(c) PROVE GoneThrough'
  BY <1>9, <1>st, <1>th DEF StatementFails
<1>10. ASSUME NEW c \in Consumers, Return(c) \/ Kill(c) PROVE GoneThrough'
  BY <1>10, <1>i DEF Return, Kill
<1>11. CASE UNCHANGED busVars
  BY <1>11, <1>u DEF busVars
<1> QED
  BY <1>1, <1>2, <1>3, <1>4, <1>5, <1>6, <1>7, <1>8, <1>9, <1>10, <1>11 DEF BusNext, Work

\* An acknowledged message: it was so before, or a batch with it was gone through.
LEMMA NewlyAcked ==
  ASSUME BusInv, [BusNext]_busVars, NEW e \in Events, message'[e] = "acked", message[e] # "acked"
  PROVE  \E c \in Consumers : /\ consumer[c].at = "end"
                              /\ e \in EventsOf(consumer[c].batch)
                              /\ UNCHANGED <<due, aborted>>
<1>k. BusTypeOK /\ TriesLeft
      /\ message \in [Events -> {"unsent", "ready", "leased", "acked", "dead"}]
  BY BusTyped DEF BusInv
<1>1. ASSUME NEW c \in Consumers, Return(c)
      PROVE  /\ consumer[c].at = "end"
             /\ e \in EventsOf(consumer[c].batch)
             /\ UNCHANGED <<due, aborted>>
  <2>1. Handed(e) \in consumer[c].batch
    BY <1>1 DEF Return
  <2>2. Handed(e)[1] = e
    BY DEF Handed
  <2> QED BY <2>1, <2>2, <1>1 DEF Return, EventsOf
<1>2. ASSUME NEW f \in Events, publish(f) \/ LeaseEnds(f) PROVE FALSE
  BY <1>2, <1>k DEF publish, LeaseEnds
<1>3. ASSUME NEW c \in Consumers, Receive(c) PROVE FALSE
  BY <1>3, <1>k DEF Receive
<1>4. ASSUME UNCHANGED message PROVE FALSE
  BY <1>4
<1>5. \/ \E c \in Consumers : Return(c) \/ Receive(c)
      \/ \E f \in Events : publish(f) \/ LeaseEnds(f)
      \/ UNCHANGED message
  BY DEF BusNext, Work, busVars, subscribe, unsubscribe, Select, Claim,
         DeliverTaken, DeliverThrows, Record, Release, StatementFails, Kill,
         pruneEventDeliveries
<1> QED BY <1>1, <1>2, <1>3, <1>4, <1>5

\* Every step preserves MissedInv.
LEMMA MissedStep ==
  ASSUME BusInv, MissedInv, [BusNext]_busVars
  PROVE  MissedInv'
<1>m. /\ OneDeliverer /\ ClaimsAreServed /\ RecordedIsTaken
      /\ GoneThrough /\ DueIsOn /\ NothingMissedInSilence
  BY DEF MissedInv
<1>d. DeliveryStep
  BY EveryDeliveryStep
<1>1. OneDeliverer'
  BY <1>m, OneDelivererStep
<1>2. ClaimsAreServed'
  BY <1>m, <1>d, AbortedGrows, ClaimsAreServedStep
<1>3. RecordedIsTaken'
  BY <1>m, <1>d, RecordedIsTakenStep
<1>4. GoneThrough'
  BY <1>m, <1>d, GoneThroughStep
<1>5. DueIsOn'
  BY <1>m, DueIsOnStep
<1>6. NothingMissedInSilence'
  <2> SUFFICES ASSUME NEW e \in Events, NEW s \in due'[e], message'[e] = "acked",
                      e \notin aborted'
               PROVE  received'[<<e, s>>] > 0 \/ \E c \in Consumers : Delivering(c, <<e, s>>)'
    BY DEF NothingMissedInSilence
  <2>1. aborted \subseteq aborted'
    BY AbortedGrows
  <2>2. CASE message[e] = "acked"
    <3>1. s \in due[e]
      BY <2>2, DueShrinks
    <3>2. s \in Subs
      BY <3>1, BusTyped
    <3>3. PICK p \in Pairs : p = <<e, s>> /\ p[1] = e
      <4>1. <<e, s>> \in Pairs /\ <<e, s>>[1] = e
        BY <3>2 DEF Pairs
      <4> QED BY <4>1
    <3>4. Served(p)
      BY <3>1, <3>3, <2>1, <2>2, <1>m DEF NothingMissedInSilence, Served
    <3>5. Served(p)'
      BY <3>3, <3>4, <1>m, <1>d, ServedStays
    <3> QED BY <3>3, <3>5 DEF Served
  <2>3. CASE message[e] # "acked"
    <3>1. PICK c \in Consumers : /\ consumer[c].at = "end"
                                 /\ e \in EventsOf(consumer[c].batch)
                                 /\ UNCHANGED <<due, aborted>>
      BY <2>3, NewlyAcked
    <3>2. consumer[c].todo = {}
      BY <3>1 DEF BusInv, InHand
    <3>3. claims[<<e, s>>] # "none"
      BY <3>1, <3>2, <1>m DEF GoneThrough, Covered
    <3>4. s \in Subs
      BY <3>1, BusTyped
    <3>5. PICK p \in Pairs : p = <<e, s>> /\ p[1] = e
      <4>1. <<e, s>> \in Pairs /\ <<e, s>>[1] = e
        BY <3>4 DEF Pairs
      <4> QED BY <4>1
    <3>6. Served(p)
      BY <3>1, <3>3, <3>5, <1>m DEF ClaimsAreServed
    <3>7. Served(p)'
      BY <3>5, <3>6, <1>m, <1>d, ServedStays
    <3> QED BY <3>5, <3>7 DEF Served
  <2> QED BY <2>2, <2>3
<1> QED BY <1>1, <1>2, <1>3, <1>4, <1>5, <1>6 DEF MissedInv

\* An acknowledged message was taken by every subscription it was due to, or is
\* being delivered by some invocation, or a batch with it was broken off.
THEOREM NothingMissedAlways == BusSpec => []NothingMissedInSilence
<1>1. BusInit => BusInv /\ MissedInv
  BY BusInitInv, BusInitMissed
<1>2. BusInv /\ MissedInv /\ [BusNext]_busVars => (BusInv /\ MissedInv)'
  BY BusInvStep, MissedStep
<1>3. MissedInv => NothingMissedInSilence
  BY DEF MissedInv
<1> QED BY <1>1, <1>2, <1>3, PTL DEF BusSpec

-----------------------------------------------------------------------------
(* What the way out of the queue rests on (EveryMessageLeaves).            *)

\* What is ahead of a message: at most two moves, out and back, for each try left.
Ahead(e) ==
    CASE message[e] = "unsent" -> 2 * (MaxRetries + 2)
      [] message[e] = "ready"  -> 2 * (MaxRetries + 1 - tries[e])
      [] message[e] = "leased" -> 2 * (MaxRetries + 1 - tries[e]) + 1
      [] OTHER                 -> 0

MovesAreCounted ==
    [][ \A e \in Events :
          /\ Ahead(e) \in Nat /\ Ahead(e)' \in Nat
          /\ message'[e] # message[e] \/ tries'[e] # tries[e] => Ahead(e)' < Ahead(e) ]_busVars

\* A move of a message uses up some of what is ahead of it.
LEMMA AheadStep ==
  ASSUME BusInv, BusInv', BusNext, NEW e \in Events
  PROVE  /\ Ahead(e) \in Nat /\ Ahead(e)' \in Nat
         /\ message'[e] # message[e] \/ tries'[e] # tries[e] => Ahead(e)' < Ahead(e)
<1> USE EventBusAssumption
<1>1. /\ message[e] \in {"unsent", "ready", "leased", "acked", "dead"}
      /\ tries[e] \in 0..MaxRetries + 1
      /\ message[e] \in {"unsent", "ready"} => tries[e] <= MaxRetries
      /\ DOMAIN message = Events
  BY BusTyped DEF BusInv, TriesLeft
<1>2. /\ message'[e] \in {"unsent", "ready", "leased", "acked", "dead"}
      /\ tries'[e] \in 0..MaxRetries + 1
      /\ message'[e] \in {"unsent", "ready"} => tries'[e] <= MaxRetries
  BY DEF BusInv, BusTypeOK, TriesLeft
<1> DEFINE Moves ==
      \/ message'[e] = message[e] /\ tries'[e] = tries[e]
      \/ message[e] = "unsent" /\ message'[e] = "ready" /\ tries'[e] = tries[e]
      \/ message[e] = "ready" /\ message'[e] = "leased" /\ tries'[e] = tries[e] + 1
      \/ message[e] = "leased" /\ message'[e] \in {"ready", "dead", "acked"} /\ tries'[e] = tries[e]
<1>3. Moves
  <2>1. ASSUME NEW f \in Events, publish(f) \/ LeaseEnds(f) PROVE Moves
    BY <2>1, <1>1 DEF publish, LeaseEnds
  <2>2. ASSUME NEW c \in Consumers, Receive(c) PROVE Moves
    <3>1. PICK B \in SUBSET {f \in Events : message[f] = "ready"} :
             /\ message' = [f \in Events |-> IF f \in B THEN "leased" ELSE message[f]]
             /\ tries' = [f \in Events |-> IF f \in B THEN tries[f] + 1 ELSE tries[f]]
      BY <2>2 DEF Receive
    <3> QED BY <3>1
  <2>3. ASSUME NEW c \in Consumers, Return(c) PROVE Moves
    BY <2>3 DEF Return
  <2>4. CASE UNCHANGED <<message, tries>>
    BY <2>4
  <2>5. \/ \E c \in Consumers : Return(c) \/ Receive(c)
        \/ \E f \in Events : publish(f) \/ LeaseEnds(f)
        \/ UNCHANGED <<message, tries>>
    BY DEF BusNext, Work, subscribe, unsubscribe, Select, Claim, DeliverTaken, DeliverThrows,
           Record, Release, StatementFails, Kill, pruneEventDeliveries
  <2> QED BY <2>1, <2>2, <2>3, <2>4, <2>5
<1>4. Ahead(e) \in Nat
  BY <1>1 DEF Ahead
<1>5. Ahead(e)' \in Nat
  BY <1>2 DEF Ahead
<1>6. message'[e] # message[e] \/ tries'[e] # tries[e] => Ahead(e)' < Ahead(e)
  BY <1>1, <1>2, <1>3 DEF Ahead
<1> QED BY <1>4, <1>5, <1>6

\* Whatever throws, dies or runs out of its lease, a message goes out and back a bounded
\* number of times, at most MaxRetries + 1 in all (apps/api/src/index.ts, queue()).
THEOREM MessagesMoveBoundedly == BusSpec => MovesAreCounted
<1>1. BusInv /\ BusInv' /\ [BusNext]_busVars =>
        [\A e \in Events :
           /\ Ahead(e) \in Nat /\ Ahead(e)' \in Nat
           /\ message'[e] # message[e] \/ tries'[e] # tries[e] => Ahead(e)' < Ahead(e)]_busVars
  BY AheadStep
<1> QED BY <1>1, BusInitInv, BusInvStep, PTL DEF BusSpec, MovesAreCounted

\* The loops of consumeEventBatch, over the messages and over the subscribers of one,
\* and the awaits of one delivery, by how much of them is left.
Loop == {"claim", "deliver", "record", "release"}
Place(at) == IF at \in Loop THEN 3 ELSE IF at = "next" THEN 2 ELSE IF at = "end" THEN 1 ELSE 0
Awaits(at) == IF at = "deliver" THEN 3 ELSE IF at = "record" THEN 2 ELSE 1

Nearer(r, q) ==
    /\ q.todo \subseteq r.todo
    /\ \/ q.todo # r.todo
       \/ Place(q.at) < Place(r.at)
       \/ /\ r.at \in Loop /\ q.at \in Loop /\ q.rest \subseteq r.rest
          /\ q.rest # r.rest \/ Awaits(q.at) < Awaits(r.at)

GetsNearer(c) ==
    consumer'[c] # consumer[c] =>
        IF consumer[c].at = "idle" THEN \E e \in Events : message[e] = "ready" /\ message'[e] = "leased"
        ELSE Nearer(consumer[c], consumer'[c])

WorkIsCounted == [][\A c \in Consumers : GetsNearer(c)]_busVars

\* An invocation that goes on has less left, however its step ends.
LEMMA WorkStep ==
  ASSUME BusTypeOK, NEW c \in Consumers, Work(c) \/ StatementFails(c) \/ Kill(c)
  PROVE  consumer[c].at # "idle" /\ Nearer(consumer[c], consumer'[c])
<1> DEFINE r == consumer[c]
           q == consumer'[c]
<1>t. r \in ConsumerType
  BY DEF BusTypeOK, ConsumerType
<1>f. r.todo \subseteq Events /\ r.rest \subseteq Subs
  BY <1>t DEF ConsumerType
<1>1. ASSUME NEW a \in Steps, NEW B, Takes(c, a, B, {}), Place(a) < Place(r.at) PROVE Nearer(r, q)
  BY <1>1 DEF Takes, Nearer
<1>2. ASSUME NEW R \in SUBSET Subs, Onward(c, R), r.at \in Loop, R \subseteq r.rest,
             R # r.rest \/ 1 < Awaits(r.at)
      PROVE  Nearer(r, q)
  BY <1>2, OnwardEffect DEF Takes, Nearer, Place, Loop, Awaits
<1>3. ASSUME NEW a \in Steps, StepTo(c, a), r.at \in Loop, a \in Loop, Awaits(a) < Awaits(r.at)
      PROVE  Nearer(r, q)
  BY <1>3, StepToEffect DEF Takes, Nearer
<1>4. ASSUME Throw(c), Place("end") < Place(r.at) PROVE Nearer(r, q)
  BY <1>1, <1>4, ThrowEffect DEF Steps
<1>5. CASE Select(c)
  <2>1. PICK e \in r.todo : q.todo = r.todo \ {e}
    BY <1>5, SelectEffect DEF Takes
  <2> QED BY <1>5, <2>1 DEF Select, Nearer
<1>6. CASE Claim(c)
  <2>1. PICK s \in r.rest :
           \/ /\ Takes(c, "deliver", r.batch, r.todo)
              /\ q.rest = r.rest \ {s}
           \/ Onward(c, r.rest \ {s})
    BY <1>6, ClaimEffect
  <2>2. CASE Onward(c, r.rest \ {s})
    BY <1>2, <1>6, <1>f, <2>1, <2>2 DEF Claim, Loop
  <2>3. CASE Takes(c, "deliver", r.batch, r.todo) /\ q.rest = r.rest \ {s}
    BY <1>6, <2>1, <2>3 DEF Takes, Claim, Nearer, Loop
  <2> QED BY <1>6, <2>1, <2>2, <2>3 DEF Claim
<1>7. CASE DeliverTaken(c) \/ DeliverThrows(c)
  BY <1>3, <1>7 DEF DeliverTaken, DeliverThrows, Loop, Awaits, Steps
<1>8. CASE Record(c)
  BY <1>2, <1>8, <1>f DEF Record, Loop, Awaits
<1>9. CASE Release(c)
  BY <1>4, <1>9 DEF Release, Place, Loop
<1>10. CASE StatementFails(c)
  BY <1>3, <1>4, <1>10 DEF StatementFails, Place, Loop, Awaits, Steps
<1>11. CASE Return(c) \/ Kill(c)
  <2>1. Takes(c, "idle", {}, {})
    BY <1>11, IdleEffect DEF Return, Kill
  <2>2. Place("idle") < Place(r.at)
    BY <1>11, <1>t DEF Return, Kill, Place, Loop, ConsumerType, Steps
  <2> QED BY <1>1, <1>11, <2>1, <2>2 DEF Return, Kill, Steps
<1> QED BY <1>5, <1>6, <1>7, <1>8, <1>9, <1>10, <1>11 DEF Work

\* An invocation of queue() goes through a finite batch once, whatever it meets: each step
\* leaves it fewer messages, or fewer subscribers of one, or less of one delivery, and it
\* begins anew only with a message that leaves the queue for it.
THEOREM InvocationsFinish == BusSpec => WorkIsCounted
<1>1. BusInv /\ [BusNext]_busVars => [\A c \in Consumers : GetsNearer(c)]_busVars
  <2> SUFFICES ASSUME BusInv, BusNext, NEW c \in Consumers PROVE GetsNearer(c)
    OBVIOUS
  <2>0. BusTypeOK /\ TriesLeft
    BY DEF BusInv
  <2>1. ASSUME NEW d \in Consumers, Work(d) \/ StatementFails(d) \/ Kill(d) PROVE GetsNearer(c)
    <3>1. d # c => consumer'[c] = consumer[c]
      BY <2>0, <2>1 DEF Work, Select, Claim, Onward, DeliverTaken, DeliverThrows, StepTo, Record,
                        Release, Throw, Return, StatementFails, Kill, BusTypeOK
    <3> QED BY <2>0, <2>1, <3>1, WorkStep DEF GetsNearer
  <2>2. ASSUME NEW d \in Consumers, Receive(d) PROVE GetsNearer(c)
    <3>1. d # c => consumer'[c] = consumer[c]
      BY <2>0, <2>2 DEF Receive, BusTypeOK
    <3>2. consumer[d].at = "idle"
      BY <2>2 DEF Receive
    <3>3. PICK B \in SUBSET {e \in Events : message[e] = "ready"} :
             B # {} /\ message' = [e \in Events |-> IF e \in B THEN "leased" ELSE message[e]]
      BY <2>2 DEF Receive
    <3>4. \E e \in Events : message[e] = "ready" /\ message'[e] = "leased"
      BY <3>3
    <3> QED BY <3>1, <3>2, <3>4 DEF GetsNearer
  <2>3. CASE UNCHANGED consumer
    BY <2>3 DEF GetsNearer
  <2>4. \/ \E d \in Consumers : Work(d) \/ StatementFails(d) \/ Kill(d) \/ Receive(d)
        \/ UNCHANGED consumer
    BY DEF BusNext, publish, subscribe, unsubscribe, LeaseEnds, pruneEventDeliveries
  <2> QED BY <2>1, <2>2, <2>3, <2>4
<1> QED BY <1>1, BusInitInv, BusInvStep, PTL DEF BusSpec, WorkIsCounted

=============================================================================
