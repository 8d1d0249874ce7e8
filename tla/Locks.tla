------------------------------- MODULE Locks -------------------------------
(***************************************************************************)
(* One lock name of packages/locks: the row its LockDO keeps, and a set of *)
(* calls of LockService that contend for it.  A call is one withLock (or   *)
(* tryWithLock), or, when it is in Manual, one pair of acquire and release *)
(* requests of the HTTP plugin, which starts no renewer.  Every call draws *)
(* a fresh UUID as its owner token, so a call is its own owner.            *)
(*                                                                         *)
(* Time is relative: row.left is what remains of the lease, patience what  *)
(* remains before the deadline and timer what remains before the renewer's *)
(* interval fires; Tick takes one unit from each.  A lease with nothing    *)
(* left is the code's expires_at <= now.                                   *)
(***************************************************************************)
EXTENDS Naturals

CONSTANTS
    Calls,      \* calls of withLock / tryWithLock / the HTTP routes
    Manual,     \* those made over HTTP: no renewer
    NoOwner,    \* owner of the absent row
    TTL,        \* ttlMs, in ticks
    MinRenew,   \* the floor of the renewer's interval (1_000 ms), in ticks
    Timeout     \* largest timeoutMs, in ticks

ASSUME LocksAssumption ==
    /\ NoOwner \notin Calls
    /\ Manual \subseteq Calls
    /\ TTL \in Nat \ {0}
    /\ MinRenew \in Nat \ {0}
    /\ Timeout \in Nat

VARIABLES
    row,        \* the locks table of the DO: owner and remaining lease
    pc,         \* where each call is
    patience,   \* ticks before the deadline of acquire
    timer,      \* ticks before the renewer fires, Off when it does not run
    renewing,   \* a renew request is on its way to the DO
    prompt      \* no renewal was lost and none, and no grant, was late so far

vars == <<row, pc, patience, timer, renewing, prompt>>

\* mutant: the interval is the whole lease
RenewEveryLease == IF TTL < MinRenew THEN MinRenew ELSE TTL

\* startRenewer's Math.max(1_000, Math.floor(ttlMs / 2))
RenewEvery == IF TTL \div 2 < MinRenew THEN MinRenew ELSE TTL \div 2

Off == RenewEvery + 1

NoRow == [owner |-> NoOwner, left |-> 0]

Lease(c) == [owner |-> c, left |-> TTL]

States == {"idle", "asking", "granted", "refused", "waiting", "running",
           "releasing", "done", "timedOut", "failed", "crashed"}

TypeOK ==
    /\ row \in [owner : Calls \cup {NoOwner}, left : 0..TTL]
    /\ pc \in [Calls -> States]
    /\ patience \in [Calls -> 0..Timeout]
    /\ timer \in [Calls -> 0..Off]
    /\ renewing \in [Calls -> BOOLEAN]
    /\ prompt \in BOOLEAN

Init ==
    /\ row = NoRow
    /\ pc = [c \in Calls |-> "idle"]
    /\ patience \in [Calls -> 0..Timeout]
    /\ timer = [c \in Calls |-> Off]
    /\ renewing = [c \in Calls |-> FALSE]
    /\ prompt = TRUE

Goto(c, from, to) ==
    /\ pc[c] = from
    /\ pc' = [pc EXCEPT ![c] = to]

-----------------------------------------------------------------------------
(* The Durable Object: one request at a time, each atomic.                 *)

Expired == row.left = 0

Grants(c) == row = NoRow \/ row.owner = c \/ Expired

DoAcquire(c) ==
    /\ Goto(c, "asking", IF Grants(c) THEN "granted" ELSE "refused")
    /\ row' = IF Grants(c) THEN Lease(c) ELSE row
    /\ UNCHANGED <<patience, timer, renewing, prompt>>

\* mutant: DELETE ... WHERE name = ?, whoever owns the row
DoReleaseOfAnyone(c) ==
    /\ Goto(c, "releasing", "done")
    /\ row' = NoRow
    /\ UNCHANGED <<patience, timer, renewing, prompt>>

DoRelease(c) ==
    /\ Goto(c, "releasing", "done")
    /\ row' = IF row.owner = c THEN NoRow ELSE row
    /\ UNCHANGED <<patience, timer, renewing, prompt>>

DoRenew(c) ==
    /\ renewing[c]
    /\ row' = IF row.owner = c THEN Lease(c) ELSE row
    /\ renewing' = [renewing EXCEPT ![c] = FALSE]
    /\ UNCHANGED <<pc, patience, timer, prompt>>

-----------------------------------------------------------------------------
(* The caller.                                                             *)

Ask(c) ==
    /\ pc[c] \in {"idle", "waiting"}
    /\ pc' = [pc EXCEPT ![c] = "asking"]
    /\ UNCHANGED <<row, patience, timer, renewing, prompt>>

\* acquire returned a handle: withLock starts the renewer and calls fn
Enter(c) ==
    /\ Goto(c, "granted", "running")
    /\ timer' = [timer EXCEPT ![c] = IF c \in Manual THEN Off ELSE RenewEvery]
    /\ UNCHANGED <<row, patience, renewing, prompt>>

Refused(c) ==
    /\ Goto(c, "refused", IF patience[c] = 0 THEN "timedOut" ELSE "waiting")
    /\ UNCHANGED <<row, patience, timer, renewing, prompt>>

\* the interval fires: the request is sent and not waited for
FireRenewer(c) ==
    /\ timer[c] = 0
    /\ renewing' = [renewing EXCEPT ![c] = TRUE]
    /\ timer' = [timer EXCEPT ![c] = RenewEvery]
    /\ UNCHANGED <<row, pc, patience, prompt>>

\* mutant: the renewer is not stopped
FinishWithoutStop(c) ==
    /\ Goto(c, "running", "releasing")
    /\ UNCHANGED <<row, patience, timer, renewing, prompt>>

\* fn settles: stop the renewer, send the release
Finish(c) ==
    /\ Goto(c, "running", "releasing")
    /\ timer' = [timer EXCEPT ![c] = Off]
    /\ UNCHANGED <<row, patience, renewing, prompt>>

-----------------------------------------------------------------------------
(* What may go wrong outside the code.                                     *)

\* the fetch of acquire rejects, the DO having served it or not
LoseAcquire(c) ==
    /\ pc[c] \in {"asking", "granted", "refused"}
    /\ pc' = [pc EXCEPT ![c] = "failed"]
    /\ UNCHANGED <<row, patience, timer, renewing, prompt>>

\* release().catch(() => {}): a release that never arrives is not retried
LoseRelease(c) ==
    /\ Goto(c, "releasing", "done")
    /\ UNCHANGED <<row, patience, timer, renewing, prompt>>

\* renew().catch(() => {}): nor is a renewal, before the next interval
LoseRenew(c) ==
    /\ renewing[c]
    /\ renewing' = [renewing EXCEPT ![c] = FALSE]
    /\ prompt' = FALSE
    /\ UNCHANGED <<row, pc, patience, timer>>

Crash(c) ==
    /\ pc[c] \in {"waiting", "running"}
    /\ pc' = [pc EXCEPT ![c] = "crashed"]
    /\ timer' = [timer EXCEPT ![c] = Off]
    /\ UNCHANGED <<row, patience, renewing, prompt>>

\* a request whose lateness could cost a running call its lease
Urgent(c) == pc[c] = "granted" \/ renewing[c] \/ timer[c] = 0

Less(n) == IF n = 0 THEN 0 ELSE n - 1

Tick ==
    /\ prompt' = (prompt /\ \A c \in Calls : ~Urgent(c))
    /\ row' = [row EXCEPT !.left = Less(@)]
    /\ patience' = [c \in Calls |-> IF pc[c] = "idle" THEN patience[c] ELSE Less(patience[c])]
    /\ timer' = [c \in Calls |-> IF timer[c] = Off THEN Off ELSE Less(timer[c])]
    /\ UNCHANGED <<pc, renewing>>

-----------------------------------------------------------------------------

ObjectStep(c) == DoAcquire(c) \/ DoRelease(c) \/ DoRenew(c)
CallerStep(c) == Ask(c) \/ Enter(c) \/ Refused(c) \/ FireRenewer(c) \/ Finish(c)
Fault(c) == LoseAcquire(c) \/ LoseRelease(c) \/ LoseRenew(c) \/ Crash(c)

Next == Tick \/ \E c \in Calls : ObjectStep(c) \/ CallerStep(c) \/ Fault(c)

Spec == Init /\ [][Next]_vars

\* requests that are neither lost nor delayed for ever, timers that run, an fn
\* that settles: each action keeps its own fairness, so that Tick starves none
Fairness ==
    /\ WF_vars(Tick)
    /\ \A c \in Calls :
         /\ WF_vars(DoAcquire(c)) /\ WF_vars(DoRelease(c)) /\ WF_vars(DoRenew(c))
         /\ WF_vars(Ask(c)) /\ WF_vars(Enter(c)) /\ WF_vars(Refused(c))
         /\ WF_vars(FireRenewer(c)) /\ WF_vars(Finish(c))

FairSpec == Spec /\ Fairness

-----------------------------------------------------------------------------
(* Properties.                                                             *)

Holding(c) == pc[c] = "running" /\ c \notin Manual

\* No two withLock bodies run at once (service.ts:38-44, "never silently loses
\* the lock to another caller mid-flight"), as long as grants and renewals have
\* arrived on time.  It needs an interval below the lease.
MutualExclusion ==
    prompt => \A c, d \in Calls : Holding(c) /\ Holding(d) => c = d

\* A lease that has not run out ends only by the release of its own owner: a
\* late release, renewal or acquire of anyone else leaves it (do.ts:84-111).
LiveLeaseIsKept ==
    [][ row # NoRow /\ ~Expired /\ row'.owner # row.owner
          => pc[row.owner] = "releasing" /\ row' = NoRow ]_vars

\* Nobody becomes owner by a renewal that outlived its lease: ownership is
\* gained only by an acquire that is being served (do.ts:105-112).
OwnershipIsAcquired ==
    [][ \A c \in Calls : row'.owner = c /\ row.owner # c => pc[c] = "asking" ]_vars

\* The lease of a call that is over, by a crash, a lost reply or a release that
\* never arrived, runs out: no renewer survives its call (service.ts:98-104,
\* do.ts:89-93), so a lock is never lost for good.
LeaseOfTheGoneRunsOut ==
    \A c \in Calls :
      (row.owner = c /\ pc[c] \in {"done", "failed", "crashed"})
         ~> (row.owner # c \/ Expired)

=============================================================================
