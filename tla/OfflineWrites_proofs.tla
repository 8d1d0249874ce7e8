------------------------ MODULE OfflineWrites_proofs ------------------------
(***************************************************************************)
(* What the offline queue and the keyed API promise together, for any      *)
(* number of writes, tokens, requests and overlapping flushes.  The server *)
(* side is an instance of Idempotency, whose theorems hold here; what is   *)
(* added is whose requests they are, what a flush still has to do, and     *)
(* what stands behind a write that was reported replayed.                  *)
(***************************************************************************)
EXTENDS OfflineWrites, TLAPS

Keyed == INSTANCE Idempotency_proofs WITH
    Modes <- {FALSE}, Void <- {}, Ttl <- 1, Keep <- 1

LEMMA Assumed == Keyed!IdempotencyAssumption
  BY OfflineAssumption DEF Keyed!IdempotencyAssumption

LEMMA SameServe ==
    \A c \in Calls :
      Server!Step(c) \/ Server!RecordErrs(c) \/ Server!Crash(c)
        => Keyed!Step(c) \/ Keyed!RecordErrs(c) \/ Keyed!Crash(c)
<1>. TAKE c \in Calls
<1>1. Server!Claim(c) => Keyed!Claim(c)
  BY DEF Server!Claim, Keyed!Claim, Server!Goto, Keyed!Goto, Server!NoRow, Keyed!NoRow,
         Server!Stale, Keyed!Stale
<1>2. Server!Look(c) => Keyed!Look(c)
  BY DEF Server!Look, Keyed!Look, Server!Goto, Keyed!Goto
<1>3. Server!Take(c) => Keyed!Take(c)
  BY DEF Server!Take, Keyed!Take, Server!Goto, Keyed!Goto
<1>4. Server!Perform(c) => Keyed!Perform(c)
  BY DEF Server!Perform, Keyed!Perform, Server!Goto, Keyed!Goto
<1>5. Server!Record(c) => Keyed!Record(c)
  BY DEF Server!Record, Keyed!Record, Server!Goto, Keyed!Goto, Server!Set, Keyed!Set
<1>6. Server!Undo(c) => Keyed!Undo(c)
  BY DEF Server!Undo, Keyed!Undo, Server!Goto, Keyed!Goto, Server!Set, Keyed!Set,
         Server!NoRow, Keyed!NoRow
<1>7. Server!RecordErrs(c) => Keyed!RecordErrs(c)
  BY DEF Server!RecordErrs, Keyed!RecordErrs, Server!Goto, Keyed!Goto
<1>8. Server!Crash(c) => Keyed!Crash(c)
  BY DEF Server!Crash, Keyed!Crash
<1>. QED  BY <1>1, <1>2, <1>3, <1>4, <1>5, <1>6, <1>7, <1>8 DEF Server!Step, Keyed!Step

LEMMA ClientLeavesServer ==
    Next /\ ~Serve => UNCHANGED server
  BY DEF Next, Send, Resend, Answered, Enqueue, Refresh, Flush, Replay, Replayed, Unanswered, Reload

LEMMA SameTypes == Server!TypeOK = Keyed!TypeOK
  BY DEF Keyed!TypeOK, Server!TypeOK, Keyed!Row, Server!Row, Keyed!Answers, Server!Answers

\* Whatever the client does, the keys go through what Idempotency allows: its
\* theorems hold of the composition (plugin.ts:49-100 calls nothing but run).
THEOREM ServerImplementsIdempotency == Spec => Keyed!Spec
<1>1. Init => Keyed!Init
  BY DEF Init, Server!Init, Keyed!Init, Server!NoRow, Keyed!NoRow
<1>2. (sent \subseteq Calls) /\ [Next]_vars => [Keyed!Next]_Keyed!vars
  <2>. SUFFICES ASSUME sent \subseteq Calls, [Next]_vars PROVE [Keyed!Next]_Keyed!vars
    OBVIOUS
  <2>1. CASE Serve
    BY <2>1, SameServe DEF Serve, Keyed!Next
  <2>2. CASE UNCHANGED server
    BY <2>2 DEF server, Keyed!vars
  <2>. QED  BY <2>1, <2>2, ClientLeavesServer DEF vars
<1>3. Init => sent \subseteq Calls
  BY DEF Init
<1>4. sent \subseteq Calls /\ [Next]_vars => (sent \subseteq Calls)'
  BY DEF Next, vars, client, Serve, Send, Resend, Request, Answered, Enqueue, Refresh, Flush,
         Replay, Replayed, Unanswered, Reload
<1>. QED  BY <1>1, <1>2, <1>3, <1>4, PTL DEF Spec, Keyed!Spec

-----------------------------------------------------------------------------
(* Writes.                                                                 *)

\* whose requests land where; no row is old enough to be taken over
Belongs ==
    /\ sent \subseteq Calls
    /\ \A k \in Keys : \A c \in landed[k] : c \in sent /\ key[c] = k
    /\ \A k \in Keys : row[k].created = 0 /\ ~late[k]

LEMMA BelongsInit == Init => Belongs
  BY DEF Init, Server!Init, Server!NoRow, Belongs

LEMMA BelongsStep == Keyed!TypeOK /\ Belongs /\ [Next]_vars => Belongs'
<1>. SUFFICES ASSUME Keyed!TypeOK, Belongs, [Next]_vars PROVE Belongs'
  OBVIOUS
<1>. USE DEF Belongs
<1>1. sent' \subseteq Calls
  BY DEF Next, vars, client, Serve, Send, Resend, Request, Answered, Enqueue, Refresh, Flush,
         Replay, Replayed, Unanswered, Reload
<1>2. sent \subseteq sent'
  BY DEF Next, vars, client, Serve, Send, Resend, Request, Answered, Enqueue, Refresh, Flush,
         Replay, Replayed, Unanswered, Reload
<1>3. CASE UNCHANGED server
  BY <1>1, <1>2, <1>3 DEF server
<1>4. ASSUME NEW c \in sent, Server!Step(c) \/ Server!RecordErrs(c) \/ Server!Crash(c)
      PROVE  Belongs'
  <2>1. key[c] \in Keys /\ row \in [Keys -> Keyed!Row] /\ landed \in [Keys -> SUBSET Calls]
    BY DEF Keyed!TypeOK
  <2>2. key' = key
    BY <1>4 DEF Server!Step, Server!Claim, Server!Look, Server!Take, Server!Perform,
       Server!Record, Server!Undo, Server!RecordErrs, Server!Crash
  <2>3. landed' = landed \/ landed' = [landed EXCEPT ![key[c]] = @ \cup {c}]
    BY <1>4 DEF Server!Step, Server!Claim, Server!Look, Server!Take, Server!Perform,
       Server!Record, Server!Undo, Server!RecordErrs, Server!Crash
  <2>4. late' = late
    BY <1>4, <2>1 DEF Server!Step, Server!Claim, Server!Look, Server!Take, Server!Perform,
       Server!Record, Server!Undo, Server!RecordErrs, Server!Crash, Server!Stale
  <2>5. \A k \in Keys : row'[k].created = 0
    <3>1. \A k \in Keys : k # key[c] => row'[k] = row[k]
      BY <1>4, <2>1 DEF Server!Step, Server!Claim, Server!Look, Server!Take, Server!Perform,
         Server!Record, Server!Undo, Server!RecordErrs, Server!Crash, Server!Set
    <3>2. row[key[c]] \in Keyed!Row /\ row[key[c]].created = 0
      BY <2>1
    <3>3. \A k \in Keys : Server!NoRow.created = 0 /\ [Server!NoRow EXCEPT !.st = "processing"].created = 0
      BY DEF Server!NoRow
    <3>4. ASSUME Server!Claim(c) PROVE row'[key[c]].created = 0
      <4>. DEFINE fresh == [Server!NoRow EXCEPT !.st = "processing"]
      <4>1. row' = [row EXCEPT ![key[c]] = fresh] \/ row' = row
        BY <3>2, <3>4 DEF Server!Claim, Server!Stale
      <4>2. fresh.created = 0
        BY DEF Server!NoRow
      <4>. HIDE DEF fresh
      <4>. QED  BY <2>1, <3>2, <4>1, <4>2
    <3>5. ASSUME Server!Take(c) PROVE row'[key[c]].created = 0
      BY <2>1, <3>2, <3>5 DEF Server!Take, Keyed!Row
    <3>6. ASSUME NEW of, [row[key[c]] EXCEPT !.st = "done", !.of = of, !.updated = 0].created # 0
          PROVE  FALSE
      BY <3>2, <3>6 DEF Keyed!Row
    <3>7. ASSUME Server!Record(c) PROVE row'[key[c]].created = 0
      <4>1. PICK of \in {c} \cup {} :
               Server!Set(key[c], [row[key[c]] EXCEPT !.st = "done", !.of = of, !.updated = 0])
        BY <3>7 DEF Server!Record
      <4>. DEFINE new == [row[key[c]] EXCEPT !.st = "done", !.of = of, !.updated = 0]
      <4>2. new.created = 0
        BY <3>6
      <4>3. Server!Set(key[c], new)
        BY <4>1
      <4>. HIDE DEF new
      <4>. QED  BY <2>1, <3>2, <4>2, <4>3 DEF Server!Set
    <3>8. [row[key[c]] EXCEPT !.st = "failed", !.updated = 0].created = 0
      BY <3>2 DEF Keyed!Row
    <3>9. ASSUME Server!Undo(c) PROVE row'[key[c]].created = 0
      <4>1. PICK new \in {Server!NoRow, [row[key[c]] EXCEPT !.st = "failed", !.updated = 0]} :
               Server!Set(key[c], new) /\ new.created = 0
        BY <2>1, <3>3, <3>8, <3>9 DEF Server!Undo
      <4>. QED  BY <2>1, <3>2, <4>1 DEF Server!Set
    <3>10. ASSUME row' = row PROVE row'[key[c]].created = 0
      BY <3>2, <3>10
    <3>. QED  BY <1>4, <2>1, <3>1, <3>4, <3>5, <3>7, <3>9, <3>10 DEF Server!Step, Server!Look,
              Server!Perform, Server!RecordErrs, Server!Crash
  <2>. QED  BY <1>1, <1>2, <1>4, <2>1, <2>2, <2>3, <2>4, <2>5
<1>. QED  BY <1>3, <1>4, ClientLeavesServer DEF Serve, vars

\* A write lands at most once, however often it is sent, resent and replayed, by
\* however many flushes at a time, if one token sent all of it and its success was
\* recorded (sdk.md:239-241).
THEOREM WritesLandOnce == Spec => NeverAppliedTwice
<1>1. Keyed!Exclusion /\ Belongs /\ Keyed!TypeOK =>
        [\A w \in Writes : \A c \in sent :
           /\ pc[c] = "run" /\ pc'[c] = "record"
           /\ key[c] \in KeysOf(w)
           /\ \A d \in sent : key[d] \in KeysOf(w) => key[d] = key[c]
           /\ ~amiss[key[c]]
           => ~HasLanded(w)]_vars
  <2>. SUFFICES ASSUME Keyed!Exclusion, Belongs, Keyed!TypeOK,
                       NEW w \in Writes, NEW c \in sent, key[c] \in KeysOf(w), pc[c] = "run",
                       \A d \in sent : key[d] \in KeysOf(w) => key[d] = key[c],
                       ~amiss[key[c]], HasLanded(w)
                PROVE  FALSE
    OBVIOUS
  <2>1. key[c] \in Keys /\ c \in Calls
    BY DEF Belongs, Keyed!TypeOK
  <2>2. landed[key[c]] = {}
    BY <2>1 DEF Keyed!Exclusion, Keyed!Settled, Keyed!Owners, Belongs
  <2>3. PICK k \in KeysOf(w) : landed[k] # {}
    BY DEF HasLanded
  <2>4. k \in Keys
    BY DEF KeysOf, Keys
  <2>5. PICK d \in landed[k] : d \in sent /\ key[d] = k
    BY <2>3, <2>4 DEF Belongs
  <2>. QED  BY <2>2, <2>3, <2>5
<1>2. Keyed!Spec => []Keyed!Exclusion /\ []Keyed!TypeOK
  BY Assumed, Keyed!ExclusionInvariant, Keyed!TypeCorrect, PTL
<1>. QED  BY <1>1, <1>2, BelongsInit, BelongsStep, ServerImplementsIdempotency, PTL
          DEF Spec, NeverAppliedTwice

-----------------------------------------------------------------------------
(* The queue.                                                              *)

Doing == [items : Seq(Writes), rest : Seq(Writes), at : Nat, asks : Calls \cup {None}]

\* an active flush is at one of its items
AtItem(f) == flush[f] # Idle => flush[f].at \in DOMAIN flush[f].items

ClientTypeOK ==
    /\ fate \in [Writes -> Fates]
    /\ asked \in [Writes -> Calls \cup {None}]
    /\ queue \in Seq(Writes)
    /\ flush \in [Flushers -> Doing]
    /\ \A f \in Flushers : AtItem(f)
    /\ exposed \in [Flushers -> SUBSET Writes]
    /\ overwritten \subseteq Writes
    /\ sent \subseteq Calls
    /\ token \in Tokens

LEMMA IdleIsDoing == Idle \in Doing
  BY DEF Idle, Doing

LEMMA ItemIsWrite == ClientTypeOK => \A f \in Flushers : flush[f] # Idle => Item(f) \in Writes
<1>. SUFFICES ASSUME ClientTypeOK, NEW f \in Flushers, flush[f] # Idle PROVE Item(f) \in Writes
  OBVIOUS
<1>1. flush[f] \in Doing /\ flush[f].at \in DOMAIN flush[f].items
  BY DEF ClientTypeOK, AtItem
<1>2. flush[f].items \in Seq(Writes)
  BY <1>1 DEF Doing
<1>. QED  BY <1>1, <1>2 DEF Item

\* an idle flush asks for nothing
LEMMA AskingIsActive == \A f \in Flushers : flush[f].asks # None => flush[f] # Idle
  BY DEF Idle

LEMMA AdvanceTypes ==
    ASSUME ClientTypeOK, NEW f \in Flushers, flush[f] # Idle,
           NEW rest \in Seq(Writes), Advance(f, rest)
    PROVE  /\ queue' \in Seq(Writes)
           /\ flush' \in [Flushers -> Doing]
           /\ \A g \in Flushers : AtItem(g)'
           /\ exposed' \in [Flushers -> SUBSET Writes]
           /\ overwritten' \subseteq Writes
<1>. DEFINE on == [items |-> flush[f].items, rest |-> rest,
                   at |-> flush[f].at + 1, asks |-> None]
            last == flush[f].at = Len(flush[f].items)
<1>1. flush \in [Flushers -> Doing] /\ flush[f] \in Doing
  BY DEF ClientTypeOK
<1>2. flush[f].at \in DOMAIN flush[f].items /\ flush[f].items \in Seq(Writes)
  BY <1>1 DEF ClientTypeOK, AtItem, Doing
<1>3. on \in Doing /\ on.items = flush[f].items /\ on.at = flush[f].at + 1
  BY <1>1 DEF Doing
<1>4. ~last => on.at \in DOMAIN on.items
  <2>1. ~last => flush[f].at + 1 \in DOMAIN flush[f].items
    BY <1>2
  <2>. HIDE DEF on, last
  <2>. QED  BY <1>3, <2>1
<1>5. flush' = [flush EXCEPT ![f] = IF last THEN Idle ELSE on]
  BY DEF Advance
<1>6. queue' \in Seq(Writes) /\ exposed' \in [Flushers -> SUBSET Writes] /\ overwritten' \subseteq Writes
  BY DEF Advance, ClientTypeOK
<1>. HIDE DEF on, last
<1>7. flush' \in [Flushers -> Doing]
  BY <1>1, <1>3, <1>5, IdleIsDoing
<1>8. ASSUME NEW g \in Flushers PROVE AtItem(g)'
  <2>1. CASE g = f
    BY <2>1, <1>1, <1>4, <1>5 DEF AtItem
  <2>2. CASE g # f
    BY <2>2, <1>1, <1>5 DEF AtItem, ClientTypeOK
  <2>. QED  BY <2>1, <2>2
<1>. QED  BY <1>6, <1>7, <1>8

LEMMA StatusCases == \A c : Status(c) \subseteq {"2xx", "409", "4xx", "429", "500", "503"}
  BY OfflineAssumption DEF Status

LEMMA ClientTypesInit == Init => ClientTypeOK
  BY IdleIsDoing, OfflineAssumption DEF Init, ClientTypeOK, AtItem, Fates, Tokens

LEMMA ClientTypesStep == ClientTypeOK /\ [Next]_vars => ClientTypeOK'
<1>. SUFFICES ASSUME ClientTypeOK, [Next]_vars PROVE ClientTypeOK'
  OBVIOUS
<1>1. CASE Serve \/ UNCHANGED vars
  BY <1>1 DEF Serve, client, history, vars, ClientTypeOK, AtItem
<1>2. ASSUME NEW w \in Writes, NEW c \in Calls, Send(w, c) \/ Resend(w, c) PROVE ClientTypeOK'
  BY <1>2 DEF Send, Resend, Request, history, ClientTypeOK, AtItem, Fates
<1>3. ASSUME NEW w \in Writes, Answered(w) PROVE ClientTypeOK'
  BY <1>3 DEF Answered, history, ClientTypeOK, AtItem, Fates
<1>4. ASSUME NEW w \in Writes, Enqueue(w) PROVE ClientTypeOK'
  BY <1>4 DEF Enqueue, ClientTypeOK, AtItem, Fates
<1>5. CASE Refresh
  BY <1>5, OfflineAssumption DEF Refresh, history, ClientTypeOK, AtItem, Tokens
<1>6. ASSUME NEW f \in Flushers, Flush(f) PROVE ClientTypeOK'
  <2>. DEFINE start == [Idle EXCEPT !.items = queue]
  <2>1. start \in Doing /\ start.at \in DOMAIN start.items
    <3>1. queue \in Seq(Writes) /\ queue # <<>>
      BY <1>6 DEF Flush, ClientTypeOK
    <3>2. 1 \in DOMAIN queue
      BY <3>1
    <3>3. start = [items |-> queue, rest |-> <<>>, at |-> 1, asks |-> None]
      BY DEF Idle
    <3>4. <<>> \in Seq(Writes)
      OBVIOUS
    <3>. HIDE DEF start
    <3>. QED  BY <3>1, <3>2, <3>3, <3>4 DEF Doing
  <2>2. flush' = [flush EXCEPT ![f] = start] /\ UNCHANGED <<sent, token, fate, asked, queue, exposed, overwritten>>
    BY <1>6 DEF Flush, history
  <2>. HIDE DEF start
  <2>3. \A g \in Flushers : AtItem(g)'
    BY <2>1, <2>2 DEF ClientTypeOK, AtItem
  <2>. QED  BY <2>1, <2>2, <2>3 DEF ClientTypeOK
<1>7. ASSUME NEW f \in Flushers, NEW c \in Calls, Replay(f, c) PROVE ClientTypeOK'
  <2>. DEFINE ask == [flush[f] EXCEPT !.asks = c]
  <2>1. flush[f] \in Doing /\ flush[f] # Idle
    BY <1>7 DEF Replay, ClientTypeOK
  <2>2. ask \in Doing /\ ask.at = flush[f].at /\ ask.items = flush[f].items
    BY <2>1 DEF Doing
  <2>3. flush' = [flush EXCEPT ![f] = ask] /\ UNCHANGED <<token, fate, asked, queue, exposed, overwritten>>
    BY <1>7 DEF Replay, history
  <2>. HIDE DEF ask
  <2>4. \A g \in Flushers : AtItem(g)'
    BY <2>1, <2>2, <2>3 DEF ClientTypeOK, AtItem
  <2>5. sent' \subseteq Calls
    BY <1>7 DEF Replay, Request, ClientTypeOK
  <2>. QED  BY <2>2, <2>3, <2>4, <2>5 DEF ClientTypeOK
<1>8. ASSUME NEW f \in Flushers, Replayed(f) \/ Unanswered(f) PROVE ClientTypeOK'
  <2>1. flush[f] # Idle /\ flush[f].rest \in Seq(Writes) /\ Item(f) \in Writes
    BY <1>8, ItemIsWrite, AskingIsActive DEF Replayed, Unanswered, ClientTypeOK, Doing
  <2>2. Append(flush[f].rest, Item(f)) \in Seq(Writes)
    BY <2>1
  <2>3. PICK rest \in Seq(Writes) : Advance(f, rest)
    BY <1>8, <2>1, <2>2 DEF Replayed, Unanswered
  <2>4. fate' \in [Writes -> Fates]
    <3>1. CASE Unanswered(f)
      BY <3>1 DEF Unanswered, ClientTypeOK
    <3>2. CASE Replayed(f)
      <4>1. PICK status \in Status(flush[f].asks) :
              LET told == Outcome(Item(f), status)
              IN  fate' = [fate EXCEPT ![Item(f)] = IF told = "queued" THEN @ ELSE told]
        BY <3>2 DEF Replayed
      <4>2. Outcome(Item(f), status) \in Fates
        BY StatusCases DEF Outcome, Fates
      <4>. QED  BY <2>1, <4>1, <4>2 DEF ClientTypeOK
    <3>. QED  BY <1>8, <3>1, <3>2
  <2>5. UNCHANGED <<sent, token, asked>>
    BY <1>8 DEF Replayed, Unanswered
  <2>. QED  BY <2>1, <2>3, <2>4, <2>5, AdvanceTypes DEF ClientTypeOK
<1>9. CASE Reload
  BY <1>9, IdleIsDoing DEF Reload, ClientTypeOK, AtItem
<1>. QED  BY <1>1, <1>2, <1>3, <1>4, <1>5, <1>6, <1>7, <1>8, <1>9 DEF Next

\* The state of client and server has its types.
THEOREM OfflineTypeCorrect == Spec => []TypeOK
<1>1. ClientTypeOK /\ Keyed!TypeOK => TypeOK
  BY SameTypes DEF TypeOK, ClientTypeOK, Doing, AtItem
<1>2. Keyed!Spec => []Keyed!TypeOK
  BY Assumed, Keyed!TypeCorrect
<1>. QED  BY <1>1, <1>2, ClientTypesInit, ClientTypesStep, ServerImplementsIdempotency, PTL DEF Spec

\* what flush f still has to keep or to settle
Holds(f, w) ==
    \/ \E i \in DOMAIN flush[f].rest : flush[f].rest[i] = w
    \/ \E i \in DOMAIN flush[f].items : i >= flush[f].at /\ flush[f].items[i] = w

Queued(w) == \E i \in DOMAIN queue : queue[i] = w

\* A queued write that no flush stored over is in the stored queue, and in what each
\* flush will store unless it was queued during that flush.
Kept ==
    \A w \in Writes \ overwritten : fate[w] = "queued" =>
      Queued(w) /\ \A f \in Flushers : flush[f] # Idle => w \in exposed[f] \/ Holds(f, w)

LEMMA AppendHolds ==
    ASSUME NEW s \in Seq(Writes), NEW w \in Writes
    PROVE  /\ \E i \in DOMAIN Append(s, w) : Append(s, w)[i] = w
           /\ \A i \in DOMAIN s : i \in DOMAIN Append(s, w) /\ Append(s, w)[i] = s[i]
<1>1. Append(s, w)[Len(s) + 1] = w /\ Len(s) + 1 \in DOMAIN Append(s, w)
  OBVIOUS
<1>. QED  BY <1>1

\* Advancing keeps a write that f holds beyond the item it is at, or that is in rest, and
\* one queued during f unless f stores now.
LEMMA AdvanceKeeps ==
    ASSUME ClientTypeOK, NEW f \in Flushers, flush[f] # Idle,
           NEW rest \in Seq(Writes), Advance(f, rest),
           NEW w \in Writes, w \notin overwritten', Queued(w),
           \/ w \in exposed[f]
           \/ \E i \in DOMAIN rest : rest[i] = w
           \/ \E i \in DOMAIN flush[f].items : i > flush[f].at /\ flush[f].items[i] = w
    PROVE  Queued(w)' /\ (flush'[f] # Idle => w \in exposed'[f] \/ Holds(f, w)')
<1>. DEFINE items == flush[f].items
            at == flush[f].at
            on == [items |-> items, rest |-> rest, at |-> at + 1, asks |-> None]
<1>1. items \in Seq(Writes) /\ at \in DOMAIN items /\ flush \in [Flushers -> Doing]
  BY DEF ClientTypeOK, AtItem, Doing
<1>2. CASE at = Len(items)
  <2>1. w \in exposed[f] \/ \E i \in DOMAIN rest : rest[i] = w
    BY <1>1, <1>2
  <2>2. queue' = queue \/ (queue' = rest /\ w \notin exposed[f])
    BY <1>2 DEF Advance
  <2>3. flush'[f] = Idle
    BY <1>1, <1>2 DEF Advance
  <2>. QED  BY <2>1, <2>2, <2>3 DEF Queued
<1>3. CASE at # Len(items)
  <2>1. queue' = queue /\ flush'[f] = on /\ exposed' = exposed
    BY <1>1, <1>3 DEF Advance
  <2>2. on.rest = rest /\ on.items = items /\ on.at = at + 1
    OBVIOUS
  <2>3. \A i \in DOMAIN items : i > at => i >= at + 1
    BY <1>1
  <2>. HIDE DEF on, at
  <2>. QED  BY <2>1, <2>2, <2>3 DEF Queued, Holds, at
<1>. QED  BY <1>2, <1>3

LEMMA KeptStep == ClientTypeOK /\ Kept /\ [Next]_vars => Kept'
<1>. DEFINE Goal(w) ==
       Queued(w)' /\ \A f \in Flushers : flush'[f] # Idle => w \in exposed'[f] \/ Holds(f, w)'
<1>. SUFFICES ASSUME ClientTypeOK, Kept, [Next]_vars,
                     NEW w \in Writes, w \notin overwritten', fate'[w] = "queued"
              PROVE  Goal(w)
  BY DEF Kept
<1>1. CASE \/ Serve \/ UNCHANGED vars \/ Reload \/ Refresh
           \/ \E v \in Writes, c \in Calls : Send(v, c) \/ Resend(v, c)
           \/ \E v \in Writes : Answered(v)
  <2>1. w \notin overwritten /\ fate[w] = "queued" /\ queue' = queue
    BY <1>1 DEF Serve, client, history, vars, Reload, Refresh, Send, Resend, Answered, ClientTypeOK
  <2>2. (flush' = flush /\ exposed' = exposed) \/ \A f \in Flushers : flush'[f] = Idle
    BY <1>1 DEF Serve, client, history, vars, Reload, Refresh, Send, Resend, Answered
  <2>. QED  BY <2>1, <2>2 DEF Kept, Queued, Holds
<1>2. ASSUME NEW v \in Writes, Enqueue(v) PROVE Goal(w)
  <2>1. w \notin overwritten /\ flush' = flush /\ queue' = Append(queue, v)
    BY <1>2 DEF Enqueue
  <2>2. queue \in Seq(Writes)
    BY DEF ClientTypeOK
  <2>3. w = v \/ (fate[w] = "queued" /\ Queued(w))
    BY <1>2, <2>1 DEF Enqueue, ClientTypeOK, Kept
  <2>4. Queued(w)'
    BY <2>1, <2>2, <2>3, AppendHolds DEF Queued
  <2>5. ASSUME NEW f \in Flushers, flush'[f] # Idle PROVE w \in exposed'[f] \/ Holds(f, w)'
    <3>1. exposed'[f] = exposed[f] \cup {v}
      BY <1>2, <2>1, <2>5 DEF Enqueue
    <3>. QED  BY <2>1, <2>3, <2>5, <3>1 DEF Kept, Holds
  <2>. QED  BY <2>4, <2>5
<1>3. ASSUME NEW g \in Flushers, Flush(g) PROVE Goal(w)
  <2>1. w \notin overwritten /\ fate[w] = "queued" /\ queue' = queue /\ exposed' = exposed
    BY <1>3 DEF Flush, history
  <2>2. Queued(w)
    BY <2>1 DEF Kept
  <2>. DEFINE start == [Idle EXCEPT !.items = queue]
  <2>3. start.items = queue /\ start.at = 1
    BY DEF Idle
  <2>4. flush' = [flush EXCEPT ![g] = start] /\ flush \in [Flushers -> Doing]
        /\ queue \in Seq(Writes)
    BY <1>3 DEF Flush, ClientTypeOK
  <2>. HIDE DEF start
  <2>5. Holds(g, w)'
    BY <2>2, <2>3, <2>4 DEF Holds, Queued
  <2>6. ASSUME NEW f \in Flushers, f # g, flush'[f] # Idle PROVE w \in exposed'[f] \/ Holds(f, w)'
    BY <2>1, <2>4, <2>6 DEF Holds, Kept
  <2>. QED  BY <2>1, <2>2, <2>5, <2>6 DEF Queued
<1>4. ASSUME NEW g \in Flushers, NEW c \in Calls, Replay(g, c) PROVE Goal(w)
  <2>. DEFINE ask == [flush[g] EXCEPT !.asks = c]
  <2>1. w \notin overwritten /\ fate[w] = "queued" /\ queue' = queue /\ exposed' = exposed
    BY <1>4 DEF Replay, history
  <2>2. flush[g] # Idle /\ flush[g] \in Doing /\ flush \in [Flushers -> Doing]
    BY <1>4 DEF Replay, ClientTypeOK
  <2>3. ask.rest = flush[g].rest /\ ask.items = flush[g].items /\ ask.at = flush[g].at
    BY <2>2 DEF Doing
  <2>4. flush' = [flush EXCEPT ![g] = ask]
    BY <1>4 DEF Replay
  <2>. HIDE DEF ask
  <2>5. ASSUME NEW f \in Flushers, flush'[f] # Idle PROVE w \in exposed'[f] \/ Holds(f, w)'
    <3>1. flush[f] # Idle /\ flush'[f].rest = flush[f].rest /\ flush'[f].items = flush[f].items
          /\ flush'[f].at = flush[f].at
      BY <2>2, <2>3, <2>4, <2>5
    <3>2. w \in exposed[f] \/ Holds(f, w)
      BY <2>1, <3>1 DEF Kept
    <3>. QED  BY <2>1, <3>1, <3>2 DEF Holds
  <2>. QED  BY <2>1, <2>5 DEF Kept, Queued
<1>5. ASSUME NEW g \in Flushers, Replayed(g) \/ Unanswered(g) PROVE Goal(w)
  <2>1. flush[g] # Idle /\ flush[g].rest \in Seq(Writes) /\ Item(g) \in Writes
        /\ flush[g].at \in DOMAIN flush[g].items /\ flush[g].items \in Seq(Writes)
    BY <1>5, ItemIsWrite, AskingIsActive DEF Replayed, Unanswered, ClientTypeOK, Doing, AtItem
  <2>. DEFINE kept == Append(flush[g].rest, Item(g))
  <2>2. PICK rest \in {flush[g].rest, kept} :
          Advance(g, rest) /\ fate[w] = "queued" /\ (Item(g) = w => rest = kept)
    <3>1. CASE Unanswered(g)
      BY <3>1 DEF Unanswered
    <3>2. CASE Replayed(g)
      <4>1. PICK status \in Status(flush[g].asks) :
              LET told == Outcome(Item(g), status)
              IN  /\ fate' = [fate EXCEPT ![Item(g)] = IF told = "queued" THEN @ ELSE told]
                  /\ Advance(g, IF told = "queued" THEN kept ELSE flush[g].rest)
        BY <3>2 DEF Replayed
      <4>2. Item(g) = w => Outcome(Item(g), status) = "queued"
        BY <2>1, <4>1 DEF ClientTypeOK
      <4>3. fate[w] = "queued"
        BY <2>1, <4>1, <4>2 DEF ClientTypeOK
      <4>. HIDE DEF kept
      <4>. QED  BY <4>1, <4>2, <4>3
    <3>. QED  BY <1>5, <3>1, <3>2
  <2>3. w \notin overwritten
    BY <2>2 DEF Advance
  <2>4. Queued(w) /\ \A f \in Flushers : flush[f] # Idle => w \in exposed[f] \/ Holds(f, w)
    BY <2>2, <2>3 DEF Kept
  <2>5. kept \in Seq(Writes) /\ \E i \in DOMAIN kept : kept[i] = Item(g)
    <3>1. kept \in Seq(Writes)
      BY <2>1
    <3>. QED  BY <2>1, <3>1, AppendHolds
  <2>6. \A i \in DOMAIN flush[g].rest : i \in DOMAIN kept /\ kept[i] = flush[g].rest[i]
    BY <2>1, AppendHolds
  <2>. HIDE DEF kept
  <2>7. \/ w \in exposed[g]
        \/ \E i \in DOMAIN rest : rest[i] = w
        \/ \E i \in DOMAIN flush[g].items : i > flush[g].at /\ flush[g].items[i] = w
    <3>1. CASE Item(g) = w
      BY <2>2, <2>5, <3>1
    <3>2. CASE Item(g) # w
      <4>1. CASE \E i \in DOMAIN flush[g].rest : flush[g].rest[i] = w
        BY <2>2, <2>6, <4>1
      <4>2. CASE \E i \in DOMAIN flush[g].items : i >= flush[g].at /\ flush[g].items[i] = w
        BY <2>1, <3>2, <4>2 DEF Item
      <4>. QED  BY <2>1, <2>4, <4>1, <4>2 DEF Holds
    <3>. QED  BY <3>1, <3>2
  <2>8. rest \in Seq(Writes)
    BY <2>1, <2>2, <2>5
  <2>9. Queued(w)' /\ (flush'[g] # Idle => w \in exposed'[g] \/ Holds(g, w)')
    BY <2>1, <2>2, <2>4, <2>7, <2>8, AdvanceKeeps
  <2>10. ASSUME NEW f \in Flushers, f # g, flush'[f] # Idle PROVE w \in exposed'[f] \/ Holds(f, w)'
    <3>1. flush'[f] = flush[f] /\ exposed'[f] = exposed[f]
      BY <2>2, <2>10 DEF Advance, ClientTypeOK
    <3>. QED  BY <2>4, <2>10, <3>1 DEF Holds
  <2>. QED  BY <2>9, <2>10
<1>. QED  BY <1>1, <1>2, <1>3, <1>4, <1>5 DEF Next

\* However many flushes overlap and wherever they stop, what is queued stays queued
\* (offline.ts:217-285), but for what was queued during a flush that has stored since.
THEOREM QueuedStaysQueued == Spec => []NothingVanishes
<1>1. Init => Kept
  BY DEF Init, Kept
<1>2. Kept => NothingVanishes
  BY DEF Kept, NothingVanishes, Queued
<1>. QED  BY <1>1, <1>2, KeptStep, ClientTypesInit, ClientTypesStep, PTL DEF Spec

-----------------------------------------------------------------------------
(* Replays.                                                                *)

\* a request with this key was taken up, and it shows
Shows(k) ==
    \/ landed[k] # {}
    \/ row[k].st = "processing"
    \/ \E c \in sent : key[c] = k /\ pc[c] = "error"

\* whoever got past its claim, or was turned away by one, leaves a trace
TakenUp ==
    /\ \A k \in Keys : ~keeps[k]
    /\ \A k \in Keys : row[k].st # "failed"
    /\ \A k \in Keys : row[k].st = "done" => landed[k] # {}
    /\ \A c \in Calls : pc[c] = "record" => landed[key[c]] # {}
    /\ \A c \in Calls : pc[c] # "new" => Shows(key[c])

LEMMA TakenUpInit == Init => TakenUp
<1>. SUFFICES ASSUME Init PROVE TakenUp
  OBVIOUS
<1>1. \A k \in Keys : ~keeps[k]
  BY DEF Init, Server!Init
<1>2. \A k \in Keys : row[k].st = "absent"
  BY DEF Init, Server!Init, Server!NoRow
<1>3. \A c \in Calls : pc[c] = "new"
  BY DEF Init, Server!Init
<1>. QED  BY <1>1, <1>2, <1>3 DEF TakenUp

LEMMA TakenUpServe ==
    ASSUME Keyed!TypeOK, Belongs, TakenUp, NEW c \in sent, UNCHANGED sent,
           Server!Step(c) \/ Server!RecordErrs(c) \/ Server!Crash(c)
    PROVE  TakenUp' /\ key' = key /\ \A k \in Keys : Shows(k) => Shows(k)'
<1>. DEFINE k0 == key[c]
<1>1. /\ c \in Calls /\ k0 \in Keys /\ key \in [Calls -> Keys]
      /\ row \in [Keys -> Keyed!Row] /\ landed \in [Keys -> SUBSET Calls]
      /\ DOMAIN pc = Calls
  BY DEF Keyed!TypeOK, Belongs
<1>2. ~Server!Stale(k0)
  BY <1>1 DEF Belongs, Server!Stale
<1>3. ASSUME \A k \in Keys : Shows(k) => Shows(k)', UNCHANGED <<key, keeps>>,
             \A k \in Keys \ {k0} : row'[k] = row[k],
             \A k \in Keys : landed[k] \subseteq landed'[k],
             \A d \in Calls \ {c} : pc'[d] = pc[d],
             row'[k0].st # "failed", row'[k0].st = "done" => landed'[k0] # {},
             pc'[c] = "record" => landed'[k0] # {}, Shows(k0)'
      PROVE  TakenUp' /\ key' = key /\ \A k \in Keys : Shows(k) => Shows(k)'
  <2>1. \A k \in Keys : row'[k].st # "failed" /\ (row'[k].st = "done" => landed'[k] # {})
    BY <1>1, <1>3 DEF TakenUp
  <2>2. \A d \in Calls : (pc'[d] = "record" => landed'[key[d]] # {})
    BY <1>1, <1>3 DEF TakenUp
  <2>3. \A d \in Calls : pc'[d] # "new" => Shows(key[d])'
    BY <1>1, <1>3 DEF TakenUp
  <2>. QED  BY <1>3, <2>1, <2>2, <2>3 DEF TakenUp
<1>. DEFINE Claimed == [Server!NoRow EXCEPT !.st = "processing"]
<1>4. Claimed.st = "processing" /\ Server!NoRow.st = "absent"
  BY DEF Server!NoRow
<1>. HIDE DEF Claimed
<1>5. ASSUME \E of : row' = [row EXCEPT ![k0] = of], UNCHANGED <<key, keeps>>,
             pc[c] # "error", \E to : pc' = [pc EXCEPT ![c] = to]
      PROVE  /\ \A k \in Keys \ {k0} : row'[k] = row[k]
             /\ \A d \in Calls \ {c} : pc'[d] = pc[d]
             /\ \A d \in sent : pc[d] = "error" => pc'[d] = "error"
  BY <1>1, <1>5
<1>6. CASE Server!Claim(c)
  <2>1. /\ UNCHANGED <<key, keeps, landed>> /\ pc[c] = "new"
        /\ \/ row[k0].st = "absent" /\ row' = [row EXCEPT ![k0] = Claimed]
              /\ pc' = [pc EXCEPT ![c] = "run"]
           \/ row[k0].st # "absent" /\ row' = row /\ pc' = [pc EXCEPT ![c] = "look"]
    BY <1>2, <1>6 DEF Server!Claim, Server!Goto, Claimed
  <2>2. CASE row[k0].st = "absent"
    <3>1. row'[k0].st = "processing" /\ row' = [row EXCEPT ![k0] = Claimed]
          /\ pc' = [pc EXCEPT ![c] = "run"]
      BY <1>1, <1>4, <2>1, <2>2
    <3>2. Shows(k0)'
      BY <2>1, <3>1 DEF Shows
    <3>3. \A k \in Keys : Shows(k) => Shows(k)'
      BY <1>1, <2>1, <3>1, <3>2 DEF Shows
    <3>. QED  BY <1>1, <1>3, <2>1, <3>1, <3>2, <3>3
  <2>3. CASE row[k0].st # "absent"
    <3>1. row' = row /\ pc' = [pc EXCEPT ![c] = "look"]
      BY <2>1, <2>3
    <3>2. Shows(k0)
      BY <1>1, <2>3 DEF TakenUp, Shows, Keyed!Row
    <3>3. \A k \in Keys : Shows(k) => Shows(k)'
      BY <1>1, <2>1, <3>1 DEF Shows
    <3>. QED  BY <1>1, <1>3, <2>1, <3>1, <3>2, <3>3 DEF TakenUp
  <2>. QED  BY <2>2, <2>3
<1>7. CASE Server!Look(c) \/ Server!Crash(c) \/ Server!RecordErrs(c) \/ Server!Take(c)
  <2>1. pc[c] \notin {"new", "error"} /\ UNCHANGED <<row, key, keeps, landed>>
    BY <1>1, <1>7 DEF Server!Look, Server!Crash, Server!RecordErrs, Server!Take, Server!Goto, TakenUp
  <2>2. PICK to : pc' = [pc EXCEPT ![c] = to] /\ to # "record"
    <3>1. CASE Server!Look(c)
      BY <3>1 DEF Server!Look, Server!Goto
    <3>2. CASE Server!Crash(c) \/ Server!RecordErrs(c)
      BY <3>2 DEF Server!Crash, Server!RecordErrs, Server!Goto
    <3>3. CASE Server!Take(c)
      BY <3>3 DEF Server!Take, Server!Goto
    <3>. QED  BY <1>7, <3>1, <3>2, <3>3
  <2>3. Shows(k0)
    BY <1>1, <2>1 DEF TakenUp
  <2>4. \A k \in Keys : Shows(k) => Shows(k)'
    BY <1>1, <2>1, <2>2 DEF Shows
  <2>. QED  BY <1>1, <1>3, <2>1, <2>2, <2>3, <2>4 DEF TakenUp
<1>8. CASE Server!Perform(c)
  <2>1. pc[c] = "run" /\ UNCHANGED <<row, key, keeps>>
        /\ \/ pc' = [pc EXCEPT ![c] = "record"] /\ landed' = [landed EXCEPT ![k0] = @ \cup {c}]
           \/ pc' = [pc EXCEPT ![c] = "undo"] /\ landed' = landed
    BY <1>8 DEF Server!Perform, Server!Goto
  <2>2. \A k \in Keys : landed[k] \subseteq landed'[k]
    BY <1>1, <2>1
  <2>3. pc'[c] = "record" => landed'[k0] # {}
    BY <1>1, <2>1
  <2>4. \A d \in Calls \ {c} : pc'[d] = pc[d]
    BY <1>1, <2>1
  <2>5. \A k \in Keys : Shows(k) => Shows(k)'
    BY <1>1, <2>1, <2>2, <2>4 DEF Shows, Belongs
  <2>6. Shows(k0)
    BY <1>1, <2>1 DEF TakenUp
  <2>. QED  BY <1>1, <1>3, <2>1, <2>2, <2>3, <2>4, <2>5, <2>6 DEF TakenUp
<1>9. CASE Server!Record(c)
  <2>1. PICK of : Server!Set(k0, [row[k0] EXCEPT !.st = "done", !.of = of, !.updated = 0])
    BY <1>9 DEF Server!Record
  <2>2. pc[c] = "record" /\ UNCHANGED <<key, keeps, landed>> /\ pc' = [pc EXCEPT ![c] = "value"]
    BY <1>9 DEF Server!Record, Server!Goto
  <2>. DEFINE new == [row[k0] EXCEPT !.st = "done", !.of = of, !.updated = 0]
  <2>3. new.st = "done"
    BY <1>1 DEF Keyed!Row
  <2>4. row' = row \/ row' = [row EXCEPT ![k0] = new]
    BY <2>1 DEF Server!Set
  <2>. HIDE DEF new
  <2>5. landed[k0] # {}
    BY <1>1, <2>2 DEF TakenUp
  <2>6. \A k \in Keys : Shows(k) => Shows(k)'
    BY <1>1, <2>2, <2>4, <2>5 DEF Shows
  <2>7. row'[k0].st # "failed" /\ \A k \in Keys \ {k0} : row'[k] = row[k]
    BY <1>1, <2>3, <2>4 DEF TakenUp
  <2>. QED  BY <1>1, <1>3, <2>2, <2>5, <2>6, <2>7 DEF Shows
<1>10. CASE Server!Undo(c)
  <2>1. pc[c] = "undo" /\ UNCHANGED <<key, keeps, landed>> /\ pc' = [pc EXCEPT ![c] = "error"]
    BY <1>10 DEF Server!Undo, Server!Goto
  <2>2. row' = row \/ row' = [row EXCEPT ![k0] = Server!NoRow]
    BY <1>1, <1>10 DEF Server!Undo, Server!Set, TakenUp
  <2>3. Shows(k0)'
    BY <1>1, <2>1 DEF Shows
  <2>4. \A k \in Keys : Shows(k) => Shows(k)'
    BY <1>1, <2>1, <2>2, <2>3 DEF Shows
  <2>5. row'[k0].st # "failed" /\ (row'[k0].st = "done" => landed'[k0] # {})
        /\ \A k \in Keys \ {k0} : row'[k] = row[k]
    BY <1>1, <1>4, <2>1, <2>2 DEF TakenUp
  <2>. QED  BY <1>1, <1>3, <2>1, <2>3, <2>4, <2>5
<1>. QED  BY <1>6, <1>7, <1>8, <1>9, <1>10 DEF Server!Step

\* what a flush waits for is its item's request; what it reported shows
Told ==
    /\ \A f \in Flushers : flush[f].asks # None => key[flush[f].asks] \in KeysOf(Item(f))
    /\ \A w \in Writes : fate[w] = "replayed" => \E k \in KeysOf(w) : Shows(k)

ReplayInv == TakenUp /\ Told

LEMMA ReplayInit == Init => ReplayInv
  BY TakenUpInit DEF Init, ReplayInv, Told, Idle

LEMMA ClientShows ==
    ASSUME Keyed!TypeOK, TakenUp, UNCHANGED server, sent \subseteq sent'
    PROVE  TakenUp' /\ key' = key /\ \A k \in Keys : Shows(k) => Shows(k)'
<1>1. \A k : Shows(k) => Shows(k)'
  BY DEF server, Shows
<1>2. \A c \in Calls : key[c] \in Keys
  BY DEF Keyed!TypeOK
<1>. QED  BY <1>1, <1>2 DEF server, TakenUp

\* A status counts as replayed only if the answer shows that the key was taken up.
LEMMA AnswersShow ==
    ASSUME TakenUp, NEW c \in Calls, Status(c) # {}
    PROVE  Shows(key[c])
  BY DEF TakenUp, Status

LEMMA ReplayStep ==
    Keyed!TypeOK /\ Belongs /\ ClientTypeOK /\ ReplayInv /\ [Next]_vars => ReplayInv'
<1>. SUFFICES ASSUME Keyed!TypeOK, Belongs, ClientTypeOK, ReplayInv, [Next]_vars
              PROVE  ReplayInv'
  OBVIOUS
<1>1. TakenUp' /\ key' = key /\ \A k \in Keys : Shows(k) => Shows(k)'
  <2>1. CASE Serve
    <3>1. PICK c \in sent : Server!Step(c) \/ Server!RecordErrs(c) \/ Server!Crash(c)
      BY <2>1 DEF Serve
    <3>2. UNCHANGED sent
      BY <2>1 DEF Serve, client
    <3>. QED  BY <3>1, <3>2, TakenUpServe DEF ReplayInv
  <2>2. CASE UNCHANGED server
    <3>1. sent \subseteq sent'
      BY DEF Next, vars, client, Serve, Send, Resend, Request, Answered, Enqueue, Refresh,
             Flush, Replay, Replayed, Unanswered, Reload
    <3>. QED  BY <2>2, <3>1, ClientShows DEF ReplayInv
  <2>. QED  BY <2>1, <2>2, ClientLeavesServer DEF vars
<1>2. \A w \in Writes : KeysOf(w) \subseteq Keys
  BY DEF KeysOf, Keys
<1>3. ASSUME UNCHANGED flush,
             \A w \in Writes : fate'[w] = "replayed" => fate[w] = "replayed"
      PROVE  Told'
  <2>1. \A f : Item(f)' = Item(f)
    BY <1>3 DEF Item
  <2>2. \A w : KeysOf(w)' = KeysOf(w)
    BY DEF KeysOf
  <2>3. \A f \in Flushers : flush'[f].asks # None => key'[flush'[f].asks] \in KeysOf(Item(f)')
    BY <1>1, <1>3, <2>1 DEF ReplayInv, Told
  <2>4. \A w \in Writes : fate'[w] = "replayed" => \E k \in KeysOf(w) : Shows(k)'
    BY <1>1, <1>2, <1>3 DEF ReplayInv, Told
  <2>. QED  BY <2>3, <2>4 DEF Told, KeysOf
<1>4. CASE Serve \/ UNCHANGED vars
  BY <1>1, <1>3, <1>4 DEF Serve, client, vars, ReplayInv
<1>5. ASSUME NEW w \in Writes, NEW c \in Calls, Send(w, c) \/ Resend(w, c) PROVE Told'
  BY <1>3, <1>5 DEF Send, Resend, ClientTypeOK
<1>6. ASSUME NEW w \in Writes, Answered(w) \/ Enqueue(w) PROVE Told'
  BY <1>3, <1>6 DEF Answered, Enqueue, ClientTypeOK
<1>7. CASE Refresh
  BY <1>1, <1>3, <1>7 DEF Refresh, ReplayInv
<1>8. ASSUME \A f \in Flushers : \/ flush'[f].asks = None \/ flush'[f] = flush[f]
                                 \/ key[flush'[f].asks] \in KeysOf(Item(f)'),
             \A w \in Writes : fate'[w] = "replayed" =>
                fate[w] = "replayed" \/ \E k \in KeysOf(w) : Shows(k)
      PROVE  Told'
  <2>1. \A f : flush'[f] = flush[f] => Item(f)' = Item(f)
    BY DEF Item
  <2>2. \A f \in Flushers : flush'[f].asks # None => key'[flush'[f].asks] \in KeysOf(Item(f)')
    BY <1>1, <1>8, <2>1 DEF ReplayInv, Told
  <2>3. \A w \in Writes : fate'[w] = "replayed" => \E k \in KeysOf(w) : Shows(k)'
    BY <1>1, <1>2, <1>8 DEF ReplayInv, Told
  <2>. QED  BY <2>2, <2>3 DEF Told, KeysOf
<1>9. CASE Reload \/ \E f \in Flushers : Flush(f)
  <2>1. \A f \in Flushers : flush'[f].asks = None \/ flush'[f] = flush[f]
    BY <1>9 DEF Reload, Flush, Idle, ClientTypeOK
  <2>2. fate' = fate
    BY <1>9 DEF Reload, Flush
  <2>3. Told'
    BY <1>8, <2>1, <2>2
  <2>. QED  BY <1>1, <2>3 DEF ReplayInv
<1>10. ASSUME NEW f \in Flushers, NEW c \in Calls, Replay(f, c) PROVE Told'
  <2>1. key[c] = <<Item(f), token>> /\ flush' = [flush EXCEPT ![f].asks = c] /\ fate' = fate
    BY <1>10 DEF Replay, Request
  <2>2. flush[f] \in Doing
    BY DEF ClientTypeOK
  <2>3. flush'[f].items = flush[f].items /\ flush'[f].at = flush[f].at /\ flush'[f].asks = c
    BY <2>1, <2>2 DEF ClientTypeOK, Doing
  <2>4. Item(f)' = Item(f)
    BY <2>3 DEF Item
  <2>5. key[c] \in KeysOf(Item(f)')
    BY <2>1, <2>4 DEF KeysOf, ClientTypeOK
  <2>6. \A g \in Flushers : g # f => flush'[g] = flush[g]
    BY <2>1 DEF ClientTypeOK
  <2>. QED  BY <1>8, <2>1, <2>3, <2>5, <2>6
<1>11. ASSUME NEW f \in Flushers, Replayed(f) \/ Unanswered(f) PROVE Told'
  <2>1. Item(f) \in Writes /\ flush[f].asks \in Calls \cup {None}
    BY <1>11, ItemIsWrite, AskingIsActive DEF Replayed, Unanswered, ClientTypeOK, Doing
  <2>2. \A g \in Flushers : flush'[g].asks = None \/ flush'[g] = flush[g]
    <3>1. PICK rest : Advance(f, rest)
      BY <1>11 DEF Replayed, Unanswered
    <3>. QED  BY <3>1 DEF Advance, Idle, ClientTypeOK
  <2>3. ASSUME NEW w \in Writes, fate'[w] = "replayed", fate[w] # "replayed"
        PROVE  \E k \in KeysOf(w) : Shows(k)
    <3>1. Replayed(f)
      BY <1>11, <2>3 DEF Unanswered
    <3>2. w = Item(f) /\ flush[f].asks # None /\ Status(flush[f].asks) # {}
      BY <2>1, <2>3, <3>1 DEF Replayed, ClientTypeOK
    <3>. QED  BY <2>1, <3>2, AnswersShow DEF ReplayInv, Told
  <2>. QED  BY <1>8, <2>2, <2>3
<1>. QED  BY <1>1, <1>4, <1>5, <1>6, <1>7, <1>9, <1>10, <1>11 DEF Next, ReplayInv

\* A flush reports no write that no request of it took up: it has landed, its key is
\* still held, or the handler answered one of its requests with an error
\* (offline.ts:254-266, service.ts:65-98).
THEOREM ReplaysAreAccounted == Spec => []ReplayedIsAccounted
<1>1. ReplayInv => ReplayedIsAccounted
  BY DEF ReplayInv, Told, Shows, ReplayedIsAccounted, HasLanded
<1>2. Keyed!Spec => []Keyed!TypeOK
  BY Assumed, Keyed!TypeCorrect
<1>. QED  BY <1>1, <1>2, ReplayInit, ReplayStep, BelongsInit, BelongsStep, ClientTypesInit,
             ClientTypesStep, ServerImplementsIdempotency, PTL DEF Spec

=============================================================================
