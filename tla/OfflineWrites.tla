---------------------------- MODULE OfflineWrites ----------------------------
(***************************************************************************)
(* A client of packages/sdk and its offline queue in front of the keyed    *)
(* entity API: writes sent once, queued when no answer came, and replayed  *)
(* by flush with the Idempotency-Key they were given.  Each request is a   *)
(* call of module Idempotency under the key <<write, token>>: the          *)
(* middleware scopes the client's key by the bearer token.  A request the  *)
(* client gave up may still reach the server, at any later time.           *)
(* Bound: all of it happens within the lease of the keys and before they   *)
(* are pruned, a day by default; module Idempotency has what comes after.  *)
(***************************************************************************)
EXTENDS Naturals, Sequences

CONSTANTS
    Writes,
    Guarded,       \* the writes that carry If-Match
    LastToken,     \* bound: bearer tokens are numbered as the account gets them
    Flushers,      \* calls of flush that may overlap
    Calls,         \* bound: the requests that are ever sent
    Refusals,      \* the statuses a handler fails with; 429 is 408 too, 503 is 502 too
    None

ASSUME OfflineAssumption ==
    /\ Guarded \subseteq Writes
    /\ None \notin Calls
    /\ LastToken \in Nat \ {0}
    /\ Refusals \subseteq {"409", "4xx", "429", "500", "503"}

VARIABLES
    row, pc, key, keeps, got, landed, late, amiss,   \* the server, as in Idempotency
    sent,    \* the requests sent so far
    token,   \* the client's current token
    fate,    \* what its app was told of each write
    asked,   \* the request a write that was just made is waiting for
    queue,   \* the stored queue
    flush,   \* what each flush is doing
    exposed, \* the writes queued while each flush was under way
    overwritten  \* those of them that a flush stored over when it ended

server == <<row, pc, key, keeps, got, landed, late, amiss>>
history == <<exposed, overwritten>>
client == <<sent, token, fate, asked, queue, flush, history>>
vars == <<server, client>>

Tokens == 1..LastToken
Keys == Writes \X Tokens

\* the middleware records no failures, and what it runs always returns a response
Server == INSTANCE Idempotency WITH
    Modes <- {FALSE}, Void <- {}, Ttl <- 1, Keep <- 1

Fates == {"new", "sent", "answered", "queued", "replayed", "dropped"}

\* items is the snapshot of the queue, rest what stays of it, at the next one
Idle == [items |-> <<>>, rest |-> <<>>, at |-> 1, asks |-> None]

TypeOK ==
    /\ Server!TypeOK
    /\ sent \subseteq Calls
    /\ token \in Tokens
    /\ fate \in [Writes -> Fates]
    /\ asked \in [Writes -> Calls \cup {None}]
    /\ queue \in Seq(Writes)
    /\ flush \in [Flushers -> [items : Seq(Writes), rest : Seq(Writes), at : Nat,
                               asks : Calls \cup {None}]]
    /\ \A f \in Flushers : flush[f] # Idle => flush[f].at \in DOMAIN flush[f].items
    /\ exposed \in [Flushers -> SUBSET Writes]
    /\ overwritten \subseteq Writes

Init ==
    /\ Server!Init
    /\ sent = {}
    /\ token = 1
    /\ fate = [w \in Writes |-> "new"]
    /\ asked = [w \in Writes |-> None]
    /\ queue = <<>>
    /\ flush = [f \in Flushers |-> Idle]
    /\ exposed = [f \in Flushers |-> {}]
    /\ overwritten = {}

-----------------------------------------------------------------------------
(* The server works on the requests that reach it.                         *)

Serve ==
    /\ \E c \in sent : Server!Step(c) \/ Server!RecordErrs(c) \/ Server!Crash(c)
    /\ UNCHANGED client

\* The status of an answer: a cached or fresh 2xx, 409 while another request has the
\* key, what the handler failed with, or 500 when its success was not recorded.
Status(c) ==
    CASE pc[c] = "value"    -> {"2xx"}
      [] pc[c] = "conflict" -> {"409"}
      [] pc[c] = "error"    -> IF c \in landed[key[c]] THEN {"500"} ELSE Refusals
      [] OTHER              -> {}

-----------------------------------------------------------------------------
(* The client.                                                             *)

\* a request for w under the current token
Request(w, c) ==
    /\ c \notin sent
    /\ key[c] = <<w, token>>
    /\ sent' = sent \cup {c}

\* requestMeta: a write is made; or made again, after a transient failure or, with a
\* fresh token, after a 401
Send(w, c) ==
    /\ fate[w] = "new"
    /\ Request(w, c)
    /\ fate' = [fate EXCEPT ![w] = "sent"]
    /\ asked' = [asked EXCEPT ![w] = c]
    /\ UNCHANGED <<server, token, queue, flush, history>>

Resend(w, c) ==
    /\ fate[w] = "sent"
    /\ \/ Status(asked[w]) \cap {"429", "503"} # {}
       \/ "4xx" \in Status(asked[w]) /\ key[asked[w]] # <<w, token>>
    /\ Request(w, c)
    /\ asked' = [asked EXCEPT ![w] = c]
    /\ UNCHANGED <<server, token, fate, queue, flush, history>>

\* the answer is handed to the app
Answered(w) ==
    /\ fate[w] = "sent" /\ Status(asked[w]) # {}
    /\ fate' = [fate EXCEPT ![w] = "answered"]
    /\ asked' = [asked EXCEPT ![w] = None]
    /\ UNCHANGED <<server, sent, token, queue, flush, history>>

\* no answer, or no connection to begin with: fetch rejects, and the write is queued
Enqueue(w) ==
    /\ fate[w] \in {"new", "sent"}
    /\ fate' = [fate EXCEPT ![w] = "queued"]
    /\ asked' = [asked EXCEPT ![w] = None]
    /\ queue' = Append(queue, w)
    /\ exposed' = [f \in Flushers |-> IF flush[f] = Idle THEN {} ELSE exposed[f] \cup {w}]
    /\ UNCHANGED <<server, sent, token, flush, overwritten>>

\* the client logs in again: a fresh token, of the same account
Refresh ==
    /\ token < LastToken
    /\ token' = token + 1
    /\ UNCHANGED <<server, sent, fate, asked, queue, flush, history>>

Flush(f) ==
    /\ flush[f] = Idle /\ queue # <<>>
    /\ flush' = [flush EXCEPT ![f] = [Idle EXCEPT !.items = queue]]
    /\ UNCHANGED <<server, sent, token, fate, asked, queue, history>>

Item(f) == flush[f].items[flush[f].at]

Replay(f, c) ==
    /\ flush[f] # Idle /\ flush[f].asks = None
    /\ Request(Item(f), c)
    /\ flush' = [flush EXCEPT ![f].asks = c]
    /\ UNCHANGED <<server, token, fate, asked, queue, history>>

\* On to the next item.  After the last one what remains is stored, if anything was
\* replayed or dropped; nothing else runs in between.
Advance(f, rest) ==
    LET items == flush[f].items
        last == flush[f].at = Len(items)
    IN /\ flush' = [flush EXCEPT ![f] = IF last THEN Idle
                      ELSE [items |-> items, rest |-> rest,
                            at |-> flush[f].at + 1, asks |-> None]]
       /\ queue' = IF last /\ Len(rest) # Len(items) THEN rest ELSE queue
       /\ exposed' = IF last THEN [exposed EXCEPT ![f] = {}] ELSE exposed
       /\ overwritten' = IF last /\ Len(rest) # Len(items) THEN overwritten \cup exposed[f]
                         ELSE overwritten

\* 2xx and 409 count as replayed, unless the write carried If-Match; any other status
\* under 500 is permanent
Outcome(w, status) ==
    CASE status = "2xx" -> "replayed"
      [] status = "409" -> IF w \in Guarded THEN "dropped" ELSE "replayed"
      [] status \in {"4xx", "429"} -> "dropped"
      [] status \in {"500", "503"} -> "queued"

Replayed(f) ==
    LET w == Item(f) IN
      /\ flush[f].asks # None
      /\ \E status \in Status(flush[f].asks) :
           LET told == Outcome(w, status) IN
             /\ fate' = [fate EXCEPT ![w] = IF told = "queued" THEN @ ELSE told]
             /\ Advance(f, IF told = "queued" THEN Append(flush[f].rest, w) ELSE flush[f].rest)
      /\ UNCHANGED <<server, sent, token, asked>>

\* mutant: an item whose replay got no answer is not kept
UnansweredDropped(f) ==
    /\ flush[f].asks # None
    /\ Advance(f, flush[f].rest)
    /\ UNCHANGED <<server, sent, token, fate, asked>>

\* mutant: an item whose replay got no answer is taken for a conflict
UnansweredReplayed(f) ==
    /\ flush[f].asks # None
    /\ fate' = [fate EXCEPT ![Item(f)] = "replayed"]
    /\ Advance(f, flush[f].rest)
    /\ UNCHANGED <<server, sent, token, asked>>

\* fetch rejects; the item is kept and the next one tried
Unanswered(f) ==
    /\ flush[f].asks # None
    /\ Advance(f, Append(flush[f].rest, Item(f)))
    /\ UNCHANGED <<server, sent, token, fate, asked>>

\* the tab is closed: the stored queue survives
Reload ==
    /\ \E f \in Flushers : flush[f] # Idle
    /\ flush' = [f \in Flushers |-> Idle]
    /\ exposed' = [f \in Flushers |-> {}]
    /\ UNCHANGED <<server, sent, token, fate, asked, queue, overwritten>>

Next ==
    \/ Serve
    \/ \E w \in Writes, c \in Calls : Send(w, c) \/ Resend(w, c)
    \/ \E w \in Writes : Answered(w) \/ Enqueue(w)
    \/ Refresh
    \/ \E f \in Flushers : Flush(f) \/ Replayed(f) \/ Unanswered(f)
    \/ \E f \in Flushers, c \in Calls : Replay(f, c)
    \/ Reload

Spec == Init /\ [][Next]_vars

-----------------------------------------------------------------------------
(* Properties.                                                             *)

KeysOf(w) == {<<w, t>> : t \in Tokens}
HasLanded(w) == \E k \in KeysOf(w) : landed[k] # {}

\* "A blind retry or replay can never duplicate a server-side write" (sdk.md:239-241):
\* a write lands at most once through its first request, its retries, late arrivals
\* and overlapping flushes, as long as one token sent them all and each success
\* was recorded.
NeverAppliedTwice ==
    [][\A w \in Writes : \A c \in sent :
         /\ pc[c] = "run" /\ pc'[c] = "record"
         /\ key[c] \in KeysOf(w)
         /\ \A d \in sent : key[d] \in KeysOf(w) => key[d] = key[c]
         /\ ~amiss[key[c]]
         => ~HasLanded(w)]_vars

\* A queued write stays in the stored queue until the app has been told what became of
\* it (offline.ts:4-5, 270-277), although flushes overlap, each storing what it kept over
\* the queue the other left, and the tab may close in between.  The one exception is a
\* write queued while a flush was under way, once that flush has stored its own list.
NothingVanishes ==
    \A w \in Writes \ overwritten :
      fate[w] = "queued" => \E i \in DOMAIN queue : queue[i] = w

\* What the app is told was replayed ("2xx = applied now; 409 = the write already
\* landed", offline.ts:254-255) has landed, or one of its requests still holds the key,
\* running or dead, or was answered with the handler's error: a flush never reports a
\* write that no request of it took up.
ReplayedIsAccounted ==
    \A w \in Writes : fate[w] = "replayed" =>
      \/ HasLanded(w)
      \/ \E k \in KeysOf(w) : row[k].st = "processing"
      \/ \E c \in sent : key[c] \in KeysOf(w) /\ pc[c] = "error"

=============================================================================
