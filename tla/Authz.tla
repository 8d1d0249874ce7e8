-------------------------------- MODULE Authz --------------------------------
(***************************************************************************)
(* One permission of one role on one collection, as checkBusiness of       *)
(* PermissionEvaluator answers for it in one isolate.  An answer is cached *)
(* under the stamp of authz-version.ts, the newest updated_at of the       *)
(* users, roles and permissions, with the row it was derived from cached   *)
(* likewise; the stamp is itself cached for a moment.  The row is written  *)
(* by setPermission of AuthService and by the provisioner of               *)
(* telegram-role.service.ts, in this isolate or in another: isolates share *)
(* nothing but the database, so the caches of the others do not matter.    *)
(*                                                                         *)
(* Time is in ticks, and a check takes less than one.  Texts that name     *)
(* points in time are represented by the point.                            *)
(***************************************************************************)
EXTENDS Integers, FiniteSets

CONSTANTS
    Actions,        \* read, write, ...: all granted or none
    Checks,         \* calls of checkBusiness that may overlap
    Admins,         \* calls of setPermission that may overlap
    None,           \* no action
    Provisioners,   \* calls of ensureProvisionedTelegramRole that may overlap
    StampTtl,       \* VERSION_TTL_MS, in ticks
    Ttl,            \* BUSINESS_CACHE_TTL_MS, in ticks
    MaxTime,        \* bound: the clock
    MaxWrites       \* bound: calls that write

ASSUME AuthzAssumption ==
    /\ StampTtl \in Nat
    /\ Ttl \in Nat
    /\ MaxTime \in Nat
    /\ MaxWrites \in Nat

VARIABLES
    now,
    perm,       \* the row: a set of at most one [granted, updated]
    others,     \* the newest updated_at of all other rows
    stamp,      \* the cached stamp, a set of at most one [val, at]
    rows,       \* the cached rows, by stamp: sets of at most one [val, at]
    answers,    \* the cached answers, likewise, for each action
    check, admin, provisioner,  \* the calls
    answer,     \* history: the answer of this moment, and what it might have been
    heldAt,     \* history: when each truth was last the row's
    top,        \* history: the greatest stamp so far
    raisedAt,   \* history: when a write last raised it
    lowered,    \* history: the stamp was lowered since
    held,       \* history: the truths since then
    own,        \* history: the truths since this isolate's own last write
    writes

database == <<perm, others>>
caches == <<stamp, rows, answers>>
calls == <<check, admin, provisioner>>
history == <<heldAt, top, raisedAt, lowered, held, own>>
authzVars == <<now, database, caches, calls, answer, history, writes>>

Time == 0..MaxTime
Row == [granted : BOOLEAN, updated : Time]
Cached(S) == SUBSET [val : S, at : Time]

Waiting == [at |-> "idle", of |-> None, v |-> 0, val |-> FALSE, may |-> {}]
Resting == [at |-> "idle", time |-> 0, retried |-> FALSE]

CheckType == [at : {"idle", "stamp", "fill"}, of : Actions \cup {None}, v : Time,
              val : BOOLEAN, may : SUBSET BOOLEAN]
AdminType == [at : {"idle", "delete", "create", "commit", "again", "drop"},
              time : Time, retried : BOOLEAN]
AnswerType == [val : BOOLEAN, age : Time, may : SUBSET BOOLEAN, own : SUBSET BOOLEAN]

AuthzTypeOK ==
    /\ now \in Time
    /\ perm \in SUBSET Row
    /\ others \in Time
    /\ stamp \in Cached(Time)
    /\ rows \in [Time -> Cached(BOOLEAN)]
    /\ answers \in [Actions -> [Time -> Cached(BOOLEAN)]]
    /\ check \in [Checks -> CheckType]
    /\ admin \in [Admins -> AdminType]
    /\ provisioner \in [Provisioners -> {"idle", "insert", "heal", "drop"}]
    /\ answer \subseteq AnswerType
    /\ heldAt \in [BOOLEAN -> Time]
    /\ top \in Time
    /\ raisedAt \in Time
    /\ lowered \in BOOLEAN
    /\ held \subseteq BOOLEAN
    /\ own \subseteq BOOLEAN
    /\ writes \in 0..MaxWrites

\* No row, no permission.
Grants(P) == \E r \in P : r.granted

Nothing == [v \in Time |-> {}]

AuthzInit ==
    /\ now = 0
    /\ perm \in {{}} \cup {{r} : r \in [granted : BOOLEAN, updated : {0}]}
    /\ others = 0
    /\ stamp = {}
    /\ rows = Nothing
    /\ answers = [a \in Actions |-> Nothing]
    /\ check = [c \in Checks |-> Waiting]
    /\ admin = [a \in Admins |-> Resting]
    /\ provisioner = [p \in Provisioners |-> "idle"]
    /\ answer = {}
    /\ heldAt = [b \in BOOLEAN |-> 0]
    /\ top = 0
    /\ raisedAt = 0
    /\ lowered = FALSE
    /\ held = {Grants(perm)}
    /\ own = BOOLEAN
    /\ writes = 0

-----------------------------------------------------------------------------
(* The stamp, and what the history makes of a write.                       *)

\* MAX(updated_at) of the three tables.
Newest(P, o) == IF \E r \in P : r.updated > o THEN (CHOOSE r \in P : TRUE).updated ELSE o

Write(P, o) ==
    LET raises == Newest(P, o) > top
        lowers == Newest(P, o) < Newest(perm, others)
        truth == {Grants(P)}
    IN  /\ perm' = P
        /\ others' = o
        /\ heldAt' = [heldAt EXCEPT ![Grants(perm)] = now, ![Grants(P)] = now]
        /\ top' = IF raises THEN Newest(P, o) ELSE top
        /\ raisedAt' = IF raises THEN now ELSE raisedAt
        /\ lowered' = (~raises /\ (lowered \/ lowers))
        /\ held' = IF raises THEN truth ELSE held \cup truth
        /\ own' = own \cup truth
        /\ answer' = {}
        /\ check' = [c \in Checks |->
               IF check[c].at = "idle" THEN check[c]
               ELSE [check[c] EXCEPT !.may = IF lowers THEN BOOLEAN ELSE @ \cup truth]]

\* An entry is used until it is older than its TTL, and counts for nothing then.
Young(entries, ttl, time) == {e \in entries : time - e.at <= ttl}

Tick ==
    /\ now < MaxTime
    /\ \A c \in Checks : check[c].at = "idle"
    /\ now' = now + 1
    /\ stamp' = Young(stamp, StampTtl, now + 1)
    /\ rows' = [v \in Time |-> Young(rows[v], Ttl, now + 1)]
    /\ answers' = [a \in Actions |-> [v \in Time |-> Young(answers[a][v], Ttl, now + 1)]]
    /\ heldAt' = [heldAt EXCEPT ![Grants(perm)] = now + 1]
    /\ answer' = {}
    /\ UNCHANGED <<database, calls, top, raisedAt, lowered, held, own, writes>>

-----------------------------------------------------------------------------
(* checkBusiness.                                                          *)

Entry(b) == {[val |-> b, at |-> now]}

\* What a check that starts now may answer, as far as the stamp tells: after a
\* raise and the life of a cached stamp, only what was true since.
Expected == IF lowered \/ now <= raisedAt + StampTtl THEN BOOLEAN ELSE held

Answer(c, b, may) ==
    /\ answer' = {[val |-> b, age |-> now - heldAt[b], may |-> may, own |-> own]}
    /\ check' = [check EXCEPT ![c] = Waiting]

\* mutant: the stamp is left out of the key
KeyWithout(v) == 0

\* The key of an entry.
withAuthzVersion(v) == v

\* mutant: a row that is used again is stored again
RowStoredAgain(e) == Entry(e.val)

\* A row that is used again stays as old as it is.
RowUsed(e) == {e}

\* The rest of the check once it has its stamp: the cached answer, else the cached
\* row, else the row of the database.
Resolve(c, a, v, may) ==
    LET k == withAuthzVersion(v)
    IN  \/ /\ \E e \in answers[a][k] : Answer(c, e.val, may)
           /\ UNCHANGED <<rows, answers>>
        \/ /\ answers[a][k] = {}
           /\ \E e \in rows[k] :
                /\ answers' = [answers EXCEPT ![a][k] = Entry(e.val)]
                /\ rows' = [rows EXCEPT ![k] = RowUsed(e)]
                /\ Answer(c, e.val, may)
        \/ /\ answers[a][k] = {} /\ rows[k] = {}
           /\ check' = [check EXCEPT ![c] =
                  [at |-> "fill", of |-> a, v |-> v, val |-> Grants(perm), may |-> may]]
           /\ answer' = {}
           /\ UNCHANGED <<rows, answers>>

checkBusiness(c) ==
    /\ check[c].at = "idle"
    /\ \E a \in Actions :
         \/ \E s \in stamp : Resolve(c, a, s.val, Expected)
         \/ /\ stamp = {}
            /\ check' = [check EXCEPT ![c] =
                   [at |-> "stamp", of |-> a, v |-> Newest(perm, others), val |-> FALSE,
                    may |-> Expected]]
            /\ answer' = {}
            /\ UNCHANGED <<rows, answers>>
    /\ UNCHANGED <<now, database, stamp, admin, provisioner, history, writes>>

\* The stamp has come from the database.
authzVersion(c) ==
    /\ check[c].at = "stamp"
    /\ stamp' = Entry(check[c].v)
    /\ Resolve(c, check[c].of, check[c].v, check[c].may)
    /\ UNCHANGED <<now, database, admin, provisioner, history, writes>>

\* The row has.
Fill(c) ==
    /\ check[c].at = "fill"
    /\ LET k == withAuthzVersion(check[c].v)
       IN  /\ rows' = [rows EXCEPT ![k] = Entry(check[c].val)]
           /\ answers' = [answers EXCEPT ![check[c].of][k] = Entry(check[c].val)]
           /\ Answer(c, check[c].val, check[c].may)
    /\ UNCHANGED <<now, database, stamp, admin, provisioner, history, writes>>

-----------------------------------------------------------------------------
(* setPermission: the row is deleted and created again.                    *)

Begin == writes < MaxWrites /\ writes' = writes + 1

LookUp(a) ==
    /\ admin[a].at = "idle"
    /\ Begin
    /\ admin' = [admin EXCEPT ![a].at = IF perm # {} THEN "delete" ELSE "create"]
    /\ answer' = {}
    /\ UNCHANGED <<now, database, caches, check, provisioner, history>>

Delete(a) ==
    /\ admin[a].at = "delete"
    /\ Write({}, others)
    /\ admin' = [admin EXCEPT ![a].at = "create"]
    /\ UNCHANGED <<now, caches, provisioner, writes>>

\* updated_at is set before the INSERT is sent.
Create(a) ==
    /\ admin[a].at = "create"
    /\ admin' = [admin EXCEPT ![a].at = "commit", ![a].time = now]
    /\ answer' = {}
    /\ UNCHANGED <<now, database, caches, check, provisioner, history, writes>>

Commit(a) ==
    /\ admin[a].at = "commit"
    /\ perm = {}
    /\ \E g \in BOOLEAN : Write({[granted |-> g, updated |-> admin[a].time]}, others)
    /\ admin' = [admin EXCEPT ![a] = [Resting EXCEPT !.at = "drop"]]
    /\ UNCHANGED <<now, caches, provisioner, writes>>

\* There is a row again: once more from the start, the second time it is an error.
Conflict(a) ==
    /\ admin[a].at = "commit"
    /\ perm # {}
    /\ admin' = [admin EXCEPT ![a] =
           IF @.retried THEN Resting ELSE [@ EXCEPT !.at = "again", !.retried = TRUE]]
    /\ answer' = {}
    /\ UNCHANGED <<now, database, caches, check, provisioner, history, writes>>

LookUpAgain(a) ==
    /\ admin[a].at = "again"
    /\ admin' = [admin EXCEPT ![a].at = IF perm # {} THEN "delete" ELSE "create"]
    /\ answer' = {}
    /\ UNCHANGED <<now, database, caches, check, provisioner, history, writes>>

\* mutant: the entries stay
KeepEntries == UNCHANGED <<rows, answers>>

\* All entries of the role.
invalidateBusinessCache == rows' = Nothing /\ answers' = [a \in Actions |-> Nothing]

\* What this isolate may answer from now on: a check that is still at it may put
\* an old entry back.
OwnFromNow ==
    own' = IF \E c \in Checks : check[c].at # "idle" THEN BOOLEAN ELSE {Grants(perm)}

\* The write is committed, and its isolate, this or another, drops what it has
\* cached.
DropAfterSet(a) ==
    /\ admin[a].at = "drop"
    /\ \/ /\ invalidateBusinessCache
          /\ stamp' = {}
          /\ OwnFromNow
       \/ UNCHANGED <<caches, own>>
    /\ admin' = [admin EXCEPT ![a] = Resting]
    /\ answer' = {}
    /\ UNCHANGED <<now, database, check, provisioner, heldAt, top, raisedAt, lowered, held, writes>>

\* The call dies.
Die(a) ==
    /\ admin[a].at # "idle"
    /\ Begin
    /\ admin' = [admin EXCEPT ![a] = Resting]
    /\ answer' = {}
    /\ UNCHANGED <<now, database, caches, check, provisioner, history>>

-----------------------------------------------------------------------------
(* ensureRolePermissions, when somebody of the role signs in: a missing    *)
(* row is inserted and one without the grants healed.                      *)

Provision(p) ==
    /\ provisioner[p] = "idle"
    /\ ~Grants(perm)
    /\ Begin
    /\ provisioner' = [provisioner EXCEPT ![p] = IF perm = {} THEN "insert" ELSE "heal"]
    /\ answer' = {}
    /\ UNCHANGED <<now, database, caches, check, admin, history>>

\* The default of updated_at is CURRENT_TIMESTAMP, whose text is less than those of
\* the same day that setPermission writes.  A row that is there now: an error.
InsertRow(p) ==
    /\ provisioner[p] = "insert"
    /\ \/ /\ perm = {}
          /\ Write({[granted |-> TRUE, updated |-> 0]}, others)
          /\ provisioner' = [provisioner EXCEPT ![p] = "drop"]
       \/ /\ perm # {}
          /\ provisioner' = [provisioner EXCEPT ![p] = "idle"]
          /\ answer' = {}
          /\ UNCHANGED <<database, check, history>>
    /\ UNCHANGED <<now, caches, admin, writes>>

\* The UPDATE sets the grants and nothing else.
HealRow(p) ==
    /\ provisioner[p] = "heal"
    /\ Write({[r EXCEPT !.granted = TRUE] : r \in perm}, others)
    /\ provisioner' = [provisioner EXCEPT ![p] = "drop"]
    /\ UNCHANGED <<now, caches, admin, writes>>

\* Its isolate drops the entries and keeps the stamp.
DropAfterProvision(p) ==
    /\ provisioner[p] = "drop"
    /\ \/ /\ invalidateBusinessCache
          /\ OwnFromNow
       \/ UNCHANGED <<rows, answers, own>>
    /\ provisioner' = [provisioner EXCEPT ![p] = "idle"]
    /\ answer' = {}
    /\ UNCHANGED <<now, database, stamp, check, admin, heldAt, top, raisedAt, lowered, held, writes>>

\* A user or another role or permission is changed, for instance by updateUser.
WriteOther ==
    /\ Begin
    /\ others < now
    /\ Write(perm, now)
    /\ stamp' \in {stamp, {}}
    /\ UNCHANGED <<now, rows, answers, admin, provisioner>>

-----------------------------------------------------------------------------
AuthzNext ==
    \/ Tick
    \/ \E c \in Checks : checkBusiness(c)
    \/ \E c \in Checks : authzVersion(c)
    \/ \E c \in Checks : Fill(c)
    \/ \E a \in Admins : LookUp(a)
    \/ \E a \in Admins : Delete(a)
    \/ \E a \in Admins : Create(a)
    \/ \E a \in Admins : Commit(a)
    \/ \E a \in Admins : Conflict(a)
    \/ \E a \in Admins : LookUpAgain(a)
    \/ \E a \in Admins : DropAfterSet(a)
    \/ \E a \in Admins : Die(a)
    \/ \E p \in Provisioners : Provision(p)
    \/ \E p \in Provisioners : InsertRow(p)
    \/ \E p \in Provisioners : HealRow(p)
    \/ \E p \in Provisioners : DropAfterProvision(p)
    \/ WriteOther

AuthzSpec == AuthzInit /\ [][AuthzNext]_authzVars

-----------------------------------------------------------------------------
(* Properties.                                                             *)

\* Whatever the stamp does, no answer was last true longer ago than the lives of a
\* cached answer and of the cached row it came from together.
AnswersAgeOut == \A a \in answer : a.age <= 2 * Ttl

\* Once a write has raised the stamp, and the stamps cached before have expired,
\* every isolate answers what was true at that write or since, until a row that
\* is the newest is deleted.
RaisedStampRetires == \A a \in answer : a.val \in a.may

\* An isolate that has written the permission and dropped its entries answers what
\* was true then or since, also if the stamp has not moved, unless a check was in
\* progress there.
OwnWriteIsSeen == \A a \in answer : a.val \in a.own

\* authz-version.ts:13-18: whatever is written, an answer is out of date for the
\* life of a cached stamp at most.
StaleForASecond == \A a \in answer : a.age <= StampTtl

=============================================================================
