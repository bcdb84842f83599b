---------------------------- MODULE AuthLimiter ----------------------------
(***************************************************************************)
(* The failure buckets that slow down guessing passwords: an attempt to    *)
(* log in or to register checks the bucket of its email address and that   *)
(* of its client address; a failure is counted in both, a success clears   *)
(* both.                                                                   *)
(*                                                                         *)
(*   src/postara/auth_protection.py   AuthAttemptLimiter,                  *)
(*                                    SqlAuthAttemptStore                  *)
(*   src/postara/api.py               check_auth_attempt, login_user,      *)
(*                                    register_user                        *)
(*                                                                         *)
(* Each call of the store is a transaction of its own, and an upsert reads *)
(* its row before it writes, so attempts interleave everywhere.  Logging   *)
(* in and registering use separate buckets and the same code: Emails and   *)
(* Ips are the normalized keys of one of them.                             *)
(***************************************************************************)
EXTENDS Naturals, FiniteSets

CONSTANTS
    Requests,       \* attempts under way at the same time
    Emails,         \* keys of email buckets
    Ips,            \* keys of client-address buckets
    Limit,          \* failure_limit
    Challenged,     \* challenge_enabled
    Threshold,      \* challenge_threshold
    Window,         \* window_seconds, in steps of the clock
    Lock,           \* lock_seconds, in steps of the clock
    MaxTime,        \* bound: the clock
    MaxFailures,    \* bound: failures against a bucket
    None,           \* no row, SQL NULL
    Gone            \* a row that was deleted after it was read

VARIABLES
    now,            \* the clock
    bucket,         \* bucket[b]: the committed row of app.auth_attempt_buckets
    req,            \* req[r]: how far request r is
    failures,       \* history: failures ever recorded against a bucket
    since,          \* history: failed attempts at a bucket since it was empty
    missed,         \* history: how many of them its row may lack for good
    during,         \* history: failures others stored in r's bucket since r read it
    shut            \* history: buckets of r locked all the time since it began

counts == <<since, missed, during>>

vars == <<now, bucket, req, failures, since, missed, during, shut>>

Buckets == Emails \cup Ips

Bucket == [count : Nat, start : Nat, locked : Nat \cup {None}]

Idle == [pc |-> "idle"]

Pcs == {"check", "discard", "verify", "clear", "record", "renew", "select",
        "write"}

\* While a failure is recorded, mine is the bucket to be stored, computed at
\* time at, and seen the row that the upsert has read.
Working ==
    [pc : Pcs, keys : [1..2 -> Buckets], i : 1..2, at : Nat,
     mine : Bucket \cup {None}, seen : Bucket \cup {None, Gone}]

ASSUME ConstantsAssumption ==
    /\ {Limit, Threshold, Window, Lock, MaxTime, MaxFailures} \subseteq Nat
    /\ Lock > 0
    /\ IsFiniteSet(Requests)
    /\ Emails \cap Ips = {}
    /\ Challenged \in BOOLEAN
    /\ None \notin Nat \cup Bucket
    /\ Gone \notin Bucket \cup {None}

Init ==
    /\ now = 0
    /\ bucket = [b \in Buckets |-> None]
    /\ req = [r \in Requests |-> Idle]
    /\ failures = [b \in Buckets |-> 0]
    /\ since = [b \in Buckets |-> 0]
    /\ missed = [b \in Buckets |-> 0]
    /\ during = [r \in Requests |-> 0]
    /\ shut = [r \in Requests |-> {}]

At(r, pc) == req[r].pc = pc
Key(r) == req[r].keys[req[r].i]

LockedAt(b, t) == b # None /\ b.locked # None /\ b.locked > t

\* _active_bucket: the window is over and no lock outlasts it.
Expired(b) == b # None /\ b.start + Window <= now /\ ~LockedAt(b, now)

\* A request of these keys about to handle its bucket i in the loop pc.
Turn(pc, keys, i) ==
    [pc |-> pc, keys |-> keys, i |-> i, at |-> 0, mine |-> None, seen |-> None]

Goto(r, state) == req' = [req EXCEPT ![r] = state]
GotoPc(r, pc) == req' = [req EXCEPT ![r].pc = pc]

\* Mutant: the loop runs past its last bucket.
PastBucket(r, pc, after) == Turn(pc, req[r].keys, req[r].i + 1)

\* Mutant: a failure is counted against the email address only.
EmailOnly(r, pc, after) ==
    IF req[r].i = 1 /\ pc # "record" THEN Turn(pc, req[r].keys, 2) ELSE after

\* The next bucket of the loop over _bucket_keys, or what follows the loop.
NextBucket(r, pc, after) ==
    IF req[r].i = 1 THEN Turn(pc, req[r].keys, 2) ELSE after

\* r holds a bucket b it has read and is about to store.
Holds(r, b) == req[r].pc \in {"renew", "select", "write"} /\ Key(r) = b

\* The buckets in which r has yet to record its failed attempt.
Owed(r) ==
    IF req[r].pc \in {"record", "renew", "select", "write"}
    THEN {req[r].keys[j] : j \in req[r].i..2} ELSE {}

Owing(b) == {r \in Requests : b \in Owed(r)}

----------------------------------------------------------------------------
(* Checking.                                                               *)

Start(r, e, ip) ==
    /\ req[r] = Idle
    /\ Goto(r, Turn("check", <<e, ip>>, 1))
    /\ UNCHANGED <<now, bucket, failures, counts>>

Admitted(r) == [req[r] EXCEPT !.pc = "verify"]

NeedsChallenge(b) == b # None /\ Challenged /\ b.count >= Threshold

\* Mutant: the challenge is looked at before the lock.
RefusesUnchallenged(b) == LockedAt(b, now) /\ ~NeedsChallenge(b)

\* AuthRateLimited.
Refuses(b) == LockedAt(b, now)

\* A bucket that is expired counts as absent and is deleted by a call of its
\* own.  A challenge that is passed admits the attempt at once.
CheckBucket(r) ==
    LET b == bucket[Key(r)] IN
    /\ At(r, "check")
    /\ \/ Expired(b) /\ GotoPc(r, "discard")
       \/ Refuses(b) /\ Goto(r, Idle)
       \/ ~Expired(b) /\ ~Refuses(b) /\ NeedsChallenge(b)
            /\ (Goto(r, Idle) \/ Goto(r, Admitted(r)))
       \/ ~Expired(b) /\ ~Refuses(b) /\ ~NeedsChallenge(b)
            /\ Goto(r, NextBucket(r, "check", Admitted(r)))
    /\ UNCHANGED <<now, bucket, failures, counts>>

\* The row goes, whatever it holds by now; updates under way will miss it.
Delete(r, state) ==
    /\ bucket' = [bucket EXCEPT ![Key(r)] = None]
    /\ req' = [q \in Requests |->
        IF q = r THEN state
        ELSE IF At(q, "write") /\ Key(q) = Key(r) /\ req[q].seen # None
        THEN [req[q] EXCEPT !.seen = Gone]
        ELSE req[q]]
    /\ since' = [since EXCEPT ![Key(r)] = Cardinality(Owing(Key(r)))]
    /\ missed' = [missed EXCEPT ![Key(r)] = 0]
    /\ UNCHANGED <<now, failures, during>>

DiscardChecked(r) ==
    /\ At(r, "discard")
    /\ Delete(r, NextBucket(r, "check", Admitted(r)))

----------------------------------------------------------------------------
(* The outcome: user_service.login or register.                            *)

Succeed(r) ==
    /\ At(r, "verify")
    /\ Goto(r, Turn("clear", req[r].keys, 1))
    /\ UNCHANGED <<now, bucket, failures, counts>>

ClearBucket(r) ==
    /\ At(r, "clear")
    /\ Delete(r, NextBucket(r, "clear", Idle))

Reject(r) ==
    /\ At(r, "verify")
    /\ \A j \in 1..2 : since[req[r].keys[j]] < MaxFailures
    /\ Goto(r, Turn("record", req[r].keys, 1))
    /\ since' = [b \in Buckets |->
            IF \E j \in 1..2 : req[r].keys[j] = b THEN since[b] + 1 ELSE since[b]]
    /\ UNCHANGED <<now, bucket, failures, missed, during>>

----------------------------------------------------------------------------
(* Recording a failure.                                                    *)

\* Mutant: the lock comes with the last failure that is allowed.
CountedEarly(b) ==
    [b EXCEPT !.count = @ + 1,
              !.locked = IF b.count + 1 >= Limit THEN now + Lock ELSE @]

Counted(b) ==
    [b EXCEPT !.count = @ + 1,
              !.locked = IF b.count + 1 > Limit THEN now + Lock ELSE @]

NewBucket == [count |-> 0, start |-> now, locked |-> None]

ReadFailure(r) ==
    LET b == bucket[Key(r)] IN
    /\ At(r, "record")
    /\ failures[Key(r)] < MaxFailures
    /\ Goto(r, [req[r] EXCEPT
            !.pc = IF Expired(b) THEN "renew" ELSE "select",
            !.at = now,
            !.mine = Counted(IF b = None \/ Expired(b) THEN NewBucket ELSE b)])
    /\ failures' = [failures EXCEPT ![Key(r)] = @ + 1]
    /\ UNCHANGED <<now, bucket, counts>>

DiscardRecorded(r) ==
    /\ At(r, "renew")
    /\ Delete(r, [req[r] EXCEPT !.pc = "select"])

\* upsert: SELECT, then INSERT or an UPDATE of the columns that differ.
SelectRow(r) ==
    /\ At(r, "select")
    /\ Goto(r, [req[r] EXCEPT !.pc = "write", !.seen = bucket[Key(r)]])
    /\ UNCHANGED <<now, bucket, failures, counts>>

Column(mine, seen, stored) == IF mine = seen THEN stored ELSE mine

Updated(mine, seen, b) ==
    [count |-> Column(mine.count, seen.count, b.count),
     start |-> Column(mine.start, seen.start, b.start),
     locked |-> Column(mine.locked, seen.locked, b.locked)]

\* A bucket that is locked by now ends the request: a failure whose email
\* bucket is locked does not come to the bucket of its client address.
WriteRow(r) ==
    LET b == Key(r)
        mine == req[r].mine
        seen == req[r].seen
        locked == LockedAt(mine, req[r].at) IN
    /\ At(r, "write")
    /\ \/ seen = None /\ bucket[b] = None
            /\ bucket' = [bucket EXCEPT ![b] = mine]
       \/ seen \notin {None, Gone} /\ bucket[b] # None
            /\ bucket' = [bucket EXCEPT ![b] = Updated(mine, seen, @)]
    /\ Goto(r, IF locked THEN Idle ELSE NextBucket(r, "record", Idle))
    /\ missed' = [c \in Buckets |->
            IF c = b THEN missed[c] + during[r]
            ELSE IF locked /\ c \in Owed(r) THEN missed[c] + 1
            ELSE missed[c]]
    /\ during' = [q \in Requests |->
            IF q = r THEN 0 ELSE IF Holds(q, b) THEN during[q] + 1
                                                ELSE during[q]]
    /\ UNCHANGED <<now, failures, since>>

\* An error of the database at any point ends the request: a lost
\* connection, a row that is gone, two first failures under one unique key.
Fail(r) ==
    /\ req[r] # Idle
    /\ Goto(r, Idle)
    /\ missed' = [b \in Buckets |->
            IF b \in Owed(r) THEN missed[b] + 1 ELSE missed[b]]
    /\ during' = [during EXCEPT ![r] = 0]
    /\ UNCHANGED <<now, bucket, failures, since>>

Tick ==
    /\ now < MaxTime
    /\ now' = now + 1
    /\ UNCHANGED <<bucket, req, failures, counts>>

----------------------------------------------------------------------------

Step(r) ==
    \/ \E e \in Emails, ip \in Ips : Start(r, e, ip)
    \/ CheckBucket(r)
    \/ DiscardChecked(r)
    \/ Succeed(r)
    \/ ClearBucket(r)
    \/ Reject(r)
    \/ ReadFailure(r)
    \/ DiscardRecorded(r)
    \/ SelectRow(r)
    \/ WriteRow(r)
    \/ Fail(r)

Locked(b) == LockedAt(bucket[b], now)

\* The history variable shut follows an attempt up to the password check.
StillShut ==
    shut' = [r \in Requests |->
        IF req'[r].pc \notin {"check", "discard", "verify"} THEN {}
        ELSE IF req[r] = Idle
        THEN {b \in {req'[r].keys[1], req'[r].keys[2]} : Locked(b)}
        ELSE {b \in shut[r] : Locked(b)'}]

Next == (Tick \/ \E r \in Requests : Step(r)) /\ StillShut

Spec == Init /\ [][Next]_vars

----------------------------------------------------------------------------
(* Properties.                                                             *)

\* Every variable has its type: counters never leave the naturals, a stored
\* row is complete, and a request in the loop is at one of its two buckets.
TypeOK ==
    /\ now \in Nat
    /\ bucket \in [Buckets -> Bucket \cup {None}]
    /\ req \in [Requests -> {Idle} \cup Working]
    /\ failures \in [Buckets -> Nat]
    /\ since \in [Buckets -> Nat]
    /\ missed \in [Buckets -> Nat]
    /\ during \in [Requests -> Nat]
    /\ shut \in [Requests -> SUBSET Buckets]

\* Nobody is locked out undeservedly: however the updates of a bucket
\* interleave, are mixed by column or repeat what was cleared, it is locked
\* only after more than failure_limit failures were recorded against it.
LockEarned ==
    \A b \in Buckets :
        bucket[b] # None /\ bucket[b].locked # None => failures[b] > Limit

Count(b) == IF bucket[b] = None THEN 0 ELSE bucket[b].count

\* What guessing gains by overlapping requests is bounded: of the failures
\* against a bucket since it was empty the row lacks at most those stored
\* between the reading and the storing of another, those an error cut short,
\* and, for a client address, those that locked their email bucket.  When it
\* lacks none, more than failure_limit of them have locked the bucket.
FailuresCount ==
    \A b \in Buckets :
        /\ since[b] <= Count(b) + missed[b] + Cardinality(Owing(b))
        /\ Count(b) > Limit /\ missed[b] = 0 => bucket[b].locked # None

\* No password is tried while a bucket of the attempt, among those the check
\* came to, has been locked ever since the attempt began.  (The check does
\* not come to the second bucket when the first asks for a challenge.)
LockedIsRefused ==
    \A r \in Requests : At(r, "verify") =>
        \A j \in 1..req[r].i : req[r].keys[j] \notin shut[r]

============================================================================
