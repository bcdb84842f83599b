------------------------- MODULE AuthLimiter_proofs -------------------------
(***************************************************************************)
(* Proofs about AuthLimiter for any number of requests, addresses, limits  *)
(* and window and lock lengths.                                            *)
(*                                                                         *)
(* That locks are earned is not inductive: a request may store a bucket it *)
(* computed long ago, and an update writes some columns only.  Backed says *)
(* of the rows and of every bucket a request still holds that their count  *)
(* and their lock are covered by recorded failures, column by column.      *)
(* Reckoned bounds, for every bucket a request holds, what the row it is   *)
(* about to store will lack of the failures against the bucket.            *)
(***************************************************************************)
EXTENDS AuthLimiter, FiniteSetTheorems, TLAPS

Covered(x, n) ==
    x # None => x.count <= n /\ (x.locked # None => n > Limit)

Backed ==
    /\ \A b \in Buckets : Covered(bucket[b], failures[b])
    /\ \A r \in Requests :
        req[r] # Idle => Covered(req[r].mine, failures[Key(r)])

\* A request that stores a bucket has computed it.
HasMine ==
    \A r \in Requests :
        req[r].pc \in {"renew", "select", "write"} => req[r].mine # None

\* No bucket the check has passed is still locked since the attempt began.
PassedOpen ==
    \A r \in Requests :
        /\ req[r].pc \in {"check", "discard"} =>
            \A j \in 1..2 : j < req[r].i => req[r].keys[j] \notin shut[r]
        /\ req[r].pc = "verify" =>
            \A j \in 1..2 : j <= req[r].i => req[r].keys[j] \notin shut[r]

-----------------------------------------------------------------------------
(* Types.                                                                   *)

\* An idle request is no working one.
LEMMA IdlePc == Idle.pc = "idle" /\ Idle \notin Working
  BY DEF Idle, Working, Pcs

\* A request whose pc is in a loop is working.
LEMMA AtWork ==
    ASSUME TypeOK, NEW r \in Requests, req[r] # Idle
    PROVE  /\ req[r] \in Working
           /\ Key(r) \in Buckets
  BY DEF TypeOK, Working, Key

\* The states requests are sent to are states of requests.
LEMMA TurnType ==
    ASSUME NEW pc \in Pcs, NEW keys \in [1..2 -> Buckets], NEW i \in 1..2
    PROVE  Turn(pc, keys, i) \in Working
  BY DEF Turn, Working

\* The loop goes on or to what follows it.
LEMMA NextBucketType ==
    ASSUME NEW r, req[r] \in Working, NEW pc \in Pcs,
           NEW after \in {Idle} \cup Working
    PROVE  NextBucket(r, pc, after) \in {Idle} \cup Working
<1>1. req[r].keys \in [1..2 -> Buckets]
  BY DEF Working
<1>2. Turn(pc, req[r].keys, 2) \in Working
  BY <1>1, TurnType
<1> QED  BY <1>2 DEF NextBucket

\* A request at another place is a request.
LEMMA PcType ==
    ASSUME NEW x \in Working, NEW pc \in Pcs
    PROVE  [x EXCEPT !.pc = pc] \in Working
  BY DEF Working

\* So is one that has read another row, or lost it.
LEMMA SeenType ==
    ASSUME NEW x \in Working, NEW s \in Bucket \cup {None, Gone}
    PROVE  [x EXCEPT !.seen = s] \in Working
  BY DEF Working

\* A failure more keeps a bucket a bucket.
LEMMA CountedType ==
    ASSUME NEW b \in Bucket, now \in Nat
    PROVE  Counted(b) \in Bucket
<1> DEFINE until == IF b.count + 1 > Limit THEN now + Lock ELSE b.locked
<1>1. now + Lock \in Nat
  BY ConstantsAssumption
<1>2. b.locked \in Nat \cup {None} /\ b.count + 1 \in Nat
  BY DEF Bucket
<1>3. until \in Nat \cup {None}
  BY <1>1, <1>2
<1>4. [b EXCEPT !.count = b.count + 1, !.locked = until] \in Bucket
  <2> HIDE DEF until
  <2> QED  BY <1>2, <1>3 DEF Bucket
<1> QED  BY <1>4 DEF Counted

\* A new bucket is a bucket.
LEMMA NewBucketType ==
    ASSUME now \in Nat
    PROVE  NewBucket \in Bucket
  BY DEF NewBucket, Bucket

\* Replacing the state of one request keeps the others.
LEMMA GotoType ==
    ASSUME TypeOK, NEW r \in Requests, NEW state \in {Idle} \cup Working,
           Goto(r, state)
    PROVE  req' \in [Requests -> {Idle} \cup Working]
  BY DEF TypeOK, Goto

\* The failed attempts under way can be counted.
LEMMA OwingType ==
    ASSUME NEW b
    PROVE  IsFiniteSet(Owing(b)) /\ Cardinality(Owing(b)) \in Nat
<1>1. Owing(b) \subseteq Requests
  BY DEF Owing
<1> QED  BY <1>1, ConstantsAssumption, FS_Subset, FS_CardinalityType

\* A deletion keeps the types of everything it changes.
LEMMA DeleteType ==
    ASSUME TypeOK, NEW r \in Requests, req[r] # Idle,
           NEW state \in {Idle} \cup Working, Delete(r, state)
    PROVE  /\ bucket' \in [Buckets -> Bucket \cup {None}]
           /\ req' \in [Requests -> {Idle} \cup Working]
           /\ since' \in [Buckets -> Nat]
           /\ missed' \in [Buckets -> Nat]
<1>1. Key(r) \in Buckets
  BY AtWork
<1>2. bucket' \in [Buckets -> Bucket \cup {None}]
  BY <1>1 DEF TypeOK, Delete
<1>3. ASSUME NEW q \in Requests
      PROVE  req'[q] \in {Idle} \cup Working
  <2>1. CASE q = r
    BY <2>1 DEF Delete
  <2>2. CASE q # r /\ At(q, "write")
    <3>1. req[q] \in Working
      BY <2>2, IdlePc, AtWork DEF At
    <3>2. [req[q] EXCEPT !.seen = Gone] \in Working
      BY <3>1, SeenType
    <3> QED  BY <2>2, <3>1, <3>2 DEF Delete
  <2>3. CASE q # r /\ ~At(q, "write")
    BY <2>3 DEF Delete, TypeOK
  <2> QED  BY <2>1, <2>2, <2>3
<1>4. req' \in [Requests -> {Idle} \cup Working]
  BY <1>3 DEF Delete
<1>5. since' \in [Buckets -> Nat]
  BY OwingType DEF Delete, TypeOK
<1>6. missed' \in [Buckets -> Nat]
  BY DEF Delete, TypeOK
<1> QED  BY <1>2, <1>4, <1>5, <1>6

\* The updated row is a row.
LEMMA UpdatedType ==
    ASSUME NEW x \in Bucket, NEW y \in Bucket, NEW z \in Bucket
    PROVE  Updated(x, y, z) \in Bucket
  BY DEF Updated, Column, Bucket

\* Everything but shut.
CoreTypeOK ==
    /\ now \in Nat
    /\ bucket \in [Buckets -> Bucket \cup {None}]
    /\ req \in [Requests -> {Idle} \cup Working]
    /\ failures \in [Buckets -> Nat]
    /\ since \in [Buckets -> Nat]
    /\ missed \in [Buckets -> Nat]
    /\ during \in [Requests -> Nat]

\* No request is sent to Idle by a type error: one step keeps the types.
LEMMA StepType ==
    ASSUME TypeOK, HasMine, NEW r \in Requests, Step(r)
    PROVE  CoreTypeOK'
<1> USE DEF CoreTypeOK, counts
<1>1. ASSUME NEW e \in Emails, NEW ip \in Ips, Start(r, e, ip)
      PROVE  CoreTypeOK'
  <2>1. <<e, ip>> \in [1..2 -> Buckets]
    BY DEF Buckets
  <2>2. Turn("check", <<e, ip>>, 1) \in Working
    BY <2>1, TurnType DEF Pcs
  <2>3. req' \in [Requests -> {Idle} \cup Working]
    BY <1>1, <2>2, GotoType DEF Start
  <2> QED  BY <1>1, <2>3 DEF Start, TypeOK
<1>2. CASE CheckBucket(r)
  <2>1. req[r] # Idle
    BY <1>2, IdlePc DEF CheckBucket, At
  <2>2. req[r] \in Working
    BY <2>1, AtWork
  <2>3. Admitted(r) \in Working /\ [req[r] EXCEPT !.pc = "discard"] \in Working
    BY <2>2, PcType DEF Admitted, Pcs
  <2>4. NextBucket(r, "check", Admitted(r)) \in {Idle} \cup Working
    BY <2>2, <2>3, NextBucketType DEF Pcs
  <2>5. req' \in [Requests -> {Idle} \cup Working]
    BY <1>2, <2>3, <2>4, GotoType DEF CheckBucket, GotoPc, Goto, TypeOK
  <2> QED  BY <1>2, <2>5 DEF CheckBucket, TypeOK
<1>3. CASE DiscardChecked(r)
  <2>1. req[r] # Idle
    BY <1>3, IdlePc DEF DiscardChecked, At
  <2>2. req[r] \in Working
    BY <2>1, AtWork
  <2>3. Admitted(r) \in Working
    BY <2>2, PcType DEF Admitted, Pcs
  <2>4. NextBucket(r, "check", Admitted(r)) \in {Idle} \cup Working
    BY <2>2, <2>3, NextBucketType DEF Pcs
  <2>5. Delete(r, NextBucket(r, "check", Admitted(r)))
    BY <1>3 DEF DiscardChecked
  <2> QED  BY <2>1, <2>4, <2>5, DeleteType DEF Delete, TypeOK
<1>4. CASE Succeed(r)
  <2>1. req[r] \in Working
    BY <1>4, IdlePc, AtWork DEF Succeed, At
  <2>2. Turn("clear", req[r].keys, 1) \in Working
    BY <2>1, TurnType DEF Pcs, Working
  <2>3. req' \in [Requests -> {Idle} \cup Working]
    BY <1>4, <2>2, GotoType DEF Succeed
  <2> QED  BY <1>4, <2>3 DEF Succeed, TypeOK
<1>5. CASE ClearBucket(r)
  <2>1. req[r] # Idle
    BY <1>5, IdlePc DEF ClearBucket, At
  <2>2. NextBucket(r, "clear", Idle) \in {Idle} \cup Working
    BY <2>1, AtWork, NextBucketType DEF Pcs
  <2>3. Delete(r, NextBucket(r, "clear", Idle))
    BY <1>5 DEF ClearBucket
  <2> QED  BY <2>1, <2>2, <2>3, DeleteType DEF Delete, TypeOK
<1>6. CASE Reject(r)
  <2>1. req[r] \in Working
    BY <1>6, IdlePc, AtWork DEF Reject, At
  <2>2. Turn("record", req[r].keys, 1) \in Working
    BY <2>1, TurnType DEF Pcs, Working
  <2>3. req' \in [Requests -> {Idle} \cup Working]
    BY <1>6, <2>2, GotoType DEF Reject
  <2>4. since' \in [Buckets -> Nat]
    BY <1>6 DEF Reject, TypeOK
  <2> QED  BY <1>6, <2>3, <2>4 DEF Reject, TypeOK
<1>7. CASE ReadFailure(r)
  <2> DEFINE b == bucket[Key(r)]
             x == Counted(IF b = None \/ Expired(b) THEN NewBucket ELSE b)
             pc == IF Expired(b) THEN "renew" ELSE "select"
  <2>1. req[r] # Idle
    BY <1>7, IdlePc DEF ReadFailure, At
  <2>2. req[r] \in Working /\ Key(r) \in Buckets
    BY <2>1, AtWork
  <2>3. b \in Bucket \cup {None}
    BY <2>2 DEF TypeOK
  <2>4. x \in Bucket
    BY <2>3, CountedType, NewBucketType DEF TypeOK
  <2>5. pc \in Pcs
    BY DEF Pcs
  <2>6. [req[r] EXCEPT !.pc = pc, !.at = now, !.mine = x] \in Working
    <3> HIDE DEF x, pc
    <3> QED  BY <2>2, <2>4, <2>5 DEF Working, TypeOK
  <2>7. Goto(r, [req[r] EXCEPT !.pc = pc, !.at = now, !.mine = x])
    BY <1>7 DEF ReadFailure
  <2>8. req' \in [Requests -> {Idle} \cup Working]
    <3> HIDE DEF x, pc
    <3> QED  BY <2>6, <2>7, GotoType
  <2>9. failures' \in [Buckets -> Nat]
    BY <1>7, <2>2 DEF ReadFailure, TypeOK
  <2> QED  BY <1>7, <2>8, <2>9 DEF ReadFailure, TypeOK
<1>8. CASE DiscardRecorded(r)
  <2>1. req[r] # Idle
    BY <1>8, IdlePc DEF DiscardRecorded, At
  <2>2. [req[r] EXCEPT !.pc = "select"] \in Working
    BY <2>1, AtWork, PcType DEF Pcs
  <2>3. Delete(r, [req[r] EXCEPT !.pc = "select"])
    BY <1>8 DEF DiscardRecorded
  <2> QED  BY <2>1, <2>2, <2>3, DeleteType DEF Delete, TypeOK
<1>9. CASE SelectRow(r)
  <2>1. req[r] # Idle
    BY <1>9, IdlePc DEF SelectRow, At
  <2>2. req[r] \in Working /\ Key(r) \in Buckets
    BY <2>1, AtWork
  <2>3. bucket[Key(r)] \in Bucket \cup {None, Gone}
    BY <2>2 DEF TypeOK
  <2>4. [req[r] EXCEPT !.pc = "write", !.seen = bucket[Key(r)]] \in Working
    BY <2>2, <2>3 DEF Working, Pcs
  <2>5. req' \in [Requests -> {Idle} \cup Working]
    BY <1>9, <2>4, GotoType DEF SelectRow
  <2> QED  BY <1>9, <2>5 DEF SelectRow, TypeOK
<1>10. CASE WriteRow(r)
  <2>1. req[r] # Idle
    BY <1>10, IdlePc DEF WriteRow, At
  <2>2. req[r] \in Working /\ Key(r) \in Buckets
    BY <2>1, AtWork
  <2>3. req[r].mine \in Bucket
    BY <1>10, <2>2 DEF HasMine, WriteRow, At, Working
  <2>4. bucket' \in [Buckets -> Bucket \cup {None}]
    <3>1. CASE bucket' = [bucket EXCEPT ![Key(r)] = req[r].mine]
      BY <3>1, <2>2, <2>3 DEF TypeOK
    <3>2. CASE /\ req[r].seen \notin {None, Gone}
               /\ bucket[Key(r)] # None
               /\ bucket' = [bucket EXCEPT ![Key(r)] =
                                Updated(req[r].mine, req[r].seen, @)]
      <4>1. req[r].seen \in Bucket /\ bucket[Key(r)] \in Bucket
        BY <3>2, <2>2 DEF TypeOK, Working
      <4>2. Updated(req[r].mine, req[r].seen, bucket[Key(r)]) \in Bucket
        BY <4>1, <2>3, UpdatedType
      <4> QED  BY <3>2, <4>2, <2>2 DEF TypeOK
    <3> QED  BY <1>10, <3>1, <3>2 DEF WriteRow
  <2>5. NextBucket(r, "record", Idle) \in {Idle} \cup Working
    BY <2>2, NextBucketType DEF Pcs
  <2>6. req' \in [Requests -> {Idle} \cup Working]
    BY <1>10, <2>5 DEF WriteRow, Goto, TypeOK
  <2>7. missed' \in [Buckets -> Nat]
    BY <1>10 DEF WriteRow, TypeOK
  <2>8. during' \in [Requests -> Nat]
    BY <1>10 DEF WriteRow, TypeOK
  <2> QED  BY <1>10, <2>4, <2>6, <2>7, <2>8 DEF WriteRow, TypeOK
<1>11. CASE Fail(r)
  <2>1. req' \in [Requests -> {Idle} \cup Working]
    BY <1>11, GotoType DEF Fail
  <2>2. missed' \in [Buckets -> Nat]
    BY <1>11 DEF Fail, TypeOK
  <2>3. during' \in [Requests -> Nat]
    BY <1>11 DEF Fail, TypeOK
  <2> QED  BY <1>11, <2>1, <2>2, <2>3 DEF Fail, TypeOK
<1> QED
  BY <1>1, <1>2, <1>3, <1>4, <1>5, <1>6, <1>7, <1>8, <1>9, <1>10, <1>11
  DEF Step

\* Types are kept by every step.
LEMMA NextType ==
    ASSUME TypeOK, HasMine, [Next]_vars
    PROVE  TypeOK'
<1>1. CASE Next
  <2>1. CoreTypeOK'
    <3>1. ASSUME NEW r \in Requests, Step(r)
          PROVE  CoreTypeOK'
      BY <3>1, StepType
    <3>2. CASE Tick
      BY <3>2 DEF Tick, counts, TypeOK, CoreTypeOK
    <3> QED  BY <1>1, <3>1, <3>2 DEF Next
  <2>2. ASSUME NEW r \in Requests, req'[r].pc \in {"check", "discard", "verify"}
        PROVE  {req'[r].keys[1], req'[r].keys[2]} \subseteq Buckets
    <3>1. req'[r] \in Working
      BY <2>1, <2>2, IdlePc DEF CoreTypeOK
    <3> QED  BY <3>1 DEF Working
  <2>3. shut' \in [Requests -> SUBSET Buckets]
    BY <1>1, <2>2 DEF Next, StillShut, TypeOK
  <2> QED  BY <2>1, <2>3 DEF CoreTypeOK, TypeOK
<1>2. CASE UNCHANGED vars
  BY <1>2 DEF vars, TypeOK
<1> QED  BY <1>1, <1>2

-----------------------------------------------------------------------------
(* Locks are earned.                                                        *)

\* What one request's step leaves of the others: keys, place and bucket.
LEMMA OthersKept ==
    ASSUME TypeOK, NEW r \in Requests, Step(r), NEW q \in Requests, q # r
    PROVE  \/ req'[q] = req[q]
           \/ At(q, "write") /\ req'[q] = [req[q] EXCEPT !.seen = Gone]
<1> USE DEF Goto, GotoPc, TypeOK
<1>1. ASSUME NEW state, Delete(r, state)
      PROVE  \/ req'[q] = req[q]
             \/ At(q, "write") /\ req'[q] = [req[q] EXCEPT !.seen = Gone]
  BY <1>1 DEF Delete
<1>2. CASE DiscardChecked(r) \/ ClearBucket(r) \/ DiscardRecorded(r)
  BY <1>1, <1>2 DEF DiscardChecked, ClearBucket, DiscardRecorded
<1>3. CASE \E e \in Emails, ip \in Ips : Start(r, e, ip)
  BY <1>3 DEF Start
<1>4. CASE CheckBucket(r)
  BY <1>4 DEF CheckBucket
<1>5. CASE Succeed(r) \/ Reject(r) \/ Fail(r)
  BY <1>5 DEF Succeed, Reject, Fail
<1>6. CASE ReadFailure(r)
  BY <1>6 DEF ReadFailure
<1>7. CASE SelectRow(r)
  BY <1>7 DEF SelectRow
<1>8. CASE WriteRow(r)
  BY <1>8 DEF WriteRow
<1> QED  BY <1>2, <1>3, <1>4, <1>5, <1>6, <1>7, <1>8 DEF Step

\* In particular its place in the loop and the bucket it holds.
LEMMA OthersAlike ==
    ASSUME TypeOK, NEW r \in Requests, Step(r), NEW q \in Requests, q # r
    PROVE  /\ req'[q] = Idle <=> req[q] = Idle
           /\ req'[q].pc = req[q].pc
           /\ req[q] # Idle =>
                /\ req'[q].keys = req[q].keys
                /\ req'[q].i = req[q].i
                /\ req'[q].mine = req[q].mine
                /\ Key(q)' = Key(q)
<1>1. CASE req'[q] = req[q]
  BY <1>1 DEF Key
<1>2. CASE At(q, "write") /\ req'[q] = [req[q] EXCEPT !.seen = Gone]
  <2>1. req[q] \in Working /\ req[q] # Idle
    BY <1>2, IdlePc, AtWork DEF At
  <2>2. /\ req'[q].pc = req[q].pc
        /\ req'[q].keys = req[q].keys
        /\ req'[q].i = req[q].i
        /\ req'[q].mine = req[q].mine
    BY <1>2, <2>1 DEF Working
  <2>3. req'[q] # Idle
    BY <1>2, <2>2, IdlePc DEF At
  <2> QED  BY <2>1, <2>2, <2>3 DEF Key
<1> QED  BY <1>1, <1>2, OthersKept

\* Where a step sends the request that takes it, as far as mine goes: to a
\* place without a bucket, on with the one it had, or to a new one.
LEMMA OwnStep ==
    ASSUME TypeOK, NEW r \in Requests, Step(r), ~ReadFailure(r)
    PROVE  \/ req'[r] = Idle
           \/ /\ req'[r] \in Working
              /\ req'[r].mine = None
              /\ req'[r].pc \in {"check", "clear", "record", "verify"}
           \/ /\ req[r] \in Working
              /\ req'[r] \in Working
              /\ req'[r].keys = req[r].keys /\ req'[r].i = req[r].i
              /\ req'[r].mine = req[r].mine
              /\ \/ req'[r].pc \in {"discard", "verify"}
                 \/ req[r].pc = "renew" /\ req'[r].pc = "select"
                 \/ req[r].pc = "select" /\ req'[r].pc = "write"
<1> USE DEF Goto, GotoPc, TypeOK
<1>1. ASSUME NEW pc \in {"check", "clear", "record"}, NEW keys \in [1..2 -> Buckets],
             NEW i \in 1..2, req'[r] = Turn(pc, keys, i)
      PROVE  /\ req'[r] \in Working
             /\ req'[r].mine = None
             /\ req'[r].pc \in {"check", "clear", "record", "verify"}
  <2>1. req'[r] \in Working
    BY <1>1, TurnType DEF Pcs
  <2> QED  BY <1>1, <2>1 DEF Turn
<1>2. ASSUME req[r] # Idle
      PROVE  req[r] \in Working /\ req[r].keys \in [1..2 -> Buckets]
  <2>1. req[r] \in Working
    BY <1>2, AtWork
  <2> QED  BY <2>1 DEF Working
<1>3. ASSUME NEW pc \in Pcs, req[r] # Idle, req'[r] = [req[r] EXCEPT !.pc = pc]
      PROVE  /\ req[r] \in Working
             /\ req'[r] \in Working
             /\ req'[r].keys = req[r].keys /\ req'[r].i = req[r].i
             /\ req'[r].mine = req[r].mine
             /\ req'[r].pc = pc
  <2>1. req[r] \in Working /\ req'[r] \in Working
    BY <1>2, <1>3, PcType
  <2> QED  BY <1>3, <2>1 DEF Working
<1>4. CASE \E e \in Emails, ip \in Ips : Start(r, e, ip)
  <2>1. PICK e \in Emails, ip \in Ips : Start(r, e, ip)
    BY <1>4
  <2>2. <<e, ip>> \in [1..2 -> Buckets]
    BY DEF Buckets
  <2>3. req'[r] = Turn("check", <<e, ip>>, 1)
    BY <2>1 DEF Start
  <2> QED  BY <1>1, <2>2, <2>3
<1>5. CASE CheckBucket(r)
  <2>1. req[r] # Idle
    BY <1>5, IdlePc DEF CheckBucket, At
  <2>2. \/ req'[r] = [req[r] EXCEPT !.pc = "discard"]
        \/ req'[r] = Idle
        \/ req'[r] = [req[r] EXCEPT !.pc = "verify"]
        \/ req'[r] = Turn("check", req[r].keys, 2)
    BY <1>5 DEF CheckBucket, Admitted, NextBucket
  <2> QED  BY <1>1, <1>2, <1>3, <2>1, <2>2 DEF Pcs
<1>6. CASE DiscardChecked(r)
  <2>1. req[r] # Idle
    BY <1>6, IdlePc DEF DiscardChecked, At
  <2>2. \/ req'[r] = [req[r] EXCEPT !.pc = "verify"]
        \/ req'[r] = Turn("check", req[r].keys, 2)
    BY <1>6 DEF DiscardChecked, Delete, Admitted, NextBucket
  <2> QED  BY <1>1, <1>2, <1>3, <2>1, <2>2 DEF Pcs
<1>7. CASE Succeed(r) \/ Reject(r)
  <2>1. req[r] # Idle
    BY <1>7, IdlePc DEF Succeed, Reject, At
  <2>2. \/ req'[r] = Turn("clear", req[r].keys, 1)
        \/ req'[r] = Turn("record", req[r].keys, 1)
    BY <1>7 DEF Succeed, Reject
  <2> QED  BY <1>1, <1>2, <2>1, <2>2
<1>8. CASE ClearBucket(r)
  <2>1. req[r] # Idle
    BY <1>8, IdlePc DEF ClearBucket, At
  <2>2. req'[r] = Idle \/ req'[r] = Turn("clear", req[r].keys, 2)
    BY <1>8 DEF ClearBucket, Delete, NextBucket
  <2> QED  BY <1>1, <1>2, <2>1, <2>2
<1>9. CASE DiscardRecorded(r)
  <2>1. req[r] # Idle /\ req[r].pc = "renew"
    BY <1>9, IdlePc DEF DiscardRecorded, At
  <2>2. req'[r] = [req[r] EXCEPT !.pc = "select"]
    BY <1>9 DEF DiscardRecorded, Delete
  <2> QED  BY <1>3, <2>1, <2>2 DEF Pcs
<1>10. CASE SelectRow(r)
  <2>1. req[r] # Idle /\ req[r].pc = "select"
    BY <1>10, IdlePc DEF SelectRow, At
  <2>2. req[r] \in Working /\ Key(r) \in Buckets
    BY <2>1, AtWork
  <2>3. bucket[Key(r)] \in Bucket \cup {None, Gone}
    BY <2>2
  <2>4. req'[r] = [req[r] EXCEPT !.pc = "write", !.seen = bucket[Key(r)]]
    BY <1>10 DEF SelectRow
  <2> QED  BY <2>1, <2>2, <2>3, <2>4 DEF Working, Pcs
<1>11. CASE WriteRow(r)
  <2>1. req[r] # Idle
    BY <1>11, IdlePc DEF WriteRow, At
  <2>2. req'[r] = Idle \/ req'[r] = Turn("record", req[r].keys, 2)
    BY <1>11 DEF WriteRow, NextBucket
  <2> QED  BY <1>1, <1>2, <2>1, <2>2
<1>12. CASE Fail(r)
  BY <1>12 DEF Fail
<1> QED
  BY <1>4, <1>5, <1>6, <1>7, <1>8, <1>9, <1>10, <1>11, <1>12 DEF Step

\* The failure that is read is counted in a bucket of its own.
LEMMA ReadStep ==
    ASSUME TypeOK, NEW r \in Requests, ReadFailure(r)
    PROVE  /\ req[r] \in Working /\ Key(r) \in Buckets
           /\ \E x \in Bucket :
                /\ x = NewBucket \/ x = bucket[Key(r)]
                /\ Counted(x) \in Bucket
                /\ req'[r] # Idle
                /\ req'[r].mine = Counted(x)
                /\ req'[r].keys = req[r].keys /\ req'[r].i = req[r].i
                /\ req'[r].pc \in {"renew", "select"}
<1> DEFINE b == bucket[Key(r)]
           x == IF b = None \/ Expired(b) THEN NewBucket ELSE b
<1>1. req[r] # Idle
  BY IdlePc DEF ReadFailure, At
<1>2. req[r] \in Working /\ Key(r) \in Buckets
  BY <1>1, AtWork
<1>3. b \in Bucket \cup {None}
  BY <1>2 DEF TypeOK
<1>4. x \in Bucket /\ (x = NewBucket \/ x = b)
  BY <1>3, NewBucketType DEF TypeOK
<1>5. Counted(x) \in Bucket
  BY <1>4, CountedType DEF TypeOK
<1>6. PICK pc \in {"renew", "select"} : req'[r] =
        [req[r] EXCEPT !.pc = pc, !.at = now, !.mine = Counted(x)]
  BY DEF ReadFailure, Goto, TypeOK
<1>7. /\ req'[r].mine = Counted(x)
      /\ req'[r].keys = req[r].keys /\ req'[r].i = req[r].i
      /\ req'[r].pc = pc
  <2> HIDE DEF x
  <2> QED  BY <1>2, <1>6 DEF Working
<1>8. req'[r] # Idle
  BY <1>7, IdlePc
<1> QED  BY <1>2, <1>4, <1>5, <1>7, <1>8

\* A request that stores a bucket goes on having computed one.
LEMMA HasMineStep ==
    ASSUME TypeOK, HasMine, [Next]_vars
    PROVE  HasMine'
<1>1. ASSUME NEW r \in Requests, Step(r), NEW q \in Requests,
             req'[q].pc \in {"renew", "select", "write"}
      PROVE  req'[q].mine # None
  <2>1. CASE q # r
    <3>1. req[q].pc = req'[q].pc
      BY <1>1, <2>1, OthersAlike
    <3>2. req[q] # Idle
      BY <1>1, <3>1, IdlePc
    <3> QED  BY <1>1, <2>1, <3>1, <3>2, OthersAlike DEF HasMine
  <2>2. CASE q = r /\ ReadFailure(r)
    BY <2>2, ReadStep, ConstantsAssumption
  <2>3. CASE q = r /\ ~ReadFailure(r)
    BY <1>1, <2>3, OwnStep, IdlePc DEF HasMine
  <2> QED  BY <2>1, <2>2, <2>3
<1>2. CASE Tick \/ UNCHANGED vars
  BY <1>2 DEF Tick, vars, HasMine
<1> QED  BY <1>1, <1>2 DEF Next, HasMine

\* What more failures cover.
LEMMA CoveredMore ==
    ASSUME NEW x \in Bucket \cup {None}, NEW m \in Nat, NEW n \in Nat, m <= n,
           Covered(x, m)
    PROVE  Covered(x, n)
  BY ConstantsAssumption DEF Covered, Bucket

\* A counted failure is covered by the failure recorded for it.
LEMMA CoveredCounted ==
    ASSUME NEW x \in Bucket, NEW n \in Nat, now \in Nat, Covered(x, n)
    PROVE  Covered(Counted(x), n + 1)
<1>1. x # None /\ x.count \in Nat /\ x.locked \in Nat \cup {None}
  BY ConstantsAssumption DEF Bucket
<1>2. /\ Counted(x).count = x.count + 1
      /\ Counted(x).locked = IF x.count + 1 > Limit THEN now + Lock ELSE x.locked
  BY DEF Counted, Bucket
<1> QED  BY <1>1, <1>2, ConstantsAssumption DEF Covered

\* Columns from two covered buckets make a covered bucket.
LEMMA CoveredUpdated ==
    ASSUME NEW x \in Bucket, NEW y, NEW z \in Bucket, NEW n \in Nat,
           Covered(x, n), Covered(z, n)
    PROVE  Covered(Updated(x, y, z), n)
<1>1. x # None /\ z # None
  BY ConstantsAssumption
<1>2. /\ Updated(x, y, z).count \in {x.count, z.count}
      /\ Updated(x, y, z).locked \in {x.locked, z.locked}
  BY DEF Updated, Column
<1> QED  BY <1>1, <1>2 DEF Covered

\* Recorded failures are never forgotten.
LEMMA FailuresGrow ==
    ASSUME TypeOK, NEW r \in Requests, Step(r), NEW b \in Buckets
    PROVE  failures[b] \in Nat /\ failures'[b] \in Nat /\ failures[b] <= failures'[b]
<1>1. CASE ReadFailure(r)
  <2>1. Key(r) \in Buckets
    BY <1>1, ReadStep
  <2> QED  BY <1>1, <2>1 DEF ReadFailure, TypeOK
<1>2. CASE ~ReadFailure(r)
  <2>1. CASE \/ \E e \in Emails, ip \in Ips : Start(r, e, ip)
             \/ CheckBucket(r) \/ Succeed(r) \/ Reject(r) \/ SelectRow(r)
             \/ WriteRow(r) \/ Fail(r)
    <3>1. failures' = failures
      BY <2>1 DEF Start, CheckBucket, Succeed, Reject, SelectRow, WriteRow, Fail
    <3> QED  BY <3>1 DEF TypeOK
  <2>2. CASE DiscardChecked(r) \/ ClearBucket(r) \/ DiscardRecorded(r)
    <3>1. ASSUME NEW state, Delete(r, state)
          PROVE  failures' = failures
      BY <3>1 DEF Delete
    <3>2. failures' = failures
      BY <2>2, <3>1 DEF DiscardChecked, ClearBucket, DiscardRecorded
    <3> QED  BY <3>2 DEF TypeOK
  <2> QED  BY <1>2, <2>1, <2>2 DEF Step
<1> QED  BY <1>1, <1>2

\* The rows stay covered.
LEMMA RowsBacked ==
    ASSUME TypeOK, HasMine, Backed, NEW r \in Requests, Step(r),
           NEW b \in Buckets
    PROVE  Covered(bucket'[b], failures'[b])
<1>1. bucket[b] \in Bucket \cup {None} /\ Covered(bucket[b], failures[b])
  BY DEF TypeOK, Backed
<1>2. CASE bucket'[b] = bucket[b]
  BY <1>1, <1>2, CoveredMore, FailuresGrow
<1>3. CASE bucket'[b] = None
  BY <1>3 DEF Covered
<1>4. CASE WriteRow(r) /\ b = Key(r)
  <2>1. req[r] # Idle
    BY <1>4, IdlePc DEF WriteRow, At
  <2>2. req[r] \in Working
    BY <2>1, AtWork
  <2>3. req[r].mine \in Bucket
    BY <1>4, <2>2 DEF HasMine, WriteRow, At, Working
  <2>4. Covered(req[r].mine, failures[b])
    BY <1>4, <2>1 DEF Backed
  <2>5. failures'[b] = failures[b] /\ failures[b] \in Nat
    BY <1>4 DEF WriteRow, TypeOK
  <2>6. \/ bucket'[b] = req[r].mine
        \/ /\ bucket[b] # None
           /\ bucket'[b] = Updated(req[r].mine, req[r].seen, bucket[b])
    BY <1>4 DEF WriteRow, TypeOK
  <2> QED  BY <1>1, <2>3, <2>4, <2>5, <2>6, CoveredUpdated
<1>5. CASE WriteRow(r) /\ b # Key(r)
  BY <1>2, <1>5 DEF WriteRow, TypeOK
<1>6. ASSUME NEW state, Delete(r, state)
      PROVE  bucket'[b] \in {None, bucket[b]}
  BY <1>6 DEF Delete, TypeOK
<1>7. CASE DiscardChecked(r) \/ ClearBucket(r) \/ DiscardRecorded(r)
  BY <1>2, <1>3, <1>6, <1>7 DEF DiscardChecked, ClearBucket, DiscardRecorded
<1>8. CASE \/ \E e \in Emails, ip \in Ips : Start(r, e, ip)
           \/ CheckBucket(r) \/ Succeed(r) \/ Reject(r) \/ ReadFailure(r)
           \/ SelectRow(r) \/ Fail(r)
  BY <1>2, <1>8 DEF Start, CheckBucket, Succeed, Reject, ReadFailure, SelectRow,
       Fail
<1> QED  BY <1>4, <1>5, <1>7, <1>8 DEF Step

\* So do the buckets that requests hold.
LEMMA HeldBacked ==
    ASSUME TypeOK, HasMine, Backed, NEW r \in Requests, Step(r),
           NEW q \in Requests, req'[q] # Idle
    PROVE  Covered(req'[q].mine, failures'[Key(q)'])
<1>1. CASE q # r
  <2>1. /\ req[q] # Idle
        /\ req'[q].mine = req[q].mine
        /\ Key(q)' = Key(q)
    BY <1>1, OthersAlike
  <2>2. Key(q) \in Buckets /\ req[q].mine \in Bucket \cup {None}
    BY <2>1, AtWork DEF Working
  <2>3. Covered(req[q].mine, failures[Key(q)])
    BY <2>1 DEF Backed
  <2>4. Covered(req[q].mine, failures'[Key(q)])
    BY <2>2, <2>3, CoveredMore, FailuresGrow
  <2> QED  BY <2>1, <2>4
<1>2. CASE q = r /\ ReadFailure(r)
  <2>1. PICK x \in Bucket :
          /\ x = NewBucket \/ x = bucket[Key(r)]
          /\ req'[r].mine = Counted(x)
          /\ req'[r].keys = req[r].keys /\ req'[r].i = req[r].i
    BY <1>2, ReadStep
  <2>2. Key(r) \in Buckets /\ Key(r)' = Key(r)
    BY <1>2, <2>1, ReadStep DEF Key
  <2>3. failures[Key(r)] \in Nat /\ failures'[Key(r)] = failures[Key(r)] + 1
    BY <1>2, <2>2 DEF ReadFailure, TypeOK
  <2>4. Covered(x, failures[Key(r)])
    BY <2>1, <2>2, <2>3 DEF Backed, NewBucket, Covered
  <2>5. Covered(Counted(x), failures[Key(r)] + 1)
    BY <2>3, <2>4, CoveredCounted DEF TypeOK
  <2> QED  BY <1>2, <2>1, <2>2, <2>3, <2>5
<1>3. CASE q = r /\ ~ReadFailure(r)
  <2>1. CASE req'[r].mine = None
    BY <1>3, <2>1 DEF Covered
  <2>2. CASE req[r] \in Working /\ req'[r].mine = req[r].mine /\ Key(r)' = Key(r)
    <3>1. req[r] # Idle
      BY <2>2, IdlePc
    <3>2. Key(r) \in Buckets /\ req[r].mine \in Bucket \cup {None}
      BY <3>1, AtWork, <2>2 DEF Working
    <3>3. Covered(req[r].mine, failures[Key(r)])
      BY <3>1 DEF Backed
    <3>4. Covered(req[r].mine, failures'[Key(r)])
      BY <3>2, <3>3, CoveredMore, FailuresGrow
    <3> QED  BY <1>3, <2>2, <3>4
  <2> QED  BY <1>3, <2>1, <2>2, OwnStep DEF Key
<1> QED  BY <1>1, <1>2, <1>3

\* What is stored and what is held stays covered by recorded failures.
LEMMA BackedStep ==
    ASSUME TypeOK, HasMine, Backed, [Next]_vars
    PROVE  Backed'
<1>1. ASSUME NEW r \in Requests, Step(r)
      PROVE  Backed'
  BY <1>1, RowsBacked, HeldBacked DEF Backed
<1>2. CASE Tick \/ UNCHANGED vars
  BY <1>2 DEF Tick, vars, Backed, Key
<1> QED  BY <1>1, <1>2 DEF Next

-----------------------------------------------------------------------------
(* Locked buckets are refused.                                              *)

\* What the check has passed is not locked, or not any more.
LEMMA PassedOpenStep ==
    ASSUME TypeOK, HasMine, PassedOpen, [Next]_vars
    PROVE  PassedOpen'
<1> DEFINE Open(q, j) == req[q].keys[j] \notin shut[q]
<1>1. ASSUME Next, NEW q \in Requests, req[q] # Idle, NEW b, b \in shut'[q]
      PROVE  b \in shut[q] /\ Locked(b)'
  BY <1>1 DEF Next, StillShut
<1>2. ASSUME NEW q \in Requests, req'[q].pc = req[q].pc, req'[q].i = req[q].i,
             req'[q].keys = req[q].keys, req[q] # Idle, Next
      PROVE  /\ req'[q].pc \in {"check", "discard"} =>
                \A j \in 1..2 : j < req'[q].i => Open(q, j)'
             /\ req'[q].pc = "verify" =>
                \A j \in 1..2 : j <= req'[q].i => Open(q, j)'
  BY <1>1, <1>2 DEF PassedOpen
<1>3. ASSUME NEW r \in Requests, Step(r), Next, NEW q \in Requests
      PROVE  /\ req'[q].pc \in {"check", "discard"} =>
                \A j \in 1..2 : j < req'[q].i => Open(q, j)'
             /\ req'[q].pc = "verify" =>
                \A j \in 1..2 : j <= req'[q].i => Open(q, j)'
  <2>1. CASE q # r
    <3>1. CASE req[q] = Idle
      BY <1>3, <2>1, <3>1, OthersAlike, IdlePc
    <3>2. CASE req[q] # Idle
      BY <1>2, <1>3, <2>1, <3>2, OthersAlike
    <3> QED  BY <3>1, <3>2
  <2>2. CASE q = r /\ \E e \in Emails, ip \in Ips : Start(r, e, ip)
    BY <2>2 DEF Start, Goto, Turn, TypeOK
  <2>3. CASE q = r /\ CheckBucket(r)
    <3>1. req[r] # Idle /\ req[r].pc = "check"
      BY <2>3, IdlePc DEF CheckBucket, At
    <3>2. req[r] \in Working /\ req[r].i \in {1, 2}
      BY <3>1, AtWork DEF Working
    <3>3. \/ req'[r] = [req[r] EXCEPT !.pc = "discard"]
          \/ req'[r] = Idle
          \/ /\ ~LockedAt(bucket[Key(r)], now)
             /\ \/ req'[r] = [req[r] EXCEPT !.pc = "verify"]
                \/ req[r].i = 1 /\ req'[r] = Turn("check", req[r].keys, 2)
      BY <2>3 DEF CheckBucket, Goto, GotoPc, Admitted, NextBucket, Refuses, TypeOK
    <3>4. ASSUME ~LockedAt(bucket[Key(r)], now)
          PROVE  Key(r) \notin shut'[r]
      <4>1. ~LockedAt(bucket'[Key(r)], now')
        BY <2>3, <3>4 DEF CheckBucket
      <4>2. \A b : b \in shut'[r] => LockedAt(bucket'[b], now')
        BY <1>1, <1>3, <3>1 DEF Locked
      <4> QED  BY <4>1, <4>2
    <3>5. \A j \in 1..2 : j < req[r].i => req[r].keys[j] \notin shut'[r]
      BY <1>1, <1>3, <3>1 DEF PassedOpen
    <3>6. CASE req'[r] = [req[r] EXCEPT !.pc = "discard"] \/ req'[r] = Idle
      BY <2>3, <3>2, <3>5, <3>6, IdlePc DEF Working
    <3>7. CASE /\ ~LockedAt(bucket[Key(r)], now)
               /\ req'[r] = [req[r] EXCEPT !.pc = "verify"]
      <4>1. \A j \in 1..2 : j <= req[r].i => req[r].keys[j] \notin shut'[r]
        BY <3>2, <3>4, <3>5, <3>7 DEF Key
      <4> QED  BY <2>3, <3>2, <3>7, <4>1 DEF Working
    <3>8. CASE /\ ~LockedAt(bucket[Key(r)], now)
               /\ req[r].i = 1 /\ req'[r] = Turn("check", req[r].keys, 2)
      BY <2>3, <3>4, <3>8 DEF Turn, Key
    <3> QED  BY <3>3, <3>6, <3>7, <3>8
  <2>4. CASE q = r /\ DiscardChecked(r)
    <3>1. req[r] # Idle /\ req[r].pc = "discard"
      BY <2>4, IdlePc DEF DiscardChecked, At
    <3>2. req[r] \in Working /\ req[r].i \in {1, 2} /\ Key(r) \in Buckets
      BY <3>1, AtWork DEF Working
    <3>3. \/ req'[r] = [req[r] EXCEPT !.pc = "verify"]
          \/ req[r].i = 1 /\ req'[r] = Turn("check", req[r].keys, 2)
      BY <2>4 DEF DiscardChecked, Delete, Admitted, NextBucket
    <3>4. bucket'[Key(r)] = None
      BY <2>4, <3>2 DEF DiscardChecked, Delete, TypeOK
    <3>5. Key(r) \notin shut'[r]
      BY <1>1, <1>3, <3>1, <3>4 DEF Locked, LockedAt
    <3>6. \A j \in 1..2 : j < req[r].i => req[r].keys[j] \notin shut'[r]
      BY <1>1, <1>3, <3>1 DEF PassedOpen
    <3>7. \A j \in 1..2 : j <= req[r].i => req[r].keys[j] \notin shut'[r]
      BY <3>2, <3>5, <3>6 DEF Key
    <3>8. CASE req'[r] = [req[r] EXCEPT !.pc = "verify"]
      BY <2>4, <3>2, <3>7, <3>8 DEF Working
    <3>9. CASE req[r].i = 1 /\ req'[r] = Turn("check", req[r].keys, 2)
      BY <2>4, <3>5, <3>9 DEF Turn, Key
    <3> QED  BY <3>3, <3>8, <3>9
  <2>5. CASE q = r /\ (Succeed(r) \/ Reject(r) \/ ClearBucket(r) \/ WriteRow(r))
    BY <2>5, IdlePc DEF Succeed, Reject, ClearBucket, WriteRow, Delete, Goto, Turn,
         NextBucket, TypeOK
  <2>6. CASE q = r /\ ReadFailure(r)
    BY <2>6, ReadStep
  <2>7. CASE q = r /\ DiscardRecorded(r)
    <3>1. req[r] \in Working
      BY <2>7, IdlePc, AtWork DEF DiscardRecorded, At
    <3> QED  BY <2>7, <3>1 DEF DiscardRecorded, Delete, Working
  <2>8. CASE q = r /\ SelectRow(r)
    <3>1. req[r] \in Working
      BY <2>8, IdlePc, AtWork DEF SelectRow, At
    <3> QED  BY <2>8, <3>1 DEF SelectRow, Goto, Working, TypeOK
  <2>9. CASE q = r /\ Fail(r)
    BY <2>9, IdlePc DEF Fail, Goto, TypeOK
  <2> QED
    BY <1>3, <2>1, <2>2, <2>3, <2>4, <2>5, <2>6, <2>7, <2>8, <2>9 DEF Step
<1>4. CASE Next /\ Tick
  <2>1. ASSUME NEW q \in Requests, req[q] = Idle
        PROVE  req'[q].pc = "idle"
    BY <1>4, <2>1, IdlePc DEF Tick
  <2> QED  BY <1>2, <1>4, <2>1 DEF Tick, PassedOpen
<1>5. CASE UNCHANGED vars
  BY <1>5 DEF vars, PassedOpen
<1> QED  BY <1>3, <1>4, <1>5 DEF Next, PassedOpen

-----------------------------------------------------------------------------
(* Failures are counted.                                                    *)

\* What a request is about to store in its bucket b: at least its own
\* failure, with a lock if the count exceeds the limit, and all failures but
\* those missing already and those stored since it read the row.
Reckon(q) ==
    req[q].pc \in {"renew", "select", "write"} =>
        /\ req[q].mine.count \in Nat \ {0}
        /\ req[q].mine.count > Limit => req[q].mine.locked # None
        /\ req[q].pc # "renew" =>
            since[Key(q)] + 1 <= req[q].mine.count + missed[Key(q)] + during[q]
                                    + Cardinality(Owing(Key(q)))
        /\ req[q].pc = "write" /\ req[q].seen \notin {None, Gone} =>
            req[q].seen = bucket[Key(q)] \/ during[q] > 0

Reckoned == \A q \in Requests : Reckon(q)

\* What a step does to the failed attempts under way: it is one more, one
\* less or as many, as the request that takes it begins or ends to owe.
LEMMA OwingStep ==
    ASSUME TypeOK, NEW r \in Requests, Step(r), NEW b \in Buckets
    PROVE  /\ Cardinality(Owing(b)) \in Nat /\ Cardinality(Owing(b))' \in Nat
           /\ Cardinality(Owing(b)) <= Cardinality(Owing(b))' + 1
           /\ (b \in Owed(r) => b \in Owed(r)') =>
                Cardinality(Owing(b)) <= Cardinality(Owing(b))'
           /\ b \notin Owed(r) /\ b \in Owed(r)' =>
                Cardinality(Owing(b))' = Cardinality(Owing(b)) + 1
           /\ (b \in Owed(r) <=> b \in Owed(r)') =>
                Cardinality(Owing(b))' = Cardinality(Owing(b))
<1>1. ASSUME NEW q \in Requests, q # r
      PROVE  Owed(q)' = Owed(q)
  <2>1. CASE req[q] = Idle
    BY <1>1, <2>1, OthersAlike, IdlePc DEF Owed
  <2>2. CASE req[q] # Idle
    BY <1>1, <2>2, OthersAlike DEF Owed
  <2> QED  BY <2>1, <2>2
<1>2. \A q \in Requests : q # r => (q \in Owing(b)' <=> q \in Owing(b))
  BY <1>1 DEF Owing
<1>3. Owing(b) \subseteq Requests /\ Owing(b)' \subseteq Requests
  BY DEF Owing
<1>4. /\ r \in Owing(b) <=> b \in Owed(r)
      /\ r \in Owing(b)' <=> b \in Owed(r)'
  BY DEF Owing
<1> DEFINE old == Owing(b)
           new == Owing(b)'
<1>5. IsFiniteSet(old) /\ IsFiniteSet(new)
  BY <1>3, ConstantsAssumption, FS_Subset
<1>6. Cardinality(old) \in Nat /\ Cardinality(new) \in Nat
  BY <1>5, FS_CardinalityType
<1>7. CASE r \in old /\ r \notin new
  <2>1. new = old \ {r}
    BY <1>2, <1>3, <1>7
  <2>2. Cardinality(new) = Cardinality(old) - 1
    BY <1>5, <1>7, <2>1, FS_RemoveElement
  <2> QED  BY <1>4, <1>6, <1>7, <2>2
<1>8. CASE r \notin old /\ r \in new
  <2>1. new = old \cup {r}
    BY <1>2, <1>3, <1>8
  <2>2. Cardinality(new) = Cardinality(old) + 1
    BY <1>5, <1>8, <2>1, FS_AddElement
  <2> QED  BY <1>4, <1>6, <1>8, <2>2
<1>9. CASE r \in old <=> r \in new
  <2>1. new = old
    BY <1>2, <1>3, <1>9
  <2> QED  BY <1>4, <1>6, <1>9, <2>1
<1> QED  BY <1>7, <1>8, <1>9

\* A step that stores nothing leaves the rows and their history alone.
Quiet(r) ==
    \/ \E e \in Emails, ip \in Ips : Start(r, e, ip)
    \/ CheckBucket(r) \/ Succeed(r) \/ ReadFailure(r) \/ SelectRow(r)

Deletes(r) == DiscardChecked(r) \/ ClearBucket(r) \/ DiscardRecorded(r)

\* Such a step changes nothing that is owed.
LEMMA QuietOwes ==
    ASSUME TypeOK, NEW r \in Requests, Quiet(r)
    PROVE  Owed(r)' = Owed(r) /\ UNCHANGED <<bucket, counts>>
<1> USE DEF Goto, GotoPc, TypeOK
<1>1. UNCHANGED <<bucket, counts>>
  BY DEF Quiet, Start, CheckBucket, Succeed, ReadFailure, SelectRow
<1>2. CASE \/ \E e \in Emails, ip \in Ips : Start(r, e, ip)
           \/ CheckBucket(r) \/ Succeed(r)
  <2>1. /\ req[r].pc \in {"idle", "check", "verify"}
        /\ req'[r].pc \in {"idle", "check", "discard", "verify", "clear"}
    <3>1. CASE \E e \in Emails, ip \in Ips : Start(r, e, ip)
      BY <3>1, IdlePc DEF Start, Turn
    <3>2. CASE CheckBucket(r)
      <4>1. req[r] \in Working
        BY <3>2, IdlePc, AtWork DEF CheckBucket, At
      <4> QED  BY <3>2, <4>1, IdlePc DEF CheckBucket, At, Turn, NextBucket,
                    Admitted, Working
    <3>3. CASE Succeed(r)
      BY <3>3 DEF Succeed, At, Turn
    <3> QED  BY <1>2, <3>1, <3>2, <3>3
  <2> QED  BY <1>1, <2>1 DEF Owed
<1>3. CASE ReadFailure(r)
  <2>1. /\ req'[r].keys = req[r].keys /\ req'[r].i = req[r].i
        /\ req'[r].pc \in {"renew", "select"} /\ req[r].pc = "record"
    BY <1>3, ReadStep DEF ReadFailure, At
  <2> QED  BY <1>1, <2>1 DEF Owed
<1>4. CASE SelectRow(r)
  <2>1. req[r] \in Working
    BY <1>4, IdlePc, AtWork DEF SelectRow, At
  <2>2. /\ req'[r].pc = "write" /\ req'[r].keys = req[r].keys
        /\ req'[r].i = req[r].i
    BY <1>4, <2>1 DEF SelectRow, Working
  <2> QED  BY <1>1, <1>4, <2>2 DEF SelectRow, At, Owed
<1> QED  BY <1>2, <1>3, <1>4 DEF Quiet

\* A deletion changes nothing that is owed either; the history of its bucket
\* begins again with what is under way.
LEMMA DeletesOwes ==
    ASSUME TypeOK, NEW r \in Requests, Deletes(r)
    PROVE  /\ Key(r) \in Buckets
           /\ Owed(r)' = Owed(r)
           /\ bucket'[Key(r)] = None /\ missed'[Key(r)] = 0
           /\ since'[Key(r)] = Cardinality(Owing(Key(r)))
           /\ \A c \in Buckets : c # Key(r) =>
                /\ bucket'[c] = bucket[c] /\ missed'[c] = missed[c]
                /\ since'[c] = since[c]
           /\ during' = during
<1>1. req[r] # Idle /\ req[r].pc \in {"discard", "clear", "renew"}
  BY IdlePc DEF Deletes, DiscardChecked, ClearBucket, DiscardRecorded, At
<1>2. req[r] \in Working /\ Key(r) \in Buckets
  BY <1>1, AtWork
<1>3. PICK state : Delete(r, state)
  BY DEF Deletes, DiscardChecked, ClearBucket, DiscardRecorded
<1>4. Owed(r)' = Owed(r)
  <2>1. CASE DiscardRecorded(r)
    <3>1. req'[r] = [req[r] EXCEPT !.pc = "select"] /\ req[r].pc = "renew"
      BY <2>1 DEF DiscardRecorded, Delete, At
    <3> QED  BY <1>2, <3>1 DEF Owed, Working
  <2>2. CASE DiscardChecked(r) \/ ClearBucket(r)
    <3>1. req'[r].pc \in {"check", "verify", "clear", "idle"}
      BY <1>2, <2>2, IdlePc DEF DiscardChecked, ClearBucket, Delete, NextBucket,
           Turn, Admitted, Working
    <3>2. req[r].pc \in {"discard", "clear"}
      BY <2>2 DEF DiscardChecked, ClearBucket, At
    <3> QED  BY <3>1, <3>2 DEF Owed
  <2> QED  BY <2>1, <2>2 DEF Deletes
<1> QED  BY <1>2, <1>3, <1>4 DEF Delete, TypeOK

\* What storing a failure does.
LEMMA WriteHistory ==
    ASSUME TypeOK, NEW r \in Requests, WriteRow(r)
    PROVE  /\ req[r] \in Working /\ Key(r) \in Buckets
           /\ missed'[Key(r)] = missed[Key(r)] + during[r]
           /\ \A c \in Buckets : c # Key(r) =>
                /\ bucket'[c] = bucket[c]
                /\ \/ missed'[c] = missed[c] + 1
                   \/ missed'[c] = missed[c] /\ (c \in Owed(r) => c \in Owed(r)')
           /\ since' = since
           /\ \A q \in Requests : q # r =>
                /\ req'[q] = req[q]
                /\ Holds(q, Key(r)) => during'[q] = during[q] + 1
                /\ ~Holds(q, Key(r)) => during'[q] = during[q]
           /\ req'[r].pc \in {"idle", "record"}
<1>1. req[r] \in Working /\ Key(r) \in Buckets /\ req[r].pc = "write"
  BY IdlePc, AtWork DEF WriteRow, At
<1>2. /\ \A c \in Buckets : c # Key(r) => bucket'[c] = bucket[c]
      /\ since' = since
      /\ \A q \in Requests : q # r => req'[q] = req[q]
      /\ req'[r].pc \in {"idle", "record"}
  BY IdlePc DEF WriteRow, Goto, NextBucket, Turn, TypeOK
<1>3. \A q \in Requests : q # r =>
        /\ Holds(q, Key(r)) => during'[q] = during[q] + 1
        /\ ~Holds(q, Key(r)) => during'[q] = during[q]
  BY DEF WriteRow
<1>4. missed'[Key(r)] = missed[Key(r)] + during[r]
  BY <1>1 DEF WriteRow
<1>5. ASSUME NEW c \in Buckets, c # Key(r), missed'[c] # missed[c] + 1
      PROVE  missed'[c] = missed[c] /\ (c \in Owed(r) => c \in Owed(r)')
  <2>1. missed'[c] = missed[c]
        /\ ~(LockedAt(req[r].mine, req[r].at) /\ c \in Owed(r))
    BY <1>5 DEF WriteRow
  <2>2. ASSUME c \in Owed(r)
        PROVE  c \in Owed(r)'
    <3>1. req'[r] = NextBucket(r, "record", Idle)
      BY <2>1, <2>2 DEF WriteRow, Goto, TypeOK
    <3>2. req[r].i \in 1..2 /\ \E j \in req[r].i..2 : c = req[r].keys[j]
      BY <1>1, <2>2 DEF Working, Owed
    <3>3. req[r].i = 1 /\ c = req[r].keys[2]
      BY <1>5, <3>2 DEF Key
    <3> QED  BY <3>1, <3>3 DEF NextBucket, Turn, Owed
  <2> QED  BY <2>1, <2>2
<1> QED  BY <1>1, <1>2, <1>3, <1>4, <1>5

\* What the request that takes a step holds is reckoned.
LEMMA OwnReckoned ==
    ASSUME TypeOK, HasMine, FailuresCount, Reckoned, NEW r \in Requests, Step(r)
    PROVE  Reckon(r)'
<1>1. CASE ReadFailure(r)
  <2>0. Key(r) \in Buckets
    BY <1>1, ReadStep
  <2> PICK b \in Buckets : b = Key(r)
    BY <2>0
  <2> DEFINE x == IF bucket[b] = None \/ Expired(bucket[b]) THEN NewBucket
                                                            ELSE bucket[b]
             pc == IF Expired(bucket[b]) THEN "renew" ELSE "select"
  <2>1. req[r] \in Working /\ b \in Buckets
    BY <1>1, ReadStep
  <2>2. x \in Bucket /\ bucket[b] \in Bucket \cup {None}
    BY <2>1, NewBucketType DEF TypeOK
  <2>3. req'[r] = [req[r] EXCEPT !.pc = pc, !.at = now, !.mine = Counted(x)]
    BY <1>1 DEF ReadFailure, Goto, TypeOK
  <2>4. UNCHANGED <<bucket, counts>> /\ Owed(r)' = Owed(r)
    BY <1>1, QuietOwes DEF Quiet
  <2>5. /\ req'[r].pc = pc /\ Key(r)' = b /\ req'[r].mine = Counted(x)
    <3>1. /\ req'[r].pc = pc /\ req'[r].keys = req[r].keys
          /\ req'[r].i = req[r].i /\ req'[r].mine = Counted(x)
      <4> HIDE DEF x, pc
      <4> QED  BY <2>1, <2>3 DEF Working
    <3> QED  BY <3>1 DEF Key
  <2>6. /\ Counted(x).count = x.count + 1
        /\ Counted(x).locked = IF x.count + 1 > Limit THEN now + Lock ELSE x.locked
    <3> HIDE DEF x
    <3> QED  BY <2>2 DEF Counted, Bucket
  <2>7. x.count \in Nat
    <3> HIDE DEF x
    <3> QED  BY <2>2 DEF Bucket
  <2>8. now + Lock # None
    BY ConstantsAssumption DEF TypeOK
  <2>9. pc = "select" => x.count = Count(b)
    <3>1. CASE bucket[b] = None
      BY <3>1 DEF Count, NewBucket
    <3>2. CASE bucket[b] # None /\ ~Expired(bucket[b])
      BY <3>2 DEF Count
    <3> QED  BY <3>1, <3>2
  <2>10. since[b] <= Count(b) + missed[b] + Cardinality(Owing(b))
    BY <2>1 DEF FailuresCount
  <2>11. /\ Cardinality(Owing(b)) \in Nat
         /\ Cardinality(Owing(b))' = Cardinality(Owing(b))
    BY <2>1, <2>4, OwingStep
  <2>12. since[b] \in Nat /\ missed[b] \in Nat /\ during[r] \in Nat
    BY <2>1 DEF TypeOK
  <2>13. Cardinality(Owing(Key(r)))' = Cardinality(Owing(b))
    BY <2>5, <2>11 DEF Owing
  <2>14. since' = since /\ missed' = missed /\ during' = during
    BY <2>4 DEF counts
  <2>15. pc \in {"renew", "select"}
    OBVIOUS
  <2> HIDE DEF x, pc
  <2>16. /\ Counted(x).count \in Nat \ {0}
         /\ Counted(x).count > Limit => Counted(x).locked # None
    BY <2>6, <2>7, <2>8
  <2>17. pc # "renew" =>
            since[b] + 1 <= Counted(x).count + missed[b] + during[r]
                                    + Cardinality(Owing(b))
    BY <2>6, <2>7, <2>9, <2>10, <2>11, <2>12, <2>15
  <2> QED  BY <2>5, <2>13, <2>14, <2>15, <2>16, <2>17 DEF Reckon
<1>2. CASE DiscardRecorded(r)
  <2>1. Deletes(r) /\ req[r].pc = "renew" /\ req[r] # Idle
    BY <1>2, IdlePc DEF Deletes, DiscardRecorded, At
  <2>2. req[r] \in Working /\ Key(r) \in Buckets
    BY <2>1, AtWork
  <2> PICK b \in Buckets : b = Key(r)
    BY <2>2
  <2>3. req'[r] = [req[r] EXCEPT !.pc = "select"]
    BY <1>2 DEF DiscardRecorded, Delete
  <2>4. /\ req'[r].pc = "select" /\ req'[r].mine = req[r].mine
        /\ Key(r)' = Key(r)
    BY <2>2, <2>3 DEF Working, Key
  <2>5. Reckon(r)
    BY DEF Reckoned
  <2>6. Cardinality(Owing(b))' = Cardinality(Owing(b))
    BY <2>1, DeletesOwes, OwingStep
  <2>7. /\ Cardinality(Owing(Key(r))) \in Nat /\ during'[r] \in Nat
        /\ since'[Key(r)] = Cardinality(Owing(Key(r))) /\ missed'[Key(r)] = 0
    BY <2>1, DeletesOwes, OwingType DEF TypeOK
  <2>8. since'[Key(r)] + 1 <= req[r].mine.count + missed'[Key(r)] + during'[r]
                                    + Cardinality(Owing(Key(r)))
    BY <2>1, <2>5, <2>7 DEF Reckon
  <2> QED  BY <2>1, <2>4, <2>5, <2>6, <2>8 DEF Reckon
<1>3. CASE SelectRow(r)
  <2>1. req[r] # Idle /\ req[r].pc = "select"
    BY <1>3, IdlePc DEF SelectRow, At
  <2>2. req[r] \in Working /\ Key(r) \in Buckets
    BY <2>1, AtWork
  <2>3. req'[r] = [req[r] EXCEPT !.pc = "write", !.seen = bucket[Key(r)]]
    BY <1>3 DEF SelectRow, Goto, TypeOK
  <2>4. /\ req'[r].pc = "write" /\ req'[r].mine = req[r].mine
        /\ req'[r].seen = bucket[Key(r)] /\ Key(r)' = Key(r)
    BY <2>2, <2>3 DEF Working, Key
  <2>5. Reckon(r)
    BY DEF Reckoned
  <2>6. UNCHANGED <<bucket, since, missed, during>> /\ Owed(r)' = Owed(r)
    BY <1>3, QuietOwes DEF Quiet, counts
  <2> PICK b \in Buckets : b = Key(r)
    BY <2>2
  <2>7. Cardinality(Owing(b))' = Cardinality(Owing(b))
    BY <2>6, OwingStep
  <2> QED  BY <2>1, <2>4, <2>5, <2>6, <2>7 DEF Reckon
<1>4. CASE ~ReadFailure(r) /\ ~DiscardRecorded(r) /\ ~SelectRow(r)
  <2>1. req'[r].pc \notin {"renew", "select", "write"}
    <3>1. CASE req[r].pc \in {"renew", "select"}
      <4>1. Fail(r)
        BY <1>4, <3>1, IdlePc
        DEF Step, Start, CheckBucket, DiscardChecked, Succeed, ClearBucket, Reject,
            WriteRow, At
      <4> QED  BY <4>1, IdlePc DEF Fail, Goto, TypeOK
    <3>2. CASE req[r].pc \notin {"renew", "select"}
      BY <1>4, <3>2, OwnStep, IdlePc
    <3> QED  BY <3>1, <3>2
  <2> QED  BY <2>1 DEF Reckon
<1> QED  BY <1>1, <1>2, <1>3, <1>4

\* How a step changes the reckoning of a bucket: what it lacks is no more
\* than before, or it is emptied, or a failure is stored.
LEMMA Balance ==
    ASSUME TypeOK, NEW r \in Requests, Step(r), NEW b \in Buckets
    PROVE  \/ /\ bucket'[b] = bucket[b] /\ missed[b] <= missed'[b]
              /\ since'[b] + missed[b] + Cardinality(Owing(b))
                    <= since[b] + missed'[b] + Cardinality(Owing(b))'
              /\ \A q \in Requests : q # r /\ Key(q) = b => during'[q] = during[q]
           \/ /\ Deletes(r) /\ b = Key(r)
              /\ bucket'[b] = None /\ missed'[b] = 0
              /\ since'[b] = Cardinality(Owing(b))'
              /\ during' = during
           \/ WriteRow(r) /\ b = Key(r)
<1> DEFINE D == Cardinality(Owing(b))
           N == Cardinality(Owing(b))'
<1>1. since[b] \in Nat /\ missed[b] \in Nat
  BY DEF TypeOK
<1>2. /\ D \in Nat /\ N \in Nat
      /\ D <= N + 1
      /\ (b \in Owed(r) => b \in Owed(r)') => D <= N
      /\ b \notin Owed(r) /\ b \in Owed(r)' => N = D + 1
      /\ (b \in Owed(r) <=> b \in Owed(r)') => N = D
  BY OwingStep
<1> HIDE DEF D, N
<1>3. CASE Quiet(r)
  <2>1. UNCHANGED <<bucket, since, missed, during>> /\ N = D
    BY <1>2, <1>3, QuietOwes DEF counts
  <2> QED  BY <1>1, <1>2, <2>1 DEF D, N
<1>4. CASE Deletes(r)
  <2>1. N = D
    BY <1>2, <1>4, DeletesOwes
  <2>2. CASE b = Key(r)
    BY <1>4, <2>1, <2>2, DeletesOwes DEF D, N
  <2>3. CASE b # Key(r)
    <3>1. /\ bucket'[b] = bucket[b] /\ missed'[b] = missed[b]
          /\ since'[b] = since[b] /\ during' = during
      BY <1>4, <2>3, DeletesOwes
    <3> QED  BY <1>1, <1>2, <2>1, <3>1 DEF D, N
  <2> QED  BY <2>2, <2>3
<1>5. CASE Reject(r)
  <2>1. req[r] \in Working /\ req[r].pc = "verify"
    BY <1>5, IdlePc, AtWork DEF Reject, At
  <2>2. /\ bucket' = bucket /\ missed' = missed /\ during' = during
        /\ req'[r] = Turn("record", req[r].keys, 1)
    BY <1>5 DEF Reject, Goto, TypeOK
  <2>3. b \notin Owed(r)
    BY <2>1 DEF Owed
  <2>4. b \in Owed(r)' <=> \E j \in 1..2 : req[r].keys[j] = b
    BY <2>2 DEF Owed, Turn
  <2>5. since'[b] = IF \E j \in 1..2 : req[r].keys[j] = b THEN since[b] + 1
                                                          ELSE since[b]
    BY <1>5 DEF Reject
  <2> QED  BY <1>1, <1>2, <2>2, <2>3, <2>4, <2>5 DEF D, N
<1>6. CASE WriteRow(r) /\ b # Key(r)
  <2>1. /\ bucket'[b] = bucket[b] /\ since' = since
        /\ \/ missed'[b] = missed[b] + 1
           \/ missed'[b] = missed[b] /\ (b \in Owed(r) => b \in Owed(r)')
        /\ \A q \in Requests : q # r /\ Key(q) = b => during'[q] = during[q]
    BY <1>6, WriteHistory DEF Holds
  <2> QED  BY <1>1, <1>2, <2>1 DEF D, N
<1>7. CASE WriteRow(r) /\ b = Key(r)
  BY <1>7
<1>8. CASE Fail(r)
  <2>1. /\ bucket' = bucket /\ since' = since
        /\ missed'[b] = IF b \in Owed(r) THEN missed[b] + 1 ELSE missed[b]
        /\ \A q \in Requests : q # r => during'[q] = during[q]
    BY <1>8 DEF Fail, TypeOK
  <2> QED  BY <1>1, <1>2, <2>1 DEF D, N
<1> QED
  BY <1>3, <1>4, <1>5, <1>6, <1>7, <1>8 DEF Step, Quiet, Deletes

\* What the others hold stays reckoned.
LEMMA OthersReckoned ==
    ASSUME TypeOK, HasMine, Reckoned, NEW r \in Requests, Step(r),
           NEW q \in Requests, q # r
    PROVE  Reckon(q)'
<1> SUFFICES ASSUME req'[q].pc \in {"renew", "select", "write"}
             PROVE  Reckon(q)'
  BY DEF Reckon
<1>1. req'[q].pc = req[q].pc
  BY OthersAlike
<1>2. req[q] # Idle /\ req[q] \in Working
  BY <1>1, IdlePc, AtWork
<1> PICK b \in Buckets : b = Key(q)
  BY <1>2, AtWork
<1> DEFINE mine == req[q].mine
           D == Cardinality(Owing(b))
           N == Cardinality(Owing(b))'
<1>3. Key(q)' = b /\ b \in Buckets /\ req'[q].mine = mine
  BY <1>2, OthersAlike, AtWork
<1>4. Reckon(q) /\ Holds(q, b)
  BY <1>1 DEF Reckoned, Holds
<1>5. /\ mine.count \in Nat \ {0}
      /\ mine.count > Limit => mine.locked # None
      /\ req[q].pc # "renew" =>
            since[b] + 1 <= mine.count + missed[b] + during[q] + D
      /\ req[q].pc = "write" /\ req[q].seen \notin {None, Gone} =>
            req[q].seen = bucket[b] \/ during[q] > 0
  BY <1>1, <1>4 DEF Reckon
<1>6. Cardinality(Owing(Key(q)))' = N
  BY <1>3 DEF Owing
<1>7. D \in Nat /\ N \in Nat /\ D <= N + 1
  BY <1>3, OwingStep
<1>8. /\ since[b] \in Nat /\ missed[b] \in Nat /\ during[q] \in Nat
      /\ since'[b] \in Nat /\ missed'[b] \in Nat /\ during'[q] \in Nat
  <2>1. CoreTypeOK'
    BY StepType
  <2> QED  BY <1>3, <2>1 DEF CoreTypeOK, TypeOK
<1> SUFFICES /\ req[q].pc # "renew" =>
                  since'[b] + 1 <= mine.count + missed'[b] + during'[q] + N
             /\ req[q].pc = "write" /\ req'[q].seen \notin {None, Gone} =>
                  req'[q].seen = bucket'[b] \/ during'[q] > 0
  <2> HIDE DEF N, mine
  <2> QED  BY <1>1, <1>3, <1>5, <1>6 DEF Reckon
<1>9. req'[q].seen \in {req[q].seen, Gone}
  BY <1>2, OthersKept DEF Working
<1> HIDE DEF D, N, mine
<1>10. CASE /\ bucket'[b] = bucket[b]
            /\ since'[b] + missed[b] + D <= since[b] + missed'[b] + N
            /\ during'[q] = during[q]
  BY <1>5, <1>7, <1>8, <1>9, <1>10
<1>11. CASE /\ Deletes(r) /\ b = Key(r)
            /\ missed'[b] = 0 /\ since'[b] = N
            /\ during' = during
  <2>1. req[q].pc = "write" => req'[q].seen \in {None, Gone}
    <3>1. PICK state : Delete(r, state)
      BY <1>11 DEF Deletes, DiscardChecked, ClearBucket, DiscardRecorded
    <3>2. CASE At(q, "write") /\ req[q].seen # None
      <4>1. req'[q] = [req[q] EXCEPT !.seen = Gone]
        BY <1>11, <3>1, <3>2 DEF Delete
      <4> QED  BY <1>2, <4>1 DEF Working
    <3>3. CASE At(q, "write") /\ req[q].seen = None
      BY <1>9, <3>3
    <3> QED  BY <3>2, <3>3 DEF At
  <2>2. since'[b] + 1 <= mine.count + missed'[b] + during'[q] + N
    <3>1. /\ since'[b] = N /\ missed'[b] = 0 /\ during'[q] \in Nat
          /\ mine.count \in Nat /\ mine.count >= 1 /\ N \in Nat
      BY <1>5, <1>7, <1>8, <1>11
    <3> QED  BY <3>1
  <2> QED  BY <2>1, <2>2
<1>12. CASE WriteRow(r) /\ b = Key(r)
  <2>1. /\ missed'[b] = missed[b] + during[r] /\ since' = since
        /\ during'[q] = during[q] + 1 /\ during[r] \in Nat
    BY <1>4, <1>12, WriteHistory DEF TypeOK
  <2> QED  BY <1>5, <1>7, <1>8, <2>1
<1> QED
  BY <1>10, <1>11, <1>12, Balance DEF D, N

\* The rows count what was stored.
LEMMA RowsCount ==
    ASSUME TypeOK, HasMine, FailuresCount, Reckoned, NEW r \in Requests, Step(r)
    PROVE  FailuresCount'
<1> SUFFICES ASSUME NEW b \in Buckets
             PROVE  /\ since'[b] <= Count(b)' + missed'[b] + Cardinality(Owing(b))'
                    /\ Count(b)' > Limit /\ missed'[b] = 0
                            => bucket'[b].locked # None
  BY DEF FailuresCount
<1> DEFINE D == Cardinality(Owing(b))
           N == Cardinality(Owing(b))'
           C == Count(b)
           E == Count(b)'
<1>1. D \in Nat /\ N \in Nat /\ D <= N + 1
  BY OwingStep
<1>2. /\ since[b] \in Nat /\ missed[b] \in Nat /\ C \in Nat
      /\ since'[b] \in Nat /\ missed'[b] \in Nat /\ E \in Nat
  <2>1. CoreTypeOK'
    BY StepType
  <2> QED  BY <2>1 DEF CoreTypeOK, TypeOK, Count, Bucket
<1>3. since[b] <= C + missed[b] + D /\ (C > Limit /\ missed[b] = 0
                                            => bucket[b].locked # None)
  BY DEF FailuresCount
<1>4. CASE /\ bucket'[b] = bucket[b] /\ missed[b] <= missed'[b]
           /\ since'[b] + missed[b] + D <= since[b] + missed'[b] + N
  <2>1. E = C
    BY <1>4 DEF Count
  <2> HIDE DEF D, N, C, E
  <2>2. since'[b] <= E + missed'[b] + N
    BY <1>1, <1>2, <1>3, <1>4, <2>1
  <2>3. E > Limit /\ missed'[b] = 0 => bucket'[b].locked # None
    BY <1>2, <1>3, <1>4, <2>1
  <2> QED  BY <2>2, <2>3 DEF N, E
<1>5. CASE bucket'[b] = None /\ missed'[b] = 0 /\ since'[b] = N
  <2>1. E = 0 /\ ~(E > Limit)
    BY <1>5, ConstantsAssumption DEF Count
  <2> HIDE DEF D, N, C, E
  <2>2. since'[b] <= E + missed'[b] + N
    BY <1>1, <1>5, <2>1
  <2> QED  BY <2>1, <2>2 DEF N, E
<1>6. CASE WriteRow(r) /\ b = Key(r)
  <2> DEFINE mine == req[r].mine
             seen == req[r].seen
  <2>1. /\ req[r] \in Working /\ req[r].pc = "write" /\ since' = since
        /\ missed'[b] = missed[b] + during[r] /\ during[r] \in Nat
    BY <1>6, WriteHistory DEF WriteRow, At, TypeOK
  <2>2. mine \in Bucket /\ mine # None
    BY <2>1 DEF HasMine, Working
  <2>3. /\ mine.count \in Nat
        /\ mine.count > Limit => mine.locked # None
        /\ since[b] + 1 <= mine.count + missed[b] + during[r] + D
        /\ seen \notin {None, Gone} => seen = bucket[b] \/ during[r] > 0
    BY <1>6, <2>1 DEF Reckoned, Reckon
  <2>4. \/ bucket'[b] = mine
        \/ /\ seen \notin {None, Gone} /\ bucket[b] # None
           /\ bucket'[b] = Updated(mine, seen, bucket[b])
    BY <1>6 DEF WriteRow, TypeOK
  <2>5. CASE bucket'[b] # None /\ bucket'[b].count = mine.count
             /\ bucket'[b].locked = mine.locked
    <3>1. E = mine.count
      BY <2>5 DEF Count
    <3> HIDE DEF D, N, C, E, mine
    <3>2. since'[b] <= E + missed'[b] + N
      BY <1>1, <1>2, <2>1, <2>3, <3>1
    <3> QED  BY <2>3, <2>5, <3>1, <3>2 DEF N, E
  <2>6. CASE bucket'[b] # None /\ during[r] > 0
             /\ bucket'[b].count \in {mine.count, C}
    <3>1. E \in {mine.count, C}
      BY <2>6 DEF Count
    <3> HIDE DEF D, N, C, E, mine
    <3>2. since'[b] <= E + missed'[b] + N
      BY <1>1, <1>2, <1>3, <2>1, <2>3, <2>6, <3>1
    <3>3. missed'[b] # 0
      BY <1>2, <2>1, <2>6
    <3> QED  BY <3>2, <3>3 DEF N, E
  <2>7. CASE bucket'[b] = mine
    BY <2>2, <2>5, <2>7
  <2>8. CASE /\ seen \notin {None, Gone} /\ bucket[b] # None
             /\ bucket'[b] = Updated(mine, seen, bucket[b])
    <3>1. bucket[b] \in Bucket /\ seen \in Bucket
      BY <2>1, <2>8 DEF TypeOK, Working
    <3>2. bucket'[b] \in Bucket /\ bucket'[b] # None
      BY <2>2, <2>8, <3>1, UpdatedType, ConstantsAssumption
    <3>3. CASE seen = bucket[b]
      <4>1. bucket'[b].count = mine.count /\ bucket'[b].locked = mine.locked
        BY <2>8, <3>3 DEF Updated, Column
      <4> QED  BY <2>5, <3>2, <4>1
    <3>4. CASE during[r] > 0
      <4>1. bucket'[b].count \in {mine.count, C}
        BY <2>8 DEF Updated, Column, Count
      <4> QED  BY <2>6, <3>2, <3>4, <4>1
    <3> QED  BY <2>3, <2>8, <3>3, <3>4
  <2> QED  BY <2>4, <2>7, <2>8
<1> QED
  BY <1>4, <1>5, <1>6, Balance

\* Counting goes on.
LEMMA CountingStep ==
    ASSUME TypeOK, HasMine, FailuresCount, Reckoned, [Next]_vars
    PROVE  FailuresCount' /\ Reckoned'
<1>1. ASSUME NEW r \in Requests, Step(r)
      PROVE  FailuresCount' /\ Reckoned'
  <2>1. FailuresCount'
    BY <1>1, RowsCount
  <2>2. \A q \in Requests : Reckon(q)'
    BY <1>1, OwnReckoned, OthersReckoned
  <2> QED  BY <2>1, <2>2 DEF Reckoned
<1>2. CASE Tick \/ UNCHANGED vars
  <2>1. UNCHANGED <<bucket, req, since, missed, during>>
    BY <1>2 DEF Tick, counts, vars
  <2> QED  BY <2>1 DEF FailuresCount, Reckoned, Reckon, Key, Count, Owing, Owed
<1> QED  BY <1>1, <1>2 DEF Next

-----------------------------------------------------------------------------
(* The theorems.                                                            *)

IInv == TypeOK /\ HasMine /\ Backed /\ PassedOpen

\* The inductive invariant holds in every reachable state.
THEOREM Inductive == Spec => []IInv
<1>1. Init => IInv
  BY IdlePc, ConstantsAssumption
  DEF Init, IInv, TypeOK, HasMine, Backed, Covered, PassedOpen
<1>2. IInv /\ [Next]_vars => IInv'
  BY NextType, HasMineStep, BackedStep, PassedOpenStep DEF IInv
<1> QED  BY <1>1, <1>2, PTL DEF Spec

\* Every variable keeps its type, for any number of requests and any limits.
THEOREM TypeCorrect == Spec => []TypeOK
<1>1. IInv => TypeOK
  BY DEF IInv
<1> QED  BY <1>1, Inductive, PTL

\* A bucket is locked only after more than failure_limit recorded failures,
\* however many attempts overlap.
THEOREM LocksEarned == Spec => []LockEarned
<1>1. IInv => LockEarned
  BY DEF IInv, Backed, Covered, LockEarned
<1> QED  BY <1>1, Inductive, PTL

\* A password is never tried while a bucket the check came to has been locked
\* since the attempt began.
THEOREM LockedRefused == Spec => []LockedIsRefused
<1>1. ASSUME IInv, NEW r \in Requests, At(r, "verify"), NEW j \in 1..req[r].i
      PROVE  req[r].keys[j] \notin shut[r]
  <2>1. req[r] \in Working
    BY <1>1, IdlePc, AtWork DEF IInv, At
  <2>2. req[r].i \in 1..2
    BY <2>1 DEF Working
  <2>3. j \in 1..2 /\ j <= req[r].i
    BY <2>2
  <2> QED  BY <1>1, <2>3 DEF IInv, PassedOpen, At
<1>2. IInv => LockedIsRefused
  BY <1>1 DEF LockedIsRefused
<1> QED  BY <1>2, Inductive, PTL

\* However many attempts overlap, what the row of a bucket lacks of the failed
\* attempts since it was empty is bounded by the failures stored between the
\* reading and the storing of another, cut short by an error, or withheld by
\* a lock of the email bucket; if it lacks none, the limit locks it.
THEOREM FailuresCounted == Spec => []FailuresCount
<1>1. Init => FailuresCount /\ Reckoned
  <2> SUFFICES ASSUME Init PROVE FailuresCount /\ Reckoned
    OBVIOUS
  <2>1. Reckoned
    BY IdlePc DEF Init, Reckoned, Reckon
  <2>2. ASSUME NEW b \in Buckets
        PROVE  /\ since[b] <= Count(b) + missed[b] + Cardinality(Owing(b))
               /\ ~(Count(b) > Limit)
    <3>1. since[b] = 0 /\ missed[b] = 0 /\ Count(b) = 0
      BY DEF Init, Count
    <3> QED  BY <3>1, OwingType, ConstantsAssumption
  <2> QED  BY <2>1, <2>2 DEF FailuresCount
<1>2. IInv => TypeOK /\ HasMine
  BY DEF IInv
<1>3. TypeOK /\ HasMine /\ FailuresCount /\ Reckoned /\ [Next]_vars
        => FailuresCount' /\ Reckoned'
  BY CountingStep
<1> QED  BY <1>1, <1>2, <1>3, Inductive, PTL DEF Spec

=============================================================================
