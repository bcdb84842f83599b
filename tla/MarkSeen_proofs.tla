-------------------------- MODULE MarkSeen_proofs --------------------------
(***************************************************************************)
(* Proofs about ImapExecutor, and about MarkSeen which runs on it, for any *)
(* number of workers, permits, accounts, calls and crashes.                *)
(*                                                                         *)
(* Of the pool: a permit given back leaves no more than the limit because  *)
(* the set of running calls and the free permits are one account, so type  *)
(* correctness and conservation are one induction.  That the call that is  *)
(* waited for is the newest needs that calls are made in order (InOrder).  *)
(*                                                                         *)
(* Every step of MarkSeen is a step of ImapExecutor or leaves the pool     *)
(* alone, so what is proved of the pool holds here.  That an older mark    *)
(* shows only after an error rests on the order of calls: when a command   *)
(* is carried out late, after that of a newer call, its own request is not *)
(* the one being waited for (Waits, with OnlyNewestAwaited of the pool)    *)
(* and has not been taken for done (Confirmed), so it has been answered    *)
(* with an error or was lost.                                              *)
(***************************************************************************)
EXTENDS MarkSeen, FiniteSetTheorems, WellFoundedInduction, TLAPS

-----------------------------------------------------------------------------
(* The pool.                                                               *)

\* Calls are made one after the other.
InOrder == \A c, d \in Calls : c < d /\ job[d] # "unused" => job[c] # "unused"

IInv == TypeOK /\ PermitsConserved /\ InOrder /\ OnlyNewestAwaited

-----------------------------------------------------------------------------

LEMMA CallsFinite == IsFiniteSet(Calls) /\ Calls \subseteq Nat
<1>1. MaxCalls \in Nat
  BY ConstantsAssumption
<1>2. IsFiniteSet(1..MaxCalls)
  BY <1>1, FS_Interval
<1> QED  BY <1>1, <1>2 DEF Calls

\* The calls of an account that run are finitely many calls.
LEMMA RunningFinite ==
    ASSUME NEW a
    PROVE  /\ Running(a) = {c \in Calls : job[c] = "running" /\ account[c] = a}
           /\ IsFiniteSet(Running(a)) /\ Cardinality(Running(a)) \in Nat
<1>1. Running(a) = {c \in Calls : job[c] = "running" /\ account[c] = a}
  BY DEF Running, InState
<1>2. Running(a) \in SUBSET Calls
  BY <1>1
<1>3. IsFiniteSet(Running(a))
  BY <1>2, CallsFinite, FS_Subset
<1> QED  BY <1>1, <1>3, FS_CardinalityType

\* Who waits is somewhere in run().
LEMMA LoopFields ==
    ASSUME TypeOK
    PROVE  /\ loop # Free => loop.pc \in {"waiting", "expired"} /\ loop.call \in Calls
           /\ loop.pc \in {"waiting", "expired"} => loop # Free
  BY DEF TypeOK, Loop, Free

LEMMA InitIInv == Init => IInv
<1> SUFFICES ASSUME Init PROVE IInv
  OBVIOUS
<1>1. TypeOK
  BY ConstantsAssumption DEF Init, TypeOK, JobState, Loop
<1>2. PermitsConserved
  <2> SUFFICES ASSUME NEW a \in Accounts
               PROVE  permits[a] + Cardinality(Running(a)) = PerAccountLimit
    BY DEF PermitsConserved
  <2>1. Running(a) = {}
    BY RunningFinite DEF Init
  <2>2. permits[a] = PerAccountLimit
    BY DEF Init
  <2> QED  BY <2>1, <2>2, FS_EmptySet, ConstantsAssumption
<1>3. InOrder /\ OnlyNewestAwaited
  BY DEF Init, InOrder, OnlyNewestAwaited
<1> QED  BY <1>1, <1>2, <1>3 DEF IInv

\* Where no call starts or stops running, permits stay conserved.
LEMMA RunningSame ==
    ASSUME PermitsConserved, UNCHANGED <<account, permits>>,
           \A c \in Calls : job'[c] = "running" <=> job[c] = "running"
    PROVE  PermitsConserved'
<1> SUFFICES ASSUME NEW a \in Accounts
             PROVE  (permits[a] + Cardinality(Running(a)) = PerAccountLimit)'
  BY DEF PermitsConserved
<1>1. Running(a)' = {c \in Calls : job'[c] = "running" /\ account'[c] = a}
  BY DEF Running, InState
<1>2. Running(a)' = Running(a)
  BY <1>1, RunningFinite
<1> QED  BY <1>2 DEF PermitsConserved

LEMMA AcquirePermits ==
    ASSUME IInv, NEW c \in Calls, Acquire(c)
    PROVE  PermitsConserved' /\ permits' \in [Accounts -> 0..PerAccountLimit]
<1> DEFINE b == account[c]
<1>1. /\ job \in [Calls -> JobState] /\ b \in Accounts
      /\ permits \in [Accounts -> 0..PerAccountLimit] /\ PerAccountLimit \in Nat
  BY ConstantsAssumption DEF IInv, TypeOK
<1>2. /\ job[c] = "entered" /\ permits[b] > 0 /\ UNCHANGED account
      /\ permits' = [permits EXCEPT ![b] = @ - 1]
      /\ job' = [job EXCEPT ![c] = "running"]
  BY DEF Acquire, To
<1>3. permits[b] \in Nat /\ permits[b] - 1 \in 0..PerAccountLimit
  BY <1>1, <1>2
<1>4. permits' \in [Accounts -> 0..PerAccountLimit]
  BY <1>1, <1>2, <1>3
<1>5. ASSUME NEW a \in Accounts
      PROVE  (permits[a] + Cardinality(Running(a)) = PerAccountLimit)'
  <2>1. Running(a)' = {d \in Calls : job'[d] = "running" /\ account'[d] = a}
    BY DEF Running, InState
  <2>2. permits[a] + Cardinality(Running(a)) = PerAccountLimit
    BY DEF IInv, PermitsConserved
  <2>3. permits[a] \in Nat /\ Cardinality(Running(a)) \in Nat
    BY <1>1, RunningFinite
  <2>4. CASE a = b
    <3>1. Running(a)' = Running(a) \cup {c} /\ c \notin Running(a)
      BY <1>1, <1>2, <2>1, <2>4, RunningFinite
    <3>2. Cardinality(Running(a))' = Cardinality(Running(a)) + 1
      BY <3>1, RunningFinite, FS_AddElement
    <3>3. permits'[a] = permits[a] - 1
      BY <1>1, <1>2, <2>4
    <3> QED  BY <1>1, <2>2, <2>3, <3>2, <3>3
  <2>5. CASE a # b
    <3>1. Running(a)' = Running(a)
      BY <1>1, <1>2, <2>1, <2>5, RunningFinite
    <3>2. permits'[a] = permits[a]
      BY <1>1, <1>2, <2>5
    <3> QED  BY <2>2, <3>1, <3>2
  <2> QED  BY <2>4, <2>5
<1> QED  BY <1>4, <1>5 DEF PermitsConserved

LEMMA FinishPermits ==
    ASSUME IInv, NEW c \in Calls, Finish(c)
    PROVE  PermitsConserved' /\ permits' \in [Accounts -> 0..PerAccountLimit]
<1> DEFINE b == account[c]
<1>1. /\ job \in [Calls -> JobState] /\ b \in Accounts
      /\ permits \in [Accounts -> 0..PerAccountLimit] /\ PerAccountLimit \in Nat
  BY ConstantsAssumption DEF IInv, TypeOK
<1>2. /\ job[c] = "running" /\ UNCHANGED account
      /\ permits' = [permits EXCEPT ![b] = @ + 1]
      /\ job' = [job EXCEPT ![c] = "finished"]
  BY DEF Finish, To
<1>3. ASSUME NEW a \in Accounts
      PROVE  /\ (permits[a] + Cardinality(Running(a)) = PerAccountLimit)'
             /\ permits'[a] \in 0..PerAccountLimit
  <2>1. Running(a)' = {d \in Calls : job'[d] = "running" /\ account'[d] = a}
    BY DEF Running, InState
  <2>2. permits[a] + Cardinality(Running(a)) = PerAccountLimit
    BY DEF IInv, PermitsConserved
  <2>3. permits[a] \in Nat /\ Cardinality(Running(a)) \in Nat
    BY <1>1, RunningFinite
  <2>4. CASE a = b
    <3>1. Running(a)' = Running(a) \ {c} /\ c \in Running(a)
      BY <1>1, <1>2, <2>1, <2>4, RunningFinite
    <3>2. Cardinality(Running(a))' = Cardinality(Running(a)) - 1
      BY <3>1, RunningFinite, FS_RemoveElement
    <3>3. Cardinality(Running(a)) # 0
      BY <3>1, RunningFinite, FS_EmptySet
    <3>4. permits'[a] = permits[a] + 1
      BY <1>1, <1>2, <2>4
    <3> QED  BY <1>1, <2>2, <2>3, <3>2, <3>3, <3>4
  <2>5. CASE a # b
    <3>1. Running(a)' = Running(a)
      BY <1>1, <1>2, <2>1, <2>5, RunningFinite
    <3>2. permits'[a] = permits[a]
      BY <1>1, <1>2, <2>5
    <3> QED  BY <1>1, <2>2, <3>1, <3>2
  <2> QED  BY <2>4, <2>5
<1>4. permits' \in [Accounts -> 0..PerAccountLimit]
  <2>1. DOMAIN permits' = Accounts /\ permits' = [a \in Accounts |-> permits'[a]]
    BY <1>1, <1>2
  <2> QED  BY <1>3, <2>1
<1> QED  BY <1>3, <1>4 DEF PermitsConserved

\* A restart ends every call and frees every permit.
LEMMA RestartIInv == ASSUME IInv, Restart PROVE IInv'
<1>1. /\ permits' = [a \in Accounts |-> PerAccountLimit]
      /\ loop' = Free /\ UNCHANGED account
      /\ job' = [c \in Calls |->
            IF job[c] \in {"unused", "finished"} THEN job[c] ELSE "dropped"]
  BY DEF Restart
<1>2. TypeOK'
  BY <1>1, ConstantsAssumption DEF IInv, TypeOK, JobState, Loop
<1>3. PermitsConserved'
  <2> SUFFICES ASSUME NEW a \in Accounts
               PROVE  (permits[a] + Cardinality(Running(a)) = PerAccountLimit)'
    BY DEF PermitsConserved
  <2>1. Running(a)' = {c \in Calls : job'[c] = "running" /\ account'[c] = a}
    BY DEF Running, InState
  <2>2. Running(a)' = {}
    BY <1>1, <2>1
  <2>3. permits'[a] = PerAccountLimit
    BY <1>1
  <2> QED  BY <2>2, <2>3, FS_EmptySet, ConstantsAssumption
<1>4. InOrder' /\ OnlyNewestAwaited'
  BY <1>1 DEF IInv, InOrder, OnlyNewestAwaited
<1> QED  BY <1>2, <1>3, <1>4 DEF IInv

LEMMA SubmitIInv == ASSUME IInv, NEW c \in Calls, Submit(c) PROVE IInv'
<1>1. /\ job[c] = "unused" /\ job' = [job EXCEPT ![c] = "queued"]
      /\ loop' = [pc |-> "waiting", call |-> c]
      /\ UNCHANGED <<account, permits>>
      /\ \A d \in Calls : d < c => job[d] # "unused"
  BY DEF Submit, To
<1>2. /\ job \in [Calls -> JobState] /\ Calls \subseteq Nat
      /\ \A d \in Calls : d > c => job[d] = "unused"
  <2>1. Calls \subseteq Nat
    BY CallsFinite
  <2> QED  BY <1>1, <2>1 DEF IInv, InOrder, TypeOK
<1>3. TypeOK'
  BY <1>1 DEF IInv, TypeOK, JobState, Loop
<1>4. PermitsConserved'
  BY <1>1, <1>2, RunningSame DEF IInv
<1>5. InOrder'
  BY <1>1, <1>2 DEF IInv, InOrder
<1>6. OnlyNewestAwaited'
  BY <1>1, <1>2 DEF OnlyNewestAwaited
<1> QED  BY <1>3, <1>4, <1>5, <1>6 DEF IInv

LEMMA WorkIInv == ASSUME IInv, NEW c \in Calls, Work(c) PROVE IInv'
<1>1. job \in [Calls -> JobState] /\ UNCHANGED <<account, loop>>
  BY DEF Work, Take, Acquire, Finish, IInv, TypeOK
<1>2. \E s \in {"dropped", "entered", "running", "finished"} :
          /\ job' = [job EXCEPT ![c] = s]
          /\ job[c] # "unused"
          /\ s = "dropped" => job[c] = "cancelled"
  BY DEF Work, Take, Acquire, Finish, To, IsNext
<1>3. job' \in [Calls -> JobState]
  BY <1>1, <1>2 DEF JobState
<1>4. InOrder' /\ OnlyNewestAwaited'
  BY <1>1, <1>2 DEF IInv, InOrder, OnlyNewestAwaited
<1>5. CASE Take(c)
  <2>1. /\ UNCHANGED permits
        /\ \A d \in Calls : job'[d] = "running" <=> job[d] = "running"
    BY <1>1, <1>5 DEF Take, To, IsNext
  <2>2. PermitsConserved'
    BY <1>1, <2>1, RunningSame DEF IInv
  <2> QED  BY <1>1, <1>3, <1>4, <2>1, <2>2 DEF IInv, TypeOK
<1>6. CASE Acquire(c)
  BY <1>1, <1>3, <1>4, <1>6, AcquirePermits DEF IInv, TypeOK
<1>7. CASE Finish(c)
  BY <1>1, <1>3, <1>4, <1>7, FinishPermits DEF IInv, TypeOK
<1> QED  BY <1>5, <1>6, <1>7 DEF Work

LEMMA LoopIInv == ASSUME IInv, Return \/ Expire \/ Cancel PROVE IInv'
<1>1. TypeOK /\ UNCHANGED <<account, permits>> /\ loop # Free
  BY LoopFields DEF IInv, Return, Expire, Cancel
<1>2. loop.pc \in {"waiting", "expired"} /\ loop.call \in Calls
  BY <1>1, LoopFields
<1>3. CASE Return
  <2>1. UNCHANGED job /\ loop' = Free
    BY <1>3 DEF Return
  <2>2. PermitsConserved'
    BY <1>1, <2>1, RunningSame DEF IInv
  <2> QED  BY <1>1, <2>1, <2>2 DEF IInv, TypeOK, Loop, InOrder, OnlyNewestAwaited
<1>4. CASE Expire
  <2>1. UNCHANGED job /\ loop' = [loop EXCEPT !.pc = "expired"]
    BY <1>4 DEF Expire
  <2>2. loop' \in Loop /\ loop'.call = loop.call
    BY <1>1, <1>2, <2>1 DEF TypeOK, Loop, Free
  <2>3. PermitsConserved'
    BY <1>1, <2>1, RunningSame DEF IInv
  <2>4. OnlyNewestAwaited'
    BY <1>1, <2>1, <2>2 DEF IInv, OnlyNewestAwaited
  <2> QED  BY <1>1, <2>1, <2>2, <2>3, <2>4 DEF IInv, TypeOK, InOrder
<1>5. CASE Cancel
  <2>1. /\ loop' = Free
        /\ \/ UNCHANGED job
           \/ job[loop.call] = "queued" /\ job' = [job EXCEPT ![loop.call] = "cancelled"]
    BY <1>5 DEF Cancel, To
  <2>2. job \in [Calls -> JobState]
    BY <1>1 DEF TypeOK
  <2>3. job' \in [Calls -> JobState]
    BY <1>2, <2>1, <2>2 DEF JobState
  <2>4. \A d \in Calls : /\ job'[d] = "running" <=> job[d] = "running"
                         /\ job'[d] = "unused" <=> job[d] = "unused"
    BY <1>2, <2>1, <2>2
  <2>5. PermitsConserved'
    BY <1>1, <2>4, RunningSame DEF IInv
  <2> QED  BY <1>1, <2>1, <2>3, <2>4, <2>5 DEF IInv, TypeOK, Loop, InOrder, OnlyNewestAwaited
<1> QED  BY <1>3, <1>4, <1>5

LEMMA StepIInv == ASSUME IInv, [Next]_vars PROVE IInv'
<1>1. CASE UNCHANGED vars
  <2>1. PermitsConserved'
    BY <1>1, RunningSame DEF vars, IInv
  <2> QED  BY <1>1, <2>1 DEF vars, IInv, TypeOK, InOrder, OnlyNewestAwaited
<1>2. CASE Done
  BY <1>1, <1>2 DEF Done
<1> QED  BY <1>1, <1>2, SubmitIInv, WorkIInv, LoopIInv, RestartIInv DEF Next

LEMMA Invariance == Spec => []IInv
  BY InitIInv, StepIInv, PTL DEF Spec

\* The variables keep their types; no semaphore exceeds its bound.
THEOREM TypeCorrect == Spec => []TypeOK
<1>1. IInv => TypeOK
  BY DEF IInv
<1> QED  BY <1>1, Invariance, PTL

\* No account works on more connections than its limit, and no permit is lost
\* or released twice.
THEOREM PermitsKept == Spec => []PermitsConserved
<1>1. IInv => PermitsConserved
  BY DEF IInv
<1> QED  BY <1>1, Invariance, PTL

\* Who waits in run() waits for the newest call, which is not cancelled.
THEOREM NewestAwaited == Spec => []OnlyNewestAwaited
<1>1. IInv => OnlyNewestAwaited
  BY DEF IInv
<1> QED  BY <1>1, Invariance, PTL

-----------------------------------------------------------------------------
(* Progress of the pool.  That calls settle is liveness and left to TLC;   *)
(* what it rests on are two facts of safety: as long as a call is in the   *)
(* pool some worker can go on, and every step takes a call further.        *)

\* Some worker can take an item, enter its semaphore or end its work.
WorkerCanGoOn ==
    \E c \in Calls :
        \/ Cardinality(Busy) < MaxWorkers /\ IsNext(c)
        \/ job[c] = "entered" /\ permits[account[c]] > 0
        \/ job[c] = "running"

PoolNotStuck ==
    InState({"queued", "cancelled", "entered", "running"}) # {} => WorkerCanGoOn

\* How far a call has come.
Stage ==
    [unused |-> 0, queued |-> 1, cancelled |-> 2, entered |-> 2, running |-> 3,
     finished |-> 4, dropped |-> 4]

CallsAdvance ==
    [][\A c \in Calls : job'[c] # job[c] => Stage[job'[c]] > Stage[job[c]]]_vars

Before == {pair \in Nat \X Nat : pair[1] < pair[2]}

\* The oldest of some calls.
LEMMA OldestCall ==
    ASSUME NEW S \in SUBSET Calls, S # {}
    PROVE  \E c \in S : \A d \in S : c <= d
<1>1. S \subseteq Nat
  BY CallsFinite
<1>2. IsWellFoundedOn(Before, Nat)
  BY NatLessThanWellFounded DEF OpToRel, Before
<1>3. PICK c \in S : \A d \in S : ~ (<<d, c>> \in Before)
  BY <1>1, <1>2, WFMin
<1>4. ASSUME NEW d \in S PROVE c <= d
  <2>1. c \in Nat /\ d \in Nat /\ ~ (<<d, c>> \in Before)
    BY <1>1, <1>3
  <2>2. ~ (d < c)
    BY <2>1 DEF Before
  <2> QED  BY <2>1, <2>2
<1> QED  BY <1>4

LEMMA NotStuck == IInv => PoolNotStuck
<1> SUFFICES ASSUME IInv, InState({"queued", "cancelled", "entered", "running"}) # {}
             PROVE  WorkerCanGoOn
  BY DEF PoolNotStuck
<1>1. CASE \E c \in Calls : job[c] = "running"
  BY <1>1 DEF WorkerCanGoOn
<1>2. CASE /\ \A c \in Calls : job[c] # "running"
           /\ \E c \in Calls : job[c] = "entered"
  <2>1. PICK c \in Calls : job[c] = "entered"
    BY <1>2
  <2>2. Running(account[c]) = {}
    BY <1>2, RunningFinite
  <2>3. account[c] \in Accounts /\ permits[account[c]] \in Nat
    BY ConstantsAssumption DEF IInv, TypeOK
  <2>4. permits[account[c]] + Cardinality(Running(account[c])) = PerAccountLimit
    BY <2>3 DEF IInv, PermitsConserved
  <2>5. permits[account[c]] > 0
    BY <2>2, <2>3, <2>4, FS_EmptySet, ConstantsAssumption
  <2> QED  BY <2>1, <2>5 DEF WorkerCanGoOn
<1>3. CASE \A c \in Calls : job[c] \notin {"running", "entered"}
  <2> DEFINE waiting == InState({"queued", "cancelled"})
  <2>1. waiting \in SUBSET Calls /\ waiting # {}
    BY <1>3 DEF InState
  <2>2. PICK c \in waiting : \A d \in waiting : c <= d
    BY <2>1, OldestCall
  <2>3. c \in Calls /\ IsNext(c)
    BY <2>2 DEF InState, IsNext
  <2>4. Busy = {}
    BY <1>3 DEF Busy, InState
  <2>5. Cardinality(Busy) < MaxWorkers
    BY <2>4, FS_EmptySet, ConstantsAssumption
  <2> QED  BY <2>3, <2>5 DEF WorkerCanGoOn
<1> QED  BY <1>1, <1>2, <1>3

\* Workers that wait for a permit never keep out the calls that hold one, nor
\* abandoned and cancelled calls a call that is waited for: as long as a call
\* is in the pool, a worker can go on.
THEOREM NeverStuck == Spec => []PoolNotStuck
  BY NotStuck, Invariance, PTL

\* Every step of the pool, of the timer and of a restart takes the calls it
\* changes further, so a call changes at most four times.
THEOREM Advance == Spec => CallsAdvance
<1>1. ASSUME TypeOK, [Next]_vars
      PROVE  [\A c \in Calls : job'[c] # job[c] => Stage[job'[c]] > Stage[job[c]]]_vars
  <2> SUFFICES ASSUME Next, NEW c \in Calls, job'[c] # job[c]
               PROVE  Stage[job'[c]] > Stage[job[c]]
    BY <1>1
  <2>1. job \in [Calls -> JobState]
    BY <1>1 DEF TypeOK
  <2>2. CASE \E d \in Calls : Submit(d) \/ Work(d)
    <3>1. PICK d \in Calls : Submit(d) \/ Work(d)
      BY <2>2
    <3>2. \/ job[d] = "unused" /\ job' = [job EXCEPT ![d] = "queued"]
          \/ job[d] = "cancelled" /\ job' = [job EXCEPT ![d] = "dropped"]
          \/ job[d] = "queued" /\ job' = [job EXCEPT ![d] = "entered"]
          \/ job[d] = "entered" /\ job' = [job EXCEPT ![d] = "running"]
          \/ job[d] = "running" /\ job' = [job EXCEPT ![d] = "finished"]
      BY <3>1 DEF Submit, Work, Take, Acquire, Finish, To, IsNext
    <3>3. c = d
      BY <2>1, <3>2
    <3> QED  BY <2>1, <3>2, <3>3 DEF Stage
  <2>3. CASE Return \/ Expire \/ Done
    BY <2>3 DEF Return, Expire, Done, vars
  <2>4. CASE Cancel
    <3>1. job[loop.call] = "queued" /\ job' = [job EXCEPT ![loop.call] = "cancelled"]
      BY <2>4 DEF Cancel, To
    <3>2. c = loop.call
      BY <2>1, <3>1
    <3> QED  BY <2>1, <3>1, <3>2 DEF Stage
  <2>5. CASE Restart
    <3>1. job[c] \notin {"unused", "finished"} /\ job'[c] = "dropped"
      BY <2>5 DEF Restart
    <3>2. job[c] \in {"queued", "cancelled", "entered", "running"}
      BY <2>1, <3>1 DEF JobState
    <3> QED  BY <3>1, <3>2 DEF Stage
  <2> QED  BY <2>2, <2>3, <2>4, <2>5 DEF Next
<1> QED  BY <1>1, TypeCorrect, PTL DEF Spec, CallsAdvance

-----------------------------------------------------------------------------
(* Marking on the pool.                                                    *)

\* The request that waits is the one the event loop is blocked for.
Waits == \A c \in Calls : handler[c] = "calling" <=> loop # Free /\ loop.call = c

\* Requests, calls and commands begin in this order.
Begun ==
    \A c \in Calls :
        /\ handler[c] = "idle" <=> job[c] = "unused"
        /\ command[c] # "unsent" => job[c] # "unused"

\* What is taken for done has been done.
Confirmed ==
    \A c \in Calls :
        (\/ job[c] = "finished" /\ c \notin raised
         \/ handler[c] \in {"recording", "ok"}
         \/ c \in audited) => command[c] \in CarriedOut

\* A command only fails to have an effect where there is no message.
VoidIsGone == \A c \in Calls : command[c] = "void" => account[c] \in gone

AnsweredRecorded == \A c \in Calls : handler[c] = "ok" => c \in audited

ShownIsCall == \A c \in Calls : command[c] = "applied" => shown[account[c]] \in Calls

MarkIInv ==
    /\ IInv
    /\ MarkTypeOK
    /\ Waits
    /\ Begun
    /\ Confirmed
    /\ VoidIsGone
    /\ AnsweredRecorded
    /\ ShownIsCall
    /\ OlderMarkOnlyAfterError

-----------------------------------------------------------------------------
(* MarkSeen implements ImapExecutor.                                       *)

LEMMA StepImplements == ASSUME [MarkNext]_allVars PROVE [Next]_vars
<1>1. CASE \E c \in Calls : Call(c) \/ WorkEnds(c)
  BY <1>1 DEF Call, WorkEnds, Next, Work
<1>2. CASE \E c \in Calls : Send(c) \/ Apply(c) \/ Record(c) \/ RecordFails(c)
  BY <1>2 DEF Send, Apply, Record, RecordFails
<1>3. CASE PoolStep
  BY <1>3 DEF PoolStep, Next, Work
<1>4. CASE Resume \/ GiveUp \/ Crash \/ MarkDone
  BY <1>4 DEF Resume, GiveUp, Crash, MarkDone, Next
<1>5. CASE UNCHANGED allVars \/ \E a \in Accounts : Expunge(a)
  BY <1>5 DEF allVars, Expunge
<1> QED  BY <1>1, <1>2, <1>3, <1>4, <1>5 DEF MarkNext

\* The pool that serves the handlers is the pool of ImapExecutor.
THEOREM ImplementsExecutor == MarkSpec => Spec
<1>1. MarkInit => Init
  BY DEF MarkInit
<1> QED  BY <1>1, StepImplements, PTL DEF MarkSpec, Spec

-----------------------------------------------------------------------------
(* The invariant.                                                          *)

LEMMA MarkInitIInv == MarkInit => MarkIInv
<1> SUFFICES ASSUME MarkInit PROVE MarkIInv
  OBVIOUS
<1>1. Init /\ IInv
  BY InitIInv DEF MarkInit
<1>2. loop = Free /\ job = [c \in Calls |-> "unused"]
  BY <1>1 DEF Init
<1>3. MarkTypeOK
  BY <1>1, BoundsAssumption DEF MarkInit, MarkTypeOK, HandlerState, CommandState, IInv
<1> QED  BY <1>1, <1>2, <1>3 DEF MarkInit, MarkIInv, Waits, Begun, Confirmed,
           VoidIsGone, AnsweredRecorded, ShownIsCall, OlderMarkOnlyAfterError

\* The types that most steps need.
LEMMA MarkTypes ==
    ASSUME MarkIInv
    PROVE  /\ job \in [Calls -> JobState] /\ account \in [Calls -> Accounts]
           /\ handler \in [Calls -> HandlerState]
           /\ command \in [Calls -> CommandState]
           /\ shown \in [Accounts -> Calls \cup {0}]
           /\ raised \subseteq Calls /\ audited \subseteq Calls
           /\ gone \subseteq Accounts
           /\ Calls \subseteq Nat
  BY CallsFinite DEF MarkIInv, MarkTypeOK, TypeOK

LEMMA CallMark ==
    ASSUME MarkIInv, IInv', NEW c \in Calls, Call(c)
    PROVE  MarkIInv'
<1>1. /\ job[c] = "unused" /\ job' = [job EXCEPT ![c] = "queued"]
      /\ loop = Free /\ loop' = [pc |-> "waiting", call |-> c]
      /\ handler' = [handler EXCEPT ![c] = "calling"]
      /\ UNCHANGED <<account, command, shown, gone, raised, audited, crashes>>
  BY DEF Call, Submit, To, Becomes
<1>2. handler[c] = "idle"
  BY <1>1 DEF MarkIInv, Begun
<1>3. loop' # Free
  BY <1>1 DEF Free
<1>4. MarkTypeOK'
  BY <1>1, MarkTypes DEF MarkIInv, MarkTypeOK, IInv, HandlerState
<1>5. Waits' /\ Begun'
  BY <1>1, <1>3, MarkTypes DEF MarkIInv, Waits, Begun
<1>6. Confirmed' /\ VoidIsGone' /\ AnsweredRecorded' /\ ShownIsCall'
  BY <1>1, MarkTypes DEF MarkIInv, Confirmed, VoidIsGone, AnsweredRecorded, ShownIsCall
<1>7. OlderMarkOnlyAfterError'
  BY <1>1, <1>2, MarkTypes DEF MarkIInv, OlderMarkOnlyAfterError
<1> QED  BY <1>4, <1>5, <1>6, <1>7 DEF MarkIInv

LEMMA SendMark ==
    ASSUME MarkIInv, IInv', NEW c \in Calls, Send(c)
    PROVE  MarkIInv'
<1>1. /\ job[c] = "running" /\ command[c] = "unsent"
      /\ command' = [command EXCEPT ![c] = "sent"]
      /\ UNCHANGED <<job, account, loop, handler, shown, gone, raised, audited, crashes>>
  BY DEF Send, vars
<1>2. MarkTypeOK'
  BY <1>1, MarkTypes DEF MarkIInv, MarkTypeOK, IInv, CommandState
<1>3. Waits' /\ Begun' /\ AnsweredRecorded'
  BY <1>1, MarkTypes DEF MarkIInv, Waits, Begun, AnsweredRecorded
<1>4. \A d \in Calls : \A s \in CarriedOut : command'[d] = s <=> command[d] = s
  BY <1>1, MarkTypes DEF CarriedOut
<1>5. Confirmed' /\ VoidIsGone' /\ ShownIsCall' /\ OlderMarkOnlyAfterError'
  BY <1>1, <1>4
  DEF MarkIInv, Confirmed, VoidIsGone, ShownIsCall, OlderMarkOnlyAfterError, CarriedOut
<1> QED  BY <1>2, <1>3, <1>5 DEF MarkIInv

\* A command that is carried out after that of a newer call belongs to a
\* request that is over.
LEMMA LateApply ==
    ASSUME MarkIInv, NEW c \in Calls, NEW d \in Calls,
           command[c] = "sent", command[d] = "applied", c < d
    PROVE  handler[c] \in {"error", "lost"}
<1>1. job[c] # "unused" /\ job[d] # "unused"
  BY DEF MarkIInv, Begun
<1>2. handler[c] # "idle"
  BY <1>1 DEF MarkIInv, Begun
<1>3. handler[c] # "calling"
  <2> SUFFICES ASSUME handler[c] = "calling" PROVE FALSE
    OBVIOUS
  <2>1. loop # Free /\ loop.call = c
    BY DEF MarkIInv, Waits
  <2>2. job[d] = "unused"
    BY <2>1, MarkTypes DEF MarkIInv, IInv, OnlyNewestAwaited
  <2> QED  BY <1>1, <2>2
<1>4. handler[c] \notin {"recording", "ok"}
  BY DEF MarkIInv, Confirmed, CarriedOut
<1> QED  BY <1>2, <1>3, <1>4, MarkTypes DEF HandlerState

LEMMA AppliedMark ==
    ASSUME MarkIInv, IInv', NEW c \in Calls, Apply(c), account[c] \notin gone
    PROVE  MarkIInv'
<1> DEFINE a == account[c]
<1>1. /\ command[c] = "sent" /\ command' = [command EXCEPT ![c] = "applied"]
      /\ shown' = [shown EXCEPT ![a] = c] /\ a \in Accounts
      /\ UNCHANGED <<job, account, loop, handler, gone, raised, audited, crashes>>
  BY MarkTypes DEF Apply, vars
<1>2. MarkTypeOK'
  BY <1>1, MarkTypes DEF MarkIInv, MarkTypeOK, IInv, CommandState
<1>3. Waits' /\ Begun' /\ AnsweredRecorded'
  BY <1>1, MarkTypes DEF MarkIInv, Waits, Begun, AnsweredRecorded
<1>4. \A d \in Calls \ {c} : command'[d] = command[d]
  BY <1>1, MarkTypes
<1>5. command'[c] = "applied"
  BY <1>1, MarkTypes
<1>6. Confirmed' /\ VoidIsGone'
  BY <1>1, <1>4, <1>5 DEF MarkIInv, Confirmed, VoidIsGone, CarriedOut
<1>7. /\ shown'[a] = c
      /\ \A b \in Accounts \ {a} : shown'[b] = shown[b]
  BY <1>1, MarkTypes
<1>8. ShownIsCall'
  BY <1>1, <1>4, <1>5, <1>7, MarkTypes DEF MarkIInv, ShownIsCall
<1>9. ASSUME NEW d \in Calls, command'[d] = "applied", shown'[account[d]] < d
      PROVE  handler[shown'[account[d]]] \in {"error", "lost"}
  <2>1. CASE account[d] = a
    <3>1. c < d
      BY <1>7, <1>9, <2>1
    <3>2. command[d] = "applied"
      BY <1>4, <1>9, <3>1, MarkTypes
    <3> QED  BY <1>1, <1>7, <2>1, <3>1, <3>2, LateApply
  <2>2. CASE account[d] # a
    <3>1. account[d] \in Accounts /\ d # c
      BY <2>2, MarkTypes
    <3>2. shown'[account[d]] = shown[account[d]] /\ command[d] = "applied"
      BY <1>4, <1>7, <1>9, <2>2, <3>1
    <3> QED  BY <1>9, <3>2 DEF MarkIInv, OlderMarkOnlyAfterError
  <2> QED  BY <2>1, <2>2
<1>10. OlderMarkOnlyAfterError'
  BY <1>1, <1>9 DEF OlderMarkOnlyAfterError
<1> QED  BY <1>2, <1>3, <1>6, <1>8, <1>10 DEF MarkIInv

\* A command that meets no message changes nothing but its own state.
LEMMA VoidMark ==
    ASSUME MarkIInv, IInv', NEW c \in Calls, Apply(c), account[c] \in gone
    PROVE  MarkIInv'
<1>1. /\ command[c] = "sent" /\ command' = [command EXCEPT ![c] = "void"]
      /\ UNCHANGED <<job, account, loop, handler, shown, gone, raised, audited, crashes>>
  BY DEF Apply, vars
<1>2. MarkTypeOK'
  BY <1>1, MarkTypes DEF MarkIInv, MarkTypeOK, IInv, CommandState
<1>3. Waits' /\ Begun' /\ AnsweredRecorded'
  BY <1>1, MarkTypes DEF MarkIInv, Waits, Begun, AnsweredRecorded
<1>4. /\ command'[c] = "void"
      /\ \A d \in Calls \ {c} : command'[d] = command[d]
  BY <1>1, MarkTypes
<1>5. Confirmed' /\ VoidIsGone'
  BY <1>1, <1>4 DEF MarkIInv, Confirmed, VoidIsGone, CarriedOut
<1>6. ShownIsCall' /\ OlderMarkOnlyAfterError'
  BY <1>1, <1>4 DEF MarkIInv, ShownIsCall, OlderMarkOnlyAfterError
<1> QED  BY <1>2, <1>3, <1>5, <1>6 DEF MarkIInv

LEMMA ExpungeMark ==
    ASSUME MarkIInv, IInv', NEW a \in Accounts, Expunge(a)
    PROVE  MarkIInv'
<1>1. /\ gone' = gone \cup {a}
      /\ UNCHANGED <<job, account, loop, handler, command, shown, raised, audited, crashes>>
  BY DEF Expunge, vars
<1>2. MarkTypeOK'
  BY <1>1 DEF MarkIInv, MarkTypeOK, IInv
<1>3. Waits' /\ Begun' /\ Confirmed' /\ VoidIsGone'
  BY <1>1 DEF MarkIInv, Waits, Begun, Confirmed, VoidIsGone
<1>4. AnsweredRecorded' /\ ShownIsCall' /\ OlderMarkOnlyAfterError'
  BY <1>1 DEF MarkIInv, AnsweredRecorded, ShownIsCall, OlderMarkOnlyAfterError
<1> QED  BY <1>2, <1>3, <1>4 DEF MarkIInv

\* A step of the pool that no request notices.
LEMMA QuietMark ==
    ASSUME MarkIInv, IInv', UNCHANGED markVars, UNCHANGED account,
           \A c \in Calls : job'[c] = "unused" <=> job[c] = "unused",
           \A c \in Calls : job'[c] = "finished" => job[c] = "finished",
           \A c \in Calls : (loop' # Free /\ loop'.call = c) <=>
                                (loop # Free /\ loop.call = c)
    PROVE  MarkIInv'
<1>1. UNCHANGED <<handler, command, shown, gone, raised, audited, crashes>>
  BY DEF markVars
<1>2. MarkTypeOK'
  BY <1>1 DEF MarkIInv, MarkTypeOK, IInv
<1>3. Waits' /\ Begun' /\ Confirmed' /\ VoidIsGone'
  BY <1>1 DEF MarkIInv, Waits, Begun, Confirmed, VoidIsGone
<1>4. AnsweredRecorded' /\ ShownIsCall' /\ OlderMarkOnlyAfterError'
  BY <1>1 DEF MarkIInv, AnsweredRecorded, ShownIsCall, OlderMarkOnlyAfterError
<1> QED  BY <1>2, <1>3, <1>4 DEF MarkIInv

LEMMA PoolStepMark == ASSUME MarkIInv, IInv', PoolStep PROVE MarkIInv'
<1>1. UNCHANGED markVars /\ TypeOK
  BY DEF PoolStep, MarkIInv, IInv
<1>2. CASE Expire
  <2>1. UNCHANGED <<job, account>> /\ loop' = [loop EXCEPT !.pc = "expired"]
        /\ loop # Free
    BY <1>1, <1>2, LoopFields DEF Expire
  <2>2. loop' # Free /\ loop'.call = loop.call
    BY <1>1, <2>1 DEF TypeOK, Loop, Free
  <2> QED  BY <1>1, <2>1, <2>2, QuietMark
<1>3. ASSUME NEW c \in Calls, Take(c) \/ Acquire(c) PROVE MarkIInv'
  <2>1. UNCHANGED <<account, loop>>
    BY <1>3 DEF Take, Acquire
  <2>2. PICK s \in {"dropped", "entered", "running"} :
            job' = [job EXCEPT ![c] = s] /\ job[c] # "unused"
    BY <1>3 DEF Take, Acquire, To, IsNext
  <2>3. \A d \in Calls : /\ job'[d] = "unused" <=> job[d] = "unused"
                         /\ job'[d] = "finished" => job[d] = "finished"
    BY <2>2, MarkTypes
  <2> QED  BY <1>1, <2>1, <2>3, QuietMark
<1> QED  BY <1>2, <1>3 DEF PoolStep

LEMMA WorkEndsMark ==
    ASSUME MarkIInv, IInv', NEW c \in Calls, WorkEnds(c)
    PROVE  MarkIInv'
<1>1. /\ job[c] = "running" /\ job' = [job EXCEPT ![c] = "finished"]
      /\ \/ command[c] \in CarriedOut /\ UNCHANGED raised
         \/ raised' = raised \cup {c}
      /\ UNCHANGED <<account, loop, handler, command, shown, gone, audited, crashes>>
  BY DEF WorkEnds, Finish, To
<1>2. MarkTypeOK'
  BY <1>1, MarkTypes DEF MarkIInv, MarkTypeOK, IInv, CommandState
<1>3. Waits' /\ Begun'
  BY <1>1, MarkTypes DEF MarkIInv, Waits, Begun
<1>4. Confirmed' /\ VoidIsGone'
  BY <1>1, MarkTypes DEF MarkIInv, Confirmed, VoidIsGone
<1>5. AnsweredRecorded' /\ ShownIsCall' /\ OlderMarkOnlyAfterError'
  BY <1>1 DEF MarkIInv, AnsweredRecorded, ShownIsCall, OlderMarkOnlyAfterError
<1> QED  BY <1>2, <1>3, <1>4, <1>5 DEF MarkIInv

\* The event loop comes free, and the request that waited has its outcome.
LEMMA OutcomeMark ==
    ASSUME MarkIInv, IInv', NEW c \in Calls, loop # Free, loop.call = c,
           NEW s \in {"error", "recording"},
           handler' = [handler EXCEPT ![c] = s], loop' = Free,
           UNCHANGED <<account, command, shown, gone, raised, audited, crashes>>,
           \A d \in Calls : job'[d] = "unused" <=> job[d] = "unused",
           \A d \in Calls : job'[d] = "finished" => job[d] = "finished",
           s = "recording" => command[c] \in CarriedOut
    PROVE  MarkIInv'
<1>1. handler[c] = "calling"
  BY DEF MarkIInv, Waits
<1>2. job[c] # "unused"
  BY <1>1 DEF MarkIInv, Begun
<1>3. handler'[c] = s /\ \A d \in Calls \ {c} : handler'[d] = handler[d]
  BY MarkTypes
<1>4. MarkTypeOK'
  BY MarkTypes DEF MarkIInv, MarkTypeOK, IInv, HandlerState
<1>5. Waits'
  BY <1>3 DEF MarkIInv, Waits
<1>6. Begun'
  BY <1>2, <1>3 DEF MarkIInv, Begun
<1>7. Confirmed' /\ VoidIsGone' /\ AnsweredRecorded'
  BY <1>3 DEF MarkIInv, Confirmed, VoidIsGone, AnsweredRecorded
<1>8. ShownIsCall'
  BY DEF MarkIInv, ShownIsCall
<1>9. OlderMarkOnlyAfterError'
  BY <1>1, MarkTypes DEF MarkIInv, OlderMarkOnlyAfterError
<1> QED  BY <1>4, <1>5, <1>6, <1>7, <1>8, <1>9 DEF MarkIInv

LEMMA ResumeMark == ASSUME MarkIInv, IInv', Resume PROVE MarkIInv'
<1> DEFINE c == loop.call
<1>1. TypeOK /\ loop.pc = "waiting"
  BY DEF Resume, Return, MarkIInv, IInv
<1>2. loop # Free /\ c \in Calls
  BY <1>1, LoopFields
<1>3. /\ job[c] = "finished" /\ loop' = Free
      /\ handler' = [handler EXCEPT ![c] = IF c \in raised THEN "error" ELSE "recording"]
      /\ UNCHANGED <<job, account, command, shown, gone, raised, audited, crashes>>
  BY DEF Resume, Return, Becomes
<1>4. c \notin raised => command[c] \in CarriedOut
  BY <1>2, <1>3 DEF MarkIInv, Confirmed
<1> HIDE DEF c
<1>5. CASE c \in raised
  BY <1>2, <1>3, <1>5, OutcomeMark DEF c
<1>6. CASE c \notin raised
  BY <1>2, <1>3, <1>4, <1>6, OutcomeMark DEF c
<1> QED  BY <1>5, <1>6

LEMMA GiveUpMark == ASSUME MarkIInv, IInv', GiveUp PROVE MarkIInv'
<1> DEFINE c == loop.call
<1>1. TypeOK /\ loop.pc = "expired"
  BY DEF GiveUp, Cancel, MarkIInv, IInv
<1>2. loop # Free /\ c \in Calls
  BY <1>1, LoopFields
<1>3. /\ loop' = Free /\ handler' = [handler EXCEPT ![c] = "error"]
      /\ UNCHANGED <<account, command, shown, gone, raised, audited, crashes>>
      /\ \/ UNCHANGED job
         \/ job[c] = "queued" /\ job' = [job EXCEPT ![c] = "cancelled"]
  BY DEF GiveUp, Cancel, Becomes, To
<1>4. \A d \in Calls : /\ job'[d] = "unused" <=> job[d] = "unused"
                       /\ job'[d] = "finished" => job[d] = "finished"
  BY <1>2, <1>3, MarkTypes
<1> QED  BY <1>2, <1>3, <1>4, OutcomeMark

LEMMA RecordMark ==
    ASSUME MarkIInv, IInv', NEW c \in Calls, Record(c) \/ RecordFails(c)
    PROVE  MarkIInv'
<1>1. /\ handler[c] = "recording"
      /\ UNCHANGED <<job, account, loop, command, shown, gone, raised, crashes>>
      /\ \/ /\ handler' = [handler EXCEPT ![c] = "ok"]
            /\ audited' = audited \cup {c}
         \/ /\ handler' = [handler EXCEPT ![c] = "error"]
            /\ audited' \in {audited, audited \cup {c}}
  BY DEF Record, RecordFails, Becomes, vars
<1>2. command[c] \in CarriedOut
  BY <1>1 DEF MarkIInv, Confirmed
<1>3. MarkTypeOK'
  BY <1>1, MarkTypes DEF MarkIInv, MarkTypeOK, IInv, HandlerState
<1>4. Waits' /\ Begun'
  BY <1>1, MarkTypes DEF MarkIInv, Waits, Begun
<1>5. Confirmed' /\ VoidIsGone' /\ AnsweredRecorded' /\ ShownIsCall'
  BY <1>1, <1>2, MarkTypes DEF MarkIInv, Confirmed, VoidIsGone, AnsweredRecorded, ShownIsCall
<1>6. OlderMarkOnlyAfterError'
  <2> SUFFICES ASSUME NEW d \in Calls, command[d] = "applied", shown[account[d]] < d
               PROVE  handler'[shown[account[d]]] \in {"error", "lost"}
    BY <1>1 DEF OlderMarkOnlyAfterError
  <2>1. handler[shown[account[d]]] \in {"error", "lost"}
    BY DEF MarkIInv, OlderMarkOnlyAfterError
  <2>2. shown[account[d]] # c
    BY <1>1, <2>1
  <2>3. shown[account[d]] \in Calls
    BY DEF MarkIInv, ShownIsCall
  <2>4. handler'[shown[account[d]]] = handler[shown[account[d]]]
    <3>1. \A e \in Calls : e # c => handler'[e] = handler[e]
      BY <1>1, MarkTypes
    <3> QED  BY <2>2, <2>3, <3>1
  <2>5. shown' = shown /\ account' = account
    BY <1>1
  <2> QED  BY <2>1, <2>4, <2>5
<1> QED  BY <1>3, <1>4, <1>5, <1>6 DEF MarkIInv

LEMMA CrashMark == ASSUME MarkIInv, IInv', Crash PROVE MarkIInv'
<1>1. /\ loop' = Free
      /\ job' = [c \in Calls |->
            IF job[c] \in {"unused", "finished"} THEN job[c] ELSE "dropped"]
      /\ handler' = [c \in Calls |->
            IF handler[c] \in {"calling", "recording"} THEN "lost" ELSE handler[c]]
      /\ UNCHANGED <<account, command, shown, gone, raised, audited>>
      /\ crashes < MaxCrashes /\ crashes' = crashes + 1
  BY DEF Crash, Restart
<1>2. MarkTypeOK'
  <2>1. crashes' \in 0..MaxCrashes
    BY <1>1, BoundsAssumption DEF MarkIInv, MarkTypeOK
  <2> QED  BY <1>1, <2>1, MarkTypes DEF MarkIInv, MarkTypeOK, IInv, HandlerState
<1>3. Waits' /\ Begun'
  BY <1>1 DEF MarkIInv, Waits, Begun
<1>4. Confirmed' /\ VoidIsGone' /\ AnsweredRecorded' /\ ShownIsCall'
  BY <1>1 DEF MarkIInv, Confirmed, VoidIsGone, AnsweredRecorded, ShownIsCall
<1>5. OlderMarkOnlyAfterError'
  <2> SUFFICES ASSUME NEW c \in Calls, command[c] = "applied", shown[account[c]] < c
               PROVE  handler'[shown[account[c]]] \in {"error", "lost"}
    BY <1>1 DEF OlderMarkOnlyAfterError
  <2>1. handler[shown[account[c]]] \in {"error", "lost"}
    BY DEF MarkIInv, OlderMarkOnlyAfterError
  <2>2. shown[account[c]] \in Calls
    BY DEF MarkIInv, ShownIsCall
  <2> QED  BY <1>1, <2>1, <2>2
<1> QED  BY <1>2, <1>3, <1>4, <1>5 DEF MarkIInv

LEMMA MarkStepIInv == ASSUME MarkIInv, [MarkNext]_allVars PROVE MarkIInv'
<1>1. IInv'
  BY StepImplements, StepIInv DEF MarkIInv
<1>2. CASE UNCHANGED allVars
  <2>1. UNCHANGED markVars /\ UNCHANGED <<job, account, loop>>
    BY <1>2 DEF allVars, vars
  <2> QED  BY <1>1, <2>1, QuietMark
<1>3. CASE MarkDone
  BY <1>2, <1>3 DEF MarkDone, Done, allVars
<1> QED  BY <1>1, <1>2, <1>3, CallMark, SendMark, AppliedMark, VoidMark,
           ExpungeMark, WorkEndsMark,
           RecordMark, PoolStepMark, ResumeMark, GiveUpMark, CrashMark DEF MarkNext

LEMMA MarkInvariance == MarkSpec => []MarkIInv
  BY MarkInitIInv, MarkStepIInv, PTL DEF MarkSpec

-----------------------------------------------------------------------------
(* The theorems.                                                           *)

\* The variables keep their types.
THEOREM MarkTypeCorrect == MarkSpec => []MarkTypeOK
<1>1. MarkIInv => MarkTypeOK
  BY DEF MarkIInv
<1> QED  BY <1>1, MarkInvariance, PTL

\* Permits are conserved whatever the handler and the provider do, and across
\* restarts.
THEOREM PermitsKeptThroughout == MarkSpec => []PermitsConserved
  BY ImplementsExecutor, PermitsKept, PTL

\* Nothing is recorded or reported that the provider has not carried out; a
\* mark is only missing where the message was.
THEOREM NothingRecordedInVain == MarkSpec => []RecordedIsCarriedOut
<1>1. MarkIInv => RecordedIsCarriedOut
  <2> SUFFICES ASSUME MarkIInv PROVE RecordedIsCarriedOut
    OBVIOUS
  <2> QED
    BY MarkTypes
    DEF MarkIInv, Confirmed, VoidIsGone, AnsweredRecorded, CarriedOut, RecordedIsCarriedOut
<1> QED  BY <1>1, MarkInvariance, PTL

\* Only requests that were not told of success overtake newer ones.
THEOREM OvertakenByErrorsOnly == MarkSpec => []OlderMarkOnlyAfterError
<1>1. MarkIInv => OlderMarkOnlyAfterError
  BY DEF MarkIInv
<1> QED  BY <1>1, MarkInvariance, PTL

\* Progress of the pool under the handlers: a worker can go on as long as a
\* call is in the pool, and calls only advance.
THEOREM ProgressThroughout == MarkSpec => []PoolNotStuck /\ CallsAdvance
  BY ImplementsExecutor, NeverStuck, Advance, PTL

LEMMA OutlivedStep ==
    ASSUME MarkIInv, OnlyErrorsOutlived, [MarkNext]_allVars
    PROVE  OnlyErrorsOutlived'
<1>1. CASE UNCHANGED allVars \/ MarkDone
  BY <1>1 DEF MarkDone, Done, allVars, vars, markVars, OnlyErrorsOutlived
<1>2. CASE (\E c \in Calls : Send(c) \/ Apply(c)) \/ \E a \in Accounts : Expunge(a)
  BY <1>2 DEF Send, Apply, Expunge, vars, OnlyErrorsOutlived
<1>3. ASSUME NEW c \in Calls, Call(c) PROVE OnlyErrorsOutlived'
  <2>1. job' = [job EXCEPT ![c] = "queued"] /\ handler' = [handler EXCEPT ![c] = "calling"]
    BY <1>3 DEF Call, Submit, To, Becomes
  <2> QED  BY <2>1, MarkTypes DEF OnlyErrorsOutlived
<1>4. ASSUME NEW c \in Calls, Record(c) \/ RecordFails(c) PROVE OnlyErrorsOutlived'
  <2>1. /\ handler[c] = "recording" /\ UNCHANGED job
        /\ \E s \in {"ok", "error"} : handler' = [handler EXCEPT ![c] = s]
    BY <1>4 DEF Record, RecordFails, Becomes, vars
  <2> QED  BY <2>1, MarkTypes DEF OnlyErrorsOutlived
<1>5. ASSUME NEW c \in Calls, Take(c) \/ Acquire(c) \/ WorkEnds(c), UNCHANGED handler
      PROVE  OnlyErrorsOutlived'
  <2>1. \/ job[c] = "cancelled" /\ job' = [job EXCEPT ![c] = "dropped"]
        \/ job[c] = "queued" /\ job' = [job EXCEPT ![c] = "entered"]
        \/ job[c] = "entered" /\ job' = [job EXCEPT ![c] = "running"]
        \/ job[c] = "running" /\ job' = [job EXCEPT ![c] = "finished"]
    BY <1>5 DEF Take, Acquire, WorkEnds, Finish, To, IsNext
  <2> QED  BY <1>5, <2>1, MarkTypes DEF OnlyErrorsOutlived
<1>6. CASE PoolStep
  <2>1. UNCHANGED handler
    BY <1>6 DEF PoolStep, markVars
  <2>2. CASE Expire
    BY <2>1, <2>2 DEF Expire, OnlyErrorsOutlived
  <2> QED  BY <1>5, <1>6, <2>1, <2>2 DEF PoolStep
<1>7. CASE Resume \/ GiveUp
  <2> DEFINE d == loop.call
  <2>1. TypeOK /\ loop.pc \in {"waiting", "expired"}
    BY <1>7 DEF Resume, Return, GiveUp, Cancel, MarkIInv, IInv
  <2>2. d \in Calls
    BY <2>1, LoopFields
  <2>3. CASE Resume
    <3>1. /\ job[d] = "finished" /\ UNCHANGED job
          /\ \E s \in {"error", "recording"} : handler' = [handler EXCEPT ![d] = s]
      BY <2>3 DEF Resume, Return, Becomes
    <3> HIDE DEF d
    <3> QED  BY <2>2, <3>1, MarkTypes DEF OnlyErrorsOutlived
  <2>4. CASE GiveUp
    <3>1. /\ handler' = [handler EXCEPT ![d] = "error"]
          /\ \/ job[d] = "queued" /\ job' = [job EXCEPT ![d] = "cancelled"]
             \/ job[d] # "queued" /\ UNCHANGED job
      BY <2>4 DEF GiveUp, Cancel, Becomes, To
    <3> HIDE DEF d
    <3> QED  BY <2>2, <3>1, MarkTypes DEF OnlyErrorsOutlived
  <2> QED  BY <1>7, <2>3, <2>4
<1>8. CASE Crash
  BY <1>8, MarkTypes DEF Crash, Restart, JobState, OnlyErrorsOutlived
<1> QED  BY <1>1, <1>2, <1>3, <1>4, <1>5, <1>6, <1>7, <1>8 DEF MarkNext, WorkEnds

\* No worker acts for a client that was told of success.
THEOREM OnlyErrorsLeaveWork == MarkSpec => []OnlyErrorsOutlived
<1>1. MarkInit => OnlyErrorsOutlived
  BY DEF MarkInit, Init, OnlyErrorsOutlived
<1> QED  BY <1>1, OutlivedStep, MarkInvariance, PTL DEF MarkSpec

\* How far a request has come.
Progress ==
    [idle |-> 0, calling |-> 1, recording |-> 2, ok |-> 3, error |-> 3, lost |-> 3]

\* A request is answered once, and no step takes it back.
RequestsAdvance ==
    [][\A c \in Calls :
          handler'[c] # handler[c] => Progress[handler'[c]] > Progress[handler[c]]]_allVars

\* A request that is not answered yet is either being recorded or the one that
\* the event loop is blocked for (Waits), whose timer is enough to end it; so
\* with this EveryRequestAnswered only needs that the timer fires and that
\* transactions end, for any number of requests, workers and crashes.
THEOREM AnsweredOnce == MarkSpec => RequestsAdvance
<1>1. MarkIInv /\ [MarkNext]_allVars =>
        [\A c \in Calls :
            handler'[c] # handler[c] =>
                Progress[handler'[c]] > Progress[handler[c]]]_allVars
  <2> SUFFICES ASSUME MarkIInv, MarkNext, NEW c \in Calls, handler'[c] # handler[c]
               PROVE  Progress[handler'[c]] > Progress[handler[c]]
    OBVIOUS
  <2>1. ASSUME NEW d \in Calls, Call(d)
        PROVE  Progress[handler'[c]] > Progress[handler[c]]
    <3>1. handler[d] = "idle" /\ handler' = [handler EXCEPT ![d] = "calling"]
      BY <2>1 DEF Call, Submit, Becomes, MarkIInv, Begun
    <3>2. c = d /\ handler'[c] = "calling"
      BY <3>1, MarkTypes
    <3> QED  BY <3>1, <3>2 DEF Progress
  <2>2. ASSUME NEW d \in Calls, Record(d) \/ RecordFails(d)
        PROVE  Progress[handler'[c]] > Progress[handler[c]]
    <3>1. PICK s \in {"ok", "error"} : handler' = [handler EXCEPT ![d] = s]
      BY <2>2 DEF Record, RecordFails, Becomes
    <3>2. c = d /\ handler'[c] = s /\ handler[c] = "recording"
      BY <2>2, <3>1, MarkTypes DEF Record, RecordFails
    <3> QED  BY <3>2 DEF Progress
  <2>3. CASE Resume \/ GiveUp
    <3>1. TypeOK /\ loop.pc \in {"waiting", "expired"}
      BY <2>3 DEF Resume, Return, GiveUp, Cancel, MarkIInv, IInv
    <3>2. loop.call \in Calls /\ loop # Free
      BY <3>1, LoopFields DEF Free
    <3>3. handler[loop.call] = "calling"
      BY <3>2 DEF MarkIInv, Waits
    <3>4. PICK s \in {"error", "recording"} : handler' = [handler EXCEPT ![loop.call] = s]
      BY <2>3 DEF Resume, GiveUp, Becomes
    <3>5. c = loop.call /\ handler'[c] = s
      BY <3>2, <3>4, MarkTypes
    <3> QED  BY <3>3, <3>5 DEF Progress
  <2>4. CASE Crash
    <3>1. handler[c] \in {"calling", "recording"} /\ handler'[c] = "lost"
      BY <2>4 DEF Crash
    <3> QED  BY <3>1 DEF Progress
  <2> QED
    BY <2>1, <2>2, <2>3, <2>4 DEF MarkNext, Send, Apply, Expunge, WorkEnds, PoolStep, MarkDone,
       markVars
<1> QED  BY <1>1, MarkInvariance, PTL DEF MarkSpec, RequestsAdvance
=============================================================================
