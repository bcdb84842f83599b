------------------------- MODULE AuditOutbox_proofs -------------------------
(***************************************************************************)
(* Proofs about AuditOutbox for every number of rows, batch limit, counter *)
(* width and number of interruptions.                                      *)
(*                                                                         *)
(* LogMatchesChanges says nothing of a row between its flush and the end   *)
(* of its transaction; ChangeInv follows the change and the row together   *)
(* from there on.                                                          *)
(*                                                                         *)
(* DeliveredIsLogged and DuplicatesAccounted are not inductive: between    *)
(* the two transactions of an item the audit log is ahead of the row.  The *)
(* strengthening says which row may be ahead: only the current one, only   *)
(* in the states "appended" and "failing", and by one copy.                *)
(***************************************************************************)
EXTENDS AuditOutbox, FiniteSetTheorems, WellFoundedInduction, TLAPS

\* A row is flushed after its change, by the same transaction, and both are
\* committed, rolled back or still open together.
ChangeInv ==
    \A i \in Ids :
        /\ row[i] = "unused" => change[i] \in {"none", "open"}
        /\ row[i] = "open" => change[i] = "open"
        /\ row[i] = "rolledback" => change[i] = "rolledback"
        /\ row[i] \in {"pending", "delivered"} => change[i] = "committed"

\* The rows of the pass are pending, except the current one once its
\* mark_delivered has committed without being acknowledged.
BatchInv ==
    \A i \in batch :
        \/ row[i] = "pending"
        \/ pc = "failing" /\ IsCurrent(i) /\ row[i] = "delivered"

LogInv ==
    /\ DeliveredIsLogged
    /\ \A i \in Ids : logged[i] > 0 => row[i] \in {"pending", "delivered"}
    /\ pc = "appended" => \A i \in batch : IsCurrent(i) => logged[i] > 0

\* The copies of event i that no counted failure or interruption explains.
Ahead(i) ==
    row[i] = "delivered" \/ (pc \in {"appended", "failing"} /\ IsCurrent(i))

CountInv ==
    \A i \in Ids :
        /\ logged[i] <= 1 + attempts[i] + interruptions
        /\ ~Ahead(i) => logged[i] <= attempts[i] + interruptions

IInv == TypeOK /\ ChangeInv /\ BatchInv /\ LogInv /\ CountInv

-----------------------------------------------------------------------------

\* The state of the code at start-up satisfies the inductive invariant.
LEMMA InitIInv == Init => IInv
  BY ConstantsAssumption
  DEF Init, IInv, TypeOK, ChangeInv, BatchInv, LogInv, CountInv, Ahead,
      IsCurrent, Ids, ChangeState, RowState, TaskState, DeliveredIsLogged

\* Every step keeps the variables in their types.
LEMMA TypeStep == TypeOK /\ [Next]_vars => TypeOK'
  <1> SUFFICES ASSUME TypeOK, [Next]_vars PROVE TypeOK'
    OBVIOUS
  <1> USE ConstantsAssumption DEF TypeOK, ChangeState, RowState, TaskState
  <1>1. ASSUME NEW i \in Ids, Operation(i) PROVE TypeOK'
    BY <1>1
    DEF Operation, Change, Enqueue, Commit, Rollback, Undone, RowUndone
  <1>2. ASSUME NEW i \in Ids, HandleItem(i) PROVE TypeOK'
    <2>1. CASE AppendEvent(i)
      BY <2>1 DEF AppendEvent, LogCopy
    <2>2. CASE AppendFails(i)
      BY <2>2 DEF AppendFails, LogCopy
    <2>3. CASE MarkDelivered(i)
      BY <2>3 DEF MarkDelivered, SetDelivered, NextItem
    <2>4. CASE MarkDeliveredFails(i)
      BY <2>4 DEF MarkDeliveredFails, SetDelivered
    <2>5. CASE MarkFailed(i)
      BY <2>5 DEF MarkFailed, SetFailed, NextItem
    <2>6. CASE AbandonPass(i)
      <3>1. attempts' \in [Ids -> 0..AttemptsMax]
            /\ lastError' \in [Ids -> BOOLEAN]
        <4>1. CASE SetFailed(i)
          BY <4>1 DEF SetFailed
        <4>2. CASE UNCHANGED <<attempts, lastError>>
          BY <4>2
        <4>3. QED
          BY <2>6, <4>1, <4>2 DEF AbandonPass
      <3>2. QED
        BY <2>6, <3>1 DEF AbandonPass
    <2>7. QED
      BY <1>2, <2>1, <2>2, <2>3, <2>4, <2>5, <2>6 DEF HandleItem
  <1>3. CASE StartPass
    BY <1>3 DEF StartPass, FirstPending, Pending
  <1>4. CASE Crash
    BY <1>4 DEF Crash, Undone, RowUndone
  <1>5. CASE Restart
    BY <1>5 DEF Restart
  <1>6. CASE UNCHANGED vars
    BY <1>6 DEF vars
  <1>7. QED
    BY <1>1, <1>2, <1>3, <1>4, <1>5, <1>6 DEF Next

\* There is at most one current row.
LEMMA CurrentIsUnique ==
    ASSUME TypeOK, NEW i \in Ids, NEW j \in Ids, IsCurrent(i), IsCurrent(j)
    PROVE  i = j
  BY DEF IsCurrent, Ids, TypeOK

\* Every step keeps the strengthening.
LEMMA StepIInv == IInv /\ [Next]_vars => IInv'
  <1> SUFFICES ASSUME IInv, [Next]_vars PROVE IInv'
    OBVIOUS
  <1>t. TypeOK' 
    BY TypeStep DEF IInv
  <1> USE ConstantsAssumption
      DEF IInv, BatchInv, LogInv, CountInv, DeliveredIsLogged, Ahead
  <1>1. ASSUME NEW i \in Ids, Operation(i) PROVE IInv'
    <2>1. ChangeInv'
      BY <1>1
      DEF Operation, Change, Enqueue, Draw, Commit, Rollback, Undone, RowUndone,
          TypeOK, ChangeInv
    <2>2. \A j \in Ids : row[j] \in {"pending", "delivered"} => row'[j] = row[j]
      BY <1>1
      DEF Operation, Change, Enqueue, Draw, Commit, Rollback, RowUndone, TypeOK
    <2>3. \A j \in Ids : row'[j] = "delivered" => row[j] = "delivered"
      BY <1>1
      DEF Operation, Change, Enqueue, Commit, Rollback, RowUndone, TypeOK
    <2>4. UNCHANGED <<attempts, lastError, logged, pc, batch, interruptions>>
      BY <1>1 DEF Operation, Change, Enqueue, Commit, Rollback
    <2>5. QED
      BY <2>1, <2>2, <2>3, <2>4, <1>t DEF TypeOK, IsCurrent
  <1>2. ASSUME NEW i \in Ids, HandleItem(i) PROVE IInv'
    <2>c. ChangeInv'
      <3>1. /\ UNCHANGED change
            /\ \/ UNCHANGED row
               \/ SetDelivered(i) /\ row[i] \in {"pending", "delivered"}
        BY <1>2
        DEF HandleItem, AppendEvent, AppendFails, MarkDelivered,
            MarkDeliveredFails, MarkFailed, AbandonPass, IsCurrent
      <3>2. QED
        BY <3>1 DEF SetDelivered, ChangeInv, TypeOK
    <2>1. CASE AppendEvent(i)
      BY <2>1, <2>c, <1>t, CurrentIsUnique
      DEF AppendEvent, LogCopy, TypeOK, IsCurrent
    <2>2. CASE AppendFails(i)
      BY <2>2, <2>c, <1>t, CurrentIsUnique
      DEF AppendFails, LogCopy, TypeOK, IsCurrent
    <2>3. CASE MarkDelivered(i)
      BY <2>3, <2>c, <1>t, CurrentIsUnique
      DEF MarkDelivered, SetDelivered, NextItem, TypeOK, IsCurrent
    <2>4. CASE MarkDeliveredFails(i)
      BY <2>4, <2>c, <1>t, CurrentIsUnique
      DEF MarkDeliveredFails, SetDelivered, TypeOK, IsCurrent
    <2>5. CASE MarkFailed(i)
      BY <2>5, <2>c, <1>t, CurrentIsUnique
      DEF MarkFailed, SetFailed, NextItem, TypeOK, IsCurrent
    <2>6. CASE AbandonPass(i)
      BY <2>6, <2>c, <1>t, CurrentIsUnique
      DEF AbandonPass, SetFailed, TypeOK, IsCurrent
    <2>7. QED
      BY <1>2, <2>1, <2>2, <2>3, <2>4, <2>5, <2>6 DEF HandleItem
  <1>3. CASE StartPass
    BY <1>3, <1>t
    DEF StartPass, FirstPending, Pending, TypeOK, ChangeInv, IsCurrent
  <1>4. CASE Crash
    BY <1>4, <1>t DEF Crash, Undone, RowUndone, TypeOK, ChangeInv, IsCurrent
  <1>5. CASE Restart
    BY <1>5, <1>t DEF Restart, TypeOK, ChangeInv, IsCurrent
  <1>6. CASE UNCHANGED vars
    BY <1>6, <1>t DEF vars, ChangeInv, IsCurrent
  <1>7. QED
    BY <1>1, <1>2, <1>3, <1>4, <1>5, <1>6 DEF Next

-----------------------------------------------------------------------------

\* The inductive invariant holds in every reachable state.
THEOREM Invariance == Spec => []IInv
  <1>1. QED
    BY InitIInv, StepIInv, PTL DEF Spec

\* Type correctness, for every number of rows and interruptions.
THEOREM TypeCorrect == Spec => []TypeOK
  <1>1. IInv => TypeOK
    BY DEF IInv
  <1>2. QED
    BY <1>1, Invariance, PTL

\* No event is lost: a row is settled only if its event is in the audit log.
THEOREM NothingLost == Spec => []DeliveredIsLogged
  <1>1. IInv => DeliveredIsLogged
    BY DEF IInv, LogInv
  <1>2. QED
    BY <1>1, Invariance, PTL

\* Every committed change is in the audit log or waits to be delivered, and
\* the log holds no event of a change that has not committed.
THEOREM LogAndChanges == Spec => []LogMatchesChanges
  <1>1. IInv => LogMatchesChanges
    BY DEF IInv, TypeOK, RowState, ChangeInv, LogInv, DeliveredIsLogged, LogMatchesChanges
  <1>2. QED
    BY <1>1, Invariance, PTL

\* Every duplicate in the audit log is explained by a counted failure or an
\* interruption.
THEOREM DuplicatesBounded == Spec => []DuplicatesAccounted
  <1>1. IInv => DuplicatesAccounted
    BY DEF IInv, CountInv, DuplicatesAccounted
  <1>2. QED
    BY <1>1, Invariance, PTL

\* A settled row is left alone by every later step of the dispatcher.
LEMMA SettledStep ==
    ASSUME IInv, [Next]_vars, NEW i \in Ids, row[i] = "delivered"
    PROVE  row'[i] = "delivered" /\ logged'[i] = logged[i]
  <1> USE DEF IInv, TypeOK
  <1>1. ASSUME NEW j \in Ids, Operation(j)
        PROVE  row'[i] = "delivered" /\ logged'[i] = logged[i]
    BY <1>1 DEF Operation, Change, Enqueue, Draw, Commit, Rollback, RowUndone
  <1>2. ASSUME NEW j \in Ids, HandleItem(j)
        PROVE  row'[i] = "delivered" /\ logged'[i] = logged[i]
    <2>1. pc = "item" /\ IsCurrent(j) => i # j
      BY DEF BatchInv, IsCurrent
    <2>2. CASE AppendEvent(j) \/ AppendFails(j)
      BY <2>1, <2>2 DEF AppendEvent, AppendFails, LogCopy
    <2>3. CASE MarkDelivered(j) \/ MarkDeliveredFails(j)
      BY <2>3 DEF MarkDelivered, MarkDeliveredFails, SetDelivered
    <2>4. CASE MarkFailed(j) \/ AbandonPass(j)
      BY <2>4 DEF MarkFailed, AbandonPass
    <2>5. QED
      BY <1>2, <2>2, <2>3, <2>4 DEF HandleItem
  <1>3. CASE StartPass \/ Crash \/ Restart \/ UNCHANGED vars
    BY <1>3 DEF StartPass, Crash, RowUndone, Restart, vars
  <1>4. QED
    BY <1>1, <1>2, <1>3 DEF Next

\* A settled row stays settled and its event is not logged again.
THEOREM SettledStays == Spec => SettledForGood
  <1>1. IInv /\ [Next]_vars =>
          [\A i \in Ids : row[i] = "delivered" =>
              row'[i] = "delivered" /\ logged'[i] = logged[i]]_vars
    BY SettledStep
  <1>2. QED
    BY <1>1, Invariance, PTL DEF Spec, SettledForGood

-----------------------------------------------------------------------------

\* Each step of the outbox is a step of AuditDelivery or leaves its view of
\* the state unchanged.
LEMMA StepSimulation ==
    IInv /\ [Next]_vars => [Delivery!Next]_Delivery!vars
  <1> SUFFICES ASSUME IInv, [Next]_vars
               PROVE  [Delivery!Next]_Delivery!vars
    OBVIOUS
  <1> USE DEF IInv, TypeOK, Published, Settled, Delivery!vars
  <1>1. ASSUME NEW i \in Ids, Operation(i)
        PROVE  [Delivery!Next]_Delivery!vars
    <2>1. CASE Commit(i)
      BY <2>1 DEF Commit, ChangeInv, Delivery!Next, Delivery!Publish
    <2>2. CASE Change(i) \/ Enqueue(i) \/ Rollback(i)
      BY <2>2
      DEF Change, Enqueue, Draw, Rollback, Undone, RowUndone, ChangeState, RowState
    <2>3. QED
      BY <1>1, <2>1, <2>2 DEF Operation
  <1>2. ASSUME NEW i \in Ids, HandleItem(i)
        PROVE  [Delivery!Next]_Delivery!vars
    <2>1. pc \in {"item", "appended"} /\ IsCurrent(i) =>
            row[i] = "pending" /\ change[i] = "committed"
      BY DEF BatchInv, ChangeInv, IsCurrent
    <2>2. ASSUME pc = "item", IsCurrent(i), LogCopy(i), UNCHANGED <<change, row>>
          PROVE  Delivery!Deliver(i)
      BY <2>1, <2>2 DEF LogCopy, Delivery!Deliver
    <2>3. ASSUME pc = "appended", IsCurrent(i), SetDelivered(i),
                 UNCHANGED <<change, logged>>
          PROVE  Delivery!Settle(i)
      <3>1. row[i] = "pending" /\ change[i] = "committed" /\ logged[i] > 0
        BY <2>1, <2>3 DEF LogInv, IsCurrent
      <3>2. Settled' = Settled \cup {i} /\ UNCHANGED Published
        BY <2>3, <3>1 DEF SetDelivered
      <3>3. QED
        BY <2>3, <3>1, <3>2 DEF Delivery!Settle
    <2>4. CASE AppendEvent(i) \/ AppendFails(i)
      BY <2>2, <2>4 DEF AppendEvent, AppendFails, Delivery!Next
    <2>5. CASE MarkDelivered(i) \/ MarkDeliveredFails(i)
      BY <2>3, <2>5 DEF MarkDelivered, MarkDeliveredFails, Delivery!Next
    <2>6. CASE MarkFailed(i) \/ AbandonPass(i)
      BY <2>6 DEF MarkFailed, AbandonPass
    <2>7. QED
      BY <1>2, <2>4, <2>5, <2>6 DEF HandleItem
  <1>3. CASE Crash
    BY <1>3 DEF Crash, Undone, RowUndone
  <1>4. CASE StartPass \/ Restart \/ UNCHANGED vars
    BY <1>4 DEF StartPass, Restart, vars
  <1>5. QED
    BY <1>1, <1>2, <1>3, <1>4 DEF Next

\* The outbox implements at-least-once delivery of committed events.
THEOREM Refinement == Spec => ImplementsDelivery
  <1>1. Init => Delivery!Init
    BY DEF Init, Delivery!Init, Published, Settled
  <1>2. QED
    BY <1>1, StepSimulation, Invariance, PTL
    DEF Spec, ImplementsDelivery, Delivery!Spec

-----------------------------------------------------------------------------
(* Progress of a pass.  That rows are settled is liveness and left to TLC; *)
(* what it rests on are two facts of safety: a pass is never stuck, and a   *)
(* row leaves it only settled or for a reason that is counted.              *)

InPass == pc \in {"item", "appended", "failing"}

\* Some row of the pass is the current one, and its failure can be recorded.
PassNotStuck ==
    InPass => \E i \in Ids : IsCurrent(i) /\ (pc = "failing" => FailureBudget(i))

\* A row leaves a pass when it is delivered, when a failed attempt of it has
\* been counted, or with the rest of the batch in an interruption.
PassAdvances ==
    [][\A i \in batch : i \notin batch' =>
            \/ row'[i] = "delivered"
            \/ attempts'[i] = attempts[i] + 1
            \/ interruptions' = interruptions + 1]_vars

PassInv ==
    /\ batch # {} <=> InPass
    /\ pc = "failing" => \A i \in batch : IsCurrent(i) => FailureBudget(i)

Before == {pair \in Nat \X Nat : pair[1] < pair[2]}

\* The oldest of some rows.
LEMMA OldestRow ==
    ASSUME NEW S \in SUBSET Ids, S # {}
    PROVE  \E i \in S : \A j \in S : i <= j
  <1>1. S \subseteq Nat
    BY DEF Ids
  <1>2. IsWellFoundedOn(Before, Nat)
    BY NatLessThanWellFounded DEF OpToRel, Before
  <1>3. PICK i \in S : \A j \in S : ~ (<<j, i>> \in Before)
    BY <1>1, <1>2, WFMin
  <1>4. ASSUME NEW j \in S PROVE i <= j
    <2>1. i \in Nat /\ j \in Nat /\ ~ (<<j, i>> \in Before)
      BY <1>1, <1>3
    <2>2. ~ (j < i)
      BY <2>1 DEF Before
    <2>3. QED
      BY <2>1, <2>2
  <1>5. QED
    BY <1>4

\* A pass that finds anything pending takes the oldest row, whatever the limit.
LEMMA BatchTakesOldest == Pending # {} => FirstPending # {}
  <1> SUFFICES ASSUME Pending # {} PROVE FirstPending # {}
    OBVIOUS
  <1>1. PICK i \in Pending : \A j \in Pending : i <= j
    BY OldestRow DEF Pending
  <1>2. {j \in Pending : j <= i} = {i}
    BY <1>1 DEF Pending, Ids
  <1>3. Cardinality({j \in Pending : j <= i}) <= Limit
    BY <1>2, FS_Singleton, ConstantsAssumption
  <1>4. QED
    BY <1>1, <1>3 DEF FirstPending

LEMMA PassStep == TypeOK /\ PassInv /\ [Next]_vars => PassInv'
  <1> SUFFICES ASSUME TypeOK, PassInv, [Next]_vars PROVE PassInv'
    OBVIOUS
  <1>1. ASSUME NEW i \in Ids, Operation(i) PROVE PassInv'
    BY <1>1 DEF Operation, Change, Enqueue, Commit, Rollback, PassInv, InPass, IsCurrent,
       FailureBudget
  <1>2. ASSUME NEW i \in Ids, AppendEvent(i) PROVE PassInv'
    BY <1>2 DEF AppendEvent, PassInv, InPass
  <1>3. ASSUME NEW i \in Ids, AppendFails(i) \/ MarkDeliveredFails(i) PROVE PassInv'
    <2>1. /\ IsCurrent(i) /\ FailureBudget(i) /\ InPass
          /\ UNCHANGED <<batch, attempts, interruptions>> /\ pc' = "failing"
      BY <1>3 DEF AppendFails, MarkDeliveredFails, InPass
    <2>2. \A j \in batch : IsCurrent(j) => j = i
      BY <2>1, CurrentIsUnique DEF TypeOK
    <2>3. QED
      BY <2>1, <2>2 DEF PassInv, InPass, IsCurrent, FailureBudget
  <1>4. ASSUME NEW i \in Ids, MarkDelivered(i) \/ MarkFailed(i) PROVE PassInv'
    <2>1. NextItem(i) /\ IsCurrent(i)
      BY <1>4 DEF MarkDelivered, MarkFailed
    <2>2. QED
      BY <2>1 DEF NextItem, IsCurrent, PassInv, InPass
  <1>5. CASE (\E i \in Ids : AbandonPass(i)) \/ Crash \/ Restart
    BY <1>5 DEF AbandonPass, Crash, Restart, PassInv, InPass
  <1>6. CASE StartPass
    <2>1. Pending = {} => FirstPending = {}
      BY DEF FirstPending
    <2>2. QED
      BY <1>6, <2>1, BatchTakesOldest DEF StartPass, PassInv, InPass
  <1>7. CASE UNCHANGED vars
    BY <1>7 DEF vars, PassInv, InPass, IsCurrent, FailureBudget
  <1>8. QED
    BY <1>1, <1>2, <1>3, <1>4, <1>5, <1>6, <1>7 DEF Next, HandleItem

LEMMA PassInvariance == Spec => []PassInv
  <1>1. Init => PassInv
    BY DEF Init, PassInv, InPass
  <1>2. QED
    BY <1>1, PassStep, TypeCorrect, PTL DEF Spec

\* A pass always has a next step, and the failure of an attempt can always be
\* recorded or the pass abandoned, for any batch limit and counter width.
THEOREM NeverStuck == Spec => []PassNotStuck
  <1>1. TypeOK /\ PassInv => PassNotStuck
    <2> SUFFICES ASSUME TypeOK, PassInv, InPass
                 PROVE  \E i \in Ids : IsCurrent(i) /\ (pc = "failing" => FailureBudget(i))
      BY DEF PassNotStuck
    <2>1. batch \in SUBSET Ids /\ batch # {}
      BY DEF TypeOK, PassInv
    <2>2. PICK i \in batch : \A j \in batch : i <= j
      BY <2>1, OldestRow
    <2>3. IsCurrent(i)
      BY <2>2 DEF IsCurrent
    <2>4. QED
      BY <2>1, <2>3 DEF PassInv
  <1>2. QED
    BY <1>1, TypeCorrect, PassInvariance, PTL

\* No row drops out of a pass: it is settled, its failure is counted, or the
\* whole pass is interrupted.
THEOREM PassesAdvance == Spec => PassAdvances
  <1>1. TypeOK /\ PassInv /\ [Next]_vars =>
          [\A i \in batch : i \notin batch' =>
                \/ row'[i] = "delivered"
                \/ attempts'[i] = attempts[i] + 1
                \/ interruptions' = interruptions + 1]_vars
    <2> SUFFICES ASSUME TypeOK, PassInv, Next, NEW i \in batch, i \notin batch'
                 PROVE  \/ row'[i] = "delivered"
                        \/ attempts'[i] = attempts[i] + 1
                        \/ interruptions' = interruptions + 1
      OBVIOUS
    <2>1. i \in Ids /\ pc \notin {"idle", "down"}
      BY DEF TypeOK, PassInv, InPass
    <2>2. ASSUME NEW j \in Ids, MarkDelivered(j) PROVE row'[i] = "delivered"
      <3>1. i = j
        BY <2>2 DEF MarkDelivered, NextItem
      <3>2. QED
        BY <2>1, <2>2, <3>1 DEF MarkDelivered, SetDelivered, TypeOK
    <2>3. ASSUME NEW j \in Ids, MarkFailed(j) PROVE attempts'[i] = attempts[i] + 1
      <3>1. i = j
        BY <2>3 DEF MarkFailed, NextItem
      <3>2. QED
        BY <2>1, <2>3, <3>1 DEF MarkFailed, SetFailed, TypeOK
    <2>4. QED
      BY <2>1, <2>2, <2>3 DEF Next, Operation, Change, Enqueue, Commit, Rollback, HandleItem,
         AppendEvent, AppendFails, MarkDeliveredFails, AbandonPass, StartPass, Crash, Restart
  <1>2. QED
    BY <1>1, TypeCorrect, PassInvariance, PTL DEF Spec, PassAdvances
=============================================================================
