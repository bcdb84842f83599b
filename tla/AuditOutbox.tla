---------------------------- MODULE AuditOutbox ----------------------------
(***************************************************************************)
(* The audit outbox: an operation of the account service changes its own   *)
(* rows and inserts an outbox row through one session; a background task   *)
(* of the process copies undelivered rows to the audit database, one pass  *)
(* a minute.                                                               *)
(*                                                                         *)
(*   src/postara/accounts.py       RepositoryAccountService                *)
(*   src/postara/repositories.py   AuditOutboxRepository, AuditRepository, *)
(*                                 dispatch_audit_outbox                   *)
(*   src/postara/api.py            audit_outbox_loop, lifespan             *)
(*                                                                         *)
(* A row is named by its primary key, and an operation by that of its row. *)
(* The change and the row are flushed one after the other; an exception or *)
(* a crash may come before, between or after.  The two databases commit    *)
(* separately, so one item takes two transactions and an error or a crash  *)
(* can fall between them.  A transaction that raises may still have        *)
(* committed (its acknowledgement was lost).                               *)
(***************************************************************************)
EXTENDS Naturals, FiniteSets

CONSTANTS
    MaxRows,            \* bound: rows ever inserted
    Limit,              \* list_pending's batch size (100 in the code)
    AttemptsMax,        \* largest delivery_attempts (SMALLINT: 32767)
    MaxInterruptions    \* bound: crashes and abandoned passes

ASSUME ConstantsAssumption ==
    /\ MaxRows \in Nat
    /\ Limit \in Nat \ {0}
    /\ AttemptsMax \in Nat
    /\ MaxInterruptions \in Nat

Ids == 1..MaxRows

VARIABLES
    change,         \* change[i]: the business change that row i tells of
    row,            \* row[i]: where row i of app.audit_outbox stands
    attempts,       \* its delivery_attempts
    lastError,      \* whether its last_error is set
    logged,         \* copies of event i in audit.events
    pc,             \* what the background task is doing
    batch,          \* rows of the current pass that are still to be handled
    interruptions   \* history: crashes and abandoned passes so far

vars == <<change, row, attempts, lastError, logged, pc, batch, interruptions>>

ChangeState == {"none", "open", "committed", "rolledback"}
RowState == {"unused", "open", "pending", "delivered", "rolledback"}

\* "item": about to append; "appended": about to mark delivered;
\* "failing": in the except clause; "idle": sleeping; "down": not running.
TaskState == {"idle", "item", "appended", "failing", "down"}

Pending == {i \in Ids : row[i] = "pending"}

\* list_pending: undelivered rows in primary-key order, at most Limit.
FirstPending ==
    {i \in Pending : Cardinality({j \in Pending : j <= i}) <= Limit}

\* The for loop takes the rows of its batch in order.
IsCurrent(i) == i \in batch /\ \A j \in batch : i <= j

\* Crashes and errors are unbounded in reality; this bound keeps the model
\* finite.
FailureBudget(i) ==
    attempts[i] < AttemptsMax \/ interruptions < MaxInterruptions

Init ==
    /\ change = [i \in Ids |-> "none"]
    /\ row = [i \in Ids |-> "unused"]
    /\ attempts = [i \in Ids |-> 0]
    /\ lastError = [i \in Ids |-> FALSE]
    /\ logged = [i \in Ids |-> 0]
    /\ pc = "idle"
    /\ batch = {}
    /\ interruptions = 0

----------------------------------------------------------------------------
(* The operations of the account service.                                  *)

\* The operation begins its transaction and flushes what it is about.
Change(i) ==
    /\ pc # "down"
    /\ change[i] = "none"
    /\ change' = [change EXCEPT ![i] = "open"]
    /\ UNCHANGED <<row, attempts, lastError, logged, pc, batch, interruptions>>

\* The flush of enqueue draws the next key.
Draw(i) == row[i] = "unused" /\ \A j \in Ids : j < i => row[j] # "unused"

\* Mutant: enqueue uses a session of its own, which commits at once.
EnqueueAtOnce(i) ==
    /\ change[i] = "open"
    /\ Draw(i)
    /\ row' = [row EXCEPT ![i] = "pending"]
    /\ UNCHANGED <<change, attempts, lastError, logged, pc, batch,
                   interruptions>>

\* enqueue adds the row to the operation's session; it is not visible yet.
Enqueue(i) ==
    /\ change[i] = "open"
    /\ Draw(i)
    /\ row' = [row EXCEPT ![i] = "open"]
    /\ UNCHANGED <<change, attempts, lastError, logged, pc, batch,
                   interruptions>>

\* The block of session.begin() ends after enqueue has returned.
Commit(i) ==
    /\ row[i] = "open"
    /\ change' = [change EXCEPT ![i] = "committed"]
    /\ row' = [row EXCEPT ![i] = "pending"]
    /\ UNCHANGED <<attempts, lastError, logged, pc, batch, interruptions>>

\* What a rollback makes of a change and a row.  A change that had drawn no
\* key leaves no trace; a key is not drawn twice.
Undone(i) ==
    IF change[i] # "open" THEN change[i]
    ELSE IF row[i] = "unused" THEN "none" ELSE "rolledback"
RowUndone(i) == IF row[i] = "open" THEN "rolledback" ELSE row[i]

\* An exception of the change, of enqueue or of the commit leaves the block.
Rollback(i) ==
    /\ change[i] = "open"
    /\ change' = [change EXCEPT ![i] = Undone(i)]
    /\ row' = [row EXCEPT ![i] = RowUndone(i)]
    /\ UNCHANGED <<attempts, lastError, logged, pc, batch, interruptions>>

----------------------------------------------------------------------------
(* The background task.                                                    *)

\* The pass's only read: later changes of these rows are not seen.  With
\* nothing to deliver the pass returns at once.
StartPass ==
    /\ pc = "idle"
    /\ batch' = FirstPending
    /\ pc' = IF Pending = {} THEN "idle" ELSE "item"
    /\ UNCHANGED <<change, row, attempts, lastError, logged, interruptions>>

\* The loop goes on to the next row, or the pass returns.
NextItem(i) ==
    /\ batch' = batch \ {i}
    /\ pc' = IF batch = {i} THEN "idle" ELSE "item"

LogCopy(i) == logged' = [logged EXCEPT ![i] = @ + 1]

AppendEvent(i) ==
    /\ pc = "item"
    /\ IsCurrent(i)
    /\ LogCopy(i)
    /\ pc' = "appended"
    /\ UNCHANGED <<change, row, attempts, lastError, batch, interruptions>>

\* Mutant: an error of the append is suppressed.
AppendFailsSilently(i) ==
    /\ pc = "item"
    /\ IsCurrent(i)
    /\ FailureBudget(i)
    /\ pc' = "appended"
    /\ UNCHANGED <<change, row, attempts, lastError, logged, batch, interruptions>>

AppendFails(i) ==
    /\ pc = "item"
    /\ IsCurrent(i)
    /\ FailureBudget(i)
    /\ LogCopy(i) \/ UNCHANGED logged
    /\ pc' = "failing"
    /\ UNCHANGED <<change, row, attempts, lastError, batch, interruptions>>

\* Mutant: the whole batch is marked when its first row is done.
SetBatchDelivered(i) ==
    /\ row' = [j \in Ids |-> IF j \in batch THEN "delivered" ELSE row[j]]
    /\ lastError' = [j \in Ids |-> IF j \in batch THEN FALSE ELSE lastError[j]]

\* mark_delivered: sets delivered_at and clears last_error.
SetDelivered(i) ==
    /\ row' = [row EXCEPT ![i] = "delivered"]
    /\ lastError' = [lastError EXCEPT ![i] = FALSE]

MarkDelivered(i) ==
    /\ pc = "appended"
    /\ IsCurrent(i)
    /\ SetDelivered(i)
    /\ NextItem(i)
    /\ UNCHANGED <<change, attempts, logged, interruptions>>

MarkDeliveredFails(i) ==
    /\ pc = "appended"
    /\ IsCurrent(i)
    /\ FailureBudget(i)
    /\ SetDelivered(i) \/ UNCHANGED <<row, lastError>>
    /\ pc' = "failing"
    /\ UNCHANGED <<change, attempts, logged, batch, interruptions>>

\* Mutant: the counter's range is not respected.
SetFailedUnbounded(i) ==
    /\ attempts' = [attempts EXCEPT ![i] = @ + 1]
    /\ lastError' = [lastError EXCEPT ![i] = TRUE]

\* Mutant: the failure is noted but not counted.
SetFailedUncounted(i) ==
    /\ lastError' = [lastError EXCEPT ![i] = TRUE]
    /\ UNCHANGED attempts

\* mark_failed: counts the attempt on the row, delivered or not.
SetFailed(i) ==
    /\ attempts[i] < AttemptsMax
    /\ attempts' = [attempts EXCEPT ![i] = @ + 1]
    /\ lastError' = [lastError EXCEPT ![i] = TRUE]

MarkFailed(i) ==
    /\ pc = "failing"
    /\ IsCurrent(i)
    /\ SetFailed(i)
    /\ NextItem(i)
    /\ UNCHANGED <<change, row, logged, interruptions>>

\* Mutant: the loop does not suppress the exception and its task ends.
AbandonLoop(i) ==
    /\ pc = "failing"
    /\ IsCurrent(i)
    /\ interruptions < MaxInterruptions
    /\ interruptions' = interruptions + 1
    /\ batch' = {}
    /\ UNCHANGED <<change, row, attempts, lastError, logged, pc>>

\* mark_failed raises (database error, or the counter is out of range): the
\* exception leaves dispatch_audit_outbox and the loop suppresses it, so the
\* rest of the batch waits for the next pass.
AbandonPass(i) ==
    /\ pc = "failing"
    /\ IsCurrent(i)
    /\ interruptions < MaxInterruptions
    /\ SetFailed(i) \/ UNCHANGED <<attempts, lastError>>
    /\ interruptions' = interruptions + 1
    /\ batch' = {}
    /\ pc' = "idle"
    /\ UNCHANGED <<change, row, logged>>

\* The process stops anywhere (lifespan cancels the task with
\* CancelledError, which the except clause does not catch).
Crash ==
    /\ pc # "down"
    /\ interruptions < MaxInterruptions
    /\ interruptions' = interruptions + 1
    /\ change' = [i \in Ids |-> Undone(i)]
    /\ row' = [i \in Ids |-> RowUndone(i)]
    /\ batch' = {}
    /\ pc' = "down"
    /\ UNCHANGED <<attempts, lastError, logged>>

Restart ==
    /\ pc = "down"
    /\ pc' = "idle"
    /\ UNCHANGED <<change, row, attempts, lastError, logged, batch, interruptions>>

----------------------------------------------------------------------------

Operation(i) == Change(i) \/ Enqueue(i) \/ Commit(i) \/ Rollback(i)

HandleItem(i) ==
    \/ AppendEvent(i)
    \/ AppendFails(i)
    \/ MarkDelivered(i)
    \/ MarkDeliveredFails(i)
    \/ MarkFailed(i)
    \/ AbandonPass(i)

Next ==
    \/ \E i \in Ids : Operation(i) \/ HandleItem(i)
    \/ StartPass
    \/ Crash
    \/ Restart

Spec == Init /\ [][Next]_vars

\* audit_outbox_loop runs for ever and an awaited statement returns or
\* raises; a supervisor restarts the process.  Nothing obliges clients to
\* call or transactions to end.
Fairness ==
    /\ WF_vars(StartPass)
    /\ WF_vars(\E i \in Ids : HandleItem(i))
    /\ WF_vars(Restart)

FairSpec == Spec /\ Fairness

----------------------------------------------------------------------------
(* Properties.                                                             *)

TypeOK ==
    /\ change \in [Ids -> ChangeState]
    /\ row \in [Ids -> RowState]
    /\ attempts \in [Ids -> 0..AttemptsMax]
    /\ lastError \in [Ids -> BOOLEAN]
    /\ logged \in [Ids -> Nat]
    /\ pc \in TaskState
    /\ batch \subseteq Ids
    /\ interruptions \in Nat

\* No event is lost between the two databases: a row leaves the outbox
\* (delivered_at set) only if its event is in the audit log, whatever fails
\* in between.
DeliveredIsLogged == \A i \in Ids : row[i] = "delivered" => logged[i] > 0

\* Changes and the audit log agree, although they are in two databases: a
\* committed change is in the log or has a row that waits to be delivered,
\* and the log tells of no change that has not committed.  Wherever an
\* exception or a crash falls between the change, its row and the commit,
\* and whatever the dispatcher sees of them.
LogMatchesChanges ==
    \A i \in Ids :
        /\ change[i] = "committed" => row[i] = "pending" \/ logged[i] > 0
        /\ logged[i] > 0 => change[i] = "committed"

\* Delivery is at least once, and each copy beyond the first is paid for by
\* a counted failure of that row or by an interruption: the dispatcher adds
\* no duplicates of its own.
DuplicatesAccounted ==
    \A i \in Ids : logged[i] <= 1 + attempts[i] + interruptions

\* A settled row is never appended again and never returns to the pending
\* ones, although the pass works from a snapshot of the rows.
SettledForGood ==
    [][\A i \in Ids : row[i] = "delivered" =>
            row'[i] = "delivered" /\ logged'[i] = logged[i]]_vars

\* Once failures cease, every committed change reaches the audit log and its
\* row is settled, also behind a batch full of failing rows.
EventuallySettled ==
    \A i \in Ids : change[i] = "committed" ~> row[i] = "delivered"

----------------------------------------------------------------------------
(* The outbox implements the promise of AuditDelivery.                     *)

Published == {i \in Ids : change[i] = "committed"}
Settled == {i \in Ids : row[i] = "delivered"}

Delivery == INSTANCE AuditDelivery WITH
    published <- Published, copies <- logged, settled <- Settled

\* Every step of the outbox is a publication, a delivery or a settlement of
\* one event, or none of them.
ImplementsDelivery == Delivery!Spec
=============================================================================
