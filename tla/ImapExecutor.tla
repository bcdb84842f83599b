---------------------------- MODULE ImapExecutor ----------------------------
(***************************************************************************)
(* Provider calls: the thread pool that runs blocking IMAP work, with a    *)
(* per-account semaphore and a timeout.                                    *)
(*                                                                         *)
(*   src/postara/imap_executor.py   ImapExecutor                           *)
(*   src/postara/mailbox.py         MailboxRuntime                         *)
(*                                                                         *)
(* The handlers call the runtime without awaiting, so run() blocks the     *)
(* event loop: one call is waited for at a time.  A call that times out    *)
(* while it occupies a worker goes on without anyone waiting for it; these *)
(* abandoned calls are what the event loop's thread competes with.         *)
(*                                                                         *)
(* MarkSeen adds a handler, the provider and the fairness of the threads.  *)
(***************************************************************************)
EXTENDS Naturals, FiniteSets

CONSTANTS
    Accounts,
    MaxWorkers,         \* max_workers (8)
    PerAccountLimit,    \* per_account_limit (2)
    MaxCalls            \* bound: calls made

ASSUME ConstantsAssumption ==
    /\ MaxWorkers \in Nat \ {0}
    /\ PerAccountLimit \in Nat \ {0}
    /\ MaxCalls \in Nat

\* Calls in the order in which they are submitted.
Calls == 1..MaxCalls

VARIABLES
    job,        \* job[c]: where the pool stands with call c
    account,    \* account[c]: the mailbox it is for, once submitted
    permits,    \* permits[a]: free permits of a's semaphore
    loop        \* what the event loop does: "free", or a call and how far

vars == <<job, account, permits, loop>>

\* "cancelled": a worker will still pick the item up and drop it; "entered":
\* a worker waits for the permit.
JobState ==
    {"unused", "queued", "cancelled", "dropped", "entered", "running", "finished"}

Free == [pc |-> "free"]

\* "expired": result() has raised, future.cancel() is next.
Loop == {Free} \cup [pc : {"waiting", "expired"}, call : Calls]

InState(states) == {c \in Calls : job[c] \in states}
Busy == InState({"entered", "running"})
Running(a) == {c \in InState({"running"}) : account[c] = a}

Init ==
    /\ job = [c \in Calls |-> "unused"]
    /\ account \in [Calls -> Accounts]
    /\ permits = [a \in Accounts |-> PerAccountLimit]
    /\ loop = Free

To(c, state) == job' = [job EXCEPT ![c] = state]

-----------------------------------------------------------------------------
(* The event loop in run().                                                *)

Submit(c) ==
    /\ loop = Free
    /\ job[c] = "unused"
    /\ \A d \in Calls : d < c => job[d] # "unused"
    /\ To(c, "queued")
    /\ loop' = [pc |-> "waiting", call |-> c]
    /\ UNCHANGED <<account, permits>>

\* Mutant: a call that a worker has begun is taken for done.
ReturnBegun ==
    /\ loop.pc = "waiting"
    /\ job[loop.call] \in {"running", "finished"}
    /\ loop' = Free
    /\ UNCHANGED <<job, account, permits>>

\* The result, or the exception that the work raised.
Return ==
    /\ loop.pc = "waiting"
    /\ job[loop.call] = "finished"
    /\ loop' = Free
    /\ UNCHANGED <<job, account, permits>>

Expire ==
    /\ loop.pc = "waiting"
    /\ job[loop.call] # "finished"
    /\ loop' = [loop EXCEPT !.pc = "expired"]
    /\ UNCHANGED <<job, account, permits>>

\* Mutant: after cancelling, the call is waited for again.
CancelAndWait ==
    /\ loop.pc = "expired"
    /\ IF job[loop.call] = "queued" THEN To(loop.call, "cancelled")
                                    ELSE UNCHANGED job
    /\ loop' = [loop EXCEPT !.pc = "waiting"]
    /\ UNCHANGED <<account, permits>>

\* future.cancel() only takes effect before a worker has picked the item up.
Cancel ==
    /\ loop.pc = "expired"
    /\ IF job[loop.call] = "queued" THEN To(loop.call, "cancelled")
                                    ELSE UNCHANGED job
    /\ loop' = Free
    /\ UNCHANGED <<account, permits>>

-----------------------------------------------------------------------------
(* A worker thread.                                                        *)

\* The next item of the pool's queue.
IsNext(c) ==
    /\ job[c] \in {"queued", "cancelled"}
    /\ \A d \in InState({"queued", "cancelled"}) : c <= d

Take(c) ==
    /\ Cardinality(Busy) < MaxWorkers
    /\ IsNext(c)
    /\ To(c, IF job[c] = "cancelled" THEN "dropped" ELSE "entered")
    /\ UNCHANGED <<account, permits, loop>>

\* Mutant: the worker does not wait for the permit.
AcquireAtOnce(c) ==
    /\ job[c] = "entered"
    /\ permits' = [permits EXCEPT ![account[c]] = @ - 1]
    /\ To(c, "running")
    /\ UNCHANGED <<account, loop>>

Acquire(c) ==
    /\ job[c] = "entered"
    /\ permits[account[c]] > 0
    /\ permits' = [permits EXCEPT ![account[c]] = @ - 1]
    /\ To(c, "running")
    /\ UNCHANGED <<account, loop>>

\* Mutant: the permit is not released when func() raises.
FinishLeaking(c) ==
    /\ job[c] = "running"
    /\ permits' \in {permits, [permits EXCEPT ![account[c]] = @ + 1]}
    /\ To(c, "finished")
    /\ UNCHANGED <<account, loop>>

\* func() returns or raises; the with statement releases the permit.
Finish(c) ==
    /\ job[c] = "running"
    /\ permits' = [permits EXCEPT ![account[c]] = @ + 1]
    /\ To(c, "finished")
    /\ UNCHANGED <<account, loop>>

Work(c) == Take(c) \/ Acquire(c) \/ Finish(c)

\* The process stops and is started again with an empty pool.
Restart ==
    /\ job' = [c \in Calls |->
                  IF job[c] \in {"unused", "finished"} THEN job[c] ELSE "dropped"]
    /\ permits' = [a \in Accounts |-> PerAccountLimit]
    /\ loop' = Free
    /\ UNCHANGED account

\* Every call is answered and the pool is empty: the bound on calls.
Done ==
    /\ loop = Free
    /\ InState({"finished", "dropped"}) = Calls
    /\ UNCHANGED vars

Next ==
    \/ \E c \in Calls : Submit(c) \/ Work(c)
    \/ Return
    \/ Expire
    \/ Cancel
    \/ Restart
    \/ Done

Spec == Init /\ [][Next]_vars

-----------------------------------------------------------------------------
(* Properties.                                                             *)

TypeOK ==
    /\ job \in [Calls -> JobState]
    /\ account \in [Calls -> Accounts]
    /\ permits \in [Accounts -> 0..PerAccountLimit]
    /\ loop \in Loop

\* No account works on more connections than its limit, and no permit is lost
\* or released twice, abandoned calls included.
PermitsConserved ==
    \A a \in Accounts : permits[a] + Cardinality(Running(a)) = PerAccountLimit

\* The call that is waited for is the newest: everything before it that still
\* occupies a worker or a place in the queue has been given up.  A cancelled
\* call is one nobody waits for.
OnlyNewestAwaited ==
    loop # Free =>
        /\ job[loop.call] \notin {"unused", "cancelled", "dropped"}
        /\ \A c \in Calls : c > loop.call => job[c] = "unused"

\* A submitted call leaves the pool in the end: workers that wait for a
\* permit never keep out the calls that hold one.
EveryCallSettles ==
    \A c \in Calls : job[c] = "queued" ~> job[c] \in {"finished", "dropped"}
=============================================================================
