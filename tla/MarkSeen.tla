------------------------------ MODULE MarkSeen ------------------------------
(***************************************************************************)
(* Marking a message seen: the handler, the provider call it makes through *)
(* the pool of ImapExecutor, the provider, and the audit row written after *)
(* the call has returned.                                                  *)
(*                                                                         *)
(*   src/postara/api.py        mark_mailbox_message_seen                   *)
(*   src/postara/mailbox.py    MailboxRuntime.mark_seen, _with_mailbox     *)
(*   src/postara/accounts.py   record_message_seen                         *)
(*                                                                         *)
(* Each call of ImapExecutor is one request that sets or clears the flag   *)
(* of one message of its mailbox.  The flag is known by the call that gave *)
(* it its present value.  The message may go at any time, or never have    *)
(* been there: the adapter sends UID STORE without a look, and a server    *)
(* confirms it for a UID that does not exist.                              *)
(***************************************************************************)
EXTENDS ImapExecutor

CONSTANTS
    MaxCrashes,     \* bound: times the process stops
    Fleeting        \* bound: the mailboxes whose message may go

ASSUME BoundsAssumption == MaxCrashes \in Nat /\ Fleeting \subseteq Accounts

VARIABLES
    handler,    \* handler[c]: how far the request that made call c has come
    command,    \* command[c]: how far the provider is with c's STORE command
    shown,      \* shown[a]: the call whose value a's flag has, 0 at first
    gone,       \* the mailboxes whose message does not exist (any more)
    raised,     \* the calls whose work has raised
    audited,    \* the calls with a message.mark_seen row in the outbox
    crashes     \* times the process has stopped

markVars == <<handler, command, shown, gone, raised, audited, crashes>>
allVars == <<vars, markVars>>

\* "recording": the call has returned and record_message_seen is under way;
\* "ok": answered with 200; "error": with 502 or 500; "lost": the process
\* stopped before the answer.
HandlerState == {"idle", "calling", "recording", "ok", "error", "lost"}

\* "void": carried out on a UID that does not exist, without effect.
CommandState == {"unsent", "sent", "applied", "void"}

\* The states of a command that the provider confirms.
CarriedOut == {"applied", "void"}

Answered == {"ok", "error", "lost"}

MarkInit ==
    /\ Init
    /\ handler = [c \in Calls |-> "idle"]
    /\ command = [c \in Calls |-> "unsent"]
    /\ shown = [a \in Accounts |-> 0]
    /\ gone = {}
    /\ raised = {}
    /\ audited = {}
    /\ crashes = 0

Becomes(c, state) == handler' = [handler EXCEPT ![c] = state]

-----------------------------------------------------------------------------
(* The provider.                                                           *)

\* The worker has logged in, selected the folder and sent the command.
Send(c) ==
    /\ job[c] = "running"
    /\ command[c] = "unsent"
    /\ command' = [command EXCEPT ![c] = "sent"]
    /\ UNCHANGED <<vars, handler, shown, gone, raised, audited, crashes>>

\* A command that was sent is carried out whatever has become of the worker.
Apply(c) ==
    /\ command[c] = "sent"
    /\ IF account[c] \in gone
         THEN /\ command' = [command EXCEPT ![c] = "void"]
              /\ UNCHANGED shown
         ELSE /\ command' = [command EXCEPT ![c] = "applied"]
              /\ shown' = [shown EXCEPT ![account[c]] = c]
    /\ UNCHANGED <<vars, handler, gone, raised, audited, crashes>>

\* The message is moved or deleted; its UID does not come back.
Expunge(a) ==
    /\ a \in Fleeting \ gone
    /\ gone' = gone \cup {a}
    /\ UNCHANGED <<vars, handler, command, shown, raised, audited, crashes>>

\* Mutant: a lost connection is taken for success.
WorkEndsQuietly(c) ==
    /\ Finish(c)
    /\ UNCHANGED <<handler, command, shown, gone, raised, audited, crashes>>

\* work() returns once the provider has confirmed the command, and raises when
\* anything fails, also when only the confirmation is lost.
WorkEnds(c) ==
    /\ Finish(c)
    /\ \/ command[c] \in CarriedOut /\ UNCHANGED raised
       \/ raised' = raised \cup {c}
    /\ UNCHANGED <<handler, command, shown, gone, audited, crashes>>

-----------------------------------------------------------------------------
(* The handler.                                                            *)

\* Access and credential are in order (MailboxCredentials, KeyAccess).
Call(c) ==
    /\ Submit(c)
    /\ Becomes(c, "calling")
    /\ UNCHANGED <<command, shown, gone, raised, audited, crashes>>

\* The call has returned or raised.
Resume ==
    /\ Return
    /\ Becomes(loop.call, IF loop.call \in raised THEN "error" ELSE "recording")
    /\ UNCHANGED <<command, shown, gone, raised, audited, crashes>>

\* Mutant: a call that timed out is reported as done.
GiveUpSilently ==
    /\ Cancel
    /\ Becomes(loop.call, "recording")
    /\ UNCHANGED <<command, shown, gone, raised, audited, crashes>>

\* Mutant: after cancelling, the call is waited for again.
GiveUpLater ==
    /\ CancelAndWait
    /\ UNCHANGED markVars

\* ImapExecutionTimeout becomes a ProviderError.
GiveUp ==
    /\ Cancel
    /\ Becomes(loop.call, "error")
    /\ UNCHANGED <<command, shown, gone, raised, audited, crashes>>

Record(c) ==
    /\ handler[c] = "recording"
    /\ Becomes(c, "ok")
    /\ audited' = audited \cup {c}
    /\ UNCHANGED <<vars, command, shown, gone, raised, crashes>>

\* The transaction raises; it may have committed all the same.
RecordFails(c) ==
    /\ handler[c] = "recording"
    /\ Becomes(c, "error")
    /\ audited' \in {audited, audited \cup {c}}
    /\ UNCHANGED <<vars, command, shown, gone, raised, crashes>>

\* The process stops and is started again; the requests it served are lost.
Crash ==
    /\ crashes < MaxCrashes
    /\ crashes' = crashes + 1
    /\ Restart
    /\ handler' = [c \in Calls |->
                      IF handler[c] \in {"calling", "recording"} THEN "lost"
                                                                 ELSE handler[c]]
    /\ UNCHANGED <<command, shown, gone, raised, audited>>

-----------------------------------------------------------------------------
\* What the pool and the timer do without the handler.
PoolStep ==
    /\ Expire \/ \E c \in Calls : Take(c) \/ Acquire(c)
    /\ UNCHANGED markVars

\* Every request is answered and the pool is empty: the bound on calls.
MarkDone ==
    /\ \A c \in Calls : handler[c] \in Answered
    /\ Done
    /\ UNCHANGED markVars

MarkNext ==
    \/ \E c \in Calls :
          \/ Call(c) \/ Send(c) \/ Apply(c) \/ WorkEnds(c)
          \/ Record(c) \/ RecordFails(c)
    \/ \E a \in Accounts : Expunge(a)
    \/ PoolStep
    \/ Resume
    \/ GiveUp
    \/ Crash
    \/ MarkDone

MarkSpec == MarkInit /\ [][MarkNext]_allVars

\* Threads are scheduled, the timer fires, work() ends because every socket
\* operation has a timeout, and the transaction of record_message_seen ends.
\* Nothing obliges clients to call, and neither that the provider carries a
\* command out nor that it confirms one is assumed.
MarkFairness ==
    /\ \A c \in Calls :
          /\ WF_allVars(Take(c) /\ UNCHANGED markVars)
          /\ WF_allVars(Acquire(c) /\ UNCHANGED markVars)
          /\ WF_allVars(WorkEnds(c))
          /\ WF_allVars(Record(c) \/ RecordFails(c))
    /\ WF_allVars(Expire /\ UNCHANGED markVars)
    /\ WF_allVars(Resume)
    /\ WF_allVars(GiveUp)

MarkFairSpec == MarkSpec /\ MarkFairness

-----------------------------------------------------------------------------
(* Properties.                                                             *)

MarkTypeOK ==
    /\ TypeOK
    /\ handler \in [Calls -> HandlerState]
    /\ command \in [Calls -> CommandState]
    /\ shown \in [Accounts -> Calls \cup {0}]
    /\ gone \subseteq Accounts
    /\ raised \subseteq Calls
    /\ audited \subseteq Calls
    /\ crashes \in 0..MaxCrashes

\* The audit log only tells of commands the provider has carried out, and who
\* was answered with 200 has an audit row.  The mark itself is there unless
\* the message was not; nothing but its absence comes between.
RecordedIsCarriedOut ==
    /\ \A c \in audited :
          \/ command[c] = "applied"
          \/ command[c] = "void" /\ account[c] \in gone
    /\ \A c \in Calls : handler[c] = "ok" => c \in audited

\* A message shows the mark of an older call, after a newer one was applied,
\* only if the client of the older one was not told that it succeeded: calls
\* abandoned by the timeout overtake, calls that are waited for do not.
OlderMarkOnlyAfterError ==
    \A c \in Calls :
        (command[c] = "applied" /\ shown[account[c]] < c) =>
            handler[shown[account[c]]] \in {"error", "lost"}

\* The pool works for a client that still waits, or goes on after one that was
\* told of an error: what cancel() cannot stop never belongs to a request that
\* was told of success, and a crash leaves nothing behind in the pool.
OnlyErrorsOutlived ==
    \A c \in Calls :
        /\ job[c] = "queued" => handler[c] = "calling"
        /\ job[c] = "cancelled" => handler[c] = "error"
        /\ job[c] \in {"entered", "running"} => handler[c] \in {"calling", "error"}

\* Every request is answered or lost in a crash, however many abandoned calls
\* hold workers and whatever the provider does.
EveryRequestAnswered ==
    \A c \in Calls : handler[c] = "calling" ~> handler[c] \in Answered
=============================================================================
