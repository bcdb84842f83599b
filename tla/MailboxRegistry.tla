-------------------------- MODULE MailboxRegistry --------------------------
(***************************************************************************)
(* What a user may rely on when several requests change the mailboxes of   *)
(* the account at the same time: every request that succeeds has taken     *)
(* effect at once, on the mailboxes as they were at that moment, and       *)
(* changed only what it is about.  The module knows no checks, statements  *)
(* or transactions; MailboxDirectory is the mechanism.                     *)
(***************************************************************************)

CONSTANTS Mailboxes, Names, Emails, SignupEmail, Verifications, None, Gone

VARIABLES
    hosted,     \* mailboxes with a password need a verified address
    mailbox,    \* mailbox[m]: None, the mailbox, or Gone
    pending     \* pending[v]: None or the stored verification

vars == <<hosted, mailbox, pending>>

Init ==
    /\ hosted \in BOOLEAN
    /\ mailbox = [m \in Mailboxes |-> None]
    /\ pending = [v \in Verifications |-> None]

Live(m) == mailbox[m] \notin {None, Gone}

NameFree(name, m) == \A n \in Mailboxes \ {m} : Live(n) => mailbox[n].name # name
EmailFree(email, m) == \A n \in Mailboxes \ {m} : Live(n) => mailbox[n].email # email

Insert(m, name, email, auth, via) ==
    /\ mailbox[m] = None
    /\ NameFree(name, m) /\ EmailFree(email, m)
    /\ mailbox' = [mailbox EXCEPT ![m] =
                      [name |-> name, email |-> email, auth |-> auth, via |-> via]]

\* Without verification: by OAuth, or with a password on one's own server.
Connect(m, name, email, auth) ==
    /\ auth = "app_password" => ~hosted
    /\ Insert(m, name, email, auth, None)
    /\ UNCHANGED <<hosted, pending>>

\* The verification is settled with its mailbox.  It need not be open any more:
\* once its mailbox was deleted, a request that had checked the code before may
\* complete it again.
Complete(v, m) ==
    /\ pending[v] # None
    /\ pending[v].status = "verified" => mailbox[pending[v].mailbox] = Gone
    /\ Insert(m, pending[v].name, pending[v].email, "app_password", v)
    /\ pending' = [pending EXCEPT ![v].status = "verified", ![v].mailbox = m]
    /\ UNCHANGED hosted

\* A verification is stored for what is free; the first one is for the
\* address the user signed up with.
Store(v, name, email) ==
    /\ hosted
    /\ pending[v] = None
    /\ \A m \in Mailboxes :
        Live(m) => mailbox[m].name # name /\ mailbox[m].email # email
    /\ email = SignupEmail \/ \E m \in Mailboxes : mailbox[m] # None
    /\ pending' = [pending EXCEPT ![v] =
                      [name |-> name, email |-> email, status |-> "verifying",
                       attempts |-> 0, mailbox |-> None]]
    /\ UNCHANGED <<hosted, mailbox>>

Rename(m, name) ==
    /\ Live(m)
    /\ NameFree(name, m)
    /\ mailbox' = [mailbox EXCEPT ![m].name = name]
    /\ UNCHANGED <<hosted, pending>>

\* A reconnect by OAuth brings the address that was consented to.
Reconnect(m, email) ==
    /\ Live(m)
    /\ mailbox[m].auth = "oauth2"
    /\ EmailFree(email, m)
    /\ mailbox' = [mailbox EXCEPT ![m].email = email]
    /\ UNCHANGED <<hosted, pending>>

Delete(m) ==
    /\ Live(m)
    /\ mailbox' = [mailbox EXCEPT ![m] = Gone]
    /\ UNCHANGED <<hosted, pending>>

Next ==
    \/ \E m \in Mailboxes :
        \/ \E name \in Names, email \in Emails, auth \in {"oauth2", "app_password"} :
            Connect(m, name, email, auth)
        \/ \E v \in Verifications : Complete(v, m)
        \/ \E name \in Names : Rename(m, name)
        \/ \E email \in Emails : Reconnect(m, email)
        \/ Delete(m)
    \/ \E v \in Verifications, name \in Names, email \in Emails : Store(v, name, email)

Spec == Init /\ [][Next]_vars
=============================================================================
