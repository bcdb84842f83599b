-------------------------- MODULE MailboxDirectory --------------------------
(***************************************************************************)
(* The names and addresses of one user's mailboxes under concurrent        *)
(* requests: direct creation (self-hosted), creation by verification code  *)
(* (hosted), OAuth connect and reconnect, rename and delete.               *)
(*                                                                         *)
(*   src/postara/api.py            the /mailboxes handlers                 *)
(*   src/postara/accounts.py       RepositoryAccountService                *)
(*   src/postara/repositories.py   AccountRepository                       *)
(*   src/postara/models.py         AccountORM's unique constraints         *)
(*                                                                         *)
(* A request reads and checks committed rows, flushes its statement, and   *)
(* commits (READ COMMITTED).  Between the steps other requests run.  A     *)
(* flush waits while another request has flushed, and not yet ended, a     *)
(* change of the same row or of a row with the same name or address; then  *)
(* the unique constraints decide.                                          *)
(***************************************************************************)
EXTENDS Naturals, FiniteSets

CONSTANTS
    Mailboxes,      \* primary keys of app.accounts, each used at most once
    Names,          \* API names
    Emails,         \* mailbox addresses
    SignupEmail,    \* the address the user registered with
    Verifications,  \* ids of pending verifications, each used at most once
    Requests,       \* requests under way at the same time
    MaxWrongCodes,  \* bound: wrong codes entered per verification
    None,           \* SQL NULL, a column left alone, or nothing there
    Gone            \* a mailbox row that was deleted

VARIABLES
    hosted,         \* deployment_mode is "hosted"
    mailbox,        \* mailbox[m]: the committed row
    pending,        \* pending[v]: the committed pending verification
    request,        \* request[q]: progress of request q
    wrongCodes      \* history: wrong codes answered per verification

vars == <<hosted, mailbox, pending, request, wrongCodes>>

\* via: history, the verification that created the mailbox.
Mailbox == [name : Names, email : Emails, auth : {"app_password", "oauth2"},
            via : Verifications \cup {None}]

Pending == [name : Names, email : Emails, status : {"verifying", "verified"},
            attempts : Nat, mailbox : Mailboxes \cup {None}]

\* The columns a statement writes.
Columns == [name : Names \cup {None}, email : Emails \cup {None},
            auth : {"app_password", "oauth2", None}]

AttemptLimit == 5

Idle == [pc |-> "idle"]

Request ==
    {Idle}
    \cup [pc : {"starting"}, name : Names, email : Emails]
    \cup [pc : {"refusing"}, via : Verifications, attempts : Nat,
          status : {"verifying", "failed"}]
    \cup [pc : {"ready"}, on : Mailboxes, change : Columns \cup {Gone},
          via : Verifications \cup {None}]
    \cup [pc : {"flushed"}, on : Mailboxes, row : Mailbox \cup {Gone},
          via : Verifications \cup {None}]

ASSUME ConstantsAssumption ==
    /\ SignupEmail \in Emails
    /\ MaxWrongCodes \in Nat
    /\ None \notin Names \cup Emails \cup Mailboxes \cup Verifications \cup Mailbox \cup Pending
    /\ None # "app_password" /\ None # "oauth2"
    /\ Gone \notin Mailbox \cup Columns
    /\ Gone # None

IsRow(r) == r \notin {None, Gone}
Live(m) == IsRow(mailbox[m])

Clash(r, s) ==
    IsRow(r) /\ IsRow(s) /\ (r.name = s.name \/ r.email = s.email)

Init ==
    /\ hosted \in BOOLEAN
    /\ mailbox = [m \in Mailboxes |-> None]
    /\ pending = [v \in Verifications |-> None]
    /\ request = [q \in Requests |-> Idle]
    /\ wrongCodes = [v \in Verifications |-> 0]

Goto(q, state) == request' = [request EXCEPT ![q] = state]

-----------------------------------------------------------------------------
(* Reading and checking.                                                   *)

NameFree(name) == \A m \in Mailboxes : Live(m) => mailbox[m].name # name
EmailFree(email) == \A m \in Mailboxes : Live(m) => mailbox[m].email # email

\* A key no other request is about to use.
FreshKey(m) ==
    /\ mailbox[m] = None
    /\ \A q \in Requests :
        request[q].pc \in {"ready", "flushed"} => request[q].on # m

PrepareInsert(q, m, name, email, auth, via) ==
    /\ FreshKey(m)
    /\ EmailFree(email)
    /\ NameFree(name)
    /\ Goto(q, [pc |-> "ready", on |-> m, via |-> via,
                change |-> [name |-> name, email |-> email, auth |-> auth]])

\* Mutant: direct creation is open in hosted mode.
PrepareCreateAnywhere(q, m, name, email) ==
    /\ request[q] = Idle
    /\ PrepareInsert(q, m, name, email, "app_password", None)
    /\ UNCHANGED <<hosted, mailbox, pending, wrongCodes>>

\* POST /mailboxes: refused in hosted mode.
PrepareCreate(q, m, name, email) ==
    /\ request[q] = Idle
    /\ ~hosted
    /\ PrepareInsert(q, m, name, email, "app_password", None)
    /\ UNCHANGED <<hosted, mailbox, pending, wrongCodes>>

\* OAuth callback for a name that is free.
PrepareConnect(q, m, name, email) ==
    /\ request[q] = Idle
    /\ PrepareInsert(q, m, name, email, "oauth2", None)
    /\ UNCHANGED <<hosted, mailbox, pending, wrongCodes>>

\* OAuth callback for the name of an OAuth mailbox: an address equal to the
\* one read is not written.
PrepareReconnect(q, m, email) ==
    /\ request[q] = Idle
    /\ Live(m)
    /\ mailbox[m].auth = "oauth2"
    /\ Goto(q, [pc |-> "ready", on |-> m, via |-> None,
                change |-> [name |-> None, auth |-> None,
                            email |-> IF email = mailbox[m].email
                                        THEN None ELSE email]])
    /\ UNCHANGED <<hosted, mailbox, pending, wrongCodes>>

\* update_name_for_user; without a new name there is no statement.
PrepareRename(q, m, name) ==
    /\ request[q] = Idle
    /\ Live(m)
    /\ NameFree(name)
    /\ Goto(q, [pc |-> "ready", on |-> m, via |-> None,
                change |-> [name |-> name, email |-> None, auth |-> None]])
    /\ UNCHANGED <<hosted, mailbox, pending, wrongCodes>>

PrepareDelete(q, m) ==
    /\ request[q] = Idle
    /\ Live(m)
    /\ Goto(q, [pc |-> "ready", on |-> m, via |-> None, change |-> Gone])
    /\ UNCHANGED <<hosted, mailbox, pending, wrongCodes>>

-----------------------------------------------------------------------------
(* Verification by code.                                                   *)

\* verify-start looks at the user's mailboxes; then it tries the credentials
\* and sends the code.
BeginVerification(q, name, email) ==
    /\ request[q] = Idle
    /\ hosted
    /\ (\E m \in Mailboxes : Live(m)) \/ email = SignupEmail
    /\ EmailFree(email)
    /\ Goto(q, [pc |-> "starting", name |-> name, email |-> email])
    /\ UNCHANGED <<hosted, mailbox, pending, wrongCodes>>

\* Mutant: verify-start's checks, done before the code went out, suffice.
StoreUnchecked(q, v) ==
    /\ request[q].pc = "starting"
    /\ pending[v] = None
    /\ pending' = [pending EXCEPT ![v] =
                      [name |-> request[q].name, email |-> request[q].email,
                       status |-> "verifying", attempts |-> 0, mailbox |-> None]]
    /\ Goto(q, Idle)
    /\ UNCHANGED <<hosted, mailbox, wrongCodes>>

\* create_pending_app_password_verification, or its refusal.
StoreVerification(q, v) ==
    /\ request[q].pc = "starting"
    /\ pending[v] = None
    /\ LET name == request[q].name
           email == request[q].email
       IN  pending' = IF EmailFree(email) /\ NameFree(name)
                        THEN [pending EXCEPT ![v] =
                                [name |-> name, email |-> email,
                                 status |-> "verifying", attempts |-> 0,
                                 mailbox |-> None]]
                        ELSE pending
    /\ Goto(q, Idle)
    /\ UNCHANGED <<hosted, mailbox, wrongCodes>>

Verifying(v) == pending[v] # None /\ pending[v].status = "verifying"

\* verify-complete with the right code in time.
PrepareComplete(q, v, m) ==
    /\ request[q] = Idle
    /\ Verifying(v)
    /\ PrepareInsert(q, m, pending[v].name, pending[v].email, "app_password", v)
    /\ UNCHANGED <<hosted, mailbox, pending, wrongCodes>>

\* verify-complete with a wrong code: the attempt is counted and flushed ...
\* (too late, the status "expired" is; it fares likewise)
WrongCode(q, v) ==
    /\ request[q] = Idle
    /\ Verifying(v)
    /\ wrongCodes[v] < MaxWrongCodes
    /\ LET attempts == pending[v].attempts + 1 IN
       Goto(q, [pc |-> "refusing", via |-> v, attempts |-> attempts,
                status |-> IF attempts >= AttemptLimit THEN "failed"
                                                       ELSE "verifying"])
    /\ UNCHANGED <<hosted, mailbox, pending, wrongCodes>>

\* ... and the exception that reports it leaves session.begin(), which rolls
\* the transaction back: neither column of the request reaches pending.
RefuseCode(q) ==
    /\ request[q].pc = "refusing"
    /\ wrongCodes' = [wrongCodes EXCEPT ![request[q].via] = @ + 1]
    /\ Goto(q, Idle)
    /\ UNCHANGED <<hosted, mailbox, pending>>

-----------------------------------------------------------------------------
(* Statement and commit.                                                   *)

\* Mutant: columns the request does not mention are overwritten.
ChangedBlindly(row, change) ==
    [name |-> change.name, email |-> change.email, auth |-> change.auth,
     via |-> row.via]

\* A column that is not written keeps what the row holds by then.
Changed(row, change) ==
    [name |-> IF change.name = None THEN row.name ELSE change.name,
     email |-> IF change.email = None THEN row.email ELSE change.email,
     auth |-> IF change.auth = None THEN row.auth ELSE change.auth,
     via |-> row.via]

\* The row version the statement of q produces.
NewRow(q) ==
    LET m == request[q].on
        change == request[q].change
    IN  IF Gone \in {change, mailbox[m]} THEN Gone
        ELSE IF mailbox[m] = None
               THEN [name |-> change.name, email |-> change.email,
                     auth |-> change.auth, via |-> request[q].via]
               ELSE Changed(mailbox[m], change)

\* r has changed the row of q or a row version that clashes with q's, and
\* has not ended.
Blocks(r, q) ==
    /\ request[r].pc = "flushed"
    /\ \/ request[r].on = request[q].on
       \/ Clash(request[r].row, NewRow(q))
       \/ Clash(mailbox[request[r].on], NewRow(q))

Waits(q) == \E r \in Requests : Blocks(r, q)

\* Mutant: no unique constraint on (user_id, email).
DuplicateName(q) ==
    \E m \in Mailboxes \ {request[q].on} :
        Clash(mailbox[m], NewRow(q)) /\ mailbox[m].name = NewRow(q).name

Duplicate(q) ==
    \E m \in Mailboxes \ {request[q].on} : Clash(mailbox[m], NewRow(q))

Flush(q) ==
    /\ request[q].pc = "ready"
    /\ mailbox[request[q].on] # Gone
    /\ ~Waits(q) /\ ~Duplicate(q)
    /\ Goto(q, [pc |-> "flushed", on |-> request[q].on, row |-> NewRow(q),
                via |-> request[q].via])
    /\ UNCHANGED <<hosted, mailbox, pending, wrongCodes>>

\* IntegrityError, or the row has gone (StaleDataError; a second delete ends
\* without effect).
FlushRefused(q) ==
    /\ request[q].pc = "ready"
    /\ ~Waits(q)
    /\ mailbox[request[q].on] = Gone \/ Duplicate(q)
    /\ Goto(q, Idle)
    /\ UNCHANGED <<hosted, mailbox, pending, wrongCodes>>

\* Mutant: the verification is settled without naming its mailbox.
CommitUnnamed(q) ==
    /\ request[q].pc = "flushed"
    /\ mailbox' = [mailbox EXCEPT ![request[q].on] = request[q].row]
    /\ LET v == request[q].via IN
       pending' = IF v = None THEN pending
                  ELSE [pending EXCEPT ![v].status = "verified"]
    /\ Goto(q, Idle)
    /\ UNCHANGED <<hosted, wrongCodes>>

\* The rest of the transaction: the verification is settled with the mailbox.
Commit(q) ==
    /\ request[q].pc = "flushed"
    /\ LET m == request[q].on
           v == request[q].via
       IN  /\ mailbox' = [mailbox EXCEPT ![m] = request[q].row]
           /\ pending' = IF v = None THEN pending
                         ELSE [pending EXCEPT ![v].status = "verified",
                                              ![v].mailbox = m]
    /\ Goto(q, Idle)
    /\ UNCHANGED <<hosted, wrongCodes>>

\* A lost connection, a failed provider call or email, or a crash.
Fail(q) ==
    /\ request[q] # Idle
    /\ Goto(q, Idle)
    /\ UNCHANGED <<hosted, mailbox, pending, wrongCodes>>

\* A request that names nothing, or fails its checks, is answered at once.
Refuse(q) ==
    /\ request[q] = Idle
    /\ UNCHANGED vars

Prepare(q) ==
    \E m \in Mailboxes :
        \/ \E name \in Names, email \in Emails :
            PrepareCreate(q, m, name, email) \/ PrepareConnect(q, m, name, email)
        \/ \E email \in Emails : PrepareReconnect(q, m, email)
        \/ \E name \in Names : PrepareRename(q, m, name)
        \/ PrepareDelete(q, m)

Verify(q) ==
    \/ \E name \in Names, email \in Emails : BeginVerification(q, name, email)
    \/ \E v \in Verifications :
        \/ StoreVerification(q, v)
        \/ \E m \in Mailboxes : PrepareComplete(q, v, m)
        \/ WrongCode(q, v)
    \/ RefuseCode(q)

Finish(q) == Flush(q) \/ FlushRefused(q) \/ Commit(q) \/ Fail(q)

Next == \E q \in Requests : Refuse(q) \/ Prepare(q) \/ Verify(q) \/ Finish(q)

Spec == Init /\ [][Next]_vars

-----------------------------------------------------------------------------
(* Properties.                                                             *)

TypeOK ==
    /\ hosted \in BOOLEAN
    /\ mailbox \in [Mailboxes -> Mailbox \cup {None, Gone}]
    /\ pending \in [Verifications -> Pending \cup {None}]
    /\ request \in [Requests -> Request]
    /\ wrongCodes \in [Verifications -> Nat]

\* An API name or an address leads to one mailbox, however the requests that
\* connect, reconnect and rename overlap.
NamesAndAddressesUnique ==
    \A m, n \in Mailboxes : m # n => ~Clash(mailbox[m], mailbox[n])

\* In hosted mode an app-password mailbox exists only together with the
\* settled verification of its address.
HostedMailboxVerified ==
    \A m \in Mailboxes :
        hosted /\ Live(m) /\ mailbox[m].auth = "app_password" =>
            LET v == mailbox[m].via IN
            /\ v # None
            /\ pending[v].status = "verified"
            /\ pending[v].email = mailbox[m].email

\* A settled verification and its mailbox name each other until the mailbox is
\* deleted: no verification yields two mailboxes at a time, although two
\* requests may complete it together.
VerificationNamesItsMailbox ==
    /\ \A v \in Verifications :
        pending[v] # None /\ pending[v].status = "verified" =>
            LET m == pending[v].mailbox IN
            m # None /\ (mailbox[m] = Gone \/ mailbox[m].via = v)
    /\ \A m \in Mailboxes :
        Live(m) /\ mailbox[m].via # None =>
            LET v == mailbox[m].via IN
            pending[v].status = "verified" /\ pending[v].mailbox = m

\* A rejected code leaves the verification in place with the attempt counted.
AttemptsTracked ==
    \A v \in Verifications : Verifying(v) => pending[v].attempts = wrongCodes[v]

\* Requests that overlap leave what the successful ones would have left, had
\* each been done at once when it committed.
Registry == INSTANCE MailboxRegistry

ImplementsRegistry == Registry!Spec
=============================================================================
