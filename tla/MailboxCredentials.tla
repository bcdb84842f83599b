------------------------- MODULE MailboxCredentials -------------------------
(***************************************************************************)
(* The stored credentials of one user's mailboxes and their use: connect,  *)
(* reconnect, change the app password, delete, and load a credential for a *)
(* provider call, which may refresh the OAuth tokens and records the       *)
(* mailbox's health.                                                       *)
(*                                                                         *)
(*   src/postara/accounts.py       RepositoryAccountService                *)
(*   src/postara/repositories.py   AccountRepository                       *)
(*   src/postara/crypto.py         CredentialCipher                        *)
(*                                                                         *)
(* Requests run concurrently on one event loop.  Loading takes up to four  *)
(* steps: read the row; await the provider's token endpoint (inside the    *)
(* open transaction, on the values read before); then, in a transaction of *)
(* its own, read the health columns and write them.  Reconnecting reads    *)
(* the row and then writes it.  An ORM update writes only the columns that *)
(* differ from what it had read, and no row is locked in between.          *)
(*                                                                         *)
(* A token is named by the consent (OAuth grant) it stems from, a          *)
(* ciphertext by its content and the Fernet key version that encrypted it. *)
(***************************************************************************)
EXTENDS Naturals, Sequences

CONSTANTS
    Accounts,      \* primary keys of app.accounts, each used at most once
    Emails,        \* mailbox addresses
    Callers,       \* concurrent requests that load or reconnect
    MaxConsents,   \* bound: OAuth consents given
    MaxVersion,    \* bound: Fernet key versions
    None,          \* SQL NULL
    Deleted        \* marks a primary key whose row is gone

VARIABLES
    account,        \* account[a]: the row, None before insert, Deleted after
    caller,         \* caller[c]: progress of request c
    consents,       \* consents[g]: address that gave the g-th OAuth consent
    activeVersion,  \* key version this process encrypts with
    refresher,      \* whether this process has an OAuth client configured
    lastOutcome     \* history: how a's last load ended, by commit order: with an
                    \* outcome to record, with another "error", or "none"
                    \* before the first and when a crash loses the outcome

vars == <<account, caller, consents, activeVersion, refresher, lastOutcome>>

Versions == 1..MaxVersion
Consents == 1..MaxConsents

\* The content of an encrypted app password; tokens are numbered from 1.
AppPassword == 0

Cell(contents) == [content : contents, version : Versions]

\* expiry is "due" from five minutes before oauth_token_expires_at on, and
\* "never" when that is NULL.
Account ==
    [auth : {"app_password", "oauth2"}, email : Emails,
     password : Cell({AppPassword}) \cup {None},
     refresh : Cell(Consents) \cup {None},
     access : Cell(Consents) \cup {None}, keyVersion : Versions,
     expiry : {"never", "later", "due"},
     status : {"unknown", "ok", "reconnect_required"},
     detail : {None, "credentials_missing", "oauth_refresh_failed"},
     checkedRecently : BOOLEAN]

ASSUME ConstantsAssumption ==
    /\ MaxConsents \in Nat
    /\ MaxVersion \in Nat \ {0}
    /\ None \notin Account
    /\ None \notin Cell(Nat)
    /\ None # Deleted

Failure == {"credentials_missing", "oauth_refresh_failed"}
Outcome == Failure \cup {"ok"}

\* Mutant: the failure detail is stored as the status.
StatusIsOutcome(outcome) == outcome

StatusOf(outcome) == IF outcome = "ok" THEN "ok" ELSE "reconnect_required"
DetailOf(outcome) == IF outcome = "ok" THEN None ELSE outcome

Idle == [pc |-> "idle"]

Caller ==
    {Idle}
    \cup [pc : {"reconnecting"}, on : Accounts, consent : Consents,
          email : Emails \cup {None}, clearPassword : BOOLEAN,
          expiry : {"never", "later", None}]
    \cup [pc : {"refreshing"}, on : Accounts, refresh : Consents]
    \cup [pc : {"loaded"}, on : Accounts, outcome : Outcome]
    \cup [pc : {"recording"}, on : Accounts, outcome : Outcome,
          status : {"unknown", "ok", "reconnect_required"},
          detail : Failure \cup {None}]

Live(a) == account[a] \notin {None, Deleted}

\* crypto.py: encrypt with the active version; a ciphertext is readable only
\* under the version that wrote it.
Encrypt(content) == [content |-> content, version |-> activeVersion]
Readable(r, cell) == cell.version = r.keyVersion

\* Unique (user_id, email), checked and constrained.
EmailFree(a, email) ==
    \A b \in Accounts \ {a} : Live(b) => account[b].email # email

Init ==
    /\ account = [a \in Accounts |-> None]
    /\ caller = [c \in Callers |-> Idle]
    /\ consents = <<>>
    /\ activeVersion = 1
    /\ refresher \in BOOLEAN
    /\ lastOutcome = [a \in Accounts |-> "none"]

-----------------------------------------------------------------------------
(* Connecting and changing mailboxes: one transaction each.  What is       *)
(* checked before an insert is enforced again by a unique constraint.      *)

NewAppPassword(email) ==
    [auth |-> "app_password", email |-> email,
     password |-> Encrypt(AppPassword), refresh |-> None, access |-> None,
     keyVersion |-> activeVersion, expiry |-> "never",
     status |-> "unknown", detail |-> None, checkedRecently |-> FALSE]

CreateAppPassword(a, email) ==
    /\ account[a] = None
    /\ EmailFree(a, email)
    /\ account' = [account EXCEPT ![a] = NewAppPassword(email)]
    /\ UNCHANGED <<caller, consents, activeVersion, refresher, lastOutcome>>

\* The exchange of the authorization code: a fresh consent of one address.
\* A reply without either token is refused.
Consent(email) ==
    /\ Len(consents) < MaxConsents
    /\ consents' = Append(consents, email)

NewOAuth(email, expiry) ==
    [auth |-> "oauth2", email |-> email, password |-> None,
     refresh |-> Encrypt(Len(consents) + 1),
     access |-> Encrypt(Len(consents) + 1),
     keyVersion |-> activeVersion, expiry |-> expiry,
     status |-> "unknown", detail |-> None, checkedRecently |-> FALSE]

ConnectOAuth(a, email, expiry) ==
    /\ account[a] = None
    /\ EmailFree(a, email)
    /\ Consent(email)
    /\ account' = [account EXCEPT ![a] = NewOAuth(email, expiry)]
    /\ UNCHANGED <<caller, activeVersion, refresher, lastOutcome>>

\* Mutant: the key version is not stored with the new ciphertext.
WithPasswordOnly(row) == [row EXCEPT !.password = Encrypt(AppPassword)]

\* update_credentials(_for_user) does not look at auth_type.
WithPassword(row) ==
    [row EXCEPT !.password = Encrypt(AppPassword),
                !.keyVersion = activeVersion]

UpdatePassword(a) ==
    /\ Live(a)
    /\ account' = [account EXCEPT ![a] = WithPassword(@)]
    /\ UNCHANGED <<caller, consents, activeVersion, refresher, lastOutcome>>

Delete(a) ==
    /\ Live(a)
    /\ account' = [account EXCEPT ![a] = Deleted]
    /\ UNCHANGED <<caller, consents, activeVersion, refresher, lastOutcome>>

-----------------------------------------------------------------------------
(* create_with_oauth on the name of an existing OAuth mailbox.             *)

Goto(c, state) == caller' = [caller EXCEPT ![c] = state]

\* Mutant: the mailbox of that name is not checked to be an OAuth mailbox.
ReadReconnectAny(c, a, email, expiry) ==
    /\ caller[c] = Idle
    /\ Live(a)
    /\ Consent(email)
    /\ Goto(c, [pc |-> "reconnecting", on |-> a,
                consent |-> Len(consents) + 1, email |-> email,
                clearPassword |-> TRUE, expiry |-> expiry])
    /\ UNCHANGED <<account, activeVersion, refresher, lastOutcome>>

\* After the exchange the row is read; an email, an absent password or an
\* absent expiry it already holds will not be in the UPDATE (None, FALSE).
ReadReconnect(c, a, email, expiry) ==
    /\ caller[c] = Idle
    /\ Live(a)
    /\ account[a].auth = "oauth2"
    /\ Consent(email)
    /\ Goto(c, [pc |-> "reconnecting", on |-> a,
                consent |-> Len(consents) + 1,
                email |-> IF email = account[a].email THEN None ELSE email,
                clearPassword |-> account[a].password # None,
                expiry |-> IF expiry = "never" /\ account[a].expiry = "never"
                             THEN None ELSE expiry])
    /\ UNCHANGED <<account, activeVersion, refresher, lastOutcome>>

\* Both tokens are always written, the health columns never.
Reconnected(row, call) ==
    [row EXCEPT !.refresh = Encrypt(call.consent),
                !.access = Encrypt(call.consent),
                !.keyVersion = activeVersion,
                !.email = IF call.email = None THEN @ ELSE call.email,
                !.password = IF call.clearPassword THEN None ELSE @,
                !.expiry = IF call.expiry = None THEN @ ELSE call.expiry]

WriteReconnect(c) ==
    /\ caller[c].pc = "reconnecting"
    /\ LET a == caller[c].on IN
       /\ Live(a)
       /\ EmailFree(a, caller[c].email)
       /\ account' = [account EXCEPT ![a] = Reconnected(@, caller[c])]
    /\ Goto(c, Idle)
    /\ UNCHANGED <<consents, activeVersion, refresher, lastOutcome>>

\* The row is gone, or another mailbox has taken the address.
ReconnectRefused(c) ==
    /\ caller[c].pc = "reconnecting"
    /\ ~Live(caller[c].on) \/ ~EmailFree(caller[c].on, caller[c].email)
    /\ Goto(c, Idle)
    /\ UNCHANGED <<account, consents, activeVersion, refresher, lastOutcome>>

-----------------------------------------------------------------------------
(* get_credential_for_runtime.                                             *)

\* The load commits with an outcome that is to be recorded.
Finish(c, a, outcome) ==
    /\ Goto(c, [pc |-> "loaded", on |-> a, outcome |-> outcome])
    /\ lastOutcome' = [lastOutcome EXCEPT ![a] = outcome]

\* Any other exception (undecryptable value, row gone, unexpected reply):
\* rolled back and answered with an error, but nothing will be recorded.
Abort(c, a) ==
    /\ Goto(c, Idle)
    /\ lastOutcome' = [lastOutcome EXCEPT ![a] = "error"]

LoadAppPassword(c, a) ==
    /\ account[a].auth = "app_password"
    /\ IF account[a].password # None /\ Readable(account[a], account[a].password)
         THEN Finish(c, a, "ok")
         ELSE Abort(c, a)

LoadOAuth(c, a) ==
    LET row == account[a]
        due == row.expiry = "due"
        hopeless == row.access = None \/ (due /\ (~refresher \/ row.refresh = None))
    IN
    /\ row.auth = "oauth2"
    /\ \/ /\ hopeless
          /\ Finish(c, a, IF row.access = None THEN "credentials_missing"
                                               ELSE "oauth_refresh_failed")
       \/ /\ ~hopeless /\ ~due
          /\ IF Readable(row, row.access) THEN Finish(c, a, "ok") ELSE Abort(c, a)
       \/ /\ ~hopeless /\ due /\ Readable(row, row.refresh)
          /\ Goto(c, [pc |-> "refreshing", on |-> a,
                      refresh |-> row.refresh.content])
          /\ UNCHANGED lastOutcome
       \/ /\ ~hopeless /\ due /\ ~Readable(row, row.refresh)
          /\ Abort(c, a)

Load(c, a) ==
    /\ caller[c] = Idle
    /\ Live(a)
    /\ LoadAppPassword(c, a) \/ LoadOAuth(c, a)
    /\ UNCHANGED <<account, consents, activeVersion, refresher>>

\* The provider refuses or cannot be reached.
RefreshFails(c) ==
    /\ caller[c].pc = "refreshing"
    /\ Finish(c, caller[c].on, "oauth_refresh_failed")
    /\ UNCHANGED <<account, consents, activeVersion, refresher>>

\* The reply is not what the client expects, or the row is gone at the flush.
RefreshAborts(c) ==
    /\ caller[c].pc = "refreshing"
    /\ Abort(c, caller[c].on)
    /\ UNCHANGED <<account, consents, activeVersion, refresher>>

\* Mutant: the refresh token, which the provider did not change, stays.
RefreshedAccess(row, consent, expiry) ==
    [row EXCEPT !.access = Encrypt(consent), !.keyVersion = activeVersion,
                !.expiry = expiry]

\* update_oauth_tokens stores the new access token together with the refresh
\* token that was read before the request went out.
Refreshed(row, consent, expiry) ==
    [row EXCEPT !.refresh = Encrypt(consent), !.access = Encrypt(consent),
                !.keyVersion = activeVersion, !.expiry = expiry]

RefreshSucceeds(c, expiry) ==
    /\ caller[c].pc = "refreshing"
    /\ LET a == caller[c].on IN
       /\ Live(a)
       /\ account' = [account EXCEPT ![a] =
                            Refreshed(@, caller[c].refresh, expiry)]
       /\ Finish(c, a, "ok")
    /\ UNCHANGED <<consents, activeVersion, refresher>>

\* Mutant: a changed outcome is debounced as well.
DebouncedAlways(a, outcome) == account[a].checkedRecently

\* _record_mailbox_health reads the row: gone, or debounced, or to be written.
Debounced(a, outcome) ==
    /\ account[a].status = StatusOf(outcome)
    /\ account[a].detail = DetailOf(outcome)
    /\ account[a].checkedRecently

ReadHealth(c) ==
    /\ caller[c].pc = "loaded"
    /\ LET a == caller[c].on
           outcome == caller[c].outcome
       IN  IF Live(a) /\ ~Debounced(a, outcome)
             THEN Goto(c, [pc |-> "recording", on |-> a, outcome |-> outcome,
                           status |-> account[a].status,
                           detail |-> account[a].detail])
             ELSE Goto(c, Idle)
    /\ UNCHANGED <<account, consents, activeVersion, refresher, lastOutcome>>

\* Only the columns that differ from the values read are in the UPDATE.
Column(read, stored, new) == IF new = read THEN stored ELSE new

WithHealth(row, call) ==
    [row EXCEPT
        !.status = Column(call.status, @, StatusOf(call.outcome)),
        !.detail = Column(call.detail, @, DetailOf(call.outcome)),
        !.checkedRecently = TRUE]

WriteHealth(c) ==
    /\ caller[c].pc = "recording"
    /\ LET a == caller[c].on IN
       account' = IF Live(a)
                    THEN [account EXCEPT ![a] = WithHealth(@, caller[c])]
                    ELSE account
    /\ Goto(c, Idle)
    /\ UNCHANGED <<consents, activeVersion, refresher, lastOutcome>>

-----------------------------------------------------------------------------
(* Time and the process.                                                   *)

TokenComesDue(a) ==
    /\ Live(a)
    /\ account[a].expiry = "later"
    /\ account' = [account EXCEPT ![a].expiry = "due"]
    /\ UNCHANGED <<caller, consents, activeVersion, refresher, lastOutcome>>

\* Ten minutes pass since the last recorded check.
CheckAges(a) ==
    /\ Live(a)
    /\ account[a].checkedRecently
    /\ account' = [account EXCEPT ![a].checkedRecently = FALSE]
    /\ UNCHANGED <<caller, consents, activeVersion, refresher, lastOutcome>>

\* A load of a has finished whose outcome is not yet in the row.
Unrecorded(a) ==
    \E c \in Callers :
        caller[c].pc \in {"loaded", "recording"} /\ caller[c].on = a

\* A restart drops the requests, loads the key files again (the newest
\* becomes the active one) and the OAuth client configuration.
Restart ==
    /\ caller' = [c \in Callers |-> Idle]
    /\ activeVersion' \in {activeVersion, activeVersion + 1} \cap Versions
    /\ refresher' \in BOOLEAN
    /\ lastOutcome' = [a \in Accounts |->
                            IF Unrecorded(a) THEN "none" ELSE lastOutcome[a]]
    /\ UNCHANGED <<account, consents>>

Change(a) ==
    \/ \E email \in Emails :
        \/ CreateAppPassword(a, email)
        \/ \E expiry \in {"never", "later"} : ConnectOAuth(a, email, expiry)
    \/ UpdatePassword(a)
    \/ Delete(a)
    \/ TokenComesDue(a)
    \/ CheckAges(a)

Use(c) ==
    \/ \E a \in Accounts, email \in Emails, expiry \in {"never", "later"} :
        ReadReconnect(c, a, email, expiry)
    \/ WriteReconnect(c)
    \/ ReconnectRefused(c)
    \/ \E a \in Accounts : Load(c, a)
    \/ RefreshFails(c)
    \/ RefreshAborts(c)
    \/ \E expiry \in {"never", "later"} : RefreshSucceeds(c, expiry)
    \/ ReadHealth(c)
    \/ WriteHealth(c)

Next ==
    \/ \E a \in Accounts : Change(a)
    \/ \E c \in Callers : Use(c)
    \/ Restart

Spec == Init /\ [][Next]_vars

-----------------------------------------------------------------------------
(* Properties.                                                             *)

TypeOK ==
    /\ account \in [Accounts -> Account \cup {None, Deleted}]
    /\ caller \in [Callers -> Caller]
    /\ consents \in Seq(Emails)
    /\ activeVersion \in Versions
    /\ refresher \in BOOLEAN
    /\ lastOutcome \in [Accounts -> Outcome \cup {"error", "none"}]

\* A mailbox keeps the kind of credential it was connected with: an app
\* password for IMAP and no tokens, or both tokens, whatever order of
\* reconnects, password changes and refreshes it goes through.  The load
\* never finds credentials missing.
CredentialShape ==
    \A a \in Accounts : Live(a) =>
        IF account[a].auth = "app_password"
          THEN /\ account[a].password # None
               /\ account[a].refresh = None
               /\ account[a].access = None
          ELSE account[a].refresh # None /\ account[a].access # None

\* The stored access token and refresh token always come from the same
\* consent, also when a refresh overlaps a reconnect.
TokensFromOneConsent ==
    \A a \in Accounts : Live(a) /\ account[a].auth = "oauth2" =>
        account[a].access.content = account[a].refresh.content

\* The one key_version column serves every ciphertext of the row: what a
\* mailbox logs in with stays decryptable across restarts that activate a
\* new Fernet key, unless an app password was stored on an OAuth mailbox.
CredentialsReadable ==
    \A a \in Accounts : Live(a) =>
        IF account[a].auth = "app_password"
          THEN Readable(account[a], account[a].password)
          ELSE account[a].password = None =>
                    /\ Readable(account[a], account[a].refresh)
                    /\ Readable(account[a], account[a].access)

\* The same without the exception: every stored OAuth token can be decrypted
\* with the key_version stored beside it.
StoredTokensReadable ==
    \A a \in Accounts : Live(a) /\ account[a].auth = "oauth2" =>
        Readable(account[a], account[a].access)

\* A mailbox whose address belongs to the Google account that consented:
\* the stored tokens log in as the mailbox's email.
TokensMatchMailbox ==
    \A a \in Accounts : Live(a) /\ account[a].auth = "oauth2" =>
        consents[account[a].refresh.content] = account[a].email

\* No agent is told to reconnect a mailbox that has nothing to reconnect:
\* reconnect_required is only ever recorded for OAuth mailboxes.
ReconnectOnlyOAuth ==
    \A a \in Accounts : Live(a) /\ account[a].status = "reconnect_required" =>
        account[a].auth = "oauth2"

\* No outcome of a load of a is still to be recorded, and the last load found
\* credentials or that they must be renewed: health says which.
HealthIsLastOutcome(a) ==
    Live(a) /\ ~Unrecorded(a) /\ lastOutcome[a] \in Outcome =>
        /\ account[a].status = StatusOf(lastOutcome[a])
        /\ account[a].detail = DetailOf(lastOutcome[a])

\* The health of every mailbox is the outcome of the last attempt to load its
\* credentials, if that attempt had one; the debounce never hides a change.
HealthReflectsLastAttempt == \A a \in Accounts : HealthIsLastOutcome(a)

OneLoadAtATime(a) ==
    LET loading(c) == /\ caller[c].pc \in {"refreshing", "loaded", "recording"}
                      /\ caller[c].on = a
    IN  \A c, d \in Callers : loading(c) /\ loading(d) => c = d

\* As long as loads of one mailbox do not overlap, and whenever the last of
\* them found credentials or that they must be renewed, its health says which:
\* whatever overlaps on other mailboxes, the debounce never hides a change, nor
\* does a restart, a reconnect or an earlier load that failed otherwise.
HealthOfLoneLoadsOf(a) == []OneLoadAtATime(a) => []HealthIsLastOutcome(a)

HealthOfLoneLoads == \A a \in Accounts : HealthOfLoneLoadsOf(a)

=============================================================================
