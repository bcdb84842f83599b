# Postara in TLA+

Postara gives agents access to a person's mailboxes: users sign in to a web
application, connect mailboxes by app password or Google OAuth, and hand out
API keys; an agent lists mailboxes, reads messages and marks them as seen. One
uvicorn process serves everything; state lives in PostgreSQL (an application
database and a separate audit database) and in the process's memory.

These modules model the parts of it that are hard to test: concurrent requests
on one event loop whose transactions interleave at every `await`, work that
spans two databases, credentials that are refreshed while they are replaced,
and provider calls that time out. TLC checks them on small instances; TLAPS
proves the most important invariants for every value of the constants.
`PROJECT.json` lists the runs, the theorems, the source lines behind every
definition, and the hazards the properties are for.

## 1. The system

| Component | State | Operations | Met by |
|---|---|---|---|
| Audit outbox (`repositories.py`, `api.py` loop) | rows of `app.audit_outbox`, rows of `audit.events` | enqueue in the operation's transaction, dispatch pass, mark delivered or failed | every state-changing call of the account service (those of the user service enqueue nothing); lifespan starts and cancels the task |
| Mailbox credentials and health (`accounts.py`, `repositories.py`, `crypto.py`) | credential, token, `key_version`, expiry and health columns of `app.accounts` | connect, reconnect, change password, delete, load for the runtime (refreshing), record health | folder, message and mark-seen handlers load before each provider call |
| Mailbox directory (`accounts.py`, `repositories.py`, `api.py`) | names and addresses of `app.accounts`, `app.pending_mailbox_verifications` | create, verify-start, verify-complete, OAuth callback, rename, delete | the web application |
| IMAP executor (`imap_executor.py`, `mailbox.py`) | thread pool queue, semaphores per account | `run` with timeout and cancel | every provider call |
| OAuth client and state (`oauth.py`) | none (the state is signed and carried by the browser) | sign, verify, exchange code, refresh | the mailbox directory and the credential load |
| Authentication limiter (`auth_protection.py`) | one bucket per address and per client | check, record failure, clear, purge | register and login |
| Users, sessions, API keys (`users.py`) | users, sessions, keys | register, login, authenticate, revoke, change password, disable, create and delete keys | every handler's dependency |
| API key rate limiter (`rate_limit.py`) | time stamps per key, in memory | check | key authentication |
| Message listing (`providers/gmail.py`) | none | list a page by cursor, fetch, mark seen | message handlers |
| Audit redaction (`audit.py`) | none | sanitize nested extra fields | every event |
| In-memory services, configuration, secrets, migrations, pages, scripts | start-up state or stand-ins | | |

Components meet in four ways. A service call changes application rows and
inserts an outbox row in one transaction; the background task reads the rows
another transaction committed. A handler loads a credential (one transaction,
possibly with an HTTP request to Google inside it), the load records health (a
second transaction), and only then does the handler run the provider call in
the thread pool. All handlers share one event loop, which a provider call
blocks. Everything else meets in rows of the application database, read
without locks at READ COMMITTED.

What is hard, by component, and what makes it correct:

* **Outbox.** Two databases cannot commit together. An error, a lost
  acknowledgement or a crash may fall between append and mark. Correct: no
  committed event is lost, none is invented, duplicates only come from counted
  failures, a settled row stays settled, and everything pending is settled once
  failures cease.
* **Credentials.** The refresh works with values read before an `await`; an ORM
  update writes only the columns that differ from what was read; one
  `key_version` serves three ciphertexts. Correct: the stored credentials are of
  the mailbox's kind, of one consent, decryptable, for the mailbox's address;
  health is the outcome of the last load.
* **Directory.** Checks come before inserts, with other requests between them;
  unique constraints decide. Correct: unique names and addresses, hosted
  mailboxes only with a settled verification, one mailbox per verification.
* **Executor and marking.** Timed-out calls keep their worker and act later; the
  provider's effect, its confirmation and the audit row can part. Correct:
  permits conserved, nothing is recorded or reported that the provider has not
  carried out, what outlives its request belongs to one that was told of an
  error, only abandoned calls override newer ones, every request is answered, no
  worker deadlock.
* **Authentication limiter.** A failure is counted by reading a row, computing
  and storing it in three transactions. Correct: nobody is locked out without
  the failures that earn it, what a bucket lacks of the failures against it is
  bounded by what overlapped, failed or was withheld by the lock of the email
  bucket, and no password is tried while a bucket has been locked all along.
* **Users and sessions.** The first user becomes owner by a count read before the
  insert; a password change ends sessions it finds by a query. Correct: there
  is an owner, no other session survives a change, revocation is final.
* **API keys.** Between the check of a key, the lookup of a name and the load of
  the credential, keys are disabled and mailboxes renamed, deleted and created.
  Correct: a request works on the mailbox it named, a bound key reaches no other
  one, and a disabled key stays so until the owner enables it.
* **Listing and API key limiter.** Pages of a mailbox that changes, and a sliding
  window that is pruned only when a request comes. Correct: nothing is listed
  twice or missed, the window is exact, and the listing ends.

`PROJECT.json` "hazards" names each of these at its line.

## 2. Modules

| Module | Contents |
|---|---|
| `AuditDelivery` | abstract specification: events are published, delivered at least once, settled |
| `AuditOutbox` | the outbox, the dispatch pass, failures, crash and restart; refines `AuditDelivery` |
| `AuditOutbox_proofs` | its theorems |
| `MailboxCredentials` | credential and health columns under concurrent loads, refreshes and reconnects |
| `MailboxCredentials_proofs` | its theorems |
| `MailboxRegistry` | abstract specification: mailboxes and verifications, changed by one request at a time |
| `MailboxDirectory` | names, addresses and verifications under overlapping transactions; refines `MailboxRegistry` |
| `MCMailboxDirectory` | symmetry for its model checking |
| `MailboxDirectory_proofs` | its theorems |
| `ImapExecutor` | the thread pool, its semaphores, the waiting event loop |
| `MarkSeen` | `ImapExecutor` with the mark-seen handler, the provider and the audit row |
| `MarkSeen_proofs` | the theorems of both, that `MarkSeen` implements `ImapExecutor` among them |
| `KeyAccess` | API keys, sessions and the mailboxes they reach |
| `MCKeyAccess` | symmetry for its model checking |
| `KeyAccess_proofs` | its theorems |
| `MessageListing` | paging through a changing mailbox under the API key limiter |
| `MCMessageListing` | its limits for model checking |
| `MessageListing_proofs` | its theorems |
| `AuthLimiter` | the failure buckets of login and registration under overlapping attempts |
| `MCAuthLimiter` | symmetry for its model checking |
| `AuthLimiter_proofs` | its theorems |
| `UserDirectory` | abstract specification: users and sessions, changed by one operation at a time |
| `UserAccess` | users, roles, passwords and sessions under overlapping transactions; refines `UserDirectory` |
| `MCUserAccess` | symmetry for its model checking |
| `UserAccess_proofs` | its theorems |

Definitions headed `Mutant:` are not part of a specification. Each repeats the
definition it precedes with a plausible mistake; `PROJECT.json` "mutants" pairs
it with the property that fails when it takes the definition's place.

### AuditOutbox

`change[i]` is a business change of the account service and `row[i]` the outbox
row that tells of it, two flushes of one session: `Change` begins the
transaction, `Enqueue` flushes the row, `Commit` ends both, and `Rollback` is an
exception anywhere in the block. A row is `open` from its flush to the end of
the transaction, then `pending` while `delivered_at` is NULL, `delivered`, or
`rolledback`. `LogMatchesChanges` relates the three: the audit log tells of
committed changes only, and every committed change has its row. `logged[i]` counts the copies in `audit.events`.
The background task is `pc` with `batch`, the rows its only read returned.
`AppendEvent`, `MarkDelivered` and `MarkFailed` are the three transactions of
`dispatch_audit_outbox`. Each may raise, and one that raises may still have
committed (the second disjunct of `AppendFails`, `MarkDeliveredFails`,
`AbandonPass`). `AbandonPass` is an exception of `mark_failed`, which the loop
suppresses. `Crash` stops the process anywhere; it rolls open transactions back.

### MailboxCredentials

`account[a]` is a row; a token is named by the consent it stems from and a
ciphertext by its content and key version, so `Readable` is exactly whether
`decrypt` succeeds. `caller[c]` is a request between its awaits: `refreshing`
(the HTTP request to Google, with the refresh token read before), `loaded`
(about to record health), `recording` (health columns read, not yet written),
`reconnecting` (row read, UPDATE not yet written). `Column`, `WithHealth` and
`Reconnected` write only the columns that differ from the values read, as
SQLAlchemy does. `expiry` abstracts the clock: a token `due` is one within five
minutes of its expiry; `checkedRecently` is the ten-minute debounce window.
`Restart` drops the requests and may activate the next key version.
`lastOutcome` is history: how the last load of a mailbox ended, with credentials,
a reason to reconnect, or (`Abort`) any other exception, which
`get_credential_for_runtime` does not record.

### MailboxDirectory

A request is `ready` when it has read and checked, `flushed` when its statement
is done but not committed, and then commits or fails. `Waits` is PostgreSQL's
rule that a statement waits for the open transaction that changed the same row
or holds the same unique key; `Duplicate` is the unique constraints. `Fail`
stands for a lost connection, a failed provider call or email, and a crash.
`RefuseCode` is the exception that leaves `session.begin()`. That the user's
first mailbox has the signup address is a rule of verify-start alone
(`BeginVerification`); `Store` of the registry keeps it in the form in which it
holds: a verification of another address is stored only once there has been a
mailbox. For mailboxes themselves it does not hold (section 5).

`MailboxRegistry` has the same rows and no requests: `Connect`, `Complete`,
`Store`, `Rename`, `Reconnect` and `Delete` each read and change everything at
once, and only what they are about. `ImplementsRegistry` says that every commit
is one of these, so what one request at a time would do is all that overlapping
ones do, although the checks, the statement and the commit of a request are
apart and READ COMMITTED orders none of them. One operation is wider than one
would write without having read the code: a verification can be completed a
second time once the mailbox of the first completion is deleted, by a request
that had checked the code before.

### ImapExecutor and MarkSeen

`job[c]` is a call's state in the pool, `loop` the event loop's thread in
`run`. `runtime` methods are called without `await`, so one call is waited for
at a time and `loop` is one variable; `_resolve` awaits only results that are
awaitable. The call that is waited for competes with abandoned calls, which
keep their worker and permit until their socket timeouts end them. `Restart`
empties the pool.

`MarkSeen` composes this with what is at either end of a call. Its actions are
conjunctions: `Call`, `Resume` and `GiveUp` are `Submit`, `Return` and `Cancel`
together with the handler's step, `WorkEnds` is `Finish` together with the
outcome of `work()`. `command[c]` is what the provider makes of the STORE
command: it may be carried out after the worker has given up, or never, and
`work()` may raise although it was (`raised`). `shown[a]` is the call whose
value the flag has. A message may be `gone`, or never have been there:
`GmailAdapter.mark_seen` sends UID STORE without looking, and the server carries
that out without effect (`void`) and confirms it like any other. Success
therefore shows that the command was carried out (`RecordedIsCarriedOut`), not
that a message was marked (section 5). `audited` are the rows of
`record_message_seen`; the outbox takes over from there (`AuditOutbox`).

That every mark is recorded is not claimed, because the code does not give it:
a call that timed out or whose confirmation was lost has no audit row and may
take effect long after its 502, also over a newer request that was answered
with 200.

### AuthLimiter

`bucket[b]` is a row of `app.auth_attempt_buckets`; of its columns
`failure_count`, `window_started_at` and `locked_until` matter (`count`,
`start`, `locked`), the other time stamps are read by nobody. `req[r]` is an
attempt in one of the three loops over `_bucket_keys`: `check` (with `discard`
between the read of an expired bucket and its deletion), `clear` after a
success, `record` after a failure. Recording goes from reading (`record`)
through deleting an expired row (`renew`) to the two statements of `upsert`
(`select`, `write`). `mine` is the bucket computed at time `at`, `seen` the row
that `upsert` read; `Updated` writes the columns that differ between them. A
row deleted in between is `Gone` and makes the update fail (`Fail`, which also
stands for the unique key and for lost connections). `LockedIsRefused` speaks
of the buckets the check came to: a challenge that is passed on the first
bucket admits the attempt, and the second bucket is not looked at.

The variables `failures`, `since`, `missed`, `during` and `shut` are history.
`since[b]` counts the failed attempts at `b` since it was empty, from the moment
the password was rejected (`Reject`), whether or not they ever reach the row.
`missed[b]` is how many of them the row may lack for good: those stored by others
while a request held a copy it had read (`during`), those of requests that ended
in an error, and, for a client address, those whose email bucket was locked:
the exception of `_record_bucket_failure` leaves the loop before the second bucket
(`WriteRow`), with no overlap and no error. `Owing` are the failures still on
their way. `FailuresCount` says that nothing else is lost.

### UserAccess

`user[u]` and `session[t]` are rows; a password is its number in the user's
sequence, and `under` remembers which one was in force when a session was
opened. A request is `registering` (users counted), `login` (password
verified), `authenticated` (`require_user_session` has answered; the handler
goes on with the role read then), `ready` (about to change a password) or
`flushed` (password and revocations written, not committed). `RowLocked` is the
row lock of a flushed change: a login writes `last_login_at` and so waits for
it, which is what keeps a session from slipping in between the query of
`_revoke_other_sessions` and the commit.

`UserDirectory` has users and sessions and no requests: signing up, in and out,
expiry, changing a state, and changing a password, which ends all sessions of
the user but the one it is made in and none of anybody else.
`ImplementsDirectory` says that every commit is one of these on the rows as they
are at that moment. `SignIn` has no guard on the password or the state of the
user, because both were checked earlier and may have changed since.

Two things the properties do not claim, because the code does not give them.
Two first registrations that overlap may both count no users and both become
owner. A login that verified the old password before a change, and commits
after it, opens a session that the change does not end.

### KeyAccess

`mailbox[m]` and `key[k]` are rows, named by ids that are given out once. A
request of an agent goes through `read` (the key's row is read), `granted`
(`last_used_at` written, the key accepted), `found` (scope, name and bound
mailbox checked) and `operating` (credential loaded by id, the provider is
called); each is a transaction of its own, and the mailboxes and keys may change
in between. A session enters at `granted` with every scope. `named` is history:
the mailboxes that have borne the name a request asks for since it began.

The check and the use are not atomic, and the properties do not claim that they
are: a key that is disabled after `authenticate_api_key`, or a mailbox renamed
after the lookup, is still served to the end of the request. `SetStatus` writes
what the ORM would: an enable that read an enabled key writes nothing, even if a
disable committed in between. `authenticate_api_key` does not look at the state
of the key's user, so neither does `ReadKey`.

### MessageListing

`box` and `unread` are the folder as the provider sees it, UIDs ascending; the
agent asks for one page after the other with the same `query` until it gets no
cursor. `Search` and `Fetch` are the two phases of the library's `fetch`: a
message can go between them and is then left out. `events` is the limiter's
deque, each event by its age; `Admit` and `Stamp` are the two readings of the
clock inside one critical section, which other requests with the key cannot
enter (`OtherRequest`). `through` (messages that matched all along), `lost` (a
page was cut short) and `accepted` (the age of every request the limiter has accepted,
also those whose events have left the deque) are history.

The code does not check `limit`: zero answers an empty page, and a negative one
drops the oldest messages of the page (the library's slice). It takes a page
that is short for the last one, also when it is short because a message went
away during the fetch. `ListedExactlyOnce` excludes both from completeness and
neither from order and uniqueness.

## 3. Runs

| Run | Bounds | Shows |
|---|---|---|
| AuditOutbox | 3 rows, batches of 2, 2 counted attempts, 2 interruptions | safety, liveness and refinement of the outbox |
| CredentialsOverlap | 1 mailbox, 2 addresses, 2 requests, 2 consents, 2 key versions | what holds of stored credentials when loads and reconnects overlap; the health a load leaves that overlaps no other |
| CredentialsStale, CredentialsRotation, CredentialsHealth | as above | violations, see section 5 |
| Directory | 3 mailboxes, 2 names, 2 addresses, 2 verifications, 2 requests, 1 wrong code each; symmetry | uniqueness and verification under overlap; refinement of the registry |
| DirectoryAttempts | 1 of each | violation, see section 5 |
| MarkSeen | 2 accounts, 2 workers, 1 permit each, 3 calls, 1 crash, one message that may go | permits, work that outlives its request, marks and their records, progress |
| AuthLimiter | 2 attempts, 2 addresses, 1 client, limit 1, challenge from 1, window 1, lock 2, clock to 2, 2 failures a bucket; symmetry | locks, counted and lost failures, refusals |
| UserAccess | 2 users, 3 sessions, 2 requests, 2 password changes each; symmetry | owner, password changes; refinement of the directory of users |
| KeyAccess | 2 users, 2 names, 2 mailboxes, 1 key, 2 requests; symmetry | names, bound keys, disabled keys |
| MessageListing | limit 2 per window of 2, page limits -1, 1 and 2, 3 messages, 1 request of others, 1 error | pages, window, progress |

Why these bounds are enough to be interesting. Outbox: a batch of two of three
rows leaves one row behind the batch, two attempts let a row fail and fail
again, and two interruptions allow a crash during recovery from an abandoned
pass. Credentials: every hazard is between two requests on one row, two
consents tell an old grant from a new one, two versions an old key from a new
one. Directory: two requests make every race of check and insert, three keys
allow a mailbox to be deleted and created again beside another one, two names
and addresses allow a clash in either or both. Marking: with
two workers and one permit each, one abandoned call holds a permit and another
a worker that waits for it, while a third call is cancelled in the queue, or
overtakes and is overtaken by them; a crash may fall on any of it. Keys: two
users make another user's mailbox of the same name, two mailboxes a bound one
that is deleted while the other takes its name, two requests an owner beside
an agent or two owners; properties speak of one key at a time. Listing:
three messages with a limit of one or two make up to four pages, the last of
them full or empty; two accepted requests fill the window, so the listing must
wait for it, and one request of another user of the key can take a place.
Limiter: two attempts share the client's bucket and may share the address; with
limit 1 the second failure locks, so a lock, an expired window (length 1), a
lock that outlasts its window (length 2) and a challenge all occur before the
clock ends. Users: two requests make a change race with a login, a logout or
another change, and three tokens leave a session on each side of a change.
Every bound is a constant, and each guard it appears in says so
(`FailureBudget`, `Consent`, `WrongCode`, `Submit` by the size of `Calls`,
`Expunge` by `Fleeting`, `Crash`, `Tick`, `Reject`, `ReadFailure`, `FlushPassword`, `Arrive`, `OtherRequest`,
`Fail`).

All deadlock checks are on. `ImapExecutor` and `MarkSeen` have the explicit
actions `Done` and `MarkDone` for the end of their bounded runs, `MailboxDirectory` the request that is refused at
once (`Refuse`); `AuthLimiter` and `UserAccess` can always end a request
(`Fail`, `End`) and begin another, as can `KeyAccess` (`End`); in
`MessageListing` time goes on.

Symmetry is used in the Directory, AuthLimiter, UserAccess and KeyAccess runs,
none of which has a liveness property. In Directory the addresses are not symmetric
because one of them is the signup address.

### Fairness

* `AuditOutbox!Fairness`: weak fairness of starting a pass, of the next step of
  an item, and of a restart. The loop is `while True` with a sleep, an awaited
  statement returns or raises, and the container is restarted by its
  supervisor. Committing and rolling back are not fair: nothing obliges a
  client. Failures are not excluded by fairness but by a budget, so
  `EventuallySettled` reads "once failures cease".
* `MarkSeen!MarkFairness`: the threads run, the timer fires, the handler goes on,
  and the work ends, because every socket has `timeout=` (`mailbox.py` 45-49);
  the transaction of `record_message_seen` ends, well or badly. Calling is not
  fair, and neither that the provider carries a command out nor that it
  confirms one is assumed. Acquiring is only weakly fair: a semaphore gives no
  order among waiters; with finitely many calls no one can be overtaken for
  ever.
* `MessageListing!FairSpec`: the agent goes on and time passes. Requests of
  others and errors have budgets, so `ListingEnds` reads "once these cease";
  the mailbox may change for ever, but new messages come with new UIDs above
  the cursor.

## 4. Proofs

Each proof module extends its specification. The theorems hold for every value
of the constants that satisfies the module's named assumption, which TLC
evaluates in every run.

* **AuditOutbox_proofs.** Between the two transactions of an item the audit log
  is ahead of the row, so neither `DeliveredIsLogged` nor `DuplicatesAccounted`
  is inductive. The invariant says which row may be ahead: only the current one,
  only in `appended` and `failing`, and by one copy (`CountInv`); in `appended`
  its event is in the log (`LogInv`); and the rows of the batch are pending,
  except the current one after a `mark_delivered` whose acknowledgement was lost
  (`BatchInv`). `Refinement` maps each step to a publication, a delivery, a
  settlement or a stutter of `AuditDelivery`; the invariant supplies that what
  is delivered is published and not settled. `LogMatchesChanges` needs the change
  and the row followed together from the first flush to the end of their
  transaction (`ChangeInv`). Two theorems are the safety halves
  of `EventuallySettled`: a pass is never stuck (`PassNotStuck`; it begins with
  at least the oldest pending row, whatever the limit, and a failure is only met
  where it can be recorded), and a row leaves it only settled, with a counted
  failure, or by an interruption of the whole pass (`PassAdvances`).
* **MailboxCredentials_proofs.** `RowOK` gathers shape, common consent and
  readability of one row, and each rewriting of a row is shown to keep it. A
  refresh overwrites both tokens and the version together, so they agree
  whatever was stored meanwhile; but it must only ever meet an OAuth row, as
  must the write of a reconnect and a failure's record. `CallerInv` completes
  the induction: the row such a request works on, if it still lives, is an
  OAuth row, because the kind of a mailbox never changes. `HealthHeld` adds, for
  `HealthOfLoneLoads`, that a request about to write the health carries the last
  outcome and has read what the row still holds. It is stated of one mailbox and is
  inductive as long as two loads of that mailbox are never under way together,
  which is the property's premise; loads of other mailboxes, reconnects,
  restarts and attempts that record nothing may fall anywhere. The overlap that
  breaks it is the run `CredentialsHealth`; after an attempt that records nothing
  the property claims nothing until the next one (section 5).
* **MailboxDirectory_proofs.** Uniqueness is not inductive by itself: a commit
  makes a flushed row visible long after the check. `FlushedApart` says that a
  flushed row clashes with no committed row of another mailbox and with no
  other flushed row, and that no two requests have flushed the same mailbox.
  `Waits` and `Duplicate` establish it at the flush; it makes the commit safe.
  `InsertsComplete` (a statement that inserts writes every column) and
  `CompletesStored` (a completion refers to a stored verification) are what
  type correctness needs. For the properties of verification, `VInv` follows
  what vouches for a row from the check to the commit: an insert carries its
  verification and the verification's address, a change of an existing row
  touches neither that link nor the address of a verified row (`RequestsFit`),
  and no two requests write a row that is still to be inserted (`InsertsAlone`).
  `OneAtATime` is the refinement of `MailboxRegistry`. A commit maps to one
  operation of it because a flushed row differs from the row it replaces in the
  name only or the address only, and an insert that completes a verification
  has that verification's name and address (`RequestsNarrow`); the row is the one
  that was read, since the flush holds it until the commit; and a settled
  verification names the mailbox it created, if that is alive (`MailboxNamed`).
  Of two requests that complete one verification the second to commit is
  refused: both mailboxes would have the verification's address
  (`VerificationOfOne`), which gives the registry's guard.
* **AuthLimiter_proofs.** A request may store a bucket it computed long ago, and
  only some columns of it, so that locks are earned cannot be seen from the rows
  alone. `Backed` says of every row and of every bucket a request still holds
  that its count is at most the failures recorded under its key and that its
  lock is covered by more than `Limit` of them. Both are column by column and
  failures only grow, so a mixture of two backed buckets is backed. `HasMine`
  supplies that whoever stores a bucket has computed one. `PassedOpen` follows
  the check bucket by bucket for `LockedIsRefused`. For `FailuresCount`,
  `Reckoned` balances every bucket and every copy of it that is still held: what
  a request is about to store, with what others have stored meanwhile and what
  is owed by the rest, covers the failures since the bucket was empty. A store
  moves what it overwrites from `during` to `missed`; a deletion starts the
  account anew with what is still owed.
* **UserAccess_proofs.** A flushed change commits without looking at the sessions
  again. `VictimsComplete` says that what it found still is every live session
  of the user but its own; it stays so because the change alone holds the
  user's row (`RowHeldOnce`) and a login needs it. `MembersFollow` says that a
  request registers a member only where somebody exists, which with users never
  being deleted gives the owner. `Referenced` is that rows which sessions and
  requests point at exist. `OneAtATime` is the refinement of `UserDirectory`; it
  needs `VictimsComplete` for sessions that have expired as well as for live
  ones, and in both directions, since an atomic change ends exactly those.
  `RevokedForGood`, that revocation is final, follows from what a step does to
  one session (`SessionsKept`).
* **MarkSeen_proofs.** Of the pool: permits are counted against sets, so each
  step that starts or ends work is shown to change `Running` of one account by
  one element (library facts on cardinality). `OnlyNewestAwaited` needs that
  calls are submitted in order. `EveryCallSettles` itself is beyond the prover,
  but the two facts it rests on are proved. `PoolNotStuck`: while any call is
  open, a worker can go on; if all are waiting for a permit, permits are free,
  because the permits missing are held by calls that run. `CallsAdvance`: each
  step but a new call moves a call to a later stage and no call to an earlier
  one, so there are only finitely many of them. Of marking: `ImplementsExecutor`
  shows that every step is a step of the executor or leaves it alone, which
  brings the executor's theorems over. For `OlderMarkOnlyAfterError` the
  invariant relates the three actors: a handler waits exactly for the call the
  loop waits for (`Waits`), a command is sent only by a call that was run
  (`Begun`), and a handler that records has a command that was carried out (`Confirmed`). An
  older call that is applied after a newer one was submitted is then one the
  loop no longer waits for, so that its handler has answered with an error or
  died. `OnlyErrorsOutlived` turns this round: a call that still has a worker
  is waited for or was answered with an error. `RecordedIsCarriedOut` is
  `Confirmed` carried on to the audit row and the answer. `RequestsAdvance` says that a
  request is answered once and never taken back; with `Waits`, by which the
  timer alone ends every call, it is the safety half of `EveryRequestAnswered`.
* **KeyAccess_proofs.** A request acts on a mailbox it looked up earlier, so the
  invariant carries what was true then: `NamedNow` says that history has every
  mailbox that bears a requested name now, and `Reached` and `Shown` that a
  mailbox a request has come to was born, is the key's user's or has gone, and
  is the bound one if there is one. This lasts because an id is given out once.

* **MessageListing_proofs.** Of the limiter, `LimiterInv` compares the deque with
  the history of all accepted requests: the deque is the end of the history, and
  everything before it is out of the window. Pruning removes from the left up to
  the first live event, which is exact because events are in order of age; so
  the deque's length after pruning is the number of live events of the history,
  which is what `WindowExact` is about. Of the pages, `ListingInv` says that what
  is listed is in descending order at or above the cursor and the page below it,
  and that every message that matched all along is listed, on the page, or still
  to come: below the cursor, or below a page that is full. That the search
  returns the newest matching UIDs in order is proved of every finite set of
  UIDs without induction over data, by the least counterexample of a set of
  numbers. `PagesDescend`, the step `ListingEnds` rests on, says that every answer
  with a next page lowers the cursor.

All invariants and action properties that the runs check, and all refinements
(of `AuditDelivery`, `MailboxRegistry`, `UserDirectory` and `ImapExecutor`), are
proved. Only model-checked is liveness (`EventuallySettled`,
`EveryCallSettles`, `EveryRequestAnswered`, `ListingEnds`), which is beyond the
prover; its safety halves are proved. The properties of section 5 do not hold.

## 5. Where code and documents disagree

Four runs are expected to end in a violation.

* **CredentialsHealth.** `docs/agent-api.md:82` says that health reflects the
  last attempt to load the credentials. Two overlapping loads write it in the
  order of their second transactions, column by column: the row can keep the
  older outcome, or status `ok` with detail `oauth_refresh_failed`.
* **CredentialsRotation.** Storing an app password on an OAuth mailbox sets the
  shared `key_version` to the active one without re-encrypting the tokens
  (`repositories.py:339-345`). After a rotation the tokens cannot be decrypted
  (the repository's tests assert they can, `tests/test_repositories.py:280`).
  `CredentialsReadable` states what does hold: all other mailboxes stay
  readable.
* **CredentialsStale.** A refresh in flight while the mailbox is reconnected
  with another Google account stores the old account's tokens beside the new
  address. `TokensFromOneConsent` is what does hold.
* **DirectoryAttempts.** A wrong code is counted inside the transaction that its
  exception rolls back, so the limit of five attempts never applies in the
  repository service (the tests, and the in-memory service, count it).

Three more disagreements are in the models, whose properties state what the code
does and not what the documents say; no run is made for them.

* `docs/agent-api.md:82` again, for a single load: only success and
  `MailboxReconnectRequiredError` are recorded (`accounts.py:853-861`). A load
  that fails because a token cannot be decrypted, say after a rotation and a
  stored app password, or by an unexpected reply, leaves health `ok` behind
  (`MailboxCredentials!Abort`). `HealthOfLoneLoads` is what does hold: when the
  last load had an outcome to record, health is that outcome.
* `docs/agent-api.md:243` promises `404 message_not_found`, and the mark-seen
  handler has a case for it, but the adapter sends UID STORE without looking
  (`providers/gmail.py:80-83`): marking a message that is gone is answered with
  200 and recorded in the audit log, and marks nothing (`MarkSeen!Apply`).
  `RecordedIsCarriedOut` is what does hold: nothing but the absence of the
  message keeps a recorded mark from being there.
* `api.py:1096` says that the first mailbox must match the signup email in hosted
  mode. Only verify-start checks it; an OAuth callback makes the first mailbox
  one of any Google address (`MailboxDirectory!PrepareConnect`).

## 6. Not modelled

Outside: the redaction of audit fields and the signature of the OAuth state
(pure functions that unit tests reach), IMAP parsing, SMTP, the cryptography, HTML and the built front end,
migrations, shell scripts, and error texts. The in-memory services are
stand-ins for the repository services. `purge_before`, `purge_expired`,
`shutdown` and the per-account API keys have no caller in the program.

Abstractions to be aware of: provider calls are opaque work; the clock is a
nondeterministic step; addresses are opaque, so differences of case are not
seen, nor that verify-start compares them without case and the other routes do
not; one user's mailboxes are modelled in the directory, users do not share
rows. Pending verifications are never purged by the code; the growth of that
table and of the executor's dictionary of semaphores is not modelled.

## 7. Plan

Sections 2 to 5 are done. What would come next is the agent that skips mailboxes
by their health, composed with `MailboxCredentials`: whether a reconnected
mailbox is ever loaded again.
