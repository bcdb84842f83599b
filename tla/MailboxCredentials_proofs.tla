---------------------- MODULE MailboxCredentials_proofs ----------------------
(***************************************************************************)
(* Proofs about MailboxCredentials for any number of mailboxes, addresses, *)
(* concurrent requests, consents and key versions.                         *)
(*                                                                         *)
(* The properties of one row are gathered in RowOK, and each way the code  *)
(* rewrites a row is shown to preserve it.  What a request carries across  *)
(* its awaits is only safe because the kind of a mailbox never changes     *)
(* while its row exists: CallerInv says so, and completes the induction.   *)
(* HealthHeld, at the end, is kept as long as loads of a mailbox do not    *)
(* overlap.                                                                *)
(***************************************************************************)
EXTENDS MailboxCredentials, SequenceTheorems, TLAPS

RowOK(r) ==
    /\ IF r.auth = "app_password"
         THEN /\ r.password # None
              /\ r.refresh = None
              /\ r.access = None
              /\ r.status # "reconnect_required"
              /\ Readable(r, r.password)
         ELSE /\ r.refresh # None
              /\ r.access # None
              /\ r.access.content = r.refresh.content
              /\ r.password = None =>
                    Readable(r, r.refresh) /\ Readable(r, r.access)

GoodRow == {r \in Account : RowOK(r)}

\* Requests that may yet record reconnect_required or store tokens.
NeedsOAuth(call) ==
    \/ call.pc \in {"reconnecting", "refreshing"}
    \/ call.pc \in {"loaded", "recording"} /\ call.outcome # "ok"

OAuthIfLive(r) == r \notin {None, Deleted} => r.auth = "oauth2"

\* A request never outlives the kind of the mailbox it has read.
CallOK(call, rows) == call # Idle =>
    /\ rows[call.on] # None
    /\ NeedsOAuth(call) => OAuthIfLive(rows[call.on])

CallerInv == \A c \in Callers : CallOK(caller[c], account)

RowsGood == \A a \in Accounts : Live(a) => RowOK(account[a])

IInv ==
    /\ TypeOK
    /\ Len(consents) <= MaxConsents
    /\ RowsGood
    /\ CallerInv

------------------------------------------------------------------------------
(* The row transformers.                                                    *)

\* What the cipher returns fits the ciphertext columns.
LEMMA EncryptType ==
    ASSUME TypeOK, NEW C, NEW content \in C
    PROVE  /\ Encrypt(content) \in Cell(C)
           /\ Encrypt(content).content = content
           /\ Encrypt(content).version = activeVersion
  BY DEF Encrypt, Cell, TypeOK

\* A ciphertext is not NULL.
LEMMA CellNotNone ==
    /\ \A cell \in Cell({AppPassword}) : cell # None
    /\ \A cell \in Cell(Consents) : cell # None
  BY ConstantsAssumption DEF Cell, Consents, AppPassword

\* Inserting an app-password mailbox makes a good row.
LEMMA NewAppPasswordGood ==
    ASSUME TypeOK, NEW email \in Emails
    PROVE  NewAppPassword(email) \in GoodRow
  <1>1. /\ Encrypt(AppPassword) \in Cell({AppPassword})
        /\ Encrypt(AppPassword).version = activeVersion
    BY EncryptType
  <1>2. NewAppPassword(email) \in Account
    BY <1>1 DEF NewAppPassword, Account, TypeOK
  <1>3. RowOK(NewAppPassword(email))
    BY <1>1, CellNotNone DEF NewAppPassword, RowOK, Readable
  <1>4. QED
    BY <1>2, <1>3 DEF GoodRow

\* Inserting an OAuth mailbox makes a good row.
LEMMA NewOAuthGood ==
    ASSUME TypeOK, Len(consents) < MaxConsents,
           NEW email \in Emails, NEW expiry \in {"never", "later"}
    PROVE  NewOAuth(email, expiry) \in GoodRow
  <1> DEFINE token == Encrypt(Len(consents) + 1)
             r == NewOAuth(email, expiry)
  <1>1. Len(consents) + 1 \in Consents
    BY ConstantsAssumption, LenProperties DEF TypeOK, Consents
  <1>2. token \in Cell(Consents) /\ token.version = activeVersion
    BY <1>1, EncryptType
  <1>3. token # None
    BY <1>2, CellNotNone
  <1> HIDE DEF token
  <1>4. r = [auth |-> "oauth2", email |-> email, password |-> None,
             refresh |-> token, access |-> token,
             keyVersion |-> activeVersion, expiry |-> expiry,
             status |-> "unknown", detail |-> None, checkedRecently |-> FALSE]
    BY DEF NewOAuth, token
  <1> HIDE DEF r
  <1>5. r \in Account
    BY <1>2, <1>4 DEF Account, TypeOK
  <1>6. RowOK(r)
    BY <1>2, <1>3, <1>4 DEF RowOK, Readable
  <1>7. QED
    BY <1>5, <1>6 DEF GoodRow, r

\* The columns a reconnect writes, whichever they are, keep an OAuth row good.
LEMMA ReconnectedGood ==
    ASSUME TypeOK, NEW r \in GoodRow, r.auth = "oauth2",
           NEW call \in [pc : {"reconnecting"}, on : Accounts, consent : Consents,
                         email : Emails \cup {None}, clearPassword : BOOLEAN,
                         expiry : {"never", "later", None}]
    PROVE  /\ Reconnected(r, call) \in GoodRow
           /\ Reconnected(r, call).auth = r.auth
  <1> DEFINE token == Encrypt(call.consent)
             email == IF call.email = None THEN r.email ELSE call.email
             password == IF call.clearPassword THEN None ELSE r.password
             expiry == IF call.expiry = None THEN r.expiry ELSE call.expiry
  <1>1. token \in Cell(Consents) /\ token.version = activeVersion
    BY EncryptType
  <1>2. token # None
    BY <1>1, CellNotNone
  <1>3. /\ email \in Emails
        /\ password \in Cell({AppPassword}) \cup {None}
        /\ expiry \in {"never", "later", "due"}
    BY DEF Account, GoodRow
  <1>4. Reconnected(r, call) =
          [r EXCEPT !.refresh = token, !.access = token,
                    !.keyVersion = activeVersion, !.email = email,
                    !.password = password, !.expiry = expiry]
    BY DEF Reconnected, Account, GoodRow
  <1> HIDE DEF token, email, password, expiry
  <1>5. Reconnected(r, call) \in Account
    <2>1. ASSUME NEW t \in Cell(Consents), NEW e \in Emails, NEW v \in Versions,
                 NEW p \in Cell({AppPassword}) \cup {None},
                 NEW x \in {"never", "later", "due"}
          PROVE  [r EXCEPT !.refresh = t, !.access = t, !.keyVersion = v,
                           !.email = e, !.password = p, !.expiry = x] \in Account
      BY DEF Account, GoodRow
    <2>2. activeVersion \in Versions
      BY DEF TypeOK
    <2>3. [r EXCEPT !.refresh = token, !.access = token,
                    !.keyVersion = activeVersion, !.email = email,
                    !.password = password, !.expiry = expiry] \in Account
      BY <1>1, <1>3, <2>1, <2>2, Zenon
    <2>4. QED
      BY <1>4, <2>3, Zenon
  <1>6. RowOK(Reconnected(r, call)) /\ Reconnected(r, call).auth = r.auth
    BY <1>1, <1>2, <1>4 DEF Account, GoodRow, RowOK, Readable
  <1>7. QED
    BY <1>5, <1>6 DEF GoodRow

\* A new app password keeps the row good and its kind unchanged.
LEMMA WithPasswordGood ==
    ASSUME TypeOK, NEW r \in GoodRow
    PROVE  WithPassword(r) \in GoodRow /\ WithPassword(r).auth = r.auth
  <1>1. /\ Encrypt(AppPassword) \in Cell({AppPassword})
        /\ Encrypt(AppPassword).version = activeVersion
    BY EncryptType
  <1>2. Encrypt(AppPassword) # None
    BY <1>1, CellNotNone
  <1>3. WithPassword(r) \in Account
    BY <1>1 DEF WithPassword, Account, GoodRow, TypeOK
  <1>4. RowOK(WithPassword(r)) /\ WithPassword(r).auth = r.auth
    BY <1>1, <1>2 DEF WithPassword, Account, GoodRow, RowOK, Readable
  <1>5. QED
    BY <1>3, <1>4 DEF GoodRow

\* Storing refreshed tokens keeps an OAuth row good.
LEMMA RefreshedGood ==
    ASSUME TypeOK, NEW r \in GoodRow, r.auth = "oauth2",
           NEW consent \in Consents, NEW expiry \in {"never", "later"}
    PROVE  /\ Refreshed(r, consent, expiry) \in GoodRow
           /\ Refreshed(r, consent, expiry).auth = r.auth
  <1> DEFINE token == Encrypt(consent)
  <1>1. token \in Cell(Consents) /\ token.version = activeVersion
    BY EncryptType
  <1>2. token # None
    BY <1>1, CellNotNone
  <1> HIDE DEF token
  <1>3. Refreshed(r, consent, expiry) =
          [r EXCEPT !.refresh = token, !.access = token,
                    !.keyVersion = activeVersion, !.expiry = expiry]
    BY DEF Refreshed, token
  <1>4. Refreshed(r, consent, expiry) \in Account
    BY <1>1, <1>3 DEF Account, GoodRow, TypeOK
  <1>5. RowOK(Refreshed(r, consent, expiry))
        /\ Refreshed(r, consent, expiry).auth = r.auth
    BY <1>1, <1>2, <1>3 DEF Account, GoodRow, RowOK, Readable
  <1>6. QED
    BY <1>4, <1>5 DEF GoodRow

\* Recording an outcome keeps the row good: reconnect_required goes only to
\* OAuth rows.
LEMMA WithHealthGood ==
    ASSUME NEW r \in GoodRow,
           NEW call \in [pc : {"recording"}, on : Accounts, outcome : Outcome,
                         status : {"unknown", "ok", "reconnect_required"},
                         detail : Failure \cup {None}],
           call.outcome # "ok" => r.auth = "oauth2"
    PROVE  WithHealth(r, call) \in GoodRow /\ WithHealth(r, call).auth = r.auth
  <1> DEFINE st == Column(call.status, r.status, StatusOf(call.outcome))
             dt == Column(call.detail, r.detail, DetailOf(call.outcome))
  <1>1. st \in {"unknown", "ok", "reconnect_required"}
    BY DEF Column, StatusOf, Account, GoodRow
  <1>2. dt \in {None, "credentials_missing", "oauth_refresh_failed"}
    BY DEF Column, DetailOf, Account, GoodRow, Outcome, Failure
  <1>3. r.auth = "app_password" => st # "reconnect_required"
    BY DEF Column, StatusOf, GoodRow, RowOK
  <1> HIDE DEF st, dt
  <1>4. WithHealth(r, call) = [r EXCEPT !.status = st, !.detail = dt,
                                        !.checkedRecently = TRUE]
    BY DEF WithHealth, st, dt
  <1>5. WithHealth(r, call) \in Account
    BY <1>1, <1>2, <1>4 DEF Account, GoodRow
  <1>6. RowOK(WithHealth(r, call)) /\ WithHealth(r, call).auth = r.auth
    BY <1>3, <1>4 DEF Account, GoodRow, RowOK, Readable
  <1>7. QED
    BY <1>5, <1>6 DEF GoodRow

\* The passage of time keeps the row good.
LEMMA AgedGood ==
    ASSUME NEW r \in GoodRow
    PROVE  /\ [r EXCEPT !.expiry = "due"] \in GoodRow
           /\ [r EXCEPT !.expiry = "due"].auth = r.auth
           /\ [r EXCEPT !.checkedRecently = FALSE] \in GoodRow
           /\ [r EXCEPT !.checkedRecently = FALSE].auth = r.auth
  BY DEF Account, GoodRow, RowOK, Readable

------------------------------------------------------------------------------
(* The steps.                                                               *)

\* Rows are never resurrected and keep their kind.
Evolves ==
    \A a \in Accounts : account[a] # None =>
        /\ account'[a] # None
        /\ Live(a)' => Live(a) /\ account'[a].auth = account[a].auth

\* A row is neither NULL nor the mark of a deleted one.
LEMMA LiveRow ==
    ASSUME TypeOK, NEW a \in Accounts, Live(a)
    PROVE  account[a] \in Account
  BY DEF TypeOK, Live

\* Inserting a good row, or replacing one by a good one of the same kind.
LEMMA RowStep ==
    ASSUME IInv, NEW a \in Accounts, NEW r \in GoodRow,
           account[a] = None \/ (Live(a) /\ r.auth = account[a].auth),
           account' = [account EXCEPT ![a] = r]
    PROVE  /\ account' \in [Accounts -> Account \cup {None, Deleted}]
           /\ RowsGood'
           /\ Evolves
  <1>1. r # None
    BY ConstantsAssumption DEF GoodRow
  <1>2. QED
    BY <1>1 DEF IInv, TypeOK, RowsGood, Evolves, Live, GoodRow

\* A step that leaves the table alone.
LEMMA SameRows ==
    ASSUME IInv, UNCHANGED account
    PROVE  /\ account' \in [Accounts -> Account \cup {None, Deleted}]
           /\ RowsGood'
           /\ Evolves
  BY DEF IInv, TypeOK, RowsGood, Evolves, Live

\* What a request that stays put has read is still true after rows evolve.
LEMMA CallEvolves ==
    ASSUME IInv, Evolves, NEW c \in Callers
    PROVE  CallOK(caller[c], account')
  <1>1. CASE caller[c] = Idle
    BY <1>1 DEF CallOK
  <1>2. CASE caller[c] # Idle
    <2>1. caller[c].on \in Accounts
      BY <1>2 DEF IInv, TypeOK, Caller, Idle
    <2>2. CallOK(caller[c], account)
      BY DEF IInv, CallerInv
    <2>3. QED
      BY <1>2, <2>1, <2>2 DEF CallOK, OAuthIfLive, Evolves, Live
  <1>3. QED
    BY <1>1, <1>2

\* The requests stay consistent with the table while rows evolve and at
\* most one request moves on.
LEMMA CallerStep ==
    ASSUME IInv, Evolves, NEW c \in Callers, NEW st \in Caller,
           CallOK(st, account'),
           caller' = [caller EXCEPT ![c] = st]
    PROVE  CallerInv' /\ caller' \in [Callers -> Caller]
  <1>1. caller' \in [Callers -> Caller]
    BY DEF IInv, TypeOK
  <1>2. ASSUME NEW d \in Callers PROVE CallOK(caller'[d], account')
    <2>1. caller'[d] = IF d = c THEN st ELSE caller[d]
      BY DEF IInv, TypeOK
    <2>2. QED
      BY <2>1, CallEvolves
  <1>3. QED
    BY <1>1, <1>2 DEF CallerInv

\* The same when no request moves.
LEMMA SameCallers ==
    ASSUME IInv, Evolves, UNCHANGED caller
    PROVE  CallerInv' /\ caller' \in [Callers -> Caller]
  <1>1. \A c \in Callers : CallOK(caller'[c], account')
    BY CallEvolves
  <1>2. QED
    BY <1>1 DEF IInv, TypeOK, CallerInv

-----------------------------------------------------------------------------
(* The actions.                                                             *)

\* The tables and counters outside rows and requests.
LEMMA RestStep ==
    ASSUME IInv, UNCHANGED <<consents, activeVersion, refresher, lastOutcome>>
    PROVE  /\ consents' \in Seq(Emails) /\ Len(consents') <= MaxConsents
           /\ activeVersion' \in Versions
           /\ refresher' \in BOOLEAN
           /\ lastOutcome' \in [Accounts -> Outcome \cup {"error", "none"}]
  BY DEF IInv, TypeOK

\* A consent adds one address within the bound.
LEMMA ConsentStep ==
    ASSUME IInv, NEW email \in Emails, Consent(email)
    PROVE  consents' \in Seq(Emails) /\ Len(consents') <= MaxConsents
  BY ConstantsAssumption, LenProperties, AppendProperties
  DEF IInv, TypeOK, Consent

\* Connecting, changing and deleting mailboxes and the passage of time keep
\* the invariant.
LEMMA ChangeStep ==
    ASSUME IInv, NEW a \in Accounts, Change(a) PROVE IInv'
  <1> USE DEF IInv
  <1>g. Live(a) => account[a] \in GoodRow
    BY LiveRow DEF GoodRow, RowsGood
  <1>1. ASSUME NEW email \in Emails, CreateAppPassword(a, email) PROVE IInv'
    <2>1. UNCHANGED caller /\ RowsGood' /\ Evolves
          /\ account' \in [Accounts -> Account \cup {None, Deleted}]
      BY <1>1, NewAppPasswordGood, RowStep DEF CreateAppPassword
    <2>2. QED
      BY <1>1, <2>1, SameCallers, RestStep DEF CreateAppPassword, TypeOK
  <1>2. ASSUME NEW email \in Emails, NEW expiry \in {"never", "later"},
               ConnectOAuth(a, email, expiry)
        PROVE  IInv'
    <2>1. /\ Consent(email) /\ Len(consents) < MaxConsents
          /\ UNCHANGED <<caller, activeVersion, refresher, lastOutcome>>
      BY <1>2 DEF ConnectOAuth, Consent
    <2>2. NewOAuth(email, expiry) \in GoodRow
      BY <2>1, NewOAuthGood
    <2>3. RowsGood' /\ Evolves
          /\ account' \in [Accounts -> Account \cup {None, Deleted}]
      BY <1>2, <2>2, RowStep DEF ConnectOAuth
    <2>4. QED
      BY <2>1, <2>3, ConsentStep, SameCallers DEF TypeOK
  <1>3. CASE UpdatePassword(a)
    <2>1. /\ WithPassword(account[a]) \in GoodRow
          /\ WithPassword(account[a]).auth = account[a].auth
      BY <1>3, <1>g, WithPasswordGood DEF UpdatePassword
    <2>2. RowsGood' /\ Evolves
          /\ account' \in [Accounts -> Account \cup {None, Deleted}]
      BY <1>3, <2>1, RowStep DEF UpdatePassword
    <2>3. QED
      BY <1>3, <2>2, SameCallers, RestStep DEF UpdatePassword, TypeOK
  <1>4. CASE Delete(a)
    <2>1. RowsGood' /\ Evolves
          /\ account' \in [Accounts -> Account \cup {None, Deleted}]
      BY <1>4, ConstantsAssumption DEF Delete, TypeOK, RowsGood, Evolves, Live
    <2>2. QED
      BY <1>4, <2>1, SameCallers, RestStep DEF Delete, TypeOK
  <1>5. CASE TokenComesDue(a)
    <2>1. RowsGood' /\ Evolves
          /\ account' \in [Accounts -> Account \cup {None, Deleted}]
      BY <1>5, <1>g, AgedGood, RowStep DEF TokenComesDue
    <2>2. QED
      BY <1>5, <2>1, SameCallers, RestStep DEF TokenComesDue, TypeOK
  <1>6. CASE CheckAges(a)
    <2>1. RowsGood' /\ Evolves
          /\ account' \in [Accounts -> Account \cup {None, Deleted}]
      BY <1>6, <1>g, AgedGood, RowStep DEF CheckAges
    <2>2. QED
      BY <1>6, <2>1, SameCallers, RestStep DEF CheckAges, TypeOK
  <1>7. QED
    BY <1>1, <1>2, <1>3, <1>4, <1>5, <1>6 DEF Change

\* A request that stops carries nothing.
LEMMA IdleOK ==
    /\ Idle \in Caller
    /\ \A rows : CallOK(Idle, rows)
  BY DEF Caller, CallOK

\* The states in which a load can leave its request.
LEMMA LoadedOK ==
    ASSUME NEW rows, NEW a \in Accounts, NEW outcome \in Outcome,
           rows[a] # None, outcome # "ok" => OAuthIfLive(rows[a])
    PROVE  LET st == [pc |-> "loaded", on |-> a, outcome |-> outcome]
           IN  st \in Caller /\ CallOK(st, rows)
  BY DEF Caller, CallOK, NeedsOAuth

\* So may a request that is about to rewrite an OAuth row.
LEMMA ReconnectingOK ==
    ASSUME NEW rows, NEW a \in Accounts, NEW g \in Consents,
           NEW email \in Emails \cup {None}, NEW clear \in BOOLEAN,
           NEW expiry \in {"never", "later", None},
           rows[a] # None, OAuthIfLive(rows[a])
    PROVE  LET st == [pc |-> "reconnecting", on |-> a, consent |-> g,
                      email |-> email, clearPassword |-> clear,
                      expiry |-> expiry]
           IN  st \in Caller /\ CallOK(st, rows)
  BY DEF Caller, CallOK, NeedsOAuth

\* So may one that has begun to refresh its token.
LEMMA RefreshingOK ==
    ASSUME NEW rows, NEW a \in Accounts, NEW g \in Consents,
           rows[a] # None, OAuthIfLive(rows[a])
    PROVE  LET st == [pc |-> "refreshing", on |-> a, refresh |-> g]
           IN  st \in Caller /\ CallOK(st, rows)
  BY DEF Caller, CallOK, NeedsOAuth

\* What is known of a request that is under way.
LEMMA BusyCaller ==
    ASSUME IInv, NEW c \in Callers, caller[c] # Idle
    PROVE  /\ caller[c].on \in Accounts
           /\ account[caller[c].on] # None
           /\ NeedsOAuth(caller[c]) => OAuthIfLive(account[caller[c].on])
           /\ caller[c].pc = "reconnecting" =>
                caller[c] \in [pc : {"reconnecting"}, on : Accounts, consent : Consents,
                               email : Emails \cup {None}, clearPassword : BOOLEAN,
                               expiry : {"never", "later", None}]
           /\ caller[c].pc = "refreshing" => caller[c].refresh \in Consents
           /\ caller[c].pc \in {"loaded", "recording"} =>
                caller[c].outcome \in Outcome
           /\ caller[c].pc = "recording" =>
                caller[c] \in [pc : {"recording"}, on : Accounts, outcome : Outcome,
                               status : {"unknown", "ok", "reconnect_required"},
                               detail : Failure \cup {None}]
  <1>1. caller[c] \in Caller /\ CallOK(caller[c], account)
    BY DEF IInv, TypeOK, CallerInv
  <1>2. QED
    BY <1>1 DEF Caller, CallOK, Idle

\* One request moves on while the rows evolve; with the bookkeeping of the
\* outcomes that is all a step of a load does.
LEMMA CallStep ==
    ASSUME IInv, NEW c \in Callers, NEW st \in Caller, Goto(c, st),
           CallOK(st, account'), Evolves, RowsGood',
           account' \in [Accounts -> Account \cup {None, Deleted}],
           consents' \in Seq(Emails), Len(consents') <= MaxConsents,
           UNCHANGED <<activeVersion, refresher>>,
           lastOutcome' \in [Accounts -> Outcome \cup {"error", "none"}]
    PROVE  IInv'
  <1>1. CallerInv' /\ caller' \in [Callers -> Caller]
    BY CallerStep DEF Goto
  <1>2. QED
    BY <1>1 DEF IInv, TypeOK

\* A load that ends with an outcome it may record.
LEMMA FinishStep ==
    ASSUME IInv, NEW c \in Callers, NEW a \in Accounts, NEW outcome \in Outcome,
           Finish(c, a, outcome),
           account'[a] # None, outcome # "ok" => OAuthIfLive(account'[a]),
           Evolves, RowsGood',
           account' \in [Accounts -> Account \cup {None, Deleted}],
           UNCHANGED <<consents, activeVersion, refresher>>
    PROVE  IInv'
  <1> DEFINE st == [pc |-> "loaded", on |-> a, outcome |-> outcome]
  <1>1. st \in Caller /\ CallOK(st, account')
    BY LoadedOK
  <1>2. Goto(c, st)
    BY DEF Finish
  <1>3. lastOutcome' \in [Accounts -> Outcome \cup {"error", "none"}]
        /\ consents' \in Seq(Emails) /\ Len(consents') <= MaxConsents
    BY DEF Finish, IInv, TypeOK
  <1> HIDE DEF st
  <1>4. QED
    BY <1>1, <1>2, <1>3, CallStep

\* A load that is given up.
LEMMA AbortStep ==
    ASSUME IInv, NEW c \in Callers, NEW a \in Accounts, Abort(c, a),
           UNCHANGED <<account, consents, activeVersion, refresher>>
    PROVE  IInv'
  <1>1. lastOutcome' \in [Accounts -> Outcome \cup {"error", "none"}]
        /\ consents' \in Seq(Emails) /\ Len(consents') <= MaxConsents
    BY DEF Abort, IInv, TypeOK
  <1>2. Goto(c, Idle)
    BY DEF Abort
  <1>3. QED
    BY <1>1, <1>2, IdleOK, SameRows, CallStep

\* Reading a row for a provider call keeps the invariant.
LEMMA LoadStep ==
    ASSUME IInv, NEW c \in Callers, NEW a \in Accounts, Load(c, a)
    PROVE  IInv'
  <1> DEFINE row == account[a]
  <1>1. row \in Account /\ row # None
    BY LiveRow DEF Load, Live, IInv
  <1>2. UNCHANGED <<account, consents, activeVersion, refresher>>
    BY DEF Load
  <1>3. ASSUME NEW outcome \in Outcome, Finish(c, a, outcome),
               outcome # "ok" => row.auth = "oauth2"
        PROVE  IInv'
    <2>1. account'[a] # None /\ (outcome # "ok" => OAuthIfLive(account'[a]))
      BY <1>1, <1>2, <1>3 DEF OAuthIfLive
    <2>2. QED
      BY <1>2, <1>3, <2>1, SameRows, FinishStep
  <1>4. CASE Abort(c, a)
    BY <1>2, <1>4, AbortStep
  <1>5. CASE LoadAppPassword(c, a)
    BY <1>3, <1>4, <1>5 DEF LoadAppPassword, Outcome
  <1>6. CASE LoadOAuth(c, a)
    <2> DEFINE next == [pc |-> "refreshing", on |-> a,
                        refresh |-> row.refresh.content]
    <2>1. ASSUME row.auth = "oauth2", row.refresh # None,
                 Goto(c, next), UNCHANGED lastOutcome
          PROVE  IInv'
      <3>1. row.refresh.content \in Consents
        BY <1>1, <2>1 DEF Account, Cell
      <3>2. account'[a] # None /\ OAuthIfLive(account'[a])
        BY <1>1, <1>2, <2>1 DEF OAuthIfLive
      <3>3. next \in Caller /\ CallOK(next, account')
        BY <3>1, <3>2, RefreshingOK
      <3>4. lastOutcome' \in [Accounts -> Outcome \cup {"error", "none"}]
            /\ consents' \in Seq(Emails) /\ Len(consents') <= MaxConsents
        BY <1>2, <2>1 DEF IInv, TypeOK
      <3> HIDE DEF next
      <3>5. QED
        BY <1>2, <2>1, <3>3, <3>4, SameRows, CallStep
    <2>2. \/ \E outcome \in Outcome : Finish(c, a, outcome)
          \/ Abort(c, a)
          \/ row.refresh # None /\ Goto(c, next) /\ UNCHANGED lastOutcome
      BY <1>6 DEF LoadOAuth, Outcome, Failure
    <2>3. row.auth = "oauth2"
      BY <1>6 DEF LoadOAuth
    <2> HIDE DEF next
    <2>4. QED
      BY <1>3, <1>4, <2>1, <2>2, <2>3
  <1>7. QED
    BY <1>5, <1>6 DEF Load

\* Every step of a load keeps the invariant.
LEMMA UseStep ==
    ASSUME IInv, NEW c \in Callers, Use(c) PROVE IInv'
  <1> DEFINE a == caller[c].on
  <1>0. Live(a) /\ a \in Accounts => account[a] \in GoodRow
    BY LiveRow DEF IInv, GoodRow, RowsGood
  <1>1. ASSUME NEW b \in Accounts, Load(c, b) PROVE IInv'
    BY <1>1, LoadStep
  <1>2. CASE RefreshFails(c)
    <2>1. caller[c] # Idle
      BY <1>2 DEF RefreshFails, Idle
    <2>2. a \in Accounts /\ account[a] # None /\ OAuthIfLive(account[a])
      BY <1>2, <2>1, BusyCaller DEF RefreshFails, NeedsOAuth
    <2>3. account'[a] # None /\ OAuthIfLive(account'[a])
      BY <1>2, <2>2 DEF RefreshFails
    <2>4. QED
      BY <1>2, <2>2, <2>3, SameRows, FinishStep DEF RefreshFails, Outcome, Failure
  <1>3. CASE RefreshAborts(c)
    <2>1. caller[c].pc = "refreshing" /\ a \in Accounts
      BY <1>3, BusyCaller DEF RefreshAborts, Idle
    <2>2. QED
      BY <1>3, <2>1, AbortStep DEF RefreshAborts
  <1>4. ASSUME NEW expiry \in {"never", "later"}, RefreshSucceeds(c, expiry)
        PROVE  IInv'
    <2> DEFINE r == Refreshed(account[a], caller[c].refresh, expiry)
    <2>1. caller[c] # Idle /\ Live(a)
      BY <1>4 DEF RefreshSucceeds, Idle
    <2>2. /\ a \in Accounts /\ caller[c].refresh \in Consents
          /\ account[a].auth = "oauth2"
      BY <1>4, <2>1, BusyCaller
      DEF RefreshSucceeds, NeedsOAuth, OAuthIfLive, Live
    <2>3. r \in GoodRow /\ r.auth = account[a].auth
      BY <1>0, <2>1, <2>2, RefreshedGood DEF IInv
    <2>4. account' = [account EXCEPT ![a] = r]
      BY <1>4 DEF RefreshSucceeds
    <2>5. Finish(c, a, "ok") /\ UNCHANGED <<consents, activeVersion, refresher>>
      BY <1>4 DEF RefreshSucceeds
    <2> HIDE DEF r
    <2>6. /\ account' \in [Accounts -> Account \cup {None, Deleted}]
          /\ RowsGood' /\ Evolves
      BY <2>1, <2>2, <2>3, <2>4, RowStep
    <2>7. account'[a] # None
      BY <2>1, <2>2, <2>6 DEF Evolves, Live
    <2>8. QED
      BY <2>2, <2>5, <2>6, <2>7, FinishStep DEF Outcome
  <1>5. CASE ReadHealth(c)
    <2> DEFINE st == [pc |-> "recording", on |-> a, outcome |-> caller[c].outcome,
                      status |-> account[a].status, detail |-> account[a].detail]
    <2>1. caller[c] # Idle
      BY <1>5 DEF ReadHealth, Idle
    <2>2. /\ a \in Accounts /\ caller[c].outcome \in Outcome
          /\ account[a] # None
          /\ caller[c].outcome # "ok" => OAuthIfLive(account[a])
      BY <1>5, <2>1, BusyCaller DEF ReadHealth, NeedsOAuth
    <2>3. ASSUME Live(a) PROVE st \in Caller /\ CallOK(st, account)
      <3>1. account[a] \in Account
        BY <2>2, <2>3, LiveRow DEF IInv
      <3>2. st \in Caller
        BY <2>2, <3>1 DEF Caller, Account, Failure
      <3>3. CallOK(st, account)
        BY <2>2 DEF CallOK, NeedsOAuth
      <3>4. QED
        BY <3>2, <3>3
    <2>4. Goto(c, Idle) \/ (Live(a) /\ Goto(c, st))
      BY <1>5 DEF ReadHealth
    <2>5. UNCHANGED <<account, consents, activeVersion, refresher, lastOutcome>>
      BY <1>5 DEF ReadHealth
    <2>6. lastOutcome' \in [Accounts -> Outcome \cup {"error", "none"}]
          /\ consents' \in Seq(Emails) /\ Len(consents') <= MaxConsents
      BY <2>5 DEF IInv, TypeOK
    <2> HIDE DEF st
    <2>7. QED
      BY <2>3, <2>4, <2>5, <2>6, IdleOK, SameRows, CallStep
  <1>6. CASE WriteHealth(c)
    <2> DEFINE r == WithHealth(account[a], caller[c])
    <2>1. caller[c] # Idle /\ caller[c].pc = "recording"
      BY <1>6 DEF WriteHealth, Idle
    <2>2. /\ a \in Accounts
          /\ caller[c] \in [pc : {"recording"}, on : Accounts, outcome : Outcome,
                            status : {"unknown", "ok", "reconnect_required"},
                            detail : Failure \cup {None}]
          /\ Live(a) /\ caller[c].outcome # "ok" => account[a].auth = "oauth2"
      BY <2>1, BusyCaller DEF NeedsOAuth, OAuthIfLive, Live
    <2>3. /\ Goto(c, Idle)
          /\ UNCHANGED <<consents, activeVersion, refresher, lastOutcome>>
          /\ account' = IF Live(a) THEN [account EXCEPT ![a] = r] ELSE account
      BY <1>6 DEF WriteHealth
    <2>4. ASSUME Live(a) PROVE r \in GoodRow /\ r.auth = account[a].auth
      BY <1>0, <2>2, <2>4, WithHealthGood
    <2> HIDE DEF r
    <2>5. /\ account' \in [Accounts -> Account \cup {None, Deleted}]
          /\ RowsGood' /\ Evolves
      <3>1. CASE Live(a)
        BY <2>2, <2>3, <2>4, <3>1, RowStep
      <3>2. CASE ~Live(a)
        BY <2>3, <3>2, SameRows
      <3>3. QED
        BY <3>1, <3>2
    <2>6. lastOutcome' \in [Accounts -> Outcome \cup {"error", "none"}]
          /\ consents' \in Seq(Emails) /\ Len(consents') <= MaxConsents
      BY <2>3 DEF IInv, TypeOK
    <2>7. QED
      BY <2>3, <2>5, <2>6, IdleOK, CallStep
  <1>7. ASSUME NEW b \in Accounts, NEW email \in Emails,
               NEW expiry \in {"never", "later"},
               ReadReconnect(c, b, email, expiry)
        PROVE  IInv'
    <2> DEFINE changed == IF email = account[b].email THEN None ELSE email
               clear == account[b].password # None
               ends == IF expiry = "never" /\ account[b].expiry = "never"
                         THEN None ELSE expiry
               g == Len(consents) + 1
    <2>1. /\ Live(b) /\ account[b].auth = "oauth2" /\ Consent(email)
          /\ Len(consents) < MaxConsents
          /\ UNCHANGED <<account, activeVersion, refresher, lastOutcome>>
      BY <1>7 DEF ReadReconnect, Consent
    <2>2. /\ changed \in Emails \cup {None} /\ clear \in BOOLEAN
          /\ ends \in {"never", "later", None}
      OBVIOUS
    <2>3. g \in Consents
      BY <2>1, ConstantsAssumption, LenProperties DEF IInv, TypeOK, Consents
    <2>4. Goto(c, [pc |-> "reconnecting", on |-> b, consent |-> g,
                   email |-> changed, clearPassword |-> clear,
                   expiry |-> ends])
      BY <1>7 DEF ReadReconnect
    <2>5. account[b] # None /\ OAuthIfLive(account[b])
      BY <2>1 DEF Live, OAuthIfLive
    <2>6. consents' \in Seq(Emails) /\ Len(consents') <= MaxConsents
      BY <2>1, ConsentStep
    <2>7. lastOutcome' \in [Accounts -> Outcome \cup {"error", "none"}]
      BY <2>1 DEF IInv, TypeOK
    <2> HIDE DEF changed, clear, ends, g
    <2>8. LET st == [pc |-> "reconnecting", on |-> b, consent |-> g,
                     email |-> changed, clearPassword |-> clear,
                     expiry |-> ends]
          IN  st \in Caller /\ CallOK(st, account)
      BY <2>2, <2>3, <2>5, ReconnectingOK
    <2>9. QED
      BY <2>1, <2>4, <2>6, <2>7, <2>8, SameRows, CallStep
  <1>8. CASE WriteReconnect(c)
    <2> DEFINE r == Reconnected(account[a], caller[c])
    <2>1. caller[c] # Idle /\ caller[c].pc = "reconnecting" /\ Live(a)
      BY <1>8 DEF WriteReconnect, Idle
    <2>2. /\ a \in Accounts
          /\ caller[c] \in [pc : {"reconnecting"}, on : Accounts, consent : Consents,
                            email : Emails \cup {None}, clearPassword : BOOLEAN,
                            expiry : {"never", "later", None}]
          /\ account[a].auth = "oauth2"
      BY <2>1, BusyCaller DEF NeedsOAuth, OAuthIfLive, Live
    <2>3. r \in GoodRow /\ r.auth = account[a].auth
      BY <1>0, <2>1, <2>2, ReconnectedGood DEF IInv
    <2>4. /\ account' = [account EXCEPT ![a] = r]
          /\ Goto(c, Idle)
          /\ UNCHANGED <<consents, activeVersion, refresher, lastOutcome>>
      BY <1>8 DEF WriteReconnect
    <2> HIDE DEF r
    <2>5. /\ account' \in [Accounts -> Account \cup {None, Deleted}]
          /\ RowsGood' /\ Evolves
      BY <2>1, <2>2, <2>3, <2>4, RowStep
    <2>6. lastOutcome' \in [Accounts -> Outcome \cup {"error", "none"}]
          /\ consents' \in Seq(Emails) /\ Len(consents') <= MaxConsents
      BY <2>4 DEF IInv, TypeOK
    <2>7. QED
      BY <2>4, <2>5, <2>6, IdleOK, CallStep
  <1>9. CASE ReconnectRefused(c)
    <2>1. /\ Goto(c, Idle)
          /\ UNCHANGED <<account, consents, activeVersion, refresher, lastOutcome>>
      BY <1>9 DEF ReconnectRefused
    <2>2. lastOutcome' \in [Accounts -> Outcome \cup {"error", "none"}]
          /\ consents' \in Seq(Emails) /\ Len(consents') <= MaxConsents
      BY <2>1 DEF IInv, TypeOK
    <2>3. QED
      BY <2>1, <2>2, IdleOK, SameRows, CallStep
  <1>10. QED
    BY <1>1, <1>2, <1>3, <1>4, <1>5, <1>6, <1>7, <1>8, <1>9 DEF Use

\* A restart drops the requests and keeps the table.
LEMMA RestartStep ==
    ASSUME IInv, Restart PROVE IInv'
  <1>1. caller' \in [Callers -> Caller] /\ CallerInv'
    BY IdleOK DEF Restart, CallerInv
  <1>2. lastOutcome' \in [Accounts -> Outcome \cup {"error", "none"}]
    BY DEF Restart, IInv, TypeOK
  <1>3. QED
    BY <1>1, <1>2, SameRows DEF Restart, IInv, TypeOK

\* The service starts in the invariant.
LEMMA InitIInv == Init => IInv
  <1> SUFFICES ASSUME Init PROVE IInv
    OBVIOUS
  <1>1. TypeOK
    BY ConstantsAssumption, IdleOK, EmptySeq DEF Init, TypeOK, Versions
  <1>2. Len(consents) <= MaxConsents
    BY ConstantsAssumption, EmptySeq DEF Init
  <1>3. RowsGood /\ CallerInv
    BY IdleOK DEF Init, RowsGood, Live, CallerInv
  <1>4. QED
    BY <1>1, <1>2, <1>3 DEF IInv

\* Every step of the service keeps the invariant.
LEMMA StepIInv == IInv /\ [Next]_vars => IInv'
  <1> SUFFICES ASSUME IInv, [Next]_vars PROVE IInv'
    OBVIOUS
  <1>1. CASE \E a \in Accounts : Change(a)
    BY <1>1, ChangeStep
  <1>2. CASE \E c \in Callers : Use(c)
    BY <1>2, UseStep
  <1>3. CASE Restart
    BY <1>3, RestartStep
  <1>4. CASE UNCHANGED vars
    BY <1>4 DEF vars, IInv, TypeOK, RowsGood, CallerInv, Live
  <1>5. QED
    BY <1>1, <1>2, <1>3, <1>4 DEF Next

-----------------------------------------------------------------------------
(* The theorems.                                                            *)

\* IInv holds in every reachable state.
THEOREM Invariance == Spec => []IInv
  BY InitIInv, StepIInv, PTL DEF Spec

\* Every variable keeps its type.
THEOREM TypeCorrect == Spec => []TypeOK
  <1>1. IInv => TypeOK
    BY DEF IInv
  <1>2. QED
    BY <1>1, Invariance, PTL

\* A mailbox keeps the kind of credential it was connected with.
THEOREM ShapeKept == Spec => []CredentialShape
  <1>1. IInv => CredentialShape
    BY DEF IInv, RowsGood, RowOK, CredentialShape
  <1>2. QED
    BY <1>1, Invariance, PTL

\* The stored tokens of a mailbox stem from one consent.
THEOREM TokensAgree == Spec => []TokensFromOneConsent
  <1>1. IInv => TokensFromOneConsent
    BY DEF IInv, RowsGood, RowOK, TokensFromOneConsent
  <1>2. QED
    BY <1>1, Invariance, PTL

\* What a mailbox logs in with can be decrypted with its key_version.
THEOREM Decryptable == Spec => []CredentialsReadable
  <1>1. IInv => CredentialsReadable
    BY DEF IInv, RowsGood, RowOK, CredentialsReadable
  <1>2. QED
    BY <1>1, Invariance, PTL

\* reconnect_required is recorded for OAuth mailboxes only.
THEOREM ReconnectIsForOAuth == Spec => []ReconnectOnlyOAuth
  <1>1. IInv => ReconnectOnlyOAuth
    <2> SUFFICES ASSUME IInv, NEW a \in Accounts, Live(a),
                        account[a].status = "reconnect_required"
                 PROVE  account[a].auth = "oauth2"
      BY DEF ReconnectOnlyOAuth
    <2>1. account[a] \in Account /\ RowOK(account[a])
      BY LiveRow DEF IInv, RowsGood
    <2>2. QED
      BY <2>1 DEF RowOK, Account
  <1>2. QED
    BY <1>1, Invariance, PTL

-----------------------------------------------------------------------------
(* Health, as long as loads of a mailbox do not overlap.                    *)

Noted(call, a) == call.pc \in {"loaded", "recording"} /\ call.on = a

\* A request that is about to record an outcome for a has the last one, if
\* none has failed otherwise since, and what it has read of the health is
\* what the row still holds.
HealthHeld(a) ==
    /\ HealthIsLastOutcome(a)
    /\ account[a] = None => lastOutcome[a] = "none"
    /\ \A c \in Callers : Noted(caller[c], a) =>
        /\ lastOutcome[a] \in {caller[c].outcome, "error"}
        /\ caller[c].pc = "recording" /\ Live(a) =>
            /\ account[a].status = caller[c].status
            /\ account[a].detail = caller[c].detail

\* No row is dropped for good or has its health rewritten.
SameHealth(a) ==
    /\ account'[a] = None => account[a] = None
    /\ Live(a)' =>
        \/ account[a] = None
        \/ /\ Live(a)
           /\ account'[a].status = account[a].status
           /\ account'[a].detail = account[a].detail

\* Writing a row whose health columns stay.
LEMMA SameHealthRow ==
    ASSUME TypeOK, NEW a \in Accounts, NEW r, r # None,
           account' = [account EXCEPT ![a] = r],
           \/ account[a] = None
           \/ Live(a) /\ (r = Deleted \/ (/\ r.status = account[a].status
                                          /\ r.detail = account[a].detail))
    PROVE  \A m \in Accounts : SameHealth(m)
  BY DEF TypeOK, SameHealth, Live

\* The health columns are left alone by everything but recording.
LEMMA HealthColumns ==
    ASSUME NEW r \in Account
    PROVE  /\ WithPassword(r).status = r.status /\ WithPassword(r).detail = r.detail
           /\ \A call : /\ Reconnected(r, call).status = r.status
                        /\ Reconnected(r, call).detail = r.detail
           /\ \A consent, expiry :
                /\ Refreshed(r, consent, expiry).status = r.status
                /\ Refreshed(r, consent, expiry).detail = r.detail
           /\ [r EXCEPT !.expiry = "due"].status = r.status
           /\ [r EXCEPT !.expiry = "due"].detail = r.detail
           /\ [r EXCEPT !.checkedRecently = FALSE].status = r.status
           /\ [r EXCEPT !.checkedRecently = FALSE].detail = r.detail
  BY DEF WithPassword, Reconnected, Refreshed, Account

\* A step that neither ends a load of m with an outcome nor records anything.
LEMMA QuietHealth ==
    ASSUME IInv, NEW m \in Accounts, HealthHeld(m), SameHealth(m),
           \/ lastOutcome'[m] = lastOutcome[m]
           \/ lastOutcome'[m] = "error" /\ account[m] # None,
           \A c \in Callers : \/ caller'[c] = caller[c]
                              \/ ~Noted(caller[c], m) /\ ~Noted(caller'[c], m)
    PROVE  HealthHeld(m)'
  <1>1. Unrecorded(m)' <=> Unrecorded(m)
    BY DEF Unrecorded, Noted
  <1>2. "error" \notin Outcome /\ "none" \notin Outcome
    BY DEF Outcome, Failure
  <1>3. HealthIsLastOutcome(m)'
    <2> SUFFICES ASSUME Live(m)', ~Unrecorded(m)', lastOutcome'[m] \in Outcome
                 PROVE  /\ account'[m].status = StatusOf(lastOutcome'[m])
                        /\ account'[m].detail = DetailOf(lastOutcome'[m])
      BY DEF HealthIsLastOutcome
    <2>1. lastOutcome'[m] = lastOutcome[m] /\ account[m] # None
      BY <1>2 DEF HealthHeld
    <2>2. /\ Live(m) /\ account'[m].status = account[m].status
          /\ account'[m].detail = account[m].detail
      BY <2>1 DEF SameHealth
    <2>3. QED
      BY <1>1, <2>1, <2>2 DEF HealthHeld, HealthIsLastOutcome
  <1>4. account'[m] = None => lastOutcome'[m] = "none"
    BY DEF SameHealth, HealthHeld
  <1>5. ASSUME NEW c \in Callers, Noted(caller'[c], m)
        PROVE  /\ lastOutcome'[m] \in {caller'[c].outcome, "error"}
               /\ caller'[c].pc = "recording" /\ Live(m)' =>
                    /\ account'[m].status = caller'[c].status
                    /\ account'[m].detail = caller'[c].detail
    <2>1. caller'[c] = caller[c] /\ Noted(caller[c], m)
      BY <1>5
    <2>2. lastOutcome[m] \in {caller[c].outcome, "error"}
      BY <2>1 DEF HealthHeld
    <2>3. ASSUME caller[c].pc = "recording", Live(m)'
          PROVE  /\ account'[m].status = caller[c].status
                 /\ account'[m].detail = caller[c].detail
      <3>1. account[m] # None
        BY <2>1, BusyCaller DEF Noted, Idle
      <3>2. QED
        BY <2>1, <2>3, <3>1 DEF HealthHeld, SameHealth
    <2>4. QED
      BY <2>1, <2>2, <2>3
  <1>6. QED
    BY <1>3, <1>4, <1>5 DEF HealthHeld

\* A load that ends while no other is noted: its outcome is the last one.
LEMMA FinishHealth ==
    ASSUME IInv, NEW m \in Accounts, HealthHeld(m), SameHealth(m),
           NEW c \in Callers, NEW outcome \in Outcome, Finish(c, m, outcome),
           account[m] # None, \A d \in Callers \ {c} : ~Noted(caller[d], m)
    PROVE  HealthHeld(m)'
  <1> DEFINE st == [pc |-> "loaded", on |-> m, outcome |-> outcome]
  <1>1. \A d \in Callers : caller'[d] = IF d = c THEN st ELSE caller[d]
    BY DEF Finish, Goto, IInv, TypeOK
  <1>2. lastOutcome'[m] = outcome
    BY DEF Finish, IInv, TypeOK
  <1>3. st.pc = "loaded" /\ st.on = m /\ st.outcome = outcome
    OBVIOUS
  <1> HIDE DEF st
  <1>4. HealthIsLastOutcome(m)'
    BY <1>1, <1>3 DEF HealthIsLastOutcome, Unrecorded
  <1>5. \A d \in Callers : Noted(caller'[d], m) => caller'[d] = st
    BY <1>1
  <1>6. QED
    BY <1>2, <1>3, <1>4, <1>5 DEF HealthHeld, SameHealth

\* Creating and changing mailboxes leaves health alone, and so does time.
LEMMA ChangeHealth ==
    ASSUME IInv, NEW m \in Accounts, HealthHeld(m), NEW a \in Accounts, Change(a)
    PROVE  HealthHeld(m)'
  <1> DEFINE Same == \A b \in Accounts : SameHealth(b)
  <1>1. UNCHANGED <<caller, lastOutcome>>
    BY DEF Change, CreateAppPassword, ConnectOAuth, UpdatePassword, Delete,
           TokenComesDue, CheckAges
  <1>2. Live(a) => account[a] \in Account
    BY LiveRow DEF IInv
  <1>3. ASSUME NEW email \in Emails, CreateAppPassword(a, email)
        PROVE  Same
    <2>1. NewAppPassword(email) # None
      BY NewAppPasswordGood, ConstantsAssumption DEF IInv, GoodRow
    <2>2. QED
      BY <1>3, <2>1, SameHealthRow DEF CreateAppPassword, IInv
  <1>4. ASSUME NEW email \in Emails, NEW expiry \in {"never", "later"},
               ConnectOAuth(a, email, expiry)
        PROVE  Same
    <2>1. NewOAuth(email, expiry) # None
      BY <1>4, NewOAuthGood, ConstantsAssumption
      DEF ConnectOAuth, Consent, IInv, GoodRow
    <2>2. QED
      BY <1>4, <2>1, SameHealthRow DEF ConnectOAuth, IInv
  <1>5. ASSUME Live(a), NEW r \in GoodRow, account' = [account EXCEPT ![a] = r],
               r.status = account[a].status, r.detail = account[a].detail
        PROVE  Same
    <2>1. r # None
      BY ConstantsAssumption DEF GoodRow
    <2>2. QED
      BY <1>5, <2>1, SameHealthRow DEF IInv
  <1>6. Live(a) => account[a] \in GoodRow
    BY <1>2 DEF IInv, RowsGood, GoodRow
  <1>7. ASSUME UpdatePassword(a) PROVE Same
    <2>1. Live(a) /\ account' = [account EXCEPT ![a] = WithPassword(account[a])]
      BY <1>7 DEF UpdatePassword
    <2>2. WithPassword(account[a]) \in GoodRow
      BY <1>6, <2>1, WithPasswordGood DEF IInv
    <2>3. QED
      BY <1>2, <1>5, <2>1, <2>2, HealthColumns
  <1>8. ASSUME Delete(a) PROVE Same
    <2>1. Live(a) /\ account' = [account EXCEPT ![a] = Deleted]
      BY <1>8 DEF Delete
    <2>2. Deleted # None
      BY ConstantsAssumption
    <2>3. QED
      BY <2>1, <2>2, SameHealthRow DEF IInv
  <1>9. ASSUME TokenComesDue(a) PROVE Same
    <2>1. /\ Live(a)
          /\ account' = [account EXCEPT ![a] = [account[a] EXCEPT !.expiry = "due"]]
      BY <1>9 DEF TokenComesDue, IInv, TypeOK
    <2>2. [account[a] EXCEPT !.expiry = "due"] \in GoodRow
      BY <1>6, <2>1, AgedGood
    <2>3. QED
      BY <1>2, <1>5, <2>1, <2>2, HealthColumns
  <1>10. ASSUME CheckAges(a) PROVE Same
    <2>1. /\ Live(a)
          /\ account' =
                [account EXCEPT ![a] = [account[a] EXCEPT !.checkedRecently = FALSE]]
      BY <1>10 DEF CheckAges, IInv, TypeOK
    <2>2. [account[a] EXCEPT !.checkedRecently = FALSE] \in GoodRow
      BY <1>6, <2>1, AgedGood
    <2>3. QED
      BY <1>2, <1>5, <2>1, <2>2, HealthColumns
  <1>11. Same
    BY <1>3, <1>4, <1>7, <1>8, <1>9, <1>10 DEF Change
  <1>12. QED
    BY <1>1, <1>11, QuietHealth

\* A step that leaves the rows alone leaves health alone.
LEMMA SameHealthRows == UNCHANGED account => \A a \in Accounts : SameHealth(a)
  BY DEF SameHealth, Live

\* Reading health: the load stays on record until its outcome is written,
\* unless the row is gone or holds the outcome already.
LEMMA ReadHealthKeeps ==
    ASSUME IInv, NEW m \in Accounts, HealthHeld(m), NEW c \in Callers,
           ReadHealth(c), caller[c].on = m,
           \A d \in Callers \ {c} : ~Noted(caller[d], m)
    PROVE  HealthHeld(m)'
  <1> DEFINE outcome == caller[c].outcome
             st == [pc |-> "recording", on |-> m, outcome |-> outcome,
                    status |-> account[m].status, detail |-> account[m].detail]
  <1>1. caller[c].pc = "loaded" /\ UNCHANGED <<account, lastOutcome>>
    BY DEF ReadHealth
  <1>2. account[m] # None /\ outcome \in Outcome
    BY <1>1, BusyCaller DEF Idle
  <1>3. lastOutcome[m] \in {outcome, "error"} /\ "error" \notin Outcome
    BY <1>1 DEF HealthHeld, Noted, Outcome, Failure
  <1>4. CASE Live(m) /\ ~Debounced(m, outcome)
    <2>1. \A d \in Callers : caller'[d] = IF d = c THEN st ELSE caller[d]
      BY <1>4 DEF ReadHealth, Goto, IInv, TypeOK
    <2>2. /\ st.pc = "recording" /\ st.on = m /\ st.outcome = outcome
          /\ st.status = account[m].status /\ st.detail = account[m].detail
      OBVIOUS
    <2> HIDE DEF st
    <2>3. HealthIsLastOutcome(m)'
      BY <2>1, <2>2 DEF HealthIsLastOutcome, Unrecorded
    <2>4. \A d \in Callers : Noted(caller'[d], m) => caller'[d] = st
      BY <2>1
    <2>5. QED
      BY <1>1, <1>2, <1>3, <2>2, <2>3, <2>4 DEF HealthHeld, Live
  <1>5. CASE ~Live(m) \/ Debounced(m, outcome)
    <2>1. \A d \in Callers : caller'[d] = IF d = c THEN Idle ELSE caller[d]
      BY <1>5 DEF ReadHealth, Goto, IInv, TypeOK
    <2>2. HealthIsLastOutcome(m)'
      BY <1>1, <1>3, <1>5 DEF HealthIsLastOutcome, Live, Debounced
    <2>3. \A d \in Callers : ~Noted(caller'[d], m)
      BY <2>1 DEF Noted, Idle
    <2>4. QED
      BY <1>1, <1>2, <2>2, <2>3 DEF HealthHeld
  <1>6. QED
    BY <1>4, <1>5

\* Writing health: what the row held is what was read, so both columns end
\* up as the outcome has them.
LEMMA WriteHealthKeeps ==
    ASSUME IInv, NEW m \in Accounts, HealthHeld(m), NEW c \in Callers,
           WriteHealth(c), caller[c].on = m,
           \A d \in Callers \ {c} : ~Noted(caller[d], m)
    PROVE  HealthHeld(m)'
  <1> DEFINE outcome == caller[c].outcome
             row == account[m]
             new == WithHealth(row, caller[c])
  <1>1. /\ caller[c].pc = "recording" /\ UNCHANGED lastOutcome
        /\ account' = IF Live(m) THEN [account EXCEPT ![m] = new] ELSE account
    BY DEF WriteHealth, IInv, TypeOK
  <1>2. account[m] # None /\ outcome \in Outcome
    BY <1>1, BusyCaller DEF Idle
  <1>3. /\ lastOutcome[m] \in {outcome, "error"} /\ "error" \notin Outcome
        /\ Live(m) => row.status = caller[c].status /\ row.detail = caller[c].detail
    BY <1>1 DEF HealthHeld, Noted, Outcome, Failure
  <1>4. \A d \in Callers : caller'[d] = IF d = c THEN Idle ELSE caller[d]
    BY DEF WriteHealth, Goto, IInv, TypeOK
  <1>5. \A d \in Callers : ~Noted(caller'[d], m)
    BY <1>4 DEF Noted, Idle
  <1>6. Live(m) => new.status = StatusOf(outcome) /\ new.detail = DetailOf(outcome)
    <2> SUFFICES ASSUME Live(m)
                 PROVE  new.status = StatusOf(outcome) /\ new.detail = DetailOf(outcome)
      OBVIOUS
    <2>1. row \in Account
      BY LiveRow DEF IInv
    <2>2. /\ new.status = Column(caller[c].status, row.status, StatusOf(outcome))
          /\ new.detail = Column(caller[c].detail, row.detail, DetailOf(outcome))
      <3> HIDE DEF row
      <3> QED
        BY <2>1 DEF WithHealth, Account
    <2> HIDE DEF new
    <2>3. QED
      BY <1>3, <2>2 DEF Column
  <1>7. Live(m) => new # None
    <2> SUFFICES ASSUME Live(m) PROVE new # None
      OBVIOUS
    <2>1. row \in GoodRow
      BY LiveRow DEF IInv, RowsGood, GoodRow
    <2>2. outcome # "ok" => row.auth = "oauth2"
      BY <1>1, BusyCaller DEF NeedsOAuth, OAuthIfLive, Live, Idle
    <2>3. new \in GoodRow
      BY <1>1, <2>1, <2>2, BusyCaller, WithHealthGood DEF Idle
    <2>4. QED
      BY <2>3, ConstantsAssumption DEF GoodRow
  <1> HIDE DEF new, row
  <1>8. account'[m] = IF Live(m) THEN new ELSE account[m]
    BY <1>1 DEF IInv, TypeOK
  <1>9. HealthIsLastOutcome(m)'
    <2> SUFFICES ASSUME Live(m)', lastOutcome'[m] \in Outcome
                 PROVE  /\ account'[m].status = StatusOf(lastOutcome'[m])
                        /\ account'[m].detail = DetailOf(lastOutcome'[m])
      BY DEF HealthIsLastOutcome
    <2>1. Live(m)
      BY <1>8 DEF Live
    <2>2. lastOutcome'[m] = outcome
      BY <1>1, <1>3
    <2>3. QED
      BY <1>6, <1>8, <2>1, <2>2
  <1>10. QED
    BY <1>2, <1>5, <1>7, <1>8, <1>9 DEF HealthHeld

\* Loads that are alone on their mailbox keep health what the last made it.
LEMMA UseHealth ==
    ASSUME IInv, NEW m \in Accounts, HealthHeld(m),
           OneLoadAtATime(m), OneLoadAtATime(m)', NEW c \in Callers, Use(c)
    PROVE  HealthHeld(m)'
  <1> DEFINE Same == \A b \in Accounts : SameHealth(b)
             Loading(call) == call.pc \in {"loaded", "recording"}
  <1>1. ASSUME NEW st, Goto(c, st)
        PROVE  \A d \in Callers : caller'[d] = IF d = c THEN st ELSE caller[d]
    BY <1>1 DEF Goto, IInv, TypeOK
  <1>2. ASSUME NEW st, Goto(c, st), Same, ~Noted(caller[c], m), ~Noted(st, m),
               \/ lastOutcome'[m] = lastOutcome[m]
               \/ lastOutcome'[m] = "error" /\ account[m] # None
        PROVE  HealthHeld(m)'
    BY <1>1, <1>2, QuietHealth
  <1>3. ASSUME NEW a \in Accounts, NEW outcome \in Outcome, Finish(c, a, outcome),
               Same, account[a] # None, ~Loading(caller[c])
        PROVE  HealthHeld(m)'
    <2> DEFINE st == [pc |-> "loaded", on |-> a, outcome |-> outcome]
    <2>1. Goto(c, st) /\ st.pc = "loaded" /\ st.on = a
      BY <1>3 DEF Finish
    <2> HIDE DEF st
    <2>2. CASE a = m
      <3>1. ASSUME NEW d \in Callers \ {c} PROVE ~Noted(caller[d], m)
        <4>1. caller'[d] = caller[d] /\ caller'[c] = st
          BY <1>1, <2>1
        <4>2. QED
          BY <2>1, <2>2, <4>1 DEF OneLoadAtATime, Noted
      <3>2. QED
        BY <1>3, <2>2, <3>1, FinishHealth
    <2>3. CASE a # m
      <3>1. ~Noted(caller[c], m) /\ ~Noted(st, m)
        BY <1>3, <2>1, <2>3 DEF Noted
      <3>2. lastOutcome'[m] = lastOutcome[m]
        BY <1>3, <2>3 DEF Finish, IInv, TypeOK
      <3>3. QED
        BY <1>2, <1>3, <2>1, <3>1, <3>2
    <2>4. QED
      BY <2>2, <2>3
  <1>4. ~Noted(Idle, m)
    BY DEF Noted, Idle
  <1>5. ASSUME NEW a \in Accounts, Abort(c, a), Same, account[a] # None,
               ~Loading(caller[c])
        PROVE  HealthHeld(m)'
    <2>1. Goto(c, Idle) /\ ~Noted(caller[c], m)
      BY <1>5 DEF Abort, Noted
    <2>2. \/ lastOutcome'[m] = lastOutcome[m]
          \/ lastOutcome'[m] = "error" /\ account[m] # None
      BY <1>5 DEF Abort, IInv, TypeOK
    <2>3. QED
      BY <1>2, <1>4, <1>5, <2>1, <2>2
  <1>6. ASSUME NEW a \in Accounts, NEW email \in Emails,
               NEW expiry \in {"never", "later"}, ReadReconnect(c, a, email, expiry)
        PROVE  HealthHeld(m)'
    <2>1. PICK st : Goto(c, st) /\ st.pc = "reconnecting"
      BY <1>6 DEF ReadReconnect
    <2>2. caller[c] = Idle /\ UNCHANGED <<account, lastOutcome>>
      BY <1>6 DEF ReadReconnect
    <2>3. QED
      BY <1>2, <1>4, <2>1, <2>2, SameHealthRows DEF Noted
  <1>7. ASSUME WriteReconnect(c) PROVE HealthHeld(m)'
    <2> DEFINE a == caller[c].on
               row == account[a]
               new == Reconnected(row, caller[c])
    <2>1. /\ caller[c].pc = "reconnecting" /\ Live(a) /\ Goto(c, Idle)
          /\ account' = [account EXCEPT ![a] = new] /\ UNCHANGED lastOutcome
      BY <1>7 DEF WriteReconnect
    <2>2. /\ a \in Accounts /\ OAuthIfLive(row)
          /\ caller[c] \in [pc : {"reconnecting"}, on : Accounts, consent : Consents,
                            email : Emails \cup {None}, clearPassword : BOOLEAN,
                            expiry : {"never", "later", None}]
      BY <2>1, BusyCaller DEF NeedsOAuth, Idle
    <2>3. row \in GoodRow /\ row \in Account /\ row.auth = "oauth2"
      BY <2>1, <2>2, LiveRow DEF IInv, RowsGood, GoodRow, OAuthIfLive, Live
    <2>4. new \in GoodRow /\ new.status = row.status /\ new.detail = row.detail
      <3> HIDE DEF row
      <3> QED
        BY <2>2, <2>3, ReconnectedGood, HealthColumns DEF IInv
    <2>5. new # None
      BY <2>4, ConstantsAssumption DEF GoodRow
    <2> HIDE DEF new
    <2>6. Same
      BY <2>1, <2>2, <2>4, <2>5, SameHealthRow DEF IInv
    <2>7. QED
      BY <1>2, <1>4, <2>1, <2>6 DEF Noted
  <1>8. ASSUME ReconnectRefused(c) PROVE HealthHeld(m)'
    <2>1. /\ ~Noted(caller[c], m) /\ Goto(c, Idle)
          /\ UNCHANGED <<account, lastOutcome>>
      BY <1>8 DEF ReconnectRefused, Noted
    <2>2. QED
      BY <1>2, <1>4, <2>1, SameHealthRows
  <1>9. ASSUME NEW a \in Accounts, Load(c, a) PROVE HealthHeld(m)'
    <2>1. /\ caller[c] = Idle /\ Live(a) /\ UNCHANGED account
          /\ LoadAppPassword(c, a) \/ LoadOAuth(c, a)
      BY <1>9 DEF Load
    <2>2. account[a] # None /\ Same /\ ~Loading(caller[c])
      BY <2>1, SameHealthRows DEF Live, Idle
    <2>3. CASE \E outcome \in Outcome : Finish(c, a, outcome)
      BY <1>3, <2>2, <2>3
    <2>4. CASE Abort(c, a)
      BY <1>5, <2>2, <2>4
    <2>5. CASE LoadAppPassword(c, a)
      <3>1. Finish(c, a, "ok") \/ Abort(c, a)
        BY <2>5 DEF LoadAppPassword
      <3>2. QED
        BY <2>3, <2>4, <3>1 DEF Outcome
    <2>6. CASE LoadOAuth(c, a)
      <3> DEFINE refreshing == [pc |-> "refreshing", on |-> a,
                                refresh |-> account[a].refresh.content]
      <3>1. \/ Finish(c, a, "credentials_missing") \/ Finish(c, a, "oauth_refresh_failed")
            \/ Finish(c, a, "ok") \/ Abort(c, a)
            \/ Goto(c, refreshing) /\ UNCHANGED lastOutcome
        BY <2>6 DEF LoadOAuth
      <3>2. {"credentials_missing", "oauth_refresh_failed", "ok"} \subseteq Outcome
        BY DEF Outcome, Failure
      <3>3. ~Noted(refreshing, m) /\ ~Noted(caller[c], m)
        BY <2>2 DEF Noted
      <3> HIDE DEF refreshing
      <3>4. QED
        BY <1>2, <2>2, <2>3, <2>4, <3>1, <3>2, <3>3
    <2>7. QED
      BY <2>1, <2>5, <2>6
  <1>10. ASSUME RefreshFails(c) \/ RefreshAborts(c) PROVE HealthHeld(m)'
    <2>1. /\ caller[c].pc = "refreshing" /\ UNCHANGED account
          /\ \/ Finish(c, caller[c].on, "oauth_refresh_failed")
             \/ Abort(c, caller[c].on)
      BY <1>10 DEF RefreshFails, RefreshAborts
    <2>2. caller[c].on \in Accounts /\ account[caller[c].on] # None
      BY <2>1, BusyCaller DEF Idle
    <2>3. "oauth_refresh_failed" \in Outcome /\ Same
      BY <2>1, SameHealthRows DEF Outcome, Failure
    <2>4. QED
      BY <1>3, <1>5, <2>1, <2>2, <2>3
  <1>11. ASSUME NEW expiry \in {"never", "later"}, RefreshSucceeds(c, expiry)
         PROVE  HealthHeld(m)'
    <2> DEFINE a == caller[c].on
               row == account[a]
               new == Refreshed(row, caller[c].refresh, expiry)
    <2>1. /\ caller[c].pc = "refreshing" /\ Live(a) /\ Finish(c, a, "ok")
          /\ account' = [account EXCEPT ![a] = new]
      BY <1>11 DEF RefreshSucceeds
    <2>2. /\ a \in Accounts /\ row # None /\ OAuthIfLive(row)
          /\ caller[c].refresh \in Consents
      BY <2>1, BusyCaller DEF NeedsOAuth, Idle
    <2>3. row \in GoodRow /\ row \in Account /\ row.auth = "oauth2"
      BY <2>1, <2>2, LiveRow DEF IInv, RowsGood, GoodRow, OAuthIfLive, Live
    <2>4. new \in GoodRow /\ new.status = row.status /\ new.detail = row.detail
      <3> HIDE DEF row
      <3> QED
        BY <2>2, <2>3, RefreshedGood, HealthColumns DEF IInv
    <2>5. new # None
      BY <2>4, ConstantsAssumption DEF GoodRow
    <2> HIDE DEF new
    <2>6. Same
      BY <2>1, <2>2, <2>4, <2>5, SameHealthRow DEF IInv
    <2>7. QED
      BY <1>3, <2>1, <2>2, <2>6 DEF Outcome
  <1>12. ASSUME ReadHealth(c) \/ WriteHealth(c), caller[c].on = m
         PROVE  HealthHeld(m)'
    <2>1. Loading(caller[c])
      BY <1>12 DEF ReadHealth, WriteHealth
    <2>2. \A d \in Callers \ {c} : ~Noted(caller[d], m)
      BY <1>12, <2>1 DEF OneLoadAtATime, Noted
    <2>3. QED
      BY <1>12, <2>2, ReadHealthKeeps, WriteHealthKeeps
  <1>13. ASSUME ReadHealth(c) \/ WriteHealth(c), caller[c].on # m
         PROVE  HealthHeld(m)'
    <2>1. PICK st : Goto(c, st) /\ ~Noted(st, m)
      BY <1>4, <1>13 DEF ReadHealth, WriteHealth, Noted
    <2>2. lastOutcome' = lastOutcome /\ account'[m] = account[m]
      BY <1>13 DEF ReadHealth, WriteHealth, IInv, TypeOK
    <2>3. SameHealth(m) /\ ~Noted(caller[c], m)
      BY <1>13, <2>2 DEF SameHealth, Live, Noted
    <2>4. QED
      BY <1>1, <2>1, <2>2, <2>3, QuietHealth
  <1>14. QED
    BY <1>6, <1>7, <1>8, <1>9, <1>10, <1>11, <1>12, <1>13 DEF Use

\* A restart forgets the outcomes that were not recorded.
LEMMA RestartHealth ==
    ASSUME IInv, NEW m \in Accounts, HealthHeld(m), Restart
    PROVE  HealthHeld(m)'
  <1>1. UNCHANGED account /\ \A c \in Callers : ~Noted(caller'[c], m)
    BY DEF Restart, Noted, Idle
  <1>2. /\ lastOutcome'[m] = IF Unrecorded(m) THEN "none" ELSE lastOutcome[m]
        /\ "none" \notin Outcome
    BY DEF Restart, Outcome, Failure
  <1>3. HealthIsLastOutcome(m)'
    BY <1>1, <1>2 DEF HealthHeld, HealthIsLastOutcome, Live
  <1>4. QED
    BY <1>1, <1>2, <1>3 DEF HealthHeld

\* Every step between states without overlap on m keeps its health.
LEMMA HealthStep ==
    ASSUME NEW m \in Accounts
    PROVE  /\ IInv /\ HealthHeld(m) /\ OneLoadAtATime(m) /\ OneLoadAtATime(m)'
           /\ [Next]_vars
           => HealthHeld(m)'
  <1> SUFFICES ASSUME IInv, HealthHeld(m), OneLoadAtATime(m), OneLoadAtATime(m)',
                      [Next]_vars
               PROVE  HealthHeld(m)'
    OBVIOUS
  <1>1. CASE UNCHANGED vars
    <2>1. SameHealth(m)
      BY <1>1, SameHealthRows DEF vars
    <2>2. QED
      BY <1>1, <2>1, QuietHealth DEF vars
  <1>2. QED
    BY <1>1, ChangeHealth, UseHealth, RestartHealth DEF Next

\* The same for one mailbox.
LEMMA HealthOfOne == ASSUME NEW m \in Accounts PROVE Spec => HealthOfLoneLoadsOf(m)
  <1>1. Init => HealthHeld(m)
    BY DEF Init, HealthHeld, HealthIsLastOutcome, Live, Noted, Idle
  <1>2. HealthHeld(m) => HealthIsLastOutcome(m)
    BY DEF HealthHeld
  <1>3. /\ IInv /\ HealthHeld(m) /\ OneLoadAtATime(m) /\ OneLoadAtATime(m)'
        /\ [Next]_vars
        => HealthHeld(m)'
    BY HealthStep
  <1>4. QED
    BY <1>1, <1>2, <1>3, Invariance, PTL DEF Spec, HealthOfLoneLoadsOf

\* As long as loads of a mailbox do not overlap, its health is the outcome of
\* the last of them, if that had one to record: through debounces, restarts,
\* reconnects and earlier failures of other kinds, and whatever overlaps on
\* other mailboxes.
THEOREM HealthOfLone == Spec => HealthOfLoneLoads
  BY HealthOfOne DEF HealthOfLoneLoads

==============================================================================
