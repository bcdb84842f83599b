----------------------------- MODULE UserAccess -----------------------------
(***************************************************************************)
(* Users and their sessions: registration (the first user becomes owner),  *)
(* login, logout, the owner's disabling and enabling of users, and changes *)
(* of a password, which revoke the user's other sessions.                  *)
(*                                                                         *)
(*   src/postara/users.py   RepositoryUserService                          *)
(*   src/postara/api.py     require_user_session and the handlers of       *)
(*                          /auth, /me and /owner/users                    *)
(*                                                                         *)
(* A user is named by the normalized email address.  An operation is one   *)
(* READ COMMITTED transaction; other requests run between its statements.  *)
(* A handler goes on with the user that authentication has read.           *)
(***************************************************************************)
EXTENDS Naturals

CONSTANTS
    Users,          \* email addresses of users
    Tokens,         \* session tokens
    Requests,       \* requests under way at the same time
    MaxPassword,    \* bound: passwords a user ever has after the first
    None            \* no row, no token

VARIABLES
    user,           \* user[u]: the committed row of app.users
    session,        \* session[t]: the committed row of app.user_sessions
    request         \* request[q]: how far request q is

vars == <<user, session, request>>

\* A password is named by its place in the sequence of the user's passwords.
User == [role : {"owner", "member"}, password : Nat, enabled : BOOLEAN]

\* under: history, the password that was in force when the session was
\* opened, or that the session itself has set.
Session == [user : Users, status : {"live", "revoked", "expired"}, under : Nat]

Idle == [pc |-> "idle"]

\* victims: the sessions a flushed password change has found.
Request ==
    {Idle}
    \cup [pc : {"registering"}, user : Users, role : {"owner", "member"}]
    \cup [pc : {"login"}, user : Users]
    \cup [pc : {"authenticated"}, user : Users, token : Tokens,
          role : {"owner", "member"}]
    \cup [pc : {"ready"}, user : Users, token : Tokens \cup {None}]
    \cup [pc : {"flushed"}, user : Users, token : Tokens \cup {None},
          victims : SUBSET Tokens]

ASSUME ConstantsAssumption ==
    /\ MaxPassword \in Nat
    /\ None \notin User \cup Session \cup Tokens

Exists(u) == user[u] # None
Live(t) == session[t] # None /\ session[t].status = "live"

Init ==
    /\ user = [u \in Users |-> None]
    /\ session = [t \in Tokens |-> None]
    /\ request = [q \in Requests |-> Idle]

Goto(q, state) == request' = [request EXCEPT ![q] = state]

\* Another request has flushed a change of the row of u and not ended yet.
RowLocked(u) ==
    \E q \in Requests : request[q].pc = "flushed" /\ request[q].user = u

\* _create_session
Open(t, u, password) ==
    /\ session[t] = None
    /\ session' = [session EXCEPT ![t] =
                    [user |-> u, status |-> "live", under |-> password]]

----------------------------------------------------------------------------
(* Registration and login.                                                 *)

FirstRole == IF \E u \in Users : Exists(u) THEN "member" ELSE "owner"

\* register: the count, then hashing the password.
BeginRegister(q, u) ==
    /\ request[q] = Idle
    /\ Goto(q, [pc |-> "registering", user |-> u, role |-> FirstRole])
    /\ UNCHANGED <<user, session>>

\* Mutant: the row is flushed with the default of the column.
NewUserDefault(role) == [role |-> "member", password |-> 0, enabled |-> TRUE]

\* Mutant: the NULL of disabled_at is taken for the state.
NewUserNull(role) == [role |-> role, password |-> 0, enabled |-> None]

NewUser(role) == [role |-> role, password |-> 0, enabled |-> TRUE]

\* The unique constraint on the address decides between two registrations.
Register(q, t) ==
    /\ request[q].pc = "registering"
    /\ ~Exists(request[q].user)
    /\ user' = [user EXCEPT ![request[q].user] = NewUser(request[q].role)]
    /\ Open(t, request[q].user, 0)
    /\ Goto(q, Idle)

\* The user is enabled and the password is the one stored.
BeginLogin(q, u) ==
    /\ request[q] = Idle
    /\ Exists(u)
    /\ user[u].enabled
    /\ Goto(q, [pc |-> "login", user |-> u])
    /\ UNCHANGED <<user, session>>

\* Mutant: a login writes nothing to the user's row and waits for nobody.
LoginUnrecorded(q, t) ==
    /\ request[q].pc = "login"
    /\ Open(t, request[q].user, user[request[q].user].password)
    /\ Goto(q, Idle)
    /\ UNCHANGED user

\* The flush writes last_login_at and so waits for the row of the user.
Login(q, t) ==
    /\ request[q].pc = "login"
    /\ ~RowLocked(request[q].user)
    /\ Open(t, request[q].user, user[request[q].user].password)
    /\ Goto(q, Idle)
    /\ UNCHANGED user

----------------------------------------------------------------------------
(* Sessions.                                                               *)

Expire(t) ==
    /\ Live(t)
    /\ session' = [session EXCEPT ![t].status = "expired"]
    /\ UNCHANGED <<user, request>>

\* authenticate_session
Authenticate(q, t) ==
    /\ request[q] = Idle
    /\ Live(t)
    /\ user[session[t].user].enabled
    /\ Goto(q, [pc |-> "authenticated", user |-> session[t].user, token |-> t,
                role |-> user[session[t].user].role])
    /\ UNCHANGED <<user, session>>

\* POST /auth/logout: the token is revoked whatever became of it meanwhile.
Logout(q) ==
    /\ request[q].pc = "authenticated"
    /\ session' = [session EXCEPT ![request[q].token].status = "revoked"]
    /\ Goto(q, Idle)
    /\ UNCHANGED user

\* The handlers of /owner/users go by the role that authentication has read.
AsOwner(q) == request[q].pc = "authenticated" /\ request[q].role = "owner"

\* PATCH /owner/users/{user_id}/status
UpdateStatus(q, u, enabled) ==
    /\ AsOwner(q)
    /\ Exists(u)
    /\ ~RowLocked(u)
    /\ user' = [user EXCEPT ![u].enabled = enabled]
    /\ Goto(q, Idle)
    /\ UNCHANGED session

----------------------------------------------------------------------------
(* Changing a password.                                                    *)

\* PUT /me/password: the current password was right when it was read.
BeginChange(q) ==
    /\ request[q].pc = "authenticated"
    /\ Goto(q, [pc |-> "ready", user |-> request[q].user,
                token |-> request[q].token])
    /\ UNCHANGED <<user, session>>

\* PUT /owner/users/{user_id}/password
BeginReset(q, u) ==
    /\ AsOwner(q)
    /\ Exists(u)
    /\ Goto(q, [pc |-> "ready", user |-> u, token |-> None])
    /\ UNCHANGED <<user, session>>

\* The query of _revoke_other_sessions and its loop.
OtherSessions(u, token) ==
    {t \in Tokens : session[t] # None /\ session[t].user = u
                    /\ session[t].status # "revoked" /\ t # token}

\* The query flushes the new password first, which takes the user's row.
FlushPassword(q) ==
    LET u == request[q].user
        token == request[q].token IN
    /\ request[q].pc = "ready"
    /\ ~RowLocked(u)
    /\ user[u].password < MaxPassword
    /\ Goto(q, [pc |-> "flushed", user |-> u, token |-> token,
                victims |-> OtherSessions(u, token)])
    /\ UNCHANGED <<user, session>>

\* Mutant: the current session is renewed.
RevokedRenewed(victims, token, password) ==
    [t \in Tokens |->
        IF t \in victims THEN [session[t] EXCEPT !.status = "revoked"]
        ELSE IF t = token
        THEN [session[t] EXCEPT !.under = password, !.status = "live"]
        ELSE session[t]]

Revoked(victims, token, password) ==
    [t \in Tokens |->
        IF t \in victims THEN [session[t] EXCEPT !.status = "revoked"]
        ELSE IF t = token THEN [session[t] EXCEPT !.under = password]
        ELSE session[t]]

CommitPassword(q) ==
    LET u == request[q].user
        password == user[u].password + 1 IN
    /\ request[q].pc = "flushed"
    /\ user' = [user EXCEPT ![u].password = password]
    /\ session' = Revoked(request[q].victims, request[q].token, password)
    /\ Goto(q, Idle)

\* A request ends without effect: a wrong password, an address that is taken,
\* a handler that only reads, a lost connection.
End(q) ==
    /\ request[q] # Idle
    /\ Goto(q, Idle)
    /\ UNCHANGED <<user, session>>

----------------------------------------------------------------------------

Next ==
    \/ \E t \in Tokens : Expire(t)
    \/ \E q \in Requests :
        \/ Logout(q)
        \/ BeginChange(q)
        \/ FlushPassword(q)
        \/ CommitPassword(q)
        \/ End(q)
        \/ \E t \in Tokens : Register(q, t) \/ Login(q, t) \/ Authenticate(q, t)
        \/ \E u \in Users :
            \/ BeginRegister(q, u)
            \/ BeginLogin(q, u)
            \/ BeginReset(q, u)
            \/ \E enabled \in BOOLEAN : UpdateStatus(q, u, enabled)

Spec == Init /\ [][Next]_vars

----------------------------------------------------------------------------
(* Properties.                                                             *)

\* Rows are complete and requests are at one of their steps.
TypeOK ==
    /\ user \in [Users -> User \cup {None}]
    /\ session \in [Tokens -> Session \cup {None}]
    /\ request \in [Requests -> Request]

\* An instance with users has an owner, however first registrations overlap.
\* (It may have two: both may count no users before either commits.)
OwnerExists ==
    (\E u \in Users : Exists(u)) =>
        \E u \in Users : Exists(u) /\ user[u].role = "owner"

\* A password change ends every other session: a session that is live was
\* opened under the password in force or is the one that set it.  (A login
\* that checked the password before the change and commits after it is
\* opened under the new one.)
SessionsUnderPassword ==
    \A t \in Tokens : Live(t) => session[t].under = user[session[t].user].password

\* Every commit is one operation of the abstract directory on what there is at
\* that moment, although it carries out what was read, counted and found
\* earlier: a password change ends exactly the user's other sessions, those
\* opened or signed out since it began included, no session comes back, and
\* members come only to an instance with an owner.
Directory == INSTANCE UserDirectory

ImplementsDirectory == Directory!Spec

=============================================================================
