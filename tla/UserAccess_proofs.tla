-------------------------- MODULE UserAccess_proofs --------------------------
(***************************************************************************)
(* Proofs about UserAccess for any number of users, tokens and requests.   *)
(*                                                                         *)
(* That live sessions belong to the password in force is not inductive: a  *)
(* flushed change commits without looking at the sessions again.  It may,  *)
(* because it has found every session there is (VictimsComplete) and holds *)
(* the row of the user, which a login needs, until it commits (RowHeldOnce *)
(* says it holds it alone).  For the same reason the sessions that it ends *)
(* are those an atomic change would end at the moment of the commit, which *)
(* makes it an operation of UserDirectory.                                 *)
(***************************************************************************)
EXTENDS UserAccess, TLAPS

\* A member registers only where somebody is registered already.
MembersFollow ==
    \A q \in Requests :
        request[q].pc = "registering" /\ request[q].role = "member" =>
            \E u \in Users : Exists(u)

\* Rows that requests and sessions refer to exist.
Referenced ==
    /\ \A t \in Tokens : session[t] # None => Exists(session[t].user)
    /\ \A q \in Requests :
        request[q].pc \in {"login", "authenticated", "ready", "flushed"} =>
            Exists(request[q].user)
    /\ \A q \in Requests :
        request[q].pc \in {"authenticated", "ready", "flushed"}
            /\ request[q].token # None =>
                /\ session[request[q].token] # None
                /\ session[request[q].token].user = request[q].user

RowHeldOnce ==
    \A q, r \in Requests :
        request[q].pc = "flushed" /\ request[r].pc = "flushed" /\ q # r =>
            request[q].user # request[r].user

Ended(t) == session[t] = None \/ session[t].status = "revoked"

\* A flushed change has found the user's sessions that are not revoked, except
\* its own.
VictimsComplete ==
    \A q \in Requests : request[q].pc = "flushed" =>
        /\ request[q].token \notin request[q].victims
        /\ \A t \in request[q].victims :
                session[t] # None /\ session[t].user = request[q].user
        /\ \A t \in Tokens :
                ~Ended(t) /\ session[t].user = request[q].user =>
                    t \in request[q].victims \/ t = request[q].token

IInv ==
    /\ TypeOK
    /\ OwnerExists
    /\ MembersFollow
    /\ Referenced
    /\ RowHeldOnce
    /\ VictimsComplete
    /\ SessionsUnderPassword

-----------------------------------------------------------------------------
(* Types.                                                                   *)

\* What the fields of a request are.
LEMMA RequestFields ==
    ASSUME NEW x \in Request
    PROVE  /\ x.pc \in {"idle", "registering", "login", "authenticated",
                        "ready", "flushed"}
           /\ x.pc # "idle" => x.user \in Users
           /\ x.pc = "registering" => x.role \in {"owner", "member"}
           /\ x.pc = "authenticated" => x.token \in Tokens
           /\ x.pc \in {"ready", "flushed"} => x.token \in Tokens \cup {None}
           /\ x.pc = "flushed" => x.victims \subseteq Tokens
  BY DEF Request, Idle

\* The states requests are sent to.
LEMMA RequestStates ==
    /\ Idle \in Request /\ Idle.pc = "idle"
    /\ \A u \in Users, role \in {"owner", "member"} :
        [pc |-> "registering", user |-> u, role |-> role] \in Request
    /\ \A u \in Users : [pc |-> "login", user |-> u] \in Request
    /\ \A u \in Users, t \in Tokens, role \in {"owner", "member"} :
        [pc |-> "authenticated", user |-> u, token |-> t, role |-> role] \in Request
    /\ \A u \in Users, t \in Tokens \cup {None} :
        [pc |-> "ready", user |-> u, token |-> t] \in Request
    /\ \A u \in Users, t \in Tokens \cup {None}, victims \in SUBSET Tokens :
        [pc |-> "flushed", user |-> u, token |-> t, victims |-> victims] \in Request
  BY DEF Request, Idle

\* An opened session is a session.
LEMMA OpenType ==
    ASSUME TypeOK, NEW t \in Tokens, NEW u \in Users, NEW password \in Nat,
           Open(t, u, password)
    PROVE  session' \in [Tokens -> Session \cup {None}]
<1>1. [user |-> u, status |-> "live", under |-> password] \in Session
  BY DEF Session
<1> QED  BY <1>1 DEF Open, TypeOK

\* A password change keeps sessions sessions.
LEMMA RevokedType ==
    ASSUME TypeOK, NEW victims \in SUBSET Tokens, NEW token, NEW password \in Nat,
           \A t \in victims : session[t] # None,
           token \in Tokens => session[token] # None
    PROVE  Revoked(victims, token, password) \in [Tokens -> Session \cup {None}]
<1>1. ASSUME NEW t \in Tokens
      PROVE  Revoked(victims, token, password)[t] \in Session \cup {None}
  <2>1. session[t] \in Session \cup {None}
    BY DEF TypeOK
  <2>2. CASE t \in victims
    <3>1. [session[t] EXCEPT !.status = "revoked"] \in Session
      BY <2>1, <2>2 DEF Session
    <3> QED  BY <2>2, <3>1 DEF Revoked
  <2>3. CASE t \notin victims /\ t = token
    <3>1. [session[t] EXCEPT !.under = password] \in Session
      BY <2>1, <2>3 DEF Session
    <3> QED  BY <2>3, <3>1 DEF Revoked
  <2>4. CASE t \notin victims /\ t # token
    BY <2>1, <2>4 DEF Revoked
  <2> QED  BY <2>2, <2>3, <2>4
<1> QED  BY <1>1 DEF Revoked

\* A step of a request that changes no row.
ReadStep(q) ==
    /\ UNCHANGED <<user, session>>
    /\ \/ \E u \in Users : BeginRegister(q, u) \/ BeginLogin(q, u) \/ BeginReset(q, u)
       \/ \E t \in Tokens : Authenticate(q, t)
       \/ BeginChange(q)
       \/ FlushPassword(q)
       \/ End(q)

\* Next by what the step does to the rows.
LEMMA NextSplit ==
    ASSUME Next
    PROVE  \/ \E t \in Tokens : Expire(t)
           \/ \E q \in Requests :
                \/ ReadStep(q)
                \/ Logout(q)
                \/ CommitPassword(q)
                \/ \E t \in Tokens : Register(q, t) \/ Login(q, t)
                \/ \E u \in Users, enabled \in BOOLEAN : UpdateStatus(q, u, enabled)
  BY DEF Next, ReadStep, BeginRegister, BeginLogin, BeginReset, Authenticate,
     BeginChange, FlushPassword, End

\* The types are kept by every step.
LEMMA NextType ==
    ASSUME TypeOK, Referenced, VictimsComplete, [Next]_vars
    PROVE  TypeOK'
<1>1. ASSUME NEW q \in Requests
      PROVE  request[q] \in Request
  BY DEF TypeOK
<1>2. CASE UNCHANGED vars
  BY <1>2 DEF vars, TypeOK
<1>3. ASSUME NEW t \in Tokens, Expire(t)
      PROVE  TypeOK'
  <2>1. session[t] \in Session
    BY <1>3 DEF Expire, Live, TypeOK
  <2>2. [session[t] EXCEPT !.status = "expired"] \in Session
    BY <2>1 DEF Session
  <2> QED  BY <1>3, <2>2 DEF Expire, TypeOK
<1>4. ASSUME NEW q \in Requests, ReadStep(q)
      PROVE  TypeOK'
  <2>1. ASSUME NEW state \in Request, Goto(q, state)
        PROVE  request' \in [Requests -> Request]
    BY <2>1 DEF Goto, TypeOK
  <2>2. CASE \E u \in Users : BeginRegister(q, u) \/ BeginLogin(q, u) \/ BeginReset(q, u)
    <3>1. FirstRole \in {"owner", "member"}
      BY DEF FirstRole
    <3> QED  BY <1>4, <2>1, <2>2, <3>1, RequestStates
             DEF BeginRegister, BeginLogin, BeginReset, ReadStep, TypeOK
  <2>3. CASE \E t \in Tokens : Authenticate(q, t)
    <3>1. PICK t \in Tokens : Authenticate(q, t)
      BY <2>3
    <3>2. session[t] \in Session /\ session[t].user \in Users
      BY <3>1 DEF Authenticate, Live, TypeOK, Session
    <3>3. user[session[t].user] \in User
      BY <3>1, <3>2 DEF Referenced, Exists, TypeOK, Authenticate, Live
    <3>4. user[session[t].user].role \in {"owner", "member"}
      BY <3>3 DEF User
    <3> QED  BY <1>4, <2>1, <3>1, <3>2, <3>4, RequestStates
             DEF Authenticate, ReadStep, TypeOK
  <2>4. CASE BeginChange(q)
    BY <1>1, <1>4, <2>1, <2>4, RequestFields, RequestStates
    DEF BeginChange, ReadStep, TypeOK
  <2>5. CASE FlushPassword(q)
    <3>1. request[q].user \in Users /\ request[q].token \in Tokens \cup {None}
      BY <1>1, <2>5, RequestFields DEF FlushPassword
    <3>2. OtherSessions(request[q].user, request[q].token) \in SUBSET Tokens
      BY DEF OtherSessions
    <3> QED  BY <1>4, <2>1, <2>5, <3>1, <3>2, RequestStates
             DEF FlushPassword, ReadStep, TypeOK
  <2>6. CASE End(q)
    BY <1>4, <2>1, <2>6, RequestStates DEF End, ReadStep, TypeOK
  <2> QED  BY <1>4, <2>2, <2>3, <2>4, <2>5, <2>6 DEF ReadStep
<1>5. ASSUME NEW q \in Requests, Goto(q, Idle)
      PROVE  request' \in [Requests -> Request]
  BY <1>5, RequestStates DEF Goto, TypeOK
<1>6. ASSUME NEW q \in Requests, Logout(q)
      PROVE  TypeOK'
  <2>1. request[q].token \in Tokens /\ session[request[q].token] # None
    BY <1>1, <1>6, RequestFields, ConstantsAssumption DEF Logout, Referenced
  <2>2. session[request[q].token] \in Session
    BY <2>1 DEF TypeOK
  <2>3. [session[request[q].token] EXCEPT !.status = "revoked"] \in Session
    BY <2>2 DEF Session
  <2> QED  BY <1>5, <1>6, <2>1, <2>3 DEF Logout, TypeOK
<1>7. ASSUME NEW q \in Requests, CommitPassword(q)
      PROVE  TypeOK'
  <2>1. /\ request[q].user \in Users
        /\ request[q].token \in Tokens \cup {None}
        /\ request[q].victims \in SUBSET Tokens
    BY <1>1, <1>7, RequestFields DEF CommitPassword
  <2>2. user[request[q].user] \in User
    BY <1>7, <2>1 DEF CommitPassword, Referenced, Exists, TypeOK
  <2>3. user[request[q].user].password + 1 \in Nat
    BY <2>2 DEF User
  <2>4. [user[request[q].user] EXCEPT !.password = user[request[q].user].password + 1]
            \in User
    BY <2>2, <2>3 DEF User
  <2>5. user' \in [Users -> User \cup {None}]
    BY <1>7, <2>1, <2>4 DEF CommitPassword, TypeOK
  <2>6. /\ \A t \in request[q].victims : session[t] # None
        /\ request[q].token \in Tokens => session[request[q].token] # None
    BY <1>7, ConstantsAssumption DEF CommitPassword, VictimsComplete, Referenced
  <2>7. session' \in [Tokens -> Session \cup {None}]
    BY <1>7, <2>1, <2>3, <2>6, RevokedType DEF CommitPassword
  <2> QED  BY <1>5, <1>7, <2>5, <2>7 DEF CommitPassword, TypeOK
<1>8. ASSUME NEW q \in Requests, NEW t \in Tokens, Register(q, t)
      PROVE  TypeOK'
  <2>1. request[q].user \in Users /\ request[q].role \in {"owner", "member"}
    BY <1>1, <1>8, RequestFields DEF Register
  <2>2. NewUser(request[q].role) \in User
    BY <2>1 DEF NewUser, User
  <2>3. session' \in [Tokens -> Session \cup {None}]
    BY <1>8, <2>1, OpenType DEF Register
  <2> QED  BY <1>5, <1>8, <2>1, <2>2, <2>3 DEF Register, TypeOK
<1>9. ASSUME NEW q \in Requests, NEW t \in Tokens, Login(q, t)
      PROVE  TypeOK'
  <2>1. request[q].user \in Users
    BY <1>1, <1>9, RequestFields DEF Login
  <2>2. user[request[q].user] \in User
    BY <1>9, <2>1 DEF Login, Referenced, Exists, TypeOK
  <2>3. user[request[q].user].password \in Nat
    BY <2>2 DEF User
  <2>4. session' \in [Tokens -> Session \cup {None}]
    BY <1>9, <2>1, <2>3, OpenType DEF Login
  <2> QED  BY <1>5, <1>9, <2>4 DEF Login, TypeOK
<1>10. ASSUME NEW q \in Requests, NEW u \in Users, NEW enabled \in BOOLEAN,
              UpdateStatus(q, u, enabled)
       PROVE  TypeOK'
  <2>1. user[u] \in User
    BY <1>10 DEF UpdateStatus, Exists, TypeOK
  <2>2. [user[u] EXCEPT !.enabled = enabled] \in User
    BY <2>1 DEF User
  <2> QED  BY <1>5, <1>10, <2>2 DEF UpdateStatus, TypeOK
<1> QED  BY <1>2, <1>3, <1>4, <1>6, <1>7, <1>8, <1>9, <1>10, NextSplit

-----------------------------------------------------------------------------
(* What one step does.                                                      *)

\* Where a step that changes no row leaves the requests.
LEMMA ReadOutcome ==
    ASSUME TypeOK, Referenced, NEW q \in Requests, ReadStep(q)
    PROVE  /\ \A r \in Requests : r # q => request'[r] = request[r]
           /\ LET x == request'[q] IN
              \/ x.pc = "idle"
              \/ x.pc = "registering" /\ x.role = FirstRole
              \/ x.pc = "login" /\ Exists(x.user)
              \/ /\ x.pc \in {"authenticated", "ready", "flushed"}
                 /\ Exists(x.user)
                 /\ x.token # None =>
                        session[x.token] # None /\ session[x.token].user = x.user
                 /\ x.pc = "flushed" =>
                        /\ ~RowLocked(x.user)
                        /\ x.victims = OtherSessions(x.user, x.token)
<1> USE DEF Goto, TypeOK
<1>1. CASE \E u \in Users : BeginRegister(q, u)
  BY <1>1 DEF BeginRegister
<1>2. CASE \E u \in Users : BeginLogin(q, u)
  BY <1>2 DEF BeginLogin
<1>3. CASE \E u \in Users : BeginReset(q, u)
  BY <1>3 DEF BeginReset
<1>4. CASE \E t \in Tokens : Authenticate(q, t)
  BY <1>4 DEF Authenticate, Live, Referenced
<1>5. CASE BeginChange(q)
  BY <1>5 DEF BeginChange, Referenced
<1>6. CASE FlushPassword(q)
  BY <1>6 DEF FlushPassword, Referenced
<1>7. CASE End(q)
  BY <1>7, RequestStates DEF End
<1> QED  BY <1>1, <1>2, <1>3, <1>4, <1>5, <1>6, <1>7 DEF ReadStep

\* The other steps of a request end it.
LEMMA EndsRequest ==
    ASSUME TypeOK, NEW q \in Requests,
           \/ Logout(q)
           \/ CommitPassword(q)
           \/ \E t \in Tokens : Register(q, t) \/ Login(q, t)
           \/ \E u \in Users, enabled \in BOOLEAN : UpdateStatus(q, u, enabled)
    PROVE  /\ request'[q].pc = "idle"
           /\ \A r \in Requests : r # q => request'[r] = request[r]
<1>1. Goto(q, Idle)
  BY DEF Logout, CommitPassword, Register, Login, UpdateStatus
<1> QED  BY <1>1, RequestStates DEF Goto, TypeOK

\* Users are never deleted and never change their role.
LEMMA UsersKept ==
    ASSUME TypeOK, TypeOK', Next, NEW u \in Users, Exists(u)
    PROVE  Exists(u)' /\ user'[u].role = user[u].role
<1>1. user[u] \in User
  BY DEF Exists, TypeOK
<1>2. CASE user' = user
  BY <1>2 DEF Exists
<1>3. ASSUME NEW q \in Requests, CommitPassword(q)
      PROVE  Exists(u)' /\ user'[u].role = user[u].role
  <2>1. CASE request[q].user = u
    <3>1. user'[u] = [user[u] EXCEPT !.password = user[u].password + 1]
      BY <1>3, <2>1 DEF CommitPassword, TypeOK
    <3>2. user'[u] \in User
      BY <1>1, <3>1 DEF User
    <3> QED  BY <1>1, <3>1, <3>2, ConstantsAssumption DEF Exists, User
  <2>2. CASE request[q].user # u
    BY <1>3, <2>2 DEF CommitPassword, TypeOK, Exists
  <2> QED  BY <2>1, <2>2
<1>4. ASSUME NEW q \in Requests, NEW v \in Users, NEW enabled \in BOOLEAN,
             UpdateStatus(q, v, enabled)
      PROVE  Exists(u)' /\ user'[u].role = user[u].role
  <2>1. CASE v = u
    <3>1. user'[u] = [user[u] EXCEPT !.enabled = enabled]
      BY <1>4, <2>1 DEF UpdateStatus, TypeOK
    <3>2. user'[u] \in User
      BY <1>1, <3>1 DEF User
    <3> QED  BY <1>1, <3>1, <3>2, ConstantsAssumption DEF Exists, User
  <2>2. CASE v # u
    BY <1>4, <2>2 DEF UpdateStatus, TypeOK, Exists
  <2> QED  BY <2>1, <2>2
<1>5. ASSUME NEW q \in Requests, NEW t \in Tokens, Register(q, t)
      PROVE  Exists(u)' /\ user'[u].role = user[u].role
  BY <1>5 DEF Register, TypeOK, Exists
<1> QED  BY <1>2, <1>3, <1>4, <1>5, NextSplit DEF Expire, ReadStep, Logout, Login

\* Sessions are never deleted and never change their user; one that is not
\* live does not come to life again.
LEMMA SessionsKept ==
    ASSUME TypeOK, Referenced, Next, NEW t \in Tokens, session[t] # None
    PROVE  /\ session'[t] # None
           /\ session'[t].user = session[t].user
           /\ session'[t].status = "live" => session[t].status = "live"
           /\ session[t].status = "revoked" => session'[t].status = "revoked"
<1> DEFINE Kept ==
        /\ session'[t] # None
        /\ session'[t].user = session[t].user
        /\ session'[t].status = "live" => session[t].status = "live"
        /\ session[t].status = "revoked" => session'[t].status = "revoked"
<1>1. session[t] \in Session
  BY DEF TypeOK
<1>2. CASE session'[t] = session[t]
  BY <1>2
<1>3. ASSUME NEW status \in {"revoked", "expired"},
             session'[t] = [session[t] EXCEPT !.status = status],
             status = "expired" => session[t].status = "live"
      PROVE  Kept
  <2>1. session'[t] \in Session
    BY <1>1, <1>3 DEF Session
  <2> QED  BY <1>1, <1>3, <2>1, ConstantsAssumption DEF Session
<1>4. ASSUME NEW password \in Nat,
             session'[t] = [session[t] EXCEPT !.under = password]
      PROVE  Kept
  <2>1. session'[t] \in Session
    BY <1>1, <1>4 DEF Session
  <2> QED  BY <1>1, <1>4, <2>1, ConstantsAssumption DEF Session
<1>5. ASSUME NEW v \in Tokens, Expire(v)
      PROVE  Kept
  BY <1>2, <1>3, <1>5 DEF Expire, Live, TypeOK
<1>6. ASSUME NEW q \in Requests, Logout(q)
      PROVE  Kept
  BY <1>2, <1>3, <1>6 DEF Logout, TypeOK
<1>7. ASSUME NEW q \in Requests, CommitPassword(q)
      PROVE  Kept
  <2>1. request[q] \in Request /\ request[q].user \in Users
    BY <1>7, RequestFields DEF CommitPassword, TypeOK
  <2>2. user[request[q].user] \in User
    BY <1>7, <2>1 DEF CommitPassword, Referenced, Exists, TypeOK
  <2>3. user[request[q].user].password + 1 \in Nat
    BY <2>2 DEF User
  <2> QED  BY <1>2, <1>3, <1>4, <1>7, <2>3 DEF CommitPassword, Revoked
<1>8. ASSUME NEW v \in Tokens, NEW u, NEW password, Open(v, u, password)
      PROVE  Kept
  BY <1>2, <1>8 DEF Open, TypeOK
<1>9. ASSUME NEW q \in Requests, NEW v \in Tokens, Register(q, v) \/ Login(q, v)
      PROVE  Kept
  BY <1>8, <1>9 DEF Register, Login
<1>10. CASE session' = session
  BY <1>2, <1>10
<1> QED
  BY <1>5, <1>6, <1>7, <1>9, <1>10, NextSplit DEF ReadStep, UpdateStatus

\* What an opened session is.
LEMMA Opened ==
    ASSUME TypeOK, NEW t \in Tokens, NEW u \in Users, NEW password \in Nat,
           Open(t, u, password)
    PROVE  /\ session'[t] # None
           /\ session'[t].user = u /\ session'[t].under = password
           /\ \A v \in Tokens : v # t => session'[v] = session[v]
           /\ session[t] = None
<1>1. [user |-> u, status |-> "live", under |-> password] \in Session
  BY DEF Session
<1> QED  BY <1>1, ConstantsAssumption DEF Open, TypeOK

\* Who opens a session: a user that is new or whose row nobody holds.
LEMMA Opening ==
    ASSUME TypeOK, TypeOK', Referenced, NEW q \in Requests, NEW t \in Tokens,
           Register(q, t) \/ Login(q, t)
    PROVE  \E u \in Users :
                /\ Exists(u)'
                /\ ~Exists(u) \/ ~RowLocked(u)
                /\ user'[u].password \in Nat
                /\ Open(t, u, user'[u].password)
                /\ \A v \in Users : v # u => user'[v] = user[v]
                /\ Exists(u) => user'[u] = user[u]
<1> DEFINE u == request[q].user
<1>1. u \in Users
  BY RequestFields DEF Register, Login, TypeOK
<1>2. CASE Register(q, t)
  <2>1. request[q].role \in {"owner", "member"}
    BY <1>2, RequestFields DEF Register, TypeOK
  <2>2. NewUser(request[q].role) \in User /\ NewUser(request[q].role).password = 0
    BY <2>1 DEF NewUser, User
  <2>3. user'[u] = NewUser(request[q].role)
    BY <1>1, <1>2 DEF Register, TypeOK
  <2>4. Open(t, u, 0) /\ ~Exists(u)
    BY <1>2 DEF Register
  <2>5. \A v \in Users : v # u => user'[v] = user[v]
    BY <1>2 DEF Register, TypeOK
  <2> QED  BY <1>1, <2>2, <2>3, <2>4, <2>5, ConstantsAssumption DEF Exists
<1>3. CASE Login(q, t)
  <2>1. Exists(u) /\ ~RowLocked(u) /\ Open(t, u, user[u].password) /\ user' = user
    BY <1>3 DEF Login, Referenced
  <2>2. user[u] \in User
    BY <1>1, <2>1 DEF Exists, TypeOK
  <2>3. user[u].password \in Nat
    BY <2>2 DEF User
  <2> QED  BY <1>1, <2>1, <2>3 DEF Exists
<1> QED  BY <1>2, <1>3

-----------------------------------------------------------------------------
(* The parts of the invariant.                                              *)

\* A request that a step changes: it read, or it ended.
LEMMA RequestStep ==
    ASSUME TypeOK, Referenced, Next, NEW q \in Requests, request'[q] # request[q]
    PROVE  ReadStep(q) \/ request'[q].pc = "idle"
<1>1. ASSUME NEW r \in Requests, ReadStep(r), r # q
      PROVE  FALSE
  BY <1>1, ReadOutcome
<1>2. ASSUME NEW r \in Requests,
             \/ Logout(r)
             \/ CommitPassword(r)
             \/ \E t \in Tokens : Register(r, t) \/ Login(r, t)
             \/ \E u \in Users, enabled \in BOOLEAN : UpdateStatus(r, u, enabled)
      PROVE  request'[q].pc = "idle"
  BY <1>2, EndsRequest
<1> QED  BY <1>1, <1>2, NextSplit DEF Expire

\* The part of the invariant about roles is kept by every step.
LEMMA OwnersStep ==
    ASSUME TypeOK, TypeOK', Referenced, OwnerExists, MembersFollow, Next
    PROVE  OwnerExists' /\ MembersFollow'
<1>1. OwnerExists'
  <2>1. CASE \E u \in Users : Exists(u)
    <3>1. PICK u \in Users : Exists(u) /\ user[u].role = "owner"
      BY <2>1 DEF OwnerExists
    <3> QED  BY <3>1, UsersKept DEF OwnerExists
  <2>2. CASE ~\E u \in Users : Exists(u)
    <3>1. ASSUME NEW q \in Requests, NEW t \in Tokens, Register(q, t)
          PROVE  OwnerExists'
      <4>1. request[q].user \in Users /\ request[q].role \in {"owner", "member"}
        BY <3>1, RequestFields DEF Register, TypeOK
      <4>2. request[q].role = "owner"
        BY <2>2, <3>1, <4>1 DEF Register, MembersFollow
      <4>3. user'[request[q].user] = NewUser("owner")
        BY <3>1, <4>1, <4>2 DEF Register, TypeOK
      <4>4. NewUser("owner") \in User /\ NewUser("owner").role = "owner"
        BY DEF NewUser, User
      <4> QED  BY <4>1, <4>3, <4>4, ConstantsAssumption DEF OwnerExists, Exists
    <3>2. CASE user' = user
      BY <2>2, <3>2 DEF OwnerExists, Exists
    <3>3. ASSUME NEW q \in Requests, CommitPassword(q)
          PROVE  FALSE
      BY <2>2, <3>3, RequestFields DEF CommitPassword, Referenced, TypeOK
    <3>4. ASSUME NEW q \in Requests, NEW u \in Users, NEW enabled \in BOOLEAN,
                 UpdateStatus(q, u, enabled)
          PROVE  FALSE
      BY <2>2, <3>4 DEF UpdateStatus
    <3> QED  BY <3>1, <3>2, <3>3, <3>4, NextSplit DEF Expire, ReadStep, Logout, Login
  <2> QED  BY <2>1, <2>2
<1>2. ASSUME NEW q \in Requests, request'[q].pc = "registering",
             request'[q].role = "member"
      PROVE  \E u \in Users : Exists(u)'
  <2>1. \E u \in Users : Exists(u)
    <3>1. CASE request'[q] = request[q]
      BY <1>2, <3>1 DEF MembersFollow
    <3>2. CASE request'[q] # request[q]
      BY <1>2, <3>2, RequestStep, ReadOutcome DEF FirstRole
    <3> QED  BY <3>1, <3>2
  <2> QED  BY <2>1, UsersKept
<1> QED  BY <1>1, <1>2 DEF MembersFollow

\* A session comes into being by registration or login.
LEMMA NewSession ==
    ASSUME TypeOK, Referenced, VictimsComplete, Next,
           NEW t \in Tokens, session'[t] # None, session[t] = None
    PROVE  \E q \in Requests, v \in Tokens : Register(q, v) \/ Login(q, v)
<1>1. CASE session' = session
  BY <1>1
<1>2. ASSUME NEW v \in Tokens, Expire(v)
      PROVE  FALSE
  BY <1>2 DEF Expire, Live, TypeOK
<1>3. ASSUME NEW q \in Requests, Logout(q)
      PROVE  FALSE
  <2>1. request[q].token \in Tokens
    BY <1>3, RequestFields DEF Logout, TypeOK
  <2>2. session[request[q].token] # None
    BY <1>3, <2>1, ConstantsAssumption DEF Logout, Referenced
  <2> QED  BY <1>3, <2>2 DEF Logout, TypeOK
<1>4. ASSUME NEW q \in Requests, CommitPassword(q)
      PROVE  FALSE
  <2>1. t \notin request[q].victims
    BY <1>4 DEF CommitPassword, VictimsComplete
  <2>2. t # request[q].token
    BY <1>4, ConstantsAssumption DEF CommitPassword, Referenced
  <2> QED  BY <1>4, <2>1, <2>2 DEF CommitPassword, Revoked
<1> QED  BY <1>1, <1>2, <1>3, <1>4, NextSplit DEF ReadStep, UpdateStatus

\* References stay good.
LEMMA ReferencedStep ==
    ASSUME TypeOK, TypeOK', Referenced, VictimsComplete, Next
    PROVE  Referenced'
<1>1. ASSUME NEW t \in Tokens, session'[t] # None
      PROVE  user'[session'[t].user] # None
  <2>1. CASE session[t] # None
    <3>1. session[t].user \in Users /\ Exists(session[t].user)
      BY <2>1 DEF TypeOK, Session, Referenced
    <3> QED  BY <2>1, <3>1, SessionsKept, UsersKept DEF Exists
  <2>2. CASE session[t] = None
    <3>1. PICK q \in Requests, v \in Tokens : Register(q, v) \/ Login(q, v)
      BY <1>1, <2>2, NewSession
    <3>2. PICK u \in Users : /\ Exists(u)'
                             /\ user'[u].password \in Nat
                             /\ Open(v, u, user'[u].password)
      BY <3>1, Opening
    <3>3. session'[t].user = u
      BY <1>1, <2>2, <3>2, Opened
    <3> QED  BY <3>2, <3>3 DEF Exists
  <2> QED  BY <2>1, <2>2
<1>2. ASSUME NEW q \in Requests,
             request'[q].pc \in {"login", "authenticated", "ready", "flushed"}
      PROVE  /\ user'[request'[q].user] # None
             /\ request'[q].pc # "login" /\ request'[q].token # None =>
                    /\ session'[request'[q].token] # None
                    /\ session'[request'[q].token].user = request'[q].user
  <2>1. /\ request'[q].user \in Users
        /\ request'[q].pc # "login" => request'[q].token \in Tokens \cup {None}
    BY <1>2, RequestFields DEF TypeOK
  <2>2. /\ Exists(request'[q].user)
        /\ request'[q].pc # "login" /\ request'[q].token # None =>
                    /\ session[request'[q].token] # None
                    /\ session[request'[q].token].user = request'[q].user
    <3>1. CASE request'[q] = request[q]
      BY <1>2, <3>1 DEF Referenced
    <3>2. CASE request'[q] # request[q]
      <4>1. ReadStep(q)
        BY <1>2, <3>2, RequestStep
      <4> QED  BY <1>2, <4>1, ReadOutcome
    <3> QED  BY <3>1, <3>2
  <2>3. user'[request'[q].user] # None
    BY <2>1, <2>2, UsersKept DEF Exists
  <2> QED  BY <2>1, <2>2, <2>3, SessionsKept
<1> QED  BY <1>1, <1>2 DEF Referenced, Exists

\* The row of a user is held by one request at a time.
LEMMA RowHeldOnceStep ==
    ASSUME TypeOK, TypeOK', Referenced, RowHeldOnce, Next
    PROVE  RowHeldOnce'
<1>1. ASSUME NEW q \in Requests, request'[q].pc = "flushed",
             request'[q] # request[q], NEW r \in Requests, r # q,
             request'[r].pc = "flushed"
      PROVE  request'[q].user # request'[r].user
  <2>1. ReadStep(q)
    BY <1>1, RequestStep
  <2>2. ~RowLocked(request'[q].user) /\ request'[r] = request[r]
    BY <1>1, <2>1, ReadOutcome
  <2> QED  BY <1>1, <2>2 DEF RowLocked
<1> QED  BY <1>1 DEF RowHeldOnce

\* What a flushed change has found stays complete until it commits.
LEMMA VictimsCompleteStep ==
    ASSUME TypeOK, TypeOK', Referenced, RowHeldOnce, VictimsComplete, Next
    PROVE  VictimsComplete'
<1>1. ASSUME NEW q \in Requests, request'[q].pc = "flushed"
      PROVE  /\ request'[q].victims \subseteq Tokens
             /\ request'[q].token \notin request'[q].victims
             /\ \A t \in request'[q].victims :
                    session[t] # None /\ session[t].user = request'[q].user
             /\ \A t \in Tokens :
                    ~Ended(t) /\ session[t].user = request'[q].user =>
                        t \in request'[q].victims \/ t = request'[q].token
  <2>1. CASE request'[q] = request[q]
    BY <1>1, <2>1, RequestFields DEF VictimsComplete, TypeOK
  <2>2. CASE request'[q] # request[q]
    <3>1. ReadStep(q)
      BY <1>1, <2>2, RequestStep
    <3>2. request'[q].victims = OtherSessions(request'[q].user, request'[q].token)
      BY <1>1, <3>1, ReadOutcome
    <3> QED  BY <3>2 DEF OtherSessions, Ended
  <2> QED  BY <2>1, <2>2
<1>2. ASSUME NEW q \in Requests, request'[q].pc = "flushed",
             NEW t \in Tokens, session'[t] # None, session[t] = None
      PROVE  session'[t].user # request'[q].user
  <2>1. PICK r \in Requests, v \in Tokens : Register(r, v) \/ Login(r, v)
    BY <1>2, NewSession
  <2>2. PICK u \in Users : /\ ~Exists(u) \/ ~RowLocked(u)
                           /\ user'[u].password \in Nat
                           /\ Open(v, u, user'[u].password)
    BY <2>1, Opening
  <2>3. session'[t].user = u
    BY <1>2, <2>2, Opened
  <2>4. r # q /\ request'[q] = request[q]
    BY <1>2, <2>1, EndsRequest
  <2>5. Exists(request[q].user) /\ RowLocked(request[q].user)
    BY <1>2, <2>4 DEF Referenced, RowLocked
  <2> QED  BY <2>2, <2>3, <2>4, <2>5
<1> QED  BY <1>1, <1>2, SessionsKept DEF VictimsComplete, Ended

\* Live sessions are under the password in force.
LEMMA SessionsUnderStep ==
    ASSUME TypeOK, TypeOK', Referenced, VictimsComplete, SessionsUnderPassword,
           Next
    PROVE  SessionsUnderPassword'
<1> SUFFICES ASSUME NEW t \in Tokens, session'[t] # None, session'[t].status = "live"
             PROVE  session'[t].under = user'[session'[t].user].password
  BY DEF SessionsUnderPassword, Live
<1>1. CASE session[t] = None
  <2>1. PICK q \in Requests, v \in Tokens : Register(q, v) \/ Login(q, v)
    BY <1>1, NewSession
  <2> QED  BY <1>1, <2>1, Opening, Opened
<1>2. CASE session[t] # None
  <2> DEFINE w == session[t].user
  <2>1. /\ session[t].under = user[w].password
        /\ session'[t].user = w
    BY <1>2, SessionsKept DEF SessionsUnderPassword, Live
  <2>2. w \in Users /\ user[w] \in User
    BY <1>2 DEF TypeOK, Session, Referenced, Exists
  <2>3. CASE user' = user /\ session'[t] = session[t]
    BY <2>1, <2>3
  <2>4. ASSUME NEW v \in Tokens, Expire(v)
        PROVE  user' = user /\ session'[t] = session[t]
    <3>1. session[v] \in Session
      BY <2>4 DEF Expire, Live, TypeOK
    <3>2. [session[v] EXCEPT !.status = "expired"].status = "expired"
      BY <3>1 DEF Session
    <3> QED  BY <2>4, <3>2 DEF Expire, TypeOK
  <2>5. ASSUME NEW q \in Requests, Logout(q)
        PROVE  user' = user /\ session'[t] = session[t]
    <3>1. session[t] \in Session
      BY <1>2 DEF TypeOK
    <3>2. [session[t] EXCEPT !.status = "revoked"].status = "revoked"
      BY <3>1 DEF Session
    <3> QED  BY <2>5, <3>2 DEF Logout, TypeOK
  <2>6. ASSUME NEW q \in Requests, CommitPassword(q)
        PROVE  session'[t].under = user'[w].password
    <3> DEFINE u == request[q].user
    <3>1. session[t] \in Session /\ u \in Users
      BY <1>2, <2>6, RequestFields DEF CommitPassword, TypeOK
    <3>2. t \notin request[q].victims
      BY <2>6, <3>1 DEF CommitPassword, Revoked, Session
    <3>3. CASE t = request[q].token
      <4>1. w = u
        BY <2>6, <3>3, ConstantsAssumption DEF CommitPassword, Referenced
      <4>2. session'[t].under = user[u].password + 1
        BY <2>6, <3>1, <3>2, <3>3 DEF CommitPassword, Revoked, Session
      <4>3. user'[u].password = user[u].password + 1
        BY <2>2, <2>6, <4>1 DEF CommitPassword, TypeOK, User
      <4> QED  BY <4>1, <4>2, <4>3
    <3>4. CASE t # request[q].token
      <4>1. session'[t] = session[t]
        BY <2>6, <3>2, <3>4 DEF CommitPassword, Revoked
      <4>2. w # u
        BY <1>2, <2>6, <3>2, <3>4, <4>1 DEF CommitPassword, VictimsComplete, Live, Ended
      <4>3. user'[w] = user[w]
        BY <2>2, <2>6, <4>2 DEF CommitPassword, TypeOK
      <4> QED  BY <2>1, <4>1, <4>3
    <3> QED  BY <3>3, <3>4
  <2>7. ASSUME NEW q \in Requests, NEW v \in Tokens, Register(q, v) \/ Login(q, v)
        PROVE  session'[t].under = user'[w].password
    <3>1. PICK u \in Users :
            /\ user'[u].password \in Nat
            /\ Open(v, u, user'[u].password)
            /\ \A x \in Users : x # u => user'[x] = user[x]
            /\ Exists(u) => user'[u] = user[u]
      BY <2>7, Opening
    <3>2. session'[t] = session[t]
      BY <1>2, <3>1, Opened
    <3>3. user'[w] = user[w]
      BY <2>2, <3>1, ConstantsAssumption DEF Exists
    <3> QED  BY <2>1, <3>2, <3>3
  <2>8. ASSUME NEW q \in Requests, NEW u \in Users, NEW enabled \in BOOLEAN,
               UpdateStatus(q, u, enabled)
        PROVE  session'[t].under = user'[w].password
    <3>1. user'[w].password = user[w].password
      BY <2>2, <2>8 DEF UpdateStatus, TypeOK, User
    <3> QED  BY <2>1, <2>8, <3>1 DEF UpdateStatus
  <2> QED
    BY <2>1, <2>3, <2>4, <2>5, <2>6, <2>7, <2>8, NextSplit DEF ReadStep
<1> QED  BY <1>1, <1>2

-----------------------------------------------------------------------------
(* The theorems.                                                            *)

\* So is the whole invariant.
LEMMA IInvStep ==
    ASSUME IInv, [Next]_vars
    PROVE  IInv'
<1>1. CASE Next
  <2>1. TypeOK'
    BY NextType DEF IInv
  <2> QED
    BY <1>1, <2>1, OwnersStep, ReferencedStep, RowHeldOnceStep,
       VictimsCompleteStep, SessionsUnderStep DEF IInv
<1>2. CASE UNCHANGED vars
  BY <1>2 DEF vars, IInv, TypeOK, OwnerExists, MembersFollow, Referenced,
     RowHeldOnce, VictimsComplete, SessionsUnderPassword, Exists, Live, Ended
<1> QED  BY <1>1, <1>2

\* The inductive invariant holds in every reachable state.
THEOREM Inductive == Spec => []IInv
<1>1. Init => IInv
  BY RequestStates, ConstantsAssumption
  DEF Init, IInv, TypeOK, OwnerExists, MembersFollow, Referenced, RowHeldOnce,
      VictimsComplete, SessionsUnderPassword, Exists, Live, Ended
<1> QED  BY <1>1, IInvStep, PTL DEF Spec

\* Rows and requests keep their types, for any number of each.
THEOREM TypeCorrect == Spec => []TypeOK
<1>1. IInv => TypeOK
  BY DEF IInv
<1> QED  BY <1>1, Inductive, PTL

\* Somebody is owner as soon as anybody is registered, however many
\* registrations overlap.
THEOREM OwnerThere == Spec => []OwnerExists
<1>1. IInv => OwnerExists
  BY DEF IInv
<1> QED  BY <1>1, Inductive, PTL

\* A password change leaves no other session live, for any number of
\* overlapping logins and changes.
THEOREM OthersSignedOut == Spec => []SessionsUnderPassword
<1>1. IInv => SessionsUnderPassword
  BY DEF IInv
<1> QED  BY <1>1, Inductive, PTL

\* Signing out and revocation are final: no overlapping transaction brings a
\* session back.
RevokedForGood ==
    [][\A t \in Tokens :
        session[t] # None /\ session[t].status = "revoked" =>
            session'[t].status = "revoked"]_vars

\* A revoked session stays revoked, for any number of overlapping requests.
THEOREM RevocationFinal == Spec => RevokedForGood
<1>1. IInv /\ [Next]_vars =>
        [\A t \in Tokens : session[t] # None /\ session[t].status = "revoked" =>
                                session'[t].status = "revoked"]_vars
  BY SessionsKept DEF IInv
<1> QED  BY <1>1, Inductive, PTL DEF Spec, RevokedForGood

-----------------------------------------------------------------------------
(* Steps of the directory.                                                  *)

\* Every reading step, and every end without effect, leaves the rows alone; the
\* other steps are operations of the directory.

LEMMA ExpireDirectory ==
    ASSUME NEW t \in Tokens, Expire(t)
    PROVE  Directory!Expire(t)
  BY DEF Expire, Live, Directory!Expire

LEMMA LogoutDirectory ==
    ASSUME TypeOK, Referenced, NEW q \in Requests, Logout(q)
    PROVE  \E t \in Tokens : Directory!SignOut(t)
<1>1. request[q].token \in Tokens
  BY RequestFields DEF Logout, TypeOK
<1>2. session[request[q].token] # None
  BY <1>1, ConstantsAssumption DEF Logout, Referenced
<1>3. Directory!SignOut(request[q].token)
  BY <1>2 DEF Logout, Directory!SignOut
<1> QED  BY <1>1, <1>3

LEMMA StatusDirectory ==
    ASSUME NEW q \in Requests, NEW u \in Users, NEW enabled \in BOOLEAN,
           UpdateStatus(q, u, enabled)
    PROVE  Directory!SetStatus(u, enabled)
  BY DEF UpdateStatus, Exists, Directory!SetStatus, Directory!Exists

\* The members' guard: whoever was counted is there still, and so is the owner.
LEMMA RegisterDirectory ==
    ASSUME TypeOK, OwnerExists, MembersFollow, NEW q \in Requests, NEW t \in Tokens,
           Register(q, t)
    PROVE  \E u \in Users, role \in {"owner", "member"} : Directory!SignUp(u, t, role)
<1> DEFINE u == request[q].user
           role == request[q].role
<1>1. u \in Users /\ role \in {"owner", "member"}
  BY RequestFields DEF Register, TypeOK
<1>2. user' = [user EXCEPT ![u] = NewUser(role)] /\ Open(t, u, 0) /\ ~Exists(u)
  BY DEF Register
<1>3. user'[u].password = 0
  BY <1>1, <1>2 DEF NewUser, TypeOK
<1>4. role = "member" => Directory!HasOwner
  BY DEF Register, MembersFollow, OwnerExists, Exists, Directory!HasOwner, Directory!Exists
<1>5. Directory!Open(t, u)
  BY <1>2, <1>3 DEF Open, Directory!Open
<1>6. Directory!SignUp(u, t, role)
  BY <1>2, <1>4, <1>5 DEF NewUser, Exists, Directory!SignUp, Directory!Exists
<1> HIDE DEF u, role
<1> QED  BY <1>1, <1>6

LEMMA LoginDirectory ==
    ASSUME TypeOK, Referenced, NEW q \in Requests, NEW t \in Tokens, Login(q, t)
    PROVE  \E u \in Users : Directory!SignIn(u, t)
<1>1. request[q].user \in Users /\ Exists(request[q].user)
  BY RequestFields DEF Login, Referenced, TypeOK
<1>2. Directory!SignIn(request[q].user, t)
  BY <1>1 DEF Login, Open, Exists, Directory!SignIn, Directory!Open, Directory!Exists
<1> QED  BY <1>1, <1>2

\* The sessions a flushed change has found are at its commit exactly those that
\* are to end.
LEMMA CommitDirectory ==
    ASSUME TypeOK, Referenced, VictimsComplete, NEW q \in Requests, CommitPassword(q)
    PROVE  \E u \in Users :
              \/ Directory!ChangePassword(u, {})
              \/ \E t \in Tokens : Directory!ChangePassword(u, {t})
<1> DEFINE u == request[q].user
           token == request[q].token
           victims == request[q].victims
           password == user[u].password + 1
           keep == IF token = None THEN {} ELSE {token}
           other == {t \in Tokens : session[t] # None /\ session[t].user = u}
<1>1. request[q].pc = "flushed" /\ u \in Users /\ token \in Tokens \cup {None} /\ Exists(u)
  BY RequestFields DEF CommitPassword, Referenced, TypeOK
<1>2. /\ session' = Revoked(victims, token, password)
      /\ user' = [user EXCEPT ![u].password = password]
  BY DEF CommitPassword
<1>3. keep \subseteq other
  BY <1>1 DEF Referenced
<1>4. /\ victims \subseteq other /\ token \notin victims
      /\ \A t \in other : session[t].status # "revoked" => t \in victims \/ t = token
  <2>1. victims \subseteq Tokens
    BY <1>1, RequestFields DEF TypeOK
  <2> QED  BY <1>1, <2>1 DEF VictimsComplete, Ended
<1>5. ASSUME NEW t \in Tokens
      PROVE  session'[t] =
                IF t \in keep THEN [session[t] EXCEPT !.under = password]
                ELSE IF t \in other THEN [session[t] EXCEPT !.status = "revoked"]
                ELSE session[t]
  <2> HIDE DEF u, password
  <2>1. CASE t = token
    <3>1. t \in keep /\ t \notin victims
      BY <1>4, <2>1, ConstantsAssumption
    <3> QED  BY <1>2, <2>1, <3>1 DEF Revoked
  <2>2. CASE t \in victims
    <3>1. t \in other /\ t \notin keep
      BY <1>4, <2>2
    <3> QED  BY <1>2, <2>2, <3>1 DEF Revoked
  <2>3. CASE t \in other /\ t # token /\ t \notin victims
    <3>1. session[t].status = "revoked" /\ session[t] \in Session
      BY <1>4, <2>3 DEF TypeOK
    <3>2. [session[t] EXCEPT !.status = "revoked"] = session[t]
      BY <3>1 DEF Session
    <3>3. session'[t] = session[t] /\ t \notin keep
      BY <1>2, <2>3 DEF Revoked
    <3> QED  BY <2>3, <3>2, <3>3
  <2>4. CASE t \notin other /\ t # token /\ t \notin victims
    BY <1>2, <2>4 DEF Revoked
  <2> QED  BY <2>1, <2>2, <2>3, <2>4
<1>6. session' = [t \in Tokens |->
                IF t \in keep THEN [session[t] EXCEPT !.under = password]
                ELSE IF t \in other THEN [session[t] EXCEPT !.status = "revoked"]
                ELSE session[t]]
  BY <1>2, <1>5 DEF Revoked
<1>7. Directory!ChangePassword(u, keep)
  BY <1>1, <1>2, <1>3, <1>6 DEF Exists, Directory!ChangePassword, Directory!OfUser,
     Directory!Exists
<1>8. keep = {} \/ \E t \in Tokens : keep = {t}
  BY <1>1
<1> HIDE DEF u, keep
<1> QED  BY <1>1, <1>7, <1>8

LEMMA StepDirectory == IInv /\ [Next]_vars => [Directory!Next]_(Directory!vars)
<1> SUFFICES ASSUME IInv, Next PROVE [Directory!Next]_(Directory!vars)
  BY DEF vars, Directory!vars
<1>1. CASE UNCHANGED <<user, session>>
  BY <1>1 DEF Directory!vars
<1>2. ASSUME NEW t \in Tokens, Expire(t) PROVE Directory!Next
  BY <1>2, ExpireDirectory DEF Directory!Next
<1>3. ASSUME NEW q \in Requests, Logout(q) PROVE Directory!Next
  BY <1>3, LogoutDirectory DEF IInv, Directory!Next
<1>4. ASSUME NEW q \in Requests, CommitPassword(q) PROVE Directory!Next
  BY <1>4, CommitDirectory DEF IInv, Directory!Next
<1>5. ASSUME NEW q \in Requests, NEW t \in Tokens, Register(q, t) PROVE Directory!Next
  BY <1>5, RegisterDirectory DEF IInv, Directory!Next
<1>6. ASSUME NEW q \in Requests, NEW t \in Tokens, Login(q, t) PROVE Directory!Next
  BY <1>6, LoginDirectory DEF IInv, Directory!Next
<1>7. ASSUME NEW q \in Requests, NEW u \in Users, NEW enabled \in BOOLEAN,
             UpdateStatus(q, u, enabled)
      PROVE  Directory!Next
  BY <1>7, StatusDirectory DEF Directory!Next
<1> QED
  BY <1>1, <1>2, <1>3, <1>4, <1>5, <1>6, <1>7, NextSplit DEF ReadStep

\* What overlapping requests do to users and sessions is what one request at a
\* time would do: each commit is one operation of UserDirectory, for any number
\* of users, sessions and requests.
THEOREM OneAtATime == Spec => ImplementsDirectory
<1>1. Init => Directory!Init
  BY DEF Init, Directory!Init
<1> QED  BY <1>1, StepDirectory, Inductive, PTL DEF Spec, ImplementsDirectory, Directory!Spec
=============================================================================
