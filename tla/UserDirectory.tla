--------------------------- MODULE UserDirectory ---------------------------
(***************************************************************************)
(* What the people of an instance may rely on when requests overlap: each  *)
(* operation on users and sessions takes effect at once, on what there is  *)
(* at that moment.  The module knows no transactions, locks or queries,    *)
(* and no request that goes on with what it has read; UserAccess is the    *)
(* mechanism.                                                              *)
(***************************************************************************)
EXTENDS Naturals

CONSTANTS Users, Tokens, None

VARIABLES
    user,       \* user[u]: None or the user's role, password and state
    session     \* session[t]: None or the session

vars == <<user, session>>

Init ==
    /\ user = [u \in Users |-> None]
    /\ session = [t \in Tokens |-> None]

Exists(u) == user[u] # None

HasOwner == \E u \in Users : Exists(u) /\ user[u].role = "owner"

\* A new session has been opened under the password in force.
Open(t, u) ==
    /\ session[t] = None
    /\ session' = [session EXCEPT ![t] =
                      [user |-> u, status |-> "live", under |-> user'[u].password]]

\* Members come to an instance that has an owner.
SignUp(u, t, role) ==
    /\ ~Exists(u)
    /\ role = "member" => HasOwner
    /\ user' = [user EXCEPT ![u] = [role |-> role, password |-> 0, enabled |-> TRUE]]
    /\ Open(t, u)

\* The user may have been disabled since the password was checked.
SignIn(u, t) ==
    /\ Exists(u)
    /\ user' = user
    /\ Open(t, u)

SignOut(t) ==
    /\ session[t] # None
    /\ session' = [session EXCEPT ![t].status = "revoked"]
    /\ UNCHANGED user

Expire(t) ==
    /\ session[t] # None /\ session[t].status = "live"
    /\ session' = [session EXCEPT ![t].status = "expired"]
    /\ UNCHANGED user

SetStatus(u, enabled) ==
    /\ Exists(u)
    /\ user' = [user EXCEPT ![u].enabled = enabled]
    /\ UNCHANGED session

OfUser(u) == {t \in Tokens : session[t] # None /\ session[t].user = u}

\* All the user's sessions end but the one that changes the password, and no
\* session of anybody else.  A reset by the owner keeps none.
ChangePassword(u, keep) ==
    /\ Exists(u)
    /\ keep \subseteq OfUser(u)
    /\ user' = [user EXCEPT ![u].password = @ + 1]
    /\ session' = [t \in Tokens |->
          IF t \in keep THEN [session[t] EXCEPT !.under = user[u].password + 1]
          ELSE IF t \in OfUser(u) THEN [session[t] EXCEPT !.status = "revoked"]
          ELSE session[t]]

Next ==
    \/ \E u \in Users :
        \/ \E t \in Tokens, role \in {"owner", "member"} : SignUp(u, t, role)
        \/ \E t \in Tokens : SignIn(u, t) \/ ChangePassword(u, {t})
        \/ ChangePassword(u, {})
        \/ \E enabled \in BOOLEAN : SetStatus(u, enabled)
    \/ \E t \in Tokens : SignOut(t) \/ Expire(t)

Spec == Init /\ [][Next]_vars
=============================================================================
