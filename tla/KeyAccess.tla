------------------------------ MODULE KeyAccess ------------------------------
(***************************************************************************)
(* API keys and the access they give: an agent's request from its key to   *)
(* the provider call, while the owner creates, disables, enables and       *)
(* deletes keys and creates, renames and deletes mailboxes.                *)
(*                                                                         *)
(*   src/postara/api.py     require_user_api_key, require_mailbox_access,  *)
(*                          the /api-keys, /mailboxes and message handlers *)
(*   src/postara/users.py   RepositoryUserService, its API key methods     *)
(*                                                                         *)
(* Every database transaction is a step of its own, and between the read   *)
(* and the commit of a transaction that writes others may commit.          *)
(***************************************************************************)
EXTENDS Naturals, FiniteSets

CONSTANTS
    Users,
    Names,
    Mailboxes,  \* ids: an id is given out once
    Keys,       \* ids: a key is created once
    Requests,   \* requests at work at the same time
    None

ASSUME NoneAssumption == None \notin Mailboxes

VARIABLES
    mailbox,    \* mailbox[m]: the row in app.accounts
    key,        \* key[k]: the row in app.api_keys
    req,        \* req[r]: what a request does
    named       \* history: named[r]: the mailboxes of the user of r's key that
                \* have borne the requested name since r began

vars == <<mailbox, key, req, named>>

Scopes == {"read", "mark_seen"}

Unborn == [state |-> "unborn"]
Gone == [state |-> "gone"]

Row == [state : {"live"}, user : Users, name : Names] \cup {Unborn, Gone}

\* What require_user_api_key hands to the handler.
Grant == [user : Users, bound : Mailboxes \cup {None}, scopes : SUBSET Scopes]

KeyRow ==
    [state : {"live"}, grant : Grant, enabled : BOOLEAN] \cup {Unborn, Gone}

Idle == [pc |-> "idle"]

\* A request for a mailbox, of an agent or of a user with a session.  "read": the
\* key's row is read, last_used_at is not yet written; "granted": the key is
\* accepted; "found": the account is known; "operating": the credential is
\* loaded and the provider is called.
AgentRequest ==
    [pc : {"read", "granted", "found", "operating"}, key : Keys \cup {None},
     grant : Grant, name : Names, scope : Scopes, at : Mailboxes \cup {None}]

\* The owner's: the mailbox to bind to was looked up; a status is about to be
\* set, "was" being the one read.
OwnerRequest ==
    [pc : {"binding"}, grant : Grant]
        \cup [pc : {"switching"}, key : Keys, was : BOOLEAN, to : BOOLEAN]

\* The answer of GET /mailboxes to an agent.
Discovery == [pc : {"listed"}, grant : Grant, found : SUBSET Mailboxes]

Request == AgentRequest \cup OwnerRequest \cup Discovery \cup {Idle}

Agents == {r \in Requests : req[r].pc \in {"read", "granted", "found", "operating"}}

Live(row) == row.state = "live"
Enabled(k) == Live(key[k]) /\ key[k].enabled

OwnsOrGone(u, m) == Live(mailbox[m]) => mailbox[m].user = u

\* The account a name denotes for a user.
Denotes(m, u, n) == Live(mailbox[m]) /\ mailbox[m].user = u /\ mailbox[m].name = n

Init ==
    /\ mailbox = [m \in Mailboxes |-> Unborn]
    /\ key = [k \in Keys |-> Unborn]
    /\ req = [r \in Requests |-> Idle]
    /\ named = [r \in Requests |-> {}]

To(r, state) == req' = [req EXCEPT ![r] = state]

-----------------------------------------------------------------------------
(* The owner's mailboxes.  MailboxDirectory has these in detail.           *)

\* History: mailbox m of user u is given name n.
Named(m, u, n) ==
    named' = [r \in Requests |->
        IF r \in Agents /\ req[r].grant.user = u /\ req[r].name = n
            THEN named[r] \cup {m} ELSE named[r]]

CreateMailbox(m, u, n) ==
    /\ mailbox[m] = Unborn
    /\ \A o \in Mailboxes : ~Denotes(o, u, n)
    /\ mailbox' = [mailbox EXCEPT ![m] = [state |-> "live", user |-> u, name |-> n]]
    /\ Named(m, u, n)
    /\ UNCHANGED <<key, req>>

RenameMailbox(m, n) ==
    /\ Live(mailbox[m])
    /\ \A o \in Mailboxes : ~Denotes(o, mailbox[m].user, n)
    /\ mailbox' = [mailbox EXCEPT ![m].name = n]
    /\ Named(m, mailbox[m].user, n)
    /\ UNCHANGED <<key, req>>

\* Keys bound to the mailbox stay as they are.
DeleteMailbox(m) ==
    /\ Live(mailbox[m])
    /\ mailbox' = [mailbox EXCEPT ![m] = Gone]
    /\ UNCHANGED <<key, req, named>>

-----------------------------------------------------------------------------
(* The owner's keys.                                                       *)

\* The mailbox to bind to is looked up in a transaction of its own; no scope
\* means the scope "read".
BeginCreateKey(r, g) ==
    /\ req[r] = Idle
    /\ g.scopes # {}
    /\ g.bound # None =>
           Live(mailbox[g.bound]) /\ mailbox[g.bound].user = g.user
    /\ To(r, [pc |-> "binding", grant |-> g])
    /\ UNCHANGED <<mailbox, key, named>>

CreateKey(r, k) ==
    /\ req[r].pc = "binding"
    /\ key[k] = Unborn
    /\ key' = [key EXCEPT ![k] =
                  [state |-> "live", grant |-> req[r].grant, enabled |-> TRUE]]
    /\ To(r, Idle)
    /\ UNCHANGED <<mailbox, named>>

\* The key is read; only its own user gets further.
BeginSetStatus(r, k, enable) ==
    /\ req[r] = Idle
    /\ Live(key[k])
    /\ To(r, [pc |-> "switching", key |-> k, was |-> key[k].enabled, to |-> enable])
    /\ UNCHANGED <<mailbox, key, named>>

\* Disabling writes the time; enabling writes NULL unless NULL was read.  An
\* update of a row that has gone fails.
SetStatus(r) ==
    /\ req[r].pc = "switching"
    /\ LET k == req[r].key IN
           key' = IF Live(key[k]) /\ ~(req[r].to /\ req[r].was)
                      THEN [key EXCEPT ![k].enabled = req[r].to] ELSE key
    /\ To(r, Idle)
    /\ UNCHANGED <<mailbox, named>>

DeleteKey(k) ==
    /\ Live(key[k])
    /\ key' = [key EXCEPT ![k] = Gone]
    /\ UNCHANGED <<mailbox, req, named>>

-----------------------------------------------------------------------------
(* An agent's request.                                                     *)

\* authenticate_api_key reads the row; a disabled key is refused.
ReadKey(r, k, n, scope) ==
    /\ req[r] = Idle
    /\ Enabled(k)
    /\ To(r, [pc |-> "read", key |-> k, grant |-> key[k].grant,
              name |-> n, scope |-> scope, at |-> None])
    /\ named' = [named EXCEPT ![r] =
                    {m \in Mailboxes : Denotes(m, key[k].grant.user, n)}]
    /\ UNCHANGED <<mailbox, key>>

\* Mutant: the whole row is written back, not last_used_at alone.
StampKeyRow(r) ==
    /\ req[r].pc = "read"
    /\ Live(key[req[r].key])
    /\ key' = [key EXCEPT ![req[r].key].enabled = TRUE]
    /\ To(r, [req[r] EXCEPT !.pc = "granted"])
    /\ UNCHANGED <<mailbox, named>>

\* The UPDATE of last_used_at needs the row and leaves revoked_at alone.
StampKey(r) ==
    /\ req[r].pc = "read"
    /\ Live(key[req[r].key])
    /\ To(r, [req[r] EXCEPT !.pc = "granted"])
    /\ UNCHANGED <<mailbox, key, named>>

\* A user's session stands for every scope and every mailbox of the user
\* (UserAccess has how it is authenticated).
EnterBySession(r, u, n, scope) ==
    /\ req[r] = Idle
    /\ To(r, [pc |-> "granted", key |-> None,
              grant |-> [user |-> u, bound |-> None, scopes |-> Scopes],
              name |-> n, scope |-> scope, at |-> None])
    /\ named' = [named EXCEPT ![r] = {m \in Mailboxes : Denotes(m, u, n)}]
    /\ UNCHANGED <<mailbox, key>>

\* Mutant: a key's own mailbox is listed without looking whether it has one.
DiscoverBound(r) ==
    /\ req[r].pc = "granted"
    /\ To(r, [pc |-> "listed", grant |-> req[r].grant,
              found |-> {req[r].grant.bound}])
    /\ UNCHANGED <<mailbox, key, named>>

\* GET /mailboxes asks for no scope.
Discover(r) ==
    /\ req[r].pc = "granted"
    /\ LET g == req[r].grant
           own == {m \in Mailboxes : Live(mailbox[m]) /\ mailbox[m].user = g.user}
       IN To(r, [pc |-> "listed", grant |-> g,
                 found |-> IF g.bound = None THEN own ELSE own \cap {g.bound}])
    /\ UNCHANGED <<mailbox, key, named>>

\* Mutant: a key whose mailbox has gone is taken for one without a mailbox.
FindOrphan(r, m) ==
    /\ req[r].pc = "granted"
    /\ req[r].scope \in req[r].grant.scopes
    /\ Denotes(m, req[r].grant.user, req[r].name)
    /\ req[r].grant.bound \notin {None, m} => ~Live(mailbox[req[r].grant.bound])
    /\ To(r, [req[r] EXCEPT !.pc = "found", !.at = m])
    /\ UNCHANGED <<mailbox, key, named>>

\* Mutant: the name is looked up among all users' mailboxes.
FindAnyUser(r, m) ==
    /\ req[r].pc = "granted"
    /\ req[r].scope \in req[r].grant.scopes
    /\ Live(mailbox[m]) /\ mailbox[m].name = req[r].name
    /\ req[r].grant.bound \in {None, m}
    /\ To(r, [req[r] EXCEPT !.pc = "found", !.at = m])
    /\ UNCHANGED <<mailbox, key, named>>

\* The scope, the user's account of that name, and the key's own mailbox.
Find(r, m) ==
    /\ req[r].pc = "granted"
    /\ req[r].scope \in req[r].grant.scopes
    /\ Denotes(m, req[r].grant.user, req[r].name)
    /\ req[r].grant.bound \in {None, m}
    /\ To(r, [req[r] EXCEPT !.pc = "found", !.at = m])
    /\ UNCHANGED <<mailbox, key, named>>

\* get_credential_for_runtime looks the account up again, by its id.
LoadCredential(r) ==
    /\ req[r].pc = "found"
    /\ Live(mailbox[req[r].at])
    /\ To(r, [req[r] EXCEPT !.pc = "operating"])
    /\ UNCHANGED <<mailbox, key, named>>

\* The answer, any refusal on the way, and a request that is given up.
End(r) ==
    /\ req[r] # Idle
    /\ To(r, Idle)
    /\ UNCHANGED <<mailbox, key, named>>

-----------------------------------------------------------------------------

OwnerStep ==
    \/ \E m \in Mailboxes, n \in Names :
          RenameMailbox(m, n) \/ \E u \in Users : CreateMailbox(m, u, n)
    \/ \E m \in Mailboxes : DeleteMailbox(m)
    \/ \E r \in Requests, g \in Grant : BeginCreateKey(r, g)
    \/ \E r \in Requests, k \in Keys : CreateKey(r, k)
    \/ \E r \in Requests, k \in Keys, enable \in BOOLEAN : BeginSetStatus(r, k, enable)
    \/ \E r \in Requests : SetStatus(r)
    \/ \E k \in Keys : DeleteKey(k)

AgentStep(r) ==
    \/ \E k \in Keys, n \in Names, scope \in Scopes : ReadKey(r, k, n, scope)
    \/ \E u \in Users, n \in Names, scope \in Scopes : EnterBySession(r, u, n, scope)
    \/ StampKey(r)
    \/ Discover(r)
    \/ \E m \in Mailboxes : Find(r, m)
    \/ LoadCredential(r)

Next == OwnerStep \/ \E r \in Requests : AgentStep(r) \/ End(r)

Spec == Init /\ [][Next]_vars

-----------------------------------------------------------------------------
(* Properties.                                                             *)

TypeOK ==
    /\ mailbox \in [Mailboxes -> Row]
    /\ key \in [Keys -> KeyRow]
    /\ req \in [Requests -> Request]
    /\ named \in [Requests -> SUBSET Mailboxes]

\* A provider call is made on the mailbox the agent named: one of the key's
\* user that has borne that name since the request began, whatever was
\* renamed, deleted and created anew in between.
OnlyNamedMailbox ==
    \A r \in Requests : req[r].pc = "operating" => req[r].at \in named[r]

\* A key that was bound to a mailbox when it was created reaches no other one,
\* neither through a name nor through GET /mailboxes: nothing once its own has
\* been deleted, even if another mailbox has taken over the name.  No key reaches
\* a mailbox of another user.
BoundKeyConfined ==
    \A r \in Requests :
        /\ req[r].pc = "operating" =>
               /\ req[r].grant.bound \in {None, req[r].at}
               /\ OwnsOrGone(req[r].grant.user, req[r].at)
        /\ req[r].pc = "listed" =>
               \A m \in req[r].found :
                   /\ req[r].grant.bound \in {None, m}
                   /\ OwnsOrGone(req[r].grant.user, m)

\* A disabled key works again only when a request to enable it ends: no
\* authentication, and no other request of the owner, brings it back.
OnlyOwnerEnables ==
    [][\A k \in Keys :
          (Live(key[k]) /\ ~Enabled(k) /\ Enabled(k)') =>
              \E r \in Requests :
                  /\ req[r].pc = "switching" /\ req[r].key = k /\ req[r].to
                  /\ req'[r] = Idle]_vars
=============================================================================
