-------------------------- MODULE KeyAccess_proofs --------------------------
(***************************************************************************)
(* Proofs about KeyAccess for any number of users, mailboxes, keys and     *)
(* requests.                                                               *)
(*                                                                         *)
(* A request acts on an account it looked up long ago, so the invariant    *)
(* has to carry what was true then: history has every mailbox that bears   *)
(* the requested name now (NamedNow), and a mailbox that was reached was   *)
(* born and belongs to the key's user or is gone (Reached, Shown), which   *)
(* lasts because an id is never given out twice.                           *)
(***************************************************************************)
EXTENDS KeyAccess, TLAPS

NamedNow ==
    \A r \in Agents, m \in Mailboxes :
        Denotes(m, req[r].grant.user, req[r].name) => m \in named[r]

\* Mailbox m is the user's for good.
Theirs(u, m) == mailbox[m] # Unborn /\ OwnsOrGone(u, m)

Reached(r) ==
    req[r].pc \in {"found", "operating"} =>
        /\ req[r].at \in Mailboxes
        /\ req[r].at \in named[r]
        /\ req[r].grant.bound \in {None, req[r].at}
        /\ Theirs(req[r].grant.user, req[r].at)

Shown(r) ==
    req[r].pc = "listed" =>
        \A m \in req[r].found :
            /\ req[r].grant.bound \in {None, m}
            /\ Theirs(req[r].grant.user, m)

IInv ==
    /\ TypeOK
    /\ NamedNow
    /\ \A r \in Requests : Reached(r) /\ Shown(r)

-----------------------------------------------------------------------------
(* Types.                                                                  *)

\* What the fields of a request are.
LEMMA RequestFields ==
    ASSUME NEW x \in Request
    PROVE  /\ x.pc \in {"read", "granted", "found", "operating"} => x \in AgentRequest
           /\ x.pc \in {"binding", "switching"} => x \in OwnerRequest
           /\ x.pc = "listed" => x \in Discovery
           /\ x.pc \in {"read", "granted", "found", "operating", "binding",
                        "switching", "listed", "idle"}
  BY DEF Request, AgentRequest, OwnerRequest, Discovery, Idle

\* A mailbox row is the user's, or none.
LEMMA RowFields ==
    ASSUME NEW x \in Row
    PROVE  /\ x.state \in {"live", "unborn", "gone"}
           /\ Live(x) => x.user \in Users /\ x.name \in Names
           /\ Live(x) => x # Unborn /\ x # Gone
  BY DEF Row, Live, Unborn, Gone

LEMMA KeyFields ==
    ASSUME NEW x \in KeyRow
    PROVE  Live(x) => x.grant \in Grant /\ x.enabled \in BOOLEAN
  BY DEF KeyRow, Live, Unborn, Gone

\* Grants have the fields they should have.
LEMMA GrantFields ==
    ASSUME NEW g \in Grant
    PROVE  g.user \in Users /\ g.bound \in Mailboxes \cup {None} /\ g.scopes \subseteq Scopes
  BY DEF Grant

\* The initial state.
LEMMA InitIInv == Init => IInv
<1> SUFFICES ASSUME Init PROVE IInv
  OBVIOUS
<1>1. TypeOK
  BY DEF Init, TypeOK, Row, KeyRow, Request
<1>2. Agents = {}
  BY DEF Init, Agents, Idle
<1>3. \A r \in Requests : Reached(r) /\ Shown(r)
  BY DEF Init, Reached, Shown, Idle
<1> QED  BY <1>1, <1>2, <1>3 DEF IInv, NamedNow

\* A step on the mailboxes keeps what requests have reached theirs.
LEMMA MailboxStep ==
    ASSUME IInv, UNCHANGED <<key, req>>,
           mailbox' \in [Mailboxes -> Row],
           named' \in [Requests -> SUBSET Mailboxes],
           \A r \in Requests : named[r] \subseteq named'[r],
           \A u \in Users, m \in Mailboxes : Theirs(u, m) => Theirs(u, m)',
           \A r \in Agents, m \in Mailboxes :
               Denotes(m, req[r].grant.user, req[r].name)' =>
                   m \in named'[r]
    PROVE  IInv'
<1>1. TypeOK'
  BY DEF IInv, TypeOK
<1>2. Agents' = Agents
  BY DEF Agents
<1>3. NamedNow'
  BY <1>2 DEF NamedNow
<1>4. ASSUME NEW r \in Requests PROVE Reached(r)' /\ Shown(r)'
  <2>1. req[r] \in Request /\ req'[r] = req[r]
    BY DEF IInv, TypeOK
  <2>2. Reached(r) /\ Shown(r)
    BY DEF IInv
  <2>3. Reached(r)'
    <3> SUFFICES ASSUME req[r].pc \in {"found", "operating"} PROVE Reached(r)'
      BY <2>1 DEF Reached
    <3>1. req[r] \in AgentRequest
      BY <2>1, RequestFields
    <3>2. req[r].grant \in Grant
      BY <3>1 DEF AgentRequest
    <3>3. req[r].grant.user \in Users
      BY <3>2, GrantFields
    <3> QED  BY <2>1, <2>2, <3>3 DEF Reached
  <2>4. Shown(r)'
    <3> SUFFICES ASSUME req[r].pc = "listed" PROVE Shown(r)'
      BY <2>1 DEF Shown
    <3>1. req[r] \in Discovery
      BY <2>1, RequestFields
    <3>2. req[r].grant \in Grant /\ req[r].found \subseteq Mailboxes
      BY <3>1 DEF Discovery
    <3>3. req[r].grant.user \in Users
      BY <3>2, GrantFields
    <3> QED  BY <2>1, <2>2, <3>2, <3>3 DEF Shown
  <2> QED  BY <2>3, <2>4
<1> QED  BY <1>1, <1>3, <1>4 DEF IInv

\* A step of one request that leaves the mailboxes alone.
LEMMA RequestStep ==
    ASSUME IInv, NEW r \in Requests, NEW x \in Request, To(r, x),
           UNCHANGED mailbox,
           key' \in [Keys -> KeyRow],
           named' \in [Requests -> SUBSET Mailboxes],
           \A q \in Requests \ {r} : named'[q] = named[q],
           x.pc \in {"read", "granted", "found", "operating"} =>
               \A m \in Mailboxes :
                   Denotes(m, x.grant.user, x.name) => m \in named'[r],
           Reached(r)', Shown(r)'
    PROVE  IInv'
<1>1. TypeOK'
  BY DEF IInv, TypeOK, To
<1>2. req'[r] = x /\ \A q \in Requests \ {r} : req'[q] = req[q]
  BY DEF To, IInv, TypeOK
<1>3. NamedNow'
  <2> SUFFICES ASSUME NEW q \in Agents', NEW m \in Mailboxes,
                      Denotes(m, req[q].grant.user, req[q].name)'
               PROVE  m \in named'[q]
    BY DEF NamedNow
  <2>1. q \in Requests
    BY DEF Agents
  <2>2. Denotes(m, req'[q].grant.user, req'[q].name)
    BY DEF Denotes, Live
  <2>3. CASE q = r
    BY <1>2, <2>2, <2>3 DEF Agents
  <2>4. CASE q # r
    <3>1. q \in Agents /\ req'[q] = req[q] /\ named'[q] = named[q]
      BY <1>2, <2>1, <2>4 DEF Agents
    <3> QED  BY <2>2, <3>1 DEF IInv, NamedNow
  <2> QED  BY <2>3, <2>4
<1>4. ASSUME NEW q \in Requests PROVE Reached(q)' /\ Shown(q)'
  <2>1. CASE q # r
    <3>1. req'[q] = req[q] /\ named'[q] = named[q]
      BY <1>2, <2>1
    <3>2. Reached(q) /\ Shown(q)
      BY DEF IInv
    <3> QED  BY <3>1, <3>2 DEF Reached, Shown, Theirs, OwnsOrGone
  <2> QED  BY <2>1
<1> QED  BY <1>1, <1>3, <1>4 DEF IInv

-----------------------------------------------------------------------------
(* The owner's steps.                                                      *)

\* Recording a name only adds to history, for those who asked for the name.
LEMMA NamedGrows ==
    ASSUME IInv, NEW m \in Mailboxes, NEW u, NEW n, Named(m, u, n)
    PROVE  /\ named' \in [Requests -> SUBSET Mailboxes]
           /\ \A r \in Requests : named[r] \subseteq named'[r]
           /\ \A r \in Agents : req[r].grant.user = u /\ req[r].name = n =>
                   m \in named'[r]
<1>1. named \in [Requests -> SUBSET Mailboxes] /\ Agents \subseteq Requests
  BY DEF IInv, TypeOK, Agents
<1>2. \A r \in Requests : named'[r] =
          IF r \in Agents /\ req[r].grant.user = u /\ req[r].name = n
              THEN named[r] \cup {m} ELSE named[r]
  BY DEF Named
<1>3. \A r \in Requests : named'[r] \in SUBSET Mailboxes
  BY <1>1, <1>2
<1>4. named' \in [Requests -> SUBSET Mailboxes]
  BY <1>3 DEF Named
<1> QED  BY <1>1, <1>2, <1>4

LEMMA CreateMailboxIInv ==
    ASSUME IInv, NEW m \in Mailboxes, NEW u \in Users, NEW n \in Names,
           CreateMailbox(m, u, n)
    PROVE  IInv'
<1> DEFINE row == [state |-> "live", user |-> u, name |-> n]
<1>1. row \in Row
  BY DEF Row
<1>2. mailbox \in [Mailboxes -> Row] /\ Agents \subseteq Requests
  BY DEF IInv, TypeOK, Agents
<1>3. /\ mailbox[m] = Unborn /\ UNCHANGED <<key, req>>
      /\ mailbox' = [mailbox EXCEPT ![m] = row]
      /\ Named(m, u, n)
  BY DEF CreateMailbox
<1>4. mailbox' \in [Mailboxes -> Row]
  BY <1>1, <1>2, <1>3
<1>5. mailbox'[m] = row /\ \A o \in Mailboxes \ {m} : mailbox'[o] = mailbox[o]
  BY <1>2, <1>3
<1>6. ASSUME NEW v \in Users, NEW o \in Mailboxes, Theirs(v, o)
      PROVE  Theirs(v, o)'
  BY <1>3, <1>5, <1>6 DEF Theirs, OwnsOrGone, Live
<1>7. ASSUME NEW r \in Agents, NEW o \in Mailboxes,
             Denotes(o, req[r].grant.user, req[r].name)'
      PROVE  o \in named'[r]
  <2>1. req'[r] = req[r]
    BY <1>3
  <2>2. CASE o = m
    BY <1>3, <1>5, <1>7, <2>1, <2>2, NamedGrows DEF Denotes
  <2>3. CASE o # m
    <3>1. Denotes(o, req[r].grant.user, req[r].name)
      BY <1>5, <1>7, <2>1, <2>3 DEF Denotes, Live
    <3>2. o \in named[r]
      BY <3>1 DEF IInv, NamedNow
    <3> QED  BY <1>2, <1>3, <3>2, NamedGrows
  <2> QED  BY <2>2, <2>3
<1>8. named' \in [Requests -> SUBSET Mailboxes]
      /\ \A r \in Requests : named[r] \subseteq named'[r]
  BY <1>3, NamedGrows
<1> HIDE DEF row
<1> QED  BY <1>3, <1>4, <1>6, <1>7, <1>8, MailboxStep

LEMMA RenameMailboxIInv ==
    ASSUME IInv, NEW m \in Mailboxes, NEW n \in Names, RenameMailbox(m, n)
    PROVE  IInv'
<1> DEFINE row == [mailbox[m] EXCEPT !.name = n]
<1>1. mailbox \in [Mailboxes -> Row] /\ Agents \subseteq Requests
  BY DEF IInv, TypeOK, Agents
<1>2. /\ Live(mailbox[m]) /\ UNCHANGED <<key, req>>
      /\ mailbox' = [mailbox EXCEPT ![m] = row]
      /\ Named(m, mailbox[m].user, n)
  BY <1>1 DEF RenameMailbox
<1>3. row \in Row /\ Live(row) /\ row.user = mailbox[m].user /\ row.name = n
  BY <1>1, <1>2 DEF Row, Live, Unborn, Gone
<1>4. mailbox' \in [Mailboxes -> Row]
  BY <1>1, <1>2, <1>3
<1>5. mailbox'[m] = row /\ \A o \in Mailboxes \ {m} : mailbox'[o] = mailbox[o]
  BY <1>1, <1>2
<1> HIDE DEF row
<1>6. ASSUME NEW v \in Users, NEW o \in Mailboxes, Theirs(v, o)
      PROVE  Theirs(v, o)'
  <2>1. CASE o = m
    <3>1. row # Unborn
      BY <1>3, RowFields
    <3> QED  BY <1>2, <1>3, <1>5, <1>6, <2>1, <3>1 DEF Theirs, OwnsOrGone, Unborn
  <2>2. CASE o # m
    BY <1>5, <1>6, <2>2 DEF Theirs, OwnsOrGone, Live
  <2> QED  BY <2>1, <2>2
<1>7. ASSUME NEW r \in Agents, NEW o \in Mailboxes,
             Denotes(o, req[r].grant.user, req[r].name)'
      PROVE  o \in named'[r]
  <2>1. req'[r] = req[r]
    BY <1>2
  <2>2. CASE o = m
    BY <1>2, <1>3, <1>5, <1>7, <2>1, <2>2, NamedGrows DEF Denotes
  <2>3. CASE o # m
    <3>1. Denotes(o, req[r].grant.user, req[r].name)
      BY <1>5, <1>7, <2>1, <2>3 DEF Denotes, Live
    <3>2. o \in named[r]
      BY <3>1 DEF IInv, NamedNow
    <3> QED  BY <1>1, <1>2, <3>2, NamedGrows
  <2> QED  BY <2>2, <2>3
<1>8. named' \in [Requests -> SUBSET Mailboxes]
      /\ \A r \in Requests : named[r] \subseteq named'[r]
  BY <1>2, NamedGrows
<1> QED  BY <1>2, <1>4, <1>6, <1>7, <1>8, MailboxStep

LEMMA DeleteMailboxIInv ==
    ASSUME IInv, NEW m \in Mailboxes, DeleteMailbox(m)
    PROVE  IInv'
<1>1. mailbox \in [Mailboxes -> Row] /\ Agents \subseteq Requests
      /\ named \in [Requests -> SUBSET Mailboxes]
  BY DEF IInv, TypeOK, Agents
<1>2. /\ UNCHANGED <<key, req, named>>
      /\ mailbox' = [mailbox EXCEPT ![m] = Gone]
  BY DEF DeleteMailbox
<1>3. mailbox' \in [Mailboxes -> Row]
  BY <1>1, <1>2 DEF Row
<1>4. mailbox'[m] = Gone /\ \A o \in Mailboxes \ {m} : mailbox'[o] = mailbox[o]
  BY <1>1, <1>2
<1>5. ~Live(Gone) /\ Gone # Unborn
  BY DEF Live, Gone, Unborn
<1>6. ASSUME NEW v \in Users, NEW o \in Mailboxes, Theirs(v, o)
      PROVE  Theirs(v, o)'
  BY <1>4, <1>5, <1>6 DEF Theirs, OwnsOrGone, Live, Unborn, Gone
<1>7. ASSUME NEW r \in Agents, NEW o \in Mailboxes,
             Denotes(o, req[r].grant.user, req[r].name)'
      PROVE  o \in named'[r]
  <2>1. o # m
    BY <1>4, <1>7 DEF Denotes, Live, Gone
  <2>2. Denotes(o, req[r].grant.user, req[r].name)
    BY <1>2, <1>4, <1>7, <2>1 DEF Denotes, Live
  <2> QED  BY <1>2, <2>2 DEF IInv, NamedNow
<1> QED  BY <1>1, <1>2, <1>3, <1>6, <1>7, MailboxStep

\* A request that moves on without having reached a mailbox.
LEMMA QuietStep ==
    ASSUME IInv, NEW r \in Requests, NEW x \in Request, To(r, x),
           x.pc \in {"idle", "binding", "switching"},
           UNCHANGED <<mailbox, named>>,
           key' \in [Keys -> KeyRow]
    PROVE  IInv'
<1>1. req'[r] = x
  BY DEF To, IInv, TypeOK
<1>2. Reached(r)' /\ Shown(r)'
  BY <1>1 DEF Reached, Shown
<1>3. named' \in [Requests -> SUBSET Mailboxes]
  BY DEF IInv, TypeOK
<1> QED  BY <1>2, <1>3, RequestStep

\* A step that changes keys only.
LEMMA KeyStep ==
    ASSUME IInv, UNCHANGED <<mailbox, req, named>>, key' \in [Keys -> KeyRow]
    PROVE  IInv'
<1>1. TypeOK'
  BY DEF IInv, TypeOK
<1>2. NamedNow'
  BY DEF IInv, NamedNow, Agents, Denotes, Live
<1>3. \A r \in Requests : Reached(r)' /\ Shown(r)'
  BY DEF IInv, Reached, Shown, Theirs, OwnsOrGone, Live
<1> QED  BY <1>1, <1>2, <1>3 DEF IInv

LEMMA IdleRequest == Idle \in Request /\ Idle.pc = "idle"
  BY DEF Request, Idle

LEMMA BeginCreateKeyIInv ==
    ASSUME IInv, NEW r \in Requests, NEW g \in Grant, BeginCreateKey(r, g)
    PROVE  IInv'
<1> DEFINE x == [pc |-> "binding", grant |-> g]
<1>1. x \in Request /\ x.pc = "binding"
  BY DEF Request, OwnerRequest
<1>2. To(r, x) /\ UNCHANGED <<mailbox, key, named>>
  BY DEF BeginCreateKey
<1>3. key' \in [Keys -> KeyRow]
  BY <1>2 DEF IInv, TypeOK
<1> QED  BY <1>1, <1>2, <1>3, QuietStep

LEMMA CreateKeyIInv ==
    ASSUME IInv, NEW r \in Requests, NEW k \in Keys, CreateKey(r, k)
    PROVE  IInv'
<1> DEFINE row == [state |-> "live", grant |-> req[r].grant, enabled |-> TRUE]
<1>1. req[r] \in Request /\ req[r].pc = "binding" /\ key \in [Keys -> KeyRow]
  BY DEF CreateKey, IInv, TypeOK
<1>2. req[r] \in OwnerRequest
  BY <1>1, RequestFields
<1>3. req[r].grant \in Grant
  BY <1>1, <1>2 DEF OwnerRequest
<1>4. row \in KeyRow
  BY <1>3 DEF KeyRow
<1>5. key' = [key EXCEPT ![k] = row] /\ To(r, Idle) /\ UNCHANGED <<mailbox, named>>
  BY DEF CreateKey
<1>6. key' \in [Keys -> KeyRow]
  BY <1>1, <1>4, <1>5
<1> QED  BY <1>5, <1>6, IdleRequest, QuietStep

LEMMA BeginSetStatusIInv ==
    ASSUME IInv, NEW r \in Requests, NEW k \in Keys, NEW enable \in BOOLEAN,
           BeginSetStatus(r, k, enable)
    PROVE  IInv'
<1> DEFINE x == [pc |-> "switching", key |-> k, was |-> key[k].enabled, to |-> enable]
<1>1. key[k] \in KeyRow /\ Live(key[k])
  BY DEF BeginSetStatus, IInv, TypeOK
<1>2. x \in Request /\ x.pc = "switching"
  BY <1>1, KeyFields DEF Request, OwnerRequest
<1>3. To(r, x) /\ UNCHANGED <<mailbox, key, named>>
  BY DEF BeginSetStatus
<1>4. key' \in [Keys -> KeyRow]
  BY <1>3 DEF IInv, TypeOK
<1> QED  BY <1>2, <1>3, <1>4, QuietStep

LEMMA SetStatusType ==
    ASSUME IInv, NEW r \in Requests, SetStatus(r)
    PROVE  /\ req[r].key \in Keys /\ req[r].to \in BOOLEAN
           /\ key' \in [Keys -> KeyRow]
           /\ \A k \in Keys : key'[k] # key[k] =>
                  k = req[r].key /\ key'[k] = [key[k] EXCEPT !.enabled = req[r].to]
<1>1. req[r] \in Request /\ req[r].pc = "switching" /\ key \in [Keys -> KeyRow]
  BY DEF SetStatus, IInv, TypeOK
<1>2. req[r] \in OwnerRequest
  BY <1>1, RequestFields
<1>3. req[r].key \in Keys /\ req[r].to \in BOOLEAN
  BY <1>1, <1>2 DEF OwnerRequest
<1> DEFINE k == req[r].key
           row == [key[k] EXCEPT !.enabled = req[r].to]
<1>4. \/ UNCHANGED key
      \/ Live(key[k]) /\ key' = [key EXCEPT ![k] = row]
  BY <1>1, <1>3 DEF SetStatus
<1>5. Live(key[k]) => row \in KeyRow
  BY <1>1, <1>3 DEF KeyRow, Live, Unborn, Gone
<1>6. key' \in [Keys -> KeyRow]
  BY <1>1, <1>4, <1>5
<1> QED  BY <1>1, <1>3, <1>4, <1>6

LEMMA SetStatusIInv ==
    ASSUME IInv, NEW r \in Requests, SetStatus(r)
    PROVE  IInv'
<1>1. To(r, Idle) /\ UNCHANGED <<mailbox, named>>
  BY DEF SetStatus
<1> QED  BY <1>1, SetStatusType, IdleRequest, QuietStep

LEMMA DeleteKeyIInv ==
    ASSUME IInv, NEW k \in Keys, DeleteKey(k)
    PROVE  IInv'
<1>1. key' = [key EXCEPT ![k] = Gone] /\ UNCHANGED <<mailbox, req, named>>
  BY DEF DeleteKey
<1>2. key' \in [Keys -> KeyRow]
  BY <1>1 DEF IInv, TypeOK, KeyRow
<1> QED  BY <1>1, <1>2, KeyStep

-----------------------------------------------------------------------------
(* The steps of a request for a mailbox.                                   *)

\* A request begins with the history it should have.
LEMMA BeginAgent ==
    ASSUME IInv, NEW r \in Requests, NEW x \in AgentRequest,
           x.pc \in {"read", "granted"}, To(r, x),
           named' = [named EXCEPT ![r] =
               {m \in Mailboxes : Denotes(m, x.grant.user, x.name)}],
           UNCHANGED <<mailbox, key>>
    PROVE  IInv'
<1>1. req'[r] = x /\ x \in Request
  BY DEF To, IInv, TypeOK, Request
<1>2. Reached(r)' /\ Shown(r)'
  BY <1>1 DEF Reached, Shown
<1>3. /\ named' \in [Requests -> SUBSET Mailboxes]
      /\ named'[r] = {m \in Mailboxes : Denotes(m, x.grant.user, x.name)}
      /\ \A q \in Requests \ {r} : named'[q] = named[q]
  BY DEF IInv, TypeOK
<1>4. key' \in [Keys -> KeyRow]
  BY DEF IInv, TypeOK
<1>5. \A m \in Mailboxes : Denotes(m, x.grant.user, x.name) => m \in named'[r]
  BY <1>3
<1> QED  BY <1>1, <1>2, <1>3, <1>4, <1>5, RequestStep

LEMMA ReadKeyIInv ==
    ASSUME IInv, NEW r \in Requests, NEW k \in Keys, NEW n \in Names,
           NEW scope \in Scopes, ReadKey(r, k, n, scope)
    PROVE  IInv'
<1> DEFINE x == [pc |-> "read", key |-> k, grant |-> key[k].grant,
                 name |-> n, scope |-> scope, at |-> None]
<1>1. key[k] \in KeyRow /\ Live(key[k])
  BY DEF ReadKey, Enabled, IInv, TypeOK
<1>2. x \in AgentRequest /\ x.pc = "read"
  BY <1>1, KeyFields DEF AgentRequest
<1>3. /\ To(r, x) /\ UNCHANGED <<mailbox, key>>
      /\ named' = [named EXCEPT ![r] =
            {m \in Mailboxes : Denotes(m, x.grant.user, x.name)}]
  BY DEF ReadKey
<1> HIDE DEF x
<1> QED  BY <1>2, <1>3, BeginAgent

LEMMA EnterBySessionIInv ==
    ASSUME IInv, NEW r \in Requests, NEW u \in Users, NEW n \in Names,
           NEW scope \in Scopes, EnterBySession(r, u, n, scope)
    PROVE  IInv'
<1> DEFINE x == [pc |-> "granted", key |-> None,
                 grant |-> [user |-> u, bound |-> None, scopes |-> Scopes],
                 name |-> n, scope |-> scope, at |-> None]
<1>1. x \in AgentRequest /\ x.pc = "granted"
  BY DEF AgentRequest, Grant
<1>2. /\ To(r, x) /\ UNCHANGED <<mailbox, key>>
      /\ named' = [named EXCEPT ![r] =
            {m \in Mailboxes : Denotes(m, x.grant.user, x.name)}]
  BY DEF EnterBySession
<1> HIDE DEF x
<1> QED  BY <1>1, <1>2, BeginAgent

\* A request goes on, with the same grant and name.
LEMMA GoOn ==
    ASSUME IInv, NEW r \in Requests, req[r] \in AgentRequest,
           NEW x \in AgentRequest, To(r, x),
           x.grant = req[r].grant, x.name = req[r].name,
           UNCHANGED <<mailbox, key, named>>,
           x.pc \in {"found", "operating"} =>
               /\ x.at \in Mailboxes /\ x.at \in named[r]
               /\ x.grant.bound \in {None, x.at}
               /\ Theirs(x.grant.user, x.at)
    PROVE  IInv'
<1>1. req'[r] = x /\ x \in Request /\ r \in Agents
  BY DEF To, IInv, TypeOK, Request, Agents, AgentRequest
<1>2. Reached(r)' /\ Shown(r)'
  <2>1. x.pc # "listed"
    BY DEF AgentRequest
  <2> QED  BY <1>1, <2>1 DEF Reached, Shown, Theirs, OwnsOrGone, Live
<1>3. named' \in [Requests -> SUBSET Mailboxes] /\ key' \in [Keys -> KeyRow]
  BY DEF IInv, TypeOK
<1>4. \A m \in Mailboxes : Denotes(m, x.grant.user, x.name) => m \in named'[r]
  BY <1>1 DEF IInv, NamedNow
<1> QED  BY <1>1, <1>2, <1>3, <1>4, RequestStep

\* A request that is on its way is an agent's request.
LEMMA OnItsWay ==
    ASSUME IInv, NEW r \in Requests,
           req[r].pc \in {"read", "granted", "found", "operating"}
    PROVE  req[r] \in AgentRequest /\ req[r].grant \in Grant /\ r \in Agents
<1>1. req[r] \in Request
  BY DEF IInv, TypeOK
<1>2. req[r] \in AgentRequest
  BY <1>1, RequestFields
<1> QED  BY <1>2 DEF AgentRequest, Agents

LEMMA StampKeyIInv ==
    ASSUME IInv, NEW r \in Requests, StampKey(r)
    PROVE  IInv'
<1> DEFINE x == [req[r] EXCEPT !.pc = "granted"]
<1>1. To(r, x) /\ UNCHANGED <<mailbox, key, named>> /\ req[r] \in AgentRequest
  BY OnItsWay DEF StampKey
<1>2. /\ x \in AgentRequest /\ x.pc = "granted"
      /\ x.grant = req[r].grant /\ x.name = req[r].name
  BY <1>1 DEF AgentRequest
<1> HIDE DEF x
<1> QED  BY <1>1, <1>2, GoOn

LEMMA FindIInv ==
    ASSUME IInv, NEW r \in Requests, NEW m \in Mailboxes, Find(r, m)
    PROVE  IInv'
<1> DEFINE x == [req[r] EXCEPT !.pc = "found", !.at = m]
<1>1. /\ To(r, x) /\ UNCHANGED <<mailbox, key, named>>
      /\ req[r] \in AgentRequest /\ r \in Agents
  BY OnItsWay DEF Find
<1>2. /\ x \in AgentRequest /\ x.at = m
      /\ x.grant = req[r].grant /\ x.name = req[r].name
  BY <1>1 DEF AgentRequest
<1>3. m \in named[r]
  BY <1>1 DEF Find, IInv, NamedNow
<1>4. Theirs(req[r].grant.user, m)
  BY DEF Find, Denotes, Theirs, OwnsOrGone, Live, Unborn
<1>5. req[r].grant.bound \in {None, m}
  BY DEF Find
<1> HIDE DEF x
<1> QED  BY <1>1, <1>2, <1>3, <1>4, <1>5, GoOn

LEMMA LoadCredentialIInv ==
    ASSUME IInv, NEW r \in Requests, LoadCredential(r)
    PROVE  IInv'
<1> DEFINE x == [req[r] EXCEPT !.pc = "operating"]
<1>1. /\ To(r, x) /\ UNCHANGED <<mailbox, key, named>>
      /\ req[r] \in AgentRequest /\ req[r].pc = "found"
  BY OnItsWay DEF LoadCredential
<1>2. /\ x \in AgentRequest /\ x.at = req[r].at
      /\ x.grant = req[r].grant /\ x.name = req[r].name
  BY <1>1 DEF AgentRequest
<1>3. Reached(r)
  BY DEF IInv
<1> HIDE DEF x
<1> QED  BY <1>1, <1>2, <1>3, GoOn DEF Reached

LEMMA DiscoverIInv ==
    ASSUME IInv, NEW r \in Requests, Discover(r)
    PROVE  IInv'
<1> DEFINE g == req[r].grant
           own == {m \in Mailboxes : Live(mailbox[m]) /\ mailbox[m].user = g.user}
           f == IF g.bound = None THEN own ELSE own \cap {g.bound}
           x == [pc |-> "listed", grant |-> g, found |-> f]
<1>1. To(r, x) /\ UNCHANGED <<mailbox, key, named>> /\ g \in Grant
  BY OnItsWay DEF Discover
<1>2. x \in Request
  BY <1>1 DEF Request, Discovery
<1>3. req'[r] = x
  BY <1>1 DEF To, IInv, TypeOK
<1>4. \A m \in f : g.bound \in {None, m} /\ Theirs(g.user, m)
  BY DEF Theirs, OwnsOrGone, Live, Unborn
<1>5. x.pc = "listed" /\ x.grant = g /\ x.found = f
  OBVIOUS
<1> HIDE DEF f, g, x
<1>6. Reached(r)' /\ Shown(r)'
  BY <1>1, <1>3, <1>4, <1>5 DEF Reached, Shown, Theirs, OwnsOrGone, Live
<1>7. named' \in [Requests -> SUBSET Mailboxes] /\ key' \in [Keys -> KeyRow]
  BY <1>1 DEF IInv, TypeOK
<1> QED  BY <1>1, <1>2, <1>5, <1>6, <1>7, RequestStep

LEMMA EndIInv ==
    ASSUME IInv, NEW r \in Requests, End(r)
    PROVE  IInv'
<1>1. To(r, Idle) /\ UNCHANGED <<mailbox, key, named>>
  BY DEF End
<1>2. key' \in [Keys -> KeyRow]
  BY <1>1 DEF IInv, TypeOK
<1> QED  BY <1>1, <1>2, IdleRequest, QuietStep

-----------------------------------------------------------------------------
(* The theorems.                                                           *)

LEMMA StepIInv ==
    ASSUME IInv, [Next]_vars
    PROVE  IInv'
<1>1. CASE OwnerStep
  BY <1>1, CreateMailboxIInv, RenameMailboxIInv, DeleteMailboxIInv,
     BeginCreateKeyIInv, CreateKeyIInv, BeginSetStatusIInv, SetStatusIInv,
     DeleteKeyIInv DEF OwnerStep
<1>2. ASSUME NEW r \in Requests, AgentStep(r) PROVE IInv'
  BY <1>2, ReadKeyIInv, EnterBySessionIInv, StampKeyIInv, DiscoverIInv, FindIInv,
     LoadCredentialIInv DEF AgentStep
<1>3. ASSUME NEW r \in Requests, End(r) PROVE IInv'
  BY <1>3, EndIInv
<1>4. CASE UNCHANGED vars
  <2>1. key' \in [Keys -> KeyRow]
    BY <1>4 DEF vars, IInv, TypeOK
  <2> QED  BY <1>4, <2>1, KeyStep DEF vars
<1> QED  BY <1>1, <1>2, <1>3, <1>4 DEF Next

LEMMA Invariance == Spec => []IInv
  BY InitIInv, StepIInv, PTL DEF Spec

\* The variables keep their types.
THEOREM TypeCorrect == Spec => []TypeOK
<1>1. IInv => TypeOK
  BY DEF IInv
<1> QED  BY <1>1, Invariance, PTL

\* A request works on the mailbox it named, whatever is renamed, deleted and
\* created while it is on its way.
THEOREM NamedMailbox == Spec => []OnlyNamedMailbox
<1>1. IInv => OnlyNamedMailbox
  BY DEF IInv, Reached, OnlyNamedMailbox
<1> QED  BY <1>1, Invariance, PTL

\* A bound key reaches its own mailbox or none, and no key one of another user.
THEOREM BoundConfined == Spec => []BoundKeyConfined
<1>1. IInv => BoundKeyConfined
  BY DEF IInv, Reached, Shown, Theirs, BoundKeyConfined
<1> QED  BY <1>1, Invariance, PTL

\* No step brings a disabled key back but the end of a request to enable it.
LEMMA StepEnables ==
    ASSUME IInv, Next, NEW k \in Keys, Live(key[k]), ~Enabled(k), Enabled(k)'
    PROVE  \E r \in Requests :
               /\ req[r].pc = "switching" /\ req[r].key = k /\ req[r].to
               /\ req'[r] = Idle
<1>1. key[k] \in KeyRow /\ key \in [Keys -> KeyRow] /\ req \in [Requests -> Request]
  BY DEF IInv, TypeOK
<1>2. key'[k] # key[k]
  BY DEF Enabled, Live
<1>3. \/ \E r \in Requests, j \in Keys : CreateKey(r, j)
      \/ \E r \in Requests : SetStatus(r)
      \/ \E j \in Keys : DeleteKey(j)
  BY <1>2 DEF Next, OwnerStep, AgentStep, CreateMailbox, RenameMailbox,
     DeleteMailbox, BeginCreateKey, BeginSetStatus, ReadKey, StampKey,
     EnterBySession, Discover, Find, LoadCredential, End
<1>4. ASSUME NEW r \in Requests, NEW j \in Keys, CreateKey(r, j) PROVE FALSE
  <2>1. j = k
    BY <1>1, <1>2, <1>4 DEF CreateKey
  <2> QED  BY <1>4, <2>1 DEF CreateKey, Live, Unborn
<1>5. ASSUME NEW j \in Keys, DeleteKey(j) PROVE FALSE
  <2>1. key'[k] = Gone
    BY <1>1, <1>2, <1>5 DEF DeleteKey
  <2> QED  BY <2>1 DEF Enabled, Live, Gone
<1>6. ASSUME NEW r \in Requests, SetStatus(r)
      PROVE  /\ req[r].pc = "switching" /\ req[r].key = k /\ req[r].to
             /\ req'[r] = Idle
  <2>1. req[r].key = k /\ key'[k] = [key[k] EXCEPT !.enabled = req[r].to]
    BY <1>2, <1>6, SetStatusType
  <2>2. "enabled" \in DOMAIN key[k]
    BY <1>1 DEF KeyRow, Live, Unborn, Gone
  <2>3. req[r].to
    BY <2>1, <2>2 DEF Enabled
  <2> QED  BY <1>1, <1>6, <2>1, <2>3 DEF SetStatus, To
<1> QED  BY <1>3, <1>4, <1>5, <1>6

\* Authentication and the owner's other requests leave a disabled key disabled.
THEOREM DisabledStays == Spec => OnlyOwnerEnables
<1>1. ASSUME IInv, [Next]_vars
      PROVE  [\A k \in Keys :
                 (Live(key[k]) /\ ~Enabled(k) /\ Enabled(k)') =>
                     \E r \in Requests :
                         /\ req[r].pc = "switching" /\ req[r].key = k /\ req[r].to
                         /\ req'[r] = Idle]_vars
  BY <1>1, StepEnables
<1> QED  BY <1>1, Invariance, PTL DEF Spec, OnlyOwnerEnables
=============================================================================
