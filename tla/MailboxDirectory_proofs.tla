----------------------- MODULE MailboxDirectory_proofs -----------------------
(***************************************************************************)
(* Proofs about MailboxDirectory for any number of mailboxes, names,       *)
(* addresses, verifications and concurrent requests.                       *)
(*                                                                         *)
(* That committed rows do not clash is not inductive: a commit is only     *)
(* safe because the flushed row was compared with every committed row and  *)
(* no second flushed row may clash with it.  Settled says that the         *)
(* committed and the flushed rows are all free of clashes together.        *)
(*                                                                         *)
(* VInv, further down, follows what vouches for an app-password mailbox    *)
(* from the check of its verification code to the commit.                  *)
(*                                                                         *)
(* RInv says how little a flushed row changes, which makes every commit    *)
(* one operation of MailboxRegistry.                                       *)
(***************************************************************************)
EXTENDS MailboxDirectory, TLAPS

Flushed(q) == request[q].pc = "flushed"

\* A flushed row clashes neither with a committed row of another mailbox nor
\* with another flushed row, and no two requests have flushed the same row.
FlushedApart ==
    /\ \A q \in Requests, m \in Mailboxes :
        Flushed(q) /\ m # request[q].on => ~Clash(request[q].row, mailbox[m])
    /\ \A q, r \in Requests :
        Flushed(q) /\ Flushed(r) /\ q # r =>
            /\ request[q].on # request[r].on
            /\ ~Clash(request[q].row, request[r].row)

Settled == NamesAndAddressesUnique /\ FlushedApart

\* A statement that inserts a row writes every column.
Complete(call, rows) ==
    call.pc = "ready" /\ rows[call.on] = None /\ call.change # Gone =>
        /\ call.change.name # None
        /\ call.change.email # None
        /\ call.change.auth # None

InsertsComplete == \A q \in Requests : Complete(request[q], mailbox)

\* The verification a request completes has been stored.
CompletesStored ==
    \A q \in Requests :
        request[q].pc \in {"ready", "flushed"} /\ request[q].via # None =>
            pending[request[q].via] # None

\* Stored verifications are never dropped.
PendingKept == \A v \in Verifications : pending[v] # None => pending'[v] # None

IInv == TypeOK /\ InsertsComplete /\ CompletesStored /\ Settled

-----------------------------------------------------------------------------
(* Steps of a request that leave the committed rows alone.                  *)

\* A clash is symmetric.
LEMMA ClashSymmetric == \A r, s : Clash(r, s) <=> Clash(s, r)
  BY DEF Clash

\* What a request that is neither ready nor flushed may be.
LEMMA PassiveStates ==
    /\ Idle \in Request /\ Idle.pc = "idle"
    /\ \A name \in Names, email \in Emails :
        [pc |-> "starting", name |-> name, email |-> email] \in Request
    /\ \A v \in Verifications, k \in Nat, st \in {"verifying", "failed"} :
        [pc |-> "refusing", via |-> v, attempts |-> k, status |-> st] \in Request
  BY DEF Idle, Request

\* A ready request whose statement is complete, or changes an existing row.
LEMMA ReadyState ==
    ASSUME NEW m \in Mailboxes, NEW change \in Columns \cup {Gone},
           NEW v \in Verifications \cup {None}, NEW rows,
           \/ rows[m] # None
           \/ change.name # None /\ change.email # None /\ change.auth # None
    PROVE  LET st == [pc |-> "ready", on |-> m, change |-> change, via |-> v]
           IN  st \in Request /\ Complete(st, rows)
  BY DEF Request, Complete

\* A request that moves without flushing leaves everything settled.
LEMMA Moves ==
    ASSUME IInv, NEW q \in Requests, NEW st \in Request, Goto(q, st),
           st.pc # "flushed", Complete(st, mailbox), UNCHANGED mailbox,
           PendingKept, st.pc = "ready" /\ st.via # None => pending[st.via] # None
    PROVE  /\ InsertsComplete' /\ CompletesStored' /\ Settled'
           /\ request' \in [Requests -> Request]
  <1>1. \A r \in Requests : request'[r] = IF r = q THEN st ELSE request[r]
    BY DEF Goto, IInv, TypeOK
  <1>2. request' \in [Requests -> Request]
    BY DEF Goto, IInv, TypeOK
  <1>3. InsertsComplete'
    <2> SUFFICES ASSUME NEW r \in Requests
                 PROVE  Complete(request'[r], mailbox')
      BY DEF InsertsComplete
    <2>1. Complete(request[r], mailbox)
      BY DEF IInv, InsertsComplete
    <2>2. QED
      BY <1>1, <2>1
  <1>4. NamesAndAddressesUnique'
    BY DEF IInv, Settled, NamesAndAddressesUnique
  <1>5. FlushedApart'
    BY <1>1 DEF IInv, Settled, FlushedApart, Flushed
  <1>6. CompletesStored'
    <2> SUFFICES ASSUME NEW r \in Requests,
                        request'[r].pc \in {"ready", "flushed"},
                        request'[r].via # None
                 PROVE  pending'[request'[r].via] # None
      BY DEF CompletesStored
    <2>1. request'[r].via \in Verifications
      BY <1>2 DEF Request, Idle
    <2>2. pending[request'[r].via] # None
      BY <1>1 DEF IInv, CompletesStored
    <2>3. QED
      BY <2>1, <2>2 DEF PendingKept
  <1>7. QED
    BY <1>2, <1>3, <1>4, <1>5, <1>6 DEF Settled

\* The same for a request that goes to a state other than ready.
LEMMA PassiveMoves ==
    ASSUME IInv, NEW q \in Requests, NEW st \in Request, Goto(q, st),
           st.pc \notin {"ready", "flushed"}, UNCHANGED mailbox, PendingKept
    PROVE  /\ InsertsComplete' /\ CompletesStored' /\ Settled'
           /\ request' \in [Requests -> Request]
  <1>1. Complete(st, mailbox)
    BY DEF Complete
  <1>2. QED
    BY <1>1, Moves

-----------------------------------------------------------------------------
(* The flush and the commit.                                                *)

\* The row an insert produces.
LEMMA InsertedRow ==
    ASSUME IInv, NEW q \in Requests, request[q].pc = "ready",
           mailbox[request[q].on] = None, request[q].change # Gone
    PROVE  /\ NewRow(q) \in Mailbox
           /\ NewRow(q).email = request[q].change.email
           /\ NewRow(q).auth = request[q].change.auth
           /\ NewRow(q).via = request[q].via
  <1> DEFINE change == request[q].change
  <1>1. change \in Columns /\ request[q].via \in Verifications \cup {None}
    BY DEF IInv, TypeOK, Request, Idle
  <1>2. change.name # None /\ change.email # None /\ change.auth # None
    BY DEF IInv, InsertsComplete, Complete
  <1>3. /\ change.name \in Names /\ change.email \in Emails
        /\ change.auth \in {"app_password", "oauth2"}
    BY <1>1, <1>2 DEF Columns
  <1>4. NewRow(q) = [name |-> change.name, email |-> change.email,
                     auth |-> change.auth, via |-> request[q].via]
    BY ConstantsAssumption DEF NewRow
  <1> HIDE DEF change
  <1>5. NewRow(q) \in Mailbox
    BY <1>1, <1>3, <1>4 DEF Mailbox
  <1>6. QED
    BY <1>4, <1>5 DEF change

\* The row a change of an existing row produces.
LEMMA ChangedRow ==
    ASSUME NEW row \in Mailbox, NEW change \in Columns
    PROVE  Changed(row, change) \in Mailbox
  <1>1. /\ (IF change.name = None THEN row.name ELSE change.name) \in Names
        /\ (IF change.email = None THEN row.email ELSE change.email) \in Emails
        /\ (IF change.auth = None THEN row.auth ELSE change.auth)
                \in {"app_password", "oauth2"}
        /\ row.via \in Verifications \cup {None}
    BY DEF Mailbox, Columns
  <1>2. QED
    BY <1>1 DEF Changed, Mailbox

\* The row a statement produces.
LEMMA NewRowType ==
    ASSUME IInv, NEW q \in Requests, request[q].pc = "ready"
    PROVE  NewRow(q) \in Mailbox \cup {Gone}
  <1> DEFINE m == request[q].on
             change == request[q].change
  <1>1. m \in Mailboxes /\ change \in Columns \cup {Gone}
    BY DEF IInv, TypeOK, Request, Idle
  <1>2. mailbox[m] \in Mailbox \cup {None, Gone}
    BY <1>1 DEF IInv, TypeOK
  <1>3. CASE Gone \in {change, mailbox[m]}
    BY <1>3 DEF NewRow
  <1>4. CASE Gone \notin {change, mailbox[m]} /\ mailbox[m] = None
    BY <1>4, InsertedRow
  <1>5. CASE Gone \notin {change, mailbox[m]} /\ mailbox[m] # None
    <2>1. mailbox[m] \in Mailbox /\ change \in Columns
      BY <1>1, <1>2, <1>5
    <2>2. NewRow(q) = Changed(mailbox[m], change)
      BY <1>5 DEF NewRow
    <2> HIDE DEF change, m
    <2>3. QED
      BY <2>1, <2>2, ChangedRow
  <1>6. QED
    BY <1>3, <1>4, <1>5

\* A flush that is not refused and need not wait keeps the rows apart.
LEMMA FlushStep ==
    ASSUME IInv, NEW q \in Requests, Flush(q) PROVE IInv'
  <1> DEFINE new == NewRow(q)
             st == [pc |-> "flushed", on |-> request[q].on, row |-> new,
                    via |-> request[q].via]
  <1>1. request[q].pc = "ready" /\ UNCHANGED <<hosted, mailbox, pending, wrongCodes>>
    BY DEF Flush
  <1>2. /\ request[q].on \in Mailboxes
        /\ request[q].via \in Verifications \cup {None}
    BY <1>1 DEF IInv, TypeOK, Request, Idle
  <1>3. new \in Mailbox \cup {Gone}
    BY <1>1, NewRowType
  <1>4. \A m \in Mailboxes : m # request[q].on => ~Clash(new, mailbox[m])
    BY ClashSymmetric DEF Flush, Duplicate
  <1>5. \A r \in Requests : Flushed(r) =>
            request[r].on # request[q].on /\ ~Clash(request[r].row, new)
    BY DEF Flush, Waits, Blocks, Flushed
  <1>6. Goto(q, st)
    BY DEF Flush
  <1> HIDE DEF new
  <1>7. st \in Request
    BY <1>2, <1>3 DEF Request
  <1>8. \A r \in Requests : request'[r] = IF r = q THEN st ELSE request[r]
    BY <1>6 DEF Goto, IInv, TypeOK
  <1>9. TypeOK'
    BY <1>1, <1>6, <1>7 DEF Goto, IInv, TypeOK
  <1>10. InsertsComplete'
    <2> SUFFICES ASSUME NEW r \in Requests
                 PROVE  Complete(request'[r], mailbox')
      BY DEF InsertsComplete
    <2>1. Complete(request[r], mailbox) /\ Complete(st, mailbox)
      BY DEF IInv, InsertsComplete, Complete
    <2>2. QED
      BY <1>1, <1>8, <2>1
  <1>11. FlushedApart'
    <2>1. ASSUME NEW r \in Requests, NEW m \in Mailboxes,
                 request'[r].pc = "flushed", m # request'[r].on
          PROVE  ~Clash(request'[r].row, mailbox'[m])
      BY <1>1, <1>4, <1>8, <2>1 DEF IInv, Settled, FlushedApart, Flushed
    <2>2. ASSUME NEW r \in Requests, NEW s \in Requests, r # s,
                 request'[r].pc = "flushed", request'[s].pc = "flushed"
          PROVE  /\ request'[r].on # request'[s].on
                 /\ ~Clash(request'[r].row, request'[s].row)
      <3>1. CASE r # q /\ s # q
        BY <1>8, <2>2, <3>1 DEF IInv, Settled, FlushedApart, Flushed
      <3>2. CASE r = q
        BY <1>5, <1>8, <2>2, <3>2, ClashSymmetric DEF Flushed
      <3>3. CASE s = q
        BY <1>5, <1>8, <2>2, <3>3 DEF Flushed
      <3>4. QED
        BY <3>1, <3>2, <3>3
    <2>3. QED
      BY <2>1, <2>2 DEF FlushedApart, Flushed
  <1>12. NamesAndAddressesUnique'
    BY <1>1 DEF IInv, Settled, NamesAndAddressesUnique
  <1>13. CompletesStored'
    BY <1>1, <1>8 DEF IInv, CompletesStored
  <1>14. QED
    BY <1>9, <1>10, <1>11, <1>12, <1>13 DEF IInv, Settled

\* A commit moves a row that clashes with nothing into the table.
LEMMA CommitStep ==
    ASSUME IInv, NEW q \in Requests, Commit(q) PROVE IInv'
  <1> DEFINE m == request[q].on
             v == request[q].via
             row == request[q].row
  <1>1. Flushed(q)
    BY DEF Commit, Flushed
  <1>2. /\ m \in Mailboxes /\ row \in Mailbox \cup {Gone}
        /\ v \in Verifications \cup {None}
    BY <1>1 DEF IInv, TypeOK, Request, Idle, Flushed
  <1>3. /\ mailbox' = [mailbox EXCEPT ![m] = row]
        /\ pending' = IF v = None THEN pending
                      ELSE [pending EXCEPT ![v].status = "verified",
                                           ![v].mailbox = m]
        /\ Goto(q, Idle)
        /\ UNCHANGED <<hosted, wrongCodes>>
    BY DEF Commit
  <1>4. \A n \in Mailboxes : mailbox'[n] = IF n = m THEN row ELSE mailbox[n]
    BY <1>2, <1>3 DEF IInv, TypeOK
  <1>5. \A r \in Requests : request'[r] = IF r = q THEN Idle ELSE request[r]
    BY <1>3 DEF Goto, IInv, TypeOK
  <1>6. row # None
    BY <1>2, ConstantsAssumption
  <1>p. pending' \in [Verifications -> Pending \cup {None}] /\ PendingKept
    <2>1. CASE v = None
      BY <1>3, <2>1 DEF IInv, TypeOK, PendingKept
    <2>2. CASE v # None
      <3> DEFINE done == [pending[v] EXCEPT !.status = "verified", !.mailbox = m]
      <3>1. v \in Verifications /\ pending[v] \in Pending
        BY <1>1, <1>2, <2>2 DEF IInv, TypeOK, CompletesStored, Flushed
      <3>2. done \in Pending
        BY <1>2, <3>1 DEF Pending
      <3>3. done # None
        BY <3>2, ConstantsAssumption
      <3>4. pending' = [pending EXCEPT ![v] = done]
        BY <1>3, <2>2, <3>1 DEF IInv, TypeOK
      <3> HIDE DEF done
      <3>5. QED
        BY <3>1, <3>2, <3>3, <3>4 DEF IInv, TypeOK, PendingKept
    <2>3. QED
      BY <2>1, <2>2
  <1>7. TypeOK'
    <2>1. mailbox' \in [Mailboxes -> Mailbox \cup {None, Gone}]
      BY <1>2, <1>3 DEF IInv, TypeOK
    <2>2. request' \in [Requests -> Request]
      BY <1>3, PassiveStates DEF Goto, IInv, TypeOK
    <2>3. QED
      BY <1>3, <1>p, <2>1, <2>2 DEF IInv, TypeOK
  <1>8. InsertsComplete'
    <2> SUFFICES ASSUME NEW r \in Requests, request'[r].pc = "ready"
                 PROVE  Complete(request'[r], mailbox')
      BY DEF InsertsComplete, Complete
    <2>1. request'[r] = request[r] /\ request[r].on \in Mailboxes
      BY <1>5, PassiveStates DEF IInv, TypeOK, Request, Idle
    <2>2. mailbox'[request[r].on] = None => mailbox[request[r].on] = None
      BY <1>4, <1>6, <2>1
    <2>3. Complete(request[r], mailbox)
      BY DEF IInv, InsertsComplete
    <2>4. QED
      BY <2>1, <2>2, <2>3 DEF Complete
  <1>9. NamesAndAddressesUnique'
    <2> SUFFICES ASSUME NEW n \in Mailboxes, NEW k \in Mailboxes, n # k
                 PROVE  ~Clash(mailbox'[n], mailbox'[k])
      BY DEF NamesAndAddressesUnique
    <2>1. \A j \in Mailboxes : j # m => ~Clash(row, mailbox[j])
      BY <1>1 DEF IInv, Settled, FlushedApart
    <2>2. ~Clash(mailbox[n], mailbox[k])
      BY DEF IInv, Settled, NamesAndAddressesUnique
    <2> HIDE DEF row, m
    <2>3. QED
      BY <1>4, <2>1, <2>2, ClashSymmetric
  <1>10. FlushedApart'
    <2>1. ASSUME NEW r \in Requests, request'[r].pc = "flushed"
          PROVE  /\ r # q /\ request'[r] = request[r]
                 /\ request[r].on # m /\ ~Clash(request[r].row, row)
      <3>1. r # q /\ request'[r] = request[r]
        BY <1>5, <2>1, PassiveStates
      <3>2. QED
        BY <1>1, <2>1, <3>1 DEF IInv, Settled, FlushedApart, Flushed
    <2>2. ASSUME NEW r \in Requests, NEW n \in Mailboxes,
                 request'[r].pc = "flushed", n # request'[r].on
          PROVE  ~Clash(request'[r].row, mailbox'[n])
      <3>1. /\ request'[r] = request[r] /\ ~Clash(request[r].row, row)
        BY <2>1, <2>2
      <3>2. ~Clash(request[r].row, mailbox[n])
        BY <2>2, <3>1 DEF IInv, Settled, FlushedApart, Flushed
      <3> HIDE DEF row, m
      <3>3. QED
        BY <1>4, <3>1, <3>2
    <2>3. ASSUME NEW r \in Requests, NEW s \in Requests, r # s,
                 request'[r].pc = "flushed", request'[s].pc = "flushed"
          PROVE  /\ request'[r].on # request'[s].on
                 /\ ~Clash(request'[r].row, request'[s].row)
      <3>1. request'[r] = request[r] /\ request'[s] = request[s]
        BY <2>1, <2>3
      <3>2. QED
        BY <2>3, <3>1 DEF IInv, Settled, FlushedApart, Flushed
    <2>4. QED
      BY <2>2, <2>3 DEF FlushedApart, Flushed
  <1>11. CompletesStored'
    <2> SUFFICES ASSUME NEW r \in Requests,
                        request'[r].pc \in {"ready", "flushed"},
                        request'[r].via # None
                 PROVE  pending'[request'[r].via] # None
      BY DEF CompletesStored
    <2>1. request'[r] = request[r]
      BY <1>5, PassiveStates
    <2>2. request[r].via \in Verifications
      BY <2>1 DEF IInv, TypeOK, Request, Idle
    <2>3. pending[request[r].via] # None
      BY <2>1 DEF IInv, CompletesStored
    <2>4. QED
      BY <1>p, <2>1, <2>2, <2>3 DEF PendingKept
  <1>12. QED
    BY <1>7, <1>8, <1>9, <1>10, <1>11 DEF IInv, Settled

-----------------------------------------------------------------------------
(* The other steps.                                                         *)

\* Reading and checking prepares a statement.
LEMMA PrepareStep ==
    ASSUME IInv, NEW q \in Requests, Prepare(q) PROVE IInv'
  <1>1. ASSUME NEW m \in Mailboxes, NEW change \in Columns \cup {Gone},
               NEW v \in Verifications \cup {None},
               \/ mailbox[m] # None
               \/ change.name # None /\ change.email # None /\ change.auth # None,
               v # None => pending[v] # None,
               Goto(q, [pc |-> "ready", on |-> m, change |-> change, via |-> v]),
               UNCHANGED <<hosted, mailbox, pending, wrongCodes>>
        PROVE  IInv'
    <2> DEFINE st == [pc |-> "ready", on |-> m, change |-> change, via |-> v]
    <2>1. /\ st \in Request /\ Complete(st, mailbox) /\ st.pc # "flushed"
          /\ st.via # None => pending[st.via] # None
      BY <1>1, ReadyState
    <2> HIDE DEF st
    <2>2. Goto(q, st)
      BY <1>1 DEF st
    <2>3. /\ InsertsComplete' /\ CompletesStored' /\ Settled'
          /\ request' \in [Requests -> Request]
      BY <1>1, <2>1, <2>2, Moves DEF PendingKept
    <2>4. QED
      BY <1>1, <2>3 DEF IInv, TypeOK
  <1> DEFINE Full(name, email, auth) == [name |-> name, email |-> email, auth |-> auth]
  <1>2. ASSUME NEW m \in Mailboxes, NEW name \in Names, NEW email \in Emails,
               NEW auth \in {"app_password", "oauth2"},
               PrepareInsert(q, m, name, email, auth, None),
               UNCHANGED <<hosted, mailbox, pending, wrongCodes>>
        PROVE  IInv'
    <2>1. Full(name, email, auth) \in Columns
      BY DEF Columns
    <2>2. /\ Full(name, email, auth).name # None
          /\ Full(name, email, auth).email # None
          /\ Full(name, email, auth).auth # None
      BY ConstantsAssumption
    <2>3. Goto(q, [pc |-> "ready", on |-> m, change |-> Full(name, email, auth),
                   via |-> None])
      BY <1>2 DEF PrepareInsert
    <2> HIDE DEF Full
    <2>4. QED
      BY <1>1, <1>2, <2>1, <2>2, <2>3
  <1>3. ASSUME NEW m \in Mailboxes, NEW name \in Names \cup {None},
               NEW email \in Emails \cup {None}, Live(m),
               Goto(q, [pc |-> "ready", on |-> m,
                        change |-> Full(name, email, None), via |-> None]),
               UNCHANGED <<hosted, mailbox, pending, wrongCodes>>
        PROVE  IInv'
    <2>1. Full(name, email, None) \in Columns
      BY DEF Columns
    <2>2. mailbox[m] # None
      BY <1>3 DEF Live, IsRow
    <2> HIDE DEF Full
    <2>3. QED
      BY <1>1, <1>3, <2>1, <2>2
  <1>4. ASSUME NEW m \in Mailboxes, NEW name \in Names, NEW email \in Emails,
               PrepareCreate(q, m, name, email)
        PROVE  IInv'
    BY <1>2, <1>4 DEF PrepareCreate
  <1>5. ASSUME NEW m \in Mailboxes, NEW name \in Names, NEW email \in Emails,
               PrepareConnect(q, m, name, email)
        PROVE  IInv'
    BY <1>2, <1>5 DEF PrepareConnect
  <1>6. ASSUME NEW m \in Mailboxes, NEW email \in Emails,
               PrepareReconnect(q, m, email)
        PROVE  IInv'
    <2> DEFINE written == IF email = mailbox[m].email THEN None ELSE email
    <2>1. written \in Emails \cup {None}
      OBVIOUS
    <2>2. /\ Live(m)
          /\ Goto(q, [pc |-> "ready", on |-> m,
                      change |-> Full(None, written, None), via |-> None])
          /\ UNCHANGED <<hosted, mailbox, pending, wrongCodes>>
      BY <1>6 DEF PrepareReconnect
    <2> HIDE DEF written
    <2>3. QED
      BY <1>3, <2>1, <2>2
  <1>7. ASSUME NEW m \in Mailboxes, NEW name \in Names,
               PrepareRename(q, m, name)
        PROVE  IInv'
    BY <1>3, <1>7 DEF PrepareRename
  <1>8. ASSUME NEW m \in Mailboxes, PrepareDelete(q, m) PROVE IInv'
    <2>1. /\ mailbox[m] # None
          /\ Goto(q, [pc |-> "ready", on |-> m, change |-> Gone, via |-> None])
          /\ UNCHANGED <<hosted, mailbox, pending, wrongCodes>>
      BY <1>8 DEF PrepareDelete, Live, IsRow
    <2>2. QED
      BY <1>1, <2>1
  <1>9. QED
    BY <1>4, <1>5, <1>6, <1>7, <1>8 DEF Prepare

\* So does verification by code.
LEMMA VerifyStep ==
    ASSUME IInv, NEW q \in Requests, Verify(q) PROVE IInv'
  <1>1. ASSUME NEW st \in Request, st.pc \notin {"ready", "flushed"}, Goto(q, st),
               UNCHANGED <<hosted, mailbox>>, PendingKept,
               pending' \in [Verifications -> Pending \cup {None}],
               wrongCodes' \in [Verifications -> Nat]
        PROVE  IInv'
    BY <1>1, PassiveMoves DEF IInv, TypeOK
  <1>2. ASSUME NEW name \in Names, NEW email \in Emails,
               BeginVerification(q, name, email)
        PROVE  IInv'
    <2>1. /\ [pc |-> "starting", name |-> name, email |-> email] \in Request
          /\ Goto(q, [pc |-> "starting", name |-> name, email |-> email])
          /\ UNCHANGED <<hosted, mailbox, pending, wrongCodes>>
      BY <1>2, PassiveStates DEF BeginVerification
    <2>2. QED
      BY <1>1, <2>1 DEF IInv, TypeOK, PendingKept
  <1>3. ASSUME NEW v \in Verifications, StoreVerification(q, v) PROVE IInv'
    <2>1. /\ request[q].name \in Names /\ request[q].email \in Emails
      BY <1>3 DEF StoreVerification, IInv, TypeOK, Request, Idle
    <2> DEFINE row == [name |-> request[q].name, email |-> request[q].email,
                       status |-> "verifying", attempts |-> 0, mailbox |-> None]
    <2>2. row \in Pending
      BY <2>1 DEF Pending
    <2>3. pending' = [pending EXCEPT ![v] = row] \/ pending' = pending
      BY <1>3 DEF StoreVerification
    <2>r. row # None
      BY <2>2, ConstantsAssumption
    <2> HIDE DEF row
    <2>4. pending' \in [Verifications -> Pending \cup {None}] /\ PendingKept
      BY <2>2, <2>3, <2>r DEF IInv, TypeOK, PendingKept
    <2>5. Goto(q, Idle) /\ UNCHANGED <<hosted, mailbox, wrongCodes>>
      BY <1>3 DEF StoreVerification
    <2>6. QED
      BY <1>1, <2>4, <2>5, PassiveStates DEF IInv, TypeOK
  <1>4. ASSUME NEW v \in Verifications, NEW m \in Mailboxes,
               PrepareComplete(q, v, m)
        PROVE  IInv'
    <2> DEFINE change == [name |-> pending[v].name, email |-> pending[v].email,
                          auth |-> "app_password"]
    <2>1. pending[v] \in Pending
      BY <1>4 DEF PrepareComplete, Verifying, IInv, TypeOK
    <2>2. change \in Columns
      BY <2>1 DEF Pending, Columns
    <2>3. change.name # None /\ change.email # None /\ change.auth # None
      BY <2>1, ConstantsAssumption DEF Pending
    <2>4. /\ Goto(q, [pc |-> "ready", on |-> m, change |-> change, via |-> v])
          /\ UNCHANGED <<hosted, mailbox, pending, wrongCodes>>
      BY <1>4 DEF PrepareComplete, PrepareInsert
    <2> HIDE DEF change
    <2>5. LET st == [pc |-> "ready", on |-> m, change |-> change, via |-> v]
          IN  st \in Request /\ Complete(st, mailbox)
      BY <2>2, <2>3, ReadyState
    <2>p. pending[v] # None
      BY <1>4 DEF PrepareComplete, Verifying
    <2>6. /\ InsertsComplete' /\ CompletesStored' /\ Settled'
          /\ request' \in [Requests -> Request]
      BY <2>4, <2>5, <2>p, Moves DEF PendingKept
    <2>7. QED
      BY <2>4, <2>6 DEF IInv, TypeOK
  <1>5. ASSUME NEW v \in Verifications, WrongCode(q, v) PROVE IInv'
    <2> DEFINE attempts == pending[v].attempts + 1
               status == IF attempts >= AttemptLimit THEN "failed" ELSE "verifying"
    <2>1. attempts \in Nat /\ status \in {"verifying", "failed"}
      BY <1>5 DEF WrongCode, Verifying, IInv, TypeOK, Pending
    <2>2. /\ Goto(q, [pc |-> "refusing", via |-> v, attempts |-> attempts,
                      status |-> status])
          /\ UNCHANGED <<hosted, mailbox, pending, wrongCodes>>
      BY <1>5 DEF WrongCode
    <2> HIDE DEF attempts, status
    <2>3. [pc |-> "refusing", via |-> v, attempts |-> attempts,
           status |-> status] \in Request
      BY <2>1, PassiveStates
    <2>4. QED
      BY <1>1, <2>2, <2>3 DEF IInv, TypeOK, PendingKept
  <1>6. CASE RefuseCode(q)
    <2>1. Goto(q, Idle) /\ UNCHANGED <<hosted, mailbox, pending>>
      BY <1>6 DEF RefuseCode
    <2>2. wrongCodes' \in [Verifications -> Nat]
      <3> DEFINE v == request[q].via
      <3>1. v \in Verifications
        BY <1>6 DEF RefuseCode, IInv, TypeOK, Request, Idle
      <3>2. wrongCodes' = [wrongCodes EXCEPT ![v] = wrongCodes[v] + 1]
        BY <1>6 DEF RefuseCode
      <3> HIDE DEF v
      <3>3. QED
        BY <3>1, <3>2 DEF IInv, TypeOK
    <2>3. QED
      BY <1>1, <2>1, <2>2, PassiveStates DEF IInv, TypeOK, PendingKept
  <1>7. QED
    BY <1>2, <1>3, <1>4, <1>5, <1>6 DEF Verify

\* And a request that ends.
LEMMA FinishStep ==
    ASSUME IInv, NEW q \in Requests, Finish(q) PROVE IInv'
  <1>1. CASE FlushRefused(q) \/ Fail(q)
    <2>1. Goto(q, Idle) /\ UNCHANGED <<hosted, mailbox, pending, wrongCodes>>
      BY <1>1 DEF FlushRefused, Fail
    <2>2. /\ InsertsComplete' /\ CompletesStored' /\ Settled'
          /\ request' \in [Requests -> Request]
      BY <2>1, PassiveStates, PassiveMoves DEF PendingKept
    <2>3. QED
      BY <2>1, <2>2 DEF IInv, TypeOK
  <1>2. QED
    BY <1>1, FlushStep, CommitStep DEF Finish

\* A step that changes nothing.
LEMMA StutterStep == IInv /\ UNCHANGED vars => IInv'
  BY DEF vars, IInv, TypeOK, InsertsComplete, CompletesStored, Settled,
         FlushedApart, Flushed, NamesAndAddressesUnique

\* The table starts empty and settled.
LEMMA InitIInv == Init => IInv
  <1> SUFFICES ASSUME Init PROVE IInv
    OBVIOUS
  <1>1. TypeOK
    BY PassiveStates DEF Init, TypeOK
  <1>2. InsertsComplete
    BY PassiveStates DEF Init, InsertsComplete, Complete
  <1>3. Settled
    BY PassiveStates
    DEF Init, Settled, FlushedApart, Flushed, NamesAndAddressesUnique, Clash, IsRow
  <1>4. CompletesStored
    BY PassiveStates DEF Init, CompletesStored
  <1>5. QED
    BY <1>1, <1>2, <1>3, <1>4 DEF IInv

\* Every step keeps the invariant.
LEMMA StepIInv == IInv /\ [Next]_vars => IInv'
  BY PrepareStep, VerifyStep, FinishStep, StutterStep DEF Next, Refuse

-----------------------------------------------------------------------------
(* The theorems.                                                            *)

\* IInv holds in every reachable state.
THEOREM Invariance == Spec => []IInv
  BY InitIInv, StepIInv, PTL DEF Spec

\* Every variable keeps its type.
THEOREM TypeCorrect == Spec => []TypeOK
  <1>1. IInv => TypeOK
    BY DEF IInv
  <1>2. QED
    BY <1>1, Invariance, PTL

\* A name or an address leads to one mailbox, however requests overlap.
THEOREM Unique == Spec => []NamesAndAddressesUnique
  <1>1. IInv => NamesAndAddressesUnique
    BY DEF IInv, Settled
  <1>2. QED
    BY <1>1, Invariance, PTL

-----------------------------------------------------------------------------
(* Verified mailboxes.                                                      *)
(*                                                                          *)
(* What vouches for a row is spread over the requests: the insert carries   *)
(* its verification from the check to the commit, and changes of an         *)
(* existing row must leave that link, and the address of a verified row,    *)
(* alone.                                                                   *)

\* A verification given has this address, and hosted app passwords have one.
Vouched(via, auth, email, h, stored) ==
    /\ via # None =>
        auth = "app_password" /\ stored[via] # None /\ stored[via].email = email
    /\ h /\ auth = "app_password" => via # None

\* A statement that inserts carries a row that is vouched for; one that
\* changes a row leaves its kind alone, and its address unless it uses OAuth.
ReadyFits(call, h, rows, stored) ==
    call.pc = "ready" =>
        /\ rows[call.on] = None =>
            /\ call.change # Gone
            /\ Vouched(call.via, call.change.auth, call.change.email, h, stored)
        /\ rows[call.on] # None =>
            /\ call.via = None
            /\ call.change # Gone =>
                /\ call.change.auth = None
                /\ call.change.email # None =>
                    rows[call.on] = Gone \/ rows[call.on].auth = "oauth2"

\* A flushed row is vouched for, and is the request's insert or keeps what
\* vouches for the row it replaces.
FlushedFits(call, h, rows, stored) ==
    call.pc = "flushed" =>
        /\ rows[call.on] # Gone
        /\ call.row # Gone =>
            Vouched(call.row.via, call.row.auth, call.row.email, h, stored)
        /\ rows[call.on] = None => call.row # Gone /\ call.row.via = call.via
        /\ rows[call.on] # None =>
            /\ call.via = None
            /\ call.row # Gone =>
                /\ call.row.via = rows[call.on].via
                /\ call.row.auth = rows[call.on].auth

Fits(call, h, rows, stored) ==
    ReadyFits(call, h, rows, stored) /\ FlushedFits(call, h, rows, stored)

RequestsFit ==
    \A q \in Requests : Fits(request[q], hosted, mailbox, pending)

Using(q) == request[q].pc \in {"ready", "flushed"}

\* Nobody else is about to write a row that is still to be inserted.
InsertsAlone ==
    \A q, r \in Requests :
        q # r /\ Using(q) /\ Using(r) /\ request[q].on = request[r].on =>
            mailbox[request[q].on] # None

RowsVouched ==
    \A m \in Mailboxes : Live(m) =>
        LET row == mailbox[m] IN
        /\ Vouched(row.via, row.auth, row.email, hosted, pending)
        /\ row.via # None => pending[row.via].status = "verified"

NamesCreated ==
    \A v \in Verifications :
        pending[v] # None /\ pending[v].status = "verified" =>
            LET m == pending[v].mailbox IN
            /\ m # None /\ mailbox[m] # None
            /\ mailbox[m] = Gone \/ mailbox[m].via = v

HadMailbox == \E m \in Mailboxes : mailbox[m] # None

\* verify-start goes on with another address only once there was a mailbox.
FirstKept ==
    \A q \in Requests :
        request[q].pc = "starting" /\ request[q].email # SignupEmail => HadMailbox

VInv == RequestsFit /\ InsertsAlone /\ RowsVouched /\ NamesCreated /\ FirstKept

\* Stored verifications keep their address, settled ones stay settled.
PendingStable ==
    \A v \in Verifications : pending[v] # None =>
        /\ pending'[v] # None
        /\ pending'[v].email = pending[v].email
        /\ pending[v].status = "verified" => pending'[v].status = "verified"

\* A request's keys and verification have their types.
LEMMA CallTypes ==
    ASSUME NEW call \in Request
    PROVE  /\ call.pc \in {"ready", "flushed"} =>
                call.on \in Mailboxes /\ call.via \in Verifications \cup {None}
           /\ call.pc = "ready" => call.change \in Columns \cup {Gone}
           /\ call.pc = "flushed" => call.row \in Mailbox \cup {Gone}
  BY DEF Request, Idle

\* What vouches for a row is never withdrawn.
LEMMA VouchedStable ==
    ASSUME PendingStable, NEW via \in Verifications \cup {None}, NEW auth, NEW email,
           Vouched(via, auth, email, hosted, pending), UNCHANGED hosted
    PROVE  Vouched(via, auth, email, hosted', pending')
  BY DEF PendingStable, Vouched

\* A request that fits goes on fitting while the rows stay as they are.
LEMMA FitsStable ==
    ASSUME PendingStable, NEW call \in Request,
           Fits(call, hosted, mailbox, pending), UNCHANGED <<hosted, mailbox>>
    PROVE  Fits(call, hosted', mailbox', pending')
  <1>1. ReadyFits(call, hosted', mailbox', pending')
    <2> SUFFICES ASSUME call.pc = "ready"
                 PROVE  ReadyFits(call, hosted', mailbox', pending')
      BY DEF ReadyFits
    <2>1. call.via \in Verifications \cup {None}
      BY CallTypes
    <2>2. ReadyFits(call, hosted, mailbox, pending)
      BY DEF Fits
    <2>3. QED
      BY <2>1, <2>2, VouchedStable DEF ReadyFits
  <1>2. FlushedFits(call, hosted', mailbox', pending')
    <2> SUFFICES ASSUME call.pc = "flushed"
                 PROVE  FlushedFits(call, hosted', mailbox', pending')
      BY DEF FlushedFits
    <2>1. call.row # Gone => call.row.via \in Verifications \cup {None}
      BY CallTypes DEF Mailbox
    <2>2. FlushedFits(call, hosted, mailbox, pending)
      BY DEF Fits
    <2>3. QED
      BY <2>1, <2>2, VouchedStable DEF FlushedFits
  <1>3. QED
    BY <1>1, <1>2 DEF Fits

\* A request that is neither ready nor flushed fits.
LEMMA PassiveFits ==
    ASSUME NEW call, call.pc \notin {"ready", "flushed"}, NEW h, NEW rows, NEW stored
    PROVE  Fits(call, h, rows, stored)
  BY DEF Fits, ReadyFits, FlushedFits

\* A step of one request that leaves the committed rows alone.
LEMMA QuietStep ==
    ASSUME IInv, VInv, NEW q \in Requests, NEW st \in Request, Goto(q, st),
           UNCHANGED <<hosted, mailbox>>, PendingStable, NamesCreated',
           Fits(st, hosted, mailbox, pending),
           \A r \in Requests :
                /\ r # q /\ Using(r)
                /\ st.pc \in {"ready", "flushed"} /\ request[r].on = st.on
                => mailbox[st.on] # None,
           st.pc = "starting" /\ st.email # SignupEmail => HadMailbox
    PROVE  VInv'
  <1>1. \A r \in Requests : request'[r] = IF r = q THEN st ELSE request[r]
    BY DEF Goto, IInv, TypeOK
  <1>2. RequestsFit'
    <2> SUFFICES ASSUME NEW r \in Requests
                 PROVE  Fits(request'[r], hosted', mailbox', pending')
      BY DEF RequestsFit
    <2>1. request[r] \in Request /\ Fits(request[r], hosted, mailbox, pending)
      BY DEF IInv, TypeOK, VInv, RequestsFit
    <2>2. /\ Fits(request[r], hosted', mailbox', pending')
          /\ Fits(st, hosted', mailbox', pending')
      BY <2>1, FitsStable
    <2>3. QED
      BY <1>1, <2>2
  <1>3. InsertsAlone'
    BY <1>1 DEF VInv, InsertsAlone, Using
  <1>4. RowsVouched'
    <2> SUFFICES ASSUME NEW m \in Mailboxes, Live(m), NEW row, row = mailbox[m]
                 PROVE  /\ Vouched(row.via, row.auth, row.email, hosted', pending')
                        /\ row.via # None => pending'[row.via].status = "verified"
      BY DEF RowsVouched, Live
    <2>1. row.via \in Verifications \cup {None}
      BY DEF IInv, TypeOK, Mailbox, Live, IsRow
    <2>2. /\ Vouched(row.via, row.auth, row.email, hosted, pending)
          /\ row.via # None => pending[row.via].status = "verified"
      BY DEF VInv, RowsVouched
    <2>3. row.via # None => pending[row.via] # None
      BY <2>2 DEF Vouched
    <2>4. QED
      BY <2>1, <2>2, <2>3, VouchedStable DEF PendingStable
  <1>5. FirstKept'
    BY <1>1 DEF VInv, FirstKept, HadMailbox
  <1>6. QED
    BY <1>2, <1>3, <1>4, <1>5 DEF VInv

\* The same, when no verification changes either.
LEMMA QuieterStep ==
    ASSUME IInv, VInv, NEW q \in Requests, NEW st \in Request, Goto(q, st),
           UNCHANGED <<hosted, mailbox, pending>>,
           Fits(st, hosted, mailbox, pending),
           \A r \in Requests :
                /\ r # q /\ Using(r)
                /\ st.pc \in {"ready", "flushed"} /\ request[r].on = st.on
                => mailbox[st.on] # None,
           st.pc = "starting" /\ st.email # SignupEmail => HadMailbox
    PROVE  VInv'
  <1>1. PendingStable
    BY DEF PendingStable
  <1>2. NamesCreated'
    BY DEF VInv, NamesCreated
  <1>3. QED
    BY <1>1, <1>2, QuietStep

\* A request that prepares the insert of a row that is vouched for.
LEMMA InsertStep ==
    ASSUME IInv, VInv, NEW q \in Requests, NEW m \in Mailboxes,
           NEW name \in Names, NEW email \in Emails,
           NEW auth \in {"app_password", "oauth2"},
           NEW via \in Verifications \cup {None},
           PrepareInsert(q, m, name, email, auth, via),
           UNCHANGED <<hosted, mailbox, pending>>,
           Vouched(via, auth, email, hosted, pending)
    PROVE  VInv'
  <1> DEFINE change == [name |-> name, email |-> email, auth |-> auth]
             st == [pc |-> "ready", on |-> m, change |-> change, via |-> via]
  <1>1. mailbox[m] = None /\ \A r \in Requests : Using(r) => request[r].on # m
    BY DEF PrepareInsert, FreshKey, Using
  <1>2. change \in Columns
    BY DEF Columns
  <1>3. change # Gone
    BY <1>2, ConstantsAssumption
  <1>4. change.auth = auth /\ change.email = email
    OBVIOUS
  <1>5. Goto(q, st)
    BY DEF PrepareInsert
  <1> HIDE DEF change
  <1>6. st \in Request
    BY <1>2 DEF Request
  <1>7. Fits(st, hosted, mailbox, pending)
    BY <1>1, <1>3, <1>4 DEF Fits, ReadyFits, FlushedFits
  <1> HIDE DEF st
  <1>8. st.on = m /\ st.pc = "ready"
    BY DEF st
  <1>9. QED
    BY <1>1, <1>5, <1>6, <1>7, <1>8, QuieterStep

\* A request that prepares a change of a row without touching what vouches
\* for it.
LEMMA ChangeStep ==
    ASSUME IInv, VInv, NEW q \in Requests, NEW m \in Mailboxes, Live(m),
           NEW change \in Columns \cup {Gone},
           change # Gone =>
                /\ change.auth = None
                /\ change.email # None => mailbox[m].auth = "oauth2",
           Goto(q, [pc |-> "ready", on |-> m, change |-> change, via |-> None]),
           UNCHANGED <<hosted, mailbox, pending>>
    PROVE  VInv'
  <1> DEFINE st == [pc |-> "ready", on |-> m, change |-> change, via |-> None]
  <1>1. mailbox[m] # None
    BY DEF Live, IsRow
  <1>2. st \in Request
    BY DEF Request
  <1>3. Fits(st, hosted, mailbox, pending)
    BY <1>1 DEF Fits, ReadyFits, FlushedFits
  <1>4. Goto(q, st) /\ st.on = m /\ st.pc = "ready"
    OBVIOUS
  <1> HIDE DEF st
  <1>5. QED
    BY <1>1, <1>2, <1>3, <1>4, QuieterStep

\* Checking and preparing keep the mailboxes vouched for.
LEMMA PrepareVouched ==
    ASSUME IInv, VInv, NEW q \in Requests, Prepare(q) PROVE VInv'
  <1>1. ASSUME NEW m \in Mailboxes, NEW name \in Names, NEW email \in Emails,
               PrepareCreate(q, m, name, email)
        PROVE  VInv'
    <2>1. Vouched(None, "app_password", email, hosted, pending)
      BY <1>1 DEF PrepareCreate, Vouched
    <2>2. QED
      BY <1>1, <2>1, InsertStep DEF PrepareCreate
  <1>2. ASSUME NEW m \in Mailboxes, NEW name \in Names, NEW email \in Emails,
               PrepareConnect(q, m, name, email)
        PROVE  VInv'
    <2>1. Vouched(None, "oauth2", email, hosted, pending)
      BY DEF Vouched
    <2>2. QED
      BY <1>2, <2>1, InsertStep DEF PrepareConnect
  <1>3. ASSUME NEW m \in Mailboxes, NEW email \in Emails,
               PrepareReconnect(q, m, email)
        PROVE  VInv'
    <2> DEFINE written == IF email = mailbox[m].email THEN None ELSE email
               change == [name |-> None, email |-> written, auth |-> None]
    <2>1. written \in Emails \cup {None}
      OBVIOUS
    <2> HIDE DEF written
    <2>2. change \in Columns /\ change.auth = None
      BY <2>1 DEF Columns
    <2>3. /\ Live(m) /\ mailbox[m].auth = "oauth2"
          /\ Goto(q, [pc |-> "ready", on |-> m, change |-> change, via |-> None])
          /\ UNCHANGED <<hosted, mailbox, pending>>
      BY <1>3 DEF PrepareReconnect, written
    <2> HIDE DEF change
    <2>4. QED
      BY <2>2, <2>3, ChangeStep
  <1>4. ASSUME NEW m \in Mailboxes, NEW name \in Names,
               PrepareRename(q, m, name)
        PROVE  VInv'
    <2> DEFINE change == [name |-> name, email |-> None, auth |-> None]
    <2>1. change \in Columns /\ change.auth = None /\ change.email = None
      BY DEF Columns
    <2>2. /\ Live(m)
          /\ Goto(q, [pc |-> "ready", on |-> m, change |-> change, via |-> None])
          /\ UNCHANGED <<hosted, mailbox, pending>>
      BY <1>4 DEF PrepareRename
    <2> HIDE DEF change
    <2>3. QED
      BY <2>1, <2>2, ChangeStep
  <1>5. ASSUME NEW m \in Mailboxes, PrepareDelete(q, m) PROVE VInv'
    BY <1>5, ChangeStep DEF PrepareDelete
  <1>6. QED
    BY <1>1, <1>2, <1>3, <1>4, <1>5 DEF Prepare

\* So does verification by code.
LEMMA VerifyVouched ==
    ASSUME IInv, VInv, NEW q \in Requests, Verify(q) PROVE VInv'
  <1>1. ASSUME NEW st \in Request, st.pc \notin {"ready", "flushed", "starting"},
               Goto(q, st), UNCHANGED <<hosted, mailbox, pending>>
        PROVE  VInv'
    BY <1>1, PassiveFits, QuieterStep
  <1>2. ASSUME NEW name \in Names, NEW email \in Emails,
               BeginVerification(q, name, email)
        PROVE  VInv'
    <2> DEFINE st == [pc |-> "starting", name |-> name, email |-> email]
    <2>1. st \in Request /\ st.pc = "starting" /\ st.email = email
      BY PassiveStates
    <2>2. Goto(q, st) /\ UNCHANGED <<hosted, mailbox, pending>>
      BY <1>2 DEF BeginVerification
    <2>3. email # SignupEmail => HadMailbox
      BY <1>2 DEF BeginVerification, HadMailbox, Live, IsRow
    <2> HIDE DEF st
    <2>4. QED
      BY <2>1, <2>2, <2>3, PassiveFits, QuieterStep
  <1>3. ASSUME NEW v \in Verifications, StoreVerification(q, v) PROVE VInv'
    <2> DEFINE row == [name |-> request[q].name, email |-> request[q].email,
                       status |-> "verifying", attempts |-> 0, mailbox |-> None]
    <2>1. /\ request[q].pc = "starting" /\ pending[v] = None
          /\ pending' = [pending EXCEPT ![v] = row] \/ pending' = pending
          /\ Goto(q, Idle) /\ UNCHANGED <<hosted, mailbox>>
      BY <1>3 DEF StoreVerification
    <2>2. row.status # "verified" /\ row.email = request[q].email
      OBVIOUS
    <2> HIDE DEF row
    <2>3. \A w \in Verifications :
            pending'[w] = pending[w] \/ (w = v /\ pending'[w] = row)
      BY <2>1 DEF IInv, TypeOK
    <2>4. PendingStable
      BY <2>1, <2>3 DEF PendingStable
    <2>5. NamesCreated'
      BY <2>1, <2>2, <2>3 DEF VInv, NamesCreated
    <2>6. QED
      BY <2>1, <2>4, <2>5, PassiveStates, PassiveFits, QuietStep
  <1>4. ASSUME NEW v \in Verifications, NEW m \in Mailboxes,
               PrepareComplete(q, v, m)
        PROVE  VInv'
    <2>1. pending[v] \in Pending /\ pending[v] # None
      BY <1>4 DEF PrepareComplete, Verifying, IInv, TypeOK
    <2>2. pending[v].name \in Names /\ pending[v].email \in Emails
      BY <2>1 DEF Pending
    <2>3. Vouched(v, "app_password", pending[v].email, hosted, pending)
      BY <2>1, ConstantsAssumption DEF Vouched
    <2>4. QED
      BY <1>4, <2>2, <2>3, InsertStep DEF PrepareComplete
  <1>5. ASSUME NEW v \in Verifications, WrongCode(q, v) PROVE VInv'
    <2> DEFINE attempts == pending[v].attempts + 1
               status == IF attempts >= AttemptLimit THEN "failed" ELSE "verifying"
               st == [pc |-> "refusing", via |-> v, attempts |-> attempts,
                      status |-> status]
    <2>1. attempts \in Nat /\ status \in {"verifying", "failed"}
      BY <1>5 DEF WrongCode, Verifying, IInv, TypeOK, Pending
    <2>2. Goto(q, st) /\ UNCHANGED <<hosted, mailbox, pending>>
      BY <1>5 DEF WrongCode
    <2> HIDE DEF attempts, status
    <2>3. st \in Request /\ st.pc = "refusing"
      BY <2>1, PassiveStates
    <2> HIDE DEF st
    <2>4. QED
      BY <1>1, <2>2, <2>3
  <1>6. CASE RefuseCode(q)
    BY <1>1, <1>6, PassiveStates DEF RefuseCode
  <1>7. QED
    BY <1>2, <1>3, <1>4, <1>5, <1>6 DEF Verify

\* The flush produces a row that is vouched for.
LEMMA FlushVouched ==
    ASSUME IInv, VInv, NEW q \in Requests, Flush(q) PROVE VInv'
  <1> DEFINE m == request[q].on
             old == mailbox[m]
             change == request[q].change
             new == NewRow(q)
             st == [pc |-> "flushed", on |-> m, row |-> new, via |-> request[q].via]
  <1>1. /\ request[q].pc = "ready" /\ old # Gone
        /\ Goto(q, st) /\ UNCHANGED <<hosted, mailbox, pending>>
    BY DEF Flush
  <1>2. /\ m \in Mailboxes /\ change \in Columns \cup {Gone}
        /\ request[q].via \in Verifications \cup {None}
    BY <1>1 DEF IInv, TypeOK, Request, Idle
  <1>3. old \in Mailbox \cup {None}
    BY <1>1, <1>2 DEF IInv, TypeOK
  <1>4. ReadyFits(request[q], hosted, mailbox, pending)
    BY DEF VInv, RequestsFit, Fits
  <1>5. /\ old = None => new # Gone /\ new.via = request[q].via
        /\ old # None =>
            /\ request[q].via = None
            /\ new # Gone => new.via = old.via /\ new.auth = old.auth
        /\ new # Gone => Vouched(new.via, new.auth, new.email, hosted, pending)
    <2>1. CASE old = None
      <3>1. /\ change # Gone
            /\ Vouched(request[q].via, change.auth, change.email, hosted, pending)
        BY <1>1, <1>4, <2>1 DEF ReadyFits
      <3>2. /\ new \in Mailbox /\ new.email = change.email
            /\ new.auth = change.auth /\ new.via = request[q].via
        BY <1>1, <2>1, <3>1, InsertedRow
      <3>3. new # Gone
        BY <3>2, ConstantsAssumption
      <3> HIDE DEF new, old, change
      <3>4. QED
        BY <2>1, <3>1, <3>2, <3>3
    <2>2. CASE old # None
      <3>1. /\ request[q].via = None
            /\ change # Gone =>
                /\ change.auth = None
                /\ change.email # None => old.auth = "oauth2"
        BY <1>1, <1>4, <2>2 DEF ReadyFits
      <3>2. Vouched(old.via, old.auth, old.email, hosted, pending)
        BY <1>1, <1>2, <2>2 DEF VInv, RowsVouched, Live, IsRow
      <3>3. CASE change = Gone
        <4>1. new = Gone
          BY <3>3 DEF NewRow
        <4> HIDE DEF new, old, change
        <4>2. QED
          BY <2>2, <3>1, <4>1
      <3>4. CASE change # Gone
        <4>1. new = Changed(old, change)
          BY <1>1, <2>2, <3>4 DEF NewRow
        <4> HIDE DEF new, old, change
        <4>2. /\ new.via = old.via /\ new.auth = old.auth
              /\ new.email = old.email \/ old.auth = "oauth2"
          BY <3>1, <3>4, <4>1 DEF Changed
        <4>3. QED
          BY <2>2, <3>1, <3>2, <4>2 DEF Vouched
      <3>5. QED
        BY <3>3, <3>4
    <2>3. QED
      BY <2>1, <2>2
  <1>6. new \in Mailbox \cup {Gone}
    BY <1>1, NewRowType
  <1>7. \A r \in Requests :
            r # q /\ Using(r) /\ request[r].on = m => old # None
    BY <1>1 DEF VInv, InsertsAlone, Using
  <1> HIDE DEF new, change
  <1>8. st \in Request
    BY <1>2, <1>6 DEF Request
  <1>9. Fits(st, hosted, mailbox, pending)
    BY <1>1, <1>5 DEF Fits, ReadyFits, FlushedFits
  <1>10. st.on = m /\ st.pc = "flushed"
    OBVIOUS
  <1> HIDE DEF st
  <1>11. QED
    BY <1>1, <1>7, <1>8, <1>9, <1>10, QuieterStep

\* A commit settles the verification together with the row it vouches for,
\* and no other request relied on the row it replaces.
LEMMA CommitVouched ==
    ASSUME IInv, VInv, NEW q \in Requests, Commit(q) PROVE VInv'
  <1> DEFINE m == request[q].on
             v == request[q].via
             row == request[q].row
             old == mailbox[m]
  <1>1. /\ request[q].pc = "flushed" /\ Using(q)
        /\ mailbox' = [mailbox EXCEPT ![m] = row]
        /\ pending' = IF v = None THEN pending
                      ELSE [pending EXCEPT ![v].status = "verified",
                                           ![v].mailbox = m]
        /\ Goto(q, Idle)
        /\ UNCHANGED hosted
    BY DEF Commit, Using
  <1>2. /\ m \in Mailboxes /\ v \in Verifications \cup {None}
        /\ row \in Mailbox \cup {Gone} /\ row # None
    BY <1>1, ConstantsAssumption DEF IInv, TypeOK, Request, Idle
  <1>3. /\ old # Gone
        /\ row # Gone => Vouched(row.via, row.auth, row.email, hosted, pending)
        /\ old = None => row # Gone /\ row.via = v
        /\ old # None =>
            /\ v = None
            /\ row # Gone => row.via = old.via /\ row.auth = old.auth
    BY <1>1 DEF VInv, RequestsFit, Fits, FlushedFits
  <1>4. \A n \in Mailboxes : mailbox'[n] = IF n = m THEN row ELSE mailbox[n]
    BY <1>1, <1>2 DEF IInv, TypeOK
  <1>5. \A r \in Requests : request'[r] = IF r = q THEN Idle ELSE request[r]
    BY <1>1 DEF Goto, IInv, TypeOK
  <1>6. /\ \A w \in Verifications : w # v => pending'[w] = pending[w]
        /\ v # None =>
            /\ pending[v] # None /\ pending'[v] # None
            /\ pending'[v].email = pending[v].email
            /\ pending'[v].status = "verified" /\ pending'[v].mailbox = m
    <2>1. CASE v = None
      BY <1>1, <2>1
    <2>2. CASE v # None
      <3> DEFINE done == [pending[v] EXCEPT !.status = "verified", !.mailbox = m]
      <3>1. v \in Verifications /\ pending[v] \in Pending
        BY <1>1, <1>2, <2>2 DEF IInv, TypeOK, CompletesStored
      <3>2. done \in Pending
        BY <1>2, <3>1 DEF Pending
      <3>3. done # None
        BY <3>2, ConstantsAssumption
      <3>4. /\ done.email = pending[v].email
            /\ done.status = "verified" /\ done.mailbox = m
        BY <3>1 DEF Pending
      <3>5. pending' = [pending EXCEPT ![v] = done]
        BY <1>1, <2>2, <3>1 DEF IInv, TypeOK
      <3>6. pending[v] # None
        BY <3>1, ConstantsAssumption
      <3> HIDE DEF done, m
      <3>7. QED
        BY <3>1, <3>3, <3>4, <3>5, <3>6 DEF IInv, TypeOK
    <2>3. QED
      BY <2>1, <2>2
  <1> HIDE DEF row, old, v, m
  <1>7. PendingStable
    BY <1>6, ConstantsAssumption DEF PendingStable
  <1>8. RequestsFit'
    <2> SUFFICES ASSUME NEW r \in Requests
                 PROVE  Fits(request'[r], hosted', mailbox', pending')
      BY DEF RequestsFit
    <2>1. CASE r = q \/ ~Using(r)
      <3>1. request'[r].pc \notin {"ready", "flushed"}
        BY <1>5, <2>1, PassiveStates DEF Using
      <3>2. QED
        BY <3>1, PassiveFits
    <2>2. CASE r # q /\ Using(r)
      <3> DEFINE call == request[r]
      <3>1. /\ request'[r] = call /\ call \in Request
            /\ Fits(call, hosted, mailbox, pending)
        BY <1>5, <2>2 DEF IInv, TypeOK, VInv, RequestsFit
      <3>2. call.on \in Mailboxes /\ call.via \in Verifications \cup {None}
        BY <2>2, <3>1, CallTypes DEF Using
      <3>3. call.on = m => call.pc = "ready" /\ old # None
        BY <1>1, <2>2 DEF VInv, InsertsAlone, IInv, Settled, FlushedApart,
                          Flushed, Using, m, old
      <3> HIDE DEF call
      <3>4. ReadyFits(call, hosted', mailbox', pending')
        <4>1. CASE call.on = m
          <5>1. ReadyFits(call, hosted, mailbox, pending)
            BY <3>1 DEF Fits
          <5>2. mailbox[call.on] = old /\ mailbox'[call.on] = row
            BY <1>2, <1>4, <4>1 DEF old
          <5>3. QED
            BY <1>2, <1>3, <3>3, <4>1, <5>1, <5>2 DEF ReadyFits
        <4>2. CASE call.on # m
          <5>1. mailbox'[call.on] = mailbox[call.on]
            BY <1>4, <3>2, <4>2
          <5>2. ReadyFits(call, hosted, mailbox, pending)
            BY <3>1 DEF Fits
          <5>3. QED
            BY <1>1, <1>7, <3>2, <5>1, <5>2, VouchedStable DEF ReadyFits
        <4>3. QED
          BY <4>1, <4>2
      <3>5. FlushedFits(call, hosted', mailbox', pending')
        <4> SUFFICES ASSUME call.pc = "flushed"
                     PROVE  FlushedFits(call, hosted', mailbox', pending')
          BY DEF FlushedFits
        <4>1. mailbox'[call.on] = mailbox[call.on]
          BY <1>4, <3>2, <3>3
        <4>2. call.row # Gone => call.row.via \in Verifications \cup {None}
          BY <3>1, CallTypes DEF Mailbox
        <4>3. FlushedFits(call, hosted, mailbox, pending)
          BY <3>1 DEF Fits
        <4>4. QED
          BY <1>1, <1>7, <4>1, <4>2, <4>3, VouchedStable DEF FlushedFits
      <3>6. QED
        BY <3>1, <3>4, <3>5 DEF Fits
    <2>3. QED
      BY <2>1, <2>2
  <1>9. InsertsAlone'
    <2> SUFFICES ASSUME NEW r \in Requests, NEW s \in Requests, r # s,
                        request'[r].pc \in {"ready", "flushed"},
                        request'[s].pc \in {"ready", "flushed"},
                        request'[r].on = request'[s].on
                 PROVE  mailbox'[request'[r].on] # None
      BY DEF InsertsAlone, Using
    <2>1. request'[r] = request[r] /\ request'[s] = request[s]
      BY <1>5, PassiveStates
    <2>2. mailbox[request[r].on] # None
      BY <2>1 DEF VInv, InsertsAlone, Using
    <2>3. request[r].on \in Mailboxes
      BY <2>1, CallTypes DEF IInv, TypeOK
    <2>4. QED
      BY <1>2, <1>4, <2>1, <2>2, <2>3
  <1>10. RowsVouched'
    <2> SUFFICES ASSUME NEW n \in Mailboxes, NEW r, r = mailbox'[n], IsRow(r)
                 PROVE  /\ Vouched(r.via, r.auth, r.email, hosted', pending')
                        /\ r.via # None => pending'[r.via].status = "verified"
      BY DEF RowsVouched, Live
    <2>1. ASSUME NEW k \in Mailboxes, IsRow(mailbox[k])
          PROVE  LET s == mailbox[k] IN
                 /\ s.via \in Verifications \cup {None}
                 /\ Vouched(s.via, s.auth, s.email, hosted, pending)
                 /\ s.via # None =>
                        pending[s.via] # None /\ pending[s.via].status = "verified"
      BY <2>1 DEF IInv, TypeOK, Mailbox, IsRow, VInv, RowsVouched, Live, Vouched
    <2>2. CASE n # m
      <3>1. r = mailbox[n]
        BY <1>4, <2>2
      <3>2. /\ r.via \in Verifications \cup {None}
            /\ Vouched(r.via, r.auth, r.email, hosted, pending)
            /\ r.via # None =>
                    pending[r.via] # None /\ pending[r.via].status = "verified"
        BY <2>1, <3>1
      <3>3. QED
        BY <1>1, <1>7, <3>2, VouchedStable DEF PendingStable
    <2>3. CASE n = m
      <3>1. r = row /\ r # Gone /\ r \in Mailbox
        BY <1>2, <1>4, <2>3 DEF IsRow
      <3>2. r.via \in Verifications \cup {None}
        BY <3>1 DEF Mailbox
      <3>3. Vouched(r.via, r.auth, r.email, hosted', pending')
        BY <1>1, <1>3, <1>7, <3>1, <3>2, VouchedStable
      <3>4. ASSUME r.via # None PROVE pending'[r.via].status = "verified"
        <4>1. CASE old = None
          BY <1>3, <1>6, <3>1, <3>4, <4>1
        <4>2. CASE old # None
          <5>1. r.via = old.via /\ IsRow(old)
            BY <1>3, <3>1, <4>2 DEF IsRow
          <5>2. pending[r.via] # None /\ pending[r.via].status = "verified"
            BY <1>2, <2>1, <3>4, <5>1 DEF old
          <5>3. QED
            BY <1>7, <3>2, <3>4, <5>2 DEF PendingStable
        <4>3. QED
          BY <4>1, <4>2
      <3>5. QED
        BY <3>3, <3>4
    <2>4. QED
      BY <2>2, <2>3
  <1>11. NamesCreated'
    <2> SUFFICES ASSUME NEW w \in Verifications, NEW n, n = pending'[w].mailbox,
                        pending'[w] # None, pending'[w].status = "verified"
                 PROVE  /\ n # None /\ mailbox'[n] # None
                        /\ mailbox'[n] = Gone \/ mailbox'[n].via = w
      BY DEF NamesCreated
    <2>1. CASE w = v
      <3>1. v # None
        BY <2>1, ConstantsAssumption
      <3>2. n = m /\ row # Gone /\ row.via = w
        BY <1>3, <1>6, <2>1, <3>1
      <3>3. QED
        BY <1>2, <1>4, <3>2, ConstantsAssumption
    <2>2. CASE w # v
      <3>1. pending'[w] = pending[w]
        BY <1>6, <2>2
      <3>2. /\ n # None /\ mailbox[n] # None
            /\ mailbox[n] = Gone \/ mailbox[n].via = w
        BY <3>1 DEF VInv, NamesCreated
      <3>3. n \in Mailboxes
        BY <3>1, <3>2 DEF IInv, TypeOK, Pending
      <3>4. n = m => mailbox'[n] = row /\ mailbox[n] = old
        BY <1>4, <3>3 DEF old
      <3>5. QED
        BY <1>2, <1>3, <1>4, <3>2, <3>3, <3>4
    <2>3. QED
      BY <2>1, <2>2
  <1>12. FirstKept'
    <2>1. mailbox'[m] # None
      BY <1>2, <1>4
    <2>2. QED
      BY <1>2, <2>1 DEF FirstKept, HadMailbox
  <1>13. QED
    BY <1>8, <1>9, <1>10, <1>11, <1>12 DEF VInv

\* A request that ends keeps the mailboxes vouched for.
LEMMA FinishVouched ==
    ASSUME IInv, VInv, NEW q \in Requests, Finish(q) PROVE VInv'
  <1>1. CASE FlushRefused(q) \/ Fail(q)
    <2>1. Goto(q, Idle) /\ UNCHANGED <<hosted, mailbox, pending>>
      BY <1>1 DEF FlushRefused, Fail
    <2>2. QED
      BY <2>1, PassiveStates, PassiveFits, QuieterStep
  <1>2. QED
    BY <1>1, FlushVouched, CommitVouched DEF Finish

\* A step that changes nothing.
LEMMA StutterVouched == IInv /\ VInv /\ UNCHANGED vars => VInv'
  BY DEF vars, VInv, RequestsFit, InsertsAlone, Using, RowsVouched, Live,
         NamesCreated, FirstKept, HadMailbox

\* At first there is nothing to vouch for.
LEMMA InitVInv == Init => VInv
  <1> SUFFICES ASSUME Init PROVE VInv
    OBVIOUS
  <1>1. RequestsFit
    BY PassiveStates, PassiveFits DEF Init, RequestsFit
  <1>2. InsertsAlone
    BY PassiveStates DEF Init, InsertsAlone, Using
  <1>3. RowsVouched /\ NamesCreated
    BY DEF Init, RowsVouched, NamesCreated, Live, IsRow
  <1>4. FirstKept
    BY PassiveStates DEF Init, FirstKept
  <1>5. QED
    BY <1>1, <1>2, <1>3, <1>4 DEF VInv

\* Every step keeps the mailboxes vouched for.
LEMMA StepVInv == IInv /\ VInv /\ [Next]_vars => VInv'
  BY PrepareVouched, VerifyVouched, FinishVouched, StutterVouched
  DEF Next, Refuse

\* VInv holds in every reachable state.
THEOREM VouchedAlways == Spec => []VInv
  BY InitVInv, StepVInv, Invariance, PTL DEF Spec

\* In hosted mode an app-password mailbox has a settled verification of its
\* address.
THEOREM HostedVerified == Spec => []HostedMailboxVerified
  <1>1. VInv => HostedMailboxVerified
    BY DEF VInv, RowsVouched, Vouched, HostedMailboxVerified
  <1>2. QED
    BY <1>1, VouchedAlways, PTL

-----------------------------------------------------------------------------
(* One request at a time.                                                   *)
(*                                                                          *)
(* For a commit to be a step of MailboxRegistry the flushed row must differ *)
(* from the committed one in what the request is about, although it was     *)
(* computed earlier.  A statement writes the name or the address of a row,  *)
(* never both, and nobody else can change the row before the commit         *)
(* (FlushedApart).                                                          *)

\* A statement that completes a verification inserts its name; one that changes
\* a row does not write both its name and its address.
ReadyNarrow(call, rows, stored) ==
    call.pc = "ready" =>
        /\ rows[call.on] = None /\ call.via # None =>
            call.change.name = stored[call.via].name
        /\ rows[call.on] # None /\ call.change # Gone =>
            call.change.name = None \/ call.change.email = None

\* The flushed row keeps the other of the two.
FlushedNarrow(call, rows, stored) ==
    call.pc = "flushed" =>
        /\ rows[call.on] = None /\ call.via # None =>
            call.row.name = stored[call.via].name
        /\ rows[call.on] # None /\ call.row # Gone =>
            /\ call.row.name = rows[call.on].name \/ call.row.email = rows[call.on].email
            /\ call.row.email # rows[call.on].email => rows[call.on].auth = "oauth2"

Narrow(call, rows, stored) ==
    ReadyNarrow(call, rows, stored) /\ FlushedNarrow(call, rows, stored)

RequestsNarrow == \A q \in Requests : Narrow(request[q], mailbox, pending)

\* The verification of a mailbox names it.
MailboxNamed ==
    \A m \in Mailboxes :
        Live(m) /\ mailbox[m].via # None => pending[mailbox[m].via].mailbox = m

StartingHosted == \A q \in Requests : request[q].pc = "starting" => hosted

RInv == RequestsNarrow /\ MailboxNamed /\ StartingHosted

\* Stored verifications keep their name.
NamesKept ==
    \A v \in Verifications : pending[v] # None => pending'[v].name = pending[v].name

\* A request that is neither ready nor flushed writes nothing.
LEMMA PassiveNarrow ==
    ASSUME NEW call, call.pc \notin {"ready", "flushed"}, NEW rows, NEW stored
    PROVE  Narrow(call, rows, stored)
  BY DEF Narrow, ReadyNarrow, FlushedNarrow

\* A request stays narrow while its row and the names of verifications stay.
LEMMA NarrowStable ==
    ASSUME NamesKept, NEW call \in Request, Narrow(call, mailbox, pending), NEW rows,
           call.pc \in {"ready", "flushed"} =>
                /\ call.via # None => pending[call.via] # None
                /\ rows[call.on] = mailbox[call.on]
    PROVE  Narrow(call, rows, pending')
  <1>1. CASE call.pc \notin {"ready", "flushed"}
    BY <1>1, PassiveNarrow
  <1>2. CASE call.pc \in {"ready", "flushed"}
    <2>1. call.via # None => pending'[call.via].name = pending[call.via].name
      BY <1>2, CallTypes DEF NamesKept
    <2>2. rows[call.on] = mailbox[call.on]
      BY <1>2
    <2>3. ReadyNarrow(call, rows, pending')
      BY <2>1, <2>2 DEF Narrow, ReadyNarrow
    <2>4. FlushedNarrow(call, rows, pending')
      BY <2>1, <2>2 DEF Narrow, FlushedNarrow
    <2>5. QED
      BY <2>3, <2>4 DEF Narrow
  <1>3. QED
    BY <1>1, <1>2

\* A step of one request that leaves the committed rows alone.
LEMMA QuietRegistry ==
    ASSUME IInv, VInv, RInv, NEW q \in Requests, NEW st \in Request, Goto(q, st),
           UNCHANGED <<hosted, mailbox>>, Narrow(st, mailbox, pending'),
           st.pc = "starting" => hosted,
           \A v \in Verifications : pending[v] # None =>
                pending'[v].name = pending[v].name
                /\ pending'[v].mailbox = pending[v].mailbox
    PROVE  RInv'
  <1>1. \A r \in Requests : request'[r] = IF r = q THEN st ELSE request[r]
    BY DEF Goto, IInv, TypeOK
  <1>2. RequestsNarrow'
    <2> SUFFICES ASSUME NEW r \in Requests
                 PROVE  Narrow(request'[r], mailbox', pending')
      BY DEF RequestsNarrow
    <2>1. request[r] \in Request /\ Narrow(request[r], mailbox, pending)
      BY DEF IInv, TypeOK, RInv, RequestsNarrow
    <2>2. request[r].pc \in {"ready", "flushed"} /\ request[r].via # None =>
                pending[request[r].via] # None
      BY DEF IInv, CompletesStored
    <2>3. Narrow(request[r], mailbox, pending')
      BY <2>1, <2>2, NarrowStable DEF NamesKept
    <2>4. QED
      BY <1>1, <2>3
  <1>3. MailboxNamed'
    <2> SUFFICES ASSUME NEW m \in Mailboxes, Live(m), mailbox[m].via # None
                 PROVE  pending'[mailbox[m].via].mailbox = m
      BY DEF MailboxNamed, Live
    <2>1. mailbox[m].via \in Verifications
      BY DEF IInv, TypeOK, Mailbox, Live, IsRow
    <2>2. pending[mailbox[m].via] # None
      BY DEF VInv, RowsVouched, Vouched
    <2>3. pending[mailbox[m].via].mailbox = m
      BY DEF RInv, MailboxNamed
    <2>4. QED
      BY <2>1, <2>2, <2>3
  <1>4. StartingHosted'
    BY <1>1 DEF RInv, StartingHosted
  <1>5. QED
    BY <1>2, <1>3, <1>4 DEF RInv

\* The same, when no verification changes either.
LEMMA QuieterRegistry ==
    ASSUME IInv, VInv, RInv, NEW q \in Requests, NEW st \in Request, Goto(q, st),
           UNCHANGED <<hosted, mailbox, pending>>, Narrow(st, mailbox, pending),
           st.pc = "starting" => hosted
    PROVE  RInv'
  BY QuietRegistry

\* Checking prepares a statement about one thing.
LEMMA PrepareNarrow ==
    ASSUME IInv, VInv, RInv, NEW q \in Requests, Prepare(q) PROVE RInv'
  <1>1. ASSUME NEW m \in Mailboxes, NEW change \in Columns \cup {Gone},
               mailbox[m] # None /\ change # Gone =>
                    change.name = None \/ change.email = None,
               Goto(q, [pc |-> "ready", on |-> m, change |-> change, via |-> None]),
               UNCHANGED <<hosted, mailbox, pending>>
        PROVE  RInv'
    <2> DEFINE st == [pc |-> "ready", on |-> m, change |-> change, via |-> None]
    <2>1. st \in Request
      BY DEF Request
    <2>2. Narrow(st, mailbox, pending) /\ st.pc = "ready" /\ Goto(q, st)
      BY <1>1 DEF Narrow, ReadyNarrow, FlushedNarrow
    <2> HIDE DEF st
    <2>3. QED
      BY <1>1, <2>1, <2>2, QuieterRegistry
  <1> DEFINE Full(name, email, auth) == [name |-> name, email |-> email, auth |-> auth]
  <1>2. ASSUME NEW m \in Mailboxes, NEW name \in Names, NEW email \in Emails,
               PrepareCreate(q, m, name, email) \/ PrepareConnect(q, m, name, email)
        PROVE  RInv'
    <2>1. PICK auth \in {"app_password", "oauth2"} :
            /\ PrepareInsert(q, m, name, email, auth, None)
            /\ UNCHANGED <<hosted, mailbox, pending>>
      BY <1>2 DEF PrepareCreate, PrepareConnect
    <2>2. Full(name, email, auth) \in Columns
      BY DEF Columns
    <2>3. /\ mailbox[m] = None
          /\ Goto(q, [pc |-> "ready", on |-> m, via |-> None,
                      change |-> Full(name, email, auth)])
      BY <2>1 DEF PrepareInsert, FreshKey
    <2> HIDE DEF Full
    <2>4. QED
      BY <1>1, <2>1, <2>2, <2>3
  <1>3. ASSUME NEW m \in Mailboxes, NEW email \in Emails,
               PrepareReconnect(q, m, email)
        PROVE  RInv'
    <2> DEFINE written == IF email = mailbox[m].email THEN None ELSE email
    <2>1. Full(None, written, None) \in Columns /\ Full(None, written, None).name = None
      BY DEF Columns
    <2>2. /\ Goto(q, [pc |-> "ready", on |-> m, via |-> None,
                      change |-> Full(None, written, None)])
          /\ UNCHANGED <<hosted, mailbox, pending>>
      BY <1>3 DEF PrepareReconnect
    <2> HIDE DEF Full, written
    <2>3. QED
      BY <1>1, <2>1, <2>2
  <1>4. ASSUME NEW m \in Mailboxes, NEW name \in Names,
               PrepareRename(q, m, name)
        PROVE  RInv'
    <2>1. Full(name, None, None) \in Columns /\ Full(name, None, None).email = None
      BY DEF Columns
    <2>2. /\ Goto(q, [pc |-> "ready", on |-> m, via |-> None,
                      change |-> Full(name, None, None)])
          /\ UNCHANGED <<hosted, mailbox, pending>>
      BY <1>4 DEF PrepareRename
    <2> HIDE DEF Full
    <2>3. QED
      BY <1>1, <2>1, <2>2
  <1>5. ASSUME NEW m \in Mailboxes, PrepareDelete(q, m) PROVE RInv'
    BY <1>1, <1>5 DEF PrepareDelete
  <1>6. QED
    BY <1>2, <1>3, <1>4, <1>5 DEF Prepare

\* A completion inserts the name of its verification.
LEMMA VerifyNarrow ==
    ASSUME IInv, VInv, RInv, NEW q \in Requests, Verify(q) PROVE RInv'
  <1>1. ASSUME NEW name \in Names, NEW email \in Emails,
               BeginVerification(q, name, email)
        PROVE  RInv'
    <2> DEFINE st == [pc |-> "starting", name |-> name, email |-> email]
    <2>1. st \in Request /\ st.pc = "starting" /\ Goto(q, st)
          /\ hosted /\ UNCHANGED <<hosted, mailbox, pending>>
      BY <1>1, PassiveStates DEF BeginVerification
    <2> HIDE DEF st
    <2>2. QED
      BY <2>1, PassiveNarrow, QuieterRegistry
  <1>2. ASSUME NEW v \in Verifications, StoreVerification(q, v) PROVE RInv'
    <2>1. /\ Goto(q, Idle) /\ UNCHANGED <<hosted, mailbox>>
          /\ \A w \in Verifications : pending[w] # None => pending'[w] = pending[w]
      BY <1>2 DEF StoreVerification, IInv, TypeOK
    <2>2. QED
      BY <2>1, PassiveStates, PassiveNarrow, QuietRegistry
  <1>3. ASSUME NEW v \in Verifications, NEW m \in Mailboxes,
               PrepareComplete(q, v, m)
        PROVE  RInv'
    <2> DEFINE change == [name |-> pending[v].name, email |-> pending[v].email,
                          auth |-> "app_password"]
               st == [pc |-> "ready", on |-> m, change |-> change, via |-> v]
    <2>1. pending[v] \in Pending
      BY <1>3 DEF PrepareComplete, Verifying, IInv, TypeOK
    <2>2. change \in Columns /\ change.name = pending[v].name
      BY <2>1 DEF Pending, Columns
    <2>3. /\ mailbox[m] = None /\ Goto(q, st)
          /\ UNCHANGED <<hosted, mailbox, pending>>
      BY <1>3 DEF PrepareComplete, PrepareInsert, FreshKey
    <2> HIDE DEF change
    <2>4. st \in Request
      BY <2>2 DEF Request
    <2>5. Narrow(st, mailbox, pending) /\ st.pc = "ready"
      BY <2>2, <2>3 DEF Narrow, ReadyNarrow, FlushedNarrow
    <2> HIDE DEF st
    <2>6. QED
      BY <2>3, <2>4, <2>5, QuieterRegistry
  <1>4. ASSUME NEW v \in Verifications, WrongCode(q, v) PROVE RInv'
    <2> DEFINE attempts == pending[v].attempts + 1
               status == IF attempts >= AttemptLimit THEN "failed" ELSE "verifying"
               st == [pc |-> "refusing", via |-> v, attempts |-> attempts,
                      status |-> status]
    <2>1. attempts \in Nat /\ status \in {"verifying", "failed"} /\ Goto(q, st)
      BY <1>4 DEF WrongCode, Verifying, IInv, TypeOK, Pending
    <2> HIDE DEF attempts, status
    <2>2. st \in Request /\ st.pc = "refusing" /\ Goto(q, st)
      BY <2>1, PassiveStates
    <2>3. UNCHANGED <<hosted, mailbox, pending>>
      BY <1>4 DEF WrongCode
    <2> HIDE DEF st
    <2>4. QED
      BY <2>2, <2>3, PassiveNarrow, QuieterRegistry
  <1>5. CASE RefuseCode(q)
    BY <1>5, PassiveStates, PassiveNarrow, QuieterRegistry DEF RefuseCode
  <1>6. QED
    BY <1>1, <1>2, <1>3, <1>4, <1>5 DEF Verify

\* The statement computes its row from the one it will replace.
LEMMA FlushNarrow ==
    ASSUME IInv, VInv, RInv, NEW q \in Requests, Flush(q) PROVE RInv'
  <1> DEFINE m == request[q].on
             old == mailbox[m]
             change == request[q].change
             new == NewRow(q)
             st == [pc |-> "flushed", on |-> m, row |-> new, via |-> request[q].via]
  <1>1. /\ request[q].pc = "ready" /\ old # Gone
        /\ Goto(q, st) /\ UNCHANGED <<hosted, mailbox, pending>>
    BY DEF Flush
  <1>2. /\ m \in Mailboxes /\ request[q].via \in Verifications \cup {None}
    BY <1>1 DEF IInv, TypeOK, Request, Idle
  <1>3. new \in Mailbox \cup {Gone}
    BY <1>1, NewRowType
  <1>4. /\ ReadyNarrow(request[q], mailbox, pending)
        /\ ReadyFits(request[q], hosted, mailbox, pending)
    BY DEF RInv, RequestsNarrow, Narrow, VInv, RequestsFit, Fits
  <1>5. ASSUME old = None, request[q].via # None
        PROVE  new.name = pending[request[q].via].name
    <2>1. change # Gone /\ change.name = pending[request[q].via].name
      BY <1>1, <1>4, <1>5 DEF ReadyFits, ReadyNarrow
    <2>2. new.name = change.name
      BY <1>1, <1>5, <2>1, ConstantsAssumption DEF NewRow
    <2>3. QED
      BY <2>1, <2>2
  <1>6. ASSUME old # None, new # Gone
        PROVE  /\ new.name = old.name \/ new.email = old.email
               /\ new.email # old.email => old.auth = "oauth2"
    <2>1. change # Gone /\ new = Changed(old, change)
      BY <1>1, <1>6 DEF NewRow
    <2>2. /\ change.name = None \/ change.email = None
          /\ change.email # None => old.auth = "oauth2"
      BY <1>1, <1>4, <1>6, <2>1 DEF ReadyFits, ReadyNarrow
    <2> HIDE DEF new, old, change
    <2>3. QED
      BY <2>1, <2>2 DEF Changed
  <1> HIDE DEF new, change
  <1>7. st \in Request
    BY <1>2, <1>3 DEF Request
  <1>8. Narrow(st, mailbox, pending) /\ st.pc = "flushed"
    BY <1>5, <1>6 DEF Narrow, ReadyNarrow, FlushedNarrow
  <1> HIDE DEF st
  <1>9. QED
    BY <1>1, <1>7, <1>8, QuieterRegistry

\* A flushed row that shares the verification of a committed one clashes with it.
LEMMA VerificationOfOne ==
    ASSUME IInv, VInv, NEW q \in Requests, Flushed(q), NEW m \in Mailboxes,
           m # request[q].on, IsRow(request[q].row), Live(m),
           mailbox[m].via # None
    PROVE  mailbox[m].via # request[q].row.via
  <1> SUFFICES ASSUME mailbox[m].via = request[q].row.via PROVE FALSE
    OBVIOUS
  <1>1. mailbox[m].email = pending[mailbox[m].via].email
    BY DEF VInv, RowsVouched, Vouched
  <1>2. request[q].row.email = pending[mailbox[m].via].email
    BY DEF VInv, RequestsFit, Fits, FlushedFits, Vouched, Flushed, IsRow
  <1>3. Clash(request[q].row, mailbox[m])
    BY <1>1, <1>2 DEF Clash, Live
  <1>4. QED
    BY <1>3 DEF IInv, Settled, FlushedApart

\* What a commit of row at m writes, and what is known of it.
Committed(m, row, v) ==
    /\ m \in Mailboxes /\ v \in Verifications \cup {None}
    /\ row \in Mailbox \cup {Gone}
    /\ mailbox[m] \in Mailbox \cup {None}
    /\ mailbox' = [mailbox EXCEPT ![m] = row]
    /\ v = None => UNCHANGED pending
    /\ v # None =>
        /\ v \in Verifications /\ pending[v] \in Pending
        /\ pending' = [pending EXCEPT ![v].status = "verified", ![v].mailbox = m]
    /\ row # Gone => Vouched(row.via, row.auth, row.email, hosted, pending)
    /\ mailbox[m] = None => row # Gone /\ row.via = v
    /\ mailbox[m] = None /\ v # None => row.name = pending[v].name
    /\ mailbox[m] # None => v = None
    /\ mailbox[m] # None /\ row # Gone =>
        /\ row.via = mailbox[m].via /\ row.auth = mailbox[m].auth
        /\ row.name = mailbox[m].name \/ row.email = mailbox[m].email
        /\ row.email # mailbox[m].email => mailbox[m].auth = "oauth2"
    /\ \A n \in Mailboxes : n # m => ~Clash(row, mailbox[n])
    /\ UNCHANGED hosted

LEMMA CommitEffect ==
    ASSUME IInv, VInv, RInv, NEW q \in Requests, Commit(q)
    PROVE  Committed(request[q].on, request[q].row, request[q].via)
  <1> DEFINE m == request[q].on
             row == request[q].row
             v == request[q].via
  <1>1. /\ Flushed(q) /\ request[q].pc = "flushed" /\ UNCHANGED hosted
        /\ mailbox' = [mailbox EXCEPT ![m] = row]
        /\ pending' = IF v = None THEN pending
                      ELSE [pending EXCEPT ![v].status = "verified",
                                           ![v].mailbox = m]
    BY DEF Commit, Flushed
  <1>2. request[q] \in Request
    BY DEF IInv, TypeOK
  <1>3. /\ m \in Mailboxes /\ v \in Verifications \cup {None}
        /\ row \in Mailbox \cup {Gone}
    BY <1>1, <1>2, CallTypes
  <1>4. v # None => v \in Verifications /\ pending[v] \in Pending
    BY <1>1, <1>3 DEF IInv, TypeOK, CompletesStored
  <1>5. FlushedFits(request[q], hosted, mailbox, pending)
    BY DEF VInv, RequestsFit, Fits
  <1>6. FlushedNarrow(request[q], mailbox, pending)
    BY DEF RInv, RequestsNarrow, Narrow
  <1>7. mailbox[m] \in Mailbox \cup {None}
    BY <1>1, <1>3, <1>5 DEF FlushedFits, IInv, TypeOK
  <1>8. \A n \in Mailboxes : n # m => ~Clash(row, mailbox[n])
    BY <1>1 DEF IInv, Settled, FlushedApart
  <1>9. QED
    BY <1>1, <1>3, <1>4, <1>5, <1>6, <1>7, <1>8 DEF FlushedFits, FlushedNarrow, Committed

\* A commit leaves what the other requests are about alone.
LEMMA CommitNarrow ==
    ASSUME IInv, VInv, RInv, NEW q \in Requests, Commit(q) PROVE RInv'
  <1> DEFINE m == request[q].on
             row == request[q].row
             v == request[q].via
             old == mailbox[m]
  <1>1. /\ Flushed(q) /\ Using(q) /\ Goto(q, Idle)
    BY DEF Commit, Flushed, Using
  <1>c. Committed(m, row, v)
    BY CommitEffect
  <1>2. /\ m \in Mailboxes /\ row # None /\ UNCHANGED hosted
        /\ mailbox' = [mailbox EXCEPT ![m] = row]
    BY <1>c, ConstantsAssumption DEF Committed
  <1>3. \A n \in Mailboxes : mailbox'[n] = IF n = m THEN row ELSE mailbox[n]
    BY <1>2 DEF IInv, TypeOK
  <1>4. \A r \in Requests : request'[r] = IF r = q THEN Idle ELSE request[r]
    BY <1>1 DEF Goto, IInv, TypeOK
  <1>5. /\ \A w \in Verifications : w # v => pending'[w] = pending[w]
        /\ v # None => pending'[v].name = pending[v].name /\ pending'[v].mailbox = m
    <2>1. CASE v = None
      BY <1>c, <2>1 DEF Committed
    <2>2. CASE v # None
      <3> DEFINE done == [pending[v] EXCEPT !.status = "verified", !.mailbox = m]
      <3>1. v \in Verifications /\ pending[v] \in Pending
        BY <1>c, <2>2 DEF Committed
      <3>2. pending' = [pending EXCEPT ![v] = done]
        BY <1>c, <2>2, <3>1 DEF Committed, IInv, TypeOK
      <3>3. done.name = pending[v].name /\ done.mailbox = m
        BY <3>1 DEF Pending
      <3> HIDE DEF done, m, v
      <3>4. QED
        BY <3>1, <3>2, <3>3 DEF IInv, TypeOK
    <2>3. QED
      BY <2>1, <2>2
  <1>6. NamesKept
    <2> HIDE DEF v, m, row, old
    <2>1. QED
      BY <1>5, ConstantsAssumption DEF NamesKept
  <1>7. /\ row # Gone /\ old = None => row.via = v
        /\ old # None => v = None
        /\ old # None /\ row # Gone => row.via = old.via /\ IsRow(old)
    BY <1>c, ConstantsAssumption DEF Committed, IsRow
  <1>8. RequestsNarrow'
    <2> SUFFICES ASSUME NEW r \in Requests
                 PROVE  Narrow(request'[r], mailbox', pending')
      BY DEF RequestsNarrow
    <2>1. CASE r = q \/ ~Using(r)
      <3>1. request'[r].pc \notin {"ready", "flushed"}
        BY <1>4, <2>1, PassiveStates DEF Using
      <3>2. QED
        BY <3>1, PassiveNarrow
    <2>2. CASE r # q /\ Using(r)
      <3> DEFINE call == request[r]
      <3>1. /\ request'[r] = call /\ call \in Request
            /\ Narrow(call, mailbox, pending)
            /\ call.via # None => pending[call.via] # None
        BY <1>4, <2>2 DEF IInv, TypeOK, CompletesStored, RInv, RequestsNarrow, Using
      <3>2. call.on \in Mailboxes
        BY <2>2, <3>1, CallTypes DEF Using
      <3>3. call.on = m => call.pc = "ready" /\ old # None
        BY <1>1, <2>2 DEF VInv, InsertsAlone, IInv, Settled, FlushedApart,
                          Flushed, Using
      <3> HIDE DEF call, m, row, old, v
      <3>4. CASE call.on # m
        <4>1. mailbox'[call.on] = mailbox[call.on]
          BY <1>3, <3>2, <3>4
        <4>2. QED
          BY <1>6, <3>1, <4>1, NarrowStable
      <3>5. CASE call.on = m
        <4>1. mailbox[call.on] # None /\ mailbox'[call.on] # None
          BY <1>2, <1>3, <3>2, <3>3, <3>5 DEF old
        <4>2. QED
          BY <3>1, <3>3, <3>5, <4>1 DEF Narrow, ReadyNarrow, FlushedNarrow
      <3>6. QED
        BY <3>4, <3>5
    <2>3. QED
      BY <2>1, <2>2
  <1>9. MailboxNamed'
    <2> SUFFICES ASSUME NEW n \in Mailboxes, IsRow(mailbox'[n]),
                        mailbox'[n].via # None
                 PROVE  pending'[mailbox'[n].via].mailbox = n
      BY DEF MailboxNamed, Live
    <2>1. ASSUME NEW k \in Mailboxes, IsRow(mailbox[k]), mailbox[k].via # None
          PROVE  /\ mailbox[k].via \in Verifications
                 /\ pending[mailbox[k].via].mailbox = k
      BY <2>1 DEF IInv, TypeOK, Mailbox, IsRow, RInv, MailboxNamed, Live
    <2>2. CASE n # m
      <3>1. mailbox'[n] = mailbox[n]
        BY <1>3, <2>2
      <3>2. mailbox[n].via # v
        <4>1. CASE v = None
          BY <3>1, <4>1
        <4>2. CASE v # None
          <5>1. IsRow(row) /\ row.via = v
            BY <1>2, <1>7, <1>c, <4>2 DEF IsRow, Committed
          <5>2. QED
            BY <1>1, <2>2, <3>1, <5>1, VerificationOfOne DEF Live
        <4>3. QED
          BY <4>1, <4>2
      <3> HIDE DEF m, row, v, old
      <3>3. QED
        BY <1>5, <2>1, <3>1, <3>2
    <2>3. CASE n = m
      <3>1. mailbox'[n] = row /\ row # Gone
        BY <1>3, <2>3 DEF IsRow
      <3>2. CASE old = None
        BY <1>5, <1>7, <2>3, <3>1, <3>2
      <3>3. CASE old # None
        <4>1. v = None /\ row.via = old.via /\ IsRow(old)
          BY <1>7, <3>1, <3>3
        <4>2. UNCHANGED pending
          BY <1>c, <4>1 DEF Committed
        <4> HIDE DEF row, v
        <4>3. QED
          BY <1>2, <2>1, <2>3, <3>1, <4>1, <4>2
      <3>4. QED
        BY <3>2, <3>3
    <2>4. QED
      BY <2>2, <2>3
  <1>10. StartingHosted'
    BY <1>2, <1>4, PassiveStates DEF RInv, StartingHosted
  <1>11. QED
    BY <1>8, <1>9, <1>10 DEF RInv

LEMMA InitRInv == Init => RInv
  <1> SUFFICES ASSUME Init PROVE RInv
    OBVIOUS
  <1>1. RequestsNarrow /\ StartingHosted
    BY PassiveStates, PassiveNarrow DEF Init, RequestsNarrow, StartingHosted
  <1>2. MailboxNamed
    BY DEF Init, MailboxNamed, Live, IsRow
  <1>3. QED
    BY <1>1, <1>2 DEF RInv

LEMMA StepRInv == IInv /\ VInv /\ RInv /\ [Next]_vars => RInv'
  <1> SUFFICES ASSUME IInv, VInv, RInv, [Next]_vars PROVE RInv'
    OBVIOUS
  <1>1. CASE UNCHANGED vars
    BY <1>1 DEF vars, RInv, RequestsNarrow, MailboxNamed, Live, StartingHosted
  <1>2. ASSUME NEW q \in Requests, FlushRefused(q) \/ Fail(q) PROVE RInv'
    BY <1>2, PassiveStates, PassiveNarrow, QuieterRegistry DEF FlushRefused, Fail
  <1>3. QED
    BY <1>1, <1>2, PrepareNarrow, VerifyNarrow, FlushNarrow, CommitNarrow
    DEF Next, Refuse, Finish

LEMMA NarrowAlways == Spec => []RInv
  BY InitRInv, StepRInv, Invariance, VouchedAlways, PTL DEF Spec

-----------------------------------------------------------------------------
(* The steps of the registry.                                               *)

\* The registry's own names for what is free.
LEMMA RegistryFree ==
    ASSUME NEW m \in Mailboxes, NEW row, IsRow(row),
           \A n \in Mailboxes : n # m => ~Clash(row, mailbox[n])
    PROVE  Registry!NameFree(row.name, m) /\ Registry!EmailFree(row.email, m)
  BY DEF Clash, IsRow, Registry!NameFree, Registry!EmailFree, Registry!Live

\* A commit takes effect as if its request had come and gone at that moment.
LEMMA CommitRegistry ==
    ASSUME IInv, VInv, RInv, NEW q \in Requests, Commit(q)
    PROVE  [Registry!Next]_(Registry!vars)
  <1> DEFINE m == request[q].on
             row == request[q].row
             v == request[q].via
             old == mailbox[m]
  <1>1. Committed(m, row, v)
    BY CommitEffect
  <1>2. /\ m \in Mailboxes /\ row \in Mailbox \cup {Gone} /\ old \in Mailbox \cup {None}
        /\ mailbox' = [mailbox EXCEPT ![m] = row] /\ UNCHANGED hosted
    BY <1>1 DEF Committed
  <1>3. row # Gone => IsRow(row)
    BY <1>2, ConstantsAssumption DEF IsRow
  <1>4. row # Gone => Registry!NameFree(row.name, m) /\ Registry!EmailFree(row.email, m)
    BY <1>1, <1>2, <1>3, RegistryFree DEF Committed
  <1>5. old # None => Registry!Live(m)
    BY <1>2, ConstantsAssumption DEF Registry!Live
  <1>6. row # Gone =>
            /\ row.name \in Names /\ row.email \in Emails
            /\ row.auth \in {"oauth2", "app_password"}
            /\ row = [name |-> row.name, email |-> row.email,
                      auth |-> row.auth, via |-> row.via]
    BY <1>2 DEF Mailbox
  <1>7. CASE old = None /\ v = None
    <2>1. /\ row # Gone /\ row.via = None /\ UNCHANGED pending
          /\ Vouched(row.via, row.auth, row.email, hosted, pending)
      BY <1>1, <1>7 DEF Committed
    <2>2. row.auth = "app_password" => ~hosted
      BY <2>1 DEF Vouched
    <2>3. Registry!Connect(m, row.name, row.email, row.auth)
      BY <1>2, <1>4, <1>6, <1>7, <2>1, <2>2 DEF Registry!Connect, Registry!Insert
    <2>4. QED
      BY <1>2, <1>6, <2>1, <2>3 DEF Registry!Next
  <1>8. CASE old = None /\ v # None
    <2>1. /\ row # Gone /\ row.via = v /\ row.name = pending[v].name
          /\ v \in Verifications /\ pending[v] \in Pending
          /\ pending' = [pending EXCEPT ![v].status = "verified", ![v].mailbox = m]
          /\ Vouched(row.via, row.auth, row.email, hosted, pending)
      BY <1>1, <1>8 DEF Committed
    <2>2. pending[v] # None /\ row.email = pending[v].email /\ row.auth = "app_password"
      BY <1>8, <2>1 DEF Vouched
    <2>3. ASSUME pending[v].status = "verified"
          PROVE  mailbox[pending[v].mailbox] = Gone
      <3> DEFINE n == pending[v].mailbox
      <3>1. n # None /\ mailbox[n] # None /\ (mailbox[n] = Gone \/ mailbox[n].via = v)
        BY <2>1, <2>2, <2>3 DEF VInv, NamesCreated
      <3>2. n \in Mailboxes
        BY <2>1, <3>1 DEF Pending
      <3>3. SUFFICES ASSUME mailbox[n] # Gone PROVE FALSE
        OBVIOUS
      <3>4. Live(n) /\ n # m /\ mailbox[n].via = v
        BY <1>8, <3>1, <3>3 DEF Live, IsRow
      <3>5. Flushed(q)
        BY DEF Commit, Flushed
      <3> HIDE DEF n
      <3>6. QED
        BY <1>3, <1>8, <2>1, <3>2, <3>4, <3>5, VerificationOfOne
    <2>4. Registry!Complete(v, m)
      BY <1>2, <1>4, <1>6, <1>8, <2>1, <2>2, <2>3
      DEF Registry!Complete, Registry!Insert
    <2>5. QED
      BY <1>2, <2>1, <2>4 DEF Registry!Next
  <1>9. CASE old # None
    <2>1. /\ UNCHANGED pending
          /\ row # Gone =>
                /\ row.via = old.via /\ row.auth = old.auth
                /\ row.name = old.name \/ row.email = old.email
                /\ row.email # old.email => old.auth = "oauth2"
      BY <1>1, <1>9 DEF Committed
    <2>2. CASE row = Gone
      BY <1>2, <1>5, <1>9, <2>1, <2>2 DEF Registry!Delete, Registry!Next
    <2>3. ASSUME row # Gone
          PROVE  row = [old EXCEPT !.name = row.name, !.email = row.email]
      <3>1. old \in Mailbox /\ row \in Mailbox
        BY <1>2, <1>9, <2>3
      <3> HIDE DEF old, row
      <3>2. QED
        BY <2>1, <2>3, <3>1 DEF Mailbox
    <2>4. CASE row # Gone /\ row.email = old.email
      <3>1. row = [old EXCEPT !.name = row.name]
        <4>1. old \in Mailbox
          BY <1>2, <1>9
        <4> HIDE DEF old, row
        <4>2. QED
          BY <2>3, <2>4, <4>1 DEF Mailbox
      <3>2. mailbox' = [mailbox EXCEPT ![m].name = row.name]
        BY <1>2, <3>1
      <3>3. Registry!Rename(m, row.name)
        BY <1>2, <1>4, <1>5, <1>9, <2>1, <2>4, <3>2 DEF Registry!Rename
      <3>4. QED
        BY <1>2, <1>6, <2>4, <3>3 DEF Registry!Next
    <2>5. CASE row # Gone /\ row.email # old.email
      <3>1. row = [old EXCEPT !.email = row.email] /\ old.auth = "oauth2"
        <4>1. old \in Mailbox
          BY <1>2, <1>9
        <4> HIDE DEF old, row
        <4>2. QED
          BY <2>1, <2>3, <2>5, <4>1 DEF Mailbox
      <3>2. mailbox' = [mailbox EXCEPT ![m].email = row.email]
        BY <1>2, <3>1
      <3>3. Registry!Reconnect(m, row.email)
        BY <1>2, <1>4, <1>5, <1>9, <2>1, <2>5, <3>1, <3>2 DEF Registry!Reconnect
      <3>4. QED
        BY <1>2, <1>6, <2>5, <3>3 DEF Registry!Next
    <2>6. QED
      BY <2>2, <2>4, <2>5
  <1>10. QED
    BY <1>7, <1>8, <1>9

\* A verification is stored for what is free when it is stored.
LEMMA StoreRegistry ==
    ASSUME IInv, VInv, RInv, NEW q \in Requests, NEW v \in Verifications,
           StoreVerification(q, v)
    PROVE  [Registry!Next]_(Registry!vars)
  <1> DEFINE name == request[q].name
             email == request[q].email
  <1>1. /\ request[q].pc = "starting" /\ pending[v] = None
        /\ UNCHANGED <<hosted, mailbox>>
    BY DEF StoreVerification
  <1>2. name \in Names /\ email \in Emails
    BY <1>1 DEF IInv, TypeOK, Request, Idle
  <1>3. hosted /\ (email # SignupEmail => \E m \in Mailboxes : mailbox[m] # None)
    BY <1>1 DEF RInv, StartingHosted, VInv, FirstKept, HadMailbox
  <1>4. CASE ~(EmailFree(email) /\ NameFree(name))
    BY <1>1, <1>4 DEF StoreVerification, Registry!vars
  <1>5. CASE EmailFree(email) /\ NameFree(name)
    <2>1. pending' = [pending EXCEPT ![v] =
                        [name |-> name, email |-> email, status |-> "verifying",
                         attempts |-> 0, mailbox |-> None]]
      BY <1>5 DEF StoreVerification
    <2>2. \A m \in Mailboxes :
            Registry!Live(m) => mailbox[m].name # name /\ mailbox[m].email # email
      BY <1>5 DEF EmailFree, NameFree, Live, IsRow, Registry!Live
    <2>3. Registry!Store(v, name, email)
      BY <1>1, <1>3, <2>1, <2>2 DEF Registry!Store
    <2>4. QED
      BY <1>2, <2>3 DEF Registry!Next
  <1>6. QED
    BY <1>4, <1>5

LEMMA StepRegistry ==
    IInv /\ VInv /\ RInv /\ [Next]_vars => [Registry!Next]_(Registry!vars)
  <1> SUFFICES ASSUME IInv, VInv, RInv, [Next]_vars
               PROVE  [Registry!Next]_(Registry!vars)
    OBVIOUS
  <1>1. CASE UNCHANGED vars
    BY <1>1 DEF vars, Registry!vars
  <1>2. ASSUME NEW q \in Requests, Prepare(q) PROVE UNCHANGED Registry!vars
    BY <1>2 DEF Prepare, PrepareCreate, PrepareConnect, PrepareReconnect,
                PrepareRename, PrepareDelete, Registry!vars
  <1>3. ASSUME NEW q \in Requests, Verify(q),
               ~ \E v \in Verifications : StoreVerification(q, v)
        PROVE  UNCHANGED Registry!vars
    BY <1>3 DEF Verify, BeginVerification, PrepareComplete, WrongCode, RefuseCode,
                Registry!vars
  <1>4. ASSUME NEW q \in Requests, Flush(q) \/ FlushRefused(q) \/ Fail(q)
        PROVE  UNCHANGED Registry!vars
    BY <1>4 DEF Flush, FlushRefused, Fail, Registry!vars
  <1>5. QED
    BY <1>1, <1>2, <1>3, <1>4, CommitRegistry, StoreRegistry DEF Next, Refuse, Finish

\* Requests that overlap leave the mailboxes and verifications of requests that
\* came one after the other, each deciding on what the one before had left.
THEOREM OneAtATime == Spec => ImplementsRegistry
  <1>1. Init => Registry!Init
    BY DEF Init, Registry!Init
  <1>2. QED
    BY <1>1, StepRegistry, Invariance, VouchedAlways, NarrowAlways, PTL
    DEF Spec, ImplementsRegistry, Registry!Spec

\* A settled verification and its mailbox name each other; two requests that
\* complete one verification leave one mailbox.
THEOREM VerificationNames == Spec => []VerificationNamesItsMailbox
  <1>1. VInv /\ RInv => VerificationNamesItsMailbox
    BY DEF VInv, NamesCreated, RowsVouched, RInv, MailboxNamed,
           VerificationNamesItsMailbox
  <1>2. QED
    BY <1>1, VouchedAlways, NarrowAlways, PTL
=============================================================================
