--------------------------- MODULE MessageListing ---------------------------
(***************************************************************************)
(* An agent reads a mailbox page by page, while messages arrive, go and    *)
(* change their flag, and while the limiter of its API key refuses it.     *)
(*                                                                         *)
(*   src/postara/api.py               list_mailbox_messages, _next_cursor  *)
(*   src/postara/providers/gmail.py   list_messages, _criteria             *)
(*   src/postara/rate_limit.py        InMemoryRateLimiter                  *)
(*                                                                         *)
(* Messages are their UIDs, given out in ascending order by the provider.  *)
(* Those that a date or sender filter excludes are not in the model.  Time *)
(* is the age of the limiter's events.                                     *)
(***************************************************************************)
EXTENDS Integers, Sequences, SequencesExt, FiniteSets

CONSTANTS
    RateLimit,      \* RateLimitRule.limit (60)
    Window,         \* RateLimitRule.window_seconds (60)
    PageLimits,     \* values of the limit parameter, which nothing checks
    MaxUid,         \* bound: messages
    MaxOthers,      \* bound: requests of other users of the key
    MaxFailures     \* bound: pages that end in an error

ASSUME ListingAssumption ==
    /\ RateLimit \in Nat \ {0} /\ Window \in Nat \ {0}
    /\ PageLimits \subseteq Int
    /\ MaxUid \in Nat /\ MaxOthers \in Nat /\ MaxFailures \in Nat

VARIABLES
    box,        \* the messages of the folder
    unread,     \* those without \Seen
    top,        \* the last UID given out
    events,     \* the limiter's deque for the key: the age of each event
    accepted,   \* history: the age of every accepted request
    pc,         \* where the agent's request is
    query,      \* limit and unread_only of the agent's requests
    cursor,     \* the cursor to send, 0 for none
    found,      \* UIDs of the search still to be fetched
    page,       \* UIDs fetched
    listed,     \* UIDs of all answers so far
    through,    \* history: the messages that have matched all along
    lost,       \* history: a page was cut short by a message that went away
    others, failures    \* requests of others, and errors, so far

mailboxVars == <<box, unread, top, through>>
limiterVars == <<events, accepted, others>>
pageVars == <<query, cursor, found, page, listed, lost>>
vars == <<mailboxVars, limiterVars, pageVars, pc, failures>>

Uids == 1..MaxUid
Queries == [limit : PageLimits, unread_only : BOOLEAN]

Init ==
    /\ top \in 0..MaxUid
    /\ box \in SUBSET (1..top)
    /\ unread \in SUBSET box
    /\ query \in Queries
    /\ cursor = 0
    /\ through = IF query.unread_only THEN unread ELSE box
    /\ events = <<>> /\ accepted = <<>>
    /\ pc = "asking"
    /\ found = <<>> /\ page = <<>> /\ listed = <<>>
    /\ lost = FALSE
    /\ others = 0 /\ failures = 0

-----------------------------------------------------------------------------
(* The mailbox, changed by other clients.                                  *)

MailboxBecomes(b, u) ==
    /\ box' = b
    /\ unread' = u
    /\ through' = through \cap (IF query.unread_only THEN u ELSE b)
    /\ UNCHANGED <<limiterVars, pageVars, pc, failures>>

Arrive ==
    /\ top < MaxUid
    /\ top' = top + 1
    /\ MailboxBecomes(box \cup {top'}, unread \cup {top'})

Expunge(uid) ==
    /\ uid \in box
    /\ MailboxBecomes(box \ {uid}, unread \ {uid})
    /\ UNCHANGED top

ChangeSeen(uid) ==
    /\ uid \in box
    /\ MailboxBecomes(box, IF uid \in unread THEN unread \ {uid} ELSE unread \cup {uid})
    /\ UNCHANGED top

-----------------------------------------------------------------------------
(* The limiter.                                                            *)

\* Mutant: events are never dropped.
PruneNever(q) == q

Live(ages) == {i \in DOMAIN ages : ages[i] < Window}

\* Events leave the deque from the left, up to the first one in the window.
Prune(q) == IF Live(q) = {} THEN <<>> ELSE SubSeq(q, Min(Live(q)), Len(q))

\* An age stops at the window's length, past which nothing tells ages apart.
Older(ages) == [i \in DOMAIN ages |-> IF ages[i] < Window THEN ages[i] + 1 ELSE ages[i]]

Tick ==
    /\ events' = Older(events)
    /\ accepted' = Older(accepted)
    /\ UNCHANGED <<mailboxVars, pageVars, pc, others, failures>>

Full == Len(Prune(events)) >= RateLimit

\* Mutant: the comparison lets one too many through.
AdmitOneMore ==
    /\ pc = "asking"
    /\ Len(Prune(events)) <= RateLimit
    /\ pc' = "stamping"
    /\ events' = Prune(events)
    /\ UNCHANGED <<mailboxVars, accepted, others, pageVars, failures>>

\* _add_or_raise holds the lock from the check to the append, and reads the
\* clock again for the append.
Admit ==
    /\ pc = "asking"
    /\ ~Full
    /\ pc' = "stamping"
    /\ events' = Prune(events)
    /\ UNCHANGED <<mailboxVars, accepted, others, pageVars, failures>>

Refuse ==
    /\ pc = "asking"
    /\ Full
    /\ pc' = "refused"
    /\ events' = Prune(events)
    /\ UNCHANGED <<mailboxVars, accepted, others, pageVars, failures>>

Stamp ==
    /\ pc = "stamping"
    /\ pc' = "searching"
    /\ events' = Append(events, 0)
    /\ accepted' = Append(accepted, 0)
    /\ UNCHANGED <<mailboxVars, others, pageVars, failures>>

\* Any other request with the key, counted before the key is authenticated.
OtherRequest ==
    /\ pc # "stamping"
    /\ others < MaxOthers
    /\ others' = others + 1
    /\ IF Full
         THEN events' = Prune(events) /\ UNCHANGED accepted
         ELSE /\ events' = Append(Prune(events), 0)
              /\ accepted' = Append(accepted, 0)
    /\ UNCHANGED <<mailboxVars, pageVars, pc, failures>>

\* The agent backs off and asks again with the same cursor.
Retry ==
    /\ pc = "refused"
    /\ pc' = "asking"
    /\ UNCHANGED <<mailboxVars, limiterVars, pageVars, failures>>

-----------------------------------------------------------------------------
(* A page.                                                                 *)

\* _criteria: UIDs below the cursor; "UID 0" matches nothing.
Criteria(uid) ==
    /\ cursor = 0 \/ uid < cursor
    /\ query.unread_only => uid \in unread

\* The library's slice(0, limit): a negative limit drops the last ones.
Slice(s, limit) ==
    SubSeq(s, 1, IF limit < 0 THEN Len(s) + limit ELSE Min({limit, Len(s)}))

Descending(s) == \A i, j \in DOMAIN s : i < j => s[i] > s[j]

NewestFirst(uids) == CHOOSE s \in [1..Cardinality(uids) -> uids] : Descending(s)

\* fetch() searches, takes the newest and then fetches one by one.
Search ==
    /\ pc = "searching"
    /\ pc' = "fetching"
    /\ found' = Slice(NewestFirst({uid \in box : Criteria(uid)}), query.limit)
    /\ page' = <<>>
    /\ UNCHANGED <<mailboxVars, limiterVars, query, cursor, listed, lost, failures>>

\* A message that went away after the search is left out.
Fetch ==
    /\ pc = "fetching"
    /\ found # <<>>
    /\ found' = Tail(found)
    /\ IF Head(found) \in box
         THEN page' = Append(page, Head(found)) /\ UNCHANGED lost
         ELSE lost' = TRUE /\ UNCHANGED page
    /\ UNCHANGED <<mailboxVars, limiterVars, query, cursor, listed, pc, failures>>

\* Mutant: a page is the last one when it is not longer than the limit.
NextCursorFull(messages, limit) ==
    IF Len(messages) <= limit \/ messages = <<>> THEN 0 ELSE Last(messages)

\* Mutant: the cursor is the number of messages to skip.
NextCursorOffset(messages, limit) ==
    IF Len(messages) < limit \/ messages = <<>> THEN 0 ELSE limit

\* _next_cursor: a short page is the last one.
NextCursor(messages, limit) ==
    IF Len(messages) < limit \/ messages = <<>> THEN 0 ELSE Last(messages)

Answer ==
    /\ pc = "fetching"
    /\ found = <<>>
    /\ listed' = listed \o page
    /\ cursor' = NextCursor(page, query.limit)
    /\ pc' = IF cursor' = 0 THEN "done" ELSE "asking"
    /\ UNCHANGED <<mailboxVars, limiterVars, query, found, page, lost, failures>>

\* A page that ends in an error is asked for again.
Fail ==
    /\ pc \in {"searching", "fetching"}
    /\ failures < MaxFailures
    /\ failures' = failures + 1
    /\ pc' = "asking"
    /\ found' = <<>> /\ page' = <<>>
    /\ UNCHANGED <<mailboxVars, limiterVars, query, cursor, listed, lost>>

-----------------------------------------------------------------------------

Request == Admit \/ Refuse \/ Retry \/ Stamp \/ Search \/ Fetch \/ Answer

Next ==
    \/ Request \/ Fail
    \/ Tick \/ OtherRequest
    \/ Arrive \/ \E uid \in Uids : Expunge(uid) \/ ChangeSeen(uid)

Spec == Init /\ [][Next]_vars

\* The agent goes on and time passes.
FairSpec == Spec /\ WF_vars(Request) /\ WF_vars(Tick)

-----------------------------------------------------------------------------
(* Properties.                                                             *)

TypeOK ==
    /\ top \in 0..MaxUid /\ box \subseteq 1..top /\ unread \subseteq box
    /\ through \subseteq box
    /\ events \in Seq(0..Window) /\ accepted \in Seq(0..Window)
    /\ query \in Queries /\ cursor \in 0..MaxUid
    /\ found \in Seq(Uids) /\ page \in Seq(Uids) /\ listed \in Seq(Uids)
    /\ lost \in BOOLEAN
    /\ pc \in {"asking", "refused", "stamping", "searching", "fetching", "done"}
    /\ others \in 0..MaxOthers /\ failures \in 0..MaxFailures

\* Page by page no message comes twice, and in the end every message that has
\* matched all along has come, whatever arrived, went or was retried between
\* pages.  Two things the code does not give are excluded: a limit below one,
\* and a page cut short by a message that went away while it was fetched, which
\* is taken for the last page.
ListedExactlyOnce ==
    /\ Descending(listed)
    /\ (pc = "done" /\ query.limit > 0 /\ ~lost) => through \subseteq ToSet(listed)

\* No window of time holds more accepted requests than the limit, and no
\* request is refused while it holds fewer.
InWindow == Cardinality(Live(accepted))

WindowExact ==
    [][ /\ InWindow' <= RateLimit
        /\ (pc = "asking" /\ pc' = "refused") => InWindow = RateLimit ]_vars

\* The agent comes to the end, in spite of refusals and of a mailbox that
\* changes all the time, once errors and other users of the key cease.
ListingEnds == pc = "asking" ~> pc = "done"
=============================================================================
