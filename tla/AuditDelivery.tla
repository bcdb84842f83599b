--------------------------- MODULE AuditDelivery ---------------------------
(***************************************************************************)
(* What Postara's audit trail promises to the rest of the service: an      *)
(* event published by a committed change is written to the audit log at    *)
(* least once, is never written unless the change committed, and is not    *)
(* written again once the outbox has settled it.  The module says nothing  *)
(* of rows, passes or errors; AuditOutbox is the mechanism.                *)
(***************************************************************************)
EXTENDS Naturals

CONSTANT Ids

VARIABLES
    published,  \* events whose business change has committed
    copies,     \* copies[i]: how often event i is in the audit log
    settled     \* events that need no further delivery

vars == <<published, copies, settled>>

Init ==
    /\ published = {}
    /\ copies = [i \in Ids |-> 0]
    /\ settled = {}

Publish(i) ==
    /\ i \notin published
    /\ published' = published \cup {i}
    /\ UNCHANGED <<copies, settled>>

Deliver(i) ==
    /\ i \in published \ settled
    /\ copies' = [copies EXCEPT ![i] = @ + 1]
    /\ UNCHANGED <<published, settled>>

Settle(i) ==
    /\ i \in published
    /\ copies[i] > 0
    /\ settled' = settled \cup {i}
    /\ UNCHANGED <<published, copies>>

Next == \E i \in Ids : Publish(i) \/ Deliver(i) \/ Settle(i)

Spec == Init /\ [][Next]_vars
=============================================================================
