------------------------- MODULE MCMailboxDirectory -------------------------
(* Symmetry for model checking MailboxDirectory: keys, verifications and    *)
(* requests are interchangeable, and so are names; addresses are not, one   *)
(* of them is the signup address.                                           *)
EXTENDS MailboxDirectory, TLC

Symmetry ==
    Permutations(Mailboxes) \cup Permutations(Names)
    \cup Permutations(Verifications) \cup Permutations(Requests)
=============================================================================
