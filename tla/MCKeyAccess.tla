---------------------------- MODULE MCKeyAccess ----------------------------
(* KeyAccess with interchangeable values, for TLC. *)
EXTENDS KeyAccess, TLC

Interchangeable ==
    Permutations(Users) \cup Permutations(Names) \cup Permutations(Mailboxes)
        \cup Permutations(Keys) \cup Permutations(Requests)
=============================================================================
