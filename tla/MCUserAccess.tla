---------------------------- MODULE MCUserAccess ----------------------------
(* UserAccess for TLC.  Users, tokens and requests are interchangeable, and *)
(* all properties are about single states or steps: symmetry is sound.      *)
EXTENDS UserAccess, TLC

Symmetry ==
    Permutations(Users) \cup Permutations(Tokens) \cup Permutations(Requests)
=============================================================================
