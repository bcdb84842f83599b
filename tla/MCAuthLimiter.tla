---------------------------- MODULE MCAuthLimiter ----------------------------
(* AuthLimiter for TLC.  Every property is an invariant, and requests and   *)
(* email keys are interchangeable, so symmetry is sound.                    *)
EXTENDS AuthLimiter, TLC

Symmetry == Permutations(Requests) \cup Permutations(Emails)
==============================================================================
