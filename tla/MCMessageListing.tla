-------------------------- MODULE MCMessageListing --------------------------
(* MessageListing with the limits a request may carry, for TLC. *)
EXTENDS MessageListing

AnyLimit == {-1, 1, 2}
=============================================================================
