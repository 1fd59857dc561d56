----------------------------- MODULE MCListing -----------------------------
(* Small instances of Listing for TLC. *)
EXTENDS Listing

MCNested == {<<1, 2>>}

=============================================================================
