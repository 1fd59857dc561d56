---------------------------- MODULE MCBlobUploads ----------------------------
(* Small instances of BlobUploads for TLC. *)
EXTENDS BlobUploads, TLC

CONSTANTS u1, u2, u3, p1, p2

\* An injective hash, so that two contents have two digests.
MCHash(c) == [sha256 |-> c]

MCBodies == {<<>>, <<"a">>, <<"b">>}

MCDigests == {MCHash(<<"a">>), MCHash(<<"a", "b">>)}

MCOneDigest == {MCHash(<<"a">>)}

Symmetric == Permutations({u1, u2, u3}) \union Permutations({p1, p2})

=============================================================================
