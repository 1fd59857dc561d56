--------------------------- MODULE MCGarbageCollect ---------------------------
(* Small instances of GarbageCollect for TLC. *)
EXTENDS GarbageCollect, TLC

CONSTANTS img, idx, sig, bad, r1, r2, t1, p1, p2, l1, l2

\* An image, an index of it, a signature that refers to the image, and a
\* manifest the collection cannot read.
MCBlobsOf == [m \in Manifests |->
    CASE m = img -> {l1} \intersect Blobs
      [] m = sig -> {l2} \intersect Blobs
      [] OTHER -> {}]

MCChildren == [m \in Manifests |-> IF m = idx THEN {img} ELSE {}]

MCSubject == [m \in Manifests |-> IF m = sig THEN img ELSE None]

MCBad == {bad} \intersect Manifests

Flat == {}

OneInside == {<<r1, r2>>}

=============================================================================
