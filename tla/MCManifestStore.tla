--------------------------- MODULE MCManifestStore ---------------------------
(* Small instances of ManifestStore for TLC. *)
EXTENDS ManifestStore, TLC

CONSTANTS img, sig, p1, p2

\* A signature that refers to an image.
MCSubject == [m \in Manifests |-> IF m = sig THEN img ELSE None]

=============================================================================
