---------------------------- MODULE ContentStore ----------------------------
(***************************************************************************)
(* What the registry's blob storage promises its clients, with no files,   *)
(* no upload sessions and no concurrency:                                  *)
(*                                                                         *)
(*   - a digest that has been published stays available;                   *)
(*   - a repository lists a layer only when its blob is available.         *)
(*                                                                         *)
(* BlobUploads implements it for blobs and layers (under the conditions    *)
(* README.md names), ManifestStore for manifests and what a repository     *)
(* lists of them; the refinements are checked and proved there.            *)
(***************************************************************************)

CONSTANTS Repos,    \* repository names
          Digests   \* blob digests

VARIABLES stored,   \* digests whose blob can be served
          layers    \* <<repository, digest>> pairs that a repository lists

vars == <<stored, layers>>

Init == stored = {} /\ layers = {}

\* A verified upload becomes available.
Publish(d) == stored' = stored \union {d} /\ UNCHANGED layers

\* A repository takes a layer whose blob is available.
Link(r, d) ==
    /\ d \in stored
    /\ layers' = layers \union {<<r, d>>}
    /\ UNCHANGED stored

\* A client deletes the layer of one repository; the blob stays.
Unlink(r, d) == layers' = layers \ {<<r, d>>} /\ UNCHANGED stored

Next ==
    \/ \E d \in Digests : Publish(d)
    \/ \E r \in Repos, d \in Digests : Link(r, d) \/ Unlink(r, d)

Spec == Init /\ [][Next]_vars

=============================================================================
