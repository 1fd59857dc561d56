----------------------------- MODULE MCRouting -----------------------------
(* A small instance of Routing for TLC. *)
EXTENDS Routing, TLC

CONSTANTS p1, p2

\* A word that a client may use, one for each kind of path and for what is
\* easily taken for another: a repository called blobs/uploads, a tag called
\* list.
MCNameWords == {"v2", "a", "tags", "list", "blobs", "uploads", "manifests", "referrers", "uuid"}
MCTagWords == MCNameWords \union {"_catalog"}

MCPaths ==
    { << >>, << "v2" >>, << "v2", "_catalog" >>, << "ui", "x" >>, << "token" >>,
      << "v2", "a", "referrers", "sha" >>, << "v2", "a", "tags", "list" >>,
      << "v2", "blobs", "uploads", "blobs", "sha" >>,
      << "v2", "blobs", "uploads", "blobs", "uploads" >>,
      << "v2", "a", "blobs", "uploads", "uuid" >>,
      << "v2", "a", "manifests", "list" >>, << "v2", "tags", "list" >> }

Symmetric == Permutations({p1, p2})

=============================================================================
