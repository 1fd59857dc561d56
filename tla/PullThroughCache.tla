-------------------------- MODULE PullThroughCache --------------------------
(***************************************************************************)
(* The pull-through cache: a data storage that answers from the one below  *)
(* it, and from upstream registries what that one lacks.  Manifests named  *)
(* by a tag are looked up upstream on every request.                       *)
(*                                                                         *)
(* Of the storage below only what a cache can get wrong is kept: the blobs *)
(* with their contents, the layer links and the tag links.  Replacing a    *)
(* blob and writing a tag link take two steps; of the layer links that     *)
(* detail is left to BlobUploads.  A digest stands for the content it is   *)
(* the digest of.                                                          *)
(***************************************************************************)
EXTENDS FiniteSets

CONSTANTS
    Repos,      \* repository names
    Proxied,    \* those that the scope of some upstream matches
    Tags,       \* tag names
    Manifests,  \* digests of manifests
    Blobs,      \* digests of layers and configs
    Wrong,      \* a content that is none of these
    Procs,      \* request goroutines
    None,       \* nothing
    Torn        \* what an empty tag link reads as

Digests == Manifests \union Blobs

ASSUME CacheConstants ==
    /\ Proxied \subseteq Repos
    /\ Manifests \intersect Blobs = {} /\ Tags \intersect Digests = {}
    /\ Wrong \notin Digests /\ Torn \notin Digests
    /\ None \notin Repos \union Tags \union Digests \union {Wrong, Torn}

VARIABLES
    upstream,   \* the manifest each upstream tag leads to
    file,       \* the content of each blob path, None when absent
    layers,     \* layer links: <<repository, blob>>
    tags,       \* tag links: None, Torn or a manifest
    req         \* the request each goroutine serves, and how far it got

vars == <<upstream, file, layers, tags, req>>

-----------------------------------------------------------------------------
(* Requests.                                                               *)

PCs == {"idle", "head", "resolve", "open", "local", "fetch", "commit",
        "remove", "rename", "addlayer", "tag", "tagwrite", "reread", "answer"}

(* ref: the tag or digest asked for; auth: how far the upstream call is in *)
(* getting a token; head: the digest HEAD answered; man: the manifest the  *)
(* local tag leads to; got: the content that is stored, or served in the   *)
(* end (None: an error); since: what the upstream tag has led to since it  *)
(* was to be looked up (history).                                          *)
Request ==
    [pc : PCs, op : {"none", "manifest", "blob"},
     repo : Repos \union {None}, ref : Tags \union Digests \union {None},
     auth : {"none", "token", "bearer"},
     head : Manifests \union {None}, man : Manifests \union {None},
     got : Digests \union {Wrong, None},
     since : SUBSET Manifests]

Idle == [pc |-> "idle", op |-> "none", repo |-> None, ref |-> None,
         auth |-> "none", head |-> None, man |-> None, got |-> None,
         since |-> {}]

At(p, pc) == req[p].pc = pc

Goto(p, pc) == req' = [req EXCEPT ![p].pc = pc]

Begin(p, r) == At(p, "idle") /\ req' = [req EXCEPT ![p] = r]

ByTag(p) == req[p].ref \in Tags

TagOf(p) == <<req[p].repo, req[p].ref>>

\* MatchProxy.
MatchProxy(r) == r \in Proxied

\* The response is an error, or d.
Fail(p) == req' = [req EXCEPT ![p].pc = "answer", ![p].auth = "none", ![p].got = None]
Serves(p, d) == req' = [req EXCEPT ![p].pc = "answer", ![p].got = d]

\* The storage below has nothing: ask upstream, if there is one.
Miss(p) ==
    IF MatchProxy(req[p].repo)
    THEN req' = [req EXCEPT ![p].pc = "fetch", ![p].man = None]
    ELSE Fail(p)

Init ==
    /\ upstream \in [Proxied \X Tags -> Manifests]
    /\ file = [d \in Digests |-> None]
    /\ layers = {}
    /\ tags = [x \in Repos \X Tags |-> None]
    /\ req = [p \in Procs |-> Idle]

-----------------------------------------------------------------------------
(* The world outside.                                                      *)

\* Somebody moves an upstream tag.  (A tag that is deleted, or was never
\* there, is a call that fails.)
UpstreamMoves(x, m) ==
    /\ upstream[x] # m
    /\ upstream' = [upstream EXCEPT ![x] = m]
    /\ req' = [p \in Procs |->
                  IF TagOf(p) = x /\ ~At(p, "answer")
                  THEN [req[p] EXCEPT !.since = @ \union {m}] ELSE req[p]]
    /\ UNCHANGED <<file, layers, tags>>

\* The garbage collector deletes a blob.
Evict(d) ==
    /\ file[d] # None
    /\ file' = [file EXCEPT ![d] = None]
    /\ UNCHANGED <<upstream, layers, tags, req>>

-----------------------------------------------------------------------------
(* Requests come in.                                                       *)

\* A tag is looked up upstream first, if there is an upstream.
ManifestsGet(p, r, ref) ==
    /\ Begin(p, [Idle EXCEPT !.pc = IF ref \notin Tags THEN "open"
                                    ELSE IF MatchProxy(r) THEN "head" ELSE "resolve",
                             !.op = "manifest", !.repo = r, !.ref = ref,
                             !.since = {upstream[x] : x \in {<<r, ref>>} \intersect DOMAIN upstream}])
    /\ UNCHANGED <<upstream, file, layers, tags>>

BlobsGet(p, r, d) ==
    /\ Begin(p, [Idle EXCEPT !.pc = "local", !.op = "blob", !.repo = r, !.ref = d])
    /\ UNCHANGED <<upstream, file, layers, tags>>

-----------------------------------------------------------------------------
(* Calls to the upstream.                                                  *)

Calling(p) == At(p, "head") \/ At(p, "fetch")

\* DoUpstreamRequest: the upstream wants a token ...
Challenge(p) ==
    /\ Calling(p) /\ req[p].auth = "none"
    /\ req' = [req EXCEPT ![p].auth = "token"]
    /\ UNCHANGED <<upstream, file, layers, tags>>

\* ... and the token server gives one: the request is sent again.
FetchBearerToken(p) ==
    /\ Calling(p) /\ req[p].auth = "token"
    /\ req' = [req EXCEPT ![p].auth = "bearer"]
    /\ UNCHANGED <<upstream, file, layers, tags>>

\* The call ends without what was asked for: the upstream is down or too
\* slow, answers another status, has no such thing or no token, or breaks
\* off.  HEAD is a hint only; a GET that fails is the answer.
CallFails(p) ==
    /\ Calling(p)
    /\ IF At(p, "head")
       THEN req' = [req EXCEPT ![p].pc = "resolve", ![p].auth = "none"]
       ELSE Fail(p)
    /\ UNCHANGED <<upstream, file, layers, tags>>

\* FetchManifestDigestHEAD.
Head(p) ==
    /\ At(p, "head") /\ req[p].auth # "token"
    /\ req' = [req EXCEPT ![p].pc = "resolve", ![p].auth = "none",
                          ![p].head = upstream[TagOf(p)]]
    /\ UNCHANGED <<upstream, file, layers, tags>>

\* FetchManifestFromUpstream: of a tag, what it leads to; of a digest, any
\* manifest, because nobody compares what came with what was asked for.
FetchManifest(p) ==
    /\ At(p, "fetch") /\ req[p].auth # "token" /\ req[p].op = "manifest"
    /\ \E m \in IF ByTag(p) THEN {upstream[TagOf(p)]} ELSE Manifests :
          req' = [req EXCEPT ![p].pc = "remove", ![p].auth = "none", ![p].got = m]
    /\ UNCHANGED <<upstream, file, layers, tags>>

\* FetchBlobFromUpstream: a body may also be the wrong one.
FetchBlob(p) ==
    /\ At(p, "fetch") /\ req[p].auth # "token" /\ req[p].op = "blob"
    /\ \E d \in {req[p].ref, Wrong} :
          req' = [req EXCEPT ![p].pc = "commit", ![p].auth = "none", ![p].got = d]
    /\ UNCHANGED <<upstream, file, layers, tags>>

-----------------------------------------------------------------------------
(* The storage below.                                                      *)

\* A mutant: what the link holds is not parsed.
ResolveUnparsed(p) ==
    LET t == tags[TagOf(p)] IN
    /\ At(p, "resolve")
    /\ IF t = None THEN Miss(p)
                   ELSE req' = [req EXCEPT ![p].pc = "open", ![p].man = t]
    /\ UNCHANGED <<upstream, file, layers, tags>>

\* ManifestGet: the link of the tag, an empty one is an error.
Resolve(p) ==
    LET t == tags[TagOf(p)] IN
    /\ At(p, "resolve")
    /\ \/ t = Torn /\ Fail(p)
       \/ t = None /\ Miss(p)
       \/ t \in Manifests /\ req' = [req EXCEPT ![p].pc = "open", ![p].man = t]
    /\ UNCHANGED <<upstream, file, layers, tags>>

\* A mutant: no digest from HEAD is taken for another digest.
OpenIfConfirmed(p) ==
    LET d == IF ByTag(p) THEN req[p].man ELSE req[p].ref IN
    /\ At(p, "open")
    /\ \/ file[d] = None /\ Miss(p)
       \/ file[d] # None /\ req[p].head = d /\ Serves(p, file[d])
       \/ file[d] # None /\ req[p].head # d /\ IF MatchProxy(req[p].repo) THEN Goto(p, "fetch") ELSE Fail(p)
    /\ UNCHANGED <<upstream, file, layers, tags>>

\* ManifestGet: the blob.  It is served when HEAD failed or agrees.
OpenManifest(p) ==
    LET d == IF ByTag(p) THEN req[p].man ELSE req[p].ref IN
    /\ At(p, "open")
    /\ \/ file[d] = None /\ Miss(p)
       \/ file[d] # None /\ req[p].head \in {None, d} /\ Serves(p, file[d])
       \/ file[d] # None /\ req[p].head \notin {None, d} /\ Goto(p, "fetch")
    /\ UNCHANGED <<upstream, file, layers, tags>>

\* The storage below has the layer.
HasLayer(p) == <<req[p].repo, req[p].ref>> \in layers /\ file[req[p].ref] # None

\* BlobsGet of the storage below.
LocalBlob(p) ==
    /\ At(p, "local")
    /\ IF HasLayer(p) THEN Serves(p, file[req[p].ref]) ELSE Miss(p)
    /\ UNCHANGED <<upstream, file, layers, tags>>

\* A mutant: the digest is not compared.
CommitUnchecked(p) ==
    /\ At(p, "commit")
    /\ Goto(p, "remove")
    /\ UNCHANGED <<upstream, file, layers, tags>>

\* BlobsUploadCommit: a wrong body fails, and leaves its session behind.
Commit(p) ==
    /\ At(p, "commit")
    /\ IF req[p].got = req[p].ref THEN Goto(p, "remove") ELSE Fail(p)
    /\ UNCHANGED <<upstream, file, layers, tags>>

\* A manifest is stored under the digest of what came, a blob under the
\* one that was asked for.
Path(p) == IF req[p].op = "blob" THEN req[p].ref ELSE req[p].got

Remove(p) ==
    /\ At(p, "remove")
    /\ file' = [file EXCEPT ![Path(p)] = None]
    /\ Goto(p, "rename")
    /\ UNCHANGED <<upstream, layers, tags>>

Rename(p) ==
    /\ At(p, "rename")
    /\ file' = [file EXCEPT ![Path(p)] = req[p].got]
    /\ Goto(p, IF req[p].op = "blob" THEN "addlayer"
               ELSE IF ByTag(p) THEN "tag" ELSE "reread")
    /\ UNCHANGED <<upstream, layers, tags>>

AddLayer(p) ==
    /\ At(p, "addlayer")
    /\ layers' = layers \union {<<req[p].repo, req[p].ref>>}
    /\ Goto(p, "reread")
    /\ UNCHANGED <<upstream, file, tags>>

\* ManifestPut: os.WriteFile truncates the link of the tag ...
TruncateTag(p) ==
    /\ At(p, "tag")
    /\ tags' = [tags EXCEPT ![TagOf(p)] = Torn]
    /\ Goto(p, "tagwrite")
    /\ UNCHANGED <<upstream, file, layers>>

\* ... and fills it.
WriteTag(p) ==
    /\ At(p, "tagwrite")
    /\ tags' = [tags EXCEPT ![TagOf(p)] = req[p].got]
    /\ Goto(p, "reread")
    /\ UNCHANGED <<upstream, file, layers>>

\* A revision or a link cannot be written, or not be read back.
LinkFails(p) ==
    /\ At(p, "tag") \/ At(p, "tagwrite") \/ At(p, "addlayer") \/ At(p, "reread")
    /\ Fail(p)
    /\ UNCHANGED <<upstream, file, layers, tags>>

\* A mutant: what the tag leads to is read back.
RereadTag(p) ==
    LET d == IF ByTag(p) THEN tags[TagOf(p)] ELSE Path(p) IN
    /\ At(p, "reread")
    /\ IF d \in Digests /\ file[d] # None THEN Serves(p, file[d]) ELSE Fail(p)
    /\ UNCHANGED <<upstream, file, layers, tags>>

\* ManifestGet of the new digest, or BlobsGet again.
Reread(p) ==
    /\ At(p, "reread")
    /\ IF file[Path(p)] # None /\ (req[p].op = "blob" => HasLayer(p))
       THEN Serves(p, file[Path(p)]) ELSE Fail(p)
    /\ UNCHANGED <<upstream, file, layers, tags>>

Answer(p) ==
    /\ At(p, "answer")
    /\ req' = [req EXCEPT ![p] = Idle]
    /\ UNCHANGED <<upstream, file, layers, tags>>

\* Clients push a manifest (its steps are those of ManifestStore, and no
\* other than those of a fetch), and delete a tag or a layer, of the storage
\* below: these requests pass through the cache.
Push(x, m) ==
    /\ file' = [file EXCEPT ![m] = m]
    /\ tags' = [tags EXCEPT ![x] = m]
    /\ UNCHANGED <<upstream, layers, req>>

\* A fetch that was filling the link now writes to a file without a name.
DeleteTag(x) ==
    /\ tags[x] # None
    /\ tags' = [tags EXCEPT ![x] = None]
    /\ req' = [p \in Procs |-> IF At(p, "tagwrite") /\ TagOf(p) = x
                                THEN [req[p] EXCEPT !.pc = "reread"] ELSE req[p]]
    /\ UNCHANGED <<upstream, file, layers>>

DeleteLayer(x) ==
    /\ x \in layers
    /\ layers' = layers \ {x}
    /\ UNCHANGED <<upstream, file, tags, req>>

-----------------------------------------------------------------------------
Outside ==
    \/ \E x \in Proxied \X Tags, m \in Manifests : UpstreamMoves(x, m)
    \/ \E d \in Digests : Evict(d)
    \/ \E x \in Repos \X Tags : DeleteTag(x) \/ \E m \in Manifests : Push(x, m)
    \/ \E x \in Repos \X Blobs : DeleteLayer(x)

Arrive(p) ==
    \/ \E r \in Repos, ref \in Tags \union Manifests : ManifestsGet(p, r, ref)
    \/ \E r \in Repos, d \in Blobs : BlobsGet(p, r, d)

Serve(p) ==
    \/ Challenge(p) \/ FetchBearerToken(p) \/ CallFails(p)
    \/ Head(p) \/ FetchManifest(p) \/ FetchBlob(p)
    \/ Resolve(p) \/ OpenManifest(p) \/ LocalBlob(p)
    \/ Commit(p) \/ Remove(p) \/ Rename(p) \/ AddLayer(p)
    \/ TruncateTag(p) \/ WriteTag(p) \/ Reread(p) \/ Answer(p)

Next == Outside \/ \E p \in Procs : Arrive(p) \/ Serve(p) \/ LinkFails(p)

Spec == Init /\ [][Next]_vars

-----------------------------------------------------------------------------
(* Properties.                                                             *)

TypeOK ==
    /\ upstream \in [Proxied \X Tags -> Manifests]
    /\ file \in [Digests -> Digests \union {Wrong, None}]
    /\ layers \subseteq Repos \X Blobs
    /\ tags \in [Repos \X Tags -> Manifests \union {None, Torn}]
    /\ req \in [Procs -> Request]

\* Whatever an upstream sends, a blob path holds the content of its digest,
\* and a layer is answered with the content that was asked for
\* (BlobsUploadCommit checks what BlobsGet of the cache fetched).
ContentVerified ==
    /\ \A d \in Digests : file[d] \in {d, None}
    /\ \A p \in Procs : At(p, "answer") /\ req[p].op = "blob" =>
            req[p].got \in {req[p].ref, None}

\* "Always pull the image from the upstream to ensure it's up-to-date"
\* (docs/pull-through-cache.md): when HEAD succeeded, the manifest that is
\* served is one the upstream tag has led to since the request came, never
\* one that another request stored before or meanwhile.
UpToDate ==
    \A p \in Procs :
        At(p, "answer") /\ req[p].head # None /\ req[p].got # None =>
            req[p].got \in req[p].since

\* "If upstream is down, simple-registry will return its latest cached copy
\* if it exist" (docs/pull-through-cache.md): when HEAD gave no newer digest,
\* the manifest that the storage below had at hand is answered, and no GET
\* that may fail is waited for.
FallsBackWhenDown ==
    \A p \in Procs :
        /\ At(p, "answer") /\ req[p].repo \in Proxied
        /\ req[p].man # None /\ req[p].head \in {None, req[p].man}
        => req[p].got = req[p].man

=============================================================================
