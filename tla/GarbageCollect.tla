---------------------------- MODULE GarbageCollect ----------------------------
(***************************************************************************)
(* The manifests of the repositories (revisions, tags, referrers) over the *)
(* shared blob store, and the mark-and-sweep collection that               *)
(* "garbage-collect" runs over them, possibly while a server on the same   *)
(* data directory takes pushes.                                            *)
(*                                                                         *)
(* A digest stands for its content, which never changes: what a manifest   *)
(* refers to is a constant.  Of the commit of a blob (BlobUploads) only    *)
(* what the collection can see is kept: a manifest that is pushed again is *)
(* missing for a moment.  Access times are reduced to the one comparison   *)
(* the collection makes, whether an object was accessed within             *)
(* --last-access.                                                          *)
(***************************************************************************)
EXTENDS Integers, FiniteSets

CONSTANTS
    Repos,           \* repository names
    Nested,          \* <<a, b>>: the name of b continues the name of a (a/x)
    Tags,            \* tag names
    Manifests,       \* digests of manifests
    Blobs,           \* digests of configs and layers
    BlobsOf,         \* the config and layers of an image
    Children,        \* the manifests of an index
    Subject,         \* what an artifact refers to, None for most
    Bad,             \* manifests whose JSON or media type is not supported
    Pushers,         \* goroutines that serve a PUT of a manifest
    None,            \* no tag, no manifest
    DeleteUntagged,  \* --delete-untagged
    Online,          \* do clients push and pull while a collection runs?
    Repush           \* and do they push manifests that are already there?

ASSUME Contents ==
    /\ Nested \subseteq Repos \X Repos
    /\ BlobsOf \in [Manifests -> SUBSET Blobs]
    /\ Children \in [Manifests -> SUBSET Manifests]
    /\ Subject \in [Manifests -> Manifests \union {None}]
    /\ Bad \subseteq Manifests
    /\ Manifests \intersect Blobs = {}
    /\ None \notin Tags \union Manifests \union Blobs
    /\ DeleteUntagged \in BOOLEAN /\ Online \in BOOLEAN /\ Repush \in BOOLEAN

Digests == Manifests \union Blobs

Revisions == Repos \X Manifests

VARIABLES
    stored,     \* digests with a blob
    fresh,      \* those accessed within --last-access
    known,      \* repositories with a _manifests directory
    hasTags,    \* repositories with a _manifests/tags directory
    revs,       \* revision links
    tags,       \* tag links
    refs,       \* referrer links: <<repository, subject, referrer>>
    push,       \* the PUT each goroutine serves
    phase,      \* the collection: "off", "roots", "mark", "plan", "sweep", "failed"
    pending,    \* repositories and tags whose roots are still to be collected
    roots,      \* roots still to be marked
    todo,       \* what is left of marking the current root
    seenM,      \* markedManifests
    seenB,      \* markedBlobs
    planM,      \* manifestsToDelete
    planB,      \* blobsToDelete
    had,        \* history: what was stored when the collection began
    used,       \* history: what of it was in use
    junk,       \* history: what of it was neither in use nor fresh
    steady      \* history: what of it has been fresh ever since

store == <<stored, fresh, known, hasTags, revs, tags, refs>>
marking == <<pending, roots, todo, seenM, seenB>>
planned == <<planM, planB>>
history == <<had, used, junk>>
gc == <<phase, marking, planned, history>>
vars == <<store, push, gc, steady>>

-----------------------------------------------------------------------------
(* What the directories list.                                              *)

\* ManifestsList: revisions and referrers.
ManifestsList(r) ==
    {m \in Manifests : <<r, m>> \in revs \/ \E s \in Manifests : <<r, s, m>> \in refs}

\* ReferrersGet.
ReferrersGet(r, m) == {x \in Manifests : <<r, m, x>> \in refs}

\* RepositoriesList does not look for repositories below a repository.
RepositoriesList == {r \in known : \A a \in known : <<a, r>> \notin Nested}

\* The referrer link that a manifest has in a repository.
ReferrerLink(r, m) == {<<r, Subject[m], m>>} \intersect (Repos \X Manifests \X Manifests)

-----------------------------------------------------------------------------
(* What is in use, by the words of the documentation: the roots and all    *)
(* that they, their indexes and their referrers lead to.                   *)

RootPairs ==
    IF DeleteUntagged
    THEN {x \in Revisions : x[2] \in stored /\ \E t \in Tags : tags[<<x[1], t>>] = x[2]}
    ELSE {x \in Revisions : x[1] \in known /\ x[2] \in ManifestsList(x[1])}

ClosedPairs(S) ==
    \A p \in S : p[2] \in stored =>
        \A x \in Children[p[2]] \union ReferrersGet(p[1], p[2]) : <<p[1], x>> \in S

Reachable ==
    {p \in Revisions : \A S \in SUBSET Revisions :
                            RootPairs \subseteq S /\ ClosedPairs(S) => p \in S}

InUse ==
    {d \in stored : \E p \in Reachable :
                        \/ d = p[2]
                        \/ p[2] \in stored /\ d \in BlobsOf[p[2]]}

-----------------------------------------------------------------------------
NoPush == [pc |-> "idle", repo |-> None, man |-> None, tag |-> None]

Init ==
    /\ stored = {} /\ fresh = {}
    /\ known = {} /\ hasTags = {}
    /\ revs = {} /\ refs = {}
    /\ tags = [x \in Repos \X Tags |-> None]
    /\ push = [p \in Pushers |-> NoPush]
    /\ phase = "off"
    /\ pending = {} /\ roots = {} /\ todo = {}
    /\ seenM = {} /\ seenB = {} /\ planM = {} /\ planB = {}
    /\ had = {} /\ used = {} /\ junk = {} /\ steady = {}

-----------------------------------------------------------------------------
(* Clients.                                                                *)

Collecting == phase \notin {"off", "failed"}

ServerRuns == Online \/ ~Collecting

Write(d) == stored' = stored \union {d} /\ fresh' = fresh \union {d}

\* A blob upload is committed: its file is new, whether or not the digest
\* was there before.
PushBlob(b) ==
    /\ ServerRuns
    /\ Write(b)
    /\ UNCHANGED <<known, hasTags, revs, tags, refs, push, gc>>

\* A GET or HEAD reads the file.
Pull(d) ==
    /\ ServerRuns
    /\ d \in stored
    /\ fresh' = fresh \union {d}
    /\ UNCHANGED <<stored, known, hasTags, revs, tags, refs, push, gc>>

\* The last access of d is now longer ago than --last-access.
Age(d) ==
    /\ d \in fresh
    /\ fresh' = fresh \ {d}
    /\ UNCHANGED <<stored, known, hasTags, revs, tags, refs, push, gc>>

\* m is not in the store, and nobody is putting it there.
New(m) == m \notin stored /\ \A q \in Pushers : push[q].man # m

\* PUT of a manifest by digest (no tag) or by tag: ManifestPut.
Put(p, r, m, t) ==
    /\ ServerRuns
    /\ Collecting => Repush \/ New(m)
    /\ push[p].pc = "idle"
    /\ push' = [push EXCEPT ![p] = [pc |-> "blob", repo |-> r, man |-> m, tag |-> t]]
    /\ UNCHANGED <<store, gc>>

\* The commit of its blob removes the old one ...
PutRemove(p) ==
    /\ push[p].pc = "blob"
    /\ stored' = stored \ {push[p].man} /\ fresh' = fresh \ {push[p].man}
    /\ push' = [push EXCEPT ![p].pc = "rename"]
    /\ UNCHANGED <<known, hasTags, revs, tags, refs, gc>>

\* ... and renames the new one to its place.
PutBlob(p) ==
    /\ push[p].pc = "rename"
    /\ Write(push[p].man)
    /\ push' = [push EXCEPT ![p].pc = "revision"]
    /\ UNCHANGED <<known, hasTags, revs, tags, refs, gc>>

PutRevision(p) ==
    /\ push[p].pc = "revision"
    /\ revs' = revs \union {<<push[p].repo, push[p].man>>}
    /\ known' = known \union {push[p].repo}
    /\ push' = [push EXCEPT ![p].pc = IF push[p].tag = None THEN "referrer" ELSE "tag"]
    /\ UNCHANGED <<stored, fresh, hasTags, tags, refs, gc>>

PutTag(p) ==
    /\ push[p].pc = "tag"
    /\ tags' = [tags EXCEPT ![<<push[p].repo, push[p].tag>>] = push[p].man]
    /\ hasTags' = hasTags \union {push[p].repo}
    /\ push' = [push EXCEPT ![p].pc = "referrer"]
    /\ UNCHANGED <<stored, fresh, known, revs, refs, gc>>

\* indexReferrer, and the response.
PutReferrer(p) ==
    /\ push[p].pc = "referrer"
    /\ refs' = refs \union ReferrerLink(push[p].repo, push[p].man)
    /\ push' = [push EXCEPT ![p] = NoPush]
    /\ UNCHANGED <<stored, fresh, known, hasTags, revs, tags, gc>>

\* The server is killed, or a write fails, in the middle of a PUT.
PutCrash(p) ==
    /\ push[p].pc # "idle"
    /\ push' = [push EXCEPT ![p] = NoPush]
    /\ UNCHANGED <<store, gc>>

\* ManifestDelete of a tag.
DeleteTag(r, t) ==
    /\ ~Collecting
    /\ tags[<<r, t>>] # None
    /\ tags' = [tags EXCEPT ![<<r, t>>] = None]
    /\ UNCHANGED <<stored, fresh, known, hasTags, revs, refs, push, gc>>

\* ManifestDelete of a digest: the referrer link, when the manifest can
\* still be read, then the revision.
Unlink(r, m) ==
    /\ refs' = IF m \in stored THEN refs \ ReferrerLink(r, m) ELSE refs
    /\ revs' = revs \ {<<r, m>>}

DeleteManifest(r, m) ==
    /\ ~Collecting
    /\ m \in ManifestsList(r)
    /\ Unlink(r, m)
    /\ UNCHANGED <<stored, fresh, known, hasTags, tags, push, gc>>

-----------------------------------------------------------------------------
(* The collection.                                                         *)

\* Offline, the servers have been stopped first; online, it begins while no
\* manifest is being replaced, unless Repush.
MayStart ==
    IF Online THEN Repush \/ \A p \in Pushers : push[p].pc \notin {"blob", "rename"}
              ELSE \A p \in Pushers : push[p].pc = "idle"

StartGC ==
    /\ ~Collecting
    /\ MayStart
    /\ known # {}
    /\ phase' = "roots"
    /\ pending' = {<<r, None>> : r \in RepositoriesList}
    /\ had' = stored /\ used' = InUse /\ junk' = stored \ (InUse \union fresh)
    /\ UNCHANGED <<store, push, roots, todo, seenM, seenB, planned>>

Failed == phase' = "failed"

\* A collection that returns, or that is killed, forgets everything.
Forget ==
    /\ pending' = {} /\ roots' = {} /\ todo' = {}
    /\ seenM' = {} /\ seenB' = {} /\ planM' = {} /\ planB' = {}
    /\ had' = {} /\ used' = {} /\ junk' = {}

\* collectRootManifests, one repository: all its manifests are roots, or
\* its tags are to be looked up.  A repository without a directory of tags
\* is an error.
CollectRepo(r) ==
    /\ phase = "roots"
    /\ <<r, None>> \in pending
    /\ \/ /\ ~DeleteUntagged
          /\ roots' = roots \union {<<r, m>> : m \in ManifestsList(r)}
          /\ pending' = pending \ {<<r, None>>}
          /\ UNCHANGED <<phase, todo, seenM, seenB, planned, history>>
       \/ /\ DeleteUntagged /\ r \in hasTags
          /\ pending' = (pending \ {<<r, None>>})
                            \union ({r} \X {t \in Tags : tags[<<r, t>>] # None})
          /\ UNCHANGED <<phase, roots, todo, seenM, seenB, planned, history>>
       \/ /\ DeleteUntagged /\ r \notin hasTags
          /\ Failed /\ Forget
    /\ UNCHANGED <<store, push>>

\* One tag: ManifestGet follows it, and a missing link or blob is skipped.
CollectTag(r, t) ==
    /\ phase = "roots"
    /\ <<r, t>> \in pending
    /\ roots' = IF tags[<<r, t>>] \in stored THEN roots \union {<<r, tags[<<r, t>>]>>}
                                         ELSE roots
    /\ pending' = pending \ {<<r, t>>}
    /\ UNCHANGED <<store, push, phase, todo, seenM, seenB, planned, history>>

RootsCollected ==
    /\ phase = "roots" /\ pending = {}
    /\ phase' = "mark"
    /\ UNCHANGED <<store, push, marking, planned, history>>

\* The recursion over one root is kept as the set of calls still to be made;
\* which comes first makes no difference here.  That reading a manifest may
\* refresh its own access time makes none either: a marked digest is kept.
NextRoot ==
    /\ phase = "mark" /\ todo = {}
    /\ \E x \in roots :
          /\ todo' = {<<"manifest", x[1], x[2]>>}
          /\ roots' = roots \ {x}
    /\ UNCHANGED <<store, push, phase, pending, seenM, seenB, planned, history>>

\* A mutant: the members of an index are marked as if they were layers.
BlobsAndChildrenMarked(m) == BlobsOf[m] \union Children[m]

\* markImageManifest, markDockerV1Manifest: the config and the layers.
BlobsMarked(m) == BlobsOf[m]

\* Mutants: the members of an index, or the referrers, are forgotten.
CallsWithoutChildren(r, m) == {<<"referrers", r, m>>}
CallsWithoutReferrers(r, m) == {<<"manifest", r, c>> : c \in Children[m]}

\* markIndexManifest, then markManifestByReferrers.
NextCalls(r, m) ==
    {<<"manifest", r, c>> : c \in Children[m]} \union {<<"referrers", r, m>>}

\* markManifest: a digest seen before, in whatever repository, is done.
MarkManifest(r, m) ==
    LET call == <<"manifest", r, m>> IN
    /\ phase = "mark" /\ call \in todo
    /\ \/ /\ m \in seenM
          /\ todo' = todo \ {call}
          /\ UNCHANGED <<phase, pending, roots, seenM, seenB, planned, history>>
       \/ /\ m \notin seenM /\ m \notin stored
          /\ seenM' = seenM \union {m}
          /\ todo' = todo \ {call}
          /\ UNCHANGED <<phase, pending, roots, seenB, planned, history>>
       \/ /\ m \notin seenM /\ m \in stored \ Bad
          /\ seenM' = seenM \union {m}
          /\ seenB' = seenB \union BlobsMarked(m)
          /\ todo' = (todo \ {call}) \union NextCalls(r, m)
          /\ UNCHANGED <<phase, pending, roots, planned, history>>
       \/ /\ m \notin seenM /\ m \in stored \intersect Bad
          /\ Failed /\ Forget
    /\ UNCHANGED <<store, push>>

\* markManifestByReferrers.
MarkReferrers(r, m) ==
    /\ phase = "mark" /\ <<"referrers", r, m>> \in todo
    /\ todo' = (todo \ {<<"referrers", r, m>>})
                    \union {<<"manifest", r, x>> : x \in ReferrersGet(r, m)}
    /\ UNCHANGED <<store, push, phase, pending, roots, seenM, seenB, planned, history>>

\* A mutant: every repository keeps what its own tags lead to.
PlanSweepUntaggedManifests ==
    /\ phase = "mark" /\ todo = {} /\ roots = {}
    /\ planM' = {x \in Revisions :
                    /\ x[1] \in RepositoriesList /\ x[2] \in ManifestsList(x[1])
                    /\ x[2] \in stored \ fresh
                    /\ \A t \in Tags : tags[<<x[1], t>>] # x[2]}
    /\ phase' = "plan"
    /\ UNCHANGED <<store, push, marking, planB, history>>

\* A mutant: the comparison of access times is the wrong way round.
PlanSweepFreshManifests ==
    /\ phase = "mark" /\ todo = {} /\ roots = {}
    /\ planM' = {x \in Revisions :
                    /\ x[1] \in RepositoriesList /\ x[2] \in ManifestsList(x[1])
                    /\ x[2] \in fresh \ seenM}
    /\ phase' = "plan"
    /\ UNCHANGED <<store, push, marking, planB, history>>

PlanSweepManifests ==
    /\ phase = "mark" /\ todo = {} /\ roots = {}
    /\ planM' = {x \in Revisions :
                    /\ x[1] \in RepositoriesList /\ x[2] \in ManifestsList(x[1])
                    /\ x[2] \in stored \ (fresh \union seenM)}
    /\ phase' = "plan"
    /\ UNCHANGED <<store, push, marking, planB, history>>

\* A mutant: the access time is not looked at.
PlanSweepFreshBlobs ==
    /\ phase = "plan"
    /\ planB' = stored \ (seenM \union seenB)
    /\ phase' = "sweep"
    /\ UNCHANGED <<store, push, marking, planM, history>>

PlanSweepBlobs ==
    /\ phase = "plan"
    /\ planB' = stored \ (fresh \union seenM \union seenB)
    /\ phase' = "sweep"
    /\ UNCHANGED <<store, push, marking, planM, history>>

SweepManifest(r, m) ==
    /\ phase = "sweep" /\ <<r, m>> \in planM
    /\ Unlink(r, m)
    /\ planM' = planM \ {<<r, m>>}
    /\ UNCHANGED <<stored, fresh, known, hasTags, tags, push, phase, marking, planB, history>>

SweepBlob(d) ==
    /\ phase = "sweep" /\ planM = {} /\ d \in planB
    /\ stored' = stored \ {d} /\ fresh' = fresh \ {d}
    /\ planB' = planB \ {d}
    /\ UNCHANGED <<known, hasTags, revs, tags, refs, push, phase, marking, planM, history>>

EndGC ==
    /\ phase = "sweep" /\ planM = {} /\ planB = {}
    /\ phase' = "off"
    /\ Forget
    /\ UNCHANGED <<store, push>>

\* --dryrun returns with its plans; a killed collection with whatever it
\* has done.
StopGC ==
    /\ Collecting
    /\ phase' = "off"
    /\ Forget
    /\ UNCHANGED <<store, push>>

-----------------------------------------------------------------------------
Client ==
    \/ \E b \in Blobs : PushBlob(b)
    \/ \E d \in Digests : Pull(d) \/ Age(d)
    \/ \E p \in Pushers, r \in Repos, m \in Manifests, t \in Tags \union {None} :
            Put(p, r, m, t)
    \/ \E p \in Pushers :
            \/ PutRemove(p) \/ PutBlob(p) \/ PutRevision(p) \/ PutTag(p)
            \/ PutReferrer(p) \/ PutCrash(p)
    \/ \E r \in Repos, t \in Tags : DeleteTag(r, t)
    \/ \E r \in Repos, m \in Manifests : DeleteManifest(r, m)

Collector ==
    \/ StartGC
    \/ \E r \in Repos : CollectRepo(r)
    \/ \E r \in Repos, t \in Tags : CollectTag(r, t)
    \/ RootsCollected \/ NextRoot
    \/ \E r \in Repos, m \in Manifests : MarkManifest(r, m) \/ MarkReferrers(r, m)
    \/ PlanSweepManifests \/ PlanSweepBlobs
    \/ \E r \in Repos, m \in Manifests : SweepManifest(r, m)
    \/ \E d \in Digests : SweepBlob(d)
    \/ EndGC \/ StopGC

\* What was fresh when the collection began and never grew old since.
Watch ==
    steady' = IF phase' \in {"off", "failed"} THEN {}
              ELSE IF Collecting THEN steady \intersect fresh' ELSE fresh'

Next == (Client \/ Collector) /\ Watch

Spec == Init /\ [][Next]_vars

-----------------------------------------------------------------------------
(* Properties.                                                             *)

Calls == {"manifest", "referrers"} \X Repos \X Manifests

StateTypeOK ==
    /\ stored \subseteq Digests /\ fresh \subseteq stored
    /\ known \subseteq Repos /\ hasTags \subseteq known
    /\ revs \subseteq Revisions
    /\ tags \in [Repos \X Tags -> Manifests \union {None}]
    /\ refs \subseteq Repos \X Manifests \X Manifests
    /\ push \in [Pushers -> [pc : {"idle", "blob", "rename", "revision", "tag", "referrer"},
                             repo : Repos \union {None},
                             man : Manifests \union {None},
                             tag : Tags \union {None}]]
    /\ phase \in {"off", "roots", "mark", "plan", "sweep", "failed"}
    /\ pending \subseteq Repos \X (Tags \union {None})
    /\ roots \subseteq Revisions
    /\ todo \subseteq Calls
    /\ seenM \subseteq Manifests /\ seenB \subseteq Blobs
    /\ planM \subseteq Revisions /\ planB \subseteq Digests
    /\ had \subseteq Digests /\ used \subseteq had /\ junk \subseteq had

TypeOK == StateTypeOK /\ steady \subseteq fresh

\* The collection deletes nothing that was in use when it began, whatever is
\* pushed and pulled while it runs (GarbageCollect).
ReachableKept == [][used \intersect stored \subseteq stored' \/ ~Collector]_vars

\* Nor does it take any of that out of a repository: its revisions and its
\* entries in lists of referrers stay, also in a repository whose tags and
\* indexes do not lead to it, or the next collection would delete it
\* (planSweepManifests, ManifestDelete).
LinksKept ==
    [][Collector => /\ \A x \in revs : x[2] \in used => x \in revs'
                    /\ \A x \in refs : x[3] \in used => x \in refs']_vars

\* A collection that ends has deleted all the garbage it found: no blob of
\* it is left and no revision leads to it (planSweepManifests,
\* planSweepBlobs).
GarbageGone ==
    [][EndGC => junk \intersect stored = {} /\ \A x \in revs : x[2] \notin junk]_vars

\* The collection deletes an object only if "its last access time is older
\* than the duration specified" (docs/garbage-collect.md, planSweepBlobs).
FreshNotDeleted == [][fresh \subseteq stored' \/ ~Collector]_vars

\* While servers run, that holds for what was within --last-access all along:
\* the access times are read once, for the plan, and an object that is old
\* then is deleted even if it was pulled in between (GarbageCollect).
SteadyNotDeleted == [][steady \subseteq stored' \/ ~Collector]_vars

=============================================================================
