--------------------------- MODULE ManifestStore ---------------------------
(***************************************************************************)
(* The manifests of the repositories as clients push, read, delete and     *)
(* list them concurrently: PUT, GET and DELETE of /v2/<name>/manifests and *)
(* GET of /v2/<name>/referrers.                                            *)
(*                                                                         *)
(* A manifest is four things on disk, written one after the other: a blob  *)
(* (with a layer link, see BlobUploads), a revision, possibly the link of  *)
(* a tag, and, when it has a subject, an entry in the list of the          *)
(* subject's referrers.  A step is one write or one read of these.         *)
(***************************************************************************)
EXTENDS FiniteSets

CONSTANTS
    Repos,       \* repository names
    Tags,        \* tag names
    Manifests,   \* digests of manifests; a digest stands for its content
    Subject,     \* the manifest a manifest refers to, None for most
    Procs,       \* request goroutines
    None,        \* no tag, no manifest
    Torn,        \* an empty tag link, while a PUT is about to fill it
    Spoilt       \* an empty tag link, after the write failed

ASSUME ManifestConstants ==
    /\ Subject \in [Manifests -> Manifests \union {None}]
    /\ Tags \intersect Manifests = {}
    /\ None \notin Repos \union Tags \union Manifests \union {Torn, Spoilt}
    /\ Torn \notin Manifests \union {Spoilt} /\ Spoilt \notin Manifests

VARIABLES
    stored,      \* manifests with a blob
    layers,      \* layer links of manifests: <<repository, manifest>>
    revs,        \* revisions: <<repository, manifest>>
    tags,        \* tag links: None (no directory), Torn, Spoilt or a manifest
    refs,        \* entries of referrers: <<repository, subject, referrer>>
    req,         \* the request each goroutine serves, and how far it got
    indexed      \* history: <<r, m>> whose PUT wrote its entry, and whose
                 \* revision no DELETE has removed, or failed to, since

vars == <<stored, layers, revs, tags, refs, req, indexed>>

Revisions == Repos \X Manifests

-----------------------------------------------------------------------------
(* Requests.                                                               *)

PCs == {"idle", "remove", "rename", "revision", "tag", "tagwrite", "referrer",
        "resolve", "open", "delreferrer", "delrevision", "blobs", "answer"}

(* ref: the reference of the URL; man: the manifest that is stored, read   *)
(* or deleted; todo, list: the referrers still to be read, and read;       *)
(* owed: those a list has to hold when it is answered (history).           *)
Request ==
    [pc : PCs, op : {"none", "put", "get", "delete", "list"},
     repo : Repos \union {None}, ref : Tags \union Manifests \union {None},
     man : Manifests \union {None}, read : Manifests \union {None},
     todo : SUBSET Manifests, list : SUBSET Manifests, owed : SUBSET Manifests]

Idle == [pc |-> "idle", op |-> "none", repo |-> None, ref |-> None,
         man |-> None, read |-> None, todo |-> {}, list |-> {}, owed |-> {}]

At(p, pc) == req[p].pc = pc

Goto(p, pc) == req' = [req EXCEPT ![p].pc = pc]

\* The response, whatever it says.
Finish(p) == req' = [req EXCEPT ![p] = Idle]

Begin(p, r) == At(p, "idle") /\ req' = [req EXCEPT ![p] = r]

\* The revision, or tag link, that a request is about.
Mine(p) == <<req[p].repo, req[p].man>>
TagOf(p) == <<req[p].repo, req[p].ref>>

\* A mutant: the missing subject is not noticed.
ReferrerEntryAlways(r, m) == {<<r, Subject[m], m>>}

\* indexReferrer: a manifest without a subject has no entry.
ReferrerEntry(r, m) ==
    IF Subject[m] = None THEN {} ELSE {<<r, Subject[m], m>>}

\* ReferrersGet of the file system.
ReferrersGet(r, s) == {m \in Manifests : <<r, s, m>> \in refs}

Init ==
    /\ stored = {} /\ layers = {} /\ revs = {} /\ refs = {}
    /\ tags = [x \in Repos \X Tags |-> None]
    /\ req = [p \in Procs |-> Idle]
    /\ indexed = {}

-----------------------------------------------------------------------------
(* PUT.                                                                    *)

\* The reference may be any tag or digest: a digest is not compared with
\* the one of the body.
ManifestsPut(p, r, m, ref) ==
    /\ Begin(p, [Idle EXCEPT !.pc = "remove", !.op = "put", !.repo = r,
                             !.ref = ref, !.man = m])
    /\ UNCHANGED <<stored, layers, revs, tags, refs, indexed>>

\* The commit of the blob: remove the old file ...
PutRemove(p) ==
    /\ At(p, "remove")
    /\ stored' = stored \ {req[p].man}
    /\ Goto(p, "rename")
    /\ UNCHANGED <<layers, revs, tags, refs, indexed>>

\* A mutant: the remove comes after the rename.
PutRenameThenRemove(p) ==
    /\ At(p, "rename")
    /\ stored' = stored \ {req[p].man}
    /\ layers' = layers \union {Mine(p)}
    /\ Goto(p, "revision")
    /\ UNCHANGED <<revs, tags, refs, indexed>>

\* ... rename the new one to its place, and link it as a layer.
PutRename(p) ==
    /\ At(p, "rename")
    /\ stored' = stored \union {req[p].man}
    /\ layers' = layers \union {Mine(p)}
    /\ Goto(p, "revision")
    /\ UNCHANGED <<revs, tags, refs, indexed>>

PutRevision(p) ==
    /\ At(p, "revision")
    /\ revs' = revs \union {Mine(p)}
    /\ Goto(p, IF req[p].ref \in Tags THEN "tag" ELSE "referrer")
    /\ UNCHANGED <<stored, layers, tags, refs, indexed>>

\* A mutant: the link is truncated and not filled.
TruncateTagOnly(p) ==
    /\ At(p, "tag")
    /\ tags' = [tags EXCEPT ![TagOf(p)] = Torn]
    /\ Goto(p, "referrer")
    /\ UNCHANGED <<stored, layers, revs, refs, indexed>>

\* os.WriteFile truncates the link of the tag, then fills it.  Links have
\* one length, so that two writers leave the link of the later one.
TruncateTag(p) ==
    /\ At(p, "tag")
    /\ tags' = [tags EXCEPT ![TagOf(p)] = Torn]
    /\ Goto(p, "tagwrite")
    /\ UNCHANGED <<stored, layers, revs, refs, indexed>>

WriteTag(p) ==
    /\ At(p, "tagwrite")
    /\ tags' = [tags EXCEPT ![TagOf(p)] = req[p].man]
    /\ Goto(p, "referrer")
    /\ UNCHANGED <<stored, layers, revs, refs, indexed>>

\* A revision, or a tag before it is truncated, cannot be written: no
\* space, or a DELETE has just removed its directory.
LinkFails(p) ==
    /\ At(p, "revision") \/ At(p, "tag")
    /\ Finish(p)
    /\ UNCHANGED <<stored, layers, revs, tags, refs, indexed>>

\* The link has been truncated and the write fails: it stays empty, unless
\* another PUT has filled it.
FillFails(p) ==
    /\ At(p, "tagwrite")
    /\ tags' = [tags EXCEPT ![TagOf(p)] = IF @ = Torn THEN Spoilt ELSE @]
    /\ Finish(p)
    /\ UNCHANGED <<stored, layers, revs, refs, indexed>>

\* indexReferrer; then the handler reads the manifest back.
PutReferrer(p) ==
    /\ At(p, "referrer")
    /\ refs' = refs \union ReferrerEntry(req[p].repo, req[p].man)
    /\ indexed' = indexed \union {Mine(p)}
    /\ Goto(p, IF req[p].ref \in Tags THEN "resolve" ELSE "open")
    /\ UNCHANGED <<stored, layers, revs, tags>>

\* An entry that cannot be written makes no difference to the answer.
ReferrerFails(p) ==
    /\ At(p, "referrer")
    /\ Goto(p, IF req[p].ref \in Tags THEN "resolve" ELSE "open")
    /\ UNCHANGED <<stored, layers, revs, tags, refs, indexed>>

-----------------------------------------------------------------------------
(* GET, and the read-back of PUT.                                          *)

ManifestsGet(p, r, ref) ==
    /\ Begin(p, [Idle EXCEPT !.pc = IF ref \in Tags THEN "resolve" ELSE "open",
                             !.op = "get", !.repo = r, !.ref = ref])
    /\ UNCHANGED <<stored, layers, revs, tags, refs, indexed>>

\* ManifestGet follows the tag: without a link 404, with an empty one 500.
Resolve(p) ==
    LET t == tags[TagOf(p)] IN
    /\ At(p, "resolve")
    /\ IF t \in Manifests
       THEN req' = [req EXCEPT ![p].pc = "open", ![p].read = t]
       ELSE Finish(p)
    /\ UNCHANGED <<stored, layers, revs, tags, refs, indexed>>

\* ManifestGet opens the blob of the digest, whatever the repository.
OpenManifest(p) ==
    LET m == IF req[p].ref \in Tags THEN req[p].read ELSE req[p].ref IN
    /\ At(p, "open")
    /\ IF m \in stored
       THEN req' = [req EXCEPT ![p].pc = "answer", ![p].read = m]
       ELSE Finish(p)
    /\ UNCHANGED <<stored, layers, revs, tags, refs, indexed>>

Answer(p) ==
    /\ At(p, "answer")
    /\ Finish(p)
    /\ UNCHANGED <<stored, layers, revs, tags, refs, indexed>>

-----------------------------------------------------------------------------
(* DELETE.                                                                 *)

\* A mutant: the link is emptied where it is.
DeleteTagContent(x) ==
    /\ tags[x] # None
    /\ tags' = [tags EXCEPT ![x] = Torn]
    /\ UNCHANGED <<stored, layers, revs, refs, req, indexed>>

\* Of a tag: its directory.  A PUT that was filling the link now writes to
\* a file without a name.
DeleteTag(x) ==
    /\ tags[x] # None
    /\ tags' = [tags EXCEPT ![x] = None]
    /\ req' = [p \in Procs |-> IF At(p, "tagwrite") /\ TagOf(p) = x
                                THEN [req[p] EXCEPT !.pc = "referrer"] ELSE req[p]]
    /\ UNCHANGED <<stored, layers, revs, refs, indexed>>

\* Of a digest.
ManifestsDelete(p, r, m) ==
    /\ Begin(p, [Idle EXCEPT !.pc = "delreferrer", !.op = "delete",
                             !.repo = r, !.ref = m, !.man = m])
    /\ UNCHANGED <<stored, layers, revs, tags, refs, indexed>>

\* A mutant: the request ends with the entry of the referrer.
DeleteReferrerOnly(p) ==
    LET r == req[p].repo  m == req[p].man IN
    /\ At(p, "delreferrer")
    /\ refs' = IF m \in stored THEN refs \ ReferrerEntry(r, m) ELSE refs
    /\ Finish(p)
    /\ UNCHANGED <<stored, layers, revs, tags, indexed>>

\* The entry in the list of referrers goes first, if the manifest can be
\* read to find its subject ...
DeleteReferrer(p) ==
    LET r == req[p].repo  m == req[p].man IN
    /\ At(p, "delreferrer")
    /\ refs' = IF m \in stored THEN refs \ ReferrerEntry(r, m) ELSE refs
    /\ Goto(p, "delrevision")
    /\ UNCHANGED <<stored, layers, revs, tags, indexed>>

\* A mutant: the blob goes with the revision.
DeleteRevisionAndBlob(p) ==
    /\ At(p, "delrevision")
    /\ revs' = revs \ {Mine(p)}
    /\ stored' = stored \ {req[p].man}
    /\ indexed' = indexed \ {Mine(p)}
    /\ Finish(p)
    /\ UNCHANGED <<layers, tags, refs>>

\* ... then the revision, 404 when there is none.
DeleteRevision(p) ==
    /\ At(p, "delrevision")
    /\ revs' = revs \ {Mine(p)}
    /\ indexed' = indexed \ {Mine(p)}
    /\ Finish(p)
    /\ UNCHANGED <<stored, layers, tags, refs>>

\* The revision cannot be removed: it stays, and is in no list of referrers
\* until the manifest is pushed or deleted again.
DeleteFails(p) ==
    /\ At(p, "delrevision")
    /\ indexed' = indexed \ {Mine(p)}
    /\ Finish(p)
    /\ UNCHANGED <<stored, layers, revs, tags, refs>>

\* BlobsDelete of a manifest: its layer link.
DeleteLayer(x) ==
    /\ x \in layers
    /\ layers' = layers \ {x}
    /\ UNCHANGED <<stored, revs, tags, refs, req, indexed>>

-----------------------------------------------------------------------------
(* The list of referrers.                                                  *)

\* Listed referrers whose PUT wrote their entry and that nobody is deleting.
Settled(r, s) ==
    {m \in Manifests :
        /\ <<r, m>> \in revs \intersect indexed /\ Subject[m] = s
        /\ \A p \in Procs : At(p, "delrevision") => Mine(p) # <<r, m>>}

\* The directory is read at once.
ReferrersList(p, r, s) ==
    /\ Begin(p, [Idle EXCEPT !.pc = "blobs", !.op = "list", !.repo = r,
                             !.ref = s, !.todo = ReferrersGet(r, s),
                             !.owed = Settled(r, s)])
    /\ UNCHANGED <<stored, layers, revs, tags, refs, indexed>>

\* A mutant: a referrer that cannot be read is passed over.
SkipReferrer(p) ==
    /\ At(p, "blobs")
    /\ \E m \in req[p].todo :
          req' = [req EXCEPT ![p].todo = @ \ {m},
                             ![p].list = IF m \in stored THEN @ \union {m} ELSE @]
    /\ UNCHANGED <<stored, layers, revs, tags, refs, indexed>>

\* BlobsGet of the next one: without a layer link or a blob the whole
\* request answers 500.
ReadReferrer(p) ==
    /\ At(p, "blobs")
    /\ \E m \in req[p].todo :
          IF <<req[p].repo, m>> \in layers /\ m \in stored
          THEN req' = [req EXCEPT ![p].todo = @ \ {m}, ![p].list = @ \union {m}]
          ELSE Finish(p)
    /\ UNCHANGED <<stored, layers, revs, tags, refs, indexed>>

ReferrersListed(p) ==
    /\ At(p, "blobs") /\ req[p].todo = {}
    /\ Goto(p, "answer")
    /\ UNCHANGED <<stored, layers, revs, tags, refs, indexed>>

-----------------------------------------------------------------------------
Arrive(p) ==
    \/ \E r \in Repos, m \in Manifests, ref \in Tags \union Manifests :
            ManifestsPut(p, r, m, ref)
    \/ \E r \in Repos, ref \in Tags \union Manifests : ManifestsGet(p, r, ref)
    \/ \E r \in Repos, m \in Manifests : ManifestsDelete(p, r, m)
    \/ \E r \in Repos, s \in Manifests : ReferrersList(p, r, s)

Serve(p) ==
    \/ PutRemove(p) \/ PutRename(p) \/ PutRevision(p) \/ TruncateTag(p)
    \/ WriteTag(p) \/ PutReferrer(p)
    \/ Resolve(p) \/ OpenManifest(p) \/ Answer(p)
    \/ DeleteReferrer(p) \/ DeleteRevision(p)
    \/ ReadReferrer(p) \/ ReferrersListed(p)

Next ==
    \/ \E p \in Procs :
            \/ Arrive(p) \/ Serve(p)
            \/ LinkFails(p) \/ FillFails(p) \/ ReferrerFails(p) \/ DeleteFails(p)
    \/ \E x \in Repos \X Tags : DeleteTag(x)
    \/ \E x \in Revisions : DeleteLayer(x)

Spec == Init /\ [][Next]_vars

\* Goroutines are scheduled and file operations return.
FairSpec == Spec /\ \A p \in Procs : WF_vars(Serve(p))

-----------------------------------------------------------------------------
(* Properties.                                                             *)

TypeOK ==
    /\ stored \subseteq Manifests
    /\ layers \subseteq Revisions
    /\ revs \subseteq Revisions
    /\ tags \in [Repos \X Tags -> Manifests \union {None, Torn, Spoilt}]
    /\ refs \subseteq Repos \X Manifests \X Manifests
    /\ req \in [Procs -> Request]
    /\ indexed \subseteq Revisions

\* m can be read, or a PUT of it stands between the remove and the rename.
Published(m) ==
    \/ m \in stored
    \/ \E p \in Procs : At(p, "rename") /\ req[p].man = m

\* Revisions, tags and entries of referrers lead to manifests that can be
\* read: ManifestPut publishes the blob before it writes any of them, and a
\* later PUT replaces it but never loses it.
NothingDangles ==
    /\ \A x \in revs : Published(x[2])
    /\ \A x \in Repos \X Tags : tags[x] \in Manifests => Published(tags[x])
    /\ \A x \in refs : Published(x[3])

\* A listed manifest whose PUT wrote its entry is in the list of its subject's
\* referrers, unless a DELETE of it is under way or has failed: PUTs write
\* the revision before the entry, DELETEs remove the entry before the
\* revision.
ReferrerListed ==
    \A x \in revs \intersect indexed :
        Subject[x[2]] # None =>
            \/ <<x[1], Subject[x[2]], x[2]>> \in refs
            \/ \E p \in Procs : At(p, "delrevision") /\ Mine(p) = x

\* A list of referrers that is answered holds all that were settled when it
\* was asked for, whatever is pushed and deleted meanwhile (ReferrersGet).
ListComplete ==
    \A p \in Procs :
        At(p, "answer") /\ req[p].op = "list" => req[p].owed \subseteq req[p].list

\* An empty tag link is about to be filled, or its write has failed: whatever
\* PUTs and DELETEs of the tag meet, none leaves it empty behind the backs of
\* the others (ManifestPut, ManifestDelete).
TornIsBeingFilled ==
    \A x \in Repos \X Tags : tags[x] = Torn =>
        \E p \in Procs : At(p, "tagwrite") /\ TagOf(p) = x

\* A tag that a PUT truncated is filled or deleted in the end, unless the
\* write fails: readers do not get the error of an empty link for ever
\* (ManifestPut).
TagsSettle == \A x \in Repos \X Tags : tags[x] = Torn ~> tags[x] # Torn

\* What ManifestsList finds in the directories of a repository: revisions
\* and the entries of referrers.
Listed ==
    {x \in Revisions : x \in revs \/ \E s \in Manifests : <<x[1], s, x[2]>> \in refs}

\* The abstract store: manifests are published for good, and repositories
\* list only what is published, one manifest at a time, though it takes four
\* files and several requests may write them.
Store == INSTANCE ContentStore
            WITH Digests <- Manifests,
                 stored <- {m \in Manifests : Published(m)},
                 layers <- Listed

ImplementsStore == Store!Spec

=============================================================================
