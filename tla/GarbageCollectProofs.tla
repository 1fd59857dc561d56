------------------------- MODULE GarbageCollectProofs -------------------------
(***************************************************************************)
(* Proofs about GarbageCollect: type correctness; that a collection keeps  *)
(* what is in use, and the links that lead to it, when untagged manifests  *)
(* are kept and no repository is below another one (whatever clients push  *)
(* and pull meanwhile), and with --delete-untagged when the servers are    *)
(* stopped and marks cannot mix repositories; that an offline collection   *)
(* deletes nothing that was accessed recently and leaves no garbage; and   *)
(* that no collection deletes what was fresh all the time.                 *)
(***************************************************************************)
EXTENDS GarbageCollect, TLAPS

-----------------------------------------------------------------------------
(* Type correctness.                                                       *)

\* What each program point of a PUT may rely on.
ShapeOf(p) ==
    /\ push[p].pc # "idle" => push[p].repo \in Repos /\ push[p].man \in Manifests
    /\ push[p].pc = "tag" => push[p].tag \in Tags
    /\ push[p].pc \in {"tag", "referrer"} => push[p].repo \in known

Shape == \A p \in Pushers : ShapeOf(p)

\* Links are only ever written in a repository that has its directory.
Housed ==
    /\ \A x \in revs : x[1] \in known
    /\ \A x \in refs : x[1] \in known

Typed == StateTypeOK /\ Shape /\ Housed

PushRecord ==
    [pc : {"idle", "blob", "rename", "revision", "tag", "referrer"},
     repo : Repos \union {None},
     man : Manifests \union {None},
     tag : Tags \union {None}]

LEMMA NoPushType == NoPush \in PushRecord
BY DEF NoPush, PushRecord

LEMMA TypeInit == Init => Typed
BY NoPushType, Contents
   DEF Init, Typed, StateTypeOK, Shape, ShapeOf, Housed, PushRecord, NoPush,
       Digests, Revisions, Calls

\* Unlinking takes links away and adds none.
LEMMA UnlinkShrinks ==
    ASSUME NEW r, NEW m, Unlink(r, m)
    PROVE  revs' \subseteq revs /\ refs' \subseteq refs
BY DEF Unlink

\* The directories list manifests.
LEMMA ListsManifests ==
    \A r, m : ManifestsList(r) \subseteq Manifests /\ ReferrersGet(r, m) \subseteq Manifests
BY DEF ManifestsList, ReferrersGet

\* A PUT that ends, or is cut, leaves its goroutine idle.
LEMMA PushEnds ==
    ASSUME Typed, NEW p \in Pushers, push' = [push EXCEPT ![p] = NoPush],
           known' = known
    PROVE  push' \in [Pushers -> PushRecord] /\ Shape'
BY NoPushType DEF Typed, StateTypeOK, Shape, ShapeOf, PushRecord, NoPush

\* A PUT that moves on to its next link.
LEMMA PushMoves ==
    ASSUME Typed, NEW p \in Pushers,
           NEW pc \in {"rename", "revision", "tag", "referrer"},
           push' = [push EXCEPT ![p].pc = pc],
           push[p].pc # "idle", known \subseteq known',
           pc = "tag" => push[p].tag # None,
           pc \in {"tag", "referrer"} => push[p].repo \in known'
    PROVE  push' \in [Pushers -> PushRecord] /\ Shape'
BY DEF Typed, StateTypeOK, Shape, ShapeOf, PushRecord

\* Steps of the collection that touch neither links nor blobs nor PUTs.
LEMMA StoreUnchanged ==
    ASSUME Typed, UNCHANGED <<store, push>>
    PROVE  /\ stored' \subseteq Digests /\ fresh' \subseteq stored'
           /\ known' \subseteq Repos /\ hasTags' \subseteq known'
           /\ revs' \subseteq Revisions
           /\ tags' \in [Repos \X Tags -> Manifests \union {None}]
           /\ refs' \subseteq Repos \X Manifests \X Manifests
           /\ push' \in [Pushers -> PushRecord]
           /\ Shape' /\ Housed'
BY DEF Typed, StateTypeOK, Shape, ShapeOf, Housed, store, PushRecord

LEMMA ForgetType ==
    ASSUME Forget, phase' \in {"off", "failed"}, Typed, UNCHANGED <<store, push>>
    PROVE  Typed'
BY StoreUnchanged DEF Forget, Typed, StateTypeOK, PushRecord

LEMMA ClientTypes == Typed /\ Client => Typed'
<1> SUFFICES ASSUME Typed, Client PROVE Typed'
  OBVIOUS
<1>1. ASSUME NEW b \in Blobs, PushBlob(b) PROVE Typed'
  BY <1>1 DEF PushBlob, Write, Typed, StateTypeOK, Shape, ShapeOf, Housed, Digests,
              gc, marking, planned, history
<1>2. ASSUME NEW d \in Digests, Pull(d) PROVE Typed'
  BY <1>2 DEF Pull, Typed, StateTypeOK, Shape, ShapeOf, Housed, Digests,
              gc, marking, planned, history
<1>3. ASSUME NEW d \in Digests, Age(d) PROVE Typed'
  BY <1>3 DEF Age, Typed, StateTypeOK, Shape, ShapeOf, Housed, Digests,
              gc, marking, planned, history
<1>4. ASSUME NEW p \in Pushers, NEW r \in Repos, NEW m \in Manifests,
             NEW t \in Tags \union {None}, Put(p, r, m, t)
      PROVE  Typed'
  <2> DEFINE x == [pc |-> "blob", repo |-> r, man |-> m, tag |-> t]
  <2>1. x \in PushRecord
    BY DEF PushRecord
  <2>2. push' = [push EXCEPT ![p] = x] /\ UNCHANGED <<store, gc>>
    BY <1>4 DEF Put
  <2>3. push' \in [Pushers -> PushRecord] /\ Shape'
    BY <2>1, <2>2 DEF Typed, StateTypeOK, Shape, ShapeOf, PushRecord, store
  <2> QED
    BY <2>2, <2>3 DEF Typed, StateTypeOK, Housed, store, PushRecord,
                      gc, marking, planned, history
<1>5. ASSUME NEW p \in Pushers, PutBlob(p) PROVE Typed'
  <2>1. push' \in [Pushers -> PushRecord] /\ Shape'
    BY <1>5, PushMoves DEF PutBlob
  <2>2. push[p].man \in Manifests
    BY <1>5 DEF PutBlob, Typed, Shape, ShapeOf
  <2> QED
    BY <1>5, <2>1, <2>2 DEF PutBlob, Write, Typed, StateTypeOK, Housed, Digests,
              PushRecord, gc, marking, planned, history
<1>12. ASSUME NEW p \in Pushers, PutRemove(p) PROVE Typed'
  <2>1. push' \in [Pushers -> PushRecord] /\ Shape'
    BY <1>12, PushMoves DEF PutRemove
  <2> QED
    BY <1>12, <2>1 DEF PutRemove, Typed, StateTypeOK, Housed, PushRecord,
              gc, marking, planned, history
<1>6. ASSUME NEW p \in Pushers, PutRevision(p) PROVE Typed'
  <2> DEFINE pc == IF push[p].tag = None THEN "referrer" ELSE "tag"
  <2>1. push[p].repo \in Repos /\ push[p].man \in Manifests
    BY <1>6 DEF PutRevision, Typed, Shape, ShapeOf
  <2>2. /\ push' = [push EXCEPT ![p].pc = pc]
        /\ known' = known \union {push[p].repo}
        /\ push[p].pc = "revision"
    BY <1>6 DEF PutRevision
  <2>3. pc \in {"rename", "revision", "tag", "referrer"} /\ (pc = "tag" => push[p].tag # None)
    OBVIOUS
  <2> HIDE DEF pc
  <2>4. push' \in [Pushers -> PushRecord] /\ Shape'
    BY <2>2, <2>3, PushMoves
  <2>5. Housed' /\ known' \subseteq Repos /\ hasTags' \subseteq known'
    BY <1>6, <2>1 DEF PutRevision, Typed, StateTypeOK, Housed
  <2> QED
    BY <1>6, <2>1, <2>4, <2>5 DEF PutRevision, Typed, StateTypeOK, Revisions,
              PushRecord, gc, marking, planned, history
<1>7. ASSUME NEW p \in Pushers, PutTag(p) PROVE Typed'
  <2>1. push[p].repo \in known /\ push[p].man \in Manifests /\ push[p].tag \in Tags
    BY <1>7 DEF PutTag, Typed, Shape, ShapeOf
  <2>2. push' \in [Pushers -> PushRecord] /\ Shape'
    BY <1>7, <2>1, PushMoves DEF PutTag
  <2>3. tags' \in [Repos \X Tags -> Manifests \union {None}]
    BY <1>7, <2>1 DEF PutTag, Typed, StateTypeOK
  <2> QED
    BY <1>7, <2>1, <2>2, <2>3 DEF PutTag, Typed, StateTypeOK, Housed,
              PushRecord, gc, marking, planned, history
<1>8. ASSUME NEW p \in Pushers, PutReferrer(p) PROVE Typed'
  <2>1. push' \in [Pushers -> PushRecord] /\ Shape'
    BY <1>8, PushEnds DEF PutReferrer
  <2>2. push[p].repo \in known /\ push[p].man \in Manifests
    BY <1>8 DEF PutReferrer, Typed, Shape, ShapeOf
  <2>3. ReferrerLink(push[p].repo, push[p].man) \subseteq Repos \X Manifests \X Manifests
    BY DEF ReferrerLink
  <2>4. \A x \in ReferrerLink(push[p].repo, push[p].man) : x[1] \in known
    BY <2>2 DEF ReferrerLink
  <2> QED
    BY <1>8, <2>1, <2>3, <2>4 DEF PutReferrer, Typed, StateTypeOK, Housed,
              PushRecord, gc, marking, planned, history
<1>9. ASSUME NEW p \in Pushers, PutCrash(p) PROVE Typed'
  <2>1. push' \in [Pushers -> PushRecord] /\ Shape'
    BY <1>9, PushEnds DEF PutCrash, store
  <2> QED
    BY <1>9, <2>1 DEF PutCrash, Typed, StateTypeOK, Housed, store,
              PushRecord, gc, marking, planned, history
<1>10. ASSUME NEW r \in Repos, NEW t \in Tags, DeleteTag(r, t) PROVE Typed'
  BY <1>10 DEF DeleteTag, Typed, StateTypeOK, Shape, ShapeOf, Housed,
              gc, marking, planned, history
<1>11. ASSUME NEW r \in Repos, NEW m \in Manifests, DeleteManifest(r, m)
       PROVE  Typed'
  <2>1. revs' \subseteq revs /\ refs' \subseteq refs
    BY <1>11, UnlinkShrinks DEF DeleteManifest
  <2> QED
    BY <1>11, <2>1 DEF DeleteManifest, Typed, StateTypeOK, Shape, ShapeOf, Housed,
              gc, marking, planned, history
<1> QED
  BY <1>1, <1>2, <1>3, <1>4, <1>5, <1>6, <1>7, <1>8, <1>9, <1>10, <1>11,
     <1>12 DEF Client

LEMMA CollectorTypes == Typed /\ Collector => Typed'
<1> SUFFICES ASSUME Typed, Collector PROVE Typed'
  OBVIOUS
<1>1. ASSUME StartGC PROVE Typed'
  <2>1. UNCHANGED <<store, push>> /\ pending' \subseteq Repos \X (Tags \union {None})
    BY <1>1 DEF StartGC, RepositoriesList, Typed, StateTypeOK
  <2>2. had' \subseteq Digests /\ used' \subseteq had' /\ junk' \subseteq had'
    BY <1>1 DEF StartGC, InUse, Typed, StateTypeOK
  <2> QED
    BY <1>1, <2>1, <2>2, StoreUnchanged
       DEF StartGC, Typed, StateTypeOK, PushRecord, planned
<1>2. ASSUME NEW r \in Repos, CollectRepo(r) PROVE Typed'
  <2>1. UNCHANGED <<store, push>>
    BY <1>2 DEF CollectRepo
  <2>2. CASE ~DeleteUntagged
    <3>1. {<<r, m>> : m \in ManifestsList(r)} \subseteq Revisions
      BY ListsManifests DEF Revisions
    <3>2. roots' \subseteq Revisions
      BY <1>2, <2>2, <3>1 DEF CollectRepo, Typed, StateTypeOK
    <3>3. /\ pending' \subseteq pending
          /\ UNCHANGED <<phase, todo, seenM, seenB, planned, history>>
      BY <1>2, <2>2 DEF CollectRepo
    <3> QED
      BY <2>1, <3>2, <3>3, StoreUnchanged
         DEF Typed, StateTypeOK, PushRecord, planned, history
  <2>3. CASE DeleteUntagged /\ r \in hasTags
    <3>1. ({r} \X {t \in Tags : tags[<<r, t>>] # None})
              \subseteq Repos \X (Tags \union {None})
      OBVIOUS
    <3> QED
      BY <1>2, <2>1, <2>3, <3>1, StoreUnchanged
         DEF CollectRepo, Typed, StateTypeOK, PushRecord, planned, history
  <2>4. CASE DeleteUntagged /\ r \notin hasTags
    BY <1>2, <2>1, <2>4, ForgetType DEF CollectRepo, Failed
  <2> QED
    BY <2>2, <2>3, <2>4
<1>3. ASSUME NEW r \in Repos, NEW t \in Tags, CollectTag(r, t) PROVE Typed'
  <2>1. tags[<<r, t>>] \in Manifests \union {None}
    BY DEF Typed, StateTypeOK
  <2>2. roots' \subseteq Revisions
    <3>1. CASE tags[<<r, t>>] \in stored
      <4>1. tags[<<r, t>>] \in Manifests
        BY <2>1, <3>1, Contents DEF Typed, StateTypeOK, Digests
      <4> QED
        BY <1>3, <4>1 DEF CollectTag, Typed, StateTypeOK, Revisions
    <3>2. CASE tags[<<r, t>>] \notin stored
      BY <1>3, <3>2 DEF CollectTag, Typed, StateTypeOK
    <3> QED
      BY <3>1, <3>2
  <2> QED
    BY <1>3, <2>2, StoreUnchanged
       DEF CollectTag, Typed, StateTypeOK, PushRecord, planned, history
<1>4. ASSUME RootsCollected PROVE Typed'
  BY <1>4, StoreUnchanged
     DEF RootsCollected, Typed, StateTypeOK, PushRecord, marking, planned, history
<1>5. ASSUME NextRoot PROVE Typed'
  BY <1>5, StoreUnchanged
     DEF NextRoot, Typed, StateTypeOK, PushRecord, planned, history, Calls, Revisions
<1>6. ASSUME NEW r \in Repos, NEW m \in Manifests, MarkManifest(r, m)
      PROVE  Typed'
  <2> DEFINE call == <<"manifest", r, m>>
             calls == NextCalls(r, m)
  <2>1. UNCHANGED <<store, push>>
    BY <1>6 DEF MarkManifest
  <2>2. calls \subseteq Calls /\ BlobsOf[m] \subseteq Blobs
    BY Contents DEF Calls, NextCalls
  <2>3. CASE m \in seenM
    BY <1>6, <2>1, <2>3, StoreUnchanged
       DEF MarkManifest, Typed, StateTypeOK, PushRecord, planned, history
  <2>4. CASE m \notin seenM /\ m \notin stored
    BY <1>6, <2>1, <2>4, StoreUnchanged
       DEF MarkManifest, Typed, StateTypeOK, PushRecord, planned, history
  <2>5. CASE m \notin seenM /\ m \in stored \ Bad
    <3>1. /\ seenM' = seenM \union {m}
          /\ seenB' = seenB \union BlobsOf[m]
          /\ todo' = (todo \ {call}) \union calls
          /\ UNCHANGED <<phase, pending, roots, planned, history>>
      BY <1>6, <2>5 DEF MarkManifest, BlobsMarked
    <3> HIDE DEF calls
    <3> QED
      BY <2>1, <2>2, <3>1, StoreUnchanged
         DEF Typed, StateTypeOK, PushRecord, planned, history
  <2>6. CASE m \notin seenM /\ m \in stored \intersect Bad
    BY <1>6, <2>1, <2>6, ForgetType DEF MarkManifest, Failed
  <2> QED
    BY <2>3, <2>4, <2>5, <2>6
<1>7. ASSUME NEW r \in Repos, NEW m \in Manifests, MarkReferrers(r, m)
      PROVE  Typed'
  <2>1. {<<"manifest", r, x>> : x \in ReferrersGet(r, m)} \subseteq Calls
    BY ListsManifests DEF Calls
  <2>2. todo' \subseteq Calls
    BY <1>7, <2>1 DEF MarkReferrers, Typed, StateTypeOK
  <2>3. UNCHANGED <<store, push>>
    BY <1>7 DEF MarkReferrers
  <2> QED
    BY <1>7, <2>2, <2>3, StoreUnchanged
       DEF MarkReferrers, Typed, StateTypeOK, PushRecord, planned, history
<1>8. ASSUME PlanSweepManifests PROVE Typed'
  BY <1>8, StoreUnchanged
     DEF PlanSweepManifests, Typed, StateTypeOK, PushRecord, marking, history
<1>9. ASSUME PlanSweepBlobs PROVE Typed'
  BY <1>9, StoreUnchanged
     DEF PlanSweepBlobs, Typed, StateTypeOK, PushRecord, marking, history
<1>10. ASSUME NEW r \in Repos, NEW m \in Manifests, SweepManifest(r, m)
       PROVE  Typed'
  <2>1. revs' \subseteq revs /\ refs' \subseteq refs
    BY <1>10, UnlinkShrinks DEF SweepManifest
  <2> QED
    BY <1>10, <2>1 DEF SweepManifest, Typed, StateTypeOK, Shape, ShapeOf, Housed,
              marking, history
<1>11. ASSUME NEW d \in Digests, SweepBlob(d) PROVE Typed'
  BY <1>11 DEF SweepBlob, Typed, StateTypeOK, Shape, ShapeOf, Housed,
              marking, history
<1>12. ASSUME EndGC PROVE Typed'
  BY <1>12, ForgetType DEF EndGC
<1>13. ASSUME StopGC PROVE Typed'
  BY <1>13, ForgetType DEF StopGC
<1> QED
  BY <1>1, <1>2, <1>3, <1>4, <1>5, <1>6, <1>7, <1>8, <1>9, <1>10, <1>11,
     <1>12, <1>13 DEF Collector

LEMMA TypeStep == Typed /\ [Next]_vars => Typed'
<1>1. ASSUME Typed, UNCHANGED vars PROVE Typed'
  BY <1>1, StoreUnchanged
     DEF vars, Typed, StateTypeOK, PushRecord, gc, marking, planned, history
<1> QED
  BY <1>1, ClientTypes, CollectorTypes DEF Next

\* The variables of the store, of the PUTs and of a collection keep their
\* types; a PUT in progress names a repository and a manifest
\* (ManifestPut, GarbageCollect).
THEOREM CollectionTypeCorrect == Spec => []TypeOK
<1> DEFINE Watched == steady \subseteq fresh
<1>1. Typed /\ Watched => TypeOK
  BY DEF Typed, TypeOK
<1>2. Init => Watched
  BY DEF Init
<1>3. Watched /\ [Next]_vars => Watched'
  BY DEF Next, Watch, vars, store
<1> QED
  BY <1>1, <1>2, <1>3, TypeInit, TypeStep, PTL DEF Spec

-----------------------------------------------------------------------------
(* What is in use is kept.  The inductive invariant follows the marking:   *)
(* whatever contains the frontier (what is marked or still to be marked)   *)
(* and is closed under the children of manifests leads to all that was in  *)
(* use; when the frontier is used up, the marked manifests are such a set. *)

\* The manifests that are marked or that the marking will come to.
Frontier ==
    {m \in Manifests :
        \/ m \in seenM
        \/ \E r \in Repos :
              \/ <<"manifest", r, m>> \in todo
              \/ <<r, m>> \in roots
              \/ <<r, None>> \in pending /\ m \in ManifestsList(r)}

Closed(S) == \A m \in S : m \in had => Children[m] \subseteq S

\* From the manifests of S, all that was in use can be found.
Leads(S) == \A d \in used : d \in S \/ \E m \in S : m \in had /\ d \in BlobsOf[m]

FrontierLeads ==
    phase \in {"roots", "mark"} =>
        \A S \in SUBSET Manifests : Frontier \subseteq S /\ Closed(S) => Leads(S)

\* What a marked manifest refers to is marked or about to be.
MarkedInside ==
    phase \in {"roots", "mark"} =>
        \A m \in seenM : m \in had =>
            /\ BlobsOf[m] \subseteq seenB
            /\ \A c \in Children[m] :
                  c \in seenM \/ \E r \in Repos : <<"manifest", r, c>> \in todo

Phases ==
    /\ phase \in {"off", "failed"} =>
            seenM = {} /\ used = {} /\ had = {} /\ planB = {}
    /\ phase # "roots" => pending = {}
    /\ phase \in {"plan", "sweep"} => used \subseteq seenM \union seenB
    /\ phase # "sweep" => planB = {} /\ had \subseteq stored

Kept == used \intersect planB = {}

Replacing(p) == push[p].pc \in {"blob", "rename"}

\* A PUT that has yet to publish its blob during a collection is the only
\* one of that manifest, which is not in the store.
Calm ==
    Collecting => \A p \in Pushers : Replacing(p) =>
        /\ push[p].man \notin stored
        /\ \A q \in Pushers :
              q # p /\ Replacing(q) => push[q].man # push[p].man

KInv == Typed /\ FrontierLeads /\ MarkedInside /\ Phases /\ Kept

LEMMA KeptInit == Init => KInv /\ Calm
BY TypeInit
   DEF Init, KInv, Calm, Collecting, FrontierLeads, MarkedInside, Phases, Kept

\* A longer frontier leads at least as far.
LEMMA FrontierGrows ==
    ASSUME FrontierLeads, phase \in {"roots", "mark"}, Frontier \subseteq Frontier',
           had' = had, used' = used
    PROVE  FrontierLeads'
BY DEF FrontierLeads, Closed, Leads

\* Clients leave the collection alone, and they only add links while it
\* runs.
LEMMA ClientAdds ==
    ASSUME Client
    PROVE  /\ UNCHANGED gc
           /\ Collecting => revs \subseteq revs' /\ refs \subseteq refs'
<1> USE DEF store
<1>1. ASSUME NEW b \in Blobs, PushBlob(b)
      PROVE  UNCHANGED gc /\ revs' = revs /\ refs' = refs
  BY <1>1 DEF PushBlob
<1>2. ASSUME NEW d \in Digests, Pull(d) \/ Age(d)
      PROVE  UNCHANGED gc /\ revs' = revs /\ refs' = refs
  BY <1>2 DEF Pull, Age
<1>3. ASSUME NEW p \in Pushers, NEW r \in Repos, NEW m \in Manifests,
             NEW t \in Tags \union {None}, Put(p, r, m, t)
      PROVE  UNCHANGED gc /\ revs' = revs /\ refs' = refs
  BY <1>3 DEF Put
<1>4. ASSUME NEW p \in Pushers,
             \/ PutRemove(p) \/ PutBlob(p) \/ PutRevision(p) \/ PutTag(p)
             \/ PutReferrer(p) \/ PutCrash(p)
      PROVE  UNCHANGED gc /\ revs \subseteq revs' /\ refs \subseteq refs'
  BY <1>4 DEF PutRemove, PutBlob, PutRevision, PutTag, PutReferrer, PutCrash
<1>5. ASSUME NEW r \in Repos, NEW t \in Tags, DeleteTag(r, t)
      PROVE  UNCHANGED gc /\ revs' = revs /\ refs' = refs
  BY <1>5 DEF DeleteTag
<1>6. ASSUME NEW r \in Repos, NEW m \in Manifests, DeleteManifest(r, m)
      PROVE  UNCHANGED gc /\ ~Collecting
  BY <1>6 DEF DeleteManifest
<1> QED
  BY <1>1, <1>2, <1>3, <1>4, <1>5, <1>6 DEF Client

\* Nobody replaces a manifest while a collection runs: clients take no blob
\* away, and they stay calm.
LEMMA ClientCalm ==
    ASSUME Online => ~Repush, Typed, Calm, Client, Collecting
    PROVE  stored \subseteq stored' /\ Calm'
<1>0. phase' = phase /\ Collecting'
  BY ClientAdds DEF gc, Collecting
<1>1. ASSUME NEW b \in Blobs, PushBlob(b) PROVE stored \subseteq stored' /\ Calm'
  <2>1. \A p \in Pushers : Replacing(p) => push[p].man # b
    BY Contents DEF Typed, Shape, ShapeOf, Replacing
  <2> QED
    BY <1>1, <2>1 DEF PushBlob, Write, Calm, Replacing
<1>2. ASSUME UNCHANGED <<stored, push>> PROVE stored \subseteq stored' /\ Calm'
  BY <1>2 DEF Calm, Replacing
<1>3. ASSUME NEW p \in Pushers, NEW r \in Repos, NEW m \in Manifests,
             NEW t \in Tags \union {None}, Put(p, r, m, t)
      PROVE  stored \subseteq stored' /\ Calm'
  <2>1. New(m)
    BY <1>3 DEF Put, ServerRuns
  <2>2. /\ stored' = stored
        /\ push[p].pc = "idle"
        /\ push' = [push EXCEPT ![p] = [pc |-> "blob", repo |-> r, man |-> m, tag |-> t]]
    BY <1>3 DEF Put, store
  <2>3. \A q \in Pushers \ {p} : push'[q] = push[q]
    BY <2>2 DEF Typed, StateTypeOK
  <2>4. push'[p].pc = "blob" /\ push'[p].man = m
    BY <2>2 DEF Typed, StateTypeOK
  <2> QED
    BY <2>1, <2>2, <2>3, <2>4 DEF New, Calm, Replacing
<1>4. ASSUME NEW p \in Pushers, PutRemove(p) PROVE stored \subseteq stored' /\ Calm'
  <2>1. push[p].man \notin stored /\ push[p].pc = "blob"
    BY <1>4 DEF PutRemove, Calm, Replacing
  <2>2. stored' = stored
    BY <1>4, <2>1 DEF PutRemove
  <2>3. /\ \A q \in Pushers \ {p} : push'[q] = push[q]
        /\ push'[p].man = push[p].man
    BY <1>4 DEF PutRemove, Typed, StateTypeOK
  <2> QED
    BY <2>1, <2>2, <2>3 DEF Calm, Replacing
<1>5. ASSUME NEW p \in Pushers, PutBlob(p) PROVE stored \subseteq stored' /\ Calm'
  <2>1. stored' = stored \union {push[p].man} /\ push[p].pc = "rename"
    BY <1>5 DEF PutBlob, Write
  <2>2. /\ \A q \in Pushers \ {p} : push'[q] = push[q]
        /\ push'[p].pc = "revision"
    BY <1>5 DEF PutBlob, Typed, StateTypeOK
  <2> QED
    BY <2>1, <2>2 DEF Calm, Replacing
<1>6. ASSUME NEW p \in Pushers,
             PutRevision(p) \/ PutTag(p) \/ PutReferrer(p) \/ PutCrash(p)
      PROVE  stored \subseteq stored' /\ Calm'
  <2>1. stored' = stored
    BY <1>6 DEF PutRevision, PutTag, PutReferrer, PutCrash, store
  <2>2. /\ \A q \in Pushers \ {p} : push'[q] = push[q]
        /\ push'[p].pc \notin {"blob", "rename"}
    BY <1>6 DEF PutRevision, PutTag, PutReferrer, PutCrash, NoPush, Typed, StateTypeOK
  <2> QED
    BY <2>1, <2>2 DEF Calm, Replacing
<1>7. ASSUME NEW d \in Digests, Pull(d) \/ Age(d) PROVE UNCHANGED <<stored, push>>
  BY <1>7 DEF Pull, Age
<1>8. /\ \A r \in Repos, t \in Tags : ~DeleteTag(r, t)
      /\ \A r \in Repos, m \in Manifests : ~DeleteManifest(r, m)
  BY DEF DeleteTag, DeleteManifest
<1> QED
  BY <1>1, <1>2, <1>3, <1>4, <1>5, <1>6, <1>7, <1>8 DEF Client

LEMMA ClientKeeps ==
    ASSUME Online => ~Repush, KInv, Calm, Client
    PROVE  KInv' /\ Calm'
<1>1. /\ UNCHANGED <<phase, pending, roots, todo, seenM, seenB, planB, had, used>>
      /\ Collecting => revs \subseteq revs' /\ refs \subseteq refs'
  BY ClientAdds DEF gc, marking, planned, history
<1>5. (Collecting => stored \subseteq stored') /\ Calm'
  <2>1. CASE Collecting
    BY <2>1, ClientCalm DEF KInv
  <2>2. CASE ~Collecting
    BY <1>1, <2>2 DEF Calm, Collecting
  <2> QED
    BY <2>1, <2>2
<1>2. FrontierLeads'
  <2>1. CASE phase \in {"roots", "mark"}
    <3>1. \A r : ManifestsList(r) \subseteq ManifestsList(r)'
      BY <1>1, <2>1 DEF ManifestsList, Collecting
    <3>2. Frontier \subseteq Frontier'
      BY <1>1, <3>1 DEF Frontier
    <3> QED
      BY <1>1, <2>1, <3>2, FrontierGrows DEF KInv
  <2>2. CASE phase \notin {"roots", "mark"}
    BY <1>1, <2>2 DEF FrontierLeads
  <2> QED
    BY <2>1, <2>2
<1>3. MarkedInside'
  BY <1>1 DEF KInv, MarkedInside
<1>4. Phases' /\ Kept'
  BY <1>1, <1>5 DEF KInv, Phases, Kept, Collecting, Typed, StateTypeOK
<1> QED
  BY <1>2, <1>3, <1>4, <1>5, ClientTypes DEF KInv

\* The collection starts in a calm store and leaves it so.
LEMMA CollectorCalm ==
    ASSUME Online => ~Repush, Typed, Calm, Collector
    PROVE  Calm'
<1>1. CASE StartGC
  <2>1. \A p \in Pushers : ~Replacing(p)
    BY <1>1 DEF StartGC, MayStart, Replacing
  <2>2. push' = push
    BY <1>1 DEF StartGC
  <2> QED
    BY <2>1, <2>2 DEF Calm, Replacing
<1>2. CASE ~StartGC
  <2>1. stored' \subseteq stored /\ push' = push /\ Collecting
    BY <1>2 DEF Collector, CollectRepo, CollectTag, RootsCollected, NextRoot,
                MarkManifest, MarkReferrers, PlanSweepManifests, PlanSweepBlobs,
                SweepManifest, SweepBlob, EndGC, StopGC, Collecting, store
  <2> QED
    BY <2>1 DEF Calm, Replacing
<1> QED
  BY <1>1, <1>2

\* When a collection begins, the manifests that the repositories list lead
\* to all that is in use.
LEMMA StartLeads ==
    ASSUME Typed, ~DeleteUntagged, Nested = {}, StartGC
    PROVE  FrontierLeads'
<1> SUFFICES ASSUME NEW S \in SUBSET Manifests,
                    (Frontier \subseteq S)', Closed(S)'
             PROVE  Leads(S)'
  BY DEF FrontierLeads
<1>1. had' = stored /\ used' = InUse
  BY DEF StartGC
<1>2. \A r \in known : \A m \in ManifestsList(r) : m \in S
  <2> SUFFICES ASSUME NEW r \in known, NEW m \in ManifestsList(r) PROVE m \in S
    OBVIOUS
  <2>1. r \in Repos /\ m \in Manifests /\ ManifestsList(r)' = ManifestsList(r)
    BY ListsManifests DEF Typed, StateTypeOK, StartGC, store, ManifestsList
  <2>2. <<r, None>> \in pending'
    BY <2>1 DEF StartGC, RepositoriesList
  <2>3. m \in Frontier'
    BY <2>1, <2>2 DEF Frontier
  <2> QED
    BY <2>3
<1> DEFINE P == Repos \X S
<1>3. P \in SUBSET Revisions
  BY DEF Revisions
<1>4. RootPairs \subseteq P
  BY <1>2 DEF RootPairs, Revisions
<1>5. ClosedPairs(P)
  <2> SUFFICES ASSUME NEW p \in P, p[2] \in stored,
                      NEW x \in Children[p[2]] \union ReferrersGet(p[1], p[2])
               PROVE  <<p[1], x>> \in P
    BY DEF ClosedPairs
  <2>1. CASE x \in Children[p[2]]
    BY <1>1, <2>1 DEF Closed
  <2>2. CASE x \in ReferrersGet(p[1], p[2])
    <3>1. <<p[1], p[2], x>> \in refs /\ x \in Manifests
      BY <2>2 DEF ReferrersGet
    <3>2. p[1] \in known /\ x \in ManifestsList(p[1])
      BY <3>1 DEF Typed, Housed, ManifestsList
    <3> QED
      BY <1>2, <3>2
  <2> QED
    BY <2>1, <2>2
<1>6. Reachable \subseteq P
  BY <1>3, <1>4, <1>5 DEF Reachable
<1> SUFFICES ASSUME NEW d \in InUse
             PROVE  d \in S \/ \E m \in S : m \in stored /\ d \in BlobsOf[m]
  BY <1>1 DEF Leads
<1>7. PICK p \in Reachable : d = p[2] \/ (p[2] \in stored /\ d \in BlobsOf[p[2]])
  BY DEF InUse
<1>8. p[2] \in S
  BY <1>6
<1> QED
  BY <1>7, <1>8

LEMMA StartKeeps ==
    ASSUME KInv, ~DeleteUntagged, Nested = {}, StartGC
    PROVE  KInv'
<1>1. FrontierLeads'
  BY StartLeads DEF KInv
<1>2. Typed'
  BY CollectorTypes DEF KInv, Collector
<1>3. /\ phase' = "roots" /\ had' = stored /\ used' = InUse
      /\ stored' = stored /\ UNCHANGED <<seenM, planB>>
      /\ phase \in {"off", "failed"}
  BY DEF StartGC, Collecting, store, planned, KInv, Typed, StateTypeOK
<1>4. seenM' = {} /\ planB' = {}
  BY <1>3 DEF KInv, Phases
<1>5. MarkedInside'
  BY <1>4 DEF MarkedInside
<1>6. Phases' /\ Kept'
  BY <1>3, <1>4 DEF Phases, Kept, InUse
<1> QED
  BY <1>1, <1>2, <1>5, <1>6 DEF KInv

\* A collection that is over has nothing to keep.
LEMMA ForgetKeeps ==
    ASSUME Typed', Forget, phase' \in {"off", "failed"}
    PROVE  KInv'
BY DEF KInv, FrontierLeads, MarkedInside, Phases, Kept, Forget

\* A step of the marking: it moves along the frontier and marks what a
\* manifest refers to together with it.
LEMMA MarkKeeps ==
    ASSUME KInv, Typed', Frontier \subseteq Frontier', MarkedInside',
           phase \in {"roots", "mark"}, phase' \in {"roots", "mark"},
           phase' # "roots" => pending' = {},
           stored' = stored, UNCHANGED <<planned, history>>
    PROVE  KInv'
<1>1. FrontierLeads'
  BY FrontierGrows DEF KInv, history
<1>2. Phases' /\ Kept'
  BY DEF KInv, Phases, Kept, planned, history
<1> QED
  BY <1>1, <1>2 DEF KInv

LEMMA MarkManifestKeeps ==
    ASSUME KInv, NEW r \in Repos, NEW m \in Manifests, MarkManifest(r, m)
    PROVE  KInv'
<1> DEFINE call == <<"manifest", r, m>>
           calls == NextCalls(r, m)
<1>1. Typed'
  BY CollectorTypes DEF KInv, Collector
<1>2. /\ phase = "mark" /\ call \in todo /\ pending = {}
      /\ had \subseteq stored
      /\ stored' = stored /\ revs' = revs /\ refs' = refs
  BY DEF MarkManifest, KInv, Phases, store
<1>3. \A x : ManifestsList(x)' = ManifestsList(x)
  BY <1>2 DEF ManifestsList
<1>4. CASE m \in seenM \/ m \notin stored
  <2>1. /\ todo' = todo \ {call} /\ seenM' = seenM \union {m}
        /\ UNCHANGED <<phase, pending, roots, seenB, planned, history>>
    BY <1>4 DEF MarkManifest
  <2>2. Frontier \subseteq Frontier'
    BY <1>2, <1>3, <2>1 DEF Frontier
  <2>3. MarkedInside'
    BY <1>2, <1>4, <2>1 DEF KInv, MarkedInside, history
  <2> QED
    BY <1>1, <1>2, <2>1, <2>2, <2>3, MarkKeeps
<1>5. CASE m \notin seenM /\ m \in stored \ Bad
  <2>1. /\ seenM' = seenM \union {m}
        /\ seenB' = seenB \union BlobsOf[m]
        /\ todo' = (todo \ {call}) \union calls
        /\ UNCHANGED <<phase, pending, roots, planned, history>>
    BY <1>5 DEF MarkManifest, BlobsMarked
  <2>2. \A c \in Children[m] : <<"manifest", r, c>> \in todo'
    BY <2>1 DEF NextCalls
  <2>3. todo \ {call} \subseteq todo'
    BY <2>1
  <2> HIDE DEF calls
  <2>4. Frontier \subseteq Frontier'
    BY <1>3, <2>1, <2>3 DEF Frontier
  <2>5. MarkedInside'
    <3> SUFFICES ASSUME NEW n \in seenM', n \in had
                 PROVE  /\ BlobsOf[n] \subseteq seenB'
                        /\ \A c \in Children[n] :
                              c \in seenM' \/ \E q \in Repos : <<"manifest", q, c>> \in todo'
      BY <2>1 DEF MarkedInside, history
    <3>1. CASE n = m
      BY <2>1, <2>2, <3>1
    <3>2. CASE n # m
      <4>1. n \in seenM
        BY <2>1, <3>2
      <4>2. /\ BlobsOf[n] \subseteq seenB
            /\ \A c \in Children[n] :
                  c \in seenM \/ \E q \in Repos : <<"manifest", q, c>> \in todo
        BY <1>2, <4>1 DEF KInv, MarkedInside
      <4> QED
        BY <2>1, <2>3, <4>2
    <3> QED
      BY <3>1, <3>2
  <2> QED
    BY <1>1, <1>2, <2>1, <2>4, <2>5, MarkKeeps
<1>6. CASE m \notin seenM /\ m \in stored \intersect Bad
  BY <1>1, <1>6, ForgetKeeps DEF MarkManifest, Failed
<1> QED
  BY <1>4, <1>5, <1>6

LEMMA CollectorKeeps ==
    ASSUME ~DeleteUntagged, Nested = {}, KInv, Collector
    PROVE  KInv'
<1>1. Typed'
  BY CollectorTypes DEF KInv
<1>2. ASSUME StartGC PROVE KInv'
  BY <1>2, StartKeeps
<1>3. ASSUME NEW r \in Repos, CollectRepo(r) PROVE KInv'
  <2>1. /\ phase = "roots" /\ <<r, None>> \in pending
        /\ roots' = roots \union {<<r, m>> : m \in ManifestsList(r)}
        /\ pending' = pending \ {<<r, None>>}
        /\ UNCHANGED <<phase, todo, seenM, seenB, planned, history>>
        /\ stored' = stored /\ revs' = revs /\ refs' = refs
    BY <1>3 DEF CollectRepo, store
  <2>2. \A x : ManifestsList(x)' = ManifestsList(x)
    BY <2>1 DEF ManifestsList
  <2>3. \A m \in ManifestsList(r) : <<r, m>> \in roots'
    BY <2>1
  <2>4. roots \subseteq roots'
    BY <2>1
  <2>5. Frontier \subseteq Frontier'
    BY <2>1, <2>2, <2>3, <2>4 DEF Frontier
  <2>6. MarkedInside'
    BY <2>1 DEF KInv, MarkedInside, history
  <2> QED
    BY <1>1, <2>1, <2>5, <2>6, MarkKeeps
<1>4. ASSUME NEW r \in Repos, NEW t \in Tags, CollectTag(r, t) PROVE KInv'
  <2>1. /\ phase = "roots" /\ roots \subseteq roots'
        /\ pending' = pending \ {<<r, t>>}
        /\ UNCHANGED <<phase, todo, seenM, seenB, planned, history>>
        /\ stored' = stored /\ revs' = revs /\ refs' = refs
    BY <1>4 DEF CollectTag, store
  <2>2. \A x : ManifestsList(x)' = ManifestsList(x)
    BY <2>1 DEF ManifestsList
  <2>3. \A q \in Repos : <<q, None>> \in pending => <<q, None>> \in pending'
    BY <2>1, Contents
  <2>4. Frontier \subseteq Frontier'
    BY <2>1, <2>2, <2>3 DEF Frontier
  <2>5. MarkedInside'
    BY <2>1 DEF KInv, MarkedInside, history
  <2> QED
    BY <1>1, <2>1, <2>4, <2>5, MarkKeeps
<1>5. ASSUME RootsCollected PROVE KInv'
  <2>1. /\ phase = "roots" /\ phase' = "mark" /\ pending' = {}
        /\ UNCHANGED <<pending, roots, todo, seenM, seenB, planned, history>>
        /\ stored' = stored /\ revs' = revs /\ refs' = refs
    BY <1>5 DEF RootsCollected, store, marking
  <2>2. Frontier \subseteq Frontier'
    BY <2>1 DEF Frontier, ManifestsList
  <2>3. MarkedInside'
    BY <2>1 DEF KInv, MarkedInside, history
  <2> QED
    BY <1>1, <2>1, <2>2, <2>3, MarkKeeps
<1>6. ASSUME NextRoot PROVE KInv'
  <2>1. PICK x \in roots : /\ todo' = {<<"manifest", x[1], x[2]>>}
                           /\ roots' = roots \ {x}
    BY <1>6 DEF NextRoot
  <2>2. /\ phase = "mark" /\ todo = {} /\ pending = {}
        /\ UNCHANGED <<phase, pending, seenM, seenB, planned, history>>
        /\ stored' = stored /\ revs' = revs /\ refs' = refs
    BY <1>6 DEF NextRoot, store, KInv, Phases
  <2>3. \A r \in Repos, m \in Manifests :
            <<r, m>> \in roots => <<r, m>> \in roots' \/ <<"manifest", r, m>> \in todo'
    BY <2>1
  <2>4. Frontier \subseteq Frontier'
    BY <2>2, <2>3 DEF Frontier
  <2>5. MarkedInside'
    BY <2>2 DEF KInv, MarkedInside, history
  <2> QED
    BY <1>1, <2>2, <2>4, <2>5, MarkKeeps
<1>7. ASSUME NEW r \in Repos, NEW m \in Manifests, MarkManifest(r, m)
      PROVE  KInv'
  BY <1>7, MarkManifestKeeps
<1>8. ASSUME NEW r \in Repos, NEW m \in Manifests, MarkReferrers(r, m)
      PROVE  KInv'
  <2>1. /\ phase = "mark" /\ pending = {}
        /\ todo \ {<<"referrers", r, m>>} \subseteq todo'
        /\ UNCHANGED <<phase, pending, roots, seenM, seenB, planned, history>>
        /\ stored' = stored /\ revs' = revs /\ refs' = refs
    BY <1>8 DEF MarkReferrers, store, KInv, Phases
  <2>2. \A q, n : <<"manifest", q, n>> \in todo => <<"manifest", q, n>> \in todo'
    BY <2>1
  <2>3. Frontier \subseteq Frontier'
    BY <2>1, <2>2 DEF Frontier
  <2>4. MarkedInside'
    BY <2>1, <2>2 DEF KInv, MarkedInside, history
  <2> QED
    BY <1>1, <2>1, <2>3, <2>4, MarkKeeps
<1>9. ASSUME PlanSweepManifests PROVE KInv'
  <2>1. /\ phase = "mark" /\ todo = {} /\ roots = {} /\ pending = {}
        /\ phase' = "plan"
        /\ UNCHANGED <<stored, pending, seenM, seenB, planB, had, used>>
    BY <1>9 DEF PlanSweepManifests, store, marking, history, KInv, Phases
  <2>2. seenM \in SUBSET Manifests /\ Frontier \subseteq seenM
    BY <2>1 DEF Frontier, KInv, Typed, StateTypeOK
  <2>3. Closed(seenM)
    BY <2>1 DEF Closed, KInv, MarkedInside
  <2>4. Leads(seenM)
    BY <2>1, <2>2, <2>3 DEF KInv, FrontierLeads
  <2>5. used \subseteq seenM \union seenB
    BY <2>1, <2>4 DEF Leads, KInv, MarkedInside
  <2>6. Phases' /\ Kept'
    BY <2>1, <2>5 DEF KInv, Phases, Kept
  <2>7. FrontierLeads' /\ MarkedInside'
    BY <2>1 DEF FrontierLeads, MarkedInside
  <2> QED
    BY <1>1, <2>6, <2>7 DEF KInv
<1>10. ASSUME PlanSweepBlobs PROVE KInv'
  <2>1. /\ phase = "plan" /\ phase' = "sweep"
        /\ planB' = stored \ (fresh \union seenM \union seenB)
        /\ UNCHANGED <<stored, pending, seenM, seenB, had, used>>
    BY <1>10 DEF PlanSweepBlobs, store, marking, history
  <2>2. Phases' /\ Kept'
    BY <2>1 DEF KInv, Phases, Kept
  <2>3. FrontierLeads' /\ MarkedInside'
    BY <2>1 DEF FrontierLeads, MarkedInside
  <2> QED
    BY <1>1, <2>2, <2>3 DEF KInv
<1>11. ASSUME NEW r \in Repos, NEW m \in Manifests, SweepManifest(r, m)
       PROVE  KInv'
  <2>1. /\ phase = "sweep" /\ phase' = "sweep"
        /\ UNCHANGED <<stored, pending, seenM, seenB, planB, had, used>>
    BY <1>11 DEF SweepManifest, marking, history
  <2> QED
    BY <1>1, <2>1 DEF KInv, Phases, Kept, FrontierLeads, MarkedInside
<1>12. ASSUME NEW d \in Digests, SweepBlob(d) PROVE KInv'
  <2>1. /\ phase = "sweep" /\ phase' = "sweep" /\ d \in planB
        /\ stored' = stored \ {d} /\ planB' = planB \ {d}
        /\ UNCHANGED <<pending, seenM, seenB, had, used>>
    BY <1>12 DEF SweepBlob, marking, history
  <2> QED
    BY <1>1, <2>1 DEF KInv, Phases, Kept, FrontierLeads, MarkedInside
<1>13. ASSUME EndGC \/ StopGC PROVE KInv'
  BY <1>1, <1>13, ForgetKeeps DEF EndGC, StopGC
<1> QED
  BY <1>2, <1>3, <1>4, <1>5, <1>6, <1>7, <1>8, <1>9, <1>10, <1>11, <1>12,
     <1>13 DEF Collector

LEMMA StutterKeeps == KInv /\ UNCHANGED vars => KInv'
<1> SUFFICES ASSUME KInv, UNCHANGED vars PROVE KInv'
  OBVIOUS
<1>1. Typed'
  BY TypeStep DEF KInv
<1>2. UNCHANGED <<stored, known, revs, refs, phase, pending, roots, todo,
                  seenM, seenB, planB, had, used>>
  BY DEF vars, store, gc, marking, planned, history
<1>3. Frontier' = Frontier
  BY <1>2 DEF Frontier, ManifestsList
<1> QED
  BY <1>1, <1>2, <1>3
     DEF KInv, FrontierLeads, Closed, Leads, MarkedInside, Phases, Kept

\* Of the steps of a collection, only the sweep of blobs takes blobs away.
LEMMA OnlySweepDeletes ==
    ASSUME Collector, NEW d \in stored, d \notin stored'
    PROVE  phase = "sweep" /\ d \in planB
<1>1. ASSUME NEW x \in Digests, SweepBlob(x)
      PROVE  phase = "sweep" /\ x \in planB /\ stored' = stored \ {x}
  BY <1>1 DEF SweepBlob
<1>2. ASSUME \A x \in Digests : ~SweepBlob(x) PROVE stored' = stored
  BY <1>2 DEF Collector, StartGC, CollectRepo, CollectTag, RootsCollected, NextRoot,
              MarkManifest, MarkReferrers, PlanSweepManifests, PlanSweepBlobs,
              SweepManifest, EndGC, StopGC, store
<1> QED
  BY <1>1, <1>2

\* When untagged manifests are kept, no repository is below another and no
\* manifest is pushed again meanwhile, a collection deletes nothing that was
\* in use when it began, whatever else is pushed, pulled and aged while it
\* marks and sweeps (GarbageCollect).
THEOREM ReachableHolds ==
    ASSUME ~DeleteUntagged, Nested = {}, Online => ~Repush
    PROVE  Spec => ReachableKept
<1>1. KInv /\ Calm /\ [Next]_vars => KInv' /\ Calm'
  <2>1. Calm /\ UNCHANGED vars => Calm'
    BY DEF Calm, Collecting, Replacing, vars, store, gc
  <2> QED
    BY <2>1, ClientKeeps, CollectorKeeps, CollectorCalm, StutterKeeps DEF Next, KInv
<1>2. KInv /\ [Next]_vars =>
        [used \intersect stored \subseteq stored' \/ ~Collector]_vars
  BY OnlySweepDeletes DEF KInv, Kept
<1> QED
  BY <1>1, <1>2, KeptInit, PTL DEF Spec, ReachableKept

-----------------------------------------------------------------------------
(* Offline, the store is still while a collection marks: nothing fresh is  *)
(* planned, and all that is marked is in use.                              *)

Still ==
    /\ Collecting => \A p \in Pushers : push[p].pc = "idle"
    /\ planB \intersect fresh = {}
    /\ phase # "sweep" => planB = {}

SInv == Typed /\ Still

LEMMA StillInit == Init => SInv
BY TypeInit DEF Init, SInv, Still, NoPush, Collecting

\* Offline, clients do nothing while a collection runs; only time passes.
LEMMA OfflineClient ==
    ASSUME ~Online, SInv, Client, Collecting
    PROVE  /\ fresh' \subseteq fresh
           /\ UNCHANGED <<stored, known, hasTags, revs, tags, refs, push, gc>>
<1>1. ~ServerRuns
  BY DEF ServerRuns
<1>2. \A p \in Pushers : push[p].pc = "idle"
  BY DEF SInv, Still
<1>3. PICK d \in Digests : Age(d)
  <2>1. \A p \in Pushers :
            ~(PutRemove(p) \/ PutBlob(p) \/ PutRevision(p) \/ PutTag(p) \/ PutReferrer(p) \/ PutCrash(p))
    BY <1>2 DEF PutRemove, PutBlob, PutRevision, PutTag, PutReferrer, PutCrash
  <2> QED
    BY <1>1, <2>1 DEF Client, PushBlob, Pull, Put, DeleteTag, DeleteManifest
<1> QED
  BY <1>3 DEF Age

\* When none runs, they leave the collection alone.
LEMMA StillClient ==
    ASSUME ~Online, SInv, Client
    PROVE  SInv'
<1>1. Typed'
  BY ClientTypes DEF SInv
<1>2. CASE Collecting
  <2>1. fresh' \subseteq fresh /\ UNCHANGED <<push, phase, planB>>
    BY <1>2, OfflineClient DEF gc, planned
  <2> QED
    BY <1>1, <2>1 DEF SInv, Still, Collecting
<1>3. CASE ~Collecting
  <2>1. UNCHANGED <<phase, planB>>
    BY ClientAdds DEF gc, planned
  <2> QED
    BY <1>1, <1>3, <2>1 DEF SInv, Still, Collecting
<1> QED
  BY <1>2, <1>3

LEMMA StillCollector ==
    ASSUME ~Online, SInv, Collector
    PROVE  SInv'
<1>1. Typed'
  BY CollectorTypes DEF SInv
<1>2. ASSUME Forget, phase' \in {"off", "failed"}, UNCHANGED push PROVE SInv'
  BY <1>1, <1>2 DEF SInv, Still, Forget, Collecting
<1>3. ASSUME StartGC PROVE SInv'
  BY <1>1, <1>3 DEF StartGC, MayStart, SInv, Still, Collecting, store, planned
<1>4. ASSUME phase \in {"roots", "mark"}, phase' \in {"roots", "mark", "plan"},
             UNCHANGED <<store, push, planB>>
      PROVE  SInv'
  BY <1>1, <1>4 DEF SInv, Still, Collecting, store
<1>5. ASSUME NEW r \in Repos, CollectRepo(r) PROVE SInv'
  BY <1>2, <1>4, <1>5 DEF CollectRepo, Failed, planned
<1>6. ASSUME NEW r \in Repos, NEW t \in Tags, CollectTag(r, t) PROVE SInv'
  BY <1>4, <1>6 DEF CollectTag, planned
<1>7. ASSUME RootsCollected \/ NextRoot PROVE SInv'
  BY <1>4, <1>7 DEF RootsCollected, NextRoot, planned
<1>8. ASSUME NEW r \in Repos, NEW m \in Manifests, MarkManifest(r, m)
      PROVE  SInv'
  <2>1. \/ Failed /\ Forget
        \/ UNCHANGED <<phase, planned>>
    BY <1>8 DEF MarkManifest
  <2>2. phase = "mark" /\ UNCHANGED <<store, push>>
    BY <1>8 DEF MarkManifest
  <2> QED
    BY <1>2, <1>4, <2>1, <2>2 DEF Failed, planned
<1>9. ASSUME NEW r \in Repos, NEW m \in Manifests, MarkReferrers(r, m)
      PROVE  SInv'
  <2>1. phase = "mark" /\ UNCHANGED <<store, push, phase, planned>>
    BY <1>9 DEF MarkReferrers
  <2> QED
    BY <1>4, <2>1 DEF planned
<1>10. ASSUME PlanSweepManifests PROVE SInv'
  BY <1>4, <1>10 DEF PlanSweepManifests
<1>11. ASSUME PlanSweepBlobs PROVE SInv'
  BY <1>1, <1>11 DEF PlanSweepBlobs, SInv, Still, Collecting, store
<1>12. ASSUME NEW r \in Repos, NEW m \in Manifests, SweepManifest(r, m)
       PROVE  SInv'
  BY <1>1, <1>12 DEF SweepManifest, SInv, Still, Collecting
<1>13. ASSUME NEW d \in Digests, SweepBlob(d) PROVE SInv'
  BY <1>1, <1>13 DEF SweepBlob, SInv, Still, Collecting
<1>14. ASSUME EndGC \/ StopGC PROVE SInv'
  BY <1>2, <1>14 DEF EndGC, StopGC
<1> QED
  BY <1>3, <1>5, <1>6, <1>7, <1>8, <1>9, <1>10, <1>11, <1>12, <1>13, <1>14
     DEF Collector

LEMMA StillStep == ~Online /\ SInv /\ [Next]_vars => SInv'
<1>1. ASSUME SInv, UNCHANGED vars PROVE SInv'
  BY <1>1, TypeStep
     DEF SInv, Still, Collecting, vars, store, gc, planned
<1> QED
  BY <1>1, StillClient, StillCollector DEF Next

\* With the servers stopped, a collection deletes nothing that was accessed
\* within --last-access (planSweepBlobs).
THEOREM FreshHolds == ASSUME ~Online PROVE Spec => FreshNotDeleted
<1>1. SInv /\ [Next]_vars => SInv'
  BY StillStep
<1>2. SInv /\ [Next]_vars => [fresh \subseteq stored' \/ ~Collector]_vars
  <2> SUFFICES ASSUME SInv, Collector, NEW d \in fresh PROVE d \in stored'
    OBVIOUS
  <2>1. d \in stored
    BY DEF SInv, Typed, StateTypeOK
  <2> QED
    BY <2>1, OnlySweepDeletes DEF SInv, Still
<1> QED
  BY <1>1, <1>2, StillInit, PTL DEF Spec, FreshNotDeleted

-----------------------------------------------------------------------------
(* While servers run, the plan holds nothing that was fresh all along.      *)

Unplanned ==
    /\ planB \intersect steady = {}
    /\ phase # "sweep" => planB = {}
    /\ steady \subseteq fresh

\* The plan of blobs is made once, and of what is not fresh then.
LEMMA PlanOnce ==
    ASSUME Collector
    PROVE  \/ UNCHANGED planB /\ phase = phase'
           \/ UNCHANGED planB /\ phase # "sweep" /\ phase' # "sweep"
           \/ planB' = {}
           \/ PlanSweepBlobs
           \/ planB' \subseteq planB /\ phase = "sweep" /\ phase' = "sweep"
<1>1. ASSUME NEW r \in Repos, NEW m \in Manifests, MarkManifest(r, m)
      PROVE  planB' = {} \/ (UNCHANGED planB /\ phase = phase')
  BY <1>1 DEF MarkManifest, Forget, planned
<1>2. ASSUME NEW r \in Repos, CollectRepo(r)
      PROVE  planB' = {} \/ (UNCHANGED planB /\ phase = phase')
  BY <1>2 DEF CollectRepo, Forget, planned
<1> QED
  BY <1>1, <1>2
  DEF Collector, StartGC, Collecting, CollectTag, RootsCollected, NextRoot,
      MarkReferrers, PlanSweepManifests, SweepManifest, SweepBlob, EndGC,
      StopGC, Forget, planned

\* A collection deletes nothing that was accessed within --last-access from
\* its start on, whatever clients do meanwhile (GarbageCollect).
THEOREM SteadyHolds == Spec => SteadyNotDeleted
<1> DEFINE I == Typed /\ Unplanned
<1>1. Init => I
  BY TypeInit DEF Init, Unplanned
<1>2. I /\ [Next]_vars => I'
  <2> SUFFICES ASSUME I, [Next]_vars PROVE Unplanned'
    BY TypeStep
  <2>1. CASE UNCHANGED vars
    BY <2>1 DEF Unplanned, vars, store, gc, planned
  <2>2. ASSUME Watch PROVE steady' \subseteq fresh'
    BY <2>2 DEF Watch
  <2>3. CASE Client /\ Watch
    <3>1. UNCHANGED <<phase, planB>>
      BY <2>3, ClientAdds DEF gc, planned
    <3> QED
      BY <2>2, <2>3, <3>1 DEF Unplanned, Watch, Collecting
  <2>4. CASE Collector /\ Watch
    <3>1. CASE PlanSweepBlobs
      BY <2>2, <2>4, <3>1 DEF PlanSweepBlobs, Unplanned, Watch, Collecting
    <3>2. CASE ~PlanSweepBlobs
      BY <2>2, <2>4, <3>2, PlanOnce DEF Unplanned, Watch, Collecting
    <3> QED
      BY <3>1, <3>2
  <2> QED
    BY <2>1, <2>3, <2>4 DEF Next
<1>3. I /\ [Next]_vars => [steady \subseteq stored' \/ ~Collector]_vars
  <2> SUFFICES ASSUME I, Collector, NEW d \in steady PROVE d \in stored'
    OBVIOUS
  <2>1. d \in stored
    BY DEF Unplanned, Typed, StateTypeOK
  <2> QED
    BY <2>1, OnlySweepDeletes DEF Unplanned
<1> QED
  BY <1>1, <1>2, <1>3, PTL DEF Spec, SteadyNotDeleted

-----------------------------------------------------------------------------
(* Offline, all garbage goes: the marking never leaves what is in use, so  *)
(* the plans hold the garbage, and the sweeps empty the plans.             *)

\* What is in use is closed under what the marking follows.
LEMMA ReachableClosed ==
    /\ RootPairs \subseteq Reachable
    /\ Reachable \subseteq Revisions
    /\ \A p \in Reachable : p[2] \in stored =>
          \A x \in Children[p[2]] \union ReferrersGet(p[1], p[2]) :
                <<p[1], x>> \in Reachable
<1>1. RootPairs \subseteq Reachable /\ Reachable \subseteq Revisions
  BY DEF Reachable, RootPairs
<1>2. ASSUME NEW p \in Reachable, p[2] \in stored,
             NEW x \in Children[p[2]] \union ReferrersGet(p[1], p[2])
      PROVE  <<p[1], x>> \in Reachable
  <2>1. p[1] \in Repos /\ p[2] \in Manifests
    BY DEF Reachable, Revisions
  <2>2. <<p[1], x>> \in Revisions
    BY <2>1, Contents DEF Revisions, ReferrersGet
  <2>3. ASSUME NEW S \in SUBSET Revisions, RootPairs \subseteq S, ClosedPairs(S)
        PROVE  <<p[1], x>> \in S
    <3>1. p \in S
      BY <2>3 DEF Reachable
    <3> QED
      BY <1>2, <2>3, <3>1 DEF ClosedPairs
  <2> QED
    BY <2>2, <2>3 DEF Reachable
<1> QED
  BY <1>1, <1>2

Pair(r, m) == <<r, m>> \in Reachable

\* While the marking runs, what it holds is in use.
MarksUsed ==
    phase \in {"roots", "mark", "plan"} =>
        /\ had = stored /\ used = InUse /\ junk = junk \ (used \union fresh)
        /\ \A r \in Repos : <<r, None>> \in pending => r \in known
        /\ \A r \in Repos, t \in Tags : <<r, t>> \in pending => DeleteUntagged
        /\ \A r \in Repos, m \in Manifests :
              <<r, m>> \in roots \/ <<"manifest", r, m>> \in todo
                \/ <<"referrers", r, m>> \in todo => Pair(r, m)
        /\ \A r \in Repos, m \in Manifests :
              <<"referrers", r, m>> \in todo => m \in stored
        /\ \A m \in seenM : m \in stored => m \in used
        /\ \A d \in seenB : d \in stored => d \in used

\* The garbage that is left is planned.
JunkPlanned ==
    /\ phase = "plan" => \A x \in revs : x[2] \in junk => x \in planM
    /\ phase = "sweep" =>
            /\ junk \intersect stored \subseteq planB
            /\ \A x \in revs : x[2] \in junk => x \in planM
    /\ phase \in {"off", "failed"} =>
            pending = {} /\ roots = {} /\ todo = {} /\ seenM = {} /\ seenB = {}

GInv == SInv /\ MarksUsed /\ JunkPlanned

LEMMA GarbageInit == Init => GInv
BY StillInit DEF Init, GInv, MarksUsed, JunkPlanned

\* What is in use depends on the links and the blobs, not on their age.
LEMMA SameUse ==
    ASSUME UNCHANGED <<stored, known, revs, tags, refs>>
    PROVE  /\ InUse' = InUse
           /\ \A r, m : Pair(r, m)' = Pair(r, m)
<1>1. \A r, m : /\ ManifestsList(r)' = ManifestsList(r)
                /\ ReferrersGet(r, m)' = ReferrersGet(r, m)
  BY DEF ManifestsList, ReferrersGet
<1>2. RootPairs' = RootPairs
  <2>1. CASE DeleteUntagged
    BY <2>1 DEF RootPairs
  <2>2. CASE ~DeleteUntagged
    <3>1. \A x \in Revisions : (x \in RootPairs)' <=> x \in RootPairs
      BY <1>1, <2>2 DEF RootPairs
    <3>2. RootPairs \subseteq Revisions /\ (RootPairs \subseteq Revisions)'
      BY DEF RootPairs
    <3> QED
      BY <3>1, <3>2
  <2> QED
    BY <2>1, <2>2
<1>3. \A S : ClosedPairs(S)' = ClosedPairs(S)
  BY <1>1 DEF ClosedPairs
<1>4. Reachable' = Reachable
  BY <1>2, <1>3 DEF Reachable
<1> QED
  BY <1>4 DEF InUse, Pair

LEMMA GarbageClient ==
    ASSUME ~Online, GInv, Client
    PROVE  GInv'
<1>1. SInv'
  BY StillClient DEF GInv
<1>2. CASE Collecting
  <2>1. /\ fresh' \subseteq fresh
        /\ UNCHANGED <<stored, known, revs, tags, refs>>
        /\ UNCHANGED <<phase, pending, roots, todo, seenM, seenB, planM, planB,
                       had, used, junk>>
    BY <1>2, OfflineClient DEF GInv, gc, marking, planned, history
  <2>2. MarksUsed'
    BY <2>1, SameUse DEF GInv, MarksUsed
  <2>3. JunkPlanned'
    BY <2>1 DEF GInv, JunkPlanned
  <2> QED
    BY <1>1, <2>2, <2>3 DEF GInv
<1>3. CASE ~Collecting
  <2>1. /\ phase \in {"off", "failed"} /\ phase' = phase
        /\ UNCHANGED <<pending, roots, todo, seenM, seenB>>
    BY <1>3, ClientAdds DEF Collecting, gc, marking
  <2> QED
    BY <1>1, <2>1 DEF GInv, MarksUsed, JunkPlanned
<1> QED
  BY <1>2, <1>3

\* A step of the marking that marks and plans only what is in use.
LEMMA MarkStaysUsed ==
    ASSUME GInv, SInv', UNCHANGED <<store, history, planned>>,
           phase \in {"roots", "mark"}, phase' \in {"roots", "mark"},
           pending' \subseteq pending \/ DeleteUntagged,
           \A r \in Repos : <<r, None>> \in pending' => <<r, None>> \in pending,
           \A r \in Repos, m \in Manifests :
              <<r, m>> \in roots' \/ <<"manifest", r, m>> \in todo'
                \/ <<"referrers", r, m>> \in todo' => Pair(r, m),
           \A r \in Repos, m \in Manifests :
              <<"referrers", r, m>> \in todo' => m \in stored,
           \A m \in seenM' : m \in stored => m \in used,
           \A d \in seenB' : d \in stored => d \in used
    PROVE  GInv'
<1>1. UNCHANGED <<stored, fresh, known, revs, tags, refs, had, used, junk, planM, planB>>
  BY DEF store, history, planned
<1>2. InUse' = InUse /\ \A r, m : Pair(r, m)' = Pair(r, m)
  BY <1>1, SameUse
<1>3. MarksUsed'
  <2>1. had = stored /\ used = InUse /\ junk = junk \ (used \union fresh)
    BY DEF GInv, MarksUsed
  <2>2. \A r \in Repos : <<r, None>> \in pending' => r \in known
    BY DEF GInv, MarksUsed
  <2>3. \A r \in Repos, t \in Tags : <<r, t>> \in pending' => DeleteUntagged
    BY DEF GInv, MarksUsed
  <2> QED
    BY <1>1, <1>2, <2>1, <2>2, <2>3 DEF MarksUsed
<1>4. JunkPlanned'
  BY DEF JunkPlanned
<1> QED
  BY <1>3, <1>4 DEF GInv

LEMMA GarbageStart ==
    ASSUME ~Online, Nested = {}, GInv, StartGC
    PROVE  GInv'
<1>1. SInv'
  BY StillCollector DEF GInv, Collector
<1>2. /\ phase \in {"off", "failed"} /\ phase' = "roots"
      /\ UNCHANGED <<stored, fresh, known, revs, tags, refs, roots, todo, seenM, seenB>>
      /\ had' = stored /\ used' = InUse /\ junk' = stored \ (InUse \union fresh)
  BY DEF StartGC, store, planned, Collecting, GInv, SInv, Typed, StateTypeOK
<1>3. \A r \in Repos : \A t : <<r, t>> \in pending' => r \in known /\ t = None
  BY DEF StartGC, RepositoriesList
<1>4. roots' = {} /\ todo' = {} /\ seenM' = {} /\ seenB' = {}
  BY <1>2 DEF GInv, JunkPlanned
<1>5. MarksUsed'
  BY <1>2, <1>3, <1>4, SameUse, Contents DEF MarksUsed
<1>6. JunkPlanned'
  BY <1>2 DEF JunkPlanned
<1> QED
  BY <1>1, <1>5, <1>6 DEF GInv

LEMMA GarbageMark ==
    ASSUME ~Online, GInv, NEW r \in Repos, NEW m \in Manifests, MarkManifest(r, m)
    PROVE  GInv'
<1> DEFINE call == <<"manifest", r, m>>
           calls == NextCalls(r, m)
<1>1. SInv'
  BY StillCollector DEF GInv, Collector
<1>2. /\ phase = "mark" /\ call \in todo /\ Pair(r, m)
      /\ had = stored /\ used = InUse /\ UNCHANGED store
  BY DEF MarkManifest, GInv, MarksUsed
<1>3. m \in stored => m \in used
  BY <1>2 DEF Pair, InUse
<1>4. CASE m \in seenM \/ m \notin stored
  <2>1. /\ todo' = todo \ {call} /\ seenM' = seenM \union {m}
        /\ UNCHANGED <<phase, pending, roots, seenB, planned, history>>
    BY <1>4 DEF MarkManifest
  <2>2. /\ \A q \in Repos, n \in Manifests :
              <<q, n>> \in roots' \/ <<"manifest", q, n>> \in todo'
                \/ <<"referrers", q, n>> \in todo' => Pair(q, n)
        /\ \A q \in Repos, n \in Manifests :
              <<"referrers", q, n>> \in todo' => n \in stored
        /\ \A n \in seenM' : n \in stored => n \in used
        /\ \A d \in seenB' : d \in stored => d \in used
    BY <1>2, <1>3, <2>1 DEF GInv, MarksUsed
  <2> QED
    BY <1>1, <1>2, <2>1, <2>2, MarkStaysUsed
<1>5. CASE m \notin seenM /\ m \in stored \ Bad
  <2>1. /\ seenM' = seenM \union {m}
        /\ seenB' = seenB \union BlobsOf[m]
        /\ todo' = (todo \ {call}) \union calls
        /\ UNCHANGED <<phase, pending, roots, planned, history>>
    BY <1>5 DEF MarkManifest, BlobsMarked
  <2>2. \A c \in Children[m] : Pair(r, c)
    BY <1>2, <1>5, ReachableClosed DEF Pair
  <2>3. \A q \in Repos, n \in Manifests :
            /\ <<"manifest", q, n>> \in calls => Pair(q, n)
            /\ <<"referrers", q, n>> \in calls => q = r /\ n = m
    BY <2>2 DEF NextCalls
  <2>4. \A x \in todo' : x \in todo \/ x \in calls
    BY <2>1
  <2> HIDE DEF calls
  <2>5. \A q \in Repos, n \in Manifests :
              <<q, n>> \in roots' \/ <<"manifest", q, n>> \in todo'
                \/ <<"referrers", q, n>> \in todo' => Pair(q, n)
    BY <1>2, <2>1, <2>3, <2>4 DEF GInv, MarksUsed
  <2>6. \A q \in Repos, n \in Manifests : <<"referrers", q, n>> \in todo' => n \in stored
    BY <1>2, <1>5, <2>3, <2>4 DEF GInv, MarksUsed
  <2>7. \A n \in seenM' : n \in stored => n \in used
    BY <1>2, <1>3, <2>1 DEF GInv, MarksUsed
  <2>8. \A d \in seenB' : d \in stored => d \in used
    <3>1. \A d \in BlobsOf[m] : d \in stored => d \in used
      BY <1>2, <1>5 DEF Pair, InUse
    <3> QED
      BY <1>2, <2>1, <3>1 DEF GInv, MarksUsed
  <2> QED
    BY <1>1, <1>2, <2>1, <2>5, <2>6, <2>7, <2>8, MarkStaysUsed
<1>6. CASE m \notin seenM /\ m \in stored \intersect Bad
  BY <1>1, <1>6 DEF MarkManifest, Failed, Forget, GInv, MarksUsed, JunkPlanned
<1> QED
  BY <1>4, <1>5, <1>6

LEMMA GarbageRoots ==
    ASSUME ~Online, GInv, NEW r \in Repos,
           CollectRepo(r) \/ \E t \in Tags : CollectTag(r, t)
    PROVE  GInv'
<1>1. SInv'
  BY StillCollector DEF GInv, Collector
<1>2. phase = "roots" /\ UNCHANGED store
  BY DEF CollectRepo, CollectTag
<1>3. CASE CollectRepo(r) /\ ~DeleteUntagged
  <2>1. /\ <<r, None>> \in pending
        /\ roots' = roots \union {<<r, m>> : m \in ManifestsList(r)}
        /\ pending' = pending \ {<<r, None>>}
        /\ UNCHANGED <<phase, todo, seenM, seenB, planned, history>>
    BY <1>3 DEF CollectRepo
  <2>2. \A m \in ManifestsList(r) : Pair(r, m)
    <3>1. r \in known
      BY <1>2, <2>1 DEF GInv, MarksUsed
    <3> QED
      BY <1>3, <3>1, ReachableClosed, ListsManifests DEF Pair, RootPairs, Revisions
  <2>3. \A q \in Repos, n \in Manifests :
            <<q, n>> \in roots' => <<q, n>> \in roots \/ Pair(q, n)
    BY <2>1, <2>2
  <2>4. \A q \in Repos, n \in Manifests :
              <<q, n>> \in roots' \/ <<"manifest", q, n>> \in todo'
                \/ <<"referrers", q, n>> \in todo' => Pair(q, n)
    BY <1>2, <2>1, <2>3 DEF GInv, MarksUsed
  <2>5. pending' \subseteq pending
    BY <2>1
  <2>6. /\ \A q \in Repos, n \in Manifests :
                <<"referrers", q, n>> \in todo' => n \in stored
        /\ \A n \in seenM' : n \in stored => n \in used
        /\ \A d \in seenB' : d \in stored => d \in used
    BY <1>2, <2>1 DEF GInv, MarksUsed
  <2> QED
    BY <1>1, <1>2, <2>1, <2>4, <2>5, <2>6, MarkStaysUsed
<1>4. CASE CollectRepo(r) /\ DeleteUntagged /\ r \in hasTags
  <2>1. /\ pending' = (pending \ {<<r, None>>})
                            \union ({r} \X {t \in Tags : tags[<<r, t>>] # None})
        /\ UNCHANGED <<phase, roots, todo, seenM, seenB, planned, history>>
    BY <1>4 DEF CollectRepo
  <2>2. \A q \in Repos : <<q, None>> \in pending' => <<q, None>> \in pending
    BY <2>1, Contents
  <2>3. /\ \A q \in Repos, n \in Manifests :
              <<q, n>> \in roots' \/ <<"manifest", q, n>> \in todo'
                \/ <<"referrers", q, n>> \in todo' => Pair(q, n)
        /\ \A q \in Repos, n \in Manifests :
                <<"referrers", q, n>> \in todo' => n \in stored
        /\ \A n \in seenM' : n \in stored => n \in used
        /\ \A d \in seenB' : d \in stored => d \in used
    BY <1>2, <2>1 DEF GInv, MarksUsed
  <2> QED
    BY <1>1, <1>2, <1>4, <2>1, <2>2, <2>3, MarkStaysUsed
<1>5. CASE CollectRepo(r) /\ DeleteUntagged /\ r \notin hasTags
  BY <1>1, <1>5 DEF CollectRepo, Failed, Forget, GInv, MarksUsed, JunkPlanned
<1>6. ASSUME NEW t \in Tags, CollectTag(r, t) PROVE GInv'
  <2>1. /\ <<r, t>> \in pending
        /\ pending' = pending \ {<<r, t>>}
        /\ roots' = IF tags[<<r, t>>] \in stored THEN roots \union {<<r, tags[<<r, t>>]>>}
                                                 ELSE roots
        /\ UNCHANGED <<phase, todo, seenM, seenB, planned, history>>
    BY <1>6 DEF CollectTag
  <2>2. DeleteUntagged
    BY <1>2, <2>1 DEF GInv, MarksUsed
  <2>3. tags[<<r, t>>] \in stored => Pair(r, tags[<<r, t>>])
    <3> SUFFICES ASSUME tags[<<r, t>>] \in stored PROVE Pair(r, tags[<<r, t>>])
      OBVIOUS
    <3>1. tags[<<r, t>>] \in Manifests
      BY Contents DEF GInv, SInv, Typed, StateTypeOK, Digests
    <3> QED
      BY <2>2, <3>1, ReachableClosed DEF Pair, RootPairs, Revisions
  <2>4. \A q \in Repos, n \in Manifests :
            <<q, n>> \in roots' => <<q, n>> \in roots \/ Pair(q, n)
    BY <2>1, <2>3
  <2>5. \A q \in Repos, n \in Manifests :
              <<q, n>> \in roots' \/ <<"manifest", q, n>> \in todo'
                \/ <<"referrers", q, n>> \in todo' => Pair(q, n)
    BY <1>2, <2>1, <2>4 DEF GInv, MarksUsed
  <2>6. pending' \subseteq pending
    BY <2>1
  <2>7. /\ \A q \in Repos, n \in Manifests :
                <<"referrers", q, n>> \in todo' => n \in stored
        /\ \A n \in seenM' : n \in stored => n \in used
        /\ \A d \in seenB' : d \in stored => d \in used
    BY <1>2, <2>1 DEF GInv, MarksUsed
  <2> QED
    BY <1>1, <1>2, <2>1, <2>5, <2>6, <2>7, MarkStaysUsed
<1> QED
  BY <1>3, <1>4, <1>5, <1>6

LEMMA GarbagePlan ==
    ASSUME ~Online, Nested = {}, GInv, PlanSweepManifests \/ PlanSweepBlobs
    PROVE  GInv'
<1>1. SInv'
  BY StillCollector DEF GInv, Collector
<1>2. CASE PlanSweepManifests
  <2>1. /\ phase = "mark" /\ phase' = "plan"
        /\ planM' = {x \in Revisions :
                        /\ x[1] \in RepositoriesList /\ x[2] \in ManifestsList(x[1])
                        /\ x[2] \in stored \ (fresh \union seenM)}
        /\ UNCHANGED <<stored, fresh, known, revs, tags, refs>>
        /\ UNCHANGED <<pending, roots, todo, seenM, seenB, had, used, junk>>
    BY <1>2 DEF PlanSweepManifests, store, marking, history
  <2>2. MarksUsed'
    BY <2>1, SameUse DEF GInv, MarksUsed
  <2>3. \A x \in revs : x[2] \in junk => x \in planM'
    <3> SUFFICES ASSUME NEW x \in revs, x[2] \in junk PROVE x \in planM'
      OBVIOUS
    <3>1. x \in Revisions /\ x[1] \in known
      BY DEF GInv, SInv, Typed, StateTypeOK, Housed
    <3>2. x[1] \in RepositoriesList
      BY <3>1 DEF RepositoriesList
    <3>3. x[2] \in ManifestsList(x[1])
      BY <3>1 DEF ManifestsList, Revisions
    <3>4. x[2] \in stored \ (fresh \union seenM)
      BY <2>1 DEF GInv, MarksUsed, SInv, Typed, StateTypeOK
    <3> QED
      BY <2>1, <3>1, <3>2, <3>3, <3>4
  <2>4. JunkPlanned'
    BY <2>1, <2>3 DEF JunkPlanned
  <2> QED
    BY <1>1, <2>2, <2>4 DEF GInv
<1>3. CASE PlanSweepBlobs
  <2>1. /\ phase = "plan" /\ phase' = "sweep"
        /\ planB' = stored \ (fresh \union seenM \union seenB)
        /\ UNCHANGED <<stored, revs, planM, junk>>
    BY <1>3 DEF PlanSweepBlobs, store, marking, history
  <2>2. junk \intersect stored \subseteq planB'
    BY <2>1 DEF GInv, MarksUsed
  <2>3. MarksUsed' /\ JunkPlanned'
    BY <2>1, <2>2 DEF GInv, MarksUsed, JunkPlanned
  <2> QED
    BY <1>1, <2>3 DEF GInv
<1> QED
  BY <1>2, <1>3

LEMMA GarbageSweep ==
    ASSUME ~Online, GInv,
           \/ \E r \in Repos, m \in Manifests : SweepManifest(r, m)
           \/ \E d \in Digests : SweepBlob(d)
    PROVE  GInv'
<1>1. SInv'
  BY StillCollector DEF GInv, Collector
<1>2. ASSUME NEW r \in Repos, NEW m \in Manifests, SweepManifest(r, m)
      PROVE  GInv'
  <2>1. /\ phase = "sweep" /\ phase' = "sweep"
        /\ revs' = revs \ {<<r, m>>} /\ planM' = planM \ {<<r, m>>}
        /\ UNCHANGED <<stored, planB, junk>>
    BY <1>2 DEF SweepManifest, Unlink, history
  <2> QED
    BY <1>1, <2>1 DEF GInv, MarksUsed, JunkPlanned
<1>3. ASSUME NEW d \in Digests, SweepBlob(d) PROVE GInv'
  <2>1. /\ phase = "sweep" /\ phase' = "sweep"
        /\ stored' = stored \ {d} /\ planB' = planB \ {d}
        /\ UNCHANGED <<revs, planM, junk>>
    BY <1>3 DEF SweepBlob, history
  <2> QED
    BY <1>1, <2>1 DEF GInv, MarksUsed, JunkPlanned
<1> QED
  BY <1>2, <1>3

LEMMA GarbageStep ==
    ASSUME ~Online, Nested = {}, GInv, [Next]_vars
    PROVE  GInv'
<1>1. CASE UNCHANGED vars
  <2>1. SInv'
    BY <1>1, StillStep DEF GInv
  <2>2. /\ UNCHANGED <<stored, fresh, known, revs, tags, refs, phase, pending>>
        /\ UNCHANGED <<roots, todo, seenM, seenB, planM, planB, had, used, junk>>
    BY <1>1 DEF vars, store, gc, marking, planned, history
  <2>3. MarksUsed'
    BY <2>2, SameUse DEF GInv, MarksUsed
  <2>4. JunkPlanned'
    BY <2>2 DEF GInv, JunkPlanned
  <2> QED
    BY <2>1, <2>3, <2>4 DEF GInv
<1>2. CASE Client
  BY <1>2, GarbageClient
<1>3. CASE Collector
  <2>1. SInv'
    BY <1>3, StillCollector DEF GInv
  <2>2. ASSUME RootsCollected PROVE GInv'
    <3>1. /\ phase = "roots" /\ phase' = "mark"
          /\ UNCHANGED <<store, pending, roots, todo, seenM, seenB, planned, history>>
      BY <2>2 DEF RootsCollected, marking
    <3> QED
      BY <2>1, <3>1, MarkStaysUsed DEF GInv, MarksUsed
  <2>3. ASSUME NextRoot PROVE GInv'
    <3>1. PICK x \in roots : /\ todo' = {<<"manifest", x[1], x[2]>>}
                             /\ roots' = roots \ {x}
      BY <2>3 DEF NextRoot
    <3>2. /\ phase = "mark"
          /\ UNCHANGED <<store, phase, pending, seenM, seenB, planned, history>>
      BY <2>3 DEF NextRoot
    <3>3. x \in Revisions
      BY DEF GInv, SInv, Typed, StateTypeOK
    <3>4. /\ \A q \in Repos, n \in Manifests :
                <<q, n>> \in roots' \/ <<"manifest", q, n>> \in todo'
                    => <<q, n>> \in roots
          /\ \A q, n : <<"referrers", q, n>> \notin todo'
      BY <3>1, <3>3 DEF Revisions
    <3> QED
      BY <2>1, <3>2, <3>4, MarkStaysUsed DEF GInv, MarksUsed
  <2>4. ASSUME NEW r \in Repos, NEW m \in Manifests, MarkReferrers(r, m)
        PROVE  GInv'
    <3>1. /\ phase = "mark" /\ <<"referrers", r, m>> \in todo
          /\ todo' = (todo \ {<<"referrers", r, m>>})
                        \union {<<"manifest", r, x>> : x \in ReferrersGet(r, m)}
          /\ UNCHANGED <<store, phase, pending, roots, seenM, seenB, planned, history>>
      BY <2>4 DEF MarkReferrers
    <3>2. Pair(r, m) /\ m \in stored
      BY <3>1 DEF GInv, MarksUsed
    <3>3. \A x \in ReferrersGet(r, m) : Pair(r, x)
      BY <3>2, ReachableClosed DEF Pair
    <3>4. /\ \A q \in Repos, n \in Manifests :
                <<"manifest", q, n>> \in todo' => <<"manifest", q, n>> \in todo \/ Pair(q, n)
          /\ \A q, n : <<"referrers", q, n>> \in todo' => <<"referrers", q, n>> \in todo
      BY <3>1, <3>3
    <3> QED
      BY <2>1, <3>1, <3>4, MarkStaysUsed DEF GInv, MarksUsed
  <2>5. ASSUME EndGC \/ StopGC PROVE GInv'
    BY <2>1, <2>5 DEF EndGC, StopGC, Forget, GInv, MarksUsed, JunkPlanned
  <2> QED
    BY <1>3, <2>2, <2>3, <2>4, <2>5, GarbageStart, GarbageMark, GarbageRoots,
       GarbagePlan, GarbageSweep DEF Collector
<1> QED
  BY <1>1, <1>2, <1>3 DEF Next

\* With the servers stopped and no repository below another, a collection
\* that ends has deleted every blob that was neither in use nor fresh when
\* it began, and every revision of one, with and without --delete-untagged
\* (planSweepManifests, planSweepBlobs).
THEOREM GarbageHolds ==
    ASSUME ~Online, Nested = {} PROVE Spec => GarbageGone
<1>1. GInv /\ [Next]_vars => GInv'
  BY GarbageStep
<1>2. GInv /\ [Next]_vars =>
        [EndGC => junk \intersect stored = {} /\ \A x \in revs : x[2] \notin junk]_vars
  <2> SUFFICES ASSUME GInv, EndGC
               PROVE  junk \intersect stored = {} /\ \A x \in revs : x[2] \notin junk
    OBVIOUS
  <2> QED
    BY DEF EndGC, GInv, JunkPlanned
<1> QED
  BY <1>1, <1>2, GarbageInit, PTL DEF Spec, GarbageGone

-----------------------------------------------------------------------------
(* What is in use also stays linked: the plan of manifests holds nothing    *)
(* that was marked, and what is in use is marked when the plan is made.     *)

UsedMarked == phase \in {"plan", "sweep"} => used \subseteq seenM \union seenB

LinksSpared ==
    /\ phase \notin {"plan", "sweep"} => planM = {}
    /\ \A x \in planM : x[2] \notin used

LEMMA SparedStep ==
    ASSUME Typed, LinksSpared, UsedMarked', [Next]_vars
    PROVE  LinksSpared'
<1>1. ASSUME UNCHANGED <<phase, planM, used>> PROVE LinksSpared'
  BY <1>1 DEF LinksSpared
<1>2. ASSUME Forget PROVE LinksSpared'
  BY <1>2 DEF LinksSpared, Forget
<1>3. ASSUME Client PROVE LinksSpared'
  BY <1>1, <1>3, ClientAdds DEF gc, planned, history
<1>4. ASSUME StartGC PROVE LinksSpared'
  BY <1>4 DEF StartGC, Collecting, LinksSpared, planned, Typed, StateTypeOK
<1>5. ASSUME NEW r \in Repos, CollectRepo(r) PROVE LinksSpared'
  BY <1>1, <1>2, <1>5 DEF CollectRepo, planned, history
<1>6. ASSUME NEW r \in Repos, NEW t \in Tags, CollectTag(r, t) PROVE LinksSpared'
  BY <1>1, <1>6 DEF CollectTag, planned, history
<1>7. ASSUME RootsCollected PROVE LinksSpared'
  BY <1>7 DEF RootsCollected, LinksSpared, planned, history
<1>8. ASSUME NextRoot PROVE LinksSpared'
  BY <1>1, <1>8 DEF NextRoot, planned, history
<1>9. ASSUME NEW r \in Repos, NEW m \in Manifests, MarkManifest(r, m)
      PROVE  LinksSpared'
  BY <1>1, <1>2, <1>9 DEF MarkManifest, planned, history
<1>10. ASSUME NEW r \in Repos, NEW m \in Manifests, MarkReferrers(r, m)
       PROVE  LinksSpared'
  BY <1>1, <1>10 DEF MarkReferrers, planned, history
<1>11. ASSUME PlanSweepManifests PROVE LinksSpared'
  <2>1. /\ phase' = "plan" /\ UNCHANGED <<seenM, seenB, used>>
        /\ \A x \in planM' : x \in Revisions /\ x[2] \notin seenM
    BY <1>11 DEF PlanSweepManifests, marking, history
  <2>2. used \subseteq seenM \union seenB /\ seenB \subseteq Blobs
    BY <2>1 DEF UsedMarked, Typed, StateTypeOK
  <2>3. \A x \in planM' : x[2] \notin used
    BY <2>1, <2>2, Contents DEF Revisions
  <2> QED
    BY <2>1, <2>3 DEF LinksSpared
<1>12. ASSUME PlanSweepBlobs PROVE LinksSpared'
  BY <1>12 DEF PlanSweepBlobs, LinksSpared, history
<1>13. ASSUME NEW r \in Repos, NEW m \in Manifests, SweepManifest(r, m)
       PROVE  LinksSpared'
  BY <1>13 DEF SweepManifest, LinksSpared, history
<1>14. ASSUME NEW d \in Digests, SweepBlob(d) PROVE LinksSpared'
  BY <1>14 DEF SweepBlob, LinksSpared, history
<1>15. ASSUME EndGC \/ StopGC PROVE LinksSpared'
  BY <1>2, <1>15 DEF EndGC, StopGC
<1>16. ASSUME UNCHANGED vars PROVE LinksSpared'
  BY <1>1, <1>16 DEF vars, gc, planned, history
<1> QED
  BY <1>3, <1>4, <1>5, <1>6, <1>7, <1>8, <1>9, <1>10, <1>11, <1>12, <1>13,
     <1>14, <1>15, <1>16 DEF Next, Collector

\* Of the steps of a collection, only the sweep of manifests takes links
\* away, those of the manifests it planned.
LEMMA OnlySweepUnlinks ==
    ASSUME Collector
    PROVE  /\ \A x \in revs : x \in revs' \/ x \in planM
           /\ \A x \in refs : x \in refs' \/ <<x[1], x[3]>> \in planM
<1>1. ASSUME NEW r \in Repos, NEW m \in Manifests, SweepManifest(r, m)
      PROVE  /\ <<r, m>> \in planM
             /\ revs' = revs \ {<<r, m>>}
             /\ \A x \in refs : x \in refs' \/ x = <<r, Subject[m], m>>
  BY <1>1 DEF SweepManifest, Unlink, ReferrerLink
<1>2. ASSUME \A r \in Repos, m \in Manifests : ~SweepManifest(r, m)
      PROVE  UNCHANGED <<revs, refs>>
  BY <1>2 DEF Collector, StartGC, CollectRepo, CollectTag, RootsCollected, NextRoot,
              MarkManifest, MarkReferrers, PlanSweepManifests, PlanSweepBlobs,
              SweepBlob, EndGC, StopGC, store
<1>3. CASE \E r \in Repos, m \in Manifests : SweepManifest(r, m)
  <2>1. PICK r \in Repos, m \in Manifests : SweepManifest(r, m)
    BY <1>3
  <2>2. /\ <<r, m>> \in planM
        /\ revs' = revs \ {<<r, m>>}
        /\ \A x \in refs : x \in refs' \/ x = <<r, Subject[m], m>>
    BY <1>1, <2>1
  <2>3. \A x \in revs : x \in revs' \/ x \in planM
    BY <2>2
  <2>4. ASSUME NEW x \in refs, x \notin refs' PROVE <<x[1], x[3]>> \in planM
    <3>1. x = <<r, Subject[m], m>>
      BY <2>2, <2>4
    <3>2. <<x[1], x[3]>> = <<r, m>>
      BY <3>1
    <3> QED
      BY <2>2, <3>2
  <2> QED
    BY <2>3, <2>4
<1> QED
  BY <1>2, <1>3

LEMMA SparedKept ==
    ASSUME LinksSpared, Collector
    PROVE  /\ \A x \in revs : x[2] \in used => x \in revs'
           /\ \A x \in refs : x[3] \in used => x \in refs'
<1>1. ASSUME NEW x \in refs, x[3] \in used PROVE x \in refs'
  <2>1. <<x[1], x[3]>> \notin planM
    BY <1>1 DEF LinksSpared
  <2> QED
    BY <2>1, OnlySweepUnlinks
<1> QED
  BY <1>1, OnlySweepUnlinks DEF LinksSpared

\* Under the conditions of ReachableHolds, a collection takes no revision and
\* no entry of a list of referrers of what was in use when it began out of
\* any repository (planSweepManifests).
THEOREM LinksHold ==
    ASSUME ~DeleteUntagged, Nested = {}, Online => ~Repush
    PROVE  Spec => LinksKept
<1> DEFINE I == KInv /\ Calm /\ LinksSpared
<1>1. I /\ [Next]_vars => I'
  <2>1. Calm /\ UNCHANGED vars => Calm'
    BY DEF Calm, Collecting, Replacing, vars, store, gc
  <2>2. KInv /\ Calm /\ [Next]_vars => KInv' /\ Calm'
    BY <2>1, ClientKeeps, CollectorKeeps, CollectorCalm, StutterKeeps DEF Next, KInv
  <2>3. KInv' => UsedMarked'
    BY DEF KInv, Phases, UsedMarked
  <2> QED
    BY <2>2, <2>3, SparedStep DEF KInv
<1>2. Init => I
  BY KeptInit DEF Init, LinksSpared
<1>3. I /\ [Next]_vars =>
        [Collector => /\ \A x \in revs : x[2] \in used => x \in revs'
                      /\ \A x \in refs : x[3] \in used => x \in refs']_vars
  BY SparedKept
<1> QED
  BY <1>1, <1>2, <1>3, PTL DEF Spec, LinksKept

-----------------------------------------------------------------------------
(* With --delete-untagged, offline: the marking starts from the tags and    *)
(* follows children and referrers.  Its marks know no repository, which     *)
(* makes no difference while there is one repository only, or no manifest   *)
(* has a subject.                                                           *)

Alone == \/ \A r, s \in Repos : r = s
         \/ \A m \in Manifests : Subject[m] = None

\* Referrers are in the repository that everything is in.
SingleView == \A x \in refs : \A r \in Repos : r = x[1]

\* A tag is in a repository that has its directory.
TagsHoused ==
    \A r \in Repos, t \in Tags : tags[<<r, t>>] # None => r \in known

Tagged(r, m) == m \in stored /\ \E t \in Tags : tags[<<r, t>>] = m

\* A root is marked, or the collection will come to it.
Awaited(r, m) ==
    \/ m \in seenM
    \/ <<r, m>> \in roots
    \/ <<"manifest", r, m>> \in todo
    \/ <<r, None>> \in pending
    \/ \E t \in Tags : <<r, t>> \in pending /\ tags[<<r, t>>] = m

RootsAwaited ==
    phase \in {"roots", "mark"} =>
        \A r \in Repos, m \in Manifests : Tagged(r, m) => Awaited(r, m)

\* What a marked manifest leads to is marked or about to be.
FollowedFrom(m) ==
    /\ BlobsOf[m] \subseteq seenB
    /\ \A c \in Children[m] :
          c \in seenM \/ \E r \in Repos : <<"manifest", r, c>> \in todo
    /\ \A r \in Repos : \A x \in ReferrersGet(r, m) :
          \/ x \in seenM
          \/ <<"manifest", r, x>> \in todo
          \/ <<"referrers", r, m>> \in todo

Followed ==
    phase \in {"roots", "mark"} =>
        \A m \in seenM : m \in stored => FollowedFrom(m)

UInv == /\ GInv
        /\ SingleView /\ TagsHoused
        /\ RootsAwaited /\ Followed
        /\ UsedMarked /\ Kept
        /\ phase # "roots" => pending = {}

LEMMA UntaggedInit == Init => UInv
BY GarbageInit
   DEF Init, UInv, SingleView, TagsHoused, RootsAwaited, Followed, UsedMarked, Kept

\* The two that do not depend on the collection.
LEMMA HousingStep ==
    ASSUME Alone, Typed, SingleView, TagsHoused, [Next]_vars
    PROVE  SingleView' /\ TagsHoused'
<1>1. ASSUME refs' \subseteq refs, known \subseteq known', UNCHANGED tags
      PROVE  SingleView' /\ TagsHoused'
  BY <1>1 DEF SingleView, TagsHoused
<1>2. ASSUME UNCHANGED store PROVE SingleView' /\ TagsHoused'
  BY <1>1, <1>2 DEF store
<1>3. ASSUME NEW p \in Pushers, PutReferrer(p) PROVE SingleView' /\ TagsHoused'
  <2>1. /\ refs' = refs \union ReferrerLink(push[p].repo, push[p].man)
        /\ UNCHANGED <<known, tags>>
    BY <1>3 DEF PutReferrer
  <2>2. \A x \in ReferrerLink(push[p].repo, push[p].man) : \A r \in Repos : r = x[1]
    <3>1. push[p].repo \in Repos /\ push[p].man \in Manifests
      BY <1>3 DEF PutReferrer, Typed, Shape, ShapeOf
    <3>2. CASE Subject[push[p].man] = None
      BY <3>1, <3>2, Contents DEF ReferrerLink
    <3>3. CASE \A r, s \in Repos : r = s
      BY <3>1, <3>3 DEF ReferrerLink
    <3> QED
      BY <3>1, <3>2, <3>3 DEF Alone
  <2> QED
    BY <2>1, <2>2 DEF SingleView, TagsHoused
<1>4. ASSUME NEW p \in Pushers, PutTag(p) PROVE SingleView' /\ TagsHoused'
  <2>1. /\ push[p].repo \in known
        /\ tags' = [tags EXCEPT ![<<push[p].repo, push[p].tag>>] = push[p].man]
        /\ UNCHANGED <<known, refs>>
    BY <1>4 DEF PutTag, Typed, Shape, ShapeOf
  <2>2. tags \in [Repos \X Tags -> Manifests \union {None}]
    BY DEF Typed, StateTypeOK
  <2>3. \A r \in Repos, t \in Tags : tags'[<<r, t>>] # tags[<<r, t>>] => r = push[p].repo
    BY <2>1, <2>2
  <2> QED
    BY <2>1, <2>3 DEF SingleView, TagsHoused
<1>5. ASSUME NEW r \in Repos, NEW t \in Tags, DeleteTag(r, t)
      PROVE  SingleView' /\ TagsHoused'
  <2>1. /\ tags' = [tags EXCEPT ![<<r, t>>] = None]
        /\ UNCHANGED <<known, refs>>
        /\ tags \in [Repos \X Tags -> Manifests \union {None}]
    BY <1>5 DEF DeleteTag, Typed, StateTypeOK
  <2>2. \A q \in Repos, u \in Tags : tags'[<<q, u>>] # None => tags[<<q, u>>] # None
    BY <2>1
  <2> QED
    BY <2>1, <2>2 DEF SingleView, TagsHoused
<1>6. ASSUME NEW r \in Repos, NEW m \in Manifests,
             DeleteManifest(r, m) \/ SweepManifest(r, m)
      PROVE  SingleView' /\ TagsHoused'
  BY <1>1, <1>6, UnlinkShrinks DEF DeleteManifest, SweepManifest
<1>7. CASE Client
  BY <1>1, <1>2, <1>3, <1>4, <1>5, <1>6, <1>7
  DEF Client, PushBlob, Pull, Age, Put, PutRemove, PutBlob, PutRevision, PutCrash
<1>8. CASE Collector
  BY <1>1, <1>2, <1>6, <1>8
  DEF Collector, StartGC, CollectRepo, CollectTag, RootsCollected, NextRoot,
      MarkManifest, MarkReferrers, PlanSweepManifests, PlanSweepBlobs,
      SweepBlob, EndGC, StopGC
<1>9. CASE UNCHANGED vars
  BY <1>2, <1>9 DEF vars
<1> QED
  BY <1>7, <1>8, <1>9 DEF Next
\* A step of the marking that leaves the store alone.
LEMMA FollowStep ==
    ASSUME Alone, UInv, GInv', Collector, UNCHANGED <<store, history, planned>>,
           phase \in {"roots", "mark"}, phase' \in {"roots", "mark"},
           phase' # "roots" => pending' = {},
           \A r \in Repos, m \in Manifests :
                Tagged(r, m) /\ Awaited(r, m) => Awaited(r, m)',
           \A m \in seenM' : m \in stored => FollowedFrom(m)'
    PROVE  UInv'
<1>1. UNCHANGED <<stored, tags, refs, known, used, planB>>
  BY DEF store, history, planned
<1>2. SingleView' /\ TagsHoused'
  BY <1>1 DEF UInv, SingleView, TagsHoused
<1>3. RootsAwaited'
  BY <1>1 DEF UInv, RootsAwaited, Tagged
<1>4. Followed'
  BY <1>1 DEF Followed
<1>5. UsedMarked' /\ Kept'
  BY <1>1 DEF UInv, UsedMarked, Kept
<1> QED
  BY <1>2, <1>3, <1>4, <1>5 DEF UInv

\* A manifest that was followed before still is when marks are only added
\* and the calls that go are those that were made.
LEMMA StaysFollowed ==
    ASSUME NEW m, FollowedFrom(m), UNCHANGED refs,
           seenM \subseteq seenM', seenB \subseteq seenB',
           \A r \in Repos, c \in Manifests :
              <<"manifest", r, c>> \in todo =>
                  <<"manifest", r, c>> \in todo' \/ c \in seenM',
           \A r \in Repos :
              <<"referrers", r, m>> \in todo =>
                  \/ <<"referrers", r, m>> \in todo'
                  \/ \A x \in ReferrersGet(r, m) : <<"manifest", r, x>> \in todo',
           Children[m] \subseteq Manifests
    PROVE  FollowedFrom(m)'
<1>1. \A r : ReferrersGet(r, m)' = ReferrersGet(r, m) /\ ReferrersGet(r, m) \subseteq Manifests
  BY DEF ReferrersGet
<1>2. \A c \in Children[m] :
          c \in seenM' \/ \E r \in Repos : <<"manifest", r, c>> \in todo'
  BY DEF FollowedFrom
<1>3. ASSUME NEW r \in Repos, NEW x \in ReferrersGet(r, m)
      PROVE  \/ x \in seenM'
             \/ <<"manifest", r, x>> \in todo'
             \/ <<"referrers", r, m>> \in todo'
  BY <1>1 DEF FollowedFrom
<1> QED
  BY <1>1, <1>2, <1>3 DEF FollowedFrom

LEMMA FollowRepo ==
    ASSUME DeleteUntagged, Alone, UInv, GInv', NEW r \in Repos, CollectRepo(r)
    PROVE  UInv'
<1>1. phase = "roots" /\ UNCHANGED store
  BY DEF CollectRepo
<1>2. CASE r \in hasTags
  <2>1. /\ pending' = (pending \ {<<r, None>>})
                            \union ({r} \X {t \in Tags : tags[<<r, t>>] # None})
        /\ UNCHANGED <<phase, roots, todo, seenM, seenB, planned, history>>
        /\ UNCHANGED <<tags, refs>>
    BY <1>1, <1>2 DEF CollectRepo, store
  <2>2. ASSUME NEW q \in Repos, NEW m \in Manifests, Tagged(q, m), Awaited(q, m)
        PROVE  Awaited(q, m)'
    <3>1. PICK t \in Tags : tags[<<q, t>>] = m
      BY <2>2 DEF Tagged
    <3>2. m # None
      BY Contents
    <3>3. q = r => <<q, t>> \in pending'
      BY <2>1, <3>1, <3>2
    <3>4. q # r => \A y : <<q, y>> \in pending => <<q, y>> \in pending'
      BY <2>1
    <3>5. CASE q = r
      BY <2>1, <3>1, <3>3, <3>5 DEF Awaited
    <3>6. CASE q # r
      BY <2>1, <2>2, <3>4, <3>6 DEF Awaited
    <3> QED
      BY <3>5, <3>6
  <2>3. \A m \in seenM' : m \in stored => FollowedFrom(m)'
    BY <1>1, <2>1 DEF UInv, Followed, FollowedFrom, ReferrersGet
  <2> QED
    BY <1>1, <2>1, <2>2, <2>3, FollowStep DEF Collector
<1>3. CASE r \notin hasTags
  <2>1. Forget /\ phase' = "failed"
    BY <1>3 DEF CollectRepo, Failed
  <2>2. SingleView' /\ TagsHoused'
    BY <1>1 DEF store, UInv, SingleView, TagsHoused
  <2> QED
    BY <2>1, <2>2 DEF UInv, Forget, RootsAwaited, Followed, UsedMarked, Kept
<1> QED
  BY <1>2, <1>3

LEMMA FollowTag ==
    ASSUME Alone, UInv, GInv', NEW r \in Repos, NEW t \in Tags, CollectTag(r, t)
    PROVE  UInv'
<1>1. /\ phase = "roots" /\ UNCHANGED store
      /\ roots' = IF tags[<<r, t>>] \in stored THEN roots \union {<<r, tags[<<r, t>>]>>}
                                               ELSE roots
      /\ pending' = pending \ {<<r, t>>}
      /\ UNCHANGED <<phase, todo, seenM, seenB, planned, history>>
      /\ UNCHANGED <<stored, tags, refs>>
  BY DEF CollectTag, store
<1>2. ASSUME NEW q \in Repos, NEW m \in Manifests, Tagged(q, m), Awaited(q, m)
      PROVE  Awaited(q, m)'
  <2>1. roots \subseteq roots' /\ t # None
    BY <1>1, Contents
  <2>2. CASE q = r /\ tags[<<r, t>>] = m
    BY <1>1, <1>2, <2>2 DEF Tagged, Awaited
  <2>3. CASE ~(q = r /\ tags[<<r, t>>] = m)
    <3>1. \A u \in Tags : <<q, u>> \in pending /\ tags[<<q, u>>] = m => <<q, u>> \in pending'
      BY <1>1, <2>3
    <3>2. <<q, None>> \in pending => <<q, None>> \in pending'
      BY <1>1, <2>1
    <3> QED
      BY <1>1, <1>2, <2>1, <3>1, <3>2 DEF Awaited
  <2> QED
    BY <2>2, <2>3
<1>3. \A m \in seenM' : m \in stored => FollowedFrom(m)'
  BY <1>1 DEF UInv, Followed, FollowedFrom, ReferrersGet
<1> QED
  BY <1>1, <1>2, <1>3, FollowStep DEF Collector

LEMMA FollowRoot ==
    ASSUME Alone, UInv, GInv', RootsCollected \/ NextRoot
    PROVE  UInv'
<1>1. CASE RootsCollected
  <2>1. /\ phase = "roots" /\ phase' = "mark" /\ pending' = {}
        /\ UNCHANGED <<store, history, planned, pending, roots, todo, seenM, seenB>>
        /\ UNCHANGED <<stored, tags, refs>>
    BY <1>1 DEF RootsCollected, marking, store
  <2>2. \A q \in Repos, m \in Manifests : Awaited(q, m) => Awaited(q, m)'
    BY <2>1 DEF Awaited
  <2>3. \A m \in seenM' : m \in stored => FollowedFrom(m)'
    BY <2>1 DEF UInv, Followed, FollowedFrom, ReferrersGet
  <2> QED
    BY <1>1, <2>1, <2>2, <2>3, FollowStep DEF Collector
<1>2. CASE NextRoot
  <2>1. PICK x \in roots : /\ todo' = {<<"manifest", x[1], x[2]>>}
                           /\ roots' = roots \ {x}
    BY <1>2 DEF NextRoot
  <2>2. /\ phase = "mark" /\ todo = {} /\ pending = {}
        /\ UNCHANGED <<store, phase, pending, seenM, seenB, planned, history>>
        /\ UNCHANGED <<stored, tags, refs>>
    BY <1>2 DEF NextRoot, store, UInv
  <2>3. \A r \in Repos, m \in Manifests :
            <<r, m>> \in roots => <<r, m>> \in roots' \/ <<"manifest", r, m>> \in todo'
    BY <2>1
  <2>4. \A q \in Repos, m \in Manifests : Awaited(q, m) => Awaited(q, m)'
    BY <2>2, <2>3 DEF Awaited
  <2>5. ASSUME NEW m \in seenM', m \in stored PROVE FollowedFrom(m)'
    <3>1. FollowedFrom(m) /\ Children[m] \subseteq Manifests
      BY <2>2, <2>5, Contents DEF UInv, Followed, GInv, SInv, Typed, StateTypeOK
    <3> QED
      BY <2>2, <3>1, StaysFollowed
  <2> QED
    BY <1>2, <2>2, <2>4, <2>5, FollowStep DEF Collector
<1> QED
  BY <1>1, <1>2

LEMMA FollowMark ==
    ASSUME Alone, UInv, GInv', NEW r \in Repos, NEW m \in Manifests,
           MarkManifest(r, m)
    PROVE  UInv'
<1> DEFINE call == <<"manifest", r, m>>
           calls == NextCalls(r, m)
<1>1. /\ phase = "mark" /\ call \in todo /\ pending = {}
      /\ UNCHANGED <<store, push>> /\ UNCHANGED <<stored, tags, refs>>
  BY DEF MarkManifest, UInv, store
<1>2. \A n \in Manifests : Children[n] \subseteq Manifests
  BY Contents
<1>3. seenM \subseteq Manifests
  BY DEF UInv, GInv, SInv, Typed, StateTypeOK
<1>4. ASSUME phase' = "mark", pending' = {}, roots' = roots,
             seenM' = seenM \union {m}, todo \ {call} \subseteq todo'
      PROVE  \A q \in Repos, n \in Manifests : Awaited(q, n) => Awaited(q, n)'
  BY <1>1, <1>4 DEF Awaited
<1>5. ASSUME seenM' = seenM \union {m}, seenB \subseteq seenB',
             todo \ {call} \subseteq todo',
             NEW n \in seenM, n \in stored
      PROVE  FollowedFrom(n)'
  <2>1. FollowedFrom(n)
    BY <1>1, <1>5 DEF UInv, Followed
  <2> QED
    BY <1>1, <1>2, <1>3, <1>5, <2>1, StaysFollowed
<1>6. CASE m \in seenM \/ m \notin stored
  <2>1. /\ todo' = todo \ {call} /\ seenM' = seenM \union {m}
        /\ UNCHANGED <<phase, pending, roots, seenB, planned, history>>
    BY <1>6 DEF MarkManifest
  <2>2. \A n \in seenM' : n \in stored => FollowedFrom(n)'
    BY <1>5, <1>6, <2>1
  <2>3. \A q \in Repos, n \in Manifests : Awaited(q, n) => Awaited(q, n)'
    BY <1>1, <1>4, <2>1
  <2> QED
    BY <1>1, <2>1, <2>2, <2>3, FollowStep DEF Collector
<1>7. CASE m \notin seenM /\ m \in stored \ Bad
  <2>1. /\ seenM' = seenM \union {m}
        /\ seenB' = seenB \union BlobsOf[m]
        /\ todo' = (todo \ {call}) \union calls
        /\ UNCHANGED <<phase, pending, roots, planned, history>>
    BY <1>7 DEF MarkManifest, BlobsMarked
  <2>2. /\ \A c \in Children[m] : <<"manifest", r, c>> \in todo'
        /\ <<"referrers", r, m>> \in todo'
    BY <2>1 DEF NextCalls
  <2>3. todo \ {call} \subseteq todo' /\ seenB \subseteq seenB' /\ BlobsOf[m] \subseteq seenB'
    BY <2>1
  <2> HIDE DEF calls
  <2>4. FollowedFrom(m)'
    <3>1. ASSUME NEW q \in Repos, NEW x \in ReferrersGet(q, m)' PROVE q = r
      <4>1. <<q, m, x>> \in refs
        BY <1>1, <3>1 DEF ReferrersGet
      <4>2. \A s \in Repos : s = <<q, m, x>>[1]
        BY <4>1 DEF UInv, SingleView
      <4> QED
        BY <4>2
    <3> QED
      BY <2>2, <2>3, <3>1 DEF FollowedFrom
  <2>5. \A n \in seenM' : n \in stored => FollowedFrom(n)'
    BY <1>5, <2>1, <2>3, <2>4
  <2>6. \A q \in Repos, n \in Manifests : Awaited(q, n) => Awaited(q, n)'
    BY <1>1, <1>4, <2>1, <2>3
  <2> QED
    BY <1>1, <2>1, <2>5, <2>6, FollowStep DEF Collector
<1>8. CASE m \notin seenM /\ m \in stored \intersect Bad
  <2>1. Forget /\ phase' = "failed"
    BY <1>8 DEF MarkManifest, Failed
  <2>2. SingleView' /\ TagsHoused'
    BY <1>1 DEF store, UInv, SingleView, TagsHoused
  <2> QED
    BY <2>1, <2>2 DEF UInv, Forget, RootsAwaited, Followed, UsedMarked, Kept
<1> QED
  BY <1>6, <1>7, <1>8

LEMMA FollowReferrers ==
    ASSUME Alone, UInv, GInv', NEW r \in Repos, NEW m \in Manifests,
           MarkReferrers(r, m)
    PROVE  UInv'
<1>1. /\ phase = "mark" /\ pending = {}
      /\ todo' = (todo \ {<<"referrers", r, m>>})
                    \union {<<"manifest", r, x>> : x \in ReferrersGet(r, m)}
      /\ UNCHANGED <<store, phase, pending, roots, seenM, seenB, planned, history>>
      /\ UNCHANGED <<stored, tags, refs>>
  BY DEF MarkReferrers, UInv, store
<1>2. /\ \A q, n : <<"manifest", q, n>> \in todo => <<"manifest", q, n>> \in todo'
      /\ \A q, n : <<"referrers", q, n>> \in todo =>
            \/ <<"referrers", q, n>> \in todo'
            \/ q = r /\ n = m
      /\ \A x \in ReferrersGet(r, m) : <<"manifest", r, x>> \in todo'
  BY <1>1
<1>3. \A q \in Repos, n \in Manifests : Awaited(q, n) => Awaited(q, n)'
  BY <1>1, <1>2 DEF Awaited
<1>4. ASSUME NEW n \in seenM', n \in stored PROVE FollowedFrom(n)'
  <2>1. FollowedFrom(n) /\ Children[n] \subseteq Manifests
    BY <1>1, <1>4, Contents DEF UInv, Followed, GInv, SInv, Typed, StateTypeOK
  <2> QED
    BY <1>1, <1>2, <2>1, StaysFollowed
<1> QED
  BY <1>1, <1>3, <1>4, FollowStep DEF Collector

\* When a collection begins, every tagged manifest is in a repository that
\* will be looked at.
LEMMA FollowStart ==
    ASSUME DeleteUntagged, Nested = {}, UInv, GInv', StartGC
    PROVE  UInv'
<1>1. /\ phase \in {"off", "failed"} /\ phase' = "roots"
      /\ pending' = {<<r, None>> : r \in RepositoriesList}
      /\ UNCHANGED <<known, tags, refs, seenM, planB>>
  BY DEF StartGC, Collecting, store, planned, UInv, GInv, SInv, Typed, StateTypeOK
<1>2. seenM' = {} /\ planB' = {}
  BY <1>1 DEF UInv, GInv, JunkPlanned, SInv, Still
<1>3. SingleView' /\ TagsHoused'
  BY <1>1 DEF UInv, SingleView, TagsHoused
<1>4. RootsAwaited'
  <2> SUFFICES ASSUME NEW r \in Repos, NEW m \in Manifests, Tagged(r, m)'
               PROVE  <<r, None>> \in pending'
    BY DEF RootsAwaited, Awaited
  <2>1. r \in known
    BY <1>3, <1>1, Contents DEF Tagged, TagsHoused
  <2> QED
    BY <1>1, <2>1 DEF RepositoriesList
<1> QED
  BY <1>1, <1>2, <1>3, <1>4 DEF UInv, Followed, UsedMarked, Kept

\* When the marking is over, what is marked holds the roots and is closed,
\* so it holds all that is in use.
LEMMA AllMarked ==
    ASSUME DeleteUntagged, UInv, phase = "mark", todo = {}, roots = {}
    PROVE  InUse \subseteq seenM \union seenB
<1> DEFINE S == {p \in Revisions : p[2] \in seenM}
<1>1. pending = {} /\ \A m \in seenM : m \in stored => FollowedFrom(m)
  BY DEF UInv, Followed
<1>2. RootPairs \subseteq S
  <2> SUFFICES ASSUME NEW x \in Revisions, x[2] \in stored,
                      NEW t \in Tags, tags[<<x[1], t>>] = x[2]
               PROVE  x[2] \in seenM
    BY DEF RootPairs
  <2>1. x[1] \in Repos /\ x[2] \in Manifests
    BY DEF Revisions
  <2>2. Tagged(x[1], x[2])
    BY DEF Tagged
  <2>3. Awaited(x[1], x[2])
    BY <2>1, <2>2 DEF UInv, RootsAwaited
  <2> QED
    BY <1>1, <2>3 DEF Awaited
<1>3. ClosedPairs(S)
  <2> SUFFICES ASSUME NEW p \in S, p[2] \in stored,
                      NEW x \in Children[p[2]] \union ReferrersGet(p[1], p[2])
               PROVE  <<p[1], x>> \in S
    BY DEF ClosedPairs
  <2>1. p[1] \in Repos /\ p[2] \in Manifests /\ x \in Manifests
    BY Contents DEF Revisions, ReferrersGet
  <2>2. FollowedFrom(p[2])
    BY <1>1
  <2>3. x \in seenM
    BY <2>1, <2>2 DEF FollowedFrom
  <2> QED
    BY <2>1, <2>3 DEF Revisions
<1>4. Reachable \subseteq S
  BY <1>2, <1>3 DEF Reachable
<1> SUFFICES ASSUME NEW d \in InUse PROVE d \in seenM \union seenB
  OBVIOUS
<1>5. PICK p \in Reachable : d = p[2] \/ (p[2] \in stored /\ d \in BlobsOf[p[2]])
  BY DEF InUse
<1>6. p[2] \in seenM
  BY <1>4
<1> QED
  BY <1>1, <1>5, <1>6 DEF FollowedFrom

LEMMA FollowPlan ==
    ASSUME DeleteUntagged, UInv, GInv', PlanSweepManifests \/ PlanSweepBlobs
    PROVE  UInv'
<1>1. UNCHANGED <<known, tags, refs, pending, seenM, seenB, used>>
      /\ phase \in {"mark", "plan"} /\ phase' \in {"plan", "sweep"}
  BY DEF PlanSweepManifests, PlanSweepBlobs, store, marking, history
<1>2. SingleView' /\ TagsHoused' /\ pending' = {}
  BY <1>1 DEF UInv, SingleView, TagsHoused
<1>3. used \subseteq seenM \union seenB
  <2>1. CASE PlanSweepManifests
    BY <2>1, AllMarked DEF PlanSweepManifests, UInv, GInv, MarksUsed
  <2>2. CASE PlanSweepBlobs
    BY <2>2 DEF PlanSweepBlobs, UInv, UsedMarked
  <2> QED
    BY <2>1, <2>2
<1>4. Kept'
  <2>1. CASE PlanSweepManifests
    BY <1>1, <2>1 DEF PlanSweepManifests, UInv, Kept
  <2>2. CASE PlanSweepBlobs
    BY <1>1, <1>3, <2>2 DEF PlanSweepBlobs, Kept
  <2> QED
    BY <2>1, <2>2
<1> QED
  BY <1>1, <1>2, <1>3, <1>4 DEF UInv, RootsAwaited, Followed, UsedMarked

LEMMA FollowSweep ==
    ASSUME UInv, GInv', SingleView', TagsHoused',
           \/ \E r \in Repos, m \in Manifests : SweepManifest(r, m)
           \/ \E d \in Digests : SweepBlob(d)
    PROVE  UInv'
<1>1. /\ phase = "sweep" /\ phase' = "sweep"
      /\ planB' \subseteq planB
      /\ UNCHANGED <<pending, seenM, seenB, used>>
  BY DEF SweepManifest, SweepBlob, marking, history
<1> QED
  BY <1>1 DEF UInv, RootsAwaited, Followed, UsedMarked, Kept

\* While a collection runs nothing else changes but ages.
LEMMA FollowClient ==
    ASSUME ~Online, UInv, GInv', SingleView', TagsHoused', Client
    PROVE  UInv'
<1>1. UNCHANGED <<phase, pending, roots, todo, seenM, seenB, planB, used>>
  BY ClientAdds DEF gc, marking, planned, history
<1>2. UsedMarked' /\ Kept' /\ (phase' # "roots" => pending' = {})
  BY <1>1 DEF UInv, UsedMarked, Kept
<1>3. CASE Collecting
  <2>1. UNCHANGED <<stored, tags, refs>>
    BY <1>3, OfflineClient DEF UInv, GInv
  <2>2. RootsAwaited' /\ Followed'
    BY <1>1, <2>1
       DEF UInv, RootsAwaited, Tagged, Awaited, Followed, FollowedFrom, ReferrersGet
  <2> QED
    BY <1>2, <2>2 DEF UInv
<1>4. CASE ~Collecting
  BY <1>1, <1>2, <1>4 DEF UInv, Collecting, RootsAwaited, Followed
<1> QED
  BY <1>3, <1>4

LEMMA UntaggedStep ==
    ASSUME DeleteUntagged, ~Online, Nested = {}, Alone, UInv, [Next]_vars
    PROVE  UInv'
<1>1. GInv' /\ SingleView' /\ TagsHoused'
  BY GarbageStep, HousingStep DEF UInv, GInv, SInv
<1>2. CASE UNCHANGED vars
  <2>1. UNCHANGED <<stored, tags, refs, phase, pending, roots, todo, seenM, seenB, planB, used>>
    BY <1>2 DEF vars, store, gc, marking, planned, history
  <2> QED
    BY <1>1, <2>1 DEF UInv, RootsAwaited, Tagged, Awaited, Followed, FollowedFrom,
                      ReferrersGet, UsedMarked, Kept
<1>3. CASE Client
  BY <1>1, <1>3, FollowClient
<1>4. CASE Collector
  <2>1. ASSUME EndGC \/ StopGC PROVE UInv'
    BY <1>1, <2>1 DEF EndGC, StopGC, Forget, UInv, RootsAwaited, Followed, UsedMarked, Kept
  <2> QED
    BY <1>1, <1>4, <2>1, FollowStart, FollowRepo, FollowTag, FollowRoot, FollowMark,
       FollowReferrers, FollowPlan, FollowSweep DEF Collector
<1> QED
  BY <1>2, <1>3, <1>4 DEF Next

\* With --delete-untagged, the servers stopped, no repository below another
\* and either one repository or no manifest with a subject, a collection
\* deletes nothing that the tags led to when it began: not what they lead
\* to through indexes, and not what refers to that (collectRootManifests,
\* markManifest, markManifestByReferrers).
THEOREM UntaggedReachableHolds ==
    ASSUME DeleteUntagged, ~Online, Nested = {}, Alone
    PROVE  Spec => ReachableKept
<1>1. UInv /\ [Next]_vars => UInv'
  BY UntaggedStep
<1>2. UInv /\ [Next]_vars =>
        [used \intersect stored \subseteq stored' \/ ~Collector]_vars
  BY OnlySweepDeletes DEF UInv, Kept
<1> QED
  BY <1>1, <1>2, UntaggedInit, PTL DEF Spec, ReachableKept

\* Nor does it then take a revision or an entry of a list of referrers of
\* any of that out of its repository (planSweepManifests).
THEOREM UntaggedLinksHold ==
    ASSUME DeleteUntagged, ~Online, Nested = {}, Alone
    PROVE  Spec => LinksKept
<1> DEFINE I == UInv /\ LinksSpared
<1>1. I /\ [Next]_vars => I'
  BY UntaggedStep, SparedStep DEF UInv, GInv, SInv
<1>2. Init => I
  BY UntaggedInit DEF Init, LinksSpared
<1>3. I /\ [Next]_vars =>
        [Collector => /\ \A x \in revs : x[2] \in used => x \in revs'
                      /\ \A x \in refs : x[3] \in used => x \in refs']_vars
  BY SparedKept
<1> QED
  BY <1>1, <1>2, <1>3, PTL DEF Spec, LinksKept

=============================================================================
