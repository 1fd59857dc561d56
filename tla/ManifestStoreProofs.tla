------------------------- MODULE ManifestStoreProofs -------------------------
(***************************************************************************)
(* Proofs about ManifestStore: type correctness, that nothing dangles,     *)
(* that referrers are found, that an empty tag has a writer, and the       *)
(* refinement of ContentStore.                                             *)
(***************************************************************************)
EXTENDS ManifestStore, TLAPS

-----------------------------------------------------------------------------
(* The shape of a request: which fields each program point may rely on.    *)

Putting == {"remove", "rename", "revision", "tag", "tagwrite", "referrer"}

Deleting == {"delreferrer", "delrevision"}

ShapeOf(r) ==
    /\ r.pc \in Putting => r.op = "put"
    /\ r.pc \in Putting \union Deleting => r.repo \in Repos /\ r.man \in Manifests
    /\ r.pc \in {"tag", "tagwrite", "resolve"} => r.ref \in Tags /\ r.repo \in Repos
    /\ r.pc \in {"resolve", "open"} => r.op \in {"put", "get"}

Shape == \A p \in Procs : ShapeOf(req[p])

Typed == TypeOK /\ Shape

-----------------------------------------------------------------------------
(* Type correctness.                                                       *)

LEMMA IdleType == Idle \in Request /\ ShapeOf(Idle)
BY DEF Idle, Request, PCs, ShapeOf, Putting, Deleting

\* One goroutine moves to a well-shaped record; the others keep theirs.
LEMMA RequestStep ==
    ASSUME req \in [Procs -> Request], Shape,
           NEW p \in Procs, NEW r \in Request, ShapeOf(r),
           req' = [req EXCEPT ![p] = r]
    PROVE  req' \in [Procs -> Request] /\ Shape'
BY DEF Shape

LEMMA FinishType ==
    ASSUME req \in [Procs -> Request], Shape, NEW p \in Procs, Finish(p)
    PROVE  req' \in [Procs -> Request] /\ Shape'
BY IdleType, RequestStep DEF Finish

\* A request goes on to a program point that its fields are fit for.
LEMMA GotoType ==
    ASSUME req \in [Procs -> Request], Shape, NEW p \in Procs, NEW pc \in PCs,
           Goto(p, pc), ShapeOf([req[p] EXCEPT !.pc = pc])
    PROVE  req' \in [Procs -> Request] /\ Shape'
<1> DEFINE r == [req[p] EXCEPT !.pc = pc]
<1>1. r \in Request
  BY DEF Request
<1>2. req' = [req EXCEPT ![p] = r]
  BY DEF Goto
<1> QED
  BY <1>1, <1>2, RequestStep

\* The entry of a manifest leads from its subject to it.
LEMMA EntryType ==
    ASSUME NEW r \in Repos, NEW m \in Manifests
    PROVE  /\ ReferrerEntry(r, m) \subseteq Repos \X Manifests \X Manifests
           /\ \A x \in ReferrerEntry(r, m) : x = <<r, Subject[m], m>>
BY ManifestConstants DEF ReferrerEntry

LEMMA ArriveType ==
    ASSUME Typed, NEW p \in Procs, Arrive(p)
    PROVE  /\ req' \in [Procs -> Request] /\ Shape'
           /\ UNCHANGED <<stored, layers, revs, tags, refs, indexed>>
<1> USE DEF Typed
<1>1. ASSUME NEW r \in Repos, NEW m \in Manifests, NEW ref \in Tags \union Manifests,
             ManifestsPut(p, r, m, ref)
      PROVE  req' \in [Procs -> Request] /\ Shape'
  <2> DEFINE q == [Idle EXCEPT !.pc = "remove", !.op = "put", !.repo = r,
                               !.ref = ref, !.man = m]
  <2>1. q \in Request /\ ShapeOf(q)
    BY DEF Idle, Request, PCs, ShapeOf, Putting, Deleting
  <2> QED
    BY <1>1, <2>1, RequestStep DEF ManifestsPut, Begin, TypeOK
<1>2. ASSUME NEW r \in Repos, NEW ref \in Tags \union Manifests,
             ManifestsGet(p, r, ref)
      PROVE  req' \in [Procs -> Request] /\ Shape'
  <2> DEFINE pc == IF ref \in Tags THEN "resolve" ELSE "open"
             q == [Idle EXCEPT !.pc = pc, !.op = "get", !.repo = r, !.ref = ref]
  <2>0. pc \in {"resolve", "open"} /\ (pc = "resolve" => ref \in Tags)
    OBVIOUS
  <2> HIDE DEF pc
  <2>1. q \in Request /\ ShapeOf(q)
    BY <2>0 DEF Idle, Request, PCs, ShapeOf, Putting, Deleting
  <2> QED
    BY <1>2, <2>1, RequestStep DEF ManifestsGet, Begin, TypeOK, pc
<1>3. ASSUME NEW r \in Repos, NEW m \in Manifests, ManifestsDelete(p, r, m)
      PROVE  req' \in [Procs -> Request] /\ Shape'
  <2> DEFINE q == [Idle EXCEPT !.pc = "delreferrer", !.op = "delete",
                               !.repo = r, !.ref = m, !.man = m]
  <2>1. q \in Request /\ ShapeOf(q)
    BY DEF Idle, Request, PCs, ShapeOf, Putting, Deleting
  <2> QED
    BY <1>3, <2>1, RequestStep DEF ManifestsDelete, Begin, TypeOK
<1>4. ASSUME NEW r \in Repos, NEW s \in Manifests, ReferrersList(p, r, s)
      PROVE  req' \in [Procs -> Request] /\ Shape'
  <2> DEFINE T == ReferrersGet(r, s)
             O == Settled(r, s)
             q == [Idle EXCEPT !.pc = "blobs", !.op = "list", !.repo = r,
                               !.ref = s, !.todo = T, !.owed = O]
  <2>0. T \subseteq Manifests /\ O \subseteq Manifests
    BY DEF ReferrersGet, Settled
  <2> HIDE DEF T, O
  <2>1. q \in Request /\ ShapeOf(q)
    BY <2>0 DEF Idle, Request, PCs, ShapeOf, Putting, Deleting
  <2> QED
    BY <1>4, <2>1, RequestStep DEF ReferrersList, Begin, TypeOK, T, O
<1>5. UNCHANGED <<stored, layers, revs, tags, refs, indexed>>
  BY DEF Arrive, ManifestsPut, ManifestsGet, ManifestsDelete, ReferrersList
<1> QED
  BY <1>1, <1>2, <1>3, <1>4, <1>5 DEF Arrive

\* Requests keep their type and shape, whatever step one of them takes.
LEMMA ServeShape ==
    ASSUME Typed, NEW p \in Procs,
           Serve(p) \/ LinkFails(p) \/ FillFails(p) \/ ReferrerFails(p) \/ DeleteFails(p)
    PROVE  req' \in [Procs -> Request] /\ Shape'
<1> USE DEF Typed, At
<1>0. req \in [Procs -> Request] /\ req[p] \in Request /\ ShapeOf(req[p]) /\ Shape
  BY DEF TypeOK, Shape
<1>1. CASE Finish(p)
  BY <1>0, <1>1, FinishType
<1> DEFINE to(pc) == [req[p] EXCEPT !.pc = pc]
<1>2. ASSUME NEW pc \in {"rename", "revision", "tagwrite", "referrer"},
             Goto(p, pc), req[p].pc \in Putting,
             pc = "tagwrite" => req[p].pc = "tag"
      PROVE  req' \in [Procs -> Request] /\ Shape'
  <2>1. pc \in PCs /\ ShapeOf(to(pc))
    BY <1>0, <1>2 DEF ShapeOf, Putting, Deleting, Request, PCs
  <2> QED
    BY <1>0, <1>2, <2>1, GotoType
<1>3. ASSUME NEW pc \in {"tag", "resolve", "referrer", "open"},
             Goto(p, pc), req[p].pc \in Putting,
             pc \in {"tag", "resolve"} => req[p].ref \in Tags
      PROVE  req' \in [Procs -> Request] /\ Shape'
  <2>1. pc \in PCs /\ ShapeOf(to(pc))
    BY <1>0, <1>3 DEF ShapeOf, Putting, Deleting, Request, PCs
  <2> QED
    BY <1>0, <1>3, <2>1, GotoType
<1>4. CASE PutRemove(p) \/ PutRename(p) \/ TruncateTag(p) \/ WriteTag(p)
  BY <1>2, <1>4 DEF PutRemove, PutRename, TruncateTag, WriteTag, Putting
<1>5. CASE PutRevision(p) \/ PutReferrer(p) \/ ReferrerFails(p)
  <2>1. CASE req[p].ref \in Tags
    BY <1>3, <1>5, <2>1 DEF PutRevision, PutReferrer, ReferrerFails, Putting
  <2>2. CASE req[p].ref \notin Tags
    BY <1>3, <1>5, <2>2 DEF PutRevision, PutReferrer, ReferrerFails, Putting
  <2> QED
    BY <2>1, <2>2
<1>6. CASE Resolve(p) /\ ~Finish(p)
  <2> DEFINE t == tags[TagOf(p)]
             q == [req[p] EXCEPT !.pc = "open", !.read = t]
  <2>1. t \in Manifests /\ req' = [req EXCEPT ![p] = q]
    BY <1>0, <1>6 DEF Resolve
  <2> HIDE DEF t
  <2>2. q \in Request /\ ShapeOf(q)
    BY <1>0, <1>6, <2>1 DEF Resolve, ShapeOf, Putting, Deleting, Request, PCs
  <2> QED
    BY <1>0, <2>1, <2>2, RequestStep
<1>7. CASE OpenManifest(p) /\ ~Finish(p)
  <2> DEFINE m == IF req[p].ref \in Tags THEN req[p].read ELSE req[p].ref
             q == [req[p] EXCEPT !.pc = "answer", !.read = m]
  <2>1. m \in stored /\ req' = [req EXCEPT ![p] = q]
    BY <1>0, <1>7 DEF OpenManifest
  <2>2. m \in Manifests
    BY <2>1 DEF TypeOK
  <2> HIDE DEF m
  <2>3. q \in Request /\ ShapeOf(q)
    BY <1>0, <2>2 DEF ShapeOf, Putting, Deleting, Request, PCs
  <2> QED
    BY <1>0, <2>1, <2>3, RequestStep
<1>8. CASE DeleteReferrer(p)
  <2>1. "delrevision" \in PCs /\ ShapeOf(to("delrevision"))
    BY <1>0, <1>8 DEF DeleteReferrer, ShapeOf, Putting, Deleting, Request, PCs
  <2> QED
    BY <1>0, <1>8, <2>1, GotoType DEF DeleteReferrer
<1>9. CASE ReadReferrer(p) /\ ~Finish(p)
  <2>1. PICK m \in req[p].todo :
            req' = [req EXCEPT ![p].todo = @ \ {m}, ![p].list = @ \union {m}]
    BY <1>9 DEF ReadReferrer
  <2> DEFINE T == req[p].todo \ {m}
             L == req[p].list \union {m}
             q == [req[p] EXCEPT !.todo = T, !.list = L]
  <2>2. req' = [req EXCEPT ![p] = q]
    BY <1>0, <2>1
  <2>3. T \subseteq Manifests /\ L \subseteq Manifests
    BY <1>0, <2>1 DEF Request
  <2> HIDE DEF T, L
  <2>4. q \in Request /\ ShapeOf(q)
    BY <1>0, <1>9, <2>3 DEF ReadReferrer, ShapeOf, Putting, Deleting, Request, PCs
  <2> QED
    BY <1>0, <2>2, <2>4, RequestStep
<1>10. CASE ReferrersListed(p)
  <2>1. "answer" \in PCs /\ ShapeOf(to("answer"))
    BY <1>0 DEF ShapeOf, Putting, Deleting, PCs, Request
  <2> QED
    BY <1>0, <1>10, <2>1, GotoType DEF ReferrersListed
<1>11. Answer(p) \/ DeleteRevision(p) \/ LinkFails(p) \/ FillFails(p) \/ DeleteFails(p)
         => Finish(p)
  BY DEF Answer, DeleteRevision, LinkFails, FillFails, DeleteFails
<1> QED
  BY <1>1, <1>4, <1>5, <1>6, <1>7, <1>8, <1>9, <1>10, <1>11 DEF Serve

\* A tag that is deleted leaves the requests well-shaped.
LEMMA DeleteTagShape ==
    ASSUME Typed, NEW x \in Repos \X Tags, DeleteTag(x)
    PROVE  req' \in [Procs -> Request] /\ Shape'
<1> DEFINE r(p) == IF At(p, "tagwrite") /\ TagOf(p) = x
                   THEN [req[p] EXCEPT !.pc = "referrer"] ELSE req[p]
<1>1. ASSUME NEW p \in Procs
      PROVE  r(p) \in Request /\ ShapeOf(r(p))
  <2>1. req[p] \in Request /\ ShapeOf(req[p])
    BY DEF Typed, TypeOK, Shape
  <2>2. CASE At(p, "tagwrite") /\ TagOf(p) = x
    <3>1. r(p) = [req[p] EXCEPT !.pc = "referrer"]
      BY <2>2
    <3>2. r(p) \in Request
      BY <2>1, <3>1 DEF Request, PCs
    <3>3. ShapeOf(r(p))
      BY <2>1, <2>2, <3>1 DEF At, ShapeOf, Putting, Deleting, Request
    <3> QED
      BY <3>2, <3>3
  <2> QED
    BY <2>1, <2>2
<1>2. req' = [p \in Procs |-> r(p)]
  BY DEF DeleteTag
<1> HIDE DEF r
<1> QED
  BY <1>1, <1>2 DEF Shape

LEMMA TypeInit == Init => Typed
<1> SUFFICES ASSUME Init PROVE Typed
  OBVIOUS
<1>1. req \in [Procs -> Request] /\ Shape
  BY IdleType DEF Init, Shape
<1>2. tags \in [Repos \X Tags -> Manifests \union {None, Torn, Spoilt}]
  BY DEF Init
<1> QED
  BY <1>1, <1>2 DEF Init, Typed, TypeOK

LEMMA TypeStep ==
    ASSUME Typed, [Next]_vars
    PROVE  Typed'
<1> USE DEF Typed
<1>1. CASE UNCHANGED vars
  BY <1>1 DEF vars, TypeOK, Shape
<1>2. ASSUME NEW p \in Procs, Arrive(p)
      PROVE  Typed'
  BY <1>2, ArriveType DEF TypeOK
<1>3. ASSUME NEW p \in Procs,
             Serve(p) \/ LinkFails(p) \/ FillFails(p) \/ ReferrerFails(p) \/ DeleteFails(p)
      PROVE  Typed'
  <2>1. req' \in [Procs -> Request] /\ Shape'
    BY <1>3, ServeShape
  <2>2. req[p] \in Request /\ ShapeOf(req[p])
    BY DEF TypeOK, Shape
  <2>3. CASE PutRemove(p) \/ PutRename(p) \/ PutRevision(p)
    <3>1. req[p].man \in Manifests /\ Mine(p) \in Revisions
      BY <2>2, <2>3 DEF PutRemove, PutRename, PutRevision, At, ShapeOf,
                        Putting, Mine, Revisions
    <3> QED
      BY <2>1, <2>3, <3>1 DEF PutRemove, PutRename, PutRevision, TypeOK
  <2>4. CASE TruncateTag(p) \/ WriteTag(p) \/ FillFails(p)
    <3>1. req[p].man \in Manifests /\ TagOf(p) \in Repos \X Tags
      BY <2>2, <2>4 DEF TruncateTag, WriteTag, FillFails, At, ShapeOf, Putting, TagOf
    <3> QED
      BY <2>1, <2>4, <3>1 DEF TruncateTag, WriteTag, FillFails, TypeOK
  <2>5. CASE PutReferrer(p)
    <3>1. req[p].man \in Manifests /\ req[p].repo \in Repos /\ Mine(p) \in Revisions
      BY <2>2, <2>5 DEF PutReferrer, At, ShapeOf, Putting, Mine, Revisions
    <3>2. ReferrerEntry(req[p].repo, req[p].man) \subseteq Repos \X Manifests \X Manifests
      BY <3>1, EntryType
    <3> QED
      BY <2>1, <2>5, <3>1, <3>2 DEF PutReferrer, TypeOK
  <2>6. CASE DeleteReferrer(p)
    BY <2>1, <2>6 DEF DeleteReferrer, TypeOK
  <2>7. CASE DeleteRevision(p) \/ DeleteFails(p)
    BY <2>1, <2>7 DEF DeleteRevision, DeleteFails, TypeOK
  <2>8. CASE UNCHANGED <<stored, layers, revs, tags, refs, indexed>>
    BY <2>1, <2>8 DEF TypeOK
  <2> QED
    BY <1>3, <2>3, <2>4, <2>5, <2>6, <2>7, <2>8
       DEF Serve, LinkFails, FillFails, DeleteFails, ReferrerFails, Resolve, OpenManifest, Answer,
           ReadReferrer, ReferrersListed
<1>4. ASSUME NEW x \in Repos \X Tags, DeleteTag(x)
      PROVE  Typed'
  <2>1. req' \in [Procs -> Request] /\ Shape'
    BY <1>4, DeleteTagShape
  <2> QED
    BY <1>4, <2>1 DEF DeleteTag, TypeOK
<1>5. ASSUME NEW x \in Revisions, DeleteLayer(x)
      PROVE  Typed'
  BY <1>5 DEF DeleteLayer, TypeOK, Shape
<1> QED
  BY <1>1, <1>2, <1>3, <1>4, <1>5 DEF Next

\* The type invariant holds for any repositories, tags and manifests and any
\* number of requests (ManifestPut, ManifestGet, ManifestDelete).
THEOREM ManifestsTypeCorrect == Spec => []TypeOK
<1>1. Init => Typed
  BY TypeInit
<1>2. Typed /\ [Next]_vars => Typed'
  BY TypeStep
<1>3. Typed => TypeOK
  BY DEF Typed
<1> QED
  BY <1>1, <1>2, <1>3, PTL DEF Spec

-----------------------------------------------------------------------------
(* Nothing dangles.                                                        *)

\* A step of one goroutine leaves the requests of the others alone.
LEMMA OthersKept ==
    ASSUME req \in [Procs -> Request], NEW p \in Procs, NEW q \in Procs, q # p,
           \/ Arrive(p) \/ Serve(p)
           \/ LinkFails(p) \/ FillFails(p) \/ ReferrerFails(p) \/ DeleteFails(p)
    PROVE  req'[q] = req[q]
<1>1. CASE Arrive(p)
  BY <1>1 DEF Arrive, ManifestsPut, ManifestsGet, ManifestsDelete, ReferrersList,
              Begin
<1>2. CASE PutRemove(p) \/ PutRename(p) \/ PutRevision(p) \/ TruncateTag(p)
           \/ WriteTag(p) \/ PutReferrer(p) \/ ReferrerFails(p) \/ LinkFails(p)
           \/ FillFails(p) \/ DeleteFails(p)
  BY <1>2 DEF PutRemove, PutRename, PutRevision, TruncateTag, WriteTag,
              PutReferrer, ReferrerFails, LinkFails, FillFails, DeleteFails, Goto, Finish
<1>3. CASE Resolve(p) \/ OpenManifest(p) \/ Answer(p) \/ DeleteReferrer(p)
           \/ DeleteRevision(p) \/ ReadReferrer(p) \/ ReferrersListed(p)
  BY <1>3 DEF Resolve, OpenManifest, Answer, DeleteReferrer, DeleteRevision,
              ReadReferrer, ReferrersListed, Goto, Finish
<1> QED
  BY <1>1, <1>2, <1>3 DEF Serve

\* A manifest that can be read, or is being replaced, stays so.
LEMMA PublishedKept ==
    ASSUME Typed, [Next]_vars, NEW m, Published(m)
    PROVE  Published(m)'
<1> USE DEF Published, At
<1>0. req \in [Procs -> Request]
  BY DEF Typed, TypeOK
<1>1. CASE UNCHANGED vars
  BY <1>1 DEF vars
<1>2. ASSUME NEW p \in Procs,
             \/ Arrive(p) \/ Serve(p)
             \/ LinkFails(p) \/ FillFails(p) \/ ReferrerFails(p) \/ DeleteFails(p)
      PROVE  Published(m)'
  <2>1. CASE PutRemove(p)
    <3>1. req'[p].pc = "rename" /\ req'[p].man = req[p].man
      BY <1>0, <2>1 DEF PutRemove, Goto, Request
    <3>2. CASE m \in stored
      BY <2>1, <3>1, <3>2 DEF PutRemove
    <3>3. ASSUME NEW q \in Procs, req[q].pc = "rename", req[q].man = m
          PROVE  Published(m)'
      <4>1. q # p
        BY <2>1, <3>3 DEF PutRemove
      <4> QED
        BY <1>0, <1>2, <3>3, <4>1, OthersKept
    <3> QED
      BY <3>2, <3>3
  <2>2. CASE PutRename(p)
    <3>1. ASSUME NEW q \in Procs, req[q].pc = "rename", req[q].man = m
          PROVE  Published(m)'
      <4>1. CASE q = p
        BY <2>2, <3>1, <4>1 DEF PutRename
      <4>2. CASE q # p
        BY <1>0, <1>2, <3>1, <4>2, OthersKept
      <4> QED
        BY <4>1, <4>2
    <3> QED
      BY <2>2, <3>1 DEF PutRename
  <2>3. CASE ~PutRemove(p) /\ ~PutRename(p)
    <3>1. UNCHANGED stored /\ req[p].pc # "rename"
      BY <1>2, <2>3 DEF Arrive, ManifestsPut, ManifestsGet, ManifestsDelete,
           ReferrersList, Begin, Serve, LinkFails, FillFails, DeleteFails, ReferrerFails, PutRevision,
           TruncateTag, WriteTag, PutReferrer, Resolve, OpenManifest, Answer,
           DeleteReferrer, DeleteRevision, ReadReferrer, ReferrersListed
    <3> QED
      BY <1>0, <1>2, <3>1, OthersKept
  <2> QED
    BY <2>1, <2>2, <2>3
<1>3. ASSUME NEW x \in Repos \X Tags, DeleteTag(x)
      PROVE  Published(m)'
  <2>1. \A q \in Procs : req[q].pc = "rename" => req'[q] = req[q]
    BY <1>3 DEF DeleteTag
  <2> QED
    BY <1>3, <2>1 DEF DeleteTag
<1>4. ASSUME NEW x \in Revisions, DeleteLayer(x)
      PROVE  Published(m)'
  BY <1>4 DEF DeleteLayer
<1> QED
  BY <1>1, <1>2, <1>3, <1>4 DEF Next

\* A PUT writes its links after the blob: until then it holds a published one.
Held ==
    \A p \in Procs :
        req[p].pc \in {"revision", "tag", "tagwrite", "referrer"} =>
            Published(req[p].man)

DanglesInv == Typed /\ NothingDangles /\ Held

\* The program points a PUT comes from and goes to.
LEMMA HeldStep ==
    ASSUME DanglesInv, NEW p \in Procs,
           \/ Arrive(p) \/ Serve(p)
           \/ LinkFails(p) \/ FillFails(p) \/ ReferrerFails(p) \/ DeleteFails(p)
    PROVE  Held'
<1> USE DEF DanglesInv
<1>0. req \in [Procs -> Request] /\ req[p] \in Request
  BY DEF Typed, TypeOK
<1>1. \A m : Published(m) => Published(m)'
  <2> SUFFICES ASSUME NEW m, Published(m) PROVE Published(m)'
    OBVIOUS
  <2>1. [Next]_vars
    BY DEF Next
  <2> QED
    BY <2>1, PublishedKept
<1> DEFINE Late == {"revision", "tag", "tagwrite", "referrer"}
<1>2. (req[p].pc \in Late => Published(req[p].man))'
  <2>1. CASE Arrive(p)
    BY <1>0, <2>1, ZenonT(20) DEF Arrive, ManifestsPut, ManifestsGet, ManifestsDelete,
         ReferrersList, Begin, Idle
  <2>2. CASE PutRename(p)
    BY <1>0, <2>2 DEF PutRename, Goto, Published, At, Request
  <2>3. CASE PutRevision(p) \/ TruncateTag(p) \/ WriteTag(p)
    <3>1. req[p].pc \in Late /\ req'[p].man = req[p].man
      BY <1>0, <2>3 DEF PutRevision, TruncateTag, WriteTag, At, Goto, Request
    <3>2. Published(req[p].man)
      BY <3>1 DEF Held
    <3> QED
      BY <1>1, <3>1, <3>2 DEF Published, At
  <2>4. CASE Finish(p)
    BY <1>0, <2>4 DEF Finish, Idle
  <2>5. CASE PutRemove(p) \/ PutReferrer(p) \/ ReferrerFails(p) \/ DeleteReferrer(p)
             \/ ReferrersListed(p)
    BY <1>0, <2>5 DEF PutRemove, PutReferrer, ReferrerFails, DeleteReferrer,
         ReferrersListed, Goto, Request
  <2>6. CASE (Resolve(p) \/ OpenManifest(p)) /\ ~Finish(p)
    BY <1>0, <2>6 DEF Resolve, OpenManifest, Request
  <2>7. CASE ReadReferrer(p) /\ ~Finish(p)
    <3>1. req'[p].pc = "blobs"
      BY <1>0, <2>7 DEF ReadReferrer, At, Request
    <3> QED
      BY <3>1
  <2>8. Answer(p) \/ DeleteRevision(p) \/ LinkFails(p) \/ FillFails(p) \/ DeleteFails(p)
         => Finish(p)
    BY DEF Answer, DeleteRevision, LinkFails, FillFails, DeleteFails
  <2> QED
    BY <2>1, <2>2, <2>3, <2>4, <2>5, <2>6, <2>7, <2>8 DEF Serve
<1>3. ASSUME NEW q \in Procs, q # p, req'[q].pc \in Late
      PROVE  Published(req[q].man)'
  <2>1. req'[q] = req[q]
    BY <1>0, <1>3, OthersKept
  <2>2. Published(req[q].man)
    BY <1>3, <2>1 DEF Held
  <2> QED
    BY <1>1, <2>1, <2>2 DEF Published, At
<1> QED
  BY <1>2, <1>3 DEF Held

LEMMA DanglesStep ==
    ASSUME DanglesInv, [Next]_vars
    PROVE  DanglesInv'
<1> USE DEF DanglesInv
<1>1. Typed'
  BY TypeStep
<1>2. \A m : Published(m) => Published(m)'
  BY PublishedKept
<1>3. CASE UNCHANGED vars
  BY <1>1, <1>3 DEF vars, NothingDangles, Held, Published, At
<1>4. ASSUME NEW p \in Procs,
             \/ Arrive(p) \/ Serve(p)
             \/ LinkFails(p) \/ FillFails(p) \/ ReferrerFails(p) \/ DeleteFails(p)
      PROVE  DanglesInv'
  <2>1. Held'
    BY <1>4, HeldStep
  <2>2. req[p] \in Request
    BY DEF Typed, TypeOK
  <2>3. CASE PutRevision(p)
    <3>1. Published(req[p].man)
      BY <2>3 DEF PutRevision, At, Held
    <3> QED
      BY <1>1, <1>2, <2>1, <2>3, <3>1 DEF PutRevision, NothingDangles, Mine, Published
  <2>4. CASE TruncateTag(p) \/ FillFails(p)
    <3>1. \A x \in Repos \X Tags : tags'[x] \in Manifests => tags'[x] = tags[x]
      BY <2>4, ManifestConstants DEF TruncateTag, FillFails, Typed, TypeOK
    <3> QED
      BY <1>1, <1>2, <2>1, <2>4, <3>1 DEF TruncateTag, FillFails, NothingDangles, Published
  <2>5. CASE WriteTag(p)
    <3>1. Published(req[p].man)
      BY <2>5 DEF WriteTag, At, Held
    <3>2. \A x \in Repos \X Tags : tags'[x] = tags[x] \/ tags'[x] = req[p].man
      BY <2>5 DEF WriteTag, Typed, TypeOK
    <3> QED
      BY <1>1, <1>2, <2>1, <2>5, <3>1, <3>2 DEF WriteTag, NothingDangles, Published
  <2>6. CASE PutReferrer(p)
    <3>1. Published(req[p].man)
      BY <2>6 DEF PutReferrer, At, Held
    <3>2. req[p].repo \in Repos /\ req[p].man \in Manifests
      BY <2>6 DEF PutReferrer, At, Typed, Shape, ShapeOf, Putting
    <3>3. \A x \in refs' : x \in refs \/ x[3] = req[p].man
      BY <2>6, <3>2, EntryType DEF PutReferrer
    <3> QED
      BY <1>1, <1>2, <2>1, <2>6, <3>1, <3>3 DEF PutReferrer, NothingDangles, Published
  <2>7. CASE DeleteReferrer(p)
    BY <1>1, <1>2, <2>1, <2>7 DEF DeleteReferrer, NothingDangles
  <2>8. CASE DeleteRevision(p)
    BY <1>1, <1>2, <2>1, <2>8 DEF DeleteRevision, NothingDangles
  <2>9. CASE UNCHANGED <<revs, tags, refs>>
    BY <1>1, <1>2, <2>1, <2>9 DEF NothingDangles, Published
  <2> QED
    BY <1>4, <2>3, <2>4, <2>5, <2>6, <2>7, <2>8, <2>9
       DEF Arrive, ManifestsPut, ManifestsGet, ManifestsDelete, ReferrersList,
           Serve, LinkFails, FillFails, DeleteFails, ReferrerFails, PutRemove, PutRename, Resolve,
           OpenManifest, Answer, ReadReferrer, ReferrersListed
<1>5. ASSUME NEW x \in Repos \X Tags, DeleteTag(x)
      PROVE  DanglesInv'
  <2>1. \A y \in Repos \X Tags : tags'[y] \in Manifests => tags'[y] = tags[y]
    BY <1>5, ManifestConstants DEF DeleteTag, Typed, TypeOK
  <2>2. NothingDangles'
    BY <1>2, <1>5, <2>1 DEF DeleteTag, NothingDangles, Published
  <2>3. ASSUME NEW q \in Procs,
               req'[q].pc \in {"revision", "tag", "tagwrite", "referrer"}
        PROVE  /\ req[q].pc \in {"revision", "tag", "tagwrite", "referrer"}
               /\ req'[q].man = req[q].man
    <3>1. req[q] \in Request
      BY DEF Typed, TypeOK
    <3>2. CASE At(q, "tagwrite") /\ TagOf(q) = x
      BY <1>5, <2>3, <3>1, <3>2 DEF DeleteTag, At, Request
    <3>3. CASE ~(At(q, "tagwrite") /\ TagOf(q) = x)
      BY <1>5, <2>3, <3>3 DEF DeleteTag
    <3> QED
      BY <3>2, <3>3
  <2>4. Held'
    BY <1>2, <2>3 DEF Held, Published, At
  <2> QED
    BY <1>1, <2>2, <2>4
<1>6. ASSUME NEW x \in Revisions, DeleteLayer(x)
      PROVE  DanglesInv'
  BY <1>1, <1>6 DEF DeleteLayer, NothingDangles, Held, Published, At
<1> QED
  BY <1>3, <1>4, <1>5, <1>6 DEF Next

LEMMA DanglesInit == Init => DanglesInv
<1> SUFFICES ASSUME Init PROVE DanglesInv
  OBVIOUS
<1>1. NothingDangles
  BY ManifestConstants DEF Init, NothingDangles
<1>2. Held
  BY DEF Init, Held, Idle
<1> QED
  BY TypeInit, <1>1, <1>2 DEF DanglesInv

\* Whatever is pushed, replaced and deleted at a time, no revision, no filled
\* tag and no entry of a referrer leads to a manifest that is lost: each is
\* written by a PUT that has published the blob (ManifestPut).
THEOREM LinksLeadToManifests == Spec => []NothingDangles
<1>1. Init => DanglesInv
  BY DanglesInit
<1>2. DanglesInv /\ [Next]_vars => DanglesInv'
  BY DanglesStep
<1>3. DanglesInv => NothingDangles
  BY DEF DanglesInv
<1> QED
  BY <1>1, <1>2, <1>3, PTL DEF Spec

-----------------------------------------------------------------------------
(* Referrers are found.                                                    *)

\* What ReferrerListed says of an indexed referrer, whether or not its
\* revision is listed.
Entered(x) ==
    \/ Subject[x[2]] = None
    \/ <<x[1], Subject[x[2]], x[2]>> \in refs
    \/ \E p \in Procs : At(p, "delrevision") /\ Mine(p) = x

Entries == \A x \in indexed : Entered(x)

\* A list in the making still has, or will read, the referrers it owes.
Listing ==
    \A p \in Procs :
        /\ At(p, "blobs") =>
              req[p].op = "list" /\ req[p].owed \subseteq req[p].todo \union req[p].list
        /\ At(p, "answer") /\ req[p].op = "list" => req[p].owed \subseteq req[p].list

ReferrersInv == Typed /\ Entries /\ Listing

\* The steps of one goroutine keep the entries of referrers.
LEMMA EntriesStep ==
    ASSUME Typed, Entries, NEW p \in Procs,
           \/ Arrive(p) \/ Serve(p)
           \/ LinkFails(p) \/ FillFails(p) \/ ReferrerFails(p) \/ DeleteFails(p)
    PROVE  Entries'
<1>0. req \in [Procs -> Request] /\ req[p] \in Request /\ ShapeOf(req[p])
  BY DEF Typed, TypeOK, Shape
\* The other goroutines stay where they are.
<1>1. \A q \in Procs : q # p => req'[q] = req[q]
  BY <1>0, OthersKept
<1>2. CASE PutReferrer(p)
  <2>1. req[p].repo \in Repos /\ req[p].man \in Manifests
    BY <1>0, <1>2 DEF PutReferrer, At, ShapeOf, Putting
  <2>2. ASSUME NEW x \in indexed'
        PROVE  Entered(x)'
    <3>1. CASE x = Mine(p)
      <4>1. x[1] = req[p].repo /\ x[2] = req[p].man
        BY <3>1 DEF Mine
      <4>2. Subject[x[2]] # None => <<x[1], Subject[x[2]], x[2]>> \in refs'
        BY <1>2, <4>1 DEF PutReferrer, ReferrerEntry
      <4> QED
        BY <4>2 DEF Entered
    <3>2. CASE x # Mine(p)
      <4>1. Entered(x)
        BY <1>2, <2>2, <3>2 DEF PutReferrer, Entries
      <4>2. ASSUME NEW q \in Procs, At(q, "delrevision"), Mine(q) = x
            PROVE  Entered(x)'
        <5>1. q # p
          BY <1>2, <4>2 DEF PutReferrer, At
        <5> QED
          BY <1>1, <4>2, <5>1 DEF Entered, At, Mine
      <4> QED
        BY <1>2, <4>1, <4>2 DEF PutReferrer, Entered
    <3> QED
      BY <3>1, <3>2
  <2> QED
    BY <2>2 DEF Entries
<1>3. CASE DeleteReferrer(p)
  <2>1. req'[p].pc = "delrevision" /\ req'[p].repo = req[p].repo /\ req'[p].man = req[p].man
    BY <1>0, <1>3 DEF DeleteReferrer, Goto, Request
  <2>2. ASSUME NEW x \in indexed
        PROVE  Entered(x)'
    <3>1. Entered(x)
      BY <2>2 DEF Entries
    <3>0. x[1] \in Repos /\ x[2] \in Manifests /\ x = <<x[1], x[2]>>
      BY DEF Typed, TypeOK, Revisions
    <3>2. CASE Subject[x[2]] # None /\ <<x[1], Subject[x[2]], x[2]>> \in refs
      <4>1. CASE <<x[1], Subject[x[2]], x[2]>> \in refs'
        BY <4>1 DEF Entered
      <4>2. CASE <<x[1], Subject[x[2]], x[2]>> \notin refs'
        <5>1. <<x[1], Subject[x[2]], x[2]>> \in ReferrerEntry(req[p].repo, req[p].man)
          BY <1>3, <3>2, <4>2 DEF DeleteReferrer
        <5>2. x[1] = req[p].repo /\ x[2] = req[p].man
          BY <5>1 DEF ReferrerEntry
        <5> QED
          BY <2>1, <3>0, <5>2 DEF Entered, At, Mine
      <4> QED
        BY <4>1, <4>2
    <3>3. ASSUME NEW q \in Procs, At(q, "delrevision"), Mine(q) = x
          PROVE  Entered(x)'
      <4>1. q # p
        BY <1>3, <3>3 DEF DeleteReferrer, At
      <4> QED
        BY <1>1, <3>3, <4>1 DEF Entered, At, Mine
    <3> QED
      BY <3>1, <3>2, <3>3 DEF Entered
  <2> QED
    BY <1>3, <2>2 DEF DeleteReferrer, Entries
<1>4. CASE DeleteRevision(p) \/ DeleteFails(p)
  <2>1. ASSUME NEW x \in indexed'
        PROVE  Entered(x)'
    <3>1. Entered(x) /\ x # Mine(p)
      BY <1>4, <2>1 DEF DeleteRevision, DeleteFails, Entries
    <3>2. ASSUME NEW q \in Procs, At(q, "delrevision"), Mine(q) = x
          PROVE  Entered(x)'
      <4>1. q # p
        BY <3>1, <3>2
      <4> QED
        BY <1>1, <3>2, <4>1 DEF Entered, At, Mine
    <3> QED
      BY <1>4, <3>1, <3>2 DEF DeleteRevision, DeleteFails, Entered
  <2> QED
    BY <2>1 DEF Entries
<1>5. CASE ~PutReferrer(p) /\ ~DeleteReferrer(p)
           /\ ~DeleteRevision(p) /\ ~DeleteFails(p)
  <2>1. UNCHANGED <<refs, indexed>> /\ ~At(p, "delrevision")
    BY <1>5 DEF At, Arrive, ManifestsPut, ManifestsGet, ManifestsDelete,
         ReferrersList, Begin, Serve, LinkFails, FillFails, DeleteFails, ReferrerFails, PutRemove,
         PutRename, PutRevision, TruncateTag, WriteTag, Resolve, OpenManifest,
         Answer, ReadReferrer, ReferrersListed
  <2>2. ASSUME NEW x \in indexed
        PROVE  Entered(x)'
    <3>1. Entered(x)
      BY <2>2 DEF Entries
    <3> QED
      BY <1>1, <2>1, <3>1 DEF Entered, At, Mine
  <2> QED
    BY <2>1, <2>2 DEF Entries
<1> QED
  BY <1>2, <1>3, <1>4, <1>5

\* A goroutine that builds its list keeps what it owes.
LEMMA ListingStep ==
    ASSUME ReferrersInv, NEW p \in Procs,
           \/ Arrive(p) \/ Serve(p)
           \/ LinkFails(p) \/ FillFails(p) \/ ReferrerFails(p) \/ DeleteFails(p)
    PROVE  Listing'
<1>0. req \in [Procs -> Request] /\ req[p] \in Request /\ ShapeOf(req[p])
  BY DEF ReferrersInv, Typed, TypeOK, Shape
<1> DEFINE Fine(r) ==
             /\ r.pc = "blobs" => r.op = "list" /\ r.owed \subseteq r.todo \union r.list
             /\ r.pc = "answer" /\ r.op = "list" => r.owed \subseteq r.list
<1>1. \A q \in Procs : Fine(req[q])
  BY DEF ReferrersInv, Listing, At
<1>2. Fine(req'[p])
  <2>1. CASE Arrive(p)
    <3>1. ASSUME NEW r \in Repos, NEW s \in Manifests, ReferrersList(p, r, s)
          PROVE  Fine(req'[p])
      <4>1. Settled(r, s) \subseteq ReferrersGet(r, s)
        <5> SUFFICES ASSUME NEW m \in Settled(r, s)
                     PROVE  m \in ReferrersGet(r, s)
          OBVIOUS
        <5>1. m \in Manifests /\ <<r, m>> \in indexed /\ Subject[m] = s
          BY DEF Settled
        <5>2. \A q \in Procs : At(q, "delrevision") => Mine(q) # <<r, m>>
          BY DEF Settled
        <5>3. Entered(<<r, m>>)
          BY <5>1 DEF ReferrersInv, Entries
        <5>4. <<r, s, m>> \in refs
          BY <5>1, <5>2, <5>3, ManifestConstants DEF Entered
        <5> QED
          BY <5>1, <5>4 DEF ReferrersGet
      <4>2. /\ req'[p].pc = "blobs" /\ req'[p].op = "list"
            /\ req'[p].todo = ReferrersGet(r, s) /\ req'[p].owed = Settled(r, s)
        <5> HIDE DEF ReferrersGet, Settled
        <5> QED
          BY <1>0, <3>1 DEF ReferrersList, Begin, Idle
      <4> QED
        BY <4>1, <4>2
    <3>2. ASSUME ~\E r \in Repos, s \in Manifests : ReferrersList(p, r, s)
          PROVE  Fine(req'[p])
      <4>1. req'[p].pc \in {"remove", "resolve", "open", "delreferrer"}
        BY <1>0, <2>1, <3>2, ZenonT(60) DEF Arrive, ManifestsPut, ManifestsGet,
             ManifestsDelete, Begin, Idle
      <4> QED
        BY <4>1
    <3> QED
      BY <3>1, <3>2
  <2>2. CASE Finish(p)
    BY <1>0, <2>2 DEF Finish, Idle
  <2>3. CASE OpenManifest(p) /\ ~Finish(p)
    <3>1. req'[p].pc = "answer" /\ req'[p].op \in {"put", "get"}
      BY <1>0, <2>3 DEF OpenManifest, At, ShapeOf, Request
    <3> QED
      BY <3>1
  <2>4. CASE ReadReferrer(p) /\ ~Finish(p)
    <3>1. PICK m \in req[p].todo :
              req' = [req EXCEPT ![p].todo = @ \ {m}, ![p].list = @ \union {m}]
      BY <2>4 DEF ReadReferrer
    <3>2. /\ req'[p].pc = req[p].pc /\ req'[p].op = req[p].op
          /\ req'[p].owed = req[p].owed /\ req'[p].todo = req[p].todo \ {m}
          /\ req'[p].list = req[p].list \union {m}
      BY <1>0, <3>1 DEF Request
    <3>3. req[p].pc = "blobs"
      BY <2>4 DEF ReadReferrer, At
    <3>4. req[p].op = "list" /\ req[p].owed \subseteq req[p].todo \union req[p].list
      BY <1>1, <3>3
    <3> QED
      BY <3>2, <3>3, <3>4
  <2>5. CASE ReferrersListed(p)
    <3>1. /\ req'[p].pc = "answer" /\ req'[p].owed = req[p].owed
          /\ req'[p].list = req[p].list
      BY <1>0, <2>5 DEF ReferrersListed, Goto, Request
    <3>2. req[p].pc = "blobs" /\ req[p].todo = {}
      BY <2>5 DEF ReferrersListed, At
    <3>3. req[p].owed \subseteq req[p].todo \union req[p].list
      BY <1>1, <3>2
    <3> QED
      BY <3>1, <3>2, <3>3
  <2>6. CASE Resolve(p) /\ ~Finish(p)
    <3>1. req'[p].pc = "open"
      BY <1>0, <2>6 DEF Resolve, Request
    <3> QED
      BY <3>1
  <2>7. CASE PutRemove(p) \/ PutRename(p) \/ PutRevision(p) \/ TruncateTag(p)
             \/ WriteTag(p) \/ PutReferrer(p) \/ ReferrerFails(p) \/ DeleteReferrer(p)
    <3>1. req'[p].pc \notin {"blobs", "answer"}
      BY <1>0, <2>7 DEF PutRemove, PutRename, PutRevision, TruncateTag, WriteTag,
           PutReferrer, ReferrerFails, DeleteReferrer, Goto, Request
    <3> QED
      BY <3>1
  <2>8. Answer(p) \/ DeleteRevision(p) \/ LinkFails(p) \/ FillFails(p) \/ DeleteFails(p)
         => Finish(p)
    BY DEF Answer, DeleteRevision, LinkFails, FillFails, DeleteFails
  <2> QED
    BY <2>1, <2>2, <2>3, <2>4, <2>5, <2>6, <2>7, <2>8 DEF Serve
<1>3. \A q \in Procs : Fine(req'[q])
  <2>1. \A q \in Procs : q # p => req'[q] = req[q]
    BY <1>0, OthersKept
  <2> HIDE DEF Fine
  <2> QED
    BY <1>1, <1>2, <2>1
<1> QED
  BY <1>3 DEF Listing, At

LEMMA ReferrersStep ==
    ASSUME ReferrersInv, [Next]_vars
    PROVE  ReferrersInv'
<1>1. Typed'
  BY TypeStep DEF ReferrersInv
<1>2. CASE UNCHANGED vars
  BY <1>1, <1>2 DEF ReferrersInv, vars, Entries, Entered, Listing, At, Mine
<1>3. ASSUME NEW p \in Procs,
             \/ Arrive(p) \/ Serve(p)
             \/ LinkFails(p) \/ FillFails(p) \/ ReferrerFails(p) \/ DeleteFails(p)
      PROVE  ReferrersInv'
  BY <1>1, <1>3, EntriesStep, ListingStep DEF ReferrersInv
<1>4. ASSUME NEW x \in Repos \X Tags, DeleteTag(x)
      PROVE  ReferrersInv'
  <2>1. \A q \in Procs : ~At(q, "tagwrite") => req'[q] = req[q]
    BY <1>4 DEF DeleteTag
  <2>2. \A q \in Procs : At(q, "tagwrite") =>
            req'[q].pc \in {"tagwrite", "referrer"}
    <3> SUFFICES ASSUME NEW q \in Procs, At(q, "tagwrite")
                 PROVE  req'[q].pc \in {"tagwrite", "referrer"}
      OBVIOUS
    <3>1. req[q] \in Request
      BY DEF ReferrersInv, Typed, TypeOK
    <3>2. CASE TagOf(q) = x
      BY <1>4, <3>1, <3>2 DEF DeleteTag, Request
    <3>3. CASE TagOf(q) # x
      BY <1>4, <3>3 DEF DeleteTag, At
    <3> QED
      BY <3>2, <3>3
  <2>3. Entries'
    <3>1. ASSUME NEW y \in indexed PROVE Entered(y)'
      <4>1. Entered(y)
        BY <3>1 DEF ReferrersInv, Entries
      <4> QED
        BY <1>4, <2>1, <4>1 DEF DeleteTag, Entered, At, Mine
    <3> QED
      BY <1>4, <3>1 DEF DeleteTag, Entries
  <2>4. Listing'
    <3> SUFFICES ASSUME NEW q \in Procs
                 PROVE  /\ req'[q].pc = "blobs" =>
                             /\ req'[q].op = "list"
                             /\ req'[q].owed \subseteq req'[q].todo \union req'[q].list
                        /\ req'[q].pc = "answer" /\ req'[q].op = "list" =>
                             req'[q].owed \subseteq req'[q].list
      BY DEF Listing, At
    <3>1. CASE At(q, "tagwrite")
      BY <2>2, <3>1
    <3>2. CASE ~At(q, "tagwrite")
      BY <2>1, <3>2 DEF ReferrersInv, Listing, At
    <3> QED
      BY <3>1, <3>2
  <2> QED
    BY <1>1, <2>3, <2>4 DEF ReferrersInv
<1>5. ASSUME NEW x \in Revisions, DeleteLayer(x)
      PROVE  ReferrersInv'
  BY <1>1, <1>5 DEF DeleteLayer, ReferrersInv, Entries, Entered, Listing, At, Mine
<1> QED
  BY <1>2, <1>3, <1>4, <1>5 DEF Next

LEMMA ReferrersInit == Init => ReferrersInv
<1> SUFFICES ASSUME Init PROVE ReferrersInv
  OBVIOUS
<1>1. Entries
  BY DEF Init, Entries
<1>2. Listing
  BY DEF Init, Listing, At, Idle
<1> QED
  BY TypeInit, <1>1, <1>2 DEF ReferrersInv

\* A listed manifest that a PUT indexed is among the referrers of its subject
\* unless it is being deleted (indexReferrer, ManifestDelete).
THEOREM ReferrersAreListed == Spec => []ReferrerListed
<1>1. ReferrersInv /\ [Next]_vars => ReferrersInv'
  BY ReferrersStep
<1>2. ReferrersInv => ReferrerListed
  BY DEF ReferrersInv, Entries, Entered, ReferrerListed
<1> QED
  BY <1>1, <1>2, ReferrersInit, PTL DEF Spec

\* A list of referrers that is answered holds all that were settled when it
\* was asked for (ReferrersGet).
THEOREM ListsAreComplete == Spec => []ListComplete
<1>1. ReferrersInv /\ [Next]_vars => ReferrersInv'
  BY ReferrersStep
<1>2. ReferrersInv => ListComplete
  BY DEF ReferrersInv, Listing, ListComplete
<1> QED
  BY <1>1, <1>2, ReferrersInit, PTL DEF Spec

-----------------------------------------------------------------------------
(* An empty tag link has a PUT that is about to fill it.                   *)

LEMMA TornInit == Init => TornIsBeingFilled
BY ManifestConstants DEF Init, TornIsBeingFilled

\* The steps of one goroutine keep the writers of the links that stay empty.
LEMMA TornServe ==
    ASSUME Typed, TornIsBeingFilled, NEW p \in Procs,
           \/ Arrive(p) \/ Serve(p)
           \/ LinkFails(p) \/ FillFails(p) \/ ReferrerFails(p) \/ DeleteFails(p)
    PROVE  TornIsBeingFilled'
<1>0. /\ req \in [Procs -> Request] /\ req[p] \in Request /\ ShapeOf(req[p])
      /\ tags \in [Repos \X Tags -> Manifests \union {None, Torn, Spoilt}]
  BY DEF Typed, TypeOK, Shape
<1>1. \A q \in Procs : q # p => req'[q] = req[q]
  BY <1>0, OthersKept
\* A link that was empty before still has its writer, unless it was p.
<1>2. ASSUME NEW x \in Repos \X Tags, tags[x] = Torn,
             ~(At(p, "tagwrite") /\ TagOf(p) = x)
      PROVE  \E q \in Procs : At(q, "tagwrite")' /\ TagOf(q)' = x
  <2>1. PICK q \in Procs : At(q, "tagwrite") /\ TagOf(q) = x
    BY <1>2 DEF TornIsBeingFilled
  <2> QED
    BY <1>1, <1>2, <2>1 DEF At, TagOf
<1>3. CASE TruncateTag(p)
  <2>1. /\ ~At(p, "tagwrite")
        /\ \A x \in Repos \X Tags : x # TagOf(p) => tags'[x] = tags[x]
    BY <1>0, <1>3 DEF TruncateTag, At
  <2>2. At(p, "tagwrite")' /\ TagOf(p)' = TagOf(p)
    BY <1>0, <1>3 DEF TruncateTag, At, Goto, TagOf, Request
  <2> QED
    BY <1>2, <2>1, <2>2 DEF TornIsBeingFilled
<1>4. CASE WriteTag(p) \/ FillFails(p)
  <2>1. TagOf(p) \in Repos \X Tags /\ req[p].man \in Manifests
    BY <1>0, <1>4 DEF WriteTag, FillFails, At, TagOf, ShapeOf, Putting
  <2>2. /\ tags'[TagOf(p)] # Torn
        /\ \A x \in Repos \X Tags : x # TagOf(p) => tags'[x] = tags[x]
    BY <1>0, <1>4, <2>1, ManifestConstants DEF WriteTag, FillFails
  <2> QED
    BY <1>2, <2>2 DEF TornIsBeingFilled
<1>5. CASE ~TruncateTag(p) /\ ~WriteTag(p) /\ ~FillFails(p)
  <2>1. UNCHANGED tags /\ ~At(p, "tagwrite")
    BY <1>5 DEF At, Arrive, ManifestsPut, ManifestsGet, ManifestsDelete,
         ReferrersList, Begin, Serve, LinkFails, DeleteFails, ReferrerFails, PutRemove,
         PutRename, PutRevision, PutReferrer, Resolve, OpenManifest, Answer,
         DeleteReferrer, DeleteRevision, ReadReferrer, ReferrersListed
  <2> QED
    BY <1>2, <2>1 DEF TornIsBeingFilled
<1> QED
  BY <1>3, <1>4, <1>5

\* However many PUTs truncate and fill a tag while others delete it, it is
\* empty only while one of them is about to fill it, or after a write failed
\* (ManifestPut, ManifestDelete).
THEOREM TornTagsHaveWriters == Spec => []TornIsBeingFilled
<1>1. Typed /\ TornIsBeingFilled /\ [Next]_vars => Typed' /\ TornIsBeingFilled'
  <2> SUFFICES ASSUME Typed, TornIsBeingFilled, [Next]_vars
               PROVE  Typed' /\ TornIsBeingFilled'
    OBVIOUS
  <2>1. Typed'
    BY TypeStep
  <2>2. ASSUME NEW x \in Repos \X Tags, DeleteTag(x) PROVE TornIsBeingFilled'
    <3>1. /\ tags'[x] # Torn
          /\ \A y \in Repos \X Tags : y # x => tags'[y] = tags[y]
      BY <2>2, ManifestConstants DEF DeleteTag, Typed, TypeOK
    <3>2. \A q \in Procs : TagOf(q) # x => req'[q] = req[q]
      BY <2>2 DEF DeleteTag
    <3> QED
      BY <3>1, <3>2 DEF TornIsBeingFilled, At, TagOf
  <2>3. ASSUME UNCHANGED <<tags, req>> PROVE TornIsBeingFilled'
    BY <2>3 DEF TornIsBeingFilled, At, TagOf
  <2> QED
    BY <2>1, <2>2, <2>3, TornServe DEF Next, DeleteLayer, vars
<1> QED
  BY <1>1, TypeInit, TornInit, PTL DEF Spec

-----------------------------------------------------------------------------
(* The refinement: manifests are published for good, and what a repository *)
(* lists is published.                                                     *)

Available == {m \in Manifests : Published(m)}

\* A step publishes a manifest only by the remove that precedes its rename.
LEMMA PublishedBefore ==
    ASSUME Typed, NEW p \in Procs,
           \/ Arrive(p) \/ Serve(p)
           \/ LinkFails(p) \/ FillFails(p) \/ ReferrerFails(p) \/ DeleteFails(p),
           NEW m, Published(m)'
    PROVE  Published(m) \/ (PutRemove(p) /\ m = req[p].man)
<1> USE DEF Published, At
<1>0. req \in [Procs -> Request] /\ req[p] \in Request
  BY DEF Typed, TypeOK
<1>1. \A q \in Procs : q # p => req'[q] = req[q]
  BY <1>0, OthersKept
<1>2. CASE PutRemove(p)
  BY <1>0, <1>1, <1>2 DEF PutRemove, Goto, Request
<1>3. CASE PutRename(p)
  BY <1>0, <1>1, <1>3 DEF PutRename, Goto, Request
<1>4. CASE ~PutRemove(p) /\ ~PutRename(p)
  <2>1. UNCHANGED stored
    BY <1>4 DEF Arrive, ManifestsPut, ManifestsGet, ManifestsDelete,
         ReferrersList, Serve, LinkFails, FillFails, DeleteFails, ReferrerFails, PutRevision,
         TruncateTag, WriteTag, PutReferrer, Resolve, OpenManifest, Answer,
         DeleteReferrer, DeleteRevision, ReadReferrer, ReferrersListed
  <2>2. req'[p].pc # "rename"
    <3>1. CASE Finish(p)
      BY <1>0, <3>1 DEF Finish, Idle
    <3>2. CASE Arrive(p)
      BY <1>0, <3>2, ZenonT(20) DEF Arrive, ManifestsPut, ManifestsGet,
           ManifestsDelete, ReferrersList, Begin, Idle
    <3>3. CASE PutRevision(p) \/ TruncateTag(p) \/ WriteTag(p) \/ PutReferrer(p)
               \/ ReferrerFails(p) \/ DeleteReferrer(p) \/ ReferrersListed(p)
      BY <1>0, <3>3 DEF PutRevision, TruncateTag, WriteTag, PutReferrer,
           ReferrerFails, DeleteReferrer, ReferrersListed, Goto, Request
    <3>4. CASE (Resolve(p) \/ OpenManifest(p) \/ ReadReferrer(p)) /\ ~Finish(p)
      <4>1. CASE Resolve(p)
        BY <1>0, <3>4, <4>1 DEF Resolve, Request
      <4>2. CASE OpenManifest(p)
        BY <1>0, <3>4, <4>2 DEF OpenManifest, Request
      <4>3. CASE ReadReferrer(p)
        <5>1. req'[p].pc = req[p].pc
          BY <1>0, <3>4, <4>3 DEF ReadReferrer, Request
        <5> QED
          BY <4>3, <5>1 DEF ReadReferrer
      <4> QED
        BY <3>4, <4>1, <4>2, <4>3
    <3> QED
      BY <1>4, <3>1, <3>2, <3>3, <3>4
         DEF Serve, LinkFails, FillFails, DeleteFails, Answer, DeleteRevision
  <2> QED
    BY <1>1, <2>1, <2>2
<1> QED
  BY <1>2, <1>3, <1>4

\* A step of the abstract store, or none.
StoreStep == UNCHANGED <<Available, Listed>> \/ Store!Next

LEMMA StoreServe ==
    ASSUME DanglesInv, NEW p \in Procs,
           \/ Arrive(p) \/ Serve(p)
           \/ LinkFails(p) \/ FillFails(p) \/ ReferrerFails(p) \/ DeleteFails(p)
    PROVE  StoreStep
<1>0. /\ Typed /\ req[p] \in Request /\ ShapeOf(req[p])
      /\ refs \subseteq Repos \X Manifests \X Manifests
  BY DEF DanglesInv, Typed, TypeOK, Shape
<1>1. \A m : Published(m) => Published(m)'
  BY <1>0, PublishedKept DEF Next
<1>2. \A m : Published(m)' => Published(m) \/ (PutRemove(p) /\ m = req[p].man)
  BY <1>0, PublishedBefore
<1>3. CASE PutRemove(p)
  <2>1. req[p].man \in Manifests
    BY <1>0, <1>3 DEF PutRemove, At, ShapeOf, Putting
  <2>2. UNCHANGED Listed
    BY <1>3 DEF PutRemove, Listed
  <2>3. \/ UNCHANGED Available
        \/ Available' = Available \union {req[p].man}
    BY <1>1, <1>2, <2>1 DEF Available
  <2> QED
    BY <2>1, <2>2, <2>3 DEF StoreStep, Store!Next, Store!Publish, Available
<1>4. ASSUME ~PutRemove(p) PROVE UNCHANGED Available
  BY <1>1, <1>2, <1>4 DEF Available
<1> DEFINE r == req[p].repo
           m == req[p].man
<1>5. CASE PutRevision(p) \/ PutReferrer(p)
  <2>1. /\ r \in Repos /\ m \in Manifests /\ Published(m)
        /\ ~PutRemove(p)
    BY <1>0, <1>5
       DEF PutRevision, PutReferrer, PutRemove, At, ShapeOf, Putting, DanglesInv, Held
  <2>2. Listed' = Listed \union {<<r, m>>} \/ Listed' = Listed
    <3>1. CASE PutRevision(p)
      BY <2>1, <3>1 DEF PutRevision, Listed, Mine, Revisions
    <3>2. CASE PutReferrer(p) /\ Subject[m] = None
      BY <3>2 DEF PutReferrer, ReferrerEntry, Listed
    <3>3. CASE PutReferrer(p) /\ Subject[m] # None
      <4>1. refs' = refs \union {<<r, Subject[m], m>>} /\ UNCHANGED revs
        BY <3>3 DEF PutReferrer, ReferrerEntry
      <4>2. Subject[m] \in Manifests
        BY <2>1, <3>3, ManifestConstants
      <4>3. ASSUME NEW x \in Revisions
            PROVE  x \in Listed' <=> x \in Listed \/ x = <<r, m>>
        <5>1. x = <<x[1], x[2]>>
          BY DEF Revisions
        <5>2. /\ x \in Listed  <=> \/ x \in revs
                                 \/ \E s \in Manifests : <<x[1], s, x[2]>> \in refs
              /\ x \in Listed' <=> \/ x \in revs'
                                 \/ \E s \in Manifests : <<x[1], s, x[2]>> \in refs'
          BY DEF Listed
        <5>3. \A s \in Manifests : <<x[1], s, x[2]>> \in refs' <=>
                 \/ <<x[1], s, x[2]>> \in refs
                 \/ s = Subject[m] /\ x[1] = r /\ x[2] = m
          BY <4>1
        <5>4. x = <<r, m>> <=> x[1] = r /\ x[2] = m
          BY <5>1
        <5>5. (\E s \in Manifests : <<x[1], s, x[2]>> \in refs') <=>
                 \/ \E s \in Manifests : <<x[1], s, x[2]>> \in refs
                 \/ x[1] = r /\ x[2] = m
          BY <4>2, <5>3
        <5>6. revs' = revs
          BY <4>1
        <5> QED
          BY <5>2, <5>4, <5>5, <5>6
      <4>4. Listed \subseteq Revisions /\ Listed' \subseteq Revisions
            /\ <<r, m>> \in Revisions
        BY <2>1 DEF Listed, Revisions
      <4> QED
        BY <4>3, <4>4
    <3> QED
      BY <1>5, <3>1, <3>2, <3>3
  <2>3. m \in Available
    BY <2>1 DEF Available
  <2> HIDE DEF r, m
  <2> QED
    BY <1>4, <2>1, <2>2, <2>3 DEF StoreStep, Store!Next, Store!Link, Available
<1>6. CASE DeleteReferrer(p) \/ DeleteRevision(p)
  <2>1. r \in Repos /\ m \in Manifests /\ ~PutRemove(p)
    BY <1>0, <1>6
       DEF DeleteReferrer, DeleteRevision, PutRemove, At, ShapeOf, Deleting, Putting
  <2>2. /\ refs' \subseteq refs /\ revs' \subseteq revs
        /\ \A x \in refs : x \in refs' \/ x = <<r, Subject[m], m>>
        /\ \A x \in revs : x \in revs' \/ x = <<r, m>>
    BY <1>6 DEF DeleteReferrer, DeleteRevision, ReferrerEntry, Mine
  <2>3. ASSUME NEW x \in Revisions
        PROVE  /\ x \in Listed' => x \in Listed
               /\ x \in Listed /\ x # <<r, m>> => x \in Listed'
    <3>1. x = <<x[1], x[2]>>
      BY DEF Revisions
    <3>2. \A s \in Manifests : <<x[1], s, x[2]>> \in refs /\ x # <<r, m>>
                                  => <<x[1], s, x[2]>> \in refs'
      BY <2>2, <3>1
    <3> QED
      BY <2>2, <3>2 DEF Listed
  <2>4. Listed \subseteq Revisions /\ Listed' \subseteq Revisions
    BY DEF Listed
  <2>5. Listed' = Listed \ {<<r, m>>} \/ Listed' = Listed
    BY <2>3, <2>4
  <2> HIDE DEF r, m
  <2> QED
    BY <1>4, <2>1, <2>5 DEF StoreStep, Store!Next, Store!Unlink, Available
<1>7. CASE UNCHANGED <<revs, refs>> /\ ~PutRemove(p)
  BY <1>4, <1>7 DEF StoreStep, Listed
<1> QED
  BY <1>3, <1>5, <1>6, <1>7
     DEF Arrive, ManifestsPut, ManifestsGet, ManifestsDelete, ReferrersList,
         Serve, LinkFails, FillFails, DeleteFails, ReferrerFails, PutRename, TruncateTag,
         WriteTag, Resolve, OpenManifest, Answer, ReadReferrer, ReferrersListed

\* The manifests of the repositories implement the abstract store, for any
\* number of concurrent PUTs, GETs and DELETEs: a manifest that has been
\* published stays published, and repositories take up and drop one published
\* manifest at a time (ManifestPut, ManifestDelete).
THEOREM ManifestsImplementStore == Spec => ImplementsStore
<1>1. Init => DanglesInv
  BY DanglesInit
<1>2. Init => Store!Init
  <2> SUFFICES ASSUME Init PROVE Store!Init
    OBVIOUS
  <2>1. \A m : ~Published(m)
    BY DEF Init, Published, At, Idle
  <2>2. Listed = {}
    BY DEF Init, Listed
  <2> QED
    BY <2>1, <2>2 DEF Store!Init
<1>3. DanglesInv /\ [Next]_vars => DanglesInv'
  BY DanglesStep
<1>4. DanglesInv /\ [Next]_vars => [Store!Next]_(Store!vars)
  <2> SUFFICES ASSUME DanglesInv, [Next]_vars PROVE StoreStep
    BY DEF StoreStep, Available, Store!vars
  <2>1. ASSUME NEW x \in Repos \X Tags, DeleteTag(x) PROVE StoreStep
    <3>1. \A q \in Procs : (At(q, "rename") <=> At(q, "rename")')
                            /\ (At(q, "rename") => req'[q].man = req[q].man)
      <4> SUFFICES ASSUME NEW q \in Procs
                   PROVE  (At(q, "rename") <=> At(q, "rename")')
                            /\ (At(q, "rename") => req'[q].man = req[q].man)
        OBVIOUS
      <4>1. req[q] \in Request
        BY DEF DanglesInv, Typed, TypeOK
      <4>2. CASE At(q, "tagwrite") /\ TagOf(q) = x
        BY <2>1, <4>1, <4>2 DEF DeleteTag, At, Request
      <4>3. CASE ~(At(q, "tagwrite") /\ TagOf(q) = x)
        BY <2>1, <4>3 DEF DeleteTag, At
      <4> QED
        BY <4>2, <4>3
    <3>2. UNCHANGED Available
      BY <2>1, <3>1 DEF DeleteTag, Available, Published
    <3> QED
      BY <2>1, <3>2 DEF DeleteTag, StoreStep, Listed
  <2>2. ASSUME UNCHANGED <<stored, revs, refs, req>> PROVE StoreStep
    BY <2>2 DEF StoreStep, Available, Published, At, Listed
  <2> QED
    BY <2>1, <2>2, StoreServe DEF Next, DeleteLayer, vars
<1> QED
  BY <1>1, <1>2, <1>3, <1>4, PTL DEF Spec, ImplementsStore, Store!Spec
=============================================================================
