----------------------- MODULE PullThroughCacheProofs -----------------------
(***************************************************************************)
(* Proofs about PullThroughCache: type correctness, that only verified     *)
(* content is stored and answered, and that a tag whose HEAD succeeded is  *)
(* answered with a manifest that it led to.                                *)
(***************************************************************************)
EXTENDS PullThroughCache, TLAPS

-----------------------------------------------------------------------------
(* The invariant.                                                          *)

\* The program points at which there is something to store, or stored.
Storing == {"remove", "rename", "addlayer", "tag", "tagwrite", "reread"}

\* What a request is for, by program point.
AimOf(r) ==
    /\ r.pc # "idle" => r.repo \in Repos /\ r.op # "none"
    /\ r.op = "manifest" => r.repo \in Repos /\ r.ref \in Tags \union Manifests
    /\ r.op = "blob" => r.repo \in Repos /\ r.ref \in Blobs
    /\ r.pc \in {"head", "resolve", "tag", "tagwrite"} =>
            r.op = "manifest" /\ r.ref \in Tags
    /\ r.pc = "open" => r.op = "manifest" /\ (r.ref \in Tags => r.man \in Manifests)
    /\ r.pc \in {"head", "fetch"} => r.repo \in Proxied
    /\ r.pc \in {"local", "commit", "addlayer"} => r.op = "blob"

\* What it has got: a manifest, or the blob that was asked for.
GotOf(r) ==
    /\ r.pc \in Storing /\ r.op = "manifest" => r.got \in Manifests
    /\ r.pc \in Storing /\ r.op = "blob" => r.got = r.ref
    /\ r.pc = "answer" /\ r.op = "blob" => r.got \in {r.ref, None}

\* Which answers are up to date: with the upstream tags u.
SinceOf(r, u) ==
    /\ r.ref \in Tags /\ r.repo \in Proxied /\ r.pc \notin {"idle", "answer"} =>
            u[<<r.repo, r.ref>>] \in r.since
    /\ r.head # None =>
            r.ref \in Tags /\ r.repo \in Proxied /\ r.head \in r.since
    /\ r.head # None /\ r.pc \in Storing => r.got \in r.since
    /\ r.pc = "answer" /\ r.head # None /\ r.got # None => r.got \in r.since

Fit(r, u) == AimOf(r) /\ GotOf(r) /\ SinceOf(r, u)

Files == \A d \in Digests : file[d] \in {d, None}

CacheInv == TypeOK /\ Files /\ \A p \in Procs : Fit(req[p], upstream)

-----------------------------------------------------------------------------
(* One goroutine moves.                                                    *)

\* It moves to a record that is fit, the others keep theirs.
LEMMA RequestStep ==
    ASSUME CacheInv, NEW p \in Procs, NEW r \in Request, Fit(r, upstream),
           req' = [req EXCEPT ![p] = r], UNCHANGED upstream
    PROVE  req' \in [Procs -> Request] /\ \A q \in Procs : Fit(req'[q], upstream')
BY DEF CacheInv, TypeOK

\* A step that only moves one goroutine keeps the invariant.
LEMMA OnlyRequestStep ==
    ASSUME CacheInv, NEW p \in Procs, NEW r \in Request, Fit(r, upstream),
           req' = [req EXCEPT ![p] = r], UNCHANGED <<upstream, file, layers, tags>>
    PROVE  CacheInv'
<1>1. req' \in [Procs -> Request] /\ \A q \in Procs : Fit(req'[q], upstream')
  BY RequestStep
<1> QED
  BY <1>1 DEF CacheInv, TypeOK, Files

\* What is known of a request.
LEMMA Known ==
    ASSUME CacheInv, NEW p \in Procs
    PROVE  /\ req \in [Procs -> Request] /\ req[p] \in Request
           /\ AimOf(req[p]) /\ GotOf(req[p]) /\ SinceOf(req[p], upstream)
BY DEF CacheInv, TypeOK, Fit

\* An error is a fit answer ...
LEMMA FailFits ==
    ASSUME CacheInv, NEW p \in Procs, req[p].pc # "idle"
    PROVE  LET r == [req[p] EXCEPT !.pc = "answer", !.auth = "none", !.got = None]
           IN  r \in Request /\ Fit(r, upstream)
<1> DEFINE r == [req[p] EXCEPT !.pc = "answer", !.auth = "none", !.got = None]
<1>1. r \in Request
  BY Known, ZenonT(60) DEF Request, PCs
<1>2. AimOf(r) /\ GotOf(r)
  BY Known DEF AimOf, GotOf, Request, Storing
<1>3. SinceOf(r, upstream)
  BY Known DEF SinceOf, Request, Storing
<1> QED
  BY <1>1, <1>2, <1>3 DEF Fit

\* ... and so is content that was verified and, if HEAD succeeded, is new.
LEMMA ServesFits ==
    ASSUME CacheInv, NEW p \in Procs, req[p].pc # "idle", NEW d \in Digests,
           req[p].op = "blob" => d = req[p].ref,
           req[p].head # None => d \in req[p].since
    PROVE  LET r == [req[p] EXCEPT !.pc = "answer", !.got = d]
           IN  r \in Request /\ Fit(r, upstream)
<1> DEFINE r == [req[p] EXCEPT !.pc = "answer", !.got = d]
<1>1. r \in Request
  BY Known, ZenonT(20) DEF Request, PCs
<1>2. AimOf(r) /\ GotOf(r)
  BY Known DEF AimOf, GotOf, Request, Storing
<1>3. SinceOf(r, upstream)
  BY Known DEF SinceOf, Request, Storing
<1> QED
  BY <1>1, <1>2, <1>3 DEF Fit

LEMMA FailStep ==
    ASSUME CacheInv, NEW p \in Procs, req[p].pc # "idle", Fail(p),
           UNCHANGED <<upstream, file, layers, tags>>
    PROVE  CacheInv'
BY FailFits, Known, OnlyRequestStep DEF Fail

LEMMA MissStep ==
    ASSUME CacheInv, NEW p \in Procs, req[p].pc \notin {"idle", "answer"}, Miss(p),
           UNCHANGED <<upstream, file, layers, tags>>
    PROVE  CacheInv'
<1>1. CASE MatchProxy(req[p].repo)
  <2> DEFINE r == [req[p] EXCEPT !.pc = "fetch", !.man = None]
  <2>0. req[p].repo \in Proxied
    BY <1>1 DEF MatchProxy
  <2>1. r \in Request
    BY Known, ZenonT(60) DEF Request, PCs
  <2>2. AimOf(r) /\ GotOf(r)
    BY <2>0, Known DEF AimOf, GotOf, Request, Storing
  <2>3. SinceOf(r, upstream)
    BY Known DEF SinceOf, Request, Storing
  <2>4. req' = [req EXCEPT ![p] = r]
    BY <1>1, Known DEF Miss
  <2> QED
    BY <2>1, <2>2, <2>3, <2>4, OnlyRequestStep DEF Fit
<1>2. CASE ~MatchProxy(req[p].repo)
  BY <1>2, FailStep DEF Miss
<1> QED
  BY <1>1, <1>2

-----------------------------------------------------------------------------
(* The steps.                                                              *)

LEMMA ArriveStep ==
    ASSUME CacheInv, NEW p \in Procs, Arrive(p)
    PROVE  CacheInv'
<1>1. ASSUME NEW r \in Repos, NEW ref \in Tags \union Manifests, ManifestsGet(p, r, ref)
      PROVE  CacheInv'
  <2> DEFINE pc == IF ref \notin Tags THEN "open"
                   ELSE IF MatchProxy(r) THEN "head" ELSE "resolve"
             since == {upstream[x] : x \in {<<r, ref>>} \intersect DOMAIN upstream}
             q == [Idle EXCEPT !.pc = pc, !.op = "manifest", !.repo = r,
                               !.ref = ref, !.since = since]
  <2>1. /\ pc \in {"open", "head", "resolve"}
        /\ pc = "open" => ref \notin Tags
        /\ pc # "open" => ref \in Tags
        /\ pc = "head" => r \in Proxied
    BY DEF MatchProxy
  <2>2. /\ since \subseteq Manifests
        /\ ref \in Tags /\ r \in Proxied => upstream[<<r, ref>>] \in since
    BY DEF CacheInv, TypeOK
  <2>3. req' = [req EXCEPT ![p] = q]
    BY <1>1 DEF ManifestsGet, Begin
  <2> HIDE DEF pc, since
  <2>4. q \in Request
    BY <2>1, <2>2 DEF Idle, Request, PCs, Digests
  <2>5. AimOf(q) /\ GotOf(q)
    BY <2>1, CacheConstants DEF Idle, AimOf, GotOf, Storing
  <2>6. SinceOf(q, upstream)
    BY <2>1, <2>2 DEF Idle, SinceOf, Storing
  <2> QED
    BY <1>1, <2>3, <2>4, <2>5, <2>6, OnlyRequestStep DEF Fit, ManifestsGet
<1>2. ASSUME NEW r \in Repos, NEW d \in Blobs, BlobsGet(p, r, d)
      PROVE  CacheInv'
  <2> DEFINE q == [Idle EXCEPT !.pc = "local", !.op = "blob", !.repo = r, !.ref = d]
  <2>1. req' = [req EXCEPT ![p] = q]
    BY <1>2 DEF BlobsGet, Begin
  <2>2. q \in Request
    BY DEF Idle, Request, PCs, Digests
  <2>3. AimOf(q) /\ GotOf(q)
    BY DEF Idle, AimOf, GotOf, Storing
  <2>4. SinceOf(q, upstream)
    BY CacheConstants DEF Idle, SinceOf, Storing, Digests
  <2> QED
    BY <1>2, <2>1, <2>2, <2>3, <2>4, OnlyRequestStep DEF Fit, BlobsGet
<1> QED
  BY <1>1, <1>2 DEF Arrive

\* Calls to the upstream.
LEMMA CallStep ==
    ASSUME CacheInv, NEW p \in Procs,
           \/ Challenge(p) \/ FetchBearerToken(p) \/ CallFails(p)
           \/ Head(p) \/ FetchManifest(p) \/ FetchBlob(p)
    PROVE  CacheInv'
<1>0. req[p].pc \in {"head", "fetch"}
  BY DEF Challenge, FetchBearerToken, CallFails, Head, FetchManifest, FetchBlob,
         Calling, At
<1>u. ASSUME ByTag(p)
      PROVE  upstream[TagOf(p)] \in Manifests /\ upstream[TagOf(p)] \in req[p].since
  BY <1>0, <1>u, Known DEF CacheInv, TypeOK, AimOf, SinceOf, ByTag, TagOf
<1>1. ASSUME NEW a \in {"token", "bearer"}, req' = [req EXCEPT ![p].auth = a],
             UNCHANGED <<upstream, file, layers, tags>>
      PROVE  CacheInv'
  <2> DEFINE q == [req[p] EXCEPT !.auth = a]
  <2>1. q \in Request
    BY Known DEF Request
  <2>2. AimOf(q) /\ GotOf(q) /\ SinceOf(q, upstream)
    BY Known DEF AimOf, GotOf, SinceOf, Request
  <2>3. req' = [req EXCEPT ![p] = q]
    BY <1>1, Known
  <2> QED
    BY <1>1, <2>1, <2>2, <2>3, OnlyRequestStep DEF Fit
<1>2. CASE CallFails(p)
  <2>1. CASE At(p, "head")
    <3> DEFINE q == [req[p] EXCEPT !.pc = "resolve", !.auth = "none"]
    <3>1. q \in Request
      BY Known, ZenonT(60) DEF Request, PCs
    <3>2. AimOf(q) /\ GotOf(q) /\ SinceOf(q, upstream)
      BY <2>1, Known DEF At, AimOf, GotOf, SinceOf, Request, Storing
    <3>3. req' = [req EXCEPT ![p] = q]
      BY <1>2, <2>1, Known DEF CallFails
    <3> QED
      BY <1>2, <3>1, <3>2, <3>3, OnlyRequestStep DEF Fit, CallFails
  <2>2. CASE ~At(p, "head")
    BY <1>0, <1>2, <2>2, FailStep DEF CallFails
  <2> QED
    BY <2>1, <2>2
<1>3. CASE Head(p)
  <2> DEFINE m == upstream[TagOf(p)]
             q == [req[p] EXCEPT !.pc = "resolve", !.auth = "none", !.head = m]
  <2>1. m \in Manifests /\ m \in req[p].since
    BY <1>3, <1>u, Known DEF Head, At, AimOf, ByTag
  <2>2. req' = [req EXCEPT ![p] = q]
    BY <1>3, Known DEF Head
  <2> HIDE DEF m
  <2>3. q \in Request
    BY <2>1, Known, ZenonT(20) DEF Request, PCs
  <2>4. AimOf(q) /\ GotOf(q)
    BY <1>3, Known DEF Head, At, AimOf, GotOf, Request, Storing
  <2>5. SinceOf(q, upstream)
    BY <1>3, <2>1, Known DEF Head, At, AimOf, SinceOf, Request, Storing
  <2> QED
    BY <1>3, <2>2, <2>3, <2>4, <2>5, OnlyRequestStep DEF Fit, Head
<1>4. CASE FetchManifest(p)
  <2>1. PICK m \in IF ByTag(p) THEN {upstream[TagOf(p)]} ELSE Manifests :
            req' = [req EXCEPT ![p].pc = "remove", ![p].auth = "none", ![p].got = m]
    BY <1>4 DEF FetchManifest
  <2> DEFINE q == [req[p] EXCEPT !.pc = "remove", !.auth = "none", !.got = m]
  <2>2. m \in Manifests /\ (req[p].ref \in Tags => m \in req[p].since)
    BY <1>u, <2>1 DEF ByTag
  <2>3. req[p].pc = "fetch" /\ req[p].op = "manifest"
    BY <1>4 DEF FetchManifest, At
  <2>4. q \in Request
    BY <2>2, Known, ZenonT(20) DEF Request, PCs, Digests
  <2>5. AimOf(q) /\ GotOf(q)
    BY <2>2, <2>3, Known DEF AimOf, GotOf, Request, Storing
  <2>6. SinceOf(q, upstream)
    BY <2>2, <2>3, Known DEF SinceOf, Request, Storing
  <2>7. req' = [req EXCEPT ![p] = q]
    BY <2>1, Known
  <2> QED
    BY <1>4, <2>4, <2>5, <2>6, <2>7, OnlyRequestStep DEF Fit, FetchManifest
<1>5. CASE FetchBlob(p)
  <2>1. PICK d \in {req[p].ref, Wrong} :
            req' = [req EXCEPT ![p].pc = "commit", ![p].auth = "none", ![p].got = d]
    BY <1>5 DEF FetchBlob
  <2> DEFINE q == [req[p] EXCEPT !.pc = "commit", !.auth = "none", !.got = d]
  <2>2. req[p].pc = "fetch" /\ req[p].op = "blob" /\ req[p].ref \in Blobs
    BY <1>5, Known DEF FetchBlob, At, AimOf
  <2>3. q \in Request
    BY <2>1, <2>2, Known, ZenonT(20) DEF Request, PCs, Digests
  <2>4. AimOf(q) /\ GotOf(q)
    BY <2>2, Known DEF AimOf, GotOf, Request, Storing
  <2>5. SinceOf(q, upstream)
    BY <2>2, Known DEF SinceOf, Request, Storing
  <2>6. req' = [req EXCEPT ![p] = q]
    BY <2>1, Known
  <2> QED
    BY <1>5, <2>3, <2>4, <2>5, <2>6, OnlyRequestStep DEF Fit, FetchBlob
<1> QED
  BY <1>1, <1>2, <1>3, <1>4, <1>5 DEF Challenge, FetchBearerToken

\* A request that goes on to store what it has got stays fit.
LEMMA GotoFits ==
    ASSUME CacheInv, NEW p \in Procs, req[p].pc # "idle", req[p].pc # "answer",
           NEW pc \in {"fetch", "remove", "rename", "addlayer", "tag", "tagwrite", "reread"},
           pc = "fetch" => req[p].repo \in Proxied,
           pc = "remove" => req[p].op = "blob" /\ req[p].got = req[p].ref,
           pc \notin {"fetch", "remove"} => req[p].pc \in Storing,
           pc = "addlayer" => req[p].op = "blob",
           pc \in {"tag", "tagwrite"} => req[p].op = "manifest" /\ req[p].ref \in Tags
    PROVE  LET r == [req[p] EXCEPT !.pc = pc]
           IN  r \in Request /\ Fit(r, upstream)
<1> DEFINE r == [req[p] EXCEPT !.pc = pc]
<1>1. r \in Request
  BY Known DEF Request, PCs
<1>2. AimOf(r)
  BY Known DEF AimOf, Request, Storing
<1>3. GotOf(r)
  BY Known DEF GotOf, Request, Storing
<1>4. SinceOf(r, upstream)
  BY Known, CacheConstants DEF AimOf, GotOf, SinceOf, Request, Storing, Digests
<1> QED
  BY <1>1, <1>2, <1>3, <1>4 DEF Fit

\* Looking things up in the storage below.
LEMMA LookStep ==
    ASSUME CacheInv, NEW p \in Procs,
           Resolve(p) \/ OpenManifest(p) \/ LocalBlob(p) \/ Commit(p) \/ Reread(p)
    PROVE  CacheInv'
<1>0. req[p].pc \in {"resolve", "open", "local", "commit", "reread"}
  BY DEF Resolve, OpenManifest, LocalBlob, Commit, Reread, At
<1>s. ASSUME NEW d \in Digests, file[d] # None, Serves(p, file[d]),
             req[p].op = "blob" => d = req[p].ref,
             req[p].head # None => d \in req[p].since,
             UNCHANGED <<upstream, file, layers, tags>>
      PROVE  CacheInv'
  <2>1. file[d] = d
    BY <1>s DEF CacheInv, Files
  <2> QED
    BY <1>0, <1>s, <2>1, ServesFits, Known, OnlyRequestStep DEF Serves
<1>1. CASE Resolve(p)
  <2> DEFINE t == tags[TagOf(p)]
             q == [req[p] EXCEPT !.pc = "open", !.man = t]
  <2>1. CASE t = Torn /\ Fail(p)
    BY <1>0, <1>1, <2>1, FailStep DEF Resolve
  <2>2. CASE t = None /\ Miss(p)
    BY <1>0, <1>1, <2>2, MissStep DEF Resolve
  <2>3. CASE t \in Manifests /\ req' = [req EXCEPT ![p].pc = "open", ![p].man = t]
    <3> HIDE DEF t
    <3>1. req' = [req EXCEPT ![p] = q]
      BY <2>3, Known
    <3>2. req[p].pc = "resolve"
      BY <1>1 DEF Resolve, At
    <3>3. q \in Request
      BY <2>3, Known, ZenonT(60) DEF Request, PCs
    <3>4. AimOf(q) /\ GotOf(q) /\ SinceOf(q, upstream)
      BY <2>3, <3>2, Known DEF AimOf, GotOf, SinceOf, Request, Storing
    <3> QED
      BY <1>1, <3>1, <3>3, <3>4, OnlyRequestStep DEF Fit, Resolve
  <2> QED
    BY <1>1, <2>1, <2>2, <2>3 DEF Resolve
<1>2. CASE OpenManifest(p)
  <2> DEFINE d == IF ByTag(p) THEN req[p].man ELSE req[p].ref
  <2>1. req[p].pc = "open"
    BY <1>2 DEF OpenManifest, At
  <2>2. d \in Digests /\ req[p].op = "manifest"
    BY <2>1, Known DEF AimOf, ByTag, Digests
  <2>3. CASE file[d] = None /\ Miss(p)
    BY <1>0, <1>2, <2>3, MissStep DEF OpenManifest
  <2>4. CASE file[d] # None /\ req[p].head \in {None, d} /\ Serves(p, file[d])
    <3>1. req[p].head # None => d \in req[p].since
      BY <2>4, Known DEF SinceOf
    <3>2. UNCHANGED <<upstream, file, layers, tags>>
      BY <1>2 DEF OpenManifest
    <3> HIDE DEF d
    <3> QED
      BY <1>s, <2>2, <2>4, <3>1, <3>2
  <2>5. CASE file[d] # None /\ req[p].head \notin {None, d} /\ Goto(p, "fetch")
    <3>1. req[p].repo \in Proxied
      BY <2>5, Known DEF SinceOf
    <3>2. UNCHANGED <<upstream, file, layers, tags>>
      BY <1>2 DEF OpenManifest
    <3> QED
      BY <2>1, <2>5, <3>1, <3>2, GotoFits, Known, OnlyRequestStep DEF Goto
  <2> QED
    BY <1>2, <2>3, <2>4, <2>5 DEF OpenManifest
<1>3. CASE LocalBlob(p)
  <2>1. req[p].op = "blob" /\ req[p].ref \in Blobs /\ req[p].head = None
    BY <1>3, Known, CacheConstants DEF LocalBlob, At, AimOf, SinceOf, Digests
  <2>2. UNCHANGED <<upstream, file, layers, tags>>
    BY <1>3 DEF LocalBlob
  <2>3. CASE HasLayer(p)
    BY <1>3, <1>s, <2>1, <2>2, <2>3 DEF LocalBlob, HasLayer, Digests
  <2>4. CASE ~HasLayer(p)
    BY <1>0, <1>3, <2>2, <2>4, MissStep DEF LocalBlob
  <2> QED
    BY <2>3, <2>4
<1>4. CASE Commit(p)
  <2>1. req[p].op = "blob" /\ UNCHANGED <<upstream, file, layers, tags>>
    BY <1>4, Known DEF Commit, At, AimOf
  <2>2. CASE req[p].got = req[p].ref
    BY <1>0, <1>4, <2>1, <2>2, GotoFits, Known, OnlyRequestStep DEF Commit, Goto
  <2>3. CASE req[p].got # req[p].ref
    BY <1>0, <1>4, <2>1, <2>3, FailStep DEF Commit
  <2> QED
    BY <2>2, <2>3
<1>5. CASE Reread(p)
  <2>0. req[p].pc = "reread" /\ UNCHANGED <<upstream, file, layers, tags>>
    BY <1>5 DEF Reread, At
  <2>1. CASE file[Path(p)] # None /\ (req[p].op = "blob" => HasLayer(p))
    <3>1. /\ Path(p) \in Digests /\ Path(p) = req[p].got
          /\ req[p].op = "blob" => Path(p) = req[p].ref
      BY <2>0, Known DEF Path, GotOf, AimOf, Storing, Digests, Request
    <3>2. req[p].head # None => Path(p) \in req[p].since
      BY <2>0, <3>1, Known DEF SinceOf, Storing
    <3>3. Serves(p, file[Path(p)])
      BY <1>5, <2>1 DEF Reread
    <3> QED
      BY <1>s, <2>0, <2>1, <3>1, <3>2, <3>3
  <2>2. CASE ~(file[Path(p)] # None /\ (req[p].op = "blob" => HasLayer(p)))
    BY <1>0, <1>5, <2>0, <2>2, FailStep DEF Reread
  <2> QED
    BY <2>1, <2>2
<1> QED
  BY <1>1, <1>2, <1>3, <1>4, <1>5

\* Storing what an upstream sent, and giving the answer.
LEMMA StoreStep ==
    ASSUME CacheInv, NEW p \in Procs,
           \/ Remove(p) \/ Rename(p) \/ AddLayer(p) \/ TruncateTag(p) \/ WriteTag(p)
           \/ LinkFails(p) \/ Answer(p)
    PROVE  CacheInv'
<1>0. req[p].pc \in Storing \union {"answer"} /\ UNCHANGED upstream
  BY DEF Remove, Rename, AddLayer, TruncateTag, WriteTag, LinkFails, Answer, At,
         Storing
<1>g. req[p].pc \in Storing => Path(p) = req[p].got /\ Path(p) \in Digests
  BY Known DEF Path, GotOf, AimOf, Storing, Digests, Request
<1>1. ASSUME NEW pc \in {"rename", "addlayer", "tag", "tagwrite", "reread"},
             Goto(p, pc), req[p].pc \in Storing,
             pc = "addlayer" => req[p].op = "blob",
             pc \in {"tag", "tagwrite"} => req[p].op = "manifest" /\ req[p].ref \in Tags
      PROVE  req' \in [Procs -> Request] /\ \A q \in Procs : Fit(req'[q], upstream')
  <2> DEFINE r == [req[p] EXCEPT !.pc = pc]
  <2>1. r \in Request /\ Fit(r, upstream)
    BY <1>1, GotoFits DEF Storing
  <2>2. req' = [req EXCEPT ![p] = r]
    BY <1>1, Known DEF Goto
  <2> HIDE DEF r
  <2> QED
    BY <1>0, <2>1, <2>2, RequestStep
<1>2. CASE Remove(p)
  <2>1. req' \in [Procs -> Request] /\ \A q \in Procs : Fit(req'[q], upstream')
    BY <1>1, <1>2 DEF Remove, At, Storing
  <2> QED
    BY <1>2, <2>1 DEF Remove, CacheInv, TypeOK, Files
<1>3. CASE Rename(p)
  <2>1. req[p].pc = "rename" /\ req[p].op \in {"blob", "manifest"}
    BY <1>3, Known DEF Rename, At, AimOf, Request
  <2>2. req' \in [Procs -> Request] /\ \A q \in Procs : Fit(req'[q], upstream')
    <3>1. CASE req[p].op = "blob"
      BY <1>1, <1>3, <2>1, <3>1 DEF Rename, Storing
    <3>2. CASE req[p].op = "manifest" /\ ByTag(p)
      BY <1>1, <1>3, <2>1, <3>2 DEF Rename, Storing, ByTag
    <3>3. CASE req[p].op = "manifest" /\ ~ByTag(p)
      BY <1>1, <1>3, <2>1, <3>3 DEF Rename, Storing
    <3> QED
      BY <2>1, <3>1, <3>2, <3>3
  <2>3. Path(p) = req[p].got /\ Path(p) \in Digests
    BY <1>g, <2>1 DEF Storing
  <2> QED
    BY <1>3, <2>2, <2>3 DEF Rename, CacheInv, TypeOK, Files
<1>4. CASE AddLayer(p)
  <2>1. req' \in [Procs -> Request] /\ \A q \in Procs : Fit(req'[q], upstream')
    BY <1>1, <1>4 DEF AddLayer, At, Storing
  <2>2. <<req[p].repo, req[p].ref>> \in Repos \X Blobs
    BY <1>4, Known DEF AddLayer, At, AimOf
  <2> QED
    BY <1>4, <2>1, <2>2 DEF AddLayer, CacheInv, TypeOK, Files
<1>5. CASE TruncateTag(p) \/ WriteTag(p)
  <2>1. /\ req[p].pc \in {"tag", "tagwrite"} /\ req[p].op = "manifest"
        /\ req[p].ref \in Tags /\ TagOf(p) \in Repos \X Tags
    BY <1>5, Known DEF TruncateTag, WriteTag, At, AimOf, TagOf
  <2>2. req[p].got \in Manifests
    BY <2>1, Known DEF GotOf, Storing
  <2>3. req' \in [Procs -> Request] /\ \A q \in Procs : Fit(req'[q], upstream')
    BY <1>1, <1>5, <2>1 DEF TruncateTag, WriteTag, Storing
  <2> QED
    BY <1>5, <2>1, <2>2, <2>3 DEF TruncateTag, WriteTag, CacheInv, TypeOK, Files
<1>6. CASE LinkFails(p)
  BY <1>6, FailStep DEF LinkFails, At
<1>7. CASE Answer(p)
  <2>1. Idle \in Request /\ Fit(Idle, upstream)
    BY DEF Idle, Request, PCs, Fit, AimOf, GotOf, SinceOf, Storing
  <2> QED
    BY <1>7, <2>1, OnlyRequestStep DEF Answer
<1> QED
  BY <1>2, <1>3, <1>4, <1>5, <1>6, <1>7

\* An upstream tag moves: the requests that will be answered note where to.
LEMMA UpstreamStep ==
    ASSUME CacheInv, NEW x \in Proxied \X Tags, NEW m \in Manifests, UpstreamMoves(x, m)
    PROVE  CacheInv'
<1> DEFINE Noting(p) == TagOf(p) = x /\ ~At(p, "answer")
           r(p) == IF Noting(p) THEN [req[p] EXCEPT !.since = @ \union {m}]
                                ELSE req[p]
<1>1. ASSUME NEW p \in Procs
      PROVE  r(p) \in Request /\ Fit(r(p), upstream')
  <2>0. upstream' = [upstream EXCEPT ![x] = m] /\ upstream \in [Proxied \X Tags -> Manifests]
    BY DEF UpstreamMoves, CacheInv, TypeOK
  <2>1. CASE Noting(p)
    <3> DEFINE S == req[p].since \union {m}
               q == [req[p] EXCEPT !.since = S]
    <3>0. S \subseteq Manifests /\ req[p].since \subseteq S /\ m \in S
      BY Known DEF Request
    <3>1. r(p) = q
      BY <2>1
    <3>2. <<req[p].repo, req[p].ref>> = x /\ upstream'[x] = m
      BY <2>0, <2>1 DEF TagOf
    <3> HIDE DEF S
    <3>3. q \in Request
      BY <3>0, Known DEF Request
    <3>4. AimOf(q) /\ GotOf(q)
      BY Known DEF AimOf, GotOf, Request
    <3>5. SinceOf(q, upstream')
      BY <3>0, <3>2, Known DEF SinceOf, Request
    <3> QED
      BY <3>1, <3>3, <3>4, <3>5 DEF Fit
  <2>2. CASE ~Noting(p)
    <3>1. r(p) = req[p]
      BY <2>2
    <3>2. req[p].pc # "answer" => <<req[p].repo, req[p].ref>> # x
      BY <2>2 DEF TagOf, At
    <3>3. SinceOf(req[p], upstream')
      BY <2>0, <3>2, Known DEF SinceOf
    <3> QED
      BY <3>1, <3>3, Known DEF Fit
  <2> QED
    BY <2>1, <2>2
<1>2. req' = [p \in Procs |-> r(p)]
  BY DEF UpstreamMoves
<1>3. upstream' \in [Proxied \X Tags -> Manifests] /\ UNCHANGED <<file, layers, tags>>
  BY DEF UpstreamMoves, CacheInv, TypeOK
<1> HIDE DEF r
<1> QED
  BY <1>1, <1>2, <1>3 DEF CacheInv, TypeOK, Files

LEMMA OutsideStep ==
    ASSUME CacheInv, Outside
    PROVE  CacheInv'
<1>1. ASSUME NEW d \in Digests, Evict(d)
      PROVE  CacheInv'
  BY <1>1 DEF Evict, CacheInv, TypeOK, Files
<1>2. ASSUME NEW x \in Repos \X Tags, NEW m \in Manifests, Push(x, m)
      PROVE  CacheInv'
  BY <1>2 DEF Push, CacheInv, TypeOK, Files, Digests
<1>3. ASSUME NEW x \in Repos \X Tags, DeleteTag(x)
      PROVE  CacheInv'
  <2> DEFINE Filling(p) == At(p, "tagwrite") /\ TagOf(p) = x
             r(p) == IF Filling(p) THEN [req[p] EXCEPT !.pc = "reread"] ELSE req[p]
  <2>1. ASSUME NEW p \in Procs
        PROVE  r(p) \in Request /\ Fit(r(p), upstream)
    <3>1. CASE Filling(p)
      BY <3>1, GotoFits DEF At, Storing
    <3>2. CASE ~Filling(p)
      BY <3>2, Known DEF Fit
    <3> QED
      BY <3>1, <3>2
  <2>2. req' = [p \in Procs |-> r(p)]
    BY <1>3 DEF DeleteTag
  <2>3. tags' \in [Repos \X Tags -> Manifests \union {None, Torn}]
    BY <1>3 DEF DeleteTag, CacheInv, TypeOK
  <2>4. UNCHANGED <<upstream, file, layers>>
    BY <1>3 DEF DeleteTag
  <2> HIDE DEF r
  <2>5. req' \in [Procs -> Request] /\ \A p \in Procs : Fit(req'[p], upstream')
    BY <2>1, <2>2, <2>4
  <2> QED
    BY <2>3, <2>4, <2>5 DEF CacheInv, TypeOK, Files
<1>4. ASSUME NEW x \in Repos \X Blobs, DeleteLayer(x)
      PROVE  CacheInv'
  BY <1>4 DEF DeleteLayer, CacheInv, TypeOK, Files
<1> QED
  BY <1>1, <1>2, <1>3, <1>4, UpstreamStep DEF Outside

-----------------------------------------------------------------------------
(* The theorems.                                                           *)

LEMMA CacheInvInit == Init => CacheInv
<1> SUFFICES ASSUME Init PROVE CacheInv
  OBVIOUS
<1>1. Idle \in Request /\ Fit(Idle, upstream)
  BY DEF Idle, Request, PCs, Fit, AimOf, GotOf, SinceOf, Storing
<1>2. TypeOK
  <2>1. req \in [Procs -> Request]
    BY <1>1 DEF Init
  <2>2. tags \in [Repos \X Tags -> Manifests \union {None, Torn}]
    BY DEF Init
  <2> QED
    BY <2>1, <2>2 DEF Init, TypeOK
<1>3. Files
  BY DEF Init, Files
<1>4. \A p \in Procs : Fit(req[p], upstream)
  BY <1>1 DEF Init
<1> QED
  BY <1>2, <1>3, <1>4 DEF CacheInv

LEMMA CacheInvStep == CacheInv /\ [Next]_vars => CacheInv'
<1> SUFFICES ASSUME CacheInv, [Next]_vars PROVE CacheInv'
  OBVIOUS
<1>1. CASE UNCHANGED vars
  BY <1>1 DEF vars, CacheInv, TypeOK, Files
<1>2. CASE Outside
  BY <1>2, OutsideStep
<1>3. ASSUME NEW p \in Procs, Arrive(p)
      PROVE  CacheInv'
  BY <1>3, ArriveStep
<1>4. ASSUME NEW p \in Procs, Serve(p) \/ LinkFails(p)
      PROVE  CacheInv'
  BY <1>4, CallStep, LookStep, StoreStep DEF Serve
<1> QED
  BY <1>1, <1>2, <1>3, <1>4 DEF Next

\* What a request aims at, has got and may answer stays fit for the point it
\* has reached (ManifestsGet and BlobsGet of the cache).
THEOREM CacheInvariant == Spec => []CacheInv
BY CacheInvInit, CacheInvStep, PTL DEF Spec

\* The type invariant holds for any repositories, upstreams, digests and
\* number of requests (ManifestsGet and BlobsGet of the cache).
THEOREM CacheTypeCorrect == Spec => []TypeOK
<1>1. CacheInv => TypeOK
  BY DEF CacheInv
<1> QED
  BY <1>1, CacheInvariant, PTL

\* Whatever upstreams send, only verified content is stored under a digest
\* and answered for one (BlobsUploadCommit, ManifestPut).
THEOREM CachedContentVerified == Spec => []ContentVerified
<1>1. CacheInv => ContentVerified
  BY DEF CacheInv, Files, Fit, GotOf, ContentVerified, At
<1> QED
  BY <1>1, CacheInvariant, PTL

\* When HEAD succeeded, the manifest that is served is one that the upstream
\* tag led to during the request (ManifestsGet of the cache).
THEOREM CacheUpToDate == Spec => []UpToDate
<1>1. CacheInv => UpToDate
  BY DEF CacheInv, Fit, SinceOf, UpToDate, At
<1> QED
  BY <1>1, CacheInvariant, PTL

-----------------------------------------------------------------------------
(* The copy at hand.                                                       *)

\* A manifest that is at hand, and that HEAD gave no newer digest for, is
\* opened and answered and nothing else.
HeldOf(r) ==
    /\ r.pc \in {"head", "resolve"} => r.man = None
    /\ r.man # None => r.ref \in Tags
    /\ r.man # None /\ r.repo \in Proxied /\ r.head \in {None, r.man} =>
          r.pc = "open" \/ (r.pc = "answer" /\ r.got = r.man)

HeldInv == \A p \in Procs : HeldOf(req[p])

\* Elsewhere a step that keeps the repository, the reference, the manifest
\* and the answer of HEAD keeps it.
LEMMA HeldKept ==
    ASSUME NEW p \in Procs, HeldOf(req[p]), req[p].pc \notin {"open", "answer"}, NEW r,
           r.repo = req[p].repo, r.ref = req[p].ref, r.man = req[p].man, r.head = req[p].head,
           r.pc \notin {"head", "resolve"} \/ r.man = None
    PROVE  HeldOf(r)
BY DEF HeldOf

LEMMA HeldStep == CacheInv /\ HeldInv /\ [Next]_vars => HeldInv'
<1> SUFFICES ASSUME CacheInv, HeldInv, [Next]_vars PROVE HeldInv'
  OBVIOUS
<1>0. req \in [Procs -> Request] /\ \A p \in Procs : HeldOf(req[p])
  BY DEF CacheInv, TypeOK, HeldInv
<1>1. ASSUME NEW p \in Procs, NEW r, HeldOf(r), req' = [req EXCEPT ![p] = r] PROVE HeldInv'
  BY <1>0, <1>1 DEF HeldInv, HeldOf
<1>2. CASE UNCHANGED req
  BY <1>2 DEF HeldInv, HeldOf
<1>3. CASE Outside
  <2>1. ASSUME NEW x \in Proxied \X Tags, NEW m \in Manifests, UpstreamMoves(x, m) PROVE HeldInv'
    BY <1>0, <2>1 DEF UpstreamMoves, HeldInv, HeldOf, Request
  <2>2. ASSUME NEW x \in Repos \X Tags, DeleteTag(x) PROVE HeldInv'
    BY <1>0, <2>2 DEF DeleteTag, HeldInv, HeldOf, Request, At
  <2> QED
    BY <1>2, <1>3, <2>1, <2>2 DEF Outside, Evict, Push, DeleteLayer
<1>4. ASSUME NEW p \in Procs, Arrive(p) PROVE HeldInv'
  <2>1. PICK r : r.man = None /\ req' = [req EXCEPT ![p] = r]
    BY <1>4 DEF Arrive, ManifestsGet, BlobsGet, Begin, Idle
  <2> QED
    BY <1>1, <2>1 DEF HeldOf
<1>5. ASSUME NEW p \in Procs, Fail(p), req[p].pc \notin {"idle", "answer", "open"} PROVE HeldInv'
  <2>1. HeldOf([req[p] EXCEPT !.pc = "answer", !.auth = "none", !.got = None])
    BY <1>0, <1>5 DEF HeldOf, Request
  <2> QED
    BY <1>0, <1>1, <1>5, <2>1 DEF Fail
<1>6. ASSUME NEW p \in Procs, Miss(p), req[p].pc \notin {"idle", "answer"} PROVE HeldInv'
  <2>1. CASE MatchProxy(req[p].repo)
    <3>1. HeldOf([req[p] EXCEPT !.pc = "fetch", !.man = None])
      BY <1>0 DEF HeldOf, Request
    <3> QED
      BY <1>0, <1>1, <1>6, <2>1, <3>1 DEF Miss
  <2>2. CASE ~MatchProxy(req[p].repo)
    <3>1. HeldOf([req[p] EXCEPT !.pc = "answer", !.auth = "none", !.got = None])
      BY <1>0, <2>2 DEF HeldOf, Request, MatchProxy
    <3> QED
      BY <1>0, <1>1, <1>6, <2>2, <3>1 DEF Miss, Fail
  <2> QED
    BY <2>1, <2>2
<1>7. ASSUME NEW p \in Procs, NEW d, Serves(p, d), req[p].pc \notin {"open", "answer"} PROVE HeldInv'
  <2>1. HeldOf([req[p] EXCEPT !.pc = "answer", !.got = d])
    BY <1>0, <1>7, HeldKept, ZenonT(20) DEF Request
  <2> QED
    BY <1>0, <1>1, <1>7, <2>1 DEF Serves
<1>8. ASSUME NEW p \in Procs, NEW pc, Goto(p, pc), req[p].pc \notin {"open", "answer"},
             pc \notin {"head", "resolve"}
      PROVE  HeldInv'
  <2>1. HeldOf([req[p] EXCEPT !.pc = pc])
    BY <1>0, <1>8, HeldKept DEF Request
  <2> QED
    BY <1>0, <1>1, <1>8, <2>1 DEF Goto
<1>9. ASSUME NEW p \in Procs, Challenge(p) \/ FetchBearerToken(p) PROVE HeldInv'
  <2>1. PICK a : req' = [req EXCEPT ![p] = [@ EXCEPT !.auth = a]]
    BY <1>0, <1>9 DEF Challenge, FetchBearerToken
  <2>2. HeldOf([req[p] EXCEPT !.auth = a])
    BY <1>0 DEF HeldOf, Request
  <2> QED
    BY <1>0, <1>1, <2>1, <2>2
<1>10. ASSUME NEW p \in Procs, CallFails(p) PROVE HeldInv'
  <2>1. CASE At(p, "head")
    <3>1. HeldOf([req[p] EXCEPT !.pc = "resolve", !.auth = "none"])
      BY <1>0, <2>1 DEF HeldOf, Request, At
    <3> QED
      BY <1>0, <1>1, <1>10, <2>1, <3>1 DEF CallFails
  <2>2. CASE ~At(p, "head")
    BY <1>5, <1>10, <2>2 DEF CallFails, Calling, At
  <2> QED
    BY <2>1, <2>2
<1>11. ASSUME NEW p \in Procs, Head(p) PROVE HeldInv'
  <2>1. HeldOf([req[p] EXCEPT !.pc = "resolve", !.auth = "none", !.head = upstream[TagOf(p)]])
    BY <1>0, <1>11 DEF Head, HeldOf, Request, At
  <2> QED
    BY <1>0, <1>1, <1>11, <2>1 DEF Head
<1>12. ASSUME NEW p \in Procs, FetchManifest(p) \/ FetchBlob(p) PROVE HeldInv'
  <2> DEFINE Fetched(pc, g) ==
               req' = [req EXCEPT ![p] = [@ EXCEPT !.pc = pc, !.auth = "none", !.got = g]]
  <2>1. ASSUME NEW pc \in {"remove", "commit"}, NEW g, At(p, "fetch"), Fetched(pc, g)
        PROVE  HeldInv'
    <3>1. HeldOf([req[p] EXCEPT !.pc = pc, !.auth = "none", !.got = g])
      BY <1>0, <2>1, HeldKept DEF Request, At
    <3> QED
      BY <1>0, <1>1, <2>1, <3>1
  <2>2. CASE FetchManifest(p)
    <3>1. PICK g : At(p, "fetch") /\ Fetched("remove", g)
      BY <1>0, <2>2 DEF FetchManifest
    <3> QED
      BY <2>1, <3>1
  <2>3. CASE FetchBlob(p)
    <3>1. PICK g : At(p, "fetch") /\ Fetched("commit", g)
      BY <1>0, <2>3 DEF FetchBlob
    <3> QED
      BY <2>1, <3>1
  <2> QED
    BY <1>12, <2>2, <2>3
<1>13. ASSUME NEW p \in Procs, Resolve(p) PROVE HeldInv'
  <2>1. req[p].pc = "resolve" /\ req[p].ref \in Tags
    BY <1>13, Known DEF Resolve, At, AimOf
  <2>2. CASE tags[TagOf(p)] \in Manifests /\
             req' = [req EXCEPT ![p].pc = "open", ![p].man = tags[TagOf(p)]]
    <3>1. HeldOf([req[p] EXCEPT !.pc = "open", !.man = tags[TagOf(p)]])
      BY <1>0, <2>1 DEF HeldOf, Request
    <3> QED
      BY <1>0, <1>1, <2>2, <3>1
  <2> QED
    BY <1>5, <1>6, <1>13, <2>1, <2>2 DEF Resolve
<1>14. ASSUME NEW p \in Procs, OpenManifest(p) PROVE HeldInv'
  <2> DEFINE d == IF ByTag(p) THEN req[p].man ELSE req[p].ref
  <2>1. /\ req[p].pc = "open" /\ HeldOf(req[p]) /\ req[p] \in Request
        /\ req[p].ref \in Tags => req[p].man \in Manifests
        /\ req[p].ref \in Tags \union Manifests
    BY <1>0, <1>14, Known DEF OpenManifest, At, AimOf
  <2>2. file[d] # None => file[d] = d
    BY <2>1 DEF CacheInv, Files, Digests, ByTag
  <2>3. req[p].man # None => d = req[p].man
    BY <2>1 DEF HeldOf, ByTag
  <2>4. CASE file[d] # None /\ Serves(p, file[d])
    <3>1. HeldOf([req[p] EXCEPT !.pc = "answer", !.got = file[d]])
      BY <2>1, <2>2, <2>3, <2>4 DEF HeldOf, Request
    <3> QED
      BY <1>0, <1>1, <2>4, <3>1 DEF Serves
  <2>5. CASE req[p].head \notin {None, d} /\ Goto(p, "fetch")
    <3>1. HeldOf([req[p] EXCEPT !.pc = "fetch"])
      BY <2>1, <2>3, <2>5 DEF HeldOf, Request
    <3> QED
      BY <1>0, <1>1, <2>5, <3>1 DEF Goto
  <2> QED
    BY <1>6, <1>14, <2>1, <2>4, <2>5 DEF OpenManifest
<1>15. ASSUME NEW p \in Procs, Answer(p) PROVE HeldInv'
  <2>1. HeldOf(Idle)
    BY DEF HeldOf, Idle
  <2> QED
    BY <1>0, <1>1, <1>15, <2>1 DEF Answer
<1>16. ASSUME NEW p \in Procs, LocalBlob(p) PROVE HeldInv'
  BY <1>6, <1>7, <1>16 DEF LocalBlob, At
<1>17. ASSUME NEW p \in Procs, Commit(p) PROVE HeldInv'
  BY <1>5, <1>8, <1>17 DEF Commit, At
<1>18. ASSUME NEW p \in Procs,
              Remove(p) \/ Rename(p) \/ AddLayer(p) \/ TruncateTag(p) \/ WriteTag(p)
       PROVE  HeldInv'
  <2>1. PICK pc \in PCs : Goto(p, pc) /\ req[p].pc \notin {"open", "answer"} /\ pc \notin {"head", "resolve"}
    BY <1>18 DEF Remove, Rename, AddLayer, TruncateTag, WriteTag, At, PCs
  <2> QED
    BY <1>8, <2>1
<1>19. ASSUME NEW p \in Procs, Reread(p) \/ LinkFails(p) PROVE HeldInv'
  BY <1>5, <1>7, <1>19 DEF Reread, LinkFails, At
<1> QED
  BY <1>2, <1>3, <1>4, <1>9, <1>10, <1>11, <1>12, <1>13, <1>14, <1>15, <1>16, <1>17, <1>18, <1>19
  DEF Next, Serve, vars

\* A cached copy is answered, untouched, whenever HEAD gave no newer digest:
\* because the upstream is down, has no token to give or does not know the tag.
THEOREM CacheFallsBackWhenDown == Spec => []FallsBackWhenDown
<1>1. Init => HeldInv
  BY DEF Init, HeldInv, HeldOf, Idle
<1>2. CacheInv /\ HeldInv /\ [Next]_vars => HeldInv'
  BY HeldStep
<1>3. CacheInv /\ HeldInv => FallsBackWhenDown
  BY DEF HeldInv, HeldOf, FallsBackWhenDown, At
<1> QED
  BY <1>1, <1>2, <1>3, CacheInvariant, PTL DEF Spec

=============================================================================
