---------------------------- MODULE RoutingProofs ----------------------------
(* Theorems about Routing. *)
EXTENDS Routing, TLAPS

\* What the loop compares the method of a route with.
Counts(method) == IF method = "HEAD" THEN "GET" ELSE method

\* Route j is for this path, and for this method.
For(j, path) == Matches(Routes[j].pattern, path)
Exact(j, method, path) == For(j, path) /\ Routes[j].method = Counts(method)

-----------------------------------------------------------------------------
(* The routes.                                                             *)

LEMMA RouteTypes ==
    /\ DOMAIN Routes = 1 .. Len(Routes) /\ Len(Routes) \in Nat /\ Len(Routes) >= 15
    /\ \A j \in DOMAIN Routes :
          /\ Routes[j].method \in {"GET", "POST", "PUT", "PATCH", "DELETE"}
          /\ Routes[j].handler \in Handlers
          /\ Routes[j] = AllRoutes[j]
<1>1. DOMAIN Routes = 1 .. Len(Routes) /\ Len(Routes) \in Nat /\ Len(Routes) >= 15
  BY RoutingConstants DEF Routes
<1>2. \A j \in 1 .. 17 : AllRoutes[j].method \in {"GET", "POST", "PUT", "PATCH", "DELETE"}
  BY DEF AllRoutes, NewRoute
<1>3. ASSUME NEW j \in DOMAIN Routes PROVE Routes[j] = AllRoutes[j] /\ j \in 1 .. 17
  BY <1>3, RoutingConstants DEF Routes
<1> QED
  BY <1>1, <1>2, <1>3 DEF Handlers

\* No two routes are for one pattern and one method.
LEMMA RoutesDiffer ==
    ASSUME NEW i \in 1 .. 17, NEW j \in 1 .. 17,
           AllRoutes[i].pattern = AllRoutes[j].pattern,
           AllRoutes[i].method = AllRoutes[j].method
    PROVE  i = j
  BY DEF AllRoutes, NewRoute

\* What a path that matches a named pattern looks like from its end.
LEMMA TailWords ==
    ASSUME NEW path \in Seq(STRING), NEW k \in DOMAIN Tails, Named(path, Tails[k])
    PROVE  /\ Len(path) \in Nat /\ Len(path) >= 4 /\ path[1] = "v2"
           /\ k = "referrers" => path[Len(path) - 1] = "referrers"
           /\ k = "tags" => path[Len(path) - 1] = "tags"
           /\ k = "blobs" => path[Len(path) - 1] = "blobs" /\ path[Len(path)] \in Digests
           /\ k = "uploads" => path[Len(path) - 1] = "blobs" /\ path[Len(path)] = "uploads"
           /\ k = "upload" => path[Len(path) - 1] = "uploads"
           /\ k = "manifests" => path[Len(path) - 1] = "manifests"
<1>1. k \in {"referrers", "tags", "blobs", "uploads", "upload", "manifests"}
  BY DEF Tails
<1>2. Len(path) \in Nat /\ path[1] = "v2"
  BY DEF Named
<1>3. ASSUME NEW a, NEW b, Tails[k] = <<a, b>>
      PROVE  /\ Len(path) >= 4
             /\ path[Len(path) - 1] \in a /\ path[Len(path)] \in b
  <2>1. Len(Tails[k]) = 2 /\ Tails[k][1] = a /\ Tails[k][2] = b
    BY <1>3
  <2>2. Len(path) >= 4 /\ EndsIn(path, Tails[k])
    BY <2>1 DEF Named
  <2>3. \A x \in 1 .. 2 : path[Len(path) - 2 + x] \in Tails[k][x]
    BY <2>1, <2>2 DEF EndsIn
  <2>4. path[Len(path) - 2 + 1] \in a /\ path[Len(path) - 2 + 2] \in b
    BY <2>1, <2>3
  <2>5. Len(path) - 2 + 1 = Len(path) - 1 /\ Len(path) - 2 + 2 = Len(path)
    BY <1>2
  <2> QED
    BY <2>2, <2>4, <2>5
<1>4. ASSUME k = "upload" PROVE Len(path) >= 5 /\ path[Len(path) - 1] = "uploads"
  <2>1. Tails[k] = << {"blobs"}, {"uploads"}, UUIDs >>
    BY <1>4 DEF Tails
  <2>2. Len(Tails[k]) = 3 /\ Tails[k][2] = {"uploads"}
    BY <2>1
  <2>3. Len(path) >= 5 /\ EndsIn(path, Tails[k])
    BY <2>2 DEF Named
  <2>4. path[Len(path) - 3 + 2] \in {"uploads"}
    BY <2>2, <2>3 DEF EndsIn
  <2>5. Len(path) - 3 + 2 = Len(path) - 1
    BY <1>2
  <2> QED
    BY <2>3, <2>4, <2>5
<1>5. CASE k = "referrers"
  <2>1. Tails[k] = << {"referrers"}, Digests >>
    BY <1>5 DEF Tails
  <2>2. Len(path) >= 4 /\ path[Len(path) - 1] \in {"referrers"} /\ path[Len(path)] \in Digests
    BY ONLY <1>3, <2>1
  <2> QED
    BY <1>2, <1>5, <2>2
<1>6. CASE k = "tags"
  <2>1. Tails[k] = << {"tags"}, {"list"} >>
    BY <1>6 DEF Tails
  <2>2. Len(path) >= 4 /\ path[Len(path) - 1] \in {"tags"} /\ path[Len(path)] \in {"list"}
    BY ONLY <1>3, <2>1
  <2> QED
    BY <1>2, <1>6, <2>2
<1>7. CASE k = "blobs"
  <2>1. Tails[k] = << {"blobs"}, Digests >>
    BY <1>7 DEF Tails
  <2>2. Len(path) >= 4 /\ path[Len(path) - 1] \in {"blobs"} /\ path[Len(path)] \in Digests
    BY ONLY <1>3, <2>1
  <2> QED
    BY <1>2, <1>7, <2>2
<1>8. CASE k = "uploads"
  <2>1. Tails[k] = << {"blobs"}, {"uploads"} >>
    BY <1>8 DEF Tails
  <2>2. Len(path) >= 4 /\ path[Len(path) - 1] \in {"blobs"} /\ path[Len(path)] \in {"uploads"}
    BY ONLY <1>3, <2>1
  <2> QED
    BY <1>2, <1>8, <2>2
<1>9. CASE k = "manifests"
  <2>1. Tails[k] = << {"manifests"}, TagWords \union Digests >>
    BY <1>9 DEF Tails
  <2>2. Len(path) >= 4 /\ path[Len(path) - 1] \in {"manifests"} /\ path[Len(path)] \in TagWords \union Digests
    BY ONLY <1>3, <2>1
  <2> QED
    BY <1>2, <1>9, <2>2
<1> QED
  BY <1>1, <1>2, <1>4, <1>5, <1>6, <1>7, <1>8, <1>9

\* The other patterns match short paths, and those of the user interface.
LEMMA OtherWords ==
    ASSUME NEW path \in Seq(STRING), NEW k, Matches(k, path),
           ~(k \in DOMAIN Tails /\ Named(path, Tails[k]))
    PROVE  /\ Len(path) < 4 \/ path[1] # "v2"
           /\ \/ k = "index" /\ Len(path) = 1 /\ path[1] = "v2"
              \/ k = "catalog" /\ Len(path) = 2
              \/ k = "token" /\ Len(path) = 1 /\ path[1] = "token"
              \/ k = "ui" /\ Len(path) >= 1 /\ path[1] = "ui"
              \/ k = "root" /\ Len(path) = 0
           /\ k = "catalog" => path[1] = "v2"
<1>1. CASE k = "index" /\ path = << "v2" >>
  <2>1. Len(path) = 1 /\ path[1] = "v2"
    BY <1>1
  <2> QED
    BY <1>1, <2>1
<1>2. CASE k = "catalog" /\ path = << "v2", "_catalog" >>
  <2>1. Len(path) = 2 /\ path[1] = "v2"
    BY <1>2
  <2> QED
    BY <1>2, <2>1
<1>3. CASE k = "token" /\ path = << "token" >>
  <2>1. Len(path) = 1 /\ path[1] = "token"
    BY <1>3
  <2> QED
    BY <1>3, <2>1
<1>4. CASE k = "ui" /\ Len(path) >= 1 /\ path[1] = "ui"
  BY <1>4
<1>5. CASE k = "root" /\ path = << >>
  <2>1. Len(path) = 0
    BY <1>5
  <2> QED
    BY <1>5, <2>1
<1> QED
  BY <1>1, <1>2, <1>3, <1>4, <1>5 DEF Matches

\* A path matches one pattern at most, so the order of the routes does not
\* matter.
LEMMA OnePattern ==
    ASSUME NEW path \in Seq(STRING), NEW a, NEW b, Matches(a, path), Matches(b, path)
    PROVE  a = b
<1> DEFINE ByName(k) == k \in DOMAIN Tails /\ Named(path, Tails[k])
<1>1. CASE ByName(a) /\ ByName(b)
  <2>1. /\ a \in {"referrers", "tags", "blobs", "uploads", "upload", "manifests"}
        /\ b \in {"referrers", "tags", "blobs", "uploads", "upload", "manifests"}
    BY <1>1 DEF Tails
  <2> QED
    BY <1>1, <2>1, TailWords, RoutingConstants
<1>2. ASSUME NEW k, ByName(k) PROVE ~(Len(path) < 4 \/ path[1] # "v2")
  BY <1>2, TailWords
<1>3. ASSUME NEW k, Matches(k, path), ~ByName(k)
      PROVE  \/ k = "index" /\ Len(path) = 1 /\ path[1] = "v2"
             \/ k = "catalog" /\ Len(path) = 2
             \/ k = "token" /\ Len(path) = 1 /\ path[1] = "token"
             \/ k = "ui" /\ Len(path) >= 1 /\ path[1] = "ui"
             \/ k = "root" /\ Len(path) = 0
  BY <1>3, OtherWords
<1>4. ASSUME NEW k, Matches(k, path), ~ByName(k)
      PROVE  /\ Len(path) < 4 \/ path[1] # "v2"
             /\ k = "catalog" => path[1] = "v2"
  BY <1>4, OtherWords
<1> HIDE DEF ByName
<1>5. CASE ~ByName(a) /\ ~ByName(b)
  <2>1. /\ a \in {"index", "catalog", "token", "ui", "root"}
        /\ b \in {"index", "catalog", "token", "ui", "root"}
    BY <1>3, <1>5
  <2>2. ASSUME NEW k, Matches(k, path), ~ByName(k)
        PROVE  /\ k = "index" <=> Len(path) = 1 /\ path[1] = "v2"
               /\ k = "catalog" <=> Len(path) = 2 /\ path[1] = "v2"
               /\ k = "token" <=> Len(path) = 1 /\ path[1] = "token"
               /\ k = "root" <=> Len(path) = 0
    BY <1>3, <1>4, <2>2
  <2>3. ("index" = a <=> "index" = b) /\ ("catalog" = a <=> "catalog" = b)
        /\ ("token" = a <=> "token" = b) /\ ("root" = a <=> "root" = b)
    BY <1>5, <2>2
  <2> QED
    BY <2>1, <2>3
<1> QED
  BY <1>1, <1>2, <1>4, <1>5

\* One route at most is for a path and a method.
LEMMA OneRoute ==
    ASSUME NEW path \in Paths, NEW method, NEW i \in DOMAIN Routes, NEW j \in DOMAIN Routes,
           Exact(i, method, path), Exact(j, method, path)
    PROVE  i = j
<1>1. path \in Seq(STRING)
  BY RoutingConstants
<1>2. Routes[i].pattern = Routes[j].pattern /\ Routes[i].method = Routes[j].method
  BY <1>1, OnePattern DEF Exact, For
<1>3. i \in 1 .. 17 /\ j \in 1 .. 17 /\ Routes[i] = AllRoutes[i] /\ Routes[j] = AllRoutes[j]
  BY RouteTypes, RoutingConstants, SMTT(20) DEF Routes
<1> QED
  BY <1>2, <1>3, RoutesDiffer

LEMMA ServingIs ==
    ASSUME NEW method, NEW path
    PROVE  \A h : h \in Serving(method, path) <=>
              \E j \in DOMAIN Routes : Exact(j, method, path) /\ h = Routes[j].handler
  BY DEF Serving, Exact, For, Counts

\* What a route that is not for the method adds to the Allow header are the
\* methods it is for.
LEMMA AllowsIs ==
    ASSUME NEW j \in DOMAIN Routes, NEW m
    PROVE  m \in Allows(Routes[j]) <=> Routes[j].method = Counts(m)
  BY RouteTypes DEF Allows, Counts

-----------------------------------------------------------------------------
(* Types.                                                                  *)

LEMMA Endings ==
    /\ {"served", "notAllowed", "notFound", "aborted", "match", "handler", "note", "idle"} \subseteq
       {"idle", "match", "handler", "note", "served", "notAllowed", "notFound", "aborted"}
    /\ Idle \in Request
  BY RouteTypes DEF Idle, Request

\* Every variable keeps its type (Routing).
THEOREM RoutingTypeCorrect == Spec => []TypeOK
<1>1. Init => TypeOK
  BY Endings DEF Init, TypeOK, Note
<1>2. TypeOK /\ [Next]_vars => TypeOK'
  <2> SUFFICES ASSUME TypeOK, [Next]_vars PROVE TypeOK'
    OBVIOUS
  <2>1. CASE UNCHANGED vars
    BY <2>1 DEF TypeOK, vars
  <2>2. ASSUME NEW p \in Procs, NEW path \in Paths, NEW method \in Methods,
               Arrive(p, path, method)
        PROVE  TypeOK'
    <3>1. [Idle EXCEPT !.st = "match", !.path = path, !.asked = method, !.method = method]
             \in Request
      <4>1. 1 \in DOMAIN Routes
        BY RouteTypes
      <4> QED
        BY <4>1 DEF Idle, Request
    <3> QED
      BY <2>2, <3>1 DEF Arrive, TypeOK
  <2>3. ASSUME NEW p \in Procs, Match(p) PROVE TypeOK'
    <3>1. Place(p) \in Procs \union DOMAIN Routes
      BY DEF Place
    <3>2. req[p] \in Request
      BY DEF TypeOK
    <3>3. PICK b \in BOOLEAN, c \in BOOLEAN, st \in {"handler", "note"}, m \in Methods \union {None} :
             /\ notes' = [notes EXCEPT ![Place(p)] = [url |-> b, method |-> c]]
             /\ req' = [req EXCEPT ![p] = [@ EXCEPT !.st = st, !.method = m]]
      <4>1. "GET" \in Methods /\ req[p].method \in Methods \union {None}
        BY <3>2, RoutingConstants DEF Request
      <4>2. Matches(Routes[req[p].i].pattern, req[p].path) \in BOOLEAN
        BY DEF Matches
      <4> QED
        BY <2>3, <4>1, <4>2, ZenonT(60) DEF Match
    <3>4. [req[p] EXCEPT !.st = st, !.method = m] \in Request
      BY <3>2, Zenon DEF Request
    <3> QED
      BY <3>1, <3>3, <3>4 DEF TypeOK, Note
  <2>4. ASSUME NEW p \in Procs, Handle(p) PROVE TypeOK'
    <3>1. req[p] \in Request /\ Routes[req[p].i].handler \in Handlers
      BY RouteTypes DEF TypeOK, Request
    <3>2. [req[p] EXCEPT !.st = "note", !.by = @ \union {Routes[req[p].i].handler}] \in Request
      BY <3>1 DEF Request
    <3> QED
      BY <2>4, <3>2 DEF Handle, TypeOK
  <2>5. ASSUME NEW p \in Procs, Panic(p) PROVE TypeOK'
    <3>1. [req[p] EXCEPT !.st = "aborted"] \in Request
      BY DEF TypeOK, Request
    <3> QED
      BY <2>5, <3>1 DEF Panic, TypeOK
  <2>6. ASSUME NEW p \in Procs, ReadNote(p) PROVE TypeOK'
    <3>1. req[p] \in Request
      BY DEF TypeOK
    <3>2. Allows(Routes[req[p].i]) \subseteq Methods
      BY <3>1, RouteTypes, RoutingConstants DEF Request, Allows
    <3>3. ASSUME NEW allow \in SUBSET Methods, Continue(p, allow), UNCHANGED notes PROVE TypeOK'
      <4>1. PICK i \in DOMAIN Routes, st \in {"match", "notAllowed", "notFound"} :
               req' = [req EXCEPT ![p] = [@ EXCEPT !.allow = allow, !.i = i, !.st = st]]
        <5>1. req[p].i \in 1 .. Len(Routes)
          BY <3>1, RouteTypes DEF Request
        <5>2. (IF req[p].i < Len(Routes) THEN req[p].i + 1 ELSE req[p].i) \in DOMAIN Routes
          BY <5>1, RouteTypes
        <5> QED
          BY <3>3, <5>2 DEF Continue
      <4>2. [req[p] EXCEPT !.allow = allow, !.i = i, !.st = st] \in Request
        BY <3>1 DEF Request
      <4> QED
        BY <3>3, <4>1, <4>2 DEF TypeOK
    <3>4. CASE req' = [req EXCEPT ![p].st = "served"]
      <4>1. [req[p] EXCEPT !.st = "served"] \in Request
        BY <3>1 DEF Request
      <4> QED
        BY <2>6, <3>4, <4>1 DEF ReadNote, TypeOK
    <3>5. req[p].allow \in SUBSET Methods
      BY <3>1 DEF Request
    <3> QED
      BY <2>6, <3>2, <3>3, <3>4, <3>5 DEF ReadNote
  <2>7. ASSUME NEW p \in Procs, Finish(p) PROVE TypeOK'
    BY <2>7, Endings DEF Finish, TypeOK
  <2> QED
    BY <2>1, <2>2, <2>3, <2>4, <2>5, <2>6, <2>7 DEF Next
<1> QED
  BY <1>1, <1>2, PTL DEF Spec

-----------------------------------------------------------------------------
(* The loop.                                                               *)

\* Method m would do for one of the first n routes.
WouldDo(n, path, m) == \E j \in 1 .. n : For(j, path) /\ Routes[j].method = Counts(m)

\* No route before route i was for the request, and allow is what they allow.
Passed(r) ==
    /\ \A j \in 1 .. (r.i - 1) : ~Exact(j, r.asked, r.path)
    /\ \A m \in Methods : m \in r.allow <=> WouldDo(r.i - 1, r.path, m)

\* What the loop knows of request r, and what note n of its route says.
Right(r, n) ==
    /\ r.st # "idle" => r.path \in Paths /\ r.asked \in Methods
    /\ r.st \in {"match", "handler", "note"} => Passed(r)
    /\ r.st = "match" => r.method = r.asked /\ r.by = {}
    /\ r.st \in {"handler", "note"} =>
          /\ n.url = For(r.i, r.path)
          /\ n.method = Exact(r.i, r.asked, r.path)
    /\ r.st = "handler" => n.method /\ r.by = {}
    /\ r.st = "note" => IF n.method THEN r.by = {Routes[r.i].handler}
                        ELSE r.by = {} /\ r.method = r.asked
    /\ r.st = "served" => \E j \in DOMAIN Routes :
          Exact(j, r.asked, r.path) /\ r.by = {Routes[j].handler}
    /\ r.st \in {"notAllowed", "notFound"} =>
          /\ \A j \in DOMAIN Routes : ~Exact(j, r.asked, r.path)
          /\ \A m \in Methods : m \in r.allow <=> WouldDo(Len(Routes), r.path, m)
          /\ r.by = {}
          /\ r.st = "notFound" <=> r.allow = {}

LoopInv == \A p \in Procs : Right(req[p], notes[p])

LEMMA MatchBoolean ==
    ASSUME NEW j, NEW method, NEW path
    PROVE  For(j, path) \in BOOLEAN /\ Exact(j, method, path) \in BOOLEAN
  BY DEF For, Exact, Matches

\* One route more has been passed.
LEMMA PassedOne ==
    ASSUME NEW r \in Request, Passed(r), ~Exact(r.i, r.asked, r.path), NEW allow,
           allow = IF For(r.i, r.path) THEN r.allow \union Allows(Routes[r.i]) ELSE r.allow
    PROVE  /\ \A j \in 1 .. r.i : ~Exact(j, r.asked, r.path)
           /\ \A m \in Methods : m \in allow <=> WouldDo(r.i, r.path, m)
<1>1. r.i \in 1 .. Len(Routes) /\ r.i \in DOMAIN Routes /\ r.i \in Nat
  BY RouteTypes DEF Request
<1>2. \A j \in 1 .. r.i : j = r.i \/ j \in 1 .. (r.i - 1)
  BY <1>1
<1>3. \A j \in 1 .. r.i : ~Exact(j, r.asked, r.path)
  BY <1>2 DEF Passed
<1>4. ASSUME NEW m \in Methods PROVE m \in allow <=> WouldDo(r.i, r.path, m)
  <2>1. m \in r.allow <=> WouldDo(r.i - 1, r.path, m)
    BY DEF Passed
  <2>2. WouldDo(r.i, r.path, m) <=>
        \/ WouldDo(r.i - 1, r.path, m)
        \/ For(r.i, r.path) /\ Routes[r.i].method = Counts(m)
    <3>1. r.i \in 1 .. r.i /\ \A j \in 1 .. (r.i - 1) : j \in 1 .. r.i
      BY <1>1
    <3> QED
      BY <1>2, <3>1 DEF WouldDo
  <2>3. m \in Allows(Routes[r.i]) <=> Routes[r.i].method = Counts(m)
    BY <1>1, AllowsIs
  <2> QED
    BY <2>1, <2>2, <2>3
<1> QED
  BY <1>3, <1>4

LEMMA LoopStarts == Init => LoopInv
  BY DEF Init, LoopInv, Right, Idle

\* Steps of one goroutine leave the notes of the others alone.
LEMMA OthersKeep ==
    ASSUME LoopInv, NEW p \in Procs,
           \A q \in Procs \ {p} : req'[q] = req[q] /\ notes'[q] = notes[q],
           Right(req'[p], notes'[p])
    PROVE  LoopInv'
<1>1. ASSUME NEW q \in Procs PROVE Right(req'[q], notes'[q])
  BY <1>1 DEF LoopInv
<1> QED
  BY <1>1 DEF LoopInv, Right, Passed, WouldDo, Exact, For, Matches, Routes, AllRoutes,
              NewRoute, Named, EndsIn, Tails, Counts

LEMMA LoopHolds == TypeOK /\ LoopInv /\ [Next]_vars => LoopInv'
<1> SUFFICES ASSUME TypeOK, LoopInv, [Next]_vars PROVE LoopInv'
  OBVIOUS
<1>0. /\ DOMAIN req = Procs /\ Procs \subseteq DOMAIN notes
      /\ \A p \in Procs : req[p] \in Request /\ notes[p] \in Note /\ Right(req[p], notes[p])
  BY DEF TypeOK, LoopInv
<1>1. CASE UNCHANGED vars
  BY <1>1 DEF LoopInv, vars
<1>2. ASSUME NEW p \in Procs, NEW path \in Paths, NEW method \in Methods,
             Arrive(p, path, method)
      PROVE  LoopInv'
  <2>1. /\ req'[p] = [Idle EXCEPT !.st = "match", !.path = path, !.asked = method, !.method = method]
        /\ \A q \in Procs \ {p} : req'[q] = req[q] /\ notes'[q] = notes[q]
    BY <1>0, <1>2 DEF Arrive
  <2>2. /\ req'[p].st = "match" /\ req'[p].path = path /\ req'[p].asked = method
        /\ req'[p].method = method /\ req'[p].by = {} /\ req'[p].allow = {} /\ req'[p].i = 1
    BY <2>1 DEF Idle
  <2>3. Passed(req'[p])
    BY <2>2 DEF Passed, WouldDo
  <2>4. Right(req'[p], notes'[p])
    BY <2>2, <2>3 DEF Right
  <2> QED
    BY <2>1, <2>4, OthersKeep
<1>3. ASSUME NEW p \in Procs, Match(p) PROVE LoopInv'
  <2> DEFINE r == req[p]
  <2> DEFINE url == For(r.i, r.path)
  <2> DEFINE method == IF url /\ r.method = "HEAD" /\ Routes[r.i].method = "GET"
                       THEN "GET" ELSE r.method
  <2> DEFINE both == url /\ method = Routes[r.i].method
  <2>1. /\ At(p, "match")
        /\ notes' = [notes EXCEPT ![p] = [url |-> url, method |-> both]]
        /\ req' = [req EXCEPT ![p].st = IF both THEN "handler" ELSE "note", ![p].method = method]
    BY <1>3 DEF Match, Place, For
  <2>2. /\ r \in Request /\ r.st = "match" /\ Right(r, notes[p])
        /\ r.i \in DOMAIN Routes
    BY <1>0, <2>1 DEF At, Request
  <2>3. r.method = r.asked /\ r.by = {} /\ Passed(r) /\ r.path \in Paths /\ r.asked \in Methods
    BY <2>2 DEF Right
  <2>4. both = Exact(r.i, r.asked, r.path) /\ (~both => method = r.asked)
    BY <2>2, <2>3, RouteTypes, MatchBoolean DEF Exact, Counts
  <2>5. \A q \in Procs \ {p} : req'[q] = req[q] /\ notes'[q] = notes[q]
    BY <1>0, <2>1
  <2>6. notes'[p].url = url /\ notes'[p].method = both
    BY <1>0, <2>1
  <2>7. /\ req'[p].st = (IF both THEN "handler" ELSE "note") /\ req'[p].method = method
        /\ req'[p].path = r.path /\ req'[p].asked = r.asked /\ req'[p].i = r.i
        /\ req'[p].by = r.by /\ req'[p].allow = r.allow
    BY <1>0, <2>1, <2>2 DEF Request
  <2>8. Passed(req'[p])
    BY <2>3, <2>7 DEF Passed
  <2> HIDE DEF both, method, url, r
  <2>9. Right(req'[p], notes'[p])
    BY <2>3, <2>4, <2>6, <2>7, <2>8 DEF Right, url
  <2> QED
    BY <2>5, <2>9, OthersKeep
<1>4. ASSUME NEW p \in Procs, Handle(p) PROVE LoopInv'
  <2> DEFINE r == req[p]
  <2>1. /\ r \in Request /\ r.st = "handler" /\ Right(r, notes[p])
        /\ notes' = notes
    BY <1>0, <1>4 DEF Handle, At
  <2>2. /\ req'[p].st = "note" /\ req'[p].by = r.by \union {Routes[r.i].handler}
        /\ req'[p].path = r.path /\ req'[p].asked = r.asked /\ req'[p].i = r.i
        /\ req'[p].method = r.method /\ req'[p].allow = r.allow
        /\ \A q \in Procs \ {p} : req'[q] = req[q]
    BY <1>0, <1>4, <2>1 DEF Handle, Request
  <2>3. Passed(req'[p])
    BY <2>1, <2>2 DEF Passed, Right
  <2>4. Right(req'[p], notes'[p])
    BY <2>1, <2>2, <2>3 DEF Right
  <2> QED
    BY <2>1, <2>2, <2>4, OthersKeep
<1>5. ASSUME NEW p \in Procs, Panic(p) PROVE LoopInv'
  <2>1. /\ req[p] \in Request /\ req[p].st = "handler" /\ Right(req[p], notes[p])
        /\ notes' = notes
    BY <1>0, <1>5 DEF Panic, At
  <2>2. /\ req'[p].st = "aborted" /\ req'[p].path = req[p].path /\ req'[p].asked = req[p].asked
        /\ \A q \in Procs \ {p} : req'[q] = req[q]
    BY <1>0, <1>5, <2>1 DEF Panic, Request
  <2>3. Right(req'[p], notes'[p])
    BY <2>1, <2>2 DEF Right
  <2> QED
    BY <2>1, <2>2, <2>3, OthersKeep
<1>6. ASSUME NEW p \in Procs, ReadNote(p) PROVE LoopInv'
  <2> DEFINE r == req[p]
  <2> DEFINE n == notes[p]
  <2>1. /\ r \in Request /\ r.st = "note" /\ Right(r, n) /\ n \in Note /\ notes' = notes
    BY <1>0, <1>6 DEF ReadNote, At
  <2>2. /\ r.i \in DOMAIN Routes /\ r.i \in 1 .. Len(Routes) /\ Len(Routes) \in Nat
    BY <2>1, RouteTypes DEF Request
  <2>3. /\ Passed(r) /\ n.url = For(r.i, r.path) /\ n.method = Exact(r.i, r.asked, r.path)
        /\ r.path \in Paths /\ r.asked \in Methods
        /\ IF n.method THEN r.by = {Routes[r.i].handler} ELSE r.by = {} /\ r.method = r.asked
    BY <2>1 DEF Right
  <2>4. \/ n.url /\ n.method /\ req' = [req EXCEPT ![p].st = "served"]
        \/ n.url /\ ~n.method /\ Continue(p, r.allow \union Allows(Routes[r.i]))
        \/ ~n.url /\ Continue(p, r.allow)
    BY <1>6 DEF ReadNote, Place
  <2>5. CASE n.method /\ req' = [req EXCEPT ![p].st = "served"]
    <3>1. /\ req'[p].st = "served" /\ req'[p].path = r.path /\ req'[p].asked = r.asked
          /\ req'[p].by = r.by /\ \A q \in Procs \ {p} : req'[q] = req[q]
      BY <1>0, <2>1, <2>5 DEF Request
    <3>2. Right(req'[p], notes'[p])
      BY <2>2, <2>3, <2>5, <3>1 DEF Right
    <3> QED
      BY <2>1, <3>1, <3>2, OthersKeep
  <2>6. ASSUME NEW allow, ~n.method, Continue(p, allow),
               allow = IF n.url THEN r.allow \union Allows(Routes[r.i]) ELSE r.allow
        PROVE  LoopInv'
    <3>1. /\ \A j \in 1 .. r.i : ~Exact(j, r.asked, r.path)
          /\ \A m \in Methods : m \in allow <=> WouldDo(r.i, r.path, m)
      BY <2>1, <2>3, <2>6, PassedOne
    <3>2. /\ req'[p].allow = allow /\ req'[p].path = r.path /\ req'[p].asked = r.asked
          /\ req'[p].method = r.method /\ req'[p].by = r.by
          /\ req'[p].i = (IF r.i < Len(Routes) THEN r.i + 1 ELSE r.i)
          /\ req'[p].st = (IF r.i < Len(Routes) THEN "match"
                          ELSE IF allow # {} THEN "notAllowed" ELSE "notFound")
          /\ \A q \in Procs \ {p} : req'[q] = req[q]
      BY <1>0, <2>1, <2>6 DEF Continue, Request
    <3>3. CASE r.i < Len(Routes)
      <4>1. req'[p].st = "match" /\ req'[p].i - 1 = r.i
        BY <2>2, <3>2, <3>3
      <4>2. Passed(req'[p])
        BY <3>1, <3>2, <4>1 DEF Passed
      <4>3. Right(req'[p], notes'[p])
        BY <2>3, <2>6, <3>2, <4>1, <4>2 DEF Right
      <4> QED
        BY <2>1, <3>2, <4>3, OthersKeep
    <3>4. CASE ~(r.i < Len(Routes))
      <4>1. r.i = Len(Routes)
        BY <2>2, <3>4
      <4>2. /\ \A j \in DOMAIN Routes : ~Exact(j, r.asked, r.path)
            /\ \A m \in Methods : m \in allow <=> WouldDo(Len(Routes), r.path, m)
        BY <3>1, <4>1, RouteTypes
      <4>3. req'[p].st = IF allow # {} THEN "notAllowed" ELSE "notFound"
        BY <3>2, <3>4
      <4>4. Right(req'[p], notes'[p])
        BY <2>3, <2>6, <3>2, <4>2, <4>3 DEF Right
      <4> QED
        BY <2>1, <3>2, <4>4, OthersKeep
    <3> QED
      BY <3>3, <3>4
  <2>7. n.url \in BOOLEAN /\ n.method \in BOOLEAN /\ (n.method => n.url)
    BY <2>1, <2>3 DEF Note, Exact
  <2> QED
    BY <2>4, <2>5, <2>6, <2>7
<1>7. ASSUME NEW p \in Procs, Finish(p) PROVE LoopInv'
  <2>1. req'[p] = Idle /\ \A q \in Procs \ {p} : req'[q] = req[q] /\ notes'[q] = notes[q]
    BY <1>0, <1>7 DEF Finish
  <2>2. Right(req'[p], notes'[p])
    BY <2>1 DEF Right, Idle
  <2> QED
    BY <2>1, <2>2, OthersKeep
<1> QED
  BY <1>1, <1>2, <1>3, <1>4, <1>5, <1>6, <1>7 DEF Next

\* A request is answered by the one handler there is for it, or by an error and
\* no handler, whatever the other goroutines do with the same list of routes.
THEOREM RoutingAnsweredOnce == Spec => []AnsweredOnce
<1>1. TypeOK /\ LoopInv => AnsweredOnce
  <2> SUFFICES ASSUME TypeOK, LoopInv, NEW p \in Procs
               PROVE  /\ At(p, "served") => /\ req[p].by = Serving(req[p].asked, req[p].path)
                                            /\ \E h \in Handlers : req[p].by = {h}
                      /\ At(p, "notAllowed") \/ At(p, "notFound") =>
                            req[p].by = {} /\ Serving(req[p].asked, req[p].path) = {}
    BY DEF AnsweredOnce
  <2>1. Right(req[p], notes[p]) /\ req[p] \in Request
    BY DEF LoopInv, TypeOK
  <2>2. ASSUME At(p, "served")
        PROVE  /\ req[p].by = Serving(req[p].asked, req[p].path)
               /\ \E h \in Handlers : req[p].by = {h}
    <3>1. req[p].path \in Paths
      BY <2>1, <2>2 DEF At, Right
    <3>2. PICK j \in DOMAIN Routes :
             Exact(j, req[p].asked, req[p].path) /\ req[p].by = {Routes[j].handler}
      BY <2>1, <2>2 DEF At, Right
    <3>3. \A i \in DOMAIN Routes : Exact(i, req[p].asked, req[p].path) => i = j
      BY <3>1, <3>2, OneRoute
    <3>4. \A h : h \in Serving(req[p].asked, req[p].path) <=> h \in req[p].by
      BY <3>2, <3>3, ServingIs
    <3> QED
      BY <3>2, <3>4, RouteTypes
  <2>3. ASSUME At(p, "notAllowed") \/ At(p, "notFound")
        PROVE  req[p].by = {} /\ Serving(req[p].asked, req[p].path) = {}
    BY <2>1, <2>3, ServingIs DEF At, Right
  <2> QED
    BY <2>2, <2>3
<1>2. TypeOK /\ LoopInv /\ [Next]_vars => LoopInv'
  BY LoopHolds
<1> QED
  BY <1>1, <1>2, LoopStarts, RoutingTypeCorrect, PTL DEF Spec

\* The Allow header of a 405 names the methods that the path can be asked with,
\* all of them, and 404 says that there are none.
THEOREM RoutingAllowIsHonest == Spec => []AllowIsHonest
<1>1. TypeOK /\ LoopInv => AllowIsHonest
  <2> SUFFICES ASSUME TypeOK, LoopInv, NEW p \in Procs, At(p, "notAllowed") \/ At(p, "notFound")
               PROVE  /\ req[p].allow = {m \in Methods : Serving(m, req[p].path) # {}}
                      /\ At(p, "notFound") <=> req[p].allow = {}
    BY DEF AllowIsHonest
  <2>1. Right(req[p], notes[p]) /\ req[p].allow \subseteq Methods
    BY DEF LoopInv, TypeOK, Request
  <2>2. /\ \A m \in Methods : m \in req[p].allow <=> WouldDo(Len(Routes), req[p].path, m)
        /\ req[p].st = "notFound" <=> req[p].allow = {}
    BY <2>1 DEF At, Right
  <2>3. ASSUME NEW m
        PROVE  Serving(m, req[p].path) # {} <=> WouldDo(Len(Routes), req[p].path, m)
    BY ServingIs, RouteTypes DEF WouldDo, Exact
  <2> QED
    BY <2>1, <2>2, <2>3 DEF At
<1>2. TypeOK /\ LoopInv /\ [Next]_vars => LoopInv'
  BY LoopHolds
<1> QED
  BY <1>1, <1>2, LoopStarts, RoutingTypeCorrect, PTL DEF Spec

=============================================================================
