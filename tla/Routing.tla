------------------------------ MODULE Routing ------------------------------
(***************************************************************************)
(* Which handler a request gets: the loop over the routes that             *)
(* registerRoutes gives to the server, and Route.Handler, which notes in   *)
(* the Route whether it matched.  The loop reads the note after the        *)
(* handler has run, and all requests run over the same list of routes.     *)
(*                                                                         *)
(* A path is a sequence of words.  Repository names are sequences of words *)
(* too, and "tags", "blobs" or "uploads" are good ones, so a pattern is a  *)
(* prefix, a name or none, and the words after it.                         *)
(***************************************************************************)
EXTENDS Integers, Sequences

CONSTANTS
    NameWords,   \* words that a repository name may have
    TagWords,    \* words that are tags
    Digests,     \* words that are digests
    UUIDs,       \* words that are identifiers of sessions
    Paths,       \* paths that clients ask for
    Methods,     \* and methods
    UI,          \* is the user interface enabled?
    Procs,       \* request goroutines
    None

ASSUME RoutingConstants ==
    /\ {"GET", "HEAD", "POST", "PUT", "PATCH", "DELETE"} \subseteq Methods
    /\ "uploads" \notin Digests
    /\ Paths \subseteq Seq(STRING) /\ None \notin Paths \union Methods
    /\ Procs \intersect Nat = {} /\ UI \in BOOLEAN

-----------------------------------------------------------------------------
(* Patterns.                                                               *)

\* The path ends in words of these sets.
EndsIn(path, tail) ==
    /\ Len(path) >= Len(tail)
    /\ \A k \in 1 .. Len(tail) : path[Len(path) - Len(tail) + k] \in tail[k]

\* /v2/<name>/... with a name of one or more words.
Named(path, tail) ==
    /\ Len(path) >= 2 + Len(tail) /\ path[1] = "v2"
    /\ \A k \in 2 .. Len(path) - Len(tail) : path[k] \in NameWords
    /\ EndsIn(path, tail)

Tails ==
    [referrers |-> << {"referrers"}, Digests >>,
     tags      |-> << {"tags"}, {"list"} >>,
     blobs     |-> << {"blobs"}, Digests >>,
     uploads   |-> << {"blobs"}, {"uploads"} >>,
     upload    |-> << {"blobs"}, {"uploads"}, UUIDs >>,
     manifests |-> << {"manifests"}, TagWords \union Digests >>]

Matches(pattern, path) ==
    \/ pattern \in DOMAIN Tails /\ Named(path, Tails[pattern])
    \/ pattern = "index"   /\ path = << "v2" >>
    \/ pattern = "catalog" /\ path = << "v2", "_catalog" >>
    \/ pattern = "token"   /\ path = << "token" >>
    \/ pattern = "ui"      /\ Len(path) >= 1 /\ path[1] = "ui"
    \/ pattern = "root"    /\ path = << >>

-----------------------------------------------------------------------------
(* registerRoutes.                                                         *)

NewRoute(method, pattern, handler) ==
    [method |-> method, pattern |-> pattern, handler |-> handler]

AllRoutes ==
    << NewRoute("GET", "index", "Index"),
       NewRoute("GET", "catalog", "CatalogList"),
       NewRoute("GET", "referrers", "ReferrersGet"),
       NewRoute("GET", "tags", "TagsList"),
       NewRoute("GET", "blobs", "BlobsGet"),
       NewRoute("DELETE", "blobs", "BlobsDelete"),
       NewRoute("POST", "uploads", "BlobsUploadsPost"),
       NewRoute("GET", "upload", "BlobsUploadsGet"),
       NewRoute("PATCH", "upload", "BlobsUploadsPatch"),
       NewRoute("PUT", "upload", "BlobsUploadsPut"),
       NewRoute("DELETE", "upload", "BlobsUploadsDelete"),
       NewRoute("GET", "manifests", "ManifestsGet"),
       NewRoute("PUT", "manifests", "ManifestsPut"),
       NewRoute("DELETE", "manifests", "ManifestsDelete"),
       NewRoute("GET", "token", "Token"),
       NewRoute("GET", "ui", "UI"),
       NewRoute("GET", "root", "RedirectToUI") >>

\* The last two only with the user interface.
Routes == [i \in 1 .. (IF UI THEN 17 ELSE 15) |-> AllRoutes[i]]

Handlers == {Routes[i].handler : i \in DOMAIN Routes}

VARIABLES
    notes,   \* IsMatchUrl and IsMatchMethod of the Routes
    req      \* the request of each goroutine, and how far the loop got

vars == <<notes, req>>

\* asked: the method the client sent; method: what the loop made of it; by:
\* the handlers that were called; allow: the set for the Allow header.
Request ==
    [st : {"idle", "match", "handler", "note",
           "served", "notAllowed", "notFound", "aborted"},
     path : Paths \union {None}, asked : Methods \union {None}, method : Methods \union {None},
     i : DOMAIN Routes, by : SUBSET Handlers, allow : SUBSET Methods]

Idle == [st |-> "idle", path |-> None, asked |-> None, method |-> None,
         i |-> 1, by |-> {}, allow |-> {}]

At(p, st) == req[p].st = st

\* A mutant: for i := range routes, and routes[i].Handler.
PlaceInList(p) == req[p].i

\* for _, route := range routes: every round of the loop works on a copy of
\* its own, so a goroutine has one at a time.
Place(p) == p

Note == [url : BOOLEAN, method : BOOLEAN]

Init ==
    /\ notes = [x \in Procs \union DOMAIN Routes |-> [url |-> FALSE, method |-> FALSE]]
    /\ req = [p \in Procs |-> Idle]

-----------------------------------------------------------------------------
(* Steps.                                                                  *)

Arrive(p, path, method) ==
    /\ At(p, "idle")
    /\ req' = [req EXCEPT ![p] = [Idle EXCEPT !.st = "match", !.path = path,
                                              !.asked = method, !.method = method]]
    /\ UNCHANGED notes

\* Route.Handler, up to the call of the handler: HEAD counts as GET where the
\* route is for GET.
Match(p) ==
    LET route  == Routes[req[p].i]
        url    == Matches(route.pattern, req[p].path)
        method == IF url /\ req[p].method = "HEAD" /\ route.method = "GET"
                  THEN "GET" ELSE req[p].method
        both   == url /\ method = route.method
    IN
    /\ At(p, "match")
    /\ notes' = [notes EXCEPT ![Place(p)] = [url |-> url, method |-> both]]
    /\ req' = [req EXCEPT ![p].st = IF both THEN "handler" ELSE "note", ![p].method = method]

\* The handler runs and returns ...
Handle(p) ==
    /\ At(p, "handler")
    /\ req' = [req EXCEPT ![p].st = "note", ![p].by = @ \union {Routes[req[p].i].handler}]
    /\ UNCHANGED notes

\* ... or panics: net/http closes the connection.
Panic(p) ==
    /\ At(p, "handler")
    /\ req' = [req EXCEPT ![p].st = "aborted"]
    /\ UNCHANGED notes

\* A mutant: HEAD is forgotten.
AllowsMethod(route) == {route.method}

\* What a route of another method adds to the Allow header.
Allows(route) == IF route.method = "GET" THEN {"GET", "HEAD"} ELSE {route.method}

\* A mutant: the last route is not the last.
ContinuePast(p, allow) ==
    req' = [req EXCEPT ![p].allow = allow, ![p].i = @ + 1, ![p].st = "match"]

\* The loop ends after the last route: 405 if another method would do.
Continue(p, allow) ==
    req' = [req EXCEPT ![p].allow = allow,
                       ![p].i = IF @ < Len(Routes) THEN @ + 1 ELSE @,
                       ![p].st = IF req[p].i < Len(Routes) THEN "match"
                                 ELSE IF allow # {} THEN "notAllowed" ELSE "notFound"]

\* The loop reads what Route.Handler noted.
ReadNote(p) ==
    LET note == notes[Place(p)] IN
    /\ At(p, "note")
    /\ \/ note.url /\ note.method /\ req' = [req EXCEPT ![p].st = "served"]
       \/ note.url /\ ~note.method /\ Continue(p, req[p].allow \union Allows(Routes[req[p].i]))
       \/ ~note.url /\ Continue(p, req[p].allow)
    /\ UNCHANGED notes

Finish(p) ==
    /\ req[p].st \in {"served", "notAllowed", "notFound", "aborted"}
    /\ req' = [req EXCEPT ![p] = Idle]
    /\ UNCHANGED notes

Next ==
    \E p \in Procs :
        \/ \E path \in Paths, method \in Methods : Arrive(p, path, method)
        \/ Match(p) \/ Handle(p) \/ Panic(p) \/ ReadNote(p) \/ Finish(p)

Spec == Init /\ [][Next]_vars

-----------------------------------------------------------------------------
(* Properties.                                                             *)

TypeOK ==
    /\ notes \in [Procs \union DOMAIN Routes -> Note]
    /\ req \in [Procs -> Request]

\* The handlers that are there for a method and a path.
Serving(method, path) ==
    {Routes[i].handler : i \in {j \in DOMAIN Routes :
        /\ Matches(Routes[j].pattern, path)
        /\ Routes[j].method = IF method = "HEAD" THEN "GET" ELSE method}}

\* Every request is answered as if it were alone: by one handler, the only one
\* there is for it whatever the order of the routes ("First RegExp match wins.
\* More specific paths MUST appear before generic ones."), or by an error
\* without any handler having run (the loop of registerRoutes reads what
\* Route.Handler noted while other requests run over the same routes).
AnsweredOnce ==
    \A p \in Procs :
        /\ At(p, "served") => /\ req[p].by = Serving(req[p].asked, req[p].path)
                              /\ \E h \in Handlers : req[p].by = {h}
        /\ At(p, "notAllowed") \/ At(p, "notFound") =>
              req[p].by = {} /\ Serving(req[p].asked, req[p].path) = {}

\* 405 names exactly the methods that the path can be asked with, and 404 says
\* that there are none.
AllowIsHonest ==
    \A p \in Procs :
        At(p, "notAllowed") \/ At(p, "notFound") =>
            /\ req[p].allow = {m \in Methods : Serving(m, req[p].path) # {}}
            /\ At(p, "notFound") <=> req[p].allow = {}

=============================================================================
