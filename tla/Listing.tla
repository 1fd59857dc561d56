------------------------------- MODULE Listing -------------------------------
(***************************************************************************)
(* A client that pages through the tags of a repository or through the     *)
(* catalogue, GET .../tags/list and /v2/_catalog with n and last, while    *)
(* tags and repositories come and go.                                      *)
(*                                                                         *)
(* Names are numbers, in the order the handlers sort them by.  A sorted    *)
(* list without duplicates is the set of its members.  Clients do not      *)
(* disturb each other, so there is one.                                    *)
(***************************************************************************)
EXTENDS Integers, FiniteSets

CONSTANTS
    Names,       \* names of tags, and of repositories
    Visible,     \* the tags that the user may list
    Nested,      \* <<a, b>>: the repository name b continues a (a/x)
    Proxied,     \* does the scope of an upstream match the repository?
    MaxChanges   \* bound: how often the lists may change

ASSUME ListingConstants ==
    /\ Names \subseteq Nat /\ IsFiniteSet(Names)
    /\ Visible \subseteq Names
    /\ Nested \subseteq Names \X Names
    /\ Proxied \in BOOLEAN
    /\ MaxChanges \in Nat

VARIABLES
    tags,        \* tags of the repository in the file system
    hasTags,     \* is there a directory of them?
    upstream,    \* tags of the repository upstream
    up,          \* does the upstream answer?
    repos,       \* repositories with a _manifests directory
    walk,        \* the client
    changes

vars == <<tags, hasTags, upstream, up, repos, walk, changes>>

NoLast == -1
NoLimit == -1

(* of: what is listed; n, last: the parameters of the next request; page:  *)
(* the last response; seen: what all of them held; always: what all the    *)
(* lists held that the pages were cut from (history).                      *)
Walk ==
    [st : {"off", "on", "done", "error"}, of : {"tags", "catalog"},
     n : Nat \union {NoLimit}, last : Names \union {NoLast},
     page : SUBSET Names, seen : SUBSET Names,
     always : SUBSET Names]

NewWalk(of, n) ==
    [st |-> "on", of |-> of, n |-> n, last |-> NoLast, page |-> {},
     seen |-> {}, always |-> Names]

\* The server starts over what earlier ones stored.
Init ==
    /\ tags \in SUBSET Names /\ hasTags \in BOOLEAN /\ (tags # {} => hasTags)
    /\ upstream \in SUBSET Names /\ up \in BOOLEAN
    /\ repos \in SUBSET Names
    /\ walk = [NewWalk("tags", NoLimit) EXCEPT !.st = "off"]
    /\ changes = 0

-----------------------------------------------------------------------------
(* The lists change.                                                       *)

Change == changes < MaxChanges /\ changes' = changes + 1

\* A mutant: the directory of tags is not noticed.
PushTagOnly(t) ==
    /\ Change
    /\ tags' = tags \union {t}
    /\ UNCHANGED <<hasTags, upstream, up, repos, walk>>

\* PUT of a manifest by tag.
PushTag(t) ==
    /\ Change
    /\ tags' = tags \union {t} /\ hasTags' = TRUE
    /\ UNCHANGED <<upstream, up, repos, walk>>

\* DELETE of a tag: the directory that holds the tags stays.
DeleteTag(t) ==
    /\ Change
    /\ t \in tags
    /\ tags' = tags \ {t}
    /\ UNCHANGED <<hasTags, upstream, up, repos, walk>>

\* The first PUT of a manifest in a repository; nothing removes one.
PushRepo(r) ==
    /\ Change
    /\ repos' = repos \union {r}
    /\ UNCHANGED <<tags, hasTags, upstream, up, walk>>

\* Somebody pushes or deletes a tag upstream.
UpstreamChanges(S) ==
    /\ Change
    /\ upstream' = S
    /\ UNCHANGED <<tags, hasTags, up, repos, walk>>

\* The upstream goes down, refuses or answers nonsense, and recovers.
UpstreamFlaps ==
    /\ Proxied /\ Change
    /\ up' = ~up
    /\ UNCHANGED <<tags, hasTags, upstream, repos, walk>>

-----------------------------------------------------------------------------
(* PaginateString.                                                         *)

\* A mutant: the entry that the page starts after is on the page.
FromLast(items, last) == {x \in items : last \notin items \/ x >= last}

\* What comes after last; everything when last is not in the list.
AfterLast(items, last) == {x \in items : last \notin items \/ x > last}

\* The first n.
FirstN(items, n) ==
    {x \in items : n < 0 \/ Cardinality({y \in items : y <= x}) <= n}

\* A mutant: the list is cut before what precedes last is removed.
PaginateCutFirst(items, last, n) == AfterLast(FirstN(items, n), last)

PaginateString(items, last, n) == FirstN(AfterLast(items, last), n)

-----------------------------------------------------------------------------
(* The lists.                                                              *)

\* TagsList of the cache: the tags upstream, else those of the file system,
\* which is an error (404) without a directory.
TagsList == IF Proxied /\ up THEN upstream ELSE tags

TagsListFails == ~(Proxied /\ up) /\ ~hasTags

\* RepositoriesList does not look for repositories below a repository.
RepositoriesList == {r \in repos : \A a \in repos : <<a, r>> \notin Nested}

\* What the handlers cut pages from.
Items(of) == IF of = "tags" THEN TagsList \intersect Visible ELSE RepositoriesList

-----------------------------------------------------------------------------
(* The client.                                                             *)

Start(of, n) ==
    /\ walk.st # "on"
    /\ walk' = NewWalk(of, n)
    /\ UNCHANGED <<tags, hasTags, upstream, up, repos, changes>>

\* A response.  The client asks for what follows its last entry, until a
\* page is empty or shorter than it asked for.
Respond(items) ==
    LET page == PaginateString(items, walk.last, walk.n) IN
    walk' = [walk EXCEPT
        !.page = page,
        !.seen = @ \union page,
        !.always = @ \intersect items,
        !.last = IF page = {} THEN @ ELSE CHOOSE x \in page : \A y \in page : y <= x,
        !.st = IF page = {} \/ walk.n < 0 \/ Cardinality(page) < walk.n
               THEN "done" ELSE "on"]

TagsPage ==
    /\ walk.st = "on" /\ walk.of = "tags"
    /\ IF TagsListFails THEN walk' = [walk EXCEPT !.st = "error"]
                        ELSE Respond(Items("tags"))
    /\ UNCHANGED <<tags, hasTags, upstream, up, repos, changes>>

\* Without a directory of repositories the list is empty, too.
CatalogPage ==
    /\ walk.st = "on" /\ walk.of = "catalog"
    /\ Respond(Items("catalog"))
    /\ UNCHANGED <<tags, hasTags, upstream, up, repos, changes>>

-----------------------------------------------------------------------------
Page == TagsPage \/ CatalogPage

Next ==
    \/ \E t \in Names : PushTag(t) \/ DeleteTag(t) \/ PushRepo(t)
    \/ \E S \in SUBSET Names : UpstreamChanges(S)
    \/ UpstreamFlaps
    \/ \E of \in {"tags", "catalog"}, n \in 1 .. Cardinality(Names) : Start(of, n)
    \/ \E of \in {"tags", "catalog"} : Start(of, NoLimit)
    \/ Page

Spec == Init /\ [][Next]_vars

\* Requests are served, and the client sends the next one.
FairSpec == Spec /\ WF_vars(Page)

-----------------------------------------------------------------------------
(* Properties.                                                             *)

TypeOK ==
    /\ tags \subseteq Names /\ upstream \subseteq Names /\ repos \subseteq Names
    /\ hasTags \in BOOLEAN /\ up \in BOOLEAN
    /\ tags # {} => hasTags
    /\ walk \in Walk
    /\ changes \in 0 .. MaxChanges

\* A walk that came to its end has seen every entry that was in all of the
\* lists its pages were cut from, whatever else came and went, also the
\* entry a page was to start after, and whichever of the upstream and the
\* file system answered (PaginateString).
WalkComplete == walk.st = "done" => walk.always \subseteq walk.seen

\* A page takes the walk on: it repeats nothing that came before the entry it
\* starts after, and the next one starts later, whatever changed since the
\* page before, unless that entry itself has gone (PaginateString).
PagesAdvance ==
    [][Page /\ walk'.st # "error" /\ walk.last \in Items(walk.of) =>
          /\ \A x \in walk'.page : walk.last < x
          /\ walk'.st = "on" => walk.last < walk'.last]_vars

\* When the lists stop changing, a walk ends: it does not go round in
\* circles (PaginateString).
WalkEnds == walk.st = "on" ~> walk.st # "on"

=============================================================================
