---------------------------- MODULE ListingProofs ----------------------------
(***************************************************************************)
(* Proofs about Listing: what PaginateString returns, type correctness,    *)
(* that a walk through the pages misses nothing, and that its pages take   *)
(* it on.                                                                  *)
(***************************************************************************)
EXTENDS Listing, FiniteSetTheorems, WellFoundedInduction, TLAPS

-----------------------------------------------------------------------------
(* Finite sets of numbers.                                                 *)

\* A set of numbers that is not empty has a least one.
LEMMA LeastNumber ==
    ASSUME NEW S \in SUBSET Nat, S # {}
    PROVE  \E x \in S : \A y \in S : x <= y
<1> DEFINE R == OpToRel(<, Nat)
<1>1. IsWellFoundedOn(R, Nat)
  BY NatLessThanWellFounded
<1> HIDE DEF R
<1>2. PICK x \in S : \A y \in S : ~(<<y, x>> \in R)
  BY <1>1, WFMin
<1>3. \A y \in S : ~(y < x)
  BY <1>2 DEF R, OpToRel
<1> QED
  BY <1>3

\* A finite one has a greatest one.
LEMMA GreatestNumber ==
    ASSUME NEW S \in SUBSET Nat, S # {}, IsFiniteSet(S)
    PROVE  \E x \in S : \A y \in S : y <= x
<1> DEFINE Greatest(F) == \E x \in F : \A y \in F : y <= x
           Bad == {F \in SUBSET S : F # {} /\ ~Greatest(F)}
           Sizes == {Cardinality(F) : F \in Bad}
<1>1. \A F \in SUBSET S : IsFiniteSet(F) /\ Cardinality(F) \in Nat
  BY FS_Subset, FS_CardinalityType
<1>2. Bad = {}
  <2> SUFFICES ASSUME Bad # {} PROVE FALSE
    OBVIOUS
  <2>1. Sizes \in SUBSET Nat /\ Sizes # {}
    BY <1>1
  <2>2. PICK k \in Sizes : \A j \in Sizes : k <= j
    BY <2>1, LeastNumber
  <2>3. PICK F \in Bad : Cardinality(F) = k
    BY <2>2
  <2>4. PICK x \in F : TRUE
    BY <2>3
  <2> DEFINE G == F \ {x}
  <2>5. Cardinality(G) = k - 1 /\ k \in Nat
    <3>1. IsFiniteSet(F) /\ Cardinality(F) \in Nat
      BY <1>1, <2>3
    <3>2. Cardinality(G) = Cardinality(F) - 1
      BY <2>4, <3>1, FS_RemoveElement
    <3> QED
      BY <2>3, <3>1, <3>2
  <2>6. G \notin Bad
    <3> SUFFICES ASSUME G \in Bad PROVE FALSE
      OBVIOUS
    <3>1. Cardinality(G) \in Sizes
      OBVIOUS
    <3> HIDE DEF Sizes, G
    <3> QED
      BY <2>2, <2>5, <3>1
  <2>7. CASE G = {}
    BY <2>3, <2>4, <2>7
  <2>8. CASE Greatest(G)
    <3>1. PICK m \in G : \A y \in G : y <= m
      BY <2>8
    <3>2. m \in Nat /\ x \in Nat /\ m \in F
      BY <2>3, <2>4, <3>1
    <3>3. CASE x <= m
      BY <2>3, <3>1, <3>2, <3>3
    <3>4. CASE m <= x
      <4>1. \A y \in F : y <= x
        BY <2>3, <3>1, <3>2, <3>4
      <4> QED
        BY <2>3, <2>4, <4>1
    <3> QED
      BY <3>2, <3>3, <3>4
  <2> QED
    BY <2>3, <2>6, <2>7, <2>8
<1> QED
  BY <1>2

-----------------------------------------------------------------------------
(* PaginateString.                                                         *)

Finite(S) == S \subseteq Nat /\ IsFiniteSet(S)

LEMMA FirstNSubset ==
    ASSUME NEW A, NEW n
    PROVE  FirstN(A, n) \subseteq A
BY DEF FirstN

\* What precedes a member of the first n is one of them.
LEMMA FirstNDownward ==
    ASSUME NEW A, Finite(A), NEW n \in Int, NEW x \in FirstN(A, n),
           NEW y \in A, y <= x
    PROVE  y \in FirstN(A, n)
<1> DEFINE Upto(z) == {w \in A : w <= z}
<1>1. CASE n < 0
  BY <1>1 DEF FirstN
<1>2. CASE ~(n < 0)
  <2>1. x \in Nat /\ y \in Nat /\ A \subseteq Nat
    BY FirstNSubset DEF Finite
  <2>2. Upto(y) \in SUBSET Upto(x)
    <3> SUFFICES ASSUME NEW w \in A, w <= y
                 PROVE  w <= x
      OBVIOUS
    <3>1. w \in Nat
      BY <2>1
    <3> QED
      BY <2>1, <3>1
  <2>5. Cardinality(Upto(x)) <= n
    BY <1>2 DEF FirstN
  <2> HIDE DEF Upto
  <2>3. Upto(x) \in SUBSET A /\ Upto(y) \in SUBSET A
    BY DEF Upto
  <2>4. IsFiniteSet(Upto(x)) /\ IsFiniteSet(Upto(y))
    BY <2>3, FS_Subset DEF Finite
  <2>6. /\ Cardinality(Upto(y)) <= Cardinality(Upto(x))
        /\ Cardinality(Upto(x)) \in Nat /\ Cardinality(Upto(y)) \in Nat
    BY <2>2, <2>4, FS_Subset, FS_CardinalityType
  <2>7. Cardinality(Upto(y)) <= n
    BY <2>5, <2>6
  <2> QED
    BY <2>7 DEF FirstN, Upto
<1> QED
  BY <1>1, <1>2

\* Less than n of them are all there are.
LEMMA FirstNShort ==
    ASSUME NEW A, Finite(A), NEW n \in Int,
           n < 0 \/ Cardinality(FirstN(A, n)) < n
    PROVE  FirstN(A, n) = A
<1>1. CASE n < 0
  BY <1>1 DEF FirstN
<1>2. CASE ~(n < 0) /\ Cardinality(FirstN(A, n)) < n
  <2> DEFINE F == FirstN(A, n)
             Upto(z) == {w \in A : w <= z}
  <2> SUFFICES ASSUME A \ F # {} PROVE FALSE
    BY FirstNSubset
  <2>1. PICK x \in A \ F : \A y \in A \ F : x <= y
    BY LeastNumber DEF Finite
  <2>2. IsFiniteSet(F) /\ Cardinality(F) \in Nat
    BY FirstNSubset, FS_Subset, FS_CardinalityType DEF Finite
  <2>3. IsFiniteSet(F \union {x}) /\ Cardinality(F \union {x}) = Cardinality(F) + 1
    BY <2>1, <2>2, FS_AddElement
  <2>4. Upto(x) \in SUBSET (F \union {x})
    <3> SUFFICES ASSUME NEW w \in A, w <= x, w \notin F
                 PROVE  w = x
      OBVIOUS
    <3> HIDE DEF F
    <3>1. x <= w /\ w \in Nat /\ x \in Nat
      BY <2>1 DEF Finite
    <3> QED
      BY <3>1
  <2>5. Cardinality(Upto(x)) <= Cardinality(F) + 1 /\ Cardinality(Upto(x)) \in Nat
    BY <2>3, <2>4, FS_Subset, FS_CardinalityType
  <2>6. Cardinality(Upto(x)) <= n
    BY <1>2, <2>2, <2>5
  <2>7. x \in F
    BY <2>1, <2>6 DEF FirstN
  <2> QED
    BY <2>1, <2>7
<1> QED
  BY <1>1, <1>2

-----------------------------------------------------------------------------
(* A walk.                                                                 *)

\* What is owed up to where the walk got has been seen.
WalkInv ==
    /\ TypeOK
    /\ walk.n # 0
    /\ walk.st = "on" => \A x \in walk.always : x <= walk.last => x \in walk.seen
    /\ WalkComplete

\* The part of it that is about the walk.
WalkFine ==
    /\ walk \in Walk
    /\ walk.n # 0
    /\ walk.st = "on" => \A x \in walk.always : x <= walk.last => x \in walk.seen
    /\ WalkComplete

\* A walk that begins owes nothing up to where it got.
LEMMA NewWalkFine ==
    ASSUME NEW of \in {"tags", "catalog"}, NEW n \in Nat \union {NoLimit}, n # 0
    PROVE  /\ NewWalk(of, n) \in Walk
           /\ \A x \in Names : ~(x <= NoLast)
BY ListingConstants DEF NewWalk, Walk, NoLast, NoLimit

\* Where a walk got, and what it owes, are numbers.
LEMMA WalkNumbers ==
    ASSUME NEW w \in Walk
    PROVE  w.last \in Int /\ \A x \in w.always : x \in Nat
<1>1. NoLast \in Int
  BY DEF NoLast
<1>2. \A x \in Names : x \in Nat /\ x \in Int
  BY ListingConstants
<1>3. (w.last \in Names \/ w.last = NoLast) /\ \A x \in w.always : x \in Names
  BY DEF Walk
<1> QED
  BY <1>1, <1>2, <1>3

\* A response takes the walk on, or ends it with all it owed.
LEMMA RespondStep ==
    ASSUME WalkInv, walk.st = "on", NEW items \in SUBSET Names, Respond(items)
    PROVE  WalkFine'
<1> DEFINE after == AfterLast(items, walk.last)
           page == PaginateString(items, walk.last, walk.n)
           last == IF page = {} THEN walk.last
                   ELSE CHOOSE x \in page : \A y \in page : y <= x
           st == IF page = {} \/ walk.n < 0 \/ Cardinality(page) < walk.n
                 THEN "done" ELSE "on"
<1>0. /\ walk \in Walk /\ walk.n \in Int /\ walk.n # 0
      /\ walk.last \in Names \union {NoLast} /\ walk.seen \subseteq Names
      /\ walk.always \subseteq Names
      /\ Names \subseteq Nat /\ NoLast \in Int
  BY ListingConstants DEF WalkInv, TypeOK, Walk, NoLast, NoLimit
<1>i. walk.last \in Int /\ \A x \in walk.always : x \in Nat
  BY <1>0, WalkNumbers
<1>1. after \subseteq items /\ Finite(after)
  <2>1. after \in SUBSET Names
    BY DEF AfterLast
  <2> QED
    BY <2>1, ListingConstants, FS_Subset DEF AfterLast, Finite
<1>2. page = FirstN(after, walk.n)
  BY DEF PaginateString
<1>3. page \subseteq after /\ page \subseteq Names /\ IsFiniteSet(page)
  <2>1. page \in SUBSET after
    BY <1>2, FirstNSubset
  <2> QED
    BY <1>1, <2>1, FS_Subset DEF Finite
<1>4. page # {} => last \in page
  <2> SUFFICES ASSUME page # {} PROVE last \in page
    OBVIOUS
  <2> HIDE DEF page
  <2>1. \E x \in page : \A y \in page : y <= x
    BY <1>0, <1>3, GreatestNumber
  <2> QED
    BY <2>1
<1>5. walk' = [walk EXCEPT !.page = page, !.seen = @ \union page,
                           !.always = @ \intersect items,
                           !.last = last, !.st = st]
  BY DEF Respond
<1>6. \A x \in items : walk.last < x => x \in after
  BY DEF AfterLast
<1>7. st = "done" => page = after
  <2> SUFFICES ASSUME st = "done" PROVE page = after
    OBVIOUS
  <2>1. CASE walk.n < 0 \/ Cardinality(page) < walk.n
    BY <1>0, <1>1, <1>2, <2>1, FirstNShort
  <2>2. CASE page = {} /\ ~(walk.n < 0)
    <3>1. Cardinality(page) = 0
      BY <2>2, FS_EmptySet
    <3> HIDE DEF page
    <3>2. Cardinality(page) < walk.n
      BY <1>0, <2>2, <3>1
    <3> QED
      BY <1>0, <1>1, <1>2, <3>2, FirstNShort
  <2> QED
    BY <2>1, <2>2
<1>8. st = "on" => page # {}
  OBVIOUS
<1>9. st \in {"done", "on"}
  OBVIOUS
<1>10. \A x \in items : st = "on" /\ walk.last < x /\ x <= last => x \in page
  <2> SUFFICES ASSUME NEW x \in items, st = "on", walk.last < x, x <= last
               PROVE  x \in page
    OBVIOUS
  <2>1. x \in after /\ last \in page
    BY <1>4, <1>6, <1>8
  <2> HIDE DEF after, last, page
  <2> QED
    BY <1>0, <1>1, <1>2, <2>1, FirstNDownward
<1> HIDE DEF after, page, last, st
<1>11. last \in Names \union {NoLast}
  BY <1>0, <1>3, <1>4 DEF last
<1>12. walk' \in Walk
  BY <1>0, <1>3, <1>5, <1>9, <1>11 DEF Walk
<1>13. /\ walk'.n = walk.n /\ walk'.st = st /\ walk'.last = last
       /\ walk'.seen = walk.seen \union page
       /\ walk'.always = walk.always \intersect items
  BY <1>0, <1>5 DEF Walk
<1>14. \A x \in walk.always : x <= walk.last => x \in walk.seen
  BY DEF WalkInv
<1>15. \A x \in walk'.always : walk'.st = "on" /\ x <= walk'.last => x \in walk'.seen
  <2> SUFFICES ASSUME NEW x \in walk.always, x \in items, st = "on", x <= last
               PROVE  x \in walk.seen \union page
    BY <1>13
  <2>1. x \in Nat /\ walk.last \in Int
    BY <1>i
  <2>2. CASE x <= walk.last
    BY <1>14, <2>2
  <2>3. CASE walk.last < x
    BY <1>10, <2>3
  <2> QED
    BY <2>1, <2>2, <2>3
<1>16. \A x \in walk'.always : walk'.st = "done" => x \in walk'.seen
  <2> SUFFICES ASSUME NEW x \in walk.always, x \in items, st = "done"
               PROVE  x \in walk.seen \union page
    BY <1>13
  <2>1. x \in Nat /\ walk.last \in Int
    BY <1>i
  <2>2. CASE x <= walk.last
    BY <1>14, <2>2
  <2>3. CASE walk.last < x
    BY <1>6, <1>7, <2>3
  <2> QED
    BY <2>1, <2>2, <2>3
<1> QED
  BY <1>0, <1>12, <1>13, <1>15, <1>16 DEF WalkFine, WalkComplete

LEMMA ItemsType ==
    ASSUME TypeOK, NEW of \in {"tags", "catalog"}
    PROVE  Items(of) \in SUBSET Names
BY ListingConstants DEF TypeOK, Items, TagsList, RepositoriesList

LEMMA WalkInvInit == Init => WalkInv
<1> SUFFICES ASSUME Init PROVE WalkInv
  OBVIOUS
<1>1. walk \in Walk /\ walk.st = "off" /\ walk.n # 0
  BY DEF Init, NewWalk, Walk, NoLimit, NoLast
<1>2. tags \subseteq Names /\ upstream \subseteq Names /\ repos \subseteq Names
  BY DEF Init
<1>3. changes \in 0 .. MaxChanges
  BY ListingConstants DEF Init
<1> QED
  BY <1>1, <1>2, <1>3 DEF Init, WalkInv, TypeOK, WalkComplete

LEMMA WalkInvStep == WalkInv /\ [Next]_vars => WalkInv'
<1> SUFFICES ASSUME WalkInv, [Next]_vars PROVE WalkInv'
  OBVIOUS
<1>1. CASE UNCHANGED vars
  BY <1>1 DEF vars, WalkInv, TypeOK, WalkComplete
\* The lists change, the walk does not.
<1>2. ASSUME UNCHANGED walk PROVE WalkFine'
  BY <1>2 DEF WalkInv, WalkFine, WalkComplete, TypeOK
<1>c. ASSUME Change PROVE changes' \in 0 .. MaxChanges
  BY <1>c, ListingConstants DEF Change, WalkInv, TypeOK
\* The client acts, the lists stay.
<1>3. ASSUME UNCHANGED <<tags, hasTags, upstream, up, repos, changes>>, WalkFine'
      PROVE  WalkInv'
  BY <1>3 DEF WalkInv, WalkFine, TypeOK
<1>4. ASSUME NEW of \in {"tags", "catalog"}, NEW n \in Nat \union {NoLimit}, n # 0,
             Start(of, n)
      PROVE  WalkInv'
  <2>1. walk' = NewWalk(of, n)
    BY <1>4 DEF Start
  <2>2. /\ walk'.st = "on" /\ walk'.n = n /\ walk'.last = NoLast
        /\ walk'.always = Names
    BY <2>1 DEF NewWalk
  <2>3. WalkFine'
    BY <1>4, <2>1, <2>2, NewWalkFine DEF WalkFine, WalkComplete
  <2> QED
    BY <1>3, <1>4, <2>3 DEF Start
<1>5. CASE TagsPage
  <2>1. CASE TagsListFails
    <3>1. walk' = [walk EXCEPT !.st = "error"]
      BY <1>5, <2>1 DEF TagsPage
    <3>2. walk' \in Walk /\ walk'.st = "error" /\ walk'.n = walk.n
      BY <3>1 DEF WalkInv, TypeOK, Walk
    <3>3. WalkFine'
      BY <3>2 DEF WalkInv, WalkFine, WalkComplete
    <3> QED
      BY <1>3, <1>5, <3>3 DEF TagsPage
  <2>2. CASE ~TagsListFails
    <3>1. Items("tags") \in SUBSET Names
      BY ItemsType DEF WalkInv
    <3>2. walk.st = "on" /\ Respond(Items("tags"))
      BY <1>5, <2>2 DEF TagsPage
    <3>3. WalkFine'
      BY <3>1, <3>2, RespondStep
    <3> QED
      BY <1>3, <1>5, <3>3 DEF TagsPage
  <2> QED
    BY <2>1, <2>2
<1>6. CASE CatalogPage
  <2>1. Items("catalog") \in SUBSET Names
    BY ItemsType DEF WalkInv
  <2>2. walk.st = "on" /\ Respond(Items("catalog"))
    BY <1>6 DEF CatalogPage
  <2>3. WalkFine'
    BY <2>1, <2>2, RespondStep
  <2> QED
    BY <1>3, <1>6, <2>3 DEF CatalogPage
<1>7. ASSUME NEW t \in Names, PushTag(t) \/ DeleteTag(t) \/ PushRepo(t)
      PROVE  WalkInv'
  BY <1>2, <1>7, <1>c DEF PushTag, DeleteTag, PushRepo, WalkInv, WalkFine, TypeOK
<1>8. ASSUME NEW S \in SUBSET Names, UpstreamChanges(S)
      PROVE  WalkInv'
  BY <1>2, <1>8, <1>c DEF UpstreamChanges, WalkInv, WalkFine, TypeOK
<1>9. CASE UpstreamFlaps
  BY <1>2, <1>9, <1>c DEF UpstreamFlaps, WalkInv, WalkFine, TypeOK
<1>10. \A n \in 1 .. Cardinality(Names) : n \in Nat /\ n # 0
  BY FS_CardinalityType, ListingConstants
<1>11. NoLimit # 0
  BY DEF NoLimit
<1> QED
  BY <1>1, <1>4, <1>5, <1>6, <1>7, <1>8, <1>9, <1>10, <1>11 DEF Next, Page

\* The type invariant holds for any names and any number of changes.
THEOREM ListingTypeCorrect == Spec => []TypeOK
<1>1. WalkInv => TypeOK
  BY DEF WalkInv
<1> QED
  BY <1>1, WalkInvInit, WalkInvStep, PTL DEF Spec

\* However the lists change between its pages, a walk that came to its end
\* missed no entry that was in all of them (PaginateString).
THEOREM WalksMissNothing == Spec => []WalkComplete
<1>1. WalkInv => WalkComplete
  BY DEF WalkInv
<1> QED
  BY <1>1, WalkInvInit, WalkInvStep, PTL DEF Spec

\* What a response that follows an entry of the list holds comes after it.
LEMMA RespondAdvances ==
    ASSUME walk \in Walk, NEW items \in SUBSET Names, walk.last \in items,
           Respond(items)
    PROVE  /\ \A x \in walk'.page : walk.last < x
           /\ walk'.st = "on" => walk.last < walk'.last
<1> DEFINE page == PaginateString(items, walk.last, walk.n)
           last == IF page = {} THEN walk.last
                   ELSE CHOOSE x \in page : \A y \in page : y <= x
<1>1. page \subseteq AfterLast(items, walk.last)
  BY FirstNSubset DEF PaginateString
<1>2. \A x \in page : x \in items /\ walk.last < x
  BY <1>1 DEF AfterLast
<1>3. /\ walk'.page = page /\ walk'.last = last
      /\ walk'.st = "on" => page # {}
  BY DEF Respond, Walk
<1>4. page # {} => last \in page
  <2> SUFFICES ASSUME page # {} PROVE last \in page
    OBVIOUS
  <2>1. page \in SUBSET Nat /\ IsFiniteSet(page)
    BY <1>2, ListingConstants, FS_Subset
  <2> HIDE DEF page
  <2>2. \E x \in page : \A y \in page : y <= x
    BY <2>1, GreatestNumber
  <2> QED
    BY <2>2
<1> HIDE DEF page, last
<1> QED
  BY <1>2, <1>3, <1>4

\* However the lists change, a page that starts after an entry which is still
\* there repeats nothing up to it and takes the walk on (PaginateString).
THEOREM WalksAdvance == Spec => PagesAdvance
<1>1. WalkInv /\ [Next]_vars =>
        [Page /\ walk'.st # "error" /\ walk.last \in Items(walk.of) =>
            /\ \A x \in walk'.page : walk.last < x
            /\ walk'.st = "on" => walk.last < walk'.last]_vars
  <2> SUFFICES ASSUME WalkInv, Page, walk'.st # "error", walk.last \in Items(walk.of)
               PROVE  /\ \A x \in walk'.page : walk.last < x
                      /\ walk'.st = "on" => walk.last < walk'.last
    OBVIOUS
  <2>1. walk \in Walk /\ walk.of \in {"tags", "catalog"}
    BY DEF WalkInv, TypeOK, Walk
  <2>2. TagsPage => ~TagsListFails
    BY <2>1 DEF TagsPage, Walk
  <2>3. Respond(Items(walk.of))
    BY <2>2 DEF Page, TagsPage, CatalogPage
  <2>4. Items(walk.of) \in SUBSET Names
    BY <2>1, ItemsType DEF WalkInv
  <2> QED
    BY <2>1, <2>3, <2>4, RespondAdvances
<1> QED
  BY <1>1, WalkInvInit, WalkInvStep, PTL DEF Spec, PagesAdvance

=============================================================================
