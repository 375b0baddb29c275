-------------------------- MODULE PaginationProofs --------------------------
(***************************************************************************)
(* Theorems about Pagination: for any rows, creation times and page sizes  *)
(* a walk delivers in order, and completely.                               *)
(***************************************************************************)
EXTENDS Pagination, FiniteSetTheorems, WellFoundedInduction, TLAPS

-----------------------------------------------------------------------------
(* The order of the rows, and what Head and Take return.                   *)

\* CreatedAt with the id as tie-breaker is a strict total order, and so is its
\* reverse.
LEMMA Order ==
  ASSUME NEW up \in BOOLEAN, NEW i \in Ids, NEW j \in Ids, NEW k \in Ids
  PROVE  /\ ~ Precedes(up, i, i)
         /\ Precedes(up, i, j) /\ Precedes(up, j, k) => Precedes(up, i, k)
         /\ i # j => Precedes(up, i, j) \/ Precedes(up, j, i)
         /\ Precedes(up, i, j) => ~ Precedes(up, j, i)
         /\ Precedes(~ up, i, j) <=> Precedes(up, j, i)
BY PageAssumption DEF Precedes, Before

\* Some rows, however many, have a first one: among the finite sets of a row's
\* predecessors one has no other below it.
LEMMA Least ==
  ASSUME NEW S \in SUBSET Ids, S # {}, NEW up \in BOOLEAN
  PROVE  \E x \in S : \A j \in S \ {x} : Precedes(up, x, j)
<1> DEFINE below(i) == {j \in S : Precedes(up, j, i)}
           R        == StrictSubsetOrdering(Ids)
           T        == {below(i) : i \in S}
<1>1. T \subseteq FiniteSubsetsOf(Ids) /\ T # {}
  <2>1. \A i \in S : below(i) \in SUBSET Ids
    OBVIOUS
  <2>2. \A U \in SUBSET Ids : IsFiniteSet(U)
    BY PageAssumption, FS_Subset
  <2> QED  BY <2>1, <2>2 DEF FiniteSubsetsOf
<1>2. IsWellFoundedOn(R, FiniteSubsetsOf(Ids))
  BY FS_StrictSubsetOrderingWellFounded
<1>3. PICK B \in T : \A C \in T : ~ (<<C, B>> \in R)
  <2> HIDE DEF T, R
  <2> QED  BY <1>1, <1>2, WFMin
<1>4. PICK x \in S : B = below(x)
  OBVIOUS
<1>5. ASSUME NEW j \in S, Precedes(up, j, x)
      PROVE  FALSE
  <2>1. below(j) \subseteq below(x)
    BY <1>5, Order
  <2>2. j \in below(x) /\ j \notin below(j)
    BY <1>5, Order
  <2>3. <<below(j), below(x)>> \in R
    BY <2>1, <2>2 DEF StrictSubsetOrdering
  <2> QED  BY <2>3, <1>3, <1>4
<1> QED  BY <1>5, Order

\* Head returns the first of some rows.
LEMMA HeadIsFirst ==
  ASSUME NEW S \in SUBSET Ids, S # {}, NEW up \in BOOLEAN
  PROVE  /\ Head(S, up) \in S
         /\ \A j \in S \ {Head(S, up)} : Precedes(up, Head(S, up), j)
BY Least DEF Head

\* LIMIT returns rows without a gap: whatever comes before one of them is one too.
LEMMA TakeIsInitial ==
  ASSUME NEW S \in SUBSET Ids, NEW up \in BOOLEAN, NEW n \in Nat,
         NEW j \in Take(S, up, n), NEW i \in S, Precedes(up, i, j)
  PROVE  i \in Take(S, up, n)
<1> DEFINE below(k) == {l \in S : Precedes(up, l, k)}
<1>1. below(i) \subseteq below(j)
  BY Order DEF Take
<1>2. IsFiniteSet(below(j))
  BY PageAssumption, FS_Subset
<1>3. Cardinality(below(i)) <= Cardinality(below(j)) /\ Cardinality(below(i)) \in Nat
      /\ Cardinality(below(j)) \in Nat
  BY <1>1, <1>2, FS_Subset, FS_CardinalityType
<1>4. Cardinality(below(j)) < n
  BY DEF Take
<1>5. Cardinality(below(i)) < n
  BY <1>3, <1>4
<1> QED  BY <1>5 DEF Take

\* LIMIT n + 1 that returns at most n rows returns them all: the first row it
\* leaves out would come after n + 1 rows that it returns.
LEMMA TakeIsAll ==
  ASSUME NEW S \in SUBSET Ids, NEW up \in BOOLEAN, NEW n \in Nat,
         Cardinality(Take(S, up, n + 1)) <= n
  PROVE  Take(S, up, n + 1) = S
<1> DEFINE read == Take(S, up, n + 1)
           rest == S \ read
<1>1. SUFFICES ASSUME rest # {} PROVE FALSE
  BY DEF Take
<1>2. PICK x \in rest : \A j \in rest \ {x} : Precedes(up, x, j)
  <2>1. rest \in SUBSET Ids
    OBVIOUS
  <2> HIDE DEF rest
  <2> QED  BY <1>1, <2>1, Least
<1> DEFINE below == {j \in S : Precedes(up, j, x)}
<1>3. below \subseteq read
  BY <1>2, Order
<1>4. IsFiniteSet(read) /\ IsFiniteSet(below)
  <2>1. read \in SUBSET Ids /\ below \in SUBSET Ids
    BY DEF Take
  <2> QED  BY <2>1, PageAssumption, FS_Subset
<1>5. Cardinality(below) <= Cardinality(read) /\ Cardinality(below) \in Nat
      /\ Cardinality(read) \in Nat
  BY <1>3, <1>4, FS_Subset, FS_CardinalityType
<1>6. ~ (Cardinality(below) < n + 1)
  BY <1>2 DEF Take
<1> QED  BY <1>5, <1>6

\* LIMIT n with n > 0 returns some row if there is one.
LEMMA TakeIsSome ==
  ASSUME NEW S \in SUBSET Ids, S # {}, NEW up \in BOOLEAN, NEW n \in Nat \ {0}
  PROVE  Take(S, up, n) # {}
<1>1. PICK x \in S : \A j \in S \ {x} : Precedes(up, x, j)
  BY Least
<1>2. {j \in S : Precedes(up, j, x)} = {}
  BY <1>1, Order
<1>3. Cardinality({j \in S : Precedes(up, j, x)}) = 0
  BY <1>2, FS_EmptySet
<1> QED  BY <1>3 DEF Take

-----------------------------------------------------------------------------
(* A page.                                                                 *)

\* The page p was cut from the rows M in the direction up: it leaves no gap, its
\* cursors are its ends, and it says truly whether it leaves rows out.
IsPage(p, M, up) ==
  LET far == IF up THEN p.endCursor ELSE p.startCursor IN
  /\ p \in [items : SUBSET Ids, startCursor : Ids \cup {Blank},
            endCursor : Ids \cup {Blank}, hasNext : BOOLEAN, hasPrevious : BOOLEAN]
  /\ p.items \subseteq M
  /\ {p.startCursor, p.endCursor} \subseteq (IF p.items = {} THEN {Blank} ELSE p.items)
  /\ \A i \in p.items : i = far \/ Precedes(up, i, far)
  /\ \A i \in M \ p.items : p.items # {} /\ Precedes(up, far, i)
  /\ ~ (IF up THEN p.hasNext ELSE p.hasPrevious) => p.items = M

\* The items of a page of n rows.
Items(M, up, n) ==
  IF Cardinality(Take(M, up, n + 1)) > n THEN Take(Take(M, up, n + 1), up, n)
                                         ELSE Take(M, up, n + 1)

\* The items are rows that match; unless they are all of them, what is left
\* comes after some item and before none.
LEMMA ItemsAreFirst ==
  ASSUME NEW M \in SUBSET Ids, NEW up \in BOOLEAN, NEW n \in Nat \ {0}
  PROVE  /\ Items(M, up, n) \subseteq M
         /\ ~ (Cardinality(Take(M, up, n + 1)) > n) => Items(M, up, n) = M
         /\ Items(M, up, n) # M => Items(M, up, n) # {}
         /\ \A i \in M \ Items(M, up, n), j \in Items(M, up, n) : ~ Precedes(up, i, j)
<1> DEFINE read == Take(M, up, n + 1)
           items == Items(M, up, n)
<1>1. read \in SUBSET Ids /\ read \subseteq M
  BY DEF Take
<1>2. Cardinality(read) \in Nat
  BY <1>1, PageAssumption, FS_Subset, FS_CardinalityType
<1>3. CASE ~ (Cardinality(read) > n)
  <2>1. read = M
    <3>1. Cardinality(read) <= n
      BY <1>2, <1>3
    <3> QED  BY <3>1, TakeIsAll
  <2>2. items = M
    BY <1>3, <2>1 DEF Items
  <2> QED  BY <2>2
<1>4. CASE Cardinality(read) > n
  <2>1. items = Take(read, up, n)
    BY <1>4 DEF Items
  <2>2. items \subseteq read
    BY <2>1 DEF Take
  <2>3. read # {}
    BY <1>4, FS_EmptySet
  <2>4. items # {}
    BY <2>1, <2>3, <1>1, TakeIsSome
  <2>5. ASSUME NEW i \in M, i \notin items, NEW j \in items, Precedes(up, i, j)
        PROVE  FALSE
    <3>1. i \in read
      BY <2>2, <2>5, TakeIsInitial
    <3>2. i \in Take(read, up, n)
      BY <3>1, <2>1, <2>5, <1>1, TakeIsInitial
    <3> QED  BY <3>2, <2>1, <2>5
  <2> QED  BY <1>1, <1>4, <2>2, <2>4, <2>5
<1> QED  BY <1>3, <1>4

\* A response with these items, in order, and the flag of its direction is a page.
LEMMA Served ==
  ASSUME NEW M \in SUBSET Ids, NEW up \in BOOLEAN, NEW n \in Nat \ {0},
         NEW next \in BOOLEAN, NEW previous \in BOOLEAN,
         (IF up THEN next ELSE previous) <=> Cardinality(Take(M, up, n + 1)) > n
  PROVE  IsPage(Response(Items(M, up, n), TRUE, next, previous), M, up)
<1> DEFINE items == Items(M, up, n)
           p     == Response(items, TRUE, next, previous)
           far   == IF up THEN p.endCursor ELSE p.startCursor
<1> SUFFICES IsPage(p, M, up)
  OBVIOUS
<1>1. items \in SUBSET Ids /\ items \subseteq M
  BY ItemsAreFirst
<1>2. p.items = items /\ p.hasNext = next /\ p.hasPrevious = previous
  BY DEF Response
<1>3. CASE items = {}
  <2>1. p = [items |-> {}, startCursor |-> Blank, endCursor |-> Blank,
             hasNext |-> next, hasPrevious |-> previous]
    BY <1>3 DEF Response
  <2>2. M = {}
    BY <1>3, ItemsAreFirst
  <2> HIDE DEF items, p
  <2>3. p \in [items : SUBSET Ids, startCursor : Ids \cup {Blank},
               endCursor : Ids \cup {Blank}, hasNext : BOOLEAN, hasPrevious : BOOLEAN]
    BY <2>1
  <2>4. p.items = {} /\ p.startCursor = Blank /\ p.endCursor = Blank
    BY <2>1
  <2> QED  BY <2>2, <2>3, <2>4 DEF IsPage
<1>4. CASE items # {}
  <2>1. p.startCursor = Head(items, TRUE) /\ p.endCursor = Head(items, FALSE)
    BY <1>4 DEF Response
  <2>2. far = Head(items, ~ up)
    BY <2>1
  <2>3. far \in items /\ \A i \in items : i = far \/ Precedes(up, i, far)
    <3> HIDE DEF items, far
    <3>1. far \in items /\ \A i \in items \ {far} : Precedes(~ up, far, i)
      <4>1. (~ up) \in BOOLEAN
        OBVIOUS
      <4> QED  BY <4>1, <2>2, <1>1, <1>4, HeadIsFirst
    <3> QED  BY <3>1, <1>1, Order
  <2>4. \A i \in M \ items : Precedes(up, far, i)
    <3> SUFFICES ASSUME NEW i \in M \ items PROVE Precedes(up, far, i)
      OBVIOUS
    <3>0. \A j \in items : ~ Precedes(up, i, j)
      BY ItemsAreFirst
    <3> HIDE DEF items, far
    <3>1. ~ Precedes(up, i, far) /\ i # far
      BY <2>3, <3>0
    <3> QED  BY <3>1, <2>3, <1>1, Order
  <2>5. {p.startCursor, p.endCursor} \subseteq items
    <3> HIDE DEF items
    <3> QED  BY <2>1, <1>1, <1>4, HeadIsFirst
  <2>6. p \in [items : SUBSET Ids, startCursor : Ids \cup {Blank},
               endCursor : Ids \cup {Blank}, hasNext : BOOLEAN, hasPrevious : BOOLEAN]
    <3>1. p = [items |-> items, startCursor |-> p.startCursor, endCursor |-> p.endCursor,
               hasNext |-> next, hasPrevious |-> previous]
      BY <1>4 DEF Response
    <3> HIDE DEF items, p
    <3> QED  BY <3>1, <2>5, <1>1
  <2>7. ~ (IF up THEN p.hasNext ELSE p.hasPrevious) => p.items = M
    BY <1>2, ItemsAreFirst
  <2> HIDE DEF items, p
  <2> QED  BY <1>1, <1>2, <1>4, <2>3, <2>4, <2>5, <2>6, <2>7 DEF IsPage
<1> QED  BY <1>3, <1>4

\* Math.Clamp leaves a size that is at least 1.
LEMMA ClampIsPositive ==
  ASSUME NEW first \in Sizes
  PROVE  Clamp(first) \in Nat \ {0}
BY PageAssumption DEF Clamp

\* Each request of the client is answered by a page of the rows it asked for.
LEMMA FirstPage ==
  ASSUME NEW first \in Sizes, NEW after \in {Blank, Garbled}, rows \subseteq Ids
  PROVE  IsPage(GetPaged(first, after, Blank), rows, TRUE)
<1> DEFINE n    == Clamp(first)
           more == Cardinality(Take(rows, TRUE, n + 1)) > n
           next == Blank = Blank /\ more
           previous == after # Blank \/ (Blank # Blank /\ more)
<1>1. Ascends(after, Blank) = TRUE /\ Matching(after, Blank) = rows /\ Listed(after, Blank) = TRUE
  BY PageAssumption DEF Ascends, Matching, Listed
<1>2. GetPaged(first, after, Blank) = Response(Items(rows, TRUE, n), TRUE, next, previous)
  BY <1>1 DEF GetPaged, Items
<1> QED  BY <1>2, Served, ClampIsPositive

LEMMA NextPage ==
  ASSUME NEW first \in Sizes, NEW c \in Ids, rows \subseteq Ids
  PROVE  IsPage(GetPaged(first, c, Blank), Beyond(rows, TRUE, c), TRUE)
<1> DEFINE n    == Clamp(first)
           M    == Beyond(rows, TRUE, c)
           more == Cardinality(Take(M, TRUE, n + 1)) > n
           next == Blank = Blank /\ more
           previous == c # Blank \/ (Blank # Blank /\ more)
<1>1. Ascends(c, Blank) = TRUE /\ Matching(c, Blank) = M /\ Listed(c, Blank) = TRUE
      /\ c # Blank
  BY PageAssumption DEF Ascends, Matching, Listed
<1>2. GetPaged(first, c, Blank) = Response(Items(M, TRUE, n), TRUE, next, previous)
  BY <1>1 DEF GetPaged, Items
<1>3. M \in SUBSET Ids
  BY DEF Beyond
<1>4. n \in Nat \ {0} /\ next \in BOOLEAN /\ previous \in BOOLEAN
  BY ClampIsPositive
<1> QED  BY <1>1, <1>2, <1>3, <1>4, Served

LEMMA PreviousPage ==
  ASSUME NEW first \in Sizes, NEW c \in Ids, rows \subseteq Ids
  PROVE  IsPage(GetPaged(first, Blank, c), Beyond(rows, FALSE, c), FALSE)
<1> DEFINE n    == Clamp(first)
           M    == Beyond(rows, FALSE, c)
           more == Cardinality(Take(M, FALSE, n + 1)) > n
           next == c = Blank /\ more
           previous == Blank # Blank \/ (c # Blank /\ more)
<1>1. Ascends(Blank, c) = FALSE /\ Matching(Blank, c) = M /\ Listed(Blank, c) = TRUE
      /\ c # Blank
  BY PageAssumption DEF Ascends, Matching, Listed
<1>2. GetPaged(first, Blank, c) = Response(Items(M, FALSE, n), TRUE, next, previous)
  BY <1>1 DEF GetPaged, Items
<1>3. M \in SUBSET Ids
  BY DEF Beyond
<1>4. n \in Nat \ {0} /\ next \in BOOLEAN /\ previous \in BOOLEAN
  BY ClampIsPositive
<1> QED  BY <1>1, <1>2, <1>3, <1>4, Served

-----------------------------------------------------------------------------
(* The walk.                                                               *)

\* What has been delivered lies behind the page's far end, and what was there
\* throughout and has not been delivered lies ahead of it.
Split ==
  LET up  == dir = "after"
      far == Edge(dir)
  IN /\ \A i \in delivered : far # Blank => i = far \/ Precedes(up, i, far)
     /\ \A i \in kept \ delivered : far # Blank /\ Precedes(up, far, i)

\* The inductive invariant.
WalkInv == TypeOK /\ Split /\ WalkComplete

\* The walk's invariant after a response: the page of what the table has in the
\* walk's direction is delivered, after things that lie behind it.
LEMMA PageServed ==
  ASSUME NEW d \in {"after", "before"}, NEW M \in SUBSET rows,
         NEW old \in SUBSET Ids,
         rows \subseteq used, used \subseteq Ids,
         IsPage(page', M, d = "after"), dir' = d,
         delivered' = old \cup page'.items,
         \A i \in old, j \in M : Precedes(d = "after", i, j),
         kept' \subseteq rows, kept' \subseteq old \cup M,
         UNCHANGED tableVars
  PROVE  WalkInv'
<1> DEFINE up == d = "after"
           far == IF up THEN page'.endCursor ELSE page'.startCursor
<1>1. TypeOK'
  BY DEF TypeOK, IsPage, tableVars
<1>2. Edge(dir)' = far
  BY DEF Edge, End
<1>3. \A i \in delivered' : far # Blank => i = far \/ Precedes(up, i, far)
  <2> SUFFICES ASSUME NEW i \in delivered', far # Blank
               PROVE  i = far \/ Precedes(up, i, far)
    OBVIOUS
  <2>1. CASE i \in page'.items
    BY <2>1 DEF IsPage
  <2>2. CASE i \in old
    <3>1. far \in M
      BY DEF IsPage
    <3> QED  BY <3>1, <2>2
  <2> QED  BY <2>1, <2>2
<1>4. \A i \in kept' \ delivered' : far # Blank /\ Precedes(up, far, i)
  <2> SUFFICES ASSUME NEW i \in M \ page'.items
               PROVE  far # Blank /\ Precedes(up, far, i)
    OBVIOUS
  <2>1. far \in page'.items /\ Precedes(up, far, i)
    BY DEF IsPage
  <2>2. page'.items \subseteq Ids
    BY DEF IsPage
  <2> QED  BY <2>1, <2>2, PageAssumption
<1>5. WalkComplete'
  BY DEF WalkComplete, Over, HasMore, IsPage
<1>6. Split'
  BY <1>2, <1>3, <1>4 DEF Split
<1> QED  BY <1>1, <1>5, <1>6 DEF WalkInv

\* A page that the client goes on to lies beyond what was delivered, and what is
\* left of the walk is among the rows it is cut from.
LEMMA GoingOn ==
  ASSUME TypeOK, Split, Edge(dir) # Blank
  PROVE  LET M == Beyond(rows, dir = "after", Edge(dir)) IN
         /\ Edge(dir) \in Ids
         /\ \A i \in delivered, j \in M : Precedes(dir = "after", i, j)
         /\ kept \subseteq delivered \cup M
<1> DEFINE up == dir = "after"
           far == Edge(dir)
<1>1. far \in Ids /\ up \in BOOLEAN /\ rows \subseteq Ids
  BY DEF TypeOK, Edge, End
<1>2. \A i \in delivered : i = far \/ Precedes(up, i, far)
  BY DEF Split
<1>3. \A i \in kept \ delivered : Precedes(up, far, i)
  BY DEF Split
<1>4. kept \subseteq rows /\ delivered \subseteq Ids
  BY DEF TypeOK
<1> HIDE DEF up, far
<1>5. \A i \in delivered, j \in Beyond(rows, up, far) : Precedes(up, i, j)
  BY <1>1, <1>2, <1>4, Order DEF Beyond
<1>6. kept \subseteq delivered \cup Beyond(rows, up, far)
  BY <1>3, <1>4 DEF Beyond
<1> QED  BY <1>1, <1>5, <1>6 DEF up, far

\* The initial states, and the steps of the table and of the client.
LEMMA InitWalks ==
  ASSUME Init
  PROVE  WalkInv
<1>1. page = [items |-> {}, startCursor |-> Blank, endCursor |-> Blank,
              hasNext |-> FALSE, hasPrevious |-> FALSE]
  BY DEF Init, Response
<1>2. rows \subseteq Ids /\ used = rows /\ dir = "after" /\ delivered = {} /\ kept = {}
  BY DEF Init
<1> QED  BY <1>1, <1>2 DEF WalkInv, TypeOK, Split, WalkComplete

LEMMA InsertWalks ==
  ASSUME WalkInv, NEW i \in Ids, Insert(i)
  PROVE  WalkInv'
<1>1. TypeOK'
  BY DEF WalkInv, TypeOK, Insert, walkVars
<1>2. Split' /\ WalkComplete'
  BY DEF WalkInv, Split, WalkComplete, Over, HasMore, Edge, End, Insert, walkVars
<1> QED  BY <1>1, <1>2 DEF WalkInv

LEMMA DeleteWalks ==
  ASSUME WalkInv, NEW i \in Ids, Delete(i)
  PROVE  WalkInv'
<1>1. TypeOK'
  BY DEF WalkInv, TypeOK, Delete
<1>2. Split' /\ WalkComplete'
  BY DEF WalkInv, Split, WalkComplete, Over, HasMore, Edge, End, Delete
<1> QED  BY <1>1, <1>2 DEF WalkInv

LEMMA StartWalks ==
  ASSUME WalkInv, NEW first \in Sizes, Start(first)
  PROVE  WalkInv'
<1>1. rows \subseteq used /\ used \subseteq Ids
  BY DEF WalkInv, TypeOK
<1> DEFINE d == "after"
           old == {}
<1>2. IsPage(page', rows, d = "after")
  BY <1>1, FirstPage DEF Start
<1>3. /\ d \in {"after", "before"} /\ old \in SUBSET Ids /\ rows \in SUBSET rows
      /\ \A i \in old, j \in rows : Precedes(d = "after", i, j)
  OBVIOUS
<1>4. /\ dir' = d /\ delivered' = old \cup page'.items
      /\ kept' \subseteq rows /\ kept' \subseteq old \cup rows
      /\ UNCHANGED tableVars
  BY DEF Start
<1> HIDE DEF d, old
<1> QED  BY <1>1, <1>2, <1>3, <1>4, PageServed

\* Any page the client walks to is cut from the rows beyond the end it sent.
LEMMA WalkedTo ==
  ASSUME TypeOK, NEW d \in {"after", "before"}, NEW first \in Sizes, Walk(d, first)
  PROVE  /\ Edge(d) \in Ids
         /\ IsPage(page', Beyond(rows, d = "after", Edge(d)), d = "after")
<1>1. Edge(d) \in Ids /\ rows \subseteq Ids
  BY DEF TypeOK, Edge, End, Walk
<1>2. CASE d = "after"
  BY <1>1, <1>2, NextPage DEF Walk, Ask
<1>3. CASE d = "before"
  BY <1>1, <1>3, PreviousPage DEF Walk, Ask
<1> QED  BY <1>1, <1>2, <1>3

LEMMA WalkWalks ==
  ASSUME WalkInv, NEW d \in {"after", "before"}, NEW first \in Sizes, Walk(d, first)
  PROVE  WalkInv'
<1> DEFINE M == Beyond(rows, d = "after", Edge(d))
<1>1. /\ TypeOK /\ Split /\ delivered \subseteq Ids /\ kept \subseteq rows
      /\ rows \subseteq used /\ used \subseteq Ids
  BY DEF WalkInv, TypeOK
<1>2. IsPage(page', M, d = "after") /\ M \in SUBSET rows
  BY <1>1, WalkedTo DEF Beyond
<1>3. dir' = d /\ UNCHANGED tableVars
  BY DEF Walk
<1>4. CASE d = dir
  <2>1. \A i \in delivered, j \in M : Precedes(d = "after", i, j)
    BY <1>1, <1>4, GoingOn DEF Walk
  <2>2. kept' \subseteq rows /\ kept' \subseteq delivered \cup M
    BY <1>1, <1>4, GoingOn DEF Walk
  <2>3. delivered' = delivered \cup page'.items
    BY <1>4 DEF Walk
  <2> HIDE DEF M
  <2> QED  BY <1>1, <1>2, <1>3, <2>1, <2>2, <2>3, PageServed
<1>5. CASE d # dir
  <2> DEFINE old == {}
  <2>1. kept' \subseteq rows /\ kept' \subseteq old \cup M /\ delivered' = old \cup page'.items
    BY <1>5 DEF Walk, Beyond
  <2>2. old \in SUBSET Ids /\ \A i \in old, j \in M : Precedes(d = "after", i, j)
    OBVIOUS
  <2> HIDE DEF M, old
  <2> QED  BY <1>1, <1>2, <1>3, <2>1, <2>2, PageServed
<1> QED  BY <1>4, <1>5

\* The invariant holds in every reachable state.
THEOREM WalkCorrect == Spec => []WalkInv
<1>1. Init => WalkInv
  BY InitWalks
<1>2. WalkInv /\ [Next]_vars => WalkInv'
  <2> SUFFICES ASSUME WalkInv, [Next]_vars PROVE WalkInv'
    OBVIOUS
  <2>1. ASSUME NEW i \in Ids, Insert(i) \/ Delete(i) PROVE WalkInv'
    BY <2>1, InsertWalks, DeleteWalks
  <2>2. ASSUME NEW first \in Sizes,
               Start(first) \/ Walk("after", first) \/ Walk("before", first)
        PROVE  WalkInv'
    BY <2>2, StartWalks, WalkWalks
  <2>3. CASE UNCHANGED vars
    BY <2>3 DEF vars, tableVars, walkVars, WalkInv, TypeOK, Split, WalkComplete, Over, HasMore,
                   Edge, End
  <2> QED  BY <2>1, <2>2, <2>3 DEF Next
<1> QED  BY <1>1, <1>2, PTL DEF Spec

\* Every variable keeps its type, and a page's cursors are items of the page.
THEOREM TypeCorrect == Spec => []TypeOK
<1>1. WalkInv => TypeOK
  BY DEF WalkInv
<1> QED  BY <1>1, WalkCorrect, PTL

\* A walk that is followed to its end leaves out no row that was there throughout,
\* whatever the rows, their creation times and the page sizes.
THEOREM WalkCompleteHolds == Spec => []WalkComplete
<1>1. WalkInv => WalkComplete
  BY DEF WalkInv
<1> QED  BY <1>1, WalkCorrect, PTL

\* A walk goes one way and delivers no row twice.
THEOREM WalkInOrderHolds == Spec => WalkInOrder
<1>1. WalkInv /\ [Next]_vars =>
        [(\E first \in Sizes : Walk(dir, first)) =>
           \A i \in delivered, j \in page'.items : Precedes(dir = "after", i, j)]_vars
  <2> SUFFICES ASSUME WalkInv, NEW first \in Sizes, Walk(dir, first),
                      NEW i \in delivered, NEW j \in page'.items
               PROVE  Precedes(dir = "after", i, j)
    OBVIOUS
  <2>1. TypeOK /\ Split /\ Edge(dir) # Blank /\ dir \in {"after", "before"}
    BY DEF WalkInv, TypeOK, Walk
  <2>2. IsPage(page', Beyond(rows, dir = "after", Edge(dir)), dir = "after")
    BY <2>1, WalkedTo
  <2>3. j \in Beyond(rows, dir = "after", Edge(dir))
    BY <2>2 DEF IsPage
  <2> QED  BY <2>1, <2>3, GoingOn
<1> QED  BY <1>1, WalkCorrect, PTL DEF Spec, WalkInOrder

-----------------------------------------------------------------------------
(* Turning round.                                                          *)

\* Any rows are finitely many.
LEMMA RowsAreFinite ==
  ASSUME NEW S \in SUBSET Ids
  PROVE  /\ IsFiniteSet(S) /\ Cardinality(S) \in Nat
         /\ \A U \in SUBSET S : Cardinality(U) \in Nat /\ Cardinality(U) <= Cardinality(S)
         /\ \A i \in S : Cardinality(S \ {i}) = Cardinality(S) - 1
BY PageAssumption, FS_Subset, FS_CardinalityType, FS_RemoveElement

\* LIMIT n of the n + 1 rows that were read is LIMIT n of all rows.
LEMMA TakeTwice ==
  ASSUME NEW S \in SUBSET Ids, NEW up \in BOOLEAN, NEW n \in Nat
  PROVE  Take(Take(S, up, n + 1), up, n) = Take(S, up, n)
<1> DEFINE read == Take(S, up, n + 1)
           below(U, i) == {j \in U : Precedes(up, j, i)}
<1>1. read \subseteq S
  BY DEF Take
<1>2. \A i \in read : below(S, i) = below(read, i)
  BY <1>1, TakeIsInitial
<1>3. \A i \in Take(S, up, n) : i \in read
  <2> SUFFICES ASSUME NEW i \in Take(S, up, n) PROVE i \in read
    OBVIOUS
  <2>1. i \in S /\ Cardinality(below(S, i)) < n
    BY DEF Take
  <2>2. Cardinality(below(S, i)) \in Nat
    BY RowsAreFinite
  <2>3. Cardinality(below(S, i)) < n + 1
    BY <2>1, <2>2
  <2> QED  BY <2>1, <2>3 DEF Take
<1>4. Take(read, up, n) = {i \in read : Cardinality(below(read, i)) < n}
  BY DEF Take
<1>5. Take(S, up, n) = {i \in S : Cardinality(below(S, i)) < n}
  BY DEF Take
<1> HIDE DEF read, below
<1> QED  BY <1>1, <1>2, <1>3, <1>4, <1>5 DEF read

\* The items of a page are the first n of the rows that match.
LEMMA ItemsAreTaken ==
  ASSUME NEW M \in SUBSET Ids, NEW up \in BOOLEAN, NEW n \in Nat
  PROVE  Items(M, up, n) = Take(M, up, n)
<1> DEFINE read == Take(M, up, n + 1)
<1>1. CASE Cardinality(read) > n
  BY <1>1, TakeTwice DEF Items
<1>2. CASE ~ (Cardinality(read) > n)
  <2>1. read \in SUBSET Ids
    BY DEF Take
  <2>2. Cardinality(read) <= n
    BY <1>2, <2>1, RowsAreFinite
  <2>3. read = M
    BY <2>2, TakeIsAll
  <2>4. ASSUME NEW i \in M PROVE i \in Take(M, up, n)
    <3> DEFINE below == {j \in M : Precedes(up, j, i)}
    <3>1. below \subseteq M \ {i}
      BY Order
    <3>2. Cardinality(M \ {i}) = Cardinality(M) - 1 /\ Cardinality(M) \in Nat
      BY RowsAreFinite
    <3>3. Cardinality(below) <= Cardinality(M \ {i}) /\ Cardinality(below) \in Nat
      <4>1. M \ {i} \in SUBSET Ids
        OBVIOUS
      <4> HIDE DEF below
      <4> QED  BY <3>1, <4>1, RowsAreFinite
    <3>4. Cardinality(below) < n
      BY <2>2, <2>3, <3>2, <3>3
    <3> QED  BY <3>4 DEF Take
  <2>5. Take(M, up, n) = M
    BY <2>4 DEF Take
  <2> QED  BY <1>2, <2>3, <2>5 DEF Items
<1> QED  BY <1>1, <1>2

\* LIMIT n returns n rows when LIMIT n + 1 returns more.
LEMMA TakeSize ==
  ASSUME NEW S \in SUBSET Ids, NEW up \in BOOLEAN, NEW n \in Nat \ {0},
         Cardinality(Take(S, up, n + 1)) > n
  PROVE  Cardinality(Take(S, up, n)) = n
<1> DEFINE T == Take(S, up, n)
           below(i) == {j \in S : Precedes(up, j, i)}
<1>1. T \in SUBSET Ids /\ T \subseteq S /\ \A i \in S : i \in T <=> Cardinality(below(i)) < n
  BY DEF Take
<1>2. Cardinality(T) \in Nat /\ \A i \in S : Cardinality(below(i)) \in Nat
  BY <1>1, RowsAreFinite
<1>3. Take(S, up, n + 1) \in SUBSET S
  BY DEF Take
<1> HIDE DEF T
<1>4. T # {}
  <2>1. S # {}
    BY <1>3, FS_EmptySet
  <2> QED  BY <2>1, TakeIsSome DEF T
<1>5. Cardinality(T) <= n
  <2>1. (~ up) \in BOOLEAN
    OBVIOUS
  <2>2. PICK y \in T : \A j \in T \ {y} : Precedes(~ up, y, j)
    BY <1>1, <1>4, <2>1, Least
  <2>3. T \ {y} \subseteq below(y)
    BY <1>1, <2>2, Order
  <2>4. Cardinality(T \ {y}) <= Cardinality(below(y))
    <3>1. below(y) \in SUBSET Ids
      OBVIOUS
    <3> HIDE DEF below
    <3> QED  BY <2>3, <3>1, RowsAreFinite
  <2>5. Cardinality(T \ {y}) = Cardinality(T) - 1
    BY <1>1, RowsAreFinite
  <2>6. Cardinality(below(y)) < n /\ Cardinality(below(y)) \in Nat
    BY <1>1, <1>2
  <2> QED  BY <1>2, <2>4, <2>5, <2>6
<1>6. T # S
  <2> SUFFICES ASSUME T = S PROVE FALSE
    OBVIOUS
  <2>1. Cardinality(Take(S, up, n + 1)) <= Cardinality(S)
        /\ Cardinality(Take(S, up, n + 1)) \in Nat
    BY <1>3, RowsAreFinite
  <2> QED  BY <1>2, <1>5, <2>1
<1>7. PICK x \in S \ T : \A j \in (S \ T) \ {x} : Precedes(up, x, j)
  <2>1. S \ T \in SUBSET Ids /\ S \ T # {}
    BY <1>1, <1>6
  <2> QED  BY <2>1, Least
<1>8. below(x) \subseteq T
  BY <1>1, <1>7, Order
<1>9. Cardinality(below(x)) <= Cardinality(T) /\ Cardinality(below(x)) \in Nat
  BY <1>1, <1>8, RowsAreFinite
<1>10. ~ (Cardinality(below(x)) < n)
  BY <1>1
<1>11. Cardinality(T) = n
  BY <1>2, <1>5, <1>9, <1>10
<1> QED  BY <1>11 DEF T

\* Rows that come after all the others are the ones that LIMIT returns in the
\* opposite direction.
LEMMA LastTaken ==
  ASSUME NEW S \in SUBSET Ids, NEW up \in BOOLEAN, NEW T \in SUBSET S,
         \A i \in S \ T, j \in T : Precedes(up, i, j)
  PROVE  Take(S, ~ up, Cardinality(T)) = T
<1> DEFINE below(k) == {l \in S : Precedes(~ up, l, k)}
<1>1. ASSUME NEW k \in T PROVE Cardinality(below(k)) < Cardinality(T)
  <2>1. below(k) \subseteq T \ {k}
    BY Order
  <2>2. Cardinality(below(k)) <= Cardinality(T \ {k}) /\ Cardinality(below(k)) \in Nat
    <3>1. T \ {k} \in SUBSET Ids
      OBVIOUS
    <3> HIDE DEF below
    <3> QED  BY <2>1, <3>1, RowsAreFinite
  <2>3. Cardinality(T \ {k}) = Cardinality(T) - 1 /\ Cardinality(T) \in Nat
    BY RowsAreFinite
  <2> QED  BY <2>2, <2>3
<1>2. ASSUME NEW k \in S \ T PROVE ~ (Cardinality(below(k)) < Cardinality(T))
  <2>1. T \subseteq below(k)
    BY Order
  <2>2. Cardinality(T) <= Cardinality(below(k)) /\ Cardinality(T) \in Nat
        /\ Cardinality(below(k)) \in Nat
    <3>1. below(k) \in SUBSET Ids
      OBVIOUS
    <3> HIDE DEF below
    <3> QED  BY <2>1, <3>1, RowsAreFinite
  <2> QED  BY <2>2
<1>3. Take(S, ~ up, Cardinality(T)) = {k \in S : Cardinality(below(k)) < Cardinality(T)}
  BY DEF Take
<1> HIDE DEF below
<1> QED  BY <1>1, <1>2, <1>3

\* The rows that a request in direction d from cursor c asks for.
Wanted(d, c) == IF c = Blank THEN rows ELSE Beyond(rows, d = "after", c)

\* What it gets: the first rows of those, as many as it asked for when it is told
\* of more, and their ends as cursors.
Answered(d, first, c) ==
  LET p == Ask(d, first, c)
      T == Take(Wanted(d, c), d = "after", Clamp(first))
  IN  /\ p.items = T
      /\ p.startCursor = (IF T = {} THEN Blank ELSE Head(T, TRUE))
      /\ p.endCursor = (IF T = {} THEN Blank ELSE Head(T, FALSE))
      /\ HasMore(p, d) => Cardinality(T) = Clamp(first) /\ T # Wanted(d, c)

\* Every request in a direction is answered so.
LEMMA Asked ==
  ASSUME rows \subseteq Ids, NEW d \in {"after", "before"}, NEW first \in Sizes,
         NEW c \in Ids \cup {Blank}, d = "before" => c # Blank
  PROVE  Answered(d, first, c)
<1> DEFINE n    == Clamp(first)
           up   == d = "after"
           M    == Wanted(d, c)
           T    == Take(M, up, n)
           more == Cardinality(Take(M, up, n + 1)) > n
           p    == Ask(d, first, c)
<1>1. M \in SUBSET Ids /\ n \in Nat \ {0} /\ up \in BOOLEAN
  BY ClampIsPositive DEF Wanted, Beyond
<1>2. \E other \in BOOLEAN :
        p = Response(Items(M, up, n), TRUE, IF up THEN more ELSE other,
                                            IF up THEN other ELSE more)
  <2>1. CASE up
    <3>1. Ascends(c, Blank) = up /\ Matching(c, Blank) = M /\ Listed(c, Blank) = TRUE
      BY <2>1, PageAssumption DEF Ascends, Matching, Listed, Wanted
    <3>2. GetPaged(first, c, Blank)
            = Response(Items(M, up, n), TRUE, Blank = Blank /\ more,
                       c # Blank \/ (Blank # Blank /\ more))
      BY <3>1 DEF GetPaged, Items
    <3>3. p = GetPaged(first, c, Blank)
      BY <2>1 DEF Ask
    <3> HIDE DEF p, M, more
    <3>4. p = Response(Items(M, up, n), TRUE, more, c # Blank)
      BY <3>2, <3>3 DEF more
    <3> QED  BY <2>1, <3>4
  <2>2. CASE ~ up
    <3>0. c \in Ids /\ c # Blank
      BY <2>2, PageAssumption
    <3>1. Ascends(Blank, c) = up /\ Matching(Blank, c) = M /\ Listed(Blank, c) = TRUE
      BY <2>2, <3>0, PageAssumption DEF Ascends, Matching, Listed, Wanted
    <3>2. GetPaged(first, Blank, c)
            = Response(Items(M, up, n), TRUE, c = Blank /\ more,
                       Blank # Blank \/ (c # Blank /\ more))
      BY <3>1 DEF GetPaged, Items
    <3>3. p = GetPaged(first, Blank, c)
      BY <2>2 DEF Ask
    <3>4. (c = Blank /\ more) = FALSE /\ (Blank # Blank \/ (c # Blank /\ more)) = more
      BY <3>0
    <3> HIDE DEF p, M, more
    <3>5. p = Response(Items(M, up, n), TRUE, FALSE, more)
      BY <3>2, <3>3, <3>4
    <3> QED  BY <2>2, <3>5
  <2> QED  BY <2>1, <2>2
<1>3. Items(M, up, n) = T
  BY <1>1, ItemsAreTaken
<1>4. PICK other \in BOOLEAN :
        p = Response(T, TRUE, IF up THEN more ELSE other, IF up THEN other ELSE more)
  BY <1>2, <1>3
<1>5. /\ p.items = T
      /\ p.startCursor = (IF T = {} THEN Blank ELSE Head(T, TRUE))
      /\ p.endCursor = (IF T = {} THEN Blank ELSE Head(T, FALSE))
      /\ HasMore(p, d) <=> more
  <2> HIDE DEF p, T, more
  <2> QED  BY <1>4 DEF Response, HasMore
<1>6. ASSUME more PROVE Cardinality(T) = n /\ T # M
  <2>1. Cardinality(T) = n
    BY <1>1, <1>6, TakeSize
  <2>2. Take(M, up, n + 1) \in SUBSET M
    BY DEF Take
  <2>3. Cardinality(Take(M, up, n + 1)) <= Cardinality(M)
        /\ Cardinality(Take(M, up, n + 1)) \in Nat /\ Cardinality(M) \in Nat
    BY <1>1, <2>2, RowsAreFinite
  <2>4. T # M
    <3> HIDE DEF T, M
    <3> QED  BY <1>1, <1>6, <2>1, <2>3 DEF more
  <2> QED  BY <2>1, <2>4
<1> QED  BY <1>5, <1>6 DEF Answered

\* The first rows of some, when they are not all of them, end before all others.
LEMMA TakeEnds ==
  ASSUME NEW M \in SUBSET Ids, NEW up \in BOOLEAN, NEW n \in Nat \ {0},
         NEW T, T = Take(M, up, n), T # M
  PROVE  LET far == Head(T, ~ up) IN
         /\ T \subseteq M /\ T # {} /\ far \in T
         /\ \A j \in T : j = far \/ Precedes(up, j, far)
         /\ \A i \in M \ T : Precedes(up, far, i)
<1> DEFINE far == Head(T, ~ up)
<1>1. T \subseteq M /\ T \in SUBSET Ids /\ (~ up) \in BOOLEAN
  BY DEF Take
<1>2. T # {}
  BY <1>1, TakeIsSome
<1>3. far \in T /\ \A j \in T \ {far} : Precedes(~ up, far, j)
  BY <1>1, <1>2, HeadIsFirst
<1> HIDE DEF far
<1>4. \A j \in T : j = far \/ Precedes(up, j, far)
  BY <1>1, <1>3, Order
<1>5. \A i \in M \ T : Precedes(up, far, i)
  <2> SUFFICES ASSUME NEW i \in M \ T PROVE Precedes(up, far, i)
    OBVIOUS
  <2>1. ~ Precedes(up, i, far)
    BY <1>3, TakeIsInitial
  <2> QED  BY <1>1, <1>3, <2>1, Order
<1> QED  BY <1>1, <1>2, <1>3, <1>4, <1>5 DEF far

\* The rows beyond a page that is told of more are those that the page leaves out.
LEMMA BeyondThePage ==
  ASSUME rows \subseteq Ids, NEW d \in {"after", "before"}, NEW c \in Ids \cup {Blank},
         NEW T \in SUBSET Wanted(d, c), NEW far \in T,
         \A j \in T : j = far \/ Precedes(d = "after", j, far),
         \A i \in Wanted(d, c) \ T : Precedes(d = "after", far, i)
  PROVE  Beyond(rows, d = "after", far) = Wanted(d, c) \ T
<1> DEFINE up == d = "after"
           M  == Wanted(d, c)
<1>1. up \in BOOLEAN /\ M \subseteq rows /\ T \subseteq Ids
  BY DEF Wanted, Beyond
<1>2. \A i \in rows : Precedes(up, far, i) => i \in M
  BY <1>1, Order DEF Wanted, Beyond
<1>3. \A i \in T : ~ Precedes(up, far, i)
  BY <1>1, Order
<1> HIDE DEF up, M
<1> QED  BY <1>1, <1>2, <1>3 DEF Beyond, up, M

\* The rows behind the next page begin with those of this page: whatever else is
\* there comes before all of them.
LEMMA BehindTheNext ==
  ASSUME rows \subseteq Ids, NEW d \in {"after", "before"}, NEW c \in Ids \cup {Blank},
         NEW T \in SUBSET Wanted(d, c), NEW far \in T,
         \A j \in T : j = far \/ Precedes(d = "after", j, far),
         NEW s \in Wanted(d, c) \ T, Precedes(d = "after", far, s),
         \A i \in Wanted(d, c) \ T : ~ Precedes(d = "after", i, s)
  PROVE  LET S == Beyond(rows, ~ (d = "after"), s) IN
         /\ S \in SUBSET Ids /\ T \subseteq S
         /\ \A i \in S \ T, j \in T : Precedes(d = "after", i, j)
<1> DEFINE up == d = "after"
           M  == Wanted(d, c)
           S  == Beyond(rows, ~ up, s)
<1>1. up \in BOOLEAN /\ M \subseteq rows /\ T \subseteq Ids /\ S \subseteq rows
  BY DEF Wanted, Beyond
<1>2. s \in Ids
  BY <1>1
<1>3. \A i \in rows : i \in S <=> Precedes(up, i, s)
  BY <1>1, <1>2, Order DEF Beyond
<1>4. T \subseteq S
  <2>0. /\ T \subseteq rows /\ Precedes(up, far, s)
        /\ \A i \in T : i = far \/ Precedes(up, i, far)
    BY <1>1
  <2> HIDE DEF up, M, S
  <2>1. \A i \in T : Precedes(up, i, s)
    BY <1>1, <1>2, <2>0, Order
  <2> QED  BY <1>3, <2>0, <2>1
<1>5. ASSUME NEW i \in S \ T, NEW j \in T PROVE Precedes(up, i, j)
  <2>1. i \notin M
    BY <1>1, <1>3, <1>5
  <2>2. c \in Ids /\ ~ Precedes(up, c, i) /\ Precedes(up, c, j)
    BY <1>1, <1>5, <2>1 DEF Wanted, Beyond
  <2> HIDE DEF up, M, S
  <2> QED  BY <1>1, <1>5, <2>2, Order
<1> HIDE DEF up, M
<1> QED  BY <1>1, <1>4, <1>5 DEF up

\* One step on and one step back give the same page.
LEMMA ThereAndBack ==
  ASSUME rows \subseteq Ids
  PROVE  TurningRoundLeadsBack
<1> SUFFICES ASSUME NEW d \in {"after", "before"}, NEW first \in Sizes,
                    NEW c \in Ids \cup {Blank}, d = "before" => c # Blank,
                    HasMore(Ask(d, first, c), d)
             PROVE  LET back == IF d = "after" THEN "before" ELSE "after"
                        here == Ask(d, first, c)
                        on   == Ask(d, first, End(here, d))
                        same == Ask(back, first, End(on, back))
                    IN  /\ on.items # {} /\ on.items \cap here.items = {}
                        /\ same.items = here.items
                        /\ same.startCursor = here.startCursor
                        /\ same.endCursor = here.endCursor
  BY DEF TurningRoundLeadsBack
<1> DEFINE up   == d = "after"
           n    == Clamp(first)
           back == IF d = "after" THEN "before" ELSE "after"
           here == Ask(d, first, c)
           M    == Wanted(d, c)
           T    == Take(M, up, n)
           far  == Head(T, ~ up)
<1>1. /\ up \in BOOLEAN /\ (~ up) \in BOOLEAN /\ n \in Nat \ {0}
      /\ back \in {"after", "before"} /\ (back = "after") = (~ up)
      /\ M \in SUBSET rows /\ M \in SUBSET Ids
  BY ClampIsPositive DEF Wanted, Beyond
<1>2. /\ here.items = T /\ Cardinality(T) = n /\ T # M
      /\ here.startCursor = (IF T = {} THEN Blank ELSE Head(T, TRUE))
      /\ here.endCursor = (IF T = {} THEN Blank ELSE Head(T, FALSE))
  <2>1. Answered(d, first, c)
    BY Asked
  <2> QED  BY <2>1 DEF Answered
<1>3. /\ T \subseteq M /\ T # {} /\ far \in T
      /\ \A j \in T : j = far \/ Precedes(up, j, far)
      /\ \A i \in M \ T : Precedes(up, far, i)
  <2> HIDE DEF up, M, n
  <2> QED  BY <1>1, <1>2, TakeEnds
<1>4. End(here, d) = far /\ far \in Ids /\ far # Blank
  <2> HIDE DEF here, T
  <2> QED  BY <1>1, <1>2, <1>3, PageAssumption DEF End
<1> DEFINE on == Ask(d, first, far)
           A  == Take(M \ T, up, n)
           s  == Head(A, up)
<1>5. Wanted(d, far) = M \ T
  <2>1. Wanted(d, far) = Beyond(rows, up, far)
    BY <1>4 DEF Wanted
  <2> HIDE DEF T, far
  <2> QED  BY <1>3, <2>1, BeyondThePage
<1>6. /\ on.items = A
      /\ on.startCursor = (IF A = {} THEN Blank ELSE Head(A, TRUE))
      /\ on.endCursor = (IF A = {} THEN Blank ELSE Head(A, FALSE))
  <2> DEFINE B == Take(Wanted(d, far), up, n)
  <2>1. /\ on.items = B
        /\ on.startCursor = (IF B = {} THEN Blank ELSE Head(B, TRUE))
        /\ on.endCursor = (IF B = {} THEN Blank ELSE Head(B, FALSE))
    <3> HIDE DEF far
    <3>1. Answered(d, first, far)
      BY <1>4, Asked
    <3> QED  BY <3>1 DEF Answered
  <2>2. B = A
    BY <1>5
  <2> HIDE DEF on, A, B
  <2> QED  BY <2>1, <2>2
<1> HIDE DEF here, M, T, far, on
<1>7. A # {} /\ A \subseteq M \ T /\ A \in SUBSET Ids
  <2>1. M \ T \in SUBSET Ids /\ M \ T # {}
    BY <1>1, <1>2, <1>3
  <2>2. A # {}
    BY <1>1, <2>1, TakeIsSome
  <2>3. A \subseteq M \ T
    BY DEF Take
  <2> QED  BY <2>1, <2>2, <2>3
<1>8. s \in A /\ \A j \in A \ {s} : Precedes(up, s, j)
  BY <1>1, <1>7, HeadIsFirst
<1>9. \A i \in M \ T : ~ Precedes(up, i, s)
  <2> SUFFICES ASSUME NEW i \in M \ T, Precedes(up, i, s) PROVE FALSE
    OBVIOUS
  <2>1. i \in A
    BY <1>1, <1>8, TakeIsInitial
  <2>2. i \in Ids /\ s \in Ids /\ (i = s \/ Precedes(up, s, i))
    <3> HIDE DEF A, s, up
    <3> QED  BY <1>7, <1>8, <2>1
  <2> HIDE DEF A, s, up
  <2> QED  BY <1>1, <2>2, Order
<1>10. End(on, back) = s /\ s \in Ids /\ s # Blank /\ s \in M \ T /\ Precedes(up, far, s)
  <2> HIDE DEF A
  <2> QED  BY <1>3, <1>6, <1>7, <1>8, PageAssumption DEF End
<1> DEFINE same == Ask(back, first, s)
           S    == Beyond(rows, ~ up, s)
<1>11. /\ S \in SUBSET Ids /\ T \subseteq S
       /\ \A i \in S \ T, j \in T : Precedes(up, i, j)
  <2> HIDE DEF A, s
  <2> QED  BY <1>3, <1>9, <1>10, BehindTheNext DEF M
<1>12. Take(S, ~ up, n) = T
  <2> HIDE DEF S, up, n
  <2> QED  BY <1>1, <1>2, <1>11, LastTaken
<1>13. Wanted(back, s) = S
  BY <1>1, <1>10 DEF Wanted
<1>14. /\ same.items = T
       /\ same.startCursor = (IF T = {} THEN Blank ELSE Head(T, TRUE))
       /\ same.endCursor = (IF T = {} THEN Blank ELSE Head(T, FALSE))
  <2> DEFINE B == Take(Wanted(back, s), back = "after", n)
  <2>1. /\ same.items = B
        /\ same.startCursor = (IF B = {} THEN Blank ELSE Head(B, TRUE))
        /\ same.endCursor = (IF B = {} THEN Blank ELSE Head(B, FALSE))
    <3> HIDE DEF s, back
    <3>1. Answered(back, first, s)
      BY <1>1, <1>10, Asked
    <3> QED  BY <3>1 DEF Answered
  <2>2. B = T
    <3> HIDE DEF s, back, S, up, n
    <3> QED  BY <1>1, <1>12, <1>13
  <2> HIDE DEF same, B
  <2> QED  BY <2>1, <2>2
<1> HIDE DEF same, A, s, back
<1> QED  BY <1>2, <1>4, <1>6, <1>7, <1>10, <1>14 DEF here, on, same, back

\* From any page that has more behind it in its direction, one step on and one step
\* back give that very page again: for any rows, creation times and page sizes.
THEOREM TurningRoundLeadsBackHolds == Spec => []TurningRoundLeadsBack
<1>1. TypeOK => TurningRoundLeadsBack
  BY ThereAndBack DEF TypeOK
<1> QED  BY <1>1, TypeCorrect, PTL
=============================================================================
