-------------------------- MODULE RetrievalProofs --------------------------
(***************************************************************************)
(* Theorems about queries for every set of notes and texts, every index to *)
(* start from, every filter and every bound.                               *)
(***************************************************************************)
EXTENDS Retrieval, WellFoundedInduction, FiniteSetTheorems, SequenceTheorems, TLAPS

-----------------------------------------------------------------------------
(* Sorting.                                                                *)

StrictOrder(S, R) ==
  /\ \A x \in S : <<x, x>> \notin R
  /\ \A x, y, z \in S : <<x, y>> \in R /\ <<y, z>> \in R => <<x, z>> \in R
  /\ \A x, y \in S : x = y \/ <<x, y>> \in R \/ <<y, x>> \in R

Ahead(S, R, x) == {y \in S : <<y, x>> \in R}

(* In a finite set in a strict order, something comes first, something     *)
(* second, and so on to the last.                                          *)
LEMMA Ranked ==
  ASSUME NEW S, IsFiniteSet(S), NEW R, StrictOrder(S, R)
  PROVE  /\ Cardinality(S) \in Nat
         /\ \A k \in 1 .. Cardinality(S) : \E x \in S : Cardinality(Ahead(S, R, x)) = k - 1
<1>. DEFINE n      == Cardinality(S)
            Pre(x) == Ahead(S, R, x)
            f      == [x \in S |-> Cardinality(Pre(x)) + 1]
<1>1. n \in Nat
  BY FS_CardinalityType
<1>2. ASSUME NEW x \in S
      PROVE  IsFiniteSet(Pre(x)) /\ Cardinality(Pre(x)) \in Nat /\ Cardinality(Pre(x)) < n
  <2>1. Pre(x) \in SUBSET S /\ x \notin Pre(x)
    BY DEF StrictOrder, Ahead
  <2>. HIDE DEF Pre
  <2>2. IsFiniteSet(Pre(x)) /\ Cardinality(Pre(x)) <= n /\ Cardinality(Pre(x)) # n
    BY <2>1, FS_Subset
  <2>. QED  BY <1>1, <2>2, FS_CardinalityType
<1>3. ASSUME NEW x \in S, NEW y \in S, <<x, y>> \in R
      PROVE  Cardinality(Pre(x)) # Cardinality(Pre(y))
  <2>1. Pre(x) \in SUBSET Pre(y) /\ x \in Pre(y) /\ x \notin Pre(x)
    BY <1>3 DEF StrictOrder, Ahead
  <2>2. IsFiniteSet(Pre(y))
    BY <1>2
  <2>. HIDE DEF Pre
  <2>3. Cardinality(Pre(y)) = Cardinality(Pre(x)) => Pre(y) = Pre(x)
    BY <2>1, <2>2, FS_Subset
  <2>. QED  BY <2>1, <2>3
<1>. HIDE DEF Pre
<1>4. f \in [S -> 1 .. n]
  BY <1>1, <1>2
<1>5. \A x, y \in S : f[x] = f[y] => x = y
  <2>. SUFFICES ASSUME NEW x \in S, NEW y \in S, f[x] = f[y] PROVE x = y
    OBVIOUS
  <2>1. Cardinality(Pre(x)) = Cardinality(Pre(y))
    BY <1>2
  <2>. QED  BY <1>3, <2>1 DEF StrictOrder
<1>. HIDE DEF f
<1>6. f \in Injection(S, 1 .. n)
  BY <1>4, <1>5 DEF Injection, IsInjective
<1>7. IsFiniteSet(1 .. n) /\ Cardinality(1 .. n) = n
  BY <1>1, FS_Interval
<1>8. f \in Surjection(S, 1 .. n)
  BY <1>6, <1>7, FS_Injection
<1>9. ASSUME NEW k \in 1 .. n PROVE \E x \in S : Cardinality(Pre(x)) = k - 1
  <2>1. PICK x \in S : f[x] = k
    BY <1>8 DEF Surjection
  <2>2. Cardinality(Pre(x)) \in Nat /\ Cardinality(Pre(x)) + 1 = k
    BY <1>2, <2>1 DEF f
  <2>. QED  BY <2>2
<1>. QED  BY <1>1, <1>9 DEF Pre

(* Sorted lists what it is given, whatever the scores and whichever strict *)
(* order breaks the ties.                                                  *)
LEMMA SortedTyped ==
  ASSUME NEW S, IsFiniteSet(S), NEW score \in [S -> Int], NEW tie, StrictOrder(S, tie)
  PROVE  /\ Cardinality(S) \in Nat
         /\ Sorted(S, score, tie) \in [1 .. Cardinality(S) -> S]
<1>. DEFINE Before(x, y) == score[x] > score[y] \/ (score[x] = score[y] /\ <<x, y>> \in tie)
            R == {pair \in S \X S : Before(pair[1], pair[2])}
<1>1. StrictOrder(S, R)
  <2>1. ASSUME NEW x \in S PROVE ~Before(x, x)
    BY DEF StrictOrder
  <2>2. ASSUME NEW x \in S, NEW y \in S, NEW z \in S, Before(x, y), Before(y, z)
        PROVE  Before(x, z)
    <3>1. score[x] \in Int /\ score[y] \in Int /\ score[z] \in Int
      OBVIOUS
    <3>2. <<x, y>> \in tie /\ <<y, z>> \in tie => <<x, z>> \in tie
      BY DEF StrictOrder
    <3>. QED  BY <2>2, <3>1, <3>2
  <2>3. ASSUME NEW x \in S, NEW y \in S, x # y PROVE Before(x, y) \/ Before(y, x)
    <3>1. score[x] \in Int /\ score[y] \in Int
      OBVIOUS
    <3>. QED  BY <2>3, <3>1 DEF StrictOrder
  <2>4. \A x, y \in S : <<x, y>> \in R <=> Before(x, y)
    OBVIOUS
  <2>. HIDE DEF Before, R
  <2>. QED  BY <2>1, <2>2, <2>3, <2>4 DEF StrictOrder
<1>2. \A x \in S : {y \in S : Before(y, x)} = Ahead(S, R, x)
  BY DEF Ahead
<1>. HIDE DEF R
<1>3. /\ Cardinality(S) \in Nat
      /\ \A k \in 1 .. Cardinality(S) : \E x \in S : Cardinality(Ahead(S, R, x)) = k - 1
  BY <1>1, Ranked
<1>4. ASSUME NEW k \in 1 .. Cardinality(S)
      PROVE  (CHOOSE x \in S : Cardinality({y \in S : Before(y, x)}) = k - 1) \in S
  <2>1. PICK x \in S : Cardinality(Ahead(S, R, x)) = k - 1
    BY <1>3
  <2>2. Cardinality({y \in S : Before(y, x)}) = k - 1
    BY <1>2, <2>1
  <2>. HIDE DEF Before
  <2>. QED  BY <2>2
<1>5. Sorted(S, score, tie)
        = [k \in 1 .. Cardinality(S) |->
             CHOOSE x \in S : Cardinality({y \in S : Before(y, x)}) = k - 1]
  BY DEF Sorted
<1>. DEFINE at == [k \in 1 .. Cardinality(S) |->
                     CHOOSE x \in S : Cardinality({y \in S : Before(y, x)}) = k - 1]
<1>6. at \in [1 .. Cardinality(S) -> S]
  BY <1>4
<1>. HIDE DEF at
<1>7. Sorted(S, score, tie) = at
  BY <1>5 DEF at
<1>. QED  BY <1>3, <1>6, <1>7

LEMMA FirstTyped ==
  ASSUME NEW S, NEW s \in Seq(S), NEW limit \in Nat
  PROVE  /\ First(s, limit) \in Seq(S)
         /\ Len(First(s, limit)) <= limit
         /\ Items(First(s, limit)) \subseteq Items(s)
<1>. DEFINE n == IF Len(s) < limit THEN Len(s) ELSE limit
<1>1. Len(s) \in Nat /\ n \in 0 .. Len(s) /\ n <= limit
  OBVIOUS
<1>2. First(s, limit) = SubSeq(s, 1, n)
  BY DEF First
<1>. HIDE DEF n
<1>3. /\ SubSeq(s, 1, n) \in Seq(S) /\ Len(SubSeq(s, 1, n)) = n
      /\ \A k \in 1 .. n : SubSeq(s, 1, n)[k] = s[k]
  BY <1>1
<1>. QED  BY <1>1, <1>2, <1>3 DEF Items

LEMMA SeqOfFunction ==
  ASSUME NEW S, NEW n \in Nat, NEW f \in [1 .. n -> S]
  PROVE  f \in Seq(S) /\ Len(f) = n /\ DOMAIN f = 1 .. n
<1>1. f \in Seq(S)
  BY SeqDef
<1>. QED  BY <1>1, LenProperties

LEMMA ItemsOfSeq ==
  ASSUME NEW S, NEW s \in Seq(S)
  PROVE  Items(s) \subseteq S
BY DEF Items

-----------------------------------------------------------------------------
(* Chunks.                                                                 *)

Rows    == [Notes -> Row \cup {None}]
ChunkId == Notes \X Nat \X Nat
Text    == [every : Nat, any : Nat, distance : [1..Providers -> Nat]]

AllChunks(rows) == UNION {ChunksOf(rows, n) : n \in Indexed(rows)}

LEMMA TextChunks ==
  ASSUME NEW rows \in Rows, NEW n \in Indexed(rows)
  PROVE  /\ n \in Notes /\ rows[n] \in Row
         /\ Len(Chunks[rows[n].text]) \in Nat
         /\ \A k \in 1 .. Len(Chunks[rows[n].text]) :
              Chunks[rows[n].text][k] \in Text
<1>1. n \in Notes /\ rows[n] \in Row
  BY DEF Rows, Indexed
<1>2. rows[n].text \in Texts
  BY <1>1 DEF Row
<1>3. Chunks[rows[n].text] \in Seq(Text)
  BY <1>2, RetrievalAssumption DEF Text
<1>. QED  BY <1>1, <1>3, ElementOfSeq, LenProperties

LEMMA ChunkOf ==
  ASSUME NEW rows \in Rows, NEW n \in Indexed(rows), NEW c \in ChunksOf(rows, n)
  PROVE  /\ c \in ChunkId /\ c = <<c[1], c[2], c[3]>>
         /\ c[1] = n /\ c[2] = rows[n].mint /\ c[3] \in Nat
         /\ Content(rows, c) \in Text
<1>1. PICK k \in 1 .. Len(Chunks[rows[n].text]) : c = <<n, rows[n].mint, k>>
  BY DEF ChunksOf
<1>2. /\ n \in Notes /\ rows[n].mint \in Nat /\ k \in Nat
      /\ Chunks[rows[n].text][k] \in Text
  BY TextChunks DEF Row
<1>3. c[1] = n /\ c[2] = rows[n].mint /\ c[3] = k
  BY <1>1
<1>. QED  BY <1>1, <1>2, <1>3 DEF Content, ChunkId

LEMMA ChunksFinite ==
  ASSUME NEW rows \in Rows, NEW D \in SUBSET Indexed(rows)
  PROVE  IsFiniteSet(UNION {ChunksOf(rows, n) : n \in D})
<1>1. IsFiniteSet(D)
  <2>1. D \in SUBSET Notes
    BY DEF Indexed
  <2>. QED  BY <2>1, RetrievalAssumption, FS_Subset
<1>2. ASSUME NEW n \in D PROVE IsFiniteSet(ChunksOf(rows, n))
  <2>. DEFINE m == Len(Chunks[rows[n].text])
              f == [k \in 1 .. m |-> <<n, rows[n].mint, k>>]
  <2>1. m \in Nat
    BY TextChunks
  <2>. HIDE DEF m
  <2>2. IsFiniteSet(1 .. m)
    BY <2>1, FS_Interval
  <2>3. ChunksOf(rows, n) = {f[k] : k \in 1 .. m}
    BY DEF ChunksOf, m
  <2>4. f \in Surjection(1 .. m, ChunksOf(rows, n))
    BY <2>3 DEF Surjection
  <2>. HIDE DEF f
  <2>. QED  BY <2>2, <2>4, FS_Surjection
<1>. DEFINE All == {ChunksOf(rows, n) : n \in D}
            g   == [n \in D |-> ChunksOf(rows, n)]
<1>3. IsFiniteSet(All)
  <2>1. g \in Surjection(D, All)
    BY DEF Surjection
  <2>. HIDE DEF g, All
  <2>. QED  BY <1>1, <2>1, FS_Surjection
<1>4. \A T \in All : IsFiniteSet(T)
  BY <1>2
<1>. HIDE DEF All
<1>5. IsFiniteSet(UNION All)
  BY <1>3, <1>4, FS_UNION
<1>. QED  BY <1>5 DEF All

(* What the filter lets through are chunks of the index, finitely many,    *)
(* and paths and ordinals tell them apart.                                 *)
LEMMA ThroughTyped ==
  ASSUME NEW rows \in Rows, NEW ask
  PROVE  /\ Through(rows, ask) \subseteq AllChunks(rows)
         /\ Scoped(rows, ask) \subseteq Through(rows, ask)
         /\ AllChunks(rows) \subseteq ChunkId
         /\ IsFiniteSet(AllChunks(rows))
         /\ \A c \in AllChunks(rows) :
              Content(rows, c) \in Text
<1>1. Through(rows, ask) \subseteq AllChunks(rows) /\ Scoped(rows, ask) \subseteq Through(rows, ask)
  BY DEF Through, AllChunks, Scoped
<1>2. ASSUME NEW c \in AllChunks(rows)
      PROVE  c \in ChunkId /\ Content(rows, c) \in Text
  <2>1. PICK n \in Indexed(rows) : c \in ChunksOf(rows, n)
    BY DEF AllChunks
  <2>. QED  BY <2>1, ChunkOf
<1>3. IsFiniteSet(AllChunks(rows))
  BY ChunksFinite DEF AllChunks
<1>. QED  BY <1>1, <1>2, <1>3

LEMMA InPlaceOrders ==
  ASSUME NEW rows \in Rows, NEW S \in SUBSET AllChunks(rows)
  PROVE  StrictOrder(S, InPlace(S))
<1>1. \A c, d \in S : <<c, d>> \in InPlace(S) <=> c[1] < d[1] \/ (c[1] = d[1] /\ c[3] < d[3])
  BY DEF InPlace
<1>2. ASSUME NEW c \in S
      PROVE  c = <<c[1], rows[c[1]].mint, c[3]>> /\ c[1] \in Nat /\ c[3] \in Nat
  <2>1. PICK n \in Indexed(rows) : c \in ChunksOf(rows, n)
    BY DEF AllChunks
  <2>. QED  BY <2>1, ChunkOf, TextChunks, RetrievalAssumption
<1>3. \A c \in S : <<c, c>> \notin InPlace(S)
  BY <1>1, <1>2
<1>4. ASSUME NEW c \in S, NEW d \in S, NEW e \in S,
             <<c, d>> \in InPlace(S), <<d, e>> \in InPlace(S)
      PROVE  <<c, e>> \in InPlace(S)
  BY <1>1, <1>2, <1>4
<1>5. ASSUME NEW c \in S, NEW d \in S, c # d
      PROVE  <<c, d>> \in InPlace(S) \/ <<d, c>> \in InPlace(S)
  <2>1. c[1] # d[1] \/ c[3] # d[3]
    BY <1>2, <1>5
  <2>. QED  BY <1>1, <1>2, <2>1
<1>. QED  BY <1>3, <1>4, <1>5 DEF StrictOrder

-----------------------------------------------------------------------------
(* The legs.                                                               *)

(* A leg lists chunks out of a set, at most Pool of them.                  *)
LegOf(leg, S) == leg \in Leg /\ Len(leg) <= Pool /\ Items(leg) \subseteq S

LEMMA LegOfMore ==
  ASSUME NEW leg, NEW S, NEW T, LegOf(leg, S), S \subseteq T
  PROVE  LegOf(leg, T)
BY DEF LegOf

LEMMA SortedLeg ==
  ASSUME NEW rows \in Rows, NEW S \in SUBSET AllChunks(rows), NEW score \in [S -> Int]
  PROVE  LegOf(First(Sorted(S, score, InPlace(S)), Pool), S)
<1>. DEFINE s == Sorted(S, score, InPlace(S))
<1>1. S \subseteq ChunkId /\ IsFiniteSet(S)
  BY ThroughTyped, FS_Subset
<1>2. StrictOrder(S, InPlace(S))
  BY InPlaceOrders
<1>3. Cardinality(S) \in Nat /\ s \in [1 .. Cardinality(S) -> S]
  BY <1>1, <1>2, SortedTyped
<1>. HIDE DEF s
<1>4. s \in Seq(S)
  BY <1>3, SeqOfFunction
<1>5. Pool \in Nat
  BY RetrievalAssumption
<1>6. /\ First(s, Pool) \in Seq(S) /\ Len(First(s, Pool)) <= Pool
      /\ Items(First(s, Pool)) \subseteq S
  BY <1>4, <1>5, FirstTyped, ItemsOfSeq
<1>7. First(s, Pool) \in Seq(ChunkId)
  BY <1>1, <1>6, SeqMonotonic
<1>. QED  BY <1>6, <1>7 DEF LegOf, Leg, ChunkId, s

LEMMA VectorLegTyped ==
  ASSUME NEW rows \in Rows, NEW ask, NEW p, NEW leg \in VectorLegs(rows, ask, p)
  PROVE  LegOf(leg, Through(rows, ask))
<1>1. Near(rows, ask, p) \subseteq Through(rows, ask) /\ Near(rows, ask, p) \subseteq ChunkId
  BY ThroughTyped DEF Near
<1>2. PICK len \in 0 .. Pool : leg \in [1 .. len -> Near(rows, ask, p)]
  BY DEF VectorLegs
<1>3. len \in Nat /\ len <= Pool
  BY RetrievalAssumption
<1>4. leg \in Seq(Near(rows, ask, p)) /\ Len(leg) = len
  BY <1>2, <1>3, SeqOfFunction
<1>5. Items(leg) \subseteq Near(rows, ask, p) /\ leg \in Seq(ChunkId)
  BY <1>1, <1>4, ItemsOfSeq, SeqMonotonic
<1>. QED  BY <1>1, <1>3, <1>4, <1>5 DEF LegOf, Leg, ChunkId

(* Every chunk has a rank under either query.                              *)
LEMMA RanksTyped ==
  ASSUME NEW rows \in Rows, NEW S \in SUBSET AllChunks(rows)
  PROVE  /\ [c \in S |-> Content(rows, c).every] \in [S -> Int]
         /\ [c \in S |-> Content(rows, c).any] \in [S -> Int]
<1>1. \A c \in S : Content(rows, c).every \in Int /\ Content(rows, c).any \in Int
  <2>1. \A c \in S : Content(rows, c) \in Text
    BY ThroughTyped
  <2>. QED  BY <2>1 DEF Text
<1>. QED  BY <1>1

LEMMA KeywordLegsTyped ==
  ASSUME NEW rows \in Rows, NEW ask
  PROVE  /\ LegOf(AllTerms(rows, ask), Through(rows, ask))
         /\ LegOf(AnyTerm(rows, ask), Through(rows, ask))
         /\ LegOf(NoteLevel(rows, ask), Through(rows, ask))
<1>1. ASSUME NEW S \in SUBSET Scoped(rows, ask), NEW rank \in [S -> Int]
      PROVE  LegOf(FtsLeg(S, rank), Through(rows, ask))
  <2>1. S \in SUBSET AllChunks(rows) /\ S \subseteq Through(rows, ask)
    BY ThroughTyped
  <2>. QED  BY <2>1, SortedLeg, LegOfMore DEF FtsLeg
<1>2. ASSUME NEW S \in SUBSET Scoped(rows, ask)
      PROVE  /\ [c \in S |-> Content(rows, c).every] \in [S -> Int]
             /\ LegOf(ByAny(S, rows), Through(rows, ask))
  <2>1. S \in SUBSET AllChunks(rows)
    BY ThroughTyped
  <2>. QED  BY <1>1, <2>1, RanksTyped DEF ByAny
<1>. QED  BY <1>1, <1>2 DEF AllTerms, AnyTerm, NoteLevel

LEMMA GraphLegTyped ==
  ASSUME NEW rows \in Rows, NEW ask, NEW seeds \in SUBSET Notes
  PROVE  LegOf(GraphLeg(rows, ask, seeds), Through(rows, ask))
<1>. DEFINE S           == Through(rows, ask)
            Reaching(n) == {s \in seeds : <<s, n>> \in Edges(rows)}
            found       == {c \in S : Reaching(c[1]) # {}}
            score       == [c \in found |-> Cardinality(Reaching(c[1]))]
<1>1. found \in SUBSET AllChunks(rows) /\ found \subseteq S
  BY ThroughTyped
<1>2. ASSUME NEW n PROVE Cardinality(Reaching(n)) \in Int
  <2>1. Reaching(n) \in SUBSET Notes
    OBVIOUS
  <2>. HIDE DEF Reaching
  <2>2. IsFiniteSet(Reaching(n))
    BY <2>1, RetrievalAssumption, FS_Subset
  <2>. QED  BY <2>2, FS_CardinalityType
<1>3. GraphLeg(rows, ask, seeds) = First(Sorted(found, score, InPlace(found)), Pool)
  BY DEF GraphLeg, Linked
<1>. HIDE DEF Reaching, found, S
<1>4. score \in [found -> Int]
  BY <1>2
<1>. HIDE DEF score
<1>5. LegOf(First(Sorted(found, score, InPlace(found)), Pool), found)
  BY <1>1, <1>4, SortedLeg
<1>6. LegOf(GraphLeg(rows, ask, seeds), S)
  BY <1>1, <1>3, <1>5 DEF LegOf
<1>. QED  BY <1>6 DEF S

-----------------------------------------------------------------------------
(* Recursion over an interval: what each step makes of an integer is an    *)
(* integer.                                                                *)

Below == {ss \in Nat \X Nat : ss[1] < ss[2]}

LEMMA Least ==
  ASSUME NEW T \in SUBSET Nat, T # {}
  PROVE  \E x \in T : \A y \in T : x <= y
<1>1. IsWellFoundedOn(Below, Nat)
  BY NatLessThanWellFounded DEF OpToRel, Below
<1>2. PICK x \in T : \A y \in T : <<y, x>> \notin Below
  BY <1>1, WFMin
<1>3. \A y \in T : y \in Nat /\ x \in Nat /\ ~(y < x)
  BY <1>2 DEF Below
<1>. QED  BY <1>3

(* f starts with a, and goes from i - 1 to i by step.                      *)
Steps(f, n, a, step) ==
  /\ f \in [0 .. n -> Int] /\ f[0] = a
  /\ \A i \in 1 .. n : f[i] = step[<<i, f[i - 1]>>]

LEMMA StepsExist ==
  ASSUME NEW n \in Nat, NEW a \in Int, NEW step \in [(1 .. n) \X Int -> Int]
  PROVE  \E f : Steps(f, n, a, step)
<1>. DEFINE T == {k \in 0 .. n : ~ \E f : Steps(f, k, a, step)}
<1>1. SUFFICES ASSUME T # {} PROVE FALSE
  OBVIOUS
<1>2. PICK x \in T : \A y \in T : x <= y
  <2>1. T \in SUBSET Nat
    OBVIOUS
  <2>. HIDE DEF T
  <2>. QED  BY <1>1, <2>1, Least
<1>3. x # 0
  <2>. DEFINE h == [i \in 0 .. 0 |-> a]
  <2>2. h \in [0 .. 0 -> Int] /\ h[0] = a
    OBVIOUS
  <2>. HIDE DEF h
  <2>1. Steps(h, 0, a, step)
    BY <2>2 DEF Steps
  <2>. QED  BY <2>1
<1>4. x \in 1 .. n /\ x - 1 \in 0 .. n /\ x - 1 \notin T
  BY <1>2, <1>3
<1>5. PICK f : Steps(f, x - 1, a, step)
  BY <1>4
<1>. DEFINE v == step[<<x, f[x - 1]>>]
            g == [i \in 0 .. x |-> IF i = x THEN v ELSE f[i]]
<1>6. v \in Int
  <2>1. f[x - 1] \in Int
    BY <1>4, <1>5 DEF Steps
  <2>. QED  BY <1>4, <2>1
<1>7. g \in [0 .. x -> Int] /\ g[0] = a
  <2>. HIDE DEF v
  <2>. QED  BY <1>4, <1>5, <1>6 DEF Steps
<1>8. ASSUME NEW i \in 1 .. x PROVE g[i] = step[<<i, g[i - 1]>>]
  <2>1. CASE i = x
    <3>. HIDE DEF v
    <3>1. g[x] = v /\ g[x - 1] = f[x - 1]
      BY <1>4
    <3>. QED  BY <2>1, <3>1 DEF v
  <2>2. CASE i # x
    <3>1. i \in 1 .. (x - 1) /\ g[i] = f[i] /\ g[i - 1] = f[i - 1]
      BY <1>4, <2>2
    <3>. QED  BY <1>5, <3>1 DEF Steps
  <2>. QED  BY <2>1, <2>2
<1>. HIDE DEF g
<1>9. Steps(g, x, a, step)
  BY <1>7, <1>8 DEF Steps
<1>. QED  BY <1>9

(* What a function does that takes such steps.                             *)
LEMMA StepsTyped ==
  ASSUME NEW n \in Nat, NEW a \in Int, NEW step \in [(1 .. n) \X Int -> Int],
         NEW f, f[0] = a,
         \A i \in 1 .. n : f[i - 1] \in Int => f[i] = step[<<i, f[i - 1]>>]
  PROVE  \A k \in 0 .. n : f[k] \in Int
<1>. DEFINE T == {k \in 0 .. n : f[k] \notin Int}
<1>1. SUFFICES ASSUME T # {} PROVE FALSE
  OBVIOUS
<1>2. PICK x \in T : \A y \in T : x <= y
  <2>1. T \in SUBSET Nat
    OBVIOUS
  <2>. HIDE DEF T
  <2>. QED  BY <1>1, <2>1, Least
<1>3. x \in 1 .. n /\ x - 1 \in 0 .. n /\ x - 1 \notin T
  BY <1>2
<1>4. f[x - 1] \in Int
  BY <1>3
<1>. QED  BY <1>2, <1>3, <1>4

-----------------------------------------------------------------------------
(* Fusion.                                                                 *)

LEMMA DoubledTyped ==
  ASSUME NEW n \in Nat
  PROVE  Doubled(n) \in Int
<1>. DEFINE step == [at \in (1 .. n) \X Int |-> 2 * at[2]]
            Is(f) == f = [k \in 0 .. n |-> IF k = 0 THEN 1 ELSE 2 * f[k - 1]]
            p == CHOOSE f : Is(f)
<1>1. step \in [(1 .. n) \X Int -> Int]
  OBVIOUS
<1>2. \A i \in 1 .. n, v \in Int : step[<<i, v>>] = 2 * v
  OBVIOUS
<1>. HIDE DEF step
<1>3. PICK f : Steps(f, n, 1, step)
  BY <1>1, StepsExist
<1>4. Is(f)
  <2>1. ASSUME NEW k \in 0 .. n PROVE f[k] = IF k = 0 THEN 1 ELSE 2 * f[k - 1]
    <3>1. CASE k = 0
      BY <1>3, <3>1 DEF Steps
    <3>2. CASE k # 0
      <4>1. k \in 1 .. n /\ f[k - 1] \in Int /\ f[k] = step[<<k, f[k - 1]>>]
        BY <1>3, <3>2 DEF Steps
      <4>. QED  BY <1>2, <3>2, <4>1
    <3>. QED  BY <3>1, <3>2
  <2>2. f = [k \in 0 .. n |-> f[k]]
    BY <1>3 DEF Steps
  <2>. QED  BY <2>1, <2>2
<1>5. Is(p)
  BY <1>4
<1>6. Doubled(n) = p[n]
  BY DEF Doubled
<1>. HIDE DEF p
<1>7. p[0] = 1 /\ \A i \in 1 .. n : p[i - 1] \in Int => p[i] = step[<<i, p[i - 1]>>]
  <2>1. \A k \in 0 .. n : p[k] = IF k = 0 THEN 1 ELSE 2 * p[k - 1]
    BY <1>5
  <2>2. \A i \in 1 .. n : p[i] = 2 * p[i - 1]
    BY <2>1
  <2>. QED  BY <1>2, <2>1, <2>2
<1>. HIDE DEF Is
<1>8. \A k \in 0 .. n : p[k] \in Int
  BY <1>1, <1>7, StepsTyped, 1 \in Int
<1>. QED  BY <1>6, <1>8

(* Legs a query may have found, in any number.                             *)
Found(legs) == UNION {Items(legs[l]) : l \in 1 .. Len(legs)}

Fusible(legs) ==
  legs \in Seq(Leg) /\ \A l \in 1 .. Len(legs) : Len(legs[l]) <= Pool

LEMMA LegItems ==
  ASSUME NEW leg \in Leg
  PROVE  Len(leg) \in Nat /\ Items(leg) \subseteq ChunkId
BY DEF Leg, Items, ChunkId

LEMMA FusibleLegs ==
  ASSUME NEW legs, Fusible(legs)
  PROVE  /\ Len(legs) \in Nat
         /\ \A l \in 1 .. Len(legs) : /\ legs[l] \in Leg /\ Len(legs[l]) \in Nat
                                      /\ Len(legs[l]) <= Pool
         /\ Found(legs) \subseteq ChunkId
<1>1. Len(legs) \in Nat /\ \A l \in 1 .. Len(legs) : legs[l] \in Leg
  BY ElementOfSeq, LenProperties DEF Fusible
<1>2. \A l \in 1 .. Len(legs) : Len(legs[l]) \in Nat /\ Items(legs[l]) \subseteq ChunkId
  BY <1>1, LegItems
<1>. QED  BY <1>1, <1>2 DEF Found, Fusible

LEMMA ShareTyped ==
  ASSUME NEW legs, Fusible(legs), NEW l \in 1 .. Len(legs), NEW c
  PROVE  Share(legs, l, c) \in Int
<1>. DEFINE rank == CHOOSE k \in 1 .. Len(legs[l]) : legs[l][k] = c
<1>1. CASE c \notin Items(legs[l])
  BY <1>1 DEF Share
<1>2. CASE c \in Items(legs[l])
  <2>1. rank \in 1 .. Len(legs[l])
    BY <1>2 DEF Items
  <2>2. Len(legs[l]) \in Nat
    BY FusibleLegs
  <2>3. RrfK + rank \in Nat \ {0}
    BY <2>1, <2>2 DEF RrfK
  <2>4. Share(legs, l, c) = Weight(legs, l) * (Scale \div (RrfK + rank))
    BY <1>2 DEF Share
  <2>. HIDE DEF rank
  <2>. DEFINE d == Scale \div (RrfK + rank)
  <2>5. d \in Int
    BY <2>3, RetrievalAssumption
  <2>. HIDE DEF d
  <2>6. Weight(legs, l) * d \in Int
    <3>1. Weight(legs, l) = 1 \/ Weight(legs, l) = 2
      BY DEF Weight
    <3>2. 1 * d \in Int /\ 2 * d \in Int
      BY <2>5
    <3>. QED  BY <3>1, <3>2
  <2>. QED  BY <2>4, <2>6 DEF d
<1>. QED  BY <1>1, <1>2

(* A score is a sum, leg by leg.                                           *)
LEMMA RrfRecurs ==
  ASSUME NEW legs, Fusible(legs), NEW c
  PROVE  \E p : /\ Rrf(legs, c) = p[Len(legs)] /\ p[0] = 0
                /\ \A l \in 0 .. Len(legs) : p[l] \in Int
                /\ \A l \in 1 .. Len(legs) : p[l] = p[l - 1] + Share(legs, l, c)
<1>. DEFINE n == Len(legs)
            share == [l \in 1 .. n |-> Share(legs, l, c)]
            step == [at \in (1 .. n) \X Int |-> at[2] + share[at[1]]]
            Is(f) == f = [l \in 0 .. n |-> IF l = 0 THEN 0 ELSE f[l - 1] + Share(legs, l, c)]
            p == CHOOSE f : Is(f)
<1>1. n \in Nat /\ share \in [1 .. n -> Int]
  BY FusibleLegs, ShareTyped
<1>2. \A l \in 1 .. n : Share(legs, l, c) = share[l]
  OBVIOUS
<1>3. Rrf(legs, c) = p[n]
  BY DEF Rrf
<1>. HIDE DEF share, n
<1>4. step \in [(1 .. n) \X Int -> Int]
  BY <1>1
<1>5. \A i \in 1 .. n, v \in Int : step[<<i, v>>] = v + share[i]
  OBVIOUS
<1>. HIDE DEF step
<1>6. PICK f : Steps(f, n, 0, step)
  BY <1>1, <1>4, StepsExist, 0 \in Int
<1>7. Is(f)
  <2>1. ASSUME NEW k \in 0 .. n
        PROVE  f[k] = IF k = 0 THEN 0 ELSE f[k - 1] + Share(legs, k, c)
    <3>1. CASE k = 0
      BY <1>6, <3>1 DEF Steps
    <3>2. CASE k # 0
      <4>1. k \in 1 .. n /\ f[k - 1] \in Int /\ f[k] = step[<<k, f[k - 1]>>]
        BY <1>1, <1>6, <3>2 DEF Steps
      <4>. QED  BY <1>2, <1>5, <3>2, <4>1
    <3>. QED  BY <3>1, <3>2
  <2>2. f = [k \in 0 .. n |-> f[k]]
    BY <1>6 DEF Steps
  <2>. QED  BY <2>1, <2>2
<1>8. Is(p)
  BY <1>7
<1>. HIDE DEF p
<1>9. p[0] = 0 /\ \A i \in 1 .. n : p[i] = p[i - 1] + share[i]
  <2>1. \A k \in 0 .. n : p[k] = IF k = 0 THEN 0 ELSE p[k - 1] + Share(legs, k, c)
    BY <1>8
  <2>. QED  BY <1>1, <1>2, <2>1
<1>. HIDE DEF Is
<1>10. \A i \in 1 .. n : p[i - 1] \in Int => p[i] = step[<<i, p[i - 1]>>]
  BY <1>5, <1>9
<1>11. \A k \in 0 .. n : p[k] \in Int
  BY <1>1, <1>4, <1>9, <1>10, StepsTyped, 0 \in Int
<1>. QED  BY <1>2, <1>3, <1>9, <1>11 DEF n

LEMMA RrfTyped ==
  ASSUME NEW legs, Fusible(legs), NEW c
  PROVE  Rrf(legs, c) \in Int
<1>1. PICK p : Rrf(legs, c) = p[Len(legs)] /\ \A l \in 0 .. Len(legs) : p[l] \in Int
  BY RrfRecurs
<1>2. Len(legs) \in 0 .. Len(legs)
  BY FusibleLegs
<1>. QED  BY <1>1, <1>2

(* Every chunk that was found appears first somewhere, and no two there.   *)
Lexically(a, b) == a[1] < b[1] \/ (a[1] = b[1] /\ a[2] < b[2])

LEMMA FirstAppearance ==
  ASSUME NEW legs, Fusible(legs), NEW c \in Found(legs)
  PROVE  \E at \in Appearances(legs, c) :
           \A other \in Appearances(legs, c) : at = other \/ Lexically(at, other)
<1>. DEFINE A  == Appearances(legs, c)
            Ls == {at[1] : at \in A}
<1>1. A \subseteq Nat \X Nat
  BY FusibleLegs, RetrievalAssumption DEF Appearances
<1>2. A # {}
  <2>1. PICK l \in 1 .. Len(legs) : c \in Items(legs[l])
    BY DEF Found
  <2>2. PICK k \in 1 .. Len(legs[l]) : legs[l][k] = c
    BY <2>1 DEF Items
  <2>3. k \in 1 .. Pool /\ k <= Len(legs[l])
    BY <2>2, FusibleLegs, RetrievalAssumption
  <2>4. <<l, k>> \in (1 .. Len(legs)) \X (1 .. Pool) /\ <<l, k>>[1] = l /\ <<l, k>>[2] = k
    BY <2>3
  <2>5. <<l, k>> \in Appearances(legs, c)
    BY <2>2, <2>3, <2>4 DEF Appearances
  <2>. QED  BY <2>5
<1>. HIDE DEF A
<1>3. Ls \in SUBSET Nat /\ Ls # {}
  BY <1>1, <1>2
<1>4. PICK l \in Ls : \A m \in Ls : l <= m
  <2>. HIDE DEF Ls
  <2>. QED  BY <1>3, Least
<1>. DEFINE Ks == {at[2] : at \in {x \in A : x[1] = l}}
<1>5. Ks \in SUBSET Nat /\ Ks # {}
  BY <1>1, <1>4
<1>6. PICK k \in Ks : \A m \in Ks : k <= m
  <2>. HIDE DEF Ks
  <2>. QED  BY <1>5, Least
<1>7. PICK at \in A : at[1] = l /\ at[2] = k
  BY <1>6
<1>8. ASSUME NEW other \in A PROVE at = other \/ Lexically(at, other)
  <2>1. l <= other[1] /\ other[1] \in Nat /\ other[2] \in Nat /\ l \in Nat /\ k \in Nat
    BY <1>1, <1>4, <1>7
  <2>2. other[1] = l => k <= other[2]
    BY <1>6
  <2>3. at = <<l, k>> /\ other = <<other[1], other[2]>>
    BY <1>1, <1>7
  <2>. QED  BY <2>1, <2>2, <2>3, <1>7 DEF Lexically
<1>. QED  BY <1>7, <1>8 DEF A

LEMMA SoonerOrders ==
  ASSUME NEW legs, Fusible(legs)
  PROVE  StrictOrder(Found(legs), {pair \in Found(legs) \X Found(legs) :
                                     Sooner(legs, pair[1], pair[2])})
<1>. DEFINE F == Found(legs)
            A(c) == Appearances(legs, c)
            R == {pair \in F \X F : Sooner(legs, pair[1], pair[2])}
<1>1. \A c, d \in F : <<c, d>> \in R <=> \E a \in A(c) : \A b \in A(d) : Lexically(a, b)
  BY DEF Sooner, Lexically
<1>2. \A c : A(c) \subseteq Nat \X Nat /\ \A at \in A(c) : legs[at[1]][at[2]] = c
  BY FusibleLegs, RetrievalAssumption DEF Appearances
<1>3. \A c \in F : \E a \in A(c) : \A b \in A(c) : a = b \/ Lexically(a, b)
  BY FirstAppearance
<1>. HIDE DEF R, F, A
<1>4. /\ \A a \in Nat \X Nat : ~Lexically(a, a)
      /\ \A a, b, e \in Nat \X Nat : Lexically(a, b) /\ Lexically(b, e) => Lexically(a, e)
      /\ \A a, b \in Nat \X Nat : a = b \/ Lexically(a, b) \/ Lexically(b, a)
  <2>1. \A a \in Nat \X Nat : a = <<a[1], a[2]>> /\ a[1] \in Nat /\ a[2] \in Nat
    OBVIOUS
  <2>2. \A a \in Nat \X Nat : ~Lexically(a, a)
    BY <2>1 DEF Lexically
  <2>3. ASSUME NEW a \in Nat \X Nat, NEW b \in Nat \X Nat, NEW e \in Nat \X Nat,
               Lexically(a, b), Lexically(b, e)
        PROVE  Lexically(a, e)
    <3>1. /\ a[1] \in Nat /\ a[2] \in Nat /\ b[1] \in Nat /\ b[2] \in Nat
          /\ e[1] \in Nat /\ e[2] \in Nat
      BY <2>1
    <3>. QED  BY <2>3, <3>1 DEF Lexically
  <2>4. ASSUME NEW a \in Nat \X Nat, NEW b \in Nat \X Nat, a # b
        PROVE  Lexically(a, b) \/ Lexically(b, a)
    <3>1. a[1] # b[1] \/ a[2] # b[2]
      BY <2>1, <2>4
    <3>. QED  BY <2>1, <3>1 DEF Lexically
  <2>5. \A a, b, e \in Nat \X Nat : Lexically(a, b) /\ Lexically(b, e) => Lexically(a, e)
    BY <2>3
  <2>6. \A a, b \in Nat \X Nat : a = b \/ Lexically(a, b) \/ Lexically(b, a)
    BY <2>4
  <2>. QED  BY <2>2, <2>5, <2>6
<1>5. \A c \in F : <<c, c>> \notin R
  BY <1>1, <1>2, <1>4
<1>6. ASSUME NEW c \in F, NEW d \in F, NEW e \in F, <<c, d>> \in R, <<d, e>> \in R
      PROVE  <<c, e>> \in R
  <2>1. PICK a \in A(c) : \A b \in A(d) : Lexically(a, b)
    BY <1>1, <1>6
  <2>2. PICK b \in A(d) : \A x \in A(e) : Lexically(b, x)
    BY <1>1, <1>6
  <2>3. \A x \in A(e) : Lexically(a, x)
    BY <1>2, <1>4, <2>1, <2>2
  <2>. QED  BY <1>1, <2>3
<1>7. ASSUME NEW c \in F, NEW d \in F, c # d PROVE <<c, d>> \in R \/ <<d, c>> \in R
  <2>1. PICK a \in A(c) : \A b \in A(c) : a = b \/ Lexically(a, b)
    BY <1>3
  <2>2. PICK b \in A(d) : \A x \in A(d) : b = x \/ Lexically(b, x)
    BY <1>3
  <2>3. a \in Nat \X Nat /\ b \in Nat \X Nat /\ a # b
    BY <1>2, <1>7
  <2>4. CASE Lexically(a, b)
    <3>1. \A x \in A(d) : Lexically(a, x)
      BY <1>2, <1>4, <2>2, <2>3, <2>4
    <3>. QED  BY <1>1, <3>1
  <2>5. CASE Lexically(b, a)
    <3>1. \A x \in A(c) : Lexically(b, x)
      BY <1>2, <1>4, <2>1, <2>3, <2>5
    <3>. QED  BY <1>1, <3>1
  <2>. QED  BY <1>4, <2>3, <2>4, <2>5
<1>8. StrictOrder(F, R)
  BY <1>5, <1>6, <1>7 DEF StrictOrder
<1>. QED  BY <1>8 DEF F, R

LEMMA FoundFinite ==
  ASSUME NEW legs, Fusible(legs)
  PROVE  IsFiniteSet(Found(legs))
<1>. DEFINE All == {Items(legs[l]) : l \in 1 .. Len(legs)}
            g   == [l \in 1 .. Len(legs) |-> Items(legs[l])]
<1>1. ASSUME NEW l \in 1 .. Len(legs) PROVE IsFiniteSet(Items(legs[l]))
  <2>. DEFINE leg == legs[l]
              m   == Len(leg)
              h   == [k \in 1 .. m |-> leg[k]]
  <2>1. m \in Nat
    BY FusibleLegs
  <2>. HIDE DEF m
  <2>2. IsFiniteSet(1 .. m)
    BY <2>1, FS_Interval
  <2>3. h \in Surjection(1 .. m, Items(leg))
    BY DEF Surjection, Items, m
  <2>. HIDE DEF h, leg
  <2>4. IsFiniteSet(Items(leg))
    BY <2>2, <2>3, FS_Surjection
  <2>. QED  BY <2>4 DEF leg
<1>2. IsFiniteSet(1 .. Len(legs))
  BY FusibleLegs, FS_Interval
<1>3. g \in Surjection(1 .. Len(legs), All)
  BY DEF Surjection
<1>4. \A T \in All : IsFiniteSet(T)
  BY <1>1
<1>. HIDE DEF g, All
<1>5. IsFiniteSet(UNION All)
  BY <1>2, <1>3, <1>4, FS_Surjection, FS_UNION
<1>. QED  BY <1>5 DEF All, Found

(* The ranking of the items of a set, with their scores.                   *)
Ranking(T) == Seq([item : T, score : Int])

LEMMA FuseTyped ==
  ASSUME NEW legs, Fusible(legs)
  PROVE  FuseRRF(legs) \in Ranking(Found(legs))
<1>. DEFINE F     == Found(legs)
            score == [c \in F |-> Rrf(legs, c)]
            tie   == {pair \in F \X F : Sooner(legs, pair[1], pair[2])}
            items == Sorted(F, score, tie)
            n     == Cardinality(F)
            fused == [k \in 1 .. Len(items) |-> [item |-> items[k], score |-> Rrf(legs, items[k])]]
<1>1. FuseRRF(legs) = fused
  BY DEF FuseRRF, Found
<1>2. IsFiniteSet(F)
  BY FoundFinite
<1>3. StrictOrder(F, tie)
  BY SoonerOrders
<1>4. score \in [F -> Int] /\ \A c : Rrf(legs, c) \in Int
  BY RrfTyped
<1>. HIDE DEF F, tie, score
<1>5. n \in Nat /\ items \in [1 .. n -> F]
  BY <1>2, <1>3, <1>4, SortedTyped
<1>. HIDE DEF items, n
<1>6. Len(items) = n
  BY <1>5, SeqOfFunction
<1>7. fused \in [1 .. n -> [item : F, score : Int]]
  BY <1>4, <1>5, <1>6
<1>. HIDE DEF fused
<1>8. fused \in Seq([item : F, score : Int])
  BY <1>5, <1>7, SeqOfFunction
<1>. QED  BY <1>1, <1>8 DEF Ranking, F

LEMMA RankingAt ==
  ASSUME NEW T, NEW s \in Ranking(T)
  PROVE  /\ Len(s) \in Nat
         /\ \A k \in 1 .. Len(s) : /\ s[k] \in [item : T, score : Int]
                                   /\ s[k].item \in T /\ s[k].score \in Int
<1>1. Len(s) \in Nat /\ \A k \in 1 .. Len(s) : s[k] \in [item : T, score : Int]
  BY ElementOfSeq, LenProperties DEF Ranking
<1>. QED  BY <1>1

LEMMA ResortedTyped ==
  ASSUME NEW T, NEW s \in Ranking(T)
  PROVE  Resorted(s) \in Ranking(T)
<1>. DEFINE n      == Len(s)
            places == 1 .. n
            score  == [k \in places |-> s[k].score]
            tie    == {pair \in places \X places : pair[1] < pair[2]}
            order  == Sorted(places, score, tie)
            sorted == [k \in places |-> s[order[k]]]
<1>1. n \in Nat /\ score \in [places -> Int] /\ \A k \in places : s[k] \in [item : T, score : Int]
  BY RankingAt
<1>2. Resorted(s) = sorted
  BY DEF Resorted
<1>. HIDE DEF n, score
<1>3. IsFiniteSet(places) /\ Cardinality(places) = n
  BY <1>1, FS_Interval
<1>4. StrictOrder(places, tie)
  BY <1>1 DEF StrictOrder
<1>. HIDE DEF tie
<1>5. order \in [1 .. n -> places]
  <2>. HIDE DEF places
  <2>. QED  BY <1>1, <1>3, <1>4, SortedTyped
<1>. HIDE DEF order
<1>6. sorted \in [1 .. n -> [item : T, score : Int]]
  BY <1>1, <1>5
<1>. HIDE DEF sorted
<1>7. sorted \in Seq([item : T, score : Int])
  BY <1>1, <1>6, SeqOfFunction
<1>. QED  BY <1>2, <1>7 DEF Ranking

LEMMA RescoredTyped ==
  ASSUME NEW T, NEW s \in Ranking(T), NEW factor \in [1 .. Len(s) -> Int]
  PROVE  Rescored(s, factor) \in Ranking(T)
<1>. DEFINE n == Len(s)
            r == [k \in 1 .. n |-> [s[k] EXCEPT !.score = @ * factor[k]]]
<1>1. n \in Nat
  BY RankingAt
<1>2. ASSUME NEW k \in 1 .. n
      PROVE  [s[k] EXCEPT !.score = @ * factor[k]] \in [item : T, score : Int]
  <2>. DEFINE x == s[k]
              v == x.score * factor[k]
  <2>1. x \in [item : T, score : Int] /\ x.score \in Int /\ factor[k] \in Int
    BY RankingAt
  <2>2. v \in Int
    BY <2>1
  <2>. HIDE DEF v
  <2>3. [x EXCEPT !.score = v] \in [item : T, score : Int]
    BY <2>1, <2>2
  <2>. QED  BY <2>3 DEF v
<1>3. Rescored(s, factor) = Resorted(r)
  BY DEF Rescored
<1>. HIDE DEF n
<1>4. r \in [1 .. n -> [item : T, score : Int]]
  BY <1>2
<1>. HIDE DEF r
<1>5. r \in Ranking(T)
  BY <1>1, <1>4, SeqOfFunction DEF Ranking
<1>. QED  BY <1>3, <1>5, ResortedTyped

LEMMA DecayTyped ==
  ASSUME NEW T, NEW s \in Ranking(T), NEW k \in 1 .. Len(s)
  PROVE  Doubled(Len(s) - Repeats(s, k)) \in Int
<1>. DEFINE m      == k - 1
            before == {l \in 1 .. m : s[l].item[1] = s[k].item[1]}
<1>1. m \in Nat /\ m <= Len(s) /\ Len(s) \in Nat
  BY RankingAt
<1>2. Repeats(s, k) = Cardinality(before)
  BY DEF Repeats
<1>. HIDE DEF m
<1>3. IsFiniteSet(1 .. m) /\ Cardinality(1 .. m) <= m
  <2>1. 1 \in Int /\ m \in Int
    BY <1>1
  <2>2. IsFiniteSet(1 .. m) /\ Cardinality(1 .. m) = IF 1 > m THEN 0 ELSE m - 1 + 1
    BY <2>1, FS_Interval
  <2>. QED  BY <1>1, <2>2
<1>4. before \in SUBSET (1 .. m)
  OBVIOUS
<1>. HIDE DEF before
<1>5. IsFiniteSet(before) /\ Cardinality(before) <= Cardinality(1 .. m)
  BY <1>3, <1>4, FS_Subset
<1>6. Cardinality(before) \in Nat /\ Cardinality(1 .. m) \in Nat
  BY <1>3, <1>5, FS_CardinalityType
<1>7. Len(s) - Repeats(s, k) \in Nat
  BY <1>1, <1>2, <1>3, <1>5, <1>6
<1>. QED  BY <1>7, DoubledTyped

LEMMA DiscountsTyped ==
  ASSUME NEW T \in SUBSET ChunkId, NEW s \in Ranking(T)
  PROVE  /\ \A stale : Penalized(s, stale) \in Ranking(T)
         /\ \A bias \in [{Category[n] : n \in Notes} -> Nat] : Biased(s, bias) \in Ranking(T)
         /\ Diversified(s) \in Ranking(T)
<1>1. Len(s) \in Nat /\ \A k \in 1 .. Len(s) : s[k].item \in ChunkId /\ s[k].item[1] \in Notes
  <2>1. Len(s) \in Nat /\ \A k \in 1 .. Len(s) : s[k].item \in T
    BY RankingAt
  <2>. QED  BY <2>1 DEF ChunkId
<1>2. ASSUME NEW stale PROVE Penalized(s, stale) \in Ranking(T)
  <2>. DEFINE factor == [k \in 1 .. Len(s) |-> IF s[k].item[1] \in stale THEN 3 ELSE 20]
  <2>1. factor \in [1 .. Len(s) -> Int]
    OBVIOUS
  <2>. HIDE DEF factor
  <2>2. Rescored(s, factor) \in Ranking(T)
    BY <2>1, RescoredTyped
  <2>. QED  BY <2>2 DEF Penalized, factor
<1>3. ASSUME NEW bias \in [{Category[n] : n \in Notes} -> Nat] PROVE Biased(s, bias) \in Ranking(T)
  <2>. DEFINE factor == [k \in 1 .. Len(s) |-> bias[Category[s[k].item[1]]]]
  <2>1. factor \in [1 .. Len(s) -> Int]
    BY <1>1
  <2>. HIDE DEF factor
  <2>2. Rescored(s, factor) \in Ranking(T)
    BY <2>1, RescoredTyped
  <2>. QED  BY <2>2 DEF Biased, factor
<1>4. Diversified(s) \in Ranking(T)
  <2>. DEFINE factor == [k \in 1 .. Len(s) |-> Doubled(Len(s) - Repeats(s, k))]
  <2>1. \A k \in 1 .. Len(s) : Doubled(Len(s) - Repeats(s, k)) \in Int
    BY DecayTyped
  <2>2. factor \in [1 .. Len(s) -> Int]
    BY <2>1
  <2>. HIDE DEF factor
  <2>3. Rescored(s, factor) \in Ranking(T)
    BY <2>2, RescoredTyped
  <2>. QED  BY <2>3 DEF Diversified, factor
<1>. QED  BY <1>2, <1>3, <1>4

(* Hits are found by the legs, and no more of them than were asked for.    *)
LEMMA HitsFound ==
  ASSUME NEW legs, Fusible(legs), NEW stale, NEW ask \in Ask
  PROVE  /\ Hits(legs, stale, ask) \in Leg
         /\ Len(Hits(legs, stale, ask)) <= ask.topK
         /\ Items(Hits(legs, stale, ask)) \subseteq Found(legs)
<1>. DEFINE F == Found(legs)
            p == Penalized(FuseRRF(legs), stale)
            b == Biased(p, ask.bias)
            d == Diversified(b)
            items == [k \in 1 .. Len(d) |-> d[k].item]
<1>1. F \in SUBSET ChunkId
  BY FusibleLegs
<1>2. ask.topK \in Nat /\ ask.bias \in [{Category[n] : n \in Notes} -> Nat]
  BY DEF Ask
<1>3. FuseRRF(legs) \in Ranking(F)
  BY FuseTyped
<1>4. p \in Ranking(F)
  BY <1>1, <1>3, DiscountsTyped
<1>. HIDE DEF F, p
<1>5. b \in Ranking(F)
  BY <1>1, <1>2, <1>4, DiscountsTyped
<1>. HIDE DEF b
<1>6. d \in Ranking(F)
  BY <1>1, <1>5, DiscountsTyped
<1>. HIDE DEF d
<1>7. Len(d) \in Nat /\ items \in [1 .. Len(d) -> F]
  BY <1>6, RankingAt
<1>8. Hits(legs, stale, ask) = First(items, ask.topK)
  BY DEF Hits, d, b, p
<1>. HIDE DEF items
<1>9. items \in Seq(F)
  BY <1>7, SeqOfFunction
<1>10. /\ First(items, ask.topK) \in Seq(F) /\ Len(First(items, ask.topK)) <= ask.topK
       /\ Items(First(items, ask.topK)) \subseteq F
  BY <1>2, <1>9, FirstTyped, ItemsOfSeq
<1>11. First(items, ask.topK) \in Leg
  BY <1>1, <1>10, SeqMonotonic DEF Leg, ChunkId
<1>. QED  BY <1>8, <1>10, <1>11 DEF F

-----------------------------------------------------------------------------
(* The inductive invariant.                                                *)

Stored ==
  /\ row \in Rows /\ mints \in Nat /\ now \in Nat
  /\ quiet \in BOOLEAN /\ budget \in Bounds

(* What every leg has found, and so what the hits are, was offered; while  *)
(* the query runs, what its filter lets through now is.                    *)
Asked ==
  /\ query \in Query /\ query.hint \subseteq Indexed(row)
  /\ \A p \in 1 .. Providers : query.vector[p] # None => LegOf(query.vector[p], offered)
  /\ LegOf(query.conjunction, offered) /\ LegOf(query.keyword, offered)
  /\ LegOf(query.graph, offered)
  /\ query.pc = "rank" => \A p \in 1 .. Providers : query.vector[p] # None
  /\ Running => query.ask \in Asks /\ Through(row, query.ask) \subseteq offered
  /\ query.ask # None => Len(query.hits) <= query.ask.topK
  /\ Items(query.hits) \subseteq offered

(* What a row tells of the days since its frontmatter was written: nothing *)
(* changed it since but its shelving, whose day it has.                    *)
StatusOn(r, day) ==
  IF r.created > day THEN None
  ELSE IF r.status # "active" /\ r.since > day THEN "active" ELSE r.status

Dated ==
  /\ now \in Nat /\ past \in Seq([Notes -> Statuses \cup {None}]) /\ Len(past) = now - 1
  /\ told \in [Notes -> Nat] /\ \A n \in Notes : row[n] = None => told[n] = 0
  /\ \A n \in Indexed(row) : /\ row[n].created <= now \/ row[n].created <= told[n]
                             /\ row[n].since <= now \/ row[n].since <= told[n]
  /\ \A day \in 1 .. Len(past), n \in Notes :
       told[n] <= day =>
         past[day][n] = IF row[n] = None THEN None ELSE StatusOn(row[n], day)

IInv == Stored /\ Asked /\ Dated

LEMMA NoLeg ==
  ASSUME NEW S
  PROVE  LegOf(<<>>, S) /\ Items(<<>>) = {} /\ <<>> \in Leg /\ Len(<<>>) = 0
<1>1. <<>> \in Leg /\ Len(<<>>) = 0 /\ 1 .. 0 = {}
  BY EmptySeq DEF Leg
<1>. QED  BY <1>1, RetrievalAssumption DEF LegOf, Items

LEMMA NoQueryTyped ==
  /\ NoQuery \in Query /\ NoQuery.hint = {} /\ NoQuery.hits = <<>> /\ NoQuery.pc = "idle"
  /\ NoQuery.ask = None /\ \A p \in 1 .. Providers : NoQuery.vector[p] = None
  /\ NoQuery.conjunction = <<>> /\ NoQuery.keyword = <<>> /\ NoQuery.graph = <<>>
<1>1. <<>> \in Leg
  BY NoLeg
<1>. QED  BY <1>1 DEF NoQuery, Query

LEMMA AskTyped ==
  ASSUME NEW ask \in Asks
  PROVE  ask \in Ask /\ ask.topK \in Nat
BY RetrievalAssumption DEF Ask

(* The index changes by one row.                                           *)
LEMMA RowChanged ==
  ASSUME NEW rows \in Rows, NEW n \in Notes, NEW r \in Row
  PROVE  /\ [rows EXCEPT ![n] = r] \in Rows
         /\ Indexed(rows) \subseteq Indexed([rows EXCEPT ![n] = r])
         /\ Indexed([rows EXCEPT ![n] = r]) \subseteq Indexed(rows) \cup {n}
BY RetrievalAssumption DEF Rows, Indexed

-----------------------------------------------------------------------------
(* It is invariant.                                                        *)

LEMMA InitOK == Init => IInv
<1>. SUFFICES ASSUME Init PROVE IInv
  OBVIOUS
<1>1. Stored
  BY RetrievalAssumption DEF Init, Stored, Rows
<1>2. Asked
  <2>1. query = NoQuery
    BY DEF Init
  <2>. QED  BY <2>1, NoQueryTyped, NoLeg DEF Asked, Running
<1>3. Dated
  <2>1. past = <<>> /\ now = 1 /\ row \in Starts
    BY DEF Init
  <2>2. past \in Seq([Notes -> Statuses \cup {None}]) /\ Len(past) = 0
    BY <2>1, EmptySeq
  <2>3. \A n \in Indexed(row) : row[n].created <= now /\ row[n].since <= now
    BY <2>1, RetrievalAssumption DEF Indexed
  <2>4. told \in [Notes -> Nat] /\ \A n \in Notes : told[n] = 0
    BY DEF Init
  <2>. QED  BY <2>1, <2>2, <2>3, <2>4 DEF Dated
<1>. QED  BY <1>1, <1>2, <1>3 DEF IInv

(* A step that only asks leaves the rest of the invariant alone.           *)
LEMMA UndisturbedKeeps ==
  ASSUME IInv, Undisturbed, budget' \in Bounds
  PROVE  /\ Stored' /\ Dated' /\ Indexed(row)' = Indexed(row) /\ row \in Rows
         /\ row' = row /\ offered' = offered
<1>1. Stored'
  BY DEF IInv, Stored, Undisturbed, Rows
<1>2. Dated'
  BY DEF IInv, Dated, Undisturbed, Indexed
<1>. QED  BY <1>1, <1>2 DEF IInv, Stored, Undisturbed, Indexed

LEMMA ReadsKeep ==
  ASSUME IInv, Reads
  PROVE  /\ Stored' /\ Dated' /\ Indexed(row)' = Indexed(row) /\ row \in Rows
         /\ row' = row /\ offered' = offered
<1>1. Undisturbed /\ budget' \in Bounds
  BY DEF IInv, Stored, Reads
<1>. QED  BY <1>1, UndisturbedKeeps

LEMMA BeginOK == IInv /\ Begin => IInv'
<1>. SUFFICES ASSUME IInv, Begin PROVE IInv'
  OBVIOUS
<1>1. PICK ask \in budget.asks :
        /\ query' = [NoQuery EXCEPT !.pc = "legs", !.ask = ask]
        /\ offered' = Through(row, ask)
  BY DEF Begin
<1>2. ask \in Asks
  BY <1>1 DEF IInv, Stored, Bounds
<1>3. Stored'
  BY DEF IInv, Stored, Begin, Rows
<1>4. Dated'
  BY DEF IInv, Dated, Begin, Indexed
<1>5. /\ query' \in Query /\ query'.hint = {} /\ query'.hits = <<>> /\ query'.pc = "legs"
      /\ query'.ask = ask /\ \A p \in 1 .. Providers : query'.vector[p] = None
      /\ query'.conjunction = <<>> /\ query'.keyword = <<>> /\ query'.graph = <<>>
  BY <1>1, <1>2, NoQueryTyped DEF Query
<1>6. ask.topK \in Nat
  BY <1>2, AskTyped
<1>7. row' = row
  BY DEF Begin
<1>8. Asked'
  BY <1>1, <1>2, <1>5, <1>6, <1>7, NoLeg DEF Asked, Running
<1>. QED  BY <1>3, <1>4, <1>8 DEF IInv

LEMMA RankVectorOK ==
  ASSUME IInv, NEW p \in 1 .. Providers, RankVector(p)
  PROVE  IInv'
<1>1. PICK leg \in VectorLegs(row, query.ask, p) :
        /\ query' = [query EXCEPT !.vector[p] = leg]
        /\ \/ budget' = budget
           \/ budget.strays > 0 /\ budget' = [budget EXCEPT !.strays = @ - 1]
        /\ Undisturbed /\ query.pc = "legs"
  BY DEF RankVector
<1>0. budget' \in Bounds
  BY <1>1 DEF IInv, Stored, Bounds
<1>2. /\ Stored' /\ Dated' /\ Indexed(row)' = Indexed(row) /\ row \in Rows
      /\ row' = row /\ offered' = offered
  BY <1>0, <1>1, UndisturbedKeeps
<1>3. /\ query \in Query /\ Asked /\ Through(row, query.ask) \subseteq offered
  BY <1>1 DEF IInv, Asked, Running
<1>4. LegOf(leg, offered)
  BY <1>2, <1>3, VectorLegTyped, LegOfMore
<1>5. leg \in Leg
  BY <1>4 DEF LegOf
<1>6. /\ query' \in Query
      /\ \A q \in 1 .. Providers : query'.vector[q] = IF q = p THEN leg ELSE query.vector[q]
      /\ query'.conjunction = query.conjunction /\ query'.keyword = query.keyword
      /\ query'.graph = query.graph /\ query'.pc = query.pc /\ query'.ask = query.ask
      /\ query'.hits = query.hits /\ query'.hint = query.hint
  BY <1>1, <1>3, <1>5 DEF Query
<1>7. Asked'
  BY <1>1, <1>2, <1>3, <1>4, <1>6 DEF Asked, Running
<1>. QED  BY <1>2, <1>7 DEF IInv

LEMMA LongerOne ==
  ASSUME NEW leg, NEW other, NEW S, LegOf(leg, S), LegOf(other, S)
  PROVE  LegOf(Longer(leg, other), S)
BY DEF Longer

(* A step of the keyword leg changes that leg alone.                       *)
LEMMA KeywordStep ==
  ASSUME IInv, Reads, query.pc = "legs",
         NEW f \in {"note", "or", "done"}, NEW c, NEW k,
         LegOf(c, offered), LegOf(k, offered),
         query' = [query EXCEPT !.fts = f, !.conjunction = c, !.keyword = k]
  PROVE  IInv'
<1>1. /\ Stored' /\ Dated' /\ Indexed(row)' = Indexed(row) /\ row' = row /\ offered' = offered
  BY ReadsKeep
<1>2. query \in Query /\ Asked /\ c \in Leg /\ k \in Leg
  BY DEF IInv, Asked, LegOf
<1>3. /\ query' \in Query /\ query'.vector = query.vector
      /\ query'.conjunction = c /\ query'.keyword = k
      /\ query'.graph = query.graph /\ query'.pc = query.pc /\ query'.ask = query.ask
      /\ query'.hits = query.hits /\ query'.hint = query.hint
  BY <1>2 DEF Query
<1>4. Asked'
  BY <1>1, <1>2, <1>3 DEF Asked, Running
<1>. QED  BY <1>1, <1>4 DEF IInv

LEMMA RankFTSOK == IInv /\ RankFTS => IInv'
<1>. SUFFICES ASSUME IInv, RankFTS PROVE IInv'
  OBVIOUS
<1>. DEFINE found == AllTerms(row, query.ask)
            next  == Starved(found, "note")
<1>1. Reads /\ query.pc = "legs"
      /\ query' = [query EXCEPT !.fts = next, !.conjunction = found, !.keyword = found]
  BY DEF RankFTS
<1>2. row \in Rows /\ Through(row, query.ask) \subseteq offered
  BY <1>1 DEF IInv, Stored, Asked, Running
<1>3. LegOf(found, offered)
  BY <1>2, KeywordLegsTyped, LegOfMore
<1>4. next \in {"note", "or", "done"}
  BY DEF Starved
<1>. HIDE DEF found, next
<1>. QED  BY <1>1, <1>3, <1>4, KeywordStep

LEMMA RankFTSNoteLevelOK == IInv /\ RankFTSNoteLevel => IInv'
<1>. SUFFICES ASSUME IInv, RankFTSNoteLevel PROVE IInv'
  OBVIOUS
<1>. DEFINE best == Longer(query.keyword, NoteLevel(row, query.ask))
            next == Starved(best, "or")
<1>1. Reads /\ query.pc = "legs" /\ query' = [query EXCEPT !.fts = next, !.keyword = best]
  BY DEF RankFTSNoteLevel
<1>2. /\ row \in Rows /\ Through(row, query.ask) \subseteq offered /\ query \in Query
      /\ LegOf(query.keyword, offered) /\ LegOf(query.conjunction, offered)
  BY <1>1 DEF IInv, Stored, Asked, Running
<1>3. LegOf(best, offered)
  BY <1>2, KeywordLegsTyped, LegOfMore, LongerOne
<1>4. next \in {"note", "or", "done"}
  BY DEF Starved
<1>. HIDE DEF best, next
<1>5. query' = [query EXCEPT !.fts = next, !.conjunction = query.conjunction, !.keyword = best]
  BY <1>1, <1>2 DEF Query
<1>. QED  BY <1>1, <1>2, <1>3, <1>4, <1>5, KeywordStep

LEMMA RankFTSOrOK == IInv /\ RankFTSOr => IInv'
<1>. SUFFICES ASSUME IInv, RankFTSOr PROVE IInv'
  OBVIOUS
<1>. DEFINE best == Longer(query.keyword, AnyTerm(row, query.ask))
<1>1. Reads /\ query.pc = "legs" /\ query' = [query EXCEPT !.fts = "done", !.keyword = best]
  BY DEF RankFTSOr
<1>2. /\ row \in Rows /\ Through(row, query.ask) \subseteq offered /\ query \in Query
      /\ LegOf(query.keyword, offered) /\ LegOf(query.conjunction, offered)
  BY <1>1 DEF IInv, Stored, Asked, Running
<1>3. LegOf(best, offered)
  BY <1>2, KeywordLegsTyped, LegOfMore, LongerOne
<1>. HIDE DEF best
<1>4. query' = [query EXCEPT !.fts = "done", !.conjunction = query.conjunction, !.keyword = best]
  BY <1>1, <1>2 DEF Query
<1>. QED  BY <1>1, <1>2, <1>3, <1>4, KeywordStep

(* Once every primary leg is in, they and the graph leg can be fused.      *)
LEMMA PrimaryIn ==
  ASSUME Asked, \A p \in 1 .. Providers : query.vector[p] # None
  PROVE  /\ Fusible(Primary) /\ Found(Primary) \subseteq offered
         /\ Fusible(Legs) /\ Found(Legs) \subseteq offered
<1>. DEFINE v == query.vector
<1>1. Providers \in Nat /\ query \in Query
  BY RetrievalAssumption DEF Asked
<1>2. v \in [1 .. Providers -> Leg] /\ \A p \in 1 .. Providers : LegOf(v[p], offered)
  BY <1>1 DEF Asked, Query, LegOf
<1>3. v \in Seq(Leg) /\ Len(v) = Providers
  BY <1>1, <1>2, SeqOfFunction
<1>4. /\ LegOf(query.keyword, offered) /\ query.keyword \in Leg
      /\ LegOf(query.graph, offered) /\ query.graph \in Leg
  BY DEF Asked, LegOf
<1>. HIDE DEF v
<1>5. ASSUME NEW legs \in Seq(Leg), NEW leg \in Leg, LegOf(leg, offered),
             \A l \in 1 .. Len(legs) : LegOf(legs[l], offered)
      PROVE  /\ Append(legs, leg) \in Seq(Leg)
             /\ \A l \in 1 .. Len(Append(legs, leg)) : LegOf(Append(legs, leg)[l], offered)
  <2>. DEFINE a == Append(legs, leg)
  <2>1. /\ a \in Seq(Leg) /\ Len(a) = Len(legs) + 1 /\ Len(legs) \in Nat
        /\ \A l \in 1 .. Len(legs) : a[l] = legs[l]
        /\ a[Len(legs) + 1] = leg
    BY AppendProperties, LenProperties
  <2>. HIDE DEF a
  <2>2. ASSUME NEW l \in 1 .. Len(a) PROVE LegOf(a[l], offered)
    <3>1. l \in 1 .. Len(legs) \/ l = Len(legs) + 1
      BY <2>1
    <3>. QED  BY <1>5, <2>1, <3>1
  <2>. QED  BY <2>1, <2>2 DEF a
<1>6. ASSUME NEW legs \in Seq(Leg), \A l \in 1 .. Len(legs) : LegOf(legs[l], offered)
      PROVE  Fusible(legs) /\ Found(legs) \subseteq offered
  BY <1>6 DEF Fusible, Found, LegOf
<1>7. Primary \in Seq(Leg) /\ \A l \in 1 .. Len(Primary) : LegOf(Primary[l], offered)
  <2>1. /\ Append(v, query.keyword) \in Seq(Leg)
        /\ \A l \in 1 .. Len(Append(v, query.keyword)) :
             LegOf(Append(v, query.keyword)[l], offered)
    BY <1>2, <1>3, <1>4, <1>5
  <2>. QED  BY <2>1 DEF Primary, v
<1>8. Legs \in Seq(Leg) /\ \A l \in 1 .. Len(Legs) : LegOf(Legs[l], offered)
  <2>1. /\ Append(Primary, query.graph) \in Seq(Leg)
        /\ \A l \in 1 .. Len(Append(Primary, query.graph)) :
             LegOf(Append(Primary, query.graph)[l], offered)
    BY <1>4, <1>5, <1>7
  <2>. QED  BY <2>1 DEF Legs
<1>. QED  BY <1>6, <1>7, <1>8

LEMMA NotesFound ==
  ASSUME NEW legs, Fusible(legs)
  PROVE  NotesOf(legs) \in SUBSET Notes
<1>1. Found(legs) \subseteq ChunkId
  BY FusibleLegs
<1>2. NotesOf(legs) = {c[1] : c \in Found(legs)}
  BY DEF NotesOf, Found
<1>. QED  BY <1>1, <1>2 DEF ChunkId

LEMMA RankGraphOK == IInv /\ RankGraph => IInv'
<1>. SUFFICES ASSUME IInv, RankGraph PROVE IInv'
  OBVIOUS
<1>. DEFINE leg == GraphLeg(row, query.ask, NotesOf(Primary))
<1>1. /\ Reads /\ query.pc = "legs" /\ \A p \in 1 .. Providers : query.vector[p] # None
      /\ query' = [query EXCEPT !.pc = "rank", !.graph = leg]
  BY DEF RankGraph
<1>2. /\ Stored' /\ Dated' /\ Indexed(row)' = Indexed(row) /\ row \in Rows
      /\ row' = row /\ offered' = offered
  BY <1>1, ReadsKeep
<1>3. query \in Query /\ Asked /\ Through(row, query.ask) \subseteq offered
  BY <1>1 DEF IInv, Asked, Running
<1>4. NotesOf(Primary) \in SUBSET Notes
  BY <1>1, <1>3, PrimaryIn, NotesFound
<1>5. LegOf(leg, offered)
  BY <1>2, <1>3, <1>4, GraphLegTyped, LegOfMore
<1>6. leg \in Leg
  BY <1>5 DEF LegOf
<1>. HIDE DEF leg
<1>7. /\ query' \in Query /\ query'.vector = query.vector
      /\ query'.conjunction = query.conjunction /\ query'.keyword = query.keyword
      /\ query'.graph = leg /\ query'.pc = "rank" /\ query'.ask = query.ask
      /\ query'.hits = query.hits /\ query'.hint = query.hint
  BY <1>1, <1>3, <1>6 DEF Query
<1>8. Asked'
  BY <1>1, <1>2, <1>3, <1>5, <1>7 DEF Asked, Running
<1>. QED  BY <1>2, <1>8 DEF IInv

LEMMA AnswerOK == IInv /\ Answer => IInv'
<1>. SUFFICES ASSUME IInv, Answer PROVE IInv'
  OBVIOUS
<1>. DEFINE stale == ArchivedLinkers(row, NotesOf(Legs))
            hits  == Hits(Legs, stale, query.ask)
<1>1. /\ Reads /\ query.pc = "rank"
      /\ query' = [query EXCEPT !.pc = "hint", !.stale = stale, !.hits = hits]
  BY DEF Answer
<1>2. /\ Stored' /\ Dated' /\ Indexed(row)' = Indexed(row) /\ row \in Rows
      /\ row' = row /\ offered' = offered
  BY <1>1, ReadsKeep
<1>3. /\ query \in Query /\ Asked /\ query.ask \in Ask
      /\ \A p \in 1 .. Providers : query.vector[p] # None
  BY <1>1, AskTyped DEF IInv, Asked, Running
<1>4. Fusible(Legs) /\ Found(Legs) \subseteq offered
  BY <1>3, PrimaryIn
<1>5. stale \in SUBSET Notes
  <2>1. stale \subseteq NotesOf(Legs)
    BY DEF ArchivedLinkers
  <2>. QED  BY <1>4, <2>1, NotesFound
<1>. HIDE DEF stale
<1>6. hits \in Leg /\ Len(hits) <= query.ask.topK /\ Items(hits) \subseteq offered
  BY <1>3, <1>4, HitsFound
<1>. HIDE DEF hits
<1>7. /\ query' \in Query /\ query'.vector = query.vector
      /\ query'.conjunction = query.conjunction /\ query'.keyword = query.keyword
      /\ query'.graph = query.graph /\ query'.pc = "hint" /\ query'.ask = query.ask
      /\ query'.hits = hits /\ query'.hint = query.hint
  BY <1>1, <1>3, <1>5, <1>6 DEF Query
<1>8. Asked'
  BY <1>1, <1>2, <1>3, <1>6, <1>7 DEF Asked, Running
<1>. QED  BY <1>2, <1>8 DEF IInv

LEMMA HintOK == IInv /\ Hint => IInv'
<1>. SUFFICES ASSUME IInv, Hint PROVE IInv'
  OBVIOUS
<1>. DEFINE hint == Suppressed(query.ask)
<1>1. Reads /\ query.pc = "hint" /\ query' = [query EXCEPT !.pc = "answered", !.hint = hint]
  BY DEF Hint
<1>2. /\ Stored' /\ Dated' /\ Indexed(row)' = Indexed(row) /\ row' = row /\ offered' = offered
  BY <1>1, ReadsKeep
<1>3. query \in Query /\ Asked
  BY DEF IInv, Asked
<1>4. hint \subseteq Indexed(row) /\ Indexed(row) \subseteq Notes
  BY DEF Suppressed, Indexed
<1>. HIDE DEF hint
<1>5. /\ query' \in Query /\ query'.vector = query.vector
      /\ query'.conjunction = query.conjunction /\ query'.keyword = query.keyword
      /\ query'.graph = query.graph /\ query'.pc = "answered" /\ query'.ask = query.ask
      /\ query'.hits = query.hits /\ query'.hint = hint
  BY <1>1, <1>3, <1>4 DEF Query
<1>6. Asked'
  BY <1>2, <1>3, <1>4, <1>5 DEF Asked, Running
<1>. QED  BY <1>2, <1>6 DEF IInv

LEMMA FailOK == IInv /\ Fail => IInv'
<1>. SUFFICES ASSUME IInv, Fail PROVE IInv'
  OBVIOUS
<1>. DEFINE pc == IF query.pc = "hint" THEN "answered" ELSE "failed"
<1>1. /\ query' = [query EXCEPT !.pc = pc] /\ budget.faults > 0
      /\ budget' = [budget EXCEPT !.faults = @ - 1]
      /\ UNCHANGED <<row, mints, now, past, told, offered, quiet>>
  BY DEF Fail, Fault, Undisturbed
<1>2. Stored'
  <2>1. budget' \in Bounds
    BY <1>1 DEF IInv, Stored, Bounds
  <2>. QED  BY <1>1, <2>1 DEF IInv, Stored, Rows
<1>3. Dated'
  BY <1>1 DEF IInv, Dated, Indexed
<1>4. query \in Query /\ Asked
  BY DEF IInv, Asked
<1>5. pc \in {"answered", "failed"}
  OBVIOUS
<1>. HIDE DEF pc
<1>6. /\ query' \in Query /\ query'.vector = query.vector
      /\ query'.conjunction = query.conjunction /\ query'.keyword = query.keyword
      /\ query'.graph = query.graph /\ query'.pc = pc /\ query'.ask = query.ask
      /\ query'.hits = query.hits /\ query'.hint = query.hint
  BY <1>1, <1>4, <1>5 DEF Query
<1>7. Indexed(row)' = Indexed(row)
  BY <1>1 DEF Indexed
<1>8. Asked'
  BY <1>1, <1>4, <1>5, <1>6, <1>7 DEF Asked, Running
<1>. QED  BY <1>2, <1>3, <1>8 DEF IInv

(* What is indexed tells the same of the days before.                      *)
LEMMA IndexesOK ==
  ASSUME IInv, NEW n \in Notes, NEW r \in Row, Indexes(n, r),
         told' \in [Notes -> Nat], \A m \in Notes \ {n} : told'[m] = told[m],
         r.created <= now \/ r.created <= told'[n], r.since <= now \/ r.since <= told'[n],
         \A day \in 1 .. Len(past) : told'[n] <= day => past[day][n] = StatusOn(r, day)
  PROVE  IInv'
<1>. DEFINE x == [r EXCEPT !.mint = mints + 1]
<1>1. /\ budget' = [budget EXCEPT !.writes = @ - 1] /\ budget.writes > 0
      /\ row' = [row EXCEPT ![n] = x] /\ mints' = mints + 1
      /\ offered' = IF Running THEN offered \cup Through(row', query.ask) ELSE offered
      /\ quiet' = (quiet /\ ~Running)
      /\ UNCHANGED <<now, query, past>>
  BY DEF Indexes
<1>2. row \in Rows /\ mints \in Nat /\ now \in Nat
  BY DEF IInv, Stored
<1>3. /\ x \in Row /\ x.status = r.status /\ x.created = r.created /\ x.since = r.since
  BY <1>2 DEF Row
<1>. HIDE DEF x
<1>4. /\ row' \in Rows /\ Indexed(row) \subseteq Indexed(row')
      /\ Indexed(row') \subseteq Indexed(row) \cup {n}
  BY <1>1, <1>2, <1>3, RowChanged
<1>5. Stored'
  <2>1. budget' \in Bounds
    BY <1>1 DEF IInv, Stored, Bounds
  <2>2. quiet' \in BOOLEAN
    BY <1>1
  <2>. QED  BY <1>1, <1>2, <1>4, <2>1, <2>2 DEF Stored, Rows
<1>6. Asked'
  <2>1. offered \subseteq offered' /\ (Running => Through(row', query.ask) \subseteq offered')
    BY <1>1
  <2>2. Asked
    BY DEF IInv
  <2>3. /\ \A p \in 1 .. Providers : query.vector[p] # None => LegOf(query.vector[p], offered')
        /\ LegOf(query.conjunction, offered') /\ LegOf(query.keyword, offered')
        /\ LegOf(query.graph, offered') /\ Items(query.hits) \subseteq offered'
    BY <2>1, <2>2, LegOfMore DEF Asked
  <2>4. query.hint \subseteq Indexed(row')
    BY <1>4, <2>2 DEF Asked
  <2>5. query' = query
    BY <1>1
  <2>. QED  BY <2>1, <2>2, <2>3, <2>4, <2>5 DEF Asked, Running, Indexed
<1>7. Dated'
  <2>1. now' = now /\ past' = past /\ Dated
    BY <1>1 DEF IInv
  <2>2. \A m \in Notes : row'[m] = IF m = n THEN x ELSE row[m]
    BY <1>1, <1>2 DEF Rows
  <2>3. x # None
    BY <1>3, RetrievalAssumption
  <2>4. ASSUME NEW m \in Indexed(row')
        PROVE  /\ row'[m].created <= now \/ row'[m].created <= told'[m]
               /\ row'[m].since <= now \/ row'[m].since <= told'[m]
    <3>1. CASE m = n
      BY <1>3, <2>2, <3>1
    <3>2. CASE m # n
      BY <1>4, <2>1, <2>2, <3>2 DEF Dated, Indexed
    <3>. QED  BY <3>1, <3>2
  <2>5. ASSUME NEW day \in 1 .. Len(past), NEW m \in Notes, told'[m] <= day
        PROVE  past[day][m] = IF row'[m] = None THEN None ELSE StatusOn(row'[m], day)
    <3>1. CASE m = n
      <4>1. StatusOn(x, day) = StatusOn(r, day)
        BY <1>3 DEF StatusOn
      <4>. QED  BY <2>2, <2>3, <2>5, <3>1, <4>1
    <3>2. CASE m # n
      BY <2>1, <2>2, <2>5, <3>2 DEF Dated
    <3>. QED  BY <3>1, <3>2
  <2>6. \A m \in Notes : row'[m] = None => told'[m] = 0
    BY <2>1, <2>2, <2>3 DEF Dated
  <2>. QED  BY <2>1, <2>4, <2>5, <2>6 DEF Dated, Indexed
<1>. QED  BY <1>5, <1>6, <1>7 DEF IInv

(* Under the frontmatter that was there, the row tells what it told.       *)
LEMMA EditOK ==
  ASSUME IInv, NEW n \in Notes, Edit(n)
  PROVE  IInv'
<1>1. PICK t \in TextsOf[n] : Indexes(n, [row[n] EXCEPT !.text = t])
  BY DEF Edit
<1>2. t \in Texts
  BY RetrievalAssumption
<1>3. row \in Rows /\ row[n] # None /\ told' = told /\ told \in [Notes -> Nat]
  BY DEF IInv, Stored, Dated, Edit
<1>. DEFINE r == [row[n] EXCEPT !.text = t]
<1>4. row[n] \in Row /\ n \in Indexed(row)
  BY <1>3 DEF Rows, Indexed
<1>5. /\ r \in Row /\ r.created = row[n].created /\ r.since = row[n].since
      /\ r.status = row[n].status
  BY <1>2, <1>4 DEF Row
<1>6. Indexes(n, r)
  BY <1>1
<1>. HIDE DEF r
<1>7. /\ row[n].created <= now \/ row[n].created <= told[n]
      /\ row[n].since <= now \/ row[n].since <= told[n]
  BY <1>4 DEF IInv, Dated
<1>8. \A day \in 1 .. Len(past) : told[n] <= day => past[day][n] = StatusOn(row[n], day)
  BY <1>3 DEF IInv, Dated
<1>9. \A day : StatusOn(r, day) = StatusOn(row[n], day)
  BY <1>5 DEF StatusOn
<1>. QED  BY <1>3, <1>5, <1>6, <1>7, <1>8, <1>9, IndexesOK

LEMMA LastOfDays ==
  ASSUME NEW head \in Frontmatter, now \in Nat
  PROVE  LastDay(head) \in Nat /\ now <= LastDay(head) /\ head.created <= LastDay(head)
         /\ head.since <= LastDay(head)
<1>. DEFINE days == {now, head.created, head.since}
<1>1. head.created \in Nat /\ head.since \in Nat
  BY DEF Frontmatter
<1>2. \E day \in days : \A other \in days : other <= day
  BY <1>1
<1>3. LastDay(head) \in days /\ \A other \in days : other <= LastDay(head)
  BY <1>2 DEF LastDay
<1>. QED  BY <1>1, <1>3

(* A note that dates itself starts today; any other frontmatter speaks for *)
(* no day that is past.                                                    *)
LEMMA WriteOK ==
  ASSUME IInv, NEW n \in Notes, Write(n)
  PROVE  IInv'
<1>0. row \in Rows /\ now \in Nat /\ Len(past) = now - 1 /\ told \in [Notes -> Nat] /\ Dated
  BY DEF IInv, Stored, Dated
<1>1. PICK t \in TextsOf[n], head \in Heads \cup {Today} :
        /\ Indexes(n, [text |-> t, mint |-> 0, status |-> head.status,
                       created |-> head.created, since |-> head.since])
        /\ told' = IF row[n] = None /\ head = Today THEN told
                   ELSE [told EXCEPT ![n] = LastDay(head)]
  BY DEF Write
<1>2. t \in Texts /\ head \in Frontmatter
  <2>1. Today \in Frontmatter
    BY <1>0 DEF Today, Frontmatter, Statuses
  <2>. QED  BY <2>1, RetrievalAssumption
<1>. DEFINE r == [text |-> t, mint |-> 0, status |-> head.status,
                  created |-> head.created, since |-> head.since]
<1>3. r \in Row /\ r.created = head.created /\ r.since = head.since
  BY <1>2 DEF Row, Frontmatter
<1>4. Indexes(n, r)
  BY <1>1
<1>. HIDE DEF r
<1>5. CASE row[n] = None /\ head = Today
  <2>1. told' = told /\ r.created = now /\ r.since = 0
    BY <1>1, <1>3, <1>5 DEF Today
  <2>2. ASSUME NEW day \in 1 .. Len(past) PROVE past[day][n] = StatusOn(r, day)
    <3>1. told[n] = 0 /\ told[n] <= day
      BY <1>0, <1>5 DEF Dated
    <3>2. past[day][n] = None
      BY <1>0, <1>5, <3>1 DEF Dated
    <3>3. r.created > day
      BY <1>0, <2>1
    <3>. QED  BY <3>2, <3>3 DEF StatusOn
  <2>. QED  BY <1>0, <1>3, <1>4, <2>1, <2>2, IndexesOK
<1>6. CASE ~(row[n] = None /\ head = Today)
  <2>1. told' = [told EXCEPT ![n] = LastDay(head)]
    BY <1>1, <1>6
  <2>2. LastDay(head) \in Nat /\ now <= LastDay(head) /\ head.created <= LastDay(head)
        /\ head.since <= LastDay(head)
    BY <1>0, <1>2, LastOfDays
  <2>3. /\ told' \in [Notes -> Nat] /\ told'[n] = LastDay(head)
        /\ \A m \in Notes \ {n} : told'[m] = told[m]
    BY <1>0, <2>1, <2>2
  <2>4. \A day \in 1 .. Len(past) : ~(told'[n] <= day)
    BY <1>0, <2>2, <2>3
  <2>. QED  BY <1>3, <1>4, <2>2, <2>3, <2>4, IndexesOK
<1>. QED  BY <1>5, <1>6

LEMMA ShelveOK ==
  ASSUME IInv, NEW n \in Notes, Shelve(n)
  PROVE  IInv'
<1>1. PICK status \in Statuses \ {"active"} :
        Indexes(n, [row[n] EXCEPT !.status = status, !.since = now])
  BY DEF Shelve
<1>2. /\ row \in Rows /\ now \in Nat /\ Len(past) = now - 1 /\ row[n] # None
      /\ row[n].status = "active"
  BY DEF IInv, Stored, Dated, Shelve
<1>. DEFINE r == [row[n] EXCEPT !.status = status, !.since = now]
<1>3. row[n] \in Row /\ n \in Indexed(row)
  BY <1>2 DEF Rows, Indexed
<1>4. r \in Row /\ r.created = row[n].created /\ r.since = now /\ r.status = status
  BY <1>2, <1>3 DEF Row
<1>5. Indexes(n, r)
  BY <1>1
<1>. HIDE DEF r
<1>6. /\ row[n].created <= now \/ row[n].created <= told[n]
      /\ told' = told /\ told \in [Notes -> Nat]
  BY <1>3 DEF IInv, Dated, Shelve
<1>7. ASSUME NEW day \in 1 .. Len(past), told[n] <= day PROVE past[day][n] = StatusOn(r, day)
  <2>1. past[day][n] = StatusOn(row[n], day)
    BY <1>2, <1>7 DEF IInv, Dated
  <2>2. r.since > day
    BY <1>2, <1>4
  <2>. QED  BY <1>2, <1>4, <2>1, <2>2 DEF StatusOn
<1>. QED  BY <1>2, <1>4, <1>5, <1>6, <1>7, IndexesOK

LEMMA TickOK == IInv /\ Tick => IInv'
<1>. SUFFICES ASSUME IInv, Tick PROVE IInv'
  OBVIOUS
<1>1. /\ budget' = [budget EXCEPT !.ticks = @ - 1] /\ budget.ticks > 0
      /\ now' = now + 1 /\ past' = Append(past, StatusNow)
      /\ UNCHANGED <<row, mints, query, told, offered, quiet>>
  BY DEF Tick
<1>2. row \in Rows /\ now \in Nat
  BY DEF IInv, Stored
<1>3. Stored'
  <2>1. budget \in Bounds
    BY DEF IInv, Stored
  <2>2. budget' \in Bounds
    BY ONLY <1>1, <2>1 DEF Bounds
  <2>. QED  BY <1>1, <2>2 DEF IInv, Stored, Rows
<1>4. Asked'
  BY <1>1 DEF IInv, Asked, Running, Indexed
<1>5. Dated'
  <2>. DEFINE T == [Notes -> Statuses \cup {None}]
              s == StatusNow
  <2>1. Dated /\ past \in Seq(T) /\ Len(past) = now - 1
    BY DEF IInv, Dated
  <2>2. s \in T
    <3>1. \A n \in Notes : row[n] = None \/ row[n].status \in Statuses
      BY <1>2 DEF Rows, Row
    <3>. QED  BY <3>1 DEF StatusNow
  <2>3. \A n \in Notes : s[n] = IF row[n] = None THEN None ELSE row[n].status
    BY DEF StatusNow
  <2>. HIDE DEF s, T
  <2>4. /\ past' \in Seq(T) /\ Len(past') = now
        /\ past'[now] = s
        /\ \A day \in 1 .. Len(past) : past'[day] = past[day]
    <3>1. /\ Append(past, s) \in Seq(T) /\ Len(Append(past, s)) = Len(past) + 1
          /\ \A day \in 1 .. Len(past) : Append(past, s)[day] = past[day]
          /\ Append(past, s)[Len(past) + 1] = s
      BY <2>1, <2>2, AppendProperties
    <3>2. Len(past) + 1 = now
      BY <1>2, <2>1
    <3>. QED  BY <1>1, <3>1, <3>2 DEF s
  <2>5. \A n \in Indexed(row) :
          /\ n \in Notes /\ row[n] \in Row
          /\ row[n].created \in Nat /\ row[n].since \in Nat /\ told[n] \in Nat
          /\ row[n].created <= now \/ row[n].created <= told[n]
          /\ row[n].since <= now \/ row[n].since <= told[n]
    BY <1>2, <2>1 DEF Dated, Indexed, Rows, Row
  <2>6. ASSUME NEW day \in 1 .. now, NEW n \in Notes, told[n] <= day
        PROVE  past'[day][n] = IF row[n] = None THEN None ELSE StatusOn(row[n], day)
    <3>1. CASE day \in 1 .. Len(past)
      BY <2>1, <2>4, <2>6, <3>1 DEF Dated
    <3>2. CASE day \notin 1 .. Len(past)
      <4>1. day = now
        BY <1>2, <2>1, <3>2
      <4>2. CASE row[n] = None
        BY <2>3, <2>4, <4>1, <4>2
      <4>3. CASE row[n] # None
        <5>1. n \in Indexed(row)
          BY <4>3 DEF Indexed
        <5>2. ~(row[n].created > now) /\ ~(row[n].since > now)
          BY <1>2, <2>5, <2>6, <4>1, <5>1
        <5>3. StatusOn(row[n], now) = row[n].status
          BY <5>2 DEF StatusOn
        <5>. QED  BY <2>3, <2>4, <4>1, <4>3, <5>3
      <4>. QED  BY <4>2, <4>3
    <3>. QED  BY <3>1, <3>2
  <2>7. \A n \in Indexed(row) : /\ row[n].created <= now + 1 \/ row[n].created <= told[n]
                                /\ row[n].since <= now + 1 \/ row[n].since <= told[n]
    BY <1>2, <2>5
  <2>8. /\ row' = row /\ told' = told /\ now' = now + 1 /\ now' \in Nat
        /\ Len(past') = now' - 1
    BY <1>1, <1>2, <2>4
  <2>9. told \in [Notes -> Nat] /\ \A n \in Notes : row[n] = None => told[n] = 0
    BY <2>1 DEF Dated
  <2>. QED  BY <2>4, <2>6, <2>7, <2>8, <2>9 DEF Dated, Indexed, T
<1>. QED  BY <1>3, <1>4, <1>5 DEF IInv

(* The index keeps its types and its days, and a query holds only chunks   *)
(* that its filter has let through (query.go:497-526).                     *)
THEOREM Inductive == Spec => []IInv
<1>1. IInv /\ UNCHANGED vars => IInv'
  <2>. SUFFICES ASSUME IInv, UNCHANGED vars PROVE IInv'
    OBVIOUS
  <2>1. Stored'
    BY DEF IInv, Stored, vars, Rows
  <2>2. Asked'
    BY DEF IInv, Asked, vars, Running, Indexed
  <2>3. Dated'
    BY DEF IInv, Dated, vars, Indexed
  <2>. QED  BY <2>1, <2>2, <2>3 DEF IInv
<1>2. IInv /\ [Next]_vars => IInv'
  BY <1>1, BeginOK, RankVectorOK, RankFTSOK, RankFTSNoteLevelOK, RankFTSOrOK, RankGraphOK,
     AnswerOK, HintOK, FailOK, TickOK, EditOK, WriteOK, ShelveOK DEF Next
<1>. QED  BY InitOK, <1>2, PTL DEF Spec

-----------------------------------------------------------------------------
(* What it says.                                                           *)

LEMMA Typed == IInv => TypeOK
<1>. SUFFICES ASSUME IInv PROVE TypeOK
  OBVIOUS
<1>1. ASSUME NEW l \in 1 .. Len(Legs), Legs[l] # None PROVE Len(Legs[l]) <= Pool
  <2>. DEFINE S == Leg \cup {None}
              v == query.vector
              Short(leg) == leg # None => Len(leg) <= Pool
  <2>1. /\ Providers \in Nat /\ v \in [1 .. Providers -> S]
        /\ query.keyword \in S /\ query.graph \in S
    BY RetrievalAssumption DEF IInv, Asked, Query
  <2>2. /\ \A p \in 1 .. Providers : Short(v[p])
        /\ Short(query.keyword) /\ Short(query.graph)
    BY DEF IInv, Asked, LegOf
  <2>. HIDE DEF v, S
  <2>3. v \in Seq(S) /\ Len(v) = Providers
    BY <2>1, SeqOfFunction
  <2>4. Primary = Append(v, query.keyword) /\ Legs = Append(Primary, query.graph)
    BY DEF Primary, Legs, v
  <2>. HIDE DEF Short
  <2>5. /\ Primary \in Seq(S) /\ Len(Primary) = Providers + 1
        /\ \A p \in 1 .. Providers : Primary[p] = v[p]
        /\ Primary[Providers + 1] = query.keyword
    BY <2>1, <2>3, <2>4, AppendProperties
  <2>6. /\ Len(Legs) = Providers + 2 /\ \A p \in 1 .. (Providers + 1) : Legs[p] = Primary[p]
        /\ Legs[Providers + 2] = query.graph
    BY <2>1, <2>4, <2>5, AppendProperties
  <2>7. l \in 1 .. Providers \/ l = Providers + 1 \/ l = Providers + 2
    BY <2>1, <2>6
  <2>8. Short(Legs[l])
    BY <2>1, <2>2, <2>5, <2>6, <2>7
  <2>. QED  BY <1>1, <2>8 DEF Short
<1>. QED  BY <1>1 DEF IInv, Stored, Asked, Dated, TypeOK, Rows

LEMMA DatedTells == IInv => AsOfAsBelieved
<1>. SUFFICES ASSUME IInv,
                     NEW n \in Indexed(row), NEW day \in 1 .. Len(past), told[n] <= day,
                     NEW falsified \in BOOLEAN, NEW archived \in BOOLEAN
              PROVE  LET ask == [asOf |-> day, falsified |-> falsified, archived |-> archived]
                     IN Visible(row[n], ask) <=>
                          /\ past[day][n] # None
                          /\ falsified \/ past[day][n] # "falsified"
                          /\ archived \/ past[day][n] \notin Shelf
  BY DEF AsOfAsBelieved, AsBelieved
<1>. DEFINE r   == row[n]
            ask == [asOf |-> day, falsified |-> falsified, archived |-> archived]
            was == past[day][n]
<1>1. r \in Row /\ n \in Notes /\ r # None
  BY DEF IInv, Stored, Rows, Indexed
<1>2. Len(past) = now - 1 /\ now \in Nat
  BY DEF IInv, Dated
<1>3. day \in Nat /\ day # None
  BY <1>2, RetrievalAssumption
<1>4. was = StatusOn(r, day)
  BY <1>1 DEF IInv, Dated
<1>5. /\ r.created \in Nat /\ r.since \in Nat /\ r.status \in Statuses /\ r.status # None
      /\ "active" # None
  BY <1>1, RetrievalAssumption DEF Row, Statuses
<1>6. ask.asOf = day /\ ask.falsified = falsified /\ ask.archived = archived
  OBVIOUS
<1>. HIDE DEF r, ask, was
<1>7. Visible(r, ask) <=>
        /\ r.created <= day
        /\ falsified \/ r.status # "falsified" \/ r.since > day
        /\ archived \/ r.status \notin Shelf \/ r.since > day
  <2>1. ask.asOf # None
    BY <1>3, <1>6
  <2>. QED  BY <2>1, <1>6, Zenon DEF Visible
<1>8. Visible(r, ask) <=> /\ was # None
                          /\ falsified \/ was # "falsified"
                          /\ archived \/ was \notin Shelf
  <2>1. CASE r.created > day
    <3>1. was = None /\ ~(r.created <= day)
      BY <1>3, <1>4, <1>5, <2>1 DEF StatusOn
    <3>. QED  BY <1>7, <3>1, Zenon
  <2>2. CASE ~(r.created > day)
    <3>1. r.created <= day
      BY <1>3, <1>5, <2>2
    <3>2. was = IF r.status # "active" /\ r.since > day THEN "active" ELSE r.status
      BY <1>4, <2>2 DEF StatusOn
    <3>3. was # None
      BY <1>5, <3>2
    <3>4. /\ was # "falsified" <=> r.status # "falsified" \/ r.since > day
          /\ was \notin Shelf <=> r.status \notin Shelf \/ r.since > day
      BY <3>2 DEF Shelf
    <3>. QED  BY <1>7, <3>1, <3>3, <3>4, Zenon
  <2>. QED  BY <2>1, <2>2
<1>. QED  BY <1>8 DEF r, ask, was

(* The index and a query have their types always, no leg is longer than    *)
(* its pool, no answer than was asked for, and a note is never hinted at   *)
(* that is not indexed (query.go:497-526).                                 *)
THEOREM TypeCorrect == Spec => []TypeOK
  BY Inductive, Typed, PTL

(* A hit is a chunk that the query's filter let through at some moment of  *)
(* the query, whichever legs found it, however their scores were           *)
(* discounted and whatever was rewritten or shelved between the legs       *)
(* (query_legs.go:41-56, 340-350).                                         *)
THEOREM OnlyWhatWasOffered == Spec => []HitsWereOffered
<1>1. IInv => HitsWereOffered
  BY DEF IInv, Asked, HitsWereOffered
<1>. QED  BY <1>1, Inductive, PTL

(* The as-of filter is the belief of the end of its day, for every day     *)
(* since the note's frontmatter was written: what a row stores of its      *)
(* creation and its shelving is enough to tell, whatever text was written  *)
(* since (query.go:118-120, query_legs.go:50-54).                          *)
THEOREM BeliefOfTheDay == Spec => []AsOfAsBelieved
  BY Inductive, DatedTells, PTL
=============================================================================
