----------------------- MODULE RetrievalContentProofs -----------------------
(***************************************************************************)
(* An answer depends on what the notes say.  The theorem compares the      *)
(* index with one that says the same under other chunk ids, and shows that *)
(* every ranking of the one is that of the other, renamed; what the vector *)
(* indexes returned is the same for both.  Two more are about one index:   *)
(* what the fallbacks of the keyword leg keep, and why the discount puts   *)
(* stale notes last.                                                       *)
(***************************************************************************)
EXTENDS RetrievalProofs

-----------------------------------------------------------------------------
(* Sorting what has been renamed.                                          *)

Better(S, score, tie) ==
  {pair \in S \X S : \/ score[pair[1]] > score[pair[2]]
                     \/ score[pair[1]] = score[pair[2]] /\ pair \in tie}

LEMMA BetterOrders ==
  ASSUME NEW S, NEW score \in [S -> Int], NEW tie, StrictOrder(S, tie)
  PROVE  StrictOrder(S, Better(S, score, tie))
<1>. DEFINE Before(x, y) == score[x] > score[y] \/ (score[x] = score[y] /\ <<x, y>> \in tie)
            R == Better(S, score, tie)
<1>1. \A x, y \in S : <<x, y>> \in R <=> Before(x, y)
  BY DEF Better
<1>2. ASSUME NEW x \in S PROVE ~Before(x, x)
  BY DEF StrictOrder
<1>3. ASSUME NEW x \in S, NEW y \in S, NEW z \in S, Before(x, y), Before(y, z)
      PROVE  Before(x, z)
  <2>1. score[x] \in Int /\ score[y] \in Int /\ score[z] \in Int
    OBVIOUS
  <2>2. <<x, y>> \in tie /\ <<y, z>> \in tie => <<x, z>> \in tie
    BY DEF StrictOrder
  <2>. QED  BY <1>3, <2>1, <2>2
<1>4. ASSUME NEW x \in S, NEW y \in S, x # y PROVE Before(x, y) \/ Before(y, x)
  <2>1. score[x] \in Int /\ score[y] \in Int
    OBVIOUS
  <2>. QED  BY <1>4, <2>1 DEF StrictOrder
<1>. HIDE DEF Before, R
<1>5. StrictOrder(S, R)
  BY <1>1, <1>2, <1>3, <1>4 DEF StrictOrder
<1>. QED  BY <1>5 DEF R

(* No two have as many ahead of them.                                      *)
LEMMA RankedOnce ==
  ASSUME NEW S, IsFiniteSet(S), NEW R, StrictOrder(S, R), NEW x \in S, NEW y \in S,
         Cardinality(Ahead(S, R, x)) = Cardinality(Ahead(S, R, y))
  PROVE  x = y
<1>1. ASSUME NEW a \in S, NEW b \in S, <<a, b>> \in R
      PROVE  Cardinality(Ahead(S, R, a)) # Cardinality(Ahead(S, R, b))
  <2>1. /\ Ahead(S, R, a) \in SUBSET Ahead(S, R, b)
        /\ a \in Ahead(S, R, b) /\ a \notin Ahead(S, R, a) /\ Ahead(S, R, b) \in SUBSET S
    BY <1>1 DEF StrictOrder, Ahead
  <2>2. IsFiniteSet(Ahead(S, R, b))
    BY <2>1, FS_Subset
  <2>3. Cardinality(Ahead(S, R, b)) = Cardinality(Ahead(S, R, a))
          => Ahead(S, R, b) = Ahead(S, R, a)
    BY <2>1, <2>2, FS_Subset
  <2>. QED  BY <2>1, <2>3
<1>. QED  BY <1>1 DEF StrictOrder

(* What Sorted has at a place is what has as many ahead.                   *)
LEMMA SortedAt ==
  ASSUME NEW S, IsFiniteSet(S), NEW score \in [S -> Int], NEW tie, StrictOrder(S, tie),
         NEW k \in 1 .. Cardinality(S)
  PROVE  /\ Sorted(S, score, tie)[k] \in S
         /\ \A x \in S : Cardinality(Ahead(S, Better(S, score, tie), x)) = k - 1
                           <=> x = Sorted(S, score, tie)[k]
<1>. DEFINE Before(x, y) == score[x] > score[y] \/ (score[x] = score[y] /\ <<x, y>> \in tie)
            R == Better(S, score, tie)
            Is(x) == Cardinality({y \in S : Before(y, x)}) = k - 1
            c == CHOOSE x \in S : Is(x)
<1>1. StrictOrder(S, R)
  BY BetterOrders
<1>2. \A x \in S : {y \in S : Before(y, x)} = Ahead(S, R, x)
  BY DEF Ahead, Better
<1>3. Sorted(S, score, tie)[k] = c
  BY DEF Sorted
<1>4. \A x \in S : Is(x) <=> Cardinality(Ahead(S, R, x)) = k - 1
  BY <1>2
<1>. HIDE DEF Is, R, Before
<1>5. \E x \in S : Is(x)
  BY <1>1, <1>4, Ranked
<1>6. c \in S /\ Is(c)
  BY <1>5
<1>. HIDE DEF c
<1>7. \A x \in S : Is(x) => x = c
  BY <1>1, <1>4, <1>6, RankedOnce
<1>8. \A x \in S : Cardinality(Ahead(S, R, x)) = k - 1 <=> x = c
  BY <1>4, <1>6, <1>7
<1>. QED  BY <1>3, <1>6, <1>8 DEF R

(* f renames S to T, and no score or tie tells.                            *)
LEMMA SortedRenamed ==
  ASSUME NEW S, IsFiniteSet(S), NEW T, NEW f \in Bijection(S, T),
         NEW score \in [S -> Int], NEW tie, StrictOrder(S, tie),
         NEW score2 \in [T -> Int], NEW tie2, StrictOrder(T, tie2),
         \A x \in S : score2[f[x]] = score[x],
         \A x, y \in S : <<f[x], f[y]>> \in tie2 <=> <<x, y>> \in tie
  PROVE  /\ Cardinality(T) = Cardinality(S)
         /\ \A k \in 1 .. Cardinality(S) :
              Sorted(T, score2, tie2)[k] = f[Sorted(S, score, tie)[k]]
<1>. DEFINE R  == Better(S, score, tie)
            R2 == Better(T, score2, tie2)
<1>1. f \in [S -> T] /\ (\A x, y \in S : f[x] = f[y] => x = y) /\ \A t \in T : \E x \in S : f[x] = t
  BY DEF Bijection, Injection, Surjection, IsInjective
<1>2. IsFiniteSet(T) /\ Cardinality(T) = Cardinality(S)
  BY FS_Bijection DEF ExistsBijection
<1>3. \A x, y \in S : <<f[x], f[y]>> \in R2 <=> <<x, y>> \in R
  BY <1>1 DEF Better
<1>. HIDE DEF R, R2
<1>4. ASSUME NEW x \in S
      PROVE  Cardinality(Ahead(T, R2, f[x])) = Cardinality(Ahead(S, R, x))
  <2>. DEFINE A  == Ahead(S, R, x)
              A2 == Ahead(T, R2, f[x])
              g  == [y \in A |-> f[y]]
  <2>1. A \in SUBSET S
    BY DEF Ahead
  <2>2. \A y \in S : y \in A <=> f[y] \in A2
    BY <1>1, <1>3 DEF Ahead
  <2>3. \A t \in A2 : t \in T
    BY DEF Ahead
  <2>. HIDE DEF A, A2
  <2>4. g \in [A -> A2] /\ \A y \in A : g[y] = f[y]
    BY <2>1, <2>2
  <2>. HIDE DEF g
  <2>5. g \in Bijection(A, A2)
    <3>1. g \in Injection(A, A2)
      BY <1>1, <2>1, <2>4 DEF Injection, IsInjective
    <3>2. ASSUME NEW t \in A2 PROVE \E y \in A : g[y] = t
      <4>1. PICK y \in S : f[y] = t
        BY <1>1, <2>3
      <4>. QED  BY <2>2, <2>4, <4>1
    <3>3. g \in Surjection(A, A2)
      BY <2>4, <3>2 DEF Surjection
    <3>. QED  BY <3>1, <3>3 DEF Bijection
  <2>6. IsFiniteSet(A)
    BY <2>1, FS_Subset
  <2>7. Cardinality(A2) = Cardinality(A)
    BY <2>5, <2>6, FS_Bijection DEF ExistsBijection
  <2>. QED  BY <2>7 DEF A, A2
<1>5. ASSUME NEW k \in 1 .. Cardinality(S)
      PROVE  Sorted(T, score2, tie2)[k] = f[Sorted(S, score, tie)[k]]
  <2>. DEFINE x == Sorted(S, score, tie)[k]
  <2>1. x \in S /\ Cardinality(Ahead(S, R, x)) = k - 1
    BY SortedAt DEF R
  <2>. HIDE DEF x
  <2>2. f[x] \in T /\ Cardinality(Ahead(T, R2, f[x])) = k - 1
    BY <1>1, <1>4, <2>1
  <2>3. k \in 1 .. Cardinality(T)
    BY <1>2
  <2>4. f[x] = Sorted(T, score2, tie2)[k]
    BY <1>2, <2>2, <2>3, SortedAt DEF R2
  <2>. QED  BY <2>4 DEF x
<1>. QED  BY <1>2, <1>5

-----------------------------------------------------------------------------
(* The index under other ids.                                              *)

Renamed(c) == <<c[1], 0, c[3]>>

RenamedAll(S) == {Renamed(c) : c \in S}

LEMMA AlikeRows ==
  ASSUME NEW rows \in Rows
  PROVE  /\ Alike(rows) \in Rows /\ Indexed(Alike(rows)) = Indexed(rows)
         /\ \A n \in Indexed(rows) :
              /\ Alike(rows)[n].text = rows[n].text /\ Alike(rows)[n].mint = 0
              /\ Alike(rows)[n].status = rows[n].status
              /\ Alike(rows)[n].created = rows[n].created
              /\ Alike(rows)[n].since = rows[n].since
<1>. DEFINE a == Alike(rows)
<1>1. \A n \in Notes : a[n] = IF rows[n] = None THEN None ELSE [rows[n] EXCEPT !.mint = 0]
  BY DEF Alike
<1>2. ASSUME NEW n \in Notes, rows[n] # None
      PROVE  /\ a[n] \in Row /\ a[n] # None /\ a[n].text = rows[n].text /\ a[n].mint = 0
             /\ a[n].status = rows[n].status /\ a[n].created = rows[n].created
             /\ a[n].since = rows[n].since
  <2>1. rows[n] \in Row
    BY <1>2 DEF Rows
  <2>2. [rows[n] EXCEPT !.mint = 0] \in Row
    BY <2>1 DEF Row
  <2>3. [rows[n] EXCEPT !.mint = 0] # None
    BY <2>2, RetrievalAssumption
  <2>. QED  BY <1>1, <1>2, <2>1, <2>2, <2>3 DEF Row
<1>3. a = [n \in Notes |-> a[n]]
  BY DEF Alike
<1>. HIDE DEF a
<1>4. a \in Rows
  BY <1>1, <1>2, <1>3 DEF Rows
<1>5. Indexed(a) = Indexed(rows)
  BY <1>1, <1>2 DEF Indexed
<1>. QED  BY <1>2, <1>4, <1>5 DEF Indexed, a

LEMMA ChunkRenamed ==
  ASSUME NEW rows \in Rows
  PROVE  /\ AllChunks(Alike(rows)) = RenamedAll(AllChunks(rows))
         /\ \A c \in AllChunks(rows) :
              /\ c[1] \in Indexed(rows) /\ c[1] \in Nat /\ c[3] \in Nat
              /\ c = <<c[1], rows[c[1]].mint, c[3]>>
              /\ Renamed(c)[1] = c[1] /\ Renamed(c)[3] = c[3]
              /\ Content(Alike(rows), Renamed(c)) = Content(rows, c)
         /\ \A c, d \in AllChunks(rows) : Renamed(c) = Renamed(d) => c = d
         /\ \A n \in Indexed(rows) : ChunksOf(Alike(rows), n) = RenamedAll(ChunksOf(rows, n))
<1>. DEFINE a == Alike(rows)
<1>1. /\ Indexed(a) = Indexed(rows)
      /\ \A n \in Indexed(rows) : a[n].text = rows[n].text /\ a[n].mint = 0
  BY AlikeRows
<1>. HIDE DEF a
<1>2. \A c : Renamed(c)[1] = c[1] /\ Renamed(c)[3] = c[3]
  BY DEF Renamed
<1>3. ASSUME NEW c \in AllChunks(rows)
      PROVE  /\ c[1] \in Indexed(rows) /\ c[1] \in Nat /\ c[3] \in Nat
             /\ c = <<c[1], rows[c[1]].mint, c[3]>>
  <2>1. PICK n \in Indexed(rows) : c \in ChunksOf(rows, n)
    BY DEF AllChunks
  <2>2. n \in Nat
    BY RetrievalAssumption DEF Indexed
  <2>. QED  BY <2>1, <2>2, ChunkOf
<1>4. ASSUME NEW c \in AllChunks(rows) PROVE Content(a, Renamed(c)) = Content(rows, c)
  BY <1>1, <1>2, <1>3 DEF Content
<1>5. ASSUME NEW c \in AllChunks(rows), NEW d \in AllChunks(rows), Renamed(c) = Renamed(d)
      PROVE  c = d
  <2>1. c[1] = d[1] /\ c[3] = d[3]
    BY <1>2, <1>5
  <2>. QED  BY <1>3, <2>1
<1>6. ASSUME NEW n \in Indexed(rows) PROVE ChunksOf(a, n) = RenamedAll(ChunksOf(rows, n))
  <2>. DEFINE m == Len(Chunks[rows[n].text])
  <2>1. ChunksOf(a, n) = {<<n, 0, k>> : k \in 1 .. m}
    BY <1>1 DEF ChunksOf
  <2>2. ChunksOf(rows, n) = {<<n, rows[n].mint, k>> : k \in 1 .. m}
    BY DEF ChunksOf
  <2>. HIDE DEF m
  <2>3. \A k : Renamed(<<n, rows[n].mint, k>>) = <<n, 0, k>>
    BY DEF Renamed
  <2>. QED  BY <2>1, <2>2, <2>3, ZenonT(60) DEF RenamedAll
<1>7. AllChunks(a) = RenamedAll(AllChunks(rows))
  BY <1>1, <1>6 DEF AllChunks, RenamedAll
<1>. QED  BY <1>2, <1>3, <1>4, <1>5, <1>6, <1>7 DEF a

(* One list of chunks is another, renamed.                                 *)
Like(leg2, leg) == Len(leg2) = Len(leg) /\ \A k \in 1 .. Len(leg) : leg2[k] = Renamed(leg[k])

LEMMA FirstLike ==
  ASSUME NEW S, NEW s \in Seq(S), NEW T, NEW t \in Seq(T), Like(t, s), NEW limit \in Nat
  PROVE  Like(First(t, limit), First(s, limit))
<1>. DEFINE n == IF Len(s) < limit THEN Len(s) ELSE limit
<1>1. Len(s) \in Nat /\ Len(t) = Len(s) /\ n \in 0 .. Len(s)
  BY DEF Like
<1>2. First(s, limit) = SubSeq(s, 1, n) /\ First(t, limit) = SubSeq(t, 1, n)
  BY <1>1 DEF First
<1>. HIDE DEF n
<1>3. /\ Len(SubSeq(s, 1, n)) = n /\ \A k \in 1 .. n : SubSeq(s, 1, n)[k] = s[k]
      /\ Len(SubSeq(t, 1, n)) = n /\ \A k \in 1 .. n : SubSeq(t, 1, n)[k] = t[k]
  BY <1>1
<1>. QED  BY <1>1, <1>2, <1>3 DEF Like

(* A leg over chunks renamed.                                              *)
LEMMA SortedLegLike ==
  ASSUME NEW rows \in Rows, NEW S \in SUBSET AllChunks(rows), NEW T, T = RenamedAll(S),
         NEW score \in [S -> Int], NEW score2 \in [T -> Int],
         \A c \in S : score2[Renamed(c)] = score[c]
  PROVE  Like(First(Sorted(T, score2, InPlace(T)), Pool), First(Sorted(S, score, InPlace(S)), Pool))
<1>. DEFINE f == [c \in S |-> Renamed(c)]
            n == Cardinality(S)
            s == Sorted(S, score, InPlace(S))
            t == Sorted(T, score2, InPlace(T))
<1>1. IsFiniteSet(S) /\ IsFiniteSet(AllChunks(rows))
  BY ThroughTyped, FS_Subset
<1>2. T \in SUBSET AllChunks(Alike(rows)) /\ Alike(rows) \in Rows
  BY ChunkRenamed, AlikeRows DEF RenamedAll
<1>3. StrictOrder(S, InPlace(S)) /\ StrictOrder(T, InPlace(T))
  BY <1>2, InPlaceOrders
<1>4. f \in Bijection(S, T)
  <2>1. f \in [S -> T] /\ \A t1 \in T : \E c \in S : f[c] = t1
    BY DEF RenamedAll
  <2>2. \A c, d \in S : f[c] = f[d] => c = d
    BY ChunkRenamed
  <2>. HIDE DEF f
  <2>. QED  BY <2>1, <2>2 DEF Bijection, Injection, Surjection, IsInjective
<1>5. \A c, d \in S : <<f[c], f[d]>> \in InPlace(T) <=> <<c, d>> \in InPlace(S)
  <2>1. ASSUME NEW c \in S, NEW d \in S
        PROVE  <<f[c], f[d]>> \in InPlace(T) <=> <<c, d>> \in InPlace(S)
    <3>1. /\ f[c] \in T /\ f[d] \in T
          /\ f[c][1] = c[1] /\ f[c][3] = c[3] /\ f[d][1] = d[1] /\ f[d][3] = d[3]
      BY ChunkRenamed DEF RenamedAll
    <3>. HIDE DEF f
    <3>. QED  BY <3>1 DEF InPlace
  <2>. QED  BY <2>1
<1>6. \A c \in S : score2[f[c]] = score[c] /\ f[c] = Renamed(c)
  OBVIOUS
<1>. HIDE DEF f
<1>7. /\ Cardinality(T) = n
      /\ \A k \in 1 .. n : t[k] = f[s[k]]
  BY <1>1, <1>3, <1>4, <1>5, <1>6, SortedRenamed
<1>8. n \in Nat /\ s \in [1 .. n -> S] /\ t \in [1 .. n -> T]
  <2>1. IsFiniteSet(T)
    BY <1>1, <1>4, FS_Bijection DEF ExistsBijection
  <2>. QED  BY <1>1, <1>3, <1>7, <2>1, SortedTyped
<1>. HIDE DEF s, t, n
<1>9. s \in Seq(S) /\ Len(s) = n /\ t \in Seq(T) /\ Len(t) = n
  BY <1>8, SeqOfFunction
<1>10. Like(t, s)
  BY <1>6, <1>7, <1>8, <1>9 DEF Like
<1>11. Like(First(t, Pool), First(s, Pool))
  BY <1>9, <1>10, FirstLike, RetrievalAssumption
<1>. QED  BY <1>11 DEF s, t

-----------------------------------------------------------------------------
(* The legs.                                                               *)

LEMMA ThroughLike ==
  ASSUME NEW rows \in Rows, NEW ask
  PROVE  /\ Through(Alike(rows), ask) = RenamedAll(Through(rows, ask))
         /\ Scoped(Alike(rows), ask) = RenamedAll(Scoped(rows, ask))
<1>. DEFINE a == Alike(rows)
            D(r) == {m \in Indexed(r) : Visible(r[m], ask)}
<1>1. D(a) = D(rows)
  <2>1. /\ Indexed(a) = Indexed(rows)
        /\ \A n \in Indexed(rows) : /\ a[n].status = rows[n].status
                                     /\ a[n].created = rows[n].created
                                     /\ a[n].since = rows[n].since
    BY AlikeRows
  <2>. HIDE DEF a
  <2>2. ASSUME NEW n \in Indexed(rows) PROVE Visible(a[n], ask) <=> Visible(rows[n], ask)
    BY <2>1 DEF Visible
  <2>. QED  BY <2>1, <2>2
<1>2. \A n \in Indexed(rows) : ChunksOf(a, n) = RenamedAll(ChunksOf(rows, n))
  BY ChunkRenamed
<1>3. Through(a, ask) = UNION {ChunksOf(a, n) : n \in D(a)}
      /\ Through(rows, ask) = UNION {ChunksOf(rows, n) : n \in D(rows)}
  BY DEF Through
<1>4. D(rows) \subseteq Indexed(rows)
  OBVIOUS
<1>. HIDE DEF a, D
<1>5. Through(a, ask) = RenamedAll(Through(rows, ask))
  BY <1>1, <1>2, <1>3, <1>4 DEF RenamedAll
<1>6. Scoped(a, ask) = RenamedAll(Scoped(rows, ask))
  <2>1. \A c : InScope(Renamed(c)[1], ask) <=> InScope(c[1], ask)
    BY DEF Renamed
  <2>. QED  BY <1>5, <2>1 DEF Scoped, RenamedAll
<1>. QED  BY <1>5, <1>6 DEF a

(* What a vector leg returned, under the other ids.                        *)
LEMMA AlikeLegTyped ==
  ASSUME NEW rows \in Rows, NEW ask, NEW leg, LegOf(leg, Through(rows, ask))
  PROVE  /\ Like(AlikeLeg(leg), leg) /\ AlikeLeg(leg) \in Leg
         /\ LegOf(AlikeLeg(leg), Through(Alike(rows), ask))
<1>. DEFINE n == Len(leg)
            T == Through(Alike(rows), ask)
            t == AlikeLeg(leg)
<1>1. n \in Nat /\ n <= Pool /\ \A k \in 1 .. n : leg[k] \in Through(rows, ask)
  BY LegItems DEF LegOf, Items
<1>2. \A k \in 1 .. n : Renamed(leg[k]) \in T
  BY <1>1, ThroughLike DEF RenamedAll
<1>3. T \subseteq ChunkId
  BY AlikeRows, ThroughTyped
<1>4. t = [k \in 1 .. n |-> Renamed(leg[k])]
  BY DEF AlikeLeg, Renamed
<1>. HIDE DEF n, T, t
<1>5. t \in [1 .. n -> T] /\ \A k \in 1 .. n : t[k] = Renamed(leg[k])
  BY <1>2, <1>4
<1>6. t \in Seq(T) /\ Len(t) = n
  BY <1>1, <1>5, SeqOfFunction
<1>7. Items(t) \subseteq T /\ t \in Seq(ChunkId)
  BY <1>3, <1>6, ItemsOfSeq, SeqMonotonic
<1>. QED  BY <1>1, <1>5, <1>6, <1>7 DEF Like, LegOf, Leg, ChunkId, n, T, t

LEMMA FtsLegLike ==
  ASSUME NEW rows \in Rows, NEW S \in SUBSET AllChunks(rows), NEW T, T = RenamedAll(S)
  PROVE  /\ Like(FtsLeg(T, [c \in T |-> Content(Alike(rows), c).every]),
                 FtsLeg(S, [c \in S |-> Content(rows, c).every]))
         /\ Like(ByAny(T, Alike(rows)), ByAny(S, rows))
<1>. DEFINE a == Alike(rows)
<1>1. T \in SUBSET AllChunks(a) /\ a \in Rows
  BY ChunkRenamed, AlikeRows DEF RenamedAll
<1>2. \A c \in S : Renamed(c) \in T /\ Content(a, Renamed(c)) = Content(rows, c)
  BY ChunkRenamed DEF RenamedAll
<1>. HIDE DEF a
<1>3. Like(FtsLeg(T, [c \in T |-> Content(a, c).every]),
           FtsLeg(S, [c \in S |-> Content(rows, c).every]))
  <2>. DEFINE score  == [c \in S |-> Content(rows, c).every]
              score2 == [c \in T |-> Content(a, c).every]
  <2>1. score \in [S -> Int] /\ score2 \in [T -> Int]
    BY <1>1, RanksTyped
  <2>2. \A c \in S : score2[Renamed(c)] = score[c]
    BY <1>2
  <2>. HIDE DEF score, score2
  <2>3. Like(FtsLeg(T, score2), FtsLeg(S, score))
    BY <2>1, <2>2, SortedLegLike DEF FtsLeg
  <2>. QED  BY <2>3 DEF score, score2
<1>4. Like(ByAny(T, a), ByAny(S, rows))
  <2>. DEFINE score  == [c \in S |-> Content(rows, c).any]
              score2 == [c \in T |-> Content(a, c).any]
  <2>1. score \in [S -> Int] /\ score2 \in [T -> Int]
    BY <1>1, RanksTyped
  <2>2. \A c \in S : score2[Renamed(c)] = score[c]
    BY <1>2
  <2>3. ByAny(S, rows) = FtsLeg(S, score) /\ ByAny(T, a) = FtsLeg(T, score2)
    BY DEF ByAny
  <2>. HIDE DEF score, score2
  <2>4. Like(FtsLeg(T, score2), FtsLeg(S, score))
    BY <2>1, <2>2, SortedLegLike DEF FtsLeg
  <2>. QED  BY <2>3, <2>4
<1>. QED  BY <1>3, <1>4 DEF a

LEMMA KeywordLegsLike ==
  ASSUME NEW rows \in Rows, NEW ask
  PROVE  /\ Like(AllTerms(Alike(rows), ask), AllTerms(rows, ask))
         /\ Like(AnyTerm(Alike(rows), ask), AnyTerm(rows, ask))
         /\ Like(NoteLevel(Alike(rows), ask), NoteLevel(rows, ask))
<1>. DEFINE a == Alike(rows)
            S == Scoped(rows, ask)
<1>1. S \subseteq AllChunks(rows) /\ Scoped(a, ask) = RenamedAll(S)
  BY ThroughTyped, ThroughLike
<1>2. \A c \in S : /\ Content(a, Renamed(c)) = Content(rows, c) /\ Renamed(c)[1] = c[1]
                   /\ c[1] \in Indexed(rows)
  BY <1>1, ChunkRenamed
<1>3. \A c \in S : InWhole(a, Renamed(c)) <=> InWhole(rows, c)
  <2>1. \A n \in Indexed(rows) : a[n].text = rows[n].text
    BY AlikeRows
  <2>. QED  BY <1>2, <2>1 DEF InWhole
<1>. HIDE DEF a, S
<1>4. {c \in Scoped(a, ask) : Content(a, c).every > 0}
        = RenamedAll({c \in S : Content(rows, c).every > 0})
  BY <1>1, <1>2 DEF RenamedAll
<1>5. {c \in Scoped(a, ask) : Content(a, c).any > 0}
        = RenamedAll({c \in S : Content(rows, c).any > 0})
  BY <1>1, <1>2 DEF RenamedAll
<1>6. {c \in Scoped(a, ask) : InWhole(a, c)} = RenamedAll({c \in S : InWhole(rows, c)})
  BY <1>1, <1>3 DEF RenamedAll
<1>7. ASSUME NEW U \in SUBSET S, NEW T, T = RenamedAll(U)
      PROVE  /\ Like(FtsLeg(T, [c \in T |-> Content(a, c).every]),
                     FtsLeg(U, [c \in U |-> Content(rows, c).every]))
             /\ Like(ByAny(T, a), ByAny(U, rows))
  BY <1>1, <1>7, FtsLegLike DEF a
<1>8. Like(AllTerms(a, ask), AllTerms(rows, ask))
  <2>. DEFINE U == {c \in S : Content(rows, c).every > 0}
              T == {c \in Scoped(a, ask) : Content(a, c).every > 0}
  <2>1. U \in SUBSET S /\ T = RenamedAll(U)
    BY <1>4
  <2>2. /\ AllTerms(a, ask) = FtsLeg(T, [c \in T |-> Content(a, c).every])
        /\ AllTerms(rows, ask) = FtsLeg(U, [c \in U |-> Content(rows, c).every])
    BY DEF AllTerms, S
  <2>. HIDE DEF T, U
  <2>. QED  BY <1>7, <2>1, <2>2
<1>9. Like(AnyTerm(a, ask), AnyTerm(rows, ask))
  <2>. DEFINE U == {c \in S : Content(rows, c).any > 0}
              T == {c \in Scoped(a, ask) : Content(a, c).any > 0}
  <2>1. U \in SUBSET S /\ T = RenamedAll(U)
    BY <1>5
  <2>2. AnyTerm(a, ask) = ByAny(T, a) /\ AnyTerm(rows, ask) = ByAny(U, rows)
    BY DEF AnyTerm, S
  <2>. HIDE DEF T, U
  <2>. QED  BY <1>7, <2>1, <2>2
<1>10. Like(NoteLevel(a, ask), NoteLevel(rows, ask))
  <2>. DEFINE U == {c \in S : InWhole(rows, c)}
              T == {c \in Scoped(a, ask) : InWhole(a, c)}
  <2>1. U \in SUBSET S /\ T = RenamedAll(U)
    BY <1>6
  <2>2. NoteLevel(a, ask) = ByAny(T, a) /\ NoteLevel(rows, ask) = ByAny(U, rows)
    BY DEF NoteLevel, S
  <2>. HIDE DEF T, U
  <2>. QED  BY <1>7, <2>1, <2>2
<1>. QED  BY <1>8, <1>9, <1>10 DEF a

LEMMA EdgesLike ==
  ASSUME NEW rows \in Rows
  PROVE  Edges(Alike(rows)) = Edges(rows)
<1>1. Indexed(Alike(rows)) = Indexed(rows)
      /\ \A n \in Indexed(rows) : Alike(rows)[n].text = rows[n].text
  BY AlikeRows
<1>. QED  BY <1>1 DEF Edges

LEMMA GraphLegLike ==
  ASSUME NEW rows \in Rows, NEW ask, NEW seeds \in SUBSET Notes
  PROVE  Like(GraphLeg(Alike(rows), ask, seeds), GraphLeg(rows, ask, seeds))
<1>. DEFINE a           == Alike(rows)
            Reaching(n) == {s \in seeds : <<s, n>> \in Edges(rows)}
            S           == {c \in Through(rows, ask) : Reaching(c[1]) # {}}
            T           == {c \in Through(a, ask) : Reaching(c[1]) # {}}
            score       == [c \in S |-> Cardinality(Reaching(c[1]))]
            score2      == [c \in T |-> Cardinality(Reaching(c[1]))]
<1>1. S \in SUBSET AllChunks(rows)
  BY ThroughTyped
<1>2. ASSUME NEW n PROVE Cardinality(Reaching(n)) \in Int
  <2>1. Reaching(n) \in SUBSET Notes
    OBVIOUS
  <2>. HIDE DEF Reaching
  <2>2. IsFiniteSet(Reaching(n))
    BY <2>1, RetrievalAssumption, FS_Subset
  <2>. QED  BY <2>2, FS_CardinalityType
<1>3. Edges(a) = Edges(rows)
  BY EdgesLike
<1>4. GraphLeg(rows, ask, seeds) = First(Sorted(S, score, InPlace(S)), Pool)
  BY DEF GraphLeg, Linked
<1>5. GraphLeg(a, ask, seeds) = First(Sorted(T, score2, InPlace(T)), Pool)
  BY <1>3 DEF GraphLeg, Linked
<1>6. \A c : Renamed(c)[1] = c[1]
  BY DEF Renamed
<1>. HIDE DEF Reaching
<1>7. T = RenamedAll(S)
  BY <1>6, ThroughLike DEF RenamedAll
<1>8. \A c \in S : Renamed(c) \in T
  BY <1>7 DEF RenamedAll
<1>. HIDE DEF S, T, a
<1>9. score \in [S -> Int] /\ score2 \in [T -> Int]
      /\ \A c \in S : score2[Renamed(c)] = score[c]
  BY <1>2, <1>6, <1>8
<1>. HIDE DEF score, score2
<1>10. Like(First(Sorted(T, score2, InPlace(T)), Pool), First(Sorted(S, score, InPlace(S)), Pool))
  BY <1>1, <1>7, <1>9, SortedLegLike
<1>. QED  BY <1>4, <1>5, <1>10 DEF a

LEMMA LinkersLike ==
  ASSUME NEW rows \in Rows, NEW notes
  PROVE  ArchivedLinkers(Alike(rows), notes) = ArchivedLinkers(rows, notes)
<1>1. Indexed(Alike(rows)) = Indexed(rows) /\ Edges(Alike(rows)) = Edges(rows)
      /\ \A n \in Indexed(rows) : Alike(rows)[n].status = rows[n].status
  BY AlikeRows, EdgesLike
<1>. QED  BY <1>1 DEF ArchivedLinkers

-----------------------------------------------------------------------------
(* Fusion.                                                                 *)

(* Legs that can be fused are others, renamed, and no two chunks of theirs *)
(* have one new name.                                                      *)
LegsLike(legs2, legs) ==
  /\ Fusible(legs) /\ Fusible(legs2)
  /\ Len(legs2) = Len(legs) /\ \A l \in 1 .. Len(legs) : Like(legs2[l], legs[l])
  /\ \A c, d \in Found(legs) : Renamed(c) = Renamed(d) => c = d

LEMMA FoundLike ==
  ASSUME NEW legs, NEW legs2, LegsLike(legs2, legs)
  PROVE  /\ Found(legs2) = RenamedAll(Found(legs))
         /\ NotesOf(legs2) = NotesOf(legs)
         /\ \A c \in Found(legs), l \in 1 .. Len(legs) :
              /\ Renamed(c) \in Items(legs2[l]) <=> c \in Items(legs[l])
              /\ \A k \in 1 .. Len(legs[l]) : legs2[l][k] = Renamed(c) <=> legs[l][k] = c
<1>1. \A l \in 1 .. Len(legs) : /\ Len(legs2[l]) = Len(legs[l])
                                /\ \A k \in 1 .. Len(legs[l]) : legs2[l][k] = Renamed(legs[l][k])
  BY DEF LegsLike, Like
<1>2. \A l \in 1 .. Len(legs) : Items(legs2[l]) = RenamedAll(Items(legs[l]))
  BY <1>1 DEF Items, RenamedAll
<1>3. Found(legs2) = RenamedAll(Found(legs))
  <2>1. Len(legs2) = Len(legs)
    BY DEF LegsLike
  <2>2. /\ \A d : d \in Found(legs2) <=> \E l \in 1 .. Len(legs) : d \in Items(legs2[l])
        /\ \A c : c \in Found(legs) <=> \E l \in 1 .. Len(legs) : c \in Items(legs[l])
    BY <2>1 DEF Found
  <2>3. \A d, l : l \in 1 .. Len(legs) =>
          (d \in Items(legs2[l]) <=> \E c \in Items(legs[l]) : d = Renamed(c))
    BY <1>2 DEF RenamedAll
  <2>4. \A d : d \in Found(legs2) <=> \E c \in Found(legs) : d = Renamed(c)
    BY <2>2, <2>3
  <2>. QED  BY <2>4 DEF RenamedAll
<1>4. NotesOf(legs2) = NotesOf(legs)
  <2>1. NotesOf(legs2) = {c[1] : c \in Found(legs2)} /\ NotesOf(legs) = {c[1] : c \in Found(legs)}
    BY DEF NotesOf, Found
  <2>2. \A c : Renamed(c)[1] = c[1]
    BY DEF Renamed
  <2>. QED  BY <1>3, <2>1, <2>2 DEF RenamedAll
<1>5. ASSUME NEW c \in Found(legs), NEW l \in 1 .. Len(legs), NEW k \in 1 .. Len(legs[l])
      PROVE  legs2[l][k] = Renamed(c) <=> legs[l][k] = c
  <2>1. legs[l][k] \in Found(legs)
    BY DEF Found, Items
  <2>. QED  BY <1>1, <2>1 DEF LegsLike
<1>6. ASSUME NEW c \in Found(legs), NEW l \in 1 .. Len(legs)
      PROVE  Renamed(c) \in Items(legs2[l]) <=> c \in Items(legs[l])
  BY <1>1, <1>5 DEF Items
<1>. QED  BY <1>3, <1>4, <1>5, <1>6

LEMMA ShareLike ==
  ASSUME NEW legs, NEW legs2, LegsLike(legs2, legs), NEW c \in Found(legs),
         NEW l \in 1 .. Len(legs)
  PROVE  Share(legs2, l, Renamed(c)) = Share(legs, l, c)
<1>. DEFINE n == Len(legs[l])
<1>1. /\ Len(legs2[l]) = n /\ Len(legs2) = Len(legs)
      /\ Renamed(c) \in Items(legs2[l]) <=> c \in Items(legs[l])
      /\ \A k \in 1 .. n : legs2[l][k] = Renamed(c) <=> legs[l][k] = c
  BY FoundLike DEF LegsLike, Like
<1>. HIDE DEF n
<1>2. (CHOOSE k \in 1 .. n : legs2[l][k] = Renamed(c)) = (CHOOSE k \in 1 .. n : legs[l][k] = c)
  BY <1>1, Zenon
<1>3. Weight(legs2, l) = Weight(legs, l)
  BY <1>1 DEF Weight
<1>. DEFINE rank  == CHOOSE k \in 1 .. n : legs[l][k] = c
            rank2 == CHOOSE k \in 1 .. n : legs2[l][k] = Renamed(c)
<1>4. Share(legs, l, c)
        = IF c \notin Items(legs[l]) THEN 0
          ELSE Weight(legs, l) * (Scale \div (RrfK + rank))
  BY DEF Share, n
<1>5. Share(legs2, l, Renamed(c))
        = IF Renamed(c) \notin Items(legs2[l]) THEN 0
          ELSE Weight(legs2, l) * (Scale \div (RrfK + rank2))
  BY <1>1 DEF Share
<1>6. rank2 = rank
  BY <1>2
<1>. HIDE DEF rank, rank2
<1>. QED  BY <1>1, <1>3, <1>4, <1>5, <1>6

LEMMA RrfLike ==
  ASSUME NEW legs, NEW legs2, LegsLike(legs2, legs), NEW c \in Found(legs)
  PROVE  Rrf(legs2, Renamed(c)) = Rrf(legs, c)
<1>. DEFINE n == Len(legs)
<1>1. Fusible(legs) /\ Fusible(legs2) /\ Len(legs2) = n /\ n \in Nat
  BY FusibleLegs DEF LegsLike
<1>2. \A l \in 1 .. n : Share(legs2, l, Renamed(c)) = Share(legs, l, c)
  BY ShareLike
<1>3. PICK p : /\ Rrf(legs, c) = p[n] /\ p[0] = 0
               /\ \A l \in 1 .. n : p[l] = p[l - 1] + Share(legs, l, c)
  BY <1>1, RrfRecurs
<1>4. PICK q : /\ Rrf(legs2, Renamed(c)) = q[n] /\ q[0] = 0
               /\ \A l \in 1 .. n : q[l] = q[l - 1] + Share(legs2, l, Renamed(c))
  <2>1. \E q : /\ Rrf(legs2, Renamed(c)) = q[Len(legs2)] /\ q[0] = 0
               /\ \A l \in 0 .. Len(legs2) : q[l] \in Int
               /\ \A l \in 1 .. Len(legs2) : q[l] = q[l - 1] + Share(legs2, l, Renamed(c))
    BY <1>1, RrfRecurs
  <2>. HIDE DEF n
  <2>. QED  BY <1>1, <2>1
<1>. HIDE DEF n
<1>. DEFINE T == {l \in 0 .. n : p[l] # q[l]}
<1>5. T = {}
  <2>1. SUFFICES ASSUME T # {} PROVE FALSE
    OBVIOUS
  <2>2. PICK x \in T : \A y \in T : x <= y
    <3>1. T \in SUBSET Nat
      OBVIOUS
    <3>. HIDE DEF T
    <3>. QED  BY <2>1, <3>1, Least
  <2>3. x \in 1 .. n /\ x - 1 \in 0 .. n /\ x - 1 \notin T
    <3>1. x # 0 /\ x \in 0 .. n
      BY <1>3, <1>4, <2>2
    <3>2. x - 1 \notin T
      <4>1. x - 1 \in T => x <= x - 1
        BY <2>2
      <4>. QED  BY <3>1, <4>1
    <3>. QED  BY <1>1, <3>1, <3>2
  <2>4. p[x - 1] = q[x - 1]
    BY <2>3
  <2>. QED  BY <1>2, <1>3, <1>4, <2>2, <2>3, <2>4
<1>. QED  BY <1>1, <1>3, <1>4, <1>5

LEMMA SoonerLike ==
  ASSUME NEW legs, NEW legs2, LegsLike(legs2, legs), NEW c \in Found(legs), NEW d \in Found(legs)
  PROVE  Sooner(legs2, Renamed(c), Renamed(d)) <=> Sooner(legs, c, d)
<1>1. ASSUME NEW e \in Found(legs) PROVE Appearances(legs2, Renamed(e)) = Appearances(legs, e)
  <2>1. /\ Len(legs2) = Len(legs) /\ \A l \in 1 .. Len(legs) : Len(legs2[l]) = Len(legs[l])
        /\ \A l \in 1 .. Len(legs) : Len(legs[l]) \in Nat
    BY FusibleLegs DEF LegsLike, Like
  <2>2. \A l \in 1 .. Len(legs), k \in 1 .. Pool :
          /\ k <= Len(legs2[l]) /\ legs2[l][k] = Renamed(e)
          <=> /\ k <= Len(legs[l]) /\ legs[l][k] = e
    <3>1. ASSUME NEW l \in 1 .. Len(legs), NEW k \in 1 .. Pool, k <= Len(legs[l])
          PROVE  legs2[l][k] = Renamed(e) <=> legs[l][k] = e
      <4>1. k \in 1 .. Len(legs[l])
        BY <2>1, <3>1, RetrievalAssumption
      <4>. QED  BY <4>1, FoundLike
    <3>. QED  BY <2>1, <3>1
  <2>3. \A at \in (1 .. Len(legs)) \X (1 .. Pool) : at[1] \in 1 .. Len(legs) /\ at[2] \in 1 .. Pool
    OBVIOUS
  <2>. QED  BY <2>1, <2>2, <2>3 DEF Appearances
<1>. QED  BY <1>1 DEF Sooner

(* A ranking is another with its items renamed.                            *)
RankLike(s2, s) ==
  /\ Len(s2) = Len(s)
  /\ \A k \in 1 .. Len(s) : s2[k].score = s[k].score /\ s2[k].item = Renamed(s[k].item)

LEMMA FuseLike ==
  ASSUME NEW legs, NEW legs2, LegsLike(legs2, legs)
  PROVE  RankLike(FuseRRF(legs2), FuseRRF(legs))
<1>. DEFINE S      == Found(legs)
            T      == Found(legs2)
            f      == [c \in S |-> Renamed(c)]
            score  == [c \in S |-> Rrf(legs, c)]
            score2 == [c \in T |-> Rrf(legs2, c)]
            tie    == {pair \in S \X S : Sooner(legs, pair[1], pair[2])}
            tie2   == {pair \in T \X T : Sooner(legs2, pair[1], pair[2])}
            s      == Sorted(S, score, tie)
            t      == Sorted(T, score2, tie2)
            n      == Cardinality(S)
<1>1. Fusible(legs) /\ Fusible(legs2) /\ \A c, d \in S : Renamed(c) = Renamed(d) => c = d
  BY DEF LegsLike
<1>2. IsFiniteSet(S) /\ IsFiniteSet(T)
  BY <1>1, FoundFinite
<1>3. StrictOrder(S, tie) /\ StrictOrder(T, tie2)
  BY <1>1, SoonerOrders
<1>4. /\ score \in [S -> Int] /\ score2 \in [T -> Int]
      /\ \A c : Rrf(legs, c) \in Int
      /\ \A c \in S : Rrf(legs2, Renamed(c)) = Rrf(legs, c)
  BY <1>1, RrfTyped, RrfLike
<1>5. T = RenamedAll(S)
  BY FoundLike
<1>6. \A c, d \in S : <<Renamed(c), Renamed(d)>> \in tie2 <=> <<c, d>> \in tie
  <2>1. \A c, d \in S : Renamed(c) \in T /\ Renamed(d) \in T
    BY <1>5 DEF RenamedAll
  <2>2. \A c, d \in S : Sooner(legs2, Renamed(c), Renamed(d)) <=> Sooner(legs, c, d)
    BY SoonerLike
  <2>. QED  BY <2>1, <2>2
<1>7. FuseRRF(legs)
        = [k \in 1 .. Len(s) |-> [item |-> s[k], score |-> Rrf(legs, s[k])]]
  BY DEF FuseRRF, Found
<1>8. FuseRRF(legs2)
        = [k \in 1 .. Len(t) |-> [item |-> t[k], score |-> Rrf(legs2, t[k])]]
  BY DEF FuseRRF, Found
<1>. HIDE DEF tie, tie2
<1>9. \A c \in S : f[c] = Renamed(c) /\ f[c] \in T /\ score2[f[c]] = score[c]
  BY <1>4, <1>5 DEF RenamedAll
<1>10. f \in Bijection(S, T)
  <2>1. f \in [S -> T] /\ \A d \in T : \E c \in S : f[c] = d
    BY <1>5 DEF RenamedAll
  <2>2. \A c, d \in S : f[c] = f[d] => c = d
    BY <1>1
  <2>. HIDE DEF f, S, T
  <2>. QED  BY <2>1, <2>2 DEF Bijection, Injection, Surjection, IsInjective
<1>11. \A c, d \in S : <<f[c], f[d]>> \in tie2 <=> <<c, d>> \in tie
  BY <1>6
<1>. HIDE DEF S, T, f, score, score2
<1>12. Cardinality(T) = n /\ \A k \in 1 .. n : t[k] = f[s[k]]
  BY <1>2, <1>3, <1>4, <1>9, <1>10, <1>11, SortedRenamed
<1>13. n \in Nat /\ s \in [1 .. n -> S] /\ t \in [1 .. n -> T]
  BY <1>2, <1>3, <1>4, <1>12, SortedTyped
<1>. HIDE DEF s, t, n
<1>14. Len(s) = n /\ Len(t) = n
  BY <1>13, SeqOfFunction
<1>. DEFINE r  == [k \in 1 .. n |-> [item |-> s[k], score |-> Rrf(legs, s[k])]]
            r2 == [k \in 1 .. n |-> [item |-> t[k], score |-> Rrf(legs2, t[k])]]
<1>15. \A k \in 1 .. n : r2[k].score = r[k].score /\ r2[k].item = Renamed(r[k].item)
  <2>1. \A k \in 1 .. n : t[k] = Renamed(s[k]) /\ s[k] \in S
    BY <1>9, <1>12, <1>13
  <2>. QED  BY <1>4, <2>1
<1>16. FuseRRF(legs) = r /\ FuseRRF(legs2) = r2
  BY <1>7, <1>8, <1>14
<1>17. Len(r) = n /\ Len(r2) = n
  <2>1. r \in [1 .. n -> {r[k] : k \in 1 .. n}] /\ r2 \in [1 .. n -> {r2[k] : k \in 1 .. n}]
    OBVIOUS
  <2>. HIDE DEF r, r2
  <2>. QED  BY <1>13, <2>1, SeqOfFunction
<1>. HIDE DEF r, r2
<1>. QED  BY <1>15, <1>16, <1>17 DEF RankLike

LEMMA ResortedLike ==
  ASSUME NEW S, NEW s \in Ranking(S), NEW T, NEW s2 \in Ranking(T), RankLike(s2, s)
  PROVE  RankLike(Resorted(s2), Resorted(s))
<1>. DEFINE n       == Len(s)
            places  == 1 .. n
            score   == [k \in places |-> s[k].score]
            tie     == {pair \in places \X places : pair[1] < pair[2]}
            order   == Sorted(places, score, tie)
            sorted  == [k \in places |-> s[order[k]]]
            sorted2 == [k \in places |-> s2[order[k]]]
<1>1. n \in Nat /\ score \in [places -> Int]
  BY RankingAt
<1>2. Len(s2) = n /\ \A k \in places : s2[k].score = s[k].score /\ s2[k].item = Renamed(s[k].item)
  BY DEF RankLike
<1>3. score = [k \in places |-> s2[k].score]
  BY <1>2
<1>4. Resorted(s) = sorted /\ Resorted(s2) = sorted2
  BY <1>2, <1>3 DEF Resorted
<1>. HIDE DEF n, score
<1>5. IsFiniteSet(places) /\ Cardinality(places) = n
  BY <1>1, FS_Interval
<1>6. StrictOrder(places, tie)
  BY <1>1 DEF StrictOrder
<1>. HIDE DEF tie
<1>7. order \in [1 .. n -> places]
  <2>. HIDE DEF places
  <2>. QED  BY <1>1, <1>5, <1>6, SortedTyped
<1>. HIDE DEF order
<1>8. \A k \in 1 .. n : /\ sorted2[k].score = sorted[k].score
                        /\ sorted2[k].item = Renamed(sorted[k].item)
  BY <1>2, <1>7
<1>9. Len(sorted) = n /\ Len(sorted2) = n
  <2>1. /\ sorted \in [1 .. n -> {sorted[k] : k \in places}]
        /\ sorted2 \in [1 .. n -> {sorted2[k] : k \in places}]
    OBVIOUS
  <2>. HIDE DEF sorted, sorted2
  <2>. QED  BY <1>1, <2>1, SeqOfFunction
<1>. HIDE DEF sorted, sorted2
<1>. QED  BY <1>4, <1>8, <1>9 DEF RankLike

LEMMA RescoredLike ==
  ASSUME NEW S, NEW s \in Ranking(S), NEW T, NEW s2 \in Ranking(T), RankLike(s2, s),
         NEW factor \in [1 .. Len(s) -> Int]
  PROVE  RankLike(Rescored(s2, factor), Rescored(s, factor))
<1>. DEFINE n  == Len(s)
            r  == [k \in 1 .. n |-> [s[k] EXCEPT !.score = @ * factor[k]]]
            r2 == [k \in 1 .. n |-> [s2[k] EXCEPT !.score = @ * factor[k]]]
<1>1. n \in Nat
  BY RankingAt
<1>2. Len(s2) = n /\ \A k \in 1 .. n : s2[k].score = s[k].score /\ s2[k].item = Renamed(s[k].item)
  BY DEF RankLike
<1>3. ASSUME NEW k \in 1 .. n
      PROVE  /\ r[k] \in [item : S, score : Int] /\ r2[k] \in [item : T, score : Int]
             /\ r2[k].score = r[k].score /\ r2[k].item = Renamed(r[k].item)
  <2>. DEFINE x  == s[k]
              x2 == s2[k]
              v  == x.score * factor[k]
  <2>1. /\ x \in [item : S, score : Int] /\ x2 \in [item : T, score : Int]
        /\ x.score \in Int /\ factor[k] \in Int
    BY <1>2, RankingAt
  <2>2. v \in Int /\ v = x2.score * factor[k] /\ x2.item = Renamed(x.item)
    BY <1>2, <2>1
  <2>3. r[k] = [x EXCEPT !.score = v] /\ r2[k] = [x2 EXCEPT !.score = v]
    BY <2>2
  <2>. HIDE DEF v, x, x2, r, r2
  <2>. QED  BY <2>1, <2>2, <2>3
<1>4. Rescored(s, factor) = Resorted(r) /\ Rescored(s2, factor) = Resorted(r2)
  BY <1>2 DEF Rescored
<1>5. r \in [1 .. n -> [item : S, score : Int]] /\ r2 \in [1 .. n -> [item : T, score : Int]]
  <2>1. /\ r = [k \in 1 .. n |-> r[k]] /\ r2 = [k \in 1 .. n |-> r2[k]]
    OBVIOUS
  <2>. HIDE DEF r, r2
  <2>. QED  BY <1>3, <2>1
<1>. HIDE DEF n, r, r2
<1>6. /\ r \in Ranking(S) /\ Len(r) = n /\ r2 \in Ranking(T) /\ Len(r2) = n
  <2>. DEFINE RS == [item : S, score : Int]
              RT == [item : T, score : Int]
  <2>1. n \in Nat /\ r \in [1 .. n -> RS] /\ r2 \in [1 .. n -> RT]
    BY <1>1, <1>5
  <2>2. Ranking(S) = Seq(RS) /\ Ranking(T) = Seq(RT)
    BY DEF Ranking
  <2>. HIDE DEF RS, RT
  <2>3. r \in Seq(RS) /\ Len(r) = n
    BY <2>1, SeqOfFunction
  <2>4. r2 \in Seq(RT) /\ Len(r2) = n
    BY <2>1, SeqOfFunction
  <2>. QED  BY <2>2, <2>3, <2>4
<1>7. RankLike(r2, r)
  BY <1>3, <1>6 DEF RankLike
<1>8. RankLike(Resorted(r2), Resorted(r))
  BY <1>6, <1>7, ResortedLike
<1>. QED  BY <1>4, <1>8

LEMMA DiscountsLike ==
  ASSUME NEW S \in SUBSET ChunkId, NEW s \in Ranking(S), NEW T, NEW s2 \in Ranking(T),
         RankLike(s2, s)
  PROVE  /\ \A stale : RankLike(Penalized(s2, stale), Penalized(s, stale))
         /\ \A bias \in [{Category[n] : n \in Notes} -> Nat] :
              RankLike(Biased(s2, bias), Biased(s, bias))
         /\ RankLike(Diversified(s2), Diversified(s))
<1>. DEFINE n == Len(s)
<1>1. /\ n \in Nat /\ Len(s2) = n
      /\ \A k \in 1 .. n : s[k].item[1] \in Notes /\ s2[k].item[1] = s[k].item[1]
  <2>1. n \in Nat /\ \A k \in 1 .. n : s[k].item \in ChunkId
    BY RankingAt
  <2>2. Len(s2) = n /\ \A k \in 1 .. n : s2[k].item = Renamed(s[k].item)
    BY DEF RankLike
  <2>. QED  BY <2>1, <2>2 DEF ChunkId, Renamed
<1>. HIDE DEF n
<1>2. ASSUME NEW stale PROVE RankLike(Penalized(s2, stale), Penalized(s, stale))
  <2>. DEFINE factor == [k \in 1 .. n |-> IF s[k].item[1] \in stale THEN 3 ELSE 20]
  <2>1. factor \in [1 .. n -> Int]
    OBVIOUS
  <2>2. factor = [k \in 1 .. n |-> IF s2[k].item[1] \in stale THEN 3 ELSE 20]
    BY <1>1
  <2>3. Penalized(s, stale) = Rescored(s, factor) /\ Penalized(s2, stale) = Rescored(s2, factor)
    BY <1>1, <2>2 DEF Penalized, n
  <2>. HIDE DEF factor
  <2>4. RankLike(Rescored(s2, factor), Rescored(s, factor))
    BY <2>1, RescoredLike DEF n
  <2>. QED  BY <2>3, <2>4
<1>3. ASSUME NEW bias \in [{Category[m] : m \in Notes} -> Nat]
      PROVE  RankLike(Biased(s2, bias), Biased(s, bias))
  <2>. DEFINE factor == [k \in 1 .. n |-> bias[Category[s[k].item[1]]]]
  <2>1. factor \in [1 .. n -> Int]
    BY <1>1
  <2>2. factor = [k \in 1 .. n |-> bias[Category[s2[k].item[1]]]]
    BY <1>1
  <2>3. Biased(s, bias) = Rescored(s, factor) /\ Biased(s2, bias) = Rescored(s2, factor)
    BY <1>1, <2>2 DEF Biased, n
  <2>. HIDE DEF factor
  <2>4. RankLike(Rescored(s2, factor), Rescored(s, factor))
    BY <2>1, RescoredLike DEF n
  <2>. QED  BY <2>3, <2>4
<1>4. RankLike(Diversified(s2), Diversified(s))
  <2>. DEFINE factor == [k \in 1 .. n |-> Doubled(n - Repeats(s, k))]
  <2>1. ASSUME NEW k \in 1 .. n PROVE Repeats(s2, k) = Repeats(s, k)
    <3>1. \A l \in 1 .. (k - 1) : s2[l].item[1] = s2[k].item[1] <=> s[l].item[1] = s[k].item[1]
      BY <1>1
    <3>. QED  BY <3>1 DEF Repeats
  <2>2. factor \in [1 .. n -> Int]
    BY DecayTyped DEF n
  <2>3. factor = [k \in 1 .. n |-> Doubled(n - Repeats(s2, k))]
    BY <2>1
  <2>4. Diversified(s) = Rescored(s, factor) /\ Diversified(s2) = Rescored(s2, factor)
    BY <1>1, <2>3 DEF Diversified, n
  <2>. HIDE DEF factor
  <2>5. RankLike(Rescored(s2, factor), Rescored(s, factor))
    BY <2>2, RescoredLike DEF n
  <2>. QED  BY <2>4, <2>5
<1>. QED  BY <1>2, <1>3, <1>4

LEMMA HitsLike ==
  ASSUME NEW legs, NEW legs2, LegsLike(legs2, legs), NEW stale, NEW ask \in Ask
  PROVE  Like(Hits(legs2, stale, ask), Hits(legs, stale, ask))
<1>. DEFINE F       == Found(legs)
            F2      == Found(legs2)
            fused   == FuseRRF(legs)
            fused2  == FuseRRF(legs2)
            p       == Penalized(fused, stale)
            p2      == Penalized(fused2, stale)
            b       == Biased(p, ask.bias)
            b2      == Biased(p2, ask.bias)
            d       == Diversified(b)
            d2      == Diversified(b2)
            items   == [k \in 1 .. Len(d) |-> d[k].item]
            items2  == [k \in 1 .. Len(d2) |-> d2[k].item]
<1>1. /\ F \in SUBSET ChunkId /\ F2 \in SUBSET ChunkId
      /\ ask.topK \in Nat /\ ask.bias \in [{Category[n] : n \in Notes} -> Nat]
  BY FusibleLegs DEF LegsLike, Ask
<1>2. fused \in Ranking(F) /\ fused2 \in Ranking(F2) /\ RankLike(fused2, fused)
  BY FuseTyped, FuseLike DEF LegsLike
<1>3. /\ Hits(legs, stale, ask) = First(items, ask.topK)
      /\ Hits(legs2, stale, ask) = First(items2, ask.topK)
  BY DEF Hits
<1>. HIDE DEF F, F2, fused, fused2
<1>4. p \in Ranking(F) /\ p2 \in Ranking(F2) /\ RankLike(p2, p)
  BY <1>1, <1>2, DiscountsTyped, DiscountsLike
<1>. HIDE DEF p, p2
<1>5. b \in Ranking(F) /\ b2 \in Ranking(F2) /\ RankLike(b2, b)
  BY <1>1, <1>4, DiscountsTyped, DiscountsLike
<1>. HIDE DEF b, b2
<1>6. d \in Ranking(F) /\ d2 \in Ranking(F2) /\ RankLike(d2, d)
  BY <1>1, <1>5, DiscountsTyped, DiscountsLike
<1>. HIDE DEF d, d2
<1>7. /\ Len(d) \in Nat /\ items \in [1 .. Len(d) -> F]
      /\ Len(d2) = Len(d) /\ items2 \in [1 .. Len(d) -> F2]
      /\ \A k \in 1 .. Len(d) : items2[k] = Renamed(items[k])
  BY <1>6, RankingAt DEF RankLike
<1>. HIDE DEF items, items2
<1>8. items \in Seq(F) /\ Len(items) = Len(d)
  BY <1>7, SeqOfFunction
<1>9. items2 \in Seq(F2) /\ Len(items2) = Len(d)
  BY <1>7, SeqOfFunction
<1>10. Like(items2, items)
  BY <1>7, <1>8, <1>9 DEF Like
<1>11. Like(First(items2, ask.topK), First(items, ask.topK))
  BY <1>1, <1>8, <1>9, <1>10, FirstLike
<1>. QED  BY <1>3, <1>11

-----------------------------------------------------------------------------
(* What an undisturbed query finds.                                        *)

ReferencePrimary(rows, vector, ask) == Append(vector, KeywordLeg(rows, ask))

ReferenceLegs(rows, vector, ask) ==
  Append(ReferencePrimary(rows, vector, ask),
         GraphLeg(rows, ask, NotesOf(ReferencePrimary(rows, vector, ask))))

(* What the vector indexes returned of an index.                           *)
Returned(vector, rows, ask) ==
  /\ vector \in [1 .. Providers -> Leg]
  /\ \A p \in 1 .. Providers : LegOf(vector[p], Through(rows, ask))

LEMMA ReferenceHits ==
  ASSUME NEW rows, NEW vector, NEW ask
  PROVE  Reference(rows, vector, ask)
           = Hits(ReferenceLegs(rows, vector, ask),
                  ArchivedLinkers(rows, NotesOf(ReferenceLegs(rows, vector, ask))), ask)
BY DEF Reference, ReferencePrimary, ReferenceLegs

(* Legs that list chunks out of a set.                                     *)
Drawn(legs, S) == legs \in Seq(Leg) /\ \A l \in 1 .. Len(legs) : LegOf(legs[l], S)

LEMMA DrawnMore ==
  ASSUME NEW S, NEW legs, Drawn(legs, S), NEW leg, LegOf(leg, S)
  PROVE  /\ Drawn(Append(legs, leg), S) /\ Len(legs) \in Nat
         /\ Len(Append(legs, leg)) = Len(legs) + 1
         /\ \A l \in 1 .. Len(legs) : Append(legs, leg)[l] = legs[l]
         /\ Append(legs, leg)[Len(legs) + 1] = leg
<1>. DEFINE a == Append(legs, leg)
<1>1. legs \in Seq(Leg) /\ leg \in Leg
  BY DEF Drawn, LegOf
<1>2. /\ a \in Seq(Leg) /\ Len(a) = Len(legs) + 1 /\ Len(legs) \in Nat
      /\ \A l \in 1 .. Len(legs) : a[l] = legs[l]
      /\ a[Len(legs) + 1] = leg
  BY <1>1, AppendProperties, LenProperties
<1>. HIDE DEF a
<1>3. ASSUME NEW l \in 1 .. Len(a) PROVE LegOf(a[l], S)
  <2>1. l \in 1 .. Len(legs) \/ l = Len(legs) + 1
    BY <1>2
  <2>. QED  BY <1>2, <2>1 DEF Drawn
<1>4. Drawn(a, S)
  BY <1>2, <1>3 DEF Drawn
<1>. QED  BY <1>2, <1>4 DEF a

LEMMA DrawnFusible ==
  ASSUME NEW S, NEW legs, Drawn(legs, S)
  PROVE  Fusible(legs) /\ Found(legs) \subseteq S
BY DEF Drawn, Fusible, Found, LegOf

LEMMA KeywordLegTyped ==
  ASSUME NEW rows \in Rows, NEW ask
  PROVE  LegOf(KeywordLeg(rows, ask), Through(rows, ask))
<1>. DEFINE conjunction == AllTerms(rows, ask)
            noteLevel   == Longer(conjunction, NoteLevel(rows, ask))
            S           == Through(rows, ask)
<1>1. LegOf(conjunction, S) /\ LegOf(NoteLevel(rows, ask), S) /\ LegOf(AnyTerm(rows, ask), S)
  BY KeywordLegsTyped
<1>2. KeywordLeg(rows, ask)
        = IF Len(conjunction) >= FallbackBelow THEN conjunction
          ELSE IF Len(noteLevel) >= FallbackBelow THEN noteLevel
          ELSE Longer(noteLevel, AnyTerm(rows, ask))
  BY DEF KeywordLeg
<1>. HIDE DEF conjunction, S
<1>3. LegOf(noteLevel, S)
  BY <1>1, LongerOne
<1>. HIDE DEF noteLevel
<1>4. LegOf(Longer(noteLevel, AnyTerm(rows, ask)), S)
  BY <1>1, <1>3, LongerOne
<1>5. LegOf(KeywordLeg(rows, ask), S)
  BY <1>1, <1>2, <1>3, <1>4
<1>. QED  BY <1>5 DEF S

LEMMA KeywordLegLike ==
  ASSUME NEW rows \in Rows, NEW ask
  PROVE  Like(KeywordLeg(Alike(rows), ask), KeywordLeg(rows, ask))
<1>. DEFINE a == Alike(rows)
            best(r) == Longer(AllTerms(r, ask), NoteLevel(r, ask))
            last(r) == Longer(best(r), AnyTerm(r, ask))
<1>1. \A x, y, x2, y2 : Like(x2, x) /\ Like(y2, y) => Like(Longer(x2, y2), Longer(x, y))
  BY DEF Like, Longer
<1>2. /\ Like(AllTerms(a, ask), AllTerms(rows, ask)) /\ Like(AnyTerm(a, ask), AnyTerm(rows, ask))
      /\ Like(NoteLevel(a, ask), NoteLevel(rows, ask))
  BY KeywordLegsLike
<1>3. \A r : KeywordLeg(r, ask) = IF Len(AllTerms(r, ask)) >= FallbackBelow THEN AllTerms(r, ask)
                                  ELSE IF Len(best(r)) >= FallbackBelow THEN best(r)
                                  ELSE last(r)
  BY DEF KeywordLeg
<1>. HIDE DEF a
<1>4. Like(best(a), best(rows))
  BY <1>1, <1>2
<1>5. Like(last(a), last(rows))
  BY <1>1, <1>2, <1>4
<1>. HIDE DEF best, last
<1>6. /\ Len(AllTerms(a, ask)) = Len(AllTerms(rows, ask))
      /\ Len(best(a)) = Len(best(rows))
  BY <1>2, <1>4 DEF Like
<1>7. Like(KeywordLeg(a, ask), KeywordLeg(rows, ask))
  BY <1>2, <1>3, <1>4, <1>5, <1>6
<1>. QED  BY <1>7 DEF a

LEMMA ReferenceTyped ==
  ASSUME NEW rows \in Rows, NEW ask, NEW v, Returned(v, rows, ask)
  PROVE  /\ Drawn(ReferencePrimary(rows, v, ask), Through(rows, ask))
         /\ Len(ReferencePrimary(rows, v, ask)) = Providers + 1
         /\ \A p \in 1 .. Providers : ReferencePrimary(rows, v, ask)[p] = v[p]
         /\ ReferencePrimary(rows, v, ask)[Providers + 1] = KeywordLeg(rows, ask)
         /\ Drawn(ReferenceLegs(rows, v, ask), Through(rows, ask))
         /\ Len(ReferenceLegs(rows, v, ask)) = Providers + 2
         /\ \A l \in 1 .. (Providers + 1) :
              ReferenceLegs(rows, v, ask)[l] = ReferencePrimary(rows, v, ask)[l]
         /\ ReferenceLegs(rows, v, ask)[Providers + 2]
              = GraphLeg(rows, ask, NotesOf(ReferencePrimary(rows, v, ask)))
<1>. DEFINE S       == Through(rows, ask)
            keyword == KeywordLeg(rows, ask)
            primary == ReferencePrimary(rows, v, ask)
            graph   == GraphLeg(rows, ask, NotesOf(primary))
            all     == ReferenceLegs(rows, v, ask)
<1>1. Providers \in Nat
  BY RetrievalAssumption
<1>3. v \in [1 .. Providers -> Leg] /\ \A p \in 1 .. Providers : LegOf(v[p], S)
  BY DEF Returned
<1>4. LegOf(keyword, S)
  BY KeywordLegTyped
<1>5. primary = Append(v, keyword) /\ all = Append(primary, graph)
  BY DEF ReferencePrimary, ReferenceLegs
<1>. HIDE DEF keyword, primary, S, all
<1>7. v \in Seq(Leg) /\ Len(v) = Providers
  BY <1>1, <1>3, SeqOfFunction
<1>8. Drawn(v, S)
  BY <1>3, <1>7 DEF Drawn
<1>9. /\ Drawn(primary, S) /\ Len(primary) = Providers + 1
      /\ \A p \in 1 .. Providers : primary[p] = v[p]
      /\ primary[Providers + 1] = keyword
  BY <1>4, <1>5, <1>7, <1>8, DrawnMore
<1>10. NotesOf(primary) \in SUBSET Notes
  BY <1>9, DrawnFusible, NotesFound
<1>11. LegOf(graph, S)
  BY <1>10, GraphLegTyped DEF S
<1>. HIDE DEF graph
<1>12. /\ Drawn(all, S) /\ Len(all) = Providers + 2
       /\ \A l \in 1 .. (Providers + 1) : all[l] = primary[l]
       /\ all[Providers + 2] = graph
  <2>1. Len(primary) + 1 = Providers + 2
    BY <1>1, <1>9
  <2>. QED  BY <1>5, <1>9, <1>11, <2>1, DrawnMore
<1>. QED  BY <1>9, <1>12 DEF S, keyword, primary, graph, all

(* The answer is the same whichever ids the chunks have.                   *)
LEMMA ReferenceLike ==
  ASSUME NEW rows \in Rows, NEW ask \in Ask, NEW v, Returned(v, rows, ask),
         NEW w, w = [p \in 1 .. Providers |-> AlikeLeg(v[p])]
  PROVE  Like(Reference(Alike(rows), w, ask), Reference(rows, v, ask))
<1>. DEFINE a        == Alike(rows)
            primary  == ReferencePrimary(rows, v, ask)
            primary2 == ReferencePrimary(a, w, ask)
            legs     == ReferenceLegs(rows, v, ask)
            legs2    == ReferenceLegs(a, w, ask)
            seeds    == NotesOf(primary)
            n        == Providers
<1>1. a \in Rows /\ n \in Nat
  BY AlikeRows, RetrievalAssumption
<1>0. /\ \A p \in 1 .. n : w[p] = AlikeLeg(v[p]) /\ Like(w[p], v[p])
      /\ Returned(w, a, ask)
  <2>1. \A p \in 1 .. n : /\ Like(AlikeLeg(v[p]), v[p]) /\ AlikeLeg(v[p]) \in Leg
                          /\ LegOf(AlikeLeg(v[p]), Through(a, ask))
    BY AlikeLegTyped DEF Returned
  <2>. QED  BY <2>1 DEF Returned
<1>2. ASSUME NEW x, NEW y, Drawn(x, Through(rows, ask)), Drawn(y, Through(a, ask)),
             Len(y) = Len(x), \A l \in 1 .. Len(x) : Like(y[l], x[l])
      PROVE  LegsLike(y, x)
  <2>1. Fusible(x) /\ Fusible(y) /\ Found(x) \subseteq AllChunks(rows)
    BY <1>2, DrawnFusible, ThroughTyped
  <2>2. \A c, d \in Found(x) : Renamed(c) = Renamed(d) => c = d
    BY <2>1, ChunkRenamed
  <2>. QED  BY <1>2, <2>1, <2>2 DEF LegsLike
<1>3. /\ Drawn(primary, Through(rows, ask)) /\ Len(primary) = n + 1
      /\ \A p \in 1 .. n : primary[p] = v[p]
      /\ primary[n + 1] = KeywordLeg(rows, ask)
      /\ Drawn(legs, Through(rows, ask)) /\ Len(legs) = n + 2
      /\ \A l \in 1 .. (n + 1) : legs[l] = primary[l]
      /\ legs[n + 2] = GraphLeg(rows, ask, seeds)
  BY ReferenceTyped
<1>4. /\ Drawn(primary2, Through(a, ask)) /\ Len(primary2) = n + 1
      /\ \A p \in 1 .. n : primary2[p] = w[p]
      /\ primary2[n + 1] = KeywordLeg(a, ask)
      /\ Drawn(legs2, Through(a, ask)) /\ Len(legs2) = n + 2
      /\ \A l \in 1 .. (n + 1) : legs2[l] = primary2[l]
      /\ legs2[n + 2] = GraphLeg(a, ask, NotesOf(primary2))
  BY <1>0, <1>1, ReferenceTyped
<1>5. Reference(rows, v, ask) = Hits(legs, ArchivedLinkers(rows, NotesOf(legs)), ask)
  BY ReferenceHits
<1>6. Reference(a, w, ask) = Hits(legs2, ArchivedLinkers(a, NotesOf(legs2)), ask)
  BY ReferenceHits
<1>7. /\ \A p \in 1 .. n : Like(w[p], v[p])
      /\ Like(KeywordLeg(a, ask), KeywordLeg(rows, ask))
      /\ \A notes \in SUBSET Notes : Like(GraphLeg(a, ask, notes), GraphLeg(rows, ask, notes))
      /\ \A notes : ArchivedLinkers(a, notes) = ArchivedLinkers(rows, notes)
  BY <1>0, KeywordLegLike, GraphLegLike, LinkersLike
<1>8. seeds \in SUBSET Notes
  BY <1>3, DrawnFusible, NotesFound
<1>. HIDE DEF a, primary, primary2, legs, legs2, n
<1>9. \A l \in 1 .. (n + 1) : Like(primary2[l], primary[l])
  <2>. TAKE l \in 1 .. (n + 1)
  <2>1. l \in 1 .. n \/ l = n + 1
    BY <1>1
  <2>. QED  BY <1>3, <1>4, <1>7, <2>1
<1>10. LegsLike(primary2, primary)
  BY <1>2, <1>3, <1>4, <1>9
<1>11. NotesOf(primary2) = seeds
  BY <1>10, FoundLike
<1>. HIDE DEF seeds
<1>12. \A l \in 1 .. (n + 2) : Like(legs2[l], legs[l])
  <2>. TAKE l \in 1 .. (n + 2)
  <2>1. l \in 1 .. (n + 1) \/ l = n + 2
    BY <1>1
  <2>. QED  BY <1>3, <1>4, <1>7, <1>8, <1>9, <1>11, <2>1
<1>13. LegsLike(legs2, legs)
  BY <1>2, <1>3, <1>4, <1>12
<1>14. ArchivedLinkers(a, NotesOf(legs2)) = ArchivedLinkers(rows, NotesOf(legs))
  BY <1>7, <1>13, FoundLike
<1>15. Like(Reference(a, w, ask), Reference(rows, v, ask))
  BY <1>5, <1>6, <1>13, <1>14, HitsLike
<1>. QED  BY <1>15 DEF a

-----------------------------------------------------------------------------
(* While nothing is written, a query finds what it would have found at any *)
(* one moment.                                                             *)

Quietly ==
  quiet /\ Running =>
    /\ \A p \in 1 .. Providers :
         query.vector[p] # None => LegOf(query.vector[p], Through(row, query.ask))
    /\ query.fts \in {"note", "or"} => Len(AllTerms(row, query.ask)) < FallbackBelow
    /\ query.fts = "note" => query.keyword = AllTerms(row, query.ask)
    /\ query.fts = "or" =>
         /\ query.keyword = Longer(AllTerms(row, query.ask), NoteLevel(row, query.ask))
         /\ Len(query.keyword) < FallbackBelow
    /\ query.fts = "done" => query.keyword = KeywordLeg(row, query.ask)
    /\ query.pc \in {"rank", "hint"} =>
         query.fts = "done" /\ \A p \in 1 .. Providers : query.vector[p] # None
    /\ query.pc = "rank" => query.graph = GraphLeg(row, query.ask, NotesOf(Primary))
    /\ query.pc = "hint" => query.hits = Reference(row, query.vector, query.ask)

LEMMA LegLengths ==
  ASSUME NEW rows \in Rows, NEW ask
  PROVE  /\ Len(AllTerms(rows, ask)) \in Nat
         /\ Len(Longer(AllTerms(rows, ask), NoteLevel(rows, ask))) \in Nat
<1>1. AllTerms(rows, ask) \in Leg /\ NoteLevel(rows, ask) \in Leg
  BY KeywordLegsTyped DEF LegOf
<1>2. Longer(AllTerms(rows, ask), NoteLevel(rows, ask)) \in Leg
  BY <1>1 DEF Longer
<1>. QED  BY <1>1, <1>2, LegItems

LEMMA QuietBegin == IInv /\ Begin => Quietly'
<1>. SUFFICES ASSUME IInv, Begin PROVE Quietly'
  OBVIOUS
<1>1. PICK ask \in budget.asks : query' = [NoQuery EXCEPT !.pc = "legs", !.ask = ask]
  BY DEF Begin
<1>2. /\ query'.pc = "legs" /\ query'.fts = "and"
      /\ \A p \in 1 .. Providers : query'.vector[p] = None
  BY <1>1 DEF NoQuery
<1>. QED  BY <1>2 DEF Quietly

LEMMA QuietVector ==
  ASSUME IInv, Quietly, NEW p \in 1 .. Providers, RankVector(p)
  PROVE  Quietly'
<1>1. PICK leg \in VectorLegs(row, query.ask, p) :
        /\ query.pc = "legs" /\ query' = [query EXCEPT !.vector[p] = leg]
        /\ row' = row /\ quiet' = quiet
  BY DEF RankVector, Undisturbed
<1>2. query \in Query /\ LegOf(leg, Through(row, query.ask)) /\ leg \in Leg
  BY VectorLegTyped DEF IInv, Asked, Stored, LegOf
<1>3. /\ query'.pc = "legs" /\ query'.ask = query.ask /\ query'.fts = query.fts
      /\ query'.keyword = query.keyword
      /\ \A q \in 1 .. Providers : query'.vector[q] = IF q = p THEN leg ELSE query.vector[q]
  BY <1>1, <1>2 DEF Query
<1>. QED  BY <1>1, <1>2, <1>3 DEF Quietly, Running

LEMMA QuietFTS == IInv /\ Quietly /\ RankFTS => Quietly'
<1>. SUFFICES ASSUME IInv, Quietly, RankFTS PROVE Quietly'
  OBVIOUS
<1>. DEFINE found == AllTerms(row, query.ask)
<1>1. /\ query.pc = "legs" /\ row' = row /\ quiet' = quiet
      /\ query' = [query EXCEPT !.fts = Starved(found, "note"),
                                !.conjunction = found, !.keyword = found]
  BY DEF RankFTS, Reads, Undisturbed
<1>2. query \in Query /\ Len(found) \in Nat
  BY LegLengths DEF IInv, Asked, Stored
<1>3. FallbackBelow \in Nat
  BY DEF FallbackBelow
<1>4. Len(found) >= FallbackBelow => KeywordLeg(row, query.ask) = found
  BY DEF KeywordLeg
<1>. HIDE DEF found
<1>5. /\ query'.pc = "legs" /\ query'.ask = query.ask /\ query'.vector = query.vector
      /\ query'.keyword = found /\ query'.fts = Starved(found, "note")
  BY <1>1, <1>2 DEF Query
<1>6. CASE Len(found) < FallbackBelow
  <2>1. query'.fts = "note"
    BY <1>5, <1>6 DEF Starved
  <2>. QED  BY <1>1, <1>5, <1>6, <2>1 DEF Quietly, Running, found
<1>7. CASE ~(Len(found) < FallbackBelow)
  <2>1. query'.fts = "done" /\ KeywordLeg(row, query.ask) = found
    BY <1>2, <1>3, <1>4, <1>5, <1>7 DEF Starved
  <2>. QED  BY <1>1, <1>5, <2>1 DEF Quietly, Running
<1>. QED  BY <1>6, <1>7

LEMMA QuietNoteLevel == IInv /\ Quietly /\ RankFTSNoteLevel => Quietly'
<1>. SUFFICES ASSUME IInv, Quietly, RankFTSNoteLevel, quiet PROVE Quietly'
  BY DEF Quietly, RankFTSNoteLevel, Reads, Undisturbed
<1>. DEFINE found == AllTerms(row, query.ask)
            best  == Longer(found, NoteLevel(row, query.ask))
<1>1. /\ query.pc = "legs" /\ query.fts = "note" /\ row' = row /\ quiet' = quiet
      /\ query' = [query EXCEPT
                     !.fts = Starved(Longer(query.keyword, NoteLevel(row, query.ask)), "or"),
                     !.keyword = Longer(query.keyword, NoteLevel(row, query.ask))]
  BY DEF RankFTSNoteLevel, Reads, Undisturbed
<1>2. query.keyword = found /\ Len(found) < FallbackBelow
  BY <1>1 DEF Quietly, Running
<1>3. query \in Query /\ Len(found) \in Nat /\ Len(best) \in Nat /\ FallbackBelow \in Nat
  BY LegLengths DEF IInv, Asked, Stored, FallbackBelow
<1>4. query' = [query EXCEPT !.fts = Starved(best, "or"), !.keyword = best]
  BY <1>1, <1>2
<1>5. ~(Len(found) >= FallbackBelow)
  BY <1>2, <1>3
<1>6. Len(best) >= FallbackBelow => KeywordLeg(row, query.ask) = best
  BY <1>5 DEF KeywordLeg
<1>. HIDE DEF best
<1>7. /\ query'.pc = "legs" /\ query'.ask = query.ask /\ query'.vector = query.vector
      /\ query'.keyword = best /\ query'.fts = Starved(best, "or")
  BY <1>1, <1>3, <1>4 DEF Query
<1>8. CASE Len(best) < FallbackBelow
  <2>1. query'.fts = "or"
    BY <1>7, <1>8 DEF Starved
  <2>. QED  BY <1>1, <1>2, <1>7, <1>8, <2>1 DEF Quietly, Running, best
<1>9. CASE ~(Len(best) < FallbackBelow)
  <2>1. query'.fts = "done" /\ KeywordLeg(row, query.ask) = best
    BY <1>3, <1>6, <1>7, <1>9 DEF Starved
  <2>. QED  BY <1>1, <1>7, <2>1 DEF Quietly, Running
<1>. QED  BY <1>8, <1>9

LEMMA QuietOr == IInv /\ Quietly /\ RankFTSOr => Quietly'
<1>. SUFFICES ASSUME IInv, Quietly, RankFTSOr, quiet PROVE Quietly'
  BY DEF Quietly, RankFTSOr, Reads, Undisturbed
<1>. DEFINE found == AllTerms(row, query.ask)
            best  == Longer(found, NoteLevel(row, query.ask))
            last  == Longer(best, AnyTerm(row, query.ask))
<1>1. /\ query.pc = "legs" /\ query.fts = "or" /\ row' = row /\ quiet' = quiet
      /\ query' = [query EXCEPT !.fts = "done",
                                !.keyword = Longer(query.keyword, AnyTerm(row, query.ask))]
  BY DEF RankFTSOr, Reads, Undisturbed
<1>2. query.keyword = best /\ Len(found) < FallbackBelow /\ Len(best) < FallbackBelow
  BY <1>1 DEF Quietly, Running
<1>3. query \in Query /\ Len(found) \in Nat /\ Len(best) \in Nat /\ FallbackBelow \in Nat
  BY LegLengths DEF IInv, Asked, Stored, FallbackBelow
<1>4. query' = [query EXCEPT !.fts = "done", !.keyword = last]
  BY <1>1, <1>2
<1>5. ~(Len(found) >= FallbackBelow) /\ ~(Len(best) >= FallbackBelow)
  BY <1>2, <1>3
<1>6. KeywordLeg(row, query.ask) = last
  BY <1>5 DEF KeywordLeg
<1>. HIDE DEF last
<1>7. /\ query'.pc = "legs" /\ query'.ask = query.ask /\ query'.vector = query.vector
      /\ query'.keyword = last /\ query'.fts = "done"
  BY <1>1, <1>3, <1>4 DEF Query
<1>. QED  BY <1>1, <1>6, <1>7 DEF Quietly, Running

LEMMA QuietGraph == IInv /\ Quietly /\ RankGraph => Quietly'
<1>. SUFFICES ASSUME IInv, Quietly, RankGraph PROVE Quietly'
  OBVIOUS
<1>. DEFINE leg == GraphLeg(row, query.ask, NotesOf(Primary))
<1>1. /\ query.pc = "legs" /\ query.fts = "done" /\ \A p \in 1 .. Providers : query.vector[p] # None
      /\ query' = [query EXCEPT !.pc = "rank", !.graph = leg] /\ row' = row /\ quiet' = quiet
  BY DEF RankGraph, Reads, Undisturbed
<1>2. query \in Query
  BY DEF IInv, Asked
<1>. HIDE DEF leg
<1>3. /\ query'.pc = "rank" /\ query'.ask = query.ask /\ query'.vector = query.vector
      /\ query'.keyword = query.keyword /\ query'.fts = "done" /\ query'.graph = leg
  BY <1>1, <1>2 DEF Query
<1>4. Primary' = Primary
  BY <1>3 DEF Primary
<1>. QED  BY <1>1, <1>3, <1>4 DEF Quietly, Running, leg

LEMMA QuietAnswer == IInv /\ Quietly /\ Answer => Quietly'
<1>. SUFFICES ASSUME IInv, Quietly, Answer, quiet PROVE Quietly'
  BY DEF Quietly, Answer, Reads, Undisturbed
<1>. DEFINE ask   == query.ask
            stale == ArchivedLinkers(row, NotesOf(Legs))
            hits  == Hits(Legs, stale, ask)
<1>1. /\ query.pc = "rank" /\ row' = row /\ quiet' = quiet
      /\ query' = [query EXCEPT !.pc = "hint", !.stale = stale, !.hits = hits]
  BY DEF Answer, Reads, Undisturbed
<1>2. query \in Query
  BY DEF IInv, Asked
<1>3. /\ query.fts = "done" /\ query.keyword = KeywordLeg(row, ask)
      /\ \A p \in 1 .. Providers : /\ query.vector[p] # None
                                   /\ LegOf(query.vector[p], Through(row, ask))
      /\ query.graph = GraphLeg(row, ask, NotesOf(Primary))
  BY <1>1 DEF Quietly, Running
<1>5. Primary = ReferencePrimary(row, query.vector, ask)
  BY <1>3 DEF Primary, ReferencePrimary
<1>6. Legs = ReferenceLegs(row, query.vector, ask)
  BY <1>3, <1>5 DEF Legs, ReferenceLegs
<1>7. hits = Reference(row, query.vector, ask)
  BY <1>6, ReferenceHits
<1>. HIDE DEF hits, stale
<1>8. /\ query'.pc = "hint" /\ query'.ask = ask /\ query'.vector = query.vector
      /\ query'.keyword = query.keyword /\ query'.fts = "done" /\ query'.hits = hits
  BY <1>1, <1>2, <1>3 DEF Query
<1>. QED  BY <1>1, <1>3, <1>7, <1>8 DEF Quietly, Running

(* The other steps end the query or the quiet, or touch neither.           *)
LEMMA QuietRest ==
  ASSUME IInv, Quietly,
         \/ Hint \/ Fail \/ Tick \/ UNCHANGED vars
         \/ \E n \in Notes : Edit(n) \/ Write(n) \/ Shelve(n)
  PROVE  Quietly'
<1>1. CASE Hint \/ Fail
  <2>1. query \in Query
    BY DEF IInv, Asked
  <2>2. query'.pc \notin {"legs", "rank", "hint"}
    BY <1>1, <2>1 DEF Hint, Fail, Query
  <2>. QED  BY <2>2 DEF Quietly, Running
<1>2. CASE Tick \/ UNCHANGED vars
  <2>1. row' = row /\ query' = query /\ quiet' = quiet
    BY <1>2 DEF Tick, vars
  <2>. QED  BY <2>1 DEF Quietly, Running, Primary
<1>3. CASE \E n \in Notes : Edit(n) \/ Write(n) \/ Shelve(n)
  <2>1. query' = query /\ quiet' = (quiet /\ ~Running)
    BY <1>3 DEF Edit, Write, Shelve, Indexes
  <2>2. ~(quiet' /\ Running')
    BY <2>1 DEF Running
  <2>. QED  BY <2>2 DEF Quietly
<1>. QED  BY <1>1, <1>2, <1>3

(* Whichever leg finishes first, what a query has found while nothing is   *)
(* written is what each leg would find at one moment (query.go:519-524).   *)
THEOREM QuietInductive == Spec => [](IInv /\ Quietly)
<1>1. Init => Quietly
  BY DEF Init, NoQuery, Quietly, Running
<1>2. IInv /\ Quietly /\ [Next]_vars => Quietly'
  BY QuietBegin, QuietVector, QuietFTS, QuietNoteLevel, QuietOr, QuietGraph, QuietAnswer,
     QuietRest DEF Next
<1>. QED  BY <1>1, <1>2, Inductive, PTL DEF Spec

(* The answer to a query during which nothing is written is decided by     *)
(* what the vector indexes returned, which may be anything, and by what    *)
(* the notes say: two indexes that say the same then give the same chunks, *)
(* by note and ordinal, in the same order, under whatever ids they were    *)
(* indexed and whichever leg finished first (query_legs.go:20-28,          *)
(* query.go:519-524).                                                      *)
THEOREM ContentDecides == Spec => []AnswerFromContent
<1>1. IInv /\ Quietly => AnswerFromContent
  <2>. SUFFICES ASSUME IInv, Quietly, query.pc = "hint", quiet
                PROVE  LET reference ==
                             Reference(Alike(row),
                                       [p \in 1 .. Providers |-> AlikeLeg(query.vector[p])],
                                       query.ask)
                       IN /\ Len(query.hits) = Len(reference)
                          /\ \A k \in 1 .. Len(reference) :
                               Place(query.hits[k]) = Place(reference[k])
    BY DEF AnswerFromContent
  <2>. DEFINE alike     == [p \in 1 .. Providers |-> AlikeLeg(query.vector[p])]
              reference == Reference(Alike(row), alike, query.ask)
  <2>1. /\ query.hits = Reference(row, query.vector, query.ask)
        /\ \A p \in 1 .. Providers : /\ query.vector[p] # None
                                     /\ LegOf(query.vector[p], Through(row, query.ask))
    BY DEF Quietly, Running
  <2>2. row \in Rows /\ query.ask \in Ask /\ query \in Query
    BY AskTyped DEF IInv, Stored, Asked, Running
  <2>3. Returned(query.vector, row, query.ask)
    BY <2>1, <2>2 DEF Returned, Query
  <2>6. Like(reference, query.hits)
    BY <2>1, <2>2, <2>3, ReferenceLike
  <2>4. \A c : Place(Renamed(c)) = Place(c)
    BY DEF Place, Renamed
  <2>. HIDE DEF reference
  <2>5. /\ Len(query.hits) = Len(reference)
        /\ \A k \in 1 .. Len(reference) : Place(query.hits[k]) = Place(reference[k])
    BY <2>4, <2>6 DEF Like
  <2>. QED  BY <2>5 DEF reference
<1>. QED  BY <1>1, QuietInductive, PTL

-----------------------------------------------------------------------------
(* What the keyword leg keeps.                                             *)

(* Of what the keyword leg found first, what the filter still lets through *)
(* of notes that match as a whole.                                         *)
Standing == {c \in Items(query.conjunction) \cap Through(row, query.ask) : InWhole(row, c)}

(* Ids are not minted twice, so what is still let through is what was      *)
(* found.                                                                  *)
Intact ==
  /\ \A n \in Indexed(row) : row[n].mint <= mints
  /\ \A c \in Items(query.conjunction) :
       c[2] \in Nat /\ c[2] <= mints /\ InScope(c[1], query.ask)

Holds(leg) == Len(leg) = Pool \/ Standing \subseteq Items(leg)

Kept == query.ask # None /\ query.fts # "and" => Holds(query.keyword)

LEMMA FirstAt ==
  ASSUME NEW S, NEW s \in Seq(S), NEW limit \in Nat
  PROVE  /\ Len(First(s, limit)) = IF Len(s) < limit THEN Len(s) ELSE limit
         /\ \A k \in 1 .. Len(First(s, limit)) : k \in 1 .. Len(s) /\ First(s, limit)[k] = s[k]
<1>. DEFINE n == IF Len(s) < limit THEN Len(s) ELSE limit
<1>1. Len(s) \in Nat /\ n \in 0 .. Len(s)
  OBVIOUS
<1>2. First(s, limit) = SubSeq(s, 1, n)
  BY DEF First
<1>. HIDE DEF n
<1>3. Len(SubSeq(s, 1, n)) = n /\ \A k \in 1 .. n : SubSeq(s, 1, n)[k] = s[k]
  BY <1>1
<1>4. Len(First(s, limit)) = n /\ \A k \in 1 .. n : k \in 1 .. Len(s) /\ First(s, limit)[k] = s[k]
  BY <1>1, <1>2, <1>3
<1>. QED  BY <1>4 DEF n

(* A set sorted leaves nobody out.                                         *)
LEMMA SortedAll ==
  ASSUME NEW S, IsFiniteSet(S), NEW score \in [S -> Int], NEW tie, StrictOrder(S, tie), NEW c \in S
  PROVE  \E k \in 1 .. Cardinality(S) : Sorted(S, score, tie)[k] = c
<1>. DEFINE A == Ahead(S, Better(S, score, tie), c)
            k == Cardinality(A) + 1
<1>1. A \in SUBSET S /\ c \notin A
  <2>1. StrictOrder(S, Better(S, score, tie))
    BY BetterOrders
  <2>. QED  BY <2>1 DEF Ahead, StrictOrder
<1>. HIDE DEF A
<1>2. /\ IsFiniteSet(A) /\ Cardinality(A) <= Cardinality(S)
      /\ Cardinality(A) = Cardinality(S) => A = S
  BY <1>1, FS_Subset
<1>3. Cardinality(A) \in Nat /\ Cardinality(S) \in Nat /\ Cardinality(A) # Cardinality(S)
  BY <1>1, <1>2, FS_CardinalityType
<1>4. k \in 1 .. Cardinality(S) /\ Cardinality(A) = k - 1
  BY <1>2, <1>3
<1>. HIDE DEF k
<1>5. \A x \in S : Cardinality(Ahead(S, Better(S, score, tie), x)) = k - 1
                     <=> x = Sorted(S, score, tie)[k]
  BY <1>4, SortedAt
<1>6. Sorted(S, score, tie)[k] = c
  BY <1>4, <1>5 DEF A
<1>. QED  BY <1>4, <1>6

(* A statement returns all it found, or as much as it may.                 *)
LEMMA FullOrAll ==
  ASSUME NEW rows \in Rows, NEW S \in SUBSET AllChunks(rows), NEW rank \in [S -> Int]
  PROVE  Len(FtsLeg(S, rank)) = Pool \/ S \subseteq Items(FtsLeg(S, rank))
<1>. DEFINE s == Sorted(S, rank, InPlace(S))
            n == Cardinality(S)
<1>1. IsFiniteSet(S) /\ StrictOrder(S, InPlace(S)) /\ Pool \in Nat
  BY ThroughTyped, FS_Subset, InPlaceOrders, RetrievalAssumption
<1>2. n \in Nat /\ s \in [1 .. n -> S] /\ \A c \in S : \E k \in 1 .. n : s[k] = c
  BY <1>1, SortedTyped, SortedAll
<1>3. FtsLeg(S, rank) = First(s, Pool)
  BY DEF FtsLeg
<1>. HIDE DEF s, n
<1>4. s \in Seq(S) /\ Len(s) = n
  BY <1>2, SeqOfFunction
<1>5. CASE n < Pool
  <2>1. Len(First(s, Pool)) = n /\ \A k \in 1 .. n : First(s, Pool)[k] = s[k]
    BY <1>1, <1>4, <1>5, FirstAt
  <2>2. ASSUME NEW c \in S PROVE c \in Items(First(s, Pool))
    <3>1. PICK k \in 1 .. n : s[k] = c
      BY <1>2
    <3>. QED  BY <2>1, <3>1 DEF Items
  <2>. QED  BY <1>3, <2>2
<1>6. CASE ~(n < Pool)
  BY <1>1, <1>3, <1>4, <1>6, FirstAt
<1>. QED  BY <1>5, <1>6

(* Either fallback finds again what still stands, up to its limit.         *)
LEMMA FallbacksHold ==
  ASSUME IInv, Intact
  PROVE  Holds(NoteLevel(row, query.ask)) /\ Holds(AnyTerm(row, query.ask))
<1>1. row \in Rows /\ Scoped(row, query.ask) \subseteq AllChunks(row)
  BY ThroughTyped DEF IInv, Stored
<1>2. ASSUME NEW S \in SUBSET Scoped(row, query.ask), Standing \subseteq S
      PROVE  Holds(ByAny(S, row))
  <2>1. S \in SUBSET AllChunks(row)
    BY <1>1
  <2>. DEFINE rank == [c \in S |-> Content(row, c).any]
  <2>2. rank \in [S -> Int]
    BY <1>1, <2>1, RanksTyped
  <2>3. ByAny(S, row) = FtsLeg(S, rank)
    BY DEF ByAny
  <2>. HIDE DEF rank
  <2>. QED  BY <1>1, <1>2, <2>1, <2>2, <2>3, FullOrAll DEF Holds
<1>3. ASSUME NEW c \in Standing
      PROVE  c \in Scoped(row, query.ask) /\ InWhole(row, c) /\ Content(row, c).any > 0
  BY DEF Standing, Intact, Scoped, InWhole
<1>. QED  BY <1>2, <1>3 DEF NoteLevel, AnyTerm

LEMMA LongerHolds ==
  ASSUME NEW leg, Holds(leg), NEW other, Holds(other)
  PROVE  Holds(Longer(leg, other))
BY DEF Longer, Holds

(* A step of the query that leaves what was found first.                   *)
LEMMA SameConjunction ==
  ASSUME Intact, row' = row, mints' = mints, query'.conjunction = query.conjunction,
         query'.ask = query.ask
  PROVE  Intact' /\ Standing' = Standing
BY DEF Intact, Standing, Indexed

LEMMA IntactBegin == IInv /\ Intact /\ Begin => Intact' /\ Kept'
<1>. SUFFICES ASSUME IInv, Intact, Begin PROVE Intact' /\ Kept'
  OBVIOUS
<1>1. PICK ask \in budget.asks : query' = [NoQuery EXCEPT !.pc = "legs", !.ask = ask]
  BY DEF Begin
<1>2. row' = row /\ mints' = mints
  BY DEF Begin
<1>3. query'.conjunction = <<>> /\ query'.fts = "and"
  BY <1>1 DEF NoQuery
<1>4. Items(query'.conjunction) = {}
  BY <1>3, NoLeg
<1>. QED  BY <1>2, <1>3, <1>4 DEF Intact, Kept, Indexed

LEMMA IntactFTS == IInv /\ Intact /\ RankFTS => Intact' /\ Kept'
<1>. SUFFICES ASSUME IInv, Intact, RankFTS PROVE Intact' /\ Kept'
  OBVIOUS
<1>. DEFINE found == AllTerms(row, query.ask)
<1>1. /\ row' = row /\ mints' = mints
      /\ query' = [query EXCEPT !.fts = Starved(found, "note"),
                                !.conjunction = found, !.keyword = found]
  BY DEF RankFTS, Reads, Undisturbed
<1>2. query \in Query /\ row \in Rows
  BY DEF IInv, Asked, Stored
<1>3. Items(found) \subseteq Scoped(row, query.ask)
  <2>. DEFINE S == {c \in Scoped(row, query.ask) : Content(row, c).every > 0}
              rank == [c \in S |-> Content(row, c).every]
  <2>1. S \in SUBSET AllChunks(row)
    BY <1>2, ThroughTyped
  <2>2. rank \in [S -> Int]
    BY <1>2, <2>1, RanksTyped
  <2>3. found = FtsLeg(S, rank) /\ S \subseteq Scoped(row, query.ask)
    BY DEF AllTerms
  <2>. HIDE DEF S, rank, found
  <2>. QED  BY <1>2, <2>1, <2>2, <2>3, SortedLeg DEF FtsLeg, LegOf
<1>4. ASSUME NEW c \in Scoped(row, query.ask)
      PROVE  c[2] \in Nat /\ c[2] <= mints /\ InScope(c[1], query.ask)
  <2>1. c \in AllChunks(row) /\ InScope(c[1], query.ask)
    BY <1>2, ThroughTyped DEF Scoped
  <2>2. PICK n \in Indexed(row) : c \in ChunksOf(row, n)
    BY <2>1 DEF AllChunks
  <2>3. c[2] = row[n].mint /\ row[n].mint \in Nat
    BY <1>2, <2>2, ChunkOf, TextChunks DEF Row
  <2>. QED  BY <2>1, <2>3 DEF Intact
<1>. HIDE DEF found
<1>5. query'.conjunction = found /\ query'.keyword = found /\ query'.ask = query.ask
  BY <1>1, <1>2 DEF Query
<1>6. Intact'
  BY <1>1, <1>3, <1>4, <1>5 DEF Intact, Indexed
<1>7. Kept'
  BY <1>5 DEF Kept, Holds, Standing
<1>. QED  BY <1>6, <1>7

LEMMA IntactFallback ==
  ASSUME IInv, Intact, RankFTSNoteLevel \/ RankFTSOr
  PROVE  Intact' /\ (Kept => Kept')
<1>. DEFINE other == IF query.fts = "note" THEN NoteLevel(row, query.ask)
                     ELSE AnyTerm(row, query.ask)
<1>1. /\ query.fts \in {"note", "or"} /\ row' = row /\ mints' = mints
      /\ \E fts : query' = [query EXCEPT !.fts = fts, !.keyword = Longer(query.keyword, other)]
  BY DEF RankFTSNoteLevel, RankFTSOr, Reads, Undisturbed
<1>2. query \in Query
  BY DEF IInv, Asked
<1>3. Holds(other)
  BY FallbacksHold
<1>. HIDE DEF other
<1>4. /\ query'.conjunction = query.conjunction /\ query'.ask = query.ask
      /\ query'.keyword = Longer(query.keyword, other)
  BY <1>1, <1>2 DEF Query
<1>5. Intact' /\ Standing' = Standing
  BY <1>1, <1>4, SameConjunction
<1>6. Kept /\ query.ask # None => Holds(Longer(query.keyword, other))
  BY <1>1, <1>3, LongerHolds DEF Kept
<1>. QED  BY <1>4, <1>5, <1>6 DEF Kept, Holds

(* The other steps of the query leave the keyword leg alone.               *)
LEMMA IntactRest ==
  ASSUME IInv, Intact,
         \/ RankGraph \/ Answer \/ Hint \/ Fail \/ Tick \/ UNCHANGED vars
         \/ \E p \in 1 .. Providers : RankVector(p)
  PROVE  Intact' /\ (Kept => Kept')
<1>1. query \in Query
  BY DEF IInv, Asked
<1>2. /\ row' = row /\ mints' = mints
      /\ query'.conjunction = query.conjunction /\ query'.ask = query.ask
      /\ query'.fts = query.fts /\ query'.keyword = query.keyword
  <2>1. CASE RankGraph
    BY <1>1, <2>1 DEF RankGraph, Reads, Undisturbed, Query
  <2>2. CASE Answer
    BY <1>1, <2>2 DEF Answer, Reads, Undisturbed, Query
  <2>3. CASE Hint \/ Fail
    BY <1>1, <2>3 DEF Hint, Fail, Reads, Undisturbed, Query
  <2>4. CASE Tick \/ UNCHANGED vars
    BY <2>4 DEF Tick, vars
  <2>5. CASE \E p \in 1 .. Providers : RankVector(p)
    <3>1. PICK p \in 1 .. Providers : RankVector(p)
      BY <2>5
    <3>2. PICK leg : query' = [query EXCEPT !.vector[p] = leg]
      BY <3>1 DEF RankVector
    <3>. QED  BY <1>1, <3>1, <3>2 DEF RankVector, Undisturbed, Query
  <2>. QED  BY <2>1, <2>2, <2>3, <2>4, <2>5
<1>3. Intact' /\ Standing' = Standing
  BY <1>2, SameConjunction
<1>. QED  BY <1>2, <1>3 DEF Kept, Holds

LEMMA Indexing ==
  ASSUME IInv, NEW n \in Notes, Edit(n) \/ Write(n) \/ Shelve(n)
  PROVE  \E r \in Row : Indexes(n, r)
<1>1. row \in Rows /\ now \in Nat
  BY DEF IInv, Stored
<1>2. CASE Edit(n)
  <2>1. PICK t \in TextsOf[n] : Indexes(n, [row[n] EXCEPT !.text = t])
    BY <1>2 DEF Edit
  <2>2. t \in Texts /\ row[n] \in Row
    BY <1>1, <1>2, RetrievalAssumption DEF Edit, Rows
  <2>3. [row[n] EXCEPT !.text = t] \in Row
    BY <2>2 DEF Row
  <2>. QED  BY <2>1, <2>3
<1>3. CASE Write(n)
  <2>1. PICK t \in TextsOf[n], head \in Heads \cup {Today} :
          Indexes(n, [text |-> t, mint |-> 0, status |-> head.status,
                      created |-> head.created, since |-> head.since])
    BY <1>3 DEF Write
  <2>2. Today \in Frontmatter
    BY <1>1 DEF Today, Frontmatter, Statuses
  <2>3. t \in Texts /\ head \in Frontmatter
    BY <2>2, RetrievalAssumption
  <2>4. [text |-> t, mint |-> 0, status |-> head.status,
         created |-> head.created, since |-> head.since] \in Row
    BY <2>3 DEF Row, Frontmatter
  <2>. QED  BY <2>1, <2>4
<1>4. CASE Shelve(n)
  <2>1. PICK status \in Statuses \ {"active"} :
          Indexes(n, [row[n] EXCEPT !.status = status, !.since = now])
    BY <1>4 DEF Shelve
  <2>2. row[n] \in Row
    BY <1>1, <1>4 DEF Shelve, Rows
  <2>3. [row[n] EXCEPT !.status = status, !.since = now] \in Row
    BY <1>1, <2>2 DEF Row
  <2>. QED  BY <2>1, <2>3
<1>. QED  BY <1>2, <1>3, <1>4

(* What is indexed meanwhile takes chunks away and brings others.          *)
LEMMA IntactIndexes ==
  ASSUME IInv, Intact, NEW n \in Notes, Edit(n) \/ Write(n) \/ Shelve(n)
  PROVE  Intact' /\ (Kept => Kept')
<1>1. PICK r \in Row : Indexes(n, r)
  BY Indexing
<1>. DEFINE x == [r EXCEPT !.mint = mints + 1]
<1>2. row' = [row EXCEPT ![n] = x] /\ mints' = mints + 1 /\ query' = query
  BY <1>1 DEF Indexes
<1>3. row \in Rows /\ mints \in Nat /\ x \in Row /\ x.mint = mints + 1
  BY DEF IInv, Stored, Row
<1>. HIDE DEF x
<1>4. /\ \A m \in Notes : row'[m] = IF m = n THEN x ELSE row[m]
      /\ row' \in Rows /\ Indexed(row') \subseteq Indexed(row) \cup {n}
  BY <1>2, <1>3, RowChanged DEF Rows
<1>5. \A m \in Indexed(row') : row'[m].mint <= mints'
  <2>. TAKE m \in Indexed(row')
  <2>1. m \in Notes
    BY DEF Indexed
  <2>2. CASE m = n
    BY <1>2, <1>3, <1>4, <2>1, <2>2
  <2>3. CASE m # n
    <3>1. m \in Indexed(row) /\ row'[m] = row[m]
      BY <1>4, <2>1, <2>3
    <3>2. row[m].mint \in Nat /\ row[m].mint <= mints
      BY <1>3, <3>1, TextChunks DEF Intact, Row
    <3>. QED  BY <1>2, <1>3, <3>1, <3>2
  <2>. QED  BY <2>2, <2>3
<1>6. \A c \in Items(query.conjunction) :
        c[2] \in Nat /\ c[2] <= mints + 1 /\ c[2] # mints + 1 /\ InScope(c[1], query.ask)
  BY <1>3 DEF Intact
<1>7. ASSUME NEW c \in Standing' PROVE c \in Standing
  <2>1. c \in Items(query.conjunction) /\ c \in Through(row', query.ask) /\ InWhole(row', c)
    BY <1>2 DEF Standing
  <2>2. PICK m \in Indexed(row') : Visible(row'[m], query.ask) /\ c \in ChunksOf(row', m)
    BY <2>1 DEF Through
  <2>3. c[1] = m /\ c[2] = row'[m].mint /\ m \in Notes
    BY <1>4, <2>2, ChunkOf DEF Indexed
  <2>4. m # n
    BY <1>3, <1>4, <1>6, <2>1, <2>3
  <2>5. m \in Indexed(row) /\ row'[m] = row[m]
    BY <1>4, <2>3, <2>4
  <2>6. ChunksOf(row', m) = ChunksOf(row, m)
    BY <2>5 DEF ChunksOf
  <2>7. c \in Through(row, query.ask)
    BY <2>2, <2>5, <2>6 DEF Through
  <2>8. InWhole(row, c)
    BY <2>1, <2>3, <2>5 DEF InWhole, Content
  <2>. QED  BY <2>1, <2>7, <2>8 DEF Standing
<1>8. Intact'
  BY <1>2, <1>5, <1>6 DEF Intact
<1>9. Kept => Kept'
  BY <1>2, <1>7 DEF Kept, Holds
<1>. QED  BY <1>8, <1>9

LEMMA IntactInit == Init => Intact /\ Kept
<1>. SUFFICES ASSUME Init PROVE Intact /\ Kept
  OBVIOUS
<1>1. /\ row \in Starts /\ mints = 0 /\ query = NoQuery
  BY DEF Init
<1>2. Items(query.conjunction) = {} /\ query.ask = None
  BY <1>1, NoQueryTyped, NoLeg
<1>3. \A n \in Indexed(row) : row[n].mint = 0
  BY <1>1, RetrievalAssumption DEF Indexed
<1>. QED  BY <1>1, <1>2, <1>3 DEF Intact, Kept

LEMMA KeptStep == IInv /\ Intact /\ Kept /\ [Next]_vars => Intact' /\ Kept'
BY IntactBegin, IntactFTS, IntactFallback, IntactRest, IntactIndexes DEF Next

LEMMA KeptTells == Kept => FallbackKeeps
BY DEF Kept, Holds, FallbackKeeps, Standing

(* Whatever is written between the statements and however they rank, a     *)
(* fallback that is looking for more loses what the conjunction found, of  *)
(* a note that matches as a whole, only if it returns as much as it may    *)
(* (query.go:552-587, query_legs.go:190-257).                              *)
THEOREM FallbacksKeepWithinPool == Spec => []FallbackKeeps
<1>1. Init => Intact /\ Kept
  BY IntactInit
<1>2. IInv /\ Intact /\ Kept /\ [Next]_vars => Intact' /\ Kept'
  BY KeptStep
<1>. QED  BY <1>1, <1>2, KeptTells, Inductive, PTL DEF Spec

-----------------------------------------------------------------------------
(* Stale notes come last.                                                  *)

LEMMA Halves ==
  ASSUME NEW n \in Nat
  PROVE  \E p : /\ Doubled(n) = p[n] /\ p[0] = 1
                /\ \A k \in 0 .. n : p[k] \in Int
                /\ \A i \in 1 .. n : p[i] = 2 * p[i - 1]
<1>. DEFINE step == [at \in (1 .. n) \X Int |-> 2 * at[2]]
            Is(f) == f = [k \in 0 .. n |-> IF k = 0 THEN 1 ELSE 2 * f[k - 1]]
            p == CHOOSE f : Is(f)
<1>1. step \in [(1 .. n) \X Int -> Int]
  OBVIOUS
<1>2. \A i \in 1 .. n, v \in Int : step[<<i, v>>] = 2 * v
  OBVIOUS
<1>. HIDE DEF step
<1>3. PICK f : Steps(f, n, 1, step)
  BY <1>1, StepsExist
<1>4. Is(f)
  <2>1. ASSUME NEW k \in 0 .. n PROVE f[k] = IF k = 0 THEN 1 ELSE 2 * f[k - 1]
    <3>1. CASE k = 0
      BY <1>3, <3>1 DEF Steps
    <3>2. CASE k # 0
      <4>1. k \in 1 .. n /\ f[k - 1] \in Int /\ f[k] = step[<<k, f[k - 1]>>]
        BY <1>3, <3>2 DEF Steps
      <4>. QED  BY <1>2, <3>2, <4>1
    <3>. QED  BY <3>1, <3>2
  <2>2. f = [k \in 0 .. n |-> f[k]]
    BY <1>3 DEF Steps
  <2>. QED  BY <2>1, <2>2
<1>5. Is(p)
  BY <1>4
<1>6. Doubled(n) = p[n]
  BY DEF Doubled
<1>. HIDE DEF p
<1>7. p[0] = 1 /\ \A i \in 1 .. n : p[i] = 2 * p[i - 1]
  <2>1. \A k \in 0 .. n : p[k] = IF k = 0 THEN 1 ELSE 2 * p[k - 1]
    BY <1>5
  <2>. QED  BY <2>1
<1>. HIDE DEF Is
<1>8. \A i \in 1 .. n : p[i - 1] \in Int => p[i] = step[<<i, p[i - 1]>>]
  BY <1>2, <1>7
<1>9. \A k \in 0 .. n : p[k] \in Int
  BY <1>1, <1>7, <1>8, StepsTyped, 1 \in Int
<1>. QED  BY <1>6, <1>7, <1>9

(* The more often it is doubled, the more it is.                           *)
LEMMA DoubledGrows ==
  ASSUME NEW n \in Nat, NEW m \in 0 .. n
  PROVE  /\ Doubled(m) \in Int /\ Doubled(n) \in Int
         /\ 0 < Doubled(m) /\ Doubled(m) <= Doubled(n)
<1>1. PICK p : /\ Doubled(n) = p[n] /\ p[0] = 1 /\ \A k \in 0 .. n : p[k] \in Int
               /\ \A i \in 1 .. n : p[i] = 2 * p[i - 1]
  BY Halves
<1>2. PICK q : /\ Doubled(m) = q[m] /\ q[0] = 1 /\ \A k \in 0 .. m : q[k] \in Int
               /\ \A i \in 1 .. m : q[i] = 2 * q[i - 1]
  <2>1. m \in Nat
    OBVIOUS
  <2>. QED  BY <2>1, Halves
<1>. DEFINE T == {k \in 0 .. n : ~(0 < p[k] /\ (k <= m => p[k] = q[k])
                                   /\ (k > m => q[m] <= p[k]))}
<1>3. T = {}
  <2>1. SUFFICES ASSUME T # {} PROVE FALSE
    OBVIOUS
  <2>2. PICK x \in T : \A y \in T : x <= y
    <3>1. T \in SUBSET Nat
      OBVIOUS
    <3>. HIDE DEF T
    <3>. QED  BY <2>1, <3>1, Least
  <2>3. x # 0
    BY <1>1, <1>2, <2>2
  <2>4. x \in 1 .. n /\ x - 1 \in 0 .. n /\ x - 1 \notin T
    BY <2>2, <2>3
  <2>5. 0 < p[x - 1] /\ (x - 1 <= m => p[x - 1] = q[x - 1]) /\ (x - 1 > m => q[m] <= p[x - 1])
    BY <2>4
  <2>6. p[x] = 2 * p[x - 1] /\ p[x - 1] \in Int /\ p[x] \in Int
    BY <1>1, <2>4
  <2>7. CASE x <= m
    <3>1. q[x] = 2 * q[x - 1]
      BY <1>2, <2>4, <2>7
    <3>. QED  BY <2>2, <2>5, <2>6, <2>7, <3>1
  <2>8. CASE x > m
    <3>1. q[m] <= p[x - 1] /\ q[m] \in Int
      BY <1>2, <2>4, <2>5, <2>6, <2>8
    <3>. QED  BY <2>2, <2>4, <2>5, <2>6, <2>8, <3>1
  <2>. QED  BY <2>4, <2>7, <2>8
<1>4. 0 < p[n] /\ 0 < p[m] /\ p[m] = q[m] /\ (n > m => q[m] <= p[n])
  BY <1>3
<1>. QED  BY <1>1, <1>2, <1>4

LEMMA Exactly ==
  ASSUME NEW x \in Nat, NEW d \in Nat \ {0}, x % d = 0
  PROVE  x \div d \in Nat /\ (x \div d) * d = x
<1>. DEFINE q == x \div d
            r == x % d
<1>1. q \in Nat /\ r \in 0 .. (d - 1) /\ x = d * q + r
  OBVIOUS
<1>2. r = 0
  OBVIOUS
<1>. HIDE DEF q, r
<1>3. d * q = q * d /\ d * q \in Nat
  BY <1>1
<1>4. q \in Nat /\ q * d = x
  BY <1>1, <1>2, <1>3
<1>. QED  BY <1>4 DEF q

(* Every rank's share of the whole is a whole number.                      *)
LEMMA Shares ==
  ASSUME NEW rank \in 1 .. Pool
  PROVE  /\ Scale \div (RrfK + rank) \in Nat
         /\ (Scale \div (RrfK + rank)) * (RrfK + rank) = Scale
<1>1. Scale \in Nat /\ RrfK + rank \in Nat \ {0} /\ Scale % (RrfK + rank) = 0
  BY RetrievalAssumption DEF RrfK
<1>. QED  BY <1>1, Exactly

(* The smaller of two numbers with one product goes with the larger.       *)
LEMMA Balanced ==
  ASSUME NEW a \in Nat, NEW b \in Nat, NEW d \in Nat \ {0}, NEW e \in Nat, d <= e, a * d = b * e
  PROVE  b <= a
<1>. SUFFICES ASSUME a + 1 <= b PROVE FALSE
  OBVIOUS
<1>1. (a + 1) * d <= b * d /\ b * d <= b * e
  <2>1. \A x, y, z \in Nat : x <= y => z * x <= z * y /\ x * z <= y * z
    <3>. TAKE x, y, z \in Nat
    <3>. HAVE x <= y
    <3>1. y - x \in Nat /\ z * (y - x) \in Nat
      OBVIOUS
    <3>2. z * (y - x) = z * y - z * x /\ z * y = y * z /\ z * x = x * z
      OBVIOUS
    <3>. QED  BY <3>1, <3>2
  <2>. QED  BY <2>1
<1>2. (a + 1) * d = a * d + d
  OBVIOUS
<1>3. a * d \in Nat /\ b * d \in Nat /\ b * e \in Nat
  OBVIOUS
<1>. QED  BY <1>1, <1>2, <1>3

LEMMA SharesFall ==
  ASSUME NEW rank \in 1 .. Pool
  PROVE  /\ Scale \div (RrfK + rank) <= Scale \div (RrfK + 1)
         /\ Scale \div (RrfK + Pool) <= Scale \div (RrfK + rank)
<1>1. Pool \in 1 .. Pool /\ 1 \in 1 .. Pool /\ Pool \in Nat
  BY RetrievalAssumption
<1>2. /\ RrfK + 1 \in Nat \ {0} /\ RrfK + rank \in Nat \ {0} /\ RrfK + Pool \in Nat
      /\ RrfK + 1 <= RrfK + rank /\ RrfK + rank <= RrfK + Pool
  BY <1>1 DEF RrfK
<1>3. \A r \in 1 .. Pool : /\ Scale \div (RrfK + r) \in Nat
                           /\ (Scale \div (RrfK + r)) * (RrfK + r) = Scale
  BY Shares
<1>. DEFINE q(r) == Scale \div (RrfK + r)
            d(r) == RrfK + r
<1>4. /\ q(1) \in Nat /\ q(rank) \in Nat /\ q(Pool) \in Nat
      /\ q(1) * d(1) = q(rank) * d(rank) /\ q(rank) * d(rank) = q(Pool) * d(Pool)
  BY <1>1, <1>3
<1>5. /\ d(1) \in Nat \ {0} /\ d(rank) \in Nat \ {0} /\ d(Pool) \in Nat
      /\ d(1) <= d(rank) /\ d(rank) <= d(Pool)
  BY <1>2
<1>. HIDE DEF q, d
<1>6. q(rank) <= q(1) /\ q(Pool) <= q(rank)
  BY <1>4, <1>5, Balanced
<1>. QED  BY <1>6 DEF q

(* What the first rank adds, and the last, to half the weight.             *)
Top    == Scale \div (RrfK + 1)
Bottom == Scale \div (RrfK + Pool)

LEMMA TopAndBottom ==
  /\ Top \in Nat /\ Bottom \in Nat \ {0}
  /\ Top * (RrfK + 1) = Scale /\ Bottom * (RrfK + Pool) = Scale
<1>1. 1 \in 1 .. Pool /\ Pool \in 1 .. Pool /\ Scale \in Nat \ {0} /\ Pool \in Nat
  BY RetrievalAssumption
<1>2. /\ Top \in Nat /\ Bottom \in Nat
      /\ Top * (RrfK + 1) = Scale /\ Bottom * (RrfK + Pool) = Scale
  BY <1>1, Shares DEF Top, Bottom
<1>3. Bottom # 0
  <2>1. 0 * (RrfK + Pool) = 0
    BY <1>1 DEF RrfK
  <2>. QED  BY <1>1, <1>2, <2>1
<1>. QED  BY <1>2, <1>3

LEMMA ShareBounds ==
  ASSUME NEW legs, Fusible(legs), NEW l \in 1 .. Len(legs), NEW c
  PROVE  /\ Share(legs, l, c) \in Nat /\ Share(legs, l, c) <= 2 * Top
         /\ l = Len(legs) => Share(legs, l, c) <= Top
         /\ c \in Items(legs[l]) /\ l # Len(legs) => Share(legs, l, c) >= 2 * Bottom
<1>. DEFINE rank == CHOOSE k \in 1 .. Len(legs[l]) : legs[l][k] = c
            q    == Scale \div (RrfK + rank)
<1>1. Top \in Nat /\ Bottom \in Nat
  BY TopAndBottom
<1>2. CASE c \notin Items(legs[l])
  BY <1>1, <1>2 DEF Share
<1>3. CASE c \in Items(legs[l])
  <2>1. rank \in 1 .. Pool
    <3>1. rank \in 1 .. Len(legs[l])
      BY <1>3 DEF Items
    <3>2. Len(legs[l]) \in Nat /\ Len(legs[l]) <= Pool /\ Pool \in Nat
      BY FusibleLegs, RetrievalAssumption
    <3>. HIDE DEF rank
    <3>. QED  BY <3>1, <3>2
  <2>2. Share(legs, l, c) = Weight(legs, l) * q
    BY <1>3 DEF Share
  <2>. HIDE DEF rank
  <2>3. q \in Nat /\ q <= Top /\ Bottom <= q
    BY <2>1, Shares, SharesFall DEF Top, Bottom
  <2>. HIDE DEF q
  <2>4. Weight(legs, l) = IF l = Len(legs) THEN 1 ELSE 2
    BY DEF Weight
  <2>5. Share(legs, l, c) = IF l = Len(legs) THEN q ELSE 2 * q
    BY <2>2, <2>3, <2>4
  <2>. QED  BY <1>1, <2>3, <2>5
<1>. QED  BY <1>2, <1>3

(* No score is more than the first rank in every leg gives, none of a      *)
(* chunk that a primary leg found less than the last rank in one.          *)
LEMMA RrfBounds ==
  ASSUME NEW legs, Fusible(legs), Len(legs) >= 1, NEW c
  PROVE  /\ Rrf(legs, c) \in Nat /\ Rrf(legs, c) <= (2 * Len(legs) - 1) * Top
         /\ \A g \in 1 .. (Len(legs) - 1) : c \in Items(legs[g]) => Rrf(legs, c) >= 2 * Bottom
<1>. DEFINE n == Len(legs)
            share(l) == Share(legs, l, c)
<1>1. n \in Nat \ {0} /\ Top \in Nat /\ Bottom \in Nat
  BY FusibleLegs, TopAndBottom
<1>2. PICK p : /\ Rrf(legs, c) = p[n] /\ p[0] = 0 /\ \A l \in 0 .. n : p[l] \in Int
               /\ \A l \in 1 .. n : p[l] = p[l - 1] + share(l)
  BY RrfRecurs
<1>3. \A l \in 1 .. n : /\ share(l) \in Nat /\ share(l) <= 2 * Top
                        /\ l = n => share(l) <= Top
                        /\ c \in Items(legs[l]) /\ l # n => share(l) >= 2 * Bottom
  BY ShareBounds
<1>. HIDE DEF share, n
<1>. DEFINE Low(l) == \A g \in 1 .. l : c \in Items(legs[g]) /\ g # n => p[l] >= 2 * Bottom
            T == {l \in 0 .. n : ~(/\ 0 <= p[l] /\ Low(l)
                                   /\ l < n => p[l] <= 2 * (l * Top)
                                   /\ l = n => p[l] <= 2 * ((l - 1) * Top) + Top)}
<1>4. T = {}
  <2>1. SUFFICES ASSUME T # {} PROVE FALSE
    OBVIOUS
  <2>2. PICK x \in T : \A y \in T : x <= y
    <3>1. T \in SUBSET Nat
      BY <1>1
    <3>. HIDE DEF T
    <3>. QED  BY <2>1, <3>1, Least
  <2>3. x # 0
    <3>1. 0 * Top = 0
      BY <1>1
    <3>2. 0 \notin T
      BY <1>1, <1>2, <3>1
    <3>. QED  BY <2>2, <3>2
  <2>4. x \in 1 .. n /\ x - 1 \in 0 .. n /\ x - 1 \notin T /\ x - 1 < n
    BY <1>1, <2>2, <2>3
  <2>5. 0 <= p[x - 1] /\ Low(x - 1) /\ p[x - 1] <= 2 * ((x - 1) * Top)
    BY <2>4
  <2>6. /\ p[x] = p[x - 1] + share(x) /\ p[x - 1] \in Int /\ p[x] \in Int
        /\ share(x) \in Nat /\ share(x) <= 2 * Top /\ (x = n => share(x) <= Top)
        /\ c \in Items(legs[x]) /\ x # n => share(x) >= 2 * Bottom
    BY <1>2, <1>3, <2>4
  <2>7. (x - 1) * Top = x * Top - Top /\ x * Top \in Int
    BY <1>1, <2>4
  <2>8. Low(x)
    <3>. SUFFICES ASSUME NEW g \in 1 .. x, c \in Items(legs[g]), g # n PROVE p[x] >= 2 * Bottom
      OBVIOUS
    <3>1. CASE g = x
      BY <1>1, <2>5, <2>6, <3>1
    <3>2. CASE g # x
      <4>1. g \in 1 .. (x - 1)
        BY <2>4, <3>2
      <4>2. p[x - 1] >= 2 * Bottom
        BY <2>5, <4>1
      <4>. QED  BY <1>1, <2>6, <4>2
    <3>. QED  BY <3>1, <3>2
  <2>. HIDE DEF Low
  <2>9. 0 <= p[x]
    BY <2>5, <2>6
  <2>10. x < n => p[x] <= 2 * (x * Top)
    BY <1>1, <2>5, <2>6, <2>7
  <2>11. x = n => p[x] <= 2 * ((x - 1) * Top) + Top
    BY <1>1, <2>5, <2>6, <2>7
  <2>. QED  BY <2>2, <2>8, <2>9, <2>10, <2>11
<1>5. 0 <= p[n] /\ Low(n) /\ p[n] <= 2 * ((n - 1) * Top) + Top /\ p[n] \in Int
  <2>1. n \in 0 .. n /\ n \notin T
    BY <1>1, <1>4
  <2>. QED  BY <1>2, <2>1
<1>6. 2 * ((n - 1) * Top) + Top = (2 * n - 1) * Top
  BY <1>1
<1>7. \A g \in 1 .. (n - 1) : c \in Items(legs[g]) => p[n] >= 2 * Bottom
  BY <1>1, <1>5
<1>. QED  BY <1>2, <1>5, <1>6, <1>7 DEF n

(* However often it was found, a chunk that is discounted by 3 in 20 has   *)
(* less than the last rank of one primary leg gives.                       *)
FewLegs == 3 * (2 * Providers + 3) * (RrfK + Pool) < 40 * (RrfK + 1)

LEMMA Margin ==
  ASSUME FewLegs
  PROVE  3 * ((2 * (Providers + 2) - 1) * Top) < 20 * (2 * Bottom)
<1>. DEFINE A == 3 * (2 * Providers + 3)
            B == RrfK + Pool
<1>1. A \in Nat /\ B \in Nat /\ A * B < 40 * (RrfK + 1)
  BY RetrievalAssumption DEF FewLegs, RrfK
<1>2. /\ Top \in Nat /\ Bottom \in Nat \ {0} /\ Top * 61 = Bottom * B
  BY TopAndBottom DEF RrfK
<1>3. 3 * ((2 * (Providers + 2) - 1) * Top) = A * Top
  BY <1>2, RetrievalAssumption
<1>. HIDE DEF A, B
<1>4. A * B <= 2439
  BY <1>1 DEF RrfK
<1>5. (A * B) * Bottom <= 2439 * Bottom
  <2>. DEFINE m == A * B
  <2>1. m \in Nat
    BY <1>1
  <2>2. (2439 - m) * Bottom \in Nat /\ (2439 - m) * Bottom = 2439 * Bottom - m * Bottom
    <3>. HIDE DEF m
    <3>. QED  BY <1>2, <1>4, <2>1 DEF m
  <2>3. m * Bottom \in Nat
    <3>. HIDE DEF m
    <3>. QED  BY <1>2, <2>1
  <2>. HIDE DEF m
  <2>4. m * Bottom <= 2439 * Bottom
    BY <1>2, <2>2, <2>3
  <2>. QED  BY <2>4 DEF m
<1>6. (A * B) * Bottom = A * (Bottom * B) /\ A * (Top * 61) = 61 * (A * Top)
  BY <1>1, <1>2
<1>7. 61 * (A * Top) <= 2439 * Bottom /\ A * Top \in Nat
  BY <1>1, <1>2, <1>5, <1>6
<1>8. A * Top < 20 * (2 * Bottom)
  <2>. DEFINE t == A * Top
  <2>. HIDE DEF t
  <2>1. t \in Nat /\ 61 * t <= 2439 * Bottom
    BY <1>7 DEF t
  <2>2. t < 20 * (2 * Bottom)
    BY <1>2, <2>1
  <2>. QED  BY <2>2 DEF t
<1>. QED  BY <1>3, <1>8

(* r is s with its scores multiplied, and its places in a new order: by    *)
(* score, and by place in s where scores are equal.                        *)
Reordered(r, s, factor, order) ==
  /\ Len(r) = Len(s)
  /\ order \in [1 .. Len(s) -> 1 .. Len(s)]
  /\ \A k \in 1 .. Len(s) : \E j \in 1 .. Len(s) : order[j] = k
  /\ \A k \in 1 .. Len(s) : /\ r[k].item = s[order[k]].item
                            /\ r[k].score = s[order[k]].score * factor[order[k]]
  /\ \A k, l \in 1 .. Len(s) :
       k < l => \/ r[k].score > r[l].score
                \/ r[k].score = r[l].score /\ order[k] < order[l]

LEMMA SortedInOrder ==
  ASSUME NEW S, IsFiniteSet(S), NEW score \in [S -> Int], NEW tie, StrictOrder(S, tie)
  PROVE  LET n == Cardinality(S)
             s == Sorted(S, score, tie)
         IN /\ \A x \in S : \E k \in 1 .. n : s[k] = x
            /\ \A k, l \in 1 .. n : k < l => \/ score[s[k]] > score[s[l]]
                                             \/ score[s[k]] = score[s[l]] /\ <<s[k], s[l]>> \in tie
<1>. DEFINE n == Cardinality(S)
            s == Sorted(S, score, tie)
            R == Better(S, score, tie)
<1>1. StrictOrder(S, R)
  BY BetterOrders
<1>2. \A k \in 1 .. n : /\ s[k] \in S
                        /\ \A x \in S : Cardinality(Ahead(S, R, x)) = k - 1 <=> x = s[k]
  BY SortedAt
<1>3. \A x, y \in S : <<x, y>> \in R <=> \/ score[x] > score[y]
                                         \/ score[x] = score[y] /\ <<x, y>> \in tie
  BY DEF Better
<1>. HIDE DEF R, s
<1>4. n \in Nat
  BY FS_CardinalityType
<1>5. ASSUME NEW x \in S, NEW y \in S, <<x, y>> \in R
      PROVE  /\ Cardinality(Ahead(S, R, x)) \in Nat /\ Cardinality(Ahead(S, R, y)) \in Nat
             /\ Cardinality(Ahead(S, R, x)) < Cardinality(Ahead(S, R, y))
             /\ Cardinality(Ahead(S, R, y)) <= n
  <2>1. /\ Ahead(S, R, x) \in SUBSET Ahead(S, R, y)
        /\ x \in Ahead(S, R, y) /\ x \notin Ahead(S, R, x) /\ Ahead(S, R, y) \in SUBSET S
    BY <1>1, <1>5 DEF StrictOrder, Ahead
  <2>2. IsFiniteSet(Ahead(S, R, y)) /\ Cardinality(Ahead(S, R, y)) <= n
    BY <2>1, FS_Subset
  <2>3. /\ IsFiniteSet(Ahead(S, R, x))
        /\ Cardinality(Ahead(S, R, x)) <= Cardinality(Ahead(S, R, y))
        /\ Cardinality(Ahead(S, R, x)) # Cardinality(Ahead(S, R, y))
    BY <2>1, <2>2, FS_Subset
  <2>. QED  BY <2>2, <2>3, FS_CardinalityType
<1>6. ASSUME NEW x \in S PROVE \E k \in 1 .. n : s[k] = x
  <2>. DEFINE A == Ahead(S, R, x)
  <2>1. A \in SUBSET S /\ A # S
    BY <1>1 DEF Ahead, StrictOrder
  <2>. HIDE DEF A
  <2>2. Cardinality(A) \in Nat /\ Cardinality(A) < n
    BY <1>4, <2>1, FS_Subset, FS_CardinalityType
  <2>3. Cardinality(A) + 1 \in 1 .. n /\ Cardinality(A) = (Cardinality(A) + 1) - 1
    BY <1>4, <2>2
  <2>4. x = s[Cardinality(A) + 1]
    BY <1>2, <2>3 DEF A
  <2>. QED  BY <2>3, <2>4
<1>7. ASSUME NEW k \in 1 .. n, NEW l \in 1 .. n, k < l PROVE <<s[k], s[l]>> \in R
  <2>1. /\ s[k] \in S /\ s[l] \in S
        /\ Cardinality(Ahead(S, R, s[k])) = k - 1 /\ Cardinality(Ahead(S, R, s[l])) = l - 1
    BY <1>2
  <2>2. s[k] # s[l]
    BY <1>4, <1>7, <2>1
  <2>3. <<s[l], s[k]>> \notin R
    <3>1. <<s[l], s[k]>> \in R
            => Cardinality(Ahead(S, R, s[l])) < Cardinality(Ahead(S, R, s[k]))
      BY <1>5, <2>1
    <3>. QED  BY <1>4, <1>7, <2>1, <3>1
  <2>. QED  BY <1>1, <2>1, <2>2, <2>3 DEF StrictOrder
<1>8. ASSUME NEW k \in 1 .. n, NEW l \in 1 .. n, k < l
      PROVE  \/ score[s[k]] > score[s[l]]
             \/ score[s[k]] = score[s[l]] /\ <<s[k], s[l]>> \in tie
  <2>1. s[k] \in S /\ s[l] \in S /\ <<s[k], s[l]>> \in R
    BY <1>2, <1>7, <1>8
  <2>. QED  BY <1>3, <2>1
<1>. QED  BY <1>6, <1>8 DEF s

LEMMA RescoredReorders ==
  ASSUME NEW T, NEW s \in Ranking(T), NEW factor \in [1 .. Len(s) -> Int]
  PROVE  \E order : Reordered(Rescored(s, factor), s, factor, order)
<1>. DEFINE n      == Len(s)
            places == 1 .. n
            m      == [k \in places |-> [s[k] EXCEPT !.score = @ * factor[k]]]
            score  == [k \in places |-> m[k].score]
            tie    == {pair \in places \X places : pair[1] < pair[2]}
            order  == Sorted(places, score, tie)
            sorted == [k \in places |-> m[order[k]]]
<1>1. n \in Nat
  BY RankingAt
<1>2. ASSUME NEW k \in places
      PROVE  m[k].item = s[k].item /\ m[k].score = s[k].score * factor[k] /\ m[k].score \in Int
  <2>. DEFINE v == s[k].score * factor[k]
  <2>1. s[k] \in [item : T, score : Int] /\ s[k].score \in Int /\ factor[k] \in Int
    BY RankingAt
  <2>2. v \in Int
    BY <2>1
  <2>3. m[k] = [s[k] EXCEPT !.score = v]
    OBVIOUS
  <2>. HIDE DEF v, m
  <2>4. m[k].item = s[k].item /\ m[k].score = v
    BY <2>1, <2>3
  <2>. QED  BY <2>2, <2>4 DEF v
<1>3. Len(m) = n
  <2>1. m \in [1 .. n -> {m[k] : k \in places}]
    OBVIOUS
  <2>. HIDE DEF m
  <2>. QED  BY <1>1, <2>1, SeqOfFunction
<1>4. Rescored(s, factor) = Resorted(m)
  BY DEF Rescored
<1>. HIDE DEF m, n
<1>5. Resorted(m) = sorted
  BY <1>3 DEF Resorted
<1>6. score \in [places -> Int] /\ \A k \in places : score[k] = s[k].score * factor[k]
  BY <1>2
<1>7. \A x, y \in places : <<x, y>> \in tie <=> x < y
  OBVIOUS
<1>8. StrictOrder(places, tie)
  BY <1>1 DEF StrictOrder
<1>9. IsFiniteSet(places) /\ Cardinality(places) = n
  BY <1>1, FS_Interval
<1>. HIDE DEF score, tie
<1>10. /\ order \in [1 .. n -> places]
       /\ \A k \in places : \E j \in 1 .. n : order[j] = k
       /\ \A k, l \in 1 .. n :
            k < l => \/ score[order[k]] > score[order[l]]
                     \/ score[order[k]] = score[order[l]] /\ <<order[k], order[l]>> \in tie
  <2>. HIDE DEF places
  <2>1. Cardinality(places) = n
    BY <1>9
  <2>2. order \in [1 .. Cardinality(places) -> places]
    BY <1>6, <1>8, <1>9, SortedTyped
  <2>3. /\ \A k \in places : \E j \in 1 .. Cardinality(places) : order[j] = k
        /\ \A k, l \in 1 .. Cardinality(places) :
             k < l => \/ score[order[k]] > score[order[l]]
                      \/ score[order[k]] = score[order[l]] /\ <<order[k], order[l]>> \in tie
    BY <1>6, <1>8, <1>9, SortedInOrder
  <2>. HIDE DEF order
  <2>. QED  BY <2>1, <2>2, <2>3
<1>. HIDE DEF order
<1>11. Len(sorted) = n
  <2>1. sorted \in [1 .. n -> {sorted[k] : k \in places}]
    OBVIOUS
  <2>. HIDE DEF sorted
  <2>. QED  BY <1>1, <2>1, SeqOfFunction
<1>12. \A k \in places : /\ sorted[k].item = s[order[k]].item
                         /\ sorted[k].score = s[order[k]].score * factor[order[k]]
                         /\ sorted[k].score = score[order[k]]
  BY <1>2, <1>6, <1>10
<1>. HIDE DEF sorted
<1>13. ASSUME NEW k \in places, NEW l \in places, k < l
       PROVE  \/ sorted[k].score > sorted[l].score
              \/ sorted[k].score = sorted[l].score /\ order[k] < order[l]
  <2>1. order[k] \in places /\ order[l] \in places
    BY <1>10
  <2>2. \/ score[order[k]] > score[order[l]]
        \/ score[order[k]] = score[order[l]] /\ <<order[k], order[l]>> \in tie
    BY <1>10, <1>13
  <2>. QED  BY <1>7, <1>12, <2>1, <2>2
<1>14. Reordered(sorted, s, factor, order)
  BY <1>10, <1>11, <1>12, <1>13 DEF Reordered, n
<1>. QED  BY <1>4, <1>5, <1>14

(* The better come before the worse, in a ranking by score.                *)
Apart(s, better, worse) ==
  /\ \A k \in 1 .. Len(s) : s[k].score >= 0
  /\ \A k, l \in 1 .. Len(s) : k < l => s[k].score >= s[l].score
  /\ \A k, l \in 1 .. Len(s) : s[k].item \in better /\ s[l].item \in worse => k < l

LEMMA Products ==
  ASSUME NEW a \in Nat, NEW b \in Nat, NEW f \in Nat, NEW g \in Nat, b <= a, g <= f
  PROVE  a * f \in Nat /\ b * g \in Nat /\ b * g <= a * f
<1>1. \A x, y, z \in Nat : x <= y => /\ x * z \in Nat /\ y * z \in Nat /\ x * z <= y * z
                                   /\ x * z = z * x /\ y * z = z * y
  <2>. TAKE x, y, z \in Nat
  <2>. HAVE x <= y
  <2>1. y - x \in Nat /\ (y - x) * z \in Nat /\ x * z \in Nat /\ y * z \in Nat
    OBVIOUS
  <2>2. (y - x) * z = y * z - x * z /\ x * z = z * x /\ y * z = z * y
    OBVIOUS
  <2>. QED  BY <2>1, <2>2
<1>2. b * g <= a * g /\ g * a <= f * a /\ a * g = g * a /\ a * f = f * a
  BY <1>1
<1>3. a * f \in Nat /\ b * g \in Nat /\ a * g \in Nat
  OBVIOUS
<1>. QED  BY <1>2, <1>3

LEMMA FusedScores ==
  ASSUME NEW legs, Fusible(legs), NEW k \in 1 .. Len(FuseRRF(legs))
  PROVE  FuseRRF(legs)[k].score = Rrf(legs, FuseRRF(legs)[k].item)
<1>. DEFINE items == Sorted(Found(legs), [c \in Found(legs) |-> Rrf(legs, c)],
                            {pair \in Found(legs) \X Found(legs) : Sooner(legs, pair[1], pair[2])})
            fused == [j \in 1 .. Len(items) |-> [item |-> items[j], score |-> Rrf(legs, items[j])]]
<1>1. FuseRRF(legs) = fused
  BY DEF FuseRRF, Found
<1>2. DOMAIN FuseRRF(legs) = 1 .. Len(FuseRRF(legs))
  BY FuseTyped, LenProperties DEF Ranking
<1>. HIDE DEF items
<1>3. k \in 1 .. Len(items)
  BY <1>1, <1>2
<1>. QED  BY <1>1, <1>3

(* The discount sets them apart.                                           *)
LEMMA PenaltyParts ==
  ASSUME FewLegs, NEW legs, Fusible(legs), Len(legs) = Providers + 2, NEW stale,
         NEW better \in SUBSET Found(legs), NEW worse \in SUBSET Found(legs),
         \A c \in better : /\ c[1] \notin stale
                          /\ \E g \in 1 .. (Len(legs) - 1) : c \in Items(legs[g]),
         \A c \in worse : c[1] \in stale
  PROVE  Apart(Penalized(FuseRRF(legs), stale), better, worse)
<1>. DEFINE s      == FuseRRF(legs)
            n      == Len(s)
            factor == [k \in 1 .. n |-> IF s[k].item[1] \in stale THEN 3 ELSE 20]
            r      == Rescored(s, factor)
            most   == (2 * Len(legs) - 1) * Top
<1>1. s \in Ranking(Found(legs)) /\ n \in Nat /\ factor \in [1 .. n -> Int]
  BY FuseTyped, RankingAt
<1>2. \A k \in 1 .. n : s[k].score = Rrf(legs, s[k].item)
  BY FusedScores
<1>3. ASSUME NEW c
      PROVE  /\ Rrf(legs, c) \in Nat /\ Rrf(legs, c) <= most
             /\ c \in better => Rrf(legs, c) >= 2 * Bottom
  <2>1. Len(legs) >= 1
    BY RetrievalAssumption
  <2>. QED  BY <2>1, RrfBounds
<1>4. 3 * most < 20 * (2 * Bottom) /\ most \in Int /\ Bottom \in Nat
  <2>1. Len(legs) \in Int /\ Top \in Int /\ Bottom \in Nat
    BY FusibleLegs, TopAndBottom
  <2>2. 2 * Len(legs) - 1 \in Int
    BY <2>1
  <2>3. most \in Int
    BY <2>1, <2>2
  <2>. QED  BY <2>1, <2>3, Margin
<1>5. Penalized(s, stale) = r
  BY DEF Penalized
<1>6. PICK order : Reordered(r, s, factor, order)
  BY <1>1, RescoredReorders
<1>7. \A k \in 1 .. n : factor[k] = IF s[k].item[1] \in stale THEN 3 ELSE 20
  OBVIOUS
<1>. HIDE DEF r, factor, s, n, most
<1>8. Len(r) = n /\ \A k \in 1 .. n : order[k] \in 1 .. n
  BY <1>6 DEF Reordered, n
<1>9. ASSUME NEW k \in 1 .. n
      PROVE  /\ r[k].score \in Nat
             /\ r[k].item \in better => r[k].score >= 20 * (2 * Bottom)
             /\ r[k].item \in worse => r[k].score <= 3 * most
  <2>. DEFINE x == order[k]
              v == Rrf(legs, r[k].item)
  <2>1. x \in 1 .. n /\ r[k].item = s[x].item /\ r[k].score = s[x].score * factor[x]
    BY <1>6, <1>8 DEF Reordered, n
  <2>2. s[x].score = v
    BY <1>2, <2>1
  <2>3. factor[x] = IF r[k].item[1] \in stale THEN 3 ELSE 20
    BY <1>7, <2>1
  <2>4. /\ v \in Nat /\ v <= most
        /\ r[k].item \in better => v >= 2 * Bottom
    BY <1>3
  <2>. HIDE DEF x, v
  <2>5. r[k].score = IF r[k].item[1] \in stale THEN v * 3 ELSE v * 20
    BY <2>1, <2>2, <2>3
  <2>6. /\ r[k].item \in better => r[k].item[1] \notin stale
        /\ r[k].item \in worse => r[k].item[1] \in stale
    OBVIOUS
  <2>7. v * 3 \in Nat /\ v * 20 \in Nat /\ v * 3 <= 3 * most
    BY <1>4, <2>4
  <2>8. r[k].item \in better => v * 20 >= 20 * (2 * Bottom)
    BY <1>4, <2>4
  <2>. QED  BY <2>5, <2>6, <2>7, <2>8
<1>10. \A k, l \in 1 .. n : k < l => r[k].score >= r[l].score
  <2>1. \A k, l \in 1 .. n : k < l => r[k].score > r[l].score \/ r[k].score = r[l].score
    BY <1>6 DEF Reordered, n
  <2>. QED  BY <1>9, <2>1
<1>11. ASSUME NEW k \in 1 .. n, NEW l \in 1 .. n, r[k].item \in better, r[l].item \in worse
       PROVE  k < l
  <2>1. r[k].score > r[l].score /\ r[k].score \in Nat /\ r[l].score \in Nat
    BY <1>4, <1>9, <1>11
  <2>2. k # l
    BY <2>1
  <2>3. ~(l < k)
    BY <1>10, <2>1
  <2>. QED  BY <1>1, <2>2, <2>3
<1>12. Apart(r, better, worse)
  BY <1>8, <1>9, <1>10, <1>11 DEF Apart
<1>. QED  BY <1>5, <1>12 DEF s

(* A bias that is the same for all keeps them apart.                       *)
LEMMA EvenBiasKeeps ==
  ASSUME NEW T \in SUBSET ChunkId, NEW s \in Ranking(T), NEW better, NEW worse,
         better \cap worse = {}, Apart(s, better, worse),
         NEW bias \in [{Category[n] : n \in Notes} -> Nat],
         \A x, y \in DOMAIN bias : bias[x] = bias[y]
  PROVE  Apart(Biased(s, bias), better, worse)
<1>. DEFINE n      == Len(s)
            factor == [k \in 1 .. n |-> bias[Category[s[k].item[1]]]]
            r      == Rescored(s, factor)
<1>1. n \in Nat /\ \A k \in 1 .. n : s[k].item[1] \in Notes /\ s[k].score \in Int
  BY RankingAt DEF ChunkId
<1>2. factor \in [1 .. n -> Nat] /\ \A k, l \in 1 .. n : factor[k] = factor[l]
  BY <1>1
<1>3. Biased(s, bias) = r
  BY DEF Biased
<1>. HIDE DEF factor
<1>4. PICK order : Reordered(r, s, factor, order)
  <2>1. factor \in [1 .. n -> Int]
    BY <1>2
  <2>. QED  BY <2>1, RescoredReorders
<1>. HIDE DEF r, n
<1>5. /\ Len(r) = n
      /\ \A k \in 1 .. n : /\ order[k] \in 1 .. n /\ r[k].item = s[order[k]].item
                           /\ r[k].score = s[order[k]].score * factor[order[k]]
      /\ \A k, l \in 1 .. n :
           k < l => \/ r[k].score > r[l].score
                    \/ r[k].score = r[l].score /\ order[k] < order[l]
  BY <1>4 DEF Reordered, n
<1>6. \A k \in 1 .. n : s[k].score \in Nat
  BY <1>1 DEF Apart, n
<1>7. ASSUME NEW k \in 1 .. n PROVE r[k].score \in Nat
  <2>1. order[k] \in 1 .. n /\ s[order[k]].score \in Nat /\ factor[order[k]] \in Nat
    BY <1>2, <1>5, <1>6
  <2>. QED  BY <1>5, <2>1, Products
<1>8. \A k, l \in 1 .. n : k < l => r[k].score >= r[l].score
  BY <1>5, <1>7
<1>9. ASSUME NEW k \in 1 .. n, NEW l \in 1 .. n, r[k].item \in better, r[l].item \in worse
      PROVE  k < l
  <2>. DEFINE x == order[k]
              y == order[l]
  <2>1. /\ x \in 1 .. n /\ y \in 1 .. n /\ s[x].item \in better /\ s[y].item \in worse
        /\ r[k].score = s[x].score * factor[x] /\ r[l].score = s[y].score * factor[y]
    BY <1>5, <1>9
  <2>2. l < k => r[l].score > r[k].score \/ (r[l].score = r[k].score /\ y < x)
    BY <1>5
  <2>. HIDE DEF x, y
  <2>3. x < y /\ s[y].score <= s[x].score
    BY <2>1 DEF Apart, n
  <2>4. r[l].score <= r[k].score
    <3>1. /\ s[x].score \in Nat /\ s[y].score \in Nat /\ factor[x] \in Nat
          /\ factor[y] = factor[x]
      BY <1>2, <1>6, <2>1
    <3>2. factor[y] \in Nat /\ factor[y] <= factor[x]
      BY <3>1
    <3>. QED  BY <2>1, <2>3, <3>1, <3>2, Products
  <2>5. k # l
    BY <1>9
  <2>. QED  BY <1>1, <1>7, <2>1, <2>2, <2>3, <2>4, <2>5
<1>10. Apart(r, better, worse)
  BY <1>5, <1>7, <1>8, <1>9 DEF Apart
<1>. QED  BY <1>3, <1>10

LEMMA RepeatsTyped ==
  ASSUME NEW T, NEW s \in Ranking(T), NEW k \in 1 .. Len(s)
  PROVE  /\ Repeats(s, k) \in Nat /\ Repeats(s, k) <= Len(s)
         /\ (\A l \in 1 .. (k - 1) : s[l].item[1] # s[k].item[1]) => Repeats(s, k) = 0
<1>. DEFINE m      == k - 1
            before == {l \in 1 .. m : s[l].item[1] = s[k].item[1]}
<1>1. m \in Nat /\ m <= Len(s) /\ Len(s) \in Nat
  BY RankingAt
<1>2. Repeats(s, k) = Cardinality(before)
  BY DEF Repeats
<1>3. (\A l \in 1 .. m : s[l].item[1] # s[k].item[1]) => before = {}
  OBVIOUS
<1>4. before \in SUBSET (1 .. m)
  OBVIOUS
<1>. HIDE DEF m, before
<1>5. IsFiniteSet(1 .. m) /\ Cardinality(1 .. m) = m
  BY <1>1, FS_Interval
<1>6. Cardinality(before) \in Nat /\ Cardinality(before) <= m
  BY <1>4, <1>5, FS_Subset, FS_CardinalityType
<1>7. before = {} => Cardinality(before) = 0
  BY FS_EmptySet
<1>. QED  BY <1>1, <1>2, <1>3, <1>6, <1>7 DEF m

(* The discount for repeats keeps them apart but for what repeats a note.  *)
LEMMA DiversityKeeps ==
  ASSUME NEW T \in SUBSET ChunkId, NEW s \in Ranking(T), NEW better, NEW worse,
         better \cap worse = {}, Apart(s, better, worse)
  PROVE  \A k, l \in 1 .. Len(Diversified(s)) :
           k < l /\ Diversified(s)[k].item \in worse /\ Diversified(s)[l].item \in better
             => \E m \in 1 .. (l - 1) : Diversified(s)[m].item[1] = Diversified(s)[l].item[1]
<1>. SUFFICES ASSUME NEW k \in 1 .. Len(Diversified(s)), NEW l \in 1 .. Len(Diversified(s)), k < l,
                     Diversified(s)[k].item \in worse, Diversified(s)[l].item \in better
              PROVE  \E m \in 1 .. (l - 1) : Diversified(s)[m].item[1] = Diversified(s)[l].item[1]
  OBVIOUS
<1>. DEFINE n      == Len(s)
            factor == [j \in 1 .. n |-> Doubled(n - Repeats(s, j))]
            d      == Rescored(s, factor)
<1>1. n \in Nat /\ \A j \in 1 .. n : s[j].score \in Nat
  BY RankingAt DEF Apart
<1>2. \A j \in 1 .. n : /\ Repeats(s, j) \in Nat /\ Repeats(s, j) <= n
                        /\ (\A i \in 1 .. (j - 1) : s[i].item[1] # s[j].item[1]) => Repeats(s, j) = 0
  BY RepeatsTyped
<1>3. \A j \in 1 .. n : /\ factor[j] \in Nat /\ factor[j] <= Doubled(n)
                        /\ Repeats(s, j) = 0 => factor[j] = Doubled(n)
  <2>. TAKE j \in 1 .. n
  <2>. DEFINE e == n - Repeats(s, j)
  <2>1. e \in 0 .. n /\ (Repeats(s, j) = 0 => e = n)
    BY <1>1, <1>2
  <2>2. factor[j] = Doubled(e)
    OBVIOUS
  <2>. HIDE DEF e, factor
  <2>3. Doubled(e) \in Int /\ Doubled(n) \in Int /\ 0 < Doubled(e) /\ Doubled(e) <= Doubled(n)
    BY <1>1, <2>1, DoubledGrows
  <2>. QED  BY <2>1, <2>2, <2>3
<1>4. Diversified(s) = d
  BY DEF Diversified
<1>5. factor \in [1 .. n -> Int]
  <2>1. factor = [j \in 1 .. n |-> factor[j]]
    OBVIOUS
  <2>. HIDE DEF factor
  <2>. QED  BY <1>3, <2>1
<1>. HIDE DEF factor
<1>6. PICK order : Reordered(d, s, factor, order)
  BY <1>5, RescoredReorders
<1>. HIDE DEF d, n
<1>7. /\ Len(d) = n
      /\ \A i \in 1 .. n : \E j \in 1 .. n : order[j] = i
      /\ \A j \in 1 .. n : /\ order[j] \in 1 .. n /\ d[j].item = s[order[j]].item
                           /\ d[j].score = s[order[j]].score * factor[order[j]]
      /\ \A i, j \in 1 .. n :
           i < j => \/ d[i].score > d[j].score
                    \/ d[i].score = d[j].score /\ order[i] < order[j]
  BY <1>6 DEF Reordered, n
<1>8. \A i, j \in 1 .. n : i <= j => s[j].score <= s[i].score
  <2>1. \A i, j \in 1 .. n : i < j => s[i].score >= s[j].score
    BY DEF Apart, n
  <2>. QED  BY <1>1, <2>1
(* One that stood before another, with no fewer points and no smaller a    *)
(* factor, is not overtaken.                                               *)
<1>9. ASSUME NEW i \in 1 .. n, NEW j \in 1 .. n, order[i] < order[j],
             factor[order[j]] <= factor[order[i]]
      PROVE  i < j
  <2>. DEFINE x == order[i]
              y == order[j]
  <2>1. /\ x \in 1 .. n /\ y \in 1 .. n /\ x < y /\ factor[y] <= factor[x]
        /\ factor[x] \in Nat /\ factor[y] \in Nat /\ s[x].score \in Nat /\ s[y].score \in Nat
    BY <1>1, <1>3, <1>7, <1>9
  <2>2. d[i].score = s[x].score * factor[x] /\ d[j].score = s[y].score * factor[y]
    BY <1>7
  <2>3. j < i => d[j].score > d[i].score \/ (d[j].score = d[i].score /\ y < x)
    BY <1>7
  <2>4. i # j
    BY <1>9, <2>1
  <2>. HIDE DEF x, y
  <2>5. s[y].score <= s[x].score
    BY <1>1, <1>8, <2>1
  <2>6. d[i].score \in Nat /\ d[j].score \in Nat /\ d[j].score <= d[i].score
    <3>1. /\ s[x].score * factor[x] \in Nat /\ s[y].score * factor[y] \in Nat
          /\ s[y].score * factor[y] <= s[x].score * factor[x]
      BY <2>1, <2>5, Products
    <3>. QED  BY <2>2, <3>1
  <2>7. i \in 1 .. n /\ j \in 1 .. n
    OBVIOUS
  <2>. QED  BY <1>1, <2>1, <2>3, <2>4, <2>6, <2>7
<1>10. k \in 1 .. n /\ l \in 1 .. n /\ d[k].item \in worse /\ d[l].item \in better
  BY <1>4, <1>7
<1>. DEFINE x == order[l]
            y == order[k]
<1>11. /\ x \in 1 .. n /\ y \in 1 .. n /\ s[x].item \in better /\ s[y].item \in worse
       /\ d[l].item = s[x].item
  BY <1>7, <1>10
<1>12. x < y
  BY <1>11 DEF Apart, n
<1>13. Repeats(s, x) # 0
  <2>1. SUFFICES ASSUME Repeats(s, x) = 0 PROVE FALSE
    OBVIOUS
  <2>2. factor[y] <= factor[x]
    BY <1>3, <1>11, <2>1
  <2>3. l < k
    BY <1>9, <1>10, <1>12, <2>2
  <2>. QED  BY <1>1, <1>10, <2>3
<1>. HIDE DEF y
<1>. DEFINE Same == {i \in 1 .. (x - 1) : s[i].item[1] = s[x].item[1]}
<1>14. PICK w \in Same : \A i \in Same : w <= i
  <2>1. Same \in SUBSET Nat /\ Same # {}
    <3>. HIDE DEF x
    <3>1. ~ \A i \in 1 .. (x - 1) : s[i].item[1] # s[x].item[1]
      BY <1>2, <1>11, <1>13
    <3>2. Same # {}
      BY <3>1
    <3>3. \A i \in Same : i \in Nat
      BY <1>1, <1>11
    <3>. QED  BY <3>2, <3>3
  <2>. HIDE DEF Same
  <2>. QED  BY <2>1, Least
<1>15. w \in 1 .. n /\ w < x /\ s[w].item[1] = s[x].item[1]
  BY <1>1, <1>11, <1>14
<1>16. Repeats(s, w) = 0
  <2>1. ASSUME NEW i \in 1 .. (w - 1), s[i].item[1] = s[w].item[1] PROVE FALSE
    <3>1. i \in Same /\ i < w
      BY <1>1, <1>11, <1>15, <2>1
    <3>. QED  BY <1>14, <1>15, <3>1
  <2>. QED  BY <1>2, <1>15, <2>1
<1>17. PICK m \in 1 .. n : order[m] = w
  BY <1>7, <1>15
<1>18. m < l
  <2>1. factor[x] <= factor[order[m]]
    BY <1>3, <1>11, <1>15, <1>16, <1>17
  <2>2. order[m] < order[l]
    BY <1>15, <1>17
  <2>. QED  BY <1>9, <1>10, <1>17, <2>1, <2>2
<1>19. m \in 1 .. (l - 1) /\ d[m].item[1] = d[l].item[1]
  <2>1. d[m].item = s[w].item
    BY <1>7, <1>17
  <2>2. d[m].item[1] = d[l].item[1]
    BY <1>11, <1>15, <2>1
  <2>3. m \in 1 .. n /\ l \in 1 .. n
    BY <1>10, <1>17
  <2>4. m \in 1 .. (l - 1)
    BY <1>1, <1>18, <2>3
  <2>. QED  BY <2>2, <2>4
<1>. QED  BY <1>4, <1>19

(* No hit of a stale note comes before the best of a note that is not.     *)
LEMMA HitsApart ==
  ASSUME FewLegs, NEW legs, Fusible(legs), Len(legs) = Providers + 2, NEW stale,
         NEW ask \in Ask, Unbiased(ask),
         NEW k \in 1 .. Len(Hits(legs, stale, ask)), NEW l \in 1 .. Len(Hits(legs, stale, ask)),
         k < l,
         Hits(legs, stale, ask)[l][1] \notin stale,
         \E g \in 1 .. (Len(legs) - 1) : Hits(legs, stale, ask)[l] \in Items(legs[g]),
         \A m \in 1 .. (l - 1) : Hits(legs, stale, ask)[m][1] # Hits(legs, stale, ask)[l][1]
  PROVE  Hits(legs, stale, ask)[k][1] \notin stale
<1>. DEFINE F      == Found(legs)
            p      == Penalized(FuseRRF(legs), stale)
            b      == Biased(p, ask.bias)
            d      == Diversified(b)
            items  == [j \in 1 .. Len(d) |-> d[j].item]
            hits   == First(items, ask.topK)
            better == {c \in F : /\ c[1] \notin stale
                                 /\ \E g \in 1 .. (Len(legs) - 1) : c \in Items(legs[g])}
            worse  == {c \in F : c[1] \in stale}
<1>1. SUFFICES ASSUME Hits(legs, stale, ask)[k][1] \in stale PROVE FALSE
  OBVIOUS
<1>2. Hits(legs, stale, ask) = hits
  BY DEF Hits
<1>3. /\ k \in 1 .. Len(hits) /\ l \in 1 .. Len(hits)
      /\ hits[k][1] \in stale /\ hits[l][1] \notin stale
      /\ \E g \in 1 .. (Len(legs) - 1) : hits[l] \in Items(legs[g])
      /\ \A m \in 1 .. (l - 1) : hits[m][1] # hits[l][1]
  BY <1>1, <1>2
<1>4. /\ F \in SUBSET ChunkId /\ ask.topK \in Nat
      /\ ask.bias \in [{Category[n] : n \in Notes} -> Nat]
      /\ \A x, y \in DOMAIN ask.bias : ask.bias[x] = ask.bias[y]
  BY FusibleLegs DEF Ask, Unbiased
<1>5. better \cap worse = {} /\ better \in SUBSET F /\ worse \in SUBSET F
  OBVIOUS
<1>6. p \in Ranking(F) /\ Apart(p, better, worse)
  <2>1. p \in Ranking(F)
    BY <1>4, FuseTyped, DiscountsTyped
  <2>2. \A c \in better : /\ c[1] \notin stale
                          /\ \E g \in 1 .. (Len(legs) - 1) : c \in Items(legs[g])
    OBVIOUS
  <2>3. \A c \in worse : c[1] \in stale
    OBVIOUS
  <2>. HIDE DEF better, worse
  <2>. QED  BY <1>5, <2>1, <2>2, <2>3, PenaltyParts
<1>7. \A c \in F : /\ c[1] \in stale => c \in worse
                   /\ c[1] \notin stale /\ (\E g \in 1 .. (Len(legs) - 1) : c \in Items(legs[g]))
                        => c \in better
  OBVIOUS
<1>. HIDE DEF F, p, better, worse
<1>8. b \in Ranking(F) /\ Apart(b, better, worse)
  BY <1>4, <1>5, <1>6, DiscountsTyped, EvenBiasKeeps
<1>. HIDE DEF b
<1>9. d \in Ranking(F)
  BY <1>4, <1>8, DiscountsTyped
<1>10. \A i, j \in 1 .. Len(d) :
         i < j /\ d[i].item \in worse /\ d[j].item \in better
           => \E m \in 1 .. (j - 1) : d[m].item[1] = d[j].item[1]
  <2>1. F \in SUBSET ChunkId /\ b \in Ranking(F) /\ better \cap worse = {} /\ Apart(b, better, worse)
    BY <1>4, <1>5, <1>8
  <2>. QED  BY <2>1, DiversityKeeps
<1>. HIDE DEF d
<1>11. Len(d) \in Nat /\ items \in [1 .. Len(d) -> F]
  BY <1>9, RankingAt
<1>12. \A j \in 1 .. Len(d) : items[j] = d[j].item
  OBVIOUS
<1>. HIDE DEF items
<1>13. items \in Seq(F) /\ Len(items) = Len(d)
  BY <1>11, SeqOfFunction
<1>14. \A j \in 1 .. Len(hits) : j \in 1 .. Len(d) /\ hits[j] = items[j]
  BY <1>4, <1>13, FirstAt
<1>15. Len(hits) \in Nat
  BY <1>4, <1>13, FirstTyped, LenProperties
<1>. HIDE DEF hits
<1>16. /\ k \in 1 .. Len(d) /\ l \in 1 .. Len(d)
       /\ hits[k] = d[k].item /\ hits[l] = d[l].item /\ hits[k] \in F /\ hits[l] \in F
  BY <1>3, <1>11, <1>12, <1>14
<1>17. d[k].item \in worse /\ d[l].item \in better
  <2>1. hits[k] \in worse
    <3>1. hits[k] \in F /\ hits[k][1] \in stale
      BY <1>3, <1>16
    <3>. QED  BY <1>7, <3>1
  <2>2. hits[l] \in better
    BY <1>3, <1>7, <1>16
  <2>. QED  BY <1>16, <2>1, <2>2
<1>18. PICK m \in 1 .. (l - 1) : d[m].item[1] = d[l].item[1]
  BY <1>10, <1>16, <1>17
<1>19. m \in 1 .. Len(hits)
  BY <1>3, <1>15
<1>20. hits[m][1] = hits[l][1]
  BY <1>12, <1>14, <1>16, <1>18, <1>19
<1>. QED  BY <1>3, <1>20

(* An answered query keeps what its hits were made of.                     *)
Answered ==
  query.pc \in {"hint", "answered"} =>
    /\ query.ask \in Ask /\ \A p \in 1 .. Providers : query.vector[p] # None
    /\ query.hits = Hits(Legs, query.stale, query.ask)

LEMMA AnsweredStep == IInv /\ Answered /\ [Next]_vars => Answered'
<1>. SUFFICES ASSUME IInv, Answered, [Next]_vars PROVE Answered'
  OBVIOUS
<1>1. query \in Query
  BY DEF IInv, Asked
<1>2. CASE Answer
  <2>. DEFINE stale == ArchivedLinkers(row, NotesOf(Legs))
              hits  == Hits(Legs, stale, query.ask)
  <2>1. /\ query.pc = "rank"
        /\ query' = [query EXCEPT !.pc = "hint", !.stale = stale, !.hits = hits]
    BY <1>2 DEF Answer
  <2>2. query.ask \in Ask /\ \A p \in 1 .. Providers : query.vector[p] # None
    BY <2>1, AskTyped DEF IInv, Asked, Running
  <2>3. hits = Hits(Legs, stale, query.ask)
    OBVIOUS
  <2>. HIDE DEF stale, hits
  <2>4. /\ query'.vector = query.vector /\ query'.keyword = query.keyword
        /\ query'.graph = query.graph /\ query'.ask = query.ask
        /\ query'.stale = stale /\ query'.hits = hits
    BY <1>1, <2>1 DEF Query
  <2>5. Legs' = Legs
    BY <2>4 DEF Legs, Primary
  <2>. QED  BY <2>2, <2>3, <2>4, <2>5 DEF Answered
<1>3. CASE Hint \/ Fail
  <2>1. /\ query'.vector = query.vector /\ query'.keyword = query.keyword
        /\ query'.graph = query.graph /\ query'.ask = query.ask
        /\ query'.stale = query.stale /\ query'.hits = query.hits
        /\ query'.pc \in {"hint", "answered"} => query.pc = "hint"
    BY <1>1, <1>3 DEF Hint, Fail, Reads, Undisturbed, Query
  <2>2. Legs' = Legs
    BY <2>1 DEF Legs, Primary
  <2>. QED  BY <2>1, <2>2 DEF Answered
<1>4. CASE Begin \/ RankFTS \/ RankFTSNoteLevel \/ RankFTSOr \/ RankGraph
           \/ \E p \in 1 .. Providers : RankVector(p)
  <2>1. query'.pc \in {"legs", "rank"}
    <3>1. CASE Begin
      BY <3>1 DEF Begin, NoQuery
    <3>2. CASE RankFTS \/ RankFTSNoteLevel \/ RankFTSOr
      BY <1>1, <3>2 DEF RankFTS, RankFTSNoteLevel, RankFTSOr, Query
    <3>3. CASE RankGraph
      BY <1>1, <3>3 DEF RankGraph, Query
    <3>4. CASE \E p \in 1 .. Providers : RankVector(p)
      <4>1. PICK p \in 1 .. Providers : RankVector(p)
        BY <3>4
      <4>2. PICK leg : query.pc = "legs" /\ query' = [query EXCEPT !.vector[p] = leg]
        BY <4>1 DEF RankVector
      <4>. QED  BY <1>1, <4>2 DEF Query
    <3>. QED  BY <1>4, <3>1, <3>2, <3>3, <3>4
  <2>. QED  BY <2>1 DEF Answered
<1>5. CASE Tick \/ UNCHANGED vars \/ \E n \in Notes : Edit(n) \/ Write(n) \/ Shelve(n)
  <2>1. query' = query
    BY <1>5 DEF Tick, vars, Edit, Write, Shelve, Indexes
  <2>. QED  BY <2>1 DEF Answered, Legs, Primary
<1>. QED  BY <1>2, <1>3, <1>4, <1>5 DEF Next

LEMMA AnsweredTells ==
  ASSUME FewLegs, IInv, Answered
  PROVE  StaleComesLast
<1>. SUFFICES ASSUME query.pc \in {"hint", "answered"}, Unbiased(query.ask),
                     NEW k \in 1 .. Len(query.hits), NEW l \in 1 .. Len(query.hits), k < l,
                     query.hits[l][1] \notin query.stale,
                     NEW g \in 1 .. Len(Primary), query.hits[l] \in Items(Primary[g]),
                     \A m \in 1 .. (l - 1) : query.hits[m][1] # query.hits[l][1]
              PROVE  query.hits[k][1] \notin query.stale
  BY DEF StaleComesLast
<1>1. /\ query.ask \in Ask /\ \A p \in 1 .. Providers : query.vector[p] # None
      /\ query.hits = Hits(Legs, query.stale, query.ask)
  BY DEF Answered
<1>2. Fusible(Primary) /\ Fusible(Legs)
  BY <1>1, PrimaryIn DEF IInv
<1>3. Len(Primary) = Providers + 1
  <2>1. query.vector \in [1 .. Providers -> Leg] /\ query.keyword \in Leg
    BY <1>1 DEF IInv, Asked, Query, LegOf
  <2>2. query.vector \in Seq(Leg) /\ Len(query.vector) = Providers
    BY <2>1, SeqOfFunction, RetrievalAssumption
  <2>. QED  BY <2>1, <2>2, AppendProperties DEF Primary
<1>4. Len(Legs) = Providers + 2 /\ \A h \in 1 .. Len(Primary) : Legs[h] = Primary[h]
  <2>1. Primary \in Seq(Leg) /\ query.graph \in Leg
    BY <1>2 DEF IInv, Asked, LegOf, Fusible
  <2>2. /\ Len(Append(Primary, query.graph)) = Len(Primary) + 1
        /\ \A h \in 1 .. Len(Primary) : Append(Primary, query.graph)[h] = Primary[h]
    BY <2>1, AppendProperties
  <2>. QED  BY <1>3, <2>2, RetrievalAssumption DEF Legs
<1>5. g \in 1 .. (Len(Legs) - 1) /\ query.hits[l] \in Items(Legs[g])
  BY <1>3, <1>4, RetrievalAssumption
<1>. DEFINE hits == Hits(Legs, query.stale, query.ask)
<1>6. /\ k \in 1 .. Len(hits) /\ l \in 1 .. Len(hits) /\ k < l
      /\ hits[l][1] \notin query.stale
      /\ \E h \in 1 .. (Len(Legs) - 1) : hits[l] \in Items(Legs[h])
      /\ \A m \in 1 .. (l - 1) : hits[m][1] # hits[l][1]
  BY <1>1, <1>5
<1>7. /\ Fusible(Legs) /\ Len(Legs) = Providers + 2
      /\ query.ask \in Ask /\ Unbiased(query.ask)
  BY <1>1, <1>2, <1>4
<1>8. hits[k][1] \notin query.stale
  BY <1>6, <1>7, HitsApart
<1>. QED  BY <1>1, <1>8

(* Stale notes come last wherever the last rank of one primary leg is      *)
(* worth more than 0.15 of a first rank in every leg.  A pool of 50 and    *)
(* the two providers of a migration are such, three providers are not      *)
(* (query.go:26-31, 81-85, 644-655).                                       *)
THEOREM StaleLast ==
  ASSUME FewLegs
  PROVE  Spec => []StaleComesLast
<1>1. Init => Answered
  BY DEF Init, NoQuery, Answered
<1>2. IInv /\ Answered => StaleComesLast
  BY AnsweredTells
<1>. QED  BY <1>1, <1>2, AnsweredStep, Inductive, PTL DEF Spec

=============================================================================
