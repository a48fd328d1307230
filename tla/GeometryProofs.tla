---------------------------- MODULE GeometryProofs ----------------------------
(***************************************************************************)
(* Proofs about Geometry, for any shapes, rings of any length among them.  *)
(*                                                                         *)
(* What InOrder and Picked make of sets and sequences, what a shape becomes *)
(* on its way into the database, and that it means the ground that was     *)
(* said (StoredSame).                                                      *)
(* HashAlike: one ground told in two ways has one hash.                    *)
(***************************************************************************)
EXTENDS Geometry, FiniteSetTheorems, SequenceTheorems, TLAPS

(***************************************************************************)
(* Numbers in their order                                                  *)
(***************************************************************************)

\* The members of a set that are not above one of them.
UpTo(S, x) == {y \in S : y <= x}

\* How many members of a set are not above one of them lies between one and
\* their number.
LEMMA RankType ==
  ASSUME NEW S \in SUBSET Int, IsFiniteSet(S), NEW x \in S
  PROVE  /\ IsFiniteSet(UpTo(S, x))
         /\ Cardinality(UpTo(S, x)) \in 1 .. Cardinality(S)
  <1>1. UpTo(S, x) \in SUBSET S BY DEF UpTo
  <1>2. IsFiniteSet(UpTo(S, x)) /\ Cardinality(UpTo(S, x)) <= Cardinality(S) BY <1>1, FS_Subset
  <1>3. UpTo(S, x) # {} BY DEF UpTo
  <1>4. Cardinality(UpTo(S, x)) \in Nat /\ Cardinality(S) \in Nat BY <1>2, FS_CardinalityType
  <1>5. Cardinality(UpTo(S, x)) # 0 BY <1>2, <1>3, FS_EmptySet
  <1>6. QED BY <1>2, <1>4, <1>5

\* A greater member has more members not above it.
LEMMA RankGrows ==
  ASSUME NEW S \in SUBSET Int, IsFiniteSet(S), NEW x \in S, NEW y \in S, x < y
  PROVE  Cardinality(UpTo(S, x)) < Cardinality(UpTo(S, y))
  <1>1. UpTo(S, x) \in SUBSET UpTo(S, y)
    <2>1. ASSUME NEW z \in S, z <= x PROVE z <= y
      <3>1. x \in Int /\ y \in Int /\ z \in Int OBVIOUS
      <3>2. QED BY <2>1, <3>1
    <2>2. QED BY <2>1, Zenon DEF UpTo
  <1>2. y \in UpTo(S, y) /\ y \notin UpTo(S, x) BY DEF UpTo
  <1>3. IsFiniteSet(UpTo(S, y)) BY RankType
  <1>4. /\ Cardinality(UpTo(S, x)) <= Cardinality(UpTo(S, y))
        /\ Cardinality(UpTo(S, x)) # Cardinality(UpTo(S, y))
    BY <1>1, <1>2, <1>3, FS_Subset
  <1>5. Cardinality(UpTo(S, x)) \in Int /\ Cardinality(UpTo(S, y)) \in Int BY RankType
  <1>6. QED BY <1>4, <1>5

\* A member with more members not above it is greater, and one with as many is
\* the same.
LEMMA RankOrder ==
  ASSUME NEW S \in SUBSET Int, IsFiniteSet(S), NEW x \in S, NEW y \in S
  PROVE  /\ Cardinality(UpTo(S, x)) < Cardinality(UpTo(S, y)) => x < y
         /\ Cardinality(UpTo(S, x)) = Cardinality(UpTo(S, y)) => x = y
  <1>1. PICK n \in Int : n = Cardinality(UpTo(S, x)) BY RankType
  <1>2. PICK m \in Int : m = Cardinality(UpTo(S, y)) BY RankType
  <1>3. x < y => n < m BY <1>1, <1>2, RankGrows
  <1>4. y < x => m < n BY <1>1, <1>2, RankGrows
  <1>5. x \in Int /\ y \in Int OBVIOUS
  <1>6. x < y \/ y < x \/ x = y BY <1>5
  <1>7. (n < m => ~(m < n) /\ n # m) /\ (n = m => ~(n < m) /\ ~(m < n)) OBVIOUS
  <1>8. x = y => n = m BY <1>1, <1>2
  <1>9. (n < m => x < y) /\ (n = m => x = y) BY <1>3, <1>4, <1>6, <1>7, <1>8
  <1>10. QED BY <1>1, <1>2, <1>9

\* Every number of members is that of one member.
LEMMA RankHit ==
  ASSUME NEW S \in SUBSET Int, IsFiniteSet(S), NEW n \in 1 .. Cardinality(S)
  PROVE  \E x \in S : Cardinality(UpTo(S, x)) = n
  <1> DEFINE R == [x \in S |-> Cardinality(UpTo(S, x))]
             N == 1 .. Cardinality(S)
  <1>1. R \in [S -> N] BY RankType
  <1>2. ASSUME NEW x \in S, NEW y \in S, R[x] = R[y] PROVE x = y
    BY <1>2, RankOrder
  <1>3. R \in Injection(S, N) BY <1>1, <1>2 DEF Injection, IsInjective
  <1>4. Cardinality(S) \in Nat BY FS_CardinalityType
  <1>5. IsFiniteSet(N) /\ Cardinality(N) = Cardinality(S) BY <1>4, FS_Interval
  <1>6. R \in Surjection(S, N) BY <1>3, <1>5, FS_Injection
  <1>7. PICK x \in S : R[x] = n BY <1>6, Zenon DEF Surjection
  <1>8. QED BY <1>7

\* InOrder lists every member of a finite set of numbers once, the smaller first.
LEMMA OrderOf ==
  ASSUME NEW S \in SUBSET Int, IsFiniteSet(S)
  PROVE  /\ Cardinality(S) \in Nat
         /\ InOrder(S) \in [1 .. Cardinality(S) -> S]
         /\ \A i, j \in 1 .. Cardinality(S) : i < j => InOrder(S)[i] < InOrder(S)[j]
         /\ \A x \in S : \E i \in 1 .. Cardinality(S) : InOrder(S)[i] = x
  <1>1. Cardinality(S) \in Nat BY FS_CardinalityType
  <1>2. ASSUME NEW n \in 1 .. Cardinality(S)
        PROVE  InOrder(S)[n] \in S /\ Cardinality(UpTo(S, InOrder(S)[n])) = n
    <2>1. InOrder(S)[n] = CHOOSE x \in S : Cardinality(UpTo(S, x)) = n BY Zenon DEF InOrder, UpTo
    <2>2. QED BY <2>1, RankHit
  <1>3. InOrder(S) \in [1 .. Cardinality(S) -> S] BY <1>2, Zenon DEF InOrder
  <1>4. ASSUME NEW i \in 1 .. Cardinality(S), NEW j \in 1 .. Cardinality(S), i < j
        PROVE  InOrder(S)[i] < InOrder(S)[j]
    <2>1. /\ InOrder(S)[i] \in S /\ Cardinality(UpTo(S, InOrder(S)[i])) = i
          /\ InOrder(S)[j] \in S /\ Cardinality(UpTo(S, InOrder(S)[j])) = j
      BY <1>2
    <2>2. Cardinality(UpTo(S, InOrder(S)[i])) < Cardinality(UpTo(S, InOrder(S)[j])) BY <1>4, <2>1
    <2>3. QED BY <2>1, <2>2, RankOrder, Zenon
  <1>5. ASSUME NEW x \in S PROVE \E i \in 1 .. Cardinality(S) : InOrder(S)[i] = x
    <2> DEFINE n == Cardinality(UpTo(S, x))
    <2>1. n \in 1 .. Cardinality(S) BY RankType
    <2>2. InOrder(S)[n] \in S /\ Cardinality(UpTo(S, InOrder(S)[n])) = n BY <1>2, <2>1
    <2>3. InOrder(S)[n] = x BY <2>2, RankOrder, Zenon
    <2>4. QED BY <2>1, <2>3
  <1>6. QED BY <1>1, <1>3, <1>4, <1>5

\* What Picked takes of a sequence at some of its places: the members there, in
\* their order, each of them.
LEMMA PickedIs ==
  ASSUME NEW T, NEW s \in Seq(T), NEW I \in SUBSET (DOMAIN s)
  PROVE  /\ Picked(s, I) \in Seq(T)
         /\ \A n \in DOMAIN Picked(s, I) : \E i \in I : Picked(s, I)[n] = s[i]
         /\ \A i \in I : \E n \in DOMAIN Picked(s, I) : Picked(s, I)[n] = s[i]
         /\ \A i \in I : Picked(s, I) # <<>>
  <1>1. DOMAIN s = 1 .. Len(s) /\ Len(s) \in Nat BY LenProperties
  <1>2. IsFiniteSet(I) /\ I \in SUBSET Int
    <2>1. IsFiniteSet(1 .. Len(s)) BY <1>1, FS_Interval
    <2>2. I \in SUBSET (1 .. Len(s)) BY <1>1
    <2>3. IsFiniteSet(I) BY <2>1, <2>2, FS_Subset
    <2>4. QED BY <2>2, <2>3
  <1>3. /\ Cardinality(I) \in Nat
        /\ InOrder(I) \in [1 .. Cardinality(I) -> I]
        /\ \A x \in I : \E i \in 1 .. Cardinality(I) : InOrder(I)[i] = x
    BY <1>2, OrderOf
  <1>4. \A n \in 1 .. Cardinality(I) : InOrder(I)[n] \in I /\ s[InOrder(I)[n]] \in T
    BY <1>1, <1>3, ElementOfSeq
  <1>5. Picked(s, I) \in [1 .. Cardinality(I) -> T] BY <1>4 DEF Picked
  <1>6. Picked(s, I) \in Seq(T) /\ DOMAIN Picked(s, I) = 1 .. Cardinality(I) BY <1>3, <1>5, SeqDef
  <1>7. \A n \in 1 .. Cardinality(I) : Picked(s, I)[n] = s[InOrder(I)[n]] BY DEF Picked
  <1>8. \A i \in I : \E n \in DOMAIN Picked(s, I) : Picked(s, I)[n] = s[i] BY <1>3, <1>6, <1>7
  <1>9. ASSUME NEW i \in I PROVE Picked(s, I) # <<>>
    BY <1>8
  <1>10. QED BY <1>4, <1>6, <1>7, <1>8, <1>9

\* A finite set of numbers has a least and a greatest one.
LEMMA MinMax ==
  ASSUME NEW S \in SUBSET Int, IsFiniteSet(S), S # {}
  PROVE  /\ MinOf(S) \in S /\ \A k \in S : MinOf(S) <= k
         /\ MaxOf(S) \in S /\ \A k \in S : k <= MaxOf(S)
  <1>1. /\ Cardinality(S) \in Nat
        /\ InOrder(S) \in [1 .. Cardinality(S) -> S]
        /\ \A i, j \in 1 .. Cardinality(S) : i < j => InOrder(S)[i] < InOrder(S)[j]
        /\ \A x \in S : \E i \in 1 .. Cardinality(S) : InOrder(S)[i] = x
    BY OrderOf
  <1>2. PICK n \in Nat : n = Cardinality(S) BY <1>1
  <1>3. n # 0 BY <1>2, FS_EmptySet
  <1>4. PICK s \in [1 .. n -> S] : s = InOrder(S) BY <1>1, <1>2
  <1>5. \A i, j \in 1 .. n : i < j => s[i] < s[j] BY <1>1, <1>2, <1>4
  <1>6. ASSUME NEW k \in S PROVE s[1] <= k /\ k <= s[n]
    <2>1. PICK i \in 1 .. n : s[i] = k BY <1>1, <1>2, <1>4
    <2>2. 1 \in 1 .. n /\ n \in 1 .. n BY <1>3
    <2>3. k \in Int /\ s[1] \in Int /\ s[n] \in Int BY <2>2, Zenon
    <2>4. i = 1 \/ 1 < i BY <2>1
    <2>5. i = n \/ i < n BY <2>1
    <2>6. s[1] = k \/ s[1] < k BY <1>5, <2>1, <2>2, <2>4
    <2>7. s[n] = k \/ k < s[n] BY <1>5, <2>1, <2>2, <2>5
    <2>8. QED BY <2>3, <2>6, <2>7
  <1>7. s[1] \in S /\ s[n] \in S BY <1>3
  <1>8. \E m \in S : \A k \in S : m <= k BY <1>6, <1>7, Zenon
  <1>9. \E m \in S : \A k \in S : k <= m BY <1>6, <1>7, Zenon
  <1>10. MinOf(S) \in S /\ \A k \in S : MinOf(S) <= k BY <1>8, Zenon DEF MinOf
  <1>11. MaxOf(S) \in S /\ \A k \in S : k <= MaxOf(S) BY <1>9, Zenon DEF MaxOf
  <1>12. QED BY <1>10, <1>11

\* So has every set of numbers of rows.
LEMMA MinMaxRows ==
  ASSUME NEW n \in Nat, NEW S \in SUBSET (1 .. n), S # {}
  PROVE  /\ IsFiniteSet(S)
         /\ MinOf(S) \in S /\ \A k \in S : MinOf(S) <= k
         /\ MaxOf(S) \in S /\ \A k \in S : k <= MaxOf(S)
  <1>1. IsFiniteSet(1 .. n) BY FS_Interval
  <1>2. IsFiniteSet(S) BY <1>1, FS_Subset, Zenon
  <1>3. S \in SUBSET Int OBVIOUS
  <1>4. QED BY <1>2, <1>3, MinMax

(***************************************************************************)
(* Shapes, and what becomes of them on the way in                          *)
(***************************************************************************)

\* A shape is a point or a polygon.
LEMMA ShapeCases ==
  ASSUME NEW s \in Shape
  PROVE  \/ s.kind = "point" /\ s = Point(s.at, s.radius) /\ s.at \in Pairs /\ s.radius \in Nat
         \/ s.kind = "polygon" /\ s = Polygon(s.ring) /\ s.ring \in Seq(Pairs) /\ s.ring # <<>>
  BY DEF Shape, Point, Polygon

\* A point is a shape.
LEMMA PointShape ==
  ASSUME NEW at \in Pairs, NEW radius \in Nat
  PROVE  /\ Point(at, radius) \in Shape
         /\ Point(at, radius).kind = "point" /\ Point(at, radius).at = at
  BY DEF Point, Shape

\* A polygon with corners is a shape.
LEMMA PolygonShape ==
  ASSUME NEW ring \in Seq(Pairs), ring # <<>>
  PROVE  /\ Polygon(ring) \in Shape
         /\ Polygon(ring).kind = "polygon" /\ Polygon(ring).ring = ring
  BY DEF Polygon, Shape

\* The exchange of latitude and longitude, twice, changes nothing.
LEMMA ExchangedTwice ==
  ASSUME NEW p \in Pairs
  PROVE  Exchanged(p) \in Pairs /\ Exchanged(Exchanged(p)) = p
  BY DEF Exchanged, Pairs

\* The corners of a ring with their coordinates exchanged.
Turned(ring) == [i \in DOMAIN ring |-> Exchanged(ring[i])]

\* A ring keeps its length.
LEMMA TurnedRing ==
  ASSUME NEW ring \in Seq(Pairs)
  PROVE  /\ Turned(ring) \in Seq(Pairs) /\ Len(Turned(ring)) = Len(ring)
         /\ \A i \in 1 .. Len(ring) : Turned(ring)[i] = Exchanged(ring[i])
  <1>1. DOMAIN ring = 1 .. Len(ring) /\ Len(ring) \in Nat BY LenProperties
  <1>2. \A i \in 1 .. Len(ring) : Exchanged(ring[i]) \in Pairs BY ElementOfSeq, ExchangedTwice
  <1>3. Turned(ring) \in [1 .. Len(ring) -> Pairs] BY <1>1, <1>2 DEF Turned
  <1>4. Turned(ring) \in Seq(Pairs) BY <1>1, <1>3, SeqDef
  <1>5. DOMAIN Turned(ring) = 1 .. Len(ring) BY <1>3
  <1>6. Len(Turned(ring)) = Len(ring) BY <1>1, <1>4, <1>5, LenProperties
  <1>7. QED BY <1>1, <1>4, <1>6 DEF Turned

\* The exchange of a shape.
LEMMA ExchangedShape ==
  /\ \A at \in Pairs, radius \in Nat : ExchangedIn(Point(at, radius)) = Point(Exchanged(at), radius)
  /\ \A ring \in Seq(Pairs) \ {<<>>} : ExchangedIn(Polygon(ring)) = Polygon(Turned(ring)) /\ Turned(ring) # <<>>
  <1>1. ASSUME NEW at \in Pairs, NEW radius \in Nat
        PROVE  ExchangedIn(Point(at, radius)) = Point(Exchanged(at), radius)
    BY DEF ExchangedIn, Point
  <1>2. ASSUME NEW ring \in Seq(Pairs) \ {<<>>}
        PROVE  ExchangedIn(Polygon(ring)) = Polygon(Turned(ring)) /\ Turned(ring) # <<>>
    <2>1. ExchangedIn(Polygon(ring)) = Polygon(Turned(ring)) BY DEF ExchangedIn, Polygon, Turned
    <2>2. Turned(ring) \in Seq(Pairs) /\ Len(Turned(ring)) = Len(ring) /\ Len(ring) # 0
      BY TurnedRing, EmptySeq
    <2>3. Turned(ring) # <<>> BY <2>2, EmptySeq
    <2>4. QED BY <2>1, <2>3
  <1>3. QED BY <1>1, <1>2

\* A ring with its first corner once more at the end.
Again(ring) == Append(ring, Head(ring))

\* Closing a ring gives a ring.
LEMMA ClosedRing ==
  ASSUME NEW ring \in Seq(Pairs), ring # <<>>
  PROVE  /\ Again(ring) \in Seq(Pairs) /\ Again(ring) # <<>>
         /\ Len(Again(ring)) = Len(ring) + 1
         /\ \A i \in 1 .. Len(ring) : Again(ring)[i] = ring[i]
         /\ Again(ring)[Len(ring) + 1] = ring[1]
         /\ Closed(ring) \in {ring, Again(ring)}
  BY DEF Again, Closed

\* The four ways in which a shape comes in.
LEMMA StoredCases ==
  ASSUME NEW s \in Shape
  PROVE  /\ Stored("geojson", s) = ExchangedIn(ExchangedIn(s))
         /\ Stored("cell", s) = ExchangedIn(IF s.kind = "point" THEN ExchangedIn(s) ELSE ClosedIn(s))
         /\ Stored("text", s) = ExchangedIn(ClosedIn(ExchangedIn(s)))
         /\ Stored("export", s) = ExchangedIn(ExportToGeoJson(s))
         /\ Stored("manual", s) = s
  BY DEF Stored, FromGeoJson, ToGeoJson, CellToGeoJson, TextToGeoJson

\* What is stored of a point: the point, unless it comes from the export, which
\* leaves its coordinates exchanged.
LEMMA StoredPoint ==
  ASSUME NEW at \in Pairs, NEW radius \in Nat, NEW from \in Sources
  PROVE  Stored(from, Point(at, radius)) = Point(IF from = "export" THEN Exchanged(at) ELSE at, radius)
  <1> DEFINE s == Point(at, radius)
             t == Point(Exchanged(at), radius)
  <1>1. s \in Shape /\ s.kind = "point" /\ Exchanged(at) \in Pairs /\ Exchanged(Exchanged(at)) = at
    BY PointShape, ExchangedTwice
  <1>2. t.kind = "point" BY <1>1, PointShape
  <1>3. ExchangedIn(s) = t BY ExchangedShape
  <1>4. ExchangedIn(t) = s BY <1>1, ExchangedShape
  <1>5. ClosedIn(t) = t BY <1>2 DEF ClosedIn
  <1>6. ExportToGeoJson(s) = s BY <1>1 DEF ExportToGeoJson
  <1> HIDE DEF s, t
  <1>7. /\ Stored("geojson", s) = s /\ Stored("cell", s) = s /\ Stored("text", s) = s
        /\ Stored("export", s) = t /\ Stored("manual", s) = s
    BY <1>1, <1>3, <1>4, <1>5, <1>6, StoredCases
  <1>8. Stored(from, s) = IF from = "export" THEN t ELSE s BY <1>7 DEF Sources
  <1>9. QED BY <1>8 DEF s, t

\* What is stored of a polygon: the ring, perhaps closed, and from a cell with
\* JSON the ring with its coordinates exchanged, perhaps closed.
LEMMA StoredPolygon ==
  ASSUME NEW ring \in Seq(Pairs), ring # <<>>, NEW from \in Sources
  PROVE  IF from = "cell" THEN Stored(from, Polygon(ring)) \in {Polygon(Turned(ring)), Polygon(Turned(Again(ring)))}
         ELSE Stored(from, Polygon(ring)) \in {Polygon(ring), Polygon(Again(ring))}
  <1> DEFINE s == Polygon(ring)
             t == Polygon(Turned(ring))
  <1>1. s \in Shape /\ s.kind = "polygon" /\ s.ring = ring BY PolygonShape
  <1>2. Turned(ring) \in Seq(Pairs) /\ Turned(ring) # <<>> /\ Len(Turned(ring)) = Len(ring) BY TurnedRing, ExchangedShape
  <1>3. t \in Shape /\ t.kind = "polygon" /\ t.ring = Turned(ring) BY <1>2, PolygonShape
  <1>4. Len(ring) \in Nat \ {0} BY EmptySeq
  <1>5. ExchangedIn(s) = t BY ExchangedShape
  <1>6. Turned(Turned(ring)) = ring
    <2>1. Turned(Turned(ring)) \in Seq(Pairs) /\ Len(Turned(Turned(ring))) = Len(ring) BY <1>2, TurnedRing
    <2>2. ASSUME NEW i \in 1 .. Len(ring) PROVE Turned(Turned(ring))[i] = ring[i]
      BY <1>2, TurnedRing, ElementOfSeq, ExchangedTwice
    <2>3. QED BY <2>1, <2>2, SeqEqual
  <1>7. ExchangedIn(t) = s BY <1>2, <1>6, ExchangedShape
  <1>8. Turned(Again(Turned(ring))) = Again(ring)
    <2>1. /\ Again(Turned(ring)) \in Seq(Pairs) /\ Len(Again(Turned(ring))) = Len(ring) + 1
          /\ \A i \in 1 .. Len(ring) : Again(Turned(ring))[i] = Turned(ring)[i]
          /\ Again(Turned(ring))[Len(ring) + 1] = Turned(ring)[1]
      BY <1>2, ClosedRing, Zenon
    <2>2. /\ Again(ring) \in Seq(Pairs) /\ Len(Again(ring)) = Len(ring) + 1
          /\ \A i \in 1 .. Len(ring) : Again(ring)[i] = ring[i]
          /\ Again(ring)[Len(ring) + 1] = ring[1]
      BY ClosedRing
    <2>3. /\ Turned(Again(Turned(ring))) \in Seq(Pairs) /\ Len(Turned(Again(Turned(ring)))) = Len(ring) + 1
          /\ \A i \in 1 .. Len(ring) + 1 : Turned(Again(Turned(ring)))[i] = Exchanged(Again(Turned(ring))[i])
      BY <2>1, TurnedRing
    <2>4. \A i \in 1 .. Len(ring) : Turned(ring)[i] = Exchanged(ring[i]) /\ Exchanged(Turned(ring)[i]) = ring[i]
      BY TurnedRing, ElementOfSeq, ExchangedTwice
    <2>5. ASSUME NEW i \in 1 .. Len(ring) + 1 PROVE Turned(Again(Turned(ring)))[i] = Again(ring)[i]
      <3>1. CASE i \in 1 .. Len(ring) BY <2>1, <2>2, <2>3, <2>4, <3>1
      <3>2. CASE i = Len(ring) + 1 BY <1>4, <2>1, <2>2, <2>3, <2>4, <3>2
      <3>3. QED BY <1>4, <3>1, <3>2
    <2>6. QED BY <2>2, <2>3, <2>5, SeqEqual
  <1>9. ClosedIn(s) = Polygon(Closed(ring)) BY DEF ClosedIn, Polygon
  <1>10. ClosedIn(t) = Polygon(Closed(Turned(ring))) BY DEF ClosedIn, Polygon
  <1>11. ExchangedIn(ClosedIn(t)) \in {s, Polygon(Again(ring))}
    <2>1. Closed(Turned(ring)) \in {Turned(ring), Again(Turned(ring))} BY <1>2, ClosedRing
    <2>2. Again(Turned(ring)) \in Seq(Pairs) \ {<<>>} BY <1>2, ClosedRing
    <2>3. ExchangedIn(Polygon(Again(Turned(ring)))) = Polygon(Again(ring)) BY <1>8, <2>2, ExchangedShape
    <2>4. QED BY <1>7, <1>10, <2>1, <2>3
  <1>12. ExchangedIn(ClosedIn(s)) \in {t, Polygon(Turned(Again(ring)))}
    <2>1. Closed(ring) \in {ring, Again(ring)} /\ Again(ring) \in Seq(Pairs) \ {<<>>} BY ClosedRing
    <2>2. ExchangedIn(Polygon(Again(ring))) = Polygon(Turned(Again(ring))) BY <2>1, ExchangedShape
    <2>3. QED BY <1>5, <1>9, <2>1, <2>2
  <1>13. ExportToGeoJson(s) = Polygon(Again(Turned(ring)))
    <2>1. Head(ring) = ring[1] /\ Head(Turned(ring)) = Turned(ring)[1] BY <1>2
    <2>2. Exchanged(Head(ring)) = Head(Turned(ring)) BY <1>4, <2>1, TurnedRing
    <2>3. ExchangedIn(s).ring = Turned(ring) BY <1>3, <1>5
    <2>4. ExportToGeoJson(s) = [s EXCEPT !.ring = Append(Turned(ring), Exchanged(Head(ring)))]
      BY <1>1, <2>3 DEF ExportToGeoJson
    <2>5. ASSUME NEW r PROVE [Polygon(ring) EXCEPT !.ring = r] = Polygon(r) BY DEF Polygon
    <2>6. QED BY <2>2, <2>4, <2>5, Zenon DEF Again
  <1>14. ExchangedIn(ExportToGeoJson(s)) = Polygon(Again(ring))
    <2>1. Again(Turned(ring)) \in Seq(Pairs) \ {<<>>} BY <1>2, ClosedRing
    <2>2. QED BY <1>8, <1>13, <2>1, ExchangedShape
  <1> HIDE DEF s, t
  <1>15. /\ Stored("geojson", s) = s /\ Stored("manual", s) = s
         /\ Stored("cell", s) \in {t, Polygon(Turned(Again(ring)))}
         /\ Stored("text", s) \in {s, Polygon(Again(ring))}
         /\ Stored("export", s) = Polygon(Again(ring))
    BY <1>1, <1>5, <1>7, <1>11, <1>12, <1>14, StoredCases
  <1>16. IF from = "cell" THEN Stored(from, s) \in {t, Polygon(Turned(Again(ring)))}
         ELSE Stored(from, s) \in {s, Polygon(Again(ring))}
    BY <1>15 DEF Sources
  <1>17. QED BY <1>16 DEF s, t

\* What is stored is a shape.
LEMMA StoredShape ==
  ASSUME NEW s \in Shape, NEW from \in Sources
  PROVE  Stored(from, s) \in Shape
  <1>1. CASE s.kind = "point"
    <2>1. s = Point(s.at, s.radius) /\ s.at \in Pairs /\ s.radius \in Nat BY <1>1, ShapeCases
    <2>2. Stored(from, s) = Point(IF from = "export" THEN Exchanged(s.at) ELSE s.at, s.radius) BY <2>1, StoredPoint
    <2>3. QED BY <2>1, <2>2, ExchangedTwice, PointShape
  <1>2. CASE s.kind = "polygon"
    <2>1. s = Polygon(s.ring) /\ s.ring \in Seq(Pairs) /\ s.ring # <<>> BY <1>2, ShapeCases
    <2>2. Again(s.ring) \in Seq(Pairs) \ {<<>>} BY <2>1, ClosedRing
    <2>3. Turned(s.ring) \in Seq(Pairs) \ {<<>>} /\ Turned(Again(s.ring)) \in Seq(Pairs) \ {<<>>}
      BY <2>1, <2>2, TurnedRing, ExchangedShape
    <2>4. Stored(from, s) \in {Polygon(s.ring), Polygon(Again(s.ring)), Polygon(Turned(s.ring)), Polygon(Turned(Again(s.ring)))}
      BY <2>1, StoredPolygon
    <2>5. QED BY <2>1, <2>2, <2>3, <2>4, PolygonShape
  <1>3. QED BY <1>1, <1>2, ShapeCases

(***************************************************************************)
(* What is stored means the ground that was said                           *)
(***************************************************************************)

\* The corner after a corner.
After(ring, i) == IF i = Len(ring) THEN ring[1] ELSE ring[i + 1]

\* The corner after the last one is the first.
LEMMA NextCorner ==
  ASSUME NEW n \in Nat, NEW i \in 1 .. n
  PROVE  (i % n) + 1 = IF i = n THEN 1 ELSE i + 1
  <1>1. CASE i = n BY <1>1
  <1>2. CASE i < n BY <1>2
  <1>3. QED BY <1>1, <1>2

\* A ring has a side from each corner to the next, if that is another one.
LEMMA SidesAre ==
  ASSUME NEW ring \in Seq(Pairs)
  PROVE  \A s : s \in Sides(ring) <=> \E i \in 1 .. Len(ring) : s = <<ring[i], After(ring, i)>> /\ ring[i] # After(ring, i)
  <1>1. Len(ring) \in Nat /\ DOMAIN ring = 1 .. Len(ring) BY LenProperties
  <1>2. \A i \in 1 .. Len(ring) : ring[(i % Len(ring)) + 1] = After(ring, i)
    BY <1>1, NextCorner, Zenon DEF After
  <1>3. \A i \in 1 .. Len(ring) : \A p : <<ring[i], After(ring, i)>> = <<p, p>> => ring[i] = After(ring, i) OBVIOUS
  <1>4. \A i \in 1 .. Len(ring) : ring[i] \in ToSet(ring) BY <1>1 DEF ToSet
  <1>5. \A s : s \in {<<ring[i], ring[(i % Len(ring)) + 1]>> : i \in 1 .. Len(ring)}
                <=> \E i \in 1 .. Len(ring) : s = <<ring[i], After(ring, i)>>
    BY <1>2
  <1>6. QED BY <1>3, <1>4, <1>5 DEF Sides

\* Closing a ring adds no side.
LEMMA AgainSides ==
  ASSUME NEW ring \in Seq(Pairs), ring # <<>>
  PROVE  Sides(Again(ring)) = Sides(ring)
  <1> DEFINE long == Again(ring)
  <1>1. /\ long \in Seq(Pairs) /\ Len(long) = Len(ring) + 1
        /\ \A i \in 1 .. Len(ring) : long[i] = ring[i]
        /\ long[Len(ring) + 1] = ring[1]
    BY ClosedRing
  <1>2. PICK n \in Nat : n = Len(ring) /\ n >= 1 BY LenProperties, EmptySeq
  <1>3. \A i \in 1 .. n : long[i] = ring[i] /\ After(long, i) = After(ring, i) BY <1>1, <1>2 DEF After
  <1>4. long[n + 1] = ring[1] /\ After(long, n + 1) = ring[1] BY <1>1, <1>2 DEF After
  <1> HIDE DEF long
  <1>5. \A s : s \in Sides(long) <=> \E i \in 1 .. n + 1 : s = <<long[i], After(long, i)>> /\ long[i] # After(long, i)
    BY <1>1, <1>2, SidesAre
  <1>6. \A s : s \in Sides(ring) <=> \E i \in 1 .. n : s = <<ring[i], After(ring, i)>> /\ ring[i] # After(ring, i)
    BY <1>2, SidesAre
  <1>7. \A i \in 1 .. n + 1 : i \in 1 .. n \/ i = n + 1 BY <1>2
  <1>8. \A i \in 1 .. n : i \in 1 .. n + 1 BY <1>2
  <1>9. \A s : s \in Sides(long) <=> s \in Sides(ring) BY <1>3, <1>4, <1>5, <1>6, <1>7, <1>8
  <1>10. Sides(long) = Sides(ring) BY <1>9 DEF Sides
  <1>11. QED BY <1>10 DEF long

\* Stored geometries mean what was said, but for two ways in.
LEMMA StoredSame ==
  ASSUME NEW s \in Shape, NEW from \in Sources
  PROVE  \/ SameWay(Stored(from, s), s)
         \/ from = "cell" /\ s.kind = "polygon"
         \/ from = "export" /\ s.kind = "point"
  <1>1. CASE s.kind = "point"
    <2>1. s = Point(s.at, s.radius) /\ s.at \in Pairs /\ s.radius \in Nat BY <1>1, ShapeCases
    <2>2. from # "export" => Stored(from, s) = s BY <2>1, StoredPoint
    <2>3. QED BY <1>1, <2>2 DEF SameWay
  <1>2. CASE s.kind # "point" /\ from # "cell"
    <2>1. s = Polygon(s.ring) /\ s.ring \in Seq(Pairs) /\ s.ring # <<>> /\ s.kind = "polygon" BY <1>2, ShapeCases
    <2>2. PICK ring \in Seq(Pairs) : ring = s.ring BY <2>1
    <2>3. Stored(from, Polygon(ring)) \in {Polygon(ring), Polygon(Again(ring))} BY <1>2, <2>1, <2>2, StoredPolygon
    <2>4. Sides(Again(ring)) = Sides(ring) BY <2>1, <2>2, AgainSides
    <2>5. SameWay(Polygon(ring), Polygon(ring)) /\ SameWay(Polygon(Again(ring)), Polygon(ring))
      BY <2>4 DEF SameWay, Polygon
    <2>6. QED BY <2>1, <2>2, <2>3, <2>5
  <1>3. CASE s.kind # "point" /\ from = "cell" BY <1>3, ShapeCases
  <1>4. QED BY <1>1, <1>2, <1>3

(***************************************************************************)
(* Rings that are told alike have one hash                                 *)
(***************************************************************************)

\* Where nothing changes from one corner to the next, they are all the same.
LEMMA SameAlong ==
  ASSUME NEW T, NEW s \in Seq(T), NEW a \in 1 .. Len(s), NEW b \in a .. Len(s), \A j \in a + 1 .. b : s[j] = s[j - 1]
  PROVE  s[b] = s[a]
  <1> SUFFICES ASSUME s[b] # s[a] PROVE FALSE
    OBVIOUS
  <1> DEFINE S == {j \in a .. b : s[j] # s[a]}
  <1>1. Len(s) \in Nat BY LenProperties
  <1>2. S \in SUBSET (1 .. Len(s)) /\ b \in S BY <1>1
  <1>3. MinOf(S) \in S /\ \A k \in S : MinOf(S) <= k BY <1>1, <1>2, MinMaxRows, Zenon
  <1>4. PICK m \in S : \A k \in S : m <= k BY <1>3, Zenon
  <1>5. m \in a + 1 .. b /\ m - 1 \in a .. b /\ ~(m <= m - 1) BY <1>1, <1>4
  <1>6. s[m - 1] = s[a] BY <1>4, <1>5
  <1>7. s[m] = s[m - 1] BY <1>5
  <1>8. QED BY <1>4, <1>6, <1>7

\* The places where a ring has another corner than before.
Turns(r) == {i \in DOMAIN r : i = 1 \/ r[i] # r[i - 1]}

\* Keeps(r, w, o): w is the corners of r at its turns, which o lists in their
\* order.
Keeps(r, w, o) ==
    /\ w \in Seq(Pairs)
    /\ o \in [1 .. Len(w) -> Turns(r)]
    /\ \A i, j \in 1 .. Len(w) : i < j => o[i] < o[j]
    /\ \A x \in Turns(r) : \E i \in 1 .. Len(w) : o[i] = x
    /\ \A k \in 1 .. Len(w) : w[k] = r[o[k]]

\* WithoutRepeats keeps the corners at the turns.
LEMMA WithoutRepeatsIs ==
  ASSUME NEW r \in Seq(Pairs)
  PROVE  Keeps(r, WithoutRepeats(r), InOrder(Turns(r)))
  <1> DEFINE w == WithoutRepeats(r)
             I == Turns(r)
             o == InOrder(I)
             n == Cardinality(I)
  <1>1. DOMAIN r = 1 .. Len(r) /\ Len(r) \in Nat BY LenProperties
  <1>2. w = Picked(r, I) BY DEF WithoutRepeats, Turns
  <1>3. I \in SUBSET (1 .. Len(r)) BY <1>1 DEF Turns
  <1>4. IsFiniteSet(I) /\ I \in SUBSET Int
    <2> HIDE DEF I
    <2>1. IsFiniteSet(1 .. Len(r)) BY <1>1, FS_Interval
    <2>2. IsFiniteSet(I) BY <1>3, <2>1, FS_Subset, Zenon
    <2>3. QED BY <1>3, <2>2
  <1>5. /\ n \in Nat /\ o \in [1 .. n -> I]
        /\ \A i, j \in 1 .. n : i < j => o[i] < o[j]
        /\ \A x \in I : \E i \in 1 .. n : o[i] = x
    BY <1>4, OrderOf, Zenon
  <1>6. w = [k \in 1 .. n |-> r[o[k]]] BY <1>2 DEF Picked
  <1> HIDE DEF w, o, n
  <1>7. \A k \in 1 .. n : o[k] \in I /\ o[k] \in 1 .. Len(r) /\ r[o[k]] \in Pairs
    <2>1. \A i \in 1 .. Len(r) : r[i] \in Pairs BY ElementOfSeq
    <2>2. QED BY <1>3, <1>5, <2>1
  <1>8. w \in Seq(Pairs) /\ Len(w) = n /\ \A k \in 1 .. n : w[k] = r[o[k]]
    <2>1. w \in [1 .. n -> Pairs] BY <1>6, <1>7
    <2>2. w \in Seq(Pairs) /\ DOMAIN w = 1 .. n BY <1>5, <2>1, SeqDef
    <2>3. DOMAIN w = 1 .. Len(w) /\ Len(w) \in Nat BY <2>2, LenProperties
    <2>4. Len(w) = n BY <1>5, <2>2, <2>3
    <2>5. QED BY <1>6, <2>2, <2>4
  <1>9. Keeps(r, w, o) BY <1>5, <1>8 DEF Keeps
  <1>10. QED BY <1>9 DEF w, o

\* Between two turns that follow each other, and after the last one, a ring stays
\* at its corner.
LEMMA KeepsAll ==
  ASSUME NEW r \in Seq(Pairs), r # <<>>, NEW w, NEW o, Keeps(r, w, o)
  PROVE  /\ Len(w) \in Nat \ {0} /\ o[1] = 1
         /\ \A k \in 1 .. Len(w) : o[k] \in 1 .. Len(r)
         /\ \A k \in 1 .. Len(w) - 1 : /\ o[k + 1] \in 2 .. Len(r) /\ o[k] < o[k + 1]
                                       /\ r[o[k + 1]] # r[o[k + 1] - 1] /\ r[o[k + 1] - 1] = r[o[k]]
         /\ r[Len(r)] = r[o[Len(w)]]
  <1> DEFINE I == Turns(r)
  <1>1. DOMAIN r = 1 .. Len(r) /\ Len(r) \in Nat /\ Len(r) # 0 BY LenProperties, EmptySeq
  <1>2. PICK n \in Nat : n = Len(w) BY LenProperties DEF Keeps
  <1>3. I \in SUBSET (1 .. Len(r)) /\ 1 \in I BY <1>1 DEF Turns
  <1>5. /\ n \in Nat /\ o \in [1 .. n -> I]
        /\ \A i, j \in 1 .. n : i < j => o[i] < o[j]
        /\ \A x \in I : \E i \in 1 .. n : o[i] = x
    BY <1>2 DEF Keeps
  <1> HIDE DEF I
  <1>7. \A k \in 1 .. n : o[k] \in I /\ o[k] \in 1 .. Len(r)
    BY <1>3, <1>5, Zenon
  <1>9. PICK one \in 1 .. n : o[one] = 1 BY <1>3, <1>5
  <1>10. n # 0 BY <1>5, <1>9
  <1>11. o[1] = 1
    <2>1. CASE one = 1 BY <1>9, <2>1
    <2>2. CASE one # 1
      <3>1. 1 \in 1 .. n /\ 1 < one BY <1>5, <1>9, <2>2
      <3>2. o[1] < 1 /\ o[1] \in 1 .. Len(r) BY <1>5, <1>7, <1>9, <3>1
      <3>3. QED BY <1>1, <3>2
    <2>3. QED BY <2>1, <2>2
  <1>12. ASSUME NEW k \in 1 .. n, NEW i \in 1 .. Len(r), o[k] < i, \A m \in 1 .. n : o[k] < o[m] => i <= o[m]
         PROVE  r[i - 1] = r[o[k]]
    <2>1. o[k] \in 1 .. Len(r) BY <1>7
    <2>2. PICK a \in 1 .. Len(r) : a = o[k] BY <2>1
    <2>3. i - 1 \in a .. Len(r) BY <1>1, <1>12, <2>2
    <2>4. ASSUME NEW j \in a + 1 .. i - 1 PROVE r[j] = r[j - 1]
      <3>1. j \in 1 .. Len(r) /\ a < j /\ ~(i <= j) BY <1>1, <2>2, <2>3, <2>4
      <3>2. j \notin I
        <4> SUFFICES ASSUME j \in I PROVE FALSE
          OBVIOUS
        <4>1. PICK m \in 1 .. n : o[m] = j BY <1>5
        <4>2. QED BY <1>12, <2>2, <3>1, <4>1
      <3>3. QED BY <1>1, <3>1, <3>2 DEF Turns, I
    <2>5. QED BY <2>2, <2>3, <2>4, SameAlong, Zenon
  <1>13. ASSUME NEW k \in 1 .. n - 1
         PROVE  o[k] < o[k + 1] /\ r[o[k + 1]] # r[o[k + 1] - 1] /\ r[o[k + 1] - 1] = r[o[k]]
    <2>1. k \in 1 .. n /\ k + 1 \in 1 .. n /\ k < k + 1 BY <1>5
    <2>2. o[k] < o[k + 1] /\ o[k] \in 1 .. Len(r) /\ o[k + 1] \in 1 .. Len(r) /\ o[k + 1] \in I BY <1>5, <1>7, <2>1
    <2>3. o[k + 1] # 1 BY <1>1, <2>2
    <2>4. ASSUME NEW m \in 1 .. n, o[k] < o[m] PROVE o[k + 1] <= o[m]
      <3>1. m \in Int /\ k \in Int /\ (m <= k \/ m = k + 1 \/ k + 1 < m) BY <1>5
      <3>2. CASE m < k
        <4>1. o[m] < o[k] BY <1>5, <2>1, <3>2
        <4>2. o[m] \in 1 .. Len(r) BY <1>7
        <4>3. QED BY <1>1, <2>2, <2>4, <4>1, <4>2
      <3>3. CASE m = k BY <1>1, <2>2, <2>4, <3>3
      <3>4. CASE m = k + 1 BY <1>1, <2>2, <3>4
      <3>5. CASE k + 1 < m
        <4>1. o[k + 1] < o[m] /\ o[m] \in 1 .. Len(r) BY <1>5, <1>7, <2>1, <3>5
        <4>2. QED BY <1>1, <2>2, <4>1
      <3>6. QED BY <3>1, <3>2, <3>3, <3>4, <3>5
    <2>5. r[o[k + 1] - 1] = r[o[k]] BY <1>12, <2>1, <2>2, <2>4, Zenon
    <2>6. r[o[k + 1]] # r[o[k + 1] - 1] BY <2>2, <2>3 DEF Turns, I
    <2>7. QED BY <2>2, <2>5, <2>6
  <1>14. r[Len(r)] = r[o[n]]
    <2>1. n \in 1 .. n BY <1>5, <1>10
    <2>2. PICK a \in 1 .. Len(r) : a = o[n] BY <1>7, <2>1
    <2>3. Len(r) \in a .. Len(r) BY <1>1, <2>2
    <2>4. ASSUME NEW j \in a + 1 .. Len(r) PROVE r[j] = r[j - 1]
      <3>1. j \in 1 .. Len(r) /\ a < j BY <1>1, <2>2, <2>4
      <3>2. j \notin I
        <4> SUFFICES ASSUME j \in I PROVE FALSE
          OBVIOUS
        <4>1. PICK m \in 1 .. n : o[m] = j BY <1>5
        <4>2. m = n \/ m < n BY <1>5
        <4>3. CASE m = n BY <1>1, <2>2, <3>1, <4>1, <4>3
        <4>4. CASE m < n
          <5>1. o[m] < o[n] BY <1>5, <2>1, <4>4
          <5>2. QED BY <1>1, <2>2, <3>1, <4>1, <5>1
        <4>5. QED BY <4>2, <4>3, <4>4
      <3>3. QED BY <1>1, <3>1, <3>2 DEF Turns, I
    <2>5. QED BY <2>2, <2>3, <2>4, SameAlong, Zenon
  <1>15. \A k \in 1 .. n - 1 : o[k + 1] \in 2 .. Len(r)
    <2> SUFFICES ASSUME NEW k \in 1 .. n - 1 PROVE o[k + 1] \in 2 .. Len(r)
      OBVIOUS
    <2>1. k \in 1 .. n /\ k + 1 \in 1 .. n BY <1>5
    <2>2. PICK a \in 1 .. Len(r) : a = o[k] BY <1>7, <2>1
    <2>3. PICK b \in 1 .. Len(r) : b = o[k + 1] BY <1>7, <2>1
    <2>4. a < b BY <1>13, <2>2, <2>3
    <2>5. QED BY <1>1, <2>3, <2>4
  <1>16. QED BY <1>2, <1>7, <1>10, <1>11, <1>13, <1>14, <1>15

\* A ring keeps its corners in one way only.
LEMMA KeepsOnce ==
  ASSUME NEW r \in Seq(Pairs), NEW w, NEW o, NEW v, NEW u, Keeps(r, w, o), Keeps(r, v, u)
  PROVE  w = v
  <1>1. DOMAIN r = 1 .. Len(r) /\ Len(r) \in Nat BY LenProperties
  <1>2. Turns(r) \in SUBSET Int BY <1>1 DEF Turns
  <1>3. PICK n \in Nat : n = Len(w) BY LenProperties DEF Keeps
  <1>4. PICK m \in Nat : m = Len(v) BY LenProperties DEF Keeps
  <1>5. \A k \in 1 .. n : o[k] \in Turns(r) /\ o[k] \in Int BY <1>2, <1>3, Zenon DEF Keeps
  <1>6. \A k \in 1 .. m : u[k] \in Turns(r) /\ u[k] \in Int BY <1>2, <1>4, Zenon DEF Keeps
  <1>7. ASSUME NEW k \in 1 .. n, k \notin 1 .. m \/ o[k] # u[k] PROVE FALSE
    <2> DEFINE S == {j \in 1 .. n : j \notin 1 .. m \/ o[j] # u[j]}
    <2>1. S \in SUBSET (1 .. n) /\ k \in S BY <1>7
    <2>2. MinOf(S) \in S /\ \A j \in S : MinOf(S) <= j BY <2>1, MinMaxRows, Zenon
    <2>3. PICK a \in S : \A j \in S : a <= j BY <2>2, Zenon
    <2>4. a \in 1 .. n /\ (a \notin 1 .. m \/ o[a] # u[a]) BY <2>3
    <2>5. \A j \in 1 .. n : j < a => j \in 1 .. m /\ o[j] = u[j] BY <2>3, <2>4
    <2> HIDE DEF S
    <2>6. PICK b \in 1 .. m : u[b] = o[a] BY <1>4, <1>5, <2>4 DEF Keeps
    <2>7. ~(b < a)
      <3> SUFFICES ASSUME b < a PROVE FALSE
        OBVIOUS
      <3>1. b \in 1 .. n BY <2>4
      <3>2. o[b] = u[b] /\ o[b] < o[a] /\ o[a] \in Int BY <1>3, <1>5, <2>4, <2>5, <3>1 DEF Keeps
      <3>3. QED BY <2>6, <3>2
    <2>8. a \in 1 .. m BY <2>4, <2>7
    <2>9. a < b BY <2>4, <2>6, <2>7, <2>8
    <2>10. PICK c \in 1 .. n : o[c] = u[a] BY <1>3, <1>6, <2>8, Zenon DEF Keeps
    <2>11. u[a] < u[b] BY <1>4, <2>8, <2>9 DEF Keeps
    <2>12. o[c] < o[a] BY <2>6, <2>10, <2>11
    <2>13. c < a
      <3>1. CASE c = a BY <1>5, <2>4, <2>12, <3>1
      <3>2. CASE a < c
        <4>1. o[a] < o[c] BY <1>3, <2>4, <3>2 DEF Keeps
        <4>2. QED BY <1>5, <2>4, <2>12, <4>1
      <3>3. QED BY <2>4, <3>1, <3>2
    <2>14. c \in 1 .. m /\ u[c] = u[a] BY <2>5, <2>10, <2>13
    <2>15. u[c] < u[a] /\ u[a] \in Int BY <1>4, <1>6, <2>8, <2>13, <2>14 DEF Keeps
    <2>16. QED BY <2>14, <2>15
  <1>8. n <= m
    <2> SUFFICES ASSUME m < n PROVE FALSE
      BY <1>3, <1>4
    <2>1. n \in 1 .. n /\ n \notin 1 .. m OBVIOUS
    <2>2. QED BY <1>7, <2>1
  <1>9. n = m
    <2> SUFFICES ASSUME n < m PROVE FALSE
      BY <1>8
    <2>1. m \in 1 .. m /\ m \notin 1 .. n OBVIOUS
    <2>2. PICK c \in 1 .. n : o[c] = u[m] BY <1>3, <1>6, <2>1 DEF Keeps
    <2>3. c \in 1 .. m /\ u[c] = u[m] /\ c < m BY <1>7, <2>2
    <2>4. u[c] < u[m] /\ u[m] \in Int BY <1>4, <1>6, <2>1, <2>3 DEF Keeps
    <2>5. QED BY <2>3, <2>4
  <1>10. \A k \in 1 .. Len(w) : w[k] = v[k]
    <2> SUFFICES ASSUME NEW k \in 1 .. Len(w) PROVE w[k] = v[k]
      OBVIOUS
    <2>1. k \in 1 .. n /\ k \in 1 .. m /\ o[k] = u[k] BY <1>3, <1>7, <1>9
    <2>2. QED BY <1>4, <2>1 DEF Keeps
  <1>11. w \in Seq(Pairs) /\ v \in Seq(Pairs) /\ Len(w) = Len(v) BY <1>3, <1>4, <1>9 DEF Keeps
  <1>12. QED BY <1>10, <1>11, SeqEqual
\* A ring that is closed at its end passes no corner more.
LEMMA KeepsAgain ==
  ASSUME NEW r \in Seq(Pairs), r # <<>>, NEW w, NEW o, Keeps(r, w, o)
  PROVE  \/ r[Len(r)] = r[1] /\ Keeps(Again(r), w, o)
         \/ r[Len(r)] # r[1] /\ \E u : Keeps(Again(r), Append(w, r[1]), u)
  <1> DEFINE a == Again(r)
  <1>1. PICK n \in Nat : n = Len(r) /\ n # 0 BY LenProperties, EmptySeq
  <1>2. /\ a \in Seq(Pairs) /\ Len(a) = n + 1
        /\ \A i \in 1 .. n : a[i] = r[i]
        /\ a[n + 1] = r[1]
    BY <1>1, ClosedRing, Zenon
  <1> HIDE DEF a
  <1>3. DOMAIN r = 1 .. n /\ DOMAIN a = 1 .. n + 1 BY <1>1, <1>2, LenProperties
  <1>4. \A i \in 1 .. n : i \in Turns(a) <=> i \in Turns(r)
    <2> SUFFICES ASSUME NEW i \in 1 .. n PROVE i \in Turns(a) <=> i \in Turns(r)
      OBVIOUS
    <2>1. CASE i = 1 BY <1>3, <2>1 DEF Turns
    <2>2. CASE i # 1
      <3>1. i - 1 \in 1 .. n /\ i \in 1 .. n + 1 BY <2>2
      <3>2. a[i] = r[i] /\ a[i - 1] = r[i - 1] BY <1>2, <3>1
      <3>3. QED BY <1>3, <2>2, <3>1, <3>2 DEF Turns
    <2>3. QED BY <2>1, <2>2
  <1>5. n + 1 \in Turns(a) <=> r[n] # r[1]
    <2>1. n + 1 \in 1 .. n + 1 /\ n + 1 # 1 /\ (n + 1) - 1 = n /\ n \in 1 .. n BY <1>1
    <2>2. n + 1 \in Turns(a) <=> a[n + 1] # a[n] BY <1>3, <2>1 DEF Turns
    <2>3. QED BY <1>2, <2>1, <2>2
  <1>6. Turns(r) \in SUBSET (1 .. n) /\ Turns(a) \in SUBSET (1 .. n + 1) BY <1>3 DEF Turns
  <1>7. PICK m \in Nat : m = Len(w) /\ m # 0 BY KeepsAll
  <1>8. /\ w \in Seq(Pairs) /\ o \in [1 .. m -> Turns(r)]
        /\ \A i, j \in 1 .. m : i < j => o[i] < o[j]
        /\ \A x \in Turns(r) : \E i \in 1 .. m : o[i] = x
        /\ \A k \in 1 .. m : w[k] = r[o[k]]
    BY <1>7 DEF Keeps
  <1>9. \A k \in 1 .. m : o[k] \in 1 .. n /\ w[k] = a[o[k]] BY <1>2, <1>6, <1>8, Zenon
  <1>10. CASE r[n] = r[1]
    <2>1. Turns(a) = Turns(r)
      <3>1. \A i \in 1 .. n + 1 : i \in 1 .. n \/ i = n + 1 OBVIOUS
      <3>2. \A i : i \in Turns(a) => i \in Turns(r) BY <1>4, <1>5, <1>6, <1>10, <3>1
      <3>3. \A i : i \in Turns(r) => i \in Turns(a) BY <1>4, <1>6
      <3>4. QED BY <3>2, <3>3 DEF Turns
    <2>2. Keeps(a, w, o) BY <1>7, <1>8, <1>9, <2>1 DEF Keeps
    <2>3. QED BY <1>1, <1>10, <2>2 DEF a
  <1>11. CASE r[n] # r[1]
    <2> DEFINE u == [k \in 1 .. m + 1 |-> IF k \in 1 .. m THEN o[k] ELSE n + 1]
    <2>1. r[1] \in Pairs BY <1>1, ElementOfSeq
    <2>0. Append(w, r[1]) \in Seq(Pairs) BY <1>8, <2>1, AppendProperties
    <2>2. PICK x \in Seq(Pairs) : x = Append(w, r[1]) BY <2>0, Zenon
    <2>3. Len(x) = m + 1 /\ (\A k \in 1 .. m : x[k] = w[k]) /\ x[m + 1] = r[1] BY <1>7, <1>8, <2>1, <2>2
    <2>4. n + 1 \in Turns(a) BY <1>5, <1>11
    <2>5. \A k \in 1 .. m : u[k] = o[k] /\ u[k] \in Turns(r) /\ u[k] \in 1 .. n /\ u[k] \in Turns(a)
      BY <1>4, <1>6, <1>8
    <2>6. u[m + 1] = n + 1 OBVIOUS
    <2>7. DOMAIN u = 1 .. m + 1 OBVIOUS
    <2> HIDE DEF u
    <2>8. \A k \in 1 .. m + 1 : k \in 1 .. m \/ k = m + 1 OBVIOUS
    <2>9. \A k \in 1 .. m + 1 : u[k] \in Turns(a) BY <2>4, <2>5, <2>6, <2>8
    <2>10. u \in [1 .. m + 1 -> Turns(a)]
      <3>1. u = [k \in 1 .. m + 1 |-> u[k]] BY DEF u
      <3>2. QED BY <2>9, <3>1
    <2>11. ASSUME NEW i \in 1 .. m + 1, NEW j \in 1 .. m + 1, i < j PROVE u[i] < u[j]
      <3>1. i \in 1 .. m BY <2>11
      <3>2. CASE j \in 1 .. m BY <1>8, <2>5, <2>11, <3>1, <3>2
      <3>3. CASE j = m + 1
        <4>1. u[i] \in 1 .. n /\ u[j] = n + 1 BY <2>5, <2>6, <3>1, <3>3
        <4>2. QED BY <4>1
      <3>4. QED BY <2>8, <3>2, <3>3
    <2>12. ASSUME NEW y \in Turns(a) PROVE \E i \in 1 .. m + 1 : u[i] = y
      <3>1. y \in 1 .. n + 1 BY <1>6
      <3>2. CASE y = n + 1
        <4>1. m + 1 \in 1 .. m + 1 OBVIOUS
        <4>2. QED BY <2>6, <3>2, <4>1
      <3>3. CASE y \in 1 .. n
        <4>1. y \in Turns(r) BY <1>4, <3>3
        <4>2. PICK i \in 1 .. m : o[i] = y BY <1>8, <4>1
        <4>3. i \in 1 .. m + 1 OBVIOUS
        <4>4. QED BY <2>5, <4>2, <4>3
      <3>4. QED BY <3>1, <3>2, <3>3
    <2>13. ASSUME NEW k \in 1 .. m + 1 PROVE x[k] = a[u[k]]
      <3>1. CASE k \in 1 .. m BY <1>9, <2>3, <2>5, <3>1, Zenon
      <3>2. CASE k = m + 1 BY <1>2, <2>3, <2>6, <3>2
      <3>3. QED BY <2>8, <3>1, <3>2
    <2>14. Keeps(a, x, u) BY <2>3, <2>10, <2>11, <2>12, <2>13 DEF Keeps
    <2>15. QED BY <1>1, <1>11, <2>2, <2>14 DEF a
  <1>12. QED BY <1>10, <1>11

\* The exchange of coordinates keeps corners apart.
LEMMA ExchangedApart ==
  ASSUME NEW p \in Pairs, NEW q \in Pairs
  PROVE  Exchanged(p) = Exchanged(q) <=> p = q
  BY ExchangedTwice

\* A ring turns where it does with its coordinates exchanged.
LEMMA KeepsTurned ==
  ASSUME NEW r \in Seq(Pairs), NEW w, NEW o, Keeps(r, w, o)
  PROVE  Keeps(Turned(r), Turned(w), o)
  <1>1. PICK n \in Nat : n = Len(r) /\ DOMAIN r = 1 .. n BY LenProperties
  <1>2. PICK a : a = Turned(r) OBVIOUS
  <1>3. a \in Seq(Pairs) /\ Len(a) = n /\ \A i \in 1 .. n : a[i] = Exchanged(r[i]) BY <1>1, <1>2, TurnedRing
  <1>4. DOMAIN a = 1 .. n BY <1>3, LenProperties
  <1>5. \A i \in 1 .. n : r[i] \in Pairs BY <1>1, ElementOfSeq
  <1>6. \A i \in 1 .. n : i # 1 => (a[i] = a[i - 1] <=> r[i] = r[i - 1])
    <2> SUFFICES ASSUME NEW i \in 1 .. n, i # 1 PROVE a[i] = a[i - 1] <=> r[i] = r[i - 1]
      OBVIOUS
    <2>1. i - 1 \in 1 .. n OBVIOUS
    <2>2. r[i] \in Pairs /\ r[i - 1] \in Pairs BY <1>5, <2>1
    <2>3. a[i] = Exchanged(r[i]) /\ a[i - 1] = Exchanged(r[i - 1]) BY <1>3, <2>1
    <2>4. QED BY <2>2, <2>3, ExchangedApart
  <1>7. Turns(a) = Turns(r) BY <1>1, <1>4, <1>6 DEF Turns
  <1>8. PICK m \in Nat : m = Len(w) BY LenProperties DEF Keeps
  <1>9. PICK v : v = Turned(w) OBVIOUS
  <1>10. v \in Seq(Pairs) /\ Len(v) = m /\ \A i \in 1 .. m : v[i] = Exchanged(w[i]) BY <1>8, <1>9, TurnedRing DEF Keeps
  <1>11. ASSUME NEW k \in 1 .. m PROVE v[k] = a[o[k]]
    <2>1. w[k] = r[o[k]] /\ o[k] \in 1 .. n BY <1>1, <1>8, Zenon DEF Keeps, Turns
    <2>2. QED BY <1>3, <1>10, <2>1
  <1>12. Keeps(a, v, o) BY <1>7, <1>8, <1>10, <1>11 DEF Keeps
  <1>13. QED BY <1>2, <1>9, <1>12

\* The corners a ring passes, as they are hashed.
Outline(r) == Opened(WithoutRepeats(r))

\* What Opened leaves of a ring, and a ring that is closed once more.
LEMMA OpenedIs ==
  ASSUME NEW w \in Seq(Pairs), w # <<>>
  PROVE  /\ w[1] # w[Len(w)] => Opened(w) = w /\ Opened(Append(w, w[1])) = w
         /\ w[1] = w[Len(w)] => /\ Opened(w) \in Seq(Pairs) /\ Len(Opened(w)) = Len(w) - 1
                                /\ \A i \in 1 .. Len(w) - 1 : Opened(w)[i] = w[i]
         /\ w[1] = w[Len(w)] /\ Opened(w) # <<>> => w = Again(Opened(w))
  <1>1. PICK n \in Nat : n = Len(w) /\ n # 0 BY LenProperties, EmptySeq
  <1>2. \A i \in 1 .. n : w[i] \in Pairs BY <1>1, ElementOfSeq
  <1>3. Head(w) = w[1] /\ Last(w) = w[n] BY <1>1 DEF Last
  <1>4. ASSUME w[1] # w[n] PROVE Opened(w) = w /\ Opened(Append(w, w[1])) = w
    <2>1. Opened(w) = w BY <1>3, <1>4 DEF Opened
    <2>0. w[1] \in Pairs BY <1>1, <1>2
    <2>11. Append(w, w[1]) \in Seq(Pairs) BY <2>0, AppendProperties
    <2>2. PICK x \in Seq(Pairs) : x = Append(w, w[1]) BY <2>11, Zenon
    <2>3. Len(x) = n + 1 /\ (\A k \in 1 .. n : x[k] = w[k]) /\ x[n + 1] = w[1] BY <1>1, <1>2, <2>2
    <2>4. Head(x) = Last(x) BY <1>1, <2>3 DEF Last
    <2>5. Opened(x) = SubSeq(x, 1, n) BY <2>3, <2>4 DEF Opened, Front
    <2>6. PICK y \in Seq(Pairs) : y = SubSeq(x, 1, n) BY <1>1, <2>3, SubSeqProperties
    <2>7. Len(y) = n /\ \A k \in 1 .. n : y[k] = x[k] BY <1>1, <2>3, <2>6, SubSeqProperties
    <2>8. \A k \in 1 .. n : y[k] = w[k] BY <2>3, <2>7
    <2>9. y = w BY <1>1, <2>7, <2>8, SeqEqual
    <2>10. QED BY <2>1, <2>2, <2>5, <2>6, <2>9
  <1>5. ASSUME w[1] = w[n]
        PROVE  /\ Opened(w) \in Seq(Pairs) /\ Len(Opened(w)) = n - 1
               /\ \A i \in 1 .. n - 1 : Opened(w)[i] = w[i]
               /\ Opened(w) # <<>> => w = Again(Opened(w))
    <2>1. PICK m \in Nat : m = n - 1 /\ m <= n BY <1>1
    <2>2. Opened(w) = SubSeq(w, 1, m) BY <1>1, <1>3, <1>5, <2>1 DEF Opened, Front
    <2>0. SubSeq(w, 1, m) \in Seq(Pairs) BY <1>1, <2>1, SubSeqProperties
    <2>3. PICK y \in Seq(Pairs) : y = SubSeq(w, 1, m) BY <2>0, Zenon
    <2>4. Len(y) = m /\ \A k \in 1 .. m : y[k] = w[k] BY <1>1, <2>1, <2>3, SubSeqProperties
    <2>5. ASSUME y # <<>> PROVE w = Again(y)
      <3>1. m # 0 BY <2>4, <2>5, EmptySeq
      <3>2. PICK z \in Seq(Pairs) : z = Again(y) BY <2>5, ClosedRing
      <3>3. Len(z) = m + 1 /\ (\A i \in 1 .. m : z[i] = y[i]) /\ z[m + 1] = y[1] BY <2>4, <2>5, <3>2, ClosedRing, Zenon
      <3>4. n = m + 1 /\ 1 \in 1 .. m BY <2>1, <3>1
      <3>5. \A i \in 1 .. m + 1 : i \in 1 .. m \/ i = m + 1 OBVIOUS
      <3>6. \A i \in 1 .. m + 1 : z[i] = w[i] BY <1>5, <2>4, <3>3, <3>4, <3>5
      <3>7. w = z BY <1>1, <3>3, <3>4, <3>6, SeqEqual, Zenon
      <3>8. QED BY <3>2, <3>7
    <2>6. QED BY <2>1, <2>2, <2>3, <2>4, <2>5, Zenon
  <1>6. QED BY <1>1, <1>4, <1>5
\* The corners of a ring that is closed at its end are the same,
LEMMA OutlineAgain ==
  ASSUME NEW r \in Seq(Pairs), r # <<>>
  PROVE  Outline(Again(r)) = Outline(r)
  <1>1. PICK w, o : w = WithoutRepeats(r) /\ Keeps(r, w, o) BY WithoutRepeatsIs
  <1>2. Len(w) \in Nat \ {0} /\ o[1] = 1 /\ r[Len(r)] = r[o[Len(w)]] BY <1>1, KeepsAll
  <1>9. w \in Seq(Pairs) /\ \A k \in 1 .. Len(w) : w[k] = r[o[k]] BY <1>1 DEF Keeps
  <1>10. 1 \in 1 .. Len(w) /\ Len(w) \in 1 .. Len(w) BY <1>2
  <1>3. w # <<>> /\ w[1] = r[1] /\ w[Len(w)] = r[Len(r)] BY <1>2, <1>9, <1>10, EmptySeq
  <1>4. Again(r) \in Seq(Pairs) BY ClosedRing
  <1>5. PICK v, u : v = WithoutRepeats(Again(r)) /\ Keeps(Again(r), v, u) BY <1>4, WithoutRepeatsIs
  <1>6. CASE r[Len(r)] = r[1]
    <2>1. Keeps(Again(r), w, o) BY <1>1, <1>6, KeepsAgain
    <2>2. v = w BY <1>4, <1>5, <2>1, KeepsOnce
    <2>3. QED BY <1>1, <1>5, <2>2 DEF Outline
  <1>7. CASE r[Len(r)] # r[1]
    <2>1. \E x : Keeps(Again(r), Append(w, r[1]), x) BY <1>1, <1>7, KeepsAgain
    <2>2. v = Append(w, w[1]) BY <1>3, <1>4, <1>5, <2>1, KeepsOnce, Zenon
    <2>3. Opened(w) = w /\ Opened(Append(w, w[1])) = w BY <1>3, <1>7, <1>9, OpenedIs
    <2>4. QED BY <1>1, <1>5, <2>2, <2>3 DEF Outline
  <1>8. QED BY <1>6, <1>7

\* and those of a ring with its coordinates exchanged are exchanged.
LEMMA OutlineTurned ==
  ASSUME NEW r \in Seq(Pairs), r # <<>>
  PROVE  Outline(r) \in Seq(Pairs) /\ Outline(Turned(r)) = Turned(Outline(r))
  <1>1. PICK w, o : w = WithoutRepeats(r) /\ Keeps(r, w, o) BY WithoutRepeatsIs
  <1>2. Len(w) \in Nat \ {0} /\ w \in Seq(Pairs)
    <2>1. w \in Seq(Pairs) BY <1>1, Zenon DEF Keeps
    <2>2. Len(w) \in Nat \ {0} BY <1>1, KeepsAll
    <2>3. QED BY <2>1, <2>2
  <1>3. Turned(r) \in Seq(Pairs) /\ Keeps(Turned(r), Turned(w), o) BY <1>1, KeepsTurned, TurnedRing
  <1>4. PICK v, u : v = WithoutRepeats(Turned(r)) /\ Keeps(Turned(r), v, u) BY <1>3, WithoutRepeatsIs
  <1>5. v = Turned(w) BY <1>3, <1>4, KeepsOnce
  <1>6. PICK m \in Nat : m = Len(w) /\ m # 0 BY <1>2
  <1>7. v \in Seq(Pairs) /\ Len(v) = m /\ \A i \in 1 .. m : v[i] = Exchanged(w[i]) BY <1>2, <1>5, <1>6, TurnedRing
  <1>8. w # <<>> /\ v # <<>> BY <1>6, <1>7
  <1>9. v[1] = v[m] <=> w[1] = w[m]
    <2>1. 1 \in 1 .. m /\ m \in 1 .. m BY <1>6
    <2>2. w[1] \in Pairs /\ w[m] \in Pairs BY <1>2, <1>6, <2>1, ElementOfSeq
    <2>3. QED BY <1>7, <2>1, <2>2, ExchangedApart
  <1>10. CASE w[1] # w[m]
    <2>1. Opened(w) = w /\ Opened(v) = v BY <1>2, <1>6, <1>7, <1>8, <1>9, <1>10, OpenedIs
    <2>2. QED BY <1>1, <1>2, <1>4, <1>5, <2>1 DEF Outline
  <1>11. CASE w[1] = w[m]
    <2>1. PICK c \in Seq(Pairs) : c = Opened(w) /\ Len(c) = m - 1 /\ \A i \in 1 .. m - 1 : c[i] = w[i]
      BY <1>2, <1>6, <1>8, <1>11, OpenedIs
    <2>2. PICK d \in Seq(Pairs) : d = Opened(v) /\ Len(d) = m - 1 /\ \A i \in 1 .. m - 1 : d[i] = v[i]
      BY <1>7, <1>8, <1>9, <1>11, OpenedIs, Zenon
    <2>3. PICK e \in Seq(Pairs) : e = Turned(c) /\ Len(e) = m - 1 /\ \A i \in 1 .. m - 1 : e[i] = Exchanged(c[i])
      BY <2>1, TurnedRing, ZenonT(60)
    <2>4. \A i \in 1 .. m - 1 : d[i] = e[i]
      <3> SUFFICES ASSUME NEW i \in 1 .. m - 1 PROVE d[i] = e[i]
        OBVIOUS
      <3>1. i \in 1 .. m BY <1>6
      <3>2. d[i] = v[i] /\ v[i] = Exchanged(w[i]) /\ c[i] = w[i] /\ e[i] = Exchanged(c[i])
        BY <1>7, <2>1, <2>2, <2>3, <3>1
      <3>3. QED BY <3>2
    <2>5. d = e BY <2>2, <2>3, <2>4, SeqEqual
    <2>6. QED BY <1>1, <1>4, <2>1, <2>2, <2>3, <2>5 DEF Outline
  <1>12. QED BY <1>10, <1>11

\* A ring keeps its sides when corners that repeat the one before are left out,
LEMMA SidesKept ==
  ASSUME NEW r \in Seq(Pairs), r # <<>>, NEW w, NEW o, Keeps(r, w, o)
  PROVE  Sides(w) = Sides(r)
  <1>1. PICK n \in Nat : n = Len(r) /\ n # 0 BY LenProperties, EmptySeq
  <1>2. PICK m \in Nat : m = Len(w) /\ m # 0 BY KeepsAll
  <1>14. /\ o[1] = 1 /\ r[n] = r[o[m]]
         /\ \A k \in 1 .. m : o[k] \in 1 .. n
         /\ \A k \in 1 .. m - 1 : o[k + 1] \in 2 .. n /\ r[o[k + 1]] # r[o[k + 1] - 1] /\ r[o[k + 1] - 1] = r[o[k]]
    <2>1. /\ Len(w) \in Nat \ {0} /\ o[1] = 1
          /\ \A k \in 1 .. Len(w) : o[k] \in 1 .. Len(r)
          /\ \A k \in 1 .. Len(w) - 1 : /\ o[k + 1] \in 2 .. Len(r) /\ o[k] < o[k + 1]
                                        /\ r[o[k + 1]] # r[o[k + 1] - 1] /\ r[o[k + 1] - 1] = r[o[k]]
          /\ r[Len(r)] = r[o[Len(w)]]
      BY KeepsAll
    <2>2. QED BY <1>1, <1>2, <2>1
  <1>15. w \in Seq(Pairs) /\ \A k \in 1 .. m : w[k] = r[o[k]] BY <1>2 DEF Keeps
  <1>3. /\ w \in Seq(Pairs) /\ o[1] = 1 /\ r[n] = r[o[m]]
        /\ \A k \in 1 .. m : w[k] = r[o[k]] /\ o[k] \in 1 .. n
        /\ \A k \in 1 .. m - 1 : o[k + 1] \in 2 .. n /\ r[o[k + 1]] # r[o[k + 1] - 1] /\ r[o[k + 1] - 1] = r[o[k]]
    BY <1>14, <1>15
  <1>4. 1 \in 1 .. m /\ m \in 1 .. m /\ n \in 1 .. n /\ 1 \in 1 .. n BY <1>1, <1>2
  <1>5. w[m] = r[n] /\ w[1] = r[1] BY <1>3, <1>4
  <1>6. \A s : s \in Sides(w) <=> \E i \in 1 .. m : s = <<w[i], After(w, i)>> /\ w[i] # After(w, i)
    BY <1>2, <1>3, SidesAre
  <1>7. \A s : s \in Sides(r) <=> \E i \in 1 .. n : s = <<r[i], After(r, i)>> /\ r[i] # After(r, i)
    BY <1>1, SidesAre
  <1>8. After(w, m) = w[1] /\ After(r, n) = r[1] BY <1>1, <1>2 DEF After
  <1>9. ASSUME NEW i \in 1 .. n, r[i] # After(r, i)
        PROVE  \E k \in 1 .. m : w[k] = r[i] /\ After(w, k) = After(r, i)
    <2>1. CASE i = n BY <1>4, <1>5, <1>8, <2>1
    <2>2. CASE i # n
      <3>1. After(r, i) = r[i + 1] /\ i + 1 \in 1 .. n /\ i + 1 # 1 /\ (i + 1) - 1 = i BY <1>1, <2>2 DEF After
      <3>2. i + 1 \in Turns(r) BY <1>1, <1>9, <3>1, LenProperties DEF Turns
      <3>3. PICK b \in 1 .. m : o[b] = i + 1 BY <1>2, <3>2 DEF Keeps
      <3>4. b # 1 BY <1>3, <3>1, <3>3
      <3>5. PICK k \in 1 .. m - 1 : k + 1 = b
        <4>1. b - 1 \in 1 .. m - 1 /\ (b - 1) + 1 = b BY <3>4
        <4>2. QED BY <4>1
      <3>6. k \in 1 .. m /\ k # m OBVIOUS
      <3>7. r[i] = r[o[k]] BY <1>3, <3>1, <3>3, <3>5, Zenon
      <3>8. After(w, k) = w[b] BY <1>2, <3>5, <3>6 DEF After
      <3>9. w[k] = r[i] /\ After(w, k) = After(r, i) BY <1>3, <3>1, <3>3, <3>6, <3>7, <3>8, Zenon
      <3>10. QED BY <3>6, <3>9
    <2>3. QED BY <2>1, <2>2
  <1>10. ASSUME NEW k \in 1 .. m, w[k] # After(w, k)
         PROVE  \E i \in 1 .. n : r[i] = w[k] /\ After(r, i) = After(w, k)
    <2>1. CASE k = m BY <1>4, <1>5, <1>8, <2>1
    <2>2. CASE k # m
      <3>1. k \in 1 .. m - 1 /\ k + 1 \in 1 .. m /\ After(w, k) = w[k + 1] BY <1>2, <2>2 DEF After
      <3>2. PICK b \in 2 .. n : b = o[k + 1] BY <1>3, <3>1, Zenon
      <3>3. b - 1 \in 1 .. n /\ b - 1 # n /\ (b - 1) + 1 = b OBVIOUS
      <3>4. r[b - 1] = w[k] BY <1>3, <3>1, <3>2
      <3>5. After(r, b - 1) = r[b] BY <1>1, <3>3 DEF After
      <3>6. w[k + 1] = r[b] BY <1>3, <3>1, <3>2
      <3>7. QED BY <3>1, <3>3, <3>4, <3>5, <3>6
    <2>3. QED BY <2>1, <2>2
  <1>11. \A s : s \in Sides(w) => s \in Sides(r) BY <1>6, <1>7, <1>10
  <1>12. \A s : s \in Sides(r) => s \in Sides(w) BY <1>6, <1>7, <1>9
  <1>13. QED BY <1>11, <1>12 DEF Sides

\* and when it is opened.
LEMMA OutlineSides ==
  ASSUME NEW r \in Seq(Pairs), r # <<>>, Outline(r) # <<>>
  PROVE  Sides(Outline(r)) = Sides(r)
  <1>1. PICK w, o : w = WithoutRepeats(r) /\ Keeps(r, w, o) BY WithoutRepeatsIs
  <1>2. Len(w) \in Nat \ {0} /\ w \in Seq(Pairs) BY <1>1, KeepsAll DEF Keeps
  <1>3. w # <<>> /\ Sides(w) = Sides(r) /\ Outline(r) = Opened(w) BY <1>1, <1>2, SidesKept DEF Outline
  <1>4. CASE w[1] # w[Len(w)] BY <1>2, <1>3, <1>4, OpenedIs
  <1>5. CASE w[1] = w[Len(w)]
    <2>1. Opened(w) \in Seq(Pairs) /\ w = Again(Opened(w)) BY <1>2, <1>3, <1>5, OpenedIs
    <2>2. Sides(Again(Opened(w))) = Sides(Opened(w)) BY <1>3, <2>1, AgainSides
    <2>3. QED BY <1>3, <2>1, <2>2
  <1>6. QED BY <1>4, <1>5
\* A ring that passes no corner twice.
Round(c) == c \in Seq(Pairs) /\ Len(c) > 1 /\ \A i, j \in 1 .. Len(c) : c[i] = c[j] => i = j

\* It goes on from each of its corners to one other corner.
LEMMA RoundSides ==
  ASSUME NEW c, Round(c)
  PROVE  /\ \A i \in 1 .. Len(c) : <<c[i], After(c, i)>> \in Sides(c)
         /\ \A p, q, t : <<p, q>> \in Sides(c) /\ <<p, t>> \in Sides(c) => q = t
         /\ \A p, q : <<p, q>> \in Sides(c) => \E i \in 1 .. Len(c) : c[i] = p
  <1>1. PICK n \in Nat : n = Len(c) /\ n > 1 BY LenProperties DEF Round
  <1>2. c \in Seq(Pairs) /\ \A i, j \in 1 .. n : c[i] = c[j] => i = j BY <1>1 DEF Round
  <1>3. \A s : s \in Sides(c) <=> \E i \in 1 .. n : s = <<c[i], After(c, i)>> /\ c[i] # After(c, i)
    BY <1>1, <1>2, SidesAre
  <1>4. ASSUME NEW i \in 1 .. n PROVE c[i] # After(c, i)
    <2>1. CASE i = n
      <3>1. After(c, i) = c[1] /\ 1 \in 1 .. n /\ i # 1 BY <1>1, <2>1 DEF After
      <3>2. QED BY <1>2, <3>1
    <2>2. CASE i # n
      <3>1. After(c, i) = c[i + 1] /\ i + 1 \in 1 .. n /\ i # i + 1 BY <1>1, <2>2 DEF After
      <3>2. QED BY <1>2, <3>1
    <2>3. QED BY <2>1, <2>2
  <1>5. \A i \in 1 .. n : <<c[i], After(c, i)>> \in Sides(c) BY <1>3, <1>4
  <1>6. \A p, q : <<p, q>> \in Sides(c) => \E i \in 1 .. n : c[i] = p /\ After(c, i) = q
    <2> SUFFICES ASSUME NEW p, NEW q, <<p, q>> \in Sides(c) PROVE \E i \in 1 .. n : c[i] = p /\ After(c, i) = q
      OBVIOUS
    <2>1. PICK i \in 1 .. n : <<p, q>> = <<c[i], After(c, i)>> BY <1>3
    <2>2. QED BY <2>1
  <1>7. ASSUME NEW p, NEW q, NEW t, <<p, q>> \in Sides(c), <<p, t>> \in Sides(c) PROVE q = t
    <2>1. PICK i \in 1 .. n : c[i] = p /\ After(c, i) = q BY <1>6, <1>7
    <2>2. PICK j \in 1 .. n : c[j] = p /\ After(c, j) = t BY <1>6, <1>7
    <2>3. i = j BY <1>2, <2>1, <2>2
    <2>4. QED BY <2>1, <2>2, <2>3
  <1>8. QED BY <1>1, <1>5, <1>6, <1>7

\* A ring that goes along some sides and passes no corner twice.
Tour(a, S) ==
    /\ a \in Seq(Pairs) /\ a # <<>>
    /\ \A i, j \in 1 .. Len(a) : a[i] = a[j] => i = j
    /\ \A k \in 1 .. Len(a) : <<a[k], After(a, k)>> \in S

\* Two that go along the same sides do so together,
LEMMA TourTogether ==
  ASSUME NEW S, \A p, q, t : <<p, q>> \in S /\ <<p, t>> \in S => q = t,
         NEW a, NEW b, Tour(a, S), Tour(b, S), a[1] = b[1],
         NEW k \in 1 .. Len(a), k \in 1 .. Len(b)
  PROVE  a[k] = b[k]
  <1> SUFFICES ASSUME a[k] # b[k] PROVE FALSE
    OBVIOUS
  <1>1. PICK n \in Nat : n = Len(a) BY LenProperties DEF Tour
  <1>2. PICK m \in Nat : m = Len(b) BY LenProperties DEF Tour
  <1> DEFINE D == {j \in 1 .. n : j \in 1 .. m /\ a[j] # b[j]}
  <1>3. D \in SUBSET (1 .. n) /\ k \in D BY <1>1, <1>2
  <1>4. MinOf(D) \in D /\ \A j \in D : MinOf(D) <= j BY <1>3, MinMaxRows, Zenon
  <1>5. PICK j \in D : \A i \in D : j <= i BY <1>4, Zenon
  <1>6. j \in 1 .. n /\ j \in 1 .. m /\ a[j] # b[j] BY <1>5
  <1>7. \A i \in 1 .. n : i \in 1 .. m /\ i < j => a[i] = b[i] BY <1>5, <1>6
  <1> HIDE DEF D
  <1>8. j # 1 BY <1>6
  <1>9. PICK i \in 1 .. n : i + 1 = j /\ i \in 1 .. m /\ i # n /\ i # m /\ i < j
    <2>1. j - 1 \in 1 .. n /\ (j - 1) + 1 = j /\ j - 1 \in 1 .. m /\ j - 1 # n /\ j - 1 # m /\ j - 1 < j BY <1>6, <1>8
    <2>2. QED BY <2>1, Zenon
  <1>10. a[i] = b[i] BY <1>7, <1>9
  <1>11. After(a, i) = a[j] /\ After(b, i) = b[j] BY <1>1, <1>2, <1>9 DEF After
  <1>12. <<a[i], a[j]>> \in S /\ <<b[i], b[j]>> \in S BY <1>1, <1>2, <1>9, <1>11 DEF Tour
  <1>13. QED BY <1>6, <1>10, <1>12

\* and neither ends before the other.
LEMMA TourEnds ==
  ASSUME NEW S, \A p, q, t : <<p, q>> \in S /\ <<p, t>> \in S => q = t,
         NEW a, NEW b, Tour(a, S), Tour(b, S), a[1] = b[1]
  PROVE  Len(b) <= Len(a)
  <1>1. PICK n \in Nat : n = Len(a) /\ n # 0 BY LenProperties, EmptySeq DEF Tour
  <1>2. PICK m \in Nat : m = Len(b) BY LenProperties DEF Tour
  <1> SUFFICES ASSUME n < m PROVE FALSE
    BY <1>1, <1>2
  <1>3. n \in 1 .. n /\ n \in 1 .. m /\ n # m /\ n + 1 \in 1 .. m /\ 1 \in 1 .. m /\ n + 1 # 1 BY <1>1
  <1>4. a[n] = b[n] BY <1>1, <1>2, <1>3, TourTogether
  <1>5. After(a, n) = a[1] /\ After(b, n) = b[n + 1] BY <1>1, <1>2, <1>3 DEF After
  <1>6. <<a[n], a[1]>> \in S /\ <<b[n], b[n + 1]>> \in S BY <1>1, <1>2, <1>3, <1>5 DEF Tour
  <1>7. b[n + 1] = b[1] BY <1>4, <1>6
  <1>8. QED BY <1>2, <1>3, <1>7 DEF Tour

\* So from one corner there is one tour.
LEMMA TourOnce ==
  ASSUME NEW S, \A p, q, t : <<p, q>> \in S /\ <<p, t>> \in S => q = t,
         NEW a, NEW b, Tour(a, S), Tour(b, S), a[1] = b[1]
  PROVE  a = b
  <1>1. a \in Seq(Pairs) /\ b \in Seq(Pairs) BY DEF Tour
  <1>2. PICK n \in Nat : n = Len(a) BY <1>1, LenProperties
  <1>3. PICK m \in Nat : m = Len(b) BY <1>1, LenProperties
  <1>4. m <= n /\ n <= m BY <1>2, <1>3, TourEnds
  <1>5. n = m BY <1>4
  <1>6. ASSUME NEW k \in 1 .. Len(a) PROVE a[k] = b[k]
    <2>1. k \in 1 .. Len(b) BY <1>2, <1>3, <1>5
    <2>2. QED BY <2>1, TourTogether
  <1>7. QED BY <1>1, <1>2, <1>3, <1>5, <1>6, SeqEqual, Zenon

\* Finitely many numbers have a least one.
LEMMA LeastOf ==
  ASSUME NEW S \in SUBSET Int, IsFiniteSet(S), S # {}
  PROVE  \E x \in S : \A y \in S : x <= y
  <1>1. PICK n \in Nat : n = Cardinality(S) BY FS_CardinalityType
  <1>2. /\ InOrder(S) \in [1 .. n -> S]
        /\ \A i, j \in 1 .. n : i < j => InOrder(S)[i] < InOrder(S)[j]
        /\ \A x \in S : \E i \in 1 .. n : InOrder(S)[i] = x
    BY <1>1, OrderOf
  <1>3. PICK x \in S : TRUE BY Zenon
  <1>4. 1 \in 1 .. n BY <1>2, <1>3
  <1>5. PICK z \in S : z = InOrder(S)[1] BY <1>2, <1>4, Zenon
  <1>6. ASSUME NEW y \in S PROVE z <= y
    <2>1. PICK i \in 1 .. n : InOrder(S)[i] = y BY <1>2
    <2>2. i = 1 \/ 1 < i OBVIOUS
    <2>3. CASE i = 1 BY <1>5, <2>1, <2>3
    <2>4. CASE 1 < i BY <1>2, <1>4, <1>5, <2>1, <2>4
    <2>5. QED BY <2>2, <2>3, <2>4
  <1>7. QED BY <1>6

\* One member of a list of numbers, of those at some places, is the least.
LEMMA LeastAmong ==
  ASSUME NEW n \in Nat, NEW f \in [1 .. n -> Int], NEW I \in SUBSET (1 .. n), I # {}
  PROVE  \E i \in I : \A j \in I : f[i] <= f[j]
  <1> DEFINE T == {f[i] : i \in I}
             g == [i \in I |-> f[i]]
  <1>1. IsFiniteSet(I)
    <2>1. IsFiniteSet(1 .. n) BY FS_Interval
    <2>2. QED BY <2>1, FS_Subset, Zenon
  <1>2. g \in Surjection(I, T) BY DEF Surjection
  <1>3. IsFiniteSet(T) BY <1>1, <1>2, FS_Surjection
  <1>4. T \in SUBSET Int /\ T # {} BY Zenon
  <1>5. \A y : y \in T <=> \E i \in I : y = f[i] OBVIOUS
  <1> HIDE DEF T
  <1>6. PICK x \in T : \A y \in T : x <= y BY <1>3, <1>4, LeastOf
  <1>7. QED BY <1>5, <1>6

\* One of the corners of a ring comes before the others.
LEMMA LeastCorner ==
  ASSUME NEW c, Round(c)
  PROVE  \E i \in 1 .. Len(c) : \A j \in 1 .. Len(c) : j # i => Before(c[i], c[j])
  <1>1. PICK n \in Nat : n = Len(c) /\ n > 1 BY LenProperties DEF Round
  <1>2. c \in Seq(Pairs) /\ \A i, j \in 1 .. n : c[i] = c[j] => i = j BY <1>1 DEF Round
  <1>3. \A i \in 1 .. n : c[i] \in Pairs BY <1>1, <1>2, ElementOfSeq
  <1>4. \A i \in 1 .. n : c[i] = <<c[i][1], c[i][2]>> /\ c[i][1] \in Int /\ c[i][2] \in Int BY <1>3 DEF Pairs
  <1>5. PICK y : y = [i \in 1 .. n |-> c[i][2]] BY Zenon
  <1>6. PICK x : x = [i \in 1 .. n |-> c[i][1]] BY Zenon
  <1>7. x \in [1 .. n -> Int] /\ y \in [1 .. n -> Int] BY <1>4, <1>5, <1>6
  <1>8. PICK b \in 1 .. n : \A j \in 1 .. n : y[b] <= y[j]
    <2>1. 1 .. n # {} /\ 1 .. n \in SUBSET (1 .. n) BY <1>1
    <2>2. QED BY <1>7, <2>1, LeastAmong, Zenon
  <1>9. PICK i \in 1 .. n : y[i] = y[b] /\ \A j \in 1 .. n : y[j] = y[b] => x[i] <= x[j]
    <2> DEFINE I == {j \in 1 .. n : y[j] = y[b]}
    <2>1. I \in SUBSET (1 .. n) /\ I # {} OBVIOUS
    <2>2. PICK i \in I : \A j \in I : x[i] <= x[j] BY <1>7, <2>1, LeastAmong, Zenon
    <2>3. QED BY <2>2
  <1>10. ASSUME NEW j \in 1 .. n, j # i PROVE Before(c[i], c[j])
    <2>1. y[i] <= y[j] /\ (y[j] = y[i] => x[i] <= x[j]) BY <1>8, <1>9
    <2>2. x[i] = x[j] /\ y[i] = y[j] => c[i] = c[j] BY <1>4, <1>5, <1>6, Zenon
    <2>3. c[i] # c[j] BY <1>2, <1>10
    <2>4. y[i] < y[j] \/ (y[i] = y[j] /\ x[i] < x[j]) BY <1>7, <2>1, <2>2, <2>3
    <2>5. QED BY <1>5, <1>6, <2>4 DEF Before
  <1>11. QED BY <1>1, <1>10

\* SortIdx finds it.
LEMMA SortIdxIs ==
  ASSUME NEW c, Round(c)
  PROVE  /\ SortIdx(c) \in 1 .. Len(c)
         /\ \A j \in 1 .. Len(c) : ~Before(c[j], c[SortIdx(c)])
  <1>1. PICK n \in Nat : n = Len(c) /\ DOMAIN c = 1 .. n BY LenProperties DEF Round
  <1>2. \A i \in 1 .. n : c[i] \in Pairs BY <1>1, ElementOfSeq DEF Round
  <1>3. \A p, q \in Pairs : Before(p, q) => ~Before(q, p) BY DEF Before, Pairs
  <1>4. \A p \in Pairs : ~Before(p, p) BY DEF Before, Pairs
  <1>5. PICK i \in 1 .. n : \A j \in 1 .. n : j # i => Before(c[i], c[j]) BY <1>1, LeastCorner, Zenon
  <1>6. \A j \in 1 .. n : ~Before(c[j], c[i]) BY <1>2, <1>3, <1>4, <1>5
  <1>7. \A j \in 1 .. i - 1 : Before(c[i], c[j])
    <2> SUFFICES ASSUME NEW j \in 1 .. i - 1 PROVE Before(c[i], c[j])
      OBVIOUS
    <2>1. j \in 1 .. n /\ j # i OBVIOUS
    <2>2. QED BY <1>5, <2>1
  <1>8. \E k \in DOMAIN c : /\ \A j \in DOMAIN c : ~Before(c[j], c[k])
                            /\ \A j \in 1 .. k - 1 : Before(c[k], c[j])
    BY <1>1, <1>6, <1>7
  <1>9. SortIdx(c) \in DOMAIN c /\ \A j \in DOMAIN c : ~Before(c[j], c[SortIdx(c)]) BY <1>8 DEF SortIdx
  <1>10. QED BY <1>1, <1>9

\* A ring from another of its corners on.
From(c, f) == SubSeq(c, f, Len(c)) \o SubSeq(c, 1, f - 1)

\* It has the corners of the ring in their order.
LEMMA FromIs ==
  ASSUME NEW c \in Seq(Pairs), NEW f \in 1 .. Len(c)
  PROVE  /\ From(c, f) \in Seq(Pairs) /\ Len(From(c, f)) = Len(c)
         /\ \A k \in 1 .. Len(c) : From(c, f)[k] = IF k + f - 1 <= Len(c) THEN c[k + f - 1] ELSE c[k + f - 1 - Len(c)]
  <1>1. PICK n \in Nat : n = Len(c) BY LenProperties
  <1>2. \A i \in 1 .. n : c[i] \in Pairs BY <1>1, ElementOfSeq
  <1>3. f \in Int /\ 1 <= f /\ f <= n /\ f - 1 \in Int BY <1>1
  <1>4. PICK a : a = SubSeq(c, f, n) BY Zenon
  <1>5. PICK b : b = SubSeq(c, 1, f - 1) BY Zenon
  <1>6. a \in Seq(Pairs) /\ Len(a) = n - f + 1 /\ \A i \in 1 .. n - f + 1 : a[i] = c[f + i - 1]
    <2>1. \A i \in f .. n : c[i] \in Pairs BY <1>2, <1>3
    <2>2. QED BY <1>3, <1>4, <2>1, SubSeqProperties
  <1>7. b \in Seq(Pairs) /\ Len(b) = f - 1 /\ \A i \in 1 .. f - 1 : b[i] = c[i]
    <2>1. \A i \in 1 .. f - 1 : c[i] \in Pairs BY <1>2, <1>3
    <2>2. /\ b \in Seq(Pairs) /\ Len(b) = IF 1 <= f - 1 THEN (f - 1) - 1 + 1 ELSE 0
          /\ \A i \in 1 .. (f - 1) - 1 + 1 : b[i] = c[1 + i - 1]
      BY <1>3, <1>5, <2>1, SubSeqProperties
    <2>3. Len(b) = f - 1 BY <1>3, <2>2
    <2>4. ASSUME NEW i \in 1 .. f - 1 PROVE b[i] = c[i]
      <3>1. i \in 1 .. (f - 1) - 1 + 1 /\ 1 + i - 1 = i BY <1>3
      <3>2. QED BY <2>2, <3>1
    <2>5. QED BY <2>2, <2>3, <2>4
  <1>8. PICK z : z = a \o b BY Zenon
  <1>9. /\ z \in Seq(Pairs) /\ Len(z) = Len(a) + Len(b)
        /\ \A i \in 1 .. Len(a) + Len(b) : z[i] = IF i <= Len(a) THEN a[i] ELSE b[i - Len(a)]
    BY <1>6, <1>7, <1>8, ConcatProperties, Zenon
  <1>10. Len(z) = n BY <1>1, <1>6, <1>7, <1>9
  <1>11. ASSUME NEW k \in 1 .. n PROVE z[k] = IF k + f - 1 <= n THEN c[k + f - 1] ELSE c[k + f - 1 - n]
    <2>1. z[k] = IF k <= n - f + 1 THEN a[k] ELSE b[k - (n - f + 1)] BY <1>6, <1>7, <1>9, <1>10
    <2>2. CASE k <= n - f + 1
      <3>1. k \in 1 .. n - f + 1 /\ f + k - 1 = k + f - 1 /\ k + f - 1 <= n BY <1>3, <2>2
      <3>2. QED BY <1>6, <2>1, <2>2, <3>1
    <2>3. CASE ~(k <= n - f + 1)
      <3>1. k - (n - f + 1) \in 1 .. f - 1 /\ k - (n - f + 1) = k + f - 1 - n /\ ~(k + f - 1 <= n) BY <1>3, <2>3
      <3>2. QED BY <1>7, <2>1, <2>3, <3>1
    <2>4. QED BY <2>2, <2>3
  <1>12. From(c, f) = z BY <1>1, <1>4, <1>5, <1>8 DEF From
  <1>13. QED BY <1>1, <1>9, <1>10, <1>11, <1>12

\* It goes along the same sides.
LEMMA FromTour ==
  ASSUME NEW c, Round(c), NEW f \in 1 .. Len(c)
  PROVE  Tour(From(c, f), Sides(c)) /\ From(c, f)[1] = c[f]
  <1>1. PICK n \in Nat : n = Len(c) /\ n > 1 BY LenProperties DEF Round
  <1>2. c \in Seq(Pairs) /\ \A i, j \in 1 .. n : c[i] = c[j] => i = j BY <1>1 DEF Round
  <1>3. \A i \in 1 .. n : <<c[i], After(c, i)>> \in Sides(c) BY <1>1, RoundSides
  <1>4. PICK z : z = From(c, f) OBVIOUS
  <1>5. /\ z \in Seq(Pairs) /\ Len(z) = n
        /\ \A k \in 1 .. n : z[k] = IF k + f - 1 <= n THEN c[k + f - 1] ELSE c[k + f - 1 - n]
    BY <1>1, <1>2, <1>4, FromIs, Zenon
  <1>6. f \in 1 .. n BY <1>1
  <1>7. z # <<>> BY <1>1, <1>5, EmptySeq
  <1>8. z[1] = c[f]
    <2>1. 1 \in 1 .. n /\ 1 + f - 1 = f /\ f <= n BY <1>1, <1>6
    <2>2. QED BY <1>5, <2>1
  <1> DEFINE At(k) == IF k + f - 1 <= n THEN k + f - 1 ELSE k + f - 1 - n
  <1>9. \A k \in 1 .. n : At(k) \in 1 .. n /\ z[k] = c[At(k)] BY <1>1, <1>5, <1>6
  <1>10. \A i, j \in 1 .. n : At(i) = At(j) => i = j BY <1>1, <1>6
  <1>11. ASSUME NEW k \in 1 .. n PROVE After(z, k) = After(c, At(k))
    <2>1. CASE k = n
      <3>1. After(z, k) = c[f] BY <1>5, <1>8, <2>1 DEF After
      <3>2. CASE f = 1
        <4>1. At(k) = n BY <1>1, <2>1, <3>2
        <4>2. QED BY <1>1, <3>1, <3>2, <4>1 DEF After
      <3>3. CASE f # 1
        <4>1. At(k) = f - 1 /\ f - 1 # n /\ (f - 1) + 1 = f BY <1>1, <1>6, <2>1, <3>3
        <4>2. QED BY <1>1, <3>1, <4>1 DEF After
      <3>4. QED BY <3>2, <3>3
    <2>2. CASE k # n
      <3>1. k + 1 \in 1 .. n /\ After(z, k) = z[k + 1] BY <1>1, <1>5, <2>2 DEF After
      <3>2. After(z, k) = c[At(k + 1)] BY <1>9, <3>1
      <3>3. At(k + 1) = (IF At(k) = n THEN 1 ELSE At(k) + 1) BY <1>1, <1>6, <3>1
      <3>4. QED BY <1>1, <3>2, <3>3, Zenon DEF After
    <2>3. QED BY <2>1, <2>2
  <1> HIDE DEF At
  <1>12. \A i, j \in 1 .. n : z[i] = z[j] => i = j BY <1>2, <1>9, <1>10, Zenon
  <1>13. \A k \in 1 .. n : <<z[k], After(z, k)>> \in Sides(c) BY <1>3, <1>9, <1>11, Zenon
  <1>14. Tour(z, Sides(c)) BY <1>5, <1>7, <1>12, <1>13 DEF Tour
  <1>15. QED BY <1>4, <1>8, <1>14

\* What is hashed of two rings with the same sides is the same.
LEMMA SortedAlike ==
  ASSUME NEW c, NEW d, Round(c), Round(d), Sides(c) = Sides(d)
  PROVE  From(c, SortIdx(c)) = From(d, SortIdx(d))
  <1>1. PICK i \in 1 .. Len(c) : i = SortIdx(c) /\ \A j \in 1 .. Len(c) : ~Before(c[j], c[i]) BY SortIdxIs
  <1>2. PICK k \in 1 .. Len(d) : k = SortIdx(d) /\ \A j \in 1 .. Len(d) : ~Before(d[j], d[k]) BY SortIdxIs
  <1>3. PICK j \in 1 .. Len(c) : c[j] = d[k]
    <2>1. <<d[k], After(d, k)>> \in Sides(c) BY RoundSides
    <2>2. QED BY <2>1, RoundSides
  <1>4. PICK l \in 1 .. Len(d) : d[l] = c[i]
    <2>1. <<c[i], After(c, i)>> \in Sides(d) BY RoundSides
    <2>2. QED BY <2>1, RoundSides
  <1>5. c[i] \in Pairs /\ d[k] \in Pairs BY ElementOfSeq DEF Round
  <1>6. ~Before(d[k], c[i]) /\ ~Before(c[i], d[k]) BY <1>1, <1>2, <1>3, <1>4
  <1>7. \A p, q \in Pairs : ~Before(p, q) /\ ~Before(q, p) => p = q
    <2> SUFFICES ASSUME NEW p \in Pairs, NEW q \in Pairs, ~Before(p, q), ~Before(q, p) PROVE p = q
      OBVIOUS
    <2>1. p = <<p[1], p[2]>> /\ q = <<q[1], q[2]>> /\ p[1] \in Int /\ p[2] \in Int /\ q[1] \in Int /\ q[2] \in Int
      BY DEF Pairs
    <2>2. p[1] = q[1] /\ p[2] = q[2] BY <2>1 DEF Before
    <2>3. QED BY <2>1, <2>2
  <1>8. c[i] = d[k] BY <1>5, <1>6, <1>7
  <1>9. /\ Tour(From(c, i), Sides(c)) /\ From(c, i)[1] = c[i]
        /\ Tour(From(d, k), Sides(c)) /\ From(d, k)[1] = d[k]
    BY FromTour
  <1>10. \A p, q, t : <<p, q>> \in Sides(c) /\ <<p, t>> \in Sides(c) => q = t BY RoundSides
  <1>11. From(c, i) = From(d, k) BY <1>8, <1>9, <1>10, TourOnce
  <1>12. QED BY <1>1, <1>2, <1>11

\* Sides with their coordinates exchanged.
LEMMA TurnedSides ==
  ASSUME NEW c, Round(c)
  PROVE  /\ Round(Turned(c))
         /\ \A s : s \in Sides(Turned(c)) <=> \E t \in Sides(c) : s = <<Exchanged(t[1]), Exchanged(t[2])>>
  <1>1. PICK n \in Nat : n = Len(c) /\ n > 1 BY LenProperties DEF Round
  <1>2. c \in Seq(Pairs) /\ \A i, j \in 1 .. n : c[i] = c[j] => i = j BY <1>1 DEF Round
  <1>3. PICK a : a = Turned(c) OBVIOUS
  <1>4. a \in Seq(Pairs) /\ Len(a) = n /\ \A i \in 1 .. n : a[i] = Exchanged(c[i]) BY <1>1, <1>2, <1>3, TurnedRing
  <1>5. \A i \in 1 .. n : c[i] \in Pairs BY <1>1, <1>2, ElementOfSeq
  <1>6. \A i \in 1 .. n : After(c, i) \in Pairs /\ After(a, i) = Exchanged(After(c, i))
    <2> SUFFICES ASSUME NEW i \in 1 .. n PROVE After(c, i) \in Pairs /\ After(a, i) = Exchanged(After(c, i))
      OBVIOUS
    <2>1. CASE i = n
      <3>1. 1 \in 1 .. n /\ After(c, i) = c[1] /\ After(a, i) = a[1] BY <1>1, <1>4, <2>1 DEF After
      <3>2. QED BY <1>4, <1>5, <3>1
    <2>2. CASE i # n
      <3>1. i + 1 \in 1 .. n /\ After(c, i) = c[i + 1] /\ After(a, i) = a[i + 1] BY <1>1, <1>4, <2>2 DEF After
      <3>2. QED BY <1>4, <1>5, <3>1
    <2>3. QED BY <2>1, <2>2
  <1>7. \A i, j \in 1 .. n : a[i] = a[j] => i = j BY <1>2, <1>4, <1>5, ExchangedApart
  <1>8. Round(a) BY <1>1, <1>4, <1>7 DEF Round
  <1>9. \A s : s \in Sides(c) <=> \E i \in 1 .. n : s = <<c[i], After(c, i)>> /\ c[i] # After(c, i)
    BY <1>1, <1>2, SidesAre
  <1>10. \A s : s \in Sides(a) <=> \E i \in 1 .. n : s = <<a[i], After(a, i)>> /\ a[i] # After(a, i)
    BY <1>4, SidesAre
  <1>11. ASSUME NEW s \in Sides(a) PROVE \E t \in Sides(c) : s = <<Exchanged(t[1]), Exchanged(t[2])>>
    <2>1. PICK i \in 1 .. n : s = <<a[i], After(a, i)>> BY <1>10, <1>11
    <2>2. PICK t \in Sides(c) : t = <<c[i], After(c, i)>> BY <1>1, RoundSides, Zenon
    <2>3. t[1] = c[i] /\ t[2] = After(c, i) BY <2>2
    <2>4. s = <<Exchanged(t[1]), Exchanged(t[2])>> BY <1>4, <1>6, <2>1, <2>3
    <2>5. QED BY <2>4
  <1>12. ASSUME NEW t \in Sides(c) PROVE <<Exchanged(t[1]), Exchanged(t[2])>> \in Sides(a)
    <2>1. PICK i \in 1 .. n : t = <<c[i], After(c, i)>> BY <1>9, <1>12
    <2>2. t[1] = c[i] /\ t[2] = After(c, i) BY <2>1
    <2>3. <<a[i], After(a, i)>> \in Sides(a) BY <1>4, <1>8, RoundSides
    <2>4. QED BY <1>4, <1>6, <2>2, <2>3
  <1>13. QED BY <1>3, <1>8, <1>11, <1>12
\* A ring whose shape is simple is one that passes no corner twice,
LEMMA SimpleRound ==
  ASSUME NEW r \in Seq(Pairs), r # <<>>, Simple(Polygon(r))
  PROVE  Round(Outline(r)) /\ Sides(Outline(r)) = Sides(r)
  <1>1. PICK c : c = Outline(r) OBVIOUS
  <1>2. c \in Seq(Pairs) BY <1>1, OutlineTurned
  <1>3. Polygon(r).kind = "polygon" /\ Polygon(r).ring = r BY DEF Polygon
  <1>4. Len(c) > 1 /\ \A i, j \in DOMAIN c : c[i] = c[j] => i = j BY <1>1, <1>3 DEF Simple, Outline
  <1>5. DOMAIN c = 1 .. Len(c) /\ Len(c) \in Nat BY <1>2, LenProperties
  <1>6. Round(c) BY <1>2, <1>4, <1>5 DEF Round
  <1>7. c # <<>> BY <1>4, <1>5, EmptySeq
  <1>8. QED BY <1>1, <1>6, <1>7, OutlineSides

\* and what is hashed of it.
LEMMA HashRing ==
  ASSUME NEW r
  PROVE  Hash(Polygon(r)) = Polygon(From(Outline(r), SortIdx(Outline(r))))
  <1>1. Polygon(r).kind = "polygon" /\ Polygon(r).ring = r BY DEF Polygon
  <1>2. ASSUME NEW x PROVE [Polygon(r) EXCEPT !.ring = x] = Polygon(x) BY DEF Polygon
  <1>3. Hash(Polygon(r)) = [Polygon(r) EXCEPT !.ring = From(Outline(r), SortIdx(Outline(r)))]
    BY <1>1 DEF Hash, From, Outline
  <1>4. QED BY <1>2, <1>3, Zenon

\* What is read with its coordinates exchanged.
MisreadAs(from, s) == (from = "cell" /\ s.kind = "polygon") \/ (from = "export" /\ s.kind = "point")

\* The corners that are hashed of a polygon that is stored, whichever way it came
\* in.
LEMMA HashStored ==
  ASSUME NEW r \in Seq(Pairs), r # <<>>, NEW from \in Sources, NEW c,
         c = IF from = "cell" THEN Turned(Outline(r)) ELSE Outline(r)
  PROVE  Hash(Stored(from, Polygon(r))) = Polygon(From(c, SortIdx(c)))
  <1>1. Again(r) \in Seq(Pairs) /\ Again(r) # <<>> BY ClosedRing
  <1>2. Outline(Again(r)) = Outline(r) BY OutlineAgain
  <1>3. Outline(Turned(r)) = Turned(Outline(r)) /\ Outline(Turned(Again(r))) = Turned(Outline(r))
    BY <1>1, <1>2, OutlineTurned
  <1>4. CASE from = "cell"
    <2>1. Stored(from, Polygon(r)) \in {Polygon(Turned(r)), Polygon(Turned(Again(r)))} BY <1>4, StoredPolygon
    <2>2. Hash(Polygon(Turned(r))) = Polygon(From(c, SortIdx(c))) BY <1>3, <1>4, HashRing
    <2>3. Hash(Polygon(Turned(Again(r)))) = Polygon(From(c, SortIdx(c))) BY <1>3, <1>4, HashRing
    <2>4. QED BY <2>1, <2>2, <2>3
  <1>5. CASE from # "cell"
    <2>1. Stored(from, Polygon(r)) \in {Polygon(r), Polygon(Again(r))} BY <1>5, StoredPolygon
    <2>2. Hash(Polygon(r)) = Polygon(From(c, SortIdx(c))) BY <1>5, HashRing
    <2>3. Hash(Polygon(Again(r))) = Polygon(From(c, SortIdx(c))) BY <1>2, <1>5, HashRing
    <2>4. QED BY <2>1, <2>2, <2>3
  <1>6. QED BY <1>4, <1>5

\* Two descriptions that go round the same ground the same way and pass no corner
\* twice have one hash, if both are read as they are said or neither is: however
\* each one comes in, whatever corner its ring starts at, whether it is closed and
\* whatever corners it repeats.
THEOREM HashAlike ==
  ASSUME NEW s \in Shape, NEW t \in Shape, NEW from \in Sources, NEW by \in Sources,
         SameWay(s, t), Simple(s), Simple(t), MisreadAs(from, s) <=> MisreadAs(by, t)
  PROVE  Hash(Stored(from, s)) = Hash(Stored(by, t))
  <1>1. CASE s.kind = "point"
    <2>1. t = s BY <1>1 DEF SameWay
    <2>2. s = Point(s.at, s.radius) /\ s.at \in Pairs /\ s.radius \in Nat BY <1>1, ShapeCases
    <2>3. Stored(from, s) = Point(IF from = "export" THEN Exchanged(s.at) ELSE s.at, s.radius)
      BY <2>2, StoredPoint
    <2>4. Stored(by, s) = Point(IF by = "export" THEN Exchanged(s.at) ELSE s.at, s.radius)
      BY <2>2, StoredPoint
    <2>5. from = "export" <=> by = "export" BY <1>1, <2>1 DEF MisreadAs
    <2>6. QED BY <2>1, <2>3, <2>4, <2>5
  <1>2. CASE s.kind # "point"
    <2>1. s.kind = "polygon" /\ s = Polygon(s.ring) /\ s.ring \in Seq(Pairs) /\ s.ring # <<>> BY <1>2, ShapeCases
    <2>2. t.kind = "polygon" /\ Sides(s.ring) = Sides(t.ring) BY <1>2, <2>1 DEF SameWay
    <2>3. t = Polygon(t.ring) /\ t.ring \in Seq(Pairs) /\ t.ring # <<>> BY <2>2, ShapeCases
    <2>4. PICK c : c = Outline(s.ring) OBVIOUS
    <2>5. PICK d : d = Outline(t.ring) OBVIOUS
    <2>6. Round(c) /\ Round(d) /\ Sides(c) = Sides(d) BY <2>1, <2>2, <2>3, <2>4, <2>5, SimpleRound
    <2>7. from = "cell" <=> by = "cell" BY <2>1, <2>2 DEF MisreadAs
    <2>8. CASE from = "cell"
      <3>1. Round(Turned(c)) /\ Round(Turned(d)) /\ Sides(Turned(c)) = Sides(Turned(d))
        <4>1. \A x : x \in Sides(Turned(c)) <=> x \in Sides(Turned(d)) BY <2>6, TurnedSides
        <4>2. Sides(Turned(c)) = Sides(Turned(d)) BY <4>1 DEF Sides
        <4>3. QED BY <2>6, <4>2, TurnedSides
      <3>2. From(Turned(c), SortIdx(Turned(c))) = From(Turned(d), SortIdx(Turned(d))) BY <3>1, SortedAlike
      <3>3. Hash(Stored(from, Polygon(s.ring))) = Polygon(From(Turned(c), SortIdx(Turned(c))))
        BY <2>1, <2>4, <2>8, HashStored
      <3>4. Hash(Stored(by, Polygon(t.ring))) = Polygon(From(Turned(d), SortIdx(Turned(d))))
        BY <2>3, <2>5, <2>7, <2>8, HashStored
      <3>5. QED BY <2>1, <2>3, <3>2, <3>3, <3>4
    <2>9. CASE from # "cell"
      <3>1. From(c, SortIdx(c)) = From(d, SortIdx(d)) BY <2>6, SortedAlike
      <3>2. Hash(Stored(from, Polygon(s.ring))) = Polygon(From(c, SortIdx(c))) BY <2>1, <2>4, <2>9, HashStored
      <3>3. Hash(Stored(by, Polygon(t.ring))) = Polygon(From(d, SortIdx(d))) BY <2>3, <2>5, <2>7, <2>9, HashStored
      <3>4. QED BY <2>1, <2>3, <3>1, <3>2, <3>3
    <2>10. QED BY <2>8, <2>9
  <1>3. QED BY <1>1, <1>2
====
