------------------------------- MODULE Geometry -------------------------------
(***************************************************************************)
(* Where a farm lies, as users describe it and as the service stores it: a *)
(* point with a radius or the ring of a polygon, each corner a pair of     *)
(* latitude and longitude.  GeoJSON has its pairs the other way round, and *)
(* every format that is read or written is converted by code of its own.   *)
(* Coordinates are small numbers: their six digits are not modelled, nor   *)
(* geometries of several parts (of which the first one counts).  A radius  *)
(* that the service computes from an area is taken to be the one given.    *)
(***************************************************************************)
EXTENDS Integers, FiniteSets, SequencesExt

Pairs == Int \X Int
Shape == [kind : {"point"}, at : Pairs, radius : Nat]
         \cup [kind : {"polygon"}, ring : Seq(Pairs) \ {<<>>}]

Point(at, radius) == [at |-> at, kind |-> "point", radius |-> radius]
Polygon(ring) == [kind |-> "polygon", ring |-> ring]

Exchanged(pair) == <<pair[2], pair[1]>>
ExchangedIn(shape) ==
    IF shape.kind = "point"
    THEN [shape EXCEPT !.at = Exchanged(@)]
    ELSE [shape EXCEPT !.ring = [i \in DOMAIN @ |-> Exchanged(@[i])]]

Closed(ring) == IF Head(ring) = Last(ring) THEN ring ELSE Append(ring, Head(ring))
ClosedIn(shape) ==
    IF shape.kind = "point" THEN shape ELSE [shape EXCEPT !.ring = Closed(@)]

-----------------------------------------------------------------------------
(* Formats that are read and written *)

\* A GeoJSON file says longitude first, and so do the files the conversion of
\* a CSV or Excel file makes of coordinates written out.
ToGeoJson(shape) == ExchangedIn(shape)

\* Cells that hold JSON: a point is turned round, a polygon is taken as it is.
CellToGeoJson(shape) ==
    IF shape.kind = "point" THEN ExchangedIn(shape) ELSE ClosedIn(shape)

\* Cells that hold degrees with or without the letters N, S, E and W.
TextToGeoJson(shape) == ClosedIn(ExchangedIn(shape))

\* The file of the places of an organization: a polygon is turned round, a
\* point is written as it is stored.
ExportToGeoJson(shape) ==
    IF shape.kind = "point" THEN shape
    ELSE [shape EXCEPT !.ring = Append(ExchangedIn(shape).ring, Exchanged(Head(@)))]

\* what the import of a GeoJSON feature stores
FromGeoJson(shape) == ExchangedIn(shape)

Sources == {"geojson", "cell", "text", "export", "manual"}

Stored(source, shape) ==
    CASE source = "geojson" -> FromGeoJson(ToGeoJson(shape))
      [] source = "cell"    -> FromGeoJson(CellToGeoJson(shape))
      [] source = "text"    -> FromGeoJson(TextToGeoJson(shape))
      [] source = "export"  -> FromGeoJson(ExportToGeoJson(shape))
      [] source = "manual"  -> shape

-----------------------------------------------------------------------------
(* getCoordinateHash: what is hashed, which two geometries share if and only *)
(* if they have the same hash *)

MinOf(S)     == CHOOSE n \in S : \A k \in S : n <= k
MaxOf(S)     == CHOOSE n \in S : \A k \in S : k <= n

\* the numbers of a set in their order, and the members of a sequence there
InOrder(S)   == [n \in 1 .. Cardinality(S) |-> CHOOSE x \in S : Cardinality({y \in S : y <= x}) = n]
Picked(s, I) == [n \in 1 .. Cardinality(I) |-> s[InOrder(I)[n]]]

WithoutRepeats(ring) == Picked(ring, {i \in DOMAIN ring : i = 1 \/ ring[i] # ring[i - 1]})

Opened(ring) == IF Head(ring) = Last(ring) THEN Front(ring) ELSE ring

\* a point, or a ring of two corners or more that passes none twice
Simple(shape) ==
    shape.kind = "polygon" =>
        LET ring == Opened(WithoutRepeats(shape.ring))
        IN  Len(ring) > 1 /\ \A i, j \in DOMAIN ring : ring[i] = ring[j] => i = j

\* longitude first
Before(p, q) == p[2] < q[2] \/ (p[2] = q[2] /\ p[1] < q[1])

\* Mutated: the ring starts where the user has started it.
FirstIdx(ring) == 1

SortIdx(ring) ==
    CHOOSE i \in DOMAIN ring :
        /\ \A j \in DOMAIN ring : ~Before(ring[j], ring[i])
        /\ \A j \in 1 .. i - 1 : Before(ring[i], ring[j])

Hash(shape) ==
    IF shape.kind = "point" THEN shape
    ELSE LET ring  == Opened(WithoutRepeats(shape.ring))
             first == SortIdx(ring)
         IN  [shape EXCEPT !.ring = SubSeq(ring, first, Len(ring)) \o SubSeq(ring, 1, first - 1)]

-----------------------------------------------------------------------------
(* The ground a description means, whatever corner a ring starts at and
   whether it is closed *)

Sides(ring) ==
    LET n == Len(ring)
    IN  {<<ring[i], ring[(i % n) + 1]>> : i \in 1 .. n} \ {<<p, p>> : p \in ToSet(ring)}

SameWay(a, b) ==
    /\ a.kind = b.kind
    /\ IF a.kind = "point" THEN a = b ELSE Sides(a.ring) = Sides(b.ring)

Reversed(shape) ==
    IF shape.kind = "point" THEN shape ELSE [shape EXCEPT !.ring = Reverse(@)]

\* whichever way the ring runs round
SameGround(a, b) == SameWay(a, b) \/ SameWay(a, Reversed(b))
====
