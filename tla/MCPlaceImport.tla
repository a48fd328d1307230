----------------------------- MODULE MCPlaceImport -----------------------------
(* Instances of PlaceImport: a triangle, which may be told from another corner *)
(* or the other way round, another triangle and a point.                       *)
EXTENDS PlaceImport, TLC

CONSTANTS h1, h2, r1, r2

Tri      == Polygon(<<<<1, 2>>, <<3, 1>>, <<2, 4>>>>)
TriTurned == Polygon(<<<<3, 1>>, <<2, 4>>, <<1, 2>>, <<3, 1>>>>)
TriBack  == Polygon(<<<<2, 4>>, <<3, 1>>, <<1, 2>>>>)
Other    == Polygon(<<<<5, 2>>, <<7, 1>>, <<6, 4>>>>)
Dot      == Point(<<1, 5>>, 1)

F(from, said) == [from |-> from, said |-> said]
E(cf, said)   == [said |-> said, cf |-> cf]

MCFiles == {
    << <<F("geojson", Tri), F("text", TriTurned)>> >>,
    << <<F("cell", Dot)>>, <<F("cell", Tri)>> >>,
    << <<F("export", Dot)>> >> }

R(entries, partner) == [entries |-> entries, partner |-> partner]
MCRequests == {
    R(<<E(0, Tri)>>, FALSE),
    R(<<E(0, TriBack), E(0, Dot)>>, FALSE),
    R(<<E(1, Dot)>>, TRUE),
    R(<<E(1, Tri)>>, TRUE) }

MCBudgets == {
    [reports |-> {r1}, tasks |-> 2, together |-> 2, events |-> 1],
    [reports |-> {r1, r2}, tasks |-> 2, together |-> 1, events |-> 1],
    [reports |-> {r1, r2}, tasks |-> 3, together |-> 1, events |-> 0] }

Symmetry == Permutations({h1, h2}) \cup Permutations({r1, r2})

MCShapes == {Dot, Other}
================================================================================
