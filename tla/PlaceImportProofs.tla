-------------------------- MODULE PlaceImportProofs --------------------------
(***************************************************************************)
(* Proofs about PlaceImport, for any files, requests and shapes, any        *)
(* reports, slots and bounds.                                              *)
(*                                                                         *)
(* Every step is first described by what it changes (Moves): one predicate *)
(* for each action (LookDone, CreateFarmsDone, ...), free of the sequences  *)
(* the action is written with.  The invariants are proved from those.      *)
(*                                                                         *)
(* TypeCorrect: rows are of their types and refer to rows that exist.  The *)
(* invariant is Sound: so do whoever is at work, and the farms one has      *)
(* added are its own.                                                      *)
(* GroundIsTrue: places lie where the user said last.  The invariant is     *)
(* Ground: who works alone finds what it has read still true.              *)
(* AddedAlwaysShown: what was added is shown.  The invariant is Served:     *)
(* whatever was given is on its way at every step, or shown.               *)
(* GroundShownOnce: no ground is shown twice.  The invariant is Once:      *)
(* whatever is about to be added alone lies at no geofence, and HashAlike   *)
(* of GeometryProofs.                                                      *)
(***************************************************************************)
EXTENDS PlaceImport, GeometryProofs, FiniteSetTheorems, SequenceTheorems, TLAPS

(***************************************************************************)
(* Types                                                                   *)
(***************************************************************************)

Hashes    == {Hash(s) : s \in Shape}
Fates     == {"half", "crossed", "moved", "edited", "mixed"}
Kinds     == {"import", "request", "existing"}
FarmRow   == [cf : Nat, deleted : BOOLEAN, said : Shape, from : Sources, fate : SUBSET Fates,
              once : SUBSET Hashes, ids : SUBSET Nat, again : BOOLEAN]
FenceRow  == [farm : Nat, shape : Shape, hash : Hashes, primary : BOOLEAN]
PlaceRow  == [farm : Nat, latest : Nat, left : BOOLEAN, raced : BOOLEAN]
LinkRow   == [report : Reports, place : Nat, farm : Nat, fence : Nat, removed : BOOLEAN, raced : BOOLEAN]
ItemRow   == [from : Sources, said : Shape, cf : Nat, hash : Hashes, shape : Shape]
Items     == {x \in ItemRow : x.shape = Stored(x.from, x.said) /\ x.hash = Hash(x.shape)}
MatchRow  == [id : Nat, hash : Hashes, farm : Nat]
ChangeRow == [place : Nat, farm : Nat, cf : Nat, shape : Shape, said : Shape]
LinksOf   == UNION {[P -> Nat] : P \in SUBSET Nat}
WorkRow   == [at : Stages, kind : Kinds, report : Reports, todo : Seq(Seq(Items)), rest : Seq(Items),
              matched : SUBSET MatchRow, changes : SUBSET ChangeRow, moved : Nat, mine : Seq(Nat),
              payload : SUBSET Nat, places : SUBSET Nat, links : LinksOf, partner : BOOLEAN,
              raced : BOOLEAN, entries : SUBSET Items]
DoneRow   == [at : {"done"}, report : Reports, entries : SUBSET Items]

\* What a slot holds: a row of work, nothing, or what has ended.
TypeW(x) == IF x.at \notin {"idle", "done"} THEN x \in WorkRow ELSE x = Idle \/ x \in DoneRow

\* Every row is of its kind.
Types ==
    /\ farm \in Seq(FarmRow) /\ fence \in Seq(FenceRow) /\ place \in Seq(PlaceRow) /\ link \in Seq(LinkRow)
    /\ DOMAIN work = Slots
    /\ \A h \in Slots : TypeW(work[h])
    /\ left \in [reports : SUBSET Reports, tasks : Nat, together : Nat, events : Nat]

\* A farm has a geofence, a place, or lies or has lain where a hash says.
HasFence(f) == \E g \in DOMAIN fence : fence[g].farm = f
HasPlace(f) == \E p \in DOMAIN place : place[p].farm = f
LaidAt(f, x) == (\E g \in DOMAIN fence : fence[g].farm = f /\ fence[g].hash = x) \/ x \in farm[f].once

\* Rows refer to rows that exist, a farm has had the id it has, and one with
\* geofences has a primary one.
RowRefs ==
    /\ \A g \in DOMAIN fence : fence[g].farm \in DOMAIN farm /\ fence[g].hash = Hash(fence[g].shape)
    /\ \A p \in DOMAIN place :
          /\ place[p].farm \in DOMAIN farm /\ place[p].latest \in DOMAIN fence
          /\ fence[place[p].latest].farm = place[p].farm
    /\ \A n \in DOMAIN link :
          /\ link[n].place \in DOMAIN place /\ place[link[n].place].farm = link[n].farm
          /\ link[n].fence \in DOMAIN fence /\ fence[link[n].fence].farm = link[n].farm
    /\ \A f \in DOMAIN farm : farm[f].cf \in farm[f].ids
    /\ \A f \in DOMAIN farm : HasFence(f) => \E g \in DOMAIN fence : fence[g].farm = f /\ fence[g].primary

\* What work keeps refers to rows that exist.
WorkRefs(w) ==
    /\ \A m \in w.matched : m.id \in DOMAIN fence /\ fence[m.id].farm = m.farm /\ LaidAt(m.farm, m.hash)
    /\ \A c \in w.changes : c.place \in DOMAIN place /\ place[c.place].farm = c.farm /\ c.shape = c.said
    /\ w.at \in {"change", "move", "relink"} => w.changes # {} /\ w.kind = "request"
    /\ w.at \in {"move", "relink"} =>
          /\ w.moved \in DOMAIN fence /\ fence[w.moved].farm = Current(w).farm
    /\ w.at = "move" => fence[w.moved].shape = Current(w).shape \/ "mixed" \in farm[Current(w).farm].fate
    /\ w.payload \subseteq DOMAIN fence
    /\ w.places \subseteq DOMAIN place
    /\ \A p \in DOMAIN w.links :
          p \in DOMAIN place /\ w.links[p] \in DOMAIN fence /\ fence[w.links[p]].farm = place[p].farm
    /\ w.kind = "request" => \A b \in DOMAIN w.todo : \A i \in DOMAIN w.todo[b] : w.todo[b][i].from = "manual"
    /\ w.at = "places" => w.kind = "import"
    /\ w.kind = "existing" => w.at \in {"attach", "link"}

\* References of the rows, and of whoever is at work.
Refs == RowRefs /\ \A h \in Slots : Busy(h) => WorkRefs(work[h])


\* An import or a request knows the farms it has added, which are its own, and
\* which of them have their geofence already.
Mine(w) ==
    /\ \A i \in DOMAIN w.mine : w.mine[i] \in DOMAIN farm
    /\ \A i, j \in DOMAIN w.mine : w.mine[i] = w.mine[j] => i = j
    /\ \A i \in DOMAIN w.mine : \A m \in w.matched : m.farm # w.mine[i]
    /\ \A i \in DOMAIN w.mine : \A g \in w.payload : fence[g].farm # w.mine[i]
    /\ w.at \in {"change", "move", "relink", "farms"} => w.mine = <<>>
    /\ w.at = "look" /\ w.kind = "request" => w.mine = <<>>
    /\ w.at = "farms" => w.rest # <<>>
    /\ w.at # "fences" => \A i \in DOMAIN w.mine : HasFence(w.mine[i])
    /\ w.at = "fences" =>
          /\ Len(w.mine) = Len(w.rest)
          /\ \E i \in DOMAIN w.mine : ~HasFence(w.mine[i])
          /\ \A i, j \in DOMAIN w.mine : i < j /\ HasFence(w.mine[j]) => HasFence(w.mine[i])
          /\ \A i \in DOMAIN w.mine :
                IF HasFence(w.mine[i]) THEN LaidAt(w.mine[i], w.rest[i].hash)
                ELSE farm[w.mine[i]].said = w.rest[i].said /\ farm[w.mine[i]].from = w.rest[i].from

\* Two at work never add geofences to one farm.
Apart(h, k) == work[h].at = "fences" /\ work[k].at = "fences" =>
                  \A i \in DOMAIN work[h].mine : \A j \in DOMAIN work[k].mine : work[h].mine[i] # work[k].mine[j]

(***************************************************************************)
(* What one step does                                                      *)
(***************************************************************************)

\* The rows of a table and the numbers of them.
LEMMA RowsOf ==
  ASSUME Types
  PROVE  /\ DOMAIN farm = 1 .. Len(farm) /\ Len(farm) \in Nat /\ \A f \in DOMAIN farm : farm[f] \in FarmRow
         /\ DOMAIN fence = 1 .. Len(fence) /\ Len(fence) \in Nat /\ \A g \in DOMAIN fence : fence[g] \in FenceRow
         /\ DOMAIN place = 1 .. Len(place) /\ Len(place) \in Nat /\ \A p \in DOMAIN place : place[p] \in PlaceRow
         /\ DOMAIN link = 1 .. Len(link) /\ Len(link) \in Nat /\ \A n \in DOMAIN link : link[n] \in LinkRow
  BY LenProperties, ElementOfSeq DEF Types

\* An import or a request at work has all its fields.
LEMMA BusyRow ==
  ASSUME Types, NEW h \in Slots, Busy(h)
  PROVE  work[h] \in WorkRow
  BY DEF Types, TypeW, Busy

\* The fields of an import or a request at work.
LEMMA WorkFields ==
  ASSUME NEW w \in WorkRow
  PROVE  /\ w.at \in Stages /\ w.kind \in Kinds /\ w.report \in Reports /\ w.todo \in Seq(Seq(Items))
         /\ w.rest \in Seq(Items) /\ w.matched \in SUBSET MatchRow /\ w.changes \in SUBSET ChangeRow
         /\ w.moved \in Nat /\ w.mine \in Seq(Nat) /\ w.payload \in SUBSET Nat /\ w.places \in SUBSET Nat
         /\ w.links \in LinksOf /\ w.partner \in BOOLEAN /\ w.raced \in BOOLEAN /\ w.entries \in SUBSET Items
  BY DEF WorkRow

\* The change at hand is one of those to make.
LEMMA CurrentIs ==
  ASSUME Types, Refs, NEW h \in Slots, Busy(h), work[h].changes # {}
  PROVE  /\ Current(work[h]) \in work[h].changes
         /\ Current(work[h]) \in ChangeRow
         /\ Current(work[h]).place \in DOMAIN place
         /\ place[Current(work[h]).place].farm = Current(work[h]).farm
         /\ Current(work[h]).farm \in DOMAIN farm
         /\ Current(work[h]).shape = Current(work[h]).said
         /\ HasPlace(Current(work[h]).farm) /\ HasFence(Current(work[h]).farm)
  <1> DEFINE w == work[h]
             S == {c.place : c \in w.changes}
  <1>1. w \in WorkRow /\ WorkRefs(w) /\ RowRefs BY BusyRow DEF Refs
  <1>2. DOMAIN place = 1 .. Len(place) /\ Len(place) \in Nat BY RowsOf
  <1>3. S \in SUBSET (1 .. Len(place)) /\ S # {} BY <1>1, <1>2 DEF WorkRefs
  <1>4. MinOf(S) \in S /\ \A k \in S : MinOf(S) <= k BY <1>2, <1>3, MinMaxRows, Zenon
  <1>5. \E c \in w.changes : \A d \in w.changes : c.place <= d.place BY <1>4, Zenon
  <1>6. Current(w) \in w.changes BY <1>5 DEF Current
  <1>7. Current(w) \in ChangeRow BY <1>1, <1>6, WorkFields
  <1>8. /\ Current(w).place \in DOMAIN place /\ place[Current(w).place].farm = Current(w).farm
        /\ Current(w).shape = Current(w).said
    BY <1>1, <1>6 DEF WorkRefs
  <1>9. Current(w).farm \in DOMAIN farm /\ HasPlace(Current(w).farm) /\ HasFence(Current(w).farm)
    BY <1>1, <1>8 DEF RowRefs, HasPlace, HasFence
  <1>10. QED BY <1>6, <1>7, <1>8, <1>9

\* The others stay as they are.
Only(h) == DOMAIN work' = Slots /\ \A k \in Slots \ {h} : work'[k] = work[k]

\* What Goes does to the one that moves and to the others.
LEMMA GoesTo ==
  ASSUME Types, NEW h \in Slots, NEW v, Goes(h, v)
  PROVE  /\ Only(h)
         /\ v.at # "done" => work'[h] = v
         /\ v.at = "done" => work'[h] = [at |-> "done", report |-> v.report, entries |-> v.entries]
  BY DEF Types, Goes, Only

\* The types of the work, when one moves.
LEMMA TypesOnly ==
  ASSUME Types, NEW h \in Slots, Only(h), TypeW(work'[h]), left' = left,
         farm' \in Seq(FarmRow), fence' \in Seq(FenceRow), place' \in Seq(PlaceRow), link' \in Seq(LinkRow)
  PROVE  Types'
  <1>1. \A k \in Slots : TypeW(work'[k]) BY Zenon DEF Types, Only
  <1>2. QED BY <1>1 DEF Types, Only, TypeW

\* What no step of an import or a request changes.
Base(v, w) == /\ v.kind = w.kind /\ v.report = w.report /\ v.partner = w.partner
              /\ v.raced = w.raced /\ v.entries = w.entries

\* The batch at hand is the first one of those that are left.
LEMMA BatchIs ==
  ASSUME Types, NEW h \in Slots, Busy(h)
  PROVE  /\ Batch(h) \in Seq(Items)
         /\ work[h].todo = <<>> => Batch(h) = <<>>
         /\ work[h].todo # <<>> => Batch(h) = work[h].todo[1] /\ 1 \in DOMAIN work[h].todo
  <1>1. work[h].todo \in Seq(Seq(Items)) BY BusyRow, WorkFields
  <1>2. PICK t \in Seq(Seq(Items)) : t = work[h].todo BY <1>1
  <1>3. CASE t = <<>> BY <1>2, <1>3, EmptySeq DEF Batch
  <1>4. CASE t # <<>>
    <2>1. Len(t) \in Nat \ {0} BY <1>4, EmptySeq
    <2>2. Head(t) = t[1] /\ 1 \in DOMAIN t /\ t[1] \in Seq(Items) BY <2>1, ElementOfSeq, LenProperties
    <2>3. QED BY <1>2, <1>4, <2>2 DEF Batch
  <1>5. QED BY <1>3, <1>4

\* Look: what an import finds, and what is left to be added.
LookDone(h) ==
    LET w == work[h]
        v == work'[h]
        b == Batch(h)
    IN  /\ w \in WorkRow /\ w.at = "look" /\ w.kind = "import"
        /\ v \in WorkRow /\ Base(v, w) /\ v.todo = w.todo /\ v.changes = w.changes /\ v.moved = w.moved
        /\ v.payload = w.payload /\ v.links = w.links
        /\ v.at = (IF v.rest = <<>> THEN "places" ELSE "farms") /\ v.mine = <<>> /\ v.places = {}
        /\ \A i \in DOMAIN v.rest : \E k \in DOMAIN b : v.rest[i] = b[k] /\ \A g \in DOMAIN fence : fence[g].hash # b[k].hash
        /\ \A k \in DOMAIN b : (\E i \in DOMAIN v.rest : v.rest[i] = b[k]) \/ \E m \in v.matched : m.hash = b[k].hash
        /\ \A m \in v.matched : m.id \in DOMAIN fence /\ m.farm = fence[m.id].farm /\ m.hash = fence[m.id].hash

\* Look does what LookDone says, and leaves everything of its kind.
LEMMA LookStep ==
  ASSUME Types, NEW h \in Slots, Look(h)
  PROVE  LookDone(h) /\ Only(h) /\ UNCHANGED <<rows, left>> /\ Types'
  <1> DEFINE w == work[h]
             b == Batch(h)
             found == {g \in DOMAIN fence : HashOf(g) \in HashesIn(b)}
             Known(x) == \E g \in found : HashOf(g) = x.hash
             I == {i \in DOMAIN b : ~Known(b[i])}
             rest == Picked(b, I)
             mt == {[id |-> g, hash |-> HashOf(g), farm |-> fence[g].farm] : g \in found}
             a == IF rest = <<>> THEN "places" ELSE "farms"
             v == [w EXCEPT !.at = a, !.rest = rest, !.mine = <<>>, !.places = {}, !.matched = mt]
  <1>1. w.at = "look" /\ w.kind = "import" /\ UNCHANGED <<rows, left>> BY DEF Look
  <1>2. Goes(h, v) BY DEF Look
  <1>3. Busy(h) BY <1>1 DEF Busy
  <1>4. w \in WorkRow /\ b \in Seq(Items) BY <1>3, BusyRow, BatchIs
  <1>5. I \in SUBSET (DOMAIN b) OBVIOUS
  <1>6. /\ rest \in Seq(Items)
        /\ \A n \in DOMAIN rest : \E i \in I : rest[n] = b[i]
        /\ \A i \in I : \E n \in DOMAIN rest : rest[n] = b[i]
    <2> HIDE DEF I
    <2> QED BY <1>4, <1>5, PickedIs
  <1>7. mt \in SUBSET MatchRow
    <2>1. \A g \in found : fence[g] \in FenceRow /\ g \in Nat BY RowsOf
    <2>2. \A g \in found : [id |-> g, hash |-> HashOf(g), farm |-> fence[g].farm] \in MatchRow
      BY <2>1 DEF FenceRow, MatchRow, HashOf
    <2>3. QED BY <2>2
  <1>8. a \in Stages /\ a # "done" /\ a # "idle" BY DEF Stages
  <1>9. PICK r \in Seq(Items), m \in SUBSET MatchRow, at \in Stages : r = rest /\ m = mt /\ at = a
    BY <1>6, <1>7, <1>8, Zenon
  <1>10. /\ v \in WorkRow /\ Base(v, w) /\ v.todo = w.todo /\ v.changes = w.changes /\ v.moved = w.moved
         /\ v.payload = w.payload /\ v.links = w.links /\ v.at = a /\ v.rest = rest /\ v.mine = <<>>
         /\ v.places = {} /\ v.matched = mt
    <2>1. v = [w EXCEPT !.at = at, !.rest = r, !.mine = <<>>, !.places = {}, !.matched = m] BY <1>9
    <2> HIDE DEF v, w, rest, mt, a
    <2>2. v \in WorkRow BY <1>4, <2>1, EmptySeq, Zenon DEF WorkRow
    <2>3. /\ Base(v, w) /\ v.todo = w.todo /\ v.changes = w.changes /\ v.moved = w.moved
          /\ v.payload = w.payload /\ v.links = w.links /\ v.at = at /\ v.rest = r /\ v.mine = <<>>
          /\ v.places = {} /\ v.matched = m
      BY <1>4, <2>1 DEF WorkRow, Base
    <2>4. QED BY <1>9, <2>2, <2>3
  <1>11. Only(h) /\ work'[h] = v
    <2> HIDE DEF v
    <2> QED BY <1>2, <1>8, <1>10, GoesTo, Zenon
  <1>12. \A x \in mt : x.id \in DOMAIN fence /\ x.farm = fence[x.id].farm /\ x.hash = fence[x.id].hash
    BY DEF HashOf
  <1>13. \A i \in I : \A g \in DOMAIN fence : fence[g].hash # b[i].hash BY DEF HashOf, HashesIn
  <1>14. ASSUME NEW k \in DOMAIN b, k \notin I PROVE \E x \in mt : x.hash = b[k].hash
    <2>1. PICK g \in found : HashOf(g) = b[k].hash BY <1>14
    <2>2. [id |-> g, hash |-> HashOf(g), farm |-> fence[g].farm] \in mt OBVIOUS
    <2>3. QED BY <2>1, <2>2
  <1>15. TypeW(work'[h])
    <2> HIDE DEF v
    <2> QED BY <1>8, <1>10, <1>11 DEF TypeW
  <1>16. Types' BY <1>1, <1>11, <1>15, TypesOnly DEF Types, rows
  <1>17. LookDone(h)
    <2> HIDE DEF I, rest, mt, v
    <2>1. \A i \in DOMAIN rest : \E k \in DOMAIN b : rest[i] = b[k] /\ \A g \in DOMAIN fence : fence[g].hash # b[k].hash
      BY <1>5, <1>6, <1>13
    <2>2. \A k \in DOMAIN b : (\E i \in DOMAIN rest : rest[i] = b[k]) \/ \E x \in mt : x.hash = b[k].hash
      BY <1>6, <1>14
    <2>3. QED BY <1>1, <1>4, <1>10, <1>11, <1>12, <2>1, <2>2 DEF LookDone
  <1>18. QED BY <1>1, <1>11, <1>16, <1>17

\* The farms found by the ids of entries.
LEMMA FarmsFoundIs ==
  ASSUME Types, NEW b \in Seq(Items)
  PROVE  FarmsFound(b) \in SUBSET (DOMAIN farm)
  <1>1. DOMAIN farm = 1 .. Len(farm) /\ Len(farm) \in Nat BY RowsOf
  <1>2. ASSUME NEW f \in FarmsFound(b) PROVE f \in DOMAIN farm
    <2>1. PICK c : /\ {k \in DOMAIN farm : farm[k].cf = c} # {}
                   /\ f = MinOf({k \in DOMAIN farm : farm[k].cf = c})
      BY <1>2, Zenon DEF FarmsFound
    <2>2. {k \in DOMAIN farm : farm[k].cf = c} \in SUBSET (1 .. Len(farm)) BY <1>1
    <2>3. f \in {k \in DOMAIN farm : farm[k].cf = c} BY <1>1, <2>1, <2>2, MinMaxRows, Zenon
    <2>4. QED BY <2>3
  <1>3. QED BY <1>2

\* Of the geofences found the newest of each hash.
LEMMA NewestIs ==
  ASSUME Types, NEW G \in SUBSET (DOMAIN fence)
  PROVE  /\ Newest(G) \in SUBSET G
         /\ \A g \in G : \E k \in Newest(G) : HashOf(k) = HashOf(g)
  <1>1. DOMAIN fence = 1 .. Len(fence) /\ Len(fence) \in Nat BY RowsOf
  <1>2. Newest(G) \in SUBSET G BY DEF Newest
  <1>3. ASSUME NEW g \in G PROVE \E k \in Newest(G) : HashOf(k) = HashOf(g)
    <2> DEFINE L == {k \in G : HashOf(k) = HashOf(g)}
    <2>1. L \in SUBSET (1 .. Len(fence)) /\ L # {} BY <1>1
    <2>2. MaxOf(L) \in L /\ \A k \in L : k <= MaxOf(L) BY <1>1, <2>1, MinMaxRows, Zenon
    <2>3. MaxOf(L) \in G /\ HashOf(MaxOf(L)) = HashOf(g) BY <2>2
    <2>4. MaxOf(L) \in Newest(G) BY <2>2, <2>3 DEF Newest
    <2>5. QED BY <2>3, <2>4
  <1>4. QED BY <1>2, <1>3

\* The entry that is taken for a farm is the last one with its id.
LEMMA NamedIs ==
  ASSUME NEW b \in Seq(Items), NEW f, NEW i \in DOMAIN b, b[i].cf = farm[f].cf
  PROVE  \E j \in Named(b, f) : j \in DOMAIN b /\ b[j].cf = farm[f].cf
  <1> DEFINE L == {k \in DOMAIN b : b[k].cf = farm[f].cf}
  <1>1. DOMAIN b = 1 .. Len(b) /\ Len(b) \in Nat BY LenProperties
  <1>2. L \in SUBSET (1 .. Len(b)) /\ L # {} BY <1>1
  <1>3. MaxOf(L) \in L /\ \A k \in L : k <= MaxOf(L) BY <1>1, <1>2, MinMaxRows, Zenon
  <1>4. PICK j \in L : \A k \in L : k <= j BY <1>3
  <1>5. j \in DOMAIN b /\ b[j].cf = farm[f].cf /\ j \in Nat BY <1>1
  <1>6. ASSUME NEW k \in j + 1 .. Len(b) PROVE b[k].cf # b[j].cf
    <2>1. k \in 1 .. Len(b) /\ ~(k <= j) BY <1>1, <1>5
    <2>2. QED BY <1>1, <1>4, <1>5, <2>1
  <1>7. j \in Named(b, f) BY <1>5, <1>6 DEF Named
  <1>8. QED BY <1>5, <1>7

\* A change is about a place that is known and says what an entry says.
LEMMA ChangesAre ==
  ASSUME Types, RowRefs, NEW b \in Seq(Items), NEW G \in SUBSET (DOMAIN fence), NEW P \in SUBSET (DOMAIN place)
  PROVE  /\ ChangesOf(b, G, P) \in SUBSET ChangeRow
         /\ \A c \in ChangesOf(b, G, P) :
               /\ c.place \in P /\ c.farm = place[c.place].farm
               /\ \E i \in DOMAIN b : c.cf = b[i].cf /\ c.shape = b[i].shape /\ c.said = b[i].said
         /\ \A p \in P : \A i \in Named(b, place[p].farm) :
               \/ b[i].hash = HashOf(MaxOf({g \in G : fence[g].farm = place[p].farm}))
               \/ \E c \in ChangesOf(b, G, P) : c.farm = place[p].farm /\ c.shape = b[i].shape
  <1> DEFINE FenceOf(p) == MaxOf({g \in G : fence[g].farm = Latest(p).farm})
             Row(p, i) == [place |-> p, farm |-> Latest(p).farm, cf |-> b[i].cf, shape |-> b[i].shape, said |-> b[i].said]
             Said(p) == {i \in Named(b, Latest(p).farm) : b[i].hash # HashOf(FenceOf(p))}
  <1>1. \A p \in P : Latest(p).farm = place[p].farm BY DEF RowRefs, Latest
  <1>2. ChangesOf(b, G, P) = UNION {{Row(p, i) : i \in Said(p)} : p \in P} BY DEF ChangesOf
  <1>3. \A p \in P : Said(p) \in SUBSET (DOMAIN b) BY DEF Named
  <1>4. ASSUME NEW p \in P, NEW i \in DOMAIN b
        PROVE  Row(p, i) \in ChangeRow
    <2>1. b[i] \in ItemRow BY LenProperties, ElementOfSeq DEF Items
    <2>2. place[p] \in PlaceRow /\ p \in Nat /\ Latest(p).farm = place[p].farm BY <1>1, RowsOf
    <2>3. QED BY <2>1, <2>2 DEF ItemRow, PlaceRow, ChangeRow
  <1>5. ChangesOf(b, G, P) \in SUBSET ChangeRow
    <2> HIDE DEF Row, Said
    <2> QED BY <1>2, <1>3, <1>4
  <1>6. ASSUME NEW c \in ChangesOf(b, G, P)
        PROVE  /\ c.place \in P /\ c.farm = place[c.place].farm
               /\ \E i \in DOMAIN b : c.cf = b[i].cf /\ c.shape = b[i].shape /\ c.said = b[i].said
    <2>1. PICK p \in P : c \in {Row(p, i) : i \in Said(p)} BY <1>2, Zenon
    <2>2. PICK i \in DOMAIN b : c = Row(p, i) BY <1>3, <2>1, Zenon
    <2>3. QED BY <1>1, <2>1, <2>2
  <1>7. ASSUME NEW p \in P, NEW i \in Named(b, place[p].farm),
               b[i].hash # HashOf(MaxOf({g \in G : fence[g].farm = place[p].farm}))
        PROVE  \E c \in ChangesOf(b, G, P) : c.farm = place[p].farm /\ c.shape = b[i].shape
    <2>1. Latest(p).farm = place[p].farm BY <1>1
    <2>2. i \in Said(p) BY <1>7, <2>1
    <2>3. Row(p, i).farm = place[p].farm /\ Row(p, i).shape = b[i].shape BY <2>1
    <2> HIDE DEF Row, Said
    <2>4. Row(p, i) \in ChangesOf(b, G, P) BY <1>2, <2>2
    <2>5. QED BY <2>3, <2>4
  <1>8. QED BY <1>5, <1>6, <1>7, Zenon

\* LookRequest: what is known of an entry, or that it is left to be added.
EntryFound(h, x) ==
    LET v == work'[h]
        b == Batch(h)
    IN  \/ \E i \in DOMAIN v.rest : v.rest[i] = x
        \/ \E g \in v.payload : LaidAt(fence[g].farm, x.hash) \/ (x.cf # None /\ x.cf \in farm[fence[g].farm].ids)
        \/ \E p \in v.places : LaidAt(place[p].farm, x.hash)
        \/ \E c \in v.changes : Hash(c.shape) = x.hash
        \/ \E f, k \in DOMAIN farm : x.cf # None /\ x.cf \in farm[f].ids /\ f # k /\ \E s : LaidAt(f, s) /\ LaidAt(k, s)
        \/ \E i \in DOMAIN b : x.cf # None /\ b[i].cf = x.cf /\ b[i].hash # x.hash

\* LookRequest: for each entry the request knows what becomes of it.
LookRequestDone(h) ==
    LET w == work[h]
        v == work'[h]
        b == Batch(h)
    IN  /\ w \in WorkRow /\ w.at = "look" /\ w.kind = "request"
        /\ v \in WorkRow /\ Base(v, w) /\ v.todo = w.todo /\ v.moved = w.moved /\ v.mine = w.mine /\ v.links = w.links
        /\ v.at = (IF v.changes # {} THEN "change" ELSE IF v.rest # <<>> THEN "farms" ELSE "create")
        /\ \A i \in DOMAIN v.rest : \E k \in DOMAIN b : v.rest[i] = b[k]
        /\ \A k \in DOMAIN b : \A g \in DOMAIN fence :
              b[k].cf = None /\ fence[g].hash = b[k].hash => \E m \in v.matched : m.hash = b[k].hash
        /\ \A m \in v.matched : m.id \in DOMAIN fence /\ m.farm = fence[m.id].farm /\ m.hash = fence[m.id].hash
        /\ \A c \in v.changes :
              /\ c.place \in DOMAIN place /\ c.farm = place[c.place].farm
              /\ \E i \in DOMAIN b : c.cf = b[i].cf /\ c.shape = b[i].shape /\ c.said = b[i].said
        /\ v.payload \subseteq DOMAIN fence /\ v.places \subseteq DOMAIN place
        /\ \A g \in v.payload : ~HasPlace(fence[g].farm)
        /\ \A k \in DOMAIN b : EntryFound(h, b[k])

\* LookRequest does that.
LEMMA LookRequestStep ==
  ASSUME Types, RowRefs, NEW h \in Slots, LookRequest(h)
  PROVE  LookRequestDone(h) /\ Only(h) /\ UNCHANGED <<rows, left>> /\ Types'
  <1> DEFINE w == work[h]
             b == Batch(h)
             all == FencesFound(b)
             G == Newest(all)
             P == PlacesOf({fence[g].farm : g \in G})
             Known(x) == /\ x.cf # None
                         /\ \/ \E f \in FarmsFound(b) : farm[f].cf = x.cf /\ \E g \in all : fence[g].farm = f
                            \/ \E g \in G : HashOf(g) = x.hash
             I == {i \in DOMAIN b : ~Known(b[i])}
             rest == Picked(b, I)
             changes == ChangesOf(b, G, P)
             mt == {[id |-> g, hash |-> HashOf(g), farm |-> fence[g].farm] : g \in G}
             pay == {g \in G : \A p \in P : place[p].farm # fence[g].farm}
             a == IF changes # {} THEN "change" ELSE IF rest # <<>> THEN "farms" ELSE "create"
             v == [w EXCEPT !.at = a, !.rest = rest, !.changes = changes, !.places = P, !.matched = mt, !.payload = pay]
  <1>1. w.at = "look" /\ w.kind = "request" /\ UNCHANGED <<rows, left>> BY DEF LookRequest
  <1>2. Goes(h, v) BY DEF LookRequest
  <1>3. Busy(h) BY <1>1 DEF Busy
  <1>4. w \in WorkRow /\ b \in Seq(Items) BY <1>3, BusyRow, BatchIs
  <1>5. I \in SUBSET (DOMAIN b) OBVIOUS
  <1>6. /\ rest \in Seq(Items)
        /\ \A n \in DOMAIN rest : \E i \in I : rest[n] = b[i]
        /\ \A i \in I : \E n \in DOMAIN rest : rest[n] = b[i]
    <2> HIDE DEF I
    <2> QED BY <1>4, <1>5, PickedIs
  <1>7. all \in SUBSET (DOMAIN fence) BY DEF FencesFound
  <1>8. G \in SUBSET all /\ \A g \in all : \E k \in G : HashOf(k) = HashOf(g) BY <1>7, NewestIs
  <1>9. P \in SUBSET (DOMAIN place) /\ P \in SUBSET Nat BY RowsOf DEF PlacesOf
  <1>10. pay \in SUBSET (DOMAIN fence) /\ pay \in SUBSET Nat BY <1>7, <1>8, RowsOf
  <1>11. mt \in SUBSET MatchRow
    <2>1. \A g \in G : fence[g] \in FenceRow /\ g \in Nat BY <1>7, <1>8, RowsOf
    <2>2. \A g \in G : [id |-> g, hash |-> HashOf(g), farm |-> fence[g].farm] \in MatchRow
      BY <2>1 DEF FenceRow, MatchRow, HashOf
    <2>3. QED BY <2>2
  <1>12. /\ changes \in SUBSET ChangeRow
         /\ \A c \in changes :
               /\ c.place \in P /\ c.farm = place[c.place].farm
               /\ \E i \in DOMAIN b : c.cf = b[i].cf /\ c.shape = b[i].shape /\ c.said = b[i].said
         /\ \A p \in P : \A i \in Named(b, place[p].farm) :
               \/ b[i].hash = HashOf(MaxOf({g \in G : fence[g].farm = place[p].farm}))
               \/ \E c \in changes : c.farm = place[p].farm /\ c.shape = b[i].shape
    <2>1. G \in SUBSET (DOMAIN fence) BY <1>7, <1>8
    <2> HIDE DEF G, P, b
    <2>2. QED BY <1>4, <1>9, <2>1, ChangesAre, Zenon
  <1>13. a \in Stages /\ a # "done" /\ a # "idle" BY DEF Stages
  <1>14. PICK r \in Seq(Items), m \in SUBSET MatchRow, at \in Stages, ch \in SUBSET ChangeRow, pl \in SUBSET Nat, py \in SUBSET Nat :
            r = rest /\ m = mt /\ at = a /\ ch = changes /\ pl = P /\ py = pay
    BY <1>6, <1>9, <1>10, <1>11, <1>12, <1>13, Zenon
  <1>15. /\ v \in WorkRow /\ Base(v, w) /\ v.todo = w.todo /\ v.moved = w.moved /\ v.mine = w.mine /\ v.links = w.links
         /\ v.at = a /\ v.rest = rest /\ v.changes = changes /\ v.places = P /\ v.matched = mt /\ v.payload = pay
    <2>1. v = [w EXCEPT !.at = at, !.rest = r, !.changes = ch, !.places = pl, !.matched = m, !.payload = py] BY <1>14
    <2> HIDE DEF v, w, rest, mt, a, changes, P, pay
    <2>2. v \in WorkRow BY <1>4, <2>1, Zenon DEF WorkRow
    <2>3. /\ Base(v, w) /\ v.todo = w.todo /\ v.moved = w.moved /\ v.mine = w.mine /\ v.links = w.links
          /\ v.at = at /\ v.rest = r /\ v.changes = ch /\ v.places = pl /\ v.matched = m /\ v.payload = py
      BY <1>4, <2>1 DEF WorkRow, Base
    <2>4. QED BY <1>14, <2>2, <2>3
  <1>16. Only(h) /\ work'[h] = v
    <2> HIDE DEF v
    <2> QED BY <1>2, <1>13, <1>15, GoesTo, Zenon
  <1>17. TypeW(work'[h])
    <2> HIDE DEF v
    <2> QED BY <1>13, <1>15, <1>16 DEF TypeW
  <1>18. Types' BY <1>1, <1>16, <1>17, TypesOnly DEF Types, rows
  <1>19. \A x \in mt : x.id \in DOMAIN fence /\ x.farm = fence[x.id].farm /\ x.hash = fence[x.id].hash
    <2>1. \A g \in G : g \in DOMAIN fence BY <1>7, <1>8
    <2> HIDE DEF G
    <2>2. QED BY <2>1 DEF HashOf
  <1>20. ASSUME NEW g \in all PROVE \E x \in mt : x.hash = fence[g].hash
    <2>1. PICK k \in G : HashOf(k) = HashOf(g) BY <1>8
    <2>2. [id |-> k, hash |-> HashOf(k), farm |-> fence[k].farm] \in mt OBVIOUS
    <2>3. QED BY <2>1, <2>2 DEF HashOf
  <1>21. ASSUME NEW k \in DOMAIN b, NEW g \in DOMAIN fence, b[k].cf = None, fence[g].hash = b[k].hash
         PROVE  \E x \in mt : x.hash = b[k].hash
    <2>1. g \in all BY <1>21 DEF FencesFound, HashOf
    <2> HIDE DEF mt, all
    <2>2. QED BY <1>20, <1>21, <2>1
  <1>22. \A g \in pay : ~HasPlace(fence[g].farm) BY DEF HasPlace, PlacesOf
  <1>23. ASSUME NEW g \in G PROVE g \in pay \/ \E p \in P : place[p].farm = fence[g].farm
    BY Zenon
  <1>24. ASSUME NEW k \in DOMAIN b PROVE EntryFound(h, b[k])
    <2> DEFINE x == b[k]
    <2> SUFFICES EntryFound(h, x) OBVIOUS
    <2>1. x \in Items /\ x.hash = Hash(x.shape) BY <1>4, ElementOfSeq, LenProperties DEF Items
    <2>2. work'[h].rest = rest /\ work'[h].payload = pay /\ work'[h].places = P /\ work'[h].changes = changes
      BY <1>15, <1>16
    <2>3. CASE k \in I
      <3>1. \E i \in DOMAIN rest : rest[i] = x BY <1>6, <2>3, Zenon
      <3>2. \E i \in DOMAIN work'[h].rest : work'[h].rest[i] = x BY <2>2, <3>1, Zenon
      <3> HIDE DEF x
      <3>3. QED BY <3>2, Zenon DEF EntryFound
    <2>4. ASSUME x.cf # None, NEW g \in G, HashOf(g) = x.hash PROVE EntryFound(h, x)
      <3>1. g \in DOMAIN fence BY <1>7, <1>8
      <3>2. LaidAt(fence[g].farm, x.hash) BY <2>4, <3>1 DEF LaidAt, HashOf
      <3>3. g \in pay \/ \E p \in P : place[p].farm = fence[g].farm BY <1>23, Zenon
      <3> HIDE DEF x, P, pay, b
      <3>4. QED BY <2>2, <3>2, <3>3 DEF EntryFound
    <2>5. ASSUME x.cf # None, NEW f \in FarmsFound(b), farm[f].cf = x.cf, NEW g \in all, fence[g].farm = f
          PROVE  EntryFound(h, x)
      <3>1. f \in DOMAIN farm BY <1>4, FarmsFoundIs
      <3>2. x.cf \in farm[f].ids BY <2>5, <3>1 DEF RowRefs
      <3>3. g \in DOMAIN fence BY <1>7
      <3>4. PICK j \in G : HashOf(j) = HashOf(g) BY <1>8
      <3>5. j \in DOMAIN fence /\ fence[j].farm \in DOMAIN farm BY <1>7, <1>8 DEF RowRefs
      <3>6. CASE fence[j].farm # f
        <4>1. LaidAt(f, fence[g].hash) BY <2>5, <3>3 DEF LaidAt
        <4>2. LaidAt(fence[j].farm, fence[g].hash) BY <3>4, <3>5 DEF LaidAt, HashOf
        <4> HIDE DEF x
        <4>3. QED BY <2>5, <3>1, <3>2, <3>5, <3>6, <4>1, <4>2 DEF EntryFound
      <3>7. CASE fence[j].farm = f /\ j \in pay
        <4> HIDE DEF x, pay
        <4>1. QED BY <2>2, <2>5, <3>2, <3>7 DEF EntryFound
      <3>8. ASSUME fence[j].farm = f, NEW p \in P, place[p].farm = f PROVE EntryFound(h, x)
        <4> DEFINE S == {e \in G : fence[e].farm = f}
        <4>1. S \in SUBSET (1 .. Len(fence)) /\ S # {} BY <1>7, <1>8, <3>8, RowsOf, Zenon
        <4>2. MaxOf(S) \in S BY <4>1, MinMaxRows, RowsOf, Zenon
        <4>3. MaxOf(S) \in DOMAIN fence /\ fence[MaxOf(S)].farm = f BY <1>7, <1>8, <4>2
        <4>4. PICK i \in Named(b, f) : i \in DOMAIN b /\ b[i].cf = farm[f].cf BY <1>4, <2>5, NamedIs
        <4>5. b[i] \in Items /\ b[i].hash = Hash(b[i].shape) BY <1>4, <4>4, ElementOfSeq, LenProperties DEF Items
        <4>6. CASE b[i].hash # x.hash BY <2>5, <4>4, <4>6 DEF EntryFound
        <4>7. CASE b[i].hash = x.hash /\ b[i].hash = HashOf(MaxOf(S))
          <5>1. LaidAt(f, x.hash) BY <4>3, <4>7, Zenon DEF LaidAt, HashOf
          <5> HIDE DEF x, P
          <5>2. QED BY <2>2, <3>8, <5>1 DEF EntryFound
        <4>8. CASE b[i].hash = x.hash /\ b[i].hash # HashOf(MaxOf(S))
          <5>1. \E c \in changes : c.shape = b[i].shape
            <6> HIDE DEF changes, P, G, b
            <6> QED BY <1>12, <3>8, <4>4, <4>8
          <5>2. \E c \in changes : Hash(c.shape) = x.hash BY <4>5, <4>8, <5>1, Zenon
          <5> HIDE DEF x, changes
          <5>3. QED BY <2>2, <5>2 DEF EntryFound
        <4>9. QED BY <4>6, <4>7, <4>8
      <3>9. QED
        <4> HIDE DEF G, P, pay, x, all
        <4> QED BY <1>23, <3>6, <3>7, <3>8
    <2>6. CASE k \notin I
      <3>1. Known(x) BY <2>6
      <3>2. x.cf # None BY <3>1
      <3>3. CASE \E g \in G : HashOf(g) = x.hash
        <4> HIDE DEF G, x
        <4> QED BY <2>4, <3>2, <3>3, Zenon
      <3>4. CASE \E f \in FarmsFound(b) : farm[f].cf = x.cf /\ \E g \in all : fence[g].farm = f
        <4> HIDE DEF x, all, b
        <4> QED BY <2>5, <3>2, <3>4, Zenon
      <3>5. QED BY <3>1, <3>3, <3>4
    <2>7. QED BY <2>3, <2>6
  <1>25. LookRequestDone(h)
    <2> HIDE DEF I, rest, mt, v, pay, changes, P, b
    <2>1. \A i \in DOMAIN rest : \E k \in DOMAIN b : rest[i] = b[k] BY <1>5, <1>6
    <2>2. b = Batch(h) BY DEF b
    <2>3. QED BY <1>1, <1>4, <1>9, <1>10, <1>12, <1>15, <1>16, <1>19, <1>21, <1>22, <1>24, <2>1, <2>2 DEF LookRequestDone
  <1>26. QED BY <1>1, <1>16, <1>18, <1>25

\* One row of a table is written.
LEMMA RowWritten ==
  ASSUME NEW T, NEW s \in Seq(T), NEW i \in DOMAIN s, NEW r \in T, NEW t, t = [s EXCEPT ![i] = r]
  PROVE  t \in Seq(T) /\ DOMAIN t = DOMAIN s /\ t[i] = r /\ \A k \in DOMAIN s : k # i => t[k] = s[k]
  <1>1. DOMAIN s = 1 .. Len(s) BY LenProperties
  <1>2. t \in Seq(T) BY <1>1, ExceptSeq
  <1>3. QED BY <1>2

\* One row is added to a table.
LEMMA RowAdded ==
  ASSUME NEW T, NEW s \in Seq(T), NEW r \in T, NEW t, t = Append(s, r)
  PROVE  /\ t \in Seq(T) /\ Len(s) + 1 \notin DOMAIN s /\ DOMAIN t = DOMAIN s \cup {Len(s) + 1}
         /\ t[Len(s) + 1] = r /\ \A k \in DOMAIN s : t[k] = s[k]
  <1>1. DOMAIN s = 1 .. Len(s) /\ Len(s) \in Nat BY LenProperties
  <1>2. t \in Seq(T) /\ Len(t) = Len(s) + 1 BY <1>1
  <1>3. DOMAIN t = 1 .. Len(s) + 1 BY <1>1, <1>2
  <1>4. QED BY <1>1, <1>2, <1>3

\* A new geofence.
LEMMA NewFenceIs ==
  ASSUME NEW f \in Nat, NEW shape \in Shape
  PROVE  /\ NewFence(f, shape) \in FenceRow
         /\ NewFence(f, shape).farm = f /\ NewFence(f, shape).shape = shape
         /\ NewFence(f, shape).hash = Hash(shape) /\ NewFence(f, shape).primary
  BY DEF NewFence, FenceRow, Hashes

\* What a farm keeps for good, whatever is noted of it.
SameFarm(r, s) == /\ r.cf = s.cf /\ r.deleted = s.deleted /\ r.again = s.again /\ r.ids = s.ids

\* Touched notes something of some farms.
LEMMA TouchedIs ==
  ASSUME Types, NEW f \in DOMAIN farm, NEW how \in Fates, farm' = Touched({f}, how)
  PROVE  /\ farm' \in Seq(FarmRow) /\ DOMAIN farm' = DOMAIN farm
         /\ \A k \in DOMAIN farm : k # f => farm'[k] = farm[k]
         /\ SameFarm(farm'[f], farm[f]) /\ farm'[f].said = farm[f].said /\ farm'[f].from = farm[f].from
         /\ farm'[f].once = farm[f].once /\ farm'[f].fate = farm[f].fate \cup {how}
  <1>1. farm[f] \in FarmRow /\ DOMAIN farm = 1 .. Len(farm) /\ Len(farm) \in Nat BY RowsOf
  <1>2. PICK e \in SUBSET Fates : e = farm[f].fate \cup {how} BY <1>1, Zenon DEF FarmRow
  <1>3. PICK r : r = [farm[f] EXCEPT !.fate = e] BY Zenon
  <1>4. r \in FarmRow BY <1>1, <1>3, Zenon DEF FarmRow
  <1>5. SameFarm(r, farm[f]) /\ r.said = farm[f].said /\ r.from = farm[f].from /\ r.once = farm[f].once /\ r.fate = e
    BY <1>1, <1>3 DEF FarmRow, SameFarm
  <1>6. farm' = [k \in DOMAIN farm |-> IF k = f THEN r ELSE farm[k]] BY <1>2, <1>3 DEF Touched
  <1>7. farm' \in [1 .. Len(farm) -> FarmRow] BY <1>1, <1>4, <1>6, RowsOf, Zenon
  <1>8. farm' \in Seq(FarmRow) BY <1>1, <1>7, SeqDef, Zenon
  <1>9. QED BY <1>1, <1>2, <1>5, <1>6, <1>8, Zenon

\* ChangeFence: a geofence more for the farm of the change at hand.
ChangeFenceDone(h) ==
    LET w == work[h]
        v == work'[h]
        c == Current(w)
    IN  /\ w \in WorkRow /\ w.at = "change"
        /\ v \in WorkRow /\ Base(v, w) /\ v.todo = w.todo /\ v.rest = w.rest /\ v.matched = w.matched
        /\ v.changes = w.changes /\ v.mine = w.mine /\ v.payload = w.payload /\ v.places = w.places
        /\ v.links = w.links /\ v.at = "move"
        /\ v.moved \notin DOMAIN fence /\ DOMAIN fence' = DOMAIN fence \cup {v.moved}
        /\ \A g \in DOMAIN fence : fence'[g] = fence[g]
        /\ fence'[v.moved].farm = c.farm /\ fence'[v.moved].shape = c.shape
        /\ fence'[v.moved].hash = Hash(c.shape) /\ fence'[v.moved].primary
        /\ DOMAIN farm' = DOMAIN farm /\ \A f \in DOMAIN farm : f # c.farm => farm'[f] = farm[f]
        /\ SameFarm(farm'[c.farm], farm[c.farm]) /\ farm'[c.farm].said = farm[c.farm].said
        /\ farm'[c.farm].from = farm[c.farm].from /\ farm'[c.farm].once = farm[c.farm].once
        /\ farm'[c.farm].fate = farm[c.farm].fate \cup {"half"}
        /\ UNCHANGED <<place, link, left>>

\* ChangeFence does what ChangeFenceDone says.
LEMMA ChangeFenceStep ==
  ASSUME Types, Refs, NEW h \in Slots, ChangeFence(h)
  PROVE  ChangeFenceDone(h) /\ Only(h) /\ Types'
  <1> DEFINE w == work[h]
             c == Current(w)
             v == [w EXCEPT !.at = "move", !.moved = Len(fence) + 1]
  <1>1. /\ w.at = "change" /\ fence' = Append(fence, NewFence(c.farm, c.shape))
        /\ Goes(h, v) /\ farm' = Touched({c.farm}, "half") /\ UNCHANGED <<place, link, left>>
    BY DEF ChangeFence
  <1>2. Busy(h) /\ w \in WorkRow BY <1>1, BusyRow DEF Busy
  <1>3. w.changes # {} BY <1>1, <1>2 DEF Refs, WorkRefs
  <1>4. c.farm \in DOMAIN farm /\ c \in ChangeRow BY <1>2, <1>3, CurrentIs
  <1>5. c.farm \in Nat /\ c.shape \in Shape BY <1>4 DEF ChangeRow
  <1>6. NewFence(c.farm, c.shape) \in FenceRow BY <1>5, NewFenceIs
  <1>7. fence \in Seq(FenceRow) /\ Len(fence) \in Nat BY RowsOf DEF Types
  <1>8. /\ fence' \in Seq(FenceRow) /\ Len(fence) + 1 \notin DOMAIN fence
        /\ DOMAIN fence' = DOMAIN fence \cup {Len(fence) + 1}
        /\ fence'[Len(fence) + 1] = NewFence(c.farm, c.shape) /\ \A g \in DOMAIN fence : fence'[g] = fence[g]
    BY <1>1, <1>6, <1>7, RowAdded
  <1>9. PICK n \in Nat : n = Len(fence) + 1 BY <1>7
  <1>10. /\ v \in WorkRow /\ Base(v, w) /\ v.todo = w.todo /\ v.rest = w.rest /\ v.matched = w.matched
         /\ v.changes = w.changes /\ v.mine = w.mine /\ v.payload = w.payload /\ v.places = w.places
         /\ v.links = w.links /\ v.at = "move" /\ v.moved = n
    <2>1. v = [w EXCEPT !.at = "move", !.moved = n] BY <1>9
    <2>2. "move" \in Stages BY DEF Stages
    <2> HIDE DEF v, w
    <2>3. v \in WorkRow BY <1>2, <2>1, <2>2, Zenon DEF WorkRow
    <2>4. QED BY <1>2, <2>1, <2>3 DEF WorkRow, Base
  <1>11. Only(h) /\ work'[h] = v
    <2> HIDE DEF v
    <2> QED BY <1>1, <1>10, GoesTo, Zenon
  <1>12. /\ farm' \in Seq(FarmRow) /\ DOMAIN farm' = DOMAIN farm
         /\ \A k \in DOMAIN farm : k # c.farm => farm'[k] = farm[k]
         /\ SameFarm(farm'[c.farm], farm[c.farm]) /\ farm'[c.farm].said = farm[c.farm].said
         /\ farm'[c.farm].from = farm[c.farm].from
         /\ farm'[c.farm].once = farm[c.farm].once /\ farm'[c.farm].fate = farm[c.farm].fate \cup {"half"}
    <2>1. "half" \in Fates BY DEF Fates
    <2> HIDE DEF c
    <2>2. QED BY <1>1, <1>4, <2>1, TouchedIs, Zenon
  <1>13. TypeW(work'[h])
    <2> HIDE DEF v
    <2> QED BY <1>10, <1>11 DEF TypeW
  <1>14. Types' BY <1>1, <1>8, <1>11, <1>12, <1>13, TypesOnly, Zenon DEF Types
  <1>15. ChangeFenceDone(h)
    <2> HIDE DEF v
    <2>1. /\ NewFence(c.farm, c.shape).farm = c.farm /\ NewFence(c.farm, c.shape).shape = c.shape
          /\ NewFence(c.farm, c.shape).hash = Hash(c.shape) /\ NewFence(c.farm, c.shape).primary
      BY <1>5, NewFenceIs
    <2> HIDE DEF c
    <2>2. /\ n \notin DOMAIN fence /\ DOMAIN fence' = DOMAIN fence \cup {n}
          /\ \A g \in DOMAIN fence : fence'[g] = fence[g]
          /\ fence'[n] = NewFence(c.farm, c.shape)
      BY <1>8, <1>9
    <2>3. /\ n \notin DOMAIN fence /\ DOMAIN fence' = DOMAIN fence \cup {n}
          /\ \A g \in DOMAIN fence : fence'[g] = fence[g]
          /\ fence'[n].farm = c.farm /\ fence'[n].shape = c.shape
          /\ fence'[n].hash = Hash(c.shape) /\ fence'[n].primary
      BY <2>1, <2>2
    <2>4. c = Current(work[h]) /\ w = work[h] BY DEF c
    <2>5. QED BY <1>1, <1>2, <1>10, <1>11, <1>12, <2>3, <2>4, Zenon DEF ChangeFenceDone
  <1>16. QED BY <1>11, <1>14, <1>15

\* What a request notes of a farm.
LEMMA ToldIs ==
  ASSUME NEW f \in FarmRow, NEW c \in ChangeRow
  PROVE  /\ Told(f, c) \in FarmRow /\ SameFarm(Told(f, c), f) /\ Told(f, c).once = f.once
         /\ f.fate \cup {"half"} \subseteq Told(f, c).fate
         /\ "crossed" \in Told(f, c).fate \/ Told(f, c).said = c.said
  <1>1. c.said \in Shape BY DEF ChangeRow
  <1>2. CASE c.cf = None
    <2>1. PICK e \in SUBSET Fates : e = f.fate \cup {"half", "crossed"} BY Zenon DEF FarmRow, Fates
    <2>2. PICK r : r = [f EXCEPT !.fate = e] BY Zenon
    <2>3. r \in FarmRow BY <2>2, Zenon DEF FarmRow
    <2>4. SameFarm(r, f) /\ r.once = f.once /\ r.fate = e BY <2>2 DEF FarmRow, SameFarm
    <2>5. Told(f, c) = r BY <1>2, <2>1, <2>2 DEF Told
    <2>6. QED BY <2>1, <2>3, <2>4, <2>5
  <1>3. CASE c.cf # None
    <2>1. PICK e \in SUBSET Fates : e = f.fate \cup {"half"} BY Zenon DEF FarmRow, Fates
    <2>2. PICK s \in Shape : s = c.said BY <1>1
    <2>3. "manual" \in Sources BY DEF Sources
    <2>4. PICK r : r = [f EXCEPT !.said = s, !.from = "manual", !.fate = e] OBVIOUS
    <2>5. r \in FarmRow BY <2>3, <2>4, Zenon DEF FarmRow
    <2>6. SameFarm(r, f) /\ r.once = f.once /\ r.fate = e /\ r.said = s BY <2>4 DEF FarmRow, SameFarm
    <2>7. Told(f, c) = r BY <1>3, <2>1, <2>2, <2>4 DEF Told
    <2>8. QED BY <2>1, <2>2, <2>5, <2>6, <2>7
  <1>4. QED BY <1>2, <1>3

\* ChangePlace: the place of the change at hand moves to the new geofence.
ChangePlaceDone(h) ==
    LET w == work[h]
        v == work'[h]
        c == Current(w)
    IN  /\ w \in WorkRow /\ w.at = "move"
        /\ v \in WorkRow /\ Base(v, w) /\ v.todo = w.todo /\ v.rest = w.rest /\ v.matched = w.matched
        /\ v.changes = w.changes /\ v.mine = w.mine /\ v.payload = w.payload /\ v.places = w.places
        /\ v.links = w.links /\ v.at = "relink" /\ v.moved = w.moved
        /\ DOMAIN place' = DOMAIN place /\ \A p \in DOMAIN place : p # c.place => place'[p] = place[p]
        /\ place'[c.place].farm = place[c.place].farm /\ place'[c.place].left = place[c.place].left
        /\ place'[c.place].raced = place[c.place].raced /\ place'[c.place].latest = w.moved
        /\ DOMAIN farm' = DOMAIN farm /\ \A f \in DOMAIN farm : f # c.farm => farm'[f] = farm[f]
        /\ SameFarm(farm'[c.farm], farm[c.farm]) /\ farm'[c.farm].once = farm[c.farm].once
        /\ farm[c.farm].fate \cup {"half"} \subseteq farm'[c.farm].fate
        /\ "crossed" \in farm'[c.farm].fate \/ farm'[c.farm].said = c.said
        /\ UNCHANGED <<fence, link, left>>

\* ChangePlace does what ChangePlaceDone says.
LEMMA ChangePlaceStep ==
  ASSUME Types, Refs, NEW h \in Slots, ChangePlace(h)
  PROVE  ChangePlaceDone(h) /\ Only(h) /\ Types'
  <1> DEFINE w == work[h]
             c == Current(w)
             v == [w EXCEPT !.at = "relink"]
  <1>1. /\ w.at = "move" /\ place' = [place EXCEPT ![c.place].latest = w.moved]
        /\ farm' = [farm EXCEPT ![c.farm] = Told(farm[c.farm], c)]
        /\ Goes(h, v) /\ UNCHANGED <<fence, link, left>>
    BY DEF ChangePlace
  <1>2. Busy(h) /\ w \in WorkRow BY <1>1, BusyRow DEF Busy
  <1>3. w.changes # {} BY <1>1, <1>2 DEF Refs, WorkRefs
  <1>4. c.farm \in DOMAIN farm /\ c.place \in DOMAIN place /\ c \in ChangeRow BY <1>2, <1>3, CurrentIs
  <1>5. c.said \in Shape /\ farm[c.farm] \in FarmRow /\ place[c.place] \in PlaceRow /\ w.moved \in Nat
    BY <1>2, <1>4, RowsOf, WorkFields DEF ChangeRow
  <1>6. PICK q : q = [place[c.place] EXCEPT !.latest = w.moved] BY Zenon
  <1>7. /\ q \in PlaceRow /\ q.farm = place[c.place].farm /\ q.left = place[c.place].left
        /\ q.raced = place[c.place].raced /\ q.latest = w.moved
    <2>1. PICK m \in Nat : m = w.moved BY <1>5
    <2>2. q = [place[c.place] EXCEPT !.latest = m] BY <1>6, <2>1
    <2>3. q \in PlaceRow BY <1>5, <2>2 DEF PlaceRow
    <2>4. QED BY <1>5, <2>1, <2>2, <2>3 DEF PlaceRow
  <1>8. place' = [place EXCEPT ![c.place] = q]
    <2> HIDE DEF c, w
    <2> QED BY <1>1, <1>4, <1>6
  <1>9. /\ place' \in Seq(PlaceRow) /\ DOMAIN place' = DOMAIN place /\ place'[c.place] = q
        /\ \A p \in DOMAIN place : p # c.place => place'[p] = place[p]
    <2>1. place \in Seq(PlaceRow) BY DEF Types
    <2> HIDE DEF c
    <2>2. QED BY <1>4, <1>7, <1>8, <2>1, RowWritten
  <1>10. PICK r : /\ r \in FarmRow /\ farm' = [farm EXCEPT ![c.farm] = r]
                  /\ SameFarm(r, farm[c.farm]) /\ r.once = farm[c.farm].once
                  /\ farm[c.farm].fate \cup {"half"} \subseteq r.fate /\ ("crossed" \in r.fate \/ r.said = c.said)
    <2> HIDE DEF c
    <2> WITNESS Told(farm[c.farm], c)
    <2>1. QED BY <1>1, <1>4, <1>5, ToldIs
  <1>11. /\ farm' \in Seq(FarmRow) /\ DOMAIN farm' = DOMAIN farm /\ farm'[c.farm] = r
         /\ \A f \in DOMAIN farm : f # c.farm => farm'[f] = farm[f]
    <2>1. farm \in Seq(FarmRow) BY DEF Types
    <2> HIDE DEF c
    <2>2. QED BY <1>4, <1>10, <2>1, RowWritten
  <1>12. /\ v \in WorkRow /\ Base(v, w) /\ v.todo = w.todo /\ v.rest = w.rest /\ v.matched = w.matched
         /\ v.changes = w.changes /\ v.mine = w.mine /\ v.payload = w.payload /\ v.places = w.places
         /\ v.links = w.links /\ v.at = "relink" /\ v.moved = w.moved
    <2>1. "relink" \in Stages BY DEF Stages
    <2> HIDE DEF w
    <2>2. v \in WorkRow BY <1>2, <2>1, Zenon DEF WorkRow
    <2>3. QED BY <1>2, <2>2, Zenon DEF WorkRow, Base
  <1>13. Only(h) /\ work'[h] = v
    <2> HIDE DEF v
    <2> QED BY <1>1, <1>12, GoesTo, Zenon
  <1>14. TypeW(work'[h])
    <2> HIDE DEF v
    <2> QED BY <1>12, <1>13 DEF TypeW
  <1>15. Types' BY <1>1, <1>9, <1>11, <1>13, <1>14, TypesOnly, Zenon DEF Types
  <1>16. ChangePlaceDone(h)
    <2> HIDE DEF v
    <2> QED BY <1>1, <1>2, <1>7, <1>9, <1>10, <1>11, <1>12, <1>13 DEF ChangePlaceDone
  <1>17. QED BY <1>13, <1>15, <1>16

\* The rows of t are those of s and, after them, the new ones.
Longer(t, s, new) ==
    /\ DOMAIN s \subseteq DOMAIN t
    /\ \A k \in DOMAIN t : k \in DOMAIN s \/ \E i \in DOMAIN new : k = Len(s) + i
    /\ \A i \in DOMAIN new : Len(s) + i \in DOMAIN t /\ Len(s) + i \notin DOMAIN s /\ t[Len(s) + i] = new[i]
    /\ \A k \in DOMAIN s : t[k] = s[k]

\* Several rows are added to a table.
LEMMA RowsAdded ==
  ASSUME NEW T, NEW s \in Seq(T), NEW new \in Seq(T), NEW t, t = s \o new
  PROVE  t \in Seq(T) /\ Longer(t, s, new)
  <1>1. DOMAIN s = 1 .. Len(s) /\ Len(s) \in Nat /\ DOMAIN new = 1 .. Len(new) /\ Len(new) \in Nat BY LenProperties
  <1>2. /\ t \in Seq(T) /\ Len(t) = Len(s) + Len(new)
        /\ \A i \in 1 .. Len(s) + Len(new) : t[i] = IF i <= Len(s) THEN s[i] ELSE new[i - Len(s)]
    BY ConcatProperties
  <1>3. PICK a \in Nat, b \in Nat : a = Len(s) /\ b = Len(new) BY <1>1, Zenon
  <1>4. DOMAIN t = 1 .. a + b
    <2>1. DOMAIN t = 1 .. Len(t) BY <1>2, LenProperties
    <2>2. QED BY <1>2, <1>3, <2>1
  <1>5. ASSUME NEW i \in 1 .. b PROVE a + i \notin 1 .. a /\ a + i \in 1 .. a + b /\ t[a + i] = new[i]
    <2>1. a + i \notin 1 .. a /\ a + i \in 1 .. a + b /\ (a + i) - a = i OBVIOUS
    <2>2. QED BY <1>2, <1>3, <2>1
  <1>6. ASSUME NEW k \in 1 .. a PROVE t[k] = s[k]
    <2>1. k \in 1 .. a + b /\ k <= a OBVIOUS
    <2>2. QED BY <1>2, <1>3, <2>1
  <1>7. ASSUME NEW k \in 1 .. a + b, k \notin 1 .. a PROVE \E i \in 1 .. b : k = a + i
    <2>1. k - a \in 1 .. b /\ k = a + (k - a) BY <1>7
    <2>2. QED BY <2>1
  <1>8. DOMAIN s = 1 .. a /\ DOMAIN new = 1 .. b BY <1>1, <1>3
  <1>9. 1 .. a \subseteq 1 .. a + b OBVIOUS
  <1>10. QED BY <1>1, <1>2, <1>3, <1>4, <1>5, <1>6, <1>7, <1>8, <1>9, ZenonT(60) DEF Longer

\* Relink: the links of the farm follow.
RelinkDone(h) ==
    LET w == work[h]
        v == work'[h]
        c == Current(w)
    IN  /\ w \in WorkRow /\ w.at = "relink"
        /\ v \in WorkRow /\ Base(v, w) /\ v.todo = w.todo /\ v.rest = w.rest /\ v.matched = w.matched
        /\ v.mine = w.mine /\ v.payload = w.payload /\ v.places = w.places /\ v.links = w.links
        /\ v.changes = w.changes \ {c}
        /\ v.at = (IF v.changes # {} THEN "change" ELSE IF v.rest # <<>> THEN "farms" ELSE "create")
        /\ DOMAIN link' = DOMAIN link
        /\ \A n \in DOMAIN link :
              /\ link'[n].report = link[n].report /\ link'[n].place = link[n].place /\ link'[n].farm = link[n].farm
              /\ link'[n].removed = link[n].removed /\ link'[n].raced = link[n].raced
              /\ link'[n].fence = IF link[n].farm = c.farm THEN w.moved ELSE link[n].fence
        /\ DOMAIN farm' = DOMAIN farm /\ \A f \in DOMAIN farm : f # c.farm => farm'[f] = farm[f]
        /\ SameFarm(farm'[c.farm], farm[c.farm]) /\ farm'[c.farm].once = farm[c.farm].once
        /\ farm'[c.farm].said = farm[c.farm].said /\ farm'[c.farm].from = farm[c.farm].from
        /\ farm[c.farm].fate \ {"half"} \subseteq farm'[c.farm].fate /\ farm'[c.farm].fate # {}
        /\ "half" \in farm'[c.farm].fate \/ w.moved = place[c.place].latest
        /\ UNCHANGED <<fence, place, left>>

\* The links of a farm are given the new geofence.
LEMMA RelinkedIs ==
  ASSUME Types, NEW f, NEW g \in Nat, link' = Relinked(f, g)
  PROVE  /\ link' \in Seq(LinkRow) /\ DOMAIN link' = DOMAIN link
         /\ \A n \in DOMAIN link :
              /\ link'[n].report = link[n].report /\ link'[n].place = link[n].place /\ link'[n].farm = link[n].farm
              /\ link'[n].removed = link[n].removed /\ link'[n].raced = link[n].raced
              /\ link'[n].fence = IF link[n].farm = f THEN g ELSE link[n].fence
  <1>1. link' = [n \in DOMAIN link |-> IF link[n].farm = f THEN [link[n] EXCEPT !.fence = g] ELSE link[n]] BY DEF Relinked
  <1>2. DOMAIN link = 1 .. Len(link) /\ Len(link) \in Nat BY RowsOf
  <1>3. ASSUME NEW n \in DOMAIN link
        PROVE /\ link'[n] \in LinkRow /\ link'[n].report = link[n].report /\ link'[n].place = link[n].place
              /\ link'[n].farm = link[n].farm
              /\ link'[n].removed = link[n].removed /\ link'[n].raced = link[n].raced
              /\ link'[n].fence = IF link[n].farm = f THEN g ELSE link[n].fence
    <2>1. link[n] \in LinkRow BY RowsOf
    <2>2. PICK r : r = [link[n] EXCEPT !.fence = g] BY Zenon
    <2>3. r \in LinkRow BY <2>1, <2>2 DEF LinkRow
    <2>4. /\ r.report = link[n].report /\ r.place = link[n].place /\ r.farm = link[n].farm
          /\ r.removed = link[n].removed /\ r.raced = link[n].raced /\ r.fence = g
      BY <2>1, <2>2 DEF LinkRow
    <2>5. link'[n] = IF link[n].farm = f THEN r ELSE link[n] BY <1>1, <2>2
    <2>6. QED BY <2>1, <2>3, <2>4, <2>5
  <1>4. link' \in [1 .. Len(link) -> LinkRow] BY <1>1, <1>2, <1>3
  <1>5. link' \in Seq(LinkRow) BY <1>2, <1>4, SeqDef
  <1>6. DOMAIN link' = DOMAIN link BY <1>1
  <1>7. QED BY <1>3, <1>5, <1>6

\* Relink does what RelinkDone says.
LEMMA RelinkStep ==
  ASSUME Types, Refs, NEW h \in Slots, Relink(h)
  PROVE  RelinkDone(h) /\ Only(h) /\ Types'
  <1> DEFINE w == work[h]
             c == Current(w)
             v1 == [w EXCEPT !.changes = @ \ {c}, !.moved = None]
             a == IF v1.changes # {} THEN "change" ELSE Onward(v1)
             v == [v1 EXCEPT !.at = a]
             late == w.moved = place[c.place].latest
  <1>1. /\ w.at = "relink" /\ link' = Relinked(c.farm, w.moved) /\ Goes(h, v)
        /\ farm' = [farm EXCEPT ![c.farm].fate = Done(@, late)]
        /\ UNCHANGED <<fence, place, left>>
    BY DEF Relink
  <1>2. Busy(h) /\ w \in WorkRow BY <1>1, BusyRow DEF Busy
  <1>3. w.changes # {} BY <1>1, <1>2 DEF Refs, WorkRefs
  <1>4. c.farm \in DOMAIN farm /\ c \in ChangeRow /\ w.moved \in Nat /\ w.changes \in SUBSET ChangeRow
    BY <1>2, <1>3, CurrentIs, WorkFields
  <1>5. farm[c.farm] \in FarmRow BY <1>4, RowsOf
  <1>6. PICK e \in SUBSET Fates : e = Done(farm[c.farm].fate, late)
    <2>1. farm[c.farm].fate \in SUBSET Fates BY <1>5 DEF FarmRow
    <2>2. QED BY <2>1, Zenon DEF Fates, Done
  <1>7. /\ farm[c.farm].fate \ {"half"} \subseteq e /\ e # {} /\ ("half" \in e \/ late)
    BY <1>6 DEF Done
  <1>8. PICK r : r = [farm[c.farm] EXCEPT !.fate = e] BY Zenon
  <1>9. r \in FarmRow BY <1>5, <1>8, Zenon DEF FarmRow
  <1>10. /\ SameFarm(r, farm[c.farm]) /\ r.once = farm[c.farm].once /\ r.fate = e /\ r.said = farm[c.farm].said
         /\ r.from = farm[c.farm].from
    BY <1>5, <1>8 DEF FarmRow, SameFarm
  <1>11. farm' = [farm EXCEPT ![c.farm] = r]
    <2> HIDE DEF c, late
    <2> QED BY <1>1, <1>4, <1>6, <1>8
  <1>12. /\ farm' \in Seq(FarmRow) /\ DOMAIN farm' = DOMAIN farm /\ farm'[c.farm] = r
         /\ \A f \in DOMAIN farm : f # c.farm => farm'[f] = farm[f]
    <2>1. farm \in Seq(FarmRow) BY DEF Types
    <2> HIDE DEF c
    <2>2. QED BY <1>4, <1>9, <1>11, <2>1, RowWritten
  <1>13. PICK ch \in SUBSET ChangeRow : ch = w.changes \ {c} BY <1>4, Zenon
  <1>14. /\ v1 \in WorkRow /\ Base(v1, w) /\ v1.todo = w.todo /\ v1.rest = w.rest /\ v1.matched = w.matched
         /\ v1.mine = w.mine /\ v1.payload = w.payload /\ v1.places = w.places /\ v1.links = w.links
         /\ v1.changes = ch
    <2>1. v1 = [w EXCEPT !.changes = ch, !.moved = 0] BY <1>13 DEF None
    <2> HIDE DEF v1, w
    <2>2. v1 \in WorkRow BY <1>2, <2>1, Zenon DEF WorkRow
    <2>3. QED BY <1>2, <2>1, <2>2 DEF WorkRow, Base
  <1>15. PICK at \in Stages : at = a
    <2>1. {"change", "farms", "create"} \subseteq Stages BY DEF Stages
    <2>2. QED BY <2>1 DEF Onward
  <1>16. a = (IF ch # {} THEN "change" ELSE IF w.rest # <<>> THEN "farms" ELSE "create") BY <1>14 DEF Onward
  <1>17. /\ v \in WorkRow /\ Base(v, w) /\ v.todo = w.todo /\ v.rest = w.rest /\ v.matched = w.matched
         /\ v.mine = w.mine /\ v.payload = w.payload /\ v.places = w.places /\ v.links = w.links
         /\ v.changes = ch /\ v.at = a
    <2>1. v = [v1 EXCEPT !.at = at] BY <1>15
    <2> HIDE DEF v, v1, w, a
    <2>2. v \in WorkRow BY <1>14, <2>1, Zenon DEF WorkRow
    <2>3. QED BY <1>14, <1>15, <2>1, <2>2, Zenon DEF WorkRow, Base
  <1>18. Only(h) /\ work'[h] = v /\ TypeW(v)
    <2>1. a # "done" /\ a # "idle" BY <1>16
    <2> HIDE DEF v
    <2> QED BY <1>1, <1>17, <2>1, GoesTo, Zenon DEF TypeW
  <1>19. /\ link' \in Seq(LinkRow) /\ DOMAIN link' = DOMAIN link
         /\ \A n \in DOMAIN link :
              /\ link'[n].report = link[n].report /\ link'[n].place = link[n].place /\ link'[n].farm = link[n].farm
              /\ link'[n].removed = link[n].removed /\ link'[n].raced = link[n].raced
              /\ link'[n].fence = IF link[n].farm = c.farm THEN w.moved ELSE link[n].fence
    <2>1. PICK f : f = c.farm OBVIOUS
    <2>2. PICK g \in Nat : g = w.moved BY <1>4
    <2>3. link' = Relinked(f, g) BY <1>1, <2>1, <2>2
    <2> HIDE DEF c, w
    <2>4. /\ link' \in Seq(LinkRow) /\ DOMAIN link' = DOMAIN link
          /\ \A n \in DOMAIN link :
               /\ link'[n].report = link[n].report /\ link'[n].place = link[n].place /\ link'[n].farm = link[n].farm
               /\ link'[n].removed = link[n].removed /\ link'[n].raced = link[n].raced
               /\ link'[n].fence = IF link[n].farm = f THEN g ELSE link[n].fence
      BY <2>3, RelinkedIs
    <2>5. QED BY <2>1, <2>2, <2>4
  <1>20. Types'
    <2> HIDE DEF v
    <2> QED BY <1>1, <1>12, <1>18, <1>19, TypesOnly, Zenon DEF Types
  <1>21. RelinkDone(h)
    <2> HIDE DEF v, v1, c
    <2>1. c = Current(work[h]) BY DEF c
    <2>2. v.at = (IF v.changes # {} THEN "change" ELSE IF v.rest # <<>> THEN "farms" ELSE "create") BY <1>16, <1>17
    <2> HIDE DEF a
    <2> QED BY <1>1, <1>2, <1>7, <1>10, <1>12, <1>13, <1>17, <1>18, <1>19, <2>1, <2>2, Zenon DEF RelinkDone
  <1>22. QED BY <1>18, <1>20, <1>21

\* RelinkThrows and Fails: the import or the request ends where it is.
EndsDone(h) == /\ Busy(h) /\ Only(h) /\ work'[h] = Idle /\ UNCHANGED rows

\* RelinkThrows and Fails end the work and leave the rows as they are.
LEMMA EndsStep ==
  ASSUME Types, NEW h \in Slots, RelinkThrows(h) \/ Fails(h)
  PROVE  EndsDone(h) /\ Types'
  <1>1. Busy(h) /\ Goes(h, Idle) /\ UNCHANGED rows BY DEF RelinkThrows, Fails, Busy
  <1>2. Idle.at # "done" /\ TypeW(Idle) BY DEF Idle, TypeW
  <1>3. Only(h) /\ work'[h] = Idle BY <1>1, <1>2, GoesTo, Zenon
  <1>4. left' \in [reports : SUBSET Reports, tasks : Nat, together : Nat, events : Nat]
    <2>1. CASE UNCHANGED left BY <2>1 DEF Types
    <2>2. CASE Event
      <3>1. PICK n \in Nat : n = left.events - 1 BY <2>2 DEF Event, Types
      <3>2. left' = [left EXCEPT !.events = n] BY <2>2, <3>1 DEF Event
      <3>3. QED BY <3>2, Zenon DEF Types
    <2>3. QED BY <2>1, <2>2 DEF RelinkThrows, Fails
  <1>5. \A k \in Slots : TypeW(work'[k]) BY <1>2, <1>3 DEF Types, Only
  <1>6. Types' BY <1>1, <1>3, <1>4, <1>5 DEF Types, rows, Only, TypeW
  <1>7. QED BY <1>1, <1>3, <1>6 DEF EndsDone

\* CreateFarms: a farm for each entry that is left.
CreateFarmsDone(h) ==
    LET w == work[h]
        v == work'[h]
    IN  /\ w \in WorkRow /\ w.at = "farms"
        /\ v \in WorkRow /\ Base(v, w) /\ v.todo = w.todo /\ v.rest = w.rest /\ v.matched = w.matched
        /\ v.changes = w.changes /\ v.moved = w.moved /\ v.payload = w.payload /\ v.places = w.places
        /\ v.links = w.links /\ v.at = "fences"
        /\ Len(v.mine) = Len(w.rest) /\ DOMAIN v.mine = DOMAIN w.rest
        /\ \A i, j \in DOMAIN v.mine : v.mine[i] = v.mine[j] => i = j
        /\ \A i \in DOMAIN v.mine : v.mine[i] \notin DOMAIN farm
        /\ DOMAIN farm \subseteq DOMAIN farm'
        /\ \A f \in DOMAIN farm' : f \in DOMAIN farm \/ \E i \in DOMAIN v.mine : f = v.mine[i]
        /\ \A i \in DOMAIN v.mine : v.mine[i] \in DOMAIN farm'
        /\ \A f \in DOMAIN farm : farm'[f] = farm[f]
        /\ \A i \in DOMAIN v.mine :
              /\ farm'[v.mine[i]].said = w.rest[i].said /\ farm'[v.mine[i]].from = w.rest[i].from
              /\ farm'[v.mine[i]].fate = {} /\ farm'[v.mine[i]].once = {}
              /\ farm'[v.mine[i]].cf = w.rest[i].cf /\ farm'[v.mine[i]].ids = {w.rest[i].cf}
              /\ \/ farm'[v.mine[i]].again
                 \/ /\ w.rest[i].cf = None /\ ~w.raced
                    /\ \A j \in DOMAIN w.rest : w.rest[j].hash = w.rest[i].hash => j = i
                    /\ w.kind = "request" => \A m \in w.matched : m.hash # w.rest[i].hash
        /\ UNCHANGED <<fence, place, link, left>>

\* Two numbers in a set are more than one.
LEMMA MoreThanOne ==
  ASSUME NEW S, IsFiniteSet(S), NEW x \in S, NEW y \in S, x # y
  PROVE  Cardinality(S) > 1
  <1>1. Cardinality({x, y}) = 2 /\ IsFiniteSet({x, y})
    <2>1. Cardinality({x}) = 1 /\ IsFiniteSet({x}) BY FS_Singleton, Zenon
    <2>2. {x} \cup {y} = {x, y} /\ y \notin {x} BY <1>1
    <2>3. Cardinality({x} \cup {y}) = Cardinality({x}) + 1 /\ IsFiniteSet({x} \cup {y}) BY <2>1, <2>2, FS_AddElement
    <2>4. QED BY <2>1, <2>2, <2>3
  <1>2. {x, y} \subseteq S OBVIOUS
  <1>3. Cardinality({x, y}) <= Cardinality(S) BY <1>2, FS_Subset
  <1>4. Cardinality(S) \in Nat BY FS_CardinalityType
  <1>5. QED BY <1>1, <1>3, <1>4

\* CreateFarms does what CreateFarmsDone says.
LEMMA CreateFarmsStep ==
  ASSUME Types, NEW h \in Slots, CreateFarms(h)
  PROVE  CreateFarmsDone(h) /\ Only(h) /\ Types'
  <1> DEFINE w == work[h]
             s == w.rest
             Like(x) == {i \in DOMAIN s : s[i].hash = x.hash}
             Ag(x) == \/ x.cf # None \/ w.raced
                      \/ Cardinality(Like(x)) > 1
                      \/ w.kind = "request" /\ x.hash \in {m.hash : m \in w.matched}
             NF(x) == [cf |-> x.cf, deleted |-> FALSE, said |-> x.said, from |-> x.from, fate |-> {},
                       once |-> {}, ids |-> {x.cf}, again |-> Ag(x)]
             new == [i \in DOMAIN s |-> NF(s[i])]
             mine == [i \in DOMAIN s |-> Len(farm) + i]
             v == [w EXCEPT !.at = "fences", !.mine = mine]
  <1>1. /\ w.at = "farms" /\ farm' = farm \o new /\ Goes(h, v) /\ UNCHANGED <<fence, place, link, left>>
    BY Zenon DEF CreateFarms
  <1>2. Busy(h) /\ w \in WorkRow BY <1>1, BusyRow, Zenon DEF Busy
  <1>3. s \in Seq(Items) /\ w.raced \in BOOLEAN BY <1>2, WorkFields
  <1>4. PICK n \in Nat : n = Len(s) /\ DOMAIN s = 1 .. n BY <1>3, LenProperties
  <1>5. farm \in Seq(FarmRow) /\ DOMAIN farm = 1 .. Len(farm) /\ Len(farm) \in Nat BY RowsOf DEF Types
  <1>6. PICK k \in Nat : k = Len(farm) BY <1>5, Zenon
  <1>7. ASSUME NEW i \in DOMAIN s
        PROVE /\ new[i] \in FarmRow /\ new[i].said = s[i].said /\ new[i].from = s[i].from /\ new[i].fate = {}
              /\ new[i].once = {} /\ new[i].cf = s[i].cf /\ new[i].ids = {s[i].cf} /\ new[i].again = Ag(s[i])
    <2>1. s[i] \in ItemRow BY <1>3, ElementOfSeq, LenProperties DEF Items
    <2>2. PICK a \in BOOLEAN : a = Ag(s[i]) BY <1>3, Zenon
    <2> HIDE DEF Ag
    <2>3. new[i] = [cf |-> s[i].cf, deleted |-> FALSE, said |-> s[i].said, from |-> s[i].from, fate |-> {},
                    once |-> {}, ids |-> {s[i].cf}, again |-> a]
      BY <2>2
    <2> HIDE DEF new
    <2>4. s[i].cf \in Nat /\ s[i].said \in Shape /\ s[i].from \in Sources BY <2>1 DEF ItemRow
    <2>5. new[i] \in FarmRow BY <2>3, <2>4 DEF FarmRow
    <2>6. QED BY <2>2, <2>3, <2>5
  <1>8. new \in Seq(FarmRow)
    <2>1. new \in [1 .. n -> FarmRow]
      <3>1. DOMAIN new = 1 .. n /\ new = [i \in DOMAIN s |-> new[i]] BY <1>4
      <3> HIDE DEF new
      <3>2. QED BY <1>4, <1>7, <3>1, Zenon
    <2>2. QED BY <2>1, SeqDef, Zenon
  <1>9. DOMAIN new = 1 .. n BY <1>4
  <1>10. farm' \in Seq(FarmRow) /\ Longer(farm', farm, new)
    <2>1. PICK q \in Seq(FarmRow) : q = new BY <1>8, Zenon
    <2> HIDE DEF new
    <2>2. farm' = farm \o q BY <1>1, <2>1
    <2>3. farm' \in Seq(FarmRow) /\ Longer(farm', farm, q) BY <1>5, <2>2, RowsAdded, Zenon
    <2>4. QED BY <2>1, <2>3
  <1>11. mine \in Seq(Nat) /\ Len(mine) = n /\ DOMAIN mine = 1 .. n /\ \A i \in 1 .. n : mine[i] = Len(farm) + i
    <2>1. mine \in [1 .. n -> Nat] BY <1>4, <1>5
    <2>2. mine \in Seq(Nat) BY <2>1, SeqDef
    <2>3. DOMAIN mine = 1 .. n BY <1>4
    <2>4. DOMAIN mine = 1 .. Len(mine) /\ Len(mine) \in Nat BY <2>2, LenProperties
    <2>5. Len(mine) = n BY <2>3, <2>4
    <2>6. QED BY <1>4, <2>2, <2>3, <2>5
  <1>12. PICK m \in Seq(Nat) : m = mine BY <1>11
  <1>13. /\ v \in WorkRow /\ Base(v, w) /\ v.todo = w.todo /\ v.rest = w.rest /\ v.matched = w.matched
         /\ v.changes = w.changes /\ v.moved = w.moved /\ v.payload = w.payload /\ v.places = w.places
         /\ v.links = w.links /\ v.at = "fences" /\ v.mine = m
    <2>1. v = [w EXCEPT !.at = "fences", !.mine = m] BY <1>12
    <2>2. "fences" \in Stages BY DEF Stages
    <2> HIDE DEF v, w
    <2>3. v \in WorkRow BY <1>2, <2>1, <2>2, Zenon DEF WorkRow
    <2>4. QED BY <1>2, <2>1, <2>3 DEF WorkRow, Base
  <1>14. Only(h) /\ work'[h] = v /\ TypeW(v)
    <2> HIDE DEF v
    <2> QED BY <1>1, <1>13, GoesTo, Zenon DEF TypeW
  <1>15. Types'
    <2> HIDE DEF v
    <2> QED BY <1>1, <1>10, <1>14, TypesOnly, Zenon DEF Types
  <1>16. ASSUME NEW i \in DOMAIN s, ~Ag(s[i])
         PROVE  /\ s[i].cf = None /\ ~w.raced /\ \A j \in DOMAIN s : s[j].hash = s[i].hash => j = i
                /\ w.kind = "request" => \A q \in w.matched : q.hash # s[i].hash
    <2>1. ASSUME NEW j \in DOMAIN s, s[j].hash = s[i].hash, j # i PROVE FALSE
      <3>1. Like(s[i]) \subseteq 1 .. n /\ i \in Like(s[i]) /\ j \in Like(s[i]) BY <1>4, <2>1
      <3>2. IsFiniteSet(Like(s[i]))
        <4>1. IsFiniteSet(1 .. n) BY FS_Interval
        <4> HIDE DEF Like
        <4>2. QED BY <3>1, <4>1, FS_Subset
      <3>3. Cardinality(Like(s[i])) > 1
        <4> HIDE DEF Like
        <4> QED BY <2>1, <3>1, <3>2, MoreThanOne
      <3>4. QED BY <1>16, <3>3
    <2>2. QED BY <1>16, <2>1
  <1>17. DOMAIN m = DOMAIN s /\ Len(m) = Len(s) /\ \A i \in DOMAIN s : m[i] = Len(farm) + i
    BY <1>4, <1>11, <1>12
  <1>18. \A i, j \in DOMAIN s : m[i] = m[j] => i = j
    <2>1. ASSUME NEW i \in 1 .. n, NEW j \in 1 .. n, k + i = k + j PROVE i = j BY <2>1
    <2>2. QED BY <1>4, <1>6, <1>17, <2>1
  <1>19. /\ \A f \in DOMAIN farm' : f \in DOMAIN farm \/ \E i \in DOMAIN m : f = m[i]
         /\ \A i \in DOMAIN m : m[i] \in DOMAIN farm'
    <2>1. DOMAIN m = DOMAIN new /\ \A i \in DOMAIN m : m[i] = Len(farm) + i BY <1>4, <1>9, <1>17
    <2> HIDE DEF new
    <2>2. QED BY <1>10, <2>1 DEF Longer
  <1>20. ASSUME NEW i \in DOMAIN m
         PROVE  /\ m[i] \notin DOMAIN farm
                /\ farm'[m[i]].said = s[i].said /\ farm'[m[i]].from = s[i].from
                /\ farm'[m[i]].fate = {} /\ farm'[m[i]].once = {}
                /\ farm'[m[i]].cf = s[i].cf /\ farm'[m[i]].ids = {s[i].cf}
                /\ \/ farm'[m[i]].again
                   \/ /\ s[i].cf = None /\ ~w.raced
                      /\ \A j \in DOMAIN s : s[j].hash = s[i].hash => j = i
                      /\ w.kind = "request" => \A q \in w.matched : q.hash # s[i].hash
    <2>1. m[i] \notin DOMAIN farm /\ farm'[m[i]] = new[i]
      <3>1. i \in DOMAIN new /\ m[i] = Len(farm) + i BY <1>4, <1>9, <1>17
      <3> HIDE DEF new
      <3>2. QED BY <1>10, <3>1 DEF Longer
    <2> HIDE DEF new, Ag
    <2>2. QED BY <1>7, <1>16, <1>17, <2>1
  <1>21. CreateFarmsDone(h)
    <2> HIDE DEF v, new, mine
    <2>1. \A i \in DOMAIN m :
                /\ farm'[m[i]].said = s[i].said /\ farm'[m[i]].from = s[i].from
                /\ farm'[m[i]].fate = {} /\ farm'[m[i]].once = {}
                /\ farm'[m[i]].cf = s[i].cf /\ farm'[m[i]].ids = {s[i].cf}
                /\ \/ farm'[m[i]].again
                   \/ /\ s[i].cf = None /\ ~w.raced
                      /\ \A j \in DOMAIN s : s[j].hash = s[i].hash => j = i
                      /\ w.kind = "request" => \A q \in w.matched : q.hash # s[i].hash
      BY <1>20
    <2>2. \A i \in DOMAIN m : m[i] \notin DOMAIN farm BY <1>20
    <2>3. \A f \in DOMAIN farm : farm'[f] = farm[f] BY <1>10 DEF Longer
    <2>4. \A i, j \in DOMAIN m : m[i] = m[j] => i = j BY <1>17, <1>18
    <2>5. work'[h] = v /\ v.mine = m /\ s = work[h].rest BY <1>13, <1>14
    <2> HIDE DEF Ag, s, NF
    <2>6. DOMAIN farm \subseteq DOMAIN farm' BY <1>10 DEF Longer
    <2>7. /\ Len(m) = Len(s) /\ DOMAIN m = DOMAIN s /\ w.at = "farms" /\ w \in WorkRow /\ w = work[h]
          /\ UNCHANGED <<fence, place, link, left>>
      BY <1>1, <1>2, <1>17
    <2> HIDE DEF w
    <2>8. QED BY <2>6, <2>7, <1>13, <1>19, <2>1, <2>2, <2>3, <2>4, <2>5 DEF CreateFarmsDone
  <1>22. QED BY <1>14, <1>15, <1>21
\* CreateFences: geofences for all the farms that lack one, or for the first.
CreateFencesDone(h) ==
    LET w == work[h]
        v == work'[h]
    IN  /\ w \in WorkRow /\ w.at = "fences"
        /\ v \in WorkRow /\ Base(v, w) /\ v.todo = w.todo /\ v.rest = w.rest /\ v.matched = w.matched
        /\ v.changes = w.changes /\ v.moved = w.moved /\ v.payload = w.payload /\ v.places = w.places
        /\ v.links = w.links /\ v.mine = w.mine /\ v.at \in {"fences", "sync", "create"}
        /\ v.at = "sync" => w.kind = "import"
        /\ v.at = "create" => w.kind # "import"
        /\ DOMAIN fence \subseteq DOMAIN fence' /\ \A g \in DOMAIN fence : fence'[g] = fence[g]
        /\ \A g \in DOMAIN fence' \ DOMAIN fence : \E i \in DOMAIN w.mine :
              ~HasFence(w.mine[i]) /\ fence'[g] = NewFence(w.mine[i], w.rest[i].shape)
        /\ \A g, k \in DOMAIN fence' \ DOMAIN fence : fence'[g].farm = fence'[k].farm => g = k
        /\ v.at = "fences" <=> \E i \in DOMAIN w.mine : \A g \in DOMAIN fence' : fence'[g].farm # w.mine[i]
        /\ \A i, j \in DOMAIN w.mine :
              i < j /\ (\E g \in DOMAIN fence' : fence'[g].farm = w.mine[j]) => \E g \in DOMAIN fence' : fence'[g].farm = w.mine[i]
        /\ UNCHANGED <<farm, place, link, left>>

\* CreateFences does what CreateFencesDone says.
LEMMA CreateFencesStep ==
  ASSUME Types, NEW h \in Slots, Mine(work[h]), CreateFences(h)
  PROVE  CreateFencesDone(h) /\ Only(h) /\ Types'
  <1> DEFINE w == work[h]
             U == {i \in DOMAIN w.mine : FencesOf(w.mine[i]) = {}}
             first == MinOf(U)
             upto == IF w.kind = "import" THEN Len(w.mine) ELSE first
             new == [i \in 1 .. upto - first + 1 |-> NewFence(w.mine[first + i - 1], w.rest[first + i - 1].shape)]
             a == IF upto < Len(w.mine) THEN "fences" ELSE IF w.kind = "import" THEN "sync" ELSE "create"
             v == [w EXCEPT !.at = a]
  <1>1. /\ w.at = "fences" /\ fence' = fence \o new /\ Goes(h, v) /\ UNCHANGED <<farm, place, link, left>>
    BY Zenon DEF CreateFences
  <1>2. Busy(h) /\ w \in WorkRow BY <1>1, BusyRow DEF Busy
  <1>3. w.mine \in Seq(Nat) /\ w.rest \in Seq(Items) BY <1>2, WorkFields
  <1>4. PICK n \in Nat : n = Len(w.mine) /\ n = Len(w.rest) /\ DOMAIN w.mine = 1 .. n /\ DOMAIN w.rest = 1 .. n
    BY <1>1, <1>3, LenProperties, Zenon DEF Mine
  <1>5. \A i \in 1 .. n : i \in U <=> ~HasFence(w.mine[i]) BY <1>4 DEF HasFence, FencesOf
  <1>6. U \in SUBSET (1 .. n) /\ U # {} BY <1>1, <1>4, <1>5, Zenon DEF Mine
  <1>7. first \in U /\ \A i \in U : first <= i BY <1>6, MinMaxRows, Zenon
  <1>8. PICK f \in 1 .. n : f = first BY <1>6, <1>7, Zenon
  <1>9. PICK u \in 1 .. n : u = upto /\ f <= u /\ (w.kind = "import" => u = n) /\ (w.kind # "import" => u = f)
    <2>1. upto = IF w.kind = "import" THEN n ELSE f BY <1>4, <1>8
    <2> HIDE DEF upto, w
    <2>2. CASE w.kind = "import"
      <3>1. n \in 1 .. n /\ f <= n BY <1>8
      <3>2. QED BY <2>1, <2>2, <3>1
    <2>3. CASE w.kind # "import"
      <3>1. f <= f BY <1>8
      <3>2. QED BY <2>1, <2>3, <3>1
    <2>4. QED BY <2>2, <2>3
  <1>10. \A i \in f .. n : i \in U
    <2>1. ASSUME NEW i \in f .. n, i \notin U PROVE FALSE
      <3> HIDE DEF U, first
      <3>1. i \in 1 .. n /\ f \in U /\ (i = f \/ f < i) BY <1>7, <1>8
      <3>2. HasFence(w.mine[i]) /\ ~HasFence(w.mine[f]) /\ f < i BY <1>5, <2>1, <3>1
      <3>3. HasFence(w.mine[f]) BY <1>1, <1>4, <3>1, <3>2 DEF Mine
      <3>4. QED BY <3>2, <3>3
    <2>2. QED BY <2>1
  <1>11. \A i \in 1 .. n : i < f => i \notin U
    <2> HIDE DEF U, first
    <2> QED BY <1>7, <1>8
  <1>12. new = [i \in 1 .. u - f + 1 |-> NewFence(w.mine[f + i - 1], w.rest[f + i - 1].shape)] BY <1>8, <1>9
  <1>13. PICK l \in Nat : l = u - f + 1
    <2> HIDE DEF upto, w
    <2>1. u - f + 1 \in Nat BY <1>9
    <2>2. QED BY <2>1
  <1>14. DOMAIN new = 1 .. l BY <1>12, <1>13
  <1> HIDE DEF new
  <1>15. ASSUME NEW i \in 1 .. l
         PROVE  /\ f + i - 1 \in f .. u /\ f + i - 1 \in 1 .. n
                /\ new[i] = NewFence(w.mine[f + i - 1], w.rest[f + i - 1].shape)
                /\ new[i] \in FenceRow /\ new[i].farm = w.mine[f + i - 1]
    <2>1. PICK j \in Int : j = f + i - 1 OBVIOUS
    <2>2. j \in f .. u /\ j \in 1 .. n BY <1>9, <1>13, <2>1
    <2>3. w.rest[j] \in ItemRow /\ w.mine[j] \in Nat BY <1>3, <1>4, <2>2, ElementOfSeq, LenProperties, Zenon DEF Items
    <2>4. w.rest[j].shape \in Shape BY <2>3 DEF ItemRow
    <2>5. new[i] = NewFence(w.mine[j], w.rest[j].shape) BY <1>12, <1>13, <2>1
    <2> HIDE DEF w
    <2>6. NewFence(w.mine[j], w.rest[j].shape) \in FenceRow /\ NewFence(w.mine[j], w.rest[j].shape).farm = w.mine[j]
      BY <2>3, <2>4, NewFenceIs
    <2>7. QED BY <2>1, <2>2, <2>5, <2>6
  <1>16. new \in Seq(FenceRow)
    <2>1. new \in [1 .. l -> FenceRow]
      <3>1. new = [i \in 1 .. l |-> new[i]] BY <1>12, <1>13 DEF new
      <3>2. QED BY <1>14, <1>15, <3>1
    <2>2. QED BY <2>1, SeqDef
  <1>17. fence' \in Seq(FenceRow) /\ Longer(fence', fence, new)
    <2>1. PICK q \in Seq(FenceRow) : q = new BY <1>16
    <2>2. fence \in Seq(FenceRow) /\ fence' = fence \o q BY <1>1, <2>1 DEF Types
    <2>3. fence' \in Seq(FenceRow) /\ Longer(fence', fence, q) BY <2>2, RowsAdded, Zenon
    <2>4. QED BY <2>1, <2>3
  <1>18. a \in Stages /\ a \in {"fences", "sync", "create"} /\ (a = "sync" => w.kind = "import")
         /\ (a = "create" => w.kind # "import") /\ (a = "fences" <=> u < n)
    BY <1>4, <1>9 DEF Stages
  <1>19. /\ v \in WorkRow /\ Base(v, w) /\ v.todo = w.todo /\ v.rest = w.rest /\ v.matched = w.matched
         /\ v.changes = w.changes /\ v.moved = w.moved /\ v.payload = w.payload /\ v.places = w.places
         /\ v.links = w.links /\ v.mine = w.mine /\ v.at = a
    <2>1. PICK at \in Stages : at = a BY <1>18, Zenon
    <2>2. v = [w EXCEPT !.at = at] BY <2>1
    <2> HIDE DEF v, w, a
    <2>3. v \in WorkRow BY <1>2, <2>2, Zenon DEF WorkRow
    <2>4. QED BY <1>2, <2>1, <2>2, <2>3, Zenon DEF WorkRow, Base
  <1>20. Only(h) /\ work'[h] = v /\ TypeW(v)
    <2> HIDE DEF v, a
    <2> QED BY <1>1, <1>18, <1>19, GoesTo, Zenon DEF TypeW
  <1>21. Types'
    <2> HIDE DEF v
    <2> QED BY <1>1, <1>17, <1>20, TypesOnly DEF Types
  <1>22. ASSUME NEW g \in DOMAIN fence' \ DOMAIN fence
         PROVE  \E i \in 1 .. l : g = Len(fence) + i /\ fence'[g] = new[i] /\ fence'[g].farm = w.mine[f + i - 1]
    <2>1. PICK i \in DOMAIN new : g = Len(fence) + i BY <1>17 DEF Longer
    <2>2. fence'[g] = new[i] BY <1>17, <2>1 DEF Longer
    <2>3. i \in 1 .. l BY <1>14
    <2>4. new[i].farm = w.mine[f + i - 1] BY <1>15, <2>3
    <2>5. QED BY <2>1, <2>2, <2>3, <2>4
  <1>23. ASSUME NEW g \in DOMAIN fence' \ DOMAIN fence
         PROVE  \E i \in DOMAIN w.mine : ~HasFence(w.mine[i]) /\ fence'[g] = NewFence(w.mine[i], w.rest[i].shape)
    <2>1. PICK i \in 1 .. l : g = Len(fence) + i /\ fence'[g] = new[i] BY <1>22
    <2>2. PICK j \in Int : j = f + i - 1 OBVIOUS
    <2>3. j \in f .. n /\ j \in 1 .. n
      <3>1. j \in f .. u /\ j \in 1 .. n BY <1>15, <2>2
      <3>2. QED BY <3>1
    <2>4. fence'[g] = NewFence(w.mine[j], w.rest[j].shape) BY <1>15, <2>1, <2>2
    <2>5. ~HasFence(w.mine[j]) BY <1>5, <1>10, <2>3
    <2>6. QED BY <1>4, <2>3, <2>4, <2>5
  <1>24. ASSUME NEW g \in DOMAIN fence' \ DOMAIN fence, NEW k \in DOMAIN fence' \ DOMAIN fence,
                fence'[g].farm = fence'[k].farm
         PROVE  g = k
    <2>1. PICK i \in 1 .. l : g = Len(fence) + i /\ fence'[g].farm = w.mine[f + i - 1] BY <1>22
    <2>2. PICK j \in 1 .. l : k = Len(fence) + j /\ fence'[k].farm = w.mine[f + j - 1] BY <1>22, Zenon
    <2>3. f + i - 1 \in DOMAIN w.mine /\ f + j - 1 \in DOMAIN w.mine BY <1>4, <1>15, Zenon
    <2>4. f + i - 1 = f + j - 1 BY <1>24, <2>1, <2>2, <2>3 DEF Mine
    <2>5. i = j BY <2>4
    <2>6. QED BY <2>1, <2>2, <2>5
  <1>25. ASSUME NEW i \in 1 .. n
         PROVE  (\E g \in DOMAIN fence' : fence'[g].farm = w.mine[i]) <=> i <= u
    <2>1. CASE i < f
      <3>1. HasFence(w.mine[i]) BY <1>5, <1>11, <2>1
      <3>2. \E g \in DOMAIN fence' : fence'[g].farm = w.mine[i] BY <1>17, <3>1 DEF HasFence, Longer
      <3>3. i <= u BY <1>9, <2>1
      <3>4. QED BY <3>2, <3>3
    <2>2. CASE f <= i /\ i <= u
      <3>1. PICK j \in 1 .. l : i = f + j - 1
        <4>1. i - f + 1 \in 1 .. l /\ i = f + (i - f + 1) - 1 BY <1>13, <2>2
        <4>2. QED BY <4>1
      <3>2. new[j].farm = w.mine[i] BY <1>15, <3>1
      <3>3. Len(fence) + j \in DOMAIN fence' /\ fence'[Len(fence) + j] = new[j] BY <1>14, <1>17 DEF Longer
      <3>4. QED BY <2>2, <3>2, <3>3
    <2>3. CASE u < i
      <3>1. ~HasFence(w.mine[i]) BY <1>5, <1>9, <1>10, <2>3
      <3>2. ASSUME NEW g \in DOMAIN fence', fence'[g].farm = w.mine[i] PROVE FALSE
        <4>1. g \notin DOMAIN fence BY <1>17, <3>1, <3>2 DEF HasFence, Longer
        <4>2. PICK j \in 1 .. l : fence'[g].farm = w.mine[f + j - 1] BY <1>22, <4>1, Zenon
        <4>3. f + j - 1 \in f .. u /\ f + j - 1 \in DOMAIN w.mine BY <1>4, <1>15, Zenon
        <4>4. f + j - 1 = i BY <1>4, <3>2, <4>2, <4>3, Zenon DEF Mine
        <4>5. QED BY <2>3, <4>3, <4>4
      <3>3. ~(i <= u) BY <2>3
      <3>4. QED BY <3>2, <3>3
    <2>4. QED BY <2>1, <2>2, <2>3
  <1>26. a = "fences" <=> \E i \in DOMAIN w.mine : \A g \in DOMAIN fence' : fence'[g].farm # w.mine[i]
    <2>1. CASE u < n
      <3>1. n \in 1 .. n /\ ~(n <= u) BY <2>1
      <3>2. \A g \in DOMAIN fence' : fence'[g].farm # w.mine[n] BY <1>25, <3>1
      <3>3. n \in DOMAIN w.mine BY <1>4, <3>1
      <3>4. QED BY <1>18, <2>1, <3>2, <3>3
    <2>2. CASE ~(u < n)
      <3>1. \A i \in 1 .. n : i <= u BY <2>2
      <3>2. QED BY <1>4, <1>18, <1>25, <2>2, <3>1
    <2>3. QED BY <2>1, <2>2
  <1>27. ASSUME NEW i \in DOMAIN w.mine, NEW j \in DOMAIN w.mine, i < j,
                \E g \in DOMAIN fence' : fence'[g].farm = w.mine[j]
         PROVE  \E g \in DOMAIN fence' : fence'[g].farm = w.mine[i]
    <2>1. i \in 1 .. n /\ j \in 1 .. n BY <1>4
    <2>2. j <= u BY <1>25, <1>27, <2>1
    <2>3. i <= u BY <1>27, <2>1, <2>2
    <2>4. QED BY <1>25, <2>1, <2>3
  <1>28. CreateFencesDone(h)
    <2>1. DOMAIN fence \subseteq DOMAIN fence' /\ \A g \in DOMAIN fence : fence'[g] = fence[g] BY <1>17 DEF Longer
    <2>2. w = work[h] OBVIOUS
    <2> HIDE DEF v, a, w
    <2>3. QED BY <1>1, <1>2, <1>18, <1>19, <1>20, <1>23, <1>24, <1>26, <1>27, <2>1, <2>2, ZenonT(60) DEF CreateFencesDone
  <1>29. QED BY <1>20, <1>21, <1>28
\* What ends is forgotten but for what it has added to which report.
Ended(w) == [at |-> "done", report |-> w.report, entries |-> w.entries]

\* It is of its type.
LEMMA EndedIs ==
  ASSUME NEW w \in WorkRow
  PROVE  /\ Ended(w) \in DoneRow /\ TypeW(Ended(w)) /\ Ended(w).at = "done"
         /\ Ended(w).report = w.report /\ Ended(w).entries = w.entries
  <1>1. w.report \in Reports /\ w.entries \in SUBSET Items BY WorkFields
  <1>2. Ended(w) \in DoneRow BY <1>1 DEF Ended, DoneRow
  <1>3. QED BY <1>2 DEF Ended, TypeW

\* Sync: the farms get ids, or do not.
SyncDone(h) ==
    LET w == work[h]
        v == work'[h]
    IN  /\ w \in WorkRow /\ w.at = "sync"
        /\ w.kind = "import" =>
              /\ v \in WorkRow /\ Base(v, w) /\ v.todo = w.todo /\ v.rest = w.rest /\ v.matched = w.matched
              /\ v.changes = w.changes /\ v.moved = w.moved /\ v.payload = w.payload /\ v.places = w.places
              /\ v.links = w.links /\ v.mine = w.mine /\ v.at = "places"
        /\ w.kind # "import" => v = Ended(w)
        /\ DOMAIN farm' = DOMAIN farm
        /\ \A f \in DOMAIN farm :
              /\ farm'[f].deleted = farm[f].deleted /\ farm'[f].said = farm[f].said
              /\ farm'[f].from = farm[f].from /\ farm'[f].fate = farm[f].fate
              /\ farm'[f].once = farm[f].once /\ farm'[f].again = farm[f].again
              /\ farm[f].ids \subseteq farm'[f].ids
              /\ farm[f].cf \in farm[f].ids => farm'[f].cf \in farm'[f].ids
        /\ UNCHANGED <<fence, place, link, left>>

\* Sync does what SyncDone says.
LEMMA SyncStep ==
  ASSUME Types, NEW h \in Slots, Sync(h)
  PROVE  SyncDone(h) /\ Only(h) /\ Types'
  <1> DEFINE w == work[h]
             a == IF w.kind = "import" THEN "places" ELSE "done"
             v == [w EXCEPT !.at = a]
  <1>1. w.at = "sync" /\ Goes(h, v) /\ UNCHANGED <<fence, place, link, left>> BY Zenon DEF Sync
  <1>2. PICK S : farm' = [f \in DOMAIN farm |-> IF f \in S THEN [farm[f] EXCEPT !.cf = NewCf(f), !.ids = @ \cup {NewCf(f)}]
                                              ELSE farm[f]]
    BY Zenon DEF Sync
  <1>3. Busy(h) /\ w \in WorkRow BY <1>1, BusyRow DEF Busy
  <1>4. DOMAIN farm = 1 .. Len(farm) /\ Len(farm) \in Nat BY RowsOf
  <1>5. DOMAIN farm' = DOMAIN farm BY <1>2, Zenon
  <1>6. ASSUME NEW f \in DOMAIN farm
        PROVE  /\ farm'[f] \in FarmRow
               /\ farm'[f].deleted = farm[f].deleted /\ farm'[f].said = farm[f].said
               /\ farm'[f].from = farm[f].from /\ farm'[f].fate = farm[f].fate
               /\ farm'[f].once = farm[f].once /\ farm'[f].again = farm[f].again
               /\ farm[f].ids \subseteq farm'[f].ids
               /\ farm[f].cf \in farm[f].ids => farm'[f].cf \in farm'[f].ids
    <2>1. farm[f] \in FarmRow BY RowsOf
    <2>2. PICK c \in Nat : c = NewCf(f) BY <1>4 DEF NewCf
    <2>3. PICK ids \in SUBSET Nat : ids = farm[f].ids \cup {c} BY <2>1, Zenon DEF FarmRow
    <2>4. PICK r : r = [farm[f] EXCEPT !.cf = c, !.ids = ids] OBVIOUS
    <2>5. r \in FarmRow BY <2>1, <2>4, Zenon DEF FarmRow
    <2>6. /\ r.deleted = farm[f].deleted /\ r.said = farm[f].said /\ r.from = farm[f].from /\ r.fate = farm[f].fate
          /\ r.once = farm[f].once /\ r.again = farm[f].again /\ r.ids = ids /\ r.cf = c
      BY <2>1, <2>4 DEF FarmRow
    <2>7. farm'[f] = IF f \in S THEN r ELSE farm[f] BY <1>2, <2>2, <2>3, <2>4, Zenon
    <2>8. QED BY <2>1, <2>3, <2>5, <2>6, <2>7
  <1>7. farm' \in [1 .. Len(farm) -> FarmRow] BY <1>2, <1>4, <1>5, <1>6, Zenon
  <1>8. farm' \in Seq(FarmRow) BY <1>4, <1>7, SeqDef
  <1>9. ASSUME w.kind = "import"
        PROVE  /\ v \in WorkRow /\ Base(v, w) /\ v.todo = w.todo /\ v.rest = w.rest /\ v.matched = w.matched
               /\ v.changes = w.changes /\ v.moved = w.moved /\ v.payload = w.payload /\ v.places = w.places
               /\ v.links = w.links /\ v.mine = w.mine /\ v.at = "places"
    <2>1. v = [w EXCEPT !.at = "places"] BY <1>9
    <2>2. "places" \in Stages BY DEF Stages
    <2> HIDE DEF v, w
    <2>3. v \in WorkRow BY <1>3, <2>1, <2>2, Zenon DEF WorkRow
    <2>4. QED BY <1>3, <2>1, <2>3, Zenon DEF WorkRow, Base
  <1>10. ASSUME w.kind # "import"
         PROVE  v.at = "done" /\ v.report = w.report /\ v.entries = w.entries
    <2>1. v = [w EXCEPT !.at = "done"] BY <1>10
    <2> HIDE DEF v, w
    <2>2. QED BY <1>3, <2>1 DEF WorkRow
  <1>11. /\ Only(h) /\ TypeW(work'[h])
         /\ w.kind = "import" => work'[h] = v
         /\ w.kind # "import" => work'[h] = Ended(w)
    <2>1. Only(h) BY <1>1, GoesTo, Zenon
    <2>2. CASE w.kind = "import"
      <3> HIDE DEF v
      <3> QED BY <1>1, <1>9, <2>1, <2>2, GoesTo, Zenon DEF TypeW
    <2>3. CASE w.kind # "import"
      <3> HIDE DEF v
      <3>1. work'[h] = Ended(w) BY <1>1, <1>10, <2>3, GoesTo DEF Ended
      <3> HIDE DEF w
      <3>2. QED BY <1>3, <2>1, <2>3, <3>1, EndedIs
    <2>4. QED BY <2>2, <2>3
  <1>12. Types'
    <2> HIDE DEF v
    <2> QED BY <1>1, <1>8, <1>11, TypesOnly DEF Types
  <1>13. SyncDone(h)
    <2>1. w = work[h] OBVIOUS
    <2> HIDE DEF v, w
    <2> QED BY <1>1, <1>3, <1>5, <1>6, <1>9, <1>11, <2>1 DEF SyncDone
  <1>14. QED BY <1>11, <1>12, <1>13

\* ReadPlaces: which of the geofences that were known get a place.
ReadPlacesDone(h) ==
    LET w == work[h]
        v == work'[h]
    IN  /\ w \in WorkRow /\ w.at = "places"
        /\ v \in WorkRow /\ Base(v, w) /\ v.todo = w.todo /\ v.rest = w.rest /\ v.matched = w.matched
        /\ v.changes = w.changes /\ v.moved = w.moved /\ v.links = w.links /\ v.mine = w.mine /\ v.at = "create"
        /\ v.places \subseteq DOMAIN place
        /\ \A g \in v.payload : \E m \in w.matched : m.id = g /\ ~HasPlace(m.farm)
        /\ \A m \in w.matched : \/ m.id \in v.payload
                                \/ \E k \in w.matched : k.hash = m.hash /\ \E p \in v.places : place[p].farm = k.farm

\* ReadPlaces does what ReadPlacesDone says.
LEMMA ReadPlacesStep ==
  ASSUME Types, NEW h \in Slots, ReadPlaces(h)
  PROVE  ReadPlacesDone(h) /\ Only(h) /\ UNCHANGED <<rows, left>> /\ Types'
  <1> DEFINE w == work[h]
             P == PlacesOf({m.farm : m \in w.matched})
             FarmsLike(m) == {k.farm : k \in {n \in w.matched : n.hash = m.hash}}
             pay == {m.id : m \in {k \in w.matched : PlacesOf(FarmsLike(k)) = {}}}
             v == [w EXCEPT !.at = "create", !.places = P, !.payload = pay]
  <1>1. w.at = "places" /\ Goes(h, v) /\ UNCHANGED <<rows, left>> BY DEF ReadPlaces
  <1>2. Busy(h) /\ w \in WorkRow BY <1>1, BusyRow DEF Busy
  <1>3. w.matched \in SUBSET MatchRow BY <1>2, WorkFields
  <1>4. P \in SUBSET (DOMAIN place) /\ P \in SUBSET Nat
    <2>1. DOMAIN place = 1 .. Len(place) /\ Len(place) \in Nat BY RowsOf
    <2>2. P \in SUBSET (DOMAIN place) BY DEF PlacesOf
    <2>3. QED BY <2>1, <2>2
  <1>5. pay \in SUBSET Nat BY <1>3 DEF MatchRow
  <1>6. PICK ps \in SUBSET Nat, py \in SUBSET Nat : ps = P /\ py = pay BY <1>4, <1>5, Zenon
  <1>7. /\ v \in WorkRow /\ Base(v, w) /\ v.todo = w.todo /\ v.rest = w.rest /\ v.matched = w.matched
        /\ v.changes = w.changes /\ v.moved = w.moved /\ v.links = w.links /\ v.mine = w.mine /\ v.at = "create"
        /\ v.places = ps /\ v.payload = py
    <2>1. v = [w EXCEPT !.at = "create", !.places = ps, !.payload = py] BY <1>6
    <2>2. "create" \in Stages BY DEF Stages
    <2> HIDE DEF v, w
    <2>3. v \in WorkRow BY <1>2, <2>1, <2>2, Zenon DEF WorkRow
    <2>4. QED BY <1>2, <2>1, <2>3 DEF WorkRow, Base
  <1>8. Only(h) /\ work'[h] = v /\ TypeW(v)
    <2> HIDE DEF v
    <2> QED BY <1>1, <1>7, GoesTo, Zenon DEF TypeW
  <1>9. Types'
    <2> HIDE DEF v
    <2> QED BY <1>1, <1>8, TypesOnly DEF Types, rows
  <1>10. ASSUME NEW g \in pay PROVE \E m \in w.matched : m.id = g /\ ~HasPlace(m.farm)
    <2>1. PICK m \in w.matched : m.id = g /\ PlacesOf(FarmsLike(m)) = {} BY <1>10
    <2>2. m.farm \in FarmsLike(m) OBVIOUS
    <2> HIDE DEF FarmsLike
    <2>3. ~HasPlace(m.farm) BY <2>1, <2>2 DEF HasPlace, PlacesOf
    <2>4. QED BY <2>1, <2>3
  <1>11. ASSUME NEW m \in w.matched, m.id \notin pay
         PROVE  \E k \in w.matched : k.hash = m.hash /\ \E p \in P : place[p].farm = k.farm
    <2>1. PlacesOf(FarmsLike(m)) # {} BY <1>11
    <2>2. PICK p \in DOMAIN place : place[p].farm \in FarmsLike(m)
      <3> HIDE DEF FarmsLike
      <3> QED BY <2>1 DEF PlacesOf
    <2>3. PICK k \in w.matched : k.hash = m.hash /\ place[p].farm = k.farm BY <2>2
    <2>4. p \in P BY <2>3 DEF PlacesOf
    <2> HIDE DEF P
    <2>5. QED BY <2>3, <2>4
  <1>12. ReadPlacesDone(h)
    <2>1. w = work[h] OBVIOUS
    <2> HIDE DEF v, w, P, pay
    <2>2. \A g \in py : \E m \in w.matched : m.id = g /\ ~HasPlace(m.farm) BY <1>6, <1>10
    <2>3. \A m \in w.matched : \/ m.id \in py
                                \/ \E k \in w.matched : k.hash = m.hash /\ \E p \in ps : place[p].farm = k.farm
      BY <1>6, <1>11
    <2>4. ps \subseteq DOMAIN place BY <1>4, <1>6
    <2>5. QED BY <1>1, <1>2, <1>7, <1>8, <2>1, <2>2, <2>3, <2>4, ZenonT(60) DEF ReadPlacesDone
  <1>13. QED BY <1>1, <1>8, <1>9, <1>12
\* Of two lists of new rows, one after the other, each row is there once.
LEMMA Joined ==
  ASSUME NEW T, NEW A \in Seq(T), NEW B \in Seq(T)
  PROVE  /\ A \o B \in Seq(T)
         /\ \A i \in DOMAIN (A \o B) : \/ i \in DOMAIN A /\ (A \o B)[i] = A[i]
                                       \/ i \notin DOMAIN A /\ \E k \in DOMAIN B : i = Len(A) + k /\ (A \o B)[i] = B[k]
         /\ \A k \in DOMAIN A : k \in DOMAIN (A \o B) /\ (A \o B)[k] = A[k]
         /\ \A k \in DOMAIN B : Len(A) + k \in DOMAIN (A \o B) /\ (A \o B)[Len(A) + k] = B[k]
  <1>1. PICK s : s = A \o B BY Zenon
  <1>2. s \in Seq(T) /\ Longer(s, A, B) BY <1>1, RowsAdded, Zenon
  <1>3. QED BY <1>1, <1>2 DEF Longer

\* CreatePlaces: a place for each farm added and each geofence that was known.
NewPlaceOf(w, x) ==
    \/ \E i \in DOMAIN w.mine : /\ x.farm = w.mine[i] /\ ~x.left
                                /\ x.latest \in DOMAIN fence /\ fence[x.latest].farm = w.mine[i]
    \/ \E g \in w.payload : x.farm = fence[g].farm /\ x.left /\ x.latest = g

\* CreatePlaces: every new place is one of those, every farm and geofence that
\* is to have one gets it.
CreatePlacesDone(h) ==
    LET w == work[h]
        v == work'[h]
        N == DOMAIN place' \ DOMAIN place
    IN  /\ w \in WorkRow /\ w.at = "create"
        /\ v \in WorkRow /\ Base(v, w) /\ v.todo = w.todo /\ v.rest = w.rest /\ v.matched = w.matched
        /\ v.changes = w.changes /\ v.moved = w.moved /\ v.payload = w.payload /\ v.links = w.links
        /\ v.mine = w.mine /\ v.at = "attach"
        /\ v.places = w.places \cup N
        /\ DOMAIN place \subseteq DOMAIN place' /\ \A p \in DOMAIN place : place'[p] = place[p]
        /\ \A p \in N : place'[p].raced = w.raced /\ NewPlaceOf(w, place'[p])
        /\ \A p, q \in N : place'[p].farm = place'[q].farm =>
              \/ p = q
              \/ \E g, k \in w.payload : g # k /\ fence[g].farm = fence[k].farm /\ fence[g].farm = place'[p].farm
        /\ \A i \in DOMAIN w.mine : \E p \in N : place'[p].farm = w.mine[i]
        /\ \A g \in w.payload : \E p \in N : place'[p].farm = fence[g].farm /\ place'[p].left
        /\ UNCHANGED <<farm, fence, link, left>>

\* A new place is of its type.
LEMMA NewPlaceIs ==
  ASSUME NEW w \in WorkRow, NEW f \in Nat, NEW g \in Nat
  PROVE  /\ NewPlace(w, f, g, TRUE) \in PlaceRow /\ NewPlace(w, f, g, TRUE).farm = f
         /\ NewPlace(w, f, g, TRUE).latest = g /\ NewPlace(w, f, g, TRUE).left
         /\ NewPlace(w, f, g, TRUE).raced = w.raced
         /\ NewPlace(w, f, g, FALSE) \in PlaceRow /\ NewPlace(w, f, g, FALSE).farm = f
         /\ NewPlace(w, f, g, FALSE).latest = g /\ ~NewPlace(w, f, g, FALSE).left
         /\ NewPlace(w, f, g, FALSE).raced = w.raced
  <1>1. w.raced \in BOOLEAN BY WorkFields
  <1>2. QED BY <1>1 DEF NewPlace, PlaceRow

\* The places of the farms added.
LEMMA OwnPlacesAre ==
  ASSUME Types, NEW w \in WorkRow, \A i \in DOMAIN w.mine : HasFence(w.mine[i])
  PROVE  /\ OwnPlaces(w) \in Seq(PlaceRow) /\ DOMAIN OwnPlaces(w) = DOMAIN w.mine
         /\ \A i \in DOMAIN w.mine :
               /\ OwnPlaces(w)[i].farm = w.mine[i] /\ ~OwnPlaces(w)[i].left /\ OwnPlaces(w)[i].raced = w.raced
               /\ OwnPlaces(w)[i].latest \in DOMAIN fence /\ fence[OwnPlaces(w)[i].latest].farm = w.mine[i]
  <1>1. w.mine \in Seq(Nat) BY WorkFields
  <1>2. PICK n \in Nat : n = Len(w.mine) /\ DOMAIN w.mine = 1 .. n BY <1>1, LenProperties
  <1>3. OwnPlaces(w) = [i \in 1 .. n |-> NewPlace(w, w.mine[i], MinOf(FencesOf(w.mine[i])), FALSE)] BY <1>2 DEF OwnPlaces
  <1>4. ASSUME NEW i \in 1 .. n
        PROVE  /\ OwnPlaces(w)[i] \in PlaceRow
               /\ OwnPlaces(w)[i].farm = w.mine[i] /\ ~OwnPlaces(w)[i].left /\ OwnPlaces(w)[i].raced = w.raced
               /\ OwnPlaces(w)[i].latest \in DOMAIN fence /\ fence[OwnPlaces(w)[i].latest].farm = w.mine[i]
    <2>1. w.mine[i] \in Nat BY <1>1, <1>2, ElementOfSeq
    <2>2. DOMAIN fence = 1 .. Len(fence) /\ Len(fence) \in Nat BY RowsOf
    <2>3. FencesOf(w.mine[i]) \in SUBSET (1 .. Len(fence)) /\ FencesOf(w.mine[i]) # {}
      BY <1>2, <2>2 DEF FencesOf, HasFence
    <2>4. PICK g \in FencesOf(w.mine[i]) : g = MinOf(FencesOf(w.mine[i])) BY <2>2, <2>3, MinMaxRows, Zenon
    <2>5. g \in DOMAIN fence /\ g \in Nat /\ fence[g].farm = w.mine[i] BY <2>2, <2>3, <2>4 DEF FencesOf
    <2>6. OwnPlaces(w)[i] = NewPlace(w, w.mine[i], g, FALSE) BY <1>3, <2>4
    <2>7. PICK e \in Nat, d \in Nat : e = w.mine[i] /\ d = g BY <2>1, <2>5
    <2>8. PICK x : x = NewPlace(w, e, d, FALSE) BY Zenon
    <2>9. /\ x \in PlaceRow /\ x.farm = e /\ x.latest = d /\ ~x.left /\ x.raced = w.raced
      BY <2>8, NewPlaceIs, ZenonT(60)
    <2>10. OwnPlaces(w)[i] = x BY <2>6, <2>7, <2>8
    <2>11. QED BY <2>5, <2>7, <2>9, <2>10
  <1>5. OwnPlaces(w) \in [1 .. n -> PlaceRow] BY <1>3, <1>4, Zenon
  <1>6. OwnPlaces(w) \in Seq(PlaceRow) BY <1>5, SeqDef
  <1>7. QED BY <1>2, <1>3, <1>4, <1>6, Zenon

\* The places of the geofences that were known.
LEMMA KnownPlacesAre ==
  ASSUME Types, NEW w \in WorkRow, w.payload \subseteq DOMAIN fence
  PROVE  /\ KnownPlaces(w) \in Seq(PlaceRow)
         /\ \A i \in DOMAIN KnownPlaces(w) :
               /\ KnownPlaces(w)[i].latest \in w.payload /\ KnownPlaces(w)[i].left
               /\ KnownPlaces(w)[i].raced = w.raced
               /\ KnownPlaces(w)[i].farm = fence[KnownPlaces(w)[i].latest].farm
         /\ \A i, j \in DOMAIN KnownPlaces(w) : i # j => KnownPlaces(w)[i].latest # KnownPlaces(w)[j].latest
         /\ \A g \in w.payload : \E i \in DOMAIN KnownPlaces(w) : KnownPlaces(w)[i].latest = g
  <1> DEFINE S == w.payload
             o == InOrder(S)
  <1>1. DOMAIN fence = 1 .. Len(fence) /\ Len(fence) \in Nat BY RowsOf
  <1>2. S \in SUBSET Int /\ IsFiniteSet(S)
    <2>1. IsFiniteSet(1 .. Len(fence)) BY <1>1, FS_Interval
    <2>2. IsFiniteSet(S) BY <1>1, <2>1, FS_Subset
    <2>3. QED BY <1>1, <2>2
  <1>3. PICK n \in Nat : n = Cardinality(S) BY <1>2, OrderOf
  <1>4. /\ o \in [1 .. n -> S]
        /\ \A i, j \in 1 .. n : i < j => o[i] < o[j]
        /\ \A x \in S : \E i \in 1 .. n : o[i] = x
    <2> HIDE DEF S
    <2> QED BY <1>2, <1>3, OrderOf
  <1>5. KnownPlaces(w) = [i \in 1 .. n |-> NewPlace(w, fence[o[i]].farm, o[i], TRUE)] BY <1>4 DEF KnownPlaces
  <1> HIDE DEF o
  <1>6. ASSUME NEW i \in 1 .. n
        PROVE  /\ KnownPlaces(w)[i] \in PlaceRow /\ KnownPlaces(w)[i].latest = o[i] /\ KnownPlaces(w)[i].left
               /\ KnownPlaces(w)[i].raced = w.raced /\ KnownPlaces(w)[i].farm = fence[o[i]].farm
    <2>1. o[i] \in DOMAIN fence /\ o[i] \in Nat BY <1>1, <1>4
    <2>2. fence[o[i]] \in FenceRow BY <2>1, RowsOf
    <2>3. fence[o[i]].farm \in Nat BY <2>2 DEF FenceRow
    <2>4. KnownPlaces(w)[i] = NewPlace(w, fence[o[i]].farm, o[i], TRUE) BY <1>5
    <2>5. PICK e \in Nat, d \in Nat : e = fence[o[i]].farm /\ d = o[i] BY <2>1, <2>3
    <2>6. PICK x : x = NewPlace(w, e, d, TRUE) BY Zenon
    <2>7. /\ x \in PlaceRow /\ x.farm = e /\ x.latest = d /\ x.left /\ x.raced = w.raced
      BY <2>6, NewPlaceIs, ZenonT(60)
    <2>8. KnownPlaces(w)[i] = x BY <2>4, <2>5, <2>6
    <2>9. QED BY <2>5, <2>7, <2>8
  <1>7. KnownPlaces(w) \in [1 .. n -> PlaceRow] BY <1>5, <1>6, Zenon
  <1>8. KnownPlaces(w) \in Seq(PlaceRow) /\ DOMAIN KnownPlaces(w) = 1 .. n BY <1>7, SeqDef
  <1>9. \A i, j \in 1 .. n : i # j => o[i] # o[j]
    <2>1. ASSUME NEW i \in 1 .. n, NEW j \in 1 .. n, i # j PROVE o[i] # o[j]
      <3>1. o[i] \in Int /\ o[j] \in Int /\ (i < j \/ j < i) BY <1>2, <1>4, <2>1
      <3>2. QED BY <1>4, <3>1
    <2>2. QED BY <2>1
  <1>10. QED BY <1>4, <1>6, <1>8, <1>9

\* CreatePlaces does that.
LEMMA CreatePlacesStep ==
  ASSUME Types, NEW h \in Slots, Mine(work[h]), work[h].payload \subseteq DOMAIN fence, CreatePlaces(h)
  PROVE  CreatePlacesDone(h) /\ Only(h) /\ Types'
  <1> DEFINE w == work[h]
             A == OwnPlaces(w)
             B == KnownPlaces(w)
             new == IF w.kind = "import" THEN A \o B ELSE B \o A
             N == {Len(place) + i : i \in DOMAIN new}
             v == [w EXCEPT !.at = "attach", !.places = @ \cup N]
             Own(x, k) == k \in DOMAIN A /\ x = A[k]
             Known(x, k) == k \in DOMAIN B /\ x = B[k]
  <1>1. /\ w.at = "create" /\ place' = place \o new /\ Goes(h, v) /\ UNCHANGED <<farm, fence, link, left>>
    BY DEF CreatePlaces
  <1>2. Busy(h) /\ w \in WorkRow BY <1>1, BusyRow DEF Busy
  <1>3. \A i \in DOMAIN w.mine : HasFence(w.mine[i]) BY <1>1 DEF Mine
  <1>4. /\ A \in Seq(PlaceRow) /\ DOMAIN A = DOMAIN w.mine
        /\ \A i \in DOMAIN w.mine :
               /\ A[i].farm = w.mine[i] /\ ~A[i].left /\ A[i].raced = w.raced
               /\ A[i].latest \in DOMAIN fence /\ fence[A[i].latest].farm = w.mine[i]
    <2> HIDE DEF w
    <2> QED BY <1>2, <1>3, OwnPlacesAre
  <1>5. /\ B \in Seq(PlaceRow)
        /\ \A i \in DOMAIN B :
               /\ B[i].latest \in w.payload /\ B[i].left /\ B[i].raced = w.raced
               /\ B[i].farm = fence[B[i].latest].farm
        /\ \A i, j \in DOMAIN B : i # j => B[i].latest # B[j].latest
        /\ \A g \in w.payload : \E i \in DOMAIN B : B[i].latest = g
    <2>1. w.payload \subseteq DOMAIN fence OBVIOUS
    <2> HIDE DEF w
    <2> QED BY <1>2, <2>1, KnownPlacesAre
  <1> HIDE DEF A, B
  <1>6. /\ new \in Seq(PlaceRow)
        /\ \A i \in DOMAIN new : (\E k : Own(new[i], k)) \/ (\E k : Known(new[i], k))
        /\ \A k \in DOMAIN A : \E i \in DOMAIN new : new[i] = A[k]
        /\ \A k \in DOMAIN B : \E i \in DOMAIN new : new[i] = B[k]
        /\ \A i, j \in DOMAIN new : i # j => \/ \E k, l : k # l /\ Own(new[i], k) /\ Own(new[j], l)
                                             \/ \E k, l : k # l /\ Known(new[i], k) /\ Known(new[j], l)
                                             \/ \E k, l : Own(new[i], k) /\ Known(new[j], l)
                                             \/ \E k, l : Known(new[i], k) /\ Own(new[j], l)
    <2>1. CASE w.kind = "import"
      <3>1. new = A \o B BY <2>1
      <3>2. PICK s : s = A \o B BY Zenon
      <3> HIDE DEF new
      <3>3. /\ s \in Seq(PlaceRow)
            /\ \A i \in DOMAIN s : \/ i \in DOMAIN A /\ s[i] = A[i]
                                   \/ i \notin DOMAIN A /\ \E k \in DOMAIN B : i = Len(A) + k /\ s[i] = B[k]
            /\ \A k \in DOMAIN A : k \in DOMAIN s /\ s[k] = A[k]
            /\ \A k \in DOMAIN B : Len(A) + k \in DOMAIN s /\ s[Len(A) + k] = B[k]
        BY <1>4, <1>5, <3>2, Joined
      <3>4. new = s BY <3>1, <3>2
      <3>5. QED BY <3>3, <3>4
    <2>2. CASE w.kind # "import"
      <3>1. new = B \o A BY <2>2
      <3>2. PICK s : s = B \o A BY Zenon
      <3> HIDE DEF new
      <3>3. /\ s \in Seq(PlaceRow)
            /\ \A i \in DOMAIN s : \/ i \in DOMAIN B /\ s[i] = B[i]
                                   \/ i \notin DOMAIN B /\ \E k \in DOMAIN A : i = Len(B) + k /\ s[i] = A[k]
            /\ \A k \in DOMAIN B : k \in DOMAIN s /\ s[k] = B[k]
            /\ \A k \in DOMAIN A : Len(B) + k \in DOMAIN s /\ s[Len(B) + k] = A[k]
        BY <1>4, <1>5, <3>2, Joined
      <3>4. new = s BY <3>1, <3>2
      <3>5. QED BY <3>3, <3>4
    <2>3. QED BY <2>1, <2>2, Zenon
  <1> HIDE DEF new
  <1>7. place' \in Seq(PlaceRow) /\ Longer(place', place, new)
    <2>1. place \in Seq(PlaceRow) BY DEF Types
    <2>2. QED BY <1>1, <1>6, <2>1, RowsAdded, Zenon
  <1>8. N = DOMAIN place' \ DOMAIN place /\ N \in SUBSET Nat
    <2>1. DOMAIN place' = 1 .. Len(place') /\ Len(place') \in Nat BY <1>7, LenProperties
    <2>2. N = DOMAIN place' \ DOMAIN place BY <1>7 DEF Longer
    <2>3. QED BY <2>1, <2>2
  <1>9. PICK ps \in SUBSET Nat : ps = w.places \cup N BY <1>2, <1>8, WorkFields, Zenon
  <1>10. /\ v \in WorkRow /\ Base(v, w) /\ v.todo = w.todo /\ v.rest = w.rest /\ v.matched = w.matched
         /\ v.changes = w.changes /\ v.moved = w.moved /\ v.payload = w.payload /\ v.links = w.links
         /\ v.mine = w.mine /\ v.at = "attach" /\ v.places = ps
    <2>1. v = [w EXCEPT !.at = "attach", !.places = ps] BY <1>9
    <2>2. "attach" \in Stages BY DEF Stages
    <2> HIDE DEF v, w
    <2>3. v \in WorkRow BY <1>2, <2>1, <2>2, Zenon DEF WorkRow
    <2>4. QED BY <1>2, <2>1, <2>3 DEF WorkRow, Base
  <1>11. Only(h) /\ work'[h] = v /\ TypeW(v)
    <2> HIDE DEF v
    <2> QED BY <1>1, <1>10, GoesTo, Zenon DEF TypeW
  <1>12. Types'
    <2> HIDE DEF v
    <2> QED BY <1>1, <1>7, <1>11, TypesOnly DEF Types
  <1>13. ASSUME NEW p \in N
         PROVE \E i \in DOMAIN new : p = Len(place) + i /\ place'[p] = new[i]
    <2>1. PICK i \in DOMAIN new : p = Len(place) + i OBVIOUS
    <2>2. QED BY <1>7, <2>1 DEF Longer
  <1>14. \A i \in DOMAIN new : Len(place) + i \in N /\ place'[Len(place) + i] = new[i] BY <1>7 DEF Longer
  <1> HIDE DEF N
  <1>15. ASSUME NEW x, NEW k, Own(x, k)
         PROVE  x.raced = w.raced /\ NewPlaceOf(w, x) /\ x.farm = w.mine[k] /\ k \in DOMAIN w.mine
    BY <1>4, <1>15 DEF NewPlaceOf
  <1>16. ASSUME NEW x, NEW k, Known(x, k)
         PROVE  /\ x.raced = w.raced /\ NewPlaceOf(w, x) /\ x.farm = fence[B[k].latest].farm
                /\ B[k].latest \in w.payload /\ k \in DOMAIN B
    BY <1>5, <1>16 DEF NewPlaceOf
  <1>17. ASSUME NEW p \in N PROVE place'[p].raced = w.raced /\ NewPlaceOf(w, place'[p])
    <2>1. PICK i \in DOMAIN new : place'[p] = new[i] BY <1>13
    <2> HIDE DEF Own, Known
    <2>2. QED BY <1>6, <1>15, <1>16, <2>1
  <1>18. ASSUME NEW p \in N, NEW q \in N, place'[p].farm = place'[q].farm, p # q
         PROVE  \E g, k \in w.payload : g # k /\ fence[g].farm = fence[k].farm /\ fence[g].farm = place'[p].farm
    <2>1. PICK i \in DOMAIN new : p = Len(place) + i /\ place'[p] = new[i] BY <1>13
    <2>2. PICK j \in DOMAIN new : q = Len(place) + j /\ place'[q] = new[j] BY <1>13
    <2>3. i # j BY <1>18, <2>1, <2>2
    <2>4. new[i].farm = new[j].farm BY <1>18, <2>1, <2>2
    <2>5. CASE \E k, l : k # l /\ Own(new[i], k) /\ Own(new[j], l)
      <3>1. PICK k, l : k # l /\ Own(new[i], k) /\ Own(new[j], l) BY <2>5
      <3>2. new[i].farm = w.mine[k] /\ new[j].farm = w.mine[l] /\ k \in DOMAIN w.mine /\ l \in DOMAIN w.mine
        <4> HIDE DEF Own
        <4> QED BY <1>15, <3>1
      <3>3. QED BY <2>4, <3>1, <3>2 DEF Mine
    <2>6. CASE \E k, l : k # l /\ Known(new[i], k) /\ Known(new[j], l)
      <3>1. PICK k, l : k # l /\ Known(new[i], k) /\ Known(new[j], l) BY <2>6
      <3>2. /\ new[i].farm = fence[B[k].latest].farm /\ new[j].farm = fence[B[l].latest].farm
            /\ k \in DOMAIN B /\ l \in DOMAIN B /\ B[k].latest \in w.payload /\ B[l].latest \in w.payload
        <4> HIDE DEF Known
        <4> QED BY <1>16, <3>1
      <3>3. B[k].latest # B[l].latest BY <1>5, <3>1, <3>2
      <3>4. QED BY <2>1, <2>4, <3>2, <3>3, Zenon
    <2>7. ASSUME NEW x, NEW y, NEW k, NEW l, Own(x, k), Known(y, l), x.farm = y.farm PROVE FALSE
      <3>1. /\ x.farm = w.mine[k] /\ k \in DOMAIN w.mine
            /\ y.farm = fence[B[l].latest].farm /\ B[l].latest \in w.payload
        <4> HIDE DEF Own, Known
        <4> QED BY <1>15, <1>16, <2>7
      <3>2. QED BY <2>7, <3>1, Zenon DEF Mine
    <2>8. QED
      <3> HIDE DEF Own, Known
      <3> QED BY <1>6, <2>3, <2>4, <2>5, <2>6, <2>7
  <1>19. ASSUME NEW i \in DOMAIN w.mine PROVE \E p \in N : place'[p].farm = w.mine[i]
    <2>1. PICK k \in DOMAIN new : new[k] = A[i] BY <1>4, <1>6
    <2>2. QED BY <1>4, <1>14, <2>1
  <1>20. ASSUME NEW g \in w.payload PROVE \E p \in N : place'[p].farm = fence[g].farm /\ place'[p].left
    <2>1. PICK i \in DOMAIN B : B[i].latest = g BY <1>5
    <2>2. PICK k \in DOMAIN new : new[k] = B[i] BY <1>6
    <2>3. QED BY <1>5, <1>14, <2>1, <2>2
  <1>21. CreatePlacesDone(h)
    <2>1. DOMAIN place \subseteq DOMAIN place' /\ \A p \in DOMAIN place : place'[p] = place[p] BY <1>7 DEF Longer
    <2>2. /\ w = work[h] /\ w.at = "create" /\ w \in WorkRow /\ UNCHANGED <<farm, fence, link, left>> /\ work'[h] = v
      BY <1>1, <1>2, <1>11
    <2>3. v.places = w.places \cup N BY <1>9, <1>10
    <2>4. \A p, q \in N : place'[p].farm = place'[q].farm =>
              \/ p = q
              \/ \E g, k \in w.payload : g # k /\ fence[g].farm = fence[k].farm /\ fence[g].farm = place'[p].farm
      BY <1>18
    <2> HIDE DEF w, v
    <2>5. QED BY <1>8, <1>10, <1>17, <1>19, <1>20, <2>1, <2>2, <2>3, <2>4 DEF CreatePlacesDone
  <1>22. QED BY <1>11, <1>12, <1>21
\* ReadLinks: which places are to be linked, and to which geofences.
ReadLinksDone(h) ==
    LET w == work[h]
        v == work'[h]
    IN  /\ w \in WorkRow /\ w.at = "attach"
        /\ v \in WorkRow /\ Base(v, w) /\ v.todo = w.todo /\ v.rest = w.rest /\ v.matched = w.matched
        /\ v.changes = w.changes /\ v.moved = w.moved /\ v.payload = w.payload /\ v.places = w.places
        /\ v.mine = w.mine /\ v.at = "link"
        /\ \A p \in DOMAIN v.links : /\ p \in w.places /\ p \in DOMAIN place /\ v.links[p] = place[p].latest
                                     /\ \A n \in DOMAIN link : ~(link[n].place = p /\ link[n].report = w.report)
        /\ \A p \in w.places :
              \/ \E n \in DOMAIN link : /\ link[n].report = w.report /\ link[n].place \in DOMAIN place
                                        /\ Latest(link[n].place).hash = Latest(p).hash
              \/ \E q \in DOMAIN v.links : Latest(q).hash = Latest(p).hash

\* ReadLinks does what ReadLinksDone says.
LEMMA ReadLinksStep ==
  ASSUME Types, NEW h \in Slots, work[h].places \subseteq DOMAIN place, ReadLinks(h)
  PROVE  ReadLinksDone(h) /\ Only(h) /\ UNCHANGED <<rows, left>> /\ Types'
  <1> DEFINE w == work[h]
             Alike(p) == {q \in w.places : Latest(q).hash = Latest(p).hash}
             new == {p \in w.places : Linked(h, Alike(p)) = {} /\ p = MaxOf(Alike(p))}
             links == [p \in new |-> place[p].latest]
             v == [w EXCEPT !.at = "link", !.links = links]
  <1>1. w.at = "attach" /\ Goes(h, v) /\ UNCHANGED <<rows, left>> BY DEF ReadLinks
  <1>2. Busy(h) /\ w \in WorkRow BY <1>1, BusyRow DEF Busy
  <1>3. DOMAIN place = 1 .. Len(place) /\ Len(place) \in Nat BY RowsOf
  <1>4. new \in SUBSET w.places /\ new \in SUBSET (DOMAIN place) /\ new \in SUBSET Nat BY <1>3
  <1>5. links \in [new -> Nat]
    <2>1. ASSUME NEW p \in new PROVE place[p].latest \in Nat
      <3>1. place[p] \in PlaceRow BY <1>4, RowsOf, Zenon
      <3>2. QED BY <3>1, Zenon DEF PlaceRow
    <2> HIDE DEF new
    <2>2. QED BY <2>1
  <1>6. links \in LinksOf
    <2> HIDE DEF links, new
    <2> QED BY <1>4, <1>5 DEF LinksOf
  <1>7. PICK l \in LinksOf : l = links BY <1>6, Zenon
  <1>8. /\ v \in WorkRow /\ Base(v, w) /\ v.todo = w.todo /\ v.rest = w.rest /\ v.matched = w.matched
        /\ v.changes = w.changes /\ v.moved = w.moved /\ v.payload = w.payload /\ v.places = w.places
        /\ v.mine = w.mine /\ v.at = "link" /\ v.links = l
    <2>1. v = [w EXCEPT !.at = "link", !.links = l] BY <1>7
    <2>2. "link" \in Stages BY DEF Stages
    <2> HIDE DEF v, w
    <2>3. v \in WorkRow BY <1>2, <2>1, <2>2, Zenon DEF WorkRow
    <2>4. QED BY <1>2, <2>1, <2>3 DEF WorkRow, Base
  <1>9. Only(h) /\ work'[h] = v /\ TypeW(v)
    <2> HIDE DEF v
    <2> QED BY <1>1, <1>8, GoesTo, Zenon DEF TypeW
  <1>10. Types'
    <2> HIDE DEF v
    <2> QED BY <1>1, <1>9, TypesOnly DEF Types, rows
  <1>11. ASSUME NEW p \in new
         PROVE  /\ p \in w.places /\ p \in DOMAIN place
                /\ \A n \in DOMAIN link : ~(link[n].place = p /\ link[n].report = w.report)
    <2>1. p \in Alike(p) /\ Linked(h, Alike(p)) = {} BY Zenon
    <2> HIDE DEF Alike
    <2>2. QED BY <1>4, <2>1 DEF Linked
  <1>12. ASSUME NEW p \in w.places
         PROVE  \/ \E n \in DOMAIN link : /\ link[n].report = w.report /\ link[n].place \in DOMAIN place
                                          /\ Latest(link[n].place).hash = Latest(p).hash
                \/ \E q \in new : Latest(q).hash = Latest(p).hash
    <2>1. CASE Linked(h, Alike(p)) # {}
      <3>1. PICK n \in DOMAIN link : link[n].place \in Alike(p) /\ link[n].report = w.report BY <2>1 DEF Linked
      <3>2. QED BY <3>1
    <2>2. CASE Linked(h, Alike(p)) = {}
      <3>1. Alike(p) \in SUBSET (1 .. Len(place)) /\ p \in Alike(p) BY <1>3
      <3>2. MaxOf(Alike(p)) \in Alike(p)
        <4> HIDE DEF Alike
        <4> QED BY <1>3, <3>1, MinMaxRows, Zenon
      <3>3. PICK q \in Alike(p) : q = MaxOf(Alike(p)) BY <3>2, Zenon
      <3>4. q \in w.places /\ Latest(q).hash = Latest(p).hash BY <3>3
      <3>5. Alike(q) = Alike(p) BY <3>4
      <3> HIDE DEF Alike
      <3>6. Linked(h, Alike(q)) = {} /\ q = MaxOf(Alike(q)) BY <2>2, <3>3, <3>5
      <3>7. q \in new BY <3>4, <3>6
      <3> HIDE DEF new
      <3>8. QED BY <3>4, <3>7
    <2>3. QED BY <2>1, <2>2, Zenon
  <1>13. ReadLinksDone(h)
    <2>1. /\ w = work[h] /\ w.at = "attach" /\ w \in WorkRow /\ work'[h] = v BY <1>1, <1>2, <1>9
    <2>2. DOMAIN l = new /\ \A p \in new : l[p] = place[p].latest BY <1>7
    <2>3. \A p \in DOMAIN l : /\ p \in w.places /\ p \in DOMAIN place /\ l[p] = place[p].latest
                              /\ \A n \in DOMAIN link : ~(link[n].place = p /\ link[n].report = w.report)
      <3> HIDE DEF new
      <3> QED BY <1>11, <2>2
    <2>4. \A p \in w.places :
              \/ \E n \in DOMAIN link : /\ link[n].report = w.report /\ link[n].place \in DOMAIN place
                                        /\ Latest(link[n].place).hash = Latest(p).hash
              \/ \E q \in DOMAIN l : Latest(q).hash = Latest(p).hash
      <3> HIDE DEF new
      <3> QED BY <1>12, <2>2
    <2> HIDE DEF w, v
    <2>5. QED BY <1>8, <2>1, <2>3, <2>4 DEF ReadLinksDone
  <1>14. QED BY <1>1, <1>9, <1>10, <1>13

\* A link that is added.
LinkOf(w, p) == [report |-> w.report, place |-> p, farm |-> place[p].farm,
                 fence |-> w.links[p], removed |-> FALSE, raced |-> w.raced]

\* WriteLinks: the links are added.
WriteLinksDone(h) ==
    LET w == work[h]
        v == work'[h]
        N == DOMAIN link' \ DOMAIN link
    IN  /\ w \in WorkRow /\ w.at = "link"
        /\ \/ v = Ended(w) /\ ~(w.kind = "import" /\ Len(w.todo) > 1)
           \/ /\ v \in WorkRow /\ Base(v, w) /\ v.rest = w.rest /\ v.matched = w.matched
              /\ v.changes = w.changes /\ v.moved = w.moved /\ v.payload = w.payload /\ v.places = w.places
              /\ v.mine = w.mine /\ v.links = <<>>
              /\ \/ w.kind = "import" /\ v.at = "look" /\ Len(w.todo) > 1 /\ v.todo = Tail(w.todo)
                 \/ w.kind = "request" /\ v.at = "sync" /\ v.todo = w.todo
        /\ DOMAIN link \subseteq DOMAIN link' /\ \A n \in DOMAIN link : link'[n] = link[n]
        /\ \A n \in N : \E p \in DOMAIN w.links : link'[n] = LinkOf(w, p)
        /\ \A n, m \in N : link'[n].place = link'[m].place => n = m
        /\ \A p \in DOMAIN w.links : \E n \in N : link'[n] = LinkOf(w, p)
        /\ UNCHANGED <<farm, fence, place, left>>

\* WriteLinks does what WriteLinksDone says.
LEMMA WriteLinksStep ==
  ASSUME Types, NEW h \in Slots, DOMAIN work[h].links \subseteq DOMAIN place, WriteLinks(h)
  PROVE  WriteLinksDone(h) /\ Only(h) /\ Types'
  <1> DEFINE w == work[h]
             S == DOMAIN w.links
             o == InOrder(S)
             new == [i \in DOMAIN o |-> [report |-> w.report, place |-> o[i], farm |-> place[o[i]].farm,
                                         fence |-> w.links[o[i]], removed |-> FALSE, raced |-> w.raced]]
             done == [w EXCEPT !.at = Finished(w), !.links = <<>>]
             v == IF done.at = "look" THEN [done EXCEPT !.todo = Tail(@)] ELSE done
             N == DOMAIN link' \ DOMAIN link
  <1>1. w.at = "link" /\ link' = link \o new /\ Goes(h, v) /\ UNCHANGED <<farm, fence, place, left>>
    BY Zenon DEF WriteLinks
  <1>2. Busy(h) /\ w \in WorkRow BY <1>1, BusyRow, Zenon DEF Busy
  <1>3. DOMAIN place = 1 .. Len(place) /\ Len(place) \in Nat BY RowsOf
  <1>4. S \in SUBSET Int /\ IsFiniteSet(S) /\ S \subseteq DOMAIN place
    <2>1. IsFiniteSet(1 .. Len(place)) BY <1>3, FS_Interval
    <2>2. IsFiniteSet(S) BY <1>3, <2>1, FS_Subset
    <2>3. QED BY <1>3, <2>2
  <1>5. \A p \in S : w.links[p] \in Nat
    <2>1. w.links \in LinksOf BY <1>2, WorkFields
    <2>2. PICK P \in SUBSET Nat : w.links \in [P -> Nat] BY <2>1 DEF LinksOf
    <2>3. QED BY <2>2, Zenon
  <1>6. PICK n \in Nat : n = Cardinality(S) BY <1>4, OrderOf
  <1>7. /\ o \in [1 .. n -> S]
        /\ \A i, j \in 1 .. n : i < j => o[i] < o[j]
        /\ \A x \in S : \E i \in 1 .. n : o[i] = x
    <2> HIDE DEF S
    <2> QED BY <1>4, <1>6, OrderOf
  <1>8. \A i, j \in 1 .. n : i # j => o[i] # o[j]
    <2>1. ASSUME NEW i \in 1 .. n, NEW j \in 1 .. n, i # j PROVE o[i] # o[j]
      <3> HIDE DEF o, S
      <3>1. o[i] \in S /\ o[j] \in S BY <1>7
      <3>2. o[i] \in Int /\ o[j] \in Int BY <1>4, <3>1, Zenon
      <3>3. i < j \/ j < i BY <2>1
      <3>4. QED BY <1>7, <3>2, <3>3
    <2>2. QED BY <2>1
  <1>9. new = [i \in 1 .. n |-> LinkOf(w, o[i])]
    <2>1. DOMAIN o = 1 .. n BY <1>7
    <2>2. QED BY <2>1 DEF LinkOf
  <1> HIDE DEF o, new
  <1>10. ASSUME NEW p \in S
         PROVE LinkOf(w, p) \in LinkRow /\ LinkOf(w, p).place = p
    <2>1. place[p] \in PlaceRow BY <1>4, RowsOf
    <2>2. PICK f \in Nat, g \in Nat, q \in Nat : f = place[p].farm /\ g = w.links[p] /\ q = p
      BY <1>3, <1>4, <1>5, <2>1 DEF PlaceRow
    <2>3. PICK r \in Reports, d \in BOOLEAN : r = w.report /\ d = w.raced BY <1>2, WorkFields
    <2>4. LinkOf(w, p) = [report |-> r, place |-> q, farm |-> f, fence |-> g, removed |-> FALSE, raced |-> d]
      BY <2>2, <2>3 DEF LinkOf
    <2>5. QED BY <2>2, <2>4 DEF LinkRow
  <1>11. new \in Seq(LinkRow) /\ DOMAIN new = 1 .. n /\ \A i \in 1 .. n : new[i] = LinkOf(w, o[i])
    <2>1. \A i \in 1 .. n : LinkOf(w, o[i]) \in LinkRow BY <1>7, <1>10
    <2>2. new \in [1 .. n -> LinkRow] BY <1>9, <2>1
    <2>3. new \in Seq(LinkRow) BY <2>2, SeqDef
    <2>4. QED BY <1>9, <2>3
  <1>12. link' \in Seq(LinkRow) /\ Longer(link', link, new)
    <2>1. link \in Seq(LinkRow) BY DEF Types
    <2>2. QED BY <1>1, <1>11, <2>1, RowsAdded, Zenon
  <1>13. ASSUME NEW m \in N PROVE \E i \in 1 .. n : m = Len(link) + i /\ link'[m] = LinkOf(w, o[i])
    <2>1. PICK i \in DOMAIN new : m = Len(link) + i /\ link'[m] = new[i] BY <1>12 DEF Longer
    <2>2. QED BY <1>11, <2>1
  <1>14. ASSUME NEW m \in N, NEW k \in N, link'[m].place = link'[k].place PROVE m = k
    <2>1. PICK i \in 1 .. n : m = Len(link) + i /\ link'[m] = LinkOf(w, o[i]) BY <1>13
    <2>2. PICK j \in 1 .. n : k = Len(link) + j /\ link'[k] = LinkOf(w, o[j]) BY <1>13
    <2>3. o[i] \in S /\ o[j] \in S BY <1>7
    <2>4. o[i] = o[j] BY <1>10, <1>14, <2>1, <2>2, <2>3
    <2>5. i = j BY <1>8, <2>4
    <2>6. QED BY <2>1, <2>2, <2>5
  <1>15. ASSUME NEW p \in S PROVE \E m \in N : link'[m] = LinkOf(w, p)
    <2>1. PICK i \in 1 .. n : o[i] = p BY <1>7
    <2>2. QED BY <1>11, <1>12, <2>1, Zenon DEF Longer
  <1>16. PICK a \in Stages : a = Finished(w) /\ a \in {"look", "sync", "done"}
    <2>1. w.kind \in Kinds BY <1>2, WorkFields
    <2>2. Finished(w) \in {"look", "sync", "done"} BY <2>1 DEF Finished, Kinds
    <2>3. QED BY <2>2 DEF Stages
  <1>17. /\ a = "look" => w.kind = "import" /\ Len(w.todo) > 1
         /\ a = "sync" => w.kind = "request"
         /\ a = "done" => ~(w.kind = "import" /\ Len(w.todo) > 1)
    <2>1. w.kind \in Kinds BY <1>2, WorkFields
    <2>2. QED BY <1>16, <2>1 DEF Finished, Kinds
  <1>18. /\ done \in WorkRow /\ Base(done, w) /\ done.rest = w.rest /\ done.matched = w.matched
         /\ done.changes = w.changes /\ done.moved = w.moved /\ done.payload = w.payload /\ done.places = w.places
         /\ done.mine = w.mine /\ done.links = <<>> /\ done.todo = w.todo /\ done.at = a
    <2>1. <<>> \in LinksOf
      <3>1. <<>> \in [{} -> Nat] OBVIOUS
      <3>2. QED BY <3>1, Zenon DEF LinksOf
    <2>2. PICK l \in LinksOf : l = <<>> BY <2>1
    <2>3. done = [w EXCEPT !.at = a, !.links = l] BY <1>16, <2>2
    <2> HIDE DEF done, w, S
    <2>4. done \in WorkRow BY <1>2, <2>3, Zenon DEF WorkRow
    <2>5. QED BY <1>2, <2>2, <2>3, <2>4 DEF WorkRow, Base
  <1>19. ASSUME a = "look"
         PROVE /\ v \in WorkRow /\ Base(v, w) /\ v.rest = w.rest /\ v.matched = w.matched
               /\ v.changes = w.changes /\ v.moved = w.moved /\ v.payload = w.payload /\ v.places = w.places
               /\ v.mine = w.mine /\ v.links = <<>> /\ v.at = "look" /\ v.todo = Tail(w.todo)
    <2>1. w.todo \in Seq(Seq(Items)) /\ w.todo # <<>>
      <3>1. w.todo \in Seq(Seq(Items)) BY <1>2, WorkFields
      <3>2. QED BY <1>17, <1>19, <3>1, EmptySeq
    <2>2. PICK t \in Seq(Seq(Items)) : t = Tail(w.todo) BY <2>1, HeadTailProperties, Zenon
    <2>3. v = [done EXCEPT !.todo = t] BY <1>18, <1>19, <2>2
    <2> HIDE DEF v, done, w
    <2>4. v \in WorkRow BY <1>18, <2>3, Zenon DEF WorkRow
    <2>5. QED BY <1>18, <1>19, <2>2, <2>3, <2>4, Zenon DEF WorkRow, Base
  <1>20. a # "look" => v = done BY <1>18
  <1> HIDE DEF v, done
  <1>21. /\ Only(h) /\ TypeW(work'[h])
         /\ IF a = "done" THEN work'[h] = Ended(w) ELSE work'[h] = v
    <2>1. CASE a = "done"
      <3>1. v.at = "done" /\ v.report = w.report /\ v.entries = w.entries BY <1>18, <1>20, <2>1 DEF Base
      <3>2. Only(h) /\ work'[h] = Ended(w) BY <1>1, <3>1, GoesTo DEF Ended
      <3> HIDE DEF w
      <3>3. QED BY <1>2, <2>1, <3>2, EndedIs
    <2>2. CASE a # "done"
      <3>1. v \in WorkRow /\ v.at = a BY <1>18, <1>19, <1>20
      <3>2. Only(h) /\ work'[h] = v BY <1>1, <2>2, <3>1, GoesTo, Zenon
      <3>3. QED BY <1>16, <2>2, <3>1, <3>2 DEF TypeW
    <2>3. QED BY <2>1, <2>2
  <1>22. Types' BY <1>1, <1>12, <1>21, TypesOnly DEF Types
  <1>23. WriteLinksDone(h)
    <2>1. DOMAIN link \subseteq DOMAIN link' /\ \A m \in DOMAIN link : link'[m] = link[m] BY <1>12 DEF Longer
    <2>2. \A m \in N : \E p \in S : link'[m] = LinkOf(w, p)
      <3>1. ASSUME NEW m \in N PROVE \E p \in S : link'[m] = LinkOf(w, p)
        <4>1. PICK i \in 1 .. n : link'[m] = LinkOf(w, o[i]) BY <1>13
        <4>2. o[i] \in S BY <1>7
        <4>3. QED BY <4>1, <4>2
      <3>2. QED BY <3>1
    <2>3. /\ w = work[h] /\ S = DOMAIN work[h].links /\ w.at = "link" /\ w \in WorkRow
          /\ UNCHANGED <<farm, fence, place, left>>
      BY <1>1, <1>2
    <2>4. \/ work'[h] = Ended(w) /\ ~(w.kind = "import" /\ Len(w.todo) > 1)
          \/ /\ work'[h] \in WorkRow /\ Base(work'[h], w) /\ work'[h].rest = w.rest /\ work'[h].matched = w.matched
             /\ work'[h].changes = w.changes /\ work'[h].moved = w.moved /\ work'[h].payload = w.payload
             /\ work'[h].places = w.places /\ work'[h].mine = w.mine /\ work'[h].links = <<>>
             /\ \/ w.kind = "import" /\ work'[h].at = "look" /\ Len(w.todo) > 1 /\ work'[h].todo = Tail(w.todo)
                \/ w.kind = "request" /\ work'[h].at = "sync" /\ work'[h].todo = w.todo
      <3> HIDE DEF w
      <3>1. CASE a = "done" BY <1>17, <1>21, <3>1
      <3>2. CASE a = "look" BY <1>17, <1>19, <1>21, <3>2
      <3>3. CASE a = "sync" BY <1>17, <1>18, <1>20, <1>21, <3>3
      <3>4. QED BY <1>16, <3>1, <3>2, <3>3
    <2> HIDE DEF w, S
    <2>5. QED BY <1>14, <1>15, <2>1, <2>2, <2>3, <2>4 DEF WriteLinksDone
  <1>24. QED BY <1>21, <1>22, <1>23
\* An event that disturbs leaves the bounds in their types.
LEMMA EventIs ==
  ASSUME Types, Event
  PROVE  left' \in [reports : SUBSET Reports, tasks : Nat, together : Nat, events : Nat]
  <1>1. PICK n \in Nat : n = left.events - 1 BY DEF Event, Types
  <1>2. left' = [left EXCEPT !.events = n] BY <1>1 DEF Event
  <1>3. QED BY <1>2, Zenon DEF Types

\* EditPlace: a user changes a place; here is the geofence that says it.
EditPlaceDone(n, s, here) ==
    LET l == link[n]
    IN  /\ n \in DOMAIN link /\ l.farm \in DOMAIN farm /\ l.place \in DOMAIN place
        /\ DOMAIN fence' = DOMAIN fence \cup {here}
        /\ here \in DOMAIN fence => fence[here].farm = l.farm /\ fence[here].hash \in farm'[l.farm].once
        /\ fence'[here].farm = l.farm /\ fence'[here].shape = s /\ fence'[here].hash = Hash(s) /\ fence'[here].primary
        /\ \A k \in DOMAIN fence : k # here =>
              fence'[k].farm = fence[k].farm /\ fence'[k].shape = fence[k].shape /\ fence'[k].hash = fence[k].hash
        /\ \A k \in DOMAIN fence : fence[k].farm # l.farm => fence'[k] = fence[k]
        /\ DOMAIN link' = DOMAIN link /\ \A m \in DOMAIN link : m # n => link'[m] = link[m]
        /\ link'[n].report = l.report /\ link'[n].place = l.place /\ link'[n].farm = l.farm
        /\ link'[n].removed = l.removed /\ link'[n].raced = l.raced /\ link'[n].fence = here
        /\ DOMAIN place' = DOMAIN place /\ \A p \in DOMAIN place : p # l.place => place'[p] = place[p]
        /\ place'[l.place].farm = place[l.place].farm /\ place'[l.place].left = place[l.place].left
        /\ place'[l.place].raced = place[l.place].raced /\ place'[l.place].latest = here
        /\ DOMAIN farm' = DOMAIN farm /\ \A f \in DOMAIN farm : f # l.farm => farm'[f] = farm[f]
        /\ SameFarm(farm'[l.farm], farm[l.farm]) /\ farm'[l.farm].said = s
        /\ farm[l.farm].once \subseteq farm'[l.farm].once
        /\ farm[l.farm].fate \cup {"edited"} \subseteq farm'[l.farm].fate
        /\ MovedTo(here) => "mixed" \in farm'[l.farm].fate
        /\ UNCHANGED work

\* What a user's change notes of a farm.
LEMMA EditedIs ==
  ASSUME NEW f \in FarmRow, NEW s \in Shape, NEW gone \in SUBSET Hashes, NEW mixed \in BOOLEAN
  PROVE  /\ Edited(f, s, gone, mixed) \in FarmRow /\ SameFarm(Edited(f, s, gone, mixed), f)
         /\ Edited(f, s, gone, mixed).said = s
         /\ Edited(f, s, gone, mixed).once = f.once \cup gone
         /\ f.fate \cup {"edited"} \subseteq Edited(f, s, gone, mixed).fate
         /\ mixed => "mixed" \in Edited(f, s, gone, mixed).fate
  <1>1. PICK e \in SUBSET Fates : e = f.fate \cup {"edited"} \cup {x \in {"mixed"} : mixed} BY Zenon DEF FarmRow, Fates
  <1>2. PICK o \in SUBSET Hashes : o = f.once \cup gone BY Zenon DEF FarmRow
  <1>3. "manual" \in Sources BY DEF Sources
  <1>4. PICK r : r = [f EXCEPT !.said = s, !.from = "manual", !.once = o, !.fate = e] OBVIOUS
  <1>5. r \in FarmRow BY <1>3, <1>4, Zenon DEF FarmRow
  <1>6. SameFarm(r, f) /\ r.said = s /\ r.once = o /\ r.fate = e BY <1>4 DEF FarmRow, SameFarm
  <1>7. Edited(f, s, gone, mixed) = r BY <1>1, <1>2, <1>4 DEF Edited
  <1>8. f.fate \cup {"edited"} \subseteq e /\ (mixed => "mixed" \in e) BY <1>1
  <1>9. QED BY <1>2, <1>5, <1>6, <1>7, <1>8

\* EditPlace does what EditPlaceDone says, wherever it writes.
LEMMA EditPlaceStep ==
  ASSUME Types, Refs, NEW n \in DOMAIN link, NEW s \in Shape, EditPlace(n, s)
  PROVE  (\E here \in Nat : EditPlaceDone(n, s, here)) /\ Types'
  <1> DEFINE l == link[n]
             G == {k \in FencesOf(l.farm) : fence[k].primary}
             g == MinOf(G)
             here == IF s.kind = "point" /\ HashOf(g) # Hash(s) THEN Len(fence) + 1 ELSE g
             gone == IF here = g THEN {HashOf(g)} ELSE {}
  <1>1. /\ Event
        /\ fence' = IF here = g THEN [fence EXCEPT ![g].shape = s, ![g].hash = Hash(s)]
                    ELSE Append([fence EXCEPT ![g].primary = FALSE], NewFence(l.farm, s))
        /\ link' = [link EXCEPT ![n].fence = here]
        /\ place' = [place EXCEPT ![l.place].latest = here]
        /\ farm' = [farm EXCEPT ![l.farm] = Edited(farm[l.farm], s, gone, MovedTo(here))]
        /\ UNCHANGED work
    BY DEF EditPlace
  <1>2. /\ l \in LinkRow /\ l.place \in DOMAIN place /\ place[l.place].farm = l.farm /\ l.farm \in DOMAIN farm
        /\ HasFence(l.farm) /\ l.farm \in Nat
    <2>1. l \in LinkRow BY RowsOf
    <2>2. l.place \in DOMAIN place /\ place[l.place].farm = l.farm BY DEF Refs, RowRefs
    <2>3. l.farm \in DOMAIN farm /\ HasFence(l.farm) BY <2>2 DEF Refs, RowRefs, HasFence
    <2>4. QED BY <2>1, <2>2, <2>3 DEF LinkRow
  <1>3. place[l.place] \in PlaceRow /\ farm[l.farm] \in FarmRow BY <1>2, RowsOf
  <1>4. fence \in Seq(FenceRow) /\ DOMAIN fence = 1 .. Len(fence) /\ Len(fence) \in Nat BY RowsOf DEF Types
  <1>5. G \in SUBSET (1 .. Len(fence)) /\ G # {}
    <2>1. PICK k \in DOMAIN fence : fence[k].farm = l.farm /\ fence[k].primary BY <1>2 DEF Refs, RowRefs
    <2>2. k \in G BY <2>1 DEF FencesOf
    <2>3. QED BY <1>4, <2>2 DEF FencesOf
  <1>6. PICK e \in DOMAIN fence : e = g /\ fence[e].farm = l.farm /\ fence[e].primary /\ e \in Nat
    <2>1. g \in G BY <1>4, <1>5, MinMaxRows, Zenon
    <2> HIDE DEF g
    <2>2. g \in DOMAIN fence /\ fence[g].farm = l.farm /\ fence[g].primary BY <2>1 DEF FencesOf
    <2>3. g \in Nat BY <1>4, <2>2
    <2>4. QED BY <2>2, <2>3
  <1>7. fence[e] \in FenceRow /\ fence[e].hash \in Hashes
    <2>1. fence[e] \in FenceRow BY RowsOf
    <2>2. QED BY <2>1 DEF FenceRow
  <1>8. PICK r \in Nat : r = here /\ (r = e \/ r = Len(fence) + 1)
    <2>1. here = g \/ here = Len(fence) + 1 OBVIOUS
    <2>2. Len(fence) + 1 \in Nat BY <1>4
    <2> HIDE DEF g, here
    <2>3. QED BY <1>6, <2>1, <2>2
  <1>9. PICK q \in SUBSET Hashes : q = gone /\ (r = e => fence[e].hash \in q) BY <1>6, <1>7, <1>8, Zenon DEF HashOf
  <1> HIDE DEF here, gone, g
  <1>10. /\ fence' \in Seq(FenceRow)
         /\ DOMAIN fence' = DOMAIN fence \cup {r}
         /\ fence'[r].farm = l.farm /\ fence'[r].shape = s /\ fence'[r].hash = Hash(s) /\ fence'[r].primary
         /\ \A k \in DOMAIN fence : k # r =>
               fence'[k].farm = fence[k].farm /\ fence'[k].shape = fence[k].shape /\ fence'[k].hash = fence[k].hash
         /\ \A k \in DOMAIN fence : fence[k].farm # l.farm => fence'[k] = fence[k]
         /\ r = e \/ r \notin DOMAIN fence
    <2>1. CASE r = e
      <3>1. PICK x \in Hashes : x = Hash(s) BY DEF Hashes
      <3>2. PICK z : z = [fence[e] EXCEPT !.shape = s, !.hash = x] OBVIOUS
      <3>3. z \in FenceRow BY <1>7, <3>2, Zenon DEF FenceRow
      <3>4. z.farm = fence[e].farm /\ z.shape = s /\ z.hash = x /\ z.primary = fence[e].primary
        BY <1>7, <3>2 DEF FenceRow
      <3>5. fence' = [fence EXCEPT ![e] = z]
        <4>1. fence' = [fence EXCEPT ![e].shape = s, ![e].hash = x] BY <1>1, <1>6, <1>8, <2>1, <3>1
        <4>2. QED BY <3>2, <4>1, Zenon
      <3>6. /\ fence' \in Seq(FenceRow) /\ DOMAIN fence' = DOMAIN fence /\ fence'[e] = z
            /\ \A k \in DOMAIN fence : k # e => fence'[k] = fence[k]
        BY <1>4, <3>3, <3>5, RowWritten
      <3> HIDE DEF l
      <3>7. QED BY <1>6, <2>1, <3>1, <3>4, <3>6, Zenon
    <2>2. CASE r = Len(fence) + 1 /\ r # e
      <3>1. PICK z : z = [fence[e] EXCEPT !.primary = FALSE] BY Zenon
      <3>2. z \in FenceRow BY <1>7, <3>1, Zenon DEF FenceRow
      <3>3. z.farm = fence[e].farm /\ z.shape = fence[e].shape /\ z.hash = fence[e].hash BY <1>7, <3>1 DEF FenceRow
      <3>4. PICK mid : mid = [fence EXCEPT ![e] = z] BY Zenon
      <3>5. fence' = Append(mid, NewFence(l.farm, s))
        <4>1. fence' = Append([fence EXCEPT ![e].primary = FALSE], NewFence(l.farm, s)) BY <1>1, <1>6, <1>8, <2>2
        <4>2. QED BY <3>1, <3>4, <4>1
      <3>6. /\ mid \in Seq(FenceRow) /\ DOMAIN mid = DOMAIN fence /\ mid[e] = z
            /\ \A k \in DOMAIN fence : k # e => mid[k] = fence[k]
        BY <1>4, <3>2, <3>4, RowWritten
      <3>7. Len(mid) = Len(fence)
        <4>1. DOMAIN mid = 1 .. Len(mid) /\ Len(mid) \in Nat BY <3>6, LenProperties
        <4>2. PICK a \in Nat, b \in Nat : a = Len(mid) /\ b = Len(fence) BY <1>4, <4>1, Zenon
        <4>3. 1 .. a = 1 .. b BY <1>4, <3>6, <4>1, <4>2
        <4>4. a = b
          <5>1. a = 0 \/ a \in 1 .. a BY <4>2
          <5>2. b = 0 \/ b \in 1 .. b BY <4>2
          <5>3. QED BY <4>2, <4>3, <5>1, <5>2
        <4>5. QED BY <4>2, <4>4
      <3>8. PICK x \in FenceRow : /\ x = NewFence(l.farm, s)
                                  /\ x.farm = l.farm /\ x.shape = s /\ x.hash = Hash(s) /\ x.primary
        <4> HIDE DEF l
        <4> QED BY <1>2, NewFenceIs
      <3>9. /\ fence' \in Seq(FenceRow) /\ Len(mid) + 1 \notin DOMAIN mid
            /\ DOMAIN fence' = DOMAIN mid \cup {Len(mid) + 1}
            /\ fence'[Len(mid) + 1] = x /\ \A k \in DOMAIN mid : fence'[k] = mid[k]
        <4>1. fence' = Append(mid, x) BY <3>5, <3>8
        <4>2. QED BY <3>6, <4>1, RowAdded
      <3> HIDE DEF l
      <3>10. r = Len(mid) + 1 BY <2>2, <3>7
      <3>11. \A k \in DOMAIN fence : fence'[k] = IF k = e THEN z ELSE fence[k] BY <3>6, <3>9
      <3>12. r \notin DOMAIN fence /\ DOMAIN fence' = DOMAIN fence \cup {r} /\ fence'[r] = x BY <3>6, <3>9, <3>10
      <3>13. QED BY <1>6, <3>3, <3>8, <3>9, <3>11, <3>12, Zenon
    <2>3. QED BY <1>8, <2>1, <2>2
  <1>11. /\ link' \in Seq(LinkRow) /\ DOMAIN link' = DOMAIN link /\ \A m \in DOMAIN link : m # n => link'[m] = link[m]
         /\ link'[n].report = l.report /\ link'[n].place = l.place /\ link'[n].farm = l.farm
         /\ link'[n].removed = l.removed /\ link'[n].raced = l.raced /\ link'[n].fence = r
    <2>1. PICK z : z = [l EXCEPT !.fence = r] BY Zenon
    <2>2. z \in LinkRow
      <3> HIDE DEF l
      <3> QED BY <1>2, <2>1 DEF LinkRow
    <2>3. /\ z.report = l.report /\ z.place = l.place /\ z.farm = l.farm
          /\ z.removed = l.removed /\ z.raced = l.raced /\ z.fence = r
      <3> HIDE DEF l
      <3> QED BY <1>2, <2>1 DEF LinkRow
    <2>4. link' = [link EXCEPT ![n] = z] BY <1>1, <1>8, <2>1
    <2>5. link \in Seq(LinkRow) BY DEF Types
    <2>6. /\ link' \in Seq(LinkRow) /\ DOMAIN link' = DOMAIN link /\ link'[n] = z
          /\ \A m \in DOMAIN link : m # n => link'[m] = link[m]
      BY <2>2, <2>4, <2>5, RowWritten
    <2>7. QED BY <2>3, <2>6
  <1>12. /\ place' \in Seq(PlaceRow) /\ DOMAIN place' = DOMAIN place
         /\ \A p \in DOMAIN place : p # l.place => place'[p] = place[p]
         /\ place'[l.place].farm = place[l.place].farm /\ place'[l.place].left = place[l.place].left
         /\ place'[l.place].raced = place[l.place].raced /\ place'[l.place].latest = r
    <2>1. PICK p \in DOMAIN place : p = l.place BY <1>2
    <2>2. PICK z : z = [place[p] EXCEPT !.latest = r] BY Zenon
    <2>3. place[p] \in PlaceRow BY <1>3, <2>1
    <2>4. z \in PlaceRow BY <2>2, <2>3 DEF PlaceRow
    <2>5. z.farm = place[p].farm /\ z.left = place[p].left /\ z.raced = place[p].raced /\ z.latest = r
      BY <2>2, <2>3 DEF PlaceRow
    <2>6. place' = [place EXCEPT ![p] = z] BY <1>1, <1>8, <2>1, <2>2
    <2>7. place \in Seq(PlaceRow) BY DEF Types
    <2>8. /\ place' \in Seq(PlaceRow) /\ DOMAIN place' = DOMAIN place /\ place'[p] = z
          /\ \A k \in DOMAIN place : k # p => place'[k] = place[k]
      BY <2>4, <2>6, <2>7, RowWritten
    <2>9. QED BY <2>1, <2>5, <2>8
  <1>13. /\ farm' \in Seq(FarmRow) /\ DOMAIN farm' = DOMAIN farm
         /\ \A f \in DOMAIN farm : f # l.farm => farm'[f] = farm[f]
         /\ SameFarm(farm'[l.farm], farm[l.farm]) /\ farm'[l.farm].said = s
         /\ farm'[l.farm].once = farm[l.farm].once \cup q
         /\ farm[l.farm].fate \cup {"edited"} \subseteq farm'[l.farm].fate
         /\ MovedTo(r) => "mixed" \in farm'[l.farm].fate
    <2>1. PICK f \in DOMAIN farm : f = l.farm BY <1>2
    <2>2. PICK mx \in BOOLEAN : mx = MovedTo(r) BY Zenon DEF MovedTo
    <2>3. PICK z : z = Edited(farm[f], s, q, mx) OBVIOUS
    <2>4. /\ z \in FarmRow /\ SameFarm(z, farm[f]) /\ z.said = s /\ z.once = farm[f].once \cup q
          /\ farm[f].fate \cup {"edited"} \subseteq z.fate /\ (mx => "mixed" \in z.fate)
      <3>1. PICK y \in FarmRow : y = farm[f] BY <1>3, <2>1
      <3>2. z = Edited(y, s, q, mx) BY <2>3, <3>1
      <3>3. /\ z \in FarmRow /\ SameFarm(z, y) /\ z.said = s /\ z.once = y.once \cup q
            /\ y.fate \cup {"edited"} \subseteq z.fate /\ (mx => "mixed" \in z.fate)
        BY <3>2, EditedIs, SMTT(30)
      <3>4. QED BY <3>1, <3>3
    <2>5. farm' = [farm EXCEPT ![f] = z] BY <1>1, <1>8, <1>9, <2>1, <2>2, <2>3
    <2>6. farm \in Seq(FarmRow) BY DEF Types
    <2>7. /\ farm' \in Seq(FarmRow) /\ DOMAIN farm' = DOMAIN farm /\ farm'[f] = z
          /\ \A k \in DOMAIN farm : k # f => farm'[k] = farm[k]
      BY <2>4, <2>5, <2>6, RowWritten
    <2>8. QED BY <2>1, <2>2, <2>4, <2>7
  <1>14. EditPlaceDone(n, s, r)
    <2>1. l = link[n] OBVIOUS
    <2>2. r \in DOMAIN fence => fence[r].farm = l.farm /\ fence[r].hash \in farm'[l.farm].once
      BY <1>6, <1>9, <1>10, <1>13
    <2>3. farm[l.farm].once \subseteq farm'[l.farm].once BY <1>13
    <2> HIDE DEF l
    <2>4. QED BY <1>1, <1>2, <1>10, <1>11, <1>12, <1>13, <2>1, <2>2, <2>3, Zenon DEF EditPlaceDone
  <1>15. Types' BY <1>1, <1>10, <1>11, <1>12, <1>13, EventIs, Zenon DEF Types, TypeW
  <1>16. QED BY <1>14, <1>15

\* RemoveLinks and RestoreLink: links are shown or not.
ShowsDone ==
    /\ DOMAIN link' = DOMAIN link
    /\ \A n \in DOMAIN link : /\ link'[n].report = link[n].report /\ link'[n].place = link[n].place
                              /\ link'[n].farm = link[n].farm /\ link'[n].fence = link[n].fence
                              /\ link'[n].raced = link[n].raced
    /\ UNCHANGED <<farm, fence, place, work>>

\* RemoveLinks only changes what is shown.
LEMMA RemoveLinksStep ==
  ASSUME Types, NEW L, RemoveLinks(L)
  PROVE  ShowsDone /\ Types'
  <1>1. /\ Event /\ UNCHANGED <<farm, fence, place, work>>
        /\ link' = [n \in DOMAIN link |-> IF n \in L THEN [link[n] EXCEPT !.removed = TRUE] ELSE link[n]]
    BY DEF RemoveLinks
  <1>2. DOMAIN link = 1 .. Len(link) /\ Len(link) \in Nat BY RowsOf
  <1>3. ASSUME NEW n \in DOMAIN link
        PROVE  /\ link'[n] \in LinkRow /\ link'[n].report = link[n].report /\ link'[n].place = link[n].place
               /\ link'[n].farm = link[n].farm /\ link'[n].fence = link[n].fence /\ link'[n].raced = link[n].raced
    <2>1. link[n] \in LinkRow BY RowsOf
    <2>2. PICK z : z = [link[n] EXCEPT !.removed = TRUE] BY Zenon
    <2>3. z \in LinkRow BY <2>1, <2>2, Zenon DEF LinkRow
    <2>4. /\ z.report = link[n].report /\ z.place = link[n].place
          /\ z.farm = link[n].farm /\ z.fence = link[n].fence /\ z.raced = link[n].raced
      BY <2>1, <2>2 DEF LinkRow
    <2>5. link'[n] = IF n \in L THEN z ELSE link[n] BY <1>1, <2>2
    <2>6. QED BY <2>1, <2>3, <2>4, <2>5
  <1>4. link' \in [1 .. Len(link) -> LinkRow] BY <1>1, <1>2, <1>3
  <1>5. link' \in Seq(LinkRow) /\ DOMAIN link' = DOMAIN link BY <1>1, <1>2, <1>4, SeqDef
  <1>6. ShowsDone BY <1>1, <1>3, <1>5 DEF ShowsDone
  <1>7. Types' BY <1>1, <1>5, EventIs DEF Types, TypeW
  <1>8. QED BY <1>6, <1>7

\* RestoreLink only changes what is shown.
LEMMA RestoreLinkStep ==
  ASSUME Types, NEW n \in DOMAIN link, RestoreLink(n)
  PROVE  ShowsDone /\ Types'
  <1>1. link' = [link EXCEPT ![n].removed = FALSE] /\ UNCHANGED <<farm, fence, place, work, left>> BY DEF RestoreLink
  <1>2. link[n] \in LinkRow /\ link \in Seq(LinkRow) BY RowsOf DEF Types
  <1>3. PICK z : z = [link[n] EXCEPT !.removed = FALSE] BY Zenon
  <1>4. z \in LinkRow BY <1>2, <1>3, Zenon DEF LinkRow
  <1>5. /\ z.report = link[n].report /\ z.place = link[n].place
        /\ z.farm = link[n].farm /\ z.fence = link[n].fence /\ z.raced = link[n].raced
    BY <1>2, <1>3 DEF LinkRow
  <1>6. link' = [link EXCEPT ![n] = z] BY <1>1, <1>3
  <1>7. /\ link' \in Seq(LinkRow) /\ DOMAIN link' = DOMAIN link /\ link'[n] = z
        /\ \A m \in DOMAIN link : m # n => link'[m] = link[m]
    BY <1>2, <1>4, <1>6, RowWritten
  <1>8. ShowsDone BY <1>1, <1>5, <1>7 DEF ShowsDone
  <1>9. Types' BY <1>1, <1>7 DEF Types, TypeW
  <1>10. QED BY <1>8, <1>9

\* DeleteFarm: a farm is marked as deleted.
DeleteFarmDone ==
    /\ DOMAIN farm' = DOMAIN farm
    /\ \A f \in DOMAIN farm :
          /\ farm'[f].cf = farm[f].cf /\ farm'[f].ids = farm[f].ids /\ farm'[f].said = farm[f].said
          /\ farm'[f].from = farm[f].from /\ farm'[f].fate = farm[f].fate
          /\ farm'[f].once = farm[f].once /\ farm'[f].again = farm[f].again
    /\ UNCHANGED <<fence, place, link, work>>

\* DeleteFarm does what DeleteFarmDone says.
LEMMA DeleteFarmStep ==
  ASSUME Types, NEW d \in DOMAIN farm, DeleteFarm(d)
  PROVE  DeleteFarmDone /\ Types'
  <1>1. Event /\ farm' = [farm EXCEPT ![d].deleted = TRUE] /\ UNCHANGED <<fence, place, link, work>> BY DEF DeleteFarm
  <1>2. farm[d] \in FarmRow /\ farm \in Seq(FarmRow) BY RowsOf DEF Types
  <1>3. PICK z : z = [farm[d] EXCEPT !.deleted = TRUE] BY Zenon
  <1>4. z \in FarmRow BY <1>2, <1>3, Zenon DEF FarmRow
  <1>5. /\ z.cf = farm[d].cf /\ z.ids = farm[d].ids /\ z.said = farm[d].said /\ z.from = farm[d].from
        /\ z.fate = farm[d].fate /\ z.once = farm[d].once /\ z.again = farm[d].again
    BY <1>2, <1>3 DEF FarmRow
  <1>6. farm' = [farm EXCEPT ![d] = z] BY <1>1, <1>3
  <1>7. /\ farm' \in Seq(FarmRow) /\ DOMAIN farm' = DOMAIN farm /\ farm'[d] = z
        /\ \A f \in DOMAIN farm : f # d => farm'[f] = farm[f]
    BY <1>2, <1>4, <1>6, RowWritten
  <1>8. DeleteFarmDone BY <1>1, <1>5, <1>7 DEF DeleteFarmDone
  <1>9. Types' BY <1>1, <1>7, EventIs DEF Types, TypeW
  <1>10. QED BY <1>8, <1>9
\* An import or a request that another one is at work beside.
Same(v, w) ==
    /\ v.at = w.at /\ v.kind = w.kind /\ v.report = w.report /\ v.todo = w.todo /\ v.rest = w.rest
    /\ v.matched = w.matched /\ v.changes = w.changes /\ v.moved = w.moved /\ v.mine = w.mine
    /\ v.payload = w.payload /\ v.places = w.places /\ v.links = w.links /\ v.partner = w.partner
    /\ v.entries = w.entries

\* What an import or a request starts from.
Fresh(v) ==
    /\ v \in WorkRow /\ v.at \in {"look", "attach"} /\ v.rest = <<>> /\ v.matched = {} /\ v.changes = {} /\ v.moved = None
    /\ v.mine = <<>> /\ v.payload = {} /\ v.links = <<>>
    /\ \A x \in v.entries : \E b \in DOMAIN v.todo : \E i \in DOMAIN v.todo[b] : v.todo[b][i] = x
    /\ \A b \in DOMAIN v.todo : \A i \in DOMAIN v.todo[b] : v.todo[b][i] \in v.entries
    /\ v.at = "look" => v.kind # "existing" /\ v.places = {}
    /\ v.at = "attach" => v.kind = "existing" /\ v.todo = <<>> /\ v.places \subseteq DOMAIN place
    /\ v.kind = "request" => Len(v.todo) = 1 /\ \A b \in DOMAIN v.todo : \A i \in DOMAIN v.todo[b] : v.todo[b][i].from = "manual"

\* Starts: one starts, and those that are at work know that they are not alone.
StartDone(h) ==
    /\ ~Busy(h) /\ DOMAIN work' = Slots
    /\ Fresh(work'[h]) /\ work'[h].raced = (\E k \in Slots \ {h} : Busy(k))
    /\ \A k \in Slots \ {h} : IF Busy(k) THEN work'[k] \in WorkRow /\ Same(work'[k], work[k]) /\ work'[k].raced
                              ELSE work'[k] = work[k]
    /\ UNCHANGED rows

\* An item says what is stored of it.
LEMMA ItemIs ==
  ASSUME NEW cf \in Nat, NEW from \in Sources, NEW said \in Shape
  PROVE  Item(cf, from, said) \in Items /\ Item(cf, from, said).from = from
  <1>1. PICK s \in Shape : s = Stored(from, said) BY StoredShape
  <1>2. PICK x \in Hashes : x = Hash(s) BY DEF Hashes
  <1>3. Item(cf, from, said) = [from |-> from, said |-> said, cf |-> cf, hash |-> x, shape |-> s]
    BY <1>1, <1>2 DEF Item
  <1>4. Item(cf, from, said) \in ItemRow BY <1>1, <1>2, <1>3 DEF ItemRow
  <1>5. QED BY <1>1, <1>2, <1>3, <1>4 DEF Items

\* The items of a batch of a file.
LEMMA FeaturesAre ==
  ASSUME NEW batch \in Seq([from : Sources, said : Shape])
  PROVE  Features(batch) \in Seq(Items)
  <1>1. DOMAIN batch = 1 .. Len(batch) /\ Len(batch) \in Nat BY LenProperties
  <1>2. ASSUME NEW i \in DOMAIN batch PROVE Feature(batch[i]) \in Items
    <2>1. PICK x \in [from : Sources, said : Shape] : x = batch[i] BY <1>1, ElementOfSeq, Zenon
    <2>2. None \in Nat BY DEF None
    <2>3. x.from \in Sources /\ x.said \in Shape OBVIOUS
    <2>4. QED BY <2>1, <2>2, <2>3, ItemIs DEF Feature
  <1>3. Features(batch) \in [1 .. Len(batch) -> Items] BY <1>1, <1>2 DEF Features
  <1>4. QED BY <1>1, <1>3, SeqDef

\* New work.
LEMMA NewWorkIs ==
  ASSUME NEW kind \in Kinds, NEW r \in Reports, NEW todo \in Seq(Seq(Items))
  PROVE  LET v == NewWork(kind, r, todo) IN
         /\ v \in WorkRow /\ v.at = "look" /\ v.kind = kind /\ v.report = r /\ v.todo = todo /\ v.rest = <<>>
         /\ v.matched = {} /\ v.changes = {} /\ v.moved = None /\ v.mine = <<>> /\ v.payload = {} /\ v.links = <<>>
         /\ v.places = {}
         /\ \A x \in v.entries : \E b \in DOMAIN v.todo : \E i \in DOMAIN v.todo[b] : v.todo[b][i] = x
         /\ \A b \in DOMAIN v.todo : \A i \in DOMAIN v.todo[b] : v.todo[b][i] \in v.entries
  <1> DEFINE es == UNION {ToSet(todo[b]) : b \in DOMAIN todo}
             v == NewWork(kind, r, todo)
  <1>1. \A b \in DOMAIN todo : todo[b] \in Seq(Items) BY ElementOfSeq, LenProperties
  <1>2. \A b \in DOMAIN todo : \A i \in DOMAIN todo[b] : todo[b][i] \in Items BY <1>1, ElementOfSeq, LenProperties
  <1>3. es \in SUBSET Items BY <1>2 DEF ToSet
  <1>4. \A x \in es : \E b \in DOMAIN todo : \E i \in DOMAIN todo[b] : todo[b][i] = x BY DEF ToSet
  <1>5. \A b \in DOMAIN todo : \A i \in DOMAIN todo[b] : todo[b][i] \in es BY DEF ToSet
  <1>6. PICK e \in SUBSET Items : e = es BY <1>3, Zenon
  <1>7. PICK l \in LinksOf : l = <<>>
    <2>1. <<>> \in [{} -> Nat] OBVIOUS
    <2>2. <<>> \in LinksOf BY <2>1, Zenon DEF LinksOf
    <2>3. QED BY <2>2
  <1>8. v = [at |-> "look", kind |-> kind, report |-> r, todo |-> todo, rest |-> <<>>,
             matched |-> {}, changes |-> {}, moved |-> 0, mine |-> <<>>, payload |-> {}, places |-> {},
             links |-> l, partner |-> FALSE, raced |-> FALSE, entries |-> e]
    BY <1>6, <1>7 DEF NewWork, None
  <1> HIDE DEF v
  <1>9. "look" \in Stages BY DEF Stages
  <1>10. v \in WorkRow BY <1>8, <1>9, EmptySeq DEF WorkRow
  <1>11. /\ v.at = "look" /\ v.kind = kind /\ v.report = r /\ v.todo = todo /\ v.rest = <<>>
         /\ v.matched = {} /\ v.changes = {} /\ v.moved = 0 /\ v.mine = <<>> /\ v.payload = {} /\ v.links = l
         /\ v.places = {} /\ v.entries = e
    BY <1>8
  <1> HIDE DEF es
  <1>12. /\ \A x \in v.entries : \E b \in DOMAIN v.todo : \E i \in DOMAIN v.todo[b] : v.todo[b][i] = x
         /\ \A b \in DOMAIN v.todo : \A i \in DOMAIN v.todo[b] : v.todo[b][i] \in v.entries
    BY <1>4, <1>5, <1>6, <1>11
  <1>13. v = NewWork(kind, r, todo) BY DEF v
  <1>14. QED BY <1>7, <1>10, <1>11, <1>12, <1>13 DEF None

\* Whatever starts, the others are told.
LEMMA StartsStep ==
  ASSUME Types, NEW h \in Slots, NEW w, Starts(h, w), Fresh(w)
  PROVE  StartDone(h) /\ Types'
  <1> DEFINE R == \E k \in Slots \ {h} : Busy(k)
  <1>1. /\ ~Busy(h) /\ left' = [left EXCEPT !.tasks = @ - 1] /\ left.tasks > 0
        /\ work' = [g \in Slots |->
                      IF g = h THEN [w EXCEPT !.raced = R]
                      ELSE IF Busy(g) THEN [work[g] EXCEPT !.raced = TRUE] ELSE work[g]]
        /\ UNCHANGED rows
    BY DEF Starts
  <1>2. w \in WorkRow BY DEF Fresh
  <1>3. PICK b \in BOOLEAN : b = R BY Zenon
  <1> HIDE DEF R
  <1>4. work'[h] = [w EXCEPT !.raced = b] BY <1>1, <1>3
  <1>5. PICK v : v = [w EXCEPT !.raced = b] BY Zenon
  <1>6. v \in WorkRow BY <1>2, <1>5, Zenon DEF WorkRow
  <1>7. Same(v, w) /\ v.raced = b BY <1>2, <1>5 DEF WorkRow, Same
  <1>8. work'[h] = v BY <1>4, <1>5
  <1>9. Fresh(v)
    <2>1. /\ w.at \in {"look", "attach"} /\ w.rest = <<>> /\ w.matched = {} /\ w.changes = {} /\ w.moved = None
          /\ w.mine = <<>> /\ w.payload = {} /\ w.links = <<>>
          /\ \A x \in w.entries : \E k \in DOMAIN w.todo : \E i \in DOMAIN w.todo[k] : w.todo[k][i] = x
          /\ \A k \in DOMAIN w.todo : \A i \in DOMAIN w.todo[k] : w.todo[k][i] \in w.entries
          /\ w.at = "look" => w.kind # "existing" /\ w.places = {}
          /\ w.at = "attach" => w.kind = "existing" /\ w.todo = <<>> /\ w.places \subseteq DOMAIN place
          /\ w.kind = "request" => Len(w.todo) = 1 /\ \A k \in DOMAIN w.todo : \A i \in DOMAIN w.todo[k] : w.todo[k][i].from = "manual"
      BY DEF Fresh
    <2>2. QED BY <1>6, <1>7, <2>1 DEF Fresh, Same
  <1>10. ASSUME NEW k \in Slots \ {h}, Busy(k)
         PROVE work'[k] \in WorkRow /\ Same(work'[k], work[k]) /\ work'[k].raced
    <2>1. work[k] \in WorkRow BY <1>10, BusyRow
    <2>2. PICK u : u = [work[k] EXCEPT !.raced = TRUE] BY Zenon
    <2>3. u \in WorkRow BY <2>1, <2>2, Zenon DEF WorkRow
    <2>4. Same(u, work[k]) /\ u.raced BY <2>1, <2>2 DEF WorkRow, Same
    <2>5. work'[k] = u BY <1>1, <1>10, <2>2
    <2>6. QED BY <2>3, <2>4, <2>5
  <1>11. \A k \in Slots \ {h} : ~Busy(k) => work'[k] = work[k] BY <1>1
  <1>12. StartDone(h)
    <2>1. DOMAIN work' = Slots BY <1>1
    <2>2. work'[h].raced = (\E k \in Slots \ {h} : Busy(k)) BY <1>3, <1>7, <1>8, Zenon DEF R
    <2>3. QED BY <1>1, <1>8, <1>9, <1>10, <1>11, <2>1, <2>2, Zenon DEF StartDone
  <1>13. left' \in [reports : SUBSET Reports, tasks : Nat, together : Nat, events : Nat]
    <2>1. PICK n \in Nat : n = left.tasks - 1 BY <1>1 DEF Types
    <2>2. left' = [left EXCEPT !.tasks = n] BY <1>1, <2>1
    <2>3. QED BY <2>2, Zenon DEF Types
  <1>14. ASSUME NEW k \in Slots PROVE TypeW(work'[k])
    <2>1. CASE k = h
      <3>1. v.at # "idle" /\ v.at # "done" BY <1>9 DEF Fresh
      <3>2. QED BY <1>6, <1>8, <2>1, <3>1 DEF TypeW
    <2>2. CASE k # h /\ Busy(k)
      <3>1. work'[k] \in WorkRow /\ work'[k].at = work[k].at BY <1>10, <2>2 DEF Same
      <3>2. QED BY <2>2, <3>1 DEF TypeW, Busy
    <2>3. CASE k # h /\ ~Busy(k) BY <1>11, <2>3 DEF Types
    <2>4. QED BY <2>1, <2>2, <2>3
  <1>15. Types' BY <1>1, <1>12, <1>13, <1>14, Zenon DEF Types, rows, StartDone, TypeW
  <1>16. QED BY <1>12, <1>15

\* Start does what StartDone says.
LEMMA StartStep ==
  ASSUME Types, NEW h \in Slots, Start(h)
  PROVE  StartDone(h) /\ Types'
  <1>1. PICK r \in left.reports :
           \/ \E file \in Files : StartImport(h, r, file)
           \/ \E q \in Requests : StartRequest(h, r, q)
           \/ \E p \in DOMAIN place : StartExisting(h, r, {p})
    BY Zenon DEF Start
  <1>2. r \in Reports BY <1>1 DEF Types
  <1>3. ASSUME NEW file \in Files, StartImport(h, r, file) PROVE StartDone(h) /\ Types'
    <2> DEFINE todo == [b \in DOMAIN file |-> Features(file[b])]
               v == NewWork("import", r, todo)
    <2>1. file \in Seq(Seq([from : Sources, said : Shape])) BY InputsAssumption, Zenon
    <2>2. DOMAIN file = 1 .. Len(file) /\ Len(file) \in Nat BY <2>1, LenProperties
    <2>3. \A b \in DOMAIN file : Features(file[b]) \in Seq(Items) BY <2>1, <2>2, ElementOfSeq, FeaturesAre, Zenon
    <2>4. todo \in [1 .. Len(file) -> Seq(Items)] BY <2>2, <2>3
    <2>5. todo \in Seq(Seq(Items)) BY <2>2, <2>4, SeqDef
    <2>6. Starts(h, v) BY <1>3 DEF StartImport
    <2> HIDE DEF todo
    <2>7. "import" \in Kinds BY DEF Kinds
    <2>8. Fresh(v)
      <3>1. /\ v \in WorkRow /\ v.at = "look" /\ v.kind = "import" /\ v.rest = <<>>
            /\ v.matched = {} /\ v.changes = {} /\ v.moved = None /\ v.mine = <<>> /\ v.payload = {} /\ v.links = <<>>
            /\ v.places = {}
            /\ \A x \in v.entries : \E b \in DOMAIN v.todo : \E i \in DOMAIN v.todo[b] : v.todo[b][i] = x
            /\ \A b \in DOMAIN v.todo : \A i \in DOMAIN v.todo[b] : v.todo[b][i] \in v.entries
        BY <1>2, <2>5, <2>7, NewWorkIs
      <3> HIDE DEF v
      <3>2. QED BY <3>1 DEF Fresh
    <2>9. QED BY <2>6, <2>8, StartsStep
  <1>4. ASSUME NEW q \in Requests, StartRequest(h, r, q) PROVE StartDone(h) /\ Types'
    <2> DEFINE es == [i \in DOMAIN q.entries |-> Entry(q.entries[i])]
               v == NewWork("request", r, <<es>>)
    <2>1. q.entries \in Seq([cf : Nat, said : Shape]) /\ q.partner \in BOOLEAN BY InputsAssumption, Zenon
    <2>2. DOMAIN q.entries = 1 .. Len(q.entries) /\ Len(q.entries) \in Nat BY <2>1, LenProperties
    <2>3. ASSUME NEW i \in DOMAIN q.entries PROVE Entry(q.entries[i]) \in Items /\ Entry(q.entries[i]).from = "manual"
      <3>1. PICK e \in [cf : Nat, said : Shape] : e = q.entries[i] BY <2>1, <2>2, ElementOfSeq, Zenon
      <3>2. e.cf \in Nat /\ e.said \in Shape /\ "manual" \in Sources BY DEF Sources
      <3>3. QED BY <3>1, <3>2, ItemIs DEF Entry
    <2>4. es \in [1 .. Len(q.entries) -> Items] BY <2>2, <2>3
    <2>5. es \in Seq(Items) /\ \A i \in DOMAIN es : es[i].from = "manual" BY <2>2, <2>3, <2>4, SeqDef
    <2>6. Starts(h, [v EXCEPT !.partner = q.partner]) BY <1>4 DEF StartRequest
    <2> HIDE DEF es
    <2>7. PICK todo \in Seq(Seq(Items)) : todo = <<es>>
      <3>1. <<es>> \in [1 .. 1 -> Seq(Items)] BY <2>5
      <3>2. <<es>> \in Seq(Seq(Items)) BY <3>1, SeqDef
      <3>3. QED BY <3>2, Zenon
    <2>8. Len(todo) = 1 /\ \A b \in DOMAIN todo : b = 1 /\ todo[b] = es BY <2>7
    <2>9. "request" \in Kinds BY DEF Kinds
    <2>10. PICK u : u = [v EXCEPT !.partner = q.partner] BY Zenon
    <2>11. Fresh(u)
      <3>1. v = NewWork("request", r, todo) BY <2>7
      <3> HIDE DEF v
      <3>2. /\ v \in WorkRow /\ v.at = "look" /\ v.kind = "request" /\ v.rest = <<>> /\ v.todo = todo
            /\ v.matched = {} /\ v.changes = {} /\ v.moved = None /\ v.mine = <<>> /\ v.payload = {} /\ v.links = <<>>
            /\ v.places = {}
            /\ \A x \in v.entries : \E b \in DOMAIN v.todo : \E i \in DOMAIN v.todo[b] : v.todo[b][i] = x
            /\ \A b \in DOMAIN v.todo : \A i \in DOMAIN v.todo[b] : v.todo[b][i] \in v.entries
        BY <1>2, <2>9, <3>1, NewWorkIs
      <3>3. PICK d \in BOOLEAN : d = q.partner BY <2>1
      <3>4. u = [v EXCEPT !.partner = d] BY <2>10, <3>3
      <3>5. u \in WorkRow BY <3>2, <3>4, Zenon DEF WorkRow
      <3>6. /\ u.at = "look" /\ u.kind = "request" /\ u.rest = <<>> /\ u.todo = todo
            /\ u.matched = {} /\ u.changes = {} /\ u.moved = None /\ u.mine = <<>> /\ u.payload = {} /\ u.links = <<>>
            /\ u.places = {} /\ u.entries = v.entries
        BY <3>2, <3>4 DEF WorkRow
      <3>7. /\ \A x \in u.entries : \E b \in DOMAIN u.todo : \E i \in DOMAIN u.todo[b] : u.todo[b][i] = x
            /\ \A b \in DOMAIN u.todo : \A i \in DOMAIN u.todo[b] : u.todo[b][i] \in u.entries
        BY <3>2, <3>6
      <3>8. Len(u.todo) = 1 /\ \A b \in DOMAIN u.todo : \A i \in DOMAIN u.todo[b] : u.todo[b][i].from = "manual"
        BY <2>5, <2>8, <3>6
      <3>9. QED BY <3>5, <3>6, <3>7, <3>8 DEF Fresh
    <2>12. QED BY <2>6, <2>10, <2>11, StartsStep
  <1>5. ASSUME NEW p \in DOMAIN place, StartExisting(h, r, {p}) PROVE StartDone(h) /\ Types'
    <2> DEFINE v == NewWork("existing", r, <<>>)
    <2>1. Starts(h, [v EXCEPT !.at = "attach", !.places = {p}]) BY <1>5 DEF StartExisting
    <2>2. "existing" \in Kinds BY DEF Kinds
    <2>3. PICK todo \in Seq(Seq(Items)) : todo = <<>> BY EmptySeq, Zenon
    <2>4. PICK u : u = [v EXCEPT !.at = "attach", !.places = {p}] OBVIOUS
    <2>5. Fresh(u)
      <3>1. v = NewWork("existing", r, todo) BY <2>3
      <3> HIDE DEF v
      <3>2. /\ v \in WorkRow /\ v.at = "look" /\ v.kind = "existing" /\ v.rest = <<>> /\ v.todo = todo
            /\ v.matched = {} /\ v.changes = {} /\ v.moved = None /\ v.mine = <<>> /\ v.payload = {} /\ v.links = <<>>
            /\ v.places = {}
            /\ \A x \in v.entries : \E b \in DOMAIN v.todo : \E i \in DOMAIN v.todo[b] : v.todo[b][i] = x
            /\ \A b \in DOMAIN v.todo : \A i \in DOMAIN v.todo[b] : v.todo[b][i] \in v.entries
        BY <1>2, <2>2, <3>1, NewWorkIs
      <3>3. PICK d \in SUBSET Nat : d = {p}
        <4>1. p \in Nat BY RowsOf
        <4>2. {p} \in SUBSET Nat BY <4>1
        <4>3. QED BY <4>2, Zenon
      <3>4. u = [v EXCEPT !.at = "attach", !.places = d] BY <2>4, <3>3
      <3>5. "attach" \in Stages BY DEF Stages
      <3>6. u \in WorkRow BY <3>2, <3>4, <3>5, Zenon DEF WorkRow
      <3>7. /\ u.at = "attach" /\ u.kind = "existing" /\ u.rest = <<>> /\ u.todo = todo
            /\ u.matched = {} /\ u.changes = {} /\ u.moved = None /\ u.mine = <<>> /\ u.payload = {} /\ u.links = <<>>
            /\ u.places = d /\ u.entries = v.entries
        BY <3>2, <3>4 DEF WorkRow
      <3>8. /\ \A x \in u.entries : \E b \in DOMAIN u.todo : \E i \in DOMAIN u.todo[b] : u.todo[b][i] = x
            /\ \A b \in DOMAIN u.todo : \A i \in DOMAIN u.todo[b] : u.todo[b][i] \in u.entries
        BY <3>2, <3>7
      <3>9. u.places \subseteq DOMAIN place /\ u.todo = <<>> BY <2>3, <3>3, <3>7
      <3>10. QED BY <3>6, <3>7, <3>8, <3>9 DEF Fresh
    <2>6. QED BY <2>1, <2>4, <2>5, StartsStep
  <1>6. QED BY <1>1, <1>3, <1>4, <1>5, Zenon

(***************************************************************************)
(* What every step leaves                                                  *)
(***************************************************************************)

\* Rows are never taken away, and what others know of them stays true.
FarmGrows(f) ==
    /\ f \in DOMAIN farm'
    /\ farm[f].ids \subseteq farm'[f].ids /\ farm[f].once \subseteq farm'[f].once
    /\ farm'[f].again = farm[f].again
    /\ farm[f].cf \in farm[f].ids => farm'[f].cf \in farm'[f].ids
    /\ farm[f].fate \ {"half"} \subseteq farm'[f].fate
    /\ farm[f].fate # {} => farm'[f].fate # {}
    /\ farm'[f].fate # {} \/ (farm'[f].said = farm[f].said /\ farm'[f].from = farm[f].from)
    /\ HasPlace(f) \/ (farm'[f].fate = farm[f].fate /\ farm'[f].said = farm[f].said /\ farm'[f].from = farm[f].from)

\* A geofence stays with its farm, and its farm has lain there.
FenceGrows(g) ==
    /\ g \in DOMAIN fence' /\ fence'[g].farm = fence[g].farm
    /\ fence'[g].hash = fence[g].hash \/ fence[g].hash \in farm'[fence[g].farm].once
    /\ \/ fence'[g].shape = fence[g].shape /\ fence'[g].hash = fence[g].hash
       \/ /\ HasPlace(fence[g].farm) /\ "edited" \in farm'[fence[g].farm].fate
          /\ MovedTo(g) => "mixed" \in farm'[fence[g].farm].fate

\* A place stays with its farm.
PlaceGrows(p) ==
    /\ p \in DOMAIN place'
    /\ place'[p].farm = place[p].farm /\ place'[p].left = place[p].left /\ place'[p].raced = place[p].raced

\* A link stays with its report and place.
LinkGrows(n) ==
    /\ n \in DOMAIN link'
    /\ link'[n].report = link[n].report /\ link'[n].place = link[n].place
    /\ link'[n].farm = link[n].farm /\ link'[n].raced = link[n].raced

\* All the rows.
Grows ==
    /\ \A f \in DOMAIN farm : FarmGrows(f)
    /\ \A g \in DOMAIN fence : FenceGrows(g)
    /\ \A p \in DOMAIN place : PlaceGrows(p)
    /\ \A n \in DOMAIN link : LinkGrows(n)

\* Farms that are as they were.
LEMMA FarmsSame ==
  ASSUME UNCHANGED farm
  PROVE  \A f \in DOMAIN farm : FarmGrows(f)
  BY DEF FarmGrows

\* A farm of which something is noted.
LEMMA FarmsGrow ==
  ASSUME NEW c \in DOMAIN farm, HasPlace(c), DOMAIN farm' = DOMAIN farm, \A f \in DOMAIN farm : f # c => farm'[f] = farm[f],
         SameFarm(farm'[c], farm[c]), farm[c].once \subseteq farm'[c].once,
         farm[c].fate \ {"half"} \subseteq farm'[c].fate, farm'[c].fate # {}
  PROVE  \A f \in DOMAIN farm : FarmGrows(f)
  <1>1. FarmGrows(c) BY DEF FarmGrows, SameFarm
  <1>2. \A f \in DOMAIN farm : f # c => FarmGrows(f) BY DEF FarmGrows
  <1>3. QED BY <1>1, <1>2

\* Tables that are as they were.
LEMMA SameGrow ==
  /\ UNCHANGED fence => \A g \in DOMAIN fence : FenceGrows(g)
  /\ UNCHANGED place => \A p \in DOMAIN place : PlaceGrows(p)
  /\ UNCHANGED link => \A n \in DOMAIN link : LinkGrows(n)
  /\ DOMAIN fence \subseteq DOMAIN fence' /\ (\A g \in DOMAIN fence : fence'[g] = fence[g])
       => \A g \in DOMAIN fence : FenceGrows(g)
  BY DEF FenceGrows, PlaceGrows, LinkGrows

\* Rows that are as they were.
LEMMA UnchangedGrows ==
  ASSUME UNCHANGED rows
  PROVE  Grows
  BY FarmsSame, SameGrow DEF Grows, rows

\* Rows grow when a request writes a geometry beside the old one.
LEMMA ChangeFenceGrows ==
  ASSUME Types, Refs, NEW h \in Slots, ChangeFenceDone(h)
  PROVE  Grows
  <1> DEFINE c == Current(work[h])
  <1>1. Busy(h) /\ work[h].changes # {} BY DEF ChangeFenceDone, Busy, Refs, WorkRefs
  <1>2. c.farm \in DOMAIN farm /\ HasPlace(c.farm) BY <1>1, CurrentIs
  <1>3. \A f \in DOMAIN farm : FarmGrows(f)
    <2>1. /\ DOMAIN farm' = DOMAIN farm /\ \A f \in DOMAIN farm : f # c.farm => farm'[f] = farm[f]
          /\ SameFarm(farm'[c.farm], farm[c.farm]) /\ farm[c.farm].once \subseteq farm'[c.farm].once
          /\ farm[c.farm].fate \ {"half"} \subseteq farm'[c.farm].fate /\ farm'[c.farm].fate # {}
      BY DEF ChangeFenceDone
    <2> HIDE DEF c
    <2>2. QED BY <1>2, <2>1, FarmsGrow
  <1>4. \A g \in DOMAIN fence : FenceGrows(g) BY SameGrow DEF ChangeFenceDone
  <1>5. UNCHANGED <<place, link>> BY DEF ChangeFenceDone
  <1>6. QED BY <1>3, <1>4, <1>5, SameGrow DEF Grows

\* Rows grow when a request moves a place.
LEMMA ChangePlaceGrows ==
  ASSUME Types, Refs, NEW h \in Slots, ChangePlaceDone(h)
  PROVE  Grows
  <1> DEFINE c == Current(work[h])
  <1>1. Busy(h) /\ work[h].changes # {} BY DEF ChangePlaceDone, Busy, Refs, WorkRefs
  <1>2. c.farm \in DOMAIN farm /\ HasPlace(c.farm) BY <1>1, CurrentIs
  <1>3. \A f \in DOMAIN farm : FarmGrows(f)
    <2>1. /\ DOMAIN farm' = DOMAIN farm /\ \A f \in DOMAIN farm : f # c.farm => farm'[f] = farm[f]
          /\ SameFarm(farm'[c.farm], farm[c.farm]) /\ farm[c.farm].once \subseteq farm'[c.farm].once
          /\ farm[c.farm].fate \ {"half"} \subseteq farm'[c.farm].fate /\ farm'[c.farm].fate # {}
      BY DEF ChangePlaceDone
    <2> HIDE DEF c
    <2>2. QED BY <1>2, <2>1, FarmsGrow
  <1>4. \A p \in DOMAIN place : PlaceGrows(p) BY DEF ChangePlaceDone, PlaceGrows
  <1>5. UNCHANGED <<fence, link>> BY DEF ChangePlaceDone
  <1>6. QED BY <1>3, <1>4, <1>5, SameGrow DEF Grows

\* Rows grow when the links of a place follow.
LEMMA RelinkGrows ==
  ASSUME Types, Refs, NEW h \in Slots, RelinkDone(h)
  PROVE  Grows
  <1> DEFINE c == Current(work[h])
  <1>1. Busy(h) /\ work[h].changes # {} BY DEF RelinkDone, Busy, Refs, WorkRefs
  <1>2. c.farm \in DOMAIN farm /\ HasPlace(c.farm) BY <1>1, CurrentIs
  <1>3. \A f \in DOMAIN farm : FarmGrows(f)
    <2>1. /\ DOMAIN farm' = DOMAIN farm /\ \A f \in DOMAIN farm : f # c.farm => farm'[f] = farm[f]
          /\ SameFarm(farm'[c.farm], farm[c.farm]) /\ farm[c.farm].once \subseteq farm'[c.farm].once
          /\ farm[c.farm].fate \ {"half"} \subseteq farm'[c.farm].fate /\ farm'[c.farm].fate # {}
      BY DEF RelinkDone
    <2> HIDE DEF c
    <2>2. QED BY <1>2, <2>1, FarmsGrow
  <1>4. \A n \in DOMAIN link : LinkGrows(n) BY DEF RelinkDone, LinkGrows
  <1>5. UNCHANGED <<fence, place>> BY DEF RelinkDone
  <1>6. QED BY <1>3, <1>4, <1>5, SameGrow DEF Grows

\* Rows grow when farms are added.
LEMMA CreateFarmsGrows ==
  ASSUME NEW h \in Slots, CreateFarmsDone(h)
  PROVE  Grows
  <1>1. \A f \in DOMAIN farm : FarmGrows(f) BY DEF CreateFarmsDone, FarmGrows
  <1>2. UNCHANGED <<fence, place, link>> BY DEF CreateFarmsDone
  <1>3. QED BY <1>1, <1>2, SameGrow DEF Grows

\* Rows grow when geofences are added.
LEMMA CreateFencesGrows ==
  ASSUME NEW h \in Slots, CreateFencesDone(h)
  PROVE  Grows
  <1>1. \A g \in DOMAIN fence : FenceGrows(g) BY SameGrow DEF CreateFencesDone
  <1>2. UNCHANGED <<farm, place, link>> BY DEF CreateFencesDone
  <1>3. QED BY <1>1, <1>2, SameGrow, FarmsSame DEF Grows

\* Rows grow when farms get their ids.
LEMMA SyncGrows ==
  ASSUME NEW h \in Slots, SyncDone(h)
  PROVE  Grows
  <1>1. \A f \in DOMAIN farm : FarmGrows(f) BY DEF SyncDone, FarmGrows
  <1>2. UNCHANGED <<fence, place, link>> BY DEF SyncDone
  <1>3. QED BY <1>1, <1>2, SameGrow DEF Grows

\* Rows grow when places are added.
LEMMA CreatePlacesGrows ==
  ASSUME NEW h \in Slots, CreatePlacesDone(h)
  PROVE  Grows
  <1>1. \A p \in DOMAIN place : PlaceGrows(p) BY DEF CreatePlacesDone, PlaceGrows
  <1>2. UNCHANGED <<farm, fence, link>> BY DEF CreatePlacesDone
  <1>3. QED BY <1>1, <1>2, SameGrow, FarmsSame DEF Grows

\* Rows grow when places are linked.
LEMMA WriteLinksGrows ==
  ASSUME NEW h \in Slots, WriteLinksDone(h)
  PROVE  Grows
  <1>1. \A n \in DOMAIN link : LinkGrows(n) BY DEF WriteLinksDone, LinkGrows
  <1>2. UNCHANGED <<farm, fence, place>> BY DEF WriteLinksDone
  <1>3. QED BY <1>1, <1>2, SameGrow, FarmsSame DEF Grows

\* Rows grow when a user edits a place.
LEMMA EditPlaceGrows ==
  ASSUME Refs, NEW n, NEW s, NEW here, EditPlaceDone(n, s, here)
  PROVE  Grows
  <1> DEFINE c == link[n].farm
  <1>1. n \in DOMAIN link /\ c \in DOMAIN farm /\ HasPlace(c)
    <2>1. n \in DOMAIN link /\ c \in DOMAIN farm /\ link[n].place \in DOMAIN place BY DEF EditPlaceDone
    <2>2. place[link[n].place].farm = c BY <2>1 DEF Refs, RowRefs
    <2>3. QED BY <2>1, <2>2 DEF HasPlace
  <1>2. \A f \in DOMAIN farm : FarmGrows(f)
    <2>1. /\ DOMAIN farm' = DOMAIN farm /\ \A f \in DOMAIN farm : f # c => farm'[f] = farm[f]
          /\ SameFarm(farm'[c], farm[c]) /\ farm[c].once \subseteq farm'[c].once
          /\ farm[c].fate \ {"half"} \subseteq farm'[c].fate /\ farm'[c].fate # {}
      BY DEF EditPlaceDone
    <2> HIDE DEF c
    <2>2. QED BY <1>1, <2>1, FarmsGrow
  <1>3. \A p \in DOMAIN place : PlaceGrows(p) BY DEF EditPlaceDone, PlaceGrows
  <1>4. \A m \in DOMAIN link : LinkGrows(m) BY DEF EditPlaceDone, LinkGrows
  <1>5. ASSUME NEW g \in DOMAIN fence PROVE FenceGrows(g)
    <2>1. CASE g # here BY <2>1 DEF EditPlaceDone, FenceGrows
    <2>2. CASE g = here
      <3>1. /\ fence[g].farm = c /\ fence[g].hash \in farm'[c].once /\ g \in DOMAIN fence' /\ fence'[g].farm = c
            /\ "edited" \in farm'[c].fate /\ (MovedTo(g) => "mixed" \in farm'[c].fate)
        BY <2>2 DEF EditPlaceDone
      <3> HIDE DEF c
      <3>2. QED BY <1>1, <3>1 DEF FenceGrows
    <2>3. QED BY <2>1, <2>2
  <1>6. QED BY <1>2, <1>3, <1>4, <1>5 DEF Grows

\* Rows grow when links are removed or restored.
LEMMA ShowsGrows ==
  ASSUME ShowsDone
  PROVE  Grows
  <1>1. \A n \in DOMAIN link : LinkGrows(n) BY DEF ShowsDone, LinkGrows
  <1>2. UNCHANGED <<farm, fence, place>> BY DEF ShowsDone
  <1>3. QED BY <1>1, <1>2, SameGrow, FarmsSame DEF Grows

\* Rows grow when a farm is deleted.
LEMMA DeleteFarmGrows ==
  ASSUME DeleteFarmDone
  PROVE  Grows
  <1>1. \A f \in DOMAIN farm : FarmGrows(f) BY DEF DeleteFarmDone, FarmGrows
  <1>2. UNCHANGED <<fence, place, link>> BY DEF DeleteFarmDone
  <1>3. QED BY <1>1, <1>2, SameGrow DEF Grows

\* What is known of a farm stays true.
LEMMA StaysTrue ==
  ASSUME Grows, NEW f \in DOMAIN farm
  PROVE  /\ HasFence(f) => HasFence(f)'
         /\ HasPlace(f) => HasPlace(f)'
         /\ \A x : LaidAt(f, x) => LaidAt(f, x)'
  <1>1. HasFence(f) => HasFence(f)' BY DEF Grows, FenceGrows, HasFence
  <1>2. HasPlace(f) => HasPlace(f)' BY DEF Grows, PlaceGrows, HasPlace
  <1>3. ASSUME NEW x, LaidAt(f, x) PROVE LaidAt(f, x)'
    <2>1. CASE x \in farm[f].once BY <2>1 DEF Grows, FarmGrows, LaidAt
    <2>2. ASSUME NEW g \in DOMAIN fence, fence[g].farm = f, fence[g].hash = x PROVE LaidAt(f, x)'
      BY <2>2 DEF Grows, FenceGrows, LaidAt
    <2>3. QED BY <1>3, <2>1, <2>2 DEF LaidAt
  <1>4. QED BY <1>1, <1>2, <1>3

(***************************************************************************)
(* Rows and work refer to rows that exist                                  *)
(***************************************************************************)

\* An import or a request that reads, and one that writes.
Reads(h) ==
    /\ LookDone(h) \/ LookRequestDone(h) \/ ReadPlacesDone(h) \/ ReadLinksDone(h)
    /\ UNCHANGED rows
Writes(h) ==
    \/ ChangeFenceDone(h) \/ ChangePlaceDone(h) \/ RelinkDone(h)
    \/ CreateFarmsDone(h) \/ CreateFencesDone(h) \/ SyncDone(h)
    \/ CreatePlacesDone(h) \/ WriteLinksDone(h)

\* A user edits a place.
Edits == \E n \in Nat, s \in Shape, here \in Nat : EditPlaceDone(n, s, here)

\* Whatever happens is one of these.
Moves ==
    \/ UNCHANGED vars
    \/ \E h \in Slots : Only(h) /\ (Reads(h) \/ Writes(h))
    \/ \E h \in Slots : EndsDone(h)
    \/ \E h \in Slots : StartDone(h)
    \/ Edits \/ ShowsDone \/ DeleteFarmDone

\* Whatever happens, rows grow.
LEMMA MovesGrow ==
  ASSUME Types, Refs, Moves
  PROVE  Grows
  <1>1. CASE UNCHANGED vars BY <1>1, UnchangedGrows DEF vars
  <1>2. ASSUME NEW h \in Slots, Reads(h) PROVE Grows BY <1>2, UnchangedGrows DEF Reads
  <1>3. ASSUME NEW h \in Slots, Writes(h) PROVE Grows
    BY <1>3, ChangeFenceGrows, ChangePlaceGrows, RelinkGrows, CreateFarmsGrows, CreateFencesGrows, SyncGrows,
       CreatePlacesGrows, WriteLinksGrows DEF Writes
  <1>4. ASSUME NEW h \in Slots, EndsDone(h) PROVE Grows BY <1>4, UnchangedGrows DEF EndsDone
  <1>5. ASSUME NEW h \in Slots, StartDone(h) PROVE Grows BY <1>5, UnchangedGrows DEF StartDone
  <1>6. CASE Edits BY <1>6, EditPlaceGrows DEF Edits
  <1>7. CASE ShowsDone BY <1>7, ShowsGrows
  <1>8. CASE DeleteFarmDone BY <1>8, DeleteFarmGrows
  <1>9. QED BY <1>1, <1>2, <1>3, <1>4, <1>5, <1>6, <1>7, <1>8 DEF Moves

\* What comes of the others: nothing, or they are told that they are not alone.
Others(k) == Busy(k)' => Busy(k) /\ (work'[k] = work[k] \/ (Same(work'[k], work[k]) /\ work'[k].raced))

\* So it is beside one that takes a step,
LEMMA OnlyOthers ==
  ASSUME NEW h \in Slots, Only(h)
  PROVE  \A k \in Slots \ {h} : Others(k)
  BY DEF Only, Others, Busy

\* beside one that starts,
LEMMA StartOthers ==
  ASSUME NEW h \in Slots, StartDone(h)
  PROVE  \A k \in Slots \ {h} : Others(k)
  BY DEF StartDone, Others, Busy

\* and when nobody does.
LEMMA AllOthers ==
  ASSUME UNCHANGED work
  PROVE  \A k \in Slots : Others(k)
  BY DEF Others, Busy

\* The same work, or the same but for one more at work beside it.
LEMMA SameWork ==
  ASSUME NEW k \in Slots, Others(k), Busy(k)'
  PROVE  Busy(k) /\ Same(work'[k], work[k])
  BY DEF Others, Same

\* What is known to work is known when rows grow.
LEMMA WorkRefsStay ==
  ASSUME Types, Refs, Grows, NEW k \in Slots, Busy(k), NEW v, Same(v, work[k])
  PROVE  WorkRefs(v)'
  <1> DEFINE w == work[k]
  <1>1. w \in WorkRow BY BusyRow
  <1>2. WorkRefs(w) BY DEF Refs
  <1>3. /\ v.at = w.at /\ v.kind = w.kind /\ v.todo = w.todo /\ v.matched = w.matched /\ v.changes = w.changes
        /\ v.moved = w.moved /\ v.payload = w.payload /\ v.places = w.places /\ v.links = w.links
    BY DEF Same
  <1>4. \A m \in w.matched : m.id \in DOMAIN fence' /\ fence'[m.id].farm = m.farm /\ LaidAt(m.farm, m.hash)'
    <2> SUFFICES ASSUME NEW m \in w.matched
                 PROVE  m.id \in DOMAIN fence' /\ fence'[m.id].farm = m.farm /\ LaidAt(m.farm, m.hash)'
      OBVIOUS
    <2>1. m.id \in DOMAIN fence /\ fence[m.id].farm = m.farm /\ LaidAt(m.farm, m.hash) BY <1>2 DEF WorkRefs
    <2>2. m.farm \in DOMAIN farm BY <2>1 DEF Refs, RowRefs
    <2>3. QED BY <2>1, <2>2, StaysTrue DEF Grows, FenceGrows
  <1>5. \A c \in w.changes : c.place \in DOMAIN place' /\ place'[c.place].farm = c.farm /\ c.shape = c.said
    BY <1>2 DEF WorkRefs, Grows, PlaceGrows
  <1>6. w.at \in {"change", "move", "relink"} => w.changes # {} /\ w.kind = "request" BY <1>2 DEF WorkRefs
  <1>7. w.at \in {"move", "relink"} => w.moved \in DOMAIN fence' /\ fence'[w.moved].farm = Current(w).farm
    BY <1>2 DEF WorkRefs, Grows, FenceGrows
  <1>8. w.at = "move" => fence'[w.moved].shape = Current(w).shape \/ "mixed" \in farm'[Current(w).farm].fate
    <2> SUFFICES ASSUME w.at = "move"
                 PROVE  fence'[w.moved].shape = Current(w).shape \/ "mixed" \in farm'[Current(w).farm].fate
      OBVIOUS
    <2>1. /\ w.moved \in DOMAIN fence /\ fence[w.moved].farm = Current(w).farm
          /\ fence[w.moved].shape = Current(w).shape \/ "mixed" \in farm[Current(w).farm].fate
      BY <1>2 DEF WorkRefs
    <2>2. Current(w).farm \in DOMAIN farm BY <1>6, CurrentIs
    <2>3. MovedTo(w.moved) BY DEF MovedTo
    <2>4. fence'[w.moved].shape = fence[w.moved].shape \/ "mixed" \in farm'[Current(w).farm].fate
      BY <2>1, <2>3 DEF Grows, FenceGrows
    <2>5. "mixed" \in farm[Current(w).farm].fate => "mixed" \in farm'[Current(w).farm].fate
      BY <2>2 DEF Grows, FarmGrows
    <2>6. QED BY <2>1, <2>4, <2>5
  <1>9. w.payload \subseteq DOMAIN fence' BY <1>2 DEF WorkRefs, Grows, FenceGrows
  <1>10. w.places \subseteq DOMAIN place' BY <1>2 DEF WorkRefs, Grows, PlaceGrows
  <1>11. \A p \in DOMAIN w.links :
            p \in DOMAIN place' /\ w.links[p] \in DOMAIN fence' /\ fence'[w.links[p]].farm = place'[p].farm
    BY <1>2 DEF WorkRefs, Grows, PlaceGrows, FenceGrows
  <1>12. /\ w.kind = "request" => \A b \in DOMAIN w.todo : \A i \in DOMAIN w.todo[b] : w.todo[b][i].from = "manual"
         /\ w.at = "places" => w.kind = "import"
         /\ w.kind = "existing" => w.at \in {"attach", "link"}
    BY <1>2 DEF WorkRefs
  <1>13. Current(v) = Current(w) BY <1>3 DEF Current
  <1> HIDE DEF w
  <1>14. QED BY <1>3, <1>4, <1>5, <1>6, <1>7, <1>8, <1>9, <1>10, <1>11, <1>12, <1>13 DEF WorkRefs

\* The references of the rows: what is needed of the new geofences, places and
\* links.
LEMMA RowRefsGrow ==
  ASSUME RowRefs, Grows,
         \A f \in DOMAIN farm' : f \in DOMAIN farm \/ farm'[f].cf \in farm'[f].ids,
         \A g \in DOMAIN fence' : fence'[g].hash = Hash(fence'[g].shape) /\ (g \in DOMAIN fence \/ fence'[g].farm \in DOMAIN farm'),
         \A p \in DOMAIN place' : /\ p \in DOMAIN place \/ place'[p].farm \in DOMAIN farm'
                                  /\ place'[p].latest \in DOMAIN fence' /\ fence'[place'[p].latest].farm = place'[p].farm,
         \A n \in DOMAIN link' : /\ n \in DOMAIN link \/ (link'[n].place \in DOMAIN place' /\ place'[link'[n].place].farm = link'[n].farm)
                                 /\ link'[n].fence \in DOMAIN fence' /\ fence'[link'[n].fence].farm = link'[n].farm,
         \A g \in DOMAIN fence' : \E k \in DOMAIN fence' : fence'[k].farm = fence'[g].farm /\ fence'[k].primary
  PROVE  RowRefs'
  <1>1. \A g \in DOMAIN fence' : fence'[g].farm \in DOMAIN farm' /\ fence'[g].hash = Hash(fence'[g].shape)
    BY DEF RowRefs, Grows, FenceGrows, FarmGrows
  <1>2. \A p \in DOMAIN place' : place'[p].farm \in DOMAIN farm'
    BY DEF RowRefs, Grows, PlaceGrows, FarmGrows
  <1>3. \A n \in DOMAIN link' : link'[n].place \in DOMAIN place' /\ place'[link'[n].place].farm = link'[n].farm
    BY DEF RowRefs, Grows, LinkGrows, PlaceGrows
  <1>4. \A f \in DOMAIN farm' : farm'[f].cf \in farm'[f].ids BY DEF RowRefs, Grows, FarmGrows
  <1>5. \A f \in DOMAIN farm' : HasFence(f)' => \E g \in DOMAIN fence' : fence'[g].farm = f /\ fence'[g].primary
    BY DEF HasFence
  <1>6. QED BY <1>1, <1>2, <1>3, <1>4, <1>5 DEF RowRefs

\* What is needed when the geofences stay as they are, and perhaps some are
\* added.
LEMMA RowRefsKept ==
  ASSUME RowRefs, Grows,
         \A f \in DOMAIN farm' : f \in DOMAIN farm \/ farm'[f].cf \in farm'[f].ids,
         \A g \in DOMAIN fence : fence'[g] = fence[g],
         \A g \in DOMAIN fence' \ DOMAIN fence :
            fence'[g].farm \in DOMAIN farm' /\ fence'[g].hash = Hash(fence'[g].shape) /\ fence'[g].primary,
         \A p \in DOMAIN place' : \/ p \in DOMAIN place /\ place'[p].latest = place[p].latest
                                  \/ /\ place'[p].farm \in DOMAIN farm'
                                     /\ place'[p].latest \in DOMAIN fence' /\ fence'[place'[p].latest].farm = place'[p].farm,
         \A n \in DOMAIN link' : \/ n \in DOMAIN link /\ link'[n].fence = link[n].fence
                                 \/ /\ n \in DOMAIN link \/ (link'[n].place \in DOMAIN place' /\ place'[link'[n].place].farm = link'[n].farm)
                                    /\ link'[n].fence \in DOMAIN fence' /\ fence'[link'[n].fence].farm = link'[n].farm
  PROVE  RowRefs'
  <1>1. \A g \in DOMAIN fence' : fence'[g].hash = Hash(fence'[g].shape) /\ (g \in DOMAIN fence \/ fence'[g].farm \in DOMAIN farm')
    BY DEF RowRefs
  <1>2. \A p \in DOMAIN place' : /\ p \in DOMAIN place \/ place'[p].farm \in DOMAIN farm'
                                 /\ place'[p].latest \in DOMAIN fence' /\ fence'[place'[p].latest].farm = place'[p].farm
    BY DEF RowRefs, Grows, PlaceGrows, FenceGrows
  <1>3. \A n \in DOMAIN link' : /\ n \in DOMAIN link \/ (link'[n].place \in DOMAIN place' /\ place'[link'[n].place].farm = link'[n].farm)
                                /\ link'[n].fence \in DOMAIN fence' /\ fence'[link'[n].fence].farm = link'[n].farm
    BY DEF RowRefs, Grows, LinkGrows, FenceGrows
  <1>4. \A g \in DOMAIN fence' : \E k \in DOMAIN fence' : fence'[k].farm = fence'[g].farm /\ fence'[k].primary
    <2> SUFFICES ASSUME NEW g \in DOMAIN fence' PROVE \E k \in DOMAIN fence' : fence'[k].farm = fence'[g].farm /\ fence'[k].primary
      OBVIOUS
    <2>1. CASE g \notin DOMAIN fence BY <2>1
    <2>2. CASE g \in DOMAIN fence
      <3>1. fence[g].farm \in DOMAIN farm /\ HasFence(fence[g].farm) BY <2>2 DEF RowRefs, HasFence
      <3>2. PICK k \in DOMAIN fence : fence[k].farm = fence[g].farm /\ fence[k].primary BY <3>1 DEF RowRefs
      <3>3. k \in DOMAIN fence' /\ fence'[k] = fence[k] /\ fence'[g] = fence[g] BY <2>2, <3>2 DEF Grows, FenceGrows
      <3>4. QED BY <3>2, <3>3
    <2>3. QED BY <2>1, <2>2
  <1>5. QED BY <1>1, <1>2, <1>3, <1>4, RowRefsGrow

\* An edited geofence.
LEMMA RowRefsEdited ==
  ASSUME RowRefs, Grows, NEW n, NEW s, NEW here, EditPlaceDone(n, s, here)
  PROVE  RowRefs'
  <1> DEFINE l == link[n]
  <1>1. /\ n \in DOMAIN link /\ l.farm \in DOMAIN farm /\ l.place \in DOMAIN place
        /\ DOMAIN fence' = DOMAIN fence \cup {here}
        /\ here \in DOMAIN fence => fence[here].farm = l.farm
        /\ fence'[here].farm = l.farm /\ fence'[here].shape = s /\ fence'[here].hash = Hash(s) /\ fence'[here].primary
        /\ \A k \in DOMAIN fence : k # here =>
              fence'[k].farm = fence[k].farm /\ fence'[k].shape = fence[k].shape /\ fence'[k].hash = fence[k].hash
        /\ \A k \in DOMAIN fence : fence[k].farm # l.farm => fence'[k] = fence[k]
        /\ DOMAIN link' = DOMAIN link /\ \A m \in DOMAIN link : m # n => link'[m] = link[m]
        /\ link'[n].place = l.place /\ link'[n].farm = l.farm /\ link'[n].fence = here
        /\ DOMAIN place' = DOMAIN place /\ \A p \in DOMAIN place : p # l.place => place'[p] = place[p]
        /\ place'[l.place].farm = place[l.place].farm /\ place'[l.place].latest = here
        /\ DOMAIN farm' = DOMAIN farm
    BY DEF EditPlaceDone
  <1>2. l.place \in DOMAIN place /\ place[l.place].farm = l.farm BY <1>1 DEF RowRefs
  <1> HIDE DEF l
  <1>3. \A g \in DOMAIN fence' : fence'[g].hash = Hash(fence'[g].shape) /\ (g \in DOMAIN fence \/ fence'[g].farm \in DOMAIN farm')
    BY <1>1 DEF RowRefs
  <1>4. \A p \in DOMAIN place' : /\ p \in DOMAIN place
                                 /\ place'[p].latest \in DOMAIN fence' /\ fence'[place'[p].latest].farm = place'[p].farm
    <2> SUFFICES ASSUME NEW p \in DOMAIN place' PROVE /\ p \in DOMAIN place
                                 /\ place'[p].latest \in DOMAIN fence' /\ fence'[place'[p].latest].farm = place'[p].farm
      OBVIOUS
    <2>1. CASE p = l.place BY <1>1, <1>2, <2>1
    <2>2. CASE p # l.place
      <3>1. p \in DOMAIN place /\ place'[p] = place[p] BY <1>1, <2>2
      <3>2. QED BY <3>1 DEF RowRefs, Grows, FenceGrows
    <2>3. QED BY <2>1, <2>2
  <1>5. \A m \in DOMAIN link' : /\ m \in DOMAIN link
                                /\ link'[m].fence \in DOMAIN fence' /\ fence'[link'[m].fence].farm = link'[m].farm
    <2> SUFFICES ASSUME NEW m \in DOMAIN link' PROVE /\ m \in DOMAIN link
                                /\ link'[m].fence \in DOMAIN fence' /\ fence'[link'[m].fence].farm = link'[m].farm
      OBVIOUS
    <2>1. CASE m = n BY <1>1, <2>1
    <2>2. CASE m # n
      <3>1. m \in DOMAIN link /\ link'[m] = link[m] BY <1>1, <2>2
      <3>2. QED BY <3>1 DEF RowRefs, Grows, FenceGrows
    <2>3. QED BY <2>1, <2>2
  <1>6. \A g \in DOMAIN fence' : \E k \in DOMAIN fence' : fence'[k].farm = fence'[g].farm /\ fence'[k].primary
    <2> SUFFICES ASSUME NEW g \in DOMAIN fence' PROVE \E k \in DOMAIN fence' : fence'[k].farm = fence'[g].farm /\ fence'[k].primary
      OBVIOUS
    <2>1. CASE fence'[g].farm = l.farm BY <1>1, <2>1
    <2>2. CASE fence'[g].farm # l.farm
      <3>1. g \in DOMAIN fence /\ fence'[g].farm = fence[g].farm BY <1>1, <2>2
      <3>2. fence[g].farm \in DOMAIN farm /\ HasFence(fence[g].farm) BY <3>1 DEF RowRefs, HasFence
      <3>3. PICK k \in DOMAIN fence : fence[k].farm = fence[g].farm /\ fence[k].primary BY <3>2 DEF RowRefs
      <3>4. k \in DOMAIN fence' /\ fence'[k] = fence[k] BY <1>1, <2>2, <3>1, <3>3
      <3>5. QED BY <3>1, <3>3, <3>4
    <2>3. QED BY <2>1, <2>2
  <1>7. QED BY <1>1, <1>3, <1>4, <1>5, <1>6, RowRefsGrow

\* Whatever happens, the rows refer to rows that exist.
LEMMA RowRefsStep ==
  ASSUME Types, Refs, \A h \in Slots : Busy(h) => Mine(work[h]), Moves
  PROVE  RowRefs'
  <1>1. Grows /\ RowRefs BY MovesGrow DEF Refs
  <1>2. ASSUME UNCHANGED rows PROVE RowRefs' BY <1>1, <1>2 DEF rows, RowRefs, HasFence
  <1>3. ASSUME NEW h \in Slots, Writes(h) PROVE RowRefs'
    <2>1. CASE ChangeFenceDone(h)
      <3>1. /\ \A g \in DOMAIN fence : fence'[g] = fence[g]
            /\ \A g \in DOMAIN fence' \ DOMAIN fence :
                  fence'[g].farm = Current(work[h]).farm /\ fence'[g].hash = Hash(fence'[g].shape) /\ fence'[g].primary
            /\ DOMAIN farm' = DOMAIN farm /\ UNCHANGED <<place, link>>
        BY <2>1 DEF ChangeFenceDone
      <3>2. Current(work[h]).farm \in DOMAIN farm
        <4>1. Busy(h) /\ work[h].changes # {} BY <2>1 DEF ChangeFenceDone, Busy, Refs, WorkRefs
        <4>2. QED BY <4>1, CurrentIs
      <3>3. QED BY <1>1, <3>1, <3>2, RowRefsKept
    <2>2. CASE ChangePlaceDone(h)
      <3> DEFINE c == Current(work[h])
      <3>1. Busy(h) /\ work[h].changes # {} BY <2>2 DEF ChangePlaceDone, Busy, Refs, WorkRefs
      <3>2. c.farm \in DOMAIN farm /\ c.place \in DOMAIN place /\ place[c.place].farm = c.farm BY <3>1, CurrentIs
      <3>3. work[h].moved \in DOMAIN fence /\ fence[work[h].moved].farm = c.farm
        BY <3>1, <2>2 DEF ChangePlaceDone, Refs, WorkRefs
      <3>4. /\ DOMAIN place' = DOMAIN place /\ \A p \in DOMAIN place : p # c.place => place'[p] = place[p]
            /\ place'[c.place].farm = place[c.place].farm /\ place'[c.place].latest = work[h].moved
            /\ DOMAIN farm' = DOMAIN farm /\ UNCHANGED <<fence, link>>
        BY <2>2 DEF ChangePlaceDone
      <3> HIDE DEF c
      <3>5. QED BY <1>1, <3>2, <3>3, <3>4, RowRefsKept
    <2>3. CASE RelinkDone(h)
      <3> DEFINE c == Current(work[h])
      <3>1. Busy(h) /\ work[h].changes # {} BY <2>3 DEF RelinkDone, Busy, Refs, WorkRefs
      <3>2. work[h].moved \in DOMAIN fence /\ fence[work[h].moved].farm = c.farm
        BY <3>1, <2>3 DEF RelinkDone, Refs, WorkRefs
      <3>3. /\ DOMAIN link' = DOMAIN link
            /\ \A n \in DOMAIN link : /\ link'[n].place = link[n].place /\ link'[n].farm = link[n].farm
                                      /\ link'[n].fence = IF link[n].farm = c.farm THEN work[h].moved ELSE link[n].fence
            /\ DOMAIN farm' = DOMAIN farm /\ UNCHANGED <<fence, place>>
        BY <2>3 DEF RelinkDone
      <3> HIDE DEF c
      <3>4. QED BY <1>1, <3>2, <3>3, RowRefsKept
    <2>4. CASE CreateFarmsDone(h)
      <3>1. /\ \A f \in DOMAIN farm' : f \in DOMAIN farm \/ farm'[f].cf \in farm'[f].ids
            /\ UNCHANGED <<fence, place, link>>
        BY <2>4 DEF CreateFarmsDone
      <3>2. QED BY <1>1, <3>1, RowRefsKept
    <2>5. CASE CreateFencesDone(h)
      <3>1. /\ \A g \in DOMAIN fence : fence'[g] = fence[g]
            /\ \A g \in DOMAIN fence' \ DOMAIN fence : \E i \in DOMAIN work[h].mine :
                  fence'[g] = NewFence(work[h].mine[i], work[h].rest[i].shape)
            /\ UNCHANGED <<farm, place, link>> /\ Mine(work[h])
        BY <2>5 DEF CreateFencesDone, Busy
      <3>2. \A i \in DOMAIN work[h].mine : work[h].mine[i] \in DOMAIN farm BY <3>1 DEF Mine
      <3>3. \A g \in DOMAIN fence' \ DOMAIN fence :
               fence'[g].farm \in DOMAIN farm' /\ fence'[g].hash = Hash(fence'[g].shape) /\ fence'[g].primary
        BY <3>1, <3>2 DEF NewFence
      <3>4. QED BY <1>1, <3>1, <3>3, RowRefsKept
    <2>6. CASE SyncDone(h)
      <3>1. DOMAIN farm' = DOMAIN farm /\ UNCHANGED <<fence, place, link>> BY <2>6 DEF SyncDone
      <3>2. QED BY <1>1, <3>1, RowRefsKept
    <2>7. CASE CreatePlacesDone(h)
      <3>1. /\ \A p \in DOMAIN place : place'[p] = place[p]
            /\ \A p \in DOMAIN place' \ DOMAIN place : NewPlaceOf(work[h], place'[p])
            /\ UNCHANGED <<farm, fence, link>> /\ Mine(work[h]) /\ WorkRefs(work[h])
        BY <2>7 DEF CreatePlacesDone, Busy, Refs
      <3>2. \A p \in DOMAIN place' \ DOMAIN place :
               /\ place'[p].latest \in DOMAIN fence /\ fence[place'[p].latest].farm = place'[p].farm
        BY <3>1 DEF NewPlaceOf, WorkRefs
      <3>3. \A p \in DOMAIN place' \ DOMAIN place : place'[p].farm \in DOMAIN farm'
        BY <1>1, <3>1, <3>2 DEF RowRefs
      <3>4. QED BY <1>1, <3>1, <3>2, <3>3, RowRefsKept
    <2>8. CASE WriteLinksDone(h)
      <3>1. /\ \A n \in DOMAIN link : link'[n] = link[n]
            /\ \A n \in DOMAIN link' \ DOMAIN link : \E p \in DOMAIN work[h].links : link'[n] = LinkOf(work[h], p)
            /\ UNCHANGED <<farm, fence, place>> /\ WorkRefs(work[h])
        BY <2>8 DEF WriteLinksDone, Busy, Refs
      <3>2. \A n \in DOMAIN link' \ DOMAIN link :
               /\ link'[n].place \in DOMAIN place' /\ place'[link'[n].place].farm = link'[n].farm
               /\ link'[n].fence \in DOMAIN fence' /\ fence'[link'[n].fence].farm = link'[n].farm
        BY <3>1 DEF LinkOf, WorkRefs
      <3>3. QED BY <1>1, <3>1, <3>2, RowRefsKept
    <2>9. QED BY <1>3, <2>1, <2>2, <2>3, <2>4, <2>5, <2>6, <2>7, <2>8 DEF Writes
  <1>4. CASE Edits BY <1>1, <1>4, RowRefsEdited DEF Edits
  <1>5. CASE ShowsDone
    <2>1. /\ DOMAIN link' = DOMAIN link /\ UNCHANGED <<farm, fence, place>>
          /\ \A n \in DOMAIN link : link'[n].fence = link[n].fence
      BY <1>5 DEF ShowsDone
    <2>2. QED BY <1>1, <2>1, RowRefsKept
  <1>6. CASE DeleteFarmDone
    <2>1. DOMAIN farm' = DOMAIN farm /\ UNCHANGED <<fence, place, link>> BY <1>6 DEF DeleteFarmDone
    <2>2. QED BY <1>1, <2>1, RowRefsKept
  <1>7. QED BY <1>2, <1>3, <1>4, <1>5, <1>6, Zenon DEF Moves, Reads, EndsDone, StartDone, vars

\* What an import or a request comes to know in a step of its own.
LEMMA WorkRefsOwn ==
  ASSUME Types, Refs, Grows, NEW h \in Slots, Busy(h), NEW v,
         v.kind = work[h].kind,
         v.todo = work[h].todo \/ v.kind = "import",
         \A m \in v.matched : m \in work[h].matched \/ (m.id \in DOMAIN fence /\ m.farm = fence[m.id].farm /\ m.hash = fence[m.id].hash),
         \A c \in v.changes : c \in work[h].changes \/ (c.place \in DOMAIN place /\ c.farm = place[c.place].farm /\ c.shape = c.said),
         v.at \in {"change", "move", "relink"} => v.changes # {} /\ v.kind = "request",
         v.at \in {"move", "relink"} => v.moved \in DOMAIN fence' /\ fence'[v.moved].farm = Current(v).farm,
         v.at = "move" => fence'[v.moved].shape = Current(v).shape,
         v.payload \subseteq DOMAIN fence, v.places \subseteq DOMAIN place',
         \A p \in DOMAIN v.links : (p \in DOMAIN work[h].links /\ v.links[p] = work[h].links[p])
                                   \/ (p \in DOMAIN place /\ v.links[p] = place[p].latest),
         v.at = "places" => v.kind = "import",
         v.kind = "existing" => v.at \in {"attach", "link"}
  PROVE  WorkRefs(v)'
  <1> DEFINE w == work[h]
  <1>1. WorkRefs(w) /\ RowRefs BY DEF Refs
  <1>2. \A m \in v.matched : m.id \in DOMAIN fence' /\ fence'[m.id].farm = m.farm /\ LaidAt(m.farm, m.hash)'
    <2> SUFFICES ASSUME NEW m \in v.matched
                 PROVE  m.id \in DOMAIN fence' /\ fence'[m.id].farm = m.farm /\ LaidAt(m.farm, m.hash)'
      OBVIOUS
    <2>1. m.id \in DOMAIN fence /\ fence[m.id].farm = m.farm /\ LaidAt(m.farm, m.hash) BY <1>1 DEF WorkRefs, LaidAt
    <2>2. m.farm \in DOMAIN farm BY <2>1 DEF Refs, RowRefs
    <2>3. QED BY <2>1, <2>2, StaysTrue DEF Grows, FenceGrows
  <1>3. \A c \in v.changes : c.place \in DOMAIN place' /\ place'[c.place].farm = c.farm /\ c.shape = c.said
    BY <1>1 DEF WorkRefs, Grows, PlaceGrows
  <1>4. v.payload \subseteq DOMAIN fence' BY DEF Grows, FenceGrows
  <1>5. \A p \in DOMAIN v.links :
            p \in DOMAIN place' /\ v.links[p] \in DOMAIN fence' /\ fence'[v.links[p]].farm = place'[p].farm
    <2> SUFFICES ASSUME NEW p \in DOMAIN v.links
                 PROVE  p \in DOMAIN place' /\ v.links[p] \in DOMAIN fence' /\ fence'[v.links[p]].farm = place'[p].farm
      OBVIOUS
    <2>1. p \in DOMAIN place /\ v.links[p] \in DOMAIN fence /\ fence[v.links[p]].farm = place[p].farm
      BY <1>1 DEF WorkRefs, RowRefs
    <2>2. QED BY <2>1 DEF Grows, PlaceGrows, FenceGrows
  <1>6. v.kind = "request" => \A b \in DOMAIN v.todo : \A i \in DOMAIN v.todo[b] : v.todo[b][i].from = "manual"
    <2>1. CASE v.todo = w.todo BY <1>1, <2>1 DEF WorkRefs
    <2>2. CASE v.kind = "import" BY <2>2
    <2>3. QED BY <2>1, <2>2
  <1>7. QED BY <1>2, <1>3, <1>4, <1>5, <1>6 DEF WorkRefs

\* An entry of a request is stored as it says.
LEMMA EntryIs ==
  ASSUME NEW x \in Items, x.from = "manual"
  PROVE  x.shape = x.said
  BY StoredCases DEF Items, ItemRow

\* The entries of a request are stored as they say.
LEMMA BatchSaid ==
  ASSUME Types, Refs, NEW h \in Slots, Busy(h), work[h].kind = "request"
  PROVE  \A i \in DOMAIN Batch(h) : Batch(h)[i].shape = Batch(h)[i].said
  <1> SUFFICES ASSUME NEW i \in DOMAIN Batch(h) PROVE Batch(h)[i].shape = Batch(h)[i].said
    OBVIOUS
  <1>1. Batch(h) \in Seq(Items) BY BatchIs
  <1>2. Batch(h)[i] \in Items BY <1>1, ElementOfSeq, LenProperties
  <1>3. work[h].todo # <<>> BY BatchIs
  <1>4. 1 \in DOMAIN work[h].todo /\ Batch(h) = work[h].todo[1] BY <1>3, BatchIs
  <1>5. WorkRefs(work[h]) BY DEF Refs
  <1>6. Batch(h)[i].from = "manual" BY <1>4, <1>5 DEF WorkRefs
  <1>7. QED BY <1>2, <1>6, EntryIs

\* A step of an import or a request leaves it with references to rows that exist.
LEMMA WorkRefsWrites ==
  ASSUME Types, Refs, \A k \in Slots : Busy(k) => Mine(work[k]), Types', RowRefs', Grows, NEW h \in Slots, Reads(h) \/ Writes(h), Busy(h)'
  PROVE  WorkRefs(work[h])'
  <1> SUFFICES ASSUME NEW v, v = work'[h] PROVE WorkRefs(v)'
    OBVIOUS
  <1> DEFINE w == work[h]
  <1>0. v.kind = "existing" => v.at \in {"attach", "link"}
    <2>1. CASE ~(ReadLinksDone(h) \/ WriteLinksDone(h))
      <3>1. /\ Busy(h) /\ w.at \notin {"attach", "link"} /\ w \in WorkRow
            /\ v.kind = w.kind \/ v = Ended(w)
        BY <2>1, Zenon DEF Reads, Writes, Busy, LookDone, LookRequestDone, ReadPlacesDone, ChangeFenceDone,
           ChangePlaceDone,
           RelinkDone, CreateFarmsDone, CreateFencesDone, SyncDone, CreatePlacesDone, Base
      <3>2. v.at # "done" BY DEF Busy
      <3>3. v.kind = w.kind BY <3>1, <3>2, EndedIs
      <3>4. QED BY <3>1, <3>3, Zenon DEF Refs, WorkRefs
    <2>2. CASE ReadLinksDone(h) BY <2>2 DEF ReadLinksDone
    <2>3. CASE WriteLinksDone(h)
      <3>1. w \in WorkRow /\ v.at # "done" BY <2>3 DEF WriteLinksDone, Busy
      <3>2. v # Ended(w) BY <3>1, EndedIs
      <3>3. QED BY <2>3, <3>2 DEF WriteLinksDone, Base
    <2>4. QED BY <2>1, <2>2, <2>3
  <1>1. CASE LookDone(h) /\ UNCHANGED rows
    <2>1. /\ v.kind = w.kind /\ v.todo = w.todo /\ v.changes = w.changes /\ v.payload = w.payload /\ v.links = w.links
          /\ v.at \in {"places", "farms"} /\ w.kind = "import" /\ v.places = {}
          /\ \A m \in v.matched : m.id \in DOMAIN fence /\ m.farm = fence[m.id].farm /\ m.hash = fence[m.id].hash
          /\ Busy(h)
      BY <1>1 DEF LookDone, Base, Busy
    <2>2. WorkRefs(w) BY <2>1 DEF Refs
    <2>3. v.payload \subseteq DOMAIN fence BY <2>1, <2>2 DEF WorkRefs
    <2>4. QED BY <1>0, <2>1, <2>3, WorkRefsOwn
  <1>2. CASE LookRequestDone(h) /\ UNCHANGED rows
    <2>1. /\ v.kind = w.kind /\ v.todo = w.todo /\ v.links = w.links /\ w.kind = "request"
          /\ v.at \in {"change", "farms", "create"} /\ (v.at = "change" => v.changes # {})
          /\ \A m \in v.matched : m.id \in DOMAIN fence /\ m.farm = fence[m.id].farm /\ m.hash = fence[m.id].hash
          /\ \A c \in v.changes :
              /\ c.place \in DOMAIN place /\ c.farm = place[c.place].farm
              /\ \E i \in DOMAIN Batch(h) : c.shape = Batch(h)[i].shape /\ c.said = Batch(h)[i].said
          /\ v.payload \subseteq DOMAIN fence /\ v.places \subseteq DOMAIN place /\ Busy(h)
      BY <1>2 DEF LookRequestDone, Base, Busy
    <2>2. \A c \in v.changes : c.shape = c.said BY <2>1, BatchSaid
    <2>3. v.places \subseteq DOMAIN place' BY <2>1, <1>2 DEF rows
    <2>4. QED BY <1>0, <2>1, <2>2, <2>3, WorkRefsOwn
  <1>3. CASE ReadPlacesDone(h) /\ UNCHANGED rows
    <2>1. /\ v.kind = w.kind /\ v.todo = w.todo /\ v.links = w.links /\ v.matched = w.matched /\ v.changes = w.changes
          /\ v.at = "create" /\ v.places \subseteq DOMAIN place /\ Busy(h)
          /\ \A g \in v.payload : \E m \in w.matched : m.id = g
      BY <1>3 DEF ReadPlacesDone, Base, Busy
    <2>2. WorkRefs(w) BY <2>1 DEF Refs
    <2>3. v.payload \subseteq DOMAIN fence BY <2>1, <2>2 DEF WorkRefs
    <2>4. v.places \subseteq DOMAIN place' BY <2>1, <1>3 DEF rows
    <2>5. QED BY <1>0, <2>1, <2>3, <2>4, WorkRefsOwn
  <1>4. CASE ReadLinksDone(h) /\ UNCHANGED rows
    <2>1. /\ v.kind = w.kind /\ v.todo = w.todo /\ v.matched = w.matched /\ v.changes = w.changes
          /\ v.at = "link" /\ v.places = w.places /\ v.payload = w.payload /\ Busy(h)
          /\ \A p \in DOMAIN v.links : p \in DOMAIN place /\ v.links[p] = place[p].latest
      BY <1>4 DEF ReadLinksDone, Base, Busy
    <2>2. WorkRefs(w) BY <2>1 DEF Refs
    <2>3. v.payload \subseteq DOMAIN fence /\ v.places \subseteq DOMAIN place BY <2>1, <2>2 DEF WorkRefs
    <2>4. v.places \subseteq DOMAIN place' BY <2>3, <1>4 DEF rows
    <2>5. QED BY <1>0, <2>1, <2>3, <2>4, WorkRefsOwn
  <1>5. CASE ChangeFenceDone(h)
    <2>1. /\ v.kind = w.kind /\ v.todo = w.todo /\ v.matched = w.matched /\ v.changes = w.changes /\ v.links = w.links
          /\ v.at = "move" /\ v.places = w.places /\ v.payload = w.payload /\ Busy(h) /\ w.at = "change"
          /\ v.moved \in DOMAIN fence' /\ fence'[v.moved].farm = Current(w).farm /\ fence'[v.moved].shape = Current(w).shape
          /\ place' = place
      BY <1>5 DEF ChangeFenceDone, Base, Busy
    <2>2. WorkRefs(w) BY <2>1 DEF Refs
    <2>3. /\ v.payload \subseteq DOMAIN fence /\ v.places \subseteq DOMAIN place' /\ v.changes # {} /\ v.kind = "request"
      BY <2>1, <2>2 DEF WorkRefs
    <2>4. Current(v) = Current(w) BY <2>1 DEF Current
    <2>5. QED BY <1>0, <2>1, <2>3, <2>4, WorkRefsOwn, Zenon
  <1>6. CASE ChangePlaceDone(h)
    <2>1. /\ v.kind = w.kind /\ v.todo = w.todo /\ v.matched = w.matched /\ v.changes = w.changes /\ v.links = w.links
          /\ v.at = "relink" /\ v.places = w.places /\ v.payload = w.payload /\ Busy(h) /\ w.at = "move"
          /\ v.moved = w.moved /\ DOMAIN place' = DOMAIN place /\ fence' = fence
      BY <1>6 DEF ChangePlaceDone, Base, Busy
    <2>2. WorkRefs(w) BY <2>1 DEF Refs
    <2>3. /\ v.payload \subseteq DOMAIN fence /\ v.places \subseteq DOMAIN place' /\ v.changes # {} /\ v.kind = "request"
          /\ v.moved \in DOMAIN fence' /\ fence'[v.moved].farm = Current(w).farm
      BY <2>1, <2>2 DEF WorkRefs
    <2>4. Current(v) = Current(w) BY <2>1 DEF Current
    <2>5. QED BY <1>0, <2>1, <2>3, <2>4, WorkRefsOwn, Zenon
  <1>7. CASE RelinkDone(h)
    <2>1. /\ v.kind = w.kind /\ v.todo = w.todo /\ v.matched = w.matched /\ v.changes \subseteq w.changes /\ v.links = w.links
          /\ v.at \in {"change", "farms", "create"} /\ (v.at = "change" => v.changes # {})
          /\ v.places = w.places /\ v.payload = w.payload /\ Busy(h) /\ w.at = "relink" /\ place' = place
      BY <1>7 DEF RelinkDone, Base, Busy
    <2>2. WorkRefs(w) BY <2>1 DEF Refs
    <2>3. /\ v.payload \subseteq DOMAIN fence /\ v.places \subseteq DOMAIN place' /\ v.kind = "request"
      BY <2>1, <2>2 DEF WorkRefs
    <2>4. QED BY <1>0, <2>1, <2>3, WorkRefsOwn, Zenon
  <1>8. CASE CreateFarmsDone(h)
    <2>1. /\ v.kind = w.kind /\ v.todo = w.todo /\ v.matched = w.matched /\ v.changes = w.changes /\ v.links = w.links
          /\ v.at = "fences" /\ v.places = w.places /\ v.payload = w.payload /\ Busy(h) /\ place' = place
      BY <1>8 DEF CreateFarmsDone, Base, Busy
    <2>2. WorkRefs(w) BY <2>1 DEF Refs
    <2>3. v.payload \subseteq DOMAIN fence /\ v.places \subseteq DOMAIN place' BY <2>1, <2>2 DEF WorkRefs
    <2>4. QED BY <1>0, <2>1, <2>3, WorkRefsOwn
  <1>9. CASE CreateFencesDone(h)
    <2>1. /\ v.kind = w.kind /\ v.todo = w.todo /\ v.matched = w.matched /\ v.changes = w.changes /\ v.links = w.links
          /\ v.at \in {"fences", "sync", "create"} /\ v.places = w.places /\ v.payload = w.payload /\ Busy(h) /\ place' = place
      BY <1>9 DEF CreateFencesDone, Base, Busy
    <2>2. WorkRefs(w) BY <2>1 DEF Refs
    <2>3. v.payload \subseteq DOMAIN fence /\ v.places \subseteq DOMAIN place' BY <2>1, <2>2 DEF WorkRefs
    <2>4. QED BY <1>0, <2>1, <2>3, WorkRefsOwn
  <1>10. CASE SyncDone(h)
    <2>1. w.kind = "import"
      <3>1. w \in WorkRow /\ (w.kind # "import" => v = Ended(w)) BY <1>10 DEF SyncDone
      <3>2. v.at # "done" BY DEF Busy
      <3>3. QED BY <3>1, <3>2, EndedIs
    <2>2. /\ v.kind = w.kind /\ v.todo = w.todo /\ v.matched = w.matched /\ v.changes = w.changes /\ v.links = w.links
          /\ v.at = "places" /\ v.places = w.places /\ v.payload = w.payload /\ Busy(h) /\ place' = place
      BY <1>10, <2>1 DEF SyncDone, Base, Busy
    <2>3. WorkRefs(w) BY <2>2 DEF Refs
    <2>4. v.payload \subseteq DOMAIN fence /\ v.places \subseteq DOMAIN place' BY <2>2, <2>3 DEF WorkRefs
    <2>5. QED BY <1>0, <2>1, <2>2, <2>4, WorkRefsOwn
  <1>11. CASE CreatePlacesDone(h)
    <2>1. /\ v.kind = w.kind /\ v.todo = w.todo /\ v.matched = w.matched /\ v.changes = w.changes /\ v.links = w.links
          /\ v.at = "attach" /\ v.places = w.places \cup (DOMAIN place' \ DOMAIN place) /\ v.payload = w.payload /\ Busy(h)
          /\ DOMAIN place \subseteq DOMAIN place'
      BY <1>11 DEF CreatePlacesDone, Base, Busy
    <2>2. WorkRefs(w) BY <2>1 DEF Refs
    <2>3. v.payload \subseteq DOMAIN fence /\ v.places \subseteq DOMAIN place' BY <2>1, <2>2 DEF WorkRefs
    <2>4. QED BY <1>0, <2>1, <2>3, WorkRefsOwn
  <1>12. CASE WriteLinksDone(h)
    <2>1. w \in WorkRow /\ v.at # "done" BY <1>12 DEF WriteLinksDone, Busy
    <2>2. v # Ended(w) BY <2>1, EndedIs
    <2>3. /\ v.kind = w.kind /\ (v.todo = w.todo \/ v.kind = "import") /\ v.matched = w.matched /\ v.changes = w.changes
          /\ v.links = <<>> /\ v.at \in {"look", "sync"} /\ v.places = w.places /\ v.payload = w.payload
          /\ Busy(h) /\ place' = place
      BY <1>12, <2>2 DEF WriteLinksDone, Base, Busy
    <2>4. WorkRefs(w) BY <2>3 DEF Refs
    <2>5. v.payload \subseteq DOMAIN fence /\ v.places \subseteq DOMAIN place' BY <2>3, <2>4 DEF WorkRefs
    <2>6. DOMAIN v.links = {} BY <2>3, EmptySeq
    <2>7. QED BY <1>0, <2>3, <2>5, <2>6, WorkRefsOwn
  <1>13. QED
    BY <1>1, <1>2, <1>3, <1>4, <1>5, <1>6, <1>7, <1>8, <1>9, <1>10, <1>11, <1>12 DEF Reads, Writes

\* What starts refers to rows that exist.
LEMMA WorkRefsFresh ==
  ASSUME NEW v, Fresh(v), UNCHANGED rows
  PROVE  WorkRefs(v)'
  <1>1. DOMAIN v.links = {} BY EmptySeq DEF Fresh
  <1>2. /\ v.matched = {} /\ v.changes = {} /\ v.payload = {} /\ v.at \in {"look", "attach"}
        /\ v.kind = "request" => \A b \in DOMAIN v.todo : \A i \in DOMAIN v.todo[b] : v.todo[b][i].from = "manual"
        /\ v.places \subseteq DOMAIN place'
        /\ v.kind = "existing" => v.at \in {"attach", "link"}
    BY DEF Fresh, rows
  <1>3. QED BY <1>1, <1>2 DEF WorkRefs

\* Whatever happens, rows and work refer to rows that exist.
LEMMA RefsStep ==
  ASSUME Types, Types', Refs, \A h \in Slots : Busy(h) => Mine(work[h]), Moves
  PROVE  Refs'
  <1>1. Grows /\ RowRefs' BY MovesGrow, RowRefsStep
  <1>2. ASSUME NEW k \in Slots, Others(k), Busy(k)' PROVE WorkRefs(work[k])'
    <2>1. Busy(k) /\ Same(work'[k], work[k]) BY <1>2, SameWork
    <2>2. QED BY <1>1, <2>1, WorkRefsStay
  <1>3. ASSUME NEW k \in Slots, Busy(k)' PROVE WorkRefs(work[k])'
    <2>1. CASE UNCHANGED work BY <1>2, <1>3, <2>1, AllOthers
    <2>2. ASSUME NEW h \in Slots, Only(h), Reads(h) \/ Writes(h) PROVE WorkRefs(work[k])'
      <3>1. CASE k = h BY <1>1, <1>3, <2>2, <3>1, WorkRefsWrites
      <3>2. CASE k # h BY <1>2, <1>3, <2>2, <3>2, OnlyOthers
      <3>3. QED BY <3>1, <3>2
    <2>3. ASSUME NEW h \in Slots, EndsDone(h) PROVE WorkRefs(work[k])'
      <3>1. k # h BY <1>3, <2>3 DEF EndsDone, Busy, Idle
      <3>2. QED BY <1>2, <1>3, <2>3, <3>1, OnlyOthers DEF EndsDone
    <2>4. ASSUME NEW h \in Slots, StartDone(h) PROVE WorkRefs(work[k])'
      <3>1. CASE k = h
        <4>1. Fresh(work'[k]) /\ UNCHANGED rows BY <2>4, <3>1 DEF StartDone
        <4>2. QED BY <4>1, WorkRefsFresh
      <3>2. CASE k # h BY <1>2, <1>3, <2>4, <3>2, StartOthers
      <3>3. QED BY <3>1, <3>2
    <2>5. QED BY <2>1, <2>2, <2>3, <2>4, ZenonT(60) DEF Moves, Edits, EditPlaceDone, ShowsDone, DeleteFarmDone, vars
  <1>4. QED BY <1>1, <1>3 DEF Refs

(***************************************************************************)
(* The farms that an import or a request has added are its own             *)
(***************************************************************************)

\* Everyone at work knows the farms it has added, and they are nobody else's.
Owned == /\ \A h \in Slots : Busy(h) => Mine(work[h])
         /\ \A h, k \in Slots : h # k => Apart(h, k)

\* Only the one that has added a farm gives it its first geofence.
LEMMA FirstFence ==
  ASSUME Types, Refs, Moves, NEW f, HasFence(f)', ~HasFence(f)
  PROVE  \E h \in Slots : CreateFencesDone(h) /\ Only(h) /\ \E i \in DOMAIN work[h].mine : work[h].mine[i] = f
  <1>1. PICK g \in DOMAIN fence' : fence'[g].farm = f BY DEF HasFence
  <1>2. Grows BY MovesGrow
  <1>3. g \notin DOMAIN fence BY <1>1, <1>2 DEF Grows, FenceGrows, HasFence
  <1>4. ASSUME NEW h \in Slots, ChangeFenceDone(h) PROVE FALSE
    <2>1. Busy(h) /\ work[h].changes # {} BY <1>4 DEF ChangeFenceDone, Busy, Refs, WorkRefs
    <2>2. f = Current(work[h]).farm BY <1>1, <1>3, <1>4 DEF ChangeFenceDone
    <2>3. QED BY <2>1, <2>2, CurrentIs
  <1>5. ASSUME Edits PROVE FALSE
    <2>1. PICK n, s, here : EditPlaceDone(n, s, here) BY <1>5 DEF Edits
    <2>2. f = link[n].farm /\ n \in DOMAIN link BY <1>1, <1>3, <2>1 DEF EditPlaceDone
    <2>3. QED BY <2>2 DEF Refs, RowRefs, HasFence
  <1>6. PICK h \in Slots : CreateFencesDone(h) /\ Only(h)
    BY <1>1, <1>3, <1>4, <1>5, ZenonT(60) DEF Moves, Reads, Writes, EndsDone, StartDone, ShowsDone, DeleteFarmDone,
       vars, rows,
       ChangePlaceDone, RelinkDone, CreateFarmsDone, SyncDone, CreatePlacesDone, WriteLinksDone
  <1>7. PICK i \in DOMAIN work[h].mine : fence'[g] = NewFence(work[h].mine[i], work[h].rest[i].shape)
    BY <1>1, <1>3, <1>6 DEF CreateFencesDone
  <1>8. work[h].mine[i] = f BY <1>1, <1>7 DEF NewFence
  <1>9. QED BY <1>6, <1>8

\* A farm without a geofence has no place, and nothing is noted of it.
LEMMA NoFenceNoPlace ==
  ASSUME RowRefs, NEW f, ~HasFence(f)
  PROVE  ~HasPlace(f)
  BY DEF RowRefs, HasFence, HasPlace

\* What the others do leaves it its farms.
LEMMA MineStays ==
  ASSUME Types, Refs, Grows, NEW k \in Slots, Busy(k), Mine(work[k]), NEW v, Same(v, work[k]),
         v.at = "fences" => \A i \in DOMAIN v.mine : HasFence(v.mine[i])' => HasFence(v.mine[i])
  PROVE  Mine(v)'
  <1> SUFFICES ASSUME NEW w, w = work[k] PROVE Mine(v)'
    OBVIOUS
  <1>1. /\ v.at = w.at /\ v.kind = w.kind /\ v.rest = w.rest /\ v.matched = w.matched /\ v.mine = w.mine /\ v.payload = w.payload
    BY DEF Same
  <1>2. WorkRefs(w) /\ Mine(w) /\ RowRefs BY DEF Refs
  <1>3. \A i \in DOMAIN w.mine : w.mine[i] \in DOMAIN farm BY <1>2 DEF Mine
  <1>4. \A i \in DOMAIN w.mine : w.mine[i] \in DOMAIN farm' BY <1>3 DEF Grows, FarmGrows
  <1>5. \A i \in DOMAIN w.mine : \A g \in w.payload : fence'[g].farm # w.mine[i]
    BY <1>2 DEF Mine, WorkRefs, Grows, FenceGrows
  <1>6. w.at # "fences" => \A i \in DOMAIN w.mine : HasFence(w.mine[i])'
    BY <1>2, <1>3, StaysTrue DEF Mine
  <1>7. w.at = "fences" =>
          /\ Len(w.mine) = Len(w.rest)
          /\ \E i \in DOMAIN w.mine : ~HasFence(w.mine[i])'
          /\ \A i, j \in DOMAIN w.mine : i < j /\ HasFence(w.mine[j])' => HasFence(w.mine[i])'
          /\ \A i \in DOMAIN w.mine :
                IF HasFence(w.mine[i])' THEN LaidAt(w.mine[i], w.rest[i].hash)'
                ELSE farm'[w.mine[i]].said = w.rest[i].said /\ farm'[w.mine[i]].from = w.rest[i].from
    <2> SUFFICES ASSUME w.at = "fences"
                 PROVE  /\ Len(w.mine) = Len(w.rest)
                        /\ \E i \in DOMAIN w.mine : ~HasFence(w.mine[i])'
                        /\ \A i, j \in DOMAIN w.mine : i < j /\ HasFence(w.mine[j])' => HasFence(w.mine[i])'
                        /\ \A i \in DOMAIN w.mine :
                              IF HasFence(w.mine[i])' THEN LaidAt(w.mine[i], w.rest[i].hash)'
                              ELSE farm'[w.mine[i]].said = w.rest[i].said /\ farm'[w.mine[i]].from = w.rest[i].from
      OBVIOUS
    <2>1. /\ Len(w.mine) = Len(w.rest)
          /\ \E i \in DOMAIN w.mine : ~HasFence(w.mine[i])
          /\ \A i, j \in DOMAIN w.mine : i < j /\ HasFence(w.mine[j]) => HasFence(w.mine[i])
          /\ \A i \in DOMAIN w.mine :
                IF HasFence(w.mine[i]) THEN LaidAt(w.mine[i], w.rest[i].hash)
                ELSE farm[w.mine[i]].said = w.rest[i].said /\ farm[w.mine[i]].from = w.rest[i].from
      BY <1>2 DEF Mine
    <2>2. \A i \in DOMAIN w.mine : HasFence(w.mine[i])' => HasFence(w.mine[i]) BY <1>1
    <2>3. \A i \in DOMAIN w.mine : HasFence(w.mine[i]) => HasFence(w.mine[i])' BY <1>3, StaysTrue
    <2>4. ASSUME NEW i \in DOMAIN w.mine
          PROVE  IF HasFence(w.mine[i])' THEN LaidAt(w.mine[i], w.rest[i].hash)'
                 ELSE farm'[w.mine[i]].said = w.rest[i].said /\ farm'[w.mine[i]].from = w.rest[i].from
      <3>1. CASE HasFence(w.mine[i])
        <4>1. LaidAt(w.mine[i], w.rest[i].hash) BY <2>1, <3>1
        <4>2. LaidAt(w.mine[i], w.rest[i].hash)' BY <1>3, <4>1, StaysTrue
        <4>3. QED BY <2>3, <3>1, <4>2
      <3>2. CASE ~HasFence(w.mine[i])
        <4>1. ~HasPlace(w.mine[i]) BY <1>2, <3>2, NoFenceNoPlace
        <4>2. farm'[w.mine[i]].said = farm[w.mine[i]].said /\ farm'[w.mine[i]].from = farm[w.mine[i]].from
          BY <1>3, <4>1 DEF Grows, FarmGrows
        <4>3. QED BY <2>1, <2>2, <3>2, <4>2
      <3>3. QED BY <3>1, <3>2
    <2>5. QED BY <2>1, <2>2, <2>3, <2>4
  <1>8. /\ \A i, j \in DOMAIN w.mine : w.mine[i] = w.mine[j] => i = j
        /\ \A i \in DOMAIN w.mine : \A m \in w.matched : m.farm # w.mine[i]
        /\ w.at \in {"change", "move", "relink", "farms"} => w.mine = <<>>
        /\ w.at = "look" /\ w.kind = "request" => w.mine = <<>>
        /\ w.at = "farms" => w.rest # <<>>
    BY <1>2 DEF Mine
  <1>9. QED BY <1>1, <1>4, <1>5, <1>6, <1>7, <1>8 DEF Mine

\* Before it adds farms it has none, and once they have their geofences it keeps
\* them.
LEMMA MineNone ==
  ASSUME NEW v, v.mine = <<>>, v.at # "fences", v.at = "farms" => v.rest # <<>>
  PROVE  Mine(v)'
  <1>1. DOMAIN v.mine = {} BY EmptySeq
  <1>2. QED BY <1>1 DEF Mine

\* It still does after a step that leaves its farms alone.
LEMMA MineKept ==
  ASSUME Types, Refs, Grows, NEW h \in Slots, Busy(h), Mine(work[h]), work[h].at # "fences", NEW v,
         v.mine = work[h].mine, v.matched = work[h].matched, v.payload \subseteq DOMAIN fence,
         \A i \in DOMAIN v.mine : \A g \in v.payload : fence[g].farm # v.mine[i],
         v.at \notin {"change", "move", "relink", "farms", "fences"}, v.at # "look" \/ v.kind # "request"
  PROVE  Mine(v)'
  <1>1. \A i \in DOMAIN v.mine : v.mine[i] \in DOMAIN farm /\ HasFence(v.mine[i]) BY DEF Mine
  <1>2. \A i \in DOMAIN v.mine : v.mine[i] \in DOMAIN farm' /\ HasFence(v.mine[i])'
    BY <1>1, StaysTrue DEF Grows, FarmGrows
  <1>3. \A i \in DOMAIN v.mine : \A g \in v.payload : fence'[g].farm # v.mine[i] BY DEF Grows, FenceGrows
  <1>4. /\ \A i, j \in DOMAIN v.mine : v.mine[i] = v.mine[j] => i = j
        /\ \A i \in DOMAIN v.mine : \A m \in v.matched : m.farm # v.mine[i]
    BY DEF Mine
  <1>5. QED BY <1>2, <1>3, <1>4 DEF Mine

\* The farms that are added are known to nobody else.
LEMMA MineAdded ==
  ASSUME Types, Refs, NEW h \in Slots, Mine(work[h]), CreateFarmsDone(h), NEW v, v = work'[h]
  PROVE  Mine(v)'
  <1> SUFFICES ASSUME NEW w, w = work[h] PROVE Mine(v)'
    OBVIOUS
  <1>1. /\ w \in WorkRow /\ w.at = "farms" /\ v.rest = w.rest /\ v.matched = w.matched /\ v.payload = w.payload /\ v.at = "fences"
        /\ Len(v.mine) = Len(w.rest) /\ DOMAIN v.mine = DOMAIN w.rest
        /\ \A i, j \in DOMAIN v.mine : v.mine[i] = v.mine[j] => i = j
        /\ \A i \in DOMAIN v.mine : v.mine[i] \notin DOMAIN farm
        /\ \A i \in DOMAIN v.mine : v.mine[i] \in DOMAIN farm'
        /\ \A i \in DOMAIN v.mine :
              farm'[v.mine[i]].said = w.rest[i].said /\ farm'[v.mine[i]].from = w.rest[i].from
        /\ fence' = fence
    BY DEF CreateFarmsDone
  <1>2. WorkRefs(w) /\ RowRefs BY <1>1 DEF Refs, Busy
  <1>3. \A i \in DOMAIN v.mine : ~HasFence(v.mine[i])' BY <1>1, <1>2 DEF RowRefs, HasFence
  <1>4. \A i \in DOMAIN v.mine : \A m \in v.matched : m.farm # v.mine[i] BY <1>1, <1>2 DEF WorkRefs, RowRefs
  <1>5. \A i \in DOMAIN v.mine : \A g \in v.payload : fence'[g].farm # v.mine[i] BY <1>1, <1>2 DEF WorkRefs, RowRefs
  <1>6. \E i \in DOMAIN v.mine : TRUE
    <2>1. w.rest # <<>> /\ w.rest \in Seq(Items) BY <1>1, WorkFields DEF Mine
    <2>2. 1 \in DOMAIN w.rest BY <2>1, EmptySeq, LenProperties
    <2>3. QED BY <1>1, <2>2
  <1>7. QED BY <1>1, <1>3, <1>4, <1>5, <1>6 DEF Mine

\* A farm that gets its geofence lies there.
LEMMA MineLaid ==
  ASSUME Types, Refs, NEW h \in Slots, Mine(work[h]), CreateFencesDone(h), NEW v, v = work'[h]
  PROVE  Mine(v)'
  <1> SUFFICES ASSUME NEW w, w = work[h] PROVE Mine(v)'
    OBVIOUS
  <1>1. /\ w \in WorkRow /\ w.at = "fences" /\ v.rest = w.rest /\ v.matched = w.matched /\ v.payload = w.payload
        /\ v.mine = w.mine /\ v.at \in {"fences", "sync", "create"}
        /\ DOMAIN fence \subseteq DOMAIN fence' /\ \A g \in DOMAIN fence : fence'[g] = fence[g]
        /\ \A g \in DOMAIN fence' \ DOMAIN fence : \E i \in DOMAIN w.mine :
              ~HasFence(w.mine[i]) /\ fence'[g] = NewFence(w.mine[i], w.rest[i].shape)
        /\ v.at = "fences" <=> \E i \in DOMAIN w.mine : ~HasFence(w.mine[i])'
        /\ \A i, j \in DOMAIN w.mine : i < j /\ HasFence(w.mine[j])' => HasFence(w.mine[i])'
        /\ farm' = farm
    BY DEF CreateFencesDone, HasFence
  <1>2. WorkRefs(w) BY <1>1 DEF Refs, Busy
  <1>3. /\ \A i \in DOMAIN w.mine : w.mine[i] \in DOMAIN farm
        /\ \A i, j \in DOMAIN w.mine : w.mine[i] = w.mine[j] => i = j
        /\ \A i \in DOMAIN w.mine : \A m \in w.matched : m.farm # w.mine[i]
        /\ \A i \in DOMAIN w.mine : \A g \in w.payload : fence[g].farm # w.mine[i]
        /\ Len(w.mine) = Len(w.rest)
        /\ \A i \in DOMAIN w.mine :
              IF HasFence(w.mine[i]) THEN LaidAt(w.mine[i], w.rest[i].hash)
              ELSE farm[w.mine[i]].said = w.rest[i].said /\ farm[w.mine[i]].from = w.rest[i].from
    BY <1>1 DEF Mine
  <1>4. \A g \in w.payload : g \in DOMAIN fence BY <1>2 DEF WorkRefs
  <1>5. w.rest \in Seq(Items) /\ w.mine \in Seq(Nat) BY <1>1, WorkFields
  <1>6. \A i \in DOMAIN w.mine : w.rest[i] \in Items BY <1>3, <1>5, ElementOfSeq, LenProperties
  <1>7. \A i \in DOMAIN w.mine : \A g \in w.payload : fence'[g].farm # w.mine[i] BY <1>1, <1>3, <1>4
  <1>8. \A i \in DOMAIN w.mine : HasFence(w.mine[i]) => HasFence(w.mine[i])' BY <1>1 DEF HasFence
  <1>9. ASSUME NEW i \in DOMAIN w.mine
        PROVE  IF HasFence(w.mine[i])' THEN LaidAt(w.mine[i], w.rest[i].hash)'
               ELSE farm'[w.mine[i]].said = w.rest[i].said /\ farm'[w.mine[i]].from = w.rest[i].from
    <2>1. CASE HasFence(w.mine[i])
      <3>1. LaidAt(w.mine[i], w.rest[i].hash) BY <1>3, <2>1
      <3>2. LaidAt(w.mine[i], w.rest[i].hash)' BY <1>1, <3>1 DEF LaidAt
      <3>3. QED BY <1>8, <2>1, <3>2
    <2>2. CASE ~HasFence(w.mine[i]) /\ HasFence(w.mine[i])'
      <3>1. PICK g \in DOMAIN fence' : fence'[g].farm = w.mine[i] BY <2>2 DEF HasFence
      <3>2. g \notin DOMAIN fence BY <1>1, <2>2, <3>1 DEF HasFence
      <3>3. PICK j \in DOMAIN w.mine : fence'[g] = NewFence(w.mine[j], w.rest[j].shape) BY <1>1, <3>1, <3>2
      <3>4. j = i BY <1>3, <3>1, <3>3 DEF NewFence
      <3>5. fence'[g].hash = Hash(w.rest[i].shape) BY <3>3, <3>4 DEF NewFence
      <3>6. Hash(w.rest[i].shape) = w.rest[i].hash BY <1>6 DEF Items
      <3>7. LaidAt(w.mine[i], w.rest[i].hash)' BY <3>1, <3>5, <3>6 DEF LaidAt
      <3>8. QED BY <2>2, <3>7
    <2>3. CASE ~HasFence(w.mine[i])' BY <1>1, <1>3, <1>8, <2>3
    <2>4. QED BY <2>1, <2>2, <2>3
  <1>10. v.at = "fences" <=> \E i \in DOMAIN w.mine : ~HasFence(w.mine[i])' BY <1>1
  <1>11. QED BY <1>1, <1>3, <1>7, <1>9, <1>10 DEF Mine

\* A step of an import or a request leaves it the farms it has added.
LEMMA MineOwn ==
  ASSUME Types, Refs, Grows, NEW h \in Slots, Mine(work[h]), Reads(h) \/ Writes(h), Busy(h)'
  PROVE  Mine(work[h])'
  <1> SUFFICES ASSUME NEW v, v = work'[h], NEW w, w = work[h] PROVE Mine(v)'
    OBVIOUS
  <1>1. CASE LookDone(h)
    <2>1. v.mine = <<>> /\ v.at = (IF v.rest = <<>> THEN "places" ELSE "farms") BY <1>1 DEF LookDone
    <2>2. QED BY <2>1, MineNone
  <1>2. CASE LookRequestDone(h)
    <2>1. /\ v.mine = w.mine /\ w.at = "look" /\ w.kind = "request"
          /\ v.at = (IF v.changes # {} THEN "change" ELSE IF v.rest # <<>> THEN "farms" ELSE "create")
      BY <1>2 DEF LookRequestDone
    <2>2. v.mine = <<>> BY <2>1 DEF Mine
    <2>3. QED BY <2>1, <2>2, MineNone
  <1>3. CASE ReadPlacesDone(h)
    <2>1. /\ v.mine = w.mine /\ v.matched = w.matched /\ w.at = "places" /\ v.at = "create" /\ Busy(h)
          /\ \A g \in v.payload : \E m \in w.matched : m.id = g
      BY <1>3 DEF ReadPlacesDone, Busy
    <2>2. WorkRefs(w) BY <2>1 DEF Refs
    <2>3. v.payload \subseteq DOMAIN fence BY <2>1, <2>2 DEF WorkRefs
    <2>4. \A i \in DOMAIN v.mine : \A g \in v.payload : fence[g].farm # v.mine[i] BY <2>1, <2>2 DEF WorkRefs, Mine
    <2>5. QED BY <2>1, <2>3, <2>4, MineKept
  <1>4. ASSUME v.mine = w.mine, v.matched = w.matched, v.payload = w.payload, w.at # "fences", Busy(h),
               v.at \notin {"change", "move", "relink", "farms", "fences"}, v.at # "look" \/ v.kind # "request"
        PROVE  Mine(v)'
    <2>1. WorkRefs(w) BY <1>4 DEF Refs
    <2>2. v.payload \subseteq DOMAIN fence BY <1>4, <2>1 DEF WorkRefs
    <2>3. \A i \in DOMAIN v.mine : \A g \in v.payload : fence[g].farm # v.mine[i] BY <1>4 DEF Mine
    <2>4. QED BY <1>4, <2>2, <2>3, MineKept
  <1>5. CASE ReadLinksDone(h) BY <1>4, <1>5 DEF ReadLinksDone, Busy
  <1>6. ASSUME w.at \in {"change", "move", "relink"}, v.mine = w.mine, v.at # "fences", v.at = "farms" => v.rest # <<>>
        PROVE  Mine(v)'
    BY <1>6, MineNone DEF Mine
  <1>7. CASE ChangeFenceDone(h) BY <1>6, <1>7 DEF ChangeFenceDone
  <1>8. CASE ChangePlaceDone(h) BY <1>6, <1>8 DEF ChangePlaceDone
  <1>9. CASE RelinkDone(h) BY <1>6, <1>9 DEF RelinkDone
  <1>10. CASE CreateFarmsDone(h) BY <1>10, MineAdded
  <1>11. CASE CreateFencesDone(h) BY <1>11, MineLaid
  <1>12. CASE SyncDone(h)
    <2>1. w.kind = "import"
      <3>1. w \in WorkRow /\ (w.kind # "import" => v = Ended(w)) BY <1>12 DEF SyncDone
      <3>2. v.at # "done" BY DEF Busy
      <3>3. QED BY <3>1, <3>2, EndedIs
    <2>2. QED BY <1>4, <1>12, <2>1 DEF SyncDone, Busy
  <1>13. CASE CreatePlacesDone(h) BY <1>4, <1>13 DEF CreatePlacesDone, Busy
  <1>14. CASE WriteLinksDone(h)
    <2>1. w \in WorkRow /\ v.at # "done" BY <1>14 DEF WriteLinksDone, Busy
    <2>2. v # Ended(w) BY <2>1, EndedIs
    <2>3. v.kind = w.kind /\ (v.at = "sync" \/ (v.at = "look" /\ w.kind = "import"))
      BY <1>14, <2>2 DEF WriteLinksDone, Base
    <2>4. v.mine = w.mine /\ v.matched = w.matched /\ v.payload = w.payload /\ w.at = "link" /\ Busy(h)
      BY <1>14, <2>2 DEF WriteLinksDone, Busy
    <2>5. QED BY <1>4, <2>3, <2>4
  <1>15. QED BY <1>1, <1>2, <1>3, <1>5, <1>7, <1>8, <1>9, <1>10, <1>11, <1>12, <1>13, <1>14 DEF Reads, Writes

\* Whatever happens, what one has added is its own.
LEMMA OwnedStep ==
  ASSUME Types, Refs, Owned, Moves
  PROVE  Owned'
  <1>1. Grows BY MovesGrow
  <1>2. ASSUME NEW k \in Slots, Others(k), Busy(k)' PROVE Mine(work[k])'
    <2>1. Busy(k) /\ Same(work'[k], work[k]) BY <1>2, SameWork
    <2>2. Mine(work[k]) BY <2>1 DEF Owned
    <2>3. CASE CreateFencesDone(k) BY <2>2, <2>3, MineLaid
    <2>4. CASE ~CreateFencesDone(k)
      <3> SUFFICES ASSUME NEW v, v = work'[k] PROVE Mine(v)'
        OBVIOUS
      <3>1. v.at = "fences" => \A i \in DOMAIN v.mine : HasFence(v.mine[i])' => HasFence(v.mine[i])
        <4> SUFFICES ASSUME v.at = "fences", NEW i \in DOMAIN v.mine, HasFence(v.mine[i])', ~HasFence(v.mine[i]) PROVE FALSE
          OBVIOUS
        <4>1. PICK h \in Slots : CreateFencesDone(h) /\ Only(h) /\ \E j \in DOMAIN work[h].mine : work[h].mine[j] = v.mine[i]
          BY FirstFence
        <4>2. work[h].at = "fences" BY <4>1 DEF CreateFencesDone
        <4>3. work[k].at = "fences" /\ work[k].mine = v.mine BY <2>1 DEF Same
        <4>4. h # k BY <2>4, <4>1
        <4>5. QED BY <4>1, <4>2, <4>3, <4>4 DEF Owned, Apart
      <3>2. QED BY <1>1, <2>1, <2>2, <3>1, MineStays
    <2>5. QED BY <2>3, <2>4
  <1>3. ASSUME NEW k \in Slots, Busy(k)' PROVE Mine(work[k])'
    <2>1. CASE UNCHANGED work BY <1>2, <1>3, <2>1, AllOthers
    <2>2. ASSUME NEW h \in Slots, Only(h), Reads(h) \/ Writes(h) PROVE Mine(work[k])'
      <3>1. CASE k = h
        <4>1. Busy(k)
          BY <2>2, <3>1, Zenon DEF Busy, Reads, Writes, LookDone, LookRequestDone, ReadPlacesDone, ReadLinksDone,
                      ChangeFenceDone, ChangePlaceDone, RelinkDone, CreateFarmsDone, CreateFencesDone, SyncDone,
                      CreatePlacesDone, WriteLinksDone
        <4>2. QED BY <1>1, <1>3, <2>2, <3>1, <4>1, MineOwn DEF Owned
      <3>2. CASE k # h BY <1>2, <1>3, <2>2, <3>2, OnlyOthers
      <3>3. QED BY <3>1, <3>2
    <2>3. ASSUME NEW h \in Slots, EndsDone(h) PROVE Mine(work[k])'
      <3>1. k # h BY <1>3, <2>3 DEF EndsDone, Busy, Idle
      <3>2. QED BY <1>2, <1>3, <2>3, <3>1, OnlyOthers DEF EndsDone
    <2>4. ASSUME NEW h \in Slots, StartDone(h) PROVE Mine(work[k])'
      <3>1. CASE k = h
        <4> SUFFICES ASSUME NEW v, v = work'[k] PROVE Mine(v)'
          OBVIOUS
        <4>1. v.mine = <<>> /\ v.at \in {"look", "attach"} BY <2>4, <3>1 DEF StartDone, Fresh
        <4>2. QED BY <4>1, MineNone
      <3>2. CASE k # h BY <1>2, <1>3, <2>4, <3>2, StartOthers
      <3>3. QED BY <3>1, <3>2
    <2>5. QED BY <2>1, <2>2, <2>3, <2>4, ZenonT(60) DEF Moves, Edits, EditPlaceDone, ShowsDone, DeleteFarmDone, vars
  <1>4. \A h, k \in Slots : h # k => Apart(h, k)'
    <2> SUFFICES ASSUME NEW h \in Slots, NEW k \in Slots, h # k, work'[h].at = "fences", work'[k].at = "fences",
                        NEW i \in DOMAIN work'[h].mine, NEW j \in DOMAIN work'[k].mine
                 PROVE  work'[h].mine[i] # work'[k].mine[j]
      BY DEF Apart
    <2>1. ASSUME NEW x \in Slots, NEW y \in Slots, x # y, work'[x].at = "fences", work'[y].at = "fences", Others(x), Others(y)
          PROVE  \A a \in DOMAIN work'[x].mine : \A b \in DOMAIN work'[y].mine : work'[x].mine[a] # work'[y].mine[b]
      <3>1. Busy(x)' /\ Busy(y)' BY <2>1 DEF Busy
      <3>2. Same(work'[x], work[x]) /\ Same(work'[y], work[y]) BY <2>1, <3>1, SameWork
      <3>3. QED BY <2>1, <3>2 DEF Same, Owned, Apart
    <2>2. ASSUME NEW x \in Slots, NEW y \in Slots, x # y, work'[x].at = "fences", work'[y].at = "fences",
                 Only(x), Reads(x) \/ Writes(x)
          PROVE  \A a \in DOMAIN work'[x].mine : \A b \in DOMAIN work'[y].mine : work'[x].mine[a] # work'[y].mine[b]
      <3>1. work'[y] = work[y] BY <2>2 DEF Only
      <3>2. Busy(y) BY <2>2, <3>1 DEF Busy
      <3>3. \A b \in DOMAIN work'[y].mine : work'[y].mine[b] \in DOMAIN farm BY <3>1, <3>2 DEF Owned, Mine
      <3>4. CASE CreateFarmsDone(x)
        <4>1. \A a \in DOMAIN work'[x].mine : work'[x].mine[a] \notin DOMAIN farm BY <3>4 DEF CreateFarmsDone
        <4>2. QED BY <3>3, <4>1
      <3>5. CASE CreateFencesDone(x)
        <4>1. work[x].at = "fences" /\ work'[x].mine = work[x].mine BY <3>5 DEF CreateFencesDone
        <4>2. QED BY <2>2, <3>1, <4>1 DEF Owned, Apart
      <3>6. CASE LookDone(x) BY <2>2, <3>6 DEF LookDone
      <3>7. CASE LookRequestDone(x) BY <2>2, <3>7 DEF LookRequestDone
      <3>8. CASE ReadPlacesDone(x) \/ ReadLinksDone(x) BY <2>2, <3>8 DEF ReadPlacesDone, ReadLinksDone
      <3>9. CASE ChangeFenceDone(x) \/ ChangePlaceDone(x) \/ CreatePlacesDone(x)
        BY <2>2, <3>9 DEF ChangeFenceDone, ChangePlaceDone, CreatePlacesDone
      <3>10. CASE RelinkDone(x) BY <2>2, <3>10 DEF RelinkDone
      <3>11. CASE SyncDone(x) \/ WriteLinksDone(x)
        <4>1. work[x] \in WorkRow /\ (work'[x] = Ended(work[x]) \/ work'[x].at \in {"places", "look", "sync"})
          BY <3>11 DEF SyncDone, WriteLinksDone
        <4>2. work'[x].at # "fences" BY <4>1, EndedIs
        <4>3. QED BY <2>2, <4>2
      <3>12. QED BY <2>2, <3>4, <3>5, <3>6, <3>7, <3>8, <3>9, <3>10, <3>11 DEF Reads, Writes
    <2>3. CASE UNCHANGED work BY <2>1, <2>3, AllOthers
    <2>4. ASSUME NEW x \in Slots, Only(x), Reads(x) \/ Writes(x) PROVE work'[h].mine[i] # work'[k].mine[j]
      <3>1. CASE x = h BY <2>2, <2>4, <3>1
      <3>2. CASE x = k BY <2>2, <2>4, <3>2
      <3>3. CASE x # h /\ x # k BY <2>1, <2>4, <3>3, OnlyOthers
      <3>4. QED BY <3>1, <3>2, <3>3
    <2>5. ASSUME NEW x \in Slots, EndsDone(x) PROVE work'[h].mine[i] # work'[k].mine[j]
      <3>1. x # h /\ x # k BY <2>5 DEF EndsDone, Idle
      <3>2. QED BY <2>1, <2>5, <3>1, OnlyOthers DEF EndsDone
    <2>6. ASSUME NEW x \in Slots, StartDone(x) PROVE work'[h].mine[i] # work'[k].mine[j]
      <3>1. x # h /\ x # k BY <2>6 DEF StartDone, Fresh
      <3>2. QED BY <2>1, <2>6, <3>1, StartOthers
    <2>7. QED BY <2>3, <2>4, <2>5, <2>6, ZenonT(60) DEF Moves, Edits, EditPlaceDone, ShowsDone, DeleteFarmDone, vars
  <1>5. QED BY <1>3, <1>4 DEF Owned

(***************************************************************************)
(* Type correctness                                                        *)
(***************************************************************************)

\* The inductive invariant of the types.
Sound == Types /\ Refs /\ Owned

\* Every step is one of those above, and keeps the types.
LEMMA MovesIs ==
  ASSUME Sound, [Next]_vars
  PROVE  Moves /\ Types'
  <1> USE DEF Sound
  <1>1. CASE UNCHANGED vars
    <2>1. Moves BY <1>1 DEF Moves
    <2>2. Types' BY <1>1 DEF Types, vars, rows
    <2>3. QED BY <2>1, <2>2
  <1>2. ASSUME NEW h \in Slots, Step(h) PROVE Moves /\ Types'
    <2>1. CASE Look(h) BY <2>1, LookStep DEF Moves, Reads, rows
    <2>2. CASE LookRequest(h) BY <2>2, LookRequestStep DEF Moves, Reads, rows, Refs
    <2>3. CASE ChangeFence(h) BY <2>3, ChangeFenceStep DEF Moves, Writes
    <2>4. CASE ChangePlace(h) BY <2>4, ChangePlaceStep DEF Moves, Writes
    <2>5. CASE Relink(h) BY <2>5, RelinkStep DEF Moves, Writes
    <2>6. CASE RelinkThrows(h) BY <2>6, EndsStep DEF Moves
    <2>7. CASE CreateFarms(h) BY <2>7, CreateFarmsStep DEF Moves, Writes
    <2>8. CASE CreateFences(h)
      <3>1. Mine(work[h]) BY <2>8, Zenon DEF CreateFences, Owned, Busy
      <3>2. QED BY <2>8, <3>1, CreateFencesStep DEF Moves, Writes
    <2>9. CASE Sync(h) BY <2>9, SyncStep DEF Moves, Writes
    <2>10. CASE ReadPlaces(h) BY <2>10, ReadPlacesStep DEF Moves, Reads, rows
    <2>11. CASE CreatePlaces(h)
      <3>1. Mine(work[h]) BY <2>11 DEF CreatePlaces, Owned, Busy
      <3>2. work[h].payload \subseteq DOMAIN fence BY <2>11 DEF CreatePlaces, Refs, WorkRefs, Busy
      <3>3. QED BY <2>11, <3>1, <3>2, CreatePlacesStep DEF Moves, Writes
    <2>12. CASE ReadLinks(h)
      <3>1. work[h].places \subseteq DOMAIN place BY <2>12 DEF ReadLinks, Refs, WorkRefs, Busy
      <3>2. QED BY <2>12, <3>1, ReadLinksStep DEF Moves, Reads, rows
    <2>13. CASE WriteLinks(h)
      <3>1. DOMAIN work[h].links \subseteq DOMAIN place BY <2>13, Zenon DEF WriteLinks, Refs, WorkRefs, Busy
      <3>2. QED BY <2>13, <3>1, WriteLinksStep DEF Moves, Writes
    <2>14. QED
      BY <1>2, <2>1, <2>2, <2>3, <2>4, <2>5, <2>6, <2>7, <2>8, <2>9, <2>10, <2>11, <2>12, <2>13 DEF Step
  <1>3. ASSUME NEW h \in Slots, Start(h) PROVE Moves /\ Types' BY <1>3, StartStep DEF Moves
  <1>4. ASSUME NEW h \in Slots, Fails(h) PROVE Moves /\ Types' BY <1>4, EndsStep DEF Moves
  <1>5. ASSUME NEW n \in DOMAIN link, RestoreLink(n) PROVE Moves /\ Types' BY <1>5, RestoreLinkStep DEF Moves
  <1>6. ASSUME NEW n \in DOMAIN link, NEW L, RemoveLinks(L) PROVE Moves /\ Types' BY <1>6, RemoveLinksStep DEF Moves
  <1>7. ASSUME NEW n \in DOMAIN link, NEW s \in Shapes, EditPlace(n, s) PROVE Moves /\ Types'
    <2>1. s \in Shape BY InputsAssumption
    <2>2. n \in Nat BY RowsOf
    <2>3. (\E here \in Nat : EditPlaceDone(n, s, here)) /\ Types' BY <1>7, <2>1, EditPlaceStep
    <2>4. QED BY <2>1, <2>2, <2>3 DEF Moves, Edits
  <1>8. ASSUME NEW f \in DOMAIN farm, DeleteFarm(f) PROVE Moves /\ Types' BY <1>8, DeleteFarmStep DEF Moves
  <1>9. QED BY <1>1, <1>2, <1>3, <1>4, <1>5, <1>6, <1>7, <1>8 DEF Next

\* It holds at first.
LEMMA SoundInit ==
  ASSUME Init
  PROVE  Sound
  <1>1. \A h \in Slots : ~Busy(h) /\ work[h] = Idle BY DEF Init, Busy, Idle
  <1>2. DOMAIN farm = {} /\ DOMAIN fence = {} /\ DOMAIN place = {} /\ DOMAIN link = {} BY EmptySeq DEF Init
  <1>3. Types
    <2>1. farm \in Seq(FarmRow) /\ fence \in Seq(FenceRow) /\ place \in Seq(PlaceRow) /\ link \in Seq(LinkRow)
      BY EmptySeq DEF Init
    <2>2. \A h \in Slots : TypeW(work[h]) BY <1>1 DEF TypeW, Idle
    <2>3. left \in [reports : SUBSET Reports, tasks : Nat, together : Nat, events : Nat] BY BudgetsAssumption DEF Init
    <2>4. QED BY <2>1, <2>2, <2>3 DEF Types, Init
  <1>4. Refs BY <1>1, <1>2 DEF Refs, RowRefs
  <1>5. Owned BY <1>1 DEF Owned, Apart, Idle
  <1>6. QED BY <1>3, <1>4, <1>5 DEF Sound

\* Every step keeps it.
LEMMA SoundStep ==
  ASSUME Sound, [Next]_vars
  PROVE  Sound'
  <1>1. Moves /\ Types' BY MovesIs
  <1>2. Refs' BY <1>1, RefsStep DEF Sound, Owned
  <1>3. Owned' BY <1>1, OwnedStep DEF Sound
  <1>4. QED BY <1>1, <1>2, <1>3 DEF Sound

\* The types, and references of rows and work to rows that exist, whatever is
\* done at once.
THEOREM AlwaysSound == Spec => []Sound
  <1>1. Init => Sound BY SoundInit
  <1>2. Sound /\ [Next]_vars => Sound' BY SoundStep
  <1>3. QED BY <1>1, <1>2, PTL DEF Spec

\* TypeOK: a place refers to a geofence of its own farm, and a link to a place
\* and a geofence of its farm.
THEOREM TypeCorrect == Spec => []TypeOK
  <1>1. Sound => TypeOK
    <2> SUFFICES ASSUME Sound PROVE TypeOK
      OBVIOUS
    <2>1. \A h \in Slots : work[h].at \in Stages
      <3> SUFFICES ASSUME NEW h \in Slots PROVE work[h].at \in Stages
        OBVIOUS
      <3>1. TypeW(work[h]) BY DEF Sound, Types
      <3>2. CASE Busy(h) BY <3>2, BusyRow, WorkFields DEF Sound
      <3>3. CASE ~Busy(h) BY <3>1, <3>3 DEF TypeW, Busy, Idle, DoneRow, Stages
      <3>4. QED BY <3>2, <3>3
    <2>2. \A n \in DOMAIN link : link[n].report \in Reports BY RowsOf DEF Sound, LinkRow
    <2>3. QED BY <2>1, <2>2 DEF Sound, Refs, RowRefs, TypeOK, Latest
  <1>2. QED BY <1>1, AlwaysSound, PTL

(***************************************************************************)
(* Places and links lie where they are said to                             *)
(***************************************************************************)

\* A farm without a place has never been changed and has one geofence at most.
Quiet == \A f \in DOMAIN farm : ~HasPlace(f) =>
            /\ farm[f].fate = {}
            /\ \A g, k \in DOMAIN fence : fence[g].farm = f /\ fence[k].farm = f => g = k

\* A geofence of a farm that was never changed says what was said of the farm.
Plain == \A g \in DOMAIN fence : farm[fence[g].farm].fate = {} =>
            fence[g].shape = Stored(farm[fence[g].farm].from, farm[fence[g].farm].said)

\* One that nobody is at work beside is alone.
Alone == \A h \in Slots : Busy(h) /\ ~work[h].raced => \A k \in Slots \ {h} : ~Busy(k)

\* A farm has two places only if two were at work at once.
OnePlace == \A p, q \in DOMAIN place : place[p].farm = place[q].farm => p = q \/ place[p].raced \/ place[q].raced

\* What is about to get a place has none.
Unplaced(w) ==
    /\ w.at \in {"change", "move", "relink", "farms", "fences", "create"} /\ (w.kind = "request" \/ w.at = "create") =>
           \A g \in w.payload : ~HasPlace(fence[g].farm)
    /\ (w.at \in {"fences", "places", "create"} \/ (w.at = "sync" /\ w.kind = "import")) =>
           \A i \in DOMAIN w.mine : ~HasPlace(w.mine[i])

\* What is about to be linked is not, and is where it was read, or was changed by
\* a user.
Unlinked(w) == w.at = "link" => \A p \in DOMAIN w.links :
    /\ \A n \in DOMAIN link : ~(link[n].place = p /\ link[n].report = w.report)
    /\ w.links[p] = place[p].latest \/ "edited" \in farm[place[p].farm].fate

\* Both, of whoever has been at work alone.
Lone == \A h \in Slots : Busy(h) /\ ~work[h].raced => Unplaced(work[h]) /\ Unlinked(work[h])

\* The inductive invariant of GroundTrue, beside Sound.
Ground == Quiet /\ Plain /\ Alone /\ OnePlace /\ Lone /\ PlaceTrue /\ LinkTrue

\* New geofences: of farms whose place is changed, or the first ones of farms
\* just added.
LEMMA NewFences ==
  ASSUME Sound, Moves, NEW g \in DOMAIN fence' \ DOMAIN fence
  PROVE  \/ HasPlace(fence'[g].farm) /\ fence'[g].farm \in DOMAIN farm /\ farm'[fence'[g].farm].fate # {}
         \/ /\ UNCHANGED farm /\ ~HasFence(fence'[g].farm) /\ fence'[g].farm \in DOMAIN farm
            /\ \A k \in DOMAIN fence' : fence'[k].farm = fence'[g].farm => k = g
            /\ fence'[g].shape = Stored(farm[fence'[g].farm].from, farm[fence'[g].farm].said)
  <1> USE DEF Sound
  <1>1. ASSUME NEW h \in Slots, ChangeFenceDone(h)
        PROVE  HasPlace(fence'[g].farm) /\ fence'[g].farm \in DOMAIN farm /\ farm'[fence'[g].farm].fate # {}
    <2>1. Busy(h) /\ work[h].changes # {} BY <1>1 DEF ChangeFenceDone, Busy, Refs, WorkRefs
    <2>2. fence'[g].farm = Current(work[h]).farm /\ farm'[Current(work[h]).farm].fate # {} BY <1>1 DEF ChangeFenceDone
    <2>3. QED BY <2>1, <2>2, CurrentIs
  <1>2. ASSUME Edits
        PROVE  HasPlace(fence'[g].farm) /\ fence'[g].farm \in DOMAIN farm /\ farm'[fence'[g].farm].fate # {}
    <2>1. PICK n, s, here : EditPlaceDone(n, s, here) BY <1>2 DEF Edits
    <2>2. /\ n \in DOMAIN link /\ link[n].farm \in DOMAIN farm /\ link[n].place \in DOMAIN place
          /\ fence'[g].farm = link[n].farm /\ farm'[link[n].farm].fate # {}
      BY <2>1 DEF EditPlaceDone
    <2>3. place[link[n].place].farm = link[n].farm BY <2>2 DEF Refs, RowRefs
    <2>4. QED BY <2>2, <2>3 DEF HasPlace
  <1>3. ASSUME NEW h \in Slots, CreateFencesDone(h)
        PROVE  /\ UNCHANGED farm /\ ~HasFence(fence'[g].farm) /\ fence'[g].farm \in DOMAIN farm
               /\ \A k \in DOMAIN fence' : fence'[k].farm = fence'[g].farm => k = g
               /\ fence'[g].shape = Stored(farm[fence'[g].farm].from, farm[fence'[g].farm].said)
    <2> DEFINE w == work[h]
    <2>1. /\ w \in WorkRow /\ w.at = "fences" /\ UNCHANGED farm /\ \A k \in DOMAIN fence : fence'[k] = fence[k]
          /\ \E i \in DOMAIN w.mine : ~HasFence(w.mine[i]) /\ fence'[g] = NewFence(w.mine[i], w.rest[i].shape)
          /\ \A k \in DOMAIN fence' \ DOMAIN fence : fence'[g].farm = fence'[k].farm => g = k
      BY <1>3 DEF CreateFencesDone
    <2>2. PICK i \in DOMAIN w.mine : ~HasFence(w.mine[i]) /\ fence'[g] = NewFence(w.mine[i], w.rest[i].shape) BY <2>1
    <2>3. /\ w.mine[i] \in DOMAIN farm /\ Len(w.mine) = Len(w.rest)
          /\ farm[w.mine[i]].said = w.rest[i].said /\ farm[w.mine[i]].from = w.rest[i].from
      BY <2>1, <2>2 DEF Owned, Mine, Busy
    <2>4. w.rest \in Seq(Items) /\ w.mine \in Seq(Nat) BY <2>1, WorkFields
    <2>5. w.rest[i] \in Items BY <2>3, <2>4, ElementOfSeq, LenProperties
    <2>6. w.rest[i].shape = Stored(w.rest[i].from, w.rest[i].said) BY <2>5 DEF Items
    <2> HIDE DEF w
    <2>7. fence'[g].farm = w.mine[i] /\ fence'[g].shape = w.rest[i].shape BY <2>2 DEF NewFence
    <2>8. \A k \in DOMAIN fence' : fence'[k].farm = fence'[g].farm => k = g BY <2>1, <2>2, <2>7 DEF HasFence
    <2>9. QED BY <2>1, <2>2, <2>3, <2>6, <2>7, <2>8
  <1>4. QED
    BY <1>1, <1>2, <1>3, ZenonT(60) DEF Moves, Reads, Writes, EndsDone, StartDone, ShowsDone, DeleteFarmDone, vars, rows,
       ChangePlaceDone, RelinkDone, CreateFarmsDone, SyncDone, CreatePlacesDone, WriteLinksDone

\* New farms.
LEMMA NewFarm ==
  ASSUME Moves, NEW f \in DOMAIN farm' \ DOMAIN farm
  PROVE  \E h \in Slots : CreateFarmsDone(h) /\ Only(h)
  <1>1. ASSUME NEW h \in Slots, Writes(h), ~CreateFarmsDone(h) PROVE DOMAIN farm' = DOMAIN farm
    BY <1>1, Zenon DEF Writes, ChangeFenceDone, ChangePlaceDone, RelinkDone, CreateFencesDone, SyncDone,
       CreatePlacesDone, WriteLinksDone
  <1>2. ASSUME NEW h \in Slots, Reads(h) \/ EndsDone(h) \/ StartDone(h) PROVE DOMAIN farm' = DOMAIN farm
    BY <1>2, Zenon DEF Reads, EndsDone, StartDone, rows
  <1>3. ASSUME Edits \/ ShowsDone \/ DeleteFarmDone PROVE DOMAIN farm' = DOMAIN farm
    BY <1>3, ZenonT(60) DEF Edits, EditPlaceDone, ShowsDone, DeleteFarmDone
  <1>4. ASSUME UNCHANGED vars PROVE DOMAIN farm' = DOMAIN farm BY <1>4 DEF vars, rows
  <1>5. QED BY <1>1, <1>2, <1>3, <1>4 DEF Moves

\* New places.
LEMMA NewPlaces ==
  ASSUME Moves, NEW p \in DOMAIN place' \ DOMAIN place
  PROVE  \E h \in Slots : CreatePlacesDone(h) /\ Only(h)
  <1>1. ASSUME NEW h \in Slots, Writes(h), ~CreatePlacesDone(h) PROVE DOMAIN place' = DOMAIN place
    BY <1>1, Zenon DEF Writes, ChangeFenceDone, ChangePlaceDone, RelinkDone, CreateFarmsDone, CreateFencesDone,
       SyncDone, WriteLinksDone
  <1>2. ASSUME NEW h \in Slots, Reads(h) \/ EndsDone(h) \/ StartDone(h) PROVE DOMAIN place' = DOMAIN place
    BY <1>2, Zenon DEF Reads, EndsDone, StartDone, rows
  <1>3. ASSUME Edits \/ ShowsDone \/ DeleteFarmDone PROVE DOMAIN place' = DOMAIN place
    BY <1>3, ZenonT(60) DEF Edits, EditPlaceDone, ShowsDone, DeleteFarmDone
  <1>4. ASSUME UNCHANGED vars PROVE DOMAIN place' = DOMAIN place BY <1>4 DEF vars, rows
  <1>5. QED BY <1>1, <1>2, <1>3, <1>4 DEF Moves

\* New links.
LEMMA NewLinks ==
  ASSUME Moves, NEW n \in DOMAIN link' \ DOMAIN link
  PROVE  \E h \in Slots : WriteLinksDone(h) /\ Only(h)
  <1>1. ASSUME NEW h \in Slots, Writes(h), ~WriteLinksDone(h) PROVE DOMAIN link' = DOMAIN link
    BY <1>1, Zenon DEF Writes, ChangeFenceDone, ChangePlaceDone, RelinkDone, CreateFarmsDone, CreateFencesDone,
       SyncDone, CreatePlacesDone
  <1>2. ASSUME NEW h \in Slots, Reads(h) \/ EndsDone(h) \/ StartDone(h) PROVE DOMAIN link' = DOMAIN link
    BY <1>2, Zenon DEF Reads, EndsDone, StartDone, rows
  <1>3. ASSUME Edits \/ ShowsDone \/ DeleteFarmDone PROVE DOMAIN link' = DOMAIN link
    BY <1>3, ZenonT(60) DEF Edits, EditPlaceDone, ShowsDone, DeleteFarmDone
  <1>4. ASSUME UNCHANGED vars PROVE DOMAIN link' = DOMAIN link BY <1>4 DEF vars, rows
  <1>5. QED BY <1>1, <1>2, <1>3, <1>4 DEF Moves

\* A farm without a place is left alone: nothing but the work that added it
\* touches it.
LEMMA QuietStep ==
  ASSUME Sound, Quiet, Moves
  PROVE  Quiet'
  <1> SUFFICES ASSUME NEW f \in DOMAIN farm', ~HasPlace(f)'
               PROVE  /\ farm'[f].fate = {}
                      /\ \A g, k \in DOMAIN fence' : fence'[g].farm = f /\ fence'[k].farm = f => g = k
    BY DEF Quiet
  <1>1. Grows BY MovesGrow DEF Sound
  <1>2. f \in DOMAIN farm => ~HasPlace(f) BY <1>1, StaysTrue
  <1>3. farm'[f].fate = {}
    <2>1. CASE f \in DOMAIN farm BY <1>1, <1>2, <2>1 DEF Grows, FarmGrows, Quiet
    <2>2. CASE f \notin DOMAIN farm
      <3>1. PICK h \in Slots : CreateFarmsDone(h) BY <2>2, NewFarm
      <3>2. QED BY <2>2, <3>1 DEF CreateFarmsDone
    <2>3. QED BY <2>1, <2>2
  <1>4. ASSUME NEW g \in DOMAIN fence', NEW k \in DOMAIN fence', fence'[g].farm = f, fence'[k].farm = f PROVE g = k
    <2>1. CASE g \notin DOMAIN fence \/ k \notin DOMAIN fence BY <1>2, <1>3, <1>4, <2>1, NewFences
    <2>2. CASE g \in DOMAIN fence /\ k \in DOMAIN fence
      <3>1. fence[g].farm = f /\ fence[k].farm = f BY <1>1, <1>4, <2>2 DEF Grows, FenceGrows
      <3>2. f \in DOMAIN farm BY <2>2, <3>1 DEF Sound, Refs, RowRefs
      <3>3. QED BY <1>2, <2>2, <3>1, <3>2 DEF Quiet
    <2>3. QED BY <2>1, <2>2
  <1>5. QED BY <1>3, <1>4

\* A farm whose place was not changed lies where it was said to.
LEMMA PlainStep ==
  ASSUME Sound, Plain, Moves
  PROVE  Plain'
  <1> SUFFICES ASSUME NEW g \in DOMAIN fence', farm'[fence'[g].farm].fate = {}
               PROVE  fence'[g].shape = Stored(farm'[fence'[g].farm].from, farm'[fence'[g].farm].said)
    BY DEF Plain
  <1>1. Grows BY MovesGrow DEF Sound
  <1>2. CASE g \notin DOMAIN fence BY <1>2, NewFences
  <1>3. CASE g \in DOMAIN fence
    <2>1. fence'[g].farm = fence[g].farm /\ fence[g].farm \in DOMAIN farm
      BY <1>1, <1>3 DEF Grows, FenceGrows, Sound, Refs, RowRefs
    <2>2. fence'[g].shape = fence[g].shape BY <1>1, <1>3, <2>1 DEF Grows, FenceGrows
    <2>3. farm[fence[g].farm].fate = {} /\ farm'[fence[g].farm].said = farm[fence[g].farm].said
          /\ farm'[fence[g].farm].from = farm[fence[g].farm].from
      BY <1>1, <2>1 DEF Grows, FarmGrows
    <2>4. QED BY <1>3, <2>1, <2>2, <2>3 DEF Plain
  <1>4. QED BY <1>2, <1>3

\* Only those that are at work move, and it is known of them whether they were
\* alone.
LEMMA StillBusy ==
  ASSUME Types, NEW h \in Slots, Reads(h) \/ Writes(h)
  PROVE  Busy(h) /\ (Busy(h)' => work'[h].raced = work[h].raced)
  <1>1. Busy(h) BY Zenon DEF Busy, Reads, Writes, LookDone, LookRequestDone, ReadPlacesDone, ReadLinksDone,
                      ChangeFenceDone, ChangePlaceDone, RelinkDone, CreateFarmsDone, CreateFencesDone, SyncDone,
                      CreatePlacesDone, WriteLinksDone
  <1>2. work[h] \in WorkRow BY <1>1, BusyRow
  <1>3. work'[h] = Ended(work[h]) \/ Base(work'[h], work[h])
    BY Zenon DEF Reads, Writes, LookDone, LookRequestDone, ReadPlacesDone, ReadLinksDone,
           ChangeFenceDone, ChangePlaceDone, RelinkDone, CreateFarmsDone, CreateFencesDone, SyncDone,
           CreatePlacesDone, WriteLinksDone
  <1>4. QED BY <1>1, <1>2, <1>3, EndedIs DEF Busy, Base

\* One that is still alone has moved itself, or a user has done something.
LEMMA Undisturbed ==
  ASSUME Types, Alone, Moves, NEW k \in Slots, Busy(k)', ~work'[k].raced
  PROVE  \/ Only(k) /\ (Reads(k) \/ Writes(k)) /\ Busy(k) /\ ~work[k].raced
         \/ StartDone(k)
         \/ work'[k] = work[k] /\ Busy(k) /\ ~work[k].raced /\ (UNCHANGED rows \/ Edits \/ ShowsDone \/ DeleteFarmDone)
  <1>1. CASE UNCHANGED vars BY <1>1 DEF vars, Busy
  <1>2. ASSUME NEW h \in Slots, Only(h), Reads(h) \/ Writes(h), h # k PROVE FALSE
    <2>1. work'[k] = work[k] /\ Busy(h) BY <1>2, StillBusy DEF Only
    <2>2. QED BY <1>2, <2>1 DEF Alone, Busy
  <1>3. ASSUME Only(k), Reads(k) \/ Writes(k) PROVE Busy(k) /\ ~work[k].raced BY <1>3, StillBusy
  <1>4. ASSUME NEW h \in Slots, EndsDone(h) PROVE FALSE
    <2>1. k # h BY <1>4 DEF EndsDone, Busy, Idle
    <2>2. work'[k] = work[k] /\ Busy(h) BY <1>4, <2>1 DEF EndsDone, Only
    <2>3. QED BY <2>1, <2>2 DEF Alone, Busy
  <1>5. ASSUME NEW h \in Slots, StartDone(h), h # k PROVE FALSE
    <2>1. Busy(k) BY <1>5, StartOthers DEF Others
    <2>2. QED BY <1>5, <2>1 DEF StartDone
  <1>6. CASE Edits \/ ShowsDone \/ DeleteFarmDone
    <2>1. UNCHANGED work BY <1>6, ZenonT(60) DEF Edits, EditPlaceDone, ShowsDone, DeleteFarmDone
    <2>2. QED BY <1>6, <2>1 DEF Busy
  <1>7. QED BY <1>1, <1>2, <1>3, <1>4, <1>5, <1>6 DEF Moves

\* Who has not been told of another one is alone.
LEMMA AloneStep ==
  ASSUME Types, Alone, Moves
  PROVE  Alone'
  <1>1. ASSUME \A k \in Slots : Busy(k)' => Busy(k) /\ work'[k].raced = work[k].raced PROVE Alone'
    BY <1>1 DEF Alone
  <1>2. CASE UNCHANGED work BY <1>1, <1>2 DEF Busy
  <1>3. ASSUME NEW h \in Slots, Only(h), Reads(h) \/ Writes(h) PROVE Alone'
    <2>1. Busy(h) /\ (Busy(h)' => work'[h].raced = work[h].raced) BY <1>3, StillBusy
    <2>2. \A k \in Slots : Busy(k)' => Busy(k) /\ work'[k].raced = work[k].raced BY <1>3, <2>1 DEF Only, Busy
    <2>3. QED BY <1>1, <2>2
  <1>4. ASSUME NEW h \in Slots, EndsDone(h) PROVE Alone'
    <2>1. \A k \in Slots : Busy(k)' => Busy(k) /\ work'[k].raced = work[k].raced BY <1>4 DEF EndsDone, Only, Busy, Idle
    <2>2. QED BY <1>1, <2>1
  <1>5. ASSUME NEW h \in Slots, StartDone(h) PROVE Alone'
    <2>1. \A k \in Slots \ {h} : Busy(k)' => Busy(k) /\ work'[k].raced BY <1>5 DEF StartDone, Busy
    <2>2. Busy(h)' /\ ~work'[h].raced => \A k \in Slots \ {h} : ~Busy(k) BY <1>5 DEF StartDone
    <2>3. QED BY <2>1, <2>2 DEF Alone
  <1>6. QED BY <1>2, <1>3, <1>4, <1>5, ZenonT(60) DEF Moves, Edits, EditPlaceDone, ShowsDone, DeleteFarmDone, vars
\* A new place is of a farm that had none, if the one that adds it is alone.
LEMMA FirstPlace ==
  ASSUME Sound, Lone, NEW h \in Slots, CreatePlacesDone(h), ~work[h].raced, NEW p \in DOMAIN place' \ DOMAIN place
  PROVE  ~HasPlace(place'[p].farm)
  <1>1. Busy(h) /\ work[h].at = "create" BY DEF CreatePlacesDone, Busy
  <1>2. Unplaced(work[h]) BY <1>1 DEF Lone
  <1>3. NewPlaceOf(work[h], place'[p]) BY DEF CreatePlacesDone
  <1>4. QED BY <1>1, <1>2, <1>3 DEF Unplaced, NewPlaceOf

\* So a farm gets one place, unless two at work at once add it.
LEMMA OnePlaceStep ==
  ASSUME Sound, Quiet, Lone, OnePlace, Moves
  PROVE  OnePlace'
  <1> SUFFICES ASSUME NEW p \in DOMAIN place', NEW q \in DOMAIN place', place'[p].farm = place'[q].farm, p # q,
                      ~place'[p].raced, ~place'[q].raced
               PROVE  FALSE
    BY DEF OnePlace
  <1>1. Grows BY MovesGrow DEF Sound
  <1>2. ASSUME NEW x \in DOMAIN place', NEW y \in DOMAIN place', place'[x].farm = place'[y].farm, x # y,
               ~place'[x].raced, ~place'[y].raced, x \notin DOMAIN place
        PROVE  FALSE
    <2>1. PICK h \in Slots : CreatePlacesDone(h) BY <1>2, NewPlaces
    <2>2. work[h] \in WorkRow /\ ~work[h].raced BY <1>2, <2>1 DEF CreatePlacesDone
    <2>3. ~HasPlace(place'[x].farm) BY <1>2, <2>1, <2>2, FirstPlace
    <2>4. CASE y \in DOMAIN place
      <3>1. place[y].farm = place'[y].farm BY <1>1, <2>4 DEF Grows, PlaceGrows
      <3>2. QED BY <1>2, <2>3, <2>4, <3>1 DEF HasPlace
    <2>5. CASE y \notin DOMAIN place
      <3>1. PICK g, k \in work[h].payload : g # k /\ fence[g].farm = fence[k].farm /\ fence[g].farm = place'[x].farm
        BY <1>2, <2>1, <2>5 DEF CreatePlacesDone
      <3>2. Busy(h) BY <2>1 DEF CreatePlacesDone, Busy
      <3>3. g \in DOMAIN fence /\ k \in DOMAIN fence BY <3>2 DEF Sound, Refs, WorkRefs
      <3>4. fence[g].farm \in DOMAIN farm BY <3>3 DEF Sound, Refs, RowRefs
      <3>5. QED BY <2>3, <3>1, <3>3, <3>4, Zenon DEF Quiet
    <2>6. QED BY <2>4, <2>5
  <1>3. CASE p \in DOMAIN place /\ q \in DOMAIN place BY <1>1, <1>3 DEF Grows, PlaceGrows, OnePlace
  <1>4. QED BY <1>2, <1>3

\* Nobody has given a farm a place, unless places were added.
LEMMA NoNewPlace ==
  ASSUME Sound, Moves, \A h \in Slots : ~(CreatePlacesDone(h) /\ Only(h)), NEW f, HasPlace(f)'
  PROVE  HasPlace(f)
  <1>1. PICK p \in DOMAIN place' : place'[p].farm = f BY DEF HasPlace
  <1>2. p \in DOMAIN place BY NewPlaces
  <1>3. Grows BY MovesGrow DEF Sound
  <1>4. QED BY <1>1, <1>2, <1>3 DEF Grows, PlaceGrows, HasPlace

\* What is about to get a place still has none.
LEMMA UnplacedStays ==
  ASSUME Sound, Moves, \A h \in Slots : ~(CreatePlacesDone(h) /\ Only(h)), NEW v,
         v.at \in {"change", "move", "relink", "farms", "fences", "create"} /\ (v.kind = "request" \/ v.at = "create") =>
            \A g \in v.payload : g \in DOMAIN fence /\ ~HasPlace(fence[g].farm),
         (v.at \in {"fences", "places", "create"} \/ (v.at = "sync" /\ v.kind = "import")) =>
            \A i \in DOMAIN v.mine : ~HasPlace(v.mine[i])
  PROVE  Unplaced(v)'
  <1>1. Grows BY MovesGrow DEF Sound
  <1>2. \A f : HasPlace(f)' => HasPlace(f) BY NoNewPlace
  <1>3. \A g \in DOMAIN fence : fence'[g].farm = fence[g].farm BY <1>1 DEF Grows, FenceGrows
  <1>4. \A g \in DOMAIN fence : ~HasPlace(fence[g].farm) => ~HasPlace(fence[g].farm)' BY <1>2, <1>3
  <1>5. \A i \in DOMAIN v.mine : ~HasPlace(v.mine[i]) => ~HasPlace(v.mine[i])' BY <1>2
  <1>6. v.at \in {"change", "move", "relink", "farms", "fences", "create"} /\ (v.kind = "request" \/ v.at = "create") =>
           \A g \in v.payload : ~HasPlace(fence[g].farm)'
    BY <1>3, <1>4
  <1>7. (v.at \in {"fences", "places", "create"} \/ (v.at = "sync" /\ v.kind = "import")) =>
            \A i \in DOMAIN v.mine : ~HasPlace(v.mine[i])'
    BY <1>5
  <1>8. QED BY <1>6, <1>7 DEF Unplaced
\* Places are added by one that is at that.
LEMMA NotAdding ==
  ASSUME Types, Alone, NEW k \in Slots, Busy(k), ~work[k].raced, work[k].at # "create"
  PROVE  \A h \in Slots : ~(CreatePlacesDone(h) /\ Only(h))
  BY DEF Alone, CreatePlacesDone, Busy

\* A step of its own leaves what is about to get a place without one.
LEMMA UnplacedOwn ==
  ASSUME Sound, Alone, Lone, Moves, NEW k \in Slots, Reads(k) \/ Writes(k), Busy(k)', ~work[k].raced
  PROVE  Unplaced(work[k])'
  <1> SUFFICES ASSUME NEW v, v = work'[k], NEW w, w = work[k] PROVE Unplaced(v)'
    OBVIOUS
  <1>1. Busy(k) /\ Types BY StillBusy DEF Sound
  <1>2. w \in WorkRow /\ WorkRefs(w) /\ Mine(w) /\ Unplaced(w) /\ RowRefs BY <1>1, BusyRow DEF Sound, Refs, Owned, Lone
  <1>3. w.payload \subseteq DOMAIN fence BY <1>2 DEF WorkRefs
  <1>4. w.at # "create" => \A h \in Slots : ~(CreatePlacesDone(h) /\ Only(h)) BY <1>1, NotAdding
  <1>5. CASE LookDone(k)
    <2>1. w.at = "look" /\ v.at \in {"places", "farms"} /\ v.mine = <<>> /\ v.kind = "import"
      BY <1>5 DEF LookDone, Base
    <2>2. DOMAIN v.mine = {} BY <2>1, EmptySeq
    <2>3. QED BY <1>2, <1>4, <2>1, <2>2, UnplacedStays DEF WorkRefs
  <1>6. CASE LookRequestDone(k)
    <2>1. /\ w.at = "look" /\ w.kind = "request" /\ v.at \in {"change", "farms", "create"} /\ v.mine = w.mine
          /\ v.payload \subseteq DOMAIN fence /\ \A g \in v.payload : ~HasPlace(fence[g].farm)
      BY <1>6 DEF LookRequestDone
    <2>2. DOMAIN v.mine = {} BY <1>2, <2>1, EmptySeq DEF Mine
    <2>3. QED BY <1>4, <2>1, <2>2, UnplacedStays
  <1>7. CASE ReadPlacesDone(k)
    <2>1. /\ w.at = "places" /\ v.at = "create" /\ v.mine = w.mine
          /\ \A g \in v.payload : \E m \in w.matched : m.id = g /\ ~HasPlace(m.farm)
      BY <1>7 DEF ReadPlacesDone
    <2>2. \A g \in v.payload : g \in DOMAIN fence /\ ~HasPlace(fence[g].farm) BY <1>2, <2>1 DEF WorkRefs
    <2>3. \A i \in DOMAIN v.mine : ~HasPlace(v.mine[i]) BY <1>2, <2>1 DEF Unplaced
    <2>4. QED BY <1>4, <2>1, <2>2, <2>3, UnplacedStays
  <1>8. CASE ReadLinksDone(k)
    <2>1. w.at = "attach" /\ v.at = "link" BY <1>8 DEF ReadLinksDone
    <2>2. QED BY <1>4, <2>1, UnplacedStays
  <1>9. ASSUME w.at \in {"change", "move", "relink"}, v.at \in {"change", "move", "relink", "farms", "create"},
               v.mine = w.mine, v.payload = w.payload, v.kind = w.kind
        PROVE  Unplaced(v)'
    <2>1. w.kind = "request" BY <1>2, <1>9 DEF WorkRefs
    <2>2. \A g \in v.payload : g \in DOMAIN fence /\ ~HasPlace(fence[g].farm) BY <1>2, <1>3, <1>9, <2>1 DEF Unplaced
    <2>3. DOMAIN v.mine = {} BY <1>2, <1>9, EmptySeq DEF Mine
    <2>4. QED BY <1>4, <1>9, <2>2, <2>3, UnplacedStays
  <1>10. CASE ChangeFenceDone(k) BY <1>9, <1>10 DEF ChangeFenceDone, Base
  <1>11. CASE ChangePlaceDone(k) BY <1>9, <1>11 DEF ChangePlaceDone, Base
  <1>12. CASE RelinkDone(k) BY <1>9, <1>12 DEF RelinkDone, Base
  <1>13. CASE CreateFarmsDone(k)
    <2>1. /\ w.at = "farms" /\ v.at = "fences" /\ v.payload = w.payload /\ v.kind = w.kind
          /\ \A i \in DOMAIN v.mine : v.mine[i] \notin DOMAIN farm
      BY <1>13 DEF CreateFarmsDone, Base
    <2>2. v.kind = "request" => \A g \in v.payload : g \in DOMAIN fence /\ ~HasPlace(fence[g].farm)
      BY <1>2, <1>3, <2>1 DEF Unplaced
    <2>3. \A i \in DOMAIN v.mine : ~HasPlace(v.mine[i]) BY <1>2, <2>1 DEF RowRefs, HasPlace
    <2>4. QED BY <1>4, <2>1, <2>2, <2>3, UnplacedStays
  <1>14. CASE CreateFencesDone(k)
    <2>1. /\ w.at = "fences" /\ v.at \in {"fences", "sync", "create"} /\ v.payload = w.payload /\ v.kind = w.kind
          /\ v.mine = w.mine /\ (v.at = "create" => w.kind # "import")
      BY <1>14 DEF CreateFencesDone, Base
    <2>2. v.at = "create" => v.kind = "request" BY <1>2, <2>1, WorkFields DEF WorkRefs, Kinds
    <2>3. v.kind = "request" => \A g \in v.payload : g \in DOMAIN fence /\ ~HasPlace(fence[g].farm)
      BY <1>2, <1>3, <2>1 DEF Unplaced
    <2>4. \A i \in DOMAIN v.mine : ~HasPlace(v.mine[i]) BY <1>2, <2>1 DEF Unplaced
    <2>5. QED BY <1>4, <2>1, <2>2, <2>3, <2>4, UnplacedStays
  <1>15. CASE SyncDone(k)
    <2>1. w.kind = "import"
      <3>1. w.kind # "import" => v = Ended(w) BY <1>15 DEF SyncDone
      <3>2. v.at # "done" BY DEF Busy
      <3>3. QED BY <1>2, <3>1, <3>2, EndedIs
    <2>2. w.at = "sync" /\ v.at = "places" /\ v.mine = w.mine BY <1>15, <2>1 DEF SyncDone
    <2>3. \A i \in DOMAIN v.mine : ~HasPlace(v.mine[i]) BY <1>2, <2>1, <2>2 DEF Unplaced
    <2>4. QED BY <1>4, <2>2, <2>3, UnplacedStays
  <1>16. CASE CreatePlacesDone(k)
    <2>1. v.at = "attach" BY <1>16 DEF CreatePlacesDone
    <2>2. QED BY <2>1 DEF Unplaced
  <1>17. CASE WriteLinksDone(k)
    <2>1. v.at # "done" BY DEF Busy
    <2>2. v # Ended(w) BY <1>2, <2>1, EndedIs
    <2>3. v.kind = w.kind /\ (v.at = "look" \/ (v.at = "sync" /\ w.kind = "request"))
      BY <1>17, <2>2 DEF WriteLinksDone, Base
    <2>4. QED BY <2>3 DEF Unplaced
  <1>18. QED
    BY <1>5, <1>6, <1>7, <1>8, <1>10, <1>11, <1>12, <1>13, <1>14, <1>15, <1>16, <1>17 DEF Reads, Writes

\* What users do leaves what is about to be linked unlinked.
LEMMA UnlinkedStays ==
  ASSUME Sound, Moves, NEW w, Unlinked(w), WorkRefs(w), UNCHANGED rows \/ Edits \/ ShowsDone \/ DeleteFarmDone
  PROVE  Unlinked(w)'
  <1> SUFFICES ASSUME w.at = "link", NEW p \in DOMAIN w.links
               PROVE  /\ \A n \in DOMAIN link' : ~(link'[n].place = p /\ link'[n].report = w.report)
                      /\ w.links[p] = place'[p].latest \/ "edited" \in farm'[place'[p].farm].fate
    BY DEF Unlinked
  <1>1. Grows BY MovesGrow DEF Sound
  <1>2. DOMAIN link' = DOMAIN link
    BY ZenonT(60) DEF rows, Edits, EditPlaceDone, ShowsDone, DeleteFarmDone
  <1>3. \A n \in DOMAIN link' : ~(link'[n].place = p /\ link'[n].report = w.report)
    BY <1>1, <1>2 DEF Grows, LinkGrows, Unlinked
  <1>4. p \in DOMAIN place /\ place'[p].farm = place[p].farm BY <1>1 DEF WorkRefs, Grows, PlaceGrows
  <1>5. place[p].farm \in DOMAIN farm BY <1>4 DEF Sound, Refs, RowRefs
  <1>6. w.links[p] = place[p].latest \/ "edited" \in farm[place[p].farm].fate BY DEF Unlinked
  <1>7. "edited" \in farm[place[p].farm].fate => "edited" \in farm'[place'[p].farm].fate
    BY <1>1, <1>4, <1>5 DEF Grows, FarmGrows
  <1>8. place'[p].latest = place[p].latest \/ "edited" \in farm'[place'[p].farm].fate
    <2>1. CASE UNCHANGED rows \/ ShowsDone \/ DeleteFarmDone BY <2>1 DEF rows, ShowsDone, DeleteFarmDone
    <2>2. CASE Edits
      <3>1. PICK n, s, here : EditPlaceDone(n, s, here) BY <2>2 DEF Edits
      <3>2. /\ n \in DOMAIN link /\ link[n].place \in DOMAIN place /\ "edited" \in farm'[link[n].farm].fate
            /\ \A q \in DOMAIN place : q # link[n].place => place'[q] = place[q]
        BY <3>1 DEF EditPlaceDone
      <3>3. place[link[n].place].farm = link[n].farm BY <3>2 DEF Sound, Refs, RowRefs
      <3>4. QED BY <1>4, <3>2, <3>3
    <2>3. QED BY <2>1, <2>2
  <1>9. QED BY <1>3, <1>6, <1>7, <1>8

\* What has been read was just not linked.
LEMMA UnlinkedRead ==
  ASSUME NEW k \in Slots, ReadLinksDone(k), UNCHANGED rows
  PROVE  Unlinked(work[k])'
  <1> SUFFICES ASSUME NEW v, v = work'[k] PROVE Unlinked(v)'
    OBVIOUS
  <1>1. /\ Base(v, work[k])
        /\ \A p \in DOMAIN v.links : /\ v.links[p] = place[p].latest
                                     /\ \A n \in DOMAIN link : ~(link[n].place = p /\ link[n].report = work[k].report)
    BY DEF ReadLinksDone
  <1>2. \A p \in DOMAIN v.links : /\ v.links[p] = place'[p].latest
                                  /\ \A n \in DOMAIN link' : ~(link'[n].place = p /\ link'[n].report = v.report)
    BY <1>1 DEF Base, rows
  <1>3. QED BY <1>2 DEF Unlinked

\* What is read alone is still so when it is written.
LEMMA LoneStep ==
  ASSUME Sound, Alone, Lone, Moves
  PROVE  Lone'
  <1> SUFFICES ASSUME NEW k \in Slots, Busy(k)', ~work'[k].raced PROVE Unplaced(work[k])' /\ Unlinked(work[k])'
    BY DEF Lone
  <1>1. CASE Only(k) /\ (Reads(k) \/ Writes(k)) /\ Busy(k) /\ ~work[k].raced
    <2>1. Unplaced(work[k])' BY <1>1, UnplacedOwn
    <2>2. Unlinked(work[k])'
      <3>1. CASE ReadLinksDone(k) /\ UNCHANGED rows BY <3>1, UnlinkedRead
      <3>2. CASE ~(ReadLinksDone(k) /\ UNCHANGED rows)
        <4>1. work[k] \in WorkRow BY <1>1, BusyRow DEF Sound
        <4>2. work'[k].at # "link"
          BY <1>1, <3>2, <4>1, EndedIs, Zenon DEF Reads, Writes, LookDone, LookRequestDone, ReadPlacesDone,
             ChangeFenceDone, ChangePlaceDone, RelinkDone, CreateFarmsDone, CreateFencesDone, SyncDone,
             CreatePlacesDone, WriteLinksDone
        <4>3. QED BY <4>2 DEF Unlinked
      <3>3. QED BY <3>1, <3>2
    <2>3. QED BY <2>1, <2>2
  <1>2. CASE StartDone(k)
    <2> SUFFICES ASSUME NEW v, v = work'[k] PROVE Unplaced(v)' /\ Unlinked(v)'
      OBVIOUS
    <2>1. v.at \in {"look", "attach"} BY <1>2 DEF StartDone, Fresh
    <2>2. QED BY <2>1 DEF Unplaced, Unlinked
  <1>3. CASE work'[k] = work[k] /\ Busy(k) /\ ~work[k].raced /\ (UNCHANGED rows \/ Edits \/ ShowsDone \/ DeleteFarmDone)
    <2> SUFFICES ASSUME NEW w, w = work[k], w = work'[k] PROVE Unplaced(w)' /\ Unlinked(w)'
      BY <1>3
    <2>1. Unplaced(w) /\ Unlinked(w) /\ WorkRefs(w) BY <1>3 DEF Lone, Sound, Refs
    <2>2. Unlinked(w)' BY <1>3, <2>1, UnlinkedStays
    <2>3. Unplaced(w)'
      <3>1. DOMAIN place' = DOMAIN place BY <1>3, ZenonT(60) DEF rows, Edits, EditPlaceDone, ShowsDone, DeleteFarmDone
      <3>2. \A f : HasPlace(f)' => HasPlace(f)
        <4>1. Grows BY MovesGrow DEF Sound
        <4>2. QED BY <3>1, <4>1 DEF Grows, PlaceGrows, HasPlace
      <3>3. Grows BY MovesGrow DEF Sound
      <3>4. \A g \in w.payload : g \in DOMAIN fence /\ fence'[g].farm = fence[g].farm
        BY <2>1, <3>3 DEF WorkRefs, Grows, FenceGrows
      <3>5. \A g \in w.payload : ~HasPlace(fence[g].farm) => ~HasPlace(fence[g].farm)' BY <3>2, <3>4
      <3>6. \A i \in DOMAIN w.mine : ~HasPlace(w.mine[i]) => ~HasPlace(w.mine[i])' BY <3>2
      <3>7. QED BY <2>1, <3>5, <3>6 DEF Unplaced
    <2>4. QED BY <2>2, <2>3
  <1>4. QED BY <1>1, <1>2, <1>3, Undisturbed DEF Sound
\* PlaceTrue and LinkTrue, of one place and one link.
Lies(p) ==
    \/ SameWay(Latest(p).shape, farm[place[p].farm].said)
    \/ Misread(place[p].farm)
    \/ farm[place[p].farm].fate \cap {"crossed", "mixed"} # {}
    \/ Twins(p) # {}

\* LinkTrue of one link.
Follows(n) ==
    \/ link[n].fence = place[link[n].place].latest
    \/ farm[link[n].farm].fate \cap {"half", "edited"} # {}
    \/ link[n].raced
    \/ Twins(link[n].place) # {}

\* PlaceTrue and LinkTrue, one place and one link at a time.
LEMMA LiesFollows ==
  /\ PlaceTrue <=> \A p \in DOMAIN place : Lies(p)
  /\ LinkTrue <=> \A n \in DOMAIN link : Follows(n)
  BY DEF PlaceTrue, LinkTrue, Lies, Follows

\* A place has a twin if another one of its farm was added when two were at work.
LEMMA TwinsAre ==
  /\ \A p : Twins(p) # {} <=> \E q \in DOMAIN place : /\ q # p /\ place[q].farm = place[p].farm
                                                      /\ place[p].raced \/ place[q].raced
  BY DEF Twins, PlacesOf

\* Twins stay.
LEMMA TwinsStay ==
  ASSUME Grows, NEW p \in DOMAIN place, Twins(p) # {}
  PROVE  Twins(p)' # {}
  <1>1. PICK q \in DOMAIN place : q # p /\ place[q].farm = place[p].farm /\ (place[p].raced \/ place[q].raced)
    BY TwinsAre
  <1>2. q \in DOMAIN place' /\ place'[q].farm = place'[p].farm /\ (place'[p].raced \/ place'[q].raced)
    BY <1>1 DEF Grows, PlaceGrows
  <1>3. QED BY <1>1, <1>2 DEF Twins, PlacesOf

\* Two places of one farm are twins.
LEMMA TwinsOf ==
  ASSUME OnePlace, Grows, NEW p \in DOMAIN place, NEW q \in DOMAIN place, p # q, place[p].farm = place[q].farm
  PROVE  Twins(p)' # {}
  BY TwinsAre, TwinsStay DEF OnePlace

\* What moves nothing.
Still == /\ \A p \in DOMAIN place : place'[p] = place[p]
         /\ \A g \in DOMAIN fence : fence'[g] = fence[g]
         /\ \A f \in DOMAIN farm : farm'[f].said = farm[f].said /\ farm'[f].from = farm[f].from

\* Only an edit and a request that moves its place move anything.
LEMMA StillIs ==
  ASSUME Moves, ~Edits
  PROVE  Still \/ \E h \in Slots : ChangePlaceDone(h)
  <1>1. ASSUME NEW h \in Slots, Writes(h), ~ChangePlaceDone(h) PROVE Still
    <2>1. CASE ChangeFenceDone(h)
      <3>1. \A f \in DOMAIN farm : farm'[f].said = farm[f].said /\ farm'[f].from = farm[f].from
        BY <2>1 DEF ChangeFenceDone
      <3>2. QED BY <2>1, <3>1 DEF ChangeFenceDone, Still
    <2>2. CASE RelinkDone(h)
      <3>1. \A f \in DOMAIN farm : farm'[f].said = farm[f].said /\ farm'[f].from = farm[f].from BY <2>2 DEF RelinkDone
      <3>2. QED BY <2>2, <3>1 DEF RelinkDone, Still
    <2>3. CASE CreateFarmsDone(h) BY <2>3 DEF CreateFarmsDone, Still
    <2>4. CASE CreateFencesDone(h) BY <2>4 DEF CreateFencesDone, Still
    <2>5. CASE SyncDone(h) BY <2>5 DEF SyncDone, Still
    <2>6. CASE CreatePlacesDone(h) BY <2>6 DEF CreatePlacesDone, Still
    <2>7. CASE WriteLinksDone(h) BY <2>7 DEF WriteLinksDone, Still
    <2>8. QED BY <1>1, <2>1, <2>2, <2>3, <2>4, <2>5, <2>6, <2>7 DEF Writes
  <1>2. ASSUME UNCHANGED rows PROVE Still BY <1>2 DEF Still, rows
  <1>3. ASSUME ShowsDone \/ DeleteFarmDone PROVE Still BY <1>3 DEF Still, ShowsDone, DeleteFarmDone
  <1>4. QED BY <1>1, <1>2, <1>3, Zenon DEF Moves, Reads, EndsDone, StartDone, vars

\* A place that is not moved lies where it lay.
LEMMA LiesStays ==
  ASSUME Refs, Grows, NEW p \in DOMAIN place, Lies(p), place'[p].latest = place[p].latest,
         fence'[place[p].latest].shape = fence[place[p].latest].shape,
         farm'[place[p].farm].said = farm[place[p].farm].said, farm'[place[p].farm].from = farm[place[p].farm].from
  PROVE  Lies(p)'
  <1>1. place'[p].farm = place[p].farm /\ place[p].farm \in DOMAIN farm BY DEF Refs, RowRefs, Grows, PlaceGrows
  <1>2. CASE SameWay(Latest(p).shape, farm[place[p].farm].said)
    <2>1. SameWay(fence'[place'[p].latest].shape, farm'[place'[p].farm].said) BY <1>1, <1>2 DEF Latest
    <2>2. QED BY <2>1 DEF Lies, Latest
  <1>3. CASE Misread(place[p].farm) BY <1>1, <1>3 DEF Lies, Misread
  <1>4. CASE farm[place[p].farm].fate \cap {"crossed", "mixed"} # {}
    <2>1. farm[place[p].farm].fate \ {"half"} \subseteq farm'[place[p].farm].fate BY <1>1 DEF Grows, FarmGrows
    <2>2. farm'[place'[p].farm].fate \cap {"crossed", "mixed"} # {} BY <1>1, <1>4, <2>1
    <2>3. QED BY <2>2 DEF Lies
  <1>5. CASE Twins(p) # {} BY <1>5, TwinsStay DEF Lies
  <1>6. QED BY <1>2, <1>3, <1>4, <1>5 DEF Lies

\* A new place lies where its farm was said to, or the farm has another one.
LEMMA LiesNew ==
  ASSUME Sound, Sound', Quiet, Plain', Lone, Moves, NEW h \in Slots, CreatePlacesDone(h), NEW p \in DOMAIN place' \ DOMAIN place
  PROVE  Lies(p)'
  <1> DEFINE f == place'[p].farm
  <1>1. /\ f \in DOMAIN farm' /\ place'[p].latest \in DOMAIN fence' /\ fence'[place'[p].latest].farm = f /\ farm' = farm
        /\ place'[p].raced = work[h].raced
    BY DEF CreatePlacesDone, Sound, Refs, RowRefs
  <1>2. CASE farm'[f].fate = {}
    <2>1. fence'[place'[p].latest].shape = Stored(farm'[f].from, farm'[f].said) BY <1>1, <1>2 DEF Plain
    <2>2. farm'[f] \in FarmRow BY <1>1, RowsOf DEF Sound
    <2>3. PICK s \in Shape, o \in Sources : s = farm'[f].said /\ o = farm'[f].from BY <2>2 DEF FarmRow
    <2>4. SameWay(Stored(o, s), s) \/ (o = "cell" /\ s.kind = "polygon") \/ (o = "export" /\ s.kind = "point")
      BY StoredSame
    <2>5. SameWay(fence'[place'[p].latest].shape, farm'[f].said) \/ Misread(place[p].farm)'
      BY <2>1, <2>3, <2>4 DEF Misread
    <2>6. QED BY <2>5 DEF Lies, Latest
  <1>3. CASE farm'[f].fate # {}
    <2>1. HasPlace(f) BY <1>1, <1>3 DEF Quiet
    <2>2. work[h].raced BY <2>1, FirstPlace
    <2>3. PICK q \in DOMAIN place : place[q].farm = f BY <2>1 DEF HasPlace
    <2>4. q \in DOMAIN place' /\ place'[q].farm = f /\ q # p BY <2>3, MovesGrow DEF Sound, Grows, PlaceGrows
    <2>5. QED BY <1>1, <2>2, <2>4 DEF Lies, Twins, PlacesOf
  <1>4. QED BY <1>2, <1>3

\* The place of a change lies where the entry says, and the others of its farm
\* are twins.
LEMMA LiesMoved ==
  ASSUME Sound, Grows, OnePlace, PlaceTrue, NEW h \in Slots, ChangePlaceDone(h), NEW p \in DOMAIN place
  PROVE  Lies(p)'
  <1> SUFFICES ASSUME NEW c, c = Current(work[h]) PROVE Lies(p)'
    OBVIOUS
  <1>1. Busy(h) /\ WorkRefs(work[h]) /\ work[h].at = "move" BY DEF ChangePlaceDone, Busy, Sound, Refs
  <1>2. /\ c.farm \in DOMAIN farm /\ c.place \in DOMAIN place /\ place[c.place].farm = c.farm /\ c.shape = c.said
    BY <1>1, CurrentIs DEF WorkRefs, Sound
  <1>3. fence[work[h].moved].shape = c.shape \/ "mixed" \in farm[c.farm].fate BY <1>1 DEF WorkRefs
  <1>4. /\ \A q \in DOMAIN place : q # c.place => place'[q] = place[q]
        /\ place'[c.place].farm = place[c.place].farm /\ place'[c.place].latest = work[h].moved
        /\ \A f \in DOMAIN farm : f # c.farm => farm'[f] = farm[f]
        /\ farm[c.farm].fate \subseteq farm'[c.farm].fate
        /\ "crossed" \in farm'[c.farm].fate \/ farm'[c.farm].said = c.said
        /\ fence' = fence
    BY DEF ChangePlaceDone
  <1>5. CASE p = c.place
    <2>1. \/ SameWay(fence'[place'[p].latest].shape, farm'[place'[p].farm].said)
          \/ farm'[place'[p].farm].fate \cap {"crossed", "mixed"} # {}
      BY <1>2, <1>3, <1>4, <1>5 DEF SameWay
    <2>2. QED BY <2>1 DEF Lies, Latest
  <1>6. CASE p # c.place /\ place[p].farm = c.farm
    <2>1. Twins(p)' # {} BY <1>2, <1>6, TwinsOf
    <2>2. QED BY <2>1 DEF Lies
  <1>7. CASE place[p].farm # c.farm
    <2>1. place'[p] = place[p] /\ place[p].farm \in DOMAIN farm BY <1>2, <1>4, <1>7 DEF Sound, Refs, RowRefs
    <2>2. farm'[place[p].farm] = farm[place[p].farm] BY <1>4, <1>7, <2>1
    <2>3. Lies(p) BY LiesFollows
    <2>4. QED BY <1>4, <2>1, <2>2, <2>3, LiesStays DEF Sound
  <1>8. QED BY <1>5, <1>6, <1>7

\* So does the place that a user edits.
LEMMA LiesEdited ==
  ASSUME Sound, Grows, OnePlace, PlaceTrue, NEW n, NEW s, NEW here, EditPlaceDone(n, s, here), NEW p \in DOMAIN place
  PROVE  Lies(p)'
  <1> SUFFICES ASSUME NEW l, l = link[n] PROVE Lies(p)'
    OBVIOUS
  <1>1. /\ n \in DOMAIN link /\ l.farm \in DOMAIN farm /\ l.place \in DOMAIN place
        /\ here \in DOMAIN fence => fence[here].farm = l.farm
        /\ fence'[here].shape = s
        /\ \A k \in DOMAIN fence : k # here => fence'[k].shape = fence[k].shape
        /\ \A q \in DOMAIN place : q # l.place => place'[q] = place[q]
        /\ place'[l.place].farm = place[l.place].farm /\ place'[l.place].latest = here
        /\ \A f \in DOMAIN farm : f # l.farm => farm'[f] = farm[f]
        /\ farm'[l.farm].said = s
    BY DEF EditPlaceDone
  <1>2. place[l.place].farm = l.farm BY <1>1 DEF Sound, Refs, RowRefs
  <1>3. CASE p = l.place
    <2>1. SameWay(fence'[place'[p].latest].shape, farm'[place'[p].farm].said) BY <1>1, <1>2, <1>3 DEF SameWay
    <2>2. QED BY <2>1 DEF Lies, Latest
  <1>4. CASE p # l.place /\ place[p].farm = l.farm
    <2>1. Twins(p)' # {} BY <1>1, <1>2, <1>4, TwinsOf
    <2>2. QED BY <2>1 DEF Lies
  <1>5. CASE place[p].farm # l.farm
    <2>1. /\ place'[p] = place[p] /\ place[p].farm \in DOMAIN farm
          /\ place[p].latest \in DOMAIN fence /\ fence[place[p].latest].farm = place[p].farm
      BY <1>1, <1>2, <1>5 DEF Sound, Refs, RowRefs
    <2>2. place[p].latest # here BY <1>1, <1>5, <2>1
    <2>3. fence'[place[p].latest].shape = fence[place[p].latest].shape BY <1>1, <2>1, <2>2
    <2>4. farm'[place[p].farm] = farm[place[p].farm] BY <1>1, <1>5, <2>1
    <2>5. Lies(p) BY LiesFollows
    <2>6. QED BY <2>1, <2>3, <2>4, <2>5, LiesStays DEF Sound
  <1>6. QED BY <1>3, <1>4, <1>5

\* Every place lies where it was said to after every step.
LEMMA PlaceTrueStep ==
  ASSUME Sound, Sound', Quiet, Plain', Lone, OnePlace, PlaceTrue, Moves
  PROVE  PlaceTrue'
  <1>1. Grows BY MovesGrow DEF Sound
  <1>2. ASSUME NEW p \in DOMAIN place' PROVE Lies(p)'
    <2>1. CASE p \notin DOMAIN place
      <3>1. PICK h \in Slots : CreatePlacesDone(h) BY <1>2, <2>1, NewPlaces
      <3>2. QED BY <1>2, <2>1, <3>1, LiesNew
    <2>2. CASE p \in DOMAIN place /\ Edits
      <3>1. PICK n, s, here : EditPlaceDone(n, s, here) BY <2>2 DEF Edits
      <3>2. QED BY <1>1, <2>2, <3>1, LiesEdited
    <2>3. CASE p \in DOMAIN place /\ \E h \in Slots : ChangePlaceDone(h) BY <1>1, <2>3, LiesMoved
    <2>4. CASE p \in DOMAIN place /\ Still
      <3>1. place[p].latest \in DOMAIN fence /\ place[p].farm \in DOMAIN farm /\ Lies(p)
        BY <2>4, LiesFollows DEF Sound, Refs, RowRefs
      <3>2. QED BY <1>1, <2>4, <3>1, LiesStays DEF Sound, Still
    <2>5. QED BY <2>1, <2>2, <2>3, <2>4, StillIs
  <1>3. (\A p \in DOMAIN place : Lies(p))' BY <1>2
  <1>4. QED BY <1>3 DEF PlaceTrue, Lies
\* A link whose place is not moved, of a farm of which nothing is forgotten, is
\* where it was.
LEMMA FollowsStays ==
  ASSUME Refs, Grows, NEW n \in DOMAIN link, Follows(n), link'[n].fence = link[n].fence,
         place'[link[n].place].latest = place[link[n].place].latest, farm[link[n].farm].fate \subseteq farm'[link[n].farm].fate
  PROVE  Follows(n)'
  <1>1. /\ link'[n].place = link[n].place /\ link'[n].farm = link[n].farm /\ link'[n].raced = link[n].raced
        /\ link[n].place \in DOMAIN place
    BY DEF Refs, RowRefs, Grows, LinkGrows
  <1>2. CASE Twins(link[n].place) # {}
    <2>1. PICK p \in DOMAIN place : p = link[n].place BY <1>1
    <2>2. Twins(p)' # {} BY <1>2, <2>1, TwinsStay
    <2>3. PICK q \in DOMAIN place' : q # p /\ place'[q].farm = place'[p].farm /\ (place'[p].raced \/ place'[q].raced)
      BY <2>2 DEF Twins, PlacesOf
    <2>4. QED BY <1>1, <2>1, <2>3 DEF Follows, Twins, PlacesOf
  <1>3. CASE Twins(link[n].place) = {} BY <1>1, <1>3 DEF Follows
  <1>4. QED BY <1>2, <1>3

\* Links whose farm has another place.
LEMMA FollowsTwin ==
  ASSUME OnePlace, Refs, Grows, NEW n \in DOMAIN link, NEW q \in DOMAIN place, q # link[n].place, place[q].farm = link[n].farm
  PROVE  Follows(n)'
  <1>1. PICK p \in DOMAIN place : p = link[n].place BY DEF Refs, RowRefs
  <1>2. place[p].farm = place[q].farm BY <1>1 DEF Refs, RowRefs
  <1>3. Twins(p)' # {} BY <1>1, <1>2, TwinsOf
  <1>4. PICK k \in DOMAIN place' : k # p /\ place'[k].farm = place'[p].farm /\ (place'[p].raced \/ place'[k].raced)
    BY <1>3 DEF Twins, PlacesOf
  <1>5. link'[n].place = p BY <1>1 DEF Grows, LinkGrows
  <1>6. QED BY <1>4, <1>5 DEF Follows, Twins, PlacesOf

\* The links of a change.
LEMMA FollowsRelinked ==
  ASSUME Sound, Grows, OnePlace, LinkTrue, NEW h \in Slots, RelinkDone(h), NEW n \in DOMAIN link
  PROVE  Follows(n)'
  <1> SUFFICES ASSUME NEW c, c = Current(work[h]) PROVE Follows(n)'
    OBVIOUS
  <1>1. Busy(h) /\ WorkRefs(work[h]) /\ work[h].at = "relink" BY DEF RelinkDone, Busy, Sound, Refs
  <1>2. c.farm \in DOMAIN farm /\ c.place \in DOMAIN place /\ place[c.place].farm = c.farm
    BY <1>1, CurrentIs DEF WorkRefs, Sound
  <1>3. /\ link'[n].place = link[n].place /\ link'[n].farm = link[n].farm
        /\ link'[n].fence = IF link[n].farm = c.farm THEN work[h].moved ELSE link[n].fence
        /\ \A f \in DOMAIN farm : f # c.farm => farm'[f] = farm[f]
        /\ "half" \in farm'[c.farm].fate \/ work[h].moved = place[c.place].latest
        /\ UNCHANGED <<fence, place>>
    BY DEF RelinkDone
  <1>4. /\ link[n].place \in DOMAIN place /\ link[n].farm \in DOMAIN farm /\ place[link[n].place].farm = link[n].farm
    BY DEF Sound, Refs, RowRefs
  <1>5. CASE link[n].farm # c.farm
    <2>1. Follows(n) BY LiesFollows
    <2>2. farm'[link[n].farm] = farm[link[n].farm] BY <1>3, <1>4, <1>5
    <2>3. place'[link[n].place].latest = place[link[n].place].latest /\ link'[n].fence = link[n].fence BY <1>3, <1>5
    <2>4. farm[link[n].farm].fate \subseteq farm'[link[n].farm].fate BY <2>2
    <2>5. QED BY <2>1, <2>3, <2>4, FollowsStays DEF Sound
  <1>6. CASE link[n].farm = c.farm /\ link[n].place = c.place
    BY <1>2, <1>3, <1>4, <1>6 DEF Follows
  <1>7. CASE link[n].farm = c.farm /\ link[n].place # c.place BY <1>2, <1>7, FollowsTwin DEF Sound
  <1>8. QED BY <1>5, <1>6, <1>7

\* While a place is moved, its links are known to be left behind.
LEMMA FollowsMoved ==
  ASSUME Sound, Grows, LinkTrue, NEW h \in Slots, ChangePlaceDone(h), NEW n \in DOMAIN link
  PROVE  Follows(n)'
  <1> SUFFICES ASSUME NEW c, c = Current(work[h]) PROVE Follows(n)'
    OBVIOUS
  <1>1. Busy(h) /\ WorkRefs(work[h]) /\ work[h].at = "move" BY DEF ChangePlaceDone, Busy, Sound, Refs
  <1>2. c.farm \in DOMAIN farm /\ c.place \in DOMAIN place /\ place[c.place].farm = c.farm
    BY <1>1, CurrentIs DEF WorkRefs, Sound
  <1>3. /\ \A q \in DOMAIN place : q # c.place => place'[q] = place[q]
        /\ \A f \in DOMAIN farm : f # c.farm => farm'[f] = farm[f]
        /\ farm[c.farm].fate \cup {"half"} \subseteq farm'[c.farm].fate
        /\ link' = link
    BY DEF ChangePlaceDone
  <1>4. /\ link[n].place \in DOMAIN place /\ link[n].farm \in DOMAIN farm /\ place[link[n].place].farm = link[n].farm
    BY DEF Sound, Refs, RowRefs
  <1>5. CASE link[n].farm # c.farm
    <2>1. Follows(n) BY LiesFollows
    <2>2. farm[link[n].farm].fate \subseteq farm'[link[n].farm].fate BY <1>3, <1>4, <1>5
    <2>3. place'[link[n].place].latest = place[link[n].place].latest BY <1>2, <1>3, <1>4, <1>5
    <2>4. QED BY <1>3, <2>1, <2>2, <2>3, FollowsStays DEF Sound
  <1>6. CASE link[n].farm = c.farm
    <2>1. farm'[link'[n].farm].fate \cap {"half", "edited"} # {} BY <1>3, <1>6
    <2>2. QED BY <2>1 DEF Follows
  <1>7. QED BY <1>5, <1>6

\* The links of a place that a user edits.
LEMMA FollowsEdited ==
  ASSUME Sound, Grows, LinkTrue, NEW m, NEW s, NEW here, EditPlaceDone(m, s, here), NEW n \in DOMAIN link
  PROVE  Follows(n)'
  <1> SUFFICES ASSUME NEW l, l = link[m] PROVE Follows(n)'
    OBVIOUS
  <1>1. /\ m \in DOMAIN link /\ l.farm \in DOMAIN farm /\ l.place \in DOMAIN place
        /\ \A k \in DOMAIN link : k # m => link'[k] = link[k]
        /\ \A q \in DOMAIN place : q # l.place => place'[q] = place[q]
        /\ \A f \in DOMAIN farm : f # l.farm => farm'[f] = farm[f]
        /\ "edited" \in farm'[l.farm].fate
    BY DEF EditPlaceDone
  <1>2. /\ place[l.place].farm = l.farm /\ link'[n].farm = link[n].farm
        /\ link[n].place \in DOMAIN place /\ link[n].farm \in DOMAIN farm /\ place[link[n].place].farm = link[n].farm
    BY <1>1 DEF Sound, Refs, RowRefs, Grows, LinkGrows
  <1>3. CASE link[n].farm = l.farm
    <2>1. farm'[link'[n].farm].fate \cap {"half", "edited"} # {} BY <1>1, <1>2, <1>3
    <2>2. QED BY <2>1 DEF Follows
  <1>4. CASE link[n].farm # l.farm
    <2>1. Follows(n) BY LiesFollows
    <2>2. farm[link[n].farm].fate \subseteq farm'[link[n].farm].fate BY <1>1, <1>2, <1>4
    <2>3. place'[link[n].place].latest = place[link[n].place].latest /\ link'[n].fence = link[n].fence
      BY <1>1, <1>2, <1>4
    <2>4. QED BY <2>1, <2>2, <2>3, FollowsStays DEF Sound
  <1>5. QED BY <1>3, <1>4

\* A new link leads to where its place is, unless that has been edited since.
LEMMA FollowsNew ==
  ASSUME Sound, Lone, NEW h \in Slots, WriteLinksDone(h), NEW n \in DOMAIN link' \ DOMAIN link
  PROVE  Follows(n)'
  <1> SUFFICES ASSUME NEW w, w = work[h] PROVE Follows(n)'
    OBVIOUS
  <1>1. Busy(h) /\ w.at = "link" /\ UNCHANGED <<farm, fence, place>> BY DEF WriteLinksDone, Busy
  <1>2. PICK p \in DOMAIN w.links : link'[n] = LinkOf(w, p) BY DEF WriteLinksDone
  <1>3. link'[n].place = p /\ link'[n].farm = place[p].farm /\ link'[n].fence = w.links[p] /\ link'[n].raced = w.raced
    BY <1>2 DEF LinkOf
  <1>4. CASE w.raced BY <1>3, <1>4 DEF Follows
  <1>5. CASE ~w.raced
    <2>1. w.links[p] = place[p].latest \/ "edited" \in farm[place[p].farm].fate BY <1>1, <1>5 DEF Lone, Unlinked
    <2>2. QED BY <1>1, <1>3, <2>1 DEF Follows
  <1>6. QED BY <1>4, <1>5

\* Every link shows its place where it lies after every step.
LEMMA LinkTrueStep ==
  ASSUME Sound, Lone, OnePlace, LinkTrue, Moves
  PROVE  LinkTrue'
  <1>1. Grows BY MovesGrow DEF Sound
  <1>2. ASSUME NEW n \in DOMAIN link' PROVE Follows(n)'
    <2>1. CASE n \notin DOMAIN link
      <3>1. PICK h \in Slots : WriteLinksDone(h) BY <1>2, <2>1, NewLinks
      <3>2. QED BY <1>2, <2>1, <3>1, FollowsNew
    <2>2. CASE n \in DOMAIN link /\ Edits
      <3>1. PICK m, s, here : EditPlaceDone(m, s, here) BY <2>2 DEF Edits
      <3>2. QED BY <1>1, <2>2, <3>1, FollowsEdited
    <2>3. CASE n \in DOMAIN link /\ \E h \in Slots : ChangePlaceDone(h) BY <1>1, <2>3, FollowsMoved
    <2>4. CASE n \in DOMAIN link /\ \E h \in Slots : RelinkDone(h) BY <1>1, <2>4, FollowsRelinked
    <2>5. CASE n \in DOMAIN link /\ Still /\ ~Edits /\ ~\E h \in Slots : RelinkDone(h) \/ ChangePlaceDone(h)
      <3>1. link[n].place \in DOMAIN place /\ link[n].farm \in DOMAIN farm /\ Follows(n)
        BY <2>5, LiesFollows DEF Sound, Refs, RowRefs
      <3>2. place'[link[n].place].latest = place[link[n].place].latest BY <2>5, <3>1 DEF Still
      <3>3. link'[n].fence = link[n].fence /\ farm[link[n].farm].fate \subseteq farm'[link[n].farm].fate
        <4>1. ASSUME UNCHANGED rows
              PROVE  link'[n].fence = link[n].fence /\ farm[link[n].farm].fate \subseteq farm'[link[n].farm].fate
          BY <4>1 DEF rows
        <4>2. ASSUME ShowsDone \/ DeleteFarmDone
              PROVE  link'[n].fence = link[n].fence /\ farm[link[n].farm].fate \subseteq farm'[link[n].farm].fate
          BY <2>5, <3>1, <4>2 DEF ShowsDone, DeleteFarmDone
        <4>3. ASSUME NEW h \in Slots, Writes(h)
              PROVE  link'[n].fence = link[n].fence /\ farm[link[n].farm].fate \subseteq farm'[link[n].farm].fate
          <5>1. CASE ChangeFenceDone(h)
            <6>1. /\ link' = link /\ \A f \in DOMAIN farm : f # Current(work[h]).farm => farm'[f] = farm[f]
                  /\ farm[Current(work[h]).farm].fate \subseteq farm'[Current(work[h]).farm].fate
              BY <5>1 DEF ChangeFenceDone
            <6>2. QED BY <3>1, <6>1
          <5>2. CASE CreateFarmsDone(h) BY <3>1, <5>2 DEF CreateFarmsDone
          <5>3. CASE CreateFencesDone(h) BY <5>3 DEF CreateFencesDone
          <5>4. CASE SyncDone(h) BY <3>1, <5>4 DEF SyncDone
          <5>5. CASE CreatePlacesDone(h) BY <5>5 DEF CreatePlacesDone
          <5>6. CASE WriteLinksDone(h) BY <2>5, <5>6 DEF WriteLinksDone
          <5>7. QED BY <2>5, <4>3, <5>1, <5>2, <5>3, <5>4, <5>5, <5>6 DEF Writes
        <4>4. QED BY <2>5, <4>1, <4>2, <4>3, Zenon DEF Moves, Reads, EndsDone, StartDone, vars
      <3>4. QED BY <1>1, <2>5, <3>1, <3>2, <3>3, FollowsStays DEF Sound
    <2>6. QED BY <2>1, <2>2, <2>3, <2>4, <2>5, StillIs
  <1>3. (\A n \in DOMAIN link : Follows(n))' BY <1>2
  <1>4. QED BY <1>3 DEF LinkTrue, Follows

\* The invariant holds at first.
LEMMA GroundInit ==
  ASSUME Init
  PROVE  Ground
  <1>1. \A h \in Slots : ~Busy(h) BY DEF Init, Busy, Idle
  <1>2. DOMAIN farm = {} /\ DOMAIN fence = {} /\ DOMAIN place = {} /\ DOMAIN link = {} BY EmptySeq DEF Init
  <1>3. QED BY <1>1, <1>2 DEF Ground, Quiet, Plain, Alone, OnePlace, Lone, PlaceTrue, LinkTrue

\* Every step keeps it.
LEMMA GroundStep ==
  ASSUME Sound, Sound', Ground, Moves
  PROVE  Ground'
  <1>1. Quiet' /\ Plain' /\ Alone' /\ Lone' /\ OnePlace'
    BY QuietStep, PlainStep, AloneStep, LoneStep, OnePlaceStep DEF Ground, Sound
  <1>2. PlaceTrue' BY <1>1, PlaceTrueStep DEF Ground
  <1>3. LinkTrue' BY LinkTrueStep DEF Ground
  <1>4. QED BY <1>1, <1>2, <1>3 DEF Ground

\* Where the rows of farms, geofences, places and links say that a farm lies,
\* and which of them there may be twice.
THEOREM AlwaysGround == Spec => []Ground
  <1>1. Init => Sound /\ Ground BY SoundInit, GroundInit
  <1>2. Sound /\ Ground /\ [Next]_vars => (Sound /\ Ground)' BY SoundStep, MovesIs, GroundStep
  <1>3. QED BY <1>1, <1>2, PTL DEF Spec

\* GroundTrue: a place lies where the user last said it does, and the reports that
\* show it show it there, but for what is named.
THEOREM GroundIsTrue == Spec => []GroundTrue
  <1>1. Ground => GroundTrue BY DEF Ground, GroundTrue
  <1>2. QED BY <1>1, AlwaysGround, PTL

(***************************************************************************)
(* What is given is shown                                                  *)
(***************************************************************************)

\* A farm has lain where no geofence says only if a user changed its place.
Kept == \A f \in DOMAIN farm : farm[f].fate = {} => farm[f].once = {}

\* Whatever happens, a farm that was never changed lies where its geofences say.
LEMMA KeptStep ==
  ASSUME Sound, Kept, Moves
  PROVE  Kept'
  <1> SUFFICES ASSUME NEW f \in DOMAIN farm', farm'[f].fate = {} PROVE farm'[f].once = {}
    BY DEF Kept
  <1>1. CASE f \notin DOMAIN farm
    <2>1. PICK h \in Slots : CreateFarmsDone(h) /\ Only(h) BY <1>1, NewFarm
    <2>2. QED BY <1>1, <2>1 DEF CreateFarmsDone
  <1>2. CASE f \in DOMAIN farm
    <2>1. farm[f].fate = {} BY <1>2, MovesGrow DEF Sound, Grows, FarmGrows
    <2>2. farm[f].once = {} BY <1>2, <2>1 DEF Kept
    <2>3. farm'[f].once = farm[f].once
      <3>1. ASSUME UNCHANGED farm PROVE farm'[f].once = farm[f].once BY <3>1
      <3>2. ASSUME NEW h \in Slots, Writes(h) PROVE farm'[f].once = farm[f].once
        <4>1. CASE ChangeFenceDone(h) BY <1>2, <4>1 DEF ChangeFenceDone
        <4>2. CASE ChangePlaceDone(h) BY <1>2, <4>2 DEF ChangePlaceDone
        <4>3. CASE RelinkDone(h) BY <1>2, <4>3 DEF RelinkDone
        <4>4. CASE CreateFarmsDone(h) BY <1>2, <4>4 DEF CreateFarmsDone
        <4>5. CASE CreateFencesDone(h) BY <4>5 DEF CreateFencesDone
        <4>6. CASE SyncDone(h) BY <1>2, <4>6 DEF SyncDone
        <4>7. CASE CreatePlacesDone(h) BY <4>7 DEF CreatePlacesDone
        <4>8. CASE WriteLinksDone(h) BY <4>8 DEF WriteLinksDone
        <4>9. QED BY <3>2, <4>1, <4>2, <4>3, <4>4, <4>5, <4>6, <4>7, <4>8 DEF Writes
      <3>3. ASSUME Edits PROVE farm'[f].once = farm[f].once
        <4>1. PICK n, s, here : EditPlaceDone(n, s, here) BY <3>3 DEF Edits
        <4>2. f # link[n].farm BY <4>1 DEF EditPlaceDone
        <4>3. QED BY <1>2, <4>1, <4>2 DEF EditPlaceDone
      <3>4. ASSUME DeleteFarmDone PROVE farm'[f].once = farm[f].once BY <1>2, <3>4 DEF DeleteFarmDone
      <3>5. ASSUME UNCHANGED rows \/ ShowsDone PROVE farm'[f].once = farm[f].once BY <3>5 DEF rows, ShowsDone
      <3>6. QED BY <3>1, <3>2, <3>3, <3>4, <3>5, Zenon DEF Moves, Reads, EndsDone, StartDone, vars
    <2>4. QED BY <2>2, <2>3
  <1>3. QED BY <1>1, <1>2

\* A farm that was never changed lies at one place only.
LEMMA LiesOnce ==
  ASSUME Sound, Plain, Kept, NEW f \in DOMAIN farm, farm[f].fate = {}, NEW x, LaidAt(f, x)
  PROVE  \A g \in DOMAIN fence : fence[g].farm = f => fence[g].hash = x
  <1>1. PICK k \in DOMAIN fence : fence[k].farm = f /\ fence[k].hash = x BY DEF LaidAt, Kept
  <1>2. \A g \in DOMAIN fence : fence[g].farm = f => fence[g].hash = Hash(Stored(farm[f].from, farm[f].said))
    BY DEF Plain, Sound, Refs, RowRefs
  <1>3. QED BY <1>1, <1>2

\* What AddedIsShown says of an entry, of whatever is or was shown.
ShownAt(r, x)  == \E n \in DOMAIN link : link[n].report = r /\ LaidAt(link[n].farm, x.hash)
ChangedAt(x)   == \E f \in DOMAIN farm : farm[f].fate # {} /\ LaidAt(f, x.hash)
LeftOf(x)      == \E p \in DOMAIN place : place[p].left /\ x.cf # None /\ x.cf \in farm[place[p].farm].ids
MetBy(x)       == \E f, k \in DOMAIN farm : x.cf # None /\ x.cf \in farm[f].ids /\ f # k /\ \E s : LaidAt(f, s) /\ LaidAt(k, s)
ToldTwice(es, x) == \E y \in es : x.cf # None /\ y.cf = x.cf /\ y.hash # x.hash
Good(r, es, x) == ShownAt(r, x) \/ ChangedAt(x) \/ LeftOf(x) \/ MetBy(x) \/ ToldTwice(es, x)

\* It stays true when rows grow.
LEMMA GoodStays ==
  ASSUME Sound, Grows, NEW r, NEW es, NEW x, Good(r, es, x)
  PROVE  Good(r, es, x)'
  <1> USE DEF Grows
  <1>1. ASSUME ShownAt(r, x) PROVE ShownAt(r, x)'
    <2>1. PICK n \in DOMAIN link : link[n].report = r /\ LaidAt(link[n].farm, x.hash) BY <1>1 DEF ShownAt
    <2>2. link[n].farm \in DOMAIN farm BY DEF Sound, Refs, RowRefs
    <2>3. LaidAt(link[n].farm, x.hash)' /\ n \in DOMAIN link' /\ link'[n].farm = link[n].farm /\ link'[n].report = r
      <3>1. n \in DOMAIN link' /\ link'[n].farm = link[n].farm /\ link'[n].report = r BY <2>1 DEF LinkGrows
      <3>2. PICK f \in DOMAIN farm : f = link[n].farm BY <2>2
      <3>3. LaidAt(f, x.hash)' BY <2>1, <3>2, StaysTrue
      <3>4. QED BY <3>1, <3>2, <3>3
    <2>4. QED BY <2>3 DEF ShownAt
  <1>2. ASSUME ChangedAt(x) PROVE ChangedAt(x)'
    <2>1. PICK f \in DOMAIN farm : farm[f].fate # {} /\ LaidAt(f, x.hash) BY <1>2 DEF ChangedAt
    <2>2. f \in DOMAIN farm' /\ farm'[f].fate # {} /\ LaidAt(f, x.hash)' BY <2>1, StaysTrue DEF FarmGrows
    <2>3. QED BY <2>2 DEF ChangedAt
  <1>3. ASSUME LeftOf(x) PROVE LeftOf(x)'
    <2>1. PICK p \in DOMAIN place : place[p].left /\ x.cf # None /\ x.cf \in farm[place[p].farm].ids BY <1>3 DEF LeftOf
    <2>2. place[p].farm \in DOMAIN farm BY DEF Sound, Refs, RowRefs
    <2>3. p \in DOMAIN place' /\ place'[p].farm = place[p].farm /\ place'[p].left BY <2>1 DEF PlaceGrows
    <2>4. x.cf \in farm'[place[p].farm].ids BY <2>1, <2>2 DEF FarmGrows
    <2>5. QED BY <2>1, <2>3, <2>4 DEF LeftOf
  <1>4. ASSUME MetBy(x) PROVE MetBy(x)'
    <2>1. PICK f, k \in DOMAIN farm :
             x.cf # None /\ x.cf \in farm[f].ids /\ f # k /\ \E s : LaidAt(f, s) /\ LaidAt(k, s)
      BY <1>4 DEF MetBy
    <2>2. PICK s : LaidAt(f, s) /\ LaidAt(k, s) BY <2>1
    <2>3. /\ x.cf # None /\ x.cf \in farm[f].ids /\ f # k /\ f \in DOMAIN farm /\ k \in DOMAIN farm
          /\ LaidAt(f, s) /\ LaidAt(k, s)
      BY <2>1, <2>2
    <2>4. f \in DOMAIN farm' /\ k \in DOMAIN farm' /\ x.cf \in farm'[f].ids BY <2>3 DEF FarmGrows
    <2>5. LaidAt(f, s)' /\ LaidAt(k, s)' BY <2>3, StaysTrue
    <2>6. QED BY <2>3, <2>4, <2>5 DEF MetBy
  <1>5. ToldTwice(es, x)' <=> ToldTwice(es, x) BY DEF ToldTwice
  <1>6. QED BY <1>1, <1>2, <1>3, <1>4, <1>5 DEF Good

\* Where an entry of the batch at hand has got to.
InRest(w, x)    == w.at \in {"change", "move", "relink", "farms", "fences"} /\ \E i \in DOMAIN w.rest : w.rest[i] = x
InMine(w, x)    == w.at \in {"sync", "places", "create"} /\ \E i \in DOMAIN w.mine : LaidAt(w.mine[i], x.hash)
InMatched(w, x) == w.kind = "import" /\ w.at \in {"farms", "fences", "sync", "places"} /\ \E m \in w.matched : m.hash = x.hash
InChanges(w, x) == w.at \in {"change", "move", "relink"} /\ \E c \in w.changes : Hash(c.shape) = x.hash
InPayload(w, x) == /\ \/ w.at = "create"
                      \/ w.kind = "request" /\ w.at \in {"change", "move", "relink", "farms", "fences"}
                   /\ \E g \in w.payload : \/ LaidAt(fence[g].farm, x.hash)
                                           \/ x.cf # None /\ x.cf \in farm[fence[g].farm].ids
InPlaces(w, x)  == /\ \/ w.at \in {"create", "attach"}
                      \/ w.kind = "request" /\ w.at \in {"change", "move", "relink", "farms", "fences"}
                   /\ \E p \in w.places : LaidAt(place[p].farm, x.hash)
InLinks(w, x)   == w.at = "link" /\ \E p \in DOMAIN w.links : LaidAt(place[p].farm, x.hash)

OnTheWay(w, x) ==
    \/ w.at = "look"
    \/ InRest(w, x) \/ InMine(w, x) \/ InMatched(w, x) \/ InChanges(w, x)
    \/ InPayload(w, x) \/ InPlaces(w, x) \/ InLinks(w, x)

\* A request that asks for the ids of its farms has linked everything.
InHand(w, x) ==
    \/ OnTheWay(w, x) /\ ~(w.at = "sync" /\ w.kind = "request")
    \/ Good(w.report, w.entries, x)

\* Everything that was given is still to be looked at or as it should be; what
\* the batch at hand gives is on its way; and a place that is about to move has
\* its new geofence.
Given(w) ==
    /\ \A x \in w.entries : \/ \E b \in DOMAIN w.todo : \E i \in DOMAIN w.todo[b] : w.todo[b][i] = x
                            \/ Good(w.report, w.entries, x)
    /\ \A b \in DOMAIN w.todo : \A i \in DOMAIN w.todo[b] : w.todo[b][i] \in w.entries
    /\ w.kind = "request" => Len(w.todo) = 1
    /\ w.kind = "existing" => w.todo = <<>>
    /\ w.todo # <<>> => \A i \in DOMAIN w.todo[1] : InHand(w, w.todo[1][i])
    /\ w.at \in {"move", "relink"} => LaidAt(Current(w).farm, Hash(Current(w).shape))

\* What is on its way stays so, whatever others do.
LEMMA OnTheWayStays ==
  ASSUME Sound, Grows, NEW w, WorkRefs(w), Mine(w), NEW v, Same(v, w), NEW x, OnTheWay(w, x)
  PROVE  OnTheWay(v, x)'
  <1> USE DEF Same
  <1>1. ASSUME NEW f \in DOMAIN farm, LaidAt(f, x.hash) PROVE LaidAt(f, x.hash)' BY <1>1, StaysTrue
  <1>2. ASSUME InRest(w, x) PROVE InRest(v, x)' BY <1>2 DEF InRest
  <1>3. ASSUME InMine(w, x) PROVE InMine(v, x)'
    <2>1. PICK i \in DOMAIN w.mine : LaidAt(w.mine[i], x.hash) BY <1>3 DEF InMine
    <2>2. w.mine[i] \in DOMAIN farm BY DEF Mine
    <2>3. LaidAt(w.mine[i], x.hash)' BY <1>1, <2>1, <2>2
    <2>4. QED BY <1>3, <2>3 DEF InMine
  <1>4. ASSUME InMatched(w, x) PROVE InMatched(v, x)' BY <1>4 DEF InMatched
  <1>5. ASSUME InChanges(w, x) PROVE InChanges(v, x)' BY <1>5 DEF InChanges
  <1>6. ASSUME InPayload(w, x) PROVE InPayload(v, x)'
    <2>1. PICK g \in w.payload : LaidAt(fence[g].farm, x.hash) \/ (x.cf # None /\ x.cf \in farm[fence[g].farm].ids)
      BY <1>6 DEF InPayload
    <2>2. g \in DOMAIN fence /\ fence[g].farm \in DOMAIN farm BY DEF WorkRefs, Sound, Refs, RowRefs
    <2>3. fence'[g].farm = fence[g].farm /\ farm[fence[g].farm].ids \subseteq farm'[fence[g].farm].ids
      BY <2>2 DEF Grows, FenceGrows, FarmGrows
    <2>4. PICK f \in DOMAIN farm : f = fence[g].farm BY <2>2
    <2>5. LaidAt(f, x.hash)' \/ (x.cf # None /\ x.cf \in farm'[f].ids) BY <1>1, <2>1, <2>3, <2>4
    <2>6. f = fence'[g].farm BY <2>3, <2>4
    <2>7. QED BY <1>6, <2>5, <2>6 DEF InPayload
  <1>7. ASSUME NEW p \in DOMAIN place, LaidAt(place[p].farm, x.hash) PROVE LaidAt(place[p].farm, x.hash)'
    <2>1. place[p].farm \in DOMAIN farm BY DEF Sound, Refs, RowRefs
    <2>2. PICK f \in DOMAIN farm : f = place[p].farm BY <2>1
    <2>3. place'[p].farm = f BY <2>2 DEF Grows, PlaceGrows
    <2>4. LaidAt(f, x.hash)' BY <1>1, <1>7, <2>2
    <2>5. QED BY <2>3, <2>4
  <1>8. ASSUME InPlaces(w, x) PROVE InPlaces(v, x)'
    <2>1. PICK p \in w.places : LaidAt(place[p].farm, x.hash) BY <1>8 DEF InPlaces
    <2>2. p \in DOMAIN place BY DEF WorkRefs
    <2>3. LaidAt(place[p].farm, x.hash)' BY <1>7, <2>1, <2>2
    <2>4. QED BY <1>8, <2>3 DEF InPlaces
  <1>9. ASSUME InLinks(w, x) PROVE InLinks(v, x)'
    <2>1. PICK p \in DOMAIN w.links : LaidAt(place[p].farm, x.hash) BY <1>9 DEF InLinks
    <2>2. p \in DOMAIN place BY DEF WorkRefs
    <2>3. LaidAt(place[p].farm, x.hash)' BY <1>7, <2>1, <2>2
    <2>4. QED BY <1>9, <2>3 DEF InLinks
  <1>10. QED BY <1>2, <1>3, <1>4, <1>5, <1>6, <1>8, <1>9 DEF OnTheWay

\* What is given stays so, whatever others do.
LEMMA GivenStays ==
  ASSUME Sound, Grows, NEW w, WorkRefs(w), Mine(w), Given(w),
         w.at \in {"move", "relink"} => Current(w).farm \in DOMAIN farm, NEW v, Same(v, w)
  PROVE  Given(v)'
  <1> USE DEF Same
  <1>1. \A x : Good(w.report, w.entries, x) => Good(v.report, v.entries, x)' BY GoodStays
  <1>2. \A x : OnTheWay(w, x) => OnTheWay(v, x)' BY OnTheWayStays
  <1>3. \A x : InHand(w, x) => InHand(v, x)' BY <1>1, <1>2 DEF InHand
  <1>4. ASSUME v.at \in {"move", "relink"} PROVE LaidAt(Current(v).farm, Hash(Current(v).shape))'
    <2>1. Current(v) = Current(w) BY DEF Current
    <2>2. PICK c : c = Current(w) BY Zenon
    <2>3. LaidAt(c.farm, Hash(c.shape)) /\ c.farm \in DOMAIN farm BY <1>4, <2>2 DEF Given
    <2>4. LaidAt(c.farm, Hash(c.shape))' BY <2>3, StaysTrue
    <2>5. QED BY <2>1, <2>2, <2>4
  <1>5. QED BY <1>1, <1>3, <1>4 DEF Given

\* What is known of a farm that a row of a geofence or a place names stays true.
LEMMA LaidStays ==
  ASSUME Sound, Grows, NEW x
  PROVE  /\ \A f \in DOMAIN farm : LaidAt(f, x) => LaidAt(f, x)'
         /\ \A g \in DOMAIN fence : LaidAt(fence[g].farm, x) => LaidAt(fence[g].farm, x)'
         /\ \A p \in DOMAIN place : LaidAt(place[p].farm, x) => LaidAt(place[p].farm, x)'
  <1>1. \A f \in DOMAIN farm : LaidAt(f, x) => LaidAt(f, x)' BY StaysTrue
  <1>2. ASSUME NEW g \in DOMAIN fence, LaidAt(fence[g].farm, x) PROVE LaidAt(fence[g].farm, x)'
    <2>1. PICK f \in DOMAIN farm : f = fence[g].farm BY DEF Sound, Refs, RowRefs
    <2>2. fence'[g].farm = f BY <2>1 DEF Grows, FenceGrows
    <2>3. LaidAt(f, x)' BY <1>1, <1>2, <2>1
    <2>4. QED BY <2>2, <2>3
  <1>3. ASSUME NEW p \in DOMAIN place, LaidAt(place[p].farm, x) PROVE LaidAt(place[p].farm, x)'
    <2>1. PICK f \in DOMAIN farm : f = place[p].farm BY DEF Sound, Refs, RowRefs
    <2>2. place'[p].farm = f BY <2>1 DEF Grows, PlaceGrows
    <2>3. LaidAt(f, x)' BY <1>1, <1>3, <2>1
    <2>4. QED BY <2>2, <2>3
  <1>4. QED BY <1>1, <1>2, <1>3

\* An import has looked for its batch.
LEMMA LookGiven ==
  ASSUME NEW h \in Slots, LookDone(h), NEW v, v = work'[h], NEW x, \E i \in DOMAIN Batch(h) : x = Batch(h)[i]
  PROVE  InHand(v, x)'
  <1>1. (\E k \in DOMAIN v.rest : v.rest[k] = x) \/ \E m \in v.matched : m.hash = x.hash BY DEF LookDone
  <1>2. v.kind = "import" /\ v.at = (IF v.rest = <<>> THEN "places" ELSE "farms") BY DEF LookDone, Base
  <1>3. ASSUME \E k \in DOMAIN v.rest : v.rest[k] = x PROVE InRest(v, x)'
    <2>1. v.rest # <<>> BY <1>3, EmptySeq
    <2>2. QED BY <1>2, <1>3, <2>1 DEF InRest
  <1>4. ASSUME \E m \in v.matched : m.hash = x.hash PROVE InMatched(v, x)'
    BY <1>2, <1>4 DEF InMatched
  <1>5. QED BY <1>1, <1>2, <1>3, <1>4 DEF InHand, OnTheWay

\* A request has looked for its entries.
LEMMA LookRequestGiven ==
  ASSUME Sound, NEW h \in Slots, LookRequestDone(h), UNCHANGED rows, NEW v, v = work'[h], NEW w, w = work[h], Given(w),
         NEW x, \E i \in DOMAIN Batch(h) : x = Batch(h)[i]
  PROVE  InHand(v, x)'
  <1> USE DEF rows
  <1>1. EntryFound(h, x) BY DEF LookRequestDone
  <1>2. v.kind = "request" /\ v.at = (IF v.changes # {} THEN "change" ELSE IF v.rest # <<>> THEN "farms" ELSE "create")
        /\ v.entries = w.entries
    BY DEF LookRequestDone, Base
  <1>3. ASSUME NEW i \in DOMAIN v.rest, v.rest[i] = x PROVE InRest(v, x)'
    <2>1. v.rest # <<>> BY EmptySeq
    <2>2. QED BY <1>2, <1>3, <2>1 DEF InRest
  <1>4. ASSUME NEW g \in v.payload, LaidAt(fence[g].farm, x.hash) \/ (x.cf # None /\ x.cf \in farm[fence[g].farm].ids)
        PROVE  InPayload(v, x)'
    <2>1. LaidAt(fence[g].farm, x.hash)' \/ (x.cf # None /\ x.cf \in farm'[fence'[g].farm].ids) BY <1>4 DEF LaidAt
    <2>2. QED BY <1>2, <2>1 DEF InPayload
  <1>5. ASSUME NEW p \in v.places, LaidAt(place[p].farm, x.hash) PROVE InPlaces(v, x)'
    <2>1. LaidAt(place[p].farm, x.hash)' BY <1>5 DEF LaidAt
    <2>2. QED BY <1>2, <2>1 DEF InPlaces
  <1>6. ASSUME NEW c \in v.changes, Hash(c.shape) = x.hash PROVE InChanges(v, x)'
    BY <1>2, <1>6 DEF InChanges
  <1>7. ASSUME MetBy(x) PROVE Good(v.report, v.entries, x)' BY <1>7 DEF Good, MetBy, LaidAt
  <1>8. ASSUME NEW i \in DOMAIN Batch(h), x.cf # None, Batch(h)[i].cf = x.cf, Batch(h)[i].hash # x.hash
        PROVE  Good(v.report, v.entries, x)'
    <2>1. Busy(h) BY DEF LookRequestDone, Busy
    <2>2. w.todo # <<>> /\ Batch(h) = w.todo[1] /\ 1 \in DOMAIN w.todo BY <2>1, BatchIs, EmptySeq DEF Sound
    <2>3. Batch(h)[i] \in w.entries BY <2>2 DEF Given
    <2>4. ToldTwice(w.entries, x) BY <1>8, <2>3 DEF ToldTwice
    <2>5. ToldTwice(v.entries, x)' BY <1>2, <2>4 DEF ToldTwice
    <2>6. QED BY <2>5 DEF Good
  <1>9. CASE \E i \in DOMAIN v.rest : v.rest[i] = x BY <1>2, <1>3, <1>9 DEF InHand, OnTheWay
  <1>10. CASE \E g \in v.payload : LaidAt(fence[g].farm, x.hash) \/ (x.cf # None /\ x.cf \in farm[fence[g].farm].ids)
    BY <1>2, <1>4, <1>10 DEF InHand, OnTheWay
  <1>11. CASE \E p \in v.places : LaidAt(place[p].farm, x.hash) BY <1>2, <1>5, <1>11 DEF InHand, OnTheWay
  <1>12. CASE \E c \in v.changes : Hash(c.shape) = x.hash BY <1>2, <1>6, <1>12 DEF InHand, OnTheWay
  <1>13. CASE MetBy(x) BY <1>7, <1>13 DEF InHand
  <1>14. CASE \E i \in DOMAIN Batch(h) : x.cf # None /\ Batch(h)[i].cf = x.cf /\ Batch(h)[i].hash # x.hash
    BY <1>8, <1>14 DEF InHand
  <1>15. QED BY <1>1, <1>9, <1>10, <1>11, <1>12, <1>13, <1>14 DEF EntryFound, MetBy

\* What a request leaves on its way to the links when it changes places: all but
\* what the change at hand says.
LEMMA ChangingGiven ==
  ASSUME Sound, Grows, NEW w, WorkRefs(w), Mine(w), NEW v,
         w.at \in {"change", "move", "relink"}, w.kind = "request", v.kind = w.kind, v.rest = w.rest,
         v.payload = w.payload, v.places = w.places,
         v.at \in {"change", "move", "relink"} \/ (v.at = "farms" /\ v.changes = {}) \/ (v.at = "create" /\ v.rest = <<>>),
         NEW x, OnTheWay(w, x),
         InChanges(w, x) => InChanges(v, x)' \/ Good(v.report, v.entries, x)'
  PROVE  InHand(v, x)'
  <1>1. ASSUME InRest(w, x) PROVE InRest(v, x)'
    <2>1. v.rest # <<>> BY <1>1, EmptySeq DEF InRest
    <2>2. QED BY <1>1, <2>1 DEF InRest
  <1>2. ASSUME InPayload(w, x) PROVE InPayload(v, x)'
    <2>1. PICK g \in w.payload : LaidAt(fence[g].farm, x.hash) \/ (x.cf # None /\ x.cf \in farm[fence[g].farm].ids)
      BY <1>2 DEF InPayload
    <2>2. g \in DOMAIN fence /\ fence[g].farm \in DOMAIN farm BY DEF WorkRefs, Sound, Refs, RowRefs
    <2>3. fence'[g].farm = fence[g].farm /\ farm[fence[g].farm].ids \subseteq farm'[fence[g].farm].ids
      BY <2>2 DEF Grows, FenceGrows, FarmGrows
    <2>4. LaidAt(fence[g].farm, x.hash)' \/ (x.cf # None /\ x.cf \in farm'[fence'[g].farm].ids)
      BY <2>1, <2>2, <2>3, LaidStays
    <2>5. QED BY <2>4 DEF InPayload
  <1>3. ASSUME InPlaces(w, x) PROVE InPlaces(v, x)'
    <2>1. PICK p \in w.places : LaidAt(place[p].farm, x.hash) BY <1>3 DEF InPlaces
    <2>2. p \in DOMAIN place BY DEF WorkRefs
    <2>3. LaidAt(place[p].farm, x.hash)' BY <2>1, <2>2, LaidStays
    <2>4. QED BY <2>3 DEF InPlaces
  <1>4. InRest(w, x) \/ InChanges(w, x) \/ InPayload(w, x) \/ InPlaces(w, x)
    BY DEF OnTheWay, InMine, InMatched, InLinks
  <1>5. QED BY <1>1, <1>2, <1>3, <1>4 DEF InHand, OnTheWay

\* A request changes a place: the new geofence, the place, the links.
LEMMA ChangeGiven ==
  ASSUME Sound, Grows, NEW h \in Slots, ChangeFenceDone(h) \/ ChangePlaceDone(h), NEW v, v = work'[h], NEW w, w = work[h],
         NEW x, OnTheWay(w, x)
  PROVE  InHand(v, x)'
  <1>1. /\ Busy(h) /\ w.at \in {"change", "move"} /\ v.at \in {"move", "relink"} /\ v.kind = w.kind /\ v.rest = w.rest
        /\ v.payload = w.payload /\ v.places = w.places /\ v.changes = w.changes
    BY DEF ChangeFenceDone, ChangePlaceDone, Busy, Base
  <1>2. WorkRefs(w) /\ Mine(w) BY <1>1 DEF Sound, Refs, Owned
  <1>3. w.kind = "request" BY <1>1, <1>2 DEF WorkRefs
  <1>4. InChanges(w, x) => InChanges(v, x)' BY <1>1 DEF InChanges
  <1>5. QED BY <1>1, <1>2, <1>3, <1>4, ChangingGiven

\* Nothing that was given is lost when the links of a place follow.
LEMMA RelinkGiven ==
  ASSUME Sound, Grows, NEW h \in Slots, RelinkDone(h), NEW v, v = work'[h], NEW w, w = work[h], Given(w),
         NEW x, OnTheWay(w, x)
  PROVE  InHand(v, x)'
  <1>1. /\ Busy(h) /\ w.at = "relink" /\ v.kind = w.kind /\ v.rest = w.rest
        /\ v.payload = w.payload /\ v.places = w.places /\ v.changes = w.changes \ {Current(w)}
        /\ v.at = (IF v.changes # {} THEN "change" ELSE IF v.rest # <<>> THEN "farms" ELSE "create")
        /\ farm'[Current(w).farm].fate # {} /\ DOMAIN farm' = DOMAIN farm
    BY DEF RelinkDone, Busy, Base
  <1>2. WorkRefs(w) /\ Mine(w) BY <1>1 DEF Sound, Refs, Owned
  <1>3. w.kind = "request" BY <1>1, <1>2 DEF WorkRefs
  <1>4. ASSUME InChanges(w, x) PROVE InChanges(v, x)' \/ Good(v.report, v.entries, x)'
    <2>1. PICK c \in w.changes : Hash(c.shape) = x.hash BY <1>4 DEF InChanges
    <2>2. CASE c # Current(w)
      <3>1. c \in v.changes /\ v.at = "change" BY <1>1, <2>1, <2>2
      <3>2. QED BY <2>1, <3>1 DEF InChanges
    <2>3. CASE c = Current(w)
      <3>1. LaidAt(c.farm, x.hash) BY <1>1, <2>1, <2>3 DEF Given
      <3>2. c.farm \in DOMAIN farm BY <1>1, <1>2, <2>3, CurrentIs DEF Sound, WorkRefs
      <3>3. LaidAt(c.farm, x.hash)' BY <3>1, <3>2, LaidStays
      <3>4. ChangedAt(x)' BY <1>1, <2>3, <3>2, <3>3 DEF ChangedAt
      <3>5. QED BY <3>4 DEF Good
    <2>4. QED BY <2>2, <2>3
  <1>5. QED BY <1>1, <1>2, <1>3, <1>4, ChangingGiven

\* Farms are added for what is left.
LEMMA CreateFarmsGiven ==
  ASSUME Sound, Grows, NEW h \in Slots, CreateFarmsDone(h), NEW v, v = work'[h], NEW w, w = work[h],
         NEW x, OnTheWay(w, x)
  PROVE  InHand(v, x)'
  <1>1. /\ Busy(h) /\ w.at = "farms" /\ v.at = "fences" /\ v.kind = w.kind /\ v.rest = w.rest /\ v.matched = w.matched
        /\ v.payload = w.payload /\ v.places = w.places
    BY DEF CreateFarmsDone, Busy, Base
  <1>2. WorkRefs(w) BY <1>1 DEF Sound, Refs
  <1>3. ASSUME InRest(w, x) PROVE InRest(v, x)' BY <1>1, <1>3 DEF InRest
  <1>4. ASSUME InMatched(w, x) PROVE InMatched(v, x)' BY <1>1, <1>4 DEF InMatched
  <1>5. ASSUME InPayload(w, x) PROVE InPayload(v, x)'
    <2>1. PICK g \in w.payload : LaidAt(fence[g].farm, x.hash) \/ (x.cf # None /\ x.cf \in farm[fence[g].farm].ids)
      BY <1>5 DEF InPayload
    <2>2. g \in DOMAIN fence /\ fence[g].farm \in DOMAIN farm BY <1>2 DEF WorkRefs, Sound, Refs, RowRefs
    <2>3. fence'[g].farm = fence[g].farm /\ farm[fence[g].farm].ids \subseteq farm'[fence[g].farm].ids
      BY <2>2 DEF Grows, FenceGrows, FarmGrows
    <2>4. LaidAt(fence[g].farm, x.hash)' \/ (x.cf # None /\ x.cf \in farm'[fence'[g].farm].ids)
      BY <2>1, <2>2, <2>3, LaidStays
    <2>5. QED BY <1>1, <1>5, <2>4 DEF InPayload
  <1>6. ASSUME InPlaces(w, x) PROVE InPlaces(v, x)'
    <2>1. PICK p \in w.places : LaidAt(place[p].farm, x.hash) BY <1>6 DEF InPlaces
    <2>2. p \in DOMAIN place BY <1>2 DEF WorkRefs
    <2>3. LaidAt(place[p].farm, x.hash)' BY <2>1, <2>2, LaidStays, Zenon
    <2>4. QED BY <1>1, <1>6, <2>3 DEF InPlaces
  <1>7. InRest(w, x) \/ InMatched(w, x) \/ InPayload(w, x) \/ InPlaces(w, x)
    BY <1>1 DEF OnTheWay, InMine, InChanges, InLinks
  <1>8. QED BY <1>1, <1>3, <1>4, <1>5, <1>6, <1>7 DEF InHand, OnTheWay

\* A farm that has its geofence lies where its entry says.
LEMMA FencedLies ==
  ASSUME Sound, Grows, NEW h \in Slots, CreateFencesDone(h), NEW w, w = work[h], NEW i \in DOMAIN w.mine, HasFence(w.mine[i])'
  PROVE  LaidAt(w.mine[i], w.rest[i].hash)' /\ i \in DOMAIN w.rest
  <1>1. Busy(h) /\ w.at = "fences" /\ w \in WorkRow BY DEF CreateFencesDone, Busy
  <1>2. Mine(w) BY <1>1 DEF Sound, Owned
  <1>3. w.mine \in Seq(Nat) /\ w.rest \in Seq(Items) /\ Len(w.mine) = Len(w.rest) BY <1>1, <1>2, WorkFields DEF Mine
  <1>4. DOMAIN w.mine = DOMAIN w.rest BY <1>3, LenProperties
  <1>5. w.rest[i] \in Items /\ w.rest[i].hash = Hash(w.rest[i].shape) BY <1>3, <1>4, LenProperties, ElementOfSeq DEF Items
  <1>6. CASE HasFence(w.mine[i])
    <2>1. LaidAt(w.mine[i], w.rest[i].hash) /\ w.mine[i] \in DOMAIN farm BY <1>1, <1>2, <1>6 DEF Mine
    <2>2. QED BY <1>4, <2>1, LaidStays
  <1>7. CASE ~HasFence(w.mine[i])
    <2>1. PICK g \in DOMAIN fence' : fence'[g].farm = w.mine[i] BY DEF HasFence
    <2>2. g \notin DOMAIN fence BY <1>7, <2>1 DEF HasFence, CreateFencesDone
    <2>3. PICK j \in DOMAIN w.mine : fence'[g] = NewFence(w.mine[j], w.rest[j].shape) BY <2>1, <2>2 DEF CreateFencesDone
    <2>4. w.mine[j] = w.mine[i] BY <2>1, <2>3 DEF NewFence
    <2>5. j = i BY <1>2, <2>4 DEF Mine
    <2>6. fence'[g].hash = w.rest[i].hash BY <1>5, <2>3, <2>5 DEF NewFence
    <2>7. LaidAt(w.mine[i], w.rest[i].hash)' BY <2>1, <2>6 DEF LaidAt
    <2>8. QED BY <1>4, <2>7
  <1>8. QED BY <1>6, <1>7

\* Geofences are added for the farms.
LEMMA CreateFencesGiven ==
  ASSUME Sound, Grows, NEW h \in Slots, CreateFencesDone(h), NEW v, v = work'[h], NEW w, w = work[h],
         NEW x, OnTheWay(w, x)
  PROVE  InHand(v, x)'
  <1>1. /\ Busy(h) /\ w \in WorkRow /\ w.at = "fences" /\ v.at \in {"fences", "sync", "create"} /\ v.kind = w.kind
        /\ v.rest = w.rest /\ v.matched = w.matched /\ v.payload = w.payload /\ v.places = w.places /\ v.mine = w.mine
        /\ (v.at = "sync" => w.kind = "import") /\ (v.at = "create" => w.kind # "import")
        /\ v.at = "fences" <=> \E i \in DOMAIN w.mine : \A g \in DOMAIN fence' : fence'[g].farm # w.mine[i]
    BY DEF CreateFencesDone, Busy, Base
  <1>2. WorkRefs(w) /\ Mine(w) BY <1>1 DEF Sound, Refs, Owned
  <1>3. ASSUME InRest(w, x) PROVE InRest(v, x)' \/ InMine(v, x)'
    <2>1. PICK i \in DOMAIN w.rest : w.rest[i] = x BY <1>3 DEF InRest
    <2>2. CASE v.at = "fences" BY <1>1, <2>1, <2>2 DEF InRest
    <2>3. CASE v.at # "fences"
      <3>1. w.mine \in Seq(Nat) /\ w.rest \in Seq(Items) /\ Len(w.mine) = Len(w.rest) BY <1>1, <1>2, WorkFields DEF Mine
      <3>2. i \in DOMAIN w.mine BY <2>1, <3>1, LenProperties
      <3>3. HasFence(w.mine[i])' BY <1>1, <2>3, <3>2 DEF HasFence
      <3>4. LaidAt(w.mine[i], x.hash)' BY <2>1, <3>2, <3>3, FencedLies
      <3>5. QED BY <1>1, <2>3, <3>2, <3>4 DEF InMine
    <2>4. QED BY <2>2, <2>3
  <1>4. ASSUME InMatched(w, x) PROVE InMatched(v, x)' BY <1>1, <1>4 DEF InMatched
  <1>5. ASSUME InPayload(w, x) PROVE InPayload(v, x)'
    <2>1. PICK g \in w.payload : LaidAt(fence[g].farm, x.hash) \/ (x.cf # None /\ x.cf \in farm[fence[g].farm].ids)
      BY <1>5 DEF InPayload
    <2>2. g \in DOMAIN fence /\ fence[g].farm \in DOMAIN farm BY <1>2 DEF WorkRefs, Sound, Refs, RowRefs
    <2>3. fence'[g].farm = fence[g].farm /\ farm[fence[g].farm].ids \subseteq farm'[fence[g].farm].ids
      BY <2>2 DEF Grows, FenceGrows, FarmGrows
    <2>4. LaidAt(fence[g].farm, x.hash)' \/ (x.cf # None /\ x.cf \in farm'[fence'[g].farm].ids)
      BY <2>1, <2>2, <2>3, LaidStays
    <2>5. QED BY <1>1, <1>5, <2>4 DEF InPayload
  <1>6. ASSUME InPlaces(w, x) PROVE InPlaces(v, x)'
    <2>1. PICK p \in w.places : LaidAt(place[p].farm, x.hash) BY <1>6 DEF InPlaces
    <2>2. p \in DOMAIN place BY <1>2 DEF WorkRefs
    <2>3. LaidAt(place[p].farm, x.hash)' BY <2>1, <2>2, LaidStays, Zenon
    <2>4. QED BY <1>1, <1>6, <2>3 DEF InPlaces
  <1>7. InRest(w, x) \/ InMatched(w, x) \/ InPayload(w, x) \/ InPlaces(w, x)
    BY <1>1 DEF OnTheWay, InMine, InChanges, InLinks
  <1>8. ~(v.at = "sync" /\ v.kind = "request") BY <1>1
  <1>9. QED BY <1>3, <1>4, <1>5, <1>6, <1>7, <1>8 DEF InHand, OnTheWay

\* The farms of an import have their ids, or have not.
LEMMA SyncGiven ==
  ASSUME Sound, Grows, NEW h \in Slots, SyncDone(h), NEW v, v = work'[h], NEW w, w = work[h], w.kind = "import",
         NEW x, OnTheWay(w, x)
  PROVE  InHand(v, x)'
  <1>1. /\ Busy(h) /\ w.at = "sync" /\ v.at = "places" /\ v.kind = "import" /\ v.matched = w.matched /\ v.mine = w.mine
    BY DEF SyncDone, Busy, Base
  <1>2. Mine(w) BY <1>1 DEF Sound, Owned
  <1>3. ASSUME InMine(w, x) PROVE InMine(v, x)'
    <2>1. PICK i \in DOMAIN w.mine : LaidAt(w.mine[i], x.hash) BY <1>3 DEF InMine
    <2>2. LaidAt(w.mine[i], x.hash)' BY <1>2, <2>1, LaidStays, Zenon DEF Mine
    <2>3. QED BY <1>1, <2>2 DEF InMine
  <1>4. ASSUME InMatched(w, x) PROVE InMatched(v, x)' BY <1>1, <1>4 DEF InMatched
  <1>5. InMine(w, x) \/ InMatched(w, x)
    BY <1>1 DEF OnTheWay, InRest, InChanges, InPayload, InPlaces, InLinks
  <1>6. QED BY <1>1, <1>3, <1>4, <1>5 DEF InHand, OnTheWay

\* It is known which geofences get a place.
LEMMA ReadPlacesGiven ==
  ASSUME Sound, Grows, NEW h \in Slots, ReadPlacesDone(h), UNCHANGED rows, NEW v, v = work'[h], NEW w, w = work[h],
         NEW x, OnTheWay(w, x)
  PROVE  InHand(v, x)'
  <1>1. /\ Busy(h) /\ w.at = "places" /\ v.at = "create" /\ v.kind = w.kind /\ v.matched = w.matched /\ v.mine = w.mine
        /\ \A m \in w.matched : \/ m.id \in v.payload
                                \/ \E k \in w.matched : k.hash = m.hash /\ \E p \in v.places : place[p].farm = k.farm
        /\ v.places \subseteq DOMAIN place
    BY DEF ReadPlacesDone, Busy, Base
  <1>2. Mine(w) /\ WorkRefs(w) BY <1>1 DEF Sound, Owned, Refs
  <1>3. ASSUME InMine(w, x) PROVE InMine(v, x)'
    <2>1. PICK i \in DOMAIN w.mine : LaidAt(w.mine[i], x.hash) BY <1>3 DEF InMine
    <2>2. LaidAt(w.mine[i], x.hash)' BY <1>2, <2>1, LaidStays, Zenon DEF Mine
    <2>3. QED BY <1>1, <2>2 DEF InMine
  <1>4. ASSUME InMatched(w, x) PROVE InPayload(v, x)' \/ InPlaces(v, x)'
    <2>1. PICK m \in w.matched : m.hash = x.hash BY <1>4 DEF InMatched
    <2>2. CASE m.id \in v.payload
      <3>1. m.id \in DOMAIN fence /\ fence[m.id].farm = m.farm /\ LaidAt(m.farm, x.hash) BY <1>2, <2>1 DEF WorkRefs
      <3>2. PICK g \in DOMAIN fence : g = m.id BY <3>1
      <3>3. LaidAt(fence[g].farm, x.hash)' BY <3>1, <3>2, LaidStays
      <3>4. QED BY <1>1, <2>2, <3>2, <3>3 DEF InPayload
    <2>3. CASE \E k \in w.matched : k.hash = m.hash /\ \E p \in v.places : place[p].farm = k.farm
      <3>1. PICK k \in w.matched, p \in v.places : k.hash = x.hash /\ place[p].farm = k.farm BY <2>1, <2>3
      <3>2. LaidAt(k.farm, x.hash) /\ p \in DOMAIN place BY <1>1, <1>2, <3>1 DEF WorkRefs
      <3>3. LaidAt(place[p].farm, x.hash)' BY <3>1, <3>2, LaidStays
      <3>4. QED BY <1>1, <3>3 DEF InPlaces
    <2>4. QED BY <1>1, <2>1, <2>2, <2>3
  <1>5. InMine(w, x) \/ InMatched(w, x)
    BY <1>1, <1>2 DEF OnTheWay, InRest, InChanges, InPayload, InPlaces, InLinks, WorkRefs
  <1>6. QED BY <1>1, <1>3, <1>4, <1>5 DEF InHand, OnTheWay

\* Places are added for the farms added and for the geofences found.
LEMMA CreatePlacesGiven ==
  ASSUME Sound, Grows, NEW h \in Slots, CreatePlacesDone(h), NEW v, v = work'[h], NEW w, w = work[h],
         NEW x, OnTheWay(w, x)
  PROVE  InHand(v, x)'
  <1> DEFINE N == DOMAIN place' \ DOMAIN place
  <1>1. /\ Busy(h) /\ w.at = "create" /\ v.at = "attach" /\ v.places = w.places \cup N
        /\ \A i \in DOMAIN w.mine : \E p \in N : place'[p].farm = w.mine[i]
        /\ \A g \in w.payload : \E p \in N : place'[p].farm = fence[g].farm /\ place'[p].left
        /\ UNCHANGED <<farm, fence>>
    BY DEF CreatePlacesDone, Busy, Base
  <1>2. Mine(w) /\ WorkRefs(w) BY <1>1 DEF Sound, Owned, Refs
  <1>3. ASSUME NEW p \in v.places, LaidAt(place[p].farm, x.hash)' PROVE InPlaces(v, x)'
    BY <1>1, <1>3 DEF InPlaces
  <1>4. ASSUME InMine(w, x) PROVE InPlaces(v, x)'
    <2>1. PICK i \in DOMAIN w.mine : LaidAt(w.mine[i], x.hash) BY <1>4 DEF InMine
    <2>2. LaidAt(w.mine[i], x.hash)' BY <1>2, <2>1, LaidStays, Zenon DEF Mine
    <2>3. PICK p \in N : place'[p].farm = w.mine[i] BY <1>1
    <2>4. LaidAt(place[p].farm, x.hash)' BY <2>2, <2>3
    <2>5. p \in v.places BY <1>1
    <2>6. QED BY <1>3, <2>4, <2>5
  <1>5. ASSUME InPayload(w, x) PROVE InPlaces(v, x)' \/ Good(v.report, v.entries, x)'
    <2>1. PICK g \in w.payload : LaidAt(fence[g].farm, x.hash) \/ (x.cf # None /\ x.cf \in farm[fence[g].farm].ids)
      BY <1>5 DEF InPayload
    <2>2. PICK p \in N : place'[p].farm = fence[g].farm /\ place'[p].left BY <1>1
    <2>3. p \in v.places /\ p \in DOMAIN place' BY <1>1
    <2>4. CASE LaidAt(fence[g].farm, x.hash)
      <3>1. LaidAt(place[p].farm, x.hash)' BY <1>1, <2>2, <2>4 DEF LaidAt
      <3>2. QED BY <1>3, <2>3, <3>1
    <2>5. CASE x.cf # None /\ x.cf \in farm[fence[g].farm].ids
      <3>1. LeftOf(x)' BY <1>1, <2>2, <2>3, <2>5 DEF LeftOf
      <3>2. QED BY <3>1 DEF Good
    <2>6. QED BY <2>1, <2>4, <2>5
  <1>6. ASSUME InPlaces(w, x) PROVE InPlaces(v, x)'
    <2>1. PICK p \in w.places : LaidAt(place[p].farm, x.hash) BY <1>6 DEF InPlaces
    <2>2. p \in DOMAIN place BY <1>2 DEF WorkRefs
    <2>3. LaidAt(place[p].farm, x.hash)' BY <2>1, <2>2, LaidStays, Zenon
    <2>4. QED BY <1>1, <1>3, <2>1, <2>3
  <1>7. InMine(w, x) \/ InPayload(w, x) \/ InPlaces(w, x)
    BY <1>1 DEF OnTheWay, InRest, InMatched, InChanges, InLinks
  <1>8. QED BY <1>1, <1>4, <1>5, <1>6, <1>7 DEF InHand, OnTheWay

\* It is known which places are to be linked: of those with one hash the last,
\* which if the farm was never changed is the hash of the entry.
LEMMA ReadLinksGiven ==
  ASSUME Sound, Plain, Kept, Grows, NEW h \in Slots, ReadLinksDone(h), UNCHANGED rows, NEW v, v = work'[h], NEW w, w = work[h],
         NEW x, OnTheWay(w, x)
  PROVE  InHand(v, x)'
  <1> USE DEF rows
  <1>1. /\ Busy(h) /\ w.at = "attach" /\ v.at = "link" /\ v.report = w.report
        /\ \A p \in DOMAIN v.links : p \in DOMAIN place
        /\ \A p \in w.places :
              \/ \E n \in DOMAIN link : /\ link[n].report = w.report /\ link[n].place \in DOMAIN place
                                        /\ Latest(link[n].place).hash = Latest(p).hash
              \/ \E q \in DOMAIN v.links : Latest(q).hash = Latest(p).hash
    BY DEF ReadLinksDone, Busy, Base
  <1>2. WorkRefs(w) BY <1>1 DEF Sound, Refs
  <1>3. InPlaces(w, x) BY <1>1 DEF OnTheWay, InRest, InMine, InMatched, InChanges, InPayload, InLinks
  <1>4. PICK p \in w.places : LaidAt(place[p].farm, x.hash) BY <1>3 DEF InPlaces
  <1>5. p \in DOMAIN place /\ place[p].farm \in DOMAIN farm BY <1>2 DEF WorkRefs, Sound, Refs, RowRefs
  <1>6. CASE farm[place[p].farm].fate # {}
    <2>1. ChangedAt(x) BY <1>4, <1>5, <1>6 DEF ChangedAt
    <2>2. Good(v.report, v.entries, x) BY <2>1 DEF Good
    <2>3. QED BY <2>2, GoodStays DEF InHand
  <1>7. CASE farm[place[p].farm].fate = {}
    <2>1. PICK f \in DOMAIN farm : f = place[p].farm BY <1>5
    <2>2. \A g \in DOMAIN fence : fence[g].farm = f => fence[g].hash = x.hash BY <1>4, <1>7, <2>1, LiesOnce
    <2>3. Latest(p).hash = x.hash BY <1>5, <2>1, <2>2 DEF Latest, Sound, Refs, RowRefs
    <2>4. ASSUME NEW q \in DOMAIN place, Latest(q).hash = x.hash PROVE LaidAt(place[q].farm, x.hash)
      BY <2>4 DEF LaidAt, Latest, Sound, Refs, RowRefs
    <2>5. ASSUME NEW n \in DOMAIN link, link[n].report = w.report, link[n].place \in DOMAIN place,
                 Latest(link[n].place).hash = x.hash
          PROVE  Good(v.report, v.entries, x)'
      <3>1. LaidAt(place[link[n].place].farm, x.hash) BY <2>4, <2>5
      <3>2. place[link[n].place].farm = link[n].farm BY DEF Sound, Refs, RowRefs
      <3>3. ShownAt(w.report, x) BY <2>5, <3>1, <3>2 DEF ShownAt
      <3>4. Good(v.report, v.entries, x) BY <1>1, <3>3 DEF Good
      <3>5. QED BY <3>4, GoodStays
    <2>6. ASSUME NEW q \in DOMAIN v.links, Latest(q).hash = x.hash PROVE InLinks(v, x)'
      <3>1. q \in DOMAIN place BY <1>1
      <3>2. LaidAt(place[q].farm, x.hash)' BY <2>4, <2>6, <3>1, LaidStays
      <3>3. QED BY <1>1, <3>2 DEF InLinks
    <2>7. CASE \E n \in DOMAIN link : /\ link[n].report = w.report /\ link[n].place \in DOMAIN place
                                      /\ Latest(link[n].place).hash = Latest(p).hash
      BY <2>3, <2>5, <2>7 DEF InHand
    <2>8. CASE \E q \in DOMAIN v.links : Latest(q).hash = Latest(p).hash
      BY <1>1, <2>3, <2>6, <2>8 DEF InHand, OnTheWay
    <2>9. QED BY <1>1, <2>7, <2>8
  <1>8. QED BY <1>6, <1>7

\* What is linked is as it should be.
LEMMA WriteLinksGiven ==
  ASSUME Sound, Grows, NEW h \in Slots, WriteLinksDone(h), NEW w, w = work[h], NEW x, OnTheWay(w, x)
  PROVE  Good(w.report, w.entries, x)'
  <1>1. /\ Busy(h) /\ w.at = "link"
        /\ \A p \in DOMAIN w.links : \E n \in DOMAIN link' \ DOMAIN link : link'[n] = LinkOf(w, p)
        /\ place' = place
    BY DEF WriteLinksDone, Busy
  <1>2. WorkRefs(w) BY <1>1 DEF Sound, Refs
  <1>3. InLinks(w, x) BY <1>1 DEF OnTheWay, InRest, InMine, InMatched, InChanges, InPayload, InPlaces
  <1>4. PICK p \in DOMAIN w.links : LaidAt(place[p].farm, x.hash) BY <1>3 DEF InLinks
  <1>5. p \in DOMAIN place BY <1>2 DEF WorkRefs
  <1>6. LaidAt(place[p].farm, x.hash)' BY <1>4, <1>5, LaidStays
  <1>7. PICK n \in DOMAIN link' : link'[n] = LinkOf(w, p) BY <1>1
  <1>8. link'[n].report = w.report /\ link'[n].farm = place'[p].farm BY <1>1, <1>7 DEF LinkOf
  <1>9. ShownAt(w.report, x)' BY <1>6, <1>8 DEF ShownAt
  <1>10. QED BY <1>9 DEF Good

\* When there is no batch but the one at hand, every entry is in hand.
LEMMA LastBatch ==
  ASSUME NEW w \in WorkRow, Given(w), ~(Len(w.todo) > 1), NEW x \in w.entries
  PROVE  InHand(w, x)
  <1>1. CASE Good(w.report, w.entries, x) BY <1>1 DEF InHand
  <1>2. CASE \E b \in DOMAIN w.todo : \E i \in DOMAIN w.todo[b] : w.todo[b][i] = x
    <2>1. PICK b \in DOMAIN w.todo : \E i \in DOMAIN w.todo[b] : w.todo[b][i] = x BY <1>2
    <2>2. w.todo \in Seq(Seq(Items)) BY WorkFields
    <2>3. DOMAIN w.todo = 1 .. Len(w.todo) /\ Len(w.todo) \in Nat BY <2>2, LenProperties
    <2>4. b = 1 BY <2>1, <2>3
    <2>5. w.todo # <<>> BY <2>1, EmptySeq
    <2>6. QED BY <2>1, <2>4, <2>5 DEF Given
  <1>3. QED BY <1>1, <1>2 DEF Given

\* A batch that stays at hand.
LEMMA GivenOn ==
  ASSUME Sound, Grows, NEW w, Given(w), NEW v, Base(v, w), v.todo = w.todo,
         \A x : (\E i \in DOMAIN w.todo[1] : w.todo # <<>> /\ x = w.todo[1][i]) /\ OnTheWay(w, x) => InHand(v, x)',
         v.at \in {"move", "relink"} => LaidAt(Current(v).farm, Hash(Current(v).shape))'
  PROVE  Given(v)'
  <1> USE DEF Base
  <1>1. \A x : Good(w.report, w.entries, x) => Good(v.report, v.entries, x)' BY GoodStays
  <1>2. ASSUME v.todo # <<>>, NEW i \in DOMAIN v.todo[1] PROVE InHand(v, v.todo[1][i])'
    <2>1. PICK x : x = v.todo[1][i] BY Zenon
    <2>2. InHand(w, x) BY <1>2, <2>1 DEF Given
    <2>3. CASE Good(w.report, w.entries, x)
      <3>1. Good(v.report, v.entries, x)' BY <1>1, <2>3
      <3>2. InHand(v, x)' BY <3>1 DEF InHand
      <3>3. QED BY <2>1, <3>2
    <2>4. CASE OnTheWay(w, x)
      <3>1. InHand(v, x)' BY <1>2, <2>1, <2>4
      <3>2. QED BY <2>1, <3>1
    <2>5. QED BY <2>2, <2>3, <2>4 DEF InHand
  <1>3. QED BY <1>1, <1>2 DEF Given

\* The next batch is to be looked at.
LEMMA GivenNext ==
  ASSUME Sound, Grows, NEW h \in Slots, WriteLinksDone(h), NEW w, w = work[h], Given(w), NEW v, v = work'[h], v.at = "look"
  PROVE  Given(v)'
  <1>1. w \in WorkRow BY DEF WriteLinksDone
  <1>2. v # Ended(w) BY <1>1, EndedIs
  <1>3. w.kind = "import" /\ v.todo = Tail(w.todo) /\ Len(w.todo) > 1 /\ Base(v, w) BY <1>2 DEF WriteLinksDone
  <1>4. PICK t \in Seq(Seq(Items)) : t = w.todo BY <1>1, WorkFields
  <1>5. t # <<>> /\ Len(t) \in Nat /\ DOMAIN t = 1 .. Len(t) BY <1>3, <1>4, EmptySeq, LenProperties
  <1>6. Tail(t) \in Seq(Seq(Items)) /\ Len(Tail(t)) = Len(t) - 1 /\ \A b \in 1 .. Len(Tail(t)) : Tail(t)[b] = t[b + 1]
    BY <1>5, HeadTailProperties
  <1>7. DOMAIN Tail(t) = 1 .. Len(t) - 1 BY <1>5, <1>6, LenProperties
  <1>8. ASSUME NEW x \in v.entries
        PROVE  \/ \E b \in DOMAIN v.todo : \E i \in DOMAIN v.todo[b] : v.todo[b][i] = x
               \/ Good(v.report, v.entries, x)'
    <2>1. x \in w.entries /\ v.report = w.report /\ v.entries = w.entries BY <1>3 DEF Base
    <2>2. CASE Good(w.report, w.entries, x) BY <2>1, <2>2, GoodStays
    <2>3. ASSUME NEW i \in DOMAIN t[1], t[1][i] = x PROVE Good(v.report, v.entries, x)'
      <3>1. InHand(w, x) BY <1>4, <1>5, <2>3 DEF Given
      <3>2. CASE OnTheWay(w, x) BY <2>1, <3>2, WriteLinksGiven, Zenon
      <3>3. CASE Good(w.report, w.entries, x) BY <2>1, <3>3, GoodStays
      <3>4. QED BY <3>1, <3>2, <3>3 DEF InHand
    <2>4. ASSUME NEW b \in DOMAIN t, b # 1, NEW i \in DOMAIN t[b], t[b][i] = x
          PROVE  \E a \in DOMAIN v.todo : \E j \in DOMAIN v.todo[a] : v.todo[a][j] = x
      <3>1. b - 1 \in 1 .. Len(t) - 1 BY <1>5, <2>4
      <3>2. b - 1 \in DOMAIN Tail(t) /\ Tail(t)[b - 1] = t[(b - 1) + 1] BY <1>6, <1>7, <3>1
      <3>3. (b - 1) + 1 = b BY <1>5
      <3>4. Tail(t)[b - 1] = t[b] BY <3>2, <3>3
      <3>5. QED BY <1>3, <1>4, <2>4, <3>2, <3>4, Zenon
    <2>5. QED BY <1>4, <2>1, <2>2, <2>3, <2>4, Zenon DEF Given
  <1>9. ASSUME NEW b \in DOMAIN v.todo, NEW i \in DOMAIN v.todo[b] PROVE v.todo[b][i] \in v.entries
    <2>1. b \in DOMAIN Tail(t) /\ b \in 1 .. Len(t) - 1 BY <1>3, <1>4, <1>7
    <2>2. Tail(t)[b] = t[b + 1] /\ b + 1 \in DOMAIN t BY <1>5, <1>6, <1>7, <2>1
    <2>3. v.todo[b] = w.todo[b + 1] /\ b + 1 \in DOMAIN w.todo BY <1>3, <1>4, <2>2
    <2>4. QED BY <1>3, <2>3 DEF Given, Base
  <1>10. \A x : InHand(v, x)' BY DEF InHand, OnTheWay
  <1>11. v.kind = "import" BY <1>3 DEF Base
  <1>12. QED BY <1>8, <1>9, <1>10, <1>11 DEF Given

\* A step of an import or a request leaves what is given on its way.
LEMMA GivenOwn ==
  ASSUME Sound, Plain, Kept, Grows, NEW h \in Slots, Reads(h) \/ Writes(h), Given(work[h]), Busy(h)'
  PROVE  Given(work[h])'
  <1> SUFFICES ASSUME NEW v, v = work'[h], NEW w, w = work[h] PROVE Given(v)'
    OBVIOUS
  <1>1. v.at # "done" BY DEF Busy
  <1>2. ASSUME Base(v, w), v.todo = w.todo, v.at \notin {"move", "relink"},
               \A x : (\E i \in DOMAIN w.todo[1] : w.todo # <<>> /\ x = w.todo[1][i]) /\ OnTheWay(w, x) => InHand(v, x)'
        PROVE  Given(v)'
    BY <1>2, GivenOn
  <1>3. ASSUME Busy(h), w.todo # <<>> PROVE Batch(h) = w.todo[1] BY <1>3, BatchIs DEF Sound
  <1>4. CASE LookDone(h) /\ UNCHANGED rows
    <2>1. Base(v, w) /\ v.todo = w.todo /\ v.at \notin {"move", "relink"} /\ Busy(h) BY <1>4 DEF LookDone, Busy
    <2>2. \A x : (\E i \in DOMAIN w.todo[1] : w.todo # <<>> /\ x = w.todo[1][i]) => InHand(v, x)'
      BY <1>3, <1>4, <2>1, LookGiven, Zenon
    <2>3. QED BY <1>2, <2>1, <2>2
  <1>5. CASE LookRequestDone(h) /\ UNCHANGED rows
    <2>1. Base(v, w) /\ v.todo = w.todo /\ v.at \notin {"move", "relink"} /\ Busy(h) BY <1>5 DEF LookRequestDone, Busy
    <2>2. \A x : (\E i \in DOMAIN w.todo[1] : w.todo # <<>> /\ x = w.todo[1][i]) => InHand(v, x)'
      BY <1>3, <1>5, <2>1, LookRequestGiven, Zenon
    <2>3. QED BY <1>2, <2>1, <2>2
  <1>6. CASE ReadPlacesDone(h) /\ UNCHANGED rows
    <2>1. Base(v, w) /\ v.todo = w.todo /\ v.at \notin {"move", "relink"} BY <1>6 DEF ReadPlacesDone
    <2>2. \A x : OnTheWay(w, x) => InHand(v, x)' BY <1>6, ReadPlacesGiven
    <2>3. QED BY <1>2, <2>1, <2>2
  <1>7. CASE ReadLinksDone(h) /\ UNCHANGED rows
    <2>1. Base(v, w) /\ v.todo = w.todo /\ v.at \notin {"move", "relink"} BY <1>7 DEF ReadLinksDone
    <2>2. \A x : OnTheWay(w, x) => InHand(v, x)' BY <1>7, ReadLinksGiven
    <2>3. QED BY <1>2, <2>1, <2>2
  <1>8. CASE ChangeFenceDone(h)
    <2>1. /\ Base(v, w) /\ v.todo = w.todo /\ v.changes = w.changes /\ v.moved \in DOMAIN fence'
          /\ fence'[v.moved].farm = Current(w).farm /\ fence'[v.moved].hash = Hash(Current(w).shape)
      BY <1>8 DEF ChangeFenceDone
    <2>2. \A x : OnTheWay(w, x) => InHand(v, x)' BY <1>8, ChangeGiven
    <2>3. Current(v) = Current(w) BY <2>1 DEF Current
    <2>4. LaidAt(Current(v).farm, Hash(Current(v).shape))' BY <2>1, <2>3 DEF LaidAt
    <2>5. QED BY <2>1, <2>2, <2>4, GivenOn
  <1>9. CASE ChangePlaceDone(h)
    <2>1. Base(v, w) /\ v.todo = w.todo /\ v.changes = w.changes /\ w.at = "move" /\ Busy(h)
      BY <1>9 DEF ChangePlaceDone, Busy
    <2>2. \A x : OnTheWay(w, x) => InHand(v, x)' BY <1>9, ChangeGiven
    <2>3. Current(v) = Current(w) BY <2>1 DEF Current
    <2>4. Current(w).farm \in DOMAIN farm BY <2>1, CurrentIs DEF Sound, Refs, WorkRefs
    <2>5. PICK c : c = Current(w) BY Zenon
    <2>6. LaidAt(c.farm, Hash(c.shape)) BY <2>1, <2>5 DEF Given
    <2>7. LaidAt(c.farm, Hash(c.shape))' BY <2>4, <2>5, <2>6, LaidStays
    <2>8. LaidAt(Current(v).farm, Hash(Current(v).shape))' BY <2>3, <2>5, <2>7
    <2>9. QED BY <2>1, <2>2, <2>8, GivenOn
  <1>10. CASE RelinkDone(h)
    <2>1. Base(v, w) /\ v.todo = w.todo /\ v.at \notin {"move", "relink"} BY <1>10 DEF RelinkDone
    <2>2. \A x : OnTheWay(w, x) => InHand(v, x)' BY <1>10, RelinkGiven
    <2>3. QED BY <1>2, <2>1, <2>2
  <1>11. CASE CreateFarmsDone(h)
    <2>1. Base(v, w) /\ v.todo = w.todo /\ v.at \notin {"move", "relink"} BY <1>11 DEF CreateFarmsDone
    <2>2. \A x : OnTheWay(w, x) => InHand(v, x)' BY <1>11, CreateFarmsGiven
    <2>3. QED BY <1>2, <2>1, <2>2
  <1>12. CASE CreateFencesDone(h)
    <2>1. Base(v, w) /\ v.todo = w.todo /\ v.at \notin {"move", "relink"} BY <1>12 DEF CreateFencesDone
    <2>2. \A x : OnTheWay(w, x) => InHand(v, x)' BY <1>12, CreateFencesGiven
    <2>3. QED BY <1>2, <2>1, <2>2
  <1>13. CASE SyncDone(h)
    <2>1. w.kind = "import"
      <3>1. w \in WorkRow /\ (w.kind # "import" => v = Ended(w)) BY <1>13 DEF SyncDone
      <3>2. QED BY <1>1, <3>1, EndedIs
    <2>2. Base(v, w) /\ v.todo = w.todo /\ v.at \notin {"move", "relink"} BY <1>13, <2>1 DEF SyncDone
    <2>3. \A x : OnTheWay(w, x) => InHand(v, x)' BY <1>13, <2>1, SyncGiven
    <2>4. QED BY <1>2, <2>2, <2>3
  <1>14. CASE CreatePlacesDone(h)
    <2>1. Base(v, w) /\ v.todo = w.todo /\ v.at \notin {"move", "relink"} BY <1>14 DEF CreatePlacesDone
    <2>2. \A x : OnTheWay(w, x) => InHand(v, x)' BY <1>14, CreatePlacesGiven
    <2>3. QED BY <1>2, <2>1, <2>2
  <1>15. CASE WriteLinksDone(h)
    <2>1. w \in WorkRow BY <1>15 DEF WriteLinksDone
    <2>2. v # Ended(w) BY <1>1, <2>1, EndedIs
    <2>3. Base(v, w) /\ (v.at = "look" \/ (v.at = "sync" /\ v.todo = w.todo)) BY <1>15, <2>2 DEF WriteLinksDone
    <2>4. CASE v.at = "look" BY <1>15, <2>4, GivenNext
    <2>5. CASE v.at = "sync" /\ v.todo = w.todo
      <3>1. \A x : OnTheWay(w, x) => Good(w.report, w.entries, x)' BY <1>15, WriteLinksGiven
      <3>2. v.report = w.report /\ v.entries = w.entries BY <2>3 DEF Base
      <3>3. \A x : OnTheWay(w, x) => InHand(v, x)' BY <3>1, <3>2 DEF InHand
      <3>4. QED BY <1>2, <2>3, <2>5, <3>3
    <2>6. QED BY <2>3, <2>4, <2>5
  <1>16. QED BY <1>4, <1>5, <1>6, <1>7, <1>8, <1>9, <1>10, <1>11, <1>12, <1>13, <1>14, <1>15 DEF Reads, Writes

\* What ends with success shows what it was given.
Answered(w) == w.at = "done" => \A x \in w.entries : Good(w.report, w.entries, x)

\* It does when the last step of the work leaves everything shown.
LEMMA AnsweredOwn ==
  ASSUME Sound, Grows, NEW h \in Slots, Reads(h) \/ Writes(h), Given(work[h])
  PROVE  Answered(work[h])'
  <1> SUFFICES ASSUME NEW v, v = work'[h], NEW w, w = work[h], v.at = "done" PROVE \A x \in v.entries : Good(v.report, v.entries, x)'
    BY DEF Answered
  <1>1. ASSUME w \in WorkRow, v = Ended(w) PROVE v.entries = w.entries /\ v.report = w.report
    BY <1>1, EndedIs
  <1>2. CASE SyncDone(h)
    <2>1. w \in WorkRow /\ w.at = "sync" /\ v = Ended(w) /\ w.kind # "import" /\ Busy(h) BY <1>2 DEF SyncDone, Busy
    <2>2. w.kind # "existing" BY <2>1 DEF Sound, Refs, WorkRefs
    <2>3. w.kind = "request" BY <2>1, <2>2, WorkFields DEF Kinds
    <2>4. ~(Len(w.todo) > 1)
      <3>1. Len(w.todo) = 1 BY <2>3 DEF Given
      <3>2. QED BY <3>1
    <2>5. ASSUME NEW x \in w.entries PROVE Good(w.report, w.entries, x)'
      <3>1. InHand(w, x) BY <2>1, <2>4, LastBatch
      <3>2. Good(w.report, w.entries, x) BY <2>1, <2>3, <3>1 DEF InHand
      <3>3. QED BY <3>2, GoodStays
    <2>6. QED BY <1>1, <2>1, <2>5
  <1>3. CASE WriteLinksDone(h)
    <2>1. w \in WorkRow /\ v = Ended(w) /\ ~(w.kind = "import" /\ Len(w.todo) > 1) BY <1>3 DEF WriteLinksDone
    <2>2. ~(Len(w.todo) > 1)
      <3>1. w.kind = "existing" => Len(w.todo) = 0 BY EmptySeq DEF Given
      <3>2. w.kind = "request" => Len(w.todo) = 1 BY DEF Given
      <3>3. CASE w.kind = "import" BY <2>1, <3>3
      <3>4. CASE w.kind # "import"
        <4>1. Len(w.todo) = 0 \/ Len(w.todo) = 1 BY <2>1, <3>1, <3>2, <3>4, WorkFields DEF Kinds
        <4>2. CASE Len(w.todo) = 0 BY <4>2
        <4>3. CASE Len(w.todo) = 1 BY <4>3
        <4>4. QED BY <4>1, <4>2, <4>3
      <3>5. QED BY <3>3, <3>4
    <2>3. ASSUME NEW x \in w.entries PROVE Good(w.report, w.entries, x)'
      <3>1. InHand(w, x) BY <2>1, <2>2, LastBatch
      <3>2. CASE OnTheWay(w, x) BY <1>3, <3>2, WriteLinksGiven
      <3>3. CASE Good(w.report, w.entries, x) BY <3>3, GoodStays
      <3>4. QED BY <3>1, <3>2, <3>3 DEF InHand
    <2>4. QED BY <1>1, <2>1, <2>3
  <1>4. CASE LookDone(h) \/ LookRequestDone(h) BY <1>4 DEF LookDone, LookRequestDone
  <1>5. CASE ReadPlacesDone(h) \/ ReadLinksDone(h) BY <1>5 DEF ReadPlacesDone, ReadLinksDone
  <1>6. CASE ChangeFenceDone(h) \/ ChangePlaceDone(h) BY <1>6 DEF ChangeFenceDone, ChangePlaceDone
  <1>7. CASE RelinkDone(h) \/ CreateFarmsDone(h) BY <1>7 DEF RelinkDone, CreateFarmsDone
  <1>8. CASE CreateFencesDone(h) \/ CreatePlacesDone(h) BY <1>8 DEF CreateFencesDone, CreatePlacesDone
  <1>9. QED BY <1>2, <1>3, <1>4, <1>5, <1>6, <1>7, <1>8 DEF Reads, Writes

\* What has ended stays as it is, and what it was given stays shown.
LEMMA AnsweredStays ==
  ASSUME Sound, Grows, NEW k \in Slots, Answered(work[k]), work'[k].at = "done" => work'[k] = work[k]
  PROVE  Answered(work[k])'
  <1> SUFFICES ASSUME NEW v, v = work'[k], v = work[k], v.at = "done" PROVE \A x \in v.entries : Good(v.report, v.entries, x)'
    BY DEF Answered
  <1>1. \A x \in v.entries : Good(v.report, v.entries, x) BY DEF Answered
  <1>2. QED BY <1>1, GoodStays

\* What starts has everything to look for.
LEMMA GivenFresh ==
  ASSUME NEW v, Fresh(v)
  PROVE  Given(v)'
  <1>1. v.at \in {"look", "attach"} /\ (v.at = "attach" => v.kind = "existing" /\ v.todo = <<>>) BY DEF Fresh
  <1>2. v.todo # <<>> => \A i \in DOMAIN v.todo[1] : InHand(v, v.todo[1][i])' BY <1>1 DEF InHand, OnTheWay
  <1>3. /\ \A x \in v.entries : \E b \in DOMAIN v.todo : \E i \in DOMAIN v.todo[b] : v.todo[b][i] = x
        /\ \A b \in DOMAIN v.todo : \A i \in DOMAIN v.todo[b] : v.todo[b][i] \in v.entries
        /\ v.kind = "request" => Len(v.todo) = 1
        /\ v.kind = "existing" => v.todo = <<>>
    BY DEF Fresh
  <1>4. QED BY <1>1, <1>2, <1>3 DEF Given

\* Everything that is given is on its way or shown.
Served == \A h \in Slots : (Busy(h) => Given(work[h])) /\ Answered(work[h])

\* Nothing that was given is lost in any step.
LEMMA ServedStep ==
  ASSUME Sound, Plain, Kept, Served, Moves
  PROVE  Served'
  <1>1. Grows BY MovesGrow DEF Sound
  <1>2. ASSUME NEW k \in Slots, Others(k) PROVE Busy(k)' => Given(work[k])'
    <2> SUFFICES ASSUME Busy(k)' PROVE Given(work[k])'
      OBVIOUS
    <2>1. Busy(k) /\ Same(work'[k], work[k]) BY <1>2, SameWork
    <2>2. WorkRefs(work[k]) /\ Mine(work[k]) /\ Given(work[k]) BY <2>1 DEF Sound, Refs, Owned, Served
    <2>3. work[k].at \in {"move", "relink"} => Current(work[k]).farm \in DOMAIN farm
      BY <2>1, <2>2, CurrentIs DEF Sound, WorkRefs
    <2>4. QED BY <1>1, <2>1, <2>2, <2>3, GivenStays
  <1>3. ASSUME NEW k \in Slots, work'[k] = work[k] \/ (Busy(k) /\ Same(work'[k], work[k])) \/ work'[k].at # "done"
        PROVE  Answered(work[k])'
    <2>1. work'[k].at = "done" => work'[k] = work[k] BY <1>3 DEF Same, Busy
    <2>2. QED BY <1>1, <2>1, AnsweredStays DEF Served
  <1>4. ASSUME NEW k \in Slots PROVE (Busy(k)' => Given(work[k])') /\ Answered(work[k])'
    <2>1. CASE UNCHANGED work BY <1>2, <1>3, <2>1, AllOthers
    <2>2. ASSUME NEW h \in Slots, Only(h), Reads(h) \/ Writes(h) PROVE (Busy(k)' => Given(work[k])') /\ Answered(work[k])'
      <3>1. CASE k = h
        <4>1. Busy(k) BY <2>2, <3>1, StillBusy DEF Sound
        <4>2. Given(work[k]) BY <4>1 DEF Served
        <4>3. QED BY <1>1, <2>2, <3>1, <4>2, GivenOwn, AnsweredOwn
      <3>2. CASE k # h
        <4>1. work'[k] = work[k] /\ Others(k) BY <2>2, <3>2, OnlyOthers DEF Only
        <4>2. QED BY <1>2, <1>3, <4>1
      <3>3. QED BY <3>1, <3>2
    <2>3. ASSUME NEW h \in Slots, EndsDone(h) PROVE (Busy(k)' => Given(work[k])') /\ Answered(work[k])'
      <3>1. CASE k = h
        <4>1. work'[k].at = "idle" BY <2>3, <3>1 DEF EndsDone, Idle
        <4>2. QED BY <1>3, <4>1 DEF Busy
      <3>2. CASE k # h
        <4>1. work'[k] = work[k] /\ Others(k) BY <2>3, <3>2, OnlyOthers DEF EndsDone, Only
        <4>2. QED BY <1>2, <1>3, <4>1
      <3>3. QED BY <3>1, <3>2
    <2>4. ASSUME NEW h \in Slots, StartDone(h) PROVE (Busy(k)' => Given(work[k])') /\ Answered(work[k])'
      <3>1. CASE k = h
        <4>1. Fresh(work'[k]) BY <2>4, <3>1 DEF StartDone
        <4>2. work'[k].at # "done" BY <4>1 DEF Fresh
        <4>3. QED BY <1>3, <4>1, <4>2, GivenFresh
      <3>2. CASE k # h
        <4>1. Others(k) BY <2>4, <3>2, StartOthers
        <4>2. work'[k] = work[k] \/ (Busy(k) /\ Same(work'[k], work[k])) BY <2>4, <3>2 DEF StartDone
        <4>3. QED BY <1>2, <1>3, <4>1, <4>2
      <3>3. QED BY <3>1, <3>2
    <2>5. QED BY <2>1, <2>2, <2>3, <2>4, ZenonT(60) DEF Moves, Edits, EditPlaceDone, ShowsDone, DeleteFarmDone, vars
  <1>5. QED BY <1>4 DEF Served

\* What is shown or was is where AddedIsShown looks for it.
LEMMA GoodIs ==
  ASSUME Sound, Plain, Kept, NEW h \in Slots, NEW x, Good(work[h].report, work[h].entries, x)
  PROVE  \/ \E n \in LinksIn(work[h].report) : Shown(n) /\ HashOf(link[n].fence) = x.hash
         \/ \E n \in LinksIn(work[h].report) : ~Shown(n) /\ LayThere(link[n].farm, x)
         \/ \E f \in DOMAIN farm : farm[f].fate # {} /\ LayThere(f, x)
         \/ \E p \in DOMAIN place : place[p].left /\ place[p].farm \in HadId(x)
         \/ \E f \in HadId(x) : \E k \in DOMAIN farm \ {f} : Lain(f) \cap Lain(k) # {}
         \/ x.cf # None /\ \E y \in work[h].entries : y.cf = x.cf /\ y.hash # x.hash
  <1>1. \A f, s : LaidAt(f, s) => s \in Lain(f) BY DEF LaidAt, Lain, FencesOf, HashOf
  <1>2. CASE ShownAt(work[h].report, x)
    <2>1. PICK n \in DOMAIN link : link[n].report = work[h].report /\ LaidAt(link[n].farm, x.hash) BY <1>2 DEF ShownAt
    <2>2. PICK f \in DOMAIN farm : f = link[n].farm BY DEF Sound, Refs, RowRefs
    <2>3. n \in LinksIn(work[h].report) /\ LayThere(f, x) BY <1>1, <2>1, <2>2 DEF LinksIn, LayThere
    <2>4. CASE farm[f].fate = {}
      <3>1. \A g \in DOMAIN fence : fence[g].farm = f => fence[g].hash = x.hash BY <2>1, <2>2, <2>4, LiesOnce
      <3>2. HashOf(link[n].fence) = x.hash BY <2>2, <3>1 DEF HashOf, Sound, Refs, RowRefs
      <3>3. QED BY <2>2, <2>3, <3>2
    <2>5. CASE farm[f].fate # {} BY <2>3, <2>5
    <2>6. QED BY <2>4, <2>5
  <1>3. CASE ChangedAt(x)
    <2>1. PICK f \in DOMAIN farm : farm[f].fate # {} /\ LaidAt(f, x.hash) BY <1>3 DEF ChangedAt
    <2>2. QED BY <1>1, <2>1 DEF LayThere
  <1>4. CASE LeftOf(x)
    <2>1. PICK p \in DOMAIN place : place[p].left /\ x.cf # None /\ x.cf \in farm[place[p].farm].ids BY <1>4 DEF LeftOf
    <2>2. place[p].farm \in HadId(x) BY <2>1 DEF HadId, Sound, Refs, RowRefs
    <2>3. QED BY <2>1, <2>2
  <1>5. CASE MetBy(x)
    <2>1. PICK f, k \in DOMAIN farm :
             x.cf # None /\ x.cf \in farm[f].ids /\ f # k /\ \E s : LaidAt(f, s) /\ LaidAt(k, s)
      BY <1>5 DEF MetBy
    <2>2. PICK s : LaidAt(f, s) /\ LaidAt(k, s) BY <2>1
    <2>3. /\ x.cf # None /\ x.cf \in farm[f].ids /\ f # k /\ f \in DOMAIN farm /\ k \in DOMAIN farm
          /\ LaidAt(f, s) /\ LaidAt(k, s)
      BY <2>1, <2>2
    <2>4. f \in HadId(x) /\ k \in DOMAIN farm \ {f} /\ s \in Lain(f) \cap Lain(k) BY <1>1, <2>3 DEF HadId
    <2>5. QED BY <2>4
  <1>6. CASE ToldTwice(work[h].entries, x) BY <1>6 DEF ToldTwice
  <1>7. QED BY <1>2, <1>3, <1>4, <1>5, <1>6 DEF Good

\* AddedIsShown: an import or a request that has ended with success shows
\* everything it was given, but for what is named.
THEOREM AddedAlwaysShown == Spec => []AddedIsShown
  <1>1. Init => Sound /\ Ground /\ Kept /\ Served
    <2> SUFFICES ASSUME Init PROVE Kept /\ Served
      BY SoundInit, GroundInit
    <2>1. DOMAIN farm = {} BY EmptySeq DEF Init
    <2>2. \A h \in Slots : work[h].at = "idle" BY DEF Init, Idle
    <2>3. QED BY <2>1, <2>2 DEF Kept, Served, Answered, Busy
  <1>2. Sound /\ Ground /\ Kept /\ Served /\ [Next]_vars => (Sound /\ Ground /\ Kept /\ Served)'
    <2> SUFFICES ASSUME Sound, Ground, Kept, Served, [Next]_vars PROVE (Sound /\ Ground /\ Kept /\ Served)'
      OBVIOUS
    <2>1. Moves /\ Sound' BY SoundStep, MovesIs
    <2>2. Plain BY DEF Ground
    <2>3. QED BY <2>1, <2>2, GroundStep, KeptStep, ServedStep
  <1>3. Sound /\ Ground /\ Kept /\ Served => AddedIsShown
    <2> SUFFICES ASSUME Sound, Ground, Kept, Served, NEW h \in Slots, work[h].at = "done", NEW x \in work[h].entries
                 PROVE  Good(work[h].report, work[h].entries, x)
      BY GoodIs DEF AddedIsShown, Ground
    <2>1. QED BY DEF Served, Answered
  <1>4. QED BY <1>1, <1>2, <1>3, PTL DEF Spec

(***************************************************************************)
(* No ground is shown twice                                                *)
(***************************************************************************)

\* What is about to be added alone, without an id and not known to the one that
\* adds it, lies at no geofence of a farm that was never changed.
Unlike(w) == w.at \in {"change", "move", "relink", "farms"} => \A i \in DOMAIN w.rest :
    w.rest[i].cf = None /\ (w.kind = "request" => \A m \in w.matched : m.hash # w.rest[i].hash)
    => \A g \in DOMAIN fence : farm[fence[g].farm].fate = {} => fence[g].hash # w.rest[i].hash

\* The same, of whoever has been at work alone.
Apt == \A h \in Slots : Busy(h) /\ ~work[h].raced => Unlike(work[h])

\* A report has two links to a place only if two were at work at once.
OneLink == \A n, m \in DOMAIN link : link[n].place = link[m].place /\ link[n].report = link[m].report =>
                n = m \/ link[n].raced \/ link[m].raced

\* A farm that has a geofence or is about to get its first one: one whose request
\* has failed before that is never looked at again.
Alive(f) == HasFence(f) \/ \E h \in Slots : work[h].at = "fences" /\ \E i \in DOMAIN work[h].mine : work[h].mine[i] = f

\* Two farms said to be the same ground in the same way, and a farm that counts.
Alike(f, k) == /\ SameWay(farm[f].said, farm[k].said) /\ Misread(f) = Misread(k)
               /\ Simple(farm[f].said) /\ Simple(farm[k].said)
Clean(f) == farm[f].fate = {} /\ ~farm[f].again

\* Of two such farms one was changed, or added although it was known.
OneFarm == \A f, k \in DOMAIN farm : f # k /\ Alive(f) /\ Alive(k) /\ Clean(f) /\ Clean(k) => ~Alike(f, k)

\* Geofences of farms that were never changed come with new farms only.
LEMMA OldFences ==
  ASSUME Sound, Moves, \A h \in Slots : ~(CreateFencesDone(h) /\ Only(h)),
         NEW g \in DOMAIN fence', farm'[fence'[g].farm].fate = {}
  PROVE  /\ g \in DOMAIN fence /\ fence'[g].hash = fence[g].hash
         /\ farm[fence[g].farm].fate = {}
  <1>1. Grows BY MovesGrow DEF Sound
  <1>2. g \in DOMAIN fence
    <2>1. SUFFICES ASSUME g \notin DOMAIN fence PROVE FALSE
      OBVIOUS
    <2>2. PICK f : f = fence'[g].farm OBVIOUS
    <2>3. ~HasFence(f) BY <2>1, <2>2, NewFences
    <2>4. HasFence(f)' BY <2>2 DEF HasFence
    <2>5. QED BY <2>3, <2>4, FirstFence DEF Sound
  <1>3. fence'[g].farm = fence[g].farm /\ fence[g].farm \in DOMAIN farm
    BY <1>1, <1>2 DEF Grows, FenceGrows, Sound, Refs, RowRefs
  <1>4. fence'[g].hash = fence[g].hash BY <1>1, <1>2, <1>3 DEF Grows, FenceGrows
  <1>5. farm[fence[g].farm].fate = {} BY <1>1, <1>3 DEF Grows, FarmGrows
  <1>6. QED BY <1>2, <1>4, <1>5

\* So what is unlike them stays so.
LEMMA UnlikeStays ==
  ASSUME Sound, Moves, \A h \in Slots : ~(CreateFencesDone(h) /\ Only(h)), NEW w, Unlike(w),
         NEW v, v.at \in {"change", "move", "relink", "farms"} => w.at \in {"change", "move", "relink", "farms"},
         v.rest = w.rest, v.matched = w.matched, v.kind = w.kind
  PROVE  Unlike(v)'
  <1> SUFFICES ASSUME v.at \in {"change", "move", "relink", "farms"}, NEW i \in DOMAIN v.rest, v.rest[i].cf = None,
                      v.kind = "request" => \A m \in v.matched : m.hash # v.rest[i].hash,
                      NEW g \in DOMAIN fence', farm'[fence'[g].farm].fate = {}
               PROVE  fence'[g].hash # v.rest[i].hash
    BY DEF Unlike
  <1>1. g \in DOMAIN fence /\ fence'[g].hash = fence[g].hash /\ farm[fence[g].farm].fate = {} BY OldFences
  <1>2. fence[g].hash # w.rest[i].hash BY <1>1 DEF Unlike
  <1>3. QED BY <1>1, <1>2

\* Geofences are added by one that is at that.
LEMMA NotFencing ==
  ASSUME Alone, NEW k \in Slots, Busy(k), ~work[k].raced, work[k].at # "fences"
  PROVE  \A h \in Slots : ~(CreateFencesDone(h) /\ Only(h))
  BY DEF Alone, CreateFencesDone, Busy

\* What has been read is unlike what is known.
LEMMA UnlikeRead ==
  ASSUME NEW k \in Slots, LookDone(k) \/ LookRequestDone(k), UNCHANGED rows
  PROVE  Unlike(work[k])'
  <1> SUFFICES ASSUME NEW v, v = work'[k], NEW i \in DOMAIN v.rest, v.rest[i].cf = None,
                      v.kind = "request" => \A m \in v.matched : m.hash # v.rest[i].hash,
                      NEW g \in DOMAIN fence'
               PROVE  fence'[g].hash # v.rest[i].hash
    BY DEF Unlike
  <1>1. g \in DOMAIN fence /\ fence'[g] = fence[g] BY DEF rows
  <1>2. CASE LookDone(k) BY <1>1, <1>2 DEF LookDone
  <1>3. CASE LookRequestDone(k)
    <2>1. v.kind = "request" BY <1>3 DEF LookRequestDone, Base
    <2>2. PICK j \in DOMAIN Batch(k) : v.rest[i] = Batch(k)[j] BY <1>3 DEF LookRequestDone
    <2>3. fence[g].hash = Batch(k)[j].hash => \E m \in v.matched : m.hash = Batch(k)[j].hash
      BY <1>1, <1>3, <2>2 DEF LookRequestDone
    <2>4. QED BY <1>1, <2>1, <2>2, <2>3
  <1>4. QED BY <1>2, <1>3

\* What is read alone is unlike what is known until it is added.
LEMMA AptStep ==
  ASSUME Sound, Alone, Apt, Moves
  PROVE  Apt'
  <1> SUFFICES ASSUME NEW k \in Slots, Busy(k)', ~work'[k].raced PROVE Unlike(work[k])'
    BY DEF Apt
  <1>1. CASE Only(k) /\ (Reads(k) \/ Writes(k)) /\ Busy(k) /\ ~work[k].raced
    <2>1. work[k] \in WorkRow /\ Unlike(work[k]) BY <1>1, BusyRow DEF Apt, Sound
    <2>2. CASE (LookDone(k) \/ LookRequestDone(k)) /\ UNCHANGED rows BY <2>2, UnlikeRead
    <2>3. ASSUME work[k].at \in {"change", "move", "relink"}, work'[k].rest = work[k].rest,
                 work'[k].matched = work[k].matched, work'[k].kind = work[k].kind
          PROVE  Unlike(work[k])'
      <3> SUFFICES ASSUME NEW v, v = work'[k], NEW w, w = work[k] PROVE Unlike(v)'
        OBVIOUS
      <3>1. \A h \in Slots : ~(CreateFencesDone(h) /\ Only(h)) BY <1>1, <2>3, NotFencing
      <3>2. Unlike(w) /\ w.at \in {"change", "move", "relink", "farms"} BY <2>1, <2>3
      <3>3. v.rest = w.rest /\ v.matched = w.matched /\ v.kind = w.kind BY <2>3
      <3>4. QED BY <3>1, <3>2, <3>3, UnlikeStays
    <2>4. CASE ChangeFenceDone(k) BY <2>3, <2>4 DEF ChangeFenceDone, Base
    <2>5. CASE ChangePlaceDone(k) BY <2>3, <2>5 DEF ChangePlaceDone, Base
    <2>6. CASE RelinkDone(k) BY <2>3, <2>6 DEF RelinkDone, Base
    <2>7. ASSUME work'[k].at \notin {"change", "move", "relink", "farms"} PROVE Unlike(work[k])'
      <3> SUFFICES ASSUME NEW v, v = work'[k] PROVE Unlike(v)'
        OBVIOUS
      <3>1. QED BY <2>7 DEF Unlike
    <2>8. ASSUME Writes(k), ~ChangeFenceDone(k), ~ChangePlaceDone(k), ~RelinkDone(k)
          PROVE  work'[k].at \notin {"change", "move", "relink", "farms"}
      BY <2>1, <2>8, EndedIs, Zenon DEF Writes, CreateFarmsDone, CreateFencesDone, SyncDone, CreatePlacesDone,
         WriteLinksDone
    <2>9. ASSUME Reads(k), ~((LookDone(k) \/ LookRequestDone(k)) /\ UNCHANGED rows)
          PROVE  work'[k].at \notin {"change", "move", "relink", "farms"}
      BY <2>9 DEF Reads, ReadPlacesDone, ReadLinksDone
    <2>10. QED BY <1>1, <2>2, <2>4, <2>5, <2>6, <2>7, <2>8, <2>9
  <1>2. CASE StartDone(k)
    <2> SUFFICES ASSUME NEW v, v = work'[k] PROVE Unlike(v)'
      OBVIOUS
    <2>1. v.at \in {"look", "attach"} BY <1>2 DEF StartDone, Fresh
    <2>2. QED BY <2>1 DEF Unlike
  <1>3. CASE work'[k] = work[k] /\ Busy(k) /\ ~work[k].raced /\ (UNCHANGED rows \/ Edits \/ ShowsDone \/ DeleteFarmDone)
    <2> SUFFICES ASSUME NEW w, w = work[k], w = work'[k] PROVE Unlike(w)'
      BY <1>3
    <2>1. Unlike(w) BY <1>3 DEF Apt
    <2>2. CASE w.at \in {"change", "move", "relink", "farms"}
      <3>1. \A h \in Slots : ~(CreateFencesDone(h) /\ Only(h)) BY <1>3, <2>2, NotFencing
      <3>2. QED BY <2>1, <3>1, UnlikeStays
    <2>3. CASE w.at \notin {"change", "move", "relink", "farms"} BY <2>3 DEF Unlike
    <2>4. QED BY <2>2, <2>3
  <1>4. QED BY <1>1, <1>2, <1>3, Undisturbed DEF Sound

\* A report gets one link to a place, unless two at work at once add it.
LEMMA OneLinkStep ==
  ASSUME Sound, Lone, OneLink, Moves
  PROVE  OneLink'
  <1> SUFFICES ASSUME NEW n \in DOMAIN link', NEW m \in DOMAIN link', link'[n].place = link'[m].place,
                      link'[n].report = link'[m].report, n # m, ~link'[n].raced, ~link'[m].raced
               PROVE  FALSE
    BY DEF OneLink
  <1>1. Grows BY MovesGrow DEF Sound
  <1>2. ASSUME NEW x \in DOMAIN link', NEW y \in DOMAIN link', link'[x].place = link'[y].place,
               link'[x].report = link'[y].report, x # y, ~link'[x].raced, x \notin DOMAIN link
        PROVE  FALSE
    <2>1. PICK h \in Slots : WriteLinksDone(h) BY <1>2, NewLinks
    <2>2. PICK p \in DOMAIN work[h].links : link'[x] = LinkOf(work[h], p) BY <1>2, <2>1 DEF WriteLinksDone
    <2>3. link'[x].place = p /\ link'[x].report = work[h].report /\ link'[x].raced = work[h].raced
      BY <2>2 DEF LinkOf
    <2>4. y \in DOMAIN link BY <1>2, <2>1 DEF WriteLinksDone
    <2>5. link[y].place = p /\ link[y].report = work[h].report BY <1>1, <1>2, <2>3, <2>4, Zenon DEF Grows, LinkGrows
    <2>6. Busy(h) /\ work[h].at = "link" BY <2>1 DEF WriteLinksDone, Busy
    <2>7. Unlinked(work[h]) BY <1>2, <2>3, <2>6 DEF Lone
    <2>8. QED BY <2>4, <2>5, <2>6, <2>7 DEF Unlinked
  <1>3. CASE n \in DOMAIN link /\ m \in DOMAIN link BY <1>1, <1>3 DEF Grows, LinkGrows, OneLink
  <1>4. QED BY <1>2, <1>3
\* A farm gets its first geofence from the one that has added it, so one that has
\* none and is about to get none never has one.
LEMMA AliveBefore ==
  ASSUME Sound, Moves, NEW f \in DOMAIN farm, Alive(f)'
  PROVE  Alive(f)
  <1>1. CASE HasFence(f)'
    <2>1. CASE HasFence(f) BY <2>1 DEF Alive
    <2>2. CASE ~HasFence(f)
      <3>1. PICK h \in Slots : CreateFencesDone(h) /\ \E i \in DOMAIN work[h].mine : work[h].mine[i] = f
        BY <1>1, <2>2, FirstFence DEF Sound
      <3>2. work[h].at = "fences" BY <3>1 DEF CreateFencesDone
      <3>3. QED BY <3>1, <3>2 DEF Alive
    <2>3. QED BY <2>1, <2>2
  <1>2. ASSUME NEW h \in Slots, work'[h].at = "fences", \E i \in DOMAIN work'[h].mine : work'[h].mine[i] = f
        PROVE  Alive(f)
    <2>1. Busy(h)' BY <1>2 DEF Busy
    <2>2. CASE Others(h)
      <3>1. work[h].at = "fences" /\ work[h].mine = work'[h].mine BY <2>1, <2>2, <1>2, SameWork DEF Same
      <3>2. QED BY <1>2, <3>1 DEF Alive
    <2>3. CASE CreateFencesDone(h)
      <3>1. work[h].at = "fences" /\ work[h].mine = work'[h].mine BY <2>3 DEF CreateFencesDone
      <3>2. QED BY <1>2, <3>1 DEF Alive
    <2>4. CASE CreateFarmsDone(h) BY <1>2, <2>4 DEF CreateFarmsDone
    <2>5. ASSUME Reads(h) \/ Writes(h), ~CreateFencesDone(h), ~CreateFarmsDone(h) PROVE FALSE
      <3>1. work[h] \in WorkRow BY <2>5, StillBusy, BusyRow DEF Sound
      <3>2. QED
        BY <1>2, <2>5, <3>1, EndedIs DEF Reads, Writes, LookDone, LookRequestDone, ReadPlacesDone, ReadLinksDone,
           ChangeFenceDone, ChangePlaceDone, RelinkDone, SyncDone, CreatePlacesDone, WriteLinksDone
    <2>6. CASE EndsDone(h) BY <1>2, <2>6 DEF EndsDone, Idle
    <2>7. CASE StartDone(h) BY <1>2, <2>7 DEF StartDone, Fresh
    <2>8. ASSUME NEW k \in Slots, k # h, (Only(k) /\ (Reads(k) \/ Writes(k))) \/ EndsDone(k) \/ StartDone(k)
          PROVE  Others(h)
      BY <2>8, OnlyOthers, StartOthers DEF EndsDone
    <2>9. ASSUME UNCHANGED vars \/ Edits \/ ShowsDone \/ DeleteFarmDone PROVE Others(h)
      <3>1. UNCHANGED work BY <2>9, ZenonT(60) DEF vars, Edits, EditPlaceDone, ShowsDone, DeleteFarmDone
      <3>2. QED BY <3>1, AllOthers
    <2>10. QED BY <2>2, <2>3, <2>4, <2>5, <2>6, <2>7, <2>8, <2>9 DEF Moves
  <1>3. QED BY <1>1, <1>2 DEF Alive

\* What Clean, Alike and Misread say of farms that are there stays true of them.
LEMMA AlikeBefore ==
  ASSUME Grows, NEW f \in DOMAIN farm, Clean(f)'
  PROVE  Clean(f) /\ farm'[f].said = farm[f].said /\ farm'[f].from = farm[f].from
  BY DEF Grows, FarmGrows, Clean

\* A farm that one adds alone, that is not known to it and told once, is like no
\* other one.
LEMMA NewUnlike ==
  ASSUME Sound, Sound', Plain, Alone, Apt, Moves, NEW f \in DOMAIN farm', f \notin DOMAIN farm, Clean(f)',
         NEW k \in DOMAIN farm', k # f, Alive(k)', Clean(k)', Alike(f, k)' \/ Alike(k, f)'
  PROVE  FALSE
  <1>1. Grows BY MovesGrow DEF Sound
  <1>2. PICK h \in Slots : CreateFarmsDone(h) /\ Only(h) BY NewFarm
  <1> SUFFICES ASSUME NEW w, w = work[h], NEW v, v = work'[h] PROVE FALSE
    OBVIOUS
  <1>3. /\ w \in WorkRow /\ w.at = "farms"
        /\ \A x \in DOMAIN farm' : x \in DOMAIN farm \/ \E i \in DOMAIN w.rest : x = v.mine[i]
        /\ \A i \in DOMAIN w.rest : farm'[v.mine[i]].said = w.rest[i].said /\ farm'[v.mine[i]].from = w.rest[i].from
    <2>1. DOMAIN v.mine = DOMAIN w.rest /\ w \in WorkRow /\ w.at = "farms" BY <1>2 DEF CreateFarmsDone
    <2>2. \A x \in DOMAIN farm' : x \in DOMAIN farm \/ \E i \in DOMAIN v.mine : x = v.mine[i]
      <3>1. \A x \in DOMAIN farm' : x \in DOMAIN farm \/ \E i \in DOMAIN work'[h].mine : x = work'[h].mine[i]
        BY <1>2, Zenon DEF CreateFarmsDone
      <3>2. QED BY <3>1
    <2>3. \A i \in DOMAIN v.mine : farm'[v.mine[i]].said = w.rest[i].said /\ farm'[v.mine[i]].from = w.rest[i].from
      <3>1. \A i \in DOMAIN work'[h].mine :
               farm'[work'[h].mine[i]].said = work[h].rest[i].said /\ farm'[work'[h].mine[i]].from = work[h].rest[i].from
        BY <1>2, Zenon DEF CreateFarmsDone
      <3>2. QED BY <3>1
    <2>4. QED BY <2>1, <2>2, <2>3
  <1>4. PICK i \in DOMAIN w.rest : f = v.mine[i] BY <1>3
  <1>5. /\ w.rest[i].cf = None /\ ~w.raced
        /\ \A j \in DOMAIN w.rest : w.rest[j].hash = w.rest[i].hash => j = i
        /\ w.kind = "request" => \A m \in w.matched : m.hash # w.rest[i].hash
    <2>1. i \in DOMAIN v.mine BY <1>2 DEF CreateFarmsDone
    <2>2. ~farm'[v.mine[i]].again BY <1>4 DEF Clean
    <2>3. \A n \in DOMAIN work'[h].mine :
             \/ farm'[work'[h].mine[n]].again
             \/ /\ work[h].rest[n].cf = None /\ ~work[h].raced
                /\ \A j \in DOMAIN work[h].rest : work[h].rest[j].hash = work[h].rest[n].hash => j = n
                /\ work[h].kind = "request" => \A m \in work[h].matched : m.hash # work[h].rest[n].hash
      BY <1>2, Zenon DEF CreateFarmsDone
    <2>4. \/ farm'[v.mine[i]].again
          \/ /\ w.rest[i].cf = None /\ ~w.raced
             /\ \A j \in DOMAIN w.rest : w.rest[j].hash = w.rest[i].hash => j = i
             /\ w.kind = "request" => \A m \in w.matched : m.hash # w.rest[i].hash
      BY <2>1, <2>3
    <2>5. QED BY <2>2, <2>4
  <1>6. \A x \in DOMAIN farm' : farm'[x].said \in Shape /\ farm'[x].from \in Sources
    <2>1. farm' \in Seq(FarmRow) BY DEF Sound, Types
    <2>2. \A x \in DOMAIN farm' : farm'[x] \in FarmRow BY <2>1, ElementOfSeq, LenProperties
    <2>3. QED BY <2>2 DEF FarmRow
  <1>7. ASSUME NEW x \in DOMAIN farm', NEW y \in DOMAIN farm', Alike(x, y)'
        PROVE  Hash(Stored(farm'[x].from, farm'[x].said)) = Hash(Stored(farm'[y].from, farm'[y].said))
    <2>1. PICK s \in Shape : s = farm'[x].said BY <1>6
    <2>2. PICK t \in Shape : t = farm'[y].said BY <1>6
    <2>3. PICK from \in Sources : from = farm'[x].from BY <1>6
    <2>4. PICK by \in Sources : by = farm'[y].from BY <1>6
    <2>5. SameWay(s, t) /\ Simple(s) /\ Simple(t) BY <1>7, <2>1, <2>2 DEF Alike
    <2>6. MisreadAs(from, s) <=> MisreadAs(by, t)
      BY <1>7, <2>1, <2>2, <2>3, <2>4 DEF Alike, Misread, MisreadAs
    <2>7. Hash(Stored(from, s)) = Hash(Stored(by, t)) BY <2>5, <2>6, HashAlike
    <2>8. QED BY <2>1, <2>2, <2>3, <2>4, <2>7
  <1>8. Hash(Stored(farm'[f].from, farm'[f].said)) = Hash(Stored(farm'[k].from, farm'[k].said))
    BY <1>7
  <1>9. w.rest \in Seq(Items) BY <1>3, WorkFields
  <1>10. \A j \in DOMAIN w.rest : w.rest[j] \in Items BY <1>9, ElementOfSeq, LenProperties
  <1>11. \A j \in DOMAIN w.rest : w.rest[j].hash = Hash(Stored(farm'[v.mine[j]].from, farm'[v.mine[j]].said))
    BY <1>3, <1>10 DEF Items
  <1>12. CASE k \notin DOMAIN farm
    <2>1. PICK j \in DOMAIN w.rest : k = v.mine[j] BY <1>3, <1>12
    <2>2. w.rest[j].hash = w.rest[i].hash BY <1>4, <1>8, <1>11, <2>1
    <2>3. QED BY <1>4, <1>5, <2>1, <2>2
  <1>13. CASE k \in DOMAIN farm
    <2>1. Busy(h) /\ ~work[h].raced BY <1>3, <1>5 DEF Busy
    <2>2. Unlike(w) BY <2>1 DEF Apt
    <2>3. Alive(k) BY <1>13, AliveBefore
    <2>4. \A x \in Slots : work[x].at # "fences" BY <1>3, <2>1 DEF Alone, Busy
    <2>5. PICK g \in DOMAIN fence : fence[g].farm = k BY <2>3, <2>4 DEF Alive, HasFence
    <2>6. Clean(k) /\ farm'[k].said = farm[k].said /\ farm'[k].from = farm[k].from BY <1>1, <1>13, AlikeBefore
    <2>7. fence[g].hash = Hash(Stored(farm[k].from, farm[k].said))
      BY <2>5, <2>6 DEF Plain, Clean, Sound, Refs, RowRefs
    <2>8. fence[g].hash = w.rest[i].hash BY <1>4, <1>8, <1>11, <2>6, <2>7
    <2>9. QED BY <1>3, <1>5, <2>2, <2>5, <2>6, <2>8 DEF Unlike, Clean
  <1>14. QED BY <1>12, <1>13

\* No ground has two farms, but for what is named.
LEMMA OneFarmStep ==
  ASSUME Sound, Sound', Plain, Alone, Apt, OneFarm, Moves
  PROVE  OneFarm'
  <1> SUFFICES ASSUME NEW f \in DOMAIN farm', NEW k \in DOMAIN farm', f # k, Alive(f)', Alive(k)', Clean(f)', Clean(k)',
                      Alike(f, k)'
               PROVE  FALSE
    BY DEF OneFarm
  <1>1. CASE f \notin DOMAIN farm BY <1>1, NewUnlike
  <1>2. CASE k \notin DOMAIN farm BY <1>2, NewUnlike
  <1>3. CASE f \in DOMAIN farm /\ k \in DOMAIN farm
    <2>1. Grows BY MovesGrow DEF Sound
    <2>2. Alive(f) /\ Alive(k) BY <1>3, AliveBefore
    <2>3. Clean(f) /\ farm'[f].said = farm[f].said /\ farm'[f].from = farm[f].from BY <1>3, <2>1, AlikeBefore
    <2>4. Clean(k) /\ farm'[k].said = farm[k].said /\ farm'[k].from = farm[k].from BY <1>3, <2>1, AlikeBefore
    <2>5. Alike(f, k) BY <2>3, <2>4 DEF Alike, Misread
    <2>6. QED BY <1>3, <2>2, <2>3, <2>4, <2>5 DEF OneFarm
  <1>4. QED BY <1>1, <1>2, <1>3

\* The inductive invariant of ShownOnce, beside Sound and Ground.
Once == Apt /\ OneLink /\ OneFarm

\* It holds at first.
LEMMA OnceInit ==
  ASSUME Init
  PROVE  Once
  <1>1. \A h \in Slots : ~Busy(h) BY DEF Init, Busy, Idle
  <1>2. DOMAIN farm = {} /\ DOMAIN link = {} BY EmptySeq DEF Init
  <1>3. QED BY <1>1, <1>2 DEF Once, Apt, OneLink, OneFarm

\* Links to one ground, of one report, are links to one place of one farm.
LEMMA OnceShows ==
  ASSUME Sound, Ground, Once
  PROVE  ShownOnce
  <1> SUFFICES ASSUME NEW n \in DOMAIN link, NEW m \in 1 .. n - 1, link[m].report = link[n].report,
                      SameWay(farm[link[m].farm].said, farm[link[n].farm].said),
                      Simple(farm[link[m].farm].said), Simple(farm[link[n].farm].said),
                      Misread(link[m].farm) = Misread(link[n].farm), ~Raced(m), ~Raced(n),
                      Clean(link[m].farm), Clean(link[n].farm)
               PROVE  FALSE
    BY DEF ShownOnce, Clean
  <1>1. m \in DOMAIN link /\ m # n BY RowsOf DEF Sound
  <1>2. /\ link[n].place \in DOMAIN place /\ place[link[n].place].farm = link[n].farm
        /\ link[n].fence \in DOMAIN fence /\ fence[link[n].fence].farm = link[n].farm
        /\ link[m].place \in DOMAIN place /\ place[link[m].place].farm = link[m].farm
        /\ link[m].fence \in DOMAIN fence /\ fence[link[m].fence].farm = link[m].farm
    BY <1>1 DEF Sound, Refs, RowRefs
  <1>3. CASE link[m].farm = link[n].farm
    <2>1. link[m].place = link[n].place BY <1>2, <1>3 DEF Ground, OnePlace, Raced
    <2>2. QED BY <1>1, <2>1 DEF Once, OneLink, Raced
  <1>4. CASE link[m].farm # link[n].farm
    <2>1. Alive(link[m].farm) /\ Alive(link[n].farm) BY <1>2 DEF Alive, HasFence
    <2>2. link[m].farm \in DOMAIN farm /\ link[n].farm \in DOMAIN farm BY <1>2 DEF Sound, Refs, RowRefs
    <2>3. Alike(link[m].farm, link[n].farm) BY DEF Alike
    <2>4. QED BY <1>4, <2>1, <2>2, <2>3 DEF Once, OneFarm
  <1>5. QED BY <1>3, <1>4

\* ShownOnce: a report shows no ground twice, but for what is named.
THEOREM GroundShownOnce == Spec => []ShownOnce
  <1>1. Init => Sound /\ Ground /\ Once BY SoundInit, GroundInit, OnceInit
  <1>2. Sound /\ Ground /\ Once /\ [Next]_vars => (Sound /\ Ground /\ Once)'
    <2> SUFFICES ASSUME Sound, Ground, Once, [Next]_vars PROVE (Sound /\ Ground /\ Once)'
      OBVIOUS
    <2>1. Moves /\ Sound' BY SoundStep, MovesIs
    <2>2. Ground' BY <2>1, GroundStep
    <2>3. Apt' /\ OneLink' /\ OneFarm' BY <2>1, AptStep, OneLinkStep, OneFarmStep DEF Ground, Once
    <2>4. QED BY <2>1, <2>2, <2>3 DEF Once
  <1>3. Sound /\ Ground /\ Once => ShownOnce BY OnceShows
  <1>4. QED BY <1>1, <1>2, <1>3, PTL DEF Spec
====
