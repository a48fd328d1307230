------------------------------ MODULE PlaceImport ------------------------------
(***************************************************************************)
(* How the places of a report come about: from imported files, a batch of  *)
(* features at a time, from entries of users and partner applications, and *)
(* from places the organization has already.  All of them recognise a      *)
(* place they know by the hash of its geometry or by the id its farm has   *)
(* at the other application (cf_farmid), and link it instead of adding it. *)
(* (src/src/due-diligence/production-place/production-place.service.ts)    *)
(*                                                                         *)
(* One step is one write, with the reads before it that nothing separates. *)
(* Imports and requests run beside each other and beside users who edit,   *)
(* remove and delete; a query that fails ends an import or a request where *)
(* it is, and the process may stop.  One organization; producers,          *)
(* assessments and warnings are left out.                                  *)
(***************************************************************************)
EXTENDS Geometry

CONSTANTS
    Slots,
    Reports,
    Files,          \* sequences of batches, sequences of [from, said]
    Requests,       \* [entries |-> sequence of [cf, said], partner |-> BOOLEAN]
    Shapes,         \* what edits change a place to
    Budgets         \* bounds: for which reports, how much work, how much at once, and how
                    \* many events that disturb it

ASSUME BudgetsAssumption == Budgets \subseteq [reports : SUBSET Reports, tasks : Nat, together : Nat, events : Nat]

ASSUME InputsAssumption ==
    /\ Files \subseteq Seq(Seq([from : Sources, said : Shape]))
    /\ Requests \subseteq [entries : Seq([cf : Nat, said : Shape]), partner : BOOLEAN]
    /\ Shapes \subseteq Shape

VARIABLES
    farm,       \* rows of farms, in the order of their ids
    fence,      \* rows of geofences
    place,      \* rows of due_diligence_production_places
    link,       \* rows of diligence_reports_due_diligence_production_places
    work,       \* work[h]: an import or a request
    left        \* what is left of the bounds

rows == <<farm, fence, place, link>>
vars == <<rows, work, left>>

None == 0
Idle == [at |-> "idle"]
Busy(h) == work[h].at \notin {"idle", "done"}

Init ==
    /\ farm = <<>> /\ fence = <<>> /\ place = <<>> /\ link = <<>>
    /\ work = [h \in Slots |-> Idle]
    /\ left \in Budgets

HashOf(g)    == fence[g].hash
FencesOf(f)  == {g \in DOMAIN fence : fence[g].farm = f}
PlacesOf(F)  == {p \in DOMAIN place : place[p].farm \in F}
Latest(p)    == fence[place[p].latest]

Event == left.events > 0 /\ left' = [left EXCEPT !.events = @ - 1]

\* history: the rows of a farm whose place was changed in the way named
Touched(F, how) ==
    [f \in DOMAIN farm |-> IF f \in F THEN [farm[f] EXCEPT !.fate = @ \cup {how}] ELSE farm[f]]

-----------------------------------------------------------------------------
(* What is to be added *)

Item(cf, from, said) ==
    LET shape == Stored(from, said)
    IN  [from |-> from, said |-> said, cf |-> cf, hash |-> Hash(shape), shape |-> shape]
Feature(f) == Item(None, f.from, f.said)
Entry(e)   == Item(e.cf, "manual", e.said)
Features(batch) == [i \in DOMAIN batch |-> Feature(batch[i])]

\* what the work keeps: the items still to be added, the geofences found, the
\* places found or added, what is to be changed (the new geofence of the one at
\* hand), created and linked
NewWork(kind, r, todo) ==
    [at |-> "look", kind |-> kind, report |-> r, todo |-> todo, rest |-> <<>>,
     matched |-> {}, changes |-> {}, moved |-> None, mine |-> <<>>, payload |-> {}, places |-> {},
     links |-> <<>>, partner |-> FALSE, raced |-> FALSE, entries |-> UNION {ToSet(todo[b]) : b \in DOMAIN todo}]

\* what has ended keeps only what it has added to which report
Goes(h, w) ==
    work' = [work EXCEPT ![h] = IF w.at # "done" THEN w
                                ELSE [at |-> "done", report |-> w.report, entries |-> w.entries]]

Starts(h, w) ==
    /\ ~Busy(h)
    /\ left.tasks > 0 /\ left' = [left EXCEPT !.tasks = @ - 1]
    /\ Cardinality({g \in Slots : Busy(g)}) < left.together
    /\ work' = [g \in Slots |->
                  IF g = h THEN [w EXCEPT !.raced = \E k \in Slots \ {h} : Busy(k)]
                  ELSE IF Busy(g) THEN [work[g] EXCEPT !.raced = TRUE] ELSE work[g]]
    /\ UNCHANGED rows

\* A job of batches, which the features of the files were cut into.
StartImport(h, r, file) ==
    Starts(h, NewWork("import", r, [b \in DOMAIN file |-> Features(file[b])]))

\* createProductionPlace() for entries of a user or of a partner application.
StartRequest(h, r, q) ==
    Starts(h, [NewWork("request", r, <<[i \in DOMAIN q.entries |-> Entry(q.entries[i])]>>) EXCEPT !.partner = q.partner])

\* The same for places the organization has.
StartExisting(h, r, P) ==
    Starts(h, [NewWork("existing", r, <<>>) EXCEPT !.at = "attach", !.places = P])

Batch(h)     == IF work[h].todo = <<>> THEN <<>> ELSE Head(work[h].todo)
HashesIn(b)  == {b[i].hash : i \in DOMAIN b}

-----------------------------------------------------------------------------
(* Looking for what is known *)

\* Whether a farm is deleted, a geofence superseded or its place removed is not
\* asked.
Look(h) ==
    LET b     == Batch(h)
        found == {g \in DOMAIN fence : HashOf(g) \in HashesIn(b)}
        Known(x) == \E g \in found : HashOf(g) = x.hash
        rest  == Picked(b, {i \in DOMAIN b : ~Known(b[i])})
    IN  /\ work[h].at = "look" /\ work[h].kind = "import"
        /\ Goes(h, [work[h] EXCEPT
              !.at = IF rest = <<>> THEN "places" ELSE "farms",
              !.rest = rest, !.mine = <<>>, !.places = {},
              !.matched = {[id |-> g, hash |-> HashOf(g), farm |-> fence[g].farm] : g \in found}])
        /\ UNCHANGED <<rows, left>>

\* Entries with an id are looked for by it, the others by their hash.  Of the
\* geofences found the newest of each hash counts.
FarmsFound(b) ==
    LET Found(c) == {f \in DOMAIN farm : farm[f].cf = c}
        asked    == {b[i].cf : i \in DOMAIN b} \ {None}
    IN  {MinOf(Found(c)) : c \in {k \in asked : Found(k) # {}}}

FencesFound(b) ==
    LET hashes == {b[i].hash : i \in {k \in DOMAIN b : b[k].cf = None}}
    IN  {g \in DOMAIN fence : fence[g].farm \in FarmsFound(b) \/ HashOf(g) \in hashes}

Newest(G) == {g \in G : \A k \in G : HashOf(k) = HashOf(g) => k <= g}

\* The entry that is taken for a place: the last one whose id equals that of the
\* farm, and an entry without id "equals" a farm without one.
Named(b, f) == {i \in DOMAIN b : b[i].cf = farm[f].cf /\ \A k \in i + 1 .. Len(b) : b[k].cf # b[i].cf}

\* A place of which an entry says another geometry is going to be changed.
ChangesOf(b, G, P) ==
    LET FenceOf(p) == MaxOf({g \in G : fence[g].farm = Latest(p).farm})
        Change(p) == {[place |-> p, farm |-> Latest(p).farm, cf |-> b[i].cf, shape |-> b[i].shape, said |-> b[i].said] :
                         i \in {k \in Named(b, Latest(p).farm) : b[k].hash # HashOf(FenceOf(p))}}
    IN  UNION {Change(p) : p \in P}

LookRequest(h) ==
    LET b     == Batch(h)
        all   == FencesFound(b)
        G     == Newest(all)
        P     == PlacesOf({fence[g].farm : g \in G})
        Known(x) == /\ x.cf # None
                    /\ \/ \E f \in FarmsFound(b) : farm[f].cf = x.cf /\ \E g \in all : fence[g].farm = f
                       \/ \E g \in G : HashOf(g) = x.hash
        rest    == Picked(b, {i \in DOMAIN b : ~Known(b[i])})
        changes == ChangesOf(b, G, P)
    IN  /\ work[h].at = "look" /\ work[h].kind = "request"
        /\ Goes(h, [work[h] EXCEPT
              !.at = IF changes # {} THEN "change" ELSE IF rest # <<>> THEN "farms" ELSE "create",
              !.rest = rest, !.changes = changes, !.places = P,
              !.matched = {[id |-> g, hash |-> HashOf(g), farm |-> fence[g].farm] : g \in G},
              !.payload = {g \in G : \A p \in P : place[p].farm # fence[g].farm}])
        /\ UNCHANGED <<rows, left>>

-----------------------------------------------------------------------------
(* Changing the places that are known, one after the other *)

Current(w) == CHOOSE c \in w.changes : \A d \in w.changes : c.place <= d.place

NewFence(f, shape) == [farm |-> f, shape |-> shape, hash |-> Hash(shape), primary |-> TRUE]

\* The new geometry is written beside the old one, which stays a primary one.
ChangeFence(h) ==
    LET c == Current(work[h]) IN
    /\ work[h].at = "change"
    /\ fence' = Append(fence, NewFence(c.farm, c.shape))
    /\ Goes(h, [work[h] EXCEPT !.at = "move", !.moved = Len(fence) + 1])
    /\ farm' = Touched({c.farm}, "half")
    /\ UNCHANGED <<place, link, left>>

\* history: what the entry says of the farm, if it is about it
Told(f, c) ==
    IF c.cf = None THEN [f EXCEPT !.fate = @ \cup {"half", "crossed"}]
    ELSE [f EXCEPT !.said = c.said, !.from = "manual", !.fate = @ \cup {"half"}]

ChangePlace(h) ==
    LET c == Current(work[h]) IN
    /\ work[h].at = "move"
    /\ place' = [place EXCEPT ![c.place].latest = work[h].moved]
    /\ farm' = [farm EXCEPT ![c.farm] = Told(farm[c.farm], c)]
    /\ Goes(h, [work[h] EXCEPT !.at = "relink"])
    /\ UNCHANGED <<fence, link, left>>

\* Every link of the farm follows.
\* Mutated: only the first one.
RelinkedFirst(f, g) ==
    [n \in DOMAIN link |-> IF link[n].farm = f /\ \A k \in 1 .. n - 1 : link[k].farm # f
                           THEN [link[n] EXCEPT !.fence = g] ELSE link[n]]
Relinked(f, g) == [n \in DOMAIN link |-> IF link[n].farm = f THEN [link[n] EXCEPT !.fence = g] ELSE link[n]]

\* history: a change that was overtaken by another one leaves the links behind
Done(fate, latest) == (IF latest THEN fate \ {"half"} ELSE fate \cup {"half"}) \cup {"moved"}

Onward(w) == IF w.rest # <<>> THEN "farms" ELSE "create"

Relink(h) ==
    LET w == work[h]
        c == Current(w)
        v == [w EXCEPT !.changes = @ \ {c}, !.moved = None]
    IN  /\ w.at = "relink"
        /\ link' = Relinked(c.farm, w.moved)
        /\ Goes(h, [v EXCEPT !.at = IF v.changes # {} THEN "change" ELSE Onward(v)])
        /\ farm' = [farm EXCEPT ![c.farm].fate = Done(@, w.moved = place[c.place].latest)]
        /\ UNCHANGED <<fence, place, left>>

\* Before that, the request for a satellite report of the farm is dereferenced,
\* whether one was made or not.
RelinkThrows(h) ==
    /\ work[h].at = "relink"
    /\ Goes(h, Idle)
    /\ UNCHANGED <<rows, left>>

-----------------------------------------------------------------------------
(* Adding the farms that are not known *)

\* history: what the user said of a farm, and whether what is known may be added
\* once more
CreateFarms(h) ==
    LET w == work[h]
        NewFarm(x) == [cf |-> x.cf, deleted |-> FALSE, said |-> x.said, from |-> x.from, fate |-> {},
                       once |-> {}, ids |-> {x.cf},
                       again |-> \/ x.cf # None \/ w.raced
                                 \/ Cardinality({i \in DOMAIN w.rest : w.rest[i].hash = x.hash}) > 1
                                 \/ w.kind = "request" /\ x.hash \in {m.hash : m \in w.matched}]
    IN  /\ w.at = "farms"
        /\ farm' = farm \o [i \in DOMAIN w.rest |-> NewFarm(w.rest[i])]
        /\ Goes(h, [w EXCEPT !.at = "fences", !.mine = [i \in DOMAIN w.rest |-> Len(farm) + i]])
        /\ UNCHANGED <<fence, place, link, left>>

\* An import writes the geofences of its farms in one statement, a request one
\* after the other.
CreateFences(h) ==
    LET w     == work[h]
        first == MinOf({i \in DOMAIN w.mine : FencesOf(w.mine[i]) = {}})
        upto  == IF w.kind = "import" THEN Len(w.mine) ELSE first
    IN  /\ w.at = "fences"
        /\ fence' = fence \o [i \in 1 .. upto - first + 1 |-> NewFence(w.mine[first + i - 1], w.rest[first + i - 1].shape)]
        /\ Goes(h, [w EXCEPT !.at = IF upto < Len(w.mine) THEN "fences"
                                    ELSE IF w.kind = "import" THEN "sync" ELSE "create"])
        /\ UNCHANGED <<farm, place, link, left>>

\* The farms get their ids from the other application, if it answers.  The
\* answers are awaited but no error is looked at.
NewCf(f) == 100 + f
Sync(h) ==
    LET w == work[h] IN
    /\ w.at = "sync"
    /\ \E S \in {{}, ToSet(w.mine)} :
          farm' = [f \in DOMAIN farm |-> IF f \in S THEN [farm[f] EXCEPT !.cf = NewCf(f), !.ids = @ \cup {NewCf(f)}] ELSE farm[f]]
    /\ Goes(h, [w EXCEPT !.at = IF w.kind = "import" THEN "places" ELSE "done"])
    /\ UNCHANGED <<fence, place, link, left>>

-----------------------------------------------------------------------------
(* Adding the places *)

\* A geofence that is known gets a place if no farm with its hash has one.
ReadPlaces(h) ==
    LET w  == work[h]
        P  == PlacesOf({m.farm : m \in w.matched})
        FarmsLike(m) == {k.farm : k \in {n \in w.matched : n.hash = m.hash}}
    IN  /\ w.at = "places"
        /\ Goes(h, [w EXCEPT !.at = "create", !.places = P,
              !.payload = {m.id : m \in {k \in w.matched : PlacesOf(FarmsLike(k)) = {}}}])
        /\ UNCHANGED <<rows, left>>

NewPlace(w, f, g, known) == [farm |-> f, latest |-> g, left |-> known, raced |-> w.raced]
KnownPlaces(w) ==
    LET known == InOrder(w.payload)
    IN  [i \in DOMAIN known |-> NewPlace(w, fence[known[i]].farm, known[i], TRUE)]

\* Mutated: every farm gets the last geofence.
LastPlaces(w)  == [i \in DOMAIN w.mine |-> NewPlace(w, w.mine[i], Len(fence), FALSE)]
OwnPlaces(w)   == [i \in DOMAIN w.mine |-> NewPlace(w, w.mine[i], MinOf(FencesOf(w.mine[i])), FALSE)]

CreatePlaces(h) ==
    LET w   == work[h]
        new == IF w.kind = "import" THEN OwnPlaces(w) \o KnownPlaces(w) ELSE KnownPlaces(w) \o OwnPlaces(w)
    IN  /\ w.at = "create"
        /\ place' = place \o new
        /\ Goes(h, [w EXCEPT !.at = "attach",
                             !.places = @ \cup {Len(place) + i : i \in DOMAIN new}])
        /\ UNCHANGED <<farm, fence, link, left>>

\* attachProductionPlaceToDiligenceReport: of the places with one hash the last
\* is linked, if none of them is linked to the report.
Linked(h, P) == {n \in DOMAIN link : link[n].place \in P /\ link[n].report = work[h].report}

ReadLinks(h) ==
    LET w == work[h]
        Alike(p) == {q \in w.places : Latest(q).hash = Latest(p).hash}
        new == {p \in w.places : Linked(h, Alike(p)) = {} /\ p = MaxOf(Alike(p))}
    IN  /\ w.at = "attach"
        /\ Goes(h, [w EXCEPT !.at = "link", !.links = [p \in new |-> place[p].latest]])
        /\ UNCHANGED <<rows, left>>

\* Mutated: the last batch is left out.
FinishedEarly(w) ==
    IF w.kind = "import" THEN IF Len(w.todo) > 2 THEN "look" ELSE "done"
    ELSE IF w.kind = "request" /\ ~w.partner /\ w.mine # <<>> THEN "sync" ELSE "done"

Finished(w) ==
    CASE w.kind = "import"   -> IF Len(w.todo) > 1 THEN "look" ELSE "done"
      [] w.kind = "request"  -> IF w.partner \/ w.mine = <<>> THEN "done" ELSE "sync"
      [] w.kind = "existing" -> "done"

WriteLinks(h) ==
    LET w     == work[h]
        order == InOrder(DOMAIN w.links)
    IN  /\ w.at = "link"
        /\ link' = link \o [i \in DOMAIN order |->
                      [report |-> w.report, place |-> order[i], farm |-> place[order[i]].farm,
                       fence |-> w.links[order[i]], removed |-> FALSE, raced |-> w.raced]]
        /\ LET done == [w EXCEPT !.at = Finished(w), !.links = <<>>]
           IN  Goes(h, IF done.at = "look" THEN [done EXCEPT !.todo = Tail(@)] ELSE done)
        /\ UNCHANGED <<farm, fence, place, left>>

\* A query fails, in the assessments and warnings that follow the links too: an
\* import is marked as failed and is not taken again, a request answers an error.
\* The report is ready to proceed all the same.
Fails(h) ==
    /\ Busy(h)
    /\ Event
    /\ Goes(h, Idle)
    /\ UNCHANGED rows

-----------------------------------------------------------------------------
(* What users do with the places of a report *)

\* history: whether a request is about to move the place to the geofence
MovedTo(g) == \E h \in Slots : work[h].at = "move" /\ work[h].moved = g

\* history: what the user says of the farm, where it lay that no geofence keeps
Edited(f, shape, gone, mixed) ==
    [f EXCEPT !.said = shape, !.from = "manual", !.once = @ \cup gone,
              !.fate = @ \cup {"edited"} \cup {x \in {"mixed"} : mixed}]

\* A point gets a new geofence, a polygon is written into the first one.
EditPlace(n, shape) ==
    LET l == link[n]
        g == MinOf({k \in FencesOf(l.farm) : fence[k].primary})
        here == IF shape.kind = "point" /\ HashOf(g) # Hash(shape) THEN Len(fence) + 1 ELSE g
    IN  /\ Event
        /\ fence' = IF here = g THEN [fence EXCEPT ![g].shape = shape, ![g].hash = Hash(shape)]
                    ELSE Append([fence EXCEPT ![g].primary = FALSE], NewFence(l.farm, shape))
        /\ link' = [link EXCEPT ![n].fence = here]
        /\ place' = [place EXCEPT ![l.place].latest = here]
        /\ farm' = [farm EXCEPT ![l.farm] = Edited(@, shape, IF here = g THEN {HashOf(g)} ELSE {}, MovedTo(here))]
        /\ UNCHANGED work

\* removeFarms, from one report or from all that have the place
LinksLike(n) == {{n}, {m \in DOMAIN link : link[m].place = link[n].place}}

RemoveLinks(L) ==
    /\ Event
    /\ link' = [n \in DOMAIN link |-> IF n \in L THEN [link[n] EXCEPT !.removed = TRUE] ELSE link[n]]
    /\ UNCHANGED <<farm, fence, place, work>>

RestoreLink(n) ==
    /\ link[n].removed
    /\ link' = [link EXCEPT ![n].removed = FALSE]
    /\ UNCHANGED <<farm, fence, place, work, left>>

DeleteFarm(f) ==
    /\ Event
    /\ farm' = [farm EXCEPT ![f].deleted = TRUE]
    /\ UNCHANGED <<fence, place, link, work>>

-----------------------------------------------------------------------------

Step(h) ==
    \/ Look(h) \/ LookRequest(h) \/ ChangeFence(h) \/ ChangePlace(h) \/ Relink(h) \/ RelinkThrows(h)
    \/ CreateFarms(h) \/ CreateFences(h) \/ Sync(h)
    \/ ReadPlaces(h) \/ CreatePlaces(h) \/ ReadLinks(h) \/ WriteLinks(h)

Start(h) ==
    \E r \in left.reports :
       \/ \E file \in Files : StartImport(h, r, file)
       \/ \E q \in Requests : StartRequest(h, r, q)
       \/ \E p \in DOMAIN place : StartExisting(h, r, {p})

Next ==
    \/ \E h \in Slots : Step(h) \/ Start(h) \/ Fails(h)
    \/ \E n \in DOMAIN link : RestoreLink(n) \/ (\E L \in LinksLike(n) : RemoveLinks(L)) \/ \E s \in Shapes : EditPlace(n, s)
    \/ \E f \in DOMAIN farm : DeleteFarm(f)

Spec == Init /\ [][Next]_vars

-----------------------------------------------------------------------------
(* Properties *)

Stages == {"idle", "look", "change", "move", "relink", "farms", "fences", "sync", "places",
           "create", "attach", "link", "done"}

\* Rows refer to rows that exist: a place to a geofence of its own farm, a link
\* to a place and a geofence of its farm.
TypeOK ==
    /\ \A h \in Slots : work[h].at \in Stages
    /\ \A g \in DOMAIN fence : fence[g].farm \in DOMAIN farm
    /\ \A p \in DOMAIN place :
          /\ place[p].farm \in DOMAIN farm /\ place[p].latest \in DOMAIN fence
          /\ Latest(p).farm = place[p].farm
    /\ \A n \in DOMAIN link :
          /\ link[n].report \in Reports
          /\ link[n].place \in DOMAIN place /\ place[link[n].place].farm = link[n].farm
          /\ link[n].fence \in DOMAIN fence /\ fence[link[n].fence].farm = link[n].farm

Shown(n)   == ~link[n].removed /\ ~farm[link[n].farm].deleted
LinksIn(r) == {n \in DOMAIN link : link[n].report = r}

\* where a farm lies or once lay
Lain(f)        == {HashOf(g) : g \in FencesOf(f)} \cup farm[f].once
LayThere(f, x) == x.hash \in Lain(f)

\* the farms that had the id of an entry
HadId(x) == {f \in DOMAIN farm : x.cf # None /\ x.cf \in farm[f].ids}

\* An import or a request that has ended with success shows everything it was
\* given in its report, at the place it was given, what failed before it and
\* whoever works beside it; but for
\*  - what the users removed or deleted,
\*  - places that have been changed since they lay there: a file that is imported
\*    again is recognised by where a place once lay, and neither brings back what
\*    was removed nor undoes the change,
\*  - an entry with the id of a farm that was left without a place, by a request
\*    that failed or is still at work: it gets the place its geofence lies at,
\*    whatever the entry says,
\*  - an entry with the id of a farm that lay where another one lies: of two
\*    geofences with one hash only the newest is looked at,
\*  - entries of one request with one id and several geometries: the last counts.
AddedIsShown ==
    \A h \in Slots : work[h].at = "done" => \A x \in work[h].entries :
       \/ \E n \in LinksIn(work[h].report) : Shown(n) /\ HashOf(link[n].fence) = x.hash
       \/ \E n \in LinksIn(work[h].report) : ~Shown(n) /\ LayThere(link[n].farm, x)
       \/ \E f \in DOMAIN farm : farm[f].fate # {} /\ LayThere(f, x)
       \/ \E p \in DOMAIN place : place[p].left /\ place[p].farm \in HadId(x)
       \/ \E f \in HadId(x) : \E k \in DOMAIN farm \ {f} : Lain(f) \cap Lain(k) # {}
       \/ x.cf # None /\ \E y \in work[h].entries : y.cf = x.cf /\ y.hash # x.hash

\* A report shows no ground twice, unless
\*  - two descriptions of it go round it in opposite directions,
\*  - one of them passes a corner twice, or has a single one,
\*  - one of them was read with the coordinates exchanged,
\*  - two imports or requests were at work at once when it was added, got its
\*    place or was linked,
\*  - a batch told it twice or an entry without id repeated it: such a farm is
\*    added again and its place not linked, but the place may be chosen later,
\*    and of the third one the first is not found any more,
\*  - an entry with an id told it: only the id is looked for,
\*  - one of the two places was changed.
Misread(f) ==
    \/ farm[f].from = "cell" /\ farm[f].said.kind = "polygon"
    \/ farm[f].from = "export" /\ farm[f].said.kind = "point"
Raced(n) == link[n].raced \/ place[link[n].place].raced

ShownOnce ==
    \A n \in DOMAIN link : \A m \in 1 .. n - 1 :
       LET a == farm[link[m].farm]
           b == farm[link[n].farm]
       IN  link[m].report = link[n].report /\ Shown(m) /\ Shown(n) /\ SameGround(a.said, b.said) =>
              \/ ~SameWay(a.said, b.said)
              \/ ~Simple(a.said) \/ ~Simple(b.said)
              \/ Misread(link[m].farm) # Misread(link[n].farm)
              \/ Raced(m) \/ Raced(n)
              \/ a.again \/ b.again
              \/ a.fate # {} \/ b.fate # {}

\* the places of a farm that got several from two at work at once
Twins(p) == {q \in PlacesOf({place[p].farm}) \ {p} : place[p].raced \/ place[q].raced}

\* A place lies where the user last said it does, unless it was read with the
\* coordinates exchanged, an entry without id was taken for it, a user wrote over
\* the geofence that a request was moving it to, or it has a twin; and every
\* report that shows it shows it there, unless the change was cut short, made in
\* another report or beside the work that linked it, or again it has a twin.
PlaceTrue ==
    \A p \in DOMAIN place : LET f == place[p].farm IN
       \/ SameWay(Latest(p).shape, farm[f].said)
       \/ Misread(f)
       \/ farm[f].fate \cap {"crossed", "mixed"} # {}
       \/ Twins(p) # {}
LinkTrue ==
    \A n \in DOMAIN link :
       \/ link[n].fence = place[link[n].place].latest
       \/ farm[link[n].farm].fate \cap {"half", "edited"} # {}
       \/ link[n].raced
       \/ Twins(link[n].place) # {}
GroundTrue == PlaceTrue /\ LinkTrue
====
