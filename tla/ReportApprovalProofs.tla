-------------------------- MODULE ReportApprovalProofs --------------------------
(***************************************************************************)
(* Proofs about ReportApproval, for any reports, infos, places and slots   *)
(* and any bounds.                                                         *)
(***************************************************************************)
EXTENDS ReportApproval, TLAPS

-----------------------------------------------------------------------------
(* The inductive invariant: what a slot looks like *)

\* The report whose places slot k is mitigating.
Mitigating(k, r) ==
    op[k].at = "mitigate" /\ r \in Held(k) /\ (op[k].kind = "approve" \/ r \in op[k].todo)

\* What each kind of operation can hold at each of its points.
Shaped(k) ==
    /\ op[k].kind = "idle" => Held(k) = {} /\ op[k].todo = {}
    /\ op[k].kind = "approve" =>
          /\ op[k].at \in {"load", "places", "mitigate", "save"}
          /\ op[k].at = "load" => Held(k) = {}
          /\ op[k].at # "load" => \E r \in Reports : Held(k) = {r}
          /\ op[k].at \in {"places", "mitigate"} => op[k].temp
          /\ op[k].at = "save" => ~op[k].temp
    /\ op[k].kind = "shipment" =>
          /\ op[k].at \in {"load", "next", "mitigate"}
          /\ op[k].at = "load" => Held(k) = {}
          /\ op[k].at # "load" => op[k].temp
          /\ op[k].at = "mitigate" => \E r \in Held(k) : op[k].todo = {r}
    /\ op[k].kind \in {"assign", "reject"} => op[k].at = "load"
    /\ op[k].kind \in {"overdue", "overdueCron"} =>
          op[k].at = "write" /\ \A r \in Held(k) : op[k].rows[r].legend \in {"overdue", "pending"}
    /\ op[k].kind = "expire" => op[k].at = "next" /\ op[k].todo \subseteq Held(k)
    /\ op[k].at = "mitigate" => op[k].kind \in {"approve", "shipment"}
    /\ k \in Crons => op[k].kind \in {"idle", "expire"}
    /\ k \in Requests => op[k].kind # "expire"

\* The infos a slot is about to write are those of the report it is at, each once.
Aimed(k) ==
    /\ op[k].seen # {} => op[k].at = "mitigate" \/ op[k].kind = "expire"
    /\ \A s \in op[k].seen : \A r \in Reports : Mitigating(k, r) => s[1] \in Places[r]
    /\ \A s \in op[k].seen : op[k].kind = "expire" =>
          \E r \in Held(k) \ op[k].todo : s[1] \in Places[r]
    /\ \A s, t \in op[k].seen : s[1] = t[1] => s = t

Sound == TypeOK /\ \A k \in Slots : Shaped(k) /\ Aimed(k)

-----------------------------------------------------------------------------
(* The inductive invariant: what a slot knows *)

\* What the rows slot k has loaded of report r still say of it.
Knows(k, r) ==
    /\ op[k].kind \in {"approve", "assign", "reject"} =>
          op[k].rows[r].legend = report[r].legend /\ op[k].rows[r].temp = report[r].temp
    /\ op[k].kind = "shipment" => Temporary(r) /\ report[r].expiry = "running"
    /\ op[k].kind \in {"overdue", "overdueCron"} => report[r].legend \notin {"approved", "rejected"}
    /\ op[k].kind = "expire" => Temporary(r) /\ report[r].expiry = "past"

RowsKnown == \A k \in Slots : \A r \in Held(k) \ crossed : Knows(k, r)

\* What nobody crossed, the cron can find.
Findable ==
    \A r \in Reports \ crossed : Temporary(r) => report[r].temp /\ report[r].expiry # "none"

Informed == Findable /\ RowsKnown

-----------------------------------------------------------------------------
(* The inductive invariant: the flag of a temporary approval *)

\* The flag goes with the legend of the last decision, the date with the flag.
Fine(row) ==
    /\ row.legend = "temporary_approved" => row.temp
    /\ row.legend \in {"approved", "rejected", "pending_approval"} => ~row.temp
    /\ row.temp => row.expiry # "none"

\* So it is in the reports and in the rows that will be saved, and the flag loaded
\* is the one in the column.
Flagged ==
    \A r \in Reports \ toggled :
        /\ Fine(report[r])
        /\ \A k \in Slots : op[k].kind \in Savers /\ r \in Held(k) =>
              Fine(op[k].rows[r]) /\ op[k].rows[r].temp = report[r].temp

-----------------------------------------------------------------------------
(* The inductive invariant: what a place keeps of its status *)

\* An info without deforestation is not touched, and nothing makes one.
ZeroUntouched ==
    /\ \A i \in Infos : info[i].original # Zero
    /\ \A i \in Infos : info[i].status = Zero => info[i].original = Null
    /\ \A k \in Slots : \A s \in op[k].seen : s[2] # Zero /\ info[s[1]].status # Zero

\* The status of an info that was not overlaid is in its column or, while a
\* mitigation stands, beside it, and so it is in the hands of the operations.
Kept(i) ==
    /\ info[i].original = Null => info[i].status = truth[i]
    /\ info[i].original # Null => info[i].original = truth[i]
    /\ \A k \in Slots : \A s \in op[k].seen : s[1] = i => s[2] = truth[i]

AllKept == \A i \in Infos \ overlaid : truth[i] # Null => Kept(i)

-----------------------------------------------------------------------------
(* The inductive invariant: who stands behind a mitigation *)

\* Report r answers for the mitigation of info i: the cron has yet to come to it,
\* or to revert the info.
Answers(r, i) ==
    \/ r \in withdrawn \cup failed \cup crossed
    \/ \E k \in Requests : op[k].kind = "approve" /\ op[k].temp /\ r \in Held(k)
    \/ /\ Temporary(r)
       /\ \A k \in Crons : r \in Held(k) => r \in op[k].todo \/ i \in HeldInfos(k)

Explained ==
    \A i \in Infos : info[i].original # Null => \E r \in Reports : i \in Places[r] /\ Answers(r, i)

-----------------------------------------------------------------------------
(* The inductive invariant: how many mitigations lie over an info *)

Excused(i) == i \in overtaken \/ \E t \in unlaid \cup rerun : i \in Places[t]

Shipped(r) == \E k \in Requests : op[k].kind = "shipment" /\ r \in Held(k)
Taken(r)   == \E k \in Crons : r \in Held(k)

\* What covers info i: a temporary approval that runs; one that is over, until the
\* cron has read the places of its report; an operation that has mitigated i (or
\* passed it over) for a report it will approve.
Granted(r, i)  == i \in Places[r] /\ Temporary(r) /\ report[r].expiry = "running" /\ ~Shipped(r)
Expiring(r, i) ==
    /\ i \in Places[r]
    /\ \/ Temporary(r) /\ report[r].expiry = "past" /\ ~Taken(r)
       \/ \E k \in Crons : r \in op[k].todo
OpCovers(k, i) == i \notin HeldInfos(k) /\ \E r \in Reports : Mitigating(k, r) /\ i \in Places[r]

Covers(i) ==
    {<<"granted", r>> : r \in {x \in Reports : Granted(x, i)}}
       \cup {<<"expiring", r>> : r \in {x \in Reports : Expiring(x, i)}}
       \cup {<<"slot", k>> : k \in {x \in Slots : OpCovers(x, i)}}

Bare(i)   == Covers(i) = {}
Single(i) == \A c, d \in Covers(i) : c = d

\* An info that shows deforestation is not covered; one that is to show it again
\* is covered once at most, by the report or the operation that will uncover it.
Layered(i) ==
    /\ info[i].status \notin {Zero, Mitigated} => Bare(i)
    /\ info[i].original \notin {Zero, Mitigated, Null} => Single(i)
    /\ \A k \in Slots : \A s \in op[k].seen :
          s[1] = i /\ s[2] \notin {Zero, Mitigated} => Bare(i)

\* Two runs of the cron hold no report but those taken up twice.
TakenOnce ==
    \A k, l \in Crons : \A r \in Held(k) \cap Held(l) : k = l \/ r \in rerun

AllLayered == TakenOnce /\ \A i \in Infos : Excused(i) \/ Layered(i)

-----------------------------------------------------------------------------
(* Slots and their operations *)

LEMMA Table ==
    ASSUME NEW R \in SUBSET Reports, NEW f \in [R -> Row]
    PROVE  f \in Tables /\ DOMAIN f = R
  BY DEF Tables

LEMMA EmptyTable == <<>> \in Tables /\ DOMAIN <<>> = {}
<1>1. <<>> \in [{} -> Row] /\ {} \in SUBSET Reports
  OBVIOUS
<1>2. QED
  BY <1>1, Table

LEMMA Fields ==
    ASSUME TypeOK, NEW k \in Slots
    PROVE  /\ op[k] \in Operation
           /\ op[k].kind \in AllKinds \cup {"idle", "expire"}
           /\ op[k].at \in {"idle", "load", "places", "next", "mitigate", "save", "write"}
           /\ op[k].temp \in BOOLEAN /\ op[k].todo \subseteq Reports
           /\ Held(k) \subseteq Reports /\ \A r \in Held(k) : op[k].rows[r] \in Row
           /\ op[k].rows \in Tables
           /\ op[k].seen \subseteq Infos \X DeforestationStatus
<1>1. op[k] \in Operation
  BY DEF TypeOK
<1>2. op[k].rows \in Tables
  BY <1>1 DEF Operation
<1>3. Held(k) \subseteq Reports /\ \A r \in Held(k) : op[k].rows[r] \in Row
  BY <1>2 DEF Tables, Held
<1>4. QED
  BY <1>1, <1>2, <1>3 DEF Operation

\* Only slot k goes on.
Others(k) == \A l \in Slots \ {k} : op'[l] = op[l]

\* Slot k goes on to an operation of these fields.
Turns(k, kind, at, temp, todo, H, S) ==
    /\ op' \in [Slots -> Operation] /\ Others(k)
    /\ op'[k].kind = kind /\ op'[k].at = at /\ op'[k].temp = temp
    /\ op'[k].todo = todo /\ Held(k)' = H /\ op'[k].seen = S

Stops(k) == Turns(k, "idle", "idle", FALSE, {}, {}, {})

LEMMA Advances ==
    ASSUME TypeOK, NEW k \in Slots, NEW o \in Operation, Advance(k, o)
    PROVE  /\ Turns(k, o.kind, o.at, o.temp, o.todo, DOMAIN o.rows, o.seen)
           /\ op'[k].rows = o.rows
<1>1. op' \in [Slots -> Operation] /\ op'[k] = o /\ Others(k)
  BY DEF TypeOK, Advance, Others
<1>2. QED
  BY <1>1 DEF Turns, Held

LEMMA IdleOperation ==
    /\ Idle \in Operation /\ Idle.kind = "idle" /\ Idle.todo = {} /\ Idle.at = "idle"
    /\ Idle.temp = FALSE /\ DOMAIN Idle.rows = {} /\ Idle.seen = {} /\ Idle.rows \in Tables
<1>1. <<>> \in Tables
  BY EmptyTable
<1>2. Idle \in Operation
  BY <1>1 DEF Idle, Operation
<1>3. QED
  BY <1>1, <1>2, EmptyTable DEF Idle

LEMMA GoesIdle ==
    ASSUME TypeOK, NEW k \in Slots, Advance(k, Idle)
    PROVE  Stops(k)
  BY Advances, IdleOperation DEF Stops

LEMMA BeginSlot ==
    ASSUME TypeOK, NEW k \in Slots, NEW kind \in AllKinds, NEW R \in SUBSET Reports,
           NEW temp \in BOOLEAN, Begin(k, kind, R, temp)
    PROVE  Turns(k, kind, "load", temp, R, {}, {})
<1> DEFINE o == [Idle EXCEPT !.kind = kind, !.at = "load", !.temp = temp, !.todo = R]
<1>1. o \in Operation
  BY IdleOperation DEF Operation
<1>2. o.kind = kind /\ o.at = "load" /\ o.temp = temp /\ o.todo = R /\ o.rows = Idle.rows
      /\ o.seen = {}
  BY IdleOperation DEF Operation
<1>3. Advance(k, o)
  BY DEF Begin
<1> HIDE DEF o
<1>4. QED
  BY <1>1, <1>2, <1>3, Advances, IdleOperation

LEMMA LoadForDecisionSlot ==
    ASSUME TypeOK, NEW k \in Slots, NEW r \in Reports, LoadForDecision(k, r)
    PROVE  /\ Turns(k, op[k].kind, op[k].at, op[k].temp, op[k].todo \ {r}, Held(k) \cup {r}, op[k].seen)
           /\ \A x \in Held(k) \cup {r} :
                 op'[k].rows[x] = IF x = r THEN report[r] ELSE op[k].rows[x]
<1> DEFINE f == [x \in Held(k) \cup {r} |-> IF x = r THEN report[r] ELSE op[k].rows[x]]
           o == [op[k] EXCEPT !.todo = @ \ {r}, !.rows = f]
<1>1. f \in Tables /\ DOMAIN f = Held(k) \cup {r}
  <2>1. f \in [Held(k) \cup {r} -> Row] /\ Held(k) \cup {r} \subseteq Reports
    BY Fields DEF TypeOK
  <2>2. QED
    BY <2>1, Table
<1>2. Advance(k, o)
  BY DEF LoadForDecision
<1>3. \A x \in Held(k) \cup {r} : f[x] = IF x = r THEN report[r] ELSE op[k].rows[x]
  OBVIOUS
<1> HIDE DEF f
<1>4. /\ o \in Operation /\ o.kind = op[k].kind /\ o.at = op[k].at /\ o.temp = op[k].temp
      /\ o.todo = op[k].todo \ {r} /\ o.seen = op[k].seen /\ o.rows = f
  BY <1>1, Fields DEF Operation
<1> HIDE DEF o
<1>5. QED
  BY <1>1, <1>2, <1>3, <1>4, Advances

LEMMA LoadForApprovalSlot ==
    ASSUME TypeOK, NEW k \in Slots, NEW r \in Reports, LoadForApproval(k, r)
    PROVE  /\ Turns(k, "approve", IF op[k].temp THEN "places" ELSE "save", op[k].temp,
                    op[k].todo \ {r}, {r}, op[k].seen)
           /\ op'[k].rows[r] = report[r]
<1> DEFINE f == [x \in {r} |-> report[r]]
           at == IF op[k].temp THEN "places" ELSE "save"
           o == [op[k] EXCEPT !.at = at, !.todo = @ \ {r}, !.rows = f]
<1>1. f \in Tables /\ DOMAIN f = {r} /\ f[r] = report[r]
  <2>1. f \in [{r} -> Row] /\ {r} \subseteq Reports
    BY DEF TypeOK
  <2>2. QED
    BY <2>1, Table
<1>2. Advance(k, o) /\ op[k].kind = "approve"
  BY DEF LoadForApproval
<1>3. at \in {"places", "save"}
  OBVIOUS
<1> HIDE DEF f, at
<1>4. /\ o \in Operation /\ o.kind = op[k].kind /\ o.at = at /\ o.temp = op[k].temp
      /\ o.todo = op[k].todo \ {r} /\ o.seen = op[k].seen /\ o.rows = f
  BY <1>1, <1>3, Fields DEF Operation
<1> HIDE DEF o
<1>5. QED
  BY <1>1, <1>2, <1>4, Advances DEF at

LEMMA UpdateForShipmentSlot ==
    ASSUME TypeOK, NEW k \in Slots, UpdateForShipment(k)
    PROVE  \/ op[k].temp /\ Turns(k, "shipment", "next", op[k].temp, {}, op[k].todo, op[k].seen)
           \/ ~op[k].temp /\ Stops(k)
<1>1. CASE op[k].temp
  <2> DEFINE f == [r \in op[k].todo |-> report[r]]
             o == [op[k] EXCEPT !.at = "next", !.todo = {}, !.rows = f]
  <2>1. f \in Tables /\ DOMAIN f = op[k].todo
    <3>1. f \in [op[k].todo -> Row] /\ op[k].todo \subseteq Reports
      BY Fields DEF TypeOK
    <3>2. QED
      BY <3>1, Table
  <2>2. Advance(k, o) /\ op[k].kind = "shipment"
    BY <1>1 DEF UpdateForShipment
  <2> HIDE DEF f
  <2>3. /\ o \in Operation /\ o.kind = op[k].kind /\ o.at = "next" /\ o.temp = op[k].temp
        /\ o.todo = {} /\ o.seen = op[k].seen /\ o.rows = f
    BY <2>1, Fields DEF Operation
  <2> HIDE DEF o
  <2>4. QED
    BY <1>1, <2>1, <2>2, <2>3, Advances
<1>2. CASE ~op[k].temp
  BY <1>2, GoesIdle DEF UpdateForShipment
<1>3. QED
  BY <1>1, <1>2

\* What a query of the places finds.
LEMMA ToMitigateType ==
    ASSUME TypeOK, NEW r \in Reports
    PROVE  /\ ToMitigate(r) \in SUBSET (Infos \X DeforestationStatus)
           /\ \A s \in ToMitigate(r) : /\ s[1] \in Places[r] /\ s[1] \in Infos
                                       /\ s[2] = info[s[1]].status /\ s[2] # Zero
           /\ \A s, t \in ToMitigate(r) : s[1] = t[1] => s = t
           /\ \A i \in Places[r] : info[i].status = Zero \/ <<i, info[i].status>> \in ToMitigate(r)
<1>1. Places[r] \subseteq Infos
  BY ConstantsAssumption
<1>2. \A i \in Infos : info[i].status \in DeforestationStatus
  BY DEF TypeOK
<1>3. QED
  BY <1>1, <1>2 DEF ToMitigate

LEMMA ReadPlacesSlot ==
    ASSUME TypeOK, NEW k \in Slots, NEW r \in Reports, ReadPlaces(k, r)
    PROVE  Turns(k, op[k].kind, "mitigate", op[k].temp,
                 IF op[k].kind = "shipment" THEN {r} ELSE op[k].todo, Held(k), ToMitigate(r))
           /\ op'[k].rows = op[k].rows
<1> DEFINE todo == IF op[k].kind = "shipment" THEN {r} ELSE op[k].todo
           S == ToMitigate(r)
           o == [op[k] EXCEPT !.at = "mitigate", !.todo = todo, !.seen = S]
<1>1. todo \in SUBSET Reports /\ S \in SUBSET (Infos \X DeforestationStatus)
  BY Fields, ToMitigateType
<1>2. Advance(k, o)
  BY DEF ReadPlaces
<1> HIDE DEF todo, S
<1>3. /\ o \in Operation /\ o.kind = op[k].kind /\ o.at = "mitigate" /\ o.temp = op[k].temp
      /\ o.todo = todo /\ o.seen = S /\ o.rows = op[k].rows
  BY <1>1, Fields DEF Operation
<1> HIDE DEF o
<1>4. QED
  BY <1>2, <1>3, Advances DEF Held, todo, S

\* A status seen is dealt with.
LEMMA SeenSlot ==
    ASSUME TypeOK, NEW k \in Slots, NEW s, Advance(k, [op[k] EXCEPT !.seen = @ \ {s}])
    PROVE  /\ Turns(k, op[k].kind, op[k].at, op[k].temp, op[k].todo, Held(k), op[k].seen \ {s})
           /\ op'[k].rows = op[k].rows
<1> DEFINE o == [op[k] EXCEPT !.seen = @ \ {s}]
<1>1. /\ o \in Operation /\ o.kind = op[k].kind /\ o.at = op[k].at /\ o.temp = op[k].temp
      /\ o.todo = op[k].todo /\ o.seen = op[k].seen \ {s} /\ o.rows = op[k].rows
  BY Fields DEF Operation
<1> HIDE DEF o
<1>2. QED
  BY <1>1, Advances DEF Held, o

\* The rows but those of R are left.
LEMMA RowsLeft ==
    ASSUME TypeOK, NEW k \in Slots, NEW R
    PROVE  LET f == [x \in Held(k) \ R |-> op[k].rows[x]] IN
           /\ f \in Tables /\ DOMAIN f = Held(k) \ R
           /\ \A x \in Held(k) \ R : f[x] = op[k].rows[x]
<1> DEFINE f == [x \in Held(k) \ R |-> op[k].rows[x]]
<1>1. f \in [Held(k) \ R -> Row] /\ Held(k) \ R \subseteq Reports
  BY Fields
<1>2. QED
  BY <1>1, Table

LEMMA RemainingSlot ==
    ASSUME TypeOK, NEW k \in Slots, NEW r \in Reports, Advance(k, Remaining(k, r))
    PROVE  \/ Stops(k) /\ (op[k].kind = "approve" \/ Held(k) = {r})
           \/ /\ op[k].kind = "approve"
              /\ Turns(k, "approve", "load", op[k].temp, op[k].todo, {}, {})
           \/ /\ op[k].kind # "approve"
              /\ Turns(k, op[k].kind, "next", op[k].temp, {}, Held(k) \ {r}, {})
<1>1. CASE IF op[k].kind = "approve" THEN op[k].todo = {} ELSE Held(k) = {r}
  BY <1>1, GoesIdle DEF Remaining
<1>2. CASE op[k].kind = "approve" /\ op[k].todo # {}
  <2> DEFINE f == <<>>
             o == [op[k] EXCEPT !.at = "load", !.rows = f, !.seen = {}]
  <2>1. Advance(k, o)
    BY <1>2 DEF Remaining
  <2>2. f \in Tables /\ DOMAIN f = {}
    BY EmptyTable
  <2> HIDE DEF f
  <2>3. /\ o \in Operation /\ o.kind = op[k].kind /\ o.at = "load" /\ o.temp = op[k].temp
        /\ o.todo = op[k].todo /\ o.seen = {} /\ o.rows = f
    BY <2>2, Fields DEF Operation
  <2> HIDE DEF o
  <2>4. QED
    BY <1>2, <2>1, <2>2, <2>3, Advances
<1>3. CASE op[k].kind # "approve" /\ Held(k) # {r}
  <2> DEFINE f == [x \in Held(k) \ {r} |-> op[k].rows[x]]
             o == [op[k] EXCEPT !.at = "next", !.todo = {}, !.seen = {}, !.rows = f]
  <2>1. Advance(k, o)
    BY <1>3 DEF Remaining
  <2>2. f \in Tables /\ DOMAIN f = Held(k) \ {r}
    BY RowsLeft
  <2> HIDE DEF f
  <2>3. /\ o \in Operation /\ o.kind = op[k].kind /\ o.at = "next" /\ o.temp = op[k].temp
        /\ o.todo = {} /\ o.seen = {} /\ o.rows = f
    BY <2>2, Fields DEF Operation
  <2> HIDE DEF o
  <2>4. QED
    BY <1>3, <2>1, <2>2, <2>3, Advances
<1>4. QED
  BY <1>1, <1>2, <1>3

\* The reports the check has found, and their rows.
LEMMA ReadOverdueSlot ==
    ASSUME TypeOK, NEW k \in Slots, NEW kind \in AllKinds, NEW R \in SUBSET Reports,
           ReadOverdue(k, kind, R)
    PROVE  \E H \in SUBSET R :
              /\ Turns(k, kind, "write", FALSE, {}, H, {})
              /\ \A r \in H : /\ op'[k].rows[r].legend \in {"overdue", "pending"}
                              /\ report[r].legend \notin {"approved", "rejected"}
<1> DEFINE H == {r \in R : OverdueLegend(r) # report[r].legend \/ OverdueLegend(r) = "overdue"}
           f == [r \in H |-> [report[r] EXCEPT !.legend = OverdueLegend(r)]]
           o == [Idle EXCEPT !.kind = kind, !.at = "write", !.rows = f]
<1>1. ASSUME NEW r \in H
      PROVE  /\ [report[r] EXCEPT !.legend = OverdueLegend(r)] \in Row
             /\ OverdueLegend(r) \in {"overdue", "pending"}
             /\ report[r].legend \notin {"approved", "rejected"}
             /\ [report[r] EXCEPT !.legend = OverdueLegend(r)].legend = OverdueLegend(r)
  <2>1. report[r] \in Row /\ late[r] \in BOOLEAN
    BY DEF TypeOK
  <2>2. /\ OverdueLegend(r) \in {"overdue", "pending"}
        /\ report[r].legend \notin {"approved", "rejected"}
    <3>1. OverdueLegend(r) # report[r].legend \/ OverdueLegend(r) = "overdue"
      OBVIOUS
    <3>2. QED
      BY <3>1 DEF OverdueLegend
  <2>3. QED
    BY <2>1, <2>2 DEF Row, StatusLegends
<1>2. f \in Tables /\ DOMAIN f = H
  <2>1. f \in [H -> Row]
    BY <1>1
  <2>2. H \in SUBSET Reports
    OBVIOUS
  <2> HIDE DEF f, H
  <2>3. QED
    BY <2>1, <2>2, Table
<1>3. Advance(k, o)
  BY DEF ReadOverdue
<1>4. \A r \in H : f[r] = [report[r] EXCEPT !.legend = OverdueLegend(r)]
  OBVIOUS
<1>5. H \in SUBSET R
  OBVIOUS
<1> HIDE DEF f, H
<1>6. /\ o \in Operation /\ o.kind = kind /\ o.at = "write" /\ o.temp = FALSE
      /\ o.todo = {} /\ o.seen = {} /\ o.rows = f
  BY <1>2, IdleOperation DEF Operation
<1> HIDE DEF o
<1>7. Turns(k, kind, "write", FALSE, {}, H, {}) /\ op'[k].rows = f
  BY <1>2, <1>3, <1>6, Advances
<1>8. \A r \in H : op'[k].rows[r].legend \in {"overdue", "pending"}
  BY <1>1, <1>4, <1>7
<1>9. \A r \in H : report[r].legend \notin {"approved", "rejected"}
  BY <1>1
<1>10. QED
  BY <1>5, <1>7, <1>8, <1>9

\* The rows of R are dealt with.
LEMMA RowsSlot ==
    ASSUME TypeOK, NEW k \in Slots, NEW R,
           Advance(k, [op[k] EXCEPT !.rows = [x \in Held(k) \ R |-> @[x]]])
    PROVE  /\ Turns(k, op[k].kind, op[k].at, op[k].temp, op[k].todo, Held(k) \ R, op[k].seen)
           /\ \A x \in Held(k) \ R : op'[k].rows[x] = op[k].rows[x]
<1> DEFINE f == [x \in Held(k) \ R |-> op[k].rows[x]]
           o == [op[k] EXCEPT !.rows = f]
<1>1. /\ f \in Tables /\ DOMAIN f = Held(k) \ R
      /\ \A x \in Held(k) \ R : f[x] = op[k].rows[x]
  BY RowsLeft
<1>2. Advance(k, o)
  OBVIOUS
<1> HIDE DEF f
<1>3. /\ o \in Operation /\ o.kind = op[k].kind /\ o.at = op[k].at /\ o.temp = op[k].temp
      /\ o.todo = op[k].todo /\ o.seen = op[k].seen /\ o.rows = f
  BY <1>1, Fields DEF Operation
<1> HIDE DEF o
<1>4. QED
  BY <1>1, <1>2, <1>3, Advances

LEMMA FindExpiredSlot ==
    ASSUME TypeOK, NEW k \in Slots, FindExpired(k)
    PROVE  Turns(k, "expire", "next", FALSE, Expired, Expired, {})
<1> DEFINE f == [r \in Expired |-> report[r]]
           o == [Idle EXCEPT !.kind = "expire", !.at = "next", !.todo = Expired, !.rows = f]
<1>1. Expired \in SUBSET Reports
  BY DEF Expired
<1>2. f \in Tables /\ DOMAIN f = Expired
  <2>1. f \in [Expired -> Row]
    BY <1>1 DEF TypeOK
  <2>2. QED
    BY <1>1, <2>1, Table
<1>3. Advance(k, o)
  BY DEF FindExpired
<1> HIDE DEF f
<1>4. /\ o \in Operation /\ o.kind = "expire" /\ o.at = "next" /\ o.temp = FALSE
      /\ o.todo = Expired /\ o.seen = {} /\ o.rows = f
  BY <1>1, <1>2, IdleOperation DEF Operation
<1> HIDE DEF o
<1>5. QED
  BY <1>2, <1>3, <1>4, Advances

\* What the cron finds to revert for report r.
Originals(r) == {<<i, info[i].original>> : i \in {x \in Places[r] : info[x].original # Null}}

LEMMA FoundType ==
    ASSUME TypeOK, NEW r \in Reports
    PROVE  /\ Originals(r) \in SUBSET (Infos \X DeforestationStatus)
           /\ \A s \in Originals(r) : /\ s[1] \in Places[r] /\ s[1] \in Infos
                                  /\ s[2] = info[s[1]].original /\ s[2] # Null
           /\ \A s, t \in Originals(r) : s[1] = t[1] => s = t
           /\ \A i \in Places[r] : info[i].original = Null \/ <<i, info[i].original>> \in Originals(r)
<1>1. Places[r] \subseteq Infos
  BY ConstantsAssumption
<1>2. \A i \in Infos : info[i].original \in DeforestationStatus
  BY DEF TypeOK
<1>3. QED
  BY <1>1, <1>2 DEF Originals

LEMMA FindMitigatedSlot ==
    ASSUME TypeOK, NEW k \in Slots, NEW r \in Reports, FindMitigated(k, r)
    PROVE  /\ Turns(k, "expire", "next", op[k].temp, op[k].todo \ {r}, Held(k), Originals(r))
           /\ op'[k].rows = op[k].rows
<1> DEFINE S == Originals(r)
           o == [op[k] EXCEPT !.todo = @ \ {r}, !.seen = S]
<1>1. S \in SUBSET (Infos \X DeforestationStatus)
  BY FoundType
<1>2. Advance(k, o) /\ op[k].kind = "expire" /\ op[k].at = "next"
  BY DEF FindMitigated, Originals
<1> HIDE DEF S
<1>3. /\ o \in Operation /\ o.kind = op[k].kind /\ o.at = op[k].at /\ o.temp = op[k].temp
      /\ o.todo = op[k].todo \ {r} /\ o.seen = S /\ o.rows = op[k].rows
  BY <1>1, Fields DEF Operation
<1> HIDE DEF o
<1>4. QED
  BY <1>2, <1>3, Advances DEF Held, S

\* A report is passed over.
LEMMA TodoSlot ==
    ASSUME TypeOK, NEW k \in Slots, NEW r, Advance(k, [op[k] EXCEPT !.todo = @ \ {r}])
    PROVE  /\ Turns(k, op[k].kind, op[k].at, op[k].temp, op[k].todo \ {r}, Held(k), op[k].seen)
           /\ op'[k].rows = op[k].rows
<1> DEFINE o == [op[k] EXCEPT !.todo = @ \ {r}]
<1>1. /\ o \in Operation /\ o.kind = op[k].kind /\ o.at = op[k].at /\ o.temp = op[k].temp
      /\ o.todo = op[k].todo \ {r} /\ o.seen = op[k].seen /\ o.rows = op[k].rows
  BY Fields DEF Operation
<1> HIDE DEF o
<1>2. QED
  BY <1>1, Advances DEF Held, o

-----------------------------------------------------------------------------
(* Types and shapes *)

CrossedOK == crossed \subseteq Reports /\ toggled \subseteq Reports

RestOK ==
    /\ report \in [Reports -> Row]
    /\ info \in [Infos -> [status : DeforestationStatus, original : DeforestationStatus]]
    /\ late \in [Reports -> BOOLEAN]
    /\ truth \in [Infos -> DeforestationStatus]
    /\ overlaid \subseteq Infos /\ withdrawn \subseteq Reports
    /\ failed \subseteq Reports /\ unlaid \subseteq Reports
    /\ rerun \subseteq Reports /\ CrossedOK /\ overtaken \subseteq Infos

LEMMA StepSound ==
    ASSUME Sound, NEW k \in Slots, RestOK', op' \in [Slots -> Operation], Others(k),
           Shaped(k)', Aimed(k)'
    PROVE  Sound'
<1>1. TypeOK'
  BY DEF TypeOK, RestOK, CrossedOK
<1>2. ASSUME NEW l \in Slots
      PROVE  Shaped(l)' /\ Aimed(l)'
  <2>1. CASE l = k
    BY <2>1
  <2>2. CASE l # k
    <3>1. op'[l] = op[l] /\ Shaped(l) /\ Aimed(l)
      BY <2>2 DEF Others, Sound
    <3>2. Held(l)' = Held(l)
      BY <3>1 DEF Held
    <3>3. Shaped(l)'
      BY <3>1, <3>2 DEF Shaped
    <3>4. Aimed(l)'
      BY <3>1, <3>2 DEF Aimed, Mitigating
    <3>5. QED
      BY <3>3, <3>4
  <2>3. QED
    BY <2>1, <2>2
<1>3. QED
  BY <1>1, <1>2 DEF Sound

LEMMA StopsSound ==
    ASSUME Sound, NEW k \in Slots, RestOK', Stops(k)
    PROVE  Sound'
<1>1. Shaped(k)' /\ Aimed(k)'
  BY DEF Stops, Turns, Shaped, Aimed, Mitigating
<1>2. QED
  BY <1>1, StepSound DEF Stops, Turns

LEMMA SameSound ==
    ASSUME Sound, RestOK', UNCHANGED op
    PROVE  Sound'
<1>1. TypeOK'
  BY DEF TypeOK, RestOK, CrossedOK, Sound
<1>2. ASSUME NEW l \in Slots
      PROVE  Shaped(l)' /\ Aimed(l)'
  <2>1. Shaped(l) /\ Aimed(l)
    BY DEF Sound
  <2>2. QED
    BY <2>1 DEF Shaped, Aimed, Mitigating, Held
<1>3. QED
  BY <1>1, <1>2 DEF Sound

\* Crossed are, besides those that were, what other slots hold of what is written.
LEMMA CrossesWhat ==
    ASSUME Sound, NEW k, NEW R \in SUBSET Reports, Crosses(k, R)
    PROVE  /\ crossed \subseteq crossed' /\ CrossedOK'
           /\ \A r \in R, l \in Slots \ {k} : r \in Held(l) => r \in crossed'
<1>1. crossed \subseteq Reports /\ toggled \subseteq Reports
  BY DEF Sound, TypeOK
<1>2. QED
  BY <1>1 DEF Crosses, CrossedOK

LEMMA OvertakesWhat ==
    ASSUME Sound, NEW k, NEW I \in SUBSET Infos, Overtakes(k, I)
    PROVE  /\ overtaken \subseteq overtaken' /\ overtaken' \subseteq Infos
           /\ \A l \in Slots \ {k} : \A s \in op[l].seen :
                 s[1] \in I /\ s[2] # Mitigated => s[1] \in overtaken'
<1>1. overtaken \subseteq Infos
  BY DEF Sound, TypeOK
<1>2. QED
  BY <1>1 DEF Overtakes

LEMMA WithdrawsWhat ==
    ASSUME Sound, NEW R \in SUBSET Reports, NEW legend, Withdraws(R, legend)
    PROVE  /\ withdrawn' \subseteq Reports
           /\ legend # "temporary_approved" =>
                 withdrawn \subseteq withdrawn' /\ \A r \in R : Temporary(r) => r \in withdrawn'
           /\ withdrawn \ R \subseteq withdrawn'
<1>1. withdrawn \subseteq Reports
  BY DEF Sound, TypeOK
<1>2. QED
  BY <1>1 DEF Withdraws

\* The rows the operations write.
LEMMA DecisionRow ==
    ASSUME NEW kind \in AllKinds, NEW temp \in BOOLEAN
    PROVE  /\ Decision(kind, temp) \in Row
           /\ kind = "assign" => Decision(kind, temp).legend = "pending_approval"
           /\ kind = "reject" => Decision(kind, temp).legend = "rejected"
           /\ kind \notin {"assign", "reject"} =>
                 /\ Decision(kind, temp).legend = IF temp THEN "temporary_approved" ELSE "approved"
                 /\ Decision(kind, temp).temp = temp
                 /\ Decision(kind, temp).expiry = "running"
<1>1. CASE kind = "assign"
  BY <1>1 DEF Decision, Row, StatusLegends
<1>2. CASE kind = "reject"
  BY <1>2 DEF Decision, Row, StatusLegends
<1>3. CASE kind \notin {"assign", "reject"}
  BY <1>3 DEF Decision, Row, StatusLegends
<1>4. QED
  BY <1>1, <1>2, <1>3

LEMMA SavedRow ==
    ASSUME Sound, NEW r \in Reports, NEW row \in Row, NEW d \in Row
    PROVE  /\ Saved(r, row, d) \in Row
           /\ Saved(r, row, d).legend \in {d.legend, report[r].legend}
           /\ row.legend = report[r].legend => Saved(r, row, d).legend = d.legend
           /\ row.temp = report[r].temp => Saved(r, row, d).temp = d.temp
           /\ d.legend = "temporary_approved" => Saved(r, row, d).expiry = "running"
           /\ d.legend = "approved" => Saved(r, row, d).expiry = report[r].expiry
           /\ d.legend \notin {"approved", "temporary_approved"} =>
                 Saved(r, row, d).expiry \in {"none", report[r].expiry}
<1>1. report[r] \in Row
  BY DEF Sound, TypeOK
<1>2. /\ Saved(r, row, d).legend = IF d.legend # row.legend THEN d.legend ELSE report[r].legend
      /\ Saved(r, row, d).temp = IF d.temp # row.temp THEN d.temp ELSE report[r].temp
  BY DEF Saved
<1>3. /\ d.legend = "temporary_approved" => Saved(r, row, d).expiry = "running"
      /\ d.legend = "approved" => Saved(r, row, d).expiry = report[r].expiry
      /\ d.legend \notin {"approved", "temporary_approved"} =>
            Saved(r, row, d).expiry \in {"none", report[r].expiry}
      /\ Saved(r, row, d).expiry \in {"none", "running", "past"}
  <2>1. CASE d.legend = "approved"
    BY <1>1, <2>1 DEF Saved, Row
  <2>2. CASE d.legend = "temporary_approved"
    BY <2>2 DEF Saved
  <2>3. CASE d.legend \notin {"approved", "temporary_approved"}
    BY <1>1, <2>3 DEF Saved, Row
  <2>4. QED
    BY <2>1, <2>2, <2>3
<1>4. Saved(r, row, d) \in Row
  <2>1. Saved(r, row, d) = [legend |-> Saved(r, row, d).legend, temp |-> Saved(r, row, d).temp,
                            expiry |-> Saved(r, row, d).expiry]
    BY DEF Saved
  <2>2. d.legend \in StatusLegends /\ d.temp \in BOOLEAN /\ report[r].legend \in StatusLegends
        /\ report[r].temp \in BOOLEAN
    BY <1>1 DEF Row
  <2>3. Saved(r, row, d).legend \in StatusLegends /\ Saved(r, row, d).temp \in BOOLEAN
    BY <1>2, <2>2
  <2>4. QED
    BY <1>3, <2>1, <2>3 DEF Row
<1>5. QED
  BY <1>2, <1>3, <1>4

LEMMA OverwrittenRow ==
    ASSUME Sound, NEW r \in Reports, NEW d \in Row
    PROVE  /\ Overwritten(r, d) \in Row
           /\ Overwritten(r, d).legend = d.legend /\ Overwritten(r, d).temp = d.temp
           /\ d.legend # "approved" => Overwritten(r, d).expiry = d.expiry
<1>1. report[r] \in Row
  BY DEF Sound, TypeOK
<1>2. QED
  BY <1>1 DEF Overwritten, Row

-----------------------------------------------------------------------------
(* Types and shapes: each step *)

LEMMA SlotSound ==
    ASSUME Sound, NEW k \in Slots
    PROVE  TypeOK /\ Shaped(k) /\ Aimed(k) /\ Held(k) \subseteq Reports /\ op[k].todo \subseteq Reports
           /\ HeldInfos(k) \subseteq Infos /\ RestOK
<1>1. TypeOK /\ Shaped(k) /\ Aimed(k)
  BY DEF Sound
<1>2. Held(k) \subseteq Reports /\ op[k].todo \subseteq Reports
      /\ op[k].seen \subseteq Infos \X DeforestationStatus
  BY <1>1, Fields
<1>3. HeldInfos(k) \subseteq Infos
  BY <1>2 DEF HeldInfos
<1>4. QED
  BY <1>1, <1>2, <1>3 DEF RestOK, CrossedOK, TypeOK

LEMMA BeginSound ==
    ASSUME Sound, NEW k \in Requests, NEW kind \in AllKinds, NEW R \in SUBSET Reports,
           NEW temp \in BOOLEAN, Begin(k, kind, R, temp)
    PROVE  Sound'
<1>1. k \in Slots /\ k \notin Crons
  BY ConstantsAssumption DEF Slots
<1>2. Turns(k, kind, "load", temp, R, {}, {}) /\ kind \notin {"overdue", "overdueCron", "idle", "expire"}
  BY <1>1, BeginSlot, SlotSound DEF Begin, AllKinds
<1>3. Shaped(k)' /\ Aimed(k)'
  BY <1>1, <1>2 DEF Turns, Shaped, Aimed
<1>4. RestOK'
  BY <1>1, SlotSound DEF Begin, RestOK, CrossedOK, history
<1>5. QED
  BY <1>1, <1>2, <1>3, <1>4, StepSound DEF Turns

LEMMA LoadForDecisionSound ==
    ASSUME Sound, NEW k \in Requests, NEW r \in Reports, LoadForDecision(k, r)
    PROVE  Sound'
<1>1. k \in Slots /\ k \notin Crons /\ Shaped(k) /\ Aimed(k) /\ RestOK
  BY ConstantsAssumption, SlotSound DEF Slots
<1>2. Turns(k, op[k].kind, op[k].at, op[k].temp, op[k].todo \ {r}, Held(k) \cup {r}, op[k].seen)
  BY <1>1, LoadForDecisionSlot, SlotSound
<1>3. op[k].kind \in {"assign", "reject"} /\ op[k].at = "load"
  BY DEF LoadForDecision
<1>4. Shaped(k)' /\ Aimed(k)'
  BY <1>1, <1>2, <1>3 DEF Turns, Shaped, Aimed, Mitigating
<1>5. RestOK'
  BY <1>1 DEF LoadForDecision, RestOK, CrossedOK, history
<1>6. QED
  BY <1>1, <1>2, <1>4, <1>5, StepSound DEF Turns

LEMMA CommitDecisionReport ==
    ASSUME Sound, NEW k \in Slots, CommitDecision(k)
    PROVE  /\ report' \in [Reports -> Row]
           /\ \A r \in Reports \ Held(k) : report'[r] = report[r]
           /\ \A r \in Held(k) :
                 LET d == Decision(op[k].kind, FALSE) IN
                 report'[r] \in {Saved(r, op[k].rows[r], d), Overwritten(r, d)}
<1> DEFINE d == Decision(op[k].kind, FALSE)
<1>1. report \in [Reports -> Row] /\ Held(k) \subseteq Reports /\ \A r \in Held(k) : op[k].rows[r] \in Row
  BY SlotSound, Fields DEF RestOK, CrossedOK
<1>2. d \in Row
  BY DecisionRow DEF CommitDecision, AllKinds
<1> HIDE DEF d
<1>3. \A r \in Held(k) : Saved(r, op[k].rows[r], d) \in Row /\ Overwritten(r, d) \in Row
  BY <1>1, <1>2, SavedRow, OverwrittenRow
<1>4. \/ report' = [r \in Reports |-> IF r \in Held(k) THEN Saved(r, op[k].rows[r], d) ELSE report[r]]
      \/ report' = [r \in Reports |-> IF r \in Held(k) THEN Overwritten(r, d) ELSE report[r]]
  BY DEF CommitDecision, d
<1>5. QED
  BY <1>1, <1>3, <1>4 DEF d

LEMMA CommitDecisionSound ==
    ASSUME Sound, NEW k \in Requests, CommitDecision(k)
    PROVE  Sound'
<1>1. k \in Slots /\ RestOK /\ Held(k) \subseteq Reports
  BY SlotSound DEF Slots
<1>2. Stops(k)
  BY <1>1, GoesIdle, SlotSound DEF CommitDecision
<1>3. report' \in [Reports -> Row] /\ withdrawn' \subseteq Reports /\ CrossedOK'
  BY <1>1, CommitDecisionReport, CrossesWhat, WithdrawsWhat DEF CommitDecision
<1>4. RestOK'
  BY <1>1, <1>3 DEF CommitDecision, RestOK, CrossedOK
<1>5. QED
  BY <1>1, <1>2, <1>4, StopsSound

LEMMA LoadForApprovalSound ==
    ASSUME Sound, NEW k \in Requests, NEW r \in Reports, LoadForApproval(k, r)
    PROVE  Sound'
<1>1. k \in Slots /\ k \notin Crons /\ Shaped(k) /\ Aimed(k) /\ RestOK
  BY ConstantsAssumption, SlotSound DEF Slots
<1>2. Turns(k, "approve", IF op[k].temp THEN "places" ELSE "save", op[k].temp,
            op[k].todo \ {r}, {r}, op[k].seen)
  BY <1>1, LoadForApprovalSlot, SlotSound
<1>3. op[k].kind = "approve" /\ op[k].at = "load"
  BY DEF LoadForApproval
<1>4. op[k].seen = {}
  BY <1>1, <1>3 DEF Aimed
<1>5. Shaped(k)' /\ Aimed(k)'
  BY <1>1, <1>2, <1>4 DEF Turns, Shaped, Aimed
<1>6. RestOK'
  BY <1>1 DEF LoadForApproval, RestOK, CrossedOK, history
<1>7. QED
  BY <1>1, <1>2, <1>5, <1>6, StepSound DEF Turns

LEMMA UpdateForShipmentReport ==
    ASSUME Sound, NEW k \in Slots, UpdateForShipment(k)
    PROVE  /\ report' \in [Reports -> Row]
           /\ \A r \in Reports \ op[k].todo : report'[r] = report[r]
           /\ \A r \in op[k].todo : report'[r] = Overwritten(r, Decision("shipment", op[k].temp))
<1>1. report \in [Reports -> Row] /\ op[k].todo \subseteq Reports /\ op[k].temp \in BOOLEAN
  BY SlotSound, Fields DEF RestOK, CrossedOK
<1>2. Decision("shipment", op[k].temp) \in Row
  BY <1>1, DecisionRow DEF AllKinds
<1>3. \A r \in Reports : Overwritten(r, Decision("shipment", op[k].temp)) \in Row
  BY <1>2, OverwrittenRow
<1>4. report' = [r \in Reports |-> IF r \in op[k].todo
                    THEN Overwritten(r, Decision("shipment", op[k].temp)) ELSE report[r]]
  BY DEF UpdateForShipment
<1>5. QED
  BY <1>1, <1>3, <1>4

LEMMA UpdateForShipmentSound ==
    ASSUME Sound, NEW k \in Requests, UpdateForShipment(k)
    PROVE  Sound'
<1>1. k \in Slots /\ k \notin Crons /\ Shaped(k) /\ Aimed(k) /\ RestOK /\ op[k].todo \subseteq Reports
  BY ConstantsAssumption, SlotSound DEF Slots
<1>2. op[k].kind = "shipment" /\ op[k].at = "load"
  BY DEF UpdateForShipment
<1>3. report' \in [Reports -> Row] /\ withdrawn' \subseteq Reports /\ CrossedOK'
  <2>1. /\ Crosses(k, op[k].todo)
        /\ Withdraws(op[k].todo, Decision("shipment", op[k].temp).legend)
    BY DEF UpdateForShipment
  <2>2. op[k].todo \in SUBSET Reports
    BY <1>1
  <2>3. CrossedOK'
    BY <2>1, <2>2, CrossesWhat
  <2>4. withdrawn' \subseteq Reports
    BY <2>1, <2>2, WithdrawsWhat
  <2>5. QED
    BY <1>1, <2>3, <2>4, UpdateForShipmentReport
<1>4. RestOK'
  BY <1>1, <1>3 DEF UpdateForShipment, RestOK, CrossedOK
<1>5. CASE Stops(k)
  BY <1>1, <1>4, <1>5, StopsSound
<1>6. CASE op[k].temp /\ Turns(k, "shipment", "next", op[k].temp, {}, op[k].todo, op[k].seen)
  <2>1. op[k].seen = {}
    BY <1>1, <1>2 DEF Aimed
  <2>2. Shaped(k)' /\ Aimed(k)'
    BY <1>1, <1>6, <2>1 DEF Turns, Shaped, Aimed
  <2>3. QED
    BY <1>1, <1>4, <1>6, <2>2, StepSound DEF Turns
<1>7. QED
  BY <1>1, <1>5, <1>6, UpdateForShipmentSlot, SlotSound

LEMMA ReadPlacesSound ==
    ASSUME Sound, NEW k \in Requests, NEW r \in Reports, ReadPlaces(k, r)
    PROVE  Sound'
<1>1. k \in Slots /\ k \notin Crons /\ Shaped(k) /\ Aimed(k) /\ RestOK /\ TypeOK
  BY ConstantsAssumption, SlotSound DEF Slots
<1>2. Turns(k, op[k].kind, "mitigate", op[k].temp,
            IF op[k].kind = "shipment" THEN {r} ELSE op[k].todo, Held(k), ToMitigate(r))
  BY <1>1, ReadPlacesSlot
<1>3. /\ \/ op[k].kind = "approve" /\ op[k].at = "places"
         \/ op[k].kind = "shipment" /\ op[k].at = "next"
      /\ r \in Held(k)
  BY DEF ReadPlaces
<1>4. \A x \in Reports : Mitigating(k, x)' => x = r
  BY <1>1, <1>2, <1>3 DEF Turns, Shaped, Mitigating
<1>5. Shaped(k)'
  BY <1>1, <1>2, <1>3 DEF Turns, Shaped
<1>6. Aimed(k)'
  BY <1>1, <1>2, <1>3, <1>4, ToMitigateType DEF Turns, Aimed
<1>7. RestOK'
  BY <1>1 DEF ReadPlaces, RestOK, CrossedOK
<1>8. QED
  BY <1>1, <1>2, <1>5, <1>6, <1>7, StepSound DEF Turns

\* What a slot has seen becomes less.
LEMMA SeenSound ==
    ASSUME Sound, NEW k \in Slots, RestOK', NEW S \in SUBSET op[k].seen,
           Turns(k, op[k].kind, op[k].at, op[k].temp, op[k].todo, Held(k), S),
           \A x \in Held(k) : op'[k].rows[x] = op[k].rows[x]
    PROVE  Sound'
<1>1. Shaped(k) /\ Aimed(k)
  BY SlotSound
<1>2. \A r \in Reports : Mitigating(k, r)' = Mitigating(k, r)
  BY DEF Turns, Mitigating
<1>3. Shaped(k)'
  BY <1>1 DEF Turns, Shaped
<1>4. Aimed(k)'
  BY <1>1, <1>2 DEF Turns, Aimed
<1>5. QED
  BY <1>3, <1>4, StepSound DEF Turns

LEMMA WriteInfo ==
    ASSUME Sound, NEW k \in Slots, NEW s \in op[k].seen, Mitigate(k, s) \/ Revert(k, s)
    PROVE  /\ s[1] \in Infos /\ s[2] \in DeforestationStatus
           /\ info' \in [Infos -> [status : DeforestationStatus, original : DeforestationStatus]]
           /\ \A i \in Infos \ {s[1]} : info'[i] = info[i]
           /\ Mitigate(k, s) => info'[s[1]].status = Mitigated /\ info'[s[1]].original = s[2]
           /\ Revert(k, s) => info'[s[1]].status = s[2] /\ info'[s[1]].original = Null
           /\ Turns(k, op[k].kind, op[k].at, op[k].temp, op[k].todo, Held(k), op[k].seen \ {s})
           /\ op'[k].rows = op[k].rows
<1>1. TypeOK /\ RestOK
  BY SlotSound
<1>2. s[1] \in Infos /\ s[2] \in DeforestationStatus
  BY <1>1, Fields
<1>3. Turns(k, op[k].kind, op[k].at, op[k].temp, op[k].todo, Held(k), op[k].seen \ {s})
      /\ op'[k].rows = op[k].rows
  BY <1>1, SeenSlot DEF Mitigate, Revert
<1>4. \E e \in [status : DeforestationStatus, original : DeforestationStatus] :
         /\ info' = [info EXCEPT ![s[1]] = e]
         /\ Mitigate(k, s) => e.status = Mitigated /\ e.original = s[2]
         /\ Revert(k, s) => e.status = s[2] /\ e.original = Null
  <2>1. CASE Mitigate(k, s)
    <3> DEFINE e == [status |-> Mitigated, original |-> s[2]]
    <3>1. info' = [info EXCEPT ![s[1]] = e] /\ e.status = Mitigated /\ e.original = s[2]
      BY <2>1 DEF Mitigate
    <3>2. e \in [status : DeforestationStatus, original : DeforestationStatus]
      BY <1>2 DEF DeforestationStatus
    <3>3. ~Revert(k, s)
      <4>1. op[k].at = "mitigate"
        BY <2>1 DEF Mitigate
      <4>2. op[k].kind # "expire"
        BY <4>1, SlotSound DEF Shaped
      <4>3. QED
        BY <4>2 DEF Revert
    <3> HIDE DEF e
    <3>4. QED
      BY <3>1, <3>2, <3>3
  <2>2. CASE Revert(k, s)
    <3> DEFINE e == [status |-> s[2], original |-> Null]
    <3>1. info' = [info EXCEPT ![s[1]] = e] /\ e.status = s[2] /\ e.original = Null
      BY <2>2 DEF Revert
    <3>2. e \in [status : DeforestationStatus, original : DeforestationStatus]
      BY <1>2 DEF DeforestationStatus
    <3>3. ~Mitigate(k, s)
      <4>1. op[k].kind = "expire"
        BY <2>2 DEF Revert
      <4>2. op[k].at # "mitigate"
        BY <4>1, SlotSound DEF Shaped
      <4>3. QED
        BY <4>2 DEF Mitigate
    <3> HIDE DEF e
    <3>4. QED
      BY <3>1, <3>2, <3>3
  <2>3. QED
    BY <2>1, <2>2
<1>5. PICK e \in [status : DeforestationStatus, original : DeforestationStatus] :
         /\ info' = [info EXCEPT ![s[1]] = e]
         /\ Mitigate(k, s) => e.status = Mitigated /\ e.original = s[2]
         /\ Revert(k, s) => e.status = s[2] /\ e.original = Null
  BY <1>4
<1>6. /\ info' \in [Infos -> [status : DeforestationStatus, original : DeforestationStatus]]
      /\ info'[s[1]] = e /\ \A i \in Infos \ {s[1]} : info'[i] = info[i]
  BY <1>1, <1>2, <1>5 DEF RestOK, CrossedOK
<1>7. QED
  BY <1>2, <1>3, <1>5, <1>6

LEMMA WriteInfoSound ==
    ASSUME Sound, NEW k \in Slots, NEW s \in op[k].seen, Mitigate(k, s) \/ Revert(k, s)
    PROVE  Sound'
<1>1. RestOK
  BY SlotSound
<1>2. s[1] \in Infos /\ info' \in [Infos -> [status : DeforestationStatus, original : DeforestationStatus]]
  BY WriteInfo
<1>3. overtaken' \subseteq Infos
  BY <1>1, <1>2, OvertakesWhat DEF Mitigate, Revert, RestOK, history
<1>4. RestOK'
  BY <1>1, <1>2, <1>3 DEF Mitigate, Revert, RestOK, CrossedOK, bounds, history
<1>5. /\ Turns(k, op[k].kind, op[k].at, op[k].temp, op[k].todo, Held(k), op[k].seen \ {s})
      /\ op'[k].rows = op[k].rows
  BY WriteInfo
<1>6. op[k].seen \ {s} \in SUBSET op[k].seen
  OBVIOUS
<1>7. QED
  BY <1>4, <1>5, <1>6, SeenSound

LEMMA RemainingFields ==
    ASSUME Sound, NEW k \in Slots, NEW r \in Reports, Advance(k, Remaining(k, r)), r \in Held(k),
           op[k].kind \in {"approve", "shipment"}
    PROVE  /\ Others(k) /\ op'[k].seen = {} /\ op'[k].at # "mitigate"
           /\ op[k].kind = "approve" => Held(k)' = {}
           /\ op[k].kind = "shipment" =>
                 Held(k)' = Held(k) \ {r} /\ (Held(k) # {r} => op'[k].kind = "shipment")
<1>1. TypeOK /\ Shaped(k)
  BY SlotSound
<1>2. CASE Stops(k) /\ (op[k].kind = "approve" \/ Held(k) = {r})
  BY <1>2 DEF Turns, Stops
<1>3. CASE op[k].kind = "approve" /\ Turns(k, "approve", "load", op[k].temp, op[k].todo, {}, {})
  BY <1>3 DEF Turns
<1>4. CASE op[k].kind # "approve" /\ Turns(k, op[k].kind, "next", op[k].temp, {}, Held(k) \ {r}, {})
  BY <1>4 DEF Turns
<1>5. QED
  BY <1>1, <1>2, <1>3, <1>4, RemainingSlot

\* What is left of an approval when the loop is done with a report.
LEMMA RemainingSound ==
    ASSUME Sound, NEW k \in Requests, NEW r \in Reports, RestOK', Advance(k, Remaining(k, r)),
           r \in Held(k), op[k].kind \in {"approve", "shipment"}
    PROVE  Sound'
<1>1. k \in Slots /\ k \notin Crons /\ Shaped(k) /\ TypeOK
  BY ConstantsAssumption, SlotSound DEF Slots
<1>2. CASE Stops(k)
  BY <1>1, <1>2, StopsSound
<1>3. CASE op[k].kind = "approve" /\ Turns(k, "approve", "load", op[k].temp, op[k].todo, {}, {})
  <2>1. Shaped(k)' /\ Aimed(k)'
    BY <1>1, <1>3 DEF Turns, Shaped, Aimed
  <2>2. QED
    BY <1>1, <1>3, <2>1, StepSound DEF Turns
<1>4. CASE op[k].kind # "approve" /\ Turns(k, op[k].kind, "next", op[k].temp, {}, Held(k) \ {r}, {})
  <2>1. op[k].kind = "shipment" /\ op[k].temp
    BY <1>1, <1>4 DEF Shaped
  <2>2. Shaped(k)' /\ Aimed(k)'
    BY <1>1, <1>4, <2>1 DEF Turns, Shaped, Aimed
  <2>3. QED
    BY <1>1, <1>4, <2>2, StepSound DEF Turns
<1>5. QED
  BY <1>1, <1>2, <1>3, <1>4, RemainingSlot

LEMMA PlacesDoneSound ==
    ASSUME Sound, NEW k \in Requests, NEW r \in Reports, PlacesDone(k, r)
    PROVE  Sound'
<1>1. k \in Slots /\ RestOK /\ Shaped(k)
  BY SlotSound DEF Slots
<1>2. op[k].kind = "shipment" /\ r \in Held(k)
  BY <1>1 DEF PlacesDone, Shaped
<1>3. RestOK'
  BY <1>1 DEF PlacesDone, RestOK, CrossedOK, history
<1>4. QED
  BY <1>2, <1>3, RemainingSound DEF PlacesDone

LEMMA SaveApprovalReport ==
    ASSUME Sound, NEW k \in Slots, NEW r \in Reports, SaveApproval(k, r)
    PROVE  /\ report' \in [Reports -> Row]
           /\ \A x \in Reports \ {r} : report'[x] = report[x]
           /\ report'[r] = Saved(r, op[k].rows[r], Decision("approve", op[k].temp))
           /\ op[k].rows[r] \in Row /\ Decision("approve", op[k].temp) \in Row
<1>1. report \in [Reports -> Row] /\ r \in Held(k) /\ op[k].rows[r] \in Row /\ op[k].temp \in BOOLEAN
  BY SlotSound, Fields DEF RestOK, CrossedOK, SaveApproval
<1>2. Decision("approve", op[k].temp) \in Row
  BY <1>1, DecisionRow DEF AllKinds
<1>3. Saved(r, op[k].rows[r], Decision("approve", op[k].temp)) \in Row
  BY <1>1, <1>2, SavedRow
<1>4. report' = [report EXCEPT ![r] = Saved(r, op[k].rows[r], Decision("approve", op[k].temp))]
  BY DEF SaveApproval
<1>5. QED
  BY <1>1, <1>2, <1>3, <1>4

LEMMA SaveApprovalSound ==
    ASSUME Sound, NEW k \in Requests, NEW r \in Reports, SaveApproval(k, r)
    PROVE  Sound'
<1>1. k \in Slots /\ RestOK
  BY SlotSound DEF Slots
<1>2. /\ op[k].kind = "approve" /\ r \in Held(k) /\ Advance(k, Remaining(k, r))
      /\ Crosses(k, {r}) /\ Withdraws({r}, Decision("approve", op[k].temp).legend)
  BY DEF SaveApproval
<1>3. report' \in [Reports -> Row] /\ withdrawn' \subseteq Reports /\ CrossedOK'
  <2>1. {r} \in SUBSET Reports
    OBVIOUS
  <2>2. CrossedOK'
    BY <1>2, <2>1, CrossesWhat
  <2>3. withdrawn' \subseteq Reports
    BY <1>2, <2>1, WithdrawsWhat
  <2>4. QED
    BY <1>1, <2>2, <2>3, SaveApprovalReport
<1>4. RestOK'
  BY <1>1, <1>3 DEF SaveApproval, RestOK, CrossedOK, bounds
<1>5. QED
  BY <1>2, <1>4, RemainingSound

\* A report fails: some of the updates of its places are carried out.
LEMMA FailReportWhat ==
    ASSUME Sound, NEW k \in Slots, NEW r \in Reports, FailReport(k, r)
    PROVE  /\ op[k].kind \in {"approve", "shipment"} /\ r \in Held(k) /\ Advance(k, Remaining(k, r))
           /\ info' \in [Infos -> [status : DeforestationStatus, original : DeforestationStatus]]
           /\ overtaken \subseteq overtaken' /\ overtaken' \subseteq Infos
           /\ \A i \in Infos : \/ info'[i] = info[i]
                              \/ /\ info'[i].status = Mitigated
                                 /\ \E s \in op[k].seen : s[1] = i /\ s[2] = info'[i].original
                                 /\ \A l \in Slots \ {k} : \A s \in op[l].seen :
                                       s[1] = i /\ s[2] # Mitigated => i \in overtaken'
           /\ op[k].seen # {} => Mitigating(k, r)
<1>1. RestOK /\ Shaped(k) /\ Aimed(k) /\ TypeOK
  BY SlotSound
<1>2. op[k].kind \in {"approve", "shipment"} /\ r \in Held(k) /\ Advance(k, Remaining(k, r))
  BY <1>1 DEF FailReport, Shaped
<1>3. PICK W \in SUBSET op[k].seen :
          /\ info' = [i \in Infos |->
                        IF \E s \in W : s[1] = i
                        THEN [status |-> Mitigated, original |-> (CHOOSE s \in W : s[1] = i)[2]]
                        ELSE info[i]]
          /\ Overtakes(k, {s[1] : s \in W})
  BY DEF FailReport
<1>4. W \subseteq Infos \X DeforestationStatus
  BY <1>1, Fields
<1>5. {s[1] : s \in W} \in SUBSET Infos
  BY <1>4
<1>6. /\ overtaken \subseteq overtaken' /\ overtaken' \subseteq Infos
      /\ \A l \in Slots \ {k} : \A s \in op[l].seen :
            s[1] \in {t[1] : t \in W} /\ s[2] # Mitigated => s[1] \in overtaken'
  BY <1>3, <1>5, OvertakesWhat
<1>7. ASSUME NEW i \in Infos, \E s \in W : s[1] = i
      PROVE  /\ info'[i] \in [status : DeforestationStatus, original : DeforestationStatus]
             /\ info'[i].status = Mitigated
             /\ \E s \in op[k].seen : s[1] = i /\ s[2] = info'[i].original
             /\ \A l \in Slots \ {k} : \A s \in op[l].seen :
                   s[1] = i /\ s[2] # Mitigated => i \in overtaken'
  <2> DEFINE s == CHOOSE t \in W : t[1] = i
  <2>1. s \in W /\ s[1] = i
    BY <1>7
  <2> HIDE DEF s
  <2>2. info'[i] = [status |-> Mitigated, original |-> s[2]]
    BY <1>3, <1>7 DEF s
  <2>3. s[2] \in DeforestationStatus /\ Mitigated \in DeforestationStatus /\ s \in op[k].seen
    BY <1>4, <2>1 DEF DeforestationStatus
  <2>4. QED
    BY <1>6, <2>1, <2>2, <2>3
<1>8. ASSUME NEW i \in Infos, ~ \E s \in W : s[1] = i
      PROVE  info'[i] = info[i]
  BY <1>3, <1>8
<1>9. info' \in [Infos -> [status : DeforestationStatus, original : DeforestationStatus]]
  <2>1. info' = [i \in Infos |-> info'[i]]
    BY <1>3
  <2>2. \A i \in Infos : info'[i] \in [status : DeforestationStatus, original : DeforestationStatus]
    BY <1>1, <1>7, <1>8 DEF RestOK, CrossedOK
  <2>3. QED
    BY <2>1, <2>2
<1>10. op[k].seen # {} => Mitigating(k, r)
  <2>1. op[k].seen # {} => op[k].at = "mitigate"
    BY <1>1, <1>2 DEF Aimed
  <2>2. QED
    BY <1>2, <2>1 DEF FailReport, Mitigating
<1>11. QED
  BY <1>2, <1>6, <1>7, <1>8, <1>9, <1>10

LEMMA FailReportSound ==
    ASSUME Sound, NEW k \in Requests, NEW r \in Reports, FailReport(k, r)
    PROVE  Sound'
<1>1. k \in Slots /\ RestOK
  BY SlotSound DEF Slots
<1>2. failed' \subseteq Reports /\ unlaid' \subseteq Reports
  BY <1>1 DEF FailReport, RestOK, CrossedOK
<1>3. RestOK'
  BY <1>1, <1>2, FailReportWhat DEF FailReport, RestOK, CrossedOK
<1>4. QED
  BY <1>1, <1>3, FailReportWhat, RemainingSound

LEMMA ReadOverdueSound ==
    ASSUME Sound, NEW k \in Requests, NEW kind \in AllKinds, NEW R \in SUBSET Reports,
           ReadOverdue(k, kind, R)
    PROVE  Sound'
<1>1. k \in Slots /\ k \notin Crons /\ TypeOK /\ RestOK
  BY ConstantsAssumption, SlotSound DEF Slots
<1>2. PICK H \in SUBSET R :
         /\ Turns(k, kind, "write", FALSE, {}, H, {})
         /\ \A r \in H : op'[k].rows[r].legend \in {"overdue", "pending"}
  BY <1>1, ReadOverdueSlot
<1>3. kind \in {"overdue", "overdueCron"}
  BY DEF ReadOverdue
<1>4. Shaped(k)' /\ Aimed(k)'
  BY <1>1, <1>2, <1>3 DEF Turns, Shaped, Aimed
<1>5. RestOK'
  BY <1>1 DEF ReadOverdue, RestOK, CrossedOK, history
<1>6. QED
  BY <1>1, <1>2, <1>4, <1>5, StepSound DEF Turns

\* Some rows of the overdue check are dealt with.
LEMMA OverdueRowsSound ==
    ASSUME Sound, NEW k \in Requests, NEW R, RestOK', op[k].kind \in {"overdue", "overdueCron"},
           Advance(k, [op[k] EXCEPT !.rows = [x \in Held(k) \ R |-> @[x]]])
    PROVE  Sound'
<1>1. k \in Slots /\ k \notin Crons /\ TypeOK /\ Shaped(k) /\ Aimed(k)
  BY ConstantsAssumption, SlotSound DEF Slots
<1>2. /\ Turns(k, op[k].kind, op[k].at, op[k].temp, op[k].todo, Held(k) \ R, op[k].seen)
      /\ \A x \in Held(k) \ R : op'[k].rows[x] = op[k].rows[x]
  BY <1>1, RowsSlot
<1>3. Shaped(k)' /\ Aimed(k)'
  BY <1>1, <1>2 DEF Turns, Shaped, Aimed
<1>4. QED
  BY <1>1, <1>2, <1>3, StepSound DEF Turns

LEMMA WriteOverdueReport ==
    ASSUME Sound, NEW k \in Slots, NEW R \in SUBSET Reports, WriteOverdue(k, R)
    PROVE  /\ R \subseteq Held(k)
           /\ report' \in [Reports -> Row]
           /\ \A r \in Reports \ R : report'[r] = report[r]
           /\ \A r \in R : /\ report'[r].legend \in {"overdue", "pending"}
                           /\ report'[r].temp = report[r].temp /\ report'[r].expiry = report[r].expiry
<1>1. R \subseteq Held(k) /\ op[k].kind \in {"overdue", "overdueCron"}
  BY DEF WriteOverdue
<1>2. report \in [Reports -> Row] /\ \A r \in Held(k) : op[k].rows[r] \in Row
  BY SlotSound, Fields DEF RestOK, CrossedOK
<1>3. \A r \in R : op[k].rows[r].legend \in {"overdue", "pending"}
  BY <1>1, SlotSound DEF Shaped
<1>4. \A r \in R : /\ [report[r] EXCEPT !.legend = op[k].rows[r].legend] \in Row
                  /\ [report[r] EXCEPT !.legend = op[k].rows[r].legend].legend = op[k].rows[r].legend
                  /\ [report[r] EXCEPT !.legend = op[k].rows[r].legend].temp = report[r].temp
                  /\ [report[r] EXCEPT !.legend = op[k].rows[r].legend].expiry = report[r].expiry
  BY <1>2, <1>3 DEF Row, StatusLegends
<1>5. report' = [r \in Reports |-> IF r \in R
                    THEN [report[r] EXCEPT !.legend = op[k].rows[r].legend] ELSE report[r]]
  BY DEF WriteOverdue
<1>6. QED
  BY <1>1, <1>2, <1>3, <1>4, <1>5

LEMMA WriteOverdueSound ==
    ASSUME Sound, NEW k \in Requests, NEW R \in SUBSET Reports, WriteOverdue(k, R)
    PROVE  Sound'
<1>1. k \in Slots /\ RestOK /\ TypeOK
  BY SlotSound DEF Slots
<1>2. report' \in [Reports -> Row] /\ withdrawn' \subseteq Reports /\ CrossedOK'
  BY <1>1, WriteOverdueReport, CrossesWhat, WithdrawsWhat DEF WriteOverdue
<1>3. RestOK'
  BY <1>1, <1>2 DEF WriteOverdue, RestOK, CrossedOK
<1>4. op[k].kind \in {"overdue", "overdueCron"}
  BY DEF WriteOverdue
<1>5. \/ Advance(k, Idle)
      \/ Advance(k, [op[k] EXCEPT !.rows = [r \in Held(k) \ R |-> @[r]]])
  BY DEF WriteOverdue
<1>6. QED
  BY <1>1, <1>3, <1>4, <1>5, GoesIdle, StopsSound, OverdueRowsSound

LEMMA OverdueErrorSound ==
    ASSUME Sound, NEW k \in Requests, NEW r \in Reports, OverdueError(k, r)
    PROVE  Sound'
<1>1. k \in Slots /\ RestOK /\ TypeOK
  BY SlotSound DEF Slots
<1>2. RestOK'
  BY <1>1 DEF OverdueError, RestOK, CrossedOK, history
<1>3. \/ Advance(k, Idle)
      \/ Advance(k, [op[k] EXCEPT !.rows = [x \in Held(k) \ {r} |-> @[x]]])
  BY DEF OverdueError
<1>4. op[k].kind = "overdueCron"
  BY DEF OverdueError
<1>5. QED
  BY <1>1, <1>2, <1>3, <1>4, GoesIdle, StopsSound, OverdueRowsSound

LEMMA FindExpiredSound ==
    ASSUME Sound, NEW k \in Crons, FindExpired(k)
    PROVE  Sound'
<1>1. k \in Slots /\ k \notin Requests /\ RestOK /\ TypeOK
  BY ConstantsAssumption, SlotSound DEF Slots
<1>2. Turns(k, "expire", "next", FALSE, Expired, Expired, {})
  BY <1>1, FindExpiredSlot
<1>3. Shaped(k)' /\ Aimed(k)'
  BY <1>1, <1>2 DEF Turns, Shaped, Aimed
<1>4. RestOK'
  BY <1>1 DEF FindExpired, RestOK, CrossedOK, bounds, Expired
<1>5. QED
  BY <1>1, <1>2, <1>3, <1>4, StepSound DEF Turns

LEMMA FindMitigatedSound ==
    ASSUME Sound, NEW k \in Crons, NEW r \in Reports, FindMitigated(k, r)
    PROVE  Sound'
<1>1. k \in Slots /\ k \notin Requests /\ RestOK /\ TypeOK /\ Shaped(k)
  BY ConstantsAssumption, SlotSound DEF Slots
<1>2. Turns(k, "expire", "next", op[k].temp, op[k].todo \ {r}, Held(k), Originals(r))
  BY <1>1, FindMitigatedSlot
<1>3. op[k].kind = "expire" /\ r \in op[k].todo
  BY DEF FindMitigated
<1>4. Shaped(k)'
  BY <1>1, <1>2, <1>3 DEF Turns, Shaped
<1>5. r \in Held(k) \ (op[k].todo \ {r})
  BY <1>1, <1>3 DEF Shaped
<1>6. Aimed(k)'
  BY <1>2, <1>5, FoundType, <1>1 DEF Turns, Aimed, Mitigating
<1>7. RestOK'
  BY <1>1 DEF FindMitigated, RestOK, CrossedOK, history
<1>8. QED
  BY <1>1, <1>2, <1>4, <1>6, <1>7, StepSound DEF Turns

LEMMA RevertErrorSound ==
    ASSUME Sound, NEW k \in Crons, RevertError(k)
    PROVE  Sound'
<1>1. k \in Slots /\ k \notin Requests /\ RestOK /\ TypeOK /\ Shaped(k) /\ Aimed(k)
      /\ Held(k) \subseteq Reports /\ op[k].todo \subseteq Reports
  BY ConstantsAssumption, SlotSound DEF Slots
<1>2. CASE \E s \in op[k].seen :
             /\ Advance(k, [op[k] EXCEPT !.seen = @ \ {s}])
             /\ failed' = failed \cup {r \in Held(k) : s[1] \in Places[r]}
  <2>1. PICK s \in op[k].seen :
             /\ Advance(k, [op[k] EXCEPT !.seen = @ \ {s}])
             /\ failed' = failed \cup {r \in Held(k) : s[1] \in Places[r]}
    BY <1>2
  <2>2. RestOK'
    BY <1>1, <2>1 DEF RevertError, RestOK, CrossedOK
  <2>3. op[k].seen \ {s} \in SUBSET op[k].seen
    OBVIOUS
  <2>4. QED
    BY <1>1, <2>1, <2>2, <2>3, SeenSlot, SeenSound
<1>3. CASE /\ op[k].seen = {}
           /\ \E r \in op[k].todo : /\ Advance(k, [op[k] EXCEPT !.todo = @ \ {r}])
                                    /\ failed' = failed \cup {r}
  <2>1. PICK r \in op[k].todo : /\ Advance(k, [op[k] EXCEPT !.todo = @ \ {r}])
                                /\ failed' = failed \cup {r}
    BY <1>3
  <2>2. RestOK'
    BY <1>1, <2>1 DEF RevertError, RestOK, CrossedOK
  <2>3. Turns(k, op[k].kind, op[k].at, op[k].temp, op[k].todo \ {r}, Held(k), op[k].seen)
    BY <1>1, <2>1, TodoSlot
  <2>4. op[k].kind = "expire"
    BY DEF RevertError
  <2>5. Shaped(k)' /\ Aimed(k)'
    BY <1>1, <1>3, <2>3, <2>4 DEF Turns, Shaped, Aimed
  <2>6. QED
    BY <1>1, <2>2, <2>3, <2>5, StepSound DEF Turns
<1>4. QED
  BY <1>2, <1>3 DEF RevertError

LEMMA UpdateExpiredReport ==
    ASSUME Sound, NEW k \in Slots, UpdateExpired(k)
    PROVE  /\ report' \in [Reports -> Row]
           /\ \A r \in Reports \ Held(k) : report'[r] = report[r]
           /\ \A r \in Held(k) : report'[r].legend = "pending_approval"
<1>1. Decision("assign", FALSE) \in Row /\ Decision("assign", FALSE).legend = "pending_approval"
  BY DecisionRow DEF AllKinds
<1>2. report \in [Reports -> Row] /\ Held(k) \subseteq Reports
  BY SlotSound DEF RestOK, CrossedOK
<1>3. report' = [r \in Reports |-> IF r \in Held(k) THEN Decision("assign", FALSE) ELSE report[r]]
  BY DEF UpdateExpired
<1>4. QED
  BY <1>1, <1>2, <1>3

LEMMA UpdateExpiredSound ==
    ASSUME Sound, NEW k \in Crons, UpdateExpired(k)
    PROVE  Sound'
<1>1. k \in Slots /\ RestOK /\ TypeOK /\ Held(k) \subseteq Reports
  BY SlotSound DEF Slots
<1>2. report' \in [Reports -> Row] /\ CrossedOK'
  BY <1>1, UpdateExpiredReport, CrossesWhat DEF UpdateExpired
<1>3. RestOK'
  BY <1>1, <1>2 DEF UpdateExpired, RestOK, CrossedOK
<1>4. QED
  BY <1>1, <1>3, GoesIdle, StopsSound DEF UpdateExpired

LEMMA CrashSound ==
    ASSUME Sound, NEW k \in Slots, Crash(k)
    PROVE  Sound'
<1>1. RestOK /\ TypeOK /\ Held(k) \subseteq Reports
  BY SlotSound
<1>2. failed' \subseteq Reports /\ unlaid' \subseteq Reports /\ rerun' \subseteq Reports
  BY <1>1 DEF Crash, RestOK, CrossedOK
<1>3. RestOK'
  BY <1>1, <1>2 DEF Crash, RestOK, CrossedOK
<1>4. QED
  BY <1>1, <1>3, GoesIdle, StopsSound DEF Crash

\* The steps of users and of time: no slot goes on.
LEMMA OutsideSound ==
    ASSUME Sound,
           \/ \E r \in Reports : CreateRequestAdditionalInformation(r) \/ Expire(r) \/ Age(r)
           \/ \E i \in Infos : RiskMitigation(i)
    PROVE  Sound'
<1>1. RestOK
  BY DEF Sound, TypeOK, RestOK, CrossedOK
<1>2. ASSUME NEW r \in Reports, CreateRequestAdditionalInformation(r)
      PROVE  Sound'
  <2>1. Crosses("none", {r}) /\ Withdraws({r}, "update_required")
        /\ report' = [report EXCEPT ![r].legend = "update_required"]
    BY <1>2 DEF CreateRequestAdditionalInformation
  <2>2. CrossedOK' /\ withdrawn' \subseteq Reports
    <3>1. {r} \in SUBSET Reports
      OBVIOUS
    <3>2. CrossedOK'
      BY <2>1, <3>1, CrossesWhat
    <3>3. withdrawn' \subseteq Reports
      BY <2>1, <3>1, WithdrawsWhat
    <3>4. QED
      BY <3>2, <3>3
  <2>3. [report[r] EXCEPT !.legend = "update_required"] \in Row
    BY <1>1 DEF RestOK, CrossedOK, Row, StatusLegends
  <2>4. report' \in [Reports -> Row]
    BY <1>1, <2>1, <2>3 DEF RestOK, CrossedOK
  <2>5. RestOK'
    BY <1>1, <1>2, <2>2, <2>4 DEF RestOK, CrossedOK, CreateRequestAdditionalInformation
  <2>6. QED
    BY <1>2, <2>5, SameSound DEF CreateRequestAdditionalInformation
<1>3. ASSUME NEW r \in Reports, Expire(r)
      PROVE  Sound'
  <2>1. [report[r] EXCEPT !.expiry = "past"] \in Row
    BY <1>1 DEF RestOK, CrossedOK, Row
  <2>2. report' \in [Reports -> Row]
    BY <1>1, <1>3, <2>1 DEF RestOK, CrossedOK, Expire
  <2>3. RestOK'
    BY <1>1, <1>3, <2>2 DEF RestOK, CrossedOK, Expire, history
  <2>4. QED
    BY <1>3, <2>3, SameSound DEF Expire
<1>4. ASSUME NEW r \in Reports, Age(r)
      PROVE  Sound'
  <2>1. late' \in [Reports -> BOOLEAN]
    BY <1>1, <1>4 DEF RestOK, CrossedOK, Age
  <2>2. RestOK'
    BY <1>1, <1>4, <2>1 DEF RestOK, CrossedOK, Age, history
  <2>3. QED
    BY <1>4, <2>2, SameSound DEF Age
<1>5. ASSUME NEW i \in Infos, RiskMitigation(i)
      PROVE  Sound'
  <2>1. [info[i] EXCEPT !.status = Mitigated] \in [status : DeforestationStatus, original : DeforestationStatus]
        /\ Mitigated \in DeforestationStatus
    BY <1>1 DEF RestOK, CrossedOK, DeforestationStatus
  <2>2. info' \in [Infos -> [status : DeforestationStatus, original : DeforestationStatus]]
        /\ truth' \in [Infos -> DeforestationStatus]
    BY <1>1, <1>5, <2>1 DEF RestOK, CrossedOK, RiskMitigation
  <2>3. overlaid' \subseteq Infos
    BY <1>1, <1>5 DEF RestOK, RiskMitigation
  <2>4. RestOK'
    BY <1>1, <1>5, <2>2, <2>3 DEF RestOK, CrossedOK, RiskMitigation
  <2>5. QED
    BY <1>5, <2>4, SameSound DEF RiskMitigation
<1>6. QED
  BY <1>2, <1>3, <1>4, <1>5

LEMMA InitSound == Init => Sound
<1> SUFFICES ASSUME Init
             PROVE  Sound
  OBVIOUS
<1>1. report \in [Reports -> Row]
  BY DEF Init, Row, StatusLegends
<1>2. /\ info \in [Infos -> [status : DeforestationStatus, original : DeforestationStatus]]
      /\ truth \in [Infos -> DeforestationStatus]
  BY ConstantsAssumption DEF Init, DeforestationStatus
<1>3. op \in [Slots -> Operation] /\ \A k \in Slots : op[k] = Idle
  BY IdleOperation DEF Init
<1>4. TypeOK
  BY <1>1, <1>2, <1>3 DEF Init, TypeOK
<1>5. \A k \in Slots : /\ Held(k) = {} /\ op[k].seen = {} /\ op[k].todo = {}
                       /\ op[k].kind = "idle" /\ op[k].at = "idle"
  BY <1>3, IdleOperation DEF Held
<1>6. \A k \in Slots : Shaped(k) /\ Aimed(k)
  BY <1>5 DEF Shaped, Aimed
<1>7. QED
  BY <1>4, <1>6 DEF Sound

LEMMA StutterSound ==
    ASSUME Sound, UNCHANGED vars
    PROVE  Sound'
<1>1. RestOK'
  BY DEF Sound, TypeOK, RestOK, CrossedOK, vars, history
<1>2. QED
  BY <1>1, SameSound DEF vars

LEMMA CheckedType ==
    ASSUME NEW kind \in AllKinds
    PROVE  Checked(kind) \subseteq SUBSET Reports
  BY DEF Checked

LEMMA NextSound ==
    ASSUME Sound, [Next]_vars
    PROVE  Sound'
<1>1. ASSUME NEW k \in Requests, NEW kind \in AllKinds, NEW R \in SUBSET Reports,
             NEW temp \in BOOLEAN, Begin(k, kind, R, temp)
      PROVE  Sound'
  BY <1>1, BeginSound
<1>2. ASSUME NEW k \in Requests, NEW kind \in AllKinds, NEW R \in Checked(kind), ReadOverdue(k, kind, R)
      PROVE  Sound'
  BY <1>2, CheckedType, ReadOverdueSound
<1>3. ASSUME NEW k \in Requests, RequestStep(k)
      PROVE  Sound'
  <2>1. k \in Slots
    BY DEF Slots
  <2>2. CASE \E r \in Reports :
                \/ LoadForDecision(k, r) \/ LoadForApproval(k, r) \/ ReadPlaces(k, r)
                \/ PlacesDone(k, r) \/ SaveApproval(k, r)
    BY <2>2, LoadForDecisionSound, LoadForApprovalSound, ReadPlacesSound, PlacesDoneSound,
       SaveApprovalSound
  <2>3. CASE \E s \in op[k].seen : Mitigate(k, s)
    BY <2>1, <2>3, WriteInfoSound
  <2>4. CASE CommitDecision(k) \/ UpdateForShipment(k) \/ \E R \in SUBSET Reports : WriteOverdue(k, R)
    BY <2>4, CommitDecisionSound, UpdateForShipmentSound, WriteOverdueSound
  <2>5. QED
    BY <1>3, <2>2, <2>3, <2>4 DEF RequestStep
<1>4. ASSUME NEW k \in Requests, NEW r \in Reports, FailReport(k, r) \/ OverdueError(k, r)
      PROVE  Sound'
  BY <1>4, FailReportSound, OverdueErrorSound
<1>5. ASSUME NEW k \in Crons, CronStep(k) \/ RevertError(k)
      PROVE  Sound'
  <2>1. k \in Slots
    BY DEF Slots
  <2>2. CASE \E s \in op[k].seen : Revert(k, s)
    BY <2>1, <2>2, WriteInfoSound
  <2>3. QED
    BY <1>5, <2>2, FindExpiredSound, UpdateExpiredSound, FindMitigatedSound, RevertErrorSound
       DEF CronStep
<1>6. ASSUME NEW k \in Slots, Crash(k)
      PROVE  Sound'
  BY <1>6, CrashSound
<1>7. CASE UNCHANGED vars
  BY <1>7, StutterSound
<1>8. QED
  BY <1>1, <1>2, <1>3, <1>4, <1>5, <1>6, <1>7, OutsideSound DEF Next

LEMMA AlwaysSound == Spec => []Sound
<1>1. Init => Sound
  BY InitSound
<1>2. Sound /\ [Next]_vars => Sound'
  BY NextSound
<1>3. QED
  BY <1>1, <1>2, PTL DEF Spec

\* The reports, the infos and the slots are what their columns allow.
THEOREM TypeCorrect == Spec => []TypeOK
<1>1. Sound => TypeOK
  BY DEF Sound
<1>2. QED
  BY <1>1, AlwaysSound, PTL

-----------------------------------------------------------------------------
(* What the slots know of the reports *)

\* What the other slots know holds, unless a report they hold is written.
LEMMA OthersKnow ==
    ASSUME Sound, RowsKnown, NEW k, Others(k), crossed \subseteq crossed',
           \A r \in Reports, l \in Slots \ {k} :
              r \in Held(l) => report'[r] = report[r] \/ r \in crossed'
    PROVE  \A l \in Slots \ {k} : \A r \in Held(l)' \ crossed' : Knows(l, r)'
<1> SUFFICES ASSUME NEW l \in Slots \ {k}, NEW r \in Held(l)' \ crossed'
             PROVE  Knows(l, r)'
  OBVIOUS
<1>1. op'[l] = op[l] /\ Held(l)' = Held(l) /\ r \in Held(l) \ crossed
  BY DEF Others, Held
<1>2. r \in Reports
  BY <1>1, SlotSound
<1>3. report'[r] = report[r] /\ Knows(l, r)
  BY <1>1, <1>2 DEF RowsKnown
<1>4. QED
  BY <1>1, <1>3 DEF Knows, Temporary

LEMMA SlotsKnow ==
    ASSUME Sound, RowsKnown, NEW k \in Slots, Others(k), crossed \subseteq crossed',
           \A r \in Reports, l \in Slots \ {k} :
              r \in Held(l) => report'[r] = report[r] \/ r \in crossed',
           \A r \in Held(k)' \ crossed' : Knows(k, r)'
    PROVE  RowsKnown'
<1>1. \A l \in Slots \ {k} : \A r \in Held(l)' \ crossed' : Knows(l, r)'
  BY OthersKnow
<1>2. QED
  BY <1>1 DEF RowsKnown

\* The reports are not written: what slot k knew of those it still holds, it knows.
LEMMA SameReports ==
    ASSUME Sound, Informed, NEW k \in Slots, Others(k), crossed \subseteq crossed', UNCHANGED report,
           \A r \in Held(k)' \ crossed' : \/ Knows(k, r)'
                               \/ /\ r \in Held(k) /\ op'[k].kind = op[k].kind
                                  /\ op[k].kind # "shipment" => op'[k].rows[r] = op[k].rows[r]
    PROVE  Informed'
<1>1. \A r \in Held(k)' \ crossed' : Knows(k, r)'
  <2> SUFFICES ASSUME NEW r \in Held(k)' \ crossed', ~Knows(k, r)'
               PROVE  FALSE
    OBVIOUS
  <2>1. r \in Held(k) \ crossed /\ op'[k].kind = op[k].kind
        /\ (op[k].kind # "shipment" => op'[k].rows[r] = op[k].rows[r])
    OBVIOUS
  <2>2. Knows(k, r)
    BY <2>1 DEF Informed, RowsKnown
  <2>3. QED
    BY <2>1, <2>2 DEF Knows, Temporary
<1>2. RowsKnown'
  BY <1>1, SlotsKnow DEF Informed
<1>3. Findable'
  BY DEF Informed, Findable, Temporary
<1>4. QED
  BY <1>2, <1>3 DEF Informed

\* The requests that read, and their ends.
LEMMA ReadingInformed ==
    ASSUME Sound, Informed, NEW k \in Requests, NEW r \in Reports,
           \/ \E kind \in AllKinds, R \in SUBSET Reports, temp \in BOOLEAN : Begin(k, kind, R, temp)
           \/ \E kind \in AllKinds : \E R \in Checked(kind) : ReadOverdue(k, kind, R)
           \/ LoadForDecision(k, r) \/ LoadForApproval(k, r) \/ ReadPlaces(k, r)
    PROVE  Informed'
<1>1. k \in Slots /\ TypeOK /\ Shaped(k) /\ crossed \subseteq crossed
  BY SlotSound DEF Slots
<1>2. ASSUME NEW kind \in AllKinds, NEW R \in SUBSET Reports, NEW temp \in BOOLEAN, Begin(k, kind, R, temp)
      PROVE  Informed'
  <2>1. Turns(k, kind, "load", temp, R, {}, {})
    BY <1>1, <1>2, BeginSlot
  <2>2. UNCHANGED <<report, crossed>>
    BY <1>2 DEF Begin, history
  <2>3. QED
    BY <1>1, <2>1, <2>2, SameReports DEF Turns
<1>3. ASSUME NEW kind \in AllKinds, NEW R \in Checked(kind), ReadOverdue(k, kind, R)
      PROVE  Informed'
  <2>1. PICK H \in SUBSET R :
              /\ Turns(k, kind, "write", FALSE, {}, H, {})
              /\ \A x \in H : report[x].legend \notin {"approved", "rejected"}
    BY <1>1, <1>3, CheckedType, ReadOverdueSlot
  <2>2. UNCHANGED <<report, crossed>> /\ kind \in {"overdue", "overdueCron"}
    BY <1>3 DEF ReadOverdue, history
  <2>3. \A x \in Held(k)' \ crossed' : Knows(k, x)'
    BY <2>1, <2>2 DEF Turns, Knows
  <2>4. QED
    BY <1>1, <2>1, <2>2, <2>3, SameReports DEF Turns
<1>4. CASE LoadForDecision(k, r)
  <2>1. /\ Turns(k, op[k].kind, op[k].at, op[k].temp, op[k].todo \ {r}, Held(k) \cup {r}, op[k].seen)
        /\ \A x \in Held(k) \cup {r} :
              op'[k].rows[x] = IF x = r THEN report[r] ELSE op[k].rows[x]
    BY <1>1, <1>4, LoadForDecisionSlot
  <2>2. UNCHANGED <<report, crossed>> /\ op[k].kind \in {"assign", "reject"}
    BY <1>4 DEF LoadForDecision, history
  <2>3. Knows(k, r)'
    BY <2>1, <2>2 DEF Turns, Knows
  <2>4. QED
    BY <1>1, <2>1, <2>2, <2>3, SameReports DEF Turns
<1>5. CASE LoadForApproval(k, r)
  <2>1. /\ Turns(k, "approve", IF op[k].temp THEN "places" ELSE "save", op[k].temp,
                    op[k].todo \ {r}, {r}, op[k].seen)
        /\ op'[k].rows[r] = report[r]
    BY <1>1, <1>5, LoadForApprovalSlot
  <2>2. UNCHANGED <<report, crossed>>
    BY <1>5 DEF LoadForApproval, history
  <2>3. Knows(k, r)'
    BY <2>1, <2>2 DEF Turns, Knows
  <2>4. QED
    BY <1>1, <2>1, <2>2, <2>3, SameReports DEF Turns
<1>6. CASE ReadPlaces(k, r)
  <2>1. /\ Others(k) /\ Held(k)' = Held(k) /\ op'[k].kind = op[k].kind
        /\ op'[k].rows = op[k].rows
    BY <1>1, <1>6, ReadPlacesSlot DEF Turns
  <2>2. UNCHANGED <<report, crossed>>
    BY <1>6 DEF ReadPlaces
  <2>3. QED
    BY <1>1, <2>1, <2>2, SameReports
<1>7. QED
  BY <1>2, <1>3, <1>4, <1>5, <1>6

\* The steps on infos.
LEMMA WriteInfoInformed ==
    ASSUME Sound, Informed, NEW k \in Slots, NEW s \in op[k].seen, Mitigate(k, s) \/ Revert(k, s)
    PROVE  Informed'
<1>1. /\ Others(k) /\ Held(k)' = Held(k) /\ op'[k].kind = op[k].kind
      /\ op'[k].rows = op[k].rows /\ s[1] \in Infos
  BY WriteInfo DEF Turns
<1>2. UNCHANGED <<report, crossed>>
  BY DEF Mitigate, Revert, history
<1>3. QED
  BY <1>1, <1>2, SameReports

LEMMA RemainingInformed ==
    ASSUME Sound, Informed, NEW k \in Slots, NEW r \in Reports, Advance(k, Remaining(k, r)),
           op[k].kind \in {"approve", "shipment"}, UNCHANGED report, crossed \subseteq crossed'
    PROVE  Informed'
<1>1. \/ Others(k) /\ Held(k)' = {}
      \/ Others(k) /\ op'[k].kind = op[k].kind /\ op[k].kind = "shipment" /\ Held(k)' = Held(k) \ {r}
  BY RemainingSlot, SlotSound DEF Turns, Stops
<1>2. QED
  BY <1>1, SameReports

LEMMA EndingInformed ==
    ASSUME Sound, Informed, NEW k \in Requests, NEW r \in Reports,
           PlacesDone(k, r) \/ FailReport(k, r) \/ OverdueError(k, r)
    PROVE  Informed'
<1>1. k \in Slots /\ TypeOK /\ Shaped(k)
  BY SlotSound DEF Slots
<1>2. CASE PlacesDone(k, r)
  <2>1. UNCHANGED <<report, crossed>> /\ Advance(k, Remaining(k, r)) /\ op[k].kind = "shipment"
    BY <1>2 DEF PlacesDone, history
  <2>2. QED
    BY <1>1, <2>1, RemainingInformed
<1>3. CASE FailReport(k, r)
  <2>1. UNCHANGED <<report, crossed>>
    BY <1>3 DEF FailReport
  <2>2. QED
    BY <1>1, <1>3, <2>1, FailReportWhat, RemainingInformed
<1>4. CASE OverdueError(k, r)
  <2>1. UNCHANGED <<report, crossed>>
    BY <1>4 DEF OverdueError, history
  <2>2. \/ Advance(k, Idle)
        \/ Advance(k, [op[k] EXCEPT !.rows = [x \in Held(k) \ {r} |-> @[x]]])
    BY <1>4 DEF OverdueError
  <2>3. \/ Others(k) /\ Held(k)' = {}
        \/ /\ Others(k) /\ op'[k].kind = op[k].kind /\ Held(k)' = Held(k) \ {r}
           /\ \A x \in Held(k) \ {r} : op'[k].rows[x] = op[k].rows[x]
    BY <1>1, <2>2, GoesIdle, RowsSlot DEF Turns, Stops
  <2>4. QED
    BY <1>1, <2>1, <2>3, SameReports
<1>5. QED
  BY <1>2, <1>3, <1>4

\* The cron's queries and errors, and the crashes.
LEMMA CronInformed ==
    ASSUME Sound, Informed, NEW k \in Slots,
           \/ FindExpired(k) \/ RevertError(k) \/ Crash(k)
           \/ \E r \in Reports : FindMitigated(k, r)
    PROVE  Informed'
<1>1. TypeOK /\ Shaped(k)
  BY SlotSound
<1>2. CASE FindExpired(k)
  <2>1. Others(k) /\ Held(k)' = Expired /\ op'[k].kind = "expire"
    BY <1>1, <1>2, FindExpiredSlot DEF Turns
  <2>2. UNCHANGED <<report, crossed>>
    BY <1>2 DEF FindExpired
  <2>3. \A x \in Held(k)' : Knows(k, x)'
    BY <2>1, <2>2 DEF Knows, Expired, Temporary
  <2>4. QED
    BY <2>1, <2>2, <2>3, SameReports
<1>3. ASSUME NEW r \in Reports, FindMitigated(k, r)
      PROVE  Informed'
  <2>1. Others(k) /\ Held(k)' = Held(k) /\ op'[k].kind = op[k].kind /\ op'[k].rows = op[k].rows
    BY <1>1, <1>3, FindMitigatedSlot DEF Turns, FindMitigated
  <2>2. UNCHANGED <<report, crossed>>
    BY <1>3 DEF FindMitigated, history
  <2>3. QED
    BY <2>1, <2>2, SameReports
<1>4. CASE RevertError(k)
  <2>1. Others(k) /\ Held(k)' = Held(k) /\ op'[k].kind = op[k].kind /\ op'[k].rows = op[k].rows
    BY <1>1, <1>4, SeenSlot, TodoSlot DEF Turns, RevertError
  <2>2. UNCHANGED <<report, crossed>>
    BY <1>4 DEF RevertError
  <2>3. QED
    BY <2>1, <2>2, SameReports
<1>5. CASE Crash(k)
  <2>1. Others(k) /\ Held(k)' = {}
    BY <1>1, <1>5, GoesIdle DEF Turns, Stops, Crash
  <2>2. UNCHANGED <<report, crossed>>
    BY <1>5 DEF Crash
  <2>3. QED
    BY <2>1, <2>2, SameReports
<1>6. QED
  BY <1>2, <1>3, <1>4, <1>5

\* The reports of R are written, and slot k is left with none of them or knows them.
LEMMA Written ==
    ASSUME Sound, Informed, NEW k \in Slots, NEW R \in SUBSET Reports, Others(k), Crosses(k, R),
           \A r \in Reports \ R : report'[r] = report[r],
           \A r \in R : Temporary(r)' => r \in crossed' \/ (report'[r].temp /\ report'[r].expiry # "none"),
           \A r \in Held(k)' \ crossed' :
              \/ Knows(k, r)'
              \/ r \in Held(k) \ R /\ op'[k].kind = op[k].kind /\ op'[k].rows[r] = op[k].rows[r]
    PROVE  Informed'
<1>1. crossed \subseteq crossed' /\ \A r \in R, l \in Slots \ {k} : r \in Held(l) => r \in crossed'
  BY CrossesWhat
<1>2. \A r \in Held(k)' \ crossed' : Knows(k, r)'
  <2> SUFFICES ASSUME NEW r \in Held(k)' \ crossed', ~Knows(k, r)'
               PROVE  FALSE
    OBVIOUS
  <2>1. r \in Held(k) \ R /\ op'[k].kind = op[k].kind /\ op'[k].rows[r] = op[k].rows[r]
        /\ r \in Reports
    BY SlotSound
  <2>2. Knows(k, r) /\ report'[r] = report[r]
    BY <1>1, <2>1 DEF Informed, RowsKnown
  <2>3. QED
    BY <2>1, <2>2 DEF Knows, Temporary
<1>3. RowsKnown'
  BY <1>1, <1>2, SlotsKnow DEF Informed
<1>4. Findable'
  <2> SUFFICES ASSUME NEW r \in Reports \ crossed', Temporary(r)'
               PROVE  report'[r].temp /\ report'[r].expiry # "none"
    BY DEF Findable
  <2>1. CASE r \in R
    BY <2>1
  <2>2. CASE r \notin R
    BY <1>1, <2>2 DEF Informed, Findable, Temporary
  <2>3. QED
    BY <2>1, <2>2
<1>5. QED
  BY <1>3, <1>4 DEF Informed

LEMMA DecidingInformed ==
    ASSUME Sound, Informed, NEW k \in Slots, CommitDecision(k)
    PROVE  Informed'
<1> DEFINE d == Decision(op[k].kind, FALSE)
<1>1. TypeOK /\ Held(k) \subseteq Reports /\ \A r \in Held(k) : op[k].rows[r] \in Row
  BY SlotSound, Fields
<1>2. Others(k) /\ Held(k)' = {} /\ Crosses(k, Held(k))
  BY <1>1, GoesIdle DEF CommitDecision, Stops, Turns
<1>3. d \in Row /\ d.legend # "temporary_approved" /\ op[k].kind \in {"assign", "reject"}
  BY DecisionRow DEF CommitDecision, AllKinds
<1> HIDE DEF d
<1>4. crossed \subseteq crossed'
  BY <1>1, <1>2, CrossesWhat
<1>5. ASSUME NEW r \in Held(k), Temporary(r)', r \notin crossed'
      PROVE  FALSE
  <2>1. report'[r] \in {Saved(r, op[k].rows[r], d), Overwritten(r, d)}
    BY CommitDecisionReport DEF d
  <2>2. op[k].rows[r].legend = report[r].legend
    BY <1>3, <1>4, <1>5 DEF Informed, RowsKnown, Knows
  <2>3. report'[r].legend = d.legend
    BY <1>1, <1>3, <2>1, <2>2, SavedRow, OverwrittenRow
  <2>4. QED
    BY <1>3, <1>5, <2>3 DEF Temporary
<1>6. \A r \in Reports \ Held(k) : report'[r] = report[r]
  BY CommitDecisionReport
<1>7. QED
  BY <1>1, <1>2, <1>5, <1>6, Written

LEMMA ShippingInformed ==
    ASSUME Sound, Informed, NEW k \in Slots, UpdateForShipment(k)
    PROVE  Informed'
<1> DEFINE d == Decision("shipment", op[k].temp)
<1>1. TypeOK /\ op[k].todo \subseteq Reports /\ op[k].temp \in BOOLEAN
  BY SlotSound, Fields
<1>2. /\ d \in Row /\ d.legend = IF op[k].temp THEN "temporary_approved" ELSE "approved"
      /\ d.temp = op[k].temp /\ d.expiry = "running"
  BY <1>1, DecisionRow DEF AllKinds
<1>3. /\ \A r \in op[k].todo : report'[r] = Overwritten(r, d)
      /\ \A r \in Reports \ op[k].todo : report'[r] = report[r]
      /\ Crosses(k, op[k].todo)
  BY UpdateForShipmentReport DEF UpdateForShipment
<1> HIDE DEF d
<1>4. \A r \in op[k].todo : /\ report'[r].legend = d.legend /\ report'[r].temp = d.temp
                            /\ d.legend # "approved" => report'[r].expiry = "running"
  BY <1>1, <1>2, <1>3, OverwrittenRow
<1>5. \/ op[k].temp /\ Others(k) /\ Held(k)' = op[k].todo /\ op'[k].kind = "shipment"
      \/ Others(k) /\ Held(k)' = {}
  BY <1>1, UpdateForShipmentSlot DEF Turns, Stops
<1>6. \A r \in op[k].todo : Temporary(r)' => report'[r].temp /\ report'[r].expiry # "none"
  BY <1>2, <1>4 DEF Temporary
<1>7. \A r \in Held(k)' : Knows(k, r)'
  BY <1>2, <1>4, <1>5 DEF Knows, Temporary
<1>8. QED
  BY <1>1, <1>3, <1>5, <1>6, <1>7, Written

LEMMA SavingInformed ==
    ASSUME Sound, Informed, NEW k \in Slots, NEW r \in Reports, SaveApproval(k, r)
    PROVE  Informed'
<1> DEFINE d == Decision("approve", op[k].temp)
<1>1. TypeOK /\ Held(k) = {r} /\ op[k].temp \in BOOLEAN /\ op[k].kind = "approve"
  BY SlotSound, Fields DEF SaveApproval, Shaped
<1>2. /\ d.legend = IF op[k].temp THEN "temporary_approved" ELSE "approved"
      /\ d.temp = op[k].temp
  BY <1>1, DecisionRow DEF AllKinds
<1>3. /\ report'[r] = Saved(r, op[k].rows[r], d) /\ op[k].rows[r] \in Row /\ d \in Row
      /\ \A x \in Reports \ {r} : report'[x] = report[x]
  BY SaveApprovalReport
<1> HIDE DEF d
<1>4. Crosses(k, {r}) /\ Others(k) /\ Held(k)' = {}
  BY <1>1, RemainingSlot DEF SaveApproval, Turns, Stops
<1>5. {r} \in SUBSET Reports
  OBVIOUS
<1>6. crossed \subseteq crossed'
  BY <1>4, <1>5, CrossesWhat
<1>7. Temporary(r)' => r \in crossed' \/ (report'[r].temp /\ report'[r].expiry # "none")
  <2> SUFFICES ASSUME Temporary(r)', r \notin crossed'
               PROVE  report'[r].temp /\ report'[r].expiry # "none"
    OBVIOUS
  <2>1. op[k].rows[r].legend = report[r].legend /\ op[k].rows[r].temp = report[r].temp
    BY <1>1, <1>6 DEF Informed, RowsKnown, Knows
  <2>2. report'[r].legend = d.legend /\ report'[r].temp = d.temp
        /\ (d.legend = "temporary_approved" => report'[r].expiry = "running")
    BY <1>3, <2>1, SavedRow
  <2>3. QED
    BY <1>2, <2>2 DEF Temporary
<1>8. QED
  BY <1>3, <1>4, <1>5, <1>7, Written

LEMMA OverdueInformed ==
    ASSUME Sound, Informed, NEW k \in Slots, NEW R \in SUBSET Reports, WriteOverdue(k, R)
    PROVE  Informed'
<1>1. TypeOK /\ op[k].kind \in {"overdue", "overdueCron"} /\ Crosses(k, R)
  BY SlotSound DEF WriteOverdue
<1>2. /\ \A r \in Reports \ R : report'[r] = report[r]
      /\ \A r \in R : report'[r].legend \in {"overdue", "pending"}
  BY WriteOverdueReport
<1>3. \/ Advance(k, Idle)
      \/ Advance(k, [op[k] EXCEPT !.rows = [r \in Held(k) \ R |-> @[r]]])
  BY DEF WriteOverdue
<1>4. \/ Others(k) /\ Held(k)' = {}
      \/ /\ Others(k) /\ op'[k].kind = op[k].kind /\ Held(k)' = Held(k) \ R
         /\ \A x \in Held(k) \ R : op'[k].rows[x] = op[k].rows[x]
  BY <1>1, <1>3, GoesIdle, RowsSlot DEF Turns, Stops
<1>5. \A r \in R : ~Temporary(r)'
  BY <1>2 DEF Temporary
<1>6. QED
  BY <1>1, <1>2, <1>4, <1>5, Written

LEMMA UpdateExpiredInformed ==
    ASSUME Sound, Informed, NEW k \in Slots, UpdateExpired(k)
    PROVE  Informed'
<1>1. TypeOK /\ Crosses(k, Held(k)) /\ Held(k) \in SUBSET Reports
  BY SlotSound DEF UpdateExpired
<1>2. Others(k) /\ Held(k)' = {}
  BY <1>1, GoesIdle DEF UpdateExpired, Turns, Stops
<1>3. /\ \A r \in Reports \ Held(k) : report'[r] = report[r]
      /\ \A r \in Held(k) : ~Temporary(r)'
  BY UpdateExpiredReport DEF Temporary
<1>4. QED
  BY <1>1, <1>2, <1>3, Written

LEMMA OutsideInformed ==
    ASSUME Sound, Informed,
           \/ \E r \in Reports : CreateRequestAdditionalInformation(r) \/ Expire(r) \/ Age(r)
           \/ \E i \in Infos : RiskMitigation(i)
    PROVE  Informed'
<1>1. "none" \notin Slots /\ report \in [Reports -> Row] /\ TypeOK
  BY ConstantsAssumption DEF Sound, TypeOK
<1>2. ASSUME NEW r \in Reports, CreateRequestAdditionalInformation(r)
      PROVE  Informed'
  <2>1. /\ Crosses("none", {r}) /\ UNCHANGED op /\ {r} \in SUBSET Reports
        /\ report' = [report EXCEPT ![r].legend = "update_required"]
    BY <1>2 DEF CreateRequestAdditionalInformation
  <2>2. crossed \subseteq crossed' /\ \A l \in Slots : r \in Held(l) => r \in crossed'
    BY <1>1, <2>1, CrossesWhat
  <2>3. /\ ~Temporary(r)'
        /\ \A x \in Reports \ {r} : report'[x] = report[x]
    <3>1. [report[r] EXCEPT !.legend = "update_required"].legend = "update_required"
      BY <1>1 DEF Row
    <3>2. report'[r].legend = "update_required"
      BY <1>1, <2>1, <3>1
    <3>3. QED
      BY <1>1, <2>1, <3>2 DEF Temporary
  <2>4. RowsKnown'
    <3>1. Others("none") /\ RowsKnown
      BY <2>1 DEF Others, Informed
    <3>2. \A x \in Reports, l \in Slots \ {"none"} : x \in Held(l) => report'[x] = report[x] \/ x \in crossed'
      BY <2>2, <2>3
    <3>3. \A l \in Slots \ {"none"} : \A x \in Held(l)' \ crossed' : Knows(l, x)'
      BY <2>2, <3>1, <3>2, OthersKnow
    <3>4. QED
      BY <1>1, <3>3 DEF RowsKnown
  <2>5. Findable'
    BY <2>2, <2>3 DEF Informed, Findable, Temporary
  <2>6. QED
    BY <2>4, <2>5 DEF Informed
<1>3. ASSUME NEW r \in Reports, Expire(r)
      PROVE  Informed'
  <2>1. /\ UNCHANGED <<op, crossed>> /\ report[r].expiry = "running"
        /\ \A k \in Requests : op[k].kind = "shipment" => r \notin Held(k)
    BY <1>3 DEF Expire, history
  <2>2. /\ \A x \in Reports \ {r} : report'[x] = report[x]
        /\ report'[r].legend = report[r].legend /\ report'[r].temp = report[r].temp
        /\ report'[r].expiry = "past"
    <3> DEFINE e == [report[r] EXCEPT !.expiry = "past"]
    <3>1. e.legend = report[r].legend /\ e.temp = report[r].temp /\ e.expiry = "past"
      BY <1>1 DEF Row
    <3>2. report' = [report EXCEPT ![r] = e]
      BY <1>3 DEF Expire
    <3> HIDE DEF e
    <3>3. QED
      BY <1>1, <3>1, <3>2
  <2>3. ASSUME NEW l \in Slots, NEW x \in Held(l)' \ crossed'
        PROVE  Knows(l, x)'
    <3>1. x \in Held(l) \ crossed /\ x \in Reports /\ op'[l] = op[l]
      BY <2>1, SlotSound DEF Held
    <3>2. Knows(l, x)
      BY <3>1 DEF Informed, RowsKnown
    <3>3. CASE x # r
      BY <2>2, <3>1, <3>2, <3>3 DEF Knows, Temporary
    <3>4. CASE x = r
      <4>1. op[l].kind # "shipment"
        BY <2>1, <3>1, <3>4, SlotSound DEF Slots, Shaped
      <4>2. QED
        BY <2>2, <3>1, <3>2, <3>4, <4>1 DEF Knows, Temporary
    <3>5. QED
      BY <3>3, <3>4
  <2>4. Findable'
    BY <2>1, <2>2 DEF Informed, Findable, Temporary
  <2>5. QED
    BY <2>3, <2>4 DEF Informed, RowsKnown
<1>4. ASSUME \/ \E r \in Reports : Age(r)
             \/ \E i \in Infos : RiskMitigation(i)
      PROVE  Informed'
  <2>1. UNCHANGED <<report, op>> /\ crossed \subseteq crossed'
    BY <1>4 DEF Age, RiskMitigation, Crosses, history
  <2>2. RowsKnown'
    BY <1>1, <2>1, OthersKnow DEF Others, RowsKnown, Informed
  <2>3. Findable'
    BY <2>1 DEF Informed, Findable, Temporary
  <2>4. QED
    BY <2>2, <2>3 DEF Informed
<1>5. QED
  BY <1>2, <1>3, <1>4

LEMMA StutterInformed ==
    ASSUME Sound, Informed, UNCHANGED vars
    PROVE  Informed'
<1>1. "none" \notin Slots /\ UNCHANGED <<report, op, crossed>>
  BY ConstantsAssumption DEF vars, history
<1>2. RowsKnown'
  BY <1>1, OthersKnow DEF Others, RowsKnown, Informed
<1>3. Findable'
  BY <1>1 DEF Informed, Findable, Temporary
<1>4. QED
  BY <1>2, <1>3 DEF Informed

LEMMA NextInformed ==
    ASSUME Sound, Informed, [Next]_vars
    PROVE  Informed'
<1>1. Requests \subseteq Slots /\ Crons \subseteq Slots
  BY DEF Slots
<1>2. ASSUME NEW k \in Requests,
             \/ \E kind \in AllKinds, R \in SUBSET Reports, temp \in BOOLEAN : Begin(k, kind, R, temp)
             \/ \E kind \in AllKinds : \E R \in Checked(kind) : ReadOverdue(k, kind, R)
      PROVE  Informed'
  <2>1. \E r \in Reports : TRUE
    BY <1>2, CheckedType DEF Begin, ReadOverdue
  <2>2. QED
    BY <1>2, <2>1, ReadingInformed
<1>3. ASSUME NEW k \in Requests, RequestStep(k)
      PROVE  Informed'
  <2>1. CASE \E r \in Reports :
                \/ LoadForDecision(k, r) \/ LoadForApproval(k, r) \/ ReadPlaces(k, r)
                \/ PlacesDone(k, r) \/ SaveApproval(k, r)
    BY <1>1, <2>1, ReadingInformed, EndingInformed, SavingInformed
  <2>2. CASE \E s \in op[k].seen : Mitigate(k, s)
    BY <1>1, <2>2, WriteInfoInformed
  <2>3. CASE CommitDecision(k) \/ UpdateForShipment(k) \/ \E R \in SUBSET Reports : WriteOverdue(k, R)
    BY <1>1, <2>3, DecidingInformed, ShippingInformed, OverdueInformed
  <2>4. QED
    BY <1>3, <2>1, <2>2, <2>3 DEF RequestStep
<1>4. ASSUME NEW k \in Requests, NEW r \in Reports, FailReport(k, r) \/ OverdueError(k, r)
      PROVE  Informed'
  BY <1>4, EndingInformed
<1>5. ASSUME NEW k \in Slots, (k \in Crons /\ RevertError(k)) \/ Crash(k) \/ (k \in Crons /\ CronStep(k))
      PROVE  Informed'
  <2>1. CASE UpdateExpired(k)
    BY <2>1, UpdateExpiredInformed
  <2>2. CASE \E s \in op[k].seen : Revert(k, s)
    BY <2>2, WriteInfoInformed
  <2>3. CASE \/ FindExpired(k) \/ RevertError(k) \/ Crash(k)
             \/ \E r \in Reports : FindMitigated(k, r)
    BY <2>3, CronInformed
  <2>4. QED
    BY <1>5, <2>1, <2>2, <2>3 DEF CronStep
<1>6. CASE UNCHANGED vars
  BY <1>6, StutterInformed
<1>7. QED
  BY <1>1, <1>2, <1>3, <1>4, <1>5, <1>6, OutsideInformed DEF Next

LEMMA InitInformed == Init => Informed
<1> SUFFICES ASSUME Init
             PROVE  Informed
  OBVIOUS
<1>1. \A k \in Slots : Held(k) = {}
  BY IdleOperation DEF Init, Held
<1>2. \A r \in Reports : ~Temporary(r)
  BY DEF Init, Temporary
<1>3. QED
  BY <1>1, <1>2 DEF Informed, RowsKnown, Findable

LEMMA AlwaysInformed == Spec => [](Sound /\ Informed)
<1>1. Init => Sound /\ Informed
  BY InitSound, InitInformed
<1>2. Sound /\ Informed /\ [Next]_vars => Sound' /\ Informed'
  BY NextSound, NextInformed
<1>3. QED
  BY <1>1, <1>2, PTL DEF Spec

-----------------------------------------------------------------------------
(* The flag of a temporary approval *)

LEMMA FlagsKept ==
    ASSUME Sound, Flagged, NEW k, Others(k), toggled \subseteq toggled',
           \A r \in Reports \ toggled' : Fine(report'[r]),
           \A r \in Reports \ toggled', l \in Slots \ {k} :
              r \in Held(l) /\ op[l].kind \in Savers => report'[r].temp = report[r].temp,
           k \in Slots => \A r \in Held(k)' \ toggled' : op'[k].kind \in Savers =>
              Fine(op'[k].rows[r]) /\ op'[k].rows[r].temp = report'[r].temp
    PROVE  Flagged'
<1> SUFFICES ASSUME NEW r \in Reports \ toggled', NEW l \in Slots,
                    op'[l].kind \in Savers, r \in Held(l)'
             PROVE  Fine(op'[l].rows[r]) /\ op'[l].rows[r].temp = report'[r].temp
  BY DEF Flagged, Fine
<1>1. CASE l = k
  BY <1>1
<1>2. CASE l # k
  <2>1. op'[l] = op[l] /\ r \in Held(l)
    BY <1>2 DEF Others, Held
  <2>2. Fine(op[l].rows[r]) /\ op[l].rows[r].temp = report[r].temp /\ report'[r].temp = report[r].temp
    BY <1>2, <2>1 DEF Flagged
  <2>3. QED
    BY <2>1, <2>2
<1>3. QED
  BY <1>1, <1>2

\* No report is written; slot k has loaded rows as they are, or keeps those it had.
LEMMA SameFlags ==
    ASSUME Sound, Flagged, NEW k \in Slots, Others(k), UNCHANGED <<report, toggled>>,
           \A r \in Held(k)' : op'[k].kind \in Savers =>
              \/ op'[k].rows[r] = report[r]
              \/ r \in Held(k) /\ op'[k].kind = op[k].kind /\ op'[k].rows[r] = op[k].rows[r]
    PROVE  Flagged'
<1>1. \A r \in Reports \ toggled' : Fine(report'[r])
  BY DEF Flagged
<1>2. ASSUME NEW r \in Held(k)' \ toggled', op'[k].kind \in Savers, r \in Reports
      PROVE  Fine(op'[k].rows[r]) /\ op'[k].rows[r].temp = report'[r].temp
  <2>1. CASE op'[k].rows[r] = report[r]
    BY <1>2, <2>1 DEF Flagged
  <2>2. CASE r \in Held(k) /\ op'[k].kind = op[k].kind /\ op'[k].rows[r] = op[k].rows[r]
    BY <1>2, <2>2 DEF Flagged
  <2>3. QED
    BY <1>2, <2>1, <2>2
<1>3. SUFFICES ASSUME NEW r \in Reports \ toggled', NEW l \in Slots,
                      op'[l].kind \in Savers, r \in Held(l)'
               PROVE  Fine(op'[l].rows[r]) /\ op'[l].rows[r].temp = report'[r].temp
  BY <1>1 DEF Flagged, Fine
<1>4. CASE l = k
  BY <1>2, <1>3, <1>4
<1>5. CASE l # k
  <2>1. op'[l] = op[l] /\ r \in Held(l)
    BY <1>3, <1>5 DEF Others, Held
  <2>2. Fine(op[l].rows[r]) /\ op[l].rows[r].temp = report[r].temp
    BY <1>3, <2>1 DEF Flagged
  <2>3. QED
    BY <2>1, <2>2
<1>6. QED
  BY <1>4, <1>5

\* The reports of R are written by slot k, which is left without rows to save, or
\* by nobody's slot.
LEMMA WrittenFlags ==
    ASSUME Sound, Flagged, NEW k, NEW R \in SUBSET Reports, Others(k), Crosses(k, R),
           \A r \in Reports \ R : report'[r] = report[r],
           \A r \in R \ toggled' : Fine(report'[r]),
           k \in Slots => Held(k)' = {} \/ op'[k].kind \notin Savers
    PROVE  Flagged'
<1>1. toggled \subseteq toggled'
  BY DEF Crosses
<1>2. ASSUME NEW r \in Reports \ toggled'
      PROVE  Fine(report'[r])
  BY <1>1, <1>2 DEF Flagged
<1>3. ASSUME NEW r \in Reports \ toggled', NEW l \in Slots \ {k}, r \in Held(l), op[l].kind \in Savers
      PROVE  report'[r].temp = report[r].temp
  BY <1>3 DEF Crosses
<1>4. QED
  BY <1>1, <1>2, <1>3, FlagsKept

LEMMA DecisionFine ==
    ASSUME NEW kind \in AllKinds \ {"overdue", "overdueCron"}, NEW temp \in BOOLEAN
    PROVE  /\ Fine(Decision(kind, temp))
           /\ Decision(kind, temp).legend \in {"pending_approval", "rejected", "approved", "temporary_approved"}
<1>1. CASE kind = "assign"
  BY <1>1 DEF Decision, Fine
<1>2. CASE kind = "reject"
  BY <1>2 DEF Decision, Fine
<1>3. CASE kind \notin {"assign", "reject"}
  BY <1>3 DEF Decision, Fine
<1>4. QED
  BY <1>1, <1>2, <1>3

\* save() leaves no column of a decision out that was not in the row as decided.
LEMMA SavedFine ==
    ASSUME Sound, NEW r \in Reports, NEW row \in Row, NEW d \in Row,
           Fine(report[r]), Fine(row), row.temp = report[r].temp, Fine(d),
           d.legend \in {"pending_approval", "rejected", "approved", "temporary_approved"}
    PROVE  Fine(Saved(r, row, d))
<1> DEFINE new == Saved(r, row, d)
<1>1. /\ report[r].temp \in BOOLEAN /\ row.temp \in BOOLEAN /\ d.temp \in BOOLEAN
  BY DEF Sound, TypeOK, Row
<1>2. /\ new.temp = d.temp
      /\ new.legend = IF d.legend # row.legend THEN d.legend ELSE report[r].legend
      /\ d.legend = "temporary_approved" => new.expiry = "running"
  BY SavedRow DEF Saved
<1> HIDE DEF new
<1>3. d.temp = (d.legend = "temporary_approved")
  BY <1>1 DEF Fine
<1>4. ASSUME d.legend # row.legend
      PROVE  Fine(new)
  BY <1>1, <1>2, <1>3, <1>4 DEF Fine
<1>5. ASSUME d.legend = row.legend
      PROVE  Fine(new)
  <2>1. report[r].temp = (d.legend = "temporary_approved")
    BY <1>1, <1>3, <1>5 DEF Fine
  <2>2. QED
    BY <1>1, <1>2, <1>3, <1>5, <2>1 DEF Fine
<1>6. Fine(new)
  BY <1>4, <1>5
<1>7. QED
  BY <1>6 DEF new

LEMMA OverwrittenFine ==
    ASSUME Sound, NEW r \in Reports, NEW d \in Row, Fine(d)
    PROVE  Fine(Overwritten(r, d))
<1>1. /\ Overwritten(r, d).legend = d.legend /\ Overwritten(r, d).temp = d.temp
      /\ d.legend # "approved" => Overwritten(r, d).expiry = d.expiry
  BY OverwrittenRow
<1>2. QED
  BY <1>1 DEF Fine

LEMMA ReadingFlags ==
    ASSUME Sound, Flagged, NEW k \in Requests, NEW r \in Reports,
           \/ \E kind \in AllKinds, R \in SUBSET Reports, temp \in BOOLEAN : Begin(k, kind, R, temp)
           \/ \E kind \in AllKinds : \E R \in Checked(kind) : ReadOverdue(k, kind, R)
           \/ LoadForDecision(k, r) \/ LoadForApproval(k, r) \/ ReadPlaces(k, r)
    PROVE  Flagged'
<1>1. k \in Slots /\ TypeOK
  BY SlotSound DEF Slots
<1>2. ASSUME NEW kind \in AllKinds, NEW R \in SUBSET Reports, NEW temp \in BOOLEAN, Begin(k, kind, R, temp)
      PROVE  Flagged'
  <2>1. Turns(k, kind, "load", temp, R, {}, {})
    BY <1>1, <1>2, BeginSlot
  <2>2. UNCHANGED <<report, toggled>> /\ Others(k) /\ Held(k)' = {}
    BY <1>2, <2>1 DEF Begin, history, Turns
  <2>3. QED
    BY <1>1, <2>1, <2>2, SameFlags
<1>3. ASSUME NEW kind \in AllKinds, NEW R \in Checked(kind), ReadOverdue(k, kind, R)
      PROVE  Flagged'
  <2>1. Others(k) /\ op'[k].kind = kind
    BY <1>1, <1>3, CheckedType, ReadOverdueSlot DEF Turns
  <2>2. UNCHANGED <<report, toggled>> /\ kind \notin Savers
    BY <1>3 DEF ReadOverdue, history, Savers
  <2>3. QED
    BY <1>1, <2>1, <2>2, SameFlags
<1>4. CASE LoadForDecision(k, r)
  <2>1. /\ Others(k) /\ Held(k)' = Held(k) \cup {r} /\ op'[k].kind = op[k].kind
        /\ \A x \in Held(k) \cup {r} :
              op'[k].rows[x] = IF x = r THEN report[r] ELSE op[k].rows[x]
    BY <1>1, <1>4, LoadForDecisionSlot DEF Turns
  <2>2. UNCHANGED <<report, toggled>>
    BY <1>4 DEF LoadForDecision, history
  <2>3. QED
    BY <1>1, <2>1, <2>2, SameFlags
<1>5. CASE LoadForApproval(k, r)
  <2>1. Others(k) /\ Held(k)' = {r} /\ op'[k].rows[r] = report[r]
    BY <1>1, <1>5, LoadForApprovalSlot DEF Turns
  <2>2. UNCHANGED <<report, toggled>>
    BY <1>5 DEF LoadForApproval, history
  <2>3. QED
    BY <1>1, <2>1, <2>2, SameFlags
<1>6. CASE ReadPlaces(k, r)
  <2>1. /\ Others(k) /\ Held(k)' = Held(k) /\ op'[k].kind = op[k].kind
        /\ op'[k].rows = op[k].rows
    BY <1>1, <1>6, ReadPlacesSlot DEF Turns
  <2>2. UNCHANGED <<report, toggled>>
    BY <1>6 DEF ReadPlaces
  <2>3. QED
    BY <1>1, <2>1, <2>2, SameFlags
<1>7. QED
  BY <1>2, <1>3, <1>4, <1>5, <1>6

LEMMA EndingFlags ==
    ASSUME Sound, Flagged, NEW k \in Requests, NEW r \in Reports,
           PlacesDone(k, r) \/ FailReport(k, r) \/ OverdueError(k, r)
    PROVE  Flagged'
<1>1. k \in Slots /\ TypeOK /\ Shaped(k)
  BY SlotSound DEF Slots
<1>2. UNCHANGED <<report, toggled>>
  BY DEF PlacesDone, FailReport, OverdueError, history
<1>3. CASE PlacesDone(k, r) \/ FailReport(k, r)
  <2>1. Advance(k, Remaining(k, r)) /\ op[k].kind \in {"approve", "shipment"}
    BY <1>1, <1>3, FailReportWhat DEF PlacesDone
  <2>2. \/ Others(k) /\ Held(k)' = {}
        \/ Others(k) /\ op'[k].kind = "shipment"
    BY <1>1, <2>1, RemainingSlot, SlotSound DEF Turns, Stops
  <2>3. QED
    BY <1>1, <1>2, <2>2, SameFlags DEF Savers
<1>4. CASE OverdueError(k, r)
  <2>1. /\ \/ Advance(k, Idle)
           \/ Advance(k, [op[k] EXCEPT !.rows = [x \in Held(k) \ {r} |-> @[x]]])
        /\ op[k].kind = "overdueCron"
    BY <1>4 DEF OverdueError
  <2>2. \/ Others(k) /\ Held(k)' = {}
        \/ Others(k) /\ op'[k].kind = "overdueCron"
    BY <1>1, <2>1, GoesIdle, RowsSlot DEF Turns, Stops
  <2>3. QED
    BY <1>1, <1>2, <2>2, SameFlags DEF Savers
<1>5. QED
  BY <1>3, <1>4

LEMMA CronFlags ==
    ASSUME Sound, Flagged, NEW k \in Slots,
           \/ FindExpired(k) \/ RevertError(k) \/ Crash(k)
           \/ \E r \in Reports : FindMitigated(k, r)
           \/ \E s \in op[k].seen : Mitigate(k, s) \/ Revert(k, s)
    PROVE  Flagged'
<1>1. TypeOK /\ Shaped(k)
  BY SlotSound
<1>2. UNCHANGED <<report, toggled>>
  BY DEF FindExpired, RevertError, Crash, FindMitigated, Mitigate, Revert, history
<1>3. CASE FindExpired(k)
  <2>1. Others(k) /\ op'[k].kind = "expire"
    BY <1>1, <1>3, FindExpiredSlot DEF Turns
  <2>2. QED
    BY <1>2, <2>1, SameFlags DEF Savers
<1>4. CASE Crash(k)
  <2>1. Others(k) /\ Held(k)' = {}
    BY <1>1, <1>4, GoesIdle DEF Turns, Stops, Crash
  <2>2. QED
    BY <1>2, <2>1, SameFlags
<1>5. CASE \/ RevertError(k)
           \/ \E r \in Reports : FindMitigated(k, r)
           \/ \E s \in op[k].seen : Mitigate(k, s) \/ Revert(k, s)
  <2> DEFINE Stays == /\ Others(k) /\ Held(k)' = Held(k)
                      /\ op'[k].kind = op[k].kind /\ op'[k].rows = op[k].rows
  <2>1. ASSUME RevertError(k)
        PROVE  Stays
    BY <1>1, <2>1, SeenSlot, TodoSlot DEF Turns, RevertError
  <2>2. ASSUME NEW r \in Reports, FindMitigated(k, r)
        PROVE  Stays
    BY <1>1, <2>2, FindMitigatedSlot DEF Turns, FindMitigated
  <2>3. ASSUME NEW s \in op[k].seen, Mitigate(k, s) \/ Revert(k, s)
        PROVE  Stays
    BY <2>3, WriteInfo DEF Turns
  <2> HIDE DEF Stays
  <2>4. Stays
    BY <1>5, <2>1, <2>2, <2>3
  <2>5. QED
    BY <1>2, <2>4, SameFlags DEF Stays
<1>6. QED
  BY <1>3, <1>4, <1>5

\* The decisions, the overdue checks and the end of the expiry write the reports.
LEMMA DecidingFlags ==
    ASSUME Sound, Flagged, NEW k \in Slots, CommitDecision(k)
    PROVE  Flagged'
<1> DEFINE d == Decision(op[k].kind, FALSE)
<1>1. TypeOK /\ Held(k) \in SUBSET Reports /\ \A r \in Held(k) : op[k].rows[r] \in Row
  BY SlotSound, Fields
<1>2. Others(k) /\ Held(k)' = {} /\ Crosses(k, Held(k)) /\ op[k].kind \in {"assign", "reject"}
  BY <1>1, GoesIdle DEF CommitDecision, Stops, Turns
<1>3. /\ d \in Row /\ Fine(d)
      /\ d.legend \in {"pending_approval", "rejected", "approved", "temporary_approved"}
  BY <1>2, DecisionRow, DecisionFine DEF AllKinds
<1>4. /\ \A r \in Reports \ Held(k) : report'[r] = report[r]
      /\ \A r \in Held(k) : report'[r] \in {Saved(r, op[k].rows[r], d), Overwritten(r, d)}
  BY CommitDecisionReport
<1> HIDE DEF d
<1>5. ASSUME NEW r \in Held(k) \ toggled'
      PROVE  Fine(report'[r])
  <2>1. r \in Reports \ toggled
    BY <1>1, <1>2, <1>5 DEF Crosses
  <2>2. Fine(report[r]) /\ Fine(op[k].rows[r]) /\ op[k].rows[r].temp = report[r].temp
    BY <1>2, <1>5, <2>1 DEF Flagged, Savers
  <2>3. Fine(Saved(r, op[k].rows[r], d)) /\ Fine(Overwritten(r, d))
    BY <1>1, <1>3, <2>1, <2>2, SavedFine, OverwrittenFine
  <2>4. QED
    BY <1>4, <2>3
<1>6. QED
  BY <1>1, <1>2, <1>4, <1>5, WrittenFlags

LEMMA ShippingFlags ==
    ASSUME Sound, Flagged, NEW k \in Slots, UpdateForShipment(k)
    PROVE  Flagged'
<1> DEFINE d == Decision("shipment", op[k].temp)
<1>1. TypeOK /\ op[k].todo \in SUBSET Reports /\ op[k].temp \in BOOLEAN
  BY SlotSound, Fields
<1>2. d \in Row /\ Fine(d)
  BY <1>1, DecisionRow, DecisionFine DEF AllKinds
<1>3. /\ \A r \in op[k].todo : report'[r] = Overwritten(r, d)
      /\ \A r \in Reports \ op[k].todo : report'[r] = report[r]
      /\ Crosses(k, op[k].todo)
  BY UpdateForShipmentReport DEF UpdateForShipment
<1> HIDE DEF d
<1>4. \A r \in op[k].todo : Fine(report'[r])
  BY <1>1, <1>2, <1>3, OverwrittenFine
<1>5. \/ Others(k) /\ op'[k].kind = "shipment"
      \/ Others(k) /\ Held(k)' = {}
  BY <1>1, UpdateForShipmentSlot DEF Turns, Stops
<1>6. QED
  BY <1>1, <1>3, <1>4, <1>5, WrittenFlags DEF Savers

LEMMA SavingFlags ==
    ASSUME Sound, Flagged, NEW k \in Slots, NEW r \in Reports, SaveApproval(k, r)
    PROVE  Flagged'
<1> DEFINE d == Decision("approve", op[k].temp)
<1>1. TypeOK /\ Held(k) = {r} /\ op[k].temp \in BOOLEAN /\ op[k].kind = "approve"
  BY SlotSound, Fields DEF SaveApproval, Shaped
<1>2. Fine(d) /\ d.legend \in {"pending_approval", "rejected", "approved", "temporary_approved"}
  BY <1>1, DecisionFine DEF AllKinds
<1>3. /\ report'[r] = Saved(r, op[k].rows[r], d) /\ op[k].rows[r] \in Row /\ d \in Row
      /\ \A x \in Reports \ {r} : report'[x] = report[x]
  BY SaveApprovalReport
<1> HIDE DEF d
<1>4. Crosses(k, {r}) /\ Others(k) /\ Held(k)' = {} /\ {r} \in SUBSET Reports
  BY <1>1, RemainingSlot DEF SaveApproval, Turns, Stops
<1>5. ASSUME r \notin toggled'
      PROVE  Fine(report'[r])
  <2>1. r \notin toggled
    BY <1>4, <1>5 DEF Crosses
  <2>2. Fine(report[r]) /\ Fine(op[k].rows[r]) /\ op[k].rows[r].temp = report[r].temp
    BY <1>1, <2>1 DEF Flagged, Savers
  <2>3. QED
    BY <1>2, <1>3, <2>2, SavedFine
<1>6. QED
  BY <1>3, <1>4, <1>5, WrittenFlags

LEMMA OverdueFlags ==
    ASSUME Sound, Flagged, NEW k \in Slots, NEW R \in SUBSET Reports, WriteOverdue(k, R)
    PROVE  Flagged'
<1>1. TypeOK /\ op[k].kind \in {"overdue", "overdueCron"} /\ Crosses(k, R)
  BY SlotSound DEF WriteOverdue
<1>2. /\ \A r \in Reports \ R : report'[r] = report[r]
      /\ \A r \in R : /\ report'[r].legend \in {"overdue", "pending"}
                      /\ report'[r].temp = report[r].temp /\ report'[r].expiry = report[r].expiry
  BY WriteOverdueReport
<1>3. \/ Advance(k, Idle)
      \/ Advance(k, [op[k] EXCEPT !.rows = [r \in Held(k) \ R |-> @[r]]])
  BY DEF WriteOverdue
<1>4. \/ Others(k) /\ Held(k)' = {}
      \/ Others(k) /\ op'[k].kind = op[k].kind
  BY <1>1, <1>3, GoesIdle, RowsSlot DEF Turns, Stops
<1>5. ASSUME NEW r \in R \ toggled'
      PROVE  Fine(report'[r])
  <2>1. Fine(report[r])
    BY <1>1, <1>5 DEF Crosses, Flagged
  <2>2. QED
    BY <1>2, <1>5, <2>1 DEF Fine
<1>6. QED
  BY <1>1, <1>2, <1>4, <1>5, WrittenFlags DEF Savers

LEMMA ExpiredFlags ==
    ASSUME Sound, Flagged, NEW k \in Slots, UpdateExpired(k)
    PROVE  Flagged'
<1>1. TypeOK /\ Crosses(k, Held(k)) /\ Held(k) \in SUBSET Reports
  BY SlotSound DEF UpdateExpired
<1>2. Others(k) /\ Held(k)' = {}
  BY <1>1, GoesIdle DEF UpdateExpired, Turns, Stops
<1>3. /\ \A r \in Reports \ Held(k) : report'[r] = report[r]
      /\ \A r \in Held(k) : report'[r] = Decision("assign", FALSE)
  BY <1>1 DEF UpdateExpired
<1>4. Fine(Decision("assign", FALSE))
  BY DecisionFine DEF AllKinds
<1>5. QED
  BY <1>1, <1>2, <1>3, <1>4, WrittenFlags

LEMMA OutsideFlags ==
    ASSUME Sound, Flagged,
           \/ UNCHANGED vars
           \/ \E r \in Reports : CreateRequestAdditionalInformation(r) \/ Expire(r) \/ Age(r)
           \/ \E i \in Infos : RiskMitigation(i)
    PROVE  Flagged'
<1>1. "none" \notin Slots /\ report \in [Reports -> Row]
  BY ConstantsAssumption DEF Sound, TypeOK
<1>2. UNCHANGED op /\ Others("none")
  BY DEF vars, CreateRequestAdditionalInformation, Expire, Age, RiskMitigation, Others
<1>3. toggled \subseteq toggled'
  BY DEF vars, history, CreateRequestAdditionalInformation, Expire, Age, RiskMitigation, Crosses
<1> DEFINE Kin(x) == report'[x].temp = report[x].temp /\ (Fine(report[x]) => Fine(report'[x]))
<1>4. ASSUME NEW x \in Reports
      PROVE  Kin(x)
  <2>1. ASSUME NEW r \in Reports, CreateRequestAdditionalInformation(r)
        PROVE  Kin(x)
    <3> DEFINE e == [report[r] EXCEPT !.legend = "update_required"]
    <3>1. e.legend = "update_required" /\ e.temp = report[r].temp /\ e.expiry = report[r].expiry
      BY <1>1 DEF Row
    <3>2. report' = [report EXCEPT ![r] = e]
      BY <2>1 DEF CreateRequestAdditionalInformation
    <3> HIDE DEF e
    <3>3. QED
      BY <1>1, <3>1, <3>2 DEF Fine
  <2>2. ASSUME NEW r \in Reports, Expire(r)
        PROVE  Kin(x)
    <3> DEFINE e == [report[r] EXCEPT !.expiry = "past"]
    <3>1. e.legend = report[r].legend /\ e.temp = report[r].temp /\ e.expiry = "past"
      BY <1>1 DEF Row
    <3>2. report' = [report EXCEPT ![r] = e]
      BY <2>2 DEF Expire
    <3> HIDE DEF e
    <3>3. QED
      BY <1>1, <3>1, <3>2 DEF Fine
  <2>3. CASE UNCHANGED report
    BY <2>3
  <2>4. QED
    BY <2>1, <2>2, <2>3 DEF vars, Age, RiskMitigation
<1>5. \A r \in Reports \ toggled' : Fine(report'[r])
  BY <1>3, <1>4 DEF Flagged
<1>6. QED
  BY <1>1, <1>2, <1>3, <1>4, <1>5, FlagsKept

LEMMA NextFlags ==
    ASSUME Sound, Flagged, [Next]_vars
    PROVE  Flagged'
<1>1. Requests \subseteq Slots /\ Crons \subseteq Slots
  BY DEF Slots
<1>2. ASSUME NEW k \in Requests,
             \/ \E kind \in AllKinds, R \in SUBSET Reports, temp \in BOOLEAN : Begin(k, kind, R, temp)
             \/ \E kind \in AllKinds : \E R \in Checked(kind) : ReadOverdue(k, kind, R)
      PROVE  Flagged'
  <2>1. \E r \in Reports : TRUE
    BY <1>2, CheckedType DEF Begin, ReadOverdue
  <2>2. QED
    BY <1>2, <2>1, ReadingFlags
<1>3. ASSUME NEW k \in Requests, RequestStep(k)
      PROVE  Flagged'
  <2>1. CASE \E r \in Reports :
                \/ LoadForDecision(k, r) \/ LoadForApproval(k, r) \/ ReadPlaces(k, r)
                \/ PlacesDone(k, r) \/ SaveApproval(k, r)
    BY <1>1, <2>1, ReadingFlags, EndingFlags, SavingFlags
  <2>2. CASE \E s \in op[k].seen : Mitigate(k, s)
    BY <1>1, <2>2, CronFlags
  <2>3. CASE CommitDecision(k) \/ UpdateForShipment(k) \/ \E R \in SUBSET Reports : WriteOverdue(k, R)
    BY <1>1, <2>3, DecidingFlags, ShippingFlags, OverdueFlags
  <2>4. QED
    BY <1>3, <2>1, <2>2, <2>3 DEF RequestStep
<1>4. ASSUME NEW k \in Requests, NEW r \in Reports, FailReport(k, r) \/ OverdueError(k, r)
      PROVE  Flagged'
  BY <1>4, EndingFlags
<1>5. ASSUME NEW k \in Slots, (k \in Crons /\ RevertError(k)) \/ Crash(k) \/ (k \in Crons /\ CronStep(k))
      PROVE  Flagged'
  <2>1. CASE UpdateExpired(k)
    BY <2>1, ExpiredFlags
  <2>2. CASE \/ FindExpired(k) \/ RevertError(k) \/ Crash(k)
             \/ \E r \in Reports : FindMitigated(k, r)
             \/ \E s \in op[k].seen : Revert(k, s)
    BY <2>2, CronFlags
  <2>3. QED
    BY <1>5, <2>1, <2>2 DEF CronStep
<1>6. QED
  BY <1>1, <1>2, <1>3, <1>4, <1>5, OutsideFlags DEF Next

LEMMA InitFlags == Init => Flagged
<1> SUFFICES ASSUME Init
             PROVE  Flagged
  OBVIOUS
<1>1. \A k \in Slots : Held(k) = {}
  BY IdleOperation DEF Init, Held
<1>2. \A r \in Reports : Fine(report[r])
  BY DEF Init, Fine
<1>3. QED
  BY <1>1, <1>2 DEF Flagged

\* A temporary approval can be found by the expiry cron, unless another operation
\* changed the flag of its report between a load and the save() of that row: but for
\* that, a flag that save() leaves out of its update stands in the column already.
THEOREM ApprovalsExpire == Spec => []TemporaryExpires
<1>1. Init => Sound /\ Flagged
  BY InitSound, InitFlags
<1>2. Sound /\ Flagged /\ [Next]_vars => Sound' /\ Flagged'
  BY NextSound, NextFlags
<1>3. Flagged => TemporaryExpires
  BY DEF Flagged, Fine, TemporaryExpires, Temporary
<1>4. QED
  BY <1>1, <1>2, <1>3, PTL DEF Spec

-----------------------------------------------------------------------------
(* The jobs and the decided reports *)

LEMMA JobStep ==
    ASSUME Sound, Informed, [Next]_vars, NEW r \in Reports, NEW k \in Slots,
           report[r].legend \in {"approved", "rejected"}, report'[r].legend # report[r].legend,
           op[k].kind \in {"overdue", "overdueCron", "expire"}, op'[k] # op[k]
    PROVE  r \in crossed'
<1>1. report # report' /\ op # op' /\ TypeOK
  BY SlotSound
<1>2. ASSUME NEW l \in Slots, CommitDecision(l) \/ UpdateForShipment(l)
             \/ \E x \in Reports : SaveApproval(l, x)
      PROVE  FALSE
  <2>1. op[l].kind \in {"assign", "reject", "shipment", "approve"}
    BY <1>2 DEF CommitDecision, UpdateForShipment, SaveApproval
  <2>2. Others(l)
    BY <1>1, <1>2, GoesIdle, UpdateForShipmentSlot, RemainingSlot
       DEF CommitDecision, SaveApproval, Stops, Turns
  <2>3. l # k
    BY <2>1
  <2>4. QED
    BY <2>2, <2>3 DEF Others
<1>3. ASSUME NEW l \in Slots, NEW R \in SUBSET Reports, WriteOverdue(l, R)
      PROVE  r \in crossed'
  <2>1. Crosses(l, R) /\ op[l].kind \in {"overdue", "overdueCron"}
    BY <1>3 DEF WriteOverdue
  <2>2. r \in R /\ R \subseteq Held(l)
    BY <1>3, WriteOverdueReport
  <2>3. r \in crossed
    BY <2>1, <2>2 DEF Informed, RowsKnown, Knows
  <2>4. QED
    BY <2>1, <2>3 DEF Crosses
<1>4. ASSUME NEW l \in Slots, UpdateExpired(l)
      PROVE  r \in crossed'
  <2>1. Crosses(l, Held(l)) /\ op[l].kind = "expire"
    BY <1>4 DEF UpdateExpired
  <2>2. r \in Held(l)
    BY <1>4, UpdateExpiredReport
  <2>3. r \in crossed
    BY <2>1, <2>2 DEF Informed, RowsKnown, Knows, Temporary
  <2>4. QED
    BY <2>1, <2>3 DEF Crosses
<1>5. ASSUME NEW l \in Requests, RequestStep(l)
      PROVE  r \in crossed'
  <2>1. l \in Slots
    BY DEF Slots
  <2>2. CASE \E x \in Reports : LoadForDecision(l, x) \/ LoadForApproval(l, x) \/ ReadPlaces(l, x)
                               \/ PlacesDone(l, x)
    BY <1>1, <2>2 DEF LoadForDecision, LoadForApproval, ReadPlaces, PlacesDone
  <2>3. CASE \E s \in op[l].seen : Mitigate(l, s)
    BY <1>1, <2>3 DEF Mitigate
  <2>4. QED
    BY <1>2, <1>3, <1>5, <2>1, <2>2, <2>3 DEF RequestStep
<1>6. ASSUME NEW l \in Crons, CronStep(l)
      PROVE  r \in crossed'
  <2>1. l \in Slots
    BY DEF Slots
  <2>2. ~FindExpired(l) /\ ~(\E x \in Reports : FindMitigated(l, x)) /\ ~(\E s \in op[l].seen : Revert(l, s))
    BY <1>1 DEF FindExpired, FindMitigated, Revert
  <2>3. QED
    BY <1>4, <1>6, <2>1, <2>2 DEF CronStep
<1>7. /\ \A l \in Requests : /\ \A kind \in AllKinds, R \in SUBSET Reports, temp \in BOOLEAN : ~Begin(l, kind, R, temp)
                             /\ \A kind \in AllKinds : \A R \in Checked(kind) : ~ReadOverdue(l, kind, R)
                             /\ \A x \in Reports : ~FailReport(l, x) /\ ~OverdueError(l, x)
      /\ \A l \in Crons : ~RevertError(l)
      /\ \A l \in Slots : ~Crash(l)
  BY <1>1 DEF Begin, ReadOverdue, FailReport, OverdueError, RevertError, Crash
<1>8. /\ \A x \in Reports : ~CreateRequestAdditionalInformation(x) /\ ~Expire(x) /\ ~Age(x)
      /\ \A i \in Infos : ~RiskMitigation(i)
  BY <1>1 DEF CreateRequestAdditionalInformation, Expire, Age, RiskMitigation
<1>9. Next
  BY <1>1 DEF vars
<1>10. QED
  BY <1>5, <1>6, <1>7, <1>8, <1>9 DEF Next

\* The overdue check and the expiry cron change no decided report, unless the decision
\* fell between their query and their update.
THEOREM DecidedReportsStand == Spec => DecisionsStand
<1>1. Sound /\ Informed /\ [Next]_vars =>
      [\A r \in Reports, k \in Slots :
          /\ report[r].legend \in {"approved", "rejected"} /\ report'[r].legend # report[r].legend
          /\ op[k].kind \in {"overdue", "overdueCron", "expire"} /\ op'[k] # op[k]
          => r \in crossed']_vars
  BY JobStep
<1>2. QED
  BY <1>1, AlwaysInformed, PTL DEF Spec, DecisionsStand

-----------------------------------------------------------------------------
(* The statuses of the infos *)

\* A step that neither writes an info nor queries the places of a report.
Calm ==
    /\ UNCHANGED <<info, truth, overlaid>>
    /\ \A k \in Slots : op'[k].seen \subseteq op[k].seen

LEMMA CalmSlot ==
    ASSUME NEW k \in Slots, Others(k), op'[k].seen \subseteq op[k].seen,
           UNCHANGED <<info, truth, overlaid>>
    PROVE  Calm
  BY DEF Others, Calm

LEMMA CalmRequests ==
    ASSUME Sound, NEW k \in Requests,
           \/ \E kind \in AllKinds, R \in SUBSET Reports, temp \in BOOLEAN : Begin(k, kind, R, temp)
           \/ \E kind \in AllKinds : \E R \in Checked(kind) : ReadOverdue(k, kind, R)
           \/ \E r \in Reports : \/ LoadForDecision(k, r) \/ LoadForApproval(k, r) \/ PlacesDone(k, r)
                                 \/ SaveApproval(k, r) \/ OverdueError(k, r)
           \/ CommitDecision(k) \/ UpdateForShipment(k) \/ \E R \in SUBSET Reports : WriteOverdue(k, R)
    PROVE  Calm
<1>1. k \in Slots /\ TypeOK
  BY SlotSound DEF Slots
<1>2. UNCHANGED <<info, truth, overlaid>>
  BY DEF Begin, ReadOverdue, LoadForDecision, LoadForApproval, PlacesDone, SaveApproval, OverdueError,
         CommitDecision, UpdateForShipment, WriteOverdue, history
<1>3. Others(k) /\ op'[k].seen \subseteq op[k].seen
  <2>1. ASSUME NEW kind \in AllKinds, NEW R \in SUBSET Reports, NEW temp \in BOOLEAN, Begin(k, kind, R, temp)
        PROVE  Others(k) /\ op'[k].seen \subseteq op[k].seen
    <3>1. Turns(k, kind, "load", temp, R, {}, {})
      BY <1>1, <2>1, BeginSlot
    <3>2. QED
      BY <3>1 DEF Turns
  <2>2. ASSUME NEW kind \in AllKinds, NEW R \in Checked(kind), ReadOverdue(k, kind, R)
        PROVE  Others(k) /\ op'[k].seen \subseteq op[k].seen
    BY <1>1, <2>2, CheckedType, ReadOverdueSlot DEF Turns
  <2>3. ASSUME NEW r \in Reports, LoadForDecision(k, r) \/ LoadForApproval(k, r)
        PROVE  Others(k) /\ op'[k].seen \subseteq op[k].seen
    BY <1>1, <2>3, LoadForDecisionSlot, LoadForApprovalSlot DEF Turns
  <2>4. ASSUME NEW r \in Reports, PlacesDone(k, r) \/ SaveApproval(k, r)
        PROVE  Others(k) /\ op'[k].seen \subseteq op[k].seen
    BY <1>1, <2>4, RemainingSlot DEF PlacesDone, SaveApproval, Turns, Stops
  <2>5. ASSUME CommitDecision(k) \/ UpdateForShipment(k)
        PROVE  Others(k) /\ op'[k].seen \subseteq op[k].seen
    BY <1>1, <2>5, GoesIdle, UpdateForShipmentSlot DEF CommitDecision, Turns, Stops
  <2>6. ASSUME NEW R \in SUBSET Reports, WriteOverdue(k, R)
        PROVE  Others(k) /\ op'[k].seen \subseteq op[k].seen
    <3>1. \/ Advance(k, Idle)
          \/ Advance(k, [op[k] EXCEPT !.rows = [r \in Held(k) \ R |-> @[r]]])
      BY <2>6 DEF WriteOverdue
    <3>2. QED
      BY <1>1, <3>1, GoesIdle, RowsSlot DEF Turns, Stops
  <2>7. ASSUME NEW r \in Reports, OverdueError(k, r)
        PROVE  Others(k) /\ op'[k].seen \subseteq op[k].seen
    <3>1. \/ Advance(k, Idle)
          \/ Advance(k, [op[k] EXCEPT !.rows = [x \in Held(k) \ {r} |-> @[x]]])
      BY <2>7 DEF OverdueError
    <3>2. QED
      BY <1>1, <3>1, GoesIdle, RowsSlot DEF Turns, Stops
  <2>8. QED
    BY <2>1, <2>2, <2>3, <2>4, <2>5, <2>6, <2>7
<1>4. QED
  BY <1>1, <1>2, <1>3, CalmSlot

LEMMA CalmCrons ==
    ASSUME Sound, NEW k \in Slots,
           FindExpired(k) \/ UpdateExpired(k) \/ RevertError(k) \/ Crash(k)
    PROVE  Calm
<1>1. UNCHANGED <<info, truth, overlaid>>
  BY DEF FindExpired, UpdateExpired, RevertError, Crash
<1>2. Others(k) /\ op'[k].seen \subseteq op[k].seen
  BY SlotSound, FindExpiredSlot, GoesIdle, SeenSlot, TodoSlot
     DEF UpdateExpired, RevertError, Crash, Turns, Stops
<1>3. QED
  BY <1>1, <1>2, CalmSlot

LEMMA CalmOutside ==
    ASSUME \/ UNCHANGED vars
           \/ \E r \in Reports : CreateRequestAdditionalInformation(r) \/ Expire(r) \/ Age(r)
    PROVE  Calm
  BY DEF vars, history, CreateRequestAdditionalInformation, Expire, Age, Calm

\* The steps that are not calm.
LEMMA Steps ==
    ASSUME Sound, [Next]_vars
    PROVE  \/ Calm
           \/ \E k \in Requests, r \in Reports : ReadPlaces(k, r) \/ FailReport(k, r)
           \/ \E k \in Slots : \E s \in op[k].seen : Mitigate(k, s) \/ Revert(k, s)
           \/ \E k \in Crons, r \in Reports : FindMitigated(k, r)
           \/ \E i \in Infos : RiskMitigation(i)
<1>1. Requests \subseteq Slots /\ Crons \subseteq Slots
  BY DEF Slots
<1>2. CASE UNCHANGED vars
  BY <1>2, CalmOutside
<1>3. CASE \E k \in Requests : RequestStep(k)
  BY <1>1, <1>3, CalmRequests DEF RequestStep
<1>4. CASE \E k \in Crons : CronStep(k) \/ RevertError(k)
  BY <1>1, <1>4, CalmCrons DEF CronStep
<1>5. QED
  BY <1>1, <1>2, <1>3, <1>4, CalmRequests, CalmCrons, CalmOutside DEF Next

LEMMA ZeroStep ==
    ASSUME Sound, ZeroUntouched, [Next]_vars
    PROVE  ZeroUntouched'
<1>1. Requests \subseteq Slots /\ Crons \subseteq Slots
  BY DEF Slots
<1>2. CASE Calm
  BY <1>2 DEF Calm, ZeroUntouched
<1>3. ASSUME NEW k \in Requests, NEW r \in Reports, ReadPlaces(k, r)
      PROVE  ZeroUntouched'
  <2>1. Others(k) /\ op'[k].seen = ToMitigate(r) /\ UNCHANGED info
    BY <1>1, <1>3, SlotSound, ReadPlacesSlot DEF Turns, ReadPlaces
  <2>2. \A s \in ToMitigate(r) : s[2] # Zero /\ info[s[1]].status # Zero
    BY <1>1, SlotSound, ToMitigateType
  <2>3. QED
    BY <2>1, <2>2 DEF Others, ZeroUntouched
<1>4. ASSUME NEW k \in Crons, NEW r \in Reports, FindMitigated(k, r)
      PROVE  ZeroUntouched'
  <2>1. Others(k) /\ op'[k].seen = Originals(r) /\ UNCHANGED info
    BY <1>1, <1>4, SlotSound, FindMitigatedSlot DEF Turns, FindMitigated
  <2>2. \A s \in Originals(r) : s[2] # Zero /\ info[s[1]].status # Zero
    BY <1>1, SlotSound, FoundType DEF ZeroUntouched
  <2>3. QED
    BY <2>1, <2>2 DEF Others, ZeroUntouched
<1>5. ASSUME NEW k \in Slots, NEW s \in op[k].seen, Mitigate(k, s) \/ Revert(k, s)
      PROVE  ZeroUntouched'
  <2>1. /\ s[1] \in Infos /\ \A i \in Infos \ {s[1]} : info'[i] = info[i]
        /\ Others(k) /\ op'[k].seen \subseteq op[k].seen
        /\ \/ info'[s[1]].status = Mitigated /\ info'[s[1]].original = s[2]
           \/ info'[s[1]].status = s[2] /\ info'[s[1]].original = Null
    BY <1>5, WriteInfo DEF Turns
  <2>2. s[2] # Zero
    BY DEF ZeroUntouched
  <2>3. info'[s[1]].status # Zero /\ info'[s[1]].original # Zero
    BY <2>1, <2>2 DEF Zero, Mitigated, Null
  <2>4. \A l \in Slots : op'[l].seen \subseteq op[l].seen /\ \A t \in op[l].seen : t[1] \in Infos
    BY <2>1, SlotSound, Fields DEF Others
  <2>5. QED
    BY <2>1, <2>3, <2>4 DEF ZeroUntouched
<1>6. ASSUME NEW k \in Requests, NEW r \in Reports, FailReport(k, r)
      PROVE  ZeroUntouched'
  <2>1. \A i \in Infos : \/ info'[i] = info[i]
                         \/ /\ info'[i].status = Mitigated
                            /\ \E s \in op[k].seen : s[2] = info'[i].original
    BY <1>1, <1>6, FailReportWhat
  <2>2. \A i \in Infos : info'[i].status = Zero => info'[i] = info[i]
    BY <2>1 DEF Zero, Mitigated
  <2>3. \A i \in Infos : info'[i].original # Zero
    BY <1>1, <2>1 DEF ZeroUntouched
  <2>4. \A l \in Slots : op'[l].seen \subseteq op[l].seen /\ \A t \in op[l].seen : t[1] \in Infos
    <3>1. Others(k) /\ op'[k].seen = {}
      BY <1>1, <1>6, FailReportWhat, RemainingFields
    <3>2. QED
      BY <3>1, SlotSound, Fields DEF Others
  <2>5. QED
    BY <2>2, <2>3, <2>4 DEF ZeroUntouched
<1>7. ASSUME NEW i \in Infos, RiskMitigation(i)
      PROVE  ZeroUntouched'
  <2>1. UNCHANGED op /\ info' = [info EXCEPT ![i].status = Mitigated]
    BY <1>7 DEF RiskMitigation
  <2>2. info \in [Infos -> [status : DeforestationStatus, original : DeforestationStatus]]
    BY DEF Sound, TypeOK
  <2>3. /\ \A x \in Infos \ {i} : info'[x] = info[x]
        /\ info'[i].status = Mitigated /\ info'[i].original = info[i].original
    BY <2>1, <2>2
  <2>4. \A l \in Slots : \A t \in op[l].seen : t[1] \in Infos
    BY SlotSound, Fields
  <2>5. QED
    BY <2>1, <2>3, <2>4 DEF ZeroUntouched, Zero, Mitigated
<1>8. QED
  BY <1>2, <1>3, <1>4, <1>5, <1>6, <1>7, Steps

LEMMA KeptStep ==
    ASSUME Sound, AllKept, [Next]_vars
    PROVE  AllKept'
<1>1. Requests \subseteq Slots /\ Crons \subseteq Slots
  BY DEF Slots
<1>2. CASE Calm
  BY <1>2 DEF Calm, AllKept, Kept
<1>3. ASSUME NEW k \in Requests, NEW r \in Reports, ReadPlaces(k, r)
      PROVE  AllKept'
  <2>1. /\ Others(k) /\ op'[k].seen = ToMitigate(r) /\ UNCHANGED <<info, truth>>
        /\ overlaid' = overlaid \cup {i \in Infos : info[i].original # Null
                                             /\ <<i, info[i].status>> \in ToMitigate(r)}
    BY <1>1, <1>3, SlotSound, ReadPlacesSlot DEF Turns, ReadPlaces
  <2>2. ASSUME NEW i \in Infos \ overlaid', truth'[i] # Null
        PROVE  Kept(i)'
    <3>1. Kept(i)
      BY <2>1, <2>2 DEF AllKept
    <3>2. ASSUME NEW s \in ToMitigate(r), s[1] = i
          PROVE  s[2] = truth[i]
      <4>1. s[2] = info[i].status /\ s = <<i, info[i].status>>
        BY <1>1, <3>2 DEF ToMitigate
      <4>2. info[i].original = Null
        BY <2>1, <2>2, <3>2, <4>1
      <4>3. QED
        BY <3>1, <4>1, <4>2 DEF Kept
    <3>3. QED
      BY <2>1, <3>1, <3>2 DEF Kept, Others
  <2>3. QED
    BY <2>2 DEF AllKept
<1>4. ASSUME NEW k \in Crons, NEW r \in Reports, FindMitigated(k, r)
      PROVE  AllKept'
  <2>1. /\ Others(k) /\ op'[k].seen = Originals(r) /\ UNCHANGED <<info, truth, overlaid>>
    BY <1>1, <1>4, SlotSound, FindMitigatedSlot DEF Turns, FindMitigated, history
  <2>2. ASSUME NEW i \in Infos \ overlaid', truth'[i] # Null
        PROVE  Kept(i)'
    <3>1. Kept(i)
      BY <2>1, <2>2 DEF AllKept
    <3>2. \A s \in Originals(r) : s[1] = i => s[2] = info[i].original /\ s[2] # Null
      BY <1>1, SlotSound, FoundType
    <3>3. QED
      BY <2>1, <3>1, <3>2 DEF Kept, Others
  <2>3. QED
    BY <2>2 DEF AllKept
<1>5. ASSUME NEW k \in Slots, NEW s \in op[k].seen, Mitigate(k, s) \/ Revert(k, s)
      PROVE  AllKept'
  <2>1. /\ s[1] \in Infos /\ \A i \in Infos \ {s[1]} : info'[i] = info[i]
        /\ Others(k) /\ op'[k].seen \subseteq op[k].seen
        /\ \/ info'[s[1]].status = Mitigated /\ info'[s[1]].original = s[2]
           \/ info'[s[1]].status = s[2] /\ info'[s[1]].original = Null
    BY <1>5, WriteInfo DEF Turns
  <2>2. UNCHANGED <<truth, overlaid>>
    BY <1>5 DEF Mitigate, Revert, history
  <2>3. ASSUME NEW i \in Infos \ overlaid', truth'[i] # Null
        PROVE  Kept(i)'
    <3>1. Kept(i)
      BY <2>2, <2>3 DEF AllKept
    <3>2. i = s[1] => s[2] = truth[i]
      BY <3>1 DEF Kept
    <3>3. /\ info'[i].original = Null => info'[i].status = truth[i]
          /\ info'[i].original # Null => info'[i].original = truth[i]
      BY <2>1, <2>2, <2>3, <3>1, <3>2 DEF Kept
    <3>4. \A l \in Slots : op'[l].seen \subseteq op[l].seen
      BY <2>1 DEF Others
    <3>5. QED
      BY <2>2, <3>1, <3>3, <3>4 DEF Kept
  <2>4. QED
    BY <2>3 DEF AllKept
<1>6. ASSUME NEW k \in Requests, NEW r \in Reports, FailReport(k, r)
      PROVE  AllKept'
  <2>1. \A i \in Infos : \/ info'[i] = info[i]
                         \/ /\ info'[i].status = Mitigated
                            /\ \E s \in op[k].seen : s[1] = i /\ s[2] = info'[i].original
    BY <1>1, <1>6, FailReportWhat
  <2>2. \A l \in Slots : op'[l].seen \subseteq op[l].seen
    BY <1>1, <1>6, FailReportWhat, RemainingFields DEF Others
  <2>3. UNCHANGED <<truth, overlaid>>
    BY <1>6 DEF FailReport
  <2>4. ASSUME NEW i \in Infos \ overlaid', truth'[i] # Null
        PROVE  Kept(i)'
    <3>1. Kept(i)
      BY <2>3, <2>4 DEF AllKept
    <3>2. /\ info'[i].original = Null => info'[i].status = truth[i]
          /\ info'[i].original # Null => info'[i].original = truth[i]
      BY <1>1, <2>1, <2>3, <2>4, <3>1 DEF Kept
    <3>3. QED
      BY <2>2, <2>3, <3>1, <3>2 DEF Kept
  <2>5. QED
    BY <2>4 DEF AllKept
<1>7. ASSUME NEW i \in Infos, RiskMitigation(i)
      PROVE  AllKept'
  <2>1. /\ UNCHANGED op /\ info' = [info EXCEPT ![i].status = Mitigated]
        /\ truth' = [truth EXCEPT ![i] = Mitigated]
        /\ overlaid' = IF info[i].original # Null \/ \E k \in Slots : i \in HeldInfos(k)
                       THEN overlaid \cup {i} ELSE overlaid
    BY <1>7 DEF RiskMitigation
  <2>2. /\ info \in [Infos -> [status : DeforestationStatus, original : DeforestationStatus]]
        /\ truth \in [Infos -> DeforestationStatus]
    BY DEF Sound, TypeOK
  <2>3. /\ \A x \in Infos \ {i} : info'[x] = info[x] /\ truth'[x] = truth[x]
        /\ info'[i].status = Mitigated /\ info'[i].original = info[i].original
        /\ truth'[i] = Mitigated
    BY <2>1, <2>2
  <2>4. ASSUME NEW x \in Infos \ overlaid', truth'[x] # Null
        PROVE  Kept(x)'
    <3>1. CASE x # i
      <4>1. x \notin overlaid
        BY <2>1, <2>4
      <4>2. Kept(x)
        BY <2>3, <2>4, <3>1, <4>1 DEF AllKept
      <4>3. QED
        BY <2>1, <2>3, <3>1, <4>2 DEF Kept
    <3>2. CASE x = i
      <4>1. info[i].original = Null /\ \A k \in Slots : i \notin HeldInfos(k)
        BY <2>1, <2>4, <3>2
      <4>2. \A k \in Slots : \A s \in op[k].seen : s[1] # i
        BY <4>1 DEF HeldInfos
      <4>3. QED
        BY <2>1, <2>3, <3>2, <4>1, <4>2 DEF Kept
    <3>3. QED
      BY <3>1, <3>2
  <2>5. QED
    BY <2>4 DEF AllKept
<1>8. QED
  BY <1>2, <1>3, <1>4, <1>5, <1>6, <1>7, Steps

LEMMA InitIdle ==
    ASSUME Init
    PROVE  /\ \A k \in Slots : Held(k) = {} /\ op[k].seen = {} /\ op[k].at = "idle" /\ op[k].kind = "idle"
           /\ \A i \in Infos : info[i].original = Null /\ info[i].status = truth[i]
  BY IdleOperation DEF Init, Held

\* The statuses of the places survive approvals, expiries, their crashes and failures.
THEOREM StatusesKept == Spec => []StatusKept
<1>1. Init => AllKept
  BY InitIdle DEF AllKept, Kept
<1>2. Sound /\ AllKept /\ [Next]_vars => AllKept'
  BY KeptStep
<1>3. AllKept => StatusKept
  BY DEF AllKept, Kept, StatusKept
<1>4. QED
  BY <1>1, <1>2, <1>3, AlwaysSound, PTL DEF Spec

-----------------------------------------------------------------------------
(* Who answers for a mitigation *)

\* Slot k goes on: report r still answers for info i if what it owes to k does.
LEMMA AnswersKept ==
    ASSUME Sound, NEW k \in Slots, Others(k), NEW r \in Reports, NEW i \in Infos, Answers(r, i),
           r \in withdrawn \cup failed \cup crossed => Answers(r, i)',
           Temporary(r) => Temporary(r)' \/ Answers(r, i)',
           k \in Requests /\ op[k].kind = "approve" /\ op[k].temp /\ r \in Held(k) => Answers(r, i)',
           Temporary(r) /\ k \in Crons /\ (r \in Held(k) => r \in op[k].todo \/ i \in HeldInfos(k)) =>
              (r \in Held(k)' => r \in op'[k].todo \/ i \in HeldInfos(k)') \/ Answers(r, i)'
    PROVE  Answers(r, i)'
<1> SUFFICES ASSUME ~Answers(r, i)'
             PROVE  FALSE
  OBVIOUS
<1>1. \A l \in Slots \ {k} : op'[l] = op[l] /\ Held(l)' = Held(l) /\ HeldInfos(l)' = HeldInfos(l)
  BY DEF Others, Held, HeldInfos
<1>2. CASE \E l \in Requests : op[l].kind = "approve" /\ op[l].temp /\ r \in Held(l)
  BY <1>1, <1>2 DEF Answers, Slots
<1>3. CASE Temporary(r) /\ \A l \in Crons : r \in Held(l) => r \in op[l].todo \/ i \in HeldInfos(l)
  <2>1. Temporary(r)'
    BY <1>3
  <2>2. \A l \in Crons : r \in Held(l)' => r \in op'[l].todo \/ i \in HeldInfos(l)'
    BY <1>1, <1>3 DEF Slots
  <2>3. QED
    BY <2>1, <2>2 DEF Answers
<1>4. QED
  BY <1>2, <1>3 DEF Answers

\* A request goes on, and writes nothing.
LEMMA QuietExplained ==
    ASSUME Sound, Explained, NEW k \in Requests, Others(k),
           UNCHANGED <<report, info, withdrawn, failed, crossed>>,
           op[k].kind = "approve" /\ op[k].temp =>
              \/ Held(k) = {}
              \/ op'[k].kind = "approve" /\ op'[k].temp /\ Held(k) \subseteq Held(k)'
    PROVE  Explained'
<1>1. k \in Slots /\ k \notin Crons
  BY ConstantsAssumption DEF Slots
<1>2. ASSUME NEW i \in Infos, info'[i].original # Null
      PROVE  \E r \in Reports : i \in Places[r] /\ Answers(r, i)'
  <2>1. PICK r \in Reports : i \in Places[r] /\ Answers(r, i)
    BY <1>2 DEF Explained
  <2>2. Answers(r, i)'
    <3>1. r \in withdrawn \cup failed \cup crossed => Answers(r, i)'
      BY DEF Answers
    <3>2. op[k].kind = "approve" /\ op[k].temp /\ r \in Held(k) => Answers(r, i)'
      BY DEF Answers
    <3>3. Temporary(r)' = Temporary(r)
      BY DEF Temporary
    <3>4. QED
      BY <1>1, <2>1, <3>1, <3>2, <3>3, AnswersKept
  <2>3. QED
    BY <2>1, <2>2
<1>3. QED
  BY <1>2 DEF Explained

LEMMA QuietSteps ==
    ASSUME Sound, Explained, NEW k \in Requests,
           \/ \E kind \in AllKinds, R \in SUBSET Reports, temp \in BOOLEAN : Begin(k, kind, R, temp)
           \/ \E kind \in AllKinds : \E R \in Checked(kind) : ReadOverdue(k, kind, R)
           \/ \E r \in Reports : \/ LoadForDecision(k, r) \/ LoadForApproval(k, r) \/ ReadPlaces(k, r)
                                 \/ PlacesDone(k, r) \/ OverdueError(k, r)
    PROVE  Explained'
<1>1. k \in Slots /\ TypeOK /\ Shaped(k)
  BY SlotSound DEF Slots
<1>2. UNCHANGED <<report, info, withdrawn, failed, crossed>>
  BY DEF Begin, ReadOverdue, LoadForDecision, LoadForApproval, ReadPlaces, PlacesDone, OverdueError,
         history
<1>3. ASSUME NEW kind \in AllKinds, NEW R \in SUBSET Reports, NEW temp \in BOOLEAN, Begin(k, kind, R, temp)
      PROVE  Explained'
  <2>1. Turns(k, kind, "load", temp, R, {}, {}) /\ op[k].kind = "idle"
    BY <1>1, <1>3, BeginSlot DEF Begin
  <2>2. QED
    BY <1>2, <2>1, QuietExplained DEF Turns
<1>4. ASSUME NEW kind \in AllKinds, NEW R \in Checked(kind), ReadOverdue(k, kind, R)
      PROVE  Explained'
  <2>1. Others(k) /\ op[k].kind = "idle"
    BY <1>1, <1>4, CheckedType, ReadOverdueSlot DEF Turns, ReadOverdue
  <2>2. QED
    BY <1>2, <2>1, QuietExplained
<1>5. ASSUME NEW r \in Reports, LoadForDecision(k, r) \/ PlacesDone(k, r) \/ OverdueError(k, r)
      PROVE  Explained'
  <2>1. op[k].kind # "approve"
    BY <1>5 DEF LoadForDecision, PlacesDone, OverdueError
  <2>2. Others(k)
    BY <1>1, <1>5, LoadForDecisionSlot, RemainingSlot DEF PlacesDone, OverdueError, Advance, Turns,
       Stops, Others, TypeOK
  <2>3. QED
    BY <1>2, <2>1, <2>2, QuietExplained
<1>6. ASSUME NEW r \in Reports, LoadForApproval(k, r)
      PROVE  Explained'
  <2>1. Others(k) /\ Held(k) = {}
    BY <1>1, <1>6, LoadForApprovalSlot DEF Turns, Shaped, LoadForApproval
  <2>2. QED
    BY <1>2, <2>1, QuietExplained
<1>7. ASSUME NEW r \in Reports, ReadPlaces(k, r)
      PROVE  Explained'
  <2>1. Others(k) /\ op'[k].kind = op[k].kind /\ op'[k].temp = op[k].temp /\ Held(k)' = Held(k)
    BY <1>1, <1>7, ReadPlacesSlot DEF Turns
  <2>2. QED
    BY <1>2, <2>1, QuietExplained
<1>8. QED
  BY <1>3, <1>4, <1>5, <1>6, <1>7

\* Report r has been given a temporary approval by slot k: it answers.
LEMMA ApprovedAnswers ==
    ASSUME Sound, Sound', Informed, Informed', NEW k \in Requests, Others(k), NEW R \in SUBSET Reports,
           NEW r \in R, Crosses(k, R), Temporary(r)' \/ r \in crossed', NEW i \in Infos
    PROVE  Answers(r, i)'
<1>1. k \notin Crons
  BY ConstantsAssumption
<1>2. ASSUME NEW l \in Crons, r \in Held(l)'
      PROVE  r \in crossed'
  <2>1. l \in Slots \ {k} /\ r \in Held(l)
    BY <1>1, <1>2 DEF Others, Held, Slots
  <2>2. QED
    BY <2>1, CrossesWhat
<1>3. QED
  BY <1>2 DEF Answers

\* The reports of R lose their approval: those that had a temporary one are withdrawn.
LEMMA WithdrawingExplained ==
    ASSUME Sound, Explained, NEW k \in Requests, Others(k), NEW R \in SUBSET Reports, NEW legend,
           Withdraws(R, legend), legend # "temporary_approved",
           \A r \in Reports \ R : report'[r] = report[r],
           UNCHANGED <<info, failed>>, crossed \subseteq crossed',
           \A r \in Held(k), i \in Infos : op[k].kind = "approve" /\ op[k].temp => Answers(r, i)'
    PROVE  Explained'
<1>1. k \in Slots /\ k \notin Crons
  BY ConstantsAssumption DEF Slots
<1>2. withdrawn \subseteq withdrawn' /\ \A r \in R : Temporary(r) => r \in withdrawn'
  BY WithdrawsWhat
<1>3. ASSUME NEW i \in Infos, info'[i].original # Null
      PROVE  \E r \in Reports : i \in Places[r] /\ Answers(r, i)'
  <2>1. PICK r \in Reports : i \in Places[r] /\ Answers(r, i)
    BY <1>3 DEF Explained
  <2>2. r \in withdrawn \cup failed \cup crossed => Answers(r, i)'
    BY <1>2 DEF Answers
  <2>3. Temporary(r) => Temporary(r)' \/ Answers(r, i)'
    <3>1. CASE r \in R
      BY <1>2, <3>1 DEF Answers
    <3>2. CASE r \notin R
      BY <3>2 DEF Temporary
    <3>3. QED
      BY <3>1, <3>2
  <2>4. Answers(r, i)'
    BY <1>1, <2>1, <2>2, <2>3, AnswersKept
  <2>5. QED
    BY <2>1, <2>4
<1>4. QED
  BY <1>3 DEF Explained

\* The reports of R are given a temporary approval.
LEMMA ApprovingExplained ==
    ASSUME Sound, Sound', Informed, Informed', Explained, NEW k \in Requests, Others(k),
           NEW R \in SUBSET Reports, Withdraws(R, "temporary_approved"), Crosses(k, R),
           \A r \in R : Temporary(r)' \/ r \in crossed',
           \A r \in Reports \ R : report'[r] = report[r], UNCHANGED <<info, failed>>,
           op[k].kind = "approve" => Held(k) \subseteq R
    PROVE  Explained'
<1>1. k \in Slots /\ k \notin Crons
  BY ConstantsAssumption DEF Slots
<1>2. crossed \subseteq crossed' /\ withdrawn \ R \subseteq withdrawn'
  BY CrossesWhat, WithdrawsWhat
<1>3. ASSUME NEW i \in Infos, info'[i].original # Null
      PROVE  \E r \in Reports : i \in Places[r] /\ Answers(r, i)'
  <2>1. PICK r \in Reports : i \in Places[r] /\ Answers(r, i)
    BY <1>3 DEF Explained
  <2>2. CASE r \in R
    BY <2>1, <2>2, ApprovedAnswers
  <2>3. CASE r \notin R
    <3>1. r \in withdrawn \cup failed \cup crossed => Answers(r, i)'
      BY <1>2, <2>3 DEF Answers
    <3>2. Temporary(r)' = Temporary(r)
      BY <2>3 DEF Temporary
    <3>3. Answers(r, i)'
      BY <1>1, <2>1, <2>3, <3>1, <3>2, AnswersKept
    <3>4. QED
      BY <2>1, <3>3
  <2>4. QED
    BY <2>2, <2>3
<1>4. QED
  BY <1>3 DEF Explained

LEMMA DecidingExplained ==
    ASSUME Sound, Explained, NEW k \in Requests, CommitDecision(k)
    PROVE  Explained'
<1>1. k \in Slots /\ TypeOK /\ Held(k) \in SUBSET Reports
  BY SlotSound DEF Slots
<1>2. Others(k)
  BY <1>1, GoesIdle DEF CommitDecision, Stops, Turns
<1>3. /\ op[k].kind \in {"assign", "reject"} /\ UNCHANGED <<info, failed>>
      /\ Withdraws(Held(k), Decision(op[k].kind, FALSE).legend) /\ Crosses(k, Held(k))
  BY DEF CommitDecision
<1>4. Decision(op[k].kind, FALSE).legend # "temporary_approved"
  BY <1>3, DecisionRow DEF AllKinds
<1>5. crossed \subseteq crossed'
  BY <1>1, <1>3, CrossesWhat
<1>6. \A r \in Reports \ Held(k) : report'[r] = report[r]
  BY <1>1, CommitDecisionReport
<1>7. QED
  BY <1>1, <1>2, <1>3, <1>4, <1>5, <1>6, WithdrawingExplained

LEMMA OverdueExplained ==
    ASSUME Sound, Explained, NEW k \in Requests, NEW R \in SUBSET Reports, WriteOverdue(k, R)
    PROVE  Explained'
<1>1. k \in Slots /\ TypeOK
  BY SlotSound DEF Slots
<1>2. Others(k)
  <2>1. \/ Advance(k, Idle)
        \/ Advance(k, [op[k] EXCEPT !.rows = [r \in Held(k) \ R |-> @[r]]])
    BY DEF WriteOverdue
  <2>2. QED
    BY <1>1, <2>1, GoesIdle, RowsSlot DEF Turns, Stops
<1>3. /\ op[k].kind # "approve" /\ UNCHANGED <<info, failed>>
      /\ Withdraws(R, "overdue") /\ Crosses(k, R)
  BY DEF WriteOverdue
<1>4. crossed \subseteq crossed'
  BY <1>1, <1>3, CrossesWhat
<1>5. \A r \in Reports \ R : report'[r] = report[r]
  BY <1>1, WriteOverdueReport
<1>6. QED
  BY <1>1, <1>2, <1>3, <1>4, <1>5, WithdrawingExplained

LEMMA ShippingExplained ==
    ASSUME Sound, Sound', Informed, Informed', Explained, NEW k \in Requests, UpdateForShipment(k)
    PROVE  Explained'
<1> DEFINE d == Decision("shipment", op[k].temp)
<1>1. k \in Slots /\ TypeOK /\ op[k].todo \in SUBSET Reports /\ op[k].temp \in BOOLEAN
  BY SlotSound, Fields DEF Slots
<1>2. Others(k)
  BY <1>1, UpdateForShipmentSlot DEF Stops, Turns
<1>3. /\ op[k].kind = "shipment" /\ UNCHANGED <<info, failed>>
      /\ Withdraws(op[k].todo, d.legend) /\ Crosses(k, op[k].todo)
  BY DEF UpdateForShipment
<1>4. d \in Row /\ d.legend = IF op[k].temp THEN "temporary_approved" ELSE "approved"
  BY <1>1, DecisionRow DEF AllKinds
<1>5. crossed \subseteq crossed'
  BY <1>1, <1>3, CrossesWhat
<1>6. /\ \A r \in Reports \ op[k].todo : report'[r] = report[r]
      /\ \A r \in op[k].todo : report'[r] = Overwritten(r, d)
  BY <1>1, UpdateForShipmentReport
<1> HIDE DEF d
<1>7. \A r \in op[k].todo : report'[r].legend = d.legend
  BY <1>1, <1>4, <1>6, OverwrittenRow
<1>8. CASE op[k].temp
  <2>1. d.legend = "temporary_approved"
    BY <1>4, <1>8
  <2>2. Withdraws(op[k].todo, "temporary_approved") /\ \A r \in op[k].todo : Temporary(r)'
    BY <1>3, <1>7, <2>1 DEF Temporary
  <2>3. QED
    BY <1>1, <1>2, <1>3, <1>6, <2>2, ApprovingExplained
<1>9. CASE ~op[k].temp
  BY <1>1, <1>2, <1>3, <1>4, <1>5, <1>6, <1>9, WithdrawingExplained
<1>10. QED
  BY <1>8, <1>9

LEMMA SavingExplained ==
    ASSUME Sound, Sound', Informed, Informed', Explained, NEW k \in Requests, NEW r \in Reports,
           SaveApproval(k, r)
    PROVE  Explained'
<1> DEFINE d == Decision("approve", op[k].temp)
<1>1. k \in Slots /\ TypeOK /\ {r} \in SUBSET Reports /\ op[k].temp \in BOOLEAN
      /\ Held(k) = {r}
  BY SlotSound, Fields DEF Slots, Shaped, SaveApproval
<1>2. Others(k)
  BY <1>1, RemainingSlot DEF Stops, Turns, SaveApproval
<1>3. /\ op[k].kind = "approve" /\ UNCHANGED <<info, failed>>
      /\ Withdraws({r}, d.legend) /\ Crosses(k, {r})
  BY DEF SaveApproval
<1>4. d.legend = IF op[k].temp THEN "temporary_approved" ELSE "approved"
  BY <1>1, DecisionRow DEF AllKinds
<1>5. crossed \subseteq crossed'
  BY <1>1, <1>3, CrossesWhat
<1>6. /\ \A x \in Reports \ {r} : report'[x] = report[x]
      /\ report'[r] = Saved(r, op[k].rows[r], d) /\ op[k].rows[r] \in Row /\ d \in Row
  BY <1>1, SaveApprovalReport
<1> HIDE DEF d
<1>7. r \notin crossed' => report'[r].legend = d.legend
  <2>1. r \notin crossed' => op[k].rows[r].legend = report[r].legend
    BY <1>1, <1>3, <1>5 DEF Informed, RowsKnown, Knows
  <2>2. QED
    BY <1>6, <2>1, SavedRow
<1>8. CASE op[k].temp
  <2>1. d.legend = "temporary_approved"
    BY <1>4, <1>8
  <2>2. Withdraws({r}, "temporary_approved") /\ (Temporary(r)' \/ r \in crossed')
    BY <1>3, <1>7, <2>1 DEF Temporary
  <2>3. QED
    BY <1>1, <1>2, <1>3, <1>6, <2>2, ApprovingExplained
<1>9. CASE ~op[k].temp
  BY <1>1, <1>2, <1>3, <1>4, <1>5, <1>6, <1>9, WithdrawingExplained
<1>10. QED
  BY <1>8, <1>9

\* A report whose places slot k is mitigating answers for them.
LEMMA MitigatingAnswers ==
    ASSUME Sound, Informed, NEW k \in Slots, NEW s \in op[k].seen, op[k].at = "mitigate", NEW i \in Infos
    PROVE  \E r \in Reports : s[1] \in Places[r] /\ Mitigating(k, r) /\ Answers(r, i)
<1>1. Shaped(k) /\ Aimed(k) /\ Held(k) \subseteq Reports
  BY SlotSound
<1>2. PICK r \in Reports : Mitigating(k, r)
  BY <1>1 DEF Mitigating, Shaped
<1>3. s[1] \in Places[r]
  BY <1>1, <1>2 DEF Aimed
<1>4. k \in Requests
  BY <1>1 DEF Shaped, Slots
<1>5. CASE op[k].kind = "approve"
  BY <1>1, <1>2, <1>3, <1>4, <1>5 DEF Answers, Shaped, Mitigating
<1>6. CASE op[k].kind = "shipment" /\ r \notin crossed
  <2>1. Temporary(r) /\ report[r].expiry = "running"
    BY <1>2, <1>6 DEF Informed, RowsKnown, Knows, Mitigating
  <2>2. ASSUME NEW l \in Crons, r \in Held(l)
        PROVE  FALSE
    <3>1. l \in Slots /\ op[l].kind = "expire"
      BY <2>2, SlotSound DEF Slots, Shaped
    <3>2. QED
      BY <1>6, <2>1, <2>2, <3>1 DEF Informed, RowsKnown, Knows
  <2>3. QED
    BY <1>2, <1>3, <2>1, <2>2 DEF Answers
<1>7. CASE op[k].kind = "shipment" /\ r \in crossed
  BY <1>2, <1>3, <1>7 DEF Answers
<1>8. QED
  BY <1>1, <1>2, <1>5, <1>6, <1>7 DEF Shaped, Mitigating

LEMMA MitigateExplained ==
    ASSUME Sound, Informed, Sound', Informed', Explained, NEW k \in Requests, NEW s \in op[k].seen,
           Mitigate(k, s)
    PROVE  Explained'
<1>1. k \in Slots /\ k \notin Crons
  BY ConstantsAssumption DEF Slots
<1>2. /\ s[1] \in Infos /\ \A i \in Infos \ {s[1]} : info'[i] = info[i]
      /\ Others(k) /\ op'[k].kind = op[k].kind /\ op'[k].temp = op[k].temp /\ Held(k)' = Held(k)
  BY <1>1, WriteInfo DEF Turns
<1>3. UNCHANGED <<report, withdrawn, failed, crossed>> /\ op[k].at = "mitigate"
  BY DEF Mitigate
<1>4. crossed \subseteq crossed'
  BY <1>3
<1>5. ASSUME NEW r \in Reports, NEW i \in Infos, Answers(r, i)
      PROVE  Answers(r, i)'
  <2>1. r \in withdrawn \cup failed \cup crossed => Answers(r, i)'
    BY <1>3, <1>4 DEF Answers
  <2>2. Temporary(r)' = Temporary(r)
    BY <1>3 DEF Temporary
  <2>3. op[k].kind = "approve" /\ op[k].temp /\ r \in Held(k) => Answers(r, i)'
    BY <1>2 DEF Answers
  <2>4. QED
    BY <1>1, <1>2, <1>5, <2>1, <2>2, <2>3, AnswersKept
<1>6. ASSUME NEW i \in Infos, info'[i].original # Null
      PROVE  \E r \in Reports : i \in Places[r] /\ Answers(r, i)
  <2>1. CASE i = s[1]
    BY <1>1, <1>3, <2>1, MitigatingAnswers
  <2>2. CASE i # s[1]
    BY <1>2, <1>6, <2>2 DEF Explained
  <2>3. QED
    BY <2>1, <2>2
<1>7. QED
  BY <1>5, <1>6 DEF Explained

LEMMA FailReportExplained ==
    ASSUME Sound, Explained, NEW k \in Requests, NEW r \in Reports, FailReport(k, r)
    PROVE  Explained'
<1>1. k \in Slots /\ k \notin Crons /\ Shaped(k) /\ Aimed(k)
  BY ConstantsAssumption, SlotSound DEF Slots
<1>2. /\ op[k].kind \in {"approve", "shipment"} /\ r \in Held(k)
      /\ op[k].seen # {} => Mitigating(k, r)
      /\ \A i \in Infos : info'[i] = info[i] \/ \E s \in op[k].seen : s[1] = i
  BY <1>1, FailReportWhat
<1>3. Others(k) /\ UNCHANGED <<report, withdrawn, crossed>> /\ failed' = IF op[k].temp THEN failed \cup {r} ELSE failed
  BY <1>1, FailReportWhat, RemainingFields DEF FailReport
<1>4. op[k].kind = "approve" => Held(k) = {r}
  BY <1>1, <1>2 DEF Shaped
<1>5. ASSUME NEW i \in Infos, info'[i].original # Null
      PROVE  \E t \in Reports : i \in Places[t] /\ Answers(t, i)'
  <2>1. CASE info'[i] = info[i]
    <3>1. PICK t \in Reports : i \in Places[t] /\ Answers(t, i)
      BY <1>5, <2>1 DEF Explained
    <3>2. t \in withdrawn \cup failed \cup crossed => Answers(t, i)'
      BY <1>2, <1>3 DEF Answers
    <3>3. Temporary(t)' = Temporary(t)
      BY <1>3 DEF Temporary
    <3>4. op[k].kind = "approve" /\ op[k].temp /\ t \in Held(k) => Answers(t, i)'
      BY <1>3, <1>4 DEF Answers
    <3>5. Answers(t, i)'
      BY <1>1, <1>3, <3>1, <3>2, <3>3, <3>4, AnswersKept
    <3>6. QED
      BY <3>1, <3>5
  <2>2. CASE \E s \in op[k].seen : s[1] = i
    <3>1. Mitigating(k, r) /\ i \in Places[r]
      BY <1>1, <1>2, <2>2 DEF Aimed
    <3>2. op[k].temp
      BY <1>1, <1>2, <3>1 DEF Shaped, Mitigating
    <3>3. QED
      BY <1>3, <3>1, <3>2 DEF Answers
  <2>3. QED
    BY <1>2, <2>1, <2>2
<1>6. QED
  BY <1>5 DEF Explained

\* The cron goes on: what it had to do for an info it has still to do, or has done.
LEMMA CronExplained ==
    ASSUME Sound, Explained, NEW k \in Crons, Others(k), failed \subseteq failed', crossed \subseteq crossed',
           UNCHANGED withdrawn,
           \A i \in Infos : info'[i].original # Null => info[i].original # Null,
           \A r \in Reports : Temporary(r) => Temporary(r)' \/ (r \in Held(k) \ op[k].todo /\ op[k].seen = {}),
           \A r \in Reports : \A i \in Places[r] :
              /\ info'[i].original # Null /\ Temporary(r) /\ r \in Held(k)'
              /\ r \in Held(k) => r \in op[k].todo \/ i \in HeldInfos(k)
              => r \in op'[k].todo \/ i \in HeldInfos(k)' \/ r \in failed'
    PROVE  Explained'
<1>1. k \in Slots /\ k \notin Requests
  BY ConstantsAssumption DEF Slots
<1>2. ASSUME NEW i \in Infos, info'[i].original # Null
      PROVE  \E r \in Reports : i \in Places[r] /\ Answers(r, i)'
  <2>1. PICK r \in Reports : i \in Places[r] /\ Answers(r, i)
    BY <1>2 DEF Explained
  <2>2. Answers(r, i)'
    <3>1. r \in withdrawn \cup failed \cup crossed => Answers(r, i)'
      BY DEF Answers
    <3>2. CASE Temporary(r) /\ (r \in Held(k) => r \in op[k].todo \/ i \in HeldInfos(k))
      <4>1. Temporary(r)'
        BY <3>2 DEF HeldInfos
      <4>2. (r \in Held(k)' => r \in op'[k].todo \/ i \in HeldInfos(k)') \/ Answers(r, i)'
        BY <1>2, <2>1, <3>2 DEF Answers
      <4>3. QED
        BY <1>1, <2>1, <3>1, <4>1, <4>2, AnswersKept
    <3>3. CASE \/ r \in withdrawn \cup failed \cup crossed
               \/ \E l \in Requests : op[l].kind = "approve" /\ op[l].temp /\ r \in Held(l)
      BY <1>1, <3>1, <3>3 DEF Answers, Others, Held, Slots
    <3>4. QED
      BY <2>1, <3>2, <3>3 DEF Answers
  <2>3. QED
    BY <2>1, <2>2
<1>3. QED
  BY <1>2 DEF Explained

LEMMA CronStepExplained ==
    ASSUME Sound, Informed, Explained, NEW k \in Crons, CronStep(k) \/ RevertError(k)
    PROVE  Explained'
<1>1. k \in Slots /\ TypeOK /\ Shaped(k) /\ Aimed(k) /\ crossed \subseteq crossed /\ Held(k) \in SUBSET Reports
  BY SlotSound DEF Slots
<1>2. CASE FindExpired(k)
  <2>1. Others(k) /\ op'[k].todo = Held(k)' /\ UNCHANGED <<report, info, withdrawn, failed, crossed>>
    BY <1>1, <1>2, FindExpiredSlot DEF Turns, FindExpired
  <2>2. QED
    BY <2>1, CronExplained DEF Temporary
<1>3. ASSUME NEW r \in Reports, FindMitigated(k, r)
      PROVE  Explained'
  <2>1. /\ Others(k) /\ op'[k].todo = op[k].todo \ {r} /\ Held(k)' = Held(k) /\ op'[k].seen = Originals(r)
        /\ op[k].seen = {}
        /\ UNCHANGED <<report, info, withdrawn, failed, crossed>>
    BY <1>1, <1>3, FindMitigatedSlot DEF Turns, FindMitigated, history
  <2>2. \A i \in Places[r] : info[i].original # Null => i \in HeldInfos(k)'
    <3>1. \A i \in Places[r] : info[i].original = Null \/ <<i, info[i].original>> \in Originals(r)
      BY <1>1, FoundType
    <3>2. \A i \in Places[r] : <<i, info[i].original>>[1] = i
      OBVIOUS
    <3>3. QED
      BY <2>1, <3>1, <3>2 DEF HeldInfos
  <2>3. HeldInfos(k) = {}
    BY <2>1 DEF HeldInfos
  <2>4. QED
    BY <2>1, <2>2, <2>3, CronExplained DEF Temporary
<1>4. ASSUME NEW s \in op[k].seen, Revert(k, s)
      PROVE  Explained'
  <2>1. /\ Others(k) /\ op'[k].todo = op[k].todo /\ Held(k)' = Held(k) /\ op'[k].seen = op[k].seen \ {s}
        /\ s[1] \in Infos /\ \A i \in Infos \ {s[1]} : info'[i] = info[i]
        /\ info'[s[1]].original = Null
    BY <1>1, <1>4, WriteInfo DEF Turns
  <2>2. UNCHANGED <<report, withdrawn, failed>> /\ crossed \subseteq crossed'
    BY <1>4 DEF Revert, history
  <2>3. \A i \in Infos \ {s[1]} : i \in HeldInfos(k) => i \in HeldInfos(k)'
    BY <2>1 DEF HeldInfos
  <2>4. \A r \in Reports : Places[r] \subseteq Infos
    BY ConstantsAssumption
  <2>5. QED
    BY <2>1, <2>2, <2>3, <2>4, CronExplained DEF Temporary
<1>5. CASE RevertError(k)
  <2>1. CASE \E s \in op[k].seen :
             /\ Advance(k, [op[k] EXCEPT !.seen = @ \ {s}])
             /\ failed' = failed \cup {r \in Held(k) : s[1] \in Places[r]}
    <3>1. PICK s \in op[k].seen :
             /\ Advance(k, [op[k] EXCEPT !.seen = @ \ {s}])
             /\ failed' = failed \cup {r \in Held(k) : s[1] \in Places[r]}
      BY <2>1
    <3>2. /\ Others(k) /\ op'[k].todo = op[k].todo /\ Held(k)' = Held(k) /\ op'[k].seen = op[k].seen \ {s}
          /\ UNCHANGED <<report, info, withdrawn, crossed>>
      BY <1>1, <1>5, <3>1, SeenSlot DEF Turns, RevertError
    <3>3. \A i \in Infos : i # s[1] /\ i \in HeldInfos(k) => i \in HeldInfos(k)'
      BY <3>2 DEF HeldInfos
    <3>4. \A r \in Reports : Places[r] \subseteq Infos
      BY ConstantsAssumption
    <3>5. QED
      BY <3>1, <3>2, <3>3, <3>4, CronExplained DEF Temporary
  <2>2. CASE /\ op[k].seen = {}
             /\ \E r \in op[k].todo : /\ Advance(k, [op[k] EXCEPT !.todo = @ \ {r}])
                                      /\ failed' = failed \cup {r}
    <3>1. PICK r \in op[k].todo : /\ Advance(k, [op[k] EXCEPT !.todo = @ \ {r}])
                                  /\ failed' = failed \cup {r}
      BY <2>2
    <3>2. /\ Others(k) /\ op'[k].todo = op[k].todo \ {r} /\ Held(k)' = Held(k) /\ op'[k].seen = op[k].seen
          /\ UNCHANGED <<report, info, withdrawn, crossed>>
      BY <1>1, <1>5, <3>1, TodoSlot DEF Turns, RevertError
    <3>3. HeldInfos(k)' = HeldInfos(k)
      BY <3>2 DEF HeldInfos
    <3>4. QED
      BY <3>1, <3>2, <3>3, CronExplained DEF Temporary
  <2>3. QED
    BY <1>5, <2>1, <2>2 DEF RevertError
<1>6. CASE UpdateExpired(k)
  <2>1. Others(k) /\ Held(k)' = {} /\ op[k].seen = {} /\ op[k].todo = {} /\ UNCHANGED <<info, withdrawn, failed>>
    BY <1>1, <1>6, GoesIdle DEF UpdateExpired, Turns, Stops
  <2>2. crossed \subseteq crossed'
    BY <1>6 DEF UpdateExpired, Crosses
  <2>3. \A r \in Reports \ Held(k) : report'[r] = report[r]
    BY <1>1, <1>6, UpdateExpiredReport
  <2>4. QED
    BY <2>1, <2>2, <2>3, CronExplained DEF Temporary
<1>7. QED
  BY <1>2, <1>3, <1>4, <1>5, <1>6 DEF CronStep

LEMMA CrashExplained ==
    ASSUME Sound, Explained, NEW k \in Slots, Crash(k)
    PROVE  Explained'
<1>1. Stops(k) /\ Shaped(k)
  BY SlotSound, GoesIdle DEF Crash
<1>2. UNCHANGED <<report, info, withdrawn, crossed>> /\ failed \subseteq failed'
      /\ (op[k].kind = "approve" /\ op[k].temp /\ op[k].at # "load" => Held(k) \subseteq failed')
  BY DEF Crash
<1>3. ASSUME NEW i \in Infos, info'[i].original # Null
      PROVE  \E r \in Reports : i \in Places[r] /\ Answers(r, i)'
  <2>1. PICK r \in Reports : i \in Places[r] /\ Answers(r, i)
    BY <1>2, <1>3 DEF Explained
  <2>2. r \in withdrawn \cup failed \cup crossed => Answers(r, i)'
    BY <1>2 DEF Answers
  <2>3. op[k].kind = "approve" /\ op[k].temp /\ r \in Held(k) => Answers(r, i)'
    BY <1>1, <1>2 DEF Answers, Shaped
  <2>4. Temporary(r)' = Temporary(r) /\ r \notin Held(k)' /\ Others(k)
    BY <1>1, <1>2 DEF Temporary, Stops, Turns
  <2>5. Answers(r, i)'
    BY <2>1, <2>2, <2>3, <2>4, AnswersKept
  <2>6. QED
    BY <2>1, <2>5
<1>4. QED
  BY <1>3 DEF Explained

LEMMA OutsideExplained ==
    ASSUME Sound, Explained,
           \/ UNCHANGED vars
           \/ \E r \in Reports : CreateRequestAdditionalInformation(r) \/ Expire(r) \/ Age(r)
           \/ \E i \in Infos : RiskMitigation(i)
    PROVE  Explained'
<1>1. UNCHANGED <<op, failed>> /\ crossed \subseteq crossed'
  BY DEF vars, history, CreateRequestAdditionalInformation, Expire, Age, RiskMitigation, Crosses
<1>2. info \in [Infos -> [status : DeforestationStatus, original : DeforestationStatus]]
      /\ report \in [Reports -> Row]
  BY DEF Sound, TypeOK
<1>3. \A i \in Infos : info'[i].original = info[i].original
  <2>1. UNCHANGED info \/ \E i \in Infos : info' = [info EXCEPT ![i].status = Mitigated]
    BY DEF vars, CreateRequestAdditionalInformation, Expire, Age, RiskMitigation
  <2>2. QED
    BY <1>2, <2>1
<1>4. withdrawn \subseteq withdrawn' /\ \A r \in Reports : Temporary(r) => Temporary(r)' \/ r \in withdrawn'
  <2>1. CASE \E r \in Reports : CreateRequestAdditionalInformation(r)
    <3>1. PICK r \in Reports : CreateRequestAdditionalInformation(r)
      BY <2>1
    <3>2. {r} \in SUBSET Reports /\ Withdraws({r}, "update_required")
          /\ report' = [report EXCEPT ![r].legend = "update_required"]
      BY <3>1 DEF CreateRequestAdditionalInformation
    <3>3. withdrawn \subseteq withdrawn' /\ (Temporary(r) => r \in withdrawn')
      BY <3>2, WithdrawsWhat
    <3>4. \A x \in Reports \ {r} : report'[x] = report[x]
      BY <1>2, <3>2
    <3>5. QED
      BY <3>3, <3>4 DEF Temporary
  <2>2. CASE \E r \in Reports : Expire(r)
    <3>1. PICK r \in Reports : Expire(r)
      BY <2>2
    <3>2. \A x \in Reports : report'[x].legend = report[x].legend
      BY <1>2, <3>1 DEF Expire, Row
    <3>3. QED
      BY <3>1, <3>2 DEF Temporary, Expire, history
  <2>3. CASE UNCHANGED <<report, withdrawn>>
    BY <2>3 DEF Temporary
  <2>4. QED
    BY <2>1, <2>2, <2>3 DEF vars, history, Age, RiskMitigation
<1>5. ASSUME NEW r \in Reports, NEW i \in Infos, Answers(r, i)
      PROVE  Answers(r, i)'
  BY <1>1, <1>4, <1>5 DEF Answers, Held, HeldInfos
<1>6. QED
  BY <1>3, <1>5 DEF Explained

LEMMA ExplainedStep ==
    ASSUME Sound, Informed, Explained, [Next]_vars
    PROVE  Explained'
<1>1. Sound' /\ Informed'
  BY NextSound, NextInformed
<1>2. ASSUME NEW k \in Requests, RequestStep(k)
      PROVE  Explained'
  BY <1>1, <1>2, QuietSteps, SavingExplained, MitigateExplained, DecidingExplained, ShippingExplained,
     OverdueExplained DEF RequestStep
<1>3. ASSUME NEW k \in Requests,
             \/ \E kind \in AllKinds, R \in SUBSET Reports, temp \in BOOLEAN : Begin(k, kind, R, temp)
             \/ \E kind \in AllKinds : \E R \in Checked(kind) : ReadOverdue(k, kind, R)
             \/ \E r \in Reports : FailReport(k, r) \/ OverdueError(k, r)
      PROVE  Explained'
  BY <1>3, QuietSteps, FailReportExplained
<1>4. CASE UNCHANGED vars
  BY <1>4, OutsideExplained
<1>5. QED
  BY <1>2, <1>3, <1>4, CronStepExplained, CrashExplained, OutsideExplained DEF Next

\* A temporary mitigation stands only for a report that is temporarily approved, or
\* about to be, unless its approval was ended without the cron, failed or was crossed.
THEOREM MitigationsExplained == Spec => []MitigationExplained
<1>1. Init => Explained
  BY InitIdle DEF Explained
<1>2. Sound /\ Informed /\ Explained /\ [Next]_vars => Explained'
  BY ExplainedStep
<1>3. Explained => MitigationExplained
  BY DEF Explained, Answers, MitigationExplained
<1>4. QED
  BY <1>1, <1>2, <1>3, AlwaysInformed, PTL DEF Spec

-----------------------------------------------------------------------------
(* How often an info is covered *)

LEMMA Grows ==
    ASSUME Sound, [Next]_vars
    PROVE  overtaken \subseteq overtaken' /\ unlaid \subseteq unlaid' /\ rerun \subseteq rerun'
<1> DEFINE Grown == overtaken \subseteq overtaken' /\ unlaid \subseteq unlaid' /\ rerun \subseteq rerun'
<1>1. ASSUME NEW k, NEW I, Overtakes(k, I)
      PROVE  overtaken \subseteq overtaken'
  BY <1>1 DEF Overtakes
<1>2. ASSUME NEW k \in Requests, RequestStep(k)
      PROVE  Grown
  BY <1>1, <1>2 DEF RequestStep, LoadForDecision, LoadForApproval, ReadPlaces, PlacesDone, SaveApproval,
                    Mitigate, CommitDecision, UpdateForShipment, WriteOverdue, history
<1>3. ASSUME NEW k \in Crons, CronStep(k) \/ RevertError(k)
      PROVE  Grown
  BY <1>3 DEF CronStep, FindExpired, UpdateExpired, FindMitigated, Revert, RevertError, history
<1>4. ASSUME NEW k \in Requests,
             \/ \E kind \in AllKinds, R \in SUBSET Reports, temp \in BOOLEAN : Begin(k, kind, R, temp)
             \/ \E kind \in AllKinds : \E R \in Checked(kind) : ReadOverdue(k, kind, R)
             \/ \E r \in Reports : FailReport(k, r) \/ OverdueError(k, r)
      PROVE  Grown
  BY <1>1, <1>4 DEF Begin, ReadOverdue, FailReport, OverdueError, history
<1>5. CASE \/ UNCHANGED vars
           \/ \E k \in Slots : Crash(k)
           \/ \E r \in Reports : CreateRequestAdditionalInformation(r) \/ Expire(r) \/ Age(r)
           \/ \E i \in Infos : RiskMitigation(i)
  BY <1>5 DEF vars, history, Crash, CreateRequestAdditionalInformation, Expire, Age, RiskMitigation
<1>6. QED
  BY <1>2, <1>3, <1>4, <1>5 DEF Next

\* What is in Covers(i).
LEMMA InCovers ==
    ASSUME NEW i
    PROVE  /\ \A r \in Reports : Granted(r, i) => <<"granted", r>> \in Covers(i)
           /\ \A r \in Reports : Expiring(r, i) => <<"expiring", r>> \in Covers(i)
           /\ \A k \in Slots : OpCovers(k, i) => <<"slot", k>> \in Covers(i)
  BY DEF Covers

\* Covers vanish, and at most one of what is left is new.
LEMMA CoversBut ==
    ASSUME NEW i, NEW d,
           \A r \in Reports : Granted(r, i)' => Granted(r, i) \/ d = <<"granted", r>>,
           \A r \in Reports : Expiring(r, i)' => Expiring(r, i) \/ d = <<"expiring", r>>,
           \A k \in Slots : OpCovers(k, i)' => OpCovers(k, i) \/ d = <<"slot", k>>
    PROVE  Covers(i)' \subseteq Covers(i) \cup {d}
<1>1. ASSUME NEW c \in Covers(i)'
      PROVE  c \in Covers(i) \cup {d}
  <2>1. \/ \E r \in Reports : c = <<"granted", r>> /\ Granted(r, i)'
        \/ \E r \in Reports : c = <<"expiring", r>> /\ Expiring(r, i)'
        \/ \E k \in Slots : c = <<"slot", k>> /\ OpCovers(k, i)'
    BY <1>1 DEF Covers
  <2>2. QED
    BY <2>1, InCovers
<1>2. QED
  BY <1>1

LEMMA CoversShrink ==
    ASSUME NEW i,
           \A r \in Reports : Granted(r, i)' => Granted(r, i),
           \A r \in Reports : Expiring(r, i)' => Expiring(r, i),
           \A k \in Slots : OpCovers(k, i)' => OpCovers(k, i)
    PROVE  /\ Covers(i)' \subseteq Covers(i)
           /\ (Bare(i) => Bare(i)') /\ (Single(i) => Single(i)')
<1>1. Covers(i)' \subseteq Covers(i)
  BY DEF Covers
<1>2. QED
  BY <1>1 DEF Bare, Single

\* A cover c gives way to a cover d.
LEMMA CoversMove ==
    ASSUME NEW i, NEW c \in Covers(i), NEW d, Covers(i)' \subseteq Covers(i) \cup {d}, c \notin Covers(i)'
    PROVE  (Bare(i) => Bare(i)') /\ (Single(i) => Single(i)')
<1>1. ~Bare(i)
  BY DEF Bare
<1>2. Single(i) => \A e \in Covers(i)' : e = d
  BY DEF Single
<1>3. QED
  BY <1>1, <1>2 DEF Single

\* The info is neither written, but for a mitigation by hand, nor read.
LEMMA LayeredKept ==
    ASSUME NEW i \in Infos, Layered(i), info'[i].original = info[i].original,
           info'[i].status \in {info[i].status, Mitigated},
           \A l \in Slots : \A s \in op'[l].seen : s[1] = i => s \in op[l].seen,
           (Bare(i) => Bare(i)') /\ (Single(i) => Single(i)')
    PROVE  Layered(i)'
  BY DEF Layered

\* The covers of the slots but k.
LEMMA CoversOther ==
    ASSUME NEW k \in Slots, Others(k), NEW l \in Slots \ {k}, NEW i, OpCovers(l, i)'
    PROVE  OpCovers(l, i)
  BY DEF Others, OpCovers, Mitigating, Held, HeldInfos

\* A request takes no report from the cron and gives it none.
LEMMA RequestsTake ==
    ASSUME NEW k \in Requests, Others(k), NEW r
    PROVE  /\ Taken(r)' <=> Taken(r)
           /\ (\E l \in Crons : r \in op'[l].todo) <=> (\E l \in Crons : r \in op[l].todo)
<1>1. \A l \in Crons : op'[l] = op[l] /\ Held(l)' = Held(l)
  BY ConstantsAssumption DEF Others, Held, Slots
<1>2. QED
  BY <1>1 DEF Taken

\* A request leaves a temporary approval as it is, or ends it, or its shipment is
\* still at work on it.
LEMMA RequestCovers ==
    ASSUME NEW k \in Requests, Others(k), NEW r \in Reports, NEW i,
           Temporary(r)' => \/ Temporary(r) /\ report'[r].expiry \in {"none", report[r].expiry}
                            \/ report'[r].expiry = "running" /\ Shipped(r)',
           op[k].kind = "shipment" /\ r \in Held(k) => op'[k].kind = "shipment" /\ r \in Held(k)'
    PROVE  (Granted(r, i)' => Granted(r, i)) /\ (Expiring(r, i)' => Expiring(r, i))
<1>1. Shipped(r) => Shipped(r)'
  BY DEF Others, Held, Shipped, Slots
<1>2. Granted(r, i)' => Granted(r, i)
  BY <1>1 DEF Granted
<1>3. Expiring(r, i)' => Expiring(r, i)
  BY RequestsTake DEF Expiring
<1>4. QED
  BY <1>2, <1>3

LEMMA CalmSeen ==
    ASSUME Calm, NEW i
    PROVE  info'[i] = info[i] /\ \A l \in Slots : \A s \in op'[l].seen : s[1] = i => s \in op[l].seen
  BY DEF Calm

\* A request goes on that mitigates no place and lets go of no shipment.
LEMMA QuietLayered ==
    ASSUME Calm, NEW k \in Requests, Others(k), op'[k].at # "mitigate",
           op[k].kind = "shipment" => Held(k) = {},
           NEW i \in Infos, Layered(i),
           \A r \in Reports : Temporary(r)' =>
              \/ Temporary(r) /\ report'[r].expiry \in {"none", report[r].expiry}
              \/ report'[r].expiry = "running" /\ Shipped(r)'
    PROVE  Layered(i)'
<1>1. k \in Slots
  BY DEF Slots
<1>2. ~OpCovers(k, i)'
  BY DEF OpCovers, Mitigating
<1>3. \A l \in Slots : OpCovers(l, i)' => OpCovers(l, i)
  BY <1>1, <1>2, CoversOther
<1>4. \A r \in Reports : (Granted(r, i)' => Granted(r, i)) /\ (Expiring(r, i)' => Expiring(r, i))
  BY RequestCovers
<1>5. (Bare(i) => Bare(i)') /\ (Single(i) => Single(i)')
  BY <1>3, <1>4, CoversShrink
<1>6. QED
  BY <1>5, CalmSeen, LayeredKept

LEMMA QuietStepsLayered ==
    ASSUME Sound, NEW i \in Infos, Layered(i), NEW k \in Requests,
           \/ \E kind \in AllKinds, R \in SUBSET Reports, temp \in BOOLEAN : Begin(k, kind, R, temp)
           \/ \E kind \in AllKinds : \E R \in Checked(kind) : ReadOverdue(k, kind, R)
           \/ \E r \in Reports : LoadForDecision(k, r) \/ LoadForApproval(k, r) \/ OverdueError(k, r)
           \/ CommitDecision(k) \/ \E R \in SUBSET Reports : WriteOverdue(k, R)
    PROVE  Layered(i)'
<1> DEFINE Lasts == \A t \in Reports : Temporary(t)' =>
                       Temporary(t) /\ report'[t].expiry \in {"none", report[t].expiry}
<1>1. k \in Slots /\ TypeOK /\ Shaped(k)
  BY SlotSound DEF Slots
<1>2. Calm
  BY CalmRequests
<1>3. ASSUME UNCHANGED report
      PROVE  Lasts
  BY <1>3 DEF Temporary
<1>4. ASSUME NEW kind \in AllKinds, NEW R \in SUBSET Reports, NEW temp \in BOOLEAN, Begin(k, kind, R, temp)
      PROVE  Layered(i)'
  <2>1. Turns(k, kind, "load", temp, R, {}, {}) /\ op[k].kind = "idle" /\ UNCHANGED report
    BY <1>1, <1>4, BeginSlot DEF Begin
  <2>2. QED
    BY <1>2, <1>3, <2>1, QuietLayered DEF Turns
<1>5. ASSUME NEW kind \in AllKinds, NEW R \in Checked(kind), ReadOverdue(k, kind, R)
      PROVE  Layered(i)'
  <2>1. Others(k) /\ op'[k].at = "write" /\ op[k].kind = "idle" /\ UNCHANGED report
    BY <1>1, <1>5, CheckedType, ReadOverdueSlot DEF Turns, ReadOverdue
  <2>2. QED
    BY <1>2, <1>3, <2>1, QuietLayered
<1>6. ASSUME NEW r \in Reports, LoadForDecision(k, r)
      PROVE  Layered(i)'
  <2>1. Others(k) /\ op'[k].at = "load" /\ op[k].kind # "shipment" /\ UNCHANGED report
    BY <1>1, <1>6, LoadForDecisionSlot DEF Turns, LoadForDecision
  <2>2. QED
    BY <1>2, <1>3, <2>1, QuietLayered
<1>7. ASSUME NEW r \in Reports, LoadForApproval(k, r)
      PROVE  Layered(i)'
  <2>1. Others(k) /\ op'[k].at \in {"places", "save"} /\ op[k].kind # "shipment" /\ UNCHANGED report
    BY <1>1, <1>7, LoadForApprovalSlot DEF Turns, LoadForApproval
  <2>2. QED
    BY <1>2, <1>3, <2>1, QuietLayered
<1>8. ASSUME NEW r \in Reports, OverdueError(k, r)
      PROVE  Layered(i)'
  <2>1. \/ Advance(k, Idle)
        \/ Advance(k, [op[k] EXCEPT !.rows = [x \in Held(k) \ {r} |-> @[x]]])
    BY <1>8 DEF OverdueError
  <2>2. Others(k) /\ op'[k].at \in {"idle", op[k].at}
    BY <1>1, <2>1, GoesIdle, RowsSlot DEF Turns, Stops
  <2>3. op[k].kind = "overdueCron" /\ op[k].at = "write" /\ UNCHANGED report
    BY <1>1, <1>8 DEF OverdueError, Shaped
  <2>4. QED
    BY <1>2, <1>3, <2>2, <2>3, QuietLayered
<1>9. CASE CommitDecision(k)
  <2> DEFINE d == Decision(op[k].kind, FALSE)
  <2>1. Others(k) /\ op'[k].at = "idle" /\ op[k].kind \in {"assign", "reject"}
    BY <1>1, <1>9, GoesIdle DEF CommitDecision, Turns, Stops
  <2>2. d \in Row /\ d.legend \notin {"approved", "temporary_approved"}
    BY <2>1, DecisionRow DEF AllKinds
  <2>3. /\ \A r \in Reports \ Held(k) : report'[r] = report[r]
        /\ \A r \in Held(k) : report'[r] \in {Saved(r, op[k].rows[r], d), Overwritten(r, d)}
    BY <1>1, <1>9, CommitDecisionReport
  <2> HIDE DEF d
  <2>4. \A r \in Held(k) : r \in Reports /\ op[k].rows[r] \in Row
    BY <1>1, Fields
  <2>5. Lasts
    <3>1. ASSUME NEW t \in Reports, Temporary(t)'
          PROVE  Temporary(t) /\ report'[t].expiry \in {"none", report[t].expiry}
      <4>1. CASE t \notin Held(k)
        BY <2>3, <3>1, <4>1 DEF Temporary
      <4>2. CASE t \in Held(k) /\ report'[t] = Overwritten(t, d)
        BY <2>2, <3>1, <4>2, OverwrittenRow DEF Temporary
      <4>3. CASE t \in Held(k) /\ report'[t] = Saved(t, op[k].rows[t], d)
        BY <2>2, <2>4, <3>1, <4>3, SavedRow DEF Temporary
      <4>4. QED
        BY <2>3, <4>1, <4>2, <4>3
    <3>2. QED
      BY <3>1
  <2>6. QED
    BY <1>2, <2>1, <2>5, QuietLayered
<1>10. ASSUME NEW R \in SUBSET Reports, WriteOverdue(k, R)
       PROVE  Layered(i)'
  <2>1. \/ Advance(k, Idle)
        \/ Advance(k, [op[k] EXCEPT !.rows = [r \in Held(k) \ R |-> @[r]]])
    BY <1>10 DEF WriteOverdue
  <2>2. Others(k) /\ op'[k].at \in {"idle", op[k].at}
    BY <1>1, <2>1, GoesIdle, RowsSlot DEF Turns, Stops
  <2>3. op[k].kind \in {"overdue", "overdueCron"} /\ op[k].at = "write"
    BY <1>1, <1>10 DEF WriteOverdue, Shaped
  <2>4. Lasts
    BY <1>1, <1>10, WriteOverdueReport DEF Temporary
  <2>5. QED
    BY <1>2, <2>2, <2>3, <2>4, QuietLayered
<1>11. QED
  BY <1>4, <1>5, <1>6, <1>7, <1>8, <1>9, <1>10

LEMMA ShippingLayered ==
    ASSUME Sound, NEW i \in Infos, Layered(i), NEW k \in Requests, UpdateForShipment(k)
    PROVE  Layered(i)'
<1> DEFINE d == Decision("shipment", op[k].temp)
<1>1. k \in Slots /\ TypeOK /\ Shaped(k) /\ op[k].todo \subseteq Reports /\ op[k].temp \in BOOLEAN
  BY SlotSound, Fields DEF Slots
<1>2. Calm
  BY CalmRequests
<1>3. \/ op[k].temp /\ Turns(k, "shipment", "next", op[k].temp, {}, op[k].todo, op[k].seen)
      \/ ~op[k].temp /\ Stops(k)
  BY <1>1, UpdateForShipmentSlot
<1>4. Others(k) /\ op'[k].at # "mitigate" /\ Held(k) = {}
  BY <1>1, <1>3 DEF Turns, Stops, Shaped, UpdateForShipment
<1>5. d \in Row /\ d.legend = (IF op[k].temp THEN "temporary_approved" ELSE "approved")
      /\ d.expiry = "running"
  BY <1>1, DecisionRow DEF AllKinds
<1>6. /\ \A r \in Reports \ op[k].todo : report'[r] = report[r]
      /\ \A r \in op[k].todo : report'[r] = Overwritten(r, d)
  BY <1>1, UpdateForShipmentReport
<1> HIDE DEF d
<1>7. \A r \in op[k].todo : /\ report'[r].legend = d.legend
                            /\ d.legend # "approved" => report'[r].expiry = "running"
  BY <1>1, <1>5, <1>6, OverwrittenRow
<1>8. ASSUME NEW t \in Reports, Temporary(t)'
      PROVE  \/ Temporary(t) /\ report'[t].expiry \in {"none", report[t].expiry}
             \/ report'[t].expiry = "running" /\ Shipped(t)'
  <2>1. CASE t \notin op[k].todo
    BY <1>6, <1>8, <2>1 DEF Temporary
  <2>2. CASE t \in op[k].todo
    <3>1. d.legend = "temporary_approved" /\ op[k].temp
      BY <1>5, <1>7, <1>8, <2>2 DEF Temporary
    <3>2. Shipped(t)'
      BY <1>3, <2>2, <3>1 DEF Shipped, Turns
    <3>3. QED
      BY <1>7, <2>2, <3>1, <3>2
  <2>3. QED
    BY <2>1, <2>2
<1>9. QED
  BY <1>2, <1>4, <1>8, QuietLayered

\* The places of report r are done: the cover of the slot becomes that of the report.
LEMMA DoneLayered ==
    ASSUME Sound, NEW i \in Infos, Layered(i), NEW k \in Requests, NEW r \in Reports,
           PlacesDone(k, r) \/ SaveApproval(k, r)
    PROVE  Layered(i)'
<1>1. k \in Slots /\ TypeOK /\ Shaped(k)
  BY SlotSound DEF Slots
<1>2. /\ Advance(k, Remaining(k, r)) /\ op[k].kind \in {"approve", "shipment"} /\ r \in Held(k)
      /\ op[k].at = "mitigate" => op[k].seen = {} /\ Mitigating(k, r)
      /\ \A t \in Reports \ {r} : report'[t] = report[t]
  BY <1>1, SaveApprovalReport DEF PlacesDone, SaveApproval, Shaped, Mitigating
<1>3. /\ Others(k) /\ op'[k].at # "mitigate"
      /\ op[k].kind = "shipment" =>
             Held(k)' = Held(k) \ {r} /\ (Held(k) # {r} => op'[k].kind = "shipment")
  BY <1>1, <1>2, RemainingFields
<1>4. Calm
  BY CalmRequests
<1>5. ~OpCovers(k, i)'
  BY <1>3 DEF OpCovers, Mitigating
<1>6. \A l \in Slots : OpCovers(l, i)' => OpCovers(l, i)
  BY <1>1, <1>3, <1>5, CoversOther
<1>7. ASSUME NEW t \in Reports \ {r}
      PROVE  (Granted(t, i)' => Granted(t, i)) /\ (Expiring(t, i)' => Expiring(t, i))
  <2>1. report'[t] = report[t] /\ (Temporary(t)' => Temporary(t))
    BY <1>2, <1>7 DEF Temporary
  <2>2. op[k].kind = "shipment" /\ t \in Held(k) => op'[k].kind = "shipment" /\ t \in Held(k)'
    BY <1>3, <1>7
  <2>3. QED
    BY <1>3, <2>1, <2>2, RequestCovers
<1>8. ASSUME op[k].at = "save"
      PROVE  (Granted(r, i)' => Granted(r, i)) /\ (Expiring(r, i)' => Expiring(r, i))
  <2>1. SaveApproval(k, r) /\ op[k].kind = "approve" /\ op[k].temp = FALSE
    BY <1>1, <1>8, Fields DEF PlacesDone, SaveApproval, Shaped
  <2>2. Decision("approve", op[k].temp).legend = "approved"
    BY <2>1, DecisionRow DEF AllKinds
  <2>3. report'[r].legend \in {"approved", report[r].legend} /\ report'[r].expiry = report[r].expiry
    BY <1>1, <2>1, <2>2, SaveApprovalReport, SavedRow
  <2>4. Temporary(r)' => Temporary(r)
    BY <2>3 DEF Temporary
  <2>5. QED
    BY <1>3, <2>1, <2>3, <2>4, RequestCovers
<1>9. ASSUME op[k].at = "mitigate"
      PROVE  Expiring(r, i)' => Expiring(r, i)
  <2>1. CASE PlacesDone(k, r)
    <3>1. UNCHANGED report
      BY <2>1 DEF PlacesDone
    <3>2. QED
      BY <1>3, <3>1, RequestsTake DEF Expiring, Temporary
  <2>2. CASE SaveApproval(k, r)
    <3>1. op[k].kind = "approve" /\ op[k].temp
      BY <1>1, <1>9, <2>2 DEF SaveApproval, Shaped
    <3>2. Decision("approve", op[k].temp).legend = "temporary_approved"
      BY <3>1, DecisionRow, Fields, <1>1 DEF AllKinds
    <3>3. report'[r].expiry = "running"
      BY <1>1, <2>2, <3>2, SaveApprovalReport, SavedRow
    <3>4. QED
      BY <1>3, <3>3, RequestsTake DEF Expiring
  <2>3. QED
    BY <2>1, <2>2
<1>10. op[k].at \in {"mitigate", "save"}
  BY <1>1 DEF PlacesDone, SaveApproval
<1>11. (Bare(i) => Bare(i)') /\ (Single(i) => Single(i)')
  <2>1. CASE Granted(r, i)' => Granted(r, i)
    BY <1>6, <1>7, <1>8, <1>9, <1>10, <2>1, CoversShrink
  <2>2. CASE Granted(r, i)' /\ ~Granted(r, i)
    <3>1. op[k].at = "mitigate" /\ i \in Places[r]
      BY <1>8, <1>10, <2>2 DEF Granted
    <3>2. OpCovers(k, i)
      BY <1>2, <3>1 DEF OpCovers, HeldInfos
    <3>3. <<"slot", k>> \in Covers(i) /\ <<"slot", k>> \notin Covers(i)'
      BY <1>1, <1>5, <3>2 DEF Covers
    <3>4. Covers(i)' \subseteq Covers(i) \cup {<<"granted", r>>}
      BY <1>6, <1>7, <1>9, <3>1, CoversBut
    <3>5. QED
      BY <3>3, <3>4, CoversMove
  <2>3. QED
    BY <2>1, <2>2
<1>12. QED
  BY <1>4, <1>11, CalmSeen, LayeredKept

\* A report fails: a place that shows deforestation again will have no cover, and a
\* shipment that has failed excuses the places of its report.
LEMMA FailReportLayered ==
    ASSUME Sound, NEW i \in Infos, Layered(i), ~Excused(i)', NEW k \in Requests, NEW r \in Reports,
           FailReport(k, r)
    PROVE  Layered(i)'
<1>1. k \in Slots /\ TypeOK /\ Shaped(k) /\ Aimed(k)
  BY SlotSound DEF Slots
<1>2. /\ Advance(k, Remaining(k, r)) /\ op[k].kind \in {"approve", "shipment"} /\ r \in Held(k)
      /\ \/ info'[i] = info[i]
         \/ /\ info'[i].status = Mitigated
            /\ \E s \in op[k].seen : s[1] = i /\ s[2] = info'[i].original
            /\ \A l \in Slots \ {k} : \A s \in op[l].seen : s[1] = i /\ s[2] # Mitigated => i \in overtaken'
  BY <1>1, FailReportWhat
<1>3. /\ Others(k) /\ op'[k].at # "mitigate" /\ op'[k].seen = {}
      /\ op[k].kind = "shipment" =>
             Held(k)' = Held(k) \ {r} /\ (Held(k) # {r} => op'[k].kind = "shipment")
  BY <1>1, <1>2, RemainingFields
<1>4. UNCHANGED report
  BY DEF FailReport
<1>5. op[k].kind = "shipment" => i \notin Places[r]
  BY DEF FailReport, Excused
<1>6. \A l \in Slots : OpCovers(l, i)' => OpCovers(l, i)
  BY <1>1, <1>3, CoversOther DEF OpCovers, Mitigating
<1>7. ASSUME NEW t \in Reports
      PROVE  (Granted(t, i)' => Granted(t, i)) /\ (Expiring(t, i)' => Expiring(t, i))
  <2>1. CASE i \notin Places[t]
    BY <2>1 DEF Granted, Expiring
  <2>2. CASE i \in Places[t]
    <3>1. op[k].kind = "shipment" /\ t \in Held(k) => op'[k].kind = "shipment" /\ t \in Held(k)'
      BY <1>3, <1>5, <2>2
    <3>2. QED
      BY <1>3, <1>4, <3>1, RequestCovers DEF Temporary
  <2>3. QED
    BY <2>1, <2>2
<1>8. (Bare(i) => Bare(i)') /\ (Single(i) => Single(i)')
  BY <1>6, <1>7, CoversShrink
<1>9. \A l \in Slots : \A s \in op'[l].seen : l # k /\ s \in op[l].seen
  BY <1>3 DEF Others
<1>10. CASE info'[i] = info[i]
  BY <1>8, <1>9, <1>10, LayeredKept
<1>11. CASE info'[i] # info[i]
  <2>1. PICK s \in op[k].seen : s[1] = i /\ s[2] = info'[i].original
    BY <1>2, <1>11
  <2>2. info'[i].original \notin {Zero, Mitigated} => Single(i)'
    <3>1. info'[i].original \notin {Zero, Mitigated} => Bare(i)
      BY <1>1, <2>1 DEF Layered
    <3>2. Bare(i)' => Single(i)'
      BY DEF Bare, Single
    <3>3. QED
      BY <1>8, <3>1, <3>2
  <2>3. \A l \in Slots : \A x \in op'[l].seen : x[1] = i => x[2] = Mitigated
    BY <1>2, <1>9, <1>11 DEF Excused
  <2>4. QED
    BY <1>2, <1>11, <2>2, <2>3 DEF Layered
<1>12. QED
  BY <1>10, <1>11

LEMMA ReadPlacesLayered ==
    ASSUME Sound, ZeroUntouched, NEW i \in Infos, Layered(i), NEW k \in Requests, NEW r \in Reports,
           ReadPlaces(k, r)
    PROVE  Layered(i)'
<1>1. k \in Slots /\ TypeOK /\ Shaped(k) /\ Aimed(k)
  BY SlotSound DEF Slots
<1>2. /\ Turns(k, op[k].kind, "mitigate", op[k].temp,
               IF op[k].kind = "shipment" THEN {r} ELSE op[k].todo, Held(k), ToMitigate(r))
      /\ UNCHANGED <<report, info>>
      /\ \/ op[k].kind = "approve" /\ op[k].at = "places"
         \/ op[k].kind = "shipment" /\ op[k].at = "next"
      /\ r \in Held(k)
  BY <1>1, ReadPlacesSlot DEF ReadPlaces
<1>3. Others(k) /\ op'[k].seen = ToMitigate(r) /\ Held(k)' = Held(k) /\ op'[k].kind = op[k].kind
  BY <1>2 DEF Turns
<1>4. \A x \in Reports : Mitigating(k, x)' => x = r
  BY <1>1, <1>2 DEF Turns, Shaped, Mitigating
<1>5. /\ \A s \in ToMitigate(r) : s[2] = info[s[1]].status /\ s[2] # Zero
      /\ \A x \in Places[r] : info[x].status = Zero \/ <<x, info[x].status>> \in ToMitigate(r)
  BY <1>1, ToMitigateType
<1>6. \A t \in Reports : (Granted(t, i)' => Granted(t, i)) /\ (Expiring(t, i)' => Expiring(t, i))
  BY <1>2, <1>3, RequestCovers DEF Temporary
<1>7. CASE info[i].status = Zero
  <2>1. info[i].original = Null
    BY <1>7 DEF ZeroUntouched
  <2>2. ASSUME NEW l \in Slots, NEW s \in op'[l].seen
        PROVE  s[1] # i
    BY <1>3, <1>5, <1>7, <2>2 DEF Others, ZeroUntouched
  <2>3. QED
    BY <1>2, <1>7, <2>1, <2>2 DEF Layered
<1>8. CASE info[i].status # Zero
  <2>1. ~OpCovers(k, i)'
    <3>1. i \in Places[r] => <<i, info[i].status>> \in op'[k].seen
      BY <1>3, <1>5, <1>8
    <3>2. <<i, info[i].status>>[1] = i
      OBVIOUS
    <3>3. i \in Places[r] => i \in HeldInfos(k)'
      BY <3>1, <3>2 DEF HeldInfos
    <3>4. QED
      BY <1>4, <3>3 DEF OpCovers
  <2>2. \A l \in Slots : OpCovers(l, i)' => OpCovers(l, i)
    BY <1>1, <1>3, <2>1, CoversOther
  <2>3. (Bare(i) => Bare(i)') /\ (Single(i) => Single(i)')
    BY <1>6, <2>2, CoversShrink
  <2>4. ASSUME NEW l \in Slots, NEW s \in op'[l].seen, s[1] = i, s[2] \notin {Zero, Mitigated}
        PROVE  Bare(i)
    <3>1. CASE l = k
      BY <1>3, <1>5, <2>4, <3>1 DEF Layered
    <3>2. CASE l # k
      BY <1>3, <2>4, <3>2 DEF Layered, Others
    <3>3. QED
      BY <3>1, <3>2
  <2>5. QED
    BY <1>2, <2>3, <2>4 DEF Layered
<1>9. QED
  BY <1>7, <1>8

\* An update of an info: the mitigation is its one cover, and who has read it
\* unmitigated has been overtaken; when it is reverted, it has none.
LEMMA WriteInfoLayered ==
    ASSUME Sound, NEW i \in Infos, Layered(i), ~Excused(i)', NEW k \in Slots, NEW s \in op[k].seen,
           Mitigate(k, s) \/ Revert(k, s)
    PROVE  Layered(i)'
<1>1. TypeOK /\ Shaped(k) /\ Aimed(k)
  BY SlotSound
<1>2. /\ s[1] \in Infos
      /\ \A x \in Infos \ {s[1]} : info'[x] = info[x]
      /\ Mitigate(k, s) => info'[s[1]].status = Mitigated /\ info'[s[1]].original = s[2]
      /\ Revert(k, s) => info'[s[1]].status = s[2] /\ info'[s[1]].original = Null
      /\ Turns(k, op[k].kind, op[k].at, op[k].temp, op[k].todo, Held(k), op[k].seen \ {s})
  BY WriteInfo
<1>3. /\ Others(k) /\ op'[k].kind = op[k].kind /\ op'[k].at = op[k].at /\ op'[k].todo = op[k].todo
      /\ Held(k)' = Held(k) /\ op'[k].seen = op[k].seen \ {s}
  BY <1>2 DEF Turns
<1>4. UNCHANGED report
  BY DEF Mitigate, Revert
<1>5. \A t \in Reports : (Granted(t, i)' => Granted(t, i)) /\ (Expiring(t, i)' => Expiring(t, i))
  <2>1. \A l \in Slots : Held(l)' = Held(l) /\ op'[l].todo = op[l].todo /\ op'[l].kind = op[l].kind
    BY <1>3 DEF Others, Held
  <2>2. \A t \in Reports : (Shipped(t) => Shipped(t)') /\ (Taken(t) => Taken(t)')
    BY <2>1 DEF Shipped, Taken, Slots
  <2>3. QED
    BY <1>4, <2>1, <2>2 DEF Granted, Expiring, Temporary, Slots
<1>6. \A l \in Slots \ {k} : OpCovers(l, i)' => OpCovers(l, i)
  BY <1>3, CoversOther
<1>7. CASE i # s[1]
  <2>1. i \in HeldInfos(k) => i \in HeldInfos(k)'
    BY <1>3, <1>7 DEF HeldInfos
  <2>2. OpCovers(k, i)' => OpCovers(k, i)
    BY <1>3, <2>1 DEF OpCovers, Mitigating
  <2>3. \A l \in Slots : \A x \in op'[l].seen : x[1] = i => x \in op[l].seen
    BY <1>3 DEF Others
  <2>4. (Bare(i) => Bare(i)') /\ (Single(i) => Single(i)')
    BY <1>5, <1>6, <2>2, CoversShrink
  <2>5. info'[i] = info[i]
    BY <1>2, <1>7
  <2>6. QED
    BY <2>3, <2>4, <2>5, LayeredKept
<1>8. CASE i = s[1]
  <2>1. s[2] \notin {Zero, Mitigated} => Bare(i)
    BY <1>8 DEF Layered
  <2>2. \A x \in op'[k].seen : x[1] # i
    BY <1>1, <1>3, <1>8 DEF Aimed
  <2>3. CASE Mitigate(k, s)
    <3>1. Covers(i)' \subseteq Covers(i) \cup {<<"slot", k>>}
      BY <1>5, <1>6, CoversBut
    <3>2. Bare(i) => Single(i)'
      BY <3>1 DEF Bare, Single
    <3>3. ASSUME NEW l \in Slots \ {k}, NEW x \in op'[l].seen, x[1] = i
          PROVE  x[2] = Mitigated
      <4>1. Overtakes(k, {s[1]}) /\ {s[1]} \in SUBSET Infos /\ x \in op[l].seen
        BY <1>2, <1>3, <2>3, <3>3 DEF Mitigate, Others
      <4>2. i \notin overtaken'
        BY DEF Excused
      <4>3. QED
        BY <1>8, <3>3, <4>1, <4>2, OvertakesWhat
    <3>4. \A l \in Slots : \A x \in op'[l].seen : x[1] = i => x[2] = Mitigated
      BY <2>2, <3>3
    <3>5. QED
      BY <1>2, <1>8, <2>1, <2>3, <3>2, <3>4 DEF Layered
  <2>4. CASE Revert(k, s)
    <3>1. op'[k].at # "mitigate"
      BY <1>1, <1>3, <2>4 DEF Revert, Shaped
    <3>2. ~OpCovers(k, i)'
      BY <3>1 DEF OpCovers, Mitigating
    <3>3. Bare(i) => Bare(i)'
      BY <1>5, <1>6, <3>2, CoversShrink
    <3>4. \A l \in Slots : \A x \in op'[l].seen : x[1] = i => x \in op[l].seen
      BY <1>3, <2>2 DEF Others
    <3>5. QED
      BY <1>2, <1>8, <2>1, <2>4, <3>3, <3>4 DEF Layered
  <2>5. QED
    BY <2>3, <2>4
<1>9. QED
  BY <1>7, <1>8

\* The cron reads the places of a report whose approval is over: what it is to
\* show again has lost its cover.
LEMMA FindMitigatedLayered ==
    ASSUME Sound, TakenOnce, NEW i \in Infos, Layered(i), ~Excused(i), NEW k \in Crons,
           NEW r \in Reports, FindMitigated(k, r)
    PROVE  Layered(i)'
<1>1. k \in Slots /\ k \notin Requests /\ TypeOK /\ Shaped(k)
  BY ConstantsAssumption, SlotSound DEF Slots
<1>2. /\ Turns(k, "expire", "next", op[k].temp, op[k].todo \ {r}, Held(k), Originals(r))
      /\ UNCHANGED <<report, info>> /\ op[k].kind = "expire" /\ r \in op[k].todo /\ r \in Held(k)
  BY <1>1, FindMitigatedSlot DEF FindMitigated, Shaped
<1>3. /\ Others(k) /\ op'[k].at = "next" /\ op'[k].todo = op[k].todo \ {r} /\ Held(k)' = Held(k)
      /\ op'[k].seen = Originals(r)
  BY <1>2 DEF Turns
<1>4. /\ \A l \in Slots : Held(l)' = Held(l) /\ op'[l].todo \subseteq op[l].todo
      /\ \A l \in Slots \ {k} : op'[l] = op[l]
  BY <1>3 DEF Others, Held
<1>5. \A t \in Reports : (Granted(t, i)' => Granted(t, i)) /\ (Expiring(t, i)' => Expiring(t, i))
  <2>1. \A t \in Reports : (Shipped(t) => Shipped(t)') /\ (Taken(t) => Taken(t)')
    BY <1>1, <1>4 DEF Shipped, Taken, Slots
  <2>2. QED
    BY <1>2, <1>4, <2>1 DEF Granted, Expiring, Temporary, Slots
<1>6. \A l \in Slots : OpCovers(l, i)' => OpCovers(l, i)
  BY <1>1, <1>3, CoversOther DEF OpCovers, Mitigating
<1>7. /\ Covers(i)' \subseteq Covers(i)
      /\ (Bare(i) => Bare(i)') /\ (Single(i) => Single(i)')
  BY <1>5, <1>6, CoversShrink
<1>8. i \in Places[r] => <<"expiring", r>> \in Covers(i)
  BY <1>2, InCovers DEF Expiring
<1>9. i \in Places[r] => <<"expiring", r>> \notin Covers(i)'
  <2> SUFFICES ASSUME i \in Places[r]
               PROVE  ~Expiring(r, i)'
    BY DEF Covers
  <2>1. Taken(r)'
    BY <1>2, <1>3 DEF Taken
  <2>2. r \notin rerun
    BY DEF Excused
  <2>3. \A l \in Crons \ {k} : r \notin Held(l)
    BY <1>2, <2>2 DEF TakenOnce
  <2>4. \A l \in Crons : l \in Slots /\ op[l].todo \subseteq Held(l)
    BY SlotSound DEF Shaped, Slots
  <2>5. QED
    BY <1>3, <1>4, <2>1, <2>3, <2>4 DEF Expiring
<1>10. ASSUME NEW l \in Slots, NEW s \in op'[l].seen, s[1] = i, s[2] \notin {Zero, Mitigated}
      PROVE  Bare(i)'
  <2>1. CASE l # k
    BY <1>4, <1>7, <1>10, <2>1 DEF Layered
  <2>2. CASE l = k
    <3>1. i \in Places[r] /\ s[2] = info[i].original /\ s[2] # Null
      BY <1>1, <1>3, <1>10, <2>2, FoundType
    <3>2. Single(i)
      BY <1>10, <3>1 DEF Layered
    <3>3. Covers(i) \subseteq {<<"expiring", r>>}
      BY <1>8, <3>1, <3>2 DEF Single
    <3>4. QED
      BY <1>7, <1>9, <3>1, <3>3 DEF Bare
  <2>3. QED
    BY <2>1, <2>2
<1>11. QED
  BY <1>2, <1>7, <1>10 DEF Layered

LEMMA CronLayered ==
    ASSUME Sound, NEW i \in Infos, Layered(i), ~Excused(i)', NEW k \in Slots,
           \/ k \in Crons /\ (FindExpired(k) \/ UpdateExpired(k) \/ RevertError(k))
           \/ Crash(k)
    PROVE  Layered(i)'
<1>1. TypeOK /\ Shaped(k) /\ Held(k) \subseteq Reports
  BY SlotSound
<1>2. Calm
  BY CalmCrons
<1> DEFINE Covered(t) == (Granted(t, i)' => Granted(t, i)) /\ (Expiring(t, i)' => Expiring(t, i))
<1>3. Others(k) /\ op'[k].at # "mitigate"
  <2>1. CASE k \in Crons /\ FindExpired(k)
    BY <1>1, <2>1, FindExpiredSlot DEF Turns
  <2>2. CASE (k \in Crons /\ UpdateExpired(k)) \/ Crash(k)
    BY <1>1, <2>2, GoesIdle DEF Turns, Stops, UpdateExpired, Crash
  <2>3. CASE k \in Crons /\ RevertError(k)
    <3>1. op[k].kind = "expire" /\ op[k].at = "next"
      BY <1>1, <2>3 DEF RevertError, Shaped
    <3>2. QED
      BY <1>1, <2>3, <3>1, SeenSlot, TodoSlot DEF Turns, RevertError
  <2>4. QED
    BY <2>1, <2>2, <2>3
<1>4. \A l \in Slots \ {k} : op'[l] = op[l] /\ Held(l)' = Held(l)
  BY <1>3 DEF Others, Held
<1>5. ASSUME NEW t \in Reports, i \in Places[t]
      PROVE  Covered(t)
  <2>1. ASSUME Shipped(t), ~Shipped(t)'
        PROVE  FALSE
    <3>1. t \in Held(k) /\ op[k].kind = "shipment"
      BY <1>4, <2>1 DEF Shipped, Slots
    <3>2. Crash(k) /\ op[k].at # "load" /\ op[k].temp
      BY <1>1, <3>1 DEF FindExpired, UpdateExpired, RevertError, Shaped
    <3>3. t \in unlaid'
      BY <3>1, <3>2 DEF Crash
    <3>4. QED
      BY <1>5, <3>3 DEF Excused
  <2>2. CASE k \in Crons /\ FindExpired(k)
    <3>1. UNCHANGED report /\ Held(k) = {}
      BY <1>1, <2>2 DEF FindExpired, Shaped
    <3>2. op'[k].todo = Expired /\ Held(k)' = Expired
      BY <1>1, <2>2, FindExpiredSlot DEF Turns
    <3>3. Taken(t) => Taken(t)'
      BY <1>4, <3>1 DEF Taken, Slots
    <3>4. t \in Expired => Temporary(t) /\ report[t].expiry = "past"
      BY DEF Expired
    <3>5. ASSUME t \in Expired, Taken(t)
          PROVE  FALSE
      <4>1. t \in rerun'
        BY <2>2, <3>5 DEF FindExpired, Taken
      <4>2. QED
        BY <1>5, <4>1 DEF Excused
    <3>6. QED
      BY <1>4, <1>5, <2>1, <3>1, <3>2, <3>3, <3>4, <3>5 DEF Granted, Expiring, Temporary, Slots
  <2>3. CASE k \in Crons /\ UpdateExpired(k)
    <3>1. Held(k)' = {} /\ op'[k].todo = {}
      BY <1>1, <2>3, GoesIdle DEF Turns, Stops, UpdateExpired
    <3>2. Temporary(t)' => t \notin Held(k) /\ report'[t] = report[t]
      BY <1>1, <2>3, UpdateExpiredReport DEF Temporary
    <3>3. t \notin Held(k) /\ Taken(t) => Taken(t)'
      BY <1>4 DEF Taken, Slots
    <3>4. QED
      BY <1>4, <2>1, <3>1, <3>2, <3>3 DEF Granted, Expiring, Temporary, Slots
  <2>4. CASE k \in Crons /\ RevertError(k)
    <3>1. UNCHANGED report /\ Held(k)' = Held(k) /\ op'[k].todo \subseteq op[k].todo
      BY <1>1, <2>4, SeenSlot, TodoSlot DEF Turns, RevertError
    <3>2. Taken(t) => Taken(t)'
      BY <1>4, <3>1 DEF Taken, Slots
    <3>3. QED
      BY <1>4, <2>1, <3>1, <3>2 DEF Granted, Expiring, Temporary, Slots
  <2>5. CASE Crash(k)
    <3>1. UNCHANGED report /\ Held(k)' = {} /\ op'[k].todo = {}
      BY <1>1, <2>5, GoesIdle DEF Turns, Stops, Crash
    <3>2. k \in Crons => t \notin Held(k)
      <4>1. k \in Crons /\ t \in Held(k) => t \in rerun'
        BY <1>1, <2>5 DEF Crash, Shaped
      <4>2. QED
        BY <1>5, <4>1 DEF Excused
    <3>3. Taken(t) => Taken(t)'
      BY <1>4, <3>2 DEF Taken, Slots
    <3>4. QED
      BY <1>4, <2>1, <3>1, <3>3 DEF Granted, Expiring, Temporary, Slots
  <2>6. QED
    BY <2>2, <2>3, <2>4, <2>5
<1>6. ASSUME NEW t \in Reports, i \notin Places[t]
      PROVE  Covered(t)
  BY <1>6 DEF Granted, Expiring
<1>7. \A l \in Slots : OpCovers(l, i)' => OpCovers(l, i)
  BY <1>3, CoversOther DEF OpCovers, Mitigating
<1>8. (Bare(i) => Bare(i)') /\ (Single(i) => Single(i)')
  BY <1>5, <1>6, <1>7, CoversShrink
<1>9. QED
  BY <1>2, <1>8, CalmSeen, LayeredKept

\* A running approval that expires is covered as before, by itself.
LEMMA ExpireLayered ==
    ASSUME Sound, NEW i \in Infos, Layered(i), NEW r \in Reports, Expire(r)
    PROVE  Layered(i)'
<1>1. report \in [Reports -> Row]
  BY DEF Sound, TypeOK
<1>2. /\ UNCHANGED <<op, info>> /\ report' = [report EXCEPT ![r].expiry = "past"]
      /\ report[r].expiry = "running" /\ ~Shipped(r)
  BY DEF Expire, Shipped
<1>3. /\ \A t \in Reports \ {r} : report'[t] = report[t]
      /\ report'[r].legend = report[r].legend /\ report'[r].expiry = "past"
  <2> DEFINE e == [report[r] EXCEPT !.expiry = "past"]
  <2>1. e.legend = report[r].legend /\ e.expiry = "past"
    BY <1>1 DEF Row
  <2>2. report' = [report EXCEPT ![r] = e]
    BY <1>2
  <2> HIDE DEF e
  <2>3. QED
    BY <1>1, <2>1, <2>2
<1>4. /\ \A l \in Slots : OpCovers(l, i)' <=> OpCovers(l, i)
      /\ \A t \in Reports : (Shipped(t)' <=> Shipped(t)) /\ (Taken(t)' <=> Taken(t))
  BY <1>2 DEF OpCovers, Mitigating, HeldInfos, Shipped, Taken, Held
<1>5. \A t \in Reports \ {r} : (Granted(t, i)' <=> Granted(t, i)) /\ (Expiring(t, i)' <=> Expiring(t, i))
  BY <1>2, <1>3, <1>4 DEF Granted, Expiring, Temporary
<1>6. ~Granted(r, i)' /\ (Expiring(r, i)' => Granted(r, i) \/ Expiring(r, i))
  BY <1>2, <1>3, <1>4 DEF Granted, Expiring, Temporary
<1>7. (Bare(i) => Bare(i)') /\ (Single(i) => Single(i)')
  <2>1. CASE Expiring(r, i)' => Expiring(r, i)
    BY <1>4, <1>5, <1>6, <2>1, CoversShrink
  <2>2. CASE Granted(r, i)
    <3>1. <<"granted", r>> \in Covers(i) /\ <<"granted", r>> \notin Covers(i)'
      BY <1>6, <2>2 DEF Covers
    <3>2. Covers(i)' \subseteq Covers(i) \cup {<<"expiring", r>>}
      <4>1. \A t \in Reports : Granted(t, i)' => Granted(t, i)
        BY <1>5, <1>6
      <4>2. \A t \in Reports : Expiring(t, i)' => Expiring(t, i) \/ <<"expiring", r>> = <<"expiring", t>>
        BY <1>5
      <4>3. QED
        BY <1>4, <4>1, <4>2, CoversBut
    <3>3. QED
      BY <3>1, <3>2, CoversMove
  <2>3. QED
    BY <1>6, <2>1, <2>2
<1>8. QED
  BY <1>2, <1>7, LayeredKept

LEMMA OutsideLayered ==
    ASSUME Sound, NEW i \in Infos, Layered(i),
           \/ UNCHANGED vars
           \/ \E r \in Reports : CreateRequestAdditionalInformation(r) \/ Age(r)
           \/ \E x \in Infos : RiskMitigation(x)
    PROVE  Layered(i)'
<1>1. UNCHANGED op
  BY DEF vars, CreateRequestAdditionalInformation, Age, RiskMitigation
<1>2. info \in [Infos -> [status : DeforestationStatus, original : DeforestationStatus]]
      /\ report \in [Reports -> Row]
  BY DEF Sound, TypeOK
<1>3. info'[i].original = info[i].original /\ info'[i].status \in {info[i].status, Mitigated}
  <2>1. UNCHANGED info \/ \E x \in Infos : info' = [info EXCEPT ![x].status = Mitigated]
    BY DEF vars, CreateRequestAdditionalInformation, Age, RiskMitigation
  <2>2. QED
    BY <1>2, <2>1
<1>4. \A t \in Reports : Temporary(t)' => Temporary(t) /\ report'[t].expiry = report[t].expiry
  <2>1. \/ UNCHANGED report
        \/ \E r \in Reports : report' = [report EXCEPT ![r].legend = "update_required"]
    BY DEF vars, CreateRequestAdditionalInformation, Age, RiskMitigation
  <2>2. ASSUME NEW r \in Reports, report' = [report EXCEPT ![r].legend = "update_required"]
        PROVE  \A t \in Reports : Temporary(t)' => Temporary(t) /\ report'[t].expiry = report[t].expiry
    BY <1>2, <2>2 DEF Temporary, Row
  <2>3. QED
    BY <2>1, <2>2 DEF Temporary
<1>5. /\ \A l \in Slots : OpCovers(l, i)' => OpCovers(l, i)
      /\ \A t \in Reports : (Shipped(t)' <=> Shipped(t)) /\ (Taken(t)' <=> Taken(t))
  BY <1>1 DEF OpCovers, Mitigating, HeldInfos, Shipped, Taken, Held
<1>6. \A t \in Reports : (Granted(t, i)' => Granted(t, i)) /\ (Expiring(t, i)' => Expiring(t, i))
  BY <1>1, <1>4, <1>5 DEF Granted, Expiring
<1>7. (Bare(i) => Bare(i)') /\ (Single(i) => Single(i)')
  BY <1>5, <1>6, CoversShrink
<1>8. QED
  BY <1>1, <1>3, <1>7, LayeredKept

LEMMA TakenOnceKept ==
    ASSUME TakenOnce, NEW k \in Slots, Others(k), rerun \subseteq rerun', k \in Crons => Held(k)' \subseteq Held(k)
    PROVE  TakenOnce'
<1>1. \A l \in Crons : Held(l)' \subseteq Held(l)
  BY DEF Others, Held, Slots
<1>2. QED
  BY <1>1 DEF TakenOnce

LEMMA TakenOnceStep ==
    ASSUME Sound, TakenOnce, [Next]_vars
    PROVE  TakenOnce'
<1>1. rerun \subseteq rerun'
  BY Grows
<1>2. \A k \in Requests : k \in Slots /\ k \notin Crons
  BY ConstantsAssumption DEF Slots
<1>3. ASSUME NEW k \in Crons, FindExpired(k)
      PROVE  TakenOnce'
  <2>1. k \in Slots /\ TypeOK
    BY SlotSound DEF Slots
  <2>2. Others(k) /\ Held(k)' = Expired
    BY <1>3, <2>1, FindExpiredSlot DEF Turns
  <2>3. \A l \in Crons \ {k} : Held(l)' = Held(l)
    BY <2>2 DEF Others, Held, Slots
  <2>4. \A l \in Crons \ {k} : \A r \in Held(k)' \cap Held(l)' : r \in rerun'
    BY <1>3, <2>2, <2>3 DEF FindExpired
  <2>5. QED
    BY <1>1, <2>3, <2>4 DEF TakenOnce
<1>4. ASSUME NEW k \in Slots, Crash(k) \/ (k \in Crons /\ (UpdateExpired(k) \/ RevertError(k)))
      PROVE  TakenOnce'
  <2>1. Others(k) /\ Held(k)' \subseteq Held(k)
    BY <1>4, SlotSound, GoesIdle, SeenSlot, TodoSlot DEF Crash, UpdateExpired, RevertError, Turns, Stops
  <2>2. QED
    BY <1>1, <2>1, TakenOnceKept
<1>5. ASSUME NEW k \in Slots, NEW s \in op[k].seen, Mitigate(k, s) \/ Revert(k, s)
      PROVE  TakenOnce'
  BY <1>1, <1>5, WriteInfo, TakenOnceKept DEF Turns
<1>6. ASSUME NEW k \in Crons, NEW r \in Reports, FindMitigated(k, r)
      PROVE  TakenOnce'
  BY <1>1, <1>6, SlotSound, FindMitigatedSlot, TakenOnceKept DEF Turns, Slots
<1>7. ASSUME UNCHANGED op
      PROVE  TakenOnce'
  BY <1>1, <1>7 DEF TakenOnce, Held
<1>8. ASSUME NEW k \in Requests,
             \/ \E kind \in AllKinds, R \in SUBSET Reports, temp \in BOOLEAN : Begin(k, kind, R, temp)
             \/ \E kind \in AllKinds : \E R \in Checked(kind) : ReadOverdue(k, kind, R)
             \/ RequestStep(k)
             \/ \E r \in Reports : FailReport(k, r) \/ OverdueError(k, r)
      PROVE  TakenOnce'
  <2>1. \E o : Advance(k, o)
    <3>1. CASE RequestStep(k)
      BY <3>1 DEF RequestStep, LoadForDecision, LoadForApproval, ReadPlaces, PlacesDone, SaveApproval,
                  Mitigate, CommitDecision, UpdateForShipment, WriteOverdue
    <3>2. CASE ~RequestStep(k)
      BY <1>8, <3>2 DEF Begin, ReadOverdue, FailReport, OverdueError
    <3>3. QED
      BY <3>1, <3>2
  <2>2. op \in [Slots -> Operation]
    BY DEF Sound, TypeOK
  <2>3. Others(k)
    BY <2>1, <2>2 DEF Advance, Others
  <2>4. QED
    BY <1>1, <1>2, <2>3, TakenOnceKept
<1>9. CASE \/ UNCHANGED vars
           \/ \E r \in Reports : CreateRequestAdditionalInformation(r) \/ Expire(r) \/ Age(r)
           \/ \E i \in Infos : RiskMitigation(i)
  BY <1>7, <1>9 DEF vars, CreateRequestAdditionalInformation, Expire, Age, RiskMitigation
<1>10. Crons \subseteq Slots
  BY DEF Slots
<1>11. QED
  BY <1>3, <1>4, <1>5, <1>6, <1>8, <1>9, <1>10 DEF Next, CronStep

LEMMA LayeredStep ==
    ASSUME Sound, ZeroUntouched, AllLayered, [Next]_vars
    PROVE  AllLayered'
<1> SUFFICES ASSUME NEW i \in Infos, ~Excused(i)'
             PROVE  Layered(i)'
  BY TakenOnceStep DEF AllLayered
<1>1. ~Excused(i)
  BY Grows DEF Excused
<1>2. Layered(i) /\ TakenOnce
  BY <1>1 DEF AllLayered
<1>3. Requests \subseteq Slots /\ Crons \subseteq Slots
  BY DEF Slots
<1>4. ASSUME NEW k \in Requests, RequestStep(k)
      PROVE  Layered(i)'
  <2>1. CASE \/ CommitDecision(k) \/ UpdateForShipment(k)
             \/ \E R \in SUBSET Reports : WriteOverdue(k, R)
    BY <1>2, <2>1, QuietStepsLayered, ShippingLayered
  <2>2. CASE \E s \in op[k].seen : Mitigate(k, s)
    BY <1>2, <1>3, <2>2, WriteInfoLayered
  <2>3. CASE \E r \in Reports : LoadForDecision(k, r) \/ LoadForApproval(k, r)
    BY <1>2, <2>3, QuietStepsLayered
  <2>4. CASE \E r \in Reports : ReadPlaces(k, r)
    BY <1>2, <2>4, ReadPlacesLayered
  <2>5. CASE \E r \in Reports : PlacesDone(k, r) \/ SaveApproval(k, r)
    BY <1>2, <2>5, DoneLayered
  <2>6. QED
    BY <1>4, <2>1, <2>2, <2>3, <2>4, <2>5 DEF RequestStep
<1>5. ASSUME NEW k \in Requests,
             \/ \E kind \in AllKinds, R \in SUBSET Reports, temp \in BOOLEAN : Begin(k, kind, R, temp)
             \/ \E kind \in AllKinds : \E R \in Checked(kind) : ReadOverdue(k, kind, R)
             \/ \E r \in Reports : FailReport(k, r) \/ OverdueError(k, r)
      PROVE  Layered(i)'
  BY <1>2, <1>5, QuietStepsLayered, FailReportLayered
<1>6. ASSUME NEW k \in Crons, CronStep(k) \/ RevertError(k)
      PROVE  Layered(i)'
  <2>1. CASE FindExpired(k) \/ UpdateExpired(k) \/ RevertError(k)
    BY <1>2, <1>3, <2>1, CronLayered
  <2>2. CASE \E r \in Reports : FindMitigated(k, r)
    BY <1>1, <1>2, <2>2, FindMitigatedLayered
  <2>3. CASE \E s \in op[k].seen : Revert(k, s)
    BY <1>2, <1>3, <2>3, WriteInfoLayered
  <2>4. QED
    BY <1>6, <2>1, <2>2, <2>3 DEF CronStep
<1>7. ASSUME NEW k \in Slots, Crash(k)
      PROVE  Layered(i)'
  BY <1>2, <1>7, CronLayered
<1>8. CASE UNCHANGED vars
  BY <1>2, <1>8, OutsideLayered
<1>9. QED
  BY <1>2, <1>4, <1>5, <1>6, <1>7, <1>8, ExpireLayered, OutsideLayered DEF Next

LEMMA InitLayered ==
    ASSUME Init
    PROVE  AllLayered /\ ZeroUntouched
<1>1. /\ \A k \in Slots : Held(k) = {} /\ op[k].seen = {} /\ op[k].at = "idle"
      /\ \A i \in Infos : info[i].original = Null
  BY InitIdle
<1>2. \A r \in Reports : ~Temporary(r)
  BY DEF Init, Temporary
<1>3. \A k \in Slots : op[k].todo = {}
  BY IdleOperation DEF Init
<1>4. \A i \in Infos : Bare(i)
  BY <1>1, <1>2, <1>3 DEF Bare, Covers, Granted, Expiring, OpCovers, Mitigating, Slots
<1>5. TakenOnce
  BY <1>1 DEF TakenOnce, Slots
<1>6. ZeroUntouched
  BY <1>1 DEF ZeroUntouched, Null, Zero
<1>7. QED
  BY <1>1, <1>4, <1>5, <1>6 DEF AllLayered, Layered

\* No place of a report counts as deforested while its temporary approval runs, though
\* other reports with that place expire; excepted are the infos that two operations
\* were writing at once, the places of the reports a shipment failed to mitigate or is
\* at work on, and those of the reports whose expiry two runs of the cron took up.
THEOREM ApprovalsCovered == Spec => []TemporaryCovered
<1>1. Init => AllLayered /\ ZeroUntouched
  BY InitLayered
<1>2. Sound /\ ZeroUntouched /\ AllLayered /\ [Next]_vars => ZeroUntouched' /\ AllLayered'
  BY LayeredStep, ZeroStep
<1>3. ASSUME AllLayered
      PROVE  TemporaryCovered
  <2> SUFFICES ASSUME NEW r \in Reports, Temporary(r), report[r].expiry = "running", NEW i \in Places[r],
                      i \notin overtaken, ~ \E t \in unlaid \cup rerun : i \in Places[t],
                      ~ \E k \in Requests : op[k].kind = "shipment" /\ r \in Held(k)
               PROVE  info[i].status \in {Zero, Mitigated}
    BY DEF TemporaryCovered
  <2>1. i \in Infos /\ ~Excused(i)
    BY ConstantsAssumption DEF Excused
  <2>2. Granted(r, i)
    BY DEF Granted, Shipped
  <2>3. ~Bare(i)
    BY <2>2, InCovers DEF Bare
  <2>4. QED
    BY <1>3, <2>1, <2>3 DEF AllLayered, Layered
<1>4. QED
  BY <1>1, <1>2, <1>3, AlwaysSound, PTL DEF Spec
=============================================================================
