--------------------------- MODULE ReportApproval ---------------------------
(***************************************************************************)
(* The approval of due-diligence reports: the column statusLegends with    *)
(* its temporary approvals, the deforestation statuses of the reports'     *)
(* production places, which a temporary approval overwrites and its expiry *)
(* restores, and the cron jobs that act on both.                           *)
(* (src/src/diligence-report/diligence-report.service.ts, its              *)
(* temporary-approval-cron.service.ts, src/src/shipment/                   *)
(* shipment.service.ts, src/src/job/cron-job.service.ts.)                  *)
(*                                                                         *)
(* Every operation is a sequence of queries between which the others run.  *)
(* An operation works in a slot: Requests are the requests in flight,      *)
(* Crons the runs of the expiry cron (one per server).  A slot keeps the   *)
(* rows its operation has loaded and will write, and the statuses it has   *)
(* seen.  The writes of a transaction are one step, its commit: until then *)
(* they hold their row locks, and the reads are not part of it.            *)
(***************************************************************************)
EXTENDS Integers, FiniteSets

CONSTANTS
    Reports, Infos,     \* diligence reports, deforestation infos
    Places,             \* Places[r]: the infos of the places of report r
    Organization,       \* Organization[r]
    Found,              \* Found[i]: the status the satellite analysis gave i
    Requests, Crons,    \* the slots
    Kinds,              \* the operations that may be begun
    Ageing,             \* the reports whose age changes
    MaxRequests,        \* bound: operations begun by users
    MaxFaults,          \* bound: crashes and failed queries
    MaxMitigations      \* bound: manual mitigations

Zero      == "Zero/Negligible Deforestation Probability"
Mitigated == "Manually Mitigated"
High      == "High Deforestation Probability"
Null      == "null"
DeforestationStatus == {Zero, Mitigated, High, Null}

StatusLegends == {"pending", "overdue", "update_required", "pending_approval",
                  "approved", "temporary_approved", "rejected"}
AllKinds == {"approve", "shipment", "assign", "reject", "overdue", "overdueCron"}
Slots == Requests \cup Crons

\* The operations that save() the instances they have loaded.
Savers == {"approve", "assign", "reject"}

ASSUME ConstantsAssumption ==
    /\ Places \in [Reports -> SUBSET Infos]
    /\ Found \in [Infos -> DeforestationStatus]
    /\ Kinds \subseteq AllKinds
    /\ Ageing \subseteq Reports
    /\ Requests \cap Crons = {} /\ "none" \notin Slots
    /\ {MaxRequests, MaxFaults, MaxMitigations} \subseteq Nat

VARIABLES
    report,     \* report[r]: statusLegends, isTemporaryApproval, and where
                \*   temporaryExpirationDate lies: "none", "running", "past"
    info,       \* info[i]: deforestationStatus and
                \*   originalDeforestationStatusForTemporaryApproval
    late,       \* late[r]: createdAt lies behind the organization's period
    op,         \* op[k]: the operation in slot k
    begun, faults, mitigations,     \* what the bounds count
    \* history, read by no action:
    truth,      \* truth[i]: the status the analysis or a user gave i
    overlaid,   \* infos overwritten while a temporary mitigation stood, or while
                \*   an operation was about to lay or to lift one
    withdrawn,  \* reports whose temporary approval a request or a check ended
    failed,     \* reports whose approval or expiry failed half-way
    unlaid,     \* reports a shipment approved temporarily and failed to mitigate
    rerun,      \* reports whose expiry two runs of the cron took up
    crossed,    \* reports written while another operation was about to write
                \*   what it had read of them
    toggled,    \* reports whose flag changed while a save() of them was to come
    overtaken   \* infos an approval mitigated while another operation, which had
                \*   read them unmitigated, was about to write them

bounds  == <<begun, faults, mitigations>>
history == <<truth, overlaid, withdrawn, failed, unlaid, rerun, crossed, toggled, overtaken>>
vars    == <<report, info, late, op, bounds, history>>

Idle == [kind |-> "idle", at |-> "idle", temp |-> FALSE, todo |-> {},
         rows |-> <<>>, seen |-> {}]

Temporary(r) == report[r].legend = "temporary_approved"

\* The reports slot k has loaded and will write, the infos it will write.
Held(k)     == DOMAIN op[k].rows
HeldInfos(k) == {s[1] : s \in op[k].seen}

\* Slot k writes the reports R: who holds them, and who will save() one whose
\* flag is no longer the one it has loaded.
Crosses(k, R) ==
    /\ crossed' = crossed \cup {r \in R : \E l \in Slots \ {k} : r \in Held(l)}
    /\ toggled' = toggled \cup {r \in R : /\ report'[r].temp # report[r].temp
                                          /\ \E l \in Slots \ {k} : r \in Held(l) /\ op[l].kind \in Savers}

\* An approval in slot k mitigates the infos I.
Overtakes(k, I) ==
    overtaken' = overtaken \cup
        {i \in I : \E l \in Slots \ {k} : \E s \in op[l].seen : s[1] = i /\ s[2] # Mitigated}

Advance(k, o) == op' = [op EXCEPT ![k] = o]

Init ==
    /\ report = [r \in Reports |-> [legend |-> "pending", temp |-> FALSE, expiry |-> "none"]]
    /\ info = [i \in Infos |-> [status |-> Found[i], original |-> Null]]
    /\ late = [r \in Reports |-> FALSE]
    /\ op = [k \in Slots |-> Idle]
    /\ begun = 0 /\ faults = 0 /\ mitigations = 0
    /\ truth = Found
    /\ overlaid = {} /\ withdrawn = {} /\ failed = {} /\ unlaid = {}
    /\ rerun = {} /\ crossed = {} /\ toggled = {} /\ overtaken = {}

-----------------------------------------------------------------------------
(* What the operations write.                                              *)

\* Mutated: the wording of the interface is stored.
DecisionWorded(kind, temp) ==
    [legend |-> IF temp THEN "Temporary Approved" ELSE "Pending Approval", temp |-> temp,
     expiry |-> "running"]

Decision(kind, temp) ==
    CASE kind = "assign" -> [legend |-> "pending_approval", temp |-> FALSE, expiry |-> "none"]
      [] kind = "reject" -> [legend |-> "rejected", temp |-> FALSE, expiry |-> "none"]
      [] OTHER -> [legend |-> IF temp THEN "temporary_approved" ELSE "approved",
                   temp |-> temp, expiry |-> "running"]

\* Mutated: only the status of an instance is saved.
SavedLegendOnly(r, row, d) == [report[r] EXCEPT !.legend = d.legend]

\* update() and save() of an instance write the columns that differ from the
\* row it was loaded from; a new expiration date always does, and a permanent
\* approval sets none.
Saved(r, row, d) ==
    [legend |-> IF d.legend # row.legend THEN d.legend ELSE report[r].legend,
     temp   |-> IF d.temp # row.temp THEN d.temp ELSE report[r].temp,
     expiry |-> CASE d.legend = "approved" -> report[r].expiry
                  [] d.legend = "temporary_approved" -> "running"
                  [] OTHER -> IF row.expiry # "none" THEN "none" ELSE report[r].expiry]

\* Model.update(): every column named, whatever the rows held.
Overwritten(r, d) ==
    IF d.legend = "approved" THEN [d EXCEPT !.expiry = report[r].expiry] ELSE d

\* Who ends a temporary approval that has not expired.
Withdraws(R, legend) ==
    withdrawn' = IF legend = "temporary_approved" THEN withdrawn \ R
                 ELSE withdrawn \cup {r \in R : Temporary(r)}

-----------------------------------------------------------------------------
(* Requests.                                                               *)

Begin(k, kind, R, temp) ==
    /\ k \in Requests /\ kind \in Kinds \ {"overdue", "overdueCron"}
    /\ op[k].kind = "idle" /\ begun < MaxRequests
    /\ R # {}
    /\ temp => kind \in {"approve", "shipment"}
    /\ begun' = begun + 1
    /\ Advance(k, [Idle EXCEPT !.kind = kind, !.at = "load", !.temp = temp, !.todo = R])
    /\ UNCHANGED <<report, info, late, faults, mitigations, history>>

\* bulkAssignReports(), bulkRejectReports(): findByPk of each report in turn.
LoadForDecision(k, r) ==
    /\ op[k].kind \in {"assign", "reject"} /\ op[k].at = "load" /\ r \in op[k].todo
    /\ Advance(k, [op[k] EXCEPT !.todo = @ \ {r},
                                !.rows = [x \in Held(k) \cup {r} |-> IF x = r THEN report[r] ELSE @[x]]])
    /\ UNCHANGED <<report, info, late, bounds, history>>

\* Their transaction is committed.  (bulkAssignShipments() and
\* bulkRejectShipments() write every column.)
CommitDecision(k) ==
    LET d == Decision(op[k].kind, FALSE)
        R == Held(k) IN
    /\ op[k].kind \in {"assign", "reject"} /\ op[k].at = "load" /\ op[k].todo = {}
    /\ \/ report' = [r \in Reports |-> IF r \in R THEN Saved(r, op[k].rows[r], d) ELSE report[r]]
       \/ report' = [r \in Reports |-> IF r \in R THEN Overwritten(r, d) ELSE report[r]]
    /\ Withdraws(R, d.legend)
    /\ Crosses(k, R)
    /\ Advance(k, Idle)
    /\ UNCHANGED <<info, late, bounds, truth, overlaid, failed, unlaid, rerun, overtaken>>

\* createRequestAdditionalInformation() with isPtsiApproval.
CreateRequestAdditionalInformation(r) ==
    /\ begun < MaxRequests
    /\ begun' = begun + 1
    /\ report' = [report EXCEPT ![r].legend = "update_required"]
    /\ Withdraws({r}, "update_required")
    /\ Crosses("none", {r})
    /\ UNCHANGED <<info, late, op, faults, mitigations, truth, overlaid, failed, unlaid, rerun, overtaken>>

\* riskMitigation(): a user declares the places of the info mitigated.
RiskMitigation(i) ==
    /\ mitigations < MaxMitigations
    /\ mitigations' = mitigations + 1
    /\ info' = [info EXCEPT ![i].status = Mitigated]
    /\ truth' = [truth EXCEPT ![i] = Mitigated]
    /\ overlaid' = IF info[i].original # Null \/ \E k \in Slots : i \in HeldInfos(k)
                   THEN overlaid \cup {i} ELSE overlaid
    /\ UNCHANGED <<report, late, op, begun, faults, withdrawn, failed, unlaid, rerun, crossed, toggled,
                   overtaken>>

\* bulkApproveReports(): the next report is loaded.
LoadForApproval(k, r) ==
    /\ op[k].kind = "approve" /\ op[k].at = "load" /\ r \in op[k].todo
    /\ Advance(k, [op[k] EXCEPT !.at = IF op[k].temp THEN "places" ELSE "save",
                                !.todo = @ \ {r}, !.rows = [x \in {r} |-> report[r]]])
    /\ UNCHANGED <<report, info, late, bounds, history>>

\* bulkApproveShipments(): the reports of the shipments are updated together,
\* and their places are taken up one report after the other.
UpdateForShipment(k) ==
    LET R == op[k].todo
        d == Decision("shipment", op[k].temp) IN
    /\ op[k].kind = "shipment" /\ op[k].at = "load"
    /\ report' = [r \in Reports |-> IF r \in R THEN Overwritten(r, d) ELSE report[r]]
    /\ Withdraws(R, d.legend)
    /\ Crosses(k, R)
    /\ Advance(k, IF op[k].temp
                  THEN [op[k] EXCEPT !.at = "next", !.todo = {}, !.rows = [r \in R |-> report[r]]]
                  ELSE Idle)
    /\ UNCHANGED <<info, late, bounds, truth, overlaid, failed, unlaid, rerun, overtaken>>

\* Mutated: a place that is mitigated already is left alone.
ToMitigateOnce(r) == {<<i, info[i].status>> : i \in {x \in Places[r] : info[x].status = High}}

\* updateProductionPlacesForTemporaryApproval(): what its query sees, but for
\* the places that need nothing.
ToMitigate(r) == {<<i, info[i].status>> : i \in {x \in Places[r] : info[x].status # Zero}}

ReadPlaces(k, r) ==
    /\ \/ op[k].kind = "approve" /\ op[k].at = "places"
       \/ op[k].kind = "shipment" /\ op[k].at = "next"
    /\ r \in Held(k)
    /\ Advance(k, [op[k] EXCEPT !.at = "mitigate", !.todo = IF op[k].kind = "shipment" THEN {r} ELSE @,
                                !.seen = ToMitigate(r)])
    /\ overlaid' = overlaid \cup {i \in Infos : info[i].original # Null
                                             /\ <<i, info[i].status>> \in ToMitigate(r)}
    /\ UNCHANGED <<report, info, late, bounds, truth, withdrawn, failed, unlaid, rerun, crossed,
                   toggled, overtaken>>

\* One of the parallel updates of the places.
Mitigate(k, s) ==
    /\ op[k].at = "mitigate" /\ s \in op[k].seen
    /\ info' = [info EXCEPT ![s[1]] = [status |-> Mitigated, original |-> s[2]]]
    /\ Overtakes(k, {s[1]})
    /\ Advance(k, [op[k] EXCEPT !.seen = @ \ {s}])
    /\ UNCHANGED <<report, late, bounds, truth, overlaid, withdrawn, failed, unlaid, rerun, crossed,
                   toggled>>

\* What remains of slot k when the loop is done with report r.
Remaining(k, r) ==
    IF op[k].kind = "approve"
    THEN IF op[k].todo = {} THEN Idle ELSE [op[k] EXCEPT !.at = "load", !.rows = <<>>, !.seen = {}]
    ELSE IF Held(k) = {r} THEN Idle
    ELSE [op[k] EXCEPT !.at = "next", !.todo = {}, !.seen = {},
                       !.rows = [x \in Held(k) \ {r} |-> @[x]]]

\* bulkApproveShipments(): the places of report r are done.
PlacesDone(k, r) ==
    /\ op[k].kind = "shipment" /\ op[k].at = "mitigate" /\ op[k].seen = {} /\ r \in op[k].todo
    /\ Advance(k, Remaining(k, r))
    /\ UNCHANGED <<report, info, late, bounds, history>>

\* bulkApproveReports(): report.save(), after the updates of its places.
SaveApproval(k, r) ==
    LET d == Decision("approve", op[k].temp) IN
    /\ op[k].kind = "approve" /\ r \in Held(k)
    /\ op[k].at = "save" \/ (op[k].at = "mitigate" /\ op[k].seen = {})
    /\ report' = [report EXCEPT ![r] = Saved(r, op[k].rows[r], d)]
    /\ Withdraws({r}, d.legend)
    /\ Crosses(k, {r})
    /\ Advance(k, Remaining(k, r))
    /\ UNCHANGED <<info, late, bounds, truth, overlaid, failed, unlaid, rerun, overtaken>>

\* A query on report r or on one of its places fails: the loop goes on to the
\* next report.  The updates Promise.all had issued are carried out all the same.
FailReport(k, r) ==
    /\ faults < MaxFaults
    /\ \/ op[k].kind = "approve" /\ r \in Held(k)
       \/ op[k].kind = "shipment" /\ op[k].at = "next" /\ r \in Held(k)
       \/ op[k].kind = "shipment" /\ op[k].at = "mitigate" /\ r \in op[k].todo /\ op[k].seen # {}
    /\ \E W \in SUBSET op[k].seen :
          /\ info' = [i \in Infos |->
                        IF \E s \in W : s[1] = i
                        THEN [status |-> Mitigated, original |-> (CHOOSE s \in W : s[1] = i)[2]]
                        ELSE info[i]]
          /\ Overtakes(k, {s[1] : s \in W})
    /\ Advance(k, Remaining(k, r))
    /\ faults' = faults + 1
    /\ failed' = IF op[k].temp THEN failed \cup {r} ELSE failed
    /\ unlaid' = IF op[k].kind = "shipment" THEN unlaid \cup {r} ELSE unlaid
    /\ UNCHANGED <<report, late, begun, mitigations, truth, overlaid, withdrawn, rerun, crossed, toggled>>

-----------------------------------------------------------------------------
(* The overdue check.                                                      *)

\* Mutated: a decided report is checked as well.
OverdueLegendAlways(r) == IF late[r] THEN "overdue" ELSE report[r].legend

\* The legend the check gives report r: checkAndUpdateOverdueReports().
OverdueLegend(r) ==
    IF report[r].legend \in {"approved", "rejected"} THEN report[r].legend
    ELSE IF late[r] THEN "overdue"
    ELSE IF report[r].legend = "overdue" THEN "pending"
    ELSE report[r].legend

\* The reports a listing returns, or those of the cron's query: neither overdue
\* nor decided, and one of each organization.
Checked(kind) ==
    IF kind = "overdue" THEN SUBSET Reports
    ELSE {R \in SUBSET {r \in Reports : report[r].legend \notin {"overdue", "approved", "rejected"}} :
            \A r, t \in R : Organization[r] = Organization[t] => r = t}

ReadOverdue(k, kind, R) ==
    LET found == {r \in R : OverdueLegend(r) # report[r].legend \/ OverdueLegend(r) = "overdue"} IN
    /\ k \in Requests /\ kind \in Kinds \cap {"overdue", "overdueCron"} /\ op[k].kind = "idle"
    /\ begun < MaxRequests
    /\ found # {}
    /\ begun' = begun + 1
    /\ Advance(k, [Idle EXCEPT !.kind = kind, !.at = "write",
                      !.rows = [r \in found |-> [report[r] EXCEPT !.legend = OverdueLegend(r)]]])
    /\ UNCHANGED <<report, info, late, faults, mitigations, history>>

\* The listing commits its updates together, the cron updates one by one.
WriteOverdue(k, R) ==
    /\ op[k].kind \in {"overdue", "overdueCron"}
    /\ IF op[k].kind = "overdue" THEN R = Held(k)
       ELSE R \subseteq Held(k) /\ Cardinality(R) = 1
    /\ report' = [r \in Reports |-> IF r \in R
                    THEN [report[r] EXCEPT !.legend = op[k].rows[r].legend] ELSE report[r]]
    /\ Withdraws(R, "overdue")
    /\ Crosses(k, R)
    /\ Advance(k, IF R = Held(k) THEN Idle
                  ELSE [op[k] EXCEPT !.rows = [r \in Held(k) \ R |-> @[r]]])
    /\ UNCHANGED <<info, late, bounds, truth, overlaid, failed, unlaid, rerun, overtaken>>

\* The cron's update of a report fails: it goes on to the next.
OverdueError(k, r) ==
    /\ op[k].kind = "overdueCron" /\ r \in Held(k) /\ faults < MaxFaults
    /\ faults' = faults + 1
    /\ Advance(k, IF Held(k) = {r} THEN Idle
                  ELSE [op[k] EXCEPT !.rows = [x \in Held(k) \ {r} |-> @[x]]])
    /\ UNCHANGED <<report, info, late, begun, mitigations, history>>

-----------------------------------------------------------------------------
(* TemporaryApprovalCronService.                                           *)

Expired == {r \in Reports : Temporary(r) /\ report[r].temp /\ report[r].expiry = "past"}

\* Mutated: a run that failed leaves a lock behind.
FindExpiredOnce(k) ==
    /\ k \in Crons /\ op[k].kind = "idle" /\ faults = 0
    /\ Expired # {}
    /\ Advance(k, [Idle EXCEPT !.kind = "expire", !.at = "next", !.todo = Expired,
                               !.rows = [r \in Expired |-> report[r]]])
    /\ UNCHANGED <<report, info, late, bounds, history>>

\* handleExpiredTemporaryApprovals(): its query.
FindExpired(k) ==
    /\ k \in Crons /\ op[k].kind = "idle"
    /\ Expired # {}
    /\ Advance(k, [Idle EXCEPT !.kind = "expire", !.at = "next", !.todo = Expired,
                               !.rows = [r \in Expired |-> report[r]]])
    /\ rerun' = rerun \cup {r \in Expired : \E l \in Crons : r \in Held(l)}
    /\ UNCHANGED <<report, info, late, bounds, truth, overlaid, withdrawn, failed, unlaid, crossed,
                   toggled, overtaken>>

\* revertProductionPlacesForExpiredReport(): the infos with an original status.
FindMitigated(k, r) ==
    /\ op[k].kind = "expire" /\ op[k].at = "next" /\ op[k].seen = {} /\ r \in op[k].todo
    /\ Advance(k, [op[k] EXCEPT !.todo = @ \ {r},
                      !.seen = {<<i, info[i].original>> : i \in {x \in Places[r] : info[x].original # Null}}])
    /\ UNCHANGED <<report, info, late, bounds, history>>

\* Mutated: the original status is forgotten, not restored.
RevertForgetting(k, s) ==
    /\ op[k].kind = "expire" /\ s \in op[k].seen
    /\ info' = [info EXCEPT ![s[1]].original = Null]
    /\ Advance(k, [op[k] EXCEPT !.seen = @ \ {s}])
    /\ UNCHANGED <<report, late, bounds, history>>

\* One info of the report is reverted.
Revert(k, s) ==
    /\ op[k].kind = "expire" /\ s \in op[k].seen
    /\ info' = [info EXCEPT ![s[1]] = [status |-> s[2], original |-> Null]]
    /\ Advance(k, [op[k] EXCEPT !.seen = @ \ {s}])
    /\ UNCHANGED <<report, late, bounds, history>>

\* The update of an info fails, or the query for the infos of a report: the
\* error is logged and the loop goes on.
RevertError(k) ==
    /\ op[k].kind = "expire" /\ faults < MaxFaults
    /\ faults' = faults + 1
    /\ \/ \E s \in op[k].seen :
             /\ Advance(k, [op[k] EXCEPT !.seen = @ \ {s}])
             /\ failed' = failed \cup {r \in Held(k) : s[1] \in Places[r]}
       \/ /\ op[k].seen = {}
          /\ \E r \in op[k].todo : /\ Advance(k, [op[k] EXCEPT !.todo = @ \ {r}])
                                   /\ failed' = failed \cup {r}
    /\ UNCHANGED <<report, info, late, begun, mitigations, truth, overlaid, withdrawn, unlaid, rerun, crossed,
                   toggled, overtaken>>

\* Mutated: the reports are updated before their places are reverted.
UpdateExpiredEarly(k) ==
    /\ op[k].kind = "expire" /\ op[k].seen = {}
    /\ report' = [r \in Reports |-> IF r \in Held(k) THEN Decision("assign", FALSE) ELSE report[r]]
    /\ Crosses(k, Held(k))
    /\ Advance(k, Idle)
    /\ UNCHANGED <<info, late, bounds, truth, overlaid, withdrawn, failed, unlaid, rerun, overtaken>>

\* handleExpiredTemporaryApprovals(): every report found is updated, unchecked.
UpdateExpired(k) ==
    /\ op[k].kind = "expire" /\ op[k].seen = {} /\ op[k].todo = {}
    /\ report' = [r \in Reports |-> IF r \in Held(k) THEN Decision("assign", FALSE) ELSE report[r]]
    /\ Crosses(k, Held(k))
    /\ Advance(k, Idle)
    /\ UNCHANGED <<info, late, bounds, truth, overlaid, withdrawn, failed, unlaid, rerun, overtaken>>

-----------------------------------------------------------------------------
(* Time and faults.                                                        *)

\* A temporary approval expires, days after the request that granted it.
Expire(r) ==
    /\ report[r].expiry = "running"
    /\ \A k \in Requests : op[k].kind = "shipment" => r \notin Held(k)
    /\ report' = [report EXCEPT ![r].expiry = "past"]
    /\ UNCHANGED <<info, late, op, bounds, history>>

\* createdAt passes the organization's period, or the period is extended.
Age(r) ==
    /\ r \in Ageing
    /\ late' = [late EXCEPT ![r] = ~@]
    /\ UNCHANGED <<report, info, op, bounds, history>>

\* The process stops, or a query fails that ends the operation: a transaction
\* is rolled back, what was written outside of one stays.
Crash(k) ==
    LET half == op[k].kind \in {"approve", "shipment"} /\ op[k].temp /\ op[k].at # "load" IN
    /\ op[k].kind # "idle" /\ faults < MaxFaults
    /\ faults' = faults + 1
    /\ Advance(k, Idle)
    /\ failed' = IF half THEN failed \cup Held(k) ELSE failed
    /\ unlaid' = IF half /\ op[k].kind = "shipment" THEN unlaid \cup Held(k) ELSE unlaid
    /\ rerun' = IF op[k].kind = "expire" THEN rerun \cup Held(k) ELSE rerun
    /\ UNCHANGED <<report, info, late, begun, mitigations, truth, overlaid, withdrawn, crossed, toggled,
                   overtaken>>

-----------------------------------------------------------------------------
RequestStep(k) ==
    \/ \E r \in Reports :
          \/ LoadForDecision(k, r) \/ LoadForApproval(k, r) \/ ReadPlaces(k, r)
          \/ PlacesDone(k, r) \/ SaveApproval(k, r)
    \/ \E s \in op[k].seen : Mitigate(k, s)
    \/ CommitDecision(k) \/ UpdateForShipment(k)
    \/ \E R \in SUBSET Reports : WriteOverdue(k, R)

CronStep(k) ==
    \/ FindExpired(k) \/ UpdateExpired(k)
    \/ \E r \in Reports : FindMitigated(k, r)
    \/ \E s \in op[k].seen : Revert(k, s)

Next ==
    \/ \E k \in Requests :
          \/ \E kind \in AllKinds, R \in SUBSET Reports, temp \in BOOLEAN : Begin(k, kind, R, temp)
          \/ \E kind \in AllKinds : \E R \in Checked(kind) : ReadOverdue(k, kind, R)
          \/ RequestStep(k)
          \/ \E r \in Reports : FailReport(k, r) \/ OverdueError(k, r)
    \/ \E k \in Crons : CronStep(k) \/ RevertError(k)
    \/ \E k \in Slots : Crash(k)
    \/ \E r \in Reports : CreateRequestAdditionalInformation(r) \/ Expire(r) \/ Age(r)
    \/ \E i \in Infos : RiskMitigation(i)

Spec == Init /\ [][Next]_vars

\* The cron runs every midnight and carries its run through.
FairSpec == Spec /\ \A k \in Crons : WF_vars(CronStep(k))

-----------------------------------------------------------------------------
Row == [legend : StatusLegends, temp : BOOLEAN, expiry : {"none", "running", "past"}]
Tables == UNION {[R -> Row] : R \in SUBSET Reports}
Operation == [kind : AllKinds \cup {"idle", "expire"},
              at : {"idle", "load", "places", "next", "mitigate", "save", "write"},
              temp : BOOLEAN, todo : SUBSET Reports, rows : Tables,
              seen : SUBSET (Infos \X DeforestationStatus)]

\* The types of the state.
TypeOK ==
    /\ report \in [Reports -> Row]
    /\ info \in [Infos -> [status : DeforestationStatus, original : DeforestationStatus]]
    /\ late \in [Reports -> BOOLEAN]
    /\ op \in [Slots -> Operation]
    /\ truth \in [Infos -> DeforestationStatus]
    /\ overlaid \subseteq Infos /\ withdrawn \subseteq Reports
    /\ failed \subseteq Reports /\ unlaid \subseteq Reports
    /\ rerun \subseteq Reports /\ crossed \subseteq Reports /\ toggled \subseteq Reports
    /\ overtaken \subseteq Infos

\* The status the analysis or a user gave the places is kept, in the column or
\* beside it, through approvals, expiries, their crashes and their failed queries;
\* it is lost only where a status stood mitigated already (a second temporary
\* approval, a shared info, a manual mitigation) or a user changed it between the
\* two queries of an operation.  (A place without a status has none to keep.)
StatusKept ==
    \A i \in Infos \ overlaid :
        truth[i] # Null => truth[i] \in {info[i].status, info[i].original}

\* A temporary mitigation stands only for a report that is temporarily approved
\* or about to be, unless a request or the overdue check ended the approval
\* without reverting its places, a query failed, or operations crossed: the
\* expiry cron, started again after a crash, leaves none behind.
MitigationExplained ==
    \A i \in Infos : info[i].original # Null =>
        \E r \in Reports : i \in Places[r] /\
            \/ Temporary(r) \/ r \in withdrawn \cup failed \cup crossed
            \/ \E k \in Requests : op[k].kind = "approve" /\ op[k].temp /\ r \in Held(k)

\* No place of a report counts as deforested while its temporary approval runs
\* (bulkApproveReports, bulkApproveShipments, handleExpiredTemporaryApprovals): the
\* expiry of another report with the same place does not uncover it, nor do a crash
\* or a failure of bulkApproveReports, a withdrawn approval or a decision that
\* crosses it.  Excepted are
\*   - an info that an approval mitigated while another operation, which had read
\*     it unmitigated, was still to write it: two concurrent temporary approvals of
\*     reports that share it, the first of which to expire uncovers the other, or
\*     the cron reverting it at that moment (overtaken);
\*   - a place of a report that a shipment approved temporarily and then failed,
\*     or stopped, to mitigate: report and places are not one transaction (unlaid);
\*   - a place of a report on whose expiry a run of the cron crashed, so that the
\*     next takes it up again, or which two runs took up beside each other (rerun);
\*   - the places of r while the shipment that approves it is at work on them.
TemporaryCovered ==
    \A r \in Reports : Temporary(r) /\ report[r].expiry = "running" =>
        \A i \in Places[r] :
            \/ info[i].status \in {Zero, Mitigated}
            \/ i \in overtaken
            \/ \E t \in unlaid \cup rerun : i \in Places[t]
            \/ \E k \in Requests : op[k].kind = "shipment" /\ r \in Held(k)

\* A temporary approval can be found by the expiry cron: it has its flag and its
\* date, though overdue checks, requests for information, other decisions and the
\* passing of the date change the row between the load and the save() of an
\* approval, which writes the columns that differ from the row loaded.  Excepted
\* (toggled) is a report whose flag another operation changed between the load and
\* the save(): an approval that loaded an overdue report with the flag set, and
\* saves it after bulkAssignReports() has cleared the flag, leaves the flag out of
\* its update, and the cron never finds the approval.
TemporaryExpires ==
    \A r \in Reports \ toggled : Temporary(r) => report[r].temp /\ report[r].expiry # "none"

\* The cron jobs and the overdue check leave a decided report alone, unless the
\* decision fell between their query and their update.
DecisionsStand ==
    [][\A r \in Reports, k \in Slots :
          /\ report[r].legend \in {"approved", "rejected"} /\ report'[r].legend # report[r].legend
          /\ op[k].kind \in {"overdue", "overdueCron", "expire"} /\ op'[k] # op[k]
          => r \in crossed']_vars

\* An expired temporary approval does not last: the cron ends it.
ExpiredEnds ==
    \A r \in Reports : r \in Expired ~> r \notin Expired

-----------------------------------------------------------------------------
(* What a comment of the code says, and the code does not do.              *)

\* "Revert production places to their original status for an expired report":
\* when the cron has reverted an info, it has the status it had been given.
RevertsToOriginal ==
    [][\A k \in Crons : \A s \in op[k].seen : Revert(k, s) => info'[s[1]].status = truth[s[1]]]_vars

=============================================================================
