---------------------------- MODULE ReportStatus ----------------------------
(***************************************************************************)
(* The column `status` of due-diligence reports and what writes it: the    *)
(* start of a publication by a user, an approval or the publish job, the   *)
(* compliance job that writes the report to the blockchain and puts the    *)
(* status back, the deforestation job and its callback, and users.         *)
(* (src/src/diligence-report/diligence-report.service.ts,                  *)
(* src/src/deforestation/deforestation.service.ts,                         *)
(* src/src/job/cron-job.service.ts.)                                       *)
(*                                                                         *)
(* Two of the statuses are transient: whoever sets one leaves a job behind *)
(* that is to replace it.  The model follows the queries of every actor;   *)
(* the life of a job between its queries is the subject of JobQueue, of    *)
(* which a job here keeps what its handler sees: it is taken when pending, *)
(* may pause after a batch, fail, or be lost with its process.             *)
(***************************************************************************)
EXTENDS Integers, Sequences, FiniteSets

CONSTANTS
    Reports, Jobs,      \* diligence reports, rows of the table `jobs`
    Requests, Crons,    \* the slots: requests in flight, runs of the publish job
    Batches,            \* the batches of a publication
    Choices,            \* the statuses users choose
    MaxStarts,          \* bound: requests and scheduled publications
    MaxFaults,          \* bound: failed queries, jobs and processes
    MaxPauses,          \* bound: pauses of a job between two batches
    MaxCallbacks        \* bound: callbacks of the deforestation service

Ready     == "Ready to Proceed"
Analyzing == "Analyzing Deforestation"
Writing   == "Writing to Blockchain"
Concluded == {"Complaint", "Non-Complaint"}
Transient == {Analyzing, Writing}
Statuses  == {Ready} \cup Concluded \cup Transient

Slots == Requests \cup Crons

ASSUME ConstantsAssumption ==
    /\ Requests \cap Crons = {}
    /\ Batches \in Nat \ {0}
    /\ Choices \subseteq Statuses \ Transient
    /\ {MaxStarts, MaxFaults, MaxPauses, MaxCallbacks} \subseteq Nat

VARIABLES
    status,     \* status[r]
    date,       \* date[r]: where blockchainPublishDate lies: "none", "far", in the
                \*   two hours from the last run of the publish job ("near"), "past"
    analyzed,   \* analyzed[r]: a place of r has a deforestation status
    op,         \* op[k]: the operation in slot k
    job,        \* job[j]: row j, with the step of its handler
    chain,      \* what was sent to the blockchain, in order
    records,    \* records[r]: rows of diligence_reports_transactions, as
                \*   positions in chain
    cert,       \* cert[r][b]: the transactionHash of the requests of batch b
    starts, faults, pauses, callbacks,  \* what the bounds count
    \* history, read by no action:
    doubled,    \* reports of which two publications or analyses overlapped
    overtaken,  \* reports whose analysis ended before it was announced
    broken,     \* reports whose start or job was lost half-way
    failed,     \* reports whose compliance job failed, or found no places after a pause
    missed      \* reports whose date passed while no process ran, or after the
                \*   run of the publish job had failed

bounds  == <<starts, faults, pauses, callbacks>>
history == <<doubled, overtaken, broken, failed, missed>>
vars    == <<status, date, analyzed, op, job, chain, records, cert, bounds, history>>

NoOp  == [at |-> "idle", todo |-> {}, rows |-> [r \in Reports |-> Ready], report |-> "none", seen |-> Ready]
NoJob == [kind |-> "none", at |-> "absent", report |-> "none", prev |-> Ready,
          link |-> 0, hash |-> 0, done |-> 0]

Advance(k, o) == op' = [op EXCEPT ![k] = o]
Moves(j, x)   == job' = [job EXCEPT ![j] = x]
Last(s)       == IF s = <<>> THEN 0 ELSE s[Len(s)]

Running == {"publish", "record", "batch", "conclude"}
Live    == {"pending", "hold", "callback"} \cup Running

\* Who is to replace the status of report r.
Starting(k, r)  == op[k].report = r /\ op[k].at \in {"write", "create"}
Announcing(k, r) == op[k].report = r /\ op[k].at = "mark"
Working(j, r)   == job[j].report = r /\ job[j].at \in Live

Owned(r) == \/ \E k \in Slots : Starting(k, r) \/ Announcing(k, r)
            \/ \E j \in Jobs : Working(j, r)

Takes(r) == doubled' = IF Owned(r) THEN doubled \cup {r} ELSE doubled

Init ==
    /\ status = [r \in Reports |-> Ready]
    /\ date = [r \in Reports |-> "none"]
    /\ analyzed \in [Reports -> BOOLEAN]
    /\ op = [k \in Slots |-> NoOp]
    /\ job = [j \in Jobs |-> NoJob]
    /\ chain = <<>>
    /\ records = [r \in Reports |-> <<>>]
    /\ cert = [r \in Reports |-> [b \in 1..Batches |-> 0]]
    /\ starts = 0 /\ faults = 0 /\ pauses = 0 /\ callbacks = 0
    /\ doubled = {} /\ overtaken = {} /\ broken = {} /\ failed = {} /\ missed = {}

-----------------------------------------------------------------------------
(* Users.                                                                  *)

\* changeStatus(), with a status that lasts, and the import of places, which ends with
\* "Ready to Proceed".
ChangeStatus(r, s) ==
    /\ s \in Choices
    /\ status' = [status EXCEPT ![r] = s]
    /\ UNCHANGED <<date, analyzed, op, job, chain, records, cert, bounds, history>>

\* updateBlockchainPublishDate(): in 72 hours.
UpdateBlockchainPublishDate(r) ==
    /\ starts < MaxStarts
    /\ starts' = starts + 1
    /\ date' = [date EXCEPT ![r] = "far"]
    /\ missed' = missed \ {r}
    /\ UNCHANGED <<status, analyzed, op, job, chain, records, cert, faults, pauses, callbacks,
                   doubled, overtaken, broken, failed>>

\* The places of a report change: one that was analyzed is added, the last is removed.
ChangePlaces(r) ==
    /\ analyzed' = [analyzed EXCEPT ![r] = ~@]
    /\ UNCHANGED <<status, date, op, job, chain, records, cert, bounds, history>>

\* A request, or an approval, publishes report r.
BeginPublish(k, r) ==
    /\ k \in Requests /\ op[k].at = "idle" /\ starts < MaxStarts
    /\ starts' = starts + 1
    /\ Advance(k, [NoOp EXCEPT !.at = "read", !.report = r])
    /\ UNCHANGED <<status, date, analyzed, job, chain, records, cert, faults, pauses,
                   callbacks, history>>

-----------------------------------------------------------------------------
(* generateComplianceByDiligenceId().                                      *)

\* What slot k does when the publication of its report is started, or not:
\* the publish job goes on with the report's date.
Started(k) == IF k \in Crons THEN [op[k] EXCEPT !.at = "clear"] ELSE NoOp

\* The first query reads the status the job is to put back.
ReadStatus(k) ==
    LET r == op[k].report IN
    /\ op[k].at = "read"
    /\ Advance(k, [op[k] EXCEPT !.at = "write", !.seen = status[r]])
    /\ Takes(r)
    /\ UNCHANGED <<status, date, analyzed, job, chain, records, cert, bounds,
                   overtaken, broken, failed, missed>>

\* Mutated: a report without places is announced too.
WriteStatusAlways(k) ==
    LET r == op[k].report IN
    /\ op[k].at = "write"
    /\ status' = [status EXCEPT ![r] = Writing]
    /\ IF analyzed[r] THEN Advance(k, [op[k] EXCEPT !.at = "create"]) ELSE Advance(k, Started(k))
    /\ UNCHANGED <<date, analyzed, job, chain, records, cert, bounds, history>>

\* The places are read and the status is written.
WriteStatus(k) ==
    LET r == op[k].report IN
    /\ op[k].at = "write"
    /\ \/ /\ analyzed[r]
          /\ status' = [status EXCEPT ![r] = Writing]
          /\ Advance(k, [op[k] EXCEPT !.at = "create"])
       \/ /\ ~analyzed[r]
          /\ status' = [status EXCEPT ![r] = Ready]
          /\ Advance(k, Started(k))
    /\ UNCHANGED <<date, analyzed, job, chain, records, cert, bounds, history>>

\* Mutated: the status to put back is read when the job is created.
CreateJobRereading(k, j) ==
    /\ op[k].at = "create" /\ job[j].at = "absent"
    /\ Moves(j, [NoJob EXCEPT !.kind = "compliance", !.at = "pending",
                              !.report = op[k].report, !.prev = status[op[k].report]])
    /\ Advance(k, Started(k))
    /\ UNCHANGED <<status, date, analyzed, chain, records, cert, bounds, history>>

\* The job is created with the status that was read.
CreateJob(k, j) ==
    /\ op[k].at = "create" /\ job[j].at = "absent"
    /\ Moves(j, [NoJob EXCEPT !.kind = "compliance", !.at = "pending",
                              !.report = op[k].report, !.prev = op[k].seen])
    /\ Advance(k, Started(k))
    /\ UNCHANGED <<status, date, analyzed, chain, records, cert, bounds, history>>

\* JobService.create() swallows its error: the caller goes on without a job.
CreateError(k) ==
    /\ op[k].at = "create" /\ faults < MaxFaults
    /\ faults' = faults + 1
    /\ broken' = broken \cup {op[k].report}
    /\ Advance(k, Started(k))
    /\ UNCHANGED <<status, date, analyzed, job, chain, records, cert, starts, pauses,
                   callbacks, doubled, overtaken, failed, missed>>

-----------------------------------------------------------------------------
(* createJobForDiligenceDeforestationReport().                             *)

\* The job is created first ...
BeginAnalysis(k, r, j) ==
    /\ k \in Requests /\ op[k].at = "idle" /\ starts < MaxStarts
    /\ job[j].at = "absent"
    /\ starts' = starts + 1
    /\ Moves(j, [NoJob EXCEPT !.kind = "deforestation", !.at = "pending", !.report = r])
    /\ Advance(k, [NoOp EXCEPT !.at = "mark", !.report = r])
    /\ Takes(r)
    /\ UNCHANGED <<status, date, analyzed, chain, records, cert, faults, pauses,
                   callbacks, overtaken, broken, failed, missed>>

\* Its creation fails, which JobService.create() keeps to itself.
AnalysisError(k, r) ==
    /\ k \in Requests /\ op[k].at = "idle" /\ starts < MaxStarts /\ faults < MaxFaults
    /\ starts' = starts + 1 /\ faults' = faults + 1
    /\ Advance(k, [NoOp EXCEPT !.at = "mark", !.report = r])
    /\ Takes(r)
    /\ broken' = broken \cup {r}
    /\ UNCHANGED <<status, date, analyzed, job, chain, records, cert, pauses, callbacks,
                   overtaken, failed, missed>>

\* ... and the status is written then.
MarkAnalyzing(k) ==
    LET r == op[k].report IN
    /\ op[k].at = "mark"
    /\ status' = [status EXCEPT ![r] = Analyzing]
    /\ overtaken' = IF \E j \in Jobs : Working(j, r) THEN overtaken ELSE overtaken \cup {r}
    /\ Advance(k, NoOp)
    /\ UNCHANGED <<date, analyzed, job, chain, records, cert, bounds, doubled, broken,
                   failed, missed>>

-----------------------------------------------------------------------------
(* The publish job: handleSeventyTwoHourDiligenceReportPublish().          *)

\* The rows a query loads of the reports R.
Loaded(R) == [r \in Reports |-> IF r \in R THEN status[r] ELSE Ready]

\* Mutated: reports that are being written are left to a later run.
StrikeSkipping(W) ==
    /\ \A k \in Crons : op[k].at = "idle"
    /\ \E F \in SUBSET {r \in Reports : date[r] = "far"} :
          LET found == {r \in F : status[r] # Writing} IN
          /\ date' = [r \in Reports |-> IF r \in F THEN "near"
                                        ELSE IF date[r] = "near" THEN "past" ELSE date[r]]
          /\ op' = [k \in Slots |-> IF k \in W /\ found # {}
                      THEN [NoOp EXCEPT !.at = "next", !.todo = found, !.rows = Loaded(found)]
                      ELSE op[k]]
          /\ missed' = IF W = {} THEN missed \cup F ELSE missed
    /\ UNCHANGED <<status, analyzed, job, chain, records, cert, bounds, doubled, overtaken, broken, failed>>

\* An even hour strikes: on the servers that run, W, the job finds the reports
\* whose date lies in the next two hours.  The runs before have ended.
Strike(W) ==
    /\ \A k \in Crons : op[k].at = "idle"
    /\ \E F \in SUBSET {r \in Reports : date[r] = "far"} :
          /\ date' = [r \in Reports |-> IF r \in F THEN "near"
                                        ELSE IF date[r] = "near" THEN "past" ELSE date[r]]
          /\ op' = [k \in Slots |-> IF k \in W /\ F # {}
                      THEN [NoOp EXCEPT !.at = "next", !.todo = F, !.rows = Loaded(F)]
                      ELSE op[k]]
          /\ missed' = IF W = {} THEN missed \cup F ELSE missed
    /\ UNCHANGED <<status, analyzed, job, chain, records, cert, bounds, doubled, overtaken, broken, failed>>

\* The next report of the run: it is concluded, unless it was when it was found.
ConcludeReport(k, r) ==
    /\ op[k].at = "next" /\ r \in op[k].todo
    /\ \/ op[k].rows[r] \in Concluded /\ UNCHANGED status
       \/ /\ op[k].rows[r] \notin Concluded
          /\ \E s \in Concluded : status' = [status EXCEPT ![r] = s]
    /\ Advance(k, [op[k] EXCEPT !.at = "read", !.report = r])
    /\ UNCHANGED <<date, analyzed, job, chain, records, cert, bounds, history>>

\* report.save() with blockchainPublishDate null, whatever it is by now.
ClearDate(k) ==
    LET rest == op[k].todo \ {op[k].report} IN
    /\ op[k].at = "clear"
    /\ date' = [date EXCEPT ![op[k].report] = "none"]
    /\ Advance(k, IF rest = {} THEN NoOp
                  ELSE [op[k] EXCEPT !.at = "next", !.todo = rest, !.report = "none"])
    /\ UNCHANGED <<status, analyzed, job, chain, records, cert, bounds, history>>

\* A query of the operation fails, or its process stops.
Abort(k) ==
    /\ op[k].at # "idle" /\ faults < MaxFaults
    /\ faults' = faults + 1
    /\ broken' = IF op[k].at = "create" THEN broken \cup {op[k].report} ELSE broken
    /\ missed' = missed \cup {r \in op[k].todo : date[r] = "near"}
    /\ Advance(k, NoOp)
    /\ UNCHANGED <<status, date, analyzed, job, chain, records, cert, starts, pauses,
                   callbacks, doubled, overtaken, failed>>

-----------------------------------------------------------------------------
(* The compliance job: generateCompliance().                               *)

\* Mutated: a resumed job goes on with the batch it paused at.
PrepareResuming(j) ==
    LET r == job[j].report IN
    /\ job[j].kind = "compliance" /\ job[j].at = "pending"
    /\ \/ analyzed[r] /\ Moves(j, [job[j] EXCEPT !.at = "publish", !.link = Last(records[r])])
       \/ ~analyzed[r] /\ Moves(j, [job[j] EXCEPT !.at = "conclude"])
    /\ failed' = IF ~analyzed[r] /\ job[j].done > 0 THEN failed \cup {r} ELSE failed
    /\ UNCHANGED <<status, date, analyzed, op, chain, records, cert, bounds, doubled,
                   overtaken, broken, missed>>

\* The job is taken, for the first time or after a pause (payload.reportData is
\* never set): the places and the last transaction are read.
Prepare(j) ==
    LET r == job[j].report IN
    /\ job[j].kind = "compliance" /\ job[j].at = "pending"
    /\ \/ analyzed[r] /\ Moves(j, [job[j] EXCEPT !.at = "publish", !.done = 0,
                                                 !.link = Last(records[r])])
       \/ ~analyzed[r] /\ Moves(j, [job[j] EXCEPT !.at = "conclude"])
    /\ failed' = IF ~analyzed[r] /\ job[j].done > 0 THEN failed \cup {r} ELSE failed
    /\ UNCHANGED <<status, date, analyzed, op, chain, records, cert, bounds, doubled,
                   overtaken, broken, missed>>

\* mapSerializedReportData(): the report is written to the blockchain.
Publish(j) ==
    /\ job[j].at = "publish"
    /\ chain' = Append(chain, [report |-> job[j].report, status |-> job[j].prev, link |-> job[j].link])
    /\ Moves(j, [job[j] EXCEPT !.at = "record", !.hash = Len(chain) + 1])
    /\ UNCHANGED <<status, date, analyzed, op, records, cert, bounds, history>>

\* Mutated: a report has one row.
RecordOnce(j) ==
    /\ job[j].at = "record"
    /\ records' = [records EXCEPT ![job[j].report] = IF @ = <<>> THEN <<job[j].hash>> ELSE @]
    /\ Moves(j, [job[j] EXCEPT !.at = "batch"])
    /\ UNCHANGED <<status, date, analyzed, op, chain, cert, bounds, history>>

\* The transaction is recorded and the batches are saved in the payload.
Record(j) ==
    /\ job[j].at = "record"
    /\ records' = [records EXCEPT ![job[j].report] = Append(@, job[j].hash)]
    /\ Moves(j, [job[j] EXCEPT !.at = "batch"])
    /\ UNCHANGED <<status, date, analyzed, op, chain, cert, bounds, history>>

\* The requests of the next batch get the hash; a draining service pauses then.
RunBatch(j, pausing) ==
    LET last == job[j].done + 1 = Batches IN
    /\ job[j].at = "batch"
    /\ pausing => ~last /\ pauses < MaxPauses
    /\ pauses' = IF pausing THEN pauses + 1 ELSE pauses
    /\ cert' = [cert EXCEPT ![job[j].report][job[j].done + 1] = job[j].hash]
    /\ Moves(j, [job[j] EXCEPT !.done = @ + 1,
                               !.at = IF last THEN "conclude" ELSE IF pausing THEN "pending" ELSE "batch"])
    /\ UNCHANGED <<status, date, analyzed, op, chain, records, starts, faults, callbacks, history>>

\* The status a handler leaves.
PutBack(j) == IF job[j].kind = "compliance" THEN job[j].prev ELSE Ready

\* Mutated: the deforestation job puts back what its payload holds, nothing.
ConcludeUndefined(j) ==
    /\ job[j].at = "conclude"
    /\ status' = [status EXCEPT ![job[j].report] = IF job[j].kind = "compliance" THEN job[j].prev ELSE "null"]
    /\ Moves(j, [job[j] EXCEPT !.at = "ended"])
    /\ UNCHANGED <<date, analyzed, op, chain, records, cert, bounds, history>>

\* The handler has saved the job as completed and writes the status.
Conclude(j) ==
    /\ job[j].at = "conclude"
    /\ status' = [status EXCEPT ![job[j].report] = PutBack(j)]
    /\ Moves(j, [job[j] EXCEPT !.at = "ended"])
    /\ UNCHANGED <<date, analyzed, op, chain, records, cert, bounds, history>>

\* Mutated: the status is left when the handler throws.
FailJobKeeping(j) ==
    /\ job[j].at \in Live \ {"hold"} /\ faults < MaxFaults
    /\ faults' = faults + 1
    /\ Moves(j, [job[j] EXCEPT !.at = "ended"])
    /\ failed' = failed \cup {job[j].report}
    /\ UNCHANGED <<status, date, analyzed, op, chain, records, cert, starts, pauses, callbacks,
                   doubled, overtaken, broken, missed>>

\* The handler throws: runJob() writes the status and the job fails.
FailJob(j) ==
    /\ job[j].at \in Live \ {"hold"} /\ faults < MaxFaults
    /\ faults' = faults + 1
    /\ status' = [status EXCEPT ![job[j].report] = PutBack(j)]
    /\ Moves(j, [job[j] EXCEPT !.at = "ended"])
    /\ failed' = failed \cup {job[j].report}
    /\ UNCHANGED <<date, analyzed, op, chain, records, cert, starts, pauses, callbacks,
                   doubled, overtaken, broken, missed>>

\* Its process dies, its reservation fails, or the update of the status does.
LoseJob(j) ==
    /\ job[j].at \in Live \ {"hold"} /\ faults < MaxFaults
    /\ faults' = faults + 1
    /\ Moves(j, [job[j] EXCEPT !.at = "lost"])
    /\ broken' = broken \cup {job[j].report}
    /\ failed' = failed \cup {job[j].report}
    /\ UNCHANGED <<status, date, analyzed, op, chain, records, cert, starts, pauses, callbacks,
                   doubled, overtaken, missed>>

-----------------------------------------------------------------------------
(* The deforestation job.                                                  *)

\* requestDeforestationReport(): nothing to analyze, or a request whose id is saved.
RequestDeforestationReport(j) ==
    /\ job[j].kind = "deforestation" /\ job[j].at = "pending"
    /\ \/ Moves(j, [job[j] EXCEPT !.at = "conclude"])
       \/ Moves(j, [job[j] EXCEPT !.at = "hold", !.hash = 1])
    /\ UNCHANGED <<status, date, analyzed, op, chain, records, cert, bounds, history>>

\* updateJobForDeforestationCallback(): whatever the job's status is.
Callback(j) ==
    /\ job[j].kind = "deforestation" /\ job[j].hash = 1 /\ job[j].at \in {"hold", "ended", "lost"}
    /\ callbacks < MaxCallbacks
    /\ callbacks' = callbacks + 1
    /\ Moves(j, [job[j] EXCEPT !.at = "callback"])
    /\ IF job[j].at = "hold" THEN UNCHANGED doubled ELSE Takes(job[j].report)
    /\ UNCHANGED <<status, date, analyzed, op, chain, records, cert, starts, faults, pauses,
                   overtaken, broken, failed, missed>>

\* handleDeforestationCallBack(): the places get their deforestation status, unless
\* an earlier callback completed the batches.
HandleDeforestationCallBack(j) ==
    /\ job[j].at = "callback"
    /\ analyzed' = [analyzed EXCEPT ![job[j].report] = @ \/ job[j].done < Batches]
    /\ Moves(j, [job[j] EXCEPT !.at = "conclude", !.done = Batches])
    /\ UNCHANGED <<status, date, op, chain, records, cert, bounds, history>>

-----------------------------------------------------------------------------
OpStep(k) ==
    \/ ReadStatus(k) \/ WriteStatus(k) \/ MarkAnalyzing(k) \/ ClearDate(k)
    \/ \E j \in Jobs : CreateJob(k, j)
    \/ \E r \in Reports : ConcludeReport(k, r)

JobStep(j) ==
    \/ Prepare(j) \/ Publish(j) \/ Record(j) \/ Conclude(j)
    \/ \E pausing \in BOOLEAN : RunBatch(j, pausing)
    \/ RequestDeforestationReport(j) \/ HandleDeforestationCallBack(j)

Users ==
    \/ \E r \in Reports, s \in Statuses : ChangeStatus(r, s)
    \/ \E r \in Reports : UpdateBlockchainPublishDate(r) \/ ChangePlaces(r)
    \/ \E k \in Requests, r \in Reports : BeginPublish(k, r)
    \/ \E k \in Requests, r \in Reports, j \in Jobs : BeginAnalysis(k, r, j)

Faults ==
    \/ \E k \in Requests, r \in Reports : AnalysisError(k, r)
    \/ \E k \in Slots : CreateError(k) \/ Abort(k)
    \/ \E j \in Jobs : FailJob(j) \/ LoseJob(j)

Next ==
    \/ Users
    \/ \E k \in Slots : OpStep(k)
    \/ \E j \in Jobs : JobStep(j) \/ Callback(j)
    \/ \E W \in SUBSET Crons : Strike(W)
    \/ Faults

Spec == Init /\ [][Next]_vars

\* A request or a run goes on, and a pending job is taken and carried through
\* (JobQueue, PendingIsTaken).
FairSpec == Spec /\ (\A k \in Slots : WF_vars(OpStep(k))) /\ (\A j \in Jobs : WF_vars(JobStep(j)))

-----------------------------------------------------------------------------
Operation == [at : {"idle", "read", "write", "create", "mark", "next", "clear"},
              todo : SUBSET Reports, rows : [Reports -> Statuses],
              report : Reports \cup {"none"}, seen : Statuses]
Row == [kind : {"none", "compliance", "deforestation"}, at : {"absent", "ended", "lost"} \cup Live,
        report : Reports \cup {"none"}, prev : Statuses, link : Nat, hash : Nat, done : 0..Batches]

\* The types of the state.
TypeOK ==
    /\ status \in [Reports -> Statuses]
    /\ date \in [Reports -> {"none", "far", "near", "past"}]
    /\ analyzed \in [Reports -> BOOLEAN]
    /\ op \in [Slots -> Operation]
    /\ job \in [Jobs -> Row]
    /\ chain \in Seq([report : Reports, status : Statuses, link : Nat])
    /\ records \in [Reports -> Seq(Nat)]
    /\ cert \in [Reports -> [1..Batches -> Nat]]
    /\ starts \in Nat /\ faults \in Nat /\ pauses \in Nat /\ callbacks \in Nat
    /\ doubled \subseteq Reports /\ overtaken \subseteq Reports /\ broken \subseteq Reports
    /\ failed \subseteq Reports /\ missed \subseteq Reports

\* What makes it inductive: an operation or a job at work has a report, and a
\* publication has a batch to go.
Placed ==
    /\ \A k \in Slots : op[k].at \notin {"idle", "next"} => op[k].report \in Reports
    /\ \A j \in Jobs : /\ job[j].at \notin {"absent"} => job[j].report \in Reports
                       /\ job[j].at \in {"publish", "record", "batch"} => job[j].done < Batches

Excused == doubled \cup overtaken \cup broken

\* A report is "Writing to Blockchain" or "Analyzing Deforestation" only while
\* somebody works who will replace that status, through users' changes, failing
\* jobs, pauses and repeated callbacks.  Excused are two publications or analyses
\* of one report that overlap (the second puts back the transient status of the
\* first), an analysis that ended before it was announced, and what a lost
\* process or a swallowed error leaves.
TransientExplained ==
    \A r \in Reports \ Excused :
        /\ status[r] = Writing =>
              \/ \E k \in Slots : op[k].report = r /\ op[k].at = "create"
              \/ \E j \in Jobs : Working(j, r) /\ job[j].kind = "compliance"
        /\ status[r] = Analyzing => \E j \in Jobs : Working(j, r) /\ job[j].kind = "deforestation"

\* What makes it inductive: a report that is not excused has one owner, whose
\* job will not put a transient status back.
OneOwner ==
    \A r \in Reports \ Excused :
        /\ \A i, j \in Jobs : Working(i, r) /\ Working(j, r) => i = j
        /\ \A k, l \in Slots : Starting(k, r) /\ Starting(l, r) => k = l
        /\ \A k \in Slots, j \in Jobs : ~(Starting(k, r) /\ Working(j, r))
        /\ \A k, l \in Slots : Starting(k, r) => ~Announcing(l, r)
        /\ \A k \in Slots, j \in Jobs : Announcing(k, r) /\ Working(j, r) => job[j].kind = "deforestation"
        /\ \A k \in Slots : Starting(k, r) => op[k].seen \notin Transient
        /\ \A j \in Jobs : Working(j, r) => PutBack(j) \notin Transient

\* No transient status is published as the compliance status of a report.
NoTransientPublished ==
    \A n \in 1..Len(chain) : chain[n].report \notin Excused => chain[n].status \notin Transient

\* The transactions of a report form a chain: each one that is recorded names the
\* one recorded before it, through failures, crashes and pauses (which publish
\* again), as long as two publications do not overlap.
RecordsLinked ==
    \A r \in Reports \ doubled : \A n \in 1..Len(records[r]) :
        chain[records[r][n]].link = IF n = 1 THEN 0 ELSE records[r][n - 1]

\* What was written to the blockchain is recorded, unless its job failed or was lost.
ChainRecorded ==
    \A n \in 1..Len(chain) : LET r == chain[n].report IN
        \/ r \in failed \/ \E m \in 1..Len(records[r]) : records[r][m] = n
        \/ \E j \in Jobs : job[j].at = "record" /\ job[j].hash = n

\* What is on the blockchain of a report is the chain that its records tell.
ChainTold == RecordsLinked /\ ChainRecorded

\* When nothing is being published, all requests of a report carry the hash of its
\* last transaction: a pause in the middle leaves no batch with an older one.
CertificatesCurrent ==
    \A r \in Reports \ (doubled \cup failed) :
        \/ \E j \in Jobs : Working(j, r) /\ job[j].kind = "compliance"
        \/ \A b \in 1..Batches : cert[r][b] = Last(records[r])

\* A report whose date has passed was taken up by the publish job, unless no
\* process ran in its two hours or the run was aborted: neither the reports it is
\* busy with nor another server's run make it skip one.
ScheduledIsTaken ==
    \A r \in Reports : date[r] = "past" => r \in missed

\* "Writing to Blockchain" ends.
WritingEnds ==
    \A r \in Reports : status[r] = Writing ~> status[r] # Writing \/ r \in Excused

=============================================================================
