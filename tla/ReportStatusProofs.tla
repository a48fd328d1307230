------------------------- MODULE ReportStatusProofs -------------------------
(* Theorems about ReportStatus for every set of reports, jobs, requests and  *)
(* runs of the publish job, any number of batches and every bound: first     *)
(* the states of reports, then what is promised about their transactions:    *)
(* the records tell the chain, the requests carry the last hash, a scheduled *)
(* publication is taken up.                                                  *)
EXTENDS ReportStatus, TLAPS

-----------------------------------------------------------------------------
(* The operations and the rows of jobs keep their type.                      *)

LEMMA NoOpType == NoOp \in Operation
BY DEF NoOp, Operation, Statuses

LEMMA NoJobType == NoJob \in Row
BY ConstantsAssumption DEF NoJob, Row, Statuses

\* One operation, or one row, is replaced and the others stay.
LEMMA AdvanceType ==
    ASSUME op \in [Slots -> Operation], NEW k \in Slots, NEW o \in Operation, Advance(k, o)
    PROVE  /\ op' \in [Slots -> Operation] /\ op'[k] = o
           /\ \A l \in Slots : l # k => op'[l] = op[l]
BY DEF Advance

LEMMA MovesType ==
    ASSUME job \in [Jobs -> Row], NEW j \in Jobs, NEW x \in Row, Moves(j, x)
    PROVE  /\ job' \in [Jobs -> Row] /\ job'[j] = x
           /\ \A i \in Jobs : i # j => job'[i] = job[i]
BY DEF Moves

\* The position of the last row of a sequence of positions.
LEMMA LastType == ASSUME NEW s \in Seq(Nat) PROVE Last(s) \in Nat
BY DEF Last

LEMMA StartedType ==
    ASSUME op \in [Slots -> Operation], NEW k \in Slots
    PROVE  /\ Started(k) \in Operation
           /\ Started(k).at \in {"idle", "clear"}
           /\ Started(k).at = "clear" => Started(k).report = op[k].report
BY NoOpType DEF Started, Operation, NoOp

LEMMA InitType == Init => TypeOK /\ Placed
<1> SUFFICES ASSUME Init PROVE TypeOK /\ Placed
  OBVIOUS
<1>1. TypeOK
  BY NoOpType, NoJobType, ConstantsAssumption DEF Init, TypeOK, Statuses
<1>2. Placed
  BY DEF Init, Placed, NoOp, NoJob
<1> QED
  BY <1>1, <1>2

\* What an operation does to its slot leaves the type and the rest of Placed.
LEMMA OpPlaced ==
    ASSUME TypeOK, Placed, NEW k \in Slots, NEW o \in Operation, Advance(k, o),
           o.at \notin {"idle", "next"} => o.report \in Reports,
           UNCHANGED job
    PROVE  Placed' /\ op' \in [Slots -> Operation] /\ job' \in [Jobs -> Row]
BY AdvanceType DEF TypeOK, Placed

LEMMA JobPlaced ==
    ASSUME TypeOK, Placed, NEW j \in Jobs, NEW x \in Row, Moves(j, x),
           x.at # "absent" => x.report \in Reports,
           x.at \in {"publish", "record", "batch"} => x.done < Batches,
           UNCHANGED op
    PROVE  Placed' /\ op' \in [Slots -> Operation] /\ job' \in [Jobs -> Row]
BY MovesType DEF TypeOK, Placed

\* The steps of users: changes, and the begin of a publication or an analysis.
LEMMA UsersType ==
    ASSUME TypeOK, Placed, Users \/ \E k \in Requests, r \in Reports : AnalysisError(k, r)
    PROVE  TypeOK' /\ Placed'
<1> USE ConstantsAssumption DEF TypeOK, bounds, history
<1>1. ASSUME NEW r \in Reports, NEW s \in Statuses, ChangeStatus(r, s) PROVE TypeOK' /\ Placed'
  BY <1>1 DEF ChangeStatus, Placed
<1>2. ASSUME NEW r \in Reports, UpdateBlockchainPublishDate(r) PROVE TypeOK' /\ Placed'
  <2>1. date' \in [Reports -> {"none", "far", "near", "past"}] /\ starts' \in Nat
    BY <1>2 DEF UpdateBlockchainPublishDate
  <2>2. Placed'
    BY <1>2 DEF UpdateBlockchainPublishDate, Placed
  <2> QED
    BY <1>2, <2>1, <2>2 DEF UpdateBlockchainPublishDate
<1>3. ASSUME NEW r \in Reports, ChangePlaces(r) PROVE TypeOK' /\ Placed'
  BY <1>3 DEF ChangePlaces, Placed
<1>4. ASSUME NEW k \in Requests, NEW r \in Reports, BeginPublish(k, r) PROVE TypeOK' /\ Placed'
  <2> DEFINE o == [NoOp EXCEPT !.at = "read", !.report = r]
  <2>1. o \in Operation /\ o.report \in Reports /\ k \in Slots
    BY NoOpType DEF Operation, NoOp, Slots
  <2>2. Placed' /\ op' \in [Slots -> Operation] /\ job' \in [Jobs -> Row]
    BY <1>4, <2>1, OpPlaced DEF BeginPublish
  <2> QED
    BY <1>4, <2>2 DEF BeginPublish
<1>5. ASSUME NEW k \in Requests, NEW r \in Reports, NEW j \in Jobs, BeginAnalysis(k, r, j)
      PROVE  TypeOK' /\ Placed'
  <2> DEFINE o == [NoOp EXCEPT !.at = "mark", !.report = r]
             x == [NoJob EXCEPT !.kind = "deforestation", !.at = "pending", !.report = r]
  <2>1. o \in Operation /\ o.report \in Reports /\ k \in Slots
    BY NoOpType DEF Operation, NoOp, Slots
  <2>2. x \in Row /\ x.report \in Reports /\ x.at = "pending"
    BY NoJobType DEF Row, NoJob, Live
  <2>3. /\ op' \in [Slots -> Operation] /\ op'[k] = o /\ \A l \in Slots : l # k => op'[l] = op[l]
    BY <1>5, <2>1, AdvanceType DEF BeginAnalysis
  <2>4. /\ job' \in [Jobs -> Row] /\ job'[j] = x /\ \A i \in Jobs : i # j => job'[i] = job[i]
    BY <1>5, <2>2, MovesType DEF BeginAnalysis
  <2>5. Placed'
    BY <2>1, <2>2, <2>3, <2>4 DEF Placed
  <2> QED
    BY <1>5, <2>3, <2>4, <2>5 DEF BeginAnalysis, Takes
<1>6. ASSUME NEW k \in Requests, NEW r \in Reports, AnalysisError(k, r) PROVE TypeOK' /\ Placed'
  <2> DEFINE o == [NoOp EXCEPT !.at = "mark", !.report = r]
  <2>1. o \in Operation /\ o.report \in Reports /\ k \in Slots
    BY NoOpType DEF Operation, NoOp, Slots
  <2>2. Placed' /\ op' \in [Slots -> Operation] /\ job' \in [Jobs -> Row]
    BY <1>6, <2>1, OpPlaced DEF AnalysisError
  <2>3. starts' = starts + 1 /\ faults' = faults + 1
    BY <1>6 DEF AnalysisError
  <2>4. doubled' \subseteq Reports /\ broken' \subseteq Reports
    BY <1>6 DEF AnalysisError, Takes
  <2>5. starts \in Nat /\ faults \in Nat
    OBVIOUS
  <2>6. starts' \in Nat /\ faults' \in Nat
    BY <2>3, <2>5
  <2> QED
    BY <1>6, <2>2, <2>4, <2>6 DEF AnalysisError
<1> QED
  BY <1>1, <1>2, <1>3, <1>4, <1>5, <1>6 DEF Users

\* The steps of an operation, its errors and the runs of the publish job.
LEMMA OpType ==
    ASSUME TypeOK, Placed, NEW k \in Slots, OpStep(k) \/ CreateError(k) \/ Abort(k)
    PROVE  TypeOK' /\ Placed'
<1> USE DEF TypeOK, bounds, history
<1>0. /\ op[k] \in Operation
      /\ \A a \in {"read", "write", "create", "mark", "next", "clear"} :
            [op[k] EXCEPT !.at = a] \in Operation
      /\ op[k].at \notin {"idle", "next"} => op[k].report \in Reports
  BY DEF Operation, Placed
<1>1. ASSUME ReadStatus(k) PROVE TypeOK' /\ Placed'
  <2> DEFINE o == [op[k] EXCEPT !.at = "write", !.seen = status[op[k].report]]
  <2>1. op[k].report \in Reports /\ o \in Operation /\ o.report = op[k].report
    BY <1>0, <1>1 DEF ReadStatus, Operation
  <2>2. Placed' /\ op' \in [Slots -> Operation] /\ job' \in [Jobs -> Row]
    BY <1>1, <2>1, OpPlaced DEF ReadStatus
  <2> QED
    BY <1>1, <2>1, <2>2 DEF ReadStatus, Takes
<1>2. ASSUME WriteStatus(k) PROVE TypeOK' /\ Placed'
  <2> DEFINE o == [op[k] EXCEPT !.at = "create"]
  <2>1. op[k].report \in Reports
    BY <1>0, <1>2 DEF WriteStatus
  <2>2. o \in Operation /\ o.report \in Reports
    BY <1>0, <2>1 DEF Operation
  <2>3. Started(k) \in Operation
        /\ (Started(k).at \notin {"idle", "next"} => Started(k).report \in Reports)
    BY <2>1, StartedType
  <2>4. Placed' /\ op' \in [Slots -> Operation] /\ job' \in [Jobs -> Row]
    <3>1. CASE Advance(k, o)
      BY <1>2, <2>2, <3>1, OpPlaced DEF WriteStatus
    <3>2. CASE Advance(k, Started(k))
      BY <1>2, <2>3, <3>2, OpPlaced DEF WriteStatus
    <3> QED
      BY <1>2, <3>1, <3>2 DEF WriteStatus
  <2>5. status' \in [Reports -> Statuses]
    BY <1>2 DEF WriteStatus, Statuses, Transient
  <2> QED
    BY <1>2, <2>4, <2>5 DEF WriteStatus
<1>3. ASSUME MarkAnalyzing(k) PROVE TypeOK' /\ Placed'
  <2>1. op[k].report \in Reports
    BY <1>0, <1>3 DEF MarkAnalyzing
  <2>2. NoOp.at = "idle" /\ Advance(k, NoOp) /\ UNCHANGED job
    BY <1>3 DEF MarkAnalyzing, NoOp
  <2>3. Placed' /\ op' \in [Slots -> Operation] /\ job' \in [Jobs -> Row]
    BY <2>2, NoOpType, OpPlaced
  <2>4. status' \in [Reports -> Statuses]
    BY <1>3 DEF MarkAnalyzing, Statuses, Transient
  <2> QED
    BY <1>3, <2>1, <2>3, <2>4 DEF MarkAnalyzing
<1>4. ASSUME ClearDate(k) PROVE TypeOK' /\ Placed'
  <2> DEFINE rest == op[k].todo \ {op[k].report}
             p == [op[k] EXCEPT !.at = "next", !.todo = rest, !.report = "none"]
             o == IF rest = {} THEN NoOp ELSE p
  <2>a. p \in Operation /\ p.at = "next"
    <3>1. rest \in SUBSET Reports
      BY <1>0 DEF Operation
    <3>2. \A t \in SUBSET Reports : [op[k] EXCEPT !.at = "next", !.todo = t, !.report = "none"] \in Operation
      BY <1>0 DEF Operation
    <3>3. p \in Operation
      BY <3>1, <3>2
    <3> QED
      BY <3>3 DEF Operation
  <2>b. NoOp \in Operation /\ NoOp.at = "idle"
    BY NoOpType DEF NoOp
  <2>1. o \in Operation /\ o.at \in {"idle", "next"}
    BY <2>a, <2>b
  <2>2. Placed' /\ op' \in [Slots -> Operation] /\ job' \in [Jobs -> Row]
    BY <1>4, <2>1, OpPlaced DEF ClearDate
  <2> QED
    BY <1>4, <2>2 DEF ClearDate
<1>5. ASSUME NEW j \in Jobs, CreateJob(k, j) PROVE TypeOK' /\ Placed'
  <2> DEFINE x == [NoJob EXCEPT !.kind = "compliance", !.at = "pending",
                                !.report = op[k].report, !.prev = op[k].seen]
  <2>1. op[k].report \in Reports
    BY <1>0, <1>5 DEF CreateJob
  <2>2. x \in Row /\ x.report \in Reports /\ x.at = "pending"
    BY <1>0, <2>1, NoJobType DEF Row, NoJob, Live, Operation
  <2>3. /\ op' \in [Slots -> Operation] /\ op'[k] = Started(k)
        /\ \A l \in Slots : l # k => op'[l] = op[l]
    BY <1>5, StartedType, AdvanceType DEF CreateJob
  <2>4. /\ job' \in [Jobs -> Row] /\ job'[j] = x /\ \A i \in Jobs : i # j => job'[i] = job[i]
    BY <1>5, <2>2, MovesType DEF CreateJob
  <2>a. \A l \in Slots : op'[l].at \notin {"idle", "next"} => op'[l].report \in Reports
    <3>1. Started(k).at \in {"idle", "clear"} /\ (Started(k).at = "clear" => Started(k).report \in Reports)
      BY <2>1, StartedType
    <3> QED
      BY <2>3, <3>1 DEF Placed
  <2>b. \A i \in Jobs : /\ job'[i].at \notin {"absent"} => job'[i].report \in Reports
                        /\ job'[i].at \in {"publish", "record", "batch"} => job'[i].done < Batches
    BY <2>2, <2>4 DEF Placed
  <2>5. Placed'
    BY <2>a, <2>b DEF Placed
  <2> QED
    BY <1>5, <2>3, <2>4, <2>5 DEF CreateJob
<1>6. ASSUME NEW r \in Reports, ConcludeReport(k, r) PROVE TypeOK' /\ Placed'
  <2> DEFINE o == [op[k] EXCEPT !.at = "read", !.report = r]
  <2>1. o \in Operation /\ o.report \in Reports
    BY <1>0 DEF Operation
  <2>2. Placed' /\ op' \in [Slots -> Operation] /\ job' \in [Jobs -> Row]
    BY <1>6, <2>1, OpPlaced DEF ConcludeReport
  <2>3. status' \in [Reports -> Statuses]
    BY <1>6 DEF ConcludeReport, Statuses
  <2> QED
    BY <1>6, <2>2, <2>3 DEF ConcludeReport
<1>7. ASSUME CreateError(k) PROVE TypeOK' /\ Placed'
  <2>1. op[k].report \in Reports
    BY <1>0, <1>7 DEF CreateError
  <2>2. Placed' /\ op' \in [Slots -> Operation] /\ job' \in [Jobs -> Row]
    BY <1>7, <2>1, StartedType, OpPlaced DEF CreateError
  <2> QED
    BY <1>7, <2>1, <2>2 DEF CreateError
<1>8. ASSUME Abort(k) PROVE TypeOK' /\ Placed'
  <2>1. NoOp.at = "idle" /\ Advance(k, NoOp) /\ UNCHANGED job
    BY <1>8 DEF Abort, NoOp
  <2>2. Placed' /\ op' \in [Slots -> Operation] /\ job' \in [Jobs -> Row]
    BY <2>1, NoOpType, OpPlaced
  <2>3. broken' \subseteq Reports /\ missed' \subseteq Reports
    BY <1>0, <1>8 DEF Abort, Operation
  <2> QED
    BY <1>8, <2>2, <2>3 DEF Abort
<1> QED
  BY <1>1, <1>2, <1>3, <1>4, <1>5, <1>6, <1>7, <1>8 DEF OpStep

\* The steps of a job, its errors and its callback.
LEMMA JobType ==
    ASSUME TypeOK, Placed, NEW j \in Jobs, JobStep(j) \/ FailJob(j) \/ LoseJob(j) \/ Callback(j)
    PROVE  TypeOK' /\ Placed'
<1> USE DEF TypeOK, bounds, history
<1> DEFINE J == job[j]
<1>0. /\ J \in Row /\ J.done \in 0..Batches /\ J.prev \in Statuses /\ J.hash \in Nat /\ J.link \in Nat
      /\ J.at \notin {"absent"} => J.report \in Reports
      /\ J.at \in {"publish", "record", "batch"} => J.done < Batches
  BY DEF Row, Placed
<1>a. \A a \in Live \cup {"ended", "lost"} : [J EXCEPT !.at = a] \in Row
  BY <1>0 DEF Row
<1>b. PutBack(j) \in Statuses
  BY <1>0 DEF PutBack, Statuses
\* A step that only moves the row to a place that asks nothing of its batches.
<1>c. ASSUME NEW a \in {"ended", "lost", "conclude", "callback"}, J.report \in Reports,
             Moves(j, [J EXCEPT !.at = a]), UNCHANGED op
      PROVE  Placed' /\ op' \in [Slots -> Operation] /\ job' \in [Jobs -> Row]
  <2>1. [J EXCEPT !.at = a] \in Row
    BY <1>a DEF Live, Running
  <2>2. [J EXCEPT !.at = a].at = a /\ [J EXCEPT !.at = a].report = J.report
    BY <1>0 DEF Row
  <2> QED
    BY <1>c, <2>1, <2>2, JobPlaced
<1>1. ASSUME Prepare(j) PROVE TypeOK' /\ Placed'
  <2> DEFINE x == [J EXCEPT !.at = "publish", !.done = 0, !.link = Last(records[J.report])]
  <2>1. J.report \in Reports
    BY <1>0, <1>1 DEF Prepare
  <2>2. Last(records[J.report]) \in Nat
    BY <2>1, LastType
  <2>3. x \in Row /\ x.report \in Reports /\ x.done < Batches
    <3>1. 0 \in 0..Batches /\ 0 < Batches
      BY ConstantsAssumption
    <3>2. \A l \in Nat : [J EXCEPT !.at = "publish", !.done = 0, !.link = l] \in Row
      BY <1>0, <3>1 DEF Row, Live, Running
    <3> QED
      BY <1>0, <2>1, <2>2, <3>1, <3>2 DEF Row
  <2>4. Placed' /\ op' \in [Slots -> Operation] /\ job' \in [Jobs -> Row]
    <3>1. CASE Moves(j, x)
      BY <1>1, <2>3, <3>1, JobPlaced DEF Prepare
    <3>2. CASE Moves(j, [J EXCEPT !.at = "conclude"])
      BY <1>1, <1>c, <2>1, <3>2 DEF Prepare
    <3> QED
      BY <1>1, <3>1, <3>2 DEF Prepare
  <2>5. failed' \subseteq Reports
    BY <1>1, <2>1 DEF Prepare
  <2> QED
    BY <1>1, <2>4, <2>5 DEF Prepare
<1>2. ASSUME Publish(j) PROVE TypeOK' /\ Placed'
  <2> DEFINE x == [J EXCEPT !.at = "record", !.hash = Len(chain) + 1]
             e == [report |-> J.report, status |-> J.prev, link |-> J.link]
  <2>1. J.report \in Reports /\ J.done < Batches
    BY <1>0, <1>2 DEF Publish
  <2>2. Len(chain) + 1 \in Nat
    OBVIOUS
  <2>3. x \in Row /\ x.report \in Reports /\ x.done < Batches
    BY <1>0, <2>1, <2>2 DEF Row, Live, Running
  <2>4. Placed' /\ op' \in [Slots -> Operation] /\ job' \in [Jobs -> Row]
    BY <1>2, <2>3, JobPlaced DEF Publish
  <2>5. e \in [report : Reports, status : Statuses, link : Nat]
    BY <1>0, <2>1
  <2>6. chain' \in Seq([report : Reports, status : Statuses, link : Nat])
    BY <1>2, <2>5 DEF Publish
  <2> QED
    BY <1>2, <2>4, <2>6 DEF Publish
<1>3. ASSUME Record(j) PROVE TypeOK' /\ Placed'
  <2> DEFINE x == [J EXCEPT !.at = "batch"]
  <2>1. J.report \in Reports /\ J.done < Batches
    BY <1>0, <1>3 DEF Record
  <2>2. x \in Row /\ x.report \in Reports /\ x.done < Batches
    BY <1>0, <1>a, <2>1 DEF Row, Live, Running
  <2>3. Placed' /\ op' \in [Slots -> Operation] /\ job' \in [Jobs -> Row]
    BY <1>3, <2>2, JobPlaced DEF Record
  <2>4. records' \in [Reports -> Seq(Nat)]
    BY <1>0, <1>3, <2>1 DEF Record
  <2> QED
    BY <1>3, <2>3, <2>4 DEF Record
<1>4. ASSUME Conclude(j) PROVE TypeOK' /\ Placed'
  <2>1. J.report \in Reports
    BY <1>0, <1>4 DEF Conclude
  <2>2. Placed' /\ op' \in [Slots -> Operation] /\ job' \in [Jobs -> Row]
    BY <1>4, <1>c, <2>1 DEF Conclude
  <2>3. status' \in [Reports -> Statuses]
    BY <1>4, <1>b DEF Conclude
  <2> QED
    BY <1>4, <2>2, <2>3 DEF Conclude
<1>5. ASSUME NEW pausing \in BOOLEAN, RunBatch(j, pausing) PROVE TypeOK' /\ Placed'
  <2> DEFINE last == J.done + 1 = Batches
             a == IF last THEN "conclude" ELSE IF pausing THEN "pending" ELSE "batch"
             x == [J EXCEPT !.done = @ + 1, !.at = a]
  <2>a. J.report \in Reports /\ J.done < Batches
    BY <1>0, <1>5 DEF RunBatch
  <2>1. J.report \in Reports /\ J.done < Batches /\ J.done + 1 \in 1..Batches
    BY <1>0, <2>a, ConstantsAssumption
  <2>2. a \in Live /\ (a = "batch" => J.done + 1 < Batches) /\ a \notin {"publish", "record"}
    BY <2>1, ConstantsAssumption DEF Live, Running
  <2>3. x \in Row /\ x.report = J.report /\ x.done = J.done + 1 /\ x.at = a
    <3> HIDE DEF a
    <3>1. J.done + 1 \in 0..Batches
      BY <2>1, ConstantsAssumption
    <3>2. \A b \in Live, n \in 0..Batches : [J EXCEPT !.done = n, !.at = b] \in Row
      BY <1>0 DEF Row
    <3>3. x = [J EXCEPT !.done = J.done + 1, !.at = a]
      BY <1>0 DEF Row
    <3> QED
      BY <1>0, <2>2, <3>1, <3>2, <3>3 DEF Row
  <2>4. Placed' /\ op' \in [Slots -> Operation] /\ job' \in [Jobs -> Row]
    <3>1. Moves(j, x) /\ UNCHANGED op
      BY <1>5 DEF RunBatch
    <3> HIDE DEF x
    <3> QED
      BY <2>1, <2>2, <2>3, <3>1, JobPlaced
  <2>5. cert' \in [Reports -> [1..Batches -> Nat]]
    BY <1>0, <1>5, <2>1 DEF RunBatch
  <2>6. pauses' \in Nat
    BY <1>5 DEF RunBatch
  <2> QED
    BY <1>5, <2>4, <2>5, <2>6 DEF RunBatch
<1>6. ASSUME RequestDeforestationReport(j) PROVE TypeOK' /\ Placed'
  <2> DEFINE x == [J EXCEPT !.at = "hold", !.hash = 1]
  <2>1. J.report \in Reports
    BY <1>0, <1>6 DEF RequestDeforestationReport
  <2>2. x \in Row /\ x.report \in Reports /\ x.at = "hold"
    BY <1>0, <2>1 DEF Row, Live, Running
  <2>3. Placed' /\ op' \in [Slots -> Operation] /\ job' \in [Jobs -> Row]
    <3>1. CASE Moves(j, x)
      BY <1>6, <2>2, <3>1, JobPlaced DEF RequestDeforestationReport
    <3>2. CASE Moves(j, [J EXCEPT !.at = "conclude"])
      BY <1>6, <1>c, <2>1, <3>2 DEF RequestDeforestationReport
    <3> QED
      BY <1>6, <3>1, <3>2 DEF RequestDeforestationReport
  <2> QED
    BY <1>6, <2>3 DEF RequestDeforestationReport
<1>7. ASSUME HandleDeforestationCallBack(j) PROVE TypeOK' /\ Placed'
  <2>1. J.report \in Reports
    BY <1>0, <1>7 DEF HandleDeforestationCallBack
  <2> DEFINE x == [J EXCEPT !.at = "conclude", !.done = Batches]
  <2>b. Batches \in 0..Batches
    BY ConstantsAssumption
  <2>a. x \in Row /\ x.report \in Reports /\ x.at = "conclude"
    BY <1>0, <2>1, <2>b DEF Row, Live, Running
  <2>2. Placed' /\ op' \in [Slots -> Operation] /\ job' \in [Jobs -> Row]
    BY <1>7, <2>a, JobPlaced DEF HandleDeforestationCallBack
  <2>3. analyzed' \in [Reports -> BOOLEAN]
    BY <1>7 DEF HandleDeforestationCallBack
  <2> QED
    BY <1>7, <2>2, <2>3 DEF HandleDeforestationCallBack
<1>8. ASSUME FailJob(j) PROVE TypeOK' /\ Placed'
  <2>1. J.report \in Reports
    BY <1>0, <1>8 DEF FailJob, Live, Running
  <2>2. Placed' /\ op' \in [Slots -> Operation] /\ job' \in [Jobs -> Row]
    BY <1>8, <1>c, <2>1 DEF FailJob
  <2>3. status' \in [Reports -> Statuses] /\ failed' \subseteq Reports /\ faults' \in Nat
    BY <1>8, <1>b, <2>1 DEF FailJob
  <2> QED
    BY <1>8, <2>2, <2>3 DEF FailJob
<1>9. ASSUME LoseJob(j) PROVE TypeOK' /\ Placed'
  <2>1. J.report \in Reports
    BY <1>0, <1>9 DEF LoseJob, Live, Running
  <2>2. Placed' /\ op' \in [Slots -> Operation] /\ job' \in [Jobs -> Row]
    BY <1>9, <1>c, <2>1 DEF LoseJob
  <2>3. broken' \subseteq Reports /\ failed' \subseteq Reports /\ faults' \in Nat
    BY <1>9, <2>1 DEF LoseJob
  <2> QED
    BY <1>9, <2>2, <2>3 DEF LoseJob
<1>10. ASSUME Callback(j) PROVE TypeOK' /\ Placed'
  <2>1. J.report \in Reports
    BY <1>0, <1>10 DEF Callback
  <2>2. Placed' /\ op' \in [Slots -> Operation] /\ job' \in [Jobs -> Row]
    BY <1>10, <1>c, <2>1 DEF Callback
  <2>3. doubled' \subseteq Reports /\ callbacks' \in Nat
    BY <1>10, <2>1 DEF Callback, Takes
  <2> QED
    BY <1>10, <2>2, <2>3 DEF Callback
<1> QED
  BY <1>1, <1>2, <1>3, <1>4, <1>5, <1>6, <1>7, <1>8, <1>9, <1>10 DEF JobStep

\* An even hour strikes.
LEMMA StrikeType ==
    ASSUME TypeOK, Placed, NEW W \in SUBSET Crons, Strike(W)
    PROVE  TypeOK' /\ Placed'
<1> USE DEF TypeOK, bounds, history
<1> DEFINE o(F) == [NoOp EXCEPT !.at = "next", !.todo = F, !.rows = Loaded(F)]
<1>1. PICK F \in SUBSET {r \in Reports : date[r] = "far"} :
        /\ date' = [r \in Reports |-> IF r \in F THEN "near"
                                      ELSE IF date[r] = "near" THEN "past" ELSE date[r]]
        /\ op' = [k \in Slots |-> IF k \in W /\ F # {} THEN o(F) ELSE op[k]]
        /\ missed' = IF W = {} THEN missed \cup F ELSE missed
  BY DEF Strike
<1>2. Loaded(F) \in [Reports -> Statuses]
  BY DEF Loaded, Statuses
<1>3. o(F) \in Operation /\ o(F).at = "next"
  BY <1>2, NoOpType DEF Operation, NoOp
<1>4. op' \in [Slots -> Operation] /\ \A k \in Slots : op'[k] = o(F) \/ op'[k] = op[k]
  <2> HIDE DEF o
  <2> QED
    BY <1>1, <1>3
<1>5. UNCHANGED job
  BY DEF Strike
<1>6. Placed'
  <2> HIDE DEF o
  <2> QED
    BY <1>3, <1>4, <1>5 DEF Placed
<1>7. date' \in [Reports -> {"none", "far", "near", "past"}] /\ missed' \subseteq Reports
  BY <1>1
<1> QED
  BY <1>4, <1>6, <1>7 DEF Strike

\* Every step keeps it.
LEMMA TypeStep == TypeOK /\ Placed /\ [Next]_vars => TypeOK' /\ Placed'
<1> SUFFICES ASSUME TypeOK, Placed, [Next]_vars PROVE TypeOK' /\ Placed'
  OBVIOUS
<1>1. CASE UNCHANGED vars
  BY <1>1 DEF vars, bounds, history, TypeOK, Placed
<1>2. CASE Next
  <2>1. CASE Users
    BY <2>1, UsersType
  <2>2. ASSUME NEW k \in Slots, OpStep(k) PROVE TypeOK' /\ Placed'
    BY <2>2, OpType
  <2>3. ASSUME NEW j \in Jobs, JobStep(j) \/ Callback(j) PROVE TypeOK' /\ Placed'
    BY <2>3, JobType
  <2>4. ASSUME NEW W \in SUBSET Crons, Strike(W) PROVE TypeOK' /\ Placed'
    BY <2>4, StrikeType
  <2>5. CASE Faults
    BY <2>5, UsersType, OpType, JobType DEF Faults
  <2> QED
    BY <1>2, <2>1, <2>2, <2>3, <2>4, <2>5 DEF Next
<1> QED
  BY <1>1, <1>2

\* The state keeps its type: of the statuses of reports, of the operations and of
\* the rows of jobs, through every step of the service and its failures.
THEOREM StatusTypeCorrect == Spec => []TypeOK
<1>1. Spec => [](TypeOK /\ Placed)
  BY InitType, TypeStep, PTL DEF Spec
<1> QED
  BY <1>1, PTL

-----------------------------------------------------------------------------
(* A transient status has an owner.                                        *)

\* TransientExplained and OneOwner, of one report.
Explained(r) ==
    /\ status[r] = Writing =>
          \/ \E k \in Slots : op[k].report = r /\ op[k].at = "create"
          \/ \E j \in Jobs : Working(j, r) /\ job[j].kind = "compliance"
    /\ status[r] = Analyzing => \E j \in Jobs : Working(j, r) /\ job[j].kind = "deforestation"

Single(r) ==
    /\ \A i, j \in Jobs : Working(i, r) /\ Working(j, r) => i = j
    /\ \A k, l \in Slots : Starting(k, r) /\ Starting(l, r) => k = l
    /\ \A k \in Slots, j \in Jobs : ~(Starting(k, r) /\ Working(j, r))
    /\ \A k, l \in Slots : Starting(k, r) => ~Announcing(l, r)
    /\ \A k \in Slots, j \in Jobs : Announcing(k, r) /\ Working(j, r) => job[j].kind = "deforestation"
    /\ \A k \in Slots : Starting(k, r) => op[k].seen \notin Transient
    /\ \A j \in Jobs : Working(j, r) => PutBack(j) \notin Transient

Typed == TypeOK /\ Placed

\* The invariant, report by report.
LEMMA OwnerByReport ==
    TransientExplained /\ OneOwner <=> \A r \in Reports \ Excused : Explained(r) /\ Single(r)
BY DEF TransientExplained, OneOwner, Explained, Single

\* Nobody owns a report whose status is not transient: nothing else is claimed of it.
LEMMA UnownedIsPlain ==
    ASSUME NEW r \in Reports, Explained(r), ~Owned(r)
    PROVE  status[r] \notin Transient
BY DEF Explained, Owned, Starting, Transient

\* An operation moves to a step in which it does not own r, and the status of r
\* stays, unless it was about to create the job, or becomes a lasting one.
LEMMA OpLeaves ==
    ASSUME Typed, NEW r \in Reports, Explained(r), Single(r),
           NEW k \in Slots, NEW o \in Operation, Advance(k, o), UNCHANGED job,
           ~(o.report = r /\ o.at \in {"write", "create", "mark"}),
           \/ status'[r] \notin Transient
           \/ status'[r] = status[r] /\ ~(op[k].report = r /\ op[k].at = "create")
    PROVE  Explained(r)' /\ Single(r)'
<1>1. op'[k] = o /\ \A l \in Slots : l # k => op'[l] = op[l]
  BY AdvanceType DEF Typed, TypeOK
<1>2. Explained(r)'
  BY <1>1 DEF Explained, Working, Transient
<1>3. Single(r)'
  BY <1>1 DEF Single, Working, Starting, Announcing, PutBack
<1> QED
  BY <1>2, <1>3

\* A job moves without becoming an owner of r, and the status of r stays, unless
\* the job leaves r, or becomes a lasting one.
LEMMA JobLeaves ==
    ASSUME Typed, NEW r \in Reports, Explained(r), Single(r),
           NEW j \in Jobs, NEW x \in Row, Moves(j, x), UNCHANGED op,
           x.report = job[j].report, x.kind = job[j].kind, x.prev = job[j].prev,
           x.report = r /\ x.at \in Live => job[j].at \in Live,
           \/ status'[r] \notin Transient
           \/ status'[r] = status[r] /\ (x.report = r /\ job[j].at \in Live => x.at \in Live)
    PROVE  Explained(r)' /\ Single(r)'
<1>1. job'[j] = x /\ \A i \in Jobs : i # j => job'[i] = job[i]
  BY MovesType DEF Typed, TypeOK
<1>2. \A i \in Jobs : Working(i, r)' => /\ Working(i, r) /\ job'[i].kind = job[i].kind
                                        /\ job'[i].prev = job[i].prev
  BY <1>1 DEF Working
<1>3. Explained(r)'
  <2>1. CASE status'[r] \notin Transient
    BY <2>1 DEF Explained, Transient
  <2>2. CASE status'[r] = status[r] /\ (x.report = r /\ job[j].at \in Live => x.at \in Live)
    <3>1. \A i \in Jobs : Working(i, r) => Working(i, r)' /\ job'[i].kind = job[i].kind
      BY <1>1, <2>2 DEF Working
    <3> QED
      BY <2>2, <3>1 DEF Explained
  <2> QED
    BY <2>1, <2>2
<1>4. Single(r)'
  BY <1>2 DEF Single, Starting, Announcing, PutBack
<1> QED
  BY <1>3, <1>4

\* A report that is excused stays so.
LEMMA ExcusedGrows == [Next]_vars => Excused \subseteq Excused'
<1> SUFFICES ASSUME [Next]_vars PROVE Excused \subseteq Excused'
  OBVIOUS
<1> USE DEF history, bounds
<1>1. CASE UNCHANGED vars
  BY <1>1 DEF vars, Excused
<1>2. CASE Users
  BY <1>2 DEF Users, Excused, ChangeStatus, UpdateBlockchainPublishDate, ChangePlaces,
              BeginPublish, BeginAnalysis, Takes
<1>3. ASSUME NEW k \in Slots, OpStep(k) PROVE Excused \subseteq Excused'
  BY <1>3 DEF OpStep, Excused, ReadStatus, WriteStatus, MarkAnalyzing, ClearDate,
              CreateJob, ConcludeReport, Takes
<1>4. ASSUME NEW j \in Jobs, JobStep(j) \/ Callback(j) PROVE Excused \subseteq Excused'
  <2>1. CASE JobStep(j)
    BY <2>1 DEF JobStep, Excused, Prepare, Publish, Record, Conclude, RunBatch,
                RequestDeforestationReport, HandleDeforestationCallBack
  <2>2. CASE Callback(j)
    BY <2>2 DEF Callback, Excused, Takes
  <2> QED
    BY <1>4, <2>1, <2>2
<1>5. ASSUME NEW W \in SUBSET Crons, Strike(W) PROVE Excused \subseteq Excused'
  BY <1>5 DEF Strike, Excused
<1>6. CASE Faults
  BY <1>6 DEF Faults, Excused, AnalysisError, CreateError, Abort, FailJob, LoseJob, Takes
<1> QED
  BY <1>1, <1>2, <1>3, <1>4, <1>5, <1>6 DEF Next

\* Who owns r after a step owned it before.
LEMMA OwnersStay ==
    ASSUME NEW r \in Reports, Single(r),
           \A l \in Slots : Starting(l, r)' => Starting(l, r) /\ op'[l].seen = op[l].seen,
           \A l \in Slots : Announcing(l, r)' => Announcing(l, r),
           \A i \in Jobs : Working(i, r)' => /\ Working(i, r)
                                             /\ job'[i].kind = job[i].kind /\ job'[i].prev = job[i].prev
    PROVE  Single(r)'
<1>1. \A i, j \in Jobs : Working(i, r)' /\ Working(j, r)' => i = j
  BY DEF Single
<1>2. \A k, l \in Slots : Starting(k, r)' /\ Starting(l, r)' => k = l
  BY DEF Single
<1>3. \A k \in Slots, j \in Jobs : ~(Starting(k, r)' /\ Working(j, r)')
  BY DEF Single
<1>4. \A k, l \in Slots : Starting(k, r)' => ~Announcing(l, r)'
  BY DEF Single
<1>5. \A k \in Slots, j \in Jobs : Announcing(k, r)' /\ Working(j, r)' => job'[j].kind = "deforestation"
  BY DEF Single
<1>6. \A k \in Slots : Starting(k, r)' => op'[k].seen \notin Transient
  BY DEF Single
<1>7. \A j \in Jobs : Working(j, r)' => PutBack(j)' \notin Transient
  BY DEF Single, PutBack
<1> QED
  BY <1>1, <1>2, <1>3, <1>4, <1>5, <1>6, <1>7 DEF Single

\* Users: a begin of a publication or an analysis is the only thing that may touch
\* the owners, and an analysis makes an owner only of a report that has none.
LEMMA UsersOwner ==
    ASSUME Typed, NEW r \in Reports, Explained(r), Single(r), r \notin Excused', r \notin Excused,
           Users \/ \E k \in Requests, q \in Reports : AnalysisError(k, q)
    PROVE  Explained(r)' /\ Single(r)'
<1> USE DEF history, bounds
<1>1. ASSUME NEW q \in Reports, NEW s \in Statuses, ChangeStatus(q, s)
      PROVE  Explained(r)' /\ Single(r)'
  <2>1. UNCHANGED <<op, job>> /\ (status'[r] = status[r] \/ status'[r] \notin Transient)
    BY <1>1, ConstantsAssumption DEF ChangeStatus, Typed, TypeOK
  <2> QED
    BY <2>1 DEF Explained, Single, Working, Starting, Announcing, PutBack, Transient
<1>2. ASSUME UNCHANGED <<op, job, status>> PROVE Explained(r)' /\ Single(r)'
  BY <1>2 DEF Explained, Single, Working, Starting, Announcing, PutBack
<1>3. ASSUME NEW q \in Reports, UpdateBlockchainPublishDate(q) \/ ChangePlaces(q)
      PROVE  Explained(r)' /\ Single(r)'
  BY <1>2, <1>3 DEF UpdateBlockchainPublishDate, ChangePlaces
<1>4. ASSUME NEW k \in Requests, NEW q \in Reports, BeginPublish(k, q)
      PROVE  Explained(r)' /\ Single(r)'
  <2> DEFINE o == [NoOp EXCEPT !.at = "read", !.report = q]
  <2>1. o \in Operation /\ o.at = "read" /\ k \in Slots
    BY NoOpType DEF Operation, NoOp, Slots
  <2>2. Advance(k, o) /\ UNCHANGED <<job, status>> /\ op[k].at = "idle"
    BY <1>4 DEF BeginPublish
  <2> HIDE DEF o
  <2> QED
    BY <2>1, <2>2, OpLeaves
<1>5. ASSUME NEW k \in Requests, NEW q \in Reports, NEW j \in Jobs, BeginAnalysis(k, q, j)
      PROVE  Explained(r)' /\ Single(r)'
  <2> DEFINE o == [NoOp EXCEPT !.at = "mark", !.report = q]
             x == [NoJob EXCEPT !.kind = "deforestation", !.at = "pending", !.report = q]
  <2>1. o \in Operation /\ o.at = "mark" /\ o.report = q /\ k \in Slots
    BY NoOpType DEF Operation, NoOp, Slots
  <2>2. x \in Row /\ x.report = q /\ x.kind = "deforestation" /\ x.prev = Ready
    BY NoJobType DEF Row, NoJob, Live, Statuses
  <2>3. /\ Advance(k, o) /\ Moves(j, x) /\ UNCHANGED status
        /\ op[k].at = "idle" /\ job[j].at = "absent"
    BY <1>5 DEF BeginAnalysis
  <2> HIDE DEF o, x
  <2>4. op'[k] = o /\ \A l \in Slots : l # k => op'[l] = op[l]
    BY <2>1, <2>3, AdvanceType DEF Typed, TypeOK
  <2>5. job'[j] = x /\ \A i \in Jobs : i # j => job'[i] = job[i]
    BY <2>2, <2>3, MovesType DEF Typed, TypeOK
  <2>6. CASE q = r
    <3>1. ~Owned(r)
      BY <1>5, <2>6 DEF BeginAnalysis, Takes, Excused
    <3>2. status'[r] \notin Transient
      BY <2>3, <3>1, UnownedIsPlain
    <3>3. \A l \in Slots : ~Starting(l, r)' /\ (Announcing(l, r)' => l = k)
      BY <2>1, <2>4, <3>1 DEF Owned, Starting, Announcing
    <3>4. \A i \in Jobs : Working(i, r)' => i = j
      BY <2>5, <3>1 DEF Owned, Working
    <3>5. PutBack(j)' \notin Transient
      BY <2>2, <2>5 DEF PutBack, Transient, Ready, Analyzing, Writing
    <3>6. Explained(r)'
      BY <3>2 DEF Explained, Transient
    <3>7. Single(r)'
      BY <2>2, <2>5, <3>3, <3>4, <3>5 DEF Single
    <3> QED
      BY <3>6, <3>7
  <2>7. CASE q # r
    <3>1. \A l \in Slots : /\ op[l].report = r /\ op[l].at = "create" => l # k
                           /\ Starting(l, r)' => Starting(l, r) /\ op'[l].seen = op[l].seen
                           /\ Announcing(l, r)' => Announcing(l, r)
      BY <2>1, <2>3, <2>4, <2>7 DEF Starting, Announcing
    <3>2. \A i \in Jobs : /\ Working(i, r)' => /\ Working(i, r)
                                               /\ job'[i].kind = job[i].kind /\ job'[i].prev = job[i].prev
                          /\ Working(i, r) => i # j
      BY <2>2, <2>3, <2>5, <2>7 DEF Working, Live, Running
    <3>3. Explained(r)'
      BY <2>3, <2>4, <2>5, <3>1, <3>2 DEF Explained, Working, Starting
    <3>4. Single(r)'
      BY <3>1, <3>2, OwnersStay DEF Starting, Announcing, Working
    <3> QED
      BY <3>3, <3>4
  <2> QED
    BY <2>6, <2>7
<1>6. ASSUME NEW k \in Requests, NEW q \in Reports, AnalysisError(k, q)
      PROVE  Explained(r)' /\ Single(r)'
  <2> DEFINE o == [NoOp EXCEPT !.at = "mark", !.report = q]
  <2>1. o \in Operation /\ o.report = q /\ k \in Slots
    BY NoOpType DEF Operation, NoOp, Slots
  <2>2. Advance(k, o) /\ UNCHANGED <<job, status>> /\ op[k].at = "idle" /\ q # r
    BY <1>6 DEF AnalysisError, Excused
  <2> HIDE DEF o
  <2> QED
    BY <2>1, <2>2, OpLeaves
<1> QED
  BY <1>1, <1>3, <1>4, <1>5, <1>6 DEF Users

\* The steps of an operation, its errors and the runs of the publish job.
LEMMA OpOwner ==
    ASSUME Typed, NEW r \in Reports, Explained(r), Single(r), r \notin Excused', r \notin Excused,
           NEW k \in Slots, OpStep(k) \/ CreateError(k) \/ Abort(k)
    PROVE  Explained(r)' /\ Single(r)'
<1> USE DEF history, bounds
<1> DEFINE O == op[k]
<1>0. O \in Operation /\ (O.at \notin {"idle", "next"} => O.report \in Reports)
  BY DEF Typed, TypeOK, Placed
<1>a. /\ Started(k) \in Operation /\ Started(k).at \in {"idle", "clear"}
      /\ NoOp \in Operation /\ NoOp.at = "idle"
  BY StartedType, NoOpType DEF Typed, TypeOK, NoOp
<1>b. ASSUME NEW o \in Operation, Advance(k, o)
      PROVE  op'[k] = o /\ \A l \in Slots : l # k => op'[l] = op[l]
  BY <1>b, AdvanceType DEF Typed, TypeOK
<1>1. ASSUME ReadStatus(k) PROVE Explained(r)' /\ Single(r)'
  <2> DEFINE o == [O EXCEPT !.at = "write", !.seen = status[O.report]]
  <2>1. /\ o \in Operation /\ o.report = O.report /\ o.at = "write" /\ o.seen = status[O.report]
        /\ Advance(k, o) /\ UNCHANGED <<job, status>> /\ O.at = "read"
    BY <1>0, <1>1 DEF ReadStatus, Operation, Typed, TypeOK
  <2> HIDE DEF o
  <2>2. CASE O.report = r
    <3>1. ~Owned(r)
      BY <1>1, <2>2 DEF ReadStatus, Takes, Excused
    <3>2. status[r] \notin Transient
      BY <3>1, UnownedIsPlain
    <3>3. op'[k] = o /\ \A l \in Slots : l # k => op'[l] = op[l]
      BY <1>b, <2>1
    <3>4. \A l \in Slots : (Starting(l, r)' => l = k) /\ ~Announcing(l, r)'
      BY <2>1, <3>1, <3>3 DEF Owned, Starting, Announcing
    <3>5. \A j \in Jobs : ~Working(j, r)'
      BY <2>1, <3>1 DEF Owned, Working
    <3>6. op'[k].seen \notin Transient
      BY <2>1, <2>2, <3>2, <3>3
    <3>7. Explained(r)'
      BY <2>1, <3>2 DEF Explained, Transient
    <3>8. Single(r)'
      BY <3>4, <3>5, <3>6 DEF Single
    <3> QED
      BY <3>7, <3>8
  <2>3. CASE O.report # r
    BY <2>1, <2>3, OpLeaves
  <2> QED
    BY <2>2, <2>3
<1>2. ASSUME WriteStatus(k) PROVE Explained(r)' /\ Single(r)'
  <2> DEFINE o == [O EXCEPT !.at = "create"]
  <2>1. o \in Operation /\ o.report = O.report /\ o.at = "create" /\ o.seen = O.seen
    BY <1>0 DEF Operation
  <2>2. O.at = "write" /\ UNCHANGED job
    BY <1>2 DEF WriteStatus
  <2>3. \/ Advance(k, o) /\ status' = [status EXCEPT ![O.report] = Writing]
        \/ Advance(k, Started(k)) /\ status' = [status EXCEPT ![O.report] = Ready]
    BY <1>2 DEF WriteStatus
  <2> HIDE DEF o
  <2>4. CASE Advance(k, Started(k)) /\ status' = [status EXCEPT ![O.report] = Ready]
    <3>1. status'[r] = status[r] \/ status'[r] \notin Transient
      BY <2>4 DEF Typed, TypeOK, Transient, Ready, Writing, Analyzing
    <3> QED
      BY <1>a, <2>2, <2>4, <3>1, OpLeaves
  <2>5. CASE O.report # r /\ Advance(k, o) /\ status' = [status EXCEPT ![O.report] = Writing]
    <3>1. status'[r] = status[r]
      BY <2>5 DEF Typed, TypeOK
    <3> QED
      BY <2>1, <2>2, <2>5, <3>1, OpLeaves
  <2>6. CASE O.report = r /\ Advance(k, o) /\ status' = [status EXCEPT ![O.report] = Writing]
    <3>1. op'[k] = o /\ \A l \in Slots : l # k => op'[l] = op[l]
      BY <1>b, <2>1, <2>6
    <3>2. status'[r] = Writing
      BY <2>6 DEF Typed, TypeOK
    <3>3. Explained(r)'
      BY <2>1, <2>6, <3>1, <3>2 DEF Explained, Writing, Analyzing
    <3>4. \A l \in Slots : /\ Starting(l, r)' => Starting(l, r) /\ op'[l].seen = op[l].seen
                           /\ Announcing(l, r)' => Announcing(l, r)
      BY <2>1, <2>2, <2>6, <3>1 DEF Starting, Announcing
    <3>5. \A j \in Jobs : Working(j, r)' => /\ Working(j, r)
                                            /\ job'[j].kind = job[j].kind /\ job'[j].prev = job[j].prev
      BY <2>2 DEF Working
    <3>6. Single(r)'
      BY <3>4, <3>5, OwnersStay DEF Starting, Announcing, Working
    <3> QED
      BY <3>3, <3>6
  <2> QED
    BY <2>3, <2>4, <2>5, <2>6
<1>3. ASSUME MarkAnalyzing(k) PROVE Explained(r)' /\ Single(r)'
  <2>1. /\ O.at = "mark" /\ Advance(k, NoOp) /\ UNCHANGED job
        /\ status' = [status EXCEPT ![O.report] = Analyzing]
    BY <1>3 DEF MarkAnalyzing
  <2>2. CASE O.report # r
    <3>1. status'[r] = status[r]
      BY <2>1, <2>2 DEF Typed, TypeOK
    <3> QED
      BY <1>a, <2>1, <2>2, <3>1, OpLeaves
  <2>3. CASE O.report = r
    <3>1. PICK j \in Jobs : Working(j, r)
      BY <1>3, <2>3 DEF MarkAnalyzing, Excused
    <3>2. job[j].kind = "deforestation"
      BY <2>1, <2>3, <3>1 DEF Single, Announcing
    <3>3. op'[k] = NoOp /\ \A l \in Slots : l # k => op'[l] = op[l]
      BY <1>a, <1>b, <2>1
    <3>4. status'[r] = Analyzing
      BY <2>1, <2>3 DEF Typed, TypeOK
    <3>5. Explained(r)'
      BY <2>1, <3>1, <3>2, <3>4 DEF Explained, Working, Writing, Analyzing
    <3>6. \A l \in Slots : /\ Starting(l, r)' => Starting(l, r) /\ op'[l].seen = op[l].seen
                           /\ Announcing(l, r)' => Announcing(l, r)
      BY <1>a, <3>3 DEF Starting, Announcing
    <3>7. \A i \in Jobs : Working(i, r)' => /\ Working(i, r)
                                            /\ job'[i].kind = job[i].kind /\ job'[i].prev = job[i].prev
      BY <2>1 DEF Working
    <3>8. Single(r)'
      BY <3>6, <3>7, OwnersStay DEF Starting, Announcing, Working
    <3> QED
      BY <3>5, <3>8
  <2> QED
    BY <2>2, <2>3
<1>4. ASSUME ClearDate(k) PROVE Explained(r)' /\ Single(r)'
  <2> DEFINE rest == O.todo \ {O.report}
             o == IF rest = {} THEN NoOp
                  ELSE [O EXCEPT !.at = "next", !.todo = rest, !.report = "none"]
  <2>1. Advance(k, o) /\ UNCHANGED <<job, status>> /\ O.at = "clear"
    BY <1>4 DEF ClearDate
  <2>2. o \in Operation /\ o.at \in {"idle", "next"}
    <3>1. rest \in SUBSET Reports
      BY <1>0 DEF Operation
    <3>2. \A t \in SUBSET Reports :
             LET p == [O EXCEPT !.at = "next", !.todo = t, !.report = "none"]
             IN  p \in Operation /\ p.at = "next"
      BY <1>0 DEF Operation
    <3> QED
      BY <1>a, <3>1, <3>2
  <2> HIDE DEF o
  <2> QED
    BY <2>1, <2>2, OpLeaves
<1>5. ASSUME NEW j \in Jobs, CreateJob(k, j) PROVE Explained(r)' /\ Single(r)'
  <2> DEFINE x == [NoJob EXCEPT !.kind = "compliance", !.at = "pending",
                                !.report = O.report, !.prev = O.seen]
  <2>1. /\ O.at = "create" /\ job[j].at = "absent" /\ UNCHANGED status
        /\ Advance(k, Started(k)) /\ Moves(j, x)
    BY <1>5 DEF CreateJob
  <2>2. x \in Row /\ x.report = O.report /\ x.kind = "compliance" /\ x.prev = O.seen /\ x.at = "pending"
    BY <1>0, <2>1, NoJobType DEF Row, NoJob, Live, Operation
  <2> HIDE DEF x
  <2>3. op'[k] = Started(k) /\ \A l \in Slots : l # k => op'[l] = op[l]
    BY <1>a, <1>b, <2>1
  <2>4. job'[j] = x /\ \A i \in Jobs : i # j => job'[i] = job[i]
    BY <2>1, <2>2, MovesType DEF Typed, TypeOK
  <2>5. \A l \in Slots : /\ Starting(l, r)' => Starting(l, r) /\ op'[l].seen = op[l].seen /\ l # k
                         /\ Announcing(l, r)' => Announcing(l, r)
    BY <1>a, <2>3 DEF Starting, Announcing
  <2>6. CASE O.report = r
    <3>1. Starting(k, r)
      BY <2>1, <2>6 DEF Starting
    <3>a. \A l \in Slots : (Starting(l, r) => l = k) /\ ~Announcing(l, r)
      BY <3>1 DEF Single
    <3>2. \A l \in Slots : ~Starting(l, r)' /\ ~Announcing(l, r)'
      BY <2>5, <3>a DEF Starting, Announcing
    <3>3. Working(j, r)' /\ \A i \in Jobs : Working(i, r)' => i = j
      BY <2>2, <2>4, <2>6, <3>1 DEF Single, Working, Live
    <3>4. PutBack(j)' \notin Transient
      BY <2>2, <2>4, <3>1 DEF PutBack, Single
    <3>5. Explained(r)'
      <4>1. status[r] # Analyzing
        BY <3>1 DEF Explained, Single
      <4> QED
        BY <2>1, <2>2, <2>4, <3>3, <4>1 DEF Explained
    <3>6. Single(r)'
      BY <3>2, <3>3, <3>4 DEF Single
    <3> QED
      BY <3>5, <3>6
  <2>7. CASE O.report # r
    <3>1. \A i \in Jobs : /\ Working(i, r)' => /\ Working(i, r)
                                               /\ job'[i].kind = job[i].kind /\ job'[i].prev = job[i].prev
                          /\ Working(i, r) => i # j
      BY <2>1, <2>2, <2>4, <2>7 DEF Working, Live, Running
    <3>2. Explained(r)'
      BY <2>1, <2>3, <2>4, <2>7, <3>1 DEF Explained, Working
    <3>3. Single(r)'
      BY <2>5, <3>1, OwnersStay DEF Starting, Announcing, Working
    <3> QED
      BY <3>2, <3>3
  <2> QED
    BY <2>6, <2>7
<1>6. ASSUME NEW q \in Reports, ConcludeReport(k, q) PROVE Explained(r)' /\ Single(r)'
  <2> DEFINE o == [O EXCEPT !.at = "read", !.report = q]
  <2>1. o \in Operation /\ o.at = "read"
    BY <1>0 DEF Operation
  <2>2. Advance(k, o) /\ UNCHANGED job /\ O.at = "next"
    BY <1>6 DEF ConcludeReport
  <2>3. status'[r] = status[r] \/ status'[r] \notin Transient
    BY <1>6 DEF ConcludeReport, Typed, TypeOK, Transient, Concluded, Writing, Analyzing
  <2> HIDE DEF o
  <2> QED
    BY <2>1, <2>2, <2>3, OpLeaves
<1>7. ASSUME CreateError(k) PROVE Explained(r)' /\ Single(r)'
  <2>1. Advance(k, Started(k)) /\ UNCHANGED <<job, status>> /\ O.report # r
    BY <1>7 DEF CreateError, Excused
  <2> QED
    BY <1>a, <2>1, OpLeaves
<1>8. ASSUME Abort(k) PROVE Explained(r)' /\ Single(r)'
  <2>1. Advance(k, NoOp) /\ UNCHANGED <<job, status>> /\ ~(O.report = r /\ O.at = "create")
    BY <1>8 DEF Abort, Excused
  <2> QED
    BY <1>a, <2>1, OpLeaves
<1> QED
  BY <1>1, <1>2, <1>3, <1>4, <1>5, <1>6, <1>7, <1>8 DEF OpStep

\* The steps of a job, its errors and its callback.
LEMMA JobOwner ==
    ASSUME Typed, NEW r \in Reports, Explained(r), Single(r), r \notin Excused', r \notin Excused,
           NEW j \in Jobs, JobStep(j) \/ FailJob(j) \/ LoseJob(j) \/ Callback(j)
    PROVE  Explained(r)' /\ Single(r)'
<1> USE DEF history, bounds
<1> DEFINE J == job[j]
           Goal == Explained(r)' /\ Single(r)'
<1>0. /\ J \in Row /\ J.done \in 0..Batches /\ J.hash \in Nat /\ J.link \in Nat
      /\ J.at \notin {"absent"} => J.report \in Reports
      /\ J.at \in {"publish", "record", "batch"} => J.done < Batches
  BY DEF Typed, TypeOK, Placed, Row
\* The job goes on.
<1>a. ASSUME NEW x \in Row, x.report = J.report, x.kind = J.kind, x.prev = J.prev,
             x.at \in Live, J.at \in Live, Moves(j, x), UNCHANGED <<op, status>>
      PROVE  Goal
  BY <1>a, JobLeaves
\* The job ends and leaves its status.
<1>b. ASSUME J.at \in Live, Moves(j, [J EXCEPT !.at = "ended"]), UNCHANGED op,
             status' = [status EXCEPT ![J.report] = PutBack(j)]
      PROVE  Goal
  <2> DEFINE x == [J EXCEPT !.at = "ended"]
  <2>1. x \in Row /\ x.report = J.report /\ x.kind = J.kind /\ x.prev = J.prev /\ x.at = "ended"
    BY <1>0 DEF Row
  <2>2. "ended" \notin Live
    BY DEF Live, Running
  <2>3. CASE J.report = r
    <3>1. status'[r] = PutBack(j)
      BY <1>b, <2>3 DEF Typed, TypeOK
    <3>2. PutBack(j) \notin Transient
      BY <1>b, <2>3 DEF Single, Working
    <3> HIDE DEF x
    <3> QED
      BY <1>b, <2>1, <2>2, <3>1, <3>2, JobLeaves DEF x
  <2>4. CASE J.report # r
    <3>1. status'[r] = status[r]
      BY <1>b, <2>4 DEF Typed, TypeOK
    <3>2. Moves(j, x)
      BY <1>b
    <3> HIDE DEF x
    <3> QED
      BY <1>b, <2>1, <2>2, <2>4, <3>1, <3>2, JobLeaves
  <2> QED
    BY <2>3, <2>4
<1>c. Len(chain) + 1 \in Nat
  BY DEF Typed, TypeOK
<1>d. ASSUME NEW a \in Live, J.at \in Live, Moves(j, [J EXCEPT !.at = a]), UNCHANGED <<op, status>>
      PROVE  Goal
  <2> DEFINE x == [J EXCEPT !.at = a]
  <2>1. x \in Row /\ x.report = J.report /\ x.kind = J.kind /\ x.prev = J.prev /\ x.at = a
    BY <1>0 DEF Row
  <2>2. Moves(j, x)
    BY <1>d
  <2> HIDE DEF x
  <2> QED
    BY <1>a, <1>d, <2>1, <2>2
<1>1. ASSUME Prepare(j) PROVE Goal
  <2> DEFINE x == [J EXCEPT !.at = "publish", !.done = 0, !.link = Last(records[J.report])]
  <2>1. Last(records[J.report]) \in Nat /\ 0 \in 0..Batches
    BY <1>0, <1>1, LastType, ConstantsAssumption DEF Prepare, Typed, TypeOK
  <2>2. \A l \in Nat : LET y == [J EXCEPT !.at = "publish", !.done = 0, !.link = l] IN
           y \in Row /\ y.report = J.report /\ y.kind = J.kind /\ y.prev = J.prev /\ y.at = "publish"
    BY <1>0, <2>1 DEF Row, Live, Running
  <2>3. x \in Row /\ x.report = J.report /\ x.kind = J.kind /\ x.prev = J.prev /\ x.at \in Live
    BY <2>1, <2>2 DEF Live, Running
  <2>4. UNCHANGED <<op, status>> /\ J.at \in Live
    BY <1>1 DEF Prepare, Live
  <2>5. Moves(j, x) \/ Moves(j, [J EXCEPT !.at = "conclude"])
    BY <1>1 DEF Prepare
  <2> HIDE DEF x
  <2>6. CASE Moves(j, x)
    BY <1>a, <2>3, <2>4, <2>6
  <2>7. CASE Moves(j, [J EXCEPT !.at = "conclude"])
    BY <1>d, <2>4, <2>7 DEF Live, Running
  <2> QED
    BY <2>5, <2>6, <2>7
<1>2. ASSUME Publish(j) PROVE Goal
  <2> DEFINE x == [J EXCEPT !.at = "record", !.hash = Len(chain) + 1]
  <2>1. \A h \in Nat : LET y == [J EXCEPT !.at = "record", !.hash = h] IN
           y \in Row /\ y.report = J.report /\ y.kind = J.kind /\ y.prev = J.prev /\ y.at = "record"
    BY <1>0 DEF Row, Live, Running
  <2>2. x \in Row /\ x.report = J.report /\ x.kind = J.kind /\ x.prev = J.prev /\ x.at \in Live
    BY <1>c, <2>1 DEF Live, Running
  <2>3. Moves(j, x) /\ UNCHANGED <<op, status>> /\ J.at \in Live
    BY <1>2 DEF Publish, Live, Running
  <2> HIDE DEF x
  <2> QED
    BY <1>a, <2>2, <2>3
<1>3. ASSUME Record(j) PROVE Goal
  BY <1>d, <1>3 DEF Record, Live, Running
<1>4. ASSUME Conclude(j) PROVE Goal
  BY <1>b, <1>4 DEF Conclude, Live, Running
<1>5. ASSUME NEW pausing \in BOOLEAN, RunBatch(j, pausing) PROVE Goal
  <2> DEFINE last == J.done + 1 = Batches
             a == IF last THEN "conclude" ELSE IF pausing THEN "pending" ELSE "batch"
             n == J.done + 1
  <2>1. J.at = "batch" /\ Moves(j, [J EXCEPT !.done = n, !.at = a]) /\ UNCHANGED <<op, status>>
    BY <1>5 DEF RunBatch
  <2>2. a \in Live /\ J.at \in Live
    BY <2>1 DEF Live, Running
  <2>3. n \in 0..Batches
    BY <1>0, <2>1, ConstantsAssumption
  <2> HIDE DEF a, n
  <2> DEFINE x == [J EXCEPT !.done = n, !.at = a]
  <2>4. x \in Row /\ x.report = J.report /\ x.kind = J.kind /\ x.prev = J.prev /\ x.at = a
    BY <1>0, <2>2, <2>3 DEF Row
  <2>5. Moves(j, x)
    BY <2>1
  <2> HIDE DEF x
  <2> QED
    BY <1>a, <2>1, <2>2, <2>4, <2>5
<1>6. ASSUME RequestDeforestationReport(j) PROVE Goal
  <2> DEFINE x == [J EXCEPT !.at = "hold", !.hash = 1]
  <2>1. x \in Row /\ x.report = J.report /\ x.kind = J.kind /\ x.prev = J.prev /\ x.at \in Live
    BY <1>0 DEF Row, Live
  <2>2. UNCHANGED <<op, status>> /\ J.at \in Live
    BY <1>6 DEF RequestDeforestationReport, Live
  <2>3. Moves(j, x) \/ Moves(j, [J EXCEPT !.at = "conclude"])
    BY <1>6 DEF RequestDeforestationReport
  <2> HIDE DEF x
  <2>4. CASE Moves(j, x)
    BY <1>a, <2>1, <2>2, <2>4
  <2>5. CASE Moves(j, [J EXCEPT !.at = "conclude"])
    BY <1>d, <2>2, <2>5 DEF Live, Running
  <2> QED
    BY <2>3, <2>4, <2>5
<1>7. ASSUME HandleDeforestationCallBack(j) PROVE Goal
  <2> DEFINE x == [J EXCEPT !.at = "conclude", !.done = Batches]
  <2>a. Batches \in 0..Batches
    BY ConstantsAssumption
  <2>1. x \in Row /\ x.report = J.report /\ x.kind = J.kind /\ x.prev = J.prev /\ x.at \in Live
    BY <1>0, <2>a DEF Row, Live, Running
  <2>2. Moves(j, x) /\ UNCHANGED <<op, status>> /\ J.at \in Live
    BY <1>7 DEF HandleDeforestationCallBack, Live
  <2> HIDE DEF x
  <2> QED
    BY <1>a, <2>1, <2>2
<1>8. ASSUME FailJob(j) PROVE Goal
  BY <1>b, <1>8 DEF FailJob
<1>9. ASSUME LoseJob(j) PROVE Goal
  <2> DEFINE x == [J EXCEPT !.at = "lost"]
  <2>1. x \in Row /\ x.report = J.report /\ x.kind = J.kind /\ x.prev = J.prev /\ x.at = "lost"
    BY <1>0 DEF Row, Live
  <2>2. Moves(j, x) /\ UNCHANGED <<op, status>> /\ J.report # r
    BY <1>9 DEF LoseJob, Excused
  <2>3. "lost" \notin Live
    BY DEF Live, Running
  <2> HIDE DEF x
  <2> QED
    BY <2>1, <2>2, <2>3, JobLeaves
<1>10. ASSUME Callback(j) PROVE Goal
  <2> DEFINE x == [J EXCEPT !.at = "callback"]
  <2>1. /\ x \in Row /\ x.report = J.report /\ x.kind = J.kind /\ x.prev = J.prev
        /\ x.at = "callback" /\ J.kind = "deforestation" /\ "callback" \in Live
    BY <1>0, <1>10 DEF Row, Live, Callback
  <2>2. Moves(j, x) /\ UNCHANGED <<op, status>>
    BY <1>10 DEF Callback
  <2> HIDE DEF x
  <2>3. CASE J.at = "hold" \/ J.report # r
    BY <2>1, <2>2, <2>3, JobLeaves DEF Live
  <2>4. CASE J.at # "hold" /\ J.report = r
    <3>1. ~Owned(r)
      BY <1>10, <2>4 DEF Callback, Takes, Excused
    <3>2. status[r] \notin Transient
      BY <3>1, UnownedIsPlain
    <3>3. job'[j] = x /\ \A i \in Jobs : i # j => job'[i] = job[i]
      BY <2>1, <2>2, MovesType DEF Typed, TypeOK
    <3>4. \A l \in Slots : ~Starting(l, r)' /\ ~Announcing(l, r)'
      BY <2>2, <3>1 DEF Owned, Starting, Announcing
    <3>5. \A i \in Jobs : Working(i, r)' => i = j
      BY <3>1, <3>3 DEF Owned, Working
    <3>6. PutBack(j)' \notin Transient
      BY <2>1, <3>3 DEF PutBack, Transient, Ready, Writing, Analyzing
    <3>7. Explained(r)'
      BY <2>2, <3>2 DEF Explained, Transient
    <3>8. Single(r)'
      BY <3>4, <3>5, <3>6 DEF Single
    <3> QED
      BY <3>7, <3>8
  <2> QED
    BY <2>3, <2>4
<1> QED
  BY <1>1, <1>2, <1>3, <1>4, <1>5, <1>6, <1>7, <1>8, <1>9, <1>10 DEF JobStep

LEMMA OwnerInit == Init => TransientExplained /\ OneOwner
<1> SUFFICES ASSUME Init, NEW r \in Reports PROVE Explained(r) /\ Single(r)
  BY OwnerByReport
<1>1. status[r] = Ready /\ \A k \in Slots : op[k].at = "idle"
  BY DEF Init, NoOp
<1>2. \A j \in Jobs : job[j].at = "absent"
  BY DEF Init, NoJob
<1>3. Explained(r)
  BY <1>1 DEF Explained, Ready, Writing, Analyzing
<1>4. Single(r)
  BY <1>1, <1>2 DEF Single, Starting, Announcing, Working, Live, Running
<1> QED
  BY <1>3, <1>4

LEMMA OwnerStep ==
    TypeOK /\ Placed /\ TransientExplained /\ OneOwner /\ [Next]_vars
        => (TransientExplained /\ OneOwner)'
<1> SUFFICES ASSUME TypeOK, Placed, TransientExplained, OneOwner, [Next]_vars,
                    NEW r \in Reports, r \notin Excused'
             PROVE  Explained(r)' /\ Single(r)'
  BY DEF TransientExplained, OneOwner, Explained, Single
<1>1. r \notin Excused /\ Explained(r) /\ Single(r) /\ Typed
  BY ExcusedGrows, OwnerByReport DEF Typed
<1>2. CASE UNCHANGED vars
  BY <1>1, <1>2 DEF vars, Explained, Single, Starting, Announcing, Working, PutBack
<1>3. CASE Next
  <2>1. CASE Users
    BY <1>1, <2>1, UsersOwner
  <2>2. ASSUME NEW k \in Slots, OpStep(k) PROVE Explained(r)' /\ Single(r)'
    BY <1>1, <2>2, OpOwner
  <2>3. ASSUME NEW j \in Jobs, JobStep(j) \/ Callback(j) PROVE Explained(r)' /\ Single(r)'
    BY <1>1, <2>3, JobOwner
  <2>4. ASSUME NEW W \in SUBSET Crons, Strike(W) PROVE Explained(r)' /\ Single(r)'
    <3>1. UNCHANGED <<status, job>>
      BY <2>4 DEF Strike
    <3>2. \A k \in Slots : op'[k] = op[k] \/ (k \in Crons /\ op'[k].at = "next")
      BY <2>4 DEF Strike, NoOp
    <3>3. \A k \in Crons : op[k].at = "idle"
      BY <2>4 DEF Strike
    <3>4. \A k \in Slots : /\ Starting(k, r)' => Starting(k, r) /\ op'[k].seen = op[k].seen
                           /\ Announcing(k, r)' => Announcing(k, r)
                           /\ op[k].at = "create" => op'[k].at = "create" /\ op'[k].report = op[k].report
      BY <3>2, <3>3 DEF Starting, Announcing
    <3>5. Explained(r)'
      BY <1>1, <3>1, <3>4 DEF Explained, Working
    <3>6. \A i \in Jobs : Working(i, r)' => /\ Working(i, r)
                                            /\ job'[i].kind = job[i].kind /\ job'[i].prev = job[i].prev
      BY <3>1 DEF Working
    <3>7. Single(r)'
      BY <1>1, <3>4, <3>6, OwnersStay DEF Starting, Announcing, Working
    <3> QED
      BY <3>5, <3>7
  <2>5. CASE Faults
    BY <1>1, <2>5, UsersOwner, OpOwner, JobOwner DEF Faults
  <2> QED
    BY <1>3, <2>1, <2>2, <2>3, <2>4, <2>5 DEF Next
<1> QED
  BY <1>2, <1>3

\* A report that two publications or analyses did not share, whose analysis was
\* announced in time and of which nothing was lost half-way is "Writing to
\* Blockchain" or "Analyzing Deforestation" only while a request or a job is at
\* work that will replace the status, in every state of every run.
THEOREM TransientStatusExplained == Spec => []TransientExplained
<1> DEFINE IInv == TypeOK /\ Placed /\ TransientExplained /\ OneOwner
<1>1. Init => IInv
  BY InitType, OwnerInit
<1>2. IInv /\ [Next]_vars => IInv'
  BY TypeStep, OwnerStep
<1>3. IInv => TransientExplained
  OBVIOUS
<1> QED
  BY <1>1, <1>2, <1>3, PTL DEF Spec

-----------------------------------------------------------------------------
(* What is published.                                                      *)

\* Only compliance jobs get to the steps of a publication.
Publishing == \A j \in Jobs : job[j].at \in {"publish", "record", "batch"} => job[j].kind = "compliance"

LEMMA PublishingStep == TypeOK /\ Placed /\ Publishing /\ [Next]_vars => Publishing'
<1> SUFFICES ASSUME Typed, Publishing, [Next]_vars PROVE Publishing'
  BY DEF Typed
<1>1. ASSUME UNCHANGED job PROVE Publishing'
  BY <1>1 DEF Publishing
<1>2. ASSUME NEW j \in Jobs, NEW x \in Row, Moves(j, x),
             x.at \in {"publish", "record", "batch"} => x.kind = "compliance"
      PROVE  Publishing'
  BY <1>2, MovesType DEF Typed, TypeOK, Publishing
<1>3. CASE UNCHANGED vars
  BY <1>1, <1>3 DEF vars
<1>4. CASE Users
  <2>1. ASSUME NEW k \in Requests, NEW r \in Reports, NEW j \in Jobs, BeginAnalysis(k, r, j)
        PROVE  Publishing'
    <3> DEFINE x == [NoJob EXCEPT !.kind = "deforestation", !.at = "pending", !.report = r]
    <3>1. x \in Row /\ x.at = "pending"
      BY NoJobType DEF Row, NoJob, Live
    <3> QED
      BY <1>2, <2>1, <3>1 DEF BeginAnalysis
  <2> QED
    BY <1>1, <1>4, <2>1 DEF Users, ChangeStatus, UpdateBlockchainPublishDate, ChangePlaces, BeginPublish
<1>5. ASSUME NEW k \in Slots, OpStep(k) PROVE Publishing'
  <2>1. ASSUME NEW j \in Jobs, CreateJob(k, j) PROVE Publishing'
    <3> DEFINE x == [NoJob EXCEPT !.kind = "compliance", !.at = "pending",
                                  !.report = op[k].report, !.prev = op[k].seen]
    <3>1. op[k] \in Operation /\ op[k].report \in Reports
      BY <2>1 DEF CreateJob, Typed, TypeOK, Placed
    <3>2. x \in Row /\ x.at = "pending"
      BY <3>1, NoJobType DEF Row, NoJob, Live, Operation
    <3> QED
      BY <1>2, <2>1, <3>2 DEF CreateJob
  <2> QED
    BY <1>1, <1>5, <2>1 DEF OpStep, ReadStatus, WriteStatus, MarkAnalyzing, ClearDate, ConcludeReport
<1>6. ASSUME NEW j \in Jobs, JobStep(j) \/ Callback(j) \/ FailJob(j) \/ LoseJob(j) PROVE Publishing'
  <2>1. \A i \in Jobs : i # j => job'[i] = job[i]
    BY <1>6 DEF JobStep, Prepare, Publish, Record, Conclude, RunBatch, RequestDeforestationReport,
                HandleDeforestationCallBack, Callback, FailJob, LoseJob, Moves, Typed, TypeOK
  <2>2. job[j] \in Row /\ job \in [Jobs -> Row]
    BY DEF Typed, TypeOK
  <2> DEFINE Same == /\ job'[j].kind = job[j].kind
                     /\ job'[j].at \in {"publish", "record", "batch"} => job[j].kind = "compliance"
  <2>a. ASSUME Prepare(j) PROVE Same
    <3>1. job'[j].kind = job[j].kind /\ job[j].kind = "compliance"
      BY <2>2, <2>a DEF Prepare, Moves, Row
    <3> QED
      BY <3>1
  <2>b. ASSUME Publish(j) \/ Record(j) PROVE Same
    <3>1. job'[j].kind = job[j].kind /\ job[j].kind = "compliance"
      BY <2>2, <2>b DEF Publish, Record, Moves, Row, Publishing
    <3> QED
      BY <3>1
  <2>c. ASSUME NEW pausing \in BOOLEAN, RunBatch(j, pausing) PROVE Same
    <3>1. job'[j].kind = job[j].kind /\ job[j].kind = "compliance"
      BY <2>2, <2>c DEF RunBatch, Moves, Row, Publishing
    <3> QED
      BY <3>1
  <2>d. ASSUME \/ Conclude(j) \/ RequestDeforestationReport(j) \/ HandleDeforestationCallBack(j)
               \/ Callback(j) \/ FailJob(j) \/ LoseJob(j)
        PROVE  Same
    <3> DEFINE Elsewhere == /\ job'[j].at \notin {"publish", "record", "batch"}
                            /\ job'[j].kind = job[j].kind
    <3>a. ASSUME Conclude(j) \/ FailJob(j) \/ LoseJob(j) \/ Callback(j) PROVE Elsewhere
      BY <2>2, <3>a DEF Conclude, FailJob, LoseJob, Callback, Moves, Row
    <3>b. ASSUME RequestDeforestationReport(j) PROVE Elsewhere
      BY <2>2, <3>b DEF RequestDeforestationReport, Moves, Row
    <3>c. ASSUME HandleDeforestationCallBack(j) PROVE Elsewhere
      BY <2>2, <3>c DEF HandleDeforestationCallBack, Moves, Row
    <3>1. Elsewhere
      BY <2>d, <3>a, <3>b, <3>c
    <3> QED
      BY <3>1
  <2>e. Same
    BY <1>6, <2>a, <2>b, <2>c, <2>d DEF JobStep
  <2> QED
    BY <2>1, <2>e DEF Publishing
<1>7. ASSUME NEW W \in SUBSET Crons, Strike(W) PROVE Publishing'
  BY <1>1, <1>7 DEF Strike
<1>8. CASE Faults
  <2>1. ASSUME NEW k \in Slots, CreateError(k) \/ Abort(k) PROVE Publishing'
    BY <1>1, <2>1 DEF CreateError, Abort
  <2>2. ASSUME NEW k \in Requests, NEW r \in Reports, AnalysisError(k, r) PROVE Publishing'
    BY <1>1, <2>2 DEF AnalysisError
  <2> QED
    BY <1>6, <1>8, <2>1, <2>2 DEF Faults
<1> QED
  BY <1>3, <1>4, <1>5, <1>6, <1>7, <1>8 DEF Next

LEMMA PublishedStep ==
    /\ TypeOK /\ Placed /\ TransientExplained /\ OneOwner
    /\ Publishing /\ NoTransientPublished /\ [Next]_vars
    => NoTransientPublished'
<1> SUFFICES ASSUME Typed, OneOwner, Publishing, NoTransientPublished, [Next]_vars
             PROVE  NoTransientPublished'
  BY DEF Typed
<1>1. Excused \subseteq Excused'
  BY ExcusedGrows
<1>2. CASE chain' = chain
  BY <1>1, <1>2 DEF NoTransientPublished
<1>3. ASSUME NEW j \in Jobs, Publish(j) PROVE NoTransientPublished'
  <2> DEFINE e == [report |-> job[j].report, status |-> job[j].prev, link |-> job[j].link]
  <2>1. chain' = Append(chain, e) /\ job[j].at = "publish" /\ job[j].report \in Reports
    BY <1>3 DEF Publish, Typed, Placed
  <2>2. e.report \notin Excused => e.status \notin Transient
    <3>1. Working(j, job[j].report) /\ PutBack(j) = job[j].prev
      BY <2>1 DEF Working, Live, Running, PutBack, Publishing
    <3> QED
      BY <2>1, <3>1 DEF OneOwner
  <2>3. Len(chain) \in Nat /\ Len(chain') = Len(chain) + 1
        /\ chain'[Len(chain) + 1] = e /\ \A n \in 1..Len(chain) : chain'[n] = chain[n]
    <3> HIDE DEF e
    <3>1. e \in [report : Reports, status : Statuses, link : Nat]
      BY <2>1 DEF e, Typed, TypeOK, Row
    <3> QED
      BY <2>1, <3>1 DEF Typed, TypeOK
  <2> HIDE DEF e
  <2>4. ASSUME NEW n \in 1..Len(chain') PROVE chain'[n].report \notin Excused' => chain'[n].status \notin Transient
    <3>1. n \in 1..Len(chain) \/ n = Len(chain) + 1
      BY <2>3
    <3>2. CASE n \in 1..Len(chain)
      BY <1>1, <2>3, <3>2 DEF NoTransientPublished
    <3>3. CASE n = Len(chain) + 1
      BY <1>1, <2>2, <2>3, <3>3
    <3> QED
      BY <3>1, <3>2, <3>3
  <2> QED
    BY <2>4 DEF NoTransientPublished
<1>4. chain' = chain \/ \E j \in Jobs : Publish(j)
  <2> USE DEF bounds, history
  <2>1. CASE UNCHANGED vars
    BY <2>1 DEF vars
  <2>2. CASE Users
    BY <2>2 DEF Users, ChangeStatus, UpdateBlockchainPublishDate, ChangePlaces, BeginPublish, BeginAnalysis
  <2>3. ASSUME NEW k \in Slots, OpStep(k) PROVE chain' = chain
    BY <2>3 DEF OpStep, ReadStatus, WriteStatus, MarkAnalyzing, ClearDate, CreateJob, ConcludeReport
  <2>4. ASSUME NEW j \in Jobs, JobStep(j) \/ Callback(j) PROVE chain' = chain \/ Publish(j)
    BY <2>4 DEF JobStep, Prepare, Record, Conclude, RunBatch, RequestDeforestationReport,
                HandleDeforestationCallBack, Callback
  <2>5. ASSUME NEW W \in SUBSET Crons, Strike(W) PROVE chain' = chain
    BY <2>5 DEF Strike
  <2>6. CASE Faults
    BY <2>6 DEF Faults, AnalysisError, CreateError, Abort, FailJob, LoseJob
  <2> QED
    BY <2>1, <2>2, <2>3, <2>4, <2>5, <2>6 DEF Next
<1> QED
  BY <1>2, <1>3, <1>4

\* The compliance status that a publication writes to the blockchain, which it
\* read before it announced itself, is never one of the transient statuses, for
\* every report whose publications and analyses do not overlap.
THEOREM TransientNeverPublished == Spec => []NoTransientPublished
<1> DEFINE IInv == /\ TypeOK /\ Placed /\ TransientExplained /\ OneOwner
                   /\ Publishing /\ NoTransientPublished
<1>1. Init => IInv
  <2>1. Init => Publishing /\ NoTransientPublished
    BY DEF Init, Publishing, NoJob, NoTransientPublished
  <2> QED
    BY <2>1, InitType, OwnerInit
<1>2. IInv /\ [Next]_vars => IInv'
  BY TypeStep, OwnerStep, PublishingStep, PublishedStep
<1>3. IInv => NoTransientPublished
  OBVIOUS
<1> QED
  BY <1>1, <1>2, <1>3, PTL DEF Spec

-----------------------------------------------------------------------------
(* The chain of transactions: the inductive invariants                       *)

\* Of a report whose publications and analyses never overlapped one request, run
\* or job at most is at work.  (OneOwner says more, of fewer reports.)
Alone(r) ==
    /\ \A i, j \in Jobs : Working(i, r) /\ Working(j, r) => i = j
    /\ \A k, l \in Slots : Starting(k, r) /\ Starting(l, r) => k = l
    /\ \A k \in Slots, j \in Jobs : ~(Starting(k, r) /\ Working(j, r))

AllAlone == \A r \in Reports \ doubled : Alone(r)

\* The rows of the transactions name positions of the blockchain.
Recorded == \A r \in Reports : \A n \in 1..Len(records[r]) : records[r][n] \in 1..Len(chain)

\* What a publication holds at each of its steps.
Carried(j) ==
    /\ job[j].at \in {"publish", "record", "batch"} => job[j].kind = "compliance"
    /\ job[j].at \in {"publish", "record"} => job[j].done = 0
    /\ job[j].at = "record" => job[j].hash \in 1..Len(chain) /\ chain[job[j].hash].report = job[j].report

\* The link it has read, and the one it has published, name the last row.
Followed(j) ==
    /\ job[j].at = "publish" => job[j].link = Last(records[job[j].report])
    /\ job[j].at = "record" => chain[job[j].hash].link = Last(records[job[j].report])

\* The hash it carries is the last row's, and so is that of the batches it has done.
Stamped(j) ==
    job[j].at = "batch" =>
        LET r == job[j].report IN
        job[j].hash = Last(records[r]) /\ \A b \in 1..job[j].done : cert[r][b] = job[j].hash

\* A publication of report r that has begun and will renew the requests' hash.
Renewing(j, r) ==
    /\ job[j].report = r /\ job[j].kind = "compliance"
    /\ \/ job[j].at \in {"publish", "record", "batch"}
       \/ job[j].at = "pending" /\ job[j].done > 0

Current(r) == \A b \in 1..Batches : cert[r][b] = Last(records[r])

\* The four together, for the reports each is about.
Chained ==
    /\ Recorded /\ \A j \in Jobs : Carried(j)
    /\ RecordsLinked /\ \A j \in Jobs : job[j].report \notin doubled => Followed(j)

Certified ==
    /\ \A j \in Jobs : job[j].report \notin doubled \cup failed => Stamped(j)
    /\ \A r \in Reports \ (doubled \cup failed) : Current(r) \/ \E j \in Jobs : Renewing(j, r)

\* A report whose date the last strike of the publish job found is still to be
\* dealt with by one of the runs it began.
Scheduled ==
    /\ \A k \in Crons : op[k].at # "mark"
    /\ \A r \in Reports : date[r] = "near" =>
          r \in missed \/ \E k \in Crons : op[k].at # "idle" /\ r \in op[k].todo
    /\ ScheduledIsTaken

-----------------------------------------------------------------------------
(* What a step does to the jobs and to what they write                       *)

Others(j) == \A i \in Jobs : i # j => job'[i] = job[i]

\* Nothing of it moves.
Still == UNCHANGED <<job, chain, records, cert>>

\* Row j is created.
Comes(j) ==
    /\ job[j].at = "absent" /\ job'[j].at = "pending" /\ job'[j].done = 0 /\ Others(j)
    /\ UNCHANGED <<chain, records, cert>>

\* Row j moves on or ends, without a publication, or by failing.
Leaves(j) ==
    /\ job'[j].at \notin {"publish", "record", "batch", "pending"} /\ Others(j)
    /\ job'[j].report = job[j].report
    /\ \/ job[j].report \in failed'
       \/ /\ job[j].at \notin {"publish", "record", "batch"}
          /\ job[j].at = "pending" => job[j].kind = "deforestation"
    /\ UNCHANGED <<chain, records, cert>>

LEMMA CreateJobComes ==
    ASSUME Typed, NEW k \in Slots, NEW j \in Jobs, CreateJob(k, j)
    PROVE  Comes(j) /\ job'[j].report = op[k].report /\ op[k].report \in Reports
<1> DEFINE x == [NoJob EXCEPT !.kind = "compliance", !.at = "pending",
                              !.report = op[k].report, !.prev = op[k].seen]
<1>1. op[k] \in Operation /\ op[k].report \in Reports
  BY DEF CreateJob, Typed, TypeOK, Placed
<1>2. x \in Row /\ x.at = "pending" /\ x.done = 0 /\ x.report = op[k].report
  BY <1>1, NoJobType DEF Row, NoJob, Live, Operation
<1>3. job[j].at = "absent" /\ Moves(j, x) /\ UNCHANGED <<chain, records, cert>>
  BY DEF CreateJob
<1> HIDE DEF x
<1>4. job'[j] = x /\ Others(j)
  BY <1>2, <1>3, MovesType DEF Typed, TypeOK, Others
<1> QED
  BY <1>1, <1>2, <1>3, <1>4 DEF Comes

LEMMA BeginAnalysisComes ==
    ASSUME Typed, NEW k \in Requests, NEW r \in Reports, NEW j \in Jobs, BeginAnalysis(k, r, j)
    PROVE  Comes(j) /\ job'[j].report = r
<1> DEFINE x == [NoJob EXCEPT !.kind = "deforestation", !.at = "pending", !.report = r]
<1>2. x \in Row /\ x.at = "pending" /\ x.done = 0 /\ x.report = r
  BY NoJobType DEF Row, NoJob, Live
<1>3. job[j].at = "absent" /\ Moves(j, x) /\ UNCHANGED <<chain, records, cert>>
  BY DEF BeginAnalysis
<1> HIDE DEF x
<1>4. job'[j] = x /\ Others(j)
  BY <1>2, <1>3, MovesType DEF Typed, TypeOK, Others
<1> QED
  BY <1>2, <1>3, <1>4 DEF Comes

\* The steps that end a publication, or are not part of one.
LEMMA JobLeavesRow ==
    ASSUME Typed, NEW j \in Jobs,
           \/ Conclude(j) \/ FailJob(j) \/ LoseJob(j) \/ Callback(j)
           \/ RequestDeforestationReport(j) \/ HandleDeforestationCallBack(j)
    PROVE  Leaves(j) /\ job'[j].kind = job[j].kind
<1>1. job[j] \in Row /\ job \in [Jobs -> Row]
  BY DEF Typed, TypeOK
<1> DEFINE Goes == /\ job'[j].at \notin {"publish", "record", "batch", "pending"} /\ Others(j)
                   /\ job'[j].report = job[j].report /\ job'[j].kind = job[j].kind
<1>2. CASE Conclude(j) \/ FailJob(j) \/ LoseJob(j) \/ Callback(j)
  <2>1. Goes
    BY <1>1, <1>2 DEF Conclude, FailJob, LoseJob, Callback, Moves, Row, Others
  <2> QED
    BY <1>2, <2>1 DEF Conclude, FailJob, LoseJob, Callback, Leaves
<1>3. CASE RequestDeforestationReport(j)
  <2>1. Goes
    BY <1>1, <1>3 DEF RequestDeforestationReport, Moves, Row, Others
  <2> QED
    BY <1>3, <2>1 DEF RequestDeforestationReport, Leaves
<1>4. CASE HandleDeforestationCallBack(j)
  <2>1. Goes
    BY <1>1, <1>4 DEF HandleDeforestationCallBack, Moves, Row, Others
  <2> QED
    BY <1>4, <2>1 DEF HandleDeforestationCallBack, Leaves
<1> QED
  BY <1>2, <1>3, <1>4

\* The five kinds of steps.
LEMMA WhatJobsDo ==
    ASSUME Typed, [Next]_vars
    PROVE  \/ Still
           \/ \E j \in Jobs : \/ Comes(j) \/ Leaves(j) \/ Prepare(j) \/ Publish(j) \/ Record(j)
                              \/ \E pausing \in BOOLEAN : RunBatch(j, pausing)
<1> USE DEF bounds, history
<1>1. CASE UNCHANGED vars
  BY <1>1 DEF vars, Still
<1>2. CASE Users
  <2>1. ASSUME NEW k \in Requests, NEW r \in Reports, NEW j \in Jobs, BeginAnalysis(k, r, j)
        PROVE  Comes(j)
    BY <2>1, BeginAnalysisComes
  <2> QED
    BY <1>2, <2>1 DEF Users, ChangeStatus, UpdateBlockchainPublishDate, ChangePlaces, BeginPublish, Still
<1>3. ASSUME NEW k \in Slots, OpStep(k) PROVE Still \/ \E j \in Jobs : Comes(j)
  <2>1. ASSUME NEW j \in Jobs, CreateJob(k, j) PROVE Comes(j)
    BY <2>1, CreateJobComes
  <2> QED
    BY <1>3, <2>1 DEF OpStep, ReadStatus, WriteStatus, MarkAnalyzing, ClearDate, ConcludeReport, Still
<1>4. ASSUME NEW j \in Jobs, JobStep(j) \/ Callback(j)
      PROVE  \/ Leaves(j) \/ Prepare(j) \/ Publish(j) \/ Record(j)
             \/ \E pausing \in BOOLEAN : RunBatch(j, pausing)
  BY <1>4, JobLeavesRow DEF JobStep
<1>5. ASSUME NEW W \in SUBSET Crons, Strike(W) PROVE Still
  BY <1>5 DEF Strike, Still
<1>6. CASE Faults
  <2>1. ASSUME NEW k \in Slots, CreateError(k) \/ Abort(k) PROVE Still
    BY <2>1 DEF CreateError, Abort, Still
  <2>2. ASSUME NEW k \in Requests, NEW r \in Reports, AnalysisError(k, r) PROVE Still
    BY <2>2 DEF AnalysisError, Still
  <2>3. ASSUME NEW j \in Jobs, FailJob(j) \/ LoseJob(j) PROVE Leaves(j)
    BY <2>3, JobLeavesRow
  <2> QED
    BY <1>6, <2>1, <2>2, <2>3 DEF Faults
<1> QED
  BY <1>1, <1>2, <1>3, <1>4, <1>5, <1>6 DEF Next

\* A report whose work overlapped, or whose job failed, stays one.
LEMMA HistoryGrows == ASSUME [Next]_vars PROVE doubled \subseteq doubled' /\ failed \subseteq failed'
<1> USE DEF history, bounds
<1> DEFINE Grows == doubled \subseteq doubled' /\ failed \subseteq failed'
<1>1. CASE UNCHANGED vars
  BY <1>1 DEF vars
<1>2. CASE Users
  BY <1>2 DEF Users, ChangeStatus, UpdateBlockchainPublishDate, ChangePlaces, BeginPublish, BeginAnalysis, Takes
<1>3. ASSUME NEW k \in Slots, OpStep(k) PROVE Grows
  BY <1>3 DEF OpStep, ReadStatus, WriteStatus, MarkAnalyzing, ClearDate, CreateJob, ConcludeReport, Takes
<1>4. ASSUME NEW j \in Jobs, JobStep(j) \/ Callback(j) PROVE Grows
  <2>1. CASE JobStep(j)
    BY <2>1 DEF JobStep, Prepare, Publish, Record, Conclude, RunBatch,
                RequestDeforestationReport, HandleDeforestationCallBack
  <2>2. CASE Callback(j)
    BY <2>2 DEF Callback, Takes
  <2> QED
    BY <1>4, <2>1, <2>2
<1>5. ASSUME NEW W \in SUBSET Crons, Strike(W) PROVE Grows
  BY <1>5 DEF Strike
<1>6. CASE Faults
  BY <1>6 DEF Faults, AnalysisError, CreateError, Abort, FailJob, LoseJob, Takes
<1> QED
  BY <1>1, <1>2, <1>3, <1>4, <1>5, <1>6 DEF Next

-----------------------------------------------------------------------------
(* The four steps of a publication                                           *)

LEMMA PrepareDoes ==
    ASSUME Typed, NEW j \in Jobs, Prepare(j)
    PROVE  /\ Others(j) /\ UNCHANGED <<chain, records, cert>>
           /\ job[j].kind = "compliance" /\ job[j].at = "pending" /\ job[j].report \in Reports
           /\ job'[j].kind = "compliance" /\ job'[j].report = job[j].report
           /\ \/ /\ job'[j].at = "publish" /\ job'[j].done = 0
                 /\ job'[j].link = Last(records[job[j].report])
              \/ /\ job'[j].at = "conclude" /\ (job[j].done > 0 => job[j].report \in failed')
<1>1. job[j] \in Row /\ job \in [Jobs -> Row]
  BY DEF Typed, TypeOK
<1>2. job[j].kind = "compliance" /\ job[j].at = "pending" /\ UNCHANGED <<chain, records, cert>>
  BY DEF Prepare, bounds
<1>3. job[j].report \in Reports
  BY <1>2 DEF Typed, Placed
<1>4. CASE /\ analyzed[job[j].report]
           /\ Moves(j, [job[j] EXCEPT !.at = "publish", !.done = 0, !.link = Last(records[job[j].report])])
  BY <1>1, <1>2, <1>3, <1>4 DEF Moves, Row, Others
<1>5. CASE ~analyzed[job[j].report] /\ Moves(j, [job[j] EXCEPT !.at = "conclude"])
  <2>1. /\ Others(j) /\ job'[j].kind = "compliance" /\ job'[j].report = job[j].report
        /\ job'[j].at = "conclude"
    BY <1>1, <1>2, <1>5 DEF Moves, Row, Others
  <2>2. job[j].done > 0 => job[j].report \in failed'
    BY <1>5 DEF Prepare
  <2> QED
    BY <1>2, <1>3, <2>1, <2>2
<1> QED
  BY <1>4, <1>5 DEF Prepare

LEMMA PublishDoes ==
    ASSUME Typed, NEW j \in Jobs, Publish(j)
    PROVE  /\ Others(j) /\ UNCHANGED <<records, cert>>
           /\ job[j].at = "publish" /\ job[j].report \in Reports
           /\ job'[j].at = "record" /\ job'[j].report = job[j].report /\ job'[j].kind = job[j].kind
           /\ job'[j].done = job[j].done /\ job'[j].hash = Len(chain) + 1
           /\ Len(chain) \in Nat /\ Len(chain') = Len(chain) + 1
           /\ \A n \in 1..Len(chain) : chain'[n] = chain[n]
           /\ chain'[Len(chain) + 1].report = job[j].report /\ chain'[Len(chain) + 1].link = job[j].link
<1> DEFINE e == [report |-> job[j].report, status |-> job[j].prev, link |-> job[j].link]
<1>1. job[j] \in Row /\ job \in [Jobs -> Row] /\ chain \in Seq([report : Reports, status : Statuses, link : Nat])
  BY DEF Typed, TypeOK
<1>2. job[j].at = "publish" /\ UNCHANGED <<records, cert>> /\ chain' = Append(chain, e)
  BY DEF Publish
<1>3. job[j].report \in Reports
  BY <1>2 DEF Typed, Placed
<1>4. e \in [report : Reports, status : Statuses, link : Nat]
      /\ e.report = job[j].report /\ e.link = job[j].link
  BY <1>1, <1>3 DEF Row
<1> HIDE DEF e
<1>5. /\ Len(chain) \in Nat /\ Len(chain') = Len(chain) + 1
      /\ chain'[Len(chain) + 1] = e /\ \A n \in 1..Len(chain) : chain'[n] = chain[n]
  BY <1>1, <1>2, <1>4
<1>6. Moves(j, [job[j] EXCEPT !.at = "record", !.hash = Len(chain) + 1])
  BY DEF Publish
<1>7. /\ Others(j) /\ job'[j].at = "record" /\ job'[j].report = job[j].report
      /\ job'[j].kind = job[j].kind /\ job'[j].done = job[j].done /\ job'[j].hash = Len(chain) + 1
  BY <1>1, <1>6 DEF Moves, Row, Others
<1> QED
  BY <1>2, <1>3, <1>4, <1>5, <1>7

LEMMA RecordDoes ==
    ASSUME Typed, NEW j \in Jobs, Record(j)
    PROVE  /\ Others(j) /\ UNCHANGED <<chain, cert>>
           /\ job[j].at = "record" /\ job[j].report \in Reports
           /\ job'[j].at = "batch" /\ job'[j].report = job[j].report /\ job'[j].kind = job[j].kind
           /\ job'[j].done = job[j].done /\ job'[j].hash = job[j].hash
           /\ \A q \in Reports : q # job[j].report => records'[q] = records[q]
           /\ LET old == records[job[j].report]
                  new == records'[job[j].report] IN
              /\ Len(old) \in Nat /\ Len(new) = Len(old) + 1
              /\ new[Len(new)] = job[j].hash /\ \A n \in 1..Len(old) : new[n] = old[n]
              /\ Last(new) = job[j].hash
<1> DEFINE r == job[j].report
<1>1. job[j] \in Row /\ job \in [Jobs -> Row] /\ records \in [Reports -> Seq(Nat)]
  BY DEF Typed, TypeOK
<1>2. job[j].at = "record" /\ UNCHANGED <<chain, cert>>
  BY DEF Record
<1>3. r \in Reports
  BY <1>2 DEF Typed, Placed
<1>4. Moves(j, [job[j] EXCEPT !.at = "batch"])
  BY DEF Record
<1>5. /\ Others(j) /\ job'[j].at = "batch" /\ job'[j].report = job[j].report
      /\ job'[j].kind = job[j].kind /\ job'[j].done = job[j].done /\ job'[j].hash = job[j].hash
  BY <1>1, <1>4 DEF Moves, Row, Others
<1>6. records'[r] = Append(records[r], job[j].hash) /\ \A q \in Reports : q # r => records'[q] = records[q]
  BY <1>1, <1>3 DEF Record
<1>7. records[r] \in Seq(Nat) /\ job[j].hash \in Nat
  BY <1>1, <1>3 DEF Row
<1>8. /\ Len(records[r]) \in Nat /\ Len(records'[r]) = Len(records[r]) + 1
      /\ records'[r][Len(records'[r])] = job[j].hash
      /\ \A n \in 1..Len(records[r]) : records'[r][n] = records[r][n]
  BY <1>6, <1>7
<1>9. records'[r] # <<>>
  BY <1>6, <1>7
<1>10. Last(records'[r]) = job[j].hash
  BY <1>8, <1>9 DEF Last
<1> QED
  BY <1>2, <1>3, <1>5, <1>6, <1>8, <1>10

LEMMA RunBatchDoes ==
    ASSUME Typed, NEW j \in Jobs, NEW pausing \in BOOLEAN, RunBatch(j, pausing)
    PROVE  /\ Others(j) /\ UNCHANGED <<chain, records, failed, doubled>>
           /\ job[j].at = "batch" /\ job[j].report \in Reports /\ job[j].done \in Nat /\ job[j].done < Batches
           /\ job'[j].report = job[j].report /\ job'[j].kind = job[j].kind /\ job'[j].hash = job[j].hash
           /\ job'[j].done = job[j].done + 1
           /\ \/ job'[j].at \in {"batch", "pending"}
              \/ job'[j].at = "conclude" /\ job'[j].done = Batches
           /\ \A q \in Reports : q # job[j].report => cert'[q] = cert[q]
           /\ \A b \in 1..Batches : cert'[job[j].report][b] =
                  IF b = job[j].done + 1 THEN job[j].hash ELSE cert[job[j].report][b]
<1> DEFINE r == job[j].report
           last == job[j].done + 1 = Batches
           a == IF last THEN "conclude" ELSE IF pausing THEN "pending" ELSE "batch"
<1>1. job[j] \in Row /\ job \in [Jobs -> Row] /\ cert \in [Reports -> [1..Batches -> Nat]]
  BY DEF Typed, TypeOK
<1>2. job[j].at = "batch" /\ UNCHANGED <<chain, records, failed, doubled>>
  BY DEF RunBatch, history
<1>3. r \in Reports /\ job[j].done < Batches
  BY <1>2 DEF Typed, Placed
<1>4. job[j].done \in Nat /\ Batches \in Nat
  BY <1>1, ConstantsAssumption DEF Row
<1>5. Moves(j, [job[j] EXCEPT !.done = @ + 1, !.at = a])
  BY DEF RunBatch
<1>6. a \in {"batch", "pending"} \/ (a = "conclude" /\ last)
  OBVIOUS
<1>7. /\ Others(j) /\ job'[j].report = job[j].report /\ job'[j].at = a
      /\ job'[j].kind = job[j].kind /\ job'[j].done = job[j].done + 1 /\ job'[j].hash = job[j].hash
  <2> HIDE DEF a
  <2> QED
    BY <1>1, <1>5 DEF Moves, Row, Others
<1>8. cert' = [cert EXCEPT ![r][job[j].done + 1] = job[j].hash]
  BY DEF RunBatch
<1>9. /\ \A q \in Reports : q # r => cert'[q] = cert[q]
      /\ \A b \in 1..Batches : cert'[r][b] = IF b = job[j].done + 1 THEN job[j].hash ELSE cert[r][b]
  <2> HIDE DEF r
  <2> QED
    BY <1>1, <1>3, <1>8
<1> QED
  BY <1>2, <1>3, <1>4, <1>6, <1>7, <1>9

-----------------------------------------------------------------------------
(* One at a time                                                             *)

\* A step that makes nobody start or work on r.
LEMMA AloneStays ==
    ASSUME NEW r \in Reports, Alone(r),
           \A l \in Slots : Starting(l, r)' => Starting(l, r),
           \A i \in Jobs : Working(i, r)' => Working(i, r)
    PROVE  Alone(r)'
BY DEF Alone

\* An operation that goes on, or ends, while the jobs stay.
LEMMA OpAlone ==
    ASSUME Typed, NEW r \in Reports, Alone(r), NEW k \in Slots, NEW o \in Operation,
           Advance(k, o), UNCHANGED job, o.report = r /\ o.at \in {"write", "create"} => Starting(k, r)
    PROVE  Alone(r)'
<1>1. op'[k] = o /\ \A l \in Slots : l # k => op'[l] = op[l]
  BY AdvanceType DEF Typed, TypeOK
<1>2. \A l \in Slots : Starting(l, r)' => Starting(l, r)
  BY <1>1 DEF Starting
<1>3. \A i \in Jobs : Working(i, r)' => Working(i, r)
  BY DEF Working
<1> QED
  BY <1>2, <1>3, AloneStays

LEMMA UsersAlone ==
    ASSUME Typed, NEW r \in Reports, Alone(r), r \notin doubled',
           Users \/ \E k \in Requests, q \in Reports : AnalysisError(k, q)
    PROVE  Alone(r)'
<1> USE DEF bounds, history
<1>1. ASSUME UNCHANGED <<op, job>> PROVE Alone(r)'
  BY <1>1 DEF Alone, Starting, Working
<1>2. ASSUME NEW k \in Requests, NEW q \in Reports, BeginPublish(k, q) PROVE Alone(r)'
  <2> DEFINE o == [NoOp EXCEPT !.at = "read", !.report = q]
  <2>1. o \in Operation /\ o.at = "read" /\ k \in Slots
    BY NoOpType DEF Operation, NoOp, Slots
  <2>2. Advance(k, o) /\ UNCHANGED job
    BY <1>2 DEF BeginPublish
  <2> HIDE DEF o
  <2> QED
    BY <2>1, <2>2, OpAlone
<1>3. ASSUME NEW k \in Requests, NEW q \in Reports, AnalysisError(k, q) PROVE Alone(r)'
  <2> DEFINE o == [NoOp EXCEPT !.at = "mark", !.report = q]
  <2>1. o \in Operation /\ o.at = "mark" /\ k \in Slots
    BY NoOpType DEF Operation, NoOp, Slots
  <2>2. Advance(k, o) /\ UNCHANGED job
    BY <1>3 DEF AnalysisError
  <2> HIDE DEF o
  <2> QED
    BY <2>1, <2>2, OpAlone
<1>4. ASSUME NEW k \in Requests, NEW q \in Reports, NEW j \in Jobs, BeginAnalysis(k, q, j)
      PROVE  Alone(r)'
  <2> DEFINE o == [NoOp EXCEPT !.at = "mark", !.report = q]
  <2>1. o \in Operation /\ o.at = "mark" /\ k \in Slots
    BY NoOpType DEF Operation, NoOp, Slots
  <2>2. Advance(k, o) /\ Takes(q)
    BY <1>4 DEF BeginAnalysis
  <2> HIDE DEF o
  <2>3. op'[k] = o /\ \A l \in Slots : l # k => op'[l] = op[l]
    BY <2>1, <2>2, AdvanceType DEF Typed, TypeOK
  <2>4. \A l \in Slots : Starting(l, r)' => Starting(l, r)
    BY <2>1, <2>3 DEF Starting
  <2>5. Others(j) /\ job'[j].report = q
    BY <1>4, BeginAnalysisComes DEF Comes
  <2>6. CASE q # r
    <3>1. \A i \in Jobs : Working(i, r)' => Working(i, r)
      BY <2>5, <2>6 DEF Working, Others
    <3> QED
      BY <2>4, <3>1, AloneStays
  <2>7. CASE q = r
    <3>1. ~Owned(r)
      BY <2>2, <2>7 DEF Takes
    <3>2. \A l \in Slots : ~Starting(l, r)'
      BY <2>4, <3>1 DEF Owned
    <3>3. \A i \in Jobs : Working(i, r)' => i = j
      BY <2>5, <3>1 DEF Owned, Working, Others
    <3> QED
      BY <3>2, <3>3 DEF Alone
  <2> QED
    BY <2>6, <2>7
<1> QED
  BY <1>1, <1>2, <1>3, <1>4 DEF Users, ChangeStatus, UpdateBlockchainPublishDate, ChangePlaces

LEMMA OpStepAlone ==
    ASSUME Typed, NEW r \in Reports, Alone(r), r \notin doubled',
           NEW k \in Slots, OpStep(k) \/ CreateError(k) \/ Abort(k)
    PROVE  Alone(r)'
<1> USE DEF bounds, history
<1>0. op[k] \in Operation /\ op \in [Slots -> Operation]
  BY DEF Typed, TypeOK
<1>1. ASSUME NEW o \in Operation, o.at \notin {"write", "create"}, Advance(k, o), UNCHANGED job
      PROVE  Alone(r)'
  BY <1>1, OpAlone
<1>a. NoOp \in Operation /\ NoOp.at = "idle"
  BY NoOpType DEF NoOp
<1>b. Started(k) \in Operation /\ Started(k).at \in {"idle", "clear"}
  BY <1>0, StartedType
<1>2. ASSUME ReadStatus(k) PROVE Alone(r)'
  <2> DEFINE o == [op[k] EXCEPT !.at = "write", !.seen = status[op[k].report]]
  <2>1. op[k].report \in Reports /\ Takes(op[k].report) /\ UNCHANGED job /\ Advance(k, o)
    BY <1>2 DEF ReadStatus, Typed, Placed
  <2>2. o \in Operation /\ o.report = op[k].report
    BY <1>0, <2>1 DEF Operation, Typed, TypeOK
  <2> HIDE DEF o
  <2>3. CASE op[k].report # r
    BY <2>1, <2>2, <2>3, OpAlone
  <2>4. CASE op[k].report = r
    <3>1. ~Owned(r)
      BY <2>1, <2>4 DEF Takes
    <3>2. op'[k] = o /\ \A l \in Slots : l # k => op'[l] = op[l]
      BY <2>1, <2>2, AdvanceType DEF Typed, TypeOK
    <3>3. \A l \in Slots : Starting(l, r)' => l = k
      BY <3>1, <3>2 DEF Owned, Starting
    <3>4. \A i \in Jobs : ~Working(i, r)'
      BY <2>1, <3>1 DEF Owned, Working
    <3> QED
      BY <3>3, <3>4 DEF Alone
  <2> QED
    BY <2>3, <2>4
<1>3. ASSUME WriteStatus(k) PROVE Alone(r)'
  <2> DEFINE o == [op[k] EXCEPT !.at = "create"]
  <2>1. o \in Operation /\ o.report = op[k].report /\ op[k].at = "write" /\ UNCHANGED job
    BY <1>0, <1>3 DEF Operation, WriteStatus
  <2>2. Advance(k, o) \/ Advance(k, Started(k))
    BY <1>3 DEF WriteStatus
  <2> HIDE DEF o
  <2>3. CASE Advance(k, o)
    BY <2>1, <2>3, OpAlone DEF Starting
  <2> QED
    BY <1>1, <1>b, <2>1, <2>2, <2>3
<1>4. ASSUME MarkAnalyzing(k) \/ Abort(k) \/ CreateError(k) PROVE Alone(r)'
  BY <1>1, <1>4, <1>a, <1>b DEF MarkAnalyzing, Abort, CreateError
<1>5. ASSUME ClearDate(k) PROVE Alone(r)'
  <2> DEFINE rest == op[k].todo \ {op[k].report}
             o == IF rest = {} THEN NoOp
                  ELSE [op[k] EXCEPT !.at = "next", !.todo = rest, !.report = "none"]
  <2>1. Advance(k, o) /\ UNCHANGED job
    BY <1>5 DEF ClearDate
  <2>2. rest \in SUBSET Reports
    BY <1>0 DEF Operation
  <2>3. \A t \in SUBSET Reports :
           LET p == [op[k] EXCEPT !.at = "next", !.todo = t, !.report = "none"] IN
           p \in Operation /\ p.at = "next"
    BY <1>0 DEF Operation
  <2> HIDE DEF rest
  <2>4. o \in Operation /\ o.at \notin {"write", "create"}
    BY <1>a, <2>2, <2>3
  <2> HIDE DEF o
  <2> QED
    BY <1>1, <2>1, <2>4
<1>6. ASSUME NEW q \in Reports, ConcludeReport(k, q) PROVE Alone(r)'
  <2> DEFINE o == [op[k] EXCEPT !.at = "read", !.report = q]
  <2>1. Advance(k, o) /\ UNCHANGED job
    BY <1>6 DEF ConcludeReport
  <2>2. o \in Operation /\ o.at = "read"
    BY <1>0 DEF Operation
  <2> HIDE DEF o
  <2> QED
    BY <1>1, <2>1, <2>2
<1>7. ASSUME NEW j \in Jobs, CreateJob(k, j) PROVE Alone(r)'
  <2>1. Others(j) /\ job'[j].report = op[k].report
    BY <1>7, CreateJobComes DEF Comes
  <2>2. op'[k] = Started(k) /\ \A l \in Slots : l # k => op'[l] = op[l]
    BY <1>7, <1>b, AdvanceType DEF CreateJob, Typed, TypeOK
  <2>3. \A l \in Slots : Starting(l, r)' => Starting(l, r) /\ l # k
    BY <1>b, <2>2 DEF Starting
  <2>4. CASE op[k].report # r
    <3>1. \A i \in Jobs : Working(i, r)' => Working(i, r)
      BY <2>1, <2>4 DEF Working, Others
    <3> QED
      BY <2>3, <3>1, AloneStays
  <2>5. CASE op[k].report = r
    <3>1. Starting(k, r)
      BY <1>7, <2>5 DEF CreateJob, Starting
    <3>2. \A l \in Slots : ~Starting(l, r)'
      BY <2>3, <3>1 DEF Alone
    <3>3. \A i \in Jobs : Working(i, r)' => i = j
      BY <2>1, <3>1 DEF Alone, Working, Others
    <3> QED
      BY <3>2, <3>3 DEF Alone
  <2> QED
    BY <2>4, <2>5
<1> QED
  BY <1>2, <1>3, <1>4, <1>5, <1>6, <1>7 DEF OpStep

LEMMA JobStepAlone ==
    ASSUME Typed, NEW r \in Reports, Alone(r), r \notin doubled',
           NEW j \in Jobs, JobStep(j) \/ Callback(j) \/ FailJob(j) \/ LoseJob(j)
    PROVE  Alone(r)'
<1> USE DEF bounds, history
<1>0. op' = op
  BY DEF JobStep, Prepare, Publish, Record, Conclude, RunBatch, RequestDeforestationReport,
         HandleDeforestationCallBack, Callback, FailJob, LoseJob
<1>1. \A l \in Slots : Starting(l, r)' => Starting(l, r)
  BY <1>0 DEF Starting
<1>2. Others(j) /\ job'[j].report = job[j].report
  BY PrepareDoes, PublishDoes, RecordDoes, RunBatchDoes, JobLeavesRow DEF JobStep, Leaves
<1>3. CASE job[j].at \in Live
  <2>1. \A i \in Jobs : Working(i, r)' => Working(i, r)
    BY <1>2, <1>3 DEF Working, Others
  <2> QED
    BY <1>1, <2>1, AloneStays
<1>4. CASE job[j].at \notin Live
  <2>1. Callback(j) /\ job[j].at # "hold"
    BY <1>4 DEF JobStep, Prepare, Publish, Record, Conclude, RunBatch, RequestDeforestationReport,
                HandleDeforestationCallBack, FailJob, LoseJob, Live, Running
  <2>2. Takes(job[j].report)
    BY <2>1 DEF Callback
  <2>3. CASE job[j].report # r
    <3>1. \A i \in Jobs : Working(i, r)' => Working(i, r)
      BY <1>2, <2>3 DEF Working, Others
    <3> QED
      BY <1>1, <3>1, AloneStays
  <2>4. CASE job[j].report = r
    <3>1. ~Owned(r)
      BY <2>2, <2>4 DEF Takes
    <3>2. \A l \in Slots : ~Starting(l, r)'
      BY <1>1, <3>1 DEF Owned
    <3>3. \A i \in Jobs : Working(i, r)' => i = j
      BY <1>2, <3>1 DEF Owned, Working, Others
    <3> QED
      BY <3>2, <3>3 DEF Alone
  <2> QED
    BY <2>3, <2>4
<1> QED
  BY <1>3, <1>4

LEMMA AloneStep == Typed /\ AllAlone /\ [Next]_vars => AllAlone'
<1> SUFFICES ASSUME Typed, AllAlone, [Next]_vars, NEW r \in Reports, r \notin doubled'
             PROVE  Alone(r)'
  BY DEF AllAlone
<1>0. Alone(r)
  BY HistoryGrows DEF AllAlone
<1>1. CASE UNCHANGED vars
  BY <1>0, <1>1, AloneStays DEF vars, Starting, Working
<1>2. CASE Users
  BY <1>0, <1>2, UsersAlone
<1>3. ASSUME NEW k \in Slots, OpStep(k) PROVE Alone(r)'
  BY <1>0, <1>3, OpStepAlone
<1>4. ASSUME NEW j \in Jobs, JobStep(j) \/ Callback(j) PROVE Alone(r)'
  BY <1>0, <1>4, JobStepAlone
<1>5. ASSUME NEW W \in SUBSET Crons, Strike(W) PROVE Alone(r)'
  <2>1. PICK F \in SUBSET Reports :
           op' = [k \in Slots |-> IF k \in W /\ F # {}
                     THEN [NoOp EXCEPT !.at = "next", !.todo = F, !.rows = Loaded(F)]
                     ELSE op[k]]
    BY <1>5 DEF Strike
  <2>2. \A k \in Slots : op'[k] = op[k] \/ op'[k].at = "next"
    BY <2>1 DEF NoOp
  <2>3. job' = job
    BY <1>5 DEF Strike
  <2> QED
    BY <1>0, <2>2, <2>3, AloneStays DEF Starting, Working
<1>6. CASE Faults
  BY <1>0, <1>6, UsersAlone, OpStepAlone, JobStepAlone DEF Faults
<1> QED
  BY <1>1, <1>2, <1>3, <1>4, <1>5, <1>6 DEF Next

-----------------------------------------------------------------------------
(* The records tell the chain                                                *)

\* Of two publications of a report whose work did not overlap there is one.
LEMMA OneWorks ==
    ASSUME AllAlone, NEW i \in Jobs, NEW j \in Jobs, job[i].at \in Running, job[j].at \in Running,
           job[i].report = job[j].report, job[j].report \in Reports \ doubled
    PROVE  i = j
<1>1. Working(i, job[j].report) /\ Working(j, job[j].report) /\ Alone(job[j].report)
  BY DEF AllAlone, Working, Live
<1> QED
  BY <1>1 DEF Alone

LEMMA RecordedStep == Typed /\ Recorded /\ (\A j \in Jobs : Carried(j)) /\ [Next]_vars
                         => Recorded' /\ \A j \in Jobs : Carried(j)'
<1> SUFFICES ASSUME Typed, Recorded, \A j \in Jobs : Carried(j), [Next]_vars
             PROVE  Recorded' /\ \A j \in Jobs : Carried(j)'
  OBVIOUS
<1>1. CASE Still
  BY <1>1 DEF Still, Recorded, Carried
<1>2. ASSUME NEW j \in Jobs, Comes(j) \/ Leaves(j) PROVE Recorded' /\ \A i \in Jobs : Carried(i)'
  BY <1>2 DEF Comes, Leaves, Others, Recorded, Carried
<1>3. ASSUME NEW j \in Jobs, Prepare(j) PROVE Recorded' /\ \A i \in Jobs : Carried(i)'
  <2>1. Recorded'
    BY <1>3, PrepareDoes DEF Recorded
  <2>2. Carried(j)'
    BY <1>3, PrepareDoes DEF Carried
  <2>3. \A i \in Jobs : i # j => Carried(i)'
    BY <1>3, PrepareDoes DEF Carried, Others
  <2> QED
    BY <2>1, <2>2, <2>3
<1>4. ASSUME NEW j \in Jobs, Publish(j) PROVE Recorded' /\ \A i \in Jobs : Carried(i)'
  <2>1. Len(chain) \in Nat /\ Len(chain') = Len(chain) + 1 /\ records' = records
    BY <1>4, PublishDoes
  <2>2. Recorded'
    BY <2>1 DEF Recorded
  <2>3. Carried(j)'
    BY <1>4, PublishDoes DEF Carried
  <2>4. ASSUME NEW i \in Jobs, i # j PROVE Carried(i)'
    <3>1. job'[i] = job[i] /\ Carried(i)
      BY <1>4, <2>4, PublishDoes DEF Others
    <3>2. \A n \in 1..Len(chain) : chain'[n] = chain[n] /\ n \in 1..Len(chain')
      BY <1>4, <2>1, PublishDoes
    <3> QED
      BY <3>1, <3>2 DEF Carried
  <2> QED
    BY <2>2, <2>3, <2>4
<1>5. ASSUME NEW j \in Jobs, Record(j) PROVE Recorded' /\ \A i \in Jobs : Carried(i)'
  <2> DEFINE r == job[j].report
  <2>1. chain' = chain /\ job[j].hash \in 1..Len(chain) /\ r \in Reports
    BY <1>5, RecordDoes DEF Carried
  <2>2. \A q \in Reports : q # r => records'[q] = records[q]
    BY <1>5, RecordDoes
  <2>3. /\ Len(records[r]) \in Nat /\ Len(records'[r]) = Len(records[r]) + 1
        /\ records'[r][Len(records'[r])] = job[j].hash
        /\ \A n \in 1..Len(records[r]) : records'[r][n] = records[r][n]
    BY <1>5, RecordDoes
  <2>4. ASSUME NEW q \in Reports, NEW n \in 1..Len(records'[q]) PROVE records'[q][n] \in 1..Len(chain)
    <3>1. CASE q # r
      BY <2>2, <2>4, <3>1 DEF Recorded
    <3>2. CASE q = r
      <4> HIDE DEF r
      <4>1. n \in 1..Len(records[r]) \/ n = Len(records'[r])
        BY <2>3, <2>4, <3>2
      <4> QED
        BY <2>1, <2>3, <3>2, <4>1 DEF Recorded
    <3> QED
      BY <3>1, <3>2
  <2>5. Recorded'
    BY <2>1, <2>4 DEF Recorded
  <2>6. Carried(j)'
    BY <1>5, RecordDoes DEF Carried
  <2>7. \A i \in Jobs : i # j => Carried(i)'
    BY <1>5, RecordDoes DEF Carried, Others
  <2> QED
    BY <2>5, <2>6, <2>7
<1>6. ASSUME NEW j \in Jobs, NEW pausing \in BOOLEAN, RunBatch(j, pausing)
      PROVE  Recorded' /\ \A i \in Jobs : Carried(i)'
  <2>1. Recorded'
    BY <1>6, RunBatchDoes DEF Recorded
  <2>2. Carried(j)'
    BY <1>6, RunBatchDoes DEF Carried
  <2>3. \A i \in Jobs : i # j => Carried(i)'
    BY <1>6, RunBatchDoes DEF Carried, Others
  <2> QED
    BY <2>1, <2>2, <2>3
<1> QED
  BY <1>1, <1>2, <1>3, <1>4, <1>5, <1>6, WhatJobsDo

\* The rows of one report.
LinkedRows(r) ==
    \A n \in 1..Len(records[r]) :
        chain[records[r][n]].link = IF n = 1 THEN 0 ELSE records[r][n - 1]

LEMMA LinkedStep == Typed /\ AllAlone /\ Chained /\ [Next]_vars => Chained'
<1> SUFFICES ASSUME Typed, AllAlone, Chained, [Next]_vars PROVE Chained'
  OBVIOUS
<1>0. Recorded' /\ \A j \in Jobs : Carried(j)'
  BY RecordedStep DEF Chained
<1> DEFINE Links == /\ \A r \in Reports \ doubled' : LinkedRows(r)'
                    /\ \A i \in Jobs : job'[i].report \notin doubled' => Followed(i)'
<1>a. /\ \A r \in Reports \ doubled' : LinkedRows(r)
      /\ \A i \in Jobs : job[i].report \notin doubled' => Followed(i)
      /\ \A j \in Jobs : Carried(j)
      /\ \A r \in Reports : \A n \in 1..Len(records[r]) : records[r][n] \in 1..Len(chain)
  BY HistoryGrows DEF Chained, RecordsLinked, LinkedRows, Recorded
<1>1. ASSUME Still PROVE Links
  BY <1>a, <1>1 DEF Still, Followed, LinkedRows
<1>2. ASSUME NEW j \in Jobs, Comes(j) \/ Leaves(j) PROVE Links
  <2>1. \A r \in Reports \ doubled' : LinkedRows(r)'
    BY <1>a, <1>2 DEF Comes, Leaves, LinkedRows
  <2>2. \A i \in Jobs : job'[i].report \notin doubled' => Followed(i)'
    BY <1>a, <1>2 DEF Comes, Leaves, Others, Followed
  <2> QED
    BY <2>1, <2>2
<1>3. ASSUME NEW j \in Jobs, Prepare(j) PROVE Links
  <2>1. \A r \in Reports \ doubled' : LinkedRows(r)'
    BY <1>a, <1>3, PrepareDoes DEF LinkedRows
  <2>2. Followed(j)'
    BY <1>3, PrepareDoes DEF Followed
  <2>3. \A i \in Jobs : i # j /\ job'[i].report \notin doubled' => Followed(i)'
    BY <1>a, <1>3, PrepareDoes DEF Followed, Others
  <2> QED
    BY <2>1, <2>2, <2>3
<1>4. ASSUME NEW j \in Jobs, Publish(j) PROVE Links
  <2>1. /\ Len(chain) \in Nat /\ records' = records /\ Others(j)
        /\ \A n \in 1..Len(chain) : chain'[n] = chain[n]
        /\ chain'[Len(chain) + 1].link = job[j].link
        /\ job[j].at = "publish" /\ job'[j].at = "record" /\ job'[j].hash = Len(chain) + 1
        /\ job'[j].report = job[j].report
    BY <1>4, PublishDoes
  <2>2. \A r \in Reports \ doubled' : LinkedRows(r)'
    BY <1>a, <2>1 DEF LinkedRows
  <2>3. job[j].report \notin doubled' => Followed(j)'
    BY <1>a, <2>1 DEF Followed
  <2>4. ASSUME NEW i \in Jobs, i # j, job'[i].report \notin doubled' PROVE Followed(i)'
    <3>1. job'[i] = job[i] /\ Followed(i) /\ Carried(i)
      BY <1>a, <2>1, <2>4 DEF Others
    <3> QED
      BY <2>1, <3>1 DEF Followed, Carried
  <2> QED
    BY <2>1, <2>2, <2>3, <2>4
<1>5. ASSUME NEW j \in Jobs, Record(j) PROVE Links
  <2> DEFINE r == job[j].report
  <2>1. /\ chain' = chain /\ Others(j) /\ r \in Reports /\ job[j].at = "record"
        /\ job'[j].at = "batch" /\ job'[j].report = r
        /\ \A q \in Reports : q # r => records'[q] = records[q]
    BY <1>5, RecordDoes
  <2>2. /\ Len(records[r]) \in Nat /\ Len(records'[r]) = Len(records[r]) + 1
        /\ records'[r][Len(records'[r])] = job[j].hash
        /\ \A n \in 1..Len(records[r]) : records'[r][n] = records[r][n]
    BY <1>5, RecordDoes
  <2>3. ASSUME NEW q \in Reports \ doubled' PROVE LinkedRows(q)'
    <3>1. CASE q # r
      BY <1>a, <2>1, <3>1 DEF LinkedRows
    <3>2. CASE q = r
      <4>1. chain[job[j].hash].link = Last(records[r])
        BY <1>a, <2>1, <3>2 DEF Followed
      <4>2. Last(records[r]) = IF Len(records[r]) = 0 THEN 0 ELSE records[r][Len(records[r])]
        BY <2>1 DEF Last, Typed, TypeOK
      <4> HIDE DEF r
      <4>3. ASSUME NEW n \in 1..Len(records'[r])
            PROVE  chain[records'[r][n]].link = IF n = 1 THEN 0 ELSE records'[r][n - 1]
        <5>1. CASE n \in 1..Len(records[r])
          <6>1. n # 1 => n - 1 \in 1..Len(records[r])
            BY <2>2, <5>1
          <6>2. LinkedRows(r)
            BY <1>a, <3>2
          <6> QED
            BY <2>2, <5>1, <6>1, <6>2 DEF LinkedRows
        <5>2. CASE n = Len(records'[r]) /\ n \notin 1..Len(records[r])
          <6>1. n = Len(records[r]) + 1 /\ (n # 1 => n - 1 = Len(records[r]) /\ n - 1 \in 1..Len(records[r]))
            BY <2>2, <5>2
          <6>2. records'[r][n] = job[j].hash
            BY <2>2, <5>2
          <6>3. n = 1 <=> Len(records[r]) = 0
            BY <2>2, <6>1
          <6>4. n # 1 => records'[r][n - 1] = records[r][Len(records[r])]
            BY <2>2, <6>1
          <6> QED
            BY <4>1, <4>2, <6>2, <6>3, <6>4
        <5> QED
          BY <2>2, <4>3, <5>1, <5>2
      <4> QED
        BY <2>1, <3>2, <4>3 DEF LinkedRows
    <3> QED
      BY <3>1, <3>2
  <2>4. Followed(j)'
    BY <2>1 DEF Followed
  <2>5. ASSUME NEW i \in Jobs, i # j, job'[i].report \notin doubled' PROVE Followed(i)'
    <3>1. job'[i] = job[i] /\ Followed(i)
      BY <1>a, <2>1, <2>5 DEF Others
    <3>2. CASE job[i].at \notin {"publish", "record"}
      BY <3>1, <3>2 DEF Followed
    <3>3. CASE job[i].at \in {"publish", "record"}
      <4>1. job[i].report \in Reports /\ job[i].report \notin doubled
        BY <2>5, <3>1, <3>3, HistoryGrows DEF Typed, Placed
      <4>2. job[i].report # r
        BY <2>1, <2>5, <3>3, <4>1, OneWorks DEF Running
      <4>3. records'[job[i].report] = records[job[i].report]
        BY <2>1, <4>1, <4>2
      <4> QED
        BY <2>1, <3>1, <4>3 DEF Followed
    <3> QED
      BY <3>2, <3>3
  <2> QED
    BY <2>3, <2>4, <2>5
<1>6. ASSUME NEW j \in Jobs, NEW pausing \in BOOLEAN, RunBatch(j, pausing) PROVE Links
  <2>1. \A r \in Reports \ doubled' : LinkedRows(r)'
    BY <1>a, <1>6, RunBatchDoes DEF LinkedRows
  <2>2. Followed(j)'
    BY <1>6, RunBatchDoes DEF Followed
  <2>3. \A i \in Jobs : i # j /\ job'[i].report \notin doubled' => Followed(i)'
    BY <1>a, <1>6, RunBatchDoes DEF Followed, Others
  <2> QED
    BY <2>1, <2>2, <2>3
<1>7. Links
  BY <1>1, <1>2, <1>3, <1>4, <1>5, <1>6, WhatJobsDo
<1> QED
  BY <1>0, <1>7 DEF Chained, RecordsLinked, LinkedRows

\* What is on the blockchain of a report stays in the hands of its job until it is
\* recorded.
LEMMA ChainRecordedStep ==
    Typed /\ Chained /\ ChainRecorded /\ [Next]_vars => ChainRecorded'
<1> SUFFICES ASSUME Typed, Chained, ChainRecorded, [Next]_vars PROVE ChainRecorded'
  OBVIOUS
<1> DEFINE InRecords(r, n) == \E m \in 1..Len(records[r]) : records[r][m] = n
           InHand(n) == \E j \in Jobs : job[j].at = "record" /\ job[j].hash = n
           Told(n) == chain[n].report \in failed \/ InRecords(chain[n].report, n) \/ InHand(n)
<1>a. /\ failed \subseteq failed' /\ \A n \in 1..Len(chain) : Told(n)
      /\ \A j \in Jobs : Carried(j)
  BY HistoryGrows DEF Chained, ChainRecorded
\* Nothing is published and no record is lost.
<1>b. ASSUME chain' = chain, \A n \in 1..Len(chain) :
                /\ InRecords(chain[n].report, n) => InRecords(chain[n].report, n)'
                /\ InHand(n) => chain[n].report \in failed' \/ InRecords(chain[n].report, n)' \/ InHand(n)'
      PROVE  ChainRecorded'
  BY <1>a, <1>b DEF ChainRecorded
<1>1. CASE Still
  BY <1>b, <1>1 DEF Still
<1>2. ASSUME NEW j \in Jobs, Comes(j) \/ Leaves(j) PROVE ChainRecorded'
  <2>1. chain' = chain /\ records' = records
    BY <1>2 DEF Comes, Leaves
  <2>2. ASSUME NEW n \in 1..Len(chain), InHand(n)
        PROVE  chain[n].report \in failed' \/ InHand(n)'
    <3>1. PICK i \in Jobs : job[i].at = "record" /\ job[i].hash = n
      BY <2>2
    <3>2. CASE i # j
      BY <1>2, <3>1, <3>2 DEF Comes, Leaves, Others
    <3>3. CASE i = j
      <4>1. job[j].report \in failed'
        BY <1>2, <3>1, <3>3 DEF Comes, Leaves
      <4>2. chain[n].report = job[j].report
        BY <1>a, <3>1, <3>3 DEF Carried
      <4> QED
        BY <4>1, <4>2
    <3> QED
      BY <3>2, <3>3
  <2> QED
    BY <1>b, <2>1, <2>2
<1>3. ASSUME NEW j \in Jobs, Prepare(j) PROVE ChainRecorded'
  <2>1. /\ chain' = chain /\ records' = records
        /\ \A i \in Jobs : job[i].at = "record" => job'[i] = job[i]
    BY <1>3, PrepareDoes DEF Others
  <2> QED
    BY <1>b, <2>1
<1>4. ASSUME NEW j \in Jobs, Publish(j) PROVE ChainRecorded'
  <2>1. /\ Len(chain) \in Nat /\ Len(chain') = Len(chain) + 1 /\ records' = records
        /\ job'[j].at = "record" /\ job'[j].hash = Len(chain) + 1
        /\ \A n \in 1..Len(chain) : chain'[n] = chain[n]
        /\ \A i \in Jobs : job[i].at = "record" => job'[i] = job[i]
    BY <1>4, PublishDoes DEF Others
  <2>2. ASSUME NEW n \in 1..Len(chain') PROVE Told(n)'
    <3>1. CASE n \in 1..Len(chain)
      BY <1>a, <2>1, <3>1
    <3>2. CASE n = Len(chain) + 1
      BY <2>1, <3>2
    <3> QED
      BY <2>1, <2>2, <3>1, <3>2
  <2> QED
    BY <2>2 DEF ChainRecorded
<1>5. ASSUME NEW j \in Jobs, Record(j) PROVE ChainRecorded'
  <2>0. PICK r \in Reports : r = job[j].report
    BY <1>5, RecordDoes
  <2>1. /\ chain' = chain /\ Others(j) /\ job[j].at = "record"
        /\ \A q \in Reports : q # r => records'[q] = records[q]
    BY <1>5, <2>0, RecordDoes
  <2>2. /\ Len(records[r]) \in Nat /\ Len(records'[r]) = Len(records[r]) + 1
        /\ records'[r][Len(records'[r])] = job[j].hash
        /\ \A n \in 1..Len(records[r]) : records'[r][n] = records[r][n]
    BY <1>5, <2>0, RecordDoes
  <2>3. job[j].hash \in 1..Len(chain) /\ chain[job[j].hash].report = r
    BY <1>a, <2>0, <2>1 DEF Carried
  <2>4. ASSUME NEW n \in 1..Len(chain), InRecords(chain[n].report, n)
        PROVE  InRecords(chain[n].report, n)'
    <3> DEFINE q == chain[n].report
    <3>1. q \in Reports
      <4> DEFINE T == [report : Reports, status : Statuses, link : Nat]
      <4>1. chain \in Seq(T)
        BY DEF Typed, TypeOK
      <4>2. chain[n] \in T
        <5> HIDE DEF T
        <5> QED
          BY <4>1
      <4> QED
        BY <4>2
    <3>2. PICK m \in 1..Len(records[q]) : records[q][m] = n
      BY <2>4
    <3>3. m \in 1..Len(records'[q]) /\ records'[q][m] = n
      <4> HIDE DEF q
      <4>1. CASE q # r
        BY <2>1, <3>1, <3>2, <4>1
      <4>2. CASE q = r
        BY <2>2, <3>2, <4>2
      <4> QED
        BY <4>1, <4>2
    <3> QED
      BY <2>1, <3>3
  <2>5. ASSUME NEW n \in 1..Len(chain), InHand(n)
        PROVE  InRecords(chain[n].report, n)' \/ InHand(n)'
    <3>1. PICK i \in Jobs : job[i].at = "record" /\ job[i].hash = n
      BY <2>5
    <3>2. CASE i # j
      BY <2>1, <3>1, <3>2 DEF Others
    <3>3. CASE i = j
      <4>1. n = job[j].hash /\ chain[n].report = r
        BY <2>3, <3>1, <3>3
      <4>2. Len(records'[r]) \in 1..Len(records'[r])
        BY <2>2
      <4>3. InRecords(r, n)'
        BY <2>2, <4>1, <4>2
      <4>4. (chain[n].report)' = r
        BY <2>1, <4>1
      <4> QED
        BY <4>3, <4>4
    <3> QED
      BY <3>2, <3>3
  <2> QED
    BY <1>b, <2>1, <2>4, <2>5
<1>6. ASSUME NEW j \in Jobs, NEW pausing \in BOOLEAN, RunBatch(j, pausing) PROVE ChainRecorded'
  <2>1. /\ chain' = chain /\ records' = records
        /\ \A i \in Jobs : job[i].at = "record" => job'[i] = job[i]
    BY <1>6, RunBatchDoes DEF Others
  <2> QED
    BY <1>b, <2>1
<1> QED
  BY <1>1, <1>2, <1>3, <1>4, <1>5, <1>6, WhatJobsDo

LEMMA ChainInit == Init => AllAlone /\ Chained /\ ChainRecorded
<1> SUFFICES ASSUME Init PROVE AllAlone /\ Chained /\ ChainRecorded
  OBVIOUS
<1>1. /\ chain = <<>> /\ \A r \in Reports : records[r] = <<>>
      /\ \A k \in Slots : op[k].at = "idle"
      /\ \A j \in Jobs : job[j].at = "absent"
  BY DEF Init, NoOp, NoJob
<1>2. AllAlone
  BY <1>1 DEF AllAlone, Alone, Starting, Working, Live, Running
<1>3. Chained
  BY <1>1 DEF Chained, Recorded, Carried, RecordsLinked, Followed
<1>4. ChainRecorded
  BY <1>1 DEF ChainRecorded
<1> QED
  BY <1>2, <1>3, <1>4

\* The records of a report tell the chain of its transactions on the blockchain,
\* through failures, crashes, pauses and publications that are repeated.
THEOREM ChainIsTold == Spec => []ChainTold
<1> DEFINE IInv == TypeOK /\ Placed /\ AllAlone /\ Chained /\ ChainRecorded
<1>1. Init => IInv
  BY InitType, ChainInit
<1>2. IInv /\ [Next]_vars => IInv'
  BY TypeStep, AloneStep, LinkedStep, ChainRecordedStep DEF Typed
<1>3. IInv => ChainTold
  BY DEF ChainTold, Chained
<1> QED
  BY <1>1, <1>2, <1>3, PTL DEF Spec

-----------------------------------------------------------------------------
(* The requests carry the hash of the last transaction                       *)

\* The requests of report r, when its rows and those of its requests stay and whoever
\* renews them goes on or fails.
LEMMA CertificateStays ==
    ASSUME NEW r \in Reports, records'[r] = records[r], cert'[r] = cert[r],
           Current(r) \/ \E j \in Jobs : Renewing(j, r),
           \A j \in Jobs : Renewing(j, r) => Renewing(j, r)'
    PROVE  Current(r)' \/ \E j \in Jobs : Renewing(j, r)'
BY DEF Current

LEMMA CertifiedStep ==
    Typed /\ AllAlone /\ (\A j \in Jobs : Carried(j)) /\ Certified /\ [Next]_vars => Certified'
<1> SUFFICES ASSUME Typed, AllAlone, \A j \in Jobs : Carried(j), Certified, [Next]_vars
             PROVE  Certified'
  OBVIOUS
<1> DEFINE Out == doubled' \cup failed'
           StampedOnes == \A j \in Jobs : job'[j].report \notin Out => Stamped(j)'
           RenewedOnes == \A r \in Reports \ Out : Current(r)' \/ \E j \in Jobs : Renewing(j, r)'
<1>a. /\ doubled \subseteq doubled' /\ failed \subseteq failed'
      /\ \A j \in Jobs : job[j].report \notin Out => Stamped(j)
      /\ \A r \in Reports \ Out : Current(r) \/ \E j \in Jobs : Renewing(j, r)
  BY HistoryGrows DEF Certified
<1>b. \A j \in Jobs : job[j].at \in {"publish", "record", "batch"} => job[j].report \in Reports
  BY DEF Typed, Placed
<1>1. ASSUME Still PROVE StampedOnes /\ RenewedOnes
  BY <1>a, <1>1 DEF Still, Stamped, Renewing, Current
<1>2. ASSUME NEW j \in Jobs, Comes(j) \/ Leaves(j) PROVE StampedOnes /\ RenewedOnes
  <2>1. records' = records /\ cert' = cert /\ Others(j) /\ job'[j].at # "batch"
    BY <1>2 DEF Comes, Leaves
  <2>2. StampedOnes
    BY <1>a, <2>1 DEF Stamped, Others
  <2>3. ASSUME NEW r \in Reports \ Out PROVE ~Renewing(j, r)
    BY <1>2, <2>3 DEF Comes, Leaves, Renewing
  <2>4. \A r \in Reports \ Out : \A i \in Jobs : Renewing(i, r) => Renewing(i, r)'
    BY <2>1, <2>3 DEF Others, Renewing
  <2>5. RenewedOnes
    BY <1>a, <2>1, <2>4, CertificateStays
  <2> QED
    BY <2>2, <2>5
<1>3. ASSUME NEW j \in Jobs, Prepare(j) PROVE StampedOnes /\ RenewedOnes
  <2>1. records' = records /\ cert' = cert /\ Others(j) /\ job'[j].at # "batch"
    BY <1>3, PrepareDoes
  <2>2. StampedOnes
    BY <1>a, <2>1 DEF Stamped, Others
  <2>3. ASSUME NEW r \in Reports \ Out, Renewing(j, r) PROVE Renewing(j, r)'
    BY <1>3, <2>3, PrepareDoes DEF Renewing
  <2>4. \A r \in Reports \ Out : \A i \in Jobs : Renewing(i, r) => Renewing(i, r)'
    BY <2>1, <2>3 DEF Others, Renewing
  <2>5. RenewedOnes
    BY <1>a, <2>1, <2>4, CertificateStays
  <2> QED
    BY <2>2, <2>5
<1>4. ASSUME NEW j \in Jobs, Publish(j) PROVE StampedOnes /\ RenewedOnes
  <2>1. records' = records /\ cert' = cert /\ Others(j) /\ job'[j].at = "record"
        /\ job[j].at = "publish" /\ job'[j].report = job[j].report /\ job'[j].kind = job[j].kind
    BY <1>4, PublishDoes
  <2>2. StampedOnes
    BY <1>a, <2>1 DEF Stamped, Others
  <2>4. \A r \in Reports \ Out : \A i \in Jobs : Renewing(i, r) => Renewing(i, r)'
    BY <2>1 DEF Others, Renewing
  <2>5. RenewedOnes
    BY <1>a, <2>1, <2>4, CertificateStays
  <2> QED
    BY <2>2, <2>5
<1>5. ASSUME NEW j \in Jobs, Record(j) PROVE StampedOnes /\ RenewedOnes
  <2>0. PICK r \in Reports : r = job[j].report
    BY <1>5, RecordDoes
  <2>1. /\ cert' = cert /\ Others(j) /\ job[j].at = "record" /\ job'[j].at = "batch"
        /\ job'[j].report = r /\ job'[j].kind = job[j].kind /\ job'[j].hash = job[j].hash
        /\ job'[j].done = 0 /\ job[j].kind = "compliance" /\ Last(records'[r]) = job[j].hash
        /\ \A q \in Reports : q # r => records'[q] = records[q]
    BY <1>5, <2>0, RecordDoes DEF Carried
  <2>2. Stamped(j)'
    BY <2>1 DEF Stamped
  <2>3. ASSUME NEW i \in Jobs, i # j, job'[i].report \notin Out PROVE Stamped(i)'
    <3>1. job'[i] = job[i] /\ Stamped(i)
      BY <1>a, <2>1, <2>3 DEF Others
    <3>2. CASE job[i].at # "batch"
      BY <3>1, <3>2 DEF Stamped
    <3>3. CASE job[i].at = "batch"
      <4>1. job[i].report \in Reports \ doubled
        BY <1>a, <1>b, <2>3, <3>1, <3>3
      <4>2. job[i].report # r
        BY <2>0, <2>1, <2>3, <3>3, <4>1, OneWorks DEF Running
      <4>3. records'[job[i].report] = records[job[i].report]
        BY <2>1, <4>1, <4>2
      <4> QED
        BY <2>1, <3>1, <4>3 DEF Stamped
    <3> QED
      BY <3>2, <3>3
  <2>4. ASSUME NEW q \in Reports \ Out PROVE Current(q)' \/ \E i \in Jobs : Renewing(i, q)'
    <3>1. CASE q = r
      BY <2>1, <3>1 DEF Renewing
    <3>2. CASE q # r
      <4>1. \A i \in Jobs : Renewing(i, q) => Renewing(i, q)'
        BY <2>0, <2>1, <3>2 DEF Renewing, Others
      <4> QED
        BY <1>a, <2>1, <3>2, <4>1, CertificateStays
    <3> QED
      BY <3>1, <3>2
  <2> QED
    BY <2>2, <2>3, <2>4
<1>6. ASSUME NEW j \in Jobs, NEW pausing \in BOOLEAN, RunBatch(j, pausing)
      PROVE  StampedOnes /\ RenewedOnes
  <2>0. PICK r \in Reports : r = job[j].report
    BY <1>6, RunBatchDoes
  <2>1. /\ records' = records /\ Others(j) /\ job[j].at = "batch"
        /\ job[j].done \in Nat /\ job[j].done < Batches
        /\ job'[j].report = r /\ job'[j].kind = "compliance" /\ job'[j].hash = job[j].hash
        /\ job'[j].done = job[j].done + 1
        /\ job'[j].at \in {"batch", "pending"} \/ job'[j].done = Batches
        /\ \A q \in Reports : q # r => cert'[q] = cert[q]
        /\ \A b \in 1..Batches : cert'[r][b] = IF b = job[j].done + 1 THEN job[j].hash ELSE cert[r][b]
    BY <1>6, <2>0, RunBatchDoes DEF Carried
  <2>2. ASSUME r \notin Out
        PROVE  job[j].hash = Last(records[r]) /\ \A b \in 1..job'[j].done : cert'[r][b] = job[j].hash
    <3>1. job[j].hash = Last(records[r]) /\ \A b \in 1..job[j].done : cert[r][b] = job[j].hash
      BY <1>a, <2>0, <2>1, <2>2 DEF Stamped
    <3>2. Batches \in Nat
      BY ConstantsAssumption
    <3>3. \A b \in 1..(job[j].done + 1) : b \in 1..Batches /\ (b = job[j].done + 1 \/ b \in 1..job[j].done)
      BY <2>1, <3>2
    <3> QED
      BY <2>1, <3>1, <3>3
  <2>3. job'[j].report \notin Out => Stamped(j)'
    BY <2>1, <2>2 DEF Stamped
  <2>4. ASSUME NEW i \in Jobs, i # j, job'[i].report \notin Out PROVE Stamped(i)'
    <3>1. job'[i] = job[i] /\ Stamped(i)
      BY <1>a, <2>1, <2>4 DEF Others
    <3>2. CASE job[i].at # "batch"
      BY <3>1, <3>2 DEF Stamped
    <3>3. CASE job[i].at = "batch"
      <4>1. job[i].report \in Reports \ doubled
        BY <1>a, <1>b, <2>4, <3>1, <3>3
      <4>2. job[i].report # r
        BY <2>0, <2>1, <2>4, <3>3, <4>1, OneWorks DEF Running
      <4>3. cert'[job[i].report] = cert[job[i].report]
        BY <2>1, <4>1, <4>2
      <4> QED
        BY <2>1, <3>1, <4>3 DEF Stamped
    <3> QED
      BY <3>2, <3>3
  <2>5. ASSUME NEW q \in Reports \ Out PROVE Current(q)' \/ \E i \in Jobs : Renewing(i, q)'
    <3>1. CASE q = r
      <4>1. CASE job'[j].at = "batch"
        BY <2>1, <3>1, <4>1 DEF Renewing
      <4>2. CASE job'[j].at = "pending"
        BY <2>1, <3>1, <4>2 DEF Renewing
      <4>3. CASE job'[j].done = Batches
        BY <2>1, <2>2, <2>5, <3>1, <4>3 DEF Current
      <4> QED
        BY <2>1, <4>1, <4>2, <4>3
    <3>2. CASE q # r
      <4>1. \A i \in Jobs : Renewing(i, q) => Renewing(i, q)'
        BY <2>0, <2>1, <3>2 DEF Renewing, Others
      <4> QED
        BY <1>a, <2>1, <3>2, <4>1, CertificateStays
    <3> QED
      BY <3>1, <3>2
  <2> QED
    BY <2>3, <2>4, <2>5
<1>7. StampedOnes /\ RenewedOnes
  BY <1>1, <1>2, <1>3, <1>4, <1>5, <1>6, WhatJobsDo
<1> QED
  BY <1>7 DEF Certified

\* When nothing is being published, all requests of a report carry the hash of its last
\* transaction: no pause, and no repeated publication, leaves an older one behind.
THEOREM CertificatesAreCurrent == Spec => []CertificatesCurrent
<1> DEFINE IInv == TypeOK /\ Placed /\ AllAlone /\ Chained /\ Certified
<1>1. Init => IInv
  <2>1. ASSUME Init PROVE Certified
    <3>1. /\ \A j \in Jobs : job[j].at = "absent"
          /\ \A r \in Reports : records[r] = <<>> /\ \A b \in 1..Batches : cert[r][b] = 0
      BY <2>1 DEF Init, NoJob
    <3> QED
      BY <3>1 DEF Certified, Stamped, Current, Last
  <2> QED
    BY <2>1, InitType, ChainInit
<1>2. IInv /\ [Next]_vars => IInv'
  BY TypeStep, AloneStep, LinkedStep, CertifiedStep DEF Typed, Chained
<1>3. IInv => CertificatesCurrent
  <2>1. \A r \in Reports, j \in Jobs : Renewing(j, r) => Working(j, r) /\ job[j].kind = "compliance"
    BY DEF Renewing, Working, Live, Running
  <2> QED
    BY <2>1 DEF Certified, CertificatesCurrent, Current
<1> QED
  BY <1>1, <1>2, <1>3, PTL DEF Spec

-----------------------------------------------------------------------------
(* A scheduled publication is taken up                                       *)

\* A step that leaves the dates, and the reports each run has to do, alone.
LEMMA ScheduledStays ==
    ASSUME Scheduled, date' = date, missed \subseteq missed',
           \A k \in Crons : /\ op'[k].at # "mark"
                            /\ op[k].at # "idle" => op'[k].at # "idle" /\ op'[k].todo = op[k].todo
    PROVE  Scheduled'
<1>1. \A k \in Crons : op'[k].at # "mark"
  OBVIOUS
<1>2. ASSUME NEW r \in Reports, date[r] = "near"
      PROVE  r \in missed' \/ \E k \in Crons : op'[k].at # "idle" /\ r \in op'[k].todo
  BY <1>2 DEF Scheduled
<1>3. \A r \in Reports : date[r] = "past" => r \in missed'
  BY DEF Scheduled, ScheduledIsTaken
<1> QED
  BY <1>1, <1>2, <1>3 DEF Scheduled, ScheduledIsTaken

LEMMA ScheduledStep == Typed /\ Scheduled /\ [Next]_vars => Scheduled'
<1> SUFFICES ASSUME Typed, Scheduled, [Next]_vars PROVE Scheduled'
  OBVIOUS
<1> USE DEF bounds, history
<1>0. op \in [Slots -> Operation] /\ Crons \subseteq Slots /\ date \in [Reports -> {"none", "far", "near", "past"}]
  BY DEF Typed, TypeOK, Slots
<1>1. ASSUME UNCHANGED <<op, date, missed>> PROVE Scheduled'
  BY <1>1 DEF Scheduled, ScheduledIsTaken
\* A step of slot k that goes on with its reports, or of a request.
<1>2. ASSUME NEW k \in Slots, NEW o \in Operation, Advance(k, o), date' = date, missed' = missed,
             k \in Crons => o.todo = op[k].todo /\ o.at \notin {"idle", "mark"}
      PROVE  Scheduled'
  <2>1. op'[k] = o /\ \A l \in Slots : l # k => op'[l] = op[l]
    BY <1>0, <1>2, AdvanceType
  <2> QED
    BY <1>0, <1>2, <2>1, ScheduledStays DEF Scheduled
<1>3. ASSUME UNCHANGED vars PROVE Scheduled'
  BY <1>1, <1>3 DEF vars
<1>4. ASSUME NEW k \in Requests, NEW o \in Operation, Advance(k, o), UNCHANGED <<date, missed>>
      PROVE  Scheduled'
  BY <1>2, <1>4, ConstantsAssumption DEF Slots
<1>5. ASSUME Users \/ \E k \in Requests, r \in Reports : AnalysisError(k, r) PROVE Scheduled'
  <2>1. ASSUME NEW r \in Reports, UpdateBlockchainPublishDate(r) PROVE Scheduled'
    <3>1. /\ date' = [date EXCEPT ![r] = "far"] /\ missed' = missed \ {r} /\ op' = op
      BY <2>1 DEF UpdateBlockchainPublishDate
    <3>2. date'[r] = "far" /\ \A q \in Reports : q # r => date'[q] = date[q] /\ (q \in missed => q \in missed')
      BY <1>0, <3>1
    <3> QED
      BY <3>1, <3>2 DEF Scheduled, ScheduledIsTaken
  <2>2. \A a \in {"read", "mark"}, r \in Reports : [NoOp EXCEPT !.at = a, !.report = r] \in Operation
    BY NoOpType DEF Operation, NoOp
  <2>3. ASSUME NEW k \in Requests, NEW r \in Reports, BeginPublish(k, r) \/ AnalysisError(k, r)
        PROVE  Scheduled'
    BY <1>4, <2>2, <2>3 DEF BeginPublish, AnalysisError
  <2>4. ASSUME NEW k \in Requests, NEW r \in Reports, NEW j \in Jobs, BeginAnalysis(k, r, j)
        PROVE  Scheduled'
    BY <1>4, <2>2, <2>4 DEF BeginAnalysis
  <2> QED
    BY <1>1, <1>5, <2>1, <2>3, <2>4 DEF Users, ChangeStatus, ChangePlaces
<1>6. ASSUME NEW k \in Slots, OpStep(k) \/ CreateError(k) PROVE Scheduled'
  <2>0. op[k] \in Operation /\ Started(k) \in Operation
        /\ (k \in Crons => Started(k).todo = op[k].todo /\ Started(k).at = "clear")
    BY <1>0, StartedType DEF Started, Operation
  <2>1. \A a \in {"write", "create", "read"}, s \in Statuses, r \in Reports :
           /\ [op[k] EXCEPT !.at = a, !.seen = s] \in Operation
           /\ [op[k] EXCEPT !.at = a, !.seen = s].todo = op[k].todo
           /\ [op[k] EXCEPT !.at = a, !.seen = s].at = a
           /\ [op[k] EXCEPT !.at = a] \in Operation
           /\ [op[k] EXCEPT !.at = a].todo = op[k].todo
           /\ [op[k] EXCEPT !.at = a].at = a
           /\ [op[k] EXCEPT !.at = a, !.report = r] \in Operation
           /\ [op[k] EXCEPT !.at = a, !.report = r].todo = op[k].todo
           /\ [op[k] EXCEPT !.at = a, !.report = r].at = a
    BY <2>0 DEF Operation
  <2>2. ASSUME ReadStatus(k) PROVE Scheduled'
    <3>1. op[k].report \in Reports /\ status[op[k].report] \in Statuses
      BY <2>2 DEF ReadStatus, Typed, TypeOK, Placed
    <3>2. /\ Advance(k, [op[k] EXCEPT !.at = "write", !.seen = status[op[k].report]])
          /\ UNCHANGED <<date, missed>>
      BY <2>2 DEF ReadStatus
    <3> QED
      BY <1>2, <2>1, <3>1, <3>2
  <2>3. ASSUME WriteStatus(k) PROVE Scheduled'
    <3>1. op[k].report \in Reports /\ Ready \in Statuses
      BY <2>3 DEF WriteStatus, Typed, TypeOK, Placed, Statuses
    <3>2. CASE Advance(k, [op[k] EXCEPT !.at = "create"])
      BY <1>2, <2>1, <2>3, <3>1, <3>2 DEF WriteStatus
    <3>3. CASE Advance(k, Started(k))
      BY <1>2, <2>0, <2>3, <3>3 DEF WriteStatus
    <3> QED
      BY <2>3, <3>2, <3>3 DEF WriteStatus
  <2>4. ASSUME MarkAnalyzing(k) PROVE Scheduled'
    <3>1. k \notin Crons
      BY <2>4 DEF MarkAnalyzing, Scheduled
    <3> QED
      BY <1>2, <2>4, <3>1, NoOpType DEF MarkAnalyzing
  <2>5. ASSUME ClearDate(k) PROVE Scheduled'
    <3> DEFINE r == op[k].report
               rest == op[k].todo \ {r}
               p == [op[k] EXCEPT !.at = "next", !.todo = rest, !.report = "none"]
               o == IF rest = {} THEN NoOp ELSE p
    <3>1. /\ date' = [date EXCEPT ![r] = "none"] /\ missed' = missed /\ Advance(k, o) /\ r \in Reports
      BY <2>5 DEF ClearDate, Typed, Placed
    <3>2. rest \in SUBSET Reports
      BY <2>0 DEF Operation
    <3>3. \A t \in SUBSET Reports :
             LET q == [op[k] EXCEPT !.at = "next", !.todo = t, !.report = "none"] IN
             q \in Operation /\ q.at = "next" /\ q.todo = t
      BY <2>0 DEF Operation
    <3>4. p \in Operation /\ p.at = "next" /\ p.todo = rest
      BY <3>2, <3>3
    <3>5. NoOp \in Operation /\ NoOp.at = "idle"
      BY NoOpType DEF NoOp
    <3>6. o \in Operation /\ o.at \in {"next", "idle"} /\ (rest # {} => o.at = "next" /\ o.todo = rest)
      <4> HIDE DEF p
      <4> QED
        BY <3>4, <3>5
    <3> HIDE DEF o, p
    <3>7. op'[k] = o /\ \A l \in Slots : l # k => op'[l] = op[l]
      BY <1>0, <3>1, <3>6, AdvanceType
    <3>8. date'[r] = "none" /\ \A q \in Reports : q # r => date'[q] = date[q]
      BY <1>0, <3>1
    <3>9. ASSUME NEW q \in Reports, date'[q] = "near"
          PROVE  q \in missed' \/ \E l \in Crons : op'[l].at # "idle" /\ q \in op'[l].todo
      <4>1. q # r /\ date[q] = "near"
        BY <3>8, <3>9
      <4>2. CASE q \in missed
        BY <3>1, <4>2
      <4>3. ASSUME NEW l \in Crons, op[l].at # "idle" /\ q \in op[l].todo
            PROVE  op'[l].at # "idle" /\ q \in op'[l].todo
        <5>1. CASE l # k
          BY <1>0, <3>7, <4>3, <5>1
        <5>2. CASE l = k
          BY <3>6, <3>7, <4>1, <4>3, <5>2
        <5> QED
          BY <5>1, <5>2
      <4> QED
        BY <4>1, <4>2, <4>3 DEF Scheduled
    <3>10. \A q \in Reports : date'[q] = "past" => q \in missed'
      BY <3>1, <3>8 DEF Scheduled, ScheduledIsTaken
    <3>11. \A l \in Crons : op'[l].at # "mark"
      BY <1>0, <3>6, <3>7 DEF Scheduled
    <3> QED
      BY <3>9, <3>10, <3>11 DEF Scheduled, ScheduledIsTaken
  <2>6. ASSUME NEW r \in Reports, ConcludeReport(k, r) PROVE Scheduled'
    <3>1. Advance(k, [op[k] EXCEPT !.at = "read", !.report = r]) /\ UNCHANGED <<date, missed>>
      BY <2>6 DEF ConcludeReport
    <3>2. Ready \in Statuses
      BY DEF Statuses
    <3> QED
      BY <1>2, <2>1, <3>1, <3>2
  <2>7. ASSUME CreateError(k) \/ \E j \in Jobs : CreateJob(k, j) PROVE Scheduled'
    BY <1>2, <2>0, <2>7 DEF CreateJob, CreateError
  <2> QED
    BY <1>6, <2>2, <2>3, <2>4, <2>5, <2>6, <2>7 DEF OpStep
<1>7. ASSUME NEW k \in Slots, Abort(k) PROVE Scheduled'
  <2>1. date' = date /\ missed' = missed \cup {r \in op[k].todo : date[r] = "near"} /\ Advance(k, NoOp)
    BY <1>7 DEF Abort
  <2>2. NoOp.at = "idle" /\ op'[k] = NoOp /\ \A l \in Slots : l # k => op'[l] = op[l]
    BY <1>0, <2>1, NoOpType, AdvanceType DEF NoOp
  <2>3. ASSUME NEW r \in Reports, date[r] = "near"
        PROVE  r \in missed' \/ \E l \in Crons : op'[l].at # "idle" /\ r \in op'[l].todo
    <3>1. CASE r \in missed
      BY <2>1, <3>1
    <3>2. ASSUME NEW l \in Crons, op[l].at # "idle" /\ r \in op[l].todo
          PROVE  r \in missed' \/ (op'[l].at # "idle" /\ r \in op'[l].todo)
      BY <1>0, <2>1, <2>2, <2>3, <3>2
    <3> QED
      BY <2>3, <3>1, <3>2 DEF Scheduled
  <2>4. \A l \in Crons : op'[l].at # "mark"
    BY <1>0, <2>2 DEF Scheduled
  <2>5. \A r \in Reports : date[r] = "past" => r \in missed'
    BY <2>1 DEF Scheduled, ScheduledIsTaken
  <2> QED
    BY <2>1, <2>3, <2>4, <2>5 DEF Scheduled, ScheduledIsTaken
<1>8. ASSUME NEW j \in Jobs, JobStep(j) \/ Callback(j) \/ FailJob(j) \/ LoseJob(j) PROVE Scheduled'
  <2>1. UNCHANGED <<op, date, missed>>
    BY <1>8 DEF JobStep, Prepare, Publish, Record, Conclude, RunBatch, RequestDeforestationReport,
                HandleDeforestationCallBack, Callback, FailJob, LoseJob
  <2> QED
    BY <1>1, <2>1
<1>9. ASSUME NEW W \in SUBSET Crons, Strike(W) PROVE Scheduled'
  <2>1. PICK F \in SUBSET Reports :
          /\ date' = [r \in Reports |-> IF r \in F THEN "near"
                                        ELSE IF date[r] = "near" THEN "past" ELSE date[r]]
          /\ op' = [k \in Slots |-> IF k \in W /\ F # {}
                      THEN [NoOp EXCEPT !.at = "next", !.todo = F, !.rows = Loaded(F)]
                      ELSE op[k]]
          /\ missed' = IF W = {} THEN missed \cup F ELSE missed
    BY <1>9 DEF Strike
  <2>2. \A k \in Crons : op[k].at = "idle"
    BY <1>9 DEF Strike
  <2>3. missed \subseteq missed'
    BY <2>1
  <2>4. \A k \in Crons : /\ k \in W /\ F # {} => op'[k].at = "next" /\ op'[k].todo = F
                         /\ ~(k \in W /\ F # {}) => op'[k] = op[k]
    BY <1>0, <2>1 DEF NoOp
  <2>5. ASSUME NEW r \in Reports, date'[r] = "near"
        PROVE  r \in missed' \/ \E l \in Crons : op'[l].at # "idle" /\ r \in op'[l].todo
    <3>1. r \in F
      BY <1>0, <2>1, <2>5
    <3>2. CASE W = {}
      BY <2>1, <3>1, <3>2
    <3>3. ASSUME NEW l \in W PROVE l \in Crons /\ op'[l].at # "idle" /\ r \in op'[l].todo
      BY <2>4, <3>1, <3>3
    <3> QED
      BY <3>2, <3>3
  <2>6. \A r \in Reports : date'[r] = "past" => r \in missed'
    <3>1. \A r \in Reports : date'[r] = "past" => date[r] \in {"near", "past"}
      BY <1>0, <2>1
    <3> QED
      BY <2>2, <2>3, <3>1 DEF Scheduled, ScheduledIsTaken
  <2>7. \A k \in Crons : op'[k].at # "mark"
    BY <2>2, <2>4
  <2> QED
    BY <2>5, <2>6, <2>7 DEF Scheduled, ScheduledIsTaken
<1> QED
  BY <1>3, <1>5, <1>6, <1>7, <1>8, <1>9 DEF Next, Faults

\* A report whose date has passed was taken up by the publish job, unless no process
\* ran in its two hours or the run that found it was aborted.
THEOREM ScheduledIsTakenUp == Spec => []ScheduledIsTaken
<1> DEFINE IInv == TypeOK /\ Placed /\ Scheduled
<1>1. Init => IInv
  <2>1. ASSUME Init PROVE Scheduled
    <3>1. /\ \A k \in Crons : op[k].at = "idle"
          /\ \A r \in Reports : date[r] = "none"
      BY <2>1 DEF Init, NoOp, Slots
    <3> QED
      BY <3>1 DEF Scheduled, ScheduledIsTaken
  <2> QED
    BY <2>1, InitType
<1>2. IInv /\ [Next]_vars => IInv'
  BY TypeStep, ScheduledStep DEF Typed
<1>3. IInv => ScheduledIsTaken
  BY DEF Scheduled
<1> QED
  BY <1>1, <1>2, <1>3, PTL DEF Spec

=============================================================================
