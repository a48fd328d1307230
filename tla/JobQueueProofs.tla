--------------------------- MODULE JobQueueProofs ---------------------------
(* Theorems about JobQueue for every set of servers, jobs and invocations,   *)
(* every limit and every bound.                                              *)
EXTENDS JobQueue, FiniteSetTheorems, TLAPS

-----------------------------------------------------------------------------
(* The instances a runner works on keep their type.                          *)

\* A loaded row is an executor, and so is whatever the steps make of one.
LEMMA LoadedType == ASSUME NEW r \in Row, r.status # "ABSENT" PROVE Loaded(r) \in Executor
BY DEF Row, Loaded, Executor, Status

LEMMA NoExecType == NoExec \in Executor
BY DEF NoExec, Executor, Status, Command0

LEMMA ReservedType == ASSUME NEW e \in Executor PROVE Reserved(e) \in Executor
BY DEF Reserved, Executor, Status

LEMMA SavedType ==
    ASSUME NEW e \in Executor, NEW st \in Status PROVE Saved(e, st) \in Executor
BY DEF Saved, Executor, Status

LEMMA MarkType ==
    ASSUME NEW e \in Executor, NEW p PROVE MarkJobAsComplete(e, p) \in Executor
BY DEF MarkJobAsComplete, Executor, Status

\* One executor replaced by another keeps the table of executors well typed.
LEMMA BecomesType ==
    ASSUME NEW c \in Calls, NEW j \in Jobs, NEW e \in Executor,
           exec \in [Calls -> [Jobs -> Executor]], Becomes(c, j, e)
    PROVE  exec' \in [Calls -> [Jobs -> Executor]]
BY DEF Becomes

\* What save() writes is a status.
LEMMA WrittenType ==
    ASSUME NEW j \in Jobs, row \in [Jobs -> Row], NEW saved, NEW st \in Status
    PROVE  Written(j, saved, st) \in Status \cup {"ABSENT"}
BY DEF Written, Row

-----------------------------------------------------------------------------
LEMMA InitType == Init => TypeOK
<1> SUFFICES ASSUME Init PROVE TypeOK
  OBVIOUS
<1> USE ConstantsAssumption DEF Init
<1>1. row \in [Jobs -> Row]
  BY DEF Row, Command0
<1>2. srv \in [Servers -> Process]
  BY DEF Gone, Process
<1>3. call \in [Calls -> Invocation]
  BY DEF Invocation
<1>4. exec \in [Calls -> [Jobs -> Executor]]
  BY NoExecType
<1> QED
  BY <1>1, <1>2, <1>3, <1>4 DEF TypeOK

\* What a poll and a runner do to the flags of a process and to an invocation.
LEMMA CallUpdates ==
    ASSUME TypeOK, NEW c \in Calls
    PROVE  /\ call \in [Calls -> Invocation]
           /\ [call EXCEPT ![c].pc = "idle"] \in [Calls -> Invocation]
           /\ [call EXCEPT ![c].pc = "init"] \in [Calls -> Invocation]
           /\ [call EXCEPT ![c].pc = "ids"] \in [Calls -> Invocation]
           /\ [call EXCEPT ![c] = [pc |-> "idle", ids |-> {}]] \in [Calls -> Invocation]
           /\ [call EXCEPT ![c] = [pc |-> "running", ids |-> {}]] \in [Calls -> Invocation]
           /\ \A T \in SUBSET Jobs :
                 [call EXCEPT ![c] = [pc |-> "rows", ids |-> T]] \in [Calls -> Invocation]
BY DEF TypeOK, Invocation

LEMMA ProcessUpdates ==
    ASSUME TypeOK, NEW s \in Servers
    PROVE  /\ srv \in [Servers -> Process]
           /\ [srv EXCEPT ![s].isRunning = TRUE] \in [Servers -> Process]
           /\ [srv EXCEPT ![s].isRunning = FALSE] \in [Servers -> Process]
           /\ [srv EXCEPT ![s].shouldPause = TRUE] \in [Servers -> Process]
BY DEF TypeOK, Process

\* The steps of initJobsProcessing(), runJobs() and create().
LEMMA CallType ==
    ASSUME TypeOK, NEW c \in Calls, CallStep(c) \/ PollError(c)
    PROVE  TypeOK'
<1> USE ConstantsAssumption
<1>h. Home[c] \in Servers
  OBVIOUS
<1>f. [srv EXCEPT ![Home[c]].isRunning = FALSE] \in [Servers -> Process]
  BY <1>h, ProcessUpdates
<1>t. srv \in [Servers -> Process] /\ call \in [Calls -> Invocation]
  BY DEF TypeOK
<1>b. BeginsPoll(c) => overlap' \in BOOLEAN
  BY DEF BeginsPoll, TypeOK
<1>1. CASE InitJobsProcessing(c)
  <2>1. call' \in [Calls -> Invocation]
    <3>1. \/ call' = [call EXCEPT ![c].pc = "idle"]
          \/ call' = [call EXCEPT ![c].pc = "ids"]
      BY <1>1 DEF InitJobsProcessing
    <3> QED
      BY <3>1, CallUpdates
  <2> QED
    BY <1>1, <1>b, <2>1 DEF InitJobsProcessing, TypeOK, requests, bounds, history
<1>2. CASE PendingJobIdsByPriority(c)
  <2>1. call' \in [Calls -> Invocation]
    <3>1. CASE FoundNothing(c)
      BY <3>1, <1>h, CallUpdates DEF FoundNothing
    <3>2. CASE \E T \in TopByPriority(Ready) :
                  call' = [call EXCEPT ![c] = [pc |-> "rows", ids |-> T]]
      <4>1. \A T \in TopByPriority(Ready) : T \in SUBSET Jobs
        BY DEF TopByPriority, Ready
      <4>2. PICK T \in TopByPriority(Ready) :
              call' = [call EXCEPT ![c] = [pc |-> "rows", ids |-> T]]
        BY <3>2
      <4>3. [call EXCEPT ![c] = [pc |-> "rows", ids |-> T]] \in [Calls -> Invocation]
        BY <4>1, CallUpdates
      <4> QED
        BY <4>2, <4>3
    <3> QED
      BY <1>2, <3>1, <3>2 DEF PendingJobIdsByPriority
  <2>2. srv' \in [Servers -> Process] /\ exec' = exec
    <3>1. /\ exec' = exec
          /\ srv' = srv \/ srv' = [srv EXCEPT ![Home[c]].isRunning = FALSE]
      BY <1>2 DEF PendingJobIdsByPriority, FoundNothing
    <3> QED
      BY <1>f, <1>t, <3>1
  <2> QED
    BY <1>2, <2>1, <2>2 DEF PendingJobIdsByPriority, TypeOK, requests, bounds, history
<1>3. CASE PendingByPriority(c)
  <2>1. call' \in [Calls -> Invocation]
    <3>1. \/ call' = [call EXCEPT ![c] = [pc |-> "idle", ids |-> {}]]
          \/ call' = [call EXCEPT ![c] = [pc |-> "running", ids |-> {}]]
      BY <1>3 DEF PendingByPriority, FoundNothing
    <3> QED
      BY <3>1, CallUpdates
  <2>2. srv' \in [Servers -> Process]
    <3>1. \/ srv' = [srv EXCEPT ![Home[c]].isRunning = FALSE]
          \/ srv' = [srv EXCEPT ![Home[c]].isRunning = TRUE]
      BY <1>3 DEF PendingByPriority, FoundNothing
    <3> QED
      BY <1>h, <3>1, ProcessUpdates
  <2>3. exec' \in [Calls -> [Jobs -> Executor]]
    <3> DEFINE found == {j \in call[c].ids : row[j].status = "PENDING"}
    <3>1. \A j \in Jobs : j \in found => Loaded(row[j]) \in Executor
      BY LoadedType DEF TypeOK
    <3>2. [j \in Jobs |-> IF j \in found THEN Loaded(row[j]) ELSE NoExec] \in [Jobs -> Executor]
      BY <3>1, NoExecType
    <3> QED
      BY <1>3, <3>2 DEF PendingByPriority, FoundNothing, TypeOK
  <2> QED
    BY <1>3, <2>1, <2>2, <2>3 DEF PendingByPriority, TypeOK, requests, bounds, history
<1>4. CASE EndRun(c)
  <2>1. call' \in [Calls -> Invocation] /\ srv' \in [Servers -> Process]
    <3>1. /\ srv' = [srv EXCEPT ![Home[c]].isRunning = FALSE]
          /\ \/ call' = [call EXCEPT ![c].pc = "idle"]
             \/ call' = [call EXCEPT ![c].pc = "ids"]
      BY <1>4 DEF EndRun
    <3>2. call' \in [Calls -> Invocation]
      BY <3>1, CallUpdates
    <3> QED
      BY <1>f, <3>1, <3>2
  <2> QED
    BY <1>4, <1>b, <2>1 DEF EndRun, TypeOK, requests, bounds, history
<1>5. CASE PollError(c)
  <2>1. call' \in [Calls -> Invocation]
    BY <1>5, CallUpdates DEF PollError
  <2> QED
    BY <1>5, <1>h, <2>1 DEF PollError, TypeOK, requests, bounds, history
<1> QED
  BY <1>1, <1>2, <1>3, <1>4, <1>5 DEF CallStep

\* What the steps do to a row.
LEMMA RowUpdates ==
    ASSUME TypeOK, NEW j \in Jobs, NEW st \in Status \cup {"ABSENT"}
    PROVE  /\ [row EXCEPT ![j].status = st] \in [Jobs -> Row]
           /\ [row EXCEPT ![j].status = st, ![j].cmd = "INIT_CALLBACK"] \in [Jobs -> Row]
           /\ \A b \in BOOLEAN : [row EXCEPT ![j].due = b] \in [Jobs -> Row]
           /\ \A b \in BOOLEAN : [row EXCEPT ![j].status = st, ![j].due = b] \in [Jobs -> Row]
           /\ \A d \in Nat : [row EXCEPT ![j].status = st, ![j].done = d] \in [Jobs -> Row]
           /\ \A n \in Nat : [row EXCEPT ![j].status = st, ![j].ext = n] \in [Jobs -> Row]
           /\ \A d, n \in Nat : [row EXCEPT ![j].status = st, ![j].done = d, ![j].attempts = n]
                                  \in [Jobs -> Row]
<1> row \in [Jobs -> Row]
  BY DEF TypeOK
<1>1. [row[j] EXCEPT !.status = st] \in Row
  BY DEF Row
<1>2. [row[j] EXCEPT !.status = st, !.cmd = "INIT_CALLBACK"] \in Row
  BY DEF Row, Batched
<1>3. \A b \in BOOLEAN : [row[j] EXCEPT !.due = b] \in Row
  BY DEF Row
<1>4. \A b \in BOOLEAN : [row[j] EXCEPT !.status = st, !.due = b] \in Row
  BY DEF Row
<1>5. \A d \in Nat : [row[j] EXCEPT !.status = st, !.done = d] \in Row
  BY DEF Row
<1>6. \A n \in Nat : [row[j] EXCEPT !.status = st, !.ext = n] \in Row
  BY DEF Row
<1>7. \A d, n \in Nat : [row[j] EXCEPT !.status = st, !.done = d, !.attempts = n] \in Row
  BY DEF Row
<1>8. [row EXCEPT ![j].status = st] \in [Jobs -> Row]
  BY <1>1
<1>9. [row EXCEPT ![j].status = st, ![j].cmd = "INIT_CALLBACK"] \in [Jobs -> Row]
  BY <1>2
<1>10. \A b \in BOOLEAN : [row EXCEPT ![j].due = b] \in [Jobs -> Row]
  BY <1>3
<1>11. \A b \in BOOLEAN : [row EXCEPT ![j].status = st, ![j].due = b] \in [Jobs -> Row]
  BY <1>4
<1>12. \A d \in Nat : [row EXCEPT ![j].status = st, ![j].done = d] \in [Jobs -> Row]
  BY <1>5
<1>13. \A n \in Nat : [row EXCEPT ![j].status = st, ![j].ext = n] \in [Jobs -> Row]
  BY <1>6
<1>14. \A d, n \in Nat : [row EXCEPT ![j].status = st, ![j].done = d, ![j].attempts = n]
                         \in [Jobs -> Row]
  BY <1>7
<1> QED
  BY <1>8, <1>9, <1>10, <1>11, <1>12, <1>13, <1>14

\* The steps of an execution, its failures included.
LEMMA ExecType ==
    ASSUME TypeOK, NEW c \in Calls, NEW j \in Jobs,
           ExecStep(c, j) \/ FailJob(c, j) \/ FailJobUnrecorded(c, j)
    PROVE  TypeOK'
<1> DEFINE e == exec[c][j]
<1> USE ConstantsAssumption
<1>e. e \in Executor /\ row \in [Jobs -> Row]
  BY DEF TypeOK
<1>n. NoExec \in Executor
  BY NoExecType
<1>1. CASE Reserve(c, j)
  <2>1. exec' \in [Calls -> [Jobs -> Executor]]
    BY <1>1, <1>e, ReservedType, BecomesType DEF Reserve, TypeOK
  <2>2. row' \in [Jobs -> Row]
    BY <1>1, RowUpdates DEF Reserve, Status
  <2> QED
    BY <1>1, <2>1, <2>2 DEF Reserve, TypeOK, requests, bounds, history
<1>2. CASE RunBatch(c, j)
  <2> DEFINE st == IF e.done + 1 = Batches[j] THEN "COMPLETED"
                   ELSE IF Draining(c, j) THEN "PENDING" ELSE "PROCESSING"
  <2>1. st \in Status
    BY DEF Status
  <2>2. [Saved(e, st) EXCEPT !.done = @ + 1] \in Executor
    BY <2>1, <1>e, SavedType DEF Executor
  <2>3. exec' \in [Calls -> [Jobs -> Executor]]
    BY <1>2, <2>2, BecomesType DEF RunBatch, TypeOK
  <2>4. Written(j, e.saved, st) \in Status \cup {"ABSENT"} /\ e.done + 1 \in Nat
    BY <2>1, <1>e, WrittenType DEF Executor
  <2>r. row' \in [Jobs -> Row]
    <3>1. row' = [row EXCEPT ![j].status = Written(j, e.saved, st), ![j].done = e.done + 1]
      BY <1>2 DEF RunBatch
    <3>2. \A w \in Status \cup {"ABSENT"}, d \in Nat :
            [row EXCEPT ![j].status = w, ![j].done = d] \in [Jobs -> Row]
      BY RowUpdates
    <3>3. [row EXCEPT ![j].status = Written(j, e.saved, st), ![j].done = e.done + 1]
              \in [Jobs -> Row]
      BY <2>4, <3>2
    <3> QED
      BY <3>1, <3>3
  <2> QED
    BY <1>2, <2>3, <2>r DEF RunBatch, TypeOK, requests, bounds, history
<1>3. CASE AfterSave(c, j)
  <2>1. [e EXCEPT !.pc = "work"] \in Executor
    BY <1>e DEF Executor
  <2>2. exec' \in [Calls -> [Jobs -> Executor]]
    BY <1>3, <1>e, <2>1, MarkType, BecomesType DEF AfterSave, TypeOK
  <2> QED
    BY <1>3, <2>2 DEF AfterSave, TypeOK, requests, bounds, history
<1>4. CASE NoBatchLeft(c, j)
  <2>1. [e EXCEPT !.status = "COMPLETED"] \in Executor
    BY <1>e DEF Executor, Status
  <2>2. exec' \in [Calls -> [Jobs -> Executor]]
    BY <1>4, <2>1, MarkType, BecomesType DEF NoBatchLeft, TypeOK
  <2> QED
    BY <1>4, <2>2 DEF NoBatchLeft, TypeOK, requests, bounds, history
<1>5. CASE RunWarning(c, j)
  <2>1. Saved(e, "COMPLETED") \in Executor
    BY <1>e, SavedType DEF Status
  <2>2. exec' \in [Calls -> [Jobs -> Executor]]
    BY <1>5, <2>1, BecomesType DEF RunWarning, TypeOK
  <2>3. Written(j, e.saved, "COMPLETED") \in Status \cup {"ABSENT"}
    BY <1>e, WrittenType DEF Status
  <2>r. row' \in [Jobs -> Row]
    BY <1>5, <2>3, RowUpdates DEF RunWarning
  <2> QED
    BY <1>5, <2>2, <2>r DEF RunWarning, TypeOK, requests, bounds, history
<1>6. CASE RequestDeforestationReport(c, j)
  <2>1. Saved(e, "COMPLETED") \in Executor
    BY <1>e, SavedType DEF Status
  <2>2. [e EXCEPT !.pc = "asked", !.ext = reqs[j] + 1] \in Executor
    <3>1. reqs[j] + 1 \in Nat
      BY DEF TypeOK
    <3> QED
      BY <1>e, <3>1 DEF Executor
  <2>3. exec' \in [Calls -> [Jobs -> Executor]]
    BY <1>6, <2>1, <2>2, BecomesType DEF RequestDeforestationReport, TypeOK
  <2>4. Written(j, e.saved, "COMPLETED") \in Status \cup {"ABSENT"}
    BY <1>e, WrittenType DEF Status
  <2>5. row' \in [Jobs -> Row]
    <3>1. \/ row' = row
          \/ row' = [row EXCEPT ![j].status = Written(j, e.saved, "COMPLETED")]
      BY <1>6 DEF RequestDeforestationReport
    <3>2. [row EXCEPT ![j].status = Written(j, e.saved, "COMPLETED")] \in [Jobs -> Row]
      BY <2>4, RowUpdates
    <3> QED
      BY <1>e, <3>1, <3>2
  <2>6. reqs' \in [Jobs -> Nat] /\ pendingCb' \in [Jobs -> SUBSET Nat]
    <3>1. \/ reqs' = reqs /\ pendingCb' = pendingCb
          \/ /\ reqs' = [reqs EXCEPT ![j] = @ + 1]
             /\ pendingCb' = [pendingCb EXCEPT ![j] = @ \cup {reqs[j] + 1}]
      BY <1>6 DEF RequestDeforestationReport
    <3>2. [reqs EXCEPT ![j] = @ + 1] \in [Jobs -> Nat]
      BY DEF TypeOK
    <3>3. [pendingCb EXCEPT ![j] = @ \cup {reqs[j] + 1}] \in [Jobs -> SUBSET Nat]
      BY DEF TypeOK
    <3> QED
      BY <3>1, <3>2, <3>3 DEF TypeOK
  <2> QED
    BY <1>6, <2>3, <2>5, <2>6 DEF RequestDeforestationReport, TypeOK, bounds, history
<1>7. CASE HoldForCallback(c, j)
  <2>1. Saved(e, "ON HOLD") \in Executor
    BY <1>e, SavedType DEF Status
  <2>2. exec' \in [Calls -> [Jobs -> Executor]]
    BY <1>7, <2>1, BecomesType DEF HoldForCallback, TypeOK
  <2>3. Written(j, e.saved, "ON HOLD") \in Status \cup {"ABSENT"} /\ e.ext \in Nat
    BY <1>e, WrittenType DEF Status, Executor
  <2>r. row' \in [Jobs -> Row]
    BY <1>7, <2>3, RowUpdates DEF HoldForCallback
  <2> QED
    BY <1>7, <2>2, <2>r DEF HoldForCallback, TypeOK, requests, bounds, history
<1>8. CASE SaveJob(c, j)
  <2>1. exec' \in [Calls -> [Jobs -> Executor]]
    BY <1>8, <1>n, BecomesType DEF SaveJob, TypeOK
  <2>2. Written(j, e.saved, e.status) \in Status \cup {"ABSENT"}
    BY <1>e, WrittenType DEF Executor
  <2>r. row' \in [Jobs -> Row]
    BY <1>8, <2>2, RowUpdates DEF SaveJob
  <2> QED
    BY <1>8, <2>1, <2>r DEF SaveJob, TypeOK, requests, bounds, history
<1>9. CASE FailJob(c, j)
  <2>1. exec' \in [Calls -> [Jobs -> Executor]]
    BY <1>9, <1>n, BecomesType DEF FailJob, TypeOK
  <2>2. Written(j, e.saved, IF e.attempts > 0 THEN "PENDING" ELSE "FAILED")
            \in Status \cup {"ABSENT"}
    BY <1>e, WrittenType DEF Status
  <2>3. e.done \in Nat /\ Remaining(e) \in Nat
    BY <1>e DEF Executor, Remaining
  <2>4. row' \in [Jobs -> Row]
    <3>1. PICK counted \in {0, 1} :
            row' = [row EXCEPT
                      ![j].status = Written(j, e.saved, IF e.attempts > 0 THEN "PENDING" ELSE "FAILED"),
                      ![j].done = e.done + counted,
                      ![j].attempts = Remaining(e)]
      BY <1>9 DEF FailJob
    <3>2. e.done + counted \in Nat
      BY <2>3
    <3> QED
      BY <2>2, <2>3, <3>1, <3>2, RowUpdates
  <2>5. fails' \in [Jobs -> Nat]
    <3>1. fails' = [fails EXCEPT ![j] = @ + 1]
      BY <1>9 DEF FailJob
    <3> QED
      BY <3>1 DEF TypeOK
  <2> QED
    BY <1>9, <2>1, <2>4, <2>5 DEF FailJob, TypeOK, requests, history
<1>10. CASE FailJobUnrecorded(c, j)
  <2>1. exec' \in [Calls -> [Jobs -> Executor]]
    BY <1>10, <1>n, BecomesType DEF FailJobUnrecorded, TypeOK
  <2> QED
    BY <1>10, <2>1 DEF FailJobUnrecorded, TypeOK, requests, bounds, history
<1> QED
  BY <1>1, <1>2, <1>3, <1>4, <1>5, <1>6, <1>7, <1>8, <1>9, <1>10 DEF ExecStep

\* What clients and the external service do.
LEMMA EnvironmentType ==
    ASSUME TypeOK,
           Environment \/ \E j \in Jobs : \E id \in pendingCb[j] : CallbackError(j, id)
    PROVE  TypeOK'
<1> USE ConstantsAssumption
<1>1. ASSUME NEW j \in Jobs, BecomeDue(j) PROVE TypeOK'
  <2>1. row' \in [Jobs -> Row]
    BY <1>1, RowUpdates DEF BecomeDue
  <2> QED
    BY <1>1, <2>1 DEF BecomeDue, TypeOK, requests, bounds, history
<1>2. ASSUME NEW j \in Jobs, NEW c \in Calls, Create(j, c) PROVE TypeOK'
  <2>1. row' \in [Jobs -> Row]
    BY <1>2, RowUpdates DEF Create, Status
  <2>2. call' \in [Calls -> Invocation]
    BY <1>2, CallUpdates DEF Create
  <2> QED
    BY <1>2, <2>1, <2>2 DEF Create, TypeOK, requests, bounds, history
<1>3. ASSUME NEW j \in Jobs, NEW c \in Calls, NEW id \in pendingCb[j], Callback(j, id, c)
      PROVE  TypeOK'
  <2>1. id \in Nat
    BY DEF TypeOK
  <2>2. row' \in [Jobs -> Row]
    <3>1. \/ row' = row
          \/ row' = [row EXCEPT ![j].status = "PENDING", ![j].cmd = "INIT_CALLBACK"]
      BY <1>3 DEF Callback
    <3>2. "PENDING" \in Status \cup {"ABSENT"}
      BY DEF Status
    <3>3. /\ row \in [Jobs -> Row]
          /\ [row EXCEPT ![j].status = "PENDING", ![j].cmd = "INIT_CALLBACK"] \in [Jobs -> Row]
      BY <3>2, RowUpdates DEF TypeOK
    <3> QED
      BY <3>1, <3>3
  <2>3. call' \in [Calls -> Invocation]
    <3>1. call' = call \/ call' = [call EXCEPT ![c].pc = "init"]
      BY <1>3 DEF Callback
    <3> QED
      BY <3>1, CallUpdates
  <2>4. missed' \subseteq Jobs \X Nat
    BY <1>3, <2>1 DEF Callback, TypeOK
  <2>5. pendingCb' \in [Jobs -> SUBSET Nat] /\ answers' \in [Jobs -> Nat]
    BY <1>3 DEF Callback, TypeOK
  <2> QED
    BY <1>3, <2>2, <2>3, <2>4, <2>5 DEF Callback, TypeOK, bounds
<1>4. ASSUME NEW j \in Jobs, NEW id \in pendingCb[j], CallbackError(j, id)
      PROVE  TypeOK'
  BY <1>4 DEF CallbackError, TypeOK, bounds
<1> QED
  BY <1>1, <1>2, <1>3, <1>4 DEF Environment

\* Crashes, shutdowns and restarts.
LEMMA ProcessType ==
    ASSUME TypeOK, NEW s \in Servers,
           Crash(s) \/ Shutdown(s) \/ \E c \in Calls : Restart(s, c)
    PROVE  TypeOK'
<1> USE ConstantsAssumption
<1>1. ASSUME Vanish(s), losses' \in Nat PROVE TypeOK'
  <2>1. srv' \in [Servers -> Process]
    BY <1>1 DEF Vanish, Gone, Process, TypeOK
  <2>2. call' \in [Calls -> Invocation]
    BY <1>1 DEF Vanish, Invocation, TypeOK
  <2>3. exec' \in [Calls -> [Jobs -> Executor]]
    BY <1>1, NoExecType DEF Vanish, TypeOK
  <2> QED
    BY <1>1, <2>1, <2>2, <2>3 DEF Vanish, TypeOK, requests
<1>2. CASE Crash(s)
  BY <1>1, <1>2 DEF Crash, TypeOK
<1>3. CASE Exit(s)
  BY <1>1, <1>3 DEF Exit, TypeOK
<1>4. CASE PauseQueue(s)
  <2>1. srv' \in [Servers -> Process]
    BY <1>4, ProcessUpdates DEF PauseQueue
  <2>2. losses' \in Nat
    BY <1>4 DEF PauseQueue, BeginsShutdown, TypeOK
  <2> QED
    BY <1>4, <2>1, <2>2 DEF PauseQueue, TypeOK, requests, history
<1>5. ASSUME NEW v \in Services, PauseJobs(s, v) PROVE TypeOK'
  <2>1. srv' \in [Servers -> Process]
    BY <1>5 DEF PauseJobs, Process, TypeOK
  <2>2. losses' \in Nat
    BY <1>5 DEF PauseJobs, BeginsShutdown, TypeOK
  <2> QED
    BY <1>5, <2>1, <2>2 DEF PauseJobs, TypeOK, requests, history
<1>6. ASSUME NEW c \in Calls, Restart(s, c) PROVE TypeOK'
  <2>1. srv' \in [Servers -> Process]
    BY <1>6 DEF Restart, Fresh, Process, TypeOK
  <2>2. call' \in [Calls -> Invocation]
    BY <1>6, CallUpdates DEF Restart
  <2>3. overlap' \in BOOLEAN
    BY <1>6 DEF Restart, BeginsPoll, TypeOK
  <2> QED
    BY <1>6, <2>1, <2>2, <2>3 DEF Restart, TypeOK, requests, bounds
<1> QED
  BY <1>2, <1>3, <1>4, <1>5, <1>6 DEF Shutdown

LEMMA NextType == ASSUME TypeOK, [Next]_vars PROVE TypeOK'
<1>1. CASE UNCHANGED vars
  BY <1>1 DEF vars, requests, bounds, history, TypeOK
<1>2. CASE Next
  BY <1>2, CallType, ExecType, EnvironmentType, ProcessType DEF Next, Fault
<1> QED
  BY <1>1, <1>2

\* Type correctness of the job queue: no step of a poll, an execution, a
\* callback, a failure or the life of a process leaves the domains of the
\* table's columns or of the services' fields (attempts never below zero).
THEOREM TypeCorrect == Spec => []TypeOK
BY InitType, NextType, PTL DEF Spec

-----------------------------------------------------------------------------
(* No lost wake-up.                                                          *)

\* A poll that sees a waiting job comes back with at least one.
LEMMA TopNonEmpty ==
    ASSUME NEW S \in SUBSET Jobs, S # {}, NEW T \in TopByPriority(S)
    PROVE  T # {} /\ T \subseteq S
<1>1. IsFiniteSet(S)
  BY JobsFinite, FS_Subset
<1>2. Cardinality(S) \in Nat /\ Cardinality(S) # 0
  BY <1>1, FS_CardinalityType, FS_EmptySet
<1>3. Limit \in Nat \ {0}
  BY ConstantsAssumption
<1>4. T \subseteq S /\ Cardinality(T) # 0
  BY <1>2, <1>3 DEF TopByPriority
<1>5. Cardinality({}) = 0
  BY FS_EmptySet
<1> QED
  BY <1>4, <1>5

LEMMA RunnersInit == Init => Runners
<1> SUFFICES ASSUME Init PROVE Runners
  OBVIOUS
<1>1. \A s \in Servers : ~srv[s].isRunning
  BY DEF Init, Gone
<1>2. \A c \in Calls, j \in Jobs : exec[c][j].pc = "none"
  BY DEF Init, NoExec
<1> QED
  BY <1>1, <1>2 DEF Runners

\* An executor's step touches no invocation, no flag and no idle executor.
LEMMA ExecFrame ==
    ASSUME TypeOK, NEW c \in Calls, NEW j \in Jobs,
           ExecStep(c, j) \/ FailJob(c, j) \/ FailJobUnrecorded(c, j)
    PROVE  /\ UNCHANGED <<srv, call, deaf>>
           /\ exec[c][j].pc # "none"
           /\ \E e : exec' = [exec EXCEPT ![c][j] = e]
<1>1. CASE Reserve(c, j)
  BY <1>1 DEF Reserve, Becomes, history
<1>2. CASE RunBatch(c, j)
  BY <1>2 DEF RunBatch, Becomes, history
<1>3. CASE AfterSave(c, j)
  BY <1>3 DEF AfterSave, Becomes, history
<1>4. CASE NoBatchLeft(c, j)
  BY <1>4 DEF NoBatchLeft, Becomes, history
<1>5. CASE RunWarning(c, j)
  BY <1>5 DEF RunWarning, Becomes, history
<1>6. CASE RequestDeforestationReport(c, j)
  BY <1>6 DEF RequestDeforestationReport, Becomes, history
<1>7. CASE HoldForCallback(c, j)
  BY <1>7 DEF HoldForCallback, Becomes, history
<1>8. CASE SaveJob(c, j)
  BY <1>8 DEF SaveJob, Becomes, history
<1>9. CASE FailJob(c, j)
  BY <1>9 DEF FailJob, Becomes, history
<1>10. CASE FailJobUnrecorded(c, j)
  BY <1>10 DEF FailJobUnrecorded, Becomes, history
<1> QED
  BY <1>1, <1>2, <1>3, <1>4, <1>5, <1>6, <1>7, <1>8, <1>9, <1>10 DEF ExecStep

LEMMA RunnersExec ==
    ASSUME TypeOK, Runners, NEW c \in Calls, NEW j \in Jobs,
           ExecStep(c, j) \/ FailJob(c, j) \/ FailJobUnrecorded(c, j)
    PROVE  Runners' /\ call' = call /\ call[c].pc = "running"
<1>1. /\ UNCHANGED <<srv, call, deaf>>
      /\ exec[c][j].pc # "none"
      /\ \E e : exec' = [exec EXCEPT ![c][j] = e]
  BY ExecFrame
<1>2. call[c].pc = "running"
  BY <1>1 DEF Runners
<1>3. \A d \in Calls, k \in Jobs : exec'[d][k].pc # "none" => call[d].pc = "running"
  BY <1>1, <1>2 DEF Runners, TypeOK
<1> QED
  BY <1>1, <1>2, <1>3 DEF Runners

LEMMA RunnersCall ==
    ASSUME TypeOK, Runners, NEW c \in Calls, CallStep(c) \/ PollError(c)
    PROVE  Runners'
<1> USE ConstantsAssumption
<1>h. Home[c] \in Servers
  OBVIOUS
<1>t. /\ srv \in [Servers -> Process] /\ call \in [Calls -> Invocation]
      /\ exec \in [Calls -> [Jobs -> Executor]]
  BY DEF TypeOK
\* An invocation that runs nothing moves without starting a runner.
<1>q. ASSUME call[c].pc # "running", exec' = exec,
             \A d \in Calls : d # c => call'[d] = call[d],
             \A s \in Servers : srv'[s].isRunning => srv[s].isRunning
      PROVE  Runners'
  BY <1>q DEF Runners
<1>1. CASE InitJobsProcessing(c)
  BY <1>1, <1>q, <1>t DEF InitJobsProcessing
<1>2. CASE PendingJobIdsByPriority(c)
  <2>1. CASE FoundNothing(c)
    BY <1>2, <2>1, <1>q, <1>t, <1>h DEF PendingJobIdsByPriority, FoundNothing, Process
  <2>2. CASE ~FoundNothing(c)
    BY <1>2, <2>2, <1>q, <1>t DEF PendingJobIdsByPriority
  <2> QED
    BY <2>1, <2>2
<1>3. CASE PendingByPriority(c)
  <2>1. CASE FoundNothing(c)
    BY <1>3, <2>1, <1>q, <1>t, <1>h DEF PendingByPriority, FoundNothing, Process
  <2>2. CASE ~FoundNothing(c)
    <3>1. /\ call' = [call EXCEPT ![c] = [pc |-> "running", ids |-> {}]]
          /\ srv' = [srv EXCEPT ![Home[c]].isRunning = TRUE]
          /\ \A d \in Calls : d # c => exec'[d] = exec[d]
      BY <1>3, <2>2, <1>t DEF PendingByPriority
    <3>2. call'[c].pc = "running" /\ \A d \in Calls : d # c => call'[d] = call[d]
      BY <3>1, <1>t
    <3>3. \A s \in Servers : s # Home[c] => srv'[s] = srv[s]
      BY <3>1, <1>t
    <3>4. ASSUME NEW s \in Servers, srv'[s].isRunning
          PROVE  \E d \in Calls : Home[d] = s /\ call'[d].pc = "running"
      <4>1. CASE s = Home[c]
        BY <4>1, <3>2
      <4>2. CASE s # Home[c]
        BY <4>2, <3>2, <3>3, <3>4 DEF Runners
      <4> QED
        BY <4>1, <4>2
    <3>5. \A d \in Calls, j \in Jobs : exec'[d][j].pc # "none" => call'[d].pc = "running"
      BY <3>1, <3>2 DEF Runners
    <3> QED
      BY <3>4, <3>5 DEF Runners
  <2> QED
    BY <2>1, <2>2
<1>4. CASE EndRun(c)
  <2>1. /\ exec' = exec /\ \A j \in Jobs : exec[c][j].pc = "none"
        /\ \A d \in Calls : d # c => call'[d] = call[d]
        /\ srv' = [srv EXCEPT ![Home[c]].isRunning = FALSE]
    BY <1>4, <1>t DEF EndRun
  <2>2. ~srv'[Home[c]].isRunning /\ \A s \in Servers : s # Home[c] => srv'[s] = srv[s]
    BY <2>1, <1>t, <1>h DEF Process
  <2> QED
    BY <2>1, <2>2 DEF Runners
<1>5. CASE PollError(c)
  BY <1>5, <1>q, <1>t DEF PollError
<1> QED
  BY <1>1, <1>2, <1>3, <1>4, <1>5 DEF CallStep

LEMMA RunnersProcess ==
    ASSUME TypeOK, Runners, NEW s \in Servers,
           Crash(s) \/ Shutdown(s) \/ \E c \in Calls : Restart(s, c)
    PROVE  Runners'
<1> USE ConstantsAssumption
<1>t. /\ srv \in [Servers -> Process] /\ call \in [Calls -> Invocation]
      /\ exec \in [Calls -> [Jobs -> Executor]]
  BY DEF TypeOK
<1>1. ASSUME Vanish(s) PROVE Runners'
  <2>1. ~srv'[s].isRunning /\ \A r \in Servers : r # s => srv'[r] = srv[r]
    BY <1>1, <1>t DEF Vanish, Gone
  <2>2. \A c \in Calls : Home[c] # s => call'[c] = call[c] /\ exec'[c] = exec[c]
    BY <1>1 DEF Vanish
  <2>3. \A c \in Calls, j \in Jobs : Home[c] = s => exec'[c][j].pc = "none"
    BY <1>1 DEF Vanish, NoExec
  <2> QED
    BY <2>1, <2>2, <2>3 DEF Runners
<1>2. ASSUME NEW c \in Calls, Restart(s, c) PROVE Runners'
  <2>1. ~srv'[s].isRunning /\ \A r \in Servers : r # s => srv'[r] = srv[r]
    BY <1>2, <1>t DEF Restart, Fresh
  <2>2. exec' = exec /\ call[c].pc = "idle" /\ \A d \in Calls : d # c => call'[d] = call[d]
    BY <1>2, <1>t DEF Restart
  <2> QED
    BY <2>1, <2>2 DEF Runners
<1>3. ASSUME PauseQueue(s) \/ \E v \in Services : PauseJobs(s, v) PROVE Runners'
  <2>1. \A r \in Servers : srv'[r].isRunning = srv[r].isRunning
    <3>1. CASE PauseQueue(s)
      BY <3>1, <1>t DEF PauseQueue, Process
    <3>2. ASSUME NEW v \in Services, PauseJobs(s, v)
          PROVE  \A r \in Servers : srv'[r].isRunning = srv[r].isRunning
      <4>1. srv' = [srv EXCEPT ![s].draining = @ \cup {v}]
        BY <3>2 DEF PauseJobs
      <4> QED
        BY <4>1, <1>t DEF Process
    <3> QED
      BY <1>3, <3>1, <3>2
  <2>2. call' = call /\ exec' = exec
    BY <1>3 DEF PauseQueue, PauseJobs
  <2> QED
    BY <2>1, <2>2 DEF Runners
<1> QED
  BY <1>1, <1>2, <1>3 DEF Crash, Exit, Shutdown

LEMMA RunnersEnvironment ==
    ASSUME TypeOK, Runners,
           Environment \/ \E j \in Jobs : \E id \in pendingCb[j] : CallbackError(j, id)
    PROVE  Runners'
<1>t. call \in [Calls -> Invocation]
  BY DEF TypeOK
<1>q. ASSUME NEW c \in Calls, call[c].pc = "idle", exec' = exec, srv' = srv,
             call' = [call EXCEPT ![c].pc = "init"]
      PROVE  Runners'
  <2>1. \A d \in Calls : d # c => call'[d] = call[d]
    BY <1>q, <1>t
  <2> QED
    BY <1>q, <2>1 DEF Runners
<1>s. ASSUME exec' = exec, srv' = srv, call' = call PROVE Runners'
  BY <1>s DEF Runners
<1>1. CASE \E j \in Jobs : BecomeDue(j)
  BY <1>1, <1>s DEF BecomeDue
<1>2. CASE \E j \in Jobs, c \in Calls : Create(j, c)
  BY <1>2, <1>q DEF Create
<1>3. ASSUME NEW j \in Jobs, NEW c \in Calls, NEW id \in pendingCb[j], Callback(j, id, c)
      PROVE  Runners'
  <2>1. exec' = exec /\ srv' = srv
    BY <1>3 DEF Callback
  <2>2. call' = call \/ (call[c].pc = "idle" /\ call' = [call EXCEPT ![c].pc = "init"])
    BY <1>3 DEF Callback
  <2> QED
    BY <1>q, <1>s, <2>1, <2>2
<1>4. CASE \E j \in Jobs : \E id \in pendingCb[j] : CallbackError(j, id)
  BY <1>4, <1>s DEF CallbackError
<1> QED
  BY <1>1, <1>2, <1>3, <1>4 DEF Environment

LEMMA RunnersNext == ASSUME TypeOK, Runners, [Next]_vars PROVE Runners'
<1>1. CASE UNCHANGED vars
  BY <1>1 DEF vars, Runners
<1>2. CASE Next
  BY <1>2, RunnersCall, RunnersExec, RunnersEnvironment, RunnersProcess DEF Next, Fault
<1> QED
  BY <1>1, <1>2

LEMMA WakeInit == Init => WakeInv
BY DEF Init, WakeInv, Ready

\* A runner that executes a job polls again when it has finished.
LEMMA WakeExec ==
    ASSUME TypeOK, Runners, NEW c \in Calls, NEW j \in Jobs,
           ExecStep(c, j) \/ FailJob(c, j) \/ FailJobUnrecorded(c, j)
    PROVE  WakeInv'
<1>1. call'[c].pc = "running"
  BY RunnersExec
<1> QED
  BY <1>1 DEF WakeInv, WillPoll

LEMMA WakeCall ==
    ASSUME TypeOK, Runners, WakeInv, NEW c \in Calls, CallStep(c) \/ PollError(c)
    PROVE  WakeInv'
<1> USE ConstantsAssumption
<1>h. Home[c] \in Servers
  OBVIOUS
<1>t. srv \in [Servers -> Process] /\ call \in [Calls -> Invocation] /\ deaf \subseteq Servers
  BY DEF TypeOK
<1>row. row' = row /\ Ready' = Ready
  BY DEF CallStep, InitJobsProcessing, PendingJobIdsByPriority, PendingByPriority,
         EndRun, PollError, Ready
<1>d. \A d \in Calls : d # c => call'[d] = call[d]
  BY <1>t DEF CallStep, InitJobsProcessing, PendingJobIdsByPriority, PendingByPriority,
         FoundNothing, EndRun, PollError
<1>srv. \A s \in Servers : srv'[s].up = srv[s].up /\ srv'[s].shouldPause = srv[s].shouldPause
  <2>1. srv' = srv \/ (\E b \in BOOLEAN : srv' = [srv EXCEPT ![Home[c]].isRunning = b])
    BY DEF CallStep, InitJobsProcessing, PendingJobIdsByPriority, PendingByPriority,
           FoundNothing, EndRun, PollError
  <2> QED
    BY <2>1, <1>t DEF Process
\* A server whose poll threw is heard again only by a poll that begins.
<1>deaf. deaf \subseteq deaf' \/ call'[c].pc = "ids"
  <2>1. deaf \subseteq deaf' \/ call' = [call EXCEPT ![c].pc = "ids"]
    <3>1. CASE InitJobsProcessing(c)
      BY <3>1 DEF InitJobsProcessing
    <3>2. CASE EndRun(c)
      BY <3>2 DEF EndRun
    <3>3. CASE PendingJobIdsByPriority(c) \/ PendingByPriority(c) \/ PollError(c)
      BY <3>3 DEF PendingJobIdsByPriority, PendingByPriority, PollError, history
    <3> QED
      BY <3>1, <3>2, <3>3 DEF CallStep
  <2>2. call' = [call EXCEPT ![c].pc = "ids"] => call'[c].pc = "ids"
    BY <1>t DEF Invocation
  <2> QED
    BY <2>1, <2>2
<1> SUFFICES ASSUME Ready \ Delayed # {}
             PROVE  Excused' \/ \E d \in Calls : WillPoll(d)'
  BY <1>row DEF WakeInv
<1>1. CASE Excused
  BY <1>1, <1>srv, <1>deaf DEF Excused, WillPoll
<1>2. ASSUME NEW d \in Calls, d # c, WillPoll(d) PROVE WillPoll(d)'
  BY <1>2, <1>row, <1>d DEF WillPoll
<1>3. ASSUME WillPoll(c) PROVE Excused' \/ \E d \in Calls : WillPoll(d)'
  <2>1. CASE InitJobsProcessing(c)
    <3>1. CASE srv[Home[c]].shouldPause
      BY <3>1, <1>srv, <1>h DEF Excused
    <3>2. CASE srv[Home[c]].isRunning
      <4>1. PICK e \in Calls : call[e].pc = "running"
        BY <3>2, <1>h DEF Runners
      <4>2. e # c
        BY <4>1, <2>1 DEF InitJobsProcessing
      <4> QED
        BY <4>1, <4>2, <1>2 DEF WillPoll
    <3>3. CASE ~Busy(Home[c])
      <4>1. call' = [call EXCEPT ![c].pc = "ids"]
        BY <2>1, <3>3 DEF InitJobsProcessing
      <4> QED
        BY <4>1, <1>t DEF WillPoll, Invocation
    <3> QED
      BY <3>1, <3>2, <3>3 DEF Busy
  <2>2. CASE PendingJobIdsByPriority(c)
    <3>1. PICK T \in TopByPriority(Ready) : call' = [call EXCEPT ![c] = [pc |-> "rows", ids |-> T]]
      BY <2>2 DEF PendingJobIdsByPriority
    <3>2. Ready \subseteq Jobs
      BY DEF Ready
    <3>3. T # {} /\ T \subseteq Ready
      BY <3>2, TopNonEmpty
    <3>4. call'[c] = [pc |-> "rows", ids |-> T]
      BY <3>1, <1>t
    <3> QED
      BY <3>3, <3>4, <1>row DEF WillPoll, Ready
  <2>3. CASE PendingByPriority(c)
    <3>1. \E j \in call[c].ids : row[j].status = "PENDING"
      BY <1>3, <2>3 DEF WillPoll, PendingByPriority
    <3>2. call' = [call EXCEPT ![c] = [pc |-> "running", ids |-> {}]]
      BY <2>3, <3>1 DEF PendingByPriority
    <3> QED
      BY <3>2, <1>t DEF WillPoll
  <2>4. CASE EndRun(c)
    <3>1. CASE srv[Home[c]].shouldPause
      BY <3>1, <1>srv, <1>h DEF Excused
    <3>2. CASE ~srv[Home[c]].shouldPause
      <4>1. call' = [call EXCEPT ![c].pc = "ids"]
        BY <2>4, <3>2 DEF EndRun
      <4> QED
        BY <4>1, <1>t DEF WillPoll, Invocation
    <3> QED
      BY <3>1, <3>2
  <2>5. CASE PollError(c)
    BY <2>5, <1>h DEF PollError, Excused
  <2> QED
    BY <2>1, <2>2, <2>3, <2>4, <2>5 DEF CallStep
<1> QED
  BY <1>1, <1>2, <1>3 DEF WakeInv

LEMMA WakeProcess ==
    ASSUME TypeOK, WakeInv, NEW s \in Servers,
           Crash(s) \/ Shutdown(s) \/ \E c \in Calls : Restart(s, c)
    PROVE  WakeInv'
<1>t. srv \in [Servers -> Process] /\ call \in [Calls -> Invocation]
  BY DEF TypeOK
<1>1. ASSUME Vanish(s) PROVE WakeInv'
  <2>1. ~srv'[s].up
    BY <1>1, <1>t DEF Vanish, Gone
  <2> QED
    BY <2>1 DEF WakeInv, Excused
<1>2. ASSUME NEW c \in Calls, Restart(s, c) PROVE WakeInv'
  <2>1. call' = [call EXCEPT ![c].pc = "ids"]
    BY <1>2 DEF Restart
  <2>2. WillPoll(c)'
    BY <2>1, <1>t DEF WillPoll, Invocation
  <2> QED
    BY <2>2 DEF WakeInv
<1>3. CASE PauseQueue(s)
  <2>1. srv' = [srv EXCEPT ![s].shouldPause = TRUE]
    BY <1>3 DEF PauseQueue
  <2>2. srv'[s].shouldPause
    BY <2>1, <1>t DEF Process
  <2> QED
    BY <2>2 DEF WakeInv, Excused
<1>4. ASSUME NEW v \in Services, PauseJobs(s, v) PROVE WakeInv'
  <2>1. srv' = [srv EXCEPT ![s].draining = @ \cup {v}]
    BY <1>4 DEF PauseJobs
  <2>2. \A r \in Servers : srv'[r].up = srv[r].up /\ srv'[r].shouldPause = srv[r].shouldPause
    BY <2>1, <1>t DEF Process
  <2>3. row' = row /\ call' = call /\ deaf' = deaf
    BY <1>4 DEF PauseJobs, history
  <2> QED
    BY <2>2, <2>3 DEF WakeInv, Excused, WillPoll, Ready
<1> QED
  BY <1>1, <1>2, <1>3, <1>4 DEF Crash, Exit, Shutdown

\* Every job that begins to wait is announced to the process it was written by.
LEMMA WakeEnvironment ==
    ASSUME TypeOK, WakeInv,
           Environment \/ \E j \in Jobs : \E id \in pendingCb[j] : CallbackError(j, id)
    PROVE  WakeInv'
<1>t. row \in [Jobs -> Row] /\ call \in [Calls -> Invocation]
  BY DEF TypeOK
<1>q. ASSUME NEW c \in Calls, call' = [call EXCEPT ![c].pc = "init"] PROVE WakeInv'
  <2>1. WillPoll(c)'
    BY <1>q, <1>t DEF WillPoll, Invocation
  <2> QED
    BY <2>1 DEF WakeInv
<1>s. ASSUME row' = row, srv' = srv, call' = call, deaf' = deaf PROVE WakeInv'
  BY <1>s DEF WakeInv, Excused, WillPoll, Ready
<1>1. ASSUME NEW j \in Jobs, BecomeDue(j) PROVE WakeInv'
  <2>1. row' = [row EXCEPT ![j].due = TRUE] /\ j \in Delayed
    BY <1>1 DEF BecomeDue
  <2>2. /\ \A k \in Jobs : row'[k].status = row[k].status
        /\ \A k \in Jobs \ Delayed : row'[k].due = row[k].due
    BY <2>1, <1>t DEF Row
  <2>3. srv' = srv /\ call' = call /\ deaf' = deaf
    BY <1>1 DEF BecomeDue, history
  <2>4. Ready' \ Delayed = Ready \ Delayed
    BY <2>2 DEF Ready
  <2>5. ASSUME NEW c \in Calls, WillPoll(c) PROVE WillPoll(c)'
    BY <2>5, <2>2, <2>3, <1>t DEF WillPoll, Invocation
  <2> QED
    BY <2>3, <2>4, <2>5 DEF WakeInv, Excused
<1>2. CASE \E j \in Jobs, c \in Calls : Create(j, c)
  BY <1>2, <1>q DEF Create
<1>3. ASSUME NEW j \in Jobs, NEW c \in Calls, NEW id \in pendingCb[j], Callback(j, id, c)
      PROVE  WakeInv'
  BY <1>3, <1>q, <1>s DEF Callback
<1>4. CASE \E j \in Jobs : \E id \in pendingCb[j] : CallbackError(j, id)
  BY <1>4, <1>s DEF CallbackError
<1> QED
  BY <1>1, <1>2, <1>3, <1>4 DEF Environment

LEMMA WakeNext == ASSUME TypeOK, Runners, WakeInv, [Next]_vars PROVE WakeInv'
<1>1. CASE UNCHANGED vars
  BY <1>1 DEF vars, history, WakeInv, Excused, WillPoll, Ready
<1>2. CASE Next
  BY <1>2, WakeCall, WakeExec, WakeEnvironment, WakeProcess DEF Next, Fault
<1> QED
  BY <1>1, <1>2

LEMMA WakeImplies == ASSUME WakeInv PROVE NoLostWakeup
BY DEF WakeInv, Excused, WillPoll, NoLostWakeup

\* No lost wake-up, for any number of processes, invocations, jobs and faults:
\* a due job waits only while some invocation has yet to poll, or some process
\* is down, shutting down, or has seen its poll throw.
THEOREM WaitingIsPolled == Spec => []NoLostWakeup
<1>1. Spec => [](TypeOK /\ Runners /\ WakeInv)
  <2>1. Init => TypeOK /\ Runners /\ WakeInv
    BY InitType, RunnersInit, WakeInit
  <2>2. TypeOK /\ Runners /\ WakeInv /\ [Next]_vars => (TypeOK /\ Runners /\ WakeInv)'
    BY NextType, RunnersNext, WakeNext
  <2> QED
    BY <2>1, <2>2, PTL DEF Spec
<1> QED
  BY <1>1, WakeImplies, PTL

-----------------------------------------------------------------------------
(* No orphans but the lost.                                                  *)

Reserving(e) == e.pc \notin {"none", "reserve"} /\ e.saved = "PROCESSING"

LEMMA OrphanInit == Init => OrphanInv
BY DEF Init, OrphanInv, NoExec

\* What an executor's step owes the others: it ends on no "PROCESSING", and the
\* row is left at "PROCESSING" only by an instance that last saved that itself,
\* or that did not write at all.
LEMMA OrphanStep ==
    ASSUME TypeOK, OrphanInv, NEW c \in Calls, NEW j \in Jobs, NEW e,
           exec' = [exec EXCEPT ![c][j] = e],
           \A k \in Jobs : k # j => row'[k] = row[k] /\ (k \in lost => k \in lost'),
           e.pc = "save" => e.status # "PROCESSING",
           row'[j].status = "PROCESSING" /\ j \notin lost' =>
              \/ Reserving(e)
              \/ row[j].status = "PROCESSING" /\ j \notin lost /\ ~Reserving(exec[c][j])
    PROVE  OrphanInv'
<1>t. exec \in [Calls -> [Jobs -> Executor]]
  BY DEF TypeOK
<1>1. /\ exec'[c][j] = e
      /\ \A d \in Calls, k \in Jobs : d # c \/ k # j => exec'[d][k] = exec[d][k]
  BY <1>t
<1>2. \A d \in Calls, k \in Jobs : exec'[d][k].pc = "save" => exec'[d][k].status # "PROCESSING"
  BY <1>1 DEF OrphanInv
<1>3. ASSUME NEW k \in Jobs, row'[k].status = "PROCESSING", k \notin lost'
      PROVE  \E d \in Calls : Reserving(exec'[d][k])
  <2>1. CASE k # j
    <3>1. PICK d \in Calls : Reserving(exec[d][k])
      BY <1>3, <2>1 DEF OrphanInv, Reserving
    <3> QED
      BY <3>1, <1>1, <2>1
  <2>2. CASE k = j /\ Reserving(e)
    BY <2>2, <1>1
  <2>3. CASE k = j /\ ~Reserving(e)
    <3>1. PICK d \in Calls : Reserving(exec[d][j])
      BY <1>3, <2>3 DEF OrphanInv, Reserving
    <3>2. d # c
      BY <3>1, <1>3, <2>3
    <3> QED
      BY <3>1, <3>2, <1>1, <2>3
  <2> QED
    BY <2>1, <2>2, <2>3
<1> QED
  BY <1>2, <1>3 DEF OrphanInv, Reserving

\* An update of j's row leaves the others alone and has the status it is given.
LEMMA RowStatus ==
    ASSUME NEW r \in [Jobs -> Row], NEW j \in Jobs, NEW q, NEW n, NEW a, NEW x
    PROVE  /\ [r EXCEPT ![j].status = q][j].status = q
           /\ [r EXCEPT ![j].status = q, ![j].done = n][j].status = q
           /\ [r EXCEPT ![j].status = q, ![j].done = n, ![j].attempts = a][j].status = q
           /\ [r EXCEPT ![j].status = q, ![j].ext = x][j].status = q
BY DEF Row

LEMMA OrphanExec ==
    ASSUME TypeOK, OrphanInv, NEW c \in Calls, NEW j \in Jobs,
           ExecStep(c, j) \/ FailJob(c, j) \/ FailJobUnrecorded(c, j)
    PROVE  OrphanInv'
<1>t. row \in [Jobs -> Row] /\ exec[c][j] \in Executor
  BY DEF TypeOK
<1>f. \A q : Written(j, exec[c][j].saved, q) = "PROCESSING" =>
          q = "PROCESSING" \/ (q = exec[c][j].saved /\ row[j].status = "PROCESSING")
  BY DEF Written
\* A save() of status q by an instance that then is e.
<1>w. ASSUME NEW e, NEW q, exec' = [exec EXCEPT ![c][j] = e], lost' = lost,
             \A k \in Jobs : k # j => row'[k] = row[k],
             row'[j].status = Written(j, exec[c][j].saved, q),
             q = "PROCESSING" => Reserving(e),
             e.pc # "save"
      PROVE  OrphanInv'
  <2>1. row'[j].status = "PROCESSING" =>
           Reserving(e) \/ (row[j].status = "PROCESSING" /\ ~Reserving(exec[c][j]))
    BY <1>w, <1>f DEF Reserving
  <2> QED
    BY <1>w, <2>1, OrphanStep
\* A step that only changes the instance, to one that ends on no "PROCESSING".
<1>n. ASSUME NEW e, exec' = [exec EXCEPT ![c][j] = e], lost' = lost, row' = row,
             e.pc = "save" => e.status # "PROCESSING",
             Reserving(exec[c][j]) => Reserving(e)
      PROVE  OrphanInv'
  BY <1>n, OrphanStep
<1>1. CASE Reserve(c, j)
  <2> DEFINE e == Reserved(exec[c][j])
  <2>1. /\ exec' = [exec EXCEPT ![c][j] = e] /\ lost' = lost \ {j}
        /\ \A k \in Jobs : k # j => row'[k] = row[k]
    BY <1>1 DEF Reserve, Becomes
  <2>2. Reserving(e) /\ (e.pc = "save" => e.status # "PROCESSING")
    BY <1>t DEF Reserved, Reserving, Executor
  <2> HIDE DEF e
  <2> QED
    BY <2>1, <2>2, OrphanStep
<1>2. CASE RunBatch(c, j)
  <2> DEFINE q == IF exec[c][j].done + 1 = Batches[j] THEN "COMPLETED"
                  ELSE IF Draining(c, j) THEN "PENDING" ELSE "PROCESSING"
             e == [Saved(exec[c][j], q) EXCEPT !.done = @ + 1]
  <2>1. /\ exec' = [exec EXCEPT ![c][j] = e] /\ lost' = lost
        /\ row' = [row EXCEPT ![j].status = Written(j, exec[c][j].saved, q),
                              ![j].done = exec[c][j].done + 1]
    BY <1>2 DEF RunBatch, Becomes, history
  <2>2. e.pc = "saved" /\ e.saved = q
    BY <1>t DEF Saved, Executor
  <2> HIDE DEF e, q
  <2>3. /\ row'[j].status = Written(j, exec[c][j].saved, q)
        /\ \A k \in Jobs : k # j => row'[k] = row[k]
    BY <2>1, <1>t, RowStatus
  <2> QED
    BY <1>w, <2>1, <2>2, <2>3 DEF Reserving
<1>3. CASE AfterSave(c, j)
  <2> DEFINE m == MarkJobAsComplete(exec[c][j], Draining(c, j))
  <2>1. row' = row /\ lost' = lost /\ exec[c][j].pc = "saved"
    BY <1>3 DEF AfterSave, history
  <2>2. \/ exec' = [exec EXCEPT ![c][j] = [exec[c][j] EXCEPT !.pc = "work"]]
        \/ exec' = [exec EXCEPT ![c][j] = m]
    BY <1>3 DEF AfterSave, Becomes
  <2>3. m.status # "PROCESSING"
    BY <1>t DEF MarkJobAsComplete, Executor
  <2>4. m.pc = "save" /\ m.saved = exec[c][j].saved
    BY <1>t DEF MarkJobAsComplete, Executor
  <2>5. Reserving(exec[c][j]) => Reserving(m)
    BY <2>4 DEF Reserving
  <2> HIDE DEF m
  <2>6. CASE exec' = [exec EXCEPT ![c][j] = m]
    BY <1>n, <2>1, <2>3, <2>5, <2>6
  <2>7. CASE exec' = [exec EXCEPT ![c][j] = [exec[c][j] EXCEPT !.pc = "work"]]
    <3>1. /\ [exec[c][j] EXCEPT !.pc = "work"].pc = "work"
          /\ [exec[c][j] EXCEPT !.pc = "work"].saved = exec[c][j].saved
      BY <1>t DEF Executor
    <3> QED
      BY <1>n, <2>1, <2>7, <3>1 DEF Reserving
  <2> QED
    BY <2>2, <2>6, <2>7
<1>4. CASE NoBatchLeft(c, j)
  <2> DEFINE m == MarkJobAsComplete([exec[c][j] EXCEPT !.status = "COMPLETED"], Draining(c, j))
  <2>1. /\ row' = row /\ lost' = lost /\ exec' = [exec EXCEPT ![c][j] = m]
        /\ exec[c][j].pc = "work"
    BY <1>4 DEF NoBatchLeft, Becomes, history
  <2>2. m.pc = "save" /\ m.saved = exec[c][j].saved /\ m.status # "PROCESSING"
    BY <1>t DEF MarkJobAsComplete, Executor
  <2> HIDE DEF m
  <2> QED
    BY <1>n, <2>1, <2>2 DEF Reserving
<1>5. CASE RunWarning(c, j)
  <2> DEFINE q == "COMPLETED"
             e == Saved(exec[c][j], q)
  <2>1. /\ exec' = [exec EXCEPT ![c][j] = e] /\ lost' = lost
        /\ row' = [row EXCEPT ![j].status = Written(j, exec[c][j].saved, q)]
    BY <1>5 DEF RunWarning, Becomes, history
  <2>2. q # "PROCESSING" /\ e.pc = "saved"
    BY <1>t DEF Saved, Executor
  <2> HIDE DEF q, e
  <2>3. row'[j].status = Written(j, exec[c][j].saved, q)
    BY <2>1, <1>t, RowStatus
  <2>4. \A k \in Jobs : k # j => row'[k] = row[k]
    BY <2>1, <1>t
  <2> QED
    BY <1>w, <2>1, <2>2, <2>3, <2>4 DEF Reserving
<1>6. CASE RequestDeforestationReport(c, j)
  <2> DEFINE q == "COMPLETED"
             e == Saved(exec[c][j], q)
             x == [exec[c][j] EXCEPT !.pc = "asked", !.ext = reqs[j] + 1]
  <2>1. lost' = lost /\ \/ /\ exec' = [exec EXCEPT ![c][j] = e]
                           /\ row' = [row EXCEPT ![j].status =
                                        Written(j, exec[c][j].saved, q)]
                        \/ exec' = [exec EXCEPT ![c][j] = x] /\ row' = row
    BY <1>6 DEF RequestDeforestationReport, Becomes, history
  <2>2. e.pc = "saved" /\ q # "PROCESSING" /\ x.pc = "asked" /\ x.saved = exec[c][j].saved
    BY <1>t DEF Saved, Executor
  <2> HIDE DEF q, e, x
  <2>3. CASE exec' = [exec EXCEPT ![c][j] = x] /\ row' = row
    BY <1>n, <2>1, <2>2, <2>3 DEF Reserving
  <2>4. CASE /\ exec' = [exec EXCEPT ![c][j] = e]
             /\ row' = [row EXCEPT ![j].status = Written(j, exec[c][j].saved, q)]
    <3>1. row'[j].status = Written(j, exec[c][j].saved, q)
      BY <2>4, <1>t, RowStatus
    <3>2. \A k \in Jobs : k # j => row'[k] = row[k]
      BY <2>4, <1>t
    <3> QED
      BY <1>w, <2>1, <2>2, <2>4, <3>1, <3>2 DEF Reserving
  <2> QED
    BY <2>1, <2>3, <2>4
<1>7. CASE HoldForCallback(c, j)
  <2> DEFINE q == "ON HOLD"
             e == Saved(exec[c][j], q)
  <2>1. /\ exec' = [exec EXCEPT ![c][j] = e] /\ lost' = lost
        /\ row' = [row EXCEPT ![j].status = Written(j, exec[c][j].saved, q),
                              ![j].ext = exec[c][j].ext]
    BY <1>7 DEF HoldForCallback, Becomes, history
  <2>2. q # "PROCESSING" /\ e.pc = "saved"
    BY <1>t DEF Saved, Executor
  <2> HIDE DEF q, e
  <2>3. row'[j].status = Written(j, exec[c][j].saved, q)
    BY <2>1, <1>t, RowStatus
  <2>4. \A k \in Jobs : k # j => row'[k] = row[k]
    BY <2>1, <1>t
  <2> QED
    BY <1>w, <2>1, <2>2, <2>3, <2>4 DEF Reserving
<1>8. CASE SaveJob(c, j)
  <2>1. /\ exec' = [exec EXCEPT ![c][j] = NoExec] /\ lost' = lost
        /\ row' = [row EXCEPT ![j].status =
                      Written(j, exec[c][j].saved, exec[c][j].status)]
        /\ exec[c][j].status # "PROCESSING"
    BY <1>8 DEF SaveJob, Becomes, history, OrphanInv
  <2>2. row'[j].status = Written(j, exec[c][j].saved, exec[c][j].status)
    BY <2>1, <1>t, RowStatus
  <2>3. \A k \in Jobs : k # j => row'[k] = row[k]
    BY <2>1, <1>t
  <2>4. NoExec.pc # "save"
    BY DEF NoExec
  <2> QED
    BY <1>w, <2>1, <2>2, <2>3, <2>4
<1>9. CASE FailJob(c, j)
  <2> DEFINE q == IF exec[c][j].attempts > 0 THEN "PENDING" ELSE "FAILED"
  <2>1. /\ exec' = [exec EXCEPT ![c][j] = NoExec] /\ lost' = lost
        /\ \E n, a : row' = [row EXCEPT ![j].status = Written(j, exec[c][j].saved, q),
                                        ![j].done = n, ![j].attempts = a]
    BY <1>9 DEF FailJob, Becomes, history
  <2>2. q # "PROCESSING" /\ NoExec.pc # "save"
    BY DEF NoExec
  <2> HIDE DEF q
  <2>3. PICK n, a : row' = [row EXCEPT ![j].status = Written(j, exec[c][j].saved, q),
                                       ![j].done = n, ![j].attempts = a]
    BY <2>1
  <2>4. row'[j].status = Written(j, exec[c][j].saved, q)
    BY <2>3, <1>t, RowStatus
  <2>5. \A k \in Jobs : k # j => row'[k] = row[k]
    BY <2>3, <1>t
  <2> QED
    BY <1>w, <2>1, <2>2, <2>4, <2>5
<1>10. CASE FailJobUnrecorded(c, j)
  <2>1. /\ exec' = [exec EXCEPT ![c][j] = NoExec] /\ row' = row /\ lost \subseteq lost'
        /\ exec[c][j].pc = "reserve" \/ j \in lost'
        /\ exec[c][j].pc = "reserve" => lost' = lost
    BY <1>10 DEF FailJobUnrecorded, Becomes
  <2>2. NoExec.pc = "none"
    BY DEF NoExec
  <2> QED
    BY <2>1, <2>2, OrphanStep DEF Reserving
<1> QED
  BY <1>1, <1>2, <1>3, <1>4, <1>5, <1>6, <1>7, <1>8, <1>9, <1>10 DEF ExecStep

LEMMA OrphanCall ==
    ASSUME TypeOK, Runners, OrphanInv, NEW c \in Calls, CallStep(c) \/ PollError(c)
    PROVE  OrphanInv'
<1>t. exec \in [Calls -> [Jobs -> Executor]]
  BY DEF TypeOK
<1>1. row' = row /\ lost' = lost
  BY DEF CallStep, InitJobsProcessing, PendingJobIdsByPriority, PendingByPriority,
         EndRun, PollError, history
<1>2. CASE exec' = exec
  BY <1>1, <1>2 DEF OrphanInv
\* The instances a poll loads replace none: their call was executing nothing.
<1>3. CASE PendingByPriority(c) /\ exec' # exec
  <2>1. /\ \A d \in Calls : d # c => exec'[d] = exec[d]
        /\ \A j \in Jobs : exec'[c][j].pc \in {"none", "reserve"}
    BY <1>3, <1>t DEF PendingByPriority, FoundNothing, Loaded, NoExec
  <2>2. \A j \in Jobs : exec[c][j].pc = "none"
    BY <1>3 DEF PendingByPriority, Runners
  <2>3. \A d \in Calls, j \in Jobs : exec[d][j].pc \notin {"none", "reserve"} => exec'[d][j] = exec[d][j]
    BY <2>1, <2>2
  <2>4. \A d \in Calls, j \in Jobs : exec'[d][j].pc = "save" => exec'[d][j] = exec[d][j]
    BY <2>1
  <2> QED
    BY <1>1, <2>3, <2>4 DEF OrphanInv
<1> QED
  BY <1>2, <1>3 DEF CallStep, InitJobsProcessing, PendingJobIdsByPriority, FoundNothing,
                    EndRun, PollError

LEMMA OrphanEnvironment ==
    ASSUME TypeOK, OrphanInv,
           Environment \/ \E j \in Jobs : \E id \in pendingCb[j] : CallbackError(j, id)
    PROVE  OrphanInv'
<1>t. row \in [Jobs -> Row]
  BY DEF TypeOK
<1>1. exec' = exec /\ lost' = lost
  BY DEF Environment, BecomeDue, Create, Callback, CallbackError, history
<1>2. \A k \in Jobs : row'[k].status = "PROCESSING" => row[k].status = "PROCESSING"
  <2>1. ASSUME NEW j \in Jobs, NEW b, row' = [row EXCEPT ![j].status = "PENDING", ![j].due = b]
        PROVE  \A k \in Jobs : row'[k].status = "PROCESSING" => row[k].status = "PROCESSING"
    BY <2>1, <1>t DEF Row
  <2>2. ASSUME NEW j \in Jobs, NEW x, row' = [row EXCEPT ![j].status = "PENDING", ![j].cmd = x]
        PROVE  \A k \in Jobs : row'[k].status = "PROCESSING" => row[k].status = "PROCESSING"
    BY <2>2, <1>t DEF Row
  <2>3. ASSUME NEW j \in Jobs, row' = [row EXCEPT ![j].due = TRUE]
        PROVE  \A k \in Jobs : row'[k].status = "PROCESSING" => row[k].status = "PROCESSING"
    BY <2>3, <1>t DEF Row
  <2>4. CASE \E j \in Jobs, c \in Calls : Create(j, c)
    BY <2>1, <2>4 DEF Create
  <2>5. CASE \E j \in Jobs, c \in Calls : \E id \in pendingCb[j] : Callback(j, id, c)
    BY <2>2, <2>5 DEF Callback
  <2>6. CASE \E j \in Jobs : BecomeDue(j)
    BY <2>3, <2>6 DEF BecomeDue
  <2> QED
    BY <2>4, <2>5, <2>6 DEF Environment, CallbackError
<1> QED
  BY <1>1, <1>2 DEF OrphanInv

LEMMA OrphanProcess ==
    ASSUME TypeOK, OrphanInv, NEW s \in Servers,
           Crash(s) \/ Shutdown(s) \/ \E c \in Calls : Restart(s, c)
    PROVE  OrphanInv'
<1>1. ASSUME Vanish(s) PROVE OrphanInv'
  <2>1. \A c \in Calls, j \in Jobs : Home[c] = s => exec'[c][j].pc = "none"
    BY <1>1 DEF Vanish, NoExec
  <2>2. \A c \in Calls : Home[c] # s => exec'[c] = exec[c]
    BY <1>1 DEF Vanish
  <2>3. /\ row' = row /\ lost \subseteq lost'
        /\ \A c \in Calls, j \in Jobs :
              Home[c] = s /\ exec[c][j].pc \notin {"none", "reserve"} => j \in lost'
    BY <1>1 DEF Vanish
  <2> QED
    BY <2>1, <2>2, <2>3 DEF OrphanInv
<1>2. CASE UNCHANGED <<row, exec, lost>>
  BY <1>2 DEF OrphanInv
<1> QED
  BY <1>1, <1>2 DEF Crash, Exit, Shutdown, PauseQueue, PauseJobs, Restart, history

LEMMA OrphanNext == ASSUME TypeOK, Runners, OrphanInv, [Next]_vars PROVE OrphanInv'
<1>1. CASE UNCHANGED vars
  BY <1>1 DEF vars, history, OrphanInv
<1>2. CASE Next
  BY <1>2, OrphanCall, OrphanExec, OrphanEnvironment, OrphanProcess DEF Next, Fault
<1> QED
  BY <1>1, <1>2

\* No orphans but the lost, for any number of processes, polls, callbacks and
\* faults: a row says "PROCESSING" only while it is executed, or after its
\* executor vanished or failed without being able to write.
THEOREM ProcessingIsExecuted == Spec => []OrphansAreLost
<1>1. Spec => [](TypeOK /\ Runners /\ OrphanInv)
  <2>1. Init => TypeOK /\ Runners /\ OrphanInv
    BY InitType, RunnersInit, OrphanInit
  <2>2. TypeOK /\ Runners /\ OrphanInv /\ [Next]_vars => (TypeOK /\ Runners /\ OrphanInv)'
    BY NextType, RunnersNext, OrphanNext
  <2> QED
    BY <2>1, <2>2, PTL DEF Spec
<1>2. OrphanInv => OrphansAreLost
  BY DEF OrphanInv, OrphansAreLost
<1> QED
  BY <1>1, <1>2, PTL
-----------------------------------------------------------------------------
(* What one step of an execution does to an instance and to its row.         *)

\* A save() of status q, by an instance that knew `saved`, leaves this in the row.
Kept(r, saved, q) == IF q = saved THEN r.status ELSE q

SameInstance(e, f) == f.done = e.done /\ f.attempts = e.attempts /\ f.ext = e.ext
SameColumns(r, s)  == s.done = r.done /\ s.attempts = r.attempts /\ s.ext = r.ext

\* e and r become f and s; n is the number of batches, d tells whether the
\* service is draining.
Reserves(e, f, r, s) ==
    /\ e.pc = "reserve" /\ f.saved = "PROCESSING"
    /\ \/ f.pc = "work" /\ f.status = e.status
       \/ f.pc = "save" /\ f.status = "COMPLETED"
    /\ SameInstance(e, f) /\ SameColumns(r, s) /\ s.status = "PROCESSING"

RunsBatch(e, f, r, s, n, d) ==
    /\ e.pc = "work" /\ e.cmd \in Batched /\ e.done < n
    /\ f.pc = "saved" /\ f.saved = f.status
    /\ f.status = IF e.done + 1 = n THEN "COMPLETED"
                  ELSE IF d THEN "PENDING" ELSE "PROCESSING"
    /\ f.done = e.done + 1 /\ f.attempts = e.attempts /\ f.ext = e.ext
    /\ s.done = e.done + 1 /\ s.attempts = r.attempts /\ s.ext = r.ext
    /\ s.status = Kept(r, e.saved, f.status)

GoesOn(e, f, r, s, n, d) ==
    /\ e.pc = "saved" /\ e.cmd \in Batched /\ e.done < n /\ ~d
    /\ f.pc = "work" /\ f.status = e.status /\ f.saved = e.saved
    /\ SameInstance(e, f) /\ s = r

Finishes(e, f, r, s, n, d) ==
    /\ \/ e.pc = "saved" /\ ~(e.cmd \in Batched /\ e.done < n /\ ~d)
       \/ e.pc = "work"
    /\ f.pc = "save" /\ f.saved = e.saved
    /\ f.status = IF e.pc = "work" THEN "COMPLETED"
                  ELSE IF e.status = "ON HOLD" THEN e.status
                  ELSE IF d /\ e.status # "COMPLETED" THEN "PENDING" ELSE "COMPLETED"
    /\ SameInstance(e, f) /\ s = r

Completes(e, f, r, s) ==
    /\ e.pc = "work" /\ e.cmd \notin Batched
    /\ f.pc = "saved" /\ f.status = "COMPLETED" /\ f.saved = "COMPLETED"
    /\ SameInstance(e, f) /\ SameColumns(r, s)
    /\ s.status = Kept(r, e.saved, "COMPLETED")

Asks(e, f, r, s, id) ==
    /\ e.pc = "work" /\ e.cmd = "REQUEST"
    /\ f.pc = "asked" /\ f.status = e.status /\ f.saved = e.saved
    /\ f.done = e.done /\ f.attempts = e.attempts /\ f.ext = id /\ s = r

Holds(e, f, r, s) ==
    /\ e.pc = "asked"
    /\ f.pc = "saved" /\ f.status = "ON HOLD" /\ f.saved = "ON HOLD"
    /\ SameInstance(e, f)
    /\ s.done = r.done /\ s.attempts = r.attempts /\ s.ext = e.ext
    /\ s.status = Kept(r, e.saved, "ON HOLD")

EndsSaving(e, f, r, s) ==
    /\ e.pc = "save" /\ f.pc = "none"
    /\ SameColumns(r, s) /\ s.status = Kept(r, e.saved, e.status)

Fails(e, f, r, s) ==
    /\ e.pc # "none" /\ f.pc = "none" /\ (e.pc = "save" => e.status # e.saved)
    /\ s.done \in {e.done, e.done + 1} /\ s.ext = r.ext
    /\ s.attempts = (IF e.attempts > 0 THEN e.attempts - 1 ELSE 0)
    /\ s.status = Kept(r, e.saved, IF e.attempts > 0 THEN "PENDING" ELSE "FAILED")

Disappears(e, f, r, s) == e.pc # "none" /\ f.pc = "none" /\ s = r

\* What the step neither asks nor counts.
Quiet == UNCHANGED <<reqs, pendingCb, fails>>

Turn(c, j) ==
    LET e == exec[c][j]   f == exec'[c][j]
        r == row[j]       s == row'[j]
        n == Batches[j]   d == Draining(c, j) IN
    \/ Reserves(e, f, r, s) /\ Quiet
    \/ RunsBatch(e, f, r, s, n, d) /\ Quiet
    \/ GoesOn(e, f, r, s, n, d) /\ Quiet
    \/ Finishes(e, f, r, s, n, d) /\ Quiet
    \/ Completes(e, f, r, s) /\ Quiet
    \/ /\ Asks(e, f, r, s, reqs[j] + 1) /\ fails' = fails
       /\ reqs' = [reqs EXCEPT ![j] = @ + 1]
       /\ pendingCb' = [pendingCb EXCEPT ![j] = @ \cup {reqs[j] + 1}]
    \/ Holds(e, f, r, s) /\ Quiet
    \/ EndsSaving(e, f, r, s) /\ Quiet
    \/ Fails(e, f, r, s) /\ UNCHANGED <<reqs, pendingCb>> /\ fails' = [fails EXCEPT ![j] = @ + 1]
    \/ Disappears(e, f, r, s) /\ Quiet

\* The rest of the state.
Elsewhere(c, j) ==
    /\ UNCHANGED <<srv, call, answers, missed, overlap>>
    /\ \A d \in Calls, k \in Jobs : d # c \/ k # j => exec'[d][k] = exec[d][k]
    /\ \A k \in Jobs : k # j => row'[k] = row[k]
    /\ exec'[c][j].pc # "none" => exec'[c][j].cmd = exec[c][j].cmd
    /\ row'[j].cmd = row[j].cmd /\ row'[j].due = row[j].due

\* Updates of an instance and of a row touch one of each.
LEMMA ExecAt ==
    ASSUME NEW c \in Calls, NEW j \in Jobs, NEW f,
           exec \in [Calls -> [Jobs -> Executor]], Becomes(c, j, f)
    PROVE  /\ exec'[c][j] = f
           /\ \A d \in Calls, k \in Jobs : d # c \/ k # j => exec'[d][k] = exec[d][k]
BY DEF Becomes

LEMMA RowStatusAt ==
    ASSUME row \in [Jobs -> Row], NEW j \in Jobs, NEW q,
           row' = [row EXCEPT ![j].status = q]
    PROVE  /\ \A k \in Jobs : k # j => row'[k] = row[k]
           /\ row'[j].cmd = row[j].cmd /\ row'[j].due = row[j].due
           /\ row'[j].status = q /\ SameColumns(row[j], row'[j])
<1>1. row'[j] = [row[j] EXCEPT !.status = q] /\ \A k \in Jobs : k # j => row'[k] = row[k]
  OBVIOUS
<1>2. row[j] \in Row
  OBVIOUS
<1> QED
  BY <1>1, <1>2 DEF Row, SameColumns

\* Every step of an execution, and every failure of one, is one of these.
LEMMA ExecEffect ==
    ASSUME TypeOK, NEW c \in Calls, NEW j \in Jobs,
           ExecStep(c, j) \/ FailJob(c, j) \/ FailJobUnrecorded(c, j)
    PROVE  Turn(c, j) /\ Elsewhere(c, j)
<1> DEFINE e == exec[c][j]
<1>t. /\ row \in [Jobs -> Row] /\ exec \in [Calls -> [Jobs -> Executor]]
      /\ e \in Executor /\ row[j] \in Row
  BY DEF TypeOK
<1>w. \A q : Written(j, e.saved, q) = Kept(row[j], e.saved, q)
  BY DEF Written, Kept
<1>s. ASSUME row' = row
      PROVE  /\ row'[j] = row[j] /\ \A k \in Jobs : k # j => row'[k] = row[k]
             /\ row'[j].cmd = row[j].cmd /\ row'[j].due = row[j].due
  BY <1>s
<1>1. CASE Reserve(c, j)
  <2> DEFINE f == Reserved(e)
  <2>1. /\ e.pc = "reserve" /\ Becomes(c, j, f) /\ row' = [row EXCEPT ![j].status = "PROCESSING"]
        /\ UNCHANGED <<srv, call, answers, missed, overlap>> /\ Quiet
    BY <1>1 DEF Reserve, requests, bounds, Quiet
  <2>2. /\ f.saved = "PROCESSING" /\ SameInstance(e, f) /\ f.cmd = e.cmd
        /\ \/ f.pc = "work" /\ f.status = e.status
           \/ f.pc = "save" /\ f.status = "COMPLETED"
    BY <1>t DEF Reserved, Executor, SameInstance
  <2> HIDE DEF e, f
  <2>3. /\ exec'[c][j] = f
        /\ \A d \in Calls, k \in Jobs : d # c \/ k # j => exec'[d][k] = exec[d][k]
    BY <2>1, <1>t, ExecAt
  <2>4. /\ \A k \in Jobs : k # j => row'[k] = row[k]
        /\ row'[j].status = "PROCESSING" /\ SameColumns(row[j], row'[j])
        /\ row'[j].cmd = row[j].cmd /\ row'[j].due = row[j].due
    BY <2>1, <1>t, RowStatusAt
  <2>5. Reserves(e, f, row[j], row'[j])
    BY <2>1, <2>2, <2>4 DEF Reserves
  <2>t. Turn(c, j)
    BY <2>1, <2>2, <2>3, <2>4, <2>5 DEF Turn, e
  <2>l. Elsewhere(c, j)
    BY <2>1, <2>2, <2>3, <2>4, <2>5 DEF Elsewhere, e
  <2> QED
    BY <2>t, <2>l
<1>2. CASE RunBatch(c, j)
  <2> DEFINE q == IF e.done + 1 = Batches[j] THEN "COMPLETED"
                  ELSE IF Draining(c, j) THEN "PENDING" ELSE "PROCESSING"
             f == [Saved(e, q) EXCEPT !.done = @ + 1]
  <2>1. /\ e.pc = "work" /\ e.cmd \in Batched /\ e.done < Batches[j] /\ Becomes(c, j, f)
        /\ row' = [row EXCEPT ![j].status = Written(j, e.saved, q), ![j].done = e.done + 1]
        /\ UNCHANGED <<srv, call, answers, missed, overlap>> /\ Quiet
    BY <1>2 DEF RunBatch, requests, bounds, history, Quiet
  <2>2. /\ f.pc = "saved" /\ f.saved = q /\ f.status = q /\ f.cmd = e.cmd
        /\ f.done = e.done + 1 /\ f.attempts = e.attempts /\ f.ext = e.ext
    BY <1>t DEF Saved, Executor
  <2>q. q = IF e.done + 1 = Batches[j] THEN "COMPLETED"
            ELSE IF Draining(c, j) THEN "PENDING" ELSE "PROCESSING"
    OBVIOUS
  <2> HIDE DEF e, f, q
  <2>3. /\ exec'[c][j] = f
        /\ \A d \in Calls, k \in Jobs : d # c \/ k # j => exec'[d][k] = exec[d][k]
    BY <2>1, <1>t, ExecAt
  <2>4. /\ \A k \in Jobs : k # j => row'[k] = row[k]
        /\ row'[j].status = Kept(row[j], e.saved, q) /\ row'[j].done = e.done + 1
        /\ row'[j].attempts = row[j].attempts /\ row'[j].ext = row[j].ext
        /\ row'[j].cmd = row[j].cmd /\ row'[j].due = row[j].due
    <3>1. /\ \A k \in Jobs : k # j => row'[k] = row[k]
          /\ row'[j].status = Written(j, e.saved, q) /\ row'[j].done = e.done + 1
          /\ row'[j].attempts = row[j].attempts /\ row'[j].ext = row[j].ext
          /\ row'[j].cmd = row[j].cmd /\ row'[j].due = row[j].due
      <4>1. PICK v, n : /\ v = Written(j, e.saved, q) /\ n = e.done + 1
                        /\ row' = [row EXCEPT ![j].status = v, ![j].done = n]
        BY <2>1
      <4>2. row'[j] = [row[j] EXCEPT !.status = v, !.done = n] /\ \A k \in Jobs : k # j => row'[k] = row[k]
        BY <4>1, <1>t
      <4> QED
        BY <4>1, <4>2, <1>t DEF Row
    <3> QED
      BY <3>1, <1>w
  <2>5. RunsBatch(e, f, row[j], row'[j], Batches[j], Draining(c, j))
    BY <2>1, <2>2, <2>4, <2>q DEF RunsBatch
  <2>t. Turn(c, j)
    BY <2>1, <2>2, <2>3, <2>4, <2>5 DEF Turn, e
  <2>l. Elsewhere(c, j)
    BY <2>1, <2>2, <2>3, <2>4, <2>5 DEF Elsewhere, e
  <2> QED
    BY <2>t, <2>l
<1>3. CASE AfterSave(c, j)
  <2> DEFINE more == e.cmd \in Batched /\ e.done < Batches[j]
             g == [e EXCEPT !.pc = "work"]
             m == MarkJobAsComplete(e, Draining(c, j))
  <2>1. /\ e.pc = "saved" /\ row' = row
        /\ Becomes(c, j, IF more /\ ~Draining(c, j) THEN g ELSE m)
        /\ UNCHANGED <<srv, call, answers, missed, overlap>> /\ Quiet
    BY <1>3 DEF AfterSave, requests, bounds, history, Quiet
  <2>2. /\ g.pc = "work" /\ g.status = e.status /\ g.saved = e.saved
        /\ SameInstance(e, g) /\ g.cmd = e.cmd
    BY <1>t DEF Executor, SameInstance
  <2>3. /\ m.pc = "save" /\ m.saved = e.saved /\ SameInstance(e, m) /\ m.cmd = e.cmd
        /\ m.status = IF e.status = "ON HOLD" THEN e.status
                      ELSE IF Draining(c, j) /\ e.status # "COMPLETED" THEN "PENDING"
                      ELSE "COMPLETED"
    BY <1>t DEF Executor, SameInstance, MarkJobAsComplete
  <2> HIDE DEF e, g, m
  <2>4. CASE more /\ ~Draining(c, j)
    <3>1. /\ exec'[c][j] = g
          /\ \A d \in Calls, k \in Jobs : d # c \/ k # j => exec'[d][k] = exec[d][k]
      BY <2>1, <2>4, <1>t, ExecAt
    <3>2. GoesOn(e, g, row[j], row'[j], Batches[j], Draining(c, j))
      BY <2>1, <2>2, <2>4 DEF GoesOn
    <3>t. Turn(c, j)
      BY <2>1, <2>2, <3>1, <3>2, <1>s DEF Turn, e
    <3>l. Elsewhere(c, j)
      BY <2>1, <2>2, <3>1, <3>2, <1>s DEF Elsewhere, e
    <3> QED
      BY <3>t, <3>l
  <2>5. CASE ~(more /\ ~Draining(c, j))
    <3>1. /\ exec'[c][j] = m
          /\ \A d \in Calls, k \in Jobs : d # c \/ k # j => exec'[d][k] = exec[d][k]
      BY <2>1, <2>5, <1>t, ExecAt
    <3>2. Finishes(e, m, row[j], row'[j], Batches[j], Draining(c, j))
      BY <2>1, <2>3, <2>5 DEF Finishes
    <3>t. Turn(c, j)
      BY <2>1, <2>3, <3>1, <3>2, <1>s DEF Turn, e
    <3>l. Elsewhere(c, j)
      BY <2>1, <2>3, <3>1, <3>2, <1>s DEF Elsewhere, e
    <3> QED
      BY <3>t, <3>l
  <2> QED
    BY <2>4, <2>5
<1>4. CASE NoBatchLeft(c, j)
  <2> DEFINE f == MarkJobAsComplete([e EXCEPT !.status = "COMPLETED"], Draining(c, j))
  <2>1. /\ e.pc = "work" /\ row' = row /\ Becomes(c, j, f)
        /\ UNCHANGED <<srv, call, answers, missed, overlap>> /\ Quiet
    BY <1>4 DEF NoBatchLeft, requests, bounds, history, Quiet
  <2>2. /\ f.pc = "save" /\ f.saved = e.saved /\ SameInstance(e, f) /\ f.cmd = e.cmd
        /\ f.status = "COMPLETED"
    BY <1>t DEF Executor, SameInstance, MarkJobAsComplete
  <2> HIDE DEF e, f
  <2>3. /\ exec'[c][j] = f
        /\ \A d \in Calls, k \in Jobs : d # c \/ k # j => exec'[d][k] = exec[d][k]
    BY <2>1, <1>t, ExecAt
  <2>4. Finishes(e, f, row[j], row'[j], Batches[j], Draining(c, j))
    BY <2>1, <2>2 DEF Finishes
  <2>t. Turn(c, j)
    BY <2>1, <2>2, <2>3, <2>4, <1>s DEF Turn, e
  <2>l. Elsewhere(c, j)
    BY <2>1, <2>2, <2>3, <2>4, <1>s DEF Elsewhere, e
  <2> QED
    BY <2>t, <2>l
\* A job whose handler has one save(): the warnings, and a request for nothing.
<1>q. ASSUME e.pc = "work", e.cmd \notin Batched, Becomes(c, j, Saved(e, "COMPLETED")),
             row' = [row EXCEPT ![j].status = Written(j, e.saved, "COMPLETED")],
             UNCHANGED <<srv, call, answers, missed, overlap>>, Quiet
      PROVE  Turn(c, j) /\ Elsewhere(c, j)
  <2> DEFINE f == Saved(e, "COMPLETED")
  <2>1. Becomes(c, j, f)
    BY <1>q
  <2>2. /\ f.pc = "saved" /\ f.saved = "COMPLETED" /\ f.status = "COMPLETED"
        /\ f.cmd = e.cmd /\ SameInstance(e, f)
    BY <1>t DEF Saved, Executor, SameInstance
  <2> HIDE DEF e, f
  <2>3. /\ exec'[c][j] = f
        /\ \A d \in Calls, k \in Jobs : d # c \/ k # j => exec'[d][k] = exec[d][k]
    BY <2>1, <1>t, ExecAt
  <2>4. /\ \A k \in Jobs : k # j => row'[k] = row[k]
        /\ row'[j].status = Kept(row[j], e.saved, "COMPLETED") /\ SameColumns(row[j], row'[j])
        /\ row'[j].cmd = row[j].cmd /\ row'[j].due = row[j].due
    BY <1>q, <1>t, <1>w, RowStatusAt
  <2>5. Completes(e, f, row[j], row'[j])
    BY <1>q, <2>2, <2>4 DEF Completes
  <2>t. Turn(c, j)
    BY <1>q, <2>2, <2>3, <2>4, <2>5 DEF Turn, e
  <2>l. Elsewhere(c, j)
    BY <1>q, <2>2, <2>3, <2>4, <2>5 DEF Elsewhere, e
  <2> QED
    BY <2>t, <2>l
<1>5. CASE RunWarning(c, j)
  BY <1>5, <1>q DEF RunWarning, requests, bounds, history, Quiet, Batched
<1>6. CASE RequestDeforestationReport(c, j)
  <2> DEFINE f == [e EXCEPT !.pc = "asked", !.ext = reqs[j] + 1]
  <2>1. CASE UNCHANGED <<reqs, pendingCb>> /\ Becomes(c, j, Saved(e, "COMPLETED"))
             /\ row' = [row EXCEPT ![j].status = Written(j, e.saved, "COMPLETED")]
    BY <1>6, <2>1, <1>q DEF RequestDeforestationReport, bounds, history, Quiet, Batched
  <2>2. CASE /\ Becomes(c, j, f) /\ row' = row
             /\ reqs' = [reqs EXCEPT ![j] = @ + 1]
             /\ pendingCb' = [pendingCb EXCEPT ![j] = @ \cup {reqs[j] + 1}]
    <3>1. /\ e.pc = "work" /\ e.cmd = "REQUEST" /\ Becomes(c, j, f)
          /\ UNCHANGED <<srv, call, answers, missed, overlap, fails>>
      BY <1>6, <2>2 DEF RequestDeforestationReport, bounds, history
    <3>2. /\ f.pc = "asked" /\ f.ext = reqs[j] + 1 /\ f.status = e.status
          /\ f.saved = e.saved /\ f.cmd = e.cmd /\ f.done = e.done /\ f.attempts = e.attempts
      BY <1>t DEF Executor
    <3> HIDE DEF e, f
    <3>3. /\ exec'[c][j] = f
          /\ \A d \in Calls, k \in Jobs : d # c \/ k # j => exec'[d][k] = exec[d][k]
      BY <3>1, <1>t, ExecAt
    <3>4. Asks(e, f, row[j], row'[j], reqs[j] + 1)
      BY <3>1, <3>2, <2>2 DEF Asks
    <3>t. Turn(c, j)
      BY <3>1, <3>2, <3>3, <3>4, <2>2, <1>s DEF Turn, e
    <3>l. Elsewhere(c, j)
      BY <3>1, <3>2, <3>3, <3>4, <2>2, <1>s DEF Elsewhere, e
    <3> QED
      BY <3>t, <3>l
  <2> QED
    BY <1>6, <2>1, <2>2 DEF RequestDeforestationReport
<1>7. CASE HoldForCallback(c, j)
  <2> DEFINE f == Saved(e, "ON HOLD")
  <2>1. /\ e.pc = "asked" /\ Becomes(c, j, f)
        /\ row' = [row EXCEPT ![j].status = Written(j, e.saved, "ON HOLD"), ![j].ext = e.ext]
        /\ UNCHANGED <<srv, call, answers, missed, overlap>> /\ Quiet
    BY <1>7 DEF HoldForCallback, requests, bounds, history, Quiet
  <2>2. /\ f.pc = "saved" /\ f.saved = "ON HOLD" /\ f.status = "ON HOLD"
        /\ f.cmd = e.cmd /\ SameInstance(e, f)
    BY <1>t DEF Saved, Executor, SameInstance
  <2> HIDE DEF e, f
  <2>3. /\ exec'[c][j] = f
        /\ \A d \in Calls, k \in Jobs : d # c \/ k # j => exec'[d][k] = exec[d][k]
    BY <2>1, <1>t, ExecAt
  <2>4. /\ \A k \in Jobs : k # j => row'[k] = row[k]
        /\ row'[j].status = Kept(row[j], e.saved, "ON HOLD") /\ row'[j].ext = e.ext
        /\ row'[j].attempts = row[j].attempts /\ row'[j].done = row[j].done
        /\ row'[j].cmd = row[j].cmd /\ row'[j].due = row[j].due
    <3>1. /\ \A k \in Jobs : k # j => row'[k] = row[k]
          /\ row'[j].status = Written(j, e.saved, "ON HOLD") /\ row'[j].ext = e.ext
          /\ row'[j].attempts = row[j].attempts /\ row'[j].done = row[j].done
          /\ row'[j].cmd = row[j].cmd /\ row'[j].due = row[j].due
      <4>1. PICK v, x : /\ v = Written(j, e.saved, "ON HOLD") /\ x = e.ext
                        /\ row' = [row EXCEPT ![j].status = v, ![j].ext = x]
        BY <2>1
      <4>2. row'[j] = [row[j] EXCEPT !.status = v, !.ext = x] /\ \A k \in Jobs : k # j => row'[k] = row[k]
        BY <4>1, <1>t
      <4> QED
        BY <4>1, <4>2, <1>t DEF Row
    <3> QED
      BY <3>1, <1>w
  <2>5. Holds(e, f, row[j], row'[j])
    BY <2>1, <2>2, <2>4 DEF Holds
  <2>t. Turn(c, j)
    BY <2>1, <2>2, <2>3, <2>4, <2>5 DEF Turn, e
  <2>l. Elsewhere(c, j)
    BY <2>1, <2>2, <2>3, <2>4, <2>5 DEF Elsewhere, e
  <2> QED
    BY <2>t, <2>l
<1>n. NoExec.pc = "none"
  BY DEF NoExec
<1>8. CASE SaveJob(c, j)
  <2>1. /\ e.pc = "save" /\ Becomes(c, j, NoExec)
        /\ row' = [row EXCEPT ![j].status = Written(j, e.saved, e.status)]
        /\ UNCHANGED <<srv, call, answers, missed, overlap>> /\ Quiet
    BY <1>8 DEF SaveJob, requests, bounds, history, Quiet
  <2> HIDE DEF e
  <2>3. /\ exec'[c][j] = NoExec
        /\ \A d \in Calls, k \in Jobs : d # c \/ k # j => exec'[d][k] = exec[d][k]
    BY <2>1, <1>t, ExecAt
  <2>4. /\ \A k \in Jobs : k # j => row'[k] = row[k]
        /\ row'[j].status = Kept(row[j], e.saved, e.status) /\ SameColumns(row[j], row'[j])
        /\ row'[j].cmd = row[j].cmd /\ row'[j].due = row[j].due
    BY <2>1, <1>t, <1>w, RowStatusAt
  <2>5. EndsSaving(e, NoExec, row[j], row'[j])
    BY <2>1, <1>n, <2>4 DEF EndsSaving
  <2>t. Turn(c, j)
    BY <2>1, <2>3, <2>4, <2>5, <1>n DEF Turn, e
  <2>l. Elsewhere(c, j)
    BY <2>1, <2>3, <2>4, <2>5, <1>n DEF Elsewhere, e
  <2> QED
    BY <2>t, <2>l
<1>9. CASE FailJob(c, j)
  <2> DEFINE q == IF e.attempts > 0 THEN "PENDING" ELSE "FAILED"
             a == Remaining(e)
  <2>1. /\ e.pc # "none" /\ (e.pc = "save" => e.status # e.saved) /\ Becomes(c, j, NoExec)
        /\ \E counted \in {0, 1} :
              row' = [row EXCEPT ![j].status = Written(j, e.saved, q),
                                 ![j].done = e.done + counted, ![j].attempts = a]
        /\ UNCHANGED <<srv, call, answers, missed, overlap, reqs, pendingCb>>
        /\ fails' = [fails EXCEPT ![j] = @ + 1]
    BY <1>9 DEF FailJob, requests, history
  <2>2. /\ q = IF e.attempts > 0 THEN "PENDING" ELSE "FAILED"
        /\ a = IF e.attempts > 0 THEN e.attempts - 1 ELSE 0
    BY DEF Remaining
  <2> HIDE DEF e, q, a
  <2>p. PICK counted \in {0, 1} :
              row' = [row EXCEPT ![j].status = Written(j, e.saved, q),
                                 ![j].done = e.done + counted, ![j].attempts = a]
    BY <2>1
  <2>3. /\ exec'[c][j] = NoExec
        /\ \A d \in Calls, k \in Jobs : d # c \/ k # j => exec'[d][k] = exec[d][k]
    BY <2>1, <1>t, ExecAt
  <2>4. /\ \A k \in Jobs : k # j => row'[k] = row[k]
        /\ row'[j].status = Kept(row[j], e.saved, q) /\ row'[j].done = e.done + counted
        /\ row'[j].attempts = a /\ row'[j].ext = row[j].ext
        /\ row'[j].cmd = row[j].cmd /\ row'[j].due = row[j].due
    <3>1. /\ \A k \in Jobs : k # j => row'[k] = row[k]
          /\ row'[j].status = Written(j, e.saved, q) /\ row'[j].done = e.done + counted
          /\ row'[j].attempts = a /\ row'[j].ext = row[j].ext
          /\ row'[j].cmd = row[j].cmd /\ row'[j].due = row[j].due
      <4>1. PICK v, n : /\ v = Written(j, e.saved, q) /\ n = e.done + counted
                        /\ row' = [row EXCEPT ![j].status = v, ![j].done = n, ![j].attempts = a]
        BY <2>p
      <4>2. row'[j] = [row[j] EXCEPT !.status = v, !.done = n, !.attempts = a] /\ \A k \in Jobs : k # j => row'[k] = row[k]
        BY <4>1, <1>t
      <4> QED
        BY <4>1, <4>2, <1>t DEF Row
    <3> QED
      BY <3>1, <1>w
  <2>d. e.done + counted \in {e.done, e.done + 1}
    BY <1>t DEF Executor
  <2>5. Fails(e, NoExec, row[j], row'[j])
    BY <2>1, <1>n, <2>2, <2>4, <2>d DEF Fails
  <2>t. Turn(c, j)
    BY <2>1, <2>3, <2>4, <2>5, <1>n DEF Turn, e
  <2>l. Elsewhere(c, j)
    BY <2>1, <2>3, <2>4, <2>5, <1>n DEF Elsewhere, e
  <2> QED
    BY <2>t, <2>l
<1>10. CASE FailJobUnrecorded(c, j)
  <2>1. /\ e.pc # "none" /\ Becomes(c, j, NoExec) /\ row' = row
        /\ UNCHANGED <<srv, call, answers, missed, overlap>> /\ Quiet
    BY <1>10 DEF FailJobUnrecorded, requests, Quiet
  <2> HIDE DEF e
  <2>3. /\ exec'[c][j] = NoExec
        /\ \A d \in Calls, k \in Jobs : d # c \/ k # j => exec'[d][k] = exec[d][k]
    BY <2>1, <1>t, ExecAt
  <2>5. Disappears(e, NoExec, row[j], row'[j])
    BY <2>1, <1>n DEF Disappears
  <2>t. Turn(c, j)
    BY <2>1, <2>3, <2>5, <1>n, <1>s DEF Turn, e
  <2>l. Elsewhere(c, j)
    BY <2>1, <2>3, <2>5, <1>n, <1>s DEF Elsewhere, e
  <2> QED
    BY <2>t, <2>l
<1> QED
  BY <1>1, <1>2, <1>3, <1>4, <1>5, <1>6, <1>7, <1>8, <1>9, <1>10 DEF ExecStep

-----------------------------------------------------------------------------
(* The instances on their way.                                               *)

More(e, n) == e.cmd \in Batched /\ e.done < n

\* What an instance holds at each of its steps; n and d as above.
Shaped(e, n, d) ==
    /\ e.pc = "reserve" => e.status = "PROCESSING" /\ e.saved = "PENDING"
    /\ e.pc \in {"work", "asked"} => e.status = "PROCESSING" /\ e.saved = "PROCESSING"
    /\ e.pc = "asked" => e.cmd = "REQUEST"
    /\ e.pc = "saved" =>
          /\ e.saved = e.status /\ e.status # "FAILED"
          /\ e.status = "COMPLETED" => ~More(e, n)
          /\ e.status = "ON HOLD" => e.cmd = "REQUEST"
          /\ e.status = "PENDING" => d
    /\ e.pc = "save" =>
          /\ e.status \in {"PENDING", "COMPLETED", "ON HOLD"}
          /\ e.saved = e.status \/ (e.saved = "PROCESSING" /\ e.status # "ON HOLD")

AllShaped == \A c \in Calls, j \in Jobs : Shaped(exec[c][j], Batches[j], Draining(c, j))

LEMMA ShapedTurn ==
    ASSUME NEW c \in Calls, NEW j \in Jobs, TypeOK, Turn(c, j), Elsewhere(c, j),
           Shaped(exec[c][j], Batches[j], Draining(c, j))
    PROVE  Shaped(exec'[c][j], Batches[j], Draining(c, j))
<1> DEFINE e == exec[c][j]
           n == Batches[j]
           d == Draining(c, j)
<1>f. PICK f : f = exec'[c][j]
  OBVIOUS
<1>s. PICK r, s : r = row[j] /\ s = row'[j]
  OBVIOUS
<1>t. /\ e \in Executor /\ Shaped(e, n, d)
      /\ f.pc # "none" => f.cmd = e.cmd
      /\ n \in Nat /\ d \in BOOLEAN
  BY <1>f, ConstantsAssumption DEF TypeOK, Elsewhere, Draining
<1>1. \/ Reserves(e, f, r, s) \/ RunsBatch(e, f, r, s, n, d) \/ GoesOn(e, f, r, s, n, d)
      \/ Finishes(e, f, r, s, n, d) \/ Completes(e, f, r, s)
      \/ Asks(e, f, r, s, reqs[j] + 1) \/ Holds(e, f, r, s)
      \/ f.pc = "none"
  BY <1>f, <1>s DEF Turn, EndsSaving, Fails, Disappears
<1> HIDE DEF e, n, d
<1>2. Shaped(f, n, d)
  <2>1. CASE Reserves(e, f, r, s)
    BY <2>1, <1>t DEF Reserves, Shaped
  <2>2. CASE RunsBatch(e, f, r, s, n, d)
    <3>1. /\ f.pc = "saved" /\ f.saved = f.status /\ f.cmd \in Batched /\ f.done = e.done + 1
          /\ f.status = IF f.done = n THEN "COMPLETED" ELSE IF d THEN "PENDING" ELSE "PROCESSING"
      BY <2>2, <1>t DEF RunsBatch
    <3>2. f.status = "COMPLETED" => ~More(f, n)
      <4>1. f.status = "COMPLETED" => f.done = n
        BY <3>1
      <4> QED
        BY <4>1, <1>t DEF More
    <3>3. f.status = "PENDING" => d
      BY <3>1
    <3>4. f.status \in {"COMPLETED", "PENDING", "PROCESSING"}
      BY <3>1
    <3> QED
      BY <3>1, <3>2, <3>3, <3>4 DEF Shaped
  <2>3. CASE GoesOn(e, f, r, s, n, d)
    BY <2>3, <1>t DEF GoesOn, Shaped, More, Batched, Executor, Status
  <2>4. CASE Finishes(e, f, r, s, n, d)
    BY <2>4, <1>t DEF Finishes, Shaped, More, Executor, Status
  <2>5. CASE Completes(e, f, r, s)
    BY <2>5, <1>t DEF Completes, Shaped, More
  <2>6. CASE Asks(e, f, r, s, reqs[j] + 1)
    BY <2>6, <1>t DEF Asks, Shaped
  <2>7. CASE Holds(e, f, r, s)
    BY <2>7, <1>t DEF Holds, Shaped
  <2>8. CASE f.pc = "none"
    BY <2>8 DEF Shaped
  <2> QED
    BY <1>1, <2>1, <2>2, <2>3, <2>4, <2>5, <2>6, <2>7, <2>8
<1> QED
  BY <1>2, <1>f DEF n, d

\* While its invocation lives a service only begins to drain.
LEMMA ShapedDrains ==
    ASSUME NEW e, NEW n, NEW d, NEW b, Shaped(e, n, d), d => b
    PROVE  Shaped(e, n, b)
BY DEF Shaped

LEMMA ShapedIdle == ASSUME NEW e, NEW n, NEW d, e.pc = "none" PROVE Shaped(e, n, d)
BY DEF Shaped

\* What the steps of an invocation, and of the world, leave of the executors: an
\* executor stays, is loaded from its waiting row by an invocation that had none,
\* or is gone with its process.
LEMMA CallEffect ==
    ASSUME TypeOK, Runners, NEW c \in Calls, CallStep(c) \/ PollError(c)
    PROVE  /\ \A d \in Calls, j \in Jobs :
                 \/ exec'[d][j] = exec[d][j]
                 \/ /\ d = c /\ call[c].pc = "rows" /\ j \in call[c].ids
                    /\ exec[d][j].pc = "none" /\ exec'[d][j] = Loaded(row[j])
                    /\ row[j].status = "PENDING"
                 \/ exec'[d][j].pc = "none"
           /\ row' = row /\ UNCHANGED <<requests, fails, missed, lost>>
           /\ \A d \in Calls, j \in Jobs : Draining(d, j)' = Draining(d, j)
<1> USE ConstantsAssumption
<1>t. /\ exec \in [Calls -> [Jobs -> Executor]] /\ srv \in [Servers -> Process]
      /\ Home[c] \in Servers
  BY DEF TypeOK
<1>1. row' = row /\ UNCHANGED <<requests, fails, missed, lost>>
  BY DEF CallStep, InitJobsProcessing, PendingJobIdsByPriority, PendingByPriority,
         EndRun, PollError, requests, bounds, history
<1>2. \A d \in Calls, j \in Jobs : Draining(d, j)' = Draining(d, j)
  <2>1. srv' = srv \/ (\E b \in BOOLEAN : srv' = [srv EXCEPT ![Home[c]].isRunning = b])
    BY DEF CallStep, InitJobsProcessing, PendingJobIdsByPriority, PendingByPriority,
           FoundNothing, EndRun, PollError
  <2>2. \A s \in Servers : srv'[s].draining = srv[s].draining
    BY <2>1, <1>t DEF Process
  <2> QED
    BY <2>2 DEF Draining
<1>3. CASE exec' = exec
  BY <1>1, <1>2, <1>3
<1>4. CASE PendingByPriority(c) /\ exec' # exec
  <2> DEFINE found == {j \in call[c].ids : row[j].status = "PENDING"}
  <2>1. /\ call[c].pc = "rows"
        /\ exec' = [exec EXCEPT ![c] = [j \in Jobs |-> IF j \in found THEN Loaded(row[j]) ELSE NoExec]]
    BY <1>4 DEF PendingByPriority, FoundNothing
  <2>2. \A d \in Calls : d # c => exec'[d] = exec[d]
    BY <2>1, <1>t
  <2>3. \A j \in Jobs : exec'[c][j] = IF j \in found THEN Loaded(row[j]) ELSE NoExec
    BY <2>1, <1>t
  <2>4. \A j \in Jobs : exec[c][j].pc = "none"
    BY <2>1 DEF Runners
  <2>5. NoExec.pc = "none"
    BY DEF NoExec
  <2> QED
    BY <1>1, <1>2, <2>1, <2>2, <2>3, <2>4, <2>5
<1> QED
  BY <1>3, <1>4 DEF CallStep, InitJobsProcessing, PendingJobIdsByPriority, FoundNothing,
                    EndRun, PollError

LEMMA EnvironmentEffect ==
    ASSUME Environment \/ \E j \in Jobs : \E id \in pendingCb[j] : CallbackError(j, id)
    PROVE  UNCHANGED <<srv, exec, reqs, fails, overlap>>
BY DEF Environment, BecomeDue, Create, Callback, CallbackError, requests, bounds, history

LEMMA ProcessEffect ==
    ASSUME TypeOK, NEW s \in Servers,
           Crash(s) \/ Shutdown(s) \/ \E c \in Calls : Restart(s, c)
    PROVE  /\ UNCHANGED <<row, requests, fails, missed>>
           /\ \A d \in Calls, j \in Jobs :
                 \/ exec'[d][j].pc = "none"
                 \/ exec'[d][j] = exec[d][j] /\ Home[d] # s
                 \/ /\ exec'[d][j] = exec[d][j] /\ Home[d] = s
                    /\ Draining(d, j) => Draining(d, j)' \/ ~srv[s].up
<1> USE ConstantsAssumption
<1>t. srv \in [Servers -> Process]
  BY DEF TypeOK
<1>1. ASSUME Vanish(s)
      PROVE  /\ UNCHANGED <<row, requests, fails, missed>>
             /\ \A d \in Calls, j \in Jobs :
                  exec'[d][j].pc = "none" \/ (exec'[d][j] = exec[d][j] /\ Home[d] # s)
  BY <1>1 DEF Vanish, NoExec
<1>2. ASSUME PauseQueue(s) \/ \E v \in Services : PauseJobs(s, v)
      PROVE  /\ UNCHANGED <<row, requests, fails, missed, exec>>
             /\ \A d \in Calls, j \in Jobs : Home[d] = s /\ Draining(d, j) => Draining(d, j)'
  <2>1. UNCHANGED <<row, requests, fails, missed, exec>>
    BY <1>2 DEF PauseQueue, PauseJobs, history
  <2>2. \/ srv' = [srv EXCEPT ![s].shouldPause = TRUE]
        \/ \E v \in Services : srv' = [srv EXCEPT ![s].draining = @ \cup {v}]
    BY <1>2 DEF PauseQueue, PauseJobs
  <2>3. srv[s].draining \subseteq srv'[s].draining
    BY <2>2, <1>t DEF Process
  <2> QED
    BY <2>1, <2>3 DEF Draining
<1>3. ASSUME NEW c \in Calls, Restart(s, c)
      PROVE  UNCHANGED <<row, requests, fails, missed, exec>> /\ ~srv[s].up
  BY <1>3 DEF Restart, bounds
<1> QED
  BY <1>1, <1>2, <1>3 DEF Crash, Exit, Shutdown

-----------------------------------------------------------------------------
(* One invocation at a time.                                                 *)

\* An invocation lives in a process.
Alive == \A c \in Calls : call[c].pc # "idle" => srv[Home[c]].up

Active(c) == call[c].pc \in {"ids", "rows", "running"}

\* Without overlap one invocation polls or runs, and isRunning tells so.
Solo ==
    ~overlap =>
        /\ \A c, d \in Calls : Active(c) /\ Active(d) => c = d
        /\ \A c \in Calls : call[c].pc = "running" => srv[Home[c]].isRunning

LEMMA SoloInit == Init => Alive /\ Solo
<1> SUFFICES ASSUME Init PROVE Alive /\ Solo
  OBVIOUS
<1>1. \A c \in Calls : call[c].pc = "idle"
  BY DEF Init
<1> QED
  BY <1>1 DEF Alive, Solo, Active

LEMMA SoloCall ==
    ASSUME TypeOK, Runners, Alive, Solo, NEW c \in Calls, CallStep(c) \/ PollError(c)
    PROVE  Alive' /\ Solo'
<1> USE ConstantsAssumption
<1>t. /\ srv \in [Servers -> Process] /\ call \in [Calls -> Invocation]
      /\ Home[c] \in Servers /\ \A d \in Calls : Home[d] \in Servers
  BY DEF TypeOK
<1>c. /\ call[c].pc # "idle"
      /\ \A d \in Calls : d # c => call'[d] = call[d]
  BY <1>t DEF CallStep, InitJobsProcessing, PendingJobIdsByPriority, PendingByPriority,
         FoundNothing, EndRun, PollError
<1>s. /\ srv' = srv \/ (\E b \in BOOLEAN : srv' = [srv EXCEPT ![Home[c]].isRunning = b])
  BY DEF CallStep, InitJobsProcessing, PendingJobIdsByPriority, PendingByPriority,
         FoundNothing, EndRun, PollError
<1>u. /\ \A s \in Servers : srv'[s].up = srv[s].up
      /\ \A s \in Servers : s # Home[c] => srv'[s] = srv[s]
  BY <1>s, <1>t DEF Process
<1>a. Alive'
  <2>1. \A d \in Calls : call'[d].pc # "idle" => srv[Home[d]].up
    BY <1>c DEF Alive
  <2> QED
    BY <2>1, <1>u, <1>t DEF Alive
\* The invocation is the only active one and stays so, or ceases to be.
<1>q. ASSUME \A d \in Calls : Active(d) => d = c,
             \A d \in Calls : d # c => call'[d] = call[d],
             call'[c].pc = "running" => srv'[Home[c]].isRunning
      PROVE  Solo'
  <2>1. \A d \in Calls : call'[d].pc \in {"ids", "rows", "running"} => d = c
    BY <1>q DEF Active
  <2> QED
    BY <2>1, <1>q DEF Solo, Active
<1>o. overlap => overlap'
  BY DEF CallStep, InitJobsProcessing, PendingJobIdsByPriority, PendingByPriority,
         EndRun, PollError, BeginsPoll, history
<1>w. CASE overlap'
  BY <1>w, <1>a DEF Solo
<1>v. ASSUME ~overlap' PROVE Solo'
  <2>o. ~overlap
    BY <1>v, <1>o
  <2>1. CASE InitJobsProcessing(c)
    <3>1. CASE Busy(Home[c])
      <4>1. call' = [call EXCEPT ![c].pc = "idle"] /\ srv' = srv
        BY <2>1, <3>1 DEF InitJobsProcessing
      <4>2. call'[c].pc = "idle"
        BY <4>1, <1>t DEF Invocation
      <4> QED
        BY <4>1, <4>2, <1>c, <2>o DEF Solo, Active
    <3>2. CASE ~Busy(Home[c])
      <4>1. /\ call' = [call EXCEPT ![c].pc = "ids"] /\ BeginsPoll(c)
            /\ ~srv[Home[c]].isRunning /\ call[c].pc = "init"
        BY <2>1, <3>2 DEF InitJobsProcessing, Busy
      <4>2. call'[c].pc = "ids"
        BY <4>1, <1>t DEF Invocation
      <4>3. ASSUME NEW d \in Calls, Active(d) PROVE d = c
        <5>1. SUFFICES ASSUME d # c PROVE FALSE
          OBVIOUS
        <5>2. call[d].pc = "running" /\ Home[d] = Home[c]
          BY <4>1, <4>3, <5>1, <1>v DEF BeginsPoll, Active
        <5> QED
          BY <4>1, <5>2, <2>o DEF Solo
      <4> QED
        BY <4>2, <4>3, <1>c, <1>q
    <3> QED
      BY <3>1, <3>2
  <2>2. CASE call[c].pc \in {"ids", "rows", "running"}
    <3>1. \A d \in Calls : Active(d) => d = c
      BY <2>2, <2>o DEF Solo, Active
    <3>2. call'[c].pc = "running" => srv'[Home[c]].isRunning
      <4>1. CASE PendingJobIdsByPriority(c)
        BY <4>1, <1>t DEF PendingJobIdsByPriority, FoundNothing
      <4>2. CASE PendingByPriority(c)
        <5>1. CASE FoundNothing(c)
          BY <5>1, <1>t DEF FoundNothing
        <5>2. CASE srv' = [srv EXCEPT ![Home[c]].isRunning = TRUE]
          BY <5>2, <1>t DEF Process
        <5> QED
          BY <4>2, <5>1, <5>2 DEF PendingByPriority
      <4>3. CASE EndRun(c)
        BY <4>3, <1>t DEF EndRun, Invocation
      <4>4. CASE PollError(c)
        BY <4>4, <1>t DEF PollError
      <4> QED
        BY <2>2, <4>1, <4>2, <4>3, <4>4 DEF CallStep, InitJobsProcessing
    <3> QED
      BY <3>1, <3>2, <1>c, <1>q
  <2> QED
    BY <2>1, <2>2 DEF CallStep, PendingJobIdsByPriority, PendingByPriority, EndRun, PollError
<1> QED
  BY <1>a, <1>w, <1>v

LEMMA SoloEnvironment ==
    ASSUME TypeOK, Alive, Solo,
           Environment \/ \E j \in Jobs : \E id \in pendingCb[j] : CallbackError(j, id)
    PROVE  Alive' /\ Solo'
<1>t. call \in [Calls -> Invocation]
  BY DEF TypeOK
<1>1. UNCHANGED <<srv, overlap>>
  BY EnvironmentEffect
<1>2. \/ call' = call
      \/ \E c \in Calls : /\ call' = [call EXCEPT ![c].pc = "init"]
                          /\ call[c].pc = "idle" /\ srv[Home[c]].up
  BY DEF Environment, BecomeDue, Create, Callback, CallbackError
<1>3. ASSUME NEW c \in Calls, call' = [call EXCEPT ![c].pc = "init"], srv[Home[c]].up
      PROVE  Alive' /\ Solo'
  <2>1. call'[c].pc = "init" /\ \A d \in Calls : d # c => call'[d] = call[d]
    BY <1>3, <1>t DEF Invocation
  <2>2. Alive'
    BY <1>1, <1>3, <2>1 DEF Alive
  <2>3. \A d \in Calls : call'[d].pc \in {"ids", "rows", "running"} =>
            Active(d) /\ call'[d].pc = call[d].pc
    BY <2>1 DEF Active
  <2>4. Solo'
    BY <1>1, <2>3 DEF Solo, Active
  <2> QED
    BY <2>2, <2>4
<1> QED
  BY <1>1, <1>2, <1>3 DEF Alive, Solo, Active

LEMMA SoloProcess ==
    ASSUME TypeOK, Alive, Solo, NEW s \in Servers,
           Crash(s) \/ Shutdown(s) \/ \E c \in Calls : Restart(s, c)
    PROVE  Alive' /\ Solo'
<1> USE ConstantsAssumption
<1>t. /\ srv \in [Servers -> Process] /\ call \in [Calls -> Invocation]
      /\ \A d \in Calls : Home[d] \in Servers
  BY DEF TypeOK
<1>1. ASSUME Vanish(s) PROVE Alive' /\ Solo'
  <2>1. /\ \A c \in Calls : Home[c] = s => call'[c].pc = "idle"
        /\ \A c \in Calls : Home[c] # s => call'[c] = call[c]
        /\ \A r \in Servers : r # s => srv'[r] = srv[r]
        /\ overlap' = overlap
    BY <1>1, <1>t DEF Vanish
  <2>2. Alive'
    BY <2>1, <1>t DEF Alive
  <2>3. \A c \in Calls : call'[c].pc \in {"ids", "rows", "running"} =>
            call'[c] = call[c] /\ Home[c] # s
    BY <2>1
  <2>4. ~overlap' => /\ \A c, d \in Calls : Active(c)' /\ Active(d)' => c = d
                     /\ \A c \in Calls : call'[c].pc = "running" => srv'[Home[c]].isRunning
    BY <2>1, <2>3, <1>t DEF Solo, Active
  <2> QED
    BY <2>2, <2>4 DEF Solo
<1>2. ASSUME PauseQueue(s) \/ \E v \in Services : PauseJobs(s, v) PROVE Alive' /\ Solo'
  <2>1. /\ call' = call /\ overlap' = overlap
        /\ \/ srv' = [srv EXCEPT ![s].shouldPause = TRUE]
           \/ \E v \in Services : srv' = [srv EXCEPT ![s].draining = @ \cup {v}]
    BY <1>2 DEF PauseQueue, PauseJobs, history
  <2>2. \A r \in Servers : srv'[r].up = srv[r].up /\ srv'[r].isRunning = srv[r].isRunning
    <3>1. CASE srv' = [srv EXCEPT ![s].shouldPause = TRUE]
      BY <3>1, <1>t DEF Process
    <3>2. ASSUME NEW v \in Services, srv' = [srv EXCEPT ![s].draining = @ \cup {v}]
          PROVE  \A r \in Servers : srv'[r].up = srv[r].up /\ srv'[r].isRunning = srv[r].isRunning
      BY <3>2, <1>t DEF Process
    <3> QED
      BY <2>1, <3>1, <3>2
  <2> QED
    BY <2>1, <2>2, <1>t DEF Alive, Solo, Active
<1>3. ASSUME NEW c \in Calls, Restart(s, c) PROVE Alive' /\ Solo'
  <2>1. /\ Home[c] = s /\ ~srv[s].up /\ call' = [call EXCEPT ![c].pc = "ids"]
        /\ srv' = [srv EXCEPT ![s] = Fresh] /\ BeginsPoll(c)
    BY <1>3 DEF Restart
  <2>2. /\ call'[c].pc = "ids" /\ \A d \in Calls : d # c => call'[d] = call[d]
        /\ srv'[s].up /\ \A r \in Servers : r # s => srv'[r] = srv[r]
    BY <2>1, <1>t DEF Invocation, Fresh
  <2>3. Alive'
    <3>1. ASSUME NEW d \in Calls, call'[d].pc # "idle" PROVE srv'[Home[d]].up
      BY <3>1, <2>1, <2>2, <1>t DEF Alive
    <3> QED
      BY <3>1 DEF Alive
  <2>4. ASSUME ~overlap', NEW d \in Calls, d # c PROVE ~Active(d)
    <3>1. call[d].pc \notin {"ids", "rows"} /\ (call[d].pc = "running" => Home[d] = s)
      BY <2>1, <2>4 DEF BeginsPoll
    <3> QED
      BY <3>1, <2>1 DEF Alive, Active
  <2>5. Solo'
    BY <2>2, <2>4 DEF Solo, Active
  <2> QED
    BY <2>3, <2>5
<1> QED
  BY <1>1, <1>2, <1>3 DEF Crash, Exit, Shutdown

LEMMA SoloNext == ASSUME TypeOK, Runners, Alive, Solo, [Next]_vars PROVE Alive' /\ Solo'
<1>1. CASE UNCHANGED vars
  BY <1>1 DEF vars, history, Alive, Solo, Active
<1>2. ASSUME NEW c \in Calls, NEW j \in Jobs,
             ExecStep(c, j) \/ FailJob(c, j) \/ FailJobUnrecorded(c, j)
      PROVE  Alive' /\ Solo'
  <2>1. UNCHANGED <<srv, call, overlap>>
    BY <1>2, ExecEffect DEF Elsewhere
  <2> QED
    BY <2>1 DEF Alive, Solo, Active
<1>3. CASE Next
  BY <1>2, <1>3, SoloCall, SoloEnvironment, SoloProcess DEF Next, Fault
<1> QED
  BY <1>1, <1>3

\* An executor's step leaves the executors of nobody else and creates none.
LEMMA ShapedNext ==
    ASSUME TypeOK, Runners, Alive, AllShaped, [Next]_vars PROVE AllShaped'
<1> USE ConstantsAssumption
<1>1. CASE UNCHANGED vars
  BY <1>1 DEF vars, AllShaped, Draining
<1>2. ASSUME NEW c \in Calls, NEW j \in Jobs,
             ExecStep(c, j) \/ FailJob(c, j) \/ FailJobUnrecorded(c, j)
      PROVE  AllShaped'
  <2>1. Turn(c, j) /\ Elsewhere(c, j)
    BY <1>2, ExecEffect
  <2>2. \A d \in Calls, k \in Jobs : Draining(d, k)' = Draining(d, k)
    BY <2>1 DEF Elsewhere, Draining
  <2>3. Shaped(exec'[c][j], Batches[j], Draining(c, j))
    BY <2>1, ShapedTurn DEF AllShaped
  <2>4. ASSUME NEW d \in Calls, NEW k \in Jobs
        PROVE  Shaped(exec'[d][k], Batches[k], Draining(d, k)')
    <3>1. CASE d = c /\ k = j
      BY <2>2, <2>3, <3>1
    <3>2. CASE ~(d = c /\ k = j)
      <4>1. exec'[d][k] = exec[d][k]
        BY <2>1, <3>2 DEF Elsewhere
      <4> QED
        BY <4>1, <2>2 DEF AllShaped
    <3> QED
      BY <3>1, <3>2
  <2> QED
    BY <2>4 DEF AllShaped
<1>3. ASSUME NEW c \in Calls, CallStep(c) \/ PollError(c) PROVE AllShaped'
  <2>1. ASSUME NEW d \in Calls, NEW j \in Jobs
        PROVE  Shaped(exec'[d][j], Batches[j], Draining(d, j)')
    <3>1. Draining(d, j)' = Draining(d, j)
      BY <1>3, CallEffect
    <3>2. CASE exec'[d][j] = exec[d][j]
      BY <3>1, <3>2 DEF AllShaped
    <3>3. CASE exec'[d][j].pc = "none"
      BY <3>3, ShapedIdle
    <3>4. CASE exec'[d][j] = Loaded(row[j]) /\ row[j].status = "PENDING"
      <4>1. /\ Loaded(row[j]).pc = "reserve" /\ Loaded(row[j]).status = "PROCESSING"
            /\ Loaded(row[j]).saved = "PENDING"
        BY <3>4 DEF Loaded
      <4> QED
        BY <4>1, <3>4 DEF Shaped
    <3> QED
      BY <1>3, <3>2, <3>3, <3>4, CallEffect
  <2> QED
    BY <2>1 DEF AllShaped
<1>4. CASE Environment \/ \E j \in Jobs : \E id \in pendingCb[j] : CallbackError(j, id)
  <2>1. UNCHANGED <<srv, exec>>
    BY <1>4, EnvironmentEffect
  <2> QED
    BY <2>1 DEF AllShaped, Draining
<1>5. ASSUME NEW s \in Servers, Crash(s) \/ Shutdown(s) \/ \E c \in Calls : Restart(s, c)
      PROVE  AllShaped'
  <2>0. \A r \in Servers : r # s => srv'[r] = srv[r]
    <3>1. srv \in [Servers -> Process]
      BY DEF TypeOK
    <3> QED
      BY <1>5, <3>1 DEF Crash, Shutdown, Exit, Vanish, PauseQueue, PauseJobs, Restart
  <2>1. ASSUME NEW d \in Calls, NEW j \in Jobs
        PROVE  Shaped(exec'[d][j], Batches[j], Draining(d, j)')
    <3>1. CASE exec'[d][j].pc = "none"
      BY <3>1, ShapedIdle
    <3>2. CASE exec'[d][j] = exec[d][j] /\ Home[d] # s
      <4>1. Draining(d, j)' = Draining(d, j)
        BY <2>0, <3>2 DEF Draining
      <4> QED
        BY <3>2, <4>1 DEF AllShaped
    <3>3. CASE /\ exec'[d][j] = exec[d][j] /\ Home[d] = s /\ exec[d][j].pc # "none"
               /\ Draining(d, j) => Draining(d, j)' \/ ~srv[s].up
      <4>1. srv[s].up
        BY <3>3 DEF Runners, Alive
      <4>2. Draining(d, j) => Draining(d, j)'
        BY <3>3, <4>1
      <4>3. Shaped(exec[d][j], Batches[j], Draining(d, j))
        BY DEF AllShaped
      <4>4. Shaped(exec[d][j], Batches[j], Draining(d, j)')
        BY <4>2, <4>3, ShapedDrains
      <4> QED
        BY <3>3, <4>4
    <3> QED
      BY <1>5, <3>1, <3>2, <3>3, ProcessEffect
  <2> QED
    BY <2>1 DEF AllShaped
<1>6. CASE Next
  BY <1>2, <1>3, <1>4, <1>5, <1>6 DEF Next, Fault
<1> QED
  BY <1>1, <1>6

-----------------------------------------------------------------------------
(* No more executors than concurrentProcessCount.                            *)

\* No invocation polls, or loads, more than concurrentProcessCount rows.
Load(c) == {j \in Jobs : exec[c][j].pc # "none"}

Sized ==
    \A c \in Calls : Cardinality(call[c].ids) <= Limit /\ Cardinality(Load(c)) <= Limit

\* Fewer of the jobs are no more of them.
LEMMA FewerJobs ==
    ASSUME NEW S \in SUBSET Jobs, NEW T \in SUBSET S, Cardinality(S) <= Limit
    PROVE  Cardinality(T) <= Limit
<1>1. IsFiniteSet(S)
  BY JobsFinite, FS_Subset
<1>2. IsFiniteSet(T) /\ Cardinality(T) <= Cardinality(S)
  BY <1>1, FS_Subset
<1>3. Cardinality(T) \in Nat /\ Cardinality(S) \in Nat
  BY <1>1, <1>2, FS_CardinalityType
<1> QED
  BY <1>2, <1>3, ConstantsAssumption

LEMMA NoJobs == Cardinality({}) <= Limit
BY FS_EmptySet, ConstantsAssumption

LEMMA TopIsSmall ==
    ASSUME NEW S \in SUBSET Jobs, NEW T \in TopByPriority(S)
    PROVE  Cardinality(T) <= Limit
<1>1. IsFiniteSet(S)
  BY JobsFinite, FS_Subset
<1>2. Cardinality(S) \in Nat
  BY <1>1, FS_CardinalityType
<1> QED
  BY <1>2, ConstantsAssumption DEF TopByPriority

LEMMA SizedInit == Init => Sized
<1> SUFFICES ASSUME Init PROVE Sized
  OBVIOUS
<1>1. \A c \in Calls : call[c].ids = {}
  BY DEF Init
<1>2. \A c \in Calls : Load(c) = {}
  BY DEF Init, Load, NoExec
<1> QED
  BY <1>1, <1>2, NoJobs DEF Sized

LEMMA SizedNext == ASSUME TypeOK, Runners, Sized, [Next]_vars PROVE Sized'
<1> USE ConstantsAssumption
<1>t. /\ call \in [Calls -> Invocation] /\ exec \in [Calls -> [Jobs -> Executor]]
      /\ \A c \in Calls : call[c].ids \in SUBSET Jobs /\ Load(c) \in SUBSET Jobs
  BY DEF TypeOK, Invocation, Load
\* It is enough that no invocation gains an id or an executor.
<1>q. ASSUME NEW c \in Calls, call'[c].ids \subseteq call[c].ids,
             \A j \in Jobs : exec'[c][j].pc # "none" => exec[c][j].pc # "none"
      PROVE  Cardinality(call'[c].ids) <= Limit /\ Cardinality(Load(c)') <= Limit
  <2>1. Load(c)' \subseteq Load(c)
    BY <1>q DEF Load
  <2>2. Cardinality(call'[c].ids) <= Limit
    BY <1>q, <1>t, FewerJobs DEF Sized
  <2>3. Cardinality(Load(c)') <= Limit
    BY <2>1, <1>t, FewerJobs DEF Sized
  <2> QED
    BY <2>2, <2>3
<1>1. CASE UNCHANGED vars
  BY <1>1 DEF vars, Sized, Load
<1>2. ASSUME NEW c \in Calls, NEW j \in Jobs,
             ExecStep(c, j) \/ FailJob(c, j) \/ FailJobUnrecorded(c, j)
      PROVE  Sized'
  <2>1. Turn(c, j) /\ Elsewhere(c, j) /\ exec[c][j].pc # "none"
    BY <1>2, ExecEffect, ExecFrame
  <2>2. ASSUME NEW d \in Calls
        PROVE  /\ call'[d].ids \subseteq call[d].ids
               /\ \A k \in Jobs : exec'[d][k].pc # "none" => exec[d][k].pc # "none"
    BY <2>1 DEF Elsewhere
  <2> QED
    BY <2>2, <1>q DEF Sized
<1>3. ASSUME NEW c \in Calls, CallStep(c) \/ PollError(c) PROVE Sized'
  <2>1. \A d \in Calls : d # c => call'[d] = call[d] /\ exec'[d] = exec[d]
    BY <1>3, <1>t DEF CallStep, InitJobsProcessing, PendingJobIdsByPriority, PendingByPriority,
           FoundNothing, EndRun, PollError
  <2>2. ASSUME NEW d \in Calls, d # c
        PROVE  Cardinality(call'[d].ids) <= Limit /\ Cardinality(Load(d)') <= Limit
    BY <2>1, <2>2, <1>q
  <2>3. Cardinality(call'[c].ids) <= Limit /\ Cardinality(Load(c)') <= Limit
    <3>0. /\ \A pc : [call EXCEPT ![c].pc = pc][c].ids = call[c].ids
          /\ \A r : [call EXCEPT ![c] = r][c] = r
      BY <1>t DEF Invocation
    <3>1. CASE exec' = exec /\ call' = [call EXCEPT ![c] = [pc |-> "idle", ids |-> {}]]
      <4>1. call'[c].ids = {}
        BY <3>1, <1>t
      <4> QED
        BY <3>1, <4>1, <1>q
    <3>2. CASE exec' = exec /\ \E pc : call' = [call EXCEPT ![c].pc = pc]
      <4>1. call'[c].ids = call[c].ids
        BY <3>2, <1>t DEF Invocation
      <4> QED
        BY <3>2, <4>1, <1>q
    <3>3. CASE exec' = exec /\ \E T \in TopByPriority(Ready) :
                  call' = [call EXCEPT ![c] = [pc |-> "rows", ids |-> T]]
      <4>1. PICK T \in TopByPriority(Ready) : call' = [call EXCEPT ![c] = [pc |-> "rows", ids |-> T]]
        BY <3>3
      <4>2. Ready \in SUBSET Jobs
        BY DEF Ready
      <4>3. Cardinality(T) <= Limit
        BY <4>2, TopIsSmall
      <4>4. call'[c].ids = T
        BY <4>1, <1>t
      <4>5. Load(c)' = Load(c)
        BY <3>3 DEF Load
      <4> QED
        BY <4>3, <4>4, <4>5 DEF Sized
    <3>4. CASE PendingByPriority(c) /\ exec' # exec
      <4>1. call' = [call EXCEPT ![c] = [pc |-> "running", ids |-> {}]]
        BY <3>4 DEF PendingByPriority, FoundNothing
      <4>2. call'[c].ids = {}
        BY <4>1, <1>t
      <4>3. Load(c)' \subseteq call[c].ids
        <5>1. ASSUME NEW j \in Jobs, exec'[c][j].pc # "none" PROVE j \in call[c].ids
          <6>1. exec' = [exec EXCEPT ![c] =
                   [k \in Jobs |-> IF k \in {i \in call[c].ids : row[i].status = "PENDING"}
                                   THEN Loaded(row[k]) ELSE NoExec]]
            BY <3>4 DEF PendingByPriority, FoundNothing
          <6>2. j \notin call[c].ids => exec'[c][j] = NoExec
            BY <6>1, <1>t
          <6> QED
            BY <5>1, <6>2 DEF NoExec
        <5> QED
          BY <5>1 DEF Load
      <4>4. Cardinality(Load(c)') <= Limit
        BY <4>3, <1>t, FewerJobs DEF Sized
      <4> QED
        BY <4>2, <4>4, NoJobs
    <3>5. CASE InitJobsProcessing(c)
      BY <3>5, <3>2 DEF InitJobsProcessing
    <3>6. CASE EndRun(c)
      BY <3>6, <3>2 DEF EndRun
    <3>7. CASE PendingJobIdsByPriority(c)
      BY <3>7, <3>1, <3>3 DEF PendingJobIdsByPriority, FoundNothing
    <3>8. CASE PendingByPriority(c) /\ exec' = exec
      <4>1. \/ call' = [call EXCEPT ![c] = [pc |-> "idle", ids |-> {}]]
            \/ call' = [call EXCEPT ![c] = [pc |-> "running", ids |-> {}]]
        BY <3>8 DEF PendingByPriority, FoundNothing
      <4>2. call'[c].ids = {}
        BY <4>1, <1>t
      <4> QED
        BY <3>8, <4>2, <1>q
    <3>9. CASE PollError(c)
      BY <3>9, <3>1 DEF PollError
    <3> QED
      BY <1>3, <3>4, <3>5, <3>6, <3>7, <3>8, <3>9 DEF CallStep
  <2> QED
    BY <2>2, <2>3 DEF Sized
<1>4. CASE Environment \/ \E j \in Jobs : \E id \in pendingCb[j] : CallbackError(j, id)
  <2>1. exec' = exec
    BY <1>4, EnvironmentEffect
  <2>2. call' = call \/ \E c \in Calls : call' = [call EXCEPT ![c].pc = "init"]
    BY <1>4 DEF Environment, BecomeDue, Create, Callback, CallbackError
  <2>3. \A c \in Calls : call'[c].ids = call[c].ids
    <3>1. ASSUME NEW c \in Calls, call' = [call EXCEPT ![c].pc = "init"]
          PROVE  \A d \in Calls : call'[d].ids = call[d].ids
      BY <3>1, <1>t DEF Invocation
    <3> QED
      BY <2>2, <3>1
  <2> QED
    BY <2>1, <2>3, <1>q DEF Sized
<1>5. ASSUME NEW s \in Servers, Crash(s) \/ Shutdown(s) \/ \E c \in Calls : Restart(s, c)
      PROVE  Sized'
  <2>1. \A c \in Calls, j \in Jobs : exec'[c][j].pc # "none" => exec[c][j].pc # "none"
    BY <1>5, ProcessEffect
  <2>2. ASSUME NEW c \in Calls PROVE call'[c].ids \subseteq call[c].ids
    <3>1. CASE Vanish(s)
      BY <3>1 DEF Vanish
    <3>2. CASE \E d \in Calls : call' = [call EXCEPT ![d].pc = "ids"]
      BY <3>2, <1>t DEF Invocation
    <3>3. CASE call' = call
      BY <3>3
    <3> QED
      BY <1>5, <3>1, <3>2, <3>3 DEF Crash, Shutdown, Exit, PauseQueue, PauseJobs, Restart
  <2> QED
    BY <2>1, <2>2, <1>q DEF Sized
<1>6. CASE Next
  BY <1>2, <1>3, <1>4, <1>5, <1>6 DEF Next, Fault
<1> QED
  BY <1>1, <1>6

\* Without overlap the executors are those of one invocation.
LEMMA FlightIsSingle ==
    ASSUME TypeOK, Runners, Solo, Sized PROVE SingleFlight
<1> SUFFICES ASSUME ~overlap
             PROVE  /\ \A r, t \in Executing : r[2] = t[2] => r = t
                    /\ Cardinality(Executing) <= Limit
  BY DEF SingleFlight
<1>1. \A r \in Executing : r[1] \in Calls /\ r[2] \in Jobs /\ r = <<r[1], r[2]>> /\ Active(r[1])
  BY DEF Executing, Runners, Active
<1>2. \A r, t \in Executing : r[1] = t[1]
  BY <1>1 DEF Solo
<1>3. \A r, t \in Executing : r[2] = t[2] => r = t
  BY <1>1, <1>2
<1>4. CASE Executing = {}
  BY <1>3, <1>4, NoJobs
<1>5. ASSUME NEW q \in Executing PROVE Cardinality(Executing) <= Limit
  <2> DEFINE f == [r \in Executing |-> r[2]]
             c == q[1]
  <2>1. c \in Calls /\ \A r \in Executing : r[2] \in Load(c)
    BY <1>1, <1>2 DEF Executing, Load
  <2>2. f \in Injection(Executing, Load(c))
    BY <2>1, <1>3 DEF Injection, IsInjective
  <2>3. IsFiniteSet(Load(c))
    BY JobsFinite, FS_Subset DEF Load
  <2>4. IsFiniteSet(Executing) /\ Cardinality(Executing) <= Cardinality(Load(c))
    BY <2>2, <2>3, FS_Injection
  <2>5. Cardinality(Load(c)) <= Limit
    BY <2>1 DEF Sized
  <2>6. Cardinality(Load(c)) \in Nat /\ Cardinality(Executing) \in Nat
    BY <2>3, <2>4, FS_CardinalityType
  <2> QED
    BY <2>4, <2>5, <2>6, ConstantsAssumption
<1> QED
  BY <1>3, <1>4, <1>5

\* What the theorems on single flights rest on.
FlightInv == TypeOK /\ Runners /\ Alive /\ Solo /\ Sized /\ AllShaped

LEMMA ShapedInit == Init => AllShaped
BY ShapedIdle DEF Init, AllShaped, NoExec

LEMMA FlightNext == ASSUME FlightInv, [Next]_vars PROVE FlightInv'
BY NextType, RunnersNext, SoloNext, SizedNext, ShapedNext DEF FlightInv

LEMMA FlightAlways == Spec => []FlightInv
<1>1. Init => FlightInv
  BY InitType, RunnersInit, SoloInit, SizedInit, ShapedInit DEF FlightInv
<1> QED
  BY <1>1, FlightNext, PTL DEF Spec

\* For every set of servers and invocations: while no poll began beside another,
\* no row has two executors and no more than concurrentProcessCount are executed.
THEOREM FlightsAreSingle == Spec => []SingleFlight
<1>1. FlightInv => SingleFlight
  BY FlightIsSingle DEF FlightInv
<1> QED
  BY <1>1, FlightAlways, PTL

-----------------------------------------------------------------------------
(* What an instance knows of its row.                                        *)

\* Once polls have overlapped they have.
LEMMA OverlapStays == ASSUME TypeOK, [Next]_vars, overlap PROVE overlap'
<1>1. ASSUME NEW c \in Calls, NEW j \in Jobs,
             ExecStep(c, j) \/ FailJob(c, j) \/ FailJobUnrecorded(c, j)
      PROVE  overlap'
  BY <1>1, ExecEffect DEF Elsewhere
<1>2. ASSUME NEW c \in Calls, CallStep(c) \/ PollError(c) PROVE overlap'
  BY <1>2 DEF CallStep, InitJobsProcessing, PendingJobIdsByPriority, PendingByPriority,
         EndRun, PollError, BeginsPoll, history
<1>3. CASE Environment \/ \E j \in Jobs : \E id \in pendingCb[j] : CallbackError(j, id)
  BY <1>3, EnvironmentEffect
<1>4. ASSUME NEW s \in Servers, Crash(s) \/ Shutdown(s) \/ \E c \in Calls : Restart(s, c)
      PROVE  overlap'
  BY <1>4 DEF Crash, Shutdown, Exit, Vanish, PauseQueue, PauseJobs, Restart, BeginsPoll, history
<1>5. CASE Next
  BY <1>1, <1>2, <1>3, <1>4, <1>5 DEF Next, Fault
<1> QED
  BY <1>5 DEF vars, history

\* Without overlap all executors belong to one invocation.
LEMMA OneFlight ==
    ASSUME Runners, Solo, ~overlap, NEW c \in Calls, NEW d \in Calls, NEW j \in Jobs, NEW k \in Jobs,
           exec[c][j].pc # "none", exec[d][k].pc # "none"
    PROVE  c = d
BY DEF Runners, Solo, Active

\* Without overlap the instance knows its row, but for a callback's "PENDING".
Knows(e, r) ==
    e.pc # "none" =>
        /\ r.status \in {e.saved, "PENDING"}
        /\ r.done = e.done /\ r.attempts = e.attempts

Synced ==
    /\ ~overlap => \A c \in Calls, j \in Jobs : Knows(exec[c][j], row[j])
    /\ \A j \in Jobs : row[j].status = "ABSENT" =>
          row[j].ext = 0 /\ \A c \in Calls : exec[c][j].pc = "none"

LEMMA KnowsTurn ==
    ASSUME NEW c \in Calls, NEW j \in Jobs, TypeOK, Turn(c, j), Knows(exec[c][j], row[j])
    PROVE  Knows(exec'[c][j], row'[j])
<1>f. PICK e, f, r, s : e = exec[c][j] /\ f = exec'[c][j] /\ r = row[j] /\ s = row'[j]
  OBVIOUS
<1>t. e \in Executor /\ Knows(e, r)
  BY <1>f DEF TypeOK
<1>1. \/ Reserves(e, f, r, s) \/ RunsBatch(e, f, r, s, Batches[j], Draining(c, j))
      \/ GoesOn(e, f, r, s, Batches[j], Draining(c, j))
      \/ Finishes(e, f, r, s, Batches[j], Draining(c, j)) \/ Completes(e, f, r, s)
      \/ Asks(e, f, r, s, reqs[j] + 1) \/ Holds(e, f, r, s)
      \/ f.pc = "none"
  BY <1>f DEF Turn, EndsSaving, Fails, Disappears
<1>2. Knows(f, s)
  <2>1. CASE Reserves(e, f, r, s)
    BY <2>1, <1>t DEF Reserves, SameInstance, SameColumns, Knows
  <2>2. CASE RunsBatch(e, f, r, s, Batches[j], Draining(c, j))
    BY <2>2, <1>t DEF RunsBatch, Kept, Knows
  <2>3. CASE GoesOn(e, f, r, s, Batches[j], Draining(c, j))
    BY <2>3, <1>t DEF GoesOn, SameInstance, Knows
  <2>4. CASE Finishes(e, f, r, s, Batches[j], Draining(c, j))
    BY <2>4, <1>t DEF Finishes, SameInstance, Knows
  <2>5. CASE Completes(e, f, r, s)
    BY <2>5, <1>t DEF Completes, Kept, SameInstance, SameColumns, Knows
  <2>6. CASE Asks(e, f, r, s, reqs[j] + 1)
    BY <2>6, <1>t DEF Asks, Knows
  <2>7. CASE Holds(e, f, r, s)
    BY <2>7, <1>t DEF Holds, Kept, SameInstance, Knows
  <2>8. CASE f.pc = "none"
    BY <2>8 DEF Knows
  <2> QED
    BY <1>1, <2>1, <2>2, <2>3, <2>4, <2>5, <2>6, <2>7, <2>8
<1> QED
  BY <1>2, <1>f

\* A row that exists stays in the table; an execution does not end with one.
LEMMA RowRemains ==
    ASSUME NEW c \in Calls, NEW j \in Jobs, TypeOK, Turn(c, j),
           exec[c][j].pc # "none", row[j].status # "ABSENT"
    PROVE  row'[j].status # "ABSENT"
<1>f. PICK e, f, r, s : e = exec[c][j] /\ f = exec'[c][j] /\ r = row[j] /\ s = row'[j]
  OBVIOUS
<1>t. e \in Executor
  BY <1>f DEF TypeOK
<1>k. \A q \in Status : Kept(r, e.saved, q) # "ABSENT"
  BY <1>f DEF Kept, Status
<1>1. \/ s = r \/ s.status = "PROCESSING" \/ \E q \in Status : s.status = Kept(r, e.saved, q)
  <2>1. /\ {"COMPLETED", "ON HOLD", "PENDING", "FAILED", "PROCESSING"} \subseteq Status
        /\ e.status \in Status
    BY <1>t DEF Status, Executor
  <2>2. CASE RunsBatch(e, f, r, s, Batches[j], Draining(c, j))
    BY <2>1, <2>2 DEF RunsBatch
  <2>3. CASE Fails(e, f, r, s)
    BY <2>1, <2>3 DEF Fails
  <2> QED
    BY <1>f, <2>1, <2>2, <2>3 DEF Turn, Reserves, GoesOn, Finishes, Completes, Asks, Holds,
                                  EndsSaving, Disappears
<1> QED
  BY <1>1, <1>k, <1>f

\* What the environment writes in a row.
LEMMA RowFromOutside ==
    ASSUME TypeOK,
           Environment \/ \E j \in Jobs : \E id \in pendingCb[j] : CallbackError(j, id)
    PROVE  \A j \in Jobs :
              /\ row'[j].done = row[j].done /\ row'[j].attempts = row[j].attempts
              /\ row'[j].ext = row[j].ext
              /\ row'[j].cmd = row[j].cmd \/ row'[j].cmd = "INIT_CALLBACK"
              /\ \/ row'[j].status = row[j].status
                 \/ row'[j].status = "PENDING" /\ row[j].status = "ABSENT" /\ answers' = answers
                 \/ /\ row'[j].status = "PENDING" /\ row[j].ext \in pendingCb[j]
                    /\ answers'[j] = answers[j] + 1
              /\ answers'[j] \in {answers[j], answers[j] + 1}
<1> DEFINE Out(j) ==
      /\ row'[j].done = row[j].done /\ row'[j].attempts = row[j].attempts
      /\ row'[j].ext = row[j].ext
      /\ row'[j].cmd = row[j].cmd \/ row'[j].cmd = "INIT_CALLBACK"
      /\ \/ row'[j].status = row[j].status
         \/ row'[j].status = "PENDING" /\ row[j].status = "ABSENT" /\ answers' = answers
         \/ /\ row'[j].status = "PENDING" /\ row[j].ext \in pendingCb[j]
            /\ answers'[j] = answers[j] + 1
      /\ answers'[j] \in {answers[j], answers[j] + 1}
<1>t. row \in [Jobs -> Row] /\ answers \in [Jobs -> Nat]
  BY DEF TypeOK
<1>1. ASSUME NEW i \in Jobs, row' = [row EXCEPT ![i].due = TRUE], answers' = answers
      PROVE  \A j \in Jobs : Out(j)
  BY <1>1, <1>t DEF Row
<1>2. ASSUME NEW i \in Jobs, NEW b, row' = [row EXCEPT ![i].status = "PENDING", ![i].due = b],
             row[i].status = "ABSENT", answers' = answers
      PROVE  \A j \in Jobs : Out(j)
  <2>1. /\ \A j \in Jobs : j # i => row'[j] = row[j]
        /\ row'[i] = [row[i] EXCEPT !.status = "PENDING", !.due = b]
    BY <1>2, <1>t
  <2> QED
    BY <1>2, <1>t, <2>1 DEF Row
<1>3. ASSUME NEW i \in Jobs, row' = [row EXCEPT ![i].status = "PENDING", ![i].cmd = "INIT_CALLBACK"],
             row[i].ext \in pendingCb[i], answers' = [answers EXCEPT ![i] = @ + 1]
      PROVE  \A j \in Jobs : Out(j)
  <2>1. /\ \A j \in Jobs : j # i => row'[j] = row[j]
        /\ row'[i] = [row[i] EXCEPT !.status = "PENDING", !.cmd = "INIT_CALLBACK"]
    BY <1>3, <1>t
  <2>2. /\ \A j \in Jobs : j # i => answers'[j] = answers[j]
        /\ answers'[i] = answers[i] + 1
    BY <1>3, <1>t
  <2> QED
    BY <1>3, <1>t, <2>1, <2>2 DEF Row
<1>4. ASSUME NEW i \in Jobs, row' = row, answers' = [answers EXCEPT ![i] = @ + 1]
      PROVE  \A j \in Jobs : Out(j)
  BY <1>4, <1>t
<1> HIDE DEF Out
<1>5. ASSUME NEW i \in Jobs, BecomeDue(i) PROVE \A j \in Jobs : Out(j)
  BY <1>5, <1>1 DEF BecomeDue, requests
<1>6. ASSUME NEW i \in Jobs, NEW c \in Calls, Create(i, c) PROVE \A j \in Jobs : Out(j)
  BY <1>6, <1>2 DEF Create, requests
<1>7. ASSUME NEW i \in Jobs, NEW c \in Calls, NEW id \in pendingCb[i], Callback(i, id, c)
      PROVE  \A j \in Jobs : Out(j)
  BY <1>7, <1>3, <1>4 DEF Callback
<1>8. ASSUME NEW i \in Jobs, NEW id \in pendingCb[i], CallbackError(i, id)
      PROVE  \A j \in Jobs : Out(j)
  BY <1>8, <1>4 DEF CallbackError
<1>9. \A j \in Jobs : Out(j)
  BY <1>5, <1>6, <1>7, <1>8 DEF Environment
<1> QED
  BY <1>9 DEF Out

LEMMA SyncedInit == Init => Synced
<1> SUFFICES ASSUME Init PROVE Synced
  OBVIOUS
<1>1. \A c \in Calls, j \in Jobs : exec[c][j].pc = "none"
  BY DEF Init, NoExec
<1>2. \A j \in Jobs : row[j].ext = 0
  BY DEF Init
<1> QED
  BY <1>1, <1>2 DEF Synced, Knows

LEMMA SyncedNext == ASSUME FlightInv, Synced, [Next]_vars PROVE Synced'
<1>t. TypeOK /\ Runners /\ Solo
  BY DEF FlightInv
<1>o. ~overlap' => ~overlap
  BY <1>t, OverlapStays
<1>1. CASE UNCHANGED vars
  BY <1>1 DEF vars, history, Synced
<1>2. ASSUME NEW c \in Calls, NEW j \in Jobs,
             ExecStep(c, j) \/ FailJob(c, j) \/ FailJobUnrecorded(c, j)
      PROVE  Synced'
  <2>1. Turn(c, j) /\ Elsewhere(c, j) /\ exec[c][j].pc # "none"
    BY <1>2, <1>t, ExecEffect, ExecFrame
  <2>2. row[j].status # "ABSENT"
    BY <2>1 DEF Synced
  <2>3. row'[j].status # "ABSENT"
    BY <2>1, <2>2, <1>t, RowRemains
  <2>4. ASSUME NEW k \in Jobs, row'[k].status = "ABSENT"
        PROVE  row'[k].ext = 0 /\ \A d \in Calls : exec'[d][k].pc = "none"
    <3>1. k # j
      BY <2>3, <2>4
    <3>2. row'[k] = row[k] /\ \A d \in Calls : exec'[d][k] = exec[d][k]
      BY <2>1, <3>1 DEF Elsewhere
    <3> QED
      BY <2>4, <3>2 DEF Synced
  <2>5. ASSUME ~overlap', NEW d \in Calls, NEW k \in Jobs PROVE Knows(exec'[d][k], row'[k])
    <3>0. ~overlap
      BY <2>5, <1>o
    <3>1. CASE k # j
      BY <2>1, <3>0, <3>1 DEF Elsewhere, Synced
    <3>2. CASE k = j /\ d = c
      BY <2>1, <3>0, <3>2, <1>t, KnowsTurn DEF Synced
    <3>3. CASE k = j /\ d # c
      <4>1. exec'[d][j] = exec[d][j]
        BY <2>1, <3>3 DEF Elsewhere
      <4>2. exec[d][j].pc = "none"
        BY <2>1, <3>0, <3>3, <1>t, OneFlight
      <4> QED
        BY <3>3, <4>1, <4>2 DEF Knows
    <3> QED
      BY <3>1, <3>2, <3>3
  <2> QED
    BY <2>4, <2>5 DEF Synced
<1>3. ASSUME NEW c \in Calls, CallStep(c) \/ PollError(c) PROVE Synced'
  <2>1. row' = row
    BY <1>3, <1>t, CallEffect
  <2>2. ASSUME NEW d \in Calls, NEW j \in Jobs
        PROVE  \/ exec'[d][j] = exec[d][j] \/ exec'[d][j].pc = "none"
               \/ exec'[d][j] = Loaded(row[j]) /\ row[j].status = "PENDING"
    BY <1>3, <1>t, CallEffect
  <2>3. ASSUME NEW j \in Jobs PROVE Knows(Loaded(row[j]), row[j])
    BY DEF Knows, Loaded
  <2>4. ASSUME ~overlap', NEW d \in Calls, NEW j \in Jobs PROVE Knows(exec'[d][j], row'[j])
    <3>1. Knows(exec[d][j], row[j])
      BY <2>4, <1>o DEF Synced
    <3>2. CASE exec'[d][j].pc = "none"
      BY <3>2 DEF Knows
    <3> QED
      BY <2>1, <2>2, <2>3, <3>1, <3>2
  <2>5. ASSUME NEW j \in Jobs, row'[j].status = "ABSENT"
        PROVE  row'[j].ext = 0 /\ \A d \in Calls : exec'[d][j].pc = "none"
    BY <2>1, <2>2, <2>5 DEF Synced
  <2> QED
    BY <2>4, <2>5 DEF Synced
<1>4. CASE Environment \/ \E j \in Jobs : \E id \in pendingCb[j] : CallbackError(j, id)
  <2>1. UNCHANGED <<exec, overlap>>
    BY <1>4, EnvironmentEffect
  <2>2. \A j \in Jobs : /\ row'[j].done = row[j].done /\ row'[j].attempts = row[j].attempts
                        /\ row'[j].ext = row[j].ext
                        /\ row'[j].status = row[j].status \/ row'[j].status = "PENDING"
    BY <1>4, <1>t, RowFromOutside
  <2> QED
    BY <2>1, <2>2 DEF Synced, Knows
<1>5. ASSUME NEW s \in Servers, Crash(s) \/ Shutdown(s) \/ \E c \in Calls : Restart(s, c)
      PROVE  Synced'
  <2>1. row' = row /\ \A d \in Calls, j \in Jobs : exec'[d][j].pc = "none" \/ exec'[d][j] = exec[d][j]
    BY <1>5, <1>t, ProcessEffect
  <2>2. ASSUME ~overlap', NEW d \in Calls, NEW j \in Jobs PROVE Knows(exec'[d][j], row'[j])
    BY <2>1, <2>2, <1>o DEF Synced, Knows
  <2>3. ASSUME NEW j \in Jobs, row'[j].status = "ABSENT"
        PROVE  row'[j].ext = 0 /\ \A d \in Calls : exec'[d][j].pc = "none"
    BY <2>1, <2>3 DEF Synced
  <2> QED
    BY <2>2, <2>3 DEF Synced
<1>6. CASE Next
  BY <1>2, <1>3, <1>4, <1>5, <1>6 DEF Next, Fault
<1> QED
  BY <1>1, <1>6

-----------------------------------------------------------------------------
(* Bounded retries.                                                          *)

\* A job that failed and is not executed fails again only after a callback.
Spent(j) == row[j].status = "FAILED" /\ \A c \in Calls : exec[c][j].pc = "none"

\* The failures so far, the retries left and the attempt under way, if there may
\* be one, are paid by the attempts of the job and by its callbacks.
Budgeted ==
    ~overlap => \A j \in Jobs :
        fails[j] + row[j].attempts + (IF Spent(j) THEN 0 ELSE 1) <= Attempts[j] + 1 + answers[j]

LEMMA BudgetedInit == Init => Budgeted
<1> SUFFICES ASSUME Init, NEW j \in Jobs
             PROVE  fails[j] + row[j].attempts + (IF Spent(j) THEN 0 ELSE 1)
                        <= Attempts[j] + 1 + answers[j]
  BY DEF Budgeted
<1>1. fails[j] = 0 /\ row[j].attempts = Attempts[j] /\ answers[j] = 0 /\ Attempts[j] \in Nat
  BY ConstantsAssumption DEF Init
<1> QED
  BY <1>1

\* A failure takes one of the attempts, or is the last.
LEMMA FailureCosts ==
    ASSUME FlightInv, Synced, ~overlap, NEW c \in Calls, NEW j \in Jobs,
           Turn(c, j), Elsewhere(c, j), exec[c][j].pc # "none"
    PROVE  /\ \A k \in Jobs : k # j => fails'[k] = fails[k]
           /\ \/ fails'[j] = fails[j] /\ row'[j].attempts = row[j].attempts
              \/ /\ fails'[j] = fails[j] + 1
                 /\ \/ row'[j].attempts + 1 = row[j].attempts
                    \/ row[j].attempts = 0 /\ row'[j].attempts = 0 /\ Spent(j)'
<1>f. PICK e, f, r, s : e = exec[c][j] /\ f = exec'[c][j] /\ r = row[j] /\ s = row'[j]
  OBVIOUS
<1>t. /\ e \in Executor /\ r \in Row /\ fails \in [Jobs -> Nat]
      /\ r.attempts = e.attempts /\ e.attempts \in Nat
  BY <1>f DEF FlightInv, TypeOK, Synced, Knows, Executor
<1>1. CASE Fails(e, f, r, s)
  <2>1. fails' = [fails EXCEPT ![j] = @ + 1] \/ fails' = fails
    BY DEF Turn, Quiet
  <2>2. CASE fails' = [fails EXCEPT ![j] = @ + 1]
    <3>1. fails'[j] = fails[j] + 1 /\ \A k \in Jobs : k # j => fails'[k] = fails[k]
      BY <2>2, <1>t
    <3>2. CASE e.attempts > 0
      BY <3>1, <3>2, <1>1, <1>f, <1>t DEF Fails
    <3>3. CASE ~(e.attempts > 0)
      <4>1. s.attempts = 0 /\ r.attempts = 0 /\ f.pc = "none" /\ s.status = Kept(r, e.saved, "FAILED")
        BY <3>3, <1>1, <1>t DEF Fails
      <4>2. e.saved # "FAILED"
        <5>1. Shaped(e, Batches[j], Draining(c, j))
          BY <1>f DEF FlightInv, AllShaped
        <5>2. e.pc \in {"reserve", "work", "saved", "asked", "save"}
          BY <1>t, <1>1 DEF Executor, Fails
        <5> QED
          BY <5>1, <5>2 DEF Shaped
      <4>3. s.status = "FAILED"
        BY <4>1, <4>2 DEF Kept
      <4>4. \A d \in Calls : exec'[d][j].pc = "none"
        <5>1. ASSUME NEW d \in Calls, d # c PROVE exec'[d][j].pc = "none"
          <6>1. exec'[d][j] = exec[d][j]
            BY <5>1 DEF Elsewhere
          <6>2. exec[d][j].pc = "none"
            BY <5>1, OneFlight DEF FlightInv
          <6> QED
            BY <6>1, <6>2
        <5> QED
          BY <5>1, <4>1, <1>f
      <4> QED
        BY <3>1, <4>1, <4>3, <4>4, <1>f DEF Spent
    <3> QED
      BY <3>2, <3>3
  <2>3. CASE fails' = fails
    <3>1. Turn(c, j) /\ ~(fails' = [fails EXCEPT ![j] = @ + 1])
      BY <2>3, <1>t
    <3>2. s.attempts = r.attempts
      BY <3>1, <1>f DEF Turn, Reserves, RunsBatch, GoesOn, Finishes, Completes, Asks, Holds,
                        EndsSaving, Disappears, SameColumns
    <3> QED
      BY <2>3, <3>2, <1>f
  <2> QED
    BY <2>1, <2>2, <2>3
<1>2. CASE ~Fails(e, f, r, s)
  <2>1. fails' = fails /\ s.attempts = r.attempts
    BY <1>2, <1>f DEF Turn, Quiet, Reserves, RunsBatch, GoesOn, Finishes, Completes, Asks,
                      Holds, EndsSaving, Disappears, SameColumns
  <2> QED
    BY <2>1, <1>f
<1> QED
  BY <1>1, <1>2

LEMMA BudgetedNext == ASSUME FlightInv, Synced, Budgeted, [Next]_vars PROVE Budgeted'
<1>t. /\ TypeOK /\ Runners /\ Solo /\ ConstantsAssumption
  BY ConstantsAssumption DEF FlightInv
<1>n. /\ \A j \in Jobs : /\ fails[j] \in Nat /\ answers[j] \in Nat /\ Attempts[j] \in Nat
                         /\ row[j].attempts \in Nat
      /\ \A j \in Jobs : /\ fails'[j] \in Nat /\ answers'[j] \in Nat /\ row'[j].attempts \in Nat
  <2>1. TypeOK'
    BY <1>t, NextType
  <2> QED
    BY <1>t, <2>1 DEF TypeOK, Row
<1>o. ~overlap' => ~overlap
  BY <1>t, OverlapStays
\* What costs nothing: a job stays spent, or an answer came.
<1>q. ASSUME ~overlap', NEW j \in Jobs, fails'[j] = fails[j], row'[j].attempts = row[j].attempts,
             answers'[j] >= answers[j],
             Spent(j) => Spent(j)' \/ answers'[j] = answers[j] + 1
      PROVE  fails'[j] + row'[j].attempts + (IF Spent(j)' THEN 0 ELSE 1) <= Attempts[j] + 1 + answers'[j]
  <2>1. fails[j] + row[j].attempts + (IF Spent(j) THEN 0 ELSE 1) <= Attempts[j] + 1 + answers[j]
    BY <1>q, <1>o DEF Budgeted
  <2>2. CASE Spent(j)
    <3>1. CASE Spent(j)'
      BY <2>1, <2>2, <3>1, <1>q, <1>n
    <3>2. CASE answers'[j] = answers[j] + 1
      <4>1. fails[j] + row[j].attempts <= Attempts[j] + 1 + answers[j]
        BY <2>1, <2>2, <1>n
      <4>2. fails'[j] + row'[j].attempts + 1 <= Attempts[j] + 1 + answers'[j]
        BY <4>1, <3>2, <1>q, <1>n
      <4> QED
        BY <4>2, <1>n
    <3> QED
      BY <2>2, <3>1, <3>2, <1>q
  <2>3. CASE ~Spent(j)
    <3>1. fails[j] + row[j].attempts + 1 <= Attempts[j] + 1 + answers[j]
      BY <2>1, <2>3
    <3>2. fails'[j] + row'[j].attempts + 1 <= Attempts[j] + 1 + answers'[j]
      BY <3>1, <1>q, <1>n
    <3> QED
      BY <3>2, <1>n
  <2> QED
    BY <2>2, <2>3
<1>1. CASE UNCHANGED vars
  <2>1. UNCHANGED <<row, exec, fails, answers, overlap>>
    BY <1>1 DEF vars, requests, bounds, history
  <2> QED
    BY <2>1 DEF Budgeted, Spent
<1>2. ASSUME NEW c \in Calls, NEW j \in Jobs,
             ExecStep(c, j) \/ FailJob(c, j) \/ FailJobUnrecorded(c, j)
      PROVE  Budgeted'
  <2>1. Turn(c, j) /\ Elsewhere(c, j) /\ exec[c][j].pc # "none"
    BY <1>2, <1>t, ExecEffect, ExecFrame
  <2>a. answers' = answers
    BY <2>1 DEF Elsewhere
  <2>2. ASSUME ~overlap', NEW k \in Jobs
        PROVE  fails'[k] + row'[k].attempts + (IF Spent(k)' THEN 0 ELSE 1) <= Attempts[k] + 1 + answers'[k]
    <3>f. /\ \A i \in Jobs : i # j => fails'[i] = fails[i]
          /\ \/ fails'[j] = fails[j] /\ row'[j].attempts = row[j].attempts
             \/ /\ fails'[j] = fails[j] + 1
                /\ \/ row'[j].attempts + 1 = row[j].attempts
                   \/ row[j].attempts = 0 /\ row'[j].attempts = 0 /\ Spent(j)'
      BY <2>1, <2>2, <1>o, FailureCosts
    <3>1. CASE k # j
      <4>1. row'[k] = row[k] /\ \A d \in Calls : exec'[d][k] = exec[d][k]
        BY <2>1, <3>1 DEF Elsewhere
      <4>2. Spent(k) => Spent(k)'
        BY <4>1 DEF Spent
      <4> QED
        BY <2>2, <2>a, <3>1, <3>f, <4>1, <4>2, <1>q, <1>n
    <3>2. CASE k = j
      <4>1. ~Spent(j)
        BY <2>1 DEF Spent
      <4>2. fails[j] + row[j].attempts + 1 <= Attempts[j] + 1 + answers[j]
        BY <4>1, <2>2, <1>o DEF Budgeted
      <4>3. CASE fails'[j] = fails[j] /\ row'[j].attempts = row[j].attempts
        BY <4>1, <4>3, <2>2, <2>a, <3>2, <1>q, <1>n
      <4>4. CASE fails'[j] = fails[j] + 1 /\ row'[j].attempts + 1 = row[j].attempts
        <5>1. fails'[j] + row'[j].attempts + 1 <= Attempts[j] + 1 + answers'[j]
          BY <4>2, <4>4, <2>a, <1>n
        <5> QED
          BY <5>1, <3>2, <1>n
      <4>5. CASE fails'[j] = fails[j] + 1 /\ row[j].attempts = 0 /\ row'[j].attempts = 0 /\ Spent(j)'
        <5>1. fails'[j] + row'[j].attempts <= Attempts[j] + 1 + answers'[j]
          BY <4>2, <4>5, <2>a, <1>n
        <5> QED
          BY <5>1, <4>5, <3>2, <1>n
      <4> QED
        BY <3>f, <4>3, <4>4, <4>5
    <3> QED
      BY <3>1, <3>2
  <2> QED
    BY <2>2 DEF Budgeted
\* Every other step costs nothing.
<1>r. ASSUME \A j \in Jobs :
                /\ fails'[j] = fails[j] /\ row'[j].attempts = row[j].attempts
                /\ answers'[j] >= answers[j]
                /\ Spent(j) => Spent(j)' \/ answers'[j] = answers[j] + 1
      PROVE  Budgeted'
  BY <1>r, <1>q DEF Budgeted
<1>3. ASSUME NEW c \in Calls, CallStep(c) \/ PollError(c) PROVE Budgeted'
  <2>1. row' = row /\ answers' = answers /\ fails' = fails
    BY <1>3, <1>t, CallEffect DEF requests
  <2>2. ASSUME NEW j \in Jobs, Spent(j) PROVE Spent(j)'
    <3>1. \A d \in Calls : exec'[d][j] = exec[d][j] \/ exec'[d][j].pc = "none"
                           \/ row[j].status = "PENDING"
      BY <1>3, <1>t, CallEffect
    <3>2. row[j].status = "FAILED"
      BY <2>2 DEF Spent
    <3> QED
      BY <2>1, <2>2, <3>1, <3>2 DEF Spent
  <2> QED
    BY <2>1, <2>2, <1>r, <1>n
<1>4. CASE Environment \/ \E j \in Jobs : \E id \in pendingCb[j] : CallbackError(j, id)
  <2>1. exec' = exec /\ fails' = fails
    BY <1>4, EnvironmentEffect
  <2>2. ASSUME NEW j \in Jobs
        PROVE  /\ row'[j].attempts = row[j].attempts
               /\ answers'[j] >= answers[j]
               /\ Spent(j) => Spent(j)' \/ answers'[j] = answers[j] + 1
    <3>1. /\ row'[j].attempts = row[j].attempts
          /\ \/ row'[j].status = row[j].status
             \/ row'[j].status = "PENDING" /\ row[j].status = "ABSENT"
             \/ answers'[j] = answers[j] + 1
          /\ answers'[j] \in {answers[j], answers[j] + 1}
      BY <1>4, <1>t, RowFromOutside
    <3>2. answers'[j] >= answers[j]
      BY <3>1, <1>n
    <3> QED
      BY <2>1, <3>1, <3>2 DEF Spent
  <2> QED
    BY <2>1, <2>2, <1>r
<1>5. ASSUME NEW s \in Servers, Crash(s) \/ Shutdown(s) \/ \E c \in Calls : Restart(s, c)
      PROVE  Budgeted'
  <2>1. /\ row' = row /\ answers' = answers /\ fails' = fails
        /\ \A d \in Calls, j \in Jobs : exec'[d][j].pc = "none" \/ exec'[d][j] = exec[d][j]
    BY <1>5, <1>t, ProcessEffect DEF requests
  <2>2. \A j \in Jobs : Spent(j) => Spent(j)'
    BY <2>1 DEF Spent
  <2> QED
    BY <2>1, <2>2, <1>r, <1>n
<1>6. CASE Next
  BY <1>2, <1>3, <1>4, <1>5, <1>6 DEF Next, Fault
<1> QED
  BY <1>1, <1>6

\* What the theorems on rows and their writers rest on.
WriterInv == FlightInv /\ Synced /\ Budgeted

LEMMA WriterAlways == Spec => []WriterInv
<1>1. Init => WriterInv
  BY InitType, RunnersInit, SoloInit, SizedInit, ShapedInit, SyncedInit, BudgetedInit
     DEF WriterInv, FlightInv
<1>2. WriterInv /\ [Next]_vars => WriterInv'
  BY FlightNext, SyncedNext, BudgetedNext DEF WriterInv
<1> QED
  BY <1>1, <1>2, PTL DEF Spec

\* For every number of attempts and of faults: while polls do not overlap, a job
\* fails no more often than its attempts, and its callbacks, allow.
THEOREM FailuresAreBounded == Spec => []RetriesBounded
<1>1. WriterInv => RetriesBounded
  <2> SUFFICES ASSUME WriterInv, ~overlap, NEW j \in Jobs
               PROVE  fails[j] <= Attempts[j] + 1 + answers[j]
    BY DEF RetriesBounded
  <2>1. /\ fails[j] \in Nat /\ answers[j] \in Nat /\ Attempts[j] \in Nat
        /\ row[j].attempts \in Nat
    BY ConstantsAssumption DEF WriterInv, FlightInv, TypeOK, Row
  <2>2. fails[j] + row[j].attempts + (IF Spent(j) THEN 0 ELSE 1) <= Attempts[j] + 1 + answers[j]
    BY DEF WriterInv, Budgeted
  <2> QED
    BY <2>1, <2>2
<1> QED
  BY <1>1, WriterAlways, PTL

-----------------------------------------------------------------------------
(* The external requests and their callbacks.                                *)

\* Request id of job j has a callback to come, or had one that came in vain.
Owes(cb, vain, j, id) == id \in cb[j] \/ <<j, id>> \in vain

\* The id that is about to be saved is nobody else's, nor in the row yet.
Asked(c, j) ==
    exec[c][j].pc = "asked" =>
        LET id == exec[c][j].ext IN
        /\ id \in 1..reqs[j] /\ row[j].ext # id /\ Owes(pendingCb, missed, j, id)
        /\ \A d \in Calls : exec[d][j].pc = "asked" /\ exec[d][j].ext = id => d = c

Requested ==
    /\ \A j \in Jobs : pendingCb[j] \subseteq 1..reqs[j] /\ row[j].ext \in 0..reqs[j]
    /\ \A c \in Calls, j \in Jobs : Asked(c, j)
    /\ HoldAwaitsCallback

LEMMA RequestedInit == Init => Requested
<1> SUFFICES ASSUME Init PROVE Requested
  OBVIOUS
<1>1. \A c \in Calls, j \in Jobs : exec[c][j].pc = "none"
  BY DEF Init, NoExec
<1>2. \A j \in Jobs : pendingCb[j] = {} /\ row[j].ext \in 0..reqs[j] /\ row[j].status = "ABSENT"
  BY DEF Init
<1> QED
  BY <1>1, <1>2 DEF Requested, Asked, HoldAwaitsCallback

\* A row is put on hold with the id that was asked for, and only so.
LEMMA HeldWithId ==
    ASSUME NEW c \in Calls, NEW j \in Jobs, TypeOK, AllShaped, Turn(c, j)
    PROVE  /\ row'[j].ext = row[j].ext \/ (exec[c][j].pc = "asked" /\ row'[j].ext = exec[c][j].ext)
           /\ row'[j].status = "ON HOLD" =>
                 \/ row[j].status = "ON HOLD" /\ row'[j].ext = row[j].ext
                 \/ exec[c][j].pc = "asked" /\ row'[j].ext = exec[c][j].ext
<1>f. PICK e, f, r, s : e = exec[c][j] /\ f = exec'[c][j] /\ r = row[j] /\ s = row'[j]
  OBVIOUS
<1>t. e \in Executor /\ Shaped(e, Batches[j], Draining(c, j))
  BY <1>f DEF TypeOK, AllShaped
<1>1. CASE Holds(e, f, r, s)
  BY <1>1, <1>f DEF Holds
<1>2. CASE EndsSaving(e, f, r, s)
  BY <1>2, <1>f, <1>t DEF EndsSaving, SameColumns, Kept, Shaped
<1>3. CASE RunsBatch(e, f, r, s, Batches[j], Draining(c, j))
  <2>1. s.ext = r.ext /\ s.status = Kept(r, e.saved, f.status) /\ f.status # "ON HOLD"
    BY <1>3 DEF RunsBatch
  <2> QED
    BY <2>1, <1>f DEF Kept
<1>4. CASE Fails(e, f, r, s)
  <2>1. s.ext = r.ext /\ \E q \in {"PENDING", "FAILED"} : s.status = Kept(r, e.saved, q)
    BY <1>4 DEF Fails
  <2> QED
    BY <2>1, <1>f DEF Kept
<1> QED
  BY <1>f, <1>1, <1>2, <1>3, <1>4 DEF Turn, Reserves, GoesOn, Finishes, Completes, Asks,
                                      Disappears, SameColumns, Kept

\* The requests made and answered by a step of an execution.
LEMMA AsksAtMostOne ==
    ASSUME NEW c \in Calls, NEW j \in Jobs, TypeOK, Turn(c, j)
    PROVE  \/ /\ UNCHANGED <<reqs, pendingCb>>
              /\ exec'[c][j].pc = "asked" => FALSE
           \/ /\ reqs' = [reqs EXCEPT ![j] = @ + 1]
              /\ pendingCb' = [pendingCb EXCEPT ![j] = @ \cup {reqs[j] + 1}]
              /\ exec'[c][j].pc = "asked" /\ exec'[c][j].ext = reqs[j] + 1
              /\ row'[j] = row[j] /\ exec[c][j].pc = "work"
BY DEF Turn, Quiet, Reserves, RunsBatch, GoesOn, Finishes, Completes, Asks, Holds,
       EndsSaving, Fails, Disappears

LEMMA RequestedExec ==
    ASSUME FlightInv, Requested, NEW c \in Calls, NEW j \in Jobs,
           ExecStep(c, j) \/ FailJob(c, j) \/ FailJobUnrecorded(c, j)
    PROVE  Requested'
<1>t. /\ TypeOK /\ AllShaped
      /\ reqs \in [Jobs -> Nat] /\ pendingCb \in [Jobs -> SUBSET Nat]
  BY DEF FlightInv, TypeOK
<1>1. Turn(c, j) /\ Elsewhere(c, j)
  BY <1>t, ExecEffect
<1>e. /\ \A d \in Calls, k \in Jobs : d # c \/ k # j => exec'[d][k] = exec[d][k]
      /\ \A k \in Jobs : k # j => row'[k] = row[k]
      /\ missed' = missed
  BY <1>1 DEF Elsewhere
<1>h. /\ row'[j].ext = row[j].ext \/ (exec[c][j].pc = "asked" /\ row'[j].ext = exec[c][j].ext)
      /\ row'[j].status = "ON HOLD" =>
            \/ row[j].status = "ON HOLD" /\ row'[j].ext = row[j].ext
            \/ exec[c][j].pc = "asked" /\ row'[j].ext = exec[c][j].ext
  BY <1>1, <1>t, HeldWithId
\* No request is made: one may be saved.
<1>2. ASSUME UNCHANGED <<reqs, pendingCb>>, exec'[c][j].pc # "asked" PROVE Requested'
  <2>1. \A k \in Jobs : pendingCb'[k] \subseteq 1..reqs'[k] /\ row'[k].ext \in 0..reqs'[k]
    <3>1. row'[j].ext \in 0..reqs[j]
      <4>1. row[j].ext \in 0..reqs[j] /\ reqs[j] \in Nat
        BY <1>t DEF Requested
      <4>2. exec[c][j].pc = "asked" => exec[c][j].ext \in 1..reqs[j]
        BY DEF Requested, Asked
      <4>3. CASE row'[j].ext = row[j].ext
        BY <4>1, <4>3
      <4>4. CASE exec[c][j].pc = "asked" /\ row'[j].ext = exec[c][j].ext
        <5>1. row'[j].ext \in 1..reqs[j]
          BY <4>2, <4>4
        <5> QED
          BY <4>1, <5>1
      <4> QED
        BY <4>3, <4>4, <1>h
    <3> QED
      BY <3>1, <1>2, <1>e DEF Requested
  <2>2. ASSUME NEW d \in Calls, NEW k \in Jobs PROVE Asked(d, k)'
    <3> SUFFICES ASSUME exec'[d][k].pc = "asked"
                 PROVE  /\ exec'[d][k].ext \in 1..reqs'[k] /\ row'[k].ext # exec'[d][k].ext
                        /\ Owes(pendingCb', missed', k, exec'[d][k].ext)
                        /\ \A b \in Calls : exec'[b][k].pc = "asked" /\ exec'[b][k].ext = exec'[d][k].ext
                                              => b = d
      BY DEF Asked
    <3>1. exec'[d][k] = exec[d][k] /\ ~(d = c /\ k = j)
      BY <1>2, <1>e
    <3>2. /\ exec[d][k].ext \in 1..reqs[k] /\ row[k].ext # exec[d][k].ext
          /\ Owes(pendingCb, missed, k, exec[d][k].ext)
          /\ \A b \in Calls : exec[b][k].pc = "asked" /\ exec[b][k].ext = exec[d][k].ext => b = d
      BY <3>1 DEF Requested, Asked
    <3>3. row'[k].ext # exec[d][k].ext
      <4>1. CASE k # j
        BY <4>1, <3>2, <1>e
      <4>2. CASE k = j /\ d # c
        BY <4>2, <3>2, <1>h
      <4> QED
        BY <4>1, <4>2, <3>1
    <3>4. \A b \in Calls : exec'[b][k].pc = "asked" => exec'[b][k] = exec[b][k]
      BY <1>2, <1>e
    <3> QED
      BY <3>1, <3>2, <3>3, <3>4, <1>2, <1>e DEF Owes
  <2>3. ASSUME NEW k \in Jobs, row'[k].status = "ON HOLD" PROVE Owes(pendingCb', missed', k, row'[k].ext)
    <3>1. Owes(pendingCb, missed, k, row'[k].ext)
      <4>1. CASE k # j
        BY <4>1, <2>3, <1>e DEF Requested, HoldAwaitsCallback, Owes
      <4>2. CASE k = j /\ exec[c][j].pc = "asked" /\ row'[j].ext = exec[c][j].ext
        BY <4>2 DEF Requested, Asked
      <4>3. CASE k = j /\ row[j].status = "ON HOLD" /\ row'[j].ext = row[j].ext
        BY <4>3 DEF Requested, HoldAwaitsCallback, Owes
      <4> QED
        BY <4>1, <4>2, <4>3, <2>3, <1>h
    <3> QED
      BY <3>1, <1>2, <1>e DEF Owes
  <2> QED
    BY <2>1, <2>2, <2>3 DEF Requested, HoldAwaitsCallback, Owes
\* A request is made, under a number nobody has seen.
<1>3. ASSUME reqs' = [reqs EXCEPT ![j] = @ + 1],
             pendingCb' = [pendingCb EXCEPT ![j] = @ \cup {reqs[j] + 1}],
             exec'[c][j].pc = "asked", exec'[c][j].ext = reqs[j] + 1, row'[j] = row[j],
             exec[c][j].pc = "work"
      PROVE  Requested'
  <2>r. \A k \in Jobs : row'[k] = row[k]
    BY <1>3, <1>e
  <2>n. /\ reqs'[j] = reqs[j] + 1 /\ pendingCb'[j] = pendingCb[j] \cup {reqs[j] + 1}
        /\ \A k \in Jobs : k # j => reqs'[k] = reqs[k] /\ pendingCb'[k] = pendingCb[k]
        /\ \A k \in Jobs : reqs[k] \in Nat
    BY <1>3, <1>t
  <2>m. \A k \in Jobs : 1..reqs[k] \subseteq 1..reqs'[k] /\ 0..reqs[k] \subseteq 0..reqs'[k]
    BY <2>n
  <2>1. \A k \in Jobs : pendingCb'[k] \subseteq 1..reqs'[k] /\ row'[k].ext \in 0..reqs'[k]
    <3>1. ASSUME NEW k \in Jobs PROVE pendingCb'[k] \subseteq 1..reqs'[k]
      <4>1. pendingCb[k] \subseteq 1..reqs[k]
        BY DEF Requested
      <4>2. reqs[j] + 1 \in 1..reqs'[j]
        BY <2>n
      <4> QED
        BY <4>1, <4>2, <2>n, <2>m
    <3> QED
      BY <3>1, <2>r, <2>m DEF Requested
  <2>o. \A k \in Jobs, id \in Nat : Owes(pendingCb, missed, k, id) => Owes(pendingCb', missed', k, id)
    BY <2>n, <1>e DEF Owes
  <2>2. ASSUME NEW d \in Calls, NEW k \in Jobs PROVE Asked(d, k)'
    <3> SUFFICES ASSUME exec'[d][k].pc = "asked"
                 PROVE  /\ exec'[d][k].ext \in 1..reqs'[k] /\ row'[k].ext # exec'[d][k].ext
                        /\ Owes(pendingCb', missed', k, exec'[d][k].ext)
                        /\ \A b \in Calls : exec'[b][k].pc = "asked" /\ exec'[b][k].ext = exec'[d][k].ext
                                              => b = d
      BY DEF Asked
    <3>1. ASSUME NEW b \in Calls, exec[b][j].pc = "asked" PROVE exec[b][j].ext # reqs[j] + 1
      <4>1. exec[b][j].ext \in 1..reqs[j]
        BY <3>1 DEF Requested, Asked
      <4> QED
        BY <4>1, <2>n
    <3>2. CASE d = c /\ k = j
      <4>1. exec'[d][k].ext \in 1..reqs'[k]
        BY <3>2, <1>3, <2>n
      <4>2. row'[k].ext # exec'[d][k].ext
        <5>1. row[j].ext \in 0..reqs[j]
          BY DEF Requested
        <5> QED
          BY <3>2, <1>3, <5>1, <2>n
      <4>3. Owes(pendingCb', missed', k, exec'[d][k].ext)
        BY <3>2, <1>3, <2>n DEF Owes
      <4>4. ASSUME NEW b \in Calls, b # c, exec'[b][j].pc = "asked"
            PROVE  exec'[b][j].ext # reqs[j] + 1
        <5>1. exec'[b][j] = exec[b][j]
          BY <4>4, <1>e
        <5> QED
          BY <4>4, <5>1, <3>1
      <4> QED
        BY <4>1, <4>2, <4>3, <4>4, <3>2, <1>3
    <3>3. CASE ~(d = c /\ k = j)
      <4>1. exec'[d][k] = exec[d][k]
        BY <3>3, <1>e
      <4>2. /\ exec[d][k].ext \in 1..reqs[k] /\ row[k].ext # exec[d][k].ext
            /\ Owes(pendingCb, missed, k, exec[d][k].ext)
            /\ \A b \in Calls : exec[b][k].pc = "asked" /\ exec[b][k].ext = exec[d][k].ext => b = d
        BY <4>1 DEF Requested, Asked
      <4>3. ASSUME NEW b \in Calls, exec'[b][k].pc = "asked", exec'[b][k].ext = exec[d][k].ext
            PROVE  b = d
        <5>1. CASE b = c /\ k = j
          <6>1. exec[d][j].ext = reqs[j] + 1 /\ exec[d][j].pc = "asked"
            BY <5>1, <4>3, <1>3, <4>1
          <6> QED
            BY <6>1, <3>1
        <5>2. CASE ~(b = c /\ k = j)
          BY <5>2, <4>3, <4>2, <1>e
        <5> QED
          BY <5>1, <5>2
      <4>4. exec[d][k].ext \in Nat
        BY <4>2, <2>n
      <4> QED
        BY <4>1, <4>2, <4>3, <4>4, <2>r, <2>m, <2>o
    <3> QED
      BY <3>2, <3>3
  <2>3. ASSUME NEW k \in Jobs, row'[k].status = "ON HOLD" PROVE Owes(pendingCb', missed', k, row'[k].ext)
    <3>1. Owes(pendingCb, missed, k, row[k].ext) /\ row[k].ext \in Nat
      BY <2>3, <2>r, <1>t DEF Requested, HoldAwaitsCallback, Owes, TypeOK, Row
    <3> QED
      BY <3>1, <2>o, <2>r
  <2> QED
    BY <2>1, <2>2, <2>3 DEF Requested, HoldAwaitsCallback, Owes
<1> QED
  BY <1>1, <1>t, <1>2, <1>3, AsksAtMostOne

\* Steps that neither ask nor save keep what is outstanding.
LEMMA RequestedKept ==
    ASSUME Requested, reqs' = reqs,
           \A j \in Jobs : pendingCb'[j] \subseteq pendingCb[j] /\ row'[j].ext = row[j].ext,
           \A c \in Calls, j \in Jobs :
              exec'[c][j].pc = "asked" => exec'[c][j] = exec[c][j],
           \A j \in Jobs : row'[j].status = "ON HOLD" =>
              row[j].status = "ON HOLD" /\ Owes(pendingCb', missed', j, row[j].ext),
           \A j \in Jobs, id \in Nat :
              Owes(pendingCb, missed, j, id) /\ row[j].ext # id => Owes(pendingCb', missed', j, id),
           TypeOK
    PROVE  Requested'
<1>1. \A j \in Jobs : pendingCb'[j] \subseteq 1..reqs'[j] /\ row'[j].ext \in 0..reqs'[j]
  BY DEF Requested
<1>2. ASSUME NEW c \in Calls, NEW j \in Jobs PROVE Asked(c, j)'
  <2> SUFFICES ASSUME exec'[c][j].pc = "asked"
               PROVE  /\ exec'[c][j].ext \in 1..reqs'[j] /\ row'[j].ext # exec'[c][j].ext
                      /\ Owes(pendingCb', missed', j, exec'[c][j].ext)
                      /\ \A d \in Calls : exec'[d][j].pc = "asked" /\ exec'[d][j].ext = exec'[c][j].ext
                                            => d = c
    BY DEF Asked
  <2>0. exec'[c][j] = exec[c][j]
    OBVIOUS
  <2>1. exec'[c][j] = exec[c][j] /\ exec[c][j].pc = "asked" /\ exec[c][j].ext \in Nat
    <3>1. exec[c][j] \in Executor
      BY DEF TypeOK
    <3> QED
      BY <2>0, <3>1 DEF Executor
  <2>2. /\ exec[c][j].ext \in 1..reqs[j] /\ row[j].ext # exec[c][j].ext
        /\ Owes(pendingCb, missed, j, exec[c][j].ext)
        /\ \A d \in Calls : exec[d][j].pc = "asked" /\ exec[d][j].ext = exec[c][j].ext => d = c
    BY <2>1 DEF Requested, Asked
  <2>3. \A d \in Calls : exec'[d][j].pc = "asked" /\ exec'[d][j].ext = exec[c][j].ext => d = c
    BY <2>2
  <2> QED
    BY <2>1, <2>2, <2>3
<1>3. \A j \in Jobs : row'[j].status = "ON HOLD" => Owes(pendingCb', missed', j, row'[j].ext)
  <2>1. ASSUME NEW j \in Jobs, row'[j].status = "ON HOLD" PROVE Owes(pendingCb', missed', j, row'[j].ext)
    <3>1. Owes(pendingCb', missed', j, row[j].ext) /\ row'[j].ext = row[j].ext
      BY <2>1
    <3> QED
      BY <3>1 DEF Owes
  <2> QED
    BY <2>1
<1> QED
  BY <1>1, <1>2, <1>3 DEF Requested, HoldAwaitsCallback, Owes

LEMMA RequestedNext == ASSUME FlightInv, Requested, [Next]_vars PROVE Requested'
<1>t. TypeOK /\ Runners /\ row \in [Jobs -> Row] /\ pendingCb \in [Jobs -> SUBSET Nat]
  BY DEF FlightInv, TypeOK
<1>h. \A j \in Jobs : row[j].status = "ON HOLD" => Owes(pendingCb, missed, j, row[j].ext)
  BY DEF Requested, HoldAwaitsCallback, Owes
\* Steps of no execution and no callback.
<1>q. ASSUME UNCHANGED <<reqs, pendingCb, missed>>,
             \A j \in Jobs : /\ row'[j].ext = row[j].ext
                             /\ row'[j].status = "ON HOLD" => row[j].status = "ON HOLD",
             \A c \in Calls, j \in Jobs : exec'[c][j].pc = "asked" => exec'[c][j] = exec[c][j]
      PROVE  Requested'
  <2>1. \A j \in Jobs : \A id : Owes(pendingCb, missed, j, id) => Owes(pendingCb', missed', j, id)
    BY <1>q DEF Owes
  <2>2. \A j \in Jobs : row'[j].status = "ON HOLD" =>
              row[j].status = "ON HOLD" /\ Owes(pendingCb', missed', j, row[j].ext)
    BY <1>q, <1>h DEF Owes
  <2> QED
    BY <1>q, <1>t, <2>1, <2>2, RequestedKept
<1>1. CASE UNCHANGED vars
  BY <1>1, <1>q DEF vars, requests, history
<1>2. ASSUME NEW c \in Calls, CallStep(c) \/ PollError(c) PROVE Requested'
  <2>1. row' = row /\ UNCHANGED <<reqs, pendingCb, missed>>
    BY <1>2, <1>t, CallEffect DEF requests
  <2>2. \A d \in Calls, j \in Jobs : exec'[d][j] = exec[d][j] \/ exec'[d][j].pc = "none"
                                     \/ exec'[d][j] = Loaded(row[j])
    BY <1>2, <1>t, CallEffect
  <2>3. \A j \in Jobs : Loaded(row[j]).pc = "reserve"
    BY DEF Loaded
  <2>4. \A d \in Calls, j \in Jobs : exec'[d][j].pc = "asked" => exec'[d][j] = exec[d][j]
    BY <2>2, <2>3
  <2> QED
    BY <2>1, <2>4, <1>q
<1>3. ASSUME NEW s \in Servers, Crash(s) \/ Shutdown(s) \/ \E c \in Calls : Restart(s, c)
      PROVE  Requested'
  <2>1. /\ row' = row /\ UNCHANGED <<reqs, pendingCb, missed>>
        /\ \A d \in Calls, j \in Jobs : exec'[d][j].pc = "none" \/ exec'[d][j] = exec[d][j]
    BY <1>3, <1>t, ProcessEffect DEF requests
  <2> QED
    BY <2>1, <1>q
<1>4. CASE \E j \in Jobs : BecomeDue(j) \/ \E c \in Calls : Create(j, c)
  <2>1. UNCHANGED <<reqs, pendingCb, missed, exec>>
    BY <1>4 DEF BecomeDue, Create, requests, history
  <2>2. Environment
    BY <1>4 DEF Environment
  <2>3. \A j \in Jobs : /\ row'[j].ext = row[j].ext
                        /\ row'[j].status = row[j].status \/ row'[j].status = "PENDING"
    BY <2>2, <1>t, RowFromOutside
  <2> QED
    BY <2>1, <2>3, <1>q
\* A callback takes its request with it, unless it finds no row.
<1>5. ASSUME NEW j \in Jobs, NEW id \in pendingCb[j],
             CallbackError(j, id) \/ \E c \in Calls : Callback(j, id, c)
      PROVE  Requested'
  <2>1. /\ reqs' = reqs /\ exec' = exec
        /\ pendingCb' = pendingCb \/ pendingCb' = [pendingCb EXCEPT ![j] = @ \ {id}]
        /\ \/ missed' = missed \cup {<<j, id>>}
           \/ /\ missed' = missed /\ row[j].ext = id
              /\ row' = [row EXCEPT ![j].status = "PENDING", ![j].cmd = "INIT_CALLBACK"]
    BY <1>5 DEF CallbackError, Callback
  <2>2. /\ pendingCb[j] \ {id} \subseteq pendingCb'[j] /\ pendingCb'[j] \subseteq pendingCb[j]
        /\ \A k \in Jobs : k # j => pendingCb'[k] = pendingCb[k]
        /\ missed \subseteq missed'
    BY <2>1, <1>t
  <2>3. <<j, id>> \in missed' \/ (row[j].ext = id /\ row'[j].status # "ON HOLD")
    <3>1. CASE missed' = missed \cup {<<j, id>>}
      BY <3>1
    <3>2. CASE row[j].ext = id /\ row' = [row EXCEPT ![j].status = "PENDING", ![j].cmd = "INIT_CALLBACK"]
      <4>1. row'[j] = [row[j] EXCEPT !.status = "PENDING", !.cmd = "INIT_CALLBACK"]
        BY <3>2, <1>t
      <4> QED
        BY <3>2, <4>1, <1>t DEF Row
    <3> QED
      BY <2>1, <3>1, <3>2
  <2>4. \A k \in Jobs : /\ row'[k].ext = row[k].ext
                        /\ row'[k].status = row[k].status \/ row'[k].status = "PENDING"
    <3>1. Environment \/ \E k \in Jobs : \E i \in pendingCb[k] : CallbackError(k, i)
      BY <1>5 DEF Environment
    <3> QED
      BY <3>1, <1>t, RowFromOutside
  <2>5. ASSUME NEW k \in Jobs, NEW i, Owes(pendingCb, missed, k, i), k # j \/ i # id \/ <<j, id>> \in missed'
        PROVE  Owes(pendingCb', missed', k, i)
    BY <2>2, <2>5 DEF Owes
  <2>6. \A k \in Jobs : row'[k].status = "ON HOLD" =>
              row[k].status = "ON HOLD" /\ Owes(pendingCb', missed', k, row[k].ext)
    <3>1. ASSUME NEW k \in Jobs, row'[k].status = "ON HOLD"
          PROVE  row[k].status = "ON HOLD" /\ Owes(pendingCb', missed', k, row[k].ext)
      <4>1. row[k].status = "ON HOLD" /\ Owes(pendingCb, missed, k, row[k].ext)
        BY <3>1, <2>4, <1>h
      <4>2. k # j \/ <<j, id>> \in missed'
        BY <3>1, <2>3
      <4>3. PICK i : i = row[k].ext
        OBVIOUS
      <4>4. Owes(pendingCb', missed', k, i)
        BY <4>1, <4>2, <4>3, <2>5
      <4> QED
        BY <4>1, <4>3, <4>4 DEF Owes
    <3> QED
      BY <3>1
  <2>7. \A k \in Jobs, i \in Nat : Owes(pendingCb, missed, k, i) /\ row[k].ext # i => Owes(pendingCb', missed', k, i)
    BY <2>5, <2>3
  <2>8. \A k \in Jobs : pendingCb'[k] \subseteq pendingCb[k]
    BY <2>2
  <2> QED
    BY <2>1, <2>4, <2>6, <2>7, <2>8, <1>t, RequestedKept
<1>6. ASSUME NEW c \in Calls, NEW j \in Jobs,
             ExecStep(c, j) \/ FailJob(c, j) \/ FailJobUnrecorded(c, j)
      PROVE  Requested'
  BY <1>6, RequestedExec
<1>7. CASE Next
  BY <1>2, <1>3, <1>4, <1>5, <1>6, <1>7 DEF Next, Fault, Environment
<1> QED
  BY <1>1, <1>7

\* A job on hold has a callback to come, or had one that came too early or failed:
\* no interleaving of polls, executions and callbacks leaves it with an id for
\* which nothing was ever due.
THEOREM HeldJobsAreAnswered == Spec => []HoldAwaitsCallback
<1>1. Init => FlightInv /\ Requested
  BY InitType, RunnersInit, SoloInit, SizedInit, ShapedInit, RequestedInit DEF FlightInv
<1>2. FlightInv /\ Requested /\ [Next]_vars => (FlightInv /\ Requested)'
  BY FlightNext, RequestedNext
<1>3. Requested => HoldAwaitsCallback
  BY DEF Requested
<1> QED
  BY <1>1, <1>2, <1>3, PTL DEF Spec

-----------------------------------------------------------------------------
(* Nothing a writer of a row has written is undone by another.               *)

\* Only a job created to request asks, and no job gains an attempt.
Origin ==
    \A j \in Jobs :
        /\ row[j].cmd = "REQUEST" => Command[j] = "REQUEST"
        /\ row[j].ext # 0 => Command[j] = "REQUEST"
        /\ row[j].attempts <= Attempts[j]
        /\ \A c \in Calls : exec[c][j].pc # "none" =>
              /\ exec[c][j].cmd = "REQUEST" => Command[j] = "REQUEST"
              /\ exec[c][j].attempts <= Attempts[j]

\* An instance that has put its job on hold, or given it back.
Leaving(e) ==
    e.pc \in {"saved", "save"} /\ e.saved = e.status /\ e.status \in {"PENDING", "ON HOLD"}

\* A job that asked and was not answered is on hold or has failed, and whoever
\* executes it is leaving; one that waits is not being worked on either.
Waiting(e, r, answered) ==
    /\ r.ext # 0 /\ answered = 0 =>
          r.status # "PENDING" /\ (e.pc = "none" \/ (Leaving(e) /\ e.status = "ON HOLD"))
    /\ r.status = "PENDING" /\ answered <= 1 => e.pc \in {"none", "reserve"} \/ Leaving(e)

Waits == ~overlap => \A j \in AskedOnce, c \in Calls : Waiting(exec[c][j], row[j], answers[j])

LEMMA WaitsInit == Init => Origin /\ Waits
<1> SUFFICES ASSUME Init PROVE Origin /\ Waits
  OBVIOUS
<1>1. /\ \A c \in Calls, j \in Jobs : exec[c][j].pc = "none"
      /\ \A j \in Jobs : /\ row[j].ext = 0 /\ row[j].cmd = Command[j] /\ row[j].status = "ABSENT"
                         /\ row[j].attempts = Attempts[j] /\ Attempts[j] \in Nat
  BY ConstantsAssumption DEF Init, NoExec
<1>2. Origin
  BY <1>1 DEF Origin
<1>3. ASSUME NEW j \in AskedOnce, NEW c \in Calls
      PROVE  Waiting(exec[c][j], row[j], answers[j])
  <2>1. j \in Jobs
    BY DEF AskedOnce
  <2> QED
    BY <1>1, <2>1 DEF Waiting
<1> QED
  BY <1>2, <1>3 DEF Waits

LEMMA OriginTurn ==
    ASSUME NEW c \in Calls, NEW j \in Jobs, FlightInv, Origin, Turn(c, j), Elsewhere(c, j),
           exec[c][j].pc # "none"
    PROVE  /\ row'[j].ext # 0 => Command[j] = "REQUEST"
           /\ row'[j].attempts <= Attempts[j]
           /\ exec'[c][j].pc # "none" =>
                /\ exec'[c][j].cmd = "REQUEST" => Command[j] = "REQUEST"
                /\ exec'[c][j].attempts <= Attempts[j]
<1>f. PICK e, f, r, s : e = exec[c][j] /\ f = exec'[c][j] /\ r = row[j] /\ s = row'[j]
  OBVIOUS
<1>t. /\ e \in Executor /\ r \in Row /\ Shaped(e, Batches[j], Draining(c, j))
      /\ e.attempts \in Nat /\ r.attempts \in Nat /\ Attempts[j] \in Nat
  BY <1>f, ConstantsAssumption DEF FlightInv, TypeOK, AllShaped, Executor, Row
<1>o. /\ e.cmd = "REQUEST" => Command[j] = "REQUEST"
      /\ r.ext # 0 => Command[j] = "REQUEST"
      /\ r.attempts <= Attempts[j] /\ e.attempts <= Attempts[j]
  BY <1>f DEF Origin
<1>1. s.ext = r.ext \/ e.pc = "asked"
  BY <1>f DEF Turn, Reserves, RunsBatch, GoesOn, Finishes, Completes, Asks, Holds,
              EndsSaving, Fails, Disappears, SameColumns
<1>2. f.pc # "none" => f.cmd = e.cmd /\ f.attempts = e.attempts
  BY <1>f DEF Elsewhere, Turn, Reserves, RunsBatch, GoesOn, Finishes, Completes, Asks, Holds,
              EndsSaving, Fails, Disappears, SameInstance
<1>3. s.attempts = r.attempts \/ s.attempts = (IF e.attempts > 0 THEN e.attempts - 1 ELSE 0)
  BY <1>f DEF Turn, Reserves, RunsBatch, GoesOn, Finishes, Completes, Asks, Holds,
              EndsSaving, Fails, Disappears, SameColumns
<1>4. s.attempts <= Attempts[j]
  BY <1>3, <1>o, <1>t
<1>5. e.pc = "asked" => Command[j] = "REQUEST"
  BY <1>t, <1>o DEF Shaped
<1> QED
  BY <1>1, <1>2, <1>4, <1>5, <1>o, <1>f

LEMMA OriginNext == ASSUME FlightInv, Origin, [Next]_vars PROVE Origin'
<1>t. TypeOK /\ Runners
  BY DEF FlightInv
<1>q. ASSUME \A j \in Jobs : /\ row'[j].ext = row[j].ext /\ row'[j].attempts = row[j].attempts
                             /\ row'[j].cmd = row[j].cmd \/ row'[j].cmd = "INIT_CALLBACK",
             \A c \in Calls, j \in Jobs :
                \/ exec'[c][j].pc = "none" \/ exec'[c][j] = exec[c][j]
                \/ exec'[c][j] = Loaded(row[j])
      PROVE  Origin'
  <2>1. \A j \in Jobs : Loaded(row[j]).cmd = row[j].cmd /\ Loaded(row[j]).attempts = row[j].attempts
    BY DEF Loaded
  <2> QED
    BY <1>q, <2>1 DEF Origin
<1>1. CASE UNCHANGED vars
  BY <1>1 DEF vars, Origin
<1>2. ASSUME NEW c \in Calls, NEW j \in Jobs,
             ExecStep(c, j) \/ FailJob(c, j) \/ FailJobUnrecorded(c, j)
      PROVE  Origin'
  <2>1. Turn(c, j) /\ Elsewhere(c, j) /\ exec[c][j].pc # "none"
    BY <1>2, <1>t, ExecEffect, ExecFrame
  <2>2. /\ row'[j].ext # 0 => Command[j] = "REQUEST"
        /\ row'[j].attempts <= Attempts[j]
        /\ exec'[c][j].pc # "none" =>
                /\ exec'[c][j].cmd = "REQUEST" => Command[j] = "REQUEST"
                /\ exec'[c][j].attempts <= Attempts[j]
    BY <2>1, OriginTurn
  <2>3. /\ \A k \in Jobs : k # j => row'[k] = row[k]
        /\ \A d \in Calls, k \in Jobs : d # c \/ k # j => exec'[d][k] = exec[d][k]
        /\ row'[j].cmd = row[j].cmd
    BY <2>1 DEF Elsewhere
  <2>4. \A k \in Jobs : /\ row'[k].cmd = "REQUEST" => Command[k] = "REQUEST"
                        /\ row'[k].ext # 0 => Command[k] = "REQUEST"
                        /\ row'[k].attempts <= Attempts[k]
    BY <2>2, <2>3 DEF Origin
  <2>5. \A k \in Jobs, d \in Calls : exec'[d][k].pc # "none" =>
              /\ exec'[d][k].cmd = "REQUEST" => Command[k] = "REQUEST"
              /\ exec'[d][k].attempts <= Attempts[k]
    BY <2>2, <2>3 DEF Origin
  <2> QED
    BY <2>4, <2>5 DEF Origin
<1>3. ASSUME NEW c \in Calls, CallStep(c) \/ PollError(c) PROVE Origin'
  <2>1. row' = row /\ \A d \in Calls, j \in Jobs :
            exec'[d][j].pc = "none" \/ exec'[d][j] = exec[d][j] \/ exec'[d][j] = Loaded(row[j])
    BY <1>3, <1>t, CallEffect
  <2> QED
    BY <2>1, <1>q
<1>4. CASE Environment \/ \E j \in Jobs : \E id \in pendingCb[j] : CallbackError(j, id)
  <2>1. exec' = exec
    BY <1>4, EnvironmentEffect
  <2>2. \A j \in Jobs : /\ row'[j].ext = row[j].ext /\ row'[j].attempts = row[j].attempts
                        /\ row'[j].cmd = row[j].cmd \/ row'[j].cmd = "INIT_CALLBACK"
    BY <1>4, <1>t, RowFromOutside
  <2> QED
    BY <2>1, <2>2, <1>q
<1>5. ASSUME NEW s \in Servers, Crash(s) \/ Shutdown(s) \/ \E c \in Calls : Restart(s, c)
      PROVE  Origin'
  <2>1. row' = row /\ \A d \in Calls, j \in Jobs : exec'[d][j].pc = "none" \/ exec'[d][j] = exec[d][j]
    BY <1>5, <1>t, ProcessEffect
  <2> QED
    BY <2>1, <1>q
<1>6. CASE Next
  BY <1>2, <1>3, <1>4, <1>5, <1>6 DEF Next, Fault
<1> QED
  BY <1>1, <1>6

\* An instance that leaves goes on leaving; one that was not waited for may put
\* its job on hold or give it back.
LEMMA WaitingTurn ==
    ASSUME NEW c \in Calls, NEW j \in Jobs, TypeOK, AllShaped, Turn(c, j),
           Waiting(exec[c][j], row[j], answers[j]), exec[c][j].pc # "none",
           row[j].ext # 0 => exec[c][j].attempts = 0
    PROVE  Waiting(exec'[c][j], row'[j], answers[j])
<1>f. PICK e, f, r, s : e = exec[c][j] /\ f = exec'[c][j] /\ r = row[j] /\ s = row'[j]
  OBVIOUS
<1>n. PICK n, d, a : n = Batches[j] /\ d = Draining(c, j) /\ a = answers[j]
  OBVIOUS
<1>t. /\ e \in Executor /\ Shaped(e, n, d) /\ Waiting(e, r, a) /\ a \in Nat
      /\ d \in BOOLEAN /\ e.pc # "none" /\ (r.ext # 0 => e.attempts = 0)
  BY <1>f, <1>n DEF TypeOK, AllShaped, Draining
<1>1. \/ Reserves(e, f, r, s) \/ RunsBatch(e, f, r, s, n, d) \/ GoesOn(e, f, r, s, n, d)
      \/ Finishes(e, f, r, s, n, d) \/ Completes(e, f, r, s)
      \/ Asks(e, f, r, s, reqs[j] + 1) \/ Holds(e, f, r, s) \/ EndsSaving(e, f, r, s)
      \/ Fails(e, f, r, s) \/ Disappears(e, f, r, s)
  BY <1>f, <1>n DEF Turn
\* An instance at work: its job is neither waiting nor has it an unanswered request.
<1>w. e.pc \in {"work", "asked"} =>
         (r.ext # 0 => a # 0) /\ (r.status = "PENDING" => ~(a <= 1))
  BY <1>t DEF Waiting, Leaving
<1>2. Waiting(f, s, a)
  <2>1. CASE Reserves(e, f, r, s)
    <3>1. r.ext # 0 => a # 0
      BY <2>1, <1>t DEF Reserves, Waiting, Leaving
    <3> QED
      BY <2>1, <3>1 DEF Reserves, SameColumns, Waiting
  <2>2. CASE RunsBatch(e, f, r, s, n, d)
    <3>1. /\ s.ext = r.ext /\ f.pc = "saved" /\ f.saved = f.status
          /\ s.status = "PENDING" => r.status = "PENDING" \/ f.status = "PENDING"
      BY <2>2, <1>t DEF RunsBatch, Kept
    <3> QED
      BY <2>2, <3>1, <1>w DEF RunsBatch, Waiting, Leaving
  <2>3. CASE GoesOn(e, f, r, s, n, d)
    <3>1. ~Leaving(e) /\ e.pc = "saved"
      BY <2>3, <1>t DEF GoesOn, Leaving, Shaped, Batched
    <3> QED
      BY <2>3, <3>1, <1>t DEF GoesOn, Waiting
  <2>4. CASE Finishes(e, f, r, s, n, d)
    <3>1. CASE e.pc = "work"
      BY <2>4, <3>1, <1>w DEF Finishes, Waiting
    <3>2. CASE e.pc = "saved"
      <4>1. Leaving(e) => Leaving(f) /\ f.status = e.status
        BY <2>4, <3>2, <1>t DEF Finishes, Leaving, Shaped
      <4> QED
        BY <2>4, <3>2, <4>1, <1>t DEF Finishes, Waiting
    <3> QED
      BY <2>4, <3>1, <3>2 DEF Finishes
  <2>5. CASE Completes(e, f, r, s)
    <3>1. s.ext = r.ext /\ (s.status = "PENDING" => r.status = "PENDING")
      BY <2>5, <1>t DEF Completes, Kept, SameColumns
    <3> QED
      BY <2>5, <3>1, <1>w DEF Completes, Waiting
  <2>6. CASE Asks(e, f, r, s, reqs[j] + 1)
    BY <2>6, <1>w DEF Asks, Waiting
  <2>7. CASE Holds(e, f, r, s)
    <3>1. s.status = "ON HOLD"
      BY <2>7, <1>t DEF Holds, Kept, Shaped
    <3> QED
      BY <2>7, <3>1 DEF Holds, Waiting, Leaving
  <2>8. CASE EndsSaving(e, f, r, s)
    <3>1. s.ext = r.ext /\ f.pc = "none"
      BY <2>8 DEF EndsSaving, SameColumns
    <3>2. r.ext # 0 /\ a = 0 => s.status = r.status
      BY <2>8, <1>t DEF EndsSaving, Kept, Waiting, Leaving
    <3> QED
      BY <3>1, <3>2, <1>t DEF Waiting
  <2>9. CASE Fails(e, f, r, s)
    <3>1. s.ext = r.ext /\ f.pc = "none"
      BY <2>9 DEF Fails
    <3>2. r.ext # 0 /\ a = 0 => s.status # "PENDING"
      <4>1. SUFFICES ASSUME r.ext # 0, a = 0 PROVE s.status # "PENDING"
        OBVIOUS
      <4>2. ~(e.attempts > 0)
        BY <4>1, <1>t
      <4>w. r.status # "PENDING"
        BY <4>1, <1>t DEF Waiting
      <4>3. s.status = Kept(r, e.saved, IF e.attempts > 0 THEN "PENDING" ELSE "FAILED")
        BY <2>9 DEF Fails
      <4> QED
        BY <4>2, <4>3, <4>w DEF Kept
    <3> QED
      BY <3>1, <3>2 DEF Waiting
  <2>10. CASE Disappears(e, f, r, s)
    BY <2>10, <1>t DEF Disappears, Waiting
  <2> QED
    BY <1>1, <2>1, <2>2, <2>3, <2>4, <2>5, <2>6, <2>7, <2>8, <2>9, <2>10
<1> QED
  BY <1>2, <1>f, <1>n

LEMMA WaitsNext ==
    ASSUME WriterInv, Requested, Origin, Waits, [Next]_vars PROVE Waits'
<1>t. /\ FlightInv /\ TypeOK /\ Runners /\ Solo /\ AllShaped /\ Synced
      /\ AskedOnce \subseteq Jobs /\ \A j \in Jobs : answers[j] \in Nat
  BY DEF WriterInv, FlightInv, AskedOnce, TypeOK
<1>o. ~overlap' => ~overlap
  BY <1>t, OverlapStays
<1>w. ~overlap' => \A j \in AskedOnce, c \in Calls : Waiting(exec[c][j], row[j], answers[j])
  BY <1>o DEF Waits
\* An execution that ends, or none, waits as the row does.
<1>i. \A e, f, r, a : Waiting(e, r, a) /\ f.pc = "none" => Waiting(f, r, a)
  BY DEF Waiting
<1>1. CASE UNCHANGED vars
  BY <1>1 DEF vars, requests, history, Waits
<1>2. ASSUME NEW c \in Calls, NEW j \in Jobs,
             ExecStep(c, j) \/ FailJob(c, j) \/ FailJobUnrecorded(c, j)
      PROVE  Waits'
  <2>1. Turn(c, j) /\ Elsewhere(c, j) /\ exec[c][j].pc # "none"
    BY <1>2, <1>t, ExecEffect, ExecFrame
  <2>2. answers' = answers
    BY <2>1 DEF Elsewhere
  <2>3. ASSUME ~overlap', NEW k \in AskedOnce, NEW d \in Calls
        PROVE  Waiting(exec'[d][k], row'[k], answers[k])
    <3>1. CASE k # j
      <4>1. row'[k] = row[k] /\ exec'[d][k] = exec[d][k]
        BY <2>1, <3>1, <1>t DEF Elsewhere
      <4> QED
        BY <2>3, <4>1, <1>w
    <3>2. CASE k = j
      <4>1. row[j].ext # 0 => exec[c][j].attempts = 0
        <5>1. SUFFICES ASSUME row[j].ext # 0 PROVE exec[c][j].attempts = 0
          OBVIOUS
        <5>2. Command[j] = "REQUEST"
          BY <5>1 DEF Origin
        <5>3. Attempts[j] = 0
          BY <3>2, <5>2 DEF AskedOnce
        <5>4. exec[c][j].attempts \in Nat /\ exec[c][j].attempts <= Attempts[j]
          BY <2>1, <1>t DEF Origin, TypeOK, Executor
        <5> QED
          BY <5>3, <5>4
      <4>2. Waiting(exec[c][j], row[j], answers[j])
        BY <2>3, <3>2, <1>w
      <4>3. Waiting(exec'[c][j], row'[j], answers[j])
        BY <2>1, <4>1, <4>2, <1>t, WaitingTurn
      <4>4. CASE d = c
        BY <4>3, <4>4, <3>2
      <4>5. CASE d # c
        <5>1. exec'[d][j] = exec[d][j]
          BY <2>1, <4>5 DEF Elsewhere
        <5>2. exec[d][j].pc = "none"
          BY <2>1, <2>3, <4>5, <1>o, <1>t, OneFlight
        <5> QED
          BY <3>2, <4>3, <5>1, <5>2, <1>i
      <4> QED
        BY <4>4, <4>5
    <3> QED
      BY <3>1, <3>2
  <2> QED
    BY <2>2, <2>3 DEF Waits
<1>3. ASSUME NEW c \in Calls, CallStep(c) \/ PollError(c) PROVE Waits'
  <2>1. row' = row /\ answers' = answers
    BY <1>3, <1>t, CallEffect DEF requests
  <2>2. ASSUME NEW d \in Calls, NEW j \in Jobs
        PROVE  \/ exec'[d][j] = exec[d][j] \/ exec'[d][j].pc = "none"
               \/ exec'[d][j] = Loaded(row[j]) /\ row[j].status = "PENDING"
    BY <1>3, <1>t, CallEffect
  <2>3. \A j \in Jobs : Loaded(row[j]).pc = "reserve"
    BY DEF Loaded
  <2>4. ASSUME ~overlap', NEW j \in AskedOnce, NEW d \in Calls
        PROVE  Waiting(exec'[d][j], row[j], answers[j])
    <3>1. Waiting(exec[d][j], row[j], answers[j]) /\ j \in Jobs
      BY <2>4, <1>w, <1>t
    <3>2. CASE exec'[d][j].pc = "none"
      BY <3>1, <3>2, <1>i
    <3>3. CASE exec'[d][j] = Loaded(row[j]) /\ row[j].status = "PENDING"
      BY <3>1, <3>3, <2>3 DEF Waiting
    <3> QED
      BY <2>2, <3>1, <3>2, <3>3
  <2> QED
    BY <2>1, <2>4 DEF Waits
<1>4. CASE Environment \/ \E j \in Jobs : \E id \in pendingCb[j] : CallbackError(j, id)
  <2>1. exec' = exec
    BY <1>4, EnvironmentEffect
  <2>2. ASSUME ~overlap', NEW j \in AskedOnce, NEW d \in Calls
        PROVE  Waiting(exec[d][j], row'[j], answers'[j])
    <3>1. Waiting(exec[d][j], row[j], answers[j]) /\ j \in Jobs /\ answers[j] \in Nat
      BY <2>2, <1>w, <1>t
    <3>2. /\ row'[j].ext = row[j].ext
          /\ \/ row'[j].status = row[j].status
             \/ row'[j].status = "PENDING" /\ row[j].status = "ABSENT" /\ answers' = answers
             \/ /\ row'[j].status = "PENDING" /\ row[j].ext \in pendingCb[j]
                /\ answers'[j] = answers[j] + 1
          /\ answers'[j] \in {answers[j], answers[j] + 1}
      BY <1>4, <1>t, <3>1, RowFromOutside
    <3>n. PICK a, b : a = answers[j] /\ b = answers'[j]
      OBVIOUS
    <3>o. (b = 0 => a = 0) /\ (b <= 1 => a <= 1) /\ (b = a + 1 => b # 0 /\ (b <= 1 => a = 0))
      <4>1. a \in Nat /\ b \in {a, a + 1}
        BY <3>1, <3>2, <3>n
      <4> QED
        BY <4>1
    <3>3. CASE row'[j].status = row[j].status
      <4>1. Waiting(exec[d][j], row'[j], b)
        BY <3>1, <3>2, <3>3, <3>n, <3>o DEF Waiting
      <4> QED
        BY <4>1, <3>n
    <3>4. CASE row'[j].status = "PENDING" /\ row[j].status = "ABSENT" /\ answers' = answers
      <4>1. row[j].ext = 0 /\ exec[d][j].pc = "none"
        BY <3>1, <3>4, <1>t DEF Synced
      <4> QED
        BY <3>2, <4>1 DEF Waiting
    <3>5. CASE row'[j].status = "PENDING" /\ row[j].ext \in pendingCb[j] /\ answers'[j] = answers[j] + 1
      <4>1. row[j].ext # 0
        <5>1. row[j].ext \in 1..reqs[j]
          BY <3>1, <3>5 DEF Requested
        <5> QED
          BY <5>1
      <4>2. b # 0 /\ (b <= 1 => a = 0)
        BY <3>5, <3>n, <3>o
      <4>3. Waiting(exec[d][j], row'[j], b)
        BY <3>1, <3>n, <4>1, <4>2 DEF Waiting
      <4> QED
        BY <4>3, <3>n
    <3> QED
      BY <3>2, <3>3, <3>4, <3>5
  <2> QED
    BY <2>1, <2>2 DEF Waits
<1>5. ASSUME NEW s \in Servers, Crash(s) \/ Shutdown(s) \/ \E c \in Calls : Restart(s, c)
      PROVE  Waits'
  <2>1. /\ row' = row /\ answers' = answers
        /\ \A d \in Calls, j \in Jobs : exec'[d][j].pc = "none" \/ exec'[d][j] = exec[d][j]
    BY <1>5, <1>t, ProcessEffect DEF requests
  <2>2. ASSUME ~overlap', NEW j \in AskedOnce, NEW d \in Calls
        PROVE  Waiting(exec'[d][j], row[j], answers[j])
    BY <2>1, <2>2, <1>w, <1>i, <1>t
  <2> QED
    BY <2>1, <2>2 DEF Waits
<1>6. CASE Next
  BY <1>2, <1>3, <1>4, <1>5, <1>6 DEF Next, Fault
<1> QED
  BY <1>1, <1>6

\* What the theorem on the writers of a row rests on.
OrderInv == WriterInv /\ Requested /\ Origin /\ Waits

LEMMA OrderAlways == Spec => []OrderInv
<1>1. Init => OrderInv
  BY InitType, RunnersInit, SoloInit, SizedInit, ShapedInit, SyncedInit, BudgetedInit,
     RequestedInit, WaitsInit DEF OrderInv, WriterInv, FlightInv
<1>2. OrderInv /\ [Next]_vars => OrderInv'
  BY FlightNext, SyncedNext, BudgetedNext, RequestedNext, OriginNext, WaitsNext
     DEF OrderInv, WriterInv
<1> QED
  BY <1>1, <1>2, PTL DEF Spec

-----------------------------------------------------------------------------
(* What a step of another writer may do to a row.                            *)

\* The promises on the row r of one job, which becomes s; `quiet`: no failure was
\* recorded, `failed`: one of this job was.
Forward(r, s) == s.done >= r.done
TakenOnly(r, s, asked, answered, quiet) ==
    asked /\ r.status = "PENDING" /\ answered <= 1 /\ quiet => s.status \in {"PENDING", "PROCESSING"}
StaysFinished(r, s, answered, failed) ==
    r.status \in {"COMPLETED", "FAILED"} /\ s.status # r.status =>
        answered \/ (r.status = "COMPLETED" /\ failed)

Promises ==
    ~overlap' => \A j \in Jobs :
        /\ Forward(row[j], row'[j])
        /\ TakenOnly(row[j], row'[j], j \in AskedOnce, answers[j], fails' = fails)
        /\ StaysFinished(row[j], row'[j], answers'[j] # answers[j], fails'[j] # fails[j])

LEMMA PromisesSuffice ==
    ASSUME Promises PROVE ProgressMonotone /\ PendingOnlyReserved /\ FinishedStays
<1>1. ProgressMonotone
  BY DEF Promises, ProgressMonotone, Forward
<1>2. PendingOnlyReserved
  BY DEF Promises, PendingOnlyReserved, TakenOnly, AskedOnce
<1>3. FinishedStays
  BY DEF Promises, FinishedStays, StaysFinished
<1> QED
  BY <1>1, <1>2, <1>3

\* A row that stays as it is keeps every promise.
LEMMA SameRow ==
    ASSUME TypeOK, NEW j \in Jobs, row'[j].done = row[j].done, row'[j].status = row[j].status,
           NEW x, NEW a, NEW q, NEW b, NEW g
    PROVE  /\ Forward(row[j], row'[j]) /\ TakenOnly(row[j], row'[j], x, a, q)
           /\ StaysFinished(row[j], row'[j], b, g)
<1>1. row[j].done \in Nat
  BY DEF TypeOK, Row
<1>2. Forward(row[j], row'[j])
  BY <1>1 DEF Forward
<1>3. TakenOnly(row[j], row'[j], x, a, q)
  BY DEF TakenOnly
<1>4. StaysFinished(row[j], row'[j], b, g)
  BY DEF StaysFinished
<1> QED
  BY <1>2, <1>3, <1>4

\* The row of the job whose execution takes a step.
LEMMA TurnForward ==
    ASSUME NEW c \in Calls, NEW j \in Jobs, TypeOK, Turn(c, j), Knows(exec[c][j], row[j]),
           exec[c][j].pc # "none"
    PROVE  Forward(row[j], row'[j])
<1>f. PICK e, f, r, s : e = exec[c][j] /\ f = exec'[c][j] /\ r = row[j] /\ s = row'[j]
  OBVIOUS
<1>t. e.done \in Nat /\ r.done = e.done
  BY <1>f DEF TypeOK, Executor, Knows
<1>1. s.done = r.done \/ s.done \in {e.done, e.done + 1}
  BY <1>f DEF Turn, Reserves, RunsBatch, GoesOn, Finishes, Completes, Asks, Holds, EndsSaving,
              Fails, Disappears, SameColumns
<1> QED
  BY <1>t, <1>1, <1>f DEF Forward

\* Unless it is at work or fails, a step of an instance that knows the status its
\* row had reserves the row or leaves its status alone.
LEMMA TurnStatus ==
    ASSUME NEW c \in Calls, NEW j \in Jobs, Turn(c, j),
           exec[c][j].pc \notin {"work", "asked"},
           exec[c][j].pc = "save" => exec[c][j].saved = exec[c][j].status
    PROVE  \/ row'[j].status = row[j].status
           \/ exec[c][j].pc = "reserve" /\ row'[j].status = "PROCESSING"
           \/ fails' = [fails EXCEPT ![j] = @ + 1]
<1>f. PICK e, f, r, s : e = exec[c][j] /\ f = exec'[c][j] /\ r = row[j] /\ s = row'[j]
  OBVIOUS
<1>n. PICK n, d : n = Batches[j] /\ d = Draining(c, j)
  OBVIOUS
<1>1. \/ Reserves(e, f, r, s) \/ RunsBatch(e, f, r, s, n, d) \/ GoesOn(e, f, r, s, n, d)
      \/ Finishes(e, f, r, s, n, d) \/ Completes(e, f, r, s)
      \/ Asks(e, f, r, s, reqs[j] + 1) \/ Holds(e, f, r, s) \/ EndsSaving(e, f, r, s)
      \/ fails' = [fails EXCEPT ![j] = @ + 1] \/ Disappears(e, f, r, s)
  BY <1>f, <1>n DEF Turn
<1>2. /\ e.pc \notin {"work", "asked"}
      /\ e.pc = "save" => e.saved = e.status
  BY <1>f
<1>3. \/ s.status = r.status
      \/ e.pc = "reserve" /\ s.status = "PROCESSING"
      \/ fails' = [fails EXCEPT ![j] = @ + 1]
  BY <1>1, <1>2 DEF Reserves, RunsBatch, GoesOn, Finishes, Completes, Asks, Holds, EndsSaving,
                    Disappears, Kept
<1> QED
  BY <1>3, <1>f

LEMMA FailureCounts ==
    ASSUME TypeOK, NEW j \in Jobs, fails' = [fails EXCEPT ![j] = @ + 1]
    PROVE  fails'[j] # fails[j] /\ fails' # fails
<1>1. fails[j] \in Nat /\ fails'[j] = fails[j] + 1
  BY DEF TypeOK
<1> QED
  BY <1>1

LEMMA TurnTakes ==
    ASSUME NEW c \in Calls, NEW j \in Jobs, TypeOK, AllShaped, Turn(c, j),
           j \in AskedOnce => Waiting(exec[c][j], row[j], answers[j])
    PROVE  TakenOnly(row[j], row'[j], j \in AskedOnce, answers[j], fails' = fails)
<1> SUFFICES ASSUME j \in AskedOnce, row[j].status = "PENDING", answers[j] <= 1, fails' = fails
             PROVE  row'[j].status \in {"PENDING", "PROCESSING"}
  BY DEF TakenOnly
<1>1. exec[c][j].pc \in {"none", "reserve"} \/ Leaving(exec[c][j])
  BY DEF Waiting
<1>2. /\ exec[c][j].pc \notin {"work", "asked"}
      /\ exec[c][j].pc = "save" => exec[c][j].saved = exec[c][j].status
  BY <1>1 DEF Leaving
<1> QED
  BY <1>2, TurnStatus, FailureCounts

LEMMA TurnFinished ==
    ASSUME NEW c \in Calls, NEW j \in Jobs, TypeOK, AllShaped, Turn(c, j), NEW b,
           Knows(exec[c][j], row[j]), exec[c][j].pc # "none"
    PROVE  StaysFinished(row[j], row'[j], b, fails'[j] # fails[j])
<1> SUFFICES ASSUME row[j].status \in {"COMPLETED", "FAILED"}, row'[j].status # row[j].status
             PROVE  row[j].status = "COMPLETED" /\ fails'[j] # fails[j]
  BY DEF StaysFinished
<1>f. PICK e : e = exec[c][j]
  OBVIOUS
<1>n. PICK n, d : n = Batches[j] /\ d = Draining(c, j)
  OBVIOUS
<1>1. e.saved = row[j].status /\ e.saved \in {"COMPLETED", "FAILED"}
  BY <1>f DEF Knows
<1>2. e \in Executor /\ Shaped(e, n, d) /\ e.pc # "none"
  BY <1>f, <1>n DEF TypeOK, AllShaped
<1>3. /\ e.saved = "COMPLETED" /\ e.pc \in {"saved", "save"}
      /\ e.pc = "save" => e.saved = e.status
  BY <1>1, <1>2 DEF Shaped, Executor
<1> QED
  BY <1>1, <1>3, <1>f, TurnStatus, FailureCounts

LEMMA PromisesKept == ASSUME OrderInv, [Next]_vars PROVE Promises
<1>t. /\ FlightInv /\ TypeOK /\ Runners /\ Solo /\ AllShaped /\ Synced /\ Waits
      /\ \A j \in Jobs : answers[j] \in Nat
  BY DEF OrderInv, WriterInv, FlightInv, TypeOK
<1>o. ~overlap' => ~overlap
  BY <1>t, OverlapStays
<1>1. CASE UNCHANGED vars
  BY <1>1, <1>t, SameRow DEF vars, Promises
<1>2. ASSUME NEW c \in Calls, NEW j \in Jobs,
             ExecStep(c, j) \/ FailJob(c, j) \/ FailJobUnrecorded(c, j)
      PROVE  Promises
  <2>1. Turn(c, j) /\ Elsewhere(c, j) /\ exec[c][j].pc # "none"
    BY <1>2, <1>t, ExecEffect, ExecFrame
  <2>2. ASSUME ~overlap', NEW k \in Jobs, k # j
        PROVE  /\ Forward(row[k], row'[k])
               /\ TakenOnly(row[k], row'[k], k \in AskedOnce, answers[k], fails' = fails)
               /\ StaysFinished(row[k], row'[k], answers'[k] # answers[k], fails'[k] # fails[k])
    <3>1. row'[k] = row[k]
      BY <2>1, <2>2 DEF Elsewhere
    <3> QED
      BY <3>1, <1>t, SameRow
  <2>3. ASSUME ~overlap'
        PROVE  /\ Forward(row[j], row'[j])
               /\ TakenOnly(row[j], row'[j], j \in AskedOnce, answers[j], fails' = fails)
               /\ StaysFinished(row[j], row'[j], answers'[j] # answers[j], fails'[j] # fails[j])
    <3>1. Knows(exec[c][j], row[j])
      BY <2>3, <1>o, <1>t DEF Synced
    <3>2. j \in AskedOnce => Waiting(exec[c][j], row[j], answers[j])
      BY <2>3, <1>o, <1>t DEF Waits
    <3> QED
      BY <2>1, <3>1, <3>2, <1>t, TurnForward, TurnTakes, TurnFinished
  <2> QED
    BY <2>2, <2>3 DEF Promises
<1>q. ASSUME row' = row PROVE Promises
  BY <1>q, <1>t, SameRow DEF Promises
<1>3. ASSUME NEW c \in Calls, CallStep(c) \/ PollError(c) PROVE Promises
  <2>1. row' = row
    BY <1>3, <1>t, CallEffect
  <2> QED
    BY <2>1, <1>q
<1>4. CASE Environment \/ \E j \in Jobs : \E id \in pendingCb[j] : CallbackError(j, id)
  <2>1. ASSUME NEW j \in Jobs
        PROVE  /\ Forward(row[j], row'[j])
               /\ TakenOnly(row[j], row'[j], j \in AskedOnce, answers[j], fails' = fails)
               /\ StaysFinished(row[j], row'[j], answers'[j] # answers[j], fails'[j] # fails[j])
    <3>1. /\ row'[j].done = row[j].done
          /\ \/ row'[j].status = row[j].status
             \/ row'[j].status = "PENDING" /\ row[j].status = "ABSENT"
             \/ row'[j].status = "PENDING" /\ answers'[j] = answers[j] + 1
      BY <1>4, <1>t, RowFromOutside
    <3>2. answers'[j] = answers[j] + 1 => answers'[j] # answers[j]
      BY <1>t
    <3>3. row[j].done \in Nat
      BY <1>t DEF TypeOK, Row
    <3>4. Forward(row[j], row'[j])
      BY <3>1, <3>3 DEF Forward
    <3>5. TakenOnly(row[j], row'[j], j \in AskedOnce, answers[j], fails' = fails)
      BY <3>1 DEF TakenOnly
    <3>6. StaysFinished(row[j], row'[j], answers'[j] # answers[j], fails'[j] # fails[j])
      BY <3>1, <3>2 DEF StaysFinished
    <3> QED
      BY <3>4, <3>5, <3>6
  <2> QED
    BY <2>1 DEF Promises
<1>5. ASSUME NEW s \in Servers, Crash(s) \/ Shutdown(s) \/ \E c \in Calls : Restart(s, c)
      PROVE  Promises
  <2>1. row' = row
    BY <1>5, <1>t, ProcessEffect
  <2> QED
    BY <2>1, <1>q
<1>6. CASE Next
  BY <1>2, <1>3, <1>4, <1>5, <1>6 DEF Next, Fault
<1> QED
  BY <1>1, <1>6

\* For every set of servers and invocations, while no poll began beside another:
\* the batches done never go back, a job that waits is only taken, and a finished
\* job stays finished but for a callback or a late failure of its own.
THEOREM WritersRespectRows == Spec => NothingUndone
<1>1. OrderInv /\ [Next]_vars => [ProgressMonotone /\ PendingOnlyReserved /\ FinishedStays]_vars
  BY PromisesKept, PromisesSuffice
<1> QED
  BY <1>1, OrderAlways, PTL DEF Spec, NothingUndone

=============================================================================
