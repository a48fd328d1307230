------------------------------ MODULE JobQueue ------------------------------
(***************************************************************************)
(* The job queue of the service: rows of the table `jobs`, which every     *)
(* server polls, and the in-memory instances of those rows on which a      *)
(* server's runners work (src/src/job/job.service.ts and                   *)
(* src/src/base-job-queueable.ts), together with the handlers' loops that  *)
(* write the row while they work (batches, the external deforestation      *)
(* request and its callback).                                              *)
(*                                                                         *)
(* A "call" is one invocation of initJobsProcessing() and the runJobs()    *)
(* it may start: Calls names the invocations that may be in flight at the  *)
(* same time and Home the server each of them belongs to.  A call polls    *)
(* with two queries, between which anything may happen, and then owns one  *)
(* executor for every row it loaded.                                       *)
(*                                                                         *)
(* An UPDATE and the assignments to the instance just before it are one    *)
(* step, but for the reservation of a job, whose UPDATE other polls may    *)
(* overtake, and the external request, whose answer may overtake it.       *)
(***************************************************************************)
EXTENDS Integers, FiniteSets

CONSTANTS
    Servers,        \* the processes that run the service
    Calls,          \* invocations of initJobsProcessing in flight (a bound)
    Home,           \* Home[c]: the server of call c
    Jobs,           \* rows of the table `jobs`
    Limit,          \* concurrentProcessCount
    Services,       \* the services that extend BaseJobQueueable
    Service,        \* Service[j]: the one that runs job j
    Command,        \* Command[j]: payload.command when j is created
    Batches,        \* Batches[j]: payload.batches.length
    Attempts,       \* Attempts[j]: availableAttempts when j is created
    Priority,       \* Priority[j]: priority
    Delayed,        \* the jobs created with availableAt in the future
    MaxLosses,      \* bound: crashes, shutdowns and failures left unrecorded
    MaxPollErrors,  \* bound: polls that throw
    MaxFails,       \* bound: recorded failures per job
    MaxRequests,    \* bound: external requests per job
    MaxAnswers      \* bound: callbacks per job, duplicates included

Status  == {"PENDING", "PROCESSING", "COMPLETED", "FAILED", "ON HOLD"}
Batched == {"IMPORT", "INIT_CALLBACK"}
Command0 == {"IMPORT", "REQUEST", "WARNING", "UNKNOWN"}

ASSUME ConstantsAssumption ==
    /\ Home \in [Calls -> Servers]
    /\ Limit \in Nat \ {0}
    /\ Service \in [Jobs -> Services]
    /\ Command \in [Jobs -> Command0]
    /\ Batches \in [Jobs -> Nat]
    /\ Attempts \in [Jobs -> Nat]
    /\ Priority \in [Jobs -> Nat]
    /\ Delayed \subseteq Jobs
    /\ {MaxLosses, MaxPollErrors, MaxFails, MaxRequests, MaxAnswers} \subseteq Nat

ASSUME JobsFinite == IsFiniteSet(Jobs)

VARIABLES
    row,        \* row[j]: the row of job j in the database, or "ABSENT"
    srv,        \* srv[s]: the flags of the process s
    call,       \* call[c]: where invocation c stands, and the ids it polled
    exec,       \* exec[c][j]: call c's instance of row j, and its step
    reqs,       \* reqs[j]: external deforestation requests made for j
    pendingCb,  \* pendingCb[j]: the requests whose callback is still to come
    answers,    \* answers[j]: callbacks delivered for j
    losses, pollErrors, fails,  \* what the bounds above count; fails per job
    \* history, read by no action:
    lost,       \* the rows whose executor vanished or could not write
    missed,     \* <<j, id>>: the callback of request id found no row
    deaf,       \* the servers whose last poll threw
    overlap     \* a poll began beside another poll, or beside a foreign runner

requests == <<reqs, pendingCb, answers>>
bounds   == <<losses, pollErrors, fails>>
history  == <<lost, missed, deaf, overlap>>
vars     == <<row, srv, call, exec, requests, bounds, history>>

-----------------------------------------------------------------------------
(* The instance a poll loads, and what Sequelize writes of it.             *)

NoExec == [pc |-> "none", status |-> "PENDING", saved |-> "PENDING",
           done |-> 0, attempts |-> 0, cmd |-> "UNKNOWN", ext |-> 0]

\* `saved` is the status the instance last read from or wrote to the row.
Loaded(r) == [pc |-> "reserve", status |-> "PROCESSING", saved |-> r.status,
              done |-> r.done, attempts |-> r.attempts, cmd |-> r.cmd,
              ext |-> r.ext]

\* Mutated: save() writes every column.
WrittenAlways(j, saved, status) == status

\* save() and update() write a column only when it differs from `saved`.
Written(j, saved, status) == IF status = saved THEN row[j].status ELSE status

\* The instance after its reservation: the switch on payload.module, whose
\* default completes the job in memory.
Reserved(e) == IF e.cmd = "UNKNOWN"
               THEN [e EXCEPT !.pc = "save", !.saved = "PROCESSING", !.status = "COMPLETED"]
               ELSE [e EXCEPT !.pc = "work", !.saved = "PROCESSING"]

\* The instance after a save() of its status.
Saved(e, status) == [e EXCEPT !.pc = "saved", !.status = status, !.saved = status]

Becomes(c, j, e) == exec' = [exec EXCEPT ![c][j] = e]

\* The rows pendingJobIdsByPriority may return.
Ready == {j \in Jobs : row[j].status = "PENDING" /\ row[j].due}

TopByPriority(S) ==
    {T \in SUBSET S :
        /\ Cardinality(T) = IF Cardinality(S) < Limit THEN Cardinality(S) ELSE Limit
        /\ \A a \in T, b \in S \ T : Priority[a] >= Priority[b]}

\* initJobsProcessing's first test: `this.shouldPause || this.isRunning`.
BusyIgnoringRunner(s) == srv[s].shouldPause  \* mutated
Busy(s) == srv[s].shouldPause \/ srv[s].isRunning

\* The attempts a failure leaves.
RemainingKept(e) == e.attempts               \* mutated
RemainingUnguarded(e) == e.attempts - 1      \* mutated
Remaining(e) == IF e.attempts > 0 THEN e.attempts - 1 ELSE 0

\* The handlers' runningJobs on server s: filled by initRun, emptied by
\* markJobAsComplete and removeJob.
RunningJobs(s) ==
    {r \in Calls \X Jobs :
        Home[r[1]] = s /\ exec[r[1]][r[2]].pc \in {"work", "asked", "saved"}}

Draining(c, j) == Service[j] \in srv[Home[c]].draining

\* The process that starts, and the one that is gone.
Fresh == [up |-> TRUE, shouldPause |-> FALSE, draining |-> {}, isRunning |-> FALSE]
Gone  == [up |-> FALSE, shouldPause |-> FALSE, draining |-> {}, isRunning |-> FALSE]

\* A poll begins: history notes whether it is alone.
BeginsPoll(c) ==
    overlap' = (overlap \/ \E d \in Calls \ {c} :
                    \/ call[d].pc \in {"ids", "rows"}
                    \/ call[d].pc = "running" /\ Home[d] # Home[c])

-----------------------------------------------------------------------------
Init ==
    /\ row = [j \in Jobs |-> [status |-> "ABSENT", due |-> FALSE, done |-> 0,
                              attempts |-> Attempts[j], cmd |-> Command[j], ext |-> 0]]
    /\ srv = [s \in Servers |-> Gone]
    /\ call = [c \in Calls |-> [pc |-> "idle", ids |-> {}]]
    /\ exec = [c \in Calls |-> [j \in Jobs |-> NoExec]]
    /\ reqs = [j \in Jobs |-> 0]
    /\ pendingCb = [j \in Jobs |-> {}]
    /\ answers = [j \in Jobs |-> 0]
    /\ losses = 0 /\ pollErrors = 0
    /\ fails = [j \in Jobs |-> 0]
    /\ lost = {} /\ missed = {} /\ deaf = {}
    /\ overlap = FALSE

-----------------------------------------------------------------------------
(* JobService.                                                             *)

\* create(): inserts the row, then calls initJobsProcessing() un-awaited.
Create(j, c) ==
    /\ row[j].status = "ABSENT"
    /\ srv[Home[c]].up
    /\ call[c].pc = "idle"
    /\ row' = [row EXCEPT ![j].status = "PENDING", ![j].due = j \notin Delayed]
    /\ call' = [call EXCEPT ![c].pc = "init"]
    /\ UNCHANGED <<srv, exec, requests, bounds, history>>

\* The availableAt of a delayed job passes; nothing in the service waits for it.
BecomeDue(j) ==
    /\ j \in Delayed
    /\ row[j].status # "ABSENT" /\ ~row[j].due
    /\ row' = [row EXCEPT ![j].due = TRUE]
    /\ UNCHANGED <<srv, call, exec, requests, bounds, history>>

\* initJobsProcessing() up to its first await.
InitJobsProcessing(c) ==
    LET s == Home[c] IN
    /\ call[c].pc = "init"
    /\ \/ /\ Busy(s)
          /\ call' = [call EXCEPT ![c].pc = "idle"]
          /\ UNCHANGED <<deaf, overlap>>
       \/ /\ ~Busy(s)
          /\ call' = [call EXCEPT ![c].pc = "ids"]
          /\ deaf' = deaf \ {s}
          /\ BeginsPoll(c)
    /\ UNCHANGED <<row, srv, exec, requests, bounds, lost, missed>>

\* initJobsProcessing() found no job: it clears isRunning.
FoundNothing(c) ==
    /\ call' = [call EXCEPT ![c] = [pc |-> "idle", ids |-> {}]]
    /\ srv' = [srv EXCEPT ![Home[c]].isRunning = FALSE]
    /\ UNCHANGED exec

\* pendingJobIdsByPriority(): the first query of the poll.
PendingJobIdsByPriority(c) ==
    /\ call[c].pc = "ids"
    /\ \/ Ready = {} /\ FoundNothing(c)
       \/ /\ Ready # {}
          /\ \E T \in TopByPriority(Ready) :
                call' = [call EXCEPT ![c] = [pc |-> "rows", ids |-> T]]
          /\ UNCHANGED <<srv, exec>>
    /\ UNCHANGED <<row, requests, bounds, history>>

\* pendingByPriority()'s second query, then initJobsProcessing() and the
\* synchronous beginning of runJobs(): isRunning is set and every instance
\* loaded is marked "PROCESSING" in memory.  The instances of other runners in
\* processingJobs are no longer "PENDING": their callbacks return at once.
PendingByPriority(c) ==
    LET found == {j \in call[c].ids : row[j].status = "PENDING"} IN
    /\ call[c].pc = "rows"
    /\ \/ found = {} /\ FoundNothing(c)
       \/ /\ found # {}
          /\ call' = [call EXCEPT ![c] = [pc |-> "running", ids |-> {}]]
          /\ srv' = [srv EXCEPT ![Home[c]].isRunning = TRUE]
          /\ exec' = [exec EXCEPT ![c] =
                        [j \in Jobs |-> IF j \in found THEN Loaded(row[j]) ELSE NoExec]]
    /\ UNCHANGED <<row, requests, bounds, history>>

\* A query of the poll throws: initJobsProcessing() logs it and ends.
PollError(c) ==
    /\ pollErrors < MaxPollErrors
    /\ call[c].pc \in {"ids", "rows"}
    /\ call' = [call EXCEPT ![c] = [pc |-> "idle", ids |-> {}]]
    /\ pollErrors' = pollErrors + 1
    /\ deaf' = deaf \cup {Home[c]}
    /\ UNCHANGED <<row, srv, exec, requests, losses, fails, lost, missed, overlap>>

\* Mutated: initJobsProcessing() is called before isRunning is cleared.
EndRunTooEarly(c) ==
    /\ call[c].pc = "running"
    /\ \A j \in Jobs : exec[c][j].pc = "none"
    /\ srv' = [srv EXCEPT ![Home[c]].isRunning = FALSE]
    /\ call' = [call EXCEPT ![c].pc = "idle"]
    /\ UNCHANGED <<row, exec, requests, bounds, history>>

\* runJobs() after Promise.allSettled: isRunning is cleared and
\* initJobsProcessing() is called again.
EndRun(c) ==
    LET s == Home[c] IN
    /\ call[c].pc = "running"
    /\ \A j \in Jobs : exec[c][j].pc = "none"
    /\ srv' = [srv EXCEPT ![s].isRunning = FALSE]
    /\ \/ /\ srv[s].shouldPause
          /\ call' = [call EXCEPT ![c].pc = "idle"]
          /\ UNCHANGED <<deaf, overlap>>
       \/ /\ ~srv[s].shouldPause
          /\ call' = [call EXCEPT ![c].pc = "ids"]
          /\ deaf' = deaf \ {s}
          /\ BeginsPoll(c)
    /\ UNCHANGED <<row, exec, requests, bounds, lost, missed>>

\* runJobs(): the UPDATE that reserves the row.
Reserve(c, j) ==
    /\ exec[c][j].pc = "reserve"
    /\ row' = [row EXCEPT ![j].status = "PROCESSING"]
    /\ Becomes(c, j, Reserved(exec[c][j]))
    /\ lost' = lost \ {j}
    /\ UNCHANGED <<srv, call, requests, bounds, missed, deaf, overlap>>

\* runJobs(): job.save() after the handler, then `finally`.
SaveJob(c, j) ==
    /\ exec[c][j].pc = "save"
    /\ row' = [row EXCEPT ![j].status = Written(j, exec[c][j].saved, exec[c][j].status)]
    /\ Becomes(c, j, NoExec)
    /\ UNCHANGED <<srv, call, requests, bounds, history>>

\* runJobs()'s catch: an exception of the reservation, of the handler or of a
\* save.  The batch whose save threw is already counted in the context.
FailJob(c, j) ==
    LET e == exec[c][j] IN
    /\ fails[j] < MaxFails
    /\ e.pc # "none"
    /\ e.pc = "save" => e.status # e.saved
    /\ \E counted \in IF e.pc = "work" /\ e.cmd \in Batched /\ e.done < Batches[j]
                      THEN {0, 1} ELSE {0} :
          row' = [row EXCEPT
                    ![j].status = Written(j, e.saved, IF e.attempts > 0 THEN "PENDING" ELSE "FAILED"),
                    ![j].done = e.done + counted,
                    ![j].attempts = Remaining(e)]
    /\ Becomes(c, j, NoExec)
    /\ fails' = [fails EXCEPT ![j] = @ + 1]
    /\ UNCHANGED <<srv, call, requests, losses, pollErrors, history>>

\* The UPDATE of that catch throws too: Promise.allSettled swallows it.
FailJobUnrecorded(c, j) ==
    LET e == exec[c][j] IN
    /\ losses < MaxLosses
    /\ e.pc # "none"
    /\ e.pc = "save" => e.status # e.saved
    /\ Becomes(c, j, NoExec)
    /\ losses' = losses + 1
    /\ lost' = IF e.pc = "reserve" THEN lost ELSE lost \cup {j}
    /\ UNCHANGED <<row, srv, call, requests, pollErrors, fails, missed, deaf, overlap>>

-----------------------------------------------------------------------------
(* The handlers and BaseJobQueueable.                                      *)

\* Mutated: the loop's last status is kept when the service is draining.
MarkKeepsStatus(e, pausing) ==
    [e EXCEPT !.pc = "save",
              !.status = IF e.status = "ON HOLD" \/ pausing THEN e.status ELSE "COMPLETED"]

\* markJobAsComplete(): the handler is done with instance e.
MarkJobAsComplete(e, pausing) ==
    [e EXCEPT !.pc = "save",
              !.status = IF e.status = "ON HOLD" THEN e.status
                         ELSE IF pausing /\ e.status # "COMPLETED" THEN "PENDING"
                         ELSE "COMPLETED"]

\* One turn of the batch loop: the batch's work, then the context, the status
\* and their save().
RunBatch(c, j) ==
    LET e == exec[c][j]
        status == IF e.done + 1 = Batches[j] THEN "COMPLETED"
                  ELSE IF Draining(c, j) THEN "PENDING" ELSE "PROCESSING" IN
    /\ e.pc = "work" /\ e.cmd \in Batched /\ e.done < Batches[j]
    /\ row' = [row EXCEPT ![j].status = Written(j, e.saved, status),
                          ![j].done = e.done + 1]
    /\ Becomes(c, j, [Saved(e, status) EXCEPT !.done = @ + 1])
    /\ UNCHANGED <<srv, call, requests, bounds, history>>

\* After a save(): the loop goes on, or ends because it is over or because
\* shouldPause was set, perhaps after the status had been chosen.
AfterSave(c, j) ==
    LET e == exec[c][j]
        more == e.cmd \in Batched /\ e.done < Batches[j] IN
    /\ e.pc = "saved"
    /\ Becomes(c, j, IF more /\ ~Draining(c, j) THEN [e EXCEPT !.pc = "work"]
                     ELSE MarkJobAsComplete(e, Draining(c, j)))
    /\ UNCHANGED <<row, srv, call, requests, bounds, history>>

\* The loop has nothing left to do: `completedBatchCount === length`.
NoBatchLeft(c, j) ==
    LET e == exec[c][j] IN
    /\ e.pc = "work" /\ e.cmd \in Batched /\ e.done >= Batches[j]
    /\ Becomes(c, j, MarkJobAsComplete([e EXCEPT !.status = "COMPLETED"], Draining(c, j)))
    /\ UNCHANGED <<row, srv, call, requests, bounds, history>>

\* processAndStoreProductionPlaceWarning(): all its batches, and one save().
RunWarning(c, j) ==
    LET e == exec[c][j] IN
    /\ e.pc = "work" /\ e.cmd = "WARNING"
    /\ row' = [row EXCEPT ![j].status = Written(j, e.saved, "COMPLETED")]
    /\ Becomes(c, j, Saved(e, "COMPLETED"))
    /\ UNCHANGED <<srv, call, requests, bounds, history>>

\* requestDeforestationReport(): nothing to ask for completes the job; else
\* the external service accepts the request and names it.
RequestDeforestationReport(c, j) ==
    LET e == exec[c][j] IN
    /\ e.pc = "work" /\ e.cmd = "REQUEST"
    /\ \/ /\ row' = [row EXCEPT ![j].status = Written(j, e.saved, "COMPLETED")]
          /\ Becomes(c, j, Saved(e, "COMPLETED"))
          /\ UNCHANGED <<reqs, pendingCb>>
       \/ /\ reqs[j] < MaxRequests
          /\ reqs' = [reqs EXCEPT ![j] = @ + 1]
          /\ pendingCb' = [pendingCb EXCEPT ![j] = @ \cup {reqs[j] + 1}]
          /\ Becomes(c, j, [e EXCEPT !.pc = "asked", !.ext = reqs[j] + 1])
          /\ UNCHANGED row
    /\ UNCHANGED <<srv, call, answers, bounds, history>>

\* Mutated: externalId is not saved.
HoldWithoutId(c, j) ==
    LET e == exec[c][j] IN
    /\ e.pc = "asked"
    /\ row' = [row EXCEPT ![j].status = Written(j, e.saved, "ON HOLD")]
    /\ Becomes(c, j, Saved(e, "ON HOLD"))
    /\ UNCHANGED <<srv, call, requests, bounds, history>>

\* requestDeforestationReport(): externalId and "ON HOLD" are saved together.
HoldForCallback(c, j) ==
    LET e == exec[c][j] IN
    /\ e.pc = "asked"
    /\ row' = [row EXCEPT ![j].status = Written(j, e.saved, "ON HOLD"), ![j].ext = e.ext]
    /\ Becomes(c, j, Saved(e, "ON HOLD"))
    /\ UNCHANGED <<srv, call, requests, bounds, history>>

\* updateJobForDeforestationCallback(): the webhook of request id reaches the
\* server of c; the external service may call it again.
Callback(j, id, c) ==
    /\ id \in pendingCb[j] /\ answers[j] < MaxAnswers
    /\ srv[Home[c]].up
    /\ answers' = [answers EXCEPT ![j] = @ + 1]
    /\ \/ pendingCb' = [pendingCb EXCEPT ![j] = @ \ {id}]
       \/ answers[j] + 1 < MaxAnswers /\ UNCHANGED pendingCb
    /\ \/ /\ row[j].ext = id
          /\ call[c].pc = "idle"
          /\ row' = [row EXCEPT ![j].status = "PENDING", ![j].cmd = "INIT_CALLBACK"]
          /\ call' = [call EXCEPT ![c].pc = "init"]
          /\ UNCHANGED missed
       \/ /\ row[j].ext # id
          /\ missed' = missed \cup {<<j, id>>}
          /\ UNCHANGED <<row, call>>
    /\ UNCHANGED <<srv, exec, reqs, bounds, lost, deaf, overlap>>

\* updateJobForDeforestationCallback(): the result cannot be fetched, so the
\* webhook fails before it looks for the job.
CallbackError(j, id) ==
    /\ id \in pendingCb[j] /\ answers[j] < MaxAnswers
    /\ answers' = [answers EXCEPT ![j] = @ + 1]
    /\ pendingCb' = [pendingCb EXCEPT ![j] = @ \ {id}]
    /\ missed' = missed \cup {<<j, id>>}
    /\ UNCHANGED <<row, srv, call, exec, reqs, bounds, lost, deaf, overlap>>

-----------------------------------------------------------------------------
(* The life of a process.                                                  *)

\* The process is gone with everything it had in memory.
Vanish(s) ==
    /\ srv' = [srv EXCEPT ![s] = Gone]
    /\ call' = [c \in Calls |-> IF Home[c] = s THEN [pc |-> "idle", ids |-> {}] ELSE call[c]]
    /\ exec' = [c \in Calls |-> IF Home[c] = s THEN [j \in Jobs |-> NoExec] ELSE exec[c]]
    /\ lost' = lost \cup {j \in Jobs : \E c \in Calls :
                            Home[c] = s /\ exec[c][j].pc \notin {"none", "reserve"}}
    /\ UNCHANGED <<row, requests, pollErrors, fails, missed, deaf, overlap>>

Crash(s) == srv[s].up /\ losses < MaxLosses /\ losses' = losses + 1 /\ Vanish(s)

\* onApplicationBootstrap(): a new process polls at once.
Restart(s, c) ==
    /\ Home[c] = s /\ call[c].pc = "idle"
    /\ ~srv[s].up
    /\ srv' = [srv EXCEPT ![s] = Fresh]
    /\ call' = [call EXCEPT ![c].pc = "ids"]
    /\ deaf' = deaf \ {s}
    /\ BeginsPoll(c)
    /\ UNCHANGED <<row, exec, requests, bounds, lost, missed>>

\* Nest destroys the modules one after the other and awaits each hook: the
\* next one begins when the services already draining have no running job.
Drained(s) == \A r \in RunningJobs(s) : Service[r[2]] \notin srv[s].draining
Stopping(s) == srv[s].shouldPause \/ srv[s].draining # {}

BeginsShutdown(s) ==
    IF Stopping(s) THEN UNCHANGED losses ELSE losses < MaxLosses /\ losses' = losses + 1

\* JobService.onModuleDestroy
PauseQueue(s) ==
    /\ srv[s].up /\ ~srv[s].shouldPause /\ Drained(s)
    /\ BeginsShutdown(s)
    /\ srv' = [srv EXCEPT ![s].shouldPause = TRUE]
    /\ UNCHANGED <<row, call, exec, requests, pollErrors, fails, history>>

\* BaseJobQueueable.onModuleDestroy of service v: pauseJob(), then it waits.
PauseJobs(s, v) ==
    /\ srv[s].up /\ v \notin srv[s].draining /\ Drained(s)
    /\ BeginsShutdown(s)
    /\ srv' = [srv EXCEPT ![s].draining = @ \cup {v}]
    /\ UNCHANGED <<row, call, exec, requests, pollErrors, fails, history>>

\* Every hook has returned.  runJobs() itself is awaited by no hook.
Exit(s) ==
    /\ srv[s].up /\ srv[s].shouldPause /\ srv[s].draining = Services /\ Drained(s)
    /\ UNCHANGED losses
    /\ Vanish(s)

-----------------------------------------------------------------------------
CallStep(c) ==
    \/ InitJobsProcessing(c) \/ PendingJobIdsByPriority(c)
    \/ PendingByPriority(c) \/ EndRun(c)

ExecStep(c, j) ==
    \/ Reserve(c, j) \/ RunBatch(c, j) \/ AfterSave(c, j) \/ NoBatchLeft(c, j)
    \/ RunWarning(c, j) \/ RequestDeforestationReport(c, j)
    \/ HoldForCallback(c, j) \/ SaveJob(c, j)

Fault ==
    \/ \E c \in Calls : PollError(c)
    \/ \E c \in Calls, j \in Jobs : FailJob(c, j) \/ FailJobUnrecorded(c, j)
    \/ \E j \in Jobs : \E id \in pendingCb[j] : CallbackError(j, id)
    \/ \E s \in Servers : Crash(s)

Shutdown(s) == PauseQueue(s) \/ (\E v \in Services : PauseJobs(s, v)) \/ Exit(s)

Environment ==
    \/ \E j \in Jobs : BecomeDue(j)
    \/ \E j \in Jobs, c \in Calls : Create(j, c)
    \/ \E j \in Jobs, c \in Calls : \E id \in pendingCb[j] : Callback(j, id, c)

Next ==
    \/ Environment
    \/ \E c \in Calls : CallStep(c)
    \/ \E c \in Calls, j \in Jobs : ExecStep(c, j)
    \/ Fault
    \/ \E s \in Servers : Shutdown(s)
    \/ \E s \in Servers, c \in Calls : Restart(s, c)

Spec == Init /\ [][Next]_vars

\* The event loop runs every continuation, a stopped process is restarted and
\* a shutdown that has begun goes on.  Nobody promises a job, a fault, a
\* delay or a callback.
Fairness ==
    /\ \A c \in Calls : WF_vars(CallStep(c))
    /\ \A c \in Calls, j \in Jobs : WF_vars(ExecStep(c, j))
    /\ \A s \in Servers : WF_vars(\E c \in Calls : Restart(s, c))
    /\ \A s \in Servers : WF_vars(Stopping(s) /\ Shutdown(s))

FairSpec == Spec /\ Fairness

-----------------------------------------------------------------------------
Row == [status : Status \cup {"ABSENT"}, due : BOOLEAN, done : Nat,
        attempts : Nat, cmd : Command0 \cup Batched, ext : Nat]
Process == [up : BOOLEAN, shouldPause : BOOLEAN, draining : SUBSET Services,
            isRunning : BOOLEAN]
Invocation == [pc : {"idle", "init", "ids", "rows", "running"}, ids : SUBSET Jobs]
Executor == [pc : {"none", "reserve", "work", "saved", "asked", "save"},
             status : Status, saved : Status, done : Nat, attempts : Nat,
             cmd : Command0 \cup Batched, ext : Nat]

\* The types of the state.
TypeOK ==
    /\ row \in [Jobs -> Row]
    /\ srv \in [Servers -> Process]
    /\ call \in [Calls -> Invocation]
    /\ exec \in [Calls -> [Jobs -> Executor]]
    /\ reqs \in [Jobs -> Nat] /\ pendingCb \in [Jobs -> SUBSET Nat]
    /\ answers \in [Jobs -> Nat]
    /\ losses \in Nat /\ pollErrors \in Nat /\ fails \in [Jobs -> Nat]
    /\ lost \subseteq Jobs /\ missed \subseteq Jobs \X Nat /\ deaf \subseteq Servers
    /\ overlap \in BOOLEAN

\* No lost wake-up: a job that waits in the table, due, is going to be polled:
\* some invocation of initJobsProcessing() or of runJobs() has yet to come to
\* its next poll.  Nothing else polls (there is no timer), so the exceptions
\* are processes that are down, shutting down, or whose last poll threw.
\* (isRunning turns invocations away only while a runner is there to poll
\* again; JobService.create, initJobsProcessing, runJobs.)
NoLostWakeup ==
    (Ready \ Delayed # {}) =>
        \/ \E s \in Servers : ~srv[s].up \/ srv[s].shouldPause \/ s \in deaf
        \/ \E c \in Calls : call[c].pc # "idle"

\* What makes NoLostWakeup inductive: isRunning is set only while a runner of that
\* server is at work, only a runner's call has executors, and the poll to come
\* will find something to run, or run into a row another runner took.
Runners ==
    /\ \A s \in Servers : srv[s].isRunning =>
          \E c \in Calls : Home[c] = s /\ call[c].pc = "running"
    /\ \A c \in Calls, j \in Jobs : exec[c][j].pc # "none" => call[c].pc = "running"

WillPoll(c) ==
    \/ call[c].pc \in {"init", "ids", "running"}
    \/ call[c].pc = "rows" /\ \E j \in call[c].ids : row[j].status = "PENDING"

Excused == \E s \in Servers : ~srv[s].up \/ srv[s].shouldPause \/ s \in deaf

WakeInv == (Ready \ Delayed # {}) => Excused \/ (\E c \in Calls : WillPoll(c))

\* A row says "PROCESSING" only while an instance that reserved it is being
\* executed, unless its executor vanished with its process or failed without
\* being able to write: no pause, failure, callback or hold leaves it there.
OrphansAreLost ==
    \A j \in Jobs : row[j].status = "PROCESSING" =>
        \/ j \in lost
        \/ \E c \in Calls : exec[c][j].pc \notin {"none", "reserve"}

\* What makes it inductive: an instance with that status in its last save is still
\* executed, and no execution ends on a last save() of "PROCESSING".
OrphanInv ==
    /\ \A c \in Calls, j \in Jobs : exec[c][j].pc = "save" => exec[c][j].status # "PROCESSING"
    /\ \A j \in Jobs : row[j].status = "PROCESSING" /\ j \notin lost =>
          \E c \in Calls : exec[c][j].pc \notin {"none", "reserve"} /\ exec[c][j].saved = "PROCESSING"

\* A job on hold has a callback to come, or one that came too early (before
\* externalId was saved) or failed: requestDeforestationReport saves the id and
\* the status together, so no callback can find the one without the other.
HoldAwaitsCallback ==
    \A j \in Jobs : row[j].status = "ON HOLD" =>
        row[j].ext \in pendingCb[j] \/ <<j, row[j].ext>> \in missed

Executing == {r \in Calls \X Jobs : exec[r[1]][r[2]].pc # "none"}

\* While polls do not overlap (the window between the check of isRunning and its
\* assignment, or a second server), a row is executed by one instance at a time
\* and no more than concurrentProcessCount instances are executed.
SingleFlight ==
    ~overlap => /\ \A r, t \in Executing : r[2] = t[2] => r = t
                /\ Cardinality(Executing) <= Limit

\* A job fails no more often than its attempts, and each callback of the external
\* service, allow (runJobs' catch).
RetriesBounded ==
    ~overlap => \A j \in Jobs : fails[j] <= Attempts[j] + 1 + answers[j]

\* completedBatchCount never goes back, whatever pauses, crashes, failures and
\* callbacks occur, as long as polls do not overlap.
ProgressMonotone ==
    ~overlap' => \A j \in Jobs : row'[j].done >= row[j].done

\* Jobs that cannot ask twice.  The service creates every request without
\* attempts (deforestation.service.ts:2556); one created with attempts would be
\* retried, and asking again it would overwrite the first answer's "PENDING".
AskedOnce == {j \in Jobs : Command[j] = "REQUEST" => Attempts[j] = 0}

\* A job that waits for a runner is only ever taken by one: in particular the
\* last save() of the executor that put it on hold does not overwrite the
\* callback's "PENDING".  (A second callback during the execution may be lost.)
PendingOnlyReserved ==
    \A j \in AskedOnce :
        ~overlap' /\ row[j].status = "PENDING" /\ answers[j] <= 1 /\ fails' = fails
            => row'[j].status \in {"PENDING", "PROCESSING"}

\* A finished job stays finished but for a callback that arrives again; a
\* completed one may also fail late, in what its handler does after the save.
FinishedStays ==
    \A j \in Jobs :
        ~overlap' /\ row[j].status \in {"COMPLETED", "FAILED"} /\ row'[j].status # row[j].status
            => \/ answers'[j] # answers[j]
               \/ row[j].status = "COMPLETED" /\ fails'[j] # fails[j]

\* What one server has written of a job, another writer of the row (the runner's
\* last save, a callback, a crash, a second execution) does not undo.
NothingUndone ==
    [][ProgressMonotone /\ PendingOnlyReserved /\ FinishedStays]_vars

\* Every job that waits, due, is eventually taken, through crashes, restarts,
\* shutdowns and failures of other jobs, if no poll throws.
PendingIsTaken ==
    \A j \in Jobs \ Delayed : row[j].status = "PENDING" ~> row[j].status # "PENDING"

=============================================================================
