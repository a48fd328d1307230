------------------------ MODULE ServiceTransactions ------------------------
(***************************************************************************)
(* Requests that execute the methods of ServiceMethods, and the pool of    *)
(* connections they share (app.module.ts, SequelizeModule.forRoot: pool    *)
(* max 100, acquire 60000).                                                *)
(*                                                                         *)
(* An unmanaged transaction takes a connection when it begins and gives it *)
(* back when it is committed or rolled back, nowhere else.  A query that   *)
(* is not handed the transaction takes a second connection for itself and  *)
(* is durable at once.  Requests of the one server process run             *)
(* concurrently, a statement at a time.  A statement may fail (the         *)
(* database, the network, a time-out while the pool is empty), and the     *)
(* process may stop.                                                       *)
(***************************************************************************)
EXTENDS ServiceMethods, FiniteSets

CONSTANTS Slots,      \* requests the server may have at work at one time
          PoolSize,   \* connections of the pool
          Methods     \* the methods that are called in each slot

ASSUME PoolAssumption == PoolSize \in Nat \ {0}
ASSUME MethodsAssumption == Methods \in [Slots -> SUBSET DOMAIN Service]

VARIABLES req,     \* the request at work, or last answered, in each slot
          leaked   \* connections held by a transaction nothing will end

vars == <<req, leaked>>

-----------------------------------------------------------------------------
(* The state *)

NoRequest == [op |-> "none", rest |-> {}, open |-> 0, finished |-> FALSE, block |-> "none",
              dirty |-> FALSE, kept |-> FALSE, missed |-> FALSE, partial |-> FALSE,
              answer |-> "none"]

Init ==
    /\ req = [s \in Slots |-> NoRequest]
    /\ leaked = 0

Busy(s) == req[s].op # "none" /\ req[s].answer = "none"

Held == {h \in Slots \X (1 .. 2) : h[2] <= req[h[1]].open}
Free == PoolSize - leaked - Cardinality(Held)

NextStatements(s) == {Head(p) : p \in req[s].rest \ {<<>>}}
After(s, x) == {Tail(p) : p \in {q \in req[s].rest : q # <<>> /\ Head(q) = x}}

\* the statement would write, or one of those it may be followed by in its block
UpToEnd(p) == {p[i] : i \in {j \in DOMAIN p : \A k \in 1 .. j : p[k] # "end"}}
Skips(s, x) ==
    \/ x \in Writes
    \/ \E p \in After(s, x) : UpToEnd(p) \cap Writes # {}

AfterEnd(p) ==
    LET ends == {i \in DOMAIN p : p[i] = "end"}
        first == CHOOSE i \in ends : \A j \in ends : i <= j
    IN  SubSeq(p, first + 1, Len(p))

-----------------------------------------------------------------------------
(* What an error does *)

Answered(r, a) ==
    [r EXCEPT !.rest = {}, !.open = 0, !.block = "none", !.dirty = FALSE,
              !.finished = FALSE, !.answer = a]

RolledBack(r) ==
    [r EXCEPT !.open = 0, !.finished = TRUE, !.missed = @ \/ r.dirty, !.dirty = FALSE]

\* the process stops: every transaction that is open is rolled back, the ones
\* nothing would have ended too; who is the set of the requests that caused it
ProcessStops(who) ==
    /\ req' = [s \in Slots |->
                  IF Busy(s)
                  THEN Answered(RolledBack(req[s]), IF s \in who THEN "fatal" ELSE "cut")
                  ELSE req[s]]
    /\ leaked' = 0

\* r is the request as the error finds it
InBlock(s, r, x) ==
    /\ r.block \in {"try", "item"}
    /\ req' = [req EXCEPT ![s] =
                  [r EXCEPT !.rest = {AfterEnd(p) : p \in After(s, x)},
                            !.block = "none",
                            !.missed = @ \/ Skips(s, x),
                            !.partial = @ \/ r.block = "item" \/ r.op \in Empty]]
    /\ UNCHANGED leaked

\* the catch of insertExistingData
InUndo(s, r) ==
    /\ r.block = "undo"
    /\ ~r.finished
    /\ req' = [req EXCEPT ![s] = Answered(RolledBack(r), "nothing")]
    /\ UNCHANGED leaked

Uncaught(s, r) ==
    /\ r.block = "none" \/ (r.block = "undo" /\ r.finished)
    /\ \/ /\ r.op \notin Bare \cup Unawaited \cup Silent \cup Again
          /\ req' = [req EXCEPT ![s] = Answered(RolledBack(r), "error")]
          /\ UNCHANGED leaked
       \/ /\ r.op \in Bare
          /\ req' = [req EXCEPT ![s] =
                        Answered([r EXCEPT !.missed = @ \/ r.dirty], "error")]
          /\ leaked' = leaked + r.open
       \/ /\ r.op \in Unawaited
          /\ ~r.finished
          /\ req' = [req EXCEPT ![s] = Answered(RolledBack(r), "error")]
          /\ UNCHANGED leaked
       \/ /\ r.op \in Unawaited          \* the roll-back is rejected, by nobody handled
          /\ r.finished
          /\ ProcessStops({s})
       \/ /\ r.op \in Silent
          /\ req' = [req EXCEPT ![s] = Answered(RolledBack(r), "ok")]
          /\ UNCHANGED leaked
       \/ /\ r.op \in Again
          /\ r.open > 0
          /\ req' = [req EXCEPT ![s] =
                        [RolledBack(r) EXCEPT !.rest = Read ** Maybe(Throw)]]
          /\ UNCHANGED leaked
       \/ /\ r.op \in Again
          /\ r.open = 0
          /\ req' = [req EXCEPT ![s] = Answered(r, "error")]
          /\ UNCHANGED leaked

Raise(s, r, x) == InBlock(s, r, x) \/ InUndo(s, r) \/ Uncaught(s, r)

-----------------------------------------------------------------------------
(* The steps of a request *)

Arrive(s, m) ==
    /\ ~Busy(s)
    /\ req' = [req EXCEPT ![s] = [NoRequest EXCEPT !.op = m, !.rest = Service[m]]]
    /\ UNCHANGED leaked

\* the statement x is executed and leaves the request as r
Done(s, x, r) == req' = [req EXCEPT ![s] = [r EXCEPT !.rest = After(s, x)]]

\* mutant: the pool has no limit
BeginTransactionAnyway(s) ==
    /\ "begin" \in NextStatements(s)
    /\ Done(s, "begin", [req[s] EXCEPT !.open = @ + 1])
    /\ UNCHANGED leaked

BeginTransaction(s) ==
    /\ "begin" \in NextStatements(s)
    /\ Free > 0
    /\ Done(s, "begin", [req[s] EXCEPT !.open = @ + 1])
    /\ UNCHANGED leaked

\* mutant: a write is durable at once, although it is handed the transaction
ExecuteDurably(s) ==
    /\ \E x \in NextStatements(s) \cap Simple :
          /\ x \in Needs => Free > 0
          /\ Done(s, x, [req[s] EXCEPT !.kept = @ \/ x \in {"in", "out", "spawn"}])
    /\ UNCHANGED leaked

\* a query, a write or a call that changes nothing but what is written
Execute(s) ==
    /\ \E x \in NextStatements(s) \cap Simple :
          /\ x \in Needs => Free > 0
          /\ Done(s, x, [req[s] EXCEPT !.dirty = @ \/ x = "in",
                                       !.kept = @ \/ x \in {"out", "spawn"}])
    /\ UNCHANGED leaked

\* mutant: the connection is not given back
CommitTransactionKeeping(s) ==
    /\ "commit" \in NextStatements(s)
    /\ Done(s, "commit", [req[s] EXCEPT !.finished = TRUE,
                                        !.kept = @ \/ req[s].dirty, !.dirty = FALSE])
    /\ UNCHANGED leaked

CommitTransaction(s) ==
    /\ "commit" \in NextStatements(s)
    /\ Done(s, "commit", [req[s] EXCEPT !.open = @ - 1, !.finished = TRUE,
                                        !.kept = @ \/ req[s].dirty, !.dirty = FALSE])
    /\ UNCHANGED leaked

EnterBlock(s) ==
    /\ \E x \in NextStatements(s) \cap Blocks :
          Done(s, x, [req[s] EXCEPT !.block = x])
    /\ UNCHANGED leaked

LeaveBlock(s) ==
    /\ "end" \in NextStatements(s)
    /\ Done(s, "end", [req[s] EXCEPT !.block = "none"])
    /\ UNCHANGED leaked

\* rollback() is not awaited: its promise is rejected if the transaction is over
DropTransaction(s) ==
    /\ "drop" \in NextStatements(s)
    /\ \/ ~req[s].finished /\ Done(s, "drop", RolledBack(req[s])) /\ UNCHANGED leaked
       \/ req[s].finished /\ ProcessStops({s})

Reject(s) == "throw" \in NextStatements(s) /\ Raise(s, req[s], "throw")

\* A statement fails: the database or the service refuses it, or no connection
\* comes free within the acquire time.  A commit that fails ends the transaction.
Fail(s) ==
    \E x \in NextStatements(s) \cap (Faulty \ Deadly) :
       LET r == [req[s] EXCEPT !.missed = @ \/ x \in Writes]
       IN  Raise(s, IF x = "commit"
                    THEN [RolledBack(r) EXCEPT !.open = req[s].open - 1]
                    ELSE r, x)

\* nobody handles the rejection of a statement that is not awaited, and s3_upload
\* calls process.exit()
FailDeadly(s) ==
    /\ NextStatements(s) \cap Deadly # {}
    /\ ProcessStops({s})

\* the method returns: a transaction it has not ended stays open
Return(s) ==
    /\ Busy(s)
    /\ <<>> \in req[s].rest
    /\ req' = [req EXCEPT ![s] =
                  Answered([req[s] EXCEPT !.missed = @ \/ req[s].dirty],
                           IF ~req[s].partial THEN "ok"
                           ELSE IF req[s].op \in Empty THEN "error" ELSE "partial")]
    /\ leaked' = leaked + req[s].open

Serve(s) ==
    \/ BeginTransaction(s) \/ Execute(s) \/ CommitTransaction(s)
    \/ EnterBlock(s) \/ LeaveBlock(s) \/ DropTransaction(s)
    \/ Reject(s) \/ Fail(s) \/ FailDeadly(s) \/ Return(s)

Next ==
    \/ \E s \in Slots : Serve(s)
    \/ \E s \in Slots : \E m \in Methods[s] : Arrive(s, m)
    \/ ProcessStops({})

Spec == Init /\ [][Next]_vars

-----------------------------------------------------------------------------
(* Properties *)

Answers == {"none", "ok", "partial", "nothing", "error", "fatal", "cut"}

\* Every request is well formed, and the connections that requests hold and the
\* ones that have leaked are never more than the pool has: no method ends a
\* transaction it has not open, and none begins or queries without a connection.
TypeOK ==
    /\ \A s \in Slots :
          /\ req[s].op \in Methods[s] \cup {"none"}
          /\ \A p \in req[s].rest : \A i \in DOMAIN p : p[i] \in Kinds
          /\ req[s].open \in 0 .. 2
          /\ req[s].block \in Blocks \cup {"none"}
          /\ req[s].answer \in Answers
          /\ \A f \in {"finished", "dirty", "kept", "missed", "partial"} :
                req[s][f] \in BOOLEAN
    /\ leaked \in Nat
    /\ Free \in 0 .. PoolSize

\* the methods that write outside the transaction they open, or whose catch
\* goes on to commit
HalfInside == {"createEudrSetting", "createUserMembership", "updateFarm", "removeSegment",
               "createDeforestation", "copyDefaultAssessment", "editPlace",
               "bulkApproveReports", "bulkApproveShipments", "uploadBlendSettings"}

Plain == {m \in DOMAIN Service : \A p \in Service[m] : \A i \in DOMAIN p : p[i] # "begin"}

Torn == Plain \cup HalfInside

\* the methods that may fail once everything they write is durable
Late == {"updateFlowSetting", "updateEudrSetting", "findEudrSetting", "createPayment",
         "createUserAddons", "changeReport", "copyBlend", "createAssessment"}

\* the methods whose answer does not tell that an error was caught
Careless == {"findEudrSetting", "updateOverdue", "bulkApproveReports",
             "bulkApproveShipments", "syncFarms", "addPlaces"}

\* the methods with a promise whose rejection nobody handles, or an upload
Fatal == Unawaited \cup {"createPasture", "createUserMembership", "createDispute",
                         "importGeoJson", "mitigateManually", "recalculateTolerance",
                         "requestReports"}

\* What a method writes is written completely or not at all, whatever statement
\* fails or is refused and whenever the process stops, but for the items a
\* bulk method reports as failed: so it is for the methods that hand their
\* transaction to every write.
AllOrNothing ==
    \A s \in Slots : req[s].kept /\ req[s].missed =>
        \/ req[s].op \in Torn
        \/ req[s].partial
        \/ Busy(s)

\* The answer of a method tells what it has done: one that answers an error, or
\* that there was nothing to do, has written nothing; one that answers success
\* has written everything; and no method ends the process.  The methods each
\* part does not hold of are named.
ErrorsKeepNothing ==
    \A s \in Slots : req[s].answer \in {"error", "nothing"} /\ req[s].kept =>
        req[s].op \in Torn \cup Late
SuccessMissesNothing ==
    \A s \in Slots : req[s].answer = "ok" /\ req[s].missed => req[s].op \in Careless
ProcessSurvives ==
    \A s \in Slots : req[s].answer = "fatal" => req[s].op \in Fatal
AnswersTrue == ErrorsKeepNothing /\ SuccessMissesNothing /\ ProcessSurvives

\* the methods with a way out that leaves the transaction open
Forgetful == {"duplicateReport", "editPlace", "bulkApproveReports", "bulkApproveShipments",
              "createPasture", "mitigateRisk"}

\* A connection is lost to the pool only by a method that forgets to end its
\* transaction, at most one by each call, and comes back only when the process
\* stops.
LosesOne(s) == leaked' = leaked + 1 /\ req[s].op \in Forgetful /\ req'[s].answer # "none"
ConnectionsReturned ==
    [][leaked' # leaked => (leaked' = 0 \/ \E s \in Slots : LosesOne(s))]_vars

\* the methods that ask for no second connection while they hold one
Frugal == {"createUserMetadata", "createSegment", "updateSegment", "createEnquiry",
           "findEudrSetting", "createAssessment",
           "createPasture", "bulkCreateBlendSettings", "updateShipmentStatus",
           "createShipment", "bulkAssignShipments", "bulkRejectShipments",
           "updateOverdue", "updateEudrAssessmentStatus", "uploadBlendSettings"}

Waits(s) == NextStatements(s) # {} /\ NextStatements(s) \subseteq Needs /\ <<>> \notin req[s].rest

\* When no connection is free and every request that holds one waits for
\* another, so that only the time-out of the pool lets any of them go on, the
\* connections are held by methods that query outside their transaction or have
\* been lost, never by one of the others.
StallExplained ==
    (Free = 0 /\ \A s \in Slots : req[s].open > 0 => Waits(s)) =>
        \A s \in Slots : req[s].open > 0 => req[s].op \notin Frugal
====
