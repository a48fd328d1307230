------------------------------ MODULE SolanaLog ------------------------------
(***************************************************************************)
(* The log of memos on the Solana chain: the queue of items to log, the    *)
(* workers that take its jobs under a lock of 6 s, the rows of the table   *)
(* `solana_transactions`, the set of transactions each process keeps in    *)
(* memory, and the tries of createTransaction().                           *)
(* (src/src/solana/solana.service.ts, solana-processor.service.ts.)        *)
(*                                                                         *)
(* Time is abstract: a lock may expire as soon as it is held, a back-off   *)
(* ends when the next step is taken.  A row is read into an instance of a  *)
(* worker and may be stale when it is used.  A look-up that finds a memo   *)
(* and the update that follows are one step: a memo stays on the chain.    *)
(* An update that fails while an error is handled ends the attempt.        *)
(***************************************************************************)
EXTENDS Integers, Sequences, FiniteSets

CONSTANTS
    Items,          \* pairs of transactableType and transactableId
    Servers,        \* processes
    Workers,        \* their slots for jobs of the queue
    Home,           \* Home[w]: the server of w
    Retries,        \* tries of createTransaction() after the first (5)
    Attempts,       \* attempts of a job (10)
    MaxFaults,      \* bound: errors of queries, calls and memos, processes that stop
                    \*   and jobs taken from a worker that still runs
    MaxAdds         \* bound: requests to log an item

ASSUME ConstantsAssumption ==
    /\ Home \in [Workers -> Servers]
    /\ Attempts \in Nat \ {0}
    /\ {Retries, MaxFaults, MaxAdds} \subseteq Nat
    /\ {"none", "lost"} \cap Workers = {}
    /\ "none" \notin Items

VARIABLES
    job,        \* job[i]: the job of item i in the queue
    lock,       \* lock[i]: who holds the lock on the job of i
    row,        \* the rows of solana_transactions, in the order of their ids
    processing, \* processing[s]: the ids in the set processingTransactions of s
    memo,       \* the memos sent, named by their place
    work,       \* work[w]: the call of createTransaction() of worker w
    faults, adds,   \* what the bounds count
    \* history, read by no action:
    doubled,    \* items whose lock expired and was taken while its holder was at work
    orphaned,   \* items whose process stopped while it had them in its set
    spent,      \* items that failed after their signature had been saved
    unsaved,    \* items whose failure could not be saved
    unsure      \* items with a memo whose signature was lost, or that was looked up
                \*   in vain and could still arrive

bounds  == <<faults, adds>>
history == <<doubled, orphaned, spent, unsaved, unsure>>
vars    == <<job, lock, row, processing, memo, work, bounds, history>>

NoJob == [at |-> "none", owner |-> "none", attempts |-> 0, stalled |-> 0]
Idle  == [at |-> "idle", item |-> "none", retry |-> 0, row |-> 0, sig |-> 0, memo |-> 0]

Init ==
    /\ job = [i \in Items |-> NoJob]
    /\ lock = [i \in Items |-> "none"]
    /\ row = <<>>
    /\ processing = [s \in Servers |-> {}]
    /\ memo = <<>>
    /\ work = [w \in Workers |-> Idle]
    /\ faults = 0 /\ adds = 0
    /\ doubled = {} /\ orphaned = {} /\ spent = {} /\ unsaved = {} /\ unsure = {}

Goes(w, x)   == work' = [work EXCEPT ![w] = x]
At(w, label) == Goes(w, [work[w] EXCEPT !.at = label])
Faulty       == faults < MaxFaults /\ faults' = faults + 1

OnChain(n) == n > 0 /\ memo[n].at \in {"landed", "errored"}
RowsOf(i)  == {n \in 1..Len(row) : row[n].item = i}
FindOne(i) == IF RowsOf(i) = {} THEN 0 ELSE CHOOSE n \in RowsOf(i) : \A m \in RowsOf(i) : n <= m
Owns(w, n) == n \in processing[Home[w]]

Forget(w) == processing' = [processing EXCEPT ![Home[w]] = @ \ {work[w].row}]
SetRow(w, status) == row' = [row EXCEPT ![work[w].row].status = status]

-----------------------------------------------------------------------------
(* The queue.                                                              *)

\* The library ignores a job whose id it has: a failed one stays as it is.
Added(x) == IF x.at = "none" THEN [NoJob EXCEPT !.at = "waiting"] ELSE x

\* A request logs the items of S, one by one: a deforestation result, a crop
\* yield or a file of results.
AddToQueue(S) ==
    /\ adds < MaxAdds /\ adds' = adds + 1
    /\ job' = [i \in Items |-> IF i \in S THEN Added(job[i]) ELSE job[i]]
    /\ UNCHANGED <<lock, row, processing, memo, work, faults, history>>

\* A worker is given a job.
Take(w, i) ==
    /\ work[w].at = "idle" /\ job[i].at = "waiting"
    /\ job' = [job EXCEPT ![i].at = "active", ![i].owner = w]
    /\ Goes(w, [Idle EXCEPT !.at = "acquire", !.item = i, !.retry = Retries])
    /\ UNCHANGED <<lock, row, processing, memo, bounds, history>>

\* Who is at work on item i.
Handling(v, i) == work[v].item = i /\ work[v].at \notin {"acquire", "resolve", "reject"}
Overlaps(w, i) == \E v \in Workers \ {w} : Handling(v, i)

\* Mutated: the handler goes on without the lock.
AcquireAnyway(w) ==
    LET i == work[w].item IN
    /\ work[w].at = "acquire"
    /\ lock' = [lock EXCEPT ![i] = IF @ = "none" THEN w ELSE @]
    /\ At(w, "find")
    /\ doubled' = IF lock[i] = "none" /\ Overlaps(w, i) THEN doubled \cup {i} ELSE doubled
    /\ UNCHANGED <<job, row, processing, memo, bounds, orphaned, spent, unsaved, unsure>>

\* The lock on the job is free, or the attempt fails: its tries of two seconds, the
\* back-off of three and the tries of the next attempt outlast the lock.
Acquire(w) ==
    LET i == work[w].item IN
    /\ work[w].at = "acquire"
    /\ \/ /\ lock[i] = "none"
          /\ lock' = [lock EXCEPT ![i] = w]
          /\ doubled' = IF Overlaps(w, i) THEN doubled \cup {i} ELSE doubled
          /\ At(w, "find")
       \/ /\ lock[i] # "none"
          /\ lock' = [lock EXCEPT ![i] = "none"]
          /\ At(w, "reject")
          /\ UNCHANGED doubled
    /\ UNCHANGED <<job, row, processing, memo, bounds, orphaned, spent, unsaved, unsure>>

\* Mutated: one attempt too many.
FinishOnceMore(w) ==
    LET i == work[w].item
        n == job[i].attempts + 1 IN
    /\ work[w].at \in {"resolve", "reject"}
    /\ lock' = [lock EXCEPT ![i] = IF @ = w THEN "none" ELSE @]
    /\ job' = IF job[i].owner # w THEN job
              ELSE [job EXCEPT ![i] = IF work[w].at = "resolve" THEN NoJob
                                      ELSE [@ EXCEPT !.at = IF n <= Attempts THEN "waiting" ELSE "failed",
                                                     !.owner = "none", !.attempts = n]]
    /\ Goes(w, Idle)
    /\ UNCHANGED <<row, processing, memo, bounds, history>>

\* The lock is released if it is still w's own; then the attempt counts if the job is.
Finish(w) ==
    LET i == work[w].item
        n == job[i].attempts + 1 IN
    /\ work[w].at \in {"resolve", "reject"}
    /\ lock' = [lock EXCEPT ![i] = IF @ = w THEN "none" ELSE @]
    /\ job' = IF job[i].owner # w THEN job
              ELSE [job EXCEPT ![i] = IF work[w].at = "resolve" THEN NoJob
                                      ELSE [@ EXCEPT !.at = IF n < Attempts THEN "waiting" ELSE "failed",
                                                     !.owner = "none", !.attempts = n]]
    /\ Goes(w, Idle)
    /\ UNCHANGED <<row, processing, memo, bounds, history>>

\* Six seconds have passed.
Expire(i) ==
    /\ lock[i] # "none"
    /\ lock' = [lock EXCEPT ![i] = "none"]
    /\ UNCHANGED <<job, row, processing, memo, work, bounds, history>>

\* The library gives a job back, once, whose worker has not answered for 30 s: it
\* is gone, or it is busy and goes on; a lock it held has expired.
GiveBack(i, gone) ==
    /\ job[i].at = "active"
    /\ gone <=> work[job[i].owner].item # i
    /\ lock[i] \notin {"lost", job[i].owner}
    /\ IF gone THEN UNCHANGED faults ELSE Faulty
    /\ job' = [job EXCEPT ![i] = [@ EXCEPT !.at = IF job[i].stalled = 0 THEN "waiting" ELSE "failed",
                                           !.owner = "none", !.stalled = 1]]
    /\ UNCHANGED <<lock, row, processing, memo, work, adds, history>>

\* w has sent a memo whose signature is in no row.
Unrecorded(w) ==
    \/ work[w].at \in {"rpc", "save"}
    \/ work[w].at = "catch" /\ work[w].sig # 0 /\ row[work[w].row].sig # work[w].sig

\* A process stops and starts again: its set is empty, its locks are nobody's.  A row
\* that failed before does not tell that a memo was being sent for it again.
Crash(s) ==
    LET dead   == {w \in Workers : Home[w] = s}
        resent == {w \in dead : Unrecorded(w) /\ row[work[w].row].status = "failed"} IN
    /\ Faulty
    /\ work' = [w \in Workers |-> IF w \in dead THEN Idle ELSE work[w]]
    /\ lock' = [i \in Items |-> IF lock[i] \in dead THEN "lost" ELSE lock[i]]
    /\ processing' = [processing EXCEPT ![s] = {}]
    /\ orphaned' = orphaned \cup {row[n].item : n \in processing[s]}
    /\ unsure' = unsure \cup {work[w].item : w \in resent}
    /\ UNCHANGED <<job, row, memo, adds, doubled, spent, unsaved>>

-----------------------------------------------------------------------------
(* createTransaction().                                                    *)

\* Mutated: a row that failed is not taken into the set.
FindKeepingOut(w) ==
    LET i == work[w].item
        n == FindOne(i) IN
    /\ work[w].at = "find"
    /\ Goes(w, [work[w] EXCEPT
          !.row = n,
          !.sig = IF n = 0 THEN 0 ELSE row[n].sig,
          !.at = IF n = 0 THEN "create"
                 ELSE IF row[n].status = "success" THEN "resolve"
                 ELSE IF row[n].sig # 0 THEN "lookup"
                 ELSE IF Owns(w, n) THEN "broadcast" ELSE "reject"])
    /\ UNCHANGED <<job, lock, row, processing, memo, bounds, history>>

\* The row of the item is read.  Logged: done.  With a signature: it is looked up.
\* Failed: the process takes it into its set.  Then it must be in the set.
Find(w) ==
    LET i == work[w].item
        n == FindOne(i)
        takes == n # 0 /\ row[n].sig = 0 /\ row[n].status = "failed" IN
    /\ work[w].at = "find"
    /\ Goes(w, [work[w] EXCEPT
          !.row = n,
          !.sig = IF n = 0 THEN 0 ELSE row[n].sig,
          !.at = IF n = 0 THEN "create"
                 ELSE IF row[n].status = "success" THEN "resolve"
                 ELSE IF row[n].sig # 0 THEN "lookup"
                 ELSE IF takes \/ Owns(w, n) THEN "broadcast" ELSE "reject"])
    /\ processing' = IF takes THEN [processing EXCEPT ![Home[w]] = @ \cup {n}] ELSE processing
    /\ UNCHANGED <<job, lock, row, memo, bounds, history>>

\* A row is created, whatever others have created since, and enters the set.
Create(w) ==
    LET n == Len(row) + 1 IN
    /\ work[w].at = "create"
    /\ row' = Append(row, [item |-> work[w].item, status |-> "processing", sig |-> 0])
    /\ processing' = [processing EXCEPT ![Home[w]] = @ \cup {n}]
    /\ Goes(w, [work[w] EXCEPT !.at = "broadcast", !.row = n])
    /\ UNCHANGED <<job, lock, memo, bounds, history>>

\* The memo is on the chain: the row says so.
Succeed(w) ==
    /\ SetRow(w, "success")
    /\ Forget(w)
    /\ At(w, "resolve")

\* getTransaction(): what the chain has of the signature at hand, nothing when
\* all its tries fail.
Finds(w)  == OnChain(work[w].sig) /\ UNCHANGED faults
Misses(w) == IF OnChain(work[w].sig) THEN Faulty ELSE UNCHANGED faults

\* A memo that was looked up in vain may arrive all the same.
Doubts(w) == unsure' = IF work[w].sig # 0 /\ memo[work[w].sig].at # "dropped"
                       THEN unsure \cup {work[w].item} ELSE unsure

\* The signature in the row is looked up before another memo is sent.
Lookup(w) ==
    /\ work[w].at = "lookup"
    /\ \/ Finds(w) /\ Succeed(w) /\ UNCHANGED unsure
       \/ /\ Misses(w)
          /\ IF Owns(w, work[w].row) THEN At(w, "broadcast") /\ Doubts(w)
                                     ELSE At(w, "reject") /\ UNCHANGED unsure
          /\ UNCHANGED <<row, processing>>
    /\ UNCHANGED <<job, lock, memo, adds, doubled, orphaned, spent, unsaved>>

\* program.methods.logMemo().rpc(): the memo is sent ...
Broadcast(w) ==
    /\ work[w].at = "broadcast"
    /\ memo' = Append(memo, [item |-> work[w].item, at |-> "pending"])
    /\ Goes(w, [work[w] EXCEPT !.at = "rpc", !.memo = Len(memo) + 1])
    /\ UNCHANGED <<job, lock, row, processing, bounds, history>>

\* ... and its signature returned,
RpcReturns(w) ==
    /\ work[w].at = "rpc"
    /\ Goes(w, [work[w] EXCEPT !.at = "save", !.sig = work[w].memo])
    /\ UNCHANGED <<job, lock, row, processing, memo, bounds, history>>

\* or an error is thrown, which may name it: the signature the row had is preferred.
RpcThrows(w, named) ==
    LET n   == work[w].memo
        sig == IF work[w].sig # 0 THEN work[w].sig ELSE IF named THEN n ELSE 0 IN
    /\ work[w].at = "rpc"
    /\ IF memo[n].at \in {"errored", "dropped"} THEN UNCHANGED faults ELSE Faulty
    /\ Goes(w, [work[w] EXCEPT !.at = "catch", !.sig = sig])
    /\ unsure' = IF sig # n /\ memo[n].at # "dropped" THEN unsure \cup {work[w].item} ELSE unsure
    /\ UNCHANGED <<job, lock, row, processing, memo, adds, doubled, orphaned, spent, unsaved>>

SaveSignature(w) ==
    /\ work[w].at = "save"
    /\ row' = [row EXCEPT ![work[w].row].sig = work[w].sig]
    /\ At(w, "confirm")
    /\ UNCHANGED <<job, lock, processing, memo, bounds, history>>

\* Another try, from the row.
Again(w) == Goes(w, [Idle EXCEPT !.at = "find", !.item = work[w].item, !.retry = work[w].retry - 1])

\* Mutated: a memo is confirmed as soon as it was sent.
ConfirmUnseen(w) ==
    /\ work[w].at = "confirm"
    /\ Succeed(w)
    /\ UNCHANGED <<job, lock, memo, bounds, history>>

\* confirmTransaction(): a memo that landed is logged, and so is one that ended in
\* an error, which the chain has too, unless the look-up fails; one that does not
\* arrive is an exception.
Confirm(w) ==
    LET n == work[w].sig IN
    /\ work[w].at = "confirm" /\ memo[n].at # "pending"
    /\ \/ OnChain(n) /\ Succeed(w) /\ UNCHANGED <<faults, unsure>>
       \/ /\ memo[n].at = "errored" /\ Faulty
          /\ IF work[w].retry > 0 THEN Again(w) ELSE At(w, "fail")
          /\ Doubts(w)
          /\ UNCHANGED <<row, processing>>
       \/ /\ memo[n].at = "dropped" /\ At(w, "catch")
          /\ UNCHANGED <<row, processing, faults, unsure>>
    /\ UNCHANGED <<job, lock, memo, adds, doubled, orphaned, spent, unsaved>>

\* A query or a call fails.
Throw(w) ==
    /\ work[w].at \in {"find", "create", "lookup", "broadcast", "save", "confirm", "fail"}
    /\ Faulty
    /\ At(w, "catch")
    /\ UNCHANGED <<job, lock, row, processing, memo, adds, history>>

\* Mutated: an error is handled without a look-up.
CatchBlindly(w) ==
    /\ work[w].at = "catch"
    /\ IF work[w].retry > 0 THEN Again(w) ELSE At(w, "abandon")
    /\ UNCHANGED <<job, lock, row, processing, memo, bounds, history>>

\* The signature at hand is looked up before the next try.
Catch(w) ==
    /\ work[w].at = "catch"
    /\ \/ Finds(w) /\ Succeed(w) /\ UNCHANGED unsure
       \/ /\ Misses(w) /\ Doubts(w)
          /\ IF work[w].retry > 0 THEN Again(w) ELSE At(w, "abandon")
          /\ UNCHANGED <<row, processing>>
    /\ UNCHANGED <<job, lock, memo, adds, doubled, orphaned, spent, unsaved>>

\* The tries are used up: the row fails and leaves the set.
GiveUp(w) ==
    /\ SetRow(w, "failed")
    /\ Forget(w)
    /\ spent' = IF row[work[w].row].sig # 0 THEN spent \cup {work[w].item} ELSE spent

Fail(w) ==
    /\ work[w].at = "fail"
    /\ GiveUp(w)
    /\ At(w, "reject")
    /\ UNCHANGED <<job, lock, memo, bounds, doubled, orphaned, unsaved, unsure>>

\* Mutated: the row is left as it is.
AbandonSilently(w) ==
    /\ work[w].at = "abandon"
    /\ Forget(w)
    /\ At(w, "reject")
    /\ UNCHANGED <<job, lock, row, memo, bounds, history>>

\* The same in the handler of an error; without an instance it throws.
Abandon(w) ==
    /\ work[w].at = "abandon"
    /\ \/ work[w].row # 0 /\ GiveUp(w) /\ UNCHANGED <<faults, unsaved>>
       \/ /\ work[w].row # 0 /\ Faulty
          /\ unsaved' = unsaved \cup {work[w].item}
          /\ UNCHANGED <<row, processing, spent>>
       \/ /\ work[w].row = 0
          /\ unsaved' = IF RowsOf(work[w].item) = {} THEN unsaved ELSE unsaved \cup {work[w].item}
          /\ UNCHANGED <<row, processing, faults, spent>>
    /\ At(w, "reject")
    /\ UNCHANGED <<job, lock, memo, adds, doubled, orphaned, unsure>>

\* What becomes of a memo.
Land(n) ==
    /\ n \in 1..Len(memo) /\ memo[n].at = "pending"
    /\ memo' = [memo EXCEPT ![n].at = "landed"]
    /\ UNCHANGED <<job, lock, row, processing, work, bounds, history>>

Break(n, how) ==
    /\ n \in 1..Len(memo) /\ memo[n].at = "pending" /\ Faulty
    /\ memo' = [memo EXCEPT ![n].at = how]
    /\ UNCHANGED <<job, lock, row, processing, work, adds, history>>

-----------------------------------------------------------------------------
WorkStep(w) ==
    \/ Acquire(w) \/ Find(w) \/ Create(w) \/ Lookup(w) \/ Broadcast(w) \/ RpcReturns(w)
    \/ SaveSignature(w) \/ Confirm(w) \/ Catch(w) \/ Fail(w) \/ Abandon(w) \/ Finish(w)

MaxMemos == Cardinality(Items) * (1 + MaxFaults)

Next ==
    \/ \E S \in SUBSET Items \ {{}} : AddToQueue(S)
    \/ \E w \in Workers : WorkStep(w) \/ Throw(w)
    \/ \E w \in Workers, i \in Items : Take(w, i)
    \/ \E w \in Workers, named \in BOOLEAN : RpcThrows(w, named)
    \/ \E i \in Items : Expire(i)
    \/ \E i \in Items, gone \in BOOLEAN : GiveBack(i, gone)
    \/ \E s \in Servers : Crash(s)
    \/ \E n \in 1..Len(memo) : Land(n) \/ Break(n, "errored") \/ Break(n, "dropped")

Spec == Init /\ [][Next]_vars

\* A process that runs goes on with its calls; the queue gives waiting jobs to idle
\* workers and takes them from dead ones; locks expire and memos arrive or do not.
FairSpec ==
    /\ Spec
    /\ \A w \in Workers : WF_vars(WorkStep(w))
    /\ \A i \in Items : /\ WF_vars(\E w \in Workers : Take(w, i))
                        /\ WF_vars(GiveBack(i, TRUE)) /\ WF_vars(Expire(i))
    /\ \A n \in 1..MaxMemos : WF_vars(Land(n))

-----------------------------------------------------------------------------
Labels == {"idle", "acquire", "find", "create", "lookup", "broadcast", "rpc", "save",
           "confirm", "catch", "fail", "abandon", "resolve", "reject"}

JobType  == [at : {"none", "waiting", "active", "failed"}, owner : Workers \cup {"none"},
             attempts : 0..Attempts, stalled : 0..1]
RowType  == [item : Items, status : {"processing", "failed", "success"}, sig : 0..Len(memo)]
MemoType == [item : Items, at : {"pending", "landed", "errored", "dropped"}]
WorkType == [at : Labels, item : Items \cup {"none"}, retry : 0..Retries,
             row : 0..Len(row), sig : 0..Len(memo), memo : 0..Len(memo)]

\* The types of the state.
TypeOK ==
    /\ job \in [Items -> JobType]
    /\ lock \in [Items -> Workers \cup {"none", "lost"}]
    /\ row \in Seq(RowType)
    /\ processing \in [Servers -> SUBSET (1..Len(row))]
    /\ memo \in Seq(MemoType)
    /\ work \in [Workers -> WorkType]
    /\ {faults, adds} \subseteq Nat
    /\ \A S \in {doubled, orphaned, spent, unsaved, unsure} : S \subseteq Items

Memos(i, where) == {n \in 1..Len(memo) : memo[n].item = i /\ memo[n].at \in where}

\* What TransactionLog sees of the state.
Entry   == [i \in Items |-> IF i \in doubled THEN "void"
                           ELSE IF FindOne(i) = 0 THEN "none" ELSE row[FindOne(i)].status]
Sent    == [i \in Items |-> Cardinality(Memos(i, {"pending", "landed", "errored", "dropped"}))]
Reached == [i \in Items |-> Cardinality(Memos(i, {"landed", "errored"}))]

Log == INSTANCE TransactionLog WITH entry <- Entry, sent <- Sent, onChain <- Reached

\* What the table promises (TransactionLog): "success" only with a memo on the chain,
\* for good, and no memo after it.  Two workers on one item void it: both may create
\* a row, and the one whose tries are used up overwrites what the other logged.
ImplementsLog == Log!Spec

\* An item has two memos that landed only if two workers handled it, if the signature
\* of one was lost with the error of the call that sent it or with a process that sent
\* it for a row that had failed, or if one arrived after it was looked up in vain.
DuplicatesExplained ==
    \A i \in Items \ (doubled \cup unsure) : Cardinality(Memos(i, {"landed"})) <= 1

\* A row stays "processing" when nobody works for its item any more only if a process
\* stopped that had it in its set, if its failure could not be saved, or if two
\* workers handled it.
ProcessingExplained ==
    \A n \in 1..Len(row) : LET i == row[n].item IN
        row[n].status = "processing" =>
            \/ i \in doubled \cup orphaned \cup unsaved
            \/ job[i].at \in {"waiting", "active"} \/ \E w \in Workers : work[w].item = i

\* An item in the queue is logged, through errors, lost locks and stopped processes: one
\* of its attempts succeeds.  Excused: what voids the log, a process that stopped with
\* the item in its set, a failure that was not saved, an item that failed with a
\* signature in its row, which the next attempts skip, and a job that was twice taken
\* from a worker that did not answer.
Logged ==
    \A i \in Items :
        job[i].at = "waiting" ~> \/ \E n \in RowsOf(i) : row[n].status = "success"
                                 \/ job[i].at = "failed" /\ job[i].attempts < Attempts
                                 \/ i \in doubled \cup orphaned \cup unsaved \cup spent
=============================================================================
