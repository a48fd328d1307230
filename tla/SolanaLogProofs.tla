---------------------------- MODULE SolanaLogProofs ----------------------------
(***************************************************************************)
(* Proofs about SolanaLog, for any sets of items, servers and workers and  *)
(* any bounds: the types of its state, that the rows keep the promise of   *)
(* TransactionLog, and that rows that stay in "processing" and memos that  *)
(* landed twice are explained by what the processes went through.          *)
(***************************************************************************)
EXTENDS SolanaLog, SequenceTheorems, FiniteSetTheorems, TLAPS

-----------------------------------------------------------------------------
(* The inductive invariant *)

\* Only an active job has an owner, and it has an attempt left.
Counted ==
    \A i \in Items :
       /\ job[i].owner # "none" => job[i].at = "active"
       /\ job[i].at \in {"waiting", "active"} => job[i].attempts < Attempts

\* The row, the signature and the memo at hand are those of the item.
Fits(x) ==
    /\ x.at = "idle" <=> x.item = "none"
    /\ x.row # 0 => row[x.row].item = x.item
    /\ x.sig # 0 => x.row # 0 /\ memo[x.sig].item = x.item
    /\ x.memo # 0 => memo[x.memo].item = x.item
    /\ x.at \in {"lookup", "broadcast", "rpc", "save", "confirm", "fail"} => x.row # 0
    /\ x.at \in {"save", "confirm"} => x.sig # 0
    /\ x.at = "rpc" => x.memo # 0
    /\ x.at = "acquire" => x.row = 0

Linked ==
    /\ \A w \in Workers : Fits(work[w])
    /\ \A n \in 1..Len(row) : row[n].sig # 0 => memo[row[n].sig].item = row[n].item

Sound == TypeOK /\ Counted /\ Linked

\* One worker at most handles an item that is not doubled.
Exclusive ==
    \A i \in Items \ doubled : \A v, w \in Workers : Handling(v, i) /\ Handling(w, i) => v = w

\* What it knows of the row of that item is true: there is none, or it is the first
\* one and no success.
Knowing(w, i) ==
    /\ work[w].at = "create" => RowsOf(i) = {}
    /\ work[w].row # 0 => work[w].row = FindOne(i) /\ row[work[w].row].status # "success"

Knows == \A w \in Workers : \A i \in Items \ doubled : Handling(w, i) => Knowing(w, i)

\* What every step keeps of rows and memos: their places and their items.
Keeps ==
    /\ Len(row) <= Len(row') /\ \A n \in 1..Len(row) : row'[n].item = row[n].item
    /\ Len(memo) <= Len(memo') /\ \A n \in 1..Len(memo) : memo'[n].item = memo[n].item

-----------------------------------------------------------------------------
(* The first row of an item *)

LEMMA LeastExists ==
    ASSUME NEW N \in Nat, NEW S \in SUBSET (1 .. N), S # {}
    PROVE  \E n \in S : \A m \in S : n <= m
<1> DEFINE T == {1 .. n : n \in S}
<1>1. IsWellFoundedOn(StrictSubsetOrdering(1 .. N), SUBSET (1 .. N))
  <2>1. IsFiniteSet(1 .. N)
    BY FS_Interval
  <2>2. SUBSET (1 .. N) = FiniteSubsetsOf(1 .. N)
    BY <2>1, FS_FiniteSubsetsOfFinite
  <2>3. QED
    BY <2>2, FS_StrictSubsetOrderingWellFounded
<1>2. T \subseteq SUBSET (1 .. N) /\ T # {}
  <2>1. ASSUME NEW n \in S
        PROVE  1 .. n \in SUBSET (1 .. N)
    OBVIOUS
  <2>2. QED
    BY <2>1
<1>3. \E x \in T : \A y \in T : ~ (<<y, x>> \in StrictSubsetOrdering(1 .. N))
  <2> HIDE DEF T
  <2> QED BY <1>1, <1>2, WFMin
<1>4. PICK n \in S : \A m \in S : ~ (<<1 .. m, 1 .. n>> \in StrictSubsetOrdering(1 .. N))
  BY <1>3
<1>5. ASSUME NEW m \in S, m < n
      PROVE  <<1 .. m, 1 .. n>> \in StrictSubsetOrdering(1 .. N)
  <2>1. (1 .. m) \subseteq (1 .. n) /\ n \notin 1 .. m /\ n \in 1 .. n
    BY <1>5
  <2>2. (1 .. m) \in SUBSET (1 .. N) /\ (1 .. n) \in SUBSET (1 .. N)
    OBVIOUS
  <2>3. QED
    BY <2>1, <2>2 DEF StrictSubsetOrdering
<1>6. \A m \in S : ~ (m < n)
  BY <1>4, <1>5
<1>7. QED
  <2>1. \A m \in S : m \in Int /\ n \in Int
    OBVIOUS
  <2>2. QED
    BY <1>6, <2>1

LEMMA FindOneFirst ==
    ASSUME TypeOK, NEW i \in Items, RowsOf(i) # {}
    PROVE  /\ FindOne(i) \in RowsOf(i)
           /\ \A m \in RowsOf(i) : FindOne(i) <= m
           /\ FindOne(i) # 0
<1>1. Len(row) \in Nat
  BY DEF TypeOK
<1>2. RowsOf(i) \in SUBSET (1 .. Len(row))
  BY DEF RowsOf
<1>3. \E n \in RowsOf(i) : \A m \in RowsOf(i) : n <= m
  BY <1>1, <1>2, LeastExists
<1>4. FindOne(i) \in RowsOf(i) /\ \A m \in RowsOf(i) : FindOne(i) <= m
  BY <1>3 DEF FindOne
<1>5. QED
  BY <1>2, <1>4


-----------------------------------------------------------------------------
(* Types and links *)

LEMMA WorkFields ==
    ASSUME NEW x \in WorkType
    PROVE  /\ x.at \in Labels /\ x.item \in Items \cup {"none"} /\ x.retry \in 0..Retries
           /\ x.row \in 0..Len(row) /\ x.sig \in 0..Len(memo) /\ x.memo \in 0..Len(memo)
  BY DEF WorkType

LEMMA RowFields ==
    ASSUME TypeOK, NEW n \in 1..Len(row)
    PROVE  /\ row[n] \in RowType /\ row[n].item \in Items /\ row[n].sig \in 0..Len(memo)
           /\ row[n].status \in {"processing", "failed", "success"}
<1>1. row[n] \in RowType
  BY DEF TypeOK
<1>2. QED
  BY <1>1 DEF RowType

LEMMA MemoFields ==
    ASSUME TypeOK, NEW n \in 1..Len(memo)
    PROVE  /\ memo[n] \in MemoType /\ memo[n].item \in Items
           /\ memo[n].at \in {"pending", "landed", "errored", "dropped"}
<1>1. memo[n] \in MemoType
  BY DEF TypeOK
<1>2. QED
  BY <1>1 DEF MemoType

LEMMA Lengths ==
    ASSUME TypeOK
    PROVE  Len(row) \in Nat /\ Len(memo) \in Nat
  BY DEF TypeOK

LEMMA WorkerFields ==
    ASSUME Sound, NEW w \in Workers
    PROVE  /\ work[w] \in WorkType /\ Fits(work[w])
           /\ work[w].at # "idle" => work[w].item \in Items
<1>1. work[w] \in WorkType /\ Fits(work[w])
  BY DEF Sound, TypeOK, Linked
<1>2. work[w].item \in Items \cup {"none"}
  BY <1>1, WorkFields
<1>3. QED
  BY <1>1, <1>2 DEF Fits

\* What a step must show of the variables other than `work`.
RestOK ==
    /\ job \in [Items -> JobType]
    /\ lock \in [Items -> Workers \cup {"none", "lost"}]
    /\ faults \in Nat /\ adds \in Nat
    /\ doubled \subseteq Items /\ orphaned \subseteq Items /\ spent \subseteq Items
    /\ unsaved \subseteq Items /\ unsure \subseteq Items

RowsOK ==
    /\ row \in Seq(RowType) /\ memo \in Seq(MemoType)
    /\ processing \in [Servers -> SUBSET (1..Len(row))]
    /\ \A n \in 1..Len(row) : row[n].sig # 0 => memo[row[n].sig].item = row[n].item

LEMMA Parts ==
    ASSUME Sound
    PROVE  RestOK /\ RowsOK
  BY DEF Sound, TypeOK, Linked, RestOK, RowsOK

\* A step keeps rows and memos, and what it makes of a worker fits it.
LEMMA StepSound ==
    ASSUME Sound, RestOK', RowsOK', Counted', Keeps,
           work' = [v \in Workers |-> work'[v]],
           \A v \in Workers : work'[v] = work[v] \/ (work'[v] \in WorkType' /\ Fits(work[v])')
    PROVE  Sound'
<1>1. Len(row) \in Nat /\ Len(memo) \in Nat /\ Len(row') \in Nat /\ Len(memo') \in Nat
  BY Lengths DEF RowsOK, Sound
<1>2. ASSUME NEW v \in Workers, work'[v] = work[v]
      PROVE  work'[v] \in WorkType' /\ Fits(work[v])'
  <2>1. work[v] \in WorkType /\ Fits(work[v])
    BY WorkerFields
  <2>2. /\ work[v].at \in Labels /\ work[v].item \in Items \cup {"none"}
        /\ work[v].retry \in 0..Retries /\ work[v].row \in 0..Len(row)
        /\ work[v].sig \in 0..Len(memo) /\ work[v].memo \in 0..Len(memo)
    BY <2>1, WorkFields
  <2>3. /\ work[v].row \in 0..Len(row')
        /\ work[v].sig \in 0..Len(memo') /\ work[v].memo \in 0..Len(memo')
    BY <1>1, <2>2 DEF Keeps
  <2>4. work[v] \in WorkType'
    BY <2>1, <2>3 DEF WorkType
  <2>5. Fits(work[v])'
    <3>1. /\ work[v].row # 0 => row'[work[v].row].item = row[work[v].row].item
          /\ work[v].sig # 0 => memo'[work[v].sig].item = memo[work[v].sig].item
          /\ work[v].memo # 0 => memo'[work[v].memo].item = memo[work[v].memo].item
      BY <1>1, <2>2 DEF Keeps
    <3>2. QED
      BY <1>2, <2>1, <3>1 DEF Fits
  <2>6. QED
    BY <1>2, <2>4, <2>5
<1>3. \A v \in Workers : work'[v] \in WorkType' /\ Fits(work[v])'
  BY <1>2
<1>4. work' \in [Workers -> WorkType']
  BY <1>3
<1>5. TypeOK'
  BY <1>4 DEF TypeOK, RestOK, RowsOK
<1>6. QED
  BY <1>3, <1>5 DEF Sound, Linked, RowsOK

LEMMA SameRows ==
    ASSUME Sound, UNCHANGED <<row, memo, processing>>
    PROVE  RowsOK' /\ Keeps
<1>1. RowType' = RowType
  BY DEF RowType
<1>2. Len(row) \in Nat /\ Len(memo) \in Nat
  BY Lengths DEF Sound
<1>3. QED
  BY <1>1, <1>2, Parts DEF RowsOK, Keeps

\* A step of one worker: the others keep what they have.
LEMMA OneGoes ==
    ASSUME Sound, NEW w \in Workers, NEW x, Goes(w, x)
    PROVE  /\ work' = [v \in Workers |-> work'[v]]
           /\ work'[w] = x
           /\ \A v \in Workers \ {w} : work'[v] = work[v]
  BY DEF Goes, Sound, TypeOK

\* A worker goes on to another label.
LEMMA AtSound ==
    ASSUME Sound, RestOK', RowsOK', Counted', Keeps, NEW w \in Workers,
           work[w].at # "idle", NEW l \in Labels \ {"idle", "acquire"}, At(w, l),
           l \in {"lookup", "broadcast", "rpc", "save", "confirm", "fail"} => work[w].row # 0,
           l \in {"save", "confirm"} => work[w].sig # 0,
           l = "rpc" => work[w].memo # 0
    PROVE  Sound'
<1>1. /\ work'[w] = [work[w] EXCEPT !.at = l]
      /\ work' = [v \in Workers |-> work'[v]]
      /\ \A v \in Workers \ {w} : work'[v] = work[v]
  BY OneGoes DEF At
<1>2. work[w] \in WorkType /\ Fits(work[w]) /\ work[w].item \in Items
  BY WorkerFields
<1>3. /\ work[w].row \in 0..Len(row) /\ work[w].sig \in 0..Len(memo)
      /\ work[w].memo \in 0..Len(memo) /\ work[w].retry \in 0..Retries
  BY <1>2, WorkFields
<1>4. Len(row) \in Nat /\ Len(memo) \in Nat /\ Len(row') \in Nat /\ Len(memo') \in Nat
  BY Lengths DEF RowsOK, Sound
<1>5. /\ work[w].row \in 0..Len(row') /\ work[w].sig \in 0..Len(memo')
      /\ work[w].memo \in 0..Len(memo')
  BY <1>3, <1>4 DEF Keeps
<1>6. /\ work'[w].at = l /\ work'[w].item = work[w].item /\ work'[w].row = work[w].row
      /\ work'[w].sig = work[w].sig /\ work'[w].memo = work[w].memo
      /\ work'[w].retry = work[w].retry
  BY <1>1, <1>2 DEF WorkType
<1>7. work'[w] \in WorkType'
  BY <1>1, <1>2, <1>3, <1>5 DEF WorkType
<1>8. Fits(work[w])'
  <2>1. /\ work[w].row # 0 => row'[work[w].row].item = work[w].item
        /\ work[w].sig # 0 => memo'[work[w].sig].item = work[w].item
        /\ work[w].memo # 0 => memo'[work[w].memo].item = work[w].item
    BY <1>2, <1>3, <1>4 DEF Fits, Keeps
  <2>2. QED
    BY <1>2, <1>6, <2>1, ConstantsAssumption DEF Fits
<1>9. ASSUME NEW v \in Workers
      PROVE  work'[v] = work[v] \/ (work'[v] \in WorkType' /\ Fits(work[v])')
  <2>1. CASE v = w
    BY <1>7, <1>8, <2>1
  <2>2. CASE v # w
    BY <1>1, <2>2
  <2>3. QED
    BY <2>1, <2>2
<1>10. QED
  BY <1>1, <1>9, StepSound

\* The status of the row at hand is set.
LEMMA SetRowKeeps ==
    ASSUME Sound, NEW w \in Workers, work[w].row # 0,
           NEW status \in {"processing", "failed", "success"}, SetRow(w, status), UNCHANGED memo,
           processing' \in [Servers -> SUBSET (1..Len(row))]
    PROVE  RowsOK' /\ Keeps
<1>1. work[w].row \in 1..Len(row)
  <2>1. work[w].row \in 0..Len(row) /\ Len(row) \in Nat
    BY WorkerFields, WorkFields, Lengths DEF Sound
  <2>2. QED
    BY <2>1
<1>2. row \in Seq(RowType) /\ RowType' = RowType
  BY DEF Sound, TypeOK, RowType
<1> DEFINE n == work[w].row
           e == [row[n] EXCEPT !.status = status]
<1>3. row[n] \in RowType
  BY <1>1, RowFields DEF Sound
<1>4. e \in RowType /\ e.item = row[n].item /\ e.sig = row[n].sig
  BY <1>3 DEF RowType
<1>5. row' = [row EXCEPT ![n] = e]
  BY DEF SetRow
<1> HIDE DEF e, n
<1>6. /\ row' \in Seq(RowType) /\ Len(row') = Len(row)
      /\ \A k \in 1..Len(row) : row'[k] = IF k = n THEN e ELSE row[k]
  BY <1>1, <1>2, <1>4, <1>5, ExceptSeq DEF n
<1>7. Len(row) \in Nat /\ Len(memo) \in Nat
  BY Lengths DEF Sound
<1>8. \A k \in 1..Len(row) : row'[k].item = row[k].item /\ row'[k].sig = row[k].sig
  BY <1>4, <1>6
<1>9. Keeps
  BY <1>6, <1>7, <1>8 DEF Keeps
<1>10. RowsOK'
  BY <1>2, <1>6, <1>7, <1>8, Parts DEF RowsOK
<1>11. QED
  BY <1>9, <1>10

\* The row at hand leaves the set of the process.
LEMMA ForgetType ==
    ASSUME Sound, NEW w \in Workers, Forget(w)
    PROVE  processing' \in [Servers -> SUBSET (1..Len(row))]
<1>1. Home[w] \in Servers
  BY ConstantsAssumption
<1>2. processing \in [Servers -> SUBSET (1..Len(row))]
  BY DEF Sound, TypeOK
<1>3. QED
  BY <1>1, <1>2 DEF Forget

-----------------------------------------------------------------------------
(* Types and links: each step *)

LEMMA QueueSound ==
    ASSUME Sound,
           \/ \E S \in SUBSET Items : AddToQueue(S)
           \/ \E i \in Items : Expire(i)
           \/ \E i \in Items, gone \in BOOLEAN : GiveBack(i, gone)
    PROVE  Sound'
<1>1. UNCHANGED <<row, memo, processing, work>>
  BY DEF AddToQueue, Expire, GiveBack
<1>2. RowsOK' /\ Keeps
  BY <1>1, SameRows
<1>3. /\ job \in [Items -> JobType] /\ RestOK
      /\ \A i \in Items : job[i] \in JobType
  BY Parts DEF RestOK
<1>4. RestOK' /\ Counted'
  <2>1. ASSUME NEW S \in SUBSET Items, AddToQueue(S)
        PROVE  RestOK' /\ Counted'
    <3>1. \A i \in Items : job'[i] = IF i \in S THEN Added(job[i]) ELSE job[i]
      BY <2>1 DEF AddToQueue
    <3>2. /\ [NoJob EXCEPT !.at = "waiting"] \in JobType
          /\ [NoJob EXCEPT !.at = "waiting"].owner = "none"
          /\ [NoJob EXCEPT !.at = "waiting"].attempts = 0
      BY ConstantsAssumption DEF NoJob, JobType
    <3>3. \A i \in Items : job'[i] = job[i] \/ job'[i] = [NoJob EXCEPT !.at = "waiting"]
      BY <3>1 DEF Added
    <3>4. job' \in [Items -> JobType]
      <4>1. job' = [i \in Items |-> IF i \in S THEN Added(job[i]) ELSE job[i]]
        BY <2>1 DEF AddToQueue
      <4>2. \A i \in Items : job'[i] \in JobType
        BY <1>3, <3>2, <3>3
      <4>3. QED
        BY <4>1, <4>2
    <3>5. Counted'
      <4>1. Attempts \in Nat /\ Attempts > 0
        BY ConstantsAssumption
      <4>2. ASSUME NEW i \in Items
            PROVE  /\ job'[i].owner # "none" => job'[i].at = "active"
                   /\ job'[i].at \in {"waiting", "active"} => job'[i].attempts < Attempts
        BY <3>2, <3>3, <4>1 DEF Counted, Sound
      <4>3. QED
        BY <4>2 DEF Counted
    <3>6. RestOK'
      BY <1>3, <2>1, <3>4, ConstantsAssumption DEF RestOK, AddToQueue, history
    <3>7. QED
      BY <3>5, <3>6
  <2>2. ASSUME NEW i \in Items, Expire(i)
        PROVE  RestOK' /\ Counted'
    BY <1>3, <2>2 DEF Expire, RestOK, Counted, Sound, bounds, history
  <2>3. ASSUME NEW i \in Items, NEW gone \in BOOLEAN, GiveBack(i, gone)
        PROVE  RestOK' /\ Counted'
    <3>1. PICK at \in {"waiting", "failed"} :
            job' = [job EXCEPT ![i] = [@ EXCEPT !.at = at, !.owner = "none", !.stalled = 1]]
      BY <2>3 DEF GiveBack
    <3> DEFINE new == [job[i] EXCEPT !.at = at, !.owner = "none", !.stalled = 1]
    <3>a. job[i] \in JobType
      BY <1>3
    <3>2. new \in JobType /\ new.owner = "none" /\ new.attempts = job[i].attempts /\ new.at = at
      <4>1. at \in {"none", "waiting", "active", "failed"} /\ 1 \in 0..1
        OBVIOUS
      <4>2. new \in JobType
        BY <3>a, <4>1 DEF JobType
      <4>3. new.owner = "none" /\ new.at = at
        BY <3>a DEF JobType
      <4>4. new.attempts = job[i].attempts
        BY <3>a DEF JobType
      <4>5. QED
        BY <4>2, <4>3, <4>4
    <3> HIDE DEF new
    <3>3. job' = [job EXCEPT ![i] = new]
      BY <3>1 DEF new
    <3>4. job' \in [Items -> JobType]
      BY <1>3, <3>2, <3>3
    <3>5. job[i].at = "active"
      BY <2>3 DEF GiveBack
    <3>6. Counted'
      BY <1>3, <3>2, <3>3, <3>5 DEF Counted, Sound
    <3>7. faults' \in Nat
      <4>1. faults' = faults \/ faults' = faults + 1
        BY <2>3 DEF GiveBack, Faulty
      <4>2. QED
        BY <1>3, <4>1 DEF RestOK
    <3>8. RestOK'
      BY <1>3, <2>3, <3>4, <3>7 DEF RestOK, GiveBack, history
    <3>9. QED
      BY <3>6, <3>8
  <2>4. QED
    BY <2>1, <2>2, <2>3
<1>5. work' = [v \in Workers |-> work'[v]]
  BY <1>1 DEF Sound, TypeOK
<1>6. \A v \in Workers : work'[v] = work[v]
  BY <1>1
<1>7. QED
  BY <1>2, <1>4, <1>5, <1>6, StepSound

LEMMA IdleFields ==
    ASSUME TypeOK
    PROVE  /\ Idle \in WorkType
           /\ Idle.at = "idle" /\ Idle.item = "none" /\ Idle.retry = 0
           /\ Idle.row = 0 /\ Idle.sig = 0 /\ Idle.memo = 0
<1>1. Len(row) \in Nat /\ Len(memo) \in Nat /\ Retries \in Nat
  BY Lengths, ConstantsAssumption
<1>2. QED
  BY <1>1 DEF Idle, WorkType, Labels

\* A worker begins anew.
LEMMA IdleSound ==
    ASSUME Sound, RestOK', RowsOK', Counted', Keeps, NEW w \in Workers, Goes(w, Idle)
    PROVE  Sound'
<1>1. /\ work'[w] = Idle /\ work' = [v \in Workers |-> work'[v]]
      /\ \A v \in Workers \ {w} : work'[v] = work[v]
  BY OneGoes
<1>2. Idle \in WorkType'
  <2>1. Len(row') \in Nat /\ Len(memo') \in Nat /\ Retries \in Nat
    BY ConstantsAssumption DEF RowsOK
  <2>2. QED
    BY <2>1 DEF Idle, WorkType, Labels
<1>3. Fits(work[w])'
  BY <1>1 DEF Fits, Idle
<1>4. \A v \in Workers : work'[v] = work[v] \/ (work'[v] \in WorkType' /\ Fits(work[v])')
  BY <1>1, <1>2, <1>3
<1>5. QED
  BY <1>1, <1>4, StepSound

LEMMA TakeSound ==
    ASSUME Sound, NEW w \in Workers, NEW i \in Items, Take(w, i)
    PROVE  Sound'
<1> DEFINE x == [Idle EXCEPT !.at = "acquire", !.item = i, !.retry = Retries]
<1>1. RowsOK' /\ Keeps
  BY SameRows DEF Take
<1>2. job[i] \in JobType /\ job[i].at = "waiting" /\ job \in [Items -> JobType]
  BY Parts DEF RestOK, Take
<1>3. RestOK' /\ Counted'
  <2> DEFINE new == [job[i] EXCEPT !.at = "active", !.owner = w]
  <2>1. new \in JobType
    BY <1>2 DEF JobType
  <2>2. new.at = "active" /\ new.attempts = job[i].attempts
    BY <1>2 DEF JobType
  <2>3. job' = [job EXCEPT ![i] = new]
    BY DEF Take
  <2> HIDE DEF new
  <2>4. job' \in [Items -> JobType]
    BY <1>2, <2>1, <2>3
  <2>5. Counted'
    BY <1>2, <2>2, <2>3 DEF Counted, Sound
  <2>6. RestOK'
    BY <2>4, Parts DEF RestOK, Take, bounds, history
  <2>7. QED
    BY <2>5, <2>6
<1>4. work'[w] = x /\ work' = [v \in Workers |-> work'[v]] /\ \A v \in Workers \ {w} : work'[v] = work[v]
  BY OneGoes DEF Take
<1>5. x \in WorkType
  <2>1. /\ Idle \in WorkType /\ "acquire" \in Labels
        /\ i \in Items \cup {"none"} /\ Retries \in 0..Retries
    BY IdleFields, ConstantsAssumption DEF Sound, Labels
  <2>2. QED
    BY <2>1 DEF WorkType
<1>6. x.at = "acquire" /\ x.item = i /\ x.row = 0 /\ x.sig = 0 /\ x.memo = 0
  <2>1. Idle \in WorkType /\ Idle.row = 0 /\ Idle.sig = 0 /\ Idle.memo = 0
    BY IdleFields DEF Sound
  <2>2. QED
    BY <2>1 DEF WorkType
<1>7. WorkType' = WorkType
  BY DEF Take, WorkType
<1>8. Fits(work[w])'
  <2> HIDE DEF x
  <2> QED
    BY <1>4, <1>6, ConstantsAssumption DEF Fits
<1>9. \A v \in Workers : work'[v] = work[v] \/ (work'[v] \in WorkType' /\ Fits(work[v])')
  BY <1>4, <1>5, <1>7, <1>8
<1>10. QED
  BY <1>1, <1>3, <1>4, <1>9, StepSound

LEMMA AcquireSound ==
    ASSUME Sound, NEW w \in Workers, Acquire(w)
    PROVE  Sound'
<1>1. RowsOK' /\ Keeps /\ Counted'
  BY SameRows DEF Acquire, Counted, Sound
<1>2. work[w].at = "acquire" /\ work[w].item \in Items
  BY WorkerFields DEF Acquire
<1>3. lock' \in [Items -> Workers \cup {"none", "lost"}]
  BY Parts DEF RestOK, Acquire
<1>4. doubled' \subseteq Items
  BY <1>2, Parts DEF RestOK, Acquire
<1>5. RestOK'
  BY <1>3, <1>4, Parts DEF RestOK, Acquire, bounds
<1>6. CASE At(w, "find")
  BY <1>1, <1>2, <1>5, <1>6, AtSound DEF Labels
<1>7. CASE At(w, "reject")
  BY <1>1, <1>2, <1>5, <1>7, AtSound DEF Labels
<1>8. QED
  BY <1>6, <1>7 DEF Acquire

LEMMA FinishSound ==
    ASSUME Sound, NEW w \in Workers, Finish(w)
    PROVE  Sound'
<1> DEFINE i == work[w].item
           n == job[i].attempts + 1
<1>1. RowsOK' /\ Keeps
  BY SameRows DEF Finish
<1>2. i \in Items
  BY WorkerFields DEF Finish
<1>3. job \in [Items -> JobType] /\ job[i] \in JobType /\ job[i].attempts \in 0..Attempts
      /\ job[i].at \in {"none", "waiting", "active", "failed"}
  BY <1>2, Parts DEF RestOK, JobType
<1>4. Attempts \in Nat
  BY ConstantsAssumption
<1>5. job' \in [Items -> JobType] /\ Counted'
  <2>1. CASE job' = job
    BY <1>3, <2>1 DEF Counted, Sound
  <2>2. CASE job[i].owner = w /\ work[w].at = "resolve" /\ job' = [job EXCEPT ![i] = NoJob]
    <3>1. NoJob \in JobType /\ NoJob.at = "none" /\ NoJob.owner = "none"
      BY <1>4 DEF NoJob, JobType
    <3>2. QED
      BY <1>3, <2>2, <3>1 DEF Counted, Sound
  <2>3. ASSUME job[i].owner = w, NEW at \in {"waiting", "failed"}, at = "waiting" => n < Attempts,
               job' = [job EXCEPT ![i] = [@ EXCEPT !.at = at, !.owner = "none", !.attempts = n]]
        PROVE  job' \in [Items -> JobType] /\ Counted'
    <3> DEFINE new == [job[i] EXCEPT !.at = at, !.owner = "none", !.attempts = n]
    <3>1. job[i].at = "active" /\ job[i].attempts < Attempts
      <4>1. job[i].owner # "none"
        BY <2>3, ConstantsAssumption
      <4>2. QED
        BY <1>2, <4>1 DEF Counted, Sound
    <3>2. n \in 0..Attempts
      BY <1>3, <1>4, <3>1
    <3>3. new \in JobType
      BY <1>3, <3>2 DEF JobType
    <3>4. new.at = at /\ new.owner = "none"
      BY <1>3 DEF JobType
    <3>5. new.attempts = n
      BY <1>3 DEF JobType
    <3>6. job' = [job EXCEPT ![i] = new]
      BY <2>3
    <3> HIDE DEF new
    <3>7. job' \in [Items -> JobType]
      BY <1>3, <3>3, <3>6
    <3>8. Counted'
      BY <1>3, <2>3, <3>4, <3>5, <3>6 DEF Counted, Sound
    <3>9. QED
      BY <3>7, <3>8
  <2>4. QED
    <3>1. \/ job' = job
          \/ job[i].owner = w /\ work[w].at = "resolve" /\ job' = [job EXCEPT ![i] = NoJob]
          \/ /\ job[i].owner = w
             /\ job' = [job EXCEPT ![i] = [@ EXCEPT !.at = IF n < Attempts THEN "waiting" ELSE "failed",
                                                    !.owner = "none", !.attempts = n]]
      BY DEF Finish
    <3>2. CASE /\ job[i].owner = w
               /\ job' = [job EXCEPT ![i] = [@ EXCEPT !.at = IF n < Attempts THEN "waiting" ELSE "failed",
                                                      !.owner = "none", !.attempts = n]]
      <4> DEFINE at == IF n < Attempts THEN "waiting" ELSE "failed"
      <4>1. at \in {"waiting", "failed"} /\ (at = "waiting" => n < Attempts)
        OBVIOUS
      <4>2. job' = [job EXCEPT ![i] = [@ EXCEPT !.at = at, !.owner = "none", !.attempts = n]]
        BY <3>2
      <4> HIDE DEF at, n
      <4>3. QED
        BY <2>3, <3>2, <4>1, <4>2
    <3>3. QED
      BY <2>1, <2>2, <3>1, <3>2
<1>6. RestOK'
  BY <1>5, Parts DEF RestOK, Finish, bounds, history
<1>7. QED
  BY <1>1, <1>5, <1>6, IdleSound DEF Finish

\* What fits a worker after a step.
FitsNext(x) ==
    /\ x.at = "idle" <=> x.item = "none"
    /\ x.row # 0 => row'[x.row].item = x.item
    /\ x.sig # 0 => x.row # 0 /\ memo'[x.sig].item = x.item
    /\ x.memo # 0 => memo'[x.memo].item = x.item
    /\ x.at \in {"lookup", "broadcast", "rpc", "save", "confirm", "fail"} => x.row # 0
    /\ x.at \in {"save", "confirm"} => x.sig # 0
    /\ x.at = "rpc" => x.memo # 0
    /\ x.at = "acquire" => x.row = 0

LEMMA WorkerSound ==
    ASSUME Sound, RestOK', RowsOK', Counted', Keeps, NEW w \in Workers,
           NEW x, Goes(w, x), x \in WorkType', FitsNext(x)
    PROVE  Sound'
<1>1. /\ work'[w] = x /\ work' = [v \in Workers |-> work'[v]]
      /\ \A v \in Workers \ {w} : work'[v] = work[v]
  BY OneGoes
<1>2. Fits(work[w])'
  BY <1>1 DEF Fits, FitsNext
<1>3. \A v \in Workers : work'[v] = work[v] \/ (work'[v] \in WorkType' /\ Fits(work[v])')
  BY <1>1, <1>2
<1>4. QED
  BY <1>1, <1>3, StepSound

\* What the worker has at hand.
LEMMA AtHand ==
    ASSUME Sound, NEW w \in Workers, work[w].at # "idle"
    PROVE  /\ work[w] \in WorkType /\ Fits(work[w]) /\ work[w].item \in Items
           /\ work[w].row \in 0..Len(row) /\ work[w].sig \in 0..Len(memo)
           /\ work[w].memo \in 0..Len(memo) /\ work[w].retry \in 0..Retries
           /\ Len(row) \in Nat /\ Len(memo) \in Nat
           /\ work[w].row # 0 => work[w].row \in 1..Len(row) /\ row[work[w].row].item = work[w].item
           /\ work[w].sig # 0 => work[w].sig \in 1..Len(memo) /\ memo[work[w].sig].item = work[w].item
           /\ work[w].memo # 0 => work[w].memo \in 1..Len(memo) /\ memo[work[w].memo].item = work[w].item
<1>1. work[w] \in WorkType /\ Fits(work[w]) /\ work[w].item \in Items
  BY WorkerFields
<1>2. /\ work[w].row \in 0..Len(row) /\ work[w].sig \in 0..Len(memo)
      /\ work[w].memo \in 0..Len(memo) /\ work[w].retry \in 0..Retries
  BY <1>1, WorkFields
<1>3. Len(row) \in Nat /\ Len(memo) \in Nat
  BY Lengths DEF Sound
<1>4. QED
  BY <1>1, <1>2, <1>3 DEF Fits

LEMMA SucceedSound ==
    ASSUME Sound, NEW w \in Workers, work[w].at # "idle", work[w].row # 0, Succeed(w),
           UNCHANGED memo, RestOK', Counted'
    PROVE  Sound'
<1>1. RowsOK' /\ Keeps
  BY SetRowKeeps, ForgetType DEF Succeed
<1>2. QED
  BY <1>1, AtSound DEF Succeed, Labels

\* The next try keeps the item alone.
LEMMA AgainSound ==
    ASSUME Sound, NEW w \in Workers, work[w].at # "idle", work[w].retry > 0, Again(w),
           UNCHANGED <<row, memo, processing>>, RestOK', Counted'
    PROVE  Sound'
<1> DEFINE x == [Idle EXCEPT !.at = "find", !.item = work[w].item, !.retry = work[w].retry - 1]
<1>1. RowsOK' /\ Keeps
  BY SameRows
<1>2. work[w].item \in Items /\ work[w].retry \in 0..Retries /\ Retries \in Nat
  BY AtHand, ConstantsAssumption
<1>3. x \in WorkType
  <2>1. /\ Idle \in WorkType /\ "find" \in Labels
        /\ work[w].item \in Items \cup {"none"} /\ work[w].retry - 1 \in 0..Retries
    BY <1>2, IdleFields DEF Sound, Labels
  <2>2. QED
    BY <2>1 DEF WorkType
<1>4. WorkType' = WorkType
  BY DEF WorkType
<1>5. x.at = "find" /\ x.item = work[w].item /\ x.row = 0 /\ x.sig = 0 /\ x.memo = 0
  <2>1. Idle \in WorkType /\ Idle.row = 0 /\ Idle.sig = 0 /\ Idle.memo = 0
    BY IdleFields DEF Sound
  <2>2. QED
    BY <2>1 DEF WorkType
<1>6. Goes(w, x)
  BY DEF Again
<1> HIDE DEF x
<1>7. FitsNext(x)
  BY <1>2, <1>5, ConstantsAssumption DEF FitsNext
<1>8. QED
  BY <1>1, <1>3, <1>4, <1>6, <1>7, WorkerSound

LEMMA FindSound ==
    ASSUME Sound, NEW w \in Workers, Find(w)
    PROVE  Sound'
<1> DEFINE i == work[w].item
           n == FindOne(i)
           takes == n # 0 /\ row[n].sig = 0 /\ row[n].status = "failed"
           sig == IF n = 0 THEN 0 ELSE row[n].sig
           at == IF n = 0 THEN "create"
                 ELSE IF row[n].status = "success" THEN "resolve"
                 ELSE IF row[n].sig # 0 THEN "lookup"
                 ELSE IF takes \/ Owns(w, n) THEN "broadcast" ELSE "reject"
           x == [work[w] EXCEPT !.row = n, !.sig = sig, !.at = at]
<1>1. work[w].at # "idle"
  BY DEF Find
<1>2. /\ work[w] \in WorkType /\ Fits(work[w]) /\ i \in Items
      /\ work[w].memo \in 0..Len(memo) /\ Len(row) \in Nat /\ Len(memo) \in Nat
  BY <1>1, AtHand
<1>3. n \in 0..Len(row) /\ (n # 0 => n \in 1..Len(row) /\ row[n].item = i)
  <2>1. CASE RowsOf(i) = {}
    BY <1>2, <2>1 DEF FindOne
  <2>2. CASE RowsOf(i) # {}
    <3>1. FindOne(i) \in RowsOf(i)
      BY <1>2, <2>2, FindOneFirst DEF Sound
    <3>2. QED
      BY <1>2, <3>1 DEF RowsOf
  <2>3. QED
    BY <2>1, <2>2
<1>4. /\ sig \in 0..Len(memo)
      /\ sig # 0 => n # 0 /\ memo[sig].item = i
  <2>1. CASE n = 0
    BY <1>2, <2>1
  <2>2. CASE n # 0
    <3>1. row[n].sig \in 0..Len(memo) /\ (row[n].sig # 0 => memo[row[n].sig].item = row[n].item)
      BY <1>3, <2>2, RowFields DEF Sound, Linked
    <3>2. QED
      BY <1>3, <2>2, <3>1
  <2>3. QED
    BY <2>1, <2>2
<1>5. /\ at \in Labels /\ at \notin {"idle", "acquire", "save", "confirm", "rpc", "fail"}
      /\ at \in {"lookup", "broadcast"} => n # 0
  BY DEF Labels
<1>6. Goes(w, x)
  BY DEF Find
<1>7. processing' \in [Servers -> SUBSET (1..Len(row))]
  <2>1. processing \in [Servers -> SUBSET (1..Len(row))] /\ Home[w] \in Servers
    BY ConstantsAssumption DEF Sound, TypeOK
  <2>2. CASE takes
    <3>1. processing' = [processing EXCEPT ![Home[w]] = @ \cup {n}] /\ n \in 1..Len(row)
      BY <1>3, <2>2 DEF Find
    <3> HIDE DEF n
    <3>2. QED
      BY <2>1, <3>1
  <2>3. CASE ~takes
    <3>1. processing' = processing
      BY <2>3 DEF Find
    <3>2. QED
      BY <2>1, <3>1
  <2>4. QED
    BY <2>2, <2>3
<1>8. UNCHANGED <<row, memo>>
  BY DEF Find
<1> HIDE DEF n, sig, at
<1>9. x \in WorkType
  BY <1>2, <1>3, <1>4, <1>5 DEF WorkType
<1>10. x.row = n /\ x.sig = sig /\ x.at = at /\ x.item = i /\ x.memo = work[w].memo
  BY <1>2 DEF WorkType
<1>11. WorkType' = WorkType
  BY <1>8 DEF WorkType
<1> HIDE DEF x
<1>12. FitsNext(x)
  BY <1>2, <1>3, <1>4, <1>5, <1>8, <1>10, ConstantsAssumption DEF FitsNext, Fits
<1>13. RowsOK' /\ Keeps
  <2>1. RowType' = RowType
    BY <1>8 DEF RowType
  <2>2. QED
    BY <1>2, <1>7, <1>8, <2>1, Parts DEF RowsOK, Keeps
<1>14. RestOK' /\ Counted'
  BY Parts DEF RestOK, Counted, Sound, Find, bounds, history
<1>15. QED
  BY <1>6, <1>9, <1>11, <1>12, <1>13, <1>14, WorkerSound

LEMMA CreateSound ==
    ASSUME Sound, NEW w \in Workers, Create(w)
    PROVE  Sound'
<1> DEFINE n == Len(row) + 1
           new == [item |-> work[w].item, status |-> "processing", sig |-> 0]
           x == [work[w] EXCEPT !.at = "broadcast", !.row = n]
<1>1. /\ work[w] \in WorkType /\ Fits(work[w]) /\ work[w].item \in Items
      /\ work[w].sig \in 0..Len(memo) /\ work[w].memo \in 0..Len(memo)
      /\ Len(row) \in Nat /\ Len(memo) \in Nat
  BY AtHand DEF Create
<1>2. row' = Append(row, new) /\ UNCHANGED memo
  BY DEF Create
<1>3. row \in Seq(RowType) /\ RowType' = RowType
  BY <1>2 DEF Sound, TypeOK, RowType
<1>4. new \in RowType /\ new.item = work[w].item /\ new.sig = 0
  BY <1>1 DEF RowType
<1> HIDE DEF new
<1>5. /\ row' \in Seq(RowType) /\ Len(row') = n
      /\ \A k \in 1..Len(row) : row'[k] = row[k]
      /\ row'[n] = new
  BY <1>2, <1>3, <1>4, AppendProperties
<1>6. processing' \in [Servers -> SUBSET (1..Len(row'))]
  <2>1. processing \in [Servers -> SUBSET (1..Len(row))] /\ Home[w] \in Servers
    BY ConstantsAssumption DEF Sound, TypeOK
  <2>2. processing' = [processing EXCEPT ![Home[w]] = @ \cup {n}]
    BY DEF Create
  <2>3. n \in 1..n /\ (1..Len(row)) \subseteq 1..n
    BY <1>1
  <2> HIDE DEF n
  <2>4. QED
    BY <1>5, <2>1, <2>2, <2>3
<1>7. Keeps
  BY <1>1, <1>2, <1>5 DEF Keeps
<1>8. RowsOK'
  <2>1. ASSUME NEW k \in 1..n, row'[k].sig # 0
        PROVE  memo'[row'[k].sig].item = row'[k].item
    BY <1>1, <1>2, <1>4, <1>5, <2>1, Parts DEF RowsOK
  <2>2. memo' \in Seq(MemoType)
    BY <1>2 DEF Sound, TypeOK
  <2> HIDE DEF n
  <2>3. QED
    BY <1>3, <1>5, <1>6, <2>1, <2>2 DEF RowsOK
<1>9. RestOK' /\ Counted'
  BY Parts DEF RestOK, Counted, Sound, Create, bounds, history
<1>10. Goes(w, x)
  BY DEF Create
<1>11. x \in WorkType'
  <2>1. /\ "broadcast" \in Labels /\ n \in 0..Len(row')
        /\ work[w].sig \in 0..Len(memo') /\ work[w].memo \in 0..Len(memo')
    BY <1>1, <1>2, <1>5 DEF Labels
  <2> HIDE DEF n
  <2>2. QED
    BY <1>1, <2>1 DEF WorkType
<1>12. x.at = "broadcast" /\ x.item = work[w].item /\ x.row = n /\ x.sig = work[w].sig /\ x.memo = work[w].memo
  BY <1>1 DEF WorkType
<1>13. n # 0
  BY <1>1
<1> HIDE DEF x, n
<1>14. FitsNext(x)
  BY <1>1, <1>2, <1>4, <1>5, <1>12, <1>13, ConstantsAssumption DEF FitsNext, Fits
<1>15. QED
  BY <1>7, <1>8, <1>9, <1>10, <1>11, <1>14, WorkerSound

\* What a look-up in vain changes.
LEMMA DoubtsType ==
    ASSUME Sound, NEW w \in Workers, work[w].at # "idle", Doubts(w) \/ UNCHANGED unsure,
           Misses(w) \/ UNCHANGED faults, UNCHANGED <<job, lock, adds, doubled, orphaned, spent, unsaved>>
    PROVE  RestOK' /\ Counted'
<1>1. work[w].item \in Items /\ RestOK
  BY AtHand, Parts
<1>2. unsure' \subseteq Items
  BY <1>1 DEF Doubts, RestOK
<1>3. faults' \in Nat
  <2>1. faults' = faults \/ faults' = faults + 1
    BY DEF Misses, Faulty
  <2>2. QED
    BY <1>1, <2>1 DEF RestOK
<1>4. QED
  BY <1>1, <1>2, <1>3 DEF RestOK, Counted, Sound

LEMMA LookupSound ==
    ASSUME Sound, NEW w \in Workers, Lookup(w)
    PROVE  Sound'
<1>1. work[w].at = "lookup" /\ work[w].row # 0
  BY AtHand DEF Lookup, Fits
<1>2. CASE Finds(w) /\ Succeed(w) /\ UNCHANGED unsure
  <2>1. RestOK' /\ Counted'
    BY <1>1, <1>2, DoubtsType DEF Lookup, Finds
  <2>2. QED
    BY <1>1, <1>2, <2>1, SucceedSound DEF Lookup
<1>3. CASE /\ Misses(w)
           /\ IF Owns(w, work[w].row) THEN At(w, "broadcast") /\ Doubts(w)
                                      ELSE At(w, "reject") /\ UNCHANGED unsure
           /\ UNCHANGED <<row, processing>>
  <2>1. RestOK' /\ Counted'
    BY <1>1, <1>3, DoubtsType DEF Lookup
  <2>2. RowsOK' /\ Keeps
    BY <1>3, SameRows DEF Lookup
  <2>3. CASE At(w, "broadcast")
    BY <1>1, <2>1, <2>2, <2>3, AtSound DEF Labels
  <2>4. CASE At(w, "reject")
    BY <1>1, <2>1, <2>2, <2>4, AtSound DEF Labels
  <2>5. QED
    BY <1>3, <2>3, <2>4
<1>4. QED
  BY <1>2, <1>3 DEF Lookup

LEMMA BroadcastSound ==
    ASSUME Sound, NEW w \in Workers, Broadcast(w)
    PROVE  Sound'
<1> DEFINE n == Len(memo) + 1
           new == [item |-> work[w].item, at |-> "pending"]
           x == [work[w] EXCEPT !.at = "rpc", !.memo = n]
<1>1. /\ work[w] \in WorkType /\ Fits(work[w]) /\ work[w].item \in Items
      /\ work[w].sig \in 0..Len(memo) /\ work[w].row \in 0..Len(row) /\ work[w].row # 0
      /\ Len(row) \in Nat /\ Len(memo) \in Nat
  BY AtHand DEF Broadcast, Fits
<1>2. memo' = Append(memo, new) /\ UNCHANGED <<row, processing>>
  BY DEF Broadcast
<1>3. memo \in Seq(MemoType) /\ row \in Seq(RowType)
  BY DEF Sound, TypeOK
<1>4. new \in MemoType /\ new.item = work[w].item
  BY <1>1 DEF MemoType
<1> HIDE DEF new
<1>5. /\ memo' \in Seq(MemoType) /\ Len(memo') = n
      /\ \A k \in 1..Len(memo) : memo'[k] = memo[k]
      /\ memo'[n] = new
  BY <1>2, <1>3, <1>4, AppendProperties
<1>6. Keeps
  BY <1>1, <1>2, <1>5 DEF Keeps
<1>7. RowsOK'
  <2>1. RowType \subseteq RowType'
    <3>1. 0..Len(memo) \subseteq 0..Len(memo')
      BY <1>1, <1>5
    <3>2. QED
      BY <3>1 DEF RowType
  <2>2. row' \in Seq(RowType')
    <3>1. \A k \in 1..Len(row) : row[k] \in RowType'
      BY <1>3, <2>1
    <3>2. row = [k \in 1..Len(row) |-> row[k]]
      BY <1>3
    <3>3. QED
      BY <1>1, <1>2, <3>1, <3>2
  <2>3. ASSUME NEW k \in 1..Len(row'), row'[k].sig # 0
        PROVE  memo'[row'[k].sig].item = row'[k].item
    <3>1. row[k].sig \in 1..Len(memo)
      <4>1. row[k].sig \in 0..Len(memo) /\ row[k].sig # 0
        BY <1>2, <2>3, RowFields DEF Sound
      <4>2. QED
        BY <4>1, <1>1
    <3>2. memo[row[k].sig].item = row[k].item
      BY <1>2, <2>3, Parts DEF RowsOK
    <3>3. QED
      BY <1>2, <1>5, <3>1, <3>2
  <2>4. processing' \in [Servers -> SUBSET (1..Len(row'))]
    BY <1>2 DEF Sound, TypeOK
  <2>5. QED
    BY <1>5, <2>2, <2>3, <2>4 DEF RowsOK
<1>8. RestOK' /\ Counted'
  BY Parts DEF RestOK, Counted, Sound, Broadcast, bounds, history
<1>9. Goes(w, x)
  BY DEF Broadcast
<1>10. x \in WorkType'
  <2>1. /\ "rpc" \in Labels /\ n \in 0..Len(memo')
        /\ work[w].sig \in 0..Len(memo') /\ work[w].row \in 0..Len(row')
    BY <1>1, <1>2, <1>5 DEF Labels
  <2> HIDE DEF n
  <2>2. QED
    BY <1>1, <2>1 DEF WorkType
<1>11. x.at = "rpc" /\ x.item = work[w].item /\ x.row = work[w].row /\ x.sig = work[w].sig /\ x.memo = n
  BY <1>1 DEF WorkType
<1>12. n # 0 /\ (work[w].sig # 0 => memo'[work[w].sig] = memo[work[w].sig])
  BY <1>1, <1>5
<1> HIDE DEF x, n
<1>13. FitsNext(x)
  BY <1>1, <1>2, <1>4, <1>5, <1>11, <1>12, ConstantsAssumption DEF FitsNext, Fits
<1>14. QED
  BY <1>6, <1>7, <1>8, <1>9, <1>10, <1>13, WorkerSound

\* The call that sends a memo is over: its signature is known, or perhaps not.
LEMMA RpcSound ==
    ASSUME Sound, NEW w \in Workers, RpcReturns(w) \/ \E named \in BOOLEAN : RpcThrows(w, named)
    PROVE  Sound'
<1>1. /\ work[w] \in WorkType /\ Fits(work[w]) /\ work[w].item \in Items /\ work[w].at = "rpc"
      /\ work[w].sig \in 0..Len(memo) /\ work[w].row \in 0..Len(row) /\ work[w].row # 0
      /\ work[w].memo \in 0..Len(memo) /\ work[w].memo # 0
  BY AtHand DEF RpcReturns, RpcThrows, Fits
<1>2. UNCHANGED <<row, memo, processing>>
  BY DEF RpcReturns, RpcThrows
<1>3. RowsOK' /\ Keeps /\ WorkType' = WorkType
  BY <1>2, SameRows DEF WorkType
<1>4. RestOK' /\ Counted'
  <2>1. CASE RpcReturns(w)
    BY <2>1, Parts DEF RestOK, Counted, Sound, RpcReturns, bounds, history
  <2>2. ASSUME NEW named \in BOOLEAN, RpcThrows(w, named)
        PROVE  RestOK' /\ Counted'
    <3>1. faults' = faults \/ faults' = faults + 1
      BY <2>2 DEF RpcThrows, Faulty
    <3>2. unsure' \subseteq Items
      BY <1>1, <2>2, Parts DEF RpcThrows, RestOK
    <3>3. RestOK
      BY Parts
    <3>4. faults' \in Nat
      BY <3>1, <3>3 DEF RestOK
    <3>5. QED
      BY <2>2, <3>2, <3>3, <3>4 DEF RestOK, Counted, Sound, RpcThrows
  <2>3. QED
    BY <2>1, <2>2
<1>5. PICK l \in {"save", "catch"}, s \in {0, work[w].sig, work[w].memo} :
         Goes(w, [work[w] EXCEPT !.at = l, !.sig = s]) /\ (l = "save" => s = work[w].memo)
  BY DEF RpcReturns, RpcThrows
<1> DEFINE x == [work[w] EXCEPT !.at = l, !.sig = s]
<1>6. l \in Labels /\ s \in 0..Len(memo)
  BY <1>1 DEF Labels
<1>7. x \in WorkType
  BY <1>1, <1>6 DEF WorkType
<1>8. x.at = l /\ x.item = work[w].item /\ x.row = work[w].row /\ x.sig = s /\ x.memo = work[w].memo
  BY <1>1 DEF WorkType
<1> HIDE DEF x
<1>9. FitsNext(x)
  BY <1>1, <1>2, <1>5, <1>8, ConstantsAssumption DEF FitsNext, Fits
<1>10. QED
  BY <1>3, <1>4, <1>5, <1>7, <1>9, WorkerSound DEF x

LEMMA SaveSignatureSound ==
    ASSUME Sound, NEW w \in Workers, SaveSignature(w)
    PROVE  Sound'
<1> DEFINE n == work[w].row
           e == [row[n] EXCEPT !.sig = work[w].sig]
<1>1. /\ work[w].at = "save" /\ n \in 1..Len(row) /\ row[n].item = work[w].item
      /\ work[w].sig \in 1..Len(memo) /\ memo[work[w].sig].item = work[w].item
      /\ Len(row) \in Nat /\ Len(memo) \in Nat
  BY AtHand DEF SaveSignature, Fits
<1>2. row \in Seq(RowType) /\ RowType' = RowType /\ row[n] \in RowType
  BY <1>1, RowFields DEF Sound, TypeOK, RowType, SaveSignature
<1>3. e \in RowType /\ e.item = row[n].item /\ e.sig = work[w].sig
  <2>1. work[w].sig \in 0..Len(memo)
    BY <1>1
  <2>2. QED
    BY <1>2, <2>1 DEF RowType
<1>4. row' = [row EXCEPT ![n] = e] /\ UNCHANGED <<memo, processing>> /\ At(w, "confirm")
  BY DEF SaveSignature
<1> HIDE DEF e, n
<1>5. /\ row' \in Seq(RowType) /\ Len(row') = Len(row)
      /\ \A k \in 1..Len(row) : row'[k] = IF k = n THEN e ELSE row[k]
  BY <1>1, <1>2, <1>3, <1>4, ExceptSeq
<1>6. \A k \in 1..Len(row) : row'[k].item = row[k].item
  BY <1>3, <1>5
<1>7. Keeps
  BY <1>1, <1>4, <1>5, <1>6 DEF Keeps
<1>8. RowsOK'
  <2>1. \A k \in 1..Len(row') : row'[k].sig # 0 => memo'[row'[k].sig].item = row'[k].item
    BY <1>1, <1>3, <1>4, <1>5, Parts DEF RowsOK
  <2>2. QED
    BY <1>2, <1>4, <1>5, <2>1, Parts DEF RowsOK
<1>9. RestOK' /\ Counted'
  BY Parts DEF RestOK, Counted, Sound, SaveSignature, bounds, history
<1>10. work[w].row # 0 /\ work[w].sig # 0
  BY <1>1 DEF n
<1>11. QED
  BY <1>1, <1>4, <1>7, <1>8, <1>9, <1>10, AtSound DEF Labels

LEMMA ConfirmSound ==
    ASSUME Sound, NEW w \in Workers, Confirm(w)
    PROVE  Sound'
<1>1. work[w].at = "confirm" /\ work[w].row # 0
  BY AtHand DEF Confirm, Fits
<1>2. CASE OnChain(work[w].sig) /\ Succeed(w) /\ UNCHANGED <<faults, unsure>>
  <2>1. RestOK' /\ Counted'
    BY <1>1, <1>2, DoubtsType DEF Confirm
  <2>2. QED
    BY <1>1, <1>2, <2>1, SucceedSound DEF Confirm
<1>3. CASE /\ memo[work[w].sig].at = "errored" /\ Faulty
           /\ IF work[w].retry > 0 THEN Again(w) ELSE At(w, "fail")
           /\ Doubts(w)
           /\ UNCHANGED <<row, processing>>
  <2>1. RestOK' /\ Counted'
    <3>1. work[w].item \in Items /\ RestOK
      BY <1>1, AtHand, Parts
    <3>2. unsure' \subseteq Items /\ faults' \in Nat
      BY <1>3, <3>1 DEF Doubts, RestOK, Faulty
    <3>3. QED
      BY <3>1, <3>2 DEF RestOK, Counted, Sound, Confirm
  <2>2. RowsOK' /\ Keeps
    BY <1>3, SameRows DEF Confirm
  <2>3. CASE work[w].retry > 0 /\ Again(w)
    BY <1>1, <1>3, <2>1, <2>3, AgainSound DEF Confirm
  <2>4. CASE At(w, "fail")
    BY <1>1, <2>1, <2>2, <2>4, AtSound DEF Labels
  <2>5. QED
    BY <1>3, <2>3, <2>4
<1>4. CASE At(w, "catch") /\ UNCHANGED <<row, processing, faults, unsure>>
  <2>1. RestOK' /\ Counted'
    BY <1>1, <1>4, DoubtsType DEF Confirm
  <2>2. RowsOK' /\ Keeps
    BY <1>4, SameRows DEF Confirm
  <2>3. QED
    BY <1>1, <1>4, <2>1, <2>2, AtSound DEF Labels
<1>5. QED
  BY <1>2, <1>3, <1>4 DEF Confirm

LEMMA ThrowSound ==
    ASSUME Sound, NEW w \in Workers, Throw(w)
    PROVE  Sound'
<1>1. RowsOK' /\ Keeps
  BY SameRows DEF Throw
<1>2. faults' \in Nat
  BY Parts DEF Throw, Faulty, RestOK
<1>3. RestOK' /\ Counted'
  BY <1>2, Parts DEF RestOK, Counted, Sound, Throw, history
<1>4. QED
  BY <1>1, <1>3, AtSound DEF Throw, Labels

LEMMA CatchSound ==
    ASSUME Sound, NEW w \in Workers, Catch(w)
    PROVE  Sound'
<1>1. work[w].at = "catch"
  BY DEF Catch
<1>2. CASE Finds(w) /\ Succeed(w) /\ UNCHANGED unsure
  <2>1. RestOK' /\ Counted'
    BY <1>1, <1>2, DoubtsType DEF Catch, Finds
  <2>2. work[w].row # 0
    <3>1. work[w].sig # 0
      BY <1>1, <1>2, AtHand DEF Finds, OnChain
    <3>2. QED
      BY <1>1, <3>1, AtHand DEF Fits
  <2>3. QED
    BY <1>1, <1>2, <2>1, <2>2, SucceedSound DEF Catch
<1>3. CASE /\ Misses(w) /\ Doubts(w)
           /\ IF work[w].retry > 0 THEN Again(w) ELSE At(w, "abandon")
           /\ UNCHANGED <<row, processing>>
  <2>1. RestOK' /\ Counted'
    BY <1>1, <1>3, DoubtsType DEF Catch
  <2>2. RowsOK' /\ Keeps
    BY <1>3, SameRows DEF Catch
  <2>3. CASE work[w].retry > 0 /\ Again(w)
    BY <1>1, <1>3, <2>1, <2>3, AgainSound DEF Catch
  <2>4. CASE At(w, "abandon")
    BY <1>1, <2>1, <2>2, <2>4, AtSound DEF Labels
  <2>5. QED
    BY <1>3, <2>3, <2>4
<1>4. QED
  BY <1>2, <1>3 DEF Catch

\* The row fails.
LEMMA GiveUpSound ==
    ASSUME Sound, NEW w \in Workers, work[w].at # "idle", work[w].row # 0, GiveUp(w),
           At(w, "reject"), UNCHANGED <<job, lock, memo, bounds, doubled, orphaned, unsaved, unsure>>
    PROVE  Sound'
<1>1. RowsOK' /\ Keeps
  BY SetRowKeeps, ForgetType DEF GiveUp
<1>2. spent' \subseteq Items
  BY AtHand, Parts DEF GiveUp, RestOK
<1>3. RestOK' /\ Counted'
  BY <1>2, Parts DEF RestOK, Counted, Sound, bounds
<1>4. QED
  BY <1>1, <1>3, AtSound DEF Labels

LEMMA FailSound ==
    ASSUME Sound, NEW w \in Workers, Fail(w)
    PROVE  Sound'
<1>1. work[w].at = "fail" /\ work[w].row # 0
  BY AtHand DEF Fail, Fits
<1>2. QED
  BY <1>1, GiveUpSound DEF Fail

LEMMA AbandonSound ==
    ASSUME Sound, NEW w \in Workers, Abandon(w)
    PROVE  Sound'
<1>1. work[w].at = "abandon" /\ work[w].item \in Items /\ RestOK
  BY AtHand, Parts DEF Abandon
<1>2. CASE work[w].row # 0 /\ GiveUp(w) /\ UNCHANGED <<faults, unsaved>>
  BY <1>1, <1>2, GiveUpSound DEF Abandon, bounds
<1>3. CASE UNCHANGED <<row, processing, spent>> /\ (Faulty \/ UNCHANGED faults) /\ unsaved' \subseteq Items
  <2>1. RowsOK' /\ Keeps
    BY <1>3, SameRows DEF Abandon
  <2>2. faults' \in Nat
    <3>1. faults' = faults \/ faults' = faults + 1
      BY <1>3 DEF Faulty
    <3>2. QED
      BY <1>1, <3>1 DEF RestOK
  <2>3. RestOK' /\ Counted'
    BY <1>1, <1>3, <2>2 DEF RestOK, Counted, Sound, Abandon
  <2>4. QED
    BY <1>1, <2>1, <2>3, AtSound DEF Abandon, Labels
<1>4. QED
  BY <1>1, <1>2, <1>3 DEF Abandon, RestOK

LEMMA CrashSound ==
    ASSUME Sound, NEW s \in Servers, Crash(s)
    PROVE  Sound'
<1> DEFINE dead == {w \in Workers : Home[w] = s}
           resent == {w \in dead : Unrecorded(w) /\ row[work[w].row].status = "failed"}
<1>1. UNCHANGED <<row, memo>>
  BY DEF Crash
<1>2. Len(row) \in Nat /\ Len(memo) \in Nat /\ RestOK /\ processing \in [Servers -> SUBSET (1..Len(row))]
  BY Lengths, Parts DEF Sound, TypeOK
<1>3. RowsOK' /\ Keeps
  <2>1. processing' \in [Servers -> SUBSET (1..Len(row))]
    BY <1>2 DEF Crash
  <2>2. RowType' = RowType
    BY <1>1 DEF RowType
  <2>3. QED
    BY <1>1, <1>2, <2>1, <2>2, Parts DEF RowsOK, Keeps
<1>4. unsure' \subseteq Items
  <2>1. \A w \in resent : work[w].item \in Items
    BY WorkerFields DEF Unrecorded
  <2>2. unsure' = unsure \cup {work[w].item : w \in resent}
    BY DEF Crash
  <2> HIDE DEF resent
  <2>3. QED
    BY <1>2, <2>1, <2>2 DEF RestOK
<1>5. orphaned' \subseteq Items
  <2>1. \A n \in processing[s] : row[n].item \in Items
    BY <1>2, RowFields DEF Sound
  <2>2. orphaned' = orphaned \cup {row[n].item : n \in processing[s]}
    BY DEF Crash
  <2>3. QED
    BY <1>2, <2>1, <2>2 DEF RestOK
<1>6. lock' \in [Items -> Workers \cup {"none", "lost"}]
  BY <1>2 DEF Crash, RestOK
<1>7. faults' \in Nat
  BY <1>2 DEF Crash, Faulty, RestOK
<1>8. RestOK' /\ Counted'
  BY <1>2, <1>4, <1>5, <1>6, <1>7 DEF RestOK, Counted, Sound, Crash
<1>9. work' = [w \in Workers |-> IF w \in dead THEN Idle ELSE work[w]]
  BY DEF Crash
<1>10. ASSUME NEW v \in Workers
       PROVE  work'[v] = work[v] \/ (work'[v] \in WorkType' /\ Fits(work[v])')
  <2>1. CASE v \in dead
    <3>1. work'[v] = Idle
      BY <1>9, <2>1
    <3>2. Idle \in WorkType /\ WorkType' = WorkType
      BY <1>1, IdleFields DEF Sound, WorkType
    <3>3. Fits(work[v])'
      BY <3>1 DEF Fits, Idle
    <3>4. QED
      BY <3>1, <3>2, <3>3
  <2>2. CASE v \notin dead
    BY <1>9, <2>2
  <2>3. QED
    BY <2>1, <2>2
<1>11. work' = [v \in Workers |-> work'[v]]
  BY <1>9
<1>12. QED
  BY <1>3, <1>8, <1>10, <1>11, StepSound

\* A memo lands, or does not.
Settles(n, how) ==
    /\ n \in 1..Len(memo) /\ memo[n].at = "pending"
    /\ memo' = [memo EXCEPT ![n].at = how]

LEMMA SettlesMemo ==
    ASSUME Sound, NEW n, NEW how \in {"landed", "errored", "dropped"}, Settles(n, how)
    PROVE  /\ memo' \in Seq(MemoType) /\ Len(memo') = Len(memo)
           /\ \A k \in 1..Len(memo) : memo'[k].item = memo[k].item
           /\ \A k \in 1..Len(memo) : memo'[k].at = IF k = n THEN how ELSE memo[k].at
<1> DEFINE e == [memo[n] EXCEPT !.at = how]
<1>1. memo \in Seq(MemoType) /\ n \in 1..Len(memo) /\ memo[n] \in MemoType
  BY MemoFields DEF Sound, TypeOK, Settles
<1>2. e \in MemoType /\ e.item = memo[n].item /\ e.at = how
  BY <1>1 DEF MemoType
<1>3. memo' = [memo EXCEPT ![n] = e]
  BY DEF Settles
<1> HIDE DEF e
<1>4. /\ memo' \in Seq(MemoType) /\ Len(memo') = Len(memo)
      /\ \A k \in 1..Len(memo) : memo'[k] = IF k = n THEN e ELSE memo[k]
  BY <1>1, <1>2, <1>3, ExceptSeq
<1>5. QED
  BY <1>2, <1>4

LEMMA MemoSound ==
    ASSUME Sound, NEW n, NEW how \in {"landed", "errored", "dropped"}, Settles(n, how),
           UNCHANGED <<job, lock, row, processing, work, adds, history>>, Faulty \/ UNCHANGED faults
    PROVE  Sound'
<1>1. /\ memo' \in Seq(MemoType) /\ Len(memo') = Len(memo)
      /\ \A k \in 1..Len(memo) : memo'[k].item = memo[k].item
  BY SettlesMemo
<1>2. Len(row) \in Nat /\ Len(memo) \in Nat
  BY Lengths DEF Sound
<1>3. Keeps
  BY <1>1, <1>2 DEF Keeps
<1>4. RowsOK'
  <2>1. RowType' = RowType
    BY <1>1 DEF RowType
  <2>2. ASSUME NEW k \in 1..Len(row), row[k].sig # 0
        PROVE  memo'[row[k].sig].item = row[k].item
    <3>1. row[k].sig \in 1..Len(memo)
      <4>1. row[k].sig \in 0..Len(memo)
        BY RowFields DEF Sound
      <4>2. QED
        BY <1>2, <2>2, <4>1
    <3>2. QED
      BY <1>1, <2>2, <3>1, Parts DEF RowsOK
  <2>3. QED
    BY <1>1, <2>1, <2>2, Parts DEF RowsOK
<1>5. faults' \in Nat
  <2>1. faults' = faults \/ faults' = faults + 1
    BY DEF Faulty
  <2>2. QED
    BY <2>1, Parts DEF RestOK
<1>6. RestOK' /\ Counted'
  BY <1>5, Parts DEF RestOK, Counted, Sound, history
<1>7. work' = [v \in Workers |-> work'[v]]
  BY DEF Sound, TypeOK
<1>8. \A v \in Workers : work'[v] = work[v]
  OBVIOUS
<1>9. QED
  BY <1>3, <1>4, <1>6, <1>7, <1>8, StepSound

-----------------------------------------------------------------------------
(* Types and links: the theorem *)

LEMMA InitSound ==
    ASSUME Init
    PROVE  Sound
<1>1. Attempts \in Nat \ {0} /\ Retries \in Nat /\ "none" \notin Items
  BY ConstantsAssumption
<1>2. row = <<>> /\ memo = <<>> /\ Len(row) = 0 /\ Len(memo) = 0
  BY DEF Init
<1>3. NoJob \in JobType /\ NoJob.owner = "none" /\ NoJob.at = "none"
  BY <1>1 DEF NoJob, JobType
<1>4. Idle \in WorkType
  BY <1>1, <1>2 DEF Idle, WorkType, Labels
<1>5. TypeOK
  BY <1>2, <1>3, <1>4 DEF Init, TypeOK
<1>6. Counted
  BY <1>3 DEF Init, Counted
<1>7. Linked
  <2>1. ASSUME NEW w \in Workers
        PROVE  Fits(work[w])
    <3>1. work[w] = Idle
      BY DEF Init
    <3>2. QED
      BY <3>1 DEF Fits, Idle
  <2>2. QED
    BY <1>2, <2>1 DEF Linked
<1>8. QED
  BY <1>5, <1>6, <1>7 DEF Sound

LEMMA NextSound ==
    ASSUME Sound, [Next]_vars
    PROVE  Sound'
<1>1. CASE UNCHANGED vars
  <2>1. /\ UNCHANGED <<job, lock, row, processing, memo, work, faults, adds>>
        /\ UNCHANGED <<doubled, orphaned, spent, unsaved, unsure>>
    BY <1>1 DEF vars, bounds, history
  <2>2. JobType' = JobType /\ RowType' = RowType /\ WorkType' = WorkType
    BY <2>1 DEF RowType, WorkType, JobType
  <2>3. TypeOK'
    BY <2>1, <2>2 DEF TypeOK, Sound
  <2>4. Counted' /\ Linked'
    BY <2>1 DEF Counted, Linked, Fits, Sound
  <2>5. QED
    BY <2>3, <2>4 DEF Sound
<1>2. CASE \E S \in SUBSET Items \ {{}} : AddToQueue(S)
  BY <1>2, QueueSound
<1>3. ASSUME NEW w \in Workers, WorkStep(w) \/ Throw(w)
      PROVE  Sound'
  BY <1>3, AcquireSound, FindSound, CreateSound, LookupSound, BroadcastSound, RpcSound,
     SaveSignatureSound, ConfirmSound, CatchSound, FailSound, AbandonSound, FinishSound,
     ThrowSound DEF WorkStep
<1>4. ASSUME NEW w \in Workers, NEW i \in Items, Take(w, i)
      PROVE  Sound'
  BY <1>4, TakeSound
<1>5. ASSUME NEW w \in Workers, NEW named \in BOOLEAN, RpcThrows(w, named)
      PROVE  Sound'
  BY <1>5, RpcSound
<1>6. CASE \E i \in Items : Expire(i)
  BY <1>6, QueueSound
<1>7. CASE \E i \in Items, gone \in BOOLEAN : GiveBack(i, gone)
  BY <1>7, QueueSound
<1>8. ASSUME NEW s \in Servers, Crash(s)
      PROVE  Sound'
  BY <1>8, CrashSound
<1>9. ASSUME NEW n \in 1..Len(memo), Land(n) \/ Break(n, "errored") \/ Break(n, "dropped")
      PROVE  Sound'
  <2>1. CASE Land(n)
    BY <2>1, MemoSound DEF Land, Settles, bounds
  <2>2. CASE Break(n, "errored")
    BY <2>2, MemoSound DEF Break, Settles
  <2>3. CASE Break(n, "dropped")
    BY <2>3, MemoSound DEF Break, Settles
  <2>4. QED
    BY <1>9, <2>1, <2>2, <2>3
<1>10. QED
  BY <1>1, <1>2, <1>3, <1>4, <1>5, <1>6, <1>7, <1>8, <1>9 DEF Next

\* The state keeps its types: ids, signatures and tries stay in range, and a job never
\* has more attempts than it may have.
THEOREM LogTypeCorrect == Spec => []TypeOK
<1>1. Init => Sound
  BY InitSound
<1>2. Sound /\ [Next]_vars => Sound'
  BY NextSound
<1>3. Sound => TypeOK
  BY DEF Sound
<1>4. QED
  BY <1>1, <1>2, <1>3, PTL DEF Spec

-----------------------------------------------------------------------------
(* One worker to an item, and what it knows *)

\* A step touches the rows of item i alone.
Touches(i) ==
    \A n \in 1..Len(row') : row'[n].item # i => n \in 1..Len(row) /\ row'[n].status = row[n].status

LEMMA SameRowsOf ==
    ASSUME NEW i, RowsOf(i)' = RowsOf(i)
    PROVE  FindOne(i)' = FindOne(i)
  BY DEF FindOne

LEMMA OtherRows ==
    ASSUME Sound, Sound', Keeps, NEW i, Touches(i), NEW k \in Items \ {i}
    PROVE  /\ RowsOf(k)' = RowsOf(k) /\ FindOne(k)' = FindOne(k)
           /\ FindOne(k) # 0 => row'[FindOne(k)].status = row[FindOne(k)].status
<1>1. Len(row) \in Nat /\ Len(row') \in Nat
  BY DEF Sound, TypeOK
<1>2. \A n \in 1..Len(row) : n \in 1..Len(row') /\ row'[n].item = row[n].item
  BY <1>1 DEF Keeps
<1>3. \A n \in 1..Len(row') : row'[n].item = k => n \in 1..Len(row)
  BY DEF Touches
<1>4. RowsOf(k)' = RowsOf(k)
  BY <1>2, <1>3 DEF RowsOf
<1>5. FindOne(k)' = FindOne(k)
  BY <1>4, SameRowsOf
<1>6. ASSUME FindOne(k) # 0
      PROVE  row'[FindOne(k)].status = row[FindOne(k)].status
  <2>1. RowsOf(k) # {}
    BY <1>6 DEF FindOne
  <2>2. FindOne(k) \in 1..Len(row) /\ row[FindOne(k)].item = k
    BY <2>1, FindOneFirst DEF RowsOf, Sound
  <2>3. FindOne(k) \in 1..Len(row') /\ row'[FindOne(k)].item = k
    BY <1>2, <2>2
  <2>4. QED
    BY <2>3 DEF Touches
<1>7. QED
  BY <1>4, <1>5, <1>6

\* Nobody who is at work on an item that is not doubled begins or goes on.
LEMMA ElsewhereKnows ==
    ASSUME Exclusive, Knows, UNCHANGED row, doubled \subseteq doubled',
           \A v \in Workers : \A i \in Items : Handling(v, i)' => work'[v] = work[v]
    PROVE  Exclusive' /\ Knows'
<1>1. ASSUME NEW v \in Workers, NEW i \in Items \ doubled', Handling(v, i)'
      PROVE  Handling(v, i) /\ work'[v] = work[v] /\ i \in Items \ doubled
  BY <1>1 DEF Handling
<1>2. Exclusive'
  BY <1>1 DEF Exclusive
<1>3. ASSUME NEW v \in Workers, NEW i \in Items \ doubled', Handling(v, i)'
      PROVE  Knowing(v, i)'
  <2>1. Knowing(v, i) /\ work'[v] = work[v]
    BY <1>1, <1>3 DEF Knows
  <2>2. RowsOf(i)' = RowsOf(i) /\ FindOne(i)' = FindOne(i)
    BY DEF RowsOf, FindOne
  <2>3. QED
    BY <2>1, <2>2 DEF Knowing
<1>4. QED
  BY <1>2, <1>3 DEF Knows

\* A worker goes on with its item.
LEMMA OwnKnows ==
    ASSUME Sound, Sound', Exclusive, Knows, Keeps, doubled' = doubled,
           NEW w \in Workers, NEW i \in Items, Handling(w, i), Touches(i),
           \A v \in Workers \ {w} : work'[v] = work[v], work'[w].item = i,
           Handling(w, i)' /\ i \notin doubled => Knowing(w, i)'
    PROVE  Exclusive' /\ Knows'
<1>1. ASSUME NEW v \in Workers, NEW k \in Items \ doubled', Handling(v, k)'
      PROVE  Handling(v, k) /\ (k = i <=> v = w)
  <2>1. CASE v = w
    <3>1. work'[w].item = k
      BY <1>1, <2>1 DEF Handling
    <3>2. QED
      BY <2>1, <3>1
  <2>2. CASE v # w
    <3>1. Handling(v, k)
      BY <1>1, <2>2 DEF Handling
    <3>2. QED
      BY <2>2, <3>1 DEF Exclusive
  <2>3. QED
    BY <2>1, <2>2
<1>2. Exclusive'
  <2>1. ASSUME NEW k \in Items \ doubled', NEW u \in Workers, NEW v \in Workers,
               Handling(u, k)', Handling(v, k)'
        PROVE  u = v
    BY <1>1, <2>1 DEF Exclusive
  <2>2. QED
    BY <2>1 DEF Exclusive
<1>3. ASSUME NEW v \in Workers, NEW k \in Items \ doubled', Handling(v, k)'
      PROVE  Knowing(v, k)'
  <2>1. CASE v = w
    <3>1. k = i
      BY <1>1, <1>3, <2>1
    <3>2. QED
      BY <1>3, <2>1, <3>1
  <2>2. CASE v # w
    <3>1. Handling(v, k) /\ k # i /\ work'[v] = work[v] /\ Knowing(v, k)
      BY <1>1, <1>3, <2>2 DEF Knows
    <3>2. /\ RowsOf(k)' = RowsOf(k) /\ FindOne(k)' = FindOne(k)
          /\ FindOne(k) # 0 => row'[FindOne(k)].status = row[FindOne(k)].status
      BY <3>1, OtherRows
    <3>3. QED
      BY <3>1, <3>2 DEF Knowing
  <2>3. QED
    BY <2>1, <2>2
<1>4. QED
  BY <1>2, <1>3 DEF Knows

\* A worker that changes no row knows what it knew, unless it forgets it.
LEMMA GoesOn ==
    ASSUME Sound, Sound', Exclusive, Knows, doubled' = doubled, UNCHANGED <<row, memo>>,
           NEW w \in Workers, NEW i \in Items, Handling(w, i),
           NEW x, Goes(w, x), x.item = i, x.row \in {0, work[w].row}, x.at # "create"
    PROVE  Exclusive' /\ Knows'
<1>1. /\ work'[w] = x /\ \A v \in Workers \ {w} : work'[v] = work[v]
  BY OneGoes
<1>2. Touches(i) /\ Keeps
  BY Lengths DEF Touches, Keeps, Sound
<1>3. ASSUME i \notin doubled
      PROVE  Knowing(w, i)'
  <2>1. Knowing(w, i)
    BY <1>3 DEF Knows
  <2>2. FindOne(i)' = FindOne(i)
    BY DEF FindOne, RowsOf
  <2>3. QED
    BY <1>1, <2>1, <2>2 DEF Knowing
<1>4. QED
  BY <1>1, <1>2, <1>3, OwnKnows

LEMMA HandlingBusy ==
    ASSUME Sound, NEW w \in Workers, NEW i \in Items, Handling(w, i)
    PROVE  work[w].at # "idle" /\ work[w].item = i
  BY WorkerFields, ConstantsAssumption DEF Handling, Fits

\* The status of the row at hand is set; then the worker's work is over.
LEMMA EndsKnowing ==
    ASSUME Sound, Sound', Exclusive, Knows, Keeps, doubled' = doubled,
           NEW w \in Workers, NEW i \in Items, Handling(w, i), work[w].row # 0,
           NEW status, SetRow(w, status), NEW l \in {"resolve", "reject"}, At(w, l)
    PROVE  Touches(i) /\ Exclusive' /\ Knows'
<1>1. /\ work[w] \in WorkType /\ work[w].item = i
      /\ work[w].row \in 1..Len(row) /\ row[work[w].row].item = i
  BY AtHand, HandlingBusy
<1>2. /\ work'[w] = [work[w] EXCEPT !.at = l] /\ \A v \in Workers \ {w} : work'[v] = work[v]
  BY OneGoes DEF At
<1>3. work'[w].item = i /\ work'[w].at = l
  BY <1>1, <1>2 DEF WorkType
<1>4. Touches(i)
  <2>1. row \in Seq(RowType) /\ Len(row) \in Nat
    BY DEF Sound, TypeOK
  <2>2. Len(row') = Len(row) /\ \A n \in 1..Len(row) : n # work[w].row => row'[n] = row[n]
    BY <2>1 DEF SetRow
  <2>3. row'[work[w].row].item = i
    BY <1>1 DEF Keeps
  <2>4. QED
    BY <2>2, <2>3 DEF Touches
<1>5. ~Handling(w, i)'
  BY <1>3 DEF Handling
<1>6. QED
  BY <1>2, <1>3, <1>4, <1>5, OwnKnows

-----------------------------------------------------------------------------
(* The log *)

Inv == Sound /\ Exclusive /\ Knows

\* What the steps of the log need of its mapping.
LEMMA EntryCases ==
    ASSUME Sound, NEW i \in Items
    PROVE  /\ i \in doubled => Entry[i] = "void"
           /\ i \notin doubled => Entry[i] = IF FindOne(i) = 0 THEN "none" ELSE row[FindOne(i)].status
           /\ Entry[i] \in {"none", "processing", "failed", "success", "void"}
<1>1. Entry[i] = IF i \in doubled THEN "void"
                 ELSE IF FindOne(i) = 0 THEN "none" ELSE row[FindOne(i)].status
  BY DEF Entry
<1>2. ASSUME FindOne(i) # 0
      PROVE  row[FindOne(i)].status \in {"processing", "failed", "success"}
  <2>1. FindOne(i) \in 1..Len(row)
    BY <1>2, FindOneFirst DEF FindOne, RowsOf, Sound
  <2>2. QED
    BY <2>1, RowFields DEF Sound
<1>3. QED
  BY <1>1, <1>2

LEMMA SameEntry ==
    ASSUME UNCHANGED <<row, doubled>>
    PROVE  Entry' = Entry
<1>1. \A i \in Items : FindOne(i)' = FindOne(i)
  BY DEF FindOne, RowsOf
<1>2. QED
  BY <1>1 DEF Entry

LEMMA SameMemos ==
    ASSUME UNCHANGED memo
    PROVE  Sent' = Sent /\ Reached' = Reached
  BY DEF Sent, Reached, Memos

LEMMA Stutters ==
    ASSUME UNCHANGED <<row, doubled, memo>>
    PROVE  UNCHANGED Log!vars
  BY SameEntry, SameMemos DEF Log!vars

\* One entry changes.
LEMMA OneEntry ==
    ASSUME Sound, Sound', Keeps, NEW i \in Items, Touches(i), doubled' = doubled
    PROVE  Entry' = [Entry EXCEPT ![i] = Entry'[i]]
<1>1. ASSUME NEW k \in Items, k # i
      PROVE  Entry'[k] = Entry[k]
  <2>1. /\ FindOne(k)' = FindOne(k)
        /\ FindOne(k) # 0 => row'[FindOne(k)].status = row[FindOne(k)].status
    BY <1>1, OtherRows
  <2>2. QED
    BY <2>1 DEF Entry
<1>2. QED
  BY <1>1 DEF Entry

LEMMA MemosFinite ==
    ASSUME Sound, NEW i, NEW where
    PROVE  IsFiniteSet(Memos(i, where)) /\ Cardinality(Memos(i, where)) \in Nat
<1>1. Len(memo) \in Nat
  BY Lengths DEF Sound
<1>2. IsFiniteSet(1..Len(memo))
  BY <1>1, FS_Interval
<1>3. Memos(i, where) \in SUBSET (1..Len(memo))
  BY DEF Memos
<1>4. QED
  BY <1>2, <1>3, FS_Subset, FS_CardinalityType

\* A memo on the chain counts.
LEMMA OnChainCounts ==
    ASSUME Sound, NEW i \in Items, NEW n \in 1..Len(memo), memo[n].item = i,
           memo[n].at \in {"landed", "errored"}
    PROVE  Reached[i] > 0
<1>1. n \in Memos(i, {"landed", "errored"})
  BY DEF Memos
<1>2. Cardinality(Memos(i, {"landed", "errored"})) # 0
  BY <1>1, MemosFinite, FS_EmptySet
<1>3. QED
  BY <1>2, MemosFinite DEF Reached

\* The worker's row says "success": the log does, unless it is void.
LEMMA SucceedLogs ==
    ASSUME Inv, Sound', NEW w \in Workers, NEW i \in Items, Handling(w, i), work[w].row # 0,
           Succeed(w), OnChain(work[w].sig), UNCHANGED <<memo, doubled>>
    PROVE  Exclusive' /\ Knows' /\ [Log!Next]_(Log!vars)
<1>1. work[w].at # "idle" /\ work[w].item = i
  BY HandlingBusy DEF Inv
<1>2. Keeps
  BY <1>1, SetRowKeeps, ForgetType DEF Succeed, Inv
<1>3. Touches(i) /\ Exclusive' /\ Knows'
  BY <1>2, EndsKnowing DEF Succeed, Inv
<1>4. Entry' = [Entry EXCEPT ![i] = Entry'[i]] /\ Sent' = Sent /\ Reached' = Reached
  BY <1>2, <1>3, OneEntry, SameMemos DEF Inv
<1>5. CASE i \in doubled
  <2>1. Entry'[i] = Entry[i]
    BY <1>5, EntryCases DEF Entry
  <2>2. Entry' = Entry
    BY <1>4, <2>1 DEF Entry
  <2>3. QED
    BY <1>3, <1>4, <2>2 DEF Log!vars
<1>6. CASE i \notin doubled
  <2>1. work[w].row = FindOne(i) /\ row[work[w].row].status # "success"
    BY <1>6 DEF Knows, Knowing, Inv
  <2>2. Entry[i] \in {"processing", "failed"}
    <3>1. work[w].row \in 1..Len(row)
      BY <1>1, AtHand DEF Inv
    <3>2. row[work[w].row].status \in {"processing", "failed", "success"}
      BY <3>1, RowFields DEF Inv, Sound
    <3>3. QED
      BY <1>6, <2>1, <3>2, EntryCases DEF Inv
  <2>3. Entry'[i] = "success"
    <3>1. work[w].row \in 1..Len(row) /\ row \in Seq(RowType) /\ row[work[w].row] \in RowType
      BY <1>1, AtHand, RowFields DEF Inv, Sound, TypeOK
    <3>2. row'[work[w].row].status = "success"
      BY <3>1 DEF Succeed, SetRow, RowType
    <3>3. FindOne(i)' = FindOne(i)
      <4>1. RowsOf(i)' = RowsOf(i)
        <5>1. Len(row') = Len(row)
          BY <3>1 DEF Succeed, SetRow
        <5>2. QED
          BY <1>2, <5>1 DEF RowsOf, Keeps
      <4>2. QED
        BY <4>1, SameRowsOf
    <3>4. QED
      BY <1>6, <2>1, <3>2, <3>3 DEF Entry
  <2>4. Reached[i] > 0
    <3>1. work[w].sig \in 1..Len(memo) /\ memo[work[w].sig].item = i
      BY <1>1, AtHand DEF OnChain, Inv
    <3>2. QED
      BY <3>1, OnChainCounts DEF OnChain, Inv
  <2>5. Log!Succeed(i)
    BY <1>4, <2>2, <2>3, <2>4 DEF Log!Succeed, Log!Writes
  <2>6. QED
    BY <1>3, <2>5 DEF Log!Next
<1>7. QED
  BY <1>5, <1>6

\* The worker's row says "failed": the log does, unless it is void.
LEMMA GiveUpLogs ==
    ASSUME Inv, Sound', NEW w \in Workers, NEW i \in Items, Handling(w, i), work[w].row # 0,
           GiveUp(w), At(w, "reject"), UNCHANGED <<memo, doubled>>
    PROVE  Exclusive' /\ Knows' /\ [Log!Next]_(Log!vars)
<1>1. work[w].at # "idle" /\ work[w].item = i
  BY HandlingBusy DEF Inv
<1>2. Keeps
  BY <1>1, SetRowKeeps, ForgetType DEF GiveUp, Inv
<1>3. Touches(i) /\ Exclusive' /\ Knows'
  BY <1>2, EndsKnowing DEF GiveUp, Inv
<1>4. Entry' = [Entry EXCEPT ![i] = Entry'[i]] /\ Sent' = Sent /\ Reached' = Reached
  BY <1>2, <1>3, OneEntry, SameMemos DEF Inv
<1>5. CASE i \in doubled
  <2>1. Entry'[i] = Entry[i]
    BY <1>5, EntryCases DEF Entry
  <2>2. Entry' = Entry
    BY <1>4, <2>1 DEF Entry
  <2>3. QED
    BY <1>3, <1>4, <2>2 DEF Log!vars
<1>6. CASE i \notin doubled
  <2>1. work[w].row = FindOne(i) /\ row[work[w].row].status # "success"
    BY <1>6 DEF Knows, Knowing, Inv
  <2>2. Entry[i] \in {"processing", "failed"}
    <3>1. work[w].row \in 1..Len(row)
      BY <1>1, AtHand DEF Inv
    <3>2. row[work[w].row].status \in {"processing", "failed", "success"}
      BY <3>1, RowFields DEF Inv, Sound
    <3>3. QED
      BY <1>6, <2>1, <3>2, EntryCases DEF Inv
  <2>3. Entry'[i] = "failed"
    <3>1. work[w].row \in 1..Len(row) /\ row \in Seq(RowType) /\ row[work[w].row] \in RowType
      BY <1>1, AtHand, RowFields DEF Inv, Sound, TypeOK
    <3>2. row'[work[w].row].status = "failed"
      BY <3>1 DEF GiveUp, SetRow, RowType
    <3>3. FindOne(i)' = FindOne(i)
      <4>1. RowsOf(i)' = RowsOf(i)
        <5>1. Len(row') = Len(row)
          BY <3>1 DEF GiveUp, SetRow
        <5>2. QED
          BY <1>2, <5>1 DEF RowsOf, Keeps
      <4>2. QED
        BY <4>1, SameRowsOf
    <3>4. QED
      BY <1>6, <2>1, <3>2, <3>3 DEF Entry
  <2>4. Log!Fail(i)
    BY <1>4, <2>2, <2>3 DEF Log!Fail, Log!Writes
  <2>5. QED
    BY <1>3, <2>4 DEF Log!Next
<1>7. QED
  BY <1>5, <1>6

-----------------------------------------------------------------------------
(* The log: each step *)

\* What every step shows.
Logs == Exclusive' /\ Knows' /\ [Log!Next]_(Log!vars)

LEMMA Handles ==
    ASSUME Sound, NEW w \in Workers, work[w].at \notin {"idle", "acquire", "resolve", "reject"}
    PROVE  \E i \in Items : Handling(w, i) /\ work[w].item = i
  BY WorkerFields DEF Handling

LEMMA ElsewhereLogs ==
    ASSUME Inv, UNCHANGED <<row, doubled, memo>>,
           \A v \in Workers : \A i \in Items : Handling(v, i)' => work'[v] = work[v]
    PROVE  Logs
  BY ElsewhereKnows, Stutters DEF Inv, Logs

\* A worker goes on to another label, or to its next try.
LEMMA AtLogs ==
    ASSUME Inv, Sound', UNCHANGED <<row, doubled, memo>>, NEW w \in Workers, NEW i \in Items,
           Handling(w, i), NEW l, l # "create", At(w, l)
    PROVE  Logs
<1> DEFINE x == [work[w] EXCEPT !.at = l]
<1>1. work[w] \in WorkType /\ work[w].item = i
  BY HandlingBusy, WorkerFields DEF Inv
<1>2. Goes(w, x) /\ x.item = i /\ x.row = work[w].row /\ x.at = l
  BY <1>1 DEF At, WorkType
<1> HIDE DEF x
<1>3. Exclusive' /\ Knows'
  BY <1>2, GoesOn DEF Inv
<1>4. QED
  BY <1>3, Stutters DEF Logs

LEMMA AgainLogs ==
    ASSUME Inv, Sound', UNCHANGED <<row, doubled, memo>>, NEW w \in Workers, NEW i \in Items,
           Handling(w, i), Again(w)
    PROVE  Logs
<1> DEFINE x == [Idle EXCEPT !.at = "find", !.item = work[w].item, !.retry = work[w].retry - 1]
<1>1. Idle \in WorkType /\ Idle.row = 0 /\ work[w].item = i
  BY IdleFields, HandlingBusy DEF Inv, Sound
<1>2. Goes(w, x) /\ x.item = i /\ x.row = 0 /\ x.at = "find"
  BY <1>1 DEF Again, WorkType
<1> HIDE DEF x
<1>3. Exclusive' /\ Knows'
  BY <1>2, GoesOn DEF Inv
<1>4. QED
  BY <1>3, Stutters DEF Logs

LEMMA QueueLogs ==
    ASSUME Inv,
           \/ \E S \in SUBSET Items : AddToQueue(S)
           \/ \E i \in Items : Expire(i)
           \/ \E i \in Items, gone \in BOOLEAN : GiveBack(i, gone)
    PROVE  Logs
<1>1. UNCHANGED <<row, doubled, memo, work>>
  BY DEF AddToQueue, Expire, GiveBack, history
<1>2. QED
  BY <1>1, ElsewhereLogs

LEMMA TakeLogs ==
    ASSUME Inv, NEW w \in Workers, NEW i \in Items, Take(w, i)
    PROVE  Logs
<1> DEFINE x == [Idle EXCEPT !.at = "acquire", !.item = i, !.retry = Retries]
<1>1. x.at = "acquire"
  <2>1. Idle \in WorkType
    BY IdleFields DEF Inv, Sound
  <2>2. QED
    BY <2>1 DEF WorkType
<1>2. UNCHANGED <<row, doubled, memo>> /\ Goes(w, x)
  BY DEF Take, history
<1> HIDE DEF x
<1>3. work'[w] = x /\ \A v \in Workers \ {w} : work'[v] = work[v]
  BY <1>2, OneGoes DEF Inv
<1>4. \A v \in Workers : \A k \in Items : Handling(v, k)' => work'[v] = work[v]
  BY <1>1, <1>3 DEF Handling
<1>5. QED
  BY <1>2, <1>4, ElsewhereLogs

LEMMA FinishLogs ==
    ASSUME Inv, NEW w \in Workers, Finish(w)
    PROVE  Logs
<1>1. UNCHANGED <<row, doubled, memo>> /\ Goes(w, Idle)
  BY DEF Finish, history
<1>2. work'[w] = Idle /\ \A v \in Workers \ {w} : work'[v] = work[v]
  BY <1>1, OneGoes DEF Inv
<1>3. Idle.item = "none"
  BY DEF Idle
<1>4. \A v \in Workers : \A k \in Items : Handling(v, k)' => work'[v] = work[v]
  BY <1>2, <1>3, ConstantsAssumption DEF Handling
<1>5. QED
  BY <1>1, <1>4, ElsewhereLogs

LEMMA CrashLogs ==
    ASSUME Inv, NEW s \in Servers, Crash(s)
    PROVE  Logs
<1>1. UNCHANGED <<row, doubled, memo>>
  BY DEF Crash
<1>2. \A v \in Workers : work'[v] = Idle \/ work'[v] = work[v]
  BY DEF Crash
<1>3. Idle.item = "none"
  BY DEF Idle
<1>4. \A v \in Workers : \A k \in Items : Handling(v, k)' => work'[v] = work[v]
  BY <1>2, <1>3, ConstantsAssumption DEF Handling
<1>5. QED
  BY <1>1, <1>4, ElsewhereLogs

\* An item that is handled already is void from now on.
LEMMA DoubledLogs ==
    ASSUME Inv, UNCHANGED <<row, memo>>, NEW i \in Items, doubled' = doubled \cup {i}
    PROVE  [Log!Next]_(Log!vars)
<1>1. Sent' = Sent /\ Reached' = Reached
  BY SameMemos
<1>2. CASE i \in doubled
  <2>1. doubled' = doubled
    BY <1>2
  <2>2. QED
    BY <2>1, Stutters
<1>3. CASE i \notin doubled
  <2>1. \A k \in Items : FindOne(k)' = FindOne(k)
    BY DEF FindOne, RowsOf
  <2>2. Entry' = [Entry EXCEPT ![i] = "void"]
    BY <2>1 DEF Entry
  <2>3. Entry[i] \in {"none", "processing", "failed", "success"}
    <3>1. FindOne(i) # 0 => row[FindOne(i)].status \in {"processing", "failed", "success"}
      <4>1. FindOne(i) # 0 => FindOne(i) \in 1..Len(row)
        BY FindOneFirst DEF FindOne, RowsOf, Inv, Sound
      <4>2. QED
        BY <4>1, RowFields DEF Inv, Sound
    <3>2. QED
      BY <1>3, <3>1, EntryCases DEF Inv
  <2>4. Log!Void(i)
    BY <1>1, <2>2, <2>3 DEF Log!Void, Log!Writes
  <2>5. QED
    BY <2>4 DEF Log!Next
<1>4. QED
  BY <1>2, <1>3

LEMMA AcquireLogs ==
    ASSUME Inv, NEW w \in Workers, Acquire(w)
    PROVE  Logs
<1>1. work[w].at = "acquire" /\ UNCHANGED <<row, memo>>
  BY DEF Acquire
<1>2. PICK i \in Items : i = work[w].item
  BY <1>1, WorkerFields DEF Inv
<1>3. work[w] \in WorkType /\ work[w].row = 0
  BY <1>1, WorkerFields DEF Fits, Inv
<1>4. CASE At(w, "reject") /\ UNCHANGED doubled
  <2>1. work'[w] = [work[w] EXCEPT !.at = "reject"] /\ \A v \in Workers \ {w} : work'[v] = work[v]
    BY <1>4, OneGoes DEF At, Inv
  <2>2. work'[w].at = "reject"
    BY <1>3, <2>1 DEF WorkType
  <2>3. \A v \in Workers : \A k \in Items : Handling(v, k)' => work'[v] = work[v]
    BY <2>1, <2>2 DEF Handling
  <2>4. QED
    BY <1>1, <1>4, <2>3, ElsewhereLogs
<1>5. CASE At(w, "find") /\ doubled' = IF Overlaps(w, i) THEN doubled \cup {i} ELSE doubled
  <2>1. work'[w] = [work[w] EXCEPT !.at = "find"] /\ \A v \in Workers \ {w} : work'[v] = work[v]
    BY <1>5, OneGoes DEF At, Inv
  <2>2. work'[w].at = "find" /\ work'[w].item = i /\ work'[w].row = 0
    BY <1>2, <1>3, <2>1 DEF WorkType
  <2>3. ASSUME NEW v \in Workers, NEW k \in Items \ doubled', Handling(v, k)'
        PROVE  (v = w /\ k = i) \/ (v # w /\ k # i /\ Handling(v, k) /\ work'[v] = work[v])
    <3>1. CASE v = w
      BY <2>2, <2>3, <3>1 DEF Handling
    <3>2. CASE v # w
      <4>1. Handling(v, k) /\ work'[v] = work[v]
        BY <2>1, <2>3, <3>2 DEF Handling
      <4>2. k # i
        BY <1>5, <2>3, <3>2, <4>1 DEF Overlaps
      <4>3. QED
        BY <3>2, <4>1, <4>2
    <3>3. QED
      BY <3>1, <3>2
  <2>4. doubled \subseteq doubled'
    BY <1>5
  <2>5. Exclusive'
    <3>1. ASSUME NEW k \in Items \ doubled', NEW u \in Workers, NEW v \in Workers,
                 Handling(u, k)', Handling(v, k)'
          PROVE  u = v
      BY <2>3, <2>4, <3>1 DEF Exclusive, Inv
    <3>2. QED
      BY <3>1 DEF Exclusive
  <2>6. Knows'
    <3>1. ASSUME NEW v \in Workers, NEW k \in Items \ doubled', Handling(v, k)'
          PROVE  Knowing(v, k)'
      <4>1. CASE v = w
        BY <2>2, <4>1 DEF Knowing
      <4>2. CASE v # w
        <5>1. Knowing(v, k) /\ work'[v] = work[v]
          BY <2>3, <2>4, <3>1, <4>2 DEF Knows, Inv
        <5>2. RowsOf(k)' = RowsOf(k) /\ FindOne(k)' = FindOne(k)
          BY <1>1 DEF RowsOf, FindOne
        <5>3. QED
          BY <1>1, <5>1, <5>2 DEF Knowing
      <4>3. QED
        BY <4>1, <4>2
    <3>2. QED
      BY <3>1 DEF Knows
  <2>7. [Log!Next]_(Log!vars)
    <3>1. CASE Overlaps(w, i)
      BY <1>1, <1>5, <3>1, DoubledLogs
    <3>2. CASE ~Overlaps(w, i)
      BY <1>1, <1>5, <3>2, Stutters
    <3>3. QED
      BY <3>1, <3>2
  <2>8. QED
    BY <2>5, <2>6, <2>7 DEF Logs
<1>6. QED
  BY <1>2, <1>4, <1>5 DEF Acquire

\* The row that is found is the first one; it is no success when the worker goes on.
LEMMA FindLogs ==
    ASSUME Inv, Sound', NEW w \in Workers, Find(w)
    PROVE  Logs
<1>1. work[w].at = "find" /\ UNCHANGED <<row, memo, doubled>>
  BY DEF Find, history
<1>2. PICK i \in Items : Handling(w, i) /\ work[w].item = i
  BY <1>1, Handles DEF Inv
<1> DEFINE n == FindOne(i)
           takes == n # 0 /\ row[n].sig = 0 /\ row[n].status = "failed"
           sig == IF n = 0 THEN 0 ELSE row[n].sig
           at == IF n = 0 THEN "create"
                 ELSE IF row[n].status = "success" THEN "resolve"
                 ELSE IF row[n].sig # 0 THEN "lookup"
                 ELSE IF takes \/ Owns(w, n) THEN "broadcast" ELSE "reject"
           x == [work[w] EXCEPT !.row = n, !.sig = sig, !.at = at]
<1>3. Goes(w, x)
  BY <1>2 DEF Find
<1>4. /\ at = "create" => n = 0
      /\ n # 0 /\ row[n].status = "success" => at = "resolve"
  OBVIOUS
<1>5. n = 0 => RowsOf(i) = {}
  BY FindOneFirst DEF Inv, Sound
<1>6. work[w] \in WorkType
  BY WorkerFields DEF Inv
<1> HIDE DEF n, sig, at
<1>7. x.item = i /\ x.row = n /\ x.at = at
  BY <1>2, <1>6 DEF WorkType
<1> HIDE DEF x
<1>8. work'[w] = x /\ \A v \in Workers \ {w} : work'[v] = work[v]
  BY <1>3, OneGoes DEF Inv
<1>9. Touches(i) /\ Keeps
  BY <1>1, Lengths DEF Touches, Keeps, Inv, Sound
<1>10. ASSUME Handling(w, i)'
       PROVE  Knowing(w, i)'
  <2>1. RowsOf(i)' = RowsOf(i) /\ FindOne(i)' = n
    BY <1>1 DEF RowsOf, FindOne, n
  <2>2. at # "resolve"
    BY <1>7, <1>8, <1>10 DEF Handling
  <2>3. QED
    BY <1>1, <1>4, <1>5, <1>7, <1>8, <2>1, <2>2 DEF Knowing
<1>11. Exclusive' /\ Knows'
  BY <1>1, <1>2, <1>7, <1>8, <1>9, <1>10, OwnKnows DEF Inv
<1>12. QED
  BY <1>1, <1>11, Stutters DEF Logs

\* A row that is created is the only one of its item: it opens the entry.
LEMMA CreateLogs ==
    ASSUME Inv, Sound', NEW w \in Workers, Create(w)
    PROVE  Logs
<1> DEFINE n == Len(row) + 1
           x == [work[w] EXCEPT !.at = "broadcast", !.row = n]
<1>1. work[w].at = "create" /\ UNCHANGED <<memo, doubled>> /\ Goes(w, x)
  BY DEF Create, history
<1>2. PICK i \in Items : Handling(w, i) /\ work[w].item = i
  BY <1>1, Handles DEF Inv
<1> DEFINE new == [item |-> i, status |-> "processing", sig |-> 0]
<1>3. row' = Append(row, new) /\ row \in Seq(RowType) /\ Len(row) \in Nat
  BY <1>2 DEF Create, Inv, Sound, TypeOK
<1>4. new.item = i /\ new.status = "processing"
  OBVIOUS
<1>5. /\ Len(row') = n /\ row'[n] = new
      /\ \A k \in 1..Len(row) : row'[k] = row[k]
  BY <1>3, AppendProperties
<1>6. work[w] \in WorkType
  BY WorkerFields DEF Inv
<1>7. x.item = i /\ x.row = n /\ x.at = "broadcast"
  BY <1>2, <1>6 DEF WorkType
<1>8. work'[w] = x /\ \A v \in Workers \ {w} : work'[v] = work[v]
  BY <1>1, OneGoes DEF Inv
<1>9. n \in Nat /\ n # 0 /\ \A k \in 1..n : k = n \/ k \in 1..Len(row)
  BY <1>3
<1>a. 1..n = (1..Len(row)) \cup {n}
  BY <1>3
<1> HIDE DEF n, x, new
<1>10. Keeps
  <2>1. Len(memo) \in Nat
    BY Lengths DEF Inv, Sound
  <2>2. Len(row) <= Len(row')
    BY <1>3, <1>5 DEF n
  <2>3. QED
    BY <1>1, <1>5, <2>1, <2>2 DEF Keeps
<1>11. Touches(i)
  BY <1>4, <1>5, <1>9 DEF Touches
<1>12. ASSUME i \notin doubled
       PROVE  FindOne(i) = 0 /\ FindOne(i)' = n
  <2>1. RowsOf(i) = {}
    BY <1>1, <1>2, <1>12 DEF Knows, Knowing, Inv
  <2>2. RowsOf(i)' = {n}
    BY <1>4, <1>5, <1>a, <2>1 DEF RowsOf
  <2>3. QED
    BY <2>1, <2>2 DEF FindOne
<1>13. i \notin doubled => Knowing(w, i)'
  BY <1>4, <1>5, <1>7, <1>8, <1>12 DEF Knowing
<1>14. Exclusive' /\ Knows'
  BY <1>1, <1>2, <1>7, <1>8, <1>10, <1>11, <1>13, OwnKnows DEF Inv
<1>15. Entry' = [Entry EXCEPT ![i] = Entry'[i]] /\ Sent' = Sent /\ Reached' = Reached
  BY <1>1, <1>10, <1>11, OneEntry, SameMemos DEF Inv
<1>16. CASE i \in doubled
  <2>1. Entry'[i] = Entry[i]
    BY <1>1, <1>16 DEF Entry
  <2>2. Entry' = Entry
    BY <1>15, <2>1 DEF Entry
  <2>3. QED
    BY <1>14, <1>15, <2>2 DEF Log!vars, Logs
<1>17. CASE i \notin doubled
  <2>1. Entry[i] = "none"
    BY <1>12, <1>17 DEF Entry
  <2>2. Entry'[i] = "processing"
    BY <1>1, <1>4, <1>5, <1>9, <1>12, <1>17 DEF Entry
  <2>3. Log!Open(i)
    BY <1>15, <2>1, <2>2 DEF Log!Open, Log!Writes
  <2>4. QED
    BY <1>14, <2>3 DEF Log!Next, Logs
<1>18. QED
  BY <1>16, <1>17

\* A look-up finds the memo, or the worker goes on.
LEMMA LookupLogs ==
    ASSUME Inv, Sound', NEW w \in Workers, Lookup(w)
    PROVE  Logs
<1>1. work[w].at = "lookup" /\ work[w].row # 0 /\ UNCHANGED <<memo, doubled>>
  BY AtHand DEF Lookup, Fits, Inv
<1>2. PICK i \in Items : Handling(w, i) /\ work[w].item = i
  BY <1>1, Handles DEF Inv
<1>3. CASE Finds(w) /\ Succeed(w)
  BY <1>1, <1>2, <1>3, SucceedLogs DEF Finds, Logs
<1>4. CASE UNCHANGED row /\ (At(w, "broadcast") \/ At(w, "reject"))
  BY <1>1, <1>2, <1>4, AtLogs
<1>5. QED
  BY <1>3, <1>4 DEF Lookup

\* A memo is added to those of its item.
LEMMA SendCounts ==
    ASSUME Sound, NEW i \in Items, memo' = Append(memo, [item |-> i, at |-> "pending"])
    PROVE  Sent' = [Sent EXCEPT ![i] = @ + 1] /\ Reached' = Reached
<1> DEFINE n == Len(memo) + 1
           new == [item |-> i, at |-> "pending"]
           All == {"pending", "landed", "errored", "dropped"}
           On == {"landed", "errored"}
<1>1. memo \in Seq(MemoType) /\ Len(memo) \in Nat
  BY DEF Sound, TypeOK
<1>2. new.item = i /\ new.at = "pending"
  OBVIOUS
<1>3. /\ Len(memo') = n /\ memo'[n] = new
      /\ \A k \in 1..Len(memo) : memo'[k] = memo[k]
  BY <1>1, AppendProperties
<1>4. 1..n = (1..Len(memo)) \cup {n} /\ n \notin 1..Len(memo)
  BY <1>1
<1> HIDE DEF n, new
<1>5. ASSUME NEW k \in Items
      PROVE  /\ Memos(k, On)' = Memos(k, On)
             /\ Memos(k, All)' = IF k = i THEN Memos(k, All) \cup {n} ELSE Memos(k, All)
  <2>1. ASSUME NEW where \in {On, All}
        PROVE  Memos(k, where)' = Memos(k, where) \cup {m \in {n} : k = i /\ "pending" \in where}
    BY <1>2, <1>3, <1>4 DEF Memos
  <2>2. Memos(k, On)' = Memos(k, On) \cup {m \in {n} : k = i /\ "pending" \in On}
    BY <2>1
  <2>3. Memos(k, All)' = Memos(k, All) \cup {m \in {n} : k = i /\ "pending" \in All}
    BY <2>1
  <2>4. QED
    BY <2>2, <2>3
<1>6. Reached' = Reached
  BY <1>5 DEF Reached
<1>7. n \notin Memos(i, All)
  BY <1>4 DEF Memos
<1>8. Cardinality(Memos(i, All) \cup {n}) = Cardinality(Memos(i, All)) + 1
  BY <1>7, MemosFinite, FS_AddElement
<1>9. \A k \in Items : Sent'[k] = IF k = i THEN Sent[k] + 1 ELSE Sent[k]
  BY <1>5, <1>8 DEF Sent
<1>10. QED
  BY <1>6, <1>9 DEF Sent

LEMMA BroadcastLogs ==
    ASSUME Inv, Sound', NEW w \in Workers, Broadcast(w)
    PROVE  Logs
<1> DEFINE x == [work[w] EXCEPT !.at = "rpc", !.memo = Len(memo) + 1]
<1>1. work[w].at = "broadcast" /\ UNCHANGED <<row, doubled>> /\ Goes(w, x)
  BY DEF Broadcast, history
<1>2. PICK i \in Items : Handling(w, i) /\ work[w].item = i
  BY <1>1, Handles DEF Inv
<1>3. work[w] \in WorkType /\ work[w].row # 0 /\ work[w].row \in 1..Len(row)
  BY <1>1, AtHand DEF Fits, Inv
<1>4. x.item = i /\ x.row = work[w].row /\ x.at = "rpc"
  BY <1>2, <1>3 DEF WorkType
<1> HIDE DEF x
<1>5. work'[w] = x /\ \A v \in Workers \ {w} : work'[v] = work[v]
  BY <1>1, OneGoes DEF Inv
<1>6. memo' = Append(memo, [item |-> i, at |-> "pending"])
  BY <1>2 DEF Broadcast
<1>7. Keeps
  <2>1. memo \in Seq(MemoType) /\ Len(memo) \in Nat /\ Len(row) \in Nat
    BY Lengths DEF Inv, Sound, TypeOK
  <2>2. Len(memo') = Len(memo) + 1 /\ \A k \in 1..Len(memo) : memo'[k] = memo[k]
    BY <1>6, <2>1, AppendProperties
  <2>3. QED
    BY <1>1, <2>1, <2>2 DEF Keeps
<1>8. Touches(i)
  BY <1>1 DEF Touches
<1>9. ASSUME i \notin doubled
      PROVE  Knowing(w, i)' /\ FindOne(i) = work[w].row /\ row[work[w].row].status # "success"
  <2>1. Knowing(w, i)
    BY <1>2, <1>9 DEF Knows, Inv
  <2>2. FindOne(i)' = FindOne(i)
    BY <1>1 DEF FindOne, RowsOf
  <2>3. QED
    BY <1>1, <1>3, <1>4, <1>5, <2>1, <2>2 DEF Knowing
<1>10. Exclusive' /\ Knows'
  BY <1>1, <1>2, <1>4, <1>5, <1>7, <1>8, <1>9, OwnKnows DEF Inv
<1>11. Entry[i] \in {"processing", "failed", "void"}
  <2>1. row[work[w].row].status \in {"processing", "failed", "success"}
    BY <1>3, RowFields DEF Inv, Sound
  <2>2. QED
    BY <1>3, <1>9, <2>1 DEF Entry
<1>12. Entry' = Entry
  BY <1>1, SameEntry
<1>13. Log!Send(i)
  BY <1>6, <1>11, <1>12, SendCounts DEF Log!Send, Inv
<1>14. QED
  BY <1>10, <1>13 DEF Log!Next, Logs

LEMMA RpcLogs ==
    ASSUME Inv, Sound', NEW w \in Workers, RpcReturns(w) \/ \E named \in BOOLEAN : RpcThrows(w, named)
    PROVE  Logs
<1>1. work[w].at = "rpc" /\ UNCHANGED <<row, memo, doubled>>
  BY DEF RpcReturns, RpcThrows, history
<1>2. PICK i \in Items : Handling(w, i) /\ work[w].item = i
  BY <1>1, Handles DEF Inv
<1>3. PICK l \in {"save", "catch"}, s \in {0, work[w].sig, work[w].memo} :
         Goes(w, [work[w] EXCEPT !.at = l, !.sig = s])
  BY DEF RpcReturns, RpcThrows
<1> DEFINE x == [work[w] EXCEPT !.at = l, !.sig = s]
<1>4. work[w] \in WorkType
  BY WorkerFields DEF Inv
<1>5. x.item = i /\ x.row = work[w].row /\ x.at = l
  BY <1>2, <1>4 DEF WorkType
<1>6. Goes(w, x)
  BY <1>3
<1> HIDE DEF x
<1>7. Exclusive' /\ Knows'
  BY <1>1, <1>2, <1>5, <1>6, GoesOn DEF Inv
<1>8. QED
  BY <1>1, <1>7, Stutters DEF Logs

LEMMA SaveSignatureLogs ==
    ASSUME Inv, Sound', NEW w \in Workers, SaveSignature(w)
    PROVE  Logs
<1>1. work[w].at = "save" /\ UNCHANGED <<memo, doubled>> /\ At(w, "confirm")
  BY DEF SaveSignature, history
<1>2. PICK i \in Items : Handling(w, i) /\ work[w].item = i
  BY <1>1, Handles DEF Inv
<1> DEFINE n == work[w].row
           e == [row[n] EXCEPT !.sig = work[w].sig]
           x == [work[w] EXCEPT !.at = "confirm"]
<1>3. /\ work[w] \in WorkType /\ n \in 1..Len(row) /\ work[w].sig \in 0..Len(memo)
      /\ Len(row) \in Nat /\ Len(memo) \in Nat
  BY <1>1, AtHand DEF Fits, Inv
<1>4. row \in Seq(RowType) /\ row[n] \in RowType
  BY <1>3, RowFields DEF Inv, Sound, TypeOK
<1>5. e \in RowType /\ e.item = row[n].item /\ e.status = row[n].status
  BY <1>3, <1>4 DEF RowType
<1>6. row' = [row EXCEPT ![n] = e]
  BY DEF SaveSignature
<1>7. Goes(w, x) /\ x.item = i /\ x.row = n /\ x.at = "confirm"
  BY <1>1, <1>2, <1>3 DEF At, WorkType
<1> HIDE DEF e, x
<1>8. /\ Len(row') = Len(row)
      /\ \A k \in 1..Len(row) : row'[k] = IF k = n THEN e ELSE row[k]
  BY <1>3, <1>4, <1>5, <1>6, ExceptSeq
<1>9. \A k \in 1..Len(row) : row'[k].item = row[k].item /\ row'[k].status = row[k].status
  BY <1>5, <1>8
<1>10. Keeps
  BY <1>1, <1>3, <1>8, <1>9 DEF Keeps
<1>11. Touches(i)
  BY <1>8, <1>9 DEF Touches
<1>12. \A k \in Items : /\ FindOne(k)' = FindOne(k)
                        /\ FindOne(k) # 0 => row'[FindOne(k)].status = row[FindOne(k)].status
  <2>1. ASSUME NEW k \in Items
        PROVE  /\ FindOne(k)' = FindOne(k)
               /\ FindOne(k) # 0 => row'[FindOne(k)].status = row[FindOne(k)].status
    <3>1. RowsOf(k)' = RowsOf(k)
      BY <1>8, <1>9 DEF RowsOf
    <3>2. FindOne(k) # 0 => FindOne(k) \in 1..Len(row)
      BY FindOneFirst DEF FindOne, RowsOf, Inv, Sound
    <3>3. QED
      BY <1>9, <3>1, <3>2, SameRowsOf
  <2>2. QED
    BY <2>1
<1>13. work'[w] = x /\ \A v \in Workers \ {w} : work'[v] = work[v]
  BY <1>7, OneGoes DEF Inv
<1>14. ASSUME i \notin doubled
       PROVE  Knowing(w, i)'
  <2>1. Knowing(w, i)
    BY <1>2, <1>14 DEF Knows, Inv
  <2>2. n = FindOne(i) /\ row[n].status # "success" /\ n # 0
    BY <1>3, <2>1 DEF Knowing
  <2>3. QED
    BY <1>7, <1>12, <1>13, <2>2 DEF Knowing
<1>15. Exclusive' /\ Knows'
  BY <1>1, <1>2, <1>7, <1>10, <1>11, <1>13, <1>14, OwnKnows DEF Inv
<1>16. Entry' = Entry
  BY <1>1, <1>12 DEF Entry
<1>17. QED
  BY <1>1, <1>15, <1>16, SameMemos DEF Logs, Log!vars

LEMMA ConfirmLogs ==
    ASSUME Inv, Sound', NEW w \in Workers, Confirm(w)
    PROVE  Logs
<1>1. work[w].at = "confirm" /\ work[w].row # 0 /\ UNCHANGED <<memo, doubled>>
  BY AtHand DEF Confirm, Fits, Inv
<1>2. PICK i \in Items : Handling(w, i) /\ work[w].item = i
  BY <1>1, Handles DEF Inv
<1>3. CASE OnChain(work[w].sig) /\ Succeed(w)
  BY <1>1, <1>2, <1>3, SucceedLogs DEF Logs
<1>4. CASE UNCHANGED row /\ (At(w, "fail") \/ At(w, "catch"))
  BY <1>1, <1>2, <1>4, AtLogs
<1>5. CASE UNCHANGED row /\ Again(w)
  BY <1>1, <1>2, <1>5, AgainLogs
<1>6. QED
  BY <1>3, <1>4, <1>5 DEF Confirm

LEMMA ThrowLogs ==
    ASSUME Inv, Sound', NEW w \in Workers, Throw(w)
    PROVE  Logs
<1>1. /\ work[w].at \notin {"idle", "acquire", "resolve", "reject"}
      /\ At(w, "catch") /\ UNCHANGED <<row, memo, doubled>>
  BY DEF Throw, history
<1>2. PICK i \in Items : Handling(w, i) /\ work[w].item = i
  BY <1>1, Handles DEF Inv
<1>3. QED
  BY <1>1, <1>2, AtLogs

LEMMA CatchLogs ==
    ASSUME Inv, Sound', NEW w \in Workers, Catch(w)
    PROVE  Logs
<1>1. work[w].at = "catch" /\ UNCHANGED <<memo, doubled>>
  BY DEF Catch
<1>2. PICK i \in Items : Handling(w, i) /\ work[w].item = i
  BY <1>1, Handles DEF Inv
<1>3. CASE Finds(w) /\ Succeed(w)
  <2>1. work[w].sig # 0
    BY <1>1, <1>3, AtHand DEF Finds, OnChain, Inv
  <2>2. work[w].row # 0
    BY <1>1, <2>1, AtHand DEF Fits, Inv
  <2>3. QED
    BY <1>1, <1>2, <1>3, <2>2, SucceedLogs DEF Finds, Logs
<1>4. CASE UNCHANGED row /\ At(w, "abandon")
  BY <1>1, <1>2, <1>4, AtLogs
<1>5. CASE UNCHANGED row /\ Again(w)
  BY <1>1, <1>2, <1>5, AgainLogs
<1>6. QED
  BY <1>3, <1>4, <1>5 DEF Catch

LEMMA FailLogs ==
    ASSUME Inv, Sound', NEW w \in Workers, Fail(w)
    PROVE  Logs
<1>1. work[w].at = "fail" /\ work[w].row # 0 /\ UNCHANGED <<memo, doubled>>
  BY AtHand DEF Fail, Fits, Inv
<1>2. PICK i \in Items : Handling(w, i) /\ work[w].item = i
  BY <1>1, Handles DEF Inv
<1>3. QED
  BY <1>1, <1>2, GiveUpLogs DEF Fail, Logs

LEMMA AbandonLogs ==
    ASSUME Inv, Sound', NEW w \in Workers, Abandon(w)
    PROVE  Logs
<1>1. work[w].at = "abandon" /\ At(w, "reject") /\ UNCHANGED <<memo, doubled>>
  BY DEF Abandon
<1>2. PICK i \in Items : Handling(w, i) /\ work[w].item = i
  BY <1>1, Handles DEF Inv
<1>3. CASE work[w].row # 0 /\ GiveUp(w)
  BY <1>1, <1>2, <1>3, GiveUpLogs DEF Logs
<1>4. CASE UNCHANGED row
  BY <1>1, <1>2, <1>4, AtLogs
<1>5. QED
  BY <1>3, <1>4 DEF Abandon

\* A memo that settles reaches the chain, or is dropped.
LEMMA SettlesLogs ==
    ASSUME Inv, NEW n, NEW how \in {"landed", "errored", "dropped"}, Settles(n, how),
           UNCHANGED <<row, work, doubled>>
    PROVE  Logs
<1> DEFINE All == {"pending", "landed", "errored", "dropped"}
           On == {"landed", "errored"}
<1>1. /\ Len(memo') = Len(memo) /\ n \in 1..Len(memo) /\ memo[n].at = "pending"
      /\ \A k \in 1..Len(memo) : memo'[k].item = memo[k].item
      /\ \A k \in 1..Len(memo) : memo'[k].at = IF k = n THEN how ELSE memo[k].at
  BY SettlesMemo DEF Settles, Inv
<1>2. PICK i \in Items : memo[n].item = i
  BY <1>1, MemoFields DEF Inv, Sound
<1>3. Exclusive' /\ Knows'
  BY ElsewhereKnows DEF Inv
<1>4. Entry' = Entry
  BY SameEntry
<1>5. Sent' = Sent
  <2>1. \A k \in Items : Memos(k, All)' = Memos(k, All)
    BY <1>1 DEF Memos
  <2>2. QED
    BY <2>1 DEF Sent
<1>6. ASSUME NEW k \in Items
      PROVE  Memos(k, On)' = Memos(k, On) \cup {m \in {n} : k = i /\ how \in On}
  BY <1>1, <1>2, <1>6 DEF Memos
<1>7. CASE how = "dropped"
  <2>1. Reached' = Reached
    BY <1>6, <1>7 DEF Reached
  <2>2. QED
    BY <1>3, <1>4, <1>5, <2>1 DEF Log!vars, Logs
<1>8. CASE how \in On
  <2>1. n \notin Memos(i, On) /\ n \in Memos(i, All) /\ Memos(i, On) \subseteq Memos(i, All)
    BY <1>1, <1>2 DEF Memos
  <2>2. Cardinality(Memos(i, On) \cup {n}) = Cardinality(Memos(i, On)) + 1
    BY <2>1, MemosFinite, FS_AddElement DEF Inv
  <2>3. Cardinality(Memos(i, On) \cup {n}) <= Cardinality(Memos(i, All))
    <3>1. Memos(i, On) \cup {n} \subseteq Memos(i, All)
      BY <2>1
    <3>2. QED
      BY <3>1, MemosFinite, FS_Subset DEF Inv
  <2>4. Reached[i] < Sent[i]
    <3>1. Cardinality(Memos(i, On)) \in Nat /\ Cardinality(Memos(i, All)) \in Nat
      BY MemosFinite DEF Inv
    <3>2. Cardinality(Memos(i, On)) < Cardinality(Memos(i, All))
      BY <2>2, <2>3, <3>1
    <3>3. QED
      BY <3>2 DEF Reached, Sent
  <2>5. \A k \in Items : Reached'[k] = IF k = i THEN Reached[k] + 1 ELSE Reached[k]
    <3>1. ASSUME NEW k \in Items
          PROVE  Memos(k, On)' = IF k = i THEN Memos(k, On) \cup {n} ELSE Memos(k, On)
      BY <1>6, <1>8
    <3>2. QED
      BY <2>2, <3>1 DEF Reached
  <2>6. Reached' = [Reached EXCEPT ![i] = @ + 1]
    BY <2>5 DEF Reached
  <2>7. Log!Reach(i)
    BY <1>4, <1>5, <2>4, <2>6 DEF Log!Reach
  <2>8. QED
    BY <1>3, <2>7 DEF Log!Next, Logs
<1>9. QED
  BY <1>7, <1>8

-----------------------------------------------------------------------------
(* The log: the theorem *)

LEMMA InitLogs ==
    ASSUME Init
    PROVE  Inv /\ Log!Init
<1>1. Sound
  BY InitSound
<1>2. row = <<>> /\ memo = <<>> /\ doubled = {} /\ Len(row) = 0 /\ Len(memo) = 0
  BY DEF Init
<1>3. \A w \in Workers : \A i \in Items : ~Handling(w, i)
  <2>1. Idle.item = "none"
    BY DEF Idle
  <2>2. QED
    BY <2>1, ConstantsAssumption DEF Init, Handling
<1>4. Exclusive /\ Knows
  BY <1>3 DEF Exclusive, Knows
<1>5. Entry = [i \in Items |-> "none"]
  <2>1. \A i \in Items : RowsOf(i) = {}
    BY <1>2 DEF RowsOf
  <2>2. \A i \in Items : FindOne(i) = 0
    BY <2>1 DEF FindOne
  <2>3. QED
    BY <1>2, <2>2 DEF Entry
<1>6. Sent = [i \in Items |-> 0] /\ Reached = [i \in Items |-> 0]
  <2>1. ASSUME NEW i \in Items, NEW where
        PROVE  Cardinality(Memos(i, where)) = 0
    <3>1. Memos(i, where) = {}
      BY <1>2 DEF Memos
    <3>2. QED
      BY <3>1, FS_EmptySet
  <2>2. QED
    BY <2>1 DEF Sent, Reached
<1>7. QED
  BY <1>1, <1>4, <1>5, <1>6 DEF Inv, Log!Init

LEMMA NextLogs ==
    ASSUME Inv, [Next]_vars
    PROVE  Inv' /\ [Log!Next]_(Log!vars)
<1>1. Sound'
  BY NextSound DEF Inv
<1>2. CASE UNCHANGED vars
  <2>1. UNCHANGED <<row, doubled, memo, work>>
    BY <1>2 DEF vars, history
  <2>2. Logs
    BY <2>1, ElsewhereLogs
  <2>3. QED
    BY <1>1, <2>2 DEF Inv, Logs
<1>3. ASSUME Next
      PROVE  Logs
  <2>1. CASE \E S \in SUBSET Items \ {{}} : AddToQueue(S)
    BY <2>1, QueueLogs
  <2>2. ASSUME NEW w \in Workers, WorkStep(w) \/ Throw(w)
        PROVE  Logs
    BY <1>1, <2>2, AcquireLogs, FindLogs, CreateLogs, LookupLogs, BroadcastLogs, RpcLogs,
       SaveSignatureLogs, ConfirmLogs, CatchLogs, FailLogs, AbandonLogs, FinishLogs,
       ThrowLogs DEF WorkStep
  <2>3. ASSUME NEW w \in Workers, NEW i \in Items, Take(w, i)
        PROVE  Logs
    BY <2>3, TakeLogs
  <2>4. ASSUME NEW w \in Workers, NEW named \in BOOLEAN, RpcThrows(w, named)
        PROVE  Logs
    BY <1>1, <2>4, RpcLogs
  <2>5. CASE (\E i \in Items : Expire(i)) \/ (\E i \in Items, gone \in BOOLEAN : GiveBack(i, gone))
    BY <2>5, QueueLogs
  <2>6. ASSUME NEW s \in Servers, Crash(s)
        PROVE  Logs
    BY <2>6, CrashLogs
  <2>7. ASSUME NEW n \in 1..Len(memo), Land(n) \/ Break(n, "errored") \/ Break(n, "dropped")
        PROVE  Logs
    <3>1. UNCHANGED <<row, work, doubled>>
      BY <2>7 DEF Land, Break, history
    <3>2. \/ Settles(n, "landed") \/ Settles(n, "errored") \/ Settles(n, "dropped")
      BY <2>7 DEF Land, Break, Settles
    <3>3. QED
      BY <3>1, <3>2, SettlesLogs
  <2>8. QED
    BY <1>3, <2>1, <2>2, <2>3, <2>4, <2>5, <2>6, <2>7 DEF Next
<1>4. QED
  BY <1>1, <1>2, <1>3 DEF Inv, Logs

\* One worker at most is at work on an item, and what it has read of the table is true,
\* as long as no lock of the item was lost to another worker.
THEOREM LogExclusive == Spec => [](Exclusive /\ Knows)
<1>1. Init => Inv
  BY InitLogs
<1>2. Inv /\ [Next]_vars => Inv'
  BY NextLogs
<1>3. Inv => Exclusive /\ Knows
  BY DEF Inv
<1>4. QED
  BY <1>1, <1>2, <1>3, PTL DEF Spec

\* The table keeps the promise of TransactionLog: its rows say "success" only when a
\* memo of the item is on the chain, for good, and no memo is sent after that, through
\* every crash, retry and lost lock, unless two workers handled the item.
THEOREM LogImplemented == Spec => ImplementsLog
<1>1. Init => Inv /\ Log!Init
  BY InitLogs
<1>2. Inv /\ [Next]_vars => Inv' /\ [Log!Next]_(Log!vars)
  BY NextLogs
<1>3. QED
  BY <1>1, <1>2, PTL DEF Spec, ImplementsLog, Log!Spec

-----------------------------------------------------------------------------
(* The memos of an item                                                      *)

\* The memos of i that landed or may still.
Alive(i) == {m \in 1..Len(memo) : memo[m].item = i /\ memo[m].at # "dropped"}

\* No memo is going to be sent for row n: it is logged, or in no set and not to be
\* taken into one.
Closed(n) ==
    \/ row[n].status = "success"
    \/ /\ \A s \in Servers : n \notin processing[s]
       /\ row[n].status # "failed" \/ row[n].sig # 0

\* A worker that has x at hand, with r its row and P the set of its process.
Held(x, r, P) ==
    /\ x.at \in {"find", "create"} => x.row = 0 /\ x.sig = 0
    /\ x.at \in {"broadcast", "rpc", "save", "confirm", "fail"} => x.row \in P
    /\ x.at = "lookup" => x.sig = r.sig /\ x.sig # 0
    /\ x.at \in {"catch", "abandon"} /\ x.row # 0 =>
          x.row \in P \/ (r.sig # 0 /\ (x.at = "catch" => x.sig = r.sig))

HeldBy(w) == Held(work[w], row[work[w].row], processing[Home[w]])

Carries(x, m) ==
    \/ x.at = "rpc" /\ x.memo = m
    \/ x.at \in {"save", "catch"} /\ x.sig = m

\* A, the memos alive, when the worker is going to send one or has sent one.
Clean(x, A) ==
    /\ x.at = "broadcast" => A = {}
    /\ x.at = "rpc" => A \subseteq {x.memo}
    /\ x.at = "save" => A \subseteq {x.sig}

OneRow(i) == \A m, n \in RowsOf(i) : m = n

\* A row in "processing" is in the set of the process of the worker that handles it.
Owned(i) ==
    i \notin orphaned \cup unsaved =>
        \A n \in RowsOf(i) : row[n].status = "processing" =>
            \E w \in Workers : Handling(w, i) /\ Owns(w, n)

AllHeld(i) == \A w \in Workers : Handling(w, i) => HeldBy(w)

\* There is one memo alive at most, and it will not be forgotten.
Traced(i, m) ==
    \/ \E n \in RowsOf(i) : row[n].sig = m \/ Closed(n)
    \/ \E w \in Workers : Handling(w, i) /\ Carries(work[w], m)

Sending(i) ==
    /\ \A m, n \in Alive(i) : m = n
    /\ \A m \in Alive(i) : Traced(i, m)
    /\ \A w \in Workers : Handling(w, i) => Clean(work[w], Alive(i))

ItemOK(i) == OneRow(i) /\ Owned(i) /\ AllHeld(i) /\ (i \notin unsure => Sending(i))

\* A row in "processing" is in the set of one process at most.
OneSet ==
    \A n \in 1..Len(row) : row[n].status = "processing" =>
        \A s, t \in Servers : n \in processing[s] /\ n \in processing[t] => s = t

MemoInv == Inv /\ OneSet /\ \A i \in Items \ doubled : ItemOK(i)

\* What is known of the one worker that handles an item, and of its row.
LEMMA Handler ==
    ASSUME MemoInv, NEW i \in Items \ doubled, NEW w \in Workers, Handling(w, i)
    PROVE  /\ work[w] \in WorkType /\ Fits(work[w]) /\ work[w].item = i
           /\ work[w].row \in 0..Len(row) /\ work[w].sig \in 0..Len(memo)
           /\ work[w].row # 0 => /\ RowsOf(i) = {work[w].row} /\ work[w].row \in 1..Len(row)
                                 /\ row[work[w].row].status # "success"
           /\ \A v \in Workers : Handling(v, i) => v = w
           /\ HeldBy(w) /\ work[w].at # "idle"
<1>1. work[w].at # "idle" /\ work[w].item = i
  BY HandlingBusy DEF MemoInv, Inv
<1>2. /\ work[w] \in WorkType /\ Fits(work[w])
      /\ work[w].row \in 0..Len(row) /\ work[w].sig \in 0..Len(memo) /\ Len(row) \in Nat
      /\ work[w].row # 0 => work[w].row \in 1..Len(row) /\ row[work[w].row].item = i
  BY <1>1, AtHand DEF MemoInv, Inv
<1>3. Knowing(w, i) /\ \A v \in Workers : Handling(v, i) => v = w
  BY DEF MemoInv, Inv, Knows, Exclusive
<1>4. OneRow(i) /\ HeldBy(w)
  BY DEF MemoInv, ItemOK, AllHeld
<1>5. ASSUME work[w].row # 0
      PROVE  RowsOf(i) = {work[w].row} /\ row[work[w].row].status # "success"
  <2>1. work[w].row \in RowsOf(i)
    BY <1>2, <1>5 DEF RowsOf
  <2>2. QED
    BY <1>3, <1>4, <1>5, <2>1 DEF OneRow, Knowing
<1>6. QED
  BY <1>1, <1>2, <1>3, <1>4, <1>5

\* The step does not touch item k, but that a worker may begin with it.
Apart(k) ==
    /\ RowsOf(k)' = RowsOf(k)
    /\ \A n \in RowsOf(k) : row'[n] = row[n]
    /\ \A n \in RowsOf(k), s \in Servers : n \in processing'[s] <=> n \in processing[s]
    /\ Alive(k)' \subseteq Alive(k)
    /\ \A v \in Workers : Handling(v, k) => work'[v] = work[v]
    /\ \A v \in Workers : Handling(v, k)' =>
          \/ Handling(v, k)
          \/ work'[v].at = "find" /\ work'[v].row = 0 /\ work'[v].sig = 0

LEMMA ApartKeeps ==
    ASSUME MemoInv, NEW k \in Items \ doubled, Apart(k),
           orphaned \subseteq orphaned', unsaved \subseteq unsaved', unsure \subseteq unsure'
    PROVE  ItemOK(k)'
<1>0. ItemOK(k)
  BY DEF MemoInv
<1>1. OneRow(k)'
  BY <1>0 DEF ItemOK, OneRow, Apart
<1>2. \A v \in Workers : Handling(v, k) => Handling(v, k)'
  BY DEF Apart, Handling
<1>h. \A w \in Workers : Home[w] \in Servers
  BY ConstantsAssumption
<1>3. Owned(k)'
  <2>1. ASSUME k \notin orphaned' \cup unsaved', NEW n \in RowsOf(k), row[n].status = "processing"
        PROVE  \E w \in Workers : Handling(w, k)' /\ n \in processing'[Home[w]]
    <3>1. PICK w \in Workers : Handling(w, k) /\ n \in processing[Home[w]]
      BY <1>0, <2>1 DEF ItemOK, Owned, Owns
    <3>2. QED
      BY <1>2, <1>h, <3>1 DEF Apart
  <2>2. QED
    BY <2>1 DEF Owned, Owns, Apart
<1>4. ASSUME NEW v \in Workers, Handling(v, k)'
      PROVE  HeldBy(v)' /\ ((work'[v] = work[v] /\ Handling(v, k)) \/ work'[v].at = "find")
  <2>1. CASE Handling(v, k)
    <3>1. work'[v] = work[v] /\ HeldBy(v) /\ work[v] \in WorkType /\ Fits(work[v])
      BY <2>1, Handler DEF Apart
    <3>2. work[v].row # 0 => work[v].row \in RowsOf(k)
      BY <2>1, Handler
    <3>3. PICK x : x = work[v]
      OBVIOUS
    <3>4. PICK r, s, P, Q : /\ r = row[x.row] /\ s = row'[x.row]
                            /\ P = processing[Home[v]] /\ Q = processing'[Home[v]]
      OBVIOUS
    <3>5. Held(x, r, P)
      BY <3>1, <3>3, <3>4 DEF HeldBy
    <3>6. x.row # 0 => s = r /\ (x.row \in P <=> x.row \in Q)
      BY <1>h, <3>2, <3>3, <3>4 DEF Apart
    <3>7. x.at \in {"broadcast", "rpc", "save", "confirm", "fail", "lookup"} => x.row # 0
      BY <3>1, <3>3 DEF Fits
    <3>8. Held(x, s, Q)
      BY <3>5, <3>6, <3>7 DEF Held
    <3>9. QED
      BY <2>1, <3>1, <3>3, <3>4, <3>8 DEF HeldBy
  <2>2. CASE ~Handling(v, k)
    <3>1. work'[v].at = "find" /\ work'[v].row = 0 /\ work'[v].sig = 0
      BY <1>4, <2>2 DEF Apart
    <3>2. QED
      BY <3>1 DEF HeldBy, Held
  <2>3. QED
    BY <2>1, <2>2
<1>5. ASSUME k \notin unsure'
      PROVE  Sending(k)'
  <2>1. Sending(k) /\ Alive(k)' \subseteq Alive(k)
    BY <1>0, <1>5 DEF ItemOK, Apart
  <2>2. \A m, n \in Alive(k)' : m = n
    BY <2>1 DEF Sending
  <2>3. ASSUME NEW m \in Alive(k)'
        PROVE  Traced(k, m)'
    <3>1. Traced(k, m)
      BY <2>1, <2>3 DEF Sending
    <3>2. CASE \E n \in RowsOf(k) : row[n].sig = m \/ Closed(n)
      <4>1. PICK n \in RowsOf(k) : row[n].sig = m \/ Closed(n)
        BY <3>2
      <4>2. row'[n] = row[n] /\ \A s \in Servers : n \in processing'[s] <=> n \in processing[s]
        BY DEF Apart
      <4>3. row'[n].sig = m \/ Closed(n)'
        BY <4>1, <4>2 DEF Closed
      <4>4. QED
        BY <4>3 DEF Traced, Apart
    <3>3. CASE \E w \in Workers : Handling(w, k) /\ Carries(work[w], m)
      <4>1. PICK w \in Workers : Handling(w, k) /\ Carries(work[w], m)
        BY <3>3
      <4>2. Handling(w, k)' /\ Carries(work'[w], m)
        BY <1>2, <4>1 DEF Apart
      <4>3. QED
        BY <4>2 DEF Traced
    <3>4. QED
      BY <3>1, <3>2, <3>3 DEF Traced
  <2>4. ASSUME NEW w \in Workers, Handling(w, k)'
        PROVE  Clean(work'[w], Alive(k)')
    <3>1. CASE work'[w] = work[w] /\ Handling(w, k)
      <4>1. Clean(work'[w], Alive(k))
        BY <2>1, <3>1 DEF Sending
      <4>2. PICK A, B : A = Alive(k) /\ B = Alive(k)'
        OBVIOUS
      <4>3. QED
        BY <2>1, <4>1, <4>2 DEF Clean
    <3>2. CASE work'[w].at = "find"
      BY <3>2 DEF Clean
    <3>3. QED
      BY <1>4, <2>4, <3>1, <3>2
  <2>5. QED
    BY <2>2, <2>3, <2>4 DEF Sending
<1>6. QED
  BY <1>1, <1>3, <1>4, <1>5 DEF ItemOK, AllHeld

\* A step of worker w touches no other worker and no row or memo of another item.
Only(w, i) ==
    /\ \A v \in Workers \ {w} : work'[v] = work[v]
    /\ work'[w].item = i
    /\ Len(row) <= Len(row') /\ Len(memo) <= Len(memo')
    /\ \A n \in 1..Len(row') :
          IF n \in 1..Len(row) THEN row'[n] = row[n] \/ (row'[n].item = i /\ row[n].item = i)
                               ELSE row'[n].item = i
    /\ \A n \in 1..Len(row), s \in Servers :
          row[n].item # i => (n \in processing'[s] <=> n \in processing[s])
    /\ \A m \in 1..Len(memo') :
          IF m \in 1..Len(memo) THEN memo'[m] = memo[m] ELSE memo'[m].item = i

LEMMA OnlyApart ==
    ASSUME Sound, NEW w \in Workers, NEW i \in Items, Handling(w, i), Only(w, i), NEW k \in Items \ {i}
    PROVE  Apart(k)
<1>1. Len(row) \in Nat /\ Len(memo) \in Nat
  BY Lengths DEF Sound
<1>2. RowsOf(k)' = RowsOf(k)
  <2>1. ASSUME NEW n \in 1..Len(row')
        PROVE  row'[n].item = k <=> n \in 1..Len(row) /\ row[n].item = k
    BY <2>1 DEF Only
  <2>2. \A n \in 1..Len(row) : n \in 1..Len(row')
    BY <1>1 DEF Only
  <2>3. QED
    BY <2>1, <2>2 DEF RowsOf
<1>3. ASSUME NEW n \in RowsOf(k)
      PROVE  /\ row'[n] = row[n]
             /\ \A s \in Servers : n \in processing'[s] <=> n \in processing[s]
  <2>1. n \in 1..Len(row) /\ n \in 1..Len(row') /\ row[n].item # i
    BY <1>1 DEF RowsOf, Only
  <2>2. QED
    BY <2>1 DEF Only
<1>4. Alive(k)' \subseteq Alive(k)
  <2>1. ASSUME NEW m \in Alive(k)'
        PROVE  m \in Alive(k)
    BY <2>1 DEF Alive, Only
  <2>2. QED
    BY <2>1
<1>5. \A v \in Workers : Handling(v, k) => v # w
  BY DEF Handling
<1>6. \A v \in Workers : Handling(v, k)' => Handling(v, k)
  BY DEF Handling, Only
<1>7. QED
  BY <1>2, <1>3, <1>4, <1>5, <1>6 DEF Apart, Only

LEMMA OwnKeeps ==
    ASSUME MemoInv, Inv', OneSet', NEW w \in Workers, NEW i \in Items, Handling(w, i), Only(w, i),
           doubled' = doubled, orphaned \subseteq orphaned', unsaved \subseteq unsaved',
           unsure \subseteq unsure', i \notin doubled => ItemOK(i)'
    PROVE  MemoInv'
<1>1. ASSUME NEW k \in Items \ doubled, k # i
      PROVE  ItemOK(k)'
  BY <1>1, OnlyApart, ApartKeeps DEF MemoInv, Inv
<1>2. QED
  BY <1>1 DEF MemoInv

\* A row that is in "processing" is in no set it was not in.
LEMMA SetsShrink ==
    ASSUME Sound, OneSet,
           \A n \in 1..Len(row') : row'[n].status = "processing" =>
              /\ n \in 1..Len(row) /\ row[n].status = "processing"
              /\ \A s \in Servers : n \in processing'[s] => n \in processing[s]
    PROVE  OneSet'
  BY DEF OneSet

\* A worker goes on with the row and the memos as they are.
LEMMA Moves ==
    ASSUME MemoInv, Inv', NEW w \in Workers, NEW i \in Items, Handling(w, i),
           UNCHANGED <<row, memo, processing, doubled>>,
           orphaned \subseteq orphaned', unsaved \subseteq unsaved', unsure \subseteq unsure',
           NEW x, Goes(w, x), x.item = i, x.at # "acquire",
           i \notin doubled =>
             /\ \/ x.at \notin {"resolve", "reject"} \/ i \in unsaved'
                \/ \A n \in RowsOf(i) : row[n].status = "processing" => ~Owns(w, n)
             /\ x.at \notin {"resolve", "reject"} => Held(x, row[x.row], processing[Home[w]])
             /\ i \notin unsure' => /\ Clean(x, Alive(i))
                                    /\ \A m \in Alive(i) : Carries(work[w], m) => Carries(x, m)
    PROVE  MemoInv'
<1>1. work'[w] = x /\ \A v \in Workers \ {w} : work'[v] = work[v]
  BY OneGoes DEF MemoInv, Inv
<1>2. Only(w, i)
  <2>1. Len(row) \in Nat /\ Len(memo) \in Nat
    BY Lengths DEF MemoInv, Inv, Sound
  <2>2. QED
    BY <1>1, <2>1 DEF Only
<1>3. OneSet'
  BY DEF OneSet, MemoInv
<1>4. ASSUME i \notin doubled
      PROVE  ItemOK(i)'
  <2>1. ItemOK(i) /\ \A v \in Workers : Handling(v, i) => v = w
    BY <1>4, Handler DEF MemoInv
  <2>2. \A v \in Workers : Handling(v, i)' => v = w
    BY <1>1, <2>1 DEF Handling
  <2>3. Handling(w, i)' <=> x.at \notin {"acquire", "resolve", "reject"}
    BY <1>1 DEF Handling
  <2>4. OneRow(i)' /\ RowsOf(i)' = RowsOf(i) /\ Alive(i)' = Alive(i)
    BY <2>1 DEF ItemOK, OneRow, RowsOf, Alive
  <2>5. Owned(i)'
    <3>1. ASSUME i \notin orphaned' \cup unsaved', NEW n \in RowsOf(i), row[n].status = "processing"
          PROVE  Handling(w, i)' /\ Owns(w, n)'
      <4>1. Owns(w, n)
        BY <2>1, <3>1 DEF ItemOK, Owned
      <4>2. x.at \notin {"resolve", "reject"}
        BY <1>4, <3>1, <4>1
      <4>3. QED
        BY <2>3, <4>1, <4>2 DEF Owns
    <3>2. QED
      BY <2>4, <3>1 DEF Owned
  <2>6. AllHeld(i)'
    <3>1. ASSUME Handling(w, i)'
          PROVE  HeldBy(w)'
      BY <1>1, <1>4, <2>3, <3>1 DEF HeldBy
    <3>2. QED
      BY <2>2, <3>1 DEF AllHeld
  <2>7. ASSUME i \notin unsure'
        PROVE  Sending(i)'
    <3>1. Sending(i)
      BY <2>1, <2>7 DEF ItemOK
    <3>2. ASSUME NEW m \in Alive(i)
          PROVE  Traced(i, m)'
      <4>1. CASE \E n \in RowsOf(i) : row[n].sig = m \/ Closed(n)
        <5>1. PICK n \in RowsOf(i) : row[n].sig = m \/ Closed(n)
          BY <4>1
        <5>2. row'[n].sig = m \/ Closed(n)'
          BY <5>1 DEF Closed
        <5>3. QED
          BY <2>4, <5>2 DEF Traced
      <4>2. CASE Carries(work[w], m)
        <5>1. Carries(x, m)
          BY <1>4, <2>7, <4>2
        <5>2. Handling(w, i)'
          BY <2>3, <5>1 DEF Carries
        <5>3. QED
          BY <1>1, <5>1, <5>2 DEF Traced
      <4>3. QED
        BY <2>1, <3>1, <4>1, <4>2 DEF Sending, Traced
    <3>3. ASSUME NEW v \in Workers, Handling(v, i)'
          PROVE  Clean(work'[v], Alive(i)')
      <4>1. v = w
        BY <2>2, <3>3
      <4>2. Clean(x, Alive(i))
        BY <1>4, <2>7
      <4>3. PICK A : A = Alive(i)
        OBVIOUS
      <4>4. QED
        BY <1>1, <2>4, <4>1, <4>2, <4>3 DEF Clean
    <3>4. QED
      BY <2>4, <3>1, <3>2, <3>3 DEF Sending
  <2>8. QED
    BY <2>4, <2>5, <2>6, <2>7 DEF ItemOK
<1>5. QED
  BY <1>2, <1>3, <1>4, OwnKeeps

\* No memo is alive of an item whose row is open and names none.
LEMMA NoneAlive ==
    ASSUME MemoInv, NEW i \in Items \ doubled, i \notin unsure, NEW w \in Workers, Handling(w, i),
           work[w].at \notin {"rpc", "save", "catch"},
           \A n \in RowsOf(i) : ~Closed(n) /\ row[n].sig \notin Alive(i)
    PROVE  Alive(i) = {}
<1>1. ASSUME NEW m \in Alive(i)
      PROVE  FALSE
  <2>1. Traced(i, m)
    BY <1>1 DEF MemoInv, ItemOK, Sending
  <2>2. \A v \in Workers : Handling(v, i) => v = w
    BY Handler
  <2>3. \A v \in Workers : Handling(v, i) => ~Carries(work[v], m)
    BY <2>2 DEF Carries
  <2>4. QED
    BY <1>1, <2>1, <2>3 DEF Traced
<1>2. QED
  BY <1>1

\* The next label of a worker, or its next try.
LEMMA AtFields ==
    ASSUME Sound, NEW w \in Workers, NEW l, NEW x, x = [work[w] EXCEPT !.at = l]
    PROVE  x.at = l /\ x.item = work[w].item /\ x.row = work[w].row /\ x.sig = work[w].sig
<1>1. work[w] \in WorkType
  BY WorkerFields
<1>2. QED
  BY <1>1 DEF WorkType

LEMMA AgainFields ==
    ASSUME Sound, NEW w \in Workers, NEW x,
           x = [Idle EXCEPT !.at = "find", !.item = work[w].item, !.retry = work[w].retry - 1]
    PROVE  x.at = "find" /\ x.item = work[w].item /\ x.row = 0 /\ x.sig = 0
  BY DEF Idle

LEMMA ThrowMemo ==
    ASSUME MemoInv, Inv', NEW w \in Workers, Throw(w)
    PROVE  MemoInv'
<1> DEFINE x == [work[w] EXCEPT !.at = "catch"]
<1>1. /\ work[w].at \in {"find", "create", "lookup", "broadcast", "save", "confirm", "fail"}
      /\ UNCHANGED <<row, memo, processing, doubled, orphaned, unsaved, unsure>>
      /\ Goes(w, x)
  BY DEF Throw, history, At
<1>2. PICK i \in Items : Handling(w, i) /\ work[w].item = i
  BY <1>1, Handles DEF MemoInv, Inv
<1>3. x.at = "catch" /\ x.item = i /\ x.row = work[w].row /\ x.sig = work[w].sig
  BY <1>2, AtFields DEF MemoInv, Inv
<1> HIDE DEF x
<1>4. ASSUME i \notin doubled
      PROVE  /\ Held(x, row[x.row], processing[Home[w]])
             /\ i \notin unsure' => /\ Clean(x, Alive(i))
                                    /\ \A m \in Alive(i) : Carries(work[w], m) => Carries(x, m)
  <2>1. Held(work[w], row[work[w].row], processing[Home[w]])
    BY <1>2, <1>4, Handler DEF HeldBy
  <2>2. PICK r, P : r = row[x.row] /\ P = processing[Home[w]]
    OBVIOUS
  <2>3. Held(work[w], r, P)
    BY <1>3, <2>1, <2>2
  <2>4. Held(x, r, P)
    BY <1>1, <1>3, <2>3 DEF Held
  <2>5. Clean(x, Alive(i))
    BY <1>3 DEF Clean
  <2>6. \A m \in Alive(i) : Carries(work[w], m) => Carries(x, m)
    BY <1>1, <1>3 DEF Carries
  <2>7. QED
    BY <2>2, <2>4, <2>5, <2>6
<1>5. QED
  BY <1>1, <1>2, <1>3, <1>4, Moves

LEMMA RpcMemo ==
    ASSUME MemoInv, Inv', NEW w \in Workers, RpcReturns(w) \/ \E named \in BOOLEAN : RpcThrows(w, named)
    PROVE  MemoInv'
<1>1. /\ work[w].at = "rpc" /\ work[w] \in WorkType
      /\ UNCHANGED <<row, memo, processing, doubled, orphaned, unsaved>> /\ unsure \subseteq unsure'
  BY WorkerFields DEF RpcReturns, RpcThrows, history, MemoInv, Inv
<1>2. PICK i \in Items : Handling(w, i) /\ work[w].item = i
  BY <1>1, Handles DEF MemoInv, Inv
<1>3. PICK l \in {"save", "catch"}, sig \in {0, work[w].sig, work[w].memo} :
         /\ Goes(w, [work[w] EXCEPT !.at = l, !.sig = sig])
         /\ l = "save" => sig = work[w].memo
         /\ i \notin unsure' => sig = work[w].memo \/ memo[work[w].memo].at = "dropped"
  <2>1. CASE RpcReturns(w)
    BY <2>1 DEF RpcReturns
  <2>2. ASSUME NEW named \in BOOLEAN, RpcThrows(w, named)
        PROVE  \E sig \in {0, work[w].sig, work[w].memo} :
                 /\ Goes(w, [work[w] EXCEPT !.at = "catch", !.sig = sig])
                 /\ i \notin unsure' => sig = work[w].memo \/ memo[work[w].memo].at = "dropped"
    BY <1>2, <2>2 DEF RpcThrows
  <2>3. QED
    BY <2>1, <2>2
<1> DEFINE x == [work[w] EXCEPT !.at = l, !.sig = sig]
<1>4. x.at = l /\ x.item = i /\ x.row = work[w].row /\ x.sig = sig
  BY <1>1, <1>2 DEF WorkType
<1>5. Goes(w, x)
  BY <1>3
<1> HIDE DEF x
<1>6. ASSUME i \notin doubled
      PROVE  /\ Held(x, row[x.row], processing[Home[w]])
             /\ i \notin unsure' => /\ Clean(x, Alive(i))
                                    /\ \A m \in Alive(i) : Carries(work[w], m) => Carries(x, m)
  <2>1. Held(work[w], row[work[w].row], processing[Home[w]])
    BY <1>2, <1>6, Handler DEF HeldBy
  <2>2. PICK r, P : r = row[x.row] /\ P = processing[Home[w]]
    OBVIOUS
  <2>3. Held(work[w], r, P)
    BY <1>4, <2>1, <2>2
  <2>4. Held(x, r, P)
    BY <1>1, <1>4, <2>3 DEF Held
  <2>5. ASSUME i \notin unsure'
        PROVE  Clean(x, Alive(i))
    <3>1. Clean(work[w], Alive(i))
      BY <1>1, <1>2, <1>6, <2>5 DEF MemoInv, ItemOK, Sending
    <3>2. PICK A : A = Alive(i)
      OBVIOUS
    <3>3. Clean(work[w], A)
      BY <3>1, <3>2
    <3>4. Clean(x, A)
      BY <1>1, <1>3, <1>4, <3>3 DEF Clean
    <3>5. QED
      BY <3>2, <3>4
  <2>6. ASSUME i \notin unsure', NEW m \in Alive(i), Carries(work[w], m)
        PROVE  Carries(x, m)
    <3>1. m = work[w].memo /\ memo[m].at # "dropped"
      BY <1>1, <2>6 DEF Carries, Alive
    <3>2. QED
      BY <1>3, <1>4, <2>6, <3>1 DEF Carries
  <2>7. QED
    BY <2>2, <2>4, <2>5, <2>6
<1>7. QED
  BY <1>1, <1>2, <1>4, <1>5, <1>6, Moves

\* The status of the row at hand is set, and the row leaves the set: the work is over.
LEMMA SetRowFields ==
    ASSUME Sound, NEW w \in Workers, work[w].row # 0, NEW status \in {"success", "failed"},
           SetRow(w, status)
    PROVE  /\ Len(row') = Len(row) /\ work[w].row \in 1..Len(row)
           /\ row'[work[w].row].status = status
           /\ row'[work[w].row].sig = row[work[w].row].sig
           /\ row'[work[w].row].item = row[work[w].row].item
           /\ \A k \in 1..Len(row) \ {work[w].row} : row'[k] = row[k]
<1>1. work[w].row \in 1..Len(row)
  <2>1. work[w].row \in 0..Len(row) /\ Len(row) \in Nat
    BY WorkerFields, WorkFields, Lengths DEF Sound
  <2>2. QED
    BY <2>1
<1> DEFINE n == work[w].row
           e == [row[n] EXCEPT !.status = status]
<1>2. row \in Seq(RowType) /\ row[n] \in RowType
  BY <1>1, RowFields DEF Sound, TypeOK
<1>3. e \in RowType /\ e.item = row[n].item /\ e.sig = row[n].sig /\ e.status = status
  BY <1>2 DEF RowType
<1>4. row' = [row EXCEPT ![n] = e]
  BY DEF SetRow
<1> HIDE DEF e, n
<1>6. Len(row') = Len(row) /\ row'[n] = e /\ \A k \in 1..Len(row) \ {n} : row'[k] = row[k]
  BY <1>1, <1>2, <1>3, <1>4, ExceptSeq DEF n
<1>7. QED
  BY <1>1, <1>3, <1>6 DEF n

LEMMA EndsMemo ==
    ASSUME MemoInv, Inv', NEW w \in Workers, NEW i \in Items, Handling(w, i), work[w].row # 0,
           NEW status \in {"success", "failed"}, SetRow(w, status), Forget(w),
           NEW l \in {"resolve", "reject"}, At(w, l),
           status = "failed" => work[w].at \in {"fail", "abandon"},
           UNCHANGED <<memo, doubled, orphaned, unsaved, unsure>>
    PROVE  MemoInv'
<1> DEFINE x == [work[w] EXCEPT !.at = l]
<1>n. PICK n : n = work[w].row
  OBVIOUS
<1>1. work[w].item = i /\ Sound
  BY HandlingBusy DEF MemoInv, Inv
<1>2. x.at = l /\ x.item = i /\ Goes(w, x)
  BY <1>1, AtFields DEF At
<1>3. /\ Len(row') = Len(row) /\ n \in 1..Len(row) /\ row'[n].status = status
      /\ row'[n].sig = row[n].sig /\ row'[n].item = row[n].item
      /\ \A k \in 1..Len(row) \ {n} : row'[k] = row[k]
  BY <1>1, <1>n, SetRowFields
<1>4. row[n].item = i /\ Len(row) \in Nat /\ Len(memo) \in Nat
  BY <1>1, <1>3, <1>n, AtHand, HandlingBusy
<1> HIDE DEF x
<1>5. work'[w] = x /\ \A v \in Workers \ {w} : work'[v] = work[v]
  BY <1>1, <1>2, OneGoes
<1>h. Home[w] \in Servers /\ processing \in [Servers -> SUBSET (1..Len(row))]
  BY <1>1, ConstantsAssumption DEF Sound, TypeOK
<1>6. \A k, s : s \in Servers => (k \in processing'[s] <=> k \in processing[s] /\ (k # n \/ s # Home[w]))
  BY <1>h, <1>n DEF Forget
<1>7. Only(w, i)
  <2>1. ASSUME NEW k \in 1..Len(row'), ~(row'[k] = row[k])
        PROVE  row'[k].item = i /\ row[k].item = i
    BY <1>3, <1>4, <2>1
  <2>2. ASSUME NEW k \in 1..Len(row), NEW s \in Servers, row[k].item # i
        PROVE  k \in processing'[s] <=> k \in processing[s]
    BY <1>4, <1>6, <2>2
  <2>3. work'[w].item = i
    BY <1>2, <1>5
  <2>4. QED
    BY <1>3, <1>4, <1>5, <2>1, <2>2, <2>3 DEF Only
<1>8. OneSet'
  <2>1. ASSUME NEW k \in 1..Len(row'), row'[k].status = "processing"
        PROVE  /\ k \in 1..Len(row) /\ row[k].status = "processing"
               /\ \A s \in Servers : k \in processing'[s] => k \in processing[s]
    BY <1>3, <1>6, <2>1
  <2>2. QED
    BY <1>1, <2>1, SetsShrink DEF MemoInv
<1>9. ASSUME i \notin doubled
      PROVE  ItemOK(i)'
  <2>1. /\ ItemOK(i) /\ \A v \in Workers : Handling(v, i) => v = w
        /\ RowsOf(i) = {n} /\ row[n].status # "success"
        /\ Held(work[w], row[n], processing[Home[w]])
    BY <1>9, <1>n, Handler DEF MemoInv, HeldBy
  <2>2. \A v \in Workers : ~Handling(v, i)'
    BY <1>2, <1>5, <2>1 DEF Handling
  <2>3. RowsOf(i)' = {n}
    <3>1. \A k \in 1..Len(row) : row'[k].item = row[k].item
      BY <1>3
    <3>2. RowsOf(i)' = RowsOf(i)
      BY <1>3, <3>1 DEF RowsOf
    <3>3. QED
      BY <2>1, <3>2
  <2>4. OneRow(i)' /\ Owned(i)' /\ AllHeld(i)'
    BY <1>3, <2>2, <2>3 DEF OneRow, Owned, AllHeld
  <2>5. ASSUME i \notin unsure'
        PROVE  Sending(i)'
    <3>1. Sending(i) /\ Alive(i)' = Alive(i)
      BY <2>1, <2>5 DEF ItemOK, Alive
    <3>2. ASSUME NEW m \in Alive(i)
          PROVE  row'[n].sig = m \/ Closed(n)'
      <4>1. CASE status = "success"
        BY <1>3, <4>1 DEF Closed
      <4>2. CASE status = "failed"
        <5>1. work[w].at \in {"fail", "abandon"}
          BY <4>2
        <5>2. \A v \in Workers : Handling(v, i) => ~Carries(work[v], m)
          BY <2>1, <5>1 DEF Carries
        <5>3. row[n].sig = m \/ Closed(n)
          BY <2>1, <3>1, <5>2 DEF Sending, Traced
        <5>4. ASSUME Closed(n)
              PROVE  row[n].sig # 0
          <6>1. n \notin processing[Home[w]]
            BY <1>h, <2>1, <5>4 DEF Closed
          <6>2. PICK r, P : r = row[n] /\ P = processing[Home[w]]
            OBVIOUS
          <6>3. Held(work[w], r, P) /\ n \notin P
            BY <2>1, <6>1, <6>2
          <6>4. r.sig # 0
            BY <1>n, <5>1, <6>3 DEF Held
          <6>5. QED
            BY <6>2, <6>4
        <5>5. ASSUME Closed(n)
              PROVE  Closed(n)'
          BY <1>3, <1>6, <2>1, <5>4, <5>5 DEF Closed
        <5>6. QED
          BY <1>3, <5>3, <5>5
      <4>3. QED
        BY <4>1, <4>2
    <3>3. \A m \in Alive(i) : Traced(i, m)'
      BY <2>3, <3>2 DEF Traced
    <3>4. QED
      BY <2>2, <3>1, <3>3 DEF Sending
  <2>6. QED
    BY <2>4, <2>5 DEF ItemOK
<1>10. QED
  BY <1>7, <1>8, <1>9, OwnKeeps

LEMMA SucceedMemo ==
    ASSUME MemoInv, Inv', NEW w \in Workers, NEW i \in Items, Handling(w, i), work[w].row # 0, Succeed(w),
           UNCHANGED <<memo, doubled, orphaned, unsaved, unsure>>
    PROVE  MemoInv'
  BY EndsMemo DEF Succeed

LEMMA GiveUpMemo ==
    ASSUME MemoInv, Inv', NEW w \in Workers, NEW i \in Items, Handling(w, i), work[w].row # 0, GiveUp(w),
           At(w, "reject"), work[w].at \in {"fail", "abandon"},
           UNCHANGED <<memo, doubled, orphaned, unsaved, unsure>>
    PROVE  MemoInv'
  BY EndsMemo DEF GiveUp

\* The next try begins with what is in the row.
LEMMA AgainMemo ==
    ASSUME MemoInv, Inv', NEW w \in Workers, NEW i \in Items, Handling(w, i), Again(w),
           UNCHANGED <<row, memo, processing, doubled, orphaned, unsaved>>, unsure \subseteq unsure',
           i \notin unsure' => \A m \in Alive(i) : ~Carries(work[w], m)
    PROVE  MemoInv'
<1> DEFINE x == [Idle EXCEPT !.at = "find", !.item = work[w].item, !.retry = work[w].retry - 1]
<1>1. Goes(w, x) /\ work[w].item = i
  BY HandlingBusy DEF Again, MemoInv, Inv
<1>2. x.at = "find" /\ x.item = i /\ x.row = 0 /\ x.sig = 0
  BY <1>1, AgainFields DEF MemoInv, Inv
<1> HIDE DEF x
<1>3. Held(x, row[x.row], processing[Home[w]]) /\ Clean(x, Alive(i))
  BY <1>2 DEF Held, Clean
<1>4. QED
  BY <1>1, <1>2, <1>3, Moves

\* A worker goes on to another label.
LEMMA AtMemo ==
    ASSUME MemoInv, Inv', NEW w \in Workers, NEW i \in Items, Handling(w, i), NEW l, At(w, l),
           l \in {"broadcast", "catch", "abandon", "fail", "reject"},
           UNCHANGED <<row, memo, processing, doubled, orphaned>>,
           unsaved \subseteq unsaved', unsure \subseteq unsure',
           i \notin doubled =>
             /\ l = "broadcast" \/ l = "fail" => Owns(w, work[w].row)
             /\ l = "broadcast" /\ i \notin unsure' => Alive(i) = {}
             /\ l \in {"catch", "abandon"} => Owns(w, work[w].row) \/ work[w].at = "catch"
             /\ l = "reject" => \/ i \in unsaved'
                                \/ \A n \in RowsOf(i) : row[n].status = "processing" => ~Owns(w, n)
             /\ i \notin unsure' => \A m \in Alive(i) : ~Carries(work[w], m)
    PROVE  MemoInv'
<1> DEFINE x == [work[w] EXCEPT !.at = l]
<1>1. work[w].item = i /\ Goes(w, x)
  BY HandlingBusy DEF At, MemoInv, Inv
<1>2. x.at = l /\ x.item = i /\ x.row = work[w].row /\ x.sig = work[w].sig
  BY <1>1, AtFields DEF MemoInv, Inv
<1> HIDE DEF x
<1>3. ASSUME i \notin doubled, l # "reject"
      PROVE  Held(x, row[x.row], processing[Home[w]])
  <2>1. Held(work[w], row[work[w].row], processing[Home[w]])
    BY <1>3, Handler DEF HeldBy
  <2>2. PICK r, P : r = row[x.row] /\ P = processing[Home[w]]
    OBVIOUS
  <2>3. Held(work[w], r, P)
    BY <1>2, <2>1, <2>2
  <2>4. \/ x.row \in P
        \/ work[w].at = "catch" /\ l \in {"catch", "abandon"}
    BY <1>2, <1>3, <2>2 DEF Owns
  <2>5. Held(x, r, P)
    BY <1>2, <1>3, <2>3, <2>4 DEF Held
  <2>6. QED
    BY <2>2, <2>5
<1>4. i \notin doubled /\ i \notin unsure' => Clean(x, Alive(i))
  BY <1>2 DEF Clean
<1>5. QED
  BY <1>1, <1>2, <1>3, <1>4, Moves

LEMMA LookupMemo ==
    ASSUME MemoInv, Inv', NEW w \in Workers, Lookup(w)
    PROVE  MemoInv'
<1>1. /\ work[w].at = "lookup" /\ UNCHANGED <<memo, doubled, orphaned, unsaved>>
      /\ work[w].row # 0
  BY AtHand DEF Lookup, MemoInv, Inv, Fits
<1>2. PICK i \in Items : Handling(w, i) /\ work[w].item = i
  BY <1>1, Handles DEF MemoInv, Inv
<1>3. CASE Succeed(w) /\ UNCHANGED unsure
  BY <1>1, <1>2, <1>3, SucceedMemo
<1>4. ASSUME i \notin doubled
      PROVE  /\ RowsOf(i) = {work[w].row} /\ row[work[w].row].status # "success"
             /\ work[w].sig = row[work[w].row].sig /\ work[w].sig # 0
  BY <1>1, <1>2, <1>4, Handler DEF HeldBy, Held
<1>5. \A m : ~Carries(work[w], m)
  BY <1>1 DEF Carries
<1>6. CASE Owns(w, work[w].row) /\ At(w, "broadcast") /\ Doubts(w) /\ UNCHANGED <<row, processing>>
  <2>1. unsure \subseteq unsure'
    BY <1>6 DEF Doubts
  <2>2. ASSUME i \notin doubled, i \notin unsure'
        PROVE  Alive(i) = {}
    <3>1. memo[work[w].sig].at = "dropped"
      BY <1>2, <1>4, <1>6, <2>2 DEF Doubts
    <3>2. work[w].sig \notin Alive(i)
      BY <3>1 DEF Alive
    <3>3. ~Closed(work[w].row)
      <4>1. Home[w] \in Servers
        BY ConstantsAssumption
      <4>2. QED
        BY <1>4, <1>6, <2>2, <4>1 DEF Closed, Owns
    <3>4. QED
      BY <1>1, <1>2, <1>4, <2>1, <2>2, <3>2, <3>3, NoneAlive
  <2>3. QED
    BY <1>1, <1>2, <1>5, <1>6, <2>1, <2>2, AtMemo
<1>7. CASE ~Owns(w, work[w].row) /\ At(w, "reject") /\ UNCHANGED <<row, processing, unsure>>
  BY <1>1, <1>2, <1>4, <1>5, <1>7, AtMemo
<1>8. QED
  BY <1>3, <1>6, <1>7 DEF Lookup

LEMMA ConfirmMemo ==
    ASSUME MemoInv, Inv', NEW w \in Workers, Confirm(w)
    PROVE  MemoInv'
<1>1. /\ work[w].at = "confirm" /\ UNCHANGED <<memo, doubled, orphaned, unsaved>>
      /\ work[w].row # 0
  BY AtHand DEF Confirm, MemoInv, Inv, Fits
<1>2. PICK i \in Items : Handling(w, i) /\ work[w].item = i
  BY <1>1, Handles DEF MemoInv, Inv
<1>3. i \notin doubled => Owns(w, work[w].row)
  BY <1>1, <1>2, Handler DEF HeldBy, Held, Owns
<1>4. \A m : ~Carries(work[w], m)
  BY <1>1 DEF Carries
<1>5. CASE Succeed(w) /\ UNCHANGED unsure
  BY <1>1, <1>2, <1>5, SucceedMemo
<1>6. ASSUME UNCHANGED <<row, processing>>, unsure \subseteq unsure',
             Again(w) \/ At(w, "fail") \/ At(w, "catch")
      PROVE  MemoInv'
  BY <1>1, <1>2, <1>3, <1>4, <1>6, AgainMemo, AtMemo
<1>7. QED
  BY <1>5, <1>6 DEF Confirm, Doubts

LEMMA CatchMemo ==
    ASSUME MemoInv, Inv', NEW w \in Workers, Catch(w)
    PROVE  MemoInv'
<1>1. work[w].at = "catch" /\ UNCHANGED <<memo, doubled, orphaned, unsaved>>
  BY DEF Catch
<1>2. PICK i \in Items : Handling(w, i) /\ work[w].item = i
  BY <1>1, Handles DEF MemoInv, Inv
<1>3. CASE Finds(w) /\ Succeed(w) /\ UNCHANGED unsure
  <2>1. work[w].sig # 0
    BY <1>1, <1>3, AtHand DEF Finds, OnChain, MemoInv, Inv
  <2>2. work[w].row # 0
    BY <1>1, <2>1, AtHand DEF Fits, MemoInv, Inv
  <2>3. QED
    BY <1>1, <1>2, <1>3, <2>2, SucceedMemo
<1>4. ASSUME UNCHANGED <<row, processing>>, Doubts(w), Again(w) \/ At(w, "abandon")
      PROVE  MemoInv'
  <2>1. unsure \subseteq unsure'
    BY <1>4 DEF Doubts
  <2>2. ASSUME i \notin unsure', NEW m \in Alive(i), Carries(work[w], m)
        PROVE  FALSE
    <3>1. work[w].sig = m /\ m # 0 /\ memo[m].at # "dropped"
      BY <1>1, <2>2 DEF Carries, Alive
    <3>2. QED
      BY <1>2, <1>4, <2>2, <3>1 DEF Doubts
  <2>3. QED
    BY <1>1, <1>2, <1>4, <2>1, <2>2, AgainMemo, AtMemo
<1>5. QED
  BY <1>3, <1>4 DEF Catch

LEMMA FailMemo ==
    ASSUME MemoInv, Inv', NEW w \in Workers, Fail(w)
    PROVE  MemoInv'
<1>1. /\ work[w].at = "fail" /\ UNCHANGED <<memo, doubled, orphaned, unsaved, unsure>>
      /\ work[w].row # 0 /\ GiveUp(w) /\ At(w, "reject")
  BY AtHand DEF Fail, MemoInv, Inv, Fits
<1>2. PICK i \in Items : Handling(w, i) /\ work[w].item = i
  BY <1>1, Handles DEF MemoInv, Inv
<1>3. QED
  BY <1>1, <1>2, GiveUpMemo

LEMMA AbandonMemo ==
    ASSUME MemoInv, Inv', NEW w \in Workers, Abandon(w)
    PROVE  MemoInv'
<1>1. /\ work[w].at = "abandon" /\ UNCHANGED <<memo, doubled, orphaned, unsure>>
      /\ At(w, "reject")
  BY DEF Abandon
<1>2. PICK i \in Items : Handling(w, i) /\ work[w].item = i
  BY <1>1, Handles DEF MemoInv, Inv
<1>3. CASE work[w].row # 0 /\ GiveUp(w) /\ UNCHANGED <<faults, unsaved>>
  BY <1>1, <1>2, <1>3, GiveUpMemo
<1>4. ASSUME UNCHANGED <<row, processing>>, unsaved \subseteq unsaved',
             i \in unsaved' \/ RowsOf(i) = {}
      PROVE  MemoInv'
  <2>1. \A m : ~Carries(work[w], m)
    BY <1>1 DEF Carries
  <2>2. i \in unsaved' \/ \A n \in RowsOf(i) : row[n].status = "processing" => ~Owns(w, n)
    BY <1>4
  <2>3. QED
    BY <1>1, <1>2, <1>4, <2>1, <2>2, AtMemo
<1>5. QED
  BY <1>2, <1>3, <1>4 DEF Abandon

\* A worker that reads the row sends a memo only if none is alive.
LEMMA FindMemo ==
    ASSUME MemoInv, Inv', NEW w \in Workers, Find(w)
    PROVE  MemoInv'
<1>1. /\ work[w].at = "find" /\ UNCHANGED <<row, memo, doubled, orphaned, unsaved, unsure>>
      /\ Sound
  BY DEF Find, history, MemoInv, Inv
<1>2. PICK i \in Items : Handling(w, i) /\ work[w].item = i
  BY <1>1, Handles
<1>3. PICK n : n = FindOne(i)
  OBVIOUS
<1>4. PICK takes : takes = (n # 0 /\ row[n].sig = 0 /\ row[n].status = "failed") /\ takes \in BOOLEAN
  OBVIOUS
<1>5. PICK sig : sig = IF n = 0 THEN 0 ELSE row[n].sig
  OBVIOUS
<1>6. PICK at : at = IF n = 0 THEN "create"
                     ELSE IF row[n].status = "success" THEN "resolve"
                     ELSE IF row[n].sig # 0 THEN "lookup"
                     ELSE IF takes \/ Owns(w, n) THEN "broadcast" ELSE "reject"
  OBVIOUS
<1> DEFINE x == [work[w] EXCEPT !.row = n, !.sig = sig, !.at = at]
<1>7. Goes(w, x) /\ processing' = IF takes THEN [processing EXCEPT ![Home[w]] = @ \cup {n}] ELSE processing
  BY <1>2, <1>3, <1>4, <1>5, <1>6 DEF Find
<1>8. work[w] \in WorkType
  BY <1>1, WorkerFields
<1>9. x.item = i /\ x.row = n /\ x.at = at /\ x.sig = sig
  BY <1>2, <1>8 DEF WorkType
<1> HIDE DEF x
<1>10. work'[w] = x /\ \A v \in Workers \ {w} : work'[v] = work[v]
  BY <1>1, <1>7, OneGoes
<1>11. /\ n = 0 => RowsOf(i) = {}
       /\ n # 0 => n \in 1..Len(row) /\ row[n].item = i /\ n \in RowsOf(i)
  BY <1>1, <1>3, FindOneFirst DEF FindOne, RowsOf, Sound
<1>12. i \notin doubled => ItemOK(i) /\ (n # 0 => RowsOf(i) = {n})
  BY <1>11 DEF MemoInv, ItemOK, OneRow
<1>13. \A m : ~Carries(work[w], m)
  BY <1>1 DEF Carries
<1>h. Home[w] \in Servers /\ processing \in [Servers -> SUBSET (1..Len(row))]
  BY <1>1, ConstantsAssumption DEF Sound, TypeOK
<1>14. ASSUME i \notin doubled, i \notin unsure, at = "broadcast"
       PROVE  Alive(i) = {}
  <2>1. /\ n # 0 /\ row[n].status # "success" /\ row[n].sig = 0
        /\ row[n].status = "failed" \/ n \in processing[Home[w]]
    BY <1>4, <1>6, <1>14 DEF Owns
  <2>2. ~Closed(n)
    BY <1>h, <2>1 DEF Closed
  <2>3. row[n].sig \notin Alive(i)
    BY <2>1 DEF Alive
  <2>4. QED
    BY <1>1, <1>2, <1>12, <1>14, <2>1, <2>2, <2>3, NoneAlive
<1>15. CASE ~takes
  <2>1. UNCHANGED processing
    BY <1>7, <1>15
  <2>2. ASSUME i \notin doubled
        PROVE  /\ \/ x.at \notin {"resolve", "reject"}
                  \/ \A m \in RowsOf(i) : row[m].status = "processing" => ~Owns(w, m)
               /\ x.at \notin {"resolve", "reject"} => Held(x, row[x.row], processing[Home[w]])
    <3>1. CASE at \in {"resolve", "reject"}
      <4>1. n # 0 /\ (row[n].status = "success" \/ ~Owns(w, n))
        BY <1>6, <3>1
      <4>2. QED
        BY <1>9, <1>12, <2>2, <3>1, <4>1
    <3>2. CASE at = "create"
      BY <1>5, <1>6, <1>9, <3>2 DEF Held
    <3>3. CASE at = "lookup"
      BY <1>5, <1>6, <1>9, <3>3 DEF Held
    <3>4. CASE at = "broadcast"
      <4>1. x.row \in processing[Home[w]]
        BY <1>6, <1>9, <1>15, <3>4 DEF Owns
      <4>2. QED
        BY <1>9, <3>4, <4>1 DEF Held
    <3>5. QED
      BY <1>6, <3>1, <3>2, <3>3, <3>4
  <2>3. i \notin doubled /\ i \notin unsure' => Clean(x, Alive(i))
    BY <1>1, <1>6, <1>9, <1>14 DEF Clean
  <2>4. x.at # "acquire"
    BY <1>6, <1>9
  <2>5. QED
    BY <1>1, <1>2, <1>7, <1>9, <1>13, <2>1, <2>2, <2>3, <2>4, Moves
<1>16. CASE takes
  <2>1. /\ n # 0 /\ row[n].sig = 0 /\ row[n].status = "failed" /\ at = "broadcast"
        /\ n \in 1..Len(row) /\ row[n].item = i
    BY <1>4, <1>6, <1>11, <1>16
  <2>2. \A k, s : s \in Servers => (k \in processing'[s] <=> k \in processing[s] \/ (k = n /\ s = Home[w]))
    BY <1>7, <1>16, <1>h
  <2>3. Only(w, i)
    <3>1. Len(row) \in Nat /\ Len(memo) \in Nat
      BY <1>1, Lengths DEF Sound
    <3>2. QED
      BY <1>1, <1>9, <1>10, <2>1, <2>2, <3>1 DEF Only
  <2>4. OneSet'
    BY <1>1, <2>1, <2>2 DEF OneSet, MemoInv
  <2>5. ASSUME i \notin doubled
        PROVE  ItemOK(i)'
    <3>1. ItemOK(i) /\ RowsOf(i) = {n} /\ \A v \in Workers : Handling(v, i) => v = w
      BY <1>2, <1>12, <2>1, <2>5, Handler
    <3>2. \A v \in Workers : Handling(v, i)' => v = w
      BY <1>10, <3>1 DEF Handling
    <3>3. RowsOf(i)' = {n} /\ Alive(i)' = Alive(i)
      BY <1>1, <3>1 DEF RowsOf, Alive
    <3>4. OneRow(i)' /\ Owned(i)'
      BY <1>1, <2>1, <3>3 DEF OneRow, Owned
    <3>5. HeldBy(w)'
      <4>1. PICK r, P : r = row'[x.row] /\ P = processing'[Home[w]]
        OBVIOUS
      <4>2. x.row \in P
        BY <1>9, <1>h, <2>2, <4>1
      <4>3. Held(x, r, P)
        BY <1>9, <2>1, <4>2 DEF Held
      <4>4. QED
        BY <1>10, <4>1, <4>3 DEF HeldBy
    <3>6. AllHeld(i)'
      BY <3>2, <3>5 DEF AllHeld
    <3>7. ASSUME i \notin unsure'
          PROVE  Sending(i)'
      <4>1. Alive(i)' = {}
        BY <1>1, <1>14, <2>1, <2>5, <3>3, <3>7
      <4>2. \A v \in Workers : Handling(v, i)' => Clean(work'[v], Alive(i)')
        <5>1. PICK A : A = Alive(i)'
          OBVIOUS
        <5>2. Clean(x, A)
          BY <1>9, <2>1, <4>1, <5>1 DEF Clean
        <5>3. QED
          BY <1>10, <3>2, <5>1, <5>2
      <4>3. QED
        BY <4>1, <4>2 DEF Sending
    <3>8. QED
      BY <3>4, <3>6, <3>7 DEF ItemOK
  <2>6. QED
    BY <1>1, <1>2, <2>3, <2>4, <2>5, OwnKeeps
<1>17. QED
  BY <1>4, <1>15, <1>16

LEMMA CreateMemo ==
    ASSUME MemoInv, Inv', NEW w \in Workers, Create(w)
    PROVE  MemoInv'
<1> DEFINE x == [work[w] EXCEPT !.at = "broadcast", !.row = Len(row) + 1]
<1>1. /\ work[w].at = "create" /\ UNCHANGED <<memo, doubled, orphaned, unsaved, unsure>> /\ Goes(w, x)
      /\ Sound
  BY DEF Create, history, MemoInv, Inv
<1>2. PICK i \in Items : Handling(w, i) /\ work[w].item = i
  BY <1>1, Handles
<1> DEFINE new == [item |-> i, status |-> "processing", sig |-> 0]
<1>3. row' = Append(row, new) /\ row \in Seq(RowType) /\ Len(row) \in Nat /\ Len(memo) \in Nat
  BY <1>1, <1>2, Lengths DEF Create, Sound, TypeOK
<1>4. new.item = i /\ new.status = "processing"
  OBVIOUS
<1>n. PICK n : n = Len(row) + 1
  OBVIOUS
<1>5. /\ Len(row') = n /\ row'[n] = new
      /\ \A k \in 1..Len(row) : row'[k] = row[k]
  BY <1>3, <1>n, AppendProperties
<1>6. work[w] \in WorkType
  BY <1>1, WorkerFields
<1>7. x.item = i /\ x.row = n /\ x.at = "broadcast"
  BY <1>2, <1>6, <1>n DEF WorkType
<1> HIDE DEF x, new
<1>8. work'[w] = x /\ \A v \in Workers \ {w} : work'[v] = work[v]
  BY <1>1, OneGoes
<1>9. 1..n = (1..Len(row)) \cup {n} /\ n \notin 1..Len(row) /\ n # 0 /\ Len(row) <= n
  BY <1>3, <1>n
<1>h. Home[w] \in Servers /\ processing \in [Servers -> SUBSET (1..Len(row))]
  BY <1>1, ConstantsAssumption DEF Sound, TypeOK
<1>10. \A k, s : s \in Servers => (k \in processing'[s] <=> k \in processing[s] \/ (k = n /\ s = Home[w]))
  BY <1>h, <1>n DEF Create
<1>11. Only(w, i)
  BY <1>1, <1>3, <1>4, <1>5, <1>7, <1>8, <1>9, <1>10 DEF Only
<1>12. OneSet'
  <2>1. ASSUME NEW k \in 1..n, row'[k].status = "processing",
               NEW s \in Servers, NEW t \in Servers, k \in processing'[s], k \in processing'[t]
        PROVE  s = t
    <3>1. CASE k = n
      <4>1. n \notin processing[s] /\ n \notin processing[t]
        BY <1>9, <1>h
      <4>2. QED
        BY <1>10, <2>1, <3>1, <4>1
    <3>2. CASE k # n
      <4>1. k \in 1..Len(row) /\ row'[k] = row[k]
        BY <1>5, <1>9, <3>2
      <4>2. QED
        BY <1>10, <2>1, <3>2, <4>1 DEF OneSet, MemoInv
    <3>3. QED
      BY <3>1, <3>2
  <2>2. QED
    BY <1>5, <2>1 DEF OneSet
<1>13. ASSUME i \notin doubled
       PROVE  ItemOK(i)'
  <2>1. /\ RowsOf(i) = {} /\ ItemOK(i)
        /\ \A v \in Workers : Handling(v, i) => v = w
    BY <1>1, <1>2, <1>13, Handler DEF Knows, Knowing, MemoInv, Inv
  <2>2. \A v \in Workers : Handling(v, i)' <=> v = w
    BY <1>7, <1>8, <2>1 DEF Handling
  <2>3. RowsOf(i)' = {n} /\ Alive(i)' = Alive(i)
    BY <1>1, <1>4, <1>5, <1>9, <2>1 DEF RowsOf, Alive
  <2>4. OneRow(i)'
    BY <2>3 DEF OneRow
  <2>5. n \in processing'[Home[w]]
    BY <1>10, <1>h
  <2>6. Owned(i)'
    BY <2>2, <2>3, <2>5 DEF Owned, Owns
  <2>7. HeldBy(w)'
    <3>1. PICK r, P : r = row'[x.row] /\ P = processing'[Home[w]]
      OBVIOUS
    <3>2. Held(x, r, P)
      BY <1>7, <2>5, <3>1 DEF Held
    <3>3. QED
      BY <1>8, <3>1, <3>2 DEF HeldBy
  <2>8. AllHeld(i)'
    BY <2>2, <2>7 DEF AllHeld
  <2>9. ASSUME i \notin unsure'
        PROVE  Sending(i)'
    <3>1. Alive(i)' = {}
      BY <1>1, <1>2, <1>13, <2>1, <2>3, <2>9, NoneAlive
    <3>2. \A v \in Workers : Handling(v, i)' => Clean(work'[v], Alive(i)')
      <4>1. PICK A : A = Alive(i)'
        OBVIOUS
      <4>2. Clean(x, A)
        BY <1>7, <3>1, <4>1 DEF Clean
      <4>3. QED
        BY <1>8, <2>2, <4>1, <4>2
    <3>3. QED
      BY <3>1, <3>2 DEF Sending
  <2>10. QED
    BY <2>4, <2>6, <2>8, <2>9 DEF ItemOK
<1>14. QED
  BY <1>1, <1>2, <1>11, <1>12, <1>13, OwnKeeps

\* The memo that is sent is the one that is alive.
LEMMA BroadcastMemo ==
    ASSUME MemoInv, Inv', NEW w \in Workers, Broadcast(w)
    PROVE  MemoInv'
<1> DEFINE x == [work[w] EXCEPT !.at = "rpc", !.memo = Len(memo) + 1]
<1>1. /\ work[w].at = "broadcast" /\ Goes(w, x) /\ Sound
      /\ UNCHANGED <<row, processing, doubled, orphaned, unsaved, unsure>>
  BY DEF Broadcast, history, MemoInv, Inv
<1>2. PICK i \in Items : Handling(w, i) /\ work[w].item = i
  BY <1>1, Handles
<1> DEFINE new == [item |-> i, at |-> "pending"]
<1>3. memo' = Append(memo, new) /\ memo \in Seq(MemoType) /\ Len(row) \in Nat /\ Len(memo) \in Nat
  BY <1>1, <1>2, Lengths DEF Broadcast, Sound, TypeOK
<1>4. new.item = i /\ new.at = "pending"
  OBVIOUS
<1>n. PICK n : n = Len(memo) + 1
  OBVIOUS
<1>5. /\ Len(memo') = n /\ memo'[n] = new
      /\ \A k \in 1..Len(memo) : memo'[k] = memo[k]
  BY <1>3, <1>n, AppendProperties
<1>6. work[w] \in WorkType
  BY <1>1, WorkerFields
<1>7. x.item = i /\ x.row = work[w].row /\ x.memo = n /\ x.at = "rpc"
  BY <1>2, <1>6, <1>n DEF WorkType
<1> HIDE DEF x, new
<1>8. work'[w] = x /\ \A v \in Workers \ {w} : work'[v] = work[v]
  BY <1>1, OneGoes
<1>9. 1..n = (1..Len(memo)) \cup {n} /\ n \notin 1..Len(memo) /\ Len(memo) <= n
  BY <1>3, <1>n
<1>10. Only(w, i)
  BY <1>1, <1>3, <1>4, <1>5, <1>7, <1>8, <1>9 DEF Only
<1>11. OneSet'
  BY <1>1 DEF OneSet, MemoInv
<1>12. ASSUME i \notin doubled
       PROVE  ItemOK(i)'
  <2>1. ItemOK(i) /\ \A v \in Workers : Handling(v, i) => v = w
    BY <1>2, <1>12, Handler DEF MemoInv
  <2>2. \A v \in Workers : Handling(v, i)' <=> v = w
    BY <1>7, <1>8, <2>1 DEF Handling
  <2>3. OneRow(i)' /\ RowsOf(i)' = RowsOf(i)
    BY <1>1, <2>1 DEF ItemOK, OneRow, RowsOf
  <2>4. Owned(i)'
    BY <1>1, <2>1, <2>2, <2>3 DEF ItemOK, Owned, Owns
  <2>5. HeldBy(w)'
    <3>1. Held(work[w], row[work[w].row], processing[Home[w]])
      BY <1>2, <1>12, Handler DEF HeldBy
    <3>2. PICK r, P : r = row[x.row] /\ P = processing[Home[w]]
      OBVIOUS
    <3>3. Held(work[w], r, P)
      BY <1>7, <3>1, <3>2
    <3>4. Held(x, r, P)
      BY <1>1, <1>7, <3>3 DEF Held
    <3>5. QED
      BY <1>1, <1>8, <3>2, <3>4 DEF HeldBy
  <2>6. AllHeld(i)'
    BY <2>2, <2>5 DEF AllHeld
  <2>7. ASSUME i \notin unsure'
        PROVE  Sending(i)'
    <3>1. Clean(work[w], Alive(i))
      BY <1>1, <1>2, <2>1, <2>7 DEF ItemOK, Sending
    <3>2. Alive(i) = {}
      BY <1>1, <3>1 DEF Clean
    <3>3. Alive(i)' = {n}
      BY <1>4, <1>5, <1>9, <3>2 DEF Alive
    <3>4. Carries(work'[w], n)
      BY <1>7, <1>8 DEF Carries
    <3>5. \A m \in Alive(i)' : Traced(i, m)'
      BY <2>2, <3>3, <3>4 DEF Traced
    <3>6. \A v \in Workers : Handling(v, i)' => Clean(work'[v], Alive(i)')
      <4>1. PICK A : A = Alive(i)'
        OBVIOUS
      <4>2. Clean(x, A)
        BY <1>7, <3>3, <4>1 DEF Clean
      <4>3. QED
        BY <1>8, <2>2, <4>1, <4>2
    <3>7. QED
      BY <3>3, <3>5, <3>6 DEF Sending
  <2>8. QED
    BY <2>3, <2>4, <2>6, <2>7 DEF ItemOK
<1>13. QED
  BY <1>1, <1>2, <1>10, <1>11, <1>12, OwnKeeps

\* The row names the memo that is alive.
LEMMA SaveSignatureMemo ==
    ASSUME MemoInv, Inv', NEW w \in Workers, SaveSignature(w)
    PROVE  MemoInv'
<1> DEFINE x == [work[w] EXCEPT !.at = "confirm"]
<1>1. /\ work[w].at = "save" /\ Goes(w, x) /\ Sound
      /\ UNCHANGED <<memo, processing, doubled, orphaned, unsaved, unsure>>
  BY DEF SaveSignature, history, At, MemoInv, Inv
<1>2. PICK i \in Items : Handling(w, i) /\ work[w].item = i
  BY <1>1, Handles
<1>3. PICK n, sig : n = work[w].row /\ sig = work[w].sig
  OBVIOUS
<1> DEFINE e == [row[n] EXCEPT !.sig = sig]
<1>4. /\ work[w] \in WorkType /\ n \in 1..Len(row) /\ sig \in 0..Len(memo) /\ row[n].item = i
      /\ Len(row) \in Nat /\ Len(memo) \in Nat
  BY <1>1, <1>2, <1>3, AtHand DEF Fits
<1>5. row \in Seq(RowType) /\ row[n] \in RowType
  BY <1>1, <1>4, RowFields DEF Sound, TypeOK
<1>6. e \in RowType /\ e.item = row[n].item /\ e.status = row[n].status /\ e.sig = sig
  BY <1>4, <1>5 DEF RowType
<1>7. row' = [row EXCEPT ![n] = e]
  BY <1>3 DEF SaveSignature
<1>8. x.item = i /\ x.row = n /\ x.at = "confirm"
  BY <1>1, <1>2, <1>3, AtFields
<1> HIDE DEF e, x
<1>9. /\ Len(row') = Len(row)
      /\ \A k \in 1..Len(row) : row'[k] = IF k = n THEN e ELSE row[k]
  BY <1>4, <1>5, <1>6, <1>7, ExceptSeq
<1>10. /\ \A k \in 1..Len(row) : row'[k].item = row[k].item /\ row'[k].status = row[k].status
       /\ row'[n].sig = sig
  BY <1>4, <1>6, <1>9
<1>11. work'[w] = x /\ \A v \in Workers \ {w} : work'[v] = work[v]
  BY <1>1, OneGoes
<1>12. Only(w, i)
  BY <1>1, <1>4, <1>6, <1>8, <1>9, <1>11 DEF Only
<1>13. OneSet'
  BY <1>1, <1>9, <1>10 DEF OneSet, MemoInv
<1>14. ASSUME i \notin doubled
       PROVE  ItemOK(i)'
  <2>1. /\ ItemOK(i) /\ \A v \in Workers : Handling(v, i) => v = w
        /\ Held(work[w], row[n], processing[Home[w]])
    BY <1>2, <1>3, <1>14, Handler DEF MemoInv, HeldBy
  <2>2. \A v \in Workers : Handling(v, i)' <=> v = w
    BY <1>8, <1>11, <2>1 DEF Handling
  <2>3. OneRow(i)' /\ RowsOf(i)' = RowsOf(i) /\ n \in RowsOf(i)
    BY <1>4, <1>9, <1>10, <2>1 DEF ItemOK, OneRow, RowsOf
  <2>4. Owned(i)'
    <3>1. ASSUME i \notin orphaned' \cup unsaved', NEW k \in RowsOf(i), row'[k].status = "processing"
          PROVE  Handling(w, i)' /\ Owns(w, k)'
      <4>1. k \in 1..Len(row)
        BY DEF RowsOf
      <4>2. Owns(w, k)
        BY <1>1, <1>10, <2>1, <3>1, <4>1 DEF ItemOK, Owned
      <4>3. QED
        BY <1>1, <2>2, <4>2 DEF Owns
    <3>2. QED
      BY <2>3, <3>1 DEF Owned
  <2>5. HeldBy(w)'
    <3>1. PICK r, s, P : r = row[n] /\ s = row'[x.row] /\ P = processing[Home[w]]
      OBVIOUS
    <3>2. Held(work[w], r, P)
      BY <2>1, <3>1
    <3>3. Held(x, s, P)
      BY <1>1, <1>3, <1>8, <3>2 DEF Held
    <3>4. QED
      BY <1>1, <1>11, <3>1, <3>3 DEF HeldBy
  <2>6. AllHeld(i)'
    BY <2>2, <2>5 DEF AllHeld
  <2>7. ASSUME i \notin unsure'
        PROVE  Sending(i)'
    <3>1. Clean(work[w], Alive(i)) /\ Sending(i) /\ Alive(i)' = Alive(i)
      BY <1>1, <1>2, <2>1, <2>7 DEF ItemOK, Sending, Alive
    <3>2. Alive(i) \subseteq {sig}
      BY <1>1, <1>3, <3>1 DEF Clean
    <3>3. \A m \in Alive(i)' : Traced(i, m)'
      BY <1>10, <2>3, <3>1, <3>2 DEF Traced
    <3>4. \A v \in Workers : Handling(v, i)' => Clean(work'[v], Alive(i)')
      BY <1>8, <1>11, <2>2 DEF Clean
    <3>5. QED
      BY <3>1, <3>3, <3>4 DEF Sending
  <2>8. QED
    BY <2>3, <2>4, <2>6, <2>7 DEF ItemOK
<1>15. QED
  BY <1>1, <1>2, <1>12, <1>13, <1>14, OwnKeeps

-----------------------------------------------------------------------------
(* The memos of an item: the queue, the processes, the chain                 *)

LEMMA AsideMemo ==
    ASSUME MemoInv, Inv', UNCHANGED <<row, memo, processing, orphaned, unsaved, unsure>>,
           doubled \subseteq doubled',
           \A v \in Workers : work'[v] = work[v] \/
              \A k \in Items : /\ ~Handling(v, k)
                               /\ Handling(v, k)' => work'[v].at = "find" /\ work'[v].row = 0 /\ work'[v].sig = 0
    PROVE  MemoInv'
<1>1. ASSUME NEW k \in Items \ doubled
      PROVE  Apart(k)
  <2>1. RowsOf(k)' = RowsOf(k) /\ Alive(k)' = Alive(k)
    BY DEF RowsOf, Alive
  <2>2. QED
    BY <2>1 DEF Apart, Handling
<1>2. OneSet'
  BY DEF OneSet, MemoInv
<1>3. QED
  BY <1>1, <1>2, ApartKeeps DEF MemoInv

LEMMA QueueMemo ==
    ASSUME MemoInv, Inv',
           \/ \E S \in SUBSET Items : AddToQueue(S)
           \/ \E i \in Items : Expire(i)
           \/ \E i \in Items, gone \in BOOLEAN : GiveBack(i, gone)
           \/ UNCHANGED vars
    PROVE  MemoInv'
<1>1. UNCHANGED <<row, memo, processing, work, doubled, orphaned, unsaved, unsure>>
  BY DEF AddToQueue, Expire, GiveBack, history, vars
<1>2. QED
  BY <1>1, AsideMemo

LEMMA TakeMemo ==
    ASSUME MemoInv, Inv', NEW w \in Workers, NEW i \in Items, Take(w, i)
    PROVE  MemoInv'
<1> DEFINE x == [Idle EXCEPT !.at = "acquire", !.item = i, !.retry = Retries]
<1>1. /\ work[w].at = "idle" /\ Goes(w, x)
      /\ UNCHANGED <<row, memo, processing, doubled, orphaned, unsaved, unsure>>
  BY DEF Take, history
<1>2. x.at = "acquire"
  BY DEF Idle
<1> HIDE DEF x
<1>3. work'[w] = x /\ \A v \in Workers \ {w} : work'[v] = work[v]
  BY <1>1, OneGoes DEF MemoInv, Inv
<1>4. \A k \in Items : ~Handling(w, k) /\ ~Handling(w, k)'
  <2>1. \A k \in Items : ~Handling(w, k)
    BY <1>1, HandlingBusy DEF MemoInv, Inv
  <2>2. QED
    BY <1>2, <1>3, <2>1 DEF Handling
<1>5. QED
  BY <1>1, <1>3, <1>4, AsideMemo

LEMMA AcquireMemo ==
    ASSUME MemoInv, Inv', NEW w \in Workers, Acquire(w)
    PROVE  MemoInv'
<1>1. /\ work[w].at = "acquire" /\ UNCHANGED <<row, memo, processing, orphaned, unsaved, unsure>>
      /\ doubled \subseteq doubled'
  BY DEF Acquire
<1>2. PICK l \in {"find", "reject"} : At(w, l)
  BY DEF Acquire
<1> DEFINE x == [work[w] EXCEPT !.at = l]
<1>3. Goes(w, x) /\ x.at = l /\ x.row = work[w].row /\ x.sig = work[w].sig
  BY <1>2, AtFields DEF At, MemoInv, Inv
<1> HIDE DEF x
<1>4. work[w].row = 0 /\ work[w].sig = 0
  BY <1>1, WorkerFields DEF Fits, MemoInv, Inv
<1>5. work'[w] = x /\ \A v \in Workers \ {w} : work'[v] = work[v]
  BY <1>3, OneGoes DEF MemoInv, Inv
<1>6. \A k \in Items : /\ ~Handling(w, k)
                       /\ Handling(w, k)' => work'[w].at = "find" /\ work'[w].row = 0 /\ work'[w].sig = 0
  BY <1>1, <1>3, <1>4, <1>5 DEF Handling
<1>7. QED
  BY <1>1, <1>5, <1>6, AsideMemo

LEMMA FinishMemo ==
    ASSUME MemoInv, Inv', NEW w \in Workers, Finish(w)
    PROVE  MemoInv'
<1>1. /\ work[w].at \in {"resolve", "reject"} /\ Goes(w, Idle)
      /\ UNCHANGED <<row, memo, processing, doubled, orphaned, unsaved, unsure>>
  BY DEF Finish, history
<1>2. work'[w] = Idle /\ \A v \in Workers \ {w} : work'[v] = work[v]
  BY <1>1, OneGoes DEF MemoInv, Inv
<1>3. \A k \in Items : ~Handling(w, k) /\ ~Handling(w, k)'
  BY <1>1, <1>2, ConstantsAssumption DEF Handling, Idle
<1>4. QED
  BY <1>1, <1>2, <1>3, AsideMemo

LEMMA SettlesMemos ==
    ASSUME MemoInv, Inv', NEW n, NEW how \in {"landed", "errored", "dropped"}, Settles(n, how),
           UNCHANGED <<row, work, processing, history>>
    PROVE  MemoInv'
<1>1. /\ Len(memo') = Len(memo)
      /\ \A k \in 1..Len(memo) : memo'[k].item = memo[k].item
      /\ \A k \in 1..Len(memo) : memo'[k].at = IF k = n THEN how ELSE memo[k].at
      /\ memo[n].at = "pending"
  BY SettlesMemo DEF Settles, MemoInv, Inv
<1>2. ASSUME NEW k \in Items \ doubled
      PROVE  Apart(k)
  <2>1. RowsOf(k)' = RowsOf(k) /\ Alive(k)' \subseteq Alive(k)
    BY <1>1 DEF RowsOf, Alive
  <2>2. QED
    BY <2>1 DEF Apart, Handling
<1>3. OneSet'
  BY DEF OneSet, MemoInv
<1>4. QED
  BY <1>2, <1>3, ApartKeeps DEF MemoInv, history

\* A process that stops forgets a memo only if its row had failed before: a row in
\* "processing" is then in no set.
LEMMA CrashMemo ==
    ASSUME MemoInv, Inv', NEW s \in Servers, Crash(s)
    PROVE  MemoInv'
<1> DEFINE dead == {w \in Workers : Home[w] = s}
           resent == {w \in dead : Unrecorded(w) /\ row[work[w].row].status = "failed"}
<1>1. /\ UNCHANGED <<row, memo, doubled, unsaved>> /\ Sound
      /\ orphaned' = orphaned \cup {row[n].item : n \in processing[s]}
      /\ unsure' = unsure \cup {work[w].item : w \in resent}
      /\ \A w \in Workers : work'[w] = IF Home[w] = s THEN Idle ELSE work[w]
  BY DEF Crash, MemoInv, Inv
<1> HIDE DEF dead
<1>2. \A w \in Workers : Home[w] = s /\ Unrecorded(w) /\ row[work[w].row].status = "failed"
                           => work[w].item \in unsure'
  BY <1>1 DEF dead
<1> HIDE DEF resent
<1>h. /\ processing \in [Servers -> SUBSET (1..Len(row))] /\ \A w \in Workers : Home[w] \in Servers
  BY <1>1, ConstantsAssumption DEF Sound, TypeOK
<1>3. \A n, t : t \in Servers => (n \in processing'[t] <=> n \in processing[t] /\ t # s)
  BY <1>h DEF Crash
<1>4. OneSet'
  BY <1>1, <1>3 DEF OneSet, MemoInv
<1>5. ASSUME NEW w \in Workers, NEW k \in Items
      PROVE  Handling(w, k)' <=> Handling(w, k) /\ Home[w] # s
  <2>1. Idle.item # k
    BY ConstantsAssumption DEF Idle
  <2>2. QED
    BY <1>1, <2>1 DEF Handling
<1>6. ASSUME NEW k \in Items \ doubled
      PROVE  ItemOK(k)'
  <2>1. ItemOK(k) /\ RowsOf(k)' = RowsOf(k) /\ Alive(k)' = Alive(k)
    BY <1>1 DEF MemoInv, RowsOf, Alive
  <2>2. OneRow(k)'
    BY <2>1 DEF ItemOK, OneRow
  <2>3. Owned(k)'
    <3>1. ASSUME k \notin orphaned' \cup unsaved', NEW n \in RowsOf(k), row[n].status = "processing"
          PROVE  \E w \in Workers : Handling(w, k)' /\ n \in processing'[Home[w]]
      <4>1. PICK w \in Workers : Handling(w, k) /\ n \in processing[Home[w]]
        BY <1>1, <2>1, <3>1 DEF ItemOK, Owned, Owns
      <4>2. row[n].item = k
        BY DEF RowsOf
      <4>3. Home[w] # s
        BY <1>1, <3>1, <4>1, <4>2
      <4>4. QED
        BY <1>3, <1>5, <1>h, <4>1, <4>3
    <3>2. QED
      BY <1>1, <2>1, <3>1 DEF Owned, Owns
  <2>4. AllHeld(k)'
    <3>1. ASSUME NEW w \in Workers, Handling(w, k)'
          PROVE  HeldBy(w)'
      <4>1. Handling(w, k) /\ Home[w] # s /\ work'[w] = work[w]
        BY <1>1, <1>5, <3>1
      <4>2. processing'[Home[w]] = processing[Home[w]]
        BY <1>h, <4>1 DEF Crash
      <4>3. QED
        BY <1>1, <2>1, <4>1, <4>2 DEF ItemOK, AllHeld, HeldBy
    <3>2. QED
      BY <3>1 DEF AllHeld
  <2>5. ASSUME k \notin unsure'
        PROVE  Sending(k)'
    <3>1. Sending(k)
      BY <1>1, <2>1, <2>5 DEF ItemOK
    <3>2. \A n : Closed(n) => Closed(n)'
      BY <1>1, <1>3 DEF Closed
    <3>3. ASSUME NEW m \in Alive(k)
          PROVE  Traced(k, m)'
      <4>1. CASE \E n \in RowsOf(k) : row[n].sig = m \/ Closed(n)
        <5>1. PICK n \in RowsOf(k) : row[n].sig = m \/ Closed(n)
          BY <4>1
        <5>2. row'[n].sig = m \/ Closed(n)'
          BY <1>1, <3>2, <5>1
        <5>3. QED
          BY <2>1, <5>2 DEF Traced
      <4>2. ASSUME NEW w \in Workers, Handling(w, k), Carries(work[w], m), Home[w] # s
            PROVE  Traced(k, m)'
        <5>1. Handling(w, k)' /\ Carries(work'[w], m)
          BY <1>1, <1>5, <4>2
        <5>2. QED
          BY <5>1 DEF Traced
      <4>3. ASSUME NEW w \in Workers, Handling(w, k), Carries(work[w], m), Home[w] = s
            PROVE  Traced(k, m)'
        <5>1. PICK n : n = work[w].row
          OBVIOUS
        <5>2. /\ work[w].at \in {"rpc", "save", "catch"} /\ m # 0
              /\ work[w].at \in {"save", "catch"} => work[w].sig = m
          BY <4>3 DEF Carries, Alive
        <5>3. Fits(work[w]) /\ Held(work[w], row[n], processing[s]) /\ work[w].item = k
          BY <4>3, <5>1, Handler DEF HeldBy
        <5>4. n # 0
          BY <5>1, <5>2, <5>3 DEF Fits
        <5>5. n \in RowsOf(k) /\ n \in 1..Len(row) /\ row[n].status # "success"
          BY <4>3, <5>1, <5>4, Handler
        <5>6. CASE Unrecorded(w)
          <6>1. row[n].status # "failed"
            BY <1>2, <2>5, <4>3, <5>1, <5>3, <5>6
          <6>2. row[n].status = "processing"
            BY <1>1, <5>5, <6>1, RowFields DEF Sound
          <6>3. n \in processing[s]
            <7>1. PICK r, P : r = row[n] /\ P = processing[s]
              OBVIOUS
            <7>2. Held(work[w], r, P) /\ (work[w].at = "catch" => r.sig # work[w].sig)
              BY <5>1, <5>2, <5>3, <5>6, <7>1 DEF Unrecorded
            <7>3. n \in P
              BY <5>1, <5>2, <5>4, <7>2 DEF Held
            <7>4. QED
              BY <7>1, <7>3
          <6>4. \A t \in Servers : n \notin processing'[t]
            BY <1>3, <5>5, <6>2, <6>3 DEF OneSet, MemoInv
          <6>5. Closed(n)'
            BY <1>1, <6>2, <6>4 DEF Closed
          <6>6. QED
            BY <2>1, <5>5, <6>5 DEF Traced
        <5>7. CASE ~Unrecorded(w)
          <6>1. row[n].sig = m
            BY <5>1, <5>2, <5>7 DEF Unrecorded
          <6>2. QED
            BY <1>1, <2>1, <5>5, <6>1 DEF Traced
        <5>8. QED
          BY <5>6, <5>7
      <4>4. QED
        BY <3>1, <4>1, <4>2, <4>3 DEF Sending, Traced
    <3>4. ASSUME NEW v \in Workers, Handling(v, k)'
          PROVE  Clean(work'[v], Alive(k)')
      <4>1. Handling(v, k) /\ work'[v] = work[v]
        BY <1>1, <1>5, <3>4
      <4>2. PICK A : A = Alive(k)
        OBVIOUS
      <4>3. Clean(work[v], A)
        BY <3>1, <4>1, <4>2 DEF Sending
      <4>4. QED
        BY <2>1, <4>1, <4>2, <4>3
    <3>5. QED
      BY <2>1, <3>1, <3>3, <3>4 DEF Sending
  <2>6. QED
    BY <2>2, <2>3, <2>4, <2>5 DEF ItemOK
<1>7. QED
  BY <1>1, <1>4, <1>6 DEF MemoInv

-----------------------------------------------------------------------------
(* The memos of an item: the theorems                                        *)

LEMMA InitMemo ==
    ASSUME Init
    PROVE  MemoInv
<1>1. Inv
  BY InitLogs
<1>2. row = <<>> /\ memo = <<>> /\ Len(row) = 0 /\ Len(memo) = 0
  BY DEF Init
<1>3. OneSet
  BY <1>2 DEF OneSet
<1>4. ASSUME NEW i \in Items
      PROVE  ItemOK(i)
  <2>1. RowsOf(i) = {} /\ Alive(i) = {}
    BY <1>2 DEF RowsOf, Alive
  <2>2. \A w \in Workers : ~Handling(w, i)
    BY ConstantsAssumption DEF Init, Handling, Idle
  <2>3. QED
    BY <2>1, <2>2 DEF ItemOK, OneRow, Owned, AllHeld, Sending
<1>5. QED
  BY <1>1, <1>3, <1>4 DEF MemoInv

LEMMA NextMemo ==
    ASSUME MemoInv, [Next]_vars
    PROVE  MemoInv'
<1>1. Inv'
  BY NextLogs DEF MemoInv
<1>2. CASE UNCHANGED vars
  BY <1>1, <1>2, QueueMemo
<1>3. ASSUME Next
      PROVE  MemoInv'
  <2>1. CASE \E S \in SUBSET Items \ {{}} : AddToQueue(S)
    BY <1>1, <2>1, QueueMemo
  <2>2. ASSUME NEW w \in Workers, WorkStep(w) \/ Throw(w)
        PROVE  MemoInv'
    BY <1>1, <2>2, AcquireMemo, FindMemo, CreateMemo, LookupMemo, BroadcastMemo, RpcMemo,
       SaveSignatureMemo, ConfirmMemo, CatchMemo, FailMemo, AbandonMemo, FinishMemo,
       ThrowMemo DEF WorkStep
  <2>3. ASSUME NEW w \in Workers, NEW i \in Items, Take(w, i)
        PROVE  MemoInv'
    BY <1>1, <2>3, TakeMemo
  <2>4. ASSUME NEW w \in Workers, NEW named \in BOOLEAN, RpcThrows(w, named)
        PROVE  MemoInv'
    BY <1>1, <2>4, RpcMemo
  <2>5. CASE (\E i \in Items : Expire(i)) \/ (\E i \in Items, gone \in BOOLEAN : GiveBack(i, gone))
    BY <1>1, <2>5, QueueMemo
  <2>6. ASSUME NEW s \in Servers, Crash(s)
        PROVE  MemoInv'
    BY <1>1, <2>6, CrashMemo
  <2>7. ASSUME NEW n \in 1..Len(memo), Land(n) \/ Break(n, "errored") \/ Break(n, "dropped")
        PROVE  MemoInv'
    <3>1. UNCHANGED <<row, work, processing, history>>
      BY <2>7 DEF Land, Break
    <3>2. Settles(n, "landed") \/ Settles(n, "errored") \/ Settles(n, "dropped")
      BY <2>7 DEF Land, Break, Settles
    <3>3. QED
      BY <1>1, <3>1, <3>2, SettlesMemos
  <2>8. QED
    BY <1>3, <2>1, <2>2, <2>3, <2>4, <2>5, <2>6, <2>7 DEF Next
<1>4. QED
  BY <1>2, <1>3

\* The item of a row in "processing" is in the hands of a worker whose process has the
\* row in its set, unless such a process stopped, the failure could not be saved, or
\* two workers handled the item.
THEOREM ProcessingIsExplained == Spec => []ProcessingExplained
<1>1. Init => MemoInv
  BY InitMemo
<1>2. MemoInv /\ [Next]_vars => MemoInv'
  BY NextMemo
<1>3. ASSUME MemoInv
      PROVE  ProcessingExplained
  <2>1. ASSUME NEW n \in 1..Len(row), row[n].status = "processing",
               row[n].item \notin doubled \cup orphaned \cup unsaved
        PROVE  \E w \in Workers : work[w].item = row[n].item
    <3>1. row[n].item \in Items /\ n \in RowsOf(row[n].item)
      BY <1>3, RowFields DEF RowsOf, MemoInv, Inv, Sound
    <3>2. Owned(row[n].item)
      BY <1>3, <2>1, <3>1 DEF MemoInv, ItemOK
    <3>3. QED
      BY <2>1, <3>1, <3>2 DEF Owned, Handling
  <2>2. QED
    BY <2>1 DEF ProcessingExplained
<1>4. QED
  BY <1>1, <1>2, <1>3, PTL DEF Spec

\* One memo of an item lands at most, through every crash, retry and lost lock, unless
\* two workers handled the item or the signature of a memo was lost.
THEOREM DuplicatesAreExplained == Spec => []DuplicatesExplained
<1>1. Init => MemoInv
  BY InitMemo
<1>2. MemoInv /\ [Next]_vars => MemoInv'
  BY NextMemo
<1>3. ASSUME MemoInv
      PROVE  DuplicatesExplained
  <2>1. ASSUME NEW i \in Items \ (doubled \cup unsure)
        PROVE  Cardinality(Memos(i, {"landed"})) <= 1
    <3>1. Memos(i, {"landed"}) \subseteq Alive(i)
      BY DEF Memos, Alive
    <3>2. \A m, n \in Memos(i, {"landed"}) : m = n
      BY <1>3, <3>1 DEF MemoInv, ItemOK, Sending
    <3>3. CASE Memos(i, {"landed"}) = {}
      BY <3>3, FS_EmptySet
    <3>4. CASE Memos(i, {"landed"}) # {}
      <4>1. PICK m : Memos(i, {"landed"}) = {m}
        BY <3>2, <3>4
      <4>2. QED
        BY <4>1, FS_Singleton
    <3>5. QED
      BY <3>3, <3>4
  <2>2. QED
    BY <2>1 DEF DuplicatesExplained
<1>4. QED
  BY <1>1, <1>2, <1>3, PTL DEF Spec
=============================================================================
