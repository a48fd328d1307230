---------------------------- MODULE ServicePaths ----------------------------
(***************************************************************************)
(* What the paths of the methods have in common, and the inductive         *)
(* invariant that follows from it: the ground of ServiceTransactionsProofs. *)
(*                                                                         *)
(* Track follows a path without errors and tells what it has open, in which *)
(* block it is, whether it has written in its transaction and whether      *)
(* durably.  A request is always somewhere on a path of its method, and    *)
(* errors only ever take it forward, to the end of a block: it has no more *)
(* dirty or kept than Track has there, and exactly as many transactions.   *)
(*                                                                         *)
(* PathsAssumption speaks of no constant and no variable: it is a fact     *)
(* about the paths of Service, which are finitely many, and TLC decides it. *)
(***************************************************************************)
EXTENDS ServiceTransactions

\* findEudrSetting looks once more after an error: read, and refuse or not
Retry == Read ** Maybe(Throw)

Paths(m) == IF m \in Again THEN Service[m] \cup Retry ELSE Service[m]

Origin == [open |-> 0, block |-> "none", dirty |-> FALSE, kept |-> FALSE]

\* what the statement x makes of it, when it does not fail
Passed(t, x) ==
    [open  |-> CASE x = "begin" -> t.open + 1 [] x = "commit" -> t.open - 1
                 [] x = "drop" -> 0 [] OTHER -> t.open,
     block |-> CASE x \in Blocks -> x [] x = "end" -> "none" [] OTHER -> t.block,
     dirty |-> x = "in" \/ (t.dirty /\ x \notin {"commit", "drop"}),
     kept  |-> t.kept \/ x \in {"out", "spawn"} \/ (x = "commit" /\ t.dirty)]

Track(q) ==
    LET t[i \in 0 .. Len(q)] == IF i = 0 THEN Origin ELSE Passed(t[i - 1], q[i])
    IN  t

\* the statement at i is a throw that nothing catches: q goes no further
Refusal(q, t, i) == q[i] = "throw" /\ t[i - 1].block \notin {"try", "item"}

-----------------------------------------------------------------------------
(* The facts about a path q of the method m, with t for Track(q) *)

\* Track is what it is defined to be, and the transactions that are open are few
IsTracked(m, q, t) ==
    /\ t[0] = Origin
    /\ \A i \in 1 .. Len(q) : t[i] = Passed(t[i - 1], q[i])
    /\ \A i \in 0 .. Len(q) : t[i].open \in 0 .. (IF m \in Forgetful THEN 1 ELSE 2)

\* a path that can be followed to its end leaves nothing open and nothing unsaved
EndsClean(m, q, t) ==
    \/ \E i \in 1 .. Len(q) : Refusal(q, t, i)
    \/ /\ t[Len(q)].open = 0 \/ m \in Forgetful
       /\ ~t[Len(q)].dirty \/ m \in Careless

\* what the statement at i may be, by what came before it
StepsAllowed(m, q, t) ==
    \A i \in 1 .. Len(q) :
       /\ q[i] \in Deadly => m \in Fatal
       /\ q[i] = "drop" => m \in Fatal /\ ~t[i - 1].dirty
       /\ m \in Frugal /\ t[i - 1].open > 0 => q[i] \notin Needs
       /\ m \notin Torn /\ t[i - 1].kept => q[i] \notin Writes
       /\ m \in Unawaited \ Torn => q[i] \notin {"out", "spawn"}
       /\ m \notin Torn \cup Late \cup Unawaited /\ t[i - 1].kept
             /\ t[i - 1].block \notin {"try", "item"} =>
             q[i] \notin Faulty \cup {"throw"}

\* a method that is not torn is not dirty once it has saved something; the one
\* that tries again has saved nothing while it has a transaction, and no blocks
SavesOnce(m, q, t) ==
    \A i \in 0 .. Len(q) :
       /\ m \notin Torn => ~(t[i].kept /\ t[i].dirty)
       /\ m \in Again => t[i].block = "none" /\ (t[i].open > 0 => ~t[i].kept)

\* e is where the block ends that q is in at i
BlockEnds(m, q, t, i, e) ==
    /\ q[e] = "end"
    /\ t[e].block = "none" /\ t[e].open = t[i].open
    /\ t[i].dirty => t[e].dirty
    /\ t[i].kept => t[e].kept
    /\ \A j \in (i + 1) .. (e - 1) :
          /\ q[j] \notin {"end", "commit"} /\ t[j - 1].block \in {"try", "item"}
          /\ t[i].block = "try" /\ (m \notin Torn \/ m \notin Careless \cup Empty) =>
                q[j] \notin Writes

BlocksEnd(m, q, t) ==
    \A i \in 0 .. Len(q) :
       t[i].block \in {"try", "item"} =>
          \E e \in (i + 1) .. Len(q) : BlockEnds(m, q, t, i, e)

GoodPath(m, q, t) ==
    /\ IsTracked(m, q, t)
    /\ EndsClean(m, q, t)
    /\ StepsAllowed(m, q, t)
    /\ SavesOnce(m, q, t)
    /\ BlocksEnd(m, q, t)

ASSUME PathsAssumption ==
    /\ \A m \in DOMAIN Service : \A q \in Paths(m) : q \in Seq(Kinds) /\ GoodPath(m, q, Track(q))
    /\ \A q \in Retry : \A i \in 1 .. Len(q) : q[i] \in {"read", "throw"}
    /\ Empty \subseteq Torn

-----------------------------------------------------------------------------
(* The inductive invariant *)

Request ==
    [op : DOMAIN Service \cup {"none"}, rest : SUBSET Seq(Kinds), open : 0 .. 2,
     finished : BOOLEAN, block : Blocks \cup {"none"}, dirty : BOOLEAN, kept : BOOLEAN,
     missed : BOOLEAN, partial : BOOLEAN, answer : Answers]

AtWork(r) == r.op # "none" /\ r.answer = "none"

\* p is what is left of q behind its i-th statement
Behind(p, q, i) ==
    /\ Len(p) = Len(q) - i
    /\ \A k \in 1 .. Len(p) : p[k] = q[i + k]

\* the request has come to i on q
Reached(r, q, i) ==
    LET t == Track(q)[i]
    IN  /\ r.open = t.open /\ r.block = t.block
        /\ r.dirty => t.dirty
        /\ r.kept => t.kept
        /\ \A j \in 1 .. i : ~Refusal(q, Track(q), j)

OnPath(r, p) ==
    \E q \in Paths(r.op) : \E i \in 0 .. Len(q) : Behind(p, q, i) /\ Reached(r, q, i)

Traced(r) == AtWork(r) => \A p \in r.rest : OnPath(r, p)

Idle(r) == ~AtWork(r) => r.rest = {} /\ r.open = 0

\* what a method that is not torn has missed it has told, or it has nothing
\* left to save
OnlyLooks(p) == \A k \in 1 .. Len(p) : p[k] \notin Writes \cup {"commit"}
Exact(r) ==
    r.op \notin Torn =>
        /\ ~(r.kept /\ r.dirty)
        /\ r.missed /\ ~r.partial => ~r.kept /\ ~r.dirty /\ \A p \in r.rest : OnlyLooks(p)

Candid(r) ==
    /\ AtWork(r) /\ r.missed => r.op \in Careless \/ r.partial
    /\ AtWork(r) /\ r.kept /\ r.op \in Unawaited \ Torn => r.finished
    /\ r.answer \in {"error", "nothing"} /\ r.kept => r.op \in Torn \cup Late
    /\ r.answer = "ok" /\ r.missed => r.op \in Careless
    /\ r.answer = "fatal" => r.op \in Fatal

GoodRequest(r) ==
    /\ r \in Request
    /\ Traced(r) /\ Idle(r)
    /\ Exact(r) /\ Candid(r)

PoolInv ==
    /\ leaked \in Nat
    /\ IsFiniteSet(Held)
    /\ leaked + Cardinality(Held) <= PoolSize

IInv ==
    /\ req \in [Slots -> Request]
    /\ \A s \in Slots : req[s].op \in Methods[s] \cup {"none"} /\ GoodRequest(req[s])
    /\ PoolInv
====
