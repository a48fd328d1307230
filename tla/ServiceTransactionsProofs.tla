--------------------- MODULE ServiceTransactionsProofs ---------------------
(***************************************************************************)
(* Proofs about ServiceTransactions, for any number of requests, any size  *)
(* of the pool and any methods called in any slot.                         *)
(*                                                                         *)
(* What lies in the constant methods is PathsAssumption, which TLC decides. *)
(* What is proved is that it carries over to the requests, whatever        *)
(* statement fails, in whatever order the requests take their steps and    *)
(* whenever the process stops: IInv is inductive, and the properties of    *)
(* ServiceTransactions follow from it.                                     *)
(***************************************************************************)
EXTENDS ServicePaths, FiniteSetTheorems, SequenceTheorems, TLAPS

\* what may follow the statement x, of the paths in R
Rests(R, x) == {Tail(p) : p \in {q \in R : q # <<>> /\ Head(q) = x}}

-----------------------------------------------------------------------------
(* Paths *)

\* What PathsAssumption says of one path.
LEMMA PathFacts ==
    ASSUME NEW m \in DOMAIN Service, NEW q \in Paths(m)
    PROVE  /\ q \in Seq(Kinds)
           /\ IsTracked(m, q, Track(q))
           /\ EndsClean(m, q, Track(q))
           /\ StepsAllowed(m, q, Track(q))
           /\ SavesOnce(m, q, Track(q))
           /\ BlocksEnd(m, q, Track(q))
  BY PathsAssumption DEF GoodPath

\* What is left of a path behind i has the next statement at its head, and
\* behind that its tail.
LEMMA BehindTail ==
    ASSUME NEW p \in Seq(Kinds), NEW q \in Seq(Kinds), NEW i \in 0 .. Len(q),
           Behind(p, q, i), p # <<>>
    PROVE  /\ i + 1 \in 1 .. Len(q) /\ i + 1 \in 0 .. Len(q)
           /\ q[i + 1] = Head(p)
           /\ Tail(p) \in Seq(Kinds)
           /\ Behind(Tail(p), q, i + 1)
  <1>1. Len(p) \in Nat /\ Len(p) > 0 /\ Len(q) \in Nat /\ Len(p) = Len(q) - i
    BY DEF Behind
  <1>2. Head(p) = p[1] /\ Tail(p) \in Seq(Kinds) /\ Len(Tail(p)) = Len(p) - 1
    OBVIOUS
  <1>3. \A k \in 1 .. Len(Tail(p)) : Tail(p)[k] = p[k + 1]
    OBVIOUS
  <1>4. 1 \in 1 .. Len(p) /\ p[1] = q[i + 1]
    BY <1>1 DEF Behind
  <1>5. Len(Tail(p)) = Len(q) - (i + 1)
    BY <1>1, <1>2
  <1>6. ASSUME NEW k \in 1 .. Len(Tail(p))
        PROVE  Tail(p)[k] = q[(i + 1) + k]
    <2>1. k + 1 \in 1 .. Len(p) /\ k \in Nat
      BY <1>1, <1>2
    <2>2. p[k + 1] = q[i + (k + 1)]
      BY <2>1 DEF Behind
    <2>3. i + (k + 1) = (i + 1) + k
      BY <2>1
    <2> QED
      BY <1>3, <2>2, <2>3
  <1> QED
    BY <1>1, <1>2, <1>4, <1>5, <1>6 DEF Behind

\* Behind its last statement nothing is left.
LEMMA BehindAll ==
    ASSUME NEW q \in Seq(Kinds), NEW i \in 0 .. Len(q), Behind(<<>>, q, i)
    PROVE  i = Len(q)
  <1>1. Len(<<>>) = 0 /\ Len(q) \in Nat
    OBVIOUS
  <1> QED
    BY <1>1 DEF Behind

\* AfterEnd leaves what is behind the end of the block.
LEMMA BehindEnd ==
    ASSUME NEW p \in Seq(Kinds), NEW q \in Seq(Kinds), NEW i \in 0 .. Len(q),
           NEW e \in (i + 1) .. Len(q), Behind(p, q, i),
           q[e] = "end", \A j \in (i + 1) .. (e - 1) : q[j] # "end"
    PROVE  /\ AfterEnd(p) \in Seq(Kinds)
           /\ Behind(AfterEnd(p), q, e)
           /\ \A k \in 1 .. Len(AfterEnd(p)) : \E l \in 1 .. Len(p) : AfterEnd(p)[k] = p[l]
  <1> DEFINE ends == {k \in DOMAIN p : p[k] = "end"}
             first == CHOOSE k \in ends : \A j \in ends : k <= j
  <1>1. /\ Len(p) \in Nat /\ Len(q) \in Nat /\ DOMAIN p = 1 .. Len(p) /\ Len(p) = Len(q) - i
        /\ e \in Nat /\ e - i \in 1 .. Len(p) /\ i + (e - i) = e
    BY DEF Behind
  <1>2. \A k \in 1 .. Len(p) : p[k] = q[i + k]
    BY DEF Behind
  <1>3. e - i \in ends
    BY <1>1, <1>2
  <1>4. ASSUME NEW k \in ends
        PROVE  e - i <= k
    <2>1. k \in 1 .. Len(p) /\ k \in Nat /\ q[i + k] = "end"
      BY <1>1, <1>2
    <2>2. ~(i + k \in (i + 1) .. (e - 1))
      BY <2>1
    <2> QED
      BY <1>1, <2>1, <2>2
  <1>5. first \in ends /\ \A j \in ends : first <= j
    BY <1>3, <1>4
  <1>6. first = e - i
    <2>1. first \in Nat /\ e - i \in Nat /\ first <= e - i /\ e - i <= first
      BY <1>1, <1>3, <1>4, <1>5
    <2> QED
      BY <2>1
  <1> HIDE DEF first
  <1>7. AfterEnd(p) = SubSeq(p, (e - i) + 1, Len(p))
    BY <1>6 DEF AfterEnd, first
  <1>8. /\ AfterEnd(p) \in Seq(Kinds)
        /\ Len(AfterEnd(p)) = Len(p) - (e - i)
        /\ \A k \in 1 .. Len(AfterEnd(p)) : AfterEnd(p)[k] = p[(e - i) + k]
    <2>1. (e - i) + 1 \in 1 .. (Len(p) + 1) /\ Len(p) \in (e - i) .. Len(p)
      BY <1>1
    <2>2. \A k \in 1 .. Len(p) : p[k] \in Kinds
      BY <1>1
    <2>3. SubSeq(p, (e - i) + 1, Len(p)) = [k \in 1 .. (Len(p) - (e - i)) |-> p[k + (e - i)]]
      BY <1>1, <2>1
    <2>4. AfterEnd(p) = [k \in 1 .. (Len(p) - (e - i)) |-> p[(e - i) + k]]
      BY <1>1, <1>7, <2>3
    <2>5. Len(p) - (e - i) \in Nat
      BY <1>1
    <2>6. \A k \in 1 .. (Len(p) - (e - i)) : (e - i) + k \in 1 .. Len(p)
      BY <1>1
    <2> QED
      BY <2>2, <2>4, <2>5, <2>6
  <1>9. ASSUME NEW k \in 1 .. Len(AfterEnd(p))
        PROVE  AfterEnd(p)[k] = q[e + k] /\ (e - i) + k \in 1 .. Len(p)
    <2>1. k \in Nat /\ (e - i) + k \in 1 .. Len(p) /\ i + ((e - i) + k) = e + k
      BY <1>1, <1>8
    <2> QED
      BY <1>2, <1>8, <2>1
  <1>10. Len(AfterEnd(p)) = Len(q) - e
    BY <1>1, <1>8
  <1> QED
    BY <1>8, <1>9, <1>10 DEF Behind

-----------------------------------------------------------------------------
(* A request somewhere on a path of its method *)

\* Where a request has come to, no more is open than its method opens, a method
\* that is not torn is not dirty once it has saved something, and one that
\* tries again is in no block.
LEMMA WhereItIs ==
    ASSUME NEW r \in Request, r.op \in DOMAIN Service, NEW p, OnPath(r, p)
    PROVE  /\ r.op \in Forgetful => r.open \in 0 .. 1
           /\ r.op \notin Torn => ~(r.kept /\ r.dirty)
           /\ r.op \in Again => r.block = "none" /\ (r.open > 0 => ~r.kept)
  <1>1. PICK q \in Paths(r.op) : \E i \in 0 .. Len(q) : Behind(p, q, i) /\ Reached(r, q, i)
    BY DEF OnPath
  <1>2. PICK i \in 0 .. Len(q) : Behind(p, q, i) /\ Reached(r, q, i)
    BY <1>1
  <1>3. PICK t : t = Track(q)
    OBVIOUS
  <1>4. PICK m : m = r.op
    OBVIOUS
  <1>5. IsTracked(m, q, t) /\ SavesOnce(m, q, t)
    BY <1>3, <1>4, PathFacts
  <1>6. PICK u : u = t[i]
    OBVIOUS
  <1>7. r.open = u.open /\ r.block = u.block /\ (r.dirty => u.dirty) /\ (r.kept => u.kept)
    BY <1>2, <1>3, <1>6 DEF Reached
  <1>8. u.open \in 0 .. (IF m \in Forgetful THEN 1 ELSE 2)
    BY <1>5, <1>6 DEF IsTracked
  <1>9. m \notin Torn => ~(u.kept /\ u.dirty)
    BY <1>5, <1>6 DEF SavesOnce
  <1>10. m \in Again => u.block = "none" /\ (u.open > 0 => ~u.kept)
    BY <1>5, <1>6 DEF SavesOnce
  <1>11. r.op \in Forgetful => r.open \in 0 .. 1
    BY <1>4, <1>7, <1>8
  <1> QED
    BY <1>4, <1>7, <1>9, <1>10, <1>11

\* At the end of a path that can be followed to its end nothing is open and
\* nothing unsaved, but for the methods that forget it.
LEMMA AtTheEnd ==
    ASSUME NEW r \in Request, r.op \in DOMAIN Service, OnPath(r, <<>>)
    PROVE  /\ r.open = 0 \/ r.op \in Forgetful
           /\ ~r.dirty \/ r.op \in Careless
  <1>1. PICK q \in Paths(r.op) : \E i \in 0 .. Len(q) : Behind(<<>>, q, i) /\ Reached(r, q, i)
    BY DEF OnPath
  <1>2. PICK i \in 0 .. Len(q) : Behind(<<>>, q, i) /\ Reached(r, q, i)
    BY <1>1
  <1>3. PICK t : t = Track(q)
    OBVIOUS
  <1>4. q \in Seq(Kinds) /\ EndsClean(r.op, q, t)
    BY <1>3, PathFacts
  <1>5. i = Len(q)
    BY <1>2, <1>4, BehindAll
  <1>6. PICK u : u = t[i]
    OBVIOUS
  <1>7. /\ r.open = u.open /\ (r.dirty => u.dirty)
        /\ \A j \in 1 .. i : ~Refusal(q, t, j)
    BY <1>2, <1>3, <1>6 DEF Reached
  <1>8. /\ u.open = 0 \/ r.op \in Forgetful
        /\ ~u.dirty \/ r.op \in Careless
    BY <1>4, <1>5, <1>6, <1>7 DEF EndsClean
  <1> QED
    BY <1>7, <1>8

\* What the next statement may be.
LEMMA NextAllowed ==
    ASSUME NEW r \in Request, r.op \in DOMAIN Service, NEW p \in Seq(Kinds), p # <<>>,
           OnPath(r, p), NEW x, x = Head(p)
    PROVE  /\ x \in Kinds
           /\ x \in Deadly => r.op \in Fatal
           /\ x = "drop" => r.op \in Fatal /\ ~r.dirty
           /\ r.op \in Frugal /\ r.open > 0 => x \notin Needs
           /\ r.op \notin Torn /\ r.kept => x \notin Writes
           /\ r.op \in Unawaited \ Torn => x \notin {"out", "spawn"}
           /\ r.op \notin Torn \cup Late \cup Unawaited /\ r.kept
                 /\ r.block \notin {"try", "item"} => x \notin Faulty \cup {"throw"}
           /\ x = "begin" => r.open + 1 \in 0 .. 2
           /\ x = "commit" => r.open - 1 \in 0 .. 2
  <1>1. PICK q \in Paths(r.op) : \E i \in 0 .. Len(q) : Behind(p, q, i) /\ Reached(r, q, i)
    BY DEF OnPath
  <1>2. PICK i \in 0 .. Len(q) : Behind(p, q, i) /\ Reached(r, q, i)
    BY <1>1
  <1>3. PICK t : t = Track(q)
    OBVIOUS
  <1>4. PICK m : m = r.op
    OBVIOUS
  <1>5. /\ q \in Seq(Kinds)
        /\ IsTracked(m, q, t) /\ StepsAllowed(m, q, t)
    BY <1>3, <1>4, PathFacts
  <1>6. PICK j : j = i + 1
    OBVIOUS
  <1>7. j \in 1 .. Len(q) /\ j \in 0 .. Len(q) /\ q[j] = x /\ j - 1 = i
    BY <1>2, <1>5, <1>6, BehindTail
  <1>8. PICK u : u = t[i]
    OBVIOUS
  <1>9. r.open = u.open /\ r.block = u.block /\ (r.dirty => u.dirty) /\ (r.kept => u.kept)
    BY <1>2, <1>3, <1>8 DEF Reached
  <1>10. /\ x \in Deadly => m \in Fatal
         /\ x = "drop" => m \in Fatal /\ ~u.dirty
         /\ m \in Frugal /\ u.open > 0 => x \notin Needs
         /\ m \notin Torn /\ u.kept => x \notin Writes
         /\ m \in Unawaited \ Torn => x \notin {"out", "spawn"}
         /\ m \notin Torn \cup Late \cup Unawaited /\ u.kept
               /\ u.block \notin {"try", "item"} => x \notin Faulty \cup {"throw"}
    BY <1>5, <1>7, <1>8 DEF StepsAllowed
  <1>11. PICK v : v = t[j]
    OBVIOUS
  <1>12. v = Passed(u, x)
    BY <1>5, <1>7, <1>8, <1>11 DEF IsTracked
  <1>13. v.open \in 0 .. (IF m \in Forgetful THEN 1 ELSE 2)
    BY <1>5, <1>7, <1>11 DEF IsTracked
  <1>14. v.open \in 0 .. 2
    BY <1>13
  <1>15. x = "begin" => u.open + 1 \in 0 .. 2
    BY <1>12, <1>14 DEF Passed
  <1>16. x = "commit" => u.open - 1 \in 0 .. 2
    BY <1>12, <1>14 DEF Passed
  <1>17. x \in Kinds
    BY <1>5, <1>7
  <1> QED
    BY <1>4, <1>9, <1>10, <1>15, <1>16, <1>17

\* A statement that is executed takes the request on to what follows it.
LEMMA Advances ==
    ASSUME NEW r \in Request, r.op \in DOMAIN Service, NEW p \in Seq(Kinds), p # <<>>,
           OnPath(r, p), NEW x, x = Head(p), x # "throw",
           NEW g, g.op = r.op, g.open = Passed(r, x).open, g.block = Passed(r, x).block,
           g.dirty => Passed(r, x).dirty, g.kept => Passed(r, x).kept
    PROVE  OnPath(g, Tail(p))
  <1>1. PICK q \in Paths(r.op) : \E i \in 0 .. Len(q) : Behind(p, q, i) /\ Reached(r, q, i)
    BY DEF OnPath
  <1>2. PICK i \in 0 .. Len(q) : Behind(p, q, i) /\ Reached(r, q, i)
    BY <1>1
  <1>3. PICK t : t = Track(q)
    OBVIOUS
  <1>4. q \in Seq(Kinds) /\ IsTracked(r.op, q, t)
    BY <1>3, PathFacts
  <1>5. PICK j : j = i + 1
    OBVIOUS
  <1>6. /\ j \in 1 .. Len(q) /\ j \in 0 .. Len(q) /\ q[j] = x /\ j - 1 = i
        /\ Behind(Tail(p), q, j)
    BY <1>2, <1>4, <1>5, BehindTail
  <1>7. PICK u : u = t[i]
    OBVIOUS
  <1>8. PICK v : v = t[j]
    OBVIOUS
  <1>9. /\ r.open = u.open /\ r.block = u.block /\ (r.dirty => u.dirty) /\ (r.kept => u.kept)
        /\ \A k \in 1 .. i : ~Refusal(q, t, k)
    BY <1>2, <1>3, <1>7 DEF Reached
  <1>10. v = Passed(u, x)
    BY <1>4, <1>6, <1>7, <1>8 DEF IsTracked
  <1>11. Passed(r, x).open = v.open
    BY <1>9, <1>10 DEF Passed
  <1>12. Passed(r, x).block = v.block
    BY <1>9, <1>10 DEF Passed
  <1>13. Passed(r, x).dirty => v.dirty
    BY <1>9, <1>10 DEF Passed
  <1>14. Passed(r, x).kept => v.kept
    BY <1>9, <1>10 DEF Passed
  <1>15. \A k \in 1 .. j : ~Refusal(q, t, k)
    <2>1. \A k \in 1 .. j : k \in 1 .. i \/ k = j
      BY <1>5
    <2>2. ~Refusal(q, t, j)
      BY <1>6 DEF Refusal
    <2> QED
      BY <1>9, <2>1, <2>2
  <1>16. Reached(g, q, j)
    BY <1>3, <1>8, <1>11, <1>12, <1>13, <1>14, <1>15 DEF Reached
  <1> QED
    BY <1>1, <1>6, <1>16 DEF OnPath

\* In a block that catches it, an error takes the request to the end of the
\* block, and what the block would have written after it is known.
LEMMA Jumps ==
    ASSUME NEW r \in Request, r.op \in DOMAIN Service, NEW p \in Seq(Kinds), p # <<>>,
           OnPath(r, p), NEW x, x = Head(p), x # "end", r.block \in {"try", "item"}
    PROVE  /\ x # "commit"
           /\ r.block = "try" /\ (r.op \notin Torn \/ r.op \notin Careless \cup Empty) =>
                 x \notin Writes /\ UpToEnd(Tail(p)) \cap Writes = {}
           /\ AfterEnd(Tail(p)) \in Seq(Kinds)
           /\ \A k \in 1 .. Len(AfterEnd(Tail(p))) :
                 \E l \in 1 .. Len(p) : AfterEnd(Tail(p))[k] = p[l]
           /\ \A g : g.op = r.op /\ g.open = r.open /\ g.block = "none"
                       /\ (g.dirty => r.dirty) /\ (g.kept => r.kept) =>
                     OnPath(g, AfterEnd(Tail(p)))
  <1>1. PICK q \in Paths(r.op) : \E i \in 0 .. Len(q) : Behind(p, q, i) /\ Reached(r, q, i)
    BY DEF OnPath
  <1>2. PICK i \in 0 .. Len(q) : Behind(p, q, i) /\ Reached(r, q, i)
    BY <1>1
  <1>3. PICK t : t = Track(q)
    OBVIOUS
  <1>4. PICK m : m = r.op
    OBVIOUS
  <1>5. q \in Seq(Kinds) /\ BlocksEnd(m, q, t)
    BY <1>3, <1>4, PathFacts
  <1>6. PICK j : j = i + 1
    OBVIOUS
  <1>7. PICK b : b = Tail(p)
    OBVIOUS
  <1>8. /\ j \in 1 .. Len(q) /\ j \in 0 .. Len(q) /\ q[j] = x
        /\ b \in Seq(Kinds) /\ Behind(b, q, j)
    BY <1>2, <1>5, <1>6, <1>7, BehindTail
  <1>9. PICK u : u = t[i]
    OBVIOUS
  <1>10. /\ r.open = u.open /\ r.block = u.block /\ (r.dirty => u.dirty) /\ (r.kept => u.kept)
         /\ \A k \in 1 .. i : ~Refusal(q, t, k)
    BY <1>2, <1>3, <1>9 DEF Reached
  <1>11. PICK e \in (i + 1) .. Len(q) : BlockEnds(m, q, t, i, e)
    BY <1>5, <1>9, <1>10 DEF BlocksEnd
  <1>12. /\ q[e] = "end"
         /\ t[e].block = "none" /\ t[e].open = u.open
         /\ u.dirty => t[e].dirty
         /\ u.kept => t[e].kept
         /\ \A k \in (i + 1) .. (e - 1) :
               /\ q[k] \notin {"end", "commit"} /\ t[k - 1].block \in {"try", "item"}
               /\ u.block = "try" /\ (m \notin Torn \/ m \notin Careless \cup Empty) =>
                     q[k] \notin Writes
    BY <1>9, <1>11 DEF BlockEnds
  <1>13. e # j
    BY <1>8, <1>12
  <1>14. j \in (i + 1) .. (e - 1) /\ e \in (j + 1) .. Len(q) /\ e \in 0 .. Len(q)
    BY <1>6, <1>8, <1>13
  <1>15. \A k \in (j + 1) .. (e - 1) : q[k] # "end"
    <2>1. \A k \in (j + 1) .. (e - 1) : k \in (i + 1) .. (e - 1)
      BY <1>6
    <2> QED
      BY <1>12, <2>1
  <1>16. /\ AfterEnd(b) \in Seq(Kinds)
         /\ Behind(AfterEnd(b), q, e)
         /\ \A k \in 1 .. Len(AfterEnd(b)) : \E l \in 1 .. Len(b) : AfterEnd(b)[k] = b[l]
    BY <1>5, <1>8, <1>12, <1>14, <1>15, BehindEnd
  <1>17. \A l \in 1 .. Len(b) : l + 1 \in 1 .. Len(p) /\ b[l] = p[l + 1]
    BY <1>7
  <1>18. \A k \in 1 .. Len(AfterEnd(b)) : \E l \in 1 .. Len(p) : AfterEnd(b)[k] = p[l]
    BY <1>16, <1>17
  <1>19. x # "commit"
    BY <1>8, <1>12, <1>14
  <1>20. ASSUME r.block = "try", r.op \notin Torn \/ r.op \notin Careless \cup Empty
         PROVE  x \notin Writes /\ UpToEnd(b) \cap Writes = {}
    <2>1. \A k \in (i + 1) .. (e - 1) : q[k] \notin Writes
      BY <1>4, <1>10, <1>12, <1>20
    <2>2. x \notin Writes
      BY <1>8, <1>14, <2>1
    <2>3. ASSUME NEW k \in DOMAIN b, \A l \in 1 .. k : b[l] # "end"
          PROVE  b[k] \notin Writes
      <3>1. /\ DOMAIN b = 1 .. Len(b) /\ Len(b) = Len(q) - j /\ Len(b) \in Nat
            /\ \A l \in 1 .. Len(b) : b[l] = q[j + l]
        BY <1>8 DEF Behind
      <3>2. k \in 1 .. Len(b) /\ k \in Nat /\ b[k] = q[j + k]
        BY <3>1
      <3>3. j + k < e
        <4>1. SUFFICES ASSUME e <= j + k PROVE FALSE
          BY <1>14, <3>2
        <4>2. e - j \in 1 .. k /\ e - j \in 1 .. Len(b) /\ j + (e - j) = e
          <5>1. j \in Int /\ e \in Int /\ j + 1 <= e
            BY <1>6, <1>14
          <5>2. k \in Nat /\ k <= Len(b) /\ Len(b) \in Nat
            BY <3>1, <3>2
          <5> QED
            BY <4>1, <5>1, <5>2
        <4>3. b[e - j] = "end"
          BY <1>12, <3>1, <4>2
        <4> QED
          BY <2>3, <4>2, <4>3
      <3>4. j + k \in (i + 1) .. (e - 1)
        BY <1>6, <1>14, <3>2, <3>3
      <3> QED
        BY <2>1, <3>2, <3>4
    <2> QED
      BY <2>2, <2>3 DEF UpToEnd
  <1>21. \A k \in 1 .. e : ~Refusal(q, t, k)
    <2>1. \A k \in 1 .. e : k \in 1 .. i \/ k \in (i + 1) .. (e - 1) \/ k = e
      BY <1>14
    <2>2. \A k \in (i + 1) .. (e - 1) : ~Refusal(q, t, k)
      BY <1>12 DEF Refusal
    <2>3. ~Refusal(q, t, e)
      BY <1>12 DEF Refusal
    <2> QED
      BY <1>10, <2>1, <2>2, <2>3
  <1>22. ASSUME NEW g, g.op = r.op, g.open = r.open, g.block = "none",
                g.dirty => r.dirty, g.kept => r.kept
         PROVE  OnPath(g, AfterEnd(b))
    <2>1. Reached(g, q, e)
      BY <1>3, <1>10, <1>12, <1>21, <1>22 DEF Reached
    <2> QED
      BY <1>1, <1>14, <1>16, <1>22, <2>1 DEF OnPath
  <1> QED
    BY <1>7, <1>16, <1>18, <1>19, <1>20, <1>22

-----------------------------------------------------------------------------
(* What answers and roll-backs leave of a request *)

\* An answer leaves nothing to do and nothing open.
LEMMA AnsweredFields ==
    ASSUME NEW r \in Request, NEW a \in Answers, NEW g, g = Answered(r, a)
    PROVE  /\ g \in Request
           /\ g.op = r.op /\ g.rest = {} /\ g.open = 0 /\ g.block = "none"
           /\ ~g.dirty /\ g.kept = r.kept /\ g.missed = r.missed
           /\ g.partial = r.partial /\ g.answer = a
  <1>1. PICK rest \in SUBSET Seq(Kinds) : rest = {}
    OBVIOUS
  <1>2. PICK no \in BOOLEAN : no = FALSE
    OBVIOUS
  <1>3. PICK open \in 0 .. 2 : open = 0
    OBVIOUS
  <1>4. PICK block \in Blocks \cup {"none"} : block = "none"
    OBVIOUS
  <1>5. g = [r EXCEPT !.rest = rest, !.open = open, !.block = block, !.dirty = no,
                      !.finished = no, !.answer = a]
    BY <1>1, <1>2, <1>3, <1>4, Zenon DEF Answered
  <1>6. /\ g \in Request
        /\ g.op = r.op /\ g.rest = rest /\ g.open = open /\ g.block = block
        /\ g.dirty = no /\ g.kept = r.kept /\ g.missed = r.missed
        /\ g.partial = r.partial /\ g.answer = a
    <2>1. g \in Request
      BY <1>5, Zenon DEF Request
    <2>2. /\ g.op = r.op /\ g.rest = rest /\ g.open = open /\ g.block = block
          /\ g.dirty = no /\ g.kept = r.kept /\ g.missed = r.missed
          /\ g.partial = r.partial /\ g.answer = a
      BY <1>5 DEF Request
    <2> QED
      BY <2>1, <2>2
  <1> QED
    BY <1>1, <1>2, <1>3, <1>4, <1>6, Zenon

\* A roll-back loses what was written in the transaction.
LEMMA RolledBackFields ==
    ASSUME NEW r \in Request, NEW g, g = RolledBack(r)
    PROVE  /\ g \in Request
           /\ g.op = r.op /\ g.rest = r.rest /\ g.open = 0 /\ g.block = r.block
           /\ g.finished /\ ~g.dirty /\ g.kept = r.kept
           /\ g.missed = (r.missed \/ r.dirty)
           /\ g.partial = r.partial /\ g.answer = r.answer
  <1>1. PICK yes \in BOOLEAN : yes = TRUE
    OBVIOUS
  <1>2. PICK no \in BOOLEAN : no = FALSE
    OBVIOUS
  <1>3. PICK lost \in BOOLEAN : lost = (r.missed \/ r.dirty)
    OBVIOUS
  <1>4. PICK open \in 0 .. 2 : open = 0
    OBVIOUS
  <1>5. g = [r EXCEPT !.open = open, !.finished = yes, !.missed = lost, !.dirty = no]
    BY <1>1, <1>2, <1>3, <1>4, Zenon DEF RolledBack
  <1>6. /\ g \in Request
        /\ g.op = r.op /\ g.rest = r.rest /\ g.open = open /\ g.block = r.block
        /\ g.finished = yes /\ g.dirty = no /\ g.kept = r.kept /\ g.missed = lost
        /\ g.partial = r.partial /\ g.answer = r.answer
    <2>1. g \in Request
      BY <1>5, Zenon DEF Request
    <2>2. /\ g.op = r.op /\ g.rest = r.rest /\ g.open = open /\ g.block = r.block
          /\ g.finished = yes /\ g.dirty = no /\ g.kept = r.kept /\ g.missed = lost
          /\ g.partial = r.partial /\ g.answer = r.answer
      BY <1>5 DEF Request
    <2> QED
      BY <2>1, <2>2
  <1> QED
    BY <1>1, <1>2, <1>3, <1>4, <1>6, Zenon

\* A request that is answered is good when its answer is true.
LEMMA AnswerIsGood ==
    ASSUME NEW r \in Request, NEW a \in Answers \ {"none"},
           r.op \notin Torn /\ r.missed /\ ~r.partial => ~r.kept,
           a \in {"error", "nothing"} /\ r.kept => r.op \in Torn \cup Late,
           a = "ok" /\ r.missed => r.op \in Careless,
           a = "fatal" => r.op \in Fatal
    PROVE  GoodRequest(Answered(r, a))
  <1>1. PICK g : g = Answered(r, a)
    OBVIOUS
  <1>2. /\ g \in Request /\ g.op = r.op /\ g.rest = {} /\ g.open = 0 /\ ~g.dirty
        /\ g.kept = r.kept /\ g.missed = r.missed /\ g.partial = r.partial /\ g.answer = a
    <2>1. a \in Answers
      OBVIOUS
    <2>2. g \in Request
      BY <1>1, <2>1, AnsweredFields, Zenon
    <2>3. /\ g.op = r.op /\ g.rest = {} /\ g.open = 0 /\ ~g.dirty
          /\ g.kept = r.kept /\ g.missed = r.missed /\ g.partial = r.partial /\ g.answer = a
      BY <1>1, <2>1, AnsweredFields
    <2> QED
      BY <2>2, <2>3
  <1>3. ~AtWork(g)
    BY <1>2 DEF AtWork
  <1>4. Traced(g) /\ Idle(g)
    BY <1>2, <1>3 DEF Traced, Idle
  <1>5. Exact(g)
    BY <1>2 DEF Exact
  <1>6. Candid(g)
    BY <1>2, <1>3 DEF Candid
  <1> QED
    BY <1>1, <1>2, <1>4, <1>5, <1>6 DEF GoodRequest

\* An empty slot is in order.
LEMMA NoRequestIsGood == GoodRequest(NoRequest) /\ NoRequest.op = "none" /\ NoRequest.open = 0
  <1>1. PICK g : g = NoRequest
    OBVIOUS
  <1>2. /\ g.op = "none" /\ g.rest = {} /\ g.open = 0 /\ g.finished = FALSE /\ g.block = "none"
        /\ ~g.dirty /\ g.kept = FALSE /\ g.missed = FALSE /\ g.partial = FALSE
        /\ g.answer = "none" /\ g \in Request
    BY <1>1 DEF NoRequest, Request, Answers
  <1>3. ~AtWork(g)
    BY <1>2 DEF AtWork
  <1>4. Traced(g) /\ Idle(g) /\ Exact(g) /\ Candid(g)
    BY <1>2, <1>3 DEF Traced, Idle, Exact, Candid
  <1> QED
    BY <1>1, <1>2, <1>4 DEF GoodRequest

\* What the parts of GoodRequest say of a request at work.
LEMMA AtWorkFacts ==
    ASSUME NEW r, GoodRequest(r), AtWork(r)
    PROVE  /\ r \in Request /\ r.op \in DOMAIN Service /\ r.answer = "none"
           /\ \A p \in r.rest : p \in Seq(Kinds) /\ OnPath(r, p)
           /\ r.op \notin Torn =>
                 /\ ~(r.kept /\ r.dirty)
                 /\ r.missed /\ ~r.partial =>
                       ~r.kept /\ ~r.dirty /\ \A p \in r.rest : OnlyLooks(p)
           /\ r.missed => r.op \in Careless \/ r.partial
           /\ r.kept /\ r.op \in Unawaited \ Torn => r.finished
           /\ r.open \in 0 .. 2 /\ r.block \in Blocks \cup {"none"}
           /\ r.dirty \in BOOLEAN /\ r.kept \in BOOLEAN /\ r.missed \in BOOLEAN
           /\ r.partial \in BOOLEAN /\ r.finished \in BOOLEAN
           /\ r.rest \in SUBSET Seq(Kinds)
  <1>1. r \in Request /\ r.op # "none" /\ r.answer = "none"
    BY DEF GoodRequest, AtWork
  <1>2. /\ r.op \in DOMAIN Service
        /\ r.rest \in SUBSET Seq(Kinds)
        /\ r.open \in 0 .. 2 /\ r.block \in Blocks \cup {"none"}
        /\ r.dirty \in BOOLEAN /\ r.kept \in BOOLEAN /\ r.missed \in BOOLEAN
        /\ r.partial \in BOOLEAN /\ r.finished \in BOOLEAN
    BY <1>1 DEF Request
  <1>3. \A p \in r.rest : p \in Seq(Kinds) /\ OnPath(r, p)
    BY <1>2 DEF GoodRequest, Traced
  <1>4. r.op \notin Torn =>
           /\ ~(r.kept /\ r.dirty)
           /\ r.missed /\ ~r.partial =>
                 ~r.kept /\ ~r.dirty /\ \A p \in r.rest : OnlyLooks(p)
    BY DEF GoodRequest, Exact
  <1>5. /\ r.missed => r.op \in Careless \/ r.partial
        /\ r.kept /\ r.op \in Unawaited \ Torn => r.finished
    BY DEF GoodRequest, Candid
  <1> QED
    BY <1>1, <1>2, <1>3, <1>4, <1>5

\* The process stops: whatever a request has open is rolled back.
LEMMA StopIsGood ==
    ASSUME NEW r, GoodRequest(r), AtWork(r), NEW a \in {"fatal", "cut"},
           a = "fatal" => r.op \in Fatal
    PROVE  /\ GoodRequest(Answered(RolledBack(r), a))
           /\ Answered(RolledBack(r), a).op = r.op
           /\ Answered(RolledBack(r), a).open = 0
           /\ Answered(RolledBack(r), a).answer = a
  <1>1. /\ r \in Request /\ r.dirty \in BOOLEAN /\ r.missed \in BOOLEAN
        /\ r.op \notin Torn =>
              ~(r.kept /\ r.dirty) /\ (r.missed /\ ~r.partial => ~r.kept)
    BY AtWorkFacts
  <1>2. PICK f : f = RolledBack(r)
    OBVIOUS
  <1>3. /\ f \in Request /\ f.op = r.op /\ f.kept = r.kept
        /\ f.missed = (r.missed \/ r.dirty) /\ f.partial = r.partial
    BY <1>1, <1>2, RolledBackFields
  <1>4. a \in Answers \ {"none"} /\ a \notin {"error", "nothing", "ok"}
    BY DEF Answers
  <1>5. f.op \notin Torn /\ f.missed /\ ~f.partial => ~f.kept
    BY <1>1, <1>3
  <1>6. GoodRequest(Answered(f, a))
    BY <1>3, <1>4, <1>5, AnswerIsGood
  <1>7. Answered(f, a).op = f.op /\ Answered(f, a).open = 0 /\ Answered(f, a).answer = a
    <2>1. PICK h : h = Answered(f, a)
      OBVIOUS
    <2>2. a \in Answers
      BY <1>4
    <2> QED
      BY <1>3, <2>1, <2>2, AnsweredFields
  <1> QED
    BY <1>2, <1>3, <1>6, <1>7

-----------------------------------------------------------------------------
(* What an error makes of a request *)

\* f is the request r as the failure of x, or the throw x, leaves it
Erring(r, f, x) ==
    /\ f \in Request
    /\ f.op = r.op /\ f.rest = r.rest /\ f.block = r.block
    /\ f.kept = r.kept /\ f.partial = r.partial /\ f.answer = r.answer
    /\ f.open = IF x = "commit" THEN r.open - 1 ELSE r.open
    /\ f.dirty => r.dirty
    /\ f.missed => r.missed \/ x \in Writes \/ (x = "commit" /\ r.dirty)
    /\ r.finished => f.finished

\* the request goes on behind the block whose catch took the error
Skipped(R, x) == x \in Writes \/ \E b \in Rests(R, x) : UpToEnd(b) \cap Writes # {}
Caught(r, f, x) ==
    [f EXCEPT !.rest = {AfterEnd(b) : b \in Rests(r.rest, x)},
              !.block = "none",
              !.missed = @ \/ Skipped(r.rest, x),
              !.partial = @ \/ f.block = "item" \/ f.op \in Empty]

\* What an error finds: a method that is not torn has missed nothing that it
\* saved, or has told it, and one that has saved something cannot fail any more
\* outside a block, unless it answers late or its roll-back is rejected.
LEMMA ErrorFinds ==
    ASSUME NEW r, GoodRequest(r), AtWork(r), NEW p \in r.rest, p # <<>>,
           NEW x \in Faulty \cup {"throw"}, x = Head(p), NEW f, Erring(r, f, x)
    PROVE  /\ f.op \notin Torn /\ (f.missed \/ f.dirty) /\ ~f.partial => ~f.kept
           /\ f.kept /\ f.block \notin {"try", "item"} /\ ~(f.op \in Unawaited /\ f.finished) =>
                 f.op \in Torn \cup Late
           /\ f.open \in 0 .. 2 /\ f.open <= r.open
           /\ f.op \in Forgetful => f.open \in 0 .. 1 /\ r.open \in 0 .. 1
           /\ f.op \in Again => f.block = "none" /\ (f.open > 0 => ~f.kept)
  <1>1. /\ f \in Request
        /\ f.op = r.op /\ f.block = r.block /\ f.kept = r.kept /\ f.partial = r.partial
        /\ f.dirty => r.dirty
        /\ f.missed => r.missed \/ x \in Writes \/ (x = "commit" /\ r.dirty)
        /\ r.finished => f.finished
    BY DEF Erring
  <1>2. f.open = IF x = "commit" THEN r.open - 1 ELSE r.open
    BY DEF Erring
  <1>3. /\ r \in Request /\ r.op \in DOMAIN Service
        /\ p \in Seq(Kinds) /\ OnPath(r, p) /\ r.open \in 0 .. 2
    BY AtWorkFacts
  <1>4. /\ r.op \notin Torn =>
              ~(r.kept /\ r.dirty) /\ (r.missed /\ ~r.partial => ~r.kept)
        /\ r.kept /\ r.op \in Unawaited \ Torn => r.finished
    BY AtWorkFacts
  <1>5. /\ r.op \notin Torn /\ r.kept => x \notin Writes
        /\ r.op \notin Torn \cup Late \cup Unawaited /\ r.kept
              /\ r.block \notin {"try", "item"} => x \notin Faulty \cup {"throw"}
    BY <1>3, NextAllowed
  <1>6. x = "commit" => r.open - 1 \in 0 .. 2
    BY <1>3, NextAllowed
  <1>7. /\ r.op \in Forgetful => r.open \in 0 .. 1
        /\ r.op \in Again => r.block = "none" /\ (r.open > 0 => ~r.kept)
    BY <1>3, WhereItIs
  <1>8. f.op \notin Torn /\ (f.missed \/ f.dirty) /\ ~f.partial => ~f.kept
    BY <1>1, <1>4, <1>5
  <1>9. f.kept /\ f.block \notin {"try", "item"} /\ ~(f.op \in Unawaited /\ f.finished) =>
           f.op \in Torn \cup Late
    BY <1>1, <1>4, <1>5
  <1>10. f.open \in 0 .. 2 /\ f.open <= r.open
    BY <1>2, <1>3, <1>6
  <1>11. f.op \in Forgetful => f.open \in 0 .. 1 /\ r.open \in 0 .. 1
    BY <1>1, <1>7, <1>10
  <1>12. r.open \in 0 .. 2 /\ (f.open > 0 => r.open > 0)
    BY <1>3, <1>10
  <1>13. f.op \in Again => f.block = "none" /\ (f.open > 0 => ~f.kept)
    BY <1>1, <1>7, <1>12
  <1> QED
    BY <1>8, <1>9, <1>10, <1>11, <1>13

\* An error that is answered is answered truly.
LEMMA ErrorIsAnswered ==
    ASSUME NEW r, GoodRequest(r), AtWork(r), NEW p \in r.rest, p # <<>>,
           NEW x \in Faulty \cup {"throw"}, x = Head(p), NEW f, Erring(r, f, x),
           NEW h \in Request, h.op = f.op, h.kept = f.kept, h.partial = f.partial,
           h.missed => f.missed \/ f.dirty,
           NEW a \in Answers \ {"none"},
           a \in {"error", "nothing"} =>
              f.block \notin {"try", "item"} /\ ~(f.op \in Unawaited /\ f.finished),
           a = "ok" => f.op \in Careless,
           a = "fatal" => f.op \in Fatal
    PROVE  GoodRequest(Answered(h, a))
  <1>1. /\ f.op \notin Torn /\ (f.missed \/ f.dirty) /\ ~f.partial => ~f.kept
        /\ f.kept /\ f.block \notin {"try", "item"} /\ ~(f.op \in Unawaited /\ f.finished) =>
              f.op \in Torn \cup Late
    BY ErrorFinds
  <1>2. h.op \notin Torn /\ h.missed /\ ~h.partial => ~h.kept
    BY <1>1
  <1>3. a \in {"error", "nothing"} /\ h.kept => h.op \in Torn \cup Late
    BY <1>1
  <1>4. a = "ok" /\ h.missed => h.op \in Careless
    OBVIOUS
  <1>5. a = "fatal" => h.op \in Fatal
    OBVIOUS
  <1> QED
    BY <1>2, <1>3, <1>4, <1>5, AnswerIsGood

\* An error that a block catches leaves the request on its path behind the
\* block, and what the block has skipped is told, or was not to be written.
LEMMA ErrorIsCaught ==
    ASSUME NEW r, GoodRequest(r), AtWork(r), NEW p \in r.rest, p # <<>>,
           NEW x \in Faulty \cup {"throw"}, x = Head(p), NEW f, Erring(r, f, x),
           f.block \in {"try", "item"}, NEW g, g = Caught(r, f, x)
    PROVE  GoodRequest(g) /\ g.op = r.op /\ g.open <= r.open
  <1> DEFINE Bs == Rests(r.rest, x)
  <1>1. /\ f \in Request
        /\ f.op = r.op /\ f.rest = r.rest /\ f.block = r.block /\ f.kept = r.kept
        /\ f.partial = r.partial /\ f.answer = r.answer
        /\ f.dirty => r.dirty
        /\ f.missed => r.missed \/ x \in Writes \/ (x = "commit" /\ r.dirty)
        /\ r.finished => f.finished
    BY DEF Erring
  <1>2. f.open = IF x = "commit" THEN r.open - 1 ELSE r.open
    BY DEF Erring
  <1>3. /\ r \in Request /\ r.op \in DOMAIN Service /\ r.answer = "none" /\ r.op # "none"
        /\ \A q \in r.rest : q \in Seq(Kinds) /\ OnPath(r, q)
        /\ r.open \in 0 .. 2
    BY AtWorkFacts DEF AtWork
  <1>4. /\ r.op \notin Torn =>
              /\ ~(r.kept /\ r.dirty)
              /\ r.missed /\ ~r.partial =>
                    ~r.kept /\ ~r.dirty /\ \A q \in r.rest : OnlyLooks(q)
        /\ r.missed => r.op \in Careless \/ r.partial
        /\ r.kept /\ r.op \in Unawaited \ Torn => r.finished
    BY AtWorkFacts
  <1>5. x # "end"
    BY DEF Faulty, Simple, Deadly
  <1>6. ASSUME NEW b \in Bs
        PROVE  \E q \in r.rest : q # <<>> /\ Head(q) = x /\ b = Tail(q)
    BY DEF Rests
  <1>7. ASSUME NEW q \in r.rest, q # <<>>, Head(q) = x
        PROVE  /\ x # "commit"
               /\ r.block = "try" /\ (r.op \notin Torn \/ r.op \notin Careless \cup Empty) =>
                     x \notin Writes /\ UpToEnd(Tail(q)) \cap Writes = {}
               /\ AfterEnd(Tail(q)) \in Seq(Kinds)
               /\ \A k \in 1 .. Len(AfterEnd(Tail(q))) :
                     \E l \in 1 .. Len(q) : AfterEnd(Tail(q))[k] = q[l]
               /\ \A e : e.op = r.op /\ e.open = r.open /\ e.block = "none"
                           /\ (e.dirty => r.dirty) /\ (e.kept => r.kept) =>
                         OnPath(e, AfterEnd(Tail(q)))
    <2>1. q \in Seq(Kinds) /\ OnPath(r, q) /\ r.block \in {"try", "item"}
      BY <1>1, <1>3
    <2> QED
      BY <1>3, <1>5, <1>7, <2>1, Jumps
  <1>8. x # "commit" /\ f.open = r.open
    BY <1>2, <1>7
  <1>9. r.block = "try" /\ (r.op \notin Torn \/ r.op \notin Careless \cup Empty) =>
           x \notin Writes /\ ~Skipped(r.rest, x)
    BY <1>6, <1>7 DEF Skipped
  <1>10. PICK rest \in SUBSET Seq(Kinds) : rest = {AfterEnd(b) : b \in Bs}
    <2>1. ASSUME NEW b \in Bs
          PROVE  AfterEnd(b) \in Seq(Kinds)
      <3>1. PICK q \in r.rest : q # <<>> /\ Head(q) = x /\ b = Tail(q)
        BY <1>6
      <3> QED
        BY <1>7, <3>1
    <2> HIDE DEF Bs
    <2> QED
      BY <2>1
  <1>11. PICK block \in Blocks \cup {"none"} : block = "none"
    OBVIOUS
  <1>12. PICK missed \in BOOLEAN : missed = (f.missed \/ Skipped(r.rest, x))
    OBVIOUS
  <1>13. PICK partial \in BOOLEAN : partial = (f.partial \/ f.block = "item" \/ f.op \in Empty)
    OBVIOUS
  <1>14. g = [f EXCEPT !.rest = rest, !.block = block, !.missed = missed, !.partial = partial]
    BY <1>10, <1>11, <1>12, <1>13, Zenon DEF Caught
  <1>15. /\ g \in Request
         /\ g.op = f.op /\ g.rest = rest /\ g.open = f.open /\ g.block = block
         /\ g.finished = f.finished /\ g.dirty = f.dirty /\ g.kept = f.kept
         /\ g.missed = missed /\ g.partial = partial /\ g.answer = f.answer
    <2>1. g \in Request
      BY <1>1, <1>14, Zenon DEF Request
    <2>2. /\ g.op = f.op /\ g.rest = rest /\ g.open = f.open /\ g.block = block
          /\ g.finished = f.finished /\ g.dirty = f.dirty /\ g.kept = f.kept
          /\ g.missed = missed /\ g.partial = partial /\ g.answer = f.answer
      BY <1>1, <1>14 DEF Request
    <2> QED
      BY <2>1, <2>2
  <1>16. AtWork(g)
    BY <1>1, <1>3, <1>15 DEF AtWork
  <1>17. ASSUME NEW c \in g.rest
         PROVE  OnPath(g, c) /\ (r.op \notin Torn /\ r.missed /\ ~r.partial => OnlyLooks(c))
    <2>1. PICK b \in Bs : c = AfterEnd(b)
      BY <1>10, <1>15
    <2>2. PICK q \in r.rest : q # <<>> /\ Head(q) = x /\ b = Tail(q)
      BY <1>6
    <2>3. OnPath(g, c)
      <3>1. /\ g.op = r.op /\ g.open = r.open /\ g.block = "none"
            /\ (g.dirty => r.dirty) /\ (g.kept => r.kept)
        BY <1>1, <1>8, <1>11, <1>15
      <3> QED
        BY <1>7, <2>1, <2>2, <3>1
    <2>4. \A k \in 1 .. Len(c) : \E l \in 1 .. Len(q) : c[k] = q[l]
      BY <1>7, <2>1, <2>2
    <2>5. ASSUME r.op \notin Torn, r.missed, ~r.partial
          PROVE  OnlyLooks(c)
      <3>1. OnlyLooks(q)
        BY <1>4, <2>5
      <3> QED
        BY <2>4, <3>1 DEF OnlyLooks
    <2> QED
      BY <2>3, <2>5
  <1>18. ~partial => r.block = "try" /\ r.op \notin Empty /\ ~r.partial
    BY <1>1, <1>13
  <1>19. missed /\ ~partial /\ (r.op \notin Torn \/ r.op \notin Careless) => r.missed
    BY <1>1, <1>8, <1>9, <1>12, <1>18
  <1>20. Traced(g) /\ Idle(g)
    BY <1>16, <1>17 DEF Traced, Idle
  <1>21. Exact(g)
    <2>1. g.op \notin Torn => ~(g.kept /\ g.dirty)
      BY <1>1, <1>4, <1>15
    <2>2. ASSUME g.op \notin Torn, g.missed, ~g.partial
          PROVE  ~g.kept /\ ~g.dirty /\ \A c \in g.rest : OnlyLooks(c)
      <3>1. r.op \notin Torn /\ r.missed /\ ~r.partial
        BY <1>1, <1>15, <1>18, <1>19, <2>2
      <3>2. ~r.kept /\ ~r.dirty
        BY <1>4, <3>1
      <3> QED
        BY <1>1, <1>15, <1>17, <3>1, <3>2
    <2> QED
      BY <2>1, <2>2 DEF Exact
  <1>22. Candid(g)
    <2>1. g.missed => g.op \in Careless \/ g.partial
      BY <1>1, <1>4, <1>15, <1>18, <1>19
    <2>2. g.kept /\ g.op \in Unawaited \ Torn => g.finished
      BY <1>1, <1>4, <1>15
    <2>3. g.answer = "none"
      BY <1>1, <1>3, <1>15
    <2> QED
      BY <2>1, <2>2, <2>3 DEF Candid
  <1>23. g.op = r.op /\ g.open <= r.open
    BY <1>1, <1>3, <1>8, <1>15
  <1> QED
    BY <1>15, <1>20, <1>21, <1>22, <1>23 DEF GoodRequest

\* findEudrSetting looks once more: it has written nothing and will write nothing.
LEMMA ErrorIsRetried ==
    ASSUME NEW r, GoodRequest(r), AtWork(r), NEW p \in r.rest, p # <<>>,
           NEW x \in Faulty \cup {"throw"}, x = Head(p), NEW f, Erring(r, f, x),
           f.op \in Again, f.open > 0,
           NEW g, g = [RolledBack(f) EXCEPT !.rest = Retry]
    PROVE  GoodRequest(g) /\ g.op = r.op /\ g.open = 0
  <1>1. f \in Request /\ f.op = r.op /\ f.answer = r.answer
    BY DEF Erring
  <1>2. r.op \in DOMAIN Service /\ r.answer = "none" /\ r.op # "none"
    BY AtWorkFacts DEF AtWork
  <1>3. f.block = "none" /\ ~f.kept
    BY ErrorFinds
  <1>4. PICK h : h = RolledBack(f)
    OBVIOUS
  <1>5. h \in Request
    BY <1>1, <1>4, RolledBackFields, Zenon
  <1>6. /\ h.op = f.op /\ h.open = 0 /\ h.block = f.block /\ ~h.dirty /\ h.kept = f.kept
        /\ h.answer = f.answer
    BY <1>1, <1>4, RolledBackFields
  <1>7. Retry \subseteq Paths(r.op)
    BY <1>1 DEF Paths
  <1>8. PICK rest : rest = Retry
    OBVIOUS
  <1>9. rest \in SUBSET Seq(Kinds)
    BY <1>2, <1>7, <1>8, PathFacts
  <1>10. g = [h EXCEPT !.rest = rest]
    BY <1>4, <1>8
  <1>11. /\ g \in Request
         /\ g.op = h.op /\ g.rest = rest /\ g.open = h.open /\ g.block = h.block
         /\ g.dirty = h.dirty /\ g.kept = h.kept /\ g.missed = h.missed
         /\ g.partial = h.partial /\ g.answer = h.answer
    BY <1>5, <1>9, <1>10 DEF Request
  <1>12. AtWork(g)
    BY <1>1, <1>2, <1>6, <1>11 DEF AtWork
  <1>13. ASSUME NEW q \in g.rest
         PROVE  OnPath(g, q) /\ OnlyLooks(q)
    <2>1. q \in Paths(r.op) /\ q \in Retry
      BY <1>7, <1>8, <1>11
    <2>2. PICK t : t = Track(q)
      OBVIOUS
    <2>3. q \in Seq(Kinds) /\ IsTracked(r.op, q, t)
      BY <1>2, <2>1, <2>2, PathFacts
    <2>4. t[0].open = 0 /\ t[0].block = "none"
      BY <2>3 DEF IsTracked, Origin
    <2>5. Len(q) \in Nat /\ 0 \in 0 .. Len(q)
      BY <2>3
    <2>6. Behind(q, q, 0)
      BY <2>3 DEF Behind
    <2>7. g.open = 0 /\ g.block = "none" /\ ~g.dirty /\ ~g.kept
      BY <1>3, <1>6, <1>11
    <2>8. Reached(g, q, 0)
      BY <2>2, <2>4, <2>7 DEF Reached
    <2>9. g.op = r.op
      BY <1>1, <1>6, <1>11
    <2>10. OnPath(g, q)
      BY <2>1, <2>5, <2>6, <2>8, <2>9 DEF OnPath
    <2>11. \A k \in 1 .. Len(q) : q[k] \in {"read", "throw"}
      BY <2>1, PathsAssumption
    <2>12. OnlyLooks(q)
      BY <2>11 DEF OnlyLooks, Writes
    <2> QED
      BY <2>10, <2>12
  <1>14. Traced(g) /\ Idle(g)
    BY <1>12, <1>13 DEF Traced, Idle
  <1>15. ~g.kept /\ ~g.dirty /\ g.op = r.op /\ g.open = 0 /\ g.answer = "none"
    BY <1>1, <1>2, <1>3, <1>6, <1>11
  <1>16. Exact(g)
    BY <1>13, <1>15 DEF Exact
  <1>17. r.op \in Careless
    BY <1>1 DEF Again, Careless
  <1>18. Candid(g)
    BY <1>15, <1>17 DEF Candid
  <1> QED
    BY <1>11, <1>14, <1>15, <1>16, <1>18 DEF GoodRequest

Arriving(m) == [NoRequest EXCEPT !.op = m, !.rest = Service[m]]

\* A request that arrives is at the beginning of every path of its method.
LEMMA ArrivalIsGood ==
    ASSUME NEW m \in DOMAIN Service, m # "none", NEW g, g = Arriving(m)
    PROVE  GoodRequest(g) /\ g.op = m /\ g.open = 0
  <1>1. Service[m] \subseteq Paths(m)
    BY DEF Paths
  <1>2. Service[m] \in SUBSET Seq(Kinds)
    BY <1>1, PathFacts
  <1>3. PICK rest \in SUBSET Seq(Kinds), op \in DOMAIN Service \cup {"none"} :
           rest = Service[m] /\ op = m
    BY <1>2
  <1>4. PICK no \in BOOLEAN : no = FALSE
    OBVIOUS
  <1>5. PICK open \in 0 .. 2 : open = 0
    OBVIOUS
  <1>6. PICK block \in Blocks \cup {"none"}, answer \in Answers : block = "none" /\ answer = "none"
    BY DEF Answers
  <1>7. g = [op |-> op, rest |-> rest, open |-> open, finished |-> no, block |-> block,
             dirty |-> no, kept |-> no, missed |-> no, partial |-> no, answer |-> answer]
    BY <1>3, <1>4, <1>5, <1>6 DEF Arriving, NoRequest
  <1>8. /\ g \in Request
        /\ g.op = op /\ g.rest = rest /\ g.open = open /\ g.block = block /\ g.answer = answer
        /\ g.dirty = no /\ g.kept = no /\ g.missed = no
    BY <1>7 DEF Request
  <1>9. /\ g \in Request
        /\ g.op = m /\ g.rest = rest /\ g.open = 0 /\ g.block = "none" /\ g.answer = "none"
        /\ g.dirty = no /\ g.kept = no /\ g.missed = no
    BY <1>3, <1>5, <1>6, <1>8
  <1>10. ~g.dirty /\ ~g.kept /\ ~g.missed
    BY <1>4, <1>9
  <1>11. AtWork(g)
    BY <1>9 DEF AtWork
  <1>12. ASSUME NEW q \in g.rest
         PROVE  OnPath(g, q)
    <2>1. q \in Paths(m)
      BY <1>1, <1>3, <1>9
    <2>2. PICK t : t = Track(q)
      OBVIOUS
    <2>3. q \in Seq(Kinds) /\ IsTracked(m, q, t)
      BY <2>1, <2>2, PathFacts
    <2>4. t[0].open = 0 /\ t[0].block = "none"
      BY <2>3 DEF IsTracked, Origin
    <2>5. Len(q) \in Nat /\ 0 \in 0 .. Len(q)
      BY <2>3
    <2>6. Behind(q, q, 0)
      BY <2>3 DEF Behind
    <2>7. Reached(g, q, 0)
      BY <1>9, <1>10, <2>2, <2>4 DEF Reached
    <2> QED
      BY <1>9, <2>1, <2>5, <2>6, <2>7 DEF OnPath
  <1>13. Traced(g) /\ Idle(g)
    BY <1>11, <1>12 DEF Traced, Idle
  <1>14. Exact(g)
    BY <1>10 DEF Exact
  <1>15. Candid(g)
    BY <1>9, <1>10 DEF Candid
  <1> QED
    BY <1>9, <1>13, <1>14, <1>15 DEF GoodRequest

-----------------------------------------------------------------------------
(* What a statement makes of a request *)

\* g is the request r when x was executed
Executed(r, g, x) ==
    /\ g \in Request
    /\ g.op = r.op /\ g.rest = Rests(r.rest, x)
    /\ g.partial = r.partial /\ g.answer = r.answer
    /\ g.open = Passed(r, x).open /\ g.block = Passed(r, x).block
    /\ g.dirty => Passed(r, x).dirty
    /\ g.kept => Passed(r, x).kept
    /\ g.missed => r.missed
    /\ r.finished \/ x = "commit" => g.finished

\* A statement that is executed leaves the request on its path.
LEMMA ExecutedIsGood ==
    ASSUME NEW r, GoodRequest(r), AtWork(r), NEW p \in r.rest, p # <<>>,
           NEW x, x = Head(p), x # "throw", NEW g, Executed(r, g, x)
    PROVE  GoodRequest(g) /\ g.op = r.op
  <1>1. /\ g \in Request
        /\ g.op = r.op /\ g.rest = Rests(r.rest, x)
        /\ g.partial = r.partial /\ g.answer = r.answer
        /\ g.open = Passed(r, x).open /\ g.block = Passed(r, x).block
        /\ g.dirty => Passed(r, x).dirty
        /\ g.kept => Passed(r, x).kept
        /\ g.missed => r.missed
        /\ r.finished \/ x = "commit" => g.finished
    BY DEF Executed
  <1>2. /\ r \in Request /\ r.op \in DOMAIN Service /\ r.answer = "none" /\ r.op # "none"
        /\ \A q \in r.rest : q \in Seq(Kinds) /\ OnPath(r, q)
    BY AtWorkFacts DEF AtWork
  <1>3. /\ r.op \notin Torn /\ r.missed /\ ~r.partial =>
              ~r.kept /\ ~r.dirty /\ \A q \in r.rest : OnlyLooks(q)
        /\ r.missed => r.op \in Careless \/ r.partial
        /\ r.kept /\ r.op \in Unawaited \ Torn => r.finished
    BY AtWorkFacts
  <1>4. /\ g.dirty => r.dirty \/ x = "in"
        /\ g.kept => r.kept \/ x \in {"out", "spawn"} \/ x = "commit"
    BY <1>1 DEF Passed
  <1>5. AtWork(g)
    BY <1>1, <1>2 DEF AtWork
  <1>6. ASSUME NEW b \in g.rest
        PROVE  \E q \in r.rest : q # <<>> /\ Head(q) = x /\ b = Tail(q)
    BY <1>1 DEF Rests
  <1>7. ASSUME NEW q \in r.rest, q # <<>>, Head(q) = x
        PROVE  OnPath(g, Tail(q))
    <2>1. q \in Seq(Kinds) /\ OnPath(r, q)
      BY <1>2
    <2> QED
      BY <1>1, <1>2, <1>7, <2>1, Advances
  <1>8. Traced(g) /\ Idle(g)
    BY <1>5, <1>6, <1>7 DEF Traced, Idle
  <1>9. ASSUME r.op \notin Torn, r.missed, ~r.partial
        PROVE  x \notin Writes \cup {"commit"} /\ \A b \in g.rest : OnlyLooks(b)
    <2>1. ASSUME NEW q \in r.rest, q # <<>>
          PROVE  Head(q) \notin Writes \cup {"commit"} /\ OnlyLooks(Tail(q))
      <3>1. q \in Seq(Kinds) /\ OnlyLooks(q)
        BY <1>2, <1>3, <1>9
      <3>2. /\ 1 \in 1 .. Len(q) /\ Head(q) = q[1]
            /\ \A k \in 1 .. Len(Tail(q)) : k + 1 \in 1 .. Len(q) /\ Tail(q)[k] = q[k + 1]
        BY <2>1, <3>1
      <3> QED
        BY <3>1, <3>2 DEF OnlyLooks
    <2> QED
      BY <1>6, <2>1
  <1>10. Exact(g)
    <2>1. g.op \notin Torn => ~(g.kept /\ g.dirty)
      <3>1. OnPath(g, Tail(p)) /\ g.op \in DOMAIN Service
        BY <1>1, <1>2, <1>7
      <3> QED
        BY <1>1, <3>1, WhereItIs
    <2>2. ASSUME g.op \notin Torn, g.missed, ~g.partial
          PROVE  ~g.kept /\ ~g.dirty /\ \A b \in g.rest : OnlyLooks(b)
      <3>1. r.op \notin Torn /\ r.missed /\ ~r.partial
        BY <1>1, <2>2
      <3>2. ~r.kept /\ ~r.dirty
        BY <1>3, <3>1
      <3>3. x \notin {"in", "out", "spawn", "commit"}
        BY <1>9, <3>1 DEF Writes
      <3> QED
        BY <1>4, <1>9, <3>1, <3>2, <3>3
    <2> QED
      BY <2>1, <2>2 DEF Exact
  <1>11. g.kept /\ g.op \in Unawaited \ Torn => g.finished
    <2>1. r.op \in Unawaited \ Torn => x \notin {"out", "spawn"}
      BY <1>2, NextAllowed
    <2> QED
      BY <1>1, <1>3, <1>4, <2>1
  <1>12. Candid(g)
    <2>1. g.missed => g.op \in Careless \/ g.partial
      BY <1>1, <1>3
    <2> QED
      BY <1>1, <1>2, <1>11, <2>1 DEF Candid
  <1> QED
    BY <1>1, <1>8, <1>10, <1>12 DEF GoodRequest

\* what follows a statement
LEMMA RestsType ==
    ASSUME NEW r \in Request, NEW x
    PROVE  Rests(r.rest, x) \in SUBSET Seq(Kinds)
  <1>1. \A q \in r.rest : q \in Seq(Kinds)
    BY DEF Request
  <1>2. \A q \in r.rest : q # <<>> => Tail(q) \in Seq(Kinds)
    BY <1>1
  <1> QED
    BY <1>2 DEF Rests

\* A transaction begins.
LEMMA BeginIsGood ==
    ASSUME NEW r, GoodRequest(r), AtWork(r), NEW p \in r.rest, p # <<>>, Head(p) = "begin",
           NEW g, g = [r EXCEPT !.open = r.open + 1, !.rest = Rests(r.rest, "begin")]
    PROVE  GoodRequest(g) /\ g.op = r.op /\ g.open = r.open + 1
  <1>1. /\ r \in Request /\ r.op \in DOMAIN Service
        /\ p \in Seq(Kinds) /\ OnPath(r, p)
    BY AtWorkFacts
  <1>2. r.open + 1 \in 0 .. 2
    BY <1>1, NextAllowed
  <1>3. PICK open \in 0 .. 2 : open = r.open + 1
    BY <1>2
  <1>4. PICK rest \in SUBSET Seq(Kinds) : rest = Rests(r.rest, "begin")
    BY <1>1, RestsType
  <1>5. g = [r EXCEPT !.open = open, !.rest = rest]
    BY <1>3, <1>4
  <1>6. /\ g \in Request
        /\ g.op = r.op /\ g.rest = rest /\ g.open = open /\ g.block = r.block
        /\ g.finished = r.finished /\ g.dirty = r.dirty /\ g.kept = r.kept
        /\ g.missed = r.missed /\ g.partial = r.partial /\ g.answer = r.answer
    BY <1>1, <1>5 DEF Request
  <1>7. Passed(r, "begin").open = r.open + 1 /\ Passed(r, "begin").block = r.block
    BY DEF Passed, Blocks
  <1>8. (r.dirty => Passed(r, "begin").dirty) /\ (r.kept => Passed(r, "begin").kept)
    BY DEF Passed
  <1>9. Executed(r, g, "begin")
    BY <1>3, <1>4, <1>6, <1>7, <1>8 DEF Executed
  <1>10. GoodRequest(g) /\ g.op = r.op
    BY <1>9, ExecutedIsGood
  <1> QED
    BY <1>3, <1>6, <1>10

Performed(r, x) ==
    [r EXCEPT !.dirty = r.dirty \/ x = "in",
              !.kept = r.kept \/ x \in {"out", "spawn"},
              !.rest = Rests(r.rest, x)]

\* A statement that is no more than executed.
LEMMA SimpleIsGood ==
    ASSUME NEW r, GoodRequest(r), AtWork(r), NEW p \in r.rest, p # <<>>,
           NEW x \in Simple, Head(p) = x,
           NEW g, g = Performed(r, x)
    PROVE  GoodRequest(g) /\ g.op = r.op /\ g.open = r.open
  <1>1. r \in Request
    BY AtWorkFacts
  <1>2. PICK dirty \in BOOLEAN : dirty = (r.dirty \/ x = "in")
    OBVIOUS
  <1>3. PICK kept \in BOOLEAN : kept = (r.kept \/ x \in {"out", "spawn"})
    OBVIOUS
  <1>4. PICK rest \in SUBSET Seq(Kinds) : rest = Rests(r.rest, x)
    BY <1>1, RestsType
  <1>5. g = [r EXCEPT !.dirty = dirty, !.kept = kept, !.rest = rest]
    BY <1>2, <1>3, <1>4, Zenon DEF Performed
  <1>6. /\ g \in Request
        /\ g.op = r.op /\ g.rest = rest /\ g.open = r.open /\ g.block = r.block
        /\ g.finished = r.finished /\ g.dirty = dirty /\ g.kept = kept
        /\ g.missed = r.missed /\ g.partial = r.partial /\ g.answer = r.answer
    BY <1>1, <1>5 DEF Request
  <1>7. /\ x \notin {"begin", "commit", "drop", "end", "throw"}
        /\ x \notin Blocks
    BY DEF Simple, Deadly, Blocks
  <1>8. Passed(r, x).open = r.open /\ Passed(r, x).block = r.block
    BY <1>7 DEF Passed
  <1>9. (dirty => Passed(r, x).dirty) /\ (kept => Passed(r, x).kept)
    BY <1>2, <1>3, <1>7 DEF Passed
  <1>10. Executed(r, g, x)
    BY <1>4, <1>6, <1>7, <1>8, <1>9 DEF Executed
  <1>11. GoodRequest(g) /\ g.op = r.op
    BY <1>7, <1>10, ExecutedIsGood
  <1> QED
    BY <1>6, <1>11

\* A transaction is committed.
LEMMA CommitIsGood ==
    ASSUME NEW r, GoodRequest(r), AtWork(r), NEW p \in r.rest, p # <<>>, Head(p) = "commit",
           NEW g, g = [r EXCEPT !.open = r.open - 1, !.finished = TRUE,
                                !.kept = r.kept \/ r.dirty, !.dirty = FALSE,
                                !.rest = Rests(r.rest, "commit")]
    PROVE  GoodRequest(g) /\ g.op = r.op /\ g.open <= r.open
  <1>1. /\ r \in Request /\ r.op \in DOMAIN Service /\ r.open \in 0 .. 2
        /\ p \in Seq(Kinds) /\ OnPath(r, p)
    BY AtWorkFacts
  <1>2. r.open - 1 \in 0 .. 2
    BY <1>1, NextAllowed
  <1>3. PICK open \in 0 .. 2 : open = r.open - 1
    BY <1>2
  <1>4. PICK rest \in SUBSET Seq(Kinds) : rest = Rests(r.rest, "commit")
    BY <1>1, RestsType
  <1>5. PICK kept \in BOOLEAN : kept = (r.kept \/ r.dirty)
    OBVIOUS
  <1>6. PICK yes \in BOOLEAN : yes = TRUE
    OBVIOUS
  <1>7. PICK no \in BOOLEAN : no = FALSE
    OBVIOUS
  <1>8. g = [r EXCEPT !.open = open, !.finished = yes, !.kept = kept, !.dirty = no,
                      !.rest = rest]
    BY <1>3, <1>4, <1>5, <1>6, <1>7, Zenon
  <1>9. /\ g \in Request
        /\ g.op = r.op /\ g.rest = rest /\ g.open = open /\ g.block = r.block
        /\ g.finished = yes /\ g.dirty = no /\ g.kept = kept
        /\ g.missed = r.missed /\ g.partial = r.partial /\ g.answer = r.answer
    BY <1>1, <1>8 DEF Request
  <1>10. Passed(r, "commit").open = r.open - 1 /\ Passed(r, "commit").block = r.block
    BY DEF Passed, Blocks
  <1>11. kept => Passed(r, "commit").kept
    BY <1>5 DEF Passed
  <1>12. Executed(r, g, "commit")
    BY <1>3, <1>4, <1>6, <1>7, <1>9, <1>10, <1>11 DEF Executed
  <1>13. GoodRequest(g) /\ g.op = r.op
    BY <1>12, ExecutedIsGood
  <1> QED
    BY <1>1, <1>3, <1>9, <1>13

BlockAfter(x) == IF x = "end" THEN "none" ELSE x
Moved(r, x) == [r EXCEPT !.block = BlockAfter(x), !.rest = Rests(r.rest, x)]

\* A block is entered or left.
LEMMA BlockIsGood ==
    ASSUME NEW r, GoodRequest(r), AtWork(r), NEW p \in r.rest, p # <<>>,
           NEW x \in Blocks \cup {"end"}, Head(p) = x,
           NEW g, g = Moved(r, x)
    PROVE  GoodRequest(g) /\ g.op = r.op /\ g.open = r.open
  <1>1. r \in Request
    BY AtWorkFacts
  <1>2. PICK block \in Blocks \cup {"none"} : block = BlockAfter(x)
    BY DEF BlockAfter
  <1>3. PICK rest \in SUBSET Seq(Kinds) : rest = Rests(r.rest, x)
    BY <1>1, RestsType
  <1>4. g = [r EXCEPT !.block = block, !.rest = rest]
    BY <1>2, <1>3 DEF Moved
  <1>5. /\ g \in Request
        /\ g.op = r.op /\ g.rest = rest /\ g.open = r.open /\ g.block = block
        /\ g.finished = r.finished /\ g.dirty = r.dirty /\ g.kept = r.kept
        /\ g.missed = r.missed /\ g.partial = r.partial /\ g.answer = r.answer
    BY <1>1, <1>4 DEF Request
  <1>6. x \notin {"begin", "commit", "drop", "in", "throw"} /\ (x = "end" => x \notin Blocks)
    BY DEF Blocks
  <1>7. Passed(r, x).open = r.open /\ Passed(r, x).block = BlockAfter(x)
    BY <1>6 DEF Passed, BlockAfter
  <1>8. (r.dirty => Passed(r, x).dirty) /\ (r.kept => Passed(r, x).kept)
    BY <1>6 DEF Passed
  <1>9. Executed(r, g, x)
    BY <1>2, <1>3, <1>5, <1>6, <1>7, <1>8 DEF Executed
  <1>10. GoodRequest(g) /\ g.op = r.op
    BY <1>6, <1>9, ExecutedIsGood
  <1> QED
    BY <1>5, <1>10

\* A transaction that is open is rolled back, without an error.
LEMMA DropIsGood ==
    ASSUME NEW r, GoodRequest(r), AtWork(r), NEW p \in r.rest, p # <<>>, Head(p) = "drop",
           NEW g, g = [RolledBack(r) EXCEPT !.rest = Rests(r.rest, "drop")]
    PROVE  GoodRequest(g) /\ g.op = r.op /\ g.open = 0
  <1>1. /\ r \in Request /\ r.op \in DOMAIN Service
        /\ p \in Seq(Kinds) /\ OnPath(r, p)
    BY AtWorkFacts
  <1>2. ~r.dirty
    BY <1>1, NextAllowed
  <1>3. PICK h : h = RolledBack(r)
    OBVIOUS
  <1>4. h \in Request
    BY <1>1, <1>3, RolledBackFields, Zenon
  <1>5. /\ h.op = r.op /\ h.open = 0 /\ h.block = r.block /\ h.finished
        /\ ~h.dirty /\ h.kept = r.kept /\ (h.missed => r.missed \/ r.dirty)
        /\ h.partial = r.partial /\ h.answer = r.answer
    BY <1>1, <1>3, RolledBackFields
  <1>6. PICK rest \in SUBSET Seq(Kinds) : rest = Rests(r.rest, "drop")
    BY <1>1, RestsType
  <1>7. g = [h EXCEPT !.rest = rest]
    BY <1>3, <1>6
  <1>8. /\ g \in Request
        /\ g.op = h.op /\ g.rest = rest /\ g.open = h.open /\ g.block = h.block
        /\ g.finished = h.finished /\ g.dirty = h.dirty /\ g.kept = h.kept
        /\ g.missed = h.missed /\ g.partial = h.partial /\ g.answer = h.answer
    BY <1>4, <1>7 DEF Request
  <1>9. Passed(r, "drop").open = 0 /\ Passed(r, "drop").block = r.block
    BY DEF Passed, Blocks
  <1>10. r.kept => Passed(r, "drop").kept
    BY DEF Passed
  <1>11. Executed(r, g, "drop")
    BY <1>2, <1>5, <1>6, <1>8, <1>9, <1>10 DEF Executed
  <1>12. GoodRequest(g) /\ g.op = r.op
    BY <1>11, ExecutedIsGood
  <1> QED
    BY <1>5, <1>8, <1>12

-----------------------------------------------------------------------------
(* The connections *)

\* the connections held when the request in slot s has o[s] transactions open
HeldBy(o) == {h \in Slots \X (1 .. 2) : h[2] <= o[h[1]]}
Others(o, s) == {h \in HeldBy(o) : h[1] # s}

\* The connections of a request are as many as the transactions it has open.
LEMMA HeldSplits ==
    ASSUME NEW o \in [Slots -> 0 .. 2], NEW s \in Slots, IsFiniteSet(Others(o, s))
    PROVE  /\ IsFiniteSet(HeldBy(o))
           /\ Cardinality(HeldBy(o)) = Cardinality(Others(o, s)) + o[s]
           /\ Cardinality(Others(o, s)) \in Nat
  <1> DEFINE R == Others(o, s)
  <1>1. <<s, 1>> \notin R /\ <<s, 2>> \notin R
    BY DEF Others
  <1>2. PICK a : a = <<s, 1>>
    OBVIOUS
  <1>3. PICK b : b = <<s, 2>>
    OBVIOUS
  <1>4. a # b /\ a \notin R /\ b \notin R
    BY <1>1, <1>2, <1>3
  <1>5. Cardinality(R) \in Nat
    BY FS_CardinalityType
  <1>6. o[s] \in {0, 1, 2}
    OBVIOUS
  <1>7. \A h \in HeldBy(o) : h \in R \/ (h[1] = s /\ h = <<s, h[2]>> /\ h[2] \in {1, 2} /\ h[2] <= o[s])
    BY DEF HeldBy, Others
  <1>8. R \subseteq HeldBy(o)
    BY DEF Others
  <1>9. (a \in HeldBy(o) <=> 1 <= o[s]) /\ (b \in HeldBy(o) <=> 2 <= o[s])
    BY <1>2, <1>3 DEF HeldBy
  <1> HIDE DEF R
  <1>10. CASE o[s] = 0
    <2>1. HeldBy(o) = R
      BY <1>7, <1>8, <1>10
    <2> QED
      BY <1>5, <1>10, <2>1 DEF R
  <1>11. CASE o[s] = 1
    <2>1. HeldBy(o) = R \cup {a}
      BY <1>2, <1>7, <1>8, <1>9, <1>11
    <2>2. IsFiniteSet(R \cup {a}) /\ Cardinality(R \cup {a}) = Cardinality(R) + 1
      BY <1>4, FS_AddElement DEF R
    <2> QED
      BY <1>5, <1>11, <2>1, <2>2 DEF R
  <1>12. CASE o[s] = 2
    <2>1. HeldBy(o) = (R \cup {a}) \cup {b}
      BY <1>2, <1>3, <1>7, <1>8, <1>9, <1>12
    <2>2. IsFiniteSet(R \cup {a}) /\ Cardinality(R \cup {a}) = Cardinality(R) + 1
      BY <1>4, FS_AddElement DEF R
    <2>3. PICK S : S = R \cup {a}
      OBVIOUS
    <2>4. IsFiniteSet(S) /\ b \notin S
      BY <1>4, <2>2, <2>3
    <2>5. IsFiniteSet(S \cup {b}) /\ Cardinality(S \cup {b}) = Cardinality(S) + 1
      BY <2>4, FS_AddElement
    <2>6. HeldBy(o) = S \cup {b}
      BY <2>1, <2>3
    <2>7. Cardinality(S) = Cardinality(R) + 1
      BY <2>2, <2>3
    <2>8. Cardinality(HeldBy(o)) = Cardinality(R) + 2
      BY <1>5, <2>5, <2>6, <2>7
    <2> QED
      BY <1>5, <1>12, <2>5, <2>6, <2>8 DEF R
  <1> QED
    BY <1>6, <1>10, <1>11, <1>12

Changed(o, s, n) == [o EXCEPT ![s] = n]

\* When one request opens or ends transactions, the connections that are held
\* change by as many.
LEMMA HeldChanges ==
    ASSUME NEW o \in [Slots -> 0 .. 2], NEW s \in Slots, NEW n \in 0 .. 2,
           NEW w, w = Changed(o, s, n), IsFiniteSet(HeldBy(o))
    PROVE  /\ IsFiniteSet(HeldBy(w))
           /\ Cardinality(HeldBy(o)) \in Nat /\ Cardinality(HeldBy(w)) \in Nat
           /\ Cardinality(HeldBy(w)) + o[s] = Cardinality(HeldBy(o)) + n
  <1>1. w \in [Slots -> 0 .. 2] /\ w[s] = n /\ \A t \in Slots : t # s => w[t] = o[t]
    BY DEF Changed
  <1>2. Others(w, s) = Others(o, s)
    BY <1>1 DEF Others, HeldBy
  <1>3. IsFiniteSet(Others(o, s))
    <2>1. Others(o, s) \in SUBSET HeldBy(o)
      BY DEF Others
    <2> QED
      BY <2>1, FS_Subset
  <1>4. /\ Cardinality(HeldBy(o)) = Cardinality(Others(o, s)) + o[s]
        /\ Cardinality(Others(o, s)) \in Nat
    BY <1>3, HeldSplits
  <1>5. /\ IsFiniteSet(HeldBy(w))
        /\ Cardinality(HeldBy(w)) = Cardinality(Others(o, s)) + n
    <2>1. IsFiniteSet(Others(w, s))
      BY <1>2, <1>3
    <2>2. /\ IsFiniteSet(HeldBy(w))
          /\ Cardinality(HeldBy(w)) = Cardinality(Others(w, s)) + w[s]
      BY <1>1, <2>1, HeldSplits
    <2> QED
      BY <1>1, <1>2, <2>2
  <1>6. o[s] \in Nat /\ n \in Nat
    OBVIOUS
  <1> QED
    BY <1>4, <1>5, <1>6

-----------------------------------------------------------------------------
(* The steps of a slot *)

\* The request in slot s becomes g, and the connections are accounted for:
\* no more are held, or one more that was free, or one is lost.
Moves(s, g) ==
    /\ req' = [req EXCEPT ![s] = g]
    /\ GoodRequest(g)
    /\ g.op \in Methods[s] \cup {"none"}
    /\ \/ leaked' = leaked /\ g.open <= req[s].open
       \/ leaked' = leaked /\ g.open = req[s].open + 1 /\ Free > 0
       \/ /\ leaked' = leaked + 1 /\ g.open = 0 /\ req[s].open = 1
          /\ req[s].op \in Forgetful /\ g.answer # "none"

\* the process stops for the sake of who
Stops(who) ==
    ProcessStops(who) /\ \A s \in who \cap Slots : Busy(s) /\ req[s].op \in Fatal

\* What the invariant says of the request in a slot.
LEMMA SlotFacts ==
    ASSUME IInv, NEW s \in Slots, NEW r, r = req[s]
    PROVE  /\ GoodRequest(r) /\ r \in Request
           /\ r.op \in Methods[s] \cup {"none"}
           /\ Busy(s) <=> AtWork(r)
  BY DEF IInv, Busy, AtWork

\* A slot where a statement may be executed has a request at work.
LEMMA NextIsBusy ==
    ASSUME IInv, NEW s \in Slots, NEW r, r = req[s], NEW x \in NextStatements(s)
    PROVE  /\ AtWork(r) /\ GoodRequest(r) /\ r \in Request
           /\ r.op \in Methods[s]
           /\ \E p \in r.rest : p # <<>> /\ x = Head(p)
           /\ \A y : After(s, y) = Rests(r.rest, y)
  <1>1. \E p \in r.rest : p # <<>> /\ x = Head(p)
    BY DEF NextStatements
  <1>2. AtWork(r)
    BY <1>1, SlotFacts DEF GoodRequest, Idle
  <1>3. \A y : After(s, y) = Rests(r.rest, y)
    BY DEF After, Rests
  <1>4. r.op \in Methods[s]
    BY <1>2, SlotFacts DEF AtWork
  <1> QED
    BY <1>1, <1>2, <1>3, <1>4, SlotFacts

\* A request that arrives stands at the origin of a path of its method.
LEMMA ArriveMoves ==
    ASSUME IInv, NEW s \in Slots, NEW m \in Methods[s], Arrive(s, m)
    PROVE  \E g : Moves(s, g)
  <1>1. PICK g : g = Arriving(m)
    OBVIOUS
  <1>2. m \in DOMAIN Service
    BY MethodsAssumption
  <1>3. m # "none"
    BY <1>2 DEF Service
  <1>4. GoodRequest(g) /\ g.op = m /\ g.open = 0
    BY <1>1, <1>2, <1>3, ArrivalIsGood
  <1>5. req' = [req EXCEPT ![s] = g] /\ leaked' = leaked
    BY <1>1 DEF Arrive, Arriving
  <1>6. PICK r : r = req[s]
    OBVIOUS
  <1>7. 0 <= r.open
    BY <1>6, SlotFacts DEF Request
  <1> QED
    BY <1>4, <1>5, <1>6, <1>7 DEF Moves

\* A transaction that begins takes a free connection, and the path allows it.
LEMMA BeginMoves ==
    ASSUME IInv, NEW s \in Slots, BeginTransaction(s)
    PROVE  \E g : Moves(s, g)
  <1>1. PICK r : r = req[s]
    OBVIOUS
  <1>2. "begin" \in NextStatements(s)
    BY DEF BeginTransaction
  <1>3. /\ AtWork(r) /\ GoodRequest(r) /\ r \in Request /\ r.op \in Methods[s]
        /\ After(s, "begin") = Rests(r.rest, "begin")
    BY <1>1, <1>2, NextIsBusy
  <1>4. PICK p \in r.rest : p # <<>> /\ Head(p) = "begin"
    BY <1>1, <1>2, NextIsBusy
  <1>5. PICK g : g = [r EXCEPT !.open = r.open + 1, !.rest = Rests(r.rest, "begin")]
    OBVIOUS
  <1>6. GoodRequest(g) /\ g.op = r.op /\ g.open = r.open + 1
    BY <1>3, <1>4, <1>5, BeginIsGood
  <1>7. req' = [req EXCEPT ![s] = g] /\ leaked' = leaked /\ Free > 0
    BY <1>1, <1>3, <1>5 DEF BeginTransaction, Done
  <1> QED
    BY <1>1, <1>3, <1>6, <1>7 DEF Moves

\* A statement that succeeds takes the request one further on its path.
LEMMA ExecuteMoves ==
    ASSUME IInv, NEW s \in Slots, Execute(s)
    PROVE  \E g : Moves(s, g)
  <1>1. PICK r : r = req[s]
    OBVIOUS
  <1>2. PICK x \in NextStatements(s) \cap Simple :
           Done(s, x, [req[s] EXCEPT !.dirty = @ \/ x = "in",
                                     !.kept = @ \/ x \in {"out", "spawn"}])
    BY DEF Execute
  <1>3. /\ AtWork(r) /\ GoodRequest(r) /\ r \in Request /\ r.op \in Methods[s]
        /\ After(s, x) = Rests(r.rest, x)
    BY <1>1, NextIsBusy
  <1>4. PICK p \in r.rest : p # <<>> /\ Head(p) = x
    BY <1>1, NextIsBusy
  <1>5. PICK g : g = Performed(r, x)
    OBVIOUS
  <1>6. GoodRequest(g) /\ g.op = r.op /\ g.open = r.open
    <2>1. x \in Simple
      OBVIOUS
    <2> QED
      BY <1>3, <1>4, <1>5, <2>1, SimpleIsGood
  <1>7. req' = [req EXCEPT ![s] = g]
    BY <1>1, <1>2, <1>3, <1>5, Zenon DEF Done, Performed
  <1>8. leaked' = leaked
    BY DEF Execute
  <1>9. g.open <= r.open
    BY <1>3, <1>6 DEF Request
  <1> QED
    BY <1>1, <1>3, <1>6, <1>7, <1>8, <1>9 DEF Moves

\* A commit makes durable what was dirty and gives the connection back.
LEMMA CommitMoves ==
    ASSUME IInv, NEW s \in Slots, CommitTransaction(s)
    PROVE  \E g : Moves(s, g)
  <1>1. PICK r : r = req[s]
    OBVIOUS
  <1>2. "commit" \in NextStatements(s)
    BY DEF CommitTransaction
  <1>3. /\ AtWork(r) /\ GoodRequest(r) /\ r \in Request /\ r.op \in Methods[s]
        /\ After(s, "commit") = Rests(r.rest, "commit")
    BY <1>1, <1>2, NextIsBusy
  <1>4. PICK p \in r.rest : p # <<>> /\ Head(p) = "commit"
    BY <1>1, <1>2, NextIsBusy
  <1>5. PICK g : g = [r EXCEPT !.open = r.open - 1, !.finished = TRUE,
                               !.kept = r.kept \/ r.dirty, !.dirty = FALSE,
                               !.rest = Rests(r.rest, "commit")]
    OBVIOUS
  <1>6. GoodRequest(g) /\ g.op = r.op /\ g.open <= r.open
    BY <1>3, <1>4, <1>5, CommitIsGood
  <1>7. Done(s, "commit", [req[s] EXCEPT !.open = @ - 1, !.finished = TRUE,
                                         !.kept = @ \/ req[s].dirty, !.dirty = FALSE])
    BY DEF CommitTransaction
  <1>8. req' = [req EXCEPT ![s] = g]
    BY <1>1, <1>3, <1>5, <1>7, Zenon DEF Done
  <1>9. leaked' = leaked
    BY DEF CommitTransaction
  <1> QED
    BY <1>1, <1>3, <1>6, <1>8, <1>9 DEF Moves

\* Entering or leaving a block changes nothing but where errors go.
LEMMA BlockMoves ==
    ASSUME IInv, NEW s \in Slots, EnterBlock(s) \/ LeaveBlock(s)
    PROVE  \E g : Moves(s, g)
  <1>1. PICK r : r = req[s]
    OBVIOUS
  <1>2. PICK x \in NextStatements(s) \cap (Blocks \cup {"end"}) :
           Done(s, x, [req[s] EXCEPT !.block = IF x = "end" THEN "none" ELSE x])
    <2>1. CASE EnterBlock(s)
      <3>1. PICK x \in NextStatements(s) \cap Blocks : Done(s, x, [req[s] EXCEPT !.block = x])
        BY <2>1 DEF EnterBlock
      <3>2. x # "end"
        BY DEF Blocks
      <3> QED
        BY <3>1, <3>2
    <2>2. CASE LeaveBlock(s)
      <3>1. "end" \in NextStatements(s) /\ Done(s, "end", [req[s] EXCEPT !.block = "none"])
        BY <2>2 DEF LeaveBlock
      <3> QED
        BY <3>1
    <2> QED
      BY <2>1, <2>2
  <1>3. /\ AtWork(r) /\ GoodRequest(r) /\ r \in Request /\ r.op \in Methods[s]
        /\ After(s, x) = Rests(r.rest, x)
    BY <1>1, NextIsBusy
  <1>4. PICK p \in r.rest : p # <<>> /\ Head(p) = x
    BY <1>1, NextIsBusy
  <1>5. PICK g : g = Moved(r, x)
    OBVIOUS
  <1>6. GoodRequest(g) /\ g.op = r.op /\ g.open = r.open
    <2>1. x \in Blocks \cup {"end"}
      OBVIOUS
    <2> QED
      BY <1>3, <1>4, <1>5, <2>1, BlockIsGood
  <1>7. req' = [req EXCEPT ![s] = g]
    BY <1>1, <1>2, <1>3, <1>5 DEF Done, Moved, BlockAfter
  <1>8. leaked' = leaked
    BY DEF EnterBlock, LeaveBlock
  <1>9. g.open <= r.open
    BY <1>3, <1>6 DEF Request
  <1> QED
    BY <1>1, <1>3, <1>6, <1>7, <1>8, <1>9 DEF Moves

\* A rollback that is not awaited ends the transaction, or the process.
LEMMA DropMoves ==
    ASSUME IInv, NEW s \in Slots, DropTransaction(s)
    PROVE  (\E g : Moves(s, g)) \/ Stops({s})
  <1>1. PICK r : r = req[s]
    OBVIOUS
  <1>2. "drop" \in NextStatements(s)
    BY DEF DropTransaction
  <1>3. /\ AtWork(r) /\ GoodRequest(r) /\ r \in Request /\ r.op \in Methods[s]
        /\ After(s, "drop") = Rests(r.rest, "drop")
    BY <1>1, <1>2, NextIsBusy
  <1>4. PICK p \in r.rest : p # <<>> /\ Head(p) = "drop"
    BY <1>1, <1>2, NextIsBusy
  <1>5. ASSUME Done(s, "drop", RolledBack(req[s])), leaked' = leaked
        PROVE  \E g : Moves(s, g)
    <2>1. PICK g : g = [RolledBack(r) EXCEPT !.rest = Rests(r.rest, "drop")]
      OBVIOUS
    <2>2. GoodRequest(g) /\ g.op = r.op /\ g.open = 0
      BY <1>3, <1>4, <2>1, DropIsGood
    <2>3. req' = [req EXCEPT ![s] = g]
      BY <1>1, <1>3, <1>5, <2>1 DEF Done
    <2>4. g.open <= r.open
      BY <1>3, <2>2 DEF Request
    <2> QED
      BY <1>1, <1>3, <1>5, <2>2, <2>3, <2>4 DEF Moves
  <1>6. ASSUME ProcessStops({s})
        PROVE  Stops({s})
    <2>1. r.op \in DOMAIN Service /\ p \in Seq(Kinds) /\ OnPath(r, p)
      BY <1>3, AtWorkFacts
    <2>2. r.op \in Fatal
      BY <1>3, <1>4, <2>1, NextAllowed
    <2>3. Busy(s)
      BY <1>1, <1>3, SlotFacts
    <2> QED
      BY <1>1, <1>6, <2>2, <2>3 DEF Stops
  <1> QED
    BY <1>5, <1>6 DEF DropTransaction

\* An error is caught, answered, retried, or ends the process.
LEMMA RaiseMoves ==
    ASSUME IInv, NEW s \in Slots, NEW r, r = req[s],
           NEW x \in NextStatements(s), x \in Faulty \cup {"throw"},
           NEW f, Erring(r, f, x), Raise(s, f, x)
    PROVE  (\E g : Moves(s, g)) \/ Stops({s})
  <1>1. /\ AtWork(r) /\ GoodRequest(r) /\ r \in Request /\ r.op \in Methods[s]
        /\ After(s, x) = Rests(r.rest, x)
    BY NextIsBusy
  <1>2. PICK p \in r.rest : p # <<>> /\ Head(p) = x
    BY NextIsBusy
  <1>3. f \in Request /\ f.op = r.op
    BY DEF Erring
  <1>4. r.open \in 0 .. 2 /\ f.open \in 0 .. 2 /\ f.open <= r.open
    BY <1>1, <1>2, ErrorFinds, AtWorkFacts
  <1>5. PICK h : h = RolledBack(f)
    OBVIOUS
  <1>6. h \in Request
    BY <1>3, <1>5, RolledBackFields, Zenon
  <1>7. /\ h.op = f.op /\ h.kept = f.kept /\ h.partial = f.partial
        /\ h.missed => f.missed \/ f.dirty
    BY <1>3, <1>5, RolledBackFields
  <1>8. ASSUME NEW g, GoodRequest(g), g.op = r.op, g.open <= r.open,
               req' = [req EXCEPT ![s] = g], leaked' = leaked
        PROVE  \E k : Moves(s, k)
    BY <1>1, <1>8 DEF Moves
  \* an answer: the transactions are rolled back
  <1>9. ASSUME NEW a \in Answers \ {"none"}, NEW k \in Request, k.op = f.op,
               GoodRequest(Answered(k, a)),
               req' = [req EXCEPT ![s] = Answered(k, a)], leaked' = leaked
        PROVE  \E g : Moves(s, g)
    <2>1. PICK g : g = Answered(k, a)
      OBVIOUS
    <2>2. a \in Answers
      OBVIOUS
    <2>3. g.op = k.op /\ g.open = 0
      BY <2>1, <2>2, AnsweredFields
    <2>4. 0 <= r.open
      BY <1>4
    <2> QED
      BY <1>3, <1>8, <1>9, <2>1, <2>3, <2>4
  <1>10. CASE InBlock(s, f, x)
    <2>1. f.block \in {"try", "item"}
      BY <1>10 DEF InBlock
    <2>2. PICK g : g = Caught(r, f, x)
      OBVIOUS
    <2>3. GoodRequest(g) /\ g.op = r.op /\ g.open <= r.open
      BY <1>1, <1>2, <2>1, <2>2, ErrorIsCaught
    <2>4. Skips(s, x) = Skipped(r.rest, x)
      BY <1>1 DEF Skips, Skipped
    <2>5. req' = [req EXCEPT ![s] = g]
      BY <1>1, <1>10, <2>2, <2>4, Zenon DEF InBlock, Caught
    <2>6. leaked' = leaked
      BY <1>10 DEF InBlock
    <2> QED
      BY <1>8, <2>3, <2>5, <2>6
  <1>11. CASE InUndo(s, f)
    <2>1. /\ f.block = "undo" /\ ~f.finished
          /\ req' = [req EXCEPT ![s] = Answered(h, "nothing")] /\ leaked' = leaked
      BY <1>5, <1>11 DEF InUndo
    <2>2. "nothing" \in Answers \ {"none"}
      BY DEF Answers
    <2>3. GoodRequest(Answered(h, "nothing"))
      BY <1>1, <1>2, <1>6, <1>7, <2>1, <2>2, ErrorIsAnswered
    <2> QED
      BY <1>6, <1>7, <1>9, <2>1, <2>2, <2>3
  <1>12. CASE Uncaught(s, f)
    <2>1. f.block \notin {"try", "item"}
      BY <1>12 DEF Uncaught
    <2>2. "error" \in Answers \ {"none"} /\ "ok" \in Answers \ {"none"}
      BY DEF Answers
    \* a roll-back and an error
    <2>3. ASSUME ~(f.op \in Unawaited /\ f.finished), leaked' = leaked,
                 req' = [req EXCEPT ![s] = Answered(RolledBack(f), "error")]
          PROVE  \E g : Moves(s, g)
      <3>1. GoodRequest(Answered(h, "error"))
        BY <1>1, <1>2, <1>6, <1>7, <2>1, <2>2, <2>3, ErrorIsAnswered
      <3> QED
        BY <1>5, <1>6, <1>7, <1>9, <2>2, <2>3, <3>1
    \* no roll-back: a connection is lost
    <2>4. ASSUME f.op \in Bare, leaked' = leaked + f.open,
                 req' = [req EXCEPT ![s] =
                            Answered([f EXCEPT !.missed = @ \/ f.dirty], "error")]
          PROVE  \E g : Moves(s, g)
      <3>1. f.op \in Forgetful /\ f.op \notin Unawaited
        BY <2>4 DEF Bare, Forgetful, Unawaited
      <3>2. f.open \in 0 .. 1 /\ r.open \in 0 .. 1
        BY <1>1, <1>2, <3>1, ErrorFinds
      <3>3. PICK missed \in BOOLEAN : missed = (f.missed \/ f.dirty)
        OBVIOUS
      <3>4. PICK k : k = [f EXCEPT !.missed = missed]
        OBVIOUS
      <3>5. /\ k \in Request /\ k.op = f.op /\ k.kept = f.kept /\ k.partial = f.partial
            /\ k.missed = missed
        BY <1>3, <3>4 DEF Request
      <3>6. k.missed => f.missed \/ f.dirty
        BY <3>3, <3>5
      <3>7. GoodRequest(Answered(k, "error"))
        BY <1>1, <1>2, <2>1, <2>2, <3>1, <3>5, <3>6, ErrorIsAnswered
      <3>8. req' = [req EXCEPT ![s] = Answered(k, "error")]
        BY <2>4, <3>3, <3>4, Zenon
      <3>9. PICK g : g = Answered(k, "error")
        OBVIOUS
      <3>10. "error" \in Answers
        BY <2>2
      <3>11. g.op = k.op /\ g.open = 0 /\ g.answer = "error"
        BY <3>5, <3>9, <3>10, AnsweredFields
      <3>12. CASE f.open = 0
        <4>1. leaked' = leaked
          BY <2>4, <3>12 DEF IInv, PoolInv
        <4> QED
          BY <1>9, <2>2, <3>5, <3>7, <3>8, <4>1
      <3>13. CASE f.open = 1
        <4>1. leaked' = leaked + 1 /\ r.open = 1
          BY <1>4, <2>4, <3>2, <3>13
        <4>2. GoodRequest(g) /\ g.op \in Methods[s] /\ r.op \in Forgetful
          BY <1>1, <1>3, <3>1, <3>5, <3>7, <3>9, <3>11
        <4> QED
          BY <3>8, <3>9, <3>11, <4>1, <4>2 DEF Moves
      <3> QED
        BY <3>2, <3>12, <3>13
    <2>5. ASSUME f.op \in Unawaited, ProcessStops({s})
          PROVE  Stops({s})
      <3>1. r.op \in Fatal
        BY <1>3, <2>5 DEF Fatal
      <3>2. Busy(s)
        BY <1>1, SlotFacts
      <3> QED
        BY <2>5, <3>1, <3>2 DEF Stops
    <2>6. ASSUME f.op \in Silent, leaked' = leaked,
                 req' = [req EXCEPT ![s] = Answered(RolledBack(f), "ok")]
          PROVE  \E g : Moves(s, g)
      <3>1. f.op \in Careless
        BY <2>6 DEF Silent, Careless
      <3>2. GoodRequest(Answered(h, "ok"))
        BY <1>1, <1>2, <1>6, <1>7, <2>1, <2>2, <3>1, ErrorIsAnswered
      <3> QED
        BY <1>5, <1>6, <1>7, <1>9, <2>2, <2>6, <3>2
    <2>7. ASSUME f.op \in Again, f.open > 0, leaked' = leaked,
                 req' = [req EXCEPT ![s] = [RolledBack(f) EXCEPT !.rest = Read ** Maybe(Throw)]]
          PROVE  \E g : Moves(s, g)
      <3>1. PICK g : g = [RolledBack(f) EXCEPT !.rest = Retry]
        OBVIOUS
      <3>2. GoodRequest(g) /\ g.op = r.op /\ g.open = 0
        BY <1>1, <1>2, <2>7, <3>1, ErrorIsRetried, ZenonT(30)
      <3>3. req' = [req EXCEPT ![s] = g]
        BY <2>7, <3>1 DEF Retry
      <3>4. g.open <= r.open
        BY <1>4, <3>2
      <3> QED
        BY <1>8, <2>7, <3>2, <3>3, <3>4
    <2>8. ASSUME f.op \in Again, leaked' = leaked,
                 req' = [req EXCEPT ![s] = Answered(f, "error")]
          PROVE  \E g : Moves(s, g)
      <3>1. f.op \notin Unawaited
        BY <2>8 DEF Again, Unawaited
      <3>2. GoodRequest(Answered(f, "error"))
        BY <1>1, <1>2, <1>3, <2>1, <2>2, <3>1, ErrorIsAnswered
      <3> QED
        BY <1>3, <1>9, <2>2, <2>8, <3>2
    <2> QED
      BY <1>12, <2>3, <2>4, <2>5, <2>6, <2>7, <2>8 DEF Uncaught
  <1> QED
    BY <1>10, <1>11, <1>12 DEF Raise

\* the request r as the failure of x leaves it
Noted(r, x) == [r EXCEPT !.missed = @ \/ x \in Writes]
Failed(r, x) ==
    IF x = "commit" THEN [RolledBack(Noted(r, x)) EXCEPT !.open = r.open - 1] ELSE Noted(r, x)

\* A statement that fails leaves the request as an error may find it.
LEMMA FailedErrs ==
    ASSUME NEW r \in Request, NEW x, x = "commit" => r.open - 1 \in 0 .. 2,
           NEW f, f = Failed(r, x)
    PROVE  Erring(r, f, x)
  <1>1. PICK missed \in BOOLEAN : missed = (r.missed \/ x \in Writes)
    OBVIOUS
  <1>2. PICK n : n = Noted(r, x)
    OBVIOUS
  <1>3. n = [r EXCEPT !.missed = missed]
    BY <1>1, <1>2, Zenon DEF Noted
  <1>4. /\ n \in Request
        /\ n.op = r.op /\ n.rest = r.rest /\ n.block = r.block /\ n.kept = r.kept
        /\ n.partial = r.partial /\ n.answer = r.answer /\ n.open = r.open
        /\ n.dirty = r.dirty /\ n.missed = missed /\ n.finished = r.finished
    BY <1>3 DEF Request
  <1>5. CASE x # "commit"
    <2>1. f = n
      BY <1>2, <1>5 DEF Failed
    <2>2. f.missed => r.missed \/ x \in Writes
      BY <1>1, <1>4, <2>1
    <2> QED
      BY <1>4, <1>5, <2>1, <2>2 DEF Erring
  <1>6. CASE x = "commit"
    <2>1. PICK h : h = RolledBack(n)
      OBVIOUS
    <2>2. h \in Request
      BY <1>4, <2>1, RolledBackFields, Zenon
    <2>3. /\ h.op = n.op /\ h.rest = n.rest /\ h.block = n.block /\ h.finished /\ ~h.dirty
          /\ h.kept = n.kept /\ (h.missed => n.missed \/ n.dirty)
          /\ h.partial = n.partial /\ h.answer = n.answer
      BY <1>4, <2>1, RolledBackFields
    <2>4. PICK open \in 0 .. 2 : open = r.open - 1
      BY <1>6
    <2>5. f = [h EXCEPT !.open = open]
      BY <1>2, <1>6, <2>1, <2>4 DEF Failed
    <2>6. /\ f \in Request
          /\ f.op = h.op /\ f.rest = h.rest /\ f.block = h.block /\ f.kept = h.kept
          /\ f.partial = h.partial /\ f.answer = h.answer /\ f.open = open
          /\ f.dirty = h.dirty /\ f.missed = h.missed /\ f.finished = h.finished
      BY <2>2, <2>5 DEF Request
    <2>7. f.missed => r.missed \/ x \in Writes \/ r.dirty
      BY <1>1, <1>4, <2>3, <2>6
    <2> QED
      BY <1>4, <1>6, <2>3, <2>4, <2>6, <2>7 DEF Erring
  <1> QED
    BY <1>5, <1>6

\* A refusal goes the way of every error.
LEMMA RejectMoves ==
    ASSUME IInv, NEW s \in Slots, Reject(s)
    PROVE  (\E g : Moves(s, g)) \/ Stops({s})
  <1>1. PICK r : r = req[s]
    OBVIOUS
  <1>2. "throw" \in NextStatements(s) /\ Raise(s, r, "throw")
    BY <1>1 DEF Reject
  <1>3. r \in Request
    BY <1>1, SlotFacts
  <1>4. Erring(r, r, "throw")
    BY <1>3 DEF Erring
  <1>5. PICK x : x = "throw"
    OBVIOUS
  <1>6. x \in NextStatements(s) /\ x \in Faulty \cup {"throw"} /\ Erring(r, r, x) /\ Raise(s, r, x)
    BY <1>2, <1>4, <1>5
  <1> QED
    BY <1>1, <1>6, RaiseMoves

\* So does a statement that fails.
LEMMA FailMoves ==
    ASSUME IInv, NEW s \in Slots, Fail(s)
    PROVE  (\E g : Moves(s, g)) \/ Stops({s})
  <1>1. PICK r : r = req[s]
    OBVIOUS
  <1>2. PICK x \in NextStatements(s) \cap (Faulty \ Deadly) : Raise(s, Failed(r, x), x)
    BY <1>1 DEF Fail, Failed, Noted
  <1>3. /\ AtWork(r) /\ GoodRequest(r) /\ r \in Request
        /\ \E p \in r.rest : p # <<>> /\ x = Head(p)
    BY <1>1, NextIsBusy
  <1>4. PICK p \in r.rest : p # <<>> /\ x = Head(p)
    BY <1>3
  <1>5. r.op \in DOMAIN Service /\ p \in Seq(Kinds) /\ OnPath(r, p)
    BY <1>3, AtWorkFacts
  <1>6. x = "commit" => r.open - 1 \in 0 .. 2
    BY <1>3, <1>4, <1>5, NextAllowed
  <1>7. PICK f : f = Failed(r, x)
    OBVIOUS
  <1>8. Erring(r, f, x)
    BY <1>3, <1>6, <1>7, FailedErrs
  <1>9. x \in NextStatements(s) /\ x \in Faulty \cup {"throw"} /\ Raise(s, f, x)
    BY <1>2, <1>7
  <1> QED
    BY <1>1, <1>8, <1>9, RaiseMoves

\* A rejection nobody handles, or a failed upload, stops the process, and only
\* in the methods that are named for it.
LEMMA DeadlyStops ==
    ASSUME IInv, NEW s \in Slots, FailDeadly(s)
    PROVE  Stops({s})
  <1>1. PICK r : r = req[s]
    OBVIOUS
  <1>2. PICK x \in NextStatements(s) : x \in Deadly
    BY DEF FailDeadly
  <1>3. AtWork(r) /\ GoodRequest(r) /\ r \in Request
    BY <1>1, NextIsBusy
  <1>4. PICK p \in r.rest : p # <<>> /\ x = Head(p)
    BY <1>1, NextIsBusy
  <1>5. r.op \in DOMAIN Service /\ p \in Seq(Kinds) /\ OnPath(r, p)
    BY <1>3, AtWorkFacts
  <1>6. r.op \in Fatal
    BY <1>2, <1>3, <1>4, <1>5, NextAllowed
  <1>7. Busy(s)
    BY <1>1, <1>3, SlotFacts
  <1> QED
    BY <1>1, <1>6, <1>7 DEF FailDeadly, Stops

\* A method that returns has saved what it wrote, or tells that it has not, but
\* for the careless ones; and has nothing open, but for the forgetful ones.
LEMMA ReturnMoves ==
    ASSUME IInv, NEW s \in Slots, Return(s)
    PROVE  \E g : Moves(s, g)
  <1>1. PICK r : r = req[s]
    OBVIOUS
  <1>2. Busy(s) /\ <<>> \in r.rest /\ leaked' = leaked + r.open
    BY <1>1 DEF Return
  <1>3. /\ AtWork(r) /\ GoodRequest(r) /\ r \in Request
        /\ r.op \in Methods[s] \cup {"none"}
    BY <1>1, <1>2, SlotFacts
  <1>4. /\ r.op \in DOMAIN Service /\ OnPath(r, <<>>) /\ r.open \in 0 .. 2
        /\ r.op \notin Torn =>
              ~(r.kept /\ r.dirty) /\ (r.missed /\ ~r.partial => ~r.kept)
        /\ r.missed => r.op \in Careless \/ r.partial
    BY <1>2, <1>3, AtWorkFacts
  <1>5. /\ r.open = 0 \/ r.op \in Forgetful
        /\ ~r.dirty \/ r.op \in Careless
    BY <1>3, <1>4, AtTheEnd
  <1>6. r.op \in Forgetful => r.open \in 0 .. 1
    BY <1>3, <1>4, WhereItIs
  <1>7. PICK a : a = IF ~r.partial THEN "ok" ELSE IF r.op \in Empty THEN "error" ELSE "partial"
    OBVIOUS
  <1>8. PICK missed \in BOOLEAN : missed = (r.missed \/ r.dirty)
    OBVIOUS
  <1>9. PICK h : h = [r EXCEPT !.missed = missed]
    OBVIOUS
  <1>10. /\ h \in Request /\ h.op = r.op /\ h.kept = r.kept /\ h.partial = r.partial
         /\ h.missed = missed
    BY <1>3, <1>9 DEF Request
  <1>11. a \in Answers \ {"none"} /\ a \notin {"nothing", "fatal"}
    BY <1>7 DEF Answers
  <1>12. GoodRequest(Answered(h, a))
    <2>1. h.op \notin Torn /\ h.missed /\ ~h.partial => ~h.kept
      BY <1>4, <1>8, <1>10
    <2>2. a \in {"error", "nothing"} => h.op \in Torn \cup Late
      BY <1>7, <1>10, PathsAssumption
    <2>3. a = "ok" /\ h.missed => h.op \in Careless
      BY <1>4, <1>5, <1>7, <1>8, <1>10
    <2>4. a = "fatal" => h.op \in Fatal
      BY <1>11
    <2>5. a \in {"error", "nothing"} /\ h.kept => h.op \in Torn \cup Late
      BY <2>2
    <2> QED
      BY <1>10, <1>11, <2>1, <2>3, <2>4, <2>5, AnswerIsGood
  <1>13. req' = [req EXCEPT ![s] = Answered(h, a)]
    BY <1>1, <1>7, <1>8, <1>9, Zenon DEF Return
  <1>14. PICK g : g = Answered(h, a)
    OBVIOUS
  <1>15. a \in Answers
    BY <1>11
  <1>16. g.op = h.op /\ g.open = 0 /\ g.answer = a
    BY <1>10, <1>14, <1>15, AnsweredFields
  <1>17. GoodRequest(g) /\ req' = [req EXCEPT ![s] = g] /\ g.op \in Methods[s] \cup {"none"}
    BY <1>3, <1>10, <1>12, <1>13, <1>14, <1>16
  <1>18. CASE r.open = 0
    <2>1. leaked' = leaked /\ g.open <= r.open
      BY <1>2, <1>16, <1>18 DEF IInv, PoolInv
    <2> QED
      BY <1>1, <1>17, <2>1 DEF Moves
  <1>19. CASE r.open # 0
    <2>1. r.open = 1 /\ r.op \in Forgetful
      BY <1>4, <1>5, <1>6, <1>19
    <2>2. leaked' = leaked + 1 /\ g.open = 0 /\ g.answer # "none"
      BY <1>2, <1>11, <1>16, <2>1
    <2> QED
      BY <1>1, <1>17, <2>1, <2>2 DEF Moves
  <1> QED
    BY <1>18, <1>19

\* Every step is one of a slot, or the process stops.
LEMMA EveryStep ==
    ASSUME IInv, Next
    PROVE  \/ \E s \in Slots : \E g : Moves(s, g)
           \/ \E who \in SUBSET Slots : Stops(who)
  <1>1. ASSUME NEW s \in Slots, Serve(s)
        PROVE  (\E g : Moves(s, g)) \/ Stops({s})
    BY <1>1, BeginMoves, ExecuteMoves, CommitMoves, BlockMoves, DropMoves, RejectMoves,
       FailMoves, DeadlyStops, ReturnMoves DEF Serve
  <1>2. ASSUME NEW s \in Slots, NEW m \in Methods[s], Arrive(s, m)
        PROVE  \E g : Moves(s, g)
    BY <1>2, ArriveMoves
  <1>3. ProcessStops({}) => Stops({})
    BY DEF Stops
  <1>4. \A s \in Slots : {s} \in SUBSET Slots
    OBVIOUS
  <1>5. {} \in SUBSET Slots
    OBVIOUS
  <1> QED
    BY <1>1, <1>2, <1>3, <1>4, <1>5 DEF Next

-----------------------------------------------------------------------------
(* The invariant *)

\* The invariant holds before any request has arrived.
LEMMA InitInv == Init => IInv
  <1> SUFFICES ASSUME Init PROVE IInv
    OBVIOUS
  <1>1. \A s \in Slots : req[s] = NoRequest
    BY DEF Init
  <1>2. NoRequest \in Request
    BY NoRequestIsGood DEF GoodRequest
  <1>3. req \in [Slots -> Request]
    BY <1>2 DEF Init
  <1>4. \A s \in Slots : req[s].op \in Methods[s] \cup {"none"} /\ GoodRequest(req[s])
    BY <1>1, NoRequestIsGood
  <1>5. \A h \in Slots \X (1 .. 2) : ~(h[2] <= req[h[1]].open)
    <2>1. ASSUME NEW h \in Slots \X (1 .. 2)
          PROVE  ~(h[2] <= req[h[1]].open)
      <3>1. h[1] \in Slots /\ h[2] \in 1 .. 2
        OBVIOUS
      <3>2. req[h[1]].open = 0
        BY <1>1, <3>1, NoRequestIsGood
      <3> QED
        BY <3>1, <3>2
    <2> QED
      BY <2>1
  <1>6. Held = {}
    BY <1>5 DEF Held
  <1>7. IsFiniteSet(Held) /\ Cardinality(Held) = 0
    BY <1>6, FS_EmptySet
  <1>8. leaked = 0 /\ PoolSize \in Nat
    BY PoolAssumption DEF Init
  <1>9. PoolInv
    BY <1>7, <1>8 DEF PoolInv
  <1> QED
    BY <1>3, <1>4, <1>9 DEF IInv

\* The step of a slot keeps the invariant: the other requests are untouched and
\* the connections add up.
LEMMA MovesKeep ==
    ASSUME IInv, NEW s \in Slots, NEW g, Moves(s, g)
    PROVE  IInv'
  <1>1. /\ req' = [req EXCEPT ![s] = g]
        /\ GoodRequest(g) /\ g.op \in Methods[s] \cup {"none"}
    BY DEF Moves
  <1>2. g \in Request
    BY <1>1 DEF GoodRequest
  <1>3. req \in [Slots -> Request]
    BY DEF IInv
  <1>4. req' \in [Slots -> Request]
    BY <1>1, <1>2, <1>3
  <1>5. req'[s] = g /\ \A t \in Slots : t # s => req'[t] = req[t]
    BY <1>1, <1>3
  <1>6. ASSUME NEW t \in Slots
        PROVE  req'[t].op \in Methods[t] \cup {"none"} /\ GoodRequest(req'[t])
    <2>1. CASE t = s
      BY <1>1, <1>5, <2>1
    <2>2. CASE t # s
      <3>1. req[t].op \in Methods[t] \cup {"none"} /\ GoodRequest(req[t])
        BY DEF IInv
      <3> QED
        BY <1>5, <2>2, <3>1
    <2> QED
      BY <2>1, <2>2
  <1>7. PICK o : o = [t \in Slots |-> req[t].open]
    OBVIOUS
  <1>8. PICK w : w = [t \in Slots |-> req'[t].open]
    OBVIOUS
  <1>9. \A r \in Request : r.open \in 0 .. 2
    BY DEF Request
  <1>10. o \in [Slots -> 0 .. 2]
    BY <1>3, <1>7, <1>9
  <1>11. w = [o EXCEPT ![s] = g.open]
    BY <1>3, <1>5, <1>7, <1>8
  <1>12. Held = HeldBy(o)
    BY <1>7 DEF Held, HeldBy
  <1>13. Held' = HeldBy(w)
    BY <1>8 DEF Held, HeldBy
  <1>14. g.open \in 0 .. 2
    BY <1>2, <1>9
  <1>15. leaked \in Nat /\ IsFiniteSet(HeldBy(o)) /\ leaked + Cardinality(HeldBy(o)) <= PoolSize
    BY <1>12 DEF IInv, PoolInv
  <1>16. /\ IsFiniteSet(HeldBy(w))
         /\ Cardinality(HeldBy(o)) \in Nat /\ Cardinality(HeldBy(w)) \in Nat
         /\ Cardinality(HeldBy(w)) + o[s] = Cardinality(HeldBy(o)) + g.open
    <2>1. PICK n \in 0 .. 2 : n = g.open
      BY <1>14
    <2>2. w = Changed(o, s, n)
      BY <1>11, <2>1 DEF Changed
    <2>3. IsFiniteSet(HeldBy(o))
      BY <1>15
    <2>4. /\ IsFiniteSet(HeldBy(w))
          /\ Cardinality(HeldBy(o)) \in Nat /\ Cardinality(HeldBy(w)) \in Nat
          /\ Cardinality(HeldBy(w)) + o[s] = Cardinality(HeldBy(o)) + n
      BY <1>10, <2>2, <2>3, HeldChanges
    <2> QED
      BY <2>1, <2>4
  <1>17. PICK held \in Nat : held = Cardinality(HeldBy(o))
    BY <1>16
  <1>18. PICK heldNow \in Nat : heldNow = Cardinality(HeldBy(w))
    BY <1>16
  <1>19. PICK before \in 0 .. 2 : before = req[s].open
    BY <1>3, <1>9
  <1>20. PICK now \in 0 .. 2 : now = g.open
    BY <1>14
  <1>21. heldNow + before = held + now
    BY <1>7, <1>16, <1>17, <1>18, <1>19, <1>20
  <1>22. PoolSize \in Nat /\ leaked \in Nat /\ leaked + held <= PoolSize
    BY <1>15, <1>17, PoolAssumption
  <1>23. \/ leaked' = leaked /\ now <= before
         \/ leaked' = leaked /\ now = before + 1 /\ PoolSize - leaked - held > 0
         \/ leaked' = leaked + 1 /\ now = 0 /\ before = 1
    BY <1>12, <1>17, <1>19, <1>20 DEF Moves, Free
  <1>24. leaked' \in Nat /\ leaked' + heldNow <= PoolSize
    BY <1>21, <1>22, <1>23
  <1>25. PoolInv'
    BY <1>13, <1>16, <1>18, <1>24 DEF PoolInv
  <1> QED
    BY <1>4, <1>6, <1>25 DEF IInv

\* When the process stops, nothing stays open.
LEMMA StopsKeep ==
    ASSUME IInv, NEW who \in SUBSET Slots, Stops(who)
    PROVE  IInv'
  <1> DEFINE a(s) == IF s \in who THEN "fatal" ELSE "cut"
  <1>1. /\ req' = [s \in Slots |-> IF Busy(s) THEN Answered(RolledBack(req[s]), a(s)) ELSE req[s]]
        /\ leaked' = 0
    BY DEF Stops, ProcessStops
  <1>2. ASSUME NEW s \in Slots
        PROVE  /\ GoodRequest(req'[s]) /\ req'[s].op \in Methods[s] \cup {"none"}
               /\ req'[s].open = 0
    <2>1. PICK r : r = req[s]
      OBVIOUS
    <2>2. PICK g : g = req'[s]
      OBVIOUS
    <2>3. /\ GoodRequest(r) /\ r \in Request
          /\ r.op \in Methods[s] \cup {"none"}
          /\ Busy(s) <=> AtWork(r)
      BY <2>1, SlotFacts
    <2>4. CASE ~Busy(s)
      <3>1. g = r
        BY <1>1, <2>1, <2>2, <2>4
      <3>2. r.open = 0
        BY <2>3, <2>4 DEF GoodRequest, Idle
      <3> QED
        BY <2>2, <2>3, <3>1, <3>2
    <2>5. CASE Busy(s)
      <3>1. PICK b \in {"fatal", "cut"} : b = a(s)
        OBVIOUS
      <3>2. b = "fatal" => r.op \in Fatal
        BY <2>1, <3>1 DEF Stops
      <3>3. /\ GoodRequest(Answered(RolledBack(r), b))
            /\ Answered(RolledBack(r), b).op = r.op
            /\ Answered(RolledBack(r), b).open = 0
        BY <2>3, <2>5, <3>2, StopIsGood
      <3>4. g = Answered(RolledBack(r), b)
        BY <1>1, <2>1, <2>2, <2>5, <3>1
      <3> QED
        BY <2>2, <2>3, <3>3, <3>4
    <2> QED
      BY <2>4, <2>5
  <1>3. \A s \in Slots : req'[s] \in Request
    BY <1>2 DEF GoodRequest
  <1> HIDE DEF a
  <1>4. req' \in [Slots -> Request]
    <2>1. req' = [s \in Slots |-> req'[s]]
      BY <1>1
    <2> QED
      BY <1>3, <2>1
  <1>5. ASSUME NEW h \in Slots \X (1 .. 2)
        PROVE  ~(h[2] <= req'[h[1]].open)
    <2>1. h[1] \in Slots /\ h[2] \in 1 .. 2
      OBVIOUS
    <2>2. req'[h[1]].open = 0
      BY <1>2, <2>1
    <2> QED
      BY <2>1, <2>2
  <1>6. Held' = {}
    BY <1>5 DEF Held
  <1>7. IsFiniteSet(Held') /\ Cardinality(Held') = 0
    BY <1>6, FS_EmptySet
  <1>8. PoolSize \in Nat
    BY PoolAssumption
  <1>9. PoolInv'
    BY <1>1, <1>7, <1>8 DEF PoolInv
  <1> QED
    BY <1>2, <1>4, <1>9 DEF IInv

\* Every step keeps the invariant.
LEMMA StepInv == IInv /\ [Next]_vars => IInv'
  <1> SUFFICES ASSUME IInv, [Next]_vars PROVE IInv'
    OBVIOUS
  <1>1. CASE Next
    BY <1>1, EveryStep, MovesKeep, StopsKeep
  <1>2. CASE UNCHANGED vars
    <2>1. req' = req /\ leaked' = leaked
      BY <1>2 DEF vars
    <2>2. Held' = Held
      BY <2>1 DEF Held
    <2> QED
      BY <2>1, <2>2 DEF IInv, PoolInv
  <1> QED
    BY <1>1, <1>2

\* Every request is on a path of its method with what it has done there, and
\* the connections add up.
THEOREM Inductive == Spec => []IInv
  BY InitInv, StepInv, PTL DEF Spec

-----------------------------------------------------------------------------
(* The properties *)

\* The invariant implies TypeOK.
LEMMA InvTypeOK == IInv => TypeOK
  <1> SUFFICES ASSUME IInv PROVE TypeOK
    OBVIOUS
  <1>1. ASSUME NEW s \in Slots
        PROVE  /\ req[s].op \in Methods[s] \cup {"none"}
               /\ \A p \in req[s].rest : \A i \in DOMAIN p : p[i] \in Kinds
               /\ req[s].open \in 0 .. 2
               /\ req[s].block \in Blocks \cup {"none"}
               /\ req[s].answer \in Answers
               /\ \A f \in {"finished", "dirty", "kept", "missed", "partial"} :
                     req[s][f] \in BOOLEAN
    <2>1. PICK r \in Request : r = req[s] /\ r.op \in Methods[s] \cup {"none"}
      BY SlotFacts
    <2>2. /\ r.open \in 0 .. 2 /\ r.block \in Blocks \cup {"none"} /\ r.answer \in Answers
          /\ r.rest \in SUBSET Seq(Kinds)
      BY DEF Request
    <2>3. /\ r["finished"] \in BOOLEAN /\ r["dirty"] \in BOOLEAN /\ r["kept"] \in BOOLEAN
          /\ r["missed"] \in BOOLEAN /\ r["partial"] \in BOOLEAN
      BY DEF Request
    <2>4. \A p \in r.rest : \A i \in DOMAIN p : p[i] \in Kinds
      BY <2>2
    <2>5. \A f \in {"finished", "dirty", "kept", "missed", "partial"} : r[f] \in BOOLEAN
      BY <2>3
    <2> QED
      BY <2>1, <2>2, <2>4, <2>5
  <1>2. leaked \in Nat /\ Free \in 0 .. PoolSize
    <2>1. /\ leaked \in Nat /\ IsFiniteSet(Held) /\ leaked + Cardinality(Held) <= PoolSize
      BY DEF IInv, PoolInv
    <2>2. Cardinality(Held) \in Nat /\ PoolSize \in Nat
      BY <2>1, FS_CardinalityType, PoolAssumption
    <2> QED
      BY <2>1, <2>2 DEF Free
  <1> QED
    BY <1>1, <1>2 DEF TypeOK

\* TypeOK of ServiceTransactions: every method keeps to the transactions it has
\* opened, and no more connections are held and lost than the pool has.
THEOREM TypeCorrect == Spec => []TypeOK
  BY Inductive, InvTypeOK, PTL

\* The invariant implies AllOrNothing: who is exact keeps all or nothing.
LEMMA InvAllOrNothing == IInv => AllOrNothing
  <1> SUFFICES ASSUME IInv, NEW s \in Slots, req[s].kept, req[s].missed
      PROVE  req[s].op \in Torn \/ req[s].partial
    BY DEF AllOrNothing
  <1>1. PICK r : r = req[s]
    OBVIOUS
  <1>2. r.op \notin Torn /\ r.missed /\ ~r.partial => ~r.kept
    BY <1>1, SlotFacts DEF GoodRequest, Exact
  <1> QED
    BY <1>1, <1>2

\* AllOrNothing of ServiceTransactions: a method that hands its transaction to
\* every write writes completely or not at all, but for what it reports.
THEOREM WritesAreWhole == Spec => []AllOrNothing
  BY Inductive, InvAllOrNothing, PTL

\* The invariant implies AnswersTrue: the answers are candid.
LEMMA InvAnswersTrue == IInv => AnswersTrue
  <1> SUFFICES ASSUME IInv PROVE AnswersTrue
    OBVIOUS
  <1>1. ASSUME NEW s \in Slots
        PROVE  /\ req[s].answer \in {"error", "nothing"} /\ req[s].kept =>
                     req[s].op \in Torn \cup Late
               /\ req[s].answer = "ok" /\ req[s].missed => req[s].op \in Careless
               /\ req[s].answer = "fatal" => req[s].op \in Fatal
    <2>1. PICK r : r = req[s]
      OBVIOUS
    <2>2. /\ r.answer \in {"error", "nothing"} /\ r.kept => r.op \in Torn \cup Late
          /\ r.answer = "ok" /\ r.missed => r.op \in Careless
          /\ r.answer = "fatal" => r.op \in Fatal
      BY <2>1, SlotFacts DEF GoodRequest, Candid
    <2> QED
      BY <2>1, <2>2
  <1> QED
    BY <1>1 DEF AnswersTrue, ErrorsKeepNothing, SuccessMissesNothing, ProcessSurvives

\* AnswersTrue of ServiceTransactions: a method answers an error for nothing
\* done and success for everything done, and ends no process, but for the
\* methods that are named.
THEOREM AnswersAreTrue == Spec => []AnswersTrue
  BY Inductive, InvAnswersTrue, PTL

\* The invariant implies StallExplained: on the path of a frugal method nothing
\* that has a transaction open needs another connection.
LEMMA InvStallExplained == IInv => StallExplained
  <1> SUFFICES ASSUME IInv, \A s \in Slots : req[s].open > 0 => Waits(s),
                      NEW s \in Slots, req[s].open > 0
      PROVE  req[s].op \notin Frugal
    BY DEF StallExplained
  <1>1. PICK r : r = req[s]
    OBVIOUS
  <1>2. PICK x \in NextStatements(s) : x \in Needs
    BY DEF Waits
  <1>3. AtWork(r) /\ GoodRequest(r) /\ r \in Request
    BY <1>1, NextIsBusy
  <1>4. PICK p \in r.rest : p # <<>> /\ x = Head(p)
    BY <1>1, NextIsBusy
  <1>5. r.op \in DOMAIN Service /\ p \in Seq(Kinds) /\ OnPath(r, p)
    BY <1>3, AtWorkFacts
  <1>6. r.op \in Frugal /\ r.open > 0 => x \notin Needs
    BY <1>3, <1>4, <1>5, NextAllowed
  <1> QED
    BY <1>1, <1>2, <1>6

\* StallExplained of ServiceTransactions: when the requests that hold the
\* connections all wait for one more, none of them is of a method that asks
\* for a second connection only when it holds none.
THEOREM StallsAreExplained == Spec => []StallExplained
  BY Inductive, InvStallExplained, PTL

\* ConnectionsReturned of ServiceTransactions: a connection is lost only by a
\* method that forgets it, one by each call, until the process stops.
THEOREM ConnectionsAreReturned == Spec => ConnectionsReturned
  <1>1. ASSUME IInv, [Next]_vars
        PROVE  [leaked' # leaked => (leaked' = 0 \/ \E s \in Slots : LosesOne(s))]_vars
    <2>1. CASE UNCHANGED vars
      BY <2>1
    <2>2. CASE Next
      <3>1. ASSUME NEW s \in Slots, NEW g, Moves(s, g), leaked' # leaked
            PROVE  LosesOne(s)
        <4>1. leaked' = leaked + 1 /\ req[s].op \in Forgetful /\ g.answer # "none"
          BY <3>1 DEF Moves
        <4>2. req'[s] = g
          <5>1. req \in [Slots -> Request]
            BY <1>1 DEF IInv
          <5>2. req' = [req EXCEPT ![s] = g]
            BY <3>1 DEF Moves
          <5> QED
            BY <5>1, <5>2
        <4> QED
          BY <4>1, <4>2 DEF LosesOne
      <3>2. ASSUME NEW who \in SUBSET Slots, Stops(who)
            PROVE  leaked' = 0
        BY <3>2 DEF Stops, ProcessStops
      <3> QED
        BY <1>1, <2>2, <3>1, <3>2, EveryStep
    <2> QED
      BY <1>1, <2>1, <2>2
  <1> QED
    BY <1>1, Inductive, PTL DEF Spec, ConnectionsReturned
====
