----------------------------- MODULE Statements -----------------------------
(***************************************************************************)
(* A notation for what a service method does to the database: the set of   *)
(* the sequences of statements it may execute, written like a regular      *)
(* expression.  P ** Q is P and then Q, a union is a choice that the data  *)
(* decides, Maybe(P) may be skipped, Each(P) is a loop of one or two       *)
(* turns, Loop(P) one that may have none.  A sequence ends where the       *)
(* method returns or throws: what is written after a "throw" is not        *)
(* executed.                                                               *)
(***************************************************************************)
EXTENDS Naturals, Sequences

P ** Q == {p \o q : p \in P, q \in Q}
Maybe(P) == P \cup {<<>>}
Each(P) == P \cup P ** P
Loop(P) == Maybe(Each(P))

Begin    == {<<"begin">>}      \* await sequelize.transaction()
In       == {<<"in">>}         \* a write that is handed the transaction
Look     == {<<"look">>}       \* a read that is handed the transaction
Out      == {<<"out">>}        \* a write that is not: durable at once
Read     == {<<"read">>}       \* a read that is not
Call     == {<<"call">>}       \* a call of another service
Throw    == {<<"throw">>}      \* the method rejects what it was given
Commit   == {<<"commit">>}     \* await transaction.commit()
Drop     == {<<"drop">>}       \* transaction.rollback(), not awaited
Spawn    == {<<"spawn">>}      \* a write, neither awaited nor in the transaction
Fork     == {<<"fork">>}       \* a call of another service, not awaited
Put      == {<<"put">>}        \* s3_upload, which ends the process when it fails

\* an inner try whose catch only logs; one whose catch lists the item as
\* failed; one whose catch rolls back and returns false
Try(P)   == {<<"try">>} ** P ** {<<"end">>}
Item(P)  == {<<"item">>} ** P ** {<<"end">>}
Undo(P)  == {<<"undo">>} ** P ** {<<"end">>}

Writes   == {"in", "out", "spawn"}
Deadly   == {"spawn", "fork", "put"}
Blocks   == {"try", "item", "undo"}
Simple   == {"in", "look", "read", "out", "call"} \cup Deadly
Faulty   == {"begin", "commit"} \cup Simple
Needs    == {"begin", "read", "out", "spawn"}      \* a connection of their own
Kinds    == Faulty \cup Blocks \cup {"throw", "drop", "end"}
====
