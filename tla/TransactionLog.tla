--------------------------- MODULE TransactionLog ---------------------------
(***************************************************************************)
(* What the table `solana_transactions` promises of the items it logs,     *)
(* whatever writes it: an entry says "success" only when a memo of the     *)
(* item is on the chain, it says so for good, and no memo is sent after.   *)
(* The promise is void for an item two workers handled at the same time.   *)
(***************************************************************************)
EXTENDS Naturals

CONSTANT Items      \* pairs of transactableType and transactableId

VARIABLES
    entry,          \* entry[i]: what the log says of item i
    sent, onChain   \* the memos of i sent, and those of them on the chain

vars == <<entry, sent, onChain>>

Init ==
    /\ entry = [i \in Items |-> "none"]
    /\ sent = [i \in Items |-> 0]
    /\ onChain = [i \in Items |-> 0]

Writes(i, from, to) ==
    /\ entry[i] \in from
    /\ entry' = [entry EXCEPT ![i] = to]
    /\ UNCHANGED <<sent, onChain>>

Open(i)    == Writes(i, {"none"}, "processing")
Fail(i)    == Writes(i, {"processing", "failed"}, "failed")
Succeed(i) == onChain[i] > 0 /\ Writes(i, {"processing", "failed"}, "success")
Void(i)    == Writes(i, {"none", "processing", "failed", "success"}, "void")

Send(i) ==
    /\ entry[i] \in {"processing", "failed", "void"}
    /\ sent' = [sent EXCEPT ![i] = @ + 1]
    /\ UNCHANGED <<entry, onChain>>

Reach(i) ==
    /\ onChain[i] < sent[i]
    /\ onChain' = [onChain EXCEPT ![i] = @ + 1]
    /\ UNCHANGED <<entry, sent>>

Next == \E i \in Items : Open(i) \/ Fail(i) \/ Succeed(i) \/ Void(i) \/ Send(i) \/ Reach(i)

Spec == Init /\ [][Next]_vars
=============================================================================
