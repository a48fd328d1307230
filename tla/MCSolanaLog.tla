---------------------------- MODULE MCSolanaLog ----------------------------
(* Instances of SolanaLog: an item and two workers, in two processes.     *)
EXTENDS SolanaLog, TLC

CONSTANTS i1, i2, w1, w2, s1, s2

TwoHomes == w1 :> s1 @@ w2 :> s2
=============================================================================
