----------------------------- MODULE MCJobQueue -----------------------------
(* Instances of JobQueue for TLC: an import of two batches that may be       *)
(* retried once and an external deforestation request, on one server with    *)
(* two invocations in flight or on two servers.                              *)
EXTENDS JobQueue, TLC

CONSTANTS s1, s2, c1, c2, imp, ask, warn, other, places, deforestation

OneHome  == c1 :> s1 @@ c2 :> s1
TwoHomes == c1 :> s1 @@ c2 :> s2

\* An import of two batches that may be retried once, an external request
\* answered with one batch, the re-check of warnings, and a module the switch
\* of runJobs does not know.
MCService  == [j \in Jobs |-> IF j = ask THEN deforestation ELSE places]
MCCommand  == [j \in Jobs |-> CASE j = imp -> "IMPORT" [] j = ask -> "REQUEST"
                                [] j = warn -> "WARNING" [] OTHER -> "UNKNOWN"]
MCBatches  == [j \in Jobs |-> IF j = imp THEN 2 ELSE 1]
MCAttempts == [j \in Jobs |-> IF j = imp THEN 1 ELSE 0]
NoAttempts == [j \in Jobs |-> 0]
MCPriority == [j \in Jobs |-> IF j = imp THEN 0 ELSE 1]

CallSymmetry == Permutations({c1, c2})
=============================================================================
