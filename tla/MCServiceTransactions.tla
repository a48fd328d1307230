--------------------- MODULE MCServiceTransactions ---------------------
(* Two requests at a time and three connections: any method beside one that asks *)
(* for a second connection, one that leaks, and one that does neither.  Before   *)
(* it starts TLC decides PathsAssumption, the fact about the paths of all        *)
(* methods on which ServiceTransactionsProofs rests.                             *)
EXTENDS ServicePaths, TLC

CONSTANTS r1, r2

Slots2 == {r1, r2}
Beside == {"updateFlowSetting", "mitigateRisk", "bulkAssignShipments"}
Methods2 == (r1 :> DOMAIN Service) @@ (r2 :> Beside)
====
