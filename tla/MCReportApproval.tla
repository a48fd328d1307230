-------------------------- MODULE MCReportApproval --------------------------
(* Instances of ReportApproval: two reports that share a production place,  *)
(* each with one of its own.                                                *)
EXTENDS ReportApproval, TLC

CONSTANTS r1, r2, own, shared, q1, q2, k1, k2, org

SharedPlaces == [r \in Reports |-> (IF r = r1 THEN {own, shared} ELSE {shared}) \cap Infos]
OneOrganization == [r \in Reports |-> org]
AllHigh == [i \in Infos |-> High]
WithZero == [i \in Infos |-> IF i = own THEN Zero ELSE High]
SlotSymmetry == Permutations(Requests)
=============================================================================
