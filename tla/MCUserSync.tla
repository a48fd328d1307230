------------------------------ MODULE MCUserSync ------------------------------
(* Instances of UserSync.                                                  *)
EXTENDS UserSync

CONSTANTS h1, h2, c1, e1, e2

OrgGiven == {{"main", "sub"}}
AnyGiven == {{}, {"main", "sub"}}
=============================================================================
