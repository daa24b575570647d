--------------------------- MODULE MCConnectionPool ---------------------------
(***************************************************************************)
(* Instances of ConnectionPool for TLC. Callers and session identities are *)
(* model values and interchangeable; connection ids are numbers.           *)
(***************************************************************************)
EXTENDS ConnectionPool, TLC

Symmetric == Permutations(Workers) \cup Permutations(Sessions)

AllOps     == OpNames
Lawful     == OpNames \ {"revoke", "drop"}
SpectraUse == {"regSpectra", "acqSpectra"}
SpectraLive == {"autoSpectra", "regSpectra", "acqSpectra", "drop"}
CloudUse   == {"regCloud", "acqCloud"}
=============================================================================
