--------------------------- MODULE MCReleaseControl ---------------------------
(* Small instances of ReleaseControl for TLC. *)
EXTENDS ReleaseControl, TLC

CONSTANTS rel1, rel2, rel3, adm1, adm2, inc1, inc2, k1

OneScope == [r \in Releases |-> k1]
Rivals == Permutations(Admins) \cup Permutations(Incidents)
Interchangeable == Rivals \cup Permutations(Releases)
===============================================================================
