----------------------------- MODULE MCScenarios ------------------------------
(* Small instances of Scenarios for TLC. *)
EXTENDS Scenarios, TLC

CONSTANTS t1, t2, g1, g2, c1, c2, n1, n2, x1

Interchangeable == Permutations(Hashes) \cup Permutations(Drafts)
                     \cup Permutations(Contents) \cup Permutations(Templates)
===============================================================================
