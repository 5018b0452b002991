----------------------------- MODULE MCAssessments -----------------------------
(* Small instances of Assessments for TLC. *)
EXTENDS Assessments, TLC

CONSTANTS api, worker, o1, o2, rel

\* Analysts are interchangeable.
Same == Permutations(Analysts)
===============================================================================
