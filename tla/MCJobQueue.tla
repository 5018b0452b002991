------------------------------ MODULE MCJobQueue ------------------------------
(* Small instances of JobQueue for TLC. *)
EXTENDS JobQueue, TLC

CONSTANTS w1, w2, r1, r2, j1, j2, j3, a, b

\* Every process keeps the default worker_id, as the compose files leave it.
SharedId == [w \in Workers |-> "worker-local-1"]
OwnId == [w \in Workers |-> IF w = w1 THEN "worker-1" ELSE "worker-2"]

\* Key a enqueues key b when it succeeds (a cluster rebuild and a site build).
Chain == [k \in Keys |-> IF k = a THEN {b} ELSE {}]
NoChain == [k \in Keys |-> {}]

Interchangeable == Permutations(Jobs) \cup Permutations(Requesters)
===============================================================================
