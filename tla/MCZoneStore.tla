----------------------------- MODULE MCZoneStore -----------------------------
(* The zone files offered for import list their records out of render order,  *)
(* and one of them with TTL 0.                                               *)
EXTENDS ZoneStore, TLC

CONSTANTS x, y, job1, job2

Record(k, ttl) == [key |-> k, ttl |-> ttl]

MCImportBodies == {<<Record(2, 0), Record(1, 300)>>}

\* Zones and job slots are interchangeable.
Symmetry == Permutations({x, y}) \cup Permutations({job1, job2})

=============================================================================
