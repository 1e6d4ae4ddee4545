------------------------------- MODULE MCIngest ------------------------------
(* Small instances of Ingest for TLC. *)
EXTENDS Ingest, TLC

CONSTANTS m1, m2, k1, k2

\* One manifest id is an object's, ...
OneObject == m1 :> k1

\* ... or both are, with watermarks of their own, ...
TwoObjects == (m1 :> k1) @@ (m2 :> k2)

\* ... or none is.
NoObject == [o \in {} |-> k1]

Symmetry == Permutations(Request) \cup Permutations(Version)
=============================================================================
