--------------------------- MODULE MCPolicySequence ---------------------------
(***************************************************************************)
(* PolicySequence for TLC: two reservations, one delegated renewal, two    *)
(* recoveries and two rows that the schema retirement removes.             *)
(***************************************************************************)
EXTENDS PolicySequence, TLC

Symmetric == Permutations(Reservations) \cup Permutations(Recoveries)
=============================================================================
