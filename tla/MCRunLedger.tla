---------------------------- MODULE MCRunLedger ----------------------------
(* RunLedger on small instances, for TLC. *)
EXTENDS RunLedger, TLC

Symmetry == Permutations(Workers) \cup Permutations(Clients)

=============================================================================
