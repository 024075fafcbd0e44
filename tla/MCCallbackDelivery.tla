------------------------- MODULE MCCallbackDelivery -------------------------
(* CallbackDelivery on small instances, for TLC. *)
EXTENDS CallbackDelivery, TLC

Symmetry == Permutations(Dispatchers)

=============================================================================
