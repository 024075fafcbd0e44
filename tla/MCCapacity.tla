----------------------------- MODULE MCCapacity -----------------------------
(* Capacity on small instances, for TLC. *)
EXTENDS Capacity

=============================================================================
