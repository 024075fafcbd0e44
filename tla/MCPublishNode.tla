---------------------------- MODULE MCPublishNode ----------------------------
(* PublishNode on small instances, for TLC. *)
EXTENDS PublishNode, TLC

Symmetry == Permutations(Docs)

=============================================================================
