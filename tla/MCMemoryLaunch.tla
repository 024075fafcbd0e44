--------------------------- MODULE MCMemoryLaunch ---------------------------
(* MemoryLaunch on small instances, for TLC. *)
EXTENDS MemoryLaunch

=============================================================================
