---------------------------- MODULE MCAudioNode ----------------------------
(* Model values for the instances of AudioNode that TLC checks. *)
EXTENDS AudioNode

CONSTANTS s1, copied, bought

=============================================================================
