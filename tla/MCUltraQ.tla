------------------------------ MODULE MCUltraQ ------------------------------
(* UltraQ for TLC. *)
EXTENDS UltraQ
============================================================================
