----------------------------- MODULE MCUltraBuf -----------------------------
(* UltraBuf for TLC. *)
EXTENDS UltraBuf
============================================================================
