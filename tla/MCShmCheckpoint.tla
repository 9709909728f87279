-------------------------- MODULE MCShmCheckpoint --------------------------
(* ShmCheckpoint for TLC. *)
EXTENDS ShmCheckpoint
============================================================================
