------------------------------ MODULE MCWalFile ------------------------------
(* WalFile for TLC. *)
EXTENDS WalFile
=============================================================================
