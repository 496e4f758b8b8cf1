----------------------------- MODULE MCRegistry -----------------------------
(* Small instances of an agent's processes and their registration for TLC. *)
EXTENDS Registry, TLC
=============================================================================
