--------------------------- MODULE MCSessionMemory ---------------------------
(* Small instances of a session's memory for TLC. *)
EXTENDS SessionMemory, TLC
=============================================================================
