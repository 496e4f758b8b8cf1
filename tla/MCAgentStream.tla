---------------------------- MODULE MCAgentStream ----------------------------
(* Small instances of the bus for TLC. *)
EXTENDS AgentStream, TLC

Interchangeable == Permutations(Traces) \cup Permutations(Workers)
=============================================================================
