------------------------------ MODULE MCSandbox ------------------------------
(* Small instances of the coder's processes and their containers for TLC.  *)
EXTENDS Sandbox, TLC
=============================================================================
