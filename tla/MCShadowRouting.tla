--------------------------- MODULE MCShadowRouting ---------------------------
(* Small instances of production and shadow workers for TLC.               *)
EXTENDS ShadowRouting, TLC
=============================================================================
