--------------------------- MODULE MCStreamingChat ---------------------------
(* Small instances of a streaming connection for TLC. *)
EXTENDS StreamingChat, TLC
=============================================================================
