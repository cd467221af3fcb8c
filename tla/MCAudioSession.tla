--------------------------- MODULE MCAudioSession ---------------------------
(* Three samples and three channels: enough for one in each stage of its life. *)
EXTENDS AudioSession
=============================================================================
