------------------------------ MODULE MCStartup -----------------------------
(* Startup with a few processes and ports.                                 *)
EXTENDS Startup
=============================================================================
