--------------------------- MODULE MCCallSession ---------------------------
(* Instances of CallSession for TLC; the bounds are in the configurations. *)
EXTENDS CallSession
=============================================================================
