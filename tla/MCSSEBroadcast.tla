--------------------------- MODULE MCSSEBroadcast ---------------------------
(* Small instances of SSEBroadcast for TLC. *)
EXTENDS SSEBroadcast

CONSTANTS x1, x2, r1

(* A reader on a restaurant's dashboard, an admin who may stop reading. *)
OneOfEach == [x \in Clients |-> IF x = x1 THEN r1 ELSE Admin]
=============================================================================
