---------------------------- MODULE MCPbsOffsite ----------------------------
(* PbsOffsite on a small instance. *)
EXTENDS PbsOffsite

CONSTANT a      \* the one group
=============================================================================
