--------------------------- MODULE MCPbsFreshness ---------------------------
(* PbsFreshness with two VMIDs, at the deployed hours: the job at 04:00, the *)
(* check at 08:00, the limit at 26 h. *)
EXTENDS PbsFreshness, TLC

CONSTANTS v1, v2

VmidSymmetry == Permutations(Vmid)
=============================================================================
