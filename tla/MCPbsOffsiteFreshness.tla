----------------------- MODULE MCPbsOffsiteFreshness ------------------------
(* PbsOffsiteFreshness at the deployed hours and limits. *)
EXTENDS PbsOffsiteFreshness

DeployedBackupHours == {10, 11}
=============================================================================
