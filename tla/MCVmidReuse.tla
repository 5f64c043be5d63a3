---------------------------- MODULE MCVmidReuse -----------------------------
(* VmidReuse on small groups. *)
EXTENDS VmidReuse, TLC

MachineSymmetry == Permutations(Machine)
=============================================================================
