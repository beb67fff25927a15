----------------------------- MODULE MCVmManager -----------------------------
(* TLC's instances of VmManager. *)
EXTENDS VmManager, TLC

CONSTANTS v1, v2, v3

TwoVms == {v1, v2}
ThreeVms == {v1, v2, v3}
VmSymmetry == Permutations(Vms)

==============================================================================
