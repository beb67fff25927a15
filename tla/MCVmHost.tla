------------------------------ MODULE MCVmHost ------------------------------
(* An instance of VmHost for TLC: a config that a host may have all for,   *)
(* one that needs a disk more, and one that none is good for.              *)
EXTENDS VmHost, TLC

CONSTANTS image, disk
MCVmConfigs ==
    {[cpus |-> 1, ram_mb |-> 512, kernel |-> image, boot_image |-> image, disks |-> {},
      gpu |-> TRUE, audio |-> FALSE, tap |-> FALSE],
     [cpus |-> 2, ram_mb |-> 512, kernel |-> image, boot_image |-> image, disks |-> {disk},
      gpu |-> FALSE, audio |-> TRUE, tap |-> TRUE],
     [cpus |-> 1, ram_mb |-> 511, kernel |-> image, boot_image |-> image, disks |-> {},
      gpu |-> FALSE, audio |-> FALSE, tap |-> FALSE]}
ProcSymmetry == Permutations(Procs)
==============================================================================
