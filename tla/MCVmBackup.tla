----------------------------- MODULE MCVmBackup -----------------------------
(* Model-checking instances of VmBackup. *)
EXTENDS VmBackup, TLC

\* Heap addresses are only compared for equality.
AddrSymmetry == Permutations(Addrs)
=============================================================================
