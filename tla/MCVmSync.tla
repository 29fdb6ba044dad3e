------------------------------ MODULE MCVmSync ------------------------------
(* A bind mount (two paths on one device), and a path that is on no device in *)
(* front of two that are.                                                     *)
EXTENDS VmSync
CONSTANTS d1, d2
MCPathLists == {<<d1, d1>>, <<NoDevice, d1, d2>>}
=============================================================================
