------------------------------ MODULE MCVmArea ------------------------------
(* Small instances of memory mapping: pages of 4, huge pages of 8.           *)
EXTENDS VmAreaProperties
=============================================================================
