----------------------------- MODULE MCSyscalls -----------------------------
(* Small instances of the three kernels.                                     *)
EXTENDS SyscallsProperties
=============================================================================
