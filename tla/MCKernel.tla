------------------------------ MODULE MCKernel ------------------------------
(* Model-checking instance of KernelEntry.                                  *)
EXTENDS KernelEntry, TLC

TaskSymmetry == Permutations(Tasks)

ExitCodes == {0, 7}
=============================================================================
