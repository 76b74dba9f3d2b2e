---------------------------- MODULE MCProcesses ----------------------------
(* Model-checking instance of Processes.                                    *)
EXTENDS Processes, TLC

TaskSymmetry == Permutations(Tasks)

ExitCodes == {-1, 0, 7}
=============================================================================
