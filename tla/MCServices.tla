----------------------------- MODULE MCServices -----------------------------
(* Model-checking instance of ServiceManager: a failure code, a clean exit  *)
(* and a positive code.                                                     *)
EXTENDS ServiceManager

ExitCodes == {-1, 0, 3}
=============================================================================
