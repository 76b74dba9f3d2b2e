----------------------------- MODULE MCIoUring -----------------------------
(* Model-checking instance of IoUring: a write, a no-op and an unknown      *)
(* opcode, so that the three kinds of result differ.                        *)
EXTENDS IoUring

Ops == {1, 2, 9}
OneLength == {5}
=============================================================================
