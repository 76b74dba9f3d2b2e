------------------------------ MODULE MCPosix ------------------------------
(* Model-checking instance of Posix.                                        *)
EXTENDS Posix

(* memset's argument is cut to a byte: -1 becomes 255 and 256 becomes 0.    *)
MemsetChars == {-1, 1, 256}

Descriptors == {-1, 0, 1}
=============================================================================
