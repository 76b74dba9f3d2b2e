------------------------------- MODULE MCHeap -------------------------------
(* Model-checking instance of Heap: headers of 4 bytes aligned to 2, sizes  *)
(* below, at and above a header, alignments below and above a header's.     *)
EXTENDS Heap

LayoutSet == [size : {1, 5, 8}, align : {1, 4}]
=============================================================================
