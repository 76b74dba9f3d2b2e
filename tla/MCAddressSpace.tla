--------------------------- MODULE MCAddressSpace ---------------------------
(* Model-checking instance of AddressSpace: tables of five entries, so the  *)
(* boot code's huge pages map 25 frames.  The second huge page holds the    *)
(* stack, the third the moved programs; the allocator's frames are those of *)
(* the last two, and one that shares a huge page with the stack.            *)
EXTENDS AddressSpace

Seg(va, f, sz, w, x) == [vaddr |-> va, file |-> f, memsz |-> sz, write |-> w, exec |-> x]

(* Text with a relocation table, data on a page of its own with words to    *)
(* patch and zeroes that reach a second page.                               *)
Pie == [segs |-> <<Seg(0, <<Word(7), RelativeEntry(6), RelativeEntry(8), Word(9)>>, 4, FALSE, TRUE),
                   Seg(6, <<Word(3), Word(4), Word(5)>>, 7, TRUE, FALSE)>>,
        rela |-> 1, relasz |-> 3]

(* Data that starts on the page on which the text ends.                     *)
Shared == [segs |-> <<Seg(0, <<Word(7), Word(8)>>, 2, FALSE, TRUE),
                      Seg(3, <<Word(9)>>, 4, TRUE, FALSE)>>,
           rela |-> 0, relasz |-> 0]

(* A program linked at an address of its own, past the boot code's pages    *)
(* that the allocator owns, with an empty segment.                          *)
Fixed == [segs |-> <<Seg(60, <<Word(1), RelativeEntry(0)>>, 2, FALSE, TRUE),
                     Seg(65, << >>, 0, TRUE, FALSE)>>,
          rela |-> 61, relasz |-> 1]

MCPrograms == {Pie, Shared, Fixed}

Up == [k \in 1..10 |-> 14 + k]

Mixed == <<20, 8, 19, 24, 16, 23, 22, 17, 18, 21>>

(* Allocators that run out after each number of frames, in two orders.      *)
MCFreeLists == {SubSeq(Up, 1, n) : n \in 0..10} \cup {SubSeq(Mixed, 1, n) : n \in {7, 10}}

MCPages == (0..29) \cup (80..84)

MCPtrs == {0, 1, 25, 34, 50, 59, 124, 125, 410, 1559, 3199}

MCLens == {0, 1, 2, 6, 1560}
=============================================================================
