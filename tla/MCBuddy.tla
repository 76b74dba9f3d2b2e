------------------------------ MODULE MCBuddy ------------------------------
(* Model-checking instance of BuddyAllocator: pages of two units, so that   *)
(* rounding to pages matters; a region with page 0 and an odd end, a        *)
(* reserved one, one that contains the kernel and stops in the middle of    *)
(* the largest block, and the one that completes it.                        *)
EXTENDS BuddyAllocator

MCSize == [k \in 0..3 |-> 2 * 2^k]

Region(s, e, u) == [start |-> s, end |-> e, usable |-> u]

MCMemoryMap ==
  <<Region(0, 3, TRUE), Region(3, 9, FALSE), Region(9, 26, TRUE), Region(26, 33, TRUE)>>
=============================================================================
