-------------------------------- MODULE Heap --------------------------------
(***************************************************************************)
(* The kernel heap (hammam/src/mm/heap.rs): a first-fit allocator over a   *)
(* linked list of holes, whose headers are stored in the holes themselves. *)
(* alloc and dealloc run under the heap's lock, so each is one action.     *)
(***************************************************************************)
EXTENDS Integers, Sequences, FiniteSets, SequencesExt

CONSTANTS HeapStart, HeapSize,  \* HEAP_SPACE
          HoleSize, HoleAlign,  \* size_of and align_of Hole: 16 and 8
          Layouts               \* the [size, align] that callers ask for

(* Alignments are multiples or divisors of each other, as powers of two are. *)
ASSUME HeapAssumption ==
  /\ HoleAlign \in Nat \ {0}
  /\ HoleSize \in Nat \ {0} /\ HoleSize % HoleAlign = 0
  /\ HeapSize \in Nat /\ HoleSize <= HeapSize
  /\ HeapStart \in Nat /\ HeapStart % HoleAlign = 0
  /\ Layouts \subseteq [size : Nat \ {0}, align : Nat \ {0}]
  /\ \A l \in Layouts : l.align > HoleAlign => l.align % HoleAlign = 0

VARIABLES holes,  \* the list from head.next on: [addr, size] of each hole
          live    \* the allocations callers hold: [addr, size, align]

vars == <<holes, live>>

AtLeast(a, b) == IF a >= b THEN a ELSE b

(* (x + align - 1) & !(align - 1)                                           *)
AlignUp(x, align) == ((x + align - 1) \div align) * align

(* alloc_raw: what is carved out for a layout, and where in a hole.         *)
AlignOf(l) == AtLeast(l.align, HoleAlign)

SizeOf(l) == AlignUp(AtLeast(l.size, HoleSize), AlignOf(l))

Place(h, l) == AlignUp(h.addr, AlignOf(l))

Required(h, l) == SizeOf(l) + (Place(h, l) - h.addr)

FitsWithoutPadding(h, l) == h.size >= SizeOf(l)

FitsIn(h, l) == h.size >= Required(h, l)

IsFirstFit(n, l) ==
  /\ n \in DOMAIN holes /\ FitsIn(holes[n], l)
  /\ \A m \in 1..(n - 1) : ~FitsIn(holes[m], l)

-----------------------------------------------------------------------------
Init ==
  /\ holes = <<[addr |-> HeapStart, size |-> HeapSize]>>
  /\ live = {}

AllocTakesAll(l) ==
  /\ \E n \in DOMAIN holes :
       /\ IsFirstFit(n, l)
       /\ holes' = RemoveAt(holes, n)
       /\ live' = live \cup {[addr |-> Place(holes[n], l), size |-> l.size,
                              align |-> l.align]}

(* alloc: the first hole that fits keeps its tail if that can hold a hole,  *)
(* and is unlinked otherwise.                                               *)
Alloc(l) ==
  /\ \E n \in DOMAIN holes :
       LET h == holes[n]
           at == Place(h, l)
           remaining == h.size - Required(h, l)
       IN  /\ IsFirstFit(n, l)
           /\ holes' = IF remaining >= HoleSize
                       THEN [holes EXCEPT ![n] = [addr |-> at + SizeOf(l),
                                                  size |-> remaining]]
                       ELSE RemoveAt(holes, n)
           /\ live' = live \cup {[addr |-> at, size |-> l.size, align |-> l.align]}

(* alloc when no hole fits: null.                                           *)
AllocNull(l) ==
  /\ \A n \in DOMAIN holes : ~FitsIn(holes[n], l)
  /\ UNCHANGED vars

(* dealloc: the block becomes the first hole, with its layout's size.       *)
Dealloc(b) ==
  /\ holes' = <<[addr |-> b.addr, size |-> AtLeast(b.size, HoleSize)]>> \o holes
  /\ live' = live \ {b}

Next ==
  \/ \E l \in Layouts : Alloc(l) \/ AllocNull(l)
  \/ \E b \in live : Dealloc(b)

Spec == Init /\ [][Next]_vars

-----------------------------------------------------------------------------
(* Two ranges of bytes have none in common.                                 *)
Disjoint(a, m, b, n) == a + m <= b \/ b + n <= a

Inside(a, n) == HeapStart <= a /\ a + n <= HeapStart + HeapSize

(* Types: every hole lies in the heap at an address aligned for a Hole and  *)
(* has room for its own header.                                             *)
TypeOK ==
  /\ holes \in Seq([addr : Nat, size : Nat])
  /\ \A n \in DOMAIN holes :
       /\ holes[n].addr % HoleAlign = 0
       /\ HoleSize <= holes[n].size
       /\ Inside(holes[n].addr, holes[n].size)
  /\ live \subseteq [addr : Nat, size : Nat \ {0}, align : Nat \ {0}]

(* Every byte has one owner: no two holes overlap, no hole overlaps a live  *)
(* allocation (or the room its header will need when it is freed), and no   *)
(* two live allocations overlap, in whatever order blocks are freed.        *)
OneOwner ==
  /\ \A m, n \in DOMAIN holes :
       m # n => Disjoint(holes[m].addr, holes[m].size, holes[n].addr, holes[n].size)
  /\ \A n \in DOMAIN holes : \A b \in live :
       Disjoint(holes[n].addr, holes[n].size, b.addr, AtLeast(b.size, HoleSize))
  /\ \A b, c \in live :
       b # c => Disjoint(b.addr, AtLeast(b.size, HoleSize),
                         c.addr, AtLeast(c.size, HoleSize))

(* Each live allocation lies in the heap and is aligned as its caller asked *)
(* and as the hole it will become must be.                                  *)
LiveAligned ==
  \A b \in live :
    /\ b.addr % AtLeast(b.align, HoleAlign) = 0
    /\ b.addr % HoleAlign = 0
    /\ Inside(b.addr, AtLeast(b.size, HoleSize))

(* The bytes that are in a hole or will be when their block is freed.       *)
Pool == FoldLeft(LAMBDA sum, h : sum + h.size, 0, holes)
          + FoldSet(LAMBDA b, sum : sum + AtLeast(b.size, HoleSize), 0, live)

(* dealloc makes a hole of the size asked for, not of what was carved out,  *)
(* so memory leaves the pool for ever; but freeing loses nothing, and one   *)
(* allocation at most its padding, its rounding and a tail too small for a  *)
(* hole.                                                                    *)
LossBounded ==
  [][/\ Pool' <= Pool
     /\ \A b \in live' \ live :
          Pool - Pool' < 2 * AtLeast(b.align, HoleAlign) + HoleSize
     /\ live' \subseteq live => Pool' = Pool]_vars
=============================================================================
