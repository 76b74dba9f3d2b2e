--------------------------- MODULE BuddyAllocator ---------------------------
(***************************************************************************)
(* The physical frame allocator (hammam/src/mm/physical.rs).  A block is   *)
(* an address and an order; the free list of an order is the set of its    *)
(* blocks, since a caller only ever sees the head of the list and may take *)
(* any block as being there.  The loops of allocate, deallocate_internal   *)
(* and add_memory_region are cut into one step per iteration, kept in op.  *)
(* All of them run under the PHYSICAL_ALLOCATOR lock: no operation begins  *)
(* while another one is under way.                                         *)
(***************************************************************************)
EXTENDS Integers, Sequences, FiniteSets

CONSTANTS MaxOrder,      \* MAX_ORDER
          Size,          \* Size[k] = (1 << k) * PAGE_SIZE; Size[0] is PAGE_SIZE
          MemoryMap,     \* the regions given to init
          KStart, KEnd   \* kernel_phys_start and kernel_phys_end

Orders == 0..(MaxOrder - 1)

(* The boot loader's map has no two usable regions with a common address,   *)
(* and the linker script puts the kernel on page boundaries.                *)
ASSUME BuddyAssumption ==
  /\ MaxOrder \in Nat \ {0}
  /\ Size \in [Orders -> Nat \ {0}]
  /\ \A k \in Orders : k + 1 \in Orders => Size[k + 1] = 2 * Size[k]
  /\ \A k \in Orders : Size[k] % Size[0] = 0
  /\ MemoryMap \in Seq([start : Nat, end : Nat, usable : BOOLEAN])
  /\ \A i, j \in DOMAIN MemoryMap :
       i # j /\ MemoryMap[i].usable /\ MemoryMap[j].usable
         => MemoryMap[i].end <= MemoryMap[j].start \/ MemoryMap[j].end <= MemoryMap[i].start
  /\ KStart \in Nat /\ KEnd \in Nat /\ KStart <= KEnd
  /\ KStart % Size[0] = 0 /\ KEnd % Size[0] = 0

VARIABLES free,          \* free_lists
          total_frames,
          free_frames,
          held,          \* the blocks that callers hold
          op,            \* the loop under way, if any
          region, part,  \* init's position: region of the map, its sub-range
          cursor,        \* current_addr in add_memory_region
          reply          \* what the last allocate returned

vars == <<free, total_frames, free_frames, held, op, region, part, cursor, reply>>

Block == [addr : Nat, order : Orders]

Span(a, k) == a..(a + Size[k] - 1)

Frames(k) == Size[k] \div Size[0]

MinOf(a, b) == IF a <= b THEN a ELSE b
MaxOf(a, b) == IF a >= b THEN a ELSE b

(* addr ^ (1 << k) * PAGE_SIZE: flip the bit of the block size.             *)
Buddy(a, k) ==
  IF (a \div Size[k]) % 2 = 0 THEN a + Size[k] ELSE a - Size[k]

-----------------------------------------------------------------------------
(* init and add_memory_region: page 0 is left out, the kernel's own range   *)
(* splits a region in two.                                                  *)

PageUp(a) == ((a + Size[0] - 1) \div Size[0]) * Size[0]
PageDown(a) == (a \div Size[0]) * Size[0]

IgnoresKernelEnd(r, p) ==
  LET start == PageUp(MemoryMap[r].start)
      from  == IF p = 1 THEN start ELSE MaxOf(start, KStart)
  IN  IF from = 0 THEN Size[0] ELSE from

RangeStart(r, p) ==
  LET start == PageUp(MemoryMap[r].start)
      from  == IF p = 1 THEN start ELSE MaxOf(start, KEnd)
  IN  IF from = 0 THEN Size[0] ELSE from

RangeEnd(r, p) ==
  LET end == PageDown(MemoryMap[r].end)
  IN  IF p = 1 THEN MinOf(end, KStart) ELSE end

(* The largest order whose block fits between a and end and is aligned at a. *)
Fits(a, end, k) == k = 0 \/ (Size[k] <= end - a /\ a % Size[k] = 0)

IsBestOrder(a, end, k) ==
  Fits(a, end, k) /\ \A j \in Orders : Fits(a, end, j) => j <= k

Booted == region > Len(MemoryMap)

Idle == op.kind = "idle"

NoOp == [kind |-> "idle"]

Merging(a, at, order) == [kind |-> "merge", addr |-> a, at |-> at, order |-> order]

Splitting(a, at, order) == [kind |-> "split", addr |-> a, at |-> at, order |-> order]

RangeLeft ==
  /\ MemoryMap[region].usable
  /\ Size[0] <= RangeEnd(region, part) - cursor

-----------------------------------------------------------------------------
Init ==
  /\ free = [k \in Orders |-> {}]
  /\ total_frames = 0 /\ free_frames = 0
  /\ held = {}
  /\ op = NoOp
  /\ region = 1 /\ part = 1
  /\ cursor = IF Len(MemoryMap) = 0 THEN 0 ELSE RangeStart(1, 1)
  /\ reply = "none"

(* One iteration of add_memory_region's inner loop.                         *)
AddChunk ==
  /\ Idle /\ ~Booted /\ RangeLeft
  /\ \E k \in Orders :
       /\ IsBestOrder(cursor, RangeEnd(region, part), k)
       /\ op' = Merging(cursor, k, k)
       /\ total_frames' = total_frames + Frames(k)
       /\ cursor' = cursor + Size[k]
  /\ UNCHANGED <<free, free_frames, held, region, part, reply>>

(* The sub-range is used up, or its region is not usable: the next one.     *)
NextRange ==
  /\ Idle /\ ~Booted /\ ~RangeLeft
  /\ IF part = 1
     THEN part' = 2 /\ region' = region
     ELSE part' = 1 /\ region' = region + 1
  /\ cursor' = IF region' > Len(MemoryMap) THEN 0 ELSE RangeStart(region', part')
  /\ UNCHANGED <<free, total_frames, free_frames, held, op, reply>>

(* allocate(order), up to the removal of the block it found: the head of    *)
(* the first nonempty list from order on.                                   *)
AllocBegin(order) ==
  /\ Idle /\ Booted
  /\ \E c \in Orders :
       /\ order <= c /\ free[c] # {}
       /\ \A k \in Orders : order <= k /\ k < c => free[k] = {}
       /\ \E a \in free[c] :
            /\ free' = [free EXCEPT ![c] = @ \ {a}]
            /\ op' = Splitting(a, c, order)
  /\ reply' = "none"
  /\ UNCHANGED <<total_frames, free_frames, held, region, part, cursor>>

(* One iteration of the split loop: the upper half goes to the list below.  *)
SplitStep ==
  /\ op.kind = "split" /\ op.order < op.at
  /\ free' = [free EXCEPT ![op.at - 1] = @ \cup {op.addr + Size[op.at - 1]}]
  /\ op' = [op EXCEPT !.at = @ - 1]
  /\ UNCHANGED <<total_frames, free_frames, held, region, part, cursor, reply>>

(* The end of a successful allocate.                                        *)
AllocCountsOneFrame ==
  /\ op.kind = "split" /\ op.order = op.at
  /\ held' = held \cup {[addr |-> op.addr, order |-> op.order]}
  /\ free_frames' = free_frames - 1
  /\ op' = NoOp
  /\ reply' = "ok"
  /\ UNCHANGED <<free, total_frames, region, part, cursor>>

AllocDone ==
  /\ op.kind = "split" /\ op.order = op.at
  /\ held' = held \cup {[addr |-> op.addr, order |-> op.order]}
  /\ free_frames' = free_frames - Frames(op.order)
  /\ op' = NoOp
  /\ reply' = "ok"
  /\ UNCHANGED <<free, total_frames, region, part, cursor>>

(* allocate(order) when every list from order on is empty.                  *)
AllocFail(order) ==
  /\ Idle /\ Booted
  /\ \A k \in Orders : order <= k => free[k] = {}
  /\ reply' = "oom"
  /\ UNCHANGED <<free, total_frames, free_frames, held, op, region, part, cursor>>

(* allocate(order) for an order past the last one.                          *)
AllocInvalid ==
  /\ Idle /\ Booted
  /\ reply' = "invalid"
  /\ UNCHANGED <<free, total_frames, free_frames, held, op, region, part, cursor>>

(* deallocate, called with a block that was allocated.                      *)
DeallocBegin(b) ==
  /\ Idle /\ Booted
  /\ held' = held \ {b}
  /\ op' = Merging(b.addr, b.order, b.order)
  /\ reply' = "none"
  /\ UNCHANGED <<free, total_frames, free_frames, region, part, cursor>>

(* deallocate_internal: while the buddy is free it is taken out of its list *)
(* and joined; then the block goes to the list of the order reached.        *)
MergeOneLevel ==
  op.at < MaxOrder - 1 /\ op.at = op.order /\ Buddy(op.addr, op.at) \in free[op.at]

CanMerge ==
  op.at < MaxOrder - 1 /\ Buddy(op.addr, op.at) \in free[op.at]

MergeLeavesBuddy ==
  /\ op.kind = "merge" /\ CanMerge
  /\ op' = [op EXCEPT !.addr = MinOf(@, Buddy(op.addr, op.at)), !.at = op.at + 1]
  /\ UNCHANGED <<free, total_frames, free_frames, held, region, part, cursor, reply>>

MergeStep ==
  /\ op.kind = "merge" /\ CanMerge
  /\ free' = [free EXCEPT ![op.at] = @ \ {Buddy(op.addr, op.at)}]
  /\ op' = [op EXCEPT !.addr = MinOf(@, Buddy(op.addr, op.at)), !.at = op.at + 1]
  /\ UNCHANGED <<total_frames, free_frames, held, region, part, cursor, reply>>

MergeDone ==
  /\ op.kind = "merge" /\ ~CanMerge
  /\ free' = [free EXCEPT ![op.at] = @ \cup {op.addr}]
  /\ free_frames' = free_frames + Frames(op.order)
  /\ op' = NoOp
  /\ UNCHANGED <<total_frames, held, region, part, cursor, reply>>

Next ==
  \/ AddChunk \/ NextRange
  \/ \E order \in Orders : AllocBegin(order) \/ AllocFail(order)
  \/ AllocInvalid
  \/ SplitStep \/ AllocDone
  \/ \E b \in held : DeallocBegin(b)
  \/ MergeStep \/ MergeDone

Spec == Init /\ [][Next]_vars

-----------------------------------------------------------------------------
(* The memory in each state of an address: in a free block, in the block an *)
(* operation is working on, in a block a caller holds.                      *)
FreeAddrs == UNION {UNION {Span(a, k) : a \in free[k]} : k \in Orders}
HandAddrs == IF Idle THEN {} ELSE Span(op.addr, op.at)
HeldAddrs == UNION {Span(b.addr, b.order) : b \in held}

Aligned(a, k) == a % Size[k] = 0

(* Types: every block, free, held or being worked on, is aligned to its own *)
(* size, which is what makes the XOR of deallocate_internal find its buddy. *)
TypeOK ==
  /\ free \in [Orders -> SUBSET Nat]
  /\ \A k \in Orders : \A a \in free[k] : Aligned(a, k)
  /\ held \subseteq Block
  /\ \A b \in held : Aligned(b.addr, b.order)
  /\ \/ op = NoOp
     \/ /\ op \in [kind : {"merge", "split"}, addr : Nat, at : Orders, order : Orders]
        /\ Aligned(op.addr, op.at)
        /\ op.order <= op.at
  /\ total_frames \in Nat
  /\ free_frames \in Int
  /\ region \in 1..(Len(MemoryMap) + 1)
  /\ part \in {1, 2}
  /\ cursor \in Nat
  /\ reply \in {"none", "ok", "oom", "invalid"}

(* The blocks <<a, j>> and <<b, k>> have no address in common.              *)
Apart(a, j, b, k) == a + Size[j] <= b \/ b + Size[k] <= a

(* No address is handed out twice: any two blocks, on a free list, held by  *)
(* a caller or in the hands of an operation, are apart, at every step of    *)
(* the split and merge loops.                                               *)
BlocksApart ==
  /\ \A j, k \in Orders : \A a \in free[j], b \in free[k] :
       (j # k \/ a # b) => Apart(a, j, b, k)
  /\ \A j \in Orders : \A a \in free[j] : \A h \in held :
       Apart(a, j, h.addr, h.order)
  /\ \A g, h \in held : g # h => Apart(g.addr, g.order, h.addr, h.order)
  /\ ~Idle =>
       /\ \A j \in Orders : \A a \in free[j] : Apart(a, j, op.addr, op.at)
       /\ \A h \in held : Apart(h.addr, h.order, op.addr, op.at)

(* The pages boot should hand over: whole pages of usable regions, but page *)
(* 0 and those of the kernel.                                               *)
UsablePage(p) ==
  /\ p # 0
  /\ p + Size[0] <= KStart \/ KEnd <= p
  /\ \E r \in DOMAIN MemoryMap :
       MemoryMap[r].usable /\ MemoryMap[r].start <= p /\ p + Size[0] <= MemoryMap[r].end

MapAddrs == UNION {MemoryMap[r].start..MemoryMap[r].end : r \in DOMAIN MemoryMap}

UsableAddrs ==
  UNION {Span(p, 0) : p \in {a \in MapAddrs : a % Size[0] = 0 /\ UsablePage(a)}}

(* No memory is lost and none made up: after boot, the free, held and       *)
(* in-hand blocks cover the usable pages and nothing else, so never the     *)
(* kernel image, page 0 or a reserved region.                               *)
CoversUsable == Booted => FreeAddrs \cup HandAddrs \cup HeldAddrs = UsableAddrs

(* Buddies are joined eagerly: between operations no free block below the   *)
(* top order has its buddy on the same list.                                *)
NoFreeBuddies ==
  \A k \in 0..(MaxOrder - 2) : \A a \in free[k] : Buddy(a, k) \notin free[k]

(* Between operations, free_frames and total_frames count the frames of the *)
(* free and of all blocks: free_frames never wraps below zero.              *)
FrameCounts ==
  Idle => /\ free_frames * Size[0] = Cardinality(FreeAddrs)
          /\ total_frames * Size[0] = Cardinality(FreeAddrs) + Cardinality(HeldAddrs)

Pool == INSTANCE FramePool WITH avail <- FreeAddrs \cup HandAddrs,
                                Addrs <- MapAddrs

(* The free lists implement the frame pool: each call takes effect at one   *)
(* step, a block served was available, and OutOfMemory is returned only if  *)
(* no aligned block of the requested size is available.                     *)
ImplementsPool == Pool!Spec
=============================================================================
