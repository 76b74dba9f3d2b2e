---------------------------- MODULE BuddyProofs ----------------------------
(***************************************************************************)
(* Proofs about BuddyAllocator for any number of orders, page size and     *)
(* memory map.  The inductive invariant adds to the checked ones that no   *)
(* block overlaps memory that boot has yet to add.  The second half is     *)
(* about what the blocks amount to: the frame pool, the memory covered and *)
(* the counters.                                                           *)
(***************************************************************************)
EXTENDS BuddyAllocator, TLAPS

(* Time for the solver on steps that a slow machine would not finish in its *)
(* usual five seconds.                                                      *)
USE SMTT(30)

(* With boot at <<rg, pt>> and address cu: where what is left of sub-range  *)
(* <<r, p>> begins, and whether anything is left.                           *)
Lo(rg, pt, cu, r, p) == IF r = rg /\ p = pt THEN cu ELSE RangeStart(r, p)

Pending(rg, pt, cu, r, p) ==
  /\ MemoryMap[r].usable
  /\ r > rg \/ (r = rg /\ p >= pt)
  /\ Lo(rg, pt, cu, r, p) < RangeEnd(r, p)

(* The block <<a, k>> lies outside all memory yet to be added.              *)
Clear(rg, pt, cu, a, k) ==
  \A r \in DOMAIN MemoryMap : \A p \in {1, 2} :
    Pending(rg, pt, cu, r, p)
      => a + Size[k] <= Lo(rg, pt, cu, r, p) \/ RangeEnd(r, p) <= a

PendingApart ==
  /\ \A k \in Orders : \A a \in free[k] : Clear(region, part, cursor, a, k)
  /\ \A h \in held : Clear(region, part, cursor, h.addr, h.order)
  /\ ~Idle => Clear(region, part, cursor, op.addr, op.at)

CursorOK ==
  ~Booted => cursor % Size[0] = 0 /\ RangeStart(region, part) <= cursor

IInv == TypeOK /\ BlocksApart /\ PendingApart /\ CursorOK /\ NoFreeBuddies

-----------------------------------------------------------------------------
(* Division with remainder, and what it says about rounding to a multiple.  *)
LEMMA DivMod ==
  ASSUME NEW a \in Nat, NEW s \in Nat \ {0}
  PROVE  /\ a = ((a \div s) * s) + (a % s)
         /\ a \div s \in Nat
         /\ a % s \in 0..(s - 1)
  BY SMT

(* A multiple of s leaves no remainder, and dividing it gives the factor.   *)
LEMMA Multiple ==
  ASSUME NEW m \in Nat, NEW s \in Nat \ {0}
  PROVE  (m * s) % s = 0 /\ (m * s) \div s = m
  BY SMT

(* PageUp and PageDown move an address by less than a page, to a multiple.  *)
LEMMA Rounding ==
  ASSUME NEW a \in Nat, NEW s \in Nat \ {0}
  PROVE  /\ ((a + s - 1) \div s) * s \in Nat /\ (a \div s) * s \in Nat
         /\ a <= ((a + s - 1) \div s) * s
         /\ (a \div s) * s <= a
         /\ (((a + s - 1) \div s) * s) % s = 0
  <1>1. (a + s - 1) \in Nat
    OBVIOUS
  <1>2. (a + s - 1) \div s \in Nat /\ a \div s \in Nat
    BY <1>1, DivMod, Zenon
  <1> QED BY <1>1, <1>2, DivMod, Multiple

(* A number without remainder is a multiple.                                *)
LEMMA Factor ==
  ASSUME NEW a \in Nat, NEW s \in Nat \ {0}, a % s = 0
  PROVE  \E m \in Nat : a = m * s
  <1>1. a = (a \div s) * s /\ a \div s \in Nat
    BY DivMod
  <1> QED BY <1>1, Zenon

(* The sum of two multiples of s is one.                                    *)
LEMMA AlignedSum ==
  ASSUME NEW a \in Nat, NEW b \in Nat, NEW s \in Nat \ {0}, a % s = 0, b % s = 0
  PROVE  (a + b) % s = 0
  <1>1. PICK m \in Nat : a = m * s
    BY Factor, Zenon
  <1>2. PICK n \in Nat : b = n * s
    BY Factor, Zenon
  <1>3. a + b = (m + n) * s /\ m + n \in Nat
    BY <1>1, <1>2
  <1> QED BY <1>3, Multiple, Zenon

(* An address aligned to 2s is aligned to s, and so is the address s on,    *)
(* whose bit s is set.                                                      *)
LEMMA AlignedHalves ==
  ASSUME NEW a \in Nat, NEW s \in Nat \ {0}, a % (2 * s) = 0
  PROVE  /\ a % s = 0 /\ (a + s) % s = 0
         /\ (a \div s) % 2 = 0 /\ ((a + s) \div s) % 2 = 1
  <1>1. PICK m \in Nat : a = m * (2 * s)
    BY Factor
  <1>2. a = (m * 2) * s /\ a + s = ((m * 2) + 1) * s /\ m * 2 \in Nat /\ (m * 2) + 1 \in Nat
    BY <1>1
  <1>3. a \div s = m * 2 /\ (a + s) \div s = (m * 2) + 1
    BY <1>2, Multiple, Zenon
  <1> QED BY <1>2, <1>3, Multiple

(* An address aligned to s is aligned to 2s, or the one s below it is.      *)
LEMMA AlignedPair ==
  ASSUME NEW a \in Nat, NEW s \in Nat \ {0}, a % s = 0
  PROVE  /\ (a \div s) % 2 = 0 => a % (2 * s) = 0
         /\ (a \div s) % 2 # 0 => (a - s) \in Nat /\ (a - s) % (2 * s) = 0
  <1> DEFINE q == a \div s
  <1>1. a = q * s /\ q \in Nat
    BY DivMod
  <1>2. ASSUME q % 2 = 0 PROVE a % (2 * s) = 0
    <2>1. PICK m \in Nat : q = m * 2
      <3> HIDE DEF q
      <3> QED BY <1>1, <1>2, DivMod
    <2>2. a = m * (2 * s)
      BY <1>1, <2>1
    <2> QED BY <2>2, Multiple
  <1>3. ASSUME q % 2 # 0 PROVE (a - s) \in Nat /\ (a - s) % (2 * s) = 0
    <2>1. PICK m \in Nat : q = (m * 2) + 1
      <3> HIDE DEF q
      <3> QED BY <1>1, <1>3, DivMod
    <2>2. a - s = m * (2 * s) /\ m * (2 * s) \in Nat
      BY <1>1, <2>1
    <2> QED BY <2>2, Multiple
  <1> QED BY <1>2, <1>3, Zenon

-----------------------------------------------------------------------------
(* Block sizes are positive and double from order to order.                 *)
LEMMA SizeFacts ==
  /\ MaxOrder \in Nat \ {0} /\ 0 \in Orders
  /\ \A k \in Orders : Size[k] \in Nat \ {0}
  /\ \A k \in Orders : k + 1 \in Orders => Size[k + 1] = 2 * Size[k]
  /\ \A k \in Orders : k # 0 => k - 1 \in Orders /\ Size[k] = 2 * Size[k - 1]
  <1>1. MaxOrder \in Nat \ {0}
    BY BuddyAssumption, Zenon
  <1>2. 0 \in Orders /\ \A k \in Orders : k # 0 => k - 1 \in Orders /\ (k - 1) + 1 = k
    BY <1>1 DEF Orders
  <1>3. /\ \A k \in Orders : Size[k] \in Nat \ {0}
        /\ \A k \in Orders : k + 1 \in Orders => Size[k + 1] = 2 * Size[k]
    BY BuddyAssumption, Zenon
  <1> QED BY <1>1, <1>2, <1>3, Zenon

(* The buddy of an aligned block adjoins it, their union is aligned to the  *)
(* next size, and the buddy's buddy is the block itself.                    *)
LEMMA BuddyFacts ==
  ASSUME NEW k \in Orders, NEW a \in Nat, Aligned(a, k)
  PROVE  /\ Buddy(a, k) \in Nat
         /\ Buddy(a, k) = a + Size[k] \/ Buddy(a, k) = a - Size[k]
         /\ Buddy(Buddy(a, k), k) = a
         /\ MinOf(a, Buddy(a, k)) % (2 * Size[k]) = 0
  <1> DEFINE s == Size[k]
  <1>1. s \in Nat \ {0} /\ a % s = 0
    BY SizeFacts, Zenon DEF Aligned
  <1>2. CASE (a \div s) % 2 = 0
    <2>1. a % (2 * s) = 0
      BY <1>1, <1>2, AlignedPair, Zenon
    <2>2. ((a + s) \div s) % 2 = 1
      BY <1>1, <2>1, AlignedHalves, Zenon
    <2>3. Buddy(a, k) = a + s
      BY <1>2, Zenon DEF Buddy
    <2>4. Buddy(a + s, k) = (a + s) - s
      BY <2>2 DEF Buddy
    <2> QED BY <1>1, <2>1, <2>3, <2>4 DEF MinOf
  <1>3. CASE (a \div s) % 2 # 0
    <2>1. (a - s) \in Nat /\ (a - s) % (2 * s) = 0
      BY <1>1, <1>3, AlignedPair, Zenon
    <2>2. Buddy(a, k) = a - s
      BY <1>3, Zenon DEF Buddy
    <2>3. ((a - s) \div s) % 2 = 0
      BY <1>1, <2>1, AlignedHalves, Zenon
    <2>4. Buddy(a - s, k) = (a - s) + s
      BY <2>3, Zenon DEF Buddy
    <2> QED BY <1>1, <2>1, <2>2, <2>4 DEF MinOf
  <1> QED BY <1>2, <1>3, Zenon

-----------------------------------------------------------------------------
(* The entries of the memory map are regions.                               *)
LEMMA MapTypes ==
  /\ Len(MemoryMap) \in Nat /\ DOMAIN MemoryMap = 1..Len(MemoryMap)
  /\ \A r \in DOMAIN MemoryMap : MemoryMap[r].start \in Nat /\ MemoryMap[r].end \in Nat
  <1> DEFINE R == [start : Nat, end : Nat, usable : BOOLEAN]
  <1>1. MemoryMap \in Seq(R)
    BY BuddyAssumption, Zenon
  <1>2. \A x \in R : x.start \in Nat /\ x.end \in Nat
    BY Zenon
  <1> HIDE DEF R
  <1>3. /\ Len(MemoryMap) \in Nat /\ DOMAIN MemoryMap = 1..Len(MemoryMap)
        /\ \A r \in DOMAIN MemoryMap : MemoryMap[r] \in R
    BY <1>1
  <1> QED BY <1>2, <1>3, Zenon

(* The sub-ranges are addresses, their starts are page-aligned, and two     *)
(* nonempty sub-ranges of usable regions have no address in common.         *)
LEMMA RangeTypes ==
  ASSUME NEW r \in DOMAIN MemoryMap, NEW p \in {1, 2}
  PROVE  /\ RangeStart(r, p) \in Nat /\ RangeEnd(r, p) \in Nat
         /\ RangeStart(r, p) % Size[0] = 0
         /\ MemoryMap[r].start <= RangeStart(r, p)
         /\ RangeEnd(r, p) <= MemoryMap[r].end
         /\ p = 1 => RangeEnd(r, p) <= KStart
         /\ p = 2 => KEnd <= RangeStart(r, p)
  <1> DEFINE s == Size[0]
             up == PageUp(MemoryMap[r].start)
             down == PageDown(MemoryMap[r].end)
  <1>1. s \in Nat \ {0} /\ s % s = 0
    <2>1. s \in Nat \ {0}
      BY SizeFacts, Zenon
    <2>2. (1 * s) % s = 0 /\ 1 * s = s
      BY <2>1, Multiple
    <2> QED BY <2>1, <2>2, Zenon
  <1>2. MemoryMap[r].start \in Nat /\ MemoryMap[r].end \in Nat
    BY MapTypes, Zenon
  <1>3. KStart \in Nat /\ KEnd \in Nat /\ KEnd % s = 0
    BY BuddyAssumption, Zenon
  <1>4. up \in Nat /\ up % s = 0 /\ MemoryMap[r].start <= up
    BY <1>1, <1>2, Rounding, Zenon DEF PageUp
  <1>5. down \in Nat /\ down <= MemoryMap[r].end
    BY <1>1, <1>2, Rounding, Zenon DEF PageDown
  <1> HIDE DEF s, up, down
  <1>6. RangeStart(r, p) = LET from == IF p = 1 THEN up ELSE MaxOf(up, KEnd)
                           IN  IF from = 0 THEN s ELSE from
    BY Zenon DEF RangeStart, s, up
  <1>7. RangeEnd(r, p) = IF p = 1 THEN MinOf(down, KStart) ELSE down
    BY Zenon DEF RangeEnd, down
  <1>8. s = Size[0]
    BY Zenon DEF s
  <1>9. /\ RangeStart(r, p) \in Nat /\ RangeStart(r, p) % s = 0
        /\ MemoryMap[r].start <= RangeStart(r, p)
        /\ p = 2 => KEnd <= RangeStart(r, p)
    <2> DEFINE from == IF p = 1 THEN up ELSE MaxOf(up, KEnd)
    <2>1. MaxOf(up, KEnd) \in {up, KEnd} /\ up <= MaxOf(up, KEnd) /\ KEnd <= MaxOf(up, KEnd)
      BY <1>3, <1>4 DEF MaxOf
    <2>2. from \in {up, KEnd} /\ up <= from /\ (p = 2 => KEnd <= from)
      BY <1>3, <1>4, <2>1
    <2>3. RangeStart(r, p) = IF from = 0 THEN s ELSE from
      BY <1>6, Zenon
    <2> HIDE DEF from
    <2>4. from \in Nat /\ from % s = 0
      BY <1>3, <1>4, <2>2, Zenon
    <2>5. CASE from = 0
      BY <1>1, <1>2, <1>3, <1>4, <2>2, <2>3, <2>5
    <2>6. CASE from # 0
      BY <1>2, <1>3, <1>4, <2>2, <2>3, <2>4, <2>6
    <2> QED BY <2>5, <2>6, Zenon
  <1>10. /\ RangeEnd(r, p) \in Nat /\ RangeEnd(r, p) <= MemoryMap[r].end
         /\ p = 1 => RangeEnd(r, p) <= KStart
    BY <1>2, <1>3, <1>5, <1>7 DEF MinOf
  <1> QED BY <1>8, <1>9, <1>10, Zenon

(* Sub-ranges of usable regions do not overlap.                             *)
LEMMA RangesApart ==
  ASSUME NEW r \in DOMAIN MemoryMap, NEW p \in {1, 2},
         NEW t \in DOMAIN MemoryMap, NEW q \in {1, 2},
         MemoryMap[r].usable, MemoryMap[t].usable, r # t \/ p # q
  PROVE  RangeEnd(r, p) <= RangeStart(t, q) \/ RangeEnd(t, q) <= RangeStart(r, p)
  <1>1. /\ RangeStart(r, p) \in Nat /\ RangeEnd(r, p) \in Nat
        /\ RangeStart(t, q) \in Nat /\ RangeEnd(t, q) \in Nat
        /\ MemoryMap[r].start <= RangeStart(r, p) /\ RangeEnd(r, p) <= MemoryMap[r].end
        /\ MemoryMap[t].start <= RangeStart(t, q) /\ RangeEnd(t, q) <= MemoryMap[t].end
    BY RangeTypes, Zenon
  <1>2. /\ MemoryMap[r].start \in Nat /\ MemoryMap[r].end \in Nat
        /\ MemoryMap[t].start \in Nat /\ MemoryMap[t].end \in Nat
    BY MapTypes, Zenon
  <1>3. CASE r # t
    <2>1. MemoryMap[r].end <= MemoryMap[t].start \/ MemoryMap[t].end <= MemoryMap[r].start
      BY <1>3, BuddyAssumption, Zenon
    <2> QED BY <1>1, <1>2, <2>1
  <1>4. CASE r = t
    <2>1. KStart \in Nat /\ KEnd \in Nat /\ KStart <= KEnd
      BY BuddyAssumption, Zenon
    <2>2. CASE p = 1 /\ q = 2
      <3>1. RangeEnd(r, p) <= KStart /\ KEnd <= RangeStart(t, q)
        BY <2>2, RangeTypes, Zenon
      <3> QED BY <1>1, <2>1, <3>1
    <2>3. CASE p = 2 /\ q = 1
      <3>1. RangeEnd(t, q) <= KStart /\ KEnd <= RangeStart(r, p)
        BY <2>3, RangeTypes, Zenon
      <3> QED BY <1>1, <2>1, <3>1
    <2> QED BY <1>4, <2>2, <2>3, Zenon
  <1> QED BY <1>3, <1>4, Zenon

-----------------------------------------------------------------------------
(* Boot starts with no block at all.                                        *)
LEMMA InitIInv == Init => IInv
  <1> SUFFICES ASSUME Init PROVE IInv
    BY Zenon
  <1>1. Len(MemoryMap) \in Nat /\ DOMAIN MemoryMap = 1..Len(MemoryMap)
    BY MapTypes, Zenon
  <1>2. Idle
    BY Zenon DEF Init, Idle, NoOp
  <1>3. cursor \in Nat /\ CursorOK
    <2>1. CASE Len(MemoryMap) = 0
      BY <2>1 DEF Init, CursorOK, Booted
    <2>2. CASE Len(MemoryMap) # 0
      <3>1. 1 \in DOMAIN MemoryMap
        BY <1>1, <2>2
      <3>2. cursor = RangeStart(1, 1) /\ region = 1 /\ part = 1
        BY <2>2, Zenon DEF Init
      <3> QED BY <3>1, <3>2, RangeTypes DEF CursorOK
    <2> QED BY <2>1, <2>2, Zenon
  <1>4. TypeOK
    BY <1>1, <1>3 DEF Init, TypeOK
  <1>5. BlocksApart /\ PendingApart /\ NoFreeBuddies
    <2>1. \A k \in Orders : free[k] = {}
      BY Zenon DEF Init
    <2>2. \A k \in 0..(MaxOrder - 2) : k \in Orders
      BY SizeFacts DEF Orders
    <2> QED BY <1>2, <2>1, <2>2, Zenon DEF Init, BlocksApart, PendingApart, NoFreeBuddies
  <1> QED BY <1>3, <1>4, <1>5, Zenon DEF IInv

-----------------------------------------------------------------------------
(* The halves of a block that lies outside the memory to be added do so.    *)
LEMMA ClearHalves ==
  ASSUME NEW rg \in Nat, NEW pt \in {1, 2}, NEW cu \in Nat,
         NEW k \in Orders, k # 0, NEW a \in Nat, Clear(rg, pt, cu, a, k)
  PROVE  /\ Clear(rg, pt, cu, a, k - 1)
         /\ Clear(rg, pt, cu, a + Size[k - 1], k - 1)
  <1>1. Size[k - 1] \in Nat /\ Size[k] = 2 * Size[k - 1]
    BY SizeFacts, Zenon
  <1>2. \A r \in DOMAIN MemoryMap : \A p \in {1, 2} :
          Lo(rg, pt, cu, r, p) \in Nat /\ RangeEnd(r, p) \in Nat
    BY RangeTypes, Zenon DEF Lo
  <1> QED BY <1>1, <1>2 DEF Clear

(* Two adjoining blocks of one order that lie outside it do so together.   *)
LEMMA ClearJoin ==
  ASSUME NEW rg \in Nat, NEW pt \in {1, 2}, NEW cu \in Nat,
         NEW k \in Orders, k + 1 \in Orders, NEW a \in Nat,
         Clear(rg, pt, cu, a, k), Clear(rg, pt, cu, a + Size[k], k)
  PROVE  Clear(rg, pt, cu, a, k + 1)
  <1>1. Size[k] \in Nat /\ Size[k + 1] = 2 * Size[k]
    BY SizeFacts, Zenon
  <1>2. \A r \in DOMAIN MemoryMap : \A p \in {1, 2} :
          Lo(rg, pt, cu, r, p) \in Nat /\ RangeEnd(r, p) \in Nat
    BY RangeTypes, Zenon DEF Lo
  <1> QED BY <1>1, <1>2 DEF Clear, Pending

(* allocate takes a block off its list: fewer free blocks, the same blocks. *)
LEMMA AllocBeginIInv ==
  ASSUME IInv, NEW order \in Orders, AllocBegin(order)
  PROVE  IInv'
  <1>0. PICK c \in Orders :
          /\ order <= c
          /\ \E a \in free[c] : /\ free' = [free EXCEPT ![c] = @ \ {a}]
                               /\ op' = Splitting(a, c, order)
    BY Zenon DEF AllocBegin
  <1>1. PICK a \in free[c] :
          /\ free' = [free EXCEPT ![c] = @ \ {a}]
          /\ op' = Splitting(a, c, order)
    BY <1>0, Zenon
  <1>2. /\ reply' = "none" /\ Idle
        /\ UNCHANGED <<total_frames, free_frames, held, region, part, cursor>>
    BY Zenon DEF AllocBegin
  <1>3. /\ op' = [kind |-> "split", addr |-> a, at |-> c, order |-> order]
        /\ ~Idle'
    BY <1>1, Zenon DEF Splitting, Idle
  <1>4. /\ a \in Nat /\ Aligned(a, c)
        /\ \A k \in Orders : free'[k] \subseteq free[k]
        /\ a \notin free'[c]
        /\ free' \in [Orders -> SUBSET Nat]
    BY <1>1, Zenon DEF IInv, TypeOK
  <1>5. TypeOK'
    BY <1>0, <1>1, <1>2, <1>3, <1>4 DEF IInv, TypeOK
  <1>6. BlocksApart'
    <2>1. \A x, j, y, i : Apart(x, j, y, i) <=> Apart(y, i, x, j)
      BY Zenon DEF Apart
    <2> QED BY <1>2, <1>3, <1>4, <2>1, Zenon DEF IInv, BlocksApart
  <1>7. PendingApart'
    BY <1>2, <1>3, <1>4, Zenon DEF IInv, PendingApart
  <1>8. CursorOK'
    BY <1>2, Zenon DEF IInv, CursorOK, Booted
  <1>9. NoFreeBuddies'
    <2>1. \A k \in 0..(MaxOrder - 2) : k \in Orders
      BY SizeFacts DEF Orders
    <2> QED BY <1>4, <2>1, Zenon DEF IInv, NoFreeBuddies
  <1> QED BY <1>5, <1>6, <1>7, <1>8, <1>9, Zenon DEF IInv

(* What is apart from a block is apart from its two halves.                 *)
LEMMA ApartHalves ==
  ASSUME NEW x \in Nat, NEW j \in Orders, NEW a \in Nat, NEW k \in Orders,
         k + 1 \in Orders, Apart(x, j, a, k + 1)
  PROVE  Apart(x, j, a, k) /\ Apart(x, j, a + Size[k], k)
  <1>1. Size[j] \in Nat /\ Size[k] \in Nat /\ Size[k + 1] = 2 * Size[k]
    BY SizeFacts, Zenon
  <1> QED BY <1>1 DEF Apart

(* A split puts the upper half on the list below and keeps the lower one.   *)
LEMMA SplitStepIInv ==
  ASSUME IInv, SplitStep
  PROVE  IInv'
  <1> DEFINE a == op.addr
             k == op.at - 1
             b == a + Size[k]
  <1>1. /\ op \in [kind : {"merge", "split"}, addr : Nat, at : Orders, order : Orders]
        /\ op.kind = "split" /\ ~Idle /\ Aligned(a, op.at) /\ op.order < op.at
    BY DEF IInv, TypeOK, SplitStep, NoOp, Idle
  <1>2. /\ a \in Nat /\ op.at \in Orders /\ op.at # 0 /\ k \in Orders /\ k + 1 = op.at
        /\ op.order <= k
        /\ Size[k] \in Nat \ {0} /\ Size[op.at] = 2 * Size[k] /\ b \in Nat
    BY <1>1, SizeFacts DEF Orders
  <1>3. /\ UNCHANGED <<total_frames, free_frames, held, region, part, cursor, reply>>
        /\ free' = [free EXCEPT ![k] = @ \cup {b}]
        /\ op' = [op EXCEPT !.at = k]
    BY Zenon DEF SplitStep
  <1>4. Aligned(a, k) /\ Aligned(b, k) /\ (b \div Size[k]) % 2 = 1
    BY <1>1, <1>2, AlignedHalves, Zenon DEF Aligned
  <1>5. /\ op' \in [kind : {"merge", "split"}, addr : Nat, at : Orders, order : Orders]
        /\ op'.addr = a /\ op'.at = k /\ op'.order = op.order /\ ~Idle'
    BY <1>1, <1>2, <1>3, Zenon DEF Idle
  <1>6. /\ \A j \in Orders : \A x \in free'[j] : x \in free[j] \/ (x = b /\ j = k)
        /\ free' \in [Orders -> SUBSET Nat]
    BY <1>2, <1>3, Zenon DEF IInv, TypeOK
  <1>7. TypeOK'
    BY <1>2, <1>3, <1>4, <1>5, <1>6, Zenon DEF IInv, TypeOK
  <1>8. BlocksApart'
    <2>1. \A j \in Orders : \A x \in free[j] : Apart(x, j, b, k) /\ Apart(x, j, a, k)
      <3>1. \A j \in Orders : \A x \in free[j] : x \in Nat /\ Apart(x, j, a, k + 1)
        BY <1>1, <1>2 DEF IInv, TypeOK, BlocksApart
      <3> HIDE DEF a, k
      <3> QED BY <1>2, <3>1, ApartHalves, Zenon
    <2>2. \A h \in held : Apart(h.addr, h.order, b, k) /\ Apart(h.addr, h.order, a, k)
      <3>1. \A h \in held : /\ h.addr \in Nat /\ h.order \in Orders
                            /\ Apart(h.addr, h.order, a, k + 1)
        BY <1>1, <1>2, Zenon DEF IInv, TypeOK, BlocksApart, Block
      <3> HIDE DEF a, k
      <3> QED BY <1>2, <3>1, ApartHalves, Zenon
    <2>3. Apart(b, k, a, k)
      BY <1>2 DEF Apart
    <2>4. \A x, j, y, i : Apart(x, j, y, i) <=> Apart(y, i, x, j)
      BY Zenon DEF Apart
    <2> HIDE DEF a, k, b
    <2> QED BY <1>3, <1>5, <1>6, <2>1, <2>2, <2>3, <2>4 DEF IInv, BlocksApart
  <1>9. PendingApart'
    <2>1. Clear(region, part, cursor, a, k) /\ Clear(region, part, cursor, b, k)
      BY <1>1, <1>2, ClearHalves, MapTypes DEF IInv, TypeOK, PendingApart
    <2> HIDE DEF a, k, b
    <2> QED BY <1>3, <1>5, <1>6, <2>1, Zenon DEF IInv, PendingApart
  <1>10. CursorOK'
    BY <1>3, Zenon DEF IInv, CursorOK, Booted
  <1>11. NoFreeBuddies'
    <2>1. Buddy(b, k) = a /\ b # a
      BY <1>2, <1>4 DEF Buddy
    <2>2. a \notin free[k]
      BY <1>1, <1>2 DEF IInv, BlocksApart, Apart
    <2>3. \A x \in free[k] : Buddy(x, k) # b
      BY <1>2, <2>1, <2>2, BuddyFacts DEF IInv, TypeOK
    <2>4. \A j \in 0..(MaxOrder - 2) : j \in Orders
      BY SizeFacts DEF Orders
    <2>5. \A j \in Orders : j # k => free'[j] = free[j]
      BY <1>2, <1>3, Zenon DEF IInv, TypeOK
    <2>6. free'[k] = free[k] \cup {b}
      BY <1>2, <1>3, Zenon DEF IInv, TypeOK
    <2> HIDE DEF a, k, b
    <2>7. Buddy(b, k) # b
      BY <2>1, Zenon
    <2> QED BY <2>1, <2>2, <2>3, <2>4, <2>5, <2>6, <2>7 DEF IInv, NoFreeBuddies
  <1> QED BY <1>7, <1>8, <1>9, <1>10, <1>11, Zenon DEF IInv

(* The end of allocate hands the block to the caller.                       *)
LEMMA AllocDoneIInv ==
  ASSUME IInv, AllocDone
  PROVE  IInv'
  <1> DEFINE b == [addr |-> op.addr, order |-> op.order]
  <1>1. /\ op \in [kind : {"merge", "split"}, addr : Nat, at : Orders, order : Orders]
        /\ ~Idle /\ Aligned(op.addr, op.at) /\ op.order = op.at
    BY DEF IInv, TypeOK, AllocDone, NoOp, Idle
  <1>2. /\ UNCHANGED <<free, total_frames, region, part, cursor>>
        /\ held' = held \cup {b} /\ op' = NoOp /\ Idle' /\ reply' = "ok"
        /\ free_frames' = free_frames - Frames(op.order)
    BY Zenon DEF AllocDone, NoOp, Idle
  <1>3. b \in Block /\ b.addr = op.addr /\ b.order = op.at
    BY <1>1, Zenon DEF Block
  <1>4. free_frames' \in Int
    BY <1>1, <1>2, SizeFacts, DivMod DEF IInv, TypeOK, Frames
  <1> HIDE DEF b
  <1>5. TypeOK'
    BY <1>1, <1>2, <1>3, <1>4, Zenon DEF IInv, TypeOK
  <1>6. BlocksApart'
    <2>1. \A x, j, y, i : Apart(x, j, y, i) <=> Apart(y, i, x, j)
      BY DEF Apart
    <2> QED BY <1>1, <1>2, <1>3, <2>1 DEF IInv, BlocksApart
  <1>7. PendingApart'
    BY <1>1, <1>2, <1>3, Zenon DEF IInv, PendingApart
  <1> QED BY <1>2, <1>5, <1>6, <1>7, Zenon DEF IInv, CursorOK, Booted, NoFreeBuddies

(* deallocate takes the block back from the caller.                         *)
LEMMA DeallocBeginIInv ==
  ASSUME IInv, NEW b \in held, DeallocBegin(b)
  PROVE  IInv'
  <1>1. /\ UNCHANGED <<free, total_frames, free_frames, region, part, cursor>>
        /\ held' = held \ {b} /\ reply' = "none" /\ Idle
        /\ op' = [kind |-> "merge", addr |-> b.addr, at |-> b.order, order |-> b.order]
        /\ ~Idle'
    BY Zenon DEF DeallocBegin, Merging, Idle
  <1>2. b.addr \in Nat /\ b.order \in Orders /\ Aligned(b.addr, b.order)
    BY Zenon DEF IInv, TypeOK, Block
  <1>3. TypeOK'
    BY <1>1, <1>2 DEF IInv, TypeOK, Orders
  <1>4. BlocksApart'
    BY <1>1, Zenon DEF IInv, BlocksApart
  <1>5. PendingApart'
    BY <1>1, Zenon DEF IInv, PendingApart
  <1> QED BY <1>1, <1>3, <1>4, <1>5, Zenon DEF IInv, CursorOK, Booted, NoFreeBuddies

(* A merge takes the free buddy off its list; the joined block covers the   *)
(* two and is aligned to its new size.                                      *)
LEMMA MergeStepIInv ==
  ASSUME IInv, MergeStep
  PROVE  IInv'
  <1> DEFINE a == op.addr
             k == op.at
             b == Buddy(a, k)
             m == MinOf(a, b)
  <1>1. /\ op \in [kind : {"merge", "split"}, addr : Nat, at : Orders, order : Orders]
        /\ ~Idle /\ Aligned(a, k) /\ op.order <= k
    BY DEF IInv, TypeOK, MergeStep, NoOp, Idle
  <1>2. /\ a \in Nat /\ k \in Orders /\ k + 1 \in Orders /\ op.order <= k + 1
        /\ b \in free[k] /\ b \in Nat
        /\ Size[k] \in Nat \ {0} /\ Size[k + 1] = 2 * Size[k]
    <2>1. a \in Nat /\ k \in Orders /\ op.order \in Orders
      BY <1>1, Zenon
    <2>2. k < MaxOrder - 1 /\ b \in free[k]
      BY Zenon DEF MergeStep, CanMerge
    <2>3. k + 1 \in Orders /\ op.order <= k + 1
      BY <1>1, <2>1, <2>2, SizeFacts DEF Orders
    <2>4. b \in Nat
      BY <2>1, <2>2, Zenon DEF IInv, TypeOK
    <2> QED BY <2>1, <2>2, <2>3, <2>4, SizeFacts, Zenon
  <1>3. /\ UNCHANGED <<total_frames, free_frames, held, region, part, cursor, reply>>
        /\ free' = [free EXCEPT ![k] = @ \ {b}]
        /\ op' = [op EXCEPT !.addr = m, !.at = k + 1]
    BY Zenon DEF MergeStep
  <1>4. /\ b = a + Size[k] \/ b = a - Size[k]
        /\ m % Size[k + 1] = 0
    BY <1>1, <1>2, BuddyFacts, Zenon
  <1>5. /\ m \in Nat
        /\ (m = a /\ b = m + Size[k]) \/ (m = b /\ a = m + Size[k])
    BY <1>2, <1>4 DEF MinOf
  <1> HIDE DEF a, k, b, m
  <1>6. /\ op' \in [kind : {"merge", "split"}, addr : Nat, at : Orders, order : Orders]
        /\ op'.addr = m /\ op'.at = k + 1 /\ op'.order = op.order /\ ~Idle'
    BY <1>1, <1>2, <1>3, <1>5, Zenon DEF Idle
  <1>7. /\ \A j \in Orders : free'[j] \subseteq free[j]
        /\ b \notin free'[k]
        /\ free' \in [Orders -> SUBSET Nat]
    BY <1>2, <1>3, Zenon DEF IInv, TypeOK
  <1>8. TypeOK'
    BY <1>2, <1>3, <1>4, <1>6, <1>7, Zenon DEF IInv, TypeOK, Aligned
  <1>9. BlocksApart'
    <2>1. \A j \in Orders : \A x \in free'[j] : Apart(x, j, a, k) /\ Apart(x, j, b, k)
      BY <1>1, <1>2, <1>7, Zenon DEF IInv, BlocksApart, a, k
    <2>2. \A h \in held : Apart(h.addr, h.order, a, k) /\ Apart(h.addr, h.order, b, k)
      <3>1. \A x, j, y, i : Apart(x, j, y, i) <=> Apart(y, i, x, j)
        BY Zenon DEF Apart
      <3> QED BY <1>1, <1>2, <3>1, Zenon DEF IInv, BlocksApart, a, k
    <2>3. \A j \in Orders : \A x \in Nat :
            Apart(x, j, a, k) /\ Apart(x, j, b, k) => Apart(x, j, m, k + 1)
      BY <1>2, <1>5, SizeFacts DEF Apart
    <2>4. \A j \in Orders : \A x \in free'[j] : Apart(x, j, m, k + 1)
      BY <1>7, <2>1, <2>3, Zenon
    <2>5. \A h \in held : Apart(h.addr, h.order, m, k + 1)
      BY <2>2, <2>3, Zenon DEF IInv, TypeOK, Block
    <2> QED BY <1>3, <1>6, <1>7, <2>4, <2>5, Zenon DEF IInv, BlocksApart
  <1>10. PendingApart'
    <2>1. Clear(region, part, cursor, a, k) /\ Clear(region, part, cursor, b, k)
      BY <1>1, <1>2, Zenon DEF IInv, PendingApart, a, k
    <2>2. region \in Nat /\ part \in {1, 2} /\ cursor \in Nat
      BY MapTypes DEF IInv, TypeOK
    <2>3. Clear(region, part, cursor, m, k + 1)
      BY <1>2, <1>5, <2>1, <2>2, ClearJoin, Zenon
    <2> QED BY <1>3, <1>6, <1>7, <2>3, Zenon DEF IInv, PendingApart
  <1>11. NoFreeBuddies'
    <2>1. \A j \in 0..(MaxOrder - 2) : j \in Orders
      BY SizeFacts DEF Orders
    <2> QED BY <1>7, <2>1, Zenon DEF IInv, NoFreeBuddies
  <1> QED BY <1>3, <1>8, <1>9, <1>10, <1>11, Zenon DEF IInv, CursorOK, Booted

(* The end of deallocate_internal: the block goes on a list without buddy.  *)
LEMMA MergeDoneIInv ==
  ASSUME IInv, MergeDone
  PROVE  IInv'
  <1> DEFINE a == op.addr
             k == op.at
  <1>1. /\ op \in [kind : {"merge", "split"}, addr : Nat, at : Orders, order : Orders]
        /\ ~Idle /\ Aligned(a, k) /\ a \in Nat /\ k \in Orders
    BY DEF IInv, TypeOK, MergeDone, NoOp, Idle
  <1>2. /\ UNCHANGED <<total_frames, held, region, part, cursor, reply>>
        /\ free' = [free EXCEPT ![k] = @ \cup {a}]
        /\ op' = NoOp /\ Idle' /\ ~CanMerge
        /\ free_frames' = free_frames + Frames(op.order)
    BY Zenon DEF MergeDone, NoOp, Idle
  <1>3. free_frames' \in Int
    BY <1>1, <1>2, SizeFacts, DivMod DEF IInv, TypeOK, Frames
  <1>4. /\ \A j \in Orders : j # k => free'[j] = free[j]
        /\ free'[k] = free[k] \cup {a}
        /\ free' \in [Orders -> SUBSET Nat]
    BY <1>1, <1>2, Zenon DEF IInv, TypeOK
  <1>5. TypeOK'
    BY <1>1, <1>2, <1>3, <1>4, Zenon DEF IInv, TypeOK
  <1>6. BlocksApart'
    <2>1. \A x, j, y, i : Apart(x, j, y, i) <=> Apart(y, i, x, j)
      BY DEF Apart
    <2> QED BY SMTT(30), <1>1, <1>2, <1>4, <2>1 DEF IInv, BlocksApart
  <1>7. PendingApart'
    BY <1>1, <1>2, <1>4, Zenon DEF IInv, PendingApart
  <1>8. NoFreeBuddies'
    <2>1. \A j \in 0..(MaxOrder - 2) : j \in Orders /\ j < MaxOrder - 1
      BY SizeFacts DEF Orders
    <2>2. k \in 0..(MaxOrder - 2) => Buddy(a, k) \notin free[k]
      BY <1>2, <2>1, Zenon DEF CanMerge
    <2>3. Buddy(a, k) # a
      BY <1>1, SizeFacts, BuddyFacts
    <2>4. k \in 0..(MaxOrder - 2) => \A x \in free[k] : Buddy(x, k) # a
      BY <1>1, <2>2, BuddyFacts DEF IInv, TypeOK
    <2> HIDE DEF a, k
    <2> QED BY <1>4, <2>1, <2>2, <2>3, <2>4 DEF IInv, NoFreeBuddies
  <1> QED BY <1>2, <1>5, <1>6, <1>7, <1>8, Zenon DEF IInv, CursorOK, Booted

-----------------------------------------------------------------------------
(* A chunk taken at the cursor touches no block and no other sub-range.     *)
LEMMA AddChunkIInv ==
  ASSUME IInv, AddChunk
  PROVE  IInv'
  <1> DEFINE hi == RangeEnd(region, part)
  <1>1. PICK k \in Orders :
          /\ IsBestOrder(cursor, hi, k)
          /\ op' = Merging(cursor, k, k)
          /\ total_frames' = total_frames + Frames(k)
          /\ cursor' = cursor + Size[k]
    BY Zenon DEF AddChunk
  <1>2. /\ Idle /\ MemoryMap[region].usable /\ Size[0] <= hi - cursor
        /\ UNCHANGED <<free, free_frames, held, region, part, reply>>
        /\ region \in DOMAIN MemoryMap /\ part \in {1, 2} /\ cursor \in Nat
        /\ cursor % Size[0] = 0 /\ RangeStart(region, part) <= cursor /\ ~Booted'
    BY MapTypes DEF AddChunk, RangeLeft, Booted, IInv, TypeOK, CursorOK
  <1>3. hi \in Nat /\ Size[k] \in Nat \ {0} /\ Size[0] \in Nat \ {0} /\ region \in Nat
    BY <1>2, RangeTypes, SizeFacts, MapTypes
  <1>4. Size[k] <= hi - cursor /\ Aligned(cursor, k)
    BY <1>1, <1>2, Zenon DEF IsBestOrder, Fits, Aligned
  <1>5. /\ op' = [kind |-> "merge", addr |-> cursor, at |-> k, order |-> k]
        /\ ~Idle' /\ cursor' \in Nat /\ cursor < cursor' /\ cursor' <= hi
    BY <1>1, <1>2, <1>3, <1>4 DEF Merging, Idle
  <1>6. TypeOK'
    <2>1. total_frames' \in Nat
      <3>1. Size[k] \div Size[0] \in Nat
        BY <1>3, DivMod, Zenon
      <3> QED BY <1>1, <3>1 DEF Frames, IInv, TypeOK
    <2> QED BY <1>2, <1>4, <1>5, <2>1 DEF IInv, TypeOK, Orders
  <1>7. Pending(region, part, cursor, region, part)
    BY <1>2, <1>3 DEF Pending, Lo
  <1>8. BlocksApart'
    <2>1. \A j \in Orders : \A x \in Nat :
            Clear(region, part, cursor, x, j) => Apart(x, j, cursor, k)
      BY <1>2, <1>3, <1>4, <1>7, SizeFacts DEF Clear, Lo, Apart
    <2>2. \A j \in Orders : \A x \in free[j] : Apart(x, j, cursor, k)
      BY <2>1, Zenon DEF IInv, PendingApart, TypeOK
    <2>3. \A h \in held : Apart(h.addr, h.order, cursor, k)
      BY <2>1, Zenon DEF IInv, PendingApart, TypeOK, Block
    <2> QED BY <1>2, <1>5, <2>2, <2>3, Zenon DEF IInv, BlocksApart
  <1>9. PendingApart'
    <2>1. \A r \in DOMAIN MemoryMap : \A p \in {1, 2} :
            Pending(region, part, cursor', r, p) =>
              /\ Pending(region, part, cursor, r, p)
              /\ Lo(region, part, cursor, r, p) <= Lo(region, part, cursor', r, p)
              /\ Lo(region, part, cursor', r, p) \in Nat
              /\ Lo(region, part, cursor, r, p) \in Nat
              /\ RangeEnd(r, p) \in Nat
      BY <1>2, <1>3, <1>5, RangeTypes DEF Pending, Lo
    <2>2. \A j \in Orders : \A x \in Nat :
            Clear(region, part, cursor, x, j) => Clear(region, part, cursor', x, j)
      BY <2>1, SizeFacts DEF Clear
    <2>3. Clear(region, part, cursor', cursor, k)
      <3> SUFFICES ASSUME NEW r \in DOMAIN MemoryMap, NEW p \in {1, 2},
                          Pending(region, part, cursor', r, p)
                   PROVE  \/ cursor + Size[k] <= Lo(region, part, cursor', r, p)
                          \/ RangeEnd(r, p) <= cursor
        BY Zenon DEF Clear
      <3>1. CASE r = region /\ p = part
        BY <1>1, <1>2, <1>3, <3>1 DEF Lo
      <3>2. CASE ~(r = region /\ p = part)
        <4>1. Lo(region, part, cursor', r, p) = RangeStart(r, p) /\ MemoryMap[r].usable
          BY <3>2, Zenon DEF Lo, Pending
        <4>2. hi <= RangeStart(r, p) \/ RangeEnd(r, p) <= RangeStart(region, part)
          BY <1>2, <3>2, <4>1, RangesApart, Zenon
        <4>3. /\ RangeStart(r, p) \in Nat /\ RangeEnd(r, p) \in Nat
              /\ RangeStart(region, part) \in Nat
          BY <1>2, RangeTypes, Zenon
        <4> HIDE DEF hi
        <4> QED BY <1>2, <1>3, <1>4, <4>1, <4>2, <4>3
      <3> QED BY <3>1, <3>2, Zenon
    <2>4. \A j \in Orders : \A x \in free[j] : Clear(region, part, cursor', x, j)
      BY <2>2, Zenon DEF IInv, PendingApart, TypeOK
    <2>5. \A h \in held : Clear(region, part, cursor', h.addr, h.order)
      BY <2>2, Zenon DEF IInv, PendingApart, TypeOK, Block
    <2> QED BY <1>2, <1>5, <2>3, <2>4, <2>5, Zenon DEF PendingApart
  <1>10. CursorOK'
    <2>1. cursor' % Size[0] = 0
      <3>1. Size[k] % Size[0] = 0
        BY BuddyAssumption, Zenon
      <3> QED BY <1>1, <1>2, <1>3, <3>1, AlignedSum, Zenon
    <2> QED BY <1>2, <1>3, <1>5, <2>1, RangeTypes DEF CursorOK
  <1> QED BY <1>2, <1>6, <1>8, <1>9, <1>10, Zenon DEF IInv, NoFreeBuddies

(* The next sub-range: what is left to be added is a part of what was.      *)
LEMMA NextRangeIInv ==
  ASSUME IInv, NextRange
  PROVE  IInv'
  <1>1. /\ Idle /\ region \in DOMAIN MemoryMap /\ region \in Nat /\ part \in {1, 2}
        /\ UNCHANGED <<free, total_frames, free_frames, held, op, reply>> /\ Idle'
    BY MapTypes DEF NextRange, Booted, IInv, TypeOK, Idle
  <1>2. /\ \/ part = 1 /\ part' = 2 /\ region' = region
           \/ part = 2 /\ part' = 1 /\ region' = region + 1
        /\ region' \in 1..(Len(MemoryMap) + 1) /\ part' \in {1, 2} /\ region' \in Nat
    BY <1>1, MapTypes DEF NextRange
  <1>3. /\ region' \notin DOMAIN MemoryMap => cursor' = 0 /\ region' = Len(MemoryMap) + 1
        /\ region' \in DOMAIN MemoryMap => cursor' = RangeStart(region', part')
    BY <1>2, MapTypes DEF NextRange
  <1>4. cursor' \in Nat /\ CursorOK'
    BY <1>2, <1>3, RangeTypes, MapTypes DEF CursorOK, Booted
  <1>5. TypeOK'
    BY <1>1, <1>2, <1>4, Zenon DEF IInv, TypeOK
  <1>6. \A r \in DOMAIN MemoryMap : \A p \in {1, 2} :
          Pending(region', part', cursor', r, p) =>
            /\ Pending(region, part, cursor, r, p)
            /\ Lo(region, part, cursor, r, p) = Lo(region', part', cursor', r, p)
    BY <1>1, <1>2, <1>3, MapTypes DEF Pending, Lo
  <1>7. \A j, x : Clear(region, part, cursor, x, j) => Clear(region', part', cursor', x, j)
    BY <1>6, Zenon DEF Clear
  <1>8. PendingApart'
    BY <1>1, <1>7, Zenon DEF IInv, PendingApart
  <1> QED BY <1>1, <1>4, <1>5, <1>8, Zenon DEF IInv, BlocksApart, NoFreeBuddies

(* Every step keeps the invariant.                                          *)
LEMMA NextIInv == IInv /\ [Next]_vars => IInv'
  <1> SUFFICES ASSUME IInv, [Next]_vars PROVE IInv'
    BY Zenon
  <1>1. CASE AddChunk
    BY <1>1, AddChunkIInv, Zenon
  <1>2. CASE NextRange
    BY <1>2, NextRangeIInv
  <1>3. ASSUME NEW order \in Orders, AllocBegin(order) PROVE IInv'
    BY <1>3, AllocBeginIInv, Zenon
  <1>4. CASE AllocInvalid \/ \E order \in Orders : AllocFail(order)
    <2>1. /\ UNCHANGED <<free, total_frames, free_frames, held, op, region, part, cursor>>
          /\ reply' \in {"oom", "invalid"}
      BY <1>4, Zenon DEF AllocInvalid, AllocFail
    <2> QED BY <2>1, Zenon DEF IInv, TypeOK, BlocksApart, PendingApart, CursorOK, Booted,
               NoFreeBuddies, Idle
  <1>5. CASE SplitStep
    BY <1>5, SplitStepIInv
  <1>6. CASE AllocDone
    BY <1>6, AllocDoneIInv
  <1>7. ASSUME NEW b \in held, DeallocBegin(b) PROVE IInv'
    BY <1>7, DeallocBeginIInv, Zenon
  <1>8. CASE MergeStep
    BY <1>8, MergeStepIInv
  <1>9. CASE MergeDone
    BY <1>9, MergeDoneIInv
  <1>10. CASE UNCHANGED vars
    BY <1>10, Zenon DEF vars, IInv, TypeOK, BlocksApart, PendingApart, CursorOK, Booted,
       NoFreeBuddies, Idle
  <1> QED BY <1>1, <1>2, <1>3, <1>4, <1>5, <1>6, <1>7, <1>8, <1>9, <1>10, Zenon DEF Next

(* The strengthened invariant holds in every reachable state.               *)
LEMMA SpecIInv == Spec => []IInv
  BY InitIInv, NextIInv, PTL DEF Spec

(* Every free, held and worked-on block is aligned to its size, for any     *)
(* memory map and number of orders.                                         *)
THEOREM BuddyTypeCorrect == Spec => []TypeOK
  BY SpecIInv, PTL DEF IInv

(* No address is ever in two blocks: allocate never hands out memory that   *)
(* is free elsewhere or held by another caller.                             *)
THEOREM NoDoubleAllocation == Spec => []BlocksApart
  BY SpecIInv, PTL DEF IInv

(* Coalescing is complete: no two free buddies ever stay apart.             *)
THEOREM EagerCoalescing == Spec => []NoFreeBuddies
  BY SpecIInv, PTL DEF IInv

-----------------------------------------------------------------------------
(* What the blocks amount to.  Everything rests on what each step does to   *)
(* the available memory, the addresses on the free lists or in the hands of *)
(* an operation: boot adds to it, the end of allocate takes from it, the    *)
(* start of deallocate gives to it, and no other step changes it.           *)

(* The addresses of the blocks on the lists f.                              *)
Covered(f) == UNION {UNION {Span(a, k) : a \in f[k]} : k \in Orders}

(* The memory the allocator can still give out.                             *)
Avail == FreeAddrs \cup HandAddrs

(* An address is covered when a block of some list contains it.             *)
LEMMA InCovered ==
  ASSUME NEW f, NEW x
  PROVE  x \in Covered(f) <=> \E k \in Orders : \E a \in f[k] : x \in Span(a, k)
  <1> DEFINE U(k) == UNION {Span(a, k) : a \in f[k]}
  <1>1. \A k : x \in U(k) <=> \E a \in f[k] : x \in Span(a, k)
    BY Zenon
  <1>2. Covered(f) = UNION {U(k) : k \in Orders}
    BY Zenon DEF Covered
  <1> HIDE DEF U
  <1>3. x \in Covered(f) <=> \E k \in Orders : x \in U(k)
    BY <1>2, Zenon
  <1> QED BY <1>1, <1>3, Zenon

(* Putting a block on a list covers its addresses.                          *)
LEMMA CoveredPut ==
  ASSUME NEW f \in [Orders -> SUBSET Nat], NEW k \in Orders, NEW a
  PROVE  Covered([f EXCEPT ![k] = @ \cup {a}]) = Covered(f) \cup Span(a, k)
  <1> DEFINE g == [f EXCEPT ![k] = @ \cup {a}]
  <1>1. \A j \in Orders : \A b : b \in g[j] <=> b \in f[j] \/ (j = k /\ b = a)
    BY Zenon
  <1> HIDE DEF g
  <1>2. \A x : x \in Covered(g) <=> x \in Covered(f) \/ x \in Span(a, k)
    BY <1>1, InCovered, Zenon
  <1> QED BY <1>2, Zenon DEF g

(* A block taken off its list takes no more than its own addresses along.   *)
LEMMA CoveredTake ==
  ASSUME NEW f \in [Orders -> SUBSET Nat], NEW k \in Orders, NEW a \in f[k]
  PROVE  Covered([f EXCEPT ![k] = @ \ {a}]) \cup Span(a, k) = Covered(f)
  <1> DEFINE g == [f EXCEPT ![k] = @ \ {a}]
  <1>1. \A j \in Orders : \A b : b \in f[j] <=> b \in g[j] \/ (j = k /\ b = a)
    BY Zenon
  <1> HIDE DEF g
  <1>2. \A x : x \in Covered(f) <=> x \in Covered(g) \/ x \in Span(a, k)
    BY <1>1, InCovered, Zenon
  <1> QED BY <1>2, Zenon DEF g

(* A block is the union of its halves.                                      *)
LEMMA SpanHalves ==
  ASSUME NEW k \in Orders, k + 1 \in Orders, NEW a \in Nat
  PROVE  Span(a, k + 1) = Span(a, k) \cup Span(a + Size[k], k)
  <1>1. Size[k] \in Nat /\ Size[k + 1] = 2 * Size[k]
    BY SizeFacts, Zenon
  <1> QED BY <1>1 DEF Span

(* Avail in terms of the lists and the block at work.                       *)
LEMMA AvailIs ==
  /\ FreeAddrs = Covered(free)
  /\ Idle => Avail = Covered(free)
  /\ ~Idle => Avail = Covered(free) \cup Span(op.addr, op.at)
  BY Zenon DEF Avail, FreeAddrs, HandAddrs, Covered

(* The same in the next state.                                              *)
LEMMA AvailIsNext ==
  /\ FreeAddrs' = Covered(free')
  /\ Idle' => Avail' = Covered(free')
  /\ ~Idle' => Avail' = Covered(free') \cup Span(op'.addr, op'.at)
  BY Zenon DEF Avail, FreeAddrs, HandAddrs, Covered, Idle, Span

(* Blocks that are apart have no address in common.                         *)
LEMMA ApartSpans ==
  ASSUME NEW a \in Nat, NEW j \in Orders, NEW b \in Nat, NEW k \in Orders,
         Apart(a, j, b, k)
  PROVE  Span(a, j) \cap Span(b, k) = {}
  <1>1. Size[j] \in Nat /\ Size[k] \in Nat
    BY SizeFacts, Zenon
  <1> QED BY <1>1 DEF Span, Apart

(* A block apart from all those on the lists shares no address with them.   *)
LEMMA ApartCovered ==
  ASSUME NEW f \in [Orders -> SUBSET Nat], NEW b \in Nat, NEW k \in Orders,
         \A j \in Orders : \A a \in f[j] : Apart(a, j, b, k)
  PROVE  Covered(f) \cap Span(b, k) = {}
  <1> SUFFICES ASSUME NEW x \in Covered(f), x \in Span(b, k) PROVE FALSE
    BY Zenon
  <1>1. PICK j \in Orders : \E a \in f[j] : x \in Span(a, j)
    BY InCovered, Zenon
  <1>2. PICK a \in f[j] : x \in Span(a, j)
    BY <1>1, Zenon
  <1>3. a \in Nat
    BY Zenon
  <1> QED BY <1>2, <1>3, ApartSpans, Zenon

(* The addresses of a set of blocks.                                        *)
Taken(hs) == UNION {Span(h.addr, h.order) : h \in hs}

(* A block apart from all those of a set shares no address with them.       *)
LEMMA ApartTaken ==
  ASSUME NEW hs \in SUBSET Block, NEW b \in Nat, NEW k \in Orders,
         \A h \in hs : Apart(h.addr, h.order, b, k)
  PROVE  Taken(hs) \cap Span(b, k) = {}
  <1> SUFFICES ASSUME NEW x \in Taken(hs), x \in Span(b, k) PROVE FALSE
    BY Zenon
  <1>1. PICK h \in hs : x \in Span(h.addr, h.order)
    BY Zenon DEF Taken
  <1>2. h.addr \in Nat /\ h.order \in Orders
    BY Zenon DEF Block
  <1> QED BY <1>1, <1>2, ApartSpans, Zenon

(* HeldAddrs in terms of the blocks held, before and after a step.          *)
LEMMA HeldIs == HeldAddrs = Taken(held) /\ HeldAddrs' = Taken(held')
  BY Zenon DEF HeldAddrs, Taken, Span

(* The steps inside an operation leave the available memory as it is:       *)
(* between its lists and its hands, the allocator loses nothing.            *)
LEMMA AvailKept ==
  ASSUME IInv,
         \/ NextRange \/ SplitStep \/ MergeStep \/ MergeDone \/ AllocInvalid
         \/ \E order \in Orders : AllocBegin(order) \/ AllocFail(order)
  PROVE  Avail' = Avail /\ held' = held
  <1>1. free \in [Orders -> SUBSET Nat]
    BY Zenon DEF IInv, TypeOK
  <1>2. ASSUME NEW order \in Orders, AllocBegin(order) PROVE Avail' = Avail /\ held' = held
    <2>1. PICK c \in Orders : \E a \in free[c] : /\ free' = [free EXCEPT ![c] = @ \ {a}]
                                               /\ op' = Splitting(a, c, order)
      BY <1>2, Zenon DEF AllocBegin
    <2>2. PICK a \in free[c] : /\ free' = [free EXCEPT ![c] = @ \ {a}]
                               /\ op' = Splitting(a, c, order)
      BY <2>1, Zenon
    <2>3. Idle /\ ~Idle' /\ op'.addr = a /\ op'.at = c /\ held' = held
      BY <1>2, <2>2, Zenon DEF AllocBegin, Idle, Splitting
    <2>4. Covered(free') \cup Span(a, c) = Covered(free)
      BY <1>1, <2>2, CoveredTake, Zenon
    <2> QED BY <2>3, <2>4, AvailIs, AvailIsNext, Zenon
  <1>3. CASE SplitStep
    <2> DEFINE a == op.addr
               k == op.at - 1
    <2>1. op \in [kind : {"merge", "split"}, addr : Nat, at : Orders, order : Orders]
          /\ ~Idle /\ op.order < op.at
      BY <1>3 DEF IInv, TypeOK, SplitStep, NoOp, Idle
    <2>2. a \in Nat /\ k \in Orders /\ k + 1 \in Orders /\ k + 1 = op.at
      BY <2>1, SizeFacts DEF Orders
    <2>3. /\ free' = [free EXCEPT ![k] = @ \cup {a + Size[k]}] /\ held' = held
          /\ op'.addr = a /\ op'.at = k /\ ~Idle'
      BY <1>3, <2>1, Zenon DEF SplitStep, Idle
    <2> HIDE DEF a, k
    <2>4. Covered(free') = Covered(free) \cup Span(a + Size[k], k)
      <3>1. Covered([free EXCEPT ![k] = @ \cup {a + Size[k]}]) = Covered(free) \cup Span(a + Size[k], k)
        BY <1>1, <2>2, CoveredPut, Zenon
      <3> QED BY <2>3, <3>1, Zenon
    <2>5. Span(a, k + 1) = Span(a, k) \cup Span(a + Size[k], k)
      BY <2>2, SpanHalves, Zenon
    <2>6. Avail = Covered(free) \cup Span(a, k + 1)
      BY <2>1, <2>2, AvailIs, Zenon DEF a
    <2>7. Avail' = Covered(free') \cup Span(a, k)
      BY <2>3, AvailIsNext, Zenon
    <2> QED BY <2>3, <2>4, <2>5, <2>6, <2>7, Zenon
  <1>4. CASE MergeStep
    <2> DEFINE a == op.addr
               k == op.at
               b == Buddy(a, k)
               m == MinOf(a, b)
    <2>1. op \in [kind : {"merge", "split"}, addr : Nat, at : Orders, order : Orders]
          /\ ~Idle /\ Aligned(a, k) /\ k < MaxOrder - 1 /\ b \in free[k]
      BY <1>4 DEF IInv, TypeOK, MergeStep, NoOp, Idle, CanMerge
    <2>2. a \in Nat /\ k \in Orders /\ k + 1 \in Orders
      BY <2>1, SizeFacts DEF Orders
    <2>3. /\ free' = [free EXCEPT ![k] = @ \ {b}] /\ held' = held
          /\ op'.addr = m /\ op'.at = k + 1 /\ ~Idle'
      BY <1>4, <2>1, Zenon DEF MergeStep, Idle
    <2>4. b = a + Size[k] \/ b = a - Size[k]
      BY <2>1, <2>2, BuddyFacts, Zenon
    <2>5. b \in Nat /\ Size[k] \in Nat
      BY <1>1, <2>1, <2>2, SizeFacts, Zenon
    <2>6. m \in Nat /\ ((m = a /\ b = m + Size[k]) \/ (m = b /\ a = m + Size[k]))
      BY <2>2, <2>4, <2>5 DEF MinOf
    <2>7. Avail = Covered(free) \cup Span(a, k)
      BY <2>1, AvailIs, Zenon
    <2> HIDE DEF a, k, b, m
    <2>8. Covered(free') \cup Span(b, k) = Covered(free)
      BY <1>1, <2>1, <2>2, <2>3, CoveredTake, Zenon
    <2>9. Span(m, k + 1) = Span(a, k) \cup Span(b, k)
      BY <2>2, <2>6, SpanHalves, Zenon
    <2>10. Avail' = Covered(free') \cup Span(m, k + 1)
      BY <2>3, AvailIsNext, Zenon
    <2> QED BY <2>3, <2>7, <2>8, <2>9, <2>10, Zenon
  <1>5. CASE MergeDone
    <2>1. op.at \in Orders /\ ~Idle
      BY <1>5 DEF IInv, TypeOK, MergeDone, NoOp, Idle
    <2>2. /\ free' = [free EXCEPT ![op.at] = @ \cup {op.addr}] /\ held' = held
          /\ Idle'
      BY <1>5, Zenon DEF MergeDone, Idle, NoOp
    <2>3. Covered(free') = Covered(free) \cup Span(op.addr, op.at)
      BY <1>1, <2>1, <2>2, CoveredPut, Zenon
    <2> QED BY <2>1, <2>2, <2>3, AvailIs, AvailIsNext, Zenon
  <1>6. CASE NextRange \/ AllocInvalid \/ \E order \in Orders : AllocFail(order)
    <2>1. UNCHANGED <<free, op, held>>
      BY <1>6, Zenon DEF NextRange, AllocInvalid, AllocFail
    <2> QED BY <2>1 DEF Avail, FreeAddrs, HandAddrs, Idle
  <1> QED BY <1>2, <1>3, <1>4, <1>5, <1>6, Zenon

(* A chunk of boot memory was neither available nor held.                   *)
LEMMA AddEffect ==
  ASSUME IInv, NEW k \in Orders, AddChunk, op' = Merging(cursor, k, k)
  PROVE  /\ Avail' = Avail \cup Span(cursor, k) /\ held' = held
         /\ Span(cursor, k) \cap (Avail \cup HeldAddrs) = {}
  <1>1. Idle /\ free' = free /\ held' = held
    BY Zenon DEF AddChunk
  <1>2. ~Idle' /\ op'.addr = cursor /\ op'.at = k
    BY Zenon DEF Merging, Idle
  <1>3. IInv'
    BY AddChunkIInv, Zenon
  <1>4. /\ \A j \in Orders : \A a \in free[j] : Apart(a, j, cursor, k)
        /\ \A h \in held : Apart(h.addr, h.order, cursor, k)
    BY <1>1, <1>2, <1>3, Zenon DEF IInv, BlocksApart
  <1>5. free \in [Orders -> SUBSET Nat] /\ held \in SUBSET Block /\ cursor \in Nat
    BY Zenon DEF IInv, TypeOK
  <1>6. Avail = Covered(free) /\ Avail' = Covered(free) \cup Span(cursor, k)
    BY <1>1, <1>2, AvailIs, AvailIsNext, Zenon
  <1>7. Covered(free) \cap Span(cursor, k) = {}
    BY ONLY <1>4, <1>5, ApartCovered, k \in Orders, Zenon
  <1>8. Taken(held) \cap Span(cursor, k) = {}
    BY ONLY <1>4, <1>5, ApartTaken, k \in Orders, Zenon
  <1> QED BY <1>1, <1>6, <1>7, <1>8, HeldIs, Zenon

(* allocate hands over a block that was available, and nothing else.        *)
LEMMA ServeEffect ==
  ASSUME IInv, AllocDone
  PROVE  /\ op.kind = "split"
         /\ op.addr \in Nat /\ op.order \in Orders /\ Aligned(op.addr, op.order)
         /\ held' = held \cup {[addr |-> op.addr, order |-> op.order]}
         /\ Avail = Avail' \cup Span(op.addr, op.order)
         /\ Avail' \cap Span(op.addr, op.order) = {}
         /\ HeldAddrs' = HeldAddrs \cup Span(op.addr, op.order)
         /\ HeldAddrs \cap Span(op.addr, op.order) = {}
  <1> DEFINE b == [addr |-> op.addr, order |-> op.order]
  <1>1. /\ op \in [kind : {"merge", "split"}, addr : Nat, at : Orders, order : Orders]
        /\ op.kind = "split"
        /\ ~Idle /\ Aligned(op.addr, op.at) /\ op.order = op.at
    BY DEF IInv, TypeOK, AllocDone, NoOp, Idle
  <1>2. held' = held \cup {b} /\ free' = free /\ Idle'
    BY Zenon DEF AllocDone, Idle, NoOp
  <1>3. free \in [Orders -> SUBSET Nat] /\ held \in SUBSET Block
    BY Zenon DEF IInv, TypeOK
  <1>4. /\ \A j \in Orders : \A a \in free[j] : Apart(a, j, op.addr, op.order)
        /\ \A h \in held : Apart(h.addr, h.order, op.addr, op.order)
    BY <1>1, Zenon DEF IInv, BlocksApart
  <1>5. Covered(free) \cap Span(op.addr, op.order) = {}
    BY <1>1, <1>3, <1>4, ApartCovered, Zenon
  <1>6. Taken(held) \cap Span(op.addr, op.order) = {}
    BY <1>1, <1>3, <1>4, ApartTaken, Zenon
  <1>7. Avail = Covered(free) \cup Span(op.addr, op.order) /\ Avail' = Covered(free)
    BY <1>1, <1>2, AvailIs, AvailIsNext, Zenon
  <1>8. b.addr = op.addr /\ b.order = op.order
    BY Zenon
  <1> HIDE DEF b
  <1>9. Taken(held') = Taken(held) \cup Span(op.addr, op.order)
    BY <1>2, <1>8, Zenon DEF Taken
  <1>10. op.addr \in Nat /\ op.order \in Orders /\ Aligned(op.addr, op.order)
    BY <1>1, Zenon
  <1> QED BY <1>1, <1>2, <1>5, <1>6, <1>7, <1>9, <1>10, HeldIs, Zenon DEF b

(* deallocate makes the caller's block available again, and nothing else.   *)
LEMMA ReleaseEffect ==
  ASSUME IInv, NEW b \in held, DeallocBegin(b)
  PROVE  /\ b.addr \in Nat /\ b.order \in Orders
         /\ held' = held \ {b}
         /\ Avail' = Avail \cup Span(b.addr, b.order)
         /\ Avail \cap Span(b.addr, b.order) = {}
         /\ HeldAddrs = HeldAddrs' \cup Span(b.addr, b.order)
         /\ HeldAddrs' \cap Span(b.addr, b.order) = {}
  <1>1. /\ held' = held \ {b} /\ free' = free /\ Idle /\ ~Idle'
        /\ op'.addr = b.addr /\ op'.at = b.order
    BY Zenon DEF DeallocBegin, Merging, Idle
  <1>2. free \in [Orders -> SUBSET Nat] /\ held \in SUBSET Block /\ held' \in SUBSET Block
    BY <1>1, Zenon DEF IInv, TypeOK
  <1>3. b.addr \in Nat /\ b.order \in Orders
    BY <1>2, Zenon DEF Block
  <1>4. /\ \A j \in Orders : \A a \in free[j] : Apart(a, j, b.addr, b.order)
        /\ \A h \in held' : Apart(h.addr, h.order, b.addr, b.order)
    BY <1>1, Zenon DEF IInv, BlocksApart
  <1>5. Covered(free) \cap Span(b.addr, b.order) = {}
    BY ONLY <1>2, <1>3, <1>4, ApartCovered, Zenon
  <1>6. Taken(held') \cap Span(b.addr, b.order) = {}
    BY ONLY <1>2, <1>3, <1>4, ApartTaken, Zenon
  <1>7. Avail = Covered(free) /\ Avail' = Covered(free) \cup Span(b.addr, b.order)
    BY <1>1, AvailIs, AvailIsNext, Zenon
  <1>8. Taken(held) = Taken(held') \cup Span(b.addr, b.order)
    BY <1>1, Zenon DEF Taken
  <1> QED BY <1>1, <1>3, <1>5, <1>6, <1>7, <1>8, HeldIs, Zenon

-----------------------------------------------------------------------------
(* x lies in sub-range p of the usable region r.                            *)
InRange(r, p, x) ==
  MemoryMap[r].usable /\ RangeStart(r, p) <= x /\ x < RangeEnd(r, p)

(* Boot at <<rg, pt>> and address cu has added that address.                *)
Passed(rg, pt, cu, r, p, x) ==
  r < rg \/ (r = rg /\ p < pt) \/ (r = rg /\ p = pt /\ x < cu)

AddedAddrs(rg, pt, cu) ==
  {x \in Nat : \E r \in DOMAIN MemoryMap : \E p \in {1, 2} :
                 InRange(r, p, x) /\ Passed(rg, pt, cu, r, p, x)}

(* The blocks cover what boot has added so far, and nothing else.           *)
CoversAdded == Avail \cup HeldAddrs = AddedAddrs(region, part, cursor)

(* From one multiple of s to a later one it is s at least.                  *)
LEMMA NextMultiple ==
  ASSUME NEW a \in Nat, NEW b \in Nat, NEW s \in Nat \ {0}, a % s = 0, b % s = 0, a < b
  PROVE  a + s <= b
  <1>1. PICK m \in Nat : a = m * s
    BY Factor, Zenon
  <1>2. PICK n \in Nat : b = n * s
    BY Factor, Zenon
  <1>3. m < n
    BY <1>1, <1>2
  <1>4. (m + 1) * s <= n * s
    BY <1>3
  <1>5. (m + 1) * s = a + s
    BY <1>1
  <1> QED BY <1>2, <1>4, <1>5, Zenon

(* The page of an address, and the page boundaries around it.               *)
LEMMA PageOf ==
  ASSUME NEW x \in Nat, NEW s \in Nat \ {0}
  PROVE  /\ (x \div s) * s \in Nat /\ ((x \div s) * s) % s = 0
         /\ (x \div s) * s <= x /\ x < ((x \div s) * s) + s
         /\ \A a \in Nat : (a % s) = 0 /\ a <= x => a <= (x \div s) * s
         /\ \A b \in Nat : (b % s) = 0 /\ x < b => ((x \div s) * s) + s <= b
  <1> DEFINE p == (x \div s) * s
  <1>1. x = p + (x % s) /\ (x \div s) \in Nat /\ (x % s) \in 0..(s - 1)
    BY DivMod, Zenon
  <1>2. p \in Nat /\ (p % s) = 0
    <2> DEFINE q == x \div s
    <2>1. q \in Nat
      BY <1>1, Zenon
    <2> HIDE DEF q
    <2>2. q * s \in Nat /\ ((q * s) % s) = 0
      BY <2>1, Multiple
    <2> QED BY <2>2, Zenon DEF q
  <1> HIDE DEF p
  <1>3. p <= x /\ x < p + s
    BY <1>1, <1>2
  <1>4. ASSUME NEW a \in Nat, (a % s) = 0, a <= x PROVE a <= p
    <2>1. p < a => p + s <= a
      BY <1>2, <1>4, NextMultiple, Zenon
    <2> QED BY <1>2, <1>3, <1>4, <2>1
  <1>5. ASSUME NEW b \in Nat, (b % s) = 0, x < b PROVE p + s <= b
    <2>1. p < b => p + s <= b
      BY <1>2, <1>5, NextMultiple, Zenon
    <2> QED BY <1>2, <1>3, <1>5, <2>1
  <1> QED BY <1>2, <1>3, <1>4, <1>5, Zenon DEF p

(* Rounding up gives the first page boundary from the address on.           *)
LEMMA PageUpLeast ==
  ASSUME NEW a \in Nat, NEW s \in Nat \ {0}, NEW b \in Nat, b % s = 0, a <= b
  PROVE  ((a + s - 1) \div s) * s <= b
  <1> DEFINE q == a + s - 1
  <1>1. q \in Nat /\ q < b + s
    OBVIOUS
  <1>2. (q \div s) * s \in Nat /\ ((q \div s) * s) % s = 0 /\ (q \div s) * s <= q
    BY <1>1, PageOf, Zenon
  <1> DEFINE u == (q \div s) * s
  <1> HIDE DEF q, u
  <1>3. u \in Nat /\ (u % s) = 0 /\ u < b + s
    BY <1>1, <1>2 DEF u
  <1>4. b < u => b + s <= u
    BY <1>3, NextMultiple, Zenon
  <1>5. u <= b
    BY <1>3, <1>4
  <1> QED BY <1>5, Zenon DEF u, q

(* A sub-range ends on a page boundary and never begins at address 0.       *)
LEMMA RangeEnds ==
  ASSUME NEW r \in DOMAIN MemoryMap, NEW p \in {1, 2}
  PROVE  RangeEnd(r, p) % Size[0] = 0 /\ RangeStart(r, p) # 0
  <1> DEFINE s == Size[0]
             up == PageUp(MemoryMap[r].start)
             down == PageDown(MemoryMap[r].end)
  <1>1. s \in Nat \ {0} /\ KStart \in Nat /\ KEnd \in Nat /\ KStart % s = 0
    BY SizeFacts, BuddyAssumption, Zenon
  <1>2. MemoryMap[r].start \in Nat /\ MemoryMap[r].end \in Nat
    BY MapTypes, Zenon
  <1>3. down \in Nat /\ down % s = 0
    BY <1>1, <1>2, PageOf, Zenon DEF PageDown
  <1>4. up \in Nat
    BY <1>1, <1>2, Rounding, Zenon DEF PageUp
  <1> HIDE DEF s, up, down
  <1>5. RangeStart(r, p) = LET from == IF p = 1 THEN up ELSE MaxOf(up, KEnd)
                           IN  IF from = 0 THEN s ELSE from
    BY Zenon DEF RangeStart, s, up
  <1>6. RangeEnd(r, p) = IF p = 1 THEN MinOf(down, KStart) ELSE down
    BY Zenon DEF RangeEnd, down
  <1>7. RangeEnd(r, p) % s = 0
    BY <1>1, <1>3, <1>6, Zenon DEF MinOf
  <1>8. RangeStart(r, p) # 0
    BY <1>1, <1>4, <1>5, Zenon DEF MaxOf
  <1> QED BY <1>7, <1>8, Zenon DEF s

(* The sub-ranges of the usable regions hold the usable pages, and only     *)
(* them: page 0, the kernel and pages cut by a region's end are left out.   *)
LEMMA RangesAreUsable ==
  UsableAddrs = {x \in Nat : \E r \in DOMAIN MemoryMap : \E p \in {1, 2} : InRange(r, p, x)}
  <1> DEFINE s == Size[0]
  <1>1. s \in Nat \ {0} /\ KStart \in Nat /\ KEnd \in Nat /\ KStart % s = 0 /\ KEnd % s = 0
        /\ KStart <= KEnd
    BY SizeFacts, BuddyAssumption, Zenon
  <1>2. ASSUME NEW x \in Nat, NEW r \in DOMAIN MemoryMap, NEW p \in {1, 2}, InRange(r, p, x)
        PROVE  x \in UsableAddrs
    <2> DEFINE pg == (x \div s) * s
               from == RangeStart(r, p)
               to == RangeEnd(r, p)
               lo == MemoryMap[r].start
               hi == MemoryMap[r].end
    <2>1. /\ from \in Nat /\ to \in Nat /\ (from % s) = 0 /\ (to % s) = 0 /\ from # 0
          /\ lo <= from /\ to <= hi /\ (p = 1 => to <= KStart) /\ (p = 2 => KEnd <= from)
      BY RangeTypes, RangeEnds, Zenon
    <2>2. lo \in Nat /\ hi \in Nat /\ MemoryMap[r].usable /\ from <= x /\ x < to
      BY <1>2, MapTypes, Zenon DEF InRange
    <2>3. pg \in Nat /\ (pg % s) = 0 /\ pg <= x /\ x < pg + s /\ from <= pg /\ pg + s <= to
      BY <1>1, <2>1, <2>2, PageOf, Zenon
    <2> HIDE DEF pg, from, to, lo, hi, s
    <2>4. pg # 0 /\ (pg + s <= KStart \/ KEnd <= pg) /\ lo <= pg /\ pg + s <= hi /\ pg \in lo..hi
      BY <1>1, <2>1, <2>2, <2>3
    <2>5. UsablePage(pg)
      BY <2>2, <2>4, Zenon DEF UsablePage, s, lo, hi
    <2>6. pg \in MapAddrs
      BY <2>4, Zenon DEF MapAddrs, lo, hi
    <2>7. x \in Span(pg, 0)
      BY <1>1, <2>3 DEF Span, s
    <2> QED BY <2>3, <2>5, <2>6, <2>7, Zenon DEF UsableAddrs, s
  <1>3. ASSUME NEW x \in UsableAddrs
        PROVE  x \in Nat /\ \E r \in DOMAIN MemoryMap : \E p \in {1, 2} : InRange(r, p, x)
    <2>1. PICK pg \in MapAddrs : pg % Size[0] = 0 /\ UsablePage(pg) /\ x \in Span(pg, 0)
      BY <1>3, Zenon DEF UsableAddrs
    <2>2. PICK r \in DOMAIN MemoryMap :
            MemoryMap[r].usable /\ MemoryMap[r].start <= pg /\ pg + Size[0] <= MemoryMap[r].end
      BY <2>1, Zenon DEF UsablePage
    <2> DEFINE lo == MemoryMap[r].start
               hi == MemoryMap[r].end
               up == PageUp(lo)
               down == PageDown(hi)
    <2>3. lo \in Nat /\ hi \in Nat
      BY MapTypes, Zenon
    <2>4. pg \in Nat
      <3>1. \A t \in DOMAIN MemoryMap : MemoryMap[t].start \in Nat /\ MemoryMap[t].end \in Nat
        BY MapTypes, Zenon
      <3> QED BY <2>1, <3>1 DEF MapAddrs
    <2>5. pg # 0 /\ (pg % s) = 0 /\ lo <= pg /\ pg + s <= hi /\ (pg + s <= KStart \/ KEnd <= pg)
      BY <2>1, <2>2, Zenon DEF UsablePage
    <2>6. x \in Nat /\ pg <= x /\ x < pg + s
      BY <1>1, <2>1, <2>4 DEF Span
    <2>7. up \in Nat /\ up <= pg
      BY <1>1, <2>3, <2>4, <2>5, Rounding, PageUpLeast, Zenon DEF PageUp
    <2>8. (pg + s) \in Nat /\ ((pg + s) % s) = 0 /\ s <= pg
      <3>1. (0 % s) = 0 /\ (s % s) = 0
        BY <1>1
      <3>2. (pg + s) \in Nat /\ ((pg + s) % s) = 0
        BY <1>1, <2>4, <2>5, <3>1, AlignedSum
      <3>3. 0 < pg => 0 + s <= pg
        BY <1>1, <2>4, <2>5, <3>1, NextMultiple, Zenon
      <3> QED BY <1>1, <2>4, <2>5, <3>2, <3>3
    <2>9. down \in Nat /\ pg + s <= down
      BY <1>1, <2>3, <2>5, <2>8, PageOf, Zenon DEF PageDown
    <2> DEFINE p == IF KEnd <= pg THEN 2 ELSE 1
    <2> HIDE DEF lo, hi, up, down, s
    <2>10. RangeStart(r, p) <= pg
      <3>1. RangeStart(r, p) = LET from == IF p = 1 THEN up ELSE MaxOf(up, KEnd)
                               IN  IF from = 0 THEN s ELSE from
        BY Zenon DEF RangeStart, s, up, lo
      <3> QED BY <1>1, <2>4, <2>7, <2>8, <3>1, Zenon DEF MaxOf
    <2>11. pg + s <= RangeEnd(r, p)
      <3>1. RangeEnd(r, p) = IF p = 1 THEN MinOf(down, KStart) ELSE down
        BY Zenon DEF RangeEnd, down, hi
      <3> QED BY <1>1, <2>4, <2>5, <2>9, <3>1 DEF MinOf
    <2>12. p \in {1, 2}
      BY Zenon
    <2> HIDE DEF p
    <2>13. RangeStart(r, p) \in Nat /\ RangeEnd(r, p) \in Nat
      BY <2>12, RangeTypes, Zenon
    <2>14. InRange(r, p, x)
      BY <1>1, <2>2, <2>4, <2>6, <2>10, <2>11, <2>13 DEF InRange
    <2> QED BY <2>6, <2>12, <2>14, Zenon
  <1> QED BY <1>2, <1>3, Zenon

(* Boot adds a chunk at the cursor, and takes it as added.                  *)
LEMMA AddCovers ==
  ASSUME IInv, CoversAdded, AddChunk
  PROVE  CoversAdded'
  <1> DEFINE lo == RangeStart(region, part)
             hi == RangeEnd(region, part)
  <1>1. PICK k \in Orders :
          /\ IsBestOrder(cursor, hi, k) /\ op' = Merging(cursor, k, k)
          /\ cursor' = cursor + Size[k]
    BY Zenon DEF AddChunk
  <1>2. /\ MemoryMap[region].usable /\ Size[0] <= hi - cursor
        /\ UNCHANGED <<region, part>>
        /\ region \in DOMAIN MemoryMap /\ part \in {1, 2} /\ cursor \in Nat /\ lo <= cursor
    BY MapTypes DEF AddChunk, RangeLeft, Booted, IInv, TypeOK, CursorOK
  <1>3. hi \in Nat /\ lo \in Nat /\ Size[k] \in Nat \ {0} /\ Size[0] \in Nat \ {0}
    BY <1>2, RangeTypes, SizeFacts, Zenon
  <1>4. Size[k] <= hi - cursor
    BY <1>1, <1>2, Zenon DEF IsBestOrder, Fits
  <1>5. Avail' = Avail \cup Span(cursor, k) /\ HeldAddrs' = HeldAddrs
    BY <1>1, AddEffect, Zenon DEF HeldAddrs
  <1>6. \A x \in Nat : x \in Span(cursor, k) <=> cursor <= x /\ x < cursor'
    BY <1>1, <1>2, <1>3 DEF Span
  <1>7. \A x \in Span(cursor, k) : x \in Nat /\ InRange(region, part, x)
    BY <1>2, <1>3, <1>4 DEF Span, InRange
  <1>8. \A x \in Nat : \A r \in DOMAIN MemoryMap : \A p \in {1, 2} :
          Passed(region, part, cursor', r, p, x)
            <=> \/ Passed(region, part, cursor, r, p, x)
                \/ r = region /\ p = part /\ x \in Span(cursor, k)
    <2>1. cursor < cursor' /\ cursor' \in Nat
      BY <1>1, <1>2, <1>3
    <2> HIDE DEF lo, hi
    <2> QED BY <1>2, <1>6, <2>1, MapTypes DEF Passed
  <1>9. AddedAddrs(region, part, cursor') = AddedAddrs(region, part, cursor) \cup Span(cursor, k)
    BY <1>2, <1>7, <1>8 DEF AddedAddrs
  <1>10. AddedAddrs(region, part, cursor)' = AddedAddrs(region, part, cursor')
    BY <1>2, Zenon
  <1> QED BY <1>5, <1>9, <1>10, Zenon DEF CoversAdded

(* A sub-range is left when less than a page of it remains: nothing at all. *)
LEMMA NextCovers ==
  ASSUME IInv, CoversAdded, NextRange
  PROVE  CoversAdded'
  <1>1. /\ region \in DOMAIN MemoryMap /\ region \in Nat /\ part \in {1, 2} /\ cursor \in Nat
        /\ ~RangeLeft /\ (cursor % Size[0]) = 0
    BY MapTypes DEF NextRange, Booted, IInv, TypeOK, CursorOK
  <1>2. \/ part = 1 /\ part' = 2 /\ region' = region
        \/ part = 2 /\ part' = 1 /\ region' = region + 1
    BY <1>1, Zenon DEF NextRange
  <1>3. region' \in DOMAIN MemoryMap => cursor' = RangeStart(region', part')
    BY <1>1, <1>2, MapTypes DEF NextRange
  <1>4. \A x \in Nat : ~(InRange(region, part, x) /\ cursor <= x)
    <2> DEFINE hi == RangeEnd(region, part)
               s == Size[0]
    <2>1. hi \in Nat /\ (hi % s) = 0 /\ s \in Nat \ {0}
      BY <1>1, RangeTypes, RangeEnds, SizeFacts, Zenon
    <2>2. MemoryMap[region].usable => ~(s <= hi - cursor)
      BY <1>1, Zenon DEF RangeLeft
    <2>3. cursor < hi => cursor + s <= hi
      <3> HIDE DEF hi
      <3> QED BY <1>1, <2>1, NextMultiple, Zenon
    <2>4. MemoryMap[region].usable => hi <= cursor
      BY <1>1, <2>1, <2>2, <2>3
    <2> HIDE DEF s
    <2> QED BY <1>1, <2>1, <2>4 DEF InRange
  <1>5. \A x \in Nat : \A r \in DOMAIN MemoryMap : \A p \in {1, 2} :
          InRange(r, p, x) =>
            (Passed(region', part', cursor', r, p, x) <=> Passed(region, part, cursor, r, p, x))
    <2> SUFFICES ASSUME NEW x \in Nat, NEW r \in DOMAIN MemoryMap, NEW p \in {1, 2},
                        InRange(r, p, x)
                 PROVE  Passed(region', part', cursor', r, p, x)
                          <=> Passed(region, part, cursor, r, p, x)
      BY Zenon
    <2>0. r \in Nat /\ RangeStart(r, p) \in Nat
      BY MapTypes, RangeTypes
    <2>1. r = region /\ p = part => x < cursor
      BY <1>1, <1>4
    <2>2. r = region' /\ p = part' => ~(x < cursor')
      BY <1>3, <2>0 DEF InRange
    <2> QED BY <1>1, <1>2, <2>0, <2>1, <2>2 DEF Passed
  <1>6. AddedAddrs(region', part', cursor') = AddedAddrs(region, part, cursor)
    BY <1>5, Zenon DEF AddedAddrs
  <1>7. AddedAddrs(region, part, cursor)' = AddedAddrs(region', part', cursor')
    BY Zenon
  <1>8. Avail' = Avail /\ HeldAddrs' = HeldAddrs
    BY AvailKept, Zenon DEF HeldAddrs
  <1> QED BY <1>6, <1>7, <1>8, Zenon DEF CoversAdded

(* Every step keeps the cover.                                              *)
LEMMA StepCovers ==
  ASSUME IInv, CoversAdded, [Next]_vars
  PROVE  CoversAdded'
  <1>1. CASE AddChunk
    BY <1>1, AddCovers, Zenon
  <1>2. CASE NextRange
    BY <1>2, NextCovers
  <1>3. ASSUME Avail' \cup HeldAddrs' = Avail \cup HeldAddrs, UNCHANGED <<region, part, cursor>>
        PROVE  CoversAdded'
    BY <1>3, Zenon DEF CoversAdded
  <1>4. CASE \/ SplitStep \/ MergeStep \/ MergeDone \/ AllocInvalid
             \/ \E order \in Orders : AllocBegin(order) \/ AllocFail(order)
    <2>1. Avail' = Avail /\ held' = held
      BY <1>4, AvailKept, Zenon
    <2>2. UNCHANGED <<region, part, cursor>>
      BY <1>4, Zenon DEF SplitStep, MergeStep, MergeDone, AllocInvalid, AllocBegin, AllocFail
    <2> QED BY <1>3, <2>1, <2>2, Zenon DEF HeldAddrs
  <1>5. CASE AllocDone
    <2>1. UNCHANGED <<region, part, cursor>>
      BY <1>5, Zenon DEF AllocDone
    <2> QED BY <1>3, <1>5, <2>1, ServeEffect, Zenon
  <1>6. ASSUME NEW b \in held, DeallocBegin(b) PROVE CoversAdded'
    <2>1. UNCHANGED <<region, part, cursor>>
      BY <1>6, Zenon DEF DeallocBegin
    <2> QED BY <1>3, <1>6, <2>1, ReleaseEffect, Zenon
  <1>7. CASE UNCHANGED vars
    BY <1>3, <1>7 DEF vars, Avail, FreeAddrs, HandAddrs, HeldAddrs, Idle
  <1> QED BY <1>1, <1>2, <1>4, <1>5, <1>6, <1>7, Zenon DEF Next

(* At the start nothing is covered and nothing added.                       *)
LEMMA InitCovers == Init => CoversAdded
  <1> SUFFICES ASSUME Init PROVE CoversAdded
    BY Zenon
  <1>1. Idle /\ held = {} /\ (\A k \in Orders : free[k] = {})
    BY Zenon DEF Init, Idle, NoOp
  <1>2. Avail \cup HeldAddrs = {}
    BY <1>1 DEF Avail, FreeAddrs, HandAddrs, HeldAddrs
  <1>3. region = 1 /\ part = 1 /\ (1 \in DOMAIN MemoryMap => cursor = RangeStart(1, 1))
    BY MapTypes DEF Init
  <1>4. \A r \in DOMAIN MemoryMap : \A p \in {1, 2} : r \in Nat /\ r >= 1 /\ RangeStart(r, p) \in Nat
    BY MapTypes, RangeTypes
  <1>5. \A x \in Nat : \A r \in DOMAIN MemoryMap : \A p \in {1, 2} :
          InRange(r, p, x) => ~Passed(1, 1, cursor, r, p, x)
    <2> SUFFICES ASSUME NEW x \in Nat, NEW r \in DOMAIN MemoryMap, NEW p \in {1, 2},
                        InRange(r, p, x)
                 PROVE  ~Passed(1, 1, cursor, r, p, x)
      BY Zenon
    <2>1. RangeStart(r, p) <= x
      BY Zenon DEF InRange
    <2>2. r = 1 /\ p = 1 => ~(x < cursor)
      BY <1>3, <1>4, <2>1
    <2>3. r \in Nat /\ r >= 1
      BY <1>4, Zenon
    <2>4. ~(r < 1)
      BY <2>3
    <2>5. ~(p < 1)
      OBVIOUS
    <2> QED BY <2>2, <2>4, <2>5, Zenon DEF Passed
  <1>6. AddedAddrs(1, 1, cursor) = {}
    BY <1>5, Zenon DEF AddedAddrs
  <1> QED BY <1>2, <1>3, <1>6, Zenon DEF CoversAdded

(* After boot the free, held and in-hand blocks are the usable pages, for   *)
(* any memory map and kernel range.                                         *)
THEOREM NothingLost == Spec => []CoversUsable
  <1>1. IInv /\ CoversAdded => CoversUsable
    <2> SUFFICES ASSUME IInv, CoversAdded, Booted PROVE FreeAddrs \cup HandAddrs \cup HeldAddrs = UsableAddrs
      BY Zenon DEF CoversUsable
    <2>1. \A r \in DOMAIN MemoryMap : r < region
      BY MapTypes DEF Booted, IInv, TypeOK
    <2>2. AddedAddrs(region, part, cursor) = UsableAddrs
      BY <2>1, RangesAreUsable, Zenon DEF AddedAddrs, Passed
    <2> QED BY <2>2, Zenon DEF CoversAdded, Avail
  <1>2. IInv /\ CoversAdded /\ [Next]_vars => CoversAdded'
    BY StepCovers, Zenon
  <1> QED BY <1>1, <1>2, InitCovers, SpecIInv, PTL DEF Spec

-----------------------------------------------------------------------------
INSTANCE FiniteSetTheorems

(* A nonempty set of naturals has a least element.                          *)
LEMMA LeastNat ==
  ASSUME NEW T, T \subseteq Nat, T # {}
  PROVE  \E n \in T : \A m \in T : n <= m
  <1> DEFINE R == OpToRel(<, Nat)
  <1>1. IsWellFoundedOn(R, Nat)
    BY NatLessThanWellFounded, Zenon
  <1>2. \A x, y \in Nat : x < y => <<x, y>> \in R
    BY Zenon DEF OpToRel
  <1> HIDE DEF R
  <1>3. PICK n \in T : \A y \in T : ~ (<<y, n>> \in R)
    BY <1>1, WFMin, Zenon
  <1>4. \A m \in T : ~ (m < n)
    BY <1>2, <1>3, Zenon
  <1>5. \A m \in T : n <= m
    BY <1>4
  <1> QED BY <1>5, Zenon

(* Twice a multiple is a multiple.                                          *)
LEMMA MultipleTwice ==
  ASSUME NEW a \in Nat, NEW s \in Nat \ {0}, a % s = 0
  PROVE  (2 * a) % s = 0
  <1>1. PICK m \in Nat : a = m * s
    BY Factor, Zenon
  <1>2. 2 * a = (2 * m) * s /\ 2 * m \in Nat
    BY <1>1
  <1> QED BY <1>2, Multiple, Zenon

(* The size of an order is a multiple of those of the orders below: were it *)
(* not so, take the least order that fails, and halve it.                   *)
LEMMA SizeMultiple ==
  ASSUME NEW j \in Orders, NEW k \in Orders, j <= k
  PROVE  Size[k] % Size[j] = 0
  <1> DEFINE T == {n \in Orders : j <= n /\ Size[n] % Size[j] # 0}
  <1> SUFFICES T = {}
    BY Zenon
  <1> SUFFICES ASSUME T # {} PROVE FALSE
    BY Zenon
  <1>1. T \subseteq Nat
    BY SizeFacts DEF Orders
  <1>2. PICK n \in T : \A m \in T : n <= m
    <2> HIDE DEF T
    <2> QED BY <1>1, LeastNat, Zenon
  <1>3. n \in Orders /\ j <= n /\ Size[n] % Size[j] # 0 /\ Size[j] \in Nat \ {0}
    BY <1>2, SizeFacts, Zenon
  <1>4. n # j
    <2>1. (1 * Size[j]) % Size[j] = 0
      BY <1>3, Multiple, Zenon
    <2> QED BY <1>3, <2>1
  <1>5. n # 0 /\ n - 1 \in Orders /\ j <= n - 1 /\ ~(n <= n - 1)
    BY <1>3, <1>4, SizeFacts DEF Orders
  <1>6. Size[n] = 2 * Size[n - 1] /\ Size[n - 1] \in Nat
    BY <1>3, <1>5, SizeFacts, Zenon
  <1>7. n - 1 \notin T
    <2> HIDE DEF T
    <2>1. n - 1 \in T => n <= n - 1
      BY <1>2, Zenon
    <2> QED BY <1>5, <2>1, Zenon
  <1>8. Size[n - 1] % Size[j] = 0
    BY <1>5, <1>7, Zenon
  <1> QED BY <1>3, <1>6, <1>8, MultipleTwice, Zenon

(* Of two aligned blocks that share an address, the smaller order lies      *)
(* within the larger.                                                       *)
LEMMA Nested ==
  ASSUME NEW j \in Orders, NEW k \in Orders, j <= k,
         NEW a \in Nat, Aligned(a, j), NEW c \in Nat, Aligned(c, k),
         NEW x, x \in Span(a, j), x \in Span(c, k)
  PROVE  c <= a /\ a + Size[j] <= c + Size[k]
  <1> DEFINE s == Size[j]
  <1>1. s \in Nat \ {0} /\ Size[k] \in Nat \ {0} /\ a % s = 0 /\ c % Size[k] = 0
        /\ Size[k] % s = 0
    BY SizeFacts, SizeMultiple, Zenon DEF Aligned
  <1>2. PICK m \in Nat : a = m * s
    <2> HIDE DEF s
    <2> QED BY <1>1, Factor, Zenon
  <1>3. PICK q \in Nat : Size[k] = q * s
    BY <1>1, Factor, Zenon
  <1>4. PICK p \in Nat : c = p * Size[k]
    BY <1>1, Factor, Zenon
  <1> DEFINE l == p * q
  <1>5. c = l * s /\ c + Size[k] = (l + q) * s /\ l \in Nat
    BY <1>1, <1>3, <1>4
  <1>6. x \in Int /\ a <= x /\ x < a + s /\ c <= x /\ x < c + Size[k]
    BY <1>1 DEF Span
  <1> HIDE DEF s, l
  <1>7. l * s < (m + 1) * s /\ m * s < (l + q) * s
    BY <1>1, <1>2, <1>5, <1>6
  <1>8. l < m + 1 /\ m < l + q
    BY <1>1, <1>2, <1>3, <1>5, <1>7
  <1>9. l * s <= m * s /\ (m + 1) * s <= (l + q) * s
    BY <1>1, <1>2, <1>3, <1>5, <1>8
  <1>10. (m + 1) * s = a + s
    BY <1>1, <1>2
  <1> QED BY <1>2, <1>5, <1>9, <1>10, Zenon DEF s

(* When the lists from an order on are empty, no aligned block of that      *)
(* order is covered by smaller free blocks: the smallest of them has its    *)
(* buddy there too, which no larger block may contain, and no free block of *)
(* the same order may be.                                                   *)
LEMMA NoneToServe ==
  ASSUME IInv, NEW order \in Orders, \A k \in Orders : order <= k => free[k] = {},
         NEW a \in Nat, Aligned(a, order), Span(a, order) \subseteq Covered(free)
  PROVE  FALSE
  <1> DEFINE Meets(k, b) == \E x \in Span(a, order) : x \in Span(b, k)
             T == {k \in Orders : \E b \in free[k] : Meets(k, b)}
  <1>0. \A k \in Orders : \A b \in free[k] : b \in Nat /\ Aligned(b, k)
    BY Zenon DEF IInv, TypeOK
  <1>1. \A x \in Span(a, order) : \E k \in T : \E b \in free[k] : x \in Span(b, k)
    BY InCovered, Zenon
  <1>2. T \subseteq Nat /\ T # {}
    <2>1. a \in Span(a, order)
      BY SizeFacts DEF Span
    <2> QED BY <1>1, <2>1, SizeFacts DEF Orders
  <1>3. PICK m \in T : \A k \in T : m <= k
    <2> HIDE DEF T
    <2> QED BY <1>2, LeastNat, Zenon
  <1>4. PICK b \in free[m] : Meets(m, b)
    BY <1>3, Zenon
  <1>5. /\ m \in Orders /\ m < order /\ m + 1 \in Orders /\ m + 1 <= order
        /\ m \in 0..(MaxOrder - 2) /\ b \in Nat /\ Aligned(b, m)
    <2>1. m \in Orders /\ ~(order <= m)
      BY <1>3, <1>4, Zenon
    <2>2. b \in Nat /\ Aligned(b, m)
      BY <1>0, <1>4, <2>1, Zenon
    <2> QED BY <2>1, <2>2, SizeFacts DEF Orders
  <1> DEFINE c == Buddy(b, m)
             p == MinOf(b, c)
  <1>6. /\ c \in Nat /\ p \in Nat /\ Aligned(p, m + 1) /\ Aligned(c, m)
        /\ p <= b /\ b + Size[m] <= p + Size[m + 1]
        /\ p <= c /\ c + Size[m] <= p + Size[m + 1]
        /\ Size[m] \in Nat \ {0} /\ Size[m + 1] \in Nat \ {0}
    <2>1. /\ c = b + Size[m] \/ c = b - Size[m]
          /\ p % (2 * Size[m]) = 0
      BY <1>5, BuddyFacts, Zenon
    <2>2. Size[m] \in Nat \ {0} /\ Size[m + 1] = 2 * Size[m]
      BY <1>5, SizeFacts, Zenon
    <2>3. c \in Nat
      BY <1>5, BuddyFacts, Zenon
    <2> HIDE DEF c
    <2>4. (p = b /\ c = b + Size[m]) \/ (p = c /\ b = c + Size[m])
      BY <1>5, <2>1, <2>2, <2>3 DEF MinOf
    <2>5. p \in Nat
      BY <1>5, <2>3, <2>4, Zenon
    <2> HIDE DEF p
    <2>6. (p % Size[m]) = 0 /\ ((p + Size[m]) % Size[m]) = 0
      BY <2>1, <2>2, <2>5, AlignedHalves, Zenon
    <2>7. Aligned(c, m) /\ Aligned(p, m + 1)
      BY <1>5, <2>1, <2>2, <2>4, <2>6, Zenon DEF Aligned
    <2> QED BY <1>5, <2>2, <2>3, <2>4, <2>5, <2>7
  <1> HIDE DEF c, p
  <1>7. a <= p /\ p + Size[m + 1] <= a + Size[order]
    <2>1. PICK x \in Span(a, order) : x \in Span(b, m)
      BY <1>4, Zenon
    <2>2. x \in Span(p, m + 1)
      BY <1>5, <1>6, <2>1 DEF Span
    <2> QED BY <1>5, <1>6, <2>1, <2>2, Nested, Zenon
  <1>8. c \in Span(a, order) /\ c \in Span(p, m + 1)
    BY <1>6, <1>7, SizeFacts DEF Span
  <1>9. PICK n \in T : \E d \in free[n] : c \in Span(d, n)
    BY <1>1, <1>8, Zenon
  <1>10. PICK d \in free[n] : c \in Span(d, n)
    BY <1>9, Zenon
  <1>11. n \in Orders /\ d \in Nat /\ Aligned(d, n) /\ Size[n] \in Nat
    BY <1>0, <1>9, <1>10, SizeFacts, Zenon
  <1>12. m <= n
    <2> HIDE DEF T
    <2> QED BY <1>3, <1>9, Zenon
  <1> HIDE DEF T, Meets
  <1>13. CASE n = m
    <2>1. c \in Span(c, m)
      BY <1>6 DEF Span
    <2>2. d <= c /\ c + Size[m] <= d + Size[m]
      BY <1>5, <1>6, <1>10, <1>11, <1>13, <2>1, Nested
    <2>3. d = c
      BY <1>6, <1>11, <2>2
    <2> QED BY <1>4, <1>5, <1>10, <1>13, <2>3, Zenon DEF c, IInv, NoFreeBuddies
  <1>14. CASE n # m
    <2>1. m + 1 <= n
      BY <1>5, <1>11, <1>12, <1>14 DEF Orders
    <2>2. d <= p /\ p + Size[m + 1] <= d + Size[n]
      BY <1>5, <1>6, <1>8, <1>10, <1>11, <2>1, Nested, Zenon
    <2>3. Apart(b, m, d, n)
      BY <1>4, <1>5, <1>10, <1>11, <1>14, Zenon DEF IInv, BlocksApart
    <2>4. d <= b /\ b + Size[m] <= d + Size[n]
      BY <1>5, <1>6, <1>11, <2>2
    <2>5. b + Size[m] <= d \/ d + Size[n] <= b
      BY <2>3, Zenon DEF Apart
    <2>6. b \in Nat /\ d \in Nat /\ Size[m] \in Nat \ {0} /\ Size[n] \in Nat
      BY <1>5, <1>6, <1>11, Zenon
    <2> QED BY ONLY <2>4, <2>5, <2>6
  <1> QED BY <1>13, <1>14, Zenon

-----------------------------------------------------------------------------
(* One step of the allocator is a step of the pool, or leaves it as it is.  *)
LEMMA StepImplements ==
  ASSUME IInv, [Next]_vars
  PROVE  [Pool!Next]_(Pool!vars)
  <1>0. Pool!vars = <<Avail, held, reply>>
    BY Zenon DEF Pool!vars, Avail
  <1>1. CASE AddChunk
    <2>1. PICK k \in Orders : op' = Merging(cursor, k, k)
      BY <1>1, Zenon DEF AddChunk
    <2>2. /\ Avail' = Avail \cup Span(cursor, k) /\ held' = held
          /\ Span(cursor, k) \cap (Avail \cup HeldAddrs) = {}
      BY <1>1, <2>1, AddEffect, Zenon
    <2>3. reply' = reply
      BY <1>1, Zenon DEF AddChunk
    <2>4. Pool!Add(cursor, k)
      BY <2>2, <2>3, Zenon DEF Pool!Add, Pool!Span, Pool!HeldAddrs, Avail, Span, HeldAddrs
    <2>5. cursor \in MapAddrs
      <3>1. region \in DOMAIN MemoryMap /\ part \in {1, 2}
        BY <1>1, MapTypes DEF IInv, TypeOK, AddChunk, Booted
      <3>2. RangeStart(region, part) <= cursor /\ cursor \in Nat
            /\ Size[0] <= RangeEnd(region, part) - cursor
        BY <1>1, Zenon DEF AddChunk, RangeLeft, IInv, CursorOK, TypeOK
      <3> DEFINE lo == MemoryMap[region].start
                 hi == MemoryMap[region].end
                 from == RangeStart(region, part)
                 to == RangeEnd(region, part)
      <3>4. /\ lo \in Nat /\ hi \in Nat /\ from \in Nat /\ to \in Nat /\ Size[0] \in Nat
            /\ lo <= from /\ to <= hi
        BY <3>1, RangeTypes, MapTypes, SizeFacts, Zenon
      <3> HIDE DEF lo, hi, from, to
      <3>3. cursor \in lo..hi
        BY <3>2, <3>4 DEF from, to
      <3> QED BY <3>1, <3>3, Zenon DEF MapAddrs, lo, hi
    <2> QED BY <2>4, <2>5, Zenon DEF Pool!Next
  <1>2. CASE NextRange \/ SplitStep \/ MergeStep \/ MergeDone
    <2>1. Avail' = Avail /\ held' = held
      BY <1>2, AvailKept, Zenon
    <2>2. reply' = reply
      BY <1>2, Zenon DEF NextRange, SplitStep, MergeStep, MergeDone
    <2> QED BY <1>0, <2>1, <2>2, Zenon DEF Pool!vars, Avail
  <1>3. ASSUME NEW order \in Orders, AllocBegin(order) PROVE Pool!Next
    <2>1. Avail' = Avail /\ held' = held /\ reply' = "none"
      BY <1>3, AvailKept, Zenon DEF AllocBegin
    <2>2. Pool!Request
      BY <2>1, Zenon DEF Pool!Request, Avail
    <2> QED BY <2>2, Zenon DEF Pool!Next
  <1>4. CASE AllocInvalid
    <2>1. Avail' = Avail /\ held' = held /\ reply' = "invalid"
      BY <1>4, AvailKept, Zenon DEF AllocInvalid
    <2>2. Pool!RefuseInvalid
      BY <2>1, Zenon DEF Pool!RefuseInvalid, Avail
    <2> QED BY <2>2, Zenon DEF Pool!Next
  <1>5. ASSUME NEW order \in Orders, AllocFail(order) PROVE Pool!Next
    <2>1. Avail' = Avail /\ held' = held /\ reply' = "oom"
      BY <1>5, AvailKept, Zenon DEF AllocFail
    <2>2. Avail = Covered(free) /\ \A k \in Orders : order <= k => free[k] = {}
      BY <1>5, AvailIs, Zenon DEF AllocFail
    <2>3. ASSUME NEW a \in Avail, a % Size[order] = 0, Span(a, order) \subseteq Avail
          PROVE  FALSE
      <3>1. PICK k \in Orders : \E b \in free[k] : a \in Span(b, k)
        BY <2>2, <2>3, InCovered, Zenon
      <3>2. PICK b \in free[k] : a \in Span(b, k)
        BY <3>1, Zenon
      <3>3. b \in Nat
        BY <3>1, <3>2, Zenon DEF IInv, TypeOK
      <3>4. a \in Nat
        BY <3>2, <3>3 DEF Span
      <3> QED BY <2>2, <2>3, <3>4, NoneToServe, Zenon DEF Aligned
    <2>4. Pool!Refuse(order)
      BY <2>1, <2>3, Zenon DEF Pool!Refuse, Pool!Servable, Pool!Span, Avail, Span
    <2> QED BY <2>4, Zenon DEF Pool!Next
  <1>6. CASE AllocDone
    <2> DEFINE a == op.addr
               k == op.order
    <2>1. /\ a \in Nat /\ k \in Orders /\ Aligned(a, k)
          /\ held' = held \cup {[addr |-> a, order |-> k]}
          /\ Avail = Avail' \cup Span(a, k) /\ Avail' \cap Span(a, k) = {}
      BY <1>6, ServeEffect, Zenon
    <2>2. reply' = "ok"
      BY <1>6, Zenon DEF AllocDone
    <2> HIDE DEF a, k
    <2>3. a \in Span(a, k)
      BY <2>1, SizeFacts DEF Span
    <2>4. a \in Avail /\ Span(a, k) \subseteq Avail /\ Avail' = Avail \ Span(a, k)
      BY <2>1, <2>3, Zenon
    <2>5. Pool!Serve(k)
      BY <2>1, <2>2, <2>4, Zenon DEF Pool!Serve, Pool!Servable, Pool!Span, Avail, Span, Aligned
    <2> QED BY <2>1, <2>5, Zenon DEF Pool!Next
  <1>7. ASSUME NEW b \in held, DeallocBegin(b) PROVE Pool!Next
    <2>1. held' = held \ {b} /\ Avail' = Avail \cup Span(b.addr, b.order)
      BY <1>7, ReleaseEffect, Zenon
    <2>2. reply' = "none"
      BY <1>7, Zenon DEF DeallocBegin
    <2>3. Pool!Release(b)
      BY <2>1, <2>2, Zenon DEF Pool!Release, Pool!Span, Avail, Span
    <2> QED BY <2>3, Zenon DEF Pool!Next
  <1>8. CASE UNCHANGED vars
    BY <1>8 DEF vars, Pool!vars, FreeAddrs, HandAddrs, Idle
  <1> QED BY <1>1, <1>2, <1>3, <1>4, <1>5, <1>6, <1>7, <1>8, Zenon DEF Next

(* The free lists implement the frame pool.                                 *)
THEOREM PoolImplemented == Spec => ImplementsPool
  <1>1. Init => Pool!Init
    <2> SUFFICES ASSUME Init PROVE Pool!Init
      BY Zenon
    <2>1. Idle /\ \A k \in Orders : free[k] = {}
      BY Zenon DEF Init, Idle, NoOp
    <2>2. FreeAddrs \cup HandAddrs = {}
      BY <2>1 DEF FreeAddrs, HandAddrs
    <2> QED BY <2>2, Zenon DEF Init, Pool!Init
  <1>2. IInv /\ [Next]_vars => [Pool!Next]_(Pool!vars)
    BY StepImplements, Zenon
  <1> QED BY <1>1, <1>2, SpecIInv, PTL DEF Spec, ImplementsPool, Pool!Spec

-----------------------------------------------------------------------------
(* The frames that the operation under way has still to count as free.      *)
Uncounted == IF op.kind = "merge" THEN Size[op.order] ELSE 0

(* The counters, as they stand in the middle of operations as well.         *)
Counted ==
  /\ IsFiniteSet(Avail) /\ IsFiniteSet(HeldAddrs)
  /\ Cardinality(Avail) = (free_frames * Size[0]) + Uncounted
  /\ total_frames * Size[0] = Cardinality(Avail) + Cardinality(HeldAddrs)

(* A block has as many addresses as its size says.                          *)
LEMMA SpanCount ==
  ASSUME NEW a \in Nat, NEW k \in Orders
  PROVE  IsFiniteSet(Span(a, k)) /\ Cardinality(Span(a, k)) = Size[k]
  <1>1. Size[k] \in Nat \ {0}
    BY SizeFacts, Zenon
  <1>2. a \in Int /\ a + Size[k] - 1 \in Int /\ ~(a > a + Size[k] - 1)
        /\ (a + Size[k] - 1) - a + 1 = Size[k]
    BY <1>1
  <1> QED BY <1>2, FS_Interval, Zenon DEF Span

(* A block that shares no address with a set adds its size to it.           *)
LEMMA BlockCount ==
  ASSUME NEW S, IsFiniteSet(S), NEW a \in Nat, NEW k \in Orders, S \cap Span(a, k) = {}
  PROVE  /\ IsFiniteSet(S \cup Span(a, k)) /\ Cardinality(S) \in Nat
         /\ Cardinality(S \cup Span(a, k)) = Cardinality(S) + Size[k]
  <1> DEFINE T == Span(a, k)
  <1>1. IsFiniteSet(T) /\ Cardinality(T) = Size[k] /\ Size[k] \in Nat
    BY SpanCount, SizeFacts, Zenon
  <1>2. S \cap T = {}
    BY Zenon
  <1> HIDE DEF T
  <1>3. Cardinality(S) \in Nat /\ Cardinality(S \cap T) = 0
    BY <1>2, FS_CardinalityType, FS_EmptySet, Zenon
  <1>4. /\ IsFiniteSet(S \cup T)
        /\ Cardinality(S \cup T) = Cardinality(S) + Cardinality(T) - Cardinality(S \cap T)
    BY <1>1, FS_Union, Zenon
  <1>5. Cardinality(S \cup T) = Cardinality(S) + Size[k]
    BY <1>1, <1>3, <1>4
  <1> QED BY <1>3, <1>4, <1>5, Zenon DEF T

(* The frames of a block make up its size.                                  *)
LEMMA FramesCount ==
  ASSUME NEW k \in Orders
  PROVE  /\ Frames(k) \in Nat
         /\ \A n \in Int : (n + Frames(k)) * Size[0] = (n * Size[0]) + Size[k]
         /\ \A n \in Int : (n - Frames(k)) * Size[0] = (n * Size[0]) - Size[k]
  <1> DEFINE s == Size[0]
             f == Frames(k)
  <1>1. s \in Nat \ {0} /\ Size[k] \in Nat /\ (Size[k] % s) = 0
    BY SizeFacts, BuddyAssumption, Zenon
  <1>2. f \in Nat /\ f * s = Size[k]
    <2>1. /\ Size[k] = ((Size[k] \div s) * s) + (Size[k] % s)
          /\ (Size[k] \div s) \in Nat
      BY <1>1, DivMod, Zenon
    <2>2. f = Size[k] \div s
      BY Zenon DEF Frames
    <2> HIDE DEF s, f
    <2> QED BY <1>1, <2>1, <2>2
  <1> HIDE DEF s, f
  <1>3. \A n \in Int : (n + f) * s = (n * s) + (f * s) /\ (n - f) * s = (n * s) - (f * s)
    BY <1>1, <1>2
  <1> QED BY <1>2, <1>3, Zenon DEF s, f

(* The types of the counters, and of their values in bytes.                 *)
LEMMA CounterTypes ==
  ASSUME IInv, Counted
  PROVE  /\ Size[0] \in Nat /\ free_frames \in Int /\ total_frames \in Int
         /\ free_frames * Size[0] \in Int /\ total_frames * Size[0] \in Int
         /\ Cardinality(Avail) \in Nat /\ Cardinality(HeldAddrs) \in Nat
  <1>1. Size[0] \in Nat /\ free_frames \in Int /\ total_frames \in Int
    BY SizeFacts DEF IInv, TypeOK
  <1>2. Cardinality(Avail) \in Nat /\ Cardinality(HeldAddrs) \in Nat
    BY FS_CardinalityType, Zenon DEF Counted
  <1> QED BY <1>1, <1>2

(* Boot counts the chunk it adds in total_frames at once, and in            *)
(* free_frames when it reaches its list.                                    *)
LEMMA AddCounted ==
  ASSUME IInv, Counted, AddChunk
  PROVE  Counted'
  <1>1. PICK k \in Orders : /\ op' = Merging(cursor, k, k)
                            /\ total_frames' = total_frames + Frames(k)
    BY Zenon DEF AddChunk
  <1>2. free_frames' = free_frames /\ Uncounted = 0 /\ Uncounted' = Size[k] /\ cursor \in Nat
    BY <1>1, Zenon DEF AddChunk, Uncounted, Idle, Merging, IInv, TypeOK
  <1>3. /\ Avail' = Avail \cup Span(cursor, k) /\ HeldAddrs' = HeldAddrs
        /\ Avail \cap Span(cursor, k) = {}
    BY <1>1, AddEffect, Zenon DEF HeldAddrs
  <1>4. IsFiniteSet(Avail') /\ Cardinality(Avail') = Cardinality(Avail) + Size[k]
    BY <1>2, <1>3, BlockCount, Zenon DEF Counted
  <1>5. total_frames' * Size[0] = (total_frames * Size[0]) + Size[k] /\ Size[k] \in Nat
    BY <1>1, CounterTypes, FramesCount, SizeFacts, Zenon
  <1> QED BY <1>2, <1>3, <1>4, <1>5, CounterTypes DEF Counted

(* allocate gives up the frames of the block it hands over.                 *)
LEMMA ServeCounted ==
  ASSUME IInv, Counted, AllocDone
  PROVE  Counted'
  <1> DEFINE a == op.addr
             k == op.order
  <1>1. /\ a \in Nat /\ k \in Orders /\ op.kind = "split"
        /\ Avail = Avail' \cup Span(a, k) /\ Avail' \cap Span(a, k) = {}
        /\ HeldAddrs' = HeldAddrs \cup Span(a, k) /\ HeldAddrs \cap Span(a, k) = {}
    BY ServeEffect, Zenon
  <1>2. /\ free_frames' = free_frames - Frames(k) /\ total_frames' = total_frames
        /\ Uncounted = 0 /\ Uncounted' = 0
    BY <1>1, Zenon DEF AllocDone, Uncounted, NoOp
  <1> HIDE DEF a, k
  <1>3. IsFiniteSet(Avail')
    BY <1>1, FS_Subset, Zenon DEF Counted
  <1>4. Cardinality(Avail) = Cardinality(Avail') + Size[k] /\ Cardinality(Avail') \in Nat
    BY <1>1, <1>3, BlockCount, Zenon
  <1>5. IsFiniteSet(HeldAddrs') /\ Cardinality(HeldAddrs') = Cardinality(HeldAddrs) + Size[k]
    BY <1>1, BlockCount, Zenon DEF Counted
  <1>6. free_frames' * Size[0] = (free_frames * Size[0]) - Size[k] /\ Size[k] \in Nat
    BY <1>1, <1>2, CounterTypes, FramesCount, SizeFacts, Zenon
  <1> QED BY <1>2, <1>3, <1>4, <1>5, <1>6, CounterTypes DEF Counted

(* deallocate has the block in hand before it counts its frames as free.    *)
LEMMA ReleaseCounted ==
  ASSUME IInv, Counted, NEW b \in held, DeallocBegin(b)
  PROVE  Counted'
  <1> DEFINE a == b.addr
             k == b.order
  <1>1. /\ a \in Nat /\ k \in Orders
        /\ Avail' = Avail \cup Span(a, k) /\ Avail \cap Span(a, k) = {}
        /\ HeldAddrs = HeldAddrs' \cup Span(a, k) /\ HeldAddrs' \cap Span(a, k) = {}
    BY ReleaseEffect, Zenon
  <1>2. /\ free_frames' = free_frames /\ total_frames' = total_frames
        /\ Uncounted = 0 /\ Uncounted' = Size[k]
    BY Zenon DEF DeallocBegin, Uncounted, Idle, Merging
  <1> HIDE DEF a, k
  <1>3. IsFiniteSet(HeldAddrs')
    BY <1>1, FS_Subset DEF Counted
  <1>4. Cardinality(HeldAddrs) = Cardinality(HeldAddrs') + Size[k] /\ Cardinality(HeldAddrs') \in Nat
    BY <1>1, <1>3, BlockCount, Zenon
  <1>5. IsFiniteSet(Avail') /\ Cardinality(Avail') = Cardinality(Avail) + Size[k]
    BY <1>1, BlockCount, Zenon DEF Counted
  <1>6. Size[k] \in Nat
    BY <1>1, SizeFacts, Zenon
  <1> QED BY <1>2, <1>3, <1>4, <1>5, <1>6, CounterTypes DEF Counted

(* Every step keeps the counters right.                                     *)
LEMMA StepCounted ==
  ASSUME IInv, Counted, [Next]_vars
  PROVE  Counted'
  <1>1. CASE AddChunk
    BY <1>1, AddCounted, Zenon
  <1>2. CASE AllocDone
    BY <1>2, ServeCounted
  <1>3. ASSUME NEW b \in held, DeallocBegin(b) PROVE Counted'
    BY <1>3, ReleaseCounted, Zenon
  <1>4. CASE MergeDone
    <2>1. op.order \in Orders /\ op.kind = "merge"
      BY <1>4 DEF MergeDone, IInv, TypeOK, NoOp
    <2>2. /\ Avail' = Avail /\ HeldAddrs' = HeldAddrs
          /\ total_frames' = total_frames /\ free_frames' = free_frames + Frames(op.order)
          /\ Uncounted = Size[op.order] /\ Uncounted' = 0
      BY <1>4, <2>1, AvailKept, Zenon DEF MergeDone, Uncounted, NoOp, HeldAddrs
    <2>3. free_frames' * Size[0] = (free_frames * Size[0]) + Size[op.order]
          /\ Size[op.order] \in Nat
      BY <2>1, <2>2, CounterTypes, FramesCount, SizeFacts, Zenon
    <2> QED BY <2>2, <2>3, CounterTypes DEF Counted
  <1>5. ASSUME Avail' = Avail, HeldAddrs' = HeldAddrs, Uncounted' = Uncounted,
               UNCHANGED <<total_frames, free_frames>>
        PROVE  Counted'
    BY <1>5, Zenon DEF Counted
  <1>6. CASE \/ NextRange \/ SplitStep \/ MergeStep \/ AllocInvalid
             \/ \E order \in Orders : AllocBegin(order) \/ AllocFail(order)
    <2>1. Avail' = Avail /\ held' = held
      BY <1>6, AvailKept, Zenon
    <2>2. Uncounted' = Uncounted
      <3>1. CASE SplitStep
        BY <3>1, Zenon DEF SplitStep, IInv, TypeOK, NoOp, Uncounted
      <3>2. CASE MergeStep
        BY <3>2 DEF MergeStep, IInv, TypeOK, NoOp, Uncounted
      <3>3. CASE NextRange \/ AllocInvalid \/ \E order \in Orders : AllocFail(order)
        BY <3>3, Zenon DEF NextRange, AllocInvalid, AllocFail, Uncounted
      <3>4. CASE \E order \in Orders : AllocBegin(order)
        BY <3>4 DEF AllocBegin, Idle, Splitting, Uncounted
      <3> QED BY <1>6, <3>1, <3>2, <3>3, <3>4, Zenon
    <2>3. UNCHANGED <<total_frames, free_frames>>
      BY <1>6, Zenon DEF NextRange, SplitStep, MergeStep, AllocInvalid, AllocBegin, AllocFail
    <2> QED BY <1>5, <2>1, <2>2, <2>3, Zenon DEF HeldAddrs
  <1>7. CASE UNCHANGED vars
    BY <1>5, <1>7 DEF vars, Avail, FreeAddrs, HandAddrs, HeldAddrs, Idle, Uncounted
  <1> QED BY <1>1, <1>2, <1>3, <1>4, <1>6, <1>7, Zenon DEF Next

(* total_frames and free_frames count the frames there are and the free     *)
(* ones, for any map: free_frames never wraps below zero.                   *)
THEOREM CountersRight == Spec => []FrameCounts
  <1>1. Init => Counted
    <2> SUFFICES ASSUME Init PROVE Counted
      OBVIOUS
    <2>1. Idle /\ held = {} /\ (\A k \in Orders : free[k] = {})
      BY Zenon DEF Init, Idle, NoOp
    <2>2. Avail = {} /\ HeldAddrs = {}
      BY <2>1 DEF Avail, FreeAddrs, HandAddrs, HeldAddrs
    <2>3. Uncounted = 0 /\ free_frames = 0 /\ total_frames = 0 /\ Size[0] \in Nat
      BY SizeFacts, Zenon DEF Init, Uncounted, NoOp
    <2> QED BY <2>2, <2>3, FS_EmptySet DEF Counted
  <1>2. IInv /\ Counted /\ [Next]_vars => Counted'
    BY StepCounted, Zenon
  <1>3. IInv /\ Counted => FrameCounts
    <2> SUFFICES ASSUME IInv, Counted, Idle
                 PROVE  /\ free_frames * Size[0] = Cardinality(FreeAddrs)
                        /\ total_frames * Size[0] = Cardinality(FreeAddrs) + Cardinality(HeldAddrs)
      BY Zenon DEF FrameCounts
    <2>1. Avail = FreeAddrs /\ Uncounted = 0
      BY Zenon DEF Avail, HandAddrs, Uncounted, Idle
    <2> QED BY <2>1, CounterTypes DEF Counted
  <1> QED BY <1>1, <1>2, <1>3, SpecIInv, PTL DEF Spec
=============================================================================
