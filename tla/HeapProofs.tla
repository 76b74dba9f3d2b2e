----------------------------- MODULE HeapProofs -----------------------------
(***************************************************************************)
(* Proofs about Heap for any heap and header size and any set of layouts.  *)
(* TypeOK, OneOwner and LiveAligned are inductive together.                *)
(***************************************************************************)
EXTENDS Heap, TLAPS

(* Time for the solver on steps that a slow machine would not finish in its *)
(* usual five seconds.                                                      *)
USE SMTT(30)

HInv == TypeOK /\ OneOwner /\ LiveAligned

HoleType == [addr : Nat, size : Nat]

(* Removing an element of a list shifts the later ones down by one.         *)
LEMMA RemovedElements ==
  ASSUME NEW S, NEW s \in Seq(S), NEW n \in DOMAIN s
  PROVE  /\ RemoveAt(s, n) \in Seq(S)
         /\ DOMAIN RemoveAt(s, n) = 1..(Len(s) - 1)
         /\ \A j \in 1..(Len(s) - 1) :
              RemoveAt(s, n)[j] = s[IF j < n THEN j ELSE j + 1]
  <1> DEFINE a == SubSeq(s, 1, n - 1)
             b == SubSeq(s, n + 1, Len(s))
  <1>1. n \in 1..Len(s) /\ Len(s) \in Nat
    OBVIOUS
  <1>2. a \in Seq(S) /\ Len(a) = n - 1 /\ \A j \in 1..(n - 1) : a[j] = s[j]
    BY <1>1
  <1>3. b \in Seq(S) /\ Len(b) = Len(s) - n /\ \A j \in 1..(Len(s) - n) : b[j] = s[n + j]
    BY <1>1
  <1>4. RemoveAt(s, n) = a \o b
    BY Zenon DEF RemoveAt
  <1> HIDE DEF a, b
  <1>5. a \o b \in Seq(S) /\ Len(a \o b) = Len(s) - 1
    BY <1>1, <1>2, <1>3
  <1>6. ASSUME NEW j \in 1..(Len(s) - 1)
        PROVE  (a \o b)[j] = s[IF j < n THEN j ELSE j + 1]
    <2>1. CASE j < n
      BY <2>1, <1>1, <1>2, <1>3
    <2>2. CASE j >= n
      <3>1. (a \o b)[j] = b[j - (n - 1)]
        BY SMTT(30), <2>2, <1>1, <1>2, <1>3
      <3>2. j - (n - 1) \in 1..(Len(s) - n) /\ n + (j - (n - 1)) = j + 1
        BY <2>2, <1>1
      <3>3. b[j - (n - 1)] = s[n + (j - (n - 1))]
        BY <3>2, <1>3, Zenon
      <3>4. ~(j < n)
        BY <2>2, <1>1
      <3> QED BY <3>1, <3>2, <3>3, <3>4, Zenon
    <2>3. j < n \/ j >= n
      BY <1>1
    <2> QED BY <2>1, <2>2, <2>3, Zenon
  <1> QED BY <1>4, <1>5, <1>6

(* Prepending an element shifts the others up by one.                       *)
LEMMA PrependedElements ==
  ASSUME NEW S, NEW s \in Seq(S), NEW e \in S
  PROVE  /\ <<e>> \o s \in Seq(S)
         /\ DOMAIN (<<e>> \o s) = 1..(Len(s) + 1)
         /\ (<<e>> \o s)[1] = e
         /\ \A j \in 2..(Len(s) + 1) : j - 1 \in DOMAIN s /\ (<<e>> \o s)[j] = s[j - 1]
  OBVIOUS

(* Division with remainder.                                                 *)
LEMMA DivMod ==
  ASSUME NEW a \in Nat, NEW s \in Nat \ {0}
  PROVE  /\ a = ((a \div s) * s) + (a % s)
         /\ a \div s \in Nat
         /\ a % s \in 0..(s - 1)
  BY SMT

(* A multiple of s leaves no remainder.                                     *)
LEMMA Multiple ==
  ASSUME NEW m \in Nat, NEW s \in Nat \ {0}
  PROVE  (m * s) % s = 0
  BY SMT

(* A number without remainder is a multiple.                                *)
LEMMA Factor ==
  ASSUME NEW a \in Nat, NEW s \in Nat \ {0}, a % s = 0
  PROVE  \E m \in Nat : a = m * s
  <1>1. a = (a \div s) * s /\ a \div s \in Nat
    BY DivMod
  <1> QED BY <1>1, Zenon

(* The sum of two multiples of s is one.                                    *)
LEMMA AlignedSum ==
  ASSUME NEW a \in Nat, NEW b \in Nat, NEW s \in Nat \ {0}, a % s = 0, b % s = 0
  PROVE  (a + b) % s = 0
  <1>1. PICK m \in Nat : a = m * s
    BY Factor, Zenon
  <1>2. PICK n \in Nat : b = n * s
    BY Factor, Zenon
  <1>3. a + b = (m + n) * s /\ m + n \in Nat
    BY <1>1, <1>2
  <1> QED BY <1>3, Multiple, Zenon

(* A multiple of a multiple of s is a multiple of s.                        *)
LEMMA AlignedTransitive ==
  ASSUME NEW a \in Nat, NEW t \in Nat \ {0}, NEW s \in Nat \ {0}, a % t = 0, t % s = 0
  PROVE  a % s = 0
  <1>1. PICK m \in Nat : a = m * t
    BY Factor, Zenon
  <1>2. PICK n \in Nat : t = n * s
    BY Factor, Zenon
  <1>3. a = (m * n) * s /\ m * n \in Nat
    BY <1>1, <1>2
  <1> QED BY <1>3, Multiple, Zenon

(* AlignUp gives a multiple of the alignment that is not below its operand. *)
LEMMA AlignUpRounds ==
  ASSUME NEW x \in Nat, NEW s \in Nat \ {0}
  PROVE  /\ AlignUp(x, s) \in Nat
         /\ x <= AlignUp(x, s)
         /\ AlignUp(x, s) % s = 0
  <1>1. (x + s - 1) \in Nat
    OBVIOUS
  <1>2. (x + s - 1) \div s \in Nat
    BY <1>1, DivMod, Zenon
  <1> QED BY <1>1, <1>2, DivMod, Multiple DEF AlignUp

-----------------------------------------------------------------------------
(* What alloc_raw carves out for a layout: aligned, inside the hole, large  *)
(* enough for the caller and for a later header, with an aligned remainder. *)
LEMMA Carving ==
  ASSUME NEW l \in Layouts, NEW h \in HoleType, h.addr % HoleAlign = 0, FitsIn(h, l)
  PROVE  /\ Place(h, l) \in Nat /\ SizeOf(l) \in Nat /\ Required(h, l) \in Nat
         /\ h.addr <= Place(h, l)
         /\ Place(h, l) + SizeOf(l) = h.addr + Required(h, l)
         /\ Required(h, l) <= h.size
         /\ AtLeast(l.size, HoleSize) <= SizeOf(l)
         /\ Place(h, l) % AtLeast(l.align, HoleAlign) = 0
         /\ Place(h, l) % HoleAlign = 0
         /\ (Place(h, l) + SizeOf(l)) % HoleAlign = 0
  <1>1. l.size \in Nat \ {0} /\ l.align \in Nat \ {0} /\ h.addr \in Nat /\ h.size \in Nat
    BY HeapAssumption, Zenon DEF HoleType
  <1>2. AlignOf(l) \in Nat \ {0} /\ AtLeast(l.size, HoleSize) \in Nat
    BY <1>1, HeapAssumption, Zenon DEF AlignOf, AtLeast
  <1>3. HoleAlign % HoleAlign = 0
    <2>1. HoleAlign = 1 * HoleAlign
      BY HeapAssumption
    <2> QED BY <2>1, Multiple, HeapAssumption
  <1>4. AlignOf(l) % HoleAlign = 0
    <2>1. l.align = HoleAlign \/ l.align > HoleAlign \/ l.align < HoleAlign
      BY <1>1, HeapAssumption
    <2> QED BY <2>1, <1>1, <1>3, HeapAssumption DEF AlignOf, AtLeast
  <1>5. Place(h, l) \in Nat /\ h.addr <= Place(h, l) /\ Place(h, l) % AlignOf(l) = 0
    BY <1>1, <1>2, AlignUpRounds, Zenon DEF Place
  <1>6. SizeOf(l) \in Nat /\ AtLeast(l.size, HoleSize) <= SizeOf(l)
        /\ SizeOf(l) % AlignOf(l) = 0
    BY <1>2, AlignUpRounds, Zenon DEF SizeOf
  <1>7. Place(h, l) % HoleAlign = 0 /\ SizeOf(l) % HoleAlign = 0
    BY <1>2, <1>4, <1>5, <1>6, AlignedTransitive, HeapAssumption, Zenon
  <1>8. (Place(h, l) + SizeOf(l)) % HoleAlign = 0
    BY <1>5, <1>6, <1>7, AlignedSum, HeapAssumption, Zenon
  <1>9. /\ Required(h, l) \in Nat /\ Required(h, l) <= h.size
        /\ Place(h, l) + SizeOf(l) = h.addr + Required(h, l)
    BY <1>1, <1>5, <1>6 DEF Required, FitsIn
  <1>10. Place(h, l) % AtLeast(l.align, HoleAlign) = 0
    BY <1>5, Zenon DEF AlignOf
  <1> QED BY <1>5, <1>6, <1>7, <1>8, <1>9, <1>10, Zenon

(* A part of a range is disjoint from whatever the range is disjoint from.  *)
LEMMA PartDisjoint ==
  ASSUME NEW a \in Nat, NEW m \in Nat, NEW c \in Nat, NEW k \in Nat,
         NEW b \in Nat, NEW n \in Nat,
         a <= c, c + k <= a + m, Disjoint(a, m, b, n)
  PROVE  Disjoint(c, k, b, n) /\ Disjoint(b, n, c, k)
  BY DEF Disjoint

(* Disjointness is symmetric.                                               *)
LEMMA DisjointSymmetric ==
  ASSUME NEW a \in Nat, NEW m \in Nat, NEW b \in Nat, NEW n \in Nat, Disjoint(a, m, b, n)
  PROVE  Disjoint(b, n, a, m)
  BY Zenon DEF Disjoint

(* The heap starts as one hole with nothing allocated.                      *)
LEMMA InitHInv == Init => HInv
  <1> SUFFICES ASSUME Init PROVE HInv
    BY Zenon
  <1> DEFINE e == [addr |-> HeapStart, size |-> HeapSize]
  <1>1. e \in HoleType /\ e.addr = HeapStart /\ e.size = HeapSize
    BY HeapAssumption, Zenon DEF HoleType
  <1>2. holes = <<e>> /\ live = {}
    BY Zenon DEF Init
  <1> HIDE DEF e
  <1>3. holes \in Seq(HoleType) /\ DOMAIN holes = {1} /\ holes[1] = e
    BY <1>1, <1>2
  <1>4. TypeOK
    BY <1>1, <1>2, <1>3, HeapAssumption DEF TypeOK, HoleType, Inside
  <1> QED BY <1>2, <1>3, <1>4, Zenon DEF HInv, OneOwner, LiveAligned

-----------------------------------------------------------------------------
(* The range of hole g lies within that of hole h.                          *)
Within(g, h) == h.addr <= g.addr /\ g.addr + g.size <= h.addr + h.size

(* A range within a hole is disjoint from whatever the hole is disjoint     *)
(* from, on either side, and in the heap.                                   *)
LEMMA WithinFacts ==
  ASSUME NEW g, NEW h, g.addr \in Nat, g.size \in Nat, h.addr \in Nat, h.size \in Nat,
         Within(g, h)
  PROVE  /\ \A b, n \in Nat : Disjoint(h.addr, h.size, b, n)
              => Disjoint(g.addr, g.size, b, n) /\ Disjoint(b, n, g.addr, g.size)
         /\ Inside(h.addr, h.size) => Inside(g.addr, g.size)
  <1>1. /\ h.addr <= g.addr /\ g.addr + g.size <= h.addr + h.size
    BY Zenon DEF Within
  <1>2. ASSUME NEW b \in Nat, NEW n \in Nat, Disjoint(h.addr, h.size, b, n)
        PROVE  Disjoint(g.addr, g.size, b, n) /\ Disjoint(b, n, g.addr, g.size)
    BY <1>1, <1>2, PartDisjoint, Zenon
  <1>3. ASSUME Inside(h.addr, h.size)
        PROVE  Inside(g.addr, g.size)
    BY <1>1, <1>3, HeapAssumption DEF Inside
  <1> QED BY <1>2, <1>3, Zenon

(* What TypeOK says of the holes, one by one.                               *)
LEMMA HolesTyped ==
  ASSUME TypeOK
  PROVE  /\ holes \in Seq(HoleType)
         /\ \A j \in DOMAIN holes :
              /\ holes[j] \in HoleType /\ holes[j].addr \in Nat /\ holes[j].size \in Nat
              /\ holes[j].addr % HoleAlign = 0 /\ HoleSize <= holes[j].size
              /\ Inside(holes[j].addr, holes[j].size)
  <1>1. holes \in Seq(HoleType)
    BY Zenon DEF TypeOK, HoleType
  <1>2. \A j \in DOMAIN holes : holes[j] \in HoleType
    BY <1>1
  <1>3. \A x \in HoleType : x.addr \in Nat /\ x.size \in Nat
    BY Zenon DEF HoleType
  <1> QED BY <1>1, <1>2, <1>3, Zenon DEF TypeOK

(* alloc: every hole of the new list is a hole of the old one, or the tail  *)
(* of the one used, and is disjoint from the new allocation.                *)
LEMMA AllocHInv ==
  ASSUME HInv, NEW l \in Layouts, Alloc(l)
  PROVE  HInv'
  <1>1. PICK n \in DOMAIN holes :
          /\ IsFirstFit(n, l)
          /\ holes' = IF holes[n].size - Required(holes[n], l) >= HoleSize
                      THEN [holes EXCEPT ![n] =
                              [addr |-> Place(holes[n], l) + SizeOf(l),
                               size |-> holes[n].size - Required(holes[n], l)]]
                      ELSE RemoveAt(holes, n)
          /\ live' = live \cup {[addr |-> Place(holes[n], l),
                                 size |-> l.size, align |-> l.align]}
    BY Zenon DEF Alloc
  <1> DEFINE h == holes[n]
             at == Place(h, l)
             new == [addr |-> at, size |-> l.size, align |-> l.align]
             room == AtLeast(l.size, HoleSize)
             tail == [addr |-> at + SizeOf(l), size |-> h.size - Required(h, l)]
  <1>2. /\ holes \in Seq(HoleType)
        /\ \A j \in DOMAIN holes :
             /\ holes[j] \in HoleType /\ holes[j].addr \in Nat /\ holes[j].size \in Nat
             /\ holes[j].addr % HoleAlign = 0 /\ HoleSize <= holes[j].size
             /\ Inside(holes[j].addr, holes[j].size)
    BY HolesTyped, Zenon DEF HInv
  <1>3. /\ at \in Nat /\ SizeOf(l) \in Nat /\ Required(h, l) \in Nat
        /\ h.addr <= at /\ at + SizeOf(l) = h.addr + Required(h, l)
        /\ Required(h, l) <= h.size /\ room <= SizeOf(l)
        /\ at % AtLeast(l.align, HoleAlign) = 0 /\ at % HoleAlign = 0
        /\ (at + SizeOf(l)) % HoleAlign = 0
    BY <1>1, <1>2, Carving, Zenon DEF IsFirstFit
  <1>4. /\ l.size \in Nat \ {0} /\ l.align \in Nat \ {0} /\ room \in Nat
        /\ h.addr \in Nat /\ h.size \in Nat
    BY <1>2, HeapAssumption, Zenon DEF AtLeast
  <1>5. /\ new.addr = at /\ new.size = l.size /\ new.align = l.align
        /\ live' = live \cup {new}
    BY <1>1, Zenon
  <1>6. /\ h.addr <= at /\ at + room <= h.addr + h.size
        /\ \A b, m \in Nat : Disjoint(h.addr, h.size, b, m)
             => Disjoint(at, room, b, m) /\ Disjoint(b, m, at, room)
    <2> HIDE DEF h, at, room
    <2>1. h.addr <= at /\ at + room <= h.addr + h.size
      BY <1>3, <1>4
    <2>2. ASSUME NEW b \in Nat, NEW m \in Nat, Disjoint(h.addr, h.size, b, m)
          PROVE  Disjoint(at, room, b, m) /\ Disjoint(b, m, at, room)
      BY <2>1, <2>2, <1>3, <1>4, PartDisjoint, Zenon
    <2> QED BY <2>1, <2>2, Zenon
  <1>7. PICK f \in [DOMAIN holes' -> DOMAIN holes] :
          /\ holes' \in Seq(HoleType)
          /\ \A j, k \in DOMAIN holes' : j # k => f[j] # f[k]
          /\ \A j \in DOMAIN holes' :
               /\ holes'[j] \in HoleType /\ holes'[j].addr \in Nat /\ holes'[j].size \in Nat
               /\ Within(holes'[j], holes[f[j]])
               /\ holes'[j].addr % HoleAlign = 0 /\ HoleSize <= holes'[j].size
               /\ Disjoint(holes'[j].addr, holes'[j].size, at, room)
    <2>0. ASSUME NEW i \in DOMAIN holes, i # n
          PROVE  Disjoint(holes[i].addr, holes[i].size, at, room)
      <3>1. Disjoint(h.addr, h.size, holes[i].addr, holes[i].size)
        BY <2>0, Zenon DEF HInv, OneOwner
      <3> HIDE DEF h, at, room
      <3> QED BY <3>1, <1>2, <1>6, Zenon
    <2>1. CASE h.size - Required(h, l) >= HoleSize
      <3>1. holes' = [holes EXCEPT ![n] = tail]
        BY <1>1, <2>1, Zenon
      <3>2. /\ tail \in HoleType /\ tail.addr = at + SizeOf(l)
            /\ tail.size = h.size - Required(h, l)
        BY <1>3, <1>4 DEF HoleType
      <3>3. /\ tail.addr \in Nat /\ tail.size \in Nat
            /\ Within(tail, h) /\ tail.addr % HoleAlign = 0 /\ HoleSize <= tail.size
            /\ Disjoint(tail.addr, tail.size, at, room)
        <4> HIDE DEF tail, h, at, room
        <4>1. /\ h.size - Required(h, l) \in Nat /\ at + SizeOf(l) \in Nat
              /\ h.addr <= at + SizeOf(l)
              /\ (at + SizeOf(l)) + (h.size - Required(h, l)) <= h.addr + h.size
              /\ Disjoint(at + SizeOf(l), h.size - Required(h, l), at, room)
          BY <1>3, <1>4 DEF Disjoint
        <4>2. HoleSize <= tail.size
          BY <3>2, <4>1, <2>1, HeapAssumption, Zenon
        <4> QED BY <3>2, <4>1, <4>2, <1>3, Zenon DEF Within
      <3> HIDE DEF tail, h, at, room
      <3>4. DOMAIN holes' = DOMAIN holes /\ holes' \in Seq(HoleType)
            /\ holes'[n] = tail /\ \A j \in DOMAIN holes : j # n => holes'[j] = holes[j]
        BY <3>1, <3>2, <1>2
      <3> DEFINE f == [j \in DOMAIN holes' |-> j]
      <3>5. f \in [DOMAIN holes' -> DOMAIN holes]
        BY <3>4, Zenon
      <3>6. \A j \in DOMAIN holes : Within(holes[j], holes[j])
        BY <1>2 DEF Within
      <3>7. ASSUME NEW j \in DOMAIN holes'
            PROVE  /\ holes'[j] \in HoleType /\ holes'[j].addr \in Nat /\ holes'[j].size \in Nat
                   /\ Within(holes'[j], holes[j])
                   /\ holes'[j].addr % HoleAlign = 0 /\ HoleSize <= holes'[j].size
                   /\ Disjoint(holes'[j].addr, holes'[j].size, at, room)
        <4>1. CASE j = n
          BY <4>1, <3>2, <3>3, <3>4, Zenon DEF h
        <4>2. CASE j # n
          BY <4>2, <3>4, <3>6, <1>2, <2>0, Zenon
        <4> QED BY <4>1, <4>2, Zenon
      <3> QED BY <3>4, <3>5, <3>7, Zenon
    <2>2. CASE ~(h.size - Required(h, l) >= HoleSize)
      <3>1. holes' = RemoveAt(holes, n)
        BY <1>1, <2>2, Zenon
      <3>2. /\ holes' \in Seq(HoleType) /\ DOMAIN holes' = 1..(Len(holes) - 1)
            /\ \A j \in 1..(Len(holes) - 1) :
                 holes'[j] = holes[IF j < n THEN j ELSE j + 1]
        BY <3>1, <1>2, RemovedElements, Zenon
      <3> DEFINE f == [j \in DOMAIN holes' |-> IF j < n THEN j ELSE j + 1]
      <3>3. n \in 1..Len(holes) /\ DOMAIN holes = 1..Len(holes) /\ Len(holes) \in Nat
        BY <1>2
      <3>4. f \in [DOMAIN holes' -> DOMAIN holes]
        BY <3>2, <3>3
      <3>5. \A j, k \in DOMAIN holes' : j # k => f[j] # f[k]
        BY <3>2, <3>3
      <3>6. \A j \in DOMAIN holes' : f[j] # n /\ holes'[j] = holes[f[j]]
        BY <3>2, <3>3
      <3> HIDE DEF f, at, room
      <3>7. \A j \in DOMAIN holes : Within(holes[j], holes[j])
        BY <1>2 DEF Within
      <3>8. ASSUME NEW j \in DOMAIN holes'
            PROVE  /\ holes'[j] \in HoleType /\ holes'[j].addr \in Nat /\ holes'[j].size \in Nat
                   /\ Within(holes'[j], holes[f[j]])
                   /\ holes'[j].addr % HoleAlign = 0 /\ HoleSize <= holes'[j].size
                   /\ Disjoint(holes'[j].addr, holes'[j].size, at, room)
        <4>1. f[j] \in DOMAIN holes /\ f[j] # n /\ holes'[j] = holes[f[j]]
          BY <3>4, <3>6, Zenon
        <4> QED BY <4>1, <3>7, <1>2, <2>0, Zenon
      <3> QED BY <3>2, <3>4, <3>5, <3>8, Zenon
    <2> QED BY <2>1, <2>2, Zenon
  <1> HIDE DEF h, at, new, room, tail
  <1>8. new \in [addr : Nat, size : Nat \ {0}, align : Nat \ {0}]
    BY <1>3, <1>4, Zenon DEF new
  <1>9. TypeOK'
    <2>1. \A j \in DOMAIN holes' : Inside(holes'[j].addr, holes'[j].size)
      <3> SUFFICES ASSUME NEW j \in DOMAIN holes'
                   PROVE  Inside(holes'[j].addr, holes'[j].size)
        BY Zenon
      <3>1. f[j] \in DOMAIN holes
        BY <1>7, Zenon
      <3> QED BY <3>1, <1>2, <1>7, WithinFacts, Zenon
    <2> QED BY <2>1, <1>5, <1>7, <1>8, Zenon DEF HInv, TypeOK, HoleType
  <1>10. \A b \in live : /\ b.addr \in Nat /\ AtLeast(b.size, HoleSize) \in Nat
    BY HeapAssumption, Zenon DEF HInv, TypeOK, AtLeast
  <1>11. OneOwner'
    <2>1. ASSUME NEW j \in DOMAIN holes', NEW k \in DOMAIN holes', j # k
          PROVE  Disjoint(holes'[j].addr, holes'[j].size, holes'[k].addr, holes'[k].size)
      <3>1. f[j] \in DOMAIN holes /\ f[k] \in DOMAIN holes /\ f[j] # f[k]
        BY <1>7, <2>1, Zenon
      <3>2. Disjoint(holes[f[j]].addr, holes[f[j]].size, holes[f[k]].addr, holes[f[k]].size)
        BY <3>1, Zenon DEF HInv, OneOwner
      <3>3. Disjoint(holes[f[k]].addr, holes[f[k]].size, holes'[j].addr, holes'[j].size)
        BY <3>1, <3>2, <1>2, <1>7, WithinFacts, Zenon
      <3> QED BY <3>1, <3>3, <1>2, <1>7, WithinFacts, DisjointSymmetric, Zenon
    <2>2. ASSUME NEW j \in DOMAIN holes', NEW b \in live'
          PROVE  Disjoint(holes'[j].addr, holes'[j].size, b.addr, AtLeast(b.size, HoleSize))
      <3>1. CASE b = new
        BY <3>1, <1>5, <1>7, Zenon DEF room
      <3>2. CASE b \in live
        <4>1. f[j] \in DOMAIN holes
          BY <1>7, Zenon
        <4>2. Disjoint(holes[f[j]].addr, holes[f[j]].size, b.addr, AtLeast(b.size, HoleSize))
          BY <4>1, <3>2, Zenon DEF HInv, OneOwner
        <4> QED BY <4>1, <4>2, <3>2, <1>2, <1>7, <1>10, WithinFacts, Zenon
      <3> QED BY <3>1, <3>2, <1>5, Zenon
    <2>3. ASSUME NEW b \in live
          PROVE  /\ Disjoint(new.addr, AtLeast(new.size, HoleSize), b.addr, AtLeast(b.size, HoleSize))
                 /\ Disjoint(b.addr, AtLeast(b.size, HoleSize), new.addr, AtLeast(new.size, HoleSize))
      <3>1. Disjoint(h.addr, h.size, b.addr, AtLeast(b.size, HoleSize))
        BY Zenon DEF HInv, OneOwner, h
      <3>2. AtLeast(new.size, HoleSize) = room
        BY <1>5, Zenon DEF room
      <3> QED BY <3>1, <3>2, <1>5, <1>6, <1>10, Zenon
    <2>4. ASSUME NEW b \in live', NEW c \in live', b # c
          PROVE  Disjoint(b.addr, AtLeast(b.size, HoleSize), c.addr, AtLeast(c.size, HoleSize))
      <3>1. CASE b \in live /\ c \in live
        BY <3>1, <2>4, Zenon DEF HInv, OneOwner
      <3>2. CASE b = new \/ c = new
        BY <3>2, <2>3, <2>4, <1>5, Zenon
      <3> QED BY <3>1, <3>2, <1>5, Zenon
    <2> QED BY <2>1, <2>2, <2>4, Zenon DEF OneOwner
  <1>12. LiveAligned'
    <2>1. Inside(at, room)
      <3>1. Inside(h.addr, h.size)
        BY <1>2, Zenon DEF h
      <3> QED BY <3>1, <1>3, <1>4, <1>6, HeapAssumption DEF Inside
    <2>2. AtLeast(new.size, HoleSize) = room
      BY <1>5, Zenon DEF room
    <2> QED BY <2>1, <2>2, <1>3, <1>5, Zenon DEF HInv, LiveAligned
  <1> QED BY <1>9, <1>11, <1>12, Zenon DEF HInv

(* dealloc: the new hole takes no more than the allocation it replaces.     *)
LEMMA DeallocHInv ==
  ASSUME HInv, NEW b \in live, Dealloc(b)
  PROVE  HInv'
  <1> DEFINE room == AtLeast(b.size, HoleSize)
             e == [addr |-> b.addr, size |-> room]
  <1>1. holes' = <<e>> \o holes /\ live' = live \ {b}
    BY Zenon DEF Dealloc
  <1>2. /\ holes \in Seq(HoleType)
        /\ \A j \in DOMAIN holes :
             /\ holes[j] \in HoleType /\ holes[j].addr \in Nat /\ holes[j].size \in Nat
             /\ holes[j].addr % HoleAlign = 0 /\ HoleSize <= holes[j].size
             /\ Inside(holes[j].addr, holes[j].size)
    BY HolesTyped, Zenon DEF HInv
  <1>3. \A c \in live : c.addr \in Nat /\ c.size \in Nat
    BY Zenon DEF HInv, TypeOK
  <1>4. \A c \in live : AtLeast(c.size, HoleSize) \in Nat /\ HoleSize <= AtLeast(c.size, HoleSize)
    BY <1>3, HeapAssumption DEF AtLeast
  <1>5. e \in HoleType /\ e.addr = b.addr /\ e.size = room
    BY <1>3, <1>4, Zenon DEF HoleType
  <1>6. e.addr % HoleAlign = 0 /\ HoleSize <= e.size /\ Inside(e.addr, e.size)
    BY <1>4, <1>5, Zenon DEF HInv, LiveAligned
  <1> HIDE DEF e
  <1>7. /\ holes' \in Seq(HoleType) /\ DOMAIN holes' = 1..(Len(holes) + 1)
        /\ holes'[1] = e
        /\ \A j \in 2..(Len(holes) + 1) : j - 1 \in DOMAIN holes /\ holes'[j] = holes[j - 1]
    BY <1>1, <1>2, <1>5, PrependedElements
  <1>8. \A j \in DOMAIN holes' : j = 1 \/ (j \in 2..(Len(holes) + 1))
    BY <1>2, <1>7
  <1>9. TypeOK'
    <2>1. \A j \in DOMAIN holes' :
            /\ holes'[j].addr % HoleAlign = 0 /\ HoleSize <= holes'[j].size
            /\ Inside(holes'[j].addr, holes'[j].size)
      BY <1>2, <1>6, <1>7, <1>8
    <2> QED BY <2>1, <1>1, <1>7, Zenon DEF HInv, TypeOK, HoleType
  <1>10. \A j \in DOMAIN holes : \A c \in live :
           /\ Disjoint(holes[j].addr, holes[j].size, c.addr, AtLeast(c.size, HoleSize))
           /\ Disjoint(c.addr, AtLeast(c.size, HoleSize), holes[j].addr, holes[j].size)
    BY <1>2, <1>3, <1>4, DisjointSymmetric, Zenon DEF HInv, OneOwner
  <1>11. OneOwner'
    <2>1. ASSUME NEW j \in DOMAIN holes', NEW k \in DOMAIN holes', j # k
          PROVE  Disjoint(holes'[j].addr, holes'[j].size, holes'[k].addr, holes'[k].size)
      <3>1. CASE j = 1
        <4>1. k \in 2..(Len(holes) + 1)
          BY <1>8, <2>1, <3>1, Zenon
        <4> QED BY <4>1, <3>1, <1>5, <1>7, <1>10, Zenon
      <3>2. CASE k = 1
        <4>1. j \in 2..(Len(holes) + 1)
          BY <1>8, <2>1, <3>2, Zenon
        <4> QED BY <4>1, <3>2, <1>5, <1>7, <1>10, Zenon
      <3>3. CASE j # 1 /\ k # 1
        <4>1. j \in 2..(Len(holes) + 1) /\ k \in 2..(Len(holes) + 1)
          BY <1>8, <3>3, Zenon
        <4>2. /\ j - 1 \in DOMAIN holes /\ k - 1 \in DOMAIN holes /\ j - 1 # k - 1
              /\ holes'[j] = holes[j - 1] /\ holes'[k] = holes[k - 1]
          BY <4>1, <1>7, <2>1
        <4> QED BY <4>2, Zenon DEF HInv, OneOwner
      <3> QED BY <3>1, <3>2, <3>3, Zenon
    <2>2. ASSUME NEW j \in DOMAIN holes', NEW c \in live'
          PROVE  Disjoint(holes'[j].addr, holes'[j].size, c.addr, AtLeast(c.size, HoleSize))
      <3>1. CASE j = 1
        BY <3>1, <1>1, <1>5, <1>7, Zenon DEF HInv, OneOwner
      <3>2. CASE j \in 2..(Len(holes) + 1)
        BY <3>2, <1>1, <1>7, <1>10, Zenon
      <3> QED BY <3>1, <3>2, <1>8, Zenon
    <2>3. ASSUME NEW c \in live', NEW d \in live', c # d
          PROVE  Disjoint(c.addr, AtLeast(c.size, HoleSize), d.addr, AtLeast(d.size, HoleSize))
      BY <2>3, <1>1, Zenon DEF HInv, OneOwner
    <2> QED BY <2>1, <2>2, <2>3, Zenon DEF OneOwner
  <1>12. LiveAligned'
    BY <1>1, Zenon DEF HInv, LiveAligned
  <1> QED BY <1>9, <1>11, <1>12, Zenon DEF HInv

(* Every step of the heap preserves the invariant.                          *)
LEMMA StepHInv == HInv /\ [Next]_vars => HInv'
  <1> SUFFICES ASSUME HInv, [Next]_vars PROVE HInv'
    BY Zenon
  <1>1. CASE UNCHANGED vars
    BY <1>1, Zenon DEF vars, HInv, TypeOK, OneOwner, LiveAligned
  <1>2. ASSUME NEW l \in Layouts, Alloc(l) PROVE HInv'
    BY <1>2, AllocHInv, Zenon
  <1>3. ASSUME NEW l \in Layouts, AllocNull(l) PROVE HInv'
    BY <1>3, <1>1, Zenon DEF AllocNull
  <1>4. ASSUME NEW b \in live, Dealloc(b) PROVE HInv'
    BY <1>4, DeallocHInv, Zenon
  <1> QED BY <1>1, <1>2, <1>3, <1>4, Zenon DEF Next

(* The invariant holds in every reachable state.                            *)
LEMMA AlwaysHInv == Spec => []HInv
  BY InitHInv, StepHInv, PTL DEF Spec

(* Holes are always well formed: in the heap, aligned for their header and  *)
(* large enough to hold it, so writing a header never leaves the hole.      *)
THEOREM HeapTypeCorrect == Spec => []TypeOK
  <1>1. HInv => TypeOK
    BY Zenon DEF HInv
  <1> QED BY <1>1, AlwaysHInv, PTL

(* No byte of the kernel heap has two owners, whatever the layouts and the  *)
(* order in which alloc and dealloc are called.                             *)
THEOREM HeapOneOwner == Spec => []OneOwner
  <1>1. HInv => OneOwner
    BY Zenon DEF HInv
  <1> QED BY <1>1, AlwaysHInv, PTL

(* Every allocation of alloc is aligned for its caller and inside the heap. *)
THEOREM HeapAligned == Spec => []LiveAligned
  <1>1. HInv => LiveAligned
    BY Zenon DEF HInv
  <1> QED BY <1>1, AlwaysHInv, PTL
=============================================================================
