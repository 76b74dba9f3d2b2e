---------------------------- MODULE PagingProofs ----------------------------
(***************************************************************************)
(* Proofs about Paging.  The tables form a tree of four levels, and no     *)
(* frame that is a table, or that the allocator may yet hand out for one,  *)
(* loses its place at the virtual address equal to its own.  While that is *)
(* so, map_page changes one page and no other, at whatever level it is     *)
(* refused (MapPage), and the kernel's walk is the processor's             *)
(* (TranslateExact).                                                       *)
(***************************************************************************)
EXTENDS Paging, TLAPS

(* Time for the solver on steps that a slow machine would not finish in its *)
(* usual five seconds.                                                      *)
USE SMTT(30)

To(e) == e.frame

Huge(e) == "H" \in e.flags

Link(e) == Present(e) /\ ~Huge(e)

(* A relocation entry of a program.                                         *)
Relative(e) == "R" \in e.flags

(* Page i of a huge page.                                                   *)
Piece(e, i) == Entry(e.frame + i, e.flags \ {"H"})

At(m, f, i) == m[f][i]

Mem == [Frames -> [Idx -> Words]]

(* The processor's walk towards page v, one level after another.            *)
E4(m, v) == WordAt(m, Pml4, pml4_index(v))

E3(m, v) == Follow(m, E4(m, v), pdpt_index(v))

E2(m, v) == Follow(m, E3(m, v), pd_index(v))

(* lvl gives every table its level: 4 for Pml4, 1 for a table of pages, 0   *)
(* for a frame that is no table.  Links go down one level.                  *)
Descends(m, lvl) ==
  \A f \in Frames, i \in Idx : lvl[f] >= 2 /\ Link(At(m, f, i)) =>
    To(At(m, f, i)) \in Frames /\ lvl[To(At(m, f, i))] = lvl[f] - 1

(* Huge pages are those of the boot code.                                   *)
HugeAtHome(m, lvl) ==
  /\ \A f \in Frames, i \in Idx : lvl[f] >= 3 => ~Huge(At(m, f, i))
  /\ \A f \in Frames, i \in Idx : lvl[f] = 2 /\ Present(At(m, f, i)) /\ Huge(At(m, f, i)) =>
       f = Pd /\ To(At(m, f, i)) = i * Fan

(* No table is linked twice.                                                *)
OneParent(m, lvl) ==
  \A f, g \in Frames, i, j \in Idx :
    /\ lvl[f] >= 2 /\ Link(At(m, f, i))
    /\ lvl[g] >= 2 /\ Link(At(m, g, j))
    /\ To(At(m, f, i)) = To(At(m, g, j))
    => f = g /\ i = j

(* Every table but Pml4 is linked.                                          *)
HasParent(m, lvl) ==
  \A g \in Frames : lvl[g] \in 1..3 =>
    \E f \in Frames, i \in Idx :
      lvl[f] = lvl[g] + 1 /\ Link(At(m, f, i)) /\ To(At(m, f, i)) = g

(* What the boot code linked stays linked.                                  *)
Root(m, lvl) ==
  /\ lvl[Pml4] = 4 /\ lvl[Pdpt] = 3 /\ lvl[Pd] = 2
  /\ At(m, Pml4, 0) = Linked(Pdpt) /\ At(m, Pdpt, 0) = Linked(Pd)
  /\ \A f \in Frames : lvl[f] = 4 => f = Pml4

Tree(m, lvl) ==
  /\ m \in Mem
  /\ lvl \in [Frames -> 0..4]
  /\ Root(m, lvl)
  /\ Descends(m, lvl)
  /\ HugeAtHome(m, lvl)
  /\ OneParent(m, lvl)
  /\ HasParent(m, lvl)

(* Every frame that is or may become a table is mapped at its own address.  *)
Identity(m) == \A f \in Managed : To(Leaf(m, f)) = f /\ Present(Leaf(m, f))

(* The allocator's frames are different ones, none of them a table.         *)
Spare(fr, lvl) ==
  /\ fr \in Seq(Managed)
  /\ \A j, k \in DOMAIN fr : fr[j] = fr[k] => j = k
  /\ \A k \in DOMAIN fr : lvl[fr[k]] = 0
  /\ \A f \in Frames : lvl[f] > 0 => f \in Managed

(* A page that leads elsewhere than to the frame of its own number.         *)
Moved(m, v) == Present(Leaf(m, v)) /\ To(Leaf(m, v)) # v

(* A frame in use for something else than a table.                          *)
InUse(f, fr, lvl) == f \in Managed /\ lvl[f] = 0 /\ f \notin FreeSet(fr)

(* The frames of moved pages and the kernel stack are apart.                *)
Apart(m, fr, k, lvl) ==
  /\ \A v \in Virtual : Moved(m, v) => InUse(To(Leaf(m, v)), fr, lvl) /\ To(Leaf(m, v)) # k
  /\ \A u, v \in Virtual :
       Moved(m, u) /\ Moved(m, v) /\ To(Leaf(m, u)) = To(Leaf(m, v)) => u = v
  /\ k = 0 \/ InUse(k, fr, lvl)

Sound(m, fr, k, lvl) == Tree(m, lvl) /\ Identity(m) /\ Spare(fr, lvl) /\ Apart(m, fr, k, lvl)

-----------------------------------------------------------------------------
(* Page numbers and their four digits.                                      *)

(* Division with remainder.                                                 *)
LEMMA DivMod ==
  ASSUME NEW a \in Nat, NEW s \in Nat \ {0}
  PROVE  /\ a = ((a \div s) * s) + (a % s)
         /\ a \div s \in Nat
         /\ a % s \in 0..(s - 1)
  BY SMT

(* Division is monotonic.                                                   *)
LEMMA DivMono ==
  ASSUME NEW s \in Nat \ {0}, NEW a \in Nat, NEW b \in Nat, a <= b
  PROVE  a \div s <= b \div s
  <1> DEFINE q == a \div s
             r == b \div s
  <1>1. /\ q \in Nat /\ r \in Nat
        /\ a = (q * s) + (a % s) /\ b = (r * s) + (b % s)
        /\ a % s \in 0..(s - 1) /\ b % s \in 0..(s - 1)
    BY DivMod, Zenon
  <1> HIDE DEF q, r
  <1>2. ASSUME q >= r + 1 PROVE FALSE
    <2>1. q * s >= (r + 1) * s
      BY ONLY <1>1, <1>2, s \in Nat \ {0}, SMT
    <2>2. (r + 1) * s = (r * s) + s /\ r * s \in Nat /\ q * s \in Nat
      BY ONLY <1>1, s \in Nat \ {0}, SMT
    <2> QED BY ONLY <1>1, <2>1, <2>2, a <= b, s \in Nat \ {0}, a \in Nat, b \in Nat
  <1>3. q <= r
    BY <1>1, <1>2
  <1> QED BY <1>3, Zenon DEF q, r

(* The digits of a page number are indices of a table.                      *)
LEMMA Digits ==
  ASSUME NEW v \in Nat
  PROVE  /\ pml4_index(v) \in Idx /\ pdpt_index(v) \in Idx
         /\ pd_index(v) \in Idx /\ pt_index(v) \in Idx
         /\ v \div Fan \in Nat /\ (v \div Fan) \div Fan \in Nat
         /\ ((v \div Fan) \div Fan) \div Fan \in Nat
  <1>1. Fan \in Nat \ {0}
    BY PagingAssumption, Zenon
  <1>2. v \div Fan \in Nat /\ v % Fan \in 0..(Fan - 1)
    BY <1>1, DivMod, Zenon
  <1>3. (v \div Fan) \div Fan \in Nat /\ (v \div Fan) % Fan \in 0..(Fan - 1)
    BY <1>1, <1>2, DivMod, Zenon
  <1>4. /\ ((v \div Fan) \div Fan) \div Fan \in Nat
        /\ ((v \div Fan) \div Fan) % Fan \in 0..(Fan - 1)
    BY <1>1, <1>3, DivMod, Zenon
  <1>5. (((v \div Fan) \div Fan) \div Fan) % Fan \in 0..(Fan - 1)
    BY <1>1, <1>4, DivMod, Zenon
  <1> QED BY <1>2, <1>3, <1>4, <1>5, Zenon DEF pml4_index, pdpt_index, pd_index, pt_index, Idx

(* A number below the base is its own last digit.                           *)
LEMMA OneDigit ==
  ASSUME NEW s \in Nat \ {0}, NEW a \in Nat, a < s
  PROVE  a % s = a /\ a \div s = 0
  BY SMT

(* Four digits tell the pages apart.                                        *)
LEMMA DigitsTell ==
  ASSUME NEW u \in Virtual, NEW v \in Virtual,
         pml4_index(u) = pml4_index(v), pdpt_index(u) = pdpt_index(v),
         pd_index(u) = pd_index(v), pt_index(u) = pt_index(v)
  PROVE  u = v
  <1> DEFINE u1 == u \div Fan
             u2 == u1 \div Fan
             u3 == u2 \div Fan
             v1 == v \div Fan
             v2 == v1 \div Fan
             v3 == v2 \div Fan
  <1>1. Fan \in Nat \ {0} /\ u \in Nat /\ v \in Nat
    BY PagingAssumption, Zenon DEF Virtual
  <1>2. u1 \in Nat /\ v1 \in Nat /\ u = (u1 * Fan) + (u % Fan) /\ v = (v1 * Fan) + (v % Fan)
    BY <1>1, DivMod, Zenon
  <1>3. u2 \in Nat /\ v2 \in Nat /\ u1 = (u2 * Fan) + (u1 % Fan) /\ v1 = (v2 * Fan) + (v1 % Fan)
    BY <1>1, <1>2, DivMod, Zenon
  <1>4. u3 \in Nat /\ v3 \in Nat /\ u2 = (u3 * Fan) + (u2 % Fan) /\ v2 = (v3 * Fan) + (v2 % Fan)
    BY <1>1, <1>3, DivMod, Zenon
  <1>5. u3 < Fan /\ v3 < Fan
    BY Zenon DEF Virtual
  <1>6. u3 = v3
    <2>1. u3 % Fan = v3 % Fan
      BY Zenon DEF pml4_index
    <2>2. u3 % Fan = u3 /\ v3 % Fan = v3
      BY <1>1, <1>4, <1>5, OneDigit, Zenon
    <2> QED BY <2>1, <2>2, Zenon
  <1>7. u2 = v2
    <2>1. u2 % Fan = v2 % Fan
      BY Zenon DEF pdpt_index
    <2> QED BY ONLY <1>4, <1>6, <2>1, Zenon
  <1>8. u1 = v1
    <2>1. u1 % Fan = v1 % Fan
      BY Zenon DEF pd_index
    <2> QED BY ONLY <1>3, <1>7, <2>1, Zenon
  <1> QED
    <2>1. u % Fan = v % Fan
      BY Zenon DEF pt_index
    <2> QED BY ONLY <1>2, <1>8, <2>1, Zenon

(* A page whose first two digits are 0 lies in the boot code's huge pages.  *)
LEMMA LowPage ==
  ASSUME NEW v \in Virtual, pml4_index(v) = 0, pdpt_index(v) = 0
  PROVE  v = (pd_index(v) * Fan) + pt_index(v)
  <1> DEFINE v1 == v \div Fan
             v2 == v1 \div Fan
             v3 == v2 \div Fan
  <1>1. Fan \in Nat \ {0} /\ v \in Nat
    BY PagingAssumption, Zenon DEF Virtual
  <1>2. v1 \in Nat /\ v = (v1 * Fan) + (v % Fan)
    BY <1>1, DivMod, Zenon
  <1>3. v2 \in Nat /\ v1 = (v2 * Fan) + (v1 % Fan)
    BY <1>1, <1>2, DivMod, Zenon
  <1>4. v3 \in Nat /\ v2 = (v3 * Fan) + (v2 % Fan) /\ v3 < Fan
    BY <1>1, <1>3, DivMod, Zenon DEF Virtual
  <1>5. v3 = 0
    <2>1. v3 % Fan = v3
      BY <1>1, <1>4, OneDigit, Zenon
    <2> QED BY <2>1, Zenon DEF pml4_index
  <1>6. v2 = 0
    <2>1. v2 % Fan = 0
      BY Zenon DEF pdpt_index
    <2>2. v3 * Fan = 0
      BY <1>1, <1>5
    <2> QED BY ONLY <1>4, <2>1, <2>2
  <1>7. v1 = v1 % Fan
    <2>1. v2 * Fan = 0
      BY <1>1, <1>6
    <2>2. v1 % Fan \in 0..(Fan - 1)
      BY <1>1, <1>2, DivMod, Zenon
    <2> QED BY ONLY <1>3, <2>1, <2>2
  <1>8. v = ((v1 % Fan) * Fan) + (v % Fan)
    BY ONLY <1>2, <1>7, Zenon
  <1> QED BY <1>8, Zenon DEF pd_index, pt_index

(* The frames are the pages of the boot code's huge pages.                  *)
LEMMA FrameDigits ==
  ASSUME NEW f \in Frames
  PROVE  /\ f \in Nat /\ f \in Virtual
         /\ pml4_index(f) = 0 /\ pdpt_index(f) = 0
         /\ f = (pd_index(f) * Fan) + pt_index(f)
  <1> DEFINE f1 == f \div Fan
  <1>1. Fan \in Nat \ {0} /\ f \in Nat /\ f < Fan * Fan
    BY PagingAssumption
  <1>2. f1 \in Nat /\ f = (f1 * Fan) + (f % Fan) /\ f % Fan \in 0..(Fan - 1)
    BY <1>1, DivMod, Zenon
  <1>3. f1 < Fan
    <2> HIDE DEF f1
    <2>1. ASSUME f1 >= Fan PROVE FALSE
      <3>1. f1 * Fan >= Fan * Fan
        BY ONLY <1>1, <1>2, <2>1, SMT
      <3>2. f1 * Fan \in Nat /\ Fan * Fan \in Nat
        BY ONLY <1>1, <1>2, SMT
      <3> QED BY ONLY <1>1, <1>2, <3>1, <3>2
    <2> QED BY <1>1, <1>2, <2>1
  <1>4. f1 \div Fan = 0 /\ f1 % Fan = f1
    BY <1>1, <1>2, <1>3, OneDigit, Zenon
  <1>5. 0 \div Fan = 0 /\ 0 % Fan = 0
    BY <1>1, OneDigit
  <1>6. pml4_index(f) = 0 /\ pdpt_index(f) = 0
    BY <1>4, <1>5, Zenon DEF pml4_index, pdpt_index
  <1>7. f \in Virtual
    <2>1. ((f \div Fan) \div Fan) \div Fan = 0
      BY <1>4, <1>5, Zenon
    <2> QED BY <1>1, <2>1 DEF Virtual
  <1> QED BY <1>1, <1>6, <1>7, LowPage, Zenon

(* The boot code's tables.                                                  *)
LEMMA BootTables ==
  /\ Fan \in Nat \ {0} /\ 0 \in Idx /\ Idx \subseteq Nat
  /\ Pml4 \in Frames /\ Pdpt \in Frames /\ Pd \in Frames
  /\ Pml4 \in Nat /\ Pdpt \in Nat /\ Pd \in Nat
  <1>1. Fan \in Nat \ {0} /\ Pml4 \in Frames /\ Pdpt \in Frames /\ Pd \in Frames
    BY PagingAssumption, Zenon
  <1>2. Pml4 \in Nat /\ Pdpt \in Nat /\ Pd \in Nat
    BY <1>1, FrameDigits, Zenon
  <1>3. 0 \in Idx /\ Idx \subseteq Nat
    BY <1>1 DEF Idx
  <1> QED BY <1>1, <1>2, <1>3, Zenon

-----------------------------------------------------------------------------
(* The walk in a tree.                                                      *)

(* The words that map_page writes.                                          *)
LEMMA WordFacts ==
  /\ Unused \in Words /\ ~Present(Unused) /\ ~Link(Unused) /\ ~Huge(Unused)
  /\ \A f \in Nat : /\ Linked(f) \in Words /\ Link(Linked(f)) /\ Present(Linked(f))
                    /\ To(Linked(f)) = f /\ ~Huge(Linked(f))
  /\ \A w \in Words : To(w) \in Nat
  /\ \A w \in Words, i \in Nat : Piece(w, i) \in Words /\ To(Piece(w, i)) = To(w) + i
  BY DEF Unused, Linked, Entry, Words, PageFlags, Present, Link, To, Huge, Piece

(* What memory holds are words.                                             *)
LEMMA AtWord ==
  ASSUME NEW m \in Mem, NEW f \in Frames, NEW i \in Idx
  PROVE  At(m, f, i) \in Words /\ WordAt(m, f, i) = At(m, f, i)
  BY Zenon DEF Mem, At, WordAt

(* The frames that may be tables are frames other than 0.                   *)
LEMMA ManagedFrames == Managed \subseteq Frames \ {0}
  <1>1. \A l \in FreeLists : l \in Seq(Frames \ {0, Pml4, Pdpt, Pd})
    BY PagingAssumption, Zenon
  <1>2. \A l \in FreeLists : FreeSet(l) \subseteq Frames \ {0}
    BY <1>1 DEF FreeSet
  <1> QED BY <1>2, PagingAssumption, Zenon DEF Managed

(* What the walk meets, level by level.                                     *)
WalkTop(m, lvl, v) ==
  /\ E4(m, v) \in Words /\ E4(m, v) = At(m, Pml4, pml4_index(v))
  /\ Present(E4(m, v)) =>
       /\ Link(E4(m, v)) /\ To(E4(m, v)) \in Frames /\ lvl[To(E4(m, v))] = 3
       /\ E3(m, v) = At(m, To(E4(m, v)), pdpt_index(v))
  /\ ~Present(E4(m, v)) => E3(m, v) = Unused

WalkMid(m, lvl, v) ==
  /\ E3(m, v) \in Words
  /\ Present(E3(m, v)) =>
       /\ Present(E4(m, v))
       /\ Link(E3(m, v)) /\ To(E3(m, v)) \in Frames /\ lvl[To(E3(m, v))] = 2
       /\ E2(m, v) = At(m, To(E3(m, v)), pd_index(v))
  /\ ~Present(E3(m, v)) => E2(m, v) = Unused

WalkLow(m, lvl, v) ==
  /\ E2(m, v) \in Words
  /\ Present(E2(m, v)) => Present(E3(m, v)) /\ Present(E4(m, v))
  /\ Link(E2(m, v)) =>
       /\ To(E2(m, v)) \in Frames /\ lvl[To(E2(m, v))] = 1
       /\ Leaf(m, v) = At(m, To(E2(m, v)), pt_index(v))
  /\ Present(E2(m, v)) /\ Huge(E2(m, v)) =>
       /\ To(E3(m, v)) = Pd /\ To(E2(m, v)) = pd_index(v) * Fan
       /\ Leaf(m, v) = Piece(E2(m, v), pt_index(v))
  /\ ~Present(E2(m, v)) => Leaf(m, v) = Unused
  /\ Leaf(m, v) \in Words

Walk(m, lvl, v) == WalkTop(m, lvl, v) /\ WalkMid(m, lvl, v) /\ WalkLow(m, lvl, v)

(* In a tree every walk is of that form.                                    *)
LEMMA WalkInTree ==
  ASSUME NEW m, NEW lvl, Tree(m, lvl), NEW v \in Nat
  PROVE  Walk(m, lvl, v)
  <1> DEFINE a == E4(m, v)
             b == E3(m, v)
             c == E2(m, v)
             i4 == pml4_index(v)
             i3 == pdpt_index(v)
             i2 == pd_index(v)
             i1 == pt_index(v)
  <1>1. i4 \in Idx /\ i3 \in Idx /\ i2 \in Idx /\ i1 \in Idx
    BY Digits, Zenon
  <1>2. \A f \in Frames, i \in Idx : At(m, f, i) \in Words /\ WordAt(m, f, i) = At(m, f, i)
    BY AtWord, Zenon DEF Tree
  <1>3. a = At(m, Pml4, i4) /\ Pml4 \in Frames /\ lvl[Pml4] = 4
    <2>1. Pml4 \in Frames /\ lvl[Pml4] = 4
      BY BootTables, Zenon DEF Tree, Root
    <2> QED BY <1>1, <1>2, <2>1, Zenon DEF E4
  <1>4. a \in Words /\ ~Huge(a)
    BY <1>1, <1>2, <1>3 DEF Tree, HugeAtHome
  <1>5. Present(a) => Link(a) /\ To(a) \in Frames /\ lvl[To(a)] = 3 /\ b = At(m, To(a), i3)
    <2> SUFFICES ASSUME Present(a) PROVE Link(a) /\ To(a) \in Frames /\ lvl[To(a)] = 3
                                         /\ b = At(m, To(a), i3)
      BY Zenon
    <2>1. Link(a)
      BY <1>4, Zenon DEF Link
    <2>2. To(a) \in Frames /\ lvl[To(a)] = 3
      <3>1. Link(At(m, Pml4, i4)) /\ lvl[Pml4] >= 2
        BY <1>3, <2>1
      <3>2. To(At(m, Pml4, i4)) \in Frames /\ lvl[To(At(m, Pml4, i4))] = lvl[Pml4] - 1
        BY <1>1, <1>3, <3>1, Zenon DEF Tree, Descends
      <3> QED BY <1>3, <3>2
    <2> QED BY <1>1, <1>2, <2>1, <2>2, Zenon DEF E3, Follow, To
  <1>6. ~Present(a) => b = Unused
    BY Zenon DEF E3, Follow
  <1>7. b \in Words /\ (Present(b) => Present(a)) /\ (Present(b) => ~Huge(b))
    <2>1. CASE Present(a)
      <3>1. b = At(m, To(a), i3) /\ To(a) \in Frames /\ lvl[To(a)] >= 3
        BY <1>5, <2>1
      <3> QED BY <1>1, <1>2, <2>1, <3>1, Zenon DEF Tree, HugeAtHome
    <2>2. CASE ~Present(a)
      BY <1>6, <2>2, WordFacts, Zenon
    <2> QED BY <2>1, <2>2, Zenon
  <1>8. Present(b) => Link(b) /\ To(b) \in Frames /\ lvl[To(b)] = 2 /\ c = At(m, To(b), i2)
    <2> SUFFICES ASSUME Present(b) PROVE Link(b) /\ To(b) \in Frames /\ lvl[To(b)] = 2
                                         /\ c = At(m, To(b), i2)
      BY Zenon
    <2>1. Link(b)
      BY <1>7, Zenon DEF Link
    <2>2. b = At(m, To(a), i3) /\ To(a) \in Frames /\ lvl[To(a)] = 3
      BY <1>5, <1>7, Zenon
    <2>3. To(b) \in Frames /\ lvl[To(b)] = 2
      <3>1. Link(At(m, To(a), i3)) /\ lvl[To(a)] >= 2
        BY <2>1, <2>2
      <3>2. To(At(m, To(a), i3)) \in Frames /\ lvl[To(At(m, To(a), i3))] = lvl[To(a)] - 1
        BY <1>1, <2>2, <3>1, Zenon DEF Tree, Descends
      <3> QED BY <2>2, <3>2
    <2> QED BY <1>1, <1>2, <2>1, <2>3, Zenon DEF E2, Follow, To
  <1>9. ~Present(b) => c = Unused
    BY DEF E2, Follow
  <1>10. c \in Words /\ (Present(c) => Present(b))
    <2>1. CASE Present(b)
      BY <1>1, <1>2, <1>8, <2>1, Zenon
    <2>2. CASE ~Present(b)
      BY <1>9, <2>2, WordFacts, Zenon
    <2> QED BY <2>1, <2>2, Zenon
  <1>11. Link(c) => To(c) \in Frames /\ lvl[To(c)] = 1 /\ Leaf(m, v) = At(m, To(c), i1)
    <2> SUFFICES ASSUME Link(c) PROVE To(c) \in Frames /\ lvl[To(c)] = 1
                                      /\ Leaf(m, v) = At(m, To(c), i1)
      BY Zenon
    <2>1. c = At(m, To(b), i2) /\ To(b) \in Frames /\ lvl[To(b)] = 2
      BY <1>8, <1>10, Zenon DEF Link
    <2>2. To(c) \in Frames /\ lvl[To(c)] = 1
      <3>1. Link(At(m, To(b), i2)) /\ lvl[To(b)] >= 2
        BY <2>1
      <3>2. To(At(m, To(b), i2)) \in Frames /\ lvl[To(At(m, To(b), i2))] = lvl[To(b)] - 1
        BY <1>1, <2>1, <3>1, Zenon DEF Tree, Descends
      <3> QED BY <2>1, <3>2
    <2>3. Leaf(m, v) = Follow(m, c, i1)
      BY Zenon DEF Leaf, Link, Huge, E2, E3, E4
    <2> QED BY <1>1, <1>2, <2>2, <2>3, Zenon DEF Follow, Link, To
  <1>12. Present(c) /\ Huge(c) =>
           /\ To(b) = Pd /\ To(c) = i2 * Fan
           /\ Leaf(m, v) = Piece(c, i1)
    <2> SUFFICES ASSUME Present(c), Huge(c)
                 PROVE  /\ To(b) = Pd /\ To(c) = i2 * Fan
                        /\ Leaf(m, v) = Piece(c, i1)
      BY Zenon
    <2>1. c = At(m, To(b), i2) /\ To(b) \in Frames /\ lvl[To(b)] = 2
      BY <1>8, <1>10, Zenon
    <2>2. To(b) = Pd /\ To(At(m, To(b), i2)) = i2 * Fan
      BY <1>1, <2>1, Zenon DEF Tree, HugeAtHome
    <2> QED BY <2>1, <2>2, Zenon DEF Leaf, Huge, Piece, E2, E3, E4
  <1>13. ~Present(c) => Leaf(m, v) = Unused
    BY Zenon DEF Leaf, E2, E3, E4, Follow
  <1>14. Leaf(m, v) \in Words
    <2>1. CASE Link(c)
      BY <1>1, <1>2, <1>11, <2>1, Zenon
    <2>2. CASE Present(c) /\ Huge(c)
      <3>1. i1 \in Nat
        BY <1>1, BootTables, Zenon
      <3> QED BY <1>10, <1>12, <2>2, <3>1, WordFacts, Zenon
    <2>3. CASE ~Present(c)
      BY <1>13, <2>3, WordFacts, Zenon
    <2> QED BY <2>1, <2>2, <2>3, Zenon DEF Link
  <1> HIDE DEF a, b, c, i4, i3, i2, i1
  <1>15. WalkTop(m, lvl, v)
    BY <1>3, <1>4, <1>5, <1>6, Zenon DEF WalkTop, a, b, i4, i3
  <1>16. WalkMid(m, lvl, v)
    BY <1>7, <1>8, <1>9, Zenon DEF WalkMid, a, b, c, i2
  <1>17. WalkLow(m, lvl, v)
    BY <1>7, <1>10, <1>11, <1>12, <1>13, <1>14, Zenon DEF WalkLow, a, b, c, i2, i1
  <1> QED BY <1>15, <1>16, <1>17, Zenon DEF Walk

(* In a tree two pages with the same last table and last digit are one.     *)
LEMMA UniquePath ==
  ASSUME NEW m, NEW lvl, Tree(m, lvl), NEW u \in Virtual, NEW v \in Virtual,
         Link(E2(m, u)), Link(E2(m, v)), To(E2(m, u)) = To(E2(m, v)),
         pt_index(u) = pt_index(v)
  PROVE  u = v
  <1>1. u \in Nat /\ v \in Nat
    BY Zenon DEF Virtual
  <1>2. /\ WalkTop(m, lvl, u) /\ WalkMid(m, lvl, u) /\ WalkLow(m, lvl, u)
        /\ WalkTop(m, lvl, v) /\ WalkMid(m, lvl, v) /\ WalkLow(m, lvl, v)
    BY <1>1, WalkInTree, Zenon DEF Walk
  <1>8. /\ Present(E4(m, u)) /\ Present(E3(m, u)) /\ Present(E2(m, u))
        /\ Present(E4(m, v)) /\ Present(E3(m, v)) /\ Present(E2(m, v))
    BY <1>2, Zenon DEF WalkLow, Link
  <1>3. /\ pml4_index(u) \in Idx /\ pdpt_index(u) \in Idx /\ pd_index(u) \in Idx
        /\ pml4_index(v) \in Idx /\ pdpt_index(v) \in Idx /\ pd_index(v) \in Idx
    BY <1>1, Digits, Zenon
  <1>4. \A f, g \in Frames, i, j \in Idx :
           /\ lvl[f] >= 2 /\ Link(At(m, f, i))
           /\ lvl[g] >= 2 /\ Link(At(m, g, j))
           /\ To(At(m, f, i)) = To(At(m, g, j))
           => f = g /\ i = j
    BY Zenon DEF Tree, OneParent
  <1>5. To(E3(m, u)) = To(E3(m, v)) /\ pd_index(u) = pd_index(v)
    <2>1. /\ E2(m, u) = At(m, To(E3(m, u)), pd_index(u)) /\ To(E3(m, u)) \in Frames
          /\ E2(m, v) = At(m, To(E3(m, v)), pd_index(v)) /\ To(E3(m, v)) \in Frames
          /\ lvl[To(E3(m, u))] = 2 /\ lvl[To(E3(m, v))] = 2
      BY <1>2, <1>8, Zenon DEF WalkMid
    <2> QED BY <1>3, <1>4, <2>1
  <1>6. To(E4(m, u)) = To(E4(m, v)) /\ pdpt_index(u) = pdpt_index(v)
    <2>1. /\ E3(m, u) = At(m, To(E4(m, u)), pdpt_index(u)) /\ To(E4(m, u)) \in Frames
          /\ E3(m, v) = At(m, To(E4(m, v)), pdpt_index(v)) /\ To(E4(m, v)) \in Frames
          /\ lvl[To(E4(m, u))] = 3 /\ lvl[To(E4(m, v))] = 3
          /\ Link(E3(m, u)) /\ Link(E3(m, v))
      <3>1. Link(E3(m, u)) /\ Link(E3(m, v))
        BY <1>2, <1>8, Zenon DEF WalkMid
      <3> QED BY <1>2, <1>8, <3>1, Zenon DEF WalkTop
    <2> QED BY <1>3, <1>4, <1>5, <2>1
  <1>7. pml4_index(u) = pml4_index(v)
    <2>1. /\ E4(m, u) = At(m, Pml4, pml4_index(u)) /\ E4(m, v) = At(m, Pml4, pml4_index(v))
          /\ Link(E4(m, u)) /\ Link(E4(m, v))
      BY <1>2, <1>8, Zenon DEF WalkTop
    <2>2. Pml4 \in Frames /\ lvl[Pml4] = 4
      BY BootTables, Zenon DEF Tree, Root
    <2> QED BY <1>3, <1>4, <1>6, <2>1, <2>2
  <1> QED BY <1>5, <1>6, <1>7, DigitsTell, Zenon

(* A page inside a huge page leads to the frame of its own number.          *)
LEMMA HugeIdentity ==
  ASSUME NEW m, NEW lvl, Tree(m, lvl), NEW v \in Virtual,
         Present(E2(m, v)), Huge(E2(m, v))
  PROVE  To(Leaf(m, v)) = v
  <1>1. v \in Nat /\ WalkTop(m, lvl, v) /\ WalkMid(m, lvl, v) /\ WalkLow(m, lvl, v)
    BY WalkInTree, Zenon DEF Virtual, Walk
  <1>2. pml4_index(v) \in Idx /\ pdpt_index(v) \in Idx /\ 0 \in Idx
    BY <1>1, Digits, BootTables, Zenon
  <1>3. \A f, g \in Frames, i, j \in Idx :
           /\ lvl[f] >= 2 /\ Link(At(m, f, i))
           /\ lvl[g] >= 2 /\ Link(At(m, g, j))
           /\ To(At(m, f, i)) = To(At(m, g, j))
           => f = g /\ i = j
    BY Zenon DEF Tree, OneParent
  <1>4. /\ Pml4 \in Frames /\ Pdpt \in Frames /\ lvl[Pml4] = 4 /\ lvl[Pdpt] = 3
        /\ At(m, Pml4, 0) = Linked(Pdpt) /\ At(m, Pdpt, 0) = Linked(Pd)
        /\ Pd \in Nat /\ Pdpt \in Nat
    BY BootTables, Zenon DEF Tree, Root
  <1>5. /\ To(E3(m, v)) = Pd /\ Link(E3(m, v)) /\ Link(E4(m, v))
        /\ E3(m, v) = At(m, To(E4(m, v)), pdpt_index(v))
        /\ To(E4(m, v)) \in Frames /\ lvl[To(E4(m, v))] = 3
        /\ E4(m, v) = At(m, Pml4, pml4_index(v))
    <2>1. Present(E3(m, v)) /\ Present(E4(m, v)) /\ To(E3(m, v)) = Pd
      BY <1>1, Zenon DEF WalkLow
    <2>2. Link(E3(m, v))
      BY <1>1, <2>1, Zenon DEF WalkMid
    <2> QED BY <1>1, <2>1, <2>2, Zenon DEF WalkTop
  <1>6. To(E4(m, v)) = Pdpt /\ pdpt_index(v) = 0
    <2>1. Link(At(m, Pdpt, 0)) /\ To(At(m, Pdpt, 0)) = Pd
      BY <1>4, WordFacts, Zenon
    <2>2. To(At(m, To(E4(m, v)), pdpt_index(v))) = To(At(m, Pdpt, 0))
      BY <1>5, <2>1, Zenon
    <2>3. Link(At(m, To(E4(m, v)), pdpt_index(v)))
      BY <1>5, Zenon
    <2> DEFINE g == To(E4(m, v))
               j == pdpt_index(v)
    <2>4. g \in Frames /\ j \in Idx /\ lvl[g] >= 2 /\ lvl[Pdpt] >= 2
          /\ Link(At(m, g, j)) /\ To(At(m, g, j)) = To(At(m, Pdpt, 0))
      BY <1>2, <1>4, <1>5, <2>2, <2>3
    <2> HIDE DEF g, j
    <2>5. g = Pdpt /\ j = 0
      BY ONLY <1>2, <1>3, <1>4, <2>1, <2>4, Zenon
    <2> QED BY <2>5, Zenon DEF g, j
  <1>7. pml4_index(v) = 0
    <2>1. Link(At(m, Pml4, 0)) /\ To(At(m, Pml4, 0)) = Pdpt
      BY <1>4, WordFacts, Zenon
    <2> QED BY <1>2, <1>3, <1>4, <1>5, <1>6, <2>1
  <1>8. To(Leaf(m, v)) = (pd_index(v) * Fan) + pt_index(v)
    <2>1. pt_index(v) \in Nat
      BY <1>1, Digits, BootTables, Zenon
    <2>2. /\ E2(m, v) \in Words /\ To(E2(m, v)) = pd_index(v) * Fan
          /\ Leaf(m, v) = Piece(E2(m, v), pt_index(v))
      BY <1>1, Zenon DEF WalkLow
    <2>3. To(Piece(E2(m, v), pt_index(v))) = To(E2(m, v)) + pt_index(v)
      BY <2>1, <2>2, WordFacts, Zenon
    <2> QED BY <2>2, <2>3, Zenon
  <1> QED BY <1>6, <1>7, <1>8, LowPage, Zenon

(* m2 differs from m for the walk to v in its last step at most.            *)
LastStep(m, m2, lvl, v) ==
  /\ E2(m2, v) = E2(m, v)
  /\ Link(E2(m, v)) =>
       /\ To(E2(m, v)) \in Frames /\ lvl[To(E2(m, v))] = 1
       /\ Leaf(m, v) = At(m, To(E2(m, v)), pt_index(v))
       /\ Leaf(m2, v) = At(m2, To(E2(m, v)), pt_index(v))
  /\ ~Link(E2(m, v)) => Leaf(m2, v) = Leaf(m, v)

(* While the upper three levels keep their entries the tree is one, and the *)
(* walks change in their last step only.                                    *)
LEMMA UpperKept ==
  ASSUME NEW m, NEW m2, NEW lvl, Tree(m, lvl), m2 \in Mem,
         \A f \in Frames, i \in Idx : lvl[f] >= 2 => At(m2, f, i) = At(m, f, i)
  PROVE  Tree(m2, lvl) /\ \A v \in Nat : LastStep(m, m2, lvl, v)
  <1>1. /\ lvl \in [Frames -> 0..4] /\ Pml4 \in Frames /\ Pdpt \in Frames
        /\ lvl[Pml4] = 4 /\ lvl[Pdpt] = 3
    BY BootTables, Zenon DEF Tree, Root
  <1>2. \A f \in Frames, i \in Idx : lvl[f] >= 2 => At(m2, f, i) = At(m, f, i)
    BY Zenon
  <1>3. Tree(m2, lvl)
    <2>1. Descends(m2, lvl)
      BY <1>1, <1>2, Zenon DEF Tree, Descends
    <2>2. HugeAtHome(m2, lvl)
      BY <1>1, <1>2 DEF Tree, HugeAtHome
    <2>3. Root(m2, lvl)
      BY <1>1, <1>2, BootTables DEF Tree, Root
    <2>4. OneParent(m2, lvl)
      <3> SUFFICES ASSUME NEW f \in Frames, NEW g \in Frames, NEW i \in Idx, NEW j \in Idx,
                          lvl[f] >= 2, Link(At(m2, f, i)), lvl[g] >= 2, Link(At(m2, g, j)),
                          To(At(m2, f, i)) = To(At(m2, g, j))
                   PROVE  f = g /\ i = j
        BY DEF OneParent
      <3>1. At(m2, f, i) = At(m, f, i) /\ At(m2, g, j) = At(m, g, j)
        BY <1>2, Zenon
      <3> QED BY <3>1 DEF Tree, OneParent
    <2>5. HasParent(m2, lvl)
      <3> SUFFICES ASSUME NEW g \in Frames, lvl[g] \in 1..3
                   PROVE  \E f \in Frames, i \in Idx :
                            lvl[f] = lvl[g] + 1 /\ Link(At(m2, f, i)) /\ To(At(m2, f, i)) = g
        BY Zenon DEF HasParent
      <3>1. PICK f \in Frames, i \in Idx : lvl[f] = lvl[g] + 1 /\ Link(At(m, f, i)) /\ To(At(m, f, i)) = g
        BY Zenon DEF Tree, HasParent
      <3>2. At(m2, f, i) = At(m, f, i)
        BY <1>1, <1>2, <3>1
      <3> QED BY <3>1, <3>2, Zenon
    <2> QED BY <1>1, <2>1, <2>2, <2>3, <2>4, <2>5, Zenon DEF Tree
  <1>4. ASSUME NEW v \in Nat PROVE LastStep(m, m2, lvl, v)
    <2>1. /\ WalkTop(m, lvl, v) /\ WalkMid(m, lvl, v) /\ WalkLow(m, lvl, v)
          /\ WalkTop(m2, lvl, v) /\ WalkMid(m2, lvl, v) /\ WalkLow(m2, lvl, v)
      BY <1>3, WalkInTree, Zenon DEF Walk
    <2>2. /\ pml4_index(v) \in Idx /\ pdpt_index(v) \in Idx
          /\ pd_index(v) \in Idx /\ pt_index(v) \in Idx
      BY Digits, Zenon
    <2>3. E4(m2, v) = E4(m, v)
      BY <1>1, <1>2, <2>1, <2>2 DEF WalkTop
    <2>4. E3(m2, v) = E3(m, v)
      <3>1. CASE Present(E4(m, v))
        BY <1>2, <2>1, <2>2, <2>3, <3>1 DEF WalkTop
      <3>2. CASE ~Present(E4(m, v))
        BY <2>1, <2>3, <3>2, Zenon DEF WalkTop
      <3> QED BY <3>1, <3>2, Zenon
    <2>5. E2(m2, v) = E2(m, v)
      <3>1. CASE Present(E3(m, v))
        BY <1>2, <2>1, <2>2, <2>4, <3>1 DEF WalkMid
      <3>2. CASE ~Present(E3(m, v))
        BY <2>1, <2>4, <3>2, Zenon DEF WalkMid
      <3> QED BY <3>1, <3>2
    <2>6. CASE Link(E2(m, v))
      BY <2>1, <2>5, <2>6, Zenon DEF WalkLow, LastStep
    <2>7. CASE ~Link(E2(m, v))
      BY <2>1, <2>5, <2>7, Zenon DEF WalkLow, Link, LastStep
    <2> QED BY <2>6, <2>7, Zenon
  <1> QED BY <1>3, <1>4, Zenon

(* The two memories have the same tables.                                   *)
SameTables(m, m2, lvl) ==
  m2 \in Mem /\ \A f \in Frames, i \in Idx : lvl[f] > 0 => At(m2, f, i) = At(m, f, i)

(* A store outside the tables leaves the tree and every walk as they are.   *)
LEMMA DataKept ==
  ASSUME NEW m, NEW m2, NEW lvl, Tree(m, lvl), SameTables(m, m2, lvl)
  PROVE  /\ Tree(m2, lvl)
         /\ \A v \in Nat : E2(m2, v) = E2(m, v) /\ Leaf(m2, v) = Leaf(m, v)
  <1>1. m2 \in Mem /\ \A f \in Frames, i \in Idx : lvl[f] > 0 => At(m2, f, i) = At(m, f, i)
    BY Zenon DEF SameTables
  <1>2. lvl \in [Frames -> 0..4]
    BY Zenon DEF Tree
  <1>3. \A f \in Frames, i \in Idx : lvl[f] >= 2 => At(m2, f, i) = At(m, f, i)
    BY <1>1, <1>2
  <1>4. Tree(m2, lvl)
    BY <1>1, <1>3, UpperKept, Zenon
  <1>5. ASSUME NEW v \in Nat PROVE E2(m2, v) = E2(m, v) /\ Leaf(m2, v) = Leaf(m, v)
    <2>1. LastStep(m, m2, lvl, v)
      BY <1>1, <1>3, UpperKept, Zenon
    <2>2. pt_index(v) \in Idx
      BY Digits, Zenon
    <2> QED BY <1>1, <2>1, <2>2 DEF LastStep
  <1> QED BY <1>4, <1>5, Zenon

(* The entry of one page set: that page leads where it says, the others     *)
(* where they led.                                                          *)
LEMMA PageSet ==
  ASSUME NEW m, NEW m2, NEW lvl, Tree(m, lvl), m2 \in Mem,
         NEW v \in Virtual, Link(E2(m, v)),
         \A f \in Frames, i \in Idx :
           f # To(E2(m, v)) \/ i # pt_index(v) => At(m2, f, i) = At(m, f, i)
  PROVE  /\ Tree(m2, lvl)
         /\ Leaf(m2, v) = At(m2, To(E2(m, v)), pt_index(v))
         /\ \A u \in Virtual : u # v => Leaf(m2, u) = Leaf(m, u)
         /\ \A f \in Frames, i \in Idx : lvl[f] # 1 => At(m2, f, i) = At(m, f, i)
  <1>1. v \in Nat
    BY Zenon DEF Virtual
  <1>2. WalkLow(m, lvl, v)
    BY <1>1, WalkInTree, Zenon DEF Walk
  <1>3. lvl[To(E2(m, v))] = 1
    BY <1>2, Zenon DEF WalkLow
  <1>4. \A f \in Frames, i \in Idx : lvl[f] # 1 => At(m2, f, i) = At(m, f, i)
    BY <1>3, Zenon
  <1>5. \A f \in Frames, i \in Idx : lvl[f] >= 2 => At(m2, f, i) = At(m, f, i)
    BY <1>4
  <1>6. Tree(m2, lvl) /\ \A u \in Nat : LastStep(m, m2, lvl, u)
    BY <1>5, UpperKept, Zenon
  <1>8. Leaf(m2, v) = At(m2, To(E2(m, v)), pt_index(v))
    BY <1>1, <1>6, Zenon DEF LastStep
  <1>7. ASSUME NEW u \in Virtual, u # v PROVE Leaf(m2, u) = Leaf(m, u)
    <2>1. u \in Nat /\ pt_index(u) \in Idx
      BY Digits, Zenon DEF Virtual
    <2>2. LastStep(m, m2, lvl, u)
      BY <1>6, <2>1, Zenon
    <2>3. Link(E2(m, u)) => To(E2(m, u)) # To(E2(m, v)) \/ pt_index(u) # pt_index(v)
      BY <1>7, UniquePath, Zenon
    <2> QED BY <2>1, <2>2, <2>3, Zenon DEF LastStep
  <1> QED BY <1>4, <1>6, <1>7, <1>8, Zenon

-----------------------------------------------------------------------------
(* A new table.                                                             *)

(* In m2 frame f has become a table, below entry i of table t that led to   *)
(* no table in m; above a table of pages it is empty.                       *)
Hung(m, m2, lvl, lvl2, t, i, f) ==
  /\ m2 \in Mem
  /\ t \in Frames /\ i \in Idx /\ f \in Frames
  /\ lvl[t] >= 2 /\ lvl[f] = 0 /\ ~Link(At(m, t, i))
  /\ lvl2 = [lvl EXCEPT ![f] = lvl[t] - 1]
  /\ At(m2, t, i) = Linked(f)
  /\ lvl[t] >= 3 => \A j \in Idx : At(m2, f, j) = Unused
  /\ \A g \in Frames, j \in Idx : g # f /\ (g # t \/ j # i) => At(m2, g, j) = At(m, g, j)

(* The levels after it.                                                     *)
LEMMA HungLevels ==
  ASSUME NEW m, NEW m2, NEW lvl, NEW lvl2, NEW t, NEW i, NEW f,
         Tree(m, lvl), Hung(m, m2, lvl, lvl2, t, i, f)
  PROVE  /\ lvl2 \in [Frames -> 0..4] /\ lvl[t] \in 2..4 /\ t # f
         /\ lvl2[f] = lvl[t] - 1
         /\ \A g \in Frames : g # f => lvl2[g] = lvl[g]
         /\ \A g \in Frames : lvl[g] \in 0..4
         /\ \A g \in Frames : lvl[g] > 0 => g # f /\ lvl2[g] = lvl[g]
  <1>1. lvl \in [Frames -> 0..4] /\ t \in Frames /\ f \in Frames /\ lvl[t] >= 2 /\ lvl[f] = 0
    BY Zenon DEF Tree, Hung
  <1>2. lvl[t] \in 2..4
    BY <1>1
  <1> QED BY <1>1, <1>2 DEF Hung

(* Links stay, but for the new one.                                         *)
LEMMA HungLinks ==
  ASSUME NEW m, NEW m2, NEW lvl, NEW lvl2, NEW t, NEW i, NEW f,
         Tree(m, lvl), Hung(m, m2, lvl, lvl2, t, i, f),
         NEW g \in Frames, NEW j \in Idx
  PROVE  /\ lvl[g] > 0 /\ Link(At(m, g, j)) => At(m2, g, j) = At(m, g, j)
         /\ lvl2[g] >= 2 /\ Link(At(m2, g, j)) =>
              \/ g = t /\ j = i /\ To(At(m2, g, j)) = f
              \/ lvl[g] = lvl2[g] /\ At(m2, g, j) = At(m, g, j)
  <1>1. f \in Nat /\ To(At(m2, t, i)) = f
    BY FrameDigits, WordFacts, Zenon DEF Hung
  <1>2. lvl[g] > 0 /\ Link(At(m, g, j)) => At(m2, g, j) = At(m, g, j)
    BY HungLevels DEF Hung
  <1>3. ASSUME lvl2[g] >= 2, Link(At(m2, g, j))
        PROVE  \/ g = t /\ j = i /\ To(At(m2, g, j)) = f
               \/ lvl[g] = lvl2[g] /\ At(m2, g, j) = At(m, g, j)
    <2>1. CASE g = f
      <3>1. lvl[t] >= 3
        BY <1>3, <2>1, HungLevels
      <3>2. At(m2, g, j) = Unused
        BY <2>1, <3>1, Zenon DEF Hung
      <3> QED BY <1>3, <3>2, WordFacts, Zenon
    <2>2. CASE g = t /\ j = i
      BY <1>1, <2>2, Zenon
    <2>3. CASE g # f /\ (g # t \/ j # i)
      BY <2>3, HungLevels DEF Hung
    <2> QED BY <2>1, <2>2, <2>3, Zenon
  <1> QED BY <1>2, <1>3, Zenon

(* It is a tree again.                                                      *)
LEMMA HungTree ==
  ASSUME NEW m, NEW m2, NEW lvl, NEW lvl2, NEW t, NEW i, NEW f,
         Tree(m, lvl), Hung(m, m2, lvl, lvl2, t, i, f)
  PROVE  Tree(m2, lvl2)
  <1>1. /\ lvl2 \in [Frames -> 0..4] /\ lvl[t] \in 2..4 /\ t # f
        /\ lvl2[f] = lvl[t] - 1
        /\ \A g \in Frames : g # f => lvl2[g] = lvl[g]
        /\ \A g \in Frames : lvl[g] \in 0..4
        /\ \A g \in Frames : lvl[g] > 0 => g # f /\ lvl2[g] = lvl[g]
    BY HungLevels
  <1>2. /\ t \in Frames /\ i \in Idx /\ f \in Frames /\ lvl[f] = 0 /\ f \in Nat
        /\ At(m2, t, i) = Linked(f) /\ To(At(m2, t, i)) = f /\ Link(At(m2, t, i))
    BY FrameDigits, WordFacts, Zenon DEF Hung
  <1>3. \A g \in Frames, j \in Idx : lvl[g] > 0 /\ Link(At(m, g, j)) => At(m2, g, j) = At(m, g, j)
    BY HungLinks, Zenon
  <1>4. \A g \in Frames, j \in Idx : lvl2[g] >= 2 /\ Link(At(m2, g, j)) =>
           \/ g = t /\ j = i /\ To(At(m2, g, j)) = f
           \/ lvl[g] = lvl2[g] /\ At(m2, g, j) = At(m, g, j)
    BY HungLinks
  <1>5. /\ Pml4 \in Frames /\ Pdpt \in Frames /\ Pd \in Frames /\ 0 \in Idx
        /\ Pml4 \in Nat /\ Pdpt \in Nat /\ Pd \in Nat
    BY BootTables, Zenon
  <1>6. Root(m2, lvl2)
    <2>1. Root(m, lvl)
      BY Zenon DEF Tree
    <2>2. lvl2[Pml4] = 4 /\ lvl2[Pdpt] = 3 /\ lvl2[Pd] = 2
      BY <1>1, <1>5, <2>1 DEF Root
    <2>3. At(m2, Pml4, 0) = Linked(Pdpt) /\ At(m2, Pdpt, 0) = Linked(Pd)
      <3>1. Link(At(m, Pml4, 0)) /\ Link(At(m, Pdpt, 0))
        BY <1>5, <2>1, WordFacts, Zenon DEF Root
      <3>2. lvl[Pml4] > 0 /\ lvl[Pdpt] > 0
        BY <2>1 DEF Root
      <3> QED BY <1>3, <1>5, <2>1, <3>1, <3>2, Zenon DEF Root
    <2>4. \A g \in Frames : lvl2[g] = 4 => g = Pml4
      BY <1>1, <1>2, <2>1 DEF Root
    <2> QED BY <2>2, <2>3, <2>4, Zenon DEF Root
  <1>7. Descends(m2, lvl2)
    <2> SUFFICES ASSUME NEW g \in Frames, NEW j \in Idx, lvl2[g] >= 2, Link(At(m2, g, j))
                 PROVE  To(At(m2, g, j)) \in Frames /\ lvl2[To(At(m2, g, j))] = lvl2[g] - 1
      BY Zenon DEF Descends
    <2>1. CASE g = t /\ j = i /\ To(At(m2, g, j)) = f
      BY <1>1, <1>2, <2>1, Zenon
    <2>2. CASE lvl[g] = lvl2[g] /\ At(m2, g, j) = At(m, g, j)
      <3>1. To(At(m, g, j)) \in Frames /\ lvl[To(At(m, g, j))] = lvl[g] - 1
        BY <2>2, Zenon DEF Tree, Descends
      <3>2. lvl[To(At(m, g, j))] > 0
        BY <1>1, <2>2, <3>1
      <3> QED BY <1>1, <2>2, <3>1, <3>2, Zenon
    <2> QED BY <1>4, <2>1, <2>2, Zenon
  <1>8. HugeAtHome(m2, lvl2)
    <2>1. ASSUME NEW g \in Frames, NEW j \in Idx, lvl2[g] >= 3
          PROVE  ~Huge(At(m2, g, j))
      <3>1. CASE g = f
        <4>1. lvl[t] >= 3
          BY <1>1, <2>1, <3>1
        <4> QED BY <3>1, <4>1, WordFacts, Zenon DEF Hung
      <3>2. CASE g = t /\ j = i
        BY <1>2, <3>2, WordFacts, Zenon
      <3>3. CASE g # f /\ (g # t \/ j # i)
        <4>1. At(m2, g, j) = At(m, g, j)
          BY <3>3, Zenon DEF Hung
        <4> QED BY <1>1, <2>1, <3>3, <4>1, Zenon DEF Tree, HugeAtHome
      <3> QED BY <3>1, <3>2, <3>3, Zenon
    <2>2. ASSUME NEW g \in Frames, NEW j \in Idx, lvl2[g] = 2,
                 Present(At(m2, g, j)), Huge(At(m2, g, j))
          PROVE  g = Pd /\ To(At(m2, g, j)) = j * Fan
      <3>1. CASE g = f
        <4>1. lvl[t] >= 3
          BY <1>1, <2>2, <3>1
        <4> QED BY <2>2, <3>1, <4>1, WordFacts, Zenon DEF Hung
      <3>2. CASE g = t /\ j = i
        BY <1>2, <2>2, <3>2, WordFacts, Zenon
      <3>3. CASE g # f /\ (g # t \/ j # i)
        <4>1. At(m2, g, j) = At(m, g, j)
          BY <3>3 DEF Hung
        <4> QED BY <1>1, <2>2, <3>3, <4>1, Zenon DEF Tree, HugeAtHome
      <3> QED BY <3>1, <3>2, <3>3, Zenon
    <2> QED BY <2>1, <2>2, Zenon DEF HugeAtHome
  <1>9. OneParent(m2, lvl2)
    <2> SUFFICES ASSUME NEW g \in Frames, NEW h \in Frames, NEW j \in Idx, NEW k \in Idx,
                        lvl2[g] >= 2, Link(At(m2, g, j)), lvl2[h] >= 2, Link(At(m2, h, k)),
                        To(At(m2, g, j)) = To(At(m2, h, k))
                 PROVE  g = h /\ j = k
      BY Zenon DEF OneParent
    <2>1. ASSUME NEW x \in Frames, NEW y \in Idx, lvl2[x] >= 2, Link(At(m2, x, y)),
                 lvl[x] = lvl2[x], At(m2, x, y) = At(m, x, y)
          PROVE  To(At(m2, x, y)) # f
      <3>1. lvl[To(At(m, x, y))] = lvl[x] - 1
        BY <2>1, Zenon DEF Tree, Descends
      <3> QED BY <1>1, <1>2, <2>1, <3>1
    <2>2. CASE lvl[g] = lvl2[g] /\ At(m2, g, j) = At(m, g, j) /\ lvl[h] = lvl2[h] /\ At(m2, h, k) = At(m, h, k)
      BY <2>2, Zenon DEF Tree, OneParent
    <2> QED BY <1>4, <2>1, <2>2, Zenon
  <1>10. HasParent(m2, lvl2)
    <2> SUFFICES ASSUME NEW g \in Frames, lvl2[g] \in 1..3
                 PROVE  \E h \in Frames, j \in Idx :
                          lvl2[h] = lvl2[g] + 1 /\ Link(At(m2, h, j)) /\ To(At(m2, h, j)) = g
      BY Zenon DEF HasParent
    <2>1. CASE g = f
      <3>1. lvl2[t] = lvl2[g] + 1
        BY <1>1, <1>2, <2>1
      <3> QED BY <1>2, <2>1, <3>1, Zenon
    <2>2. CASE g # f
      <3>1. lvl[g] \in 1..3 /\ lvl2[g] = lvl[g]
        BY <1>1, <2>2, Zenon
      <3>2. PICK h \in Frames, j \in Idx : lvl[h] = lvl[g] + 1 /\ Link(At(m, h, j)) /\ To(At(m, h, j)) = g
        BY <3>1, Zenon DEF Tree, HasParent
      <3>3. lvl[h] > 0
        BY <3>1, <3>2
      <3>4. At(m2, h, j) = At(m, h, j) /\ lvl2[h] = lvl[h]
        BY <1>1, <1>3, <3>2, <3>3, Zenon
      <3> QED BY <3>1, <3>2, <3>4, Zenon
    <2> QED BY <2>1, <2>2, Zenon
  <1> QED BY <1>1, <1>6, <1>7, <1>8, <1>9, <1>10, Zenon DEF Tree, Hung

(* The table is empty, or holds the pages of the huge page it replaces.     *)
Faithful(m, m2, t, i, f, lvl) ==
  \/ ~Present(At(m, t, i)) /\ \A j \in Idx : At(m2, f, j) = Unused
  \/ /\ lvl[t] = 2 /\ Present(At(m, t, i)) /\ Huge(At(m, t, i))
     /\ \A j \in Idx : At(m2, f, j) = Piece(At(m, t, i), j)

(* Then every page leads where it did.                                      *)
LEMMA HungLeaf ==
  ASSUME NEW m, NEW m2, NEW lvl, NEW lvl2, NEW t, NEW i, NEW f,
         Tree(m, lvl), Hung(m, m2, lvl, lvl2, t, i, f), Faithful(m, m2, t, i, f, lvl),
         NEW v \in Nat
  PROVE  Leaf(m2, v) = Leaf(m, v)
  <1>1. /\ WalkTop(m, lvl, v) /\ WalkMid(m, lvl, v) /\ WalkLow(m, lvl, v)
        /\ WalkTop(m2, lvl2, v) /\ WalkMid(m2, lvl2, v) /\ WalkLow(m2, lvl2, v)
    BY HungTree, WalkInTree, Zenon DEF Walk
  <1>9. /\ ~Present(E4(m, v)) \/ ~Present(E3(m, v)) \/ ~Present(E2(m, v)) => Leaf(m, v) = Unused
        /\ ~Present(E4(m2, v)) \/ ~Present(E3(m2, v)) \/ ~Present(E2(m2, v)) => Leaf(m2, v) = Unused
    BY <1>1, Zenon DEF WalkLow
  <1>2. /\ pml4_index(v) \in Idx /\ pdpt_index(v) \in Idx
        /\ pd_index(v) \in Idx /\ pt_index(v) \in Idx
    BY Digits, Zenon
  <1>3. /\ t \in Frames /\ i \in Idx /\ f \in Frames /\ f \in Nat /\ lvl[f] = 0 /\ t # f
        /\ At(m2, t, i) = Linked(f) /\ To(At(m2, t, i)) = f /\ Link(At(m2, t, i)) /\ Present(At(m2, t, i))
        /\ ~Huge(At(m2, t, i))
    <2>1. t \in Frames /\ i \in Idx /\ f \in Frames /\ lvl[f] = 0 /\ At(m2, t, i) = Linked(f)
      BY Zenon DEF Hung
    <2>2. f \in Nat
      BY <2>1, FrameDigits, Zenon
    <2>3. t # f
      BY HungLevels, Zenon
    <2> QED BY <2>1, <2>2, <2>3, WordFacts, Zenon
  <1>4. \A g \in Frames, j \in Idx : g # f /\ (g # t \/ j # i) => At(m2, g, j) = At(m, g, j)
    BY Zenon DEF Hung
  <1>5. Pml4 \in Frames /\ lvl[Pml4] = 4 /\ Pml4 # f
    BY <1>3, BootTables DEF Tree, Root
  <1>6. ~Present(At(m, t, i)) => \A j \in Idx : At(m2, f, j) = Unused
    BY Zenon DEF Faithful
  <1>7. CASE t = Pml4 /\ i = pml4_index(v)
    <2>1. ~Present(At(m, t, i))
      <3>1. ~Huge(At(m, t, i))
        BY <1>3, <1>5, <1>7 DEF Tree, HugeAtHome
      <3> QED BY <3>1, Zenon DEF Hung, Link
    <2>2. ~Present(E4(m, v)) /\ E4(m2, v) = At(m2, t, i)
      BY <1>1, <1>7, <2>1, Zenon DEF WalkTop
    <2>3. Leaf(m, v) = Unused
      BY <1>9, <2>2, Zenon
    <2>4. E3(m2, v) = Unused
      BY <1>1, <1>2, <1>3, <1>6, <2>1, <2>2, Zenon DEF WalkTop
    <2>5. Leaf(m2, v) = Unused
      BY <1>9, <2>4, WordFacts, Zenon
    <2> QED BY <2>3, <2>5, Zenon
  <1>8. CASE ~(t = Pml4 /\ i = pml4_index(v))
    <2> DEFINE g3 == To(E4(m, v))
    <2>1. E4(m2, v) = E4(m, v)
      BY <1>1, <1>2, <1>4, <1>5, <1>8, Zenon DEF WalkTop
    <2>2. CASE ~Present(E4(m, v))
      BY <1>9, <2>1, <2>2, Zenon
    <2>3. CASE Present(E4(m, v))
      <3>1. g3 \in Frames /\ lvl[g3] = 3 /\ g3 # f
            /\ E3(m, v) = At(m, g3, pdpt_index(v)) /\ E3(m2, v) = At(m2, g3, pdpt_index(v))
        BY <1>1, <1>3, <2>1, <2>3 DEF WalkTop
      <3>2. CASE t = g3 /\ i = pdpt_index(v)
        <4>1. ~Present(At(m, t, i))
          <5>1. ~Huge(At(m, t, i))
            BY <1>3, <3>1, <3>2 DEF Tree, HugeAtHome
          <5> QED BY <5>1 DEF Hung, Link
        <4>2. ~Present(E3(m, v)) /\ E3(m2, v) = At(m2, t, i)
          BY <3>1, <3>2, <4>1, Zenon
        <4>3. Leaf(m, v) = Unused
          BY <1>9, <4>2, Zenon
        <4>4. E2(m2, v) = Unused
          BY <1>1, <1>2, <1>3, <1>6, <4>1, <4>2, Zenon DEF WalkMid
        <4>5. Leaf(m2, v) = Unused
          BY <1>9, <4>4, WordFacts, Zenon
        <4> QED BY <4>3, <4>5
      <3>3. CASE ~(t = g3 /\ i = pdpt_index(v))
        <4> DEFINE g2 == To(E3(m, v))
        <4>1. E3(m2, v) = E3(m, v)
          BY <1>2, <1>4, <3>1, <3>3, Zenon
        <4>2. CASE ~Present(E3(m, v))
          BY <1>9, <4>1, <4>2, Zenon
        <4>3. CASE Present(E3(m, v))
          <5>1. g2 \in Frames /\ lvl[g2] = 2 /\ g2 # f
                /\ E2(m, v) = At(m, g2, pd_index(v)) /\ E2(m2, v) = At(m2, g2, pd_index(v))
            BY <1>1, <1>3, <4>1, <4>3 DEF WalkMid
          <5>2. CASE t = g2 /\ i = pd_index(v)
            <6>1. E2(m, v) = At(m, t, i) /\ E2(m2, v) = At(m2, t, i)
              BY <5>1, <5>2, Zenon
            <6>2. Leaf(m2, v) = At(m2, f, pt_index(v))
              BY <1>1, <1>3, <6>1, Zenon DEF WalkLow
            <6>3. CASE ~Present(At(m, t, i))
              BY <1>1, <1>2, <1>6, <6>1, <6>2, <6>3, Zenon DEF WalkLow
            <6>4. CASE Present(At(m, t, i))
              <7>1. /\ Huge(At(m, t, i))
                    /\ At(m2, f, pt_index(v)) = Piece(At(m, t, i), pt_index(v))
                BY <1>2, <6>4, Zenon DEF Faithful
              <7>2. Leaf(m, v) = Piece(At(m, t, i), pt_index(v))
                BY <1>1, <6>1, <6>4, <7>1, Zenon DEF WalkLow
              <7> QED BY <6>2, <7>1, <7>2, Zenon
            <6> QED BY <6>3, <6>4, Zenon
          <5>3. CASE ~(t = g2 /\ i = pd_index(v))
            <6>1. E2(m2, v) = E2(m, v)
              BY <1>2, <1>4, <5>1, <5>3, Zenon
            <6>2. CASE Link(E2(m, v))
              <7>1. /\ To(E2(m, v)) \in Frames /\ lvl[To(E2(m, v))] = 1
                    /\ Leaf(m, v) = At(m, To(E2(m, v)), pt_index(v))
                    /\ Leaf(m2, v) = At(m2, To(E2(m, v)), pt_index(v))
                BY <1>1, <6>1, <6>2, Zenon DEF WalkLow
              <7>2. lvl[t] # 1 /\ lvl[f] # 1
                BY <1>3, HungLevels
              <7> QED BY <1>2, <1>4, <7>1, <7>2, Zenon
            <6>3. CASE ~Present(E2(m, v))
              BY <1>1, <6>1, <6>3, Zenon DEF WalkLow
            <6>4. CASE Present(E2(m, v)) /\ Huge(E2(m, v))
              BY <1>1, <6>1, <6>4, Zenon DEF WalkLow
            <6> QED BY <6>2, <6>3, <6>4, Zenon DEF Link
          <5> QED BY <5>2, <5>3
        <4> QED BY <4>2, <4>3
      <3> QED BY <3>2, <3>3, Zenon
    <2> QED BY <2>2, <2>3, Zenon
  <1> QED BY <1>7, <1>8, Zenon

-----------------------------------------------------------------------------
(* map_page on its way down.                                                *)

(* at is the table of level k on the walk to page v.                        *)
On(m, lvl, v, k, at) ==
  /\ at \in Frames /\ lvl[at] = k
  /\ k = 4 => at = Pml4
  /\ k = 3 => Link(E4(m, v)) /\ at = To(E4(m, v))
  /\ k = 2 => Link(E3(m, v)) /\ at = To(E3(m, v))
  /\ k = 1 => Link(E2(m, v)) /\ at = To(E2(m, v))

Digit(v, k) ==
  IF k = 4 THEN pml4_index(v)
  ELSE IF k = 3 THEN pdpt_index(v)
  ELSE IF k = 2 THEN pd_index(v)
  ELSE pt_index(v)

(* The digit that a level is indexed with.                                  *)
LEMMA DigitFacts ==
  ASSUME NEW v \in Nat
  PROVE  /\ \A k \in 1..4 : Digit(v, k) \in Idx
         /\ Digit(v, 4) = pml4_index(v) /\ Digit(v, 3) = pdpt_index(v)
         /\ Digit(v, 2) = pd_index(v) /\ Digit(v, 1) = pt_index(v)
  <1>1. pml4_index(v) \in Idx /\ pdpt_index(v) \in Idx /\ pd_index(v) \in Idx /\ pt_index(v) \in Idx
    BY Digits, Zenon
  <1>2. /\ Digit(v, 4) = pml4_index(v) /\ Digit(v, 3) = pdpt_index(v)
        /\ Digit(v, 2) = pd_index(v) /\ Digit(v, 1) = pt_index(v)
    BY DEF Digit
  <1>3. \A k \in 1..4 : k = 1 \/ k = 2 \/ k = 3 \/ k = 4
    OBVIOUS
  <1> QED BY <1>1, <1>2, <1>3, Zenon

(* From one level to the next.                                              *)
LEMMA OneLevelDown ==
  ASSUME NEW m, NEW lvl, Tree(m, lvl), NEW v \in Nat, NEW k \in 2..4, NEW at,
         On(m, lvl, v, k, at), Link(At(m, at, Digit(v, k)))
  PROVE  On(m, lvl, v, k - 1, To(At(m, at, Digit(v, k))))
  <1> DEFINE e == At(m, at, Digit(v, k))
  <1>1. WalkTop(m, lvl, v) /\ WalkMid(m, lvl, v) /\ WalkLow(m, lvl, v)
    BY WalkInTree, Zenon DEF Walk
  <1>2. k = 4 \/ k = 3 \/ k = 2
    OBVIOUS
  <1>3. CASE k = 4
    <2>1. e = E4(m, v)
      BY <1>1, <1>3, DigitFacts, Zenon DEF On, WalkTop
    <2> HIDE DEF e
    <2>2. Link(e) /\ To(e) \in Frames /\ lvl[To(e)] = 3
      BY <1>1, <2>1, Zenon DEF e, WalkTop, Link
    <2> QED BY <1>3, <2>1, <2>2 DEF e, On
  <1>4. CASE k = 3
    <2>1. Link(E4(m, v)) /\ at = To(E4(m, v))
      BY <1>4, Zenon DEF On
    <2>2. e = E3(m, v)
      BY <1>1, <1>4, <2>1, DigitFacts, Zenon DEF WalkTop, Link
    <2> HIDE DEF e
    <2>3. Link(e) /\ To(e) \in Frames /\ lvl[To(e)] = 2
      BY <1>1, <2>2, Zenon DEF e, WalkMid, Link
    <2> QED BY <1>4, <2>2, <2>3 DEF e, On
  <1>5. CASE k = 2
    <2>1. Link(E3(m, v)) /\ at = To(E3(m, v))
      BY <1>5, Zenon DEF On
    <2>2. e = E2(m, v)
      BY <1>1, <1>5, <2>1, DigitFacts, Zenon DEF WalkMid, Link
    <2> HIDE DEF e
    <2>3. Link(e) /\ To(e) \in Frames /\ lvl[To(e)] = 1
      BY <1>1, <2>2, Zenon DEF e, WalkLow
    <2> QED BY <1>5, <2>2, <2>3 DEF e, On
  <1> QED BY <1>2, <1>3, <1>4, <1>5, Zenon

(* A new table leaves the walk so far as it is.                             *)
LEMMA HungOn ==
  ASSUME NEW m, NEW m2, NEW lvl, NEW lvl2, NEW t, NEW i, NEW f,
         Tree(m, lvl), Hung(m, m2, lvl, lvl2, t, i, f),
         NEW v \in Nat, NEW k \in 1..4, NEW at, On(m, lvl, v, k, at)
  PROVE  On(m2, lvl2, v, k, at)
  <1>1. WalkTop(m, lvl, v) /\ WalkMid(m, lvl, v) /\ WalkLow(m, lvl, v)
    BY WalkInTree, Zenon DEF Walk
  <1>9. WalkTop(m2, lvl2, v) /\ WalkMid(m2, lvl2, v)
    BY HungTree, WalkInTree, Zenon DEF Walk
  <1>2. pml4_index(v) \in Idx /\ pdpt_index(v) \in Idx /\ pd_index(v) \in Idx
    BY Digits, Zenon
  <1>3. \A g \in Frames, j \in Idx : lvl[g] > 0 /\ Link(At(m, g, j)) => At(m2, g, j) = At(m, g, j)
    BY HungLinks, Zenon
  <1>4. Pml4 \in Frames /\ lvl[Pml4] = 4
    BY BootTables, Zenon DEF Tree, Root
  <1>5. Link(E4(m, v)) => E4(m2, v) = E4(m, v)
    <2>1. E4(m, v) = At(m, Pml4, pml4_index(v))
      BY <1>1, Zenon DEF WalkTop
    <2>2. E4(m2, v) = At(m2, Pml4, pml4_index(v))
      BY <1>9, Zenon DEF WalkTop
    <2> QED BY <1>2, <1>3, <1>4, <2>1, <2>2
  <1>6. Link(E3(m, v)) => E3(m2, v) = E3(m, v) /\ Link(E4(m, v))
    <2> SUFFICES ASSUME Link(E3(m, v)) PROVE E3(m2, v) = E3(m, v) /\ Link(E4(m, v))
      BY Zenon
    <2> DEFINE g == To(E4(m, v))
    <2>1. /\ Link(E4(m, v)) /\ Present(E4(m, v)) /\ g \in Frames /\ lvl[g] > 0
          /\ E3(m, v) = At(m, g, pdpt_index(v))
      <3>1. Present(E4(m, v))
        BY <1>1, Zenon DEF WalkMid, Link
      <3> QED BY <1>1, <3>1 DEF WalkTop
    <2>2. E3(m2, v) = At(m2, g, pdpt_index(v))
      BY <1>9, <1>5, <2>1, Zenon DEF WalkTop
    <2> QED BY <1>2, <1>3, <2>1, <2>2, Zenon
  <1>7. Link(E2(m, v)) => E2(m2, v) = E2(m, v)
    <2> SUFFICES ASSUME Link(E2(m, v)) PROVE E2(m2, v) = E2(m, v)
      BY Zenon
    <2> DEFINE g == To(E3(m, v))
    <2>1. /\ Link(E3(m, v)) /\ Present(E3(m, v)) /\ g \in Frames /\ lvl[g] > 0
          /\ E2(m, v) = At(m, g, pd_index(v))
      <3>1. Present(E3(m, v))
        BY <1>1, Zenon DEF WalkLow, Link
      <3> QED BY <1>1, <3>1 DEF WalkMid
    <2>2. E2(m2, v) = At(m2, g, pd_index(v))
      BY <1>9, <1>6, <2>1, Zenon DEF WalkMid
    <2> QED BY <1>2, <1>3, <2>1, <2>2, Zenon
  <1>8. lvl2[at] = lvl[at] /\ at \in Frames
    <2>1. at \in Frames /\ lvl[at] > 0
      BY DEF On
    <2> QED BY <2>1, HungLevels
  <1> QED BY <1>5, <1>6, <1>7, <1>8, Zenon DEF On

(* The allocator's list without its first frame.                            *)
LEMMA TakeHead ==
  ASSUME NEW fr \in Seq(Managed), fr # << >>,
         \A j, k \in DOMAIN fr : fr[j] = fr[k] => j = k
  PROVE  /\ Head(fr) \in Managed /\ Head(fr) \in FreeSet(fr)
         /\ Tail(fr) \in Seq(Managed)
         /\ \A j, k \in DOMAIN Tail(fr) : Tail(fr)[j] = Tail(fr)[k] => j = k
         /\ FreeSet(Tail(fr)) = FreeSet(fr) \ {Head(fr)}
  <1>1. /\ Len(fr) \in Nat \ {0} /\ DOMAIN fr = 1..Len(fr) /\ Head(fr) = fr[1] /\ fr[1] \in Managed
        /\ Tail(fr) \in Seq(Managed) /\ DOMAIN Tail(fr) = 1..(Len(fr) - 1)
        /\ \A k \in 1..(Len(fr) - 1) : Tail(fr)[k] = fr[k + 1]
    OBVIOUS
  <1>2. \A j, k \in DOMAIN Tail(fr) : Tail(fr)[j] = Tail(fr)[k] => j = k
    <2> SUFFICES ASSUME NEW j \in 1..(Len(fr) - 1), NEW k \in 1..(Len(fr) - 1),
                        Tail(fr)[j] = Tail(fr)[k]
                 PROVE  j = k
      BY <1>1, Zenon
    <2>1. j + 1 \in DOMAIN fr /\ k + 1 \in DOMAIN fr /\ fr[j + 1] = fr[k + 1]
      BY <1>1
    <2>2. j + 1 = k + 1
      BY <2>1, Zenon
    <2> QED BY <1>1, <2>2
  <1>3. FreeSet(Tail(fr)) \subseteq FreeSet(fr) \ {Head(fr)}
    <2> SUFFICES ASSUME NEW k \in 1..(Len(fr) - 1)
                 PROVE  Tail(fr)[k] \in FreeSet(fr) /\ Tail(fr)[k] # Head(fr)
      BY <1>1 DEF FreeSet
    <2>1. k + 1 \in DOMAIN fr /\ 1 \in DOMAIN fr /\ k + 1 # 1
      BY <1>1
    <2>2. fr[k + 1] # fr[1]
      BY <2>1, Zenon
    <2> QED BY <1>1, <2>1, <2>2 DEF FreeSet
  <1>4. FreeSet(fr) \ {Head(fr)} \subseteq FreeSet(Tail(fr))
    <2> SUFFICES ASSUME NEW k \in 1..Len(fr), fr[k] # Head(fr)
                 PROVE  fr[k] \in FreeSet(Tail(fr))
      BY <1>1 DEF FreeSet
    <2>1. k - 1 \in 1..(Len(fr) - 1) /\ (k - 1) + 1 = k
      BY <1>1
    <2>2. Tail(fr)[k - 1] = fr[k]
      BY <1>1, <2>1, Zenon
    <2> QED BY <1>1, <2>1, <2>2, Zenon DEF FreeSet
  <1>5. Head(fr) \in FreeSet(fr)
    BY <1>1 DEF FreeSet
  <1> QED BY <1>1, <1>2, <1>3, <1>4, <1>5, Zenon

(* A table reached through its own address is the table.                    *)
LEMMA ReadTable ==
  ASSUME NEW m \in Mem, Identity(m), NEW f \in Managed, NEW i \in Idx
  PROVE  get_table(m, f) = f /\ Read(m, f, i) = At(m, f, i)
  <1>1. f \in Frames
    BY ManagedFrames, Zenon
  <1>2. get_table(m, f) = f
    BY Zenon DEF Identity, get_table, To
  <1> QED BY <1>1, <1>2, AtWord, Zenon DEF Read

(* m2 is m but for entry i of table t.                                      *)
Updated(m2, m, t, i, e) ==
  /\ m2 \in Mem
  /\ At(m2, t, i) = e
  /\ \A g \in Frames, j \in Idx : g # t \/ j # i => At(m2, g, j) = At(m, g, j)

(* m2 is m but for frame f.                                                 *)
Filled(m2, m, f, c) ==
  /\ m2 \in Mem
  /\ \A j \in Idx : At(m2, f, j) = c[j]
  /\ \A g \in Frames, j \in Idx : g # f => At(m2, g, j) = At(m, g, j)

(* A frame filled.                                                          *)
LEMMA FrameUpdate ==
  ASSUME NEW m \in Mem, NEW f \in Frames, NEW c \in [Idx -> Words]
  PROVE  Filled([m EXCEPT ![f] = c], m, f, c)
  BY Zenon DEF Mem, At, Filled

(* An entry set.                                                            *)
LEMMA EntryUpdate ==
  ASSUME NEW m \in Mem, NEW t \in Frames, NEW i \in Idx, NEW e \in Words
  PROVE  Updated([m EXCEPT ![t][i] = e], m, t, i, e)
  <1> DEFINE m2 == [m EXCEPT ![t][i] = e]
  <1>1. m[t] \in [Idx -> Words]
    BY Zenon DEF Mem
  <1>2. [m[t] EXCEPT ![i] = e] \in [Idx -> Words]
    BY <1>1, Zenon
  <1>3. m2 = [m EXCEPT ![t] = [m[t] EXCEPT ![i] = e]]
    BY Zenon
  <1>4. m2[t] = [m[t] EXCEPT ![i] = e] /\ \A g \in Frames : g # t => m2[g] = m[g]
    BY <1>3, Zenon DEF Mem
  <1>5. m2 \in Mem
    BY <1>2, <1>3, Zenon DEF Mem
  <1> HIDE DEF m2
  <1>6. Updated(m2, m, t, i, e)
    BY <1>1, <1>4, <1>5, Zenon DEF Updated, At
  <1> QED BY <1>6, Zenon DEF m2

(* Through a table's own address it is the table that is changed.           *)
LEMMA TableUpdate ==
  ASSUME NEW m \in Mem, Identity(m), NEW f \in Managed
  PROVE  /\ \A i \in Idx, e \in Words : Updated(Set(m, f, i, e), m, f, i, e)
         /\ \A c \in [Idx -> Words] : Filled(Fill(m, f, c), m, f, c)
  <1>1. f \in Frames
    BY ManagedFrames, Zenon
  <1>2. get_table(m, f) = f
    BY Zenon DEF Identity, get_table, To
  <1>3. \A i \in Idx, e \in Words : Set(m, f, i, e) = [m EXCEPT ![f][i] = e]
    BY <1>2, Zenon DEF Set
  <1>4. \A c \in [Idx -> Words] : Fill(m, f, c) = [m EXCEPT ![f] = c]
    BY <1>2, Zenon DEF Fill
  <1>5. ASSUME NEW i \in Idx, NEW e \in Words PROVE Updated(Set(m, f, i, e), m, f, i, e)
    <2>1. Updated([m EXCEPT ![f][i] = e], m, f, i, e)
      BY <1>1, EntryUpdate, Zenon
    <2> QED BY <1>3, <2>1, Zenon
  <1>6. ASSUME NEW c \in [Idx -> Words] PROVE Filled(Fill(m, f, c), m, f, c)
    <2>1. Filled([m EXCEPT ![f] = c], m, f, c)
      BY <1>1, FrameUpdate, Zenon
    <2> QED BY <1>4, <2>1, Zenon
  <1> QED BY <1>5, <1>6, Zenon

(* New tables only: m2, fr2 and lvl2 come from m, fr and lvl by frames of   *)
(* the list that have become tables, and no page leads elsewhere.           *)
Grown(m, fr, lvl, m2, fr2, lvl2) ==
  /\ Tree(m2, lvl2) /\ Spare(fr2, lvl2)
  /\ \A u \in Nat : Leaf(m2, u) = Leaf(m, u)
  /\ \A f \in Frames, i \in Idx : lvl2[f] = 0 => At(m2, f, i) = At(m, f, i)
  /\ FreeSet(fr2) \subseteq FreeSet(fr) /\ FreeSet(fr) \subseteq Frames
  /\ \A f \in FreeSet(fr) : f \in FreeSet(fr2) \/ lvl2[f] > 0
  /\ \A f \in Frames : f \notin FreeSet(fr) => lvl2[f] = lvl[f]

(* What the allocator has is no table.                                      *)
LEMMA SpareFacts ==
  ASSUME NEW fr, NEW lvl, Spare(fr, lvl)
  PROVE  /\ \A f \in FreeSet(fr) : f \in Managed /\ f \in Frames /\ lvl[f] = 0
         /\ \A f \in Frames : lvl[f] > 0 => f \in Managed /\ f \notin FreeSet(fr)
  <1>1. \A f \in FreeSet(fr) : f \in Managed /\ lvl[f] = 0
    BY DEF Spare, FreeSet
  <1>2. \A f \in Frames : lvl[f] > 0 => f \in Managed
    BY Zenon DEF Spare
  <1> QED BY <1>1, <1>2, ManagedFrames

(* Growth in two parts.                                                     *)
LEMMA GrownTrans ==
  ASSUME NEW m, NEW fr, NEW lvl, NEW m1, NEW fr1, NEW lvl1, NEW m2, NEW fr2, NEW lvl2,
         Grown(m, fr, lvl, m1, fr1, lvl1), Grown(m1, fr1, lvl1, m2, fr2, lvl2)
  PROVE  Grown(m, fr, lvl, m2, fr2, lvl2)
  <1>1. /\ \A f \in FreeSet(fr1) : f \in Managed /\ f \in Frames /\ lvl1[f] = 0
        /\ \A f \in Frames : lvl1[f] > 0 => f \in Managed /\ f \notin FreeSet(fr1)
    BY SpareFacts, Zenon DEF Grown
  <1>2. /\ Tree(m2, lvl2) /\ Spare(fr2, lvl2)
        /\ \A u \in Nat : Leaf(m2, u) = Leaf(m, u)
    BY Zenon DEF Grown
  <1>3. ASSUME NEW f \in Frames, NEW i \in Idx, lvl2[f] = 0 PROVE At(m2, f, i) = At(m, f, i)
    <2>1. lvl1[f] = 0
      BY <1>1, <1>3, Zenon DEF Grown
    <2> QED BY <1>3, <2>1, Zenon DEF Grown
  <1>4. ASSUME NEW f \in FreeSet(fr), f \notin FreeSet(fr2) PROVE lvl2[f] > 0
    <2>1. CASE f \in FreeSet(fr1)
      BY <1>4, <2>1, Zenon DEF Grown
    <2>2. CASE f \notin FreeSet(fr1)
      <3>1. lvl1[f] > 0
        BY <2>2, Zenon DEF Grown
      <3>2. f \in Frames
        BY <3>1, Zenon DEF Grown
      <3> QED BY <2>2, <3>1, <3>2, Zenon DEF Grown
    <2> QED BY <2>1, <2>2, Zenon
  <1>5. FreeSet(fr2) \subseteq FreeSet(fr) /\ \A f \in Frames : f \notin FreeSet(fr) => lvl2[f] = lvl[f]
    BY Zenon DEF Grown
  <1> QED BY <1>2, <1>3, <1>4, <1>5, Zenon DEF Grown

(* No growth.                                                               *)
LEMMA GrownSame ==
  ASSUME NEW m, NEW fr, NEW lvl, Tree(m, lvl), Spare(fr, lvl)
  PROVE  Grown(m, fr, lvl, m, fr, lvl)
  <1>1. \A f \in FreeSet(fr) : f \in Managed /\ f \in Frames /\ lvl[f] = 0
    BY SpareFacts, Zenon
  <1> QED BY <1>1, Zenon DEF Grown

(* The first frame of the list is filled with c and linked by entry i of a  *)
(* table of level k: with nothing where there was nothing, or with the      *)
(* pages of a huge page.                                                    *)
TableMade(m, fr, at, i, k, c, m2) ==
  /\ fr # << >> /\ ~Link(At(m, at, i))
  /\ c \in [Idx -> Words]
  /\ m2 = Set(Fill(m, Head(fr), c), at, i, Linked(Head(fr)))
  /\ \/ ~Present(At(m, at, i)) /\ \A j \in Idx : c[j] = Unused
     \/ k = 2 /\ Present(At(m, at, i)) /\ Huge(At(m, at, i)) /\ \A j \in Idx : c[j] = Piece(At(m, at, i), j)

(* What that does to memory.                                                *)
LEMMA TableMadeHangs ==
  ASSUME NEW m, NEW fr, NEW lvl, Tree(m, lvl), Spare(fr, lvl), Identity(m),
         NEW at \in Frames, NEW k \in 2..4, lvl[at] = k, NEW i \in Idx, NEW c, NEW m2,
         TableMade(m, fr, at, i, k, c, m2)
  PROVE  /\ Hung(m, m2, lvl, [lvl EXCEPT ![Head(fr)] = k - 1], at, i, Head(fr))
         /\ Faithful(m, m2, at, i, Head(fr), lvl)
  <1> DEFINE f == Head(fr)
             m1 == Fill(m, f, c)
  <1>1. fr # << >> /\ ~Link(At(m, at, i)) /\ c \in [Idx -> Words] /\ m2 = Set(m1, at, i, Linked(f))
    BY Zenon DEF TableMade
  <1>2. f \in Managed /\ f \in FreeSet(fr)
    BY <1>1, TakeHead, Zenon DEF Spare
  <1>3. f \in Frames /\ lvl[f] = 0 /\ f \in Nat /\ f # at /\ at \in Managed
    <2>1. f \in Frames /\ lvl[f] = 0 /\ at \in Managed
      BY <1>2, SpareFacts
    <2> QED BY <2>1, FrameDigits
  <1>4. m \in Mem /\ lvl \in [Frames -> 0..4]
    BY Zenon DEF Tree
  <1> HIDE DEF f
  <1>5. Filled(m1, m, f, c)
    BY <1>1, <1>2, <1>4, TableUpdate, Zenon
  <1> HIDE DEF m1
  <1>6. m1 \in Mem /\ SameTables(m, m1, lvl)
    BY <1>3, <1>5 DEF Filled, SameTables
  <1>7. Identity(m1)
    <2>1. \A u \in Nat : Leaf(m1, u) = Leaf(m, u)
      BY <1>6, DataKept, Zenon
    <2>2. Managed \subseteq Nat
      BY ManagedFrames, FrameDigits, Zenon
    <2> QED BY <2>1, <2>2, Zenon DEF Identity
  <1>8. Linked(f) \in Words
    BY <1>3, WordFacts, Zenon
  <1>9. Updated(m2, m1, at, i, Linked(f))
    <2>1. Updated(Set(m1, at, i, Linked(f)), m1, at, i, Linked(f))
      BY <1>3, <1>6, <1>7, <1>8, TableUpdate, Zenon
    <2> QED BY <1>1, <2>1, Zenon
  <1>10. /\ m2 \in Mem /\ At(m2, at, i) = Linked(f)
         /\ \A j \in Idx : At(m2, f, j) = c[j]
         /\ \A g \in Frames, j \in Idx : g # f /\ (g # at \/ j # i) => At(m2, g, j) = At(m, g, j)
    BY <1>3, <1>5, <1>9, Zenon DEF Filled, Updated
  <1>11. /\ ~Present(At(m, at, i)) => \A j \in Idx : At(m2, f, j) = Unused
         /\ Present(At(m, at, i)) =>
              k = 2 /\ Huge(At(m, at, i)) /\ \A j \in Idx : At(m2, f, j) = Piece(At(m, at, i), j)
    BY <1>10, Zenon DEF TableMade
  <1>12. Hung(m, m2, lvl, [lvl EXCEPT ![f] = k - 1], at, i, f)
    <2>1. lvl[at] >= 3 => \A j \in Idx : At(m2, f, j) = Unused
      BY <1>11
    <2>2. lvl[at] >= 2
      OBVIOUS
    <2> QED BY <1>1, <1>3, <1>10, <2>1, <2>2, Zenon DEF Hung
  <1>13. Faithful(m, m2, at, i, f, lvl)
    BY <1>11, Zenon DEF Faithful
  <1> QED BY <1>12, <1>13, Zenon DEF f

(* A new table is part of the tree, and no page leads elsewhere.            *)
LEMMA NewTable ==
  ASSUME NEW m, NEW fr, NEW lvl, Tree(m, lvl), Spare(fr, lvl), Identity(m),
         NEW v \in Nat, NEW k \in 2..4, NEW at, On(m, lvl, v, k, at), NEW c, NEW m2,
         TableMade(m, fr, at, Digit(v, k), k, c, m2)
  PROVE  /\ m2 \in Mem /\ Tail(fr) \in Seq(Managed) /\ Head(fr) \in Frames
         /\ \E lvl2 \in [Frames -> 0..4] :
              /\ Grown(m, fr, lvl, m2, Tail(fr), lvl2)
              /\ On(m2, lvl2, v, k, at) /\ On(m2, lvl2, v, k - 1, Head(fr))
  <1> DEFINE f == Head(fr)
             i == Digit(v, k)
             lvl2 == [lvl EXCEPT ![f] = k - 1]
  <1>1. at \in Frames /\ lvl[at] = k /\ i \in Idx
    BY DigitFacts DEF On
  <1>2. Hung(m, m2, lvl, lvl2, at, i, f) /\ Faithful(m, m2, at, i, f, lvl)
    BY <1>1, TableMadeHangs, Zenon
  <1>3. fr # << >>
    BY Zenon DEF TableMade
  <1>4. /\ f \in Managed /\ f \in FreeSet(fr) /\ Tail(fr) \in Seq(Managed)
        /\ \A j, l \in DOMAIN Tail(fr) : Tail(fr)[j] = Tail(fr)[l] => j = l
        /\ FreeSet(Tail(fr)) = FreeSet(fr) \ {f}
    BY <1>3, TakeHead, Zenon DEF Spare
  <1> HIDE DEF f, i, lvl2
  <1>5. f \in Frames /\ m2 \in Mem /\ At(m2, at, i) = Linked(f) /\ f \in Nat
    BY <1>2, FrameDigits, Zenon DEF Hung
  <1>6. Tree(m2, lvl2)
    BY <1>2, HungTree, Zenon
  <1>7. \A u \in Nat : Leaf(m2, u) = Leaf(m, u)
    BY <1>2, HungLeaf, Zenon
  <1>8. /\ lvl2 \in [Frames -> 0..4] /\ lvl2[f] = k - 1
        /\ \A g \in Frames : g # f => lvl2[g] = lvl[g]
    BY <1>1, <1>2, HungLevels
  <1>9. On(m2, lvl2, v, k, at)
    BY <1>2, HungOn
  <1>10. On(m2, lvl2, v, k - 1, f)
    <2>1. Link(At(m2, at, i)) /\ To(At(m2, at, i)) = f
      BY <1>5, WordFacts, Zenon
    <2> QED BY <1>6, <1>9, <2>1, OneLevelDown, Zenon DEF i
  <1>11. Spare(Tail(fr), lvl2)
    <2>1. /\ \A g \in FreeSet(fr) : g \in Frames /\ lvl[g] = 0
          /\ \A g \in Frames : lvl[g] > 0 => g \in Managed
      BY SpareFacts, Zenon
    <2>2. \A j \in DOMAIN Tail(fr) : Tail(fr)[j] \in FreeSet(Tail(fr))
      BY Zenon DEF FreeSet
    <2>3. \A j \in DOMAIN Tail(fr) : lvl2[Tail(fr)[j]] = 0
      BY <1>4, <1>8, <2>1, <2>2, Zenon
    <2>4. \A g \in Frames : lvl2[g] > 0 => g \in Managed
      BY <1>4, <1>8, <2>1, Zenon
    <2> QED BY <1>4, <2>3, <2>4, Zenon DEF Spare
  <1>12. ASSUME NEW g \in Frames, NEW j \in Idx, lvl2[g] = 0 PROVE At(m2, g, j) = At(m, g, j)
    <2>1. g # f /\ g # at
      BY <1>1, <1>2, <1>8, <1>12, HungLevels
    <2> QED BY <1>2, <2>1, Zenon DEF Hung
  <1>13. /\ FreeSet(Tail(fr)) \subseteq FreeSet(fr) /\ FreeSet(fr) \subseteq Frames
         /\ \A g \in FreeSet(fr) : g \in FreeSet(Tail(fr)) \/ lvl2[g] > 0
         /\ \A g \in Frames : g \notin FreeSet(fr) => lvl2[g] = lvl[g]
    <2>1. \A g \in FreeSet(fr) : g \in Frames
      BY SpareFacts, Zenon
    <2>2. \A g \in FreeSet(fr) : g \in FreeSet(Tail(fr)) \/ lvl2[g] > 0
      BY <1>4, <1>8
    <2>3. \A g \in Frames : g \notin FreeSet(fr) => lvl2[g] = lvl[g]
      BY <1>4, <1>8, Zenon
    <2> QED BY <1>4, <2>1, <2>2, <2>3, Zenon
  <1>14. Grown(m, fr, lvl, m2, Tail(fr), lvl2)
    BY <1>6, <1>7, <1>11, <1>12, <1>13, Zenon DEF Grown
  <1> QED BY <1>4, <1>5, <1>8, <1>9, <1>10, <1>14, Zenon DEF f

-----------------------------------------------------------------------------
(* map_page step by step.                                                   *)

Stage == [mem : Mem, free : Seq(Managed), at : Frames, ok : BOOLEAN]

(* A stage by its parts.                                                    *)
IsStage(s, m, fr, at, ok) ==
  s \in Stage /\ s.mem = m /\ s.free = fr /\ s.at = at /\ s.ok = ok

(* What a step replaces.                                                    *)
LEMMA StageUpdates ==
  ASSUME NEW s, NEW m, NEW fr, NEW at, NEW ok, IsStage(s, m, fr, at, ok),
         NEW m2 \in Mem, NEW fr2 \in Seq(Managed), NEW at2 \in Frames
  PROVE  /\ IsStage([s EXCEPT !.mem = m2, !.free = fr2], m2, fr2, at, ok)
         /\ IsStage([s EXCEPT !.mem = m2, !.free = fr2, !.at = at2], m2, fr2, at2, ok)
         /\ IsStage([s EXCEPT !.at = at2], m, fr, at2, ok)
         /\ IsStage([s EXCEPT !.mem = m2], m2, fr, at, ok)
         /\ IsStage(Refused(s), m, fr, at, FALSE)
  BY Zenon DEF Refused, IsStage, Stage

(* Ensure in its four cases: entry e is met, m2 has the new table.          *)
EnsureCases(r, m, fr, at, ok, e, m2) ==
  /\ ~ok => IsStage(r, m, fr, at, FALSE)
  /\ ok /\ Present(e) /\ To(e) \in Frames => IsStage(r, m, fr, To(e), TRUE)
  /\ ok /\ ~Present(e) /\ fr = << >> => IsStage(r, m, fr, at, FALSE)
  /\ ok /\ ~Present(e) /\ fr # << >>
       /\ m2 \in Mem /\ Tail(fr) \in Seq(Managed) /\ Head(fr) \in Frames
       => IsStage(r, m2, Tail(fr), Head(fr), TRUE)

(* It is one of them.                                                       *)
LEMMA EnsureIs ==
  ASSUME NEW s, NEW m, NEW fr, NEW at, NEW ok, IsStage(s, m, fr, at, ok),
         NEW i, NEW e, e = Read(m, at, i),
         NEW m2, m2 = Set(Fill(m, Head(fr), [j \in Idx |-> Unused]), at, i, Linked(Head(fr)))
  PROVE  EnsureCases(Ensure(s, i), m, fr, at, ok, e, m2)
  <1>1. ok \in BOOLEAN /\ m \in Mem /\ fr \in Seq(Managed) /\ at \in Frames
        /\ s.mem = m /\ s.free = fr /\ s.at = at /\ s.ok = ok
    BY Zenon DEF IsStage, Stage
  <1>2. ASSUME ~ok PROVE IsStage(Ensure(s, i), m, fr, at, FALSE)
    <2>1. Ensure(s, i) = s /\ ok = FALSE
      BY <1>1, <1>2, Zenon DEF Ensure
    <2> QED BY <1>2, <2>1, Zenon
  <1>3. ASSUME ok, Present(e), To(e) \in Frames
        PROVE  IsStage(Ensure(s, i), m, fr, To(e), TRUE)
    <2>1. Ensure(s, i) = [s EXCEPT !.at = To(e)] /\ ok = TRUE
      BY <1>1, <1>3, Zenon DEF Ensure, To
    <2>2. IsStage([s EXCEPT !.at = To(e)], m, fr, To(e), ok)
      BY <1>3, Zenon DEF IsStage, Stage
    <2> QED BY <2>1, <2>2, Zenon DEF IsStage
  <1>4. ASSUME ok, ~Present(e), fr = << >> PROVE IsStage(Ensure(s, i), m, fr, at, FALSE)
    <2>1. Ensure(s, i) = Refused(s)
      BY <1>1, <1>4, Zenon DEF Ensure
    <2>2. IsStage(Refused(s), m, fr, at, FALSE)
      BY Zenon DEF Refused, IsStage, Stage
    <2> QED BY <2>1, <2>2, Zenon
  <1>5. ASSUME ok, ~Present(e), fr # << >>,
               m2 \in Mem, Tail(fr) \in Seq(Managed), Head(fr) \in Frames
        PROVE  IsStage(Ensure(s, i), m2, Tail(fr), Head(fr), TRUE)
    <2>1. Ensure(s, i) = [s EXCEPT !.mem = m2, !.free = Tail(fr), !.at = Head(fr)] /\ ok = TRUE
      BY <1>1, <1>5, Zenon DEF Ensure
    <2>2. IsStage([s EXCEPT !.mem = m2, !.free = Tail(fr), !.at = Head(fr)], m2, Tail(fr), Head(fr), ok)
      BY <1>1, <1>5, StageUpdates, Zenon
    <2> QED BY <2>1, <2>2, Zenon DEF IsStage
  <1> QED BY <1>2, <1>3, <1>4, <1>5, Zenon DEF EnsureCases

(* Split in its three.                                                      *)
LEMMA SplitIs ==
  ASSUME NEW s, NEW m, NEW fr, NEW at, NEW ok, IsStage(s, m, fr, at, ok),
         NEW i, NEW e, e = Read(m, at, i),
         NEW m2, m2 = Set(Fill(m, Head(fr), [j \in Idx |-> Piece(e, j)]), at, i, Linked(Head(fr)))
  PROVE  /\ ~(ok /\ Present(e) /\ Huge(e)) => IsStage(Split(s, i), m, fr, at, ok)
         /\ ok /\ Present(e) /\ Huge(e) /\ fr = << >> => IsStage(Split(s, i), m, fr, at, FALSE)
         /\ ok /\ Present(e) /\ Huge(e) /\ fr # << >>
              /\ m2 \in Mem /\ Tail(fr) \in Seq(Managed)
              => IsStage(Split(s, i), m2, Tail(fr), at, TRUE)
  <1>1. ok \in BOOLEAN /\ m \in Mem /\ fr \in Seq(Managed) /\ at \in Frames
        /\ s.mem = m /\ s.free = fr /\ s.at = at /\ s.ok = ok
    BY Zenon DEF IsStage, Stage
  <1>2. ASSUME ~(ok /\ Present(e) /\ Huge(e)) PROVE IsStage(Split(s, i), m, fr, at, ok)
    <2>1. Split(s, i) = s
      BY <1>1, <1>2, Zenon DEF Split, Huge
    <2> QED BY <1>2, <2>1, Zenon
  <1>3. ASSUME ok, Present(e), Huge(e), fr = << >> PROVE IsStage(Split(s, i), m, fr, at, FALSE)
    <2>1. Split(s, i) = Refused(s)
      BY <1>1, <1>3, Zenon DEF Split, Huge
    <2>2. IsStage(Refused(s), m, fr, at, FALSE)
      BY Zenon DEF Refused, IsStage, Stage
    <2> QED BY <2>1, <2>2, Zenon
  <1>4. ASSUME ok, Present(e), Huge(e), fr # << >>, m2 \in Mem, Tail(fr) \in Seq(Managed)
        PROVE  IsStage(Split(s, i), m2, Tail(fr), at, TRUE)
    <2>1. Split(s, i) = [s EXCEPT !.mem = m2, !.free = Tail(fr)] /\ ok = TRUE
      BY <1>1, <1>4, Zenon DEF Split, Huge, Piece
    <2>2. IsStage([s EXCEPT !.mem = m2, !.free = Tail(fr)], m2, Tail(fr), at, ok)
      BY <1>1, <1>4, StageUpdates, Zenon
    <2> QED BY <2>1, <2>2, Zenon DEF IsStage
  <1> QED BY <1>2, <1>3, <1>4, Zenon

(* A stage that map_page may come to from memory m, list fr and levels lvl, *)
(* on its way to page v: refused, or at level k.                            *)
Reaches(r, m, fr, lvl, v, k) ==
  \E m2, fr2, at, ok : \E lvl2 \in [Frames -> 0..4] :
    /\ IsStage(r, m2, fr2, at, ok)
    /\ Grown(m, fr, lvl, m2, fr2, lvl2)
    /\ ok => On(m2, lvl2, v, k, at)

(* What grows stays at its own address.                                     *)
LEMMA GrownIdentity ==
  ASSUME NEW m, NEW fr, NEW lvl, NEW m2, NEW fr2, NEW lvl2,
         Grown(m, fr, lvl, m2, fr2, lvl2), Identity(m)
  PROVE  Identity(m2)
  <1>1. \A f \in Managed : f \in Nat
    BY ManagedFrames, FrameDigits, Zenon
  <1>2. \A u \in Nat : Leaf(m2, u) = Leaf(m, u)
    BY Zenon DEF Grown
  <1> QED BY <1>1, <1>2, Zenon DEF Identity

(* A table on the way is read as it is.                                     *)
LEMMA ReadOn ==
  ASSUME NEW m, NEW fr, NEW lvl, Tree(m, lvl), Spare(fr, lvl), Identity(m),
         NEW v \in Nat, NEW k \in 1..4, NEW at, On(m, lvl, v, k, at)
  PROVE  /\ at \in Managed /\ at \in Frames /\ Digit(v, k) \in Idx
         /\ Read(m, at, Digit(v, k)) = At(m, at, Digit(v, k))
         /\ At(m, at, Digit(v, k)) \in Words
  <1>1. m \in Mem /\ at \in Frames /\ lvl[at] = k
    BY Zenon DEF Tree, On
  <1>2. at \in Managed
    BY <1>1, SpareFacts
  <1>3. Digit(v, k) \in Idx
    BY DigitFacts, Zenon
  <1> QED BY <1>1, <1>2, <1>3, ReadTable, AtWord, Zenon

(* A table that may be missing: the next level is reached, or refused.      *)
LEMMA EnsureReaches ==
  ASSUME NEW s, NEW m, NEW fr, NEW at, NEW ok, IsStage(s, m, fr, at, ok),
         NEW lvl, Tree(m, lvl), Spare(fr, lvl), Identity(m),
         NEW v \in Nat, NEW k \in 2..4,
         ok => /\ On(m, lvl, v, k, at)
               /\ Present(At(m, at, Digit(v, k))) => Link(At(m, at, Digit(v, k)))
  PROVE  Reaches(Ensure(s, Digit(v, k)), m, fr, lvl, v, k - 1)
  <1> DEFINE i == Digit(v, k)
             e == Read(m, at, i)
             f == Head(fr)
             c == [j \in Idx |-> Unused]
             m2 == Set(Fill(m, f, c), at, i, Linked(f))
             r == Ensure(s, i)
  <1>1. lvl \in [Frames -> 0..4] /\ ok \in BOOLEAN
    BY Zenon DEF Tree, IsStage, Stage
  <1>2. Grown(m, fr, lvl, m, fr, lvl)
    BY GrownSame, Zenon
  <1>3. ok => On(m, lvl, v, k, at) /\ e = At(m, at, i)
    BY ReadOn
  <1>4. /\ ~ok => IsStage(r, m, fr, at, FALSE)
        /\ ok /\ Present(e) /\ To(e) \in Frames => IsStage(r, m, fr, To(e), TRUE)
        /\ ok /\ ~Present(e) /\ fr = << >> => IsStage(r, m, fr, at, FALSE)
        /\ ok /\ ~Present(e) /\ fr # << >> /\ m2 \in Mem /\ Tail(fr) \in Seq(Managed) /\ f \in Frames
              => IsStage(r, m2, Tail(fr), f, TRUE)
    <2>1. /\ e = Read(m, at, i)
          /\ m2 = Set(Fill(m, Head(fr), [j \in Idx |-> Unused]), at, i, Linked(Head(fr)))
      BY Zenon
    <2>2. IsStage(s, m, fr, at, ok)
      BY Zenon
    <2> HIDE DEF e, m2, i, r, f
    <2>3. EnsureCases(r, m, fr, at, ok, e, m2)
      BY ONLY <2>1, <2>2, EnsureIs, Zenon DEF r
    <2> QED BY ONLY <2>3, Zenon DEF EnsureCases, f
  <1>5. TableMade(m, fr, at, i, k, c, m2) \/ ~ok \/ Present(e) \/ fr = << >>
    <2> SUFFICES ASSUME ok, ~Present(e), fr # << >> PROVE TableMade(m, fr, at, i, k, c, m2)
      BY Zenon
    <2>1. c \in [Idx -> Words] /\ \A j \in Idx : c[j] = Unused
      BY WordFacts, Zenon
    <2>2. ~Present(At(m, at, i)) /\ ~Link(At(m, at, i))
      BY <1>3, Zenon DEF Link
    <2> HIDE DEF c, i, f
    <2> QED BY <2>1, <2>2, Zenon DEF TableMade, f
  <1> HIDE DEF i, e, f, c, m2, r
  <1>6. CASE ~ok \/ (~Present(e) /\ fr = << >>)
    <2>1. IsStage(r, m, fr, at, FALSE)
      BY <1>1, <1>4, <1>6, Zenon
    <2> QED BY <1>1, <1>2, <2>1, Zenon DEF Reaches, r, i
  <1>7. CASE ok /\ Present(e)
    <2>1. On(m, lvl, v, k - 1, To(e))
      BY <1>3, <1>7, OneLevelDown, Zenon DEF i
    <2>2. To(e) \in Frames
      BY <2>1, Zenon DEF On
    <2>3. IsStage(r, m, fr, To(e), TRUE)
      BY <1>4, <1>7, <2>2, Zenon
    <2> QED BY <1>1, <1>2, <2>1, <2>3, Zenon DEF Reaches, r, i
  <1>8. CASE ok /\ ~Present(e) /\ fr # << >>
    <2>1. TableMade(m, fr, at, i, k, c, m2)
      BY <1>5, <1>8, Zenon
    <2>2. /\ m2 \in Mem /\ Tail(fr) \in Seq(Managed) /\ f \in Frames
          /\ \E lvl2 \in [Frames -> 0..4] :
               /\ Grown(m, fr, lvl, m2, Tail(fr), lvl2)
               /\ On(m2, lvl2, v, k, at) /\ On(m2, lvl2, v, k - 1, f)
      BY <1>3, <1>8, <2>1, NewTable, Zenon DEF i, f
    <2>3. IsStage(r, m2, Tail(fr), f, TRUE)
      BY <1>4, <1>8, <2>2, Zenon
    <2> QED BY <2>2, <2>3, Zenon DEF Reaches, r, i
  <1> QED BY <1>1, <1>6, <1>7, <1>8, Zenon

(* A stage of level 2 that has no huge page in the way.                     *)
Clears(r, m, fr, lvl, v) ==
  \E m2, fr2, at, ok : \E lvl2 \in [Frames -> 0..4] :
    /\ IsStage(r, m2, fr2, at, ok)
    /\ Grown(m, fr, lvl, m2, fr2, lvl2)
    /\ ok => /\ On(m2, lvl2, v, 2, at)
             /\ Present(At(m2, at, Digit(v, 2))) => Link(At(m2, at, Digit(v, 2)))

(* A huge page that may be in the way is split, or the split refused.       *)
LEMMA SplitClears ==
  ASSUME NEW s, NEW m, NEW fr, NEW at, NEW ok, IsStage(s, m, fr, at, ok),
         NEW lvl, Tree(m, lvl), Spare(fr, lvl), Identity(m),
         NEW v \in Nat, ok => On(m, lvl, v, 2, at)
  PROVE  Clears(Split(s, Digit(v, 2)), m, fr, lvl, v)
  <1> DEFINE i == Digit(v, 2)
             e == Read(m, at, i)
             f == Head(fr)
             c == [j \in Idx |-> Piece(e, j)]
             m2 == Set(Fill(m, f, c), at, i, Linked(f))
             r == Split(s, i)
  <1>1. lvl \in [Frames -> 0..4] /\ ok \in BOOLEAN
    BY Zenon DEF Tree, IsStage, Stage
  <1>2. Grown(m, fr, lvl, m, fr, lvl)
    BY GrownSame, Zenon
  <1>3. ok => On(m, lvl, v, 2, at) /\ e = At(m, at, i) /\ e \in Words
    BY ReadOn
  <1>4. /\ ~(ok /\ Present(e) /\ Huge(e)) => IsStage(r, m, fr, at, ok)
        /\ ok /\ Present(e) /\ Huge(e) /\ fr = << >> => IsStage(r, m, fr, at, FALSE)
        /\ ok /\ Present(e) /\ Huge(e) /\ fr # << >> /\ m2 \in Mem /\ Tail(fr) \in Seq(Managed)
              => IsStage(r, m2, Tail(fr), at, TRUE)
    BY SplitIs, Zenon
  <1>5. ASSUME ok, Present(e), Huge(e), fr # << >> PROVE TableMade(m, fr, at, i, 2, c, m2)
    <2>1. c \in [Idx -> Words] /\ \A j \in Idx : c[j] = Piece(e, j)
      BY <1>3, <1>5, WordFacts, BootTables, Zenon
    <2>2. e = At(m, at, i) /\ ~Link(At(m, at, i))
      BY <1>3, <1>5, Zenon DEF Link
    <2> HIDE DEF c, i, f, e
    <2> QED BY <1>5, <2>1, <2>2, Zenon DEF TableMade, f
  <1> HIDE DEF i, e, f, c, m2, r
  <1>6. CASE ~(ok /\ Present(e) /\ Huge(e))
    <2>1. IsStage(r, m, fr, at, ok)
      BY <1>4, <1>6, Zenon
    <2>2. ok => (Present(At(m, at, i)) => Link(At(m, at, i)))
      BY <1>3, <1>6, Zenon DEF Link
    <2> QED BY <1>1, <1>2, <1>3, <2>1, <2>2, Zenon DEF Clears, r, i
  <1>7. CASE ok /\ Present(e) /\ Huge(e) /\ fr = << >>
    <2>1. IsStage(r, m, fr, at, FALSE)
      BY <1>4, <1>7, Zenon
    <2> QED BY <1>1, <1>2, <2>1, Zenon DEF Clears, r, i
  <1>8. CASE ok /\ Present(e) /\ Huge(e) /\ fr # << >>
    <2>1. TableMade(m, fr, at, i, 2, c, m2)
      BY <1>5, <1>8, Zenon
    <2>2. /\ m2 \in Mem /\ Tail(fr) \in Seq(Managed) /\ f \in Frames
          /\ \E lvl2 \in [Frames -> 0..4] :
               /\ Grown(m, fr, lvl, m2, Tail(fr), lvl2)
               /\ On(m2, lvl2, v, 2, at) /\ On(m2, lvl2, v, 2 - 1, f)
      BY <1>3, <1>8, <2>1, NewTable DEF i, f
    <2>3. IsStage(r, m2, Tail(fr), at, TRUE)
      BY <1>4, <1>8, <2>2, Zenon
    <2>4. At(m2, at, i) = Linked(f) /\ f \in Nat
      <3>1. at \in Frames /\ lvl[at] = 2 /\ i \in Idx
        BY <1>3, <1>8, DigitFacts DEF On, i
      <3>3. 2 \in 2..4
        OBVIOUS
      <3>2. Hung(m, m2, lvl, [lvl EXCEPT ![f] = 2 - 1], at, i, f)
        BY <2>1, <3>1, <3>3, TableMadeHangs, Zenon DEF f
      <3> QED BY <2>2, <3>2, FrameDigits, Zenon DEF Hung
    <2>5. Link(At(m2, at, i))
      BY <2>4, WordFacts, Zenon
    <2> QED BY <2>2, <2>3, <2>5, Zenon DEF Clears, r, i
  <1> QED BY <1>1, <1>6, <1>7, <1>8, Zenon

(* One stage after another.                                                 *)
LEMMA ReachesOn ==
  ASSUME NEW m, NEW fr, NEW lvl, NEW m1, NEW fr1, NEW lvl1,
         Grown(m, fr, lvl, m1, fr1, lvl1),
         NEW r, NEW v, NEW k, Reaches(r, m1, fr1, lvl1, v, k)
  PROVE  Reaches(r, m, fr, lvl, v, k)
  <1>1. PICK m2, fr2, at, ok : \E lvl2 \in [Frames -> 0..4] :
               /\ IsStage(r, m2, fr2, at, ok)
               /\ Grown(m1, fr1, lvl1, m2, fr2, lvl2)
               /\ ok => On(m2, lvl2, v, k, at)
    BY Zenon DEF Reaches
  <1>2. PICK lvl2 \in [Frames -> 0..4] :
               /\ IsStage(r, m2, fr2, at, ok)
               /\ Grown(m1, fr1, lvl1, m2, fr2, lvl2)
               /\ ok => On(m2, lvl2, v, k, at)
    BY <1>1, Zenon
  <1>3. Grown(m, fr, lvl, m2, fr2, lvl2)
    BY <1>2, GrownTrans, Zenon
  <1> QED BY <1>2, <1>3, Zenon DEF Reaches

(* The two upper levels, where there is no huge page.                       *)
LEMMA EnsureUpper ==
  ASSUME NEW s, NEW m, NEW fr, NEW lvl, Identity(m),
         NEW v \in Nat, NEW k \in 3..4, Reaches(s, m, fr, lvl, v, k)
  PROVE  Reaches(Ensure(s, Digit(v, k)), m, fr, lvl, v, k - 1)
  <1>1. PICK m2, fr2, at, ok : \E lvl2 \in [Frames -> 0..4] :
               /\ IsStage(s, m2, fr2, at, ok)
               /\ Grown(m, fr, lvl, m2, fr2, lvl2)
               /\ ok => On(m2, lvl2, v, k, at)
    BY Zenon DEF Reaches
  <1>2. PICK lvl2 \in [Frames -> 0..4] :
               /\ IsStage(s, m2, fr2, at, ok)
               /\ Grown(m, fr, lvl, m2, fr2, lvl2)
               /\ ok => On(m2, lvl2, v, k, at)
    BY <1>1, Zenon
  <1>3. Tree(m2, lvl2) /\ Spare(fr2, lvl2) /\ Identity(m2) /\ k \in 2..4 /\ k \in 1..4
    BY <1>2, GrownIdentity DEF Grown
  <1>4. ok => ~Huge(At(m2, at, Digit(v, k)))
    <2>1. ok => at \in Frames /\ lvl2[at] >= 3 /\ Digit(v, k) \in Idx
      BY <1>2, <1>3, DigitFacts DEF On
    <2> QED BY <1>3, <2>1, Zenon DEF Tree, HugeAtHome
  <1>5. ok => (Present(At(m2, at, Digit(v, k))) => Link(At(m2, at, Digit(v, k))))
    BY <1>4, Zenon DEF Link
  <1>6. Reaches(Ensure(s, Digit(v, k)), m2, fr2, lvl2, v, k - 1)
    BY <1>2, <1>3, <1>5, EnsureReaches
  <1> QED BY <1>2, <1>6, ReachesOn, Zenon

(* The third, where there may be one.                                       *)
LEMMA EnsureThird ==
  ASSUME NEW s, NEW m, NEW fr, NEW lvl, Identity(m),
         NEW v \in Nat, Reaches(s, m, fr, lvl, v, 2)
  PROVE  Reaches(Ensure(Split(s, Digit(v, 2)), Digit(v, 2)), m, fr, lvl, v, 1)
  <1> DEFINE q == Split(s, Digit(v, 2))
  <1>1. PICK m1, fr1, at1, ok1 : \E lvl1 \in [Frames -> 0..4] :
               /\ IsStage(s, m1, fr1, at1, ok1)
               /\ Grown(m, fr, lvl, m1, fr1, lvl1)
               /\ ok1 => On(m1, lvl1, v, 2, at1)
    BY Zenon DEF Reaches
  <1>2. PICK lvl1 \in [Frames -> 0..4] :
               /\ IsStage(s, m1, fr1, at1, ok1)
               /\ Grown(m, fr, lvl, m1, fr1, lvl1)
               /\ ok1 => On(m1, lvl1, v, 2, at1)
    BY <1>1, Zenon
  <1>3. Tree(m1, lvl1) /\ Spare(fr1, lvl1) /\ Identity(m1)
    BY <1>2, GrownIdentity DEF Grown
  <1>4. Clears(q, m1, fr1, lvl1, v)
    BY <1>2, <1>3, SplitClears, Zenon
  <1> HIDE DEF q
  <1>5. PICK m2, fr2, at, ok : \E lvl2 \in [Frames -> 0..4] :
               /\ IsStage(q, m2, fr2, at, ok)
               /\ Grown(m1, fr1, lvl1, m2, fr2, lvl2)
               /\ ok => /\ On(m2, lvl2, v, 2, at)
                        /\ Present(At(m2, at, Digit(v, 2))) => Link(At(m2, at, Digit(v, 2)))
    BY <1>4, Zenon DEF Clears
  <1>6. PICK lvl2 \in [Frames -> 0..4] :
               /\ IsStage(q, m2, fr2, at, ok)
               /\ Grown(m1, fr1, lvl1, m2, fr2, lvl2)
               /\ ok => /\ On(m2, lvl2, v, 2, at)
                        /\ Present(At(m2, at, Digit(v, 2))) => Link(At(m2, at, Digit(v, 2)))
    BY <1>5, Zenon
  <1>7. Tree(m2, lvl2) /\ Spare(fr2, lvl2) /\ Identity(m2) /\ 2 \in 2..4 /\ 2 - 1 = 1
    BY <1>3, <1>6, GrownIdentity DEF Grown
  <1>8. Reaches(Ensure(q, Digit(v, 2)), m2, fr2, lvl2, v, 2 - 1)
    BY <1>6, <1>7, EnsureReaches, Zenon
  <1>9. Reaches(Ensure(q, Digit(v, 2)), m, fr, lvl, v, 1)
    <2>1. Reaches(Ensure(q, Digit(v, 2)), m2, fr2, lvl2, v, 1)
      BY <1>7, <1>8, Zenon
    <2>2. Reaches(Ensure(q, Digit(v, 2)), m1, fr1, lvl1, v, 1)
      BY <1>6, <2>1, ReachesOn, Zenon
    <2> QED BY <1>2, <2>2, ReachesOn, Zenon
  <1> QED BY <1>9, Zenon DEF q

(* The way down to the table of page v.                                     *)
MapDown(m, fr, v) ==
  LET s1 == Ensure([mem |-> m, free |-> fr, at |-> Pml4, ok |-> TRUE], pml4_index(v))
      s2 == Ensure(s1, pdpt_index(v))
  IN  Ensure(Split(s2, pd_index(v)), pd_index(v))

(* It gets there, or is refused.                                            *)
LEMMA MapDownReaches ==
  ASSUME NEW m, NEW fr, NEW lvl, Tree(m, lvl), Spare(fr, lvl), Identity(m), NEW v \in Nat
  PROVE  Reaches(MapDown(m, fr, v), m, fr, lvl, v, 1)
  <1> DEFINE s0 == [mem |-> m, free |-> fr, at |-> Pml4, ok |-> TRUE]
             s1 == Ensure(s0, pml4_index(v))
             s2 == Ensure(s1, pdpt_index(v))
             s3 == Ensure(Split(s2, pd_index(v)), pd_index(v))
  <1>1. m \in Mem /\ fr \in Seq(Managed) /\ lvl \in [Frames -> 0..4] /\ Pml4 \in Frames
    BY BootTables, Zenon DEF Tree, Spare
  <1>2. IsStage(s0, m, fr, Pml4, TRUE)
    BY <1>1, Zenon DEF IsStage, Stage
  <1>3. Grown(m, fr, lvl, m, fr, lvl) /\ On(m, lvl, v, 4, Pml4)
    BY <1>1, GrownSame DEF On, Tree, Root
  <1>4. /\ Digit(v, 4) = pml4_index(v) /\ Digit(v, 3) = pdpt_index(v) /\ Digit(v, 2) = pd_index(v)
        /\ 4 \in 3..4 /\ 3 \in 3..4 /\ 4 - 1 = 3 /\ 3 - 1 = 2
    BY DigitFacts
  <1> HIDE DEF s0
  <1>5. Reaches(s0, m, fr, lvl, v, 4)
    BY <1>1, <1>2, <1>3, Zenon DEF Reaches
  <1> HIDE DEF s1
  <1>6. Reaches(s1, m, fr, lvl, v, 3)
    BY <1>4, <1>5, EnsureUpper, Zenon DEF s1
  <1> HIDE DEF s2
  <1>7. Reaches(s2, m, fr, lvl, v, 2)
    BY <1>4, <1>6, EnsureUpper, Zenon DEF s2
  <1>8. Reaches(s3, m, fr, lvl, v, 1)
    BY <1>4, <1>7, EnsureThird, Zenon
  <1> QED BY <1>8, Zenon DEF s0, s1, s2, s3, MapDown

(* What map_page leaves: page v leads to w unless it was refused, every     *)
(* other page where it led; frames of the list have become tables.          *)
Mapped(m, fr, lvl, v, w, m2, fr2, ok, lvl2) ==
  /\ Tree(m2, lvl2) /\ Spare(fr2, lvl2)
  /\ ok => Leaf(m2, v) = w
  /\ \A u \in Virtual : ~ok \/ u # v => Leaf(m2, u) = Leaf(m, u)
  /\ \A f \in Frames, i \in Idx : lvl2[f] = 0 => At(m2, f, i) = At(m, f, i)
  /\ FreeSet(fr2) \subseteq FreeSet(fr) /\ FreeSet(fr) \subseteq Frames
  /\ \A f \in FreeSet(fr) : f \in FreeSet(fr2) \/ lvl2[f] > 0
  /\ \A f \in Frames : f \notin FreeSet(fr) => lvl2[f] = lvl[f]

IsResult(r, m, fr, ok) == ok \in BOOLEAN /\ r.mem = m /\ r.free = fr /\ r.ok = ok

(* r is what map_page may return.                                           *)
Maps(r, m, fr, lvl, v, w) ==
  \E m2, fr2, ok : \E lvl2 \in [Frames -> 0..4] :
    IsResult(r, m2, fr2, ok) /\ Mapped(m, fr, lvl, v, w, m2, fr2, ok, lvl2)

(* The last step: the entry in the table of pages.                          *)
LEMMA LastSet ==
  ASSUME NEW m, NEW fr, NEW lvl, NEW m1, NEW fr2, NEW lvl2, Identity(m),
         Grown(m, fr, lvl, m1, fr2, lvl2),
         NEW v \in Virtual, NEW at, On(m1, lvl2, v, 1, at), NEW w \in Words
  PROVE  Mapped(m, fr, lvl, v, w, Set(m1, at, pt_index(v), w), fr2, TRUE, lvl2)
  <1> DEFINE i == pt_index(v)
             m2 == Set(m1, at, i, w)
  <1>1. v \in Nat /\ i \in Idx
    BY Digits, Zenon DEF Virtual
  <1>2. Tree(m1, lvl2) /\ Spare(fr2, lvl2) /\ Identity(m1) /\ m1 \in Mem
    BY GrownIdentity DEF Grown, Tree
  <1>3. at \in Frames /\ lvl2[at] = 1 /\ Link(E2(m1, v)) /\ at = To(E2(m1, v))
    BY Zenon DEF On
  <1>4. at \in Managed
    BY <1>2, <1>3, SpareFacts
  <1> HIDE DEF i
  <1>5. Updated(m2, m1, at, i, w)
    BY <1>1, <1>2, <1>4, TableUpdate, Zenon
  <1> HIDE DEF m2
  <1>6. /\ m2 \in Mem /\ At(m2, at, i) = w
        /\ \A g \in Frames, j \in Idx : g # at \/ j # i => At(m2, g, j) = At(m1, g, j)
    BY <1>5, Zenon DEF Updated
  <1>7. /\ Tree(m2, lvl2)
        /\ Leaf(m2, v) = At(m2, To(E2(m1, v)), pt_index(v))
        /\ \A u \in Virtual : u # v => Leaf(m2, u) = Leaf(m1, u)
        /\ \A g \in Frames, j \in Idx : lvl2[g] # 1 => At(m2, g, j) = At(m1, g, j)
    <2>1. \A g \in Frames, j \in Idx :
            g # To(E2(m1, v)) \/ j # pt_index(v) => At(m2, g, j) = At(m1, g, j)
      BY <1>3, <1>6, Zenon DEF i
    <2> QED BY <1>2, <1>3, <1>6, <2>1, PageSet
  <1>8. Leaf(m2, v) = w
    BY <1>3, <1>6, <1>7, Zenon DEF i
  <1>9. \A u \in Virtual : u # v => Leaf(m2, u) = Leaf(m, u)
    <2>1. \A u \in Virtual : u \in Nat
      BY Zenon DEF Virtual
    <2> QED BY <1>7, <2>1, Zenon DEF Grown
  <1>10. \A g \in Frames, j \in Idx : lvl2[g] = 0 => At(m2, g, j) = At(m, g, j)
    BY <1>7 DEF Grown
  <1>11. Mapped(m, fr, lvl, v, w, m2, fr2, TRUE, lvl2)
    BY <1>2, <1>7, <1>8, <1>9, <1>10, Zenon DEF Mapped, Grown
  <1> QED BY <1>11, Zenon DEF m2, i

(* map_page: the page is mapped or it is refused, and whatever tables were  *)
(* made on the way, no other page leads elsewhere.                          *)
LEMMA MapPage ==
  ASSUME NEW m, NEW fr, NEW lvl, Tree(m, lvl), Spare(fr, lvl), Identity(m),
         NEW v \in Virtual, NEW f, NEW fl, Entry(f, fl \cup {"P"}) \in Words
  PROVE  Maps(map_page(m, fr, v, f, fl), m, fr, lvl, v, Entry(f, fl \cup {"P"}))
  <1> DEFINE w == Entry(f, fl \cup {"P"})
             s == MapDown(m, fr, v)
             r == map_page(m, fr, v, f, fl)
  <1>1. v \in Nat
    BY Zenon DEF Virtual
  <1>2. r = IF s.ok THEN [s EXCEPT !.mem = Set(s.mem, s.at, pt_index(v), w)] ELSE s
    BY Zenon DEF map_page, MapDown
  <1>3. Reaches(s, m, fr, lvl, v, 1)
    BY <1>1, MapDownReaches, Zenon
  <1> HIDE DEF s, r, w
  <1>4. PICK m1, fr2, at, ok : \E lvl2 \in [Frames -> 0..4] :
               /\ IsStage(s, m1, fr2, at, ok)
               /\ Grown(m, fr, lvl, m1, fr2, lvl2)
               /\ ok => On(m1, lvl2, v, 1, at)
    BY <1>3, Zenon DEF Reaches
  <1>5. PICK lvl2 \in [Frames -> 0..4] :
               /\ IsStage(s, m1, fr2, at, ok)
               /\ Grown(m, fr, lvl, m1, fr2, lvl2)
               /\ ok => On(m1, lvl2, v, 1, at)
    BY <1>4, Zenon
  <1>6. ok \in BOOLEAN /\ s.mem = m1 /\ s.free = fr2 /\ s.at = at /\ s.ok = ok
    BY <1>5, Zenon DEF IsStage, Stage
  <1>7. CASE ok
    <2> DEFINE m2 == Set(m1, at, pt_index(v), w)
    <2>1. Mapped(m, fr, lvl, v, w, m2, fr2, TRUE, lvl2)
      <3>1. w \in Words
        BY Zenon DEF w
      <3> QED BY <1>5, <1>7, <3>1, LastSet, Zenon
    <2>2. m2 \in Mem
      BY <2>1, Zenon DEF Mapped, Tree
    <2>3. r = [s EXCEPT !.mem = m2]
      BY <1>2, <1>6, <1>7, Zenon
    <2> HIDE DEF m2
    <2>4. IsStage([s EXCEPT !.mem = m2], m2, fr2, at, ok)
      <3>1. fr2 \in Seq(Managed) /\ at \in Frames
        BY <1>5, Zenon DEF IsStage, Stage
      <3> QED BY <1>5, <2>2, <3>1, StageUpdates, Zenon
    <2>5. IsResult(r, m2, fr2, TRUE)
      BY <1>6, <1>7, <2>3, <2>4, Zenon DEF IsStage, IsResult
    <2>6. Maps(r, m, fr, lvl, v, w)
      BY <2>1, <2>5, Zenon DEF Maps
    <2> QED BY <2>6, Zenon DEF r, w
  <1>8. CASE ~ok
    <2>1. Mapped(m, fr, lvl, v, w, m1, fr2, ok, lvl2)
      <3>1. \A u \in Virtual : u \in Nat
        BY Zenon DEF Virtual
      <3> QED BY <1>5, <1>8, <3>1, Zenon DEF Mapped, Grown
    <2>2. IsResult(r, m1, fr2, ok)
      BY <1>2, <1>6, <1>8, Zenon DEF IsResult
    <2>3. Maps(r, m, fr, lvl, v, w)
      BY <2>1, <2>2, Zenon DEF Maps
    <2> QED BY <2>3 DEF r, w
  <1> QED BY <1>6, <1>7, <1>8, Zenon

-----------------------------------------------------------------------------
(* Frames taken from the allocator, and pages mapped to them.               *)

(* A frame taken for something else than a table, and not yet used.         *)
Taken(f, m, fr, k, lvl) ==
  /\ InUse(f, fr, lvl) /\ f # k
  /\ \A u \in Virtual : Moved(m, u) => To(Leaf(m, u)) # f

(* The first frame of the list is such a one once it is taken.              *)
LEMMA TakeFrame ==
  ASSUME NEW m, NEW fr, NEW k, NEW lvl, Spare(fr, lvl), Apart(m, fr, k, lvl), fr # << >>
  PROVE  /\ Spare(Tail(fr), lvl)
         /\ Apart(m, Tail(fr), k, lvl)
         /\ Taken(Head(fr), m, Tail(fr), k, lvl)
         /\ Head(fr) \in FreeSet(fr) /\ FreeSet(Tail(fr)) = FreeSet(fr) \ {Head(fr)}
  <1> DEFINE f == Head(fr)
  <1>1. /\ f \in Managed /\ f \in FreeSet(fr) /\ Tail(fr) \in Seq(Managed)
        /\ \A j, l \in DOMAIN Tail(fr) : Tail(fr)[j] = Tail(fr)[l] => j = l
        /\ FreeSet(Tail(fr)) = FreeSet(fr) \ {f}
    BY TakeHead, Zenon DEF Spare
  <1> HIDE DEF f
  <1>2. /\ \A g \in FreeSet(fr) : g \in Managed /\ g \in Frames /\ lvl[g] = 0
        /\ \A g \in Frames : lvl[g] > 0 => g \in Managed
    BY SpareFacts, Zenon
  <1>3. Spare(Tail(fr), lvl)
    <2>1. \A j \in DOMAIN Tail(fr) : Tail(fr)[j] \in FreeSet(Tail(fr))
      BY Zenon DEF FreeSet
    <2>2. \A j \in DOMAIN Tail(fr) : lvl[Tail(fr)[j]] = 0
      BY <1>1, <1>2, <2>1, Zenon
    <2> QED BY <1>1, <1>2, <2>2, Zenon DEF Spare
  <1>4. \A g : InUse(g, fr, lvl) => InUse(g, Tail(fr), lvl) /\ g # f
    BY <1>1, Zenon DEF InUse
  <1>5. InUse(f, Tail(fr), lvl) /\ f # 0
    BY <1>1, <1>2, ManagedFrames, Zenon DEF InUse
  <1>6. Apart(m, Tail(fr), k, lvl)
    BY <1>4, Zenon DEF Apart
  <1>7. Taken(f, m, Tail(fr), k, lvl)
    BY <1>4, <1>5, Zenon DEF Apart, Taken
  <1> QED BY <1>1, <1>3, <1>6, <1>7, Zenon DEF f

(* Frames in use stay so while the tree grows.                              *)
LEMMA InUseKept ==
  ASSUME NEW m, NEW fr, NEW lvl, NEW v, NEW w, NEW m2, NEW fr2, NEW ok, NEW lvl2,
         Mapped(m, fr, lvl, v, w, m2, fr2, ok, lvl2),
         NEW f, InUse(f, fr, lvl)
  PROVE  InUse(f, fr2, lvl2) /\ lvl2[f] = 0 /\ f \in Frames
  <1>1. f \in Managed /\ lvl[f] = 0 /\ f \notin FreeSet(fr) /\ f \in Frames
    BY ManagedFrames, Zenon DEF InUse
  <1>2. lvl2[f] = lvl[f] /\ f \notin FreeSet(fr2)
    BY <1>1, Zenon DEF Mapped
  <1> QED BY <1>1, <1>2, Zenon DEF InUse

(* A page that is no table's address is mapped to a frame just taken, or to *)
(* the frame of its own number.                                             *)
LEMMA MapKeeps ==
  ASSUME NEW m, NEW fr, NEW k, NEW lvl, Identity(m), Apart(m, fr, k, lvl),
         NEW v \in Virtual, v \notin Managed, NEW w, NEW m2, NEW fr2, NEW ok \in BOOLEAN, NEW lvl2,
         Mapped(m, fr, lvl, v, w, m2, fr2, ok, lvl2),
         To(w) = v \/ Taken(To(w), m, fr, k, lvl)
  PROVE  Identity(m2) /\ Apart(m2, fr2, k, lvl2)
  <1>1. /\ ok => Leaf(m2, v) = w
        /\ \A u \in Virtual : ~ok \/ u # v => Leaf(m2, u) = Leaf(m, u)
    BY Zenon DEF Mapped
  <1>2. \A f : InUse(f, fr, lvl) => InUse(f, fr2, lvl2)
    BY InUseKept, Zenon
  <1>3. Identity(m2)
    <2>1. \A f \in Managed : f \in Virtual /\ f # v
      BY ManagedFrames, FrameDigits, Zenon
    <2> QED BY <1>1, <2>1, Zenon DEF Identity
  <1>4. \A u \in Virtual : ~ok \/ u # v => (Moved(m2, u) <=> Moved(m, u)) /\ To(Leaf(m2, u)) = To(Leaf(m, u))
    BY <1>1, Zenon DEF Moved
  <1>5. ok /\ Moved(m2, v) => To(Leaf(m2, v)) = To(w) /\ Taken(To(w), m, fr, k, lvl)
    BY <1>1, Zenon DEF Moved
  <1>6. ASSUME NEW u \in Virtual, Moved(m2, u)
        PROVE  InUse(To(Leaf(m2, u)), fr2, lvl2) /\ To(Leaf(m2, u)) # k
    <2>1. CASE ok /\ u = v
      BY <1>2, <1>5, <1>6, <2>1, Zenon DEF Taken
    <2>2. CASE ~ok \/ u # v
      BY <1>2, <1>4, <1>6, <2>2, Zenon DEF Apart
    <2> QED BY <2>1, <2>2, Zenon
  <1>7. ASSUME NEW u \in Virtual, NEW x \in Virtual, Moved(m2, u), Moved(m2, x),
               To(Leaf(m2, u)) = To(Leaf(m2, x))
        PROVE  u = x
    <2>1. CASE ok /\ u = v /\ x # v
      BY <1>4, <1>5, <1>7, <2>1, Zenon DEF Taken
    <2>2. CASE ok /\ x = v /\ u # v
      BY <1>4, <1>5, <1>7, <2>2, Zenon DEF Taken
    <2>3. CASE (~ok \/ u # v) /\ (~ok \/ x # v)
      BY <1>4, <1>7, <2>3, Zenon DEF Apart
    <2> QED BY <2>1, <2>2, <2>3, Zenon
  <1>8. k = 0 \/ InUse(k, fr2, lvl2)
    BY <1>2, Zenon DEF Apart
  <1> QED BY <1>3, <1>6, <1>7, <1>8, Zenon DEF Apart

(* Tables stay tables.                                                      *)
LEMMA TablesStay ==
  ASSUME NEW m, NEW fr, NEW lvl, Spare(fr, lvl), NEW v, NEW w,
         NEW m2, NEW fr2, NEW ok, NEW lvl2, Mapped(m, fr, lvl, v, w, m2, fr2, ok, lvl2),
         NEW f \in Frames, lvl[f] > 0
  PROVE  lvl2[f] > 0
  <1>1. f \notin FreeSet(fr)
    BY SpareFacts, Zenon
  <1> QED BY <1>1, Zenon DEF Mapped

-----------------------------------------------------------------------------
(* The kernel's walk.                                                       *)

(* It meets what the processor's does.                                      *)
LEMMA KernelWalk ==
  ASSUME NEW m, NEW fr, NEW lvl, Tree(m, lvl), Spare(fr, lvl), Identity(m), NEW v \in Nat
  PROVE  /\ PdptEntry(m, v) = E3(m, v) /\ PdEntry(m, v) = E2(m, v)
         /\ ~Huge(E3(m, v)) \/ ~Present(E3(m, v))
         /\ ~(Present(E2(m, v)) /\ Huge(E2(m, v))) => Down(m, E2(m, v), pt_index(v)) = Leaf(m, v)
         /\ Present(E2(m, v)) /\ Huge(E2(m, v)) => Leaf(m, v) = Piece(E2(m, v), pt_index(v))
  <1>1. WalkTop(m, lvl, v) /\ WalkMid(m, lvl, v) /\ WalkLow(m, lvl, v)
    BY WalkInTree, Zenon DEF Walk
  <1>2. /\ pml4_index(v) \in Idx /\ pdpt_index(v) \in Idx
        /\ pd_index(v) \in Idx /\ pt_index(v) \in Idx
    BY Digits, Zenon
  <1>3. \A f \in Frames, i \in Idx : lvl[f] > 0 => Read(m, f, i) = At(m, f, i)
    BY SpareFacts, ReadTable, Zenon DEF Tree
  <1>4. Pml4 \in Frames /\ lvl[Pml4] = 4
    BY BootTables, Zenon DEF Tree, Root
  <1>5. Read(m, Pml4, pml4_index(v)) = E4(m, v)
    BY <1>1, <1>2, <1>3, <1>4 DEF WalkTop
  <1>6. PdptEntry(m, v) = E3(m, v)
    <2>1. CASE Present(E4(m, v))
      <3>1. To(E4(m, v)) \in Frames /\ lvl[To(E4(m, v))] > 0 /\ E3(m, v) = At(m, To(E4(m, v)), pdpt_index(v))
        BY <1>1, <2>1 DEF WalkTop
      <3>2. Read(m, To(E4(m, v)), pdpt_index(v)) = E3(m, v)
        BY <1>2, <1>3, <3>1, Zenon
      <3> QED BY <1>5, <2>1, <3>2, Zenon DEF PdptEntry, Down, To
    <2>2. CASE ~Present(E4(m, v))
      BY <1>1, <1>5, <2>2, Zenon DEF PdptEntry, Down, WalkTop
    <2> QED BY <2>1, <2>2, Zenon
  <1>7. PdEntry(m, v) = E2(m, v)
    <2>1. CASE Present(E3(m, v))
      <3>1. To(E3(m, v)) \in Frames /\ lvl[To(E3(m, v))] > 0 /\ E2(m, v) = At(m, To(E3(m, v)), pd_index(v))
        BY <1>1, <2>1 DEF WalkMid
      <3>2. Read(m, To(E3(m, v)), pd_index(v)) = E2(m, v)
        BY <1>2, <1>3, <3>1, Zenon
      <3> QED BY <1>6, <2>1, <3>2, Zenon DEF PdEntry, Down, To
    <2>2. CASE ~Present(E3(m, v))
      BY <1>1, <1>6, <2>2, Zenon DEF PdEntry, Down, WalkMid
    <2> QED BY <2>1, <2>2
  <1>8. CASE Link(E2(m, v))
    <2>1. To(E2(m, v)) \in Frames /\ lvl[To(E2(m, v))] > 0 /\ Leaf(m, v) = At(m, To(E2(m, v)), pt_index(v))
      BY <1>1, <1>8 DEF WalkLow
    <2>2. Read(m, To(E2(m, v)), pt_index(v)) = Leaf(m, v)
      BY <1>2, <1>3, <2>1, Zenon
    <2>3. Down(m, E2(m, v), pt_index(v)) = Leaf(m, v)
      BY <1>8, <2>2, Zenon DEF Down, To, Link
    <2> QED BY <1>1, <1>6, <1>7, <1>8, <2>3, Zenon DEF WalkMid, Link
  <1>9. CASE ~Link(E2(m, v))
    <2>1. ~Present(E2(m, v)) => Down(m, E2(m, v), pt_index(v)) = Leaf(m, v)
      BY <1>1, Zenon DEF Down, WalkLow
    <2> QED BY <1>1, <1>6, <1>7, <1>9, <2>1, Zenon DEF WalkMid, WalkLow, Link
  <1> QED BY <1>8, <1>9, Zenon

(* translate and translate_flags tell where the processor goes.             *)
LEMMA TranslateExact ==
  ASSUME NEW m, NEW fr, NEW lvl, Tree(m, lvl), Spare(fr, lvl), Identity(m), NEW v \in Nat
  PROVE  /\ translate(m, v) = IF Present(Leaf(m, v)) THEN {To(Leaf(m, v))} ELSE {}
         /\ {"P", "W"} \subseteq translate_flags(m, v) <=> {"P", "W"} \subseteq Leaf(m, v).flags
  <1> DEFINE b == E3(m, v)
             c == E2(m, v)
             d == Down(m, c, pt_index(v))
             l == Leaf(m, v)
  <1>1. /\ PdptEntry(m, v) = b /\ PdEntry(m, v) = c
        /\ ~Huge(b) \/ ~Present(b)
        /\ ~(Present(c) /\ Huge(c)) => d = l
        /\ Present(c) /\ Huge(c) => l = Piece(c, pt_index(v))
    BY KernelWalk, Zenon
  <1> HIDE DEF b, c, d, l
  <1>2. translate(m, v) = IF Present(c) /\ Huge(c) THEN {To(c) + pt_index(v)}
                          ELSE IF Present(d) THEN {To(d)} ELSE {}
    BY <1>1, Zenon DEF translate, Huge, To, d
  <1>3. translate_flags(m, v) = IF Present(c) /\ Huge(c) THEN c.flags
                                ELSE IF Present(d) THEN d.flags ELSE {}
    BY <1>1, Zenon DEF translate_flags, Huge, d
  <1>4. CASE Present(c) /\ Huge(c)
    <2>1. To(l) = To(c) + pt_index(v) /\ l.flags = c.flags \ {"H"} /\ "P" \in c.flags
      BY <1>1, <1>4 DEF Piece, Entry, To, Present
    <2>2. Present(l)
      BY <2>1, Zenon DEF Present
    <2> QED BY <1>2, <1>3, <1>4, <2>1, <2>2, Zenon DEF l
  <1>5. CASE ~(Present(c) /\ Huge(c))
    <2>1. d = l
      BY <1>1, <1>5, Zenon
    <2> QED BY <1>2, <1>3, <1>5, <2>1, Zenon DEF l, Present
  <1> QED BY <1>4, <1>5, Zenon

-----------------------------------------------------------------------------
(* The boot code's tables, and those of any tree.                           *)

BootLevels ==
  [f \in Frames |-> IF f = Pml4 THEN 4 ELSE IF f = Pdpt THEN 3 ELSE IF f = Pd THEN 2 ELSE 0]

BootPage(i) == Entry(i * Fan, {"P", "W", "U", "H"})

(* What they hold.                                                          *)
LEMMA BootAt ==
  ASSUME NEW f \in Frames, NEW i \in Idx
  PROVE  /\ f = Pml4 => At(BootMemory, f, i) = IF i = 0 THEN Linked(Pdpt) ELSE Unused
         /\ f = Pdpt => At(BootMemory, f, i) = IF i = 0 THEN Linked(Pd) ELSE Unused
         /\ f = Pd => At(BootMemory, f, i) = BootPage(i)
         /\ f \notin {Pml4, Pdpt, Pd} => At(BootMemory, f, i) = Stale
  <1>1. Pml4 # Pdpt /\ Pml4 # Pd /\ Pdpt # Pd
    BY PagingAssumption, Zenon
  <1> QED BY <1>1, Zenon DEF BootMemory, At, BootPage

(* The entries of the boot code's page directory.                           *)
LEMMA BootPages ==
  ASSUME NEW i \in Idx
  PROVE  /\ BootPage(i) \in Words /\ Present(BootPage(i)) /\ Huge(BootPage(i))
         /\ To(BootPage(i)) = i * Fan /\ ~Link(BootPage(i))
         /\ Stale \in Words /\ ~Relative(Stale)
  <1>1. i * Fan \in Nat
    BY BootTables
  <1>2. /\ BootPage(i) \in Words /\ Present(BootPage(i)) /\ Huge(BootPage(i))
        /\ To(BootPage(i)) = i * Fan
    BY <1>1, Zenon DEF BootPage, Entry, Words, PageFlags, Present, Huge, To
  <1>3. Stale \in Words /\ ~Relative(Stale)
    BY Zenon DEF Stale, Entry, Words, PageFlags, Relative
  <1> QED BY <1>2, <1>3, Zenon DEF Link

(* They are a tree.                                                         *)
LEMMA BootTree == Tree(BootMemory, BootLevels)
  <1> DEFINE m == BootMemory
             lvl == BootLevels
  <1>1. /\ Pml4 \in Frames /\ Pdpt \in Frames /\ Pd \in Frames /\ 0 \in Idx
        /\ Pdpt \in Nat /\ Pd \in Nat
    BY BootTables, Zenon
  <1>2. Pml4 # Pdpt /\ Pml4 # Pd /\ Pdpt # Pd
    BY PagingAssumption, Zenon
  <1>3. /\ lvl \in [Frames -> 0..4] /\ lvl[Pml4] = 4 /\ lvl[Pdpt] = 3 /\ lvl[Pd] = 2
        /\ \A f \in Frames : f \notin {Pml4, Pdpt, Pd} => lvl[f] = 0
    BY <1>1, <1>2 DEF BootLevels
  <1>4. \A f \in Frames, i \in Idx :
          /\ f = Pml4 => At(m, f, i) = IF i = 0 THEN Linked(Pdpt) ELSE Unused
          /\ f = Pdpt => At(m, f, i) = IF i = 0 THEN Linked(Pd) ELSE Unused
          /\ f = Pd => At(m, f, i) = BootPage(i)
          /\ f \notin {Pml4, Pdpt, Pd} => At(m, f, i) = Stale
    BY BootAt, Zenon
  <1>5. \A f \in Frames, i \in Idx : At(m, f, i) \in Words
    <2> SUFFICES ASSUME NEW f \in Frames, NEW i \in Idx PROVE At(m, f, i) \in Words
      BY Zenon
    <2>1. /\ Linked(Pdpt) \in Words /\ Linked(Pd) \in Words /\ Unused \in Words
          /\ BootPage(i) \in Words /\ Stale \in Words
      BY <1>1, WordFacts, BootPages, Zenon
    <2> HIDE DEF m
    <2> QED BY <1>4, <2>1, Zenon
  <1>6. m \in Mem
    <2> DEFINE C(f, i) == CASE f = Pml4 -> IF i = 0 THEN Linked(Pdpt) ELSE Unused
                            [] f = Pdpt -> IF i = 0 THEN Linked(Pd) ELSE Unused
                            [] f = Pd -> Entry(i * Fan, {"P", "W", "U", "H"})
                            [] OTHER -> Stale
    <2>1. m = [f \in Frames |-> [i \in Idx |-> C(f, i)]]
      BY Zenon DEF BootMemory
    <2> HIDE DEF m, C
    <2>2. \A f \in Frames, i \in Idx : At(m, f, i) = C(f, i)
      BY <2>1, Zenon DEF At
    <2> QED BY <1>5, <2>1, <2>2, Zenon DEF Mem
  <1> HIDE DEF m, lvl
  <1>7. /\ Link(Linked(Pdpt)) /\ To(Linked(Pdpt)) = Pdpt /\ ~Huge(Linked(Pdpt))
        /\ Link(Linked(Pd)) /\ To(Linked(Pd)) = Pd /\ ~Huge(Linked(Pd))
        /\ ~Link(Unused) /\ ~Huge(Unused)
        /\ \A i \in Idx : ~Link(BootPage(i)) /\ To(BootPage(i)) = i * Fan
    BY <1>1, WordFacts, BootPages, Zenon
  <1>8. \A f \in Frames, i \in Idx : lvl[f] >= 2 /\ Link(At(m, f, i)) =>
          i = 0 /\ ((f = Pml4 /\ To(At(m, f, i)) = Pdpt) \/ (f = Pdpt /\ To(At(m, f, i)) = Pd))
    <2> SUFFICES ASSUME NEW f \in Frames, NEW i \in Idx, lvl[f] >= 2, Link(At(m, f, i))
                 PROVE  i = 0 /\ ((f = Pml4 /\ To(At(m, f, i)) = Pdpt)
                                    \/ (f = Pdpt /\ To(At(m, f, i)) = Pd))
      BY Zenon
    <2>1. CASE f = Pml4
      BY <1>4, <1>7, <2>1, Zenon
    <2>2. CASE f = Pdpt
      BY <1>4, <1>7, <2>2, Zenon
    <2>3. CASE f = Pd
      BY <1>4, <1>7, <2>3, Zenon
    <2>4. CASE f \notin {Pml4, Pdpt, Pd}
      BY <1>3, <2>4
    <2> QED BY <2>1, <2>2, <2>3, <2>4, Zenon
  <1>9. At(m, Pml4, 0) = Linked(Pdpt) /\ At(m, Pdpt, 0) = Linked(Pd)
    BY <1>1, <1>4, Zenon
  <1>10. Root(m, lvl)
    BY <1>3, <1>9 DEF Root
  <1>11. Descends(m, lvl)
    BY <1>1, <1>3, <1>8 DEF Descends
  <1>12. HugeAtHome(m, lvl)
    <2>1. ASSUME NEW f \in Frames, NEW i \in Idx, lvl[f] >= 3 PROVE ~Huge(At(m, f, i))
      <3>1. f = Pml4 \/ f = Pdpt
        BY <1>3, <2>1
      <3> QED BY <1>4, <1>7, <3>1, Zenon
    <2>2. ASSUME NEW f \in Frames, NEW i \in Idx, lvl[f] = 2
          PROVE  f = Pd /\ To(At(m, f, i)) = i * Fan
      <3>1. f = Pd
        BY <1>3, <2>2
      <3> QED BY <1>4, <1>7, <3>1, Zenon
    <2> QED BY <2>1, <2>2, Zenon DEF HugeAtHome
  <1>13. OneParent(m, lvl)
    BY <1>2, <1>8 DEF OneParent
  <1>14. HasParent(m, lvl)
    <2> SUFFICES ASSUME NEW g \in Frames, lvl[g] \in 1..3
                 PROVE  \E f \in Frames, i \in Idx :
                          lvl[f] = lvl[g] + 1 /\ Link(At(m, f, i)) /\ To(At(m, f, i)) = g
      BY Zenon DEF HasParent
    <2>1. g = Pdpt \/ g = Pd
      BY <1>3
    <2>2. CASE g = Pdpt
      BY <1>1, <1>3, <1>7, <1>9, <2>2
    <2>3. CASE g = Pd
      BY <1>1, <1>3, <1>7, <1>9, <2>3
    <2> QED BY <2>1, <2>2, <2>3, Zenon
  <1> QED BY <1>3, <1>6, <1>10, <1>11, <1>12, <1>13, <1>14, Zenon DEF Tree, m, lvl

(* The frames that the processor uses as tables are those with a level.     *)
LEMMA TablesAre ==
  ASSUME NEW m, NEW lvl, Tree(m, lvl), NEW f
  PROVE  f \in Tables(m) <=> f \in Frames /\ lvl[f] > 0
  <1> DEFINE Links(g) == {i \in Idx : Present(m[g][i]) /\ "H" \notin m[g][i].flags}
             Below(S) == Frames \cap UNION {{m[g][i].frame : i \in Links(g)} : g \in S}
             l3 == Below({Pml4})
             l2 == Below(l3)
             l1 == Below(l2)
  <1>1. Tables(m) = {Pml4} \cup l3 \cup l2 \cup l1
    BY Zenon DEF Tables
  <1>2. \A S : \A x : x \in Below(S) <=>
               x \in Frames /\ \E g \in S, i \in Idx : Link(At(m, g, i)) /\ To(At(m, g, i)) = x
    <2> SUFFICES ASSUME NEW S, NEW x
                 PROVE  x \in Below(S) <=>
                          x \in Frames /\ \E g \in S, i \in Idx : Link(At(m, g, i)) /\ To(At(m, g, i)) = x
      BY Zenon
    <2>1. \A g, i : i \in Links(g) <=> i \in Idx /\ Link(At(m, g, i))
      BY Zenon DEF Link, Huge, At
    <2> HIDE DEF Links
    <2>2. x \in Below(S) <=> x \in Frames /\ \E g \in S : \E i \in Links(g) : m[g][i].frame = x
      <3> DEFINE R(g) == {m[g][i].frame : i \in Links(g)}
      <3>1. \A g : x \in R(g) <=> \E i \in Links(g) : m[g][i].frame = x
        BY Zenon
      <3>2. x \in Below(S) <=> x \in Frames /\ x \in UNION {R(g) : g \in S}
        BY Zenon
      <3> HIDE DEF R, Below
      <3>3. x \in UNION {R(g) : g \in S} <=> \E g \in S : x \in R(g)
        BY Zenon
      <3> QED BY ONLY <3>1, <3>2, <3>3, Zenon
    <2> HIDE DEF Below
    <2> QED BY <2>1, <2>2, Zenon DEF To, At
  <1> HIDE DEF Below
  <1>3. /\ Pml4 \in Frames /\ lvl[Pml4] = 4 /\ lvl \in [Frames -> 0..4]
        /\ \A g \in Frames : lvl[g] = 4 => g = Pml4
    BY BootTables, Zenon DEF Tree, Root
  <1>4. ASSUME NEW S, NEW k \in 2..4, \A g : g \in S <=> g \in Frames /\ lvl[g] = k
        PROVE  \A x : x \in Below(S) <=> x \in Frames /\ lvl[x] = k - 1
    <2>1. ASSUME NEW x \in Below(S) PROVE x \in Frames /\ lvl[x] = k - 1
      <3>1. PICK g \in S, i \in Idx : Link(At(m, g, i)) /\ To(At(m, g, i)) = x
        BY <1>2, <2>1, Zenon
      <3>2. g \in Frames /\ lvl[g] = k
        BY <1>4, Zenon
      <3> QED BY <3>1, <3>2 DEF Tree, Descends
    <2>2. ASSUME NEW x \in Frames, lvl[x] = k - 1 PROVE x \in Below(S)
      <3>1. lvl[x] \in 1..3
        BY <2>2
      <3>2. PICK g \in Frames, i \in Idx : lvl[g] = lvl[x] + 1 /\ Link(At(m, g, i)) /\ To(At(m, g, i)) = x
        BY <3>1, Zenon DEF Tree, HasParent
      <3>3. g \in S
        BY <1>4, <2>2, <3>2
      <3> QED BY <1>2, <3>2, <3>3, Zenon
    <2> QED BY <2>1, <2>2, Zenon
  <1>5. \A x : x \in l3 <=> x \in Frames /\ lvl[x] = 3
    <2>1. \A g : g \in {Pml4} <=> g \in Frames /\ lvl[g] = 4
      BY <1>3, Zenon
    <2>2. \A x : x \in Below({Pml4}) <=> x \in Frames /\ lvl[x] = 4 - 1
      BY <1>4, <2>1
    <2> QED BY <2>2
  <1> HIDE DEF l3
  <1>6. \A x : x \in l2 <=> x \in Frames /\ lvl[x] = 2
    <2>1. \A x : x \in Below(l3) <=> x \in Frames /\ lvl[x] = 3 - 1
      BY <1>4, <1>5
    <2> QED BY <2>1
  <1> HIDE DEF l2
  <1>7. \A x : x \in l1 <=> x \in Frames /\ lvl[x] = 1
    <2>1. \A x : x \in Below(l2) <=> x \in Frames /\ lvl[x] = 2 - 1
      BY <1>4, <1>6
    <2> QED BY <2>1
  <1> HIDE DEF l1
  <1>8. f \in Frames => lvl[f] \in 0..4
    BY <1>3, Zenon
  <1> QED BY <1>1, <1>3, <1>5, <1>6, <1>7, <1>8
=============================================================================
