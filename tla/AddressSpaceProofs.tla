------------------------- MODULE AddressSpaceProofs -------------------------
(***************************************************************************)
(* Proofs about AddressSpace, on those about Paging.  The invariant AInv   *)
(* says that the tables are a tree, that frames in use are apart and what  *)
(* a load has mapped so far; CInv says what it has written there.          *)
(***************************************************************************)
EXTENDS AddressSpace, PagingProofs

(* Time for the solver on steps that a slow machine would not finish in its *)
(* usual five seconds.                                                      *)
USE SMTT(30)

(* The pages that a load of p has mapped when it is at page pg of segment   *)
(* sg.                                                                      *)
Done(p, sg, pg) ==
  (UNION {SegPages(p, j) : j \in {l \in DOMAIN p.segs : l < sg}})
    \cup (IF sg \in DOMAIN p.segs THEN FirstPage(p, sg)..(FirstPage(p, sg) + pg - 1) ELSE {})

FileWords(p) == UNION {{p.segs[k].file[r] : r \in DOMAIN p.segs[k].file} : k \in DOMAIN p.segs}

(* The allocator's frames hold no relocation entry.                         *)
Clean(m, fr) == \A f \in FreeSet(fr), i \in Idx : ~Relative(At(m, f, i))

(* A page of program p: a relocation entry in it is from p's file.          *)
FromFile(m, v, p) ==
  /\ v \in Virtual /\ Moved(m, v)
  /\ \A i \in Idx : Relative(At(m, To(Leaf(m, v)), i)) => At(m, To(Leaf(m, v)), i) \in FileWords(p)

Loading ==
  /\ prog \in Programs /\ seg \in Nat \ {0} /\ page \in Nat
  /\ Clean(mem, free)
  /\ phase = "load" => \A v \in Done(prog, seg, page) : FromFile(mem, v, prog)

(* The inductive invariant.                                                 *)
AInv == Loading /\ \E lvl \in [Frames -> 0..4] : Sound(mem, free, kstack, lvl)

-----------------------------------------------------------------------------
(* What a step does to the tables and to the frames in use.                 *)

(* Someone can still reach frame f.                                         *)
Holds(f, m, fr, k, lvl) ==
  \/ f \in FreeSet(fr)
  \/ f \in Frames /\ lvl[f] > 0
  \/ f = k
  \/ \E u \in Pages : Moved(m, u) /\ To(Leaf(m, u)) = f

(* One page at most leads elsewhere.                                        *)
OneLeaf(m, m2) == \E x : \A u \in Virtual : u # x => Leaf(m2, u) = Leaf(m, u)

(* One frame at most is lost, and it is no table.                           *)
OneLost(m, fr, k, lvl, m2, fr2, k2, lvl2) ==
  /\ \E x : \A f : Holds(f, m, fr, k, lvl) /\ f # x => Holds(f, m2, fr2, k2, lvl2)
  /\ \A f \in Frames : lvl[f] > 0 => lvl2[f] > 0

(* A step keeps the invariant, changes one page and loses one frame at most.*)
Steps(m, fr, k, lvl, m2, fr2, k2) ==
  \E lvl2 \in [Frames -> 0..4] :
    Sound(m2, fr2, k2, lvl2) /\ OneLeaf(m, m2) /\ OneLost(m, fr, k, lvl, m2, fr2, k2, lvl2)

(* The pages of programs, stack and device are pages of the tables.         *)
LEMMA PagesVirtual ==
  /\ \A u \in Pages : u \in Virtual
  /\ \A u \in UserPages \cup {Device} : u \in Virtual /\ u \notin Managed
  /\ \A u \in Virtual : u \in Nat
  BY LayoutAssumption, Zenon DEF Virtual

(* A mapping loses the frame that the page led to, and no other.            *)
LEMMA MapLost ==
  ASSUME NEW m, NEW fr, NEW k, NEW lvl, Spare(fr, lvl), NEW v, NEW w,
         NEW m2, NEW fr2, NEW ok \in BOOLEAN, NEW lvl2,
         Mapped(m, fr, lvl, v, w, m2, fr2, ok, lvl2),
         NEW f, Holds(f, m, fr, k, lvl)
  PROVE  \/ Holds(f, m2, fr2, k, lvl2)
         \/ ok /\ v \in Pages /\ Moved(m, v) /\ f = To(Leaf(m, v))
  <1>1. CASE f \in FreeSet(fr)
    BY <1>1, Zenon DEF Mapped, Holds
  <1>2. CASE f \in Frames /\ lvl[f] > 0
    <2>1. f \notin FreeSet(fr)
      BY <1>2, SpareFacts, Zenon
    <2> QED BY <1>2, <2>1, Zenon DEF Mapped, Holds
  <1>3. CASE f = k
    BY <1>3, Zenon DEF Holds
  <1>4. CASE \E u \in Pages : Moved(m, u) /\ To(Leaf(m, u)) = f
    <2>1. PICK u \in Pages : Moved(m, u) /\ To(Leaf(m, u)) = f
      BY <1>4, Zenon
    <2>2. CASE ok /\ u = v
      BY <2>1, <2>2, Zenon
    <2>3. CASE ~ok \/ u # v
      <3>1. Leaf(m2, u) = Leaf(m, u)
        BY <2>3, PagesVirtual, Zenon DEF Mapped
      <3>2. Moved(m2, u) /\ To(Leaf(m2, u)) = f
        BY <2>1, <3>1, Zenon DEF Moved
      <3> QED BY <3>2, Zenon DEF Holds
    <2> QED BY <2>2, <2>3, Zenon
  <1> QED BY <1>1, <1>2, <1>3, <1>4, Zenon DEF Holds

(* A fresh frame is mapped.                                                 *)
LEMMA FreshSteps ==
  ASSUME NEW m, NEW fr, NEW k, NEW lvl, Sound(m, fr, k, lvl), fr # << >>,
         NEW v \in Virtual, v \notin Managed, NEW w, To(w) = Head(fr), Present(w),
         NEW m2, NEW fr2, NEW ok \in BOOLEAN, NEW lvl2 \in [Frames -> 0..4],
         Mapped(m, Tail(fr), lvl, v, w, m2, fr2, ok, lvl2)
  PROVE  Sound(m2, fr2, k, lvl2) /\ OneLeaf(m, m2) /\ OneLost(m, fr, k, lvl, m2, fr2, k, lvl2)
  <1> DEFINE f == Head(fr)
  <1>1. /\ Spare(Tail(fr), lvl) /\ Apart(m, Tail(fr), k, lvl) /\ Taken(f, m, Tail(fr), k, lvl)
        /\ f \in FreeSet(fr) /\ FreeSet(Tail(fr)) = FreeSet(fr) \ {f}
    BY TakeFrame, Zenon DEF Sound
  <1> HIDE DEF f
  <1>2. Identity(m2) /\ Apart(m2, fr2, k, lvl2)
    <2>1. Taken(To(w), m, Tail(fr), k, lvl)
      BY <1>1, Zenon DEF f
    <2> QED BY <1>1, <2>1, MapKeeps DEF Sound
  <1>3. Sound(m2, fr2, k, lvl2)
    BY <1>2, Zenon DEF Sound, Mapped
  <1>4. OneLeaf(m, m2)
    BY Zenon DEF OneLeaf, Mapped
  <1>5. ok => Moved(m2, v) /\ To(Leaf(m2, v)) = f
    <2>1. f \in Managed
      BY <1>1, Zenon DEF Taken, InUse
    <2> QED BY <2>1, Zenon DEF Mapped, Moved, f
  <1>6. ASSUME NEW g, Holds(g, m, fr, k, lvl)
        PROVE  Holds(g, m, Tail(fr), k, lvl) \/ g = f
    BY <1>1, <1>6, Zenon DEF Holds
  <1>7. ASSUME NEW g, Holds(g, m, fr, k, lvl), g # (IF ok /\ v \in Pages THEN To(Leaf(m, v)) ELSE f)
        PROVE  Holds(g, m2, fr2, k, lvl2)
    <2>1. CASE g = f
      BY <1>5, <1>7, <2>1, Zenon DEF Holds
    <2>2. CASE g # f
      BY <1>1, <1>6, <1>7, <2>2, MapLost
    <2> QED BY <2>1, <2>2, Zenon
  <1>8. \A g \in Frames : lvl[g] > 0 => lvl2[g] > 0
    BY <1>1, TablesStay, Zenon
  <1>9. OneLost(m, fr, k, lvl, m2, fr2, k, lvl2)
    BY <1>7, <1>8, Zenon DEF OneLost
  <1> QED BY <1>3, <1>4, <1>5, <1>9, Zenon

(* A page is mapped to the frame of its own number.                         *)
LEMMA HomeSteps ==
  ASSUME NEW m, NEW fr, NEW k, NEW lvl, Sound(m, fr, k, lvl),
         NEW v \in Virtual, v \notin Managed, ~Present(Leaf(m, v)), NEW w, To(w) = v,
         NEW m2, NEW fr2, NEW ok \in BOOLEAN, NEW lvl2 \in [Frames -> 0..4],
         Mapped(m, fr, lvl, v, w, m2, fr2, ok, lvl2)
  PROVE  Sound(m2, fr2, k, lvl2) /\ OneLeaf(m, m2) /\ OneLost(m, fr, k, lvl, m2, fr2, k, lvl2)
  <1>1. Identity(m2) /\ Apart(m2, fr2, k, lvl2)
    BY MapKeeps, Zenon DEF Sound
  <1>2. Sound(m2, fr2, k, lvl2)
    BY <1>1, Zenon DEF Sound, Mapped
  <1>3. OneLeaf(m, m2)
    BY Zenon DEF OneLeaf, Mapped
  <1>4. ASSUME NEW g, Holds(g, m, fr, k, lvl) PROVE Holds(g, m2, fr2, k, lvl2)
    BY <1>4, MapLost DEF Moved, Sound
  <1>5. \A g \in Frames : lvl[g] > 0 => lvl2[g] > 0
    BY TablesStay, Zenon DEF Sound
  <1>6. OneLost(m, fr, k, lvl, m2, fr2, k, lvl2)
    BY <1>4, <1>5, Zenon DEF OneLost
  <1> QED BY <1>2, <1>3, <1>6, Zenon

(* The kernel stack's frame is taken.                                       *)
LEMMA StackSteps ==
  ASSUME NEW m, NEW fr, NEW k, NEW lvl \in [Frames -> 0..4], Sound(m, fr, k, lvl), fr # << >>
  PROVE  Steps(m, fr, k, lvl, m, Tail(fr), Head(fr))
  <1> DEFINE f == Head(fr)
  <1>1. /\ Spare(Tail(fr), lvl) /\ Apart(m, Tail(fr), k, lvl) /\ Taken(f, m, Tail(fr), k, lvl)
        /\ f \in FreeSet(fr) /\ FreeSet(Tail(fr)) = FreeSet(fr) \ {f}
    BY TakeFrame, Zenon DEF Sound
  <1> HIDE DEF f
  <1>2. Apart(m, Tail(fr), f, lvl)
    BY <1>1, Zenon DEF Apart, Taken
  <1>3. Sound(m, Tail(fr), f, lvl)
    BY <1>1, <1>2, Zenon DEF Sound
  <1>4. ASSUME NEW g, Holds(g, m, fr, k, lvl), g # k PROVE Holds(g, m, Tail(fr), f, lvl)
    BY <1>1, <1>4, Zenon DEF Holds
  <1>5. OneLost(m, fr, k, lvl, m, Tail(fr), f, lvl)
    BY <1>4, Zenon DEF OneLost
  <1>6. OneLeaf(m, m)
    BY Zenon DEF OneLeaf
  <1> QED BY <1>3, <1>5, <1>6, Zenon DEF Steps, f

(* Only words outside the tables are written.                               *)
LEMMA DataSteps ==
  ASSUME NEW m, NEW fr, NEW k, NEW lvl \in [Frames -> 0..4], Sound(m, fr, k, lvl),
         NEW m2, SameTables(m, m2, lvl)
  PROVE  Steps(m, fr, k, lvl, m2, fr, k)
  <1>1. Tree(m2, lvl) /\ \A v \in Nat : Leaf(m2, v) = Leaf(m, v)
    BY DataKept, Zenon DEF Sound
  <1>2. \A v \in Virtual : Leaf(m2, v) = Leaf(m, v) /\ (Moved(m2, v) <=> Moved(m, v))
    BY <1>1, PagesVirtual, Zenon DEF Moved
  <1>3. Identity(m2)
    <2>1. \A f \in Managed : f \in Virtual
      BY ManagedFrames, FrameDigits, Zenon
    <2> QED BY <1>2, <2>1, Zenon DEF Sound, Identity
  <1>4. Apart(m2, fr, k, lvl)
    BY <1>2, Zenon DEF Sound, Apart
  <1>5. Sound(m2, fr, k, lvl)
    BY <1>1, <1>3, <1>4, Zenon DEF Sound
  <1>6. ASSUME NEW g, Holds(g, m, fr, k, lvl) PROVE Holds(g, m2, fr, k, lvl)
    BY <1>2, <1>6, PagesVirtual, Zenon DEF Holds
  <1>7. OneLost(m, fr, k, lvl, m2, fr, k, lvl)
    BY <1>6, Zenon DEF OneLost
  <1>8. OneLeaf(m, m2)
    BY <1>2, Zenon DEF OneLeaf
  <1> QED BY <1>5, <1>7, <1>8, Zenon DEF Steps

(* Nothing is written.                                                      *)
LEMMA SameSteps ==
  ASSUME NEW m, NEW fr, NEW k, NEW lvl \in [Frames -> 0..4], Sound(m, fr, k, lvl)
  PROVE  Steps(m, fr, k, lvl, m, fr, k)
  <1>1. SameTables(m, m, lvl)
    BY Zenon DEF SameTables, Sound, Tree
  <1> QED BY <1>1, DataSteps, Zenon

(* unmap_page on a page that leads elsewhere.                               *)
LEMMA UnmapSteps ==
  ASSUME NEW m, NEW fr, NEW k, NEW lvl \in [Frames -> 0..4], Sound(m, fr, k, lvl),
         NEW v \in Virtual, Moved(m, v)
  PROVE  /\ Steps(m, fr, k, lvl, unmap_page(m, v), fr, k)
         /\ \A f \in Frames, j \in Idx : lvl[f] = 0 => At(unmap_page(m, v), f, j) = At(m, f, j)
  <1> DEFINE t == To(E2(m, v))
             i == pt_index(v)
             m2 == unmap_page(m, v)
  <1>1. /\ Tree(m, lvl) /\ Spare(fr, lvl) /\ Identity(m) /\ Apart(m, fr, k, lvl) /\ m \in Mem
        /\ v \in Nat
    BY PagesVirtual, Zenon DEF Sound, Tree
  <1>2. WalkLow(m, lvl, v) /\ i \in Idx
    BY <1>1, WalkInTree, Digits, Zenon DEF Walk
  <1>3. ~(Present(E2(m, v)) /\ Huge(E2(m, v)))
    BY <1>1, HugeIdentity, Zenon DEF Moved
  <1>4. Link(E2(m, v))
    BY <1>2, <1>3, WordFacts, Zenon DEF WalkLow, Link, Moved
  <1>5. t \in Frames /\ lvl[t] = 1 /\ t \in Managed
    <2>1. t \in Frames /\ lvl[t] = 1
      BY <1>2, <1>4, Zenon DEF WalkLow
    <2> QED BY <1>1, <2>1 DEF Spare
  <1>6. m2 = Set(m, t, i, Unused)
    <2>1. PdEntry(m, v) = E2(m, v) /\ Down(m, E2(m, v), i) = Leaf(m, v)
      BY <1>1, <1>3, KernelWalk, Zenon
    <2>2. Present(Down(m, PdEntry(m, v), i))
      BY <2>1, Zenon DEF Moved
    <2> QED BY <2>1, <2>2, Zenon DEF unmap_page, To
  <1> HIDE DEF t, i, m2
  <1>7. Updated(m2, m, t, i, Unused)
    BY <1>1, <1>2, <1>5, <1>6, TableUpdate, WordFacts, Zenon
  <1>8. /\ m2 \in Mem /\ At(m2, t, i) = Unused
        /\ \A g \in Frames, j \in Idx : g # t \/ j # i => At(m2, g, j) = At(m, g, j)
    BY <1>7, Zenon DEF Updated
  <1>9. /\ Tree(m2, lvl)
        /\ Leaf(m2, v) = Unused
        /\ \A u \in Virtual : u # v => Leaf(m2, u) = Leaf(m, u)
    <2>1. \A g \in Frames, j \in Idx :
            g # To(E2(m, v)) \/ j # pt_index(v) => At(m2, g, j) = At(m, g, j)
      BY <1>8, Zenon DEF t, i
    <2>2. /\ Tree(m2, lvl)
          /\ Leaf(m2, v) = At(m2, To(E2(m, v)), pt_index(v))
          /\ \A u \in Virtual : u # v => Leaf(m2, u) = Leaf(m, u)
      BY <1>1, <1>4, <1>8, <2>1, PageSet
    <2> QED BY <1>8, <2>2, Zenon DEF t, i
  <1>10. /\ ~Moved(m2, v)
         /\ \A u \in Virtual : u # v => (Moved(m2, u) <=> Moved(m, u)) /\ Leaf(m2, u) = Leaf(m, u)
    BY <1>9, WordFacts, Zenon DEF Moved
  <1>11. Identity(m2)
    <2>1. \A f \in Managed : f \in Virtual /\ f # v
      BY <1>1, ManagedFrames, FrameDigits, Zenon DEF Identity, Moved
    <2> QED BY <1>1, <1>9, <2>1, Zenon DEF Identity
  <1>12. Apart(m2, fr, k, lvl)
    <2>1. \A u \in Virtual : Moved(m2, u) => u # v /\ Moved(m, u) /\ Leaf(m2, u) = Leaf(m, u)
      BY <1>10, Zenon
    <2> QED BY <1>1, <2>1, Zenon DEF Apart
  <1>13. Sound(m2, fr, k, lvl)
    BY <1>1, <1>9, <1>11, <1>12, Zenon DEF Sound
  <1>14. OneLeaf(m, m2)
    BY <1>9, Zenon DEF OneLeaf
  <1>15. ASSUME NEW g, Holds(g, m, fr, k, lvl), g # To(Leaf(m, v)) PROVE Holds(g, m2, fr, k, lvl)
    <2>1. CASE \E u \in Pages : Moved(m, u) /\ To(Leaf(m, u)) = g
      <3>1. PICK u \in Pages : Moved(m, u) /\ To(Leaf(m, u)) = g
        BY <2>1, Zenon
      <3>2. Moved(m2, u) /\ To(Leaf(m2, u)) = g
        BY <1>10, <1>15, <3>1, PagesVirtual, Zenon
      <3> QED BY <3>2, Zenon DEF Holds
    <2> QED BY <1>15, <2>1, Zenon DEF Holds
  <1>16. OneLost(m, fr, k, lvl, m2, fr, k, lvl)
    BY <1>15, Zenon DEF OneLost
  <1>17. Steps(m, fr, k, lvl, m2, fr, k)
    BY <1>13, <1>14, <1>16, Zenon DEF Steps
  <1>18. \A f \in Frames, j \in Idx : lvl[f] = 0 => At(m2, f, j) = At(m, f, j)
    BY <1>5, <1>8
  <1> QED BY <1>17, <1>18, Zenon DEF m2

-----------------------------------------------------------------------------
(* Stores through the page tables.                                          *)

(* The words of ws go, from address a on, to pages that lead elsewhere.     *)
Aimed(m, a, ws) ==
  \A n \in DOMAIN ws :
    /\ ws[n] \in Words
    /\ (a + n - 1) \div Fan \in Virtual /\ Moved(m, (a + n - 1) \div Fan)

(* m2 has in every place what m has, or a word of ws meant for it.          *)
Stored(m, m2, a, ws) ==
  /\ m2 \in Mem
  /\ \A f \in Frames, i \in Idx :
       \/ At(m2, f, i) = At(m, f, i)
       \/ \E n \in DOMAIN ws : At(m2, f, i) = ws[n] /\ f = To(Leaf(m, (a + n - 1) \div Fan))

(* A store does that, and reaches no table and no frame of the allocator.   *)
LEMMA StoreStored ==
  ASSUME NEW m \in Mem, NEW a, NEW ws, \A n \in DOMAIN ws : ws[n] \in Words
  PROVE  Stored(m, Store(m, a, ws), a, ws)
  <1> DEFINE m2 == Store(m, a, ws)
             Hits(f, i) == {n \in DOMAIN ws : Leaf(m, (a + n - 1) \div Fan).frame = f
                                              /\ (a + n - 1) % Fan = i}
             W(f, i) == IF Hits(f, i) = {} THEN m[f][i] ELSE ws[CHOOSE n \in Hits(f, i) : TRUE]
  <1>1. m2 = [f \in Frames |-> [i \in Idx |-> W(f, i)]]
    BY Zenon DEF Store
  <1>2. ASSUME NEW f \in Frames, NEW i \in Idx
        PROVE  /\ W(f, i) \in Words
               /\ \/ W(f, i) = At(m, f, i)
                  \/ \E n \in DOMAIN ws : W(f, i) = ws[n] /\ f = To(Leaf(m, (a + n - 1) \div Fan))
    <2>1. CASE Hits(f, i) = {}
      <3>1. W(f, i) = At(m, f, i)
        BY <2>1, Zenon DEF At
      <3> HIDE DEF W
      <3> QED BY <3>1, AtWord, Zenon
    <2>2. CASE Hits(f, i) # {}
      <3> DEFINE n == CHOOSE n \in Hits(f, i) : TRUE
      <3>1. n \in Hits(f, i)
        BY <2>2, Zenon
      <3>2. W(f, i) = ws[n]
        BY <2>2, Zenon
      <3> HIDE DEF W, n
      <3>3. n \in DOMAIN ws /\ Leaf(m, (a + n - 1) \div Fan).frame = f
        BY <3>1, Zenon
      <3> QED BY <3>2, <3>3, Zenon DEF To
    <2> QED BY <2>1, <2>2, Zenon
  <1> HIDE DEF W, Hits, m2
  <1>3. m2 \in Mem
    BY <1>1, <1>2, Zenon DEF Mem
  <1>4. \A f \in Frames, i \in Idx : At(m2, f, i) = W(f, i)
    BY <1>1, Zenon DEF At
  <1>5. Stored(m, m2, a, ws)
    <2>1. ASSUME NEW f \in Frames, NEW i \in Idx
          PROVE  \/ At(m2, f, i) = At(m, f, i)
                 \/ \E n \in DOMAIN ws : At(m2, f, i) = ws[n] /\ f = To(Leaf(m, (a + n - 1) \div Fan))
      <3>1. At(m2, f, i) = W(f, i)
        BY <1>4, Zenon
      <3>2. \/ W(f, i) = At(m, f, i)
            \/ \E n \in DOMAIN ws : W(f, i) = ws[n] /\ f = To(Leaf(m, (a + n - 1) \div Fan))
        BY <1>2, Zenon
      <3> QED BY ONLY <3>1, <3>2, Zenon
    <2> QED BY <1>3, <2>1, Zenon DEF Stored
  <1> QED BY <1>5, Zenon DEF m2

(* So the tables are the same, and what the allocator has.                  *)
LEMMA StoreSame ==
  ASSUME NEW m, NEW fr, NEW k, NEW lvl, Sound(m, fr, k, lvl),
         NEW a, NEW ws, Aimed(m, a, ws), NEW m2, Stored(m, m2, a, ws)
  PROVE  /\ SameTables(m, m2, lvl)
         /\ \A f \in FreeSet(fr), i \in Idx : At(m2, f, i) = At(m, f, i)
  <1>1. \A n \in DOMAIN ws : InUse(To(Leaf(m, (a + n - 1) \div Fan)), fr, lvl)
    BY Zenon DEF Aimed, Sound, Apart
  <1>2. \A f \in Frames, i \in Idx :
          lvl[f] > 0 \/ f \in FreeSet(fr) => At(m2, f, i) = At(m, f, i)
    BY <1>1 DEF Stored, InUse
  <1>3. FreeSet(fr) \subseteq Frames
    BY SpareFacts, Zenon DEF Sound
  <1> QED BY <1>2, <1>3, Zenon DEF Stored, SameTables

-----------------------------------------------------------------------------
(* Programs and the pages they fill.                                        *)

(* One page further.                                                        *)
LEMMA DivNext ==
  ASSUME NEW s \in Nat \ {0}, NEW a \in Nat
  PROVE  (a + s) \div s = (a \div s) + 1
  BY SMT

(* What a program is made of.                                               *)
LEMMA ProgramFacts ==
  ASSUME NEW p \in Programs, NEW k \in DOMAIN p.segs
  PROVE  /\ p.segs[k].vaddr \in Nat /\ p.segs[k].memsz \in Nat /\ p.segs[k].file \in Seq(Words)
         /\ Len(p.segs[k].file) <= p.segs[k].memsz
         /\ p.segs[k].write \in BOOLEAN /\ p.segs[k].exec \in BOOLEAN
         /\ LoadOffset(p) \in Nat /\ FirstPage(p, k) \in Nat /\ EndPage(p, k) \in Nat
  <1>1. /\ p.segs \in Seq([vaddr : Nat, file : Seq(Words), memsz : Nat,
                           write : BOOLEAN, exec : BOOLEAN])
        /\ Len(p.segs[k].file) <= p.segs[k].memsz
    BY ProgramsAssumption, Zenon
  <1>2. p.segs[k] \in [vaddr : Nat, file : Seq(Words), memsz : Nat, write : BOOLEAN, exec : BOOLEAN]
    <2> DEFINE S == [vaddr : Nat, file : Seq(Words), memsz : Nat, write : BOOLEAN, exec : BOOLEAN]
               q == p.segs
    <2>1. q \in Seq(S) /\ k \in DOMAIN q
      BY <1>1, Zenon
    <2> HIDE DEF S, q
    <2>2. q[k] \in S
      BY ONLY <2>1
    <2> QED BY <2>2, Zenon DEF S, q
  <1>3. /\ p.segs[k].vaddr \in Nat /\ p.segs[k].memsz \in Nat /\ p.segs[k].file \in Seq(Words)
        /\ p.segs[k].write \in BOOLEAN /\ p.segs[k].exec \in BOOLEAN
    BY <1>2, Zenon
  <1>4. LoadOffset(p) \in Nat
    <2>1. UserBase * Fan \in Nat /\ 0 \in Nat
      BY BootTables, LayoutAssumption
    <2> QED BY <2>1, Zenon DEF LoadOffset
  <1>5. /\ p.segs[k].vaddr + LoadOffset(p) \in Nat
        /\ p.segs[k].vaddr + LoadOffset(p) + p.segs[k].memsz + Fan - 1 \in Nat
    <2> DEFINE a == p.segs[k].vaddr
               z == p.segs[k].memsz
               o == LoadOffset(p)
    <2>1. a \in Nat /\ z \in Nat /\ o \in Nat /\ Fan \in Nat \ {0}
      BY <1>3, <1>4, BootTables, Zenon
    <2> HIDE DEF a, z, o
    <2>2. a + o \in Nat /\ a + o + z + Fan - 1 \in Nat
      BY ONLY <2>1
    <2> QED BY <2>2, Zenon DEF a, z, o
  <1>6. FirstPage(p, k) \in Nat /\ EndPage(p, k) \in Nat
    BY <1>5, BootTables, DivMod, Zenon DEF FirstPage, EndPage
  <1> QED BY <1>1, <1>3, <1>4, <1>6, Zenon

(* Every word of a segment is in one of its pages.                          *)
LEMMA SegmentPages ==
  ASSUME NEW p \in Programs, NEW k \in DOMAIN p.segs, NEW n \in 1..p.segs[k].memsz
  PROVE  /\ p.segs[k].vaddr + LoadOffset(p) + n - 1 \in Nat
         /\ (p.segs[k].vaddr + LoadOffset(p) + n - 1) \div Fan \in SegPages(p, k)
  <1> DEFINE a == p.segs[k].vaddr + LoadOffset(p)
             z == p.segs[k].memsz
             x == a + n - 1
  <1>1. a \in Nat /\ z \in Nat /\ n \in 1..z /\ Fan \in Nat \ {0}
        /\ FirstPage(p, k) \in Nat /\ EndPage(p, k) \in Nat
    BY ProgramFacts, BootTables
  <1>2. FirstPage(p, k) = a \div Fan /\ EndPage(p, k) = (a + z + Fan - 1) \div Fan
    BY Zenon DEF FirstPage, EndPage
  <1> HIDE DEF a, z
  <1>3. x \in Nat /\ a <= x /\ x + Fan <= a + z + Fan - 1 /\ x + Fan \in Nat /\ a + z + Fan - 1 \in Nat
    BY <1>1
  <1> HIDE DEF x
  <1>4. a \div Fan <= x \div Fan /\ x \div Fan \in Nat
    BY <1>1, <1>3, DivMono, DivMod, Zenon
  <1>5. (x + Fan) \div Fan <= (a + z + Fan - 1) \div Fan
    BY ONLY <1>1, <1>3, DivMono, Zenon
  <1>6. (x + Fan) \div Fan = (x \div Fan) + 1
    BY ONLY <1>1, <1>3, DivNext, Zenon
  <1>7. x \div Fan \in FirstPage(p, k)..(EndPage(p, k) - 1)
    <2> DEFINE y == x \div Fan
    <2>1. FirstPage(p, k) <= y /\ y + 1 <= EndPage(p, k) /\ y \in Nat
      BY <1>2, <1>4, <1>5, <1>6, Zenon
    <2> HIDE DEF y
    <2>2. y \in FirstPage(p, k)..(EndPage(p, k) - 1)
      BY ONLY <1>1, <2>1
    <2> QED BY <2>2, Zenon DEF y
  <1> QED BY <1>3, <1>7, Zenon DEF SegPages, x, a

(* The words a segment has in memory.                                       *)
LEMMA SegmentWords ==
  ASSUME NEW p \in Programs, NEW k \in DOMAIN p.segs
  PROVE  LET ws == SegWords(p.segs[k])
         IN  /\ DOMAIN ws = 1..p.segs[k].memsz
             /\ \A n \in DOMAIN ws : ws[n] \in Words /\ (Relative(ws[n]) => ws[n] \in FileWords(p))
  <1> DEFINE f == p.segs[k].file
             z == p.segs[k].memsz
             b == [j \in 1..(z - Len(f)) |-> Word(0)]
             ws == f \o b
  <1>1. z \in Nat /\ f \in Seq(Words) /\ Len(f) \in Nat /\ Len(f) <= z /\ DOMAIN f = 1..Len(f)
    BY ProgramFacts
  <1>2. Word(0) \in Words /\ ~Relative(Word(0))
    BY Zenon DEF Word, Entry, Words, Relative
  <1>3. \A n \in DOMAIN f : f[n] \in FileWords(p)
    BY DEF FileWords
  <1>4. SegWords(p.segs[k]) = ws
    BY Zenon DEF SegWords
  <1> HIDE DEF f, z
  <1>5. b \in Seq(Words) /\ Len(b) = z - Len(f) /\ \A j \in 1..(z - Len(f)) : b[j] = Word(0)
    BY <1>1, <1>2
  <1> HIDE DEF b
  <1>6. DOMAIN ws = 1..z
    BY <1>1, <1>5
  <1>7. ASSUME NEW n \in 1..z
        PROVE  /\ n <= Len(f) => ws[n] = f[n] /\ n \in DOMAIN f /\ f[n] \in Words
               /\ n > Len(f) => ws[n] = b[n - Len(f)] /\ n - Len(f) \in 1..(z - Len(f))
    BY <1>1, <1>5
  <1> HIDE DEF ws
  <1>8. ASSUME NEW n \in 1..z
        PROVE  ws[n] \in Words /\ (Relative(ws[n]) => ws[n] \in FileWords(p))
    <2>1. CASE n <= Len(f)
      BY <1>3, <1>7, <2>1, Zenon
    <2>2. CASE n > Len(f)
      <3>1. ws[n] = Word(0)
        BY <1>5, <1>7, <2>2, Zenon
      <3> QED BY <1>2, <3>1, Zenon
    <2> QED BY <1>1, <2>1, <2>2
  <1> QED BY <1>4, <1>6, <1>8, Zenon DEF z

(* The segments that a load has done, by membership.                        *)
LEMMA DoneIs ==
  ASSUME NEW p, NEW sg, NEW pg, NEW v
  PROVE  v \in Done(p, sg, pg) <=>
           \/ \E j \in DOMAIN p.segs : j < sg /\ v \in SegPages(p, j)
           \/ sg \in DOMAIN p.segs /\ v \in FirstPage(p, sg)..(FirstPage(p, sg) + pg - 1)
  BY Zenon DEF Done

(* A segment's number is a positive one.                                    *)
LEMMA SegDomain ==
  ASSUME NEW p \in Programs
  PROVE  /\ \A j \in DOMAIN p.segs : j \in Nat \ {0}
         /\ \A j \in DOMAIN p.segs, n \in Nat \ {0} : n <= j => n \in DOMAIN p.segs
  <1> DEFINE S == [vaddr : Nat, file : Seq(Words), memsz : Nat, write : BOOLEAN, exec : BOOLEAN]
             q == p.segs
  <1>1. q \in Seq(S)
    BY ProgramsAssumption, Zenon
  <1> HIDE DEF S, q
  <1>2. /\ \A j \in DOMAIN q : j \in Nat \ {0}
        /\ \A j \in DOMAIN q, n \in Nat \ {0} : n <= j => n \in DOMAIN q
    BY ONLY <1>1
  <1> QED BY <1>2, Zenon DEF q

(* From step to step.                                                       *)
LEMMA DoneSteps ==
  ASSUME NEW p \in Programs, NEW pg \in Nat, NEW v
  PROVE  /\ v \notin Done(p, 1, 0)
         /\ \A sg \in DOMAIN p.segs :
              /\ v \in Done(p, sg, pg + 1) => v \in Done(p, sg, pg) \/ v = FirstPage(p, sg) + pg
              /\ FirstPage(p, sg) + pg >= EndPage(p, sg) =>
                   /\ v \in Done(p, sg + 1, 0) => v \in Done(p, sg, pg)
                   /\ v \in SegPages(p, sg) => v \in Done(p, sg, pg)
         /\ \A sg \in Nat \ {0} : sg \notin DOMAIN p.segs =>
              /\ v \in Done(p, sg, pg + 1) => v \in Done(p, sg, pg)
              /\ v \in ImagePages(p) => v \in Done(p, sg, pg)
  <1>1. /\ \A j \in DOMAIN p.segs : j \in Nat \ {0} /\ FirstPage(p, j) \in Nat /\ EndPage(p, j) \in Nat
        /\ \A j \in DOMAIN p.segs, n \in Nat \ {0} : n <= j => n \in DOMAIN p.segs
    BY SegDomain, ProgramFacts, Zenon
  <1>2. v \notin Done(p, 1, 0)
    <2>1. \A j \in DOMAIN p.segs : ~(j < 1)
      BY <1>1
    <2>2. 1 \in DOMAIN p.segs => v \notin FirstPage(p, 1)..(FirstPage(p, 1) + 0 - 1)
      BY <1>1
    <2> QED BY <2>1, <2>2, DoneIs, Zenon
  <1>3. ASSUME NEW sg \in DOMAIN p.segs, v \in Done(p, sg, pg + 1)
        PROVE  v \in Done(p, sg, pg) \/ v = FirstPage(p, sg) + pg
    <2>1. CASE v \in FirstPage(p, sg)..(FirstPage(p, sg) + (pg + 1) - 1)
      <3>1. v \in FirstPage(p, sg)..(FirstPage(p, sg) + pg - 1) \/ v = FirstPage(p, sg) + pg
        BY <1>1, <2>1
      <3> QED BY <3>1, DoneIs, Zenon
    <2>2. CASE \E j \in DOMAIN p.segs : j < sg /\ v \in SegPages(p, j)
      BY <2>2, DoneIs, Zenon
    <2> QED BY <1>3, <2>1, <2>2, DoneIs, Zenon
  <1>4. ASSUME NEW sg \in DOMAIN p.segs, FirstPage(p, sg) + pg >= EndPage(p, sg), v \in SegPages(p, sg)
        PROVE  v \in Done(p, sg, pg)
    <2>1. v \in FirstPage(p, sg)..(FirstPage(p, sg) + pg - 1)
      BY <1>1, <1>4 DEF SegPages
    <2> QED BY <2>1, DoneIs, Zenon
  <1>5. ASSUME NEW sg \in DOMAIN p.segs, FirstPage(p, sg) + pg >= EndPage(p, sg),
               v \in Done(p, sg + 1, 0)
        PROVE  v \in Done(p, sg, pg)
    <2>1. CASE sg + 1 \in DOMAIN p.segs /\ v \in FirstPage(p, sg + 1)..(FirstPage(p, sg + 1) + 0 - 1)
      BY <1>1, <2>1
    <2>2. CASE \E j \in DOMAIN p.segs : j < sg + 1 /\ v \in SegPages(p, j)
      <3>1. PICK j \in DOMAIN p.segs : j < sg + 1 /\ v \in SegPages(p, j)
        BY <2>2, Zenon
      <3>2. j < sg \/ j = sg
        BY <1>1, <3>1
      <3> QED BY <1>4, <1>5, <3>1, <3>2, DoneIs, Zenon
    <2> QED BY <1>5, <2>1, <2>2, DoneIs, Zenon
  <1>6. ASSUME NEW sg \in Nat \ {0}, sg \notin DOMAIN p.segs
        PROVE  /\ v \in Done(p, sg, pg + 1) => v \in Done(p, sg, pg)
               /\ v \in ImagePages(p) => v \in Done(p, sg, pg)
    <2>1. \A j \in DOMAIN p.segs : j < sg
      BY <1>1, <1>6
    <2>2. v \in ImagePages(p) => \E j \in DOMAIN p.segs : v \in SegPages(p, j)
      BY Zenon DEF ImagePages
    <2> QED BY <1>6, <2>1, <2>2, DoneIs, Zenon
  <1> QED BY <1>2, <1>3, <1>4, <1>5, <1>6, Zenon

-----------------------------------------------------------------------------
(* What a load has written so far.                                          *)

(* A store of words that are from the file if they are relocation entries.  *)
LEMMA StoreLoads ==
  ASSUME NEW m, NEW fr, NEW k, NEW lvl \in [Frames -> 0..4], Sound(m, fr, k, lvl), Clean(m, fr),
         NEW a, NEW ws, Aimed(m, a, ws), NEW p,
         \A n \in DOMAIN ws : Relative(ws[n]) => ws[n] \in FileWords(p)
  PROVE  /\ Steps(m, fr, k, lvl, Store(m, a, ws), fr, k)
         /\ Clean(Store(m, a, ws), fr)
         /\ \A v : FromFile(m, v, p) => FromFile(Store(m, a, ws), v, p)
  <1> DEFINE m2 == Store(m, a, ws)
  <1>1. m \in Mem /\ Tree(m, lvl) /\ Apart(m, fr, k, lvl)
    BY Zenon DEF Sound, Tree
  <1>2. Stored(m, m2, a, ws)
    BY <1>1, StoreStored, Zenon DEF Aimed
  <1> HIDE DEF m2
  <1>3. /\ SameTables(m, m2, lvl)
        /\ \A f \in FreeSet(fr), i \in Idx : At(m2, f, i) = At(m, f, i)
    BY <1>2, StoreSame
  <1>4. Steps(m, fr, k, lvl, m2, fr, k)
    BY <1>3, DataSteps, Zenon
  <1>5. Clean(m2, fr)
    BY <1>3, Zenon DEF Clean
  <1>6. \A v \in Virtual : Leaf(m2, v) = Leaf(m, v)
    BY <1>1, <1>3, DataKept, PagesVirtual, Zenon
  <1>7. ASSUME NEW v, FromFile(m, v, p) PROVE FromFile(m2, v, p)
    <2> DEFINE f == To(Leaf(m, v))
    <2>1. v \in Virtual /\ Moved(m, v) /\ \A i \in Idx : Relative(At(m, f, i)) => At(m, f, i) \in FileWords(p)
      BY <1>7, Zenon DEF FromFile
    <2>2. Leaf(m2, v) = Leaf(m, v) /\ Moved(m2, v)
      BY <1>6, <2>1, Zenon DEF Moved
    <2>3. f \in Frames
      BY <1>1, <2>1, ManagedFrames, Zenon DEF Apart, InUse
    <2> HIDE DEF f
    <2>4. ASSUME NEW i \in Idx, Relative(At(m2, f, i)) PROVE At(m2, f, i) \in FileWords(p)
      <3>1. At(m2, f, i) = At(m, f, i) \/ \E n \in DOMAIN ws : At(m2, f, i) = ws[n]
        BY <1>2, <2>3, Zenon DEF Stored
      <3> QED BY <2>1, <2>4, <3>1, Zenon
    <2> QED BY <2>1, <2>2, <2>4, Zenon DEF FromFile, f
  <1> QED BY <1>4, <1>5, <1>7, Zenon DEF m2

(* Page v leads to the same frame, which holds the same words.              *)
SamePage(m, m2, v) ==
  /\ Leaf(m2, v) = Leaf(m, v)
  /\ \A i \in Idx : At(m2, To(Leaf(m, v)), i) = At(m, To(Leaf(m, v)), i)

(* Page v is one of p's if it was mapped, and so is every page that was.    *)
Loads(m, m2, fr2, v, ok, p) ==
  /\ Clean(m2, fr2)
  /\ ok => FromFile(m2, v, p)
  /\ \A u : FromFile(m, u, p) => FromFile(m2, u, p)
  /\ \A u \in Virtual : Moved(m, u) /\ u # v => SamePage(m, m2, u)

(* A fresh frame mapped.                                                    *)
LEMMA FreshLoads ==
  ASSUME NEW m, NEW fr, NEW k, NEW lvl, Sound(m, fr, k, lvl), Clean(m, fr), fr # << >>,
         NEW v \in Virtual, v \notin Managed, NEW w, To(w) = Head(fr), Present(w),
         NEW m2, NEW fr2, NEW ok \in BOOLEAN, NEW lvl2 \in [Frames -> 0..4],
         Mapped(m, Tail(fr), lvl, v, w, m2, fr2, ok, lvl2), NEW p
  PROVE  Loads(m, m2, fr2, v, ok, p)
  <1> DEFINE f == Head(fr)
  <1>1. /\ Spare(Tail(fr), lvl) /\ Apart(m, Tail(fr), k, lvl) /\ Taken(f, m, Tail(fr), k, lvl)
        /\ f \in FreeSet(fr) /\ FreeSet(Tail(fr)) = FreeSet(fr) \ {f}
    BY TakeFrame, Zenon DEF Sound
  <1> HIDE DEF f
  <1>2. ok => Moved(m2, v)
    <2>1. f \in Managed
      BY <1>1, Zenon DEF Taken, InUse
    <2> QED BY <2>1, Zenon DEF Mapped, Moved, f
  <1>3. /\ ok => Leaf(m2, v) = w
        /\ \A u \in Virtual : ~ok \/ u # v => Leaf(m2, u) = Leaf(m, u)
        /\ \A g \in Frames, i \in Idx : lvl2[g] = 0 => At(m2, g, i) = At(m, g, i)
        /\ FreeSet(fr2) \subseteq FreeSet(Tail(fr)) /\ Spare(fr2, lvl2)
    BY Zenon DEF Mapped
  <1>4. Clean(m2, fr2)
    <2>1. \A g \in FreeSet(fr2) : g \in Frames /\ lvl2[g] = 0
      BY <1>3, SpareFacts, Zenon
    <2> QED BY <1>1, <1>3, <2>1, Zenon DEF Clean
  <1>5. \A g : InUse(g, Tail(fr), lvl) => lvl2[g] = 0 /\ g \in Frames
    BY InUseKept, Zenon
  <1>6. ok => FromFile(m2, v, p)
    <2>1. ok => To(Leaf(m2, v)) = f
      BY <1>3, Zenon DEF f
    <2>2. \A i \in Idx : ~Relative(At(m2, f, i))
      BY <1>1, <1>3, <1>5, Zenon DEF Taken, Clean
    <2> QED BY <1>2, <2>1, <2>2, Zenon DEF FromFile
  <1>7. ASSUME NEW u, FromFile(m, u, p), ~ok \/ u # v PROVE FromFile(m2, u, p)
    <2> DEFINE g == To(Leaf(m, u))
    <2>1. u \in Virtual /\ Moved(m, u) /\ \A i \in Idx : Relative(At(m, g, i)) => At(m, g, i) \in FileWords(p)
      BY <1>7, Zenon DEF FromFile
    <2>2. Leaf(m2, u) = Leaf(m, u) /\ Moved(m2, u)
      BY <1>3, <1>7, <2>1, Zenon DEF Moved
    <2>3. InUse(g, Tail(fr), lvl)
      BY <1>1, <2>1, Zenon DEF Apart
    <2> HIDE DEF g
    <2>4. \A i \in Idx : At(m2, g, i) = At(m, g, i)
      BY <1>3, <1>5, <2>3, Zenon
    <2> QED BY <2>1, <2>2, <2>4, Zenon DEF FromFile, g
  <1>8. ASSUME NEW u \in Virtual, Moved(m, u), u # v PROVE SamePage(m, m2, u)
    <2> DEFINE g == To(Leaf(m, u))
    <2>1. InUse(g, Tail(fr), lvl)
      BY <1>1, <1>8, Zenon DEF Apart
    <2> HIDE DEF g
    <2>2. \A i \in Idx : At(m2, g, i) = At(m, g, i)
      BY <1>3, <1>5, <2>1, Zenon
    <2> QED BY <1>3, <1>8, <2>2, Zenon DEF SamePage, g
  <1> QED BY <1>4, <1>6, <1>7, <1>8, Zenon DEF Loads

-----------------------------------------------------------------------------
(* The actions.                                                             *)

(* What map_page writes for a frame.                                        *)
LEMMA EntryWord ==
  ASSUME NEW f \in Nat, NEW fl \in SUBSET PageFlags
  PROVE  /\ Entry(f, fl \cup {"P"}) \in Words
         /\ To(Entry(f, fl \cup {"P"})) = f /\ Present(Entry(f, fl \cup {"P"}))
  BY Zenon DEF Entry, Words, To, Present, PageFlags

(* A page of a load is mapped, or the load is refused.                      *)
LEMMA AdvanceSteps ==
  ASSUME Loading, NEW lvl \in [Frames -> 0..4], Sound(mem, free, kstack, lvl),
         NEW v \in Virtual, v \notin Managed, NEW fl \in SUBSET PageFlags,
         Advance(MapFresh(v, fl))
  PROVE  /\ Steps(mem, free, kstack, lvl, mem', free', kstack)
         /\ Clean(mem', free')
         /\ \A u, p : FromFile(mem, u, p) => FromFile(mem', u, p)
         /\ \/ phase' = "idle" /\ page' = page
            \/ phase' = phase /\ page' = page + 1 /\ \A p : FromFile(mem', v, p)
         /\ \A u \in Virtual : Moved(mem, u) /\ u # v => SamePage(mem, mem', u)
  <1> DEFINE r == MapFresh(v, fl)
             f == Head(free)
             w == Entry(f, fl \cup {"P"})
  <1>1. /\ mem' = r.mem /\ free' = r.free
        /\ phase' = IF r.ok THEN phase ELSE "idle"
        /\ page' = IF r.ok THEN page + 1 ELSE page
    BY Zenon DEF Advance
  <1>2. Clean(mem, free) /\ page \in Nat
    BY Zenon DEF Loading
  <1>3. CASE free = << >>
    <2>1. r = [mem |-> mem, free |-> free, ok |-> FALSE]
      BY <1>3, Zenon DEF MapFresh
    <2>2. r.mem = mem /\ r.free = free /\ r.ok = FALSE
      BY <2>1
    <2> HIDE DEF r
    <2>3. mem' = mem /\ free' = free /\ phase' = "idle" /\ page' = page
      BY <1>1, <2>2, Zenon
    <2>4. Steps(mem, free, kstack, lvl, mem', free', kstack)
      BY <2>3, SameSteps, Zenon
    <2>5. \A u : SamePage(mem, mem', u)
      BY <2>3, Zenon DEF SamePage
    <2> QED BY <1>2, <2>3, <2>4, <2>5, Zenon
  <1>4. CASE free # << >>
    <2>1. /\ Spare(Tail(free), lvl) /\ Taken(f, mem, Tail(free), kstack, lvl)
          /\ Tree(mem, lvl) /\ Identity(mem)
      BY <1>4, TakeFrame, Zenon DEF Sound
    <2>2. f \in Nat
      BY <2>1, ManagedFrames, FrameDigits, Zenon DEF Taken, InUse
    <2>3. w \in Words /\ To(w) = f /\ Present(w)
      BY <2>2, EntryWord, Zenon
    <2>4. r = map_page(mem, Tail(free), v, f, fl)
      BY <1>4, Zenon DEF MapFresh
    <2>5. Maps(r, mem, Tail(free), lvl, v, w)
      BY <2>1, <2>3, <2>4, MapPage
    <2> HIDE DEF r, w, f
    <2>6. PICK m2, fr2, ok : \E lvl2 \in [Frames -> 0..4] :
             IsResult(r, m2, fr2, ok) /\ Mapped(mem, Tail(free), lvl, v, w, m2, fr2, ok, lvl2)
      BY <2>5, Zenon DEF Maps
    <2>7. PICK lvl2 \in [Frames -> 0..4] :
             IsResult(r, m2, fr2, ok) /\ Mapped(mem, Tail(free), lvl, v, w, m2, fr2, ok, lvl2)
      BY <2>6, Zenon
    <2>8. ok \in BOOLEAN /\ mem' = m2 /\ free' = fr2
          /\ phase' = (IF ok THEN phase ELSE "idle") /\ page' = (IF ok THEN page + 1 ELSE page)
      BY <1>1, <2>7, Zenon DEF IsResult
    <2>9. /\ Sound(m2, fr2, kstack, lvl2) /\ OneLeaf(mem, m2)
          /\ OneLost(mem, free, kstack, lvl, m2, fr2, kstack, lvl2)
      BY <1>4, <2>3, <2>7, <2>8, FreshSteps, Zenon DEF f
    <2>10. Steps(mem, free, kstack, lvl, m2, fr2, kstack)
      BY <2>9, Zenon DEF Steps
    <2>11. ASSUME NEW p PROVE Loads(mem, m2, fr2, v, ok, p)
      BY <1>2, <1>4, <2>3, <2>7, <2>8, FreshLoads DEF f
    <2> QED BY <2>8, <2>10, <2>11, Zenon DEF Loads
  <1> QED BY <1>3, <1>4, Zenon

(* The flags of a segment are flags.                                        *)
LEMMA FlagsAreFlags ==
  /\ \A s : SegFlags(s) \in SUBSET PageFlags
  /\ {"P", "W", "U"} \in SUBSET PageFlags /\ {"P", "W"} \in SUBSET PageFlags
  BY Zenon DEF SegFlags, PageFlags

(* from_elf is called: nothing is loaded yet.                               *)
LEMMA StartKeeps ==
  ASSUME Loading, NEW lvl \in [Frames -> 0..4], Sound(mem, free, kstack, lvl),
         NEW p \in Programs, Start(p)
  PROVE  Loading' /\ Steps(mem, free, kstack, lvl, mem', free', kstack')
  <1>1. mem' = mem /\ free' = free /\ kstack' = kstack /\ prog' = p /\ seg' = 1 /\ page' = 0
    BY Zenon DEF Start
  <1>2. Steps(mem, free, kstack, lvl, mem', free', kstack')
    BY <1>1, SameSteps, Zenon
  <1>3. \A v : v \notin Done(prog', seg', page')
    BY <1>1, DoneSteps, Zenon
  <1>4. Clean(mem', free')
    BY <1>1, Zenon DEF Loading
  <1> QED BY <1>1, <1>2, <1>3, <1>4 DEF Loading

(* One page of a segment: the frame it is given has left the allocator, and *)
(* holds no relocation entry.                                               *)
LEMMA LoadPageKeeps ==
  ASSUME Loading, NEW lvl \in [Frames -> 0..4], Sound(mem, free, kstack, lvl), LoadPage
  PROVE  Loading' /\ Steps(mem, free, kstack, lvl, mem', free', kstack')
  <1> DEFINE v == FirstPage(prog, seg) + page
  <1>1. /\ phase = "load" /\ seg \in DOMAIN prog.segs /\ v < EndPage(prog, seg)
        /\ Advance(MapFresh(v, SegFlags(prog.segs[seg])))
        /\ prog' = prog /\ seg' = seg /\ kstack' = kstack
    BY Zenon DEF LoadPage
  <1>2. prog \in Programs /\ seg \in Nat \ {0} /\ page \in Nat
    BY Zenon DEF Loading
  <1>3. FirstPage(prog, seg) \in Nat /\ EndPage(prog, seg) \in Nat
    BY <1>1, <1>2, ProgramFacts, Zenon
  <1>4. v \in SegPages(prog, seg)
    BY <1>1, <1>2, <1>3 DEF SegPages
  <1> HIDE DEF v
  <1>5. v \in Virtual /\ v \notin Managed
    <2>1. v \in UserPages
      BY <1>1, <1>2, <1>4 DEF UserPages, ImagePages
    <2> QED BY <2>1, PagesVirtual, Zenon
  <1>6. /\ Steps(mem, free, kstack, lvl, mem', free', kstack)
        /\ Clean(mem', free')
        /\ \A u, p : FromFile(mem, u, p) => FromFile(mem', u, p)
        /\ \/ phase' = "idle" /\ page' = page
           \/ phase' = phase /\ page' = page + 1 /\ \A p : FromFile(mem', v, p)
    BY <1>1, <1>5, FlagsAreFlags, AdvanceSteps, Zenon
  <1>7. ASSUME phase' = "load", NEW u \in Done(prog', seg', page') PROVE FromFile(mem', u, prog')
    <2>1. page' = page + 1 /\ \A p : FromFile(mem', v, p)
      BY <1>6, <1>7, Zenon
    <2>2. u \in Done(prog, seg, page + 1)
      BY <1>1, <1>7, <2>1, Zenon
    <2>3. u \in Done(prog, seg, page) \/ u = v
      BY <1>1, <1>2, <2>2, DoneSteps, Zenon DEF v
    <2>4. u \in Done(prog, seg, page) => FromFile(mem, u, prog)
      BY <1>1, Zenon DEF Loading
    <2> QED BY <1>1, <1>6, <2>1, <2>3, <2>4, Zenon
  <1>8. prog' \in Programs /\ seg' \in Nat \ {0} /\ page' \in Nat
    <2>1. page' = page \/ page' = page + 1
      BY <1>6, Zenon
    <2>2. page' \in Nat
      BY ONLY <1>2, <2>1
    <2> QED BY <1>1, <1>2, <2>2, Zenon
  <1>9. Loading'
    BY <1>6, <1>7, <1>8, Zenon DEF Loading
  <1> QED BY <1>1, <1>6, <1>9, Zenon

(* One page of the user stack.                                              *)
LEMMA StackPageKeeps ==
  ASSUME Loading, NEW lvl \in [Frames -> 0..4], Sound(mem, free, kstack, lvl), StackPage
  PROVE  Loading' /\ Steps(mem, free, kstack, lvl, mem', free', kstack')
  <1> DEFINE v == StackBase + page
  <1>1. /\ phase = "stack" /\ page < StackPages
        /\ Advance(MapFresh(v, {"P", "W", "U"}))
        /\ prog' = prog /\ seg' = seg /\ kstack' = kstack
    BY Zenon DEF StackPage
  <1>2. prog \in Programs /\ seg \in Nat \ {0} /\ page \in Nat
    BY DEF Loading
  <1>3. v \in StackBase..(StackBase + StackPages - 1)
    BY <1>1, <1>2, LayoutAssumption
  <1> HIDE DEF v
  <1>4. v \in Virtual /\ v \notin Managed
    BY <1>3, PagesVirtual, Zenon DEF UserPages
  <1>5. /\ Steps(mem, free, kstack, lvl, mem', free', kstack)
        /\ Clean(mem', free')
        /\ (phase' = "idle" /\ page' = page) \/ (phase' = phase /\ page' = page + 1)
    BY <1>1, <1>4, FlagsAreFlags, AdvanceSteps, Zenon
  <1>6. phase' # "load" /\ page' \in Nat
    BY <1>1, <1>2, <1>5
  <1> QED BY <1>1, <1>2, <1>5, <1>6, Zenon DEF Loading

(* The words of a segment go to pages that this load mapped, so to no table *)
(* and no frame of the allocator.                                           *)
LEMMA CopySegmentKeeps ==
  ASSUME Loading, NEW lvl \in [Frames -> 0..4], Sound(mem, free, kstack, lvl), CopySegment
  PROVE  Loading' /\ Steps(mem, free, kstack, lvl, mem', free', kstack')
  <1> DEFINE a == prog.segs[seg].vaddr + LoadOffset(prog)
             ws == SegWords(prog.segs[seg])
  <1>1. /\ phase = "load" /\ seg \in DOMAIN prog.segs
        /\ FirstPage(prog, seg) + page >= EndPage(prog, seg)
        /\ mem' = Store(mem, a, ws) /\ seg' = seg + 1 /\ page' = 0
        /\ free' = free /\ phase' = phase /\ prog' = prog /\ kstack' = kstack
    BY Zenon DEF CopySegment
  <1>2. /\ prog \in Programs /\ seg \in Nat \ {0} /\ page \in Nat /\ Clean(mem, free)
        /\ \A u \in Done(prog, seg, page) : FromFile(mem, u, prog)
    BY <1>1, Zenon DEF Loading
  <1>3. /\ DOMAIN ws = 1..prog.segs[seg].memsz
        /\ \A n \in DOMAIN ws : ws[n] \in Words /\ (Relative(ws[n]) => ws[n] \in FileWords(prog))
    BY <1>1, <1>2, SegmentWords, Zenon
  <1>4. ASSUME NEW n \in DOMAIN ws PROVE (a + n - 1) \div Fan \in Done(prog, seg, page)
    <2>1. (a + n - 1) \div Fan \in SegPages(prog, seg)
      BY <1>1, <1>2, <1>3, SegmentPages, Zenon
    <2> HIDE DEF a
    <2> QED BY <1>1, <1>2, <2>1, DoneSteps, Zenon
  <1> HIDE DEF a, ws
  <1>5. Aimed(mem, a, ws)
    BY <1>2, <1>3, <1>4, Zenon DEF Aimed, FromFile
  <1>6. /\ Steps(mem, free, kstack, lvl, mem', free, kstack)
        /\ Clean(mem', free)
        /\ \A u : FromFile(mem, u, prog) => FromFile(mem', u, prog)
    BY <1>1, <1>2, <1>3, <1>5, StoreLoads, Zenon
  <1>7. ASSUME NEW u \in Done(prog', seg', page') PROVE FromFile(mem', u, prog')
    <2>1. u \in Done(prog, seg, page)
      BY <1>1, <1>2, <1>7, DoneSteps, Zenon
    <2> QED BY <1>1, <1>2, <1>6, <2>1, Zenon
  <1>8. prog' \in Programs /\ seg' \in Nat \ {0} /\ page' \in Nat
    BY <1>1, <1>2
  <1> QED BY <1>1, <1>6, <1>7, <1>8, Zenon DEF Loading

(* A relocation: the entry is in a page of the program, and so is the word  *)
(* that it names.                                                           *)
LEMMA RelocationsKeep ==
  ASSUME Loading, NEW lvl \in [Frames -> 0..4], Sound(mem, free, kstack, lvl), apply_relocations
  PROVE  Loading' /\ Steps(mem, free, kstack, lvl, mem', free', kstack')
  <1> DEFINE o == LoadOffset(prog)
             x == prog.rela + page + o
             v == x \div Fan
             e == Fetch(mem, x)
  <1>1. /\ phase = "load" /\ seg \notin DOMAIN prog.segs /\ page < Relocations(prog)
        /\ mem' = Patch(mem, prog.rela + page, o) /\ page' = page + 1
        /\ free' = free /\ phase' = phase /\ prog' = prog /\ kstack' = kstack /\ seg' = seg
    BY Zenon DEF apply_relocations
  <1>2. /\ prog \in Programs /\ seg \in Nat \ {0} /\ page \in Nat /\ Clean(mem, free)
        /\ \A u \in Done(prog, seg, page) : FromFile(mem, u, prog)
    BY <1>1, Zenon DEF Loading
  <1>3. /\ o \in Nat /\ prog.rela \in Nat /\ prog.relasz \in Nat
        /\ page \in 0..(prog.relasz - 1) /\ Relocations(prog) > 0
    <2>1. prog.rela \in Nat /\ prog.relasz \in Nat
      BY <1>2, ProgramsAssumption, Zenon
    <2>2. o \in Nat
      <3>1. UserBase * Fan \in Nat /\ 0 \in Nat
        BY BootTables, LayoutAssumption
      <3> QED BY <3>1, Zenon DEF LoadOffset
    <2>3. Relocations(prog) = 0 \/ Relocations(prog) = prog.relasz
      BY Zenon DEF Relocations
    <2> QED BY <1>1, <1>2, <2>1, <2>2, <2>3
  <1>4. \A u \in ImagePages(prog) : FromFile(mem, u, prog)
    BY <1>1, <1>2, DoneSteps, Zenon
  <1>5. v \in ImagePages(prog)
    BY <1>2, <1>3, RelocationAssumption, Zenon
  <1>6. mem' = IF Relative(e) THEN Store(mem, e.frame + o, <<Word(e.frame + o)>>) ELSE mem
    BY <1>1, Zenon DEF Patch, Relative
  <1> HIDE DEF o
  <1>7. x \in Nat
    BY <1>3
  <1> HIDE DEF x
  <1>8. e \in Words /\ (Relative(e) => e \in FileWords(prog))
    <2> DEFINE f == To(Leaf(mem, v))
               i == x % Fan
    <2>1. i \in Idx
      BY <1>7, BootTables, DivMod, Zenon DEF Idx
    <2>2. FromFile(mem, v, prog)
      BY <1>4, <1>5, Zenon
    <2>3. f \in Frames /\ mem \in Mem
      <3>1. v \in Virtual /\ Moved(mem, v)
        BY <2>2, Zenon DEF FromFile
      <3> HIDE DEF v
      <3> QED BY <3>1, ManagedFrames, Zenon DEF Sound, Tree, Apart, InUse
    <2>4. e = WordAt(mem, f, i)
      BY Zenon DEF Fetch, To
    <2>5. e = At(mem, f, i) /\ e \in Words
      <3> HIDE DEF e, f, i
      <3> QED BY <2>1, <2>3, <2>4, AtWord, Zenon
    <2>6. \A j \in Idx : Relative(At(mem, f, j)) => At(mem, f, j) \in FileWords(prog)
      <3> HIDE DEF v
      <3> QED BY <2>2, Zenon DEF FromFile
    <2> HIDE DEF e, f, i
    <2> QED BY <2>1, <2>5, <2>6, Zenon
  <1> HIDE DEF e, v
  <1>9. /\ Steps(mem, free, kstack, lvl, mem', free, kstack)
        /\ Clean(mem', free)
        /\ \A u : FromFile(mem, u, prog) => FromFile(mem', u, prog)
    <2>1. CASE ~Relative(e)
      <3>1. mem' = mem
        BY <1>6, <2>1, Zenon
      <3> QED BY <1>2, <3>1, SameSteps, Zenon
    <2>2. CASE Relative(e)
      <3> DEFINE y == e.frame + o
                 ws == <<Word(y)>>
      <3>1. y \in Nat
        BY <1>3, <1>8 DEF Words
      <3>2. y \div Fan \in ImagePages(prog)
        <4>1. PICK k \in DOMAIN prog.segs : \E r \in DOMAIN prog.segs[k].file : prog.segs[k].file[r] = e
          BY <1>8, <2>2, Zenon DEF FileWords
        <4>2. PICK r \in DOMAIN prog.segs[k].file : prog.segs[k].file[r] = e
          BY <4>1, Zenon
        <4>3. "R" \in prog.segs[k].file[r].flags
          BY <2>2, <4>2, Zenon DEF Relative
        <4>4. (prog.segs[k].file[r].frame + LoadOffset(prog)) \div Fan \in ImagePages(prog)
          BY <1>2, <1>3, <4>3, RelocationAssumption, Zenon
        <4> QED BY <4>2, <4>4, Zenon DEF o
      <3> HIDE DEF y
      <3>3. DOMAIN ws = {1} /\ ws[1] = Word(y)
        OBVIOUS
      <3> HIDE DEF ws
      <3>4. Word(y) \in Words /\ ~Relative(Word(y))
        BY <3>1, Zenon DEF Word, Entry, Words, Relative
      <3>5. Aimed(mem, y, ws)
        <4>1. y + 1 - 1 = y
          BY <3>1
        <4>2. FromFile(mem, y \div Fan, prog)
          BY <1>4, <3>2, Zenon
        <4>3. y \div Fan \in Virtual /\ Moved(mem, y \div Fan)
          BY <4>2, Zenon DEF FromFile
        <4> QED BY <3>3, <3>4, <4>1, <4>3, Zenon DEF Aimed
      <3>6. \A n \in DOMAIN ws : Relative(ws[n]) => ws[n] \in FileWords(prog)
        BY <3>3, <3>4, Zenon
      <3>7. mem' = Store(mem, y, ws)
        BY <1>6, <2>2, Zenon DEF y, ws
      <3> QED BY <1>2, <3>5, <3>6, <3>7, StoreLoads, Zenon
    <2> QED BY <2>1, <2>2, Zenon
  <1>10. ASSUME NEW u \in Done(prog', seg', page') PROVE FromFile(mem', u, prog')
    <2>1. u \in Done(prog, seg, page)
      BY <1>1, <1>2, <1>10, DoneSteps, Zenon
    <2> QED BY <1>1, <1>2, <1>9, <2>1, Zenon
  <1>11. prog' \in Programs /\ seg' \in Nat \ {0} /\ page' \in Nat
    BY <1>1, <1>2
  <1> QED BY <1>1, <1>9, <1>10, <1>11, Zenon DEF Loading

(* The kernel stack takes a frame, and the one before is the frame lost.    *)
LEMMA KernelStackKeeps ==
  ASSUME Loading, NEW lvl \in [Frames -> 0..4], Sound(mem, free, kstack, lvl), KernelStack
  PROVE  Loading' /\ Steps(mem, free, kstack, lvl, mem', free', kstack')
  <1>1. /\ page' = 0 /\ mem' = mem /\ prog' = prog /\ seg' = seg /\ phase' # "load"
    BY Zenon DEF KernelStack
  <1>2. prog \in Programs /\ seg \in Nat \ {0} /\ Clean(mem, free)
    BY Zenon DEF Loading
  <1>3. CASE free = << >>
    <2>1. free' = free /\ kstack' = kstack
      BY <1>3, Zenon DEF KernelStack
    <2>2. Steps(mem, free, kstack, lvl, mem', free', kstack')
      BY <1>1, <2>1, SameSteps, Zenon
    <2> QED BY <1>1, <1>2, <2>1, <2>2, Zenon DEF Loading
  <1>4. CASE free # << >>
    <2>1. kstack' = Head(free) /\ free' = Tail(free)
      BY <1>4, Zenon DEF KernelStack
    <2>2. Steps(mem, free, kstack, lvl, mem', free', kstack')
      BY <1>1, <1>4, <2>1, StackSteps, Zenon
    <2>3. FreeSet(free') \subseteq FreeSet(free)
      BY <1>4, <2>1, TakeFrame, Zenon DEF Sound
    <2>4. Clean(mem', free')
      BY <1>1, <1>2, <2>3, Zenon DEF Clean
    <2> QED BY <1>1, <1>2, <2>2, <2>4, Zenon DEF Loading
  <1> QED BY <1>3, <1>4, Zenon

(* from_elf returns, or nothing happens.                                    *)
LEMMA FinishKeeps ==
  ASSUME Loading, NEW lvl \in [Frames -> 0..4], Sound(mem, free, kstack, lvl),
         Finish \/ UNCHANGED vars
  PROVE  Loading' /\ Steps(mem, free, kstack, lvl, mem', free', kstack')
  <1>1. mem' = mem /\ free' = free /\ kstack' = kstack /\ prog' = prog /\ seg' = seg /\ page' = page
    BY Zenon DEF Finish, vars
  <1>2. phase' = "idle" \/ phase' = phase
    BY Zenon DEF Finish, vars
  <1>3. Steps(mem, free, kstack, lvl, mem', free', kstack')
    BY <1>1, SameSteps, Zenon
  <1> QED BY <1>1, <1>2, <1>3, Zenon DEF Loading

(* The device's page leads to its own address, so no frame is taken for it. *)
LEMMA MapDeviceKeeps ==
  ASSUME Loading, NEW lvl \in [Frames -> 0..4], Sound(mem, free, kstack, lvl), MapDevice
  PROVE  /\ Loading' /\ Steps(mem, free, kstack, lvl, mem', free', kstack')
         /\ \A u \in Virtual : Moved(mem, u) => SamePage(mem, mem', u)
  <1> DEFINE r == map_page(mem, free, Device, Device, {"P", "W"})
             w == Entry(Device, {"P", "W"} \cup {"P"})
  <1>1. /\ phase = "idle" /\ translate(mem, Device) = {}
        /\ mem' = r.mem /\ free' = r.free
        /\ phase' = phase /\ prog' = prog /\ seg' = seg /\ page' = page /\ kstack' = kstack
    BY Zenon DEF MapDevice
  <1>2. Device \in Virtual /\ Device \notin Managed /\ Device \in Nat
    BY PagesVirtual, Zenon
  <1>3. Tree(mem, lvl) /\ Identity(mem) /\ Spare(free, lvl)
    BY Zenon DEF Sound
  <1>4. ~Present(Leaf(mem, Device))
    <2>1. translate(mem, Device) = IF Present(Leaf(mem, Device)) THEN {To(Leaf(mem, Device))} ELSE {}
      BY <1>2, <1>3, TranslateExact, Zenon
    <2> QED BY <1>1, <2>1, Zenon
  <1>5. w \in Words /\ To(w) = Device
    BY <1>2, EntryWord, FlagsAreFlags, Zenon
  <1>6. Maps(r, mem, free, lvl, Device, w)
    BY <1>2, <1>3, <1>5, MapPage, Zenon
  <1> HIDE DEF r, w
  <1>7. PICK m2, fr2, ok : \E lvl2 \in [Frames -> 0..4] :
           IsResult(r, m2, fr2, ok) /\ Mapped(mem, free, lvl, Device, w, m2, fr2, ok, lvl2)
    BY <1>6, Zenon DEF Maps
  <1>8. PICK lvl2 \in [Frames -> 0..4] :
           IsResult(r, m2, fr2, ok) /\ Mapped(mem, free, lvl, Device, w, m2, fr2, ok, lvl2)
    BY <1>7, Zenon
  <1>9. ok \in BOOLEAN /\ mem' = m2 /\ free' = fr2
    BY <1>1, <1>8, Zenon DEF IsResult
  <1>10. /\ Sound(m2, fr2, kstack, lvl2) /\ OneLeaf(mem, m2)
         /\ OneLost(mem, free, kstack, lvl, m2, fr2, kstack, lvl2)
    BY <1>2, <1>4, <1>5, <1>8, <1>9, HomeSteps, Zenon
  <1>11. Steps(mem, free, kstack, lvl, mem', free', kstack')
    BY <1>1, <1>9, <1>10, Zenon DEF Steps
  <1>12. Clean(mem', free')
    <2>1. /\ \A g \in Frames, i \in Idx : lvl2[g] = 0 => At(m2, g, i) = At(mem, g, i)
          /\ FreeSet(fr2) \subseteq FreeSet(free) /\ Spare(fr2, lvl2)
      BY <1>8, Zenon DEF Mapped
    <2>2. \A g \in FreeSet(fr2) : g \in Frames /\ lvl2[g] = 0
      BY <2>1, SpareFacts, Zenon
    <2>3. Clean(mem, free)
      BY Zenon DEF Loading
    <2> QED BY <1>9, <2>1, <2>2, <2>3, Zenon DEF Clean
  <1>13. ASSUME NEW u \in Virtual, Moved(mem, u) PROVE SamePage(mem, mem', u)
    <2> DEFINE g == To(Leaf(mem, u))
    <2>1. u # Device
      BY <1>4, <1>13, Zenon DEF Moved
    <2>2. InUse(g, free, lvl)
      BY <1>13, Zenon DEF Sound, Apart
    <2> HIDE DEF g
    <2>3. lvl2[g] = 0 /\ g \in Frames
      BY <1>8, <2>2, InUseKept, Zenon
    <2>4. Leaf(m2, u) = Leaf(mem, u) /\ \A i \in Idx : At(m2, g, i) = At(mem, g, i)
      BY <1>8, <2>1, <2>3, Zenon DEF Mapped
    <2> QED BY <1>9, <2>4, Zenon DEF SamePage, g
  <1> QED BY <1>1, <1>11, <1>12, <1>13, Zenon DEF Loading

(* A page of a program is unmapped: its frame is the one lost.              *)
LEMMA UnmapKeeps ==
  ASSUME Loading, NEW lvl \in [Frames -> 0..4], Sound(mem, free, kstack, lvl),
         NEW v \in Pages, Unmap(v)
  PROVE  Loading' /\ Steps(mem, free, kstack, lvl, mem', free', kstack')
  <1>1. /\ phase = "idle" /\ v \in Remapped(mem) /\ mem' = unmap_page(mem, v)
        /\ free' = free /\ phase' = phase /\ prog' = prog /\ seg' = seg /\ page' = page
        /\ kstack' = kstack
    BY Zenon DEF Unmap
  <1>2. v \in Virtual /\ Moved(mem, v)
    BY <1>1, PagesVirtual, Zenon DEF Remapped, Moved, To
  <1>3. Steps(mem, free, kstack, lvl, mem', free', kstack')
    BY <1>1, <1>2, UnmapSteps, Zenon
  <1>4. Clean(mem', free')
    <2>1. Clean(mem, free) /\ \A f \in FreeSet(free) : f \in Frames /\ lvl[f] = 0
      BY SpareFacts, Zenon DEF Loading, Sound
    <2>2. \A f \in Frames, i \in Idx : lvl[f] = 0 => At(mem', f, i) = At(mem, f, i)
      BY <1>1, <1>2, UnmapSteps, Zenon
    <2> QED BY <1>1, <2>1, <2>2, Zenon DEF Clean
  <1> QED BY <1>1, <1>3, <1>4, Zenon DEF Loading

-----------------------------------------------------------------------------
(* The boot code's tables.                                                  *)

(* In them a page that leads anywhere leads to the frame of its own number, *)
(* and every frame's does.                                                  *)
LEMMA BootHome ==
  /\ \A v \in Virtual : ~Moved(BootMemory, v)
  /\ Identity(BootMemory)
  <1> DEFINE m == BootMemory
             lvl == BootLevels
  <1>1. Tree(m, lvl)
    BY BootTree, Zenon
  <1>2. \A f \in Frames : lvl[f] # 1
    BY BootTables DEF BootLevels
  <1>3. At(m, Pml4, 0) = Linked(Pdpt) /\ At(m, Pdpt, 0) = Linked(Pd)
    BY <1>1, Zenon DEF Tree, Root
  <1>4. \A i \in Idx : At(m, Pd, i) = BootPage(i)
    BY BootAt, BootTables, Zenon
  <1> HIDE DEF m, lvl
  <1>5. ASSUME NEW v \in Virtual PROVE ~Moved(m, v)
    <2>1. v \in Nat /\ WalkLow(m, lvl, v)
      BY <1>1, WalkInTree, PagesVirtual, Zenon DEF Walk
    <2>2. ~Link(E2(m, v))
      BY <1>2, <2>1, Zenon DEF WalkLow
    <2>3. CASE Present(E2(m, v))
      <3>1. Huge(E2(m, v))
        BY <2>2, <2>3, Zenon DEF Link
      <3>2. To(Leaf(m, v)) = v
        BY <1>1, <2>3, <3>1, HugeIdentity, Zenon
      <3> QED BY <3>2, Zenon DEF Moved
    <2>4. CASE ~Present(E2(m, v))
      BY <2>1, <2>4, WordFacts, Zenon DEF WalkLow, Moved
    <2> QED BY <2>3, <2>4, Zenon
  <1>6. ASSUME NEW f \in Managed PROVE To(Leaf(m, f)) = f /\ Present(Leaf(m, f))
    <2>1. f \in Nat /\ f \in Virtual /\ pml4_index(f) = 0 /\ pdpt_index(f) = 0 /\ pd_index(f) \in Idx
      BY ManagedFrames, FrameDigits, Digits, Zenon
    <2>2. WalkTop(m, lvl, f) /\ WalkMid(m, lvl, f) /\ WalkLow(m, lvl, f)
      BY <1>1, <2>1, WalkInTree, Zenon DEF Walk
    <2>3. Pdpt \in Nat /\ Pd \in Nat
      BY BootTables, Zenon
    <2>4. E4(m, f) = Linked(Pdpt) /\ Present(E4(m, f)) /\ To(E4(m, f)) = Pdpt
      BY <1>3, <2>1, <2>2, <2>3, WordFacts DEF WalkTop
    <2>5. E3(m, f) = Linked(Pd) /\ Present(E3(m, f)) /\ To(E3(m, f)) = Pd
      BY <1>3, <2>1, <2>2, <2>3, <2>4, WordFacts, Zenon DEF WalkTop
    <2>6. E2(m, f) = BootPage(pd_index(f))
      BY <1>4, <2>1, <2>2, <2>5, Zenon DEF WalkMid
    <2>7. Present(E2(m, f)) /\ Huge(E2(m, f))
      BY <2>1, <2>6, BootPages, Zenon
    <2>8. Leaf(m, f) = Piece(E2(m, f), pt_index(f))
      BY <2>2, <2>7, Zenon DEF WalkLow
    <2>9. Present(Leaf(m, f))
      BY <2>7, <2>8 DEF Piece, Present, Entry
    <2> QED BY <1>1, <2>1, <2>7, <2>9, HugeIdentity, Zenon
  <1> QED BY <1>5, <1>6, Zenon DEF Identity, m

(* The boot code's tables are a tree of levels.                             *)
LEMMA InitAInv == Init => AInv
  <1> SUFFICES ASSUME Init PROVE AInv
    BY Zenon
  <1> DEFINE lvl == BootLevels
  <1>1. /\ mem = BootMemory /\ free \in FreeLists /\ phase = "idle" /\ seg = 1 /\ page = 0
        /\ kstack = 0 /\ prog = CHOOSE p \in Programs : TRUE
    BY Zenon DEF Init, PagingInit
  <1>2. prog \in Programs
    BY <1>1, ProgramsAssumption, Zenon
  <1>3. /\ free \in Seq(Frames \ {0, Pml4, Pdpt, Pd})
        /\ \A j, k \in DOMAIN free : free[j] = free[k] => j = k
    BY <1>1, PagingAssumption, Zenon
  <1>4. \A j \in DOMAIN free : free[j] \in Frames /\ free[j] \notin {Pml4, Pdpt, Pd} /\ free[j] \in Managed
    <2>1. \A j \in DOMAIN free : free[j] \in FreeSet(free)
      BY Zenon DEF FreeSet
    <2>2. \A j \in DOMAIN free : free[j] \in Frames \ {0, Pml4, Pdpt, Pd}
      BY <1>3
    <2> QED BY <1>1, <2>1, <2>2, Zenon DEF Managed
  <1>5. free \in Seq(Managed)
    <2>1. free \in [1..Len(free) -> Managed] /\ Len(free) \in Nat
      BY <1>3, <1>4
    <2> QED BY <2>1
  <1>6. /\ lvl \in [Frames -> 0..4]
        /\ \A f \in Frames : f \notin {Pml4, Pdpt, Pd} => lvl[f] = 0
    BY DEF BootLevels
  <1>7. Spare(free, lvl)
    <2>1. {Pml4, Pdpt, Pd} \subseteq Managed
      BY Zenon DEF Managed
    <2> HIDE DEF lvl
    <2>2. \A j \in DOMAIN free : lvl[free[j]] = 0
      BY <1>4, <1>6, Zenon
    <2>3. \A f \in Frames : lvl[f] > 0 => f \in Managed
      BY <1>6, <2>1
    <2> QED BY <1>3, <1>5, <2>2, <2>3, Zenon DEF Spare
  <1>8. Sound(mem, free, kstack, lvl)
    <2>1. Apart(mem, free, kstack, lvl)
      BY <1>1, BootHome, Zenon DEF Apart
    <2> QED BY <1>1, <1>7, <2>1, BootTree, BootHome, Zenon DEF Sound
  <1>9. Clean(mem, free)
    <2>1. \A f \in FreeSet(free) : f \in Frames /\ f \notin {Pml4, Pdpt, Pd}
      BY <1>4, Zenon DEF FreeSet
    <2> QED BY <1>1, <2>1, BootAt, BootPages, Zenon DEF Clean
  <1>10. Loading
    BY <1>1, <1>2, <1>9 DEF Loading
  <1> HIDE DEF lvl
  <1> QED BY <1>6, <1>8, <1>10, Zenon DEF AInv

-----------------------------------------------------------------------------
(* Every step.                                                              *)

(* Whatever the step, the invariant goes on, one page changes and one frame *)
(* is lost at most.                                                         *)
LEMMA NextKeeps ==
  ASSUME Loading, NEW lvl \in [Frames -> 0..4], Sound(mem, free, kstack, lvl), [Next]_vars
  PROVE  Loading' /\ Steps(mem, free, kstack, lvl, mem', free', kstack')
  <1>1. ASSUME NEW p \in Programs, Start(p)
        PROVE  Loading' /\ Steps(mem, free, kstack, lvl, mem', free', kstack')
    BY <1>1, StartKeeps, Zenon
  <1>2. CASE LoadPage
    BY <1>2, LoadPageKeeps, Zenon
  <1>3. CASE CopySegment
    BY <1>3, CopySegmentKeeps
  <1>4. CASE apply_relocations
    BY <1>4, RelocationsKeep
  <1>5. CASE KernelStack
    BY <1>5, KernelStackKeeps
  <1>6. CASE StackPage
    BY <1>6, StackPageKeeps
  <1>7. CASE Finish \/ UNCHANGED vars
    BY <1>7, FinishKeeps, Zenon
  <1>8. CASE MapDevice
    BY <1>8, MapDeviceKeeps, Zenon
  <1>9. ASSUME NEW v \in Pages, Unmap(v)
        PROVE  Loading' /\ Steps(mem, free, kstack, lvl, mem', free', kstack')
    BY <1>9, UnmapKeeps
  <1> QED BY <1>1, <1>2, <1>3, <1>4, <1>5, <1>6, <1>7, <1>8, <1>9, Zenon DEF Next

(* The invariant is inductive.                                              *)
LEMMA NextAInv == AInv /\ [Next]_vars => AInv'
  <1> SUFFICES ASSUME AInv, [Next]_vars PROVE AInv'
    BY Zenon
  <1>1. PICK lvl \in [Frames -> 0..4] : Sound(mem, free, kstack, lvl)
    BY Zenon DEF AInv
  <1>2. Loading' /\ Steps(mem, free, kstack, lvl, mem', free', kstack')
    BY <1>1, NextKeeps, Zenon DEF AInv
  <1>3. \E lvl2 \in [Frames -> 0..4] : Sound(mem', free', kstack', lvl2)
    BY <1>2, Zenon DEF Steps
  <1> QED BY <1>2, <1>3, Zenon DEF AInv

(* The invariant holds of every reachable state.                            *)
THEOREM AlwaysAInv == Spec => []AInv
  BY InitAInv, NextAInv, PTL DEF Spec

(* The frames someone can reach, from one tree of levels.                   *)
LEMMA ReachedIs ==
  ASSUME NEW m, NEW fr, NEW k, NEW lvl, Tree(m, lvl), NEW f
  PROVE  f \in Reached(m, fr, k) <=> Holds(f, m, fr, k, lvl)
  <1>1. f \in Tables(m) <=> f \in Frames /\ lvl[f] > 0
    BY TablesAre, Zenon
  <1>2. f \in {Leaf(m, v).frame : v \in Remapped(m)}
          <=> \E u \in Pages : Moved(m, u) /\ To(Leaf(m, u)) = f
    BY Zenon DEF Remapped, Moved, To
  <1>3. f \in Reached(m, fr, k)
          <=> \/ f \in FreeSet(fr) \/ f \in Tables(m) \/ f = k
              \/ f \in {Leaf(m, v).frame : v \in Remapped(m)}
    BY Zenon DEF Reached
  <1> QED BY <1>1, <1>2, <1>3, Zenon DEF Holds

(* Every table is at its own address.                                       *)
LEMMA TreeTables == AInv => TablesAtIdentity
  <1> SUFFICES ASSUME AInv, NEW f \in Tables(mem)
               PROVE  Leaf(mem, f).frame = f /\ Present(Leaf(mem, f))
    BY Zenon DEF TablesAtIdentity
  <1>1. PICK lvl \in [Frames -> 0..4] : Sound(mem, free, kstack, lvl)
    BY Zenon DEF AInv
  <1>2. f \in Frames /\ lvl[f] > 0
    BY <1>1, TablesAre, Zenon DEF Sound
  <1>3. f \in Managed
    BY <1>1, <1>2, Zenon DEF Sound, Spare
  <1> QED BY <1>1, <1>3, Zenon DEF Sound, Identity, To

(* The frames of different uses are apart.                                  *)
LEMMA TreePrivate == AInv => PagesArePrivate
  <1> SUFFICES ASSUME AInv PROVE PagesArePrivate
    BY Zenon
  <1>1. PICK lvl \in [Frames -> 0..4] : Sound(mem, free, kstack, lvl)
    BY Zenon DEF AInv
  <1>2. \A f : f \in Tables(mem) <=> f \in Frames /\ lvl[f] > 0
    BY <1>1, TablesAre, Zenon DEF Sound
  <1>3. \A v \in Remapped(mem) : v \in Virtual /\ Moved(mem, v)
    BY LayoutAssumption, Zenon DEF Remapped, Moved, To
  <1>4. \A f \in FreeSet(free) : f \in Managed /\ lvl[f] = 0
    BY <1>1 DEF Sound, Spare, FreeSet
  <1>5. \A f \in Tables(mem) : f \in Managed /\ lvl[f] > 0
    BY <1>1, <1>2, Zenon DEF Sound, Spare
  <1>6. 0 \notin Managed
    BY ManagedFrames, Zenon
  <1>7. kstack = 0 \/ (lvl[kstack] = 0 /\ kstack \notin FreeSet(free))
    BY <1>1, Zenon DEF Sound, Apart, InUse
  <1>8. \A u, v \in Remapped(mem) : Leaf(mem, u).frame = Leaf(mem, v).frame => u = v
    BY <1>1, <1>3, Zenon DEF Sound, Apart, To
  <1>9. ASSUME NEW v \in Remapped(mem)
        PROVE  Leaf(mem, v).frame \notin Tables(mem) \cup {kstack} \cup FreeSet(free)
    <2>1. InUse(To(Leaf(mem, v)), free, lvl) /\ To(Leaf(mem, v)) # kstack
      BY <1>1, <1>3, Zenon DEF Sound, Apart
    <2>2. lvl[To(Leaf(mem, v))] = 0 /\ To(Leaf(mem, v)) \notin FreeSet(free)
      BY <2>1, Zenon DEF InUse
    <2> QED BY <1>5, <2>1, <2>2 DEF To
  <1>10. (Tables(mem) \cup {kstack}) \cap FreeSet(free) = {}
    BY <1>4, <1>5, <1>6, <1>7
  <1>11. kstack \notin Tables(mem)
    BY <1>5, <1>6, <1>7
  <1> QED BY <1>8, <1>9, <1>10, <1>11, Zenon DEF PagesArePrivate

(* The pages of a slice are those of its words.                             *)
LEMMA SlicePagesAre ==
  ASSUME NEW ptr \in Nat, NEW len \in Nat \ {0}
  PROVE  \A v : v \in SlicePages(ptr, len) <=> \E a \in ptr..(ptr + len - 1) : a \div Fan = v
  <1> DEFINE l == ptr + len - 1
             q == ptr \div Fan
             r == l \div Fan
  <1>1. l \in Nat /\ ptr <= l /\ Fan \in Nat \ {0}
    BY BootTables
  <1>2. SlicePages(ptr, len) = q..r
    BY Zenon DEF SlicePages
  <1>3. /\ q \in Nat /\ r \in Nat
        /\ ptr = (q * Fan) + (ptr % Fan) /\ l = (r * Fan) + (l % Fan)
        /\ ptr % Fan \in 0..(Fan - 1) /\ l % Fan \in 0..(Fan - 1)
    BY <1>1, DivMod, Zenon
  <1> HIDE DEF q, r, l
  <1>4. ASSUME NEW a \in ptr..l PROVE a \div Fan \in q..r
    <2>1. a \in Nat /\ ptr <= a /\ a <= l
      BY <1>1
    <2>2. q <= a \div Fan /\ a \div Fan <= r
      BY <1>1, <2>1, DivMono, Zenon DEF q, r
    <2> QED BY <1>1, <1>3, <2>1, <2>2, DivMod
  <1>5. ASSUME NEW v \in q..r PROVE \E a \in ptr..l : a \div Fan = v
    <2>1. CASE v = q
      BY <1>1, <2>1 DEF q
    <2>2. CASE v # q
      <3>1. v \in Nat /\ q + 1 <= v /\ v <= r
        BY <1>3, <2>2
      <3>2. (q + 1) * Fan <= v * Fan /\ v * Fan <= r * Fan
        BY <1>1, <1>3, <3>1, SMT
      <3>3. (q + 1) * Fan = (q * Fan) + Fan
        BY <1>1, <1>3, SMT
      <3>4. v * Fan \in Nat /\ q * Fan \in Nat /\ r * Fan \in Nat
        BY <1>1, <1>3, <3>1, SMT
      <3>5. v * Fan \in ptr..l
        BY <1>1, <1>3, <3>2, <3>3, <3>4
      <3>6. (v * Fan) \div Fan = v
        BY <1>1, <3>1, SMT
      <3> QED BY <3>5, <3>6, Zenon
    <2> QED BY <2>1, <2>2, Zenon
  <1> QED BY <1>2, <1>4, <1>5, Zenon DEF l

(* A slice is checked word by word.                                         *)
LEMMA TreeSlices == AInv => SlicesExact
  <1> SUFFICES ASSUME AInv, NEW ptr \in Ptrs, NEW len \in Lens,
                      NEW words, words = ptr..(ptr + len - 1)
               PROVE  /\ validate_user_slice(mem, ptr, len)
                           <=> ptr # 0 /\ \A a \in words : a < UserMax /\ {"P"} \subseteq Leaf(mem, a \div Fan).flags
                      /\ validate_user_slice_mut(mem, ptr, len)
                           <=> ptr # 0 /\ \A a \in words : a < UserMax /\ {"P", "W"} \subseteq Leaf(mem, a \div Fan).flags
    BY Zenon DEF SlicesExact, validate_user_slice, validate_user_slice_mut
  <1>1. PICK lvl \in [Frames -> 0..4] : Sound(mem, free, kstack, lvl)
    BY Zenon DEF AInv
  <1>2. ptr \in Nat /\ len \in Nat /\ UserMax \in Nat /\ AddrSpace \in Nat /\ UserMax < AddrSpace
    BY LayoutAssumption, Zenon
  <1>3. CASE len = 0
    <2>1. words = {}
      BY <1>2, <1>3
    <2>2. BadAddress(ptr, len) <=> ptr = 0
      BY <1>3, Zenon DEF BadAddress
    <2> QED BY <1>3, <2>1, <2>2, Zenon DEF validate_user_slice, validate_user_slice_mut
  <1>4. CASE len # 0
    <2>1. ~BadAddress(ptr, len) <=> ptr # 0 /\ \A a \in words : a < UserMax
      <3>1. (\A a \in words : a < UserMax) <=> ptr + len <= UserMax
        <4>1. ptr + len - 1 \in words
          BY <1>2, <1>4
        <4>2. ASSUME \A a \in words : a < UserMax PROVE ptr + len <= UserMax
          BY <1>2, <4>1, <4>2
        <4>3. ASSUME ptr + len <= UserMax, NEW a \in words PROVE a < UserMax
          BY <1>2, <4>3
        <4> QED BY <4>2, <4>3, Zenon
      <3> QED BY <1>2, <1>4, <3>1 DEF BadAddress
    <2>2. \A v : v \in SlicePages(ptr, len) <=> \E a \in words : a \div Fan = v
      BY <1>2, <1>4, SlicePagesAre
    <2>3. \A v \in SlicePages(ptr, len) :
            /\ translate(mem, v) # {} <=> {"P"} \subseteq Leaf(mem, v).flags
            /\ {"P", "W"} \subseteq translate_flags(mem, v) <=> {"P", "W"} \subseteq Leaf(mem, v).flags
      <3> SUFFICES ASSUME NEW v \in SlicePages(ptr, len)
                   PROVE  /\ translate(mem, v) # {} <=> {"P"} \subseteq Leaf(mem, v).flags
                          /\ {"P", "W"} \subseteq translate_flags(mem, v) <=> {"P", "W"} \subseteq Leaf(mem, v).flags
        BY Zenon
      <3>1. PICK a \in words : a \div Fan = v
        BY <2>2, Zenon
      <3>2. a \in Nat /\ Fan \in Nat \ {0}
        BY <1>2, BootTables
      <3>3. v \in Nat
        BY <3>1, <3>2, DivMod, Zenon
      <3>4. /\ translate(mem, v) = IF Present(Leaf(mem, v)) THEN {To(Leaf(mem, v))} ELSE {}
            /\ {"P", "W"} \subseteq translate_flags(mem, v) <=> {"P", "W"} \subseteq Leaf(mem, v).flags
        BY <1>1, <3>3, TranslateExact, Zenon DEF Sound
      <3>5. Present(Leaf(mem, v)) <=> {"P"} \subseteq Leaf(mem, v).flags
        BY Zenon DEF Present
      <3> QED BY <3>4, <3>5, Zenon
    <2> HIDE DEF SlicePages
    <2>4. (\A v \in SlicePages(ptr, len) : translate(mem, v) # {})
            <=> \A a \in words : {"P"} \subseteq Leaf(mem, a \div Fan).flags
      BY ONLY <2>2, <2>3, Zenon
    <2>5. (\A v \in SlicePages(ptr, len) : {"P", "W"} \subseteq translate_flags(mem, v))
            <=> \A a \in words : {"P", "W"} \subseteq Leaf(mem, a \div Fan).flags
      BY ONLY <2>2, <2>3, Zenon
    <2> QED BY ONLY <1>4, <2>1, <2>4, <2>5, Zenon DEF validate_user_slice, validate_user_slice_mut
  <1> QED BY <1>3, <1>4, Zenon


-----------------------------------------------------------------------------
(* The image of a program.                                                  *)

(* Word k of segment j: where it is linked to be, where it is loaded, and   *)
(* what the segment has there.                                              *)
Addr(p, j, k) == p.segs[j].vaddr + k - 1

Slot(p, j, k) == p.segs[j].vaddr + LoadOffset(p) + k - 1

SegWord(p, j, k) == SegWords(p.segs[j])[k]

(* Some relocation entry names address a, or one of the table's first n.    *)
Relocated(p, a) ==
  /\ LoadOffset(p) # 0
  /\ \E t \in DOMAIN p.segs : \E r \in DOMAIN p.segs[t].file :
       p.segs[t].file[r] = RelativeEntry(a)

Applied(p, a, n) ==
  /\ LoadOffset(p) # 0
  /\ \E t \in DOMAIN p.segs : \E r \in DOMAIN p.segs[t].file :
       p.segs[t].file[r] = RelativeEntry(a) /\ Addr(p, t, r) < p.rela + n

(* The word is in memory, patched for certain by the first n entries.       *)
Copied(m, p, j, k, n) ==
  /\ \/ Fetch(m, Slot(p, j, k)) = SegWord(p, j, k)
     \/ Relocated(p, Addr(p, j, k)) /\ Fetch(m, Slot(p, j, k)) = Word(Slot(p, j, k))
  /\ Applied(p, Addr(p, j, k), n) => Fetch(m, Slot(p, j, k)) = Word(Slot(p, j, k))

(* So are the segments before sg.                                           *)
CopiedTo(m, p, sg, n) ==
  PageDisjoint(p) =>
    \A j \in DOMAIN p.segs : j < sg => \A k \in 1..p.segs[j].memsz : Copied(m, p, j, k, n)

(* Every page of the program is mapped and every word in place.             *)
Whole(m, p) ==
  /\ \A v \in ImagePages(p) : Moved(m, v)
  /\ PageDisjoint(p) =>
       \A j \in DOMAIN p.segs : \A k \in 1..p.segs[j].memsz :
         Fetch(m, Slot(p, j, k)) = ImageWord(p, p.segs[j], k)

(* The entries of the table that have been applied.                         *)
Applying == IF seg \in DOMAIN prog.segs THEN 0 ELSE page

(* What a load has put in place, step by step.                              *)
CInv ==
  /\ phase = "load" => CopiedTo(mem, prog, seg, Applying)
  /\ phase = "stack" => Whole(mem, prog)
  /\ \A p \in image : phase = "idle" /\ p \in Programs /\ Whole(mem, p)

(* A word of a segment is in one of its pages.                              *)
LEMMA SlotFacts ==
  ASSUME NEW p \in Programs, NEW j \in DOMAIN p.segs, NEW k \in 1..p.segs[j].memsz
  PROVE  /\ Slot(p, j, k) \in Nat /\ Addr(p, j, k) \in Nat
         /\ Slot(p, j, k) = Addr(p, j, k) + LoadOffset(p)
         /\ Slot(p, j, k) \div Fan \in SegPages(p, j)
         /\ Slot(p, j, k) \div Fan \in ImagePages(p)
  <1> DEFINE a == p.segs[j].vaddr
             z == p.segs[j].memsz
             o == LoadOffset(p)
  <1>1. Slot(p, j, k) \in Nat /\ Slot(p, j, k) \div Fan \in SegPages(p, j)
    BY SegmentPages, Zenon DEF Slot
  <1>2. Slot(p, j, k) \div Fan \in ImagePages(p)
    BY <1>1, Zenon DEF ImagePages
  <1>3. a \in Nat /\ z \in Nat /\ o \in Nat /\ k \in 1..z
    BY ProgramFacts, Zenon
  <1>4. Slot(p, j, k) = a + o + k - 1 /\ Addr(p, j, k) = a + k - 1
    BY Zenon DEF Slot, Addr
  <1> HIDE DEF a, z, o
  <1>5. Addr(p, j, k) \in Nat /\ Slot(p, j, k) = Addr(p, j, k) + o
    BY ONLY <1>3, <1>4
  <1> QED BY <1>1, <1>2, <1>5, Zenon DEF o

(* The pages of a program are pages that from_elf maps.                     *)
LEMMA ImageVirtual ==
  ASSUME NEW p \in Programs, NEW v \in ImagePages(p)
  PROVE  v \in Virtual /\ v \notin Managed /\ v \in Nat
         /\ v \notin StackBase..(StackBase + StackPages - 1)
  <1>1. v \in UserPages
    BY Zenon DEF UserPages
  <1>2. v \notin StackBase..(StackBase + StackPages - 1)
    BY LayoutAssumption, Zenon
  <1> QED BY <1>1, <1>2, PagesVirtual, Zenon

(* A page that is the same holds the same words.                            *)
LEMMA FetchKept ==
  ASSUME NEW m, NEW m2, NEW b \in Nat, SamePage(m, m2, b \div Fan)
  PROVE  Fetch(m2, b) = Fetch(m, b)
  <1> DEFINE f == To(Leaf(m, b \div Fan))
             i == b % Fan
  <1>1. i \in Idx
    BY BootTables, DivMod, Zenon DEF Idx
  <1>2. To(Leaf(m2, b \div Fan)) = f /\ At(m2, f, i) = At(m, f, i)
    BY <1>1, Zenon DEF SamePage
  <1>3. Fetch(m2, b) = WordAt(m2, f, i) /\ Fetch(m, b) = WordAt(m, f, i)
    BY <1>2, Zenon DEF Fetch, To
  <1> HIDE DEF f, i
  <1> QED BY <1>2, <1>3 DEF WordAt, At

(* The words of pages that stay the same stay in place.                     *)
LEMMA CopiedKept ==
  ASSUME NEW m, NEW m2, NEW p \in Programs, NEW sg, NEW n, CopiedTo(m, p, sg, n),
         PageDisjoint(p) =>
           \A j \in DOMAIN p.segs : j < sg => \A v \in SegPages(p, j) : SamePage(m, m2, v)
  PROVE  CopiedTo(m2, p, sg, n)
  <1> SUFFICES ASSUME PageDisjoint(p), NEW j \in DOMAIN p.segs, j < sg,
                      NEW k \in 1..p.segs[j].memsz
               PROVE  Copied(m2, p, j, k, n)
    BY Zenon DEF CopiedTo
  <1>1. Copied(m, p, j, k, n)
    BY Zenon DEF CopiedTo
  <1>2. Slot(p, j, k) \in Nat /\ SamePage(m, m2, Slot(p, j, k) \div Fan)
    BY SlotFacts, Zenon
  <1>3. Fetch(m2, Slot(p, j, k)) = Fetch(m, Slot(p, j, k))
    BY <1>2, FetchKept, Zenon
  <1> QED BY <1>1, <1>3, Zenon DEF Copied

(* And a whole program stays whole.                                         *)
LEMMA WholeKept ==
  ASSUME NEW m, NEW m2, NEW p \in Programs, Whole(m, p),
         \A v \in ImagePages(p) : SamePage(m, m2, v)
  PROVE  Whole(m2, p)
  <1>1. \A v \in ImagePages(p) : Moved(m2, v)
    BY Zenon DEF Whole, SamePage, Moved
  <1>2. ASSUME PageDisjoint(p), NEW j \in DOMAIN p.segs, NEW k \in 1..p.segs[j].memsz
        PROVE  Fetch(m2, Slot(p, j, k)) = ImageWord(p, p.segs[j], k)
    <2>1. Slot(p, j, k) \in Nat /\ SamePage(m, m2, Slot(p, j, k) \div Fan)
      BY SlotFacts, Zenon
    <2>2. Fetch(m2, Slot(p, j, k)) = Fetch(m, Slot(p, j, k))
      BY <2>1, FetchKept, Zenon
    <2> QED BY <1>2, <2>2, Zenon DEF Whole
  <1> QED BY <1>1, <1>2, Zenon DEF Whole

(* Between m and m2, the words ws were written from address a on, as seen   *)
(* at address b.                                                            *)
Written(m, m2, a, ws, b) ==
  /\ \A n \in DOMAIN ws : a + n - 1 = b => Fetch(m2, b) = ws[n]
  /\ (\A n \in DOMAIN ws : a + n - 1 # b) => Fetch(m2, b) = Fetch(m, b)

(* What a store does to a word of a page that leads elsewhere.              *)
LEMMA StoreFetch ==
  ASSUME NEW m, NEW fr, NEW kk, NEW lvl \in [Frames -> 0..4], Sound(m, fr, kk, lvl),
         NEW a \in Nat, NEW ws, Aimed(m, a, ws), DOMAIN ws \subseteq Nat \ {0},
         NEW b \in Nat, b \div Fan \in Virtual, Moved(m, b \div Fan)
  PROVE  Written(m, Store(m, a, ws), a, ws, b)
  <1> DEFINE m2 == Store(m, a, ws)
             v == b \div Fan
             f == To(Leaf(m, v))
             i == b % Fan
             Hits == {n \in DOMAIN ws : Leaf(m, (a + n - 1) \div Fan).frame = f /\ (a + n - 1) % Fan = i}
  <1>1. m \in Mem /\ Tree(m, lvl) /\ Apart(m, fr, kk, lvl)
    BY Zenon DEF Sound, Tree
  <1>2. Stored(m, m2, a, ws)
    BY <1>1, StoreStored, Zenon DEF Aimed
  <1>3. Leaf(m2, v) = Leaf(m, v)
    <2> HIDE DEF m2, v
    <2>1. SameTables(m, m2, lvl)
      BY <1>2, StoreSame, Zenon
    <2> QED BY <1>1, <2>1, DataKept, PagesVirtual, Zenon DEF v
  <1>4. i \in Idx
    BY BootTables, DivMod, Zenon DEF Idx
  <1>5. f \in Frames
    BY <1>1, ManagedFrames, Zenon DEF Apart, InUse
  <1>6. At(m2, f, i) = IF Hits = {} THEN m[f][i] ELSE ws[CHOOSE n \in Hits : TRUE]
    <2> HIDE DEF f, i
    <2> QED BY <1>4, <1>5, Zenon DEF Store, At
  <1>7. Fetch(m2, b) = At(m2, f, i) /\ Fetch(m, b) = m[f][i]
    <2>1. Fetch(m2, b) = WordAt(m2, f, i) /\ Fetch(m, b) = WordAt(m, f, i)
      BY <1>3, Zenon DEF Fetch, To
    <2> HIDE DEF f, i, m2
    <2> QED BY <1>5, <2>1, Zenon DEF WordAt, At
  <1>8. ASSUME NEW n \in DOMAIN ws PROVE n \in Hits <=> a + n - 1 = b
    <2> DEFINE c == a + n - 1
    <2>1. c \in Nat /\ c \div Fan \in Virtual /\ Moved(m, c \div Fan)
      BY DEF Aimed
    <2>2. n \in Hits <=> To(Leaf(m, c \div Fan)) = f /\ c % Fan = i
      BY Zenon DEF To
    <2> HIDE DEF c, Hits
    <2>3. To(Leaf(m, c \div Fan)) = f <=> c \div Fan = v
      BY <1>1, <2>1, Zenon DEF Apart
    <2>4. c = ((c \div Fan) * Fan) + (c % Fan) /\ b = (v * Fan) + i
      BY <2>1, BootTables, DivMod, Zenon
    <2>5. c \div Fan = v /\ c % Fan = i <=> c = b
      BY <2>4, Zenon
    <2> QED BY <2>2, <2>3, <2>5, Zenon DEF c
  <1> HIDE DEF Hits, m2, f, i
  <1>9. Hits \subseteq DOMAIN ws
    BY Zenon DEF Hits
  <1>10. ASSUME NEW n \in DOMAIN ws, a + n - 1 = b PROVE Fetch(m2, b) = ws[n]
    <2>1. n \in Hits
      BY <1>8, <1>10, Zenon
    <2>2. \A q \in Hits : q = n
      BY <1>8, <1>9, <1>10
    <2>3. (CHOOSE q \in Hits : TRUE) = n
      BY <2>1, <2>2, Zenon
    <2> QED BY <1>6, <1>7, <2>1, <2>3, Zenon
  <1>11. ASSUME \A n \in DOMAIN ws : a + n - 1 # b PROVE Fetch(m2, b) = Fetch(m, b)
    <2>1. Hits = {}
      BY <1>8, <1>9, <1>11, Zenon
    <2>2. At(m2, f, i) = m[f][i]
      BY ONLY <1>6, <2>1, Zenon
    <2> QED BY ONLY <1>7, <2>2, Zenon
  <1>12. Written(m, m2, a, ws, b)
    BY <1>10, <1>11, Zenon DEF Written
  <1> QED BY <1>12, Zenon DEF m2

(* An entry of the linker's table.                                          *)
LEMMA TableFacts ==
  ASSUME NEW p \in Programs, LoadOffset(p) # 0,
         NEW t \in DOMAIN p.segs, NEW r \in DOMAIN p.segs[t].file,
         NEW a, p.segs[t].file[r] = RelativeEntry(a)
  PROVE  /\ r \in 1..p.segs[t].memsz /\ SegWord(p, t, r) = RelativeEntry(a)
         /\ Addr(p, t, r) \in p.rela..(p.rela + Relocations(p) - 1)
         /\ ~Relocated(p, Addr(p, t, r))
  <1> DEFINE f == p.segs[t].file
             z == p.segs[t].memsz
             b == [j \in 1..(z - Len(f)) |-> Word(0)]
  <1>1. z \in Nat /\ f \in Seq(Words) /\ Len(f) \in Nat /\ Len(f) <= z /\ r \in 1..Len(f)
    BY ProgramFacts
  <1>2. RelativeEntry(a).frame = a /\ "R" \in RelativeEntry(a).flags
    BY Zenon DEF RelativeEntry, Entry
  <1>3. Addr(p, t, r) \in p.rela..(p.rela + Relocations(p) - 1)
    BY <1>2, TableAssumption, Zenon DEF Addr
  <1>4. ASSUME Relocated(p, Addr(p, t, r)) PROVE FALSE
    <2>9. PICK u \in DOMAIN p.segs : \E s \in DOMAIN p.segs[u].file :
                 p.segs[u].file[s] = RelativeEntry(Addr(p, t, r))
      BY <1>4, Zenon DEF Relocated
    <2>1. PICK s \in DOMAIN p.segs[u].file : p.segs[u].file[s] = RelativeEntry(Addr(p, t, r))
      BY <2>9, Zenon
    <2>2. p.segs[u].file[s].frame = Addr(p, t, r) /\ "R" \in p.segs[u].file[s].flags
      BY <2>1 DEF RelativeEntry, Entry
    <2>3. "R" \notin p.segs[t].file[r].flags
      BY <2>2, TableAssumption DEF Addr
    <2> QED BY <1>2, <2>3, Zenon
  <1>5. SegWord(p, t, r) = (f \o b)[r]
    BY Zenon DEF SegWord, SegWords
  <1>6. f[r] = RelativeEntry(a)
    BY Zenon
  <1> HIDE DEF f, z
  <1>7. b \in Seq({Word(0)})
    BY <1>1
  <1> HIDE DEF b
  <1>8. (f \o b)[r] = f[r] /\ r \in 1..z
    BY ONLY <1>1, <1>7
  <1> QED BY <1>3, <1>4, <1>5, <1>6, <1>8, Zenon DEF z

(* Before the first entry none is applied, and the last completes the word. *)
LEMMA AppliedEnds ==
  ASSUME NEW p \in Programs, NEW a
  PROVE  /\ ~Applied(p, a, 0)
         /\ \A n \in Nat : n >= Relocations(p) /\ Relocated(p, a) => Applied(p, a, n)
  <1>1. p.rela \in Nat /\ p.relasz \in Nat
    BY ProgramsAssumption, Zenon
  <1>2. Relocations(p) \in Nat
    BY <1>1, Zenon DEF Relocations
  <1>3. ASSUME Applied(p, a, 0) PROVE FALSE
    <2>9. PICK t \in DOMAIN p.segs : \E r \in DOMAIN p.segs[t].file :
                 p.segs[t].file[r] = RelativeEntry(a) /\ Addr(p, t, r) < p.rela + 0
      BY <1>3, Zenon DEF Applied
    <2>1. PICK r \in DOMAIN p.segs[t].file :
                 p.segs[t].file[r] = RelativeEntry(a) /\ Addr(p, t, r) < p.rela + 0
      BY <2>9, Zenon
    <2>2. Addr(p, t, r) \in p.rela..(p.rela + Relocations(p) - 1)
      BY <1>3, <2>1, TableFacts, Zenon DEF Applied
    <2> QED BY <1>1, <1>2, <2>1, <2>2
  <1>4. ASSUME NEW n \in Nat, n >= Relocations(p), Relocated(p, a) PROVE Applied(p, a, n)
    <2>1. LoadOffset(p) # 0
      BY <1>4, Zenon DEF Relocated
    <2>9. PICK t \in DOMAIN p.segs : \E r \in DOMAIN p.segs[t].file : p.segs[t].file[r] = RelativeEntry(a)
      BY <1>4, Zenon DEF Relocated
    <2>2. PICK r \in DOMAIN p.segs[t].file : p.segs[t].file[r] = RelativeEntry(a)
      BY <2>9, Zenon
    <2>3. Addr(p, t, r) \in p.rela..(p.rela + Relocations(p) - 1)
      BY <2>1, <2>2, TableFacts, Zenon
    <2>4. Addr(p, t, r) < p.rela + n
      BY <1>1, <1>2, <1>4, <2>3
    <2> QED BY <2>1, <2>2, <2>4, Zenon DEF Applied
  <1> QED BY <1>3, <1>4, Zenon

(* The word of the finished image.                                          *)
LEMMA ImageWordIs ==
  ASSUME NEW p \in Programs, NEW j \in DOMAIN p.segs, NEW k \in 1..p.segs[j].memsz
  PROVE  ImageWord(p, p.segs[j], k) =
           IF Relocated(p, Addr(p, j, k)) THEN Word(Slot(p, j, k)) ELSE SegWord(p, j, k)
  <1>1. Slot(p, j, k) = Addr(p, j, k) + LoadOffset(p)
    BY SlotFacts, Zenon
  <1>2. ImageWord(p, p.segs[j], k) =
          IF Relocated(p, Addr(p, j, k)) THEN Word(Addr(p, j, k) + LoadOffset(p)) ELSE SegWord(p, j, k)
    BY Zenon DEF ImageWord, Relocated, Addr, SegWord
  <1> QED BY <1>1, <1>2, Zenon

(* All segments copied and all entries applied make a whole program.        *)
LEMMA CopiedWhole ==
  ASSUME NEW m, NEW p \in Programs, NEW sg \in Nat \ {0}, sg \notin DOMAIN p.segs,
         NEW n \in Nat, n >= Relocations(p), CopiedTo(m, p, sg, n),
         \A v \in ImagePages(p) : Moved(m, v)
  PROVE  Whole(m, p)
  <1>1. ASSUME PageDisjoint(p), NEW j \in DOMAIN p.segs, NEW k \in 1..p.segs[j].memsz
        PROVE  Fetch(m, Slot(p, j, k)) = ImageWord(p, p.segs[j], k)
    <2>1. j < sg
      BY SegDomain
    <2>2. Copied(m, p, j, k, n)
      BY <1>1, <2>1, Zenon DEF CopiedTo
    <2>3. Relocated(p, Addr(p, j, k)) => Applied(p, Addr(p, j, k), n)
      BY AppliedEnds, Zenon
    <2> QED BY <2>2, <2>3, ImageWordIs, Zenon DEF Copied
  <1> QED BY <1>1, Zenon DEF Whole

(* from_elf starts.                                                         *)
LEMMA StartCopies ==
  ASSUME Loading, CInv, NEW p \in Programs, Start(p)
  PROVE  CInv'
  <1>1. phase' = "load" /\ prog' = p /\ seg' = 1 /\ image' = {}
    BY Zenon DEF Start
  <1>2. \A j \in DOMAIN p.segs : ~(j < 1)
    BY SegDomain
  <1>3. \A n : CopiedTo(mem', p, 1, n)
    BY <1>2, Zenon DEF CopiedTo
  <1> QED BY <1>1, <1>3, Zenon DEF CInv

(* A page mapped for a segment is none of those before.                     *)
LEMMA LoadPageCopies ==
  ASSUME Loading, NEW lvl \in [Frames -> 0..4], Sound(mem, free, kstack, lvl), CInv, LoadPage
  PROVE  CInv'
  <1> DEFINE v == FirstPage(prog, seg) + page
  <1>1. /\ phase = "load" /\ seg \in DOMAIN prog.segs /\ v < EndPage(prog, seg)
        /\ Advance(MapFresh(v, SegFlags(prog.segs[seg])))
        /\ prog' = prog /\ seg' = seg /\ image' = image
    BY Zenon DEF LoadPage
  <1>2. /\ prog \in Programs /\ seg \in Nat \ {0} /\ page \in Nat
        /\ \A u \in Done(prog, seg, page) : FromFile(mem, u, prog)
    BY <1>1, Zenon DEF Loading
  <1>3. FirstPage(prog, seg) \in Nat /\ EndPage(prog, seg) \in Nat
    BY <1>1, <1>2, ProgramFacts, Zenon
  <1>4. v \in SegPages(prog, seg)
    BY <1>1, <1>2, <1>3 DEF SegPages
  <1> HIDE DEF v
  <1>5. v \in Virtual /\ v \notin Managed
    BY <1>1, <1>2, <1>4, ImageVirtual, Zenon DEF ImagePages
  <1>6. /\ (phase' = "idle") \/ (phase' = phase)
        /\ \A u \in Virtual : Moved(mem, u) /\ u # v => SamePage(mem, mem', u)
    BY <1>1, <1>5, FlagsAreFlags, AdvanceSteps, Zenon
  <1>7. image = {}
    BY <1>1, Zenon DEF CInv
  <1>8. ASSUME PageDisjoint(prog), NEW j \in DOMAIN prog.segs, j < seg, NEW u \in SegPages(prog, j)
        PROVE  SamePage(mem, mem', u)
    <2>1. u # v
      BY <1>1, <1>4, <1>8, Zenon DEF PageDisjoint
    <2>2. FromFile(mem, u, prog)
      BY <1>2, <1>8, DoneIs, Zenon
    <2> QED BY <1>6, <2>1, <2>2, Zenon DEF FromFile
  <1>9. CopiedTo(mem, prog, seg, 0)
    BY <1>1, Zenon DEF CInv, Applying
  <1>10. CopiedTo(mem', prog, seg, 0)
    BY <1>2, <1>8, <1>9, CopiedKept, Zenon
  <1> QED BY <1>1, <1>6, <1>7, <1>10, Zenon DEF CInv, Applying

(* The range of the table, and that the program is moved.                   *)
LEMMA TableRange ==
  ASSUME NEW p \in Programs, NEW n \in Nat, n < Relocations(p)
  PROVE  /\ LoadOffset(p) \in Nat \ {0} /\ p.rela \in Nat /\ p.relasz \in Nat
         /\ n \in 0..(p.relasz - 1) /\ Relocations(p) > 0
  <1>1. p.rela \in Nat /\ p.relasz \in Nat
    BY ProgramsAssumption, Zenon
  <1>2. LoadOffset(p) \in Nat
    <2>1. UserBase * Fan \in Nat /\ 0 \in Nat
      BY BootTables, LayoutAssumption
    <2> QED BY <2>1, Zenon DEF LoadOffset
  <1>3. Relocations(p) = 0 \/ (Relocations(p) = p.relasz /\ LoadOffset(p) # 0)
    BY Zenon DEF Relocations
  <1> QED BY <1>1, <1>2, <1>3

(* A relocation entry that is in memory is one of the program's file.       *)
LEMMA FetchFromFile ==
  ASSUME NEW lvl, Sound(mem, free, kstack, lvl), NEW p, NEW x \in Nat,
         FromFile(mem, x \div Fan, p)
  PROVE  Fetch(mem, x) \in Words /\ (Relative(Fetch(mem, x)) => Fetch(mem, x) \in FileWords(p))
  <1> DEFINE v == x \div Fan
             f == To(Leaf(mem, v))
             i == x % Fan
             e == Fetch(mem, x)
  <1>1. i \in Idx
    BY BootTables, DivMod, Zenon DEF Idx
  <1>2. FromFile(mem, v, p)
    BY Zenon
  <1>3. e = WordAt(mem, f, i)
    BY Zenon DEF Fetch, To
  <1> HIDE DEF v, e, i
  <1>4. f \in Frames /\ mem \in Mem
    BY <1>2, ManagedFrames, Zenon DEF FromFile, Sound, Tree, Apart, InUse
  <1>5. \A j \in Idx : Relative(At(mem, f, j)) => At(mem, f, j) \in FileWords(p)
    BY <1>2, Zenon DEF FromFile
  <1> HIDE DEF f
  <1>6. e = At(mem, f, i) /\ e \in Words
    BY <1>1, <1>3, <1>4, AtWord, Zenon
  <1> QED BY <1>1, <1>5, <1>6, Zenon DEF e

(* What an entry of the file names is a word of the program.                *)
LEMMA EntryTarget ==
  ASSUME NEW p \in Programs, Relocations(p) > 0, LoadOffset(p) # 0,
         NEW e \in FileWords(p), Relative(e)
  PROVE  /\ e = RelativeEntry(e.frame) /\ Relocated(p, e.frame)
         /\ (e.frame + LoadOffset(p)) \div Fan \in ImagePages(p)
  <1>1. PICK k \in DOMAIN p.segs : \E r \in DOMAIN p.segs[k].file : p.segs[k].file[r] = e
    BY Zenon DEF FileWords
  <1>2. PICK r \in DOMAIN p.segs[k].file : p.segs[k].file[r] = e
    BY <1>1, Zenon
  <1>3. "R" \in p.segs[k].file[r].flags
    BY <1>2, Zenon DEF Relative
  <1>4. p.segs[k].file[r] = RelativeEntry(p.segs[k].file[r].frame)
    BY <1>3, TableAssumption
  <1>5. (p.segs[k].file[r].frame + LoadOffset(p)) \div Fan \in ImagePages(p)
    BY <1>3, RelocationAssumption, Zenon
  <1>6. e = RelativeEntry(e.frame)
    BY <1>2, <1>4, Zenon
  <1>7. Relocated(p, e.frame)
    BY <1>2, <1>6, Zenon DEF Relocated
  <1> QED BY <1>2, <1>5, <1>6, <1>7, Zenon

(* The words of a segment go to its own pages.                              *)
LEMMA CopySegmentCopies ==
  ASSUME Loading, NEW lvl \in [Frames -> 0..4], Sound(mem, free, kstack, lvl), CInv, CopySegment
  PROVE  CInv'
  <1> DEFINE a == prog.segs[seg].vaddr + LoadOffset(prog)
             ws == SegWords(prog.segs[seg])
  <1>1. /\ phase = "load" /\ seg \in DOMAIN prog.segs
        /\ FirstPage(prog, seg) + page >= EndPage(prog, seg)
        /\ mem' = Store(mem, a, ws) /\ seg' = seg + 1 /\ page' = 0
        /\ phase' = phase /\ prog' = prog /\ image' = image
    BY Zenon DEF CopySegment
  <1>2. /\ prog \in Programs /\ seg \in Nat \ {0} /\ page \in Nat
        /\ \A u \in Done(prog, seg, page) : FromFile(mem, u, prog)
    BY <1>1, Zenon DEF Loading
  <1>3. /\ DOMAIN ws = 1..prog.segs[seg].memsz /\ \A n \in DOMAIN ws : ws[n] \in Words
        /\ prog.segs[seg].memsz \in Nat /\ a \in Nat
    <2>1. DOMAIN ws = 1..prog.segs[seg].memsz /\ \A n \in DOMAIN ws : ws[n] \in Words
      BY <1>1, <1>2, SegmentWords, Zenon
    <2>2. prog.segs[seg].vaddr \in Nat /\ LoadOffset(prog) \in Nat /\ prog.segs[seg].memsz \in Nat
      BY <1>1, <1>2, ProgramFacts, Zenon
    <2>3. a \in Nat
      BY ONLY <2>2
    <2> QED BY <2>1, <2>2, <2>3, Zenon
  <1>4. \A n \in DOMAIN ws : a + n - 1 = Slot(prog, seg, n) /\ ws[n] = SegWord(prog, seg, n)
    BY Zenon DEF Slot, SegWord
  <1>5. \A j \in DOMAIN prog.segs : j < seg + 1 => \A u \in SegPages(prog, j) : u \in Done(prog, seg, page)
    <2> SUFFICES ASSUME NEW j \in DOMAIN prog.segs, j < seg + 1, NEW u \in SegPages(prog, j)
                 PROVE  u \in Done(prog, seg, page)
      BY Zenon
    <2>1. j < seg \/ j = seg
      BY <1>2, SegDomain
    <2> QED BY <1>1, <1>2, <2>1, DoneIs, DoneSteps, Zenon
  <1>6. ASSUME NEW j \in DOMAIN prog.segs, j < seg + 1, NEW k \in 1..prog.segs[j].memsz
        PROVE  /\ Slot(prog, j, k) \in Nat /\ Slot(prog, j, k) \div Fan \in SegPages(prog, j)
               /\ Slot(prog, j, k) \div Fan \in Virtual /\ Moved(mem, Slot(prog, j, k) \div Fan)
    <2>1. Slot(prog, j, k) \in Nat /\ Slot(prog, j, k) \div Fan \in SegPages(prog, j)
      BY <1>2, SlotFacts, Zenon
    <2>2. FromFile(mem, Slot(prog, j, k) \div Fan, prog)
      BY <1>2, <1>5, <1>6, <2>1, Zenon
    <2> QED BY <2>1, <2>2, Zenon DEF FromFile
  <1> HIDE DEF a, ws
  <1>7. Aimed(mem, a, ws)
    <2>1. seg < seg + 1
      BY <1>2
    <2> QED BY <1>1, <1>3, <1>4, <1>6, <2>1, Zenon DEF Aimed
  <1>8. DOMAIN ws \subseteq Nat \ {0}
    BY <1>3
  <1>9. ASSUME PageDisjoint(prog), NEW j \in DOMAIN prog.segs, j < seg + 1,
               NEW k \in 1..prog.segs[j].memsz
        PROVE  Copied(mem', prog, j, k, 0)
    <2> DEFINE b == Slot(prog, j, k)
    <2>1. b \in Nat /\ b \div Fan \in SegPages(prog, j) /\ b \div Fan \in Virtual /\ Moved(mem, b \div Fan)
      BY <1>6, <1>9, Zenon
    <2> HIDE DEF b
    <2>2. /\ \A n \in DOMAIN ws : a + n - 1 = b => Fetch(mem', b) = ws[n]
          /\ (\A n \in DOMAIN ws : a + n - 1 # b) => Fetch(mem', b) = Fetch(mem, b)
      <3>1. Written(mem, Store(mem, a, ws), a, ws, b)
        BY <1>3, <1>7, <1>8, <2>1, StoreFetch, Zenon
      <3>2. Written(mem, mem', a, ws, b)
        BY ONLY <1>1, <3>1, Zenon
      <3> QED BY ONLY <3>2, Zenon DEF Written
    <2>3. ~Applied(prog, Addr(prog, j, k), 0)
      BY <1>2, AppliedEnds, Zenon
    <2>4. CASE j = seg
      <3>1. Fetch(mem', b) = SegWord(prog, j, k)
        BY <1>3, <1>4, <2>2, <2>4, Zenon DEF b
      <3> QED BY <2>3, <3>1, Zenon DEF Copied, b
    <2>5. CASE j # seg
      <3>1. j < seg
        BY <1>2, <1>9, <2>5, SegDomain
      <3>2. Copied(mem, prog, j, k, 0)
        BY <1>1, <1>9, <3>1, Zenon DEF CInv, Applying, CopiedTo
      <3>3. ASSUME NEW n \in DOMAIN ws PROVE a + n - 1 # b
        <4>1. Slot(prog, seg, n) \div Fan \in SegPages(prog, seg)
          BY <1>1, <1>2, <1>3, SlotFacts, Zenon
        <4>2. SegPages(prog, j) \cap SegPages(prog, seg) = {}
          BY <1>1, <1>9, <3>1, Zenon DEF PageDisjoint
        <4> QED BY <1>4, <2>1, <4>1, <4>2, Zenon
      <3>4. Fetch(mem', b) = Fetch(mem, b)
        BY <2>2, <3>3, Zenon
      <3> QED BY <3>2, <3>4, Zenon DEF Copied, b
    <2> QED BY <2>4, <2>5, Zenon
  <1>10. CopiedTo(mem', prog, seg + 1, 0)
    BY <1>9, Zenon DEF CopiedTo
  <1>11. image = {} /\ Applying' = 0
    BY <1>1, Zenon DEF CInv, Applying
  <1> QED BY <1>1, <1>10, <1>11, Zenon DEF CInv

(* One more entry is applied.                                               *)
LEMMA AppliedNext ==
  ASSUME NEW p \in Programs, NEW a, NEW n \in Nat, Applied(p, a, n + 1), ~Applied(p, a, n)
  PROVE  \E t \in DOMAIN p.segs : \E r \in DOMAIN p.segs[t].file :
           p.segs[t].file[r] = RelativeEntry(a) /\ Addr(p, t, r) = p.rela + n
  <1>1. p.rela \in Nat /\ p.relasz \in Nat
    BY ProgramsAssumption, Zenon
  <1>2. Relocations(p) \in Nat
    BY <1>1, Zenon DEF Relocations
  <1>3. LoadOffset(p) # 0
    BY Zenon DEF Applied
  <1>4. PICK t \in DOMAIN p.segs : \E r \in DOMAIN p.segs[t].file :
               p.segs[t].file[r] = RelativeEntry(a) /\ Addr(p, t, r) < p.rela + (n + 1)
    BY Zenon DEF Applied
  <1>5. PICK r \in DOMAIN p.segs[t].file :
               p.segs[t].file[r] = RelativeEntry(a) /\ Addr(p, t, r) < p.rela + (n + 1)
    BY <1>4, Zenon
  <1>6. Addr(p, t, r) \in p.rela..(p.rela + Relocations(p) - 1)
    BY <1>3, <1>5, TableFacts, Zenon
  <1>7. ~(Addr(p, t, r) < p.rela + n)
    BY <1>3, <1>5, Zenon DEF Applied
  <1>8. Addr(p, t, r) = p.rela + n
    BY <1>1, <1>2, <1>5, <1>6, <1>7
  <1> QED BY <1>5, <1>8, Zenon

(* A relocation entry is still what the file has when its turn comes, and   *)
(* patches the word that it names and no other.                             *)
LEMMA RelocationsCopy ==
  ASSUME Loading, NEW lvl \in [Frames -> 0..4], Sound(mem, free, kstack, lvl), CInv, apply_relocations
  PROVE  CInv'
  <1> DEFINE o == LoadOffset(prog)
             x == prog.rela + page + o
             e == Fetch(mem, x)
  <1>1. /\ phase = "load" /\ seg \notin DOMAIN prog.segs /\ page < Relocations(prog)
        /\ mem' = Patch(mem, prog.rela + page, o) /\ page' = page + 1
        /\ phase' = phase /\ prog' = prog /\ seg' = seg /\ image' = image
    BY Zenon DEF apply_relocations
  <1>2. /\ prog \in Programs /\ seg \in Nat \ {0} /\ page \in Nat
        /\ \A u \in Done(prog, seg, page) : FromFile(mem, u, prog)
    BY <1>1, Zenon DEF Loading
  <1>3. /\ o \in Nat \ {0} /\ prog.rela \in Nat
        /\ page \in 0..(prog.relasz - 1) /\ Relocations(prog) > 0
    BY <1>1, <1>2, TableRange, Zenon
  <1>4. \A u \in ImagePages(prog) : FromFile(mem, u, prog) /\ u \in Virtual /\ Moved(mem, u)
    BY <1>1, <1>2, DoneSteps, Zenon DEF FromFile
  <1>5. x \in Nat /\ x \div Fan \in ImagePages(prog)
    BY <1>2, <1>3, RelocationAssumption
  <1>6. mem' = IF Relative(e) THEN Store(mem, e.frame + o, <<Word(e.frame + o)>>) ELSE mem
    BY <1>1, Zenon DEF Patch, Relative
  <1>7. e \in Words /\ (Relative(e) => e \in FileWords(prog))
    BY <1>4, <1>5, FetchFromFile, Zenon
  <1>8. Applying = page /\ Applying' = page + 1 /\ image = {}
    BY <1>1, Zenon DEF Applying, CInv
  <1>9. ASSUME PageDisjoint(prog), NEW j \in DOMAIN prog.segs, NEW k \in 1..prog.segs[j].memsz
        PROVE  Copied(mem, prog, j, k, page)
    <2>1. j < seg
      BY <1>1, <1>2, SegDomain
    <2> QED BY <1>1, <1>8, <1>9, <2>1, Zenon DEF CInv, CopiedTo
  <1>10. ASSUME PageDisjoint(prog), NEW t \in DOMAIN prog.segs, NEW r \in DOMAIN prog.segs[t].file,
                NEW a, prog.segs[t].file[r] = RelativeEntry(a), Addr(prog, t, r) = prog.rela + page
         PROVE  e = RelativeEntry(a)
    <2>1. /\ r \in 1..prog.segs[t].memsz /\ SegWord(prog, t, r) = RelativeEntry(a)
          /\ ~Relocated(prog, Addr(prog, t, r))
      BY <1>2, <1>3, <1>10, TableFacts
    <2>2. Copied(mem, prog, t, r, page)
      BY <1>9, <1>10, <2>1, Zenon
    <2>3. Slot(prog, t, r) = x
      BY <1>2, <1>10, <2>1, SlotFacts, Zenon
    <2> QED BY <2>1, <2>2, <2>3, Zenon DEF Copied
  <1> HIDE DEF o, x, e
  <1>11. ASSUME PageDisjoint(prog), NEW j \in DOMAIN prog.segs, NEW k \in 1..prog.segs[j].memsz
         PROVE  Copied(mem', prog, j, k, page + 1)
    <2> DEFINE a == Addr(prog, j, k)
               b == Slot(prog, j, k)
    <2>1. /\ a \in Nat /\ b \in Nat /\ b = a + o /\ b \div Fan \in ImagePages(prog)
      BY <1>2, SlotFacts, Zenon DEF o
    <2>2. /\ Fetch(mem, b) = SegWord(prog, j, k) \/ (Relocated(prog, a) /\ Fetch(mem, b) = Word(b))
          /\ Applied(prog, a, page) => Fetch(mem, b) = Word(b)
      BY <1>9, <1>11, Zenon DEF Copied
    <2>3. ASSUME Applied(prog, a, page + 1), ~Applied(prog, a, page) PROVE e = RelativeEntry(a)
      <3>1. PICK t \in DOMAIN prog.segs : \E r \in DOMAIN prog.segs[t].file :
              prog.segs[t].file[r] = RelativeEntry(a) /\ Addr(prog, t, r) = prog.rela + page
        BY <1>2, <2>3, AppliedNext
      <3> QED BY <1>10, <1>11, <3>1, Zenon
    <2> HIDE DEF a, b
    <2>4. CASE ~Relative(e)
      <3>1. mem' = mem
        BY <1>6, <2>4, Zenon
      <3>2. e # RelativeEntry(a)
        BY <2>4 DEF Relative, RelativeEntry, Entry
      <3> QED BY <2>2, <2>3, <3>1, <3>2, Zenon DEF Copied, a, b
    <2>5. CASE Relative(e)
      <3> DEFINE y == e.frame + o
                 ws == <<Word(y)>>
      <3>1. e.frame \in Nat /\ y \in Nat
        BY <1>3, <1>7 DEF Words
      <3>2. e = RelativeEntry(e.frame) /\ Relocated(prog, e.frame) /\ y \div Fan \in ImagePages(prog)
        BY <1>2, <1>3, <1>7, <2>5, EntryTarget, Zenon DEF o
      <3>3. DOMAIN ws = {1} /\ ws[1] = Word(y) /\ y + 1 - 1 = y
        BY <3>1
      <3>4. mem' = Store(mem, y, ws)
        BY <1>6, <2>5, Zenon
      <3> HIDE DEF y, ws
      <3>5. Aimed(mem, y, ws)
        <4>1. Word(y) \in Words
          BY <3>1, Zenon DEF Word, Entry, Words
        <4> QED BY <1>4, <3>2, <3>3, <4>1, Zenon DEF Aimed
      <3>6. /\ \A n \in DOMAIN ws : y + n - 1 = b => Fetch(mem', b) = ws[n]
            /\ (\A n \in DOMAIN ws : y + n - 1 # b) => Fetch(mem', b) = Fetch(mem, b)
        <4>1. DOMAIN ws \subseteq Nat \ {0} /\ b \div Fan \in Virtual /\ Moved(mem, b \div Fan)
          BY <1>4, <2>1, <3>3
        <4>2. Written(mem, Store(mem, y, ws), y, ws, b)
          BY <2>1, <3>1, <3>5, <4>1, StoreFetch, Zenon
        <4>3. Written(mem, mem', y, ws, b)
          BY ONLY <3>4, <4>2, Zenon
        <4> QED BY ONLY <4>3, Zenon DEF Written
      <3>7. CASE y = b
        <4>1. Fetch(mem', b) = Word(b)
          BY <3>3, <3>6, <3>7, Zenon
        <4>2. a = e.frame
          BY <1>3, <2>1, <3>1, <3>7 DEF y
        <4> QED BY <3>2, <4>1, <4>2, Zenon DEF Copied, a, b
      <3>8. CASE y # b
        <4>1. Fetch(mem', b) = Fetch(mem, b)
          BY <3>3, <3>6, <3>8, Zenon
        <4>2. e # RelativeEntry(a)
          <5>1. e.frame # a
            BY <2>1, <3>8, Zenon DEF y
          <5> QED BY <5>1 DEF RelativeEntry, Entry
        <4> QED BY <2>2, <2>3, <4>1, <4>2, Zenon DEF Copied, a, b
      <3> QED BY <3>7, <3>8, Zenon
    <2> QED BY <2>4, <2>5, Zenon
  <1>12. CopiedTo(mem', prog, seg, page + 1)
    BY <1>11, Zenon DEF CopiedTo
  <1> QED BY <1>1, <1>8, <1>12, Zenon DEF CInv

(* A segment has as many words as its size in memory.                       *)
LEMMA SegLength ==
  ASSUME NEW p \in Programs, NEW j \in DOMAIN p.segs
  PROVE  Len(SegWords(p.segs[j])) = p.segs[j].memsz
  <1> DEFINE f == p.segs[j].file
             z == p.segs[j].memsz
             b == [i \in 1..(z - Len(f)) |-> Word(0)]
  <1>1. z \in Nat /\ f \in Seq(Words) /\ Len(f) \in Nat /\ Len(f) <= z
    BY ProgramFacts
  <1>2. SegWords(p.segs[j]) = f \o b
    BY Zenon DEF SegWords
  <1> HIDE DEF f, z
  <1>3. b \in Seq({Word(0)}) /\ Len(b) = z - Len(f)
    BY <1>1
  <1> HIDE DEF b
  <1>4. Len(f \o b) = z
    BY ONLY <1>1, <1>3
  <1> QED BY <1>2, <1>4, Zenon DEF z

(* load has returned, and the program is whole.                             *)
LEMMA KernelStackCopies ==
  ASSUME Loading, CInv, KernelStack
  PROVE  CInv'
  <1>1. /\ phase = "load" /\ seg \notin DOMAIN prog.segs /\ page >= Relocations(prog)
        /\ mem' = mem /\ prog' = prog /\ image' = image /\ phase' \in {"idle", "stack"}
    BY Zenon DEF KernelStack
  <1>2. /\ prog \in Programs /\ seg \in Nat \ {0} /\ page \in Nat
        /\ \A u \in Done(prog, seg, page) : FromFile(mem, u, prog)
    BY <1>1, Zenon DEF Loading
  <1>3. \A u \in ImagePages(prog) : Moved(mem, u)
    BY <1>1, <1>2, DoneSteps, Zenon DEF FromFile
  <1>4. CopiedTo(mem, prog, seg, page) /\ image = {}
    BY <1>1, Zenon DEF CInv, Applying
  <1>5. Whole(mem, prog)
    BY <1>1, <1>2, <1>3, <1>4, CopiedWhole, Zenon
  <1> QED BY <1>1, <1>4, <1>5, Zenon DEF CInv

(* The stack's pages are none of the program's.                             *)
LEMMA StackPageCopies ==
  ASSUME Loading, NEW lvl \in [Frames -> 0..4], Sound(mem, free, kstack, lvl), CInv, StackPage
  PROVE  CInv'
  <1> DEFINE v == StackBase + page
  <1>1. /\ phase = "stack" /\ page < StackPages
        /\ Advance(MapFresh(v, {"P", "W", "U"}))
        /\ prog' = prog /\ seg' = seg /\ image' = image
    BY Zenon DEF StackPage
  <1>2. prog \in Programs /\ page \in Nat
    BY Zenon DEF Loading
  <1>3. v \in StackBase..(StackBase + StackPages - 1)
    BY <1>1, <1>2, LayoutAssumption
  <1> HIDE DEF v
  <1>4. v \in Virtual /\ v \notin Managed
    BY <1>3, PagesVirtual, Zenon DEF UserPages
  <1>5. /\ (phase' = "idle") \/ (phase' = phase)
        /\ \A u \in Virtual : Moved(mem, u) /\ u # v => SamePage(mem, mem', u)
    BY <1>1, <1>4, FlagsAreFlags, AdvanceSteps, Zenon
  <1>6. Whole(mem, prog) /\ image = {}
    BY <1>1, Zenon DEF CInv
  <1>7. ASSUME NEW u \in ImagePages(prog) PROVE SamePage(mem, mem', u)
    <2>1. u \in Virtual /\ u # v
      BY <1>2, <1>3, ImageVirtual, Zenon
    <2> QED BY <1>5, <1>6, <2>1, Zenon DEF Whole
  <1>8. Whole(mem', prog)
    BY <1>2, <1>6, <1>7, WholeKept, Zenon
  <1> QED BY <1>1, <1>5, <1>6, <1>8, Zenon DEF CInv

(* The device's page is none of the program's either: nothing was there.    *)
LEMMA MapDeviceCopies ==
  ASSUME Loading, NEW lvl \in [Frames -> 0..4], Sound(mem, free, kstack, lvl), CInv, MapDevice
  PROVE  CInv'
  <1>1. phase = "idle" /\ phase' = phase /\ image' = image
    BY Zenon DEF MapDevice
  <1>2. \A u \in Virtual : Moved(mem, u) => SamePage(mem, mem', u)
    BY MapDeviceKeeps, Zenon
  <1>3. ASSUME NEW p \in image PROVE p \in Programs /\ Whole(mem', p)
    <2>1. p \in Programs /\ Whole(mem, p)
      BY Zenon DEF CInv
    <2>2. \A u \in ImagePages(p) : SamePage(mem, mem', u)
      BY <1>2, <2>1, ImageVirtual, Zenon DEF Whole
    <2> QED BY <2>1, <2>2, WholeKept, Zenon
  <1> QED BY <1>1, <1>3, Zenon DEF CInv

(* Whatever the step.                                                       *)
LEMMA NextCInv == AInv /\ CInv /\ [Next]_vars => CInv'
  <1> SUFFICES ASSUME AInv, CInv, [Next]_vars PROVE CInv'
    BY Zenon
  <1>1. PICK lvl \in [Frames -> 0..4] : Sound(mem, free, kstack, lvl)
    BY Zenon DEF AInv
  <1>2. Loading
    BY Zenon DEF AInv
  <1>3. ASSUME NEW p \in Programs, Start(p) PROVE CInv'
    BY <1>2, <1>3, StartCopies, Zenon
  <1>4. CASE LoadPage
    BY <1>1, <1>2, <1>4, LoadPageCopies, Zenon
  <1>5. CASE CopySegment
    BY <1>1, <1>2, <1>5, CopySegmentCopies
  <1>6. CASE apply_relocations
    BY <1>1, <1>2, <1>6, RelocationsCopy
  <1>7. CASE KernelStack
    BY <1>2, <1>7, KernelStackCopies, Zenon
  <1>8. CASE StackPage
    BY <1>1, <1>2, <1>8, StackPageCopies
  <1>9. CASE Finish
    <2>1. phase = "stack" /\ phase' = "idle" /\ image' = {prog} /\ mem' = mem
      BY <1>9, Zenon DEF Finish
    <2>2. prog \in Programs /\ Whole(mem, prog)
      BY <1>2, <2>1, Zenon DEF Loading, CInv
    <2> QED BY <2>1, <2>2, Zenon DEF CInv
  <1>10. CASE MapDevice
    BY <1>1, <1>2, <1>10, MapDeviceCopies
  <1>11. ASSUME NEW v \in Pages, Unmap(v) PROVE CInv'
    <2>1. phase' = "idle" /\ image' = {}
      BY <1>11, Zenon DEF Unmap
    <2> QED BY <2>1, Zenon DEF CInv
  <1>12. CASE UNCHANGED vars
    <2>1. /\ mem' = mem /\ phase' = phase /\ prog' = prog /\ seg' = seg /\ page' = page
          /\ image' = image
      BY <1>12, Zenon DEF vars
    <2> QED BY <2>1, Zenon DEF CInv, Applying
  <1> QED BY <1>3, <1>4, <1>5, <1>6, <1>7, <1>8, <1>9, <1>10, <1>11, <1>12, Zenon DEF Next

(* Nothing is loaded at first.                                              *)
LEMMA InitCInv == Init => CInv
  BY Zenon DEF Init, CInv

(* Whole means that every word is there.                                    *)
LEMMA WholeIntact == AInv /\ CInv => ImageIntact
  <1> SUFFICES ASSUME CInv, NEW p \in image, PageDisjoint(p), NEW j \in DOMAIN p.segs,
                      NEW k \in 1..Len(SegWords(p.segs[j]))
               PROVE  Fetch(mem, p.segs[j].vaddr + LoadOffset(p) + k - 1) = ImageWord(p, p.segs[j], k)
    BY Zenon DEF ImageIntact
  <1>1. p \in Programs /\ Whole(mem, p)
    BY Zenon DEF CInv
  <1>2. k \in 1..p.segs[j].memsz
    BY <1>1, SegLength, Zenon
  <1>3. Fetch(mem, Slot(p, j, k)) = ImageWord(p, p.segs[j], k)
    BY <1>1, <1>2, Zenon DEF Whole
  <1> QED BY <1>3, Zenon DEF Slot

-----------------------------------------------------------------------------
(* What the project states of the address space.                            *)

(* get_table (paging.rs) always reaches the table the processor uses: every *)
(* table stays mapped at the address of its own frame, through every split, *)
(* new table, half-made mapping and store of the loader.                    *)
THEOREM TablesAlwaysAtIdentity == Spec => []TablesAtIdentity
  BY AlwaysAInv, TreeTables, PTL

(* The frames of the pages that from_elf mapped, of the tables, of the      *)
(* kernel stack and of the allocator are always different ones.             *)
THEOREM PagesAlwaysPrivate == Spec => []PagesArePrivate
  BY AlwaysAInv, TreePrivate, PTL

(* validate_user_slice and validate_user_slice_mut (userptr.rs), which walk *)
(* the tables through their own mapping and look at one address per page,   *)
(* let a slice through exactly when the processor may access all its words. *)
THEOREM SlicesAlwaysExact == Spec => []SlicesExact
  BY AlwaysAInv, TreeSlices, PTL

(* Once from_elf has returned a process, its image is in memory word for    *)
(* word, relocations applied and zero past the file's words, until the next *)
(* load or unmap: no table, stack page or device page mapped since takes a  *)
(* word of it.                                                              *)
THEOREM ImageAlwaysIntact == Spec => []ImageIntact
  <1>1. Init /\ [][Next]_vars /\ []AInv => []CInv
    BY InitCInv, NextCInv, PTL
  <1> QED BY <1>1, AlwaysAInv, WholeIntact, PTL DEF Spec

-----------------------------------------------------------------------------
(* One page and one frame at a time.                                        *)

INSTANCE FiniteSetTheorems

(* A set with at most one element.                                          *)
LEMMA AtMostOne ==
  ASSUME NEW S, NEW x, S \subseteq {x}
  PROVE  Cardinality(S) <= 1
  <1>1. CASE S = {}
    BY <1>1, FS_EmptySet
  <1>2. CASE S = {x}
    BY <1>2, FS_Singleton
  <1> QED BY <1>1, <1>2, Zenon

(* A step changes where one page leads.                                     *)
LEMMA StepOnePage ==
  AInv /\ [Next]_vars => Cardinality({v \in Pages : Leaf(mem, v)' # Leaf(mem, v)}) <= 1
  <1> SUFFICES ASSUME AInv, [Next]_vars
               PROVE  Cardinality({v \in Pages : Leaf(mem', v) # Leaf(mem, v)}) <= 1
    BY Zenon
  <1>1. PICK lvl \in [Frames -> 0..4] : Sound(mem, free, kstack, lvl)
    BY Zenon DEF AInv
  <1>2. Steps(mem, free, kstack, lvl, mem', free', kstack')
    BY <1>1, NextKeeps, Zenon DEF AInv
  <1>3. OneLeaf(mem, mem')
    BY <1>2, Zenon DEF Steps
  <1>4. PICK x : \A u \in Virtual : u # x => Leaf(mem', u) = Leaf(mem, u)
    BY <1>3, Zenon DEF OneLeaf
  <1>5. {v \in Pages : Leaf(mem', v) # Leaf(mem, v)} \subseteq {x}
    BY <1>4, LayoutAssumption, Zenon
  <1> QED BY <1>5, AtMostOne, Zenon

(* A step loses one frame, and no table.                                    *)
LEMMA StepOneLost ==
  AInv /\ [Next]_vars =>
    /\ Cardinality(Reached(mem, free, kstack) \ Reached(mem, free, kstack)') <= 1
    /\ Tables(mem) \subseteq Tables(mem)'
  <1> SUFFICES ASSUME AInv, [Next]_vars
               PROVE  /\ Cardinality(Reached(mem, free, kstack) \ Reached(mem', free', kstack')) <= 1
                      /\ Tables(mem) \subseteq Tables(mem')
    BY Zenon
  <1>1. PICK lvl \in [Frames -> 0..4] : Sound(mem, free, kstack, lvl)
    BY DEF AInv
  <1>2. Steps(mem, free, kstack, lvl, mem', free', kstack')
    BY <1>1, NextKeeps DEF AInv
  <1>3. PICK lvl2 \in [Frames -> 0..4] :
          /\ Sound(mem', free', kstack', lvl2)
          /\ OneLost(mem, free, kstack, lvl, mem', free', kstack', lvl2)
    BY <1>2, Zenon DEF Steps
  <1>4. PICK x : \A f : Holds(f, mem, free, kstack, lvl) /\ f # x
                          => Holds(f, mem', free', kstack', lvl2)
    BY <1>3, Zenon DEF OneLost
  <1>5. \A f : f \in Reached(mem, free, kstack) <=> Holds(f, mem, free, kstack, lvl)
    BY <1>1, ReachedIs, Zenon DEF Sound
  <1>6. \A f : f \in Reached(mem', free', kstack') <=> Holds(f, mem', free', kstack', lvl2)
    BY <1>3, ReachedIs, Zenon DEF Sound
  <1>7. Reached(mem, free, kstack) \ Reached(mem', free', kstack') \subseteq {x}
    BY <1>4, <1>5, <1>6, Zenon
  <1>8. Cardinality(Reached(mem, free, kstack) \ Reached(mem', free', kstack')) <= 1
    BY <1>7, AtMostOne, Zenon
  <1>9. \A f : f \in Tables(mem) <=> f \in Frames /\ lvl[f] > 0
    BY <1>1, TablesAre, Zenon DEF Sound
  <1>10. \A f : f \in Tables(mem') <=> f \in Frames /\ lvl2[f] > 0
    BY <1>3, TablesAre, Zenon DEF Sound
  <1>11. Tables(mem) \subseteq Tables(mem')
    BY <1>3, <1>9, <1>10, Zenon DEF OneLost
  <1> QED BY <1>8, <1>11, Zenon

(* No step of a load, device mapping or unmap changes where more than one   *)
(* page leads, although map_page may write four tables.                     *)
THEOREM OnlyOnePage == Spec => OnePageAtATime
  BY AlwaysAInv, StepOnePage, PTL DEF Spec, OnePageAtATime

(* No step loses more than one frame or any table, although from_elf gives  *)
(* nothing back on its error paths.                                         *)
THEOREM OnlyOneLost == Spec => AtMostOneLost
  BY AlwaysAInv, StepOneLost, PTL DEF Spec, AtMostOneLost
=============================================================================
