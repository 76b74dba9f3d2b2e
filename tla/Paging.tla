------------------------------- MODULE Paging -------------------------------
(***************************************************************************)
(* The four-level page tables of mm/paging.rs, kept in the physical memory *)
(* they map.  A page is Fan words and a table is a page of Fan entries;    *)
(* addresses count pages (or words, where a word is meant).  The processor *)
(* follows tables by physical frame; the kernel reaches the same tables    *)
(* through the virtual address equal to the frame's (get_table), that is,  *)
(* through the mapping it is changing.                                     *)
(***************************************************************************)
EXTENDS Naturals, FiniteSets, Sequences

CONSTANTS Fan,        \* entries of a table, words of a page (512 in the code)
          Frames,     \* the frames of physical memory
          Pml4, Pdpt, Pd,  \* the frames of the tables the boot code makes
          FreeLists   \* the orders in which the allocator may hand frames out

(* The memory is what the boot code's one page directory of huge pages      *)
(* covers; the allocator has each frame once, and not those of the tables.  *)
ASSUME PagingAssumption ==
  /\ Fan \in Nat \ {0}
  /\ Frames \subseteq 0..(Fan * Fan - 1)
  /\ {Pml4, Pdpt, Pd} \subseteq Frames \ {0}
  /\ Pml4 # Pdpt /\ Pml4 # Pd /\ Pdpt # Pd
  /\ \A l \in FreeLists :
       /\ l \in Seq(Frames \ {0, Pml4, Pdpt, Pd})
       /\ \A j, k \in DOMAIN l : l[j] = l[k] => j = k

VARIABLES mem,    \* the words of every frame
          free    \* the frames the allocator still has, in hand-out order

Idx == 0..(Fan - 1)

(* PRESENT, WRITABLE, USER_ACCESSIBLE, HUGE_PAGE and NO_EXECUTE.            *)
PageFlags == {"P", "W", "U", "H", "NX"}

(* A word read as an entry: a frame and its flags.  A word of a program is  *)
(* a number without PRESENT.                                                *)
Entry(f, fl) == [frame |-> f, flags |-> fl]

Word(n) == Entry(n, {})

Unused == Entry(0, {})

(* What a frame that was used before holds: a word that reads as an entry.  *)
Stale == Entry(0, {"P", "W"})

Present(e) == "P" \in e.flags

pml4_index(v) == (((v \div Fan) \div Fan) \div Fan) % Fan

pdpt_index(v) == ((v \div Fan) \div Fan) % Fan

pd_index(v) == (v \div Fan) % Fan

pt_index(v) == v % Fan

WordAt(m, f, i) == IF f \in Frames THEN m[f][i] ELSE Unused

(* What a frame's words may be; a program's may have the mark "R".          *)
Words == [frame : Nat, flags : SUBSET (PageFlags \cup {"R"})]

FreeSet(fr) == {fr[k] : k \in DOMAIN fr}

(* The frames that are ever a table or the allocator's.                     *)
Managed == {Pml4, Pdpt, Pd} \cup UNION {FreeSet(l) : l \in FreeLists}

(* The pages that four levels of tables tell apart.                         *)
Virtual == {v \in Nat : ((v \div Fan) \div Fan) \div Fan < Fan}

----------------------------------------------------------------------------
(* The processor's walk.                                                    *)

Follow(m, e, i) == IF Present(e) THEN WordAt(m, e.frame, i) ELSE Unused

(* The entry that maps page v, a huge page's split down to v.               *)
Leaf(m, v) ==
  LET e == Follow(m, Follow(m, WordAt(m, Pml4, pml4_index(v)), pdpt_index(v)), pd_index(v))
  IN  IF Present(e) /\ "H" \in e.flags
      THEN Entry(e.frame + pt_index(v), e.flags \ {"H"})
      ELSE Follow(m, e, pt_index(v))

(* The frames the processor uses as tables.                                 *)
Tables(m) ==
  LET Links(f) == {i \in Idx : Present(m[f][i]) /\ "H" \notin m[f][i].flags}
      Below(S) == Frames \cap UNION {{m[f][i].frame : i \in Links(f)} : f \in S}
      l3 == Below({Pml4})
      l2 == Below(l3)
  IN  {Pml4} \cup l3 \cup l2 \cup Below(l2)

----------------------------------------------------------------------------
(* The kernel's own walk.                                                   *)

(* get_table: the frame that the virtual address of frame f leads to.       *)
get_table(m, f) == Leaf(m, f).frame

Read(m, f, i) == WordAt(m, get_table(m, f), i)

Down(m, e, i) == IF Present(e) THEN Read(m, e.frame, i) ELSE Unused

PdptEntry(m, v) == Down(m, Read(m, Pml4, pml4_index(v)), pdpt_index(v))

PdEntry(m, v) == Down(m, PdptEntry(m, v), pd_index(v))

(* translate: the frame of page v, or the empty set.                        *)
translate(m, v) ==
  LET pd == PdEntry(m, v)
      pt == Down(m, pd, pt_index(v))
  IN  IF Present(pd) /\ "H" \in pd.flags THEN {pd.frame + pt_index(v)}
      ELSE IF Present(pt) THEN {pt.frame} ELSE {}

(* translate_flags: the flags of the last entry met, none if not present.   *)
translate_flags(m, v) ==
  LET pdpt == PdptEntry(m, v)
      pd == PdEntry(m, v)
      pt == Down(m, pd, pt_index(v))
  IN  IF Present(pdpt) /\ "H" \in pdpt.flags THEN pdpt.flags
      ELSE IF Present(pd) /\ "H" \in pd.flags THEN pd.flags
      ELSE IF Present(pt) THEN pt.flags ELSE {}

----------------------------------------------------------------------------
(* map_page works down the levels on a state s: the memory, the allocator's *)
(* list, the table reached and whether a frame was refused.                 *)

Set(m, f, i, e) == [m EXCEPT ![get_table(m, f)][i] = e]

Fill(m, f, w) == [m EXCEPT ![get_table(m, f)] = w]

Linked(f) == Entry(f, {"P", "W", "U"})

Refused(s) == [s EXCEPT !.ok = FALSE]

(* A new table is made even where there is one.                             *)
EnsureAnew(s, i) ==
  LET f == Head(s.free)
  IN  IF ~s.ok THEN s
      ELSE IF s.free = << >> THEN Refused(s)
      ELSE [s EXCEPT !.mem = Set(Fill(s.mem, f, [j \in Idx |-> Unused]), s.at, i, Linked(f)),
                     !.free = Tail(s.free),
                     !.at = f]

(* The table below entry i, made and cleared if there is none.              *)
Ensure(s, i) ==
  LET e == Read(s.mem, s.at, i)
      f == Head(s.free)
  IN  IF ~s.ok THEN s
      ELSE IF Present(e) THEN [s EXCEPT !.at = e.frame]
      ELSE IF s.free = << >> THEN Refused(s)
      ELSE [s EXCEPT !.mem = Set(Fill(s.mem, f, [j \in Idx |-> Unused]), s.at, i, Linked(f)),
                     !.free = Tail(s.free),
                     !.at = f]

(* The entry is emptied before the frame for the table is asked for.        *)
SplitEarly(s, i) ==
  LET e == Read(s.mem, s.at, i)
      f == Head(s.free)
  IN  IF ~s.ok \/ ~Present(e) \/ "H" \notin e.flags THEN s
      ELSE IF s.free = << >> THEN [Refused(s) EXCEPT !.mem = Set(s.mem, s.at, i, Unused)]
      ELSE [s EXCEPT !.mem = Set(Fill(s.mem, f, [j \in Idx |-> Entry(e.frame + j, e.flags \ {"H"})]),
                                 s.at, i, Linked(f)),
                     !.free = Tail(s.free)]

(* Every entry of the new table leads to the huge page's first frame.       *)
SplitSame(s, i) ==
  LET e == Read(s.mem, s.at, i)
      f == Head(s.free)
  IN  IF ~s.ok \/ ~Present(e) \/ "H" \notin e.flags THEN s
      ELSE IF s.free = << >> THEN Refused(s)
      ELSE [s EXCEPT !.mem = Set(Fill(s.mem, f, [j \in Idx |-> Entry(e.frame, e.flags \ {"H"})]),
                                 s.at, i, Linked(f)),
                     !.free = Tail(s.free)]

(* A huge page in the way becomes a table of its pages.                     *)
Split(s, i) ==
  LET e == Read(s.mem, s.at, i)
      f == Head(s.free)
  IN  IF ~s.ok \/ ~Present(e) \/ "H" \notin e.flags THEN s
      ELSE IF s.free = << >> THEN Refused(s)
      ELSE [s EXCEPT !.mem = Set(Fill(s.mem, f, [j \in Idx |-> Entry(e.frame + j, e.flags \ {"H"})]),
                                 s.at, i, Linked(f)),
                     !.free = Tail(s.free)]

(* map_page: page v to frame f; what was mapped there is overwritten.       *)
map_page(m, fr, v, f, fl) ==
  LET s1 == Ensure([mem |-> m, free |-> fr, at |-> Pml4, ok |-> TRUE], pml4_index(v))
      s2 == Ensure(s1, pdpt_index(v))
      s3 == Ensure(Split(s2, pd_index(v)), pd_index(v))
  IN  IF s3.ok THEN [s3 EXCEPT !.mem = Set(s3.mem, s3.at, pt_index(v), Entry(f, fl \cup {"P"}))]
      ELSE s3

(* unmap_page: the entry of page v is cleared; no table is given back, and  *)
(* HUGE_PAGE is not looked at.                                              *)
unmap_page(m, v) ==
  IF Present(Down(m, PdEntry(m, v), pt_index(v)))
  THEN Set(m, PdEntry(m, v).frame, pt_index(v), Unused)
  ELSE m

----------------------------------------------------------------------------
(* The boot code's tables: the first entries lead to Pd, whose huge pages   *)
(* map every page they cover to the frame of the same number.               *)
BootMemory ==
  [f \in Frames |-> [i \in Idx |->
    CASE f = Pml4 -> IF i = 0 THEN Linked(Pdpt) ELSE Unused
      [] f = Pdpt -> IF i = 0 THEN Linked(Pd) ELSE Unused
      [] f = Pd -> Entry(i * Fan, {"P", "W", "U", "H"})
      [] OTHER -> Stale]]

PagingInit ==
  /\ mem = BootMemory
  /\ free \in FreeLists
=============================================================================
