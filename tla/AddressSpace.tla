---------------------------- MODULE AddressSpace ----------------------------
(***************************************************************************)
(* What the kernel does with the page tables: Process::from_elf with the   *)
(* ELF loader, the mapping of a device page, and the checks on the slices  *)
(* a program passes to a system call.  There is one address space, so each *)
(* program is loaded over the pages of the one before.  A frame is refused *)
(* when the allocator's list is empty, at any point of a load.             *)
(***************************************************************************)
EXTENDS Paging

CONSTANTS Programs,    \* the ELF files: LOAD segments and relocation table
          UserBase,    \* the page that position-independent programs go to
          StackBase, StackPages,
          Device,      \* the page of the local APIC
          UserMax,     \* the first word that is no user address
          AddrSpace,   \* the number of 64-bit addresses, in words
          Pages,       \* the pages whose translation is observed
          Ptrs, Lens,  \* the slices passed to system calls
          MaxLoads     \* bound: programs loaded

VARIABLES phase,   \* of from_elf: "idle", "load", "stack"
          prog, seg, page,   \* the program being loaded, its segment, the page in it
          kstack,  \* the frame the syscall entry takes as kernel stack, or 0
          image,   \* the programs loaded whole and not touched since (one or none)
          loads

vars == <<mem, free, phase, prog, seg, page, kstack, image, loads>>

Init ==
  /\ PagingInit
  /\ phase = "idle"
  /\ prog = CHOOSE p \in Programs : TRUE
  /\ seg = 1
  /\ page = 0
  /\ kstack = 0
  /\ image = {}
  /\ loads = 0

----------------------------------------------------------------------------
(* A program that starts in the first page is moved to UserBase.            *)
LoadOffset(p) ==
  IF p.segs = << >> \/ \E k \in DOMAIN p.segs : p.segs[k].vaddr < Fan THEN UserBase * Fan ELSE 0

FirstPage(p, k) == (p.segs[k].vaddr + LoadOffset(p)) \div Fan

EndPage(p, k) == (p.segs[k].vaddr + LoadOffset(p) + p.segs[k].memsz + Fan - 1) \div Fan

SegFlags(s) == {"P", "U"} \cup (IF s.write THEN {"W"} ELSE {}) \cup (IF s.exec THEN {} ELSE {"NX"})

SegPages(p, k) == FirstPage(p, k)..(EndPage(p, k) - 1)

ImagePages(p) == UNION {SegPages(p, k) : k \in DOMAIN p.segs}

(* The words a segment has in memory: those of the file, then zeroes.       *)
SegWords(s) == s.file \o [k \in 1..(s.memsz - Len(s.file)) |-> Word(0)]

(* Stores through the page tables, from word address a.                     *)
Store(m, a, ws) ==
  [f \in Frames |-> [i \in Idx |->
    LET hits == {k \in DOMAIN ws : Leaf(m, (a + k - 1) \div Fan).frame = f /\ (a + k - 1) % Fan = i}
    IN  IF hits = {} THEN m[f][i] ELSE ws[CHOOSE k \in hits : TRUE]]]

Fetch(m, a) == WordAt(m, Leaf(m, a \div Fan).frame, a % Fan)

(* A relocation entry is a word with flag "R" (R_X86_64_RELATIVE) that      *)
(* names the word to patch; its addend is that word's address.              *)
RelativeEntry(n) == Entry(n, {"R"})

(* The entry at the loaded address is read, and the word it names patched.  *)
Patch(m, a, off) ==
  LET e == Fetch(m, a + off)
  IN  IF "R" \in e.flags THEN Store(m, e.frame + off, <<Word(e.frame + off)>>) ELSE m

(* The entries that apply_relocations goes through.                         *)
Relocations(p) == IF LoadOffset(p) = 0 \/ p.rela = 0 THEN 0 ELSE p.relasz

----------------------------------------------------------------------------
(* The pages that from_elf maps.                                            *)
UserPages ==
  (UNION {ImagePages(p) : p \in Programs}) \cup (StackBase..(StackBase + StackPages - 1))

ASSUME ProgramsAssumption ==
  /\ Programs # {}
  /\ \A p \in Programs :
       /\ p.segs \in Seq([vaddr : Nat, file : Seq(Words), memsz : Nat,
                          write : BOOLEAN, exec : BOOLEAN])
       /\ p.rela \in Nat /\ p.relasz \in Nat
       /\ \A k \in DOMAIN p.segs : Len(p.segs[k].file) <= p.segs[k].memsz

(* The relocation table is part of its program, and so is what it patches.  *)
ASSUME RelocationAssumption ==
  \A p \in Programs : Relocations(p) > 0 =>
    /\ \A n \in 0..(p.relasz - 1) : (p.rela + n + LoadOffset(p)) \div Fan \in ImagePages(p)
    /\ \A k \in DOMAIN p.segs : \A r \in DOMAIN p.segs[k].file :
         "R" \in p.segs[k].file[r].flags
           => (p.segs[k].file[r].frame + LoadOffset(p)) \div Fan \in ImagePages(p)

(* The linker's table: a program that is moved has every relocation entry   *)
(* in its table, and no entry patches an entry.                             *)
ASSUME TableAssumption ==
  \A p \in Programs : LoadOffset(p) # 0 =>
    \A k \in DOMAIN p.segs : \A r \in DOMAIN p.segs[k].file :
      "R" \in p.segs[k].file[r].flags =>
        /\ p.segs[k].file[r] = RelativeEntry(p.segs[k].file[r].frame)
        /\ p.segs[k].vaddr + r - 1 \in p.rela..(p.rela + Relocations(p) - 1)
        /\ \A j \in DOMAIN p.segs : \A s \in DOMAIN p.segs[j].file :
             p.segs[j].vaddr + s - 1 = p.segs[k].file[r].frame => "R" \notin p.segs[j].file[s].flags

(* No load and no device takes the virtual address of a frame that is, or   *)
(* may become, a table, and no program that of the stack.                   *)
ASSUME LayoutAssumption ==
  /\ UserBase \in Nat /\ StackBase \in Nat /\ StackPages \in Nat
  /\ UserPages \cup {Device} \cup Pages \subseteq Virtual
  /\ (UserPages \cup {Device}) \cap Managed = {}
  /\ \A p \in Programs : ImagePages(p) \cap (StackBase..(StackBase + StackPages - 1)) = {}
  /\ UserMax \in Nat /\ AddrSpace \in Nat /\ UserMax < AddrSpace
  /\ \A a \in 0..(UserMax - 1) : a \div Fan \in Virtual
  /\ Ptrs \subseteq Nat /\ Lens \subseteq Nat /\ MaxLoads \in Nat

----------------------------------------------------------------------------
(* One page of a load: a frame is taken, then map_page.                     *)
MapFresh(v, fl) ==
  IF free = << >> THEN [mem |-> mem, free |-> free, ok |-> FALSE]
  ELSE map_page(mem, Tail(free), v, Head(free), fl)

(* from_elf returns its error: nothing that it took is given back.          *)
Advance(s) ==
  /\ mem' = s.mem
  /\ free' = s.free
  /\ phase' = IF s.ok THEN phase ELSE "idle"
  /\ page' = IF s.ok THEN page + 1 ELSE page

Start(p) ==
  /\ phase = "idle"
  /\ loads < MaxLoads
  /\ phase' = "load"
  /\ prog' = p
  /\ seg' = 1
  /\ page' = 0
  /\ image' = {}
  /\ loads' = loads + 1
  /\ UNCHANGED <<mem, free, kstack>>

LoadPage ==
  /\ phase = "load"
  /\ seg \in DOMAIN prog.segs
  /\ FirstPage(prog, seg) + page < EndPage(prog, seg)
  /\ Advance(MapFresh(FirstPage(prog, seg) + page, SegFlags(prog.segs[seg])))
  /\ UNCHANGED <<prog, seg, kstack, image, loads>>

(* The zeroes after the file's words are left out.                          *)
CopySegmentNoBss ==
  /\ phase = "load"
  /\ seg \in DOMAIN prog.segs
  /\ FirstPage(prog, seg) + page >= EndPage(prog, seg)
  /\ mem' = Store(mem, prog.segs[seg].vaddr + LoadOffset(prog), prog.segs[seg].file)
  /\ seg' = seg + 1
  /\ page' = 0
  /\ UNCHANGED <<free, phase, prog, kstack, image, loads>>

CopySegment ==
  /\ phase = "load"
  /\ seg \in DOMAIN prog.segs
  /\ FirstPage(prog, seg) + page >= EndPage(prog, seg)
  /\ mem' = Store(mem, prog.segs[seg].vaddr + LoadOffset(prog), SegWords(prog.segs[seg]))
  /\ seg' = seg + 1
  /\ page' = 0
  /\ UNCHANGED <<free, phase, prog, kstack, image, loads>>

(* apply_relocations, once the segments are in: one entry after another,    *)
(* counted by page.                                                         *)
apply_relocations ==
  /\ phase = "load"
  /\ seg \notin DOMAIN prog.segs
  /\ page < Relocations(prog)
  /\ mem' = Patch(mem, prog.rela + page, LoadOffset(prog))
  /\ page' = page + 1
  /\ UNCHANGED <<free, phase, prog, seg, kstack, image, loads>>

(* The kernel stack is looked at, and left with the allocator.              *)
KernelStackPeek ==
  /\ phase = "load"
  /\ seg \notin DOMAIN prog.segs
  /\ page >= Relocations(prog)
  /\ page' = 0
  /\ IF free = << >> THEN phase' = "idle" /\ UNCHANGED <<free, kstack>>
     ELSE phase' = "stack" /\ kstack' = Head(free) /\ UNCHANGED free
  /\ UNCHANGED <<mem, prog, seg, image, loads>>

(* load has returned: the frame of the new kernel stack.                    *)
KernelStack ==
  /\ phase = "load"
  /\ seg \notin DOMAIN prog.segs
  /\ page >= Relocations(prog)
  /\ page' = 0
  /\ IF free = << >> THEN phase' = "idle" /\ UNCHANGED <<free, kstack>>
     ELSE phase' = "stack" /\ kstack' = Head(free) /\ free' = Tail(free)
  /\ UNCHANGED <<mem, prog, seg, image, loads>>

StackPage ==
  /\ phase = "stack"
  /\ page < StackPages
  /\ Advance(MapFresh(StackBase + page, {"P", "W", "U"}))
  /\ UNCHANGED <<prog, seg, kstack, image, loads>>

Finish ==
  /\ phase = "stack"
  /\ page = StackPages
  /\ phase' = "idle"
  /\ image' = {prog}
  /\ UNCHANGED <<mem, free, prog, seg, page, kstack, loads>>

(* init_local_apic: the device's page is mapped to itself if nothing is;    *)
(* a refusal is ignored.                                                    *)
MapDevice ==
  /\ phase = "idle"
  /\ translate(mem, Device) = {}
  /\ LET s == map_page(mem, free, Device, Device, {"P", "W"})
     IN  mem' = s.mem /\ free' = s.free
  /\ UNCHANGED <<phase, prog, seg, page, kstack, image, loads>>

(* The pages whose own frame the tables no longer lead to.                  *)
Remapped(m) == {v \in Pages : Present(Leaf(m, v)) /\ Leaf(m, v).frame # v}

Unmap(v) ==
  /\ phase = "idle"
  /\ v \in Remapped(mem)
  /\ mem' = unmap_page(mem, v)
  /\ image' = {}
  /\ UNCHANGED <<free, phase, prog, seg, page, kstack, loads>>

Next ==
  \/ \E p \in Programs : Start(p)
  \/ LoadPage
  \/ CopySegment
  \/ apply_relocations
  \/ KernelStack
  \/ StackPage
  \/ Finish
  \/ MapDevice
  \/ \E v \in Pages : Unmap(v)

Spec == Init /\ [][Next]_vars

----------------------------------------------------------------------------
(* The pages checked stop before the one that holds the slice's last word.  *)
SlicePagesShort(ptr, len) == (ptr \div Fan)..((ptr + len - 1 - Fan) \div Fan)

(* The pages of a slice, first to last.                                     *)
SlicePages(ptr, len) == (ptr \div Fan)..((ptr + len - 1) \div Fan)

BadAddress(ptr, len) == ptr = 0 \/ (len # 0 /\ (ptr + len >= AddrSpace \/ ptr + len > UserMax))

(* Whether validate_user_slice lets the slice through.                      *)
validate_user_slice(m, ptr, len) ==
  /\ ~BadAddress(ptr, len)
  /\ len # 0 => \A v \in SlicePages(ptr, len) : translate(m, v) # {}

(* Whether validate_user_slice_mut does.                                    *)
validate_user_slice_mut(m, ptr, len) ==
  /\ ~BadAddress(ptr, len)
  /\ len # 0 => \A v \in SlicePages(ptr, len) : {"P", "W"} \subseteq translate_flags(m, v)

----------------------------------------------------------------------------
(* Every table of the hierarchy is mapped at the address of its own frame,  *)
(* so get_table reaches the table the processor uses (paging.rs, get_table: *)
(* its safety comment asks for just this), through every split, new table   *)
(* and half-made mapping.                                                   *)
TablesAtIdentity == \A f \in Tables(mem) : Leaf(mem, f).frame = f /\ Present(Leaf(mem, f))

(* No step of a load, whole or refused half way, changes where more than    *)
(* one page leads or its flags: a split huge page still maps its other      *)
(* pages as it did, and a new table shows nothing of what its frame held.   *)
OnePageAtATime ==
  [][Cardinality({v \in Pages : Leaf(mem, v)' # Leaf(mem, v)}) <= 1]_vars

(* Two pages that a load mapped never share a frame, and such a frame is no *)
(* table, no kernel stack and not still with the allocator.                 *)
PagesArePrivate ==
  /\ \A u, v \in Remapped(mem) : Leaf(mem, u).frame = Leaf(mem, v).frame => u = v
  /\ \A v \in Remapped(mem) :
       Leaf(mem, v).frame \notin Tables(mem) \cup {kstack} \cup FreeSet(free)
  /\ (Tables(mem) \cup {kstack}) \cap FreeSet(free) = {}
  /\ kstack \notin Tables(mem)

(* The frames someone can still reach: the allocator, the tables, the       *)
(* current kernel stack, the pages that loads mapped.                       *)
Reached(m, fr, k) ==
  FreeSet(fr) \cup Tables(m) \cup {k} \cup {Leaf(m, v).frame : v \in Remapped(m)}

(* from_elf gives nothing back and remaps what its predecessor used, but a  *)
(* step loses at most one frame (the page's former one, the one in hand     *)
(* when map_page was refused, the former kernel stack), and never a table.  *)
AtMostOneLost ==
  [][/\ Cardinality(Reached(mem, free, kstack) \ Reached(mem, free, kstack)') <= 1
     /\ Tables(mem) \subseteq Tables(mem)']_vars

PageDisjoint(p) ==
  \A j, k \in DOMAIN p.segs : j < k =>
    SegPages(p, j) \cap SegPages(p, k) = {}

(* The word a program has at offset a once relocated.                       *)
ImageWord(p, s, k) ==
  LET a == s.vaddr + k - 1
      relocated == \E t \in DOMAIN p.segs : \E r \in DOMAIN p.segs[t].file :
                     p.segs[t].file[r] = RelativeEntry(a)
  IN  IF relocated /\ LoadOffset(p) # 0 THEN Word(a + LoadOffset(p)) ELSE SegWords(s)[k]

(* Once from_elf has returned a process, every word of every segment is in  *)
(* memory at its address: the file's, zero past the file, or the relocated  *)
(* value - unless two segments share a page, which the second one's frame   *)
(* then takes over (elf.rs, load).                                          *)
ImageIntact ==
  \A p \in image : PageDisjoint(p) =>
    \A j \in DOMAIN p.segs : \A k \in 1..Len(SegWords(p.segs[j])) :
      Fetch(mem, p.segs[j].vaddr + LoadOffset(p) + k - 1) = ImageWord(p, p.segs[j], k)

(* A slice passes validate_user_slice exactly when the processor can read   *)
(* each of its words below UserMax, and the other check when it can write   *)
(* them; null never does and an empty slice always.                         *)
SlicesExact ==
  \A ptr \in Ptrs, len \in Lens :
    LET words == ptr..(ptr + len - 1)
        May(fl) == ptr # 0 /\ \A a \in words : a < UserMax /\ fl \subseteq Leaf(mem, a \div Fan).flags
    IN  /\ validate_user_slice(mem, ptr, len) = May({"P"})
        /\ validate_user_slice_mut(mem, ptr, len) = May({"P", "W"})
=============================================================================
