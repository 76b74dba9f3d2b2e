-------------------------------- MODULE Boot --------------------------------
(***************************************************************************)
(* The kernel's start (main.rs): the memory map of the boot loader, the    *)
(* archive of user programs mounted as root file system, the first         *)
(* process.  A boot information block has a size and its tags at their     *)
(* positions; memory is counted in frames.  After the start, other code    *)
(* may mount more file systems.                                            *)
(***************************************************************************)
EXTENDS Vfs

CONSTANTS Inputs,      \* what a boot may find: tags, and the files built in
          MaxRegions,  \* MAX_MEMORY_REGIONS
          InitFrames,  \* frames that from_elf takes for the first process
          MountPoints, Extra, MaxMounts,  \* later mounts, and their bound
          Paths                           \* what is asked of the file systems

ASSUME BootAssumption == MaxRegions \in Nat \ {0} /\ InitFrames \in Nat \ {0}

VARIABLES input,    \* the boot loader's tags and the built-in files
          step,     \* the next part of _start_multiboot2
          regions,  \* the memory map read
          frames,   \* frames the allocator was given
          elf       \* the first program, as read

vars == <<input, step, regions, frames, elf, mounts>>

InitPath == <<Slash, "i">>

Init ==
  /\ input \in Inputs
  /\ step = "map"
  /\ regions = << >>
  /\ frames = 0
  /\ elf = << >>
  /\ mounts = << >>

----------------------------------------------------------------------------
(* The boot information block, external: tags start at byte 8, each at a    *)
(* multiple of 8.  A memory-map tag (type 6) has a header of 16 bytes and   *)
(* entries of esize bytes; type 0 ends the list.                            *)

align8(x) == ((x + 7) \div 8) * 8

TagSize(t) == IF t.type = 6 THEN 16 + t.esize * Len(t.entries) ELSE t.size

TagPos(tags) ==
  LET pos[k \in 1..(Len(tags) + 1)] == IF k = 1 THEN 8 ELSE pos[k - 1] + align8(TagSize(tags[k - 1]))
  IN  pos

BootInfo(tags) ==
  LET pos == TagPos(tags)
  IN  [total |-> pos[Len(tags) + 1],
       at |-> [p \in {pos[k] : k \in DOMAIN tags} |-> tags[CHOOSE k \in DOMAIN tags : pos[k] = p]]]

(* The next tag is looked for right after this one.                         *)
TagsUnaligned(info) ==
  LET from[pos \in Nat] ==
        IF pos + 8 > info.total \/ pos \notin DOMAIN info.at \/ info.at[pos].type = 0 THEN << >>
        ELSE <<info.at[pos]>> \o from[pos + TagSize(info.at[pos])]
  IN  from[8]

(* The tags that the loop of parse_multiboot2_memory_map visits.            *)
Tags(info) ==
  LET from[pos \in Nat] ==
        IF pos + 8 > info.total \/ pos \notin DOMAIN info.at \/ info.at[pos].type = 0 THEN << >>
        ELSE <<info.at[pos]>> \o from[pos + align8(TagSize(info.at[pos]))]
  IN  from[8]

MemoryKind(type) ==
  CASE type = 1 -> "Usable"
    [] type = 3 -> "AcpiReclaimable"
    [] type = 4 -> "AcpiNvs"
    [] OTHER -> "Reserved"

Region(e) == [start |-> e.base, end |-> e.base + e.length, kind |-> MemoryKind(e.type)]

(* The entries of a tag go to the regions while both last.                  *)
AddEntries(rs, t) ==
  LET fits == (TagSize(t) - 16) \div t.esize
      n == IF fits < MaxRegions - Len(rs) THEN fits ELSE MaxRegions - Len(rs)
  IN  rs \o [k \in 1..n |-> Region(t.entries[k])]

parse_multiboot2_memory_map(info) ==
  FoldLeft(LAMBDA rs, t : IF t.type = 6 THEN AddEntries(rs, t) ELSE rs, << >>, Tags(info))

(* The frames of the usable regions.                                        *)
Usable(rs) ==
  FoldLeft(LAMBDA n, r : IF r.kind = "Usable" THEN n + (r.end - r.start) ELSE n, 0, rs)

----------------------------------------------------------------------------
(* The memory map, and the allocator if there is one.                       *)
ReadMap ==
  /\ step = "map"
  /\ regions' = parse_multiboot2_memory_map(BootInfo(input.tags))
  /\ frames' = IF regions' = << >> THEN 0 ELSE Usable(regions')
  /\ step' = "files"
  /\ UNCHANGED <<input, elf, mounts>>

(* The file system that each list of files is built and parsed into.        *)
RootFs == [files \in {i.files : i \in Inputs} |-> parse(build_initramfs(files))]

(* The heap, then the archive: built, parsed and mounted.                   *)
MountInitramfs ==
  /\ step = "files"
  /\ mount(Root, RootFs[input.files])
  /\ step' = "init"
  /\ UNCHANGED <<input, regions, frames, elf>>

(* stat of the first program is skipped: a fixed buffer of two bytes.       *)
ReadInitFixed ==
  /\ step = "init"
  /\ LET v == lookup(InitPath)
         fs == mounts[v.mount].fs
         r == read(fs, v.node.path, 0, 2)
     IN  IF v.node.err # "" THEN step' = "panic" /\ UNCHANGED elf
         ELSE IF r.err # "" THEN step' = "panic" /\ UNCHANGED elf
         ELSE step' = "exec" /\ elf' = r.bytes
  /\ UNCHANGED <<input, regions, frames, mounts>>

(* The first program is looked up, measured and read whole.                 *)
ReadInit ==
  /\ step = "init"
  /\ LET v == lookup(InitPath)
         fs == mounts[v.mount].fs
         r == read(fs, v.node.path, 0, Len(fs[v.node.path].data))
     IN  IF v.node.err # "" THEN step' = "panic" /\ UNCHANGED elf
         ELSE IF r.err # "" THEN step' = "panic" /\ UNCHANGED elf
         ELSE step' = "exec" /\ elf' = r.bytes
  /\ UNCHANGED <<input, regions, frames, mounts>>

(* from_elf: a file that is no ELF (here: empty) or too few frames panic;   *)
(* otherwise process 1 is the scheduler's first task and is entered.        *)
StartInit ==
  /\ step = "exec"
  /\ step' = IF elf = << >> \/ frames < InitFrames THEN "panic" ELSE "running"
  /\ frames' = IF frames < InitFrames THEN 0 ELSE frames - InitFrames
  /\ UNCHANGED <<input, regions, elf, mounts>>

Mount(path, fs) ==
  /\ step = "running"
  /\ Len(mounts) < MaxMounts
  /\ mount(path, fs)
  /\ UNCHANGED <<input, step, regions, frames, elf>>

Next ==
  \/ ReadMap
  \/ MountInitramfs
  \/ ReadInit
  \/ StartInit
  \/ \E path \in MountPoints, fs \in Extra : Mount(path, fs)

Spec == Init /\ [][Next]_vars

----------------------------------------------------------------------------
(* The entries of the memory-map tags before the end tag, in order.         *)
MapEntries(tags) ==
  LET ends == {k \in DOMAIN tags : tags[k].type = 0}
      before == SelectSeq(SubSeq(tags, 1, IF ends = {} THEN Len(tags)
                                          ELSE (CHOOSE k \in ends : \A l \in ends : k <= l) - 1),
                          LAMBDA t : t.type = 6)
  IN  FlattenSeq([k \in DOMAIN before |-> before[k].entries])

(* The map that boot hands to the allocator is the loader's: every entry of *)
(* every memory-map tag before the end tag, in order, whatever the sizes of *)
(* the tags between them, up to MAX_MEMORY_REGIONS.                         *)
MapFaithful ==
  step # "map" =>
    LET es == MapEntries(input.tags)
        n == IF Len(es) < MaxRegions THEN Len(es) ELSE MaxRegions
    IN  regions = [k \in 1..n |-> Region(es[k])]

FileOf(files, path) == {f \in ToSet(files) : f.name = path}

(* Building and parsing the archive loses nothing and invents nothing: the  *)
(* root file system has each file with its bytes, whatever the lengths of   *)
(* names and files, and otherwise only directories above them.              *)
RoundTrip ==
  mounts # << >> =>
    LET fs == mounts[1].fs
    IN  /\ \A f \in ToSet(input.files) : fs[f.name].data = f.data /\ ~fs[f.name].dir
        /\ \A p \in DOMAIN fs : FileOf(input.files, p) = {} =>
             fs[p].dir /\ (p = Root \/ \E f \in ToSet(input.files) : IsStrictPrefix(p \o <<Slash>>, f.name))

(* A lookup through mounts and vnodes finds the entry of the deepest mount  *)
(* whose ancestors are directories, and else the error of the first         *)
(* component that fails, for paths with doubled, trailing or missing        *)
(* slashes - unless a mount point ends inside a component (NoStraddle).     *)
LookupResolves == \A p \in Paths : NoStraddle(p) => lookup(p) = Resolve(p)

ParentOf(path) == IF Len(Parts(path)) = 1 THEN Root ELSE PathOf(Front(Parts(path)))

(* What readdir lists is what is there: every entry but the root has its    *)
(* parent, a directory's names are those of the entries one level below it, *)
(* and each can be looked up.                                               *)
ListingExact ==
  \A m \in DOMAIN mounts :
    LET fs == mounts[m].fs
    IN  /\ \A p \in DOMAIN fs \ {Root} : ParentOf(p) \in DOMAIN fs
        /\ \A d \in DOMAIN fs : fs[d].dir =>
             /\ fs[d].children = {Last(Parts(p)) : p \in {q \in DOMAIN fs \ {Root} : ParentOf(q) = d}}
             /\ \A c \in fs[d].children : node_lookup(fs, d, c).err = ""

SumOf(es, S) == FoldFunction(+, 0, [k \in S |-> es[k].length])

Bootable ==
  /\ \E f \in FileOf(input.files, InitPath) : f.data # << >>
  /\ LET es == MapEntries(input.tags)
         usable == {k \in DOMAIN es : k <= MaxRegions /\ es[k].type = 1}
     IN  InitFrames <= SumOf(es, usable)

(* The kernel runs the first program exactly when the archive has it and    *)
(* the first MAX_MEMORY_REGIONS entries of the map hold enough memory, and  *)
(* what it runs is that file, whole.                                        *)
BootDecides ==
  /\ step = "panic" => ~Bootable
  /\ step = "running" => Bootable /\ \E f \in FileOf(input.files, InitPath) : elf = f.data
=============================================================================
