----------------------------- MODULE Initramfs -----------------------------
(***************************************************************************)
(* The archive that the kernel builds for itself at boot                   *)
(* (userspace_blob.rs) and the read-only file system it parses out of it   *)
(* (vfs/initramfs.rs).  A path is a sequence of characters.  An archive    *)
(* has a length in bytes, the headers at their positions with the name     *)
(* each one announces, and the bytes of the files; parsing has only        *)
(* positions to go by, so builder and parser must agree on every padding.  *)
(***************************************************************************)
EXTENDS Naturals, FiniteSets, SequencesExt

(* Bytes of a newc header.                                                  *)
Header == 110

Slash == "/"

Root == <<Slash>>

Trailer == <<"!">>

align4(x) == ((x + 3) \div 4) * 4

----------------------------------------------------------------------------
(* userspace_blob.rs.                                                       *)

EmptyArchive == [len |-> 0, head |-> << >>, bytes |-> << >>]

(* The name is not padded.                                                  *)
AppendUnpadded(a, name, data) ==
  LET start == a.len + Header + Len(name) + 1
  IN  [len |-> align4(start + Len(data)),
       head |-> a.head @@ (a.len :> [name |-> name, namesize |-> Len(name) + 1,
                                     filesize |-> Len(data), dir |-> FALSE]),
       bytes |-> a.bytes @@ [p \in start..(start + Len(data) - 1) |-> data[p - start + 1]]]

(* append_cpio_entry: the name with its NUL and the data, each padded.      *)
append_cpio_entry(a, name, data) ==
  LET start == align4(a.len + Header + Len(name) + 1)
  IN  [len |-> align4(start + Len(data)),
       head |-> a.head @@ (a.len :> [name |-> name, namesize |-> Len(name) + 1,
                                     filesize |-> Len(data), dir |-> FALSE]),
       bytes |-> a.bytes @@ [p \in start..(start + Len(data) - 1) |-> data[p - start + 1]]]

(* build_initramfs, for a list of files, and the trailer.                   *)
build_initramfs(files) ==
  append_cpio_entry(FoldLeft(LAMBDA a, f : append_cpio_entry(a, f.name, f.data), EmptyArchive, files),
                    Trailer, << >>)

----------------------------------------------------------------------------
(* Paths.                                                                   *)

(* split('/'): the pieces between slashes, empty ones included.             *)
Pieces(path) ==
  FoldLeft(LAMBDA ps, c : IF c = Slash THEN Append(ps, << >>)
                          ELSE [ps EXCEPT ![Len(ps)] = Append(@, c)],
           << << >> >>, path)

Components(pieces) == SelectSeq(pieces, LAMBDA p : p # << >>)

(* The path with these components.                                          *)
PathOf(cs) == FlattenSeq([k \in DOMAIN cs |-> <<Slash>> \o cs[k]])

(* Runs of slashes become one, and a last one is dropped.                   *)
Squeezed(path) ==
  LET s == FoldLeft(LAMBDA n, c : IF c = Slash /\ n # << >> /\ Last(n) = Slash THEN n ELSE Append(n, c),
                    << >>, path)
  IN  IF Len(s) > 1 /\ Last(s) = Slash THEN Front(s) ELSE s

normalize_path(path) == IF path = << >> THEN Root ELSE Squeezed(path)

is_child_of(path, parent) ==
  IF parent = Root THEN path # << >> /\ path[1] = Slash /\ ~Contains(Tail(path), Slash)
  ELSE /\ IsPrefix(parent, path)
       /\ Len(path) > Len(parent)
       /\ LET rest == SubSeq(path, Len(parent) + 1, Len(path))
          IN  rest[1] = Slash /\ ~Contains(Tail(rest), Slash)

get_relative_name(path, parent) ==
  IF parent = Root THEN Tail(path) ELSE SubSeq(path, Len(parent) + 2, Len(path))

----------------------------------------------------------------------------
(* InitramfsFs::parse.                                                      *)

(* The entries met from position 0 to the trailer, a wrong magic or the     *)
(* first header, name or file that does not fit.                            *)
Records(a) ==
  LET from[pos \in Nat] ==
        IF pos + Header > a.len \/ pos \notin DOMAIN a.head THEN << >>
        ELSE LET h == a.head[pos]
                 start == align4(pos + Header + h.namesize)
                 end == start + h.filesize
             IN  IF pos + Header + h.namesize > a.len \/ h.name = Trailer \/ end > a.len THEN << >>
                 ELSE <<[name |-> h.name,
                         dir |-> h.dir,
                         data |-> [k \in 1..h.filesize |->
                                     IF start + k - 1 \in DOMAIN a.bytes THEN a.bytes[start + k - 1] ELSE 0]]>>
                      \o from[align4(end)]
  IN  from[0]

Directory == [dir |-> TRUE, data |-> << >>]

(* Inserted in order: a later record replaces an earlier one of its name.   *)
Inserted(rs) ==
  FoldLeft(LAMBDA m, r : (r.name :> [dir |-> r.dir, data |-> r.data]) @@ m, Root :> Directory, rs)

(* Only the last directory of a path is made.                               *)
CreateLastParent(es) ==
  LET made == {PathOf(SubSeq(Components(Tail(Pieces(p))), 1, Len(Components(Tail(Pieces(p)))) - 1)) :
                 p \in {q \in DOMAIN es : Len(Components(Tail(Pieces(q)))) > 1}}
  IN  es @@ [p \in made |-> Directory]

(* create_parent_dirs: a directory for every leading part of a path, the    *)
(* part before the first slash skipped, unless there is an entry.           *)
create_parent_dirs(es) ==
  LET made == UNION {LET cs == Components(Tail(Pieces(p)))
                     IN  {PathOf(SubSeq(cs, 1, k)) : k \in 1..Len(cs)} : p \in DOMAIN es \ {Root}}
  IN  es @@ [p \in made |-> Directory]

compute_children(es, parent) ==
  {get_relative_name(p, parent) : p \in {q \in DOMAIN es : is_child_of(q, parent)}} \ {<< >>}

(* The file system: each path's kind and data, and a directory's names.     *)
parse(a) ==
  LET es == create_parent_dirs(Inserted(Records(a)))
  IN  [p \in DOMAIN es |->
         [dir |-> es[p].dir,
          data |-> es[p].data,
          children |-> IF es[p].dir THEN compute_children(es, p) ELSE {}]]

----------------------------------------------------------------------------
(* Vnodes: what an operation returns, an error's name or the value.         *)

Vnode(path) == [err |-> "", path |-> path]

Err(e) == [err |-> e, path |-> << >>]

lookup_path(fs, path) ==
  LET n == normalize_path(path)
  IN  IF n \in DOMAIN fs THEN Vnode(n) ELSE Err("NotFound")

(* Vnode::lookup of a name in the node at path.                             *)
node_lookup(fs, path, name) ==
  IF ~fs[path].dir THEN Err("NotADirectory")
  ELSE IF name \notin fs[path].children THEN Err("NotFound")
  ELSE lookup_path(fs, (IF path = Root THEN Root ELSE path \o <<Slash>>) \o name)

(* Vnode::read into a buffer of n bytes.                                    *)
read(fs, path, offset, n) ==
  LET size == Len(fs[path].data)
      available == size - offset
      to_read == IF available < n THEN available ELSE n
  IN  IF fs[path].dir THEN [err |-> "NotAFile", bytes |-> << >>]
      ELSE IF offset > size THEN [err |-> "", bytes |-> << >>]
      ELSE [err |-> "", bytes |-> SubSeq(fs[path].data, offset + 1, offset + to_read)]
=============================================================================
