-------------------------------- MODULE Vfs --------------------------------
(***************************************************************************)
(* The mount table of vfs/mod.rs and the lookup of a path in it.  A mount  *)
(* is a mount point and a file system (the vnode of its root); mounts is   *)
(* the table in the order of the mount calls.                              *)
(***************************************************************************)
EXTENDS Initramfs

VARIABLE mounts

mount(path, fs) == mounts' = Append(mounts, [mountpoint |-> path, fs |-> fs])

(* normalize_path of this file: it also starts the path with a slash.       *)
vfs_normalize(path) ==
  LET s == Squeezed(path)
  IN  IF s = << >> THEN Root ELSE IF s[1] # Slash THEN <<Slash>> \o s ELSE s

(* The first mount point that fits, however short.                          *)
FindFirst(path) == {i \in DOMAIN mounts : /\ IsPrefix(mounts[i].mountpoint, path)
                                          /\ \A j \in 1..(i - 1) : ~IsPrefix(mounts[j].mountpoint, path)}

(* find_mount_point: the longest mount point that is a prefix of the path's *)
(* characters, the earliest of equals; none or one.                         *)
find_mount_point(path) ==
  LET fits == {i \in DOMAIN mounts : IsPrefix(mounts[i].mountpoint, path)}
      size(i) == Len(mounts[i].mountpoint)
  IN  {i \in fits : \A j \in fits : size(j) < size(i) \/ (size(j) = size(i) /\ i <= j)}

(* From the root of a file system down the components, to the first error.  *)
Walk(fs, cs) ==
  FoldLeft(LAMBDA v, c : IF v.err # "" THEN v ELSE node_lookup(fs, v.path, c), Vnode(Root), cs)

(* VfsTree::lookup: the mount and the node in it.                           *)
lookup(path) ==
  LET n == vfs_normalize(path)
      found == find_mount_point(n)
      i == CHOOSE k \in found : TRUE
      mp == mounts[i].mountpoint
      rest == IF mp = Root THEN Tail(n) ELSE SubSeq(n, Len(mp) + 1, Len(n))
  IN  IF found = {} THEN [mount |-> 0, node |-> Err("NotFound")]
      ELSE [mount |-> i, node |-> Walk(mounts[i].fs, Components(Pieces(rest)))]

----------------------------------------------------------------------------
(* What a lookup should find: the mount whose components are the most that  *)
(* the path starts with, and there the entry with the remaining ones, all   *)
(* of whose ancestors are directories.                                      *)

Parts(path) == Components(Pieces(path))

Covering(path) == {i \in DOMAIN mounts : IsPrefix(Parts(mounts[i].mountpoint), Parts(path))}

Deepest(path) ==
  LET depth(i) == Len(Parts(mounts[i].mountpoint))
  IN  {i \in Covering(path) : \A j \in Covering(path) :
         depth(j) < depth(i) \/ (depth(j) = depth(i) /\ i <= j)}

Resolve(path) ==
  LET i == CHOOSE k \in Deepest(path) : TRUE
      cs == SubSeq(Parts(path), Len(Parts(mounts[i].mountpoint)) + 1, Len(Parts(path)))
      at(k) == IF k = 0 THEN Root ELSE PathOf(SubSeq(cs, 1, k))
      fs == mounts[i].fs
      bad == {k \in 0..(Len(cs) - 1) : at(k) \notin DOMAIN fs \/ ~fs[at(k)].dir}
  IN  IF Deepest(path) = {} THEN [mount |-> 0, node |-> Err("NotFound")]
      ELSE [mount |-> i,
            node |-> IF bad # {}
                     THEN Err(IF at(CHOOSE k \in bad : \A l \in bad : k <= l) \in DOMAIN fs
                              THEN "NotADirectory" ELSE "NotFound")
                     ELSE IF at(Len(cs)) \in DOMAIN fs THEN Vnode(at(Len(cs))) ELSE Err("NotFound")]

(* No mount point is a prefix of the path's characters that ends inside one *)
(* of its components (/mnt of /mnt2), where find_mount_point goes astray.   *)
NoStraddle(path) ==
  \A i \in DOMAIN mounts :
    IsPrefix(mounts[i].mountpoint, vfs_normalize(path)) => i \in Covering(path)
=============================================================================
