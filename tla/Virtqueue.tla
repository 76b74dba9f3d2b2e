----------------------------- MODULE Virtqueue -----------------------------
(***************************************************************************)
(* The virtio ring of the network server (net-server/src/virtio.rs): the   *)
(* descriptors with their free list, the available ring the driver fills   *)
(* and the used ring the device fills.  Ring indices are 16-bit counters   *)
(* that wrap at IdxMod.                                                     *)
(***************************************************************************)
EXTENDS Integers

CONSTANTS QueueSize,  \* QUEUE_SIZE
          IdxMod      \* 2^16

ASSUME VirtqueueAssumption ==
  /\ QueueSize \in Nat \ {0}
  /\ IdxMod \in Nat \ {0}
  /\ IdxMod % QueueSize = 0

Slots == 0..(QueueSize - 1)

(* Virtqueue::init.  The memory is zeroed, so the last descriptor is        *)
(* followed by the first.                                                   *)
NewQueue ==
  [addr      |-> [i \in Slots |-> 0],
   len       |-> [i \in Slots |-> 0],
   flags     |-> [i \in Slots |-> IF i < QueueSize - 1 THEN 1 ELSE 0],
   next      |-> [i \in Slots |-> IF i < QueueSize - 1 THEN i + 1 ELSE 0],
   avail     |-> [i \in Slots |-> 0],
   avail_idx |-> 0,
   used      |-> [i \in Slots |-> [id |-> 0, len |-> 0]],
   used_idx  |-> 0,
   free_head |-> 0,
   last_used |-> 0]

(* send: the head of the free list is taken, whether it is free or not.     *)
SendInPlace(q, addr, len) ==
  LET idx == q.free_head
  IN  [q EXCEPT !.addr[idx] = addr, !.len[idx] = len, !.flags[idx] = 0,
                !.avail[q.avail_idx % QueueSize] = idx,
                !.avail_idx = (@ + 1) % IdxMod]

SendSaturates(q, addr, len) ==
  LET idx == q.free_head
  IN  [q EXCEPT !.free_head = q.next[idx],
                !.addr[idx] = addr, !.len[idx] = len, !.flags[idx] = 0,
                !.avail[q.avail_idx % QueueSize] = idx,
                !.avail_idx = IF @ + 1 < IdxMod THEN @ + 1 ELSE @]

send(q, addr, len) ==
  LET idx == q.free_head
  IN  [q EXCEPT !.free_head = q.next[idx],
                !.addr[idx] = addr, !.len[idx] = len, !.flags[idx] = 0,
                !.avail[q.avail_idx % QueueSize] = idx,
                !.avail_idx = (@ + 1) % IdxMod]

(* recv on a queue with something in it: the buffer's descriptor goes back  *)
(* to the head of the free list.  It is the address to copy from, and how   *)
(* much.                                                                    *)
HasUsed(q) == q.used_idx # q.last_used

recv(q, buf_len) ==
  LET elem == q.used[q.last_used % QueueSize]
  IN  [queue |-> [q EXCEPT !.last_used = (@ + 1) % IdxMod,
                           !.next[elem.id] = q.free_head,
                           !.free_head = elem.id],
       addr  |-> q.addr[elem.id],
       len   |-> IF elem.len < buf_len THEN elem.len ELSE buf_len]

(* The device, at its own position in the available ring: it has work while *)
(* the index differs, and gives a descriptor back through the used ring.    *)
HasWork(q, seen) == q.avail_idx # seen

Taken(q, seen) == q.avail[seen % QueueSize]

GiveBack(q, id, len) ==
  [q EXCEPT !.used[q.used_idx % QueueSize] = [id |-> id, len |-> len],
            !.used_idx = (@ + 1) % IdxMod]
=============================================================================
