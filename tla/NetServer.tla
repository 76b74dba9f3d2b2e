----------------------------- MODULE NetServer -----------------------------
(***************************************************************************)
(* The network server (userspace/net-server): the PCI scan for the card,   *)
(* the receive and the transmit queue, the event loop that lets the TCP/IP *)
(* stack send frames, and the bump allocator all its memory comes from,    *)
(* with the card reading the transmit queue at its own pace.  The stack    *)
(* (smoltcp) and the card are external: the stack sends any frame at any   *)
(* poll, the card reads the queue where the driver put it.                 *)
(***************************************************************************)
EXTENDS Virtqueue, Sequences

CONSTANTS Cards,       \* the sets of <<bus, slot>> positions cards may be at
          Frames,      \* the frames the stack sends: sequences of bytes
          Text,        \* what println! leaves in its buffer
          Zero,        \* a byte never written
          HeapSize,    \* HEAP_SIZE
          Page,        \* the alignment of a queue
          QueueBytes,  \* the size of a queue
          PrintBytes   \* the size of println!'s buffer

ASSUME NetAssumption ==
  /\ {HeapSize, Page, QueueBytes, PrintBytes} \subseteq Nat \ {0}
  /\ \A f \in Frames : f \in Seq({f[i] : i \in DOMAIN f}) /\ Len(f) > 0

VARIABLES pci,          \* where the cards are
          card,         \* what find_virtio_net returned
          step,         \* how far main has come
          next,         \* BumpAllocator.next
          blocks,       \* history: the allocations made
          mem,          \* the heap's bytes, as far as frames are concerned
          rx, tx,       \* the queues
          seen,         \* the card's position in the available ring of tx
          sent,         \* history: the frames given to send
          transmitted   \* history: what the card put on the wire

vars == <<pci, card, step, next, blocks, mem, rx, tx, seen, sent, transmitted>>

-----------------------------------------------------------------------------
(* pci_addr: the fields of a configuration address, side by side.  Bit 31,  *)
(* set in every address, is left out.                                       *)
pci_addr(bus, slot, func, offset) ==
  bus * 2^16 + slot * 2^11 + func * 2^8 + (offset \div 4) * 4

(* The host bridge: only function 0 of a card's slot answers with its id.   *)
IsVirtioNet(a) == \E c \in pci : a = c[1] * 2^16 + c[2] * 2^11

(* find_virtio_net: bus by bus, slot by slot, the first that answers.       *)
Answers == {c \in (0..255) \X (0..31) : IsVirtioNet(pci_addr(c[1], c[2], 0, 0))}

Before(c, d) == c[1] < d[1] \/ (c[1] = d[1] /\ c[2] <= d[2])

find_virtio_net ==
  IF Answers = {} THEN <<>>
  ELSE CHOOSE c \in Answers : \A d \in Answers : Before(c, d)

-----------------------------------------------------------------------------
(* BumpAllocator::alloc from next = n: the start of the block, and the end  *)
(* of it as the new next, unless that passes the end of the heap.           *)
Aligned(n, align) == ((n + align - 1) \div align) * align

NewNextUnaligned(n, size, align) == n + size

NewNext(n, size, align) == Aligned(n, align) + size

Fits(n, size, align) == NewNext(n, size, align) <= HeapSize

Block(n, size, align) == [start |-> Aligned(n, align), size |-> size, align |-> align]

(* dealloc does nothing.                                                    *)
dealloc(n, block) == n

Within(x, b) == x \in b.start..(b.start + b.size - 1)

-----------------------------------------------------------------------------
Init ==
  /\ pci \in Cards
  /\ card = <<>>
  /\ step = "start"
  /\ next = 0
  /\ blocks = {}
  /\ mem = [x \in 0..(HeapSize - 1) |-> Zero]
  /\ rx = NewQueue /\ tx = NewQueue
  /\ seen = 0
  /\ sent = <<>> /\ transmitted = <<>>

(* println!: a buffer that is never given back, or no output at all.        *)
Say(here, after) ==
  /\ step = here
  /\ step' = after
  /\ IF Fits(next, PrintBytes, 1)
     THEN LET b == Block(next, PrintBytes, 1)
          IN  /\ next' = NewNext(next, PrintBytes, 1)
              /\ blocks' = blocks \cup {b}
              /\ mem' = [x \in DOMAIN mem |-> IF Within(x, b) THEN Text ELSE mem[x]]
     ELSE UNCHANGED <<next, blocks, mem>>
  /\ UNCHANGED <<pci, card, rx, tx, seen, sent, transmitted>>

(* Without a card main returns, and _start spins.                           *)
Scan ==
  /\ step = "scan"
  /\ card' = find_virtio_net
  /\ step' = IF card' = <<>> THEN "missing" ELSE "found"
  /\ UNCHANGED <<pci, next, blocks, mem, rx, tx, seen, sent, transmitted>>

(* An allocation of main that panics when there is no memory: the two calls *)
(* of Virtqueue::init, and the vector that tries the allocator out.         *)
Allocate(here, after, size, align) ==
  /\ step = here
  /\ IF Fits(next, size, align)
     THEN /\ next' = NewNext(next, size, align)
          /\ blocks' = blocks \cup {Block(next, size, align)}
          /\ step' = after
     ELSE step' = "panic" /\ UNCHANGED <<next, blocks>>
  /\ UNCHANGED <<pci, card, mem, rx, tx, seen, sent, transmitted>>

(* VirtioTxToken::consume: a buffer for the frame, which the stack fills,   *)
(* send, and the buffer is dropped with the descriptor still pointing at    *)
(* it.                                                                      *)
consume(f) ==
  LET b == Block(next, Len(f), 1)
  IN  IF Fits(next, Len(f), 1)
      THEN /\ next' = dealloc(NewNext(next, Len(f), 1), b)
           /\ blocks' = blocks \cup {b}
           /\ mem' = [x \in DOMAIN mem |->
                        IF Within(x, b) THEN f[x - b.start + 1] ELSE mem[x]]
           /\ tx' = send(tx, b.start, b.size)
           /\ sent' = Append(sent, f)
           /\ UNCHANGED step
      ELSE /\ step' = "panic"
           /\ UNCHANGED <<next, blocks, mem, tx, sent>>

(* VirtioNetDevice::receive, into a buffer of 1514 bytes.  Only the card    *)
(* fills the used ring, and it has no buffer of rx to fill it from.         *)
Receive == rx' = IF HasUsed(rx) THEN recv(rx, 1514).queue ELSE rx

(* One poll in which the stack asks for a received frame and then sends f.  *)
Poll(f) ==
  /\ step = "loop"
  /\ Receive
  /\ consume(f)
  /\ UNCHANGED <<pci, card, seen, transmitted>>

(* The card takes the next descriptor and sends the bytes it points at.     *)
Transmit ==
  /\ HasWork(tx, seen)
  /\ LET id == Taken(tx, seen)
     IN  /\ transmitted' = Append(transmitted,
              [i \in 1..tx.len[id] |->
                 IF tx.flags[id] = 0 THEN mem[tx.addr[id] + i - 1] ELSE Zero])
         /\ tx' = GiveBack(tx, id, 0)
  /\ seen' = (seen + 1) % IdxMod
  /\ UNCHANGED <<pci, card, step, next, blocks, mem, rx, sent>>

Next ==
  \/ Say("start", "scan")
  \/ Scan
  \/ Say("missing", "idle") \/ Say("found", "rx_queue")
  \/ Allocate("rx_queue", "tx_queue", QueueBytes, Page)
  \/ Allocate("tx_queue", "test", QueueBytes, Page)
  \/ Allocate("test", "configure", 1, 1)
  \/ Say("configure", "enter") \/ Say("enter", "loop")
  \/ \E f \in Frames : Poll(f)
  \/ Transmit

(* The card keeps reading the queue it has been notified of.                *)
Spec == Init /\ [][Next]_vars /\ WF_vars(Transmit)

-----------------------------------------------------------------------------
(* No two allocations share a byte, each is aligned as asked and inside the *)
(* heap: the queues the card reads and the frames it sends are never also   *)
(* something else.                                                          *)
BlocksApart ==
  \A b \in blocks :
    /\ b.start % b.align = 0 /\ b.start + b.size <= HeapSize
    /\ \A c \in blocks :
         b # c => b.start + b.size <= c.start \/ c.start + c.size <= b.start

(* A card that never falls a full ring behind.                              *)
KeepsUp == Len(sent) - Len(transmitted) <= QueueSize

(* What is on the wire is what was sent so far, in order.                   *)
AsSent ==
  Len(transmitted) <= Len(sent) /\ transmitted = SubSeq(sent, 1, Len(transmitted))

(* send takes descriptors without asking whether they are free, and no      *)
(* descriptor of tx is ever reclaimed; while the card keeps up, what goes   *)
(* on the wire is nevertheless what was sent, in order, across the wrap of  *)
(* the ring and of the index.                                               *)
InOrder == [][(KeepsUp /\ AsSent) => AsSent']_vars

(* While the card keeps up, every frame sent reaches the wire.              *)
AllTransmitted ==
  []KeepsUp => \A n \in 1..HeapSize : Len(sent) >= n ~> Len(transmitted) >= n
=============================================================================
