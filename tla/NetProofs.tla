----------------------------- MODULE NetProofs -----------------------------
(***************************************************************************)
(* Proofs about NetServer for any heap, any frames, any ring size and any  *)
(* index width that is a multiple of it.                                   *)
(***************************************************************************)
EXTENDS NetServer, TLAPS

(* Time for the solver on steps that a slow machine would not finish in its *)
(* usual five seconds.                                                      *)
USE SMTT(30)

(* Quotient and remainder.                                                  *)
LEMMA DivMod ==
  ASSUME NEW a \in Nat, NEW s \in Nat \ {0}
  PROVE  /\ a = ((a \div s) * s) + (a % s)
         /\ a \div s \in Nat
         /\ a % s \in 0..(s - 1)
  BY SMT

(* What is left of a number written as a multiple and a smaller rest.       *)
LEMMA Remainder ==
  ASSUME NEW q \in Int, NEW s \in Nat \ {0}, NEW r \in 0..(s - 1)
  PROVE  ((q * s) + r) % s = r
  BY SMT

(* A counter that wraps, and its slot.                                      *)
LEMMA NextRemainder ==
  ASSUME NEW a \in Nat, NEW s \in Nat \ {0}
  PROVE  (a + 1) % s = IF (a % s) < s - 1 THEN (a % s) + 1 ELSE 0
  <1> DEFINE q == a \div s
             r == a % s
  <1>1. q \in Nat /\ r \in 0..(s - 1) /\ a = (q * s) + r
    BY DivMod, Zenon
  <1> HIDE DEF q, r
  <1>2. CASE r < s - 1
    <2>1. r + 1 \in 0..(s - 1) /\ a + 1 = (q * s) + (r + 1)
      BY <1>1, <1>2
    <2> QED BY <1>1, <1>2, <2>1, Remainder DEF r
  <1>3. CASE ~(r < s - 1)
    <2>1. a + 1 = ((q + 1) * s) + 0 /\ q + 1 \in Int /\ 0 \in 0..(s - 1)
      BY <1>1, <1>3
    <2>2. (a + 1) % s = 0
      BY <2>1, Remainder, Zenon
    <2> QED BY <1>3, <2>2, Zenon DEF r
  <1> QED BY <1>2, <1>3, Zenon

(* A 16-bit index one further is the wrapped count one further.             *)
LEMMA WrappedNext ==
  ASSUME NEW a \in Nat, NEW s \in Nat \ {0}
  PROVE  ((a % s) + 1) % s = (a + 1) % s
  <1>1. a % s \in 0..(s - 1) /\ a % s \in Nat
    BY DivMod
  <1>2. (a % s) % s = a % s
    <2>1. a % s = (0 * s) + (a % s)
      BY <1>1
    <2> QED BY <1>1, <2>1, Remainder
  <1>3. ((a % s) + 1) % s = IF ((a % s) % s) < s - 1 THEN ((a % s) % s) + 1 ELSE 0
    BY <1>1, NextRemainder, Zenon
  <1>4. (a + 1) % s = IF (a % s) < s - 1 THEN (a % s) + 1 ELSE 0
    BY NextRemainder, Zenon
  <1> QED BY <1>2, <1>3, <1>4

(* Wrapping at a multiple of the ring's size keeps the slot.                *)
LEMMA WrappedSlot ==
  ASSUME NEW a \in Nat
  PROVE  /\ (a % IdxMod) % QueueSize = a % QueueSize
         /\ a % QueueSize \in Slots
         /\ a % IdxMod \in Nat
  <1> DEFINE p == a \div IdxMod
             i == a % IdxMod
             k == IdxMod \div QueueSize
  <1>0. IdxMod \in Nat \ {0} /\ QueueSize \in Nat \ {0} /\ IdxMod % QueueSize = 0
    BY VirtqueueAssumption, Zenon
  <1>1. p \in Nat /\ i \in 0..(IdxMod - 1) /\ a = (p * IdxMod) + i
    BY <1>0, DivMod, Zenon
  <1>2. k \in Nat /\ IdxMod = k * QueueSize
    <2>1. k \in Nat /\ IdxMod = (k * QueueSize) + (IdxMod % QueueSize)
      BY <1>0, DivMod, Zenon
    <2> QED BY <1>0, <2>1
  <1>3. a % QueueSize \in Slots
    BY <1>0, DivMod, Zenon DEF Slots
  <1> HIDE DEF p, i, k
  <1> DEFINE u == i \div QueueSize
             v == i % QueueSize
  <1>4. u \in Nat /\ v \in 0..(QueueSize - 1) /\ i = (u * QueueSize) + v
    <2>1. i \in Nat
      BY <1>1
    <2> QED BY <1>0, <2>1, DivMod, Zenon
  <1>5. i % QueueSize = v
    BY Zenon
  <1> HIDE DEF u, v
  <1>6. a = (((p * k) + u) * QueueSize) + v
    <2>1. p * IdxMod = (p * k) * QueueSize
      BY <1>0, <1>1, <1>2
    <2>2. ((p * k) * QueueSize) + (u * QueueSize) = ((p * k) + u) * QueueSize
      BY <1>0, <1>1, <1>2, <1>4
    <2> QED BY <1>0, <1>1, <1>4, <2>1, <2>2
  <1>7. a % QueueSize = v
    <2>1. (p * k) + u \in Int
      BY <1>1, <1>2, <1>4
    <2> QED BY <1>0, <1>4, <1>6, <2>1, Remainder, Zenon
  <1>8. i \in Nat
    BY <1>1
  <1> QED BY <1>3, <1>5, <1>7, <1>8, Zenon DEF i

(* Two positions less than a lap apart have different slots.                *)
LEMMA SlotsDiffer ==
  ASSUME NEW a \in Nat, NEW b \in Nat, NEW s \in Nat \ {0}, b < a, a - b < s
  PROVE  a % s # b % s
  <1> DEFINE p == a \div s
             q == b \div s
             i == a % s
             j == b % s
  <1>1. p \in Nat /\ i \in 0..(s - 1) /\ a = (p * s) + i
    BY DivMod, Zenon
  <1>2. q \in Nat /\ j \in 0..(s - 1) /\ b = (q * s) + j
    BY DivMod, Zenon
  <1> HIDE DEF p, q, i, j
  <1> SUFFICES ASSUME i = j PROVE FALSE
    BY Zenon DEF i, j
  <1>3. a - b = (p - q) * s
    BY <1>1, <1>2
  <1>4. p - q \in Int /\ (p - q <= 0 \/ p - q >= 1)
    BY <1>1, <1>2
  <1>5. CASE p - q <= 0
    <2>1. (p - q) * s <= 0
      BY <1>4, <1>5
    <2> QED BY <1>3, <2>1
  <1>6. CASE p - q >= 1
    <2>1. (p - q) * s >= s
      BY <1>4, <1>6
    <2> QED BY <1>3, <2>1
  <1> QED BY <1>4, <1>5, <1>6, Zenon

-----------------------------------------------------------------------------
(* The inductive invariant: everything allocated lies below next, and each  *)
(* frame of the last lap is still in the descriptor, and the memory, send   *)
(* gave it.                                                                 *)
Byte == {Zero, Text} \cup UNION {{f[i] : i \in DOMAIN f} : f \in Frames}
BlockType == [start : Nat, size : Nat \ {0}, align : Nat \ {0}]

Bumped ==
  /\ next \in 0..HeapSize
  /\ blocks \subseteq BlockType
  /\ \A b \in blocks : b.start % b.align = 0 /\ b.start + b.size <= next
  /\ \A b, c \in blocks :
       b # c => b.start + b.size <= c.start \/ c.start + c.size <= b.start

QueueType ==
  [addr : [Slots -> Nat], len : [Slots -> Nat], flags : [Slots -> 0..1],
   next : [Slots -> Slots], avail : [Slots -> Slots], avail_idx : Nat,
   used : [Slots -> [id : Slots, len : Nat]], used_idx : Nat,
   free_head : Slots, last_used : Nat]

Typed ==
  /\ mem \in [0..(HeapSize - 1) -> Byte]
  /\ tx \in QueueType
  /\ sent \in Seq(Frames) /\ transmitted \in Seq(Seq(Byte))
  /\ \A i \in Slots : tx.addr[i] + tx.len[i] <= next

Counted ==
  /\ Len(transmitted) <= Len(sent)
  /\ seen = Len(transmitted) % IdxMod
  /\ tx.avail_idx = Len(sent) % IdxMod
  /\ tx.free_head = Len(sent) % QueueSize
  /\ tx.next = NewQueue.next

Queued ==
  \A n \in 1..Len(sent) :
    Len(sent) - n < QueueSize =>
      LET i == (n - 1) % QueueSize
      IN  /\ tx.avail[i] = i /\ tx.flags[i] = 0 /\ tx.len[i] = Len(sent[n])
          /\ \A j \in 1..Len(sent[n]) : mem[tx.addr[i] + j - 1] = sent[n][j]

NInv == Bumped /\ Typed /\ Counted /\ Queued

-----------------------------------------------------------------------------
(* The allocator.                                                           *)
LEMMA AlignedRounds ==
  ASSUME NEW n \in Nat, NEW a \in Nat \ {0}
  PROVE  Aligned(n, a) \in Nat /\ n <= Aligned(n, a) /\ Aligned(n, a) % a = 0
  <1> DEFINE q == (n + a - 1) \div a
  <1>1. n + a - 1 \in Nat
    OBVIOUS
  <1>2. q \in Nat /\ n + a - 1 = (q * a) + ((n + a - 1) % a) /\ (n + a - 1) % a \in 0..(a - 1)
    BY <1>1, DivMod, Zenon
  <1> HIDE DEF q
  <1>3. q * a \in Nat /\ n <= q * a
    BY <1>2
  <1>4. ((q * a) + 0) % a = 0
    <2>1. q \in Int /\ 0 \in 0..(a - 1)
      BY <1>2
    <2> QED BY <2>1, Remainder, Zenon
  <1>5. Aligned(n, a) = q * a /\ (q * a) + 0 = q * a
    BY <1>3 DEF Aligned, q
  <1> QED BY <1>3, <1>4, <1>5, Zenon

(* A block is carved off above everything allocated so far.                 *)
LEMMA Grows ==
  ASSUME Bumped, NEW size \in Nat \ {0}, NEW align \in Nat \ {0},
         Fits(next, size, align),
         next' = NewNext(next, size, align),
         blocks' = blocks \cup {Block(next, size, align)}
  PROVE  /\ Bumped'
         /\ next <= next'
         /\ Aligned(next, align) \in Nat /\ next <= Aligned(next, align)
         /\ next' = Aligned(next, align) + size
  <1> DEFINE a == Aligned(next, align)
             b == Block(next, size, align)
  <1>1. next \in Nat /\ HeapSize \in Nat
    BY NetAssumption DEF Bumped
  <1>2. a \in Nat /\ next <= a /\ a % align = 0
    BY <1>1, AlignedRounds, Zenon
  <1>3. next' = a + size /\ a + size <= HeapSize
    BY Zenon DEF NewNext, Fits
  <1>4. b = [start |-> a, size |-> size, align |-> align]
    BY Zenon DEF Block
  <1> HIDE DEF a, b
  <1>5. next <= next' /\ next' \in 0..HeapSize
    BY <1>1, <1>2, <1>3
  <1>6. b \in BlockType /\ b.start = a /\ b.size = size /\ b.align = align
    BY <1>2, <1>4, Zenon DEF BlockType
  <1>7. blocks' \subseteq BlockType
    BY <1>6, Zenon DEF Bumped, b
  <1>8. \A c \in blocks : /\ c.start \in Nat /\ c.size \in Nat /\ c.start % c.align = 0
                          /\ c.start + c.size <= next
    BY Zenon DEF Bumped, BlockType
  <1>9. \A c \in blocks' : c.start % c.align = 0 /\ c.start + c.size <= next'
    <2> TAKE c \in blocks'
    <2>1. CASE c \in blocks
      BY <1>1, <1>5, <1>8, <2>1
    <2>2. CASE c = b
      BY <1>2, <1>3, <1>6, <2>2
    <2> QED BY <2>1, <2>2, Zenon DEF b
  <1>10. \A c, d \in blocks' :
           c # d => c.start + c.size <= d.start \/ d.start + d.size <= c.start
    <2> SUFFICES ASSUME NEW c \in blocks', NEW d \in blocks', c # d
                 PROVE  c.start + c.size <= d.start \/ d.start + d.size <= c.start
      BY Zenon
    <2>1. CASE c \in blocks /\ d \in blocks
      BY <2>1, Zenon DEF Bumped
    <2>2. CASE c \in blocks /\ d = b
      BY <1>1, <1>2, <1>6, <1>8, <2>2
    <2>3. CASE c = b /\ d \in blocks
      BY <1>1, <1>2, <1>6, <1>8, <2>3
    <2> QED BY <2>1, <2>2, <2>3, Zenon DEF b
  <1>11. Bumped'
    BY <1>5, <1>7, <1>9, <1>10, Zenon DEF Bumped
  <1> QED BY <1>2, <1>3, <1>5, <1>11, Zenon DEF a

(* What send changes.                                                       *)
Sent(p, q, a, l) ==
  /\ p \in QueueType
  /\ p.free_head = q.next[q.free_head] /\ p.next = q.next
  /\ p.avail_idx = (q.avail_idx + 1) % IdxMod
  /\ \A j \in Slots :
       /\ p.addr[j] = IF j = q.free_head THEN a ELSE q.addr[j]
       /\ p.len[j] = IF j = q.free_head THEN l ELSE q.len[j]
       /\ p.flags[j] = IF j = q.free_head THEN 0 ELSE q.flags[j]
       /\ p.avail[j] = IF j = q.avail_idx % QueueSize THEN q.free_head ELSE q.avail[j]

(* virtqueue send does to each field what Sent says.                        *)
LEMMA SendFields ==
  ASSUME NEW q, NEW a, NEW l, q \in QueueType, a \in Nat, l \in Nat
  PROVE  Sent(send(q, a, l), q, a, l)
  <1> DEFINE p == send(q, a, l)
             i == q.free_head
  <1>1. IdxMod \in Nat \ {0} /\ QueueSize \in Nat \ {0}
    BY VirtqueueAssumption, Zenon
  <1>2. /\ i \in Slots /\ q.avail_idx \in Nat /\ q.next[i] \in Slots
        /\ (q.avail_idx + 1) % IdxMod \in Nat
    <2>1. i \in Slots /\ q.avail_idx \in Nat /\ q.next[i] \in Slots /\ q.avail_idx + 1 \in Nat
      BY DEF QueueType
    <2>2. (q.avail_idx + 1) % IdxMod \in 0..(IdxMod - 1)
      BY <1>1, <2>1, DivMod, Zenon
    <2> QED BY <2>1, <2>2
  <1>3. p = [q EXCEPT !.free_head = q.next[i],
                      !.addr = [q.addr EXCEPT ![i] = a],
                      !.len = [q.len EXCEPT ![i] = l],
                      !.flags = [q.flags EXCEPT ![i] = 0],
                      !.avail = [q.avail EXCEPT ![q.avail_idx % QueueSize] = i],
                      !.avail_idx = (q.avail_idx + 1) % IdxMod]
    BY Zenon DEF send, QueueType
  <1>4. /\ p.free_head = q.next[i] /\ p.next = q.next
        /\ p.avail_idx = (q.avail_idx + 1) % IdxMod
        /\ p.addr = [q.addr EXCEPT ![i] = a]
        /\ p.len = [q.len EXCEPT ![i] = l]
        /\ p.flags = [q.flags EXCEPT ![i] = 0]
        /\ p.avail = [q.avail EXCEPT ![q.avail_idx % QueueSize] = i]
    BY <1>3, Zenon DEF QueueType
  <1>5. p \in QueueType
    <2>1. /\ q.addr \in [Slots -> Nat] /\ q.len \in [Slots -> Nat]
          /\ q.flags \in [Slots -> 0..1] /\ q.avail \in [Slots -> Slots]
          /\ q.next \in [Slots -> Slots] /\ q.used \in [Slots -> [id : Slots, len : Nat]]
          /\ q.used_idx \in Nat /\ q.last_used \in Nat
      BY Zenon DEF QueueType
    <2>2. q.avail_idx % QueueSize \in Slots
      BY <1>2, WrappedSlot, Zenon
    <2> HIDE DEF i
    <2>3. p.addr \in [Slots -> Nat] /\ p.len \in [Slots -> Nat]
      BY <1>2, <1>4, <2>1
    <2>4. p.flags \in [Slots -> 0..1] /\ p.avail \in [Slots -> Slots]
      BY <1>2, <1>4, <2>1, <2>2
    <2>5. p.used = q.used /\ p.used_idx = q.used_idx /\ p.last_used = q.last_used
      BY <1>3, Zenon DEF QueueType
    <2>6. p = [addr |-> p.addr, len |-> p.len, flags |-> p.flags, next |-> p.next,
               avail |-> p.avail, avail_idx |-> p.avail_idx, used |-> p.used,
               used_idx |-> p.used_idx, free_head |-> p.free_head, last_used |-> p.last_used]
      BY <1>3, Zenon DEF QueueType
    <2> HIDE DEF p
    <2> QED BY <1>2, <1>4, <2>1, <2>3, <2>4, <2>5, <2>6, Zenon DEF QueueType
  <1>6. \A j \in Slots :
          /\ p.addr[j] = IF j = i THEN a ELSE q.addr[j]
          /\ p.len[j] = IF j = i THEN l ELSE q.len[j]
          /\ p.flags[j] = IF j = i THEN 0 ELSE q.flags[j]
          /\ p.avail[j] = IF j = q.avail_idx % QueueSize THEN i ELSE q.avail[j]
    BY <1>4 DEF QueueType
  <1>7. Sent(p, q, a, l)
    <2> HIDE DEF p
    <2> QED BY <1>4, <1>5, <1>6, Zenon DEF Sent
  <1> QED BY <1>7, Zenon

-----------------------------------------------------------------------------
(* A frame is a sequence of at least one byte.                              *)
LEMMA FrameFacts ==
  ASSUME NEW f \in Frames
  PROVE  /\ Len(f) \in Nat \ {0} /\ f \in Seq(Byte)
         /\ f = [j \in 1..Len(f) |-> f[j]] /\ \A j \in 1..Len(f) : f[j] \in Byte
  <1>1. f \in Seq({f[i] : i \in DOMAIN f}) /\ Len(f) > 0
    BY NetAssumption, Zenon
  <1>2. Len(f) \in Nat \ {0} /\ DOMAIN f = 1..Len(f) /\ f = [j \in 1..Len(f) |-> f[j]]
    BY <1>1
  <1>3. \A j \in 1..Len(f) : f[j] \in Byte
    BY <1>2 DEF Byte
  <1>4. f \in Seq(Byte)
    BY <1>2, <1>3
  <1> QED BY <1>2, <1>3, <1>4, Zenon

(* An allocation that overwrites nothing below next leaves the frames of    *)
(* the last lap alone.                                                      *)
LEMMA NothingSent ==
  ASSUME NInv, Bumped', next <= next', mem' \in [0..(HeapSize - 1) -> Byte],
         \A x \in 0..(next - 1) : mem'[x] = mem[x],
         UNCHANGED <<tx, seen, sent, transmitted>>
  PROVE  NInv'
  <1> USE DEF NInv
  <1>1. next \in Nat /\ next' \in Nat
    BY DEF Bumped
  <1>2. Typed'
    <2>1. \A i \in Slots : tx.addr[i] \in Nat /\ tx.len[i] \in Nat
      BY Zenon DEF Typed, QueueType
    <2>2. \A i \in Slots : tx.addr[i] + tx.len[i] <= next'
      BY <1>1, <2>1 DEF Typed
    <2> QED BY <2>2, Zenon DEF Typed
  <1>3. Counted'
    BY Zenon DEF Counted
  <1>4. Queued'
    <2> SUFFICES ASSUME NEW n \in 1..Len(sent), Len(sent) - n < QueueSize
                 PROVE  LET i == (n - 1) % QueueSize
                        IN  /\ tx.avail[i] = i /\ tx.flags[i] = 0 /\ tx.len[i] = Len(sent[n])
                            /\ \A j \in 1..Len(sent[n]) : mem'[tx.addr[i] + j - 1] = sent[n][j]
      BY Zenon DEF Queued
    <2> DEFINE i == (n - 1) % QueueSize
    <2>1. n - 1 \in Nat /\ sent[n] \in Frames
      BY DEF Typed
    <2>2. i \in Slots
      BY <2>1, WrappedSlot, Zenon
    <2>3. /\ tx.avail[i] = i /\ tx.flags[i] = 0 /\ tx.len[i] = Len(sent[n])
          /\ \A j \in 1..Len(sent[n]) : mem[tx.addr[i] + j - 1] = sent[n][j]
      BY Zenon DEF Queued
    <2>4. tx.addr[i] \in Nat /\ tx.len[i] \in Nat /\ tx.addr[i] + tx.len[i] <= next
      BY <2>2, Zenon DEF Typed, QueueType
    <2> HIDE DEF i
    <2>5. \A j \in 1..tx.len[i] : tx.addr[i] + j - 1 \in 0..(next - 1)
      <3> DEFINE a == tx.addr[i]
                 l == tx.len[i]
      <3>1. a \in Nat /\ l \in Nat /\ a + l <= next
        BY <2>4, Zenon
      <3> HIDE DEF a, l
      <3>2. \A j \in 1..l : a + j - 1 \in 0..(next - 1)
        BY ONLY <1>1, <3>1
      <3> QED BY <3>2, Zenon DEF a, l
    <2>6. \A j \in 1..Len(sent[n]) : mem'[tx.addr[i] + j - 1] = sent[n][j]
      BY <2>3, <2>5, Zenon
    <2> QED BY <2>3, <2>6, Zenon DEF i
  <1> QED BY <1>2, <1>3, <1>4, Zenon

(* The invariant holds once the driver has set up its queues.               *)
LEMMA InitNInv ==
  ASSUME Init
  PROVE  NInv
  <1>1. IdxMod \in Nat \ {0} /\ QueueSize \in Nat \ {0} /\ HeapSize \in Nat \ {0}
    BY VirtqueueAssumption, NetAssumption, Zenon
  <1>2. 0 \in Slots
    BY <1>1 DEF Slots
  <1>3. 0 % IdxMod = 0 /\ 0 % QueueSize = 0
    BY <1>1, Remainder
  <1>4. tx = NewQueue /\ sent = <<>> /\ transmitted = <<>> /\ seen = 0 /\ next = 0 /\ blocks = {}
        /\ mem = [x \in 0..(HeapSize - 1) |-> Zero]
    BY Zenon DEF Init
  <1>5. Bumped
    BY <1>1, <1>4 DEF Bumped
  <1>6. NewQueue \in QueueType
    <2>1. [i \in Slots |-> IF i < QueueSize - 1 THEN i + 1 ELSE 0] \in [Slots -> Slots]
      BY <1>1, <1>2 DEF Slots
    <2>2. [i \in Slots |-> IF i < QueueSize - 1 THEN 1 ELSE 0] \in [Slots -> 0..1]
      OBVIOUS
    <2> QED BY <1>2, <2>1, <2>2, Zenon DEF NewQueue, QueueType
  <1>7. Typed
    <2>1. Zero \in Byte
      BY Zenon DEF Byte
    <2>2. \A i \in Slots : NewQueue.addr[i] + NewQueue.len[i] <= 0
      BY DEF NewQueue
    <2>3. mem \in [0..(HeapSize - 1) -> Byte]
      BY <1>4, <2>1, Zenon
    <2> QED BY <1>4, <1>6, <2>2, <2>3 DEF Typed
  <1>8. Counted
    BY <1>3, <1>4 DEF Counted, NewQueue
  <1>9. Queued
    BY <1>4 DEF Queued
  <1> QED BY <1>5, <1>7, <1>8, <1>9, Zenon DEF NInv

(* println!                                                                 *)
LEMMA SayNInv ==
  ASSUME NInv, NEW here, NEW after, Say(here, after)
  PROVE  NInv'
  <1> USE DEF NInv
  <1>1. UNCHANGED <<tx, seen, sent, transmitted>>
    BY Zenon DEF Say
  <1>2. CASE Fits(next, PrintBytes, 1)
    <2> DEFINE b == Block(next, PrintBytes, 1)
    <2>1. /\ next' = NewNext(next, PrintBytes, 1)
          /\ blocks' = blocks \cup {b}
          /\ mem' = [x \in DOMAIN mem |-> IF Within(x, b) THEN Text ELSE mem[x]]
      BY <1>2, Zenon DEF Say
    <2>2. PrintBytes \in Nat \ {0} /\ 1 \in Nat \ {0} /\ HeapSize \in Nat
      BY NetAssumption
    <2>3. Bumped' /\ next <= next' /\ Aligned(next, 1) \in Nat /\ next <= Aligned(next, 1)
      BY <1>2, <2>1, <2>2, Grows, Zenon
    <2>4. b.start = Aligned(next, 1) /\ b.size = PrintBytes
      BY Zenon DEF Block
    <2> HIDE DEF b
    <2>5. mem \in [0..(HeapSize - 1) -> Byte] /\ Text \in Byte /\ next \in 0..HeapSize
      BY Zenon DEF Typed, Byte, Bumped
    <2>6. mem' \in [0..(HeapSize - 1) -> Byte]
      BY <2>1, <2>5, Zenon
    <2>7. \A x \in 0..(next - 1) : ~Within(x, b) /\ x \in 0..(HeapSize - 1)
      BY <2>2, <2>3, <2>4, <2>5 DEF Within
    <2>8. \A x \in 0..(next - 1) : mem'[x] = mem[x]
      BY <2>1, <2>5, <2>7, Zenon
    <2> QED BY <1>1, <2>3, <2>6, <2>8, NothingSent, Zenon
  <1>3. CASE ~Fits(next, PrintBytes, 1)
    <2>1. UNCHANGED <<next, blocks, mem>>
      BY <1>3, Zenon DEF Say
    <2>2. Bumped' /\ next <= next'
      BY <2>1 DEF Bumped
    <2>3. mem' \in [0..(HeapSize - 1) -> Byte]
      BY <2>1, Zenon DEF Typed
    <2> QED BY <1>1, <2>1, <2>2, <2>3, NothingSent, Zenon
  <1> QED BY <1>2, <1>3, Zenon

(* The queues and the vector.                                               *)
LEMMA AllocateNInv ==
  ASSUME NInv, NEW here, NEW after, NEW size \in Nat \ {0}, NEW align \in Nat \ {0},
         Allocate(here, after, size, align)
  PROVE  NInv'
  <1> USE DEF NInv
  <1>1. UNCHANGED <<mem, tx, seen, sent, transmitted>>
    BY Zenon DEF Allocate
  <1>2. mem' \in [0..(HeapSize - 1) -> Byte] /\ \A x \in 0..(next - 1) : mem'[x] = mem[x]
    BY <1>1, Zenon DEF Typed
  <1>3. Bumped' /\ next <= next'
    <2>1. CASE Fits(next, size, align)
      <3>1. next' = NewNext(next, size, align) /\ blocks' = blocks \cup {Block(next, size, align)}
        BY <2>1, Zenon DEF Allocate
      <3> QED BY <2>1, <3>1, Grows, Zenon
    <2>2. CASE ~Fits(next, size, align)
      <3>1. UNCHANGED <<next, blocks>>
        BY <2>2, Zenon DEF Allocate
      <3> QED BY <3>1 DEF Bumped
    <2> QED BY <2>1, <2>2, Zenon
  <1> QED BY <1>1, <1>2, <1>3, NothingSent, Zenon

(* The scan changes nothing the invariant mentions.                         *)
LEMMA ScanNInv ==
  ASSUME NInv, Scan
  PROVE  NInv'
  <1> USE DEF NInv
  <1>1. UNCHANGED <<next, blocks, mem, tx, seen, sent, transmitted>>
    BY Zenon DEF Scan
  <1>2. Bumped' /\ next <= next' /\ mem' \in [0..(HeapSize - 1) -> Byte]
    BY <1>1 DEF Bumped, Typed
  <1> QED BY <1>1, <1>2, NothingSent, Zenon

(* A frame is copied above next, and the descriptor send takes is not one   *)
(* of the last lap's.                                                       *)
LEMMA ConsumeNInv ==
  ASSUME NInv, NEW f \in Frames, consume(f), UNCHANGED <<seen, transmitted>>
  PROVE  NInv'
  <1> USE DEF NInv
  <1> DEFINE S == Len(sent)
             b == Block(next, Len(f), 1)
             a == Aligned(next, 1)
  <1>1. /\ Len(f) \in Nat \ {0} /\ f = [j \in 1..Len(f) |-> f[j]]
        /\ \A j \in 1..Len(f) : f[j] \in Byte
    BY FrameFacts, Zenon
  <1>2. /\ IdxMod \in Nat \ {0} /\ QueueSize \in Nat \ {0} /\ HeapSize \in Nat \ {0}
        /\ S \in Nat /\ next \in 0..HeapSize
    BY VirtqueueAssumption, NetAssumption DEF Typed, Bumped
  <1>3. CASE ~Fits(next, Len(f), 1)
    <2>1. UNCHANGED <<next, blocks, mem, tx, sent>>
      BY <1>3, Zenon DEF consume
    <2>2. Bumped' /\ next <= next' /\ mem' \in [0..(HeapSize - 1) -> Byte]
      BY <2>1, <1>2 DEF Bumped, Typed
    <2> QED BY <2>1, <2>2, NothingSent, Zenon
  <1>4. CASE Fits(next, Len(f), 1)
    <2>1. /\ next' = NewNext(next, Len(f), 1)
          /\ blocks' = blocks \cup {b}
          /\ mem' = [x \in DOMAIN mem |-> IF Within(x, b) THEN f[x - b.start + 1] ELSE mem[x]]
          /\ tx' = send(tx, b.start, b.size)
          /\ sent' = Append(sent, f)
      BY <1>4, Zenon DEF consume, dealloc
    <2>2. /\ Bumped' /\ next <= next' /\ a \in Nat /\ next <= a /\ next' = a + Len(f)
      <3>1. 1 \in Nat \ {0}
        OBVIOUS
      <3> QED BY <1>1, <1>4, <2>1, <3>1, Grows, Zenon
    <2>3. b.start = a /\ b.size = Len(f)
      BY Zenon DEF Block
    <2>4. mem \in [0..(HeapSize - 1) -> Byte] /\ next' \in 0..HeapSize /\ DOMAIN mem = 0..(HeapSize - 1)
      BY <2>2, Zenon DEF Typed, Bumped
    <2>5. /\ sent' \in Seq(Frames) /\ Len(sent') = S + 1 /\ sent'[S + 1] = f
          /\ \A n \in 1..S : sent'[n] = sent[n]
      BY <2>1 DEF Typed
    <2> HIDE DEF a, b, S
    <2>6. \A x : Within(x, b) <=> x \in a..(a + Len(f) - 1)
      BY <2>3, Zenon DEF Within
    <2>7. \A x \in 0..(next - 1) : mem'[x] = mem[x]
      <3>1. \A x \in 0..(next - 1) : ~Within(x, b) /\ x \in 0..(HeapSize - 1)
        BY <1>1, <1>2, <2>2, <2>6
      <3> QED BY <2>1, <2>4, <3>1, Zenon
    <2>8. \A j \in 1..Len(f) : mem'[a + j - 1] = f[j]
      <3> TAKE j \in 1..Len(f)
      <3>1. a + j - 1 \in a..(a + Len(f) - 1) /\ a + j - 1 \in 0..(HeapSize - 1)
            /\ (a + j - 1) - a + 1 = j
        <4> DEFINE l == Len(f)
        <4>1. l \in Nat /\ a \in Nat /\ HeapSize \in Nat /\ a + l <= HeapSize /\ j \in 1..l
          BY <1>1, <1>2, <2>2, <2>4
        <4> HIDE DEF l
        <4>2. a + j - 1 \in a..(a + l - 1) /\ a + j - 1 \in 0..(HeapSize - 1)
              /\ (a + j - 1) - a + 1 = j
          BY ONLY <4>1
        <4> QED BY <4>2, Zenon DEF l
      <3> QED BY <2>1, <2>3, <2>4, <2>6, <3>1, Zenon
    <2>9. mem' \in [0..(HeapSize - 1) -> Byte]
      <3>1. ASSUME NEW x \in 0..(HeapSize - 1), Within(x, b) PROVE f[x - b.start + 1] \in Byte
        <4>1. x - b.start + 1 \in 1..Len(f)
          BY <1>1, <2>2, <2>3, <2>6, <3>1
        <4> QED BY <1>1, <4>1, Zenon
      <3> QED BY <2>1, <2>4, <3>1, Zenon
    <2> DEFINE k == S % QueueSize
    <2>10. k \in Slots /\ tx.free_head = k /\ tx.avail_idx % QueueSize = k
           /\ tx.avail_idx = S % IdxMod
      BY <1>2, WrappedSlot, Zenon DEF Counted, S
    <2>11. tx \in QueueType
      BY Zenon DEF Typed
    <2> HIDE DEF k
    <2>12. /\ tx' \in QueueType
           /\ tx'.free_head = tx.next[k] /\ tx'.next = tx.next
           /\ tx'.avail_idx = (tx.avail_idx + 1) % IdxMod
           /\ \A i \in Slots : /\ tx'.addr[i] = IF i = k THEN a ELSE tx.addr[i]
                               /\ tx'.len[i] = IF i = k THEN Len(f) ELSE tx.len[i]
                               /\ tx'.flags[i] = IF i = k THEN 0 ELSE tx.flags[i]
                               /\ tx'.avail[i] = IF i = k THEN k ELSE tx.avail[i]
      <3>1. tx' = send(tx, a, Len(f)) /\ Len(f) \in Nat /\ a \in Nat
        BY <1>1, <2>1, <2>2, <2>3, Zenon
      <3>2. Sent(tx', tx, a, Len(f))
        BY <2>11, <3>1, SendFields, Zenon
      <3> QED BY <2>10, <3>2, Zenon DEF Sent
    <2>13. /\ tx.addr \in [Slots -> Nat] /\ tx.len \in [Slots -> Nat]
           /\ tx.flags \in [Slots -> 0..1] /\ tx.avail \in [Slots -> Slots]
      BY <2>11, Zenon DEF QueueType
    <2>14. \A i \in Slots : tx.addr[i] \in Nat /\ tx.len[i] \in Nat /\ tx.addr[i] + tx.len[i] <= next
      BY <2>13, Zenon DEF Typed
    <2>15. Typed'
      <3>1. \A i \in Slots : tx'.addr[i] + tx'.len[i] <= next'
        <4> TAKE i \in Slots
        <4>1. CASE i = k
          BY <2>2, <2>12, <2>13, <4>1
        <4>2. CASE i # k
          BY <1>2, <2>2, <2>4, <2>12, <2>13, <2>14, <4>2
        <4> QED BY <4>1, <4>2, Zenon
      <3> QED BY <2>5, <2>9, <2>12, <3>1, Zenon DEF Typed
    <2>16. Counted'
      <3>1. tx'.avail_idx = (S + 1) % IdxMod
        <4>1. ((S % IdxMod) + 1) % IdxMod = (S + 1) % IdxMod
          BY <1>2, WrappedNext, Zenon
        <4> QED BY <2>10, <2>12, <4>1, Zenon
      <3>2. tx'.free_head = (S + 1) % QueueSize
        <4>1. tx.next[k] = IF k < QueueSize - 1 THEN k + 1 ELSE 0
          BY <2>10, Zenon DEF Counted, NewQueue
        <4>2. (S + 1) % QueueSize = IF k < QueueSize - 1 THEN k + 1 ELSE 0
          BY <1>2, NextRemainder, Zenon DEF k
        <4> QED BY <2>12, <4>1, <4>2, Zenon
      <3>3. Len(transmitted) <= S + 1
        BY <1>2 DEF Counted, Typed, S
      <3> QED BY <2>5, <2>12, <3>1, <3>2, <3>3, Zenon DEF Counted
    <2>17. Queued'
      <3> SUFFICES ASSUME NEW n \in 1..(S + 1), (S + 1) - n < QueueSize
                   PROVE  LET i == (n - 1) % QueueSize
                          IN  /\ tx'.avail[i] = i /\ tx'.flags[i] = 0
                              /\ tx'.len[i] = Len(sent'[n])
                              /\ \A j \in 1..Len(sent'[n]) :
                                   mem'[tx'.addr[i] + j - 1] = sent'[n][j]
        BY <2>5, Zenon DEF Queued
      <3> DEFINE i == (n - 1) % QueueSize
      <3>1. n - 1 \in Nat /\ i \in Slots
        <4>1. n - 1 \in Nat
          BY <1>2
        <4> QED BY <4>1, WrappedSlot, Zenon
      <3>2. CASE n = S + 1
        <4>1. i = k
          BY <1>2, <3>2 DEF k
        <4> HIDE DEF i
        <4>2. /\ tx'.avail[i] = i /\ tx'.flags[i] = 0 /\ tx'.len[i] = Len(f)
              /\ tx'.addr[i] = a
          BY <2>10, <2>12, <2>13, <4>1, Zenon
        <4> QED BY <2>5, <2>8, <3>2, <4>2, Zenon DEF i
      <3>3. CASE n \in 1..S
        <4>1. i # k
          <5>1. n - 1 < S /\ S - (n - 1) < QueueSize
            BY <1>2, <3>3
          <5> QED BY <1>2, <3>1, <5>1, SlotsDiffer, Zenon DEF k
        <4>2. S - n < QueueSize
          BY <1>2, <3>3
        <4>3. /\ tx.avail[i] = i /\ tx.flags[i] = 0 /\ tx.len[i] = Len(sent[n])
              /\ \A j \in 1..Len(sent[n]) : mem[tx.addr[i] + j - 1] = sent[n][j]
          BY <3>3, <4>2, Zenon DEF Queued, S
        <4> HIDE DEF i
        <4>4. /\ tx'.avail[i] = tx.avail[i] /\ tx'.flags[i] = tx.flags[i]
              /\ tx'.len[i] = tx.len[i] /\ tx'.addr[i] = tx.addr[i]
          BY <2>12, <2>13, <3>1, <4>1, Zenon
        <4>5. \A j \in 1..tx.len[i] : tx.addr[i] + j - 1 \in 0..(next - 1)
          BY <1>2, <2>14, <3>1
        <4>6. \A j \in 1..Len(sent[n]) : mem'[tx.addr[i] + j - 1] = sent[n][j]
          BY <2>7, <4>3, <4>5, Zenon
        <4>7. sent'[n] = sent[n]
          BY <2>5, <3>3, Zenon
        <4>8. /\ tx'.avail[i] = i /\ tx'.flags[i] = 0 /\ tx'.len[i] = Len(sent'[n])
              /\ \A j \in 1..Len(sent'[n]) : mem'[tx'.addr[i] + j - 1] = sent'[n][j]
          BY <4>3, <4>4, <4>6, <4>7, Zenon
        <4> QED BY <4>8, Zenon DEF i
      <3>4. n = S + 1 \/ n \in 1..S
        BY <1>2
      <3> QED BY <3>2, <3>3, <3>4, Zenon
    <2> QED BY <2>2, <2>15, <2>16, <2>17, Zenon
  <1> QED BY <1>3, <1>4, Zenon

(* The descriptor the card takes, and what giving it back leaves alone.     *)
LEMMA TransmitFacts ==
  ASSUME NInv, Transmit
  PROVE  LET id == Taken(tx, seen)
             w  == [i \in 1..tx.len[id] |->
                      IF tx.flags[id] = 0 THEN mem[tx.addr[id] + i - 1] ELSE Zero]
         IN  /\ Len(transmitted) < Len(sent)
             /\ id = tx.avail[Len(transmitted) % QueueSize]
             /\ transmitted' = Append(transmitted, w) /\ w \in Seq(Byte)
             /\ seen' = (Len(transmitted) + 1) % IdxMod
             /\ tx' \in QueueType /\ UNCHANGED <<next, blocks, mem, sent>>
             /\ tx'.free_head = tx.free_head /\ tx'.next = tx.next
             /\ tx'.avail_idx = tx.avail_idx /\ tx'.avail = tx.avail
             /\ tx'.addr = tx.addr /\ tx'.len = tx.len /\ tx'.flags = tx.flags
  <1> USE DEF NInv
  <1> DEFINE T == Len(transmitted)
             id == Taken(tx, seen)
             w == [i \in 1..tx.len[id] |->
                     IF tx.flags[id] = 0 THEN mem[tx.addr[id] + i - 1] ELSE Zero]
  <1>1. /\ transmitted' = Append(transmitted, w) /\ tx' = GiveBack(tx, id, 0)
        /\ seen' = (seen + 1) % IdxMod /\ UNCHANGED <<next, blocks, mem, sent>>
    BY Zenon DEF Transmit
  <1>2. IdxMod \in Nat \ {0} /\ QueueSize \in Nat \ {0} /\ HeapSize \in Nat
        /\ T \in Nat /\ Len(sent) \in Nat /\ next \in 0..HeapSize /\ tx \in QueueType
    BY VirtqueueAssumption, NetAssumption DEF Typed, Bumped
  <1>3. T < Len(sent)
    <2>1. Len(sent) % IdxMod # T % IdxMod
      BY Zenon DEF Transmit, HasWork, Counted
    <2>2. T <= Len(sent) /\ T # Len(sent)
      BY <2>1, Zenon DEF Counted
    <2> QED BY <1>2, <2>2
  <1>4. id = tx.avail[T % QueueSize] /\ T % QueueSize \in Slots
    BY <1>2, WrappedSlot, Zenon DEF Taken, Counted
  <1>5. /\ id \in Slots /\ tx.addr[id] \in Nat /\ tx.len[id] \in Nat
        /\ tx.addr[id] + tx.len[id] <= next
    <2>1. id \in Slots
      BY <1>2, <1>4 DEF QueueType
    <2> HIDE DEF id
    <2> QED BY <1>2, <2>1, Zenon DEF QueueType, Typed
  <1>6. w \in Seq(Byte)
    <2> HIDE DEF id
    <2>1. \A i \in 1..tx.len[id] : tx.addr[id] + i - 1 \in 0..(HeapSize - 1)
      <3> DEFINE a == tx.addr[id]
                 l == tx.len[id]
      <3>1. a \in Nat /\ l \in Nat /\ a + l <= next /\ next \in 0..HeapSize /\ HeapSize \in Nat
        BY <1>2, <1>5, Zenon
      <3> HIDE DEF a, l
      <3>2. \A i \in 1..l : a + i - 1 \in 0..(HeapSize - 1)
        BY <3>1
      <3> QED BY <3>2, Zenon DEF a, l
    <2>2. mem \in [0..(HeapSize - 1) -> Byte] /\ Zero \in Byte
      BY Zenon DEF Typed, Byte
    <2>3. \A i \in 1..tx.len[id] : w[i] \in Byte
      BY <2>1, <2>2, Zenon
    <2>4. w \in [1..tx.len[id] -> Byte]
      BY <2>3, Zenon
    <2> HIDE DEF w
    <2> QED BY <1>5, <2>4
  <1>7. seen' = (T + 1) % IdxMod
    <2>1. ((T % IdxMod) + 1) % IdxMod = (T + 1) % IdxMod
      BY <1>2, WrappedNext, Zenon
    <2> QED BY <1>1, <2>1, Zenon DEF Counted
  <1>8. /\ tx' \in QueueType
        /\ tx'.free_head = tx.free_head /\ tx'.next = tx.next
        /\ tx'.avail_idx = tx.avail_idx /\ tx'.avail = tx.avail
        /\ tx'.addr = tx.addr /\ tx'.len = tx.len /\ tx'.flags = tx.flags
    <2> DEFINE u == tx.used_idx % QueueSize
    <2>1. tx.used_idx + 1 \in Nat /\ tx.used_idx \in Nat /\ tx.used \in [Slots -> [id : Slots, len : Nat]]
      BY <1>2 DEF QueueType
    <2>2. (tx.used_idx + 1) % IdxMod \in Nat /\ u \in Slots
      BY <2>1, WrappedSlot, Zenon
    <2> HIDE DEF id, u
    <2>3. [tx.used EXCEPT ![u] = [id |-> id, len |-> 0]] \in [Slots -> [id : Slots, len : Nat]]
      BY <1>5, <2>1, <2>2, Zenon
    <2>4. tx' = [tx EXCEPT !.used = [tx.used EXCEPT ![u] = [id |-> id, len |-> 0]],
                           !.used_idx = (tx.used_idx + 1) % IdxMod]
      BY <1>1, <1>2, Zenon DEF GiveBack, u, QueueType
    <2> QED BY <1>2, <2>2, <2>3, <2>4, Zenon DEF QueueType
  <1> QED BY <1>1, <1>3, <1>4, <1>6, <1>7, <1>8, Zenon

(* The device taking a frame off the queue keeps the invariant.             *)
LEMMA TransmitNInv ==
  ASSUME NInv, Transmit
  PROVE  NInv'
  <1> USE DEF NInv
  <1> DEFINE T == Len(transmitted)
  <1>1. PICK w \in Seq(Byte) : transmitted' = Append(transmitted, w)
    BY TransmitFacts, Zenon
  <1>2. /\ T < Len(sent) /\ seen' = (T + 1) % IdxMod
        /\ tx' \in QueueType /\ UNCHANGED <<next, blocks, mem, sent>>
    BY TransmitFacts, Zenon
  <1>3. /\ tx'.free_head = tx.free_head /\ tx'.next = tx.next
        /\ tx'.avail_idx = tx.avail_idx /\ tx'.avail = tx.avail
        /\ tx'.addr = tx.addr /\ tx'.len = tx.len /\ tx'.flags = tx.flags
    BY TransmitFacts, Zenon
  <1>4. transmitted' \in Seq(Seq(Byte)) /\ Len(transmitted') = T + 1 /\ T \in Nat /\ Len(sent) \in Nat
    BY <1>1 DEF Typed
  <1> HIDE DEF T
  <1>5. Bumped'
    BY <1>2, Zenon DEF Bumped
  <1>6. Typed'
    BY <1>2, <1>3, <1>4, Zenon DEF Typed
  <1>7. Counted'
    <2>1. T + 1 <= Len(sent)
      BY <1>2, <1>4
    <2> QED BY <1>2, <1>3, <1>4, <2>1, Zenon DEF Counted
  <1>8. Queued'
    BY ONLY <1>2, <1>3, Queued DEF Queued
  <1> QED BY <1>5, <1>6, <1>7, <1>8, Zenon

(* Every step of the server and of the device keeps the invariant.          *)
LEMMA NextNInv ==
  ASSUME NInv, [Next]_vars
  PROVE  NInv'
  <1>1. Page \in Nat \ {0} /\ QueueBytes \in Nat \ {0} /\ 1 \in Nat \ {0}
    BY NetAssumption
  <1>2. ASSUME NEW here, NEW after, Say(here, after) PROVE NInv'
    BY <1>2, SayNInv, Zenon
  <1>3. CASE Scan
    BY <1>3, ScanNInv, Zenon
  <1>4. ASSUME NEW here, NEW after, Allocate(here, after, QueueBytes, Page) PROVE NInv'
    BY <1>1, <1>4, AllocateNInv, Zenon
  <1>5. CASE Allocate("test", "configure", 1, 1)
    BY <1>1, <1>5, AllocateNInv, Zenon
  <1>6. ASSUME NEW f \in Frames, Poll(f) PROVE NInv'
    <2>1. consume(f) /\ UNCHANGED <<seen, transmitted>>
      BY <1>6, Zenon DEF Poll
    <2> QED BY <2>1, ConsumeNInv, Zenon
  <1>7. CASE Transmit
    BY <1>7, TransmitNInv
  <1>8. CASE UNCHANGED vars
    BY <1>8, Zenon DEF vars, NInv, Bumped, Typed, Counted, Queued
  <1> QED BY <1>2, <1>3, <1>4, <1>5, <1>6, <1>7, <1>8, Zenon DEF Next

(* The invariant holds in every reachable state.                            *)
LEMMA NetInvariant == Spec => []NInv
  BY InitNInv, NextNInv, PTL DEF Spec

(* The bump allocator never hands out a byte twice, aligns what it hands    *)
(* out and stays inside the heap, for any sizes and alignments.             *)
THEOREM NoSharedBytes == Spec => []BlocksApart
  <1>1. NInv => BlocksApart
    <2> SUFFICES ASSUME NInv PROVE BlocksApart
      BY Zenon
    <2>1. \A b \in blocks : b.start \in Nat /\ b.size \in Nat /\ b.start + b.size <= next
                            /\ b.start % b.align = 0
      BY Zenon DEF NInv, Bumped, BlockType
    <2>2. next \in Nat /\ next <= HeapSize /\ HeapSize \in Nat
      BY NetAssumption DEF NInv, Bumped
    <2>3. \A b \in blocks : b.start + b.size <= HeapSize
      BY <2>1, <2>2
    <2> QED BY <2>1, <2>3, Zenon DEF NInv, Bumped, BlocksApart
  <1> QED BY <1>1, NetInvariant, PTL

(* AsSent, element by element.                                              *)
LEMMA PrefixElements ==
  ASSUME NEW A, NEW B, NEW s \in Seq(A), NEW t \in Seq(B), Len(s) <= Len(t)
  PROVE  s = SubSeq(t, 1, Len(s)) <=> \A n \in 1..Len(s) : s[n] = t[n]
  <1> DEFINE v == SubSeq(t, 1, Len(s))
  <1>1. Len(s) \in Nat /\ Len(t) \in Nat /\ s = [n \in 1..Len(s) |-> s[n]]
    OBVIOUS
  <1>2. v = [n \in 1..Len(s) |-> t[n]]
    BY <1>1
  <1> HIDE DEF v
  <1>3. ASSUME s = v PROVE \A n \in 1..Len(s) : s[n] = t[n]
    BY <1>2, <1>3, Zenon
  <1>4. ASSUME \A n \in 1..Len(s) : s[n] = t[n] PROVE s = v
    BY <1>1, <1>2, <1>4, Zenon
  <1> QED BY <1>3, <1>4, Zenon DEF v

(* The frame the card reads next is the one that was sent in that place,    *)
(* if the card is no more than a ring behind.                               *)
LEMMA ReadsWhatWasSent ==
  ASSUME NInv, Transmit, KeepsUp
  PROVE  transmitted' = Append(transmitted, sent[Len(transmitted) + 1])
  <1> USE DEF NInv
  <1> DEFINE T == Len(transmitted)
             n == T + 1
             k == T % QueueSize
             id == Taken(tx, seen)
             w == [i \in 1..tx.len[id] |->
                     IF tx.flags[id] = 0 THEN mem[tx.addr[id] + i - 1] ELSE Zero]
  <1>1. T < Len(sent) /\ id = tx.avail[k] /\ transmitted' = Append(transmitted, w)
    BY TransmitFacts, Zenon
  <1>2. T \in Nat /\ Len(sent) \in Nat /\ QueueSize \in Nat \ {0}
    BY VirtqueueAssumption DEF Typed
  <1>3. n \in 1..Len(sent) /\ Len(sent) - n < QueueSize /\ n - 1 = T
    <2>1. Len(sent) - T <= QueueSize /\ T < Len(sent)
      BY <1>1, Zenon DEF KeepsUp
    <2> HIDE DEF T
    <2> QED BY <1>2, <2>1
  <1>4. /\ tx.avail[k] = k /\ tx.flags[k] = 0 /\ tx.len[k] = Len(sent[n])
        /\ \A j \in 1..Len(sent[n]) : mem[tx.addr[k] + j - 1] = sent[n][j]
    <2> HIDE DEF n
    <2> QED BY <1>3, Zenon DEF Queued
  <1>5. sent[n] \in Frames
    BY <1>3 DEF Typed
  <1>6. sent[n] = [j \in 1..Len(sent[n]) |-> sent[n][j]]
    <2> HIDE DEF n
    <2> QED BY <1>5, FrameFacts, Zenon
  <1>7. w = sent[n]
    <2>1. id = k
      BY <1>1, <1>4, Zenon
    <2> HIDE DEF n, k, id
    <2> QED BY <1>4, <1>6, <2>1, Zenon
  <1> QED BY <1>1, <1>7, Zenon

(* While the card is no more than a ring behind, a prefix on the wire stays *)
(* one, although send reuses descriptors without asking: what the card      *)
(* sends next is the frame sent in that place.                              *)
THEOREM WireInOrder == Spec => InOrder
  <1>1. ASSUME NInv, [Next]_vars, KeepsUp, AsSent
        PROVE  AsSent'
    <2> DEFINE T == Len(transmitted)
    <2>1. /\ sent \in Seq(Frames) /\ transmitted \in Seq(Seq(Byte))
          /\ T \in Nat /\ Len(sent) \in Nat
      BY <1>1 DEF NInv, Typed
    <2>2. sent' \in Seq(Frames) /\ transmitted' \in Seq(Seq(Byte))
      BY <1>1, NextNInv, Zenon DEF NInv, Typed
    <2>3. T <= Len(sent) /\ \A n \in 1..T : transmitted[n] = sent[n]
      BY <1>1, <2>1, PrefixElements DEF AsSent
    <2>4. CASE Transmit
      <3>1. transmitted' = Append(transmitted, sent[T + 1]) /\ UNCHANGED sent /\ T < Len(sent)
        BY <1>1, <2>4, ReadsWhatWasSent, TransmitFacts, Zenon
      <3>2. sent[T + 1] \in Frames
        BY <2>1, <3>1
      <3>3. Len(transmitted') = T + 1 /\ \A n \in 1..(T + 1) : transmitted'[n] = sent[n]
        BY <2>1, <2>3, <3>1
      <3>4. Len(transmitted') <= Len(sent')
            /\ \A n \in 1..Len(transmitted') : transmitted'[n] = sent'[n]
        BY <2>1, <3>1, <3>3
      <3> QED BY <2>2, <3>4, PrefixElements, Zenon DEF AsSent
    <2>5. CASE UNCHANGED transmitted /\ \E f \in Frames : sent' = Append(sent, f)
      <3>1. PICK f \in Frames : sent' = Append(sent, f)
        BY <2>5, Zenon
      <3>2. Len(sent') = Len(sent) + 1 /\ \A n \in 1..Len(sent) : sent'[n] = sent[n]
        BY <2>1, <3>1
      <3>3. Len(transmitted') <= Len(sent')
            /\ \A n \in 1..Len(transmitted') : transmitted'[n] = sent'[n]
        BY <2>1, <2>3, <2>5, <3>2
      <3> QED BY <2>2, <3>3, PrefixElements, Zenon DEF AsSent
    <2>6. CASE UNCHANGED <<transmitted, sent>>
      BY <1>1, <2>6, Zenon DEF AsSent
    <2>7. Transmit \/ UNCHANGED <<transmitted, sent>>
          \/ (UNCHANGED transmitted /\ \E f \in Frames : sent' = Append(sent, f))
      <3>1. ASSUME NEW f \in Frames, Poll(f)
            PROVE  UNCHANGED transmitted /\ (UNCHANGED sent \/ sent' = Append(sent, f))
        BY <3>1, Zenon DEF Poll, consume
      <3>2. ASSUME NEW here, NEW after, Say(here, after) PROVE UNCHANGED <<transmitted, sent>>
        BY <3>2, Zenon DEF Say
      <3>3. ASSUME NEW here, NEW after, NEW size, NEW align, Allocate(here, after, size, align)
            PROVE  UNCHANGED <<transmitted, sent>>
        BY <3>3, Zenon DEF Allocate
      <3>4. CASE Scan
        BY <3>4, Zenon DEF Scan
      <3>5. CASE UNCHANGED vars
        BY <3>5, Zenon DEF vars
      <3> QED BY <1>1, <3>1, <3>2, <3>3, <3>4, <3>5, Zenon DEF Next
    <2> QED BY <2>4, <2>5, <2>6, <2>7, Zenon
  <1>2. NInv /\ [Next]_vars =>
          [(KeepsUp /\ AsSent) => AsSent']_vars
    BY <1>1, Zenon
  <1> QED BY <1>2, NetInvariant, PTL DEF Spec, InOrder
=============================================================================
