------------------------------ MODULE IoUring ------------------------------
(***************************************************************************)
(* The io_uring rings (hammam/src/io/uring.rs): a submission and a         *)
(* completion ring with wrapping 32-bit positions in memory shared with    *)
(* userspace, and process_sq, cut at every access to shared memory that    *)
(* userspace can tell apart.  The user side is not in the repository: it   *)
(* fills a slot and then pushes, reads a slot and then pops.               *)
(*                                                                         *)
(* The rings have a power of two of slots, as RingHeader::new makes them,  *)
(* and the slices that many entries, so the index checks never fail.       *)
(***************************************************************************)
EXTENDS Integers, Sequences

CONSTANTS SqEntries, CqEntries,  \* RingHeader.entries of the two rings
          Modulus,               \* 2^32 in the code: positions wrap here
          Requests,              \* bound on the requests submitted
          Opcodes, Lens,         \* what the user puts into an SQE
          Modes                  \* the values of concurrent to consider

ASSUME RingAssumption ==
  /\ SqEntries \in Nat \ {0} /\ CqEntries \in Nat \ {0}
  /\ Modulus \in Nat
  /\ SqEntries < Modulus /\ CqEntries < Modulus
  /\ Modulus % SqEntries = 0 /\ Modulus % CqEntries = 0
  /\ Requests \in Nat
  /\ Opcodes \subseteq Nat /\ Lens \subseteq Nat
  /\ Modes \subseteq BOOLEAN

VARIABLES sq,         \* SQ header: [head, tail]
          cq,         \* CQ header: [head, tail]
          sqes,       \* SQ slots
          cqes,       \* CQ slots
          pc,         \* where process_sq is: "idle", "pop", "fetch", ...
          pos,        \* its local sq_pos, then cq_pos
          sqe,        \* its local copy of the entry
          concurrent, \* does userspace run while process_sq does?  (fixed)
          submitted,  \* history: the SQEs userspace pushed
          executed,   \* history: the SQEs process_sq executed
          posted,     \* history: which of the executed ones got a CQE, in order
          answers     \* history: the CQEs userspace read

shared == <<sq, cq, sqes, cqes>>
history == <<submitted, executed, posted, answers>>
vars == <<shared, pc, pos, sqe, history, concurrent>>

SqEntry == [opcode : Opcodes, len : Lens, user_data : 1..Requests]

(* What an untouched slot holds.                                            *)
Blank == [opcode |-> 0, len |-> 0, user_data |-> 0]
BlankCqe == [user_data |-> 0, result |-> 0]

(* RingHeader: len, is_empty, is_full, push and pop on wrapping positions.  *)
UnwrappedLen(r) == r.tail - r.head

RingLen(r) == (r.tail - r.head) % Modulus

IsEmpty(r) == RingLen(r) = 0

IsFull(r, entries) == RingLen(r) >= entries

Index(p, entries) == p % entries

Push(r) == [r EXCEPT !.tail = (@ + 1) % Modulus]

Pop(r) == [r EXCEPT !.head = (@ + 1) % Modulus]

(* execute_sqe: OP_WRITE (1) returns its length, OP_READ (0), OP_NOP (2)    *)
(* and OP_FSYNC (3) return 0, any other opcode is EINVAL.                   *)
Execute(e) ==
  CASE e.opcode = 1 -> e.len
    [] e.opcode \in {0, 2, 3} -> 0
    [] OTHER -> -22

CqEntryOf(e) == [user_data |-> e.user_data, result |-> Execute(e)]

-----------------------------------------------------------------------------
Init ==
  /\ sq = [head |-> 0, tail |-> 0] /\ cq = [head |-> 0, tail |-> 0]
  /\ sqes = [s \in 0..(SqEntries - 1) |-> Blank]
  /\ cqes = [s \in 0..(CqEntries - 1) |-> BlankCqe]
  /\ pc = "idle" /\ pos = 0 /\ sqe = Blank
  /\ concurrent \in Modes
  /\ submitted = <<>> /\ executed = <<>> /\ posted = <<>> /\ answers = <<>>

UserRuns == concurrent \/ pc = "idle"

(* Userspace fills the slot at the tail, then publishes it.                 *)
Submit ==
  /\ UserRuns
  /\ Len(submitted) < Requests
  /\ ~IsFull(sq, SqEntries)
  /\ \E e \in SqEntry :
       /\ e.user_data = Len(submitted) + 1
       /\ sqes' = [sqes EXCEPT ![Index(sq.tail, SqEntries)] = e]
       /\ submitted' = Append(submitted, e)
  /\ sq' = Push(sq)
  /\ UNCHANGED <<cq, cqes, pc, pos, sqe, executed, posted, answers>>

(* Userspace reads the completion at the head, then releases its slot.      *)
Collect ==
  /\ UserRuns
  /\ ~IsEmpty(cq)
  /\ answers' = Append(answers, cqes[Index(cq.head, CqEntries)])
  /\ cq' = Pop(cq)
  /\ UNCHANGED <<sq, sqes, cqes, pc, pos, sqe, submitted, executed, posted>>

(* process_sq is called.                                                    *)
Enter ==
  /\ pc = "idle"
  /\ pc' = "pop"
  /\ UNCHANGED <<shared, pos, sqe, history>>

(* Top of the loop: return on an empty ring, else advance the head.  Only   *)
(* process_sq moves the head, so a push between the two cannot matter.      *)
PopSq ==
  /\ pc = "pop"
  /\ IF IsEmpty(sq)
     THEN pc' = "idle" /\ UNCHANGED <<sq, pos>>
     ELSE pc' = "fetch" /\ sq' = Pop(sq) /\ pos' = sq.head
  /\ UNCHANGED <<cq, sqes, cqes, sqe, history>>

FetchesAtHead ==
  /\ pc = "fetch"
  /\ sqe' = sqes[Index(sq.head, SqEntries)]
  /\ executed' = Append(executed, sqe')
  /\ pc' = "complete"
  /\ UNCHANGED <<shared, pos, submitted, posted, answers>>

(* The slot is read after it has been released, and its entry executed.     *)
FetchAndExecute ==
  /\ pc = "fetch"
  /\ sqe' = sqes[Index(pos, SqEntries)]
  /\ executed' = Append(executed, sqe')
  /\ pc' = "complete"
  /\ UNCHANGED <<shared, pos, submitted, posted, answers>>

SpinsOnFull ==
  /\ pc = "complete"
  /\ IF IsFull(cq, CqEntries)
     THEN UNCHANGED <<cq, pc, pos>>
     ELSE pc' = "store" /\ cq' = Push(cq) /\ pos' = cq.tail
  /\ posted' = IF pc' = "store" THEN Append(posted, Len(executed)) ELSE posted
  /\ UNCHANGED <<sq, sqes, cqes, sqe, submitted, executed, answers>>

(* The completion's slot is published, or the completion posted.           *)
PushCq ==
  /\ pc = "complete"
  /\ IF IsFull(cq, CqEntries)
     THEN pc' = "pop" /\ UNCHANGED <<cq, pos, posted>>
     ELSE /\ pc' = "store"
          /\ cq' = Push(cq) /\ pos' = cq.tail
          /\ posted' = Append(posted, Len(executed))
  /\ UNCHANGED <<sq, sqes, cqes, sqe, submitted, executed, answers>>

StoresAtHead ==
  /\ pc = "store"
  /\ cqes' = [cqes EXCEPT ![Index(cq.head, CqEntries)] = CqEntryOf(sqe)]
  /\ pc' = "pop"
  /\ UNCHANGED <<sq, cq, sqes, pos, sqe, history>>

(* The completion is written after its slot has been published.             *)
StoreCqe ==
  /\ pc = "store"
  /\ cqes' = [cqes EXCEPT ![Index(pos, CqEntries)] = CqEntryOf(sqe)]
  /\ pc' = "pop"
  /\ UNCHANGED <<sq, cq, sqes, pos, sqe, history>>

Kernel == PopSq \/ FetchAndExecute \/ PushCq \/ StoreCqe

Next ==
  /\ Submit \/ Collect \/ Enter \/ Kernel
  /\ UNCHANGED concurrent

Spec == Init /\ [][Next]_vars

(* process_sq runs with interrupts masked: once entered it goes on.         *)
FairSpec == Spec /\ WF_vars(Kernel /\ UNCHANGED concurrent)

-----------------------------------------------------------------------------
(* How many entries process_sq has taken off the SQ.                        *)
Taken == Len(executed) + (IF pc = "fetch" THEN 1 ELSE 0)

(* len() on wrapped positions is the true occupancy of either ring, which   *)
(* never exceeds its slots, whatever userspace and process_sq interleave    *)
(* and however often the positions wrap.                                    *)
LenIsOccupancy ==
  /\ RingLen(sq) = Len(submitted) - Taken /\ RingLen(sq) <= SqEntries
  /\ RingLen(cq) = Len(posted) - Len(answers) /\ RingLen(cq) <= CqEntries

(* process_sq returns, although it loops until it finds the ring empty, if  *)
(* userspace waits for it.  (If not, it could submit faster than process_sq *)
(* goes round.)                                                             *)
ProcessSqReturns == (pc = "pop" /\ ~concurrent) ~> (pc = "idle")

(* process_sq executes the submitted entries, each once and in order, if    *)
(* userspace waits for it.  If not, pop has released the slot before its    *)
(* entry is read: what is executed in the n-th turn is the n-th entry       *)
(* submitted or the one that took over its slot, no other.                  *)
ExecutesOwnOrRefill ==
  \A n \in 1..Len(executed) :
    \/ n <= Len(submitted) /\ executed[n] = submitted[n]
    \/ /\ concurrent /\ n + SqEntries <= Len(submitted)
       /\ executed[n] = submitted[n + SqEntries]

(* The completion that the n-th slot published is for.                      *)
Due(n) == CqEntryOf(executed[posted[n]])

(* What that slot held until the completion was stored: the one of a lap    *)
(* ago, if there was one.                                                   *)
Before(n) == IF n <= CqEntries THEN BlankCqe ELSE Due(n - CqEntries)

(* What userspace reads are the results of the executed entries with their  *)
(* user_data, in order and each at most once, without those dropped on a    *)
(* full CQ, if it waits for process_sq.  If not, push has published the     *)
(* slot before the completion is stored, and it may read what the slot held *)
(* before: the completion of one lap ago.                                   *)
AnswersOwnOrStale ==
  /\ \A m, n \in 1..Len(posted) : m < n => posted[m] < posted[n]
  /\ \A n \in 1..Len(answers) :
       /\ n <= Len(posted) /\ posted[n] \in 1..Len(executed)
       /\ answers[n] = Due(n) \/ (concurrent /\ answers[n] = Before(n))
=============================================================================
