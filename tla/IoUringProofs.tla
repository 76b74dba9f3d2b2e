--------------------------- MODULE IoUringProofs ---------------------------
(***************************************************************************)
(* Proofs about IoUring for rings of any size whose positions wrap at any  *)
(* multiple of it, any number of requests, and userspace waiting or        *)
(* running beside process_sq.                                              *)
(***************************************************************************)
EXTENDS IoUring, TLAPS

(* Time for the solver on steps that a slow machine would not finish in its *)
(* usual five seconds.                                                      *)
USE SMTT(30)

(* Quotient and remainder determine each other.                             *)
LEMMA DivMod ==
  ASSUME NEW a \in Nat, NEW s \in Nat \ {0}
  PROVE  /\ a = ((a \div s) * s) + (a % s)
         /\ a \div s \in Nat
         /\ a % s \in 0..(s - 1)
  BY SMT

(* What is left of a number written as a multiple and a smaller rest.       *)
LEMMA Remainder ==
  ASSUME NEW q \in Int, NEW s \in Nat \ {0}, NEW r \in 0..(s - 1)
  PROVE  ((q * s) + r) % s = r
  BY SMT

(* A position one further, after wrapping, is the wrapped next position.    *)
LEMMA WrappedNext ==
  ASSUME NEW a \in Nat, NEW s \in Nat \ {0}
  PROVE  ((a % s) + 1) % s = (a + 1) % s
  <1> DEFINE q == a \div s
             r == a % s
  <1>1. q \in Nat /\ r \in 0..(s - 1) /\ a = (q * s) + r
    BY DivMod, Zenon
  <1> HIDE DEF q, r
  <1>2. CASE r + 1 < s
    <2>1. r + 1 \in 0..(s - 1) /\ a + 1 = (q * s) + (r + 1)
      BY <1>1, <1>2
    <2>2. (a + 1) % s = r + 1
      BY <1>1, <2>1, Remainder
    <2>3. r + 1 = (0 * s) + (r + 1)
      BY <1>1
    <2>4. (r + 1) % s = r + 1
      BY <2>1, <2>3, Remainder
    <2> QED BY <2>2, <2>4, Zenon DEF r
  <1>3. CASE r + 1 = s
    <2>1. a + 1 = ((q + 1) * s) + 0
      BY <1>1, <1>3
    <2>2. (a + 1) % s = 0
      BY <1>1, <2>1, Remainder
    <2>3. r + 1 = (1 * s) + 0
      BY <1>1, <1>3
    <2>4. (r + 1) % s = 0
      BY <1>1, <2>3, Remainder
    <2> QED BY <2>2, <2>4, Zenon DEF r
  <1> QED BY <1>1, <1>2, <1>3

(* The wrapped difference of two wrapped positions is their distance, if    *)
(* that is less than a full turn.                                           *)
LEMMA WrappedDistance ==
  ASSUME NEW a \in Nat, NEW b \in Nat, NEW s \in Nat \ {0},
         b <= a, a - b < s
  PROVE  ((a % s) - (b % s)) % s = a - b
  <1> DEFINE p == a \div s
             q == b \div s
             i == a % s
             j == b % s
  <1>1. p \in Nat /\ i \in 0..(s - 1) /\ a = (p * s) + i
    BY DivMod, Zenon
  <1>2. q \in Nat /\ j \in 0..(s - 1) /\ b = (q * s) + j
    BY DivMod, Zenon
  <1> HIDE DEF p, q, i, j
  <1>3. i - j = ((q - p) * s) + (a - b)
    BY <1>1, <1>2
  <1>4. (((q - p) * s) + (a - b)) % s = a - b
    <2>1. q - p \in Int /\ a - b \in 0..(s - 1)
      BY <1>1, <1>2
    <2> QED BY <2>1, Remainder, Zenon
  <1> QED BY <1>3, <1>4, Zenon DEF i, j

(* Wrapping at a multiple of the ring's size keeps the slot.                *)
LEMMA WrappedIndex ==
  ASSUME NEW a \in Nat, NEW s \in Nat \ {0}, NEW e \in Nat \ {0}, s % e = 0
  PROVE  (a % s) % e = a % e
  <1> DEFINE p == a \div s
             i == a % s
             k == s \div e
  <1>1. p \in Nat /\ i \in 0..(s - 1) /\ a = (p * s) + i
    BY DivMod, Zenon
  <1>2. k \in Nat /\ s = k * e
    <2>1. k \in Nat /\ s = (k * e) + (s % e)
      BY DivMod, Zenon
    <2> QED BY <2>1
  <1> HIDE DEF p, i, k
  <1> DEFINE u == i \div e
             v == i % e
  <1>3. u \in Nat /\ v \in 0..(e - 1) /\ i = (u * e) + v
    <2>1. i \in Nat
      BY <1>1
    <2> QED BY <2>1, DivMod, Zenon
  <1>4. i % e = v
    BY Zenon
  <1> HIDE DEF u, v
  <1>5. a = (((p * k) + u) * e) + v
    <2>1. p * s = (p * k) * e
      BY <1>1, <1>2
    <2>2. ((p * k) * e) + (u * e) = ((p * k) + u) * e
      BY <1>1, <1>2, <1>3
    <2> QED BY <1>1, <1>3, <2>1, <2>2
  <1>6. a % e = v
    <2>1. (p * k) + u \in Int
      BY <1>1, <1>2, <1>3
    <2> QED BY <1>3, <1>5, <2>1, Remainder, Zenon
  <1> QED BY <1>4, <1>6, Zenon DEF i

(* Two positions less than a lap apart have different slots.                *)
LEMMA SlotsDiffer ==
  ASSUME NEW a \in Nat, NEW b \in Nat, NEW e \in Nat \ {0},
         b < a, a - b < e
  PROVE  a % e # b % e
  <1> SUFFICES ASSUME a % e = b % e PROVE FALSE
    BY Zenon
  <1>1. ((a % e) - (b % e)) % e = a - b
    <2>1. b <= a
      OBVIOUS
    <2> QED BY <2>1, WrappedDistance, Zenon
  <1>2. (a % e) - (b % e) = 0
    BY DivMod
  <1>3. 0 % e = 0
    BY Remainder
  <1> QED BY <1>1, <1>2, <1>3

(* Positions one lap apart share their slot.                                *)
LEMMA SlotsRecur ==
  ASSUME NEW a \in Nat, NEW e \in Nat \ {0}
  PROVE  (a + e) % e = a % e
  <1> DEFINE q == a \div e
             r == a % e
  <1>1. q \in Nat /\ r \in 0..(e - 1) /\ a = (q * e) + r
    BY DivMod, Zenon
  <1> HIDE DEF q, r
  <1>2. a + e = ((q + 1) * e) + r
    BY <1>1
  <1>3. (a + e) % e = r
    BY <1>1, <1>2, Remainder
  <1> QED BY <1>3, Zenon DEF r

-----------------------------------------------------------------------------
(* The inductive invariant.  Positions counts what went through either ring *)
(* without wrapping; SqSlots and CqSlots say what the slots of the last lap *)
(* hold.                                                                    *)
Entry == SqEntry \cup {Blank}
CqEntry == [user_data : Nat, result : Int]
Ring == [head : 0..(Modulus - 1), tail : 0..(Modulus - 1)]

Types ==
  /\ sq \in Ring /\ cq \in Ring
  /\ sqes \in [0..(SqEntries - 1) -> Entry]
  /\ cqes \in [0..(CqEntries - 1) -> CqEntry]
  /\ pc \in {"idle", "pop", "fetch", "complete", "store"}
  /\ pos \in Nat /\ sqe \in Entry /\ concurrent \in BOOLEAN
  /\ submitted \in Seq(SqEntry) /\ executed \in Seq(Entry)
  /\ posted \in Seq(Nat) /\ answers \in Seq(CqEntry)

Positions ==
  /\ sq.tail = Len(submitted) % Modulus /\ sq.head = Taken % Modulus
  /\ Taken <= Len(submitted) /\ Len(submitted) - Taken <= SqEntries
  /\ cq.tail = Len(posted) % Modulus /\ cq.head = Len(answers) % Modulus
  /\ Len(answers) <= Len(posted) /\ Len(posted) - Len(answers) <= CqEntries
  /\ pc = "fetch" => pos = Len(executed) % Modulus
  /\ pc = "store" => Len(posted) > 0 /\ pos = (Len(posted) - 1) % Modulus

SqSlots ==
  /\ \A n \in 1..Len(submitted) :
       Len(submitted) - n < SqEntries => sqes[(n - 1) % SqEntries] = submitted[n]
  /\ pc = "fetch" /\ ~concurrent => Len(submitted) - Taken < SqEntries
  /\ ExecutesOwnOrRefill

Completing ==
  /\ \A n \in 1..Len(posted) : posted[n] \in 1..Len(executed)
  /\ pc \in {"complete", "store"} => Len(executed) > 0 /\ sqe = executed[Len(executed)]
  /\ pc = "complete" => \A n \in 1..Len(posted) : posted[n] < Len(executed)
  /\ pc = "store" => posted[Len(posted)] = Len(executed)

CqSlots ==
  /\ \A n \in 1..Len(posted) :
       Len(posted) - n < CqEntries =>
         cqes[(n - 1) % CqEntries] =
           IF pc = "store" /\ n = Len(posted) THEN Before(n) ELSE Due(n)
  /\ \A n \in (Len(posted) + 1)..CqEntries : cqes[(n - 1) % CqEntries] = BlankCqe
  /\ AnswersOwnOrStale

UInv == Types /\ Positions /\ SqSlots /\ Completing /\ CqSlots

(* The counts are naturals, and a ring's wrapped length is the occupancy.   *)
LEMMA Counts ==
  ASSUME Types
  PROVE  /\ Len(submitted) \in Nat /\ Len(executed) \in Nat
         /\ Len(posted) \in Nat /\ Len(answers) \in Nat /\ Taken \in Nat
  BY DEF Types, Taken

(* The rings' len (tail - head, wrapped) is the number of entries they hold. *)
LEMMA Occupancy ==
  ASSUME Types, Positions
  PROVE  LenIsOccupancy
  <1>1. Modulus \in Nat \ {0} /\ SqEntries \in Nat /\ CqEntries \in Nat
        /\ SqEntries < Modulus /\ CqEntries < Modulus
    BY RingAssumption
  <1>2. RingLen(sq) = Len(submitted) - Taken
    <2>1. Taken <= Len(submitted) /\ Len(submitted) - Taken < Modulus
      BY <1>1, Counts DEF Positions
    <2>2. ((Len(submitted) % Modulus) - (Taken % Modulus)) % Modulus = Len(submitted) - Taken
      BY <1>1, <2>1, Counts, WrappedDistance, Zenon
    <2> QED BY <2>2, Zenon DEF RingLen, Positions
  <1>3. RingLen(cq) = Len(posted) - Len(answers)
    <2>1. Len(answers) <= Len(posted) /\ Len(posted) - Len(answers) < Modulus
      BY <1>1, Counts DEF Positions
    <2>2. ((Len(posted) % Modulus) - (Len(answers) % Modulus)) % Modulus
            = Len(posted) - Len(answers)
      BY <1>1, <2>1, Counts, WrappedDistance, Zenon
    <2> QED BY <2>2, Zenon DEF RingLen, Positions
  <1> QED BY <1>2, <1>3, Zenon DEF LenIsOccupancy, Positions

(* The slot of the n-th position, wrapped or not.                           *)
LEMMA SqIndex ==
  ASSUME NEW n \in Nat
  PROVE  /\ Index(n % Modulus, SqEntries) = n % SqEntries
         /\ n % SqEntries \in 0..(SqEntries - 1)
         /\ Index(n % Modulus, CqEntries) = n % CqEntries
         /\ n % CqEntries \in 0..(CqEntries - 1)
  <1>1. Modulus \in Nat \ {0} /\ SqEntries \in Nat \ {0} /\ CqEntries \in Nat \ {0}
        /\ Modulus % SqEntries = 0 /\ Modulus % CqEntries = 0
    BY RingAssumption
  <1> QED BY <1>1, WrappedIndex, DivMod, Zenon DEF Index

(* What push and pop do to the wrapped positions.                           *)
LEMMA Moves ==
  ASSUME NEW r \in Ring
  PROVE  /\ Push(r) \in Ring /\ Push(r).head = r.head
         /\ Push(r).tail = (r.tail + 1) % Modulus
         /\ Pop(r) \in Ring /\ Pop(r).tail = r.tail
         /\ Pop(r).head = (r.head + 1) % Modulus
  <1>1. Modulus \in Nat \ {0} /\ r.head + 1 \in Nat /\ r.tail + 1 \in Nat
    BY RingAssumption DEF Ring
  <1>2. (r.head + 1) % Modulus \in 0..(Modulus - 1)
        /\ (r.tail + 1) % Modulus \in 0..(Modulus - 1)
    BY <1>1, DivMod, Zenon
  <1> QED BY <1>2, Zenon DEF Push, Pop, Ring

(* A ring position one further is the wrapped count one further.            *)
LEMMA WrappedStep ==
  ASSUME NEW n \in Nat
  PROVE  ((n % Modulus) + 1) % Modulus = (n + 1) % Modulus
  <1>1. Modulus \in Nat \ {0}
    BY RingAssumption
  <1> QED BY <1>1, WrappedNext, Zenon

(* The state process_sq starts from.                                        *)
LEMMA InitUInv ==
  ASSUME Init
  PROVE  UInv
  <1>1. Modulus \in Nat \ {0} /\ SqEntries \in Nat \ {0} /\ CqEntries \in Nat \ {0}
    BY RingAssumption
  <1>2. 0 % Modulus = 0
    BY <1>1, Remainder
  <1>3. Blank \in Entry /\ BlankCqe \in CqEntry
    BY DEF Entry, CqEntry, BlankCqe
  <1>4. Types
    BY <1>1, <1>3, RingAssumption DEF Init, Types, Ring
  <1>5. Positions
    BY <1>1, <1>2 DEF Init, Positions, Taken
  <1>6. SqSlots
    BY <1>1 DEF Init, SqSlots, ExecutesOwnOrRefill
  <1>7. Completing
    BY DEF Init, Completing
  <1>8. CqSlots
    <2>1. ASSUME NEW n \in 1..CqEntries
          PROVE  cqes[(n - 1) % CqEntries] = BlankCqe
      <3>1. (n - 1) % CqEntries \in 0..(CqEntries - 1)
        BY <1>1, SqIndex
      <3> QED BY <3>1, Zenon DEF Init
    <2>2. Len(posted) = 0 /\ Len(answers) = 0 /\ Len(posted) + 1 = 1
      BY DEF Init
    <2> QED BY <2>1, <2>2 DEF CqSlots, AnswersOwnOrStale
  <1> QED BY <1>4, <1>5, <1>6, <1>7, <1>8, Zenon DEF UInv

(* Userspace submits: the slot it fills belongs to no entry of the last     *)
(* lap, and process_sq has not yet read it only if userspace does not wait. *)
LEMMA SubmitUInv ==
  ASSUME UInv, Submit, UNCHANGED concurrent
  PROVE  UInv'
  <1> USE DEF UInv
  <1> DEFINE N == Len(submitted)
  <1>1. Modulus \in Nat \ {0} /\ SqEntries \in Nat \ {0} /\ N \in Nat /\ Taken \in Nat
    BY RingAssumption, Counts
  <1>2. PICK e \in SqEntry : /\ sqes' = [sqes EXCEPT ![Index(sq.tail, SqEntries)] = e]
                             /\ submitted' = Append(submitted, e)
    BY Zenon DEF Submit
  <1>3. sq' = Push(sq) /\ UNCHANGED <<cq, cqes, pc, pos, sqe, executed, posted, answers>>
    BY Zenon DEF Submit
  <1>4. N - Taken < SqEntries
    BY <1>1, Occupancy DEF Submit, IsFull, LenIsOccupancy
  <1>5. Index(sq.tail, SqEntries) = N % SqEntries /\ N % SqEntries \in 0..(SqEntries - 1)
    BY <1>1, SqIndex, Zenon DEF Positions
  <1>6. Taken' = Taken
    BY <1>3, Zenon DEF Taken
  <1>7. /\ submitted' \in Seq(SqEntry) /\ Len(submitted') = N + 1
        /\ submitted'[N + 1] = e /\ \A n \in 1..N : submitted'[n] = submitted[n]
    BY <1>2 DEF Types
  <1>8. sq' \in Ring /\ sq'.head = Taken % Modulus /\ sq'.tail = (N + 1) % Modulus
    <2>1. sq \in Ring /\ sq.head = Taken % Modulus /\ sq.tail = N % Modulus
      BY Zenon DEF Types, Positions
    <2> QED BY <1>1, <1>3, <2>1, Moves, WrappedStep, Zenon
  <1> HIDE DEF N
  <1>9. Types'
    <2>1. sqes' \in [0..(SqEntries - 1) -> Entry]
      BY <1>2, <1>5, Zenon DEF Types, Entry
    <2> QED BY <1>3, <1>7, <1>8, <2>1, Zenon DEF Types
  <1>10. Positions'
    <2>1. Taken <= N + 1 /\ (N + 1) - Taken <= SqEntries
      BY <1>1, <1>4 DEF Positions, N
    <2> QED BY <1>3, <1>6, <1>7, <1>8, <2>1, Zenon DEF Positions
  <1>11. SqSlots'
    <2>1. ASSUME NEW n \in 1..(N + 1), (N + 1) - n < SqEntries
          PROVE  sqes'[(n - 1) % SqEntries] = submitted'[n]
      <3>1. CASE n = N + 1
        BY <1>1, <1>2, <1>5, <1>7, <3>1 DEF Types
      <3>2. CASE n \in 1..N
        <4>1. n - 1 \in Nat /\ n - 1 < N /\ N - (n - 1) < SqEntries
          BY <1>1, <2>1, <3>2
        <4>2. (n - 1) % SqEntries # N % SqEntries
          BY <1>1, <4>1, SlotsDiffer, Zenon
        <4>3. (n - 1) % SqEntries \in 0..(SqEntries - 1)
          BY <4>1, SqIndex, Zenon
        <4>4. sqes'[(n - 1) % SqEntries] = sqes[(n - 1) % SqEntries]
          BY <1>2, <1>5, <4>2, <4>3, Zenon DEF Types
        <4>5. N - n < SqEntries
          BY <1>1, <2>1, <3>2
        <4>6. sqes[(n - 1) % SqEntries] = submitted[n]
          BY <3>2, <4>5, Zenon DEF SqSlots, N
        <4> QED BY <1>7, <3>2, <4>4, <4>6, Zenon
      <3> QED BY <1>1, <3>1, <3>2
    <2>2. ~(pc' = "fetch" /\ ~concurrent')
      BY <1>3, Zenon DEF Submit, UserRuns
    <2>3. ExecutesOwnOrRefill'
      <3> SUFFICES ASSUME NEW n \in 1..Len(executed)
                   PROVE  \/ n <= N + 1 /\ executed[n] = submitted'[n]
                          \/ /\ concurrent /\ n + SqEntries <= N + 1
                             /\ executed[n] = submitted'[n + SqEntries]
        BY <1>3, <1>7, Zenon DEF ExecutesOwnOrRefill
      <3>1. CASE n <= N /\ executed[n] = submitted[n]
        BY <1>1, <1>7, <3>1
      <3>2. CASE /\ concurrent /\ n + SqEntries <= N
                 /\ executed[n] = submitted[n + SqEntries]
        <4>1. n + SqEntries \in 1..N
          BY <1>1, <3>2
        <4> QED BY <1>1, <1>7, <3>2, <4>1
      <3> QED BY <3>1, <3>2, Zenon DEF SqSlots, ExecutesOwnOrRefill, N
    <2> QED BY <1>7, <2>1, <2>2, <2>3, Zenon DEF SqSlots
  <1>12. Completing'
    BY <1>3, Zenon DEF Completing
  <1>13. CqSlots'
    BY <1>3, Zenon DEF CqSlots, AnswersOwnOrStale, Due, Before
  <1> QED BY <1>9, <1>10, <1>11, <1>12, <1>13, Zenon

(* Userspace collects: the slot it reads is one of the last lap.            *)
LEMMA CollectUInv ==
  ASSUME UInv, Collect, UNCHANGED concurrent
  PROVE  UInv'
  <1> USE DEF UInv
  <1> DEFINE A == Len(answers)
             P == Len(posted)
  <1>1. Modulus \in Nat \ {0} /\ CqEntries \in Nat \ {0} /\ A \in Nat /\ P \in Nat
    BY RingAssumption, Counts
  <1>2. /\ answers' = Append(answers, cqes[Index(cq.head, CqEntries)])
        /\ cq' = Pop(cq)
        /\ UNCHANGED <<sq, sqes, cqes, pc, pos, sqe, submitted, executed, posted>>
    BY Zenon DEF Collect
  <1>3. A < P
    <2>1. RingLen(cq) = P - A
      BY Occupancy, Zenon DEF LenIsOccupancy
    <2>2. RingLen(cq) # 0
      BY Zenon DEF Collect, IsEmpty
    <2>3. A <= P
      BY Zenon DEF Positions
    <2> QED BY <1>1, <2>1, <2>2, <2>3
  <1>4. Index(cq.head, CqEntries) = A % CqEntries /\ A % CqEntries \in 0..(CqEntries - 1)
    BY <1>1, SqIndex, Zenon DEF Positions
  <1>5. Taken' = Taken
    BY <1>2, Zenon DEF Taken
  <1>6. cqes[A % CqEntries] \in CqEntry
    BY <1>4, Zenon DEF Types
  <1>7. /\ answers' \in Seq(CqEntry) /\ Len(answers') = A + 1
        /\ answers'[A + 1] = cqes[A % CqEntries] /\ \A n \in 1..A : answers'[n] = answers[n]
    BY <1>2, <1>4, <1>6 DEF Types
  <1>8. cq' \in Ring /\ cq'.head = (A + 1) % Modulus /\ cq'.tail = P % Modulus
    <2>1. cq \in Ring /\ cq.head = A % Modulus /\ cq.tail = P % Modulus
      BY Zenon DEF Types, Positions
    <2> QED BY <1>1, <1>2, <2>1, Moves, WrappedStep, Zenon
  <1> HIDE DEF A, P
  <1>9. Types'
    BY <1>2, <1>7, <1>8, Zenon DEF Types
  <1>10. Positions'
    BY <1>1, <1>2, <1>3, <1>5, <1>7, <1>8 DEF Positions, A, P
  <1>11. SqSlots'
    BY <1>2, <1>5, Zenon DEF SqSlots, ExecutesOwnOrRefill
  <1>12. Completing'
    BY <1>2, Zenon DEF Completing
  <1>13. CqSlots'
    <2>1. cqes[A % CqEntries] = Due(A + 1) \/ (concurrent /\ cqes[A % CqEntries] = Before(A + 1))
      <3>1. A + 1 \in 1..P /\ P - (A + 1) < CqEntries /\ (A + 1) - 1 = A
        BY <1>1, <1>3 DEF Positions, A, P
      <3>2. cqes[A % CqEntries] =
              IF pc = "store" /\ A + 1 = P THEN Before(A + 1) ELSE Due(A + 1)
        BY <3>1, Zenon DEF CqSlots, P
      <3>3. pc = "store" => concurrent
        BY Zenon DEF Collect, UserRuns
      <3> QED BY <3>2, <3>3, Zenon
    <2>2. \A n \in 1..(A + 1) : n <= P /\ posted[n] \in 1..Len(executed)
      BY <1>1, <1>3 DEF Completing, P
    <2>3. ASSUME NEW n \in 1..(A + 1)
          PROVE  answers'[n] = Due(n) \/ (concurrent /\ answers'[n] = Before(n))
      <3>1. CASE n = A + 1
        BY <1>7, <2>1, <3>1, Zenon
      <3>2. CASE n \in 1..A
        BY <1>7, <3>2, Zenon DEF CqSlots, AnswersOwnOrStale, A
      <3> QED BY <1>1, <3>1, <3>2
    <2>4. \A n : Due(n)' = Due(n) /\ Before(n)' = Before(n)
      BY <1>2, Zenon DEF Due, Before
    <2>5. AnswersOwnOrStale'
      <3>1. \A m, n \in 1..Len(posted') : m < n => posted'[m] < posted'[n]
        BY <1>2, Zenon DEF CqSlots, AnswersOwnOrStale
      <3> QED BY <1>2, <1>7, <2>2, <2>3, <2>4, <3>1, Zenon DEF AnswersOwnOrStale, P
    <2> QED BY <1>2, <2>4, <2>5, Zenon DEF CqSlots
  <1> QED BY <1>9, <1>10, <1>11, <1>12, <1>13, Zenon

(* process_sq is entered.                                                   *)
LEMMA EnterUInv ==
  ASSUME UInv, Enter, UNCHANGED concurrent
  PROVE  UInv'
  <1> USE DEF UInv
  <1>1. /\ pc = "idle" /\ pc' = "pop"
        /\ UNCHANGED <<sq, cq, sqes, cqes, pos, sqe, submitted, executed, posted, answers>>
    BY Zenon DEF Enter, shared, history
  <1>2. Taken' = Taken
    BY <1>1, Zenon DEF Taken
  <1>3. Types'
    BY <1>1, Zenon DEF Types
  <1>4. Positions'
    BY <1>1, <1>2, Zenon DEF Positions
  <1>5. SqSlots'
    BY <1>1, Zenon DEF SqSlots, ExecutesOwnOrRefill
  <1>6. Completing'
    BY <1>1, Zenon DEF Completing
  <1>7. CqSlots'
    BY <1>1, Zenon DEF CqSlots, AnswersOwnOrStale, Due, Before
  <1> QED BY <1>3, <1>4, <1>5, <1>6, <1>7

(* process_sq finds the ring empty, or takes the entry at its head.         *)
LEMMA PopSqUInv ==
  ASSUME UInv, PopSq, UNCHANGED concurrent
  PROVE  UInv'
  <1> USE DEF UInv
  <1>1. /\ pc = "pop" /\ pc' \in {"idle", "fetch"}
        /\ UNCHANGED <<cq, sqes, cqes, sqe, submitted, executed, posted, answers>>
    BY Zenon DEF PopSq, history
  <1>2. Taken = Len(executed) /\ Len(executed) \in Nat /\ Len(submitted) \in Nat
    BY <1>1, Counts DEF Taken
  <1>3. Completing'
    BY <1>1, Zenon DEF Completing
  <1>4. CqSlots'
    BY <1>1, Zenon DEF CqSlots, AnswersOwnOrStale, Due, Before
  <1>5. CASE IsEmpty(sq)
    <2>1. pc' = "idle" /\ UNCHANGED <<sq, pos>> /\ Taken' = Taken
      BY <1>1, <1>5, Zenon DEF PopSq, Taken
    <2>2. Types'
      BY <1>1, <2>1, Zenon DEF Types
    <2>3. Positions'
      BY <1>1, <2>1, Zenon DEF Positions
    <2>4. SqSlots'
      BY <1>1, <2>1, Zenon DEF SqSlots, ExecutesOwnOrRefill
    <2> QED BY <1>3, <1>4, <2>2, <2>3, <2>4, Zenon
  <1>6. CASE ~IsEmpty(sq)
    <2>1. pc' = "fetch" /\ sq' = Pop(sq) /\ pos' = sq.head
      BY <1>6, Zenon DEF PopSq
    <2>2. Taken' = Taken + 1
      BY <1>1, <1>2, <2>1, Zenon DEF Taken
    <2>3. Taken < Len(submitted)
      <3>1. RingLen(sq) = Len(submitted) - Taken
        BY Occupancy, Zenon DEF LenIsOccupancy
      <3>2. RingLen(sq) # 0
        BY <1>6, Zenon DEF IsEmpty
      <3>3. Taken <= Len(submitted)
        BY Zenon DEF Positions
      <3> QED BY <1>2, <3>1, <3>2, <3>3
    <2>4. sq' \in Ring /\ sq'.head = (Taken + 1) % Modulus /\ sq'.tail = Len(submitted) % Modulus
      <3>1. sq \in Ring /\ sq.head = Taken % Modulus /\ sq.tail = Len(submitted) % Modulus
        BY Zenon DEF Types, Positions
      <3>2. (sq.head + 1) % Modulus = (Taken + 1) % Modulus
        <4>1. Taken \in Nat
          BY <1>2, Zenon
        <4> QED BY <3>1, <4>1, WrappedStep, Zenon
      <3> QED BY <2>1, <3>1, <3>2, Moves, Zenon
    <2>5. pos' = Len(executed) % Modulus /\ pos' \in Nat
      BY <1>2, <2>1 DEF Types, Positions, Ring
    <2>6. Types'
      BY <1>1, <2>4, <2>5, Zenon DEF Types
    <2>7. Positions'
      <3>1. Taken + 1 <= Len(submitted) /\ Len(submitted) - (Taken + 1) <= SqEntries
        BY <1>2, <2>3, RingAssumption DEF Positions
      <3> QED BY <1>1, <2>1, <2>2, <2>4, <2>5, <3>1, Zenon DEF Positions
    <2>8. SqSlots'
      <3>1. Len(submitted) - (Taken + 1) < SqEntries
        BY <1>2, <2>3, RingAssumption DEF Positions
      <3> QED BY <1>1, <2>2, <3>1, Zenon DEF SqSlots, ExecutesOwnOrRefill
    <2> QED BY <1>3, <1>4, <2>6, <2>7, <2>8
  <1> QED BY <1>5, <1>6, Zenon

(* The entry read is the one taken, or the one submitted a lap later.       *)
LEMMA FetchUInv ==
  ASSUME UInv, FetchAndExecute, UNCHANGED concurrent
  PROVE  UInv'
  <1> USE DEF UInv
  <1> DEFINE X == Len(executed)
             N == Len(submitted)
  <1>1. /\ pc = "fetch" /\ pc' = "complete" /\ sqe' = sqes[Index(pos, SqEntries)]
        /\ executed' = Append(executed, sqe')
        /\ UNCHANGED <<sq, cq, sqes, cqes, pos, submitted, posted, answers>>
    BY Zenon DEF FetchAndExecute, shared
  <1>2. X \in Nat /\ N \in Nat /\ Taken = X + 1 /\ SqEntries \in Nat \ {0}
    BY <1>1, Counts, RingAssumption, Zenon DEF Taken
  <1>3. sqe' = sqes[X % SqEntries] /\ X % SqEntries \in 0..(SqEntries - 1)
    BY <1>1, <1>2, SqIndex, Zenon DEF Positions
  <1>4. sqe' \in Entry
    BY <1>3, Zenon DEF Types
  <1>5. /\ executed' \in Seq(Entry) /\ Len(executed') = X + 1
        /\ executed'[X + 1] = sqe' /\ \A n \in 1..X : executed'[n] = executed[n]
    BY <1>1, <1>4 DEF Types
  <1>6. Taken' = Taken
    BY <1>1, <1>2, <1>5 DEF Taken
  <1> HIDE DEF X, N
  <1>7. Types'
    BY <1>1, <1>4, <1>5, Zenon DEF Types
  <1>8. Positions'
    BY <1>1, <1>6, Zenon DEF Positions
  <1>9. \/ X + 1 <= N /\ sqe' = submitted[X + 1]
        \/ /\ concurrent /\ X + 1 + SqEntries <= N
           /\ sqe' = submitted[X + 1 + SqEntries]
    <2>1. X + 1 <= N /\ N - (X + 1) <= SqEntries
      BY <1>2, Zenon DEF Positions, N
    <2>2. CASE N - (X + 1) < SqEntries
      <3>1. X + 1 \in 1..N /\ (X + 1) - 1 = X
        BY <1>2, <2>1
      <3> QED BY <1>3, <2>1, <2>2, <3>1, Zenon DEF SqSlots, N
    <2>3. CASE N - (X + 1) = SqEntries
      <3>1. N = X + 1 + SqEntries /\ N \in 1..N /\ N - N < SqEntries /\ N - 1 = X + SqEntries
        BY <1>2, <2>3
      <3>2. sqes[(N - 1) % SqEntries] = submitted[N]
        BY <3>1, Zenon DEF SqSlots, N
      <3>3. (X + SqEntries) % SqEntries = X % SqEntries
        BY <1>2, SlotsRecur, Zenon
      <3>4. concurrent
        BY <1>1, <1>2, <2>3 DEF SqSlots, N, Types
      <3> QED BY <1>2, <1>3, <3>1, <3>2, <3>3, <3>4
    <2> QED BY <1>2, <2>1, <2>2, <2>3
  <1>10. ExecutesOwnOrRefill'
    <2> SUFFICES ASSUME NEW n \in 1..(X + 1)
                 PROVE  \/ n <= N /\ executed'[n] = submitted[n]
                        \/ /\ concurrent /\ n + SqEntries <= N
                           /\ executed'[n] = submitted[n + SqEntries]
      BY <1>1, <1>5, Zenon DEF ExecutesOwnOrRefill, N
    <2>1. CASE n = X + 1
      BY <1>5, <1>9, <2>1, Zenon
    <2>2. CASE n \in 1..X
      BY <1>5, <2>2, Zenon DEF SqSlots, ExecutesOwnOrRefill, X, N
    <2> QED BY <1>2, <2>1, <2>2
  <1>11. SqSlots'
    BY <1>1, <1>10, Zenon DEF SqSlots
  <1>12. \A n \in 1..Len(posted) : posted[n] \in 1..X
    BY Zenon DEF Completing, X
  <1>13. Completing'
    BY <1>1, <1>2, <1>5, <1>12 DEF Completing
  <1>14. \A n \in 1..Len(posted) : Due(n)' = Due(n) /\ Before(n)' = Before(n)
    <2>1. \A n \in 1..Len(posted) : executed'[posted[n]] = executed[posted[n]]
      BY <1>5, <1>12, Zenon
    <2>2. ASSUME NEW n \in 1..Len(posted) PROVE Due(n)' = Due(n)
      BY <1>1, <2>1, Zenon DEF Due
    <2>3. ASSUME NEW n \in 1..Len(posted) PROVE Before(n)' = Before(n)
      <3>1. CASE n <= CqEntries
        BY <3>1, Zenon DEF Before
      <3>2. CASE ~(n <= CqEntries)
        <4>1. n - CqEntries \in 1..Len(posted)
          BY <3>2, Counts, RingAssumption
        <4> QED BY <2>2, <4>1, Zenon DEF Before
      <3> QED BY <3>1, <3>2, Zenon
    <2> QED BY <2>2, <2>3, Zenon
  <1>15. CqSlots'
    <2>1. \A n \in 1..Len(answers) : n \in 1..Len(posted)
      BY Counts DEF Positions
    <2>2. AnswersOwnOrStale'
      <3>1. \A m, n \in 1..Len(posted) : m < n => posted[m] < posted[n]
        BY Zenon DEF CqSlots, AnswersOwnOrStale
      <3>2. \A n \in 1..Len(answers) : posted[n] \in 1..(X + 1)
        BY <1>2, <1>12, <2>1
      <3>3. ASSUME NEW n \in 1..Len(answers)
            PROVE  /\ n <= Len(posted)
                   /\ answers[n] = Due(n)' \/ (concurrent /\ answers[n] = Before(n)')
        BY <1>14, <2>1, Zenon DEF CqSlots, AnswersOwnOrStale
      <3> QED BY <1>1, <1>5, <3>1, <3>2, <3>3, Zenon DEF AnswersOwnOrStale
    <2> QED BY <1>1, <1>14, <2>2, Zenon DEF CqSlots
  <1> QED BY <1>7, <1>8, <1>11, <1>13, <1>15, Zenon

(* The completion's slot is published or the completion dropped: what the   *)
(* slot holds now is the completion of a lap ago.                           *)
LEMMA PushCqUInv ==
  ASSUME UInv, PushCq, UNCHANGED concurrent
  PROVE  UInv'
  <1> USE DEF UInv
  <1> DEFINE P == Len(posted)
             X == Len(executed)
  <1>1. /\ pc = "complete" /\ pc' \in {"pop", "store"}
        /\ UNCHANGED <<sq, sqes, cqes, sqe, submitted, executed, answers>>
    BY Zenon DEF PushCq
  <1>2. Taken' = Taken
    BY <1>1, Zenon DEF Taken
  <1>3. SqSlots'
    BY <1>1, Zenon DEF SqSlots, ExecutesOwnOrRefill
  <1>4. CASE IsFull(cq, CqEntries)
    <2>1. pc' = "pop" /\ UNCHANGED <<cq, pos, posted>>
      BY <1>4, Zenon DEF PushCq
    <2>2. Types'
      BY <1>1, <2>1, Zenon DEF Types
    <2>3. Positions'
      BY <1>1, <1>2, <2>1, Zenon DEF Positions
    <2>4. Completing'
      BY <1>1, <2>1, Zenon DEF Completing
    <2>5. CqSlots'
      BY <1>1, <2>1, Zenon DEF CqSlots, AnswersOwnOrStale, Due, Before
    <2> QED BY <1>3, <2>2, <2>3, <2>4, <2>5, Zenon
  <1>5. CASE ~IsFull(cq, CqEntries)
    <2>1. pc' = "store" /\ cq' = Push(cq) /\ pos' = cq.tail /\ posted' = Append(posted, X)
      BY <1>5, Zenon DEF PushCq
    <2>2. P \in Nat /\ X \in Nat /\ Len(answers) \in Nat /\ CqEntries \in Nat \ {0}
      BY Counts, RingAssumption, Zenon
    <2>3. /\ posted' \in Seq(Nat) /\ Len(posted') = P + 1
          /\ posted'[P + 1] = X /\ \A n \in 1..P : posted'[n] = posted[n]
      BY <2>1, <2>2 DEF Types
    <2>4. P - Len(answers) < CqEntries
      BY <2>2, <1>5, Occupancy DEF IsFull, LenIsOccupancy
    <2>5. cq' \in Ring /\ cq'.head = Len(answers) % Modulus /\ cq'.tail = (P + 1) % Modulus
      <3>1. cq \in Ring /\ cq.head = Len(answers) % Modulus /\ cq.tail = P % Modulus
        BY Zenon DEF Types, Positions
      <3> QED BY <2>1, <2>2, <3>1, Moves, WrappedStep, Zenon
    <2>6. pos' = P % Modulus /\ pos' \in Nat
      BY <2>1 DEF Positions, Types, Ring
    <2>7. X \in 1..X /\ sqe = executed[X] /\ \A n \in 1..P : posted[n] \in 1..X /\ posted[n] < X
      BY <1>1, <2>2 DEF Completing
    <2> HIDE DEF P, X
    <2>8. Types'
      BY <1>1, <2>1, <2>3, <2>5, <2>6, Zenon DEF Types
    <2>9. Positions'
      <3>1. /\ Len(answers) <= P + 1 /\ (P + 1) - Len(answers) <= CqEntries
            /\ P + 1 > 0 /\ (P + 1) - 1 = P
        BY <2>2, <2>4 DEF Positions, P
      <3> QED BY <1>1, <1>2, <2>1, <2>3, <2>5, <2>6, <3>1, Zenon DEF Positions
    <2>10. Completing'
      <3>1. \A n \in 1..(P + 1) : posted'[n] \in 1..X
        <4>1. \A n \in 1..(P + 1) : n \in 1..P \/ n = P + 1
          BY <2>2
        <4>2. X \in 1..X /\ posted'[P + 1] = X
          BY <2>3, <2>7, Zenon
        <4> QED BY <2>3, <2>7, <4>1, <4>2, Zenon
      <3>2. X > 0
        BY <2>2, <2>7
      <3> QED BY <1>1, <2>1, <2>3, <2>7, <3>1, <3>2, Zenon DEF Completing, X
    <2>11. /\ \A n \in 1..P : Due(n)' = Due(n)
           /\ \A n \in 1..(P + 1) : Before(n)' = Before(n)
      <3>1. ASSUME NEW n \in 1..P PROVE Due(n)' = Due(n)
        BY <1>1, <2>3, Zenon DEF Due
      <3>2. ASSUME NEW n \in 1..(P + 1) PROVE Before(n)' = Before(n)
        <4>1. CASE n <= CqEntries
          BY <4>1, Zenon DEF Before
        <4>2. CASE ~(n <= CqEntries)
          <5>1. n - CqEntries \in 1..P
            BY <2>2, <4>2
          <5> QED BY <3>1, <5>1, Zenon DEF Before
        <4> QED BY <4>1, <4>2, Zenon
      <3> QED BY <3>1, <3>2, Zenon
    <2>12. AnswersOwnOrStale'
      <3>1. \A m, n \in 1..(P + 1) : m < n => posted'[m] < posted'[n]
        <4> SUFFICES ASSUME NEW m \in 1..(P + 1), NEW n \in 1..(P + 1), m < n
                     PROVE  posted'[m] < posted'[n]
          BY Zenon
        <4>1. m \in 1..P
          BY <2>2
        <4>2. CASE n = P + 1
          BY <2>3, <2>7, <4>1, <4>2, Zenon
        <4>3. CASE n \in 1..P
          BY <2>3, <4>1, <4>3, Zenon DEF CqSlots, AnswersOwnOrStale, P
        <4> QED BY <2>2, <4>2, <4>3
      <3>2. ASSUME NEW n \in 1..Len(answers)
            PROVE  /\ n <= P + 1 /\ posted'[n] \in 1..X
                   /\ answers[n] = Due(n)' \/ (concurrent /\ answers[n] = Before(n)')
        <4>1. n \in 1..P /\ n \in 1..(P + 1)
          BY <2>2 DEF Positions, P
        <4>2. n <= P + 1 /\ posted'[n] \in 1..X
          BY <2>2, <2>3, <2>7, <4>1
        <4>3. answers[n] = Due(n) \/ (concurrent /\ answers[n] = Before(n))
          BY Zenon DEF CqSlots, AnswersOwnOrStale
        <4> QED BY <2>11, <4>1, <4>2, <4>3, Zenon
      <3> QED BY <1>1, <2>3, <3>1, <3>2, Zenon DEF AnswersOwnOrStale, X
    <2>13. CqSlots'
      <3>1. ASSUME NEW n \in 1..P, (P + 1) - n < CqEntries
            PROVE  cqes[(n - 1) % CqEntries] = Due(n)'
        <4>1. P - n < CqEntries
          BY <2>2, <3>1
        <4> QED BY <1>1, <2>11, <4>1, Zenon DEF CqSlots, P
      <3>2. cqes[((P + 1) - 1) % CqEntries] = Before(P + 1)
        <4>1. CASE P + 1 <= CqEntries
          <5>1. P + 1 \in (P + 1)..CqEntries
            BY <2>2, <4>1
          <5> QED BY <4>1, <5>1, Zenon DEF CqSlots, Before, P
        <4>2. CASE ~(P + 1 <= CqEntries)
          <5> DEFINE k == (P + 1) - CqEntries
          <5>1. k \in 1..P /\ P - k < CqEntries /\ k - 1 \in Nat /\ (k - 1) + CqEntries = (P + 1) - 1
            BY <2>2, <4>2
          <5> HIDE DEF k
          <5>2. cqes[(k - 1) % CqEntries] = Due(k)
            BY <1>1, <5>1, Zenon DEF CqSlots, P
          <5>3. ((k - 1) + CqEntries) % CqEntries = (k - 1) % CqEntries
            BY <2>2, <5>1, SlotsRecur, Zenon
          <5>4. Before(P + 1) = Due(k)
            BY <4>2, Zenon DEF Before, k
          <5> QED BY <5>1, <5>2, <5>3, <5>4, Zenon
        <4> QED BY <4>1, <4>2, Zenon
      <3>3. ASSUME NEW n \in 1..(P + 1), (P + 1) - n < CqEntries
            PROVE  cqes[(n - 1) % CqEntries] = IF n = P + 1 THEN Before(n)' ELSE Due(n)'
        <4>1. CASE n = P + 1
          BY <2>11, <3>2, <4>1, Zenon
        <4>2. CASE n \in 1..P
          BY <2>2, <3>1, <3>3, <4>2
        <4> QED BY <2>2, <4>1, <4>2
      <3>4. \A n \in ((P + 1) + 1)..CqEntries : cqes[(n - 1) % CqEntries] = BlankCqe
        BY <2>2 DEF CqSlots, P
      <3> QED BY <1>1, <2>1, <2>3, <2>12, <3>3, <3>4, Zenon DEF CqSlots
    <2> QED BY <1>3, <2>8, <2>9, <2>10, <2>13
  <1> QED BY <1>4, <1>5, Zenon

(* The completion is stored into the slot published last.                   *)
LEMMA StoreUInv ==
  ASSUME UInv, StoreCqe, UNCHANGED concurrent
  PROVE  UInv'
  <1> USE DEF UInv
  <1> DEFINE P == Len(posted)
  <1>1. /\ pc = "store" /\ pc' = "pop"
        /\ cqes' = [cqes EXCEPT ![Index(pos, CqEntries)] = CqEntryOf(sqe)]
        /\ UNCHANGED <<sq, cq, sqes, pos, sqe, submitted, executed, posted, answers>>
    BY Zenon DEF StoreCqe, history
  <1>2. P \in Nat /\ P > 0 /\ P - 1 \in Nat /\ CqEntries \in Nat \ {0} /\ pos = (P - 1) % Modulus
    <2>1. P \in Nat /\ P > 0 /\ CqEntries \in Nat \ {0} /\ pos = (P - 1) % Modulus
      BY <1>1, Counts, RingAssumption, Zenon DEF Positions
    <2> QED BY <2>1
  <1>3. Index(pos, CqEntries) = (P - 1) % CqEntries
        /\ (P - 1) % CqEntries \in 0..(CqEntries - 1)
    BY <1>2, SqIndex, Zenon
  <1>4. CqEntryOf(sqe) = Due(P)
    BY <1>1, Zenon DEF Completing, Due
  <1>5. CqEntryOf(sqe) \in CqEntry
    <2>1. sqe.user_data \in Nat /\ sqe.len \in Nat /\ sqe.opcode \in Nat
      <3>1. sqe \in SqEntry \/ sqe = Blank
        BY Zenon DEF Types, Entry
      <3>2. CASE sqe \in SqEntry
        <4>1. Opcodes \subseteq Nat /\ Lens \subseteq Nat /\ 1..Requests \subseteq Nat
          BY RingAssumption
        <4>2. sqe.opcode \in Opcodes /\ sqe.len \in Lens /\ sqe.user_data \in 1..Requests
          BY <3>2, Zenon DEF SqEntry
        <4> QED BY <4>1, <4>2, Zenon
      <3>3. CASE sqe = Blank
        BY <3>3, Zenon DEF Blank
      <3> QED BY <3>1, <3>2, <3>3, Zenon
    <2>2. Execute(sqe) \in Int
      BY <2>1 DEF Execute
    <2> QED BY <2>1, <2>2, Zenon DEF CqEntryOf, CqEntry
  <1>6. Taken' = Taken
    BY <1>1, Zenon DEF Taken
  <1>7. \A n : Due(n)' = Due(n) /\ Before(n)' = Before(n)
    BY <1>1, Zenon DEF Due, Before
  <1> HIDE DEF P
  <1>8. Types'
    BY <1>1, <1>3, <1>5, Zenon DEF Types
  <1>9. Positions'
    BY <1>1, <1>6, Zenon DEF Positions
  <1>10. SqSlots'
    BY <1>1, Zenon DEF SqSlots, ExecutesOwnOrRefill
  <1>11. Completing'
    BY <1>1, Zenon DEF Completing
  <1>12. CqSlots'
    <2>1. cqes'[(P - 1) % CqEntries] = Due(P)
      BY <1>1, <1>3, <1>4, Zenon DEF Types
    <2>2. ASSUME NEW n \in Nat, (n - 1) % CqEntries \in 0..(CqEntries - 1),
                 (n - 1) % CqEntries # (P - 1) % CqEntries
          PROVE  cqes'[(n - 1) % CqEntries] = cqes[(n - 1) % CqEntries]
      BY <1>1, <1>3, <2>2, Zenon DEF Types
    <2>3. ASSUME NEW n \in 1..P, P - n < CqEntries
          PROVE  cqes'[(n - 1) % CqEntries] = Due(n)
      <3>1. CASE n = P
        BY <2>1, <3>1, Zenon
      <3>2. CASE n \in 1..(P - 1)
        <4>1. n - 1 \in Nat /\ n - 1 < P - 1 /\ (P - 1) - (n - 1) < CqEntries
          BY <1>2, <2>3, <3>2
        <4>2. (P - 1) % CqEntries # (n - 1) % CqEntries
          BY <1>2, <4>1, SlotsDiffer, Zenon
        <4>3. (n - 1) % CqEntries \in 0..(CqEntries - 1)
          BY <4>1, SqIndex, Zenon
        <4>4. cqes[(n - 1) % CqEntries] = Due(n)
          BY <1>2, <2>3, <3>2 DEF CqSlots, P
        <4> QED BY <2>2, <4>2, <4>3, <4>4
      <3> QED BY <1>2, <3>1, <3>2
    <2>4. ASSUME NEW n \in (P + 1)..CqEntries
          PROVE  cqes'[(n - 1) % CqEntries] = BlankCqe
      <3>1. n - 1 \in Nat /\ P - 1 < n - 1 /\ (n - 1) - (P - 1) < CqEntries /\ n \in Nat
        BY <1>2
      <3>2. (n - 1) % CqEntries # (P - 1) % CqEntries
        BY <1>2, <3>1, SlotsDiffer, Zenon
      <3>3. (n - 1) % CqEntries \in 0..(CqEntries - 1)
        BY <3>1, SqIndex, Zenon
      <3>4. cqes[(n - 1) % CqEntries] = BlankCqe
        BY Zenon DEF CqSlots, P
      <3> QED BY <2>2, <3>1, <3>2, <3>3, <3>4, Zenon
    <2>5. AnswersOwnOrStale'
      BY <1>1, <1>7, Zenon DEF CqSlots, AnswersOwnOrStale
    <2> QED BY <1>1, <1>7, <2>3, <2>4, <2>5, Zenon DEF CqSlots, P
  <1> QED BY <1>8, <1>9, <1>10, <1>11, <1>12, Zenon

(* Every step of the kernel and of the program keeps the invariant.         *)
LEMMA NextUInv ==
  ASSUME UInv, [Next]_vars
  PROVE  UInv'
  <1>1. CASE Next
    BY <1>1, SubmitUInv, CollectUInv, EnterUInv, PopSqUInv, FetchUInv, PushCqUInv, StoreUInv, Zenon
       DEF Next, Kernel
  <1>2. CASE UNCHANGED vars
    <2>1. UNCHANGED <<sq, cq, sqes, cqes, pc, pos, sqe, submitted, executed, posted,
                      answers, concurrent>>
      BY <1>2, Zenon DEF vars, shared, history
    <2>2. Taken' = Taken
      BY <2>1, Zenon DEF Taken
    <2>3. Types'
      BY <2>1, Zenon DEF UInv, Types
    <2>4. Positions'
      BY <2>1, <2>2, Zenon DEF UInv, Positions
    <2>5. SqSlots'
      BY <2>1, <2>2, Zenon DEF UInv, SqSlots, ExecutesOwnOrRefill
    <2>6. Completing' /\ CqSlots'
      BY <2>1, Zenon DEF UInv, Completing, CqSlots, AnswersOwnOrStale, Due, Before
    <2> QED BY <2>3, <2>4, <2>5, <2>6, Zenon DEF UInv
  <1> QED BY <1>1, <1>2, Zenon

(* Whatever the interleaving, the invariant holds.                          *)
LEMMA UringInvariant == Spec => []UInv
  BY InitUInv, NextUInv, PTL DEF Spec

(* len(), is_empty and is_full, computed on wrapped positions, tell the     *)
(* true occupancy of both rings, for any ring size and any number of turns. *)
THEOREM LenTellsOccupancy == Spec => []LenIsOccupancy
  <1>1. UInv => LenIsOccupancy
    BY Occupancy, Zenon DEF UInv
  <1> QED BY <1>1, UringInvariant, PTL

(* process_sq executes what was submitted, once and in order; only with     *)
(* userspace running beside it can the entry of one lap later be executed   *)
(* instead.                                                                 *)
THEOREM NothingElseExecuted == Spec => []ExecutesOwnOrRefill
  <1>1. UInv => ExecutesOwnOrRefill
    BY Zenon DEF UInv, SqSlots
  <1> QED BY <1>1, UringInvariant, PTL

(* Userspace reads the completions of distinct executed entries in order,   *)
(* or, if it runs beside process_sq, the completion of one lap earlier.     *)
THEOREM AnswersMatch == Spec => []AnswersOwnOrStale
  <1>1. UInv => AnswersOwnOrStale
    BY Zenon DEF UInv, CqSlots
  <1> QED BY <1>1, UringInvariant, PTL
=============================================================================
