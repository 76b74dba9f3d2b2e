--------------------------- MODULE ServiceProofs ---------------------------
(***************************************************************************)
(* Proofs about ServiceManager: its types, and that every process in the   *)
(* table is the one its unit polls.  The strengthening says that a spawn   *)
(* is only made for a unit that is not Running.                            *)
(***************************************************************************)
EXTENDS ServiceManager, TLAPS

(* Time for the solver on steps that a slow machine would not finish in its *)
(* usual five seconds.                                                      *)
USE SMTT(30)

IInv ==
  /\ TypeOK
  /\ TableIsTracked
  /\ pc = "start" => \A u \in Units : u >= i => unit[u].state = "Stopped"
  /\ pc = "restart" => unit[i].state = "Failed"

(* A loop over the units leaves its index within them.                      *)
LEMMA AdvanceType ==
  ASSUME i \in Units, NEW here, NEW after, Advance(here, after)
  PROVE  /\ i' \in Units
         /\ pc' = here \/ pc' = after
         /\ pc' = here /\ here # after => i' = i + 1
BY ManagerAssumption DEF Advance, Units

(* What tracking says of a unit, field by field.                            *)
LEMMA TrackedFields ==
  ASSUME TableIsTracked, NEW p \in DOMAIN table
  PROVE  unit[owner[p]].state = "Running" /\ unit[owner[p]].pid = p
<1>1. unit[owner[p]] = [state |-> "Running", pid |-> p]
  BY Zenon DEF TableIsTracked
<1> QED
  BY <1>1

(* A spawn for a unit that is not Running keeps types and tracking.         *)
LEMMA SpawnKeeps ==
  ASSUME TypeOK, TableIsTracked, SpawnOK, unit[i].state # "Running",
         i' \in Units, pc' \in {"start", "poll", "restart", "yield"}
  PROVE  TypeOK' /\ TableIsTracked'
<1>1. /\ next_pid \in 2..MaxPid /\ next_pid + 1 \in 2..MaxPid /\ i \in Units
      /\ next_pid \notin DOMAIN owner
  BY ManagerAssumption DEF TypeOK, SpawnOK
<1>2. TypeOK'
  <2>1. unit' \in [Units -> [state : ServiceState, pid : 0..MaxPid]]
    BY <1>1, ManagerAssumption DEF TypeOK, SpawnOK, ServiceState
  <2>2. next_pid' \in 2..MaxPid
    BY <1>1, Zenon DEF SpawnOK
  <2>3. /\ DOMAIN table' \subseteq DOMAIN owner'
        /\ \A p \in DOMAIN table' : table'[p] \in [zombie : BOOLEAN, code : Codes \cup {0}]
    BY Zenon DEF TypeOK, SpawnOK, Live
  <2>4. /\ DOMAIN owner' \subseteq 2..(next_pid' - 1)
        /\ \A p \in DOMAIN owner' : owner'[p] \in Units
    BY <1>1, ManagerAssumption DEF TypeOK, SpawnOK
  <2> QED
    BY <2>1, <2>2, <2>3, <2>4, Zenon DEF TypeOK
<1>3. TableIsTracked'
  <2> SUFFICES ASSUME NEW p \in DOMAIN table'
               PROVE  unit'[owner'[p]] = [state |-> "Running", pid |-> p]
    BY Zenon DEF TableIsTracked
  <2>1. CASE p = next_pid
    BY <1>1, <2>1, Zenon DEF SpawnOK, TypeOK
  <2>2. CASE p # next_pid
    <3>1. p \in DOMAIN table /\ p \in DOMAIN owner /\ owner'[p] = owner[p]
      BY <2>2, Zenon DEF SpawnOK, TypeOK
    <3>2. owner[p] # i /\ owner[p] \in Units
      BY <3>1, TrackedFields DEF TypeOK
    <3>3. unit'[owner[p]] = unit[owner[p]]
      BY <3>2, Zenon DEF SpawnOK, TypeOK
    <3> QED
      BY <3>1, <3>3, Zenon DEF TableIsTracked
  <2> QED
    BY <2>1, <2>2, Zenon
<1> QED
  BY <1>2, <1>3, Zenon

(* start_all keeps the invariant: unit i is still Stopped.                  *)
LEMMA StartKeeps ==
  ASSUME IInv, StartUnit
  PROVE  IInv'
<1>1. i \in Units /\ unit[i].state = "Stopped" /\ pc = "start"
  BY DEF IInv, TypeOK, StartUnit, Units
<1>2. /\ i' \in Units /\ pc' \in {"start", "poll"}
      /\ pc' = "start" => i' = i + 1
  BY <1>1, AdvanceType DEF StartUnit
<1>3. TypeOK' /\ TableIsTracked'
  <2>1. CASE SpawnOK
    BY <1>1, <1>2, <2>1, SpawnKeeps, Zenon DEF IInv
  <2>2. CASE SpawnFails /\ unit' = [unit EXCEPT ![i].state = "Failed"]
    <3>1. unit' \in [Units -> [state : ServiceState, pid : 0..MaxPid]]
      BY <1>1, <2>2, Zenon DEF IInv, TypeOK, ServiceState
    <3>2. next_pid' \in 2..MaxPid /\ DOMAIN owner' \subseteq 2..(next_pid' - 1)
      BY <2>2, ManagerAssumption DEF IInv, TypeOK, SpawnFails
    <3>3. TypeOK'
      BY <1>2, <2>2, <3>1, <3>2, Zenon DEF IInv, TypeOK, SpawnFails
    <3>4. \A p \in DOMAIN table : owner[p] # i
      BY <1>1, TrackedFields, Zenon DEF IInv
    <3>5. \A p \in DOMAIN table : owner[p] \in Units /\ unit'[owner[p]] = unit[owner[p]]
      BY <2>2, <3>4, Zenon DEF IInv, TypeOK
    <3> QED
      BY <2>2, <3>3, <3>5, Zenon DEF IInv, SpawnFails, TableIsTracked
  <2> QED
    BY <2>1, <2>2, Zenon DEF StartUnit
<1>4. \A u \in Units : u # i => unit'[u] = unit[u]
  BY Zenon DEF StartUnit, SpawnOK, IInv, TypeOK
<1>5. pc' = "start" => \A u \in Units : u >= i' => unit'[u].state = "Stopped"
  BY <1>1, <1>2, <1>4 DEF IInv, Units
<1> QED
  BY <1>2, <1>3, <1>5, Zenon DEF IInv

(* A poll keeps the invariant: a unit is taken for exited only on a         *)
(* negative answer, after which its pid is not in the table.                *)
LEMMA PollKeeps ==
  ASSUME IInv, Poll
  PROVE  IInv'
<1>1. /\ i \in Units /\ pc = "poll"
      /\ UNCHANGED <<next_pid, owner, exit_code>>
  BY Zenon DEF IInv, TypeOK, Poll
<1>2. CASE unit[i].state # "Running"
  <2>1. i' \in Units /\ pc' \in {"poll", "yield"} /\ UNCHANGED <<unit, table>>
    BY <1>1, <1>2, AdvanceType, Zenon DEF Poll
  <2> QED
    BY <1>1, <2>1, Zenon DEF IInv, TypeOK, TableIsTracked
<1>3. CASE unit[i].state = "Running"
  <2> DEFINE pid == unit[i].pid
  <2>1. /\ DOMAIN table' \subseteq DOMAIN table
        /\ \A p \in DOMAIN table' : table'[p] = table[p]
    BY <1>3, Zenon DEF Poll, Reap
  <2>2. CASE SeemsExited(WaitResult(pid))
    <3>1. unit' = [unit EXCEPT ![i].state = "Failed"] /\ pc' = "restart" /\ i' = i
      BY <1>3, <2>2, Zenon DEF Poll
    <3>2. pid \notin DOMAIN table'
      BY <1>3, <2>2 DEF Poll, Reap, SeemsExited, WaitResult
    <3>3. \A p \in DOMAIN table' : owner[p] # i
      BY <2>1, <3>2, TrackedFields DEF IInv
    <3>4. unit' \in [Units -> [state : ServiceState, pid : 0..MaxPid]]
      BY <1>1, <3>1, Zenon DEF IInv, TypeOK, ServiceState
    <3>5. TypeOK'
      BY <1>1, <2>1, <3>1, <3>4, Zenon DEF IInv, TypeOK
    <3>6. TableIsTracked'
      <4>1. \A p \in DOMAIN table' : owner[p] \in Units /\ unit'[owner[p]] = unit[owner[p]]
        BY <2>1, <3>1, <3>3, Zenon DEF IInv, TypeOK
      <4> QED
        BY <1>1, <2>1, <4>1, Zenon DEF IInv, TableIsTracked
    <3> QED
      BY <1>1, <3>1, <3>5, <3>6 DEF IInv, TypeOK
  <2>3. CASE ~SeemsExited(WaitResult(pid))
    <3>1. i' \in Units /\ pc' \in {"poll", "yield"} /\ UNCHANGED unit
      BY <1>1, <1>3, <2>3, AdvanceType, Zenon DEF Poll
    <3> QED
      BY <1>1, <2>1, <3>1, Zenon DEF IInv, TypeOK, TableIsTracked
  <2> QED
    BY <2>2, <2>3, Zenon
<1> QED
  BY <1>2, <1>3, Zenon

(* A restart keeps the invariant: run() has just marked the unit Failed.    *)
LEMMA RestartKeeps ==
  ASSUME IInv, Restart
  PROVE  IInv'
<1>1. i \in Units /\ unit[i].state = "Failed"
  BY Zenon DEF IInv, TypeOK, Restart
<1>2. i' \in Units /\ pc' \in {"poll", "yield"}
  BY <1>1, AdvanceType, Zenon DEF Restart
<1>3. CASE SpawnOK
  BY <1>1, <1>2, <1>3, SpawnKeeps, Zenon DEF IInv
<1>4. CASE SpawnFails /\ UNCHANGED unit
  <2>1. next_pid' \in 2..MaxPid /\ DOMAIN owner' \subseteq 2..(next_pid' - 1)
    BY <1>4, ManagerAssumption DEF IInv, TypeOK, SpawnFails
  <2> QED
    BY <1>2, <1>4, <2>1, Zenon DEF IInv, TypeOK, SpawnFails, TableIsTracked
<1> QED
  BY <1>3, <1>4, Zenon DEF Restart

(* A service's exit touches only its own entry.                             *)
LEMMA ExitKeeps ==
  ASSUME IInv, NEW p \in 2..MaxPid, NEW code \in Codes, ServiceExits(p, code)
  PROVE  IInv'
<1>1. /\ DOMAIN table' = DOMAIN table
      /\ \A q \in DOMAIN table' : table'[q] \in [zombie : BOOLEAN, code : Codes \cup {0}]
      /\ UNCHANGED <<unit, pc, i, next_pid, owner>>
  BY Zenon DEF ServiceExits, IInv, TypeOK
<1> QED
  BY <1>1, Zenon DEF IInv, TypeOK, TableIsTracked

(* The invariant holds in every reachable state.                            *)
LEMMA SpecIInv == Spec => []IInv
<1>1. Init => IInv
  <2> SUFFICES ASSUME Init PROVE IInv
    BY Zenon
  <2>1. unit \in [Units -> [state : ServiceState, pid : 0..MaxPid]]
    BY ManagerAssumption DEF Init, ServiceState
  <2> QED
    BY <2>1, ManagerAssumption DEF Init, IInv, TypeOK, TableIsTracked, Units
<1>2. IInv /\ [Next]_vars => IInv'
  <2> SUFFICES ASSUME IInv, [Next]_vars PROVE IInv'
    BY Zenon
  <2>1. CASE UNCHANGED vars
    BY <2>1, Zenon DEF vars, kernel, IInv, TypeOK, TableIsTracked
  <2>2. CASE Yield
    BY <2>2, Zenon DEF Yield, kernel, IInv, TypeOK, TableIsTracked
  <2> QED
    BY <2>1, <2>2, StartKeeps, PollKeeps, RestartKeeps, ExitKeeps, Zenon DEF Next, Manager
<1> QED
  BY <1>1, <1>2, PTL DEF Spec

(* Type correctness of the manager, for any number of units and pids.       *)
THEOREM ManagerTypeCorrect == Spec => []TypeOK
BY SpecIInv, PTL DEF IInv

(* dealduck never runs two processes for a unit and never loses track of    *)
(* one, for any number of units, whenever the services exit.                *)
THEOREM ProcessesTracked == Spec => []TableIsTracked
BY SpecIInv, PTL DEF IInv
=============================================================================
