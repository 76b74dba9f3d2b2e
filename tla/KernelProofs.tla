---------------------------- MODULE KernelProofs ----------------------------
(***************************************************************************)
(* Proofs about Scheduler, Processes and KernelEntry, each of which adds   *)
(* its state to the one before.  Every system call is a step of the        *)
(* scheduler or leaves it alone, and every entry into the kernel a step of *)
(* the processes or none, so the invariants carry over from one to the     *)
(* next.                                                                   *)
(***************************************************************************)
EXTENDS KernelEntry, TLAPS

(* Time for the solver on steps that a slow machine would not finish in its *)
(* usual five seconds.                                                      *)
USE SMTT(30)

-----------------------------------------------------------------------------
(***************************************************************************)
(* Proofs about Scheduler, for any set of tasks, quantum and bound.  The   *)
(* heart is RequeueIsNoop: since every queued key lies above min_vruntime, *)
(* pick_next puts a live current task back at min_vruntime and takes the   *)
(* same task out again.                                                    *)
(***************************************************************************)
(* The inductive invariant: the safety invariants together with what ties   *)
(* current, phase, exited and the Dead state to each other.                 *)
IInv ==
  /\ TypeOK
  /\ EachLiveTaskOnce
  /\ CurrentTaskAgrees
  /\ QueueAboveCurrent
  /\ current = NoTask => phase = "boot" /\ created = {} /\ min_vruntime = 0
  /\ current # NoTask => current \in created
  /\ phase # "halt" => current \notin exited
  /\ \A t \in Tasks \ exited : state[t] # "Dead"

(* The vruntime charged by one tick is a natural number.                    *)
LEMMA IncrementNat == Increment \in Nat
  BY DEF Increment, Weight

(* While all queued keys exceed min_vruntime, pick_next on a live current   *)
(* task changes only that task's vruntime, back to min_vruntime.            *)
LEMMA RequeueIsNoop ==
  ASSUME TypeOK, QueueAboveCurrent, current \in Tasks,
         NEW st, NEW vr, st[current] # "Dead", PickNext(st, vr)
  PROVE  /\ UNCHANGED <<run_queue, current, min_vruntime, current_task>>
         /\ state' = st
         /\ vruntime' = [vr EXCEPT ![current] = min_vruntime]
  <1>1. PICK key \in InsertKey(run_queue, NoTask, current, vr) :
          TakeLeast(MapInsert(run_queue, key, current), st, [vr EXCEPT ![current] = key])
    BY DEF PickNext
  <1>2. key = min_vruntime
    BY <1>1 DEF InsertKey, FirstFree, TypeOK, QueueAboveCurrent
  <1> DEFINE q == MapInsert(run_queue, min_vruntime, current)
  <1>3. /\ DOMAIN q = DOMAIN run_queue \cup {min_vruntime}
        /\ q[min_vruntime] = current
        /\ \A k \in DOMAIN run_queue : q[k] = run_queue[k]
    BY DEF MapInsert, QueueAboveCurrent, TypeOK
  <1>4. PICK least \in DOMAIN q :
          /\ IsLeastKey(q, least)
          /\ run_queue' = MapRemove(q, least)
          /\ min_vruntime' = least
          /\ current' = q[least]
          /\ vruntime' = [vr EXCEPT ![current] = min_vruntime]
          /\ q[least] = current => state' = st /\ UNCHANGED current_task
    BY <1>1, <1>2 DEF TakeLeast
  <1>5. least = min_vruntime
    BY <1>3, <1>4 DEF IsLeastKey, QueueAboveCurrent, TypeOK
  <1>6. MapRemove(q, min_vruntime) = run_queue
    <2>1. DOMAIN q \ {min_vruntime} = DOMAIN run_queue
      BY SMTT(30), <1>3 DEF QueueAboveCurrent, TypeOK
    <2>2. MapRemove(q, min_vruntime) = [k \in DOMAIN run_queue |-> run_queue[k]]
      BY <1>3, <2>1 DEF MapRemove
    <2> QED BY <2>2 DEF TypeOK
  <1> QED BY <1>3, <1>4, <1>5, <1>6

(* The scheduler with a live current task, on st the current states and vr  *)
(* the vruntimes after charging: only that task's vruntime may change.      *)
LEMMA ScheduleLive ==
  ASSUME IInv, phase = "run", NEW vr \in [Tasks -> Nat],
         \A t \in Tasks \ {current} : vr[t] = vruntime[t],
         vruntime[current] <= vr[current],
         Schedule(state, vr)
  PROVE  /\ UNCHANGED <<run_queue, current, min_vruntime, current_task, state>>
         /\ vruntime' \in [Tasks -> Nat]
         /\ \A t \in Tasks \ {current} : vruntime'[t] = vruntime[t]
         /\ min_vruntime <= vruntime'[current]
  <1>1. current \in Tasks /\ current \notin exited /\ state[current] # "Dead"
    BY DEF IInv, TypeOK
  <1>2. CASE DOMAIN run_queue = {}
    BY <1>1, <1>2 DEF Schedule, IInv, TypeOK, QueueAboveCurrent
  <1>3. CASE DOMAIN run_queue # {}
    <2>1. PickNext(state, vr)
      BY <1>3 DEF Schedule
    <2>2. /\ UNCHANGED <<run_queue, current, min_vruntime, current_task>>
          /\ state' = state
          /\ vruntime' = [vr EXCEPT ![current] = min_vruntime]
      BY <1>1, <2>1, RequeueIsNoop DEF IInv
    <2> QED BY <1>1, <2>2 DEF IInv, TypeOK
  <1> QED BY <1>2, <1>3, Zenon

-----------------------------------------------------------------------------
(* Initially nothing is created, queued or running.                         *)
LEMMA InitIInv == Init => IInv
  BY SchedulerAssumption DEF Init, IInv, TypeOK, EachLiveTaskOnce, Queued,
     CurrentTaskAgrees, QueueAboveCurrent, TaskState

(* add_task keeps the invariant: the first task becomes current, a later    *)
(* one gets a free key above the current task's vruntime.                   *)
LEMMA AddTaskIInv ==
  ASSUME IInv, NEW t \in Tasks, AddTask(t)
  PROVE  IInv'
  <1> USE SchedulerAssumption DEF IInv
  <1>1. CASE current = NoTask
    <2>1. Queued = {}
      BY <1>1 DEF EachLiveTaskOnce
    <2>2. DOMAIN run_queue = {}
      <3>1. \A k \in DOMAIN run_queue : run_queue[k] \in Queued
        BY DEF Queued
      <3> QED BY <2>1, <3>1, Zenon
    <2>3. /\ current' = t /\ created' = {t} /\ exited = {}
          /\ UNCHANGED <<run_queue, vruntime, min_vruntime, current_ticks, state,
                         current_task, phase, exited>>
      BY <1>1 DEF AddTask, TypeOK
    <2>4. TypeOK'
      BY <2>3 DEF TypeOK
    <2>5. EachLiveTaskOnce'
      BY <2>1, <2>2, <2>3 DEF EachLiveTaskOnce, Queued
    <2>6. QueueAboveCurrent'
      BY <1>1, <2>2, <2>3 DEF QueueAboveCurrent, TypeOK
    <2> QED BY <1>1, <2>3, <2>4, <2>5, <2>6 DEF CurrentTaskAgrees
  <1>2. CASE current # NoTask
    <2>1. PICK key \in InsertKey(run_queue, current, t, vruntime) :
            /\ run_queue' = MapInsert(run_queue, key, t)
            /\ vruntime' = [vruntime EXCEPT ![t] = key]
            /\ UNCHANGED current
      BY <1>2 DEF AddTask
    <2>2. /\ UNCHANGED <<min_vruntime, current_ticks, state, current_task, phase, exited>>
          /\ created' = created \cup {t} /\ t \notin created
      BY DEF AddTask
    <2>3. /\ key \in Nat /\ key \notin DOMAIN run_queue
          /\ min_vruntime < key /\ vruntime[current] < key
      BY <1>2, <2>1 DEF InsertKey, FirstFree, MaxOf, TypeOK, QueueAboveCurrent
    <2>4. /\ DOMAIN run_queue' = DOMAIN run_queue \cup {key}
          /\ run_queue'[key] = t
          /\ \A k \in DOMAIN run_queue : run_queue'[k] = run_queue[k]
      BY <2>1, <2>3 DEF MapInsert
    <2>5. TypeOK'
      BY <2>1, <2>2, <2>3, <2>4 DEF TypeOK, MapInsert
    <2>6. \A k \in DOMAIN run_queue : run_queue[k] \in created /\ run_queue[k] # t
      BY <2>2 DEF EachLiveTaskOnce, Queued
    <2>7. EachLiveTaskOnce'
      <3>1. Queued' = Queued \cup {t}
        BY <2>4 DEF Queued
      <3>2. t # current /\ t \notin exited
        BY <1>2, <2>2 DEF TypeOK
      <3>3. Queued' = (created \ (exited \cup {current}))'
        BY <2>1, <2>2, <3>1, <3>2 DEF EachLiveTaskOnce
      <3>4. \A k \in DOMAIN run_queue' : vruntime'[run_queue'[k]] = k
        BY <2>1, <2>4, <2>6 DEF EachLiveTaskOnce, TypeOK
      <3> QED BY <3>3, <3>4 DEF EachLiveTaskOnce
    <2>8. QueueAboveCurrent'
      BY <1>2, <2>1, <2>2, <2>3, <2>4 DEF QueueAboveCurrent, TypeOK
    <2> QED BY <1>2, <2>1, <2>2, <2>5, <2>7, <2>8 DEF CurrentTaskAgrees
  <1> QED BY <1>1, <1>2

(* What a yield or a tick does: at most the current task's vruntime and the *)
(* tick counter change.                                                     *)
LEMMA ChargeOnlyIInv ==
  ASSUME IInv, phase = "run",
         UNCHANGED <<run_queue, current, min_vruntime, current_task, state,
                     phase, created, exited>>,
         vruntime' \in [Tasks -> Nat],
         \A t \in Tasks \ {current} : vruntime'[t] = vruntime[t],
         min_vruntime <= vruntime'[current],
         current_ticks' \in 0..(QuantumTicks - 1)
  PROVE  IInv'
  <1>1. \A k \in DOMAIN run_queue : run_queue[k] \in Tasks \ {current}
    BY DEF IInv, EachLiveTaskOnce, Queued, TypeOK
  <1>2. TypeOK'
    BY DEF IInv, TypeOK
  <1>3. EachLiveTaskOnce'
    BY <1>1 DEF IInv, EachLiveTaskOnce, Queued
  <1> QED BY <1>2, <1>3 DEF IInv, CurrentTaskAgrees, QueueAboveCurrent

(* yield_now keeps the invariant and the task on the CPU.                    *)
LEMMA YieldIInv ==
  ASSUME IInv, Yield
  PROVE  IInv' /\ UNCHANGED <<current_task, current>>
  <1>1. current \in Tasks
    BY DEF IInv, TypeOK, Yield
  <1>2. /\ UNCHANGED <<run_queue, current, min_vruntime, current_task, state>>
        /\ vruntime' \in [Tasks -> Nat]
        /\ \A t \in Tasks \ {current} : vruntime'[t] = vruntime[t]
        /\ min_vruntime <= vruntime'[current]
    <2>1. vruntime \in [Tasks -> Nat] /\ vruntime[current] <= vruntime[current]
      BY <1>1 DEF IInv, TypeOK
    <2> QED BY <2>1, ScheduleLive DEF Yield
  <1>3. current_ticks' \in 0..(QuantumTicks - 1)
    BY DEF Yield, IInv, TypeOK
  <1> QED BY <1>2, <1>3, ChargeOnlyIInv DEF Yield

(* tick_now keeps the invariant and the task on the CPU, also at the end of *)
(* a quantum.                                                               *)
LEMMA TickIInv ==
  ASSUME IInv, Tick
  PROVE  IInv' /\ UNCHANGED <<current_task, current>>
  <1> DEFINE vr == [vruntime EXCEPT ![current] = @ + Increment]
  <1>1. current \in Tasks
    BY DEF IInv, TypeOK, Tick
  <1>2. /\ vr \in [Tasks -> Nat]
        /\ \A t \in Tasks \ {current} : vr[t] = vruntime[t]
        /\ vruntime[current] <= vr[current]
        /\ min_vruntime <= vr[current]
    BY <1>1, IncrementNat, SchedulerAssumption DEF IInv, TypeOK, QueueAboveCurrent
  <1>3. CASE current_ticks + 1 >= QuantumTicks
    <2>1. current_ticks' = 0 /\ Schedule(state, vr)
      BY <1>3 DEF Tick
    <2>2. /\ UNCHANGED <<run_queue, current, min_vruntime, current_task, state>>
          /\ vruntime' \in [Tasks -> Nat]
          /\ \A t \in Tasks \ {current} : vruntime'[t] = vruntime[t]
          /\ min_vruntime <= vruntime'[current]
      <3> HIDE DEF vr
      <3> QED BY <1>2, <2>1, ScheduleLive DEF Tick
    <2>3. current_ticks' \in 0..(QuantumTicks - 1)
      BY <2>1, SchedulerAssumption
    <2> QED BY <2>2, <2>3, ChargeOnlyIInv DEF Tick
  <1>4. CASE ~(current_ticks + 1 >= QuantumTicks)
    <2>1. /\ current_ticks' = current_ticks + 1
          /\ vruntime' = vr
          /\ UNCHANGED <<run_queue, current, min_vruntime, state, current_task>>
      BY <1>4 DEF Tick
    <2>2. current_ticks' \in 0..(QuantumTicks - 1)
      BY <1>4, <2>1, SchedulerAssumption DEF IInv, TypeOK
    <2>3. phase = "run" /\ UNCHANGED <<phase, created, exited>>
      BY DEF Tick
    <2> HIDE DEF vr
    <2> QED BY <1>2, <2>1, <2>2, <2>3, ChargeOnlyIInv
  <1> QED BY <1>3, <1>4

(* exit_current keeps the invariant: with an empty queue the kernel halts,  *)
(* otherwise the least queued task takes over and every key left is larger. *)
LEMMA ExitIInv ==
  ASSUME IInv, ExitCurrent
  PROVE  IInv'
  <1> USE SchedulerAssumption
  <1> DEFINE st == [state EXCEPT ![current] = "Dead"]
  <1>1. /\ phase = "run" /\ current \in Tasks /\ current \in created
        /\ exited' = exited \cup {current}
        /\ UNCHANGED <<current_ticks, created>>
        /\ Schedule(st, vruntime)
    BY Zenon DEF ExitCurrent, IInv, TypeOK
  <1>2. /\ st \in [Tasks -> TaskState] /\ st[current] = "Dead"
        /\ \A t \in Tasks \ {current} : st[t] = state[t]
    BY <1>1, Zenon DEF IInv, TypeOK, TaskState
  <1> HIDE DEF st
  <1>3. CASE DOMAIN run_queue = {}
    <2>1. /\ phase' = "halt" /\ state' = st
          /\ UNCHANGED <<run_queue, current, min_vruntime, current_task, vruntime>>
      BY <1>1, <1>3, Zenon DEF Schedule, ExitCurrent
    <2>2. TypeOK'
      BY <1>1, <1>2, <2>1, Zenon DEF IInv, TypeOK
    <2>3. EachLiveTaskOnce'
      BY <1>1, <2>1 DEF IInv, EachLiveTaskOnce, Queued
    <2> QED BY <1>1, <1>2, <2>1, <2>2, <2>3, Zenon
            DEF IInv, CurrentTaskAgrees, QueueAboveCurrent
  <1>4. CASE DOMAIN run_queue # {}
    <2>1. phase' = "run" /\ TakeLeast(run_queue, st, vruntime)
      BY <1>1, <1>2, <1>4, Zenon DEF Schedule, PickNext, ExitCurrent
    <2>2. PICK key \in DOMAIN run_queue :
            /\ IsLeastKey(run_queue, key)
            /\ run_queue' = MapRemove(run_queue, key)
            /\ min_vruntime' = key
            /\ current' = run_queue[key]
            /\ vruntime' = vruntime
            /\ run_queue[key] # current =>
                 /\ state' = [st EXCEPT ![current] = "Ready", ![run_queue[key]] = "Running"]
                 /\ current_task' = run_queue[key]
      BY <2>1, Zenon DEF TakeLeast
    <2> DEFINE next == run_queue[key]
    <2>3. next \in Tasks /\ next \in created /\ next \notin exited /\ next # current
      BY <2>2 DEF IInv, EachLiveTaskOnce, Queued, TypeOK
    <2>4. /\ DOMAIN run_queue' = DOMAIN run_queue \ {key}
          /\ \A k \in DOMAIN run_queue' : run_queue'[k] = run_queue[k]
      BY <2>2, Zenon DEF MapRemove
    <2>5. \A k \in DOMAIN run_queue : k # key => run_queue[k] # next
      BY <2>2, Zenon DEF IInv, EachLiveTaskOnce
    <2>6. TypeOK'
      <3>1. state' \in [Tasks -> TaskState]
        BY <1>2, <2>2, <2>3, Zenon DEF TaskState
      <3>2. DOMAIN run_queue' \subseteq Nat /\ run_queue' \in [DOMAIN run_queue' -> Tasks]
        BY <2>2, <2>4, Zenon DEF IInv, TypeOK, MapRemove
      <3>3. /\ min_vruntime' \in Nat /\ current' \in Tasks /\ current_task' \in Tasks
            /\ exited' \subseteq created'
        BY <1>1, <2>2, <2>3, Zenon DEF IInv, TypeOK
      <3> QED BY <1>1, <2>1, <2>2, <3>1, <3>2, <3>3, Zenon DEF IInv, TypeOK
    <2>7. EachLiveTaskOnce'
      <3>1. Queued' = Queued \ {next}
        BY <2>4, <2>5, Zenon DEF Queued
      <3>2. Queued' = (created \ (exited \cup {current}))'
        BY <1>1, <2>2, <3>1, Zenon DEF IInv, EachLiveTaskOnce
      <3>3. \A k \in DOMAIN run_queue' : vruntime'[run_queue'[k]] = k
        BY <2>2, <2>4, Zenon DEF IInv, EachLiveTaskOnce
      <3> QED BY <3>2, <3>3, Zenon DEF EachLiveTaskOnce
    <2>8. QueueAboveCurrent'
      <3>1. \A k \in DOMAIN run_queue' : min_vruntime' < k
        BY <2>2, <2>4 DEF IsLeastKey, IInv, TypeOK
      <3>2. min_vruntime' <= vruntime'[current']
        BY <2>2 DEF IInv, EachLiveTaskOnce, TypeOK
      <3> QED BY <3>1, <3>2, Zenon DEF QueueAboveCurrent
    <2>9. \A t \in Tasks \ exited' : state'[t] # "Dead"
      BY <1>1, <1>2, <2>2, <2>3, Zenon DEF IInv
    <2> QED BY <1>1, <2>1, <2>2, <2>3, <2>6, <2>7, <2>8, <2>9, Zenon
            DEF IInv, CurrentTaskAgrees
  <1> QED BY <1>3, <1>4, Zenon

(* Every step keeps the invariant.                                          *)
LEMMA NextIInv == IInv /\ [Next]_vars => IInv'
  <1> SUFFICES ASSUME IInv, [Next]_vars PROVE IInv'
    BY Zenon
  <1>1. CASE \E t \in Tasks : AddTask(t)
    BY <1>1, AddTaskIInv, Zenon
  <1>2. CASE StartScheduler
    BY <1>2, Zenon DEF StartScheduler, IInv, TypeOK, EachLiveTaskOnce, Queued,
       CurrentTaskAgrees, QueueAboveCurrent
  <1>3. CASE Yield
    BY <1>3, YieldIInv, Zenon
  <1>4. CASE Tick
    BY <1>4, TickIInv
  <1>5. CASE ExitCurrent
    BY <1>5, ExitIInv, Zenon
  <1>6. CASE UNCHANGED vars
    BY <1>6, Zenon DEF vars, IInv, TypeOK, EachLiveTaskOnce, Queued,
       CurrentTaskAgrees, QueueAboveCurrent
  <1> QED BY <1>1, <1>2, <1>3, <1>4, <1>5, <1>6, Zenon DEF Next

-----------------------------------------------------------------------------
(* The strengthened invariant holds in every reachable state.               *)
LEMMA SpecIInv == Spec => []IInv
  BY InitIInv, NextIInv, PTL DEF Spec

(* Type correctness of the scheduler's state, from all its operations.      *)
THEOREM SchedulerTypeCorrect == Spec => []TypeOK
  BY SpecIInv, PTL DEF IInv

(* No sequence of add, yield, tick and exit loses or duplicates a task.     *)
THEOREM NoTaskLost == Spec => []EachLiveTaskOnce
  BY SpecIInv, PTL DEF IInv

(* A task that has exited never gets the CPU back.                          *)
THEOREM DeadTasksStayOff == Spec => []ExitedNeverRuns
  <1>1. IInv => ExitedNeverRuns
    BY Zenon DEF IInv, CurrentTaskAgrees, ExitedNeverRuns
  <1> QED BY <1>1, SpecIInv, PTL

(* Neither yield_now nor tick_now ever takes the CPU from a live task: the  *)
(* scheduler is run-to-exit, whatever the tasks, the quantum and the times. *)
THEOREM RunToExit == Spec => SwitchOnlyOnExit
  <1> DEFINE Handover == phase = "run" /\ current_task' # current_task
                           => current_task \in exited'
  <1>1. IInv /\ [Next]_vars => [Handover]_vars
    <2> SUFFICES ASSUME IInv, Next PROVE Handover
      BY Zenon DEF vars
    <2>1. CASE \E t \in Tasks : AddTask(t)
      BY <2>1, Zenon DEF AddTask
    <2>2. CASE StartScheduler
      BY <2>2, Zenon DEF StartScheduler
    <2>3. CASE Yield
      BY <2>3, YieldIInv, Zenon
    <2>4. CASE Tick
      BY <2>4, TickIInv
    <2>5. CASE ExitCurrent
      BY <2>5, Zenon DEF ExitCurrent, IInv, CurrentTaskAgrees
    <2> QED BY <2>1, <2>2, <2>3, <2>4, <2>5, Zenon DEF Next
  <1> QED BY <1>1, SpecIInv, PTL DEF Spec, SwitchOnlyOnExit

-----------------------------------------------------------------------------
(***************************************************************************)
(* Proofs about Processes.  Every system call is a step of the scheduler   *)
(* or leaves it alone, so the scheduler's invariant carries over, and with *)
(* it the process table's own invariant is inductive.                      *)
(***************************************************************************)
(* A system call drives the scheduler through one of its entry points.      *)
LEMMA StepIsSchedulerStep == [PNext]_allVars => [Next]_vars
<1> SUFFICES ASSUME [PNext]_allVars PROVE [Next]_vars
  BY Zenon
<1>1. CASE UNCHANGED allVars
  BY <1>1, Zenon DEF allVars
<1>2. ASSUME NEW t \in Tasks, BootInit(t) \/ SysExec(t) PROVE Next
  BY <1>2, Zenon DEF BootInit, SysExec, Next
<1>3. CASE Start
  BY <1>3, Zenon DEF Start, Next
<1>4. CASE SysExecFails
  BY <1>4, Zenon DEF SysExecFails
<1>5. ASSUME NEW code \in Codes, SysExit(code) PROVE Next
  BY <1>5, Zenon DEF SysExit, Next
<1>6. ASSUME NEW pid \in Pids, SysWaitpid(pid) PROVE UNCHANGED vars
  BY <1>6, Zenon DEF SysWaitpid
<1>7. CASE SysYield
  BY <1>7, Zenon DEF SysYield, Next
<1>8. CASE Timer
  BY <1>8, Zenon DEF Timer, Next
<1> QED
  BY <1>1, <1>2, <1>3, <1>4, <1>5, <1>6, <1>7, <1>8, Zenon DEF PNext

(* The system calls of syscall.rs use the scheduler only through its entry  *)
(* points: the composed system implements the scheduler's specification.    *)
THEOREM ProcessesImplementScheduler == PSpec => ImplementsScheduler
<1>1. PInit => Init
  BY Zenon DEF PInit
<1> QED
  BY <1>1, StepIsSchedulerStep, PTL DEF PSpec, Spec, ImplementsScheduler

(* The scheduler's inductive invariant holds under the system calls.        *)
LEMMA SchedulerInvariant == PSpec => []IInv
BY ProcessesImplementScheduler, SpecIInv, PTL DEF ImplementsScheduler

-----------------------------------------------------------------------------
(* The process table: pids are drawn from next_pid, only init's entry can   *)
(* be a zombie or gone, and it is gone only when waitpid has removed it.    *)
PInv ==
  /\ next_pid \in Nat /\ next_pid >= 2
  /\ current_process = (IF created = {} THEN 0 ELSE 1)
  /\ \A pid \in DOMAIN table :
       /\ pid \in Nat /\ pid < next_pid
       /\ table[pid].task \in created
       /\ table[pid].zombie => pid = 1
  /\ \A p, q \in DOMAIN table : p # q => table[p].task # table[q].task
  /\ created # {} => (1 \in DOMAIN table <=> 1 \notin reaped)
  /\ created = {} => reaped = {}
  /\ reaped \subseteq {1}
  /\ 1 \in DOMAIN table => \A t \in created : PidsOf(t) # {}
  /\ \A s, t \in created : s # t => PidsOf(s) # {} \/ PidsOf(t) # {}
  /\ ZombieCodesAreReal

(* Booting init establishes the invariant of a nonempty system.             *)
LEMMA BootPInv ==
  ASSUME IInv, PInv, NEW t \in Tasks, BootInit(t)
  PROVE  PInv'
<1>1. created = {} /\ DOMAIN table = {} /\ reaped = {}
  BY Zenon DEF IInv, PInv, BootInit
<1>2. /\ created' = {t} /\ reaped' = {} /\ current_process' = 1
      /\ next_pid' = next_pid
      /\ table' = [q \in {1} |-> NewProcess(t)]
  BY <1>1, Zenon DEF BootInit, AddTask, Insert
<1>3. PidsOf(t)' = {1}
  BY <1>2, Zenon DEF PidsOf, NewProcess
<1> QED
  BY <1>2, <1>3 DEF PInv, ZombieCodesAreReal, NewProcess

(* exec adds an entry under a pid no entry has.                             *)
LEMMA ExecPInv ==
  ASSUME IInv, PInv, NEW t \in Tasks, SysExec(t)
  PROVE  PInv'
<1>1. created # {} /\ t \notin created
  BY Zenon DEF IInv, SysExec, AddTask
<1>2. /\ created' = created \cup {t} /\ reaped' = reaped
      /\ current_process' = current_process /\ exit_code' = exit_code
      /\ exited' = exited /\ next_pid' = next_pid + 1
      /\ table' = [q \in DOMAIN table \cup {next_pid} |->
                     IF q = next_pid THEN NewProcess(t) ELSE table[q]]
  BY Zenon DEF SysExec, AddTask, Insert
<1>3. next_pid \notin DOMAIN table /\ next_pid # 1
  BY DEF PInv
<1>4. \A pid \in DOMAIN table : pid \in DOMAIN table' /\ table'[pid] = table[pid]
  BY <1>2, <1>3, Zenon
<1>5. DOMAIN table' = DOMAIN table \cup {next_pid} /\ table'[next_pid] = NewProcess(t)
  BY <1>2, Zenon
<1>6. next_pid \in PidsOf(t)' /\ \A s \in created : PidsOf(s) \subseteq PidsOf(s)'
  BY <1>4, <1>5 DEF PidsOf, NewProcess
<1>7. ZombieCodesAreReal'
  <2> SUFFICES ASSUME NEW pid \in DOMAIN table', table'[pid].zombie
               PROVE  \E s \in exited : exit_code[s] = table'[pid].code
    BY <1>2, Zenon DEF ZombieCodesAreReal
  <2> QED
    BY <1>4, <1>5 DEF PInv, ZombieCodesAreReal, NewProcess
<1>8. \A pid \in DOMAIN table' :
        /\ pid \in Nat /\ pid < next_pid'
        /\ table'[pid].task \in created'
        /\ table'[pid].zombie => pid = 1
  BY <1>2, <1>4, <1>5 DEF PInv, NewProcess
<1>9. \A p, q \in DOMAIN table' : p # q => table'[p].task # table'[q].task
  BY <1>1, <1>4, <1>5 DEF PInv, NewProcess
<1>10. \A s, u \in created' : s # u => PidsOf(s)' # {} \/ PidsOf(u)' # {}
  <2>1. \A s \in created : PidsOf(s) # {} => PidsOf(s)' # {}
    BY <1>6, Zenon
  <2>2. PidsOf(t)' # {}
    BY <1>6, Zenon
  <2>3. \A s, u \in created : s # u => PidsOf(s) # {} \/ PidsOf(u) # {}
    BY Zenon DEF PInv
  <2> HIDE DEF PidsOf
  <2> QED
    BY <1>2, <2>1, <2>2, <2>3, Zenon
<1>11. 1 \in DOMAIN table' => \A s \in created' : PidsOf(s)' # {}
  BY <1>2, <1>3, <1>5, <1>6, Zenon DEF PInv
<1>12. /\ next_pid' \in Nat /\ next_pid' >= 2
       /\ current_process' = (IF created' = {} THEN 0 ELSE 1)
       /\ created' # {} => (1 \in DOMAIN table' <=> 1 \notin reaped')
       /\ created' = {} => reaped' = {}
       /\ reaped' \subseteq {1}
  BY <1>1, <1>2, <1>3, <1>5 DEF PInv
<1> QED
  BY <1>7, <1>8, <1>9, <1>10, <1>11, <1>12, Zenon DEF PInv

(* exit marks init's entry, with the code of the task that exits.           *)
LEMMA ExitPInv ==
  ASSUME IInv, PInv, NEW code \in Codes, SysExit(code)
  PROVE  PInv'
<1>1. /\ created' = created /\ created # {} /\ reaped' = reaped
      /\ current_process' = current_process /\ current_process = 1
      /\ next_pid' = next_pid /\ exited' = exited \cup {current}
      /\ exit_code'[current] = code
  BY Zenon DEF IInv, PInv, SysExit, ExitCurrent
<1>2. /\ DOMAIN table' = DOMAIN table
      /\ \A pid \in DOMAIN table :
           /\ table'[pid].task = table[pid].task
           /\ pid # 1 => table'[pid] = table[pid]
           /\ pid = 1 => table'[pid].code = code
  BY <1>1 DEF SysExit
<1>3. \A s : PidsOf(s)' = PidsOf(s)
  BY <1>2, Zenon DEF PidsOf
<1>4. ZombieCodesAreReal'
  BY <1>1, <1>2, Zenon DEF PInv, ZombieCodesAreReal
<1> QED
  BY <1>1, <1>2, <1>3, <1>4 DEF PInv

(* waitpid can remove nothing but init's entry, and only as a zombie.       *)
LEMMA WaitPInv ==
  ASSUME IInv, PInv, NEW p \in Pids, SysWaitpid(p)
  PROVE  PInv'
<1>1. UNCHANGED <<created, exited, current_process, next_pid, exit_code>>
  BY Zenon DEF SysWaitpid, vars
<1>2. CASE UNCHANGED <<table, reaped>>
  BY <1>1, <1>2 DEF PInv, ZombieCodesAreReal, PidsOf
<1>3. CASE p \in DOMAIN table /\ table[p].zombie
  <2>1. p = 1 /\ created # {} /\ 1 \notin reaped
    BY <1>3, Zenon DEF PInv
  <2>2. /\ table' = [q \in DOMAIN table \ {1} |-> table[q]]
        /\ reaped' = {1}
    BY <1>3, <2>1, Zenon DEF SysWaitpid, Remove, PInv
  <2>3. \A s : PidsOf(s)' = PidsOf(s) \ {1}
    BY <2>2, Zenon DEF PidsOf
  <2>4. \A s, t \in created : s # t => PidsOf(s)' # {} \/ PidsOf(t)' # {}
    <3> SUFFICES ASSUME NEW s \in created, NEW t \in created, s # t
                 PROVE  PidsOf(s)' # {} \/ PidsOf(t)' # {}
      BY Zenon
    <3>1. PidsOf(s) # {} /\ PidsOf(t) # {}
      BY <1>3, <2>1, Zenon DEF PInv
    <3>2. ~(1 \in PidsOf(s) /\ 1 \in PidsOf(t))
      BY Zenon DEF PidsOf
    <3> QED
      BY <2>3, <3>1, <3>2, Zenon
  <2>5. \A pid \in DOMAIN table' : pid \in DOMAIN table /\ pid # 1 /\ table'[pid] = table[pid]
    BY <2>2, Zenon
  <2>6. ~(\E pid \in DOMAIN table' : table'[pid].zombie)
    BY <2>5, Zenon DEF PInv
  <2> QED
    BY <1>1, <2>1, <2>2, <2>4, <2>5, <2>6 DEF PInv, ZombieCodesAreReal
<1> QED
  BY <1>2, <1>3, Zenon DEF SysWaitpid

(* Every step of the composed system keeps the table's invariant.           *)
LEMMA NextPInv == IInv /\ PInv /\ [PNext]_allVars => PInv'
<1> SUFFICES ASSUME IInv, PInv, [PNext]_allVars PROVE PInv'
  BY Zenon
<1>1. ASSUME UNCHANGED <<procVars, created, exited>> PROVE PInv'
  BY <1>1 DEF PInv, ZombieCodesAreReal, PidsOf, procVars
<1>2. CASE UNCHANGED allVars
  BY <1>1, <1>2, Zenon DEF allVars, vars
<1>3. ASSUME NEW t \in Tasks, BootInit(t) \/ SysExec(t) PROVE PInv'
  BY <1>3, BootPInv, ExecPInv, Zenon
<1>4. CASE Start
  BY <1>1, <1>4, Zenon DEF Start, StartScheduler
<1>5. CASE SysExecFails
  BY <1>5 DEF SysExecFails, vars, PInv, ZombieCodesAreReal, PidsOf
<1>6. ASSUME NEW code \in Codes, SysExit(code) PROVE PInv'
  BY <1>6, ExitPInv, Zenon
<1>7. ASSUME NEW pid \in Pids, SysWaitpid(pid) PROVE PInv'
  BY <1>7, WaitPInv, Zenon
<1>8. CASE SysYield
  BY <1>1, <1>8, Zenon DEF SysYield, Yield
<1>9. CASE Timer
  BY <1>1, <1>9, Zenon DEF Timer, Tick
<1> QED
  BY <1>2, <1>3, <1>4, <1>5, <1>6, <1>7, <1>8, <1>9, Zenon DEF PNext

(* The table's invariant holds in every reachable state.                    *)
LEMMA SpecPInv == PSpec => [](IInv /\ PInv)
<1>1. PInit => PInv
  BY DEF PInit, Init, PInv, ZombieCodesAreReal, PidsOf
<1> QED
  BY <1>1, NextPInv, SchedulerInvariant, PTL DEF PSpec

(* Every task the kernel schedules has exactly one process under a pid of   *)
(* its own, for any number of tasks, pids and exit codes.                   *)
THEOREM TableMatchesScheduler == PSpec => []OneProcessPerTask
<1>1. PInv => OneProcessPerTask
  BY Zenon DEF PInv, OneProcessPerTask
<1> QED
  BY <1>1, SpecPInv, PTL

(* waitpid returns only codes that some task passed to exit.                *)
THEOREM CodesAreReal == PSpec => []ZombieCodesAreReal
<1>1. PInv => ZombieCodesAreReal
  BY Zenon DEF PInv
<1> QED
  BY <1>1, SpecPInv, PTL

(* A reaped pid never comes back, and only zombies leave the table.         *)
THEOREM NoPidReuse == PSpec => ReapedOnce
<1> DEFINE Once == /\ reaped \cap DOMAIN table' = {}
                   /\ \A pid \in DOMAIN table \ DOMAIN table' : table[pid].zombie
<1>1. IInv /\ PInv /\ [PNext]_allVars => [Once]_allVars
  <2> SUFFICES ASSUME IInv, PInv, PNext PROVE Once
    BY Zenon
  <2>0. reaped \cap DOMAIN table = {}
    BY Zenon DEF PInv
  <2>1. ASSUME NEW t \in Tasks, BootInit(t) PROVE Once
    <3>1. created = {} /\ DOMAIN table = {} /\ reaped = {}
      BY <2>1, Zenon DEF IInv, PInv, BootInit
    <3> QED
      BY <3>1, Zenon
  <2>2. ASSUME NEW t \in Tasks, SysExec(t) PROVE Once
    <3>1. DOMAIN table' = DOMAIN table \cup {next_pid}
      BY <2>2, Zenon DEF SysExec, Insert
    <3>2. next_pid \notin reaped
      BY DEF PInv
    <3> QED
      BY <2>0, <3>1, <3>2, Zenon
  <2>3. ASSUME NEW code \in Codes, SysExit(code) PROVE Once
    <3>1. DOMAIN table' = DOMAIN table
      BY <2>3, Zenon DEF SysExit
    <3> QED
      BY <2>0, <3>1, Zenon
  <2>4. ASSUME NEW pid \in Pids, SysWaitpid(pid) PROVE Once
    BY <2>0, <2>4, Zenon DEF SysWaitpid, Remove
  <2>5. ASSUME UNCHANGED table PROVE Once
    BY <2>0, <2>5, Zenon
  <2> HIDE DEF Once
  <2> QED
    BY <2>1, <2>2, <2>3, <2>4, <2>5, Zenon
       DEF PNext, Start, SysExecFails, SysYield, Timer, procVars
<1> QED
  BY <1>1, SpecPInv, PTL DEF PSpec, ReapedOnce

-----------------------------------------------------------------------------
(***************************************************************************)
(* Proofs about KernelEntry.  Every entry into the kernel is a step of the *)
(* processes or leaves them alone, so their invariants carry over.  With   *)
(* the scheduler's run-to-exit they give the entry path's own invariant:   *)
(* a live task that is not on the CPU has never run, and still waits in    *)
(* the trampoline on a stack of its own.                                   *)
(***************************************************************************)
(* An entry into the kernel changes the processes by one system call, one   *)
(* tick or not at all.                                                      *)
LEMMA EntryIsProcessStep == [KNext]_kernelVars => [PNext]_allVars
<1> SUFFICES ASSUME [KNext]_kernelVars PROVE [PNext]_allVars
  BY Zenon
<1>1. CASE UNCHANGED kernelVars
  BY <1>1, Zenon DEF kernelVars
<1>2. ASSUME NEW t \in Tasks, KBoot(t) \/ KExec(t) PROVE PNext
  BY <1>2, Zenon DEF KBoot, KExec, PNext
<1>3. CASE KStart
  BY <1>3, Zenon DEF KStart, PNext
<1>4. CASE KExecFails
  BY <1>4, Zenon DEF KExecFails, PNext
<1>5. ASSUME NEW pid \in Pids, KWaitpid(pid) PROVE PNext
  BY <1>5, Zenon DEF KWaitpid, PNext
<1>6. CASE KOther \/ KException
  BY <1>6, Zenon DEF KOther, KException
<1>7. CASE KYield
  BY <1>7, Zenon DEF KYield, PNext
<1>8. ASSUME NEW code \in Codes, KExit(code) PROVE PNext
  BY <1>8, Zenon DEF KExit, PNext
<1>9. CASE KTimer
  BY <1>9, Zenon DEF KTimer, PNext
<1> QED
  BY <1>1, <1>2, <1>3, <1>4, <1>5, <1>6, <1>7, <1>8, <1>9, Zenon DEF KNext

(* The kernel with its entry path implements the processes: stacks, frames  *)
(* and interrupts add nothing to what the system calls do.                  *)
THEOREM KernelImplementsProcesses == KSpec => PSpec
<1>1. KInit => PInit
  BY Zenon DEF KInit
<1> QED
  BY <1>1, EntryIsProcessStep, PTL DEF KSpec, PSpec

(* The invariants of the scheduler and of the process table hold here.      *)
LEMMA KernelProcessInvariant == KSpec => [](IInv /\ PInv)
BY KernelImplementsProcesses, SpecPInv, PTL

-----------------------------------------------------------------------------
(* The entry path: there is a kernel stack once there is a task, no timer   *)
(* interrupt waits for its EOI, and a live task is in the trampoline until  *)
(* it is on the CPU.  A task that has not been created has no program, and  *)
(* one that has can only have entered its own.                              *)
KInv ==
  /\ KTypeOK
  /\ created # {} => sc_kernel_rsp # 0
  /\ ~in_service
  /\ \A t \in created \ exited :
       context[t] = IF t = current /\ phase # "boot" THEN Nowhere ELSE Trampoline
  /\ \A t \in Tasks \ created : program[t] = 0
  /\ \A t \in created :
       /\ program[t] \in {0, user_entry[t]}
       /\ PidsOf(t) \subseteq {user_entry[t]}

(* Before the first task there is nothing to be in the kernel for.          *)
LEMMA InitKInv == KInit => KInv
<1> SUFFICES ASSUME KInit PROVE KInv
  BY Zenon
<1>1. created = {} /\ in_service = FALSE /\ \A t \in Tasks : program[t] = 0
  BY Zenon DEF KInit, PInit, Init
<1>2. sc_kernel_rsp \in 0..MaxPid /\ 0 \in 0..MaxPid
  BY ProcessAssumption DEF KInit
<1>3. KTypeOK
  BY <1>2, Zenon DEF KInit, KTypeOK
<1> QED
  BY <1>1, <1>3, Zenon DEF KInv

(* A handler that leaves from the stack it was entered on lets nobody into  *)
(* a program from the trampoline, and owes no EOI afterwards: on the        *)
(* interrupt stack it sends it, on another there was none to send.          *)
LEMMA ReturnToCaller ==
  ASSUME KInv, NEW s \in Stacks, current \in Tasks, Return(s, current, s)
  PROVE  /\ program' = program
         /\ user' \in [Tasks -> {"none", "own", "lost"}]
         /\ in_service' = FALSE
<1>1. s # Trampoline
  BY ProcessAssumption DEF Stacks, Ist, Pids, Trampoline
<1>2. program' = program
  BY <1>1, Zenon DEF Return, KInv, KTypeOK
<1>3. UserAfter(current, s) \in {"none", "own", "lost"}
  BY <1>1, Zenon DEF UserAfter, KInv, KTypeOK
<1>4. user' \in [Tasks -> {"none", "own", "lost"}]
  BY <1>3, Zenon DEF Return, KInv, KTypeOK
<1>5. in_service' = FALSE
  BY Zenon DEF Return, KInv
<1> QED
  BY <1>2, <1>4, <1>5, Zenon

(* A task that leaves from the trampoline enters the program CURRENT_TASK   *)
(* names; on any stack but the interrupt stack no EOI is owed.              *)
LEMMA ReturnFromTrampoline ==
  ASSUME KInv, NEW s, s # Ist, NEW t \in Tasks, Return(s, t, Trampoline)
  PROVE  /\ program' = [program EXCEPT ![t] = user_entry[current_task']]
         /\ user' \in [Tasks -> {"none", "own", "lost"}]
         /\ in_service' = FALSE
<1>1. UserAfter(t, Trampoline) = "own"
  BY Zenon DEF UserAfter
<1> QED
  BY <1>1, Zenon DEF Return, KInv, KTypeOK

(* The stack of the next system call is a stack, so an entry on it keeps    *)
(* the type of the frames.                                                  *)
LEMMA EnterTyped ==
  ASSUME IInv, KInv, NEW s \in Stacks, Enter(s)
  PROVE  frame' \in [Stacks -> Tasks \cup {NoTask}]
BY Zenon DEF IInv, TypeOK, KInv, KTypeOK, Enter

(* Both stacks that entries start on are stacks, and while programs run the *)
(* current task is a live one.                                              *)
LEMMA EntryFacts ==
  ASSUME IInv, KInv
  PROVE  /\ sc_kernel_rsp \in Stacks /\ Ist \in Stacks
         /\ phase = "run" => current \in Tasks /\ current \in created \ exited
BY SchedulerAssumption, ProcessAssumption
   DEF IInv, TypeOK, KInv, KTypeOK, Stacks, Ist, Pids

(* A step that leaves the tasks, their contexts and their programs alone,   *)
(* and adds no process, keeps the invariant.                                *)
LEMMA NothingMovesKInv ==
  ASSUME KInv, KTypeOK', sc_kernel_rsp' # 0 \/ sc_kernel_rsp' = sc_kernel_rsp,
         in_service' = FALSE,
         UNCHANGED <<created, exited, current, phase, context, program, user_entry>>,
         \A t \in created : PidsOf(t)' \subseteq PidsOf(t)
  PROVE  KInv'
<1>1. \A t \in created : PidsOf(t)' \subseteq {user_entry'[t]}
  BY Zenon DEF KInv
<1> HIDE DEF PidsOf
<1> QED
  BY <1>1, Zenon DEF KInv, Nowhere, Trampoline

(* Booting makes init the one task, in the trampoline, under pid 1.         *)
LEMMA BootKInv ==
  ASSUME IInv, PInv, KInv, NEW t \in Tasks, KBoot(t)
  PROVE  KInv'
<1>1. created = {} /\ DOMAIN table = {}
  BY Zenon DEF IInv, PInv, KBoot, BootInit
<1>2. /\ created' = {t} /\ phase' = "boot"
      /\ table' = [q \in {1} |-> NewProcess(t)]
      /\ sc_kernel_rsp' = 1
      /\ context' = [context EXCEPT ![t] = Trampoline]
      /\ user_entry' = [user_entry EXCEPT ![t] = 1]
      /\ UNCHANGED <<frame, in_service, program, user, stopped>>
  BY <1>1, Zenon DEF KBoot, BootInit, AddTask, Insert, NewKernelStack, NewContext
<1>3. PidsOf(t)' = {1}
  BY <1>2, Zenon DEF PidsOf, NewProcess
<1>4. 1 \in 0..MaxPid
  BY ProcessAssumption
<1>5. KTypeOK'
  BY <1>2, <1>4, Zenon DEF KInv, KTypeOK
<1>6. context'[t] = Trampoline /\ user_entry'[t] = 1 /\ program'[t] = 0
  BY <1>1, <1>2, Zenon DEF KInv, KTypeOK
<1>7. \A s \in Tasks \ created' : program'[s] = 0
  BY <1>1, <1>2, Zenon DEF KInv
<1> HIDE DEF PidsOf
<1> QED
  BY <1>2, <1>3, <1>5, <1>6, <1>7 DEF KInv

(* Starting lets the first task out of the trampoline into its own program. *)
LEMMA StartKInv ==
  ASSUME IInv, KInv, KStart
  PROVE  KInv'
<1>1. /\ phase = "boot" /\ phase' = "run" /\ current_task' = current
      /\ UNCHANGED <<current, created, exited, table>>
      /\ UNCHANGED <<sc_kernel_rsp, frame, user_entry, stopped>>
      /\ context' = [context EXCEPT ![current] = Nowhere]
  BY Zenon DEF KStart, Start, StartScheduler, procVars
<1>2. current \in Tasks /\ current \in created
  BY Zenon DEF KStart, Start, StartScheduler, IInv, TypeOK
<1>3. Nowhere # Ist
  BY ProcessAssumption DEF Nowhere, Ist
<1>4. /\ program' = [program EXCEPT ![current] = user_entry[current]]
      /\ user' \in [Tasks -> {"none", "own", "lost"}]
      /\ in_service' = FALSE
  BY <1>1, <1>2, <1>3, ReturnFromTrampoline, Zenon DEF KStart
<1>5. KTypeOK'
  BY <1>1, <1>2, <1>4, Zenon DEF KInv, KTypeOK
<1>6. \A s \in created \ exited :
        context'[s] = IF s = current THEN Nowhere ELSE Trampoline
  BY <1>1, <1>2, Zenon DEF KInv, KTypeOK, IInv, TypeOK
<1>7. \A s \in Tasks :
        program'[s] = IF s = current THEN user_entry[s] ELSE program[s]
  BY <1>4, Zenon DEF KInv, KTypeOK
<1>8. \A s \in created : PidsOf(s)' \subseteq {user_entry[s]}
  BY <1>1, Zenon DEF KInv, PidsOf
<1>9. created \subseteq Tasks
  BY Zenon DEF IInv, TypeOK
<1> HIDE DEF PidsOf
<1> QED
  BY <1>1, <1>2, <1>4, <1>5, <1>6, <1>7, <1>8, <1>9 DEF KInv

(* exec puts the new task into the trampoline of a program of its own.      *)
LEMMA ExecKInv ==
  ASSUME IInv, PInv, KInv, NEW t \in Tasks, KExec(t)
  PROVE  KInv'
<1>1. /\ phase = "run" /\ next_pid \in 2..MaxPid /\ t \notin created
      /\ created' = created \cup {t}
      /\ UNCHANGED <<phase, exited, stopped>>
      /\ table' = [q \in DOMAIN table \cup {next_pid} |->
                     IF q = next_pid THEN NewProcess(t) ELSE table[q]]
      /\ sc_kernel_rsp' = next_pid
      /\ context' = [context EXCEPT ![t] = Trampoline]
      /\ user_entry' = [user_entry EXCEPT ![t] = next_pid]
  BY ProcessAssumption
     DEF KExec, SysExec, AddTask, Insert, PInv, NewKernelStack, NewContext
<1>2. current \in Tasks /\ current \in created /\ sc_kernel_rsp \in Stacks
  BY <1>1, EntryFacts, Zenon
<1>3. current' = current
  BY <1>2, SchedulerAssumption, Zenon DEF KExec, SysExec, AddTask
<1>4. /\ program' = program
      /\ user' \in [Tasks -> {"none", "own", "lost"}]
      /\ in_service' = FALSE
  BY <1>2, ReturnToCaller, Zenon DEF KExec
<1>5. frame' \in [Stacks -> Tasks \cup {NoTask}]
  BY <1>2, EnterTyped, Zenon DEF KExec
<1>6. next_pid \in 0..MaxPid /\ next_pid # 0
  BY <1>1, ProcessAssumption
<1>7. KTypeOK'
  BY <1>1, <1>4, <1>5, <1>6, Zenon DEF KInv, KTypeOK
<1>8. \A pid \in DOMAIN table : table[pid].task \in created /\ pid # next_pid
  BY DEF PInv
<1>9. PidsOf(t)' \subseteq {next_pid}
  BY <1>1, <1>8, Zenon DEF PidsOf, NewProcess
<1>10. \A s \in created : PidsOf(s)' \subseteq PidsOf(s)
  BY <1>1, <1>8, Zenon DEF PidsOf, NewProcess
<1>11. created \subseteq Tasks
  BY Zenon DEF IInv, TypeOK
<1>12. \A s \in created' \ exited' :
         context'[s] = IF s = current' /\ phase' # "boot" THEN Nowhere ELSE Trampoline
  BY <1>1, <1>2, <1>3, <1>11 DEF KInv, KTypeOK
<1>13. \A s \in created' : program'[s] \in {0, user_entry'[s]}
  BY <1>1, <1>4, <1>11, Zenon DEF KInv, KTypeOK
<1>14. \A s \in created' : PidsOf(s)' \subseteq {user_entry'[s]}
  <2> HIDE DEF PidsOf
  <2>1. \A s \in created : user_entry'[s] = user_entry[s]
    BY <1>1, <1>11, Zenon DEF KInv, KTypeOK
  <2>2. user_entry'[t] = next_pid
    BY <1>1, Zenon DEF KInv, KTypeOK
  <2> QED
    BY <1>1, <1>9, <1>10, <2>1, <2>2, Zenon DEF KInv
<1>15. \A s \in Tasks \ created' : program'[s] = 0
  BY <1>1, <1>4, Zenon DEF KInv
<1> HIDE DEF PidsOf
<1> QED
  BY <1>1, <1>4, <1>6, <1>7, <1>12, <1>13, <1>14, <1>15, Zenon DEF KInv

(* A failed exec, a waitpid and the calls that touch no process return to   *)
(* their caller, who is still the current task.                             *)
LEMMA CallsKInv ==
  ASSUME IInv, PInv, KInv,
         KExecFails \/ (\E pid \in Pids : KWaitpid(pid)) \/ KOther
  PROVE  KInv'
<1>1. /\ phase = "run"
      /\ UNCHANGED <<created, exited, current, phase, context, user_entry, stopped>>
      /\ Enter(sc_kernel_rsp)
      /\ Return(sc_kernel_rsp, current, sc_kernel_rsp)
  BY Zenon DEF KExecFails, SysExecFails, KWaitpid, SysWaitpid, KOther, allVars, vars
<1>2. current \in Tasks /\ sc_kernel_rsp \in Stacks
  BY <1>1, EntryFacts, Zenon
<1>3. /\ program' = program
      /\ user' \in [Tasks -> {"none", "own", "lost"}]
      /\ in_service' = FALSE
  BY <1>1, <1>2, ReturnToCaller, Zenon
<1>4. frame' \in [Stacks -> Tasks \cup {NoTask}]
  BY <1>1, <1>2, EnterTyped, Zenon
<1>5. /\ sc_kernel_rsp' \in 0..MaxPid
      /\ sc_kernel_rsp' # 0 \/ sc_kernel_rsp' = sc_kernel_rsp
  BY ProcessAssumption DEF KExecFails, SysExecFails, NewKernelStack, KWaitpid, KOther,
     PInv, KInv, KTypeOK
<1>6. KTypeOK'
  BY <1>1, <1>3, <1>4, <1>5, Zenon DEF KInv, KTypeOK
<1>7. \A t \in created : PidsOf(t)' \subseteq PidsOf(t)
  BY Zenon DEF KExecFails, SysExecFails, KWaitpid, SysWaitpid, KOther, allVars, procVars,
     PidsOf, Remove
<1> QED
  BY <1>1, <1>3, <1>5, <1>6, <1>7, NothingMovesKInv, Zenon

(* yield and the tick never change the current task, so they too return to  *)
(* their caller: from the tick, with the EOI.                               *)
LEMMA YieldTickKInv ==
  ASSUME IInv, KInv, KYield \/ KTimer
  PROVE  KInv'
<1>1. PICK s \in {sc_kernel_rsp, Ist} : Enter(s) /\ Leave(s)
  BY Zenon DEF KYield, KTimer
<1>2. /\ phase = "run" /\ current' = current
      /\ UNCHANGED <<created, exited, phase, table, sc_kernel_rsp, user_entry, stopped>>
  BY YieldIInv, TickIInv, Zenon
     DEF KYield, SysYield, Yield, KTimer, Timer, Tick, procVars
<1>3. current \in Tasks /\ s \in Stacks
  BY <1>2, EntryFacts, Zenon
<1>4. Return(s, current, s) /\ UNCHANGED context
  BY <1>1, <1>2, Zenon DEF Leave
<1>5. /\ program' = program
      /\ user' \in [Tasks -> {"none", "own", "lost"}]
      /\ in_service' = FALSE
  BY <1>3, <1>4, ReturnToCaller, Zenon
<1>6. frame' \in [Stacks -> Tasks \cup {NoTask}]
  BY <1>1, <1>3, EnterTyped, Zenon
<1>7. KTypeOK'
  BY <1>2, <1>4, <1>5, <1>6, Zenon DEF KInv, KTypeOK
<1>8. \A t \in created : PidsOf(t)' \subseteq PidsOf(t)
  BY <1>2, Zenon DEF PidsOf
<1> QED
  BY <1>2, <1>4, <1>5, <1>7, <1>8, NothingMovesKInv, Zenon

(* exit leaves its own task behind on the stack of the system call; the one *)
(* that gets the CPU has never run and comes out of the trampoline.         *)
LEMMA ExitKInv ==
  ASSUME IInv, KInv, NEW code \in Codes, KExit(code)
  PROVE  KInv'
<1>1. IInv'
  BY ExitIInv, Zenon DEF KExit, SysExit
<1>2. /\ phase = "run" /\ exited' = exited \cup {current}
      /\ UNCHANGED <<created, sc_kernel_rsp, user_entry, stopped>>
      /\ Enter(sc_kernel_rsp)
  BY Zenon DEF KExit, SysExit, ExitCurrent
<1>3. current \in Tasks /\ current \in created /\ sc_kernel_rsp \in Stacks
  BY <1>2, EntryFacts, Zenon
<1>4. frame' \in [Stacks -> Tasks \cup {NoTask}]
  BY <1>2, <1>3, EnterTyped, Zenon
<1>5. \A t \in created : PidsOf(t)' \subseteq {user_entry'[t]}
  <2>1. DOMAIN table' = DOMAIN table
        /\ \A pid \in DOMAIN table : table'[pid].task = table[pid].task
    BY DEF KExit, SysExit
  <2>2. \A t \in created : PidsOf(t)' \subseteq PidsOf(t)
    BY <2>1, Zenon DEF PidsOf
  <2> HIDE DEF PidsOf
  <2> QED
    BY <1>2, <2>2, Zenon DEF KInv
<1> HIDE DEF PidsOf
<1>6. CASE phase' = "halt"
  <2>1. UNCHANGED <<context, program, user, in_service>>
    BY <1>6, Zenon DEF KExit
  <2>2. KTypeOK'
    BY <1>2, <1>4, <2>1, Zenon DEF KInv, KTypeOK
  <2>3. current' = current
    BY <1>6, Zenon DEF KExit, SysExit, ExitCurrent, Schedule
  <2> QED
    BY <1>2, <1>5, <1>6, <2>1, <2>2, <2>3, Zenon DEF KInv
<1>7. CASE phase' # "halt"
  <2>1. /\ phase' = "run" /\ current' \in Tasks /\ current' \in created \ exited'
        /\ current_task' = current'
    BY <1>1, <1>2, <1>3, <1>7, SchedulerAssumption, Zenon
       DEF IInv, TypeOK, CurrentTaskAgrees, KExit, SysExit, ExitCurrent
  <2>2. current' # current /\ context[current'] = Trampoline
    BY <1>2, <2>1, Zenon DEF KInv
  <2>3. /\ context' = [context EXCEPT ![current] = sc_kernel_rsp, ![current'] = Nowhere]
        /\ Return(sc_kernel_rsp, current', Trampoline)
    BY <1>7, <2>2, Zenon DEF KExit, Leave
  <2>4. sc_kernel_rsp # Ist
    BY <1>3, Zenon DEF KInv, Ist
  <2>5. /\ program' = [program EXCEPT ![current'] = user_entry[current']]
        /\ user' \in [Tasks -> {"none", "own", "lost"}]
        /\ in_service' = FALSE
    BY <2>1, <2>3, <2>4, ReturnFromTrampoline, Zenon
  <2>6. KTypeOK'
    BY <1>2, <1>3, <1>4, <2>1, <2>3, <2>5, Zenon DEF KInv, KTypeOK
  <2>7. created \subseteq Tasks
    BY Zenon DEF IInv, TypeOK
  <2>8. \A t \in created \ exited' :
          context'[t] = IF t = current' THEN Nowhere ELSE Trampoline
    BY <1>2, <1>3, <2>1, <2>3, <2>7, Zenon DEF KInv, KTypeOK
  <2>9. \A t \in Tasks :
          program'[t] = IF t = current' THEN user_entry[t] ELSE program[t]
    BY <2>1, <2>5, Zenon DEF KInv, KTypeOK
  <2> QED
    BY <1>2, <1>5, <2>1, <2>5, <2>6, <2>7, <2>8, <2>9, Zenon DEF KInv
<1> QED
  BY <1>6, <1>7, Zenon

(* An exception stops the CPU and changes nothing else.                     *)
LEMMA ExceptionKInv ==
  ASSUME KInv, KException \/ UNCHANGED kernelVars
  PROVE  KInv'
<1>1. /\ UNCHANGED <<created, exited, current, phase, context, program, user_entry,
                     table, sc_kernel_rsp, frame, in_service, user>>
      /\ stopped' \in BOOLEAN
  BY Zenon DEF KException, kernelVars, allVars, vars, procVars, entryVars, KInv, KTypeOK
<1>2. KTypeOK'
  BY <1>1, Zenon DEF KInv, KTypeOK
<1>3. \A t \in created : PidsOf(t)' \subseteq PidsOf(t)
  BY <1>1, Zenon DEF PidsOf
<1> QED
  BY <1>1, <1>2, <1>3, NothingMovesKInv, Zenon DEF KInv

(* Every entry into the kernel preserves the invariant.                     *)
LEMMA NextKInv == IInv /\ PInv /\ KInv /\ [KNext]_kernelVars => KInv'
<1> SUFFICES ASSUME IInv, PInv, KInv, [KNext]_kernelVars PROVE KInv'
  BY Zenon
<1>1. ASSUME NEW t \in Tasks, KBoot(t) PROVE KInv'
  BY <1>1, BootKInv, Zenon
<1>2. ASSUME NEW t \in Tasks, KExec(t) PROVE KInv'
  BY <1>2, ExecKInv
<1>3. CASE KStart
  BY <1>3, StartKInv, Zenon
<1>4. CASE KExecFails \/ (\E pid \in Pids : KWaitpid(pid)) \/ KOther
  BY <1>4, CallsKInv, Zenon
<1>5. CASE KYield \/ KTimer
  BY <1>5, YieldTickKInv, Zenon
<1>6. ASSUME NEW code \in Codes, KExit(code) PROVE KInv'
  BY <1>6, ExitKInv, Zenon
<1>7. CASE KException \/ UNCHANGED kernelVars
  BY <1>7, ExceptionKInv, Zenon
<1> QED
  BY <1>1, <1>2, <1>3, <1>4, <1>5, <1>6, <1>7, Zenon DEF KNext

(* The invariant holds in every state of the kernel.                        *)
LEMMA SpecKInv == KSpec => []KInv
BY InitKInv, NextKInv, KernelProcessInvariant, PTL DEF KSpec

-----------------------------------------------------------------------------
(* One stack for all system calls and one for the timer are enough: no live *)
(* task is ever suspended on a stack whose frame another entry overwrote.   *)
THEOREM NoFrameOverwritten == KSpec => []SavedContextsIntact
<1>1. KInv => SavedContextsIntact
  BY ProcessAssumption
     DEF KInv, SavedContextsIntact, Stacks, Ist, Pids, Trampoline, Nowhere
<1> QED
  BY <1>1, SpecKInv, PTL

(* The tick handler always gets to lapic_eoi, so the timer never falls      *)
(* silent while a program runs.                                             *)
THEOREM TicksGoOn == KSpec => []TimerAcknowledged
<1>1. KInv => TimerAcknowledged
  BY Zenon DEF KInv, TimerAcknowledged
<1> QED
  BY <1>1, SpecKInv, PTL

(* CURRENT_TASK names the right task whenever the trampoline asks it: every *)
(* task enters the program of its own process.                              *)
THEOREM TasksEnterTheirProgram == KSpec => []RunsOwnProgram
<1>1. KInv => RunsOwnProgram
  BY Zenon DEF KInv, RunsOwnProgram
<1> QED
  BY <1>1, SpecKInv, PTL
=============================================================================
