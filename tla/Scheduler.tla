----------------------------- MODULE Scheduler -----------------------------
(***************************************************************************)
(* The Hammam task scheduler (hammam/src/sched/mod.rs): a run queue keyed  *)
(* by virtual runtime, the current task, and the entry points add_task,    *)
(* start_scheduler, yield_now, tick_now and exit_current.  Every entry     *)
(* point runs under the SCHEDULER lock with interrupts off, so each one is *)
(* a single action that ends with the context switch it decides on.        *)
(***************************************************************************)
EXTENDS Integers

CONSTANTS Tasks,         \* the tasks that may ever be created
          NoTask,        \* Option::None
          QuantumTicks,  \* QUANTUM_TICKS
          MaxVruntime    \* bound on virtual runtimes, below u64 saturation

ASSUME SchedulerAssumption ==
  /\ NoTask \notin Tasks
  /\ QuantumTicks \in Nat \ {0}
  /\ MaxVruntime \in Nat

VARIABLES run_queue,      \* BTreeMap<u64, Arc<Task>>: vruntime key -> task
          current,        \* Scheduler.current
          min_vruntime,   \* Scheduler.min_vruntime
          current_ticks,  \* Scheduler.current_ticks
          state,          \* Task.state of each task
          vruntime,       \* Task.vruntime of each task
          current_task,   \* CURRENT_TASK: the task whose context is on the CPU
          phase,          \* "boot", then "run", and "halt" when no task is left
          created,        \* history: tasks handed to add_task
          exited          \* history: tasks that called exit_current

vars == <<run_queue, current, min_vruntime, current_ticks, state, vruntime,
          current_task, phase, created, exited>>

TaskState == {"Running", "Ready", "Dead"}

Queued == {run_queue[k] : k \in DOMAIN run_queue}

-----------------------------------------------------------------------------
(* BTreeMap operations on the run queue.                                    *)

MapInsert(q, key, t) ==
  [k \in DOMAIN q \cup {key} |-> IF k = key THEN t ELSE q[k]]

MapRemove(q, key) == [k \in DOMAIN q \ {key} |-> q[k]]

IsLeastKey(q, key) == key \in DOMAIN q /\ \A k \in DOMAIN q : key <= k

MaxOf(a, b) == IF a >= b THEN a ELSE b

-----------------------------------------------------------------------------
(* weight(priority) and the vruntime charged per tick.  Both creators of    *)
(* tasks (create_kernel_thread, Process::from_elf) pass priority 1.         *)
Weight(priority) ==
  1024 \div (IF priority < 1 THEN 1 ELSE IF priority > 1024 THEN 1024 ELSE priority)

Increment == 1000000 \div Weight(1)

(* The search for a key in insert_task_into_queue: the first key from floor *)
(* on that is free, so floor itself or the successor of an occupied key.    *)
(* The set is empty when that key would pass the bound.                     *)
TakesOccupiedKey(q, floor) == {floor}

FirstFree(q, floor) ==
  {key \in {floor} \cup {k + 1 : k \in DOMAIN q} :
     /\ floor <= key /\ key <= MaxVruntime
     /\ key \notin DOMAIN q
     /\ \A k \in floor..(key - 1) : k \in DOMAIN q}

(* insert_task_into_queue, with cur the value of self.current at the call:  *)
(* the key starts at min_vruntime, or after the current task.  The task's   *)
(* own vruntime is not consulted.                                           *)
KeepsOwnVruntime(q, cur, t, vr) == FirstFree(q, vr[t])

InsertKey(q, cur, t, vr) ==
  FirstFree(q, IF cur = NoTask THEN min_vruntime
                               ELSE MaxOf(min_vruntime, vr[cur] + 1))

(* The end of pick_next and of schedule_locked: the least entry of q is     *)
(* taken out and becomes current.  If it is another task, the outgoing one  *)
(* is marked Ready (whatever it was), the incoming one Running, and the CPU *)
(* changes context.                                                         *)
SwitchKeepsPointer(q, st, vr) ==
  \E key \in DOMAIN q :
    /\ IsLeastKey(q, key)
    /\ run_queue' = MapRemove(q, key)
    /\ min_vruntime' = key
    /\ current' = q[key]
    /\ vruntime' = vr
    /\ state' = IF q[key] = current
                THEN st
                ELSE [st EXCEPT ![current] = "Ready", ![q[key]] = "Running"]
    /\ UNCHANGED current_task

TakeLeast(q, st, vr) ==
  \E key \in DOMAIN q :
    /\ IsLeastKey(q, key)
    /\ run_queue' = MapRemove(q, key)
    /\ min_vruntime' = key
    /\ current' = q[key]
    /\ vruntime' = vr
    /\ IF q[key] = current
       THEN state' = st /\ UNCHANGED current_task
       ELSE /\ state' = [st EXCEPT ![current] = "Ready", ![q[key]] = "Running"]
            /\ current_task' = q[key]

(* pick_next with a nonempty queue: a current task that is not Dead goes    *)
(* back into the queue first, with self.current already taken.              *)
RequeuesTheDead(st, vr) ==
  \E key \in InsertKey(run_queue, NoTask, current, vr) :
    TakeLeast(MapInsert(run_queue, key, current), st, [vr EXCEPT ![current] = key])

PickNext(st, vr) ==
  \/ /\ st[current] = "Dead"
     /\ TakeLeast(run_queue, st, vr)
  \/ /\ st[current] # "Dead"
     /\ \E key \in InsertKey(run_queue, NoTask, current, vr) :
          TakeLeast(MapInsert(run_queue, key, current), st,
                    [vr EXCEPT ![current] = key])

(* schedule_locked, on task states st and vruntimes vr.                     *)
Schedule(st, vr) ==
  IF DOMAIN run_queue = {}
  THEN /\ state' = st
       /\ vruntime' = vr
       /\ UNCHANGED <<run_queue, current, min_vruntime, current_task>>
  ELSE PickNext(st, vr)

-----------------------------------------------------------------------------
Init ==
  /\ run_queue = [k \in {} |-> NoTask]
  /\ current = NoTask
  /\ min_vruntime = 0
  /\ current_ticks = 0
  /\ state = [t \in Tasks |-> "Ready"]
  /\ vruntime = [t \in Tasks |-> 0]
  /\ current_task = NoTask
  /\ phase = "boot"
  /\ created = {}
  /\ exited = {}

(* add_task on a new task: by the boot code, or by the running task through *)
(* sys_exec.                                                                *)
AddTask(t) ==
  /\ phase # "halt"
  /\ t \notin created
  /\ created' = created \cup {t}
  /\ IF current = NoTask
     THEN /\ current' = t
          /\ UNCHANGED <<run_queue, vruntime>>
     ELSE /\ \E key \in InsertKey(run_queue, current, t, vruntime) :
               /\ run_queue' = MapInsert(run_queue, key, t)
               /\ vruntime' = [vruntime EXCEPT ![t] = key]
          /\ UNCHANGED current
  /\ UNCHANGED <<min_vruntime, current_ticks, state, current_task, phase, exited>>

(* start_scheduler: leave the boot context for the first task.              *)
StartScheduler ==
  /\ phase = "boot"
  /\ current # NoTask
  /\ phase' = "run"
  /\ current_task' = current
  /\ UNCHANGED <<run_queue, current, min_vruntime, current_ticks, state,
                 vruntime, created, exited>>

(* yield_now / schedule_now, from sys_yield.                                *)
Yield ==
  /\ phase = "run"
  /\ Schedule(state, vruntime)
  /\ UNCHANGED <<current_ticks, phase, created, exited>>

(* tick_now, from the timer interrupt: charge the current task, and at the  *)
(* end of the quantum schedule.                                             *)
Tick ==
  /\ phase = "run"
  /\ vruntime[current] + Increment <= MaxVruntime
  /\ LET vr == [vruntime EXCEPT ![current] = @ + Increment]
     IN  IF current_ticks + 1 >= QuantumTicks
         THEN /\ current_ticks' = 0
              /\ Schedule(state, vr)
         ELSE /\ current_ticks' = current_ticks + 1
              /\ vruntime' = vr
              /\ UNCHANGED <<run_queue, current, min_vruntime, state, current_task>>
  /\ UNCHANGED <<phase, created, exited>>

(* exit_current: the current task dies and the CPU goes to the next one, or *)
(* halts for good when the queue is empty.                                  *)
HaltsWithoutScheduling ==
  /\ phase = "run"
  /\ exited' = exited \cup {current}
  /\ state' = [state EXCEPT ![current] = "Dead"]
  /\ phase' = "halt"
  /\ UNCHANGED <<run_queue, current, min_vruntime, current_ticks, vruntime,
                 current_task, created>>

ExitCurrent ==
  /\ phase = "run"
  /\ exited' = exited \cup {current}
  /\ Schedule([state EXCEPT ![current] = "Dead"], vruntime)
  /\ phase' = IF DOMAIN run_queue = {} THEN "halt" ELSE "run"
  /\ UNCHANGED <<current_ticks, created>>

Next ==
  \/ \E t \in Tasks : AddTask(t)
  \/ StartScheduler
  \/ Yield
  \/ Tick
  \/ ExitCurrent

Spec == Init /\ [][Next]_vars

(* Boot reaches start_scheduler, the running task keeps yielding and the    *)
(* timer keeps firing.  Exits are left to the programs.                     *)
FairSpec ==
  /\ Spec
  /\ WF_vars(StartScheduler)
  /\ WF_vars(Yield)
  /\ WF_vars(Tick)

-----------------------------------------------------------------------------
(* Types: keys and runtimes are naturals, the queue maps keys to tasks.     *)
TypeOK ==
  /\ DOMAIN run_queue \subseteq Nat
  /\ run_queue \in [DOMAIN run_queue -> Tasks]
  /\ current \in Tasks \cup {NoTask}
  /\ min_vruntime \in Nat
  /\ current_ticks \in 0..(QuantumTicks - 1)
  /\ state \in [Tasks -> TaskState]
  /\ vruntime \in [Tasks -> Nat]
  /\ current_task \in Tasks \cup {NoTask}
  /\ phase \in {"boot", "run", "halt"}
  /\ created \subseteq Tasks
  /\ exited \subseteq created

(* No task is lost or duplicated by the take/insert/remove juggling of      *)
(* pick_next: the queue holds each created, unexited task other than the    *)
(* current one exactly once, under its own vruntime, and nothing else.      *)
EachLiveTaskOnce ==
  /\ Queued = created \ (exited \cup {current})
  /\ \A k \in DOMAIN run_queue : vruntime[run_queue[k]] = k

(* Once the kernel has left boot, Scheduler.current and CURRENT_TASK (which *)
(* the userspace trampoline reads) name the same task.                      *)
CurrentTaskAgrees == phase # "boot" => current_task = current

(* A task that called exit_current is never given the CPU again, although   *)
(* schedule_locked rewrites its Dead state to Ready.                        *)
ExitedNeverRuns == phase = "run" => current_task \notin exited

(* Every queued key lies above min_vruntime, and the current task's         *)
(* vruntime does not lie below it: the key min_vruntime is always free, and *)
(* it is the one pick_next gives back to a live current task.               *)
QueueAboveCurrent ==
  /\ \A k \in DOMAIN run_queue : min_vruntime < k
  /\ current # NoTask => min_vruntime <= vruntime[current]

(* The CPU changes hands only when its task has exited: neither yield_now   *)
(* nor the timer ever switches away from a live task.                       *)
SwitchOnlyOnExit ==
  [][phase = "run" /\ current_task' # current_task => current_task \in exited']_vars

(* If every task that runs eventually exits, every queued task eventually   *)
(* runs: an exit always hands the CPU on while anything is queued.          *)
ExitsLetEveryoneRun ==
  (\A t \in Tasks : current_task = t ~> t \in exited)
    => (\A t \in Tasks : t \in Queued ~> current_task = t)
=============================================================================
