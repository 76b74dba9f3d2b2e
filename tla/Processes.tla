----------------------------- MODULE Processes -----------------------------
(***************************************************************************)
(* Processes on top of the scheduler: PROCESS_TABLE, CURRENT_PROCESS and   *)
(* next_pid (hammam/src/process/mod.rs), and the system calls exec, exit,  *)
(* waitpid and yield (hammam/src/arch/x86_64/syscall.rs) made by whichever *)
(* task is on the CPU.  A system call runs with interrupts masked, so it   *)
(* is one action.  It is taken to return to its caller.                    *)
(***************************************************************************)
EXTENDS Scheduler

CONSTANTS Codes,    \* the exit codes programs use
          MaxPid    \* bound on the pids given out

ASSUME ProcessAssumption ==
  /\ Codes \subseteq Int
  /\ MaxPid \in Nat /\ MaxPid >= 2

VARIABLES table,            \* PROCESS_TABLE: pid -> [task, zombie, code]
          current_process,  \* pid in CURRENT_PROCESS, 0 for None
          next_pid,         \* NEXT_PID
          exit_code,        \* history: task -> the code it passed to exit
          reaped            \* history: the pids waitpid has removed

procVars == <<table, current_process, next_pid, exit_code, reaped>>
allVars == <<vars, procVars>>

Pids == 1..MaxPid

Process == [task : Tasks, zombie : BOOLEAN, code : Codes \cup {0}]

NewProcess(t) == [task |-> t, zombie |-> FALSE, code |-> 0]

Insert(tab, pid, p) == [q \in DOMAIN tab \cup {pid} |-> IF q = pid THEN p ELSE tab[q]]

Remove(tab, pid) == [q \in DOMAIN tab \ {pid} |-> tab[q]]

(* The pids under which task t stands in the table.                         *)
PidsOf(t) == {pid \in DOMAIN table : table[pid].task = t}

(* What sys_waitpid returns: -10 (ECHILD), the exit code, or "still running" *)
(* as 0 with WNOHANG and -11 (EAGAIN) without.                              *)
WaitResult(pid, wnohang) ==
  CASE pid \notin DOMAIN table -> -10
    [] pid \in DOMAIN table /\ table[pid].zombie -> table[pid].code
    [] OTHER -> IF wnohang THEN 0 ELSE -11

-----------------------------------------------------------------------------
PInit ==
  /\ Init
  /\ table = [p \in {} |-> NewProcess(NoTask)]
  /\ current_process = 0
  /\ next_pid = 2
  /\ exit_code = [t \in {} |-> 0]
  /\ reaped = {}

(* The end of _start_multiboot2: the init process is pid 1, its task the    *)
(* first of the scheduler, and CURRENT_PROCESS is set for the only time.    *)
BootInit(t) ==
  /\ phase = "boot" /\ current = NoTask
  /\ AddTask(t)
  /\ table' = Insert(table, 1, NewProcess(t))
  /\ current_process' = 1
  /\ UNCHANGED <<next_pid, exit_code, reaped>>

Start ==
  /\ StartScheduler
  /\ UNCHANGED procVars

(* sys_exec: the new task is queued, then its process enters the table.     *)
ExecReusesPid(t) ==
  /\ phase = "run"
  /\ next_pid <= MaxPid
  /\ AddTask(t)
  /\ table' = Insert(table, next_pid, NewProcess(t))
  /\ UNCHANGED <<next_pid, current_process, exit_code, reaped>>

SysExec(t) ==
  /\ phase = "run"
  /\ next_pid <= MaxPid
  /\ AddTask(t)
  /\ next_pid' = next_pid + 1
  /\ table' = Insert(table, next_pid, NewProcess(t))
  /\ UNCHANGED <<current_process, exit_code, reaped>>

(* sys_exec when from_elf fails: -12, and the pid drawn for it is spent.    *)
SysExecFails ==
  /\ phase = "run"
  /\ next_pid <= MaxPid
  /\ next_pid' = next_pid + 1
  /\ UNCHANGED <<vars, table, current_process, exit_code, reaped>>

(* sys_exit: the entry of CURRENT_PROCESS is marked, then exit_current.     *)
SysExit(code) ==
  /\ phase = "run"
  /\ table' = IF current_process \in DOMAIN table
              THEN [table EXCEPT ![current_process] =
                      [@ EXCEPT !.zombie = TRUE, !.code = code]]
              ELSE table
  /\ exit_code' = [t \in DOMAIN exit_code \cup {current} |->
                     IF t = current THEN code ELSE exit_code[t]]
  /\ ExitCurrent
  /\ UNCHANGED <<current_process, next_pid, reaped>>

ReapsTheLiving(pid) ==
  /\ phase = "run"
  /\ IF pid \in DOMAIN table
     THEN table' = Remove(table, pid) /\ reaped' = reaped \cup {pid}
     ELSE UNCHANGED <<table, reaped>>
  /\ UNCHANGED <<vars, current_process, next_pid, exit_code>>

(* sys_waitpid returns WaitResult and removes the entry of a zombie.        *)
SysWaitpid(pid) ==
  /\ phase = "run"
  /\ IF pid \in DOMAIN table /\ table[pid].zombie
     THEN table' = Remove(table, pid) /\ reaped' = reaped \cup {pid}
     ELSE UNCHANGED <<table, reaped>>
  /\ UNCHANGED <<vars, current_process, next_pid, exit_code>>

SysYield == Yield /\ UNCHANGED procVars

Timer == Tick /\ UNCHANGED procVars

PNext ==
  \/ \E t \in Tasks : BootInit(t) \/ SysExec(t)
  \/ Start
  \/ SysExecFails
  \/ \E code \in Codes : SysExit(code)
  \/ \E pid \in Pids : SysWaitpid(pid)
  \/ SysYield
  \/ Timer

PSpec == PInit /\ [][PNext]_allVars

-----------------------------------------------------------------------------
(* Table and scheduler agree: every task that add_task was given has one    *)
(* process, under a pid next_pid has passed, no matter how execs, failed    *)
(* execs, exits and waits interleave; only init's can have been reaped.     *)
OneProcessPerTask ==
  /\ \A p, q \in DOMAIN table : p # q => table[p].task # table[q].task
  /\ \A pid \in DOMAIN table : table[pid].task \in created /\ pid < next_pid
  /\ \A s, t \in created :
       s # t => PidsOf(s) # {} \/ PidsOf(t) # {}
  /\ \A t \in created : PidsOf(t) = {} => 1 \in reaped

(* A pid that waitpid has reaped is not given out again, and only a zombie  *)
(* leaves the table: no process disappears without its code being returned. *)
ReapedOnce ==
  [][/\ reaped \cap DOMAIN table' = {}
     /\ \A pid \in DOMAIN table \ DOMAIN table' : table[pid].zombie]_allVars

(* A process is marked zombie only when some task has exited: waitpid never *)
(* reports an exit code that nobody passed to exit.                         *)
ZombieCodesAreReal ==
  \A pid \in DOMAIN table :
    table[pid].zombie => \E t \in exited : exit_code[t] = table[pid].code

(* The system calls drive the scheduler only as its own operations allow,  *)
(* so what holds of the scheduler alone holds of it here.                   *)
ImplementsScheduler == Spec

(* syscall.rs:289 has waitpid wait for the process to end: once its task    *)
(* has exited, waitpid on a pid in the table returns that task's code.      *)
ExitIsVisible ==
  \A pid \in DOMAIN table :
    table[pid].task \in exited
      => WaitResult(pid, TRUE) = exit_code[table[pid].task]
=============================================================================
