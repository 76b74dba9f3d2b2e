--------------------------- MODULE ServiceManager ---------------------------
(***************************************************************************)
(* dealduck, the init process (dealduck/src/manager.rs): it starts every   *)
(* registered unit, then polls them with waitpid(WNOHANG) for ever and     *)
(* restarts the ones it takes to have exited.  Between any two of its      *)
(* system calls the services may exit.  The kernel side is the system call *)
(* interface dealduck is written for: a process that calls exit becomes a  *)
(* zombie with its own code (module Processes shows how the kernel falls   *)
(* short of that) and waitpid removes it.                                  *)
(***************************************************************************)
EXTENDS Integers

CONSTANTS NUnits,   \* registered units
          Codes,    \* exit codes of the services (i32)
          MaxPid    \* exec fails from this pid on

ASSUME ManagerAssumption ==
  /\ NUnits \in Nat \ {0}
  /\ Codes \subseteq Int
  /\ MaxPid \in Nat \ {0, 1}

VARIABLES unit,      \* unit -> [state, pid], with pid 0 for None
          pc,        \* "start", "poll", "restart" or "yield"
          i,         \* the unit the loop is at
          table,     \* PROCESS_TABLE without init: pid -> [zombie, code]
          next_pid,  \* NEXT_PID
          owner,     \* history: pid -> the unit it was spawned for
          exit_code  \* history: pid -> the code it exited with

kernel == <<table, next_pid, owner, exit_code>>
vars == <<unit, pc, i, kernel>>

Units == 1..NUnits

ServiceState == {"Stopped", "Running", "Failed"}

Live == [zombie |-> FALSE, code |-> 0]

Init ==
  /\ unit = [u \in Units |-> [state |-> "Stopped", pid |-> 0]]
  /\ pc = "start"
  /\ i = 1
  /\ table = [p \in {} |-> Live]
  /\ next_pid = 2
  /\ owner = [p \in {} |-> 0]
  /\ exit_code = [p \in {} |-> 0]

-----------------------------------------------------------------------------
(* spawn: sys_exec for unit i either gives a new process or fails, before   *)
(* or after it has drawn a pid.                                             *)
SpawnOK ==
  /\ next_pid < MaxPid
  /\ table' = [p \in DOMAIN table \cup {next_pid} |->
                 IF p = next_pid THEN Live ELSE table[p]]
  /\ owner' = [p \in DOMAIN owner \cup {next_pid} |->
                 IF p = next_pid THEN i ELSE owner[p]]
  /\ next_pid' = next_pid + 1
  /\ unit' = [unit EXCEPT ![i] = [state |-> "Running", pid |-> next_pid]]
  /\ UNCHANGED exit_code

SpawnFails ==
  /\ next_pid' \in {n \in {next_pid, next_pid + 1} : n <= MaxPid}
  /\ UNCHANGED <<table, owner, exit_code>>

(* The for loops over the units: on to the next one, or to the statement    *)
(* after the loop.                                                          *)
Advance(here, after) ==
  IF i < NUnits THEN pc' = here /\ i' = i + 1 ELSE pc' = after /\ i' = 1

(* start_all                                                                *)
StartUnit ==
  /\ pc = "start"
  /\ \/ SpawnOK
     \/ SpawnFails /\ unit' = [unit EXCEPT ![i].state = "Failed"]
  /\ Advance("start", "poll")

(* sys_waitpid(pid, WNOHANG): the answer, and the table afterwards.         *)
WaitResult(pid) ==
  CASE pid \notin DOMAIN table -> -10
    [] pid \in DOMAIN table /\ table[pid].zombie -> table[pid].code
    [] OTHER -> 0

Reap(pid) ==
  IF pid \in DOMAIN table /\ table[pid].zombie
  THEN table' = [p \in DOMAIN table \ {pid} |-> table[p]]
  ELSE UNCHANGED table

(* waitpid_nonblock turns the answer 0 into None, so only a negative answer *)
(* makes run() take the unit for exited.                                    *)
TakesNoneForExit(result) == result <= 0

TakesCodesOnly(result) == result < 0 /\ result # -10

SeemsExited(result) == result < 0

(* One iteration of the loop in run(): up to the restart, if there is one.  *)
Poll ==
  /\ pc = "poll"
  /\ IF unit[i].state # "Running"
     THEN UNCHANGED <<unit, table>> /\ Advance("poll", "yield")
     ELSE /\ Reap(unit[i].pid)
          /\ IF SeemsExited(WaitResult(unit[i].pid))
             THEN /\ unit' = [unit EXCEPT ![i].state = "Failed"]
                  /\ pc' = "restart" /\ UNCHANGED i
             ELSE UNCHANGED unit /\ Advance("poll", "yield")
  /\ UNCHANGED <<next_pid, owner, exit_code>>

(* The restart: every unit has RestartPolicy::OnFailure.                    *)
Restart ==
  /\ pc = "restart"
  /\ \/ SpawnOK
     \/ SpawnFails /\ UNCHANGED unit
  /\ Advance("poll", "yield")

(* The yield at the end of a pass.                                          *)
Yield ==
  /\ pc = "yield"
  /\ pc' = "poll"
  /\ UNCHANGED <<unit, i, kernel>>

(* A service calls exit(code), at any time.                                 *)
ServiceExits(pid, code) ==
  /\ pid \in DOMAIN table /\ ~table[pid].zombie
  /\ table' = [table EXCEPT ![pid] = [zombie |-> TRUE, code |-> code]]
  /\ exit_code' = [p \in DOMAIN exit_code \cup {pid} |->
                     IF p = pid THEN code ELSE exit_code[p]]
  /\ UNCHANGED <<unit, pc, i, next_pid, owner>>

Manager == StartUnit \/ Poll \/ Restart \/ Yield

Next ==
  \/ Manager
  \/ \E pid \in 2..MaxPid, code \in Codes : ServiceExits(pid, code)

Spec == Init /\ [][Next]_vars

(* dealduck loops without blocking, and the scheduler leaves it the CPU.    *)
FairSpec == Spec /\ WF_vars(Manager)

-----------------------------------------------------------------------------
(* Types of the units and of the process table.                             *)
TypeOK ==
  /\ unit \in [Units -> [state : ServiceState, pid : 0..MaxPid]]
  /\ pc \in {"start", "poll", "restart", "yield"}
  /\ i \in Units
  /\ next_pid \in 2..MaxPid
  /\ DOMAIN table \subseteq DOMAIN owner
  /\ \A p \in DOMAIN table : table[p] \in [zombie : BOOLEAN, code : Codes \cup {0}]
  /\ DOMAIN owner \subseteq 2..(next_pid - 1)
  /\ \A p \in DOMAIN owner : owner[p] \in Units

(* Every process in the table, live or zombie, is the pid its running unit  *)
(* polls: run() never starts a second process beside a live one and never   *)
(* leaves behind a zombie that nobody will reap.                            *)
TableIsTracked ==
  \A p \in DOMAIN table : unit[owner[p]] = [state |-> "Running", pid |-> p]

(* A service that has exited is reaped and, in the end, restarted or given  *)
(* up, even when its code is one that the poll that reaps it takes for      *)
(* "still running" (0) or ignores (positive).                               *)
ExitIsNoticed ==
  \A p \in 2..MaxPid :
    p \in DOMAIN table /\ table[p].zombie
      ~> /\ p \in DOMAIN owner \ DOMAIN table
         /\ unit[owner[p]].state = "Failed" \/ unit[owner[p]].pid # p
=============================================================================
