---------------------------- MODULE KernelEntry ----------------------------
(***************************************************************************)
(* How control enters and leaves the kernel, around the processes and the  *)
(* scheduler: syscall_entry and the stack it runs on (SC_KERNEL_RSP, set   *)
(* by Process::from_elf), the timer interrupt on its one interrupt stack   *)
(* with the end-of-interrupt it owes the local APIC, switch_context, the   *)
(* trampoline into userspace, and the handler that every exception halts   *)
(* in.  Interrupts are off in the kernel, so each entry is one action that *)
(* ends when some task is back in userspace.                               *)
(***************************************************************************)
EXTENDS Processes

VARIABLES sc_kernel_rsp,  \* SC_KERNEL_RSP: the pid whose kernel stack it is
          frame,          \* the task whose entry frame was last pushed, by stack
          context,        \* Task.context.rsp: the stack a task is suspended on
          in_service,     \* local APIC: a timer interrupt awaits its EOI
          user_entry,     \* Task.user_entry: the pid whose program it names
          program,        \* the program each task was let into userspace at
          user,           \* what a task's user rip and rsp are
          stopped         \* the CPU is in dummy_exception_handler

entryVars == <<sc_kernel_rsp, frame, context, in_service, user_entry, program,
               user, stopped>>
kernelVars == <<allVars, entryVars>>

(* The stacks an entry frame can lie on: the interrupt stack (IST 1) and    *)
(* the frame from_elf takes for each process.  A task that has not run yet  *)
(* is suspended on its own KernelStack, in the trampoline.                  *)
Ist == 0
Stacks == {Ist} \cup Pids
Trampoline == MaxPid + 1
Nowhere == MaxPid + 2

-----------------------------------------------------------------------------
KInit ==
  /\ PInit
  /\ sc_kernel_rsp = 0
  /\ frame = [s \in Stacks |-> NoTask]
  /\ context = [t \in Tasks |-> Nowhere]
  /\ in_service = FALSE
  /\ user_entry = [t \in Tasks |-> 0]
  /\ program = [t \in Tasks |-> 0]
  /\ user = [t \in Tasks |-> "none"]
  /\ stopped = FALSE

(* Process::from_elf as far as the entry path goes: the new kernel stack    *)
(* serves every system call from here on, whoever makes it.                 *)
NewKernelStack(pid) == sc_kernel_rsp' = pid

(* The context main.rs and sys_exec give a new task, and its user_entry.    *)
NewContext(t, pid) ==
  /\ context' = [context EXCEPT ![t] = Trampoline]
  /\ user_entry' = [user_entry EXCEPT ![t] = pid]

(* Task t leaves the kernel from where it was on stack r.  From the         *)
(* trampoline, jump_to_userspace at the entry of the task CURRENT_TASK      *)
(* names.  From a system call, sysretq with rsp still on the kernel stack   *)
(* and rcx as syscall_dispatch left it.  From the timer, iretq through the  *)
(* frame that is on the interrupt stack.                                    *)
UserAfter(t, r) ==
  IF r = Trampoline THEN "own"
  ELSE IF r = Ist /\ frame'[Ist] = t THEN user[t] ELSE "lost"

(* The entry on stack s ends with task t leaving from r.  Only a return     *)
(* through timer_interrupt_entry sends the EOI.                             *)
Return(s, t, r) ==
  /\ user' = [user EXCEPT ![t] = UserAfter(t, r)]
  /\ program' = [program EXCEPT ![t] =
                   IF r = Trampoline THEN user_entry[current_task'] ELSE @]
  /\ in_service' = (r # Ist /\ (s = Ist \/ in_service))

(* switch_context, when the scheduler has chosen another task: the caller   *)
(* is suspended on the stack s it is running on, and the other task goes on *)
(* from where it was.  Otherwise the handler returns to its caller.         *)
Leave(s) ==
  IF current' = current
  THEN Return(s, current, s) /\ UNCHANGED context
  ELSE /\ context' = [context EXCEPT ![current] = s, ![current'] = Nowhere]
       /\ Return(s, current', context[current'])

(* The entry pushes a frame at the top of the stack it starts on.           *)
Enter(s) == frame' = [frame EXCEPT ![s] = current]

-----------------------------------------------------------------------------
KBoot(t) ==
  /\ BootInit(t)
  /\ NewKernelStack(1)
  /\ NewContext(t, 1)
  /\ UNCHANGED <<frame, in_service, program, user, stopped>>

(* start_scheduler: the first task's context is switched to from the boot   *)
(* code's, which nothing returns to.                                        *)
KStart ==
  /\ Start
  /\ context' = [context EXCEPT ![current] = Nowhere]
  /\ Return(Nowhere, current, Trampoline)
  /\ UNCHANGED <<sc_kernel_rsp, frame, user_entry, stopped>>

(* sys_exec: the stack for system calls changes while the caller is on the  *)
(* old one.                                                                 *)
KExec(t) ==
  /\ ~stopped
  /\ SysExec(t)
  /\ Enter(sc_kernel_rsp)
  /\ NewKernelStack(next_pid)
  /\ NewContext(t, next_pid)
  /\ Return(sc_kernel_rsp, current, sc_kernel_rsp)
  /\ UNCHANGED stopped

(* from_elf fails before it has taken the kernel stack, or after.           *)
KExecFails ==
  /\ ~stopped
  /\ SysExecFails
  /\ Enter(sc_kernel_rsp)
  /\ NewKernelStack(next_pid) \/ UNCHANGED sc_kernel_rsp
  /\ Return(sc_kernel_rsp, current, sc_kernel_rsp)
  /\ UNCHANGED <<context, user_entry, stopped>>

KWaitpid(pid) ==
  /\ ~stopped
  /\ SysWaitpid(pid)
  /\ Enter(sc_kernel_rsp)
  /\ Return(sc_kernel_rsp, current, sc_kernel_rsp)
  /\ UNCHANGED <<sc_kernel_rsp, context, user_entry, stopped>>

(* sys_write, an exec refused before from_elf, and an unknown number.       *)
KOther ==
  /\ ~stopped /\ phase = "run"
  /\ Enter(sc_kernel_rsp)
  /\ Return(sc_kernel_rsp, current, sc_kernel_rsp)
  /\ UNCHANGED <<allVars, sc_kernel_rsp, context, user_entry, stopped>>

KYield ==
  /\ ~stopped
  /\ SysYield
  /\ Enter(sc_kernel_rsp)
  /\ Leave(sc_kernel_rsp)
  /\ UNCHANGED <<sc_kernel_rsp, user_entry, stopped>>

KExit(code) ==
  /\ ~stopped
  /\ SysExit(code)
  /\ Enter(sc_kernel_rsp)
  /\ IF phase' = "halt"
     THEN UNCHANGED <<context, program, user, in_service>>
     ELSE Leave(sc_kernel_rsp)
  /\ UNCHANGED <<sc_kernel_rsp, user_entry, stopped>>

(* timer_interrupt_entry.  The local APIC holds the next timer interrupt    *)
(* back until it has the EOI for the last one.                              *)
KTimer ==
  /\ ~stopped /\ ~in_service
  /\ Timer
  /\ Enter(Ist)
  /\ Leave(Ist)
  /\ UNCHANGED <<sc_kernel_rsp, user_entry, stopped>>

(* dummy_exception_handler, on any exception of the running program: cli    *)
(* and hlt for ever.                                                        *)
KException ==
  /\ ~stopped /\ phase = "run"
  /\ stopped' = TRUE
  /\ UNCHANGED <<allVars, sc_kernel_rsp, frame, context, in_service, user_entry,
                 program, user>>

KNext ==
  \/ \E t \in Tasks : KBoot(t) \/ KExec(t)
  \/ KStart
  \/ KExecFails
  \/ \E pid \in Pids : KWaitpid(pid)
  \/ KOther
  \/ KYield
  \/ \E code \in Codes : KExit(code)
  \/ KTimer
  \/ KException

KSpec == KInit /\ [][KNext]_kernelVars

-----------------------------------------------------------------------------
(* Types of the entry path's state.                                         *)
KTypeOK ==
  /\ sc_kernel_rsp \in 0..MaxPid
  /\ frame \in [Stacks -> Tasks \cup {NoTask}]
  /\ context \in [Tasks -> Stacks \cup {Trampoline, Nowhere}]
  /\ in_service \in BOOLEAN
  /\ user_entry \in [Tasks -> 0..MaxPid]
  /\ program \in [Tasks -> 0..MaxPid]
  /\ user \in [Tasks -> {"none", "own", "lost"}]
  /\ stopped \in BOOLEAN

(* All tasks enter the kernel on one stack, which exec moves, and the timer *)
(* on another.  A task that can still run is nevertheless never suspended   *)
(* on a stack where a later entry has overwritten its frame.                *)
SavedContextsIntact ==
  \A t \in created \ exited :
    context[t] \in Stacks => frame[context[t]] = t

(* Whatever the scheduler decides on a tick, once a program runs again the  *)
(* local APIC has its EOI: the switch inside tick_now, which would leave    *)
(* timer_interrupt_entry before lapic_eoi, never ends the ticks.            *)
TimerAcknowledged == phase = "run" => ~in_service

(* A task enters userspace at the entry point of its own process, although  *)
(* the trampoline asks CURRENT_TASK and not its own context for it.         *)
RunsOwnProgram ==
  \A t \in created :
    program[t] # 0 => program[t] = user_entry[t] /\ PidsOf(t) \subseteq {program[t]}

(* syscall.rs:127 pushes rcx to "save user RIP" and syscall.rs:8 keeps the  *)
(* "Saved user RSP": after a system call the caller goes on with both.      *)
SyscallReturnsToCaller == \A t \in Tasks : user[t] # "lost"
=============================================================================
