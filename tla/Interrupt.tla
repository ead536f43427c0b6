------------------------------ MODULE Interrupt ------------------------------
(***************************************************************************)
(* How the kernel is entered and left: save, HWINT_MASTER, restart and     *)
(* restart_reenter of p_kernel.s, sys_call of asm_syscall.S, clock_handler *)
(* of clock.c, and the way from _start to the first process (start.c).     *)
(*                                                                         *)
(* stack holds the activations of kernel code, innermost last; it is empty *)
(* while a process runs.  Every gate of the IDT is an interrupt gate, so   *)
(* save up to sti, and cli up to iret, are one step each; everything else  *)
(* can be interrupted.  What a system call or a handler computes is not    *)
(* modelled here, only whether it picks another process to run.            *)
(***************************************************************************)
EXTENDS Integers, Sequences, FiniteSets

CONSTANTS
  Irq,            \* the lines of the 8259A that HWINT_MASTER serves
  CLOCK_IRQ, KEYBOARD_IRQ,
  Slot,           \* the slots of proc_table that hold a process
  FirstSlot,      \* proc_table itself
  Junk,           \* registers that belong to no process
  NoIrq           \* the stages of the boot a run keeps free of interrupts

BootStage == {"keyboard", "clock", "proc", "cursor", "restart", "esp", "dec", "pop"}

ASSUME InterruptAssumption ==
  /\ {CLOCK_IRQ, KEYBOARD_IRQ} \subseteq Irq
  /\ CLOCK_IRQ # KEYBOARD_IRQ
  /\ Irq \cap {"boot", "sys", "printk"} = {}
  /\ FirstSlot \in Slot /\ Junk \notin Slot
  /\ NoIrq \subseteq BootStage

VARIABLES
  stack,
  k_reenter,
  int_on,           \* the interrupt flag of the CPU
  mask,           \* the lines masked in the 8259A
  raised,         \* the lines with an interrupt that was not taken yet
  ready_process,
  sp0,            \* the slot whose register area tss.esp0 is the top of
  running,        \* whose registers the CPU holds while stack is empty
  saved           \* whose registers each slot holds

kernelvars == <<stack, k_reenter, int_on>>
procvars == <<ready_process, sp0, running, saved>>
vars == <<kernelvars, mask, raised, procvars>>

-----------------------------------------------------------------------------
User == stack = << >>

Top == stack[Len(stack)]

\* The innermost activation is one of w, and it is at pc.
At(w, pc) == ~ User /\ Top.what = w /\ Top.pc = pc

Goto(pc) == stack' = [stack EXCEPT ![Len(stack)].pc = pc]

\* save: the registers go below esp, which is in the slot of the process for
\* user code; the first activation gets the kernel stack from its top.
save(w) ==
  LET k == k_reenter + 1
      act == [what |-> w, pc |-> "entry", p |-> ready_process,
              link |-> IF k = 0 THEN "restart" ELSE "restart_reenter"]
  IN
  /\ k_reenter' = k
  /\ stack' = IF k = 0 THEN <<act>> ELSE Append(stack, act)
  /\ saved' = IF User THEN [saved EXCEPT ![sp0] = running]
              ELSE IF At("boot", "pop") THEN [saved EXCEPT ![sp0] = Junk]
              ELSE saved

\* Variant: the nesting count is not restored on the way back to kernel code.
Return_NoDec ==
  IF Top.link = "restart"
  THEN /\ sp0' = ready_process
       /\ running' = saved[ready_process]
       /\ stack' = << >>
       /\ k_reenter' = k_reenter - 1
  ELSE /\ stack' = SubSeq(stack, 1, Len(stack) - 1)
       /\ UNCHANGED <<k_reenter, sp0, running>>

\* Variant: tss.esp0 stays that of the process that was interrupted.
Return_KeepsSp0 ==
  /\ k_reenter' = k_reenter - 1
  /\ IF Top.link = "restart"
     THEN /\ running' = saved[ready_process]
          /\ stack' = << >>
          /\ UNCHANGED sp0
     ELSE /\ stack' = SubSeq(stack, 1, Len(stack) - 1)
          /\ UNCHANGED <<sp0, running>>

\* restart or restart_reenter, whichever save pushed, up to iret.
Return ==
  /\ k_reenter' = k_reenter - 1
  /\ IF Top.link = "restart"
     THEN /\ sp0' = ready_process
          /\ running' = saved[ready_process]
          /\ stack' = << >>
     ELSE /\ stack' = SubSeq(stack, 1, Len(stack) - 1)
          /\ UNCHANGED <<sp0, running>>

-----------------------------------------------------------------------------
(* Hardware interrupts                                                      *)

\* A device raises its line; the 8259A remembers one interrupt per line.
Raise(i) ==
  /\ raised' = raised \cup {i}
  /\ UNCHANGED <<kernelvars, mask, procvars>>

Takes(i) ==
  /\ int_on
  /\ i \in raised \ mask
  /\ ~ (~ User /\ Top.what = "boot" /\ Top.pc \in NoIrq)

\* HWINT_MASTER up to sti
Enter(i) ==
  /\ Takes(i)
  /\ save(i)
  /\ mask' = mask \cup {i}
  /\ raised' = raised \ {i}
  /\ UNCHANGED <<int_on, ready_process, sp0, running>>

\* Variant: the handler schedules whatever it interrupted.
clock_handler_Always(i) ==
  IF i = CLOCK_IRQ THEN ready_process' \in Slot ELSE UNCHANGED ready_process

\* clock_handler calls schedule(), which picks some process, only for the
\* first activation; keyboard_handler has nothing to do with processes.
clock_handler(i) ==
  IF i = CLOCK_IRQ /\ k_reenter = 0 THEN ready_process' \in Slot
                                    ELSE UNCHANGED ready_process

Handle(i) ==
  /\ At(i, "entry")
  /\ clock_handler(i)
  /\ Goto("exit")
  /\ UNCHANGED <<k_reenter, int_on, mask, raised, sp0, running, saved>>

\* Variant: the line stays masked.
Leave_NoUnmask(i) ==
  /\ At(i, "exit")
  /\ Return
  /\ UNCHANGED <<int_on, mask, raised, ready_process, saved>>

\* HWINT_MASTER from cli on
Leave(i) ==
  /\ At(i, "exit")
  /\ mask' = mask \ {i}
  /\ Return
  /\ UNCHANGED <<int_on, raised, ready_process, saved>>

-----------------------------------------------------------------------------
(* System calls                                                             *)

\* int $INT_VECTOR_SYS_CALL in a process
SysEnter ==
  /\ User
  /\ save("sys")
  /\ UNCHANGED <<int_on, mask, raised, ready_process, sp0, running>>

\* The same in the kernel: printx of deadlock() and of a failed assertion
Printk ==
  /\ At("sys", "body")
  /\ save("printk")
  /\ UNCHANGED <<int_on, mask, raised, ready_process, sp0, running>>

\* pushl ready_process, with interrupts enabled
SysArg(w) ==
  /\ At(w, "entry")
  /\ stack' = [stack EXCEPT ![Len(stack)] = [@ EXCEPT !.pc = "body", !.p = ready_process]]
  /\ UNCHANGED <<k_reenter, int_on, mask, raised, procvars>>

\* The call itself; block() picks another process.
SysBody ==
  /\ At("sys", "body")
  /\ ready_process' \in Slot
  /\ Goto("exit")
  /\ UNCHANGED <<k_reenter, int_on, mask, raised, sp0, running, saved>>

PrintkBody ==
  /\ At("printk", "body")
  /\ Goto("exit")
  /\ UNCHANGED <<k_reenter, int_on, mask, raised, procvars>>

SysLeave(w) ==
  /\ At(w, "exit")
  /\ Return
  /\ UNCHANGED <<int_on, mask, raised, ready_process, saved>>

-----------------------------------------------------------------------------
(* The boot                                                                 *)

\* init_8259a has masked every line, and cli was executed in _start.
Init ==
  /\ stack = <<[what |-> "boot", pc |-> "keyboard", link |-> "restart", p |-> FirstSlot]>>
  /\ k_reenter = 0
  /\ int_on = FALSE
  /\ mask = Irq
  /\ raised = {}
  /\ ready_process = FirstSlot
  /\ sp0 = FirstSlot
  /\ running = Junk
  /\ saved = [p \in Slot |-> Junk]

\* enable_irq(i), after the handler was put into irq_table
enable_irq(i) == mask' = mask \ {i}

\* plat_boot: init_keyboard
BootKeyboard ==
  /\ At("boot", "keyboard")
  /\ enable_irq(KEYBOARD_IRQ)
  /\ Goto("clock")
  /\ UNCHANGED <<k_reenter, int_on, raised, procvars>>

\* kernel_main: the clock, and ready_process = proc_table
BootClock ==
  /\ At("boot", "clock")
  /\ enable_irq(CLOCK_IRQ)
  /\ ready_process' = FirstSlot
  /\ Goto("proc")
  /\ UNCHANGED <<k_reenter, int_on, raised, sp0, running, saved>>

\* init_proc
BootProc ==
  /\ At("boot", "proc")
  /\ saved' = [p \in Slot |-> p]
  /\ Goto("cursor")
  /\ UNCHANGED <<k_reenter, int_on, mask, raised, ready_process, sp0, running>>

\* set_cursor(0), which ends with enable_int()
BootCursor ==
  /\ At("boot", "cursor")
  /\ int_on' = TRUE
  /\ Goto("restart")
  /\ UNCHANGED <<k_reenter, mask, raised, procvars>>

\* restart() called from kernel_main: esp and tss.esp0 go to the process ...
RestartEsp ==
  /\ At("boot", "restart")
  /\ sp0' = ready_process
  /\ Goto("esp")
  /\ UNCHANGED <<k_reenter, int_on, mask, raised, ready_process, running, saved>>

\* ... decl (k_reenter) ...
RestartDec ==
  /\ At("boot", "esp")
  /\ k_reenter' = k_reenter - 1
  /\ Goto("dec")
  /\ UNCHANGED <<int_on, mask, raised, procvars>>

\* ... the registers are popped ...
RestartPop ==
  /\ At("boot", "dec")
  /\ Goto("pop")
  /\ UNCHANGED <<k_reenter, int_on, mask, raised, procvars>>

\* ... and iret.
RestartIret ==
  /\ At("boot", "pop")
  /\ running' = saved[sp0]
  /\ int_on' = TRUE
  /\ stack' = << >>
  /\ UNCHANGED <<k_reenter, mask, raised, ready_process, sp0, saved>>

-----------------------------------------------------------------------------
Boot ==
  \/ BootKeyboard \/ BootClock \/ BootProc \/ BootCursor
  \/ RestartEsp \/ RestartDec \/ RestartPop \/ RestartIret

Kernel ==
  \/ \E w \in {"sys", "printk"} : SysArg(w) \/ SysLeave(w)
  \/ SysBody \/ PrintkBody

Next ==
  \/ Boot
  \/ Kernel
  \/ \E i \in Irq : Raise(i) \/ Enter(i) \/ Handle(i) \/ Leave(i)
  \/ SysEnter \/ Printk

\* The boot goes on, and the CPU takes an interrupt that stays pending.  A
\* handler is short compared with the time between two interrupts of another
\* line, so it gets on however often it is interrupted.
Fairness ==
  /\ WF_vars(Boot)
  /\ \A i \in Irq : WF_vars(Enter(i)) /\ SF_vars(Handle(i)) /\ SF_vars(Leave(i))

Spec == Init /\ [][Next]_vars /\ Fairness

-----------------------------------------------------------------------------
(* Properties                                                               *)

\* The boot has left its own activation: decl (k_reenter) of restart.
BootLeft == ~ User /\ stack[1].what = "boot" /\ stack[1].pc \in {"dec", "pop"}

\* k_reenter counts the activations: sys_printk, clock_handler and the
\* assertion of sys_sendrec read from it whether they were entered from a
\* process (0) or from kernel code.
NestingCounted == k_reenter = Len(stack) - (IF BootLeft THEN 2 ELSE 1)

\* A system call is not preempted: until it has its argument and blocks or
\* not by itself, ready_process is the process that made it, whatever the
\* handlers that interrupt it do.
CallerStays ==
  ~ User /\ stack[1].what = "sys" =>
    /\ stack[1].pc \in {"entry", "body"} => ready_process = running
    /\ stack[1].pc = "body" => stack[1].p = running
    /\ saved[sp0] = running

\* What runs is the process ready_process points to, with its own registers;
\* the next interrupt saves them in its slot; and every other slot holds the
\* registers of its process.
ResumesOwnContext ==
  User => /\ running = ready_process
          /\ sp0 = ready_process
          /\ \A p \in Slot \ {running} : saved[p] = p

\* An interrupt of an enabled line is served.
InterruptsServed ==
  \A i \in {CLOCK_IRQ, KEYBOARD_IRQ} : i \in raised ~> i \notin raised
=============================================================================
