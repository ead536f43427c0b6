------------------------------ MODULE Startup ------------------------------
(***************************************************************************)
(* What the kernel sets up before its first process runs, and what the CPU *)
(* and the 8259As then make of it: the descriptor tables (start.c,         *)
(* include/protect.h), the interrupt controllers and the timer, the table  *)
(* of processes (init_proc, do_fork) and the way of an exception to the    *)
(* screen (the stubs of p_kernel.s, exception_handler).                    *)
(*                                                                         *)
(* _start runs these functions one after the other with interrupts off.    *)
(* An exception may happen between any two of them and in every process;   *)
(* it ends the run, since exception halts with interrupts off.             *)
(***************************************************************************)
EXTENDS Integers, Sequences, FiniteSets

CONSTANTS
  GDT_SIZE, NR_TASKS, NR_PROCS, NR_NATIVE_PROCS,
  tss_addr,        \* where the linker puts tss,
  proc_table,      \* the table of processes, of entries
  sizeof_Process,  \* this large,
  ldt_offset,      \* with the LDT here,
  task_stack,      \* and the stacks
  Eip,             \* where an exception happens
  ErrCode,         \* the error codes that the CPU pushes
  MaxForks         \* bound: how many processes fork adds

INDEX_TSS == 4
INDEX_LDT_FIRST == 5
SELECTOR_KERNEL_CS == 8
SELECTOR_KERNEL_DS == 16
SELECTOR_KERNEL_GS == 27
TASK_STACK == 32768
STACK_SIZE_TOTAL == TASK_STACK * (NR_TASKS + NR_NATIVE_PROCS)
Pid == 0..(NR_TASKS + NR_PROCS - 1)
ldt_addr(i) == proc_table + i * sizeof_Process + ldt_offset

\* The GDT has room for the loader's descriptors and an LDT for every process,
\* and the linker puts the tables below 4 GB.
StartupAssumption ==
  /\ {NR_TASKS, NR_PROCS, NR_NATIVE_PROCS, MaxForks} \subseteq Nat
  /\ {tss_addr, proc_table, sizeof_Process, ldt_offset, task_stack} \subseteq Nat
  /\ NR_NATIVE_PROCS <= NR_PROCS
  /\ ErrCode \subseteq Nat
  /\ GDT_SIZE \in Nat /\ GDT_SIZE >= 8 /\ GDT_SIZE >= INDEX_LDT_FIRST + NR_TASKS + NR_PROCS
  /\ tss_addr \div 65536 < 65536 /\ \A i \in Pid : ldt_addr(i) \div 65536 < 65536

DA_C == 152       \* 0x98
DA_CR == 154      \* 0x9a
DA_DRW == 146     \* 0x92
DA_386TSS == 137  \* 0x89
DA_LDT == 130     \* 0x82
DA_386IGate == 142 \* 0x8e
DA_32 == 16384    \* 0x4000
DA_LIMIT_4K == 32768 \* 0x8000

VARIABLES
  pc,             \* the next function of the start-up
  gdt, gdt_ptr,   \* the kernel's GDT, and which one the CPU uses
  idt, idt_ptr,   \* the gates that are filled in, and whether the CPU uses them
  m8259, s8259,   \* the two interrupt controllers
  irq_table,
  timer,          \* the bytes written to the 8254
  tss, tr,
  proc,           \* the table of processes; free: the entry holds none
  fault,          \* history: what the CPU pushed for the exception that happened
  screen          \* the lines of the screen exception_handler wrote to

tables == <<gdt, gdt_ptr, idt, idt_ptr, tss, tr>>
devices == <<m8259, s8259, irq_table, timer>>
vars == <<pc, tables, devices, proc, fault, screen>>

Nothing == "nothing"

----------------------------------------------------------------------------
(* Descriptors.                                                            *)

Descriptor == [limit_low : 0..65535, base_low : 0..65535, base_mid : 0..255,
               attr1 : 0..255, limit_high_attr2 : 0..255, base_high : 0..255]

NullDescriptor == [limit_low |-> 0, base_low |-> 0, base_mid |-> 0,
                   attr1 |-> 0, limit_high_attr2 |-> 0, base_high |-> 0]

\* Variant: the base is cut off after 24 bits.
init_descriptor_24(base, limit, attr) ==
  [limit_low |-> limit % 65536, base_low |-> base % 65536, base_mid |-> (base \div 65536) % 16,
   attr1 |-> attr % 256, limit_high_attr2 |-> ((attr \div 256) \div 16) * 16,
   base_high |-> (base \div 16777216) % 256]

\* The bits of the limit above 16 are shifted away: (limit << 16) & 0x0f is 0.
init_descriptor(base, limit, attr) ==
  [limit_low |-> limit % 65536, base_low |-> base % 65536, base_mid |-> (base \div 65536) % 256,
   attr1 |-> attr % 256, limit_high_attr2 |-> ((attr \div 256) \div 16) * 16,
   base_high |-> (base \div 16777216) % 256]

\* reassembly, seg2base and ldt_seg_linear put a base together again.
BaseOf(d) == d.base_high * 16777216 + d.base_mid * 65536 + d.base_low
LimitOf(d) == (d.limit_high_attr2 % 16) * 65536 + d.limit_low

\* The GDT the loader leaves: its macro keeps all 20 bits of a limit.
LoaderDescriptor(base, limit, attr) ==
  [init_descriptor(base, limit, attr) EXCEPT
     !.limit_high_attr2 = @ + ((limit \div 65536) % 16)]

LoaderGdt ==
  LET flat_c == LoaderDescriptor(0, 1048575, DA_CR + DA_32 + DA_LIMIT_4K)
      flat_rw == LoaderDescriptor(0, 1048575, DA_DRW + DA_32 + DA_LIMIT_4K)
  IN  <<NullDescriptor, flat_c, flat_rw, LoaderDescriptor(753664, 65535, DA_DRW + 96),
        flat_c, flat_rw, LoaderDescriptor(0, 65535, DA_DRW), LoaderDescriptor(0, 65535, DA_C)>>

----------------------------------------------------------------------------
(* The 8259As and the 8254, as far as the code uses them: ICW1 announces   *)
(* three more bytes, the vectors, the cascade and ICW4; what comes after   *)
(* them is the mask.                                                       *)

Written(chip, b) ==
  CASE chip.expects = "icw2" -> [chip EXCEPT !.vector = b, !.expects = "icw3"]
    [] chip.expects = "icw3" -> [chip EXCEPT !.cascade = b, !.expects = "icw4"]
    [] chip.expects = "icw4" -> [chip EXCEPT !.expects = "ocw1"]
    [] OTHER -> [chip EXCEPT !.mask = {n \in 0..7 : (b \div (2^n)) % 2 = 1}]

Restarted(chip) == [chip EXCEPT !.expects = "icw2", !.mask = {}]

\* The BIOS leaves the master at vector 8, on top of the exceptions.
BiosMaster == [vector |-> 8, cascade |-> 4, expects |-> "ocw1", mask |-> {}]
BiosSlave == [vector |-> 112, cascade |-> 2, expects |-> "ocw1", mask |-> 0..7]

\* The handler of a line is replaced while the line is masked.
put_irq_handler_then_enable(irq, handler) ==
  /\ irq_table' = [irq_table EXCEPT ![irq] = handler]
  /\ m8259' = [m8259 EXCEPT !.mask = @ \ {irq}]
  /\ UNCHANGED <<s8259, timer>>

----------------------------------------------------------------------------
(* The start-up, in the order of _start, init[] and kernel_main.           *)

Init ==
  /\ pc = "protected_mode"
  /\ gdt = [i \in 0..(GDT_SIZE - 1) |-> NullDescriptor] /\ gdt_ptr = "loader"
  /\ idt = << >> /\ idt_ptr = "bios"
  /\ m8259 = BiosMaster /\ s8259 = BiosSlave
  /\ irq_table = [n \in 0..15 |-> Nothing]
  /\ timer = << >>
  /\ tss = [ss0 |-> 0, iobase |-> 0] /\ tr = 0
  /\ proc = [i \in Pid |-> [free |-> TRUE, ldt_sel |-> 0]]
  /\ fault = Nothing /\ screen = << >>

init_protected_mode_by_c ==
  /\ pc = "protected_mode" /\ pc' = "8259a"
  /\ gdt' = [i \in 0..(GDT_SIZE - 1) |->
               IF i < Len(LoaderGdt) THEN LoaderGdt[i + 1] ELSE gdt[i]]
  /\ gdt_ptr' = "kernel"
  /\ UNCHANGED <<idt, idt_ptr, tss, tr, devices, proc, fault, screen>>

\* Variant: the slave gets the vectors of the master.
Icw2Slave_Same == 32
Icw2Slave == 40

\* ICW1, the vectors, the cascade, ICW4 and a mask of all lines.
Programmed(chip, icw2, icw3) ==
  Written(Written(Written(Written(Restarted(chip), icw2), icw3), 1), 255)

init_8259a ==
  /\ pc = "8259a" /\ pc' = "idt"
  /\ m8259' = Programmed(m8259, 32, 4)
  /\ s8259' = Programmed(s8259, Icw2Slave, 2)
  /\ irq_table' = [n \in 0..15 |-> "spurious_irq"]
  /\ UNCHANGED <<timer, tables, proc, fault, screen>>

\* A gate: the handler it leads to, and its attributes.
init_idt_desc_by_c(handler, privilege) ==
  [handler |-> handler, selector |-> SELECTOR_KERNEL_CS, attr |-> DA_386IGate + privilege * 32]

Exceptions == (0..14) \cup {16}

init_idt_by_c ==
  /\ pc = "idt" /\ pc' = "tss"
  /\ idt' = [v \in Exceptions \cup 32..47 \cup {144} |->
               IF v \in Exceptions THEN init_idt_desc_by_c(<<"exception", v>>, 0)
               ELSE IF v = 144 THEN init_idt_desc_by_c(<<"sys_call">>, 3)
               ELSE init_idt_desc_by_c(<<"hwint", v - 32>>, 0)]
  /\ idt_ptr' = "kernel"
  /\ UNCHANGED <<gdt, gdt_ptr, tss, tr, devices, proc, fault, screen>>

init_tss ==
  /\ pc = "tss" /\ pc' = "timer"
  /\ tss' = [ss0 |-> SELECTOR_KERNEL_DS, iobase |-> 104]
  /\ LET base == BaseOf(gdt[SELECTOR_KERNEL_DS \div 8])
     IN  gdt' = [i \in DOMAIN gdt |->
                   IF i = INDEX_TSS THEN init_descriptor(base + tss_addr, 103, DA_386TSS)
                   ELSE IF i - INDEX_LDT_FIRST \in Pid
                     THEN init_descriptor(base + ldt_addr(i - INDEX_LDT_FIRST), 15, DA_LDT)
                     ELSE gdt[i]]
  /\ UNCHANGED <<gdt_ptr, idt, idt_ptr, tr, devices, proc, fault, screen>>

\* The rate is cast to a byte before its high byte is taken.
init_timer ==
  /\ pc = "timer" /\ pc' = "keyboard"
  /\ LET rate == 1193182 \div 100
     IN  timer' = <<rate % 256, (rate % 256) \div 256>>
  /\ UNCHANGED <<m8259, s8259, irq_table, tables, proc, fault, screen>>

\* The ramdisk, the file system and the memory manager are set up around it.
init_keyboard ==
  /\ pc = "keyboard" /\ pc' = "ltr"
  /\ put_irq_handler_then_enable(1, "keyboard_handler")
  /\ UNCHANGED <<tables, proc, fault, screen>>

ltr ==
  /\ pc = "ltr" /\ pc' = "clock"
  /\ tr' = INDEX_TSS * 8
  /\ UNCHANGED <<gdt, gdt_ptr, idt, idt_ptr, tss, devices, proc, fault, screen>>

EnableClock ==
  /\ pc = "clock" /\ pc' = "proc"
  /\ put_irq_handler_then_enable(0, "clock_handler")
  /\ UNCHANGED <<tables, proc, fault, screen>>

----------------------------------------------------------------------------
(* Processes.                                                              *)

INIT == NR_TASKS
NO_TASK == NR_TASKS + NR_PROCS + 20

\* INIT may use the first 6 MB; the others get the kernel's segments with another DPL.
Segments(i, privilege) ==
  IF i = INIT
    THEN <<init_descriptor(0, 1536, DA_32 + DA_LIMIT_4K + DA_C + privilege * 32),
           init_descriptor(0, 1536, DA_32 + DA_LIMIT_4K + DA_DRW + privilege * 32)>>
    ELSE <<[gdt[SELECTOR_KERNEL_CS \div 8] EXCEPT !.attr1 = DA_C + privilege * 32],
           [gdt[SELECTOR_KERNEL_DS \div 8] EXCEPT !.attr1 = DA_DRW + privilege * 32]>>

\* Variant: every native process gets the selectors of a task.
Rpl_Task(i) == 1
Rpl(i) == IF i < NR_TASKS THEN 1 ELSE 3

\* An entry that fork may take has its selector already.
NewProcess(i) ==
  LET privilege == IF i < NR_TASKS THEN 1 ELSE 3
      sel == (INDEX_LDT_FIRST + i) * 8
  IN  IF i >= NR_TASKS + NR_NATIVE_PROCS
        THEN [free |-> TRUE, ldt_sel |-> sel]
        ELSE [free |-> FALSE, ldt_sel |-> sel, ldt |-> Segments(i, privilege),
              cs |-> 0 + 4 + Rpl(i), ds |-> 8 + 4 + Rpl(i),
              gs |-> (SELECTOR_KERNEL_GS \div 8) * 8 + Rpl(i),
              esp |-> task_stack + TASK_STACK + (i + 1) * TASK_STACK,
              eflags |-> IF i < NR_TASKS THEN 4610 ELSE 514, p_parent |-> NO_TASK]

init_proc ==
  /\ pc = "proc" /\ pc' = "run"
  /\ proc' = [i \in Pid |-> NewProcess(i)]
  /\ UNCHANGED <<tables, devices, fault, screen>>

Live == {i \in Pid : ~ proc[i].free}
Forked == {i \in Live : i >= NR_TASKS + NR_NATIVE_PROCS}

\* Variant: the child keeps the parent's copy of the selector.
ForkSelector_Parent(pid, child) == proc[pid].ldt_sel
ForkSelector(pid, child) == proc[child].ldt_sel

child_base == 10485760     \* 0xa00000

\* do_fork: the child is the parent with its own selector and its own segments.
Fork(pid) ==
  LET child == CHOOSE i \in Pid : proc[i].free /\ \A k \in Pid : proc[k].free => i <= k
      attr == DA_LIMIT_4K + DA_32 + 96
  IN  /\ pc = "run" /\ proc[pid].free = FALSE /\ pid >= NR_TASKS
      /\ Cardinality(Forked) < MaxForks
      /\ \E i \in Pid : proc[i].free
      /\ proc' = [proc EXCEPT ![child] =
           [proc[pid] EXCEPT !.ldt_sel = ForkSelector(pid, child), !.p_parent = pid,
              !.ldt = <<init_descriptor(child_base, 1023, attr + DA_C),
                        init_descriptor(child_base, 1023, attr + DA_DRW)>>]]
      /\ UNCHANGED <<pc, tables, devices, fault, screen>>

----------------------------------------------------------------------------
(* Exceptions.                                                             *)

NoErrCode == -1     \* 0xffffffff

\* External: the exceptions for which the CPU pushes an error code.
PushesError == {8, 10, 11, 12, 13, 14, 17}

\* What the CPU pushes, the top first.
Frame(v, err, eip, cs, eflags) ==
  (IF v \in PushesError THEN <<err>> ELSE << >>) \o <<eip, cs, eflags>>

\* Variant: the stub of the page fault pushes an error code of its own, too.
Stub_PageFault(v, frame) ==
  <<v>> \o (IF v \in {8, 10, 11, 12, 13} THEN << >> ELSE <<NoErrCode>>) \o frame

\* The stub of vector v: the exceptions without an error code get one.
Stub(v, frame) ==
  <<v>> \o (IF v \in {8, 10, 11, 12, 13, 14} THEN << >> ELSE <<NoErrCode>>) \o frame

\* Lines that are not written keep what was on the screen.
exception_handler(vec_no, err_code, eip, cs, eflags) ==
  [n \in {0, 1, 2, 3, 4, 5, 23, 24} \cup (IF err_code # NoErrCode THEN {6, 7} ELSE {}) |->
     CASE n = 0 -> "eflags"             [] n = 1 -> eflags
       [] n = 2 -> "cs"                 [] n = 3 -> cs
       [] n = 4 -> "eip"                [] n = 5 -> eip
       [] n = 6 -> "err_code"           [] n = 7 -> err_code
       [] n = 23 -> <<"err_msg", vec_no>> [] n = 24 -> "exception_handler"]

\* A vector without a gate, or one that user code may not call, is a protection fault.
Delivered(v, soft, cpl, err) ==
  IF v \in DOMAIN idt /\ (soft => cpl <= (idt[v].attr \div 32) % 4)
    THEN [vec |-> v, err |-> err]
    ELSE [vec |-> 13, err |-> v * 8 + 2 + (IF soft THEN 0 ELSE 1)]

\* The descriptor of a selector of process p: its LDT has two of them.
Selected(p, s) == IF (s \div 4) % 2 = 1 THEN p.ldt[(s \div 8) + 1] ELSE gdt[s \div 8]

\* The base of ds when an exception happens: the stubs do not load it as save does,
\* so it is that of the process.
DsBase(i) == IF pc = "run" THEN BaseOf(Selected(proc[i], proc[i].ds)) ELSE 0

\* What exception_handler stores from 0xb8000 on is in the video memory if ds starts at 0.
\* Before the kernel has an IDT an exception resets the machine.
Exception(v, soft, err, eip, i) ==
  LET cs == IF pc = "run" THEN proc[i].cs ELSE SELECTOR_KERNEL_CS
      eflags == IF pc = "run" THEN proc[i].eflags ELSE 2
      d == Delivered(v, soft, cs % 4, err)
      args == Stub(d.vec, Frame(d.vec, d.err, eip, cs, eflags))
  IN  /\ pc \notin {"halted", "reset"}
      /\ IF pc = "run" THEN i \in Live ELSE i = 0 /\ ~ soft
      /\ IF idt_ptr = "kernel"
           THEN /\ pc' = "halted"
                /\ fault' = [vec |-> d.vec, err |-> d.err, eip |-> eip, cs |-> cs, eflags |-> eflags,
                             forked |-> pc = "run" /\ i \in Forked]
                /\ screen' = IF DsBase(i) = 0
                              THEN exception_handler(args[1], args[2], args[3], args[4], args[5])
                              ELSE screen
           ELSE pc' = "reset" /\ UNCHANGED <<fault, screen>>
      /\ UNCHANGED <<tables, devices, proc>>

\* 15 is reserved; user code may try any vector with int, and 0x90 is the system call.
CpuException == (0..19) \ {15}
SoftVector == {0, 3, 13, 33, 128}

Next ==
  \/ init_protected_mode_by_c \/ init_8259a \/ init_idt_by_c \/ init_tss \/ init_timer
  \/ init_keyboard \/ ltr \/ EnableClock \/ init_proc
  \/ \E pid \in Pid : Fork(pid)
  \/ \E err \in ErrCode, eip \in Eip, i \in Pid :
       \/ \E v \in CpuException : Exception(v, FALSE, err, eip, i)
       \/ \E v \in SoftVector : Exception(v, TRUE, err, eip, i)

Spec == Init /\ [][Next]_vars

----------------------------------------------------------------------------
(* How the CPU reads the tables.                                           *)

Present(d) == d.attr1 \div 128 = 1
Dpl(d) == (d.attr1 \div 32) % 4
IsCode(d) == (d.attr1 \div 8) % 4 = 3
IsWritable(d) == (d.attr1 \div 8) % 4 = 2 /\ (d.attr1 \div 2) % 2 = 1

\* The LDT that selector s makes the CPU use is the one of entry i.
IsLdtOf(s, i) ==
  /\ s \div 8 < GDT_SIZE
  /\ LET d == gdt[s \div 8]
     IN  Present(d) /\ d.attr1 % 32 = 2 /\ BaseOf(d) = ldt_addr(i) /\ LimitOf(d) = 15

----------------------------------------------------------------------------
(* Properties.                                                             *)

(***************************************************************************)
(* What restart loads for a process is valid: its LDT is its own, cs is    *)
(* code and ss writable data of the privilege it runs at, ds and gs may be *)
(* used at that privilege; an interrupt finds a TSS with the kernel's      *)
(* stack segment.  And what the kernel asserts of the segments holds:      *)
(* native processes have linear addresses (va2la), and the code and the    *)
(* data of a process are the same memory (do_fork).                        *)
(***************************************************************************)
SegmentsLoad ==
  \A i \in Live :
    LET p == proc[i]
        cpl == p.cs % 4
        code == Selected(p, p.cs)
        data == Selected(p, p.ds)
        video == Selected(p, p.gs)
    IN  /\ IsLdtOf(p.ldt_sel, i)
        /\ Present(code) /\ IsCode(code) /\ Dpl(code) = cpl
        /\ Present(data) /\ IsWritable(data) /\ Dpl(data) = cpl /\ p.ds % 4 = cpl
        /\ Present(video) /\ IsWritable(video) /\ Dpl(video) >= cpl
        /\ BaseOf(code) = BaseOf(data) /\ LimitOf(code) = LimitOf(data)
        /\ i < NR_TASKS + NR_NATIVE_PROCS => BaseOf(data) = 0
        /\ LET t == gdt[tr \div 8]
           IN  tr # 0 /\ Present(t) /\ BaseOf(t) = tss_addr /\ tss.ss0 = SELECTOR_KERNEL_DS
        /\ IsWritable(gdt[tss.ss0 \div 8]) /\ Dpl(gdt[tss.ss0 \div 8]) = 0

(***************************************************************************)
(* The screen of exception_handler shows the exception of the start-up and *)
(* of every process init_proc made: its name, where it happened, and an    *)
(* error code if and only if the CPU pushed one.  So the stubs and the CPU *)
(* agree, vector by vector.  Of the exception of a forked process nothing  *)
(* is shown: its ds does not start at 0.                                   *)
(***************************************************************************)
PanicShowsFault ==
  pc = "halted" =>
    IF ~ fault.forked
      THEN /\ screen[23] = <<"err_msg", fault.vec>>
           /\ screen[5] = fault.eip /\ screen[3] = fault.cs /\ screen[1] = fault.eflags
           /\ 7 \in DOMAIN screen <=> fault.vec \in PushesError
           /\ 7 \in DOMAIN screen => screen[7] = fault.err
      ELSE screen = << >>

(***************************************************************************)
(* A line that is not masked interrupts through a gate of its own that is  *)
(* no exception's and leads to a handler that was put there for it; no two *)
(* lines share a vector.  Until the kernel has masked them, the lines have *)
(* the vectors of the BIOS: interrupts are off until then.                 *)
(***************************************************************************)
VectorOf(n) == IF n < 8 THEN m8259.vector + n ELSE s8259.vector + (n - 8)
Unmasked == {n \in 0..15 : IF n < 8 THEN n \notin m8259.mask ELSE (n - 8) \notin s8259.mask}

LinesServed ==
  idt_ptr = "kernel" =>
    /\ \A n, k \in 0..15 : VectorOf(n) = VectorOf(k) => n = k
    /\ \A n \in 0..15 : idt[VectorOf(n)].handler = <<"hwint", n>>
    /\ \A n \in Unmasked : irq_table[n] # "spurious_irq"

\* The 8254 divides its clock so that there are HZ (100) ticks in a second.
TimerRate == timer # << >> => timer[1] + 256 * timer[2] = 1193182 \div 100

\* The stack of every native process lies in task_stack, which has room for one each.
StacksInside ==
  \A i \in Live :
    task_stack <= proc[i].esp - TASK_STACK /\ proc[i].esp <= task_stack + STACK_SIZE_TOTAL
=============================================================================
