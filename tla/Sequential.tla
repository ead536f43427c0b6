----------------------------- MODULE Sequential -----------------------------
(***************************************************************************)
(* The sequential code of the system: genromfs, the boot sector, the       *)
(* loader, the copying of the kernel, the start-up, execl with the files   *)
(* and blocks it uses, formatted output and delays.  These parts share no  *)
(* variable, so that none can disturb another: a behaviour is one of them, *)
(* from any of its initial states, while the others stay in one of theirs  *)
(* (the start-up, whose tables are large, in a state with all of them 0).  *)
(***************************************************************************)
EXTENDS Files

CONSTANTS
  Floppy, JunkSize, b_MaxFails,                                 \* BootFat
  Disk, JunkBpb, JunkCluster, l_MaxFails, MaxLoaded,            \* Loader
  Image, Size, MemSize, e_buff, seg_base,                       \* Elf
  GDT_SIZE, NR_TASKS, NR_PROCS, NR_NATIVE_PROCS, tss_addr, proc_table, sizeof_Process,
  ldt_offset, task_stack, Eip, ErrCode, MaxForks,               \* Startup
  Host, Options,                                                \* Genromfs
  Call, BUF, V_MEM_SIZE,                                        \* Format
  Width, Second, HZ, Delay, Start, Lag                          \* Ticks

VARIABLES
  part,
  b_floppy, b_DOS_COM, b_pc, b_buff, b_root_dir_secotrs, b_i, b_read_sec, b_failed,
  l_disk, l_pc, l_bpb, l_buff, l_i, l_file_size, l_first, l_cur, l_fat_buffer, l_read_data, l_mem,
  l_fails, l_stale, l_bad,
  e_file, e_mem, e_i, e_entry, e_pc,
  s_pc, s_gdt, s_gdt_ptr, s_idt, s_idt_ptr, s_m8259, s_s8259, s_irq_table, s_timer, s_tss, s_tr,
  s_proc, s_fault, s_screen,
  g_host, g_options, g_pc, g_nodes, g_stack, g_curroffset, g_todo, g_atoffs, g_file, g_image, g_ignored,
  o_call, o_fn, o_fmt, o_args, o_i, o_arg, o_p, o_printed, o_v, o_pc,
  d_ticks, d_t, d_t2, d_milli_sec, d_pc, d_elapsed, d_lag

----------------------------------------------------------------------------
(* The parts; constants that are not renamed keep their names.             *)

B == INSTANCE BootFat WITH
       MaxFails <- b_MaxFails,
       floppy <- b_floppy, DOS_COM <- b_DOS_COM, pc <- b_pc, buff <- b_buff,
       root_dir_secotrs <- b_root_dir_secotrs, i <- b_i, read_sec <- b_read_sec, failed <- b_failed

L == INSTANCE Loader WITH
       MaxFails <- l_MaxFails,
       disk <- l_disk, pc <- l_pc, bpb <- l_bpb, buff <- l_buff, i <- l_i, file_size <- l_file_size,
       first <- l_first, cur <- l_cur, fat_buffer <- l_fat_buffer, read_data <- l_read_data, mem <- l_mem,
       fails <- l_fails, stale <- l_stale, bad <- l_bad

E == INSTANCE Elf WITH
       buff <- e_buff, file <- e_file, mem <- e_mem, i <- e_i, entry <- e_entry, pc <- e_pc

S == INSTANCE Startup WITH
       pc <- s_pc, gdt <- s_gdt, gdt_ptr <- s_gdt_ptr, idt <- s_idt, idt_ptr <- s_idt_ptr,
       m8259 <- s_m8259, s8259 <- s_s8259, irq_table <- s_irq_table, timer <- s_timer,
       tss <- s_tss, tr <- s_tr, proc <- s_proc, fault <- s_fault, screen <- s_screen

G == INSTANCE Genromfs WITH
       host <- g_host, options <- g_options, pc <- g_pc, nodes <- g_nodes, stack <- g_stack,
       curroffset <- g_curroffset, todo <- g_todo, atoffs <- g_atoffs, file <- g_file, image <- g_image,
       ignored <- g_ignored

O == INSTANCE Format WITH
       call <- o_call, fn <- o_fn, fmt <- o_fmt, args <- o_args, i <- o_i, arg <- o_arg, p <- o_p,
       printed <- o_printed, v <- o_v, pc <- o_pc

D == INSTANCE Ticks WITH
       ticks <- d_ticks, t <- d_t, t2 <- d_t2, milli_sec <- d_milli_sec, pc <- d_pc,
       elapsed <- d_elapsed, lag <- d_lag

----------------------------------------------------------------------------
ASSUME InstancesAssumption ==
  /\ B!FloppyAssumption /\ L!LoaderAssumption /\ E!ElfAssumption /\ S!StartupAssumption
  /\ G!HostAssumption /\ O!FormatAssumption /\ D!TicksAssumption

bvars == <<b_floppy, b_DOS_COM, b_pc, b_buff, b_root_dir_secotrs, b_i, b_read_sec, b_failed>>
lvars == <<l_disk, l_pc, l_bpb, l_buff, l_i, l_file_size, l_first, l_cur, l_fat_buffer, l_read_data, l_mem,
           l_fails, l_stale, l_bad>>
evars == <<e_file, e_mem, e_i, e_entry, e_pc>>
svars == <<s_pc, s_gdt, s_gdt_ptr, s_idt, s_idt_ptr, s_m8259, s_s8259, s_irq_table, s_timer, s_tss, s_tr,
           s_proc, s_fault, s_screen>>
gvars == <<g_host, g_options, g_pc, g_nodes, g_stack, g_curroffset, g_todo, g_atoffs, g_file, g_image,
           g_ignored>>
ovars == <<o_call, o_fn, o_fmt, o_args, o_i, o_arg, o_p, o_printed, o_v, o_pc>>
dvars == <<d_ticks, d_t, d_t2, d_milli_sec, d_pc, d_elapsed, d_lag>>

\* What a part that does not run begins with.
SomeFloppy == CHOOSE x \in Floppy : TRUE
SomeDisk == CHOOSE x \in Disk : TRUE
SomeImage == CHOOSE x \in Image : TRUE
SomeHost == CHOOSE x \in Host : TRUE
SomeOptions == CHOOSE x \in Options : TRUE
SomeRom == CHOOSE x \in Rom : TRUE
SomeRam == CHOOSE x \in Ram : TRUE
SomeLowWord == CHOOSE x \in LowWord : TRUE
SomeCall == CHOOSE x \in Call : TRUE
SomeStart == CHOOSE x \in Start : TRUE
SomeDelay == CHOOSE x \in Delay : TRUE

SequentialInit ==
  /\ part \in {"boot sector", "loader", "copy", "start-up", "genromfs", "files", "output", "delay"}
  /\ IF part = "boot sector" THEN B!Init ELSE b_floppy = SomeFloppy /\ b_DOS_COM = FALSE /\ B!Init
  /\ IF part = "loader" THEN L!Init ELSE l_disk = SomeDisk /\ L!Init
  /\ IF part = "copy" THEN E!Init ELSE e_file = SomeImage /\ E!Init
  /\ IF part = "start-up" THEN S!Init
     ELSE /\ s_pc = 0 /\ s_gdt = 0 /\ s_gdt_ptr = 0 /\ s_idt = 0 /\ s_idt_ptr = 0 /\ s_m8259 = 0
          /\ s_s8259 = 0 /\ s_irq_table = 0 /\ s_timer = 0 /\ s_tss = 0 /\ s_tr = 0
          /\ s_proc = 0 /\ s_fault = 0 /\ s_screen = 0
  /\ IF part = "genromfs" THEN G!Init ELSE g_host = SomeHost /\ g_options = SomeOptions /\ G!Init
  /\ IF part = "files" THEN Init ELSE rom = SomeRom /\ ram = SomeRam /\ low_word = SomeLowWord /\ Init
  /\ IF part = "output" THEN O!Init ELSE o_call = SomeCall /\ O!Init
  /\ IF part = "delay" THEN D!Init ELSE d_ticks = SomeStart /\ d_milli_sec = SomeDelay /\ D!Init

\* A step of part x: the others stay as they are.
Still(x) ==
  /\ part = x /\ part' = part
  /\ IF x = "boot sector" THEN TRUE ELSE UNCHANGED bvars
  /\ IF x = "loader" THEN TRUE ELSE UNCHANGED lvars
  /\ IF x = "copy" THEN TRUE ELSE UNCHANGED evars
  /\ IF x = "start-up" THEN TRUE ELSE UNCHANGED svars
  /\ IF x = "genromfs" THEN TRUE ELSE UNCHANGED gvars
  /\ IF x = "files" THEN TRUE ELSE UNCHANGED vars
  /\ IF x = "output" THEN TRUE ELSE UNCHANGED ovars
  /\ IF x = "delay" THEN TRUE ELSE UNCHANGED dvars

SequentialNext ==
  \/ Still("boot sector") /\ B!Next
  \/ Still("loader") /\ L!Next
  \/ Still("copy") /\ E!Next
  \/ Still("start-up") /\ S!Next
  \/ Still("genromfs") /\ G!Next
  \/ Still("files") /\ Next
  \/ Still("output") /\ O!Next
  \/ Still("delay") /\ D!Next

allvars == <<part, bvars, lvars, evars, svars, gvars, vars, ovars, dvars>>

\* The fairness of Loader, Files and Ticks.
SequentialSpec ==
  /\ SequentialInit /\ [][SequentialNext]_allvars
  /\ WF_lvars(part = "loader" /\ L!Next)
  /\ WF_vars(romfs_namei) /\ WF_vars(ReadFile) /\ WF_vars(CopySegments)
  /\ WF_dvars(part = "delay" /\ D!Tick)
  /\ WF_dvars(part = "delay" /\ (D!ReadStart \/ D!Read \/ D!Compare))

----------------------------------------------------------------------------
(* Properties of the instances; those of Files keep their names.           *)

\* What the boot sector jumps to is the first sector of LOADER.BIN (BootFat).
JumpsToLoader == B!JumpsToLoader

\* Once the loader is done, memory holds the kernel's clusters in the order of its chain (Loader).
KernelLoaded == L!KernelLoaded

\* The loader gets to the end of the kernel's chain unless a failed read spoils its way (Loader).
LoadEnds == part = "loader" => L!LoadEnds

\* copy_elf_code jumps to the entry point, with every segment where it is linked for (Elf).
KernelPlaced == E!KernelPlaced

\* What restart loads for a process is valid to the processor (Startup).
SegmentsLoad == part = "start-up" => S!SegmentsLoad

\* The screen of exception_handler shows the exception that happened (Startup).
PanicShowsFault == part = "start-up" => S!PanicShowsFault

\* An open interrupt line has a gate and a handler of its own (Startup).
LinesServed == part = "start-up" => S!LinesServed

\* init_timer makes the 8254 interrupt HZ times in a second (Startup).
TimerRate == part = "start-up" => S!TimerRate

\* The stack of every native process lies in task_stack (Startup).
StacksInside == part = "start-up" => S!StacksInside

\* Both passes of genromfs put each node at the same offset (Genromfs).
PassesAgree == G!PassesAgree

\* A reader finds the host's tree in the image of genromfs, each file once (Genromfs).
TreeReadBack == G!TreeReadBack

\* The image is aligned as the options say, and laid out as Files assumes (Genromfs).
LaidOutForKernel == G!LaidOutForKernel

\* What printf, panic and the assertions print is what the format says (Format).
FormatsMessage == O!FormatsMessage

\* A number reads back from what is printed of it (Format).
NumbersReadBack == O!NumbersReadBack

\* A signed number reads back from what is printed of it (Format).
SignedReadsBack == O!SignedReadsBack

\* milli_delay does not return before its time is over (Ticks).
NeverEarly == D!NeverEarly

\* milli_delay returns (Ticks).
DelayEnds == part = "delay" => D!DelayEnds
=============================================================================
