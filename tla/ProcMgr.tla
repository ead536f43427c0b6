------------------------------- MODULE ProcMgr -------------------------------
(***************************************************************************)
(* Process management over Ipc: the memory manager task_mm with do_fork,   *)
(* do_exit, do_wait, do_execl and cleanup (systask.c, mm/mm.c), the system *)
(* task task_sys, and the library calls fork, exit, wait, execl and        *)
(* get_ticks that processes make of them (syscall.c).                      *)
(*                                                                         *)
(* The tasks are processes like the others: the clock may preempt them     *)
(* between any two steps.  mm_pc is where TASK_MM is in its code.  NoTick  *)
(* names the steps a run keeps free of a tick just before them: the steps  *)
(* that complete a copy or a read-modify-write of proc_table.              *)
(***************************************************************************)
EXTENDS Ipc, FiniteSetsExt

CONSTANTS
  Calls,     \* the library calls that processes make
  Status,    \* the arguments of exit()
  Junk,      \* what an uninitialised word of a message may hold
  TICKS,     \* what the tick counter holds
  NoTick

TASK_SYS == 1
TASK_MM == 2
INIT == 3
User == INIT..(NR-1)

CallType == {"FORK", "EXIT", "WAIT", "EXEC", "GET_TICKS"}
Window == {"copy_flags", "copy_rest", "hang", "mark"}

ASSUME ProcMgrAssumption ==
  /\ NR_LIVE > INIT
  /\ Calls \subseteq CallType
  /\ NoTick \subseteq Window
  /\ Junk # {} /\ Status # {}

FORK_BASE == 1            \* 0xa00000, the base of every forked process

VARIABLES
  calling,       \* the library call each process is in, or "none"
  p_parent,
  exit_status,
  base,          \* the base of ldt[LDT_CODE] and ldt[LDT_DATA]
  mm_pc,
  mm_msg,        \* the global mm_msg
  mm_p,          \* the Process pointer p of do_fork, proc of cleanup
  mm_reg,        \* the register of a read-modify-write of p_flags, {} outside it
  sys_pc,
  exits          \* history: the exits that wait() has still to report

procvars == <<calling, p_parent, exit_status, base>>
mmvars == <<mm_pc, mm_msg, mm_p, mm_reg>>
allvars == <<vars, procvars, mmvars, sys_pc, exits>>

Word == Status \cup Junk \cup Proc \cup {0, -1, TICKS, NO_TASK}
MsgBody == [type : CallType \cup {"NONE", "SYSCALL_RET"}, val : Word, pid : Word]

-----------------------------------------------------------------------------
(* The library calls                                                        *)

\* The message a call sends; val is RETVAL or STATUS, pid is PID.
Request(t) ==
  CASE t = "EXIT"      -> [type : {t}, val : Status, pid : Junk]
    [] t = "GET_TICKS" -> [type : {t}, val : {0}, pid : {0}]
    [] OTHER           -> [type : {t}, val : Junk, pid : Junk]

\* fork, exit, wait, execl, get_ticks up to the SEND of send_recv(BOTH).  The
\* processes init_proc made have no parent to exit to, and never exit.  No call
\* sends another type, so the tasks never get to their panic at a default case.
LibCall(p, t) ==
  /\ calling[p] = "none"
  /\ t = "EXIT" => p_parent[p] # NO_TASK
  /\ \E b \in Request(t) : SendBoth(p, IF t = "GET_TICKS" THEN TASK_SYS ELSE TASK_MM, b)
  /\ calling' = [calling EXCEPT ![p] = t]
  /\ UNCHANGED <<p_parent, exit_status, base, mmvars, sys_pc, exits>>

\* The RECEIVE of send_recv(BOTH).
LibReceive(p) ==
  /\ calling[p] # "none"
  /\ ReceiveBoth(p)
  /\ UNCHANGED <<procvars, mmvars, sys_pc, exits>>

\* The message with which the RECEIVE of a call comes back.
Answer(p) == buf[p].body

\* The call returns.  A return of wait() that names a child reports its exit.
LibReturn(p) ==
  /\ Running(p)
  /\ calling[p] # "none" /\ both[p] = Nil
  /\ calling' = [calling EXCEPT ![p] = "none"]
  /\ exits' = IF calling[p] = "WAIT"
                THEN {e \in exits : e.parent # p \/ e.pid # Answer(p).pid} ELSE exits
  /\ UNCHANGED <<vars, p_parent, exit_status, base, mmvars, sys_pc>>

-----------------------------------------------------------------------------
(* task_sys                                                                 *)

SysReceive ==
  /\ sys_pc = "recv"
  /\ Receive(TASK_SYS, ANY)
  /\ sys_pc' = "got"
  /\ UNCHANGED <<procvars, mmvars, exits>>

SysReply ==
  /\ sys_pc = "got"
  /\ Send(TASK_SYS, buf[TASK_SYS].source, [buf[TASK_SYS].body EXCEPT !.val = TICKS])
  /\ sys_pc' = "recv"
  /\ UNCHANGED <<procvars, mmvars, exits>>

-----------------------------------------------------------------------------
(* task_mm                                                                  *)

src == mm_msg.source

At(pc) == Running(TASK_MM) /\ mm_pc = pc

\* send_recv(SEND, d, m) of TASK_MM
MMSend(d, t, v, pid) == Send(TASK_MM, d, [type |-> t, val |-> v, pid |-> pid])

SetFlags(p, flags) == p_flags' = [p_flags EXCEPT ![p] = flags]

MMReceive ==
  /\ mm_pc = "recv"
  /\ Receive(TASK_MM, ANY)
  /\ mm_pc' = "dispatch"
  /\ UNCHANGED <<procvars, mm_msg, mm_p, mm_reg, sys_pc, exits>>

MMDispatch ==
  /\ At("dispatch")
  /\ mm_msg' = buf[TASK_MM]
  /\ mm_pc' = buf[TASK_MM].body.type
  /\ UNCHANGED <<vars, procvars, mm_p, mm_reg, sys_pc, exits>>

\* Variant: fork gets no reply.
MMReply_NoFork ==
  /\ At("reply")
  /\ mm_pc' = "recv"
  /\ UNCHANGED <<vars, procvars, mm_msg, mm_p, mm_reg, sys_pc, exits>>

\* The reply at the end of the loop of task_mm
MMReply ==
  /\ mm_pc = "reply"
  /\ MMSend(src, "SYSCALL_RET", mm_msg.body.val, mm_msg.body.pid)
  /\ mm_pc' = "recv"
  /\ UNCHANGED <<procvars, mm_msg, mm_p, mm_reg, sys_pc, exits>>

(* do_fork *)

FreeSlots == {p \in Proc : p_flags[p] = {"FREE_SLOT"}}

ForkScan ==
  /\ At("FORK")
  /\ IF FreeSlots = {}
     THEN /\ mm_msg' = [mm_msg EXCEPT !.body.val = -1]
          /\ mm_pc' = "reply"
          /\ UNCHANGED <<mm_p, halted>>
     ELSE /\ mm_p' = Min(FreeSlots)
          /\ mm_pc' = "copy_regs"
          /\ Outcome(mm_p' >= NR_LIVE, FALSE)
          /\ UNCHANGED mm_msg
  /\ UNCHANGED <<table, buf, both, ready_process, procvars, mm_reg, sys_pc, exits>>

\* *p = proc_table[pid], in the order of the fields of Process: the registers,
\* which hold where the process is in its call, and ldt ...
ForkCopyRegs ==
  /\ At("copy_regs")
  /\ calling' = [calling EXCEPT ![mm_p] = calling[src]]
  /\ both' = [both EXCEPT ![mm_p] = both[src]]
  /\ base' = [base EXCEPT ![mm_p] = base[src]]
  /\ mm_pc' = "copy_flags"
  /\ UNCHANGED <<table, buf, ready_process, halted, p_parent, exit_status,
                 mm_msg, mm_p, mm_reg, sys_pc, exits>>

\* ... p_flags ...
ForkCopyFlags ==
  /\ At("copy_flags")
  /\ SetFlags(mm_p, p_flags[src])
  /\ mm_pc' = "copy_rest"
  /\ UNCHANGED <<p_recvfrom, p_sendto, msg, q_sending, next_sending, buf, both,
                 ready_process, halted, procvars, mm_msg, mm_p, mm_reg, sys_pc, exits>>

\* Variant: p_sendto of the slot keeps what it held.
ForkCopyRest_NoSendto ==
  /\ At("copy_rest")
  /\ msg' = [msg EXCEPT ![mm_p] = msg[src]]
  /\ p_recvfrom' = [p_recvfrom EXCEPT ![mm_p] = p_recvfrom[src]]
  /\ q_sending' = [q_sending EXCEPT ![mm_p] = q_sending[src]]
  /\ next_sending' = [next_sending EXCEPT ![mm_p] = next_sending[src]]
  /\ mm_pc' = "adopt"
  /\ UNCHANGED <<p_flags, p_sendto, buf, both, ready_process, halted, procvars,
                 mm_msg, mm_p, mm_reg, sys_pc, exits>>

\* ... and msg, p_recvfrom, p_sendto, p_parent, the links and exit_status.
ForkCopyRest ==
  /\ At("copy_rest")
  /\ msg' = [msg EXCEPT ![mm_p] = msg[src]]
  /\ p_recvfrom' = [p_recvfrom EXCEPT ![mm_p] = p_recvfrom[src]]
  /\ p_sendto' = [p_sendto EXCEPT ![mm_p] = p_sendto[src]]
  /\ q_sending' = [q_sending EXCEPT ![mm_p] = q_sending[src]]
  /\ next_sending' = [next_sending EXCEPT ![mm_p] = next_sending[src]]
  /\ p_parent' = [p_parent EXCEPT ![mm_p] = p_parent[src]]
  /\ exit_status' = [exit_status EXCEPT ![mm_p] = exit_status[src]]
  /\ mm_pc' = "adopt"
  /\ UNCHANGED <<p_flags, buf, both, ready_process, halted, calling, base,
                 mm_msg, mm_p, mm_reg, sys_pc, exits>>

\* Variant: the child keeps the parent of its parent.
ForkAdopt_Sibling ==
  /\ At("adopt")
  /\ mm_pc' = "image"
  /\ UNCHANGED <<vars, procvars, mm_msg, mm_p, mm_reg, sys_pc, exits>>

ForkAdopt ==
  /\ At("adopt")
  /\ p_parent' = [p_parent EXCEPT ![mm_p] = src]
  /\ mm_pc' = "image"
  /\ UNCHANGED <<vars, calling, exit_status, base, mm_msg, mm_p, mm_reg, sys_pc, exits>>

\* The image of the caller is copied, its message with it, and the child gets
\* descriptors of its own.  It is one step because nobody changes what is copied:
\* the caller is blocked or on its way to RECEIVE, and so is a child that is
\* scheduled early, still in the memory of its parent, where both write the same.
\* All children get the same memory, so buf of a child is its own only while no
\* other child lives.
ForkImage ==
  /\ At("image")
  /\ buf' = [buf EXCEPT ![mm_p] = buf[src]]
  /\ base' = [base EXCEPT ![mm_p] = FORK_BASE]
  /\ mm_msg' = [mm_msg EXCEPT !.body.pid = mm_p]
  /\ mm_pc' = "invoke"
  /\ UNCHANGED <<table, both, ready_process, halted, calling, p_parent, exit_status,
                 mm_p, mm_reg, sys_pc, exits>>

\* Variant: the message that invokes the child goes to the caller.
ForkInvoke_Caller ==
  /\ mm_pc = "invoke"
  /\ MMSend(src, "SYSCALL_RET", 0, 0)
  /\ mm_msg' = [mm_msg EXCEPT !.body.val = 0]
  /\ mm_pc' = "reply"
  /\ UNCHANGED <<procvars, mm_p, mm_reg, sys_pc, exits>>

\* "invoke child process", and RETVAL for the reply
ForkInvoke ==
  /\ mm_pc = "invoke"
  /\ MMSend(mm_p, "SYSCALL_RET", 0, 0)
  /\ mm_msg' = [mm_msg EXCEPT !.body.val = 0]
  /\ mm_pc' = "reply"
  /\ UNCHANGED <<procvars, mm_p, mm_reg, sys_pc, exits>>

(* do_exit and cleanup *)

\* What wait() has to report of the process p that exits.
ExitOf(p) == [parent |-> p_parent[p], pid |-> p, status |-> mm_msg.body.val]

\* Variant: the status is not stored.
DoExit_NoStatus ==
  /\ At("EXIT")
  /\ "WAITING" \in p_flags[p_parent[src]]
  /\ SetFlags(p_parent[src], p_flags[p_parent[src]] \ {"WAITING"})
  /\ mm_p' = src
  /\ mm_pc' = "cleanup"
  /\ exits' = exits \cup {ExitOf(src)}
  /\ UNCHANGED <<p_recvfrom, p_sendto, msg, q_sending, next_sending, buf, both,
                 ready_process, halted, procvars, mm_msg, mm_reg, sys_pc>>

DoExit ==
  /\ At("EXIT")
  /\ exit_status' = [exit_status EXCEPT ![src] = mm_msg.body.val]
  /\ IF "WAITING" \in p_flags[p_parent[src]]
     THEN /\ SetFlags(p_parent[src], p_flags[p_parent[src]] \ {"WAITING"})
          /\ mm_p' = src
          /\ mm_pc' = "cleanup"
          /\ UNCHANGED mm_reg
     ELSE /\ mm_reg' = p_flags[p_parent[src]]
          /\ mm_pc' = "hang"
          /\ UNCHANGED <<p_flags, mm_p>>
  /\ exits' = exits \cup {ExitOf(src)}
  /\ UNCHANGED <<p_recvfrom, p_sendto, msg, q_sending, next_sending, buf, both,
                 ready_process, halted, calling, p_parent, base, mm_msg, sys_pc>>

\* proc_table[parent_pid].p_flags |= HANGING, the store
ExitHang ==
  /\ At("hang")
  /\ SetFlags(p_parent[src], mm_reg \cup {"HANGING"})
  /\ mm_reg' = {}
  /\ mm_pc' = "orphans"
  /\ UNCHANGED <<p_recvfrom, p_sendto, msg, q_sending, next_sending, buf, both,
                 ready_process, halted, procvars, mm_msg, mm_p, sys_pc, exits>>

CleanupSend ==
  /\ mm_pc = "cleanup"
  /\ MMSend(p_parent[mm_p], "SYSCALL_RET", exit_status[mm_p], mm_p)
  /\ mm_pc' = "free"
  /\ UNCHANGED <<procvars, mm_msg, mm_p, mm_reg, sys_pc, exits>>

CleanupFree ==
  /\ At("free")
  /\ SetFlags(mm_p, {"FREE_SLOT"})
  /\ mm_pc' = IF mm_msg.body.type = "EXIT" THEN "orphans" ELSE "recv"
  /\ UNCHANGED <<p_recvfrom, p_sendto, msg, q_sending, next_sending, buf, both,
                 ready_process, halted, procvars, mm_msg, mm_p, mm_reg, sys_pc, exits>>

\* The loop over the children of the process that exits.  It clears WAITING
\* of INIT when it cleans one up, so it cleans up one at most.
ExitOrphans ==
  LET orphans == {i \in Proc : p_parent[i] = src /\ "HANGING" \in p_flags[i]} IN
  /\ At("orphans")
  /\ IF "WAITING" \in p_flags[INIT] /\ orphans # {}
     THEN /\ SetFlags(INIT, p_flags[INIT] \ {"WAITING"})
          /\ mm_p' = Min(orphans)
          /\ mm_pc' = "cleanup"
     ELSE /\ mm_pc' = "recv"
          /\ UNCHANGED <<p_flags, mm_p>>
  /\ UNCHANGED <<p_recvfrom, p_sendto, msg, q_sending, next_sending, buf, both,
                 ready_process, halted, procvars, mm_msg, mm_reg, sys_pc, exits>>

(* do_wait *)


DoWait ==
  LET children == {i \in Proc : p_parent[i] = src}
      hanging == {i \in children : "HANGING" \in p_flags[i]}
  IN
  /\ At("WAIT")
  /\ mm_pc' = IF hanging # {} THEN "cleanup" ELSE IF children # {} THEN "mark" ELSE "no_child"
  /\ mm_p' = IF hanging # {} THEN Min(hanging) ELSE mm_p
  /\ mm_reg' = IF mm_pc' = "mark" THEN p_flags[src] ELSE {}
  /\ UNCHANGED <<vars, procvars, mm_msg, sys_pc, exits>>

\* proc_table[pid].p_flags |= WAITING, the store
WaitMark ==
  /\ At("mark")
  /\ SetFlags(src, mm_reg \cup {"WAITING"})
  /\ mm_reg' = {}
  /\ mm_pc' = "recv"
  /\ UNCHANGED <<p_recvfrom, p_sendto, msg, q_sending, next_sending, buf, both,
                 ready_process, halted, procvars, mm_msg, mm_p, sys_pc, exits>>

WaitNoChild ==
  /\ mm_pc = "no_child"
  /\ \E j \in Junk : MMSend(src, "SYSCALL_RET", j, NO_TASK)
  /\ mm_pc' = "recv"
  /\ UNCHANGED <<procvars, mm_msg, mm_p, mm_reg, sys_pc, exits>>

\* do_execl: the caller will resume at the entry point, out of its call.  The
\* value of do_execl, which returns none, goes into RETVAL.
DoExecl ==
  /\ At("EXEC")
  /\ calling' = [calling EXCEPT ![src] = "none"]
  /\ both' = [both EXCEPT ![src] = Nil]
  /\ \E j \in Junk : mm_msg' = [mm_msg EXCEPT !.body.val = j]
  /\ mm_pc' = "reply"
  /\ UNCHANGED <<table, buf, ready_process, halted, p_parent, exit_status, base,
                 mm_p, mm_reg, sys_pc, exits>>

-----------------------------------------------------------------------------
ProcInit ==
  /\ Init
  /\ calling = [p \in Proc |-> "none"]
  /\ p_parent = [p \in Proc |-> IF p < NR_LIVE THEN NO_TASK ELSE 0]
  /\ exit_status = [p \in Proc |-> 0]
  /\ base = [p \in Proc |-> 0]
  /\ mm_pc = "recv"
  /\ mm_msg = [source |-> 0, body |-> ZeroBody]
  /\ mm_p = 0
  /\ mm_reg = {}
  /\ sys_pc = "recv"
  /\ exits = {}

\* The clock interrupt, outside the windows the run excludes.
Tick ==
  /\ ready_process = TASK_MM => mm_pc \notin NoTick
  /\ ClockIrq
  /\ UNCHANGED <<procvars, mmvars, sys_pc, exits>>

MMStep ==
  \/ MMReceive \/ MMDispatch \/ MMReply
  \/ ForkScan \/ ForkCopyRegs \/ ForkCopyFlags \/ ForkCopyRest \/ ForkAdopt
  \/ ForkImage \/ ForkInvoke
  \/ DoExit \/ ExitHang \/ CleanupSend \/ CleanupFree \/ ExitOrphans
  \/ DoWait \/ WaitMark \/ WaitNoChild
  \/ DoExecl

SysStep == SysReceive \/ SysReply
LibStep(p) == LibReceive(p) \/ LibReturn(p)

ProcNext ==
  \/ Tick
  \/ MMStep
  \/ SysStep
  \/ \E p \in User : LibStep(p) \/ \E t \in Calls : LibCall(p, t)

\* A process that is given the CPU again and again gets on with its code,
\* because a time slice is many instructions long.  Whether a process makes
\* another library call is its own affair.
ProcFairness ==
  /\ WF_allvars(Tick)
  /\ SF_allvars(MMStep)
  /\ SF_allvars(SysStep)
  /\ \A p \in User : SF_allvars(LibStep(p))

ProcSpec == ProcInit /\ [][ProcNext]_allvars /\ ProcFairness

-----------------------------------------------------------------------------
(* Properties                                                               *)

Returns(p, t) == ready_process = p /\ calling[p] = t /\ calling'[p] = "none"

\* What fork() returns, msg.PID, when do_fork made a child (RETVAL 0): 0 in a
\* process that do_fork made, which runs in its image, and the pid of a child of
\* its own in the caller.  Both get it from TASK_MM, and RETVAL is 0 or -1.
ForkReturns ==
  [][\A p \in User : Returns(p, "FORK") =>
       /\ buf[p].source = TASK_MM /\ Answer(p).type = "SYSCALL_RET"
       /\ Answer(p).val \in {0, -1}
       /\ Answer(p).val = 0 =>
            \/ Answer(p).pid = 0 /\ p >= NR_LIVE /\ base[p] = FORK_BASE
            \/ /\ Answer(p).pid \in User \ {p}
               /\ p_parent[Answer(p).pid] = p
               /\ base[Answer(p).pid] = FORK_BASE]_allvars

\* fork() returns the -1 of do_fork when there is no free slot (mm.c 138).
FailureReturned ==
  [][\A p \in User : Returns(p, "FORK") /\ Answer(p).val = -1 => Answer(p).pid = -1]_allvars

\* wait() reports each exit of a child of the caller once, with the status given
\* to exit(), also when the slot of the child has a new process already; or that
\* there is no child, when none lives and none has exited unreported.
WaitReportsExited ==
  [][\A p \in User : Returns(p, "WAIT") =>
       IF Answer(p).pid = NO_TASK
         THEN /\ \A e \in exits : e.parent # p
              /\ \A c \in User : p_parent[c] = p => p_flags[c] = {"FREE_SLOT"}
         ELSE [parent |-> p, pid |-> Answer(p).pid, status |-> Answer(p).val] \in exits]_allvars


\* When TASK_MM blocks on its answer to a process, that process is about to
\* receive from it: the memory manager cannot be held up for good.
AnswersAwaited ==
  \A p \in User : Sending(TASK_MM, p) => both[p] = TASK_MM

\* The tasks answer every request: each library call returns.
CallsReturn ==
  \A p \in User : calling[p] # "none" ~> calling[p] = "none"

\* A process that waits has a child that can still exit.
WaitingHasChild ==
  \A p \in User : "WAITING" \in p_flags[p] =>
    \E c \in User : p_parent[c] = p /\ p_flags[c] # {"FREE_SLOT"}
=============================================================================
