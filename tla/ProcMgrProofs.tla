---------------------------- MODULE ProcMgrProofs ----------------------------
(***************************************************************************)
(* Proofs about ProcMgr, for every number of processes and slots: what     *)
(* fork and get_ticks get from the tasks, when no tick falls into the copy *)
(* of the table entry that do_fork makes.  Each child has an image of its  *)
(* own here, so for the code, whose children share one, the theorems are   *)
(* about one child at a time.                                              *)
(***************************************************************************)
EXTENDS ProcMgr, IpcProofs

\* The calls and the windows that the theorems are about.
ForkFragment ==
  /\ Calls \subseteq {"FORK", "GET_TICKS"}
  /\ {"copy_flags", "copy_rest"} \subseteq NoTick
  /\ Body = MsgBody

-----------------------------------------------------------------------------
(* The inductive invariant                                                  *)

Server(t) == IF t = "GET_TICKS" THEN TASK_SYS ELSE TASK_MM

\* Process p has sent its request to s and has no answer yet: it is about to
\* receive from s, or it does.
Awaits(p, s) ==
  /\ calling[p] \in CallType /\ Server(calling[p]) = s
  /\ \/ p_flags[p] = {} /\ both[p] = s
     \/ p_flags[p] = {"RECEIVING"} /\ p_recvfrom[p] = s /\ both[p] = Nil

\* A child that do_fork is done with.
Made(c) ==
  /\ p_flags[c] # {"FREE_SLOT"}
  /\ c = mm_p => mm_pc \notin {"copy_rest", "adopt", "image"}

\* What fork() may return to p.
ForkAnswer(p, m) ==
  /\ m.source = TASK_MM /\ m.body.type = "SYSCALL_RET"
  /\ m.body.val \in {0, -1}
  /\ m.body.val = 0 =>
       \/ m.body.pid = 0 /\ p >= NR_LIVE /\ base[p] = FORK_BASE
       \/ /\ m.body.pid \in User \ {p} /\ Made(m.body.pid)
          /\ p_parent[m.body.pid] = p /\ base[m.body.pid] = FORK_BASE

Free(p) ==
  p_flags[p] = {"FREE_SLOT"} /\ p >= NR_LIVE /\ calling[p] = "none" /\ both[p] = Nil

Idle(p) == p_flags[p] = {} /\ calling[p] = "none" /\ both[p] = Nil

Asks(p) ==
  /\ calling[p] \in {"FORK", "GET_TICKS"}
  /\ p_flags[p] = {"SENDING"} /\ p_sendto[p] = Server(calling[p]) /\ both[p] = p_sendto[p]
  /\ buf[p].source = p /\ buf[p].body.type = calling[p]

Answered(p) ==
  /\ p_flags[p] = {} /\ calling[p] \in {"FORK", "GET_TICKS"} /\ both[p] = Nil
  /\ calling[p] = "FORK" => ForkAnswer(p, buf[p])

\* Where a process is in its call.
UserState(p) ==
  Free(p) \/ Idle(p) \/ Asks(p) \/ Awaits(p, TASK_SYS) \/ Awaits(p, TASK_MM) \/ Answered(p)

\* task_sys has a request of a process that awaits the answer, or the answer
\* is on its way.
SysState ==
  \/ sys_pc = "recv" /\ p_flags[TASK_SYS] = {}
  \/ /\ sys_pc = "recv" /\ p_flags[TASK_SYS] = {"SENDING"}
     /\ p_sendto[TASK_SYS] \in User /\ Awaits(p_sendto[TASK_SYS], TASK_SYS)
  \/ sys_pc = "got" /\ p_flags[TASK_SYS] = {"RECEIVING"}
  \/ /\ sys_pc = "got" /\ p_flags[TASK_SYS] = {}
     /\ buf[TASK_SYS].source \in User /\ Awaits(buf[TASK_SYS].source, TASK_SYS)

\* task_mm sends an answer to p.
Answers(p) ==
  /\ p_flags[TASK_MM] = {"SENDING"} /\ p_sendto[TASK_MM] = p
  /\ p \in User /\ Awaits(p, TASK_MM) /\ ForkAnswer(p, buf[TASK_MM])

\* task_mm serves the fork of src.
Serves == src \in User /\ Awaits(src, TASK_MM)

\* ... and has made the child mm_p for it, up to its image.
Forks ==
  Serves /\ mm_p \in User \ {src} /\ mm_p >= NR_LIVE /\ Awaits(mm_p, TASK_MM)

Reply ==
  [source |-> TASK_MM,
   body |-> [type |-> "SYSCALL_RET", val |-> mm_msg.body.val, pid |-> mm_msg.body.pid]]

MMState ==
  \/ mm_pc = "recv" /\ (p_flags[TASK_MM] = {} \/ Answers(p_sendto[TASK_MM]))
  \/ mm_pc = "dispatch" /\ p_flags[TASK_MM] = {"RECEIVING"}
  \/ /\ mm_pc = "dispatch" /\ p_flags[TASK_MM] = {}
     /\ buf[TASK_MM].source \in User /\ Awaits(buf[TASK_MM].source, TASK_MM)
     /\ buf[TASK_MM].body.type = "FORK"
  \/ mm_pc = "FORK" /\ p_flags[TASK_MM] = {} /\ Serves
  \/ /\ mm_pc \in {"copy_regs", "copy_flags"} /\ p_flags[TASK_MM] = {} /\ Serves
     /\ mm_p \in User /\ p_flags[mm_p] = {"FREE_SLOT"} /\ mm_p >= NR_LIVE
     /\ mm_pc = "copy_flags" =>
          calling[mm_p] = calling[src] /\ both[mm_p] = both[src] /\ Running(TASK_MM)
  \/ /\ mm_pc = "copy_rest" /\ p_flags[TASK_MM] = {} /\ Serves
     /\ mm_p \in User \ {src} /\ mm_p >= NR_LIVE
     /\ p_flags[mm_p] = p_flags[src] /\ calling[mm_p] = calling[src] /\ both[mm_p] = both[src]
     /\ Running(TASK_MM)
  \/ mm_pc = "adopt" /\ p_flags[TASK_MM] = {} /\ Forks
  \/ mm_pc = "image" /\ p_flags[TASK_MM] = {} /\ Forks /\ p_parent[mm_p] = src
  \/ /\ mm_pc = "invoke" /\ p_flags[TASK_MM] = {} /\ Forks /\ p_parent[mm_p] = src
     /\ base[mm_p] = FORK_BASE /\ mm_msg.body.pid = mm_p
  \/ /\ mm_pc = "reply" /\ Serves /\ ForkAnswer(src, Reply)
     /\ p_flags[TASK_MM] = {} \/ (mm_p # src /\ Answers(mm_p))

\* The entry that is being copied is no process yet.
Copied(p) == p = mm_p /\ mm_pc \in {"copy_flags", "copy_rest"}

PMTypeOK ==
  /\ calling \in [Proc -> {"none", "FORK", "GET_TICKS"}]
  /\ p_parent \in [Proc -> Proc \cup {NO_TASK}]
  /\ base \in [Proc -> {0, FORK_BASE}]
  /\ mm_msg \in Message /\ mm_p \in Proc

\* The fields of every process but the one that is being copied.
FieldsMatchBut(c) ==
  \A p \in Proc \ {c} :
    /\ p_flags[p] = {} => CallerIdle(p)
    /\ p_flags[p] = {"SENDING"} =>
         msg[p] = 1 /\ p_recvfrom[p] = NO_TASK /\ p_sendto[p] \in Proc
    /\ p_flags[p] = {"RECEIVING"} => msg[p] = 1 /\ p_sendto[p] = NO_TASK

\* What is left of IInv between the two steps of the copy.
CopyInv ==
  /\ TypeOK /\ BothOK /\ p_flags[ready_process] = {} /\ FlagShape /\ TtyRuns
  /\ FieldsMatchBut(mm_p)
  /\ HeadsAreSenders /\ LinksJoinSenders /\ SendersAreLinked /\ LinkedOnce
  /\ LinksAcyclic /\ LinksHaveFirst /\ NoMissedRendezvous /\ NoSendCycle

PInv ==
  /\ halted = "no"
  /\ IF mm_pc = "copy_rest" THEN CopyInv ELSE IInv
  /\ PMTypeOK
  /\ \A p \in Proc \ User : both[p] = Nil /\ calling[p] = "none"
  /\ \A p \in User : Copied(p) \/ UserState(p)
  /\ SysState
  /\ MMState

-----------------------------------------------------------------------------
(* What a system call does, pointer by pointer                              *)

\* The tasks are not user processes, and the pointers that are none are no slots.
LEMMA Tasks ==
  /\ TASK_SYS \in Proc \ User /\ TASK_MM \in Proc \ User /\ TASK_TTY \in Proc \ User
  /\ TASK_SYS # TASK_MM /\ TASK_TTY \notin {TASK_SYS, TASK_MM}
  /\ User \subseteq Proc /\ Proc = User \cup {TASK_TTY, TASK_SYS, TASK_MM}
  /\ \A p \in Proc : p >= NR_LIVE => p \in User
  /\ Nil \notin Proc /\ NO_TASK \notin Proc /\ ANY \notin Proc /\ NO_TASK # ANY
BY SizeAssumption, ProcMgrAssumption
   DEF TASK_SYS, TASK_MM, TASK_TTY, INIT, User, Proc, Nil, NO_TASK, ANY

\* msg_send to a process that receives ...
Delivered(p, d, m) ==
  /\ p_flags[d] = {"RECEIVING"} /\ p_recvfrom[d] \in {p, ANY}
  /\ p_flags' = [p_flags EXCEPT ![d] = {}]
  /\ p_recvfrom' = [p_recvfrom EXCEPT ![d] = NO_TASK]
  /\ p_sendto' = p_sendto
  /\ buf' = [buf EXCEPT ![p] = m, ![d] = m]
  /\ ready_process' = ready_process

\* ... and to one that does not.
Queues(p, d, m) ==
  /\ ~ Accepts(d, p)
  /\ p_flags' = [p_flags EXCEPT ![p] = {"SENDING"}]
  /\ p_sendto' = [p_sendto EXCEPT ![p] = d]
  /\ p_recvfrom' = p_recvfrom
  /\ buf' = [buf EXCEPT ![p] = m]

\* msg_receive with a sender in the list ...
Taken(p, s, from) ==
  /\ from \in Proc /\ Sending(from, p) /\ s \in {ANY, from}
  /\ p_flags' = [p_flags EXCEPT ![from] = {}]
  /\ p_sendto' = [p_sendto EXCEPT ![from] = NO_TASK]
  /\ p_recvfrom' = p_recvfrom
  /\ buf' = [buf EXCEPT ![p] = buf[from]]
  /\ ready_process' = ready_process

\* ... and with none.
Waits(p, s, m) ==
  /\ s # ANY => ~ Sending(s, p)
  /\ p_flags' = [p_flags EXCEPT ![p] = {"RECEIVING"}]
  /\ p_recvfrom' = [p_recvfrom EXCEPT ![p] = s]
  /\ p_sendto' = p_sendto
  /\ buf' = [buf EXCEPT ![p] = m]

\* deadlock() lets a send pass when nobody it waits for is sending to it.
LEMMA NoDeadlock ==
  ASSUME NEW p \in Proc, NEW d \in Proc \ {p},
         "SENDING" \in p_flags[d] =>
           p_sendto[d] # p /\ (p_sendto[d] \in Proc => "SENDING" \notin p_flags[p_sendto[d]])
  PROVE  ~ deadlock(p, d)
<1> DEFINE f == [x \in Proc |-> IF "SENDING" \in p_flags[x] THEN p_sendto[x] ELSE Nil]
           T == {d} \cup ({f[d]} \cap Proc)
<1>1. T \in SUBSET Proc /\ d \in T /\ p \notin T
  BY Tasks
<1>2. \A x \in T : f[x] \in Proc => f[x] \in T
  BY Tasks
<1> HIDE DEF T
<1>3. Reached(d, f) \subseteq T
  BY <1>1, <1>2, ReachedFacts
<1> QED
  BY <1>1, <1>3 DEF deadlock, SendWalk

\* A send that deadlock() lets pass keeps the invariant of Ipc.
LEMMA SendDoes ==
  ASSUME IInv, NEW p \in Proc, p = ready_process, p # TASK_TTY, NEW d \in Proc \ {p},
         NEW m \in Message, ~ deadlock(p, d), msg_send(p, d, m), BothOK'
  PROVE  IInv' /\ halted' = "no" /\ (Delivered(p, d, m) \/ Queues(p, d, m))
<1>1. CASE SendDelivers(p, d, m)
  <2>1. IInv'
    BY <1>1, SendDeliversIInv
  <2>2. halted' = "no"
    BY <1>1, <2>1 DEF SendDelivers, Outcome, IInv
  <2>3. p_flags[d] = {"RECEIVING"} /\ p_recvfrom[d] \in {p, ANY}
    BY <1>1 DEF SendDelivers, Accepts, IInv, FlagShape
  <2>4. {"RECEIVING"} \ {"RECEIVING"} = {}
    OBVIOUS
  <2> QED
    BY <1>1, <2>1, <2>2, <2>3, <2>4 DEF SendDelivers, Delivered
<1>2. CASE SendBlocks(p, d, m)
  <2>1. IInv'
    BY <1>2, SendBlocksIInv
  <2>2. halted' = "no"
    BY <1>2, <2>1 DEF SendBlocks, Outcome, IInv
  <2>3. p_flags[p] = {} /\ {} \cup {"SENDING"} = {"SENDING"}
    BY DEF IInv
  <2> QED
    BY <1>2, <2>1, <2>2, <2>3 DEF SendBlocks, Queues
<1> QED
  BY <1>1, <1>2 DEF msg_send, SendPanics

\* So does a receive.
LEMMA ReceiveDoes ==
  ASSUME IInv, NEW p \in Proc, p = ready_process, p # TASK_TTY,
         NEW s \in (Proc \ {p}) \cup {ANY}, NEW m \in Message, msg_receive(p, s, m), BothOK'
  PROVE  IInv' /\ halted' = "no" /\ ((\E from \in Proc \ {p} : Taken(p, s, from)) \/ Waits(p, s, m))
<1>1. CASE ReceiveTakes(p, s)
  <2> DEFINE from == From(p, s)
  <2>1. IInv'
    BY <1>1, ReceiveTakesIInv
  <2>2. halted' = "no"
    BY <1>1, <2>1 DEF ReceiveTakes, Outcome, IInv
  <2>3. from \in Proc /\ Sending(from, p) /\ s \in {ANY, from}
    BY <1>1, Tasks DEF ReceiveTakes, From, IInv, TypeOK, HeadsAreSenders
  <2>4. p_flags[from] = {"SENDING"} /\ {"SENDING"} \ {"SENDING"} = {}
    BY <2>3 DEF Sending, IInv, FlagShape
  <2>5. from # p
    BY <2>4 DEF IInv
  <2> HIDE DEF from
  <2>6. Taken(p, s, from)
    BY <1>1, <2>3, <2>4 DEF ReceiveTakes, Taken, from
  <2> QED
    BY <2>1, <2>2, <2>3, <2>5, <2>6
<1>2. CASE ReceiveBlocks(p, s, m)
  <2>1. IInv'
    BY <1>2, ReceiveBlocksIInv
  <2>2. halted' = "no"
    BY <1>2, <2>1 DEF ReceiveBlocks, Outcome, IInv
  <2>3. p_flags[p] = {} /\ {} \cup {"RECEIVING"} = {"RECEIVING"}
    BY DEF IInv
  <2>4. s # ANY => ~ Sending(s, p)
    BY <1>2, Tasks DEF ReceiveBlocks, From
  <2> QED
    BY <1>2, <2>1, <2>2, <2>3, <2>4 DEF ReceiveBlocks, Waits
<1> QED
  BY <1>1, <1>2 DEF msg_receive

-----------------------------------------------------------------------------
(* What the steps of others leave alone                                     *)

\* Only do_fork has a process half copied, and it is not preempted then.
LEMMA NotCopying ==
  ASSUME PInv, ready_process # TASK_MM
  PROVE  /\ mm_pc \notin {"copy_flags", "copy_rest"}
         /\ IInv
         /\ \A p \in User : UserState(p)
BY DEF PInv, MMState, Running, Copied

\* Requests go to the tasks and answers to processes that await them.
LEMMA WhoSends ==
  ASSUME PInv, NEW x \in Proc, NEW d \in Proc, Sending(x, d)
  PROVE  \/ x \in User /\ Asks(x) /\ d = Server(calling[x])
         \/ x = TASK_SYS /\ sys_pc = "recv" /\ d \in User /\ Awaits(d, TASK_SYS)
         \/ x = TASK_MM /\ mm_pc \in {"recv", "reply"} /\ Answers(d)
<1>1. p_flags[x] = {"SENDING"} /\ p_sendto[x] = d
  BY DEF PInv, IInv, CopyInv, FlagShape, Sending
<1>2. CASE x \in User
  <2>1. ~ Copied(x)
    BY <1>1 DEF PInv, Copied, MMState, Serves, Awaits
  <2>2. UserState(x)
    BY <1>2, <2>1 DEF PInv
  <2> QED
    BY <1>1, <1>2, <2>2 DEF UserState, Free, Idle, Asks, Awaits, Answered
<1>3. CASE x = TASK_SYS
  BY <1>1, <1>3 DEF PInv, SysState
<1>4. CASE x = TASK_MM
  BY <1>1, <1>4 DEF PInv, MMState, Answers
<1>5. CASE x = TASK_TTY
  BY <1>1, <1>5 DEF PInv, IInv, CopyInv, TtyRuns
<1> QED
  BY <1>2, <1>3, <1>4, <1>5, Tasks

\* The parts of x that its state depends on.
Same(x) ==
  /\ p_flags'[x] = p_flags[x] /\ p_sendto'[x] = p_sendto[x] /\ p_recvfrom'[x] = p_recvfrom[x]
  /\ buf'[x] = buf[x] /\ both'[x] = both[x] /\ calling'[x] = calling[x]

\* Who awaits an answer goes on to.
LEMMA AwaitsKept ==
  ASSUME NEW x \in User, NEW s \in Proc, Same(x)
  PROVE  Awaits(x, s)' <=> Awaits(x, s)
BY DEF Same, Awaits

\* What do_fork made and said stays true until a slot is free again.
Kept(x) == \A m : ForkAnswer(x, m) => ForkAnswer(x, m)'

AnswersKept == \A x \in User : Kept(x)

\* The steps that change no parent or base leave it alone.
LEMMA OthersKeepAnswers ==
  ASSUME UNCHANGED <<base, p_parent>>,
         UNCHANGED <<mm_pc, mm_p>> \/ mm_pc' \notin {"copy_rest", "adopt", "image"},
         \A c \in User : p_flags'[c] = {"FREE_SLOT"} => p_flags[c] = {"FREE_SLOT"}
  PROVE  AnswersKept
<1>1. \A c \in User : Made(c) => Made(c)'
  BY DEF Made
<1> QED
  BY <1>1 DEF AnswersKept, Kept, ForkAnswer

\* An answer that is kept is one in the next state, wherever it is then.
LEMMA KeptAnswer ==
  ASSUME NEW x, NEW a, Kept(x), ForkAnswer(x, a)
  PROVE  ForkAnswer(x, a)'
BY Zenon DEF Kept

\* A process that a step does not touch is where it was.
LEMMA UserKept ==
  ASSUME NEW x \in User, Same(x), Kept(x), UserState(x)
  PROVE  UserState(x)'
<1>1. Awaits(x, TASK_SYS)' <=> Awaits(x, TASK_SYS)
  BY AwaitsKept, Tasks
<1>2. Awaits(x, TASK_MM)' <=> Awaits(x, TASK_MM)
  BY AwaitsKept, Tasks
<1>3. ForkAnswer(x, buf[x]) => ForkAnswer(x, buf[x])'
  <2>1. ASSUME NEW m, m = buf[x], ForkAnswer(x, m)
        PROVE  ForkAnswer(x, buf[x])'
    <3>1. ForkAnswer(x, m)' /\ m = buf'[x]
      BY <2>1, KeptAnswer, Zenon DEF Same
    <3> QED
      BY <3>1, Zenon DEF ForkAnswer
  <2> QED
    BY <2>1
<1> QED
  BY <1>1, <1>2, <1>3 DEF UserState, Same, Free, Idle, Asks, Answered

\* So is task_sys, ...
LEMMA SysKept ==
  ASSUME SysState, Same(TASK_SYS), sys_pc' = sys_pc,
         \A x \in User : Awaits(x, TASK_SYS) => Awaits(x, TASK_SYS)'
  PROVE  SysState'
BY DEF SysState, Same

\* ... and task_mm.
LEMMA MMKept ==
  ASSUME MMState, mm_pc \notin {"copy_flags", "copy_rest"}, Same(TASK_MM), AnswersKept,
         UNCHANGED <<mm_pc, mm_p, mm_msg, base, p_parent>>,
         \A x \in User : Awaits(x, TASK_MM) => Awaits(x, TASK_MM)',
         \A x \in User : p_flags[x] = {"FREE_SLOT"} => p_flags'[x] = {"FREE_SLOT"}
  PROVE  MMState'
<1>1. \A p \in User : Answers(p) => Answers(p)'
  <2>1. SUFFICES ASSUME NEW p \in User, Answers(p), NEW m, m = buf[TASK_MM]
                 PROVE  ForkAnswer(p, buf[TASK_MM])'
    BY DEF Answers, Same
  <2>2. ForkAnswer(p, m)' /\ m = buf'[TASK_MM]
    BY <2>1, KeptAnswer, Zenon DEF AnswersKept, Same, Answers
  <2> QED
    BY <2>2, Zenon DEF ForkAnswer
<1>2. Serves => Serves'
  BY DEF Serves, src
<1>3. Forks => Forks'
  BY <1>2 DEF Forks, src
<1>4. Serves /\ ForkAnswer(src, Reply) => ForkAnswer(src, Reply)'
  <2>1. SUFFICES ASSUME Serves, NEW p, p = src, NEW m, m = Reply, ForkAnswer(p, m)
                 PROVE  ForkAnswer(src, Reply)'
    OBVIOUS
  <2>2. ForkAnswer(p, m)' /\ m = Reply' /\ p = src'
    BY <2>1, KeptAnswer, Zenon DEF AnswersKept, Reply, src, Serves
  <2> QED
    BY <2>2, Zenon DEF ForkAnswer
<1>5. p_flags'[TASK_MM] = p_flags[TASK_MM] /\ p_sendto'[TASK_MM] = p_sendto[TASK_MM]
      /\ buf'[TASK_MM] = buf[TASK_MM]
  BY DEF Same
<1>6. \A p : Answers(p) => p \in User
  BY DEF Answers
<1> QED
  BY <1>1, <1>2, <1>3, <1>4, <1>5, <1>6 DEF MMState, src

-----------------------------------------------------------------------------
(* The library calls                                                        *)

\* A call that returns was answered.
LEMMA LibReturnInv ==
  ASSUME PInv, NEW p \in User, LibReturn(p)
  PROVE  PInv'
<1>1. /\ halted = "no" /\ ready_process = p /\ p # TASK_MM
      /\ UNCHANGED <<p_flags, p_recvfrom, p_sendto, msg, q_sending, next_sending, buf, both,
                     ready_process, halted, p_parent, exit_status, base, mm_pc, mm_msg, mm_p, mm_reg, sys_pc>>
      /\ calling' = [calling EXCEPT ![p] = "none"] /\ both[p] = Nil
  BY Tasks DEF LibReturn, Running, vars, table, mmvars
<1>2. mm_pc \notin {"copy_flags", "copy_rest"} /\ IInv /\ \A x \in User : UserState(x)
  BY <1>1, NotCopying
<1>3. p_flags[p] = {} /\ p \in Proc
  BY <1>1, <1>2 DEF IInv, TypeOK
<1>4. calling \in [Proc -> {"none", "FORK", "GET_TICKS"}]
  BY DEF PInv, PMTypeOK
<1>5. IInv'
  BY <1>1, <1>2, NextIInv DEF vars, table
<1>6. \A x \in Proc : x # p => Same(x)
  BY <1>1, <1>4 DEF Same
<1>7. AnswersKept
  BY <1>1, OthersKeepAnswers
<1>8. \A x \in User : UserState(x)'
  <2>1. UserState(p)'
    BY <1>1, <1>3, <1>4 DEF UserState, Idle
  <2> QED
    BY <2>1, <1>2, <1>6, <1>7, UserKept, Tasks DEF AnswersKept
<1>9. \A x \in User, s \in {TASK_SYS, TASK_MM} : Awaits(x, s) => Awaits(x, s)'
  <2>1. \A s \in {TASK_SYS, TASK_MM} : ~ Awaits(p, s)
    BY <1>1, <1>3, Tasks DEF Awaits
  <2> QED
    BY <2>1, <1>6, AwaitsKept, Tasks
<1>10. SysState'
  BY <1>1, <1>6, <1>9, SysKept, Tasks DEF PInv
<1>11. MMState'
  BY <1>1, <1>2, <1>6, <1>7, <1>9, MMKept, Tasks DEF PInv
<1>12. PMTypeOK' /\ (\A x \in Proc \ User : both[x] = Nil /\ calling[x] = "none")'
  BY <1>1, <1>4 DEF PInv, PMTypeOK
<1> QED
  BY <1>1, <1>2, <1>5, <1>8, <1>10, <1>11, <1>12 DEF PInv

\* A process that receives has sent its request before; the answer is there
\* or it waits for it.
LEMMA LibReceiveInv ==
  ASSUME PInv, ForkFragment, NEW p \in User, LibReceive(p)
  PROVE  PInv'
<1>0. PICK s : s = both[p]
  OBVIOUS
<1> DEFINE m == [source |-> p, body |-> buf[p].body]
<1>1. /\ halted = "no" /\ ready_process = p /\ p # TASK_MM /\ p # TASK_TTY /\ p # TASK_SYS
      /\ calling[p] # "none" /\ both[p] # Nil
      /\ msg_receive(p, s, m) /\ both' = [both EXCEPT ![p] = Nil]
      /\ UNCHANGED <<calling, p_parent, exit_status, base, mm_pc, mm_msg, mm_p, mm_reg, sys_pc>>
  BY <1>0, Tasks DEF LibReceive, ReceiveBoth, Running, procvars, mmvars
<1>2. mm_pc \notin {"copy_flags", "copy_rest"} /\ IInv /\ \A x \in User : UserState(x)
  BY <1>1, NotCopying
<1>3. p_flags[p] = {} /\ p \in Proc /\ m \in Message
  BY <1>1, <1>2, Tasks DEF IInv, TypeOK, Message
<1>4. /\ s \in {TASK_SYS, TASK_MM} /\ Awaits(p, s) /\ Server(calling[p]) = s
      /\ calling[p] \in {"FORK", "GET_TICKS"}
  BY <1>0, <1>1, <1>2, <1>3 DEF UserState, Free, Idle, Asks, Awaits, Answered, PInv, PMTypeOK
<1>5. BothOK'
  BY <1>1, <1>2, Tasks DEF IInv, BothOK
<1>6. /\ IInv' /\ halted' = "no"
      /\ (\E from \in Proc \ {p} : Taken(p, s, from)) \/ Waits(p, s, m)
  BY <1>1, <1>2, <1>3, <1>4, <1>5, ReceiveDoes, Tasks
<1> HIDE DEF m
<1>7. PMTypeOK' /\ (\A x \in Proc \ User : both[x] = Nil /\ calling[x] = "none")'
  BY <1>1, <1>2, Tasks DEF PInv, PMTypeOK, IInv, TypeOK
<1>8. /\ p_flags \in [Proc -> SUBSET Flag] /\ buf \in [Proc -> Message]
      /\ p_sendto \in [Proc -> Proc \cup {NO_TASK}]
      /\ p_recvfrom \in [Proc -> Proc \cup {ANY, NO_TASK}] /\ both \in [Proc -> Proc \cup {Nil}]
  BY <1>2 DEF IInv, TypeOK
<1>9. ASSUME Taken(p, s, s)
      PROVE  PInv'
  <2>1. /\ \A x \in Proc \ {p, s} : Same(x)
        /\ p_flags'[s] = {} /\ p_flags'[p] = {} /\ both'[p] = Nil /\ buf'[p] = buf[s]
        /\ buf'[s] = buf[s]
    BY <1>1, <1>3, <1>4, <1>8, <1>9, Tasks DEF Same, Taken
  <2>2. AnswersKept
    BY <1>1, <1>8, <1>9, OthersKeepAnswers, Tasks DEF Taken
  <2>3. \A x \in User \ {p} : UserState(x)'
    BY <1>2, <1>4, <2>1, <2>2, UserKept, Tasks DEF AnswersKept
  <2>4. \A x \in User \ {p}, t \in {TASK_SYS, TASK_MM} : Awaits(x, t) => Awaits(x, t)'
    BY <1>4, <2>1, AwaitsKept, Tasks
  <2>5. \A t \in {TASK_SYS, TASK_MM} : t # s => ~ Awaits(p, t)
    BY <1>4 DEF Awaits
  <2>6. CASE s = TASK_SYS
    <3>1. UserState(p)'
      BY <1>1, <1>4, <2>1, <2>6, Tasks DEF UserState, Answered, Server
    <3>2. SysState'
      BY <1>1, <1>2, <1>3, <1>9, <2>1, <2>6, WhoSends DEF SysState, Taken, PInv, Asks, Sending
    <3>3. MMState'
      BY <1>1, <1>2, <1>4, <2>1, <2>2, <2>4, <2>5, <2>6, <1>8, <1>9, MMKept, Tasks DEF PInv, Taken
    <3> QED
      BY <1>1, <1>2, <1>6, <1>7, <2>3, <3>1, <3>2, <3>3 DEF PInv
  <2>7. CASE s = TASK_MM
    <3>1. mm_pc \in {"recv", "reply"} /\ Answers(p)
      BY <1>2, <1>3, <1>9, <2>7, WhoSends, Tasks DEF Taken
    <3>2. UserState(p)'
      <4>1. SUFFICES ASSUME NEW a, a = buf[TASK_MM] PROVE ForkAnswer(p, buf[p])'
        BY <1>1, <1>4, <2>1, <2>7, Tasks DEF UserState, Answered, Server
      <4>2. ForkAnswer(p, a)' /\ a = buf'[p]
        BY <2>1, <2>2, <2>7, <3>1, <4>1, KeptAnswer, Zenon DEF AnswersKept, Answers
      <4> QED
        BY <4>2, Zenon DEF ForkAnswer
    <3>3. SysState'
      BY <1>1, <2>1, <2>4, <2>5, <2>7, SysKept, Tasks DEF PInv
    <3>4. MMState'
      <4>1. CASE mm_pc = "recv"
        BY <1>1, <2>1, <2>7, <4>1 DEF MMState
      <4>2. CASE mm_pc = "reply"
        <5>1. Serves /\ ForkAnswer(src, Reply) /\ src # p
          BY <3>1, <4>2 DEF PInv, MMState, Answers
        <5>2. Serves'
          BY <1>1, <2>4, <5>1, Tasks DEF Serves, src
        <5>3. ForkAnswer(src, Reply)'
          <6>1. SUFFICES ASSUME NEW q, q = src, NEW a, a = Reply
                         PROVE  ForkAnswer(src, Reply)'
            OBVIOUS
          <6>2. ForkAnswer(q, a)' /\ a = Reply' /\ q = src'
            BY <1>1, <2>2, <5>1, <6>1, KeptAnswer, Zenon DEF AnswersKept, Reply, src, Serves
          <6> QED
            BY <6>2, Zenon DEF ForkAnswer
        <5> QED
          BY <1>1, <2>1, <2>7, <4>2, <5>2, <5>3 DEF MMState
      <4> QED
        BY <3>1, <4>1, <4>2
    <3> QED
      BY <1>1, <1>2, <1>6, <1>7, <2>3, <3>2, <3>3, <3>4 DEF PInv
  <2> QED
    BY <1>4, <2>6, <2>7
<1>10. ASSUME Waits(p, s, m)
       PROVE  PInv'
  <2>1. /\ \A x \in Proc \ {p} : Same(x)
        /\ p_flags'[p] = {"RECEIVING"} /\ both'[p] = Nil /\ p_recvfrom'[p] = s
    BY <1>1, <1>3, <1>8, <1>10 DEF Same, Waits
  <2>2. AnswersKept
    BY <1>1, <1>3, <1>8, <1>10, OthersKeepAnswers, Tasks DEF Waits
  <2>3. Awaits(p, s)'
    BY <1>1, <1>4, <2>1 DEF Awaits
  <2>4. \A x \in User : UserState(x)'
    BY <1>2, <1>4, <2>1, <2>2, <2>3, UserKept, Tasks DEF UserState, AnswersKept
  <2>5. \A x \in User, t \in {TASK_SYS, TASK_MM} : Awaits(x, t) => Awaits(x, t)'
    <3>1. \A t \in {TASK_SYS, TASK_MM} : Awaits(p, t) => t = s
      BY <1>4 DEF Awaits
    <3> QED
      BY <2>1, <2>3, <3>1, AwaitsKept, Tasks
  <2>6. SysState'
    BY <1>1, <2>1, <2>5, SysKept, Tasks DEF PInv
  <2>7. MMState'
    BY <1>1, <1>2, <1>3, <1>8, <1>10, <2>1, <2>2, <2>5, MMKept, Tasks DEF PInv, Waits
  <2> QED
    BY <1>1, <1>2, <1>6, <1>7, <2>4, <2>6, <2>7 DEF PInv
<1> QED
  BY <1>4, <1>6, <1>9, <1>10, Tasks DEF Taken

\* A process that calls was idle; its request reaches the task or is queued.
LEMMA LibCallInv ==
  ASSUME PInv, ForkFragment, NEW p \in User, NEW t \in Calls, LibCall(p, t)
  PROVE  PInv'
<1> DEFINE d == Server(t)
<1>1. /\ halted = "no" /\ ready_process = p /\ p # TASK_MM /\ p # TASK_TTY /\ p # TASK_SYS
      /\ calling[p] = "none" /\ both[p] = Nil
      /\ calling' = [calling EXCEPT ![p] = t] /\ both' = [both EXCEPT ![p] = d]
      /\ UNCHANGED <<p_parent, exit_status, base, mm_pc, mm_msg, mm_p, mm_reg, sys_pc>>
  BY Tasks DEF LibCall, SendBoth, Running, mmvars, Server
<1>2. mm_pc \notin {"copy_flags", "copy_rest"} /\ IInv /\ \A x \in User : UserState(x)
  BY <1>1, NotCopying
<1>3. t \in {"FORK", "GET_TICKS"} /\ d \in {TASK_SYS, TASK_MM} /\ d \in Proc \ User /\ d # p
  BY Tasks DEF ForkFragment, Server
<1>4. PICK b \in Request(t) : msg_send(p, d, [source |-> p, body |-> b])
  BY <1>1 DEF LibCall, SendBoth, Server
<1> DEFINE m == [source |-> p, body |-> b]
<1>5. m \in Message /\ m.source = p /\ m.body.type = t
  <2>1. b \in MsgBody /\ b.type = t
    BY <1>3 DEF Request, MsgBody, Word, CallType
  <2> QED
    BY <2>1, Tasks DEF Message, ForkFragment
<1> HIDE DEF m
<1>6. p_flags[p] = {} /\ p \in Proc
  BY <1>1, <1>2 DEF IInv, TypeOK
<1>7. ~ deadlock(p, d)
  <2>1. ASSUME "SENDING" \in p_flags[d]
        PROVE  p_sendto[d] # p /\ (p_sendto[d] \in Proc => "SENDING" \notin p_flags[p_sendto[d]])
    <3>1. p_flags[d] = {"SENDING"} /\ p_sendto[d] \in Proc
      BY <1>2, <1>3, <2>1 DEF IInv, FlagShape, FieldsMatchFlags
    <3>2. Sending(d, p_sendto[d])
      BY <3>1 DEF Sending
    <3>3. PICK s \in {TASK_SYS, TASK_MM} : Awaits(p_sendto[d], s)
      BY <1>2, <1>3, <3>1, <3>2, WhoSends DEF Answers
    <3>4. ~ Awaits(p, s)
      BY <1>1 DEF Awaits, CallType
    <3> QED
      BY <3>3, <3>4 DEF Awaits
  <2> QED
    BY <1>3, <1>6, <2>1, NoDeadlock
<1>8. BothOK'
  BY <1>1, <1>2, <1>3, Tasks DEF IInv, BothOK
<1>9. IInv' /\ halted' = "no" /\ (Delivered(p, d, m) \/ Queues(p, d, m))
  BY <1>1, <1>2, <1>3, <1>4, <1>5, <1>6, <1>7, <1>8, SendDoes DEF m
<1>10. calling \in [Proc -> {"none", "FORK", "GET_TICKS"}]
  BY DEF PInv, PMTypeOK
<1>11. PMTypeOK' /\ (\A x \in Proc \ User : both[x] = Nil /\ calling[x] = "none")'
  BY <1>1, <1>2, <1>3, <1>6, <1>10, Tasks DEF PInv, PMTypeOK, IInv, TypeOK
<1>12. /\ p_flags \in [Proc -> SUBSET Flag] /\ buf \in [Proc -> Message]
       /\ p_sendto \in [Proc -> Proc \cup {NO_TASK}]
       /\ p_recvfrom \in [Proc -> Proc \cup {ANY, NO_TASK}] /\ both \in [Proc -> Proc \cup {Nil}]
  BY <1>2 DEF IInv, TypeOK
<1>13. calling'[p] = t /\ both'[p] = d
  BY <1>1, <1>6, <1>10, <1>12
<1>14. \A s \in {TASK_SYS, TASK_MM} : ~ Awaits(p, s)
  BY <1>1 DEF Awaits, CallType
<1> HIDE DEF d
<1>15. ASSUME Delivered(p, d, m)
       PROVE  PInv'
  <2>1. /\ \A x \in Proc \ {p, d} : Same(x)
        /\ p_flags[d] = {"RECEIVING"} /\ p_flags'[d] = {} /\ buf'[d] = m
        /\ p_flags'[p] = {}
    BY <1>1, <1>3, <1>6, <1>10, <1>12, <1>15 DEF Same, Delivered
  <2>2. AnswersKept
    BY <1>1, <1>3, <1>12, <1>15, OthersKeepAnswers, Tasks DEF Delivered
  <2>3. Awaits(p, d)'
    BY <1>3, <1>13, <2>1 DEF Awaits, CallType, d
  <2>4. \A x \in User : UserState(x)'
    BY <1>2, <1>3, <2>1, <2>2, <2>3, UserKept, Tasks DEF UserState, AnswersKept
  <2>5. \A x \in User, s \in {TASK_SYS, TASK_MM} : Awaits(x, s) => Awaits(x, s)'
    BY <1>3, <1>14, <2>1, AwaitsKept, Tasks
  <2>6. CASE d = TASK_SYS
    <3>1. sys_pc = "got"
      BY <2>1, <2>6 DEF PInv, SysState
    <3>2. SysState'
      BY <1>1, <1>5, <2>1, <2>3, <2>6, <3>1 DEF SysState
    <3>3. MMState'
      BY <1>1, <1>2, <1>3, <1>12, <1>15, <2>1, <2>2, <2>5, <2>6, MMKept, Tasks DEF PInv, Delivered
    <3> QED
      BY <1>1, <1>2, <1>9, <1>11, <2>4, <3>2, <3>3 DEF PInv
  <2>7. CASE d = TASK_MM
    <3>1. mm_pc = "dispatch"
      BY <2>1, <2>7, Tasks DEF PInv, MMState, Answers
    <3>2. t = "FORK"
      BY <1>3, <2>7, Tasks DEF d, Server
    <3>3. MMState'
      BY <1>1, <1>5, <2>1, <2>3, <2>7, <3>1, <3>2 DEF MMState
    <3>4. SysState'
      BY <1>1, <1>2, <1>3, <2>1, <2>5, <2>7, SysKept, Tasks DEF PInv
    <3> QED
      BY <1>1, <1>2, <1>9, <1>11, <2>4, <3>3, <3>4 DEF PInv
  <2> QED
    BY <1>3, <2>6, <2>7
<1>16. ASSUME Queues(p, d, m)
       PROVE  PInv'
  <2>1. /\ \A x \in Proc \ {p} : Same(x)
        /\ p_flags'[p] = {"SENDING"} /\ p_sendto'[p] = d /\ buf'[p] = m
    BY <1>1, <1>3, <1>6, <1>10, <1>12, <1>16 DEF Same, Queues
  <2>2. AnswersKept
    BY <1>1, <1>6, <1>12, <1>16, OthersKeepAnswers, Tasks DEF Queues
  <2>3. Asks(p)'
    BY <1>3, <1>5, <1>13, <2>1 DEF Asks, d
  <2>4. \A x \in User : UserState(x)'
    BY <1>2, <2>1, <2>2, <2>3, UserKept, Tasks DEF UserState, AnswersKept
  <2>5. \A x \in User, s \in {TASK_SYS, TASK_MM} : Awaits(x, s) => Awaits(x, s)'
    BY <1>14, <2>1, AwaitsKept, Tasks
  <2>6. SysState'
    BY <1>1, <2>1, <2>5, SysKept, Tasks DEF PInv
  <2>7. MMState'
    BY <1>1, <1>2, <1>6, <1>12, <1>16, <2>1, <2>2, <2>5, MMKept, Tasks DEF PInv, Queues
  <2> QED
    BY <1>1, <1>2, <1>9, <1>11, <2>4, <2>6, <2>7 DEF PInv
<1> QED
  BY <1>9, <1>15, <1>16

-----------------------------------------------------------------------------
(* task_sys                                                                 *)

\* task_sys takes the request of a process, which then awaits the answer.
LEMMA SysReceiveInv ==
  ASSUME PInv, ForkFragment, SysReceive
  PROVE  PInv'
<1> DEFINE m == [source |-> TASK_SYS, body |-> ZeroBody]
<1>1. /\ halted = "no" /\ ready_process = TASK_SYS /\ sys_pc = "recv" /\ sys_pc' = "got"
      /\ msg_receive(TASK_SYS, ANY, m)
      /\ UNCHANGED <<both, calling, p_parent, exit_status, base, mm_pc, mm_msg, mm_p, mm_reg>>
  BY DEF SysReceive, Receive, Running, procvars, mmvars
<1>2. mm_pc \notin {"copy_flags", "copy_rest"} /\ IInv /\ \A x \in User : UserState(x)
  BY <1>1, NotCopying, Tasks
<1>3. p_flags[TASK_SYS] = {} /\ m \in Message
  BY <1>1, <1>2, Tasks, BodyAssumption DEF IInv, Message
<1>4. BothOK'
  BY <1>1, <1>2 DEF IInv, BothOK
<1>5. /\ IInv' /\ halted' = "no"
      /\ (\E from \in Proc \ {TASK_SYS} : Taken(TASK_SYS, ANY, from)) \/ Waits(TASK_SYS, ANY, m)
  BY <1>1, <1>2, <1>3, <1>4, ReceiveDoes, Tasks
<1> HIDE DEF m
<1>6. PMTypeOK' /\ (\A x \in Proc \ User : both[x] = Nil /\ calling[x] = "none")'
  BY <1>1 DEF PInv, PMTypeOK
<1>7. /\ p_flags \in [Proc -> SUBSET Flag] /\ buf \in [Proc -> Message]
      /\ p_sendto \in [Proc -> Proc \cup {NO_TASK}]
      /\ p_recvfrom \in [Proc -> Proc \cup {ANY, NO_TASK}]
  BY <1>2 DEF IInv, TypeOK
<1>8. ASSUME NEW from \in Proc, Taken(TASK_SYS, ANY, from)
      PROVE  PInv'
  <2>1. from \in User /\ Asks(from) /\ calling[from] = "GET_TICKS" /\ buf[from].source = from
        /\ both[from] = TASK_SYS /\ Server(calling[from]) = TASK_SYS
    BY <1>2, <1>8, WhoSends, Tasks DEF Taken, Answers, Server, Asks
  <2>2. /\ \A x \in Proc \ {TASK_SYS, from} : Same(x)
        /\ p_flags'[TASK_SYS] = {} /\ p_flags'[from] = {} /\ buf'[TASK_SYS] = buf[from]
    BY <1>1, <1>3, <1>7, <1>8, <2>1, Tasks DEF Same, Taken
  <2>3. AnswersKept
    BY <1>1, <1>7, <1>8, OthersKeepAnswers, Tasks DEF Taken
  <2>4. Awaits(from, TASK_SYS)'
    BY <1>1, <2>1, <2>2 DEF Awaits, CallType
  <2>5. \A x \in User : UserState(x)'
    BY <1>2, <2>2, <2>3, <2>4, UserKept, Tasks DEF UserState, AnswersKept
  <2>6. \A x \in User, s \in {TASK_SYS, TASK_MM} : Awaits(x, s) => Awaits(x, s)'
    <3>1. \A s \in {TASK_SYS, TASK_MM} : ~ Awaits(from, s)
      BY <2>1 DEF Asks, Awaits
    <3> QED
      BY <3>1, <2>2, AwaitsKept, Tasks
  <2>7. SysState'
    BY <1>1, <2>1, <2>2, <2>4 DEF SysState
  <2>8. MMState'
    BY <1>1, <1>2, <1>7, <1>8, <2>1, <2>2, <2>3, <2>6, MMKept, Tasks DEF PInv, Taken, Asks
  <2> QED
    BY <1>1, <1>2, <1>5, <1>6, <2>5, <2>7, <2>8 DEF PInv
<1>9. ASSUME Waits(TASK_SYS, ANY, m)
      PROVE  PInv'
  <2>1. (\A x \in Proc \ {TASK_SYS} : Same(x)) /\ p_flags'[TASK_SYS] = {"RECEIVING"}
    BY <1>1, <1>7, <1>9, Tasks DEF Same, Waits
  <2>2. AnswersKept
    BY <1>1, <1>7, <1>9, OthersKeepAnswers, Tasks DEF Waits
  <2>3. \A x \in User : UserState(x)'
    BY <1>2, <2>1, <2>2, UserKept, Tasks DEF AnswersKept
  <2>4. \A x \in User, s \in {TASK_SYS, TASK_MM} : Awaits(x, s) => Awaits(x, s)'
    BY <2>1, AwaitsKept, Tasks
  <2>5. SysState'
    BY <1>1, <2>1 DEF SysState
  <2>6. MMState'
    BY <1>1, <1>2, <1>7, <1>9, <2>1, <2>2, <2>4, MMKept, Tasks DEF PInv, Waits
  <2> QED
    BY <1>1, <1>2, <1>5, <1>6, <2>3, <2>5, <2>6 DEF PInv
<1> QED
  BY <1>5, <1>8, <1>9

\* The answer of task_sys goes to a process that awaits it.
LEMMA SysReplyInv ==
  ASSUME PInv, ForkFragment, SysReply
  PROVE  PInv'
<1>0. PICK d : d = buf[TASK_SYS].source
  OBVIOUS
<1> DEFINE m == [source |-> TASK_SYS, body |-> [buf[TASK_SYS].body EXCEPT !.val = TICKS]]
<1>1. /\ halted = "no" /\ ready_process = TASK_SYS /\ sys_pc = "got" /\ sys_pc' = "recv"
      /\ msg_send(TASK_SYS, d, m)
      /\ UNCHANGED <<both, calling, p_parent, exit_status, base, mm_pc, mm_msg, mm_p, mm_reg>>
  BY <1>0 DEF SysReply, Send, Running, procvars, mmvars
<1>2. mm_pc \notin {"copy_flags", "copy_rest"} /\ IInv /\ \A x \in User : UserState(x)
  BY <1>1, NotCopying, Tasks
<1>3. /\ p_flags \in [Proc -> SUBSET Flag] /\ buf \in [Proc -> Message]
      /\ p_sendto \in [Proc -> Proc \cup {NO_TASK}]
      /\ p_recvfrom \in [Proc -> Proc \cup {ANY, NO_TASK}]
  BY <1>2 DEF IInv, TypeOK
<1>4. p_flags[TASK_SYS] = {} /\ m \in Message
  <2>1. buf[TASK_SYS].body \in MsgBody
    BY <1>3, Tasks DEF Message, ForkFragment
  <2>2. [buf[TASK_SYS].body EXCEPT !.val = TICKS] \in MsgBody
    BY <2>1 DEF MsgBody, Word
  <2> QED
    BY <1>1, <1>2, <2>2, Tasks DEF IInv, Message, ForkFragment
<1> HIDE DEF m
<1>5. d \in User /\ Awaits(d, TASK_SYS)
  BY <1>0, <1>1, <1>4 DEF PInv, SysState
<1>6. "SENDING" \notin p_flags[d] /\ d \in Proc \ {TASK_SYS, TASK_MM}
  BY <1>5, Tasks DEF Awaits
<1>7. BothOK'
  BY <1>1, <1>2 DEF IInv, BothOK
<1>8. IInv' /\ halted' = "no" /\ (Delivered(TASK_SYS, d, m) \/ Queues(TASK_SYS, d, m))
  BY <1>1, <1>2, <1>4, <1>6, <1>7, SendDoes, NoDeadlock, Tasks
<1>9. PMTypeOK' /\ (\A x \in Proc \ User : both[x] = Nil /\ calling[x] = "none")'
  BY <1>1 DEF PInv, PMTypeOK
<1>10. ASSUME Delivered(TASK_SYS, d, m)
       PROVE  PInv'
  <2>1. /\ \A x \in Proc \ {TASK_SYS, d} : Same(x)
        /\ p_flags'[TASK_SYS] = {} /\ p_flags'[d] = {} /\ p_flags[d] = {"RECEIVING"}
    BY <1>1, <1>3, <1>4, <1>6, <1>10, Tasks DEF Same, Delivered
  <2>2. AnswersKept
    BY <1>1, <1>3, <1>6, <1>10, OthersKeepAnswers, Tasks DEF Delivered
  <2>3. calling[d] = "GET_TICKS" /\ both[d] = Nil
    BY <1>5, <2>1, <1>6, Tasks DEF Awaits, Server, PInv, PMTypeOK
  <2>4. UserState(d)'
    BY <1>1, <2>1, <2>3 DEF UserState, Answered
  <2>5. \A x \in User : UserState(x)'
    BY <1>2, <2>1, <2>2, <2>4, UserKept, Tasks DEF AnswersKept
  <2>6. \A x \in User : Awaits(x, TASK_MM) => Awaits(x, TASK_MM)'
    <3>1. ~ Awaits(d, TASK_MM)
      BY <1>5, Tasks DEF Awaits
    <3> QED
      BY <3>1, <2>1, AwaitsKept, Tasks
  <2>7. SysState'
    BY <1>1, <2>1 DEF SysState
  <2>8. MMState'
    BY <1>1, <1>2, <1>3, <1>6, <1>10, <2>1, <2>2, <2>6, MMKept, Tasks DEF PInv, Delivered
  <2> QED
    BY <1>1, <1>2, <1>8, <1>9, <2>5, <2>7, <2>8 DEF PInv
<1>11. ASSUME Queues(TASK_SYS, d, m)
       PROVE  PInv'
  <2>1. /\ \A x \in Proc \ {TASK_SYS} : Same(x)
        /\ p_flags'[TASK_SYS] = {"SENDING"} /\ p_sendto'[TASK_SYS] = d
    BY <1>1, <1>3, <1>11, Tasks DEF Same, Queues
  <2>2. AnswersKept
    BY <1>1, <1>3, <1>11, OthersKeepAnswers, Tasks DEF Queues
  <2>3. \A x \in User : UserState(x)'
    BY <1>2, <2>1, <2>2, UserKept, Tasks DEF AnswersKept
  <2>4. \A x \in User, s \in {TASK_SYS, TASK_MM} : Awaits(x, s) => Awaits(x, s)'
    BY <2>1, AwaitsKept, Tasks
  <2>5. SysState'
    BY <1>1, <1>5, <2>1, <2>4 DEF SysState
  <2>6. MMState'
    BY <1>1, <1>2, <1>3, <1>11, <2>1, <2>2, <2>4, MMKept, Tasks DEF PInv, Queues
  <2> QED
    BY <1>1, <1>2, <1>8, <1>9, <2>3, <2>5, <2>6 DEF PInv
<1> QED
  BY <1>8, <1>10, <1>11

-----------------------------------------------------------------------------
(* task_mm: receiving and answering                                         *)

\* IInv says little of the messages: of both only that nobody receives from itself.
LEMMA ImageIInv ==
  ASSUME IInv, UNCHANGED <<table, ready_process, halted>>, BothOK',
         buf' \in [Proc -> Message]
  PROVE  IInv'
<1> USE DEF table
<1>1. TypeOK' /\ halted' \in {"no", "panic"} /\ p_flags'[ready_process'] = {}
  BY DEF IInv, TypeOK, BothOK
<1>2. (FlagShape /\ TtyRuns /\ FieldsMatchFlags)'
  BY DEF IInv, FlagShape, TtyRuns, FieldsMatchFlags, CallerIdle
<1>3. (HeadsAreSenders /\ LinksJoinSenders /\ SendersAreLinked /\ LinkedOnce)'
  BY DEF IInv, HeadsAreSenders, LinksJoinSenders, SendersAreLinked, LinkedOnce, Sending
<1>4. (LinksAcyclic /\ LinksHaveFirst /\ NoMissedRendezvous /\ NoSendCycle)'
  BY DEF IInv, LinksAcyclic, LinksHaveFirst, NoMissedRendezvous, NoSendCycle, Sending, Accepts
<1> QED
  BY <1>1, <1>2, <1>3, <1>4 DEF IInv

\* task_mm takes the request of a process, which then awaits the answer.
LEMMA MMReceiveInv ==
  ASSUME PInv, ForkFragment, MMReceive
  PROVE  PInv'
<1> DEFINE m == [source |-> TASK_MM, body |-> ZeroBody]
<1>1. /\ halted = "no" /\ ready_process = TASK_MM /\ mm_pc = "recv" /\ mm_pc' = "dispatch"
      /\ msg_receive(TASK_MM, ANY, m)
      /\ UNCHANGED <<both, calling, p_parent, exit_status, base, mm_msg, mm_p, mm_reg, sys_pc>>
  BY DEF MMReceive, Receive, Running, procvars
<1>2. IInv /\ \A x \in User : UserState(x)
  BY <1>1 DEF PInv, Copied
<1>3. p_flags[TASK_MM] = {} /\ m \in Message
  BY <1>1, <1>2, Tasks, BodyAssumption DEF IInv, Message
<1>4. BothOK'
  BY <1>1, <1>2 DEF IInv, BothOK
<1>5. /\ IInv' /\ halted' = "no"
      /\ (\E from \in Proc \ {TASK_MM} : Taken(TASK_MM, ANY, from)) \/ Waits(TASK_MM, ANY, m)
  BY <1>1, <1>2, <1>3, <1>4, ReceiveDoes, Tasks
<1> HIDE DEF m
<1>6. PMTypeOK' /\ (\A x \in Proc \ User : both[x] = Nil /\ calling[x] = "none")'
  BY <1>1 DEF PInv, PMTypeOK
<1>7. /\ p_flags \in [Proc -> SUBSET Flag] /\ buf \in [Proc -> Message]
      /\ p_sendto \in [Proc -> Proc \cup {NO_TASK}]
      /\ p_recvfrom \in [Proc -> Proc \cup {ANY, NO_TASK}]
  BY <1>2 DEF IInv, TypeOK
<1>8. ASSUME NEW from \in Proc, Taken(TASK_MM, ANY, from)
      PROVE  PInv'
  <2>1. /\ from \in User /\ Asks(from) /\ calling[from] = "FORK" /\ buf[from].source = from
        /\ buf[from].body.type = "FORK" /\ both[from] = TASK_MM /\ Server(calling[from]) = TASK_MM
    BY <1>8, WhoSends, Tasks DEF Taken, Answers, Server, Asks
  <2>2. /\ \A x \in Proc \ {TASK_MM, from} : Same(x)
        /\ p_flags'[TASK_MM] = {} /\ p_flags'[from] = {} /\ buf'[TASK_MM] = buf[from]
    BY <1>1, <1>3, <1>7, <1>8, <2>1, Tasks DEF Same, Taken
  <2>3. AnswersKept
    BY <1>1, <1>7, <1>8, OthersKeepAnswers, Tasks DEF Taken
  <2>4. Awaits(from, TASK_MM)'
    BY <1>1, <2>1, <2>2 DEF Awaits, CallType
  <2>5. \A x \in User : UserState(x)'
    BY <1>2, <2>2, <2>3, <2>4, UserKept, Tasks DEF UserState, AnswersKept
  <2>6. \A x \in User : Awaits(x, TASK_SYS) => Awaits(x, TASK_SYS)'
    <3>1. ~ Awaits(from, TASK_SYS)
      BY <2>1 DEF Asks, Awaits
    <3> QED
      BY <3>1, <2>2, AwaitsKept, Tasks
  <2>7. SysState'
    BY <1>1, <2>1, <2>2, <2>6, SysKept, Tasks DEF PInv
  <2>8. MMState'
    BY <1>1, <2>1, <2>2, <2>4 DEF MMState
  <2> QED
    BY <1>1, <1>5, <1>6, <2>5, <2>7, <2>8 DEF PInv
<1>9. ASSUME Waits(TASK_MM, ANY, m)
      PROVE  PInv'
  <2>1. (\A x \in Proc \ {TASK_MM} : Same(x)) /\ p_flags'[TASK_MM] = {"RECEIVING"}
    BY <1>1, <1>7, <1>9, Tasks DEF Same, Waits
  <2>2. AnswersKept
    BY <1>1, <1>7, <1>9, OthersKeepAnswers, Tasks DEF Waits
  <2>3. \A x \in User : UserState(x)'
    BY <1>2, <2>1, <2>2, UserKept, Tasks DEF AnswersKept
  <2>4. SysState'
    BY <1>1, <2>1, AwaitsKept, SysKept, Tasks DEF PInv
  <2>5. MMState'
    BY <1>1, <2>1 DEF MMState
  <2> QED
    BY <1>1, <1>5, <1>6, <2>3, <2>4, <2>5 DEF PInv
<1> QED
  BY <1>5, <1>8, <1>9

\* An answer of task_mm goes to a process that awaits it.
LEMMA MMSends ==
  ASSUME PInv, mm_pc \in {"invoke", "reply"}, Running(TASK_MM),
         NEW d \in User, NEW m \in Message, Awaits(d, TASK_MM), ForkAnswer(d, m),
         msg_send(TASK_MM, d, m),
         UNCHANGED <<both, calling, p_parent, base, mm_p, sys_pc>>, mm_pc' \in {"recv", "reply"}
  PROVE  /\ IInv' /\ halted' = "no"
         /\ (\A x \in Proc \ User : both[x] = Nil /\ calling[x] = "none")'
         /\ \A x \in User : UserState(x)'
         /\ SysState'
         /\ \A x \in User \ {d} : Awaits(x, TASK_MM) => Awaits(x, TASK_MM)'
         /\ \A x \in User : p_flags'[x] = {"FREE_SLOT"} => p_flags[x] = {"FREE_SLOT"}
         /\ AnswersKept
         /\ p_flags'[TASK_MM] = {} \/ Answers(d)'
<1>1. halted = "no" /\ ready_process = TASK_MM /\ mm_pc \notin {"copy_flags", "copy_rest"}
  BY DEF Running
<1>2. IInv /\ \A x \in User : UserState(x)
  BY <1>1 DEF PInv, Copied
<1>3. p_flags[TASK_MM] = {}
  BY <1>1, <1>2 DEF IInv
<1>4. "SENDING" \notin p_flags[d] /\ d \in Proc \ {TASK_SYS, TASK_MM}
  BY Tasks DEF Awaits
<1>5. BothOK'
  BY <1>2 DEF IInv, BothOK
<1>6. IInv' /\ halted' = "no" /\ (Delivered(TASK_MM, d, m) \/ Queues(TASK_MM, d, m))
  BY <1>1, <1>2, <1>4, <1>5, SendDoes, NoDeadlock, Tasks
<1>7. /\ p_flags \in [Proc -> SUBSET Flag] /\ buf \in [Proc -> Message]
      /\ p_sendto \in [Proc -> Proc \cup {NO_TASK}]
      /\ p_recvfrom \in [Proc -> Proc \cup {ANY, NO_TASK}]
  BY <1>2 DEF IInv, TypeOK
<1>8. (\A x \in Proc \ User : both[x] = Nil /\ calling[x] = "none")'
  BY DEF PInv
<1>9. \A x \in User : p_flags'[x] = {"FREE_SLOT"} => p_flags[x] = {"FREE_SLOT"}
  BY <1>4, <1>6, <1>7, Tasks DEF Delivered, Queues
<1>10. AnswersKept
  BY <1>9, OthersKeepAnswers
<1>11. ForkAnswer(d, m)'
  BY <1>10, KeptAnswer DEF AnswersKept
<1>12. CASE Delivered(TASK_MM, d, m)
  <2>1. /\ \A x \in Proc \ {TASK_MM, d} : Same(x)
        /\ p_flags'[TASK_MM] = {} /\ p_flags'[d] = {} /\ p_flags[d] = {"RECEIVING"} /\ buf'[d] = m
    BY <1>3, <1>4, <1>7, <1>12, Tasks DEF Same, Delivered
  <2>2. calling[d] = "FORK" /\ both[d] = Nil
    <3>1. calling[d] \in {"none", "FORK", "GET_TICKS"}
      BY <1>4 DEF PInv, PMTypeOK
    <3> QED
      BY <2>1, <3>1, Tasks DEF Awaits, Server, CallType
  <2>3. ForkAnswer(d, buf[d])'
    BY <1>11, <2>1, Zenon DEF ForkAnswer
  <2>4. UserState(d)'
    BY <2>1, <2>2, <2>3 DEF UserState, Answered
  <2>5. \A x \in User : UserState(x)'
    BY <1>2, <1>10, <2>1, <2>4, UserKept, Tasks DEF AnswersKept
  <2>6. \A x \in User \ {d}, s \in {TASK_SYS, TASK_MM} : Awaits(x, s) => Awaits(x, s)'
    BY <2>1, AwaitsKept, Tasks
  <2>7. ~ Awaits(d, TASK_SYS)
    BY Tasks DEF Awaits
  <2>8. SysState'
    BY <1>4, <2>1, <2>6, <2>7, SysKept, Tasks DEF PInv
  <2> QED
    BY <1>6, <1>8, <1>9, <1>10, <2>1, <2>5, <2>6, <2>8
<1>13. CASE Queues(TASK_MM, d, m)
  <2>1. /\ \A x \in Proc \ {TASK_MM} : Same(x)
        /\ p_flags'[TASK_MM] = {"SENDING"} /\ p_sendto'[TASK_MM] = d /\ buf'[TASK_MM] = m
    BY <1>7, <1>13, Tasks DEF Same, Queues
  <2>2. \A x \in User : UserState(x)'
    BY <1>2, <1>10, <2>1, UserKept, Tasks DEF AnswersKept
  <2>3. \A x \in User, s \in {TASK_SYS, TASK_MM} : Awaits(x, s) => Awaits(x, s)'
    BY <2>1, AwaitsKept, Tasks
  <2>4. SysState'
    BY <1>4, <2>1, <2>3, SysKept, Tasks DEF PInv
  <2>5. ForkAnswer(d, buf[TASK_MM])'
    BY <1>11, <2>1, Zenon DEF ForkAnswer
  <2>6. Answers(d)'
    BY <2>1, <2>3, <2>5 DEF Answers
  <2> QED
    BY <1>6, <1>8, <1>9, <1>10, <2>2, <2>3, <2>4, <2>6
<1> QED
  BY <1>6, <1>12, <1>13

\* The reply to the caller.
LEMMA MMReplyInv ==
  ASSUME PInv, ForkFragment, MMReply
  PROVE  PInv'
<1>0. PICK d, m : d = src /\ m = Reply
  OBVIOUS
<1>1. /\ Running(TASK_MM) /\ mm_pc = "reply" /\ mm_pc' = "recv" /\ msg_send(TASK_MM, d, m)
      /\ UNCHANGED <<both, calling, p_parent, exit_status, base, mm_msg, mm_p, mm_reg, sys_pc>>
  BY <1>0 DEF MMReply, MMSend, Send, procvars, Reply
<1>2. d \in User /\ Awaits(d, TASK_MM) /\ ForkAnswer(d, m)
  BY <1>0, <1>1 DEF PInv, MMState, Serves
<1>3. m \in Message
  <2>1. mm_msg.body \in MsgBody
    BY DEF PInv, PMTypeOK, Message, ForkFragment
  <2> QED
    BY <1>0, <2>1, Tasks DEF Message, ForkFragment, Reply, MsgBody
<1>4. /\ IInv' /\ halted' = "no"
      /\ (\A x \in Proc \ User : both[x] = Nil /\ calling[x] = "none")'
      /\ \A x \in User : UserState(x)'
      /\ SysState'
      /\ p_flags'[TASK_MM] = {} \/ Answers(d)'
  BY <1>1, <1>2, <1>3, MMSends
<1>5. MMState'
  BY <1>1, <1>4 DEF MMState, Answers
<1>6. PMTypeOK'
  BY <1>1 DEF PInv, PMTypeOK
<1> QED
  BY <1>1, <1>4, <1>5, <1>6 DEF PInv

\* The message that invokes the child; what is said of the child in the reply
\* is true from here on.
LEMMA ForkInvokeInv ==
  ASSUME PInv, ForkFragment, ForkInvoke
  PROVE  PInv'
<1> DEFINE m == [source |-> TASK_MM, body |-> [type |-> "SYSCALL_RET", val |-> 0, pid |-> 0]]
<1>0. PICK d, q : d = mm_p /\ q = src
  OBVIOUS
<1>1. /\ Running(TASK_MM) /\ mm_pc = "invoke" /\ mm_pc' = "reply" /\ msg_send(TASK_MM, d, m)
      /\ mm_msg' = [mm_msg EXCEPT !.body.val = 0]
      /\ UNCHANGED <<both, calling, p_parent, exit_status, base, mm_p, mm_reg, sys_pc>>
  BY <1>0 DEF ForkInvoke, MMSend, Send, procvars
<1>2. /\ d \in User \ {q} /\ d >= NR_LIVE /\ Awaits(d, TASK_MM) /\ base[d] = FORK_BASE
      /\ q \in User /\ Awaits(q, TASK_MM) /\ p_parent[d] = q /\ mm_msg.body.pid = d
  BY <1>0, <1>1 DEF PInv, MMState, Forks, Serves
<1>3. ForkAnswer(d, m)
  BY <1>2 DEF ForkAnswer
<1>4. m \in Message
  BY Tasks DEF Message, ForkFragment, MsgBody, Word
<1> HIDE DEF m
<1>5. /\ IInv' /\ halted' = "no"
      /\ (\A x \in Proc \ User : both[x] = Nil /\ calling[x] = "none")'
      /\ \A x \in User : UserState(x)'
      /\ SysState'
      /\ \A x \in User \ {d} : Awaits(x, TASK_MM) => Awaits(x, TASK_MM)'
      /\ \A x \in User : p_flags'[x] = {"FREE_SLOT"} => p_flags[x] = {"FREE_SLOT"}
      /\ p_flags'[TASK_MM] = {} \/ Answers(d)'
  BY <1>1, <1>2, <1>3, <1>4, MMSends
<1>6. mm_msg \in Message /\ mm_msg.body \in MsgBody
  BY DEF PInv, PMTypeOK, Message, ForkFragment
<1>7. /\ mm_msg' \in Message /\ mm_msg'.source = mm_msg.source /\ mm_msg'.body.pid = d
      /\ mm_msg'.body.val = 0
  BY <1>1, <1>2, <1>6 DEF Message, ForkFragment, MsgBody, Word
<1>8. src' = q
  BY <1>0, <1>7 DEF src
<1>9. p_flags'[d] # {"FREE_SLOT"}
  BY <1>2, <1>5 DEF Awaits
<1>10. ForkAnswer(src, Reply)'
  BY <1>1, <1>2, <1>7, <1>8, <1>9 DEF ForkAnswer, Reply, Made
<1>11. Serves'
  BY <1>2, <1>5, <1>8 DEF Serves
<1>12. mm_p' = d /\ mm_p' # src'
  BY <1>0, <1>1, <1>2, <1>8
<1>13. MMState'
  BY <1>1, <1>5, <1>10, <1>11, <1>12 DEF MMState
<1>14. PMTypeOK'
  BY <1>1, <1>7 DEF PInv, PMTypeOK
<1> QED
  BY <1>1, <1>5, <1>13, <1>14 DEF PInv

\* task_mm turns to the request it got.
LEMMA MMDispatchInv ==
  ASSUME PInv, ForkFragment, MMDispatch
  PROVE  PInv'
<1>1. /\ halted = "no" /\ ready_process = TASK_MM /\ mm_pc = "dispatch"
      /\ mm_msg' = buf[TASK_MM] /\ mm_pc' = buf[TASK_MM].body.type
      /\ UNCHANGED <<p_flags, p_recvfrom, p_sendto, msg, q_sending, next_sending, buf, both,
                     ready_process, halted, calling, p_parent, exit_status, base, mm_p, mm_reg, sys_pc>>
  BY DEF MMDispatch, At, Running, vars, table, procvars
<1>2. IInv /\ \A x \in User : UserState(x)
  BY <1>1 DEF PInv, Copied
<1>3. p_flags[TASK_MM] = {}
  BY <1>1, <1>2 DEF IInv
<1>4. buf[TASK_MM].source \in User /\ Awaits(buf[TASK_MM].source, TASK_MM) /\ mm_pc' = "FORK"
  BY <1>1, <1>3 DEF PInv, MMState
<1>5. IInv'
  BY <1>1, <1>2, NextIInv DEF vars, table
<1>6. AnswersKept
  BY <1>1, <1>4, OthersKeepAnswers
<1>7. \A x \in Proc : Same(x)
  BY <1>1 DEF Same
<1>8. \A x \in User : UserState(x)'
  BY <1>2, <1>6, <1>7, UserKept, Tasks DEF AnswersKept
<1>9. SysState'
  BY <1>1, <1>7, AwaitsKept, SysKept, Tasks DEF PInv
<1>10. PICK q \in User : q = buf[TASK_MM].source
  BY <1>4
<1>11. src' = q /\ Awaits(q, TASK_MM)'
  BY <1>1, <1>4, <1>7, <1>10, AwaitsKept, Tasks DEF src
<1>12. MMState'
  BY <1>1, <1>3, <1>4, <1>11 DEF MMState, Serves
<1>13. PMTypeOK' /\ (\A x \in Proc \ User : both[x] = Nil /\ calling[x] = "none")'
  BY <1>1, <1>2, Tasks DEF PInv, PMTypeOK, IInv, TypeOK
<1> QED
  BY <1>1, <1>4, <1>5, <1>8, <1>9, <1>12, <1>13 DEF PInv

-----------------------------------------------------------------------------
(* do_fork                                                                  *)

\* The scan finds the first free slot, which no process of init_proc has.
LEMMA ForkScanInv ==
  ASSUME PInv, ForkFragment, ForkScan
  PROVE  PInv'
<1>0. PICK q : q = src
  OBVIOUS
<1>1. /\ halted = "no" /\ ready_process = TASK_MM /\ mm_pc = "FORK"
      /\ UNCHANGED <<p_flags, p_recvfrom, p_sendto, msg, q_sending, next_sending, buf, both,
                     ready_process, calling, p_parent, exit_status, base, mm_reg, sys_pc>>
  BY DEF ForkScan, At, Running, table, procvars
<1>2. IInv /\ \A x \in User : UserState(x)
  BY <1>1 DEF PInv, Copied
<1>3. p_flags[TASK_MM] = {}
  BY <1>1, <1>2 DEF IInv
<1>4. q \in User /\ Awaits(q, TASK_MM)
  BY <1>0, <1>1 DEF PInv, MMState, Serves
<1>5. mm_msg \in Message /\ mm_msg.body \in MsgBody
  BY DEF PInv, PMTypeOK, Message, ForkFragment
<1>6. \A x \in Proc : Same(x)
  BY <1>1 DEF Same
<1>7. ASSUME halted' = "no", mm_pc' \in {"reply", "copy_regs"}, MMState', mm_msg' \in Message,
             mm_p' \in Proc
      PROVE  PInv'
  <2>1. IInv'
    BY <1>1, <1>2, <1>7, NextIInv DEF vars, table
  <2>2. AnswersKept
    BY <1>1, <1>7, OthersKeepAnswers
  <2>3. \A x \in User : UserState(x)'
    BY <1>2, <1>6, <2>2, UserKept, Tasks DEF AnswersKept
  <2>4. SysState'
    BY <1>1, <1>6, AwaitsKept, SysKept, Tasks DEF PInv
  <2>5. PMTypeOK' /\ (\A x \in Proc \ User : both[x] = Nil /\ calling[x] = "none")'
    BY <1>1, <1>7 DEF PInv, PMTypeOK
  <2> QED
    BY <1>7, <2>1, <2>3, <2>4, <2>5 DEF PInv
<1>8. Awaits(q, TASK_MM)'
  BY <1>4, <1>6, AwaitsKept, Tasks
<1>9. CASE FreeSlots = {}
  <2>1. /\ mm_msg' = [mm_msg EXCEPT !.body.val = -1] /\ mm_pc' = "reply"
        /\ mm_p' = mm_p /\ halted' = halted
    BY <1>9 DEF ForkScan
  <2>2. mm_msg' \in Message /\ mm_msg'.source = mm_msg.source /\ mm_msg'.body.val = -1
    BY <1>5, <2>1 DEF Message, ForkFragment, MsgBody, Word
  <2>3. src' = q
    BY <1>0, <2>2 DEF src
  <2>4. Serves' /\ ForkAnswer(src, Reply)'
    BY <1>4, <1>8, <2>2, <2>3 DEF Serves, ForkAnswer, Reply
  <2>5. MMState'
    BY <1>1, <1>3, <2>1, <2>4 DEF MMState
  <2> QED
    BY <1>1, <1>7, <2>1, <2>2, <2>5 DEF PInv, PMTypeOK
<1>10. CASE FreeSlots # {}
  <2>1. /\ mm_p' = Min(FreeSlots) /\ mm_pc' = "copy_regs" /\ mm_msg' = mm_msg
        /\ Outcome(mm_p' >= NR_LIVE, FALSE)
    BY <1>10 DEF ForkScan
  <2>2. Min(FreeSlots) \in FreeSlots
    <3>1. FreeSlots \in SUBSET Nat
      BY SizeAssumption DEF FreeSlots, Proc
    <3>2. \E x \in FreeSlots : \A y \in FreeSlots : x =< y
      BY <1>10, <3>1, LeastNat
    <3> QED
      BY <3>2 DEF Min
  <2>3. PICK c \in Proc : c = mm_p' /\ p_flags[c] = {"FREE_SLOT"}
    BY <2>1, <2>2 DEF FreeSlots
  <2>4. c \notin {TASK_SYS, TASK_MM, TASK_TTY}
    BY <1>2, <1>3, <2>3 DEF PInv, SysState, IInv, TtyRuns
  <2>5. c \in User
    BY <2>4, Tasks
  <2>6. c >= NR_LIVE
    BY <1>2, <2>3, <2>5 DEF UserState, Free, Idle, Asks, Awaits, Answered
  <2>7. halted' = "no"
    BY <2>1, <2>3, <2>6 DEF Outcome
  <2>8. Serves'
    BY <1>0, <1>4, <1>8, <2>1 DEF Serves, src
  <2>9. MMState'
    BY <1>1, <1>3, <2>1, <2>3, <2>5, <2>6, <2>8 DEF MMState
  <2> QED
    BY <1>5, <1>7, <2>1, <2>3, <2>7, <2>9
<1> QED
  BY <1>9, <1>10

\* The registers of the caller go to a slot that is still free.
LEMMA ForkCopyRegsInv ==
  ASSUME PInv, ForkFragment, ForkCopyRegs
  PROVE  PInv'
<1>0. PICK q, c : q = src /\ c = mm_p
  OBVIOUS
<1>1. /\ halted = "no" /\ ready_process = TASK_MM /\ mm_pc = "copy_regs" /\ mm_pc' = "copy_flags"
      /\ calling' = [calling EXCEPT ![c] = calling[q]]
      /\ both' = [both EXCEPT ![c] = both[q]]
      /\ base' = [base EXCEPT ![c] = base[q]]
      /\ UNCHANGED <<p_flags, p_recvfrom, p_sendto, msg, q_sending, next_sending, buf,
                     ready_process, halted, p_parent, exit_status, mm_msg, mm_p, mm_reg, sys_pc>>
  BY <1>0 DEF ForkCopyRegs, At, Running, table
<1>2. IInv /\ \A x \in User : UserState(x)
  BY <1>1 DEF PInv, Copied
<1>3. p_flags[TASK_MM] = {}
  BY <1>1, <1>2 DEF IInv
<1>4. /\ q \in User /\ Awaits(q, TASK_MM)
      /\ c \in User /\ p_flags[c] = {"FREE_SLOT"} /\ c >= NR_LIVE
  BY <1>0, <1>1 DEF PInv, MMState, Serves
<1>5. c # q /\ both[q] \in {TASK_MM, Nil} /\ both[q] # c /\ q \in Proc /\ c \in Proc
  BY <1>4, Tasks DEF Awaits
<1>6. /\ calling \in [Proc -> {"none", "FORK", "GET_TICKS"}] /\ base \in [Proc -> {0, FORK_BASE}]
      /\ both \in [Proc -> Proc \cup {Nil}] /\ buf \in [Proc -> Message]
  BY <1>2 DEF PInv, PMTypeOK, IInv, TypeOK
<1>7. BothOK'
  BY <1>1, <1>2, <1>5, <1>6, Tasks DEF IInv, BothOK
<1>8. IInv'
  BY <1>1, <1>2, <1>6, <1>7, ImageIInv DEF table
<1>9. \A x \in Proc \ {c} : Same(x)
  BY <1>1, <1>6 DEF Same
<1>10. \A x \in User \ {c} : Kept(x)
  <2>1. \A y \in User : Made(y) => Made(y)' /\ y # c
    BY <1>0, <1>1, <1>4 DEF Made
  <2>2. \A x \in Proc \ {c} : base'[x] = base[x]
    BY <1>1, <1>6
  <2> QED
    BY <1>1, <2>1, <2>2, Tasks DEF Kept, ForkAnswer
<1>11. \A x \in User : x = c \/ UserState(x)'
  BY <1>2, <1>9, <1>10, UserKept, Tasks
<1>12. \A x \in User, s \in {TASK_SYS, TASK_MM} : Awaits(x, s) => Awaits(x, s)'
  <2>1. \A s \in {TASK_SYS, TASK_MM} : ~ Awaits(c, s)
    BY <1>4 DEF Awaits
  <2> QED
    BY <1>9, <2>1, AwaitsKept, Tasks
<1>13. SysState'
  BY <1>1, <1>4, <1>9, <1>12, SysKept, Tasks DEF PInv
<1>14. MMState'
  <2>1. src' = q /\ mm_p' = c
    BY <1>0, <1>1 DEF src
  <2>2. calling'[c] = calling'[q] /\ both'[c] = both'[q]
    BY <1>1, <1>5, <1>6
  <2>3. Serves'
    BY <1>4, <1>12, <2>1 DEF Serves
  <2> QED
    BY <1>1, <1>3, <1>4, <2>1, <2>2, <2>3 DEF MMState, Running
<1>15. PMTypeOK' /\ (\A x \in Proc \ User : both[x] = Nil /\ calling[x] = "none")'
  BY <1>1, <1>4, <1>5, <1>6 DEF PInv, PMTypeOK
<1> QED
  BY <1>0, <1>1, <1>8, <1>11, <1>13, <1>14, <1>15 DEF PInv, Copied

\* The flags of the caller make the slot a process, whose other fields are
\* those of a free slot; nobody sends to it, so the lists do not change.
LEMMA ForkCopyFlagsInv ==
  ASSUME PInv, ForkFragment, ForkCopyFlags
  PROVE  PInv'
<1>0. PICK q, c : q = src /\ c = mm_p
  OBVIOUS
<1>1. /\ halted = "no" /\ ready_process = TASK_MM /\ mm_pc = "copy_flags" /\ mm_pc' = "copy_rest"
      /\ p_flags' = [p_flags EXCEPT ![c] = p_flags[q]]
      /\ UNCHANGED <<p_recvfrom, p_sendto, msg, q_sending, next_sending, buf, both, calling, base,
                     ready_process, halted, p_parent, exit_status, mm_msg, mm_p, mm_reg, sys_pc>>
  BY <1>0 DEF ForkCopyFlags, SetFlags, At, Running, procvars
<1>2. IInv /\ \A x \in User : x = c \/ UserState(x)
  BY <1>0, <1>1 DEF PInv, Copied
<1>3. p_flags[TASK_MM] = {}
  BY <1>1, <1>2 DEF IInv
<1>4. /\ q \in User /\ Awaits(q, TASK_MM)
      /\ c \in User /\ p_flags[c] = {"FREE_SLOT"} /\ c >= NR_LIVE
      /\ calling[c] = calling[q] /\ both[c] = both[q]
  BY <1>0, <1>1 DEF PInv, MMState, Serves
<1>5. c # q /\ q \in Proc /\ c \in Proc /\ p_flags[q] \in {{}, {"RECEIVING"}}
  BY <1>4, Tasks DEF Awaits
<1>6. p_flags \in [Proc -> SUBSET Flag]
  BY <1>2 DEF IInv, TypeOK
<1>7. p_flags'[c] = p_flags[q] /\ \A x \in Proc \ {c} : p_flags'[x] = p_flags[x]
  BY <1>1, <1>5, <1>6
<1>8. \A x \in Proc \ {c} : Same(x)
  BY <1>1, <1>7 DEF Same
<1>9. \A x \in Proc : ~ Sending(x, c)
  <2>1. \A s \in {TASK_SYS, TASK_MM} : ~ Awaits(c, s)
    BY <1>4 DEF Awaits
  <2> QED
    BY <1>4, <1>5, <2>1, WhoSends, Tasks DEF Answers, Server
<1>10. CopyInv'
  <2>1. \A x \in Proc : \A y : Sending(x, y)' <=> Sending(x, y)
    BY <1>1, <1>4, <1>5, <1>7 DEF Sending
  <2>2. \A x \in Proc : "SENDING" \in p_flags'[x] <=> "SENDING" \in p_flags[x]
    BY <1>4, <1>5, <1>7
  <2>3. TypeOK' /\ BothOK'
    BY <1>1, <1>2, <1>5, <1>6 DEF IInv, TypeOK, BothOK
  <2>4. FlagShape' /\ TtyRuns' /\ p_flags'[ready_process'] = {}
    BY <1>1, <1>2, <1>3, <1>4, <1>5, <1>7, Tasks DEF IInv, FlagShape, TtyRuns
  <2>5. FieldsMatchBut(mm_p)'
    BY <1>0, <1>1, <1>2, <1>7 DEF IInv, FieldsMatchFlags, FieldsMatchBut, CallerIdle
  <2>6. (HeadsAreSenders /\ LinksJoinSenders /\ SendersAreLinked /\ LinkedOnce)'
    <3>1. HeadsAreSenders'
      BY <1>1, <1>2, <2>1 DEF IInv, HeadsAreSenders, TypeOK
    <3>2. LinksJoinSenders'
      BY <1>1, <1>2, <2>1, <2>2 DEF IInv, LinksJoinSenders, TypeOK
    <3>3. SendersAreLinked' /\ LinkedOnce'
      BY <1>1, <1>2, <2>1 DEF IInv, SendersAreLinked, LinkedOnce
    <3> QED
      BY <3>1, <3>2, <3>3
  <2>7. LinksAcyclic' /\ LinksHaveFirst'
    BY <1>1, <1>2 DEF IInv, LinksAcyclic, LinksHaveFirst
  <2>8. NoMissedRendezvous'
    BY <1>1, <1>2, <1>7, <1>9, <2>1 DEF IInv, NoMissedRendezvous, Accepts
  <2>9. NoSendCycle'
    BY <1>1, <1>2, <2>2 DEF IInv, NoSendCycle
  <2> QED
    BY <2>3, <2>4, <2>5, <2>6, <2>7, <2>8, <2>9 DEF CopyInv
<1>11. AnswersKept
  <2>1. \A y \in User : Made(y) => Made(y)'
    BY <1>0, <1>1, <1>4, <1>7, Tasks DEF Made
  <2> QED
    BY <1>1, <2>1 DEF AnswersKept, Kept, ForkAnswer
<1>12. \A x \in User : x = c \/ UserState(x)'
  BY <1>2, <1>8, <1>11, UserKept, Tasks DEF AnswersKept
<1>13. \A x \in User, s \in {TASK_SYS, TASK_MM} : Awaits(x, s) => Awaits(x, s)'
  <2>1. \A s \in {TASK_SYS, TASK_MM} : ~ Awaits(c, s)
    BY <1>4 DEF Awaits
  <2> QED
    BY <1>8, <2>1, AwaitsKept, Tasks
<1>14. SysState'
  BY <1>1, <1>4, <1>8, <1>13, SysKept, Tasks DEF PInv
<1>15. MMState'
  <2>1. src' = q /\ mm_p' = c
    BY <1>0, <1>1 DEF src
  <2>2. p_flags'[c] = p_flags'[q] /\ p_flags'[TASK_MM] = {}
    BY <1>3, <1>4, <1>5, <1>7, Tasks
  <2>3. Serves'
    BY <1>4, <1>13, <2>1 DEF Serves
  <2> QED
    BY <1>1, <1>4, <1>5, <2>1, <2>2, <2>3 DEF MMState, Running
<1>16. PMTypeOK' /\ (\A x \in Proc \ User : both[x] = Nil /\ calling[x] = "none")'
  BY <1>1 DEF PInv, PMTypeOK
<1> QED
  BY <1>0, <1>1, <1>10, <1>12, <1>14, <1>15, <1>16 DEF PInv, Copied

\* The rest of the copy: the caller is on no list and has none, so neither has
\* the child, which awaits an answer of task_mm as the caller does.
LEMMA ForkCopyRestInv ==
  ASSUME PInv, ForkFragment, ForkCopyRest
  PROVE  PInv'
<1>0. PICK q, c : q = src /\ c = mm_p
  OBVIOUS
<1>1. /\ halted = "no" /\ ready_process = TASK_MM /\ mm_pc = "copy_rest" /\ mm_pc' = "adopt"
      /\ msg' = [msg EXCEPT ![c] = msg[q]]
      /\ p_recvfrom' = [p_recvfrom EXCEPT ![c] = p_recvfrom[q]]
      /\ p_sendto' = [p_sendto EXCEPT ![c] = p_sendto[q]]
      /\ q_sending' = [q_sending EXCEPT ![c] = q_sending[q]]
      /\ next_sending' = [next_sending EXCEPT ![c] = next_sending[q]]
      /\ p_parent' = [p_parent EXCEPT ![c] = p_parent[q]]
      /\ UNCHANGED <<p_flags, buf, both, calling, base, ready_process, halted,
                     mm_msg, mm_p, mm_reg, sys_pc>>
  BY <1>0 DEF ForkCopyRest, At, Running
<1>2. CopyInv /\ \A x \in User : x = c \/ UserState(x)
  BY <1>0, <1>1 DEF PInv, Copied
<1>3. p_flags[TASK_MM] = {}
  BY <1>1, <1>2 DEF CopyInv
<1>4. /\ q \in User /\ Awaits(q, TASK_MM)
      /\ c \in User \ {q} /\ p_flags[c] = p_flags[q] /\ c >= NR_LIVE
      /\ calling[c] = calling[q] /\ both[c] = both[q]
  BY <1>0, <1>1 DEF PInv, MMState, Serves
<1>5. q \in Proc /\ c \in Proc /\ p_flags[q] \in {{}, {"RECEIVING"}}
  BY <1>4, Tasks DEF Awaits
<1>6. \A x \in Proc : ~ Sending(x, c) /\ ~ Sending(x, q)
  <2>1. ~ Awaits(c, TASK_SYS) /\ ~ Awaits(q, TASK_SYS)
    BY <1>4, Tasks DEF Awaits
  <2> QED
    BY <1>1, <1>4, <1>5, <2>1, WhoSends, Tasks DEF Server
<1>7. /\ q_sending[c] = Nil /\ q_sending[q] = Nil /\ next_sending[c] = Nil /\ next_sending[q] = Nil
  <2>1. q_sending[c] = Nil /\ q_sending[q] = Nil
    BY <1>2, <1>5, <1>6, Tasks DEF CopyInv, TypeOK, HeadsAreSenders
  <2>2. next_sending[c] = Nil /\ next_sending[q] = Nil
    BY <1>2, <1>4, <1>5 DEF CopyInv, LinksJoinSenders
  <2> QED
    BY <2>1, <2>2
<1>8. q_sending' = q_sending /\ next_sending' = next_sending
  BY <1>1, <1>2, <1>7 DEF CopyInv, TypeOK
<1>9. /\ p_sendto \in [Proc -> Proc \cup {NO_TASK}] /\ msg \in [Proc -> {0, 1}]
      /\ p_recvfrom \in [Proc -> Proc \cup {ANY, NO_TASK}]
  BY <1>2 DEF CopyInv, TypeOK
<1>10. /\ \A x \in Proc \ {c} : p_sendto'[x] = p_sendto[x] /\ p_recvfrom'[x] = p_recvfrom[x]
                                /\ msg'[x] = msg[x]
       /\ p_sendto'[c] = p_sendto[q] /\ p_recvfrom'[c] = p_recvfrom[q] /\ msg'[c] = msg[q]
  BY <1>1, <1>5, <1>9
<1>11. \A x \in Proc \ {c} : Same(x)
  BY <1>1, <1>10 DEF Same
<1>12. IInv'
  <2>1. \A x \in Proc : \A y : Sending(x, y)' <=> Sending(x, y)
    BY <1>1, <1>4, <1>5, <1>10 DEF Sending
  <2>2. TypeOK' /\ BothOK'
    BY <1>1, <1>2, <1>5, <1>8, <1>9 DEF CopyInv, TypeOK, BothOK
  <2>3. FlagShape' /\ TtyRuns' /\ p_flags'[ready_process'] = {}
    BY <1>1, <1>2 DEF CopyInv, FlagShape, TtyRuns
  <2>4. FieldsMatchFlags'
    <3>1. ASSUME NEW x \in Proc
          PROVE  /\ p_flags[x] = {} => CallerIdle(x)'
                 /\ p_flags[x] = {"SENDING"} =>
                      msg'[x] = 1 /\ p_recvfrom'[x] = NO_TASK /\ p_sendto'[x] \in Proc
                 /\ p_flags[x] = {"RECEIVING"} => msg'[x] = 1 /\ p_sendto'[x] = NO_TASK
      <4>1. PICK y \in Proc \ {c} : IF x = c THEN y = q ELSE y = x
        BY <1>4, <1>5
      <4>2. /\ p_flags[x] = p_flags[y] /\ msg'[x] = msg[y] /\ p_recvfrom'[x] = p_recvfrom[y]
            /\ p_sendto'[x] = p_sendto[y]
        BY <1>4, <1>10, <4>1
      <4>3. /\ p_flags[y] = {} => CallerIdle(y)
            /\ p_flags[y] = {"SENDING"} =>
                 msg[y] = 1 /\ p_recvfrom[y] = NO_TASK /\ p_sendto[y] \in Proc
            /\ p_flags[y] = {"RECEIVING"} => msg[y] = 1 /\ p_sendto[y] = NO_TASK
        BY <1>0, <1>2 DEF CopyInv, FieldsMatchBut
      <4> QED
        BY <1>1, <4>2, <4>3 DEF CallerIdle
    <3> QED
      BY <1>1, <3>1 DEF FieldsMatchFlags
  <2>5. (HeadsAreSenders /\ LinksJoinSenders /\ SendersAreLinked /\ LinkedOnce)'
    <3>1. HeadsAreSenders'
      BY <1>2, <1>8, <2>1 DEF CopyInv, HeadsAreSenders, TypeOK
    <3>2. LinksJoinSenders'
      BY <1>1, <1>2, <1>7, <1>8, <1>10, <2>1 DEF CopyInv, LinksJoinSenders, TypeOK
    <3>3. SendersAreLinked' /\ LinkedOnce'
      BY <1>2, <1>8, <2>1 DEF CopyInv, SendersAreLinked, LinkedOnce
    <3> QED
      BY <3>1, <3>2, <3>3
  <2>6. LinksAcyclic' /\ LinksHaveFirst'
    BY <1>2, <1>8 DEF CopyInv, LinksAcyclic, LinksHaveFirst
  <2>7. NoMissedRendezvous'
    BY <1>1, <1>2, <1>6, <1>10, <2>1 DEF CopyInv, NoMissedRendezvous, Accepts
  <2>8. NoSendCycle'
    <3>1. \A x \in Proc : "SENDING" \in p_flags[x] => p_sendto'[x] = p_sendto[x]
      BY <1>4, <1>5, <1>10
    <3> QED
      BY <1>1, <1>2, <3>1 DEF CopyInv, NoSendCycle
  <2> QED
    BY <1>1, <2>2, <2>3, <2>4, <2>5, <2>6, <2>7, <2>8 DEF IInv
<1>13. p_parent \in [Proc -> Proc \cup {NO_TASK}]
  BY DEF PInv, PMTypeOK
<1>14. AnswersKept
  <2>1. \A y \in User : Made(y) => Made(y)' /\ y # c
    BY <1>0, <1>1 DEF Made
  <2>2. \A x \in Proc \ {c} : p_parent'[x] = p_parent[x]
    BY <1>1, <1>13
  <2> QED
    BY <1>1, <2>1, <2>2, Tasks DEF AnswersKept, Kept, ForkAnswer
<1>15. Awaits(c, TASK_MM)'
  BY <1>1, <1>4, <1>10 DEF Awaits
<1>16. \A x \in User : UserState(x)'
  BY <1>2, <1>11, <1>14, <1>15, UserKept, Tasks DEF AnswersKept, UserState
<1>17. \A x \in User : Awaits(x, TASK_SYS) => Awaits(x, TASK_SYS)'
  <2>1. ~ Awaits(c, TASK_SYS)
    BY <1>4, Tasks DEF Awaits
  <2> QED
    BY <1>11, <2>1, AwaitsKept, Tasks
<1>18. SysState'
  BY <1>1, <1>4, <1>11, <1>17, SysKept, Tasks DEF PInv
<1>19. MMState'
  <2>1. src' = q /\ mm_p' = c
    BY <1>0, <1>1 DEF src
  <2>2. Awaits(q, TASK_MM)'
    BY <1>4, <1>5, <1>11, AwaitsKept, Tasks
  <2>3. Forks'
    BY <1>4, <1>15, <2>1, <2>2 DEF Forks, Serves
  <2> QED
    BY <1>1, <1>3, <2>3 DEF MMState
<1>20. PMTypeOK' /\ (\A x \in Proc \ User : both[x] = Nil /\ calling[x] = "none")'
  BY <1>1, <1>5, <1>13 DEF PInv, PMTypeOK
<1> QED
  BY <1>1, <1>12, <1>16, <1>18, <1>19, <1>20 DEF PInv

\* The child gets its parent.
LEMMA ForkAdoptInv ==
  ASSUME PInv, ForkFragment, ForkAdopt
  PROVE  PInv'
<1>0. PICK q, c : q = src /\ c = mm_p
  OBVIOUS
<1>1. /\ halted = "no" /\ ready_process = TASK_MM /\ mm_pc = "adopt" /\ mm_pc' = "image"
      /\ p_parent' = [p_parent EXCEPT ![c] = q]
      /\ UNCHANGED <<p_flags, p_recvfrom, p_sendto, msg, q_sending, next_sending, buf, both,
                     ready_process, halted, calling, exit_status, base, mm_msg, mm_p, mm_reg, sys_pc>>
  BY <1>0 DEF ForkAdopt, At, Running, vars, table
<1>2. IInv /\ \A x \in User : UserState(x)
  BY <1>1 DEF PInv, Copied
<1>3. p_flags[TASK_MM] = {}
  BY <1>1, <1>2 DEF IInv
<1>4. q \in User /\ Awaits(q, TASK_MM) /\ c \in User \ {q} /\ c >= NR_LIVE /\ Awaits(c, TASK_MM)
  BY <1>0, <1>1 DEF PInv, MMState, Forks, Serves
<1>5. IInv'
  BY <1>1, <1>2, NextIInv DEF vars, table
<1>6. \A x \in Proc : Same(x)
  BY <1>1 DEF Same
<1>7. p_parent \in [Proc -> Proc \cup {NO_TASK}]
  BY DEF PInv, PMTypeOK
<1>8. AnswersKept
  <2>1. \A y \in User : Made(y) => Made(y)' /\ y # c
    BY <1>0, <1>1 DEF Made
  <2>2. \A x \in Proc \ {c} : p_parent'[x] = p_parent[x]
    BY <1>1, <1>7
  <2> QED
    BY <1>1, <2>1, <2>2, Tasks DEF AnswersKept, Kept, ForkAnswer
<1>9. \A x \in User : UserState(x)'
  BY <1>2, <1>6, <1>8, UserKept, Tasks DEF AnswersKept
<1>10. SysState'
  BY <1>1, <1>6, AwaitsKept, SysKept, Tasks DEF PInv
<1>11. MMState'
  <2>1. src' = q /\ mm_p' = c /\ p_parent'[c] = q
    BY <1>0, <1>1, <1>4, <1>7, Tasks DEF src
  <2>2. Awaits(q, TASK_MM)' /\ Awaits(c, TASK_MM)'
    BY <1>4, <1>6, AwaitsKept, Tasks
  <2>3. Forks'
    BY <1>4, <2>1, <2>2 DEF Forks, Serves
  <2> QED
    BY <1>1, <1>3, <2>1, <2>3 DEF MMState
<1>12. PMTypeOK' /\ (\A x \in Proc \ User : both[x] = Nil /\ calling[x] = "none")'
  BY <1>1, <1>4, <1>7, Tasks DEF PInv, PMTypeOK
<1> QED
  BY <1>1, <1>5, <1>9, <1>10, <1>11, <1>12 DEF PInv

\* The child gets its image and its base.
LEMMA ForkImageInv ==
  ASSUME PInv, ForkFragment, ForkImage
  PROVE  PInv'
<1>0. PICK q, c : q = src /\ c = mm_p
  OBVIOUS
<1>1. /\ halted = "no" /\ ready_process = TASK_MM /\ mm_pc = "image" /\ mm_pc' = "invoke"
      /\ buf' = [buf EXCEPT ![c] = buf[q]]
      /\ base' = [base EXCEPT ![c] = FORK_BASE]
      /\ mm_msg' = [mm_msg EXCEPT !.body.pid = c]
      /\ UNCHANGED <<p_flags, p_recvfrom, p_sendto, msg, q_sending, next_sending, both,
                     ready_process, halted, calling, p_parent, exit_status, mm_p, mm_reg, sys_pc>>
  BY <1>0 DEF ForkImage, At, Running, table
<1>2. IInv /\ \A x \in User : UserState(x)
  BY <1>1 DEF PInv, Copied
<1>3. p_flags[TASK_MM] = {}
  BY <1>1, <1>2 DEF IInv
<1>4. /\ q \in User /\ Awaits(q, TASK_MM) /\ p_parent[c] = q
      /\ c \in User \ {q} /\ c >= NR_LIVE /\ Awaits(c, TASK_MM) /\ c \in Proc /\ q \in Proc
  BY <1>0, <1>1, Tasks DEF PInv, MMState, Forks, Serves
<1>5. buf \in [Proc -> Message] /\ base \in [Proc -> {0, FORK_BASE}]
  BY <1>2 DEF IInv, TypeOK, PInv, PMTypeOK
<1>6. buf' \in [Proc -> Message] /\ BothOK'
  BY <1>1, <1>2, <1>4, <1>5 DEF IInv, BothOK
<1>7. IInv'
  BY <1>1, <1>2, <1>6, ImageIInv DEF table
<1>8. mm_msg' \in Message /\ mm_msg'.source = mm_msg.source /\ mm_msg'.body.pid = c
  <2>1. mm_msg \in Message /\ mm_msg.body \in MsgBody
    BY DEF PInv, PMTypeOK, Message, ForkFragment
  <2> QED
    BY <1>1, <1>4, <2>1 DEF Message, ForkFragment, MsgBody, Word
<1>9. \A x \in Proc \ {c} : Same(x)
  BY <1>1, <1>5 DEF Same
<1>10. AnswersKept
  <2>1. \A y \in User : Made(y) => Made(y)'
    BY <1>1 DEF Made
  <2>2. \A x \in Proc : base[x] = FORK_BASE => base'[x] = FORK_BASE
    BY <1>1, <1>5
  <2> QED
    BY <1>1, <2>1, <2>2, Tasks DEF AnswersKept, Kept, ForkAnswer
<1>11. \A x \in User, s \in {TASK_SYS, TASK_MM} : Awaits(x, s)' <=> Awaits(x, s)
  BY <1>1 DEF Awaits
<1>12. \A x \in User : UserState(x)'
  BY <1>2, <1>4, <1>9, <1>10, <1>11, UserKept, Tasks DEF AnswersKept, UserState
<1>13. SysState'
  BY <1>1, <1>4, <1>9, <1>11, SysKept, Tasks DEF PInv
<1>14. MMState'
  <2>1. src' = q /\ mm_p' = c /\ base'[c] = FORK_BASE
    BY <1>0, <1>1, <1>4, <1>5, <1>8 DEF src
  <2>2. Forks'
    BY <1>4, <1>11, <2>1 DEF Forks, Serves
  <2> QED
    BY <1>1, <1>3, <1>4, <1>8, <2>1, <2>2 DEF MMState
<1>15. PMTypeOK' /\ (\A x \in Proc \ User : both[x] = Nil /\ calling[x] = "none")'
  BY <1>1, <1>4, <1>5, <1>8 DEF PInv, PMTypeOK
<1> QED
  BY <1>1, <1>7, <1>12, <1>13, <1>14, <1>15 DEF PInv

-----------------------------------------------------------------------------
(* The theorems                                                             *)

\* The clock changes only the process that runs, and never within the copy.
LEMMA TickInv ==
  ASSUME PInv, ForkFragment, Tick
  PROVE  PInv'
<1>1. /\ ClockIrq /\ (ready_process = TASK_MM => mm_pc \notin {"copy_flags", "copy_rest"})
      /\ UNCHANGED <<p_flags, p_recvfrom, p_sendto, msg, q_sending, next_sending, buf, both,
                     calling, p_parent, exit_status, base, mm_pc, mm_msg, mm_p, mm_reg, sys_pc>>
  BY DEF Tick, ForkFragment, ClockIrq, table, procvars, mmvars
<1>2. mm_pc \notin {"copy_flags", "copy_rest"} /\ IInv /\ \A x \in User : UserState(x)
  BY <1>1, NotCopying DEF PInv, Copied
<1>3. IInv'
  BY <1>1, <1>2, ClockIrqIInv
<1>4. halted' = "no"
  BY <1>1, <1>3 DEF ClockIrq, Outcome, IInv
<1>5. \A x \in Proc : Same(x)
  BY <1>1 DEF Same
<1>6. AnswersKept
  BY <1>1, OthersKeepAnswers
<1>7. \A x \in User : UserState(x)'
  BY <1>2, <1>5, <1>6, UserKept, Tasks DEF AnswersKept
<1>8. \A x \in User, s \in {TASK_SYS, TASK_MM} : Awaits(x, s) => Awaits(x, s)'
  BY <1>5, AwaitsKept, Tasks
<1>9. SysState'
  BY <1>1, <1>5, <1>8, SysKept, Tasks DEF PInv
<1>10. MMState'
  BY <1>1, <1>2, <1>5, <1>6, <1>8, MMKept, Tasks DEF PInv
<1>11. PMTypeOK' /\ (\A x \in Proc \ User : both[x] = Nil /\ calling[x] = "none")'
  BY <1>1 DEF PInv, PMTypeOK
<1> QED
  BY <1>1, <1>2, <1>3, <1>4, <1>7, <1>9, <1>10, <1>11 DEF PInv

\* Requests other than fork() never reach task_mm.
LEMMA OnlyForkSteps ==
  ASSUME PInv, MMStep
  PROVE  \/ MMReceive \/ MMDispatch \/ MMReply
         \/ ForkScan \/ ForkCopyRegs \/ ForkCopyFlags \/ ForkCopyRest \/ ForkAdopt
         \/ ForkImage \/ ForkInvoke
<1>1. mm_pc \in {"recv", "dispatch", "FORK", "copy_regs", "copy_flags", "copy_rest", "adopt",
                 "image", "invoke", "reply"}
  BY DEF PInv, MMState
<1> QED
  BY <1>1 DEF MMStep, At, DoExit, ExitHang, CleanupSend, CleanupFree, ExitOrphans, DoWait, WaitMark,
     WaitNoChild, DoExecl

\* Every step keeps the invariant.
LEMMA PInvNext ==
  ASSUME PInv, ForkFragment, [ProcNext]_allvars
  PROVE  PInv'
<1>1. CASE Tick
  BY <1>1, TickInv
<1>2. CASE MMStep
  BY <1>2, OnlyForkSteps, MMReceiveInv, MMDispatchInv, MMReplyInv, ForkScanInv, ForkCopyRegsInv,
     ForkCopyFlagsInv, ForkCopyRestInv, ForkAdoptInv, ForkImageInv, ForkInvokeInv
<1>3. CASE SysStep
  BY <1>3, SysReceiveInv, SysReplyInv DEF SysStep
<1>4. CASE \E p \in User : LibStep(p) \/ \E t \in Calls : LibCall(p, t)
  BY <1>4, LibReceiveInv, LibReturnInv, LibCallInv DEF LibStep
<1>5. CASE UNCHANGED allvars
  <2>1. UNCHANGED <<p_flags, p_recvfrom, p_sendto, msg, q_sending, next_sending, buf, both,
                    ready_process, halted, calling, p_parent, exit_status, base, mm_pc, mm_msg, mm_p,
                    mm_reg, sys_pc>>
    BY <1>5 DEF allvars, vars, table, procvars, mmvars
  <2>2. CopyInv => CopyInv'
    <3>1. (TypeOK /\ BothOK /\ p_flags[ready_process] = {} /\ FlagShape /\ TtyRuns) =>
            (TypeOK /\ BothOK /\ p_flags[ready_process] = {} /\ FlagShape /\ TtyRuns)'
      BY <2>1 DEF TypeOK, BothOK, FlagShape, TtyRuns
    <3>2. FieldsMatchBut(mm_p) => FieldsMatchBut(mm_p)'
      BY <2>1 DEF FieldsMatchBut, CallerIdle
    <3>3. (HeadsAreSenders /\ LinksJoinSenders /\ SendersAreLinked /\ LinkedOnce) =>
            (HeadsAreSenders /\ LinksJoinSenders /\ SendersAreLinked /\ LinkedOnce)'
      BY <2>1 DEF HeadsAreSenders, LinksJoinSenders, SendersAreLinked, LinkedOnce, Sending
    <3>4. (LinksAcyclic /\ LinksHaveFirst /\ NoMissedRendezvous /\ NoSendCycle) =>
            (LinksAcyclic /\ LinksHaveFirst /\ NoMissedRendezvous /\ NoSendCycle)'
      BY <2>1 DEF LinksAcyclic, LinksHaveFirst, NoMissedRendezvous, NoSendCycle, Sending, Accepts
    <3> QED
      BY <3>1, <3>2, <3>3, <3>4 DEF CopyInv
  <2>3. \A x \in User : (Copied(x) \/ UserState(x))'
    BY <2>1 DEF PInv, Copied, UserState, Free, Idle, Asks, Awaits, Answered, ForkAnswer, Made
  <2>4. SysState'
    BY <2>1 DEF PInv, SysState, Awaits
  <2>5. MMState'
    <3>1. /\ Serves' <=> Serves
          /\ Forks' <=> Forks
          /\ src' = src
      BY <2>1 DEF Serves, Forks, src, Awaits
    <3>2. /\ Answers(p_sendto[TASK_MM])' <=> Answers(p_sendto[TASK_MM])
          /\ Answers(mm_p)' <=> Answers(mm_p)
      BY <2>1 DEF Answers, Awaits, ForkAnswer, Made
    <3>3. ForkAnswer(src, Reply)' <=> ForkAnswer(src, Reply)
      BY <2>1 DEF ForkAnswer, Made, Reply, src
    <3>4. Awaits(buf[TASK_MM].source, TASK_MM)' <=> Awaits(buf[TASK_MM].source, TASK_MM)
      BY <2>1 DEF Awaits
    <3> QED
      BY <2>1, <3>1, <3>2, <3>3, <3>4 DEF PInv, MMState, Running
  <2>6. IInv => IInv'
    BY <2>1, NextIInv DEF vars, table
  <2> QED
    BY <2>1, <2>2, <2>3, <2>4, <2>5, <2>6 DEF PInv, PMTypeOK
<1> QED
  BY <1>1, <1>2, <1>3, <1>4, <1>5 DEF ProcNext

\* init_proc leaves idle processes and free slots, and the tasks at the head
\* of their loops.
LEMMA PInvInit == ProcInit => PInv
<1> SUFFICES ASSUME ProcInit PROVE PInv
  OBVIOUS
<1>1. IInv /\ halted = "no" /\ mm_pc = "recv" /\ sys_pc = "recv"
  BY InitIInv DEF ProcInit, Init
<1>2. PMTypeOK
  BY BodyAssumption, Tasks DEF ProcInit, PMTypeOK, Message, TASK_TTY
<1>3. \A p \in Proc : both[p] = Nil /\ calling[p] = "none"
  BY DEF ProcInit, Init
<1>4. \A p \in Proc : p_flags[p] = {} \/ (p_flags[p] = {"FREE_SLOT"} /\ p >= NR_LIVE)
  BY SizeAssumption DEF ProcInit, Init, Proc
<1>5. \A p \in User : UserState(p)
  BY <1>3, <1>4, Tasks DEF UserState, Free, Idle
<1>6. p_flags[TASK_SYS] = {} /\ p_flags[TASK_MM] = {}
  BY <1>4, Tasks
<1> QED
  BY <1>1, <1>2, <1>3, <1>5, <1>6 DEF PInv, SysState, MMState

(***************************************************************************)
(* The inductive invariant of the process manager holds while processes    *)
(* call fork and get_ticks, for a table of any size, as long as no tick    *)
(* falls into the copy of do_fork.                                         *)
(***************************************************************************)
THEOREM ProcInvHolds == ForkFragment => (ProcSpec => []PInv)
<1> SUFFICES ASSUME ForkFragment PROVE ProcSpec => []PInv
  OBVIOUS
<1>1. PInv /\ [ProcNext]_allvars => PInv'
  BY PInvNext
<1> QED
  BY <1>1, PInvInit, PTL DEF ProcSpec

(***************************************************************************)
(* No assertion of process.c or do_fork fails then, and no loop of         *)
(* schedule() or deadlock() runs for ever: the copy of an entry that may   *)
(* be blocked, and on the lists of others, leaves a table as msg_send and  *)
(* msg_receive expect it.                                                  *)
(***************************************************************************)
THEOREM ForkKeepsAssertions == ForkFragment => (ProcSpec => []KernelAssertionsHold)
<1> SUFFICES ASSUME ForkFragment PROVE ProcSpec => []KernelAssertionsHold
  OBVIOUS
<1>1. ProcSpec => []PInv
  BY ProcInvHolds
<1>2. PInv => KernelAssertionsHold
  BY DEF PInv, KernelAssertionsHold
<1> QED
  BY <1>1, <1>2, PTL

(***************************************************************************)
(* Nor does the kernel panic: deadlock() never refuses a request of a      *)
(* process or an answer of a task.                                         *)
(***************************************************************************)
THEOREM SendsAreNotRefused == ForkFragment => (ProcSpec => [](halted = "no"))
<1> SUFFICES ASSUME ForkFragment PROVE ProcSpec => [](halted = "no")
  OBVIOUS
<1>1. ProcSpec => []PInv
  BY ProcInvHolds
<1>2. PInv => halted = "no"
  BY DEF PInv
<1> QED
  BY <1>1, <1>2, PTL

(***************************************************************************)
(* When task_mm blocks on its answer to a caller or to a child that was    *)
(* just copied, that process is about to receive from it.                  *)
(***************************************************************************)
THEOREM AnswersAreAwaited == ForkFragment => (ProcSpec => []AnswersAwaited)
<1> SUFFICES ASSUME ForkFragment PROVE ProcSpec => []AnswersAwaited
  OBVIOUS
<1>1. ProcSpec => []PInv
  BY ProcInvHolds
<1>2. PInv => AnswersAwaited
  <2> SUFFICES ASSUME PInv, NEW p \in User, Sending(TASK_MM, p) PROVE both[p] = TASK_MM
    BY DEF AnswersAwaited
  <2>1. Answers(p) /\ p \in Proc
    BY WhoSends, Tasks
  <2>2. ~ Accepts(p, TASK_MM)
    BY <2>1, Tasks DEF PInv, IInv, CopyInv, NoMissedRendezvous
  <2> QED
    BY <2>1, <2>2 DEF Answers, Awaits, Accepts
<1> QED
  BY <1>1, <1>2, PTL

(***************************************************************************)
(* fork() returns what task_mm sent, and when do_fork made a child that is *)
(* 0 in a process that do_fork made, which runs in its image, and the pid  *)
(* of a child of its own in the caller.                                    *)
(***************************************************************************)
THEOREM ForkReturnsAnswer == ForkFragment => (ProcSpec => ForkReturns)
<1> SUFFICES ASSUME ForkFragment PROVE ProcSpec => ForkReturns
  OBVIOUS
<1>1. ProcSpec => []PInv
  BY ProcInvHolds
<1>2. PInv /\ [ProcNext]_allvars =>
        [\A p \in User : Returns(p, "FORK") =>
           /\ buf[p].source = TASK_MM /\ Answer(p).type = "SYSCALL_RET"
           /\ Answer(p).val \in {0, -1}
           /\ Answer(p).val = 0 =>
                \/ Answer(p).pid = 0 /\ p >= NR_LIVE /\ base[p] = FORK_BASE
                \/ /\ Answer(p).pid \in User \ {p}
                   /\ p_parent[Answer(p).pid] = p
                   /\ base[Answer(p).pid] = FORK_BASE]_allvars
  <2> SUFFICES ASSUME PInv, ProcNext, NEW p \in User, Returns(p, "FORK")
               PROVE  ForkAnswer(p, buf[p])
    BY DEF ForkAnswer, Answer
  <2>1. ready_process = p /\ calling[p] = "FORK" /\ calling'[p] = "none"
    BY DEF Returns
  <2>2. ready_process \notin {TASK_SYS, TASK_MM} /\ p \in Proc
    BY <2>1, Tasks
  <2>3. ~ Tick
    BY <2>1 DEF Tick, procvars
  <2>4. ~ SysStep
    BY <2>1, <2>2 DEF SysStep, SysReceive, SysReply, procvars
  <2>5. ~ MMStep
    BY <2>2, OnlyForkSteps DEF MMReceive, MMDispatch, MMReply, ForkScan, ForkCopyRegs, ForkCopyFlags,
       ForkCopyRest, ForkAdopt, ForkImage, ForkInvoke, At, Running, Receive, MMSend, Send
  <2>6. PICK q \in User : LibReturn(q) \/ LibReceive(q) \/ \E t \in Calls : LibCall(q, t)
    BY <2>3, <2>4, <2>5 DEF ProcNext, LibStep
  <2>7. ~ LibReceive(q)
    BY <2>1 DEF LibReceive, procvars
  <2>8. \A t \in Calls : ~ LibCall(q, t)
    BY <2>1 DEF LibCall, SendBoth, Running
  <2>9. LibReturn(p)
    BY <2>1, <2>6, <2>7, <2>8 DEF LibReturn, Running
  <2>10. both[p] = Nil
    BY <2>9 DEF LibReturn
  <2>11. UserState(p) /\ p_flags[p] = {}
    BY <2>1, <2>2, NotCopying DEF IInv
  <2> QED
    BY <2>1, <2>10, <2>11, Tasks DEF UserState, Free, Idle, Asks, Awaits, Answered
<1> QED
  BY <1>1, <1>2, PTL DEF ProcSpec, ForkReturns
=============================================================================
