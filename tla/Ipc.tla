--------------------------------- MODULE Ipc ---------------------------------
(***************************************************************************)
(* Synchronous message passing between the processes of the kernel, and    *)
(* the scheduler it blocks on: deadlock, unblock, schedule, block,         *)
(* msg_send, msg_receive and send_recv of process.c, entered through       *)
(* sys_sendrec of syscall.c, with the clock interrupt that preempts user   *)
(* code (clock_handler of clock.c).                                        *)
(*                                                                         *)
(* A system call runs with k_reenter = 0 and the clock handler schedules   *)
(* only when it interrupted user code, so one system call is one action.   *)
(* The senders waiting for a process form the linked list of the code:     *)
(* q_sending[d] is its head and next_sending[p] the link of each sender.   *)
(***************************************************************************)
EXTENDS Integers, FiniteSets, Sequences

CONSTANTS
  NR,        \* NR_TASKS + NR_PROCS, the size of proc_table
  NR_LIVE,   \* NR_TASKS + NR_NATIVE_PROCS, the slots init_proc fills
  Callers,   \* the processes that call send_recv
  Body,      \* what a Message holds besides its source
  ZeroBody   \* the body p_asm_memset leaves

ASSUME SizeAssumption == NR \in Nat /\ NR_LIVE \in 1..NR
ASSUME CallersAssumption == Callers \subseteq 1..(NR-1)
ASSUME BodyAssumption == ZeroBody \in Body

Proc == 0..(NR-1)
TASK_TTY == 0
Nil == -1                 \* a null Process pointer
ANY == NR + 10
NO_TASK == NR + 20

Flag == {"SENDING", "RECEIVING", "WAITING", "HANGING", "FREE_SLOT"}
Message == [source : Proc, body : Body]

VARIABLES
  p_flags,       \* the set of flags of each process; {} is runnable
  p_recvfrom,
  p_sendto,
  msg,           \* 1 iff the pointer to the user's message is not null
  buf,           \* the user's message itself
  q_sending,
  next_sending,
  both,          \* the peer of a send_recv(BOTH) whose RECEIVE is to come
  ready_process,
  halted         \* why the kernel stopped for good, or "no"

table == <<p_flags, p_recvfrom, p_sendto, msg, q_sending, next_sending>>
vars == <<table, buf, both, ready_process, halted>>

Stop == {"no", "panic", "assert", "spin"}

TypeOK ==
  /\ p_flags \in [Proc -> SUBSET Flag]
  /\ p_recvfrom \in [Proc -> Proc \cup {ANY, NO_TASK}]
  /\ p_sendto \in [Proc -> Proc \cup {NO_TASK}]
  /\ msg \in [Proc -> {0, 1}]
  /\ buf \in [Proc -> Message]
  /\ q_sending \in [Proc -> Proc \cup {Nil}]
  /\ next_sending \in [Proc -> Proc \cup {Nil}]
  /\ both \in [Proc -> Proc \cup {Nil}]
  /\ ready_process \in Proc
  /\ halted \in Stop

-----------------------------------------------------------------------------
(* Walks along pointers                                                     *)

\* Everything a walk from a along the pointers f visits: the least set that
\* has a in it and is closed under f.
Reached(a, f) ==
  {p \in Proc : \A T \in SUBSET Proc :
     (a \in T /\ \A x \in T : f[x] \in Proc => f[x] \in T) => p \in T}

Sending(p, d) == "SENDING" \in p_flags[p] /\ p_sendto[p] = d

\* The processes the walk of deadlock() visits, from dest.
SendWalk(dest) ==
  Reached(dest, [x \in Proc |-> IF "SENDING" \in p_flags[x]
                                THEN p_sendto[x] ELSE Nil])

\* Variant: deadlock() that looks one process ahead.
deadlock_OneHop(src, dest) == Sending(dest, src)

deadlock(src, dest) == src \in SendWalk(dest)

\* The walk that meets neither src nor a process that is not sending.
deadlock_loops(src, dest) ==
  /\ ~ deadlock(src, dest)
  /\ \A x \in SendWalk(dest) : "SENDING" \in p_flags[x]

\* The processes linked from q_sending[d].
Queued(d) == IF q_sending[d] = Nil THEN {} ELSE Reached(q_sending[d], next_sending)

LastQueued(d) == CHOOSE t \in Queued(d) : next_sending[t] = Nil

\* prev at the end of the search for from in the queue of p.
Prev(p, from) ==
  CHOOSE x \in Queued(p) :
    next_sending[x] = IF from \in Queued(p) THEN from ELSE Nil

-----------------------------------------------------------------------------
(* The scheduler                                                            *)

Runnable(flags) == {p \in Proc : flags[p] = {}}

\* How many times ++ready_process is executed to get to p.
Turn(p) == IF p > ready_process THEN p - ready_process ELSE p + NR - ready_process

\* Variants: the scan that runs off the end of the table, that takes blocked
\* processes too, that starts from the first slot every time.
NextReady_NoWrap(flags) ==
  CHOOSE p \in Runnable(flags) \cup {NR} :
    p > ready_process /\ \A q \in Runnable(flags) : q > ready_process => p =< q

NextReady_First(flags) ==
  CHOOSE p \in Runnable(flags) : \A q \in Runnable(flags) : p =< q

NextReady(flags) ==
  CHOOSE p \in Runnable(flags) : \A q \in Runnable(flags) : Turn(p) =< Turn(q)

schedule(flags) ==
  ready_process' = IF Runnable(flags) = {} THEN ready_process ELSE NextReady(flags)

\* An assertion that fails stops the kernel; so does a schedule() that finds
\* nothing to run, or a deadlock() that never leaves its loop.
Outcome(asserts, spins) ==
  halted' = IF spins THEN "spin" ELSE IF asserts THEN "no" ELSE "assert"

-----------------------------------------------------------------------------
(* msg_send                                                                 *)

\* Variant: a receiver that takes a message from whoever sends one.
Accepts_Anyone(d, p) == "RECEIVING" \in p_flags[d]

Accepts(d, p) == "RECEIVING" \in p_flags[d] /\ p_recvfrom[d] \in {p, ANY}

\* What the assertions of msg_send and msg_receive say of the caller.
CallerIdle(p) ==
  /\ p_flags[p] = {}
  /\ msg[p] = 0
  /\ p_recvfrom[p] = NO_TASK
  /\ p_sendto[p] = NO_TASK

SendPanics(p, d) ==
  /\ deadlock(p, d)
  /\ halted' = "panic"
  /\ UNCHANGED <<table, buf, ready_process>>

\* Variant: the pointer to the receiver's message is not cleared.
SendDelivers_KeepsMsg(p, d, m) ==
  /\ ~ deadlock(p, d)
  /\ Accepts(d, p)
  /\ buf' = [buf EXCEPT ![p] = m, ![d] = m]
  /\ p_flags' = [p_flags EXCEPT ![d] = @ \ {"RECEIVING"}]
  /\ p_recvfrom' = [p_recvfrom EXCEPT ![d] = NO_TASK]
  /\ Outcome(CallerIdle(p), FALSE)
  /\ UNCHANGED <<msg, p_sendto, q_sending, next_sending, ready_process>>

SendDelivers(p, d, m) ==
  /\ ~ deadlock(p, d)
  /\ Accepts(d, p)
  /\ buf' = [buf EXCEPT ![p] = m, ![d] = m]
  /\ msg' = [msg EXCEPT ![d] = 0]
  /\ p_flags' = [p_flags EXCEPT ![d] = @ \ {"RECEIVING"}]
  /\ p_recvfrom' = [p_recvfrom EXCEPT ![d] = NO_TASK]
  /\ Outcome(/\ msg[d] = 1
             /\ p_flags[d] = {"RECEIVING"}          \* unblock()
             /\ p_sendto[d] = NO_TASK
             /\ CallerIdle(p),
             deadlock_loops(p, d))
  /\ UNCHANGED <<p_sendto, q_sending, next_sending, ready_process>>

\* Variants: p is put after the first sender, not the last; the last sender
\* links back to the first.
Link_AfterFirst(p, d) ==
  IF q_sending[d] = Nil
  THEN /\ q_sending' = [q_sending EXCEPT ![d] = p]
       /\ next_sending' = [next_sending EXCEPT ![p] = Nil]
  ELSE /\ next_sending' = [next_sending EXCEPT ![q_sending[d]] = p, ![p] = Nil]
       /\ UNCHANGED q_sending

\* p goes to the end of the list of d.
Link(p, d) ==
  IF q_sending[d] = Nil
  THEN /\ q_sending' = [q_sending EXCEPT ![d] = p]
       /\ next_sending' = [next_sending EXCEPT ![p] = Nil]
  ELSE /\ next_sending' = [next_sending EXCEPT ![LastQueued(d)] = p, ![p] = Nil]
       /\ UNCHANGED q_sending

SendBlocks(p, d, m) ==
  /\ ~ deadlock(p, d)
  /\ ~ Accepts(d, p)
  /\ buf' = [buf EXCEPT ![p] = m]
  /\ p_flags' = [p_flags EXCEPT ![p] = @ \cup {"SENDING"}]
  /\ p_sendto' = [p_sendto EXCEPT ![p] = d]
  /\ msg' = [msg EXCEPT ![p] = 1]
  /\ Link(p, d)
  /\ schedule(p_flags')
  /\ Outcome(p_flags[p] = {} /\ p_recvfrom[p] = NO_TASK,
             deadlock_loops(p, d) \/ Runnable(p_flags') = {})
  /\ UNCHANGED p_recvfrom

msg_send(p, d, m) ==
  SendPanics(p, d) \/ SendDelivers(p, d, m) \/ SendBlocks(p, d, m)

-----------------------------------------------------------------------------
(* msg_receive                                                              *)

\* Variant: only the first sender of the list is looked at.
From_First(p, src) ==
  IF src \in {ANY, q_sending[p]} THEN q_sending[p] ELSE Nil

\* The sender whose message is taken, Nil if there is none.
From(p, src) ==
  IF src = ANY THEN q_sending[p]
               ELSE IF Sending(src, p) THEN src ELSE Nil

Unlink(p, from) ==
  IF from = q_sending[p]
  THEN /\ q_sending' = [q_sending EXCEPT ![p] = next_sending[from]]
       /\ next_sending' = [next_sending EXCEPT ![from] = Nil]
  ELSE /\ next_sending' = [next_sending EXCEPT ![Prev(p, from)] = next_sending[from],
                                               ![from] = Nil]
       /\ UNCHANGED q_sending

ReceiveTakes(p, src) ==
  LET from == From(p, src) IN
  /\ from # Nil
  /\ Unlink(p, from)
  /\ buf' = [buf EXCEPT ![p] = buf[from]]
  /\ msg' = [msg EXCEPT ![from] = 0]
  /\ p_sendto' = [p_sendto EXCEPT ![from] = NO_TASK]
  /\ p_flags' = [p_flags EXCEPT ![from] = @ \ {"SENDING"}]
  /\ Outcome(/\ CallerIdle(p)
             /\ q_sending[p] # Nil
             /\ p_flags[from] = {"SENDING"}         \* unblock() too
             /\ msg[from] = 1
             /\ p_recvfrom[from] = NO_TASK
             /\ p_sendto[from] = p,
             FALSE)
  /\ UNCHANGED <<p_recvfrom, ready_process>>

ReceiveBlocks(p, src, m) ==
  /\ From(p, src) = Nil
  /\ buf' = [buf EXCEPT ![p] = m]
  /\ p_flags' = [p_flags EXCEPT ![p] = @ \cup {"RECEIVING"}]
  /\ msg' = [msg EXCEPT ![p] = 1]
  /\ p_recvfrom' = [p_recvfrom EXCEPT ![p] = src]
  /\ schedule(p_flags')
  /\ Outcome(p_flags[p] = {} /\ p_sendto[p] = NO_TASK, Runnable(p_flags') = {})
  /\ UNCHANGED <<p_sendto, q_sending, next_sending>>

msg_receive(p, src, m) == ReceiveTakes(p, src) \/ ReceiveBlocks(p, src, m)

-----------------------------------------------------------------------------
(* send_recv and sys_sendrec, which stamps the caller into msg->source      *)

Running(p) == halted = "no" /\ ready_process = p

\* send_recv(SEND, d, m)
Send(p, d, b) ==
  /\ Running(p) /\ both[p] = Nil
  /\ msg_send(p, d, [source |-> p, body |-> b])
  /\ UNCHANGED both

\* send_recv(BOTH, d, m): the system call for SEND ...
SendBoth(p, d, b) ==
  /\ Running(p) /\ both[p] = Nil
  /\ msg_send(p, d, [source |-> p, body |-> b])
  /\ both' = [both EXCEPT ![p] = d]

\* ... and, once it has returned, the system call for RECEIVE.
ReceiveBoth(p) ==
  /\ Running(p) /\ both[p] # Nil
  /\ msg_receive(p, both[p], [source |-> p, body |-> buf[p].body])
  /\ both' = [both EXCEPT ![p] = Nil]

\* send_recv(RECEIVE, src, m), which clears the message first
Receive(p, src) ==
  /\ Running(p) /\ both[p] = Nil
  /\ msg_receive(p, src, [source |-> p, body |-> ZeroBody])
  /\ UNCHANGED both

\* clock_handler, when it interrupts a process
ClockIrq ==
  /\ halted = "no"
  /\ schedule(p_flags)
  /\ Outcome(TRUE, Runnable(p_flags) = {})
  /\ UNCHANGED <<table, buf, both>>

-----------------------------------------------------------------------------
(* init_proc: a filled slot is idle; a free one only has its flag set, its  *)
(* other fields are the zeros of .bss.                                      *)

Init ==
  LET live(p) == p < NR_LIVE IN
  /\ p_flags = [p \in Proc |-> IF live(p) THEN {} ELSE {"FREE_SLOT"}]
  /\ p_recvfrom = [p \in Proc |-> IF live(p) THEN NO_TASK ELSE 0]
  /\ p_sendto = [p \in Proc |-> IF live(p) THEN NO_TASK ELSE 0]
  /\ msg = [p \in Proc |-> 0]
  /\ buf = [p \in Proc |-> [source |-> 0, body |-> ZeroBody]]
  /\ q_sending = [p \in Proc |-> Nil]
  /\ next_sending = [p \in Proc |-> Nil]
  /\ both = [p \in Proc |-> Nil]
  /\ ready_process = TASK_TTY
  /\ halted = "no"

\* What one process may do when it runs.
Call(p) ==
  \/ \E d \in Proc \ {p}, b \in Body : Send(p, d, b) \/ SendBoth(p, d, b)
  \/ \E src \in (Proc \ {p}) \cup {ANY} : Receive(p, src)
  \/ ReceiveBoth(p)

Next == ClockIrq \/ \E p \in Callers : Call(p)

\* The timer keeps interrupting user code; processes may stop calling.
Spec == Init /\ [][Next]_vars /\ WF_vars(ClockIrq)

-----------------------------------------------------------------------------
(* Properties                                                               *)

\* The list of each process holds exactly the processes that are sending to
\* it: msg_send and msg_receive keep q_sending and next_sending in step with
\* p_flags and p_sendto, so a blocked sender can always be found and freed.
ListsHoldSenders ==
  \A d \in Proc : Queued(d) = {p \in Proc : Sending(p, d)}

\* The links never form a cycle, so the loop of msg_send that looks for the
\* end of the list terminates: every set of processes has one that links to
\* nothing in the set.
LinksAcyclic ==
  \A S \in SUBSET Proc : S # {} => \E p \in S : next_sending[p] \notin S

\* Two processes that wait for each other to rendezvous never stay blocked:
\* no sender is queued on a process that is blocked receiving from it.
NoMissedRendezvous ==
  \A p, d \in Proc : Sending(p, d) => ~ Accepts(d, p)

\* deadlock() refuses in time: the blocked senders never form a cycle, so
\* its own walk terminates and no send waits for itself.
NoSendCycle ==
  \A S \in SUBSET Proc :
    S # {} => \E p \in S : ~("SENDING" \in p_flags[p] /\ p_sendto[p] \in S)

\* No assert of unblock, block, msg_send and msg_receive can fail, and the
\* loops of schedule and deadlock end.
KernelAssertionsHold == halted \notin {"assert", "spin"}

\* What iret resumes is a process that is not blocked.
RunningNotBlocked == halted = "no" => p_flags[ready_process] = {}

\* schedule() is round robin: a process that is not blocked gets the CPU.
NoStarvation ==
  \A p \in Proc : p_flags[p] = {} ~> (ready_process = p \/ halted # "no")

-----------------------------------------------------------------------------
(* What message passing promises: the linked list of a process, read off by *)
(* the walk of the code, is the queue of Rendezvous.                        *)

\* The processes from h on, in the order of the walk "while (p) ... p = p->next_sending".
Walk(h, f) ==
  LET next == [p \in Proc \cup {Nil} |-> IF p = Nil THEN Nil ELSE f[p]]
      at[k \in 1..NR] == IF k = 1 THEN h ELSE next[at[k - 1]]
  IN  [k \in 1..Cardinality({j \in 1..NR : at[j] # Nil}) |-> at[k]]

QueueOf(d) ==
  LET senders == Walk(q_sending[d], next_sending)
  IN  [i \in DOMAIN senders |-> buf[senders[i]]]

Abs == INSTANCE Rendezvous WITH
  Procs <- Proc, Bodies <- Body, Anyone <- ANY, Nobody <- NO_TASK,
  queue <- [d \in Proc |-> QueueOf(d)],
  wants <- [p \in Proc |-> IF "RECEIVING" \in p_flags[p] THEN p_recvfrom[p]
                                                         ELSE NO_TASK],
  buffer <- buf,
  stopped <- (halted # "no")

\* The pointers, flags and scheduler of process.c keep the promise of
\* Rendezvous: messages are handed over unchanged, once, oldest first, to
\* the process that asked for them, and panic() means a real circle.
ImplementsRendezvous == Abs!AbsSpec
=============================================================================
