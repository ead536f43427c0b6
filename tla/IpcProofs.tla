------------------------------ MODULE IpcProofs ------------------------------
(***************************************************************************)
(* Proofs about Ipc, for every size of the process table.                  *)
(***************************************************************************)
EXTENDS Ipc, TLAPS, WellFoundedInduction, FiniteSetTheorems, SequenceTheorems

-----------------------------------------------------------------------------
(* Numbers and the scheduler                                                *)

\* Every set of naturals that is not empty has a least element.
LEMMA LeastNat ==
  ASSUME NEW S \in SUBSET Nat, S # {}
  PROVE  \E n \in S : \A m \in S : n =< m
<1> DEFINE R == {ss \in Nat \X Nat : ss[1] < ss[2]}
<1>1. IsWellFoundedOn(R, Nat)
  BY NatLessThanWellFounded, Zenon DEF OpToRel
<1>2. PICK n \in S : \A m \in S : ~ (<<m, n>> \in R)
  BY <1>1, WFMin, Zenon
<1>3. ASSUME NEW m \in S PROVE n =< m
  <2>1. <<m, n>> \in R <=> m < n
    OBVIOUS
  <2>2. ~ (m < n)
    BY <1>2, <2>1
  <2> QED BY <2>2
<1> QED BY <1>3, Zenon

\* schedule() selects a process that is not blocked.
LEMMA NextReadyRuns ==
  ASSUME NEW flags \in [Proc -> SUBSET Flag], Runnable(flags) # {},
         ready_process \in Proc
  PROVE  NextReady(flags) \in Proc /\ flags[NextReady(flags)] = {}
<1> DEFINE Turns == {Turn(p) : p \in Runnable(flags)}
<1>1. Turns \in SUBSET Nat /\ Turns # {}
  BY SizeAssumption DEF Turn, Runnable, Proc
<1>2. PICK n \in Turns : \A m \in Turns : n =< m
  BY <1>1, LeastNat
<1>3. \E p \in Runnable(flags) : \A q \in Runnable(flags) : Turn(p) =< Turn(q)
  BY <1>2
<1>4. NextReady(flags) \in Runnable(flags)
  BY <1>3 DEF NextReady
<1> QED BY <1>4 DEF Runnable

-----------------------------------------------------------------------------
(* The inductive invariant                                                  *)

FlagShape ==
  \A p \in Proc : p_flags[p] \in {{}, {"SENDING"}, {"RECEIVING"}, {"FREE_SLOT"}}

\* TASK_TTY makes no call, so schedule() always finds something to run.
TtyRuns == p_flags[TASK_TTY] = {}

FieldsMatchFlags ==
  \A p \in Proc :
    /\ p_flags[p] = {} => CallerIdle(p)
    /\ p_flags[p] = {"SENDING"} =>
         msg[p] = 1 /\ p_recvfrom[p] = NO_TASK /\ p_sendto[p] \in Proc
    /\ p_flags[p] = {"RECEIVING"} => msg[p] = 1 /\ p_sendto[p] = NO_TASK

\* The links, pointer by pointer: a head is a sender to its process, a link
\* joins two senders to one process, every sender is a head or is linked, and
\* never from two places.
HeadsAreSenders ==
  \A d \in Proc : q_sending[d] # Nil => Sending(q_sending[d], d)

LinksJoinSenders ==
  \A p \in Proc : next_sending[p] # Nil =>
    "SENDING" \in p_flags[p] /\ Sending(next_sending[p], p_sendto[p])

SendersAreLinked ==
  \A p, d \in Proc : Sending(p, d) =>
    q_sending[d] = p \/ \E r \in Proc : next_sending[r] = p

LinkedOnce ==
  /\ \A p, r \in Proc : next_sending[p] = next_sending[r] /\ next_sending[p] # Nil => p = r
  /\ \A d, r \in Proc : q_sending[d] = next_sending[r] => q_sending[d] = Nil

\* LinksAcyclic says that every set of processes has a last one; this says it
\* has a first one.
LinksHaveFirst ==
  \A S \in SUBSET Proc : S # {} => \E p \in S : \A r \in S : next_sending[r] # p

\* A send_recv(BOTH) receives from the process it sent to, never from itself.
BothOK == both \in [Proc -> Proc \cup {Nil}] /\ \A p \in Proc : both[p] # p

IInv ==
  /\ TypeOK
  /\ BothOK
  /\ halted \in {"no", "panic"}
  /\ p_flags[ready_process] = {}
  /\ FlagShape
  /\ TtyRuns
  /\ FieldsMatchFlags
  /\ HeadsAreSenders
  /\ LinksJoinSenders
  /\ SendersAreLinked
  /\ LinkedOnce
  /\ LinksAcyclic
  /\ LinksHaveFirst
  /\ NoMissedRendezvous
  /\ NoSendCycle

-----------------------------------------------------------------------------
(* Walks                                                                    *)

\* The constants have the types that the arithmetic on slots needs.
LEMMA Constants ==
  /\ Nil \notin Proc /\ ANY \notin Proc /\ NO_TASK \notin Proc
  /\ ANY # NO_TASK /\ Nil # ANY
  /\ TASK_TTY \in Proc
  /\ Callers \subseteq Proc \ {TASK_TTY}
BY SizeAssumption, CallersAssumption DEF Nil, ANY, NO_TASK, TASK_TTY, Proc

\* A walk visits its start and everything the pointers lead to, and stays in
\* every set that has those two properties.
LEMMA ReachedFacts ==
  ASSUME NEW a \in Proc, NEW f
  PROVE  /\ Reached(a, f) \in SUBSET Proc
         /\ a \in Reached(a, f)
         /\ \A x \in Reached(a, f) : f[x] \in Proc => f[x] \in Reached(a, f)
         /\ \A T \in SUBSET Proc :
              (a \in T /\ \A x \in T : f[x] \in Proc => f[x] \in T)
              => Reached(a, f) \subseteq T
BY DEF Reached

\* The walk of deadlock() ends: it comes to a process that is not sending.
LEMMA SendWalkEnds ==
  ASSUME IInv, NEW p \in Proc, NEW d \in Proc
  PROVE  ~ deadlock_loops(p, d)
<1> DEFINE f == [x \in Proc |-> IF "SENDING" \in p_flags[x] THEN p_sendto[x] ELSE Nil]
           W == SendWalk(d)
<1>1. /\ W \in SUBSET Proc
      /\ d \in W
      /\ \A x \in W : f[x] \in Proc => f[x] \in W
  BY ReachedFacts, Zenon DEF SendWalk
<1>2. PICK x \in W : ~("SENDING" \in p_flags[x] /\ p_sendto[x] \in W)
  BY <1>1 DEF IInv, NoSendCycle
<1>3. SUFFICES ASSUME \A y \in W : "SENDING" \in p_flags[y] PROVE p_sendto[x] \in W
  BY <1>2 DEF deadlock_loops
<1>4. x \in Proc /\ p_flags[x] = {"SENDING"}
  BY <1>1, <1>3 DEF IInv, FlagShape
<1>5. f[x] = p_sendto[x] /\ p_sendto[x] \in Proc
  BY <1>4 DEF IInv, FieldsMatchFlags
<1> QED BY <1>1, <1>5

\* Everything on the list of a process is sending to it ...
LEMMA QueuedAreSenders ==
  ASSUME IInv, NEW d \in Proc, q_sending[d] # Nil
  PROVE  /\ Queued(d) = Reached(q_sending[d], next_sending)
         /\ q_sending[d] \in Proc
         /\ \A x \in Queued(d) : x \in Proc /\ Sending(x, d)
<1> DEFINE T == {x \in Proc : Sending(x, d)}
<1>1. q_sending[d] \in T
  BY DEF IInv, TypeOK, HeadsAreSenders
<1>2. \A x \in T : next_sending[x] \in Proc => next_sending[x] \in T
  BY Constants DEF IInv, LinksJoinSenders, Sending
<1>3. Reached(q_sending[d], next_sending) \subseteq T
  BY <1>1, <1>2, ReachedFacts
<1> QED BY <1>1, <1>3 DEF Queued

\* ... and everything that is sending to it is on its list: the first of
\* those that were not would have to be a head or be linked from one that is.
LEMMA SendersAreQueued ==
  ASSUME IInv, NEW d \in Proc, NEW p \in Proc, Sending(p, d)
  PROVE  q_sending[d] # Nil /\ p \in Queued(d)
<1> DEFINE Missing == {x \in Proc : Sending(x, d) /\ x \notin Queued(d)}
<1>1. ASSUME NEW x \in Missing, q_sending[d] # x
      PROVE  \E r \in Missing : next_sending[r] = x
  <2>1. PICK r \in Proc : next_sending[r] = x
    BY <1>1 DEF IInv, SendersAreLinked
  <2>2. Sending(r, d)
    BY <2>1, Constants DEF IInv, LinksJoinSenders, Sending
  <2>3. r \notin Queued(d)
    BY <2>1, ReachedFacts, QueuedAreSenders DEF Queued
  <2> QED BY <2>1, <2>2, <2>3
<1>2. q_sending[d] \notin Missing
  BY QueuedAreSenders, ReachedFacts, Constants
<1>3. Missing = {}
  <2>1. SUFFICES ASSUME Missing # {} PROVE FALSE
    OBVIOUS
  <2>2. PICK x \in Missing : \A r \in Missing : next_sending[r] # x
    BY <2>1, Missing \in SUBSET Proc DEF IInv, LinksHaveFirst
  <2> QED BY <1>1, <1>2, <2>2
<1>4. p \in Queued(d)
  BY <1>3
<1> QED BY <1>4 DEF Queued

\* The loop of msg_send finds the end of the list.
LEMMA LastQueuedFacts ==
  ASSUME IInv, NEW d \in Proc, q_sending[d] # Nil
  PROVE  /\ LastQueued(d) \in Proc
         /\ Sending(LastQueued(d), d)
         /\ next_sending[LastQueued(d)] = Nil
<1> DEFINE Q == Queued(d)
<1>1. /\ Q \in SUBSET Proc /\ Q # {}
      /\ \A x \in Q : next_sending[x] \in Proc => next_sending[x] \in Q
  BY QueuedAreSenders, ReachedFacts
<1>2. PICK t \in Q : next_sending[t] \notin Q
  BY <1>1 DEF IInv, LinksAcyclic
<1>3. next_sending[t] = Nil
  BY <1>1, <1>2 DEF IInv, TypeOK
<1>4. LastQueued(d) \in Q /\ next_sending[LastQueued(d)] = Nil
  BY <1>3 DEF LastQueued
<1> QED BY <1>4, QueuedAreSenders

\* The search of msg_receive finds the process that links to the sender.
LEMMA PrevFacts ==
  ASSUME IInv, NEW d \in Proc, NEW p \in Proc, Sending(p, d), p # q_sending[d]
  PROVE  /\ Prev(d, p) \in Proc
         /\ Sending(Prev(d, p), d)
         /\ next_sending[Prev(d, p)] = p
<1>1. q_sending[d] # Nil /\ p \in Queued(d)
  BY SendersAreQueued
<1>2. PICK r \in Proc : next_sending[r] = p
  BY DEF IInv, SendersAreLinked
<1>3. Sending(r, d)
  BY <1>2, Constants DEF IInv, LinksJoinSenders, Sending
<1>4. r \in Queued(d)
  BY <1>3, SendersAreQueued
<1>5. Prev(d, p) \in Queued(d) /\ next_sending[Prev(d, p)] = p
  BY <1>1, <1>2, <1>4 DEF Prev
<1> QED BY <1>1, <1>5, QueuedAreSenders

-----------------------------------------------------------------------------
(* The invariant holds initially and every step preserves it                *)

\* init_proc leaves every list empty and every process unblocked.
LEMMA InitIInv == Init => IInv
<1> SUFFICES ASSUME Init PROVE IInv
  OBVIOUS
<1>1. TypeOK
  BY SizeAssumption, BodyAssumption DEF Init, TypeOK, Proc, Flag, Message, Stop,
     NO_TASK, TASK_TTY, Nil
<1>2. FlagShape /\ TtyRuns /\ p_flags[ready_process] = {} /\ halted \in {"no", "panic"}
  BY SizeAssumption DEF Init, FlagShape, TtyRuns, Proc, TASK_TTY
<1>3. \A p \in Proc : "SENDING" \notin p_flags[p] /\ "RECEIVING" \notin p_flags[p]
  BY DEF Init
<1>4. FieldsMatchFlags
  BY <1>3 DEF Init, FieldsMatchFlags, CallerIdle
<1>5. \A p \in Proc : q_sending[p] = Nil /\ next_sending[p] = Nil
  BY DEF Init
<1>6. HeadsAreSenders /\ LinksJoinSenders /\ SendersAreLinked /\ LinkedOnce
  BY <1>3, <1>5 DEF HeadsAreSenders, LinksJoinSenders, SendersAreLinked, LinkedOnce, Sending
<1>7. LinksAcyclic /\ LinksHaveFirst
  BY <1>5, Constants DEF LinksAcyclic, LinksHaveFirst
<1>9. BothOK
  BY Constants DEF Init, BothOK
<1>8. NoMissedRendezvous /\ NoSendCycle
  BY <1>3 DEF NoMissedRendezvous, NoSendCycle, Sending
<1> QED BY <1>1, <1>2, <1>4, <1>6, <1>7, <1>8, <1>9 DEF IInv

\* A send that deadlock() refuses changes only the reason the kernel stopped.
LEMMA SendPanicsIInv ==
  ASSUME IInv, NEW p \in Proc, NEW d \in Proc, SendPanics(p, d),
         BothOK'
  PROVE  IInv'
<1> USE DEF SendPanics, table
<1>1. TypeOK' /\ halted' \in {"no", "panic"}
  BY DEF IInv, TypeOK, Stop, BothOK
<1>2. (FlagShape /\ TtyRuns /\ FieldsMatchFlags /\ p_flags[ready_process] = {})'
  BY DEF IInv, FlagShape, TtyRuns, FieldsMatchFlags, CallerIdle
<1>3. (HeadsAreSenders /\ LinksJoinSenders /\ SendersAreLinked /\ LinkedOnce)'
  BY DEF IInv, HeadsAreSenders, LinksJoinSenders, SendersAreLinked, LinkedOnce, Sending
<1>4. (LinksAcyclic /\ LinksHaveFirst /\ NoMissedRendezvous /\ NoSendCycle)'
  BY DEF IInv, LinksAcyclic, LinksHaveFirst, NoMissedRendezvous, NoSendCycle, Sending, Accepts
<1> QED BY <1>1, <1>2, <1>3, <1>4 DEF IInv

\* clock_handler changes only the process that runs.
LEMMA ClockIrqIInv ==
  ASSUME IInv, ClockIrq
  PROVE  IInv'
<1> USE DEF ClockIrq, table
<1>1. Runnable(p_flags) # {}
  BY Constants DEF IInv, TtyRuns, Runnable
<1>2. ready_process' \in Proc /\ p_flags[ready_process'] = {}
  BY <1>1, NextReadyRuns DEF IInv, TypeOK, schedule
<1>3. halted' = "no"
  BY <1>1 DEF Outcome
<1>4. TypeOK' /\ BothOK' /\ (p_flags[ready_process] = {})'
  BY <1>2, <1>3 DEF IInv, TypeOK, BothOK, Stop
<1>5. (FlagShape /\ TtyRuns /\ FieldsMatchFlags)'
  BY DEF IInv, FlagShape, TtyRuns, FieldsMatchFlags, CallerIdle
<1>6. (HeadsAreSenders /\ LinksJoinSenders /\ SendersAreLinked /\ LinkedOnce)'
  BY DEF IInv, HeadsAreSenders, LinksJoinSenders, SendersAreLinked, LinkedOnce, Sending
<1>7. (LinksAcyclic /\ LinksHaveFirst /\ NoMissedRendezvous /\ NoSendCycle)'
  BY DEF IInv, LinksAcyclic, LinksHaveFirst, NoMissedRendezvous, NoSendCycle, Sending, Accepts
<1> QED BY <1>3, <1>4, <1>5, <1>6, <1>7 DEF IInv

\* msg_send to a receiver that waits: no list changes, and the receiver is
\* unblocked with nobody queued on it.
LEMMA SendDeliversIInv ==
  ASSUME IInv, NEW p \in Proc, p = ready_process, NEW d \in Proc \ {p}, NEW m \in Message,
         SendDelivers(p, d, m), BothOK'
  PROVE  IInv'
<1> USE DEF SendDelivers
<1>1. /\ p_flags \in [Proc -> SUBSET Flag]
      /\ p_flags[d] = {"RECEIVING"}
      /\ p_flags' = [p_flags EXCEPT ![d] = {}]
      /\ d # ready_process
  <2>1. p_flags \in [Proc -> SUBSET Flag] /\ d \in Proc /\ d # ready_process
    BY DEF IInv, TypeOK
  <2>2. p_flags[d] = {"RECEIVING"}
    BY <2>1 DEF IInv, FlagShape, Accepts
  <2> QED BY <2>1, <2>2
<1>2. CallerIdle(p) /\ msg[d] = 1 /\ p_sendto[d] = NO_TASK
  BY <1>1 DEF IInv, FieldsMatchFlags
<1>3. ~ deadlock_loops(p, d)
  BY SendWalkEnds
<1>4. halted' = "no"
  BY <1>1, <1>2, <1>3 DEF Outcome
<1>5. TypeOK'
  BY <1>1, <1>4 DEF IInv, TypeOK, Stop, BothOK, NO_TASK
<1>6. (p_flags[ready_process] = {})' /\ TtyRuns' /\ FlagShape'
  BY <1>1, Constants DEF IInv, TtyRuns, FlagShape, TypeOK
<1>7. \A x \in Proc : x # d => p_flags'[x] = p_flags[x]
  BY <1>1
<1>8. \A x, y \in Proc : Sending(x, y)' <=> Sending(x, y)
  BY <1>1, <1>7 DEF Sending
<1>9. FieldsMatchFlags'
  <2>1. CallerIdle(d)' /\ p_flags'[d] = {}
    BY <1>1, <1>2 DEF IInv, TypeOK, CallerIdle
  <2>2. ASSUME NEW x \in Proc, x # d
        PROVE  /\ p_flags'[x] = p_flags[x]
               /\ msg'[x] = msg[x]
               /\ p_recvfrom'[x] = p_recvfrom[x]
               /\ p_sendto'[x] = p_sendto[x]
    BY <2>2, <1>7 DEF IInv, TypeOK
  <2> QED BY <2>1, <2>2 DEF IInv, FieldsMatchFlags, CallerIdle
<1>10. HeadsAreSenders' /\ SendersAreLinked' /\ LinkedOnce'
  BY <1>8 DEF IInv, TypeOK, HeadsAreSenders, SendersAreLinked, LinkedOnce
<1>11. LinksJoinSenders'
  BY <1>1, <1>7 DEF IInv, TypeOK, LinksJoinSenders, Sending
<1>12. LinksAcyclic' /\ LinksHaveFirst'
  BY DEF IInv, LinksAcyclic, LinksHaveFirst
<1>13. NoMissedRendezvous'
  BY <1>1, <1>7, <1>8 DEF IInv, TypeOK, NoMissedRendezvous, Accepts
<1>14. NoSendCycle'
  BY <1>1, <1>7 DEF IInv, NoSendCycle
<1> QED BY <1>4, <1>5, <1>6, <1>9, <1>10, <1>11, <1>12, <1>13, <1>14 DEF IInv

\* The links after msg_send has put p at the end of the list of d.
LEMMA SendBlocksLinks ==
  ASSUME IInv, NEW p \in Proc, p_flags[p] = {}, NEW d \in Proc \ {p}, NEW m \in Message,
         SendBlocks(p, d, m)
  PROVE  (/\ HeadsAreSenders /\ LinksJoinSenders /\ SendersAreLinked /\ LinkedOnce
          /\ LinksAcyclic /\ LinksHaveFirst)'
<1> USE DEF SendBlocks, Link
<1>1. /\ p_flags'[p] = {"SENDING"} /\ p_sendto'[p] = d
      /\ \A x \in Proc : x # p => p_flags'[x] = p_flags[x] /\ p_sendto'[x] = p_sendto[x]
  BY DEF IInv, TypeOK
<1>2. Sending(p, d)' /\ \A y \in Proc : ~ Sending(p, y)
  BY <1>1 DEF Sending
<1>3. \A x, y \in Proc : x # p => (Sending(x, y)' <=> Sending(x, y))
  BY <1>1 DEF Sending
<1>4. /\ next_sending[p] = Nil
      /\ \A x \in Proc : next_sending[x] # p /\ q_sending[x] # p
  BY Constants DEF IInv, LinksJoinSenders, HeadsAreSenders, Sending
<1>5. CASE q_sending[d] = Nil
  <2>1. /\ \A x \in Proc : next_sending'[x] = next_sending[x]
        /\ q_sending'[d] = p
        /\ \A y \in Proc : y # d => q_sending'[y] = q_sending[y]
    BY <1>4, <1>5 DEF IInv, TypeOK
  <2>2. HeadsAreSenders'
    BY <1>2, <1>3, <1>4, <2>1 DEF IInv, TypeOK, HeadsAreSenders
  <2>3. LinksJoinSenders'
    BY <1>1, <1>4, <2>1 DEF IInv, LinksJoinSenders, Sending
  <2>4. SendersAreLinked'
    <3>1. SUFFICES ASSUME NEW x \in Proc, NEW y \in Proc, Sending(x, y)'
                   PROVE  q_sending'[y] = x \/ \E r \in Proc : next_sending'[r] = x
      BY DEF SendersAreLinked
    <3>2. CASE x = p
      BY <1>1, <2>1, <3>1, <3>2 DEF Sending
    <3>3. CASE x # p
      <4>1. Sending(x, y)
        BY <1>3, <3>1, <3>3
      <4>2. q_sending[y] = x \/ \E r \in Proc : next_sending[r] = x
        BY <4>1 DEF IInv, SendersAreLinked
      <4>3. q_sending[y] = x => y # d
        BY <1>5, Constants
      <4> QED BY <2>1, <4>2, <4>3
    <3> QED BY <3>2, <3>3
  <2>5. LinkedOnce'
    BY <1>4, <2>1 DEF IInv, LinkedOnce
  <2>6. LinksAcyclic' /\ LinksHaveFirst'
    BY <2>1 DEF IInv, LinksAcyclic, LinksHaveFirst
  <2> QED BY <2>2, <2>3, <2>4, <2>5, <2>6
<1>6. CASE q_sending[d] # Nil
  <2> DEFINE t == LastQueued(d)
  <2>1. t \in Proc /\ Sending(t, d) /\ next_sending[t] = Nil /\ t # p
    BY <1>2, <1>6, LastQueuedFacts
  <2> HIDE DEF t
  <2>2. /\ q_sending' = q_sending
        /\ next_sending'[t] = p
        /\ \A x \in Proc : x # t => next_sending'[x] = next_sending[x]
    BY <1>4, <1>6, <2>1 DEF IInv, TypeOK, t
  <2>3. HeadsAreSenders'
    BY <1>3, <1>4, <2>2 DEF IInv, TypeOK, HeadsAreSenders
  <2>4. LinksJoinSenders'
    <3>1. SUFFICES ASSUME NEW x \in Proc, next_sending'[x] # Nil
                   PROVE  "SENDING" \in p_flags'[x] /\ Sending(next_sending[x], p_sendto[x])'
      BY DEF LinksJoinSenders
    <3>2. CASE x = t
      BY <1>1, <2>1, <2>2, <3>2 DEF Sending
    <3>3. CASE x # t
      BY <1>1, <1>4, <2>2, <3>1, <3>3 DEF IInv, LinksJoinSenders, Sending, TypeOK
    <3> QED BY <3>2, <3>3
  <2>5. SendersAreLinked'
    <3>1. SUFFICES ASSUME NEW x \in Proc, NEW y \in Proc, Sending(x, y)'
                   PROVE  q_sending'[y] = x \/ \E r \in Proc : next_sending'[r] = x
      BY DEF SendersAreLinked
    <3>2. CASE x = p
      BY <2>1, <2>2, <3>2
    <3>3. CASE x # p
      <4>1. Sending(x, y)
        BY <1>3, <3>1, <3>3
      <4>2. q_sending[y] = x \/ \E r \in Proc : next_sending[r] = x
        BY <4>1 DEF IInv, SendersAreLinked
      <4> QED BY <2>1, <2>2, <4>2, Constants
    <3> QED BY <3>2, <3>3
  <2>6. LinkedOnce'
    BY <1>4, <2>1, <2>2 DEF IInv, LinkedOnce
  <2>7. LinksAcyclic'
    <3>1. SUFFICES ASSUME NEW S \in SUBSET Proc, S # {}
                   PROVE  \E x \in S : next_sending'[x] \notin S
      BY DEF LinksAcyclic
    <3>2. CASE p \in S
      BY <1>4, <2>1, <2>2, <3>2, Constants
    <3>3. CASE p \notin S
      BY <2>2, <3>1, <3>3 DEF IInv, LinksAcyclic
    <3> QED BY <3>2, <3>3
  <2>8. LinksHaveFirst'
    <3>1. SUFFICES ASSUME NEW S \in SUBSET Proc, S # {}
                   PROVE  \E x \in S : \A r \in S : next_sending'[r] # x
      BY DEF LinksHaveFirst
    <3>2. CASE S = {p}
      BY <1>4, <2>1, <2>2, <3>2, Constants
    <3>3. CASE S # {p}
      <4>1. PICK x \in S \ {p} : \A r \in S \ {p} : next_sending[r] # x
        <5>1. S \ {p} \in SUBSET Proc /\ S \ {p} # {}
          BY <3>1, <3>3
        <5> QED BY <5>1 DEF IInv, LinksHaveFirst
      <4> QED BY <1>4, <2>1, <2>2, <4>1, Constants
    <3> QED BY <3>2, <3>3
  <2> QED BY <2>3, <2>4, <2>5, <2>6, <2>7, <2>8
<1> QED BY <1>5, <1>6

\* msg_send to a receiver that does not wait: the caller goes to the end of
\* its list and blocks.
LEMMA SendBlocksIInv ==
  ASSUME IInv, NEW p \in Proc, p = ready_process, p # TASK_TTY,
         NEW d \in Proc \ {p}, NEW m \in Message,
         SendBlocks(p, d, m), BothOK'
  PROVE  IInv'
<1> USE DEF SendBlocks, Link
<1>1. CallerIdle(p) /\ p_flags[p] = {}
  BY DEF IInv, FieldsMatchFlags
<1>2. /\ p_flags'[p] = {"SENDING"} /\ p_sendto'[p] = d /\ msg'[p] = 1
      /\ \A x \in Proc : x # p => /\ p_flags'[x] = p_flags[x]
                                  /\ p_sendto'[x] = p_sendto[x]
                                  /\ msg'[x] = msg[x]
      /\ p_recvfrom' = p_recvfrom
  BY <1>1 DEF IInv, TypeOK
<1>3. p_flags' \in [Proc -> SUBSET Flag] /\ TtyRuns' /\ FlagShape'
  BY <1>2, Constants DEF IInv, TypeOK, TtyRuns, FlagShape, Flag
<1>4. Runnable(p_flags') # {}
  BY <1>3, Constants DEF TtyRuns, Runnable
<1>5. ready_process' \in Proc /\ p_flags'[ready_process'] = {}
  BY <1>3, <1>4, NextReadyRuns DEF IInv, TypeOK, schedule
<1>6. ~ deadlock_loops(p, d)
  BY SendWalkEnds
<1>7. halted' = "no"
  BY <1>1, <1>4, <1>6 DEF Outcome, CallerIdle
<1>8. TypeOK'
  <2>1. next_sending' \in [Proc -> Proc \cup {Nil}] /\ q_sending' \in [Proc -> Proc \cup {Nil}]
    BY LastQueuedFacts DEF IInv, TypeOK
  <2> QED BY <1>3, <1>5, <1>7, <2>1 DEF IInv, TypeOK, Stop, BothOK
<1>9. FieldsMatchFlags'
  BY <1>1, <1>2 DEF IInv, FieldsMatchFlags, CallerIdle
<1>10. NoMissedRendezvous'
  BY <1>2 DEF IInv, NoMissedRendezvous, Sending, Accepts
<1>11. NoSendCycle'
  <2> DEFINE f == [x \in Proc |-> IF "SENDING" \in p_flags[x] THEN p_sendto[x] ELSE Nil]
             W == SendWalk(d)
  <2>1. /\ W \in SUBSET Proc
        /\ d \in W
        /\ \A x \in W : f[x] \in Proc => f[x] \in W
    BY ReachedFacts, ZenonT(30) DEF SendWalk
  <2>2. p \notin W
    BY DEF deadlock
  <2>3. SUFFICES ASSUME NEW S \in SUBSET Proc, S # {}
                 PROVE  \E x \in S : ~("SENDING" \in p_flags'[x] /\ p_sendto'[x] \in S)
    BY DEF NoSendCycle
  <2>4. CASE p \notin S
    BY <1>2, <2>3, <2>4 DEF IInv, NoSendCycle
  <2>5. CASE p \in S /\ d \notin S
    BY <1>2, <2>5
  <2>6. CASE d \in S
    <3>1. PICK x \in S \cap W : ~("SENDING" \in p_flags[x] /\ p_sendto[x] \in S \cap W)
      <4>1. S \cap W \in SUBSET Proc /\ S \cap W # {}
        BY <2>1, <2>6
      <4> QED BY <4>1 DEF IInv, NoSendCycle
    <3>2. x # p /\ x \in Proc
      BY <2>1, <2>2
    <3>3. "SENDING" \in p_flags[x] => p_sendto[x] \in W
      <4>1. SUFFICES ASSUME "SENDING" \in p_flags[x] PROVE p_sendto[x] \in W
        OBVIOUS
      <4>2. p_sendto[x] \in Proc
        BY <3>2, <4>1 DEF IInv, FlagShape, FieldsMatchFlags
      <4> QED BY <2>1, <3>2, <4>1, <4>2
    <3> QED BY <1>2, <3>1, <3>2, <3>3
  <2> QED BY <2>4, <2>5, <2>6
<1> QED BY <1>1, <1>3, <1>5, <1>7, <1>8, <1>9, <1>10, <1>11, SendBlocksLinks DEF IInv

\* The links after msg_receive has taken from out of the list of p.
LEMMA UnlinkLinks ==
  ASSUME IInv, NEW p \in Proc, NEW from \in Proc, Sending(from, p), Unlink(p, from),
         p_flags'[from] = {},
         \A x \in Proc : x # from => p_flags'[x] = p_flags[x] /\ p_sendto'[x] = p_sendto[x]
  PROVE  (/\ HeadsAreSenders /\ LinksJoinSenders /\ SendersAreLinked /\ LinkedOnce
          /\ LinksAcyclic /\ LinksHaveFirst)'
      /\ q_sending' \in [Proc -> Proc \cup {Nil}]
      /\ next_sending' \in [Proc -> Proc \cup {Nil}]
<1> DEFINE n == next_sending[from]
<1>1. \A y \in Proc : ~ Sending(from, y)'
  BY DEF Sending
<1>2. \A x, y \in Proc : x # from => (Sending(x, y)' <=> Sending(x, y))
  BY DEF Sending
<1>3. \A y \in Proc : q_sending[y] = from => y = p
  BY Constants DEF IInv, HeadsAreSenders, Sending
<1>4. n # Nil => n \in Proc /\ Sending(n, p)
  BY DEF IInv, TypeOK, LinksJoinSenders, Sending
<1>5. n # from
  <2>1. {from} \in SUBSET Proc /\ {from} # {}
    OBVIOUS
  <2> QED BY <2>1 DEF IInv, LinksAcyclic
<1>6. CASE from = q_sending[p]
  <2>1. /\ q_sending' \in [Proc -> Proc \cup {Nil}]
        /\ next_sending' \in [Proc -> Proc \cup {Nil}]
        /\ q_sending'[p] = n
        /\ \A y \in Proc : y # p => q_sending'[y] = q_sending[y]
        /\ next_sending'[from] = Nil
        /\ \A x \in Proc : x # from => next_sending'[x] = next_sending[x]
    BY <1>4, <1>6 DEF IInv, TypeOK, Unlink
  <2>2. \A x \in Proc : next_sending[x] # from
    BY <1>6, Constants DEF IInv, LinkedOnce
  <2> HIDE DEF n
  <2>3. HeadsAreSenders'
    BY <1>2, <1>3, <1>4, <1>5, <2>1 DEF IInv, TypeOK, HeadsAreSenders
  <2>4. LinksJoinSenders'
    BY <2>1, <2>2 DEF IInv, TypeOK, LinksJoinSenders, Sending
  <2>5. SendersAreLinked'
    <3>1. SUFFICES ASSUME NEW x \in Proc, NEW y \in Proc, Sending(x, y)'
                   PROVE  q_sending'[y] = x \/ \E r \in Proc : next_sending'[r] = x
      BY DEF SendersAreLinked
    <3>2. x # from /\ Sending(x, y)
      BY <1>1, <1>2, <3>1
    <3>3. CASE q_sending[y] = x
      BY <1>6, <2>1, <3>2, <3>3
    <3>4. CASE \E r \in Proc : next_sending[r] = x
      <4>1. PICK r \in Proc : next_sending[r] = x
        BY <3>4
      <4>2. CASE r = from
        BY <1>4, <2>1, <3>2, <4>1, <4>2, Constants DEF n, Sending
      <4>3. CASE r # from
        BY <2>1, <4>1, <4>3
      <4> QED BY <4>2, <4>3
    <3> QED BY <3>2, <3>3, <3>4 DEF IInv, SendersAreLinked
  <2>6. LinkedOnce'
    <3>1. \A x, r \in Proc : next_sending'[x] = next_sending'[r] /\ next_sending'[x] # Nil => x = r
      BY <2>1 DEF IInv, LinkedOnce
    <3>2. ASSUME NEW y \in Proc, NEW r \in Proc, q_sending'[y] = next_sending'[r]
          PROVE  q_sending'[y] = Nil
      <4>1. CASE r = from
        BY <2>1, <3>2, <4>1
      <4>2. CASE r # from /\ y # p
        BY <2>1, <3>2, <4>2 DEF IInv, LinkedOnce
      <4>3. CASE r # from /\ y = p
        BY <2>1, <3>2, <4>3 DEF IInv, LinkedOnce, n
      <4> QED BY <4>1, <4>2, <4>3
    <3> QED BY <3>1, <3>2 DEF LinkedOnce
  <2>7. LinksAcyclic' /\ LinksHaveFirst'
    BY <2>1, Constants DEF IInv, LinksAcyclic, LinksHaveFirst
  <2> QED BY <2>1, <2>3, <2>4, <2>5, <2>6, <2>7
<1>7. CASE from # q_sending[p]
  <2> DEFINE r == Prev(p, from)
  <2>1. r \in Proc /\ Sending(r, p) /\ next_sending[r] = from
    BY <1>7, PrevFacts
  <2> HIDE DEF r
  <2>2. r # from
    BY <1>5, <2>1
  <2>3. /\ q_sending' = q_sending
        /\ next_sending' \in [Proc -> Proc \cup {Nil}]
        /\ next_sending'[from] = Nil
        /\ next_sending'[r] = n
        /\ \A x \in Proc : x # from /\ x # r => next_sending'[x] = next_sending[x]
    BY <1>4, <1>7, <2>1, <2>2 DEF IInv, TypeOK, Unlink, r
  <2>4. /\ \A x \in Proc : next_sending[x] = from => x = r
        /\ n # Nil => \A x \in Proc : next_sending[x] = n => x = from
        /\ n # Nil => \A y \in Proc : q_sending[y] # n
    BY <2>1, Constants DEF IInv, LinkedOnce
  <2> HIDE DEF n
  <2>5. HeadsAreSenders'
    BY <1>2, <1>3, <1>7, <2>3 DEF IInv, TypeOK, HeadsAreSenders
  <2>6. LinksJoinSenders'
    <3>1. SUFFICES ASSUME NEW x \in Proc, next_sending'[x] # Nil
                   PROVE  "SENDING" \in p_flags'[x] /\ Sending(next_sending[x], p_sendto[x])'
      BY DEF LinksJoinSenders
    <3>2. CASE x = r
      BY <1>4, <1>5, <2>1, <2>2, <2>3, <3>1, <3>2 DEF Sending
    <3>3. CASE x # r
      BY <2>3, <2>4, <3>1, <3>3 DEF IInv, TypeOK, LinksJoinSenders, Sending
    <3> QED BY <3>2, <3>3
  <2>7. SendersAreLinked'
    <3>1. SUFFICES ASSUME NEW x \in Proc, NEW y \in Proc, Sending(x, y)'
                   PROVE  q_sending'[y] = x \/ \E z \in Proc : next_sending'[z] = x
      BY DEF SendersAreLinked
    <3>2. x # from /\ Sending(x, y)
      BY <1>1, <1>2, <3>1
    <3>3. q_sending[y] = x \/ \E z \in Proc : next_sending[z] = x
      BY <3>2 DEF IInv, SendersAreLinked
    <3> QED BY <2>1, <2>3, <2>4, <3>2, <3>3 DEF n
  <2>8. LinkedOnce'
    <3>1. \A x, z \in Proc : next_sending'[x] = next_sending'[z] /\ next_sending'[x] # Nil => x = z
      BY <2>1, <2>2, <2>3, <2>4 DEF IInv, LinkedOnce
    <3>2. \A y, z \in Proc : q_sending'[y] = next_sending'[z] => q_sending'[y] = Nil
      BY <2>1, <2>3, <2>4 DEF IInv, LinkedOnce
    <3> QED BY <3>1, <3>2 DEF LinkedOnce
  <2>9. LinksAcyclic'
    <3>1. SUFFICES ASSUME NEW S \in SUBSET Proc, S # {}
                   PROVE  \E x \in S : next_sending'[x] \notin S
      BY DEF LinksAcyclic
    <3>2. CASE from \in S
      BY <2>3, <3>2, Constants
    <3>3. CASE from \notin S /\ r \notin S
      BY <2>3, <3>1, <3>3 DEF IInv, LinksAcyclic
    <3>4. CASE from \notin S /\ r \in S
      <4>1. S \cup {from} \in SUBSET Proc /\ S \cup {from} # {}
        OBVIOUS
      <4>2. PICK x \in S \cup {from} : next_sending[x] \notin S \cup {from}
        BY <4>1 DEF IInv, LinksAcyclic
      <4>3. CASE x = from
        BY <2>3, <3>4, <4>2, <4>3 DEF n
      <4>4. CASE x # from
        BY <2>1, <2>3, <4>2, <4>4
      <4> QED BY <4>3, <4>4
    <3> QED BY <3>2, <3>3, <3>4
  <2>10. LinksHaveFirst'
    <3>1. SUFFICES ASSUME NEW S \in SUBSET Proc, S # {}
                   PROVE  \E x \in S : \A z \in S : next_sending'[z] # x
      BY DEF LinksHaveFirst
    <3>2. CASE from \in S
      BY <1>5, <2>3, <2>4, <3>2, Constants
    <3>3. CASE from \notin S /\ r \notin S
      BY <2>3, <3>1, <3>3 DEF IInv, LinksHaveFirst
    <3>4. CASE from \notin S /\ r \in S
      <4>1. S \cup {from} \in SUBSET Proc /\ S \cup {from} # {}
        OBVIOUS
      <4>2. PICK x \in S \cup {from} : \A z \in S \cup {from} : next_sending[z] # x
        BY <4>1 DEF IInv, LinksHaveFirst
      <4>3. x \in S /\ x # n
        BY <2>1, <3>4, <4>2 DEF n
      <4> QED BY <2>3, <3>4, <4>2, <4>3
    <3> QED BY <3>2, <3>3, <3>4
  <2> QED BY <2>3, <2>5, <2>6, <2>7, <2>8, <2>9, <2>10 DEF IInv, TypeOK
<1> QED BY <1>6, <1>7

\* msg_receive from a queued sender: it leaves the list and is unblocked.
LEMMA ReceiveTakesIInv ==
  ASSUME IInv, NEW p \in Proc, p = ready_process,
         NEW src \in (Proc \ {p}) \cup {ANY},
         ReceiveTakes(p, src), BothOK'
  PROVE  IInv'
<1> DEFINE from == From(p, src)
<1>1. from \in Proc /\ Sending(from, p) /\ q_sending[p] # Nil
  <2>1. CASE src = ANY
    BY <2>1 DEF ReceiveTakes, From, IInv, TypeOK, HeadsAreSenders
  <2>2. CASE src # ANY
    <3>1. src \in Proc /\ from = src /\ Sending(src, p)
      BY <2>2 DEF ReceiveTakes, From
    <3> QED BY <3>1, SendersAreQueued
  <2> QED BY <2>1, <2>2
<1>2. CallerIdle(p) /\ p_flags[p] = {}
  BY DEF IInv, FieldsMatchFlags
<1>3. /\ p_flags[from] = {"SENDING"} /\ from # p
      /\ msg[from] = 1 /\ p_recvfrom[from] = NO_TASK /\ p_sendto[from] = p
  BY <1>1, <1>2 DEF IInv, FlagShape, FieldsMatchFlags, Sending
<1> USE DEF ReceiveTakes
<1>4. halted' = "no"
  BY <1>1, <1>2, <1>3 DEF Outcome
<1> HIDE DEF from
<1>5. /\ p_flags'[from] = {} /\ p_sendto'[from] = NO_TASK /\ msg'[from] = 0
      /\ \A x \in Proc : x # from => /\ p_flags'[x] = p_flags[x]
                                     /\ p_sendto'[x] = p_sendto[x]
                                     /\ msg'[x] = msg[x]
      /\ p_recvfrom' = p_recvfrom /\ ready_process' = ready_process
  BY <1>1, <1>3 DEF IInv, TypeOK, from
<1>6. Unlink(p, from)
  BY DEF from
<1> DEFINE Links == /\ HeadsAreSenders /\ LinksJoinSenders /\ SendersAreLinked
                    /\ LinkedOnce /\ LinksAcyclic /\ LinksHaveFirst
<1>7. /\ Links'
      /\ q_sending' \in [Proc -> Proc \cup {Nil}]
      /\ next_sending' \in [Proc -> Proc \cup {Nil}]
  BY <1>1, <1>5, <1>6, UnlinkLinks
<1>8. TypeOK'
  BY <1>1, <1>4, <1>7 DEF IInv, TypeOK, Stop, BothOK, from
<1>9. (FlagShape /\ TtyRuns /\ p_flags[ready_process] = {})'
  BY <1>1, <1>3, <1>5, Constants DEF IInv, FlagShape, TtyRuns
<1>10. FieldsMatchFlags'
  <2>1. /\ p_flags'[from] = {} /\ msg'[from] = 0
        /\ p_recvfrom'[from] = NO_TASK /\ p_sendto'[from] = NO_TASK
    BY <1>3, <1>5
  <2> QED BY <1>5, <2>1 DEF IInv, FieldsMatchFlags, CallerIdle
<1>11. NoMissedRendezvous'
  BY <1>5 DEF IInv, NoMissedRendezvous, Sending, Accepts
<1>12. NoSendCycle'
  BY <1>5 DEF IInv, NoSendCycle
<1> QED BY <1>4, <1>7, <1>8, <1>9, <1>10, <1>11, <1>12 DEF IInv

\* msg_receive with nobody to receive from: the caller blocks, and no sender
\* it accepts is on its list.
LEMMA ReceiveBlocksIInv ==
  ASSUME IInv, NEW p \in Proc, p = ready_process, p # TASK_TTY,
         NEW src \in (Proc \ {p}) \cup {ANY}, NEW m \in Message,
         ReceiveBlocks(p, src, m), BothOK'
  PROVE  IInv'
<1> USE DEF ReceiveBlocks
<1>1. CallerIdle(p) /\ p_flags[p] = {}
  BY DEF IInv, FieldsMatchFlags
<1>2. /\ p_flags'[p] = {"RECEIVING"} /\ msg'[p] = 1 /\ p_recvfrom'[p] = src
      /\ \A x \in Proc : x # p => /\ p_flags'[x] = p_flags[x]
                                  /\ msg'[x] = msg[x]
                                  /\ p_recvfrom'[x] = p_recvfrom[x]
      /\ p_sendto' = p_sendto /\ q_sending' = q_sending /\ next_sending' = next_sending
  BY <1>1 DEF IInv, TypeOK
<1>3. p_flags' \in [Proc -> SUBSET Flag] /\ TtyRuns' /\ FlagShape'
  BY <1>2, Constants DEF IInv, TypeOK, TtyRuns, FlagShape, Flag
<1>4. Runnable(p_flags') # {}
  BY <1>3, Constants DEF TtyRuns, Runnable
<1>5. ready_process' \in Proc /\ p_flags'[ready_process'] = {}
  BY <1>3, <1>4, NextReadyRuns DEF IInv, TypeOK, schedule
<1>6. halted' = "no"
  BY <1>1, <1>4 DEF Outcome, CallerIdle
<1>7. TypeOK'
  BY <1>3, <1>5, <1>6 DEF IInv, TypeOK, Stop, BothOK
<1>8. FieldsMatchFlags'
  BY <1>1, <1>2 DEF IInv, FieldsMatchFlags, CallerIdle
<1>9. \A x, y \in Proc : Sending(x, y)' <=> Sending(x, y)
  BY <1>1, <1>2 DEF Sending
<1>10. HeadsAreSenders' /\ SendersAreLinked' /\ LinkedOnce'
  BY <1>2, <1>9 DEF IInv, TypeOK, HeadsAreSenders, SendersAreLinked, LinkedOnce
<1>11. LinksJoinSenders'
  BY <1>1, <1>2 DEF IInv, TypeOK, LinksJoinSenders, Sending
<1>12. LinksAcyclic' /\ LinksHaveFirst'
  BY <1>2 DEF IInv, LinksAcyclic, LinksHaveFirst
<1>13. NoSendCycle'
  BY <1>1, <1>2 DEF IInv, NoSendCycle
<1>14. NoMissedRendezvous'
  <2>1. SUFFICES ASSUME NEW x \in Proc, NEW y \in Proc, Sending(x, y) PROVE ~ Accepts(y, x)'
    BY <1>9 DEF NoMissedRendezvous
  <2>2. CASE y # p
    BY <1>2, <2>1, <2>2 DEF IInv, NoMissedRendezvous, Accepts
  <2>3. CASE y = p
    <3>1. From(p, src) = Nil
      OBVIOUS
    <3>2. src # x
      BY <2>1, <2>3, <3>1, Constants DEF From
    <3>3. src # ANY
      BY <2>1, <2>3, <3>1, SendersAreQueued DEF From
    <3> QED BY <1>2, <2>3, <3>2, <3>3 DEF Accepts
  <2> QED BY <2>2, <2>3
<1> QED
  BY <1>3, <1>5, <1>6, <1>7, <1>8, <1>10, <1>11, <1>12, <1>13, <1>14 DEF IInv

\* Every step of the system keeps the invariant, one case per action.
LEMMA NextIInv == IInv /\ [Next]_vars => IInv'
<1> SUFFICES ASSUME IInv, [Next]_vars PROVE IInv'
  OBVIOUS
<1>1. ASSUME NEW p \in Callers, NEW d \in Proc \ {p}, NEW b \in Body,
             Send(p, d, b) \/ SendBoth(p, d, b)
      PROVE  IInv'
  <2> DEFINE m == [source |-> p, body |-> b]
  <2>1. p \in Proc /\ p # TASK_TTY /\ m \in Message
    BY Constants DEF Message
  <2>2. p = ready_process /\ msg_send(p, d, m)
    BY <1>1 DEF Send, SendBoth, Running
  <2>3. BothOK'
    BY <1>1 DEF IInv, BothOK, Send, SendBoth
  <2> HIDE DEF m
  <2> QED BY <2>1, <2>2, <2>3, SendPanicsIInv, SendDeliversIInv, SendBlocksIInv DEF msg_send
<1>2. ASSUME NEW p \in Callers, NEW src \in (Proc \ {p}) \cup {ANY}, Receive(p, src)
      PROVE  IInv'
  <2> DEFINE m == [source |-> p, body |-> ZeroBody]
  <2>1. p \in Proc /\ p # TASK_TTY /\ m \in Message
    BY Constants, BodyAssumption DEF Message
  <2>2. p = ready_process /\ msg_receive(p, src, m)
    BY <1>2 DEF Receive, Running
  <2>3. BothOK'
    BY <1>2 DEF IInv, BothOK, Receive
  <2> HIDE DEF m
  <2> QED BY <2>1, <2>2, <2>3, ReceiveTakesIInv, ReceiveBlocksIInv DEF msg_receive
<1>3. ASSUME NEW p \in Callers, ReceiveBoth(p) PROVE IInv'
  <2> DEFINE m == [source |-> p, body |-> buf[p].body]
             src == both[p]
  <2>1. p \in Proc /\ p # TASK_TTY /\ m \in Message
    BY Constants DEF Message, IInv, TypeOK
  <2>2. p = ready_process /\ msg_receive(p, src, m)
    BY <1>3 DEF ReceiveBoth, Running
  <2>3. BothOK'
    BY <1>3, Constants DEF IInv, BothOK, ReceiveBoth
  <2>4. src \in (Proc \ {p}) \cup {ANY}
    BY <1>3, <2>1 DEF IInv, BothOK, ReceiveBoth
  <2> HIDE DEF m, src
  <2> QED BY <2>1, <2>2, <2>3, <2>4, ReceiveTakesIInv, ReceiveBlocksIInv DEF msg_receive
<1>4. CASE UNCHANGED vars
  <2> USE <1>4 DEF vars, table
  <2>1. (TypeOK /\ BothOK /\ FlagShape /\ TtyRuns /\ FieldsMatchFlags /\ p_flags[ready_process] = {})'
    BY DEF IInv, TypeOK, BothOK, FlagShape, TtyRuns, FieldsMatchFlags, CallerIdle
  <2>2. (HeadsAreSenders /\ LinksJoinSenders /\ SendersAreLinked /\ LinkedOnce)'
    BY DEF IInv, HeadsAreSenders, LinksJoinSenders, SendersAreLinked, LinkedOnce, Sending
  <2>3. (LinksAcyclic /\ LinksHaveFirst /\ NoMissedRendezvous /\ NoSendCycle)'
    BY DEF IInv, LinksAcyclic, LinksHaveFirst, NoMissedRendezvous, NoSendCycle, Sending, Accepts
  <2>4. (halted \in {"no", "panic"})'
    BY DEF IInv
  <2> QED BY <2>1, <2>2, <2>3, <2>4 DEF IInv
<1> QED BY <1>1, <1>2, <1>3, <1>4, ClockIrqIInv DEF Next, Call

-----------------------------------------------------------------------------
(* Theorems                                                                 *)

\* The inductive invariant holds in every reachable state, for a process
\* table of any size.
THEOREM Inductive == Spec => []IInv
<1>1. Init => IInv
  BY InitIInv
<1>2. IInv /\ [Next]_vars => IInv'
  BY NextIInv
<1> QED BY <1>1, <1>2, PTL DEF Spec

\* The fields of proc_table, the current process and the reason the kernel
\* stopped keep their types.
THEOREM TypeCorrect == Spec => []TypeOK
<1>1. IInv => TypeOK
  BY DEF IInv
<1> QED BY <1>1, Inductive, PTL

\* The assertions of process.c hold, and the loops of schedule() and of
\* deadlock() end.
THEOREM AssertionsHold == Spec => []KernelAssertionsHold
<1>1. IInv => KernelAssertionsHold
  BY DEF IInv, KernelAssertionsHold
<1> QED BY <1>1, Inductive, PTL

\* The check of deadlock() keeps the graph of blocked senders free of cycles.
THEOREM SendersAcyclic == Spec => []NoSendCycle
<1>1. IInv => NoSendCycle
  BY DEF IInv
<1> QED BY <1>1, Inductive, PTL

\* A sender is never left queued on a process blocked receiving from it.
THEOREM RendezvousHappens == Spec => []NoMissedRendezvous
<1>1. IInv => NoMissedRendezvous
  BY DEF IInv
<1> QED BY <1>1, Inductive, PTL

\* The linked list of each process holds exactly its blocked senders.
THEOREM ListsCorrect == Spec => []ListsHoldSenders
<1>1. IInv => ListsHoldSenders
  <2>1. SUFFICES ASSUME IInv, NEW d \in Proc
                 PROVE  Queued(d) = {p \in Proc : Sending(p, d)}
    BY DEF ListsHoldSenders
  <2>2. \A p \in Proc : Sending(p, d) => p \in Queued(d)
    BY <2>1, SendersAreQueued
  <2>3. CASE q_sending[d] = Nil
    BY <2>1, <2>2, <2>3 DEF Queued
  <2>4. CASE q_sending[d] # Nil
    BY <2>1, <2>2, <2>4, QueuedAreSenders
  <2> QED BY <2>3, <2>4
<1> QED BY <1>1, Inductive, PTL

\* The links of the lists never form a cycle.
THEOREM LinksCorrect == Spec => []LinksAcyclic
<1>1. IInv => LinksAcyclic
  BY DEF IInv
<1> QED BY <1>1, Inductive, PTL

\* The process that runs is not blocked.
THEOREM RunningCorrect == Spec => []RunningNotBlocked
<1>1. IInv => RunningNotBlocked
  BY DEF IInv, RunningNotBlocked
<1> QED BY <1>1, Inductive, PTL

-----------------------------------------------------------------------------
(* Ipc implements Rendezvous                                                *)

\* The linked list that begins at h, as the sequence of its processes.
ListOn(h, f, s) ==
  /\ s \in Seq(Proc)
  /\ s = << >> <=> h = Nil
  /\ h # Nil => s[1] = h /\ f[s[Len(s)]] = Nil
  /\ \A i \in 1..(Len(s) - 1) : f[s[i]] = s[i + 1]

Acyclic(f) == \A S \in SUBSET Proc : S # {} => \E p \in S : f[p] \notin S

\* A list without cycles has no process twice.
LEMMA ListInjective ==
  ASSUME NEW f, Acyclic(f), NEW h, NEW s, ListOn(h, f, s),
         NEW i \in 1..Len(s), NEW j \in 1..Len(s), i < j
  PROVE  s[i] # s[j]
<1> SUFFICES ASSUME s[i] = s[j] PROVE FALSE
  OBVIOUS
<1> DEFINE S == {s[k] : k \in i..(j - 1)}
<1>1. s \in Seq(Proc) /\ Len(s) \in Nat
  BY DEF ListOn
<1>2. S \in SUBSET Proc /\ s[i] \in S
  BY <1>1
<1>3. PICK k \in i..(j - 1) : f[s[k]] \notin S
  BY <1>2 DEF Acyclic
<1>4. f[s[k]] = s[k + 1] /\ k + 1 \in i..j
  BY <1>1 DEF ListOn
<1>5. s[k + 1] \in S
  BY <1>2, <1>4
<1> QED BY <1>3, <1>4, <1>5

\* So it is no longer than the table.
LEMMA ListFits ==
  ASSUME NEW f, Acyclic(f), NEW h, NEW s, ListOn(h, f, s)
  PROVE  Len(s) =< NR
<1>1. s \in Seq(Proc) /\ Len(s) \in Nat /\ s \in [1..Len(s) -> Proc]
  BY DEF ListOn
<1>2. IsFiniteSet(Proc) /\ Cardinality(Proc) = NR
  BY FS_Interval, SizeAssumption DEF Proc
<1>3. IsFiniteSet(1..Len(s)) /\ Cardinality(1..Len(s)) = Len(s)
  BY <1>1, FS_Interval
<1> SUFFICES ASSUME NR < Len(s) PROVE FALSE
  BY <1>1, SizeAssumption
<1>4. PICK x \in 1..Len(s), y \in 1..Len(s) : x # y /\ s[x] = s[y]
  BY <1>1, <1>2, <1>3, FS_PigeonHole
<1>5. x < y \/ y < x
  BY <1>1, <1>4
<1> QED BY <1>4, <1>5, ListInjective

\* The walk of the code reads off the list.
LEMMA WalkIsList ==
  ASSUME NEW f, Acyclic(f), NEW h \in Proc \cup {Nil}, NEW s, ListOn(h, f, s)
  PROVE  Walk(h, f) = s
<1> DEFINE next == [p \in Proc \cup {Nil} |-> IF p = Nil THEN Nil ELSE f[p]]
           IsAt(g) == g = [k \in 1..NR |-> IF k = 1 THEN h ELSE next[g[k - 1]]]
           at == CHOOSE g : IsAt(g)
           g0 == [k \in 1..NR |-> IF k =< Len(s) THEN s[k] ELSE Nil]
<1>1. /\ s \in Seq(Proc) /\ Len(s) \in Nat
      /\ Len(s) =< NR /\ NR \in Nat
      /\ \A k \in 1..Len(s) : s[k] \in Proc
  BY ListFits, SizeAssumption DEF ListOn
<1>2. Walk(h, f) = [k \in 1..Cardinality({j \in 1..NR : at[j] # Nil}) |-> at[k]]
  BY DEF Walk
<1>3. IsAt(g0)
  <2>1. ASSUME NEW k \in 1..NR
        PROVE  g0[k] = IF k = 1 THEN h ELSE next[g0[k - 1]]
    <3>1. CASE k = 1
      BY <1>1, <3>1 DEF ListOn
    <3>2. CASE k # 1 /\ k =< Len(s)
      <4>1. k - 1 \in 1..NR /\ g0[k - 1] = s[k - 1] /\ s[k - 1] \in Proc
        BY <1>1, <3>2
      <4>2. k - 1 \in 1..(Len(s) - 1) /\ (k - 1) + 1 = k
        BY <1>1, <3>2
      <4>3. f[s[k - 1]] = s[k]
        BY <4>2 DEF ListOn
      <4> QED BY <1>1, <3>2, <4>1, <4>3, Constants
    <3>3. CASE k # 1 /\ ~(k =< Len(s))
      <4>1. k - 1 \in 1..NR
        BY <1>1, <3>3
      <4>2. CASE k - 1 = Len(s)
        <5>1. s # << >> /\ h # Nil /\ f[s[Len(s)]] = Nil
          BY <1>1, <3>3, <4>2 DEF ListOn
        <5> QED BY <1>1, <3>3, <4>1, <4>2, <5>1, Constants
      <4>3. CASE k - 1 # Len(s)
        BY <1>1, <3>3, <4>1, <4>3
      <4> QED BY <4>2, <4>3
    <3> QED BY <3>1, <3>2, <3>3
  <2> QED BY <2>1
<1>4. IsAt(at)
  BY <1>3
<1> HIDE DEF at, g0, next
<1>5. \A k \in 1..NR : at[k] = g0[k]
  <2> DEFINE Diff == {k \in 1..NR : at[k] # g0[k]}
  <2> SUFFICES ASSUME Diff # {} PROVE FALSE
    OBVIOUS
  <2>1. Diff \in SUBSET Nat
    BY <1>1
  <2>2. PICK k \in Diff : \A m \in Diff : k =< m
    BY <2>1, LeastNat
  <2>3. k # 1
    BY <1>3, <1>4, <2>2
  <2>4. k - 1 \in 1..NR /\ k - 1 \notin Diff
    BY <1>1, <2>2, <2>3
  <2>5. at[k - 1] = g0[k - 1]
    BY <2>4
  <2>6. at[k] = next[at[k - 1]] /\ g0[k] = next[g0[k - 1]]
    BY <1>3, <1>4, <2>2, <2>3
  <2> QED BY <2>2, <2>5, <2>6
<1>6. {j \in 1..NR : at[j] # Nil} = 1..Len(s)
  BY <1>1, <1>5, Constants DEF g0
<1>7. Cardinality(1..Len(s)) = Len(s)
  <2>1. Len(s) \in Nat /\ Len(s) \in Int
    BY <1>1
  <2>2. Cardinality(1..Len(s)) = IF 1 > Len(s) THEN 0 ELSE Len(s) - 1 + 1
    BY <2>1, FS_Interval
  <2> QED BY <2>1, <2>2
<1>8. Walk(h, f) = [k \in 1..Len(s) |-> at[k]]
  BY <1>2, <1>6, <1>7
<1>9. \A k \in 1..Len(s) : at[k] = s[k]
  BY <1>1, <1>5 DEF g0
<1> QED BY <1>1, <1>8, <1>9

\* The processes of a list are those its walk visits.
LEMMA ListIsReached ==
  ASSUME NEW f, NEW h \in Proc, NEW s, ListOn(h, f, s)
  PROVE  Reached(h, f) = {s[i] : i \in 1..Len(s)}
<1> DEFINE T == {s[i] : i \in 1..Len(s)}
<1>1. /\ s \in Seq(Proc) /\ Len(s) \in Nat /\ Len(s) # 0
      /\ s[1] = h /\ f[s[Len(s)]] = Nil
  <2>1. h # Nil
    BY Constants
  <2>2. s \in Seq(Proc) /\ s # << >> /\ s[1] = h /\ f[s[Len(s)]] = Nil
    BY <2>1 DEF ListOn
  <2> QED BY <2>2
<1>2. T \in SUBSET Proc /\ h \in T
  BY <1>1
<1>3. ASSUME NEW x \in T, f[x] \in Proc PROVE f[x] \in T
  <2>1. PICK i \in 1..Len(s) : x = s[i]
    OBVIOUS
  <2>2. i # Len(s)
    BY <1>1, <1>3, <2>1, Constants
  <2>3. f[x] = s[i + 1] /\ i + 1 \in 1..Len(s)
    BY <1>1, <2>1, <2>2 DEF ListOn
  <2> QED BY <2>3
<1> HIDE DEF T
<1>4. Reached(h, f) \subseteq T
  BY <1>2, <1>3, ReachedFacts
<1>5. \A i \in 1..Len(s) : s[i] \in Reached(h, f)
  <2> DEFINE Out == {i \in 1..Len(s) : s[i] \notin Reached(h, f)}
  <2> SUFFICES ASSUME Out # {} PROVE FALSE
    OBVIOUS
  <2>1. Out \in SUBSET Nat
    OBVIOUS
  <2>2. PICK i \in Out : \A j \in Out : i =< j
    BY <2>1, LeastNat
  <2>3. i # 1
    BY <1>1, <2>2, ReachedFacts
  <2>4. i - 1 \in 1..(Len(s) - 1) /\ i - 1 \notin Out /\ (i - 1) + 1 = i
    BY <1>1, <2>2, <2>3
  <2>5. s[i - 1] \in Reached(h, f) /\ f[s[i - 1]] = s[i] /\ s[i] \in Proc
    BY <1>1, <2>2, <2>4 DEF ListOn
  <2> QED BY <2>2, <2>5, ReachedFacts
<1> QED BY <1>4, <1>5 DEF T

-----------------------------------------------------------------------------
\* Each process has a list, and a process that is blocked sending still has the
\* message that msg_send stamped with its number.
RefInv ==
  /\ \A d \in Proc : \E s \in Seq(Proc) : ListOn(q_sending[d], next_sending, s)
  /\ \A p \in Proc : "SENDING" \in p_flags[p] => buf[p].source = p

\* What is on the list of a process, as a sequence.
LEMMA ListFacts ==
  ASSUME IInv, RefInv, NEW d \in Proc, NEW s, ListOn(q_sending[d], next_sending, s)
  PROVE  /\ s \in Seq(Proc) /\ Len(s) \in Nat
         /\ \A x \in Proc : Sending(x, d) <=> \E i \in 1..Len(s) : s[i] = x
         /\ \A i \in 1..Len(s) : s[i] \in Proc /\ Sending(s[i], d) /\ buf[s[i]].source = s[i]
         /\ \A i, j \in 1..Len(s) : s[i] = s[j] => i = j
         /\ QueueOf(d) = [i \in 1..Len(s) |-> buf[s[i]]]
<1>1. s \in Seq(Proc) /\ Len(s) \in Nat /\ q_sending[d] \in Proc \cup {Nil} /\ Acyclic(next_sending)
  BY DEF ListOn, IInv, TypeOK, LinksAcyclic, Acyclic
<1>2. ASSUME NEW x \in Proc PROVE Sending(x, d) <=> \E i \in 1..Len(s) : s[i] = x
  <2>1. CASE q_sending[d] = Nil
    <3>1. s = << >>
      BY <2>1 DEF ListOn
    <3> QED BY <2>1, <3>1, SendersAreQueued
  <2>2. CASE q_sending[d] # Nil
    <3>1. q_sending[d] \in Proc
      BY <1>1, <2>2
    <3>2. Queued(d) = {s[i] : i \in 1..Len(s)}
      BY <3>1, ListIsReached, QueuedAreSenders, <2>2
    <3> QED BY <2>2, <3>2, QueuedAreSenders, SendersAreQueued
  <2> QED BY <2>1, <2>2
<1>3. ASSUME NEW i \in 1..Len(s)
      PROVE  s[i] \in Proc /\ Sending(s[i], d) /\ buf[s[i]].source = s[i]
  BY <1>1, <1>2 DEF RefInv, Sending
<1>4. ASSUME NEW i \in 1..Len(s), NEW j \in 1..Len(s), s[i] = s[j] PROVE i = j
  BY <1>1, <1>4, ListInjective
<1>5. Walk(q_sending[d], next_sending) = s
  BY <1>1, WalkIsList
<1>6. QueueOf(d) = [i \in 1..Len(s) |-> buf[s[i]]]
  BY <1>1, <1>5 DEF QueueOf
<1> QED BY <1>1, <1>2, <1>3, <1>4, <1>6

\* To wait in the queue of Rendezvous is to be blocked sending.
LEMMA WaitsOnIsSending ==
  ASSUME IInv, RefInv, NEW x \in Proc, NEW d \in Proc
  PROVE  Abs!WaitsOn(x, d) <=> Sending(x, d)
<1>1. PICK s \in Seq(Proc) : ListOn(q_sending[d], next_sending, s)
  BY DEF RefInv
<1>2. /\ \A i \in 1..Len(s) : s[i] \in Proc /\ buf[s[i]].source = s[i]
      /\ Sending(x, d) <=> \E i \in 1..Len(s) : s[i] = x
      /\ QueueOf(d) = [i \in 1..Len(s) |-> buf[s[i]]]
  BY <1>1, ListFacts
<1>3. Abs!WaitsOn(x, d) <=> \E i \in 1..Len(s) : buf[s[i]].source = x
  BY <1>2 DEF Abs!WaitsOn
<1> QED BY <1>2, <1>3

\* The process that runs is idle in Rendezvous.
LEMMA RunningIsIdle ==
  ASSUME IInv, RefInv, NEW p \in Proc, Running(p)
  PROVE  Abs!Idle(p) /\ p_flags[p] = {}
<1>1. p_flags[p] = {} /\ halted = "no"
  BY DEF IInv, Running
<1>2. \A d \in Proc : ~ Abs!WaitsOn(p, d)
  BY <1>1, WaitsOnIsSending DEF Sending
<1> QED BY <1>1, <1>2 DEF Abs!Idle

-----------------------------------------------------------------------------
(* Each step of Ipc is a step of Rendezvous, and keeps RefInv.              *)

\* Nothing moves in Rendezvous while the table and the messages stay.
LEMMA SameAbs ==
  ASSUME UNCHANGED <<table, buf>>
  PROVE  /\ \A d \in Proc : QueueOf(d)' = QueueOf(d)
         /\ RefInv => RefInv'
         /\ halted' = halted => UNCHANGED Abs!absvars
<1>1. \A d \in Proc : QueueOf(d)' = QueueOf(d)
  BY DEF QueueOf, table
<1>2. RefInv => RefInv'
  BY DEF RefInv, table
<1> QED BY <1>1, <1>2 DEF table, Abs!absvars

\* A send that deadlock() refuses closes a circle of senders.
LEMMA SendPanicsRefuses ==
  ASSUME IInv, RefInv, NEW p \in Proc, NEW d \in Proc, Running(p), SendPanics(p, d)
  PROVE  Abs!Refuse(p, d) /\ RefInv'
<1>1. UNCHANGED <<table, buf>> /\ halted' = "panic"
  BY DEF SendPanics
<1>2. Abs!Idle(p)
  BY RunningIsIdle
<1>3. ASSUME NEW S \in SUBSET Proc, d \in S,
             \A x \in S, y \in Proc : Abs!WaitsOn(x, y) => y \in S
      PROVE  p \in S
  <2> DEFINE f == [x \in Proc |-> IF "SENDING" \in p_flags[x] THEN p_sendto[x] ELSE Nil]
  <2>1. ASSUME NEW x \in S, f[x] \in Proc PROVE f[x] \in S
    <3>1. x \in Proc /\ Sending(x, f[x])
      BY <2>1, Constants DEF Sending
    <3> HIDE DEF f
    <3> QED BY <1>3, <2>1, <3>1, WaitsOnIsSending
  <2>2. SendWalk(d) = Reached(d, f)
    BY DEF SendWalk
  <2> HIDE DEF f
  <2>3. Reached(d, f) \subseteq S
    BY <1>3, <2>1, ReachedFacts
  <2> QED BY <2>2, <2>3 DEF SendPanics, deadlock
<1>4. Abs!Circle(p, d)
  BY <1>3 DEF Abs!Circle
<1> QED BY <1>1, <1>2, <1>4, SameAbs DEF Abs!Refuse, table

\* The queue of a process after a step, from its list after the step.
LEMMA NextQueue ==
  ASSUME IInv', NEW e \in Proc, NEW s, ListOn(q_sending'[e], next_sending', s)
  PROVE  QueueOf(e)' = [i \in 1..Len(s) |-> buf'[s[i]]]
<1>1. /\ s \in Seq(Proc)
      /\ q_sending'[e] \in Proc \cup {Nil}
      /\ Acyclic(next_sending')
  BY DEF IInv, TypeOK, LinksAcyclic, Acyclic, ListOn
<1>2. Walk(q_sending'[e], next_sending') = s
  BY <1>1, WalkIsList
<1>3. QueueOf(e)' = LET senders == Walk(q_sending'[e], next_sending')
                    IN  [i \in DOMAIN senders |-> buf'[senders[i]]]
  BY DEF QueueOf, Walk
<1>4. DOMAIN s = 1..Len(s)
  BY <1>1
<1> QED BY <1>2, <1>3, <1>4

\* A queue stays when its list does and no sender on it has a new message.
LEMMA SameQueue ==
  ASSUME IInv, IInv', RefInv, NEW e \in Proc, NEW s, ListOn(q_sending[e], next_sending, s),
         ListOn(q_sending'[e], next_sending', s),
         \A x \in Proc : "SENDING" \in p_flags[x] => buf'[x] = buf[x]
  PROVE  QueueOf(e)' = QueueOf(e)
<1>1. \A i \in 1..Len(s) : buf'[s[i]] = buf[s[i]]
  BY ListFacts DEF Sending
<1>2. QueueOf(e)' = [i \in 1..Len(s) |-> buf'[s[i]]]
  BY NextQueue
<1>3. QueueOf(e) = [i \in 1..Len(s) |-> buf[s[i]]]
  BY ListFacts
<1> QED BY <1>1, <1>2, <1>3

\* A message that is delivered is handed over; the lists stay as they are.
LEMMA SendDeliversHandsOver ==
  ASSUME IInv, IInv', RefInv, NEW p \in Proc, NEW d \in Proc \ {p}, Running(p),
         NEW m, SendDelivers(p, d, m)
  PROVE  Abs!HandOver(p, d, m) /\ RefInv'
<1>1. p_flags[p] = {} /\ p_flags[d] = {"RECEIVING"} /\ Abs!Idle(p)
  BY RunningIsIdle DEF SendDelivers, Accepts, IInv, FlagShape
<1>2. p_flags' = [p_flags EXCEPT ![d] = {}]
  <2>1. p_flags' = [p_flags EXCEPT ![d] = p_flags[d] \ {"RECEIVING"}]
    BY DEF SendDelivers
  <2>2. p_flags[d] \ {"RECEIVING"} = {}
    BY <1>1
  <2> QED BY <2>1, <2>2
<1>3. /\ UNCHANGED <<q_sending, next_sending>>
      /\ buf' = [buf EXCEPT ![p] = m, ![d] = m]
      /\ p_recvfrom' = [p_recvfrom EXCEPT ![d] = NO_TASK]
      /\ p_recvfrom[d] \in {p, ANY}
  BY DEF SendDelivers, Accepts
<1>4. /\ p_flags \in [Proc -> SUBSET Flag] /\ buf \in [Proc -> Message]
      /\ p_recvfrom \in [Proc -> Proc \cup {ANY, NO_TASK}]
  BY DEF IInv, TypeOK
<1>5. \A x \in Proc : "SENDING" \in p_flags[x] => x # p /\ x # d
  BY <1>1
<1>6. RefInv'
  <2>1. \A x \in Proc : "SENDING" \in p_flags'[x] => buf'[x].source = x
    BY <1>2, <1>3, <1>4, <1>5 DEF RefInv
  <2> QED BY <1>3, <2>1 DEF RefInv
<1>7. ASSUME NEW e \in Proc PROVE QueueOf(e)' = QueueOf(e)
  <2>1. PICK s \in Seq(Proc) : ListOn(q_sending[e], next_sending, s)
    BY DEF RefInv
  <2>2. \A x \in Proc : "SENDING" \in p_flags[x] => buf'[x] = buf[x]
    BY <1>3, <1>4, <1>5
  <2> QED BY <1>3, <2>1, <2>2, SameQueue
<1>8. halted = "no" /\ halted' = "no"
  BY DEF IInv, Running, SendDelivers, Outcome
<1>9. [x \in Proc |-> IF "RECEIVING" \in p_flags[x] THEN p_recvfrom[x] ELSE NO_TASK][d] \in {p, ANY}
  BY <1>1, <1>3
<1>10. [x \in Proc |-> IF "RECEIVING" \in p_flags'[x] THEN p_recvfrom'[x] ELSE NO_TASK]
       = [[x \in Proc |-> IF "RECEIVING" \in p_flags[x] THEN p_recvfrom[x] ELSE NO_TASK]
            EXCEPT ![d] = NO_TASK]
  BY <1>2, <1>3, <1>4
<1>11. [e \in Proc |-> QueueOf(e)'] = [e \in Proc |-> QueueOf(e)]
  BY <1>7
<1> QED
  BY <1>1, <1>3, <1>6, <1>8, <1>9, <1>10, <1>11 DEF Abs!HandOver

\* A list stays when none of its links changes.
LEMMA SameList ==
  ASSUME NEW h, NEW f, NEW g, NEW t, ListOn(h, f, t),
         \A i \in 1..Len(t) : g[t[i]] = f[t[i]]
  PROVE  ListOn(h, g, t)
<1>1. t \in Seq(Proc) /\ Len(t) \in Nat /\ (t = << >> <=> h = Nil)
      /\ \A i \in 1..(Len(t) - 1) : g[t[i]] = t[i + 1]
  BY DEF ListOn
<1>2. ASSUME h # Nil PROVE t[1] = h /\ g[t[Len(t)]] = Nil
  <2>1. Len(t) \in 1..Len(t)
    BY <1>1, <1>2
  <2> QED BY <1>2, <2>1 DEF ListOn
<1> QED BY <1>1, <1>2 DEF ListOn

\* The links after msg_send has put p at the end of the list of d.
LEMMA SendBlocksAppends ==
  ASSUME IInv, RefInv, NEW p \in Proc, p_flags[p] = {}, NEW d \in Proc \ {p}, Link(p, d),
         NEW s, ListOn(q_sending[d], next_sending, s)
  PROVE  /\ ListOn(q_sending'[d], next_sending', Append(s, p))
         /\ \A e \in Proc \ {d}, t \in Seq(Proc) :
              ListOn(q_sending[e], next_sending, t) => ListOn(q_sending'[e], next_sending', t)
<1>1. /\ q_sending \in [Proc -> Proc \cup {Nil}] /\ next_sending \in [Proc -> Proc \cup {Nil}]
      /\ s \in Seq(Proc) /\ Len(s) \in Nat
      /\ p \in Proc /\ p # Nil
  BY Constants DEF IInv, TypeOK, ListOn
<1>2. \A e \in Proc, t \in Seq(Proc), i \in Nat :
        ListOn(q_sending[e], next_sending, t) /\ i \in 1..Len(t) =>
          t[i] \in Proc /\ t[i] # p /\ Sending(t[i], e)
  <2> SUFFICES ASSUME NEW e \in Proc, NEW t \in Seq(Proc), NEW i \in 1..Len(t),
                      ListOn(q_sending[e], next_sending, t)
               PROVE  t[i] \in Proc /\ t[i] # p /\ Sending(t[i], e)
    OBVIOUS
  <2>1. t[i] \in Proc /\ Sending(t[i], e)
    BY ListFacts
  <2> QED BY <2>1 DEF Sending
<1>3. CASE q_sending[d] = Nil
  <2>1. s = << >>
    BY <1>3 DEF ListOn
  <2>2. /\ q_sending' = [q_sending EXCEPT ![d] = p]
        /\ next_sending' = [next_sending EXCEPT ![p] = Nil]
    BY <1>3 DEF Link
  <2>3. ListOn(q_sending'[d], next_sending', Append(s, p))
    <3>1. Append(s, p) = <<p>> /\ Len(<<p>>) = 1 /\ <<p>>[1] = p /\ <<p>> \in Seq(Proc)
      BY <2>1
    <3>2. q_sending'[d] = p /\ next_sending'[p] = Nil
      BY <1>1, <2>2
    <3> QED BY <1>1, <3>1, <3>2 DEF ListOn
  <2>4. ASSUME NEW e \in Proc \ {d}, NEW t \in Seq(Proc), ListOn(q_sending[e], next_sending, t)
        PROVE  ListOn(q_sending'[e], next_sending', t)
    <3>1. \A i \in 1..Len(t) : next_sending'[t[i]] = next_sending[t[i]]
      BY <1>1, <1>2, <2>2, <2>4
    <3>2. q_sending'[e] = q_sending[e]
      BY <1>1, <2>2
    <3> QED BY <2>4, <3>1, <3>2, SameList
  <2> QED BY <2>3, <2>4
<1>4. CASE q_sending[d] # Nil
  <2>1. Len(s) # 0 /\ s[1] = q_sending[d] /\ next_sending[s[Len(s)]] = Nil
    BY <1>1, <1>4 DEF ListOn
  <2>2. LastQueued(d) = s[Len(s)]
    <3>1. Queued(d) = {s[i] : i \in 1..Len(s)}
      BY <1>4, ListIsReached, QueuedAreSenders
    <3>2. PICK k \in 1..Len(s) : LastQueued(d) = s[k] /\ next_sending[s[k]] = Nil
      BY <1>1, <2>1, <3>1 DEF LastQueued
    <3>3. k # Len(s) => next_sending[s[k]] = s[k + 1] /\ k + 1 \in 1..Len(s)
      BY <1>1 DEF ListOn
    <3> QED BY <1>1, <1>2, <3>2, <3>3, Constants
  <2>3. /\ next_sending' = [next_sending EXCEPT ![s[Len(s)]] = p, ![p] = Nil]
        /\ q_sending' = q_sending
    BY <1>4, <2>2 DEF Link
  <2>4. s[Len(s)] \in Proc /\ s[Len(s)] # p
    BY <1>1, <1>2, <2>1
  <2>5. /\ next_sending'[s[Len(s)]] = p /\ next_sending'[p] = Nil
        /\ \A x \in Proc : x # s[Len(s)] /\ x # p => next_sending'[x] = next_sending[x]
    BY <1>1, <2>3, <2>4
  <2>6. ListOn(q_sending'[d], next_sending', Append(s, p))
    <3> DEFINE u == Append(s, p)
    <3>1. /\ u \in Seq(Proc) /\ Len(u) = Len(s) + 1 /\ u[Len(s) + 1] = p
          /\ \A i \in 1..Len(s) : u[i] = s[i]
      BY <1>1
    <3> HIDE DEF u
    <3>2. ASSUME NEW i \in 1..(Len(u) - 1) PROVE next_sending'[u[i]] = u[i + 1]
      <4>1. CASE i = Len(s)
        BY <1>1, <2>5, <3>1, <4>1
      <4>2. CASE i # Len(s)
        <5>1. i \in 1..Len(s) /\ i \in 1..(Len(s) - 1) /\ i + 1 \in 1..Len(s)
          BY <1>1, <3>1, <4>2
        <5>2. s[i] # s[Len(s)] /\ s[i] # p /\ s[i] \in Proc
          BY <1>1, <1>2, <2>1, <4>2, <5>1, ListFacts
        <5>3. next_sending[s[i]] = s[i + 1]
          BY <5>1 DEF ListOn
        <5> QED BY <2>5, <3>1, <5>1, <5>2, <5>3
      <4> QED BY <4>1, <4>2
    <3>3. u[1] = q_sending'[d] /\ u # << >> /\ q_sending'[d] # Nil
      BY <1>1, <1>4, <2>1, <2>3, <3>1
    <3>4. next_sending'[u[Len(u)]] = Nil
      BY <2>5, <3>1
    <3>5. ListOn(q_sending'[d], next_sending', u)
      BY <3>1, <3>2, <3>3, <3>4 DEF ListOn
    <3> QED BY <3>5 DEF u
  <2>7. ASSUME NEW e \in Proc \ {d}, NEW t \in Seq(Proc), ListOn(q_sending[e], next_sending, t)
        PROVE  ListOn(q_sending'[e], next_sending', t)
    <3>1. Sending(s[Len(s)], d)
      BY <1>1, <1>2, <2>1
    <3>2. \A i \in 1..Len(t) : next_sending'[t[i]] = next_sending[t[i]]
      BY <1>2, <2>5, <2>7, <3>1 DEF Sending
    <3>3. q_sending'[e] = q_sending[e]
      BY <2>3
    <3> QED BY <2>7, <3>2, <3>3, SameList
  <2> QED BY <2>6, <2>7
<1> QED BY <1>3, <1>4

\* A message that finds nobody receiving it joins the queue.
LEMMA SendBlocksEnqueues ==
  ASSUME IInv, IInv', RefInv, NEW p \in Proc, NEW d \in Proc \ {p}, Running(p),
         NEW m \in Message, m.source = p, SendBlocks(p, d, m)
  PROVE  Abs!Enqueue(p, d, m) /\ RefInv'
<1>1. p_flags[p] = {} /\ Abs!Idle(p)
  BY RunningIsIdle
<1>2. /\ Link(p, d)
      /\ buf' = [buf EXCEPT ![p] = m]
      /\ p_recvfrom' = p_recvfrom
      /\ ~ Accepts(d, p)
  BY DEF SendBlocks
<1>3. /\ p_flags \in [Proc -> SUBSET Flag] /\ buf \in [Proc -> Message]
      /\ p_recvfrom \in [Proc -> Proc \cup {ANY, NO_TASK}]
  BY DEF IInv, TypeOK
<1>4. p_flags' = [p_flags EXCEPT ![p] = {"SENDING"}]
  <2>1. p_flags' = [p_flags EXCEPT ![p] = p_flags[p] \cup {"SENDING"}]
    BY DEF SendBlocks
  <2>2. p_flags[p] \cup {"SENDING"} = {"SENDING"}
    BY <1>1
  <2> QED BY <2>1, <2>2
<1>5. PICK s \in Seq(Proc) : ListOn(q_sending[d], next_sending, s)
  BY DEF RefInv
<1>6. /\ ListOn(q_sending'[d], next_sending', Append(s, p))
      /\ \A e \in Proc \ {d}, t \in Seq(Proc) :
           ListOn(q_sending[e], next_sending, t) => ListOn(q_sending'[e], next_sending', t)
  BY <1>1, <1>2, <1>5, SendBlocksAppends
<1>7. Append(s, p) \in Seq(Proc)
  BY <1>5
<1>8. \A x \in Proc : "SENDING" \in p_flags[x] => buf'[x] = buf[x]
  BY <1>1, <1>2, <1>3
<1>9. RefInv'
  <2>1. \A x \in Proc : "SENDING" \in p_flags'[x] => buf'[x].source = x
    BY <1>2, <1>3, <1>4 DEF RefInv
  <2>2. ASSUME NEW e \in Proc
        PROVE  \E t \in Seq(Proc) : ListOn(q_sending'[e], next_sending', t)
    BY <1>6, <1>7 DEF RefInv
  <2> QED BY <2>1, <2>2 DEF RefInv
<1>10. QueueOf(d)' = Append(QueueOf(d), m)
  <2>1. QueueOf(d) = [i \in 1..Len(s) |-> buf[s[i]]]
    BY <1>5, ListFacts
  <2>2. QueueOf(d)' = [i \in 1..Len(Append(s, p)) |-> buf'[Append(s, p)[i]]]
    BY <1>6, NextQueue
  <2>3. \A i \in 1..Len(s) : s[i] \in Proc /\ buf'[s[i]] = buf[s[i]]
    BY <1>5, <1>8, ListFacts DEF Sending
  <2>4. buf'[p] = m
    BY <1>2, <1>3
  <2>5. /\ Len(s) \in Nat /\ Len(Append(s, p)) = Len(s) + 1
        /\ Append(s, p)[Len(s) + 1] = p
        /\ \A i \in 1..Len(s) : Append(s, p)[i] = s[i]
    BY <1>5
  <2>6. QueueOf(d) \in Seq(Message) /\ Len(QueueOf(d)) = Len(s)
    BY <1>3, <2>1, <2>3, <2>5
  <2>7. /\ Append(QueueOf(d), m) \in Seq(Message)
        /\ Len(Append(QueueOf(d), m)) = Len(s) + 1
        /\ Append(QueueOf(d), m)[Len(s) + 1] = m
        /\ \A i \in 1..Len(s) : Append(QueueOf(d), m)[i] = buf[s[i]]
    BY <2>1, <2>5, <2>6
  <2> DEFINE q == [i \in 1..(Len(s) + 1) |-> buf'[Append(s, p)[i]]]
  <2>8. QueueOf(d)' = q
    BY <2>2, <2>5
  <2>9. \A i \in 1..(Len(s) + 1) : q[i] = Append(QueueOf(d), m)[i]
    BY <2>3, <2>4, <2>5, <2>7
  <2>10. q = Append(QueueOf(d), m)
    <3> DEFINE a == Append(QueueOf(d), m)
    <3>1. a \in Seq(Message) /\ Len(a) = Len(s) + 1 /\ \A i \in 1..(Len(s) + 1) : q[i] = a[i]
      BY <2>7, <2>9
    <3> HIDE DEF a
    <3>2. a = [i \in 1..(Len(s) + 1) |-> a[i]]
      BY <3>1
    <3>3. q = [i \in 1..(Len(s) + 1) |-> q[i]]
      OBVIOUS
    <3> HIDE DEF q
    <3>4. q = a
      BY <3>1, <3>2, <3>3
    <3> QED BY <3>4 DEF a
  <2> QED BY <2>8, <2>10
<1>11. ASSUME NEW e \in Proc \ {d} PROVE QueueOf(e)' = QueueOf(e)
  <2>1. PICK t \in Seq(Proc) : ListOn(q_sending[e], next_sending, t)
    BY DEF RefInv
  <2> QED BY <1>6, <1>8, <2>1, SameQueue
<1>12. halted = "no" /\ halted' = "no"
  BY DEF IInv, Running, SendBlocks, Outcome
<1>13. [x \in Proc |-> IF "RECEIVING" \in p_flags[x] THEN p_recvfrom[x] ELSE NO_TASK][d] \notin {p, ANY}
  BY <1>2, Constants DEF Accepts
<1>14. [x \in Proc |-> IF "RECEIVING" \in p_flags'[x] THEN p_recvfrom'[x] ELSE NO_TASK]
       = [x \in Proc |-> IF "RECEIVING" \in p_flags[x] THEN p_recvfrom[x] ELSE NO_TASK]
  BY <1>1, <1>2, <1>3, <1>4
<1>15. [e \in Proc |-> QueueOf(e)']
       = [[e \in Proc |-> QueueOf(e)] EXCEPT ![d] = Append(@, m)]
  BY <1>10, <1>11
<1> QED
  BY <1>1, <1>2, <1>9, <1>12, <1>13, <1>14, <1>15 DEF Abs!Enqueue

\* A sequence without its i-th element.
Without(s, i) == [j \in 1..(Len(s) - 1) |-> IF j < i THEN s[j] ELSE s[j + 1]]

\* RemoveAt of Rendezvous is that sequence.
LEMMA RemoveAtIsWithout ==
  ASSUME NEW S, NEW s \in Seq(S), NEW i \in 1..Len(s)
  PROVE  Abs!RemoveAt(s, i) = Without(s, i)
<1> DEFINE a == SubSeq(s, 1, i - 1)
           b == SubSeq(s, i + 1, Len(s))
<1>1. Len(s) \in Nat /\ i \in Nat /\ i >= 1 /\ i =< Len(s)
  OBVIOUS
<1>2. a \in Seq(S) /\ Len(a) = i - 1 /\ \A j \in 1..(i - 1) : a[j] = s[j]
  BY <1>1
<1>3. b \in Seq(S) /\ Len(b) = Len(s) - i /\ \A j \in 1..(Len(s) - i) : b[j] = s[i + j]
  BY <1>1
<1>4. Abs!RemoveAt(s, i) = a \o b
  BY DEF Abs!RemoveAt
<1> HIDE DEF a, b
<1> DEFINE c == a \o b
<1>5. /\ c \in Seq(S) /\ Len(c) = Len(s) - 1
      /\ \A j \in 1..(Len(s) - 1) : c[j] = IF j =< i - 1 THEN a[j] ELSE b[j - (i - 1)]
  <2>1. Len(a) \in Nat /\ Len(b) \in Nat /\ Len(a) + Len(b) = Len(s) - 1
    BY <1>1, <1>2, <1>3
  <2>2. /\ c \in Seq(S) /\ Len(c) = Len(a) + Len(b)
        /\ \A j \in 1..(Len(a) + Len(b)) :
             c[j] = IF j =< Len(a) THEN a[j] ELSE b[j - Len(a)]
    BY <1>2, <1>3, ConcatProperties
  <2> HIDE DEF c
  <2> QED BY <1>2, <2>1, <2>2
<1> HIDE DEF c
<1>6. c = [j \in 1..(Len(s) - 1) |-> c[j]]
  BY <1>5
<1>7. ASSUME NEW j \in 1..(Len(s) - 1) PROVE c[j] = IF j < i THEN s[j] ELSE s[j + 1]
  <2>1. CASE j < i
    BY <1>1, <1>2, <1>5, <2>1
  <2>2. CASE ~(j < i)
    <3>1. j - (i - 1) \in 1..(Len(s) - i) /\ i + (j - (i - 1)) = j + 1 /\ ~(j =< i - 1)
      BY <1>1, <2>2
    <3> QED BY <1>3, <1>5, <2>2, <3>1
  <2> QED BY <2>1, <2>2
<1>8. c = Without(s, i)
  BY <1>6, <1>7 DEF Without
<1> QED BY <1>4, <1>8 DEF c

\* The links after msg_receive has taken the i-th sender off the list of p.
LEMMA UnlinkRemoves ==
  ASSUME IInv, RefInv, NEW p \in Proc, NEW s, ListOn(q_sending[p], next_sending, s),
         NEW i \in 1..Len(s), Unlink(p, s[i])
  PROVE  /\ ListOn(q_sending'[p], next_sending', Without(s, i))
         /\ \A e \in Proc \ {p}, t \in Seq(Proc) :
              ListOn(q_sending[e], next_sending, t) => ListOn(q_sending'[e], next_sending', t)
<1> DEFINE u == Without(s, i)
<1>1. /\ q_sending \in [Proc -> Proc \cup {Nil}] /\ next_sending \in [Proc -> Proc \cup {Nil}]
      /\ s \in Seq(Proc) /\ Len(s) \in Nat /\ Len(s) # 0
      /\ \A k \in 1..Len(s) : s[k] \in Proc /\ s[k] # Nil /\ Sending(s[k], p)
      /\ \A k, l \in 1..Len(s) : s[k] = s[l] => k = l
  BY ListFacts, Constants DEF IInv, TypeOK
<1>2. /\ q_sending[p] = s[1] /\ next_sending[s[Len(s)]] = Nil
      /\ \A k \in 1..(Len(s) - 1) : next_sending[s[k]] = s[k + 1]
  BY <1>1 DEF ListOn
<1>3. \A e \in Proc \ {p}, t \in Seq(Proc), k \in Nat :
        ListOn(q_sending[e], next_sending, t) /\ k \in 1..Len(t) =>
          t[k] \in Proc /\ ~ Sending(t[k], p)
  <2> SUFFICES ASSUME NEW e \in Proc \ {p}, NEW t \in Seq(Proc), NEW k \in 1..Len(t),
                      ListOn(q_sending[e], next_sending, t)
               PROVE  t[k] \in Proc /\ ~ Sending(t[k], p)
    OBVIOUS
  <2>1. t[k] \in Proc /\ Sending(t[k], e)
    BY ListFacts
  <2> QED BY <2>1 DEF Sending
<1>4. /\ u \in Seq(Proc) /\ Len(u) = Len(s) - 1
      /\ \A j \in 1..Len(u) : u[j] = IF j < i THEN s[j] ELSE s[j + 1]
  BY <1>1 DEF Without
<1> HIDE DEF u
<1>5. CASE s[i] = q_sending[p]
  <2>1. i = 1
    BY <1>1, <1>2, <1>5
  <2>2. /\ q_sending' = [q_sending EXCEPT ![p] = next_sending[s[1]]]
        /\ next_sending' = [next_sending EXCEPT ![s[1]] = Nil]
    BY <1>5, <2>1 DEF Unlink
  <2>3. /\ q_sending'[p] = next_sending[s[1]]
        /\ \A e \in Proc \ {p} : q_sending'[e] = q_sending[e]
        /\ \A x \in Proc : x # s[1] => next_sending'[x] = next_sending[x]
    BY <1>1, <2>2
  <2>4. ListOn(q_sending'[p], next_sending', u)
    <3>1. CASE Len(s) = 1
      <4>1. u = << >>
        BY <1>4, <3>1
      <4>2. q_sending'[p] = Nil
        BY <1>2, <2>3, <3>1
      <4> QED BY <1>4, <3>1, <4>1, <4>2 DEF ListOn
    <3>2. CASE Len(s) # 1
      <4>1. 1 \in 1..(Len(s) - 1) /\ 2 \in 1..Len(s)
        <5>1. \A n \in Nat : n # 0 /\ n # 1 => 1 \in 1..(n - 1) /\ 2 \in 1..n
          OBVIOUS
        <5>2. Len(s) \in Nat /\ Len(s) # 0
          BY <1>1
        <5> QED BY <3>2, <5>1, <5>2, Zenon
      <4>2. q_sending'[p] = s[2] /\ s[2] # Nil
        BY <1>1, <1>2, <2>3, <4>1
      <4>3. \A j \in 1..Len(u) : u[j] = s[j + 1] /\ j + 1 \in 1..Len(s) /\ u[j] # s[1] /\ u[j] \in Proc
        BY <1>1, <1>4, <2>1
      <4>4. \A j \in 1..Len(u) : next_sending'[u[j]] = next_sending[s[j + 1]]
        BY <2>3, <4>3
      <4>5. u # << >> /\ u[1] = s[2] /\ Len(u) \in 1..Len(u) /\ Len(u) + 1 = Len(s)
        BY <1>1, <1>4, <4>1, <4>3
      <4>6. next_sending'[u[Len(u)]] = Nil
        BY <1>2, <4>4, <4>5
      <4>7. ASSUME NEW j \in 1..(Len(u) - 1) PROVE next_sending'[u[j]] = u[j + 1]
        <5>1. j \in 1..Len(u) /\ j + 1 \in 1..Len(u) /\ j + 1 \in 1..(Len(s) - 1)
          BY <1>1, <1>4
        <5>2. next_sending[s[j + 1]] = s[(j + 1) + 1]
          BY <1>2, <5>1
        <5> QED BY <4>3, <4>4, <5>1, <5>2
      <4> QED BY <1>4, <4>2, <4>5, <4>6, <4>7 DEF ListOn
    <3> QED BY <3>1, <3>2
  <2>5. ASSUME NEW e \in Proc \ {p}, NEW t \in Seq(Proc), ListOn(q_sending[e], next_sending, t)
        PROVE  ListOn(q_sending'[e], next_sending', t)
    <3>1. Sending(s[1], p)
      BY <1>1
    <3>2. \A k \in 1..Len(t) : next_sending'[t[k]] = next_sending[t[k]]
      BY <1>3, <2>3, <2>5, <3>1
    <3> QED BY <2>3, <2>5, <3>2, SameList
  <2> QED BY <2>4, <2>5 DEF u
<1>6. CASE s[i] # q_sending[p]
  <2>1. i # 1 /\ i - 1 \in 1..Len(s) /\ i - 1 \in 1..(Len(s) - 1) /\ (i - 1) + 1 = i
    BY <1>1, <1>2, <1>6
  <2>2. Prev(p, s[i]) = s[i - 1]
    <3>1. Prev(p, s[i]) \in Proc /\ next_sending[Prev(p, s[i])] = s[i]
      BY <1>1, <1>6, PrevFacts
    <3>2. next_sending[s[i - 1]] = s[i] /\ s[i - 1] \in Proc /\ s[i] # Nil
      BY <1>1, <1>2, <2>1
    <3> QED BY <3>1, <3>2 DEF IInv, LinkedOnce
  <2>3. /\ next_sending' = [next_sending EXCEPT ![s[i - 1]] = next_sending[s[i]], ![s[i]] = Nil]
        /\ q_sending' = q_sending
    BY <1>6, <2>2 DEF Unlink
  <2>4. s[i] \in Proc /\ s[i - 1] \in Proc /\ s[i] # s[i - 1]
    BY <1>1, <2>1
  <2>5. /\ next_sending'[s[i - 1]] = next_sending[s[i]]
        /\ \A x \in Proc : x # s[i] /\ x # s[i - 1] => next_sending'[x] = next_sending[x]
    BY <1>1, <2>3, <2>4
  <2>6. /\ u # << >> /\ u[1] = s[1] /\ Len(u) \in 1..Len(u)
        /\ q_sending'[p] = s[1] /\ s[1] # Nil
    BY <1>1, <1>2, <1>4, <2>1, <2>3
  <2>7. ASSUME NEW j \in 1..Len(u)
        PROVE  next_sending'[u[j]] = IF j = Len(u) THEN Nil ELSE u[j + 1]
    <3>1. CASE j < i - 1
      <4>1. /\ j \in 1..Len(s) /\ j \in 1..(Len(s) - 1) /\ j # Len(u) /\ j + 1 \in 1..Len(u)
            /\ j < i /\ j + 1 < i
        BY <1>1, <1>4, <3>1
      <4>2. u[j] = s[j] /\ u[j + 1] = s[j + 1]
        BY <1>4, <4>1
      <4>3. s[j] # s[i] /\ s[j] # s[i - 1] /\ s[j] \in Proc
        BY <1>1, <2>1, <3>1, <4>1
      <4> QED BY <1>2, <2>5, <4>1, <4>2, <4>3
    <3>2. CASE j = i - 1
      <4>1. u[j] = s[i - 1] /\ next_sending'[u[j]] = next_sending[s[i]]
        BY <1>1, <1>4, <2>5, <3>2
      <4>2. CASE j = Len(u)
        <5>1. i = Len(s)
          BY <1>1, <1>4, <3>2, <4>2
        <5> QED BY <1>2, <4>1, <4>2, <5>1
      <4>3. CASE j # Len(u)
        <5>1. i \in 1..(Len(s) - 1) /\ j + 1 \in 1..Len(u) /\ j + 1 = i
          BY <1>1, <1>4, <3>2, <4>3
        <5>2. u[j + 1] = s[i + 1] /\ next_sending[s[i]] = s[i + 1]
          BY <1>2, <1>4, <5>1
        <5> QED BY <4>1, <4>3, <5>2
      <4> QED BY <4>2, <4>3
    <3>3. CASE j >= i
      <4>1. j + 1 \in 1..Len(s) /\ u[j] = s[j + 1] /\ ~(j < i)
        BY <1>1, <1>4, <3>3
      <4>2. s[j + 1] # s[i] /\ s[j + 1] # s[i - 1] /\ s[j + 1] \in Proc
        <5>1. j + 1 # i /\ j + 1 # i - 1
          BY <3>3
        <5> QED BY <1>1, <2>1, <4>1, <5>1
      <4>3. next_sending'[u[j]] = next_sending[s[j + 1]]
        BY <2>5, <4>1, <4>2
      <4>4. CASE j = Len(u)
        <5>1. j + 1 = Len(s)
          BY <1>1, <1>4, <4>4
        <5> QED BY <1>2, <4>3, <4>4, <5>1
      <4>5. CASE j # Len(u)
        <5>1. j + 1 \in 1..(Len(s) - 1) /\ j + 1 \in 1..Len(u) /\ ~(j + 1 < i)
          BY <1>1, <1>4, <3>3, <4>5
        <5>2. u[j + 1] = s[(j + 1) + 1] /\ next_sending[s[j + 1]] = s[(j + 1) + 1]
          BY <1>2, <1>4, <5>1
        <5> QED BY <4>3, <4>5, <5>2
      <4> QED BY <4>4, <4>5
    <3> QED BY <1>1, <3>1, <3>2, <3>3
  <2>8. ListOn(q_sending'[p], next_sending', u)
    <3>1. \A j \in 1..(Len(u) - 1) : next_sending'[u[j]] = u[j + 1]
      BY <1>1, <1>4, <2>7
    <3> QED BY <1>4, <2>6, <2>7, <3>1 DEF ListOn
  <2>9. ASSUME NEW e \in Proc \ {p}, NEW t \in Seq(Proc), ListOn(q_sending[e], next_sending, t)
        PROVE  ListOn(q_sending'[e], next_sending', t)
    <3>1. Sending(s[i], p) /\ Sending(s[i - 1], p)
      BY <1>1, <2>1
    <3>2. \A k \in 1..Len(t) : next_sending'[t[k]] = next_sending[t[k]]
      BY <1>3, <2>5, <2>9, <3>1
    <3>3. q_sending'[e] = q_sending[e]
      BY <2>3
    <3> QED BY <2>9, <3>2, <3>3, SameList
  <2> QED BY <2>8, <2>9 DEF u
<1> QED BY <1>5, <1>6

\* The message msg_receive takes is the oldest one of the queue that matches.
LEMMA FromIsOldest ==
  ASSUME IInv, RefInv, NEW p \in Proc, NEW src \in Proc \cup {ANY},
         NEW s, ListOn(q_sending[p], next_sending, s)
  PROVE  /\ From(p, src) = Nil => Abs!Matching(p, src) = {}
         /\ From(p, src) # Nil =>
              \E i \in 1..Len(s) : /\ From(p, src) = s[i]
                                   /\ i \in Abs!Matching(p, src)
                                   /\ Abs!Min(Abs!Matching(p, src)) = i
<1> DEFINE M == Abs!Matching(p, src)
<1>1. /\ s \in Seq(Proc) /\ Len(s) \in Nat
      /\ \A i \in 1..Len(s) : s[i] \in Proc /\ Sending(s[i], p) /\ buf[s[i]].source = s[i]
      /\ \A i, j \in 1..Len(s) : s[i] = s[j] => i = j
      /\ \A x \in Proc : Sending(x, p) <=> \E i \in 1..Len(s) : s[i] = x
      /\ QueueOf(p) = [i \in 1..Len(s) |-> buf[s[i]]]
  BY ListFacts
<1>2. M = {i \in 1..Len(s) : src \in {s[i], ANY}}
  <2>1. M = {i \in DOMAIN QueueOf(p) : src \in {QueueOf(p)[i].source, ANY}}
    BY DEF Abs!Matching
  <2> QED BY <1>1, <2>1
<1>3. ASSUME NEW i \in M, \A j \in M : i =< j PROVE Abs!Min(M) = i
  <2>1. Abs!Min(M) \in M /\ \A j \in M : Abs!Min(M) =< j
    BY <1>3 DEF Abs!Min
  <2>2. Abs!Min(M) =< i /\ i =< Abs!Min(M) /\ i \in Int /\ Abs!Min(M) \in Int
    BY <1>2, <1>3, <2>1
  <2> HIDE DEF M
  <2> QED BY <2>2
<1> HIDE DEF M
<1>4. CASE src = ANY
  <2>1. M = 1..Len(s) /\ From(p, src) = q_sending[p]
    BY <1>2, <1>4 DEF From
  <2>2. CASE q_sending[p] = Nil
    <3>1. s = << >>
      BY <2>2 DEF ListOn
    <3> QED BY <2>1, <2>2, <3>1 DEF M
  <2>3. CASE q_sending[p] # Nil
    <3>1. s[1] = q_sending[p] /\ 1 \in 1..Len(s)
      BY <1>1, <2>3 DEF ListOn
    <3>2. 1 \in M /\ \A j \in M : 1 =< j
      BY <2>1, <3>1
    <3> QED BY <1>3, <2>1, <2>3, <3>1, <3>2 DEF M
  <2> QED BY <2>2, <2>3
<1>5. CASE src # ANY
  <2>1. src \in Proc /\ M = {i \in 1..Len(s) : src = s[i]}
    BY <1>2, <1>5
  <2>2. CASE Sending(src, p)
    <3>1. PICK i \in 1..Len(s) : s[i] = src
      BY <1>1, <2>1, <2>2
    <3>2. From(p, src) = src /\ src # Nil
      BY <1>5, <2>1, <2>2, Constants DEF From
    <3>3. i \in M /\ \A j \in M : i =< j
      BY <1>1, <2>1, <3>1
    <3> QED BY <1>3, <3>1, <3>2, <3>3 DEF M
  <2>3. CASE ~ Sending(src, p)
    <3>1. From(p, src) = Nil /\ M = {}
      BY <1>1, <1>5, <2>1, <2>3 DEF From
    <3> QED BY <3>1 DEF M
  <2> QED BY <2>2, <2>3
<1> QED BY <1>4, <1>5

\* A receive that finds a sender takes the oldest message that matches.
LEMMA ReceiveTakesTakes ==
  ASSUME IInv, IInv', RefInv, NEW p \in Proc, Running(p),
         NEW src \in (Proc \ {p}) \cup {ANY}, ReceiveTakes(p, src)
  PROVE  Abs!Take(p, src) /\ RefInv'
<1>1. p_flags[p] = {} /\ Abs!Idle(p)
  BY RunningIsIdle
<1>2. PICK s \in Seq(Proc) : ListOn(q_sending[p], next_sending, s)
  BY DEF RefInv
<1>3. From(p, src) # Nil
  BY DEF ReceiveTakes
<1>4. PICK i \in 1..Len(s) : /\ From(p, src) = s[i]
                             /\ i \in Abs!Matching(p, src)
                             /\ Abs!Min(Abs!Matching(p, src)) = i
  BY <1>2, <1>3, FromIsOldest
<1>5. /\ Unlink(p, s[i])
      /\ buf' = [buf EXCEPT ![p] = buf[s[i]]]
      /\ p_recvfrom' = p_recvfrom
      /\ p_flags' = [p_flags EXCEPT ![s[i]] = p_flags[s[i]] \ {"SENDING"}]
  BY <1>4 DEF ReceiveTakes
<1>6. /\ s \in Seq(Proc) /\ Len(s) \in Nat
      /\ \A k \in 1..Len(s) : s[k] \in Proc /\ Sending(s[k], p)
      /\ QueueOf(p) = [k \in 1..Len(s) |-> buf[s[k]]]
  BY <1>2, ListFacts
<1>7. /\ p_flags \in [Proc -> SUBSET Flag] /\ buf \in [Proc -> Message]
  BY DEF IInv, TypeOK
<1>8. \A x \in Proc : "SENDING" \in p_flags[x] => x # p /\ buf'[x] = buf[x]
  BY <1>1, <1>5, <1>7
<1>9. /\ ListOn(q_sending'[p], next_sending', Without(s, i))
      /\ \A e \in Proc \ {p}, t \in Seq(Proc) :
           ListOn(q_sending[e], next_sending, t) => ListOn(q_sending'[e], next_sending', t)
  BY <1>2, <1>5, UnlinkRemoves
<1>10. s[i] \in Proc /\ "SENDING" \in p_flags[s[i]]
  BY <1>6 DEF Sending
<1>11. RefInv'
  <2>1. \A x \in Proc : "SENDING" \in p_flags'[x] => "SENDING" \in p_flags[x]
    BY <1>5, <1>7, <1>10
  <2>2. \A x \in Proc : "SENDING" \in p_flags'[x] => buf'[x].source = x
    BY <1>8, <2>1 DEF RefInv
  <2>3. Without(s, i) \in Seq(Proc)
    BY <1>9 DEF ListOn
  <2>4. ASSUME NEW e \in Proc
        PROVE  \E t \in Seq(Proc) : ListOn(q_sending'[e], next_sending', t)
    BY <1>9, <2>3 DEF RefInv
  <2> QED BY <2>2, <2>4 DEF RefInv
<1>12. QueueOf(p)' = Abs!RemoveAt(QueueOf(p), i)
  <2> DEFINE u == Without(s, i)
  <2>1. QueueOf(p)' = [j \in 1..Len(u) |-> buf'[u[j]]]
    BY <1>9, NextQueue
  <2>2. /\ Len(u) = Len(s) - 1
        /\ \A j \in 1..(Len(s) - 1) : u[j] = IF j < i THEN s[j] ELSE s[j + 1]
    BY <1>6 DEF Without
  <2>3. \A j \in 1..(Len(s) - 1) : j \in 1..Len(s) /\ j + 1 \in 1..Len(s)
    BY <1>6
  <2>4. \A k \in 1..Len(s) : buf'[s[k]] = buf[s[k]]
    BY <1>6, <1>8 DEF Sending
  <2>5. QueueOf(p) \in Seq(Message) /\ Len(QueueOf(p)) = Len(s)
    BY <1>6, <1>7
  <2>6. Abs!RemoveAt(QueueOf(p), i) = Without(QueueOf(p), i)
    BY <2>5, RemoveAtIsWithout
  <2>7. Without(QueueOf(p), i)
        = [j \in 1..(Len(s) - 1) |-> IF j < i THEN buf[s[j]] ELSE buf[s[j + 1]]]
    BY <1>6, <2>3, <2>5 DEF Without
  <2> HIDE DEF u
  <2>8. \A j \in 1..(Len(s) - 1) : buf'[u[j]] = IF j < i THEN buf[s[j]] ELSE buf[s[j + 1]]
    BY <2>2, <2>3, <2>4
  <2>9. QueueOf(p)' = [j \in 1..(Len(s) - 1) |-> IF j < i THEN buf[s[j]] ELSE buf[s[j + 1]]]
    BY <2>1, <2>2, <2>8
  <2> QED BY <2>6, <2>7, <2>9
<1>13. ASSUME NEW e \in Proc \ {p} PROVE QueueOf(e)' = QueueOf(e)
  <2>1. PICK t \in Seq(Proc) : ListOn(q_sending[e], next_sending, t)
    BY DEF RefInv
  <2> QED BY <1>8, <1>9, <2>1, SameQueue
<1>14. halted = "no" /\ halted' = "no"
  BY DEF IInv, Running, ReceiveTakes, Outcome
<1>15. [x \in Proc |-> IF "RECEIVING" \in p_flags'[x] THEN p_recvfrom'[x] ELSE NO_TASK]
       = [x \in Proc |-> IF "RECEIVING" \in p_flags[x] THEN p_recvfrom[x] ELSE NO_TASK]
  <2>1. \A x \in Proc : "RECEIVING" \in p_flags'[x] <=> "RECEIVING" \in p_flags[x]
    BY <1>5, <1>7, <1>10
  <2> QED BY <1>5, <2>1
<1>16. [e \in Proc |-> QueueOf(e)']
       = [[e \in Proc |-> QueueOf(e)] EXCEPT ![p] = Abs!RemoveAt(@, i)]
  BY <1>12, <1>13
<1>17. [e \in Proc |-> QueueOf(e)][p][i] = buf[s[i]]
  BY <1>6
<1> QED
  BY <1>1, <1>4, <1>5, <1>11, <1>14, <1>15, <1>16, <1>17 DEF Abs!Take

\* A receive that finds no sender waits.
LEMMA ReceiveBlocksWaits ==
  ASSUME IInv, IInv', RefInv, NEW p \in Proc, Running(p),
         NEW src \in (Proc \ {p}) \cup {ANY}, NEW b \in Body,
         ReceiveBlocks(p, src, [source |-> p, body |-> b])
  PROVE  Abs!Wait(p, src) /\ RefInv'
<1>1. p_flags[p] = {} /\ Abs!Idle(p)
  BY RunningIsIdle
<1>2. /\ UNCHANGED <<q_sending, next_sending>>
      /\ buf' = [buf EXCEPT ![p] = [source |-> p, body |-> b]]
      /\ p_recvfrom' = [p_recvfrom EXCEPT ![p] = src]
      /\ From(p, src) = Nil
  BY DEF ReceiveBlocks
<1>3. /\ p_flags \in [Proc -> SUBSET Flag] /\ buf \in [Proc -> Message]
      /\ p_recvfrom \in [Proc -> Proc \cup {ANY, NO_TASK}]
  BY DEF IInv, TypeOK
<1>4. p_flags' = [p_flags EXCEPT ![p] = {"RECEIVING"}]
  <2>1. p_flags' = [p_flags EXCEPT ![p] = p_flags[p] \cup {"RECEIVING"}]
    BY DEF ReceiveBlocks
  <2>2. p_flags[p] \cup {"RECEIVING"} = {"RECEIVING"}
    BY <1>1
  <2> QED BY <2>1, <2>2
<1>5. \A x \in Proc : "SENDING" \in p_flags[x] => x # p /\ buf'[x] = buf[x]
  BY <1>1, <1>2, <1>3
<1>6. RefInv'
  <2>1. \A x \in Proc : "SENDING" \in p_flags'[x] => "SENDING" \in p_flags[x]
    BY <1>3, <1>4
  <2>2. \A x \in Proc : "SENDING" \in p_flags'[x] => buf'[x].source = x
    BY <1>5, <2>1 DEF RefInv
  <2> QED BY <1>2, <2>2 DEF RefInv
<1>7. ASSUME NEW e \in Proc PROVE QueueOf(e)' = QueueOf(e)
  <2>1. PICK s \in Seq(Proc) : ListOn(q_sending[e], next_sending, s)
    BY DEF RefInv
  <2> QED BY <1>2, <1>5, <2>1, SameQueue
<1>8. Abs!Matching(p, src) = {}
  <2>1. PICK s \in Seq(Proc) : ListOn(q_sending[p], next_sending, s)
    BY DEF RefInv
  <2> QED BY <1>2, <2>1, FromIsOldest
<1>9. halted = "no" /\ halted' = "no"
  BY DEF IInv, Running, ReceiveBlocks, Outcome
<1>10. [x \in Proc |-> IF "RECEIVING" \in p_flags'[x] THEN p_recvfrom'[x] ELSE NO_TASK]
       = [[x \in Proc |-> IF "RECEIVING" \in p_flags[x] THEN p_recvfrom[x] ELSE NO_TASK]
            EXCEPT ![p] = src]
  BY <1>2, <1>3, <1>4
<1>11. [e \in Proc |-> QueueOf(e)'] = [e \in Proc |-> QueueOf(e)]
  BY <1>7
<1> QED
  BY <1>1, <1>2, <1>6, <1>8, <1>9, <1>10, <1>11 DEF Abs!Wait

\* The empty lists of init_proc are the empty queues.
LEMMA InitRefines ==
  ASSUME Init PROVE RefInv /\ Abs!AbsInit
<1>1. IInv
  BY InitIInv
<1>2. ASSUME NEW d \in Proc PROVE ListOn(q_sending[d], next_sending, << >>)
  BY DEF Init, ListOn
<1>3. \A p \in Proc : "SENDING" \notin p_flags[p] /\ "RECEIVING" \notin p_flags[p]
  BY DEF Init
<1>4. << >> \in Seq(Proc)
  OBVIOUS
<1>5. RefInv
  BY <1>2, <1>3, <1>4 DEF RefInv
<1>6. ASSUME NEW d \in Proc PROVE QueueOf(d) = << >>
  <2>1. QueueOf(d) = [i \in 1..Len(<< >>) |-> buf[<< >>[i]]]
    BY <1>1, <1>2, <1>5, ListFacts
  <2> QED BY <2>1
<1>7. /\ [d \in Proc |-> QueueOf(d)] = [d \in Proc |-> << >>]
      /\ [p \in Proc |-> IF "RECEIVING" \in p_flags[p] THEN p_recvfrom[p] ELSE NO_TASK]
         = [p \in Proc |-> NO_TASK]
      /\ halted = "no"
      /\ buf \in [Proc -> [source : Proc, body : Body]]
  BY <1>1, <1>3, <1>6 DEF Init, IInv, TypeOK, Message
<1> QED BY <1>5, <1>7 DEF Abs!AbsInit

\* Every step is a step of Rendezvous or leaves it alone.
LEMMA NextRefines ==
  ASSUME IInv, RefInv, [Next]_vars PROVE RefInv' /\ [Abs!AbsNext]_(Abs!absvars)
<1>1. IInv'
  BY NextIInv
<1>2. ASSUME NEW p \in Callers, NEW d \in Proc \ {p}, NEW b \in Body,
             Send(p, d, b) \/ SendBoth(p, d, b)
      PROVE  RefInv' /\ Abs!AbsNext
  <2> DEFINE m == [source |-> p, body |-> b]
  <2>1. p \in Proc /\ m \in Message /\ m.source = p
    BY Constants DEF Message
  <2>2. Running(p) /\ msg_send(p, d, m)
    BY <1>2 DEF Send, SendBoth
  <2>3. RefInv' /\ (Abs!Refuse(p, d) \/ Abs!HandOver(p, d, m) \/ Abs!Enqueue(p, d, m))
    <3> HIDE DEF m
    <3> QED
      BY <1>1, <2>1, <2>2, SendPanicsRefuses, SendDeliversHandsOver, SendBlocksEnqueues DEF msg_send
  <2> QED BY <2>1, <2>3 DEF Abs!AbsNext
<1>3. ASSUME NEW p \in Callers, NEW src \in (Proc \ {p}) \cup {ANY}, NEW b \in Body, Running(p),
             msg_receive(p, src, [source |-> p, body |-> b])
      PROVE  RefInv' /\ Abs!AbsNext
  <2>1. p \in Proc
    BY Constants
  <2>2. RefInv' /\ (Abs!Take(p, src) \/ Abs!Wait(p, src))
    BY <1>1, <1>3, <2>1, ReceiveTakesTakes, ReceiveBlocksWaits DEF msg_receive
  <2> QED BY <2>1, <2>2 DEF Abs!AbsNext
<1>4. ASSUME NEW p \in Callers, NEW src \in (Proc \ {p}) \cup {ANY}, Receive(p, src)
      PROVE  RefInv' /\ Abs!AbsNext
  BY <1>3, <1>4, BodyAssumption DEF Receive
<1>5. ASSUME NEW p \in Callers, ReceiveBoth(p) PROVE RefInv' /\ Abs!AbsNext
  <2>1. p \in Proc /\ both[p] \in (Proc \ {p}) \cup {ANY} /\ buf[p].body \in Body
    BY <1>5, Constants DEF IInv, BothOK, ReceiveBoth, TypeOK, Message
  <2> QED BY <1>3, <1>5, <2>1 DEF ReceiveBoth
<1>6. CASE ClockIrq
  <2>1. UNCHANGED <<table, buf>> /\ halted' = halted
    BY <1>1, <1>6 DEF ClockIrq, Outcome, IInv
  <2> QED BY <2>1, SameAbs
<1>7. CASE UNCHANGED vars
  <2>1. UNCHANGED <<table, buf>> /\ halted' = halted
    BY <1>7 DEF vars
  <2> QED BY <2>1, SameAbs
<1> QED BY <1>2, <1>4, <1>5, <1>6, <1>7 DEF Next, Call

\* process.c implements Rendezvous, for every size of the process table.
THEOREM RendezvousImplemented == Spec => ImplementsRendezvous
<1>1. Init => RefInv /\ Abs!AbsInit
  BY InitRefines
<1>2. IInv /\ RefInv /\ [Next]_vars => RefInv' /\ [Abs!AbsNext]_(Abs!absvars)
  BY NextRefines
<1> QED BY <1>1, <1>2, Inductive, PTL DEF Spec, ImplementsRendezvous, Abs!AbsSpec
=============================================================================
