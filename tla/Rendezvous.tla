------------------------------ MODULE Rendezvous ------------------------------
(***************************************************************************)
(* What the message passing of the kernel promises its processes, without  *)
(* flags, links or a scheduler.  A send is handed to the receiver or waits *)
(* in the receiver's queue with the message as it was sent; a receive takes *)
(* the oldest message that matches it, or waits for one.  The system stops *)
(* only at a send that would close a circle of waiting senders.            *)
(***************************************************************************)
EXTENDS Integers, Sequences, SequencesExt, FiniteSetsExt

CONSTANTS Procs, Bodies, Anyone, Nobody

VARIABLES
  queue,    \* the messages that wait for each process, oldest first
  wants,    \* the process each one is blocked receiving from
  buffer,   \* the message each process sent or received last
  stopped

absvars == <<queue, wants, buffer, stopped>>

WaitsOn(p, d) == \E i \in DOMAIN queue[d] : queue[d][i].source = p

Idle(p) ==
  /\ ~ stopped
  /\ wants[p] = Nobody
  /\ \A d \in Procs : ~ WaitsOn(p, d)

AbsInit ==
  /\ queue = [p \in Procs |-> << >>]
  /\ wants = [p \in Procs |-> Nobody]
  /\ buffer \in [Procs -> [source : Procs, body : Bodies]]
  /\ stopped = FALSE

\* (In each action the conjunct that tells it from the others soonest comes first.)
HandOver(p, d, m) ==
  /\ buffer' = [buffer EXCEPT ![p] = m, ![d] = m]
  /\ wants[d] \in {p, Anyone}
  /\ wants' = [wants EXCEPT ![d] = Nobody]
  /\ Idle(p)
  /\ UNCHANGED <<queue, stopped>>

Enqueue(p, d, m) ==
  /\ buffer' = [buffer EXCEPT ![p] = m]
  /\ wants[d] \notin {p, Anyone}
  /\ UNCHANGED <<wants, stopped>>
  /\ Idle(p)
  /\ queue' = [queue EXCEPT ![d] = Append(@, m)]

\* Waiting senders lead from d to p: p is in every set that has d in it and,
\* with a process, the one it waits on.
Circle(p, d) ==
  \A S \in SUBSET Procs :
    d \in S /\ (\A x \in S, y \in Procs : WaitsOn(x, y) => y \in S) => p \in S

Refuse(p, d) ==
  /\ stopped' = TRUE
  /\ Idle(p)
  /\ Circle(p, d)
  /\ UNCHANGED <<queue, wants, buffer>>

Matching(p, src) ==
  {i \in DOMAIN queue[p] : src \in {queue[p][i].source, Anyone}}

Take(p, src) ==
  LET oldest == Min(Matching(p, src)) IN
  /\ UNCHANGED <<wants, stopped>>
  /\ Matching(p, src) # {}
  /\ buffer' = [buffer EXCEPT ![p] = queue[p][oldest]]
  /\ Idle(p)
  /\ queue' = [queue EXCEPT ![p] = RemoveAt(@, oldest)]

Wait(p, src) ==
  /\ wants' = [wants EXCEPT ![p] = src]
  /\ \E b \in Bodies : buffer' = [buffer EXCEPT ![p] = [source |-> p, body |-> b]]
  /\ Matching(p, src) = {}
  /\ Idle(p)
  /\ UNCHANGED <<queue, stopped>>

AbsNext ==
  \E p \in Procs :
    \/ \E d \in Procs \ {p} :
         \/ Refuse(p, d)
         \/ \E b \in Bodies : LET m == [source |-> p, body |-> b]
                              IN  HandOver(p, d, m) \/ Enqueue(p, d, m)
    \/ \E src \in (Procs \ {p}) \cup {Anyone} : Take(p, src) \/ Wait(p, src)

AbsSpec == AbsInit /\ [][AbsNext]_absvars
=============================================================================
