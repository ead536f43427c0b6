----------------------------- MODULE BoundedQueue -----------------------------
(***************************************************************************)
(* A queue of at most Size items between a producer that never waits, and  *)
(* loses what does not fit, and a consumer.                                *)
(***************************************************************************)
EXTENDS Naturals, Sequences

CONSTANTS Item, Size

VARIABLE queue

QInit == queue = << >>

Put(x) == Len(queue) < Size /\ queue' = Append(queue, x)

Take == queue # << >> /\ queue' = Tail(queue)

QNext == Take \/ \E x \in Item : Put(x)

QSpec == QInit /\ [][QNext]_queue
=============================================================================
