----------------------------- MODULE TtyProofs -----------------------------
(***************************************************************************)
(* Proofs about Tty, for rings and terminals of any number and any keys:   *)
(* a key is echoed on the terminal that read it, and kb_buf implements     *)
(* BoundedQueue.                                                           *)
(***************************************************************************)
EXTENDS Tty, SequenceTheorems, TLAPS

----------------------------------------------------------------------------
(* The ring.                                                               *)

\* The index n steps behind one that is in the ring, for the n that occur.
Around(n) == IF n < KB_NUM THEN n ELSE n - KB_NUM

\* The remainder by KB_NUM of an index that went round at most once.
LEMMA ModAround ==
  ASSUME NEW n \in Nat, n < 2 * KB_NUM
  PROVE  n % KB_NUM = Around(n)
<1>1. KB_NUM \in Nat /\ KB_NUM > 0
  BY TtyAssumption
<1> QED
  BY <1>1 DEF Around

----------------------------------------------------------------------------
(* The inductive invariant.                                                *)

\* The types that the argument needs.
TtyTypeOK ==
  /\ kb_buf \in [0..(KB_NUM - 1) -> ScanCode]
  /\ kb_head \in 0..(KB_NUM - 1) /\ kb_tail \in 0..(KB_NUM - 1) /\ kb_count \in 0..KB_NUM
  /\ in_count \in [TTY -> Nat]
  /\ tty \in TTY /\ cur_tty_index \in TTY
  /\ code \in ScanCode
  /\ pc \in {"read", "get", "parse", "write"}

\* The handler stores where the codes held end.
RingInv == kb_head = Around(kb_tail + kb_count)

\* Only the current terminal is read for, and the ring cannot run empty before it is.
ReadInv ==
  /\ pc \in {"get", "parse"} => tty = cur_tty_index
  /\ pc = "get" => kb_count > 0

\* A key waits for its echo only until the next step, and its terminal is then still current.
EchoInv ==
  /\ \A t \in TTY : in_count[t] > 0 =>
       t = tty /\ tty = cur_tty_index /\ pc = "write" /\ in_count[t] = 1
  /\ EchoOnItsOwnTty

TtyInv == TtyTypeOK /\ RingInv /\ ReadInv /\ EchoInv

\* The constants as the proofs use them.
LEMMA SizesPositive ==
  /\ KB_NUM \in Nat /\ KB_NUM > 0
  /\ TTY_IN_BYTES_NUM \in Nat /\ TTY_IN_BYTES_NUM > 0
  /\ TTY_NUM \in Nat /\ TTY_NUM > 0
BY TtyAssumption

\* A key is a member of one of the three kinds only, and a function key selects a terminal.
LEMMA KeyKinds ==
  /\ NoCode \in ScanCode
  /\ \A k \in DOMAIN FKey : FKey[k] \in TTY
BY TtyAssumption DEF NoCode, ScanCode, Key, TTY

\* tty_init leaves empty rings, so the invariant holds at the start.
LEMMA TtyInvInit == Init => TtyInv
<1> SUFFICES ASSUME Init PROVE TtyInv
  OBVIOUS
<1> USE SizesPositive, KeyKinds
<1>1. TtyTypeOK
  BY DEF Init, TtyTypeOK, TTY
<1>2. RingInv
  BY DEF Init, RingInv, Around
<1>3. ReadInv /\ EchoInv
  BY DEF Init, ReadInv, EchoInv, EchoOnItsOwnTty, TTY
<1> QED
  BY <1>1, <1>2, <1>3 DEF TtyInv

\* A key struck: the handler appends its code or drops it.
LEMMA StrikeKeepsInv ==
  ASSUME TtyInv, NEW k \in Key, NEW press \in BOOLEAN, Strike(k, press)
  PROVE  TtyInv'
<1> DEFINE c == [key |-> k, press |-> press]
<1> USE SizesPositive
<1>1. c \in ScanCode
  BY DEF ScanCode
<1>2. UNCHANGED <<inring, task>> /\ keyboard_handler(c)
  BY DEF Strike
<1>3. TtyTypeOK'
  BY <1>1, <1>2 DEF TtyInv, TtyTypeOK, keyboard_handler, Wrap, ring, inring, task
<1>4. RingInv'
  BY <1>2 DEF TtyInv, TtyTypeOK, RingInv, Around, keyboard_handler, Wrap, ring
<1>5. ReadInv' /\ EchoInv'
  BY <1>2 DEF TtyInv, TtyTypeOK, ReadInv, EchoInv, EchoOnItsOwnTty, keyboard_handler, ring, inring, task
<1> QED
  BY <1>3, <1>4, <1>5 DEF TtyInv

\* get_byte_from_kb_buf takes the oldest code.
LEMMA GetKeepsInv ==
  ASSUME TtyInv, get_byte_from_kb_buf
  PROVE  TtyInv'
<1> USE SizesPositive
<1>1. TtyTypeOK'
  BY DEF TtyInv, TtyTypeOK, get_byte_from_kb_buf, Wrap, inring
<1>2. RingInv'
  BY DEF TtyInv, TtyTypeOK, RingInv, Around, get_byte_from_kb_buf, Wrap
<1>3. ReadInv' /\ EchoInv'
  BY DEF TtyInv, TtyTypeOK, ReadInv, EchoInv, EchoOnItsOwnTty, get_byte_from_kb_buf, inring
<1> QED
  BY <1>1, <1>2, <1>3 DEF TtyInv

\* keyboard_read acts on the code it took.
LEMMA ParseKeepsInv ==
  ASSUME TtyInv, ReadAlt \/ ReadFKey \/ ReadChar
  PROVE  TtyInv'
<1> USE SizesPositive, KeyKinds
<1> USE DEF Parsed
<1>1. CASE ReadAlt
  BY <1>1 DEF TtyInv, TtyTypeOK, RingInv, ReadInv, EchoInv, EchoOnItsOwnTty, ReadAlt, ring, inring
<1>2. CASE ReadFKey
  BY <1>2 DEF TtyInv, TtyTypeOK, RingInv, ReadInv, EchoInv, EchoOnItsOwnTty, ReadFKey, ring, inring
<1>3. CASE ReadChar
  <2>1. TtyTypeOK' /\ RingInv' /\ ReadInv'
    BY <1>3 DEF TtyInv, TtyTypeOK, RingInv, ReadInv, ReadChar, put_key, ring, inring
  <2>2. EchoInv'
    BY <1>3 DEF TtyInv, TtyTypeOK, ReadInv, EchoInv, EchoOnItsOwnTty, ReadChar, put_key, inring
  <2> QED
    BY <2>1, <2>2 DEF TtyInv
<1> QED
  BY <1>1, <1>2, <1>3

\* tty_do_read and tty_do_write, which turn to the ring and to the next terminal.
LEMMA LoopKeepsInv ==
  ASSUME TtyInv, tty_do_read \/ tty_do_write
  PROVE  TtyInv'
<1> USE SizesPositive
<1>1. CASE tty_do_read
  BY <1>1 DEF TtyInv, TtyTypeOK, RingInv, ReadInv, EchoInv, EchoOnItsOwnTty, tty_do_read, ring, inring
<1>2. CASE tty_do_write
  <2>1. TtyTypeOK' /\ RingInv' /\ ReadInv'
    BY <1>2 DEF TtyInv, TtyTypeOK, RingInv, ReadInv, EchoInv, tty_do_write, NextTty, TTY, ring, inring
  <2>2. EchoInv'
    BY <1>2 DEF TtyInv, TtyTypeOK, ReadInv, EchoInv, EchoOnItsOwnTty, tty_do_write, inring
  <2> QED
    BY <2>1, <2>2 DEF TtyInv
<1> QED
  BY <1>1, <1>2

\* Every step keeps the invariant.
LEMMA TtyInvNext == TtyInv /\ [Next]_vars => TtyInv'
<1> SUFFICES ASSUME TtyInv, [Next]_vars PROVE TtyInv'
  OBVIOUS
<1>1. CASE task_tty
  BY <1>1, GetKeepsInv, ParseKeepsInv, LoopKeepsInv DEF task_tty
<1>2. CASE \E k \in Key, press \in BOOLEAN : Strike(k, press)
  BY <1>2, StrikeKeepsInv
<1>3. CASE UNCHANGED vars
  BY <1>3 DEF TtyInv, TtyTypeOK, RingInv, ReadInv, EchoInv, EchoOnItsOwnTty, vars, ring, inring, task
<1> QED
  BY <1>1, <1>2, <1>3 DEF Next

(***************************************************************************)
(* The inductive invariant of the terminals holds in every reachable       *)
(* state: the indices of kb_buf agree with its count, and a key that was   *)
(* read waits for its echo at most until the next step of task_tty.        *)
(***************************************************************************)
THEOREM TtyInvHolds == Spec => []TtyInv
BY TtyInvInit, TtyInvNext, PTL DEF Spec

(***************************************************************************)
(* Every key is echoed on the console of the terminal that read it,        *)
(* although tty_do_write prints on the current one.                        *)
(***************************************************************************)
THEOREM EchoesOnItsOwnTty == Spec => []EchoOnItsOwnTty
<1>1. TtyInv => EchoOnItsOwnTty
  BY DEF TtyInv, EchoInv
<1> QED
  BY <1>1, TtyInvHolds, PTL

----------------------------------------------------------------------------
(* kb_buf implements BoundedQueue.                                         *)

\* The queue that the ring stands for, without remainders.
LEMMA KbQueueIs ==
  TtyTypeOK => /\ KbQueue = [i \in 1..kb_count |-> kb_buf[Around(kb_tail + i - 1)]]
               /\ KbQueue \in Seq(ScanCode)
               /\ Len(KbQueue) = kb_count
<1> USE SizesPositive
<1> SUFFICES ASSUME TtyTypeOK
             PROVE  /\ KbQueue = [i \in 1..kb_count |-> kb_buf[Around(kb_tail + i - 1)]]
                    /\ KbQueue \in Seq(ScanCode)
                    /\ Len(KbQueue) = kb_count
  OBVIOUS
<1>1. ASSUME NEW i \in 1..kb_count
      PROVE  (kb_tail + i - 1) % KB_NUM = Around(kb_tail + i - 1)
    <2>1. kb_tail + i - 1 \in Nat /\ kb_tail + i - 1 < 2 * KB_NUM
      BY DEF TtyTypeOK
    <2> QED
      BY <2>1, ModAround
<1>2. ASSUME NEW i \in 1..kb_count
      PROVE  Around(kb_tail + i - 1) \in 0..(KB_NUM - 1)
  BY DEF Around, TtyTypeOK
<1>3. KbQueue = [i \in 1..kb_count |-> kb_buf[Around(kb_tail + i - 1)]]
  BY <1>1 DEF KbQueue
<1>4. kb_count \in Nat /\ \A i \in 1..kb_count : kb_buf[Around(kb_tail + i - 1)] \in ScanCode
  <2>1. kb_buf \in [0..(KB_NUM - 1) -> ScanCode] /\ kb_count \in Nat
    BY DEF TtyTypeOK
  <2> QED
    BY <2>1, <1>2
<1>5. KbQueue \in Seq(ScanCode) /\ Len(KbQueue) = kb_count
  <2> DEFINE b(i) == kb_buf[Around(kb_tail + i - 1)]
  <2>1. kb_count \in Nat /\ \A i \in 1..kb_count : b(i) \in ScanCode
    BY <1>4
  <2>2. KbQueue = [i \in 1..kb_count |-> b(i)]
    BY <1>3
  <2> HIDE DEF b
  <2> QED
    BY <2>1, <2>2
<1> QED
  BY <1>3, <1>5

\* The same after a step.
LEMMA KbQueueIsNext ==
  TtyTypeOK' => /\ KbQueue' = [i \in 1..kb_count' |-> kb_buf'[Around(kb_tail' + i - 1)]]
                /\ KbQueue' \in Seq(ScanCode)
                /\ Len(KbQueue') = kb_count'
<1>1. (TtyTypeOK => /\ KbQueue = [i \in 1..kb_count |-> kb_buf[Around(kb_tail + i - 1)]]
                    /\ KbQueue \in Seq(ScanCode)
                    /\ Len(KbQueue) = kb_count)'
  BY KbQueueIs, PTL
<1> QED
  BY <1>1 DEF Around

\* A key struck puts its code at the end of the queue, or is lost because the queue is full.
LEMMA StrikePuts ==
  ASSUME TtyInv, TtyInv', NEW k \in Key, NEW press \in BOOLEAN, Strike(k, press)
  PROVE  [Queue!QNext]_KbQueue
<1> DEFINE c == [key |-> k, press |-> press]
<1> USE SizesPositive
<1>1. c \in ScanCode
  BY DEF ScanCode
<1>2. CASE kb_count < KB_NUM
  <2> USE <1>2
  <2>1. /\ kb_buf' = [kb_buf EXCEPT ![kb_head] = c]
        /\ kb_count' = kb_count + 1 /\ kb_tail' = kb_tail
    BY DEF Strike, keyboard_handler
  <2>2. ASSUME NEW i \in 1..kb_count
        PROVE  /\ Around(kb_tail + i - 1) \in 0..(KB_NUM - 1)
               /\ Around(kb_tail + i - 1) # kb_head
    BY DEF TtyInv, TtyTypeOK, RingInv, Around
  <2>3. kb_head = Around(kb_tail + (kb_count + 1) - 1)
    BY DEF TtyInv, TtyTypeOK, RingInv
  <2>4. KbQueue' = [i \in 1..(kb_count + 1) |-> kb_buf'[Around(kb_tail + i - 1)]]
    BY <2>1, KbQueueIsNext DEF TtyInv
  <2>5. KbQueue' = Append(KbQueue, c)
    <3> DEFINE q == Append(KbQueue, c)
    <3>1. /\ TtyTypeOK /\ TtyTypeOK' /\ kb_count \in Nat
          /\ kb_buf \in [0..(KB_NUM - 1) -> ScanCode] /\ kb_head \in 0..(KB_NUM - 1)
      BY DEF TtyInv, TtyTypeOK
    <3>2. q \in Seq(ScanCode) /\ Len(q) = kb_count + 1 /\ q[kb_count + 1] = c
          /\ \A i \in 1..kb_count : q[i] = KbQueue[i]
      BY <1>1, <3>1, KbQueueIs
    <3>3. KbQueue' \in Seq(ScanCode) /\ Len(KbQueue') = kb_count + 1
      BY <2>1, <3>1, KbQueueIsNext
    <3>4. ASSUME NEW i \in 1..kb_count
          PROVE  KbQueue'[i] = q[i]
      <4>1. KbQueue'[i] = kb_buf'[Around(kb_tail + i - 1)]
        BY <2>4, <3>1
      <4>2. kb_buf'[Around(kb_tail + i - 1)] = kb_buf[Around(kb_tail + i - 1)]
        BY <2>1, <2>2, <3>1
      <4>3. KbQueue[i] = kb_buf[Around(kb_tail + i - 1)]
        BY <3>1, KbQueueIs
      <4> QED
        BY <3>2, <4>1, <4>2, <4>3
    <3>5. KbQueue'[kb_count + 1] = c
      BY <2>1, <2>3, <2>4, <3>1
    <3>6. \A i \in 1..(kb_count + 1) : KbQueue'[i] = q[i]
      BY <3>1, <3>2, <3>4, <3>5
    <3> HIDE DEF q
    <3>7. KbQueue' = q
      BY <3>2, <3>3, <3>6, SeqEqual
    <3> QED
      BY <3>7 DEF q
  <2> QED
    BY <1>1, <2>5, KbQueueIs DEF Queue!QNext, Queue!Put, TtyInv
<1>3. CASE ~ (kb_count < KB_NUM)
  BY <1>3 DEF Strike, keyboard_handler, ring, KbQueue
<1> QED
  BY <1>2, <1>3

\* get_byte_from_kb_buf takes the first code of the queue.
LEMMA GetTakes ==
  ASSUME TtyInv, TtyInv', get_byte_from_kb_buf
  PROVE  Queue!Take
<1> USE SizesPositive
<1>1. kb_count > 0 /\ kb_count' = kb_count - 1 /\ kb_buf' = kb_buf
      /\ kb_tail' = Around(kb_tail + 1)
  BY DEF get_byte_from_kb_buf, Wrap, Around, TtyInv, TtyTypeOK
<1>2. KbQueue # << >>
  BY <1>1, KbQueueIs DEF TtyInv, TtyTypeOK
<1>3. ASSUME NEW i \in 1..(kb_count - 1)
      PROVE  Around(kb_tail' + i - 1) = Around(kb_tail + (i + 1) - 1)
  BY <1>1 DEF Around, TtyInv, TtyTypeOK
<1>4. KbQueue' = [i \in 1..(kb_count - 1) |-> kb_buf[Around(kb_tail + (i + 1) - 1)]]
  BY <1>1, <1>3, KbQueueIsNext DEF TtyInv
<1>5. KbQueue' = Tail(KbQueue)
  <2>1. TtyTypeOK /\ TtyTypeOK' /\ kb_count \in Nat
    BY DEF TtyInv, TtyTypeOK
  <2>2. /\ Tail(KbQueue) \in Seq(ScanCode) /\ Len(Tail(KbQueue)) = kb_count - 1
        /\ \A i \in 1..(kb_count - 1) : Tail(KbQueue)[i] = KbQueue[i + 1]
    BY <1>2, <2>1, KbQueueIs, HeadTailProperties
  <2>3. KbQueue' \in Seq(ScanCode) /\ Len(KbQueue') = kb_count - 1
    BY <1>1, <2>1, KbQueueIsNext
  <2>4. ASSUME NEW i \in 1..(kb_count - 1)
        PROVE  KbQueue'[i] = Tail(KbQueue)[i]
    <3>1. KbQueue[i + 1] = kb_buf[Around(kb_tail + (i + 1) - 1)]
      BY <2>1, KbQueueIs
    <3> QED
      BY <1>4, <2>2, <3>1
  <2> QED
    BY <2>2, <2>3, <2>4, SeqEqual
<1> QED
  BY <1>2, <1>5 DEF Queue!Take

\* Every step of the keyboard and of task_tty is a step of the queue or leaves it alone.
LEMMA StepIsQueueStep ==
  TtyInv /\ TtyInv' /\ [Next]_vars => [Queue!QNext]_KbQueue
<1> SUFFICES ASSUME TtyInv, TtyInv', [Next]_vars PROVE [Queue!QNext]_KbQueue
  OBVIOUS
<1>1. CASE \E k \in Key, press \in BOOLEAN : Strike(k, press)
  BY <1>1, StrikePuts
<1>2. CASE get_byte_from_kb_buf
  BY <1>2, GetTakes DEF Queue!QNext
<1>3. CASE UNCHANGED ring
  BY <1>3 DEF ring, KbQueue
<1>4. task_tty => get_byte_from_kb_buf \/ UNCHANGED ring
  BY DEF task_tty, tty_do_read, ReadAlt, ReadFKey, ReadChar, tty_do_write
<1>5. UNCHANGED vars => UNCHANGED ring
  BY DEF vars
<1> QED
  BY <1>1, <1>2, <1>3, <1>4, <1>5 DEF Next

(***************************************************************************)
(* kb_buf, which the interrupt handler fills and task_tty empties,         *)
(* implements the abstract queue: no code is overwritten, read twice or    *)
(* out of order, for a ring of any size.                                   *)
(***************************************************************************)
THEOREM KbBufImplementsQueue == Spec => KbBufIsQueue
<1>1. Init => Queue!QInit
  BY SizesPositive DEF Init, Queue!QInit, KbQueue
<1> QED
  BY <1>1, StepIsQueueStep, TtyInvHolds, PTL DEF Spec, KbBufIsQueue, Queue!QSpec
=============================================================================
