--------------------------------- MODULE Tty ---------------------------------
(***************************************************************************)
(* From the keyboard to the terminals: keyboard_handler, the ring kb_buf   *)
(* and keyboard_read of tty/keyboard.c, and the loop of task_tty with its  *)
(* terminals' input rings (tty/tty.c).                                     *)
(*                                                                         *)
(* A scan code is a key and whether it is pressed, which is what           *)
(* lookup_key and the bit 0x80 make of it.  The handler is an interrupt    *)
(* that may come between any two steps of task_tty, except between         *)
(* disable_int and enable_int of get_byte_from_kb_buf.                     *)
(***************************************************************************)
EXTENDS Integers, Sequences

CONSTANTS
  KB_NUM,              \* the size of kb_buf
  TTY_IN_BYTES_NUM,    \* the size of the inbuf of a Tty
  TTY_NUM,
  Char,                \* the keys other than the ones keyboard_read names
  FKey                 \* the function keys: FKey[k] is the terminal k selects

ASSUME TtyAssumption ==
  /\ KB_NUM \in Nat \ {0} /\ TTY_IN_BYTES_NUM \in Nat \ {0} /\ TTY_NUM \in Nat \ {0}
  /\ FKey \in [DOMAIN FKey -> 0..(TTY_NUM - 1)]
  /\ {"ALT_L"} \cap (Char \cup DOMAIN FKey) = {} /\ Char \cap DOMAIN FKey = {}

Key == Char \cup DOMAIN FKey \cup {"ALT_L"}

ScanCode == [key : Key, press : BOOLEAN]
NoCode == [key |-> "ALT_L", press |-> FALSE]

TTY == 0..(TTY_NUM - 1)

VARIABLES
  kb_buf, kb_head, kb_tail, kb_count,
  inbuf, in_head, in_tail, in_count,
  cur_tty_index,
  alt_l,
  alt_held,                         \* history: whether Alt is down, as the codes read say
  tty, pc, code,                    \* task_tty: its variable, where it is, scan_code
  echo                              \* the last echo: of which Tty, on which console

ring == <<kb_buf, kb_head, kb_tail, kb_count>>
inring == <<inbuf, in_head, in_tail, in_count>>
task == <<cur_tty_index, alt_l, alt_held, tty, pc, code, echo>>
vars == <<ring, inring, task>>

-----------------------------------------------------------------------------
(* The keyboard and its interrupt                                           *)

Wrap(n, size) == IF n = size THEN 0 ELSE n

\* Variant: the handler stores into a ring that is full.
keyboard_handler_NoCheck(c) ==
  /\ kb_buf' = [kb_buf EXCEPT ![kb_head] = c]
  /\ kb_head' = Wrap(kb_head + 1, KB_NUM)
  /\ kb_count' = IF kb_count < KB_NUM THEN kb_count + 1 ELSE kb_count
  /\ UNCHANGED kb_tail

keyboard_handler(c) ==
  IF kb_count < KB_NUM
  THEN /\ kb_buf' = [kb_buf EXCEPT ![kb_head] = c]
       /\ kb_head' = Wrap(kb_head + 1, KB_NUM)
       /\ kb_count' = kb_count + 1
       /\ UNCHANGED kb_tail
  ELSE UNCHANGED ring

\* A key goes down, repeats while it is down, or goes up.
Strike(k, press) ==
  /\ keyboard_handler([key |-> k, press |-> press])
  /\ UNCHANGED <<inring, task>>

-----------------------------------------------------------------------------
(* task_tty                                                                 *)

\* Variant: every terminal reads.
tty_do_read_Any ==
  /\ pc = "read"
  /\ pc' = IF kb_count > 0 THEN "get" ELSE "write"
  /\ UNCHANGED <<ring, inring, cur_tty_index, alt_l, alt_held, tty, code, echo>>

\* tty_do_read: only the current terminal reads, when there is a code.
tty_do_read ==
  /\ pc = "read"
  /\ pc' = IF tty = cur_tty_index /\ kb_count > 0 THEN "get" ELSE "write"
  /\ UNCHANGED <<ring, inring, cur_tty_index, alt_l, alt_held, tty, code, echo>>

get_byte_from_kb_buf ==
  /\ pc = "get"
  /\ kb_count > 0
  /\ code' = kb_buf[kb_tail]
  /\ kb_tail' = Wrap(kb_tail + 1, KB_NUM)
  /\ kb_count' = kb_count - 1
  /\ pc' = "parse"
  /\ UNCHANGED <<kb_buf, kb_head, inring, cur_tty_index, alt_l, alt_held, tty, echo>>

put_key(t, k) ==
  IF in_count[t] < TTY_IN_BYTES_NUM
  THEN /\ inbuf' = [inbuf EXCEPT ![t][in_head[t]] = k]
       /\ in_head' = [in_head EXCEPT ![t] = Wrap(@ + 1, TTY_IN_BYTES_NUM)]
       /\ in_count' = [in_count EXCEPT ![t] = @ + 1]
       /\ UNCHANGED in_tail
  ELSE UNCHANGED inring

\* keyboard_read returns; scan_code was local to it.
Parsed == pc' = "write" /\ code' = NoCode

\* The rest of keyboard_read: KEY_ALT_L ...
ReadAlt ==
  /\ pc = "parse" /\ code.key = "ALT_L"
  /\ alt_l' = 1
  /\ alt_held' = code.press
  /\ Parsed
  /\ UNCHANGED <<ring, inring, cur_tty_index, tty, echo>>

\* ... the function keys, which call select_tty ...
ReadFKey ==
  /\ pc = "parse" /\ code.key \in DOMAIN FKey
  /\ cur_tty_index' = IF alt_l = 1 /\ code.press THEN FKey[code.key] ELSE cur_tty_index
  /\ alt_l' = 0
  /\ Parsed
  /\ UNCHANGED <<ring, inring, alt_held, tty, echo>>

\* ... and the keys that go to the terminal.
ReadChar ==
  /\ pc = "parse" /\ code.key \in Char
  /\ IF code.press THEN put_key(tty, code.key) ELSE UNCHANGED inring
  /\ alt_l' = 0
  /\ Parsed
  /\ UNCHANGED <<ring, cur_tty_index, alt_held, tty, echo>>

\* Variant: the loop over the terminals starts again too early.
NextTty_First(t) == 0

NextTty(t) == IF t + 1 < TTY_NUM THEN t + 1 ELSE 0

\* tty_do_write: a key of the terminal goes to the current console.
tty_do_write ==
  /\ pc = "write"
  /\ IF in_count[tty] > 0
     THEN /\ echo' = [of |-> tty, on |-> cur_tty_index]
          /\ in_tail' = [in_tail EXCEPT ![tty] = Wrap(@ + 1, TTY_IN_BYTES_NUM)]
          /\ in_count' = [in_count EXCEPT ![tty] = @ - 1]
          /\ UNCHANGED <<inbuf, in_head>>
     ELSE UNCHANGED <<inring, echo>>
  /\ pc' = "read"
  /\ tty' = NextTty(tty)
  /\ UNCHANGED <<ring, cur_tty_index, alt_l, alt_held, code>>

-----------------------------------------------------------------------------
\* init_keyboard, init_tty and select_tty(0)
Init ==
  /\ kb_buf = [i \in 0..(KB_NUM - 1) |-> NoCode]
  /\ kb_head = 0 /\ kb_tail = 0 /\ kb_count = 0
  /\ inbuf = [t \in TTY |-> [i \in 0..(TTY_IN_BYTES_NUM - 1) |-> CHOOSE c \in Char : TRUE]]
  /\ in_head = [t \in TTY |-> 0] /\ in_tail = [t \in TTY |-> 0]
  /\ in_count = [t \in TTY |-> 0]
  /\ cur_tty_index = 0
  /\ alt_l = 0 /\ alt_held = FALSE
  /\ tty = 0 /\ pc = "read" /\ code = NoCode
  /\ echo = [of |-> 0, on |-> 0]

task_tty ==
  \/ tty_do_read \/ get_byte_from_kb_buf
  \/ ReadAlt \/ ReadFKey \/ ReadChar
  \/ tty_do_write

Next == task_tty \/ \E k \in Key, press \in BOOLEAN : Strike(k, press)

\* schedule() gives the task its turns.
Spec == Init /\ [][Next]_vars /\ WF_vars(task_tty)

-----------------------------------------------------------------------------
(* Properties                                                               *)

\* The codes that kb_buf holds, oldest first.
KbQueue == [i \in 1..kb_count |-> kb_buf[(kb_tail + i - 1) % KB_NUM]]

Queue == INSTANCE BoundedQueue WITH Item <- ScanCode, Size <- KB_NUM, queue <- KbQueue

\* The ring of the handler and the task is a queue: no code is overwritten,
\* read twice or out of order, and one is lost only when the ring is full.
KbBufIsQueue == Queue!QSpec

\* A key is echoed on the console of the terminal that read it, although
\* tty_do_write prints on the current one: a switch never overtakes a key.
EchoOnItsOwnTty == echo.of = echo.on

\* "alt+F1, alt+F2, alt+F3 switch tty": a function key selects a terminal only
\* while Alt is held down.
SelectsWithAlt == [][cur_tty_index' # cur_tty_index => alt_held]_vars

\* What is typed is read: the ring does not stay full.
KeysAreRead == kb_count = KB_NUM ~> kb_count < KB_NUM
=============================================================================
