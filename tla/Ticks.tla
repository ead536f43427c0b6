------------------------------- MODULE Ticks -------------------------------
(***************************************************************************)
(* milli_delay (start.c): a process reads the ticks of the clock over and  *)
(* over until enough of them have passed.  ticks and the arithmetic with   *)
(* it are unsigned and wrap, and the clock ticks between any two steps.    *)
(***************************************************************************)
EXTENDS Integers

CONSTANTS
  Width,       \* ticks is below this (2^32 in the source)
  Second,      \* the milliseconds in a second (1000)
  HZ,          \* the ticks in a second (100)
  Delay,       \* the delays asked for, in milliseconds
  Start,       \* the values of ticks when milli_delay is called
  Lag          \* the ticks that pass at most between two steps of the process

(***************************************************************************)
(* A delay must be reached, and seen to be, before the milliseconds wrap:  *)
(* with 32 bits that is after twelve hours, and a process gets its turn    *)
(* every few ticks.                                                        *)
(***************************************************************************)
TicksAssumption ==
  /\ {Width, Second, HZ, Lag} \subseteq Nat \ {0}
  /\ Second % HZ = 0
  /\ Delay \subseteq Nat /\ Start \subseteq 0..(Width - 1)
  /\ \A d \in Delay : (d * HZ + Second - 1) \div Second + 2 * Lag <= (Width - 1) \div Second + 1

VARIABLES
  ticks,
  t, t2,       \* what milli_delay has read
  milli_sec,
  pc,          \* "start", "read", "compare" or "done"
  elapsed,     \* history: the ticks since t was read, counted up to Width
  lag          \* history: the ticks since the process did something

vars == <<ticks, t, t2, milli_sec, pc, elapsed, lag>>

\* Variant: the end is computed once and compared with.
Enough_Absolute == t2 >= (t + (milli_sec * HZ) \div Second) % Width
\* Variant: the same without the wrap.
Enough_NoWrap == t2 >= t + (milli_sec * HZ) \div Second
\* (t2 - t) * 1000 / HZ, unsigned.
Enough == ((((t2 - t) % Width) * Second) % Width) \div HZ >= milli_sec

Init ==
  /\ ticks \in Start /\ milli_sec \in Delay
  /\ t = 0 /\ t2 = 0 /\ elapsed = 0 /\ lag = 0
  /\ pc = "start"

\* clock_handler.
Tick ==
  /\ pc # "done" /\ lag < Lag
  /\ ticks' = (ticks + 1) % Width
  /\ elapsed' = IF pc = "start" THEN 0 ELSE IF elapsed < Width THEN elapsed + 1 ELSE elapsed
  /\ lag' = lag + 1
  /\ UNCHANGED <<t, t2, milli_sec, pc>>

\* get_ticks, for the first time and in the loop: time passes before the answer is used.
ReadStart ==
  /\ pc = "start" /\ pc' = "read"
  /\ t' = ticks /\ lag' = 0
  /\ UNCHANGED <<ticks, t2, milli_sec, elapsed>>

Read ==
  /\ pc = "read" /\ pc' = "compare"
  /\ t2' = ticks /\ lag' = 0
  /\ UNCHANGED <<ticks, t, milli_sec, elapsed>>

Compare ==
  /\ pc = "compare"
  /\ pc' = IF Enough THEN "done" ELSE "read"
  /\ lag' = 0
  /\ UNCHANGED <<ticks, t, t2, milli_sec, elapsed>>

Next == Tick \/ ReadStart \/ Read \/ Compare

Spec == Init /\ [][Next]_vars /\ WF_vars(Tick) /\ WF_vars(ReadStart \/ Read \/ Compare)

----------------------------------------------------------------------------
(* Properties.                                                             *)

\* milli_delay does not return before the time is over, whatever wraps meanwhile.
NeverEarly == pc = "done" => elapsed * Second >= milli_sec * HZ

\* It does return.
DelayEnds == <>(pc = "done")
=============================================================================
