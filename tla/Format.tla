------------------------------- MODULE Format -------------------------------
(***************************************************************************)
(* Formatted output: the conversions of numbers (io/k_stdio.c and the      *)
(* copies of them in the loader and the boot sector), s32_sprintf,         *)
(* s32_vsprintf and s32_printf, which are three copies of one loop, and    *)
(* what is built on them: printx, panic and assertion_failure (k_assert.c) *)
(* down to the screen that sys_printk fills before it halts.               *)
(*                                                                         *)
(* A character is its code and a string a sequence of them without the     *)
(* final 0.  A step is one turn of the loop over the format.               *)
(***************************************************************************)
EXTENDS Integers, Sequences

CONSTANTS
  Call,          \* the calls: a function, a format and its arguments
  BUF,           \* the size of the buffers of printf, printx and panic
  V_MEM_SIZE     \* the bytes of video memory

PERCENT == 37
MINUS == 45
MAG_CH_PANIC == 2
MAG_CH_ASSERT == 3
BAND == 1280     \* SCR_WIDTH * 16: eight lines of the screen

(***************************************************************************)
(* A format is written as a sequence of items: a literal character or a    *)
(* conversion.  The code sees the characters.                              *)
(***************************************************************************)
Lit(c) == [conv |-> FALSE, ch |-> c]
Conv(c) == [conv |-> TRUE, ch |-> c]

\* The first k of some strings, one after the other, for every k.
JoinedUpTo(strings) ==
  LET joined[k \in 0..Len(strings)] == IF k = 0 THEN << >> ELSE joined[k - 1] \o strings[k]
  IN  joined

CharsUpTo(items) ==
  JoinedUpTo([k \in 1..Len(items) |-> IF items[k].conv THEN <<PERCENT, items[k].ch>> ELSE <<items[k].ch>>])
Chars(items) == CharsUpTo(items)[Len(items)]

\* Which argument the item k takes: every conversion before it has taken one.
ArgOf(items, k) ==
  LET taken[j \in 0..Len(items)] == IF j = 0 THEN 0 ELSE taken[j - 1] + (IF items[j].conv THEN 1 ELSE 0)
  IN  taken[k]

\* What a conversion takes: an int that is not negative, an unsigned, a string, or a character.
Fits(c, a) ==
  /\ c = 100 => a \in Nat /\ a \div 65536 < 32768
  /\ c = 120 => a \in Nat /\ a \div 65536 < 65536
  /\ c = 115 => a \in Seq(Int)
  /\ c = 99 => a \in Int

\* The arguments fit the format, which has no '%' beside its conversions but at its end.
Fitting(items, as) ==
  /\ items \in Seq([conv : BOOLEAN, ch : Int])
  /\ \A k \in DOMAIN items :
       IF items[k].conv THEN ArgOf(items, k) \in DOMAIN as /\ Fits(items[k].ch, as[ArgOf(items, k)])
       ELSE items[k].ch = PERCENT => k = Len(items)

IsCall(c) ==
  /\ c.fn \in {"sprintf", "vsprintf", "printf", "panic", "assertion_failure",
              "s32_print_int", "s16_print_int", "p_dump_u8"}
  /\ c.task \in BOOLEAN
  /\ Fitting(c.items, c.args)
  /\ c.fn = "assertion_failure" =>
       c.items # << >> /\ c.items[1] = Conv(99) /\ c.args[1] = MAG_CH_ASSERT
  /\ c.fn = "s32_print_int" => Fits(120, c.args[1]) /\ c.args[2] \in {10, 16}
  /\ c.fn = "p_dump_u8" => c.args \in Seq(0..255)

\* The kernel's own texts fit the buffers.
FormatAssumption ==
  /\ BUF \in Nat /\ BUF > 2 /\ V_MEM_SIZE \in Nat \ {0}
  /\ \A c \in Call : IsCall(c)

VARIABLES
  call,          \* the call that was made
  fn,            \* the function whose loop runs,
  fmt, args,     \* its format and arguments,
  i, arg,        \* the next of each,
  p,             \* and what it has put into its buffer
  printed,       \* the strings that went to a terminal
  v,             \* the end of what sys_printk wrote to the video memory
  pc

vars == <<call, fn, fmt, args, i, arg, p, printed, v, pc>>

----------------------------------------------------------------------------
(* Numbers.                                                                *)

Digit(d) == IF d < 10 THEN 48 + d ELSE 55 + d

\* The digits of n, the last one first.
LowDigits(radix) ==
  LET digits[n \in Nat] == IF n = 0 THEN << >> ELSE <<Digit(n % radix)>> \o digits[n \div radix]
  IN  digits

\* Variant: the two digits in the middle are not exchanged.
Turned_Short(s) ==
  LET n == (Len(s) - 1) \div 2
  IN  [j \in DOMAIN s |-> IF j <= n \/ j > Len(s) - n THEN s[Len(s) + 1 - j] ELSE s[j]]

\* The loop that turns the digits round leaves a pair alone if there is a '-' before the second.
Turned(s) ==
  LET turned[k \in 0..(Len(s) \div 2)] ==
        IF k = 0 THEN s
        ELSE LET t == turned[k - 1]
                 q == Len(s) + 1 - k
             IN  IF t[q - 1] = MINUS THEN t ELSE [t EXCEPT ![k] = t[q], ![q] = t[k]]
  IN  turned[Len(s) \div 2]

\* s32_itoa: n is unsigned, so no '-' is ever written.
s32_itoa(n, radix) == IF n = 0 THEN <<48>> ELSE Turned(LowDigits(radix)[n])

\* s32_itoa_s and the itoa of the loader: n is signed.
s32_itoa_s(n, radix) ==
  IF n = 0 THEN <<48>>
  ELSE IF radix = 10 /\ n < 0 THEN Turned(<<MINUS>> \o LowDigits(radix)[-n])
  ELSE Turned(LowDigits(radix)[n])

\* h2c: two digits, in small letters.
h2c(hex) ==
  LET Nibble(l) == IF l <= 9 THEN l + 48 ELSE l + 97 - 10
  IN  <<Nibble(hex \div 16), Nibble(hex % 16)>>

\* p_dump_u8 and dump_u8: a blank follows every byte.
p_dump_u8(bytes) ==
  [j \in 1..(3 * Len(bytes)) |-> IF j % 3 = 0 THEN 32 ELSE h2c(bytes[(j + 2) \div 3])[j % 3]]

----------------------------------------------------------------------------
(* The loop over the format.                                               *)

\* Only s32_vsprintf knows %c.
Converted(f, c, a) ==
  CASE c = 100 -> s32_itoa(a, 10)                       \* 'd'
    [] c = 120 -> s32_itoa(a, 16)                       \* 'x'
    [] c = 115 -> a                                     \* 's'
    [] c = 99 /\ f \notin {"sprintf", "printf"} -> <<a>>
    [] OTHER -> << >>

\* Anything that does not fit runs over the end of the buffer; a 0 follows the string.
Put(s) ==
  IF Len(p) + Len(s) > BUF
    THEN pc' = "overrun" /\ UNCHANGED p
    ELSE p' = p \o s /\ UNCHANGED pc

Literal ==
  /\ pc = "loop" /\ i <= Len(fmt) /\ fmt[i] # PERCENT
  /\ Put(<<fmt[i]>>)
  /\ i' = i + 1
  /\ UNCHANGED <<call, fn, fmt, args, arg, printed, v>>

\* A conversion takes an argument, also one that is not known.
Conversion ==
  /\ pc = "loop" /\ i < Len(fmt) /\ fmt[i] = PERCENT
  /\ Put(Converted(fn, fmt[i + 1], IF arg \in DOMAIN args THEN args[arg] ELSE 0))
  /\ i' = i + 2
  /\ arg' = arg + 1
  /\ UNCHANGED <<call, fn, fmt, args, printed, v>>

\* A '%' at the end: the loop steps over the 0 that ends the format.
PercentAtEnd ==
  /\ pc = "loop" /\ i = Len(fmt) /\ fmt[i] = PERCENT
  /\ pc' = "past_end"
  /\ UNCHANGED <<call, fn, fmt, args, i, arg, p, printed, v>>

AtEnd == pc = "loop" /\ i > Len(fmt) /\ Len(p) < BUF

\* The 0 that s32_vsprintf and s32_sprintf put after the string does not fit.
NoRoomForNul ==
  /\ pc = "loop" /\ i > Len(fmt) /\ Len(p) = BUF /\ fn # "printf"
  /\ pc' = "overrun"
  /\ UNCHANGED <<call, fn, fmt, args, i, arg, p, printed, v>>

\* s32_sprintf and s32_vsprintf return; s32_printf writes its buffer to the terminal.
Return ==
  /\ \/ AtEnd /\ fn \in {"sprintf", "vsprintf"} /\ UNCHANGED printed
     \/ /\ pc = "loop" /\ i > Len(fmt) /\ fn = "printf"
        /\ printed' = Append(printed, p)
  /\ pc' = "done"
  /\ UNCHANGED <<call, fn, fmt, args, i, arg, p, v>>

\* "%c !!panic!! %s", with one character for the text in the middle.
PanicItems == <<Conv(99), Lit(33), Conv(115)>>

\* Variant: panic makes its message a part of the format.
PanicPrints_Format == /\ fmt' = <<PERCENT, 99, 33>> \o p
                      /\ args' = <<MAG_CH_PANIC>>

\* panic: the message is an argument of printx, not a part of its format.
PanicPrints == /\ fmt' = Chars(PanicItems)
               /\ args' = <<MAG_CH_PANIC, p>>

panic ==
  /\ AtEnd /\ fn = "panic"
  /\ fn' = "printx" /\ PanicPrints
  /\ i' = 1 /\ arg' = 1 /\ p' = << >>
  /\ UNCHANGED <<call, printed, v, pc>>

\* printx calls printk, which halts for a panic, and for an assertion of a task.
Halts == p # << >> /\ (p[1] = MAG_CH_PANIC \/ (p[1] = MAG_CH_ASSERT /\ call.task))
Shown(s) == SelectSeq(s, LAMBDA c : c \notin {MAG_CH_PANIC, MAG_CH_ASSERT})

\* assertion_failure goes on to say that it spins, and does.
SpinItems == <<Lit(115), Conv(115)>>
SpinName == <<97>>

printx ==
  /\ AtEnd /\ fn = "printx"
  /\ IF Halts
       THEN pc' = "screen" /\ UNCHANGED <<fmt, args, i, arg, p, printed>>
       ELSE /\ printed' = Append(printed, Shown(p))
            /\ IF printed = << >>
                 THEN /\ fmt' = Chars(SpinItems) /\ args' = <<SpinName>>
                      /\ i' = 1 /\ arg' = 1 /\ p' = << >>
                      /\ UNCHANGED pc
                 ELSE pc' = "done" /\ UNCHANGED <<fmt, args, i, arg, p>>
  /\ UNCHANGED <<call, fn, v>>

\* One copy of the message, and the rest of its eight lines.
Screen ==
  /\ pc = "screen"
  /\ LET end == v + 2 * (Len(p) - 1)
     IN  IF v >= V_MEM_SIZE
           THEN pc' = "halted" /\ UNCHANGED v
           ELSE /\ v' = IF end > V_MEM_SIZE THEN V_MEM_SIZE
                        ELSE BAND * ((end + BAND - 1) \div BAND)
                /\ UNCHANGED pc
  /\ UNCHANGED <<call, fn, fmt, args, i, arg, p, printed>>

\* The functions that print a number or bytes without a format.
PrintNumber ==
  /\ pc = "loop"
  /\ \/ fn = "s32_print_int" /\ printed' = <<s32_itoa(args[1], args[2])>>
     \/ fn = "s16_print_int" /\ printed' = <<s32_itoa_s(args[1], args[2])>>
     \/ fn = "p_dump_u8" /\ printed' = <<p_dump_u8(args)>>
  /\ pc' = "done"
  /\ UNCHANGED <<call, fn, fmt, args, i, arg, p, v>>

Init ==
  /\ call \in Call
  /\ fn = (IF call.fn = "assertion_failure" THEN "printx" ELSE call.fn) /\ fmt = Chars(call.items) /\ args = call.args
  /\ i = 1 /\ arg = 1 /\ p = << >>
  /\ printed = << >> /\ v = 0
  /\ pc = "loop"

Next ==
  \/ Literal \/ Conversion \/ PercentAtEnd \/ NoRoomForNul \/ Return
  \/ panic \/ printx \/ Screen \/ PrintNumber

Spec == Init /\ [][Next]_vars

----------------------------------------------------------------------------
(* Properties.                                                             *)

\* A number as one writes it, the first digit first.
Numeral(radix) ==
  LET numeral[n \in Nat] ==
        IF n < radix THEN <<Digit(n)>> ELSE numeral[n \div radix] \o <<Digit(n % radix)>>
  IN  numeral

\* What a conversion stands for.
Meant(c, a) ==
  CASE c = 100 -> Numeral(10)[a]
    [] c = 120 -> Numeral(16)[a]
    [] c = 115 -> a
    [] c = 99 -> <<a>>

\* What a format and its arguments stand for: every conversion takes one argument.
Expected(items, as) ==
  JoinedUpTo([k \in 1..Len(items) |->
    IF items[k].conv THEN Meant(items[k].ch, as[ArgOf(items, k)]) ELSE <<items[k].ch>>])[Len(items)]

Message == Expected(call.items, call.args)

(***************************************************************************)
(* The calls with the conversions that are implemented: %c is missing in   *)
(* s32_sprintf and s32_printf, and no function knows more than these four. *)
(* A conversion that is not known takes its argument and prints nothing.   *)
(***************************************************************************)
Known(c) ==
  \A k \in 1..Len(c.items) : c.items[k].conv =>
    c.items[k].ch \in {100, 120, 115} \/ (c.items[k].ch = 99 /\ c.fn \notin {"sprintf", "printf"})

(***************************************************************************)
(* The three copies of the loop print what the format says, conversion by  *)
(* conversion, and what an argument holds is never taken for a format: a   *)
(* panic shows its message even if there is a '%' in it.  The loop leaves  *)
(* the format only after a '%' at its end, and the buffer only if the text *)
(* does not fit.  A panic covers the video memory to its end before it     *)
(* halts (and less than one more copy beyond the end).                     *)
(***************************************************************************)
FormatsMessage ==
  /\ Known(call) =>
       /\ pc = "done" /\ call.fn \in {"sprintf", "vsprintf"} => p = Message
       /\ pc = "done" /\ call.fn = "printf" => printed = <<Message>>
       /\ pc = "halted" /\ call.fn = "panic" => p = <<MAG_CH_PANIC, 33>> \o Message
       /\ pc = "halted" /\ call.fn = "assertion_failure" => p = Message
       /\ pc = "done" /\ call.fn = "assertion_failure" => ~ call.task /\ printed[1] = Shown(Message)
       /\ pc = "overrun" => Len(Message) + (IF call.fn = "panic" THEN 2 ELSE 0) >= BUF
  /\ pc = "halted" => v >= V_MEM_SIZE /\ v < V_MEM_SIZE + BAND
  /\ pc = "past_end" => call.items[Len(call.items)] = Lit(PERCENT)

\* The number that a string of digits stands for.
Value(s, radix) ==
  LET Of(c) == IF c < 58 THEN c - 48 ELSE IF c < 97 THEN c - 55 ELSE c - 87
      value[k \in 0..Len(s)] == IF k = 0 THEN 0 ELSE value[k - 1] * radix + Of(s[k])
  IN  value[Len(s)]

\* A number reads back from what is printed of it, without leading zeros, and fits str[12].
NumbersReadBack ==
  pc = "done" =>
    /\ call.fn = "s32_print_int" =>
         /\ Value(printed[1], args[2]) = args[1]
         /\ printed[1][1] = 48 => args[1] = 0
         /\ Len(printed[1]) < 12
    /\ call.fn = "p_dump_u8" =>
         \A k \in DOMAIN args : Value(SubSeq(printed[1], 3 * k - 2, 3 * k - 1), 16) = args[k]

\* The signed version prints the sign and the digits of its number.
SignedReadsBack ==
  pc = "done" /\ call.fn = "s16_print_int" =>
    LET s == printed[1]
    IN  args[1] = IF s[1] = MINUS THEN 0 - Value(Tail(s), 10) ELSE Value(s, 10)
=============================================================================
