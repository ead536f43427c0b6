----------------------------- MODULE MCInterrupt -----------------------------
(***************************************************************************)
(* TLC instance of Interrupt: the clock, the keyboard and a line that is   *)
(* never enabled, and three processes.                                     *)
(***************************************************************************)
EXTENDS Interrupt

MCIrq == {"clock", "keyboard", "lpt"}
MCSlot == {0, 1, 2}
MCJunk == -1
RestartWindow == {"esp", "dec", "pop"}
NoWindow == {}
=============================================================================
