-------------------------------- MODULE MCTty --------------------------------
(***************************************************************************)
(* TLC instance of Tty: two function keys, one other key, two terminals, rings of two.   *)
(***************************************************************************)
EXTENDS Tty, TLC

OneChar == {"a"}
MCFKey == ("F1" :> 0) @@ ("F2" :> 1)
=============================================================================
