------------------------------ MODULE MCConsole ------------------------------
(***************************************************************************)
(* TLC instance of Console: two consoles of two columns and three rows, on *)
(* a screen of two, with a banner of one line.                             *)
(***************************************************************************)
EXTENDS Console

MCBanner == <<"print", "cr", "nl">>
=============================================================================
