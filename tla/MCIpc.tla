-------------------------------- MODULE MCIpc --------------------------------
(***************************************************************************)
(* TLC instance of Ipc.                                                    *)
(***************************************************************************)
EXTENDS Ipc

MCCallers == {1, 2, 3}
MCBody == {"m0", "m1"}
OneBody == {"m0"}
=============================================================================
