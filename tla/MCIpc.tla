------------------------------- MODULE MCIpc --------------------------------
(* Small instances of Ipc; the bounds are in the configurations.           *)
EXTENDS Ipc
=============================================================================
