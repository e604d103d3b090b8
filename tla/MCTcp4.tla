-------------------------------- MODULE MCTcp4 --------------------------------
(***************************************************************************)
(* Instances of Tcp4 for TLC.                                              *)
(***************************************************************************)
EXTENDS Tcp4
=============================================================================
