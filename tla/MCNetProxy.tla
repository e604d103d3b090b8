----------------------------- MODULE MCNetProxy -----------------------------
(***************************************************************************)
(* Instances of NetProxy: both streams cross the end of the word.          *)
(***************************************************************************)
EXTENDS NetProxy
=============================================================================
