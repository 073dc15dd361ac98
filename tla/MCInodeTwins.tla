---------------------------- MODULE MCInodeTwins ----------------------------
(* One file of at most two blocks and two modes, two processes that use it,   *)
(* and the writeback.                                                         *)
EXTENDS InodeTwins
=============================================================================
