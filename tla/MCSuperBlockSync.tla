-------------------------- MODULE MCSuperBlockSync --------------------------
(* Two blocks and a table of two: one group is stored and loaded, and the    *)
(* table is copied in every state it passes through.                         *)
EXTENDS SuperBlockSync, TLC

Symmetry == Permutations(Procs)
=============================================================================
