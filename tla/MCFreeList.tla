----------------------------- MODULE MCFreeList -----------------------------
(* Small volumes for TLC: a table of two entries and four blocks, so that     *)
(* the list spans the table and two index blocks.                             *)
EXTENDS FreeListFsck, TLC

Symmetry == Permutations(Procs)
=============================================================================
