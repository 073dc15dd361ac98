----------------------------- MODULE MCBlockMap -----------------------------
(* Two files on a volume that is too small for them, with index blocks of two *)
(* entries, so that both kinds of index blocks are used and blocks run out.   *)
EXTENDS BlockMap, TLC

Symmetry == Permutations(Files) \cup Permutations(Blocks)
=============================================================================
