---------------------------- MODULE MCInodeTable ----------------------------
(* A volume of three inodes with a table of two, so that the table empties and *)
(* fills, numbers are found by the scan, and the inodes run out.              *)
EXTENDS InodeTable, TLC

Symmetry == Permutations(Procs)
=============================================================================
