---------------------------- MODULE MCDirectory ----------------------------
(* The root and three more inodes, two names: enough for a directory in a     *)
(* directory, a file with two names, and a rename that replaces either.       *)
EXTENDS Directory, TLC

Symmetry == Permutations(Inodes \ {Root}) \cup Permutations(Names)
=============================================================================
