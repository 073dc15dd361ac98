----------------------------- MODULE Namespace -----------------------------
(***************************************************************************)
(* What the operations on names promise (inode_operations of a directory): *)
(* a tree of directories, each a function from names to inodes.  A name is *)
(* entered where there is none, or by a rename in place of one that may be *)
(* removed; a directory is removed when it is empty; nothing else happens  *)
(* to any name, and an inode is given up only when no name leads to it.    *)
(***************************************************************************)
CONSTANTS Inodes, Names, None

VARIABLES type,   \* [Inodes -> {"none", "file", "dir"}]
          names   \* [Inodes -> [Names -> Inodes \cup {None}]]

vars == <<type, names>>

Named(i) == \E d \in Inodes, n \in Names : names[d][n] = i

Empty(d) == \A n \in Names : names[d][n] = None

\* What may go: a file, or an empty directory.
Removable(i) == type[i] = "dir" => Empty(i)

\* Nothing happens to the other names.
Others(P) == \A d \in Inodes, n \in Names : <<d, n>> \notin P => names'[d][n] = names[d][n]

Entered(d, n) == names[d][n] = None /\ names'[d][n] # None

Left(d, n) == names[d][n] # None /\ names'[d][n] = None

Create(d, n, t) ==
    LET i == names'[d][n] IN
    /\ type[i] = "none" /\ type' = [type EXCEPT ![i] = t]
    /\ Others({<<d, n>>})

Link(d, n) ==
    /\ type[names'[d][n]] = "file" /\ UNCHANGED type
    /\ Others({<<d, n>>})

Remove(d, n) ==
    /\ Removable(names[d][n]) /\ UNCHANGED type
    /\ Others({<<d, n>>})

Rename(d, n, e, m) ==
    /\ <<d, n>> # <<e, m>> /\ names'[e][m] = names[d][n]
    /\ names[e][m] # None => Removable(names[e][m])
    /\ UNCHANGED type
    /\ Others({<<d, n>>, <<e, m>>})

\* A creation that has failed leaves an inode without a name.
Orphan(i) ==
    /\ type[i] = "none"
    /\ type' = [type EXCEPT ![i] = "dir"]
    /\ UNCHANGED names

GiveUp(i) ==
    /\ type[i] # "none" /\ ~Named(i) /\ Removable(i)
    /\ type' = [type EXCEPT ![i] = "none"]
    /\ UNCHANGED names

Next ==
    \/ \E d \in Inodes, n \in Names :
          \/ Entered(d, n) /\ (Link(d, n) \/ \E t \in {"file", "dir"} : Create(d, n, t))
          \/ Left(d, n) /\ (Remove(d, n) \/ \E e \in Inodes, m \in Names : Rename(d, n, e, m))
    \/ \E i \in Inodes : Orphan(i) \/ GiveUp(i)
=============================================================================
