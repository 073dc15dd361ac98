----------------------------- MODULE Directory -----------------------------
(***************************************************************************)
(* Names: the directory files that FileManager::DELocate walks, and the    *)
(* operations of fileops.c on them, create, link, unlink, mkdir, rmdir and *)
(* rename, with the counts of links they keep.                             *)
(*                                                                         *)
(* An operation is one step: the kernel holds the locks of the directories *)
(* it changes (inode_lock, lock_rename) and of the file it removes.  What  *)
(* can fail in it are reads and writes of directory blocks and the         *)
(* allocation of an inode; the ways that change nothing are left out, the  *)
(* others are parameters or actions of their own.                          *)
(*                                                                         *)
(* Every file has two inodes, the kernel's and the C++ one, with a count   *)
(* each (nlink and i_nlink); secondfs_inode_conform_v2s copies the first   *)
(* over the second, conform_s2v the second over the first.                 *)
(***************************************************************************)
EXTENDS Integers, Sequences, FiniteSets

CONSTANTS Inodes,    \* inode numbers
          Root,      \* 0
          Names,     \* file names, other than "." and ".."
          Free,      \* ino 0 in an entry that is not in use
          Room,      \* bound: entries of a directory, besides the dots
          PerBlock,  \* entries in a block of a directory (16)
          Faults     \* TRUE: reads and writes of blocks, and IAlloc, may fail

ASSUME DirectoryAssumption ==
    /\ Root \in Inodes /\ Free \notin Inodes
    /\ Names \cap {".", "..", "(deleted)"} = {}
    /\ Room \in Nat /\ PerBlock \in Nat \ {0}
    /\ Faults \in BOOLEAN

VARIABLES kind,     \* what an inode is, "none" when it is free
          slots,    \* directory files: sequences of entries
          nlink,    \* i_nlink of the kernel's inode
          i_nlink,  \* i_nlink of the C++ inode
          opened,   \* files that a process has open
          has_dots, \* s_has_dots: directories have "." and ".." entries
          sound,    \* history: no step has broken the tree or a count
          clean     \* history: no mkdir has failed

vars == <<kind, slots, nlink, i_nlink, opened, has_dots, sound, clean>>

DE(i, n) == [ino |-> i, name |-> n]

\* What unlink and rename leave.
Deleted == DE(Free, "(deleted)")

\* An entry for the root has ino 0xFFFFFFFF, so that it does not count as free; it is
\* written DE(Root, _) here.
Dots(i, d) == IF has_dots THEN <<DE(i, "."), DE(d, "..")>> ELSE <<>>

InUse(e) == e.ino # Free
IsDot(e) == e.name \in {".", ".."}

-----------------------------------------------------------------------------
(* DELocate                                                                 *)

First(S) == CHOOSE k \in S : \A j \in S : k <= j

\* OPEN, DELETE: the entries of directory d with the name n.
Match(d, n) == { k \in DOMAIN slots[d] : InUse(slots[d][k]) /\ slots[d][k].name = n }

Found(d, n) == \E k \in DOMAIN slots[d] : InUse(slots[d][k]) /\ slots[d][k].name = n

At(d, n) == First(Match(d, n))

Lookup(d, n) ==
    LET M == Match(d, n) IN IF M = {} THEN Free ELSE slots[d][First(M)].ino

\* Mutant: free entries are looked for behind the first one only.
VacancySecond(t) ==
    LET F == { k \in DOMAIN t : ~InUse(t[k]) } \cup {IF t = <<>> THEN 1 ELSE Len(t)} IN First(F)

\* CREATE: the first free entry, or the end.
Vacancy(t) == First({ k \in DOMAIN t : ~InUse(t[k]) } \cup {Len(t) + 1})

\* CHECKEMPTY
IsEmpty(t) == \A k \in DOMAIN t : ~InUse(t[k]) \/ IsDot(t[k])

Put(t, k, e) == [ j \in 1 .. (IF k > Len(t) THEN k ELSE Len(t)) |-> IF j = k THEN e ELSE t[j] ]

\* add_link: the directory file with an entry more.
AddLink(t, n, i) == Put(t, Vacancy(t), DE(i, n))

\* Bound: a directory does not grow beyond Room.
HasRoom(d) == Vacancy(slots[d]) <= Room + Len(Dots(d, d))

-----------------------------------------------------------------------------
(* What the kernel's own part sees to (fs/namei.c)                          *)

\* d has an entry for i, which is not a dot.
ParentOf(d, i) == \E k \in DOMAIN slots[d] : slots[d][k].ino = i /\ ~IsDot(slots[d][k])

HasName(i) == \E d \in Inodes : ParentOf(d, i)

\* A directory in which names may be entered: one that has not been removed.
Live(d) == kind[d] = "dir" /\ (d = Root \/ HasName(d))

\* d is i, or a directory below it: the way up from d leads out of every set without i.
Below(d, i) ==
    \A C \in SUBSET (Inodes \ {i}) :
        d \in C => \E x \in C, p \in Inodes \ C : ParentOf(p, x)

MayRename(d, n, e, m) ==
    LET i == Lookup(d, n) t == Lookup(e, m) IN
    /\ <<d, n>> # <<e, m>>
    /\ t # i
    /\ t # Free => kind[t] = kind[i]
    /\ kind[i] = "dir" => ~Below(e, i)

-----------------------------------------------------------------------------
\* mkfs
Init ==
    /\ has_dots \in BOOLEAN
    /\ kind = [i \in Inodes |-> IF i = Root THEN "dir" ELSE "none"]
    /\ slots = [i \in Inodes |-> IF i = Root THEN Dots(Root, Root) ELSE <<>>]
    /\ nlink = [i \in Inodes |-> IF i # Root THEN 0 ELSE IF has_dots THEN 2 ELSE 1]
    /\ i_nlink = nlink
    /\ opened = {}
    /\ sound = TRUE /\ clean = TRUE

Create(d, n, i) ==
    /\ kind[i] = "none" /\ HasRoom(d)
    /\ kind' = [kind EXCEPT ![i] = "file"]
    /\ slots' = [slots EXCEPT ![d] = AddLink(@, n, i)]
    /\ nlink' = [nlink EXCEPT ![i] = 1, ![d] = i_nlink[d]]
    /\ i_nlink' = [i_nlink EXCEPT ![i] = 1]
    /\ UNCHANGED <<opened, has_dots, sound, clean>>

\* Mutant: the count is raised after it has been copied to the C++ inode.
LinkConformEarly(d, n, i) ==
    /\ HasRoom(d)
    /\ kind[i] = "file" /\ HasName(i)
    /\ slots' = [slots EXCEPT ![d] = AddLink(@, n, i)]
    /\ nlink' = [nlink EXCEPT ![i] = @ + 1, ![d] = i_nlink[d]]
    /\ i_nlink' = [i_nlink EXCEPT ![i] = nlink[i]]
    /\ UNCHANGED <<kind, opened, has_dots, sound, clean>>

Link(d, n, i) ==
    /\ HasRoom(d)
    /\ kind[i] = "file" /\ HasName(i)
    /\ slots' = [slots EXCEPT ![d] = AddLink(@, n, i)]
    /\ nlink' = [nlink EXCEPT ![i] = @ + 1, ![d] = i_nlink[d]]
    /\ i_nlink' = [i_nlink EXCEPT ![i] = nlink[i] + 1]
    /\ UNCHANGED <<kind, opened, has_dots, sound, clean>>

\* Mutant: the count of the directory goes down, too.
UnlinkBoth(d, n) ==
    LET i == Lookup(d, n) IN
    /\ kind[i] = "file"
    /\ slots' = [slots EXCEPT ![d][At(d, n)] = Deleted]
    /\ nlink' = [nlink EXCEPT ![i] = @ - 1, ![d] = i_nlink[d] - 1]
    /\ i_nlink' = [i_nlink EXCEPT ![d] = i_nlink[d] - 1]
    /\ UNCHANGED <<kind, opened, has_dots, sound, clean>>

\* The new count is not copied to the C++ inode of the file; that of the directory is.
Unlink(d, n) ==
    LET i == Lookup(d, n) IN
    /\ kind[i] = "file"
    /\ slots' = [slots EXCEPT ![d][At(d, n)] = Deleted]
    /\ nlink' = [nlink EXCEPT ![i] = @ - 1, ![d] = i_nlink[d]]
    /\ UNCHANGED <<kind, i_nlink, opened, has_dots, sound, clean>>

-----------------------------------------------------------------------------
(* Directories                                                              *)

\* The entries of a directory's subdirectories count, when there are dots.
Up == IF has_dots THEN 1 ELSE 0

Mkdir(d, n, i) ==
    /\ kind[i] = "none" /\ HasRoom(d)
    /\ kind' = [kind EXCEPT ![i] = "dir"]
    /\ slots' = [slots EXCEPT ![i] = Dots(i, d), ![d] = AddLink(@, n, i)]
    /\ i_nlink' = [i_nlink EXCEPT ![i] = 1 + Up, ![d] = IF has_dots THEN nlink[d] + 1 ELSE @]
    /\ nlink' = [nlink EXCEPT ![i] = 1 + Up, ![d] = i_nlink'[d]]
    /\ UNCHANGED <<opened, has_dots, sound, clean>>

\* Bound: one mkdir fails.  No inode: the kernel's count is taken back, the C++ inode's is not.
MkdirNoInode(d) ==
    /\ Faults /\ has_dots /\ clean
    /\ i_nlink' = [i_nlink EXCEPT ![d] = nlink[d] + 1]
    /\ clean' = FALSE
    /\ UNCHANGED <<kind, slots, nlink, opened, has_dots, sound>>

\* add_dots or add_link fail: the new directory keeps one link and no name, the parent
\* keeps a link for it.  add_dots tests a variable that nothing has set (iop.err) when
\* it has written ".", and may fail there without a fault.
MkdirFails(d, i) ==
    /\ has_dots /\ kind[i] = "none" /\ clean
    /\ kind' = [kind EXCEPT ![i] = "dir"]
    /\ \E k \in 0 .. 2 :
          /\ Faults \/ k = 1
          /\ slots' = [slots EXCEPT ![i] = SubSeq(Dots(i, d), 1, k)]
    /\ nlink' = [nlink EXCEPT ![i] = 1, ![d] = @ + 1]
    /\ i_nlink' = [i_nlink EXCEPT ![i] = 1, ![d] = nlink[d] + 1]
    /\ clean' = FALSE
    /\ UNCHANGED <<opened, has_dots, sound>>

\* rmdir once the directory counts as empty.
Remove(d, n, i) ==
    /\ slots' = [slots EXCEPT ![d][At(d, n)] = Deleted, ![i] = <<>>]
    /\ nlink' = [nlink EXCEPT ![i] = @ - 1 - Up, ![d] = i_nlink[d] - Up]
    /\ i_nlink' = [i_nlink EXCEPT ![i] = nlink[i] - 1 - Up, ![d] = @ - Up]
    /\ UNCHANGED <<kind, opened, has_dots>>

\* Mutant: the parent keeps the link of "..".
RmdirKeepsLink(d, n) ==
    LET i == Lookup(d, n) IN
    /\ kind[i] = "dir" /\ IsEmpty(slots[i])
    /\ slots' = [slots EXCEPT ![d][At(d, n)] = Deleted, ![i] = <<>>]
    /\ nlink' = [nlink EXCEPT ![i] = @ - 1 - Up, ![d] = i_nlink[d]]
    /\ i_nlink' = [i_nlink EXCEPT ![i] = nlink[i] - 1 - Up]
    /\ UNCHANGED <<kind, opened, has_dots, sound, clean>>

Rmdir(d, n) ==
    LET i == Lookup(d, n) IN
    /\ kind[i] = "dir" /\ IsEmpty(slots[i])
    /\ Remove(d, n, i)
    /\ UNCHANGED <<sound, clean>>

\* A read that fails behind the first block ends DELocate with m_Offset other than 0,
\* which rmdir takes for "empty".
RmdirBlind(d, n) ==
    LET i == Lookup(d, n) IN
    /\ Faults
    /\ kind[i] = "dir" /\ ~IsEmpty(slots[i])
    /\ \A k \in DOMAIN slots[i] : k <= PerBlock => ~InUse(slots[i][k]) \/ IsDot(slots[i][k])
    /\ Remove(d, n, i)
    /\ sound' = FALSE
    /\ UNCHANGED clean

-----------------------------------------------------------------------------
(* rename                                                                   *)

\* Bound: one write of a rename fails, that of the target's entry, of the source's, or
\* of "..".  The first and the last are not noticed.
MovesDots(i) == kind[i] = "dir" /\ has_dots

\* The target gets the inode i: set_link in place of t, or add_link.
Entered(e, m, i, t) ==
    IF t = Free THEN [slots EXCEPT ![e] = AddLink(@, m, i)]
    ELSE [slots EXCEPT ![e][At(e, m)].ino = i]

\* The counts after that; the directory's comes from its C++ inode.
Counted(e, i, t) ==
    LET up == IF MovesDots(i) THEN 1 ELSE 0 IN
    IF t = Free THEN [nlink EXCEPT ![e] = i_nlink[e] + up]
    ELSE [nlink EXCEPT ![e] = i_nlink[e], ![t] = @ - 1 - up]

Conformed(c, S) == [x \in Inodes |-> IF x \in S THEN c[x] ELSE i_nlink[x]]

\* The number of the new parent is written as it is: 0 for the root, which makes the
\* entry a free one.
DotDot(s, i, e) ==
    LET k == CHOOSE k \in DOMAIN s[i] : InUse(s[i][k]) /\ s[i][k].name = ".." IN
    [s EXCEPT ![i][k].ino = IF e = Root THEN Free ELSE e]

\* rename gets as far as its first store.
Renames(d, n, e, m) ==
    LET i == Lookup(d, n) t == Lookup(e, m) IN
    /\ MayRename(d, n, e, m)
    /\ MovesDots(i) => Match(i, "..") # {}
    /\ t # Free /\ kind[i] = "dir" => IsEmpty(slots[t])
    /\ t = Free => HasRoom(e)

\* The source's entry goes, and with it a link of its directory.
Left(s, d, n) == [s EXCEPT ![d][At(d, n)] = Deleted]

LeftCount(c, d, i) == [c EXCEPT ![d] = IF MovesDots(i) THEN @ - 1 ELSE @]

\* Mutant: ".." stays as it is.
RenameKeepsDots(d, n, e, m) ==
    LET i == Lookup(d, n) t == Lookup(e, m) c == Counted(e, i, t) IN
    /\ Renames(d, n, e, m)
    /\ slots' = Left(Entered(e, m, i, t), d, n)
    /\ nlink' = LeftCount(c, d, i)
    /\ i_nlink' = [Conformed(c, {d, e, i, t}) EXCEPT ![d] = nlink'[d]]
    /\ UNCHANGED <<kind, opened, has_dots, sound, clean>>

Rename(d, n, e, m) ==
    LET i == Lookup(d, n) t == Lookup(e, m) c == Counted(e, i, t)
        up == MovesDots(i) /\ d # e
        s == Left(Entered(e, m, i, t), d, n) IN
    /\ Renames(d, n, e, m)
    /\ slots' = IF up THEN DotDot(s, i, e) ELSE s
    /\ nlink' = LeftCount(c, d, i)
    /\ i_nlink' = [Conformed(c, {d, e, i, t}) EXCEPT ![d] = nlink'[d]]
    /\ sound' = (up => e # Root)
    /\ UNCHANGED <<kind, opened, has_dots, clean>>

\* The target's entry or ".." keeps its number, and rename goes on: the file has lost
\* its name, or a moved directory leads to where it was.
RenameLoses(d, n, e, m) ==
    LET i == Lookup(d, n) t == Lookup(e, m) c == Counted(e, i, t)
        up == MovesDots(i) /\ d # e IN
    /\ Faults
    /\ Renames(d, n, e, m)
    /\ \/ t # Free /\ slots' = IF up THEN DotDot(Left(slots, d, n), i, e) ELSE Left(slots, d, n)
       \/ up /\ slots' = Left(Entered(e, m, i, t), d, n)
    /\ nlink' = LeftCount(c, d, i)
    /\ i_nlink' = [Conformed(c, {d, e, i, t}) EXCEPT ![d] = nlink'[d]]
    /\ sound' = FALSE
    /\ UNCHANGED <<kind, opened, has_dots, clean>>

\* The source's entry stays: the file has both names, and one link.
RenameHalf(d, n, e, m) ==
    LET i == Lookup(d, n) t == Lookup(e, m) c == Counted(e, i, t) IN
    /\ Faults
    /\ Renames(d, n, e, m)
    /\ slots' = Entered(e, m, i, t)
    /\ nlink' = c
    /\ i_nlink' = Conformed(c, {d, e, i, t})
    /\ sound' = FALSE
    /\ UNCHANGED <<kind, opened, has_dots, clean>>

-----------------------------------------------------------------------------
(* Use and end of an inode                                                  *)

\* Bound: one file is open at a time.
Open(i) ==
    /\ kind[i] = "file" /\ HasName(i) /\ opened = {}
    /\ opened' = opened \cup {i}
    /\ UNCHANGED <<kind, slots, nlink, i_nlink, has_dots, sound, clean>>

Close(i) ==
    /\ i \in opened
    /\ opened' = opened \ {i}
    /\ UNCHANGED <<kind, slots, nlink, i_nlink, has_dots, sound, clean>>

\* file_read and file_write copy the C++ inode to the kernel's, and with it a count
\* that unlink has lowered in the kernel's only.
ReadWrite(i) ==
    /\ i \in opened
    /\ nlink' = [nlink EXCEPT ![i] = i_nlink[i]]
    /\ sound' = (sound /\ nlink[i] = i_nlink[i])
    /\ UNCHANGED <<kind, slots, i_nlink, opened, has_dots, clean>>

\* write_inode
WriteBack(i) ==
    /\ kind[i] # "none"
    /\ i_nlink' = [i_nlink EXCEPT ![i] = nlink[i]]
    /\ UNCHANGED <<kind, slots, nlink, opened, has_dots, sound, clean>>

\* evict_inode of an inode without links; of one with links it is a write_inode.
Evict(i) ==
    /\ i # Root /\ kind[i] # "none" /\ i \notin opened
    /\ nlink[i] = 0
    /\ kind' = [kind EXCEPT ![i] = "none"]
    /\ slots' = [slots EXCEPT ![i] = <<>>]
    /\ i_nlink' = [i_nlink EXCEPT ![i] = 0]
    /\ UNCHANGED <<nlink, opened, has_dots, sound, clean>>

-----------------------------------------------------------------------------
Enters(d, n) ==
    /\ ~Found(d, n)
    /\ \E i \in Inodes : Create(d, n, i) \/ Link(d, n, i) \/ Mkdir(d, n, i)

Leaves(d, n) ==
    /\ Found(d, n)
    /\ Unlink(d, n) \/ Rmdir(d, n) \/ RmdirBlind(d, n)

Moves(d, n) ==
    /\ Found(d, n)
    /\ \E e \in Inodes : Live(e) /\ \E m \in Names :
          Rename(d, n, e, m) \/ RenameLoses(d, n, e, m) \/ RenameHalf(d, n, e, m)

\* What processes ask of a directory in use; the kernel refuses it of others.
Operation(d) ==
    \/ \E n \in Names : Enters(d, n) \/ Leaves(d, n) \/ Moves(d, n)
    \/ MkdirNoInode(d) \/ \E i \in Inodes : MkdirFails(d, i)

Use(i) == Open(i) \/ Close(i) \/ ReadWrite(i) \/ WriteBack(i) \/ Evict(i)

\* Bound: nothing is followed after a step that ends "sound".
Next ==
    /\ sound
    /\ \E i \in Inodes : (Live(i) /\ Operation(i)) \/ Use(i)

Spec == Init /\ [][Next]_vars
-----------------------------------------------------------------------------
(* Correctness                                                              *)

Slot == [ino : Inodes \cup {Free}, name : Names \cup {".", "..", "(deleted)"}]

\* Type invariant.
TypeOK ==
    /\ kind \in [Inodes -> {"none", "file", "dir"}]
    /\ \A d \in Inodes : \A k \in DOMAIN slots[d] : slots[d][k] \in Slot
    /\ \A d \in Inodes : Len(slots[d]) <= Room + 2
    /\ nlink \in [Inodes -> Nat] /\ i_nlink \in [Inodes -> Nat]
    /\ opened \subseteq Inodes
    /\ has_dots \in BOOLEAN /\ sound \in BOOLEAN /\ clean \in BOOLEAN

\* The entries of the directories in use, "." and ".." among them; those that name i.
Entries == UNION { { <<d, slots[d][k], k>> : k \in DOMAIN slots[d] } : d \in { d \in Inodes : Live(d) } }

Refs(E, i) == Cardinality({ x \in E : x[2].ino = i })

\* An inode has as many links as there are entries that name it, so that it is deleted
\* when the last one goes; the root, without dots, has one more.  This is so after any
\* sequence of operations in which no mkdir fails.
ExactLinks ==
    sound /\ clean =>
        LET E == Entries IN \A i \in Inodes \ {Root} : nlink[i] = Refs(E, i)

\* After failures, too, no inode has fewer links than entries, neither in the kernel's
\* inode nor in the C++ one, which may come back: what has a name is not deleted.
EnoughLinks ==
    sound =>
        LET E == Entries IN
        \A i \in Inodes :
            LET r == Refs(E, i) IN r > 0 => nlink[i] >= r /\ i_nlink[i] >= r

\* The directories are a tree: each has one name, hangs below the root, and its ".."
\* names the directory that has the name, also after it has been moved.
TreeOK ==
    sound =>
        \A i \in Inodes : kind[i] = "dir" /\ HasName(i) =>
            /\ Below(i, Root)
            /\ \E p \in Inodes :
                  /\ ParentOf(p, i)
                  /\ Cardinality({ k \in DOMAIN slots[p] : slots[p][k].ino = i /\ ~IsDot(slots[p][k]) }) = 1
                  /\ \A q \in Inodes \ {p} : ~ParentOf(q, i)
                  /\ has_dots => slots[i][1] = DE(i, ".") /\ slots[i][2] = DE(p, "..")

\* Every step is what the operations promise: each directory maps names to inodes, and
\* no operation touches a name it was not asked to, whichever free entries it reuses.
Promise == INSTANCE Namespace WITH
    None <- Free,
    type <- kind,
    names <- [d \in Inodes |-> [n \in Names |-> Lookup(d, n)]]

KeepsPromise == [][sound' => UNCHANGED Promise!vars \/ Promise!Next]_vars
=============================================================================
