------------------------------ MODULE InodeTable ------------------------------
(***************************************************************************)
(* The numbers of free inodes: the table s_ninode / s_inode[100] with its  *)
(* mutex s_ilock, FileSystem::IAlloc and IFree, and what is around them:   *)
(* the creation of a file up to its directory entry, its eviction from     *)
(* memory, the flush of the SuperBlock (Update) and a clean unmount and    *)
(* mount (put_super, LoadSuperBlock).                                      *)
(*                                                                         *)
(* An inode's number is in one of these places: the table, the hands of a  *)
(* process that creates or deletes a file, the kernel's inode hash, the    *)
(* disk (d_mode # 0).  The kernel's hash is external: ilookup waits for an *)
(* inode that is being set up or evicted, insert_inode_locked refuses a    *)
(* number that is in it.                                                   *)
(*                                                                         *)
(* A step is one access to the table (an increment of s_ninode is one), or *)
(* one look of the scan of IAlloc at an inode.  The scan has the buffer    *)
(* of a block of inodes from the first inode of the block to the last; it  *)
(* keeps others from that buffer if GetBlk found the block in the cache    *)
(* (BufferManager.tla: a buffer taken from the free list is not locked).   *)
(*                                                                         *)
(* Nothing keeps s_ninode within the table when calls overlap: IAlloc pops *)
(* after it has released s_ilock, IFree never takes it.  An access outside *)
(* s_inode is a step of the model (Damage); it ends sound, and nothing is  *)
(* followed after it.                                                      *)
(***************************************************************************)
EXTENDS Integers, FiniteSets

CONSTANTS NInodes,    \* inodes on the volume, numbered from 0, the root
          TableSize,  \* entries of s_inode (100)
          SectorPart, \* entries of s_inode in the first sector of the SuperBlock (24)
          PerBlock,   \* inodes in a block (INODE_NUMBER_PER_SECTOR, 8)
          Procs,      \* processes that create and delete files
          NoProc,     \* "nobody holds the lock"
          Remounts    \* TRUE: the volume may be unmounted and mounted again

ASSUME TableAssumption ==
    /\ NInodes \in Nat /\ TableSize \in Nat \ {0} /\ TableSize < NInodes
    /\ SectorPart \in 0 .. TableSize
    /\ PerBlock \in Nat \ {0}
    /\ NoProc \notin Procs
    /\ Remounts \in BOOLEAN

Inodes  == 0 .. NInodes - 1
Root    == 0
Entries == 0 .. TableSize - 1
BadIno  == -1             \* no number yet

VARIABLES ninode, sinode, fmod,  \* s_ninode, s_inode, s_fmod
          ilock,                 \* s_ilock: its holder
          sector,                \* the first sector of the SuperBlock, on the disk
          rest,                  \* the entries of s_inode in the second sector
          mode,                  \* per inode: d_mode on the disk is not 0
          hash, freeing,         \* inodes in the kernel's hash; those with I_FREEING
          linked,                \* inodes that have a directory entry
          pc, ino,               \* per process: place, "ino"
          at,                    \* per process: the inode on the disk that its scan is at
          kept,                  \* processes whose scan keeps others from its buffer
          orderly,               \* history: no two uses of the table have overlapped,
                                 \* and no mount has brought back an older table
          sound                  \* history: nothing outside s_inode has been accessed

table == <<ninode, sinode, fmod>>
disk  == <<sector, rest>>
cache == <<hash, freeing>>
walk  == <<at, kept>>

\* Everything but sound.
tableVars == <<table, ilock, disk, mode, cache, linked, pc, ino, walk, orderly>>
vars      == <<tableVars, sound>>

-----------------------------------------------------------------------------
\* mkfs: the table is full of the lowest numbers, the lowest on top; the root exists.
Init ==
    /\ ninode = TableSize
    /\ sinode = [i \in Entries |-> TableSize - i]
    /\ fmod = FALSE
    /\ ilock = NoProc
    /\ sector = [n |-> TableSize, part |-> [i \in 0 .. SectorPart - 1 |-> TableSize - i]]
    /\ rest = [i \in SectorPart .. TableSize - 1 |-> TableSize - i]
    /\ mode = [i \in Inodes |-> i = Root]
    /\ hash = {Root}
    /\ freeing = {}
    /\ linked = {Root}
    /\ pc = [p \in Procs |-> "idle"]
    /\ ino = [p \in Procs |-> BadIno]
    /\ at = [p \in Procs |-> Root]
    /\ kept = {}
    /\ orderly = TRUE
    /\ sound = TRUE

Goto(p, l) == pc' = [pc EXCEPT ![p] = l]
Point(p, i) == ino' = [ino EXCEPT ![p] = i]
Leave(p) == Goto(p, "idle") /\ Point(p, BadIno)

\* Between these places a process uses the table, or a number it has taken from it
\* and that no other process can see yet.
TablePcs == {"scan", "scancount", "scantest", "blockend", "ended", "unlock",
             "pop", "read", "check", "insert", "store", "count"}

\* s_ninode >= 100, which the code tests as an unsigned number.
Full == ninode < 0 \/ ninode >= TableSize

\* A process begins to use the table; the history is spoiled if another one does.
Enter(p) == orderly' = (orderly /\ \A q \in Procs \ {p} : pc[q] \notin TablePcs)

\* ilookup and insert_inode_locked wait while the inode is set up or evicted.
Settled(i) == i \notin freeing /\ \A q \in Procs : pc[q] = "made" => ino[q] # i

Block(i) == i \div PerBlock

\* The last inode of a block; the first of the block after that of inode i.
EndOfBlock(i) == i % PerBlock = PerBlock - 1
NextBlock(i)  == i + (PerBlock - (i % PerBlock))

\* No scan keeps a writer of inode i from the buffer of its block.
BufferFree(i) == \A q \in kept : Block(at[q]) # Block(i)

\* Bread of a block of inodes by the scan: the block may be in the cache or not.
ReadBlock(p) == kept' \in {kept \cup {p}, kept \ {p}}

-----------------------------------------------------------------------------
(* FileSystem::IAlloc and secondfs_new_inode                                *)

Create(p) ==
    /\ pc[p] = "idle"
    /\ Goto(p, "lock")
    /\ UNCHANGED <<table, ilock, disk, mode, cache, linked, ino, orderly, walk>>

\* Mutant: s_ilock is taken without waiting for its holder.
LockNoWait(p) ==
    /\ pc[p] = "lock"
    /\ ilock' = p
    /\ Goto(p, IF ninode <= 0 THEN "scan" ELSE "unlock")
    /\ Point(p, Root)
    /\ IF ninode <= 0 THEN ReadBlock(p) ELSE UNCHANGED kept
    /\ at' = [at EXCEPT ![p] = Root]
    /\ Enter(p)
    /\ UNCHANGED <<table, disk, mode, cache, linked>>

Lock(p) ==
    /\ pc[p] = "lock"
    /\ ilock = NoProc
    /\ ilock' = p
    /\ Goto(p, IF ninode <= 0 THEN "scan" ELSE "unlock")
    /\ Point(p, Root)
    /\ IF ninode <= 0 THEN ReadBlock(p) ELSE UNCHANGED kept
    /\ at' = [at EXCEPT ![p] = Root]
    /\ Enter(p)
    /\ UNCHANGED <<table, disk, mode, cache, linked>>

\* The inode the scan is at is free on the disk and not in memory.
SeenFree(p) == ~mode[at[p]] /\ Settled(ino[p]) /\ ino[p] \notin hash
SeenUsed(p) == mode[at[p]] \/ (Settled(ino[p]) /\ ino[p] \in hash)

\* The loop over the inodes of the block goes on, or ends with its last one.
NextInode(p) ==
    IF at[p] = NInodes - 1 \/ EndOfBlock(at[p])
    THEN Goto(p, "blockend") /\ UNCHANGED <<ino, at>>
    ELSE Goto(p, "scan") /\ Point(p, ino[p] + 1) /\ at' = [at EXCEPT ![p] = @ + 1]

\* "continue": the inode has a mode, or is in memory.
ScanUsed(p) ==
    /\ pc[p] = "scan"
    /\ SeenUsed(p)
    /\ NextInode(p)
    /\ UNCHANGED <<table, ilock, disk, mode, cache, linked, orderly, kept>>

\* Mutant: the inodes in memory are not looked up.
ScanStoreOnDisk(p) ==
    /\ pc[p] = "scan"
    /\ ~mode[at[p]]
    /\ ninode \in Entries
    /\ sinode' = [sinode EXCEPT ![ninode] = ino[p]]
    /\ Goto(p, "scancount")
    /\ UNCHANGED <<ninode, fmod, ilock, disk, mode, cache, linked, ino, orderly, walk>>

\* Mutant: the scan counts inodes from 1.
ScanStoreFromOne(p) ==
    /\ pc[p] = "scan"
    /\ SeenFree(p)
    /\ ninode \in Entries
    /\ sinode' = [sinode EXCEPT ![ninode] = ino[p] + 1]
    /\ Goto(p, "scancount")
    /\ UNCHANGED <<ninode, fmod, ilock, disk, mode, cache, linked, ino, orderly, walk>>

\* An inode that is free on the disk and not in memory goes into the table.
ScanStore(p) ==
    /\ pc[p] = "scan"
    /\ SeenFree(p)
    /\ ninode \in Entries
    /\ sinode' = [sinode EXCEPT ![ninode] = ino[p]]
    /\ Goto(p, "scancount")
    /\ UNCHANGED <<ninode, fmod, ilock, disk, mode, cache, linked, ino, orderly, walk>>

ScanCount(p) ==
    /\ pc[p] = "scancount"
    /\ ninode' = ninode + 1
    /\ Goto(p, "scantest")
    /\ UNCHANGED <<sinode, fmod, ilock, disk, mode, cache, linked, ino, orderly, walk>>

\* A full table ends the loop over the block where it is.
ScanTest(p) ==
    /\ pc[p] = "scantest"
    /\ IF Full THEN Goto(p, "blockend") /\ UNCHANGED <<ino, at>> ELSE NextInode(p)
    /\ UNCHANGED <<table, ilock, disk, mode, cache, linked, orderly, kept>>

\* Brelse; the scan ends if the table is full or this was the last block.  If it goes
\* on, ino does not: it has stopped with the loop, and lags behind the disk if another
\* process has popped the table since ScanTest.
BlockEnd(p) ==
    /\ pc[p] = "blockend"
    /\ IF Full \/ NextBlock(at[p]) \notin Inodes
       THEN /\ Goto(p, "ended")
            /\ at' = [at EXCEPT ![p] = Root]
            /\ kept' = kept \ {p}
            /\ UNCHANGED ino
       ELSE /\ Goto(p, "scan")
            /\ at' = [at EXCEPT ![p] = NextBlock(@)]
            /\ ReadBlock(p)
            /\ Point(p, ino[p] + 1)
    /\ UNCHANGED <<table, ilock, disk, mode, cache, linked, orderly>>

\* No inode left: IAlloc returns and keeps s_ilock.
NoneLeft(p) ==
    /\ pc[p] = "ended" /\ ninode = 0
    /\ Leave(p)
    /\ UNCHANGED <<table, ilock, disk, mode, cache, linked, orderly, walk>>

Unlock(p) ==
    /\ pc[p] = "unlock" \/ (pc[p] = "ended" /\ ninode # 0)
    /\ ilock' = NoProc
    /\ Goto(p, "pop")
    /\ UNCHANGED <<table, disk, mode, cache, linked, ino, orderly, walk>>

Pop(p) ==
    /\ pc[p] = "pop"
    /\ ninode' = ninode - 1
    /\ Goto(p, "read")
    /\ UNCHANGED <<sinode, fmod, ilock, disk, mode, cache, linked, ino, orderly, walk>>

Read(p) ==
    /\ pc[p] = "read"
    /\ ninode \in Entries
    /\ Point(p, sinode[ninode])
    /\ Goto(p, "check")
    /\ UNCHANGED <<table, ilock, disk, mode, cache, linked, orderly, walk>>

\* "race condition detected": the number is in memory, the creation fails.
CheckTaken(p) ==
    /\ pc[p] = "check"
    /\ Settled(ino[p]) /\ ino[p] \in hash
    /\ Leave(p)
    /\ UNCHANGED <<table, ilock, disk, mode, cache, linked, orderly, walk>>

CheckFree(p) ==
    /\ pc[p] = "check"
    /\ Settled(ino[p]) /\ ino[p] \notin hash
    /\ Goto(p, "insert")
    /\ UNCHANGED <<table, ilock, disk, mode, cache, linked, ino, orderly, walk>>

\* Mutant: the inode is entered without a look for its number (__insert_inode_hash).
InsertAlways(p) ==
    /\ pc[p] = "insert"
    /\ hash' = hash \cup {ino[p]}
    /\ Goto(p, "made")
    /\ UNCHANGED <<table, ilock, disk, mode, freeing, linked, ino, orderly, walk>>

Insert(p) ==
    /\ pc[p] = "insert"
    /\ Settled(ino[p]) /\ ino[p] \notin hash
    /\ hash' = hash \cup {ino[p]}
    /\ Goto(p, "made")
    /\ UNCHANGED <<table, ilock, disk, mode, freeing, linked, ino, orderly, walk>>

\* insert_inode_locked fails: the bad inode is evicted, which writes it to the disk.
InsertFails(p) ==
    /\ pc[p] = "insert"
    /\ Settled(ino[p]) /\ ino[p] \in hash
    /\ BufferFree(ino[p])
    /\ mode' = [mode EXCEPT ![ino[p]] = TRUE]
    /\ Leave(p)
    /\ UNCHANGED <<table, ilock, disk, cache, linked, orderly, walk>>

\* The directory entry is written; the inode is unlocked.
Link(p) ==
    /\ pc[p] = "made"
    /\ linked' = linked \cup {ino[p]}
    /\ Leave(p)
    /\ UNCHANGED <<table, ilock, disk, mode, cache, orderly, walk>>

\* The directory entry cannot be written: the inode has no name and is evicted.
LinkFails(p) ==
    /\ pc[p] = "made"
    /\ freeing' = freeing \cup {ino[p]}
    /\ Goto(p, "update")
    /\ UNCHANGED <<table, ilock, disk, mode, hash, linked, ino, orderly, walk>>

-----------------------------------------------------------------------------
(* secondfs_evict_inode of an inode without a name, and FileSystem::IFree   *)

Delete(p, i) ==
    /\ pc[p] = "idle"
    /\ i \in (linked \cap hash) \ {Root} /\ Settled(i)
    /\ linked' = linked \ {i}
    /\ freeing' = freeing \cup {i}
    /\ Point(p, i)
    /\ Goto(p, "update")
    /\ UNCHANGED <<table, ilock, disk, mode, hash, orderly, walk>>

\* IUpdate with i_mode = 0; it needs the buffer of the block.
IUpdate(p) ==
    /\ pc[p] = "update"
    /\ BufferFree(ino[p])
    /\ mode' = [mode EXCEPT ![ino[p]] = FALSE]
    /\ Goto(p, "ifree")
    /\ UNCHANGED <<table, ilock, disk, cache, linked, ino, orderly, walk>>

\* The table is locked or full: the number stays out of it.
IFreeSkip(p) ==
    /\ pc[p] = "ifree"
    /\ ilock # NoProc \/ Full
    /\ Goto(p, "unhash")
    /\ UNCHANGED <<table, ilock, disk, mode, cache, linked, ino, orderly, walk>>

IFreeRoom(p) ==
    /\ pc[p] = "ifree"
    /\ ilock = NoProc /\ ~Full
    /\ Enter(p)
    /\ Goto(p, "store")
    /\ UNCHANGED <<table, ilock, disk, mode, cache, linked, ino, walk>>

\* Mutant: the number is stored above the top.
IFreeStoreAbove(p) ==
    /\ pc[p] = "store"
    /\ ninode + 1 \in Entries
    /\ sinode' = [sinode EXCEPT ![ninode + 1] = ino[p]]
    /\ Goto(p, "count")
    /\ UNCHANGED <<ninode, fmod, ilock, disk, mode, cache, linked, ino, orderly, walk>>

IFreeStore(p) ==
    /\ pc[p] = "store"
    /\ ninode \in Entries
    /\ sinode' = [sinode EXCEPT ![ninode] = ino[p]]
    /\ Goto(p, "count")
    /\ UNCHANGED <<ninode, fmod, ilock, disk, mode, cache, linked, ino, orderly, walk>>

IFreeCount(p) ==
    /\ pc[p] = "count"
    /\ ninode' = ninode + 1
    /\ fmod' = TRUE
    /\ Goto(p, "unhash")
    /\ UNCHANGED <<sinode, ilock, disk, mode, cache, linked, ino, orderly, walk>>

\* The kernel takes the evicted inode out of its hash.
Unhash(p) ==
    /\ pc[p] = "unhash"
    /\ hash' = hash \ {ino[p]}
    /\ freeing' = freeing \ {ino[p]}
    /\ Leave(p)
    /\ UNCHANGED <<table, ilock, disk, mode, linked, orderly, walk>>

-----------------------------------------------------------------------------
(* The kernel's own calls, and the SuperBlock                               *)

\* write_inode
WriteBack(i) ==
    /\ i \in hash /\ Settled(i) /\ ~mode[i]
    /\ BufferFree(i)
    /\ mode' = [mode EXCEPT ![i] = TRUE]
    /\ UNCHANGED <<table, ilock, disk, cache, linked, pc, ino, orderly, walk>>

\* evict_inode of an inode that still has a name: it is written, then forgotten.
Forget(i) ==
    /\ i \in (hash \cap linked) \ {Root} /\ Settled(i)
    /\ BufferFree(i)
    /\ mode' = [mode EXCEPT ![i] = TRUE]
    /\ hash' = hash \ {i}
    /\ UNCHANGED <<table, ilock, disk, freeing, linked, pc, ino, orderly, walk>>

\* secondfs_iget, from lookup
IGet(i) ==
    /\ i \in linked \ hash
    /\ hash' = hash \cup {i}
    /\ UNCHANGED <<table, ilock, disk, mode, freeing, linked, pc, ino, orderly, walk>>

\* FileSystem::Alloc and Free mark the SuperBlock, too.
Touch ==
    /\ Remounts /\ ~fmod
    /\ fmod' = TRUE
    /\ UNCHANGED <<ninode, sinode, ilock, disk, mode, cache, linked, pc, ino, orderly, walk>>

Part == [i \in 0 .. SectorPart - 1 |-> sinode[i]]

\* FileSystem::Update: the first of the two sectors is written.
Update ==
    /\ Remounts
    /\ fmod /\ ilock = NoProc
    /\ sector' = [n |-> ninode, part |-> Part]
    /\ fmod' = FALSE
    /\ UNCHANGED <<ninode, sinode, ilock, rest, mode, cache, linked, pc, ino, orderly, walk>>

\* put_super after all inodes have been evicted, then LoadSuperBlock, which refuses a
\* count that is not one of a table.
Remount ==
    /\ Remounts
    /\ \A p \in Procs : pc[p] = "idle"
    /\ LET s == IF fmod /\ ilock = NoProc THEN [n |-> ninode, part |-> Part] ELSE sector
       IN  /\ s.n \in 0 .. TableSize
           /\ sector' = s
           /\ ninode' = s.n
           /\ sinode' = [i \in Entries |-> IF i < SectorPart THEN s.part[i] ELSE rest[i]]
    /\ fmod' = FALSE
    /\ ilock' = NoProc
    /\ mode' = [i \in Inodes |-> mode[i] \/ i \in hash]
    /\ hash' = {Root}
    /\ orderly' = (orderly /\ ninode' = ninode
                            /\ \A i \in Entries : i < ninode => sinode'[i] = sinode[i])
    /\ UNCHANGED <<rest, freeing, linked, pc, ino, walk>>

-----------------------------------------------------------------------------
IAlloc(p) ==
    \/ Create(p) \/ Lock(p) \/ ScanUsed(p) \/ ScanStore(p) \/ ScanCount(p) \/ ScanTest(p)
    \/ BlockEnd(p) \/ NoneLeft(p) \/ Unlock(p)
    \/ Pop(p) \/ Read(p) \/ CheckTaken(p) \/ CheckFree(p)

NewInode(p) == Insert(p) \/ InsertFails(p) \/ Link(p) \/ LinkFails(p)

IFree(p) == IFreeSkip(p) \/ IFreeRoom(p) \/ IFreeStore(p) \/ IFreeCount(p)

Evict(p) == IUpdate(p) \/ IFree(p) \/ Unhash(p) \/ \E i \in Inodes : Delete(p, i)

Kernel == Touch \/ Update \/ Remount \/ \E i \in Inodes : WriteBack(i) \/ Forget(i) \/ IGet(i)

\* The scan or IFree stores outside s_inode, or IAlloc reads there.
Damage(p) ==
    /\ ninode \notin Entries
    /\ pc[p] \in {"read", "store"} \/ (pc[p] = "scan" /\ SeenFree(p))
    /\ sound' = FALSE
    /\ UNCHANGED tableVars

Step == Kernel \/ \E p \in Procs : IAlloc(p) \/ NewInode(p) \/ Evict(p)

Next == sound /\ ((Step /\ UNCHANGED sound) \/ \E p \in Procs : Damage(p))

Spec == Init /\ [][Next]_vars

\* A process in the middle of a call goes on when it can.
Goes(p) == IAlloc(p) \/ NewInode(p) \/ IUpdate(p) \/ IFree(p) \/ Unhash(p)

FairSpec ==
    /\ Spec
    /\ \A p \in Procs : WF_vars(sound /\ pc[p] # "idle" /\ Goes(p) /\ UNCHANGED sound)
-----------------------------------------------------------------------------
(* Correctness                                                              *)

\* Type invariant.
TypeOK ==
    /\ ninode \in Int
    /\ sinode \in [Entries -> Inodes]
    /\ fmod \in BOOLEAN /\ orderly \in BOOLEAN /\ sound \in BOOLEAN
    /\ ilock \in Procs \cup {NoProc}
    /\ sector \in [n : Int, part : [0 .. SectorPart - 1 -> Inodes]]
    /\ rest \in [SectorPart .. TableSize - 1 -> Inodes]
    /\ mode \in [Inodes -> BOOLEAN]
    /\ hash \subseteq Inodes /\ freeing \subseteq hash /\ linked \subseteq Inodes
    /\ pc \in [Procs -> {"idle", "lock", "made", "update", "ifree", "unhash"}
                        \cup TablePcs]
    /\ ino \in [Procs -> Inodes \cup {BadIno}]
    /\ at \in [Procs -> Inodes] /\ kept \subseteq Procs

\* s_ilock keeps the scans of two IAllocs apart, and its holder is recorded.
ScanLocked ==
    \A p \in Procs :
        pc[p] \in {"scan", "scancount", "scantest", "blockend", "ended", "unlock"} => ilock = p

\* Two creations never both succeed with one number, however they overlap: the pop
\* after the unlock (lines 317-330) hands out duplicates, insert_inode_locked and
\* the look into the hash on line 371 stop all but one.
CreatesApart ==
    \A p, q \in Procs : pc[p] = "made" /\ pc[q] = "made" /\ ino[p] = ino[q] => p = q

\* Places at which a creation or an eviction has a number.
HandPcs  == {"check", "insert", "made", "update", "ifree", "store", "count", "unhash"}

InTable(i) == \E k \in Entries : k < ninode /\ sinode[k] = i

\* As long as uses of the table do not overlap, and every mount loads the table that
\* was there, creations and evictions in any other order keep the table one of free
\* numbers: its count stays within s_inode, and so do all accesses; no number is listed
\* twice, and none is listed that a file has on the disk or in memory (an eviction lists
\* its number before the kernel forgets it: ilookup waits for that).
TableOfFree ==
    orderly =>
        /\ sound /\ ninode \in 0 .. TableSize
        /\ \A j, k \in Entries : j < ninode /\ k < ninode /\ sinode[j] = sinode[k] => j = k
        /\ \A i \in Inodes : InTable(i) => ~mode[i] /\ i \notin linked
        /\ \A i \in Inodes : InTable(i) /\ i \in hash => i \in freeing

\* ... and a creation gets a number that no file has, nor another creation: the new
\* inode overwrites nobody's.
NumberIsNew ==
    orderly =>
        \A p \in Procs : pc[p] \in {"check", "insert", "made"} =>
            /\ ino[p] \notin linked
            /\ \A q \in Procs \ {p} :
                  pc[q] \in HandPcs /\ ino[q] = ino[p] => pc[q] = "unhash"

\* The comment on lines 307-308 of FileSystem.cc, "release the lock of the free inode
\* table, wake up the processes that sleep waiting for it", put off to line 317: the
\* scan comes to its end, so that those who wait for s_ilock get it.
ScanEnds == \A p \in Procs : []<>(pc[p] # "scan" \/ ~orderly \/ ~sound)
=============================================================================
