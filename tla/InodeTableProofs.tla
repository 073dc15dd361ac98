--------------------------- MODULE InodeTableProofs ---------------------------
(***************************************************************************)
(* What InodeTable promises without any assumption on how calls overlap:   *)
(* types, the lock of the scan, and that creations never share a number;   *)
(* then what it promises as long as the calls have been orderly: s_ninode  *)
(* stays within the table, all accesses too, and the numbers in it and     *)
(* those that creations take from it are free.                             *)
(***************************************************************************)
EXTENDS InodeTable, TLAPS

\* An inode that has just been created is in the kernel's hash, and not in eviction,
\* until its directory entry is written.
MadeInHash ==
    \A p \in Procs : pc[p] = "made" => ino[p] \in hash /\ ino[p] \notin freeing

\* Places of a process that evicts an inode.
EvictPcs == {"update", "ifree", "store", "count", "unhash"}

\* The inode of an eviction is marked for it (I_FREEING).
EvictFreeing ==
    \A p \in Procs : pc[p] \in EvictPcs => ino[p] \in freeing

\* An inode in eviction has a process that evicts it.
FreeingHeld == \A i \in freeing : \E p \in Procs : pc[p] \in EvictPcs /\ ino[p] = i

\* No two evictions have one number.
EvictsApart ==
    \A p, q \in Procs :
        pc[p] \in EvictPcs /\ pc[q] \in EvictPcs /\ ino[p] = ino[q] => p = q

\* Places inside the loops of the scan.
ScanPcs == {"scan", "scancount", "scantest", "blockend"}

\* A process has a real number in the scan and after it has taken one from the table;
\* the number of the scan is never ahead of the inode it stands at on the disk.
HasNumber ==
    \A p \in Procs :
        /\ pc[p] \in ScanPcs \cup {"check", "insert", "made"} \cup EvictPcs => ino[p] \in Inodes
        /\ pc[p] \in ScanPcs => ino[p] <= at[p]

\* The inductive invariant.
HashInv ==
    /\ TypeOK /\ HasNumber /\ ScanLocked
    /\ MadeInHash /\ EvictFreeing /\ FreeingHeld /\ EvictsApart /\ CreatesApart

-----------------------------------------------------------------------------
\* The invariant holds when the volume has just been made.
LEMMA HashInit == Init => HashInv
<1> SUFFICES ASSUME Init PROVE HashInv
  OBVIOUS
<1> USE TableAssumption DEF Init
<1>1. sinode \in [Entries -> Inodes]
  BY DEF Entries, Inodes
<1>2. sector \in [n : Int, part : [0 .. SectorPart - 1 -> Inodes]]
  <2>1. sector.part \in [0 .. SectorPart - 1 -> Inodes]
    BY DEF Inodes
  <2> QED
    BY <2>1
<1>3. rest \in [SectorPart .. TableSize - 1 -> Inodes]
  BY DEF Inodes
<1>4. /\ ninode \in Int /\ at \in [Procs -> Inodes]
      /\ mode \in [Inodes -> BOOLEAN]
      /\ hash \subseteq Inodes /\ freeing \subseteq hash /\ linked \subseteq Inodes
  BY DEF Inodes, Root
<1>5. TypeOK
  BY <1>1, <1>2, <1>3, <1>4 DEF TypeOK, TablePcs
<1> QED
  BY <1>5
     DEF HashInv, HasNumber, ScanPcs, ScanLocked, MadeInHash, EvictFreeing, FreeingHeld, EvictsApart,
              CreatesApart, EvictPcs

\* The first inode of the next block comes after every inode of this one, right after
\* its last.
LEMMA NextBlockAfter ==
    ASSUME NEW i \in Inodes
    PROVE  /\ NextBlock(i) \in Int /\ NextBlock(i) > i
           /\ EndOfBlock(i) => NextBlock(i) = i + 1
<1>1. i \in Nat /\ PerBlock \in Nat \ {0}
  BY TableAssumption DEF Inodes
<1>2. i % PerBlock \in 0 .. PerBlock - 1
  BY <1>1
<1> QED
  BY <1>1, <1>2 DEF NextBlock, EndOfBlock

\* A step of the scan that leaves it at a number not ahead of its place keeps the
\* invariant, whatever it has done to the table.
LEMMA ScanKeeps ==
    ASSUME HashInv, NEW p \in Procs, pc[p] \in ScanPcs,
           NEW l \in ScanPcs \cup {"ended"}, pc' = [pc EXCEPT ![p] = l],
           NEW n \in Inodes, ino' = [ino EXCEPT ![p] = n],
           NEW a \in Inodes, at' = [at EXCEPT ![p] = a],
           l \in ScanPcs => n <= a,
           ninode' \in Int, sinode' \in [Entries -> Inodes], kept' \subseteq Procs,
           UNCHANGED <<fmod, ilock, disk, mode, cache, linked, orderly, sound>>
    PROVE  HashInv'
<1> USE TableAssumption
        DEF HashInv, TypeOK, HasNumber, ScanPcs, ScanLocked, EvictPcs, TablePcs, disk, cache
<1>1. TypeOK'
  OBVIOUS
<1>2. HasNumber' /\ ScanLocked'
  OBVIOUS
<1>3. \A q \in Procs : /\ pc[q] = "made" <=> pc'[q] = "made"
                       /\ pc[q] \in EvictPcs <=> pc'[q] \in EvictPcs
                       /\ pc'[q] \in EvictPcs \cup {"made"} => ino'[q] = ino[q]
  OBVIOUS
<1>4. freeing' = freeing /\ hash' = hash
  OBVIOUS
<1> HIDE DEF TypeOK, HasNumber, ScanPcs, ScanLocked, EvictPcs, TablePcs
<1>5. MadeInHash' /\ EvictFreeing'
  BY <1>3, <1>4 DEF MadeInHash, EvictFreeing
<1>6. FreeingHeld'
  BY <1>3, <1>4 DEF FreeingHeld
<1>7. EvictsApart' /\ CreatesApart'
  BY <1>3 DEF EvictsApart, CreatesApart
<1> QED
  BY <1>1, <1>2, <1>5, <1>6, <1>7

\* The loop over the inodes of a block, for ScanUsed and ScanTest.
LEMMA NextInodeKeeps ==
    ASSUME HashInv, NEW p \in Procs, pc[p] \in {"scan", "scantest"}, NextInode(p),
           UNCHANGED <<table, kept, ilock, disk, mode, cache, linked, orderly, sound>>
    PROVE  HashInv'
<1>1. /\ pc[p] \in ScanPcs /\ ino[p] \in Inodes /\ at[p] \in Inodes /\ ino[p] <= at[p]
      /\ ninode' \in Int /\ sinode' \in [Entries -> Inodes] /\ kept' \subseteq Procs
      /\ ino = [ino EXCEPT ![p] = ino[p]] /\ at = [at EXCEPT ![p] = at[p]]
      /\ UNCHANGED <<fmod, ilock, disk, mode, cache, linked, orderly, sound>>
  BY DEF HashInv, TypeOK, HasNumber, ScanPcs, table
<1>2. CASE at[p] = NInodes - 1 \/ EndOfBlock(at[p])
  <2>1. pc' = [pc EXCEPT ![p] = "blockend"] /\ ino' = ino /\ at' = at
    BY <1>2 DEF NextInode, Goto
  <2>2. "blockend" \in ScanPcs
    BY DEF ScanPcs
  <2> QED
    BY <1>1, <2>1, <2>2, ScanKeeps
<1>3. CASE ~(at[p] = NInodes - 1 \/ EndOfBlock(at[p]))
  <2>1. /\ pc' = [pc EXCEPT ![p] = "scan"] /\ ino' = [ino EXCEPT ![p] = ino[p] + 1]
        /\ at' = [at EXCEPT ![p] = at[p] + 1]
    BY <1>3 DEF NextInode, Goto, Point
  <2>2. "scan" \in ScanPcs
    BY DEF ScanPcs
  <2>3. at[p] + 1 \in Inodes /\ ino[p] + 1 \in Inodes /\ ino[p] + 1 <= at[p] + 1
    BY <1>1, <1>3, TableAssumption DEF Inodes
  <2> QED
    BY <1>1, <2>1, <2>2, <2>3, ScanKeeps
<1> QED
  BY <1>2, <1>3

\* No step of any process or of the kernel breaks it.
LEMMA HashStep == HashInv /\ [Next]_vars => HashInv'
<1> SUFFICES ASSUME HashInv, [Next]_vars PROVE HashInv'
  OBVIOUS
<1> USE TableAssumption
        DEF HashInv, TypeOK, HasNumber, ScanPcs, ScanLocked, MadeInHash, EvictFreeing,
            FreeingHeld, EvictsApart, CreatesApart, EvictPcs, TablePcs, table, disk, cache, walk
<1>1. ASSUME NEW p \in Procs, Create(p), sound' = sound PROVE HashInv'
  BY <1>1 DEF Create, Goto, BadIno
<1>2. ASSUME NEW p \in Procs, Lock(p), sound' = sound PROVE HashInv'
  <2> DEFINE l == IF ninode <= 0 THEN "scan" ELSE "unlock"
  <2>1. /\ pc[p] = "lock" /\ pc' = [pc EXCEPT ![p] = l] /\ ino' = [ino EXCEPT ![p] = Root]
        /\ at' = [at EXCEPT ![p] = Root] /\ ilock = NoProc /\ ilock' = p
        /\ UNCHANGED <<table, disk, mode, cache, linked, sound>>
    BY <1>2 DEF Lock, Goto, Point
  <2>2. l \in {"scan", "unlock"}
    OBVIOUS
  <2>3. Root \in Inodes /\ Root <= Root
    BY DEF Root, Inodes
  <2>4. orderly' \in BOOLEAN /\ kept' \subseteq Procs
    BY <1>2 DEF Lock, Enter, ReadBlock
  <2> HIDE DEF l
  <2>5. TypeOK'
    BY <2>1, <2>2, <2>3, <2>4
  <2>6. HasNumber' /\ ScanLocked'
    BY <2>1, <2>2, <2>3
  <2>7. \A q \in Procs : /\ pc[q] = "made" <=> pc'[q] = "made"
                         /\ pc[q] \in EvictPcs <=> pc'[q] \in EvictPcs
                         /\ pc'[q] \in EvictPcs \cup {"made"} => ino'[q] = ino[q]
    BY <2>1, <2>2
  <2>8. freeing' = freeing /\ hash' = hash
    BY <2>1
  <2>9. MadeInHash' /\ EvictFreeing'
    BY <2>7, <2>8
  <2>10. EvictsApart' /\ CreatesApart'
    BY <2>7
  <2>11. FreeingHeld'
    <3>1. FreeingHeld
      OBVIOUS
    <3> HIDE DEF HashInv, EvictPcs
    <3> QED
      BY <2>7, <2>8, <3>1
  <2> HIDE DEF TypeOK, HasNumber, ScanLocked, MadeInHash, EvictFreeing, FreeingHeld,
               EvictsApart, CreatesApart
  <2> QED
    BY <2>5, <2>6, <2>9, <2>10, <2>11
<1>3. ASSUME NEW p \in Procs, ScanUsed(p) \/ ScanTest(p), sound' = sound PROVE HashInv'
  <2> HIDE DEF HashInv
  <2>1. CASE pc[p] = "scantest" /\ Full /\ ScanTest(p)
    <3>1. /\ pc' = [pc EXCEPT ![p] = "blockend"] /\ ino' = ino /\ at' = at
          /\ UNCHANGED <<table, kept, ilock, disk, mode, cache, linked, orderly, sound>>
      BY <1>3, <2>1 DEF ScanTest, Goto
    <3>2. /\ pc[p] \in ScanPcs /\ ino[p] \in Inodes /\ at[p] \in Inodes /\ ino[p] <= at[p]
          /\ ninode' \in Int /\ sinode' \in [Entries -> Inodes] /\ kept' \subseteq Procs
          /\ ino' = [ino EXCEPT ![p] = ino[p]] /\ at' = [at EXCEPT ![p] = at[p]]
          /\ UNCHANGED <<fmod, ilock, disk, mode, cache, linked, orderly, sound>>
      BY <2>1, <3>1 DEF HashInv
    <3>3. "blockend" \in ScanPcs
      OBVIOUS
    <3> QED
      BY <3>1, <3>2, <3>3, ScanKeeps
  <2>2. CASE /\ pc[p] \in {"scan", "scantest"} /\ NextInode(p)
             /\ UNCHANGED <<table, kept, ilock, disk, mode, cache, linked, orderly, sound>>
    BY <2>2, NextInodeKeeps
  <2> QED
    BY <1>3, <2>1, <2>2 DEF ScanUsed, ScanTest
<1>4. ASSUME NEW p \in Procs, ScanStore(p) \/ ScanCount(p), sound' = sound PROVE HashInv'
  <2>1. /\ pc[p] \in {"scan", "scancount"}
        /\ \E l \in {"scancount", "scantest"} : pc' = [pc EXCEPT ![p] = l]
        /\ UNCHANGED <<fmod, ilock, disk, mode, cache, linked, orderly, sound, ino, at, kept>>
    BY <1>4 DEF ScanStore, ScanCount, Goto
  <2>2. PICK l \in {"scancount", "scantest"} : pc' = [pc EXCEPT ![p] = l]
    BY <2>1
  <2>3. ino[p] \in Inodes /\ at[p] \in Inodes /\ ino[p] <= at[p] /\ pc[p] \in ScanPcs
    BY <2>1
  <2>4. ninode' \in Int /\ sinode' \in [Entries -> Inodes] /\ kept' \subseteq Procs
    BY <1>4, <2>1, <2>3 DEF ScanStore, ScanCount
  <2>5. ino' = [ino EXCEPT ![p] = ino[p]] /\ at' = [at EXCEPT ![p] = at[p]]
    BY <2>1
  <2>6. l \in ScanPcs \cup {"ended"}
    OBVIOUS
  <2>7. UNCHANGED <<fmod, ilock, disk, mode, cache, linked, orderly, sound>>
    BY <2>1
  <2> HIDE DEF HashInv
  <2> QED
    BY <2>2, <2>3, <2>4, <2>5, <2>6, <2>7, ScanKeeps
<1>30. ASSUME NEW p \in Procs, BlockEnd(p), sound' = sound PROVE HashInv'
  <2>1. /\ pc[p] = "blockend" /\ pc[p] \in ScanPcs
        /\ UNCHANGED <<table, ilock, disk, mode, cache, linked, orderly, sound>>
        /\ ino[p] \in Inodes /\ at[p] \in Inodes /\ ino[p] <= at[p]
    BY <1>30 DEF BlockEnd
  <2>2. /\ ninode' \in Int /\ sinode' \in [Entries -> Inodes] /\ kept' \subseteq Procs
        /\ UNCHANGED <<fmod, ilock, disk, mode, cache, linked, orderly, sound>>
    BY <1>30, <2>1 DEF BlockEnd, ReadBlock
  <2>3. CASE Full \/ NextBlock(at[p]) \notin Inodes
    <3>1. /\ pc' = [pc EXCEPT ![p] = "ended"] /\ ino' = [ino EXCEPT ![p] = ino[p]]
          /\ at' = [at EXCEPT ![p] = Root]
      BY <1>30, <2>3 DEF BlockEnd, Goto
    <3>2. Root \in Inodes /\ "ended" \in ScanPcs \cup {"ended"} /\ "ended" \notin ScanPcs
      BY DEF Root, Inodes
    <3> HIDE DEF HashInv
    <3> QED
      BY <2>1, <2>2, <3>1, <3>2, ScanKeeps
  <2>4. CASE ~(Full \/ NextBlock(at[p]) \notin Inodes)
    <3>1. /\ pc' = [pc EXCEPT ![p] = "scan"] /\ ino' = [ino EXCEPT ![p] = ino[p] + 1]
          /\ at' = [at EXCEPT ![p] = NextBlock(at[p])]
      BY <1>30, <2>4 DEF BlockEnd, Goto, Point
    <3>2. NextBlock(at[p]) \in Inodes /\ NextBlock(at[p]) > at[p]
      BY <2>1, <2>4, NextBlockAfter
    <3>3. ino[p] + 1 \in Inodes /\ ino[p] + 1 <= NextBlock(at[p])
      <4> HIDE DEF HashInv
      <4> QED
        BY <2>1, <3>2 DEF Inodes
    <3>4. "scan" \in ScanPcs
      OBVIOUS
    <3> HIDE DEF HashInv
    <3> QED
      BY <2>1, <2>2, <3>1, <3>2, <3>3, <3>4, ScanKeeps
  <2> QED
    BY <2>3, <2>4
<1>5. ASSUME NEW p \in Procs, NoneLeft(p), sound' = sound PROVE HashInv'
  BY <1>5 DEF NoneLeft, Goto, Point, Leave, BadIno
<1>6. ASSUME NEW p \in Procs, Unlock(p), sound' = sound PROVE HashInv'
  BY <1>6 DEF Unlock, Goto, BadIno
<1>7. ASSUME NEW p \in Procs, Pop(p), sound' = sound PROVE HashInv'
  BY <1>7 DEF Pop, Goto, BadIno
<1>8. ASSUME NEW p \in Procs, Read(p), sound' = sound PROVE HashInv'
  BY <1>8 DEF Read, Goto, Point, Entries, BadIno
<1>9. ASSUME NEW p \in Procs, CheckTaken(p), sound' = sound PROVE HashInv'
  BY <1>9 DEF CheckTaken, Goto, Point, Leave, BadIno
<1>10. ASSUME NEW p \in Procs, CheckFree(p), sound' = sound PROVE HashInv'
  BY <1>10 DEF CheckFree, Goto, BadIno
<1>11. ASSUME NEW p \in Procs, Insert(p), sound' = sound PROVE HashInv'
  BY <1>11 DEF Insert, Goto, Settled, BadIno
<1>12. ASSUME NEW p \in Procs, InsertFails(p), sound' = sound PROVE HashInv'
  BY <1>12 DEF InsertFails, Goto, Point, Leave, BadIno
<1>13. ASSUME NEW p \in Procs, Link(p), sound' = sound PROVE HashInv'
  BY <1>13 DEF Link, Goto, Point, Leave, BadIno
<1>14. ASSUME NEW p \in Procs, LinkFails(p), sound' = sound PROVE HashInv'
  BY <1>14 DEF LinkFails, Goto, BadIno
<1>15. ASSUME NEW p \in Procs, IUpdate(p), sound' = sound PROVE HashInv'
  BY <1>15 DEF IUpdate, Goto, BadIno
<1>16. ASSUME NEW p \in Procs, IFreeSkip(p), sound' = sound PROVE HashInv'
  BY <1>16 DEF IFreeSkip, Goto, BadIno
<1>17. ASSUME NEW p \in Procs, IFreeRoom(p), sound' = sound PROVE HashInv'
  BY <1>17 DEF IFreeRoom, Goto, Enter, BadIno
<1>18. ASSUME NEW p \in Procs, IFreeStore(p), sound' = sound PROVE HashInv'
  BY <1>18 DEF IFreeStore, Goto, Entries, BadIno
<1>19. ASSUME NEW p \in Procs, IFreeCount(p), sound' = sound PROVE HashInv'
  BY <1>19 DEF IFreeCount, Goto, BadIno
<1>20. ASSUME NEW p \in Procs, Unhash(p), sound' = sound PROVE HashInv'
  BY <1>20 DEF Unhash, Goto, Point, Leave, BadIno
<1>21. ASSUME NEW p \in Procs, NEW i \in Inodes, Delete(p, i), sound' = sound PROVE HashInv'
  BY <1>21 DEF Delete, Goto, Point, Settled
<1>22. ASSUME NEW i \in Inodes, WriteBack(i), sound' = sound PROVE HashInv'
  BY <1>22 DEF WriteBack
<1>23. ASSUME NEW i \in Inodes, Forget(i), sound' = sound PROVE HashInv'
  BY <1>23 DEF Forget, Settled, Root
<1>24. ASSUME NEW i \in Inodes, IGet(i), sound' = sound PROVE HashInv'
  BY <1>24 DEF IGet
<1>25. ASSUME Touch, sound' = sound PROVE HashInv'
  BY <1>25 DEF Touch
<1>26. ASSUME Update, sound' = sound PROVE HashInv'
  <2>1. Part \in [0 .. SectorPart - 1 -> Inodes]
    BY DEF Part, Entries
  <2>2. sector' \in [n : Int, part : [0 .. SectorPart - 1 -> Inodes]]
    BY <1>26, <2>1 DEF Update
  <2>3. UNCHANGED <<ninode, sinode, ilock, rest, mode, hash, freeing, linked, pc, ino, at, kept,
                    orderly, sound>> /\ fmod' = FALSE
    BY <1>26 DEF Update
  <2>4. TypeOK'
    BY <2>2, <2>3
  <2>5. /\ HasNumber' /\ ScanLocked' /\ MadeInHash' /\ EvictFreeing' /\ FreeingHeld'
        /\ EvictsApart' /\ CreatesApart'
    BY <2>3
  <2> QED
    BY <2>4, <2>5
<1>27. ASSUME Remount, sound' = sound PROVE HashInv'
  <2> DEFINE s == IF fmod /\ ilock = NoProc THEN [n |-> ninode, part |-> Part] ELSE sector
  <2>1. Part \in [0 .. SectorPart - 1 -> Inodes]
    BY DEF Part, Entries
  <2>2. s \in [n : Int, part : [0 .. SectorPart - 1 -> Inodes]]
    BY <2>1
  <2>3. /\ sector' = s /\ ninode' = s.n
        /\ sinode' = [i \in Entries |-> IF i < SectorPart THEN s.part[i] ELSE rest[i]]
    BY <1>27 DEF Remount
  <2> HIDE DEF s
  <2>4. sinode' \in [Entries -> Inodes]
    BY <2>2, <2>3 DEF Entries
  <2>5. ninode' \in Int
    BY <2>2, <2>3
  <2>6. UNCHANGED <<rest, freeing, linked, pc, ino, at, kept, sound>> /\ \A p \in Procs : pc[p] = "idle"
    BY <1>27 DEF Remount
  <2>7. mode' \in [Inodes -> BOOLEAN]
    BY <1>27, Zenon DEF Remount
  <2>8. hash' = {Root} /\ Root \in Inodes /\ ilock' = NoProc /\ fmod' = FALSE
    BY <1>27 DEF Remount, Root, Inodes
  <2>9. orderly' \in BOOLEAN
    BY <1>27, Zenon DEF Remount
  <2>10. freeing = {}
    BY <2>6
  <2>11. TypeOK'
    BY <2>2, <2>3, <2>4, <2>5, <2>6, <2>7, <2>8, <2>9, <2>10
  <2> QED
    BY <2>6, <2>10, <2>11
<1>28. CASE UNCHANGED tableVars /\ sound' \in BOOLEAN
  BY <1>28 DEF tableVars
<1>31. CASE UNCHANGED vars
  <2> HIDE DEF HashInv
  <2>1. sound \in BOOLEAN
    BY DEF HashInv
  <2> QED
    BY <1>28, <1>31, <2>1 DEF vars
<1>32. ASSUME NEW p \in Procs, Damage(p) PROVE HashInv'
  <2> HIDE DEF HashInv
  <2> QED
    BY <1>28, <1>32 DEF Damage
<1>33. CASE Step /\ UNCHANGED sound
  <2> HIDE DEF HashInv
  <2>1. CASE \E p \in Procs : IAlloc(p)
    BY <1>1, <1>2, <1>3, <1>4, <1>5, <1>6, <1>7, <1>8, <1>9, <1>10, <1>30, <1>33, <2>1
       DEF IAlloc
  <2>2. CASE \E p \in Procs : NewInode(p) \/ Evict(p)
    BY <1>11, <1>12, <1>13, <1>14, <1>15, <1>16, <1>17, <1>18, <1>19, <1>20, <1>21, <1>33, <2>2
       DEF NewInode, Evict, IFree
  <2>3. CASE Kernel
    BY <1>22, <1>23, <1>24, <1>25, <1>26, <1>27, <1>33, <2>3 DEF Kernel
  <2> QED
    BY <1>33, <2>1, <2>2, <2>3 DEF Step
<1> QED
  <2> HIDE DEF HashInv
  <2> QED
    BY <1>31, <1>32, <1>33 DEF Next

-----------------------------------------------------------------------------
\* Whatever the order of creations, evictions, flushes and mounts, the invariant holds.
THEOREM HashCorrect == Spec => []HashInv
<1>1. Init => HashInv
  BY HashInit
<1>2. HashInv /\ [Next]_vars => HashInv'
  BY HashStep
<1> QED
  BY <1>1, <1>2, PTL DEF Spec

\* However calls overlap, the entries of s_inode, on the disk and in memory, and the
\* numbers that processes hold are numbers of inodes, places stay in their ranges, and
\* an inode in eviction is in the kernel's hash.  Of s_ninode this says only that it is
\* an integer: calls that overlap take it out of the table.
THEOREM InodeTypeCorrect == Spec => []TypeOK
<1>1. HashInv => TypeOK
  BY DEF HashInv
<1> QED
  BY <1>1, HashCorrect, PTL

\* The scan of IAlloc, from its start to the release of s_ilock or the return that
\* forgets it, has the lock for itself.
THEOREM ScanLockedCorrect == Spec => []ScanLocked
<1>1. HashInv => ScanLocked
  BY DEF HashInv
<1> QED
  BY <1>1, HashCorrect, PTL

\* Two creations never both succeed with one number, for any number of inodes and
\* processes, although IAlloc pops the table without its lock: insert_inode_locked
\* refuses a number that is in the hash, and no eviction takes a new inode away.
THEOREM CreatesApartCorrect == Spec => []CreatesApart
<1>1. HashInv => CreatesApart
  BY DEF HashInv
<1> QED
  BY <1>1, HashCorrect, PTL

-----------------------------------------------------------------------------
(* What is added when uses of the table do not overlap (orderly)            *)

\* A process uses the table alone.
Solo == \A p, q \in Procs : pc[p] \in TablePcs /\ pc[q] \in TablePcs => p = q

\* The entries that are listed, the one that a creation has taken off and not read, and
\* the one that the scan has stored and not counted.
Shown(k) == k < ninode \/ (k = ninode /\ \E p \in Procs : pc[p] \in {"read", "scancount"})

\* What a process in the middle of a use of the table knows of it.
KnowsTable ==
    \A p \in Procs :
        /\ pc[p] \in {"unlock", "pop"} => ninode >= 1
        /\ pc[p] \in {"scan", "scancount", "store", "read", "count"} => ninode \in Entries
        /\ pc[p] \in {"scancount", "count"} => sinode[ninode] = ino[p]

\* The scan is at the inode whose number it has, at the end of a block unless the table
\* is full, and has listed smaller numbers only.
KnowsScan ==
    \A p \in Procs :
        /\ pc[p] \in ScanPcs => at[p] = ino[p]
        /\ pc[p] = "blockend" => Full \/ at[p] = NInodes - 1 \/ EndOfBlock(at[p])
        /\ pc[p] \in {"scan", "scancount"} => \A k \in Entries : k < ninode => sinode[k] < ino[p]
        /\ pc[p] \in {"scantest", "blockend"} =>
              \A k \in Entries : k < ninode => sinode[k] < ino[p] + 1

\* No number is shown twice.
ShownOnce ==
    \A j, k \in Entries : Shown(j) /\ Shown(k) /\ sinode[j] = sinode[k] => j = k

\* What is shown is free on the disk, has no name, and is in memory only on its way out.
ShownFree ==
    \A k \in Entries : Shown(k) =>
        /\ ~mode[sinode[k]] /\ sinode[k] \notin linked
        /\ sinode[k] \in hash => sinode[k] \in freeing

\* What is in the hands of a process is not shown until an eviction has counted it.
ShownNotInHand ==
    \A p \in Procs : pc[p] \in HandPcs \ {"made", "unhash"} =>
        \A k \in Entries : Shown(k) => sinode[k] # ino[p]

\* A number on its way to a new file has no name, and nobody else has it but an
\* eviction that has only to forget it.
NewInHand ==
    \A p \in Procs : pc[p] \in {"check", "insert", "made"} =>
        /\ ino[p] \notin linked
        /\ \A q \in Procs \ {p} :
              pc[q] \in HandPcs /\ ino[q] = ino[p] => pc[q] = "unhash"

\* An evicted inode has no name, and is free on the disk once it has been written.
EvictedFree ==
    \A p \in Procs :
        /\ pc[p] \in EvictPcs => ino[p] \notin linked
        /\ pc[p] \in {"ifree", "store", "count"} => ~mode[ino[p]]

\* A file is on the disk or in memory.
LinkedKept == \A i \in linked : mode[i] \/ i \in hash

OrderInv ==
    /\ ninode \in 0 .. TableSize
    /\ Solo /\ KnowsTable /\ KnowsScan /\ ShownOnce /\ ShownFree /\ ShownNotInHand
    /\ NewInHand /\ EvictedFree /\ LinkedKept

NumbersInv ==
    /\ HashInv
    /\ Root \in linked
    /\ orderly => sound /\ OrderInv

LEMMA NumbersInit == Init => NumbersInv
<1> SUFFICES ASSUME Init PROVE NumbersInv
  OBVIOUS
<1> USE TableAssumption DEF Init
<1>1. HashInv
  BY HashInit
<1>2. Root \in linked
  OBVIOUS
<1>3. \A k \in Entries : sinode[k] = TableSize - k /\ sinode[k] # Root /\ sinode[k] \in Inodes
  BY DEF Entries, Inodes, Root
<1>4. ShownOnce
  BY <1>3 DEF ShownOnce, Entries
<1>5. ShownFree
  BY <1>3 DEF ShownFree
<1>6. LinkedKept
  BY DEF LinkedKept
<1>7. /\ Solo /\ KnowsTable /\ KnowsScan /\ ShownNotInHand /\ NewInHand /\ EvictedFree
      /\ sound /\ ninode \in 0 .. TableSize
  BY DEF Solo, KnowsTable, KnowsScan, ShownNotInHand, NewInHand, EvictedFree, TablePcs,
         HandPcs, ScanPcs, EvictPcs
<1> QED
  BY <1>1, <1>2, <1>4, <1>5, <1>6, <1>7 DEF NumbersInv, OrderInv

LEMMA OrderStep ==
    ASSUME HashInv, Root \in linked, OrderInv, orderly, orderly', Step \/ UNCHANGED tableVars
    PROVE  OrderInv'
<1> USE TableAssumption
<1>0. /\ ninode \in 0 .. TableSize /\ ninode \in Int /\ sinode \in [Entries -> Inodes]
      /\ mode \in [Inodes -> BOOLEAN] /\ freeing \subseteq hash
      /\ pc \in [Procs -> {"idle", "lock", "made", "update", "ifree", "unhash"}
                        \cup TablePcs]
      /\ ino \in [Procs -> Inodes \cup {BadIno}] /\ at \in [Procs -> Inodes]
      /\ MadeInHash /\ EvictFreeing /\ EvictsApart /\ HasNumber
  BY DEF HashInv, TypeOK, OrderInv
<1>int. /\ Entries \subseteq Int /\ Inodes \subseteq Int /\ \A k \in Entries : sinode[k] \in Int
        /\ ~Full <=> ninode \in Entries
  BY <1>0 DEF Entries, Inodes, Full
<1> USE DEF OrderInv, Solo, KnowsTable, KnowsScan, ShownOnce, ShownFree, ShownNotInHand,
            NewInHand, EvictedFree, LinkedKept, Shown, MadeInHash, EvictFreeing, EvictsApart,
            EvictPcs, ScanPcs, TablePcs, HandPcs, HasNumber, table, disk, cache, walk, Full,
            EndOfBlock
<1>1. ASSUME NEW p \in Procs, Create(p) PROVE OrderInv'
  BY <1>0, <1>1 DEF Create, Goto
<1>2. ASSUME NEW p \in Procs, Lock(p) PROVE OrderInv'
  <2>1. /\ pc[p] = "lock" /\ ino' = [ino EXCEPT ![p] = Root] /\ at' = [at EXCEPT ![p] = Root]
        /\ UNCHANGED <<ninode, sinode, mode, hash, freeing, linked>>
        /\ \A q \in Procs \ {p} : pc[q] \notin TablePcs
    BY <1>2 DEF Lock, Point, Enter
  <2>2. CASE ninode <= 0 /\ pc' = [pc EXCEPT ![p] = "scan"]
    <3>1. \A k \in Entries : ~(k < ninode)
      BY <1>0, <2>2 DEF Entries
    <3>2. ninode \in Entries
      BY <1>0, <2>2 DEF Entries
    <3> QED
      BY <1>0, <2>1, <2>2, <3>1, <3>2
  <2>3. CASE ninode >= 1 /\ pc' = [pc EXCEPT ![p] = "unlock"]
    BY <1>0, <2>1, <2>3
  <2> QED
    <3> HIDE DEF OrderInv
    <3>1. (ninode <= 0 /\ ninode <= 0) \/ (ninode >= 1 /\ ~(ninode <= 0))
      BY <1>0
    <3>2. pc' = [pc EXCEPT ![p] = IF ninode <= 0 THEN "scan" ELSE "unlock"]
      BY <1>2 DEF Lock, Goto
    <3> QED
      BY <2>2, <2>3, <3>1, <3>2
<1>29. ASSUME NEW p \in Procs, pc[p] \in {"scan", "scantest", "blockend"},
              NEW l \in {"scan", "blockend", "ended"}, pc' = [pc EXCEPT ![p] = l],
              NEW n \in Inodes, ino' = [ino EXCEPT ![p] = n],
              NEW a \in Inodes, at' = [at EXCEPT ![p] = a],
              l = "scan" => ninode \in Entries,
              l # "ended" => a = n,
              l = "blockend" => Full \/ a = NInodes - 1 \/ EndOfBlock(a),
              l = "scan" => \A k \in Entries : k < ninode => sinode[k] < n,
              l = "blockend" => \A k \in Entries : k < ninode => sinode[k] < n + 1,
              UNCHANGED <<ninode, sinode, mode, hash, freeing, linked>>
       PROVE  OrderInv'
  <2> USE <1>29
  <2>1. \A q \in Procs \ {p} : pc[q] \notin TablePcs /\ pc'[q] = pc[q] /\ ino'[q] = ino[q]
    BY <1>0
  <2>2. pc'[p] = l /\ ino'[p] = n /\ at'[p] = a
    BY <1>0
  <2>3. \A k \in Entries : Shown(k)' <=> Shown(k)
    BY <2>1, <2>2
  <2>4. KnowsTable'
    BY <2>1, <2>2
  <2>5. KnowsScan'
    BY <2>1, <2>2
  <2>6. Solo'
    BY <2>1, <2>2
  <2> HIDE DEF Shown
  <2>7. ShownOnce' /\ ShownFree'
    BY <2>3
  <2>8. ShownNotInHand'
    BY <2>1, <2>2, <2>3
  <2>9. NewInHand' /\ EvictedFree'
    BY <2>1, <2>2
  <2>10. LinkedKept' /\ ninode' \in 0 .. TableSize
    BY <1>0
  <2> HIDE DEF KnowsTable, KnowsScan, Solo, ShownOnce, ShownFree, ShownNotInHand, NewInHand,
               EvictedFree, LinkedKept
  <2> QED
    BY <2>4, <2>5, <2>6, <2>7, <2>8, <2>9, <2>10
<1>30. ASSUME NEW p \in Procs, pc[p] \in {"scan", "scantest"}, ninode \in Entries,
              NextInode(p), UNCHANGED <<ninode, sinode, mode, hash, freeing, linked>>
       PROVE  OrderInv'
  <2>1. /\ ino[p] \in Inodes /\ at[p] = ino[p] /\ ino[p] \in Int
        /\ \A k \in Entries : k < ninode => sinode[k] < ino[p] + 1
    <3>1. ino[p] \in Inodes /\ at[p] = ino[p]
      BY <1>0, <1>30
    <3>2. \A k \in Entries : k < ninode => sinode[k] < ino[p] \/ sinode[k] < ino[p] + 1
      BY <1>30
    <3>3. ino[p] \in Int /\ \A k \in Entries : sinode[k] \in Int
      BY <1>int, <3>1
    <3> HIDE DEF OrderInv, Full, EndOfBlock
    <3> QED
      BY <3>1, <3>2, <3>3
  <2>2. CASE at[p] = NInodes - 1 \/ EndOfBlock(at[p])
    <3>1. /\ pc' = [pc EXCEPT ![p] = "blockend"] /\ ino' = [ino EXCEPT ![p] = ino[p]]
          /\ at' = [at EXCEPT ![p] = ino[p]]
      BY <1>0, <1>30, <2>1, <2>2 DEF NextInode, Goto
    <3>2. ino[p] = NInodes - 1 \/ EndOfBlock(ino[p])
      BY <2>1, <2>2
    <3> HIDE DEF OrderInv, EndOfBlock, Full
    <3> QED
      BY <1>29, <1>30, <2>1, <3>1, <3>2
  <2>3. CASE ~(at[p] = NInodes - 1 \/ EndOfBlock(at[p]))
    <3>1. /\ pc' = [pc EXCEPT ![p] = "scan"] /\ ino' = [ino EXCEPT ![p] = ino[p] + 1]
          /\ at' = [at EXCEPT ![p] = ino[p] + 1]
      BY <1>30, <2>1, <2>3 DEF NextInode, Goto, Point
    <3>2. ino[p] + 1 \in Inodes
      BY <2>1, <2>3 DEF Inodes
    <3> HIDE DEF OrderInv, EndOfBlock, Full
    <3> QED
      BY <1>29, <1>30, <2>1, <3>1, <3>2
  <2> QED
    BY <2>2, <2>3
<1>3. ASSUME NEW p \in Procs, ScanUsed(p) PROVE OrderInv'
  <2>1. /\ pc[p] = "scan" /\ NextInode(p)
        /\ UNCHANGED <<ninode, sinode, mode, hash, freeing, linked>>
    BY <1>3 DEF ScanUsed
  <2>2. ninode \in Entries
    BY <2>1
  <2> HIDE DEF OrderInv
  <2> QED
    BY <1>30, <2>1, <2>2
<1>4. ASSUME NEW p \in Procs, ScanTest(p) PROVE OrderInv'
  <2>1. /\ pc[p] = "scantest" /\ ino[p] \in Inodes /\ at[p] = ino[p]
        /\ \A k \in Entries : k < ninode => sinode[k] < ino[p] + 1
        /\ UNCHANGED <<ninode, sinode, mode, hash, freeing, linked>>
    BY <1>0, <1>4 DEF ScanTest
  <2>2. CASE Full
    <3>1. /\ pc' = [pc EXCEPT ![p] = "blockend"] /\ ino' = [ino EXCEPT ![p] = ino[p]]
          /\ at' = [at EXCEPT ![p] = ino[p]]
      BY <1>0, <1>4, <2>1, <2>2 DEF ScanTest, Goto
    <3> HIDE DEF OrderInv, EndOfBlock, Full
    <3> QED
      BY <1>29, <2>1, <2>2, <3>1
  <2>3. CASE ~Full
    <3>1. ninode \in Entries /\ NextInode(p)
      BY <1>4, <1>int, <2>3 DEF ScanTest
    <3> HIDE DEF OrderInv
    <3> QED
      BY <1>30, <2>1, <3>1
  <2> QED
    BY <2>2, <2>3
<1>31. ASSUME NEW p \in Procs, BlockEnd(p) PROVE OrderInv'
  <2>1. /\ pc[p] = "blockend" /\ ino[p] \in Inodes /\ at[p] = ino[p] /\ ino[p] \in Int
        /\ Full \/ at[p] = NInodes - 1 \/ EndOfBlock(at[p])
        /\ \A k \in Entries : k < ninode => sinode[k] < ino[p] + 1
        /\ UNCHANGED <<ninode, sinode, mode, hash, freeing, linked>>
    BY <1>0, <1>int, <1>31 DEF BlockEnd
  <2>2. CASE Full \/ NextBlock(at[p]) \notin Inodes
    <3>1. /\ pc' = [pc EXCEPT ![p] = "ended"] /\ ino' = [ino EXCEPT ![p] = ino[p]]
          /\ at' = [at EXCEPT ![p] = Root]
      BY <1>0, <1>31, <2>2 DEF BlockEnd, Goto
    <3>2. Root \in Inodes
      BY DEF Root, Inodes
    <3> HIDE DEF OrderInv, EndOfBlock, Full
    <3> QED
      BY <1>29, <2>1, <3>1, <3>2
  <2>3. CASE ~Full /\ NextBlock(at[p]) \in Inodes
    <3>1. /\ pc' = [pc EXCEPT ![p] = "scan"] /\ ino' = [ino EXCEPT ![p] = ino[p] + 1]
          /\ at' = [at EXCEPT ![p] = NextBlock(ino[p])]
      BY <1>31, <2>1, <2>3 DEF BlockEnd, Goto, Point
    <3> HIDE DEF OrderInv, EndOfBlock, Full
    <3>2. NextBlock(ino[p]) = ino[p] + 1 /\ ino[p] + 1 \in Inodes
      <4>1. ino[p] # NInodes - 1
        BY <2>1, <2>3, NextBlockAfter DEF Inodes
      <4> QED
        BY <2>1, <2>3, <4>1, NextBlockAfter
    <3>3. ninode \in Entries
      BY <1>int, <2>3
    <3> QED
      BY <1>29, <2>1, <3>1, <3>2, <3>3
  <2> QED
    BY <2>2, <2>3
<1>32. ASSUME NEW p \in Procs, ScanStore(p) PROVE OrderInv'
  <2>1. /\ pc[p] = "scan" /\ ninode \in Entries /\ ninode' = ninode /\ at[p] = ino[p]
        /\ ~mode[ino[p]] /\ ino[p] \notin hash
        /\ sinode' = [sinode EXCEPT ![ninode] = ino[p]]
        /\ pc' = [pc EXCEPT ![p] = "scancount"]
        /\ UNCHANGED <<mode, hash, freeing, linked, ino, at>>
    BY <1>32 DEF ScanStore, SeenFree, Goto
  <2>2. ino[p] \in Inodes /\ ino[p] \notin linked /\ ino[p] \in Int
    BY <1>0, <1>int, <2>1
  <2>3. \A q \in Procs \ {p} : pc[q] \notin TablePcs /\ pc'[q] = pc[q]
    BY <1>0, <2>1
  <2>4. pc'[p] = "scancount"
    BY <1>0, <2>1
  <2>6. /\ sinode'[ninode] = ino[p]
        /\ \A k \in Entries : k < ninode => sinode'[k] = sinode[k] /\ sinode[k] < ino[p]
    BY <1>0, <1>int, <2>1
  <2>16. \A k \in Entries : k < ninode => sinode'[k] # ino[p]
    <3> HIDE DEF OrderInv
    <3> QED
      BY <1>int, <2>2, <2>6
  <2>8. \A k \in Entries : Shown(k)' <=> k < ninode \/ k = ninode
    BY <2>1, <2>3, <2>4
  <2>9. \A k \in Entries : k < ninode => Shown(k)
    OBVIOUS
  <2>10. ShownOnce'
    <3> SUFFICES ASSUME NEW j \in Entries, NEW k \in Entries, Shown(j)', Shown(k)',
                        sinode'[j] = sinode'[k], j # k
                 PROVE  FALSE
      OBVIOUS
    <3> HIDE DEF Shown
    <3>1. CASE j < ninode /\ k < ninode
      BY <2>6, <2>9, <3>1
    <3>2. CASE j < ninode /\ k = ninode
      BY <2>6, <2>16, <3>2
    <3>3. CASE k < ninode /\ j = ninode
      BY <2>6, <2>16, <3>3
    <3> QED
      BY <2>8, <3>1, <3>2, <3>3
  <2>11. ShownFree'
    <3> SUFFICES ASSUME NEW k \in Entries, Shown(k)'
                 PROVE  /\ ~mode[sinode'[k]] /\ sinode'[k] \notin linked
                        /\ sinode'[k] \in hash => sinode'[k] \in freeing
      BY <2>1
    <3> HIDE DEF Shown
    <3>1. CASE k < ninode
      BY <2>6, <2>9, <3>1
    <3>2. CASE k = ninode
      BY <2>1, <2>2, <2>6, <3>2
    <3> QED
      BY <2>8, <3>1, <3>2
  <2>13. ShownNotInHand'
    <3> SUFFICES ASSUME NEW q \in Procs, pc'[q] \in HandPcs \ {"made", "unhash"},
                        NEW k \in Entries, Shown(k)'
                 PROVE  sinode'[k] # ino[q]
      BY <2>1
    <3> HIDE DEF Shown
    <3>1. pc[q] \in {"update", "ifree"} /\ pc[q] = pc'[q]
      BY <2>3, <2>4
    <3>2. ino[q] \in hash
      BY <1>0, <3>1
    <3>3. CASE k < ninode
      BY <2>6, <2>9, <3>1, <3>3
    <3>4. CASE k = ninode
      BY <2>1, <2>6, <3>1, <3>2, <3>4
    <3> QED
      BY <2>8, <3>3, <3>4
  <2>14. KnowsTable' /\ KnowsScan'
    <3> HIDE DEF Shown
    <3> QED
      BY <2>1, <2>3, <2>4, <2>6
  <2>15. /\ Solo' /\ NewInHand' /\ EvictedFree' /\ LinkedKept'
         /\ ninode' \in 0 .. TableSize
    BY <1>0, <2>1, <2>3, <2>4
  <2> HIDE DEF ShownOnce, ShownFree, ShownNotInHand, KnowsTable, KnowsScan, Solo, NewInHand,
               EvictedFree, LinkedKept
  <2> QED
    BY <2>10, <2>11, <2>13, <2>14, <2>15
<1>33. ASSUME NEW p \in Procs, ScanCount(p) PROVE OrderInv'
  <2>1. /\ pc[p] = "scancount" /\ ninode \in Entries /\ ninode' = ninode + 1
        /\ sinode[ninode] = ino[p] /\ at[p] = ino[p]
        /\ pc' = [pc EXCEPT ![p] = "scantest"]
        /\ UNCHANGED <<sinode, mode, hash, freeing, linked, ino, at>>
    BY <1>33 DEF ScanCount, Goto
  <2>2. \A q \in Procs \ {p} : pc[q] \notin TablePcs /\ pc'[q] = pc[q]
    BY <1>0, <2>1
  <2>3. pc'[p] = "scantest"
    BY <1>0, <2>1
  <2>4. ninode \in Int /\ \A k \in Entries : k \in Int
    BY <1>0, <1>int
  <2>5. \A k \in Entries : k < ninode' <=> k < ninode \/ k = ninode
    BY <2>1, <2>4
  <2>6. \A k \in Entries : Shown(k)' <=> Shown(k)
    BY <2>1, <2>2, <2>3, <2>5
  <2>7. ino[p] \in Int
    BY <1>0, <1>int, <2>1
  <2>8. \A k \in Entries : k < ninode' => sinode[k] < ino[p] + 1
    <3>1. \A k \in Entries : k < ninode => sinode[k] < ino[p]
      BY <2>1
    <3> HIDE DEF OrderInv
    <3> QED
      BY <1>int, <2>1, <2>5, <2>7, <3>1
  <2>9. KnowsScan' /\ KnowsTable'
    BY <2>1, <2>2, <2>3, <2>8
  <2>10. ninode' \in 0 .. TableSize
    BY <2>1 DEF Entries
  <2> HIDE DEF Shown
  <2>11. ShownOnce' /\ ShownFree' /\ ShownNotInHand'
    BY <2>1, <2>2, <2>3, <2>6
  <2>12. Solo' /\ NewInHand' /\ EvictedFree' /\ LinkedKept'
    BY <1>0, <2>1, <2>2, <2>3
  <2> HIDE DEF ShownOnce, ShownFree, ShownNotInHand, KnowsTable, KnowsScan, Solo, NewInHand,
               EvictedFree, LinkedKept
  <2> QED
    BY <2>9, <2>10, <2>11, <2>12
<1>5. ASSUME NEW p \in Procs, NoneLeft(p) PROVE OrderInv'
  BY <1>0, <1>5 DEF NoneLeft, Goto, Point, Leave
<1>6. ASSUME NEW p \in Procs, Unlock(p) PROVE OrderInv'
  BY <1>0, <1>6 DEF Unlock, Goto
<1>7. ASSUME NEW p \in Procs, Pop(p) PROVE OrderInv'
  BY <1>0, <1>7 DEF Pop, Goto, Entries
<1>8. ASSUME NEW p \in Procs, Read(p) PROVE OrderInv'
  BY <1>0, <1>8 DEF Read, Goto, Point
<1>9. ASSUME NEW p \in Procs, CheckTaken(p) PROVE OrderInv'
  BY <1>0, <1>9 DEF CheckTaken, Goto, Point, Leave
<1>10. ASSUME NEW p \in Procs, CheckFree(p) PROVE OrderInv'
  BY <1>0, <1>10 DEF CheckFree, Goto
<1>11. ASSUME NEW p \in Procs, Insert(p) PROVE OrderInv'
  BY <1>0, <1>11 DEF Insert, Goto, Settled
<1>12. ASSUME NEW p \in Procs, InsertFails(p) PROVE OrderInv'
  BY <1>0, <1>12 DEF InsertFails, Goto, Point, Leave, Settled
<1>13. ASSUME NEW p \in Procs, Link(p) PROVE OrderInv'
  BY <1>0, <1>13 DEF Link, Goto, Point, Leave
<1>14. ASSUME NEW p \in Procs, LinkFails(p) PROVE OrderInv'
  BY <1>0, <1>14 DEF LinkFails, Goto
<1>15. ASSUME NEW p \in Procs, IUpdate(p) PROVE OrderInv'
  BY <1>0, <1>15 DEF IUpdate, Goto
<1>16. ASSUME NEW p \in Procs, IFreeSkip(p) PROVE OrderInv'
  BY <1>0, <1>16 DEF IFreeSkip, Goto
<1>17. ASSUME NEW p \in Procs, IFreeRoom(p) PROVE OrderInv'
  <2>1. ninode \in Entries
    BY <1>int, <1>17 DEF IFreeRoom
  <2> QED
    BY <1>0, <1>17, <2>1 DEF IFreeRoom, Goto, Enter
<1>18. ASSUME NEW p \in Procs, IFreeStore(p) PROVE OrderInv'
  BY <1>0, <1>18 DEF IFreeStore, Goto, Entries
<1>19. ASSUME NEW p \in Procs, IFreeCount(p) PROVE OrderInv'
  <2>1. /\ pc[p] = "count" /\ pc' = [pc EXCEPT ![p] = "unhash"] /\ ninode' = ninode + 1
        /\ UNCHANGED <<sinode, mode, hash, freeing, linked, ino>>
    BY <1>19 DEF IFreeCount, Goto
  <2>2. ninode \in Entries /\ sinode[ninode] = ino[p] /\ Entries \subseteq Int
    BY <2>1 DEF Entries
  <2>3. \A q \in Procs : pc'[q] \notin TablePcs
    BY <1>0, <2>1
  <2>4. \A k \in Entries : Shown(k)' <=> k < ninode \/ k = ninode
    BY <2>1, <2>2, <2>3
  <2>5. \A k \in Entries : k < ninode => Shown(k)
    OBVIOUS
  <2>6. /\ ~mode[ino[p]] /\ ino[p] \notin linked /\ ino[p] \in freeing
        /\ \A k \in Entries : k < ninode => sinode[k] # ino[p]
    BY <1>0, <2>1
  <2>7. \A q \in Procs : /\ pc'[q] \in HandPcs => pc'[q] = pc[q] \/ (q = p /\ pc'[q] = "unhash")
                         /\ q # p => pc'[q] = pc[q]
    BY <1>0, <2>1
  <2> HIDE DEF Shown
  <2>8. ShownOnce' /\ ShownFree'
    BY <2>1, <2>2, <2>4, <2>5, <2>6
  <2>9. ShownNotInHand'
    <3> SUFFICES ASSUME NEW q \in Procs, pc'[q] \in HandPcs \ {"made", "unhash"},
                        NEW k \in Entries, Shown(k)'
                 PROVE  sinode[k] # ino[q]
      BY <2>1
    <3>1. pc[q] \in {"update", "ifree"} /\ q # p
      BY <2>1, <2>3, <2>7
    <3>2. CASE k < ninode
      BY <2>5, <3>1, <3>2
    <3>3. CASE k = ninode
      BY <1>0, <2>1, <2>2, <3>1, <3>3
    <3> QED
      BY <2>4, <3>2, <3>3
  <2>10. Solo' /\ KnowsTable' /\ KnowsScan' /\ ninode' \in 0 .. TableSize
    <3>1. ninode' \in 0 .. TableSize
      BY <2>1, <2>2 DEF Entries
    <3> QED
      BY <2>3, <3>1
  <2>11. NewInHand' /\ EvictedFree' /\ LinkedKept'
    BY <1>0, <2>1, <2>7
  <2> QED
    BY <2>8, <2>9, <2>10, <2>11
<1>20. ASSUME NEW p \in Procs, Unhash(p) PROVE OrderInv'
  BY <1>0, <1>20 DEF Unhash, Goto, Point, Leave
<1>21. ASSUME NEW p \in Procs, NEW i \in Inodes, Delete(p, i) PROVE OrderInv'
  BY <1>0, <1>21 DEF Delete, Goto, Point, Settled
<1>22. ASSUME NEW i \in Inodes, WriteBack(i) PROVE OrderInv'
  BY <1>0, <1>22 DEF WriteBack, Settled
<1>23. ASSUME NEW i \in Inodes, Forget(i) PROVE OrderInv'
  BY <1>0, <1>23 DEF Forget, Settled
<1>24. ASSUME NEW i \in Inodes, IGet(i) PROVE OrderInv'
  BY <1>0, <1>24 DEF IGet
<1>25. CASE Touch
  BY <1>0, <1>25 DEF Touch
<1>26. CASE Update
  BY <1>0, <1>26 DEF Update
<1>27. CASE Remount
  <2>1. /\ \A p \in Procs : pc[p] = "idle"
        /\ UNCHANGED <<freeing, linked, pc, ino>>
        /\ mode' = [i \in Inodes |-> mode[i] \/ i \in hash] /\ hash' = {Root}
        /\ ninode' = ninode /\ \A i \in Entries : i < ninode => sinode'[i] = sinode[i]
    BY <1>27 DEF Remount
  <2>2. \A k \in Entries : /\ Shown(k)' <=> k < ninode
                           /\ k < ninode => Shown(k)
    BY <2>1
  <2>3. freeing = {}
    BY <2>1 DEF HashInv, FreeingHeld
  <2>4. ShownFree'
    <3> SUFFICES ASSUME NEW k \in Entries, k < ninode
                 PROVE  ~mode'[sinode[k]] /\ sinode[k] \notin linked
      BY <2>1, <2>2
    <3>1. sinode[k] \in Inodes
      BY <1>0
    <3>2. ~mode[sinode[k]] /\ sinode[k] \notin linked /\ sinode[k] \notin hash
      BY <2>2, <2>3
    <3> QED
      BY <2>1, <3>1, <3>2, Zenon
  <2>5. LinkedKept'
    <3> SUFFICES ASSUME NEW i \in linked PROVE mode'[i]
      BY <2>1
    <3>1. i \in Inodes /\ (mode[i] \/ i \in hash)
      BY DEF HashInv, TypeOK
    <3> QED
      BY <2>1, <3>1, Zenon
  <2>6. ShownOnce'
    BY <2>1, <2>2
  <2>7. /\ Solo' /\ KnowsTable' /\ KnowsScan' /\ ShownNotInHand' /\ NewInHand' /\ EvictedFree'
        /\ ninode' \in 0 .. TableSize
    BY <1>0, <2>1
  <2> QED
    BY <2>4, <2>5, <2>6, <2>7
<1>28. CASE UNCHANGED tableVars
  BY <1>0, <1>28 DEF tableVars
<1>34. CASE \E p \in Procs : IAlloc(p)
  <2> HIDE DEF OrderInv
  <2> QED
    BY <1>1, <1>2, <1>3, <1>4, <1>5, <1>6, <1>7, <1>8, <1>9, <1>10, <1>31, <1>32, <1>33, <1>34
       DEF IAlloc
<1>35. CASE \E p \in Procs : NewInode(p) \/ Evict(p)
  <2> HIDE DEF OrderInv
  <2> QED
    BY <1>11, <1>12, <1>13, <1>14, <1>15, <1>16, <1>17, <1>18, <1>19, <1>20, <1>21, <1>35
       DEF NewInode, Evict, IFree
<1>36. CASE Kernel
  <2> HIDE DEF OrderInv
  <2> QED
    BY <1>22, <1>23, <1>24, <1>25, <1>26, <1>27, <1>36 DEF Kernel
<1> QED
  <2> HIDE DEF OrderInv
  <2> QED
    BY <1>28, <1>34, <1>35, <1>36 DEF Step

LEMMA NumbersStep == NumbersInv /\ [Next]_vars => NumbersInv'
<1> SUFFICES ASSUME NumbersInv, [Next]_vars PROVE NumbersInv'
  OBVIOUS
<1>1. HashInv'
  BY HashStep DEF NumbersInv
<1>2. Step \/ UNCHANGED tableVars
  BY DEF Next, Damage, vars
<1>3. Root \in linked'
  <2> USE DEF NumbersInv, table, disk, cache, walk
  <2>1. CASE \E p \in Procs : IAlloc(p)
    BY <2>1 DEF IAlloc, Create, Lock, ScanUsed, ScanStore, ScanCount, ScanTest, BlockEnd,
                NoneLeft, Unlock, Pop, Read, CheckTaken, CheckFree
  <2>2. CASE \E p \in Procs : NewInode(p) \/ Evict(p)
    BY <2>2 DEF NewInode, Insert, InsertFails, Link, LinkFails, Evict, IUpdate, IFree,
                IFreeSkip, IFreeRoom, IFreeStore, IFreeCount, Unhash, Delete
  <2>3. CASE Kernel
    BY <2>3 DEF Kernel, Touch, Update, Remount, WriteBack, Forget, IGet
  <2>4. CASE UNCHANGED tableVars
    BY <2>4 DEF tableVars
  <2> QED
    BY <1>2, <2>1, <2>2, <2>3, <2>4 DEF Step
<1>6. orderly' => orderly
  <2> USE DEF table, disk, cache, walk
  <2>1. CASE \E p \in Procs : IAlloc(p)
    BY <2>1 DEF IAlloc, Create, Lock, ScanUsed, ScanStore, ScanCount, ScanTest, BlockEnd,
                NoneLeft, Unlock, Pop, Read, CheckTaken, CheckFree, Enter
  <2>2. CASE \E p \in Procs : NewInode(p) \/ Evict(p)
    BY <2>2 DEF NewInode, Insert, InsertFails, Link, LinkFails, Evict, IUpdate, IFree,
                IFreeSkip, IFreeRoom, IFreeStore, IFreeCount, Unhash, Delete, Enter
  <2>3. CASE Kernel
    BY <2>3 DEF Kernel, Touch, Update, Remount, WriteBack, Forget, IGet
  <2>4. CASE UNCHANGED tableVars
    BY <2>4 DEF tableVars
  <2> QED
    BY <1>2, <2>1, <2>2, <2>3, <2>4 DEF Step
<1>4. orderly' => OrderInv'
  BY <1>2, <1>6, OrderStep DEF NumbersInv
<1>5. orderly' => sound'
  <2> SUFFICES ASSUME orderly' PROVE sound'
    OBVIOUS
  <2>1. sound /\ OrderInv
    BY <1>6 DEF NumbersInv
  <2>2. \A p \in Procs : ~Damage(p)
    BY <2>1 DEF OrderInv, KnowsTable, Damage
  <2> QED
    BY <2>1, <2>2 DEF Next, vars
<1> QED
  BY <1>1, <1>3, <1>4, <1>5 DEF NumbersInv

\* Whatever happens, the invariant of the hash holds, and that of the table as long as
\* its uses do not overlap.
THEOREM NumbersCorrect == Spec => []NumbersInv
  BY NumbersInit, NumbersStep, PTL DEF Spec

\* As long as uses of the table do not overlap and every mount loads the table that was
\* there, IAlloc, IFree and the scan access no entry outside it and keep it one of free
\* numbers, each listed once, for every number of inodes and processes and every size of
\* the table.
THEOREM TableOfFreeCorrect == Spec => []TableOfFree
<1>1. NumbersInv => TableOfFree
  <2> SUFFICES ASSUME NumbersInv, orderly PROVE TableOfFree
    BY DEF TableOfFree
  <2>1. /\ sound /\ ninode \in 0 .. TableSize
        /\ ShownOnce /\ ShownFree /\ \A k \in Entries : k < ninode => Shown(k)
    BY DEF NumbersInv, OrderInv, Shown
  <2> QED
    BY <2>1 DEF TableOfFree, InTable, ShownOnce, ShownFree
<1> QED
  BY <1>1, NumbersCorrect, PTL

\* ... and secondfs_new_inode gets a number that no file has and that is in no other
\* process's hands, but those of an eviction that has only to forget it.
THEOREM NumberIsNewCorrect == Spec => []NumberIsNew
<1>1. NumbersInv => NumberIsNew
  BY DEF NumbersInv, OrderInv, NewInHand, NumberIsNew
<1> QED
  BY <1>1, NumbersCorrect, PTL
=============================================================================
