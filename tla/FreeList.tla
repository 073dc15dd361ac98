------------------------------ MODULE FreeList ------------------------------
(***************************************************************************)
(* The list of free data blocks of one mounted volume: the table s_nfree / *)
(* s_free[100] in the SuperBlock, its continuation in index blocks on the  *)
(* disk, the mutex s_flock, and the two operations on them,                *)
(* FileSystem::Alloc and FileSystem::Free, run by several processes.       *)
(*                                                                         *)
(* A step is one access to the shared table, or a run of accesses that are *)
(* all made while s_flock is held and that no other step of this module    *)
(* tells apart.  Free stores the freed block into the table AFTER it has   *)
(* released s_flock: those two stores are the steps PushSlot and PushCount.*)
(*                                                                         *)
(* A block is a number in 1..NBlocks (the "data block" numbers of mkfs); 0 *)
(* ends the list.  The content of a block is what Bread returns for it:    *)
(* the list never reads a block while a call that writes it is unfinished, *)
(* so the buffer cache in between does not show.                           *)
(*                                                                         *)
(* Any calls may overlap.  Three things the code does leave no list to     *)
(* speak of: a process works on the table before another's Free has made   *)
(* its two stores, Alloc takes an entry from outside the table, Alloc      *)
(* loads a group from a block that holds none.  They are steps of the      *)
(* model (Damage); they end sound, and nothing is followed after them.     *)
(***************************************************************************)
EXTENDS Integers

CONSTANTS NBlocks,    \* data blocks on the volume
          StackSize,  \* entries of s_free (100 in the code)
          Procs,      \* processes that write, extend, truncate or delete files
          NoProc,     \* "nobody holds the lock"
          FileData,   \* content of a block that is not a group of free blocks
          Faults      \* I/O failures that may happen: a subset of {"read", "write"}

ASSUME SizeAssumption ==
    /\ NBlocks \in Nat \ {0}
    /\ StackSize \in Nat \ {0, 1}

ASSUME ProcAssumption == NoProc \notin Procs

ASSUME ModeAssumption == Faults \subseteq {"read", "write"}

Blocks  == 1 .. NBlocks
NoBlock == 0          \* end of the list; also Alloc's NULL

\* Indices of s_free.
Entries == 0 .. StackSize - 1

\* A group of free blocks as it is stored in an index block: a count and a table.
Group == [n : {StackSize}, free : [Entries -> Blocks \cup {NoBlock}]]

ASSUME FileDataAssumption == FileData \notin Group

VARIABLES nfree,     \* s_nfree
          sfree,     \* s_free
          fmod,      \* s_fmod
          flock,     \* s_flock: its holder
          disk,      \* content of every data block
          used,      \* blocks that belong to an inode (i_addr or an indirect block)
          pc, blk, top, \* per process: where it is, "blkno", the index it stored at
          ret,       \* per process: "block", "none" (NULL) or "pending", its last Alloc
          chain,     \* history: index blocks whose group has not been loaded back
          sound      \* history: no Damage has been done

\* Everything but sound.
listVars == <<nfree, sfree, fmod, flock, disk, used, pc, blk, top, ret, chain>>
vars     == <<listVars, sound>>

-----------------------------------------------------------------------------
(* The list mkfs writes: groups of StackSize entries from the top of the    *)
(* volume down, each stored in the block that heads the next group; the     *)
(* last group, of the lowest blocks, is left in the SuperBlock.             *)

\* Block NBlocks + 1 stands for the 0 at the bottom of the first group.
ListEntry(b) == IF b \in Blocks THEN b ELSE NoBlock

IndexBlocks == { b \in Blocks : (NBlocks + 1 - b) % StackSize = 0 }

InitCount == (NBlocks % StackSize) + 1

InitContent(b) ==
    IF b \in IndexBlocks
    THEN [n |-> StackSize, free |-> [i \in Entries |-> ListEntry(b + StackSize - i)]]
    ELSE FileData

Init ==
    /\ nfree = InitCount
    /\ sfree = [i \in Entries |-> IF i < InitCount THEN ListEntry(InitCount - i) ELSE NoBlock]
    /\ fmod = FALSE
    /\ flock = NoProc
    /\ disk = [b \in Blocks |-> InitContent(b)]
    /\ used = {}
    /\ pc = [p \in Procs |-> "idle"]
    /\ blk = [p \in Procs |-> NoBlock]
    /\ top = [p \in Procs |-> 0]
    /\ ret = [p \in Procs |-> "none"]
    /\ chain = IndexBlocks
    /\ sound = TRUE

-----------------------------------------------------------------------------
AllocPcs == {"alloc_lock", "pop", "take", "taken", "clear"}
FreePcs  == {"free_lock", "check", "free_unlock", "push", "count"}

\* The program counters at which a process is inside s_flock.
LockedPcs == {"pop", "take", "taken", "check", "free_unlock"}

Goto(p, l) == pc' = [pc EXCEPT ![p] = l]

\* A call returns; its local variables are gone.
Return(p, answer) ==
    /\ Goto(p, "idle")
    /\ ret' = [ret EXCEPT ![p] = answer]
    /\ blk' = [blk EXCEPT ![p] = NoBlock]
    /\ top' = [top EXCEPT ![p] = 0]

\* Mutant: s_flock is taken without waiting for its holder.
AcquireNoWait(p) == flock' = p

Acquire(p) == flock = NoProc /\ flock' = p
Release(p) == flock' = NoProc

\* A Free has released s_flock and has yet to enter its block into the table.  While
\* that is so, a process that works on the table does damage (MeetsStores).
StoresDue == \E q \in Procs : pc[q] \in {"push", "count"}

-----------------------------------------------------------------------------
(* FileSystem::Alloc                                                        *)

AllocCall(p) ==
    /\ pc[p] = "idle"
    /\ ret' = [ret EXCEPT ![p] = "pending"]
    /\ Goto(p, "alloc_lock")
    /\ UNCHANGED <<nfree, sfree, fmod, flock, disk, used, blk, top, chain>>

AllocLock(p) ==
    /\ pc[p] = "alloc_lock"
    /\ Acquire(p)
    /\ Goto(p, "pop")
    /\ UNCHANGED <<nfree, sfree, fmod, disk, used, blk, top, ret, chain>>

AllocPop(p) ==
    /\ pc[p] = "pop"
    /\ ~StoresDue
    /\ nfree' = nfree - 1
    /\ Goto(p, "take")
    /\ UNCHANGED <<sfree, fmod, flock, disk, used, blk, top, ret, chain>>

AllocTake(p) ==
    /\ pc[p] = "take"
    /\ nfree \in Entries
    /\ blk' = [blk EXCEPT ![p] = sfree[nfree]]
    /\ Goto(p, "taken")
    /\ UNCHANGED <<nfree, sfree, fmod, flock, disk, used, top, ret, chain>>

\* Mutant: the early return forgets s_flock.
AllocEmptyKeepsLock(p) ==
    /\ pc[p] = "taken"
    /\ blk[p] = NoBlock
    /\ nfree' = 1
    /\ Return(p, "none")
    /\ UNCHANGED <<sfree, fmod, flock, disk, used, chain>>

\* Mutant: the early return forgets to put the end of the list back.
AllocEmptyLosesEnd(p) ==
    /\ pc[p] = "taken"
    /\ blk[p] = NoBlock
    /\ Release(p)
    /\ Return(p, "none")
    /\ UNCHANGED <<nfree, sfree, fmod, disk, used, chain>>

\* Entry 0: the list has ended.  The count goes back to 1, so that the 0 stays.
AllocEmpty(p) ==
    /\ pc[p] = "taken"
    /\ blk[p] = NoBlock
    /\ nfree' = 1
    /\ Release(p)
    /\ Return(p, "none")
    /\ UNCHANGED <<sfree, fmod, disk, used, chain>>

AllocKeep(p) ==
    /\ pc[p] = "taken"
    /\ blk[p] \in Blocks
    /\ nfree > 0
    /\ Release(p)
    /\ Goto(p, "clear")
    /\ UNCHANGED <<nfree, sfree, fmod, disk, used, blk, top, ret, chain>>

\* The block taken was the last of the table: it holds the next group.
AllocLoad(p) ==
    /\ pc[p] = "taken"
    /\ blk[p] \in Blocks
    /\ nfree <= 0
    /\ disk[blk[p]] # FileData
    /\ nfree' = disk[blk[p]].n
    /\ sfree' = disk[blk[p]].free
    /\ chain' = chain \ {blk[p]}
    /\ Release(p)
    /\ Goto(p, "clear")
    /\ UNCHANGED <<fmod, disk, used, blk, top, ret>>

\* Mutant: the error path forgets s_flock.
AllocLoadFailsKeepsLock(p) ==
    /\ pc[p] = "taken"
    /\ blk[p] \in Blocks
    /\ nfree <= 0
    /\ "read" \in Faults
    /\ Return(p, "none")
    /\ UNCHANGED <<nfree, sfree, fmod, flock, disk, used, chain>>

\* Bread fails: Alloc returns NULL and leaves the count where it is.
AllocLoadFails(p) ==
    /\ pc[p] = "taken"
    /\ blk[p] \in Blocks
    /\ nfree <= 0
    /\ "read" \in Faults
    /\ Release(p)
    /\ Return(p, "none")
    /\ UNCHANGED <<nfree, sfree, fmod, disk, used, chain>>

\* Mutant: the SuperBlock is not marked as modified.
AllocClearQuiet(p) ==
    /\ pc[p] = "clear"
    /\ disk' = [disk EXCEPT ![blk[p]] = FileData]
    /\ used' = used \cup {blk[p]}
    /\ Return(p, "block")
    /\ UNCHANGED <<nfree, sfree, fmod, flock, chain>>

AllocClear(p) ==
    /\ pc[p] = "clear"
    /\ disk' = [disk EXCEPT ![blk[p]] = FileData]
    /\ used' = used \cup {blk[p]}
    /\ fmod' = TRUE
    /\ Return(p, "block")
    /\ UNCHANGED <<nfree, sfree, flock, chain>>

-----------------------------------------------------------------------------
(* FileSystem::Free                                                         *)

FreeCall(p, b) ==
    /\ pc[p] = "idle"
    /\ b \in used
    /\ used' = used \ {b}
    /\ blk' = [blk EXCEPT ![p] = b]
    /\ fmod' = TRUE
    /\ Goto(p, "free_lock")
    /\ UNCHANGED <<nfree, sfree, flock, disk, top, ret, chain>>

FreeLock(p) ==
    /\ pc[p] = "free_lock"
    /\ Acquire(p)
    /\ Goto(p, "check")
    /\ UNCHANGED <<nfree, sfree, fmod, disk, used, blk, top, ret, chain>>

\* Mutant: a list whose table has one entry left is taken for no list.
FreeFirstAtOne(p) ==
    /\ pc[p] = "check"
    /\ ~StoresDue
    /\ nfree <= 1
    /\ nfree' = 1
    /\ sfree' = [sfree EXCEPT ![0] = NoBlock]
    /\ Goto(p, "free_unlock")
    /\ UNCHANGED <<fmod, flock, disk, used, blk, top, ret, chain>>

\* "Abnormal situation": there is no table, so a new list is started.
FreeFirst(p) ==
    /\ pc[p] = "check"
    /\ ~StoresDue
    /\ nfree <= 0
    /\ nfree' = 1
    /\ sfree' = [sfree EXCEPT ![0] = NoBlock]
    /\ Goto(p, "free_unlock")
    /\ UNCHANGED <<fmod, flock, disk, used, blk, top, ret, chain>>

\* Mutant: a full table is taken for one with room.
FreeRoomAtFull(p) ==
    /\ pc[p] = "check"
    /\ ~StoresDue
    /\ nfree \in 1 .. StackSize
    /\ Goto(p, "free_unlock")
    /\ UNCHANGED <<nfree, sfree, fmod, flock, disk, used, blk, top, ret, chain>>

FreeRoom(p) ==
    /\ pc[p] = "check"
    /\ ~StoresDue
    /\ nfree \in 1 .. StackSize - 1
    /\ Goto(p, "free_unlock")
    /\ UNCHANGED <<nfree, sfree, fmod, flock, disk, used, blk, top, ret, chain>>

\* Mutant: the table stays full after it has been stored.
FreeSpillKeepsTable(p) ==
    /\ pc[p] = "check"
    /\ ~StoresDue
    /\ nfree >= StackSize
    /\ disk' = [disk EXCEPT ![blk[p]] = [n |-> StackSize, free |-> sfree]]
    /\ chain' = chain \cup {blk[p]}
    /\ nfree' = StackSize - 1
    /\ Goto(p, "free_unlock")
    /\ UNCHANGED <<sfree, fmod, flock, used, blk, top, ret>>

\* Mutant: the group is not written to the block that is to hold it.
FreeSpillNoWrite(p) ==
    /\ pc[p] = "check"
    /\ ~StoresDue
    /\ nfree >= StackSize
    /\ chain' = chain \cup {blk[p]}
    /\ nfree' = 0
    /\ Goto(p, "free_unlock")
    /\ UNCHANGED <<sfree, fmod, flock, disk, used, blk, top, ret>>

\* The table is full: the block being freed becomes the index block of the group.
FreeSpill(p) ==
    /\ pc[p] = "check"
    /\ ~StoresDue
    /\ nfree >= StackSize
    /\ disk' = [disk EXCEPT ![blk[p]] = [n |-> StackSize, free |-> sfree]]
    /\ chain' = chain \cup {blk[p]}
    /\ nfree' = 0
    /\ Goto(p, "free_unlock")
    /\ UNCHANGED <<sfree, fmod, flock, used, blk, top, ret>>

\* Bwrite fails, and the cached copy is gone before it is read: the group is lost.
\* (A cached copy that survives is what FreeSpill says.)
FreeSpillFails(p) ==
    /\ pc[p] = "check"
    /\ ~StoresDue
    /\ nfree >= StackSize
    /\ "write" \in Faults
    /\ nfree' = 0
    /\ Goto(p, "free_unlock")
    /\ UNCHANGED <<sfree, fmod, flock, disk, used, blk, top, ret, chain>>

FreeUnlock(p) ==
    /\ pc[p] = "free_unlock"
    /\ Release(p)
    /\ Goto(p, "push")
    /\ UNCHANGED <<nfree, sfree, fmod, disk, used, blk, top, ret, chain>>

\* s_free[s_nfree] = blkno.
PushSlot(p) ==
    /\ pc[p] = "push"
    /\ sfree' = [sfree EXCEPT ![nfree] = blk[p]]
    /\ top' = [top EXCEPT ![p] = nfree]
    /\ Goto(p, "count")
    /\ UNCHANGED <<nfree, fmod, flock, disk, used, blk, ret, chain>>

\* s_nfree = s_nfree + 1: the compiler may load s_nfree again, or keep the value
\* it loaded for the index.
PushCount(p) ==
    /\ pc[p] = "count"
    /\ \E n \in {nfree, top[p]} : nfree' = n + 1
    /\ fmod' = TRUE
    /\ Return(p, ret[p])
    /\ UNCHANGED <<sfree, flock, disk, used, chain>>

-----------------------------------------------------------------------------
(* Damage.                                                                  *)

\* A process inside s_flock decrements or tests the count while another's Free has yet
\* to store at it and raise it (lines 596-598).
MeetsStores(p) ==
    /\ pc[p] \in {"pop", "check"}
    /\ StoresDue

\* The count was 0: the index is 2^32 - 1, far outside the table (line 446).
TakesWild(p) ==
    /\ pc[p] = "take"
    /\ nfree \notin Entries

\* The last block of the table holds file data, and is loaded as a group (lines 486-502).
LoadsData(p) ==
    /\ pc[p] = "taken"
    /\ blk[p] \in Blocks
    /\ nfree <= 0
    /\ disk[blk[p]] = FileData

Damage(p) ==
    /\ MeetsStores(p) \/ TakesWild(p) \/ LoadsData(p)
    /\ sound' = FALSE
    /\ UNCHANGED listVars

-----------------------------------------------------------------------------
Alloc(p) ==
    \/ AllocCall(p) \/ AllocLock(p) \/ AllocPop(p) \/ AllocTake(p) \/ AllocEmpty(p)
    \/ AllocKeep(p) \/ AllocLoad(p) \/ AllocLoadFails(p) \/ AllocClear(p)

\* Free from its call on; the call itself is the caller's choice.
FreeBody(p) ==
    \/ FreeLock(p) \/ FreeFirst(p) \/ FreeRoom(p) \/ FreeSpill(p) \/ FreeSpillFails(p)
    \/ FreeUnlock(p) \/ PushSlot(p) \/ PushCount(p)

Step(p) ==
    /\ Alloc(p) \/ FreeBody(p) \/ \E b \in Blocks : FreeCall(p, b)
    /\ UNCHANGED sound

Next == sound /\ \E p \in Procs : Step(p) \/ Damage(p)

Spec == Init /\ [][Next]_vars

(* A running process keeps running, and a mutex is granted in turn (the     *)
(* kernel's mutex queues its waiters).  Nobody is obliged to call.          *)
Goes(p) ==
    \/ ((pc[p] # "idle" /\ Alloc(p)) \/ FreeBody(p)) /\ UNCHANGED sound
    \/ Damage(p)

Fairness ==
    \A p \in Procs :
        /\ WF_vars(sound /\ Goes(p))
        /\ SF_vars(sound /\ AllocLock(p) /\ UNCHANGED sound)
        /\ SF_vars(sound /\ FreeLock(p) /\ UNCHANGED sound)

FairSpec == Spec /\ Fairness
-----------------------------------------------------------------------------
(* Correctness                                                              *)

\* Type invariant of the table, the blocks and the processes.  The count is -1 only
\* between the decrement of an Alloc that found an empty table and its read.
TypeOK ==
    /\ nfree \in -1 .. StackSize
    /\ sfree \in [Entries -> Blocks \cup {NoBlock}]
    /\ fmod \in BOOLEAN
    /\ flock \in Procs \cup {NoProc}
    /\ disk \in [Blocks -> Group \cup {FileData}]
    /\ used \subseteq Blocks
    /\ pc \in [Procs -> {"idle"} \cup AllocPcs \cup FreePcs]
    /\ blk \in [Procs -> Blocks \cup {NoBlock}]
    /\ top \in [Procs -> Entries]
    /\ ret \in [Procs -> {"block", "none", "pending"}]
    /\ chain \subseteq Blocks
    /\ sound \in BOOLEAN
    /\ \A p \in Procs : pc[p] \in FreePcs \cup {"clear"} => blk[p] \in Blocks

\* The entries of the table that count: one more than s_nfree while Alloc stands
\* between its decrement and its read.
Live(i) == i < nfree \/ (i = nfree /\ \E p \in Procs : pc[p] = "take")

\* The list is a set of entries, (h, i): entry i of the table when h is NoBlock, of
\* the group stored in index block h otherwise.
Heads == chain \cup {NoBlock}

Entry(h, i) == IF h = NoBlock THEN sfree[i] ELSE disk[h].free[i]

Listed(h, i) == i \in Entries /\ IF h = NoBlock THEN Live(i) ELSE h \in chain

\* A process in the middle of Free holds a block that no file owns any more; one
\* that has left the table inside Alloc holds a block that is not free any more.
Freeing(p)  == pc[p] \in FreePcs
Carrying(p) == pc[p] \in {"taken", "clear"} /\ blk[p] \in Blocks
InHand(p)   == Carrying(p) \/ Freeing(p)
Owned(b)    == b \in used \/ \E p \in Procs : InHand(p) /\ blk[p] = b

FreeBlocks ==
    { b \in Blocks : \E h \in Heads : \E i \in Entries : Listed(h, i) /\ Entry(h, i) = b }
HeldBlocks == { b \in Blocks : Owned(b) }

\* s_flock: the process inside the lock is the one recorded as its holder, so two
\* are never inside it (lines 441-512 and 538-596 of FileSystem.cc).
LockHeld == \A p \in Procs : pc[p] \in LockedPcs <=> flock = p

\* What Alloc is about to return belongs to no file, and no other process carries it
\* or is giving it back.
OneOwner ==
    /\ \A p \in Procs : InHand(p) => blk[p] \notin used
    /\ \A p, q \in Procs : InHand(p) /\ InHand(q) /\ blk[p] = blk[q] => p = q

\* A free block is listed at one place, and no block is listed that a file owns or
\* a process holds.
OnePlace ==
    /\ \A h, k \in Heads : \A i, j \in Entries :
          /\ Listed(h, i) /\ Listed(k, j)
          /\ Entry(h, i) = Entry(k, j) /\ Entry(h, i) # NoBlock
          => h = k /\ i = j
    /\ \A h \in Heads : \A i \in Entries : Listed(h, i) => ~Owned(Entry(h, i))

\* An index block is the bottom entry of the group that names it, and belongs to
\* nobody but the process that takes it out of, or puts it into, that entry.
IndexAtBottom ==
    /\ \A h \in Heads : \A i \in Entries : Listed(h, i) /\ Entry(h, i) \in chain => i = 0
    /\ chain \cap used = {}
    /\ \A p \in Procs : InHand(p) /\ blk[p] \in chain =>
          /\ pc[p] \in {"taken", "free_unlock", "push", "count"}
          /\ nfree = 0

\* Groups are stored in the index blocks and, until the block has been cleared, in
\* the one whose group Alloc has just loaded; every other block is file data.
GroupsInChain ==
    /\ \A b \in chain : disk[b] # FileData
    /\ \A b \in Blocks \ chain :
          disk[b] # FileData => \E p \in Procs : pc[p] = "clear" /\ blk[p] = b

\* At most one process is between its first access to the table and its last.
Busy == {"take", "taken", "free_unlock", "push", "count"}

OneBusy == \A p, q \in Procs : pc[p] \in Busy /\ pc[q] \in Busy => p = q

\* The height of the table at every program counter, and what the process that
\* stands there knows about the top entry.
TableHeight ==
    /\ nfree < 0 => \E p \in Procs : pc[p] = "take"
    /\ \A p \in Procs :
          /\ pc[p] = "take" => nfree < StackSize
          /\ pc[p] = "taken" => nfree \in Entries /\ blk[p] = sfree[nfree]
          /\ pc[p] \in {"free_unlock", "push", "count"} => nfree \in Entries
          /\ pc[p] = "count" => top[p] = nfree /\ sfree[nfree] = blk[p]

\* The parts of the invariant that is inductive, whatever calls overlap.
SoundInv ==
    /\ TypeOK /\ LockHeld /\ OneBusy /\ TableHeight
    /\ OnePlace /\ IndexAtBottom /\ GroupsInChain /\ OneOwner

\* The lock, the heights and the list are in order as long as no damage has been done:
\* no failing transfer and no overlap of calls spoils them but through a step of Damage.
SerialInv == sound => SoundInv

\* Until then a block is handed out once, however the calls of Alloc and Free overlap
\* outside the two stores of Free, and whatever transfers fail.
NoDoubleAlloc == sound => OneOwner

\* Until then the table and the index blocks never name a block twice, nor one in use.
ListedOnce == sound => OnePlace

\* Without failures the stores of Free are the only harm: Alloc takes no entry from
\* outside the table, and what it follows from the last one was stored as a group by
\* Free or by mkfs (lines 443-503).
LoadsOnlyGroups == \A p \in Procs : ~TakesWild(p) /\ ~LoadsData(p)

\* The implementation of the abstract allocator: a block is granted when it leaves
\* the table, and is free again when Free has entered it there.
Abstract == INSTANCE BlockAllocator WITH
    free <- FreeBlocks,
    held <- HeldBlocks,
    ret  <- [p \in Procs |-> IF Carrying(p) THEN "block" ELSE ret[p]]

\* As long as no damage has been done, the table behaves as the abstract allocator:
\* Alloc hands out some free block, says "no space" only when no block is listed, and
\* no block is lost on the way through the table and the index blocks.
Implements == Abstract!Spec

\* Alloc and Free return: nobody waits for s_flock for ever.
CallsReturn == \A p \in Procs : pc[p] # "idle" ~> pc[p] = "idle" \/ ~sound
=============================================================================
