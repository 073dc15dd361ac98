# secondfs in TLA+

secondfs is a Linux kernel module that mounts volumes of UNIX V6++: the C++
core of a teaching operating system (`src/UNIXV6PP/`), glued to the kernel's
VFS by C code (`src/*.c`). This directory holds its specification in TLA+, the
TLC runs that check it on small volumes, and proofs for volumes of any size.
Paths below are relative to the repository; line numbers are of this commit.

Contents: [the system](#the-system), [the modules](#the-modules),
[the runs](#the-runs), [fairness](#fairness), [the proofs](#the-proofs),
[what the code does otherwise](#what-the-code-does-otherwise),
[what is not modelled](#what-is-not-modelled), [plan](#plan).

## The system

| Part | State | Operations | Source |
|---|---|---|---|
| Free block list | `s_nfree`, `s_free[100]` in the SuperBlock, its continuation in index blocks, mutex `s_flock` | `Alloc`, `Free`; `mkfs` writes the first list, `fsck` walks it | `FileSystem.cc:428-603`, `mkfs.c`, `fsck.c` |
| Free inode table | `s_ninode`, `s_inode[100]`, mutex `s_ilock`, `d_mode` of the inodes on disk | `IAlloc` with its refill scan, `IFree` | `FileSystem.cc:237-425` |
| SuperBlock | the two tables, `s_fmod`, locks; on disk and in memory | `LoadSuperBlock`, `Update`, mount, unmount | `FileSystem.cc:80-235`, `super.c` |
| Buffer cache | ten `Buf`s in one free list and in a queue per device, flags, two mutexes per buffer, one semaphore | `GetBlk`, `Brelse`, `Bread`, `Bwrite`, `Bdwrite`, `Bflush` | `BufferManager.cc`, `bio.c` |
| Block map of a file | `i_addr[10]`, one or two levels of index blocks, `i_size` | `Bmap` from `ReadI` and `WriteI`, `ITrunc` | `Inode.cc` |
| Directories | directory files, entries of `m_ino` and `m_name`, entries for `.` and `..` if `s_has_dots` | `DELocate`; create, link, unlink, mkdir, rmdir, rename, lookup, readdir | `FileOperations.cc:823-1093`, `fileops.c` |
| Two inodes per file | the kernel's `struct inode` and the C++ `Inode`, with size, times and count of links in both | `conform_v2s`, `conform_s2v`, `iget`, `write_inode`, `evict_inode`, `new_inode` | `inode.c` |

How they interact. The VFS calls the operations of `fileops.c` with the locks
of the inodes concerned. These find entries through `DELocate` and `ReadI` /
`WriteI`, which map file blocks with `Bmap`, which takes blocks from `Alloc`;
all of them reach the disk through the buffer cache, `Alloc` while it holds
`s_flock`. When the kernel drops the last reference of an inode,
`evict_inode` writes it, or, if its count of links is 0, truncates it
(`ITrunc`, `Free`) and gives its number back (`IFree`). `sync` and unmount
write the SuperBlock (`Update`) and delayed buffers (`Bflush`).

What is hard here, part by part, and what makes each part correct:

* **Free list.** Several processes allocate and free at a time; `Free` stores
  the block after it has released the lock; a full table moves to the disk and
  an empty one comes back, and either transfer may fail. *No block is handed
  out twice; none is listed twice or lost; the lock is never left behind; only
  groups are ever loaded as groups; "no space" means none.*
* **Buffers.** Hits take locks in two steps and look again; releases wake
  sleepers; misses look at lists before they lock them; a delayed buffer is
  written when it is evicted. *A buffer has one user, a block one buffer; what
  was stored is on the disk or in a marked buffer; who waits proceeds.*
* **Inode numbers.** The refill scan of the disk runs while other processes
  create and delete, takes buffers, and waits for inodes in eviction; the pop
  comes after the unlock; a mount may bring back an older table. *A creation
  gets the number of no file, and two never get the same.*
* **Block map.** Allocation may fail between any two levels; truncation goes
  backwards through tables it does not clear, while others take the blocks it
  gives back. *A block has one place; none is lost; a fresh block reads as
  zeros; a block stays where it is.*
* **SuperBlock.** `Update` copies the tables word by word while calls change
  them, and only `s_fmod` says whether the copy on the disk will do. *Whatever
  was copied in the middle of, a volume whose `s_fmod` is clear has its list on
  the disk, and a mount goes on with it.*
* **Two inodes.** Size and mode are in the kernel's inode, in the C++ `Inode`
  and on the disk; the flusher copies them without the lock under which calls
  do. *No change is overwritten by an older copy; a clean inode is on the disk,
  and a changed one gets there.*
* **Names.** Free entries are reused; a rename changes up to three files and
  four counts; every count exists twice and is copied in both directions.
  *An operation changes the names it was asked to and no other; directories
  are a tree; counts match entries; a listing cut into calls gives each name
  once.*

`PROJECT.json` lists the places where these go wrong most easily ("hazards"),
each with the properties that watch it, and, for every definition that models
code, the lines it models ("map").

## The modules

An action is one step of a process; process-local variables of the code are
functions of the process, and the place where it stands is `pc[p]`. `Goto`,
`Point` and the like set those. A definition whose comment begins with
"Mutant" is a wrong version of the one that follows; no action uses it, and it
shows that a property would catch that mistake.

**`BlockAllocator`** is the abstract allocator: a set of free blocks, a set of
held ones, an answer per process. `Grant` hands out any free block, `Deny` is
possible only when there is none.

**`FreeList`** is `Alloc` and `Free`. `nfree`, `sfree`, `fmod`, `flock` are the
fields of the SuperBlock; `disk` holds the content of every data block, a group
or `FileData`; `chain` is a history variable, the index blocks whose group is
still on the disk. A step is one access of the shared table, or a run of
accesses under `s_flock` that no other step can tell apart: `AllocLock`,
`AllocPop` (line 445), `AllocTake` (446), then `AllocEmpty`, `AllocKeep`,
`AllocLoad` or `AllocLoadFails`, and `AllocClear` (`ClrBuf`); `FreeLock`,
`FreeFirst`, `FreeRoom`, `FreeSpill` or `FreeSpillFails`, `FreeUnlock`, and the
two stores after the unlock, `PushSlot` and `PushCount` (597, 598). The content
of a block is what `Bread` returns: the buffers between are invisible to the
list, because it never reads a block that is being written.

Calls overlap in every way. Three steps that the code takes leave no list to
speak of; they are actions of their own (`Damage`), they end `sound`, and nothing
is followed after them: `MeetsStores`, a process works on the table before
another's `Free` has made its two stores; `TakesWild`, the count was 0 and the
index is 4294967295, since `le32_to_cpu` is unsigned; `LoadsData`, the last block
of the table holds file data, as after a failed write of a group, and is loaded.
The properties say that nothing else does harm: until one of the three happens,
each of them holds, and without failed transfers the first is the only one that
can happen (`LoadsOnlyGroups`).

**`FreeListFsck`** is the walk of `fsck.c:235-269` as a function of the list.

**`SuperBlockSync`** extends `FreeList` by `Update` and the mounts around it.
`sector` is the SuperBlock's first sector on the disk, as far as the list goes,
and `img` the buffer that `Update` fills. `UpdBegin` tests the locks and
`s_fmod`, `UpdClear` clears `s_fmod` (171), `UpdCount` and `UpdEntries` copy
`s_nfree` and `s_free` (191) with any steps of `Alloc` and `Free` between them,
since `Update` takes neither lock; `UpdWrite` or `UpdFails` ends it. `Remount`
is `put_super`, with its own `Update`, and `LoadSuperBlock`, which refuses a count
that is not one of a table. `stale` is history: the last write of the sector
failed; no mount goes on after that. `sound` is that of `FreeList`.

**`BufferManager`** is the cache. The free list is kept by its pointers
(`avForw`, `avBack`), since the code may link a buffer twice; the device queue
is a sequence, since it cannot. `modify` and `wait` are the two mutexes of each
buffer, `sem` the semaphore. A hit goes `Hit`, `LockModify`, `TryFree` or
`TryBusy`, perhaps `WaitFree`, then `TakeHit`; a miss goes `Miss`, `CheckEmpty`
with `TryDown` and `Down`, or `CheckSome`, `Pick`, `TakeFree` and `Relink`.
`Release` is the first half of `Brelse`, and the second is one operation per step,
as the code's are: `IsLocked`, `Unlock`, `TryDownFree`, `Up`. `ReleaseAgain` is the
second `Brelse` of an evicted buffer. `Bwrite`, `BioWrite`, `BioRead` and their
`...Fails` are transfers; `FlushOne` repeats while `Bflush` finds a marked buffer.
`latest` and `spoiled` are history: what a caller last stored in a block, and
which blocks had a failed transfer.

Callers overlap in every way, since nothing in the code orders them, and the code
does not keep buffers apart: a miss never takes `b_wait_free_lock`; two misses on
one block each give it a buffer; `Brelse` puts the buffer in the list before it
unlocks that mutex (274), so that whoever took the buffer in between has his lock
removed; `Bflush` takes marked buffers without it. All of that is in the model, and
goes on: `apart` is history, false from the moment at which a buffer goes to two
processes or a block gets two buffers, `twice` that a buffer has been released a
second time. Only a process that takes the head of the list for a buffer
(`TakeHead`) stops the model (`Lost`). `Exclusive` is what a comment of the code
says, and is refuted. `LocksHeld` and `WaitersProceed` hold through all of this;
`FreeListOK`, `Coherent` and `NothingLost` until `apart` ends, which a
single user never brings about (`OneUserIsApart`). A release between the look at
the empty list and `down` is lost, so no progress of a miss is claimed. One device,
one buffer at a time per process.

**`InodeTable`** is `IAlloc` and `IFree` with what gives their results a
meaning: the creation up to the directory entry (`Insert`, `Link`, and their
failures), eviction (`Delete`, `IUpdate`, `IFree...`, `Unhash`), the scan one
visit at a time, write-back, `Update`, and `Remount`. The kernel's inode hash is
external: `ilookup` waits for an inode in eviction, `insert_inode_locked` refuses a
number in it. A visit of the scan is `ScanUsed`, or `ScanStore`, `ScanCount` and
`ScanTest`, each one access of the table; `BlockEnd` is the end of a block. `at` is
the inode on the disk that the scan is at, `ino` the code's variable, which lags
behind when the table, full at `ScanTest`, is popped before `BlockEnd`. `kept`
records whether the scan keeps others from its buffer, which decides whether an
eviction that the scan waits for can finish.

The count is an integer without bounds, as nothing keeps it within the table when
calls overlap: two `IFree`s may raise it above the table, two pops lower it below
0, and then `Full`, the code's unsigned test, takes it for full. An access outside
`s_inode` is the step `Damage`; it ends `sound`, and nothing is followed after it.
`orderly` is history: it becomes false when two uses of the table overlap or a
mount brings back an older table, the two ways in which the code loses track of
numbers. That the count and all accesses stay within the table while it is true is
part of `TableOfFree`.

**`BlockMap`** is `Bmap`, `ReadI`, `WriteI` (block by block) and `ITrunc` on
several files that share the allocator, taken by its promise. `mem` is what
`Bread` returns, `disk` what it returns after the buffer has been used for
something else; they differ while a block cleared by `Alloc` has not been
marked for writing. `SlotOf`, `MidOf`, `LeafOf` are the arithmetic of `Bmap`.
`DirectLink` is the store at `Inode.cc:376-377`, which reads `b_blkno` of a
released buffer; `Drop` is the eviction of an unmarked buffer; `IoFails` is a
failed read in `ReadI` or `WriteI`, which hand the error to `Brelse` as a buffer.
They may end `sound`, and nothing is followed after that, because what follows
is unbounded damage; the steps themselves are in the model. A block that is not in
use counts as `Data`. Blocks that a failed `ITrunc` leaves count as the
file's: they stay named by an inode nothing reaches.

**`InodeTwins`** is one file's mode and size, in `inode`, `si` and `dinode`.
`Enter` .. `Leave` are `file_read` and `file_write` inside the inode's lock,
with `conform_s2v` and `conform_v2s` in three steps each, because `WbBegin` ..
`WbUpdate`, the kernel's call of `write_inode`, may come between any two: bits
cleared, bits set, size. `SetAttr` is external: the module installs no
`setattr`, so that chmod and truncate change the kernel's inode only. `want` is
history, what the calls have asked for. `sound` ends when a step of the
code overwrites a change: a call that begins to copy from `si` while a `SetAttr`
is in `inode` only (fileops.c:22, 54) or while the mode in `si` is half
assembled, a writeback that copies a size over one that `WriteI` has just raised
(inode.c:231), an eviction whose write fails. These
steps stay in the model; `NothingUnsaved` and `CatchesUp` do not ask for `sound`:
whatever is left is the same everywhere.

**`Namespace`** is what the operations on names promise: a function from names
to inodes per directory, and what one operation may change. **`Directory`** is
`DELocate` and the operations of `fileops.c` on real directory files: `slots`
are sequences of entries, free ones among them; `Vacancy`, `Match` and
`IsEmpty` are the modes CREATE, OPEN/DELETE and CHECKEMPTY. `nlink` and
`i_nlink` are the counts of the kernel's and of the C++ inode, and each
operation copies between them where the code does. An operation is one step:
the VFS holds the locks of the directories it changes, of the file it removes,
and, for a rename of a directory, of the whole volume. What the kernel refuses
before it calls (`MayRename`, `Live`) is external. Failures that change nothing
are left out; the others are actions: `MkdirNoInode`, `MkdirFails`,
`RmdirBlind`, `RenameLoses`, `RenameHalf`. `sound` becomes false when a step
breaks the tree or a count that no later step repairs (a failed write in a
rename, a blind rmdir, a directory moved to the root, a count that comes back),
and nothing is followed after it; `clean` when a mkdir has failed, of which
there is one.

**`Listing`** is `secondfs_readdir` with `DELocate` in its mode LIST, entry by
entry, for a reader that calls until it gets nothing. `pos` is `ctx->pos`,
counted in entries; `Shift` are the two places by which it is ahead of the file
where the dots have no entries. Names come and go between two calls (`Add`,
`Remove`), as the kernel holds the directory's lock in each. `Refuse` is an
entry for which the reader's buffer has no room: the code has moved the position
behind it (959), so that it is not listed at all. `BlockFails` ends a call early
and without an error. Positions stay those of the file's entries: the reader
does not seek.

## The runs

`cd tla; tlc -config X.cfg M` for each row; times are of two workers.

| Run | Module, cfg | Shows | Bounds |
|---|---|---|---|
| `free_list` | MCFreeList, `MCFreeList` | `ListedOnce`, `LoadsOnlyGroups`, `FsckAccepts`; the list implements `BlockAllocator` (`Implements`); every call returns (`CallsReturn`) | 4 blocks, table of 2, 2 processes, no faults |
| `free_list_faults` | MCFreeList, `MCFreeListFaults` | `TypeOK`, `NoDoubleAlloc`, `SerialInv` (with `LockHeld` in it), when reads and writes of groups fail | 4 blocks, table of 2, 3 processes |
| `super_sync` | MCSuperBlockSync, `MCSuperBlockSync` | `SyncTypeOK`, `CleanMeansListed`; the list implements `BlockAllocator` across unmounts and mounts (`Implements`) | 2 blocks, table of 2, 2 processes, the write of the sector may fail |
| `buffer_solo` | MCBufferManager, `MCBufferManagerSolo` | `OneUserIsApart`, `FreeListOK`, `Coherent`, `NothingLost`, with delayed writes, flushes, double releases and failed transfers, about 2 min | 2 buffers, 3 blocks, 2 values, 1 process |
| `buffer_waiters` | MCBufferManager, `MCBufferManagerWaiters` | `TypeOK`, `LocksHeld`, `WaitersProceed`, also when both have the buffer | 1 buffer, 2 blocks, 2 processes |
| `buffer_two_users` | MCBufferManager, `MCBufferManagerTwoUsers` | violates `Exclusive`: one process misses and takes the buffer, the other hits on it | 1 buffer, 2 blocks, 2 processes |
| `inode_table` | MCInodeTable, `MCInodeTable` | `TypeOK`, `ScanLocked`, `CreatesApart`, `TableOfFree`, `NumberIsNew`, with remounts | 3 inodes, table of 2, 1 of its entries in the first sector, 2 processes |
| `inode_scan` | MCInodeTable, `MCInodeTableScan` | violates `ScanEnds`: the scan waits for an eviction that waits for its buffer | 3 inodes, 2 processes, no remounts |
| `block_map` | MCBlockMap, `MCBlockMap` | `TypeOK`, `MapsApart`, `NothingLost`, `FreshIsZero`, `MapStable` | 2 files, 4 blocks, 1 direct + 1 single + 1 double entry, 2 per index block, about 1 min |
| `directory` | MCDirectory, `MCDirectory` | `TypeOK`, `EnoughLinks`, `ExactLinks`, `TreeOK`; each step is one of `Namespace` (`KeepsPromise`) | root + 3 inodes, 2 names, 2 entries besides the dots, blocks of 2 entries, about 2 min |
| `twins` | MCInodeTwins, `MCInodeTwins` | `TypeOK`, `KeepsAttributes`, `NothingUnsaved`, `CatchesUp` | 2 processes, 2 modes, files of at most 2 blocks, failing disk |
| `listing` | MCListing, `MCListing` | `TypeOK`, `OnceEach`, `ListingEnds` | 3 names, 4 entries besides the dots, blocks of 2 entries, buffers of 1 to 3 entries |

Why these bounds are enough for the cases that matter. A table of two entries
on four blocks needs two index blocks, so groups are loaded and stored over
each other's borders; 3 processes let one wait while two contend, or while one
is between the unlock of a `Free` and its stores. Two buffers for three blocks
force evictions of marked buffers and their second release; one buffer for two
processes and two blocks is waited for, taken by a hit and a miss at once, and
given another block under a waiter. What several users of more buffers keep is
left to the proofs, which hold for any number. Two table entries for three
inodes empty the table, so the scan runs, and run out of inodes; the number of
an inode lags behind the disk only in a scan over more of them, which no run
has and the proofs allow. With one index block of each kind and two entries in
it, a file on four blocks reaches the double indirect part with one data
block, and allocation fails at each level. Three inodes besides the root give
a directory in a directory, a file with two names, and renames that replace
either; a block of two entries lies between the dots and the rest. Two blocks
under a table of two make one group, which is loaded and stored while `Update`
copies. Two sizes above 0 are enough for a size to be lost, and a reader, a
writer and the flusher for every pair of copies to overlap. Four entries in
blocks of two, read by calls that take one to three, put the end of a call
before, behind and in the middle of a block and at a free entry. `HasRoom`
bounds a directory at `Room`, `opened` holds one file; the modules name the
few steps left out for a bound (a mount after a failed write, a second
failed mkdir). `s_ninode` and the semaphore need no bound: overlapping calls
raise or lower them by one per process, and an access outside `s_inode` ends
the run.
Deadlock is not checked where the bounded system really may stop: outside the
`sound` part, when the cache is `Lost` or processes wait for a buffer's release
that was missed, when a call that returned without unlocking blocks all others,
or when every process is idle and nobody is obliged to call. `twins` and
`listing` check it (in `listing` names go on coming and going when the reader has
ended).

Symmetry is used only in runs of safety properties.

## Fairness

`FreeList!FairSpec` and `BufferManager!FairSpec`: a process in the middle of a
call goes on (weak fairness of its steps: the kernel schedules a runnable
thread), and a mutex is granted in turn (strong fairness of the steps that
acquire one: the kernel's mutex queues its waiters and hands over). A caller
that has a buffer releases it, as every caller in `Inode.cc` and
`FileSystem.cc` does. Nobody is obliged to begin a call. `InodeTable!FairSpec`
is weak fairness of the processes in the middle of a call only.
`InodeTwins!FairSpec` is weak fairness of `Writeback`: the kernel's flusher comes
round to a dirty inode and finishes what it has begun. Calls need none:
`CatchesUp` speaks of runs in which the file is at last left alone.
`Listing!FairSpec` is weak fairness of `Reading`: the reader is a program like
`ls`, which calls again until it gets nothing. Nothing is assumed of the others,
who may add and remove names for ever. `SuperBlockSync` states no liveness:
nobody is obliged to call `sync`.

## The proofs

`tlapm M.tla` checks the module M; all eight take about ten minutes on four
cores. The theorems hold for every number of blocks, buffers, table entries, inodes,
names and processes that the `ASSUME`s of the modules allow; TLC evaluates those
assumptions in every run. Every safety invariant and action property of the
passing runs is stated by a theorem, and so are the refinements of
`BlockAllocator` and `Namespace`.

| Module | Assumes of the workload | Invariant | Theorems |
|---|---|---|---|
| `FreeListProofs` | nothing | `SerialInv` | `SerialCorrect`, `TypeCorrect`, `LockCorrect`, `NoDoubleAllocCorrect`, `ListedOnceCorrect` |
| | `NoFaults`: no transfer fails | `ListInv` | `ListCorrect`, `LoadsOnlyGroupsCorrect`, `ImplementsCorrect`, `FsckAcceptsCorrect` |
| `SuperBlockSyncProofs` | nothing; transfers of groups succeed | `SyncInv` | `SyncCorrect`, `SyncTypeCorrect`, `CleanMeansListedCorrect`, `SyncImplements` |
| `BufferManagerProofs` | nothing | `TypeInv`, `UseInv`, `OneUserInv`, `FreeInv`, `DataInv` | `TypeCorrect`, `LocksCorrect`, `OneUserCorrect`, `FreeListCorrect`, `CoherentCorrect`, `NothingLostCorrect` |
| `InodeTableProofs` | nothing | `HashInv`, `NumbersInv` | `InodeTypeCorrect`, `ScanLockedCorrect`, `CreatesApartCorrect`, `NumbersCorrect`, `TableOfFreeCorrect`, `NumberIsNewCorrect` |
| `BlockMapProofs` | nothing | `BlocksInv` | `BlocksCorrect`, `TypeCorrect`, `MapsApartCorrect`, `NothingLostCorrect`, `FreshIsZeroCorrect`, `MapStableCorrect` |
| `DirectoryProofs` | nothing | `DirInv` | `DirCorrect`, `TypeCorrect`, `ExactLinksCorrect`, `EnoughLinksCorrect`, `TreeOKCorrect`, `KeepsPromiseCorrect` |
| `InodeTwinsProofs` | nothing | `KeepInv`, `SaveInv` | `TypeCorrect`, `KeepsAttributesCorrect`, `NothingUnsavedCorrect` |
| `ListingProofs` | nothing | `OnceInv` | `OnceInvCorrect`, `TypeCorrect`, `OnceEachCorrect` |

"Nothing" is about the constants and the order of calls: no theorem assumes that
callers keep to an order. Where a module has `sound`, `apart` or `orderly`, the
properties and the invariants speak of the behaviours up to the step that ends it,
and that step, which the code takes, is an action of the module, for the reasons
given there: the theorems say that nothing else does harm.

In every module the proof is that the invariant holds at first, that each action
keeps it (a step per action, and below it a step or a lemma per conjunct that the
action can disturb), and that it implies the properties. Why each invariant is
needed:

**`FreeListProofs`.** The arithmetic of mkfs (`InitCountRange` and the lemmas on
`%` before it) shows that the list it writes is one. `NoDoubleAlloc` alone is not
inductive: that a popped block belongs to no file needs that no listed block does
(`ListedOnce`); that needs, when a group is loaded, that the groups on the disk
name different blocks (`ListedOnce` over all of `chain`), that an index block is
the bottom entry of the group that names it and of no other (`IndexAtBottom`),
that a block holds a group just when it is in `chain` (`GroupsInChain`), and what
each program counter knows about the height of the table and its top entry
(`TableHeight`). `SoundInv` is the conjunction, and `SerialInv` says that it holds
while `sound` does. It survives failing transfers and every overlap of calls but
the one named by `MeetsStores`: a process between the unlock of its `Free` and the
second store counts as busy with the table (`OneBusy`), and whoever works on the
table meanwhile ends `sound`.

That nothing is *lost*, and so that "no space" is the truth, needs more, and no
failed transfer. `ListInv` adds that the index blocks form one path from the table
to the 0 that ends the list (`Linked`; `PathShorter` is a load, `PathLonger` a
spill), that this 0 is a bottom entry (`EndAtBottom`), and who waits for an answer
(`Answers`). Under it each step is one of `BlockAllocator` or a stutter
(`StepRefines`). For fsck two facts are added, that a quiet table is not empty
(`Risen`) and that every block is free or held (`Complete`, which each abstract
step keeps). `Walk` is a recursive function; `WalkIs` shows that it takes the path
of `Linked` hop by hop, and `PathFits`, by counting, that `NBlocks + 1` turns are
enough.

**`SuperBlockSyncProofs`** is `ListInv` with what `Update` has copied so far.
Between its two reads of the table any steps of `Alloc` and `Free` may come, and
then the copy is of no use; the argument is that whoever changes the table will
still set `s_fmod` (`WillMark`), so that only when nobody will (`Settled`) the copy
must agree with the table (`CopyAgrees`), entry by entry or in naming no block.

**`BufferManagerProofs`.** The device queue is handled by `FrontIs` and
`ToFrontIs`, the free list by `Ring`: the buffers nobody has are linked in one ring
through the head of the list, forward and back. `RingWithout` is `NotAvail`,
`RingWith` is `Brelse`, and `RingWalk` says that a walk finds them all (`FreeInv`).
While `apart` holds, a buffer has one user, a block one buffer, and the buffer of a
call is of its block (`UseInv`); `DataInv` relates memory, disk and `latest` on top
of that. `OneUserInv` is that a single process never ends `apart`: what it has
found is still of its block when it takes it. `LocksHeld` is inductive beside
`TypeInv`, and needs no `apart`. A double release breaks the ring (a buffer is
appended twice), so that `FreeListOK` is claimed until `twice` only; the other
properties are not affected, since they do not rest on the list.

**`InodeTableProofs`.** `HashInv` adds to `TypeOK` and `ScanLocked` who has a
number at which place: a made inode is in the hash and not in eviction
(`MadeInHash`), an eviction has its inode marked (`EvictFreeing`) and to itself
(`EvictsApart`), a marked inode has an eviction (`FreeingHeld`). So, however
creations overlap, and though the table hands out duplicates, two never both
succeed with one number. `OrderInv` adds what the table tells while its uses do not
overlap: each entry, that which is just being read included (`Shown`), is listed
once, free on the disk and out of memory or on its way out, and in nobody's hands
(`ShownOnce`, `ShownFree`, `ShownNotInHand`); the scan finds numbers in ascending
order, so that it lists none twice (`KnowsScan`), and its `ino` is the inode it is
at, as nobody pops the table under it. Of the count it says that it stays within
the table, so that no step is a `Damage` while uses do not overlap (`NumbersInv`).

**`BlockMapProofs`.** A place is an entry of `i_addr` or of an index block below
it (`Spots`). `Apart` says that each block is free, in the hands of a process or
in one place; that needs that what is followed as an index block is one
(`TablesOK`), and that the locals of `Bmap` and `ITrunc` are what the maps say
(`StageOK`), at every step of both. `FreshOK` is that what is on the disk and in
memory under a written or an unwritten block of a file is right. A step of one
file leaves the places of the others and what is in them alone (`RefsSame`, `Kept`).

**`DirectoryProofs`.** `DirInv` is that the entries in use are those of a tree
below the root, with the right dot entries where a volume has them, and that both
counts of every inode agree with its entries as far as failures allow. Each
operation is described by the entries it adds and removes; that there is no
cycle is `RootAbove`: every set of directories without the root has a member whose
name is outside it. A rename keeps that because of what the VFS refuses
(`MayRename`). `KeepsPromise` follows, as an entry in use tells a name.

**`InodeTwinsProofs`.** `AskedFor` follows what the calls have asked for through
the copies at every program counter; `SaveInv` how far a writeback of an inode that
nobody has changed since has come.

**`ListingProofs`.** `OnceInv` relates the position to what the reader has got: what
is emitted has been passed, and what was passed, was there all the time and found
room has been emitted once.

Only model-checked: liveness (`CallsReturn`, `WaitersProceed`, `CatchesUp`,
`ListingEnds`) and the violation of `ScanEnds`, being out of the prover's reach.
There is no induction over data in the proofs, which needs theorems with an
operator as parameter; where one over numbers is wanted (the least free entry of a
directory, the walk of fsck), it is replaced by the least member of a set
(`LeastOf`, `LeastNumber`), and for linked structures by a ring or path that is
given as a whole.

## What the code does otherwise

Two runs, `buffer_two_users` and `inode_scan`, end in a violation of what a comment
of the code says; the other entries were met while modelling and are argued at
the lines, most of them as actions of the modules. All are
in `PROJECT.json` under "findings", with quotations. In short:

* `Free` pushes after it has unlocked, into a table that others work on. A failed
  read in `Alloc` leaves `s_nfree` at 0: the next `Free` starts a new list, and
  the rest of the volume is lost, the next `Alloc` reads `s_free[4294967295]`. After
  a failed write in `Free` the block is entered all the same, and a later `Alloc`
  loads whatever it holds as a group.
* `Update` copies tables of which half is changed, which `s_fmod` was meant to
  prevent; the next `Update` repairs it, except after an `Alloc` that found no
  space, which does not set `s_fmod`: then a table of 0 entries may stay on the
  disk, and the first `Alloc` after the next mount reads outside `s_free`. It clears
  `s_fmod` before a write that may fail, and unmount does not try again. Once
  `s_ilock` is kept (below), it writes nothing any more.
* `GetBlk` releases an evicted marked buffer twice (`BufferManager.cc:209`); the
  second append makes the last buffer its own `av_back`, and a later `NotAvail`
  leaves it in the list. `FreeListOK` is therefore claimed until the first
  double release; `OneUserIsApart`, `Coherent` and `NothingLost` hold even so.
* A miss in `GetBlk` takes a buffer without its `b_wait_free_lock`, so that a search
  for the new block returns it while it is in use (`buffer_two_users`); two misses may
  take one buffer, or two for one block. Two overlapping `Brelse` raise the
  semaphore to 2.
* `IAlloc` pops after it has unlocked and `IFree` never locks: the count leaves
  the table in both directions, and the scan, when a pop comes between its two tests
  for a full table, goes on with numbers that are not those of the inodes it reads.
* `IAlloc` keeps `s_ilock` when no inode is left. The scan may wait for ever
  (`inode_scan`). `Update` writes one sector of two, and `IAlloc` never sets
  `s_fmod`: the next mount brings back a table with the numbers of files.
* `Bmap` reads a block number from a released buffer, releases new index blocks
  unmarked when a later allocation fails, and does not test what `Bread`
  returns; `ReadI` and `WriteI` release an error code as a buffer.
* `unlink` leaves the old count in the C++ inode, from where a read brings it
  back, so that a file that is open, unlinked and read is never deleted. `set_link`
  writes 0 for the root into `..`. `rename` answers success without renaming when a
  look-up fails. `rmdir` takes a failed look-up for "empty". A failed `mkdir` leaves counts raised. A listing skips
  the entry that did not fit the reader's buffer, and one whose block cannot be
  read ends as if it were complete.
* `write_inode` copies the kernel's size over one that a running write has just
  raised, and the end of the file is lost. chmod and truncate change the kernel's
  inode only, and a later read or write may revert them; blocks behind the new
  size are not given back. `fsync` does not write the inode.

## What is not modelled

* A crash between two writes. The code orders no writes, keeps no log and
  repairs nothing at a mount, so that no property of the list or of the map
  holds after one; what an orderly unmount leaves is in `SuperBlockSync` and
  `InodeTable`.
* All ten buffers kept by processes that wait for an eleventh (`ITrunc` keeps
  two and `Free` takes a third; `Bmap` keeps one while `Alloc` takes another
  under `s_flock`). The code has this deadlock, as nothing limits the number of
  such processes; `BufferManager` is checked with one buffer per process.
* Two devices in one cache.
* Times; the bytes of a block and the user's buffer; blocks behind a truncated
  size. Names longer than 28 bytes, which `add_link` cuts and `lookup` refuses.
* A reader that seeks in a directory.
* Mount and module initialisation beyond the SuperBlock: sequences of kernel
  allocations and their undoing. `Bawrite`, `Breada`, `Swap`, `FormatDevTable`
  and the parts of `FileOperations.cc` under `#if false`, which nothing calls.
* The printing half of `fsck.c`, the argument parsing of `mkfs.c`, the build.

## Plan

Order of work, the most important behaviour first; the first eight are done.

1. `BlockAllocator`, `FreeList`, `FreeListFsck`.
2. `BufferManager`: the cache that everything goes through.
3. `InodeTable`.
4. `BlockMap` over `BlockAllocator`.
5. `Namespace`, `Directory`.
6. `SuperBlockSync`: `Update` and the mounts around `FreeList`.
7. `InodeTwins`: the two inodes and the disk.
8. `Listing`: `readdir`.
9. `FreeList` over a pool of buffers: processes that keep one buffer and wait
   for another with `s_flock` held. With P processes and at least 2P + 1 buffers
   none should wait for ever. Two devices in `BufferManager`.

Theorems for 1 to 8 are in the `...Proofs` modules; item 9 would come with its own:
that a process which waits for a buffer and one which waits for `s_flock` never
wait for each other when there are buffers enough.
