--------------------------- MODULE SuperBlockSync ---------------------------
(***************************************************************************)
(* The SuperBlock in memory and on the disk.  Update copies the table of   *)
(* free blocks to its sector while Alloc and Free of FreeList go on;       *)
(* unmount calls it once more, and the next mount loads what is on the     *)
(* disk.  s_nfree and s_free are in the first of the two sectors, the only *)
(* one that Update writes; s_fmod is in the second.                        *)
(*                                                                         *)
(* Index blocks are written at once (Bwrite in Free), and what files wrote *)
(* is flushed before a volume goes: disk is what the next mount finds.     *)
(***************************************************************************)
EXTENDS FreeList

CONSTANT UpdateMayFail  \* TRUE: the write of the sector may fail

ASSUME UpdateAssumption == UpdateMayFail \in BOOLEAN

\* The transfers of groups succeed here; FreeList has their failures.
ASSUME GroupsAssumption == Faults = {}

VARIABLES sector,  \* s_nfree and s_free in the sector on the disk
          upd,     \* where Update is; its s_update_lock lets one in at a time
          img,     \* the buffer it fills
          stale    \* history: the last write of the sector failed

syncVars == <<sector, upd, img, stale>>
allVars  == <<vars, syncVars>>

\* A table as a sector holds it.  Entries above the count are never read: they are
\* left out.
Table(n, free) ==
    [n |-> n, free |-> [i \in Entries |-> IF i < n THEN free[i] ELSE NoBlock]]

NoImage == Table(0, sfree)

SyncInit ==
    /\ Init
    /\ sector = Table(nfree, sfree)
    /\ upd = "idle"
    /\ img = NoImage
    /\ stale = FALSE

-----------------------------------------------------------------------------
(* Alloc and Free, as they are.                                             *)

TableStep(p) ==
    /\ Step(p) \/ Damage(p)
    /\ UNCHANGED <<sector, upd, img, stale>>

-----------------------------------------------------------------------------
(* FileSystem::Update.  It returns at once when another Update runs, when   *)
(* nothing has changed, or when either table is locked: that s_ilock may be *)
(* is a reason more for UpdBegin not to happen.                             *)

At(here, there) == upd = here /\ upd' = there

UpdBegin ==
    /\ At("idle", "clear")
    /\ fmod /\ flock = NoProc
    /\ UNCHANGED <<vars, sector, img, stale>>

UpdClear ==
    /\ At("clear", "count")
    /\ fmod' = FALSE
    /\ UNCHANGED <<nfree, sfree, flock, disk, used, pc, blk, top, ret, chain,
                   sound, sector, img, stale>>

\* The copy of 512 bytes meets the count first.
UpdCount ==
    /\ At("count", "entries")
    /\ img' = Table(nfree, [i \in Entries |-> NoBlock])
    /\ UNCHANGED <<vars, sector, stale>>

UpdEntries ==
    /\ At("entries", "write")
    /\ img' = Table(img.n, sfree)
    /\ UNCHANGED <<vars, sector, stale>>

\* Mutant: s_fmod is cleared when the sector has been written.
UpdWriteClears ==
    /\ At("write", "idle")
    /\ sector' = img
    /\ stale' = FALSE
    /\ img' = NoImage
    /\ fmod' = FALSE
    /\ UNCHANGED <<nfree, sfree, flock, disk, used, pc, blk, top, ret, chain, sound>>

UpdWrite ==
    /\ At("write", "idle")
    /\ sector' = img
    /\ stale' = FALSE
    /\ img' = NoImage
    /\ UNCHANGED vars

\* Bwrite fails: s_fmod has been cleared all the same.
UpdFails ==
    /\ At("write", "idle")
    /\ UpdateMayFail
    /\ stale' = TRUE
    /\ img' = NoImage
    /\ UNCHANGED <<vars, sector>>

Update ==
    UpdBegin \/ UpdClear \/ UpdCount \/ UpdEntries \/ UpdWrite \/ UpdFails

-----------------------------------------------------------------------------
(* Unmount and mount again: the kernel lets nobody in meanwhile.            *)

Idle == upd = "idle" /\ \A p \in Procs : pc[p] = "idle"

\* What put_super's Update leaves in the sector.
LastSector == IF fmod THEN Table(nfree, sfree) ELSE sector

\* put_super runs Update, and LoadSuperBlock reads the sector back.  Bound: a volume
\* whose last table has not reached the disk is not mounted again: a write failed, or
\* s_ilock was locked (an IAlloc that found no inode keeps it for ever).  A count that
\* is not one of a table is refused: the volume cannot be mounted any more.
Remount ==
    /\ Idle
    /\ fmod \/ ~stale
    /\ LastSector.n \in 0 .. StackSize
    /\ sector' = LastSector
    /\ nfree' = LastSector.n
    /\ sfree' = LastSector.free
    /\ fmod' = FALSE
    /\ stale' = FALSE
    /\ UNCHANGED <<flock, disk, used, pc, blk, top, ret, chain, sound, upd, img>>

-----------------------------------------------------------------------------
SyncNext == sound /\ (Update \/ Remount \/ \E p \in Procs : TableStep(p))

SyncSpec == SyncInit /\ [][SyncNext]_allVars

-----------------------------------------------------------------------------
(* Correctness                                                              *)

\* Type invariant of the sector and of Update.
SyncTypeOK ==
    /\ TypeOK
    /\ sector \in [n : -1 .. StackSize, free : [Entries -> Blocks \cup {NoBlock}]]
    /\ img \in [n : -1 .. StackSize, free : [Entries -> Blocks \cup {NoBlock}]]
    /\ upd \in {"idle", "clear", "count", "entries", "write"}
    /\ stale \in BOOLEAN

\* The blocks a table names.
Named(table) == { table.free[i] : i \in { j \in Entries : j < table.n } } \ {NoBlock}

\* When nothing runs and s_fmod is clear, the sector names the blocks the table names:
\* every Alloc and Free that an Update overlapped has set s_fmod again after Update
\* cleared it (lines 171, 517, 535 and 599), whatever half of its work was copied.
\* The names are what is compared: an Alloc that finds no space takes the count to 0
\* and back to 1, does not set s_fmod, and leaves the sector with 0 entries.
CleanMeansListed ==
    Idle /\ ~fmod /\ ~stale => Named(sector) = Named(Table(nfree, sfree))
=============================================================================
