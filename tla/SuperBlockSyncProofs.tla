------------------------ MODULE SuperBlockSyncProofs ------------------------
(***************************************************************************)
(* The SuperBlock and its sector, for every volume, table size and set of  *)
(* processes: the list survives every mixture of Alloc, Free, Update and   *)
(* unmounting, and a clean SuperBlock is one whose blocks are on the disk. *)
(***************************************************************************)
EXTENDS SuperBlockSync, FreeListProofs

\* A table that names no block: it is empty, or the 0 that ends the list is all of it.
Ends(n, free) == n <= 0 \/ (n = 1 /\ free[0] = NoBlock)

\* A copied table, and the one in memory: the same, or both without a block.
Agrees(n, free) ==
    \/ n = nfree /\ \A i \in Entries : i < n => free[i] = sfree[i]
    \/ Ends(n, free) /\ Ends(nfree, sfree)

\* A process that has changed the table, or is about to, and will set s_fmod when it
\* is done.
WillMark(p) ==
    \/ Freeing(p)
    \/ Carrying(p)
    \/ pc[p] = "take" /\ nfree >= 0 /\ sfree[nfree] # NoBlock

Settled == ~fmod /\ \A p \in Procs : ~WillMark(p)

\* Where the copy of the table is that the disk will have.
CopyAgrees ==
    /\ upd = "idle" /\ ~stale => Agrees(sector.n, sector.free)
    /\ upd = "entries" => Agrees(img.n, sfree)
    /\ upd = "write" => Agrees(img.n, img.free)

\* The inductive invariant: as long as nobody has anything to mark, the copy agrees.
SyncInv ==
    /\ ListInv
    /\ SyncTypeOK
    /\ upd = "clear" => fmod
    /\ Settled => CopyAgrees

-----------------------------------------------------------------------------
(* Alloc and Free.                                                          *)

Does(p) == Alloc(p) \/ FreeBody(p) \/ \E b \in Blocks : FreeCall(p, b)

LEMMA TableStepIs ==
    ASSUME NEW p \in Procs, TableStep(p)
    PROVE  /\ Does(p) \/ UNCHANGED listVars
           /\ UNCHANGED <<sector, upd, img, stale>>
           /\ sound \in BOOLEAN => sound' \in BOOLEAN
  BY DEF TableStep, Step, Damage, Does

\* After a step that leaves nobody with anything to mark, the table is as it was, or it
\* names no block and did not before.
LEMMA QuietStep ==
    ASSUME NoFaults, ListInv, NEW p \in Procs, Does(p), Settled'
    PROVE  /\ Settled
           /\ sfree' = sfree
           /\ nfree' = nfree \/ (Ends(nfree, sfree) /\ Ends(nfree, sfree)')
  <1> USE SizeAssumption, ProcAssumption
      DEF NoFaults, ListInv, SoundInv, TypeOK, LockHeld, LockedPcs, OneBusy, Freeing,
          TableHeight, Goto, Acquire, Release, Return, AllocPcs, FreePcs, Entries,
          Settled, WillMark, Carrying
  <1>1. CASE Alloc(p)
    <2>1. CASE AllocCall(p)
      BY <2>1 DEF AllocCall
    <2>2. CASE AllocLock(p)
      BY <2>2 DEF AllocLock
    <2>3. CASE AllocPop(p)
      <3>1. Settled /\ sfree' = sfree /\ nfree' = nfree - 1
        BY <2>3 DEF AllocPop
      <3>2. nfree' >= 0 => sfree[nfree'] = NoBlock
        BY <2>3 DEF AllocPop
      <3>3. nfree' >= 0 => nfree' \in Entries /\ Listed(NoBlock, nfree')
        BY <3>1 DEF Listed, Live
      <3>4. nfree' >= 0 => nfree' = 0
        BY <3>2, <3>3 DEF EndAtBottom, Entry, Heads
      <3>5. nfree \in Int
        OBVIOUS
      <3>6. Ends(nfree, sfree) /\ Ends(nfree, sfree)'
        BY <3>1, <3>2, <3>4, <3>5 DEF Ends
      <3> QED
        BY <3>1, <3>6
    <2>4. CASE AllocTake(p)
      BY <2>4 DEF AllocTake, Blocks, NoBlock
    <2>5. CASE AllocEmpty(p)
      <3>1. nfree = 0 /\ sfree[0] = NoBlock
        BY <2>5 DEF AllocEmpty, EndAtBottom
      <3>2. Settled /\ sfree' = sfree /\ nfree' = 1
        BY <2>5 DEF AllocEmpty, Blocks, NoBlock
      <3> QED
        BY <3>1, <3>2 DEF Ends
    <2>6. CASE AllocKeep(p)
      BY <2>6 DEF AllocKeep
    <2>7. CASE AllocLoad(p)
      <3>1. WillMark(p)'
        BY <2>7 DEF AllocLoad
      <3> QED
        BY <3>1
    <2>8. CASE AllocLoadFails(p)
      BY <2>8 DEF AllocLoadFails
    <2>9. CASE AllocClear(p)
      BY <2>9 DEF AllocClear
    <2> QED
      BY <1>1, <2>1, <2>2, <2>3, <2>4, <2>5, <2>6, <2>7, <2>8, <2>9 DEF Alloc
  <1>2. CASE FreeBody(p)
    BY <1>2 DEF FreeBody, FreeLock, FreeFirst, FreeRoom, FreeSpill, FreeSpillFails,
                FreeUnlock, PushSlot, PushCount
  <1>3. ASSUME NEW b \in Blocks, FreeCall(p, b) PROVE FALSE
    BY <1>3 DEF FreeCall
  <1> QED
    BY <1>1, <1>2, <1>3 DEF Does

\* No step of a process takes the mark off.
LEMMA MarkStays ==
    ASSUME NEW p \in Procs, Does(p), fmod = TRUE
    PROVE  fmod'
  BY DEF Does, Alloc, AllocCall, AllocLock, AllocPop, AllocTake, AllocEmpty, AllocKeep,
         AllocLoad, AllocLoadFails, AllocClear, FreeBody, FreeLock, FreeFirst, FreeRoom,
         FreeSpill, FreeSpillFails, FreeUnlock, PushSlot, PushCount, FreeCall

LEMMA TableStepInv ==
    ASSUME NoFaults, SyncInv, sound, NEW p \in Procs, TableStep(p)
    PROVE  SyncInv'
  <1>1. UNCHANGED <<sector, upd, img, stale>>
    BY TableStepIs
  <1>2. ListInv'
    <2>1. Next
      BY DEF TableStep, Next
    <2> QED
      BY <2>1, ListNext DEF SyncInv
  <1>3. SyncTypeOK'
    BY <1>1, <1>2 DEF SyncInv, SyncTypeOK, ListInv, SoundInv
  <1>4. upd' = "clear" => fmod'
    <2>1. CASE Does(p)
      BY <1>1, <2>1, MarkStays DEF SyncInv, SyncTypeOK, TypeOK
    <2>2. CASE UNCHANGED listVars
      BY <1>1, <2>2 DEF SyncInv, listVars
    <2> QED
      BY <2>1, <2>2, TableStepIs
  <1>5. ASSUME Does(p), Settled' PROVE CopyAgrees'
    <2>1. Settled /\ CopyAgrees
      BY <1>1, <1>5, QuietStep DEF SyncInv
    <2>2. /\ sfree' = sfree
          /\ nfree' = nfree \/ (Ends(nfree, sfree) /\ Ends(nfree, sfree)')
      BY <1>1, <1>5, QuietStep DEF SyncInv
    <2>3. ASSUME NEW n \in Int, NEW free, Agrees(n, free) PROVE Agrees(n, free)'
      <3>1. CASE nfree' = nfree
        BY <2>2, <2>3, <3>1 DEF Agrees, Ends
      <3>2. CASE Ends(nfree, sfree) /\ Ends(nfree, sfree)'
        BY <2>2, <2>3, <3>2, SizeAssumption DEF Agrees, Ends, Entries
      <3> QED
        BY <2>2, <3>1, <3>2
    <2>4. sector.n \in Int /\ img.n \in Int
      BY SizeAssumption DEF SyncInv, SyncTypeOK
    <2> QED
      BY <1>1, <2>1, <2>2, <2>3, <2>4 DEF CopyAgrees
  <1>6. ASSUME UNCHANGED listVars, Settled' PROVE CopyAgrees'
    <2>1. Settled /\ UNCHANGED <<nfree, sfree>>
      BY <1>6 DEF Settled, WillMark, Freeing, Carrying, listVars
    <2> QED
      BY <1>1, <2>1 DEF SyncInv, CopyAgrees, Agrees, Ends
  <1> QED
    BY <1>2, <1>3, <1>4, <1>5, <1>6, TableStepIs DEF SyncInv

-----------------------------------------------------------------------------
(* Update.                                                                  *)

\* The list does not depend on s_fmod.
LEMMA MarkOnly ==
    ASSUME ListInv, fmod' \in BOOLEAN, sound' \in BOOLEAN,
           UNCHANGED <<nfree, sfree, flock, disk, used, pc, blk, top, ret, chain>>
    PROVE  ListInv' /\ Unseen
  <1> USE DEF Heads, Listed, Entry, Live, Owned, InHand, Freeing, Carrying
  <1>1. TypeOK'
    BY DEF ListInv, SoundInv, TypeOK
  <1>2. LockHeld' /\ OneBusy' /\ TableHeight' /\ OneOwner' /\ GroupsInChain'
    BY DEF ListInv, SoundInv, LockHeld, OneBusy, Busy, TableHeight, OneOwner,
           GroupsInChain
  <1>3. OnePlace' /\ IndexAtBottom'
    BY DEF ListInv, SoundInv, OnePlace, IndexAtBottom
  <1>4. Linked'
    <2>1. PICK n \in Nat :
             \E f \in [0 .. n -> Blocks \cup {NoBlock}] : Path(n, f) /\ TableEnd(n, f)
      BY DEF ListInv, Linked
    <2>2. PICK f \in [0 .. n -> Blocks \cup {NoBlock}] : Path(n, f) /\ TableEnd(n, f)
      BY <2>1
    <2>3. Path(n, f)' /\ TableEnd(n, f)'
      BY <2>2 DEF Path, TableEnd
    <2> QED
      BY <2>3 DEF Linked
  <1>5. EndAtBottom' /\ Answers'
    BY DEF ListInv, EndAtBottom, Answers
  <1>6. Unseen
    BY DEF Unseen, FreeBlocks, HeldBlocks, Given
  <1> QED
    BY <1>1, <1>2, <1>3, <1>4, <1>5, <1>6 DEF ListInv, SoundInv

LEMMA UpdateList ==
    ASSUME SyncInv, Update
    PROVE  /\ ListInv' /\ Unseen
           /\ UNCHANGED <<nfree, sfree, pc, blk>>
  <1>1. fmod' \in BOOLEAN /\ sound' \in BOOLEAN /\
        UNCHANGED <<nfree, sfree, flock, disk, used, pc, blk, top, ret, chain>>
    BY DEF Update, UpdBegin, UpdClear, UpdCount, UpdEntries, UpdWrite, UpdFails, vars, listVars,
           SyncInv, SyncTypeOK, TypeOK
  <1> QED
    BY <1>1, MarkOnly DEF SyncInv

LEMMA TableType ==
    ASSUME NEW n \in -1 .. StackSize, NEW free,
           \A i \in Entries : free[i] \in Blocks \cup {NoBlock}
    PROVE  /\ Table(n, free) \in [n : -1 .. StackSize,
                                  free : [Entries -> Blocks \cup {NoBlock}]]
           /\ Table(n, free).n = n
           /\ \A i \in Entries : i < n => Table(n, free).free[i] = free[i]
  BY DEF Table

LEMMA UpdateInv ==
    ASSUME SyncInv, Update
    PROVE  SyncInv'
  <1>1. ListInv' /\ UNCHANGED <<nfree, sfree, pc, blk>>
    BY UpdateList
  <1>2. nfree \in -1 .. StackSize /\ 0 \in -1 .. StackSize
    BY SizeAssumption DEF SyncInv, SyncTypeOK, TypeOK, ListInv, SoundInv, TableHeight
  <1>3. \A i \in Entries : sfree[i] \in Blocks \cup {NoBlock}
    BY SizeAssumption DEF SyncInv, SyncTypeOK, TypeOK, Entries
  <1> USE DEF SyncInv, At
  <1>4. CASE UpdBegin
    BY <1>1, <1>4 DEF UpdBegin, vars, listVars, SyncTypeOK, CopyAgrees, ListInv, SoundInv
  <1>5. CASE UpdClear
    BY <1>1, <1>5 DEF UpdClear, SyncTypeOK, CopyAgrees, ListInv, SoundInv
  <1>6. CASE UpdCount
    <2> DEFINE none == [i \in Entries |-> NoBlock]
    <2>1. \A i \in Entries : none[i] \in Blocks \cup {NoBlock}
      OBVIOUS
    <2>2. img' = Table(nfree, none) /\ upd' = "entries" /\ UNCHANGED <<vars, sector, stale>>
      BY <1>6 DEF UpdCount
    <2> HIDE DEF none
    <2>3. SyncTypeOK' /\ img'.n = nfree
      BY <1>1, <1>2, <2>1, <2>2, TableType DEF SyncTypeOK, ListInv, SoundInv
    <2>4. Agrees(img.n, sfree)'
      BY <1>1, <2>3 DEF Agrees
    <2> QED
      BY <1>1, <2>2, <2>3, <2>4 DEF CopyAgrees
  <1>7. CASE UpdEntries
    <2>1. /\ img' = Table(img.n, sfree) /\ upd = "entries" /\ upd' = "write"
          /\ UNCHANGED <<vars, sector, stale>>
      BY <1>7 DEF UpdEntries
    <2>2. /\ SyncTypeOK' /\ img'.n = img.n
          /\ \A i \in Entries : i < img.n => img'.free[i] = sfree[i]
      BY <1>1, <1>3, <2>1, TableType DEF SyncTypeOK, ListInv, SoundInv
    <2>3. ASSUME Settled' PROVE Agrees(img.n, img.free)'
      <3>1. Agrees(img.n, sfree)
        BY <2>1, <2>3 DEF Settled, WillMark, Freeing, Carrying, vars, listVars, CopyAgrees
      <3>2. CASE img.n = nfree
        BY <1>1, <2>2, <3>2 DEF Agrees
      <3>3. CASE Ends(img.n, sfree) /\ Ends(nfree, sfree)
        BY <1>1, <2>2, <3>3, SizeAssumption DEF Agrees, Ends, Entries
      <3> QED
        BY <3>1, <3>2, <3>3 DEF Agrees
    <2> QED
      BY <1>1, <2>1, <2>2, <2>3 DEF CopyAgrees
  <1>8. CASE UpdWrite
    <2>1. /\ sector' = img /\ img' = NoImage /\ upd = "write" /\ upd' = "idle"
          /\ UNCHANGED vars /\ stale' = FALSE
      BY <1>8 DEF UpdWrite
    <2>2. SyncTypeOK'
      BY <1>1, <1>2, <1>3, <2>1, TableType DEF SyncTypeOK, NoImage, ListInv, SoundInv
    <2>3. ASSUME Settled' PROVE Agrees(sector.n, sector.free)'
      <3>1. Agrees(img.n, img.free)
        BY <2>1, <2>3 DEF Settled, WillMark, Freeing, Carrying, vars, listVars, CopyAgrees
      <3> QED
        BY <1>1, <2>1, <3>1 DEF Agrees, Ends
    <2> QED
      BY <1>1, <2>1, <2>2, <2>3 DEF CopyAgrees
  <1>9. CASE UpdFails
    <2>1. img' = NoImage /\ stale' = TRUE /\ upd' = "idle" /\ UNCHANGED <<vars, sector>>
      BY <1>9 DEF UpdFails
    <2>2. SyncTypeOK'
      BY <1>1, <1>2, <1>3, <2>1, TableType DEF SyncTypeOK, NoImage, ListInv, SoundInv
    <2> QED
      BY <1>1, <2>1, <2>2 DEF CopyAgrees
  <1> QED
    BY <1>4, <1>5, <1>6, <1>7, <1>8, <1>9 DEF Update

-----------------------------------------------------------------------------
(* Unmounting and mounting.                                                 *)

\* The table that the mount loads names the blocks the table in memory named.
Reloaded ==
    /\ \A i \in Entries : Live(i)' =>
          (Live(i) /\ sfree'[i] = sfree[i]) \/ (i = 0 /\ sfree'[0] = NoBlock)
    /\ \A i \in Entries : Live(i) /\ sfree[i] # NoBlock => Live(i)' /\ sfree'[i] = sfree[i]

LEMMA RemountTable ==
    ASSUME SyncInv, Remount
    PROVE  /\ nfree' \in 0 .. StackSize
           /\ sfree' \in [Entries -> Blocks \cup {NoBlock}]
           /\ sector'.n = nfree'
           /\ \A i \in Entries : sector'.free[i] = sfree'[i]
           /\ sector' \in [n : -1 .. StackSize, free : [Entries -> Blocks \cup {NoBlock}]]
           /\ \/ nfree' = nfree /\ \A i \in Entries : i < nfree => sfree'[i] = sfree[i]
              \/ Ends(nfree, sfree) /\ Ends(nfree, sfree)'
  <1>1. nfree \in -1 .. StackSize /\ sfree \in [Entries -> Blocks \cup {NoBlock}]
    BY SizeAssumption DEF SyncInv, SyncTypeOK, TypeOK, ListInv, SoundInv, TableHeight
  <1>2. \A i \in Entries : i \in Entries /\ sfree[i] \in Blocks \cup {NoBlock}
    BY <1>1, SizeAssumption DEF Entries
  <1>3. PICK t : t = LastSector
    OBVIOUS
  <1>4. /\ t.n \in 0 .. StackSize /\ nfree' = t.n /\ sector' = t
        /\ sfree' = t.free
    BY <1>3 DEF Remount
  <1>5. CASE fmod
    <2>1. t = Table(nfree, sfree)
      BY <1>3, <1>5 DEF LastSector
    <2>2. /\ t \in [n : -1 .. StackSize, free : [Entries -> Blocks \cup {NoBlock}]]
          /\ t.n = nfree /\ \A i \in Entries : i < nfree => t.free[i] = sfree[i]
      BY <1>1, <1>2, <2>1, TableType
    <2>3. \A i \in Entries : sfree'[i] = t.free[i]
      BY <1>2, <1>4
    <2>4. sfree' \in [Entries -> Blocks \cup {NoBlock}]
      BY <1>1, <1>4, <2>2
    <2> QED
      BY <1>4, <2>2, <2>3, <2>4
  <1>6. CASE ~fmod
    <2>1. t = sector
      BY <1>3, <1>6 DEF LastSector
    <2>2. t \in [n : -1 .. StackSize, free : [Entries -> Blocks \cup {NoBlock}]]
      BY <2>1 DEF SyncInv, SyncTypeOK
    <2>3. \A i \in Entries : sfree'[i] = t.free[i]
      BY <1>2, <1>4
    <2>4. sfree' \in [Entries -> Blocks \cup {NoBlock}]
      BY <1>1, <1>4, <2>2
    <2>5. Settled /\ upd = "idle" /\ ~stale
      BY <1>6 DEF Remount, Idle, Settled, WillMark, Freeing, Carrying, FreePcs
    <2>6. Agrees(t.n, t.free)
      BY <2>1, <2>5 DEF SyncInv, CopyAgrees
    <2>7. Ends(t.n, t.free) => Ends(nfree, sfree)'
      BY <1>4, <2>3, SizeAssumption DEF Ends, Entries
    <2> QED
      BY <1>4, <2>2, <2>3, <2>4, <2>6, <2>7 DEF Agrees
  <1> QED
    BY <1>5, <1>6

LEMMA RemountList ==
    ASSUME SyncInv, Remount
    PROVE  ListInv' /\ Unseen
  <1> USE DEF SyncInv, ListInv, SoundInv
  <1>1. /\ \A q \in Procs : pc[q] = "idle" /\ ~InHand(q) /\ ~Freeing(q) /\ ~Carrying(q)
        /\ UNCHANGED <<flock, disk, used, pc, blk, top, ret, chain>> /\ fmod' = FALSE
    BY DEF Remount, Idle, InHand, Freeing, Carrying, FreePcs
  <1>2. /\ nfree' \in 0 .. StackSize
        /\ sfree' \in [Entries -> Blocks \cup {NoBlock}]
        /\ nfree \in -1 .. StackSize
    BY RemountTable, SizeAssumption DEF TypeOK, TableHeight
  <1>3. Reloaded
    <2>1. \A i : (Live(i) <=> i < nfree) /\ (Live(i)' <=> i < nfree')
      BY <1>1 DEF Live
    <2>3. CASE nfree' = nfree /\ \A i \in Entries : i < nfree => sfree'[i] = sfree[i]
      BY <2>1, <2>3 DEF Reloaded
    <2>4. CASE Ends(nfree, sfree) /\ Ends(nfree, sfree)'
      BY <1>2, <2>1, <2>4, SizeAssumption DEF Reloaded, Ends, Entries
    <2> QED
      BY <2>3, <2>4, RemountTable
  <1>4. TypeOK'
    <2>1. nfree' \in -1 .. StackSize
      BY <1>2, SizeAssumption
    <2>2. fmod' \in BOOLEAN /\ sound' \in BOOLEAN
      BY <1>1 DEF Remount, TypeOK
    <2>3. TypeOK
      OBVIOUS
    <2> QED
      BY <1>1, <1>2, <2>1, <2>2, <2>3 DEF TypeOK
  <1>5. LockHeld' /\ OneBusy' /\ OneOwner' /\ GroupsInChain' /\ Answers'
    BY <1>1 DEF LockHeld, OneBusy, Busy, Freeing, OneOwner, InHand, Carrying, GroupsInChain,
                Answers
  <1>6. TableHeight'
    BY <1>1, <1>2 DEF TableHeight
  <1>7. /\ Heads' = Heads /\ NoBlock \in Heads
        /\ \A h \in Heads : h # NoBlock => \A i \in Entries :
              (Listed(h, i)' <=> Listed(h, i)) /\ Entry(h, i)' = Entry(h, i)
        /\ \A i \in Entries : /\ Listed(NoBlock, i) <=> Live(i)
                            /\ Listed(NoBlock, i)' <=> Live(i)'
                            /\ Entry(NoBlock, i) = sfree[i] /\ Entry(NoBlock, i)' = sfree'[i]
    BY <1>1 DEF Heads, Listed, Entry
  <1>8. \A h \in Heads : \A i \in Entries : Listed(h, i)' =>
           \/ Listed(h, i) /\ Entry(h, i)' = Entry(h, i)
           \/ i = 0 /\ Entry(h, i)' = NoBlock
    BY <1>1, <1>3 DEF Reloaded, Heads, Listed, Entry
  <1>9. \A h \in Heads : \A i \in Entries : Listed(h, i) /\ Entry(h, i) # NoBlock =>
           Listed(h, i)' /\ Entry(h, i)' = Entry(h, i)
    BY <1>1, <1>3 DEF Reloaded, Heads, Listed, Entry
  <1>10. \A b \in Blocks : Owned(b)' => Owned(b)
    BY <1>1 DEF Owned, InHand, Freeing, Carrying
  <1>11. OnePlace'
    BY <1>4, <1>7, <1>8, <1>10, ListedFrame
  <1>12. IndexAtBottom'
    <2>1. NoBlock \notin chain
      BY DEF TypeOK, Blocks, NoBlock
    <2>2. \A q \in Procs : ~InHand(q)'
      BY <1>1 DEF InHand, Freeing, Carrying
    <2> QED
      BY <1>1, <1>7, <1>8, <2>1, <2>2 DEF IndexAtBottom
  <1>13. EndAtBottom'
    BY <1>1, <1>7, <1>8 DEF EndAtBottom
  <1>14. Linked'
    <2>1. PICK n \in Nat :
             \E f \in [0 .. n -> Blocks \cup {NoBlock}] : Path(n, f) /\ TableEnd(n, f)
      BY DEF Linked
    <2>2. PICK f \in [0 .. n -> Blocks \cup {NoBlock}] : Path(n, f) /\ TableEnd(n, f)
      BY <2>1
    <2>3. Path(n, f)'
      BY <1>1, <2>2, SamePath
    <2>4. \A q \in Procs : pc'[q] = "idle"
      BY <1>1
    <2>5. nfree = 0 => n = 0
      BY <1>1, <2>2 DEF TableEnd
    <2>6. nfree' >= 1 => sfree'[0] = f[n]
      <3>1. CASE nfree' = nfree /\ \A i \in Entries : i < nfree => sfree'[i] = sfree[i]
        BY <1>2, <2>2, <3>1, SizeAssumption DEF TableEnd, Entries
      <3>2. CASE Ends(nfree, sfree) /\ Ends(nfree, sfree)' /\ nfree' >= 1
        <4>1. f[n] = NoBlock
          BY <1>2, <2>2, <2>5, <3>2 DEF TableEnd, Ends, Path
        <4> QED
          BY <1>2, <3>2, <4>1 DEF Ends
      <3> QED
        BY <3>1, <3>2, RemountTable
    <2>7. nfree' = 0 => n = 0
      <3>1. CASE nfree' = nfree
        BY <2>5, <3>1
      <3>2. CASE Ends(nfree, sfree)
        <4>1. f[n] = NoBlock
          BY <1>2, <2>2, <2>5, <3>2 DEF TableEnd, Ends, Path
        <4> QED
          BY <2>2, <4>1 DEF Path
      <3> QED
        BY <3>1, <3>2, RemountTable
    <2>8. TableEnd(n, f)'
      BY <1>2, <2>4, <2>6, <2>7 DEF TableEnd
    <2> QED
      BY <2>3, <2>8 DEF Linked
  <1>15. FreeBlocks' = FreeBlocks
    <2>1. \A q \in Procs : ~Freeing(q)'
      BY <1>1 DEF Freeing
    <2>2. \A b \in Blocks : b # NoBlock
      BY DEF Blocks, NoBlock
    <2> QED
      BY <1>1, <1>7, <1>8, <1>9, <2>1, <2>2 DEF FreeBlocks
  <1>16. HeldBlocks' = HeldBlocks /\ Given' = Given
    BY <1>1 DEF HeldBlocks, Owned, InHand, Freeing, Given, Carrying
  <1> QED
    BY <1>4, <1>5, <1>6, <1>11, <1>12, <1>13, <1>14, <1>15, <1>16 DEF Unseen

LEMMA RemountInv ==
    ASSUME SyncInv, Remount
    PROVE  SyncInv'
  <1>1. ListInv'
    BY RemountList
  <1>2. upd' = "idle" /\ img' = img /\ stale' = FALSE
    BY DEF Remount, Idle
  <1>3. SyncTypeOK'
    BY <1>1, <1>2, RemountTable DEF SyncInv, SyncTypeOK, ListInv, SoundInv
  <1>4. Agrees(sector.n, sector.free)'
    BY RemountTable DEF Agrees
  <1> QED
    BY <1>1, <1>2, <1>3, <1>4 DEF SyncInv, CopyAgrees

-----------------------------------------------------------------------------
(* The theorems.                                                            *)

LEMMA SyncStart == SyncInit => SyncInv
  <1> SUFFICES ASSUME SyncInit PROVE SyncInv
    OBVIOUS
  <1>1. ListInv
    BY ListInit DEF SyncInit
  <1>2. /\ nfree \in -1 .. StackSize /\ 0 \in -1 .. StackSize
        /\ \A i \in Entries : sfree[i] \in Blocks \cup {NoBlock}
    BY <1>1, SizeAssumption
    DEF ListInv, SoundInv, TypeOK, TableHeight, Entries
  <1>3. sector.n = nfree /\ \A i \in Entries : i < nfree => sector.free[i] = sfree[i]
    BY <1>2, TableType DEF SyncInit
  <1>4. SyncTypeOK
    BY <1>1, <1>2, TableType DEF SyncInit, SyncTypeOK, NoImage, ListInv, SoundInv
  <1> QED
    BY <1>1, <1>3, <1>4 DEF SyncInit, SyncInv, CopyAgrees, Agrees

LEMMA SyncStep ==
    ASSUME SyncInv, [SyncNext]_allVars
    PROVE  SyncInv' /\ [Abstract!Next]_(Abstract!vars)
  <1>1. NoFaults
    BY GroupsAssumption DEF NoFaults
  <1>2. Unseen => UNCHANGED Abstract!vars
    BY DEF Unseen, Given, Abstract!vars
  <1>3. CASE UNCHANGED allVars
    <2>1. UNCHANGED vars /\ UNCHANGED <<sector, upd, img, stale>>
      BY <1>3 DEF allVars, syncVars
    <2>2. ListInv' /\ [Abstract!Next]_(Abstract!vars)
      BY <1>1, <2>1, ListNext, StepRefines DEF SyncInv
    <2>3. SyncTypeOK'
      BY <2>1, <2>2 DEF SyncInv, SyncTypeOK, ListInv, SoundInv
    <2>4. (Settled' => CopyAgrees') /\ (upd' = "clear" => fmod')
      BY <2>1 DEF SyncInv, Settled, WillMark, Freeing, Carrying, vars, listVars, CopyAgrees, Agrees, Ends
    <2> QED
      BY <2>2, <2>3, <2>4 DEF SyncInv
  <1>4. CASE Update
    BY <1>2, <1>4, UpdateInv, UpdateList
  <1>5. CASE Remount
    BY <1>2, <1>5, RemountInv, RemountList
  <1>6. ASSUME sound, NEW p \in Procs, TableStep(p)
        PROVE  SyncInv' /\ [Abstract!Next]_(Abstract!vars)
    <2>1. Next
      BY <1>6 DEF TableStep, Next
    <2> QED
      BY <1>1, <1>6, <2>1, TableStepInv, StepRefines DEF SyncInv
  <1> QED
    BY <1>3, <1>4, <1>5, <1>6 DEF SyncNext

\* The invariant of the SuperBlock and its sector, through every mount.
THEOREM SyncCorrect == SyncSpec => []SyncInv
  <1>1. SyncInv /\ [SyncNext]_allVars => SyncInv'
    BY SyncStep
  <1> QED
    BY <1>1, SyncStart, PTL DEF SyncSpec

\* The sector, the buffer that Update writes it from, and Update's place keep their types.
\* A count of -1 is among them: Update copies it while an Alloc that found the table empty
\* stands between its decrement and its read, and no mount takes it from the sector.
THEOREM SyncTypeCorrect == SyncSpec => []SyncTypeOK
  <1>1. SyncInv => SyncTypeOK
    BY DEF SyncInv
  <1> QED
    BY <1>1, SyncCorrect, PTL

\* A clean SuperBlock that nobody uses is on the disk: its sector names the blocks the
\* table names, whatever an earlier Update has met half done.
THEOREM CleanMeansListedCorrect == SyncSpec => []CleanMeansListed
  <1>1. SyncInv => CleanMeansListed
    <2> SUFFICES ASSUME SyncInv, Idle, ~fmod, ~stale
                 PROVE  Named(sector) = Named(Table(nfree, sfree))
      BY DEF CleanMeansListed
    <2>1. Agrees(sector.n, sector.free)
      BY DEF SyncInv, CopyAgrees, Settled, WillMark, Idle, Freeing, Carrying, FreePcs
    <2>2. /\ nfree \in -1 .. StackSize
          /\ \A i \in Entries : sfree[i] \in Blocks \cup {NoBlock}
      BY SizeAssumption
      DEF SyncInv, ListInv, SoundInv, TypeOK, TableHeight, Entries
    <2>3. PICK t : t = Table(nfree, sfree)
      OBVIOUS
    <2>4. t.n = nfree /\ \A i \in Entries : i < nfree => t.free[i] = sfree[i]
      BY <2>2, <2>3, TableType
    <2>5. Named(sector) = Named(t)
      <3>1. CASE sector.n = nfree /\ \A i \in Entries : i < nfree => sector.free[i] = sfree[i]
        BY <2>4, <3>1 DEF Named
      <3>2. CASE Ends(sector.n, sector.free) /\ Ends(nfree, sfree)
        <4>1. \A i \in Entries : i < t.n => t.free[i] = NoBlock
          BY <2>2, <2>4, <3>2, SizeAssumption DEF Ends, Entries
        <4>2. sector.n \in Int
          BY SizeAssumption DEF SyncInv, SyncTypeOK
        <4>3. \A i \in Entries : i < sector.n => sector.free[i] = NoBlock
          BY <3>2, <4>2, SizeAssumption DEF Ends, Entries
        <4> QED
          BY <4>1, <4>3 DEF Named
      <3> QED
        BY <2>1, <3>1, <3>2 DEF Agrees
    <2> QED
      BY <2>3, <2>5
  <1> QED
    BY <1>1, SyncCorrect, PTL

\* The list on the disk and in memory goes on implementing the abstract allocator
\* through every Update and every mount: unmounting neither loses nor invents a block.
THEOREM SyncImplements == SyncSpec => Implements
  <1>1. SyncInv /\ [SyncNext]_allVars => SyncInv' /\ [Abstract!Next]_(Abstract!vars)
    BY SyncStep
  <1>2. SyncInit => Abstract!Init
    BY InitRefines DEF SyncInit
  <1> QED
    BY <1>1, <1>2, SyncStart, PTL DEF SyncSpec, Implements, Abstract!Spec
=============================================================================
